------------------------------- MODULE Listing -------------------------------
(* What a caller of BitableClient.list_records may rely on: the answer is the *)
(* table as it was at one moment of the call.  SyncService is modelled with   *)
(* such listings.                                                             *)
EXTENDS Sequences

CONSTANTS RowIds, NoAnswer

VARIABLES
    table,    \* the ids of the rows of the Bitable, in the order it lists them
    answer    \* what list_records returned, NoAnswer before it does

Init == table = <<>> /\ answer = NoAnswer

\* Rows come and go, and so may the table.
Change == /\ table' \in Seq(RowIds)
          /\ UNCHANGED answer

\* A call begins, or ends in an error.
Ask == answer' = NoAnswer /\ UNCHANGED table

Answer == /\ answer = NoAnswer
          /\ answer' = table
          /\ UNCHANGED table

Next == Change \/ Ask \/ Answer

Spec == Init /\ [][Next]_<<table, answer>>
=============================================================================
