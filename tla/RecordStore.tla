----------------------------- MODULE RecordStore -----------------------------
(* What LocalCache promises its readers: every call takes effect on the       *)
(* records at once and as a whole, or, when its process dies, not at all.     *)

CONSTANTS Ids, Recs, Writers, None

VARIABLES
    store,    \* [Ids -> record or None]
    op        \* [Writers -> the request a writer is about to carry out or None]

Requests == [kind : {"put"}, id : Ids, rec : Recs]
              \cup [kind : {"remove"}, id : Ids]
              \cup [kind : {"clear"}]

Init == store = [i \in Ids |-> None] /\ op = [w \in Writers |-> None]

Begin(w, q) ==
    /\ op[w] = None
    /\ op' = [op EXCEPT ![w] = q]
    /\ UNCHANGED store

Effect(q) == CASE q.kind = "put"    -> [store EXCEPT ![q.id] = q.rec]
               [] q.kind = "remove" -> [store EXCEPT ![q.id] = None]
               [] q.kind = "clear"  -> [i \in Ids |-> None]

Apply(w) ==
    /\ op[w] \in Requests
    /\ store' = Effect(op[w])
    /\ op' = [op EXCEPT ![w] = None]

\* The process dies, or a statement before the effect raises.
Abandon(w) ==
    /\ op' = [op EXCEPT ![w] = None]
    /\ UNCHANGED store

Next == \E w \in Writers : Apply(w) \/ Abandon(w) \/ \E q \in Requests : Begin(w, q)

Spec == Init /\ [][Next]_<<store, op>>
=============================================================================
