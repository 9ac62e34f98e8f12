----------------------------- MODULE SchemaSetup -----------------------------
(* `feishu-memory init` on several machines at once: for one library after the *)
(* other, ensure_bitable_schema lists the columns of its Bitable and creates   *)
(* what seems missing, while the owner adds and removes columns in the Feishu  *)
(* UI and lark-cli ends in every way the runner knows.                         *)
EXTENDS LarkCli, Sequences

CONSTANTS
    Expected,    \* EXPECTED_BITABLE_FIELDS, a sequence of names
    Scopes,      \* the libraries in the order of init: memory, knowledge
    Machines,
    Reliable     \* a machine on which init is run again and again

Names == {Expected[k] : k \in DOMAIN Expected}
Last  == Len(Scopes)

ASSUME SetupAssumption ==
    /\ Len(Expected) \in Nat /\ DOMAIN Expected = 1..Len(Expected)
    /\ Last \in Nat \ {0}
    /\ Reliable \in Machines

VARIABLES
    fields,     \* [library -> those of the expected columns that its Bitable has]
    run         \* [Machines -> where init is, and the locals of its call]

vars == <<fields, run>>

\* scope: the library that init is at, 0 outside of init; step: 0 before the
\* columns are listed, then the next column to look at; removed: the columns
\* that the owner removed since they were listed (history).
Idle == [scope |-> 0, step |-> 0, existing |-> {}, report |-> "clean", removed |-> {}]

Init == /\ fields \in [1..Last -> SUBSET Names]
        /\ run = [p \in Machines |-> Idle]

At(p, s, k) == run[p].scope = s /\ run[p].step = k

-----------------------------------------------------------------------------
(* Feishu: the owner, and the ends of +field-list and +field-create.          *)

AddColumn(s, f) ==
    /\ fields' = [fields EXCEPT ![s] = @ \cup {f}]
    /\ UNCHANGED run

RemoveColumn(s, f) ==
    /\ f \in fields[s]
    /\ fields' = [fields EXCEPT ![s] = @ \ {f}]
    /\ run' = [p \in Machines |->
                  IF run[p].scope = s /\ run[p].step # 0
                  THEN [run[p] EXCEPT !.removed = @ \cup {f}] ELSE run[p]]

\* The forms of a list of columns: the one the tests give, those that the
\* schema command reads, and an output that cannot be read.
FieldLists(s) == {Exit(0, out, "other") : out \in {
    [items |-> fields[s]],
    [ok |-> TRUE, data |-> [fields |-> fields[s]]],
    [code |-> 0, data |-> [items |-> fields[s]]],
    Text}}

\* What the runner raises for the ends of a call that was carried out, and of
\* one that fails.
Raised(ends) == {LarkRun(end).raised : end \in ends}
DoneRaises   == Raised({Exit(0, out, "other") : out \in {Text, [ok |-> TRUE], [code |-> 0]}})
ErrorRaises  == Raised({Exit(1, Text, err) : err \in {"envelope", "nameless", "other"}}
                       \cup RefusedEnds \cup {NoExit})

-----------------------------------------------------------------------------
(* _cmd_init *)

Start(p) ==
    /\ run[p].scope = 0
    /\ run' = [run EXCEPT ![p] = [Idle EXCEPT !.scope = 1]]
    /\ UNCHANGED fields

NextScope(p) ==
    run' = [run EXCEPT ![p] = IF @.scope = Last THEN Idle
                              ELSE [Idle EXCEPT !.scope = run[p].scope + 1]]

\* A library without a token or a table in the environment is passed over.
NotSet(p) ==
    /\ run[p].scope # 0 /\ run[p].step = 0
    /\ NextScope(p)
    /\ UNCHANGED fields

\* Wrong variant: what is raised for one library ends init.
SkippedEnds(p) == run' = [run EXCEPT ![p] = Idle]

\* "setup skipped": what is raised for one library is printed.
Skipped(p) == NextScope(p)

-----------------------------------------------------------------------------
(* ensure_bitable_schema *)

\* result.get("items", [])
Items(result) == FieldOr(result, "items", {})

List(p) ==
    /\ run[p].scope # 0 /\ run[p].step = 0
    /\ \E end \in FieldLists(run[p].scope) :
          run' = [run EXCEPT ![p].step = 1, ![p].existing = Items(LarkRun(end).value)]
    /\ UNCHANGED fields

\* "list fields failed" is all that is reported of the library, or it is
\* skipped.
ListFails(p) ==
    /\ run[p].scope # 0 /\ run[p].step = 0
    /\ \E exception \in ErrorRaises :
          IF exception = "LarkCliError" THEN NextScope(p) ELSE Skipped(p)
    /\ UNCHANGED fields

Turn(p)   == run[p].scope # 0 /\ run[p].step \in DOMAIN Expected
Column(p) == Expected[run[p].step]
GoOn(p, report) == run' = [run EXCEPT ![p].step = @ + 1, ![p].report = report]

Skip(p) ==
    /\ Turn(p)
    /\ Column(p) \in run[p].existing
    /\ GoOn(p, run[p].report)
    /\ UNCHANGED fields

\* +field-create; Feishu takes a name once.
Create(p) ==
    /\ Turn(p)
    /\ Column(p) \notin run[p].existing
    /\ Column(p) \notin fields[run[p].scope]
    /\ fields' = [fields EXCEPT ![run[p].scope] = @ \cup {Column(p)}]
    /\ "nothing" \in DoneRaises
    /\ GoOn(p, run[p].report)

\* A call that fails before or after Feishu created the column.
CreateEndsIn(p, exception) ==
    /\ Turn(p)
    /\ exception \in ErrorRaises
    /\ Column(p) \notin run[p].existing
    /\ fields' \in {fields, [fields EXCEPT ![run[p].scope] = @ \cup {Column(p)}]}

\* Wrong variant: the loop goes on to the report of success.
CreateFailsUnnoticed(p) ==
    /\ CreateEndsIn(p, "LarkCliError")
    /\ GoOn(p, run[p].report)

\* The error is collected and the loop goes on ...
CreateFails(p) ==
    /\ CreateEndsIn(p, "LarkCliError")
    /\ GoOn(p, "errors")

\* ... unless it is none that the loop expects.
CreateRaises(p) ==
    /\ CreateEndsIn(p, "KeyError")
    /\ Skipped(p)

Complete(p) == run[p].scope # 0 /\ run[p].step = Len(Expected) + 1

Report(p) ==
    /\ Complete(p)
    /\ NextScope(p)
    /\ UNCHANGED fields

\* init is interrupted.
Interrupt(p) ==
    /\ run[p].scope # 0
    /\ run' = [run EXCEPT ![p] = Idle]
    /\ UNCHANGED fields

GoodStep(p) == List(p) \/ Skip(p) \/ Create(p) \/ CreateFails(p) \/ Report(p)
InitStep(p) == GoodStep(p) \/ Start(p) \/ NotSet(p) \/ ListFails(p) \/ CreateRaises(p)
Owner == \E s \in 1..Last, f \in Names : AddColumn(s, f) \/ RemoveColumn(s, f)

Next == Owner \/ \E p \in Machines : InitStep(p) \/ Interrupt(p)

Spec == Init /\ [][Next]_vars

\* init is run again and again on one machine, where the last library has its
\* token, and none of its calls for that library fails for ever, or ends for
\* ever in an error without a message.  Of the other libraries nothing is
\* assumed.
Fairness ==
    /\ WF_vars(InitStep(Reliable))
    /\ \A k \in 1..Len(Expected) :
          /\ SF_vars(At(Reliable, Last, k - 1) /\ GoodStep(Reliable))
          /\ SF_vars(At(Reliable, Last, k) /\ Create(Reliable))

FairSpec == Spec /\ Fairness

-----------------------------------------------------------------------------
\* A report without errors means a complete schema, whatever failed, and
\* whatever other machines and the owner did meanwhile, except for columns
\* that the owner removed since they were listed.
CleanMeansComplete ==
    \A p \in Machines :
        Complete(p) /\ run[p].report = "clean"
            => Names \subseteq fields[run[p].scope] \cup run[p].removed

\* However the setup of one library goes, that of the next gets through: once
\* the owner takes no column of the last one away and no init is killed, its
\* schema becomes complete and stays so.
Quiet == /\ \A p \in Machines : ~Interrupt(p)
         /\ \A f \in Names : ~RemoveColumn(Last, f)
EventuallyComplete == <>[][Quiet]_vars => <>[](Names \subseteq fields[Last])
=============================================================================
