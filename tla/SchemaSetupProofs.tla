-------------------------- MODULE SchemaSetupProofs --------------------------
(* A clean report of ensure_bitable_schema means a complete schema, for any   *)
(* number of machines, libraries and columns.                                 *)
EXTENDS SchemaSetup, TLAPS

Runs == [scope : 0..Last, step : 0..(Len(Expected) + 1),
         existing : SUBSET Names, report : {"clean", "errors"}, removed : SUBSET Names]

TypeOK == /\ fields \in [1..Last -> SUBSET Names]
          /\ run \in [Machines -> Runs]

\* While nothing has failed, every column before the next one is there or was
\* removed by the owner; and so is every column that the list had.
Accounted(p) ==
    run[p].scope # 0 /\ run[p].step # 0 =>
        LET known == fields[run[p].scope] \cup run[p].removed IN
        /\ run[p].existing \subseteq known
        /\ run[p].report = "clean" =>
               \A k \in DOMAIN Expected : k < run[p].step => Expected[k] \in known

Inv == TypeOK /\ \A p \in Machines : Accounted(p)

LEMMA InitInv == ASSUME Init PROVE Inv
  <1>1. Idle \in Runs BY SetupAssumption DEF Idle, Runs
  <1>2. Idle.scope = 0 BY DEF Idle
  <1> QED BY <1>1, <1>2 DEF Init, Inv, TypeOK, Accounted

\* Whatever form the list of columns has, what init reads of it is there.
LEMMA ItemsExist ==
    ASSUME NEW s \in 1..Last, NEW end \in FieldLists(s)
    PROVE  Items(LarkRun(end).value) \subseteq fields[s]
  <1>1. CASE end = Exit(0, [items |-> fields[s]], "other")
    BY <1>1 DEF Exit, LarkRun, RefusedBy, Promoted, HasField, FieldOr, Answer, Items
  <1>2. CASE end = Exit(0, [ok |-> TRUE, data |-> [fields |-> fields[s]]], "other")
    BY <1>2 DEF Exit, LarkRun, RefusedBy, Promoted, HasField, FieldOr, Answer, Items
  <1>3. CASE end = Exit(0, [code |-> 0, data |-> [items |-> fields[s]]], "other")
    BY <1>3 DEF Exit, LarkRun, RefusedBy, Promoted, HasField, FieldOr, Answer, Items
  <1>4. CASE end = Exit(0, Text, "other")
    BY <1>4 DEF Exit, LarkRun, RefusedBy, Promoted, HasField, FieldOr, Answer, Items, Text
  <1> QED BY <1>1, <1>2, <1>3, <1>4 DEF FieldLists

\* A step that leaves a run as it is and takes no column away keeps it
\* accounted for.
LEMMA KeepsAccounts ==
    ASSUME Inv, NEW p \in Machines, run'[p] = run[p], TypeOK',
           \A s \in 1..Last : fields[s] \subseteq fields'[s]
    PROVE  Accounted(p)'
  <1>1. Accounted(p) BY DEF Inv
  <1>2. run[p].scope \in 0..Last BY DEF Inv, TypeOK, Runs
  <1> QED BY <1>1, <1>2, SetupAssumption DEF Accounted

\* Init on p takes a step that ends outside of a list of columns.
LEMMA LeavesScope ==
    ASSUME Inv, NEW p \in Machines, NEW r \in Runs, run' = [run EXCEPT ![p] = r],
           r.scope = 0 \/ r.step = 0, fields' \in [1..Last -> SUBSET Names],
           \A s \in 1..Last : fields[s] \subseteq fields'[s]
    PROVE  Inv'
  <1>1. TypeOK' BY DEF Inv, TypeOK
  <1>2. Accounted(p)' BY DEF Accounted, Inv, TypeOK
  <1>3. \A q \in Machines : q # p => Accounted(q)' BY <1>1, KeepsAccounts DEF Inv, TypeOK
  <1> QED BY <1>1, <1>2, <1>3 DEF Inv

LEMMA NextScopeKeeps ==
    ASSUME Inv, NEW p \in Machines, run[p].scope # 0, NextScope(p),
           fields' \in [1..Last -> SUBSET Names],
           \A s \in 1..Last : fields[s] \subseteq fields'[s]
    PROVE  Inv'
  <1>1. run[p].scope \in 0..Last /\ Idle \in Runs
    BY SetupAssumption DEF Inv, TypeOK, Runs, Idle
  <1> DEFINE r == IF run[p].scope = Last THEN Idle
                  ELSE [Idle EXCEPT !.scope = run[p].scope + 1]
  <1>2. r \in Runs /\ (r.scope = 0 \/ r.step = 0)
    BY <1>1, SetupAssumption DEF Runs, Idle
  <1>3. run' = [run EXCEPT ![p] = r] BY DEF NextScope, Inv, TypeOK
  <1> HIDE DEF r
  <1> QED BY <1>2, <1>3, LeavesScope

\* A column is there, or its error is collected, and the loop goes on.
LEMMA GoOnKeeps ==
    ASSUME Inv, NEW p \in Machines, Turn(p), NEW report \in {"clean", "errors"}, GoOn(p, report),
           fields' \in [1..Last -> SUBSET Names],
           \A s \in 1..Last : fields[s] \subseteq fields'[s],
           report = "clean" =>
              /\ run[p].report = "clean"
              /\ Column(p) \in fields'[run[p].scope] \cup run[p].removed
    PROVE  Inv'
  <1>1. run[p] \in Runs /\ run[p].scope \in 1..Last /\ run[p].step \in 1..Len(Expected)
        /\ Len(Expected) \in Nat
    BY SetupAssumption DEF Inv, TypeOK, Runs, Turn
  <1> DEFINE r == [run[p] EXCEPT !.step = @ + 1, !.report = report]
  <1>2. /\ r \in Runs /\ r.scope = run[p].scope /\ r.existing = run[p].existing
        /\ r.removed = run[p].removed /\ r.step = run[p].step + 1 /\ r.report = report
    <2>1. run[p].step + 1 \in 0..(Len(Expected) + 1) BY <1>1
    <2> DEFINE next == run[p].step + 1
    <2>2. next \in 0..(Len(Expected) + 1) /\ r = [run[p] EXCEPT !.step = next, !.report = report]
      BY <2>1
    <2>3. next = run[p].step + 1 OBVIOUS
    <2> HIDE DEF r, next
    <2> QED BY <1>1, <2>2, <2>3 DEF Runs
  <1>3. run' = [run EXCEPT ![p] = r] BY DEF GoOn, Inv, TypeOK
  <1> HIDE DEF r
  <1>4. TypeOK' BY <1>2, <1>3 DEF Inv, TypeOK
  <1>5. run'[p] = r BY <1>3 DEF Inv, TypeOK
  <1>6. Accounted(p)'
    <2> DEFINE known == fields'[r.scope] \cup r.removed
    <2>1. /\ run[p].existing \subseteq fields[run[p].scope] \cup run[p].removed
          /\ run[p].report = "clean" => \A k \in DOMAIN Expected :
                k < run[p].step => Expected[k] \in fields[run[p].scope] \cup run[p].removed
      BY <1>1 DEF Inv, Accounted
    <2>2. r.existing \subseteq known BY <1>1, <1>2, <2>1
    <2>3. ASSUME report = "clean", NEW k \in DOMAIN Expected, k < r.step PROVE Expected[k] \in known
      <3>1. k \in 1..Len(Expected) BY SetupAssumption
      <3>2. CASE k = run[p].step BY <1>1, <1>2, <2>3, <3>2 DEF Column
      <3>3. CASE k < run[p].step BY <1>1, <1>2, <2>1, <2>3, <3>3
      <3> QED BY <1>1, <1>2, <2>3, <3>1, <3>2, <3>3
    <2> QED BY <1>2, <1>5, <2>2, <2>3 DEF Accounted
  <1>7. \A q \in Machines : q # p => Accounted(q)'
    BY <1>3, <1>4, KeepsAccounts DEF Inv, TypeOK
  <1> QED BY <1>4, <1>6, <1>7 DEF Inv

LEMMA OwnerKeeps ==
    ASSUME Inv, Owner
    PROVE  Inv'
  <1>1. PICK s \in 1..Last, f \in Names : AddColumn(s, f) \/ RemoveColumn(s, f) BY DEF Owner
  <1>2. CASE AddColumn(s, f)
    <2>1. TypeOK' /\ \A t \in 1..Last : fields[t] \subseteq fields'[t]
      BY <1>2 DEF AddColumn, Inv, TypeOK
    <2> QED BY <1>2, <2>1, KeepsAccounts DEF AddColumn, Inv
  <1>3. CASE RemoveColumn(s, f)
    <2>1. ASSUME NEW p \in Machines
          PROVE  /\ run'[p] \in Runs /\ run'[p].scope = run[p].scope
                 /\ run'[p].step = run[p].step /\ run'[p].existing = run[p].existing
                 /\ run'[p].report = run[p].report
                 /\ run'[p].removed = IF run[p].scope = s /\ run[p].step # 0
                                      THEN run[p].removed \cup {f} ELSE run[p].removed
      <3>1. run[p] \in Runs BY DEF Inv, TypeOK
      <3>2. run'[p] = IF run[p].scope = s /\ run[p].step # 0
                      THEN [run[p] EXCEPT !.removed = @ \cup {f}] ELSE run[p]
        BY <1>3 DEF RemoveColumn
      <3> QED BY <3>1, <3>2 DEF Runs
    <2>2. TypeOK' BY <1>3, <2>1 DEF RemoveColumn, Inv, TypeOK
    <2>3. ASSUME NEW p \in Machines PROVE Accounted(p)'
      <3>1. Accounted(p) /\ run[p].scope \in 0..Last BY DEF Inv, TypeOK, Runs
      <3>2. ASSUME run[p].scope # 0, run[p].step # 0
            PROVE  fields[run[p].scope] \cup run[p].removed
                     \subseteq fields'[run[p].scope] \cup run'[p].removed
        BY <1>3, <2>1, <3>1, <3>2 DEF RemoveColumn, Inv, TypeOK
      <3> QED BY <2>1, <3>1, <3>2 DEF Accounted
    <2> QED BY <2>2, <2>3 DEF Inv
  <1> QED BY <1>1, <1>2, <1>3

LEMMA StepInv ==
    ASSUME Inv, [Next]_vars
    PROVE  Inv'
  <1>0. fields \in [1..Last -> SUBSET Names] BY DEF Inv, TypeOK
  <1>1. ASSUME NEW p \in Machines, Start(p) \/ Interrupt(p) PROVE Inv'
    <2>1. PICK r \in Runs : run' = [run EXCEPT ![p] = r] /\ r.step = 0 /\ fields' = fields
      BY <1>1, SetupAssumption DEF Start, Interrupt, Idle, Runs
    <2> QED BY <1>0, <2>1, LeavesScope
  <1>2. ASSUME NEW p \in Machines, NotSet(p) \/ ListFails(p) \/ Report(p) PROVE Inv'
    BY <1>0, <1>2, NextScopeKeeps DEF NotSet, ListFails, Report, Skipped, Complete
  <1>3. ASSUME NEW p \in Machines, List(p) PROVE Inv'
    <2>0. run[p] \in Runs /\ run[p].scope \in 1..Last
      BY <1>3, SetupAssumption DEF List, Inv, TypeOK, Runs
    <2>1. PICK items \in SUBSET fields[run[p].scope] :
             run' = [run EXCEPT ![p].step = 1, ![p].existing = items]
      BY <1>3, <2>0, ItemsExist DEF List
    <2> DEFINE r == [run[p] EXCEPT !.step = 1, !.existing = items]
    <2>2. r \in Runs /\ r.existing = items /\ r.step = 1 /\ r.scope = run[p].scope
      <3>1. 1 \in 0..(Len(Expected) + 1) /\ items \in SUBSET Names
        BY <1>0, <2>0, SetupAssumption
      <3> QED BY <2>0, <3>1 DEF Runs
    <2>3. run' = [run EXCEPT ![p] = r] BY <2>1 DEF Inv, TypeOK
    <2> HIDE DEF r
    <2>4. TypeOK' /\ fields' = fields BY <1>3, <2>2, <2>3 DEF List, Inv, TypeOK
    <2>5. Accounted(p)'
      <3>1. run'[p] = r BY <2>3 DEF Inv, TypeOK
      <3>2. \A k \in DOMAIN Expected : ~(k < 1) BY SetupAssumption
      <3> QED BY <2>1, <2>2, <2>4, <3>1, <3>2 DEF Accounted
    <2>6. \A q \in Machines : q # p => Accounted(q)'
      BY <2>3, <2>4, KeepsAccounts DEF Inv, TypeOK
    <2> QED BY <2>4, <2>5, <2>6 DEF Inv
  <1>4. ASSUME NEW p \in Machines, Skip(p) \/ Create(p) \/ CreateFails(p) \/ CreateRaises(p)
        PROVE  Inv'
    <2>0. /\ Turn(p) /\ run[p].scope \in 1..Last /\ run[p].report \in {"clean", "errors"}
          /\ Column(p) \in Names
      BY <1>4, SetupAssumption
         DEF Skip, Create, CreateFails, CreateRaises, CreateEndsIn, Turn, Column, Names, Inv,
             TypeOK, Runs
    <2>1. /\ fields' \in [1..Last -> SUBSET Names]
          /\ \A s \in 1..Last : fields[s] \subseteq fields'[s]
      <3>1. fields' \in {fields, [fields EXCEPT ![run[p].scope] = @ \cup {Column(p)}]}
        BY <1>4 DEF Skip, Create, CreateFails, CreateRaises, CreateEndsIn
      <3> QED BY <1>0, <2>0, <3>1
    <2>2. CASE Skip(p)
      <3>1. Column(p) \in fields[run[p].scope] \cup run[p].removed
        BY <2>0, <2>2, SetupAssumption DEF Skip, Inv, Accounted, Turn
      <3> QED BY <2>0, <2>1, <2>2, <3>1, GoOnKeeps DEF Skip
    <2>3. CASE Create(p)
      <3>1. Column(p) \in fields'[run[p].scope] BY <1>0, <2>0, <2>3 DEF Create
      <3> QED BY <2>0, <2>1, <2>3, <3>1, GoOnKeeps DEF Create
    <2>4. CASE CreateFails(p) BY <2>0, <2>1, <2>4, GoOnKeeps DEF CreateFails
    <2>5. CASE CreateRaises(p)
      BY <2>0, <2>1, <2>5, NextScopeKeeps DEF CreateRaises, Skipped, Turn
    <2> QED BY <1>4, <2>2, <2>3, <2>4, <2>5
  <1>5. CASE UNCHANGED vars BY <1>5 DEF vars, Inv, TypeOK, Accounted
  <1> QED BY <1>1, <1>2, <1>3, <1>4, <1>5, OwnerKeeps DEF Next, InitStep, GoodStep

\* Whatever calls fail, and whatever other machines and the owner do, a report
\* without errors means that the Bitable has every expected column that the
\* owner did not remove meanwhile.
THEOREM CleanMeansCompleteTheorem == Spec => []CleanMeansComplete
  <1>1. Init => Inv BY InitInv
  <1>2. Inv /\ [Next]_vars => Inv' BY StepInv
  <1>3. Inv => CleanMeansComplete
    BY SetupAssumption DEF Inv, Accounted, CleanMeansComplete, Complete, Names
  <1> QED BY <1>1, <1>2, <1>3, PTL DEF Spec
=============================================================================
