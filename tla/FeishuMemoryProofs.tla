------------------------- MODULE FeishuMemoryProofs -------------------------
(* Proofs about FeishuMemory, for every set of ids, tasks and processes.     *)
EXTENDS SyncHistory, FiniteSetTheorems, TLAPS

TypeInv == TypeOK /\ LocalsOK

-----------------------------------------------------------------------------
(* Types of the conversions and of the local variables. *)

\* Finish leaves a task with the empty locals.
LEMMA NoLocalType == /\ NoLocal \in Local
                     /\ \A at \in PcValues : at \in {"idle"} => LocalOK(at, NoLocal)
  BY DEF NoLocal, Local, LocalOK, Ids

\* A listed row that has a title makes a well-typed record.
LEMMA FromBitableType ==
    ASSUME NEW row \in Row, row.title # None
    PROVE  FromBitable(row) \in Rec
  BY DEF FromBitable, Row, Rec

\* The row of a record is well typed.
LEMMA ToRowType ==
    ASSUME NEW rec \in Rec
    PROVE  ToRow(rec) \in Row
  BY StoresAssumption DEF ToRow, Row, Rec

\* A step of one task keeps pc and loc well typed if its new locals are.
LEMMA OneTask ==
    ASSUME TypeInv, NEW t \in Tasks, NEW at \in PcValues, NEW l \in Local,
           LocalOK(at, l),
           pc' = [pc EXCEPT ![t] = at], loc' = [loc EXCEPT ![t] = l]
    PROVE  pc' \in [Tasks -> PcValues] /\ loc' \in [Tasks -> Local] /\ LocalsOK'
  <1>1. pc \in [Tasks -> PcValues] /\ loc \in [Tasks -> Local] BY DEF TypeInv, TypeOK
  <1>2. pc' \in [Tasks -> PcValues] /\ loc' \in [Tasks -> Local] BY <1>1
  <1>3. ASSUME NEW u \in Tasks PROVE LocalOK(pc'[u], loc'[u])
    <2>1. CASE u = t BY <1>1, <2>1
    <2>2. CASE u # t BY <1>1, <2>2 DEF TypeInv, LocalsOK
    <2> QED BY <2>1, <2>2
  <1> QED BY <1>2, <1>3 DEF LocalsOK

\* A method that returns keeps pc and loc well typed.
LEMMA FinishType ==
    ASSUME TypeInv, NEW t \in Tasks, Finish(t)
    PROVE  pc' \in [Tasks -> PcValues] /\ loc' \in [Tasks -> Local] /\ LocalsOK'
  <1>1. "idle" \in PcValues BY DEF PcValues
  <1> QED BY <1>1, NoLocalType, OneTask DEF Finish

\* A step that only moves a task keeps pc and loc well typed.
LEMMA GotoType ==
    ASSUME TypeInv, NEW t \in Tasks, NEW at \in PcValues, Goto(t, at), loc' = loc,
           LocalOK(at, loc[t])
    PROVE  pc' \in [Tasks -> PcValues] /\ loc' \in [Tasks -> Local] /\ LocalsOK'
  <1>1. loc[t] \in Local /\ loc' = [loc EXCEPT ![t] = loc[t]] BY DEF TypeInv, TypeOK
  <1> QED BY <1>1, OneTask DEF Goto

\* What a task asks of Feishu is a request.
LEMMA RequestType ==
    ASSUME TypeInv, NEW t \in Tasks, pc[t] \in Calling
    PROVE  RequestOf(t) \in Request
  <1>1. loc[t] \in Local /\ LocalOK(pc[t], loc[t]) BY DEF TypeInv, TypeOK, LocalsOK
  <1>2. loc[t].id \in Ids /\ loc[t].rec \in Rec \cup {None} BY <1>1 DEF Local, LocalOK,
     Calling
  <1>3. pc[t] # "del_remote" => loc[t].rec # None BY <1>1 DEF LocalOK, Calling
  <1> QED BY <1>2, <1>3 DEF RequestOf, Request

\* A request that is given up is one more request in flight.
LEMMA GiveUpType ==
    ASSUME TypeInv, NEW c \in Clients, pc[c] \in Calling, GiveUp(c)
    PROVE  late' \in SUBSET Request
  <1>1. RequestOf(c) \in Request BY RequestType DEF Tasks
  <1> QED BY <1>1 DEF GiveUp, TypeInv, TypeOK

\* A bounded step of the environment stays in its bound.
LEMMA SpendType ==
    ASSUME TypeInv, Spend
    PROVE  churn' \in 0..MaxChurn
  BY StoresAssumption DEF Spend, TypeInv, TypeOK

-----------------------------------------------------------------------------
(* The initial state, and one lemma per operation, are well typed. *)

\* The initial state is well typed.
LEMMA TypeInit == Init => TypeInv
  <1>1. "idle" \in PcValues BY DEF PcValues
  <1> QED BY <1>1, NoLocalType, StoresAssumption
          DEF Init, StoresInit, TypeInv, TypeOK, LocalsOK

\* Every step of MemoryService.add keeps the types.
LEMMA TypeAdd ==
    ASSUME TypeInv, NEW c \in Clients,
           \/ \E u \in LocalIds, text \in AddTexts, title \in Titles, ok \in BOOLEAN :
                 AddStart(c, u, text, title, ok)
           \/ \E i \in FeishuIds : CreateRecord(c, i)
           \/ CreateFails(c) \/ CreateTimesOut(c) \/ AddCache(c)
    PROVE  TypeInv'
  <1>0. c \in Tasks /\ loc[c] \in Local /\ LocalOK(pc[c], loc[c])
    BY DEF Tasks, TypeInv, TypeOK, LocalsOK
  <1>p. {"add_bitable", "add_cache"} \subseteq PcValues BY DEF PcValues
  <1>t. TypeOK /\ LocalsOK BY DEF TypeInv
  <1>1. ASSUME NEW u \in LocalIds, NEW text \in AddTexts, NEW title \in Titles,
               NEW ok \in BOOLEAN, AddStart(c, u, text, title, ok)
        PROVE  TypeInv'
    <2> DEFINE l == [loc[c] EXCEPT !.id = u,
                        !.rec = [title |-> title, text |-> text, ref |-> ok]]
    <2>1. [title |-> title, text |-> text, ref |-> ok] \in Rec
      BY ClientAssumption DEF Rec
    <2>2. u \in Ids /\ u # None BY StoresAssumption DEF Ids
    <2>3. l \in Local BY <1>0, <2>1, <2>2 DEF Local
    <2>4. LocalOK("add_bitable", l)
      BY <1>0, <2>1, <2>2, StoresAssumption DEF Local, LocalOK
    <2> HIDE DEF l
    <2>5. pc' = [pc EXCEPT ![c] = "add_bitable"] /\ loc' = [loc EXCEPT ![c] = l]
      BY <1>1, <1>t DEF AddStart, Goto, l, TypeOK
    <2>6. pc' \in [Tasks -> PcValues] /\ loc' \in [Tasks -> Local] /\ LocalsOK'
      BY <1>0, <1>p, <2>3, <2>4, <2>5, OneTask
    <2>7. churn' \in 0..MaxChurn BY <1>1, SpendType DEF AddStart
    <2> QED BY <1>1, <1>t, <2>2, <2>6, <2>7 DEF AddStart, TypeInv, TypeOK
  <1>2. ASSUME NEW i \in FeishuIds, CreateRecord(c, i)
        PROVE  TypeInv'
    <2> DEFINE l == [loc[c] EXCEPT !.id = i]
    <2>1. i \in Ids /\ i # None BY StoresAssumption DEF Ids
    <2>2. l \in Local BY <1>0, <2>1 DEF Local
    <2>3. LocalOK("add_cache", l)
      BY <1>0, <1>2, <2>1 DEF Local, LocalOK, CreateRecord
    <2> HIDE DEF l
    <2>4. pc' = [pc EXCEPT ![c] = "add_cache"] /\ loc' = [loc EXCEPT ![c] = l]
      BY <1>2, <1>t DEF CreateRecord, Goto, l, TypeOK
    <2>5. pc' \in [Tasks -> PcValues] /\ loc' \in [Tasks -> Local] /\ LocalsOK'
      BY <1>0, <1>p, <2>2, <2>3, <2>4, OneTask
    <2>6. loc[c].rec \in Rec BY <1>0, <1>2 DEF CreateRecord, Local, LocalOK
    <2>7. ToRow(loc[c].rec) \in Row BY <2>6, ToRowType
    <2> QED BY <1>2, <1>t, <2>1, <2>5, <2>7 DEF CreateRecord, TypeInv, TypeOK
  <1>3. CASE CreateTimesOut(c)
    <2>1. LocalOK("add_cache", loc[c]) BY <1>0, <1>3 DEF LocalOK, CreateTimesOut
    <2>2. pc' \in [Tasks -> PcValues] /\ loc' \in [Tasks -> Local] /\ LocalsOK'
      BY <1>0, <1>3, <1>p, <2>1, GotoType DEF CreateTimesOut
    <2>3. late' \in SUBSET Request BY <1>3, GiveUpType DEF CreateTimesOut, Calling
    <2> QED BY <1>3, <1>t, <2>2, <2>3 DEF CreateTimesOut, TypeInv, TypeOK
  <1>4. CASE CreateFails(c)
    <2>1. LocalOK("add_cache", loc[c]) BY <1>0, <1>4 DEF LocalOK, CreateFails
    <2>2. pc' \in [Tasks -> PcValues] /\ loc' \in [Tasks -> Local] /\ LocalsOK'
      BY <1>0, <1>4, <1>p, <2>1, GotoType DEF CreateFails
    <2> QED BY <1>4, <1>t, <2>2 DEF CreateFails, stores, TypeInv, TypeOK
  <1>5. CASE AddCache(c)
    <2>1. loc[c].rec \in Rec BY <1>0, <1>5 DEF AddCache, Local, LocalOK
    <2>2. pc' \in [Tasks -> PcValues] /\ loc' \in [Tasks -> Local] /\ LocalsOK'
      BY <1>0, <1>5, FinishType DEF AddCache
    <2> QED BY <1>5, <1>t, <2>1, <2>2 DEF AddCache, TypeInv, TypeOK
  <1> QED BY <1>1, <1>2, <1>3, <1>4, <1>5

\* Every step of MemoryService.delete keeps the types.
LEMMA TypeDelete ==
    ASSUME TypeInv, NEW c \in Clients,
           \/ \E i \in Ids : DeleteStart(c, i)
           \/ DeleteRemote(c) \/ DeleteFails(c) \/ DeleteTimesOut(c) \/ DeleteCache(c)
    PROVE  TypeInv'
  <1>0. c \in Tasks /\ loc[c] \in Local /\ LocalOK(pc[c], loc[c])
    BY DEF Tasks, TypeInv, TypeOK, LocalsOK
  <1>p. {"del_remote", "del_cache"} \subseteq PcValues BY DEF PcValues
  <1>t. TypeOK /\ LocalsOK BY DEF TypeInv
  <1>1. ASSUME NEW i \in Ids, DeleteStart(c, i)
        PROVE  TypeInv'
    <2> DEFINE l == [loc[c] EXCEPT !.id = i]
    <2>1. i # None BY StoresAssumption
    <2>2. l \in Local BY <1>0, <2>1 DEF Local
    <2>3. LocalOK("del_remote", l) BY <1>0, <2>1 DEF Local, LocalOK
    <2> HIDE DEF l
    <2>4. pc' = [pc EXCEPT ![c] = "del_remote"] /\ loc' = [loc EXCEPT ![c] = l]
      BY <1>1, <1>t DEF DeleteStart, Goto, l, TypeOK
    <2>5. pc' \in [Tasks -> PcValues] /\ loc' \in [Tasks -> Local] /\ LocalsOK'
      BY <1>0, <1>p, <2>2, <2>3, <2>4, OneTask
    <2>6. churn' \in 0..MaxChurn BY <1>1, SpendType DEF DeleteStart
    <2> QED BY <1>1, <1>t, <2>5, <2>6 DEF DeleteStart, stores, TypeInv, TypeOK
  <1>2. CASE DeleteRemote(c)
    <2>1. LocalOK("del_cache", loc[c]) BY <1>0, <1>2 DEF LocalOK, DeleteRemote
    <2>2. pc' \in [Tasks -> PcValues] /\ loc' \in [Tasks -> Local] /\ LocalsOK'
      BY <1>0, <1>2, <1>p, <2>1, GotoType DEF DeleteRemote
    <2> QED BY <1>2, <1>t, <2>2 DEF DeleteRemote, TypeInv, TypeOK
  <1>3. CASE DeleteFails(c)
    BY <1>0, <1>3, <1>t, FinishType DEF DeleteFails, stores, TypeInv, TypeOK
  <1>4. CASE DeleteTimesOut(c)
    <2>1. pc' \in [Tasks -> PcValues] /\ loc' \in [Tasks -> Local] /\ LocalsOK'
      BY <1>0, <1>4, FinishType DEF DeleteTimesOut
    <2>2. late' \in SUBSET Request BY <1>4, GiveUpType DEF DeleteTimesOut, Calling
    <2> QED BY <1>4, <1>t, <2>1, <2>2 DEF DeleteTimesOut, TypeInv, TypeOK
  <1>5. CASE DeleteCache(c)
    <2>1. loc[c].id \in Ids BY <1>0, <1>5 DEF DeleteCache, Local, LocalOK
    <2>2. pc' \in [Tasks -> PcValues] /\ loc' \in [Tasks -> Local] /\ LocalsOK'
      BY <1>0, <1>5, FinishType DEF DeleteCache
    <2> QED BY <1>5, <1>t, <2>1, <2>2 DEF DeleteCache, TypeInv, TypeOK
  <1> QED BY <1>1, <1>2, <1>3, <1>4, <1>5

\* Every step of MemoryService.update keeps the types.
LEMMA TypeUpdate ==
    ASSUME TypeInv, NEW c \in Clients,
           \/ \E i \in Ids, title \in Titles : UpdateStart(c, i, title)
           \/ UpdateWrite(c) \/ UpdateRemote(c) \/ UpdateFails(c) \/ UpdateTimesOut(c)
    PROVE  TypeInv'
  <1>0. c \in Tasks /\ loc[c] \in Local /\ LocalOK(pc[c], loc[c])
    BY DEF Tasks, TypeInv, TypeOK, LocalsOK
  <1>p. {"upd_write", "upd_remote"} \subseteq PcValues BY DEF PcValues
  <1>t. TypeOK /\ LocalsOK BY DEF TypeInv
  <1>1. ASSUME NEW i \in Ids, NEW title \in Titles, UpdateStart(c, i, title)
        PROVE  TypeInv'
    <2> DEFINE r == [cache[i] EXCEPT !.title = title]
               l == [loc[c] EXCEPT !.id = i, !.rec = r]
    <2>1. r \in Rec BY <1>1, <1>t, ClientAssumption DEF UpdateStart, TypeOK, Rec
    <2>2. i # None /\ r # None BY <2>1, StoresAssumption
    <2> HIDE DEF r
    <2>3. l \in Local BY <1>0, <2>1 DEF Local
    <2>4. LocalOK("upd_write", l) BY <1>0, <2>2 DEF Local, LocalOK
    <2>5. pc' = [pc EXCEPT ![c] = "upd_write"] /\ loc' = [loc EXCEPT ![c] = l]
      BY <1>1, <1>t DEF UpdateStart, Goto, r, TypeOK
    <2> HIDE DEF l
    <2>6. pc' \in [Tasks -> PcValues] /\ loc' \in [Tasks -> Local] /\ LocalsOK'
      BY <1>0, <1>p, <2>3, <2>4, <2>5, OneTask
    <2>7. churn' \in 0..MaxChurn BY <1>1, SpendType DEF UpdateStart
    <2> QED BY <1>1, <1>t, <2>6, <2>7 DEF UpdateStart, stores, TypeInv, TypeOK
  <1>2. CASE UpdateWrite(c)
    <2>1. loc[c].rec \in Rec BY <1>0, <1>2 DEF UpdateWrite, Local, LocalOK
    <2>2. LocalOK("upd_remote", loc[c]) BY <1>0, <1>2 DEF LocalOK, UpdateWrite
    <2>3. pc' \in [Tasks -> PcValues] /\ loc' \in [Tasks -> Local] /\ LocalsOK'
      BY <1>0, <1>2, <1>p, <2>2, GotoType DEF UpdateWrite
    <2> QED BY <1>2, <1>t, <2>1, <2>3 DEF UpdateWrite, TypeInv, TypeOK
  <1>3. CASE UpdateRemote(c)
    <2> DEFINE i == loc[c].id
               row == [remote[i] EXCEPT !.title = loc[c].rec.title]
    <2>1. loc[c].rec.title \in Texts BY <1>0, <1>3 DEF UpdateRemote, Local, LocalOK, Rec
    <2>2. remote[i] \in Row BY <1>3, <1>t DEF UpdateRemote, TypeOK
    <2>3. row \in Row BY <2>1, <2>2 DEF Row
    <2>4. remote' = [remote EXCEPT ![i] = row] BY <1>3, <1>t DEF UpdateRemote, TypeOK
    <2> HIDE DEF row
    <2>5. remote' \in [FeishuIds -> Row \cup {None}] BY <1>t, <2>3, <2>4 DEF TypeOK
    <2>6. pc' \in [Tasks -> PcValues] /\ loc' \in [Tasks -> Local] /\ LocalsOK'
      BY <1>0, <1>3, FinishType DEF UpdateRemote
    <2> QED BY <1>3, <1>t, <2>5, <2>6 DEF UpdateRemote, TypeInv, TypeOK
  <1>4. CASE UpdateFails(c)
    BY <1>0, <1>4, <1>t, FinishType DEF UpdateFails, stores, TypeInv, TypeOK
  <1>5. CASE UpdateTimesOut(c)
    <2>1. pc' \in [Tasks -> PcValues] /\ loc' \in [Tasks -> Local] /\ LocalsOK'
      BY <1>0, <1>5, FinishType DEF UpdateTimesOut
    <2>2. late' \in SUBSET Request BY <1>5, GiveUpType DEF UpdateTimesOut, Calling
    <2> QED BY <1>5, <1>t, <2>1, <2>2 DEF UpdateTimesOut, TypeInv, TypeOK
  <1> QED BY <1>1, <1>2, <1>3, <1>4, <1>5

\* What follows _upsert_and_embed keeps the types.
LEMMA ReturnType ==
    ASSUME TypeInv, NEW s \in Syncs, pc[s] \in {"upsert", "embedding", "vector"}, Return(s)
    PROVE  pc' \in [Tasks -> PcValues] /\ loc' \in [Tasks -> Local] /\ LocalsOK'
  <1>1. s \in Tasks /\ LocalOK(pc[s], loc[s]) BY DEF Tasks, TypeInv, LocalsOK
  <1>2. "diff" \in PcValues /\ LocalOK("diff", loc[s]) BY <1>1 DEF PcValues, LocalOK
  <1> QED BY <1>1, <1>2, FinishType, GotoType DEF Return

\* A chunk of the vector upsert has the text of an upserted record and the text
\* of some embedding.
LEMMA ChunksType ==
    ASSUME TypeInv, NEW s \in Syncs, NEW i \in DOMAIN Chunks(s)
    PROVE  Chunks(s)[i] \in Chunk
  <1> DEFINE done == loc[s].done
             Rc(k) == FromBitable(loc[s].snap[done[k]])
             Zipped == {k \in DOMAIN done : k <= Len(loc[s].batch) /\ Embeddable(loc[s].snap[done[k]])}
             m == CHOOSE n \in Zipped : done[n] = i
  <1>1. loc[s] \in Local /\ LocalOK(pc[s], loc[s])
    BY DEF Tasks, TypeInv, TypeOK, LocalsOK
  <1>2. done \in Seq(FeishuIds) /\ loc[s].batch \in Seq(Texts)
        /\ loc[s].snap \in [FeishuIds -> Row \cup {None}]
    BY <1>1 DEF Local
  <1>3. ASSUME NEW k \in DOMAIN done PROVE Rc(k) \in Rec
    <2>1. done[k] \in FeishuIds BY <1>2
    <2>2. loc[s].snap[done[k]] \in Row /\ loc[s].snap[done[k]].title # None
      BY <1>1, <1>2, <2>1 DEF LocalOK
    <2> QED BY <2>2, FromBitableType
  <1>4. m \in Zipped BY DEF Chunks
  <1>5. m \in DOMAIN done /\ m <= Len(loc[s].batch) BY <1>4
  <1>6. Chunks(s)[i] = [text |-> Rc(m).text, emb |-> loc[s].batch[m]] BY DEF Chunks
  <1>7. Rc(m).text \in Texts BY <1>3, <1>5 DEF Rec
  <1> HIDE DEF m
  <1>8. loc[s].batch[m] \in Texts
    <2>1. m \in 1..Len(done) BY <1>2, <1>5
    <2>2. m \in 1..Len(loc[s].batch) BY <1>2, <1>5, <2>1
    <2> QED BY <1>2, <2>2
  <1> HIDE DEF Rc
  <1> QED BY <1>6, <1>7, <1>8 DEF Chunk

\* Chunks are written for records of Feishu.
LEMMA ChunksDomain ==
    ASSUME TypeInv, NEW s \in Syncs
    PROVE  DOMAIN Chunks(s) \subseteq Ids
  <1>1. loc[s].done \in Seq(FeishuIds) BY DEF Tasks, TypeInv, TypeOK, Local
  <1> QED BY <1>1 DEF Chunks, Ids

\* Every step of the first half of a sync keeps the types.
LEMMA TypeImport ==
    ASSUME TypeInv, NEW s \in Syncs,
           \/ \E mode \in Modes : SyncStart(s, mode)
           \/ ClearAllRecords(s) \/ ListRecords(s) \/ ListFails(s)
           \/ \E i \in FeishuIds : UpsertRow(s, i) \/ UpsertRaises(s, i)
           \/ Submit(s)
    PROVE  TypeInv'
  <1>0. s \in Tasks /\ loc[s] \in Local /\ LocalOK(pc[s], loc[s])
    BY DEF Tasks, TypeInv, TypeOK, LocalsOK
  <1>p. {"clear", "list", "upsert", "embedding"} \subseteq PcValues BY DEF PcValues
  <1>t. TypeOK /\ LocalsOK BY DEF TypeInv
  <1>1. ASSUME NEW mode \in Modes, SyncStart(s, mode)
        PROVE  TypeInv'
    <2> DEFINE l == [loc[s] EXCEPT !.mode = mode]
               at == IF mode = "rebuild" THEN "clear" ELSE "list"
    <2>1. l \in Local BY <1>0, SyncAssumption DEF Local
    <2>2. loc[s].done = <<>> BY <1>0, <1>1 DEF SyncStart, LocalOK, NoLocal
    <2>5. at \in PcValues /\ LocalOK(at, l) BY <1>0, <1>p, <2>2 DEF Local, LocalOK
    <2>3. pc' = [pc EXCEPT ![s] = at] /\ loc' = [loc EXCEPT ![s] = l]
      BY <1>1, <1>t DEF SyncStart, Goto, TypeOK
    <2> HIDE DEF l, at
    <2>4. pc' \in [Tasks -> PcValues] /\ loc' \in [Tasks -> Local] /\ LocalsOK'
      BY <1>0, <2>1, <2>3, <2>5, OneTask
    <2> QED BY <1>1, <1>t, <2>4 DEF SyncStart, stores, TypeInv, TypeOK
  <1>2. CASE ClearAllRecords(s)
    <2>1. LocalOK("list", loc[s]) BY <1>0, <1>2 DEF LocalOK, ClearAllRecords
    <2>2. pc' \in [Tasks -> PcValues] /\ loc' \in [Tasks -> Local] /\ LocalsOK'
      BY <1>0, <1>2, <1>p, <2>1, GotoType DEF ClearAllRecords
    <2> QED BY <1>2, <1>t, <2>2 DEF ClearAllRecords, TypeInv, TypeOK
  <1>3. CASE ListRecords(s)
    <2> DEFINE l == [loc[s] EXCEPT !.snap = remote, !.known = used]
    <2>1. l \in Local BY <1>0, <1>t DEF Local, TypeOK
    <2>2. loc' = [loc EXCEPT ![s] = l] /\ pc' = [pc EXCEPT ![s] = "upsert"]
      BY <1>3, <1>t DEF ListRecords, Goto, TypeOK
    <2>3. LocalOK("upsert", l)
      <3>1. l.done = <<>> BY <1>0, <1>3 DEF Local, LocalOK, ListRecords
      <3> QED BY <3>1 DEF LocalOK
    <2> HIDE DEF l
    <2>4. pc' \in [Tasks -> PcValues] /\ loc' \in [Tasks -> Local] /\ LocalsOK'
      BY <1>0, <1>p, <2>1, <2>2, <2>3, OneTask
    <2> QED BY <1>3, <1>t, <2>4 DEF ListRecords, stores, TypeInv, TypeOK
  <1>4. CASE ListFails(s)
    BY <1>0, <1>4, <1>t, FinishType DEF ListFails, stores, TypeInv, TypeOK
  <1>5. ASSUME NEW i \in FeishuIds, UpsertRow(s, i)
        PROVE  TypeInv'
    <2> DEFINE rec == FromBitable(loc[s].snap[i])
               b == IF Embeddable(loc[s].snap[i]) THEN Append(loc[s].batch, rec.text) ELSE loc[s].batch
               d == Append(loc[s].done, i)
               l == [loc[s] EXCEPT !.done = d, !.batch = b]
    <2>1. loc[s].snap[i] \in Row /\ loc[s].snap[i].title # None
      BY <1>0, <1>5 DEF UpsertRow, Pending, Listed, Local
    <2>2. rec \in Rec BY <2>1, FromBitableType
    <2>3. loc' = [loc EXCEPT ![s] = l] /\ cache' = [cache EXCEPT ![i] = rec]
      BY <1>5, <1>t DEF UpsertRow, TypeOK
    <2> HIDE DEF rec
    <2>4. b \in Seq(Texts) /\ d \in Seq(FeishuIds) BY <1>0, <2>2 DEF Local, Rec
    <2> HIDE DEF b, d
    <2>5. l \in Local BY <1>0, <2>4 DEF Local
    <2>6. LocalOK(pc[s], l)
      <3>1. l.done = Append(loc[s].done, i) /\ l.snap = loc[s].snap /\ pc[s] = "upsert"
        BY <1>0, <1>5 DEF Local, UpsertRow, d
      <3>2. loc[s].done \in Seq(FeishuIds) BY <1>0 DEF Local
      <3>3. ASSUME NEW k \in DOMAIN l.done
            PROVE  l.snap[l.done[k]] # None /\ l.snap[l.done[k]].title # None
        <4>1. CASE k = Len(loc[s].done) + 1
          BY <2>1, <3>1, <3>2, <4>1, StoresAssumption
        <4>2. CASE k # Len(loc[s].done) + 1
          <5>1. k \in DOMAIN loc[s].done /\ l.done[k] = loc[s].done[k]
            BY <3>1, <3>2, <3>3, <4>2
          <5> QED BY <1>0, <3>1, <5>1 DEF LocalOK
        <4> QED BY <4>1, <4>2
      <3> QED BY <3>1, <3>3 DEF LocalOK
    <2>7. pc[s] \in PcValues /\ pc' = [pc EXCEPT ![s] = pc[s]]
      BY <1>0, <1>5, <1>t DEF UpsertRow, TypeOK
    <2> HIDE DEF l
    <2>8. pc' \in [Tasks -> PcValues] /\ loc' \in [Tasks -> Local] /\ LocalsOK'
      BY <1>0, <2>3, <2>5, <2>6, <2>7, OneTask
    <2>9. i \in Ids BY DEF Ids
    <2>10. cache' \in [Ids -> Rec \cup {None}] BY <1>t, <2>2, <2>3, <2>9 DEF TypeOK
    <2>11. UNCHANGED <<remote, used, vectors, late, opened, acked,
       churn>> BY <1>5 DEF UpsertRow
    <2> QED BY <1>t, <2>8, <2>10, <2>11 DEF TypeInv, TypeOK
  <1>6. ASSUME NEW i \in FeishuIds, UpsertRaises(s, i)
        PROVE  TypeInv'
    BY <1>0, <1>6, <1>t, FinishType DEF UpsertRaises, stores, TypeInv, TypeOK
  <1>7. CASE Submit(s)
    <2>1. CASE loc[s].batch = <<>>
      <3>1. Return(s) /\ pc[s] = "upsert" BY <1>7, <2>1 DEF Submit
      <3>2. pc' \in [Tasks -> PcValues] /\ loc' \in [Tasks -> Local] /\ LocalsOK'
        BY <3>1, ReturnType
      <3> QED BY <1>7, <1>t, <3>2 DEF Submit, stores, TypeInv, TypeOK
    <2>2. CASE loc[s].batch # <<>>
      <3>1. Goto(s, "embedding") /\ loc' = loc BY <1>7, <2>2 DEF Submit
      <3>2. LocalOK("embedding", loc[s]) BY <1>0 DEF LocalOK
      <3>3. pc' \in [Tasks -> PcValues] /\ loc' \in [Tasks -> Local] /\ LocalsOK'
        BY <1>0, <1>p, <3>1, <3>2, GotoType
      <3> QED BY <1>7, <1>t, <3>3 DEF Submit, stores, TypeInv, TypeOK
    <2> QED BY <2>1, <2>2
  <1> QED BY <1>1, <1>2, <1>3, <1>4, <1>5, <1>6, <1>7

\* Every step of the second half of a sync keeps the types.
LEMMA TypeIndex ==
    ASSUME TypeInv, NEW s \in Syncs,
           \/ Embedded(s) \/ EmbedFails(s) \/ VectorAdd(s) \/ VectorFails(s)
           \/ \E i \in Ids : VectorDelete(s, i) \/ VectorDeleteFails(s, i)
           \/ Diff(s) \/ \E i \in Ids : DropRecord(s, i)
           \/ DropVector(s) \/ SyncEnd(s)
    PROVE  TypeInv'
  <1>0. s \in Tasks /\ loc[s] \in Local /\ LocalOK(pc[s], loc[s])
    BY DEF Tasks, TypeInv, TypeOK, LocalsOK
  <1>p. {"vector", "drop", "drop_vector"} \subseteq PcValues BY DEF PcValues
  <1>t. TypeOK /\ LocalsOK BY DEF TypeInv
  <1>o. ProcOf[s] \in Procs BY <1>0, StoresAssumption
  <1>1. CASE Embedded(s)
    <2> DEFINE w == DOMAIN Chunks(s)
               l == [loc[s] EXCEPT !.wipe = w]
    <2>1. w \subseteq Ids BY <1>0, ChunksDomain
    <2>2. loc' = [loc EXCEPT ![s] = l] /\ pc' = [pc EXCEPT ![s] = "vector"]
      BY <1>1, <1>t DEF Embedded, Goto, TypeOK
    <2> HIDE DEF w
    <2>3. l \in Local /\ LocalOK("vector", l) BY <1>0, <2>1 DEF Local, LocalOK
    <2> HIDE DEF l
    <2>4. pc' \in [Tasks -> PcValues] /\ loc' \in [Tasks -> Local] /\ LocalsOK'
      BY <1>0, <1>p, <2>2, <2>3, OneTask
    <2> QED BY <1>1, <1>t, <2>4 DEF Embedded, stores, TypeInv, TypeOK
  <1>2. CASE EmbedFails(s)
    BY <1>2, <1>t, ReturnType DEF EmbedFails, stores, TypeInv, TypeOK
  <1>3. CASE VectorAdd(s)
    <2> DEFINE v(i) == IF i \in DOMAIN Chunks(s) THEN Append(vectors[i], Chunks(s)[i])
                       ELSE vectors[i]
    <2>1. ASSUME NEW i \in Ids PROVE v(i) \in Seq(Chunk)
      <3>1. vectors[i] \in Seq(Chunk) BY <1>t DEF TypeOK
      <3>2. i \in DOMAIN Chunks(s) => Chunks(s)[i] \in Chunk BY ChunksType
      <3> QED BY <3>1, <3>2
    <2>2. vectors' = [i \in Ids |-> v(i)] BY <1>3 DEF VectorAdd
    <2> HIDE DEF v
    <2>3. vectors' \in [Ids -> Seq(Chunk)] BY <2>1, <2>2
    <2>4. pc' \in [Tasks -> PcValues] /\ loc' \in [Tasks -> Local] /\ LocalsOK'
      BY <1>3, ReturnType DEF VectorAdd
    <2> QED BY <1>3, <1>t, <2>3, <2>4 DEF VectorAdd, TypeInv, TypeOK
  <1>4. CASE VectorFails(s)
    BY <1>4, <1>t, ReturnType DEF VectorFails, stores, TypeInv, TypeOK
  <1>9. ASSUME NEW i \in Ids, VectorDelete(s, i) \/ VectorDeleteFails(s, i)
        PROVE  TypeInv'
    <2> DEFINE w == loc[s].wipe \ {i}
               l == [loc[s] EXCEPT !.wipe = w]
    <2>1. pc[s] = "vector" /\ pc' = [pc EXCEPT ![s] = "vector"]
      BY <1>9, <1>0, <1>t DEF VectorDelete, VectorDeleteFails, TypeOK
    <2>2. loc' = [loc EXCEPT ![s] = l]
      BY <1>9, <1>t DEF VectorDelete, VectorDeleteFails, TypeOK
    <2>3. w \subseteq Ids BY <1>0 DEF Local
    <2> HIDE DEF w
    <2>4. l \in Local /\ LocalOK("vector", l) BY <1>0, <2>1, <2>3 DEF Local, LocalOK
    <2> HIDE DEF l
    <2>5. pc' \in [Tasks -> PcValues] /\ loc' \in [Tasks -> Local] /\ LocalsOK'
      BY <1>0, <1>p, <2>1, <2>2, <2>4, OneTask
    <2>6. vectors' \in [Ids -> Seq(Chunk)] /\ churn' \in 0..MaxChurn
      <3>1. CASE VectorDelete(s, i)
        <4>1. <<>> \in Seq(Chunk) OBVIOUS
        <4> QED BY <1>t, <3>1, <4>1 DEF VectorDelete, TypeOK
      <3>2. CASE VectorDeleteFails(s, i)
        BY <1>t, <3>2, SpendType DEF VectorDeleteFails, TypeOK
      <3> QED BY <1>9, <3>1, <3>2
    <2>7. UNCHANGED <<remote, used, cache, late, acked>> /\ opened' = opened \cup {ProcOf[s]}
      BY <1>9 DEF VectorDelete, VectorDeleteFails
    <2> QED BY <1>o, <1>t, <2>5, <2>6, <2>7 DEF TypeInv, TypeOK
  <1>5. CASE Diff(s)
    <2> DEFINE d == Visible \ Upserted(s)
               l == [loc[s] EXCEPT !.drop = d]
    <2>1. d \subseteq Ids BY DEF Visible
    <2>2. loc' = [loc EXCEPT ![s] = l] /\ pc' = [pc EXCEPT ![s] = "drop"]
      BY <1>5, <1>t DEF Diff, Goto, TypeOK
    <2> HIDE DEF d
    <2>3. l \in Local /\ LocalOK("drop", l) BY <1>0, <2>1 DEF Local, LocalOK
    <2> HIDE DEF l
    <2>4. pc' \in [Tasks -> PcValues] /\ loc' \in [Tasks -> Local] /\ LocalsOK'
      BY <1>0, <1>p, <2>2, <2>3, OneTask
    <2> QED BY <1>5, <1>t, <2>4 DEF Diff, stores, TypeInv, TypeOK
  <1>6. ASSUME NEW i \in Ids, DropRecord(s, i)
        PROVE  TypeInv'
    <2> DEFINE l == [loc[s] EXCEPT !.id = i, !.drop = loc[s].drop \ {i}]
    <2>1. i # None BY StoresAssumption
    <2>2. l \in Local /\ LocalOK("drop_vector", l) BY <1>0, <2>1 DEF Local, LocalOK
    <2>3. loc' = [loc EXCEPT ![s] = l] /\ pc' = [pc EXCEPT ![s] = "drop_vector"]
      BY <1>6, <1>t DEF DropRecord, Goto, TypeOK
    <2> HIDE DEF l
    <2>4. pc' \in [Tasks -> PcValues] /\ loc' \in [Tasks -> Local] /\ LocalsOK'
      BY <1>0, <1>p, <2>2, <2>3, OneTask
    <2> QED BY <1>6, <1>t, <2>4 DEF DropRecord, TypeInv, TypeOK
  <1>7. CASE DropVector(s)
    <2>1. LocalOK("drop", loc[s]) BY <1>0 DEF LocalOK
    <2>2. pc' \in [Tasks -> PcValues] /\ loc' \in [Tasks -> Local] /\ LocalsOK'
      BY <1>0, <1>7, <1>p, <2>1, GotoType DEF DropVector
    <2>3. <<>> \in Seq(Chunk) OBVIOUS
    <2>4. vectors' \in [Ids -> Seq(Chunk)] BY <1>7, <1>t, <2>3 DEF DropVector, TypeOK
    <2> QED BY <1>7, <1>t, <2>2, <2>4 DEF DropVector, TypeInv, TypeOK
  <1>8. CASE SyncEnd(s)
    BY <1>0, <1>8, <1>t, FinishType DEF SyncEnd, stores, TypeInv, TypeOK
  <1> QED BY <1>1, <1>2, <1>3, <1>4, <1>5, <1>6, <1>7, <1>8, <1>9

\* The owner's edits, late requests and crashes keep the types.
LEMMA TypeEnvironment ==
    ASSUME TypeInv, Owner \/ Land \/ \E p \in Procs : Crash(p)
    PROVE  TypeInv'
  <1>t. TypeOK /\ LocalsOK BY DEF TypeInv
  <1>1. CASE Owner
    <2>1. PICK i \in FeishuIds :
             \/ \E row \in OwnerRows : OwnerCreate(i, row) \/ OwnerEdit(i, row)
             \/ OwnerDelete(i)
      BY <1>1 DEF Owner
    <2>2. remote' \in [FeishuIds -> Row \cup {None}] /\ used' \in SUBSET Ids
      BY <1>t, <2>1, StoresAssumption DEF OwnerCreate, OwnerEdit, OwnerDelete, TypeOK, Ids
    <2>3. churn' \in 0..MaxChurn BY <1>1, SpendType DEF Owner
    <2> QED BY <1>1, <1>t, <2>2, <2>3 DEF Owner, TypeInv, TypeOK, LocalsOK
  <1>2. ASSUME NEW p \in Procs, Crash(p)
        PROVE  TypeInv'
    <2>1. churn' \in 0..MaxChurn BY <1>2, SpendType DEF Crash
    <2>2. "idle" \in PcValues BY DEF PcValues
    <2>3. pc' \in [Tasks -> PcValues] /\ loc' \in [Tasks -> Local] /\ LocalsOK'
      BY <1>2, <1>t, <2>2, NoLocalType DEF Crash, TypeOK, LocalsOK
    <2>4. ASSUME NEW t \in Clients, pc[t] \in Calling PROVE RequestOf(t) \in Request
      BY <2>4, RequestType DEF Tasks
    <2>5. late' \in SUBSET Request BY <1>2, <1>t, <2>4 DEF Crash, TypeOK
    <2> QED BY <1>2, <1>t, <2>1, <2>3, <2>5 DEF Crash, TypeInv, TypeOK
  <1>3. CASE Land
    <2>1. PICK r \in late :
             /\ late' = late \ {r}
             /\ LandDelete(r) \/ LandUpdate(r) \/ \E i \in FeishuIds : LandCreate(r, i)
      BY <1>3 DEF Land
    <2>2. /\ r.id \in Ids /\ r.rec \in Rec \cup {None}
          /\ r.at # "del_remote" => r.rec # None
      BY <1>t, <2>1 DEF TypeOK, Request
    <2>3. CASE LandDelete(r)
      BY <1>3, <1>t, <2>1, <2>3 DEF Land, LandDelete, TypeInv, TypeOK, LocalsOK
    <2>4. CASE LandUpdate(r)
      <3> DEFINE row == [remote[r.id] EXCEPT !.title = r.rec.title]
      <3>1. r.rec.title \in Texts BY <2>2, <2>4 DEF LandUpdate, Rec
      <3>2. remote[r.id] \in Row BY <1>t, <2>4 DEF LandUpdate, TypeOK
      <3>3. row \in Row BY <3>1, <3>2 DEF Row
      <3>4. remote' = [remote EXCEPT ![r.id] = row] BY <1>t, <2>4 DEF LandUpdate, TypeOK
      <3> HIDE DEF row
      <3>5. remote' \in [FeishuIds -> Row \cup {None}] BY <1>t, <3>3, <3>4 DEF TypeOK
      <3> QED BY <1>3, <1>t, <2>1, <2>4, <3>5 DEF Land, LandUpdate, TypeInv, TypeOK,
         LocalsOK
    <2>5. ASSUME NEW i \in FeishuIds, LandCreate(r, i) PROVE TypeInv'
      <3>1. ToRow(r.rec) \in Row BY <2>2, <2>5, ToRowType DEF LandCreate
      <3>2. i \in Ids BY DEF Ids
      <3> QED BY <1>3, <1>t, <2>1, <2>5, <3>1, <3>2
              DEF Land, LandCreate, TypeInv, TypeOK, LocalsOK
    <2> QED BY <2>1, <2>3, <2>4, <2>5
  <1> QED BY <1>1, <1>2, <1>3

\* The type invariant with the locals' invariant is inductive.
LEMMA TypeStep == TypeInv /\ [Next]_vars => TypeInv'
  <1> SUFFICES ASSUME TypeInv, [Next]_vars PROVE TypeInv'
    OBVIOUS
  <1>1. ASSUME NEW c \in Clients, ClientStart(c) \/ ClientStep(c)
        PROVE  TypeInv'
    BY <1>1, TypeAdd, TypeDelete, TypeUpdate DEF ClientStart, ClientStep
  <1>2. ASSUME NEW s \in Syncs, SyncStep(s) \/ \E mode \in Modes : SyncStart(s, mode)
        PROVE  TypeInv'
    BY <1>2, TypeImport, TypeIndex DEF SyncStep, Resume
  <1>3. CASE Owner \/ Land \/ \E p \in Procs : Crash(p) BY <1>3, TypeEnvironment
  <1>4. CASE UNCHANGED vars
    BY <1>4 DEF vars, TypeInv, TypeOK, LocalsOK
  <1> QED BY <1>1, <1>2, <1>3, <1>4 DEF Next

\* The stores and the locals of every task keep their types in every run: a
\* sync never stores a record without a title, a chunk always has the text of a
\* record, a call in progress always knows its record.
THEOREM TypeCorrect == Spec => []TypeInv
  BY TypeInit, TypeStep, PTL DEF Spec

\* The type invariant alone, as the runs check it.
THEOREM TypeSafety == Spec => []TypeOK
  <1>1. TypeInv => TypeOK BY DEF TypeInv
  <1> QED BY <1>1, TypeCorrect, PTL

-----------------------------------------------------------------------------
(* What every step leaves alone. *)

\* A client step changes the locals of no other task.
LEMMA ClientAlone ==
    ASSUME TypeInv, NEW c \in Clients, ClientStart(c) \/ ClientStep(c),
           NEW t \in Tasks, t # c
    PROVE  pc'[t] = pc[t] /\ loc'[t] = loc[t]
  <1>t. pc \in [Tasks -> PcValues] /\ loc \in [Tasks -> Local] BY DEF TypeInv, TypeOK
  <1>1. CASE ClientStart(c)
    BY <1>1, <1>t DEF ClientStart, AddStart, DeleteStart, UpdateStart, Goto
  <1>2. CASE ClientStep(c)
    BY <1>2, <1>t DEF ClientStep, CreateRecord, CreateFails, CreateTimesOut, AddCache,
       DeleteRemote, DeleteFails, DeleteTimesOut, DeleteCache,
       UpdateWrite, UpdateRemote, UpdateFails, UpdateTimesOut, Goto, Finish
  <1> QED BY <1>1, <1>2

\* A sync step changes the locals of no other task.
LEMMA SyncAlone ==
    ASSUME TypeInv, NEW s \in Syncs, SyncStep(s) \/ \E mode \in Modes : SyncStart(s, mode),
           NEW t \in Tasks, t # s
    PROVE  pc'[t] = pc[t] /\ loc'[t] = loc[t]
  <1>t. pc \in [Tasks -> PcValues] /\ loc \in [Tasks -> Local] BY DEF TypeInv, TypeOK
  <1>1. CASE \E mode \in Modes : SyncStart(s, mode) BY <1>1, <1>t DEF SyncStart, Goto
  <1>2. CASE SyncStep(s)
    BY <1>2, <1>t DEF SyncStep, ClearAllRecords, ListRecords, ListFails, UpsertRow,
       UpsertRaises, Submit, Resume, Embedded, EmbedFails, VectorAdd, VectorFails,
       VectorDelete, VectorDeleteFails,
       Return, Diff, DropRecord, DropVector, SyncEnd, Goto, Finish
  <1> QED BY <1>1, <1>2

\* A sync never writes to Feishu and hands out no id.
LEMMA SyncReadsOnly ==
    ASSUME NEW s \in Syncs, SyncStep(s) \/ \E mode \in Modes : SyncStart(s, mode)
    PROVE  remote' = remote /\ used' = used /\ acked' = acked
  BY DEF SyncStart, SyncStep, ClearAllRecords, ListRecords, ListFails, UpsertRow,
     UpsertRaises, Submit, Resume, Embedded, EmbedFails, VectorAdd, VectorFails,
     VectorDelete, VectorDeleteFails,
     Diff, DropRecord, DropVector, SyncEnd, stores

\* No step brings back a row of Feishu that is gone.
LEMMA NothingReturns ==
    ASSUME TypeInv, UsedOK, [Next]_vars
    PROVE  NoReturn /\ \A i \in FeishuIds : remote'[i] # None => i \in used'
  <1>t. remote \in [FeishuIds -> Row \cup {None}] BY DEF TypeInv, TypeOK
  <1>1. ASSUME NEW c \in Clients, ClientStart(c)
        PROVE  remote' = remote /\ used \subseteq used'
    BY <1>1 DEF ClientStart, AddStart, DeleteStart, UpdateStart, stores
  <1>2. ASSUME NEW c \in Clients, ClientStep(c)
        PROVE  \/ remote' = remote /\ used' = used
               \/ \E i \in FeishuIds \ used :
                     /\ used' = used \cup {i}
                     /\ \A j \in FeishuIds \ {i} : remote'[j] = remote[j]
               \/ /\ used' = used
                  /\ \A j \in FeishuIds : remote[j] = None => remote'[j] = None
    BY <1>2, <1>t DEF ClientStep, CreateRecord, CreateFails, CreateTimesOut, AddCache,
       DeleteRemote, DeleteFails, DeleteTimesOut, DeleteCache,
       UpdateWrite, UpdateRemote, UpdateFails, UpdateTimesOut, stores
  <1>3. ASSUME Owner \/ Land
        PROVE  \/ \E i \in FeishuIds \ used :
                     /\ used' = used \cup {i}
                     /\ \A j \in FeishuIds \ {i} : remote'[j] = remote[j]
               \/ /\ used' = used
                  /\ \A j \in FeishuIds : remote[j] = None => remote'[j] = None
    BY <1>3, <1>t DEF Owner, OwnerCreate, OwnerEdit, OwnerDelete,
       Land, LandCreate, LandDelete, LandUpdate
  <1>4. ASSUME NEW s \in Syncs, SyncStep(s) \/ \E mode \in Modes : SyncStart(s, mode)
        PROVE  remote' = remote /\ used' = used
    BY <1>4, SyncReadsOnly
  <1>5. ASSUME NEW p \in Procs, Crash(p) PROVE remote' = remote /\ used' = used
    BY <1>5 DEF Crash
  <1>6. CASE UNCHANGED vars BY <1>6 DEF vars, NoReturn, UsedOK
  <1>7. CASE Next
    <2>1. \/ remote' = remote /\ used \subseteq used'
          \/ \E i \in FeishuIds \ used :
                /\ used' = used \cup {i}
                /\ \A j \in FeishuIds \ {i} : remote'[j] = remote[j]
          \/ /\ used' = used
             /\ \A j \in FeishuIds : remote[j] = None => remote'[j] = None
      BY <1>1, <1>2, <1>3, <1>4, <1>5, <1>7 DEF Next
    <2> QED BY <2>1 DEF NoReturn, UsedOK
  <1> QED BY <1>6, <1>7

-----------------------------------------------------------------------------
(* Listings: the diff of a sync removes nothing that the sync listed. *)

HistInv == UsedOK /\ HalfDeleted /\ ListingOK

\* What is known of one task.
TaskHist(t) ==
    /\ loc[t].known \subseteq used
    /\ pc[t] = "del_cache" =>
          loc[t].id \in FeishuIds /\ loc[t].id \in used /\ remote[loc[t].id] = None
    /\ t \in Syncs => ListingOf(t)

\* A task that has returned, or has not listed yet, knows nothing.
LEMMA FreshHist ==
    ASSUME NEW t \in Tasks, pc'[t] \notin Importing \cup {"del_cache"},
           loc'[t].known = {}
    PROVE  TaskHist(t)'
  BY DEF TaskHist, ListingOf, Importing

\* A task that stands still keeps what is known of it, whatever else happens.
LEMMA KeepHist ==
    ASSUME TypeInv, NoReturn, NEW t \in Tasks, TaskHist(t),
           pc'[t] = pc[t], loc'[t] = loc[t]
    PROVE  TaskHist(t)'
  <1>1. used \subseteq used' /\ \A i \in FeishuIds : i \in used /\ remote'[i] # None => remote[i] # None
    BY DEF NoReturn
  <1>2. loc'[t].known \subseteq used' BY <1>1 DEF TaskHist
  <1>3. pc'[t] = "del_cache" =>
          loc'[t].id \in FeishuIds /\ loc'[t].id \in used' /\ remote'[loc'[t].id] = None
    BY <1>1 DEF TaskHist
  <1>4. ASSUME t \in Syncs PROVE ListingOf(t)'
    <2>1. ListingOf(t) /\ loc[t].known \subseteq used BY <1>4 DEF TaskHist
    <2>2. Listed(t)' = Listed(t) /\ Upserted(t)' = Upserted(t) BY DEF Listed, Upserted
    <2> QED BY <1>1, <2>1, <2>2 DEF ListingOf
  <1> QED BY <1>2, <1>3, <1>4 DEF TaskHist

\* A sync that moves on with its listing, its upserted records and a diff that
\* only shrinks keeps what is known of it.
LEMMA MoveHist ==
    ASSUME TypeInv, NoReturn, NEW s \in Syncs, TaskHist(s),
           loc'[s].known = loc[s].known, loc'[s].snap = loc[s].snap,
           loc'[s].done = loc[s].done,
           pc[s] \in Importing, pc'[s] \in Importing \ {"upsert"},
           pc[s] = "upsert" => Listed(s) \subseteq Upserted(s),
           pc'[s] \in {"drop", "drop_vector"} => loc'[s].drop \cap Upserted(s) = {}
    PROVE  TaskHist(s)'
  <1>1. used \subseteq used' /\ \A i \in FeishuIds : i \in used /\ remote'[i] # None => remote[i] # None
    BY DEF NoReturn
  <1>2. Listed(s)' = Listed(s) /\ Upserted(s)' = Upserted(s) BY DEF Listed, Upserted
  <1>3. ListingOf(s) /\ loc[s].known \subseteq used BY DEF TaskHist
  <1>4. Listed(s) \subseteq Upserted(s) BY <1>3 DEF ListingOf
  <1>5. ListingOf(s)' BY <1>1, <1>2, <1>3, <1>4 DEF ListingOf
  <1>6. pc'[s] # "del_cache" BY DEF Importing
  <1> QED BY <1>1, <1>3, <1>5, <1>6 DEF TaskHist

\* A method that returns leaves nothing behind.
LEMMA FinishHist ==
    ASSUME TypeInv, NEW t \in Tasks, Finish(t)
    PROVE  TaskHist(t)'
  <1>1. pc'[t] = "idle" /\ loc'[t] = NoLocal BY DEF Finish, TypeInv, TypeOK
  <1> QED BY <1>1, FreshHist DEF NoLocal, Importing

\* Client steps keep what is known of the client.
LEMMA ClientHist ==
    ASSUME TypeInv, UsedOK, NoReturn, NEW c \in Clients, TaskHist(c),
           ClientStart(c) \/ ClientStep(c)
    PROVE  TaskHist(c)'
  <1>0. c \in Tasks /\ c \notin Syncs BY StoresAssumption DEF Tasks
  <1>t. /\ pc \in [Tasks -> PcValues] /\ loc \in [Tasks -> Local]
        /\ remote \in [FeishuIds -> Row \cup {None}]
    BY DEF TypeInv, TypeOK
  <1>1. ASSUME DeleteRemote(c) PROVE TaskHist(c)'
    <2>1. loc[c].id \in FeishuIds /\ loc[c].id \in used BY <1>1 DEF DeleteRemote, UsedOK
    <2>2. loc' = loc /\ used' = used /\ remote'[loc[c].id] = None
      BY <1>1, <1>t, <2>1 DEF DeleteRemote
    <2> QED BY <1>0, <2>1, <2>2 DEF TaskHist
  <1>2. ASSUME Finish(c) PROVE TaskHist(c)' BY <1>0, <1>2, FinishHist
  <1>3. ASSUME pc'[c] # "del_cache", loc'[c].known = loc[c].known PROVE TaskHist(c)'
    BY <1>0, <1>3 DEF TaskHist, NoReturn
  <1>4. ASSUME ClientStart(c) PROVE pc'[c] # "del_cache" /\ loc'[c].known = loc[c].known
    <2>0. loc[c] \in Local BY <1>0, <1>t
    <2>1. ASSUME NEW u \in LocalIds, NEW text \in AddTexts, NEW title \in Titles,
                 NEW ok \in BOOLEAN, AddStart(c, u, text, title, ok)
          PROVE  pc'[c] # "del_cache" /\ loc'[c].known = loc[c].known
      BY <1>0, <1>t, <2>0, <2>1 DEF AddStart, Goto, Local
    <2>2. ASSUME NEW i \in Ids, DeleteStart(c, i)
          PROVE  pc'[c] # "del_cache" /\ loc'[c].known = loc[c].known
      BY <1>0, <1>t, <2>0, <2>2 DEF DeleteStart, Goto, Local
    <2>3. ASSUME NEW i \in Ids, NEW title \in Titles, UpdateStart(c, i, title)
          PROVE  pc'[c] # "del_cache" /\ loc'[c].known = loc[c].known
      BY <1>0, <1>t, <2>0, <2>3 DEF UpdateStart, Goto, Local
    <2> QED BY <1>4, <2>1, <2>2, <2>3 DEF ClientStart
  <1>5. ASSUME ClientStep(c), ~DeleteRemote(c), ~Finish(c)
        PROVE  pc'[c] # "del_cache" /\ loc'[c].known = loc[c].known
    BY <1>0, <1>5, <1>t DEF ClientStep, CreateRecord, CreateFails, CreateTimesOut, AddCache,
       DeleteFails, DeleteTimesOut, DeleteCache, UpdateWrite, UpdateRemote, UpdateFails,
       UpdateTimesOut,
       Goto, Local
  <1> QED BY <1>1, <1>2, <1>3, <1>4, <1>5

\* Sync steps keep what is known of the sync.
LEMMA SyncHist ==
    ASSUME TypeInv, UsedOK, NoReturn, NEW s \in Syncs, TaskHist(s),
           SyncStep(s) \/ \E mode \in Modes : SyncStart(s, mode)
    PROVE  TaskHist(s)'
  <1>0. s \in Tasks BY DEF Tasks
  <1>t. /\ pc \in [Tasks -> PcValues] /\ loc \in [Tasks -> Local]
        /\ loc[s] \in Local
    BY <1>0 DEF TypeInv, TypeOK
  <1>r. remote' = remote /\ used' = used BY SyncReadsOnly
  <1>i. LocalOK(pc[s], loc[s]) BY <1>0 DEF TypeInv, LocalsOK
  <1>1. ASSUME Finish(s) PROVE TaskHist(s)' BY <1>0, <1>1, FinishHist
  <1>2. ASSUME NEW mode \in Modes, SyncStart(s, mode) PROVE TaskHist(s)'
    <2>1. loc[s].known = {} BY <1>2, <1>i DEF SyncStart, LocalOK, NoLocal
    <2>2. loc'[s].known = {} BY <1>2, <1>0, <1>t, <2>1 DEF SyncStart, Local
    <2>3. pc'[s] \in {"clear", "list"} BY <1>2, <1>0, <1>t DEF SyncStart, Goto
    <2> QED BY <1>0, <2>2, <2>3, FreshHist DEF Importing
  <1>3. CASE ClearAllRecords(s)
    <2>1. loc'[s] = loc[s] /\ pc'[s] = "list" BY <1>0, <1>3, <1>t DEF ClearAllRecords, Goto
    <2> QED BY <1>r, <2>1 DEF TaskHist, ListingOf, Importing
  <1>4. CASE ListRecords(s)
    <2>1. pc'[s] = "upsert" /\ loc'[s].known = used /\ loc'[s].snap = remote
      BY <1>0, <1>4, <1>t DEF ListRecords, Goto, Local
    <2> QED BY <1>r, <2>1 DEF TaskHist, ListingOf, Importing
  <1>5. ASSUME NEW i \in FeishuIds, UpsertRow(s, i) PROVE TaskHist(s)'
    <2>1. /\ pc[s] = "upsert" /\ pc'[s] = "upsert"
          /\ loc'[s].known = loc[s].known /\ loc'[s].snap = loc[s].snap
      BY <1>0, <1>5, <1>t DEF UpsertRow, Local
    <2> QED BY <1>r, <2>1 DEF TaskHist, ListingOf, Importing
  <1>6. CASE Submit(s) /\ ~Finish(s)
    <2>1. /\ pc[s] = "upsert" /\ pc'[s] \in {"embedding", "diff"} /\ loc' = loc
          /\ Listed(s) \subseteq Upserted(s)
      BY <1>0, <1>6, <1>t DEF Submit, Return, Goto, Pending
    <2> QED BY <2>1, MoveHist DEF Importing
  <1>7. CASE (EmbedFails(s) \/ VectorAdd(s) \/ VectorFails(s)) /\ ~Finish(s)
    <2>1. pc[s] \in {"embedding", "vector"} /\ pc'[s] = "diff" /\ loc' = loc
      BY <1>0, <1>7, <1>t DEF EmbedFails, VectorAdd, VectorFails, Return, Goto
    <2> QED BY <2>1, MoveHist DEF Importing
  <1>12. CASE Embedded(s) \/ \E i \in Ids : VectorDelete(s, i) \/ VectorDeleteFails(s, i)
    <2>1. /\ pc[s] \in {"embedding", "vector"} /\ pc'[s] = "vector"
          /\ loc'[s].known = loc[s].known /\ loc'[s].snap = loc[s].snap
          /\ loc'[s].done = loc[s].done
      BY <1>0, <1>12, <1>t DEF Embedded, VectorDelete, VectorDeleteFails, Goto, Local
    <2> QED BY <2>1, MoveHist DEF Importing
  <1>8. CASE Diff(s)
    <2>1. /\ pc[s] = "diff" /\ pc'[s] = "drop"
          /\ loc'[s].known = loc[s].known /\ loc'[s].snap = loc[s].snap
          /\ loc'[s].done = loc[s].done /\ loc'[s].drop = Visible \ Upserted(s)
      BY <1>0, <1>8, <1>t DEF Diff, Goto, Local
    <2> QED BY <2>1, MoveHist DEF Importing
  <1>9. ASSUME NEW i \in Ids, DropRecord(s, i) PROVE TaskHist(s)'
    <2>1. /\ pc[s] = "drop" /\ pc'[s] = "drop_vector"
          /\ loc'[s].known = loc[s].known /\ loc'[s].snap = loc[s].snap
          /\ loc'[s].done = loc[s].done /\ loc'[s].drop = loc[s].drop \ {i}
      BY <1>0, <1>9, <1>t DEF DropRecord, Goto, Local
    <2>2. loc[s].drop \cap Upserted(s) = {} BY <2>1 DEF TaskHist, ListingOf
    <2> QED BY <2>1, <2>2, MoveHist DEF Importing
  <1>10. CASE DropVector(s)
    <2>1. pc[s] = "drop_vector" /\ pc'[s] = "drop" /\ loc' = loc
      BY <1>0, <1>10, <1>t DEF DropVector, Goto
    <2>2. loc[s].drop \cap Upserted(s) = {} BY <2>1 DEF TaskHist, ListingOf
    <2> QED BY <2>1, <2>2, MoveHist DEF Importing
  <1>11. ASSUME ListFails(s) \/ SyncEnd(s) \/ \E i \in FeishuIds : UpsertRaises(s, i)
         PROVE  Finish(s)
    BY <1>11 DEF ListFails, SyncEnd, UpsertRaises
  <1> QED BY <1>1, <1>2, <1>3, <1>4, <1>5, <1>6, <1>7, <1>8, <1>9, <1>10, <1>11,
     <1>12 DEF SyncStep,
          Resume

\* The listing invariant holds initially.
LEMMA HistInit == Init => HistInv
  BY DEF Init, StoresInit, NoLocal, HistInv, UsedOK, HalfDeleted, ListingOK, ListingOf,
         Importing, Tasks

\* The listing invariant is inductive.
LEMMA HistStep == TypeInv /\ HistInv /\ [Next]_vars => HistInv'
  <1> SUFFICES ASSUME TypeInv, HistInv, [Next]_vars PROVE HistInv'
    OBVIOUS
  <1>1. NoReturn /\ \A i \in FeishuIds : remote'[i] # None => i \in used'
    BY NothingReturns DEF HistInv
  <1>2. UsedOK /\ \A t \in Tasks : TaskHist(t)
    BY DEF HistInv, UsedOK, HalfDeleted, ListingOK, TaskHist
  <1>3. ASSUME NEW t \in Tasks PROVE TaskHist(t)'
    <2>1. ASSUME NEW c \in Clients, ClientStart(c) \/ ClientStep(c) PROVE TaskHist(t)'
      BY <1>1, <1>2, <1>3, <2>1, ClientHist, ClientAlone, KeepHist
    <2>2. ASSUME NEW s \in Syncs, SyncStep(s) \/ \E mode \in Modes : SyncStart(s, mode)
          PROVE  TaskHist(t)'
      BY <1>1, <1>2, <1>3, <2>2, SyncHist, SyncAlone, KeepHist
    <2>3. CASE Owner \/ Land BY <1>1, <1>2, <1>3, <2>3, KeepHist DEF Owner, Land
    <2>4. ASSUME NEW p \in Procs, Crash(p) PROVE TaskHist(t)'
      <3>1. CASE ProcOf[t] = p
        <4>1. pc'[t] = "idle" /\ loc'[t] = NoLocal BY <1>3, <2>4, <3>1 DEF Crash
        <4> QED BY <1>3, <4>1, FreshHist DEF NoLocal, Importing
      <3>2. CASE ProcOf[t] # p
        <4>1. pc'[t] = pc[t] /\ loc'[t] = loc[t] BY <1>3, <2>4, <3>2 DEF Crash
        <4> QED BY <1>1, <1>2, <1>3, <4>1, KeepHist
      <3> QED BY <3>1, <3>2
    <2>5. CASE UNCHANGED vars BY <1>1, <1>2, <1>3, <2>5, KeepHist DEF vars
    <2> QED BY <2>1, <2>2, <2>3, <2>4, <2>5 DEF Next
  <1> QED BY <1>1, <1>3 DEF HistInv, UsedOK, HalfDeleted, ListingOK, TaskHist, Tasks

\* A step takes a record that Feishu has out of the cache only in a rebuild or
\* when the row is younger than the listing.
LEMMA DropStep ==
    ASSUME TypeInv, HistInv, [Next]_vars, NEW i \in FeishuIds,
           cache[i] # None, cache'[i] = None, remote[i] # None
    PROVE  \E s \in Syncs : pc[s] = "clear" \/ (pc[s] = "drop" /\ i \notin loc[s].known)
  <1>t. /\ cache \in [Ids -> Rec \cup {None}] /\ loc \in [Tasks -> Local] /\ i \in Ids
    BY DEF TypeInv, TypeOK, Ids
  <1>1. ASSUME NEW c \in Clients, ClientStart(c) \/ ClientStep(c) PROVE FALSE
    <2>0. c \in Tasks /\ LocalOK(pc[c], loc[c]) BY DEF Tasks, TypeInv, LocalsOK
    <2>1. CASE DeleteCache(c)
      <3>1. loc[c].id = i BY <1>t, <2>0, <2>1 DEF DeleteCache
      <3> QED BY <2>0, <2>1, <3>1 DEF DeleteCache, HistInv, HalfDeleted
    <2>2. CASE AddCache(c)
      <3>1. loc[c].rec # None BY <2>0, <2>2 DEF AddCache, LocalOK
      <3> QED BY <1>t, <2>2, <3>1 DEF AddCache
    <2>3. CASE UpdateWrite(c)
      <3>1. loc[c].rec # None BY <2>0, <2>3 DEF UpdateWrite, LocalOK
      <3> QED BY <1>t, <2>3, <3>1 DEF UpdateWrite
    <2>4. CASE ClientStart(c)
      BY <2>4 DEF ClientStart, AddStart, DeleteStart, UpdateStart, stores
    <2> QED BY <1>1, <2>1, <2>2, <2>3, <2>4 DEF ClientStep, CreateRecord, CreateTimesOut,
            CreateFails, DeleteRemote, DeleteFails, DeleteTimesOut, UpdateRemote,
            UpdateFails, UpdateTimesOut, stores
  <1>2. ASSUME NEW s \in Syncs, SyncStep(s) \/ \E mode \in Modes : SyncStart(s, mode)
        PROVE  pc[s] = "clear" \/ (pc[s] = "drop" /\ i \notin loc[s].known)
    <2>0. s \in Tasks /\ loc[s] \in Local BY <1>t DEF Tasks
    <2>1. CASE ClearAllRecords(s) BY <2>1 DEF ClearAllRecords
    <2>2. ASSUME NEW j \in Ids, DropRecord(s, j)
          PROVE  pc[s] = "drop" /\ i \notin loc[s].known
      <3>1. j = i /\ pc[s] = "drop" /\ i \in loc[s].drop
        BY <1>t, <2>2 DEF DropRecord
      <3>2. i \notin Upserted(s) /\ Listed(s) \subseteq Upserted(s)
        BY <3>1 DEF HistInv, ListingOK, ListingOf, Importing
      <3>3. i \notin Listed(s) BY <3>2
      <3> QED BY <3>1, <3>3 DEF HistInv, ListingOK, ListingOf, Importing, Listed
    <2>3. ASSUME NEW j \in FeishuIds, UpsertRow(s, j)
          PROVE  FALSE
      <3>1. loc[s].snap[j] \in Row /\ loc[s].snap[j].title # None
        BY <2>0, <2>3 DEF UpsertRow, Pending, Listed, Local
      <3>2. FromBitable(loc[s].snap[j]) # None BY <3>1, FromBitableType, StoresAssumption
      <3> QED BY <1>t, <2>3, <3>2 DEF UpsertRow
    <2> QED BY <1>2, <2>1, <2>2, <2>3 DEF SyncStep, SyncStart, ListRecords, ListFails,
            UpsertRaises, Submit, Resume, Embedded, EmbedFails, VectorAdd,
            VectorFails, VectorDelete, VectorDeleteFails, Diff, DropVector, SyncEnd, stores
  <1>3. ~Owner /\ ~Land BY DEF Owner, Land
  <1>4. \A p \in Procs : ~Crash(p) BY DEF Crash
  <1>5. ~UNCHANGED vars BY DEF vars
  <1> QED BY <1>1, <1>2, <1>3, <1>4, <1>5 DEF Next

\* A full sync, in whatever process and whatever runs beside it, never drops a
\* record that its listing had: what it drops is gone from Feishu or younger
\* than the listing.
THEOREM SyncDropsOnlyTheGoneTheorem == Spec => SyncDropsOnlyTheGone
  <1>1. TypeInv /\ HistInv /\ [Next]_vars =>
          [\A i \in FeishuIds :
             cache[i] # None /\ cache'[i] = None /\ remote[i] # None =>
                \E s \in Syncs : \/ pc[s] = "clear"
                                 \/ pc[s] = "drop" /\ i \notin loc[s].known]_vars
    BY DropStep
  <1>2. Spec => [](TypeInv /\ HistInv)
    BY TypeInit, TypeStep, HistInit, HistStep, PTL DEF Spec
  <1> QED BY <1>1, <1>2, PTL DEF Spec, SyncDropsOnlyTheGone

-----------------------------------------------------------------------------
(* Deletions: in one process, what was acknowledged as deleted stays away.   *)

\* All tasks share one event loop: one MCP server, and no sync beside it.
OneLoop == \A t, u \in Tasks : ProcOf[t] = ProcOf[u]

LoopInv == OneHolder /\ NoLateWrite /\ AckedOK /\ NoResurrection

\* What one task has yet to write was not deleted.
LateWrite(t) ==
    /\ pc[t] \in {"add_bitable", "add_cache", "upd_write"} => loc[t].id \notin acked
    /\ pc[t] = "add_bitable" => loc[t].id \in LocalIds
    /\ pc[t] = "upsert" => Listed(t) \cap acked = {}

\* A step is taken by a task that has the loop or gets it while it is free.
LEMMA ClientHolds ==
    ASSUME NEW c \in Clients, ClientStart(c) \/ ClientStep(c)
    PROVE  Holding(c) \/ LoopFree(c)
  BY DEF ClientStart, AddStart, DeleteStart, UpdateStart, ClientStep, CreateRecord,
     CreateTimesOut, CreateFails, AddCache, DeleteRemote, DeleteFails, DeleteTimesOut,
     DeleteCache, UpdateWrite, UpdateRemote, UpdateFails, UpdateTimesOut, Holding

\* The same of syncs.
LEMMA SyncHolds ==
    ASSUME NEW s \in Syncs, SyncStep(s) \/ \E mode \in Modes : SyncStart(s, mode)
    PROVE  Holding(s) \/ LoopFree(s)
  BY DEF SyncStart, SyncStep, ClearAllRecords, ListRecords, ListFails, UpsertRow,
     UpsertRaises, Submit, Resume, Embedded, EmbedFails, VectorAdd, VectorFails,
     VectorDelete, VectorDeleteFails,
     Diff, DropRecord, DropVector, SyncEnd, Holding

\* A task that steps keeps the loop for itself.
LEMMA HolderStep ==
    ASSUME OneHolder, NEW a \in Tasks, Holding(a) \/ LoopFree(a),
           \A t \in Tasks : t # a => pc'[t] = pc[t]
    PROVE  OneHolder'
  BY DEF OneHolder, Holding, LoopFree

\* The loop of a process runs one task at a time, whatever the processes.
LEMMA OneHolderStep == TypeInv /\ OneHolder /\ [Next]_vars => OneHolder'
  <1> SUFFICES ASSUME TypeInv, OneHolder, [Next]_vars PROVE OneHolder'
    OBVIOUS
  <1>1. ASSUME NEW c \in Clients, ClientStart(c) \/ ClientStep(c) PROVE OneHolder'
    BY <1>1, ClientAlone, ClientHolds, HolderStep DEF Tasks
  <1>2. ASSUME NEW s \in Syncs, SyncStep(s) \/ \E mode \in Modes : SyncStart(s, mode)
        PROVE  OneHolder'
    BY <1>2, SyncAlone, SyncHolds, HolderStep DEF Tasks
  <1>3. CASE Owner \/ Land BY <1>3 DEF Owner, Land, OneHolder, Holding
  <1>4. ASSUME NEW p \in Procs, Crash(p) PROVE OneHolder'
    BY <1>4 DEF Crash, OneHolder, Holding
  <1>5. CASE UNCHANGED vars BY <1>5 DEF vars, OneHolder, Holding
  <1> QED BY <1>1, <1>2, <1>3, <1>4, <1>5 DEF Next

\* Client steps write no deleted record, and what they delete is gone.
LEMMA ClientDeletes ==
    ASSUME OneLoop, TypeInv, HistInv, LoopInv, NoReturn, NEW c \in Clients,
           ClientStart(c) \/ ClientStep(c)
    PROVE  AckedOK' /\ NoResurrection' /\ NoLateWrite'
  <1>0. c \in Tasks /\ c \notin Syncs BY StoresAssumption DEF Tasks
  <1>t. /\ pc \in [Tasks -> PcValues] /\ loc \in [Tasks -> Local] /\ loc[c] \in Local
        /\ cache \in [Ids -> Rec \cup {None}]
    BY <1>0 DEF TypeInv, TypeOK
  <1>l. LateWrite(c) /\ AckedOK /\ NoResurrection
    BY <1>0 DEF LoopInv, NoLateWrite, LateWrite
  <1>o. ASSUME NEW t \in Tasks, t # c, acked' = acked PROVE LateWrite(t)'
    <2>1. pc'[t] = pc[t] /\ loc'[t] = loc[t] BY <1>o, ClientAlone
    <2> QED BY <1>o, <2>1 DEF LoopInv, NoLateWrite, LateWrite, Listed
  <1>r. \A i \in acked : i \in FeishuIds /\ remote'[i] = None
    BY <1>l DEF AckedOK, NoResurrection, NoReturn
  <1>d. CASE DeleteCache(c)
    <2>1. loc[c].id \in FeishuIds /\ loc[c].id \in used /\ remote[loc[c].id] = None
      BY <1>0, <1>d DEF DeleteCache, HistInv, HalfDeleted
    <2>2. loc[c].id \in Ids BY <2>1 DEF Ids
    <2>3. AckedOK' /\ NoResurrection'
      BY <1>d, <1>l, <1>t, <2>1, <2>2 DEF DeleteCache, AckedOK, NoResurrection
    <2>4. ASSUME NEW t \in Tasks PROVE LateWrite(t)'
      <3>1. CASE t = c
        <4>1. pc'[t] = "idle" BY <1>0, <1>d, <1>t, <3>1 DEF DeleteCache, Finish
        <4> QED BY <4>1 DEF LateWrite
      <3>2. CASE t # c
        <4>1. ~Holding(t) /\ pc'[t] = pc[t]
          BY <1>0, <1>d, <3>2, ClientAlone
             DEF LoopInv, OneHolder, OneLoop, DeleteCache, Holding, ClientStep
        <4> QED BY <4>1 DEF LateWrite, Holding
      <3> QED BY <3>1, <3>2
    <2> QED BY <2>3, <2>4 DEF NoLateWrite, LateWrite
  <1>e. ASSUME ~DeleteCache(c)
        PROVE  acked' = acked /\ used \subseteq used' /\ LateWrite(c)' /\ NoResurrection'
    <2>1. ASSUME NEW u \in LocalIds, NEW text \in AddTexts, NEW title \in Titles,
                 NEW ok \in BOOLEAN, AddStart(c, u, text, title, ok)
          PROVE  acked' = acked /\ LateWrite(c)' /\ cache' = cache
      <3>1. pc'[c] = "add_bitable" /\ loc'[c].id = u /\ acked' = acked /\ cache' = cache
        BY <1>0, <1>t, <2>1 DEF AddStart, Goto, Local
      <3> QED BY <1>l, <3>1, StoresAssumption DEF LateWrite, AckedOK
    <2>2. ASSUME NEW i \in FeishuIds, CreateRecord(c, i)
          PROVE  acked' = acked /\ LateWrite(c)' /\ cache' = cache
      <3>1. /\ pc'[c] = "add_cache" /\ loc'[c].id = i /\ acked' = acked /\ cache' = cache
            /\ i \notin used
        BY <1>0, <1>t, <2>2 DEF CreateRecord, Goto, Local
      <3> QED BY <1>l, <3>1 DEF LateWrite, AckedOK
    <2>3. ASSUME CreateFails(c) \/ CreateTimesOut(c)
          PROVE  acked' = acked /\ LateWrite(c)' /\ cache' = cache
      <3>1. /\ pc[c] = "add_bitable" /\ pc'[c] = "add_cache" /\ loc' = loc
            /\ acked' = acked /\ cache' = cache
        BY <1>0, <1>t, <2>3 DEF CreateFails, CreateTimesOut, Goto, stores
      <3> QED BY <1>l, <3>1 DEF LateWrite
    <2>4. ASSUME NEW i \in Ids, NEW title \in Titles, UpdateStart(c, i, title)
          PROVE  acked' = acked /\ LateWrite(c)' /\ cache' = cache
      <3>1. /\ pc'[c] = "upd_write" /\ loc'[c].id = i /\ cache[i] # None
            /\ acked' = acked /\ cache' = cache
        BY <1>0, <1>t, <2>4 DEF UpdateStart, Goto, Local, stores
      <3> QED BY <1>l, <3>1 DEF LateWrite, NoResurrection
    <2>5. ASSUME AddCache(c) \/ UpdateWrite(c)
          PROVE  /\ acked' = acked /\ LateWrite(c)'
                 /\ cache' = [cache EXCEPT ![loc[c].id] = loc[c].rec]
                 /\ loc[c].id \notin acked
      <3>1. /\ pc[c] \in {"add_cache", "upd_write"} /\ pc'[c] \in {"idle", "upd_remote"}
            /\ acked' = acked /\ cache' = [cache EXCEPT ![loc[c].id] = loc[c].rec]
        BY <1>0, <1>t, <2>5 DEF AddCache, UpdateWrite, Finish, Goto
      <3> QED BY <1>l, <3>1 DEF LateWrite
    <2>6. ASSUME \/ \E i \in Ids : DeleteStart(c, i)
                 \/ DeleteRemote(c) \/ DeleteFails(c) \/ DeleteTimesOut(c)
                 \/ UpdateRemote(c) \/ UpdateFails(c) \/ UpdateTimesOut(c)
          PROVE  acked' = acked /\ LateWrite(c)' /\ cache' = cache
      <3>1. /\ pc'[c] \in {"idle", "del_remote", "del_cache"}
            /\ acked' = acked /\ cache' = cache
        BY <1>0, <1>t, <2>6 DEF DeleteStart, DeleteRemote, DeleteFails, DeleteTimesOut,
           UpdateRemote, UpdateFails, UpdateTimesOut, Finish, Goto, stores
      <3> QED BY <3>1 DEF LateWrite
    <2>7. /\ acked' = acked /\ LateWrite(c)'
          /\ \/ cache' = cache
             \/ /\ cache' = [cache EXCEPT ![loc[c].id] = loc[c].rec]
                /\ loc[c].id \notin acked
      BY <1>e, <2>1, <2>2, <2>3, <2>4, <2>5, <2>6 DEF ClientStart, ClientStep
    <2>8. ASSUME NEW i \in acked'
          PROVE  cache'[i] = None /\ (i \in FeishuIds => remote'[i] = None)
      <3>1. i \in acked /\ i \in Ids /\ cache[i] = None
        BY <1>l, <1>t, <2>7 DEF NoResurrection, AckedOK, Ids
      <3>2. i \in FeishuIds => remote'[i] = None BY <1>l, <1>r, <3>1 DEF NoResurrection
      <3>3. cache'[i] = None BY <1>t, <2>7, <3>1
      <3> QED BY <3>2, <3>3
    <2>9. NoResurrection' BY <2>8 DEF NoResurrection
    <2> QED BY <2>7, <2>9 DEF NoReturn
  <1> QED BY <1>d, <1>e, <1>l, <1>o DEF AckedOK, NoLateWrite, LateWrite

\* Sync steps write no deleted record.
LEMMA SyncDeletes ==
    ASSUME TypeInv, LoopInv, NoReturn, NEW s \in Syncs,
           SyncStep(s) \/ \E mode \in Modes : SyncStart(s, mode)
    PROVE  AckedOK' /\ NoResurrection' /\ NoLateWrite'
  <1>0. s \in Tasks BY DEF Tasks
  <1>t. /\ pc \in [Tasks -> PcValues] /\ loc \in [Tasks -> Local] /\ loc[s] \in Local
        /\ cache \in [Ids -> Rec \cup {None}]
    BY <1>0 DEF TypeInv, TypeOK
  <1>l. LateWrite(s) /\ AckedOK /\ NoResurrection
    BY <1>0 DEF LoopInv, NoLateWrite, LateWrite
  <1>r. remote' = remote /\ used' = used /\ acked' = acked BY SyncReadsOnly
  <1>o. ASSUME NEW t \in Tasks, t # s PROVE LateWrite(t)'
    <2>1. pc'[t] = pc[t] /\ loc'[t] = loc[t] BY <1>o, SyncAlone
    <2> QED BY <1>o, <1>r, <2>1 DEF LoopInv, NoLateWrite, LateWrite, Listed
  <1>1. CASE ListRecords(s)
    <2>1. pc'[s] = "upsert" /\ loc'[s].snap = remote /\ cache' = cache
      BY <1>0, <1>1, <1>t DEF ListRecords, Goto, Local, stores
    <2>2. LateWrite(s)' BY <1>l, <1>r, <2>1 DEF LateWrite, Listed, NoResurrection, AckedOK
    <2> QED BY <1>l, <1>o, <1>r, <2>1, <2>2 DEF NoResurrection, AckedOK, NoLateWrite,
       LateWrite
  <1>2. ASSUME NEW i \in FeishuIds, UpsertRow(s, i)
        PROVE  AckedOK' /\ NoResurrection' /\ NoLateWrite'
    <2>1. /\ pc[s] = "upsert" /\ pc'[s] = "upsert" /\ loc'[s].snap = loc[s].snap
          /\ i \in Listed(s)
      BY <1>0, <1>2, <1>t DEF UpsertRow, Local, Pending
    <2>2. LateWrite(s)' BY <1>l, <1>r, <2>1 DEF LateWrite, Listed
    <2>3. i \notin acked BY <1>l, <2>1 DEF LateWrite
    <2>4. NoResurrection' BY <1>2, <1>l, <1>r, <1>t, <2>3 DEF UpsertRow, NoResurrection
    <2> QED BY <1>l, <1>o, <1>r, <2>2, <2>4 DEF AckedOK, NoLateWrite, LateWrite
  <1>3. ASSUME ~ListRecords(s), \A i \in FeishuIds : ~UpsertRow(s, i)
        PROVE  AckedOK' /\ NoResurrection' /\ NoLateWrite'
    <2>1. /\ pc'[s] \notin {"add_bitable", "add_cache", "upd_write", "upsert"}
          /\ \A i \in acked : cache[i] = None => cache'[i] = None
      BY <1>0, <1>3, <1>l, <1>t DEF SyncStart, SyncStep, ClearAllRecords, ListFails,
         UpsertRaises, Submit, Resume, Embedded, EmbedFails, VectorAdd, VectorFails,
         VectorDelete, VectorDeleteFails,
         Return, Diff, DropRecord, DropVector, SyncEnd, Finish, Goto, stores, AckedOK, Ids
    <2>2. LateWrite(s)' BY <2>1 DEF LateWrite
    <2> QED BY <1>l, <1>o, <1>r, <2>1, <2>2 DEF AckedOK, NoResurrection, NoLateWrite,
       LateWrite
  <1> QED BY <1>1, <1>2, <1>3

\* The deletion invariant holds initially.
LEMMA LoopInit == Init => LoopInv
  BY DEF Init, StoresInit, LoopInv, OneHolder, Holding, NoLateWrite, AckedOK, NoResurrection

\* The deletion invariant is inductive when all tasks share a loop.
LEMMA LoopStep ==
    ASSUME OneLoop
    PROVE  TypeInv /\ HistInv /\ LoopInv /\ [Next]_vars => LoopInv'
  <1> SUFFICES ASSUME TypeInv, HistInv, LoopInv, [Next]_vars PROVE LoopInv'
    OBVIOUS
  <1>1. NoReturn BY NothingReturns DEF HistInv
  <1>2. OneHolder' BY OneHolderStep DEF LoopInv
  <1>3. ASSUME NEW c \in Clients, ClientStart(c) \/ ClientStep(c) PROVE LoopInv'
    BY <1>1, <1>2, <1>3, ClientDeletes DEF LoopInv
  <1>4. ASSUME NEW s \in Syncs, SyncStep(s) \/ \E mode \in Modes : SyncStart(s, mode)
        PROVE  LoopInv'
    BY <1>1, <1>2, <1>4, SyncDeletes DEF LoopInv
  <1>5. CASE Owner \/ Land
    BY <1>1, <1>2, <1>5 DEF Owner, Land, LoopInv, NoLateWrite, Listed, AckedOK,
       NoResurrection, NoReturn
  <1>6. ASSUME NEW p \in Procs, Crash(p) PROVE LoopInv'
    <2>1. NoLateWrite' BY <1>6 DEF Crash, LoopInv, NoLateWrite, Listed
    <2> QED BY <1>2, <1>6, <2>1 DEF Crash, LoopInv, AckedOK, NoResurrection
  <1>7. CASE UNCHANGED vars
    BY <1>2, <1>7 DEF vars, LoopInv, NoLateWrite, Listed, AckedOK, NoResurrection
  <1> QED BY <1>3, <1>4, <1>5, <1>6, <1>7 DEF Next

\* In one process a deletion that was acknowledged is final: neither a sync in
\* flight nor an add or update brings the record back, whatever the owner does
\* and wherever the process crashes.
THEOREM NoResurrectionTheorem ==
    ASSUME OneLoop
    PROVE  Spec => []NoResurrection
  <1>1. TypeInv /\ HistInv /\ LoopInv /\ [Next]_vars => (TypeInv /\ HistInv /\ LoopInv)'
    BY TypeStep, HistStep, LoopStep
  <1>2. Init => TypeInv /\ HistInv /\ LoopInv BY TypeInit, HistInit, LoopInit
  <1>3. LoopInv => NoResurrection BY DEF LoopInv
  <1> QED BY <1>1, <1>2, <1>3, PTL DEF Spec

-----------------------------------------------------------------------------
(* Vectors and texts, when Feishu has no blank row. *)

EmbInv == BatchOK /\ EmbeddingMatchesText

\* A sync that steps keeps its texts in line with its records.
LEMMA BatchStep ==
    ASSUME TypeInv, NoBlankRow, NEW s \in Syncs, BatchOf(s),
           SyncStep(s) \/ \E mode \in Modes : SyncStart(s, mode)
    PROVE  BatchOf(s)'
  <1>0. s \in Tasks BY DEF Tasks
  <1>t. /\ pc \in [Tasks -> PcValues] /\ loc \in [Tasks -> Local] /\ loc[s] \in Local
        /\ LocalOK(pc[s], loc[s])
    BY <1>0 DEF TypeInv, TypeOK, LocalsOK
  <1>q. loc[s].done \in Seq(FeishuIds) /\ loc[s].batch \in Seq(Texts) BY <1>t DEF Local
  <1>1. CASE ListRecords(s)
    <2>1. /\ loc'[s].snap = remote /\ loc'[s].done = loc[s].done
          /\ loc'[s].batch = loc[s].batch /\ loc[s].done = <<>>
      BY <1>0, <1>1, <1>t DEF ListRecords, Local, LocalOK
    <2> QED BY <2>1 DEF BatchOf, NoBlankRow
  <1>2. ASSUME NEW i \in FeishuIds, UpsertRow(s, i) PROVE BatchOf(s)'
    <2> DEFINE rec == FromBitable(loc[s].snap[i])
    <2>1. loc[s].snap[i] # None /\ loc[s].snap[i].title # None
      BY <1>2 DEF UpsertRow, Pending, Listed
    <2>2. Embeddable(loc[s].snap[i]) BY <2>1 DEF BatchOf
    <2>3. rec.text \in Texts
      <3>1. rec \in Rec BY <1>t, <2>1, FromBitableType DEF Local
      <3> QED BY <3>1 DEF Rec
    <2>4. /\ loc'[s].snap = loc[s].snap /\ loc'[s].done = Append(loc[s].done, i)
          /\ loc'[s].batch = Append(loc[s].batch, rec.text)
      BY <1>0, <1>2, <1>t, <2>2 DEF UpsertRow, Local
    <2> HIDE DEF rec
    <2>5. Len(loc'[s].batch) = Len(loc'[s].done) BY <1>q, <2>3, <2>4 DEF BatchOf
    <2>6. ASSUME NEW k \in DOMAIN loc'[s].done
          PROVE  loc'[s].batch[k] = FromBitable(loc'[s].snap[loc'[s].done[k]]).text
      <3>1. CASE k = Len(loc[s].done) + 1
        BY <1>q, <2>3, <2>4, <3>1 DEF BatchOf, rec
      <3>2. CASE k # Len(loc[s].done) + 1
        <4>1. k \in DOMAIN loc[s].done /\ loc'[s].done[k] = loc[s].done[k]
          BY <1>q, <2>4, <2>6, <3>2
        <4>2. loc'[s].batch[k] = loc[s].batch[k]
          BY <1>q, <2>3, <2>4, <4>1 DEF BatchOf
        <4> QED BY <2>4, <4>1, <4>2 DEF BatchOf
      <3> QED BY <3>1, <3>2
    <2> QED BY <2>4, <2>5, <2>6 DEF BatchOf
  <1>3. ASSUME loc'[s] = NoLocal PROVE BatchOf(s)'
    <2>1. /\ NoLocal.done = <<>> /\ NoLocal.batch = <<>>
          /\ \A i \in FeishuIds : NoLocal.snap[i] = None
      BY DEF NoLocal
    <2> QED BY <1>3, <2>1 DEF BatchOf
  <1>4. ASSUME ~ListRecords(s), \A i \in FeishuIds : ~UpsertRow(s, i), loc'[s] # NoLocal
        PROVE  /\ loc'[s].snap = loc[s].snap /\ loc'[s].done = loc[s].done
               /\ loc'[s].batch = loc[s].batch
    <2>1. ~Finish(s) BY <1>0, <1>4, <1>t DEF Finish
    <2>2. CASE \E mode \in Modes : SyncStart(s, mode)
      BY <1>0, <1>t, <2>2 DEF SyncStart, Local
    <2>3. CASE Embedded(s) \/ \E i \in Ids : VectorDelete(s, i) \/ VectorDeleteFails(s, i)
      <3>1. \E w : loc' = [loc EXCEPT ![s] = [loc[s] EXCEPT !.wipe = w]]
        BY <2>3, <1>t DEF Embedded, VectorDelete, VectorDeleteFails
      <3> QED BY <1>0, <1>t, <3>1 DEF Local
    <2>4. CASE Diff(s) BY <1>0, <1>t, <2>4 DEF Diff, Local
    <2>7. ASSUME NEW i \in Ids, DropRecord(s, i)
          PROVE  loc'[s].snap = loc[s].snap /\ loc'[s].done = loc[s].done
                 /\ loc'[s].batch = loc[s].batch
      BY <1>0, <1>t, <2>7 DEF DropRecord, Local
    <2>5. ASSUME ClearAllRecords(s) \/ Submit(s) \/ EmbedFails(s) \/ VectorAdd(s)
                 \/ VectorFails(s) \/ DropVector(s)
          PROVE  loc' = loc
      BY <2>1, <2>5 DEF ClearAllRecords, Submit, EmbedFails, VectorAdd, VectorFails,
         DropVector, Return
    <2>6. ~ListFails(s) /\ ~SyncEnd(s) /\ \A i \in FeishuIds : ~UpsertRaises(s, i)
      BY <2>1 DEF ListFails, SyncEnd, UpsertRaises
    <2> QED BY <1>4, <2>2, <2>3, <2>4, <2>5, <2>6, <2>7 DEF SyncStep, Resume
  <1> QED BY <1>1, <1>2, <1>3, <1>4 DEF BatchOf

\* The chunks of a sync carry the embedding of their own text.
LEMMA ChunksMatch ==
    ASSUME TypeInv, NEW s \in Syncs, BatchOf(s), NEW i \in DOMAIN Chunks(s)
    PROVE  Chunks(s)[i].emb = Chunks(s)[i].text
  <1> DEFINE done == loc[s].done
             Rc(k) == FromBitable(loc[s].snap[done[k]])
             Zipped == {k \in DOMAIN done : k <= Len(loc[s].batch) /\ Embeddable(loc[s].snap[done[k]])}
             m == CHOOSE n \in Zipped : done[n] = i
  <1>1. m \in Zipped BY DEF Chunks
  <1>2. m \in DOMAIN done BY <1>1
  <1>3. Chunks(s)[i] = [text |-> Rc(m).text, emb |-> loc[s].batch[m]] BY DEF Chunks
  <1> HIDE DEF m
  <1>4. loc[s].batch[m] = Rc(m).text BY <1>2 DEF BatchOf
  <1> QED BY <1>3, <1>4

\* A sync that steps writes only chunks with the embedding of their own text.
LEMMA MatchStep ==
    ASSUME TypeInv, EmbeddingMatchesText, NEW s \in Syncs, BatchOf(s),
           SyncStep(s) \/ \E mode \in Modes : SyncStart(s, mode)
    PROVE  EmbeddingMatchesText'
  <1>t. vectors \in [Ids -> Seq(Chunk)] BY DEF TypeInv, TypeOK
  <1>1. CASE VectorAdd(s)
    <2>1. ASSUME NEW i \in Ids, NEW k \in DOMAIN vectors'[i]
          PROVE  vectors'[i][k].emb = vectors'[i][k].text
      <3>1. CASE i \in DOMAIN Chunks(s)
        <4>1. vectors'[i] = Append(vectors[i], Chunks(s)[i]) BY <1>1, <3>1 DEF VectorAdd
        <4>2. Chunks(s)[i].emb = Chunks(s)[i].text /\ Chunks(s)[i] \in Chunk
          BY <3>1, ChunksMatch, ChunksType
        <4>3. vectors[i] \in Seq(Chunk) BY <1>t
        <4>4. CASE k = Len(vectors[i]) + 1 BY <4>1, <4>2, <4>3, <4>4
        <4>5. CASE k # Len(vectors[i]) + 1
          <5>1. k \in DOMAIN vectors[i] /\ vectors'[i][k] = vectors[i][k]
            BY <2>1, <4>1, <4>3, <4>5
          <5> QED BY <5>1 DEF EmbeddingMatchesText
        <4> QED BY <4>4, <4>5
      <3>2. CASE i \notin DOMAIN Chunks(s)
        BY <1>1, <2>1, <3>2 DEF VectorAdd, EmbeddingMatchesText
      <3> QED BY <3>1, <3>2
    <2> QED BY <2>1 DEF EmbeddingMatchesText
  <1>2. ASSUME NEW i \in Ids, VectorDelete(s, i) PROVE EmbeddingMatchesText'
    BY <1>2, <1>t DEF VectorDelete, EmbeddingMatchesText
  <1>3. CASE DropVector(s)
    BY <1>3, <1>t DEF DropVector, EmbeddingMatchesText
  <1>4. ASSUME ~VectorAdd(s), \A i \in Ids : ~VectorDelete(s, i), ~DropVector(s)
        PROVE  vectors' = vectors
    BY <1>4 DEF SyncStart, SyncStep, ClearAllRecords, ListRecords, ListFails, UpsertRow,
       UpsertRaises, Submit, Resume, Embedded, EmbedFails, VectorFails,
       VectorDeleteFails, Diff, DropRecord, SyncEnd, stores
  <1> QED BY <1>1, <1>2, <1>3, <1>4 DEF EmbeddingMatchesText

\* Texts and vectors stay in line over a step that finds no blank row.
LEMMA EmbStep == TypeInv /\ EmbInv /\ NoBlankRow /\ [Next]_vars => EmbInv'
  <1> SUFFICES ASSUME TypeInv, EmbInv, NoBlankRow, [Next]_vars PROVE EmbInv'
    OBVIOUS
  <1>0. \A s \in Syncs : s \in Tasks /\ BatchOf(s)
    BY DEF Tasks, EmbInv, BatchOK
  <1>1. ASSUME NEW s \in Syncs, loc'[s] = loc[s] PROVE BatchOf(s)'
    BY <1>0, <1>1 DEF BatchOf
  <1>2. ASSUME NEW c \in Clients, ClientStart(c) \/ ClientStep(c) PROVE EmbInv'
    <2>1. vectors' = vectors
      BY <1>2 DEF ClientStart, AddStart, DeleteStart, UpdateStart, ClientStep, CreateRecord,
         CreateFails, CreateTimesOut, AddCache, DeleteRemote, DeleteFails, DeleteTimesOut,
         DeleteCache, UpdateWrite, UpdateRemote, UpdateFails, UpdateTimesOut, stores
    <2>2. ASSUME NEW s \in Syncs PROVE BatchOf(s)'
      <3>1. s # c BY StoresAssumption
      <3> QED BY <1>0, <1>1, <1>2, <3>1, ClientAlone
    <2> QED BY <2>1, <2>2 DEF EmbInv, BatchOK, EmbeddingMatchesText
  <1>3. ASSUME NEW u \in Syncs, SyncStep(u) \/ \E mode \in Modes : SyncStart(u, mode)
        PROVE  EmbInv'
    <2>1. ASSUME NEW s \in Syncs PROVE BatchOf(s)'
      <3>1. CASE s = u BY <1>0, <1>3, <3>1, BatchStep
      <3>2. CASE s # u BY <1>0, <1>1, <1>3, <3>2, SyncAlone
      <3> QED BY <3>1, <3>2
    <2>2. EmbeddingMatchesText' BY <1>0, <1>3, MatchStep DEF EmbInv
    <2> QED BY <2>1, <2>2 DEF EmbInv, BatchOK
  <1>4. CASE Owner \/ Land \/ UNCHANGED vars
    <2>1. loc' = loc /\ vectors' = vectors BY <1>4 DEF Owner, Land, vars
    <2> QED BY <1>1, <2>1 DEF EmbInv, BatchOK, EmbeddingMatchesText
  <1>5. ASSUME NEW p \in Procs, Crash(p) PROVE EmbInv'
    <2>1. vectors' = vectors BY <1>5 DEF Crash
    <2>2. ASSUME NEW s \in Syncs PROVE BatchOf(s)'
      <3>1. CASE ProcOf[s] = p
        <4>1. loc'[s] = NoLocal BY <1>0, <1>5, <3>1 DEF Crash
        <4> QED BY <4>1 DEF BatchOf, NoLocal
      <3>2. CASE ProcOf[s] # p
        <4>1. loc'[s] = loc[s] BY <1>0, <1>5, <3>2 DEF Crash
        <4> QED BY <1>1, <4>1
      <3> QED BY <3>1, <3>2
    <2> QED BY <2>1, <2>2 DEF EmbInv, BatchOK, EmbeddingMatchesText
  <1> QED BY <1>2, <1>3, <1>4, <1>5 DEF Next

\* As long as Feishu has no blank row, every vector was computed from the text
\* stored beside it: the zip of records and embeddings goes wrong in no other
\* way, whatever runs beside the sync, fails or crashes.
THEOREM EmbeddingMatchesTextTheorem ==
    Spec /\ []NoBlankRow => []EmbeddingMatchesText
  <1>1. TypeInv /\ EmbInv /\ NoBlankRow /\ [Next]_vars => (TypeInv /\ EmbInv)'
    BY TypeStep, EmbStep
  <1>2. Init => TypeInv /\ EmbInv
    <2>1. Init => EmbInv
      BY DEF Init, StoresInit, NoLocal, EmbInv, BatchOK, BatchOf, EmbeddingMatchesText, Tasks
    <2> QED BY <2>1, TypeInit
  <1>3. EmbInv => EmbeddingMatchesText BY DEF EmbInv
  <1> QED BY <1>1, <1>2, <1>3, PTL DEF Spec

-----------------------------------------------------------------------------
(* How many chunks a record has. *)

CountInv == OneHolder /\ ChunksCounted

\* The processes about to add a chunk are no more than there are.
LEMMA AddersFinite ==
    ASSUME IsFiniteSet(Procs), NEW i
    PROVE  /\ IsFiniteSet(Adders(i)) /\ Cardinality(Adders(i)) \in Nat
           /\ Cardinality(Procs) \in Nat /\ Cardinality(Adders(i)) <= Cardinality(Procs)
  <1>1. Adders(i) \in SUBSET Procs BY DEF Adders
  <1> QED BY <1>1, FS_Subset, FS_CardinalityType

\* A step that adds no chunk and makes no process an adder keeps the bound.
LEMMA NoneAdded ==
    ASSUME IsFiniteSet(Procs), TypeOK, TypeOK', NEW i \in Ids, CountOf(i),
           Len(vectors'[i]) <= Len(vectors[i]), churn' >= churn,
           \A s \in Syncs : Replaces(s, i)' => Replaces(s, i)
    PROVE  CountOf(i)'
  <1>1. Adders(i)' \in SUBSET Adders(i) BY DEF Adders
  <1>2. /\ Cardinality(Adders(i)') <= Cardinality(Adders(i))
        /\ Cardinality(Adders(i)') \in Nat /\ Cardinality(Adders(i)) \in Nat
        /\ Cardinality(Procs) \in Nat
    BY <1>1, AddersFinite, FS_Subset, FS_CardinalityType
  <1>3. /\ vectors[i] \in Seq(Chunk) /\ vectors'[i] \in Seq(Chunk)
        /\ churn \in Nat /\ churn' \in Nat
    BY StoresAssumption DEF TypeOK
  <1>4. Len(vectors[i]) \in Nat /\ Len(vectors'[i]) \in Nat BY <1>3
  <1> QED BY <1>2, <1>3, <1>4 DEF CountOf

\* What a sync is about to add depends on its own locals.
LEMMA SameReplaces ==
    ASSUME NEW s \in Syncs, NEW i, pc'[s] = pc[s], loc'[s] = loc[s]
    PROVE  Replaces(s, i)' <=> Replaces(s, i)
  <1>1. Chunks(s)' = Chunks(s) BY DEF Chunks
  <1> QED BY <1>1 DEF Replaces

\* It does not depend on the chunks that are left to delete.
LEMMA SameChunks ==
    ASSUME NEW s \in Syncs, loc[s] \in Local, NEW w,
           loc'[s] = [loc[s] EXCEPT !.wipe = w]
    PROVE  Chunks(s)' = Chunks(s) /\ loc'[s].wipe = w
  <1>1. /\ loc'[s].done = loc[s].done /\ loc'[s].snap = loc[s].snap
        /\ loc'[s].batch = loc[s].batch /\ loc'[s].wipe = w
    BY DEF Local
  <1>2. Chunks(s)' = Chunks(s)
    <2>1. /\ loc'[s].done = loc[s].done /\ loc'[s].snap = loc[s].snap
          /\ loc'[s].batch = loc[s].batch
      BY <1>1
    <2> QED BY ONLY <2>1 DEF Chunks
  <1> QED BY <1>1, <1>2

\* A deletion that is refused makes its process an adder, and is counted.
LEMMA RefusalCounted ==
    ASSUME IsFiniteSet(Procs), TypeOK, TypeOK', NEW s \in Syncs, NEW i \in Ids, CountOf(i),
           VectorFaults, vectors' = vectors, churn' = churn + 1,
           \A u \in Syncs \ {s} : Replaces(u, i)' => Replaces(u, i)
    PROVE  CountOf(i)'
  <1>1. Adders(i)' \in SUBSET (Adders(i) \cup {ProcOf[s]}) BY DEF Adders
  <1>2. /\ IsFiniteSet(Adders(i)) /\ Cardinality(Adders(i)) \in Nat
        /\ Cardinality(Adders(i)') \in Nat /\ Cardinality(Procs) \in Nat
    <2>1. IsFiniteSet(Adders(i)') BY <1>1, AddersFinite, FS_AddElement, FS_Subset
    <2> QED BY <2>1, AddersFinite, FS_CardinalityType
  <1>3. /\ IsFiniteSet(Adders(i) \cup {ProcOf[s]})
        /\ \/ Cardinality(Adders(i) \cup {ProcOf[s]}) = Cardinality(Adders(i))
           \/ Cardinality(Adders(i) \cup {ProcOf[s]}) = Cardinality(Adders(i)) + 1
    BY <1>2, FS_AddElement
  <1>4. Cardinality(Adders(i)') <= Cardinality(Adders(i) \cup {ProcOf[s]})
    BY <1>1, <1>3, FS_Subset
  <1>5. Len(vectors[i]) \in Nat /\ churn \in Nat BY StoresAssumption DEF TypeOK
  <1> QED BY <1>2, <1>3, <1>4, <1>5 DEF CountOf

\* The sync that adds is no adder any more, and no other of its process is one.
LEMMA AddCounted ==
    ASSUME IsFiniteSet(Procs), TypeOK, OneHolder, NEW s \in Syncs, VectorAdd(s),
           NEW i \in DOMAIN Chunks(s), i \in Ids, CountOf(i), pc'[s] # "vector",
           \A u \in Syncs \ {s} : Replaces(u, i)' <=> Replaces(u, i)
    PROVE  CountOf(i)'
  <1>0. s \in Tasks /\ pc[s] = "vector" /\ ProcOf[s] \in Procs
    BY StoresAssumption DEF Tasks, VectorAdd
  <1>1. Replaces(s, i) /\ ~Replaces(s, i)' BY <1>0 DEF Replaces, VectorAdd
  <1>2. Adders(i)' \in SUBSET (Adders(i) \ {ProcOf[s]})
    <2>1. ASSUME NEW u \in Syncs \ {s}, Replaces(u, i), ProcOf[u] = ProcOf[s] PROVE FALSE
      BY <1>0, <2>1 DEF OneHolder, Replaces, Holding, Tasks
    <2> QED BY <1>1, <2>1 DEF Adders
  <1>3. ProcOf[s] \in Adders(i) BY <1>0, <1>1 DEF Adders
  <1>4. /\ IsFiniteSet(Adders(i) \ {ProcOf[s]})
        /\ Cardinality(Adders(i) \ {ProcOf[s]}) = Cardinality(Adders(i)) - 1
    BY <1>3, AddersFinite, FS_RemoveElement
  <1>5. /\ Cardinality(Adders(i)') <= Cardinality(Adders(i)) - 1
        /\ Cardinality(Adders(i)') \in Nat /\ Cardinality(Adders(i)) \in Nat
        /\ Cardinality(Procs) \in Nat
    BY <1>2, <1>4, AddersFinite, FS_Subset, FS_CardinalityType
  <1>6. Len(vectors'[i]) = Len(vectors[i]) + 1 /\ Len(vectors[i]) \in Nat /\ churn \in Nat
    BY StoresAssumption DEF VectorAdd, TypeOK
  <1>7. churn' = churn BY DEF VectorAdd
  <1> QED BY <1>5, <1>6, <1>7 DEF CountOf

\* No step of a sync takes a record past the bound.
LEMMA SyncCounted ==
    ASSUME IsFiniteSet(Procs), TypeInv, TypeOK', OneHolder, ChunksCounted,
           NEW s \in Syncs, SyncStep(s) \/ \E mode \in Modes : SyncStart(s, mode)
    PROVE  ChunksCounted'
  <1> SUFFICES ASSUME NEW i \in Ids PROVE CountOf(i)'
    BY DEF ChunksCounted
  <1>0. s \in Tasks /\ CountOf(i) /\ TypeOK BY DEF Tasks, ChunksCounted, TypeInv
  <1>t. /\ pc \in [Tasks -> PcValues] /\ loc \in [Tasks -> Local] /\ loc[s] \in Local
        /\ vectors \in [Ids -> Seq(Chunk)] /\ churn \in Nat
    BY <1>0, StoresAssumption DEF TypeOK
  <1>a. ASSUME NEW u \in Syncs \ {s} PROVE Replaces(u, i)' <=> Replaces(u, i)
    <2>1. u \in Tasks BY DEF Tasks
    <2> QED BY <2>1, SyncAlone, SameReplaces
  <1>b. ASSUME vectors' = vectors \/ vectors'[i] = vectors[i], churn' = churn,
               Replaces(s, i)' => Replaces(s, i)
        PROVE  CountOf(i)'
    <2>1. /\ \A u \in Syncs : Replaces(u, i)' => Replaces(u, i)
          /\ Len(vectors[i]) \in Nat /\ vectors'[i] = vectors[i]
      BY <1>a, <1>b, <1>t
    <2>2. Len(vectors'[i]) <= Len(vectors[i]) /\ churn' >= churn BY <1>b, <1>t, <2>1
    <2> QED BY <1>0, <2>1, <2>2, NoneAdded
  <1>1. CASE VectorAdd(s)
    <2>1. pc'[s] # "vector" /\ churn' = churn
      BY <1>0, <1>1, <1>t DEF VectorAdd, Return, Finish, Goto
    <2>2. CASE i \in DOMAIN Chunks(s) BY <1>0, <1>1, <1>a, <2>1, <2>2, AddCounted
    <2>3. CASE i \notin DOMAIN Chunks(s)
      <3>1. vectors'[i] = vectors[i] BY <1>1, <2>3 DEF VectorAdd
      <3> QED BY <1>b, <2>1, <3>1 DEF Replaces
    <2> QED BY <2>2, <2>3
  <1>2. ASSUME NEW j \in Ids, VectorDelete(s, j) PROVE CountOf(i)'
    <2>1. pc' = pc /\ churn' = churn BY <1>2 DEF VectorDelete
    <2>2. CASE i = j
      <3>1. vectors'[i] = <<>> BY <1>2, <1>t, <2>2 DEF VectorDelete
      <3>2. /\ Cardinality(Adders(i)') \in Nat /\ Cardinality(Procs) \in Nat
            /\ Cardinality(Adders(i)') <= Cardinality(Procs)
        <4>1. Adders(i)' \in SUBSET Procs BY DEF Adders
        <4> QED BY <4>1, FS_Subset, FS_CardinalityType
      <3>3. Len(vectors'[i]) = 0 BY <3>1
      <3> QED BY <1>t, <2>1, <3>2, <3>3 DEF CountOf
    <2>3. CASE i # j
      <3>1. vectors'[i] = vectors[i] BY <1>2, <1>t, <2>3 DEF VectorDelete
      <3>2. loc'[s] = [loc[s] EXCEPT !.wipe = loc[s].wipe \ {j}]
        BY <1>0, <1>2, <1>t DEF VectorDelete
      <3>3. Chunks(s)' = Chunks(s) /\ loc'[s].wipe = loc[s].wipe \ {j}
        BY <1>t, <3>2, SameChunks
      <3>4. Replaces(s, i)' => Replaces(s, i) BY <2>1, <2>3, <3>3 DEF Replaces
      <3> QED BY <1>b, <2>1, <3>1, <3>4
    <2> QED BY <2>2, <2>3
  <1>3. ASSUME NEW j \in Ids, VectorDeleteFails(s, j) PROVE CountOf(i)'
    <2>1. VectorFaults /\ vectors' = vectors /\ churn' = churn + 1
      BY <1>3 DEF VectorDeleteFails, Spend
    <2> QED BY <1>0, <1>a, <2>1, RefusalCounted
  <1>4. CASE DropVector(s)
    <2>1. churn' = churn /\ ~Replaces(s, i)'
      BY <1>0, <1>4, <1>t DEF DropVector, Goto, Replaces
    <2>2. /\ vectors'[i] = vectors[i] \/ vectors'[i] = <<>>
      BY <1>4, <1>t DEF DropVector
    <2>3. /\ Len(vectors'[i]) <= Len(vectors[i])
      BY <1>t, <2>2
    <2>4. \A u \in Syncs : Replaces(u, i)' => Replaces(u, i) BY <1>a, <2>1
    <2> QED BY <1>0, <1>t, <2>1, <2>3, <2>4, NoneAdded
  <1>5. CASE Embedded(s)
    <2>1. /\ loc'[s] = [loc[s] EXCEPT !.wipe = DOMAIN Chunks(s)]
          /\ vectors' = vectors /\ churn' = churn
      BY <1>0, <1>5, <1>t DEF Embedded, stores
    <2>2. Chunks(s)' = Chunks(s) /\ loc'[s].wipe = DOMAIN Chunks(s)
      BY <1>t, <2>1, SameChunks
    <2>3. ~Replaces(s, i)' BY <2>2 DEF Replaces
    <2> QED BY <1>b, <2>1, <2>3
  <1>6. ASSUME ~VectorAdd(s), ~DropVector(s), ~Embedded(s),
               \A j \in Ids : ~VectorDelete(s, j) /\ ~VectorDeleteFails(s, j)
        PROVE  CountOf(i)'
    <2>1. vectors' = vectors /\ churn' = churn
      BY <1>6 DEF SyncStart, SyncStep, ClearAllRecords, ListRecords, ListFails, UpsertRow,
         UpsertRaises, Submit, Resume, EmbedFails, VectorFails, Diff, DropRecord,
         SyncEnd, stores
    <2>2. pc'[s] # "vector"
      BY <1>0, <1>6, <1>t DEF SyncStart, SyncStep, ClearAllRecords, ListRecords, ListFails,
         UpsertRow, UpsertRaises, Submit, Resume, EmbedFails, VectorFails, Diff, DropRecord,
         SyncEnd, Return, Finish, Goto
    <2> QED BY <1>b, <2>1, <2>2 DEF Replaces
  <1> QED BY <1>1, <1>2, <1>3, <1>4, <1>5, <1>6

\* Nor does any other step.
LEMMA CountStep ==
    ASSUME IsFiniteSet(Procs), TypeInv, TypeOK', CountInv, [Next]_vars
    PROVE  ChunksCounted'
  <1>0. /\ TypeOK /\ OneHolder /\ \A i \in Ids : CountOf(i) /\ vectors[i] \in Seq(Chunk)
        /\ churn \in Nat
    BY StoresAssumption DEF CountInv, ChunksCounted, TypeInv, TypeOK
  <1>1. ASSUME vectors' = vectors, churn' >= churn,
               \A s \in Syncs : (pc'[s] = pc[s] /\ loc'[s] = loc[s]) \/ pc'[s] = "idle"
        PROVE  ChunksCounted'
    <2> SUFFICES ASSUME NEW i \in Ids PROVE CountOf(i)'
      BY DEF ChunksCounted
    <2>1. ASSUME NEW s \in Syncs PROVE Replaces(s, i)' => Replaces(s, i)
      <3>1. CASE pc'[s] = "idle" BY <3>1 DEF Replaces
      <3>2. CASE pc'[s] = pc[s] /\ loc'[s] = loc[s] BY <3>2, SameReplaces
      <3> QED BY <1>1, <3>1, <3>2
    <2>2. Len(vectors'[i]) <= Len(vectors[i])
      <3>1. Len(vectors[i]) \in Nat BY <1>0
      <3> QED BY <1>1, <3>1
    <2> QED BY <1>0, <1>1, <2>1, <2>2, NoneAdded
  <1>2. ASSUME NEW s \in Syncs, SyncStep(s) \/ \E mode \in Modes : SyncStart(s, mode)
        PROVE  ChunksCounted'
    BY <1>0, <1>2, SyncCounted DEF CountInv
  <1>3. ASSUME NEW c \in Clients, ClientStart(c) \/ ClientStep(c) PROVE ChunksCounted'
    <2>1. vectors' = vectors /\ churn' \in {churn, churn + 1}
      <3>1. CASE ClientStart(c)
        BY <3>1 DEF ClientStart, AddStart, DeleteStart, UpdateStart, Spend, stores
      <3>2. CASE ClientStep(c)
        BY <3>2 DEF ClientStep, CreateRecord, CreateFails, CreateTimesOut, AddCache,
           DeleteRemote, DeleteFails, DeleteTimesOut, DeleteCache, UpdateWrite,
           UpdateRemote, UpdateFails, UpdateTimesOut, stores
      <3> QED BY <1>3, <3>1, <3>2
    <2>2. ASSUME NEW s \in Syncs PROVE pc'[s] = pc[s] /\ loc'[s] = loc[s]
      <3>1. s # c /\ s \in Tasks BY StoresAssumption DEF Tasks
      <3> QED BY <1>3, <3>1, ClientAlone
    <2> QED BY <1>0, <1>1, <2>1, <2>2
  <1>4. CASE Owner \/ Land \/ UNCHANGED vars
    <2>1. pc' = pc /\ loc' = loc /\ vectors' = vectors /\ churn' >= churn
      BY <1>0, <1>4 DEF Owner, Land, Spend, vars
    <2> QED BY <1>1, <2>1
  <1>5. ASSUME NEW p \in Procs, Crash(p) PROVE ChunksCounted'
    <2>1. vectors' = vectors /\ churn' >= churn BY <1>0, <1>5 DEF Crash, Spend
    <2>2. \A s \in Syncs : (pc'[s] = pc[s] /\ loc'[s] = loc[s]) \/ pc'[s] = "idle"
      BY <1>5 DEF Crash, Tasks
    <2> QED BY <1>1, <2>1, <2>2
  <1> QED BY <1>2, <1>3, <1>4, <1>5 DEF Next

\* However many processes sync at once and wherever they die, no record has
\* more chunks than there are processes, and one for each delete that LanceDB
\* refused.
THEOREM ChunksBoundedTheorem ==
    ASSUME IsFiniteSet(Procs)
    PROVE  Spec => []ChunksBounded
  <1>1. Init => TypeInv /\ CountInv
    <2>1. Init => OneHolder BY DEF Init, StoresInit, OneHolder, Holding
    <2>2. ASSUME Init, NEW i \in Ids PROVE CountOf(i)
      <3>1. Adders(i) = {} /\ vectors[i] = <<>> /\ churn = 0
        BY <2>2 DEF Init, StoresInit, Adders, Replaces, Tasks
      <3>2. Cardinality(Procs) \in Nat /\ Cardinality({}) = 0 BY FS_CardinalityType, FS_EmptySet
      <3>3. Len(vectors[i]) = 0 BY <3>1
      <3> QED BY <3>1, <3>2, <3>3 DEF CountOf
    <2> QED BY <2>1, <2>2, TypeInit DEF CountInv, ChunksCounted
  <1>2. TypeInv /\ CountInv /\ [Next]_vars => (TypeInv /\ CountInv)'
    BY TypeStep, OneHolderStep, CountStep DEF CountInv, TypeInv
  <1>3. TypeInv /\ CountInv => ChunksBounded
    <2> SUFFICES ASSUME TypeInv, CountInv, NEW i \in Ids
                 PROVE  Len(vectors[i]) <= Cardinality(Procs) + (IF VectorFaults THEN churn ELSE 0)
      BY DEF ChunksBounded
    <2>1. CountOf(i) BY DEF CountInv, ChunksCounted
    <2>2. Len(vectors[i]) \in Nat /\ churn \in Nat BY StoresAssumption DEF TypeInv, TypeOK
    <2> QED BY <2>1, <2>2, AddersFinite DEF CountOf
  <1> QED BY <1>1, <1>2, <1>3, PTL DEF Spec

-----------------------------------------------------------------------------
(* What a sync is for, when Feishu has no blank row. *)

\* The chunks of a sync are those of its embeddable records, each with its text.
LEMMA ChunksAre ==
    ASSUME TypeInv, NEW s \in Syncs, BatchOf(s)
    PROVE  /\ DOMAIN Chunks(s) = {i \in Ids : Embeds(s, i)}
           /\ \A i \in DOMAIN Chunks(s) : Chunks(s)[i] = ChunkOf(s, i)
  <1> DEFINE done == loc[s].done
             Rc(k) == FromBitable(loc[s].snap[done[k]])
             Zipped == {k \in DOMAIN done : k <= Len(loc[s].batch) /\ Embeddable(loc[s].snap[done[k]])}
  <1>1. done \in Seq(FeishuIds) /\ Len(loc[s].batch) = Len(done)
    BY DEF Tasks, TypeInv, TypeOK, Local, BatchOf
  <1>2. DOMAIN done = 1..Len(done) /\ Len(done) \in Nat BY <1>1
  <1>3. Zipped = {k \in DOMAIN done : Embeddable(loc[s].snap[done[k]])}
    <2>1. \A k \in DOMAIN done : k <= Len(loc[s].batch) BY <1>1, <1>2
    <2> QED BY <2>1
  <1>4. DOMAIN Chunks(s) = {done[k] : k \in Zipped} BY DEF Chunks
  <1>5. DOMAIN Chunks(s) = {i \in Ids : Embeds(s, i)}
    <2>1. \A k \in DOMAIN done : done[k] \in Ids BY <1>1 DEF Ids
    <2> HIDE DEF Zipped
    <2> QED BY <1>3, <1>4, <2>1 DEF Embeds, Upserted
  <1>6. ASSUME NEW i \in DOMAIN Chunks(s) PROVE Chunks(s)[i] = ChunkOf(s, i)
    <2> DEFINE m == CHOOSE n \in Zipped : done[n] = i
    <2>1. m \in Zipped /\ done[m] = i BY <1>4
    <2>2. Chunks(s)[i] = [text |-> Rc(m).text, emb |-> loc[s].batch[m]] BY <1>4 DEF Chunks
    <2> HIDE DEF m
    <2>3. loc[s].batch[m] = Rc(m).text BY <1>3, <2>1 DEF BatchOf
    <2> QED BY <2>1, <2>2, <2>3 DEF ChunkOf
  <1> QED BY <1>5, <1>6

\* What is said of a sync depends on its listing and on what it has upserted.
LEMMA SameListing ==
    ASSUME NEW s \in Syncs, loc'[s].snap = loc[s].snap, loc'[s].done = loc[s].done
    PROVE  /\ Upserted(s)' = Upserted(s) /\ Listed(s)' = Listed(s)
           /\ \A i : (Embeds(s, i)' <=> Embeds(s, i)) /\ ChunkOf(s, i)' = ChunkOf(s, i)
           /\ cache' = cache => (AsListed(s)' <=> AsListed(s))
  BY DEF Upserted, Listed, Embeds, ChunkOf, AsListed

\* The listing of a sync is what is there now, and nothing is upserted yet.
LEMMA AloneBegins ==
    ASSUME TypeInv, NEW s \in Syncs, ListRecords(s)
    PROVE  AloneOf(s)' /\ pc'[s] = "upsert"
  <1>0. s \in Tasks BY DEF Tasks
  <1>t. pc \in [Tasks -> PcValues] /\ loc \in [Tasks -> Local] /\ LocalOK(pc[s], loc[s])
    BY <1>0 DEF TypeInv, TypeOK, LocalsOK
  <1>1. /\ pc'[s] = "upsert" /\ loc'[s].snap = remote /\ remote' = remote
        /\ loc'[s].done = <<>>
    BY <1>0, <1>t DEF ListRecords, Goto, Local, LocalOK, stores
  <1>2. Upserted(s)' = {} BY <1>1 DEF Upserted
  <1> QED BY <1>1, <1>2 DEF AloneOf, AsListed, Importing

\* An upsert makes the record what was listed, and leaves those before it.
LEMMA AloneUpserts ==
    ASSUME TypeInv, NEW s \in Syncs, AloneOf(s), NEW i \in FeishuIds, UpsertRow(s, i)
    PROVE  AloneOf(s)'
  <1>0. s \in Tasks BY DEF Tasks
  <1>t. /\ loc \in [Tasks -> Local] /\ loc[s].done \in Seq(FeishuIds)
        /\ cache \in [Ids -> Rec \cup {None}]
    BY <1>0 DEF TypeInv, TypeOK, Local
  <1>1. /\ pc[s] = "upsert" /\ pc' = pc /\ remote' = remote /\ i \notin Upserted(s)
        /\ cache' = [cache EXCEPT ![i] = FromBitable(loc[s].snap[i])]
        /\ loc'[s].snap = loc[s].snap /\ loc'[s].done = Append(loc[s].done, i)
    BY <1>0, <1>t DEF UpsertRow, Pending, Local
  <1>2. Upserted(s)' = Upserted(s) \cup {i}
    <2>1. /\ DOMAIN Append(loc[s].done, i) = DOMAIN loc[s].done \cup {Len(loc[s].done) + 1}
          /\ Append(loc[s].done, i)[Len(loc[s].done) + 1] = i
          /\ \A k \in DOMAIN loc[s].done : Append(loc[s].done, i)[k] = loc[s].done[k]
      BY <1>t
    <2> QED BY <1>1, <2>1 DEF Upserted
  <1>3. AsListed(s)' BY <1>1, <1>2, <1>t DEF AsListed, AloneOf, Ids
  <1> QED BY <1>1, <1>3 DEF AloneOf

\* Every row has its vector when all that was to embed has one.
LEMMA AllMirrored ==
    ASSUME TypeInv, NEW s \in Syncs, AloneOf(s), Listed(s) \subseteq Upserted(s),
           \A i \in Ids : Embeds(s, i) => vectors'[i] = <<ChunkOf(s, i)>>,
           remote' = remote, cache' = cache
    PROVE  RowsMirrored'
  <1> SUFFICES ASSUME NEW i \in FeishuIds, remote[i] # None
               PROVE  /\ cache[i] = FromBitable(remote[i])
                      /\ Embeddable(remote[i]) =>
                            vectors'[i] = <<[text |-> FromBitable(remote[i]).text,
                                             emb |-> FromBitable(remote[i]).text]>>
    BY DEF RowsMirrored
  <1>1. loc[s].snap = remote /\ i \in Upserted(s) BY DEF AloneOf, Listed
  <1>2. cache[i] = FromBitable(remote[i]) BY <1>1 DEF AloneOf, AsListed
  <1>3. ASSUME Embeddable(remote[i])
        PROVE  vectors'[i] = <<[text |-> FromBitable(remote[i]).text,
                                emb |-> FromBitable(remote[i]).text]>>
    <2>1. Embeds(s, i) /\ i \in Ids BY <1>1, <1>3 DEF Embeds, Ids
    <2> QED BY <1>1, <2>1 DEF ChunkOf
  <1> QED BY <1>2, <1>3

\* A sync that returns from the embedding at once, or after the last add, has
\* mirrored every row; if it goes on, it goes on with that.
LEMMA AloneReturns ==
    ASSUME TypeInv, NEW s \in Syncs, AloneOf(s), pc[s] \in {"upsert", "vector"}, Return(s),
           Listed(s) \subseteq Upserted(s),
           \A i \in Ids : Embeds(s, i) => vectors'[i] = <<ChunkOf(s, i)>>,
           remote' = remote, cache' = cache
    PROVE  /\ pc'[s] # "idle" => AloneOf(s)'
           /\ pc'[s] = "idle" => loc[s].mode = "incremental" /\ RowsMirrored'
  <1>0. s \in Tasks BY DEF Tasks
  <1>t. pc \in [Tasks -> PcValues] /\ loc \in [Tasks -> Local] BY DEF TypeInv, TypeOK
  <1>1. CASE loc[s].mode = "incremental"
    <2>1. pc'[s] = "idle" BY <1>0, <1>1, <1>t DEF Return, Finish
    <2> QED BY <1>1, <2>1, AllMirrored
  <1>2. CASE loc[s].mode # "incremental"
    <2>1. pc'[s] = "diff" /\ loc' = loc BY <1>0, <1>2, <1>t DEF Return, Goto
    <2> QED BY <2>1, SameListing DEF AloneOf, Importing
  <1> QED BY <1>1, <1>2

\* Every step of a sync that acts alone keeps what is known of it, and its last
\* step leaves a mirror.
LEMMA AloneStep ==
    ASSUME TypeInv, NEW s \in Syncs, AloneOf(s), BatchOf(s), Proceeds(s)
    PROVE  /\ pc'[s] # "idle" => AloneOf(s)'
           /\ pc'[s] = "idle" =>
                 RowsMirrored' /\ (loc[s].mode # "incremental" => NothingElse')
  <1>0. s \in Tasks BY DEF Tasks
  <1>t. /\ pc \in [Tasks -> PcValues] /\ loc \in [Tasks -> Local] /\ loc[s] \in Local
        /\ cache \in [Ids -> Rec \cup {None}] /\ vectors \in [Ids -> Seq(Chunk)]
        /\ loc[s].done \in Seq(FeishuIds) /\ LocalOK(pc[s], loc[s])
    BY <1>0 DEF TypeInv, TypeOK, LocalsOK, Local
  <1>1. ASSUME NEW i \in FeishuIds, UpsertRow(s, i)
        PROVE  AloneOf(s)' /\ pc'[s] # "idle"
    <2>1. pc' = pc /\ pc[s] = "upsert" BY <1>1 DEF UpsertRow
    <2> QED BY <1>1, <2>1, AloneUpserts
  <1>2. CASE Submit(s)
    <2>1. /\ pc[s] = "upsert" /\ Listed(s) \subseteq Upserted(s)
          /\ remote' = remote /\ cache' = cache /\ vectors' = vectors
      BY <1>2 DEF Submit, Pending, stores
    <2>2. CASE loc[s].batch = <<>>
      <3>1. loc[s].done = <<>> BY <1>t, <2>2 DEF BatchOf
      <3>2. \A i : ~Embeds(s, i) BY <3>1 DEF Embeds, Upserted
      <3> QED BY <1>2, <2>1, <2>2, <3>2, AloneReturns DEF Submit
    <2>3. CASE loc[s].batch # <<>>
      <3>1. pc'[s] = "embedding" /\ loc' = loc BY <1>0, <1>2, <1>t, <2>3 DEF Submit, Goto
      <3> QED BY <2>1, <3>1, SameListing DEF AloneOf, Importing
    <2> QED BY <2>2, <2>3
  <1>3. CASE Embedded(s)
    <2>1. /\ pc[s] = "embedding" /\ pc'[s] = "vector" /\ remote' = remote /\ cache' = cache
          /\ loc'[s].snap = loc[s].snap /\ loc'[s].done = loc[s].done
          /\ loc'[s].wipe = DOMAIN Chunks(s)
      BY <1>0, <1>3, <1>t DEF Embedded, Goto, Local, stores
    <2>2. \A i \in Ids : Embeds(s, i) => i \in loc'[s].wipe BY <2>1, ChunksAre
    <2> QED BY <2>1, <2>2, SameListing DEF AloneOf, Importing
  <1>4. ASSUME NEW j \in Ids, VectorDelete(s, j)
        PROVE  AloneOf(s)' /\ pc'[s] # "idle"
    <2>1. /\ pc[s] = "vector" /\ pc' = pc /\ remote' = remote /\ cache' = cache
          /\ vectors' = [vectors EXCEPT ![j] = <<>>]
          /\ loc'[s].snap = loc[s].snap /\ loc'[s].done = loc[s].done
          /\ loc'[s].wipe = loc[s].wipe \ {j}
      BY <1>0, <1>4, <1>t DEF VectorDelete, Local
    <2>2. \A i \in Ids : Embeds(s, i) /\ i \notin loc'[s].wipe => vectors'[i] = <<>>
      BY <1>t, <2>1 DEF AloneOf
    <2> QED BY <2>1, <2>2, SameListing DEF AloneOf, Importing
  <1>5. CASE VectorAdd(s)
    <2>1. /\ pc[s] = "vector" /\ loc[s].wipe = {} /\ Return(s)
          /\ remote' = remote /\ cache' = cache
      BY <1>5 DEF VectorAdd
    <2>2. ASSUME NEW i \in Ids, Embeds(s, i) PROVE vectors'[i] = <<ChunkOf(s, i)>>
      <3>1. i \in DOMAIN Chunks(s) /\ Chunks(s)[i] = ChunkOf(s, i) BY <2>2, ChunksAre
      <3>2. vectors'[i] = Append(vectors[i], ChunkOf(s, i)) BY <1>5, <3>1 DEF VectorAdd
      <3>3. vectors[i] = <<>> BY <2>1, <2>2 DEF AloneOf
      <3> QED BY <3>2, <3>3
    <2>3. Listed(s) \subseteq Upserted(s) BY <2>1 DEF AloneOf, Importing
    <2> QED BY <2>1, <2>2, <2>3, AloneReturns
  <1>6. CASE Diff(s)
    <2>1. /\ pc[s] = "diff" /\ pc'[s] = "drop" /\ remote' = remote /\ cache' = cache
          /\ vectors' = vectors
          /\ loc'[s].snap = loc[s].snap /\ loc'[s].done = loc[s].done
          /\ loc'[s].drop = Visible \ Upserted(s)
      BY <1>0, <1>6, <1>t DEF Diff, Goto, Local, stores
    <2>2. Visible' = Visible BY <2>1 DEF Visible
    <2> QED BY <2>1, <2>2, SameListing DEF AloneOf, Importing
  <1>7. ASSUME NEW j \in Ids, DropRecord(s, j)
        PROVE  AloneOf(s)' /\ pc'[s] # "idle"
    <2>1. /\ pc[s] = "drop" /\ pc'[s] = "drop_vector" /\ remote' = remote
          /\ cache' = [cache EXCEPT ![j] = None] /\ vectors' = vectors /\ j \in loc[s].drop
          /\ loc'[s].snap = loc[s].snap /\ loc'[s].done = loc[s].done
          /\ loc'[s].drop = loc[s].drop \ {j} /\ loc'[s].id = j
      BY <1>0, <1>7, <1>t DEF DropRecord, Goto, Local
    <2>2. j \notin Upserted(s) BY <2>1 DEF AloneOf
    <2>3. Visible' \subseteq Visible \ {j} BY <1>t, <2>1 DEF Visible
    <2>4. /\ Upserted(s)' = Upserted(s) /\ Listed(s)' = Listed(s)
          /\ \A i : (Embeds(s, i)' <=> Embeds(s, i)) /\ ChunkOf(s, i)' = ChunkOf(s, i)
      BY <2>1, SameListing
    <2>5. AsListed(s)'
      <3>1. \A i \in Upserted(s) : i \in Ids BY <1>t DEF Upserted, Ids
      <3> QED BY <1>t, <2>1, <2>2, <2>4, <3>1 DEF AsListed, AloneOf
    <2>6. Visible' \subseteq Upserted(s) \cup (loc[s].drop \ {j}) BY <2>1, <2>3 DEF AloneOf
    <2> QED BY <2>1, <2>2, <2>4, <2>5, <2>6 DEF AloneOf, Importing
  <1>8. CASE DropVector(s)
    <2>1. /\ pc[s] = "drop_vector" /\ pc'[s] = "drop" /\ remote' = remote /\ cache' = cache
          /\ loc' = loc /\ loc[s].id \notin Upserted(s)
          /\ vectors' = vectors \/ vectors' = [vectors EXCEPT ![loc[s].id] = <<>>]
      BY <1>0, <1>8, <1>t DEF DropVector, Goto, AloneOf
    <2>2. Visible' = Visible BY <2>1 DEF Visible
    <2>3. \A i \in Ids : Embeds(s, i) => vectors'[i] = vectors[i] BY <1>t, <2>1 DEF Embeds
    <2> QED BY <2>1, <2>2, <2>3, SameListing DEF AloneOf, Importing
  <1>9. CASE SyncEnd(s)
    <2>1. /\ pc[s] = "drop" /\ loc[s].drop = {} /\ pc'[s] = "idle"
          /\ remote' = remote /\ cache' = cache /\ vectors' = vectors
      BY <1>0, <1>9, <1>t DEF SyncEnd, Finish, stores
    <2>2. RowsMirrored' BY <2>1, AllMirrored DEF AloneOf, Importing
    <2>3. NothingElse'
      <3>1. Visible' \subseteq Upserted(s) BY <2>1 DEF AloneOf, Visible
      <3>2. \A i \in Upserted(s) : i \in FeishuIds /\ remote[i] # None
        BY <1>t DEF Upserted, LocalOK, AloneOf
      <3> QED BY <2>1, <3>1, <3>2 DEF NothingElse
    <2> QED BY <2>1, <2>2, <2>3
  <1> QED BY <1>1, <1>2, <1>3, <1>4, <1>5, <1>6, <1>7, <1>8, <1>9 DEF Proceeds

\* What others do leaves it as it is when they write to no store.
LEMMA AloneWaits ==
    ASSUME NEW s \in Syncs, AloneOf(s), Waits(s)
    PROVE  AloneOf(s)'
  <1>1. /\ pc'[s] = pc[s] /\ loc'[s] = loc[s]
        /\ remote' = remote /\ cache' = cache /\ vectors' = vectors
    BY DEF Waits
  <1>2. Visible' = Visible BY <1>1 DEF Visible
  <1> QED BY <1>1, <1>2, SameListing DEF AloneOf

\* A sync that nobody disturbs and nothing fails mirrors every row, and after
\* full and rebuild the cache shows nothing else, as long as Feishu has no
\* blank row: for any number of rows, processes and other tasks, and whatever
\* crashes, failures and overlapping syncs had left in the cache and the vectors.
THEOREM SyncMirrorsTheorem ==
    SpecH /\ []NoBlankRow => SyncMirrors
  <1> DEFINE Inv == TypeInv /\ EmbInv /\ AloneOK
             Mirrored == \A s \in alone : Ends(s) =>
                            RowsMirrored' /\ (loc[s].mode # "incremental" => NothingElse')
  <1>1. InitH => Inv
    <2>1. InitH => EmbInv /\ AloneOK
      BY DEF InitH, Init, StoresInit, NoLocal, EmbInv, BatchOK, BatchOf,
         EmbeddingMatchesText, Tasks, AloneOK
    <2> QED BY <2>1, TypeInit DEF InitH
  <1>2. Inv /\ NoBlankRow /\ [NextH]_varsH => Inv' /\ [Mirrored]_varsH
    <2> SUFFICES ASSUME Inv, NoBlankRow, [NextH]_varsH PROVE Inv' /\ [Mirrored]_varsH
      OBVIOUS
    <2>1. [Next]_vars BY DEF NextH, varsH
    <2>2. TypeInv' /\ EmbInv' BY <2>1, TypeStep, EmbStep
    <2>3. CASE NextH
      <3>1. ASSUME NEW s \in alone' PROVE s \in Syncs /\ AloneOf(s)'
        <4>1. s \in Syncs /\ (ListRecords(s) \/ GoesOn(s)) BY <2>3, <3>1 DEF NextH
        <4>2. CASE ListRecords(s) BY <4>1, <4>2, AloneBegins
        <4>3. CASE GoesOn(s)
          <5>1. AloneOf(s) /\ BatchOf(s)
            BY <4>3 DEF GoesOn, AloneOK, EmbInv, BatchOK
          <5>2. CASE Proceeds(s) BY <4>1, <4>3, <5>1, <5>2, AloneStep DEF GoesOn
          <5>3. CASE Waits(s) BY <4>1, <5>1, <5>3, AloneWaits
          <5> QED BY <4>3, <5>2, <5>3 DEF GoesOn
        <4> QED BY <4>1, <4>2, <4>3
      <3>2. ASSUME NEW s \in alone, Ends(s)
            PROVE  RowsMirrored' /\ (loc[s].mode # "incremental" => NothingElse')
        <4>1. s \in Syncs BY DEF AloneOK
        <4>2. AloneOf(s) /\ BatchOf(s) BY DEF AloneOK, EmbInv, BatchOK
        <4> QED BY <3>2, <4>1, <4>2, AloneStep DEF Ends
      <3> QED BY <2>2, <3>1, <3>2 DEF AloneOK
    <2>4. CASE UNCHANGED varsH
      <3>1. alone' = alone /\ \A s \in Syncs : Waits(s) BY <2>4 DEF varsH, vars, Waits
      <3> QED BY <2>2, <2>4, <3>1, AloneWaits DEF AloneOK
    <2> QED BY <2>3, <2>4
  <1>3. [Mirrored]_varsH <=>
          [\A s \in alone : Ends(s) =>
              RowsMirrored' /\ (loc[s].mode # "incremental" => NothingElse')]_varsH
    OBVIOUS
  <1> HIDE DEF Mirrored, Inv
  <1> QED BY <1>1, <1>2, <1>3, PTL DEF SpecH, SyncMirrors
=============================================================================
