-------------------------- MODULE LocalCacheHistory --------------------------
(* LocalCache with a history variable: whether another process has touched   *)
(* the record of a writer's call since the call began.  upsert and           *)
(* update_metadata are several transactions, so two of them on one record    *)
(* may mix their tags; alone they must repair whatever a crash left.         *)
EXTENDS LocalCache

VARIABLE disturbed    \* [Writers -> BOOLEAN]

varsH == <<vars, disturbed>>

\* What the tables have of record i.
TagsIn(table, i) == {t \in Tags : <<i, t>> \in table}
Touched(i) == rows'[i] # rows[i] \/ TagsIn(tagged', i) # TagsIn(tagged, i)

InitH == Init /\ disturbed = [w \in Writers |-> FALSE]

NextH == \E w \in Writers :
    /\ Begin(w) \/ Upsert(w) \/ Remove(w) \/ Crash(w)
    /\ disturbed' = [v \in Writers |->
          IF v = w THEN pc'[w] # "idle" /\ disturbed[w]
          ELSE pc[v] # "idle" /\ (disturbed[v] \/ Touched(loc[v].id))]

SpecH == InitH /\ [][NextH]_varsH

-----------------------------------------------------------------------------
\* A completed upsert or update_metadata whose record no other process touched
\* meanwhile leaves exactly the tags that the record lists, whatever crashed
\* calls had left in record_tags.
UpsertRepairs ==
    [][\A w \in Writers : UpsertDone(w) /\ ~disturbed[w] =>
          TagsOf(loc[w].id) = rows[loc[w].id].tags]_varsH

\* Until its record is touched, a writer finds it as it wrote it, and
\* record_tags has the tags it has written so far.
OwnTags(w) ==
    pc[w] \in {"untag", "tag"} /\ ~disturbed[w] =>
        /\ rows[loc[w].id] # None
        /\ rows[loc[w].id].tags = loc[w].rec.tags
        /\ pc[w] = "tag" => /\ loc[w].todo \subseteq loc[w].rec.tags
                            /\ TagsOf(loc[w].id) = loc[w].rec.tags \ loc[w].todo
OwnTagsOK == \A w \in Writers : OwnTags(w)
=============================================================================
