---------------------------- MODULE UploadsProofs ----------------------------
(* What a call of file_upload reports and what it leaves in Drive agree, for   *)
(* any number of paths, files and copies.                                      *)
EXTENDS Uploads, SequenceTheorems, TLAPS

-----------------------------------------------------------------------------
(* What becomes of the ends of a lark-cli process. *)

Reported == {Failed("no_file_token_returned"), Failed("exception")}

\* Whatever does not name a token is reported as a failed upload.
LEMMA VagueIsReported ==
    ASSUME NEW end \in VagueEnds \cup RefusedEnds \cup {NoExit}
    PROVE  EntryOf(LarkRun(end)) \in Reported
  <1>1. TokenIn(Text) = None /\ TokenIn([ok |-> TRUE]) = None
    BY DEF TokenIn, FieldOr, HasField, Text
  <1>2. CASE end = NoExit
    BY <1>1, <1>2 DEF NoExit, LarkRun, Raises, EntryOf, Reported
  <1>3. CASE end \in RefusedEnds
    BY <1>1, <1>3 DEF RefusedEnds, Exit, LarkRun, RefusedBy, HasField, Raises, EntryOf, Reported
  <1>4. CASE end \in VagueEnds
    <2>1. CASE end.code # 0
      BY <1>1, <1>4, <2>1 DEF VagueEnds, Exit, LarkRun, Raises, EntryOf, Reported
    <2>2. CASE end = Exit(0, Text, "other")
      BY <1>1, <2>2 DEF Exit, LarkRun, RefusedBy, Promoted, HasField, Text, Answer, EntryOf, Reported
    <2>3. CASE end = Exit(0, [ok |-> TRUE], "other")
      BY <1>1, <2>3 DEF Exit, LarkRun, RefusedBy, Promoted, HasField, Answer, EntryOf, Reported
    <2> QED BY <1>4, <2>1, <2>2, <2>3 DEF VagueEnds, Exit
  <1> QED BY <1>2, <1>3, <1>4

\* Each form of an answer with a token gives that token.
LEMMA TokenIsFound ==
    ASSUME NEW t \in Tokens, NEW end \in TokenEnds(t)
    PROVE  EntryOf(LarkRun(end)) = [path |-> Path, status |-> "ok", token |-> t]
  <1>0. t # None BY UploadAssumption
  <1>1. CASE end = Exit(0, [file_token |-> t], "other")
    BY <1>0, <1>1 DEF Exit, LarkRun, RefusedBy, Promoted, HasField, Answer, EntryOf, TokenIn
  <1>2. CASE end = Exit(0, [token |-> t], "other")
    BY <1>0, <1>2 DEF Exit, LarkRun, RefusedBy, Promoted, HasField, Answer, EntryOf, TokenIn
  <1>3. CASE end = Exit(0, [ok |-> TRUE, data |-> [file_token |-> t]], "other")
    BY <1>0, <1>3 DEF Exit, LarkRun, RefusedBy, Promoted, HasField, FieldOr, Answer, EntryOf, TokenIn
  <1>4. CASE end = Exit(0, [code |-> 0, data |-> [file_token |-> t]], "other")
    BY <1>0, <1>4 DEF Exit, LarkRun, RefusedBy, Promoted, HasField, FieldOr, Answer, EntryOf, TokenIn
  <1>5. CASE end = Exit(0, [code |-> 0, msg |-> "ok", file_token |-> t], "other")
    BY <1>0, <1>5 DEF Exit, LarkRun, RefusedBy, Promoted, HasField, FieldOr, Answer, EntryOf, TokenIn, Restrict
  <1> QED BY <1>1, <1>2, <1>3, <1>4, <1>5 DEF TokenEnds

-----------------------------------------------------------------------------
(* The calls. *)

UploadInv == /\ TypeOK /\ OneResultEach /\ TokenNamesFile /\ CopiesAccounted
             /\ Underway /\ Answered /\ LateReported

\* A batch is a sequence of at most MaxBatch paths.
LEMMA BatchProperties ==
    ASSUME NEW paths \in Batches
    PROVE  /\ paths \in Seq(Paths) /\ Len(paths) \in Nat /\ Len(paths) <= MaxBatch
           /\ DOMAIN paths = 1..Len(paths)
  <1>1. PICK m \in 0..MaxBatch : paths \in [1..m -> Paths]
    BY UploadAssumption DEF Batches, BoundedSeq, SeqOf
  <1>2. paths \in Seq(Paths) BY <1>1, UploadAssumption, IsASeq
  <1>3. Len(paths) = m BY <1>1, <1>2, UploadAssumption
  <1> QED BY <1>1, <1>2, <1>3, UploadAssumption

\* Where a call stands, and what an appended entry changes.
LEMMA Standing ==
    ASSUME UploadInv, pc # "idle"
    PROVE  /\ batch \in Seq(Paths) /\ results \in Seq(Entry)
           /\ Len(results) \in Nat /\ Len(batch) \in Nat
           /\ Position \in DOMAIN batch /\ Path \in Paths /\ Path = batch[Position]
           /\ Position = Len(results) + 1 /\ Position \in 1..MaxBatch
  <1>1. batch \in Batches /\ results \in Seq(Entry) /\ Len(results) \in Nat
    BY DEF UploadInv, TypeOK
  <1>2. Len(results) < Len(batch) BY DEF UploadInv, Underway
  <1>3. /\ batch \in Seq(Paths) /\ Len(batch) \in Nat /\ Len(batch) <= MaxBatch
        /\ DOMAIN batch = 1..Len(batch)
    BY <1>1, BatchProperties
  <1>4. Position = Len(results) + 1 BY DEF Position
  <1>5. Position \in 1..Len(batch) /\ Position \in 1..MaxBatch
    BY <1>1, <1>2, <1>3, <1>4, UploadAssumption
  <1> QED BY <1>1, <1>3, <1>4, <1>5 DEF Path

LEMMA AppendGives ==
    ASSUME UploadInv, pc # "idle", NEW entry \in Entry, AppendEntry(entry), batch' = batch
    PROVE  /\ results' \in Seq(Entry) /\ Len(results') = Position
           /\ DOMAIN results' = DOMAIN results \cup {Position}
           /\ Position \notin DOMAIN results
           /\ results'[Position] = entry
           /\ \A k \in DOMAIN results : results'[k] = results[k]
           /\ pc' \in {"idle", "check"}
           /\ pc' = "idle" => Len(results') = Len(batch)
           /\ pc' # "idle" => Len(results') < Len(batch)
  <1>1. /\ results \in Seq(Entry) /\ Len(results) \in Nat /\ Len(batch) \in Nat
        /\ Position = Len(results) + 1 /\ DOMAIN results = 1..Len(results)
        /\ Len(results) < Len(batch)
    BY Standing DEF UploadInv, Underway
  <1>2. /\ results' \in Seq(Entry) /\ Len(results') = Len(results) + 1
        /\ \A k \in 1..Len(results) : results'[k] = results[k]
        /\ results'[Len(results) + 1] = entry
    BY <1>1, AppendProperties DEF AppendEntry
  <1>3. DOMAIN results' = 1..Len(results') BY <1>2
  <1>4. pc' = IF Position = Len(batch) THEN "idle" ELSE "check" BY DEF AppendEntry
  <1> QED BY <1>1, <1>2, <1>3, <1>4

\* A step that appends an entry keeps what a call says of its paths, if the
\* entry is of the path and, when it names a token, of a copy made for it.
LEMMA EntryKeeps ==
    ASSUME UploadInv, pc # "idle", NEW entry \in Entry, AppendEntry(entry),
           entry.path = Path, UNCHANGED <<files, had, batch>>, drive \subseteq drive',
           entry.status = "ok" =>
              \E c \in drive' : /\ c.token = entry.token /\ c.at = Position /\ c.path = Path
                               /\ c.content \in had[Path]
    PROVE  OneResultEach' /\ TokenNamesFile' /\ Underway'
  <1>1. /\ Len(results') = Position
        /\ DOMAIN results' = DOMAIN results \cup {Position}
        /\ results'[Position] = entry
        /\ \A k \in DOMAIN results : results'[k] = results[k]
        /\ pc' = "idle" => Len(results') = Len(batch)
        /\ pc' # "idle" => Len(results') < Len(batch)
    BY AppendGives
  <1>2. Path = batch[Position] BY DEF Path
  <1>3. OneResultEach' BY <1>1, <1>2 DEF OneResultEach, UploadInv
  <1>4. TokenNamesFile'
    <2>1. ASSUME NEW k \in DOMAIN results', results'[k].status = "ok"
          PROVE  \E c \in drive' : /\ c.token = results'[k].token
                                   /\ c.at = k /\ c.path = batch[k]
                                   /\ c.content \in had[batch[k]]
      <3>1. CASE k = Position BY <1>1, <1>2, <2>1, <3>1
      <3>2. CASE k \in DOMAIN results BY <1>1, <2>1, <3>2 DEF UploadInv, TokenNamesFile
      <3> QED BY <1>1, <2>1, <3>1, <3>2
    <2> QED BY <2>1 DEF TokenNamesFile
  <1>5. Underway' BY <1>1 DEF Underway, UploadInv
  <1> QED BY <1>3, <1>4, <1>5

\* A step that appends an entry and stores nothing keeps what is said of copies,
\* if the entry is an error and what it leaves underway is reported as failed.
LEMMA EntryAccounts ==
    ASSUME UploadInv, pc # "idle", NEW entry \in Entry, AppendEntry(entry),
           UNCHANGED <<files, had, batch, drive>>, late' \in {late, late \cup {Sent}},
           late' = late \/ (entry \in Reported /\ files[Path] # None)
    PROVE  CopiesAccounted' /\ Answered' /\ LateReported'
  <1>0. /\ Position = Len(results) + 1 /\ Len(results) \in Nat /\ Sent.at = Position
        /\ drive \in SUBSET Copy /\ late \in SUBSET Unsent
        /\ \A c \in drive \cup late : c.at \in Nat /\ c.at <= Len(results) /\ c.at # Position
    <2>1. Position = Len(results) + 1 /\ Len(results) \in Nat /\ Sent.at = Position
      BY Standing DEF Sent
    <2>2. drive \in SUBSET Copy /\ late \in SUBSET Unsent BY DEF UploadInv, TypeOK
    <2>3. \A c \in drive \cup late : c.at \in Nat /\ c.at <= Len(results)
      BY <2>2 DEF UploadInv, Answered, Copy, Unsent
    <2> QED BY <2>1, <2>2, <2>3
  <1>1. /\ Len(results') = Position
        /\ DOMAIN results' = DOMAIN results \cup {Position}
        /\ Position \notin DOMAIN results
        /\ results'[Position] = entry
        /\ \A k \in DOMAIN results : results'[k] = results[k]
    BY AppendGives
  <1>2. CopiesAccounted' BY <1>0, <1>1 DEF CopiesAccounted, UploadInv
  <1>3. Answered' BY <1>0, <1>1 DEF Answered
  <1>4. LateReported'
    <2>1. ASSUME NEW sent \in late, sent.at \in DOMAIN results'
          PROVE  /\ results'[sent.at].status = "error"
                 /\ results'[sent.at].error \in {"no_file_token_returned", "exception"}
                 /\ \A c \in drive : c.at # sent.at
                 /\ \A other \in late' : other.at = sent.at => other = sent
      <3>1. sent.at \in DOMAIN results BY <1>0, <1>1, <2>1
      <3> QED BY <1>0, <1>1, <2>1, <3>1 DEF UploadInv, LateReported
    <2>2. ASSUME late' # late
          PROVE  /\ entry.status = "error"
                 /\ entry.error \in {"no_file_token_returned", "exception"}
                 /\ \A c \in drive : c.at # Position
                 /\ \A other \in late' : other.at = Position => other = Sent
      BY <1>0, <2>2 DEF Reported, Failed
    <2> QED BY <1>0, <1>1, <2>1, <2>2 DEF LateReported
  <1> QED BY <1>2, <1>3, <1>4

\* The entries are entries.
LEMMA EntryTypes ==
    ASSUME UploadInv, pc # "idle"
    PROVE  /\ Reported \subseteq Entry
           /\ \A e \in Reported : e.path = Path /\ e.status = "error"
           /\ \A t \in Tokens : [path |-> Path, status |-> "ok", token |-> t] \in Entry
           /\ \A error \in Errors : Failed(error) \in Entry
  <1>1. Path \in Paths BY Standing
  <1>2. \A error \in Errors : Failed(error) \in Entry BY <1>1 DEF Failed, Entry
  <1>3. Reported \subseteq Entry BY <1>2 DEF Reported, Errors
  <1>4. \A e \in Reported : e.path = Path /\ e.status = "error" BY DEF Reported, Failed
  <1>5. \A t \in Tokens : [path |-> Path, status |-> "ok", token |-> t] \in Entry
    BY <1>1 DEF Entry
  <1> QED BY <1>2, <1>3, <1>4, <1>5

LEMMA ChangeKeeps ==
    ASSUME UploadInv, NEW p \in Paths, NEW content \in Contents \cup {None}, Change(p, content)
    PROVE  UploadInv'
  <1>0. /\ files \in [Paths -> Contents \cup {None}] /\ had \in [Paths -> SUBSET Contents]
        /\ UNCHANGED <<drive, late, batch, results, pc>>
    BY DEF UploadInv, TypeOK, Change
  <1>1. TypeOK' BY <1>0 DEF UploadInv, TypeOK, Change
  <1>2. \A q \in Paths : had[q] \subseteq had'[q] BY <1>0 DEF Change
  <1>3. TokenNamesFile'
    <2>1. ASSUME NEW k \in DOMAIN results, results[k].status = "ok"
          PROVE  \E c \in drive : /\ c.token = results[k].token
                                  /\ c.at = k /\ c.path = batch[k]
                                  /\ c.content \in had'[batch[k]]
      <3>1. PICK c \in drive : /\ c.token = results[k].token
                               /\ c.at = k /\ c.path = batch[k]
                               /\ c.content \in had[batch[k]]
        BY <2>1 DEF UploadInv, TokenNamesFile
      <3>2. c.path \in Paths BY DEF UploadInv, TypeOK, Copy
      <3> QED BY <1>2, <3>1, <3>2
    <2> QED BY <1>0, <2>1 DEF TokenNamesFile
  <1>4. Underway'
    <2>1. ASSUME pc # "idle", NEW q \in Paths, files'[q] # None PROVE files'[q] \in had'[q]
      BY <1>0, <2>1 DEF Change, UploadInv, Underway
    <2> QED BY <1>0, <2>1 DEF UploadInv, Underway
  <1>5. OneResultEach' /\ CopiesAccounted' /\ Answered' /\ LateReported'
    BY <1>0 DEF UploadInv, OneResultEach, CopiesAccounted, Answered, LateReported
  <1> QED BY <1>1, <1>3, <1>4, <1>5 DEF UploadInv

LEMMA StartKeeps ==
    ASSUME UploadInv, NEW paths \in Batches, UploadStart(paths)
    PROVE  UploadInv'
  <1>0. /\ results' = <<>> /\ DOMAIN results' = {} /\ Len(results') = 0
        /\ batch' = paths /\ pc' = "check" /\ files' = files
        /\ had' = [p \in Paths |-> {files[p]} \ {None}]
        /\ drive' = {Earlier(c) : c \in drive} /\ late' = {Earlier(c) : c \in late}
        /\ results' \in Seq(Entry)
    BY EmptySeq DEF UploadStart
  <1>1. Len(paths) \in Nat /\ Len(paths) > 0
    BY BatchProperties, EmptySeq DEF UploadStart
  <1>2. /\ files \in [Paths -> Contents \cup {None}]
        /\ drive \in SUBSET Copy /\ late \in SUBSET Unsent
    BY DEF UploadInv, TypeOK
  <1>3. /\ \A c \in Copy : Earlier(c) \in Copy /\ Earlier(c).at = 0
        /\ \A c \in Unsent : Earlier(c) \in Unsent /\ Earlier(c).at = 0
    BY UploadAssumption DEF Copy, Unsent, Earlier
  <1>4. /\ drive' \in SUBSET Copy /\ late' \in SUBSET Unsent
        /\ \A c \in drive' \cup late' : c.at = 0
    BY <1>0, <1>2, <1>3
  <1>5. had' \in [Paths -> SUBSET Contents] BY <1>0, <1>2
  <1>6. TypeOK' BY <1>0, <1>2, <1>4, <1>5 DEF TypeOK
  <1>7. OneResultEach' /\ TokenNamesFile' /\ CopiesAccounted' /\ LateReported'
    BY <1>0 DEF OneResultEach, TokenNamesFile, CopiesAccounted, LateReported
  <1>8. Answered' BY <1>0, <1>4 DEF Answered
  <1>9. Underway' BY <1>0, <1>1, <1>2 DEF Underway
  <1> QED BY <1>6, <1>7, <1>8, <1>9 DEF UploadInv

\* A path without a file, and an upload that stores nothing.
LEMMA UnsentKeeps ==
    ASSUME UploadInv, Missing \/ UploadFails \/ UploadTimesOut
    PROVE  UploadInv'
  <1>0. pc # "idle" /\ UNCHANGED <<files, had, drive, batch>>
    BY DEF Missing, UploadFails, UploadTimesOut
  <1>1. PICK entry \in Entry :
           /\ AppendEntry(entry) /\ entry.path = Path /\ entry.status = "error"
           /\ late' \in {late, late \cup {Sent}}
           /\ late' = late \/ (entry \in Reported /\ files[Path] # None)
    <2>1. CASE Missing
      <3>1. Failed(IF Path = EmptyPath THEN "empty_path" ELSE "file_not_found") \in Entry
        BY <1>0, EntryTypes DEF Errors
      <3> QED BY <2>1, <3>1 DEF Missing, Failed
    <2>2. CASE UploadFails
      <3>1. PICK end \in VagueEnds \cup RefusedEnds \cup {NoExit} : Return(end)
        BY <2>2 DEF UploadFails
      <3>2. EntryOf(LarkRun(end)) \in Reported BY VagueIsReported
      <3> QED BY <1>0, <2>2, <3>1, <3>2, EntryTypes DEF UploadFails, Return
    <2>3. CASE UploadTimesOut
      <3>1. EntryOf(LarkRun(NoExit)) \in Reported BY VagueIsReported
      <3> QED BY <1>0, <2>3, <3>1, EntryTypes DEF UploadTimesOut, Return
    <2> QED BY <2>1, <2>2, <2>3
  <1>2. OneResultEach' /\ TokenNamesFile' /\ Underway' BY <1>0, <1>1, EntryKeeps
  <1>3. CopiesAccounted' /\ Answered' /\ LateReported' BY <1>0, <1>1, EntryAccounts
  <1>4. TypeOK'
    <2>1. Sent \in Unsent \/ files[Path] = None
      BY <1>0, Standing DEF Sent, Unsent, UploadInv, TypeOK
    <2>2. late' \in SUBSET Unsent BY <1>1, <2>1 DEF UploadInv, TypeOK
    <2> QED BY <1>0, <1>1, <2>2, AppendGives DEF UploadInv, TypeOK
  <1> QED BY <1>2, <1>3, <1>4 DEF UploadInv

\* An upload: its copy is named by the result, or reported as failed.
LEMMA UploadKeeps ==
    ASSUME UploadInv, NEW t \in Tokens, Upload(t)
    PROVE  UploadInv'
  <1> DEFINE copy == Stored(Sent, t)
  <1>0. /\ pc # "idle" /\ files[Path] # None /\ UNCHANGED <<files, had, late, batch>>
        /\ drive' = drive \cup {copy} /\ pc = "call"
    BY DEF Upload
  <1>1. PICK entry \in Entry :
           /\ AppendEntry(entry) /\ entry.path = Path
           /\ \/ entry \in Reported
              \/ entry.status = "ok" /\ entry.token = t
    <2>1. PICK end \in TokenEnds(t) \cup VagueEnds : Return(end) BY DEF Upload
    <2>2. CASE end \in VagueEnds
      <3>1. EntryOf(LarkRun(end)) \in Reported BY <2>2, VagueIsReported
      <3> QED BY <1>0, <2>1, <3>1, EntryTypes DEF Return
    <2>3. CASE end \in TokenEnds(t)
      <3>1. EntryOf(LarkRun(end)) = [path |-> Path, status |-> "ok", token |-> t]
        BY <2>3, TokenIsFound
      <3> QED BY <1>0, <2>1, <3>1, EntryTypes DEF Return
    <2> QED BY <2>1, <2>2, <2>3
  <1>2. /\ Position = Len(results) + 1 /\ Len(results) \in Nat /\ Path \in Paths
        /\ Position \in 1..MaxBatch /\ Position \notin DOMAIN results
    BY <1>0, <1>1, Standing, AppendGives
  <1>3. /\ copy.token = t /\ copy.at = Position /\ copy.path = Path
        /\ copy.content = files[Path] /\ copy \in Copy
    <2>1. files[Path] \in Contents BY <1>0, <1>2 DEF UploadInv, TypeOK
    <2> QED BY <1>2, <2>1, UploadAssumption DEF Stored, Sent, Copy
  <1> HIDE DEF copy
  <1>4. copy.content \in had[Path] BY <1>0, <1>2, <1>3 DEF UploadInv, Underway
  <1>5. OneResultEach' /\ TokenNamesFile' /\ Underway'
    <2>1. entry.status = "ok" => entry.token = t BY <1>0, <1>1, EntryTypes
    <2> QED BY <1>0, <1>1, <1>3, <1>4, <2>1, EntryKeeps
  <1>6. /\ Len(results') = Position
        /\ DOMAIN results' = DOMAIN results \cup {Position}
        /\ results'[Position] = entry
        /\ \A k \in DOMAIN results : results'[k] = results[k]
    BY <1>0, <1>1, AppendGives
  <1>7. \A c \in drive \cup late : c.at \in Nat /\ c.at <= Len(results) /\ c.at # Position
    <2>1. \A c \in drive \cup late : c.at \in Nat BY UploadAssumption DEF UploadInv, TypeOK, Copy, Unsent
    <2> QED BY <1>2, <2>1 DEF UploadInv, Answered
  <1>8. CopiesAccounted'
    <2>1. ASSUME NEW c \in drive, c.at \in DOMAIN results'
          PROVE  /\ IF results'[c.at].status = "ok" THEN results'[c.at].token = c.token
                    ELSE results'[c.at].error \in {"no_file_token_returned", "exception"}
                 /\ \A d \in drive' : d.at = c.at => d = c
      <3>1. c.at \in DOMAIN results BY <1>6, <1>7, <2>1
      <3> QED BY <1>0, <1>3, <1>6, <1>7, <3>1 DEF UploadInv, CopiesAccounted
    <2>2. /\ IF entry.status = "ok" THEN entry.token = t
             ELSE entry.error \in {"no_file_token_returned", "exception"}
          /\ \A d \in drive' : d.at = Position => d = copy
      BY <1>0, <1>1, <1>7 DEF Reported, Failed
    <2> QED BY <1>0, <1>3, <1>6, <2>1, <2>2 DEF CopiesAccounted
  <1>9. Answered' BY <1>0, <1>2, <1>3, <1>6, <1>7 DEF Answered
  <1>10. LateReported'
    <2>1. ASSUME NEW sent \in late, sent.at \in DOMAIN results'
          PROVE  sent.at \in DOMAIN results /\ sent.at # Position
      BY <1>6, <1>7, <2>1
    <2> QED BY <1>0, <1>3, <1>6, <2>1 DEF UploadInv, LateReported
  <1>11. TypeOK' BY <1>0, <1>1, <1>3, AppendGives DEF UploadInv, TypeOK
  <1> QED BY <1>5, <1>8, <1>9, <1>10, <1>11 DEF UploadInv

LEMMA LandKeeps ==
    ASSUME UploadInv, NEW sent \in late, NEW t \in Tokens, Land(sent, t)
    PROVE  UploadInv'
  <1> DEFINE copy == Stored(sent, t)
  <1>0. /\ UNCHANGED <<files, had, batch, results, pc>>
        /\ drive' = drive \cup {copy} /\ late' = late \ {sent}
    BY DEF Land
  <1>1. copy.at = sent.at /\ copy \in Copy
    BY DEF Stored, Copy, Unsent, UploadInv, TypeOK
  <1> HIDE DEF copy
  <1>2. TypeOK' BY <1>0, <1>1 DEF UploadInv, TypeOK
  <1>3. OneResultEach' /\ Underway' /\ TokenNamesFile'
    BY <1>0 DEF UploadInv, OneResultEach, Underway, TokenNamesFile
  <1>4. Answered' BY <1>0, <1>1 DEF UploadInv, Answered
  <1>5. LateReported' BY <1>0, <1>1 DEF UploadInv, LateReported
  <1>6. CopiesAccounted' BY <1>0, <1>1 DEF UploadInv, CopiesAccounted, LateReported
  <1> QED BY <1>2, <1>3, <1>4, <1>5, <1>6 DEF UploadInv

LEMMA UploadInit == ASSUME Init PROVE UploadInv
  <1>1. DOMAIN results = {} /\ Len(results) = 0 /\ Len(batch) = 0 /\ results \in Seq(Entry)
    BY EmptySeq DEF Init
  <1>2. batch \in Batches
    <2>1. <<>> \in [1..0 -> Paths] OBVIOUS
    <2> QED BY <2>1, UploadAssumption DEF Init, Batches, BoundedSeq, SeqOf
  <1> QED BY <1>1, <1>2 DEF Init, UploadInv, TypeOK, OneResultEach, TokenNamesFile,
        CopiesAccounted, Underway, Answered, LateReported

LEMMA UploadStepKeeps == ASSUME UploadInv, [Next]_vars PROVE UploadInv'
  <1>1. CASE Found
    BY <1>1 DEF Found, UploadInv, TypeOK, OneResultEach, TokenNamesFile, CopiesAccounted,
          Underway, Answered, LateReported
  <1>2. CASE UNCHANGED vars
    BY <1>2 DEF vars, UploadInv, TypeOK, OneResultEach, TokenNamesFile, CopiesAccounted,
          Underway, Answered, LateReported
  <1> QED BY <1>1, <1>2, ChangeKeeps, StartKeeps, UnsentKeeps, UploadKeeps, LandKeeps
        DEF Next, UploadStep

\* A call answers for each of its paths, in their order, whatever fails.
THEOREM OneResultEachTheorem == Spec => []OneResultEach
  <1>1. UploadInv => OneResultEach BY DEF UploadInv
  <1> QED BY <1>1, UploadInit, UploadStepKeeps, PTL DEF Spec

\* The token of a result is that of a copy of the file it is reported for.
THEOREM TokenNamesFileTheorem == Spec => []TokenNamesFile
  <1>1. UploadInv => TokenNamesFile BY DEF UploadInv
  <1> QED BY <1>1, UploadInit, UploadStepKeeps, PTL DEF Spec

\* A copy that a call leaves in Drive is named by its result or reported as a
\* failed upload, and no path leaves two.
THEOREM CopiesAccountedTheorem == Spec => []CopiesAccounted
  <1>1. UploadInv => CopiesAccounted BY DEF UploadInv
  <1> QED BY <1>1, UploadInit, UploadStepKeeps, PTL DEF Spec
=============================================================================
