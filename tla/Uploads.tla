------------------------------- MODULE Uploads -------------------------------
(* The tool file_upload: UploadService.upload walks the paths of a call and    *)
(* DriveClient uploads one file after the other, while the files change and    *)
(* answers of Feishu get lost.  An agent calls again with what it likes.       *)
EXTENDS LarkCli, Sequences, FiniteSets, SequencesExt

CONSTANTS
    Paths,
    EmptyPath,    \* "" or null, among the paths
    Contents,
    None,         \* no file, no token
    Tokens,       \* file tokens of Feishu Drive, each handed out once
    MaxBatch      \* bound on the paths of a call

ASSUME UploadAssumption ==
    /\ EmptyPath \in Paths
    /\ None \notin Contents \cup Tokens
    /\ MaxBatch \in Nat

VARIABLES
    files,     \* [Paths -> content or None], the local files
    had,       \* the contents a file had since the call began (history)
    drive,     \* the copies in Feishu Drive
    late,      \* uploads nobody waits for, which Feishu may yet finish
    batch,     \* `file_paths` of the call
    results,   \* `results` of the call
    pc         \* "idle", "check" or "call"

vars == <<files, had, drive, late, batch, results, pc>>

\* A copy knows its file, and its place in the current call (0: an earlier one).
Copy == [token : Tokens, path : Paths, content : Contents, at : 0..MaxBatch]
Unsent == [path : Paths, content : Contents, at : 0..MaxBatch]
Errors == {"empty_path", "file_not_found", "no_file_token_returned", "exception"}
Entry == [path : Paths, status : {"ok"}, token : Tokens]
         \cup [path : Paths, status : {"error"}, error : Errors]

Init == /\ files \in [Paths -> Contents \cup {None}] /\ files[EmptyPath] = None
        /\ had = [p \in Paths |-> {}]
        /\ drive = {} /\ late = {}
        /\ batch = <<>> /\ results = <<>> /\ pc = "idle"

-----------------------------------------------------------------------------
(* Others write and remove the files. *)

Change(p, content) ==
    /\ p # EmptyPath
    /\ files' = [files EXCEPT ![p] = content]
    /\ had' = IF pc = "idle" THEN had ELSE [had EXCEPT ![p] = @ \cup ({content} \ {None})]
    /\ UNCHANGED <<drive, late, batch, results, pc>>

-----------------------------------------------------------------------------
(* UploadService.upload *)

Position == Len(results) + 1
Path == batch[Position]

\* An empty list of paths is refused by the tool.  What is in Drive or may yet
\* come is now from an earlier call.
Earlier(c) == [c EXCEPT !.at = 0]
UploadStart(paths) ==
    /\ pc = "idle"
    /\ paths # <<>>
    /\ batch' = paths /\ results' = <<>> /\ pc' = "check"
    /\ drive' = {Earlier(c) : c \in drive} /\ late' = {Earlier(c) : c \in late}
    /\ had' = [p \in Paths |-> {files[p]} \ {None}]
    /\ UNCHANGED files

\* results.append(entry), and on to the next path.
AppendEntry(entry) ==
    /\ results' = Append(results, entry)
    /\ pc' = IF Position = Len(batch) THEN "idle" ELSE "check"

Failed(error) == [path |-> Path, status |-> "error", error |-> error]

\* Wrong variant: the first path without a file ends the call.
MissingEnds ==
    /\ pc = "check"
    /\ files[Path] = None
    /\ results' = Append(results, Failed("file_not_found"))
    /\ pc' = "idle"
    /\ UNCHANGED <<files, had, drive, late, batch>>

\* An empty path, or one without a file, is not uploaded.
Missing ==
    /\ pc = "check"
    /\ files[Path] = None
    /\ AppendEntry(Failed(IF Path = EmptyPath THEN "empty_path" ELSE "file_not_found"))
    /\ UNCHANGED <<files, had, drive, late, batch>>

Found ==
    /\ pc = "check"
    /\ files[Path] # None
    /\ pc' = "call"
    /\ UNCHANGED <<files, had, drive, late, batch, results>>

\* DriveClient.upload_file: the first token that the answer has; a
\* LarkCliError becomes an empty answer.
TokenIn(json) ==
    LET data == FieldOr(json, "data", <<>>) IN
    CASE HasField(json, "file_token") -> json.file_token
      [] HasField(json, "token") /\ ~HasField(json, "file_token") -> json.token
      [] OTHER -> FieldOr(data, "file_token", None)

\* Wrong variant: after an exception the answer of the path before is used.
EntryOfLast(result) ==
    LET before == {k \in DOMAIN results : results[k].status = "ok"}
        token  == TokenIn(result.value) IN
    IF token # None THEN [path |-> Path, status |-> "ok", token |-> token]
    ELSE IF before # {} THEN [path |-> Path, status |-> "ok",
                              token |-> results[CHOOSE k \in before : TRUE].token]
    ELSE Failed("no_file_token_returned")

EntryOf(result) ==
    LET token == TokenIn(result.value) IN
    IF result.raised \notin {"nothing", "LarkCliError"} THEN Failed("exception")
    ELSE IF token = None THEN Failed("no_file_token_returned")
    ELSE [path |-> Path, status |-> "ok", token |-> token]

Return(end) == AppendEntry(EntryOf(LarkRun(end)))

-----------------------------------------------------------------------------
(* `lark-cli drive +upload`: Feishu stores what the file holds now. *)

\* The forms in which an answer may carry the token.
TokenEnds(t) == {Exit(0, out, "other") : out \in {
    [file_token |-> t], [token |-> t],
    [ok |-> TRUE, data |-> [file_token |-> t]],
    [code |-> 0, data |-> [file_token |-> t]],
    [code |-> 0, msg |-> "ok", file_token |-> t]}}

Fresh(t) == \A c \in drive : c.token # t
Sent == [path |-> Path, content |-> files[Path], at |-> Position]
Stored(sent, t) == [token |-> t, path |-> sent.path, content |-> sent.content, at |-> sent.at]

Upload(t) ==
    /\ pc = "call"
    /\ files[Path] # None
    /\ Fresh(t)
    /\ drive' = drive \cup {Stored(Sent, t)}
    /\ \E end \in TokenEnds(t) \cup VagueEnds : Return(end)
    /\ UNCHANGED <<files, had, late, batch>>

\* Nothing is stored: the file has gone, Feishu refuses, lark-cli fails.
UploadFails ==
    /\ pc = "call"
    /\ \E end \in VagueEnds \cup RefusedEnds \cup {NoExit} : Return(end)
    /\ UNCHANGED <<files, had, drive, late, batch>>

\* The runner gives up; Feishu may have all it needs.
UploadTimesOut ==
    /\ pc = "call"
    /\ late' = IF files[Path] = None THEN late ELSE late \cup {Sent}
    /\ Return(NoExit)
    /\ UNCHANGED <<files, had, drive, batch>>

Land(sent, t) ==
    /\ Fresh(t)
    /\ drive' = drive \cup {Stored(sent, t)}
    /\ late' = late \ {sent}
    /\ UNCHANGED <<files, had, batch, results, pc>>

-----------------------------------------------------------------------------
Batches == BoundedSeq(Paths, MaxBatch)

UploadStep ==
    \/ Missing \/ Found \/ UploadFails \/ UploadTimesOut \/ \E t \in Tokens : Upload(t)

Next == \/ \E p \in Paths, content \in Contents \cup {None} : Change(p, content)
        \/ \E paths \in Batches : UploadStart(paths)
        \/ UploadStep
        \/ \E sent \in late, t \in Tokens : Land(sent, t)

Spec == Init /\ [][Next]_vars

-----------------------------------------------------------------------------
TypeOK ==
    /\ files \in [Paths -> Contents \cup {None}]
    /\ had \in [Paths -> SUBSET Contents]
    /\ drive \in SUBSET Copy /\ late \in SUBSET Unsent
    /\ batch \in Batches /\ results \in Seq(Entry)
    /\ pc \in {"idle", "check", "call"}

\* A call answers for each of its paths, in their order, whatever fails.
OneResultEach ==
    /\ \A k \in DOMAIN results : results[k].path = batch[k]
    /\ pc = "idle" => Len(results) = Len(batch)

\* The token of a result is that of a copy which this call made, for this very
\* path, of what the file held during the call: an agent that stores it as the
\* file_ref of a memory refers to the file it named.
TokenNamesFile ==
    \A k \in DOMAIN results : results[k].status = "ok" =>
        \E c \in drive : /\ c.token = results[k].token
                         /\ c.at = k /\ c.path = batch[k]
                         /\ c.content \in had[batch[k]]

\* Whatever a call leaves in Drive, it says so: a copy that no result names has
\* a result that reports a failed upload, and never one that says that nothing
\* was sent; a path leaves at most one copy.
CopiesAccounted ==
    \A c \in drive : c.at \in DOMAIN results =>
        LET entry == results[c.at] IN
        /\ IF entry.status = "ok" THEN entry.token = c.token
           ELSE entry.error \in {"no_file_token_returned", "exception"}
        /\ \A d \in drive : d.at = c.at => d = c

-----------------------------------------------------------------------------
(* The strengthenings that make these inductive. *)

Underway == pc # "idle" =>
    /\ Len(results) < Len(batch)
    /\ \A p \in Paths : files[p] # None => files[p] \in had[p]

\* What is in Drive, or may yet come, is of a path that was answered.
Answered == \A c \in drive \cup late : c.at <= Len(results)

\* What may yet come was reported as a failure, and nothing else is there for
\* its path.
LateReported ==
    \A sent \in late : sent.at \in DOMAIN results =>
        /\ results[sent.at].status = "error"
        /\ results[sent.at].error \in {"no_file_token_returned", "exception"}
        /\ \A c \in drive : c.at # sent.at
        /\ \A other \in late : other.at = sent.at => other = sent
=============================================================================
