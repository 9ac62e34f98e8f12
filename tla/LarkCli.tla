------------------------------ MODULE LarkCli ------------------------------
(* LarkCliRunner.run: what it makes of the way in which a lark-cli process    *)
(* ends.  The parsed output is a record, the JSON object; what is no object,  *)
(* an empty output or a text, is Text, a record without fields: no caller     *)
(* finds anything in either.                                                  *)
EXTENDS Naturals, Functions

Text == <<>>

\* The process is killed after the timeout or cannot be started; or it exits
\* with a code, an output, and on stderr an error envelope, one without a
\* message, or something else.
NoExit == [exits |-> FALSE]
Exit(code, out, err) == [exits |-> TRUE, code |-> code, out |-> out, err |-> err]

HasField(json, f) == f \in DOMAIN json
FieldOr(json, f, default) == IF HasField(json, f) THEN json[f] ELSE default

\* The two shapes of an error: the one of lark-cli, and that of the Feishu API.
RefusedBy(json) ==
    \/ HasField(json, "ok") /\ ~json.ok
    \/ HasField(json, "code") /\ json.code # 0

\* The API's answer in the shape of lark-cli's: without `data` the payload is
\* what stands beside the code.
Promoted(json) ==
    IF HasField(json, "code") /\ ~HasField(json, "ok")
    THEN [ok |-> TRUE,
          data |-> FieldOr(json, "data", Restrict(json, DOMAIN json \ {"code", "msg"}))]
    ELSE json

\* What the caller of run gets: a value or an exception.  An envelope without a
\* message ends in a KeyError, which no caller expects.
Answer(value) == [raised |-> "nothing", value |-> value]
Raises(exception) == [raised |-> exception, value |-> Text]

LarkRun(end) ==
    CASE ~end.exits -> Raises("LarkCliError")
      [] end.exits /\ end.code = 0 ->
            IF RefusedBy(end.out) THEN Raises("LarkCliError")
            ELSE Answer(Promoted(end.out))
      [] OTHER ->
            IF end.err = "nameless" THEN Raises("KeyError") ELSE Raises("LarkCliError")

\* Ends that say nothing of what Feishu did: an exit with an error and whatever
\* on stderr, an output without content, or one that cannot be read.
VagueEnds == {Exit(code, Text, err) : code \in {1, 10}, err \in {"envelope", "nameless", "other"}}
             \cup {Exit(0, out, "other") : out \in {Text, [ok |-> TRUE]}}
\* Ends that say that Feishu refused.
RefusedEnds == {Exit(0, out, "other") : out \in {[ok |-> FALSE], [code |-> 1]}}
=============================================================================
