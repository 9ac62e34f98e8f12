--------------------------- MODULE MCFeishuMemory ---------------------------
(* Small instances of FeishuMemory for TLC. *)
EXTENDS FeishuMemory, TLC

CONSTANTS f1, f2, f3, l1, l2, c1, c2, s1, s2, server, cron

\* "" and " " are the empty and the white text; "long" is cut by the preview.
MCTexts   == {"", " ", "x", "y", "long"}
MCPreview == [t \in MCTexts |-> IF t = "long" THEN "x" ELSE t]

\* All tasks in one server, or one sync, s2, in a cron process.
OneProcess == [t \in Tasks |-> server]
CronSync   == [t \in Tasks |-> IF t = s2 THEN cron ELSE server]

Cells(title, preview) ==
    [title |-> title, preview |-> preview, text_empty |-> FALSE, ref |-> FALSE]
Ticked(row) == [row EXCEPT !.text_empty = TRUE]

\* Ids and syncs of one process are interchangeable (safety only).
CoreSymmetry == Permutations({f1, f2}) \cup Permutations({s1, s2})

PlainRows == {Cells("x", "x"), Cells("y", "y")}
CoreRows  == PlainRows \cup {Cells(None, "x")}
OneRow    == {Cells("x", "y")}
BlankRows == {Cells("x", "x"), Cells("y", "y"), Ticked(Cells("y", " "))}
=============================================================================
