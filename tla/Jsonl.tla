------------------------------- MODULE Jsonl -------------------------------
(***************************************************************************)
(* A JSON-lines file, as the audit, approval and revocation logs use it.   *)
(* A file is a sequence of lines.  A line remembers the event it was       *)
(* written for, whether a reader still decodes it ("whole": one JSON       *)
(* object, shorter than the scanner's limit of 1 MiB) and whether its      *)
(* newline reached the file ("ended").                                     *)
(***************************************************************************)
EXTENDS Naturals, Sequences

\* The line json.Encoder writes for event e.  One that does not fit the
\* scanner's buffer is written like any other and never read back.
Line(e, fits) == [event |-> e, whole |-> fits, ended |-> TRUE]

Lines(E) == [event : E, whole : BOOLEAN, ended : BOOLEAN]

\* The file ends inside a line: an append was cut short before its newline.
Ragged(f) == f # <<>> /\ ~f[Len(f)].ended

\* Bytes added after a line that has no newline run into that line.
Garble(f, ended) ==
    [f EXCEPT ![Len(f)] = [@ EXCEPT !.whole = FALSE, !.ended = ended]]

\* One O_APPEND write of a complete line.
AppendLine(f, l) == IF Ragged(f) THEN Garble(f, TRUE) ELSE Append(f, l)

\* What the file may hold when that write stops early: nothing new, a
\* fragment, or the whole object without its newline.
CutAppend(f, l) ==
    {f} \cup
    IF Ragged(f)
    THEN {Garble(f, FALSE)}
    ELSE {Append(f, [l EXCEPT !.ended = FALSE]),
          Append(f, [l EXCEPT !.whole = FALSE, !.ended = FALSE])}

\* A scan of the file reaches its end with every line decoded.
Scans(f) == \A i \in DOMAIN f : f[i].whole

Events(f) == [i \in DOMAIN f |-> f[i].event]
=============================================================================
