---------------------------- MODULE MCRevocation ----------------------------
(***************************************************************************)
(* An instance of Revocation with the server and one command.  MaxLines    *)
(* lets a target be revoked, restored and revoked again beside the damage  *)
(* of one cut append; a cut append needs one more line to run into.  One   *)
(* user's id is not UTF-8 and reads back as another's.                     *)
(***************************************************************************)
EXTENDS Revocation, TLC

CONSTANTS t1, t2, t3, server, cli

ServerAndCli == [t \in Threads |-> IF t = t1 THEN cli ELSE server]

\* A byte that is not UTF-8, and U+FFFD, which JSON writes for it: two users.
Raw == "\\xff"
Bob == "\\ufffd"

Padded == " \\ufffd "

MCTargets ==
    {[type |-> "all", id |-> ""], [type |-> "all", id |-> Bob],
     [type |-> "user", id |-> Bob], [type |-> "user", id |-> Padded],
     [type |-> "user", id |-> " "], [type |-> "user", id |-> Raw],
     [type |-> "team", id |-> Bob]}

MCTrimmed ==
    [x \in {"", " ", Bob, Padded, Raw} |->
        CASE x = " " -> "" [] x = Padded -> Bob [] OTHER -> x]

MCDecoded == [x \in {"", "*", Bob, Raw} |-> IF x = Raw THEN Bob ELSE x]

\* The same names in every field but the user's.
MCRequests ==
    {[agent |-> "a", agent_instance |-> "", user |-> u, session |-> "",
      action |-> "pay"] : u \in {Bob, Raw, ""}}

Interchangeable == Permutations({t2, t3})
=============================================================================
