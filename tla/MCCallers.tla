----------------------------- MODULE MCCallers ------------------------------
(***************************************************************************)
(* An instance of Callers: a handler of the server, and a command beside   *)
(* it whose thread also takes the operator's calls; a request that needs   *)
(* an approval and one that is allowed, and the user of both to revoke;    *)
(* and one that nobody revokes, whose approval and receipt are too long to *)
(* read back.                                                              *)
(***************************************************************************)
EXTENDS Callers

CONSTANTS h, c, server, command, r1, r2

MCProcOf == [t \in Threads |-> IF t = h THEN server ELSE command]

Names(u) == [agent |-> "a", agent_instance |-> "", user |-> u, session |-> "",
             action |-> "pay"]

Pay == [id |-> r1, names |-> Names("bob")]
Look == [id |-> r2, names |-> Names("bob")]
Big == [id |-> r2, names |-> Names("")]

MCEffect == [q \in Requests |-> IF q = Look THEN "allow" ELSE "approval_required"]

MCRequests == {Pay, Look, Big}

MCLong == {Big}

MCTargets == {[type |-> "user", id |-> "bob"]}

MCTrimmed == [x \in {"bob"} |-> x]

MCDecoded == [x \in {"*", "bob"} |-> x]
=============================================================================
