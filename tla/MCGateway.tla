----------------------------- MODULE MCGateway ------------------------------
(***************************************************************************)
(* An instance of Gateway: one server with two concurrent calls, a request *)
(* that needs an approval and may be made again, and its user to revoke.   *)
(* (Requests that are allowed, and lines too long to read back, are in     *)
(* MCCallers.)                                                             *)
(***************************************************************************)
EXTENDS Gateway

CONSTANTS t1, t2, server, r1

OneServer == [t \in Threads |-> server]

Pay == [id |-> r1,
        names |-> [agent |-> "a", agent_instance |-> "", user |-> "bob",
                   session |-> "", action |-> "pay"]]

MCRequests == {Pay}

MCEffect == [q \in Requests |-> "approval_required"]

MCTargets == {[type |-> "user", id |-> "bob"]}

MCTrimmed == [x \in {"bob"} |-> x]

MCDecoded == [x \in {"*", "bob"} |-> x]
=============================================================================
