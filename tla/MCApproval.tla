----------------------------- MODULE MCApproval -----------------------------
(***************************************************************************)
(* Instances of Approval.  Ids bounds the approvals: two let a request id  *)
(* be approved and submitted again, or wait beside another one.            *)
(***************************************************************************)
EXTENDS Approval, TLC

CONSTANTS t1, t2, t3, server, cli, r1, r2, pay, mail, long

OneServer == [t \in Threads |-> server]

\* The server and one command on the same state directory.
ServerAndCli == [t \in Threads |-> IF t = t1 THEN server ELSE cli]

\* Threads of one process, and request ids, are interchangeable; no property
\* of these runs is a liveness property.
Interchangeable == Permutations(Threads) \cup Permutations(RequestIds)
=============================================================================
