------------------------------ MODULE MCAudit ------------------------------
(***************************************************************************)
(* Instances of Audit.  Ids bounds the receipts; three give a chain with a *)
(* first, a middle and a last receipt.                                     *)
(***************************************************************************)
EXTENDS Audit

CONSTANTS t1, t2, t3, server, cli, plain, long, raw, replaced

OneServer == [t \in Threads |-> server]

\* The server and one command on the same state directory.
ServerAndCli == [t \in Threads |-> IF t = t1 THEN server ELSE cli]

SameText == [x \in Texts |-> x]

\* Invalid UTF-8 decodes to U+FFFD, which encodes to other bytes than the
\* escape that was hashed.
Utf8Text == [x \in Texts |-> IF x = raw THEN replaced ELSE x]
=============================================================================
