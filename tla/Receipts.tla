------------------------------ MODULE Receipts ------------------------------
(***************************************************************************)
(* Audit receipts and their hashes.  A digest is told apart from every     *)
(* other by what was hashed: the receipt's own fields and, through its     *)
(* previous_hash, those of all receipts before it.  It is written as that  *)
(* history, so two digests are equal only when the hashed bytes are (the   *)
(* collision resistance of SHA-256).                                       *)
(***************************************************************************)
EXTENDS Naturals, Sequences

CONSTANTS
    Ids,        \* receipt ids
    Texts       \* the rest of a receipt: request, decision, approval, time

Hashes == Seq(Ids \X Texts)

NoHash == <<>>

HashOf(id, text, prev) == Append(prev, <<id, text>>)

Receipt == [id : Ids, text : Texts, prev : Hashes, hash : Hashes]

Intact(r) == r.hash = HashOf(r.id, r.text, r.prev)

\* The integrity hash of the last receipt of a log, "" for an empty one.
TailHash(s) == IF s = <<>> THEN NoHash ELSE s[Len(s)].hash

\* Every receipt carries the hash of the one before it.
Linked(s) ==
    \A i \in DOMAIN s :
        s[i].prev = IF i = 1 THEN NoHash ELSE s[i - 1].hash
=============================================================================
