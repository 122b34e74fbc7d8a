----------------------------- MODULE AuditChain -----------------------------
(***************************************************************************)
(* What the audit log promises ("append-only, hash-chained audit           *)
(* receipts"), without processes, files or locks: readers see one chain,   *)
(* which only grows, by receipts that are intact and linked to the last    *)
(* one, or they see an error, and then always an error ("it does not       *)
(* repair old logs automatically").  They never see a shorter chain, a     *)
(* changed receipt or a chain with a gap.                                  *)
(***************************************************************************)
EXTENDS Receipts

CONSTANT Unreadable

VARIABLE view       \* what a reader is given: a chain, or Unreadable

Init == view = <<>>

Extend ==
    /\ view # Unreadable
    /\ \E r \in {[id |-> i, text |-> t, prev |-> TailHash(view),
                  hash |-> HashOf(i, t, TailHash(view))]
                   : i \in Ids, t \in Texts} :
          view' = Append(view, r)

Break == view' = Unreadable

Next == Extend \/ Break

Spec == Init /\ [][Next]_view
=============================================================================
