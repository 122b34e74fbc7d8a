------------------------- MODULE ApprovalLifecycle --------------------------
(***************************************************************************)
(* What the approval log promises, without processes, files or locks.      *)
(* Readers see every approval go from absent to pending to one verdict,    *)
(* with at most one pending approval per request id; or they see an error, *)
(* and from then on always an error.                                       *)
(***************************************************************************)
CONSTANTS Ids, RequestIds, Unreadable

Verdicts == {"approved", "denied"}

VARIABLE view       \* what readers are given: a status per id, or Unreadable

Absent == [status |-> "absent"]

Pending(rid) == [status |-> "pending", request_id |-> rid]

Init == view = [id \in Ids |-> Absent]

Create ==
    /\ view # Unreadable
    /\ \E id \in Ids, rid \in RequestIds :
          /\ view[id] = Absent
          /\ \A other \in Ids : view[other] # Pending(rid)
          /\ view' = [view EXCEPT ![id] = Pending(rid)]

Settle ==
    /\ view # Unreadable
    /\ \E id \in Ids, verdict \in Verdicts :
          /\ view[id].status = "pending"
          /\ view' = [view EXCEPT ![id] = [@ EXCEPT !.status = verdict]]

Break == view' = Unreadable

Next == Create \/ Settle \/ Break

Spec == Init /\ [][Next]_view
=============================================================================
