------------------------------ MODULE Gateway -------------------------------
(***************************************************************************)
(* The gateway: internal/gateway over the three stores.  A call of         *)
(* Service.Decide checks the revocations and the policy, creates or finds  *)
(* an approval when the effect asks for one, and records a receipt: three  *)
(* steps under three mutexes, with nothing around them, so other calls,    *)
(* errors and crashes come between.  Resolve, Revoke and Restore go to     *)
(* their store.  The stores are the modules Audit, Approval and            *)
(* Revocation, instantiated.                                               *)
(***************************************************************************)
EXTENDS Naturals, Sequences, FiniteSets

CONSTANTS
    Threads, Procs, ProcOf, NoLine, Unreadable,
    ReceiptIds, ApprovalIds,    \* they bound the receipts and approvals
    RequestIds,
    Requests,                   \* records: id, names (a request of Revocation)
    Effect,                     \* the policy: the effect of each request
    LongReceipts,               \* requests whose receipts, and those whose
    LongApprovals,              \* approvals, exceed the scanner's buffer
    NoApproval,
    Targets, Trimmed, Blank, Decoded,   \* as in Revocation
    MaxLines                    \* bound on the lines of the revocation log

ASSUME ThreadAssumption == ProcOf \in [Threads -> Procs]
ASSUME EffectAssumption ==
    Effect \in [Requests -> {"allow", "deny", "approval_required", "dry_run"}]
ASSUME BoundAssumption == MaxLines \in Nat
ASSUME RequestAssumption == \A q \in Requests : q.id \in RequestIds
ASSUME LongAssumption == LongReceipts \subseteq Requests /\ LongApprovals \subseteq Requests

VARIABLES
    auditLog, auditDraft, receipts,
    approvalLog, approvalDraft, told, verdicts,
    revocationLog, revocationDraft, blocked, released,
    call            \* call[t]: how far the call of thread t has come

auditVars == <<auditLog, auditDraft, receipts>>
approvalVars == <<approvalLog, approvalDraft, told, verdicts>>
revocationVars == <<revocationLog, revocationDraft, blocked, released>>
vars == <<auditVars, approvalVars, revocationVars, call>>

Text == [req : Requests, effect : {"allow", "deny", "approval_required", "dry_run"},
         approval : ApprovalIds \cup {NoApproval}]

A == INSTANCE Audit WITH
        log <- auditLog, draft <- auditDraft, acked <- receipts,
        Ids <- ReceiptIds, Texts <- Text,
        LongTexts <- {x \in Text : x.req \in LongReceipts},
        ReadBack <- [x \in Text |-> x]

P == INSTANCE Approval WITH
        log <- approvalLog, draft <- approvalDraft,
        Ids <- ApprovalIds, Shapes <- Requests, LongShapes <- LongApprovals

R == INSTANCE Revocation WITH
        log <- revocationLog, draft <- revocationDraft,
        Requests <- {q.names : q \in Requests}

ASSUME DecodedAssumption ==
    /\ Decoded[R!AnyId] = R!AnyId
    /\ \A g \in Targets : Trimmed[g.id] # Blank => Decoded[Trimmed[g.id]] # Blank

\* A thread that writes to no store has no line of one.
ASSUME NoLineAssumption ==
    NoLine \notin A!Lines(A!Receipt) \cup P!Lines(P!Event) \cup R!Lines(R!Event)

Idle == [stage |-> "idle"]

Init ==
    /\ A!Init /\ P!Init /\ R!Init
    /\ call = [t \in Threads |-> Idle]

InProgress(t) == call[t] # Idle

Return(t) == call' = [call EXCEPT ![t] = Idle]

-----------------------------------------------------------------------------
(* Decide *)

\* The ids that this call and the others in progress still need are left.
Room(req) ==
    /\ Cardinality(A!Minted) + Cardinality({t \in Threads : InProgress(t)})
         < Cardinality(ReceiptIds)
    /\ Effect[req] = "approval_required" =>
          Cardinality(P!Minted) + Cardinality({t \in Threads : call[t].stage = "approve"})
            < Cardinality(ApprovalIds)

\* Fault: the policy is asked first, and a revocation only denies what the
\* policy allows.
DecisionPolicyFirst(answer, req) ==
    IF answer = "revoked" /\ Effect[req] = "allow" THEN "deny" ELSE Effect[req]

\* A revocation that matches decides; otherwise the policy does.
Decision(answer, req) == IF answer = "revoked" THEN "deny" ELSE Effect[req]

NextStage(effect) == IF effect = "approval_required" THEN "approve" ELSE "record"

\* evaluate: the request is completed and decided.
Evaluate(t, req) ==
    /\ ~InProgress(t)
    /\ Room(req)
    /\ \E f \in R!Views(t) :
          LET answer == R!Answer(f, req.names)
              effect == Decision(answer, req)
          IN  /\ answer # "error"
              /\ call' = [call EXCEPT ![t] =
                    [stage |-> NextStage(effect), req |-> req, effect |-> effect,
                     approval |-> NoApproval]]
    /\ UNCHANGED <<auditVars, approvalVars, revocationVars>>

\* The revocation log does not decode: Decide and Replay return the error.
EvaluateFails(t) ==
    /\ ~InProgress(t)
    /\ R!MatchFails(t)
    /\ UNCHANGED <<auditVars, approvalVars, call>>

AskApproval(t) ==
    /\ call[t].stage = "approve"
    /\ P!Create(t, call[t].req.id, call[t].req)
    /\ call' = [call EXCEPT ![t].stage = "approving"]
    /\ UNCHANGED <<auditVars, revocationVars>>

FindApproval(t) ==
    /\ call[t].stage = "approve"
    /\ \E id \in ApprovalIds :
          /\ P!CreateAgain(t, call[t].req.id, call[t].req, id)
          /\ call' = [call EXCEPT ![t].stage = "record", ![t].approval = id]
    /\ UNCHANGED <<auditVars, revocationVars>>

ApprovalCreated(t) ==
    /\ call[t].stage = "approving"
    /\ P!Done(t)
    /\ call' = [call EXCEPT ![t].stage = "record",
                            ![t].approval = approvalDraft[t].event.id]
    /\ UNCHANGED <<auditVars, revocationVars>>

\* Fault: the error of CreatePending is dropped.
AfterApprovalErrorGoOn(t) == call' = [call EXCEPT ![t].stage = "record"]

\* The error of CreatePending is Decide's.
AfterApprovalError(t) == Return(t)

ApprovalFails(t) ==
    /\ \/ call[t].stage = "approve" /\ P!LoadFails(t)
       \/ call[t].stage = "approving" /\ P!Fails(t)
    /\ AfterApprovalError(t)
    /\ UNCHANGED <<auditVars, revocationVars>>

WriteReceipt(t) ==
    /\ call[t].stage = "record"
    /\ A!Record(t, [req |-> call[t].req, effect |-> call[t].effect,
                    approval |-> call[t].approval])
    /\ call' = [call EXCEPT ![t].stage = "recording"]
    /\ UNCHANGED <<approvalVars, revocationVars>>

\* Decide returns its decision.
ReceiptWritten(t) ==
    /\ call[t].stage = "recording"
    /\ A!RecordDone(t)
    /\ Return(t)
    /\ UNCHANGED <<approvalVars, revocationVars>>

\* Fault: a log that does not decode is waited for.
CannotRecordWait(t) == call[t].stage = "recording" /\ A!RecordFails(t)

CannotRecord(t) ==
    \/ call[t].stage = "record" /\ A!ReadFails(t)
    \/ call[t].stage = "recording" /\ A!RecordFails(t)

\* Decide returns an error; an approval it created stays.
ReceiptFails(t) ==
    /\ CannotRecord(t)
    /\ Return(t)
    /\ UNCHANGED <<approvalVars, revocationVars>>

-----------------------------------------------------------------------------
(* The operator's calls, each one step of its store and its return. *)

ResolveApproval(t) ==
    /\ ~InProgress(t)
    /\ \E id \in ApprovalIds, verdict \in P!Verdicts : P!Resolve(t, id, verdict)
    /\ call' = [call EXCEPT ![t] = [stage |-> "resolving"]]
    /\ UNCHANGED <<auditVars, revocationVars>>

Resolved(t) ==
    /\ call[t].stage = "resolving"
    /\ P!Done(t) \/ P!Fails(t)
    /\ Return(t)
    /\ UNCHANGED <<auditVars, revocationVars>>

ChangeRevocation(t) ==
    /\ ~InProgress(t)
    /\ \E g \in Targets : R!Revoke(t, g) \/ R!Restore(t, g)
    /\ call' = [call EXCEPT ![t] = [stage |-> "revoking"]]
    /\ UNCHANGED <<auditVars, approvalVars>>

RevocationChanged(t) ==
    /\ call[t].stage = "revoking"
    /\ R!Done(t) \/ R!Fails(t)
    /\ Return(t)
    /\ UNCHANGED <<auditVars, approvalVars>>

\* Replay, the lists and lookups, and Verify change nothing; nor does a
\* call that is refused before it writes.
ReadOnly(t) == ~InProgress(t) /\ UNCHANGED vars

\* Process p dies, with its calls.
Crash(p) ==
    /\ \E t \in Threads : ProcOf[t] = p /\ InProgress(t)
    /\ A!Halt(p) /\ P!Halt(p) /\ R!Halt(p)
    /\ call' = [t \in Threads |-> IF ProcOf[t] = p THEN Idle ELSE call[t]]
    /\ UNCHANGED <<receipts, told, verdicts, blocked, released>>

\* What a thread does until its call returns.
Progress(t) ==
    \/ AskApproval(t) \/ FindApproval(t) \/ ApprovalCreated(t) \/ ApprovalFails(t)
    \/ WriteReceipt(t) \/ ReceiptWritten(t) \/ ReceiptFails(t)
    \/ Resolved(t) \/ RevocationChanged(t)

Next ==
    \/ \E t \in Threads :
          \/ \E req \in Requests : Evaluate(t, req)
          \/ EvaluateFails(t)
          \/ ResolveApproval(t)
          \/ ChangeRevocation(t)
          \/ Progress(t)
          \/ ReadOnly(t)
    \/ \E p \in Procs : Crash(p)

\* A mutex of Go admits a goroutine that keeps waiting for it (starvation
\* mode), hence the strong fairness; the scheduler runs one that can run.
Fairness == \A t \in Threads : SF_vars(Progress(t))

Spec == Init /\ [][Next]_vars /\ Fairness

-----------------------------------------------------------------------------
\* A thread is writing to the store its stage says, and to no other: no call
\* holds two mutexes.
OneStoreAtATime ==
    \A t \in Threads :
        /\ A!Writing(t) <=> call[t].stage = "recording"
        /\ P!Writing(t) <=> call[t].stage \in {"approving", "resolving"}
        /\ R!Writing(t) <=> call[t].stage = "revoking"

\* The three stores have their types, and no call of Decide, Resolve, Revoke
\* or Restore keeps a store's mutex after the stage that needs it.
TypeOK == A!TypeOK /\ P!TypeOK /\ R!TypeOK /\ OneStoreAtATime

\* A receipt that asks for an approval cites one: its id was handed out for
\* this very request, and the approval log, while it loads, has its record.
\* Decide creates the approval before the receipt and stops on its error.
ReceiptCitesApproval ==
    \A i \in DOMAIN auditLog :
        LET text == auditLog[i].event.text
        IN  text.effect = "approval_required" =>
                /\ \E a \in told : a.id = text.approval /\ a.shape = text.req
                /\ P!Loads(approvalLog) =>
                      P!CreationsOf(approvalLog, text.approval) # {}

\* Retries share an approval: two receipts for one request id cite the same
\* approval unless one of them has been resolved.  A call that failed after
\* its approval was created does not leave a second one for its retry.
RetriesShareApproval ==
    P!Loads(approvalLog) =>
        \A i, j \in DOMAIN auditLog :
            LET a == auditLog[i].event.text
                b == auditLog[j].event.text
            IN  a.effect = "approval_required" /\ b.effect = "approval_required"
                  /\ a.req.id = b.req.id /\ a.approval # b.approval
                => \E x \in {a.approval, b.approval} :
                      P!StatusOf(approvalLog, x) \in P!Verdicts

\* "Revocation must override allow rules" (SECURITY.md): a request that is
\* evaluated after Revoke returned, and before a Restore starts, is denied or
\* gets an error, whatever the policy says and whatever happened to the log,
\* for the targets whose id JSON keeps.
RevocationDecides ==
    [][\A t \in Threads, k \in blocked :
          ~InProgress(t) /\ call'[t].stage \in {"approve", "record"}
            /\ R!Legible(k) /\ R!Covers(k, call'[t].req.names)
          => call'[t].effect = "deny"]_vars

\* Every call returns, with an answer or an error.
CallsReturn == \A t \in Threads : InProgress(t) ~> ~InProgress(t)
=============================================================================
