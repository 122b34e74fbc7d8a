------------------------------ MODULE Callers -------------------------------
(***************************************************************************)
(* Who calls the gateway and what they do with its answer: the HTTP        *)
(* handlers of a server (internal/server) and the commands of              *)
(* cmd/openagentsgate, each a process beside it on the same files.  A      *)
(* command that supervises another one (tool, wrap) starts it after an     *)
(* allow.  Clients leave, children end as they like, processes die.        *)
(***************************************************************************)
EXTENDS Gateway

CONSTANTS
    Server,         \* the process that serves; the others are commands
    Operators,      \* the threads that take the operator's requests
    ChildCodes      \* exit codes of supervised commands

VARIABLE job        \* job[t]: where thread t is with what it was asked for

allVars == <<vars, job>>

\* A request to the server; `check`; `decide` (and `check -strict-exit=false`);
\* `tool` and `wrap`.
KindsOf(t) == IF ProcOf[t] = Server THEN {"http"} ELSE {"check", "decide", "tool"}

ASSUME CallerAssumption ==
    /\ Server \in Procs
    /\ Operators \subseteq Threads
    /\ \A t, u \in Threads : ProcOf[t] = ProcOf[u] => t = u \/ ProcOf[t] = Server
    /\ ChildCodes \subseteq 0 .. 255

NoJob == [stage |-> "none"]

CallersInit == Init /\ job = [t \in Threads |-> NoJob]

Stage(t) == job[t].stage

Becomes(t, j) == job' = [job EXCEPT ![t] = j]

-----------------------------------------------------------------------------
(* From a decision to what the caller sees *)

\* Fault: the effects that are not listed exit with 0.
ExitCodeDenyMissing(effect) ==
    CASE effect = "dry_run" -> 10 [] effect = "approval_required" -> 20 [] OTHER -> 0

\* exitCodeForEffect
ExitCode(effect) ==
    CASE effect = "allow" -> 0
      [] effect = "dry_run" -> 10
      [] effect = "approval_required" -> 20
      [] OTHER -> 30

\* Fault: only a deny keeps the command from being started.
StartsUnlessDenied(effect) == effect # "deny"

\* The effect that tool and wrap start their command on.
Starts(effect) == effect = "allow"

\* The status or exit code of an answer.
CodeOf(kind, effect) ==
    CASE kind = "http" -> 200 [] kind = "decide" -> 0 [] OTHER -> ExitCode(effect)

\* log.Fatalf, or the status of an error of Decide.
ErrorCode(kind) == IF kind = "http" THEN 400 ELSE 1

\* Decide returned an error.
Refused(kind) == [stage |-> "answer", kind |-> kind, code |-> ErrorCode(kind), effect |-> ""]

\* Decide returned a result to a caller of that kind.
Result(t, kind) ==
    [stage |-> IF kind = "tool" /\ Starts(call[t].effect) THEN "runs" ELSE "answer",
     kind |-> kind, code |-> CodeOf(kind, call[t].effect), effect |-> call[t].effect,
     req |-> call[t].req, approval |-> call[t].approval,
     receipt |-> auditDraft[t].event.id, barred |-> job[t].barred]

-----------------------------------------------------------------------------
(* Asking *)

\* A revocation that holds, of an id that JSON keeps, names the request.
Barred(req) == \E k \in blocked : R!Legible(k) /\ R!Covers(k, req.names)

\* A handler or a command calls Decide, which finds the effect.  Which of
\* the commands it is shows when Decide returns.
Ask(t, req) ==
    /\ Stage(t) = "none"
    /\ Evaluate(t, req)
    /\ Becomes(t, [stage |-> "asked", barred |-> Barred(req)])

\* The revocation log does not decode; or the request does not (readJSON,
\* mustActionRequest, Request.Validate), and no file is touched.
AskFails(t) ==
    /\ Stage(t) = "none"
    /\ EvaluateFails(t) \/ ReadOnly(t)
    /\ \E kind \in KindsOf(t) : Becomes(t, Refused(kind))

\* Decide goes on.
Continue(t) ==
    /\ AskApproval(t) \/ FindApproval(t) \/ ApprovalCreated(t) \/ WriteReceipt(t)
    /\ UNCHANGED job

\* Decide returns a result.  A handler makes its answer of it even when its
\* client has left.
Decided(t) ==
    /\ ReceiptWritten(t)
    /\ \E kind \in KindsOf(t) : Becomes(t, Result(t, kind))

\* Fault: the error of Decide is not looked at.
AfterErrorGoOn(t, kind) ==
    [stage |-> "answer", kind |-> kind, code |-> CodeOf(kind, call[t].effect),
     effect |-> call[t].effect, req |-> call[t].req, approval |-> call[t].approval,
     receipt |-> 0, barred |-> job[t].barred]

AfterError(t, kind) == Refused(kind)

\* Decide returns an error.
NotDecided(t) ==
    /\ ApprovalFails(t) \/ ReceiptFails(t)
    /\ \E kind \in KindsOf(t) : Becomes(t, AfterError(t, kind))

\* The client of a handler is gone, or WriteTimeout has closed its
\* connection; the handler is not told and goes on.
ClientLeaves(t) ==
    /\ Stage(t) = "asked" /\ ProcOf[t] = Server
    /\ Becomes(t, [job[t] EXCEPT !.stage = "left"])
    /\ UNCHANGED vars

\* The supervised command ends and its exit code becomes the process's, or
\* it cannot be started or is killed (code 1 from log.Fatalf, 255 for -1).
ChildEnds(t) ==
    /\ Stage(t) = "runs"
    /\ \E code \in ChildCodes \cup {1, 255} :
          Becomes(t, [job[t] EXCEPT !.stage = "answer", !.code = code])
    /\ UNCHANGED vars

\* The answer is written, or lost on the way; a command exits.
Deliver(t) ==
    /\ Stage(t) = "answer"
    /\ Becomes(t, NoJob)
    /\ UNCHANGED vars

-----------------------------------------------------------------------------
(* The operator's requests and commands. *)

\* `approvals resolve`
Review(t) == ResolveApproval(t) \/ Resolved(t)

\* `revocations add` and `revocations remove`
Revise(t) == ChangeRevocation(t) \/ RevocationChanged(t)

Operate(t) ==
    /\ Stage(t) = "none" /\ t \in Operators
    /\ Review(t) \/ Revise(t)
    /\ UNCHANGED job

\* Lists, lookups, replay and verify.
Inspect(t) ==
    /\ Stage(t) = "none"
    /\ ReadOnly(t)
    /\ UNCHANGED job

\* Process p dies during a call.  A supervised command may outlive it.
Die(p) ==
    /\ Crash(p)
    /\ job' = [t \in Threads |-> IF ProcOf[t] = p THEN NoJob ELSE job[t]]

CallersNext ==
    \/ \E t \in Threads :
          \/ \E req \in Requests : Ask(t, req)
          \/ AskFails(t)
          \/ Continue(t)
          \/ Decided(t)
          \/ NotDecided(t)
          \/ ClientLeaves(t)
          \/ ChildEnds(t)
          \/ Deliver(t)
          \/ Operate(t)
          \/ Inspect(t)
    \/ \E p \in Procs : Die(p)

CallersSpec == CallersInit /\ [][CallersNext]_allVars

-----------------------------------------------------------------------------
\* A call of Decide is in progress exactly while its caller waits for it or
\* has left, an answer has the status or a code an exit can have, and only
\* tool and wrap run anything.
CallersTypeOK ==
    \A t \in Threads :
        /\ Stage(t) \in {"none", "asked", "left", "answer", "runs"}
        /\ Stage(t) \in {"asked", "left"}
             <=> InProgress(t) /\ call[t].stage \notin {"resolving", "revoking"}
        /\ Stage(t) \in {"answer", "runs"} => job[t].kind \in KindsOf(t)
        /\ Stage(t) = "answer" =>
              IF job[t].kind = "http"
              THEN job[t].code = IF job[t].effect = "" THEN 400 ELSE 200
              ELSE job[t].code \in 0 .. 255
        /\ Stage(t) = "runs" => job[t].kind = "tool"

\* The job of t is what an allow leads to: the command runs, a handler or a
\* command answers allow, or check or tool is about to exit with 0.
GoesAhead(t) ==
    \/ Stage(t) = "runs"
    \/ Stage(t) = "answer" /\ job[t].effect = "allow"
    \/ Stage(t) = "answer" /\ job[t].kind \in {"check", "tool"} /\ job[t].code = 0

\* The audit log shows receipt id, for req with that effect, to everyone who
\* can read it.
Recorded(id, req, effect) ==
    A!Scans(auditLog) =>
        \E i \in DOMAIN auditLog :
            LET e == auditLog[i].event
            IN  e.id = id /\ e.text.req = req /\ e.text.effect = effect

\* Nothing is executed, and nobody is answered allow or given the exit code 0
\* that stands for it, without an allow on record for that very request,
\* whatever other processes append, fail at or leave behind meanwhile.
NothingRunsUnrecorded ==
    \A t \in Threads : GoesAhead(t) => Recorded(job[t].receipt, job[t].req, "allow")

\* A request that a standing revocation names when it is made, by an id that
\* JSON keeps, is answered allow by no handler and no command and starts
\* nothing, whatever the policy says.
RevokedNeverRuns == \A t \in Threads : GoesAhead(t) => ~job[t].barred

\* An answer holds when it is given, also to a client that has left and will
\* ask again: its receipt is on record, and the approval it tells the caller
\* to wait for is in the approval log.
RepliesHold ==
    \A t \in Threads :
        Stage(t) = "answer" /\ job[t].effect # "" =>
            /\ Recorded(job[t].receipt, job[t].req, job[t].effect)
            /\ job[t].effect = "approval_required" /\ P!Loads(approvalLog) =>
                  P!CreationsOf(approvalLog, job[t].approval) # {}
=============================================================================
