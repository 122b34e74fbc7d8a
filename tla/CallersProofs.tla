---------------------------- MODULE CallersProofs ---------------------------
(***************************************************************************)
(* Theorems about the handlers and commands around the gateway: what is    *)
(* executed has an allow on record, a standing revocation lets nothing     *)
(* through, and an answer is backed by the logs.  All hold for any number  *)
(* of handlers, commands and processes, and rest on the theorems about the *)
(* gateway and its stores.                                                 *)
(***************************************************************************)
EXTENDS Callers, GatewayProofs

Deciding(t) == call[t].stage \in {"approve", "approving", "record", "recording"}

Waiting == [stage : {"asked", "left"}, barred : BOOLEAN]

Kinds == {"http", "check", "decide", "tool"}

Refusal == [stage : {"answer"}, kind : Kinds, code : {1, 400}, effect : {""}]

Reply ==
    [stage : {"answer", "runs"}, kind : Kinds, code : Nat,
     effect : {"allow", "deny", "approval_required", "dry_run"}, req : Requests,
     approval : ApprovalIds \cup {NoApproval}, receipt : ReceiptIds, barred : BOOLEAN]

JobType == job \in [Threads -> {NoJob} \cup Waiting \cup Refusal \cup Reply]

\* The receipt of a reply was returned by Record, for its request and effect.
Backed(j) ==
    \E r \in receipts : r.id = j.receipt /\ r.text.req = j.req /\ r.text.effect = j.effect

\* The status or the exit code of an answer with a result.
Answered(j) == IF j.kind = "http" THEN j.code = 200 ELSE j.code \in 0 .. 255

\* What a caller waits for, it was told, or runs: a call of Decide is in
\* progress exactly for a caller that waits or has left; a barred request is
\* denied; a reply is backed, cites its approval, and goes ahead on an allow.
JobOK(t) ==
    /\ job[t] \in Waiting <=> Deciding(t)
    /\ job[t] \in Waiting /\ job[t].barred => call[t].effect = "deny"
    /\ job[t] \in Refusal =>
          job[t].kind \in KindsOf(t) /\ job[t].code = ErrorCode(job[t].kind)
    /\ job[t] \in Reply =>
          /\ job[t].kind \in KindsOf(t)
          /\ Backed(job[t])
          /\ Cites(job[t])
          /\ job[t].barred => job[t].effect = "deny"
          /\ Stage(t) = "runs" => job[t].kind = "tool"
          /\ Stage(t) = "answer" => Answered(job[t])
          /\ GoesAhead(t) => job[t].effect = "allow"

JobInv == JobType /\ \A t \in Threads : JobOK(t)

\* The kinds of jobs, told apart by their stage and effect.
LEMMA JobKinds ==
    ASSUME JobType, NEW t \in Threads
    PROVE  /\ Stage(t) = "none" <=> job[t] = NoJob
           /\ Stage(t) \in {"asked", "left"} <=> job[t] \in Waiting
           /\ Stage(t) \in {"answer", "runs"} <=> job[t] \in Refusal \cup Reply
           /\ Stage(t) = "runs" => job[t] \in Reply
           /\ job[t] \in Refusal \cup Reply =>
                 (job[t].effect = "" <=> job[t] \in Refusal)
           /\ GoesAhead(t) => job[t] \in Reply
<1>1. job[t] \in {NoJob} \cup Waiting \cup Refusal \cup Reply
  BY DEF JobType
<1>2. NoJob.stage = "none" /\ \A j \in Waiting : j.stage \in {"asked", "left"}
  BY DEF NoJob, Waiting
<1>3. \A j \in Refusal : j.stage = "answer" /\ j.effect = "" /\ j.code # 0
  <2>1. \A j \in Refusal : j.stage = "answer" /\ j.effect = "" /\ j.code \in {1, 400}
    BY DEF Refusal
  <2>2. 0 \notin {1, 400}
    OBVIOUS
  <2> QED
    BY <2>1, <2>2
<1>4. \A j \in Reply : j.stage \in {"answer", "runs"} /\ j.effect # ""
  BY DEF Reply
<1> USE DEF Stage
<1>5. CASE job[t] = NoJob
  BY <1>2, <1>3, <1>4, <1>5 DEF GoesAhead
<1>6. CASE job[t] \in Waiting
  <2>1. job[t].stage \in {"asked", "left"}
    BY <1>2, <1>6
  <2> QED
    BY <1>2, <1>3, <1>4, <1>6, <2>1 DEF GoesAhead
<1>7. CASE job[t] \in Refusal
  <2>1. job[t].stage = "answer" /\ job[t].effect = "" /\ job[t].code # 0
    BY <1>3, <1>7
  <2>2. ~GoesAhead(t)
    BY <2>1 DEF GoesAhead
  <2> QED
    BY <1>2, <1>4, <1>7, <2>1, <2>2
<1>8. CASE job[t] \in Reply
  <2>1. job[t].stage \in {"answer", "runs"} /\ job[t].effect # ""
    BY <1>4, <1>8
  <2> QED
    BY <1>2, <1>3, <1>8, <2>1
<1> QED
  BY <1>1, <1>5, <1>6, <1>7, <1>8

\* A job in its place, the others unchanged.
LEMMA JobMoves ==
    ASSUME JobType, NEW t \in Threads,
           NEW j \in {NoJob} \cup Waiting \cup Refusal \cup Reply, Becomes(t, j)
    PROVE  JobType' /\ job'[t] = j /\ OthersKeep(job, t)
BY DEF Becomes, JobType, OthersKeep

\* A caller's job stays right while nobody touches it or its call.
LEMMA JobKept ==
    ASSUME CallsOK, [Next]_vars, NEW t \in Threads, JobOK(t),
           job'[t] = job[t], call'[t] = call[t]
    PROVE  JobOK(t)'
<1>1. told \subseteq told' /\ receipts \subseteq receipts'
  BY AnswersGrow, ReceiptsGrow
<1>2. Backed(job[t]) => Backed(job[t])'
  BY <1>1 DEF Backed
<1>3. Cites(job[t]) => Cites(job[t])'
  BY <1>1 DEF Cites
<1> QED
  BY <1>2, <1>3 DEF JobOK, Deciding, Stage, GoesAhead

LEMMA OneJobMoves ==
    ASSUME CallsOK, [Next]_vars, JobInv, NEW t \in Threads,
           JobType', JobOK(t)', OthersKeep(job, t), OthersKeep(call, t)
    PROVE  JobInv'
BY JobKept DEF JobInv, OthersKeep

\* What callers do is what threads of the gateway do, or nothing of its.
LEMMA CallersStep == [CallersNext]_allVars => [Next]_vars
BY DEF CallersNext, Ask, AskFails, Continue, Decided, NotDecided, ClientLeaves,
       ChildEnds, Deliver, Operate, Review, Revise, Inspect, Die, allVars, Next,
       Progress, vars

LEMMA AskKeeps ==
    ASSUME CallsOK, JobInv, RP!TypeOK, RP!HoldInv, [Next]_vars,
           NEW t \in Threads, NEW req \in Requests, Ask(t, req)
    PROVE  JobInv'
<1> DEFINE j == [stage |-> "asked", barred |-> Barred(req)]
<1>1. j \in Waiting /\ j.barred = Barred(req)
  BY DEF Waiting, Barred
<1>2. JobType' /\ job'[t] = j /\ OthersKeep(job, t)
  BY <1>1, JobMoves DEF Ask, JobInv
<1>3. Evaluate(t, req) /\ CallOK
  BY DEF Ask, CallsOK
<1>4. Decides(t) /\ call'[t].req = req /\ OthersKeep(call, t)
  BY <1>3, Evaluated DEF Decides, Evaluate
<1>5. Deciding(t)'
  BY <1>4 DEF Decides, NextStage, Deciding
<1>6. Barred(req) => call'[t].effect = "deny"
  BY <1>4, BlockedIsDenied DEF Barred
<1>7. j \notin Refusal \cup Reply
  BY DEF Refusal, Reply
<1>8. JobOK(t)'
  BY <1>1, <1>2, <1>5, <1>6, <1>7 DEF JobOK
<1> QED
  BY <1>2, <1>4, <1>8, OneJobMoves

LEMMA RefusedType ==
    ASSUME NEW t \in Threads, NEW kind \in KindsOf(t)
    PROVE  /\ Refused(kind) \in Refusal /\ Refused(kind).kind = kind
           /\ Refused(kind).code = ErrorCode(kind)
BY DEF Refused, Refusal, ErrorCode, KindsOf, Kinds

\* A call that is over leaves an error, or no job.
LEMMA OverKeeps ==
    ASSUME CallsOK, JobInv, [Next]_vars, NEW t \in Threads,
           OthersKeep(call, t), ~Deciding(t)',
           Becomes(t, NoJob) \/ \E kind \in KindsOf(t) : Becomes(t, Refused(kind))
    PROVE  JobInv'
<1>1. CASE Becomes(t, NoJob)
  <2>1. JobType' /\ job'[t] = NoJob /\ OthersKeep(job, t)
    BY <1>1, JobMoves DEF JobInv
  <2>2. NoJob \notin Waiting \cup Refusal \cup Reply
    BY DEF NoJob, Waiting, Refusal, Reply
  <2>3. JobOK(t)'
    BY <2>1, <2>2 DEF JobOK
  <2> QED
    BY <2>1, <2>3, OneJobMoves
<1>2. ASSUME NEW kind \in KindsOf(t), Becomes(t, Refused(kind)) PROVE JobInv'
  <2>1. /\ Refused(kind) \in Refusal /\ Refused(kind).kind = kind
        /\ Refused(kind).code = ErrorCode(kind)
    BY RefusedType
  <2>2. JobType' /\ job'[t] = Refused(kind) /\ OthersKeep(job, t)
    BY <1>2, <2>1, JobMoves DEF JobInv
  <2>3. Refused(kind) \notin Waiting \cup Reply
    BY <2>1 DEF Waiting, Refusal, Reply
  <2>4. job'[t].kind \in KindsOf(t) /\ job'[t].code = ErrorCode(job'[t].kind)
    BY <2>1, <2>2
  <2>5. JobOK(t)'
    BY <2>1, <2>2, <2>3, <2>4 DEF JobOK, KindsOf, ErrorCode
  <2> QED
    BY <2>2, <2>5, OneJobMoves
<1> QED
  BY <1>1, <1>2

\* Decide returns a result: its receipt was just returned by Record.
LEMMA DecidedKeeps ==
    ASSUME CallsOK, CiteInv, JobInv, [Next]_vars, NEW t \in Threads, Decided(t)
    PROVE  JobInv'
<1>1. /\ call[t].stage = "recording" /\ A!RecordDone(t)
      /\ call' = [call EXCEPT ![t] = Idle]
  BY DEF Decided, ReceiptWritten, Return
<1>2. OthersKeep(call, t) /\ call'[t].stage = "idle" /\ ~Deciding(t)'
  BY <1>1, CallMoves, IdleCall DEF CallsOK, Deciding
<1>3. ASSUME NEW kind \in KindsOf(t), Becomes(t, Result(t, kind)) PROVE JobInv'
  <2> DEFINE j == Result(t, kind)
             e == auditDraft[t].event
  <2>1. /\ call[t] \in DecideCall
        /\ e.text = [req |-> call[t].req, effect |-> call[t].effect,
                     approval |-> call[t].approval]
        /\ Cites(call[t])
        /\ job[t] \in Waiting
        /\ job[t].barred => call[t].effect = "deny"
    BY <1>1, CallOf DEF CallsOK, CiteInv, CallCites, JobInv, JobOK, Deciding
  <2>2. e.id \in ReceiptIds
    <3>1. auditDraft[t] \in AP!Lines(AP!Receipt)
      BY <1>1, AuditSame DEF CallsOK, TypeOK, OneStoreAtATime, A!TypeOK, A!Writing
    <3> QED
      BY <3>1 DEF AP!Lines, AP!Receipt
  <2>3. /\ kind \in Kinds /\ j.kind = kind
        /\ j.req = call[t].req /\ j.effect = call[t].effect
        /\ j.approval = call[t].approval /\ j.receipt = e.id
        /\ j.barred = job[t].barred /\ j.code = CodeOf(kind, call[t].effect)
        /\ j.stage = IF kind = "tool" /\ Starts(call[t].effect) THEN "runs" ELSE "answer"
    BY DEF Result, KindsOf, Kinds
  <2>4. CodeOf(kind, call[t].effect) \in Nat
    BY DEF CodeOf, ExitCode
  <2>5. j \in Reply
    BY <2>1, <2>2, <2>3, <2>4 DEF Result, Reply, DecideCall, Waiting
  <2> HIDE DEF j
  <2>6. JobType' /\ job'[t] = j /\ OthersKeep(job, t)
    BY <1>3, <2>5, JobMoves DEF JobInv, j
  <2>7. Backed(job[t])'
    <3>1. e \in receipts'
      BY <1>1 DEF A!RecordDone
    <3>2. job'[t].receipt = e.id /\ job'[t].req = e.text.req /\ job'[t].effect = e.text.effect
      BY <2>1, <2>3, <2>6
    <3> QED
      BY <3>1, <3>2 DEF Backed
  <2>8. Cites(job[t])'
    <3>1. /\ job'[t].approval = call[t].approval /\ job'[t].req = call[t].req
          /\ job'[t].effect = call[t].effect
      BY <2>3, <2>6
    <3> QED
      BY <2>1, <3>1, AnswersGrow DEF Cites
  <2>9. j \notin Waiting \cup Refusal
    BY <2>5 DEF Reply, Waiting, Refusal
  <2>10. /\ j.stage = "runs" => kind = "tool" /\ j.effect = "allow"
         /\ kind \in {"check", "tool"} /\ j.code = 0 => j.effect = "allow"
         /\ Answered(j)
    BY <2>3 DEF Starts, CodeOf, ExitCode, Answered
  <2>11. GoesAhead(t)' => j.effect = "allow"
    BY <2>3, <2>6, <2>10 DEF GoesAhead, Stage
  <2>12. (job[t].kind \in KindsOf(t))'
    BY <2>3, <2>6 DEF KindsOf
  <2>13. /\ job'[t] \in Waiting <=> Deciding(t)'
         /\ job'[t] \notin Refusal
         /\ job'[t].barred => job'[t].effect = "deny"
         /\ Stage(t)' = "runs" => job'[t].kind = "tool"
         /\ Answered(job[t])'
         /\ GoesAhead(t)' => job'[t].effect = "allow"
    BY <1>2, <2>1, <2>3, <2>6, <2>9, <2>10, <2>11 DEF Stage, Answered
  <2>14. JobOK(t)'
    BY <1>2, <2>7, <2>8, <2>12, <2>13 DEF JobOK
  <2> QED
    BY <1>2, <2>6, <2>14, OneJobMoves
<1> QED
  BY <1>3 DEF Decided

LEMMA NotDecidedKeeps ==
    ASSUME CallsOK, JobInv, [Next]_vars, NEW t \in Threads, NotDecided(t)
    PROVE  JobInv'
<1>1. call' = [call EXCEPT ![t] = Idle]
  BY DEF NotDecided, ApprovalFails, AfterApprovalError, ReceiptFails, Return
<1>2. OthersKeep(call, t) /\ call'[t].stage = "idle" /\ ~Deciding(t)'
  BY <1>1, CallMoves, IdleCall DEF CallsOK, Deciding
<1> QED
  BY <1>2, OverKeeps DEF NotDecided, AfterError

\* Decide goes on with the request and the effect it has.
LEMMA ContinueKeeps ==
    ASSUME CallsOK, JobInv, [Next]_vars, NEW t \in Threads, Continue(t)
    PROVE  JobInv'
<1>1. /\ OthersKeep(call, t) /\ Deciding(t) /\ Deciding(t)'
      /\ call'[t].effect = call[t].effect
  <2> USE DEF CallsOK, Deciding
  <2>1. CASE AskApproval(t)
    BY <2>1, CallMoves DEF AskApproval
  <2>2. CASE FindApproval(t)
    BY <2>2, CallFinds DEF FindApproval
  <2>3. CASE ApprovalCreated(t)
    BY <2>3, DraftedId, CallFinds DEF ApprovalCreated, TypeOK, OneStoreAtATime
  <2>4. CASE WriteReceipt(t)
    BY <2>4, CallMoves DEF WriteReceipt
  <2> QED
    BY <2>1, <2>2, <2>3, <2>4 DEF Continue
<1>2. JobOK(t) /\ JobType /\ UNCHANGED job
  BY DEF Continue, JobInv
<1>3. job[t] \in Waiting /\ job[t] \notin Refusal \cup Reply
  BY <1>1, <1>2 DEF JobOK, Waiting, Refusal, Reply
<1>4. JobOK(t)' /\ JobType' /\ OthersKeep(job, t)
  BY <1>1, <1>2, <1>3 DEF JobOK, JobType, OthersKeep
<1> QED
  BY <1>1, <1>4, OneJobMoves

\* A caller that leaves, a child that ends and an answer that is delivered
\* change the job alone.
LEMMA JobsKeep ==
    ASSUME CallsOK, JobInv, [Next]_vars, NEW t \in Threads,
           ClientLeaves(t) \/ ChildEnds(t) \/ Deliver(t)
    PROVE  JobInv'
<1>1. call' = call /\ OthersKeep(call, t) /\ (Deciding(t)' <=> Deciding(t))
  BY DEF ClientLeaves, ChildEnds, Deliver, vars, OthersKeep, Deciding
<1>2. JobType /\ JobOK(t)
  BY DEF JobInv
<1>3. CASE ClientLeaves(t)
  <2> DEFINE j == [job[t] EXCEPT !.stage = "left"]
  <2>1. job[t] \in Waiting
    BY <1>2, <1>3, JobKinds DEF ClientLeaves
  <2>2. j \in Waiting /\ j.barred = job[t].barred
    BY <2>1 DEF Waiting
  <2> HIDE DEF j
  <2>3. JobType' /\ job'[t] = j /\ OthersKeep(job, t)
    BY <1>2, <1>3, <2>2, JobMoves DEF ClientLeaves, j
  <2>4. j \notin Refusal \cup Reply
    BY <2>2 DEF Waiting, Refusal, Reply
  <2>5. JobOK(t)'
    BY <1>1, <1>2, <2>1, <2>2, <2>3, <2>4 DEF JobOK
  <2> QED
    BY <1>1, <2>3, <2>5, OneJobMoves
<1>4. CASE ChildEnds(t)
  <2>1. PICK code \in ChildCodes \cup {1, 255} :
           Becomes(t, [job[t] EXCEPT !.stage = "answer", !.code = code])
    BY <1>4 DEF ChildEnds
  <2> DEFINE j == [job[t] EXCEPT !.stage = "answer", !.code = code]
  <2>2. Stage(t) = "runs" /\ job[t] \in Reply
    BY <1>2, <1>4, JobKinds DEF ChildEnds
  <2>3. code \in 0 .. 255 /\ code \in Nat
    BY CallerAssumption
  <2>4. /\ j \in Reply /\ j.stage = "answer" /\ j.kind = job[t].kind /\ j.req = job[t].req
        /\ j.effect = job[t].effect /\ j.approval = job[t].approval
        /\ j.receipt = job[t].receipt /\ j.barred = job[t].barred /\ j.code = code
    BY <2>2, <2>3 DEF Reply
  <2> HIDE DEF j
  <2>5. JobType' /\ job'[t] = j /\ OthersKeep(job, t)
    BY <1>2, <2>1, <2>4, JobMoves DEF j
  <2>6. j \notin Waiting \cup Refusal
    BY <2>4 DEF Waiting, Refusal, Reply
  <2>7. /\ job[t].effect = "allow" /\ Backed(job[t]) /\ Cites(job[t])
        /\ job[t].kind \in KindsOf(t) /\ ~job[t].barred /\ ~Deciding(t)
        /\ job[t].kind = "tool"
    <3>1. job[t] \notin Waiting /\ job[t].barred \in BOOLEAN
      BY <2>2 DEF Waiting, Reply
    <3> QED
      BY <1>2, <2>2, <3>1 DEF JobOK, GoesAhead
  <2>8. receipts' = receipts /\ told' = told
    BY <1>4 DEF ChildEnds, vars, auditVars, approvalVars
  <2>9. Backed(job[t])' /\ Cites(job[t])'
    BY <2>4, <2>5, <2>7, <2>8 DEF Backed, Cites
  <2>10. (job[t].kind \in KindsOf(t))'
    BY <2>4, <2>5, <2>7 DEF KindsOf
  <2>11. /\ job'[t] \notin Waiting \cup Refusal /\ ~Deciding(t)'
         /\ ~job'[t].barred /\ Stage(t)' # "runs" /\ job'[t].effect = "allow"
         /\ Answered(job[t])'
    BY <1>1, <2>3, <2>4, <2>5, <2>6, <2>7 DEF Stage, Answered
  <2>12. JobOK(t)'
    BY <2>9, <2>10, <2>11 DEF JobOK
  <2> QED
    BY <1>1, <2>5, <2>12, OneJobMoves
<1>5. CASE Deliver(t)
  <2>1. ~Deciding(t)
    BY <1>2, <1>5, JobKinds DEF Deliver, JobOK
  <2> QED
    BY <1>1, <1>5, <2>1, OverKeeps DEF Deliver
<1> QED
  BY <1>3, <1>4, <1>5

\* The operator's calls are no calls of Decide, and no caller waits for them.
LEMMA OperateKeeps ==
    ASSUME CallsOK, JobInv, [Next]_vars, NEW t \in Threads, Operate(t)
    PROVE  JobInv'
<1>1. JobType /\ JobOK(t) /\ UNCHANGED job /\ Stage(t) = "none"
  BY DEF Operate, JobInv
<1>2. ~Deciding(t) /\ job[t] \notin Waiting \cup Refusal \cup Reply
  BY <1>1, JobKinds DEF JobOK
<1>3. OthersKeep(call, t) /\ ~Deciding(t)'
  BY CallMoves, IdleCall
  DEF Operate, Review, Revise, ResolveApproval, Resolved, ChangeRevocation,
      RevocationChanged, Return, CallsOK, CallOK, OthersKeep, Deciding, Idle
<1>4. JobOK(t)' /\ JobType' /\ OthersKeep(job, t)
  BY <1>1, <1>2, <1>3 DEF JobOK, JobType, OthersKeep
<1> QED
  BY <1>3, <1>4, OneJobMoves

LEMMA DieKeeps ==
    ASSUME CallsOK, JobInv, [Next]_vars, NEW p \in Procs, Die(p)
    PROVE  JobInv'
<1>1. /\ job' = [t \in Threads |-> IF ProcOf[t] = p THEN NoJob ELSE job[t]]
      /\ call' = [t \in Threads |-> IF ProcOf[t] = p THEN Idle ELSE call[t]]
  BY DEF Die, Crash
<1>2. JobType'
  BY <1>1 DEF JobInv, JobType
<1>3. ASSUME NEW t \in Threads PROVE JobOK(t)'
  <2>1. CASE ProcOf[t] = p
    <3>1. job'[t] = NoJob /\ ~Deciding(t)'
      BY <1>1, <2>1, IdleCall DEF Deciding
    <3>2. NoJob \notin Waiting \cup Refusal \cup Reply
      BY DEF NoJob, Waiting, Refusal, Reply
    <3> QED
      BY <3>1, <3>2 DEF JobOK
  <2>2. CASE ProcOf[t] # p
    BY <1>1, <2>2, JobKept DEF JobInv
  <2> QED
    BY <2>1, <2>2
<1> QED
  BY <1>2, <1>3 DEF JobInv

LEMMA JobInductive ==
    ASSUME CallsOK, CiteInv, JobInv, RP!TypeOK, RP!HoldInv, [CallersNext]_allVars
    PROVE  JobInv'
<1>0. [Next]_vars
  BY CallersStep
<1>1. ASSUME NEW t \in Threads, NEW req \in Requests, Ask(t, req) PROVE JobInv'
  BY <1>0, <1>1, AskKeeps
<1>2. ASSUME NEW t \in Threads, AskFails(t) PROVE JobInv'
  <2>1. UNCHANGED call /\ Stage(t) = "none"
    BY <1>2 DEF AskFails, EvaluateFails, ReadOnly, vars
  <2>2. OthersKeep(call, t) /\ ~Deciding(t)
    BY <2>1, JobKinds DEF OthersKeep, JobInv, JobOK
  <2> QED
    BY <1>0, <1>2, <2>1, <2>2, OverKeeps DEF AskFails, Deciding
<1>3. ASSUME NEW t \in Threads, Continue(t) PROVE JobInv'
  BY <1>0, <1>3, ContinueKeeps
<1>4. ASSUME NEW t \in Threads, Decided(t) PROVE JobInv'
  BY <1>0, <1>4, DecidedKeeps
<1>5. ASSUME NEW t \in Threads, NotDecided(t) PROVE JobInv'
  BY <1>0, <1>5, NotDecidedKeeps
<1>6. ASSUME NEW t \in Threads, ClientLeaves(t) \/ ChildEnds(t) \/ Deliver(t)
      PROVE  JobInv'
  BY <1>0, <1>6, JobsKeep
<1>7. ASSUME NEW t \in Threads, Operate(t) PROVE JobInv'
  BY <1>0, <1>7, OperateKeeps
<1>8. ASSUME UNCHANGED <<call, job>> PROVE JobInv'
  BY <1>0, <1>8, JobKept DEF JobInv, JobType
<1>9. ASSUME NEW p \in Procs, Die(p) PROVE JobInv'
  BY <1>0, <1>9, DieKeeps
<1>10. CASE UNCHANGED allVars
  BY <1>8, <1>10 DEF allVars, vars
<1>11. ASSUME NEW t \in Threads, Inspect(t) PROVE JobInv'
  BY <1>8, <1>11 DEF Inspect, ReadOnly, vars
<1> QED
  BY <1>1, <1>2, <1>3, <1>4, <1>5, <1>6, <1>7, <1>9, <1>10, <1>11 DEF CallersNext

\* What holds of the gateway and of its stores holds with its callers.
LEMMA JobAlways ==
    CallersSpec => [](CallsOK /\ CiteInv /\ AP!AckInv /\ PP!ToldInv /\ JobInv)
<1>1. CallersSpec => Steps
  BY CallersStep, PTL DEF CallersSpec, CallersInit, Steps
<1>2. Steps => [](CallsOK /\ CiteInv /\ AP!AckInv /\ PP!ToldInv /\ RP!TypeOK /\ RP!HoldInv)
  BY CiteAlways, StoresHold, PTL
<1>3. CallersInit => JobInv
  <2> SUFFICES ASSUME CallersInit PROVE JobInv
    OBVIOUS
  <2>1. JobType /\ \A t \in Threads : job[t] = NoJob /\ ~Deciding(t)
    BY IdleCall DEF CallersInit, Init, JobType, Deciding
  <2>2. NoJob \notin Waiting \cup Refusal \cup Reply
    BY DEF NoJob, Waiting, Refusal, Reply
  <2> QED
    BY <2>1, <2>2 DEF JobInv, JobOK
<1>4. CallsOK /\ CiteInv /\ RP!TypeOK /\ RP!HoldInv /\ JobInv /\ [CallersNext]_allVars
        => JobInv'
  BY JobInductive
<1> QED
  BY <1>1, <1>2, <1>3, <1>4, PTL DEF CallersSpec

-----------------------------------------------------------------------------
\* Handlers and commands, whoever leaves and whatever dies, use the gateway
\* as its module says and the three logs as theirs say: what is proved of the
\* stores by themselves holds of the whole system.
THEOREM SystemRuns == CallersSpec => [][Next]_vars /\ A!Spec /\ P!Spec /\ R!Spec
<1>1. CallersSpec => Steps
  BY CallersStep, PTL DEF CallersSpec, CallersInit, Steps
<1> QED
  BY <1>1, StepsOfStores, PTL DEF Steps

\* A caller waits exactly while its call of Decide is in progress, a handler
\* answers 200 or 400, a command exits with a code from 0 to 255, and only
\* tool and wrap run a command.
THEOREM CallersTyped == CallersSpec => []CallersTypeOK
<1>1. CallsOK /\ JobInv => CallersTypeOK
  <2> SUFFICES ASSUME CallsOK, JobInv, NEW t \in Threads
               PROVE  /\ Stage(t) \in {"none", "asked", "left", "answer", "runs"}
                      /\ Stage(t) \in {"asked", "left"}
                            <=> InProgress(t) /\ call[t].stage \notin {"resolving", "revoking"}
                      /\ Stage(t) \in {"answer", "runs"} => job[t].kind \in KindsOf(t)
                      /\ Stage(t) = "answer" =>
                            IF job[t].kind = "http"
                            THEN job[t].code = IF job[t].effect = "" THEN 400 ELSE 200
                            ELSE job[t].code \in 0 .. 255
                      /\ Stage(t) = "runs" => job[t].kind = "tool"
    BY DEF CallersTypeOK
  <2>1. JobType /\ JobOK(t) /\ CallOK
    BY DEF JobInv, CallsOK
  <2>2. job[t] \in {NoJob} \cup Waiting \cup Refusal \cup Reply
    BY <2>1 DEF JobType
  <2>3. Deciding(t) <=> InProgress(t) /\ call[t].stage \notin {"resolving", "revoking"}
    BY <2>1, IdleCall DEF CallOK, DecideCall, OtherCall, Deciding
  <2>4. Stage(t) = "answer" =>
           IF job[t].kind = "http"
           THEN job[t].code = IF job[t].effect = "" THEN 400 ELSE 200
           ELSE job[t].code \in 0 .. 255
    <3> SUFFICES ASSUME Stage(t) = "answer"
                 PROVE  IF job[t].kind = "http"
                        THEN job[t].code = IF job[t].effect = "" THEN 400 ELSE 200
                        ELSE job[t].code \in 0 .. 255
      OBVIOUS
    <3>1. job[t] \in Refusal \cup Reply
      BY <2>1, JobKinds
    <3>2. CASE job[t] \in Refusal
      <4>1. job[t].effect = "" /\ job[t].code = ErrorCode(job[t].kind)
        BY <2>1, <3>2, JobKinds DEF JobOK
      <4>2. CASE job[t].kind = "http"
        BY <4>1, <4>2 DEF ErrorCode
      <4>3. CASE job[t].kind # "http"
        <5>1. job[t].code = 1
          BY <4>1, <4>3 DEF ErrorCode
        <5> QED
          BY <4>3, <5>1
      <4> QED
        BY <4>2, <4>3
    <3>3. CASE job[t] \in Reply
      <4>1. job[t].effect # "" /\ Answered(job[t])
        BY <2>1, <3>3 DEF JobOK, Reply
      <4> QED
        BY <4>1 DEF Answered
    <3> QED
      BY <3>1, <3>2, <3>3
  <2> QED
    BY <2>1, <2>2, <2>3, <2>4, JobKinds DEF JobOK
<1> QED
  BY <1>1, JobAlways, PTL

\* A receipt that Record returned is on record.
LEMMA BackedIsRecorded ==
    ASSUME AP!AckInv, NEW j, Backed(j)
    PROVE  Recorded(j.receipt, j.req, j.effect)
<1>1. PICK r \in receipts : r.id = j.receipt /\ r.text.req = j.req /\ r.text.effect = j.effect
  BY DEF Backed
<1>2. A!Scans(auditLog) => \E i \in DOMAIN auditLog : auditLog[i].event = r
  BY AuditSame DEF AP!AckInv, AP!InFile
<1> QED
  BY <1>1, <1>2 DEF Recorded

\* Nothing is executed without an allow on record for its request.
THEOREM NothingUnrecorded == CallersSpec => []NothingRunsUnrecorded
<1>1. AP!AckInv /\ JobInv => NothingRunsUnrecorded
  <2> SUFFICES ASSUME AP!AckInv, JobInv, NEW t \in Threads, GoesAhead(t)
               PROVE  Recorded(job[t].receipt, job[t].req, "allow")
    BY DEF NothingRunsUnrecorded
  <2>1. job[t] \in Reply
    BY JobKinds DEF JobInv
  <2>2. Backed(job[t]) /\ job[t].effect = "allow"
    BY <2>1 DEF JobInv, JobOK
  <2> QED
    BY <2>2, BackedIsRecorded
<1> QED
  BY <1>1, JobAlways, PTL

\* No handler or command answers allow to a request that a standing
\* revocation named, by an id that JSON keeps, when it was made; nor does one
\* start or exit as after an allow.
THEOREM RevokedStops == CallersSpec => []RevokedNeverRuns
<1>1. JobInv => RevokedNeverRuns
  BY JobKinds DEF JobInv, JobOK, RevokedNeverRuns
<1> QED
  BY <1>1, JobAlways, PTL

\* The receipt and the approval of an answer are in the logs when it is
\* given, to clients that wait and to those that have left.
THEOREM AnswersHold == CallersSpec => []RepliesHold
<1>1. AP!AckInv /\ PP!ToldInv /\ JobInv => RepliesHold
  <2> SUFFICES ASSUME AP!AckInv, PP!ToldInv, JobInv, NEW t \in Threads,
                      Stage(t) = "answer", job[t].effect # ""
               PROVE  /\ Recorded(job[t].receipt, job[t].req, job[t].effect)
                      /\ job[t].effect = "approval_required" /\ P!Loads(approvalLog) =>
                            P!CreationsOf(approvalLog, job[t].approval) # {}
    BY DEF RepliesHold
  <2>1. job[t] \in Reply
    BY JobKinds DEF JobInv
  <2>2. Backed(job[t]) /\ Cites(job[t])
    BY <2>1 DEF JobInv, JobOK
  <2>3. Recorded(job[t].receipt, job[t].req, job[t].effect)
    BY <2>2, BackedIsRecorded
  <2>4. ASSUME job[t].effect = "approval_required", P!Loads(approvalLog)
        PROVE  P!CreationsOf(approvalLog, job[t].approval) # {}
    <3>1. PICK a \in told : a.id = job[t].approval
      BY <2>2, <2>4 DEF Cites
    <3>2. PP!Scans(approvalLog)
      BY <2>4, ApprovalSame DEF PP!Loads
    <3>3. PP!CreationsOf(approvalLog, a.id) # {}
      BY <3>2 DEF PP!ToldInv
    <3> QED
      BY <3>1, <3>3, ApprovalSame
  <2> QED
    BY <2>3, <2>4
<1> QED
  BY <1>1, JobAlways, PTL

-----------------------------------------------------------------------------
(* What the logs promise by themselves holds of the system *)

\* The commands and handlers run the logs as AuditProofs, ApprovalProofs and
\* RevocationProofs know them.
LEMMA LogsAlone == CallersSpec => AP!Spec /\ PP!Spec /\ RP!Spec
<1>1. CallersSpec => Steps
  BY CallersStep, PTL DEF CallersSpec, CallersInit, Steps
<1> QED
  BY <1>1, StoresAlone, PTL

LEMMA OneServerRuns ==
    ASSUME A!OneProcess
    PROVE  AP!OneProcess /\ AP!Faithful /\ PP!OneProcess
BY DEF A!OneProcess, AP!OneProcess, PP!OneProcess, AP!Faithful

\* Whatever the server, the commands and the operators do at the same time,
\* and whichever of them dies: a lost receipt shows in Verify, the approval
\* log loads while it decodes, a revocation that Revoke reported blocks every
\* reader and one that was restored blocks nobody, a field left empty is
\* revoked by "all" alone, and a damaged revocation log stays closed.
THEOREM LogsStand ==
    CallersSpec =>
        /\ []A!LossIsVisible /\ []P!DecodingLogLoads
        /\ []R!RevokedBlocks /\ []R!RestoreReleases /\ []R!NamelessNotBlocked
        /\ R!StaysClosed
<1>1. AP!Spec => []AP!LossIsVisible
  BY StoresAssume, ThreadAssumption, AP!NoSilentLoss
<1>2. PP!Spec => []PP!DecodingLogLoads
  BY ThreadAssumption, StoresAssume, PP!LogLoads
<1>3. RP!Spec => /\ []RP!RevokedBlocks /\ []RP!RestoreReleases
                 /\ []RP!NamelessNotBlocked /\ RP!StaysClosed
  BY ThreadAssumption, StoresAssume, BoundAssumption, RP!RevocationHolds, RP!RestorationHolds,
     RP!NamelessAreFree, RP!DamageStaysClosed, PTL
<1>4. AP!LossIsVisible => A!LossIsVisible
  BY AuditSame
  DEF AP!LossIsVisible, A!LossIsVisible, AP!Certified, A!Certified, AP!Intact, A!Intact,
      AP!HashOf, A!HashOf, AP!Linked, A!Linked, AP!Events, A!Events, AP!NoHash, A!NoHash
<1>5. PP!DecodingLogLoads => P!DecodingLogLoads
  BY ApprovalSame DEF PP!DecodingLogLoads, P!DecodingLogLoads
<1>6. RP!RevokedBlocks => R!RevokedBlocks
  BY RevocationSame DEF RP!RevokedBlocks, R!RevokedBlocks, RP!Legible, R!Legible, RP!Read, R!Read
<1>7. RP!RestoreReleases => R!RestoreReleases
  BY DEF RP!RestoreReleases, R!RestoreReleases, RP!ActiveIn, R!ActiveIn, RP!Decides,
         R!Decides, RP!Read, R!Read, RP!Scans, R!Scans
<1>8. RP!NamelessNotBlocked => R!NamelessNotBlocked
  BY DEF RP!NamelessNotBlocked, R!NamelessNotBlocked, RP!ActiveIn, R!ActiveIn,
         RP!Decides, R!Decides, RP!Read, R!Read, RP!Covers, R!Covers
<1>9. RP!StaysClosed => R!StaysClosed
  <2>1. [~RP!Scans(revocationLog) => ~RP!Scans(revocationLog)']_(RP!vars)
          => [~R!Scans(revocationLog) => ~R!Scans(revocationLog)']_(R!vars)
    BY DEF RP!Scans, R!Scans, RP!vars, R!vars
  <2> QED
    BY <2>1, PTL DEF RP!StaysClosed, R!StaysClosed
<1> QED
  BY <1>1, <1>2, <1>3, <1>4, <1>5, <1>6, <1>7, <1>8, <1>9, LogsAlone, PTL

\* With one server, and operators who use its API, the logs keep all they
\* promise: one chain of receipts that Verify certifies while it decodes, one
\* pending approval per request id, one verdict per approval, which stands
\* and is final, and what callers were told.
THEOREM OneServerKeeps ==
    ASSUME A!OneProcess
    PROVE  CallersSpec =>
              /\ []A!ChainLinked /\ []A!DamageOnlyAtTail /\ []A!VerifyAcceptsOwn
              /\ []P!OnePendingPerRequest /\ []P!OneVerdict /\ []P!AnswersStand
              /\ P!ResolutionIsFinal
<1>1. AP!Spec => []AP!ChainLinked /\ []AP!DamageOnlyAtTail /\ []AP!VerifyAcceptsOwn
  BY OneServerRuns, StoresAssume, ThreadAssumption, AP!ChainIsLinked,
     AP!DamageStaysAtTail, AP!NoFalseAlarm, PTL
<1>2. PP!Spec => []PP!OnePendingPerRequest
  BY OneServerRuns, ThreadAssumption, StoresAssume, PP!OnePendingAtATime
<1>3. PP!Spec => []PP!OneVerdict
  BY OneServerRuns, ThreadAssumption, StoresAssume, PP!VerdictIsOne
<1>4. PP!Spec => []PP!AnswersStand
  BY OneServerRuns, ThreadAssumption, StoresAssume, PP!ToldStands
<1>5. PP!Spec => PP!ResolutionIsFinal
  BY OneServerRuns, ThreadAssumption, StoresAssume, PP!VerdictIsFinal
<1>6. /\ AP!ChainLinked => A!ChainLinked
      /\ AP!DamageOnlyAtTail => A!DamageOnlyAtTail
      /\ AP!VerifyAcceptsOwn => A!VerifyAcceptsOwn
  BY AuditSame
  DEF AP!ChainLinked, A!ChainLinked, AP!DamageOnlyAtTail, A!DamageOnlyAtTail,
      AP!VerifyAcceptsOwn, A!VerifyAcceptsOwn, AP!Certified, A!Certified, AP!Intact,
      A!Intact, AP!HashOf, A!HashOf, AP!Linked, A!Linked, AP!Events, A!Events,
      AP!NoHash, A!NoHash
<1>7. PP!OnePendingPerRequest => P!OnePendingPerRequest
  <2>1. \A rid : PP!PendingFor(approvalLog, rid) = P!PendingFor(approvalLog, rid)
    BY ApprovalSame
    DEF PP!PendingFor, P!PendingFor, PP!CreationOf, P!CreationOf, PP!Last, P!Last
  <2>2. \A S : PP!Cardinality(S) = P!Cardinality(S)
    BY DEF PP!Cardinality, P!Cardinality
  <2> QED
    BY <2>1, <2>2, ApprovalSame DEF PP!OnePendingPerRequest, P!OnePendingPerRequest
<1>8. PP!OneVerdict => P!OneVerdict
  BY DEF PP!OneVerdict, P!OneVerdict
<1>9. PP!AnswersStand => P!AnswersStand
  BY ApprovalSame DEF PP!AnswersStand, P!AnswersStand, PP!CreationOf, P!CreationOf,
                      PP!Last, P!Last
<1>10. PP!ResolutionIsFinal => P!ResolutionIsFinal
  <2>1. [PP!Loads(approvalLog) /\ PP!Loads(approvalLog)' =>
           \A id \in ApprovalIds :
               /\ PP!StatusOf(approvalLog, id) \in PP!Verdicts =>
                     PP!StatusOf(approvalLog, id)' = PP!StatusOf(approvalLog, id)
               /\ PP!StatusOf(approvalLog, id) = "pending" =>
                     PP!StatusOf(approvalLog, id)' # "absent"]_(PP!vars)
          => [P!Loads(approvalLog) /\ P!Loads(approvalLog)' =>
                \A id \in ApprovalIds :
                    /\ P!StatusOf(approvalLog, id) \in P!Verdicts =>
                          P!StatusOf(approvalLog, id)' = P!StatusOf(approvalLog, id)
                    /\ P!StatusOf(approvalLog, id) = "pending" =>
                          P!StatusOf(approvalLog, id)' # "absent"]_(P!vars)
    BY DEF P!vars, PP!vars, P!Last, PP!Last, P!StatusOf, PP!StatusOf, P!EventsOf,
           PP!EventsOf, P!CreationsOf, PP!CreationsOf, P!Loads, PP!Loads, P!Scans,
           PP!Scans, P!Orderly, PP!Orderly, P!Verdicts, PP!Verdicts
  <2> QED
    BY <2>1, PTL DEF PP!ResolutionIsFinal, P!ResolutionIsFinal
<1> QED
  BY <1>1, <1>2, <1>3, <1>4, <1>5, <1>6, <1>7, <1>8, <1>9, <1>10, LogsAlone, PTL

\* With one server, what readers are given of its audit and approval logs is
\* a run of the promised chain and of the promised lifecycle, whatever its
\* callers do.
THEOREM OneServerImplements ==
    ASSUME A!OneProcess, Unreadable \notin Seq(A!Receipt), PP!ErrorIsNoView
    PROVE  CallersSpec => A!ImplementsChain /\ P!ImplementsLifecycle
<1>1. Unreadable \notin Seq(AP!Receipt)
  BY DEF AP!Receipt, A!Receipt, AP!Hashes, A!Hashes
<1>2. AP!Spec => AP!ImplementsChain
  BY <1>1, OneServerRuns, StoresAssume, ThreadAssumption, AP!Implements
<1>3. PP!Spec => PP!ImplementsLifecycle
  BY OneServerRuns, ThreadAssumption, StoresAssume, PP!Implements
<1>4. /\ AP!View = A!View /\ AP!View' = A!View'
      /\ PP!View = P!View /\ PP!View' = P!View'
  BY DEF AP!View, A!View, AP!Scans, A!Scans, AP!Events, A!Events, PP!View, P!View,
         PP!CreationOf, P!CreationOf, PP!CreationsOf, P!CreationsOf, PP!Last, P!Last,
         PP!StatusOf, P!StatusOf, PP!EventsOf, P!EventsOf, PP!Loads, P!Loads,
         PP!Scans, P!Scans, PP!Orderly, P!Orderly, PP!Verdicts, P!Verdicts
<1>5. AP!ImplementsChain => A!ImplementsChain
  <2>1. /\ AP!Chain!Init => A!Chain!Init
        /\ [AP!Chain!Next]_(AP!View) => [A!Chain!Next]_(A!View)
    BY <1>4
    DEF AP!Chain!Init, A!Chain!Init, AP!Chain!Next, A!Chain!Next, AP!Chain!Extend,
        A!Chain!Extend, AP!Chain!Break, A!Chain!Break, AP!Chain!TailHash,
        A!Chain!TailHash, AP!Chain!HashOf, A!Chain!HashOf, AP!Chain!NoHash,
        A!Chain!NoHash
  <2> QED
    BY <2>1, PTL DEF AP!ImplementsChain, A!ImplementsChain, AP!Chain!Spec, A!Chain!Spec
<1>6. PP!ImplementsLifecycle => P!ImplementsLifecycle
  <2>1. /\ PP!Lifecycle!Init => P!Lifecycle!Init
        /\ [PP!Lifecycle!Next]_(PP!View) => [P!Lifecycle!Next]_(P!View)
    BY <1>4
    DEF PP!Lifecycle!Init, P!Lifecycle!Init, PP!Lifecycle!Next, P!Lifecycle!Next,
        PP!Lifecycle!Create, P!Lifecycle!Create, PP!Lifecycle!Settle,
        P!Lifecycle!Settle, PP!Lifecycle!Break, P!Lifecycle!Break,
        PP!Lifecycle!Absent, P!Lifecycle!Absent, PP!Lifecycle!Pending,
        P!Lifecycle!Pending, PP!Lifecycle!Verdicts, P!Lifecycle!Verdicts
  <2> QED
    BY <2>1, PTL DEF PP!ImplementsLifecycle, P!ImplementsLifecycle, PP!Lifecycle!Spec,
                     P!Lifecycle!Spec
<1> QED
  BY <1>2, <1>3, <1>5, <1>6, LogsAlone, PTL
=============================================================================
