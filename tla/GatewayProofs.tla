---------------------------- MODULE GatewayProofs ---------------------------
(***************************************************************************)
(* Theorems about the gateway.  The stores of Gateway are instances of     *)
(* Audit, Approval and Revocation; the theorems about those modules are    *)
(* instantiated here in the same way (AP, PP, RP), so that what is proved  *)
(* of a store by itself holds of it inside the gateway.                    *)
(***************************************************************************)
EXTENDS Gateway, TLAPS

AP == INSTANCE AuditProofs WITH
        log <- auditLog, draft <- auditDraft, acked <- receipts,
        Ids <- ReceiptIds, Texts <- Text,
        LongTexts <- {x \in Text : x.req \in LongReceipts},
        ReadBack <- [x \in Text |-> x]

PP == INSTANCE ApprovalProofs WITH
        log <- approvalLog, draft <- approvalDraft,
        Ids <- ApprovalIds, Shapes <- Requests, LongShapes <- LongApprovals

RP == INSTANCE RevocationProofs WITH
        log <- revocationLog, draft <- revocationDraft,
        Requests <- {q.names : q \in Requests}

LongText == {x \in Text : x.req \in LongReceipts}

\* What the modules of the stores assume of their constants.
LEMMA StoresAssume ==
    /\ LongText \subseteq Text /\ [x \in Text |-> x] \in [Text -> Text]
    /\ {x \in Text : x.req \in LongReceipts} \subseteq Text
    /\ LongApprovals \subseteq Requests
    /\ Decoded[RP!AnyId] = RP!AnyId
    /\ \A g \in Targets : Trimmed[g.id] # Blank => Decoded[Trimmed[g.id]] # Blank
BY LongAssumption, DecodedAssumption DEF LongText, R!AnyId, RP!AnyId

-----------------------------------------------------------------------------
(* The instances are the same stores *)

LEMMA AuditSame ==
    /\ A!Init <=> AP!Init
    /\ A!TypeOK <=> AP!TypeOK
    /\ A!vars = AP!vars
    /\ A!Next <=> AP!Next
    /\ \A t \in Threads, text \in Text : A!Record(t, text) <=> AP!Record(t, text)
    /\ \A t \in Threads, text \in Text :
          A!Line(A!NewReceipt(text), text \notin LongText)
            = AP!Line(AP!NewReceipt(text), text \notin LongText)
    /\ \A f : A!Scans(f) <=> AP!Scans(f)
    /\ \A t \in Threads : A!Writing(t) <=> AP!Writing(t)
    /\ A!Lines(A!Receipt) = AP!Lines(AP!Receipt)
<1> USE DEF A!Line, A!Lines, A!Ragged, A!Garble, A!AppendLine, A!CutAppend, A!Scans,
      A!Events, A!StoreInit, A!Writing, A!Peers, A!LockFree, A!Begin, A!Release,
      A!Commit, A!Fail, A!Views, A!Halt, A!Hashes, A!NoHash, A!HashOf, A!Receipt,
      A!TailHash, A!vars, A!Init, A!Minted, A!NewId, A!NewReceipt, A!Decodes,
      A!Record, A!RecordDone, A!RecordFails, A!ReadFails, A!Read, A!Crash, A!Next,
      A!Mutex, A!TypeOK, LongText
<1> USE DEF AP!Line, AP!Lines, AP!Ragged, AP!Garble, AP!AppendLine, AP!CutAppend,
      AP!Scans, AP!Events, AP!StoreInit, AP!Writing, AP!Peers, AP!LockFree, AP!Begin,
      AP!Release, AP!Commit, AP!Fail, AP!Views, AP!Halt, AP!Hashes, AP!NoHash,
      AP!HashOf, AP!Receipt, AP!TailHash, AP!vars, AP!Init, AP!Minted, AP!NewId,
      AP!NewReceipt, AP!Decodes, AP!Record, AP!RecordDone, AP!RecordFails,
      AP!ReadFails, AP!Read, AP!Crash, AP!Next,
      AP!Mutex, AP!TypeOK
<1>1. A!Next <=> AP!Next
  OBVIOUS
<1>2. /\ A!Init <=> AP!Init
      /\ A!TypeOK <=> AP!TypeOK
      /\ A!vars = AP!vars
  OBVIOUS
<1>3. \A t \in Threads, text \in Text : A!Record(t, text) <=> AP!Record(t, text)
  OBVIOUS
<1>4. \A t \in Threads, text \in Text :
          A!Line(A!NewReceipt(text), text \notin LongText)
            = AP!Line(AP!NewReceipt(text), text \notin LongText)
  OBVIOUS
<1>5. /\ \A f : A!Scans(f) <=> AP!Scans(f)
      /\ \A t \in Threads : A!Writing(t) <=> AP!Writing(t)
      /\ A!Lines(A!Receipt) = AP!Lines(AP!Receipt)
  OBVIOUS
<1> HIDE DEF A!Next, A!Init, A!TypeOK, A!vars, A!Record, A!Line, A!NewReceipt,
      A!Scans, A!Writing, A!Lines, A!Receipt, AP!Next, AP!Init, AP!TypeOK, AP!vars,
      AP!Record, AP!Line, AP!NewReceipt, AP!Scans, AP!Writing, AP!Lines, AP!Receipt
<1> QED
  BY <1>1, <1>2, <1>3, <1>4, <1>5

LEMMA ApprovalSame ==
    /\ P!Init <=> PP!Init
    /\ P!TypeOK <=> PP!TypeOK
    /\ P!vars = PP!vars
    /\ P!Next <=> PP!Next
    /\ \A t \in Threads, rid \in RequestIds, req \in Requests :
          P!Create(t, rid, req) <=> PP!Create(t, rid, req)
    /\ \A t \in Threads : P!Writing(t) <=> PP!Writing(t)
    /\ \A f : P!Scans(f) <=> PP!Scans(f)
    /\ \A f : P!Loads(f) <=> PP!Loads(f)
    /\ \A f, id : P!StatusOf(f, id) = PP!StatusOf(f, id)
    /\ \A f, id : P!CreationsOf(f, id) = PP!CreationsOf(f, id)
    /\ P!Lines(P!Event) = PP!Lines(PP!Event)
<1> USE DEF P!Line, P!Lines, P!Ragged, P!Garble, P!AppendLine, P!CutAppend, P!Scans,
      P!Events, P!StoreInit, P!Writing, P!Peers, P!LockFree, P!Begin, P!Release,
      P!Commit, P!Fail, P!Views, P!Halt, P!vars, P!Verdicts, P!Created, P!Resolved,
      P!Event, P!Answer, P!Init, P!CreationsOf, P!EventsOf, P!Last, P!StatusOf,
      P!CreationOf, P!PendingFor, P!Orderly, P!Loads, P!Minted, P!NewId,
      P!KnownPending, P!CreateAgain, P!Create, P!MayResolve, P!Resolve, P!Done,
      P!Fails, P!LoadFails, P!ResolveRefused, P!Read, P!Crash, P!Next, P!TypeOK
<1> USE DEF PP!Line, PP!Lines, PP!Ragged, PP!Garble, PP!AppendLine, PP!CutAppend,
      PP!Scans, PP!Events, PP!StoreInit, PP!Writing, PP!Peers, PP!LockFree, PP!Begin,
      PP!Release, PP!Commit, PP!Fail, PP!Views, PP!Halt, PP!vars, PP!Verdicts,
      PP!Created, PP!Resolved, PP!Event, PP!Answer, PP!Init, PP!CreationsOf,
      PP!EventsOf, PP!Last, PP!StatusOf, PP!CreationOf, PP!PendingFor, PP!Orderly,
      PP!Loads, PP!Minted, PP!NewId, PP!KnownPending, PP!CreateAgain, PP!Create,
      PP!MayResolve, PP!Resolve, PP!Done, PP!Fails, PP!LoadFails, PP!ResolveRefused,
      PP!Read, PP!Crash, PP!Next, PP!TypeOK
<1>1. P!Next <=> PP!Next
  OBVIOUS
<1>2. /\ P!Init <=> PP!Init
      /\ P!TypeOK <=> PP!TypeOK
      /\ P!vars = PP!vars
  OBVIOUS
<1>3. \A t \in Threads, rid \in RequestIds, req \in Requests :
          P!Create(t, rid, req) <=> PP!Create(t, rid, req)
  OBVIOUS
<1>4. /\ \A t \in Threads : P!Writing(t) <=> PP!Writing(t)
      /\ \A f : P!Scans(f) <=> PP!Scans(f)
      /\ \A f : P!Loads(f) <=> PP!Loads(f)
      /\ P!Lines(P!Event) = PP!Lines(PP!Event)
  OBVIOUS
<1>5. /\ \A f, id : P!StatusOf(f, id) = PP!StatusOf(f, id)
      /\ \A f, id : P!CreationsOf(f, id) = PP!CreationsOf(f, id)
  OBVIOUS
<1> HIDE DEF P!Next, P!Init, P!TypeOK, P!vars, P!Create, P!Writing, P!Scans, P!Loads,
      P!StatusOf, P!CreationsOf, P!Lines, P!Event, PP!Next, PP!Init, PP!TypeOK,
      PP!vars, PP!Create, PP!Writing, PP!Scans, PP!Loads, PP!StatusOf,
      PP!CreationsOf, PP!Lines, PP!Event
<1> QED
  BY <1>1, <1>2, <1>3, <1>4, <1>5

LEMMA RevocationSame ==
    /\ R!Init <=> RP!Init
    /\ R!TypeOK <=> RP!TypeOK
    /\ R!vars = RP!vars
    /\ R!Next <=> RP!Next
    /\ \A t \in Threads : R!Views(t) = RP!Views(t)
    /\ \A f, names : R!Answer(f, names) = RP!Answer(f, names)
    /\ \A k, names : R!Covers(k, names) <=> RP!Covers(k, names)
    /\ \A g : R!Valid(g) <=> RP!Valid(g)
    /\ \A g : R!KeyOf(g) = RP!KeyOf(g)
    /\ \A k : R!Legible(k) <=> RP!Legible(k)
    /\ R!Lines(R!Event) = RP!Lines(RP!Event)
<1> USE DEF R!Line, R!Lines, R!Ragged, R!Garble, R!AppendLine, R!CutAppend, R!Scans,
      R!Events, R!StoreInit, R!Writing, R!Peers, R!LockFree, R!Begin, R!Release,
      R!Commit, R!Fail, R!Views, R!Halt, R!vars, R!Types, R!AnyId, R!Key, R!Event,
      R!Read, R!Legible, R!Others, R!Init, R!Valid, R!Meant, R!KeyOf, R!Decides, R!ActiveIn, R!Covers, R!Answer,
      R!Revoke, R!Restore, R!Contested, R!Done, R!Fails, R!Match, R!MatchFails,
      R!Refuse, R!Crash, R!Next, R!TypeOK
<1> USE DEF RP!Line, RP!Lines, RP!Ragged, RP!Garble, RP!AppendLine, RP!CutAppend,
      RP!Scans, RP!Events, RP!StoreInit, RP!Writing, RP!Peers, RP!LockFree, RP!Begin,
      RP!Release, RP!Commit, RP!Fail, RP!Views, RP!Halt, RP!vars, RP!Types, RP!AnyId,
      RP!Key, RP!Event, RP!Read, RP!Legible, RP!Others, RP!Init, RP!Valid, RP!Meant, RP!KeyOf, RP!Decides,
      RP!ActiveIn, RP!Covers, RP!Answer, RP!Revoke, RP!Restore, RP!Contested,
      RP!Done, RP!Fails, RP!Match, RP!MatchFails, RP!Refuse, RP!Crash, RP!Next,
      RP!TypeOK
<1>1. R!Next <=> RP!Next
  OBVIOUS
<1>2. /\ R!Init <=> RP!Init
      /\ R!TypeOK <=> RP!TypeOK
      /\ R!vars = RP!vars
  OBVIOUS
<1>3. /\ \A t \in Threads : R!Views(t) = RP!Views(t)
      /\ \A g : R!Valid(g) <=> RP!Valid(g)
      /\ \A g : R!KeyOf(g) = RP!KeyOf(g)
      /\ \A k : R!Legible(k) <=> RP!Legible(k)
      /\ R!Lines(R!Event) = RP!Lines(RP!Event)
  OBVIOUS
<1>4. /\ \A f, names : R!Answer(f, names) = RP!Answer(f, names)
      /\ \A k, names : R!Covers(k, names) <=> RP!Covers(k, names)
  OBVIOUS
<1> HIDE DEF R!Next, R!Init, R!TypeOK, R!vars, R!Views, R!Answer, R!Covers, R!Lines,
      R!Event, R!Valid, R!KeyOf, R!Legible, RP!Next, RP!Init, RP!TypeOK, RP!vars, RP!Views,
      RP!Answer, RP!Covers, RP!Lines, RP!Event, RP!Valid, RP!KeyOf, RP!Legible
<1> QED
  BY <1>1, <1>2, <1>3, <1>4

-----------------------------------------------------------------------------
(* Every step of the gateway is a step of its stores, or none *)

\* A process that dies without a line to write leaves the store as it was.
LEMMA AuditHalts ==
    ASSUME A!TypeOK, NEW p \in Procs, A!Halt(p), receipts' = receipts
    PROVE  [A!Next]_(A!vars)
<1>1. CASE \E t \in Threads : ProcOf[t] = p /\ A!Writing(t)
  BY <1>1 DEF A!Next, A!Crash
<1>2. CASE \A t \in Threads : ProcOf[t] = p => ~A!Writing(t)
  <2>1. auditLog' = auditLog
    BY <1>2 DEF A!Halt
  <2>2. auditDraft' = auditDraft
    BY <1>2 DEF A!Halt, A!Writing, A!TypeOK
  <2> QED
    BY <2>1, <2>2 DEF A!vars
<1> QED
  BY <1>1, <1>2

LEMMA ApprovalHalts ==
    ASSUME P!TypeOK, NEW p \in Procs, P!Halt(p), UNCHANGED <<told, verdicts>>
    PROVE  [P!Next]_(P!vars)
<1>1. CASE \E t \in Threads : ProcOf[t] = p /\ P!Writing(t)
  BY <1>1 DEF P!Next, P!Crash
<1>2. CASE \A t \in Threads : ProcOf[t] = p => ~P!Writing(t)
  <2>1. approvalLog' = approvalLog
    BY <1>2 DEF P!Halt
  <2>2. approvalDraft' = approvalDraft
    BY <1>2 DEF P!Halt, P!Writing, P!TypeOK
  <2> QED
    BY <2>1, <2>2 DEF P!vars
<1> QED
  BY <1>1, <1>2

LEMMA RevocationHalts ==
    ASSUME R!TypeOK, NEW p \in Procs, R!Halt(p), UNCHANGED <<blocked, released>>
    PROVE  [R!Next]_(R!vars)
<1>1. CASE \E t \in Threads : ProcOf[t] = p /\ R!Writing(t)
  BY <1>1 DEF R!Next, R!Crash
<1>2. CASE \A t \in Threads : ProcOf[t] = p => ~R!Writing(t)
  <2>1. revocationLog' = revocationLog
    BY <1>2 DEF R!Halt
  <2>2. revocationDraft' = revocationDraft
    BY <1>2 DEF R!Halt, R!Writing, R!TypeOK
  <2> QED
    BY <2>1, <2>2 DEF R!vars
<1> QED
  BY <1>1, <1>2

\* What a call of Decide has found out, and the operator's calls.
DecideCall ==
    [stage : {"approve", "approving", "record", "recording"}, req : Requests,
     effect : {"allow", "deny", "approval_required", "dry_run"},
     approval : ApprovalIds \cup {NoApproval}]

OtherCall == [stage : {"idle", "resolving", "revoking"}]

CallOK == call \in [Threads -> DecideCall \cup OtherCall]

LEMMA CallOf ==
    ASSUME CallOK, NEW t \in Threads,
           call[t].stage \in {"approve", "approving", "record", "recording"}
    PROVE  /\ call[t] \in DecideCall
           /\ call[t].req \in Requests
           /\ call[t].req.id \in RequestIds
           /\ [req |-> call[t].req, effect |-> call[t].effect,
               approval |-> call[t].approval] \in Text
<1>1. call[t] \in DecideCall \cup OtherCall
  BY DEF CallOK
<1>2. call[t] \in DecideCall
  BY <1>1 DEF OtherCall
<1> QED
  BY <1>2, RequestAssumption DEF DecideCall, Text

StoreStep ==
    [A!Next]_(A!vars) /\ [P!Next]_(P!vars) /\ [R!Next]_(R!vars)

LEMMA StepOfStores ==
    ASSUME A!TypeOK, P!TypeOK, R!TypeOK, CallOK, [Next]_vars
    PROVE  StoreStep
<1> DEFINE SameA == UNCHANGED auditVars
           SameP == UNCHANGED approvalVars
           SameR == UNCHANGED revocationVars
<1>0. /\ SameA => [A!Next]_(A!vars)
      /\ SameP => [P!Next]_(P!vars)
      /\ SameR => [R!Next]_(R!vars)
  BY DEF auditVars, approvalVars, revocationVars, A!vars, P!vars, R!vars
<1>1. ASSUME NEW t \in Threads, NEW req \in Requests, Evaluate(t, req) PROVE StoreStep
  BY <1>0, <1>1 DEF Evaluate, StoreStep
<1>2. ASSUME NEW t \in Threads, EvaluateFails(t) PROVE StoreStep
  BY <1>0, <1>2 DEF EvaluateFails, StoreStep, R!MatchFails
<1>3. ASSUME NEW t \in Threads, AskApproval(t) PROVE StoreStep
  <2>1. [P!Next]_(P!vars)
    BY <1>3, CallOf DEF AskApproval, P!Next
  <2> QED
    BY <1>0, <1>3, <2>1 DEF AskApproval, StoreStep
<1>4. ASSUME NEW t \in Threads, FindApproval(t) PROVE StoreStep
  <2>1. [P!Next]_(P!vars)
    BY <1>4, CallOf DEF FindApproval, P!Next
  <2> QED
    BY <1>0, <1>4, <2>1 DEF FindApproval, StoreStep
<1>5. ASSUME NEW t \in Threads, ApprovalCreated(t) PROVE StoreStep
  BY <1>0, <1>5 DEF ApprovalCreated, StoreStep, P!Next
<1>6. ASSUME NEW t \in Threads, ApprovalFails(t) PROVE StoreStep
  BY <1>0, <1>6 DEF ApprovalFails, StoreStep, P!Next
<1>7. ASSUME NEW t \in Threads, WriteReceipt(t) PROVE StoreStep
  <2>1. [A!Next]_(A!vars)
    BY <1>7, CallOf DEF WriteReceipt, A!Next
  <2> QED
    BY <1>0, <1>7, <2>1 DEF WriteReceipt, StoreStep
<1>8. ASSUME NEW t \in Threads, ReceiptWritten(t) PROVE StoreStep
  BY <1>0, <1>8 DEF ReceiptWritten, StoreStep, A!Next
<1>9. ASSUME NEW t \in Threads, ReceiptFails(t) PROVE StoreStep
  BY <1>0, <1>9 DEF ReceiptFails, CannotRecord, StoreStep, A!Next
<1>10. ASSUME NEW t \in Threads, ResolveApproval(t) PROVE StoreStep
  BY <1>0, <1>10 DEF ResolveApproval, StoreStep, P!Next
<1>11. ASSUME NEW t \in Threads, Resolved(t) PROVE StoreStep
  BY <1>0, <1>11 DEF Resolved, StoreStep, P!Next
<1>12. ASSUME NEW t \in Threads, ChangeRevocation(t) PROVE StoreStep
  BY <1>0, <1>12 DEF ChangeRevocation, StoreStep, R!Next
<1>13. ASSUME NEW t \in Threads, RevocationChanged(t) PROVE StoreStep
  BY <1>0, <1>13 DEF RevocationChanged, StoreStep, R!Next
<1>14. ASSUME NEW p \in Procs, Crash(p) PROVE StoreStep
  BY <1>14, AuditHalts, ApprovalHalts, RevocationHalts DEF Crash, StoreStep
<1>15. ASSUME UNCHANGED vars PROVE StoreStep
  BY <1>0, <1>15 DEF vars, StoreStep
<1> QED
  BY <1>1, <1>2, <1>3, <1>4, <1>5, <1>6, <1>7, <1>8, <1>9, <1>10, <1>11, <1>12,
     <1>13, <1>14, <1>15
  DEF Next, Progress, ReadOnly

-----------------------------------------------------------------------------
(* One store at a time *)

\* The drafts of all threads but t.
OthersKeep(d, t) == \A u \in Threads : u # t => d'[u] = d[u]

LEMMA AuditWrites ==
    ASSUME A!TypeOK, NEW t \in Threads, NEW text \in Text, A!Record(t, text)
    PROVE  /\ A!Writing(t)' /\ auditDraft'[t].event.text = text
           /\ OthersKeep(auditDraft, t)
<1> DEFINE l == A!Line(A!NewReceipt(text), text \notin LongText)
<1>1. l \in A!Lines(A!Receipt)
  <2>2. AP!TypeOK /\ AP!Record(t, text)
    BY AuditSame
  <2>3. AP!Line(AP!NewReceipt(text), text \notin LongText) \in AP!Lines(AP!Receipt)
    BY <2>2, ThreadAssumption, StoresAssume, AP!RecordType DEF LongText
  <2> QED
    BY <2>3, AuditSame
<1>2. auditDraft' = [auditDraft EXCEPT ![t] = l]
  BY DEF A!Record, A!Begin, LongText
<1>3. auditDraft'[t] = l /\ OthersKeep(auditDraft, t)
  BY <1>2 DEF A!TypeOK, OthersKeep
<1>4. l # NoLine
  BY <1>1, NoLineAssumption
<1>5. l.event.text = text
  BY DEF A!Line, A!NewReceipt
<1> QED
  BY <1>3, <1>4, <1>5 DEF A!Writing

LEMMA ApprovalWrites ==
    ASSUME P!TypeOK, NEW t \in Threads, NEW req \in Requests,
           P!Create(t, req.id, req)
    PROVE  /\ P!Writing(t)' /\ approvalDraft'[t].event.status = "pending"
           /\ approvalDraft'[t].event.request_id = req.id
           /\ approvalDraft'[t].event.shape = req
           /\ OthersKeep(approvalDraft, t)
<1> DEFINE l == P!Line(P!Created(P!NewId, req.id, req), req \notin LongApprovals)
<1>1. approvalDraft' = [approvalDraft EXCEPT ![t] = l]
  BY DEF P!Create, P!Begin
<1>2. approvalDraft'[t] = l /\ OthersKeep(approvalDraft, t)
  BY <1>1 DEF P!TypeOK, OthersKeep
<1>3. P!NewId \in ApprovalIds
  <2>1. P!Minted \subseteq ApprovalIds
    <3>1. PP!Minted \subseteq ApprovalIds
      BY ApprovalSame, ThreadAssumption, StoresAssume, PP!MintedType
    <3> QED
      BY <3>1 DEF P!Minted, PP!Minted, P!Writing, PP!Writing
  <2> QED
    BY <2>1 DEF P!Create, P!NewId
<1>4. l \in P!Lines(P!Event)
  BY <1>3, RequestAssumption DEF P!Line, P!Created, P!Lines, P!Event
<1>5. l # NoLine
  BY <1>4, NoLineAssumption
<1> QED
  BY <1>2, <1>5 DEF P!Writing, P!Line, P!Created

LEMMA ResolutionWrites ==
    ASSUME P!TypeOK, NEW t \in Threads, NEW id \in ApprovalIds,
           NEW verdict \in P!Verdicts, P!Resolve(t, id, verdict)
    PROVE  P!Writing(t)' /\ OthersKeep(approvalDraft, t)
<1>1. PICK fits \in BOOLEAN : P!Begin(t, P!Line(P!Resolved(id, verdict), fits))
  BY DEF P!Resolve
<1> DEFINE l == P!Line(P!Resolved(id, verdict), fits)
<1>2. approvalDraft'[t] = l /\ OthersKeep(approvalDraft, t)
  BY <1>1 DEF P!Begin, P!TypeOK, OthersKeep
<1>3. l \in P!Lines(P!Event)
  BY DEF P!Line, P!Resolved, P!Lines, P!Event
<1> QED
  BY <1>2, <1>3, NoLineAssumption DEF P!Writing

LEMMA RevocationWrites ==
    ASSUME R!TypeOK, NEW t \in Threads, NEW g \in Targets,
           R!Revoke(t, g) \/ R!Restore(t, g)
    PROVE  R!Writing(t)' /\ OthersKeep(revocationDraft, t)
<1>1. R!KeyOf(g) \in R!Key
  BY DEF R!Revoke, R!Restore, R!Valid, R!KeyOf, R!Key
<1>2. PICK op \in {"revoke", "restore"}, fits \in BOOLEAN :
         R!Begin(t, R!Line([op |-> op, key |-> R!KeyOf(g)], fits))
  BY DEF R!Revoke, R!Restore
<1> DEFINE l == R!Line([op |-> op, key |-> R!KeyOf(g)], fits)
<1>3. revocationDraft'[t] = l /\ OthersKeep(revocationDraft, t)
  BY <1>2 DEF R!Begin, R!TypeOK, OthersKeep
<1>4. l \in R!Lines(R!Event)
  BY <1>1 DEF R!Line, R!Lines, R!Event
<1> QED
  BY <1>3, <1>4, NoLineAssumption DEF R!Writing

\* A call that ends its append lets go of its store, and of no other call's.
LEMMA Released ==
    ASSUME A!TypeOK, P!TypeOK, R!TypeOK, NEW t \in Threads
    PROVE  /\ A!RecordDone(t) \/ A!RecordFails(t) =>
                 ~A!Writing(t)' /\ OthersKeep(auditDraft, t)
           /\ P!Done(t) \/ P!Fails(t) =>
                 ~P!Writing(t)' /\ OthersKeep(approvalDraft, t)
           /\ R!Done(t) \/ R!Fails(t) =>
                 ~R!Writing(t)' /\ OthersKeep(revocationDraft, t)
<1>1. A!RecordDone(t) \/ A!RecordFails(t) =>
         ~A!Writing(t)' /\ OthersKeep(auditDraft, t)
  BY DEF A!RecordDone, A!RecordFails, A!Commit, A!Fail, A!Release, A!TypeOK,
         A!Writing, OthersKeep
<1>2. P!Done(t) \/ P!Fails(t) => ~P!Writing(t)' /\ OthersKeep(approvalDraft, t)
  BY DEF P!Done, P!Fails, P!Commit, P!Fail, P!Release, P!TypeOK, P!Writing, OthersKeep
<1>3. R!Done(t) \/ R!Fails(t) => ~R!Writing(t)' /\ OthersKeep(revocationDraft, t)
  BY DEF R!Done, R!Fails, R!Commit, R!Fail, R!Release, R!TypeOK, R!Writing, OthersKeep
<1> QED
  BY <1>1, <1>2, <1>3

\* How a call moves on: to another record, or to another stage.
LEMMA CallMoves ==
    ASSUME CallOK, NEW t \in Threads
    PROVE  /\ \A c \in DecideCall \cup OtherCall :
                 call' = [call EXCEPT ![t] = c] =>
                     CallOK' /\ call'[t] = c /\ OthersKeep(call, t)
           /\ \A s \in {"approve", "approving", "record", "recording"} :
                 call[t].stage \in {"approve", "approving", "record", "recording"}
                   /\ call' = [call EXCEPT ![t].stage = s] =>
                     /\ CallOK' /\ OthersKeep(call, t)
                     /\ call'[t].stage = s /\ call'[t].req = call[t].req
                     /\ call'[t].effect = call[t].effect
                     /\ call'[t].approval = call[t].approval
<1>1. \A c \in DecideCall \cup OtherCall :
         call' = [call EXCEPT ![t] = c] =>
             CallOK' /\ call'[t] = c /\ OthersKeep(call, t)
  BY DEF CallOK, OthersKeep
<1>2. ASSUME NEW s \in {"approve", "approving", "record", "recording"},
             call[t].stage \in {"approve", "approving", "record", "recording"},
             call' = [call EXCEPT ![t].stage = s]
      PROVE  /\ CallOK' /\ OthersKeep(call, t)
             /\ call'[t].stage = s /\ call'[t].req = call[t].req
             /\ call'[t].effect = call[t].effect
             /\ call'[t].approval = call[t].approval
  <2> DEFINE c == [call[t] EXCEPT !.stage = s]
  <2>1. call[t] \in DecideCall
    BY <1>2, CallOf
  <2>2. c \in DecideCall /\ c.stage = s /\ c.req = call[t].req
        /\ c.effect = call[t].effect /\ c.approval = call[t].approval
    BY <2>1 DEF DecideCall
  <2>3. call' = [call EXCEPT ![t] = c]
    BY <1>2
  <2> QED
    BY <1>1, <2>2, <2>3
<1> QED
  BY <1>1, <1>2

\* FindApproval and ApprovalCreated also write down the approval.
LEMMA CallFinds ==
    ASSUME CallOK, NEW t \in Threads, NEW id \in ApprovalIds,
           call[t].stage \in {"approve", "approving"},
           call' = [call EXCEPT ![t].stage = "record", ![t].approval = id]
    PROVE  /\ CallOK' /\ OthersKeep(call, t)
           /\ call'[t].stage = "record" /\ call'[t].req = call[t].req
           /\ call'[t].effect = call[t].effect /\ call'[t].approval = id
<1> DEFINE c == [call[t] EXCEPT !.stage = "record", !.approval = id]
<1>1. call[t] \in DecideCall
  BY CallOf
<1>2. c \in DecideCall /\ c.stage = "record" /\ c.req = call[t].req
      /\ c.effect = call[t].effect /\ c.approval = id
  BY <1>1 DEF DecideCall
<1>3. call' = [call EXCEPT ![t] = c]
  BY DEF CallOK
<1> HIDE DEF c
<1> QED
  BY <1>2, <1>3, CallMoves

LEMMA IdleCall ==
    /\ Idle \in DecideCall \cup OtherCall /\ Idle.stage = "idle"
    /\ \A s \in {"resolving", "revoking"} :
          [stage |-> s] \in DecideCall \cup OtherCall /\ [stage |-> s].stage = s
    /\ CallOK => \A t \in Threads : ~InProgress(t) <=> call[t].stage = "idle"
<1>1. /\ Idle \in DecideCall \cup OtherCall /\ Idle.stage = "idle"
      /\ \A s \in {"resolving", "revoking"} :
            [stage |-> s] \in DecideCall \cup OtherCall /\ [stage |-> s].stage = s
  BY DEF Idle, OtherCall
<1>2. ASSUME CallOK, NEW t \in Threads, call[t].stage = "idle"
      PROVE  call[t] = Idle
  <2>1. call[t] \in OtherCall
    BY <1>2 DEF CallOK, DecideCall
  <2> QED
    BY <1>2, <2>1 DEF OtherCall, Idle
<1> QED
  BY <1>1, <1>2 DEF InProgress

\* evaluate leaves a decided call.
LEMMA Evaluated ==
    ASSUME CallOK, NEW t \in Threads, NEW req \in Requests, Evaluate(t, req)
    PROVE  \E f \in R!Views(t) :
              LET answer == R!Answer(f, req.names)
                  effect == Decision(answer, req)
              IN  /\ answer # "error" /\ effect \in {"allow", "deny", "approval_required", "dry_run"}
                  /\ CallOK' /\ OthersKeep(call, t)
                  /\ call'[t].stage = NextStage(effect) /\ call'[t].req = req
                  /\ call'[t].effect = effect /\ call'[t].approval = NoApproval
<1>1. PICK f \in R!Views(t) :
         LET answer == R!Answer(f, req.names)
             effect == Decision(answer, req)
         IN  /\ answer # "error"
             /\ call' = [call EXCEPT ![t] =
                   [stage |-> NextStage(effect), req |-> req, effect |-> effect,
                    approval |-> NoApproval]]
  BY DEF Evaluate
<1> DEFINE answer == R!Answer(f, req.names)
           effect == Decision(answer, req)
           c == [stage |-> NextStage(effect), req |-> req, effect |-> effect,
                 approval |-> NoApproval]
<1>2. effect \in {"allow", "deny", "approval_required", "dry_run"}
  BY EffectAssumption DEF Decision
<1>3. c \in DecideCall
  BY <1>2 DEF DecideCall, NextStage
<1>4. CallOK' /\ call'[t] = c /\ OthersKeep(call, t)
  BY <1>1, <1>3, CallMoves
<1> HIDE DEF effect, answer
<1> QED
  BY <1>1, <1>2, <1>4 DEF effect, answer

\* A draft of the approval log has an id, and as a creation its request.
LEMMA DraftedId ==
    ASSUME P!TypeOK, NEW t \in Threads, P!Writing(t)
    PROVE  approvalDraft[t].event.id \in ApprovalIds
<1>1. approvalDraft[t] \in PP!Lines(PP!Event)
  BY ApprovalSame DEF P!TypeOK, P!Writing
<1> QED
  BY <1>1, ThreadAssumption, StoresAssume, PP!EventFields

\* Thread t writes to the store its stage says.
StageOK(t) ==
    /\ A!Writing(t) <=> call[t].stage = "recording"
    /\ P!Writing(t) <=> call[t].stage \in {"approving", "resolving"}
    /\ R!Writing(t) <=> call[t].stage = "revoking"

LEMMA OneMoves ==
    ASSUME OneStoreAtATime, NEW t \in Threads, StageOK(t)',
           OthersKeep(call, t), OthersKeep(auditDraft, t),
           OthersKeep(approvalDraft, t), OthersKeep(revocationDraft, t)
    PROVE  OneStoreAtATime'
BY DEF OneStoreAtATime, StageOK, OthersKeep, A!Writing, P!Writing, R!Writing

LEMMA StagesInductive ==
    ASSUME A!TypeOK, P!TypeOK, R!TypeOK, CallOK, OneStoreAtATime, [Next]_vars
    PROVE  CallOK' /\ OneStoreAtATime'
<1> DEFINE Goal == CallOK' /\ OneStoreAtATime'
<1>0. /\ \A t \in Threads : UNCHANGED auditVars =>
            OthersKeep(auditDraft, t) /\ (A!Writing(t)' <=> A!Writing(t))
      /\ \A t \in Threads : UNCHANGED approvalVars =>
            OthersKeep(approvalDraft, t) /\ (P!Writing(t)' <=> P!Writing(t))
      /\ \A t \in Threads : UNCHANGED revocationVars =>
            OthersKeep(revocationDraft, t) /\ (R!Writing(t)' <=> R!Writing(t))
      /\ \A t \in Threads : StageOK(t)
  BY DEF auditVars, approvalVars, revocationVars, OthersKeep, A!Writing, P!Writing,
         R!Writing, OneStoreAtATime, StageOK
<1>1. ASSUME NEW t \in Threads, NEW req \in Requests, Evaluate(t, req) PROVE Goal
  <2>1. CallOK' /\ OthersKeep(call, t) /\ call'[t].stage \in {"approve", "record"}
    BY <1>1, Evaluated DEF NextStage
  <2>2. call[t].stage = "idle" /\ UNCHANGED <<auditVars, approvalVars, revocationVars>>
    BY <1>1, IdleCall DEF Evaluate
  <2>3. StageOK(t)'
    BY <1>0, <2>1, <2>2 DEF StageOK
  <2> QED
    BY <1>0, <2>1, <2>2, <2>3, OneMoves
<1>2. ASSUME NEW t \in Threads, EvaluateFails(t) PROVE Goal
  <2>1. UNCHANGED vars
    BY <1>2 DEF EvaluateFails, R!MatchFails, R!vars, revocationVars, vars
  <2> QED
    BY <2>1 DEF vars, auditVars, approvalVars, revocationVars, CallOK, OneStoreAtATime,
       A!Writing, P!Writing, R!Writing
<1>3. ASSUME NEW t \in Threads, AskApproval(t) PROVE Goal
  <2>1. /\ call[t].stage = "approve" /\ call' = [call EXCEPT ![t].stage = "approving"]
        /\ UNCHANGED <<auditVars, revocationVars>>
    BY <1>3 DEF AskApproval
  <2>2. CallOK' /\ OthersKeep(call, t) /\ call'[t].stage = "approving"
    BY <2>1, CallMoves
  <2>3. P!Writing(t)' /\ OthersKeep(approvalDraft, t)
    BY <1>3, <2>1, CallOf, ApprovalWrites DEF AskApproval
  <2>4. StageOK(t)'
    BY <1>0, <2>1, <2>2, <2>3 DEF StageOK
  <2> QED
    BY <1>0, <2>1, <2>2, <2>3, <2>4, OneMoves
<1>4. ASSUME NEW t \in Threads, FindApproval(t) PROVE Goal
  <2>1. PICK id \in ApprovalIds :
           /\ call[t].stage = "approve" /\ approvalDraft' = approvalDraft
           /\ call' = [call EXCEPT ![t].stage = "record", ![t].approval = id]
           /\ UNCHANGED <<auditVars, revocationVars>>
    BY <1>4 DEF FindApproval, P!CreateAgain
  <2>2. CallOK' /\ OthersKeep(call, t) /\ call'[t].stage = "record"
    BY <2>1, CallFinds
  <2>3. OthersKeep(approvalDraft, t) /\ (P!Writing(t)' <=> P!Writing(t))
    BY <2>1 DEF OthersKeep, P!Writing
  <2>4. StageOK(t)'
    BY <1>0, <2>1, <2>2, <2>3 DEF StageOK
  <2> QED
    BY <1>0, <2>1, <2>2, <2>3, <2>4, OneMoves
<1>5. ASSUME NEW t \in Threads, ApprovalCreated(t) PROVE Goal
  <2>1. /\ call[t].stage = "approving" /\ P!Done(t)
        /\ call' = [call EXCEPT ![t].stage = "record",
                                ![t].approval = approvalDraft[t].event.id]
        /\ UNCHANGED <<auditVars, revocationVars>>
    BY <1>5 DEF ApprovalCreated
  <2>2. approvalDraft[t].event.id \in ApprovalIds
    BY <1>0, <2>1, DraftedId DEF StageOK
  <2>3. CallOK' /\ OthersKeep(call, t) /\ call'[t].stage = "record"
    BY <2>1, <2>2, CallFinds
  <2>4. ~P!Writing(t)' /\ OthersKeep(approvalDraft, t)
    BY <2>1, Released
  <2>5. StageOK(t)'
    BY <1>0, <2>1, <2>3, <2>4 DEF StageOK
  <2> QED
    BY <1>0, <2>1, <2>3, <2>4, <2>5, OneMoves
<1>6. ASSUME NEW t \in Threads, ApprovalFails(t) PROVE Goal
  <2>1. /\ call[t].stage \in {"approve", "approving"}
        /\ ~P!Writing(t)' /\ OthersKeep(approvalDraft, t)
    <3>1. CASE call[t].stage = "approve" /\ P!LoadFails(t)
      <4>1. UNCHANGED approvalDraft
        BY <3>1 DEF P!LoadFails, P!vars
      <4> QED
        BY <1>0, <3>1, <4>1 DEF StageOK, P!Writing, OthersKeep
    <3>2. CASE call[t].stage = "approving" /\ P!Fails(t)
      BY <3>2, Released
    <3> QED
      BY <1>6, <3>1, <3>2 DEF ApprovalFails
  <2>2. call' = [call EXCEPT ![t] = Idle] /\ UNCHANGED <<auditVars, revocationVars>>
    BY <1>6 DEF ApprovalFails, AfterApprovalError, Return
  <2>3. CallOK' /\ OthersKeep(call, t) /\ call'[t].stage = "idle"
    BY <2>2, CallMoves, IdleCall
  <2>4. StageOK(t)'
    BY <1>0, <2>1, <2>2, <2>3 DEF StageOK
  <2> QED
    BY <1>0, <2>1, <2>2, <2>3, <2>4, OneMoves
<1>7. ASSUME NEW t \in Threads, WriteReceipt(t) PROVE Goal
  <2>1. /\ call[t].stage = "record" /\ call' = [call EXCEPT ![t].stage = "recording"]
        /\ UNCHANGED <<approvalVars, revocationVars>>
    BY <1>7 DEF WriteReceipt
  <2>2. CallOK' /\ OthersKeep(call, t) /\ call'[t].stage = "recording"
    BY <2>1, CallMoves
  <2>3. A!Writing(t)' /\ OthersKeep(auditDraft, t)
    BY <1>7, <2>1, CallOf, AuditWrites DEF WriteReceipt
  <2>4. StageOK(t)'
    BY <1>0, <2>1, <2>2, <2>3 DEF StageOK
  <2> QED
    BY <1>0, <2>1, <2>2, <2>3, <2>4, OneMoves
<1>8. ASSUME NEW t \in Threads, ReceiptWritten(t) \/ ReceiptFails(t) PROVE Goal
  <2>1. /\ call[t].stage \in {"record", "recording"}
        /\ ~A!Writing(t)' /\ OthersKeep(auditDraft, t)
    <3>1. CASE call[t].stage = "record" /\ A!ReadFails(t)
      <4>1. UNCHANGED auditDraft
        BY <3>1 DEF A!ReadFails, A!vars
      <4> QED
        BY <1>0, <3>1, <4>1 DEF StageOK, A!Writing, OthersKeep
    <3>2. CASE call[t].stage = "recording" /\ (A!RecordFails(t) \/ A!RecordDone(t))
      BY <3>2, Released
    <3> QED
      BY <1>8, <3>1, <3>2 DEF ReceiptWritten, ReceiptFails, CannotRecord
  <2>2. call' = [call EXCEPT ![t] = Idle] /\ UNCHANGED <<approvalVars, revocationVars>>
    BY <1>8 DEF ReceiptWritten, ReceiptFails, Return
  <2>3. CallOK' /\ OthersKeep(call, t) /\ call'[t].stage = "idle"
    BY <2>2, CallMoves, IdleCall
  <2>4. StageOK(t)'
    BY <1>0, <2>1, <2>2, <2>3 DEF StageOK
  <2> QED
    BY <1>0, <2>1, <2>2, <2>3, <2>4, OneMoves
<1>9. ASSUME NEW t \in Threads, ResolveApproval(t) PROVE Goal
  <2>1. /\ call[t].stage = "idle" /\ call' = [call EXCEPT ![t] = [stage |-> "resolving"]]
        /\ UNCHANGED <<auditVars, revocationVars>>
    BY <1>9, IdleCall DEF ResolveApproval
  <2>2. CallOK' /\ OthersKeep(call, t) /\ call'[t].stage = "resolving"
    <3> DEFINE c == [stage |-> "resolving"]
    <3>1. c \in DecideCall \cup OtherCall /\ c.stage = "resolving"
      BY IdleCall
    <3>2. call' = [call EXCEPT ![t] = c]
      BY <2>1
    <3> HIDE DEF c
    <3> QED
      BY <3>1, <3>2, CallMoves
  <2>3. P!Writing(t)' /\ OthersKeep(approvalDraft, t)
    BY <1>9, ResolutionWrites DEF ResolveApproval
  <2>4. StageOK(t)'
    BY <1>0, <2>1, <2>2, <2>3 DEF StageOK
  <2> QED
    BY <1>0, <2>1, <2>2, <2>3, <2>4, OneMoves
<1>10. ASSUME NEW t \in Threads, Resolved(t) PROVE Goal
  <2>1. /\ call[t].stage = "resolving" /\ call' = [call EXCEPT ![t] = Idle]
        /\ UNCHANGED <<auditVars, revocationVars>>
        /\ ~P!Writing(t)' /\ OthersKeep(approvalDraft, t)
    BY <1>10, Released DEF Resolved, Return
  <2>2. CallOK' /\ OthersKeep(call, t) /\ call'[t].stage = "idle"
    BY <2>1, CallMoves, IdleCall
  <2>3. StageOK(t)'
    BY <1>0, <2>1, <2>2 DEF StageOK
  <2> QED
    BY <1>0, <2>1, <2>2, <2>3, OneMoves
<1>11. ASSUME NEW t \in Threads, ChangeRevocation(t) PROVE Goal
  <2>1. /\ call[t].stage = "idle" /\ call' = [call EXCEPT ![t] = [stage |-> "revoking"]]
        /\ UNCHANGED <<auditVars, approvalVars>>
    BY <1>11, IdleCall DEF ChangeRevocation
  <2>2. CallOK' /\ OthersKeep(call, t) /\ call'[t].stage = "revoking"
    <3> DEFINE c == [stage |-> "revoking"]
    <3>1. c \in DecideCall \cup OtherCall /\ c.stage = "revoking"
      BY IdleCall
    <3>2. call' = [call EXCEPT ![t] = c]
      BY <2>1
    <3> HIDE DEF c
    <3> QED
      BY <3>1, <3>2, CallMoves
  <2>3. R!Writing(t)' /\ OthersKeep(revocationDraft, t)
    BY <1>11, RevocationWrites DEF ChangeRevocation
  <2>4. StageOK(t)'
    BY <1>0, <2>1, <2>2, <2>3 DEF StageOK
  <2> QED
    BY <1>0, <2>1, <2>2, <2>3, <2>4, OneMoves
<1>12. ASSUME NEW t \in Threads, RevocationChanged(t) PROVE Goal
  <2>1. /\ call[t].stage = "revoking" /\ call' = [call EXCEPT ![t] = Idle]
        /\ UNCHANGED <<auditVars, approvalVars>>
        /\ ~R!Writing(t)' /\ OthersKeep(revocationDraft, t)
    BY <1>12, Released DEF RevocationChanged, Return
  <2>2. CallOK' /\ OthersKeep(call, t) /\ call'[t].stage = "idle"
    BY <2>1, CallMoves, IdleCall
  <2>3. StageOK(t)'
    BY <1>0, <2>1, <2>2 DEF StageOK
  <2> QED
    BY <1>0, <2>1, <2>2, <2>3, OneMoves
<1>13. ASSUME NEW p \in Procs, Crash(p) PROVE Goal
  <2>1. /\ call' = [t \in Threads |-> IF ProcOf[t] = p THEN Idle ELSE call[t]]
        /\ auditDraft' = [t \in Threads |-> IF ProcOf[t] = p THEN NoLine ELSE auditDraft[t]]
        /\ approvalDraft' =
              [t \in Threads |-> IF ProcOf[t] = p THEN NoLine ELSE approvalDraft[t]]
        /\ revocationDraft' =
              [t \in Threads |-> IF ProcOf[t] = p THEN NoLine ELSE revocationDraft[t]]
    BY <1>13 DEF Crash, A!Halt, P!Halt, R!Halt
  <2>2. CallOK'
    BY <2>1, IdleCall DEF CallOK
  <2>3. ASSUME NEW t \in Threads PROVE StageOK(t)'
    <3>1. CASE ProcOf[t] = p
      BY <2>1, <3>1, IdleCall DEF StageOK, A!Writing, P!Writing, R!Writing
    <3>2. CASE ProcOf[t] # p
      BY <1>0, <2>1, <3>2 DEF StageOK, A!Writing, P!Writing, R!Writing
    <3> QED
      BY <3>1, <3>2
  <2> QED
    BY <2>2, <2>3 DEF OneStoreAtATime, StageOK
<1>14. ASSUME UNCHANGED vars PROVE Goal
  BY <1>14 DEF vars, auditVars, approvalVars, revocationVars, CallOK, OneStoreAtATime,
     A!Writing, P!Writing, R!Writing
<1> QED
  BY <1>1, <1>2, <1>3, <1>4, <1>5, <1>6, <1>7, <1>8, <1>9, <1>10, <1>11, <1>12,
     <1>13, <1>14
  DEF Next, Progress, ReadOnly

-----------------------------------------------------------------------------
(* The stores inside the gateway *)

CallsOK == TypeOK /\ CallOK

LEMMA InitCalls == Init => CallsOK
<1> SUFFICES ASSUME Init PROVE CallsOK
  OBVIOUS
<1>1. A!TypeOK /\ P!TypeOK /\ R!TypeOK
  <2>1. AP!TypeOK
    BY AuditSame, AP!InitType, ThreadAssumption, StoresAssume DEF Init
  <2>2. PP!TypeOK
    BY ApprovalSame, PP!InitType, ThreadAssumption, StoresAssume DEF Init
  <2>3. RP!TypeOK
    BY RevocationSame, RP!InitType, ThreadAssumption, StoresAssume, BoundAssumption DEF Init
  <2> QED
    BY <2>1, <2>2, <2>3, AuditSame, ApprovalSame, RevocationSame
<1>2. CallOK
  BY IdleCall DEF Init, CallOK
<1>3. OneStoreAtATime
  BY IdleCall DEF Init, OneStoreAtATime, A!Init, A!StoreInit, A!Writing, P!Init,
     P!StoreInit, P!Writing, R!Init, R!StoreInit, R!Writing
<1> QED
  BY <1>1, <1>2, <1>3 DEF CallsOK, TypeOK

LEMMA StoresKeepTypes ==
    ASSUME A!TypeOK, P!TypeOK, R!TypeOK, StoreStep
    PROVE  A!TypeOK' /\ P!TypeOK' /\ R!TypeOK'
<1>1. A!TypeOK'
  <2>2. AP!TypeOK /\ [AP!Next]_(AP!vars)
    BY AuditSame DEF StoreStep, A!vars, AP!vars
  <2>3. AP!TypeOK'
    BY <2>2, ThreadAssumption, StoresAssume, AP!TypeOKInductive
  <2> QED
    BY <2>3 DEF A!TypeOK, AP!TypeOK, A!Lines, AP!Lines, A!Receipt, AP!Receipt,
       A!Hashes, AP!Hashes, A!Mutex, AP!Mutex, A!Writing, AP!Writing, A!NoHash, AP!NoHash, A!HashOf, AP!HashOf
<1>2. P!TypeOK'
  <2>1. PP!TypeOK /\ [PP!Next]_(PP!vars)
    BY ApprovalSame DEF StoreStep, P!vars, PP!vars
  <2>2. PP!TypeOK'
    BY <2>1, ThreadAssumption, StoresAssume, PP!TypeOKInductive
  <2> QED
    BY <2>2 DEF P!TypeOK, PP!TypeOK, P!Lines, PP!Lines, P!Event, PP!Event,
       P!Verdicts, PP!Verdicts, P!Answer, PP!Answer
<1>3. R!TypeOK'
  <2>1. RP!TypeOK /\ [RP!Next]_(RP!vars)
    BY RevocationSame DEF StoreStep, R!vars, RP!vars
  <2>2. RP!TypeOK'
    BY <2>1, ThreadAssumption, StoresAssume, BoundAssumption, RP!TypeOKInductive
  <2> QED
    BY <2>2 DEF R!TypeOK, RP!TypeOK, R!Lines, RP!Lines, R!Event, RP!Event, R!Key,
       RP!Key, R!Types, RP!Types, R!AnyId, RP!AnyId, R!Read, RP!Read
<1> QED
  BY <1>1, <1>2, <1>3

LEMMA CallsInductive == CallsOK /\ [Next]_vars => CallsOK' /\ StoreStep
<1> SUFFICES ASSUME CallsOK, [Next]_vars PROVE CallsOK' /\ StoreStep
  OBVIOUS
<1> USE DEF CallsOK, TypeOK
<1>1. StoreStep
  BY StepOfStores
<1>2. A!TypeOK' /\ P!TypeOK' /\ R!TypeOK'
  BY <1>1, StoresKeepTypes
<1>3. CallOK' /\ OneStoreAtATime'
  BY StagesInductive
<1> QED
  BY <1>1, <1>2, <1>3

\* The gateway without its fairness, which no safety property needs.
Steps == Init /\ [][Next]_vars

LEMMA SpecSteps == Spec => Steps
BY PTL DEF Spec, Steps

LEMMA CallsAlways == Steps => []CallsOK
<1>1. Init => CallsOK
  BY InitCalls
<1>2. CallsOK /\ [Next]_vars => CallsOK'
  BY CallsInductive
<1> QED
  BY <1>1, <1>2, PTL DEF Steps

\* The three stores keep their types, and every call writes to the store of
\* its stage and to no other, for any number of threads and processes.
THEOREM TypeCorrect == Spec => []TypeOK
<1>1. CallsOK => TypeOK
  BY DEF CallsOK
<1> QED
  BY <1>1, SpecSteps, CallsAlways, PTL

LEMMA StepsOfStores == Steps => A!Spec /\ P!Spec /\ R!Spec
<1>1. Init => A!Init /\ P!Init /\ R!Init
  BY DEF Init
<1>2. CallsOK /\ [Next]_vars => [A!Next]_(A!vars) /\ [P!Next]_(P!vars) /\ [R!Next]_(R!vars)
  BY CallsInductive DEF StoreStep
<1> QED
  BY <1>1, <1>2, CallsAlways, PTL DEF Steps, A!Spec, P!Spec, R!Spec

\* Inside the gateway each store runs as it does by itself: what is proved of
\* the audit, the approval and the revocation log alone holds of them here.
THEOREM StoresRun == Spec => A!Spec /\ P!Spec /\ R!Spec
BY SpecSteps, StepsOfStores, PTL

LEMMA StoresAlone == Steps => AP!Spec /\ PP!Spec /\ RP!Spec
<1>1. Init => AP!Init /\ PP!Init /\ RP!Init
  BY AuditSame, ApprovalSame, RevocationSame DEF Init
<1>2. ASSUME CallsOK, [Next]_vars
      PROVE  [AP!Next]_(AP!vars) /\ [PP!Next]_(PP!vars) /\ [RP!Next]_(RP!vars)
  <2>1. [AP!Next]_(AP!vars)
    BY <1>2, CallsInductive, AuditSame DEF StoreStep, A!vars, AP!vars
  <2>2. [PP!Next]_(PP!vars)
    BY <1>2, CallsInductive, ApprovalSame DEF StoreStep, P!vars, PP!vars
  <2>3. [RP!Next]_(RP!vars)
    BY <1>2, CallsInductive, RevocationSame DEF StoreStep, R!vars, RP!vars
  <2> QED
    BY <2>1, <2>2, <2>3
<1> QED
  BY <1>1, <1>2, CallsAlways, PTL DEF Steps, AP!Spec, PP!Spec, RP!Spec

\* What is proved of the stores alone, for any number of processes.
LEMMA StoresHold ==
    /\ Steps => [](AP!TypeOK /\ AP!AckInv)
    /\ Steps => [](PP!TypeOK /\ PP!OrderInv /\ PP!ToldInv)
    /\ Steps => [](RP!TypeOK /\ RP!HoldInv)
<1>2. AP!Spec => [](AP!TypeOK /\ AP!AckInv)
  BY ThreadAssumption, StoresAssume, AP!AckAlways
<1>3. PP!Spec => [](PP!TypeOK /\ PP!OrderInv /\ PP!ToldInv)
  BY ThreadAssumption, StoresAssume, PP!ToldAlways
<1>4. RP!Spec => [](RP!TypeOK /\ RP!HoldInv)
  BY ThreadAssumption, StoresAssume, BoundAssumption, RP!HoldAlways
<1> QED
  BY <1>2, <1>3, <1>4, StoresAlone, PTL

-----------------------------------------------------------------------------
(* What a step does to a call *)

Rests(t) ==
    /\ call'[t] = call[t] /\ auditDraft'[t] = auditDraft[t]
    /\ approvalDraft'[t] = approvalDraft[t]

\* No call, or an operator's.
Leaves(t) == call'[t].stage \in {"idle", "resolving", "revoking"}

Decides(t) ==
    /\ ~InProgress(t) /\ call'[t].stage = NextStage(call'[t].effect)
    /\ \E f \in R!Views(t) :
          LET answer == R!Answer(f, call'[t].req.names)
          IN  answer # "error" /\ call'[t].effect = Decision(answer, call'[t].req)

SameRequest(t) ==
    /\ call'[t].req = call[t].req /\ call'[t].effect = call[t].effect

Asks(t) ==
    /\ call[t].stage = "approve" /\ call'[t].stage = "approving" /\ SameRequest(t)
    /\ approvalDraft'[t].event.status = "pending"
    /\ approvalDraft'[t].event.request_id = call[t].req.id
    /\ approvalDraft'[t].event.shape = call[t].req

Finds(t) ==
    /\ call[t].stage = "approve" /\ call'[t].stage = "record" /\ SameRequest(t)
    /\ [id |-> call'[t].approval, request_id |-> call[t].req.id,
        shape |-> call[t].req] \in told'

Creates(t) ==
    /\ call[t].stage = "approving" /\ call'[t].stage = "record" /\ SameRequest(t)
    /\ call'[t].approval = approvalDraft[t].event.id
    /\ P!Done(t)

Records(t) ==
    /\ call[t].stage = "record" /\ call'[t].stage = "recording" /\ SameRequest(t)
    /\ call'[t].approval = call[t].approval
    /\ auditDraft'[t].event.text =
          [req |-> call[t].req, effect |-> call[t].effect, approval |-> call[t].approval]

CallStep(t) ==
    Rests(t) \/ Leaves(t) \/ Decides(t) \/ Asks(t) \/ Finds(t) \/ Creates(t) \/ Records(t)

LEMMA CallSteps ==
    ASSUME CallsOK, [Next]_vars, NEW u \in Threads
    PROVE  CallStep(u)
<1> USE DEF CallsOK, TypeOK
<1>0. ASSUME NEW t \in Threads, CallStep(t), OthersKeep(call, t),
             OthersKeep(auditDraft, t), OthersKeep(approvalDraft, t)
      PROVE  CallStep(u)
  BY <1>0 DEF OthersKeep, CallStep, Rests
<1>a. /\ UNCHANGED auditVars => \A t \in Threads : OthersKeep(auditDraft, t)
      /\ UNCHANGED approvalVars => \A t \in Threads : OthersKeep(approvalDraft, t)
      /\ UNCHANGED approvalDraft => \A t \in Threads : OthersKeep(approvalDraft, t)
  BY DEF auditVars, approvalVars, OthersKeep
<1>b. ASSUME NEW t \in Threads, NEW c \in DecideCall \cup OtherCall,
             c.stage \in {"idle", "resolving", "revoking"},
             call' = [call EXCEPT ![t] = c],
             OthersKeep(auditDraft, t), OthersKeep(approvalDraft, t)
      PROVE  CallStep(u)
  <2>1. call'[t] = c /\ OthersKeep(call, t)
    BY <1>b, CallMoves
  <2> QED
    BY <1>0, <1>b, <2>1 DEF CallStep, Leaves
<1>1. ASSUME NEW t \in Threads, NEW req \in Requests, Evaluate(t, req)
      PROVE  CallStep(u)
  <2>1. OthersKeep(call, t) /\ Decides(t)
    BY <1>1, Evaluated DEF Evaluate, Decides
  <2> QED
    BY <1>0, <1>a, <1>1, <2>1 DEF Evaluate, CallStep
<1>2. ASSUME NEW t \in Threads, EvaluateFails(t) PROVE CallStep(u)
  BY <1>2 DEF EvaluateFails, CallStep, Rests, auditVars, approvalVars
<1>3. ASSUME NEW t \in Threads, AskApproval(t) PROVE CallStep(u)
  <2>1. /\ call[t].stage = "approve" /\ call' = [call EXCEPT ![t].stage = "approving"]
        /\ UNCHANGED auditVars
    BY <1>3 DEF AskApproval
  <2>2. OthersKeep(call, t) /\ call'[t].stage = "approving" /\ SameRequest(t)
    BY <2>1, CallMoves DEF SameRequest
  <2>3. /\ approvalDraft'[t].event.status = "pending"
        /\ approvalDraft'[t].event.request_id = call[t].req.id
        /\ approvalDraft'[t].event.shape = call[t].req
        /\ OthersKeep(approvalDraft, t)
    BY <1>3, <2>1, CallOf, ApprovalWrites DEF AskApproval
  <2> QED
    BY <1>0, <1>a, <2>1, <2>2, <2>3 DEF CallStep, Asks
<1>4. ASSUME NEW t \in Threads, FindApproval(t) PROVE CallStep(u)
  <2>1. PICK id \in ApprovalIds :
           /\ call[t].stage = "approve" /\ approvalDraft' = approvalDraft
           /\ call' = [call EXCEPT ![t].stage = "record", ![t].approval = id]
           /\ UNCHANGED auditVars
           /\ told' = told \cup {[id |-> id, request_id |-> call[t].req.id,
                                  shape |-> call[t].req]}
    BY <1>4 DEF FindApproval, P!CreateAgain
  <2>2. /\ OthersKeep(call, t) /\ call'[t].stage = "record" /\ SameRequest(t)
        /\ call'[t].approval = id
    BY <2>1, CallFinds DEF SameRequest
  <2>3. [id |-> id, request_id |-> call[t].req.id, shape |-> call[t].req] \in told'
    BY <2>1
  <2>4. Finds(t)
    BY <2>1, <2>2, <2>3, Zenon DEF Finds
  <2> QED
    BY <1>0, <1>a, <2>1, <2>2, <2>4 DEF CallStep
<1>5. ASSUME NEW t \in Threads, ApprovalCreated(t) PROVE CallStep(u)
  <2>1. /\ call[t].stage = "approving" /\ P!Done(t)
        /\ call' = [call EXCEPT ![t].stage = "record",
                                ![t].approval = approvalDraft[t].event.id]
        /\ UNCHANGED auditVars
    BY <1>5 DEF ApprovalCreated
  <2>2. approvalDraft[t].event.id \in ApprovalIds
    BY <2>1, DraftedId DEF OneStoreAtATime
  <2>3. /\ OthersKeep(call, t) /\ call'[t].stage = "record" /\ SameRequest(t)
        /\ call'[t].approval = approvalDraft[t].event.id
    BY <2>1, <2>2, CallFinds DEF SameRequest
  <2>4. OthersKeep(approvalDraft, t)
    BY <2>1, Released
  <2> QED
    BY <1>0, <1>a, <2>1, <2>3, <2>4 DEF CallStep, Creates
<1>6. ASSUME NEW t \in Threads, ApprovalFails(t) PROVE CallStep(u)
  <2>1. OthersKeep(approvalDraft, t)
    BY <1>6, <1>a, Released DEF ApprovalFails, P!LoadFails, P!vars
  <2> QED
    BY <1>6, <1>a, <1>b, <2>1, IdleCall DEF ApprovalFails, AfterApprovalError, Return
<1>7. ASSUME NEW t \in Threads, WriteReceipt(t) PROVE CallStep(u)
  <2>1. /\ call[t].stage = "record" /\ call' = [call EXCEPT ![t].stage = "recording"]
        /\ UNCHANGED approvalVars
    BY <1>7 DEF WriteReceipt
  <2>2. /\ OthersKeep(call, t) /\ call'[t].stage = "recording" /\ SameRequest(t)
        /\ call'[t].approval = call[t].approval
    BY <2>1, CallMoves DEF SameRequest
  <2>3. /\ auditDraft'[t].event.text =
              [req |-> call[t].req, effect |-> call[t].effect,
               approval |-> call[t].approval]
        /\ OthersKeep(auditDraft, t)
    BY <1>7, <2>1, CallOf, AuditWrites DEF WriteReceipt
  <2> QED
    BY <1>0, <1>a, <2>1, <2>2, <2>3 DEF CallStep, Records
<1>8. ASSUME NEW t \in Threads, ReceiptWritten(t) \/ ReceiptFails(t) PROVE CallStep(u)
  <2>1. OthersKeep(auditDraft, t)
    <3>1. CASE A!ReadFails(t)
      BY <3>1 DEF A!ReadFails, A!vars, OthersKeep
    <3>2. CASE A!RecordFails(t) \/ A!RecordDone(t)
      BY <3>2, Released
    <3> QED
      BY <1>8, <3>1, <3>2 DEF ReceiptWritten, ReceiptFails, CannotRecord
  <2> QED
    BY <1>8, <1>a, <1>b, <2>1, IdleCall DEF ReceiptWritten, ReceiptFails, Return
<1>9. ASSUME NEW t \in Threads, ResolveApproval(t) PROVE CallStep(u)
  <2> DEFINE c == [stage |-> "resolving"]
  <2>1. c \in DecideCall \cup OtherCall /\ c.stage = "resolving"
    BY IdleCall
  <2>2. call' = [call EXCEPT ![t] = c] /\ UNCHANGED auditVars
    BY <1>9 DEF ResolveApproval
  <2>3. OthersKeep(approvalDraft, t)
    BY <1>9, ResolutionWrites DEF ResolveApproval
  <2> HIDE DEF c
  <2> QED
    BY <1>a, <1>b, <2>1, <2>2, <2>3
<1>10. ASSUME NEW t \in Threads, Resolved(t) PROVE CallStep(u)
  <2>1. OthersKeep(approvalDraft, t)
    BY <1>10, Released DEF Resolved
  <2> QED
    BY <1>10, <1>a, <1>b, <2>1, IdleCall DEF Resolved, Return
<1>11. ASSUME NEW t \in Threads, ChangeRevocation(t) PROVE CallStep(u)
  <2> DEFINE c == [stage |-> "revoking"]
  <2>1. c \in DecideCall \cup OtherCall /\ c.stage = "revoking"
    BY IdleCall
  <2>2. call' = [call EXCEPT ![t] = c] /\ UNCHANGED <<auditVars, approvalVars>>
    BY <1>11 DEF ChangeRevocation
  <2> HIDE DEF c
  <2> QED
    BY <1>a, <1>b, <2>1, <2>2
<1>12. ASSUME NEW t \in Threads, RevocationChanged(t) PROVE CallStep(u)
  BY <1>12, <1>a, <1>b, IdleCall DEF RevocationChanged, Return
<1>13. ASSUME NEW p \in Procs, Crash(p) PROVE CallStep(u)
  <2>1. /\ call' = [t \in Threads |-> IF ProcOf[t] = p THEN Idle ELSE call[t]]
        /\ auditDraft' = [t \in Threads |-> IF ProcOf[t] = p THEN NoLine ELSE auditDraft[t]]
        /\ approvalDraft' =
              [t \in Threads |-> IF ProcOf[t] = p THEN NoLine ELSE approvalDraft[t]]
    BY <1>13 DEF Crash, A!Halt, P!Halt
  <2> QED
    BY <2>1, IdleCall DEF CallStep, Leaves, Rests
<1>14. ASSUME UNCHANGED vars PROVE CallStep(u)
  BY <1>14 DEF vars, auditVars, approvalVars, CallStep, Rests
<1> QED
  BY <1>1, <1>2, <1>3, <1>4, <1>5, <1>6, <1>7, <1>8, <1>9, <1>10, <1>11, <1>12,
     <1>13, <1>14
  DEF Next, Progress, ReadOnly

-----------------------------------------------------------------------------
(* Receipts cite approvals that were handed out *)

\* What asks for an approval cites one that was handed out for its request.
Cites(x) ==
    x.effect = "approval_required" =>
        \E a \in told :
            a.id = x.approval /\ a.shape = x.req /\ a.request_id = x.req.id

\* Thread t creates the approval its request asks for, cites one once it has
\* come to its receipt, and writes down what it decided.
CallCites(t) ==
    /\ call[t].stage = "approving" =>
          /\ approvalDraft[t].event.status = "pending"
          /\ approvalDraft[t].event.request_id = call[t].req.id
          /\ approvalDraft[t].event.shape = call[t].req
    /\ call[t].stage \in {"record", "recording"} => Cites(call[t])
    /\ call[t].stage = "recording" =>
          auditDraft[t].event.text =
              [req |-> call[t].req, effect |-> call[t].effect,
               approval |-> call[t].approval]

\* Needed for ReceiptCitesApproval, which sees only the receipts: a receipt
\* gets its citation from its call, and the call from the answer it was told.
CiteInv ==
    /\ \A t \in Threads : CallCites(t)
    /\ \A i \in DOMAIN auditLog : Cites(auditLog[i].event.text)

\* The receipts in the file are those that were there, and a writer's.
LEMMA AuditGrows ==
    ASSUME CallsOK, [Next]_vars, NEW i \in DOMAIN auditLog'
    PROVE  \/ \E j \in DOMAIN auditLog : auditLog'[i].event = auditLog[j].event
           \/ \E t \in Threads : A!Writing(t) /\ auditLog'[i].event = auditDraft[t].event
<1>2. AP!TypeOK /\ [AP!Next]_(AP!vars)
  BY CallsInductive, AuditSame DEF StoreStep, A!vars, AP!vars, CallsOK, TypeOK
<1>3. \/ auditLog' = auditLog
      \/ \E t \in Threads :
            AP!Writing(t) /\ AP!Continues(auditLog, auditLog', auditDraft[t])
  BY <1>2, ThreadAssumption, StoresAssume, AP!StepContinues
<1> QED
  BY <1>3, AuditSame DEF AP!Continues

LEMMA AnswersGrow ==
    ASSUME CallsOK, [Next]_vars
    PROVE  told \subseteq told'
<1>1. [PP!Next]_(PP!vars)
  BY CallsInductive, ApprovalSame DEF StoreStep, P!vars, PP!vars
<1> QED
  BY <1>1, ThreadAssumption, StoresAssume, PP!ToldGrows

LEMMA ReceiptsGrow ==
    ASSUME CallsOK, [Next]_vars
    PROVE  receipts \subseteq receipts'
<1>2. [AP!Next]_(AP!vars)
  BY CallsInductive, AuditSame DEF StoreStep, A!vars, AP!vars
<1> QED
  BY <1>2, ThreadAssumption, StoresAssume, AP!AckedGrows

LEMMA CiteInductive ==
    ASSUME CallsOK, CiteInv, [Next]_vars
    PROVE  CiteInv'
<1>1. told \subseteq told'
  BY AnswersGrow
<1>2. ASSUME NEW x, Cites(x) PROVE x.effect = "approval_required" =>
          \E a \in told' :
              a.id = x.approval /\ a.shape = x.req /\ a.request_id = x.req.id
  BY <1>1, <1>2 DEF Cites
<1>3. ASSUME NEW t \in Threads PROVE CallCites(t)'
  <2>0. CallCites(t) /\ CallsOK'
    BY CallsInductive DEF CiteInv
  <2>1. CASE Rests(t)
    BY <1>2, <2>0, <2>1 DEF Rests, CallCites, Cites
  <2>2. CASE Leaves(t)
    BY <2>2 DEF Leaves, CallCites
  <2>3. CASE Decides(t)
    BY <2>3 DEF Decides, NextStage, CallCites, Cites
  <2>4. CASE Asks(t)
    BY <2>4 DEF Asks, SameRequest, CallCites
  <2>5. CASE Finds(t)
    <3>1. CallCites(t)' <=> Cites(call[t])'
      BY <2>5 DEF Finds, CallCites
    <3> QED
      BY <2>5, <3>1 DEF Finds, SameRequest, Cites
  <2>6. CASE Creates(t)
    <3>1. CallCites(t)' <=> Cites(call[t])'
      BY <2>6 DEF Creates, CallCites
    <3>2. [id |-> approvalDraft[t].event.id, request_id |-> call[t].req.id,
           shape |-> call[t].req] \in told'
      BY <2>0, <2>6 DEF Creates, CallCites, P!Done
    <3> QED
      BY <2>6, <3>1, <3>2 DEF Creates, SameRequest, Cites
  <2>7. CASE Records(t)
    <3>1. Cites(call[t])'
      BY <1>2, <2>0, <2>7 DEF Records, SameRequest, CallCites, Cites
    <3> QED
      BY <2>7, <3>1 DEF Records, SameRequest, CallCites
  <2> QED
    BY <2>1, <2>2, <2>3, <2>4, <2>5, <2>6, <2>7, CallSteps DEF CallStep
<1>4. ASSUME NEW i \in DOMAIN auditLog' PROVE Cites(auditLog[i].event.text)'
  <2>1. CASE \E j \in DOMAIN auditLog : auditLog'[i].event = auditLog[j].event
    BY <1>2, <2>1 DEF CiteInv, Cites
  <2>2. CASE \E t \in Threads : A!Writing(t) /\ auditLog'[i].event = auditDraft[t].event
    <3>1. PICK t \in Threads : A!Writing(t) /\ auditLog'[i].event = auditDraft[t].event
      BY <2>2
    <3>2. call[t].stage = "recording" /\ CallCites(t)
      BY <3>1 DEF CallsOK, TypeOK, OneStoreAtATime, CiteInv
    <3> DEFINE x == [req |-> call[t].req, effect |-> call[t].effect,
                     approval |-> call[t].approval]
    <3>3. auditLog'[i].event.text = x /\ Cites(call[t])
      BY <3>1, <3>2 DEF CallCites
    <3>4. Cites(x)
      BY <3>3 DEF Cites
    <3> HIDE DEF x
    <3> QED
      BY <1>2, <3>3, <3>4 DEF Cites
  <2> QED
    BY <2>1, <2>2, AuditGrows
<1> QED
  BY <1>3, <1>4 DEF CiteInv

LEMMA CiteAlways == Steps => [](CallsOK /\ CiteInv)
<1>1. Init => CiteInv
  <2> SUFFICES ASSUME Init PROVE CiteInv
    OBVIOUS
  <2>1. auditLog = <<>> /\ \A t \in Threads : call[t].stage = "idle"
    BY IdleCall DEF Init, A!Init, A!StoreInit
  <2> QED
    BY <2>1 DEF CiteInv, CallCites
<1>2. CallsOK /\ CiteInv /\ [Next]_vars => CiteInv'
  BY CiteInductive
<1> QED
  BY <1>1, <1>2, CallsAlways, PTL DEF Steps

\* A receipt that asks for an approval cites one that was handed out for its
\* request and that is in the approval log, for any threads and processes.
THEOREM ReceiptsCite == Spec => []ReceiptCitesApproval
<1>1. CallsOK /\ CiteInv /\ PP!ToldInv => ReceiptCitesApproval
  <2> SUFFICES ASSUME CallsOK, CiteInv, PP!ToldInv,
                      NEW i \in DOMAIN auditLog,
                      auditLog[i].event.text.effect = "approval_required"
               PROVE  LET text == auditLog[i].event.text
                      IN  /\ \E a \in told : a.id = text.approval /\ a.shape = text.req
                          /\ P!Loads(approvalLog) =>
                                P!CreationsOf(approvalLog, text.approval) # {}
    BY DEF ReceiptCitesApproval
  <2> DEFINE text == auditLog[i].event.text
  <2>1. PICK a \in told : a.id = text.approval /\ a.shape = text.req
    BY DEF CiteInv, Cites
  <2>2. ASSUME P!Loads(approvalLog) PROVE P!CreationsOf(approvalLog, a.id) # {}
    <3>1. PP!Scans(approvalLog)
      BY <2>2, ApprovalSame DEF PP!Loads
    <3>2. PP!CreationsOf(approvalLog, a.id) # {}
      BY <3>1 DEF PP!ToldInv
    <3> QED
      BY <3>2, ApprovalSame
  <2> QED
    BY <2>1, <2>2
<1> QED
  BY <1>1, SpecSteps, CiteAlways, StoresHold, PTL

\* With one process, two receipts for one request id cite the same approval,
\* unless one of the two has been resolved.
THEOREM RetriesShare ==
    ASSUME PP!OneProcess
    PROVE  Spec => []RetriesShareApproval
<1>1. PP!Spec => [](PP!TypeOK /\ PP!LifeInv)
  BY ThreadAssumption, StoresAssume, PP!LifeAlways
<1>2. CallsOK /\ CiteInv /\ PP!TypeOK /\ PP!LifeInv => RetriesShareApproval
  <2> SUFFICES ASSUME CallsOK, CiteInv, PP!TypeOK, PP!LifeInv, P!Loads(approvalLog),
                      NEW i \in DOMAIN auditLog, NEW j \in DOMAIN auditLog,
                      auditLog[i].event.text.effect = "approval_required",
                      auditLog[j].event.text.effect = "approval_required",
                      auditLog[i].event.text.req.id = auditLog[j].event.text.req.id,
                      auditLog[i].event.text.approval # auditLog[j].event.text.approval
               PROVE  \E x \in {auditLog[i].event.text.approval,
                                auditLog[j].event.text.approval} :
                         P!StatusOf(approvalLog, x) \in P!Verdicts
    BY DEF RetriesShareApproval
  <2>1. PICK a \in told : /\ a.id = auditLog[i].event.text.approval
                          /\ a.request_id = auditLog[i].event.text.req.id
    BY DEF CiteInv, Cites
  <2>2. PICK b \in told : /\ b.id = auditLog[j].event.text.approval
                          /\ b.request_id = auditLog[j].event.text.req.id
    BY DEF CiteInv, Cites
  <2>3. PP!Loads(approvalLog) /\ a.request_id = b.request_id /\ a.id # b.id
    BY <2>1, <2>2, ApprovalSame
  <2>4. \/ PP!StatusOf(approvalLog, a.id) \in PP!Verdicts
        \/ PP!StatusOf(approvalLog, b.id) \in PP!Verdicts
    BY <2>3, ThreadAssumption, StoresAssume, PP!ToldApart
  <2>5. P!Verdicts = PP!Verdicts
    BY DEF P!Verdicts, PP!Verdicts
  <2> QED
    BY <2>1, <2>2, <2>4, <2>5, ApprovalSame
<1> QED
  BY <1>1, <1>2, SpecSteps, CiteAlways, StoresAlone, PTL

-----------------------------------------------------------------------------
(* A revocation decides *)

LEMMA BlockedIsDenied ==
    ASSUME CallsOK, RP!TypeOK, RP!HoldInv, NEW t \in Threads, Decides(t),
           NEW k \in blocked, R!Legible(k), R!Covers(k, call'[t].req.names)
    PROVE  call'[t].effect = "deny"
<1>1. PICK f \in R!Views(t) :
         /\ R!Answer(f, call'[t].req.names) # "error"
         /\ call'[t].effect = Decision(R!Answer(f, call'[t].req.names), call'[t].req)
  BY DEF Decides
<1>2. R!Scans(f)
  BY <1>1 DEF R!Answer
<1>3. RP!Read(k) \in RP!ActiveIn(f)
  <2>1. f \in RP!Views(t) /\ RP!Scans(f)
    BY <1>1, <1>2, RevocationSame DEF R!Scans, RP!Scans
  <2> QED
    BY <2>1, ThreadAssumption, StoresAssume, BoundAssumption, RP!BlocksEveryView
<1>4. k \in R!ActiveIn(f)
  BY <1>3 DEF R!ActiveIn, RP!ActiveIn, R!Decides, RP!Decides, R!Legible, R!Read,
     RP!Read
<1>5. R!Answer(f, call'[t].req.names) = "revoked"
  BY <1>2, <1>4 DEF R!Answer
<1> QED
  BY <1>1, <1>5 DEF Decision

\* A request that is decided after its revocation was acknowledged is denied:
\* no failed or torn append hides the revocation, for any threads and processes.
THEOREM RevokedIsDenied == Spec => RevocationDecides
<1> DEFINE Denies == \A t \in Threads, k \in blocked :
                        ~InProgress(t) /\ call'[t].stage \in {"approve", "record"}
                          /\ R!Legible(k) /\ R!Covers(k, call'[t].req.names)
                        => call'[t].effect = "deny"
<1>1. CallsOK /\ RP!TypeOK /\ RP!HoldInv /\ [Next]_vars => Denies
  <2> SUFFICES ASSUME CallsOK, RP!TypeOK, RP!HoldInv, [Next]_vars,
                      NEW t \in Threads, NEW k \in blocked,
                      ~InProgress(t), call'[t].stage \in {"approve", "record"},
                      R!Legible(k), R!Covers(k, call'[t].req.names)
               PROVE  call'[t].effect = "deny"
    OBVIOUS
  <2>1. call[t].stage = "idle"
    BY IdleCall DEF CallsOK
  <2>2. Decides(t)
    BY <2>1, CallSteps DEF CallStep, Rests, Leaves, Asks, Finds, Creates, Records
  <2> QED
    BY <2>2, BlockedIsDenied
<1> QED
  BY <1>1, SpecSteps, CallsAlways, StoresHold, PTL DEF Steps, RevocationDecides
=============================================================================
