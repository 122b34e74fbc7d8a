------------------------------ MODULE Approval ------------------------------
(***************************************************************************)
(* The approval log: internal/approval.  Threads of one or more processes  *)
(* call Store.CreatePending, for a request id and the shape of the action  *)
(* (agent, action, resource, input...), and Store.Resolve.  Both read the  *)
(* whole log under the mutex and append one event, or answer without       *)
(* writing.                                                                *)
(***************************************************************************)
EXTENDS JsonlStore, FiniteSets

CONSTANTS
    Ids,            \* approval ids
    RequestIds,     \* request ids, the caller's own or generated for it
    Shapes,         \* what the request asks for, apart from its id
    LongShapes,     \* shapes whose line exceeds the scanner's buffer
    Unreadable      \* a reader is given an error

ASSUME ShapeAssumption == LongShapes \subseteq Shapes

VARIABLES
    told,           \* the answers of CreatePending: request, and approval id
    verdicts        \* the answers of Resolve: approval id and verdict

vars == <<log, draft, told, verdicts>>

Verdicts == {"approved", "denied"}

Created(id, rid, shape) ==
    [id |-> id, status |-> "pending", request_id |-> rid, shape |-> shape]

\* Fault: the event repeats the status of the record it resolves.
ResolvedPending(id, verdict) == [id |-> id, status |-> "pending"]

\* A resolution carries no request, and its request id is never read back.
Resolved(id, verdict) == [id |-> id, status |-> verdict]

Event ==
    [id : Ids, status : {"pending"}, request_id : RequestIds, shape : Shapes]
      \cup [id : Ids, status : Verdicts]

Answer == [id : Ids, request_id : RequestIds, shape : Shapes]

Init == StoreInit /\ told = {} /\ verdicts = {}

-----------------------------------------------------------------------------
\* snapshotLocked, for a log that decodes.  A record is its creation with
\* the status of its last event.

CreationsOf(f, id) ==
    {i \in DOMAIN f : f[i].event.id = id /\ f[i].event.status = "pending"}

EventsOf(f, id) == {i \in DOMAIN f : f[i].event.id = id}

Last(S) == CHOOSE i \in S : \A j \in S : j <= i

\* Fault: a record keeps the status of its creation.
StatusOfFirst(f, id) == IF EventsOf(f, id) = {} THEN "absent" ELSE "pending"

StatusOf(f, id) ==
    IF EventsOf(f, id) = {} THEN "absent" ELSE f[Last(EventsOf(f, id))].event.status

CreationOf(f, id) == f[Last(CreationsOf(f, id))].event

PendingFor(f, rid) ==
    {id \in Ids : StatusOf(f, id) = "pending" /\ CreationOf(f, id).request_id = rid}

\* No event resolves an approval that was not created before.
Orderly(f) ==
    \A i \in DOMAIN f :
        f[i].event.status \in Verdicts =>
            \E j \in CreationsOf(f, f[i].event.id) : j < i

\* snapshotLocked returns no error.
Loads(f) == Scans(f) /\ Orderly(f)

Minted ==
    {log[i].event.id : i \in DOMAIN log}
      \cup {draft[t].event.id : t \in {u \in Threads : Writing(u)}}
      \cup {a.id : a \in told}

\* ids.New returns an id that no approval has; which one makes no difference.
NewId == CHOOSE i \in Ids : i \notin Minted

-----------------------------------------------------------------------------
\* Fault: pending approvals are not looked for.
KnownPendingNone(rid) == {}

KnownPending(rid) == PendingFor(log, rid)

\* CreatePending finds a pending approval for the request id and returns
\* it.  The rest of the request is not looked at.
CreateAgain(t, rid, shape, id) ==
    /\ LockFree(t) /\ Loads(log)
    /\ id \in KnownPending(rid)
    /\ told' = told \cup {[id |-> id, request_id |-> rid, shape |-> shape]}
    /\ UNCHANGED <<log, draft, verdicts>>

\* CreatePending finds none and composes a created event.
Create(t, rid, shape) ==
    /\ LockFree(t) /\ Loads(log)
    /\ KnownPending(rid) = {}
    /\ Minted # Ids
    /\ Begin(t, Line(Created(NewId, rid, shape), shape \notin LongShapes))
    /\ UNCHANGED <<told, verdicts>>

\* Fault: the status of the record is not looked at.
MayResolveAny(id) == StatusOf(log, id) # "absent"

\* Fault: an id without a record is resolved as well.
MayResolveUnknown(id) == StatusOf(log, id) \in {"absent", "pending"}

\* The record exists and its status is pending.
MayResolve(id) == StatusOf(log, id) = "pending"

\* Resolve finds a pending record and composes a resolved event, whose
\* reason may make its line too long.
Resolve(t, id, verdict) ==
    /\ LockFree(t) /\ Loads(log)
    /\ MayResolve(id)
    /\ \E fits \in BOOLEAN : Begin(t, Line(Resolved(id, verdict), fits))
    /\ UNCHANGED <<told, verdicts>>

\* The append succeeds and the call returns the record.
Done(t) ==
    /\ Commit(t)
    /\ LET e == draft[t].event
       IN  IF e.status = "pending"
           THEN /\ told' = told \cup
                        {[id |-> e.id, request_id |-> e.request_id, shape |-> e.shape]}
                /\ UNCHANGED verdicts
           ELSE /\ verdicts' = verdicts \cup {<<e.id, e.status>>}
                /\ UNCHANGED told

\* The append fails and the call returns its error.
Fails(t) == Fail(t) /\ UNCHANGED <<told, verdicts>>

\* A call returns an error and changes nothing: the log does not load, or
\* the read met another process's append.
LoadFails(t) ==
    /\ LockFree(t)
    /\ \E f \in Views(t) : ~Loads(f)
    /\ UNCHANGED vars

\* Resolve returns an error: the id is unknown, or the record not pending.
ResolveRefused(t, id) ==
    /\ LockFree(t) /\ Loads(log)
    /\ ~MayResolve(id)
    /\ UNCHANGED vars

\* List and Get return what the log holds.
Read(t) == LockFree(t) /\ Loads(log) /\ UNCHANGED vars

\* Process p dies during an append, and starts again.
Crash(p) ==
    /\ \E t \in Threads : ProcOf[t] = p /\ Writing(t)
    /\ Halt(p)
    /\ UNCHANGED <<told, verdicts>>

Next ==
    \/ \E t \in Threads :
          \/ \E rid \in RequestIds, shape \in Shapes :
                \/ Create(t, rid, shape)
                \/ \E id \in Ids : CreateAgain(t, rid, shape, id)
          \/ \E id \in Ids :
                \/ \E verdict \in Verdicts : Resolve(t, id, verdict)
                \/ ResolveRefused(t, id)
          \/ Done(t)
          \/ Fails(t)
          \/ LoadFails(t)
          \/ Read(t)
    \/ \E p \in Procs : Crash(p)

Spec == Init /\ [][Next]_vars

-----------------------------------------------------------------------------
\* The log holds created and resolved events of the code's shape, a draft is
\* such an event, and callers were told ids and verdicts.
TypeOK ==
    /\ log \in Seq(Lines(Event))
    /\ draft \in [Threads -> Lines(Event) \cup {NoLine}]
    /\ told \subseteq Answer
    /\ verdicts \subseteq Ids \X Verdicts

\* A log that decodes loads: no step of any call, failed or cut short,
\* leaves a resolution without its creation.  Such a log would refuse every
\* later decision that needs an approval.
DecodingLogLoads == Scans(log) => Loads(log)

\* At most one approval is pending for a request id: repeated submissions
\* while one is open are given that one.
OnePendingPerRequest ==
    Loads(log) =>
        \A rid \in RequestIds : Cardinality(PendingFor(log, rid)) <= 1

\* An approval has one verdict: two operators (or two commands of one) are
\* never both told that theirs was recorded, unless it is the same.
OneVerdict ==
    \A v, w \in verdicts : v[1] = w[1] => v = w

\* What a caller was told stands, in every log that loads: the verdict that
\* was acknowledged is the status of the approval, and an approval id that
\* was handed out is the id of a record for that request id.
AnswersStand ==
    Loads(log) =>
        /\ \A v \in verdicts : StatusOf(log, v[1]) = v[2]
        /\ \A a \in told :
              /\ CreationsOf(log, a.id) # {}
              /\ CreationOf(log, a.id).request_id = a.request_id

\* "Approval must be tied to the exact action shape that was reviewed"
\* (SECURITY.md): an approval id handed out for a request is the id of a
\* record of that same request.
TiedToShape ==
    Loads(log) => \A a \in told : CreationOf(log, a.id).shape = a.shape

\* Resolution is final: no step changes the status of an approval that is
\* approved or denied, nor makes one that exists disappear.
ResolutionIsFinal ==
    [][Loads(log) /\ Loads(log)' =>
          \A id \in Ids :
              /\ StatusOf(log, id) \in Verdicts =>
                    StatusOf(log, id)' = StatusOf(log, id)
              /\ StatusOf(log, id) = "pending" =>
                    StatusOf(log, id)' # "absent"]_vars

\* What List and Get read.
View ==
    IF Loads(log)
    THEN [id \in Ids |->
            IF StatusOf(log, id) = "absent" THEN [status |-> "absent"]
            ELSE [status |-> StatusOf(log, id),
                  request_id |-> CreationOf(log, id).request_id]]
    ELSE Unreadable

Lifecycle == INSTANCE ApprovalLifecycle WITH view <- View

\* The file, its readers and its writers implement the promised lifecycle.
ImplementsLifecycle == Lifecycle!Spec
=============================================================================
