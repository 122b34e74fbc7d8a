--------------------------- MODULE ApprovalProofs ---------------------------
(***************************************************************************)
(* Theorems about the approval log, for any number of threads, approvals,  *)
(* requests and shapes: for every number of processes where it says        *)
(* nothing else, and for one process (OneProcess) otherwise.               *)
(***************************************************************************)
EXTENDS Approval, StoreProofs, FiniteSetTheorems

\* All threads run in one process: the server, and no command beside it.
OneProcess == \A p, q \in Procs : p = q

\* What an event of the log has.
LEMMA EventFields ==
    ASSUME NEW l \in Lines(Event)
    PROVE  /\ l.event \in Event
           /\ l.event.id \in Ids
           /\ l.event.status \in {"pending"} \cup Verdicts
           /\ l.event.status = "pending" =>
                 /\ l.event.request_id \in RequestIds
                 /\ l.event.shape \in Shapes
                 /\ [id |-> l.event.id, request_id |-> l.event.request_id,
                     shape |-> l.event.shape] \in Answer
<1>1. l.event \in Event
  BY DEF Lines
<1> QED
  BY <1>1 DEF Event, Verdicts, Answer

LEMMA MintedType == TypeOK => Minted \subseteq Ids
<1> SUFFICES ASSUME TypeOK PROVE Minted \subseteq Ids
  OBVIOUS
<1>0. \A i \in DOMAIN log : log[i] \in Lines(Event)
  BY DEF TypeOK
<1>1. \A i \in DOMAIN log : log[i].event.id \in Ids
  BY <1>0, EventFields
<1>2. \A t \in Threads : Writing(t) => draft[t].event.id \in Ids
  BY EventFields DEF TypeOK, Writing
<1>3. \A a \in told : a.id \in Ids
  BY DEF TypeOK, Answer
<1> QED
  BY <1>1, <1>2, <1>3 DEF Minted

\* A new id is an id that nothing refers to.
LEMMA NewIdIsNew ==
    ASSUME TypeOK, Minted # Ids
    PROVE  NewId \in Ids /\ NewId \notin Minted
BY MintedType DEF NewId

\* The lines that CreatePending and Resolve compose are lines of the log.
LEMMA Composed ==
    ASSUME NEW id \in Ids, NEW fits \in BOOLEAN
    PROVE  /\ \A rid \in RequestIds, shape \in Shapes :
                 Line(Created(id, rid, shape), fits) \in Lines(Event)
           /\ \A verdict \in Verdicts :
                 Line(Resolved(id, verdict), fits) \in Lines(Event)
BY DEF Line, Created, Resolved, Lines, Event

-----------------------------------------------------------------------------
(* Types *)

LEMMA InitType == Init => TypeOK
BY DEF Init, StoreInit, TypeOK

LEMMA TypeOKInductive == TypeOK /\ [Next]_vars => TypeOK'
<1> SUFFICES ASSUME TypeOK, [Next]_vars PROVE TypeOK'
  OBVIOUS
<1> DEFINE E == Event
<1>0. StoreType(E)
  BY DEF TypeOK, StoreType
<1>1. ASSUME NEW t \in Threads, NEW rid \in RequestIds, NEW shape \in Shapes,
             Create(t, rid, shape)
      PROVE  TypeOK'
  <2>1. Line(Created(NewId, rid, shape), shape \notin LongShapes) \in Lines(Event)
    BY <1>1, NewIdIsNew, Composed DEF Create
  <2> QED
    BY <1>1, <2>1 DEF TypeOK, Create, Begin
<1>2. ASSUME NEW t \in Threads, NEW rid \in RequestIds, NEW shape \in Shapes,
             NEW id \in Ids, CreateAgain(t, rid, shape, id)
      PROVE  TypeOK'
  <2>1. [id |-> id, request_id |-> rid, shape |-> shape] \in Answer
    BY DEF Answer
  <2> QED
    BY <1>2, <2>1 DEF TypeOK, CreateAgain
<1>3. ASSUME NEW t \in Threads, NEW id \in Ids, NEW verdict \in Verdicts,
             Resolve(t, id, verdict)
      PROVE  TypeOK'
  <2>1. \A fits \in BOOLEAN : Line(Resolved(id, verdict), fits) \in Lines(Event)
    BY Composed
  <2> QED
    BY <1>3, <2>1 DEF TypeOK, Resolve, Begin
<1>4. ASSUME NEW t \in Threads, Done(t) PROVE TypeOK'
  <2>1. StoreType(E)' /\ draft[t] \in Lines(Event)
    BY <1>0, <1>4, CallEnds DEF Done
  <2> DEFINE e == draft[t].event
  <2>2. CASE e.status = "pending"
    <3>1. told' \subseteq Answer /\ verdicts' = verdicts
      BY <1>4, <2>1, <2>2, EventFields DEF Done, TypeOK
    <3> QED
      BY <2>1, <3>1 DEF TypeOK, StoreType
  <2>3. CASE e.status # "pending"
    <3>1. <<e.id, e.status>> \in Ids \X Verdicts
      BY <2>1, <2>3, EventFields
    <3>2. told' = told /\ verdicts' \subseteq Ids \X Verdicts
      BY <1>4, <2>3, <3>1 DEF Done, TypeOK
    <3> QED
      BY <2>1, <3>2 DEF TypeOK, StoreType
  <2> QED
    BY <2>2, <2>3
<1>5. ASSUME NEW t \in Threads, Fails(t) PROVE TypeOK'
  <2>1. StoreType(E)'
    BY <1>0, <1>5, CallEnds DEF Fails
  <2> QED
    BY <1>5, <2>1 DEF TypeOK, StoreType, Fails
<1>6. ASSUME NEW p \in Procs, Crash(p) PROVE TypeOK'
  <2>1. StoreType(E)'
    BY <1>0, <1>6, ProcessEnds DEF Crash
  <2> QED
    BY <1>6, <2>1 DEF TypeOK, StoreType, Crash
<1>7. CASE UNCHANGED vars
  BY <1>7 DEF TypeOK, vars
<1> QED
  BY <1>1, <1>2, <1>3, <1>4, <1>5, <1>6, <1>7
  DEF Next, ResolveRefused, LoadFails, Read

\* The state keeps its types, for any number of processes.
THEOREM TypeCorrect == Spec => []TypeOK
<1>1. TypeOK /\ [Next]_vars => TypeOK'
  BY TypeOKInductive
<1> QED
  BY <1>1, InitType, PTL DEF Spec

-----------------------------------------------------------------------------
(* What a step does to the events of the log *)

\* Where an append ends, the log continues with one of the drafts.
LEMMA StepContinues ==
    ASSUME TypeOK, Ends
    PROVE  \/ log' = log
           \/ \E t \in Threads :
                 /\ Writing(t)
                 /\ draft[t] \in Lines(Event)
                 /\ log' \in Landings(log, draft[t])
                 /\ Continues(log, log', draft[t])
<1> DEFINE E == Event
<1>1. StoreType(E)
  BY DEF TypeOK, StoreType
<1>2. \/ log' = log
      \/ \E t \in Threads :
            /\ Writing(t)
            /\ draft[t] \in Lines(E)
            /\ log' \in Landings(log, draft[t])
            /\ Continues(log, log', draft[t])
  BY <1>1, EndsContinue
<1> QED
  BY <1>2

\* So does every step, or it leaves the log.
LEMMA StepEnds ==
    ASSUME TypeOK, [Next]_vars
    PROVE  log' = log \/ Ends
<1> DEFINE E == Event
<1>0. StoreType(E)
  BY DEF TypeOK, StoreType
<1>1. ASSUME NEW t \in Threads, Done(t) \/ Fails(t) PROVE Ends
  BY <1>0, <1>1, CallEnds DEF Done, Fails
<1>2. ASSUME NEW p \in Procs, Crash(p) PROVE Ends
  BY <1>0, <1>2, ProcessEnds DEF Crash
<1>3. ASSUME NEW t \in Threads, NEW rid \in RequestIds, NEW shape \in Shapes,
             Create(t, rid, shape)
      PROVE  log' = log
  BY <1>3 DEF Create, Begin
<1>4. ASSUME NEW t \in Threads, NEW id \in Ids, NEW verdict \in Verdicts,
             Resolve(t, id, verdict)
      PROVE  log' = log
  BY <1>4 DEF Resolve, Begin
<1> QED
  BY <1>1, <1>2, <1>3, <1>4
  DEF Next, CreateAgain, ResolveRefused, LoadFails, Read, vars

-----------------------------------------------------------------------------
(* No resolution without its creation *)

\* The creation that a resolution needs is in the log before it, for the
\* resolutions in the log and for those about to be written.  It stays there
\* even in a log that no longer decodes.
OrderInv ==
    /\ Orderly(log)
    /\ \A t \in Threads :
          Writing(t) /\ draft[t].event.status \in Verdicts =>
              CreationsOf(log, draft[t].event.id) # {}

LEMMA ContinuesOrderly ==
    ASSUME NEW f \in Seq(Lines(Event)), NEW g \in Seq(Lines(Event)), NEW l,
           Continues(f, g, l), Orderly(f),
           l.event.status \in Verdicts => CreationsOf(f, l.event.id) # {}
    PROVE  /\ Orderly(g)
           /\ \A id : CreationsOf(f, id) \subseteq CreationsOf(g, id)
<1>1. \A id : CreationsOf(f, id) \subseteq CreationsOf(g, id)
  BY DEF Continues, CreationsOf
<1>2. ASSUME NEW i \in DOMAIN g, g[i].event.status \in Verdicts
      PROVE  \E j \in CreationsOf(g, g[i].event.id) : j < i
  <2>1. CASE i \in DOMAIN f
    BY <1>1, <1>2, <2>1 DEF Continues, Orderly
  <2>2. CASE i \notin DOMAIN f
    <3>1. g[i].event = l.event
      BY <2>2 DEF Continues
    <3>2. PICK j \in CreationsOf(f, l.event.id) : TRUE
      BY <1>2, <3>1
    <3>3. j \in DOMAIN f /\ j \in DOMAIN g /\ i \in Nat /\ j \in Nat
      BY <3>2 DEF CreationsOf, Continues
    <3>4. j <= i /\ j # i
      BY <2>2, <3>3 DEF Continues
    <3> QED
      BY <1>1, <3>1, <3>2, <3>3, <3>4
  <2> QED
    BY <2>1, <2>2
<1> QED
  BY <1>1, <1>2 DEF Orderly

\* Ending an append keeps the order.
LEMMA EndsOrderly ==
    ASSUME TypeOK, TypeOK', OrderInv, Ends
    PROVE  OrderInv'
<1>1. \A t \in Threads : Writing(t)' => Writing(t) /\ draft'[t] = draft[t]
  BY DEF Ends, Writing
<1>2. CASE log' = log
  BY <1>1, <1>2 DEF OrderInv
<1>3. CASE log' # log
  <2>1. PICK t \in Threads : Writing(t) /\ Continues(log, log', draft[t])
    BY <1>3, StepContinues
  <2>2. /\ Orderly(log')
        /\ \A id : CreationsOf(log, id) \subseteq CreationsOf(log', id)
    BY <2>1, ContinuesOrderly DEF OrderInv, TypeOK
  <2> QED
    BY <1>1, <2>2 DEF OrderInv
<1> QED
  BY <1>2, <1>3

\* An approval with a status was created.
LEMMA KnownWasCreated ==
    ASSUME NEW f \in Seq(Lines(Event)), Orderly(f), NEW id,
           StatusOf(f, id) # "absent"
    PROVE  CreationsOf(f, id) # {}
<1>1. PICK i \in EventsOf(f, id) : TRUE
  BY DEF StatusOf
<1>2. i \in DOMAIN f /\ f[i] \in Lines(Event) /\ f[i].event.id = id
  BY <1>1 DEF EventsOf
<1>3. CASE f[i].event.status = "pending"
  BY <1>2, <1>3 DEF CreationsOf
<1>4. CASE f[i].event.status \in Verdicts
  BY <1>2, <1>4 DEF Orderly
<1> QED
  BY <1>2, <1>3, <1>4, EventFields

LEMMA OrderInductive ==
    ASSUME TypeOK, TypeOK', OrderInv, [Next]_vars
    PROVE  OrderInv'
<1> DEFINE E == Event
<1>0. StoreType(E)
  BY DEF TypeOK, StoreType
<1>1. ASSUME NEW t \in Threads, NEW rid \in RequestIds, NEW shape \in Shapes,
             Create(t, rid, shape)
      PROVE  OrderInv'
  <2> DEFINE l == Line(Created(NewId, rid, shape), shape \notin LongShapes)
  <2>1. log' = log /\ draft' = [draft EXCEPT ![t] = l]
    BY <1>1 DEF Create, Begin
  <2>2. l.event.status \notin Verdicts
    BY DEF Line, Created, Verdicts
  <2>3. \A u \in Threads : draft'[u] = draft[u] \/ draft'[u] = l
    BY <2>1 DEF TypeOK
  <2> QED
    BY <2>1, <2>2, <2>3 DEF OrderInv, Writing
<1>2. ASSUME NEW t \in Threads, NEW id \in Ids, NEW verdict \in Verdicts,
             Resolve(t, id, verdict)
      PROVE  OrderInv'
  <2>1. PICK fits \in BOOLEAN : Begin(t, Line(Resolved(id, verdict), fits))
    BY <1>2 DEF Resolve
  <2> DEFINE l == Line(Resolved(id, verdict), fits)
  <2>2. log' = log /\ draft' = [draft EXCEPT ![t] = l]
    BY <2>1 DEF Begin
  <2>3. CreationsOf(log, id) # {}
    BY <1>2, KnownWasCreated DEF Resolve, MayResolve, OrderInv, TypeOK
  <2>4. l.event.id = id
    BY DEF Line, Resolved
  <2>5. \A u \in Threads : draft'[u] = draft[u] \/ draft'[u] = l
    BY <2>2 DEF TypeOK
  <2> QED
    BY <2>2, <2>3, <2>4, <2>5 DEF OrderInv, Writing
<1>3. ASSUME NEW t \in Threads, Done(t) \/ Fails(t) PROVE OrderInv'
  BY <1>0, <1>3, CallEnds, EndsOrderly DEF Done, Fails
<1>4. ASSUME NEW p \in Procs, Crash(p) PROVE OrderInv'
  BY <1>0, <1>4, ProcessEnds, EndsOrderly DEF Crash
<1>5. ASSUME UNCHANGED <<log, draft>> PROVE OrderInv'
  BY <1>5 DEF OrderInv, Writing
<1> QED
  BY <1>1, <1>2, <1>3, <1>4, <1>5
  DEF Next, CreateAgain, ResolveRefused, LoadFails, Read, vars

LEMMA OrderAlways == Spec => [](TypeOK /\ OrderInv)
<1>1. Init => TypeOK /\ OrderInv
  BY InitType DEF Init, StoreInit, OrderInv, Orderly, Writing
<1>2. TypeOK /\ OrderInv /\ [Next]_vars => (TypeOK /\ OrderInv)'
  BY TypeOKInductive, OrderInductive
<1> QED
  BY <1>1, <1>2, PTL DEF Spec

\* A log that decodes loads, for any number of processes: no failure, crash or
\* race leaves a resolution without its creation.
THEOREM LogLoads == Spec => []DecodingLogLoads
<1>1. TypeOK /\ OrderInv => DecodingLogLoads
  BY DEF OrderInv, DecodingLogLoads, Loads
<1> QED
  BY <1>1, OrderAlways, PTL

-----------------------------------------------------------------------------
(* The life of an approval in the log *)

\* An approval has one creation and then at most one resolution.
OneLife(f) ==
    \A i, j \in DOMAIN f :
        i < j /\ f[i].event.id = f[j].event.id =>
            f[i].event.status = "pending" /\ f[j].event.status \in Verdicts

\* Two approvals that are pending are for different request ids.
OnePending(f) ==
    \A a, b \in Ids :
        /\ StatusOf(f, a) = "pending" /\ StatusOf(f, b) = "pending"
        /\ CreationOf(f, a).request_id = CreationOf(f, b).request_id
        => a = b

LifeOf(f) == Orderly(f) /\ OneLife(f) /\ OnePending(f)

\* The call that composed event e found the log f ready for it.
Fits(f, e) ==
    IF e.status = "pending"
    THEN EventsOf(f, e.id) = {} /\ PendingFor(f, e.request_id) = {}
    ELSE StatusOf(f, e.id) = "pending"

\* The three ages of an approval: no line, its creation at i, its creation
\* at i and its resolution at j.
Unborn(f, id) == EventsOf(f, id) = {} /\ StatusOf(f, id) = "absent"

Open(f, id, i) ==
    /\ i \in DOMAIN f /\ EventsOf(f, id) = {i} /\ CreationsOf(f, id) = {i}
    /\ f[i].event.id = id /\ f[i].event.status = "pending"
    /\ StatusOf(f, id) = "pending" /\ CreationOf(f, id) = f[i].event

Settled(f, id, i, j) ==
    /\ i \in DOMAIN f /\ j \in DOMAIN f /\ i < j
    /\ EventsOf(f, id) = {i, j} /\ CreationsOf(f, id) = {i}
    /\ f[i].event.id = id /\ f[i].event.status = "pending"
    /\ f[j].event.id = id /\ f[j].event.status \in Verdicts
    /\ StatusOf(f, id) = f[j].event.status /\ CreationOf(f, id) = f[i].event

LEMMA LastIs ==
    ASSUME NEW S \in SUBSET Nat, NEW i \in S, \A j \in S : j <= i
    PROVE  Last(S) = i
<1>1. Last(S) \in S /\ \A j \in S : j <= Last(S)
  BY Zenon DEF Last
<1>2. Last(S) \in Nat /\ i \in Nat /\ Last(S) <= i /\ i <= Last(S)
  BY <1>1
<1> QED
  BY <1>2

LEMMA LastOfTwo ==
    ASSUME NEW i \in Nat
    PROVE  Last({i}) = i /\ \A j \in Nat : i < j => Last({i, j}) = j
<1>1. {i} \subseteq Nat /\ \A m \in {i} : m <= i
  OBVIOUS
<1>2. ASSUME NEW j \in Nat, i < j
      PROVE  {i, j} \subseteq Nat /\ \A m \in {i, j} : m <= j
  BY <1>2
<1> QED
  BY <1>1, <1>2, LastIs

LEMMA Ages ==
    ASSUME NEW f \in Seq(Lines(Event)), Orderly(f), OneLife(f), NEW id
    PROVE  \/ Unborn(f, id)
           \/ \E i \in DOMAIN f : Open(f, id, i)
           \/ \E i, j \in DOMAIN f : Settled(f, id, i, j)
<1>0. /\ DOMAIN f \subseteq Nat
      /\ EventsOf(f, id) \subseteq DOMAIN f /\ CreationsOf(f, id) \subseteq EventsOf(f, id)
      /\ \A i \in DOMAIN f : f[i].event.status \in {"pending"} \cup Verdicts
  <2>1. \A i \in DOMAIN f : f[i] \in Lines(Event)
    OBVIOUS
  <2>2. \A i \in DOMAIN f : f[i].event.status \in {"pending"} \cup Verdicts
    BY <2>1, EventFields
  <2> QED
    BY <2>2 DEF EventsOf, CreationsOf
<1>1. CASE EventsOf(f, id) = {}
  BY <1>1 DEF Unborn, StatusOf
<1>2. CASE EventsOf(f, id) # {}
  <2>1. PICK k \in EventsOf(f, id) : TRUE
    BY <1>2
  <2>2. PICK i \in CreationsOf(f, id) : TRUE
    <3>1. k \in DOMAIN f /\ f[k].event.id = id
      BY <2>1 DEF EventsOf
    <3>2. CASE f[k].event.status = "pending"
      BY <3>1, <3>2 DEF CreationsOf
    <3>3. CASE f[k].event.status \in Verdicts
      BY <3>1, <3>3 DEF Orderly
    <3> QED
      BY <1>0, <3>1, <3>2, <3>3
  <2>3. i \in DOMAIN f /\ i \in Nat /\ f[i].event.id = id
        /\ f[i].event.status = "pending" /\ i \in EventsOf(f, id)
    BY <1>0, <2>2 DEF CreationsOf
  <2>4. \A j \in EventsOf(f, id) : j = i \/ (i < j /\ f[j].event.status \in Verdicts)
    <3> TAKE j \in EventsOf(f, id)
    <3>1. j \in DOMAIN f /\ j \in Nat /\ f[j].event.id = id
      BY <1>0 DEF EventsOf
    <3>2. CASE j < i
      BY <2>3, <3>1, <3>2 DEF OneLife, Verdicts
    <3>3. CASE i < j
      BY <2>3, <3>1, <3>3 DEF OneLife
    <3> QED
      BY <2>3, <3>1, <3>2, <3>3
  <2>5. CreationsOf(f, id) = {i} /\ CreationOf(f, id) = f[i].event
    <3>1. \A j \in CreationsOf(f, id) : j = i
      BY <1>0, <2>4 DEF CreationsOf, Verdicts
    <3>2. CreationsOf(f, id) = {i}
      BY <2>2, <3>1
    <3>3. Last({i}) = i
      BY <2>3, LastOfTwo
    <3> QED
      BY <3>2, <3>3 DEF CreationOf
  <2>6. CASE EventsOf(f, id) = {i}
    <3>1. Last(EventsOf(f, id)) = i
      BY <2>3, <2>6, LastOfTwo
    <3> QED
      BY <2>3, <2>5, <2>6, <3>1 DEF Open, StatusOf
  <2>7. CASE EventsOf(f, id) # {i}
    <3>1. PICK j \in EventsOf(f, id) : j # i
      BY <2>3, <2>7
    <3>2. /\ j \in DOMAIN f /\ j \in Nat /\ i < j
          /\ f[j].event.id = id /\ f[j].event.status \in Verdicts
      BY <1>0, <2>4, <3>1 DEF EventsOf
    <3>3. \A m \in EventsOf(f, id) : m = i \/ m = j
      <4> TAKE m \in EventsOf(f, id)
      <4>1. m \in DOMAIN f /\ m \in Nat /\ f[m].event.id = id
        BY <1>0 DEF EventsOf
      <4>2. ASSUME m # i, m < j PROVE FALSE
        BY <2>4, <3>2, <4>1, <4>2 DEF OneLife, Verdicts
      <4>3. ASSUME m # i, j < m PROVE FALSE
        BY <2>4, <3>2, <4>1, <4>3 DEF OneLife, Verdicts
      <4> QED
        BY <3>2, <4>1, <4>2, <4>3
    <3>4. EventsOf(f, id) = {i, j}
      BY <2>3, <3>1, <3>3
    <3>5. Last(EventsOf(f, id)) = j
      BY <2>3, <3>2, <3>4, LastOfTwo
    <3> QED
      BY <2>3, <2>5, <3>2, <3>4, <3>5 DEF Settled, StatusOf
  <2> QED
    BY <2>6, <2>7
<1> QED
  BY <1>1, <1>2

\* What an append leaves of the approvals that it is not about, and of all
\* approvals when its event did not get into the file.
LEMMA SameElsewhere ==
    ASSUME NEW f \in Seq(Lines(Event)), NEW g \in Seq(Lines(Event)), NEW l,
           Continues(f, g, l), Orderly(f), OneLife(f), NEW id,
           id # l.event.id \/ DOMAIN g = DOMAIN f
    PROVE  /\ EventsOf(g, id) = EventsOf(f, id)
           /\ StatusOf(g, id) = StatusOf(f, id)
           /\ StatusOf(f, id) # "absent" => CreationOf(g, id) = CreationOf(f, id)
<1>1. /\ EventsOf(g, id) = EventsOf(f, id)
      /\ CreationsOf(g, id) = CreationsOf(f, id)
  BY DEF Continues, EventsOf, CreationsOf
<1>2. CASE Unborn(f, id)
  BY <1>1, <1>2 DEF Unborn, StatusOf
<1>3. ASSUME NEW i \in DOMAIN f, Open(f, id, i)
      PROVE  /\ StatusOf(g, id) = StatusOf(f, id)
             /\ CreationOf(g, id) = CreationOf(f, id)
  <2>1. i \in Nat /\ g[i].event = f[i].event
    BY DEF Continues
  <2>2. Last({i}) = i
    BY <2>1, LastOfTwo
  <2> QED
    BY <1>1, <1>3, <2>1, <2>2 DEF Open, StatusOf, CreationOf
<1>4. ASSUME NEW i \in DOMAIN f, NEW j \in DOMAIN f, Settled(f, id, i, j)
      PROVE  /\ StatusOf(g, id) = StatusOf(f, id)
             /\ CreationOf(g, id) = CreationOf(f, id)
  <2>1. /\ i \in Nat /\ j \in Nat /\ i < j
        /\ g[i].event = f[i].event /\ g[j].event = f[j].event
    BY <1>4 DEF Settled, Continues
  <2>2. Last({i}) = i /\ Last({i, j}) = j
    BY <2>1, LastOfTwo
  <2> QED
    BY <1>1, <1>4, <2>1, <2>2 DEF Settled, StatusOf, CreationOf
<1>5. \/ Unborn(f, id)
      \/ \E i \in DOMAIN f : Open(f, id, i)
      \/ \E i, j \in DOMAIN f : Settled(f, id, i, j)
  BY Ages
<1> QED
  BY <1>1, <1>2, <1>3, <1>4, <1>5 DEF Unborn

\* What an append whose event fits makes of its own approval: a creation
\* makes it pending, a resolution gives it its verdict.
LEMMA OwnLands ==
    ASSUME NEW f \in Seq(Lines(Event)), NEW g \in Seq(Lines(Event)),
           NEW l \in Lines(Event), Continues(f, g, l), DOMAIN g # DOMAIN f,
           Orderly(f), OneLife(f), Fits(f, l.event)
    PROVE  LET id == l.event.id
           IN  /\ StatusOf(g, id) = l.event.status
               /\ CreationOf(g, id) = IF l.event.status = "pending" THEN l.event
                                      ELSE CreationOf(f, id)
               /\ OneLife(g)
               /\ \E i \in EventsOf(g, id) : g[i].event = l.event
<1> DEFINE id == l.event.id
<1>1. PICK n \in DOMAIN g : n \notin DOMAIN f
  BY DEF Continues
<1>2. /\ DOMAIN f \subseteq Nat /\ DOMAIN g \subseteq Nat
      /\ DOMAIN g = DOMAIN f \cup {n}
      /\ g[n].event = l.event
      /\ \A i \in DOMAIN f : i < n /\ g[i].event = f[i].event
  <2>1. DOMAIN f \subseteq Nat /\ DOMAIN g \subseteq Nat
    OBVIOUS
  <2>2. \A i \in DOMAIN g \ DOMAIN f : i <= n /\ n <= i
    BY <1>1 DEF Continues
  <2>3. \A i \in DOMAIN g \ DOMAIN f : i = n
    BY <2>1, <2>2
  <2>4. \A i \in DOMAIN f : i <= n /\ i # n
    BY <1>1 DEF Continues
  <2>5. \A i \in DOMAIN f : i < n
    BY <1>1, <2>1, <2>4
  <2>6. DOMAIN g = DOMAIN f \cup {n}
    BY <1>1, <2>3 DEF Continues
  <2> QED
    BY <1>1, <2>1, <2>5, <2>6 DEF Continues
<1>3. EventsOf(g, id) = EventsOf(f, id) \cup {n} /\ n \in Nat
  BY <1>2 DEF EventsOf
<1>4. Last(EventsOf(g, id)) = n
  <2>1. EventsOf(g, id) \subseteq Nat /\ \A m \in EventsOf(g, id) : m <= n
    BY <1>2, <1>3 DEF EventsOf
  <2> QED
    BY <1>3, <2>1, LastIs
<1>5. StatusOf(g, id) = l.event.status
  BY <1>2, <1>3, <1>4 DEF StatusOf
<1>6. CASE l.event.status = "pending"
  <2>1. EventsOf(f, id) = {} /\ EventsOf(g, id) = {n}
    BY <1>3, <1>6 DEF Fits
  <2>2. CreationsOf(g, id) = {n}
    BY <1>2, <1>6, <2>1 DEF CreationsOf, EventsOf
  <2>3. CreationOf(g, id) = l.event
    BY <1>2, <1>3, <1>4, <2>1, <2>2 DEF CreationOf
  <2>4. \A i \in DOMAIN f : f[i].event.id # id
    BY <2>1 DEF EventsOf
  <2>5. OneLife(g)
    BY <1>2, <2>4 DEF OneLife
  <2> QED
    BY <1>2, <1>3, <1>5, <1>6, <2>3, <2>5
<1>7. CASE l.event.status # "pending"
  <2>1. l.event.status \in Verdicts /\ StatusOf(f, id) = "pending"
    BY <1>7, EventFields DEF Fits
  <2>2. PICK i \in DOMAIN f : Open(f, id, i)
    BY <2>1, Ages DEF Unborn, Settled, Verdicts
  <2>3. i \in Nat /\ i < n /\ g[i].event = f[i].event
    BY <1>2
  <2>4. CreationsOf(g, id) = {i}
    BY <1>2, <1>7, <2>2, <2>3 DEF Open, CreationsOf
  <2>5. CreationOf(g, id) = CreationOf(f, id)
    BY <2>2, <2>3, <2>4, LastOfTwo DEF Open, CreationOf
  <2>6. \A m \in DOMAIN f : f[m].event.id = id => f[m].event.status = "pending"
    BY <2>2 DEF Open, EventsOf
  <2>7. OneLife(g)
    <3> SUFFICES ASSUME NEW a \in DOMAIN g, NEW b \in DOMAIN g, a < b,
                        g[a].event.id = g[b].event.id
                 PROVE  g[a].event.status = "pending" /\ g[b].event.status \in Verdicts
      BY DEF OneLife
    <3>1. a \in DOMAIN f
      BY <1>2
    <3>2. CASE b \in DOMAIN f
      BY <1>2, <3>1, <3>2 DEF OneLife
    <3>3. CASE b = n
      BY <1>2, <2>1, <2>6, <3>1, <3>3
    <3> QED
      BY <1>2, <3>2, <3>3
  <2> QED
    BY <1>2, <1>3, <1>5, <1>7, <2>5, <2>7
<1> QED
  BY <1>6, <1>7

\* An append whose event fits keeps the lives of all approvals in order.
LEMMA LifeContinues ==
    ASSUME NEW f \in Seq(Lines(Event)), NEW g \in Seq(Lines(Event)),
           NEW l \in Lines(Event), Continues(f, g, l),
           LifeOf(f), Fits(f, l.event)
    PROVE  LifeOf(g)
<1>1. Orderly(g)
  <2>1. l.event.status \in Verdicts => CreationsOf(f, l.event.id) # {}
    BY KnownWasCreated DEF Fits, Verdicts, LifeOf
  <2> QED
    BY <2>1, ContinuesOrderly DEF LifeOf
<1>2. CASE DOMAIN g = DOMAIN f
  <2>1. OneLife(g)
    BY <1>2 DEF Continues, OneLife, LifeOf
  <2>2. OnePending(g)
    BY <1>2, SameElsewhere DEF OnePending, LifeOf
  <2> QED
    BY <1>1, <2>1, <2>2 DEF LifeOf
<1>3. CASE DOMAIN g # DOMAIN f
  <2> DEFINE id == l.event.id
  <2>1. /\ OneLife(g)
        /\ StatusOf(g, id) = l.event.status
        /\ l.event.status = "pending" => CreationOf(g, id) = l.event
    BY <1>3, OwnLands DEF LifeOf
  <2>2. \A a \in Ids : a # id /\ StatusOf(g, a) = "pending" =>
           StatusOf(f, a) = "pending" /\ CreationOf(g, a) = CreationOf(f, a)
    BY SameElsewhere DEF LifeOf
  <2>3. ASSUME NEW a \in Ids, a # id, StatusOf(g, a) = "pending",
               StatusOf(g, id) = "pending",
               CreationOf(g, a).request_id = CreationOf(g, id).request_id
        PROVE  FALSE
    <3>1. PendingFor(f, l.event.request_id) = {} /\ CreationOf(g, id) = l.event
      BY <2>1, <2>3 DEF Fits
    <3> QED
      BY <2>2, <2>3, <3>1 DEF PendingFor
  <2>4. OnePending(g)
    BY <2>2, <2>3 DEF OnePending, LifeOf
  <2> QED
    BY <1>1, <2>1, <2>4 DEF LifeOf
<1> QED
  BY <1>2, <1>3

-----------------------------------------------------------------------------
(* The inductive invariant of one process *)

\* What callers were told is in the log, while it decodes.
Known ==
    Scans(log) =>
        /\ \A a \in told :
              \E i \in CreationsOf(log, a.id) : log[i].event.request_id = a.request_id
        /\ \A v \in verdicts :
              \E i \in EventsOf(log, v[1]) : log[i].event.status = v[2]

\* A call that is about to append has the log it read: nobody else of its
\* process wrote since.
WriterInv(t) == Scans(log) /\ Fits(log, draft[t].event)

LifeInv ==
    /\ Mutex
    /\ \A t \in Threads : Writing(t) => WriterInv(t)
    /\ LifeOf(log)
    /\ Known
    /\ OneVerdict

\* With one process, a call that holds the mutex is the only one that writes.
LEMMA Alone ==
    ASSUME OneProcess
    PROVE  /\ \A t, u \in Threads : ProcOf[t] = ProcOf[u]
           /\ \A t \in Threads : LockFree(t) => \A u \in Threads : ~Writing(u)
           /\ Mutex => \A t, u \in Threads : Writing(t) /\ Writing(u) => t = u
<1>1. \A t, u \in Threads : ProcOf[t] = ProcOf[u]
  BY ThreadAssumption DEF OneProcess
<1> QED
  BY <1>1 DEF LockFree, Peers, Mutex

\* A line that has just been appended without error is in the log, or the
\* log does not decode.
LEMMA CommitLands ==
    ASSUME TypeOK, NEW t \in Threads, Commit(t), Scans(log')
    PROVE  Extended(log, log', draft[t])
<1> DEFINE l == draft[t]
<1>1. /\ Writing(t) /\ l \in Lines(Event) /\ log \in Seq(Lines(Event))
      /\ log' = AppendLine(log, l) /\ log' \in Landings(log, l)
  BY DEF TypeOK, Commit, Writing, Landings
<1>2. ~Garbled(log, log')
  BY <1>1, LandingStaysBroken
<1>3. ~Ragged(log)
  BY <1>1, <1>2, GarbleType DEF AppendLine
<1>4. log' = Append(log, l)
  BY <1>1, <1>3 DEF AppendLine
<1> QED
  BY <1>1, <1>3, <1>4, ExtendType

\* What the end of an append does to the log, whatever is told of it.
LEMMA EndsKeepLife ==
    ASSUME TypeOK, LifeInv, Ends
    PROVE  /\ Mutex'
           /\ LifeOf(log')
           /\ Scans(log') =>
                /\ Scans(log)
                /\ \A a \in told : \E i \in CreationsOf(log', a.id) :
                      log'[i].event.request_id = a.request_id
                /\ \A v \in verdicts : \E i \in EventsOf(log', v[1]) :
                      log'[i].event.status = v[2]
<1>1. Mutex'
  BY EndsKeepsMutex DEF LifeInv
<1>2. CASE log' = log
  BY <1>1, <1>2 DEF LifeInv, Known
<1>3. CASE log' # log
  <2>1. PICK t \in Threads :
           /\ Writing(t) /\ draft[t] \in Lines(Event)
           /\ log' \in Landings(log, draft[t])
           /\ Continues(log, log', draft[t])
    BY <1>3, StepContinues
  <2>2. log \in Seq(Lines(Event)) /\ log' \in Seq(Lines(Event))
    BY <2>1, LandingContinues DEF TypeOK
  <2>3. LifeOf(log')
    BY <2>1, <2>2, LifeContinues DEF LifeInv, WriterInv
  <2>4. Scans(log') => Scans(log)
    BY <2>1, <2>2, LandingStaysBroken
  <2>5. ASSUME Scans(log), NEW a \in told
        PROVE  \E i \in CreationsOf(log', a.id) :
                  log'[i].event.request_id = a.request_id
    <3>1. PICK i \in CreationsOf(log, a.id) : log[i].event.request_id = a.request_id
      BY <2>5 DEF LifeInv, Known
    <3>2. i \in CreationsOf(log', a.id) /\ log'[i].event = log[i].event
      BY <2>1 DEF Continues, CreationsOf
    <3> QED
      BY <3>1, <3>2
  <2>6. ASSUME Scans(log), NEW v \in verdicts
        PROVE  \E i \in EventsOf(log', v[1]) : log'[i].event.status = v[2]
    <3>1. PICK i \in EventsOf(log, v[1]) : log[i].event.status = v[2]
      BY <2>6 DEF LifeInv, Known
    <3>2. i \in EventsOf(log', v[1]) /\ log'[i].event = log[i].event
      BY <2>1 DEF Continues, EventsOf
    <3> QED
      BY <3>1, <3>2
  <2> QED
    BY <1>1, <2>3, <2>4, <2>5, <2>6
<1> QED
  BY <1>2, <1>3

\* An append that ends without success, its call alone.
LEMMA LostKeepsLife ==
    ASSUME TypeOK, LifeInv, Ends, UNCHANGED <<told, verdicts>>,
           \A t \in Threads : ~Writing(t)'
    PROVE  LifeInv'
<1>1. Known'
  BY EndsKeepLife DEF Known
<1>2. OneVerdict'
  BY DEF LifeInv, OneVerdict
<1> QED
  BY <1>1, <1>2, EndsKeepLife DEF LifeInv

\* An approval about to be resolved has no verdict, told or in the log.
LEMMA UnsettledUntold ==
    ASSUME TypeOK, LifeInv, Scans(log), NEW id, StatusOf(log, id) = "pending"
    PROVE  \A v \in verdicts : v[1] # id
<1> SUFFICES ASSUME NEW v \in verdicts, v[1] = id PROVE FALSE
  OBVIOUS
<1>1. PICK i \in EventsOf(log, id) : log[i].event.status = v[2]
  BY DEF LifeInv, Known
<1>2. v[2] \in Verdicts
  BY DEF TypeOK
<1>3. PICK j \in DOMAIN log : Open(log, id, j)
  BY Ages DEF LifeInv, LifeOf, TypeOK, Unborn, Settled, Verdicts
<1> QED
  BY <1>1, <1>2, <1>3 DEF Open, Verdicts

LEMMA DoneKeepsLife ==
    ASSUME OneProcess, TypeOK, LifeInv, NEW t \in Threads, Done(t)
    PROVE  LifeInv'
<1> DEFINE l == draft[t]
           e == l.event
           E == Event
<1>0. StoreType(E) /\ Commit(t) /\ Writing(t)
  BY DEF TypeOK, StoreType, Done, Commit
<1>1. /\ Ends /\ l \in Lines(Event) /\ draft'[t] = NoLine
      /\ \A u \in Threads : u # t => draft'[u] = draft[u]
      /\ log \in Seq(Lines(Event)) /\ log' \in Seq(Lines(Event))
      /\ log' \in Landings(log, l)
  BY <1>0, CallEnds DEF StoreType
<1>2. \A u \in Threads : ~Writing(u)'
  BY <1>0, <1>1, Alone DEF LifeInv, Writing
<1>3. Scans(log) /\ Fits(log, e) /\ LifeOf(log)
  BY <1>0 DEF LifeInv, WriterInv
<1>4. Scans(log') => \E i \in EventsOf(log', e.id) : log'[i].event = e
  <2> SUFFICES ASSUME Scans(log')
               PROVE  \E i \in EventsOf(log', e.id) : log'[i].event = e
    OBVIOUS
  <2>1. Extended(log, log', l)
    BY <1>0, CommitLands
  <2>2. DOMAIN log = 1..Len(log) /\ DOMAIN log' = 1..(Len(log) + 1) /\ Len(log) \in Nat
    BY <1>1, <2>1 DEF Extended
  <2>3. Len(log) + 1 \in DOMAIN log' /\ Len(log) + 1 \notin DOMAIN log
    BY <2>2
  <2> QED
    BY <1>1, <1>3, <2>3, LandingContinues, OwnLands DEF LifeOf
<1>5. Known'
  <2> SUFFICES ASSUME Scans(log')
               PROVE  /\ \A a \in told' : \E i \in CreationsOf(log', a.id) :
                            log'[i].event.request_id = a.request_id
                      /\ \A v \in verdicts' : \E i \in EventsOf(log', v[1]) :
                            log'[i].event.status = v[2]
    BY DEF Known
  <2>1. PICK i \in EventsOf(log', e.id) : log'[i].event = e
    BY <1>4
  <2>2. CASE e.status = "pending"
    <3>1. verdicts' = verdicts
          /\ told' = told \cup {[id |-> e.id, request_id |-> e.request_id,
                                 shape |-> e.shape]}
      BY <2>2 DEF Done
    <3>2. i \in CreationsOf(log', e.id)
      BY <2>1, <2>2 DEF EventsOf, CreationsOf
    <3> QED
      BY <1>1, <2>1, <3>1, <3>2, EndsKeepLife
  <2>3. CASE e.status # "pending"
    <3>1. told' = told /\ verdicts' = verdicts \cup {<<e.id, e.status>>}
      BY <2>3 DEF Done
    <3> QED
      BY <1>1, <2>1, <3>1, EndsKeepLife
  <2> QED
    BY <2>2, <2>3
<1>6. OneVerdict'
  <2>1. CASE e.status = "pending"
    BY <2>1 DEF Done, LifeInv, OneVerdict
  <2>2. CASE e.status # "pending"
    <3>1. \A v \in verdicts : v[1] # e.id
      BY <1>3, <2>2, UnsettledUntold DEF Fits
    <3>2. verdicts' = verdicts \cup {<<e.id, e.status>>}
      BY <2>2 DEF Done
    <3> QED
      BY <3>1, <3>2 DEF LifeInv, OneVerdict
  <2> QED
    BY <2>1, <2>2
<1> QED
  BY <1>1, <1>2, <1>5, <1>6, EndsKeepLife DEF LifeInv

LEMMA LifeInductive ==
    ASSUME OneProcess, TypeOK, LifeInv, [Next]_vars
    PROVE  LifeInv'
<1> DEFINE E == Event
<1>0. StoreType(E) /\ Mutex /\ log \in Seq(Lines(Event))
  BY DEF TypeOK, StoreType, LifeInv
<1>1. ASSUME NEW t \in Threads, NEW l \in Lines(Event), LockFree(t), Begin(t, l),
             Loads(log), Fits(log, l.event), UNCHANGED <<told, verdicts>>
      PROVE  LifeInv'
  <2>1. /\ Mutex' /\ log' = log /\ draft'[t] = l
        /\ \A u \in Threads : u # t => draft'[u] = draft[u]
    BY <1>0, <1>1, CallBegins
  <2>2. \A u \in Threads : Writing(u)' => u = t
    BY <1>1, <2>1, Alone DEF Writing
  <2>3. \A u \in Threads : Writing(u)' => WriterInv(u)'
    BY <1>1, <2>1, <2>2 DEF WriterInv, Loads
  <2> QED
    BY <1>1, <2>1, <2>3 DEF LifeInv, Known, OneVerdict
<1>2. ASSUME NEW t \in Threads, NEW rid \in RequestIds, NEW shape \in Shapes,
             Create(t, rid, shape)
      PROVE  LifeInv'
  <2> DEFINE l == Line(Created(NewId, rid, shape), shape \notin LongShapes)
  <2>1. NewId \in Ids /\ NewId \notin Minted /\ l \in Lines(Event)
    BY <1>2, NewIdIsNew, Composed DEF Create
  <2>2. EventsOf(log, NewId) = {}
    BY <2>1 DEF Minted, EventsOf
  <2>3. Fits(log, l.event)
    BY <1>2, <2>2 DEF Create, KnownPending, Fits, Line, Created
  <2> QED
    BY <1>1, <1>2, <2>1, <2>3 DEF Create
<1>3. ASSUME NEW t \in Threads, NEW id \in Ids, NEW verdict \in Verdicts,
             Resolve(t, id, verdict)
      PROVE  LifeInv'
  <2>1. PICK fits \in BOOLEAN : Begin(t, Line(Resolved(id, verdict), fits))
    BY <1>3 DEF Resolve
  <2> DEFINE l == Line(Resolved(id, verdict), fits)
  <2>2. l \in Lines(Event)
    BY Composed
  <2>3. Fits(log, l.event)
    BY <1>3 DEF Resolve, MayResolve, Fits, Line, Resolved, Verdicts
  <2> QED
    BY <1>1, <1>3, <2>1, <2>2, <2>3 DEF Resolve
<1>4. ASSUME NEW t \in Threads, NEW rid \in RequestIds, NEW shape \in Shapes,
             NEW id \in Ids, CreateAgain(t, rid, shape, id)
      PROVE  LifeInv'
  <2>1. StatusOf(log, id) = "pending" /\ CreationOf(log, id).request_id = rid
    BY <1>4 DEF CreateAgain, KnownPending, PendingFor
  <2>2. PICK i \in DOMAIN log : Open(log, id, i)
    BY <1>0, <2>1, Ages DEF LifeInv, LifeOf, Unborn, Settled, Verdicts
  <2>3. i \in CreationsOf(log, id) /\ log[i].event.request_id = rid
    BY <2>1, <2>2 DEF Open
  <2>4. /\ told' = told \cup {[id |-> id, request_id |-> rid, shape |-> shape]}
        /\ log' = log /\ draft' = draft /\ verdicts' = verdicts
    BY <1>4 DEF CreateAgain
  <2>5. Known'
    BY <2>3, <2>4 DEF LifeInv, Known
  <2> QED
    BY <2>4, <2>5 DEF LifeInv, Mutex, Writing, WriterInv, OneVerdict
<1>5. ASSUME NEW t \in Threads, Done(t) PROVE LifeInv'
  BY <1>5, DoneKeepsLife
<1>6. ASSUME NEW t \in Threads, Fails(t) PROVE LifeInv'
  <2>1. /\ Ends /\ Writing(t) /\ draft'[t] = NoLine
        /\ \A u \in Threads : u # t => draft'[u] = draft[u]
    BY <1>0, <1>6, CallEnds DEF Fails, Fail
  <2>2. \A u \in Threads : ~Writing(u)'
    BY <1>0, <2>1, Alone DEF Writing
  <2> QED
    BY <1>6, <2>1, <2>2, LostKeepsLife DEF Fails
<1>7. ASSUME NEW p \in Procs, Crash(p) PROVE LifeInv'
  <2>1. Ends /\ \A u \in Threads :
           draft'[u] = IF ProcOf[u] = p THEN NoLine ELSE draft[u]
    BY <1>0, <1>7, ProcessEnds DEF Crash
  <2>2. \A u \in Threads : ProcOf[u] = p
    BY ThreadAssumption DEF OneProcess
  <2>3. \A u \in Threads : ~Writing(u)'
    BY <2>1, <2>2 DEF Writing
  <2> QED
    BY <1>7, <2>1, <2>3, LostKeepsLife DEF Crash
<1>8. ASSUME UNCHANGED vars PROVE LifeInv'
  BY <1>8 DEF LifeInv, Mutex, Writing, WriterInv, Known, OneVerdict, vars
<1> QED
  BY <1>2, <1>3, <1>4, <1>5, <1>6, <1>7, <1>8
  DEF Next, ResolveRefused, LoadFails, Read

LEMMA LifeAlways == OneProcess => (Spec => [](TypeOK /\ LifeInv))
<1> SUFFICES ASSUME OneProcess PROVE Spec => [](TypeOK /\ LifeInv)
  OBVIOUS
<1>1. Init => TypeOK /\ LifeInv
  <2> SUFFICES ASSUME Init PROVE LifeInv
    BY InitType
  <2>1. log = <<>> /\ told = {} /\ verdicts = {} /\ \A t \in Threads : ~Writing(t)
    BY DEF Init, StoreInit, Writing
  <2>2. \A id : StatusOf(log, id) = "absent"
    BY <2>1 DEF StatusOf, EventsOf
  <2>3. LifeOf(log)
    BY <2>1, <2>2 DEF LifeOf, Orderly, OneLife, OnePending
  <2> QED
    BY <2>1, <2>3 DEF LifeInv, Mutex, Known, OneVerdict
<1>2. TypeOK /\ LifeInv /\ [Next]_vars => (TypeOK /\ LifeInv)'
  BY TypeOKInductive, LifeInductive
<1> QED
  BY <1>1, <1>2, PTL DEF Spec

-----------------------------------------------------------------------------
\* One process opens no second approval for a request id while one is pending.
THEOREM OnePendingAtATime ==
    ASSUME OneProcess
    PROVE  Spec => []OnePendingPerRequest
<1>1. LifeInv => OnePendingPerRequest
  <2> SUFFICES ASSUME LifeInv, NEW rid \in RequestIds
               PROVE  Cardinality(PendingFor(log, rid)) <= 1
    BY DEF OnePendingPerRequest
  <2> DEFINE S == PendingFor(log, rid)
  <2>1. \A a, b \in S : a = b
    BY DEF LifeInv, LifeOf, OnePending, PendingFor
  <2>2. S = {} \/ \E a : S = {a}
    BY <2>1
  <2>3. Cardinality(S) = 0 \/ Cardinality(S) = 1
    BY <2>2, FS_EmptySet, FS_Singleton
  <2> QED
    BY <2>3
<1> QED
  BY <1>1, LifeAlways, PTL

\* One process tells one verdict per approval.
THEOREM VerdictIsOne ==
    ASSUME OneProcess
    PROVE  Spec => []OneVerdict
<1>1. LifeInv => OneVerdict
  BY DEF LifeInv
<1> QED
  BY <1>1, LifeAlways, PTL

\* What one process told its callers stands in every log that loads.
THEOREM ToldStands ==
    ASSUME OneProcess
    PROVE  Spec => []AnswersStand
<1>1. TypeOK /\ LifeInv => AnswersStand
  <2> SUFFICES ASSUME TypeOK, LifeInv, Loads(log) PROVE AnswersStand
    BY DEF AnswersStand
  <2>0. log \in Seq(Lines(Event)) /\ Orderly(log) /\ OneLife(log) /\ Scans(log)
    BY DEF TypeOK, LifeInv, LifeOf, Loads
  <2>1. ASSUME NEW v \in verdicts PROVE StatusOf(log, v[1]) = v[2]
    <3>1. PICK i \in EventsOf(log, v[1]) : log[i].event.status = v[2]
      BY <2>0 DEF LifeInv, Known
    <3>2. v[2] \in Verdicts
      BY DEF TypeOK
    <3> QED
      BY <2>0, <3>1, <3>2, Ages DEF Unborn, Open, Settled, Verdicts
  <2>2. ASSUME NEW a \in told
        PROVE  /\ CreationsOf(log, a.id) # {}
               /\ CreationOf(log, a.id).request_id = a.request_id
    <3>1. PICK i \in CreationsOf(log, a.id) : log[i].event.request_id = a.request_id
      BY <2>0 DEF LifeInv, Known
    <3>2. i \in EventsOf(log, a.id)
      BY <3>1 DEF CreationsOf, EventsOf
    <3> QED
      BY <2>0, <3>1, <3>2, Ages DEF Unborn, Open, Settled
  <2> QED
    BY <2>1, <2>2 DEF AnswersStand
<1> QED
  BY <1>1, LifeAlways, PTL

-----------------------------------------------------------------------------
(* What a step of one process does to the log *)

\* A step leaves the log, or lands an event that fits it.
LEMMA StepLands ==
    ASSUME TypeOK, LifeInv, [Next]_vars
    PROVE  \/ log' = log
           \/ \E t \in Threads :
                 /\ draft[t] \in Lines(Event)
                 /\ log' \in Landings(log, draft[t])
                 /\ Continues(log, log', draft[t])
                 /\ Fits(log, draft[t].event)
BY StepEnds, StepContinues DEF LifeInv, WriterInv

\* No step of one process changes a verdict or makes an approval disappear.
THEOREM VerdictIsFinal ==
    ASSUME OneProcess
    PROVE  Spec => ResolutionIsFinal
<1> DEFINE Final ==
        \A id \in Ids :
            /\ StatusOf(log, id) \in Verdicts =>
                  StatusOf(log, id)' = StatusOf(log, id)
            /\ StatusOf(log, id) = "pending" => StatusOf(log, id)' # "absent"
<1>1. TypeOK /\ TypeOK' /\ LifeInv /\ [Next]_vars => Final
  <2> SUFFICES ASSUME TypeOK, TypeOK', LifeInv, [Next]_vars PROVE Final
    OBVIOUS
  <2>1. CASE log' = log
    BY <2>1 DEF Verdicts
  <2>2. CASE log' # log
    <3>1. PICK t \in Threads :
             /\ draft[t] \in Lines(Event)
             /\ Continues(log, log', draft[t])
             /\ Fits(log, draft[t].event)
      BY <2>2, StepLands
    <3> DEFINE l == draft[t]
    <3>2. /\ log \in Seq(Lines(Event)) /\ log' \in Seq(Lines(Event))
          /\ Orderly(log) /\ OneLife(log)
      BY DEF TypeOK, LifeInv, LifeOf
    <3>3. \A id : id # l.event.id \/ DOMAIN log' = DOMAIN log =>
             StatusOf(log', id) = StatusOf(log, id)
      BY <3>1, <3>2, SameElsewhere
    <3>4. StatusOf(log, l.event.id) \notin Verdicts
      BY <3>1 DEF Fits, StatusOf, Verdicts
    <3>5. DOMAIN log' # DOMAIN log => StatusOf(log', l.event.id) # "absent"
      BY <3>1, <3>2, OwnLands, EventFields DEF Verdicts
    <3> QED
      BY <3>3, <3>4, <3>5
  <2> QED
    BY <2>1, <2>2
<1>2. TypeOK /\ LifeInv /\ TypeOK' /\ [Next]_vars =>
        [Loads(log) /\ Loads(log)' => Final]_vars
  BY <1>1
<1> QED
  BY <1>2, LifeAlways, PTL DEF Spec, ResolutionIsFinal

-----------------------------------------------------------------------------
(* The log implements the promised lifecycle *)

\* What a reader is given for one approval.
Status ==
    [status : {"absent"}]
      \cup [status : {"pending"} \cup Verdicts, request_id : RequestIds]

\* An error is not a view.
ErrorIsNoView == Unreadable \notin [Ids -> Status]

LEMMA ViewType ==
    ASSUME TypeOK, LifeInv, Loads(log)
    PROVE  View \in [Ids -> Status]
<1>1. /\ log \in Seq(Lines(Event)) /\ Orderly(log) /\ OneLife(log)
      /\ \A i \in DOMAIN log : log[i] \in Lines(Event)
  BY DEF TypeOK, LifeInv, LifeOf
<1>2. ASSUME NEW id \in Ids, StatusOf(log, id) # "absent"
      PROVE  /\ StatusOf(log, id) \in {"pending"} \cup Verdicts
             /\ CreationOf(log, id).request_id \in RequestIds
  <2>1. \/ \E i \in DOMAIN log : Open(log, id, i)
        \/ \E i, j \in DOMAIN log : Settled(log, id, i, j)
    BY <1>1, <1>2, Ages DEF Unborn
  <2> QED
    BY <1>1, <2>1, EventFields DEF Open, Settled
<1> QED
  BY <1>2 DEF View, Status

LEMMA StepRefines ==
    ASSUME ErrorIsNoView, TypeOK, TypeOK', LifeInv, [Next]_vars
    PROVE  [Lifecycle!Next]_View
<1>1. CASE log' = log
  BY <1>1 DEF View, Loads, Scans, Orderly, CreationsOf, StatusOf, EventsOf, CreationOf
<1>2. CASE ~Loads(log')
  BY <1>2 DEF View, Lifecycle!Next, Lifecycle!Break
<1>3. CASE log' # log /\ Loads(log')
  <2>1. PICK t \in Threads :
           /\ draft[t] \in Lines(Event)
           /\ log' \in Landings(log, draft[t])
           /\ Continues(log, log', draft[t])
           /\ Fits(log, draft[t].event)
    BY <1>3, StepLands
  <2> DEFINE l == draft[t]
             e == l.event
             id == e.id
  <2>2. /\ log \in Seq(Lines(Event)) /\ log' \in Seq(Lines(Event))
        /\ Orderly(log) /\ OneLife(log)
    BY DEF TypeOK, LifeInv, LifeOf
  <2>3. Extended(log, log', l) /\ Scans(log)
    BY <1>3, <2>1, <2>2, Landing, LandingStaysBroken DEF Loads
  <2>4. DOMAIN log' # DOMAIN log
    <3>1. /\ DOMAIN log = 1..Len(log) /\ DOMAIN log' = 1..(Len(log) + 1)
          /\ Len(log) \in Nat
      BY <2>2, <2>3 DEF Extended
    <3>2. Len(log) + 1 \in DOMAIN log' /\ Len(log) + 1 \notin DOMAIN log
      BY <3>1
    <3> QED
      BY <3>2
  <2>5. Loads(log) /\ View \in [Ids -> Status] /\ View # Unreadable
    BY <2>2, <2>3, ViewType DEF Loads, ErrorIsNoView
  <2> DEFINE Shown(f, a) ==
                IF StatusOf(f, a) = "absent" THEN [status |-> "absent"]
                ELSE [status |-> StatusOf(f, a), request_id |-> CreationOf(f, a).request_id]
  <2>6. View = [a \in Ids |-> Shown(log, a)] /\ View' = [a \in Ids |-> Shown(log', a)]
    BY <1>3, <2>5 DEF View
  <2>7. \A a \in Ids : a # id => Shown(log', a) = Shown(log, a)
    BY <2>1, <2>2, SameElsewhere
  <2>8. /\ StatusOf(log', id) = e.status
        /\ CreationOf(log', id) = IF e.status = "pending" THEN e ELSE CreationOf(log, id)
    BY <2>1, <2>2, <2>4, OwnLands
  <2>9. id \in Ids /\ View' = [View EXCEPT ![id] = Shown(log', id)]
    BY <2>1, <2>6, <2>7, EventFields
  <2>10. CASE e.status = "pending"
    <3>1. Shown(log', id) = Lifecycle!Pending(e.request_id) /\ e.request_id \in RequestIds
      BY <2>1, <2>8, <2>10, EventFields DEF Lifecycle!Pending
    <3>2. View[id] = Lifecycle!Absent
      BY <2>1, <2>6, <2>9, <2>10 DEF Fits, StatusOf, Lifecycle!Absent
    <3>3. ASSUME NEW other \in Ids, View[other] = Lifecycle!Pending(e.request_id)
          PROVE  FALSE
      <4>1. Shown(log, other) = [status |-> "pending", request_id |-> e.request_id]
        BY <2>6, <3>3 DEF Lifecycle!Pending
      <4>2. StatusOf(log, other) = "pending"
            /\ CreationOf(log, other).request_id = e.request_id
        BY <4>1
      <4> QED
        BY <2>1, <2>10, <4>2 DEF Fits, PendingFor
    <3> QED
      BY <2>5, <2>9, <3>1, <3>2, <3>3 DEF Lifecycle!Next, Lifecycle!Create
  <2>11. CASE e.status # "pending"
    <3>1. e.status \in Verdicts /\ StatusOf(log, id) = "pending"
      BY <2>1, <2>11, EventFields DEF Fits
    <3>2. View[id] = [status |-> "pending", request_id |-> CreationOf(log, id).request_id]
      BY <2>6, <2>9, <3>1
    <3>3. Shown(log', id) = [View[id] EXCEPT !.status = e.status]
      BY <2>8, <2>11, <3>1, <3>2 DEF Verdicts
    <3>4. View[id].status = "pending"
      BY <3>2
    <3> QED
      BY <2>5, <2>9, <3>1, <3>3, <3>4
      DEF Lifecycle!Next, Lifecycle!Settle, Lifecycle!Verdicts, Verdicts
  <2> QED
    BY <2>10, <2>11
<1> QED
  BY <1>1, <1>2, <1>3

\* With one process, readers of the approval log see what ApprovalLifecycle
\* promises: each approval goes from absent to pending to one verdict, with at
\* most one pending per request id, or the log is unreadable for ever.
THEOREM Implements ==
    ASSUME OneProcess, ErrorIsNoView
    PROVE  Spec => ImplementsLifecycle
<1>1. Init => Lifecycle!Init
  BY DEF Init, StoreInit, Lifecycle!Init, Lifecycle!Absent, View, Loads, Scans,
         Orderly, StatusOf, EventsOf
<1>2. TypeOK /\ LifeInv /\ TypeOK' /\ [Next]_vars => [Lifecycle!Next]_View
  BY StepRefines
<1> QED
  BY <1>1, <1>2, LifeAlways, PTL DEF Spec, ImplementsLifecycle, Lifecycle!Spec

-----------------------------------------------------------------------------
(* What holds of the answers for any number of processes *)

\* An approval id that was handed out has a creation in the log, while the
\* log decodes.
ToldInv == Scans(log) => \A a \in told : CreationsOf(log, a.id) # {}

\* The end of an append loses no creation that callers were told of.
LEMMA EndsKeepTold ==
    ASSUME TypeOK, ToldInv, Ends, Scans(log')
    PROVE  Scans(log) /\ \A a \in told : CreationsOf(log', a.id) # {}
<1>1. CASE log' = log
  BY <1>1 DEF ToldInv
<1>2. CASE log' # log
  <2>1. PICK t \in Threads :
           /\ draft[t] \in Lines(Event)
           /\ log' \in Landings(log, draft[t])
           /\ Continues(log, log', draft[t])
    BY <1>2, StepContinues
  <2>2. Scans(log)
    BY <2>1, LandingStaysBroken DEF TypeOK
  <2>3. \A id : CreationsOf(log, id) \subseteq CreationsOf(log', id)
    BY <2>1 DEF Continues, CreationsOf
  <2> QED
    BY <2>2, <2>3 DEF ToldInv
<1> QED
  BY <1>1, <1>2

LEMMA ToldInductive ==
    ASSUME TypeOK, OrderInv, ToldInv, [Next]_vars
    PROVE  ToldInv'
<1> DEFINE E == Event
<1>0. StoreType(E)
  BY DEF TypeOK, StoreType
<1>1. ASSUME NEW t \in Threads, NEW rid \in RequestIds, NEW shape \in Shapes,
             NEW id \in Ids, CreateAgain(t, rid, shape, id)
      PROVE  ToldInv'
  <2>1. CreationsOf(log, id) # {}
    BY <1>1, KnownWasCreated DEF CreateAgain, KnownPending, PendingFor, OrderInv, TypeOK
  <2>2. /\ told' = told \cup {[id |-> id, request_id |-> rid, shape |-> shape]}
        /\ log' = log
    BY <1>1 DEF CreateAgain
  <2> QED
    BY <2>1, <2>2 DEF ToldInv
<1>2. ASSUME NEW t \in Threads, Done(t), Scans(log')
      PROVE  \A a \in told' : CreationsOf(log', a.id) # {}
  <2> DEFINE l == draft[t]
             e == l.event
  <2>1. Ends /\ Commit(t) /\ l \in Lines(Event) /\ log' \in Seq(Lines(Event))
    BY <1>0, <1>2, CallEnds DEF Done, StoreType
  <2>2. Extended(log, log', l)
    BY <1>2, <2>1, CommitLands
  <2>3. Len(log') \in DOMAIN log' /\ log'[Len(log')].event = e
    BY <2>1, <2>2 DEF Extended, TypeOK
  <2>4. e.status = "pending" => CreationsOf(log', e.id) # {}
    BY <2>3 DEF CreationsOf
  <2>5. CASE e.status = "pending"
    <3>1. told' = told \cup {[id |-> e.id, request_id |-> e.request_id,
                              shape |-> e.shape]}
      BY <1>2, <2>5 DEF Done
    <3> QED
      BY <1>2, <2>1, <2>4, <2>5, <3>1, EndsKeepTold
  <2>6. CASE e.status # "pending"
    <3>1. told' = told
      BY <1>2, <2>6 DEF Done
    <3> QED
      BY <1>2, <2>1, <3>1, EndsKeepTold
  <2> QED
    BY <2>5, <2>6
<1>3. ASSUME NEW t \in Threads, Fails(t) PROVE ToldInv'
  BY <1>0, <1>3, CallEnds, EndsKeepTold DEF Fails, ToldInv
<1>4. ASSUME NEW p \in Procs, Crash(p) PROVE ToldInv'
  BY <1>0, <1>4, ProcessEnds, EndsKeepTold DEF Crash, ToldInv
<1>5. ASSUME UNCHANGED <<log, told>> PROVE ToldInv'
  BY <1>5 DEF ToldInv
<1>6. ASSUME NEW t \in Threads, NEW rid \in RequestIds, NEW shape \in Shapes,
             Create(t, rid, shape)
      PROVE  ToldInv'
  BY <1>5, <1>6 DEF Create, Begin
<1>7. ASSUME NEW t \in Threads, NEW id \in Ids, NEW verdict \in Verdicts,
             Resolve(t, id, verdict)
      PROVE  ToldInv'
  BY <1>5, <1>7 DEF Resolve, Begin
<1> QED
  BY <1>1, <1>2, <1>3, <1>4, <1>5, <1>6, <1>7
  DEF Next, ResolveRefused, LoadFails, Read, vars, ToldInv

LEMMA ToldAlways == Spec => [](TypeOK /\ OrderInv /\ ToldInv)
<1>1. Init => TypeOK /\ OrderInv /\ ToldInv
  <2> SUFFICES ASSUME Init PROVE OrderInv /\ ToldInv
    BY InitType
  <2>1. log = <<>> /\ told = {} /\ \A t \in Threads : ~Writing(t)
    BY DEF Init, StoreInit, Writing
  <2> QED
    BY <2>1 DEF OrderInv, Orderly, ToldInv
<1>2. TypeOK /\ OrderInv /\ ToldInv /\ [Next]_vars => (TypeOK /\ OrderInv /\ ToldInv)'
  BY TypeOKInductive, OrderInductive, ToldInductive
<1> QED
  BY <1>1, <1>2, PTL DEF Spec

\* An answer is never taken back.
LEMMA ToldGrows == [Next]_vars => told \subseteq told'
BY DEF Next, Create, CreateAgain, Resolve, ResolveRefused, Done, Fails, LoadFails,
       Read, Crash, vars

\* Two approvals that were handed out for one request id: one is resolved.
LEMMA ToldApart ==
    ASSUME TypeOK, LifeInv, Loads(log), NEW a \in told, NEW b \in told,
           a.request_id = b.request_id, a.id # b.id
    PROVE  StatusOf(log, a.id) \in Verdicts \/ StatusOf(log, b.id) \in Verdicts
<1>1. /\ Scans(log) /\ Orderly(log) /\ OneLife(log) /\ OnePending(log)
      /\ log \in Seq(Lines(Event))
      /\ a.id \in Ids /\ b.id \in Ids
  BY DEF LifeInv, LifeOf, Loads, TypeOK, Answer
<1>2. ASSUME NEW c \in told, StatusOf(log, c.id) \notin Verdicts
      PROVE  /\ StatusOf(log, c.id) = "pending"
             /\ CreationOf(log, c.id).request_id = c.request_id
  <2>1. PICK i \in CreationsOf(log, c.id) : log[i].event.request_id = c.request_id
    BY <1>1 DEF LifeInv, Known
  <2>2. i \in EventsOf(log, c.id)
    BY <2>1 DEF CreationsOf, EventsOf
  <2>3. PICK j \in DOMAIN log : Open(log, c.id, j)
    BY <1>1, <1>2, <2>2, Ages DEF Unborn, Settled
  <2> QED
    BY <2>1, <2>2, <2>3 DEF Open
<1> QED
  BY <1>1, <1>2 DEF OnePending
=============================================================================
