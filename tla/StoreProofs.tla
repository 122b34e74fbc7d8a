----------------------------- MODULE StoreProofs ----------------------------
(***************************************************************************)
(* Lemmas that the proofs about the three stores share: what an append,    *)
(* whole or cut short, does to a JSON-lines file, and what the steps of    *)
(* JsonlStore do to the file and the drafts.                               *)
(***************************************************************************)
EXTENDS JsonlStore, TLAPS

\* Every file that an append of l to f can leave behind.
Landings(f, l) == CutAppend(f, l) \cup {AppendLine(f, l)}

\* The append ran into the unended last line of f.
Garbled(f, g) ==
    /\ Ragged(f)
    /\ Len(g) = Len(f)
    /\ \A i \in 1..Len(f) : i < Len(f) => g[i] = f[i]
    /\ g[Len(f)].event = f[Len(f)].event
    /\ ~g[Len(f)].whole

\* The append started a line of its own.
Extended(f, g, l) ==
    /\ ~Ragged(f)
    /\ Len(g) = Len(f) + 1
    /\ \A i \in 1..Len(f) : g[i] = f[i]
    /\ g[Len(g)].event = l.event
    /\ g[Len(g)].whole => l.whole

-----------------------------------------------------------------------------
\* Garbling keeps a file of lines, and every line but the last.
LEMMA GarbleType ==
    ASSUME NEW E, NEW f \in Seq(Lines(E)), Ragged(f), NEW e \in BOOLEAN
    PROVE  Garble(f, e) \in Seq(Lines(E)) /\ Garbled(f, Garble(f, e))
<1> DEFINE n == Len(f)
           g == Garble(f, e)
<1>1. n \in Nat /\ n > 0 /\ f \in [1..n -> Lines(E)] /\ n \in 1..n
  BY DEF Ragged
<1>2. f[n] \in Lines(E)
  BY <1>1
<1>3. [f[n] EXCEPT !.whole = FALSE, !.ended = e] \in Lines(E)
  BY <1>2 DEF Lines
<1>4. g \in [1..n -> Lines(E)]
  BY <1>1, <1>3 DEF Garble
<1>5. g \in Seq(Lines(E)) /\ Len(g) = n
  BY <1>1, <1>4
<1>6. \A i \in 1..n : i < n => g[i] = f[i]
  BY <1>1 DEF Garble
<1>7. g[n] = [f[n] EXCEPT !.whole = FALSE, !.ended = e]
  BY <1>1 DEF Garble
<1>8. g[n].event = f[n].event /\ ~g[n].whole
  BY <1>2, <1>7 DEF Lines
<1> QED
  BY <1>5, <1>6, <1>8 DEF Garbled

\* A line appended after a newline leaves the lines before it alone.
LEMMA ExtendType ==
    ASSUME NEW E, NEW f \in Seq(Lines(E)), ~Ragged(f),
           NEW l \in Lines(E), NEW m \in Lines(E),
           m.event = l.event, m.whole => l.whole
    PROVE  Append(f, m) \in Seq(Lines(E)) /\ Extended(f, Append(f, m), l)
BY DEF Extended

\* An append, however it ends, changes nothing, garbles the last line, or
\* adds one line.
LEMMA Landing ==
    ASSUME NEW E, NEW f \in Seq(Lines(E)), NEW l \in Lines(E),
           NEW g \in Landings(f, l)
    PROVE  /\ g \in Seq(Lines(E))
           /\ g = f \/ Garbled(f, g) \/ Extended(f, g, l)
<1>1. CASE g = f
  BY <1>1
<1>2. CASE Ragged(f) /\ g # f
  <2>1. g = Garble(f, TRUE) \/ g = Garble(f, FALSE)
    BY <1>2 DEF Landings, CutAppend, AppendLine
  <2> QED
    BY <1>2, <2>1, GarbleType
<1>3. CASE ~Ragged(f) /\ g # f
  <2> DEFINE unended == [l EXCEPT !.ended = FALSE]
             fragment == [l EXCEPT !.whole = FALSE, !.ended = FALSE]
  <2>1. unended \in Lines(E) /\ unended.event = l.event /\ unended.whole = l.whole
    BY DEF Lines
  <2>2. fragment \in Lines(E) /\ fragment.event = l.event /\ ~fragment.whole
    BY DEF Lines
  <2>3. PICK m \in {l, unended, fragment} : g = Append(f, m)
    BY <1>3 DEF Landings, CutAppend, AppendLine
  <2>4. m \in Lines(E) /\ m.event = l.event /\ (m.whole => l.whole)
    BY <2>1, <2>2
  <2> QED
    BY <1>3, <2>3, <2>4, ExtendType
<1> QED
  BY <1>1, <1>2, <1>3

\* The events of a garbled file are those it had.
LEMMA EventsGarbled ==
    ASSUME NEW E, NEW f \in Seq(Lines(E)), NEW g \in Seq(Lines(E)), Garbled(f, g)
    PROVE  Events(g) = Events(f)
<1>1. DOMAIN f = DOMAIN g /\ DOMAIN f = 1..Len(f)
  BY DEF Garbled
<1>2. \A i \in DOMAIN f : g[i].event = f[i].event
  BY <1>1 DEF Garbled
<1> QED
  BY <1>1, <1>2 DEF Events

\* Events is the sequence of the lines' events.
LEMMA EventsType ==
    ASSUME NEW E, NEW f \in Seq(Lines(E))
    PROVE  /\ Events(f) \in Seq(E)
           /\ Len(Events(f)) = Len(f)
           /\ DOMAIN Events(f) = DOMAIN f
           /\ \A i \in DOMAIN f : Events(f)[i] = f[i].event
<1>0. \A l \in Lines(E) : l.event \in E
  BY DEF Lines
<1>1. DOMAIN f = 1..Len(f) /\ Len(f) \in Nat /\ \A i \in DOMAIN f : f[i].event \in E
  BY <1>0
<1>2. Events(f) \in [1..Len(f) -> E]
  BY <1>1 DEF Events
<1> QED
  BY <1>1, <1>2 DEF Events

\* A line added to a file adds its event.
LEMMA EventsExtended ==
    ASSUME NEW E, NEW f \in Seq(Lines(E)), NEW g \in Seq(Lines(E)),
           NEW l \in Lines(E), Extended(f, g, l)
    PROVE  Events(g) = Append(Events(f), l.event)
<1>1. /\ Events(f) \in Seq(E) /\ Len(Events(f)) = Len(f)
      /\ Events(g) \in Seq(E) /\ Len(Events(g)) = Len(g)
      /\ \A i \in DOMAIN f : Events(f)[i] = f[i].event
      /\ \A i \in DOMAIN g : Events(g)[i] = g[i].event
  BY EventsType
<1>2. l.event \in E
  BY DEF Lines
<1>3. Append(Events(f), l.event) \in Seq(E)
      /\ Len(Append(Events(f), l.event)) = Len(f) + 1
  BY <1>1, <1>2
<1>4. \A i \in 1..Len(f) + 1 : Events(g)[i] = Append(Events(f), l.event)[i]
  <2> TAKE i \in 1..Len(f) + 1
  <2>1. CASE i = Len(f) + 1
    BY <1>1, <1>2, <2>1 DEF Extended
  <2>2. CASE i # Len(f) + 1
    <3>1. i \in 1..Len(f) /\ i \in DOMAIN f /\ i \in DOMAIN g /\ g[i] = f[i]
      BY <2>2 DEF Extended
    <3> QED
      BY <1>1, <1>2, <3>1
  <2> QED
    BY <2>1, <2>2
<1>5. Len(Events(g)) = Len(f) + 1
  BY <1>1 DEF Extended
<1>6. /\ Events(g) = [i \in 1..Len(f) + 1 |-> Events(g)[i]]
      /\ Append(Events(f), l.event)
            = [i \in 1..Len(f) + 1 |-> Append(Events(f), l.event)[i]]
  BY <1>1, <1>3, <1>5
<1> QED
  BY <1>4, <1>6

\* No append makes a file readable again.
LEMMA LandingStaysBroken ==
    ASSUME NEW E, NEW f \in Seq(Lines(E)), NEW l \in Lines(E),
           NEW g \in Landings(f, l), Scans(g)
    PROVE  Scans(f) /\ ~Garbled(f, g)
<1>1. g \in Seq(Lines(E)) /\ (g = f \/ Garbled(f, g) \/ Extended(f, g, l))
  BY Landing
<1>2. ~Garbled(f, g)
  <2> SUFFICES ASSUME Garbled(f, g) PROVE FALSE
    OBVIOUS
  <2>1. Len(f) \in DOMAIN g
    BY <1>1 DEF Garbled, Ragged
  <2> QED
    BY <2>1 DEF Garbled, Scans
<1>3. ASSUME Extended(f, g, l) PROVE Scans(f)
  <2>1. \A i \in DOMAIN f : i \in DOMAIN g /\ g[i] = f[i]
    BY <1>1, <1>3 DEF Extended
  <2> QED
    BY <2>1 DEF Scans
<1> QED
  BY <1>1, <1>2, <1>3

\* g has the events of f, and at most one more, of an append of l.
Continues(f, g, l) ==
    /\ DOMAIN f \subseteq DOMAIN g
    /\ \A i \in DOMAIN f : g[i].event = f[i].event
    /\ \A i \in DOMAIN g \ DOMAIN f :
          g[i].event = l.event /\ \A j \in DOMAIN g : j <= i

\* Whole or cut short, an append loses no event that is in the file.
LEMMA LandingContinues ==
    ASSUME NEW E, NEW f \in Seq(Lines(E)), NEW l \in Lines(E),
           NEW g \in Landings(f, l)
    PROVE  g \in Seq(Lines(E)) /\ Continues(f, g, l)
<1>1. g \in Seq(Lines(E)) /\ (g = f \/ Garbled(f, g) \/ Extended(f, g, l))
  BY Landing
<1>2. CASE g = f
  BY <1>1, <1>2 DEF Continues
<1>3. CASE Garbled(f, g)
  <2>1. DOMAIN f = 1..Len(f) /\ DOMAIN g = DOMAIN f /\ Len(f) \in Nat
    BY <1>1, <1>3 DEF Garbled
  <2>2. \A i \in DOMAIN f : g[i].event = f[i].event
    BY <1>3, <2>1 DEF Garbled
  <2> QED
    BY <1>1, <2>1, <2>2 DEF Continues
<1>4. CASE Extended(f, g, l)
  <2>1. /\ DOMAIN f = 1..Len(f) /\ DOMAIN g = 1..(Len(f) + 1) /\ Len(f) \in Nat
        /\ g[Len(f) + 1].event = l.event
    BY <1>1, <1>4 DEF Extended
  <2> QED
    BY <1>1, <1>4, <2>1 DEF Extended, Continues
<1> QED
  BY <1>1, <1>2, <1>3, <1>4

-----------------------------------------------------------------------------
StoreType(E) ==
    /\ log \in Seq(Lines(E))
    /\ draft \in [Threads -> Lines(E) \cup {NoLine}]

\* What every step that ends an append does: the file is unchanged or one
\* writer's line has landed, and drafts are only dropped.
Ends ==
    /\ \/ log' = log
       \/ \E t \in Threads : Writing(t) /\ log' \in Landings(log, draft[t])
    /\ \A t \in Threads : draft'[t] = draft[t] \/ draft'[t] = NoLine

\* An append that ends with its call, by success or by error.
LEMMA CallEnds ==
    ASSUME NEW E, StoreType(E), NEW t \in Threads, Commit(t) \/ Fail(t)
    PROVE  /\ StoreType(E)'
           /\ Ends
           /\ draft[t] \in Lines(E)
           /\ log' \in Landings(log, draft[t])
           /\ draft'[t] = NoLine
           /\ \A u \in Threads : u # t => draft'[u] = draft[u]
<1>1. draft[t] \in Lines(E) /\ Writing(t)
  BY DEF StoreType, Writing, Commit, Fail
<1>2. log' \in Landings(log, draft[t])
  BY DEF Commit, Fail, Landings
<1>3. draft' = [draft EXCEPT ![t] = NoLine]
  BY DEF Commit, Fail, Release
<1>4. log' \in Seq(Lines(E))
  BY <1>1, <1>2, Landing DEF StoreType
<1>5. draft' \in [Threads -> Lines(E) \cup {NoLine}]
  BY <1>3 DEF StoreType
<1> QED
  BY <1>1, <1>2, <1>3, <1>4, <1>5 DEF StoreType, Ends

\* An append that ends with its process.
LEMMA ProcessEnds ==
    ASSUME NEW E, StoreType(E), NEW p \in Procs, Halt(p)
    PROVE  /\ StoreType(E)'
           /\ Ends
           /\ \A t \in Threads :
                 draft'[t] = IF ProcOf[t] = p THEN NoLine ELSE draft[t]
<1>1. draft' = [t \in Threads |-> IF ProcOf[t] = p THEN NoLine ELSE draft[t]]
  BY DEF Halt
<1>2. \/ log' = log
      \/ \E t \in Threads : Writing(t) /\ log' \in Landings(log, draft[t])
  BY DEF Halt, Landings
<1>3. \A t \in Threads : Writing(t) => draft[t] \in Lines(E)
  BY DEF StoreType, Writing
<1>4. log' \in Seq(Lines(E))
  BY <1>2, <1>3, Landing DEF StoreType
<1>5. draft' \in [Threads -> Lines(E) \cup {NoLine}]
  BY <1>1 DEF StoreType
<1> QED
  BY <1>1, <1>2, <1>4, <1>5 DEF StoreType, Ends

\* A thread that takes the mutex has it to itself.
LEMMA CallBegins ==
    ASSUME NEW E, StoreType(E), Mutex, NEW t \in Threads, NEW l \in Lines(E),
           LockFree(t), Begin(t, l)
    PROVE  /\ StoreType(E)'
           /\ Mutex'
           /\ log' = log
           /\ draft'[t] = l
           /\ \A u \in Threads : u # t => draft'[u] = draft[u]
<1>1. draft' = [draft EXCEPT ![t] = l] /\ log' = log
  BY DEF Begin
<1>2. StoreType(E)'
  BY <1>1 DEF StoreType
<1>3. Mutex'
  BY <1>1 DEF Mutex, LockFree, Peers, Writing, StoreType
<1> QED
  BY <1>1, <1>2, <1>3 DEF StoreType

\* Ending an append takes the mutex from nobody else.
LEMMA EndsKeepsMutex ==
    ASSUME Mutex, Ends
    PROVE  Mutex'
BY DEF Mutex, Ends, Writing

\* Every step that ends an append continues the log, with the draft of a
\* thread that writes, or leaves it.
LEMMA EndsContinue ==
    ASSUME NEW E, StoreType(E), Ends
    PROVE  \/ log' = log
           \/ \E t \in Threads :
                 /\ Writing(t)
                 /\ draft[t] \in Lines(E)
                 /\ log' \in Landings(log, draft[t])
                 /\ Continues(log, log', draft[t])
<1>1. CASE log' = log
  BY <1>1
<1>2. CASE \E t \in Threads : Writing(t) /\ log' \in Landings(log, draft[t])
  <2>1. PICK t \in Threads : Writing(t) /\ log' \in Landings(log, draft[t])
    BY <1>2
  <2>2. draft[t] \in Lines(E) /\ log \in Seq(Lines(E))
    BY <2>1 DEF StoreType, Writing
  <2> QED
    BY <2>1, <2>2, LandingContinues
<1> QED
  BY <1>1, <1>2 DEF Ends
=============================================================================
