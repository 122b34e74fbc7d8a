----------------------------- MODULE AuditProofs ----------------------------
(***************************************************************************)
(* Theorems about the audit log, for any number of threads, receipts and   *)
(* texts.  Those about the chain assume one process (OneProcess): with two *)
(* they are false, as the run audit_two_processes shows.                   *)
(***************************************************************************)
EXTENDS Audit, StoreProofs

\* Composing a receipt gives a receipt linked to the last one in the file.
LEMMA Composed ==
    ASSUME log \in Seq(Lines(Receipt)), Minted \subseteq Ids, Minted # Ids,
           NEW text \in Texts, NEW fits \in BOOLEAN
    PROVE  /\ NewReceipt(text) \in Receipt
           /\ Line(NewReceipt(text), fits) \in Lines(Receipt)
           /\ NewReceipt(text).prev = TailHash(Events(log))
           /\ Faithful => Intact(NewReceipt(text))
<1>1. NewId \in Ids
  BY DEF NewId
<1>2. Events(log) \in Seq(Receipt)
  BY EventsType
<1>3. TailHash(Events(log)) \in Hashes
  <2>1. NoHash \in Hashes
    BY DEF NoHash, Hashes
  <2>2. CASE Events(log) # <<>>
    <3>1. Events(log)[Len(Events(log))] \in Receipt
      BY <1>2, <2>2
    <3> QED
      BY <2>2, <3>1 DEF TailHash, Receipt
  <2> QED
    BY <2>1, <2>2 DEF TailHash
<1>4. ReadBack[text] \in Texts
  BY TextAssumption
<1>5. HashOf(NewId, text, TailHash(Events(log))) \in Hashes
  BY <1>1, <1>3 DEF HashOf, Hashes
<1>6. NewReceipt(text) \in Receipt
  BY <1>1, <1>3, <1>4, <1>5 DEF NewReceipt, Receipt
<1>7. Line(NewReceipt(text), fits) \in Lines(Receipt)
  BY <1>6 DEF Line, Lines
<1>8. Faithful => Intact(NewReceipt(text))
  BY DEF Faithful, Intact, NewReceipt
<1> QED
  BY <1>6, <1>7, <1>8 DEF NewReceipt

-----------------------------------------------------------------------------
(* Types *)

LEMMA MintedType == TypeOK => Minted \subseteq Ids
<1> SUFFICES ASSUME TypeOK PROVE Minted \subseteq Ids
  OBVIOUS
<1>1. \A l \in Lines(Receipt) : l.event \in Receipt
  BY DEF Lines
<1>2. \A r \in Receipt : r.id \in Ids
  BY DEF Receipt
<1>3. \A i \in DOMAIN log : log[i] \in Lines(Receipt)
  BY DEF TypeOK
<1>4. \A t \in {u \in Threads : Writing(u)} : draft[t] \in Lines(Receipt)
  BY DEF TypeOK, Writing
<1>5. acked \subseteq Receipt
  BY DEF TypeOK
<1> QED
  BY <1>1, <1>2, <1>3, <1>4, <1>5 DEF Minted

\* A composed line is a line of a receipt.
LEMMA RecordType ==
    ASSUME TypeOK, NEW t \in Threads, NEW text \in Texts, Record(t, text)
    PROVE  Line(NewReceipt(text), text \notin LongTexts) \in Lines(Receipt)
BY MintedType, Composed DEF Record, TypeOK

LEMMA TypeOKInductive == TypeOK /\ [Next]_vars => TypeOK'
<1> SUFFICES ASSUME TypeOK, [Next]_vars PROVE TypeOK'
  OBVIOUS
<1> DEFINE E == Receipt
<1>0. StoreType(E)
  BY DEF TypeOK, StoreType
<1>1. ASSUME NEW t \in Threads, NEW text \in Texts, Record(t, text) PROVE TypeOK'
  <2>1. Line(NewReceipt(text), text \notin LongTexts) \in Lines(Receipt)
    BY <1>1, RecordType
  <2>2. StoreType(E)' /\ Mutex'
    BY <1>0, <1>1, <2>1, CallBegins DEF TypeOK, Record
  <2> QED
    BY <1>1, <2>2 DEF TypeOK, StoreType, Record
<1>2. ASSUME NEW t \in Threads, RecordDone(t) PROVE TypeOK'
  <2>1. StoreType(E)' /\ draft[t] \in Lines(Receipt) /\ Ends
    BY <1>0, <1>2, CallEnds DEF RecordDone
  <2>2. draft[t].event \in Receipt /\ Mutex'
    BY <2>1, EndsKeepsMutex DEF Lines, TypeOK
  <2> QED
    BY <1>2, <2>1, <2>2 DEF TypeOK, StoreType, RecordDone
<1>3. ASSUME NEW t \in Threads, RecordFails(t) PROVE TypeOK'
  <2>1. StoreType(E)' /\ Mutex'
    BY <1>0, <1>3, CallEnds, EndsKeepsMutex DEF RecordFails, TypeOK
  <2> QED
    BY <1>3, <2>1 DEF TypeOK, StoreType, RecordFails
<1>4. ASSUME NEW p \in Procs, Crash(p) PROVE TypeOK'
  <2>1. StoreType(E)' /\ Mutex'
    BY <1>0, <1>4, ProcessEnds, EndsKeepsMutex DEF Crash, TypeOK
  <2> QED
    BY <1>4, <2>1 DEF TypeOK, StoreType, Crash
<1>5. CASE UNCHANGED vars
  BY <1>5 DEF TypeOK, Mutex, Writing, vars
<1> QED
  BY <1>1, <1>2, <1>3, <1>4, <1>5 DEF Next, ReadFails, Read

LEMMA InitType == Init => TypeOK
BY DEF Init, StoreInit, TypeOK, Mutex, Writing

\* The state keeps its types, for any threads, receipts and texts.
THEOREM TypeCorrect == Spec => []TypeOK
<1>1. Init => TypeOK
  BY InitType
<1>2. TypeOK /\ [Next]_vars => TypeOK'
  BY TypeOKInductive
<1> QED
  BY <1>1, <1>2, PTL DEF Spec

\* A step leaves the log, or continues it with the draft of a writer.
LEMMA StepContinues ==
    ASSUME TypeOK, [Next]_vars
    PROVE  \/ log' = log
           \/ \E t \in Threads :
                 /\ Writing(t)
                 /\ draft[t] \in Lines(Receipt)
                 /\ log' \in Landings(log, draft[t])
                 /\ Continues(log, log', draft[t])
<1> DEFINE E == Receipt
<1>0. StoreType(E)
  BY DEF TypeOK, StoreType
<1>1. Ends => \/ log' = log
              \/ \E t \in Threads :
                    /\ Writing(t)
                    /\ draft[t] \in Lines(E)
                    /\ log' \in Landings(log, draft[t])
                    /\ Continues(log, log', draft[t])
  BY <1>0, EndsContinue
<1>2. ASSUME NEW t \in Threads, RecordDone(t) \/ RecordFails(t) PROVE Ends
  BY <1>0, <1>2, CallEnds DEF RecordDone, RecordFails
<1>3. ASSUME NEW p \in Procs, Crash(p) PROVE Ends
  BY <1>0, <1>3, ProcessEnds DEF Crash
<1>4. ASSUME NEW t \in Threads, NEW text \in Texts, Record(t, text) PROVE log' = log
  BY <1>4 DEF Record, Begin
<1> QED
  BY <1>1, <1>2, <1>3, <1>4 DEF Next, ReadFails, Read, vars

-----------------------------------------------------------------------------
(* The chain, with one process *)

\* A writer's receipt is linked to the receipt that is still the last one,
\* and there is one writer: nothing lands between its read and its append.
WriterInv ==
    \A t \in Threads : Writing(t) =>
        /\ Scans(log)
        /\ draft[t].event.prev = TailHash(Events(log))
        /\ Faithful => Intact(draft[t].event)

AllIntact == Faithful => \A i \in DOMAIN log : Intact(log[i].event)

ChainInv == Mutex /\ WriterInv /\ ChainLinked /\ DamageOnlyAtTail /\ AllIntact

LEMMA LinkedAppend ==
    ASSUME NEW s \in Seq(Receipt), NEW r \in Receipt,
           Linked(s), r.prev = TailHash(s)
    PROVE  Linked(Append(s, r))
<1> SUFFICES ASSUME NEW i \in DOMAIN Append(s, r)
             PROVE  Append(s, r)[i].prev
                      = IF i = 1 THEN NoHash ELSE Append(s, r)[i - 1].hash
  BY DEF Linked
<1>1. i \in 1..Len(s) + 1 /\ Len(s) \in Nat
  OBVIOUS
<1>2. CASE i = Len(s) + 1
  <2>1. Append(s, r)[i] = r
    BY <1>2
  <2>2. CASE s = <<>>
    BY <1>2, <2>1, <2>2 DEF TailHash
  <2>3. CASE s # <<>>
    <3>1. Len(s) > 0 /\ Append(s, r)[i - 1] = s[Len(s)]
      BY <1>2, <2>3
    <3> QED
      BY <1>2, <2>1, <2>3, <3>1 DEF TailHash
  <2> QED
    BY <2>2, <2>3
<1>3. CASE i # Len(s) + 1
  <2>1. i \in DOMAIN s /\ Append(s, r)[i] = s[i]
    BY <1>1, <1>3
  <2>2. i # 1 => Append(s, r)[i - 1] = s[i - 1]
    BY <1>1, <1>3
  <2> QED
    BY <2>1, <2>2 DEF Linked
<1> QED
  BY <1>2, <1>3

\* What lands keeps the chain, whichever part of it lands.
LEMMA ChainLands ==
    ASSUME TypeOK, ChainInv, NEW t \in Threads, Writing(t),
           log' \in Landings(log, draft[t])
    PROVE  ChainLinked' /\ DamageOnlyAtTail' /\ AllIntact'
<1> DEFINE l == draft[t]
<1>1. log \in Seq(Lines(Receipt)) /\ l \in Lines(Receipt)
  BY DEF TypeOK, Writing
<1>2. /\ log' \in Seq(Lines(Receipt))
      /\ log' = log \/ Garbled(log, log') \/ Extended(log, log', l)
  BY <1>1, Landing
<1>3. CASE log' = log
  BY <1>3 DEF ChainInv, ChainLinked, DamageOnlyAtTail, AllIntact, Events
<1>4. CASE Garbled(log, log')
  <2>1. Events(log') = Events(log)
    BY <1>1, <1>2, <1>4, EventsGarbled
  <2>2. ChainLinked'
    BY <2>1 DEF ChainInv, ChainLinked, Events
  <2>3. DamageOnlyAtTail'
    BY <1>1, <1>2, <1>4 DEF ChainInv, DamageOnlyAtTail, Garbled
  <2>4. DOMAIN log' = DOMAIN log /\ \A i \in DOMAIN log : log'[i].event = log[i].event
    BY <1>1, <1>2, <1>4 DEF Garbled
  <2> QED
    BY <2>2, <2>3, <2>4 DEF ChainInv, AllIntact
<1>5. CASE Extended(log, log', l)
  <2>1. Events(log') = Append(Events(log), l.event)
    BY <1>1, <1>2, <1>5, EventsExtended
  <2>2. Events(log) \in Seq(Receipt) /\ l.event \in Receipt
    BY <1>1, EventsType DEF Lines
  <2>3. l.event.prev = TailHash(Events(log)) /\ Scans(log)
        /\ (Faithful => Intact(l.event))
    BY DEF ChainInv, WriterInv
  <2>4. ChainLinked'
    BY <2>1, <2>2, <2>3, LinkedAppend DEF ChainInv, ChainLinked, Events
  <2>5. DamageOnlyAtTail'
    <3> SUFFICES ASSUME NEW i \in DOMAIN log', i < Len(log')
                 PROVE  log'[i].whole /\ log'[i].ended
      BY DEF DamageOnlyAtTail
    <3>1. i \in 1..Len(log) /\ log'[i] = log[i]
      BY <1>1, <1>2, <1>5 DEF Extended
    <3>2. CASE i < Len(log)
      BY <1>1, <3>1, <3>2 DEF ChainInv, DamageOnlyAtTail
    <3>3. CASE i = Len(log)
      BY <1>1, <1>5, <2>3, <3>1, <3>3 DEF Extended, Ragged, Scans
    <3> QED
      BY <1>1, <3>1, <3>2, <3>3
  <2>6. AllIntact'
    <3> SUFFICES ASSUME Faithful, NEW i \in DOMAIN log'
                 PROVE  Intact(log'[i].event)
      BY DEF AllIntact
    <3>1. CASE i \in DOMAIN log
      <4>1. log'[i] = log[i]
        BY <1>1, <1>5, <3>1 DEF Extended
      <4> QED
        BY <3>1, <4>1 DEF ChainInv, AllIntact
    <3>2. CASE i \notin DOMAIN log
      <4>1. log'[i].event = l.event
        BY <1>1, <1>2, <1>5, <3>2 DEF Extended
      <4> QED
        BY <2>3, <4>1
    <3> QED
      BY <3>1, <3>2
  <2> QED
    BY <2>4, <2>5, <2>6
<1> QED
  BY <1>2, <1>3, <1>4, <1>5

LEMMA ChainInductive ==
    ASSUME OneProcess, TypeOK, ChainInv, [Next]_vars
    PROVE  ChainInv'
<1> DEFINE E == Receipt
<1>0. StoreType(E) /\ Mutex
  BY DEF TypeOK, StoreType, ChainInv
<1>1. \A t, u \in Threads : ProcOf[t] = ProcOf[u]
  BY ThreadAssumption DEF OneProcess
<1>2. ASSUME NEW t \in Threads, NEW text \in Texts, Record(t, text)
      PROVE  ChainInv'
  <2> DEFINE l == Line(NewReceipt(text), text \notin LongTexts)
  <2>1. l \in Lines(Receipt)
    BY <1>2, RecordType
  <2>2. /\ Mutex' /\ log' = log /\ draft'[t] = l
        /\ \A u \in Threads : u # t => draft'[u] = draft[u]
    BY <1>0, <1>2, <2>1, CallBegins DEF Record
  <2>3. \A u \in Threads : u # t => ~Writing(u)'
    BY <1>1, <1>2, <2>2 DEF Record, LockFree, Peers, Writing
  <2>4. Scans(log) /\ l.event = NewReceipt(text)
    BY <1>2 DEF Record, Decodes, Line
  <2>5. l.event.prev = TailHash(Events(log)) /\ (Faithful => Intact(l.event))
    BY <1>2, <2>4, MintedType, Composed DEF Record, TypeOK
  <2>6. WriterInv'
    BY <2>2, <2>3, <2>4, <2>5 DEF WriterInv, Events
  <2> QED
    BY <2>2, <2>6 DEF ChainInv, ChainLinked, DamageOnlyAtTail, AllIntact, Events
<1>3. ASSUME NEW t \in Threads, Commit(t) \/ Fail(t)
      PROVE  ChainInv'
  <2>1. /\ Ends /\ log' \in Landings(log, draft[t]) /\ draft'[t] = NoLine
        /\ \A u \in Threads : u # t => draft'[u] = draft[u]
    BY <1>0, <1>3, CallEnds
  <2>2. Writing(t)
    BY <1>3 DEF Commit, Fail
  <2>3. \A u \in Threads : ~Writing(u)'
    BY <1>0, <1>1, <2>1, <2>2 DEF Mutex, Writing
  <2> QED
    BY <1>0, <2>1, <2>2, <2>3, ChainLands, EndsKeepsMutex DEF ChainInv, WriterInv
<1>4. ASSUME NEW p \in Procs, Halt(p)
      PROVE  ChainInv'
  <2>1. /\ Ends
        /\ \A t \in Threads : draft'[t] = IF ProcOf[t] = p THEN NoLine ELSE draft[t]
    BY <1>0, <1>4, ProcessEnds
  <2>2. \A t \in Threads : ~Writing(t)'
    BY <2>1, ThreadAssumption DEF OneProcess, Writing
  <2>3. ChainLinked' /\ DamageOnlyAtTail' /\ AllIntact'
    <3>1. CASE log' = log
      BY <3>1 DEF ChainInv, ChainLinked, DamageOnlyAtTail, AllIntact, Events
    <3> QED
      BY <2>1, <3>1, ChainLands DEF Ends
  <2> QED
    BY <1>0, <2>1, <2>2, <2>3, EndsKeepsMutex DEF ChainInv, WriterInv
<1>5. CASE UNCHANGED vars
  BY <1>5 DEF ChainInv, Mutex, WriterInv, ChainLinked, DamageOnlyAtTail, AllIntact,
              Writing, Events, vars
<1> QED
  BY <1>2, <1>3, <1>4, <1>5
  DEF Next, RecordDone, RecordFails, Crash, ReadFails, Read

LEMMA ChainAlways == OneProcess => (Spec => [](TypeOK /\ ChainInv))
<1> SUFFICES ASSUME OneProcess PROVE Spec => [](TypeOK /\ ChainInv)
  OBVIOUS
<1>1. Init => TypeOK /\ ChainInv
  <2> SUFFICES ASSUME Init PROVE ChainInv
    BY InitType
  <2>1. log = <<>> /\ \A t \in Threads : ~Writing(t)
    BY DEF Init, StoreInit, Writing
  <2> QED
    BY <2>1 DEF ChainInv, Mutex, WriterInv, ChainLinked, Linked, Events,
                DamageOnlyAtTail, AllIntact
<1>2. TypeOK /\ ChainInv /\ [Next]_vars => (TypeOK /\ ChainInv)'
  BY TypeOKInductive, ChainInductive
<1> QED
  BY <1>1, <1>2, PTL DEF Spec

\* With one process, the receipts in the file always form one chain.
THEOREM ChainIsLinked ==
    ASSUME OneProcess
    PROVE  Spec => []ChainLinked
<1>1. TypeOK /\ ChainInv => ChainLinked
  BY DEF ChainInv
<1> QED
  BY <1>1, ChainAlways, PTL

\* With one process, nothing is recorded behind a damaged line.
THEOREM DamageStaysAtTail ==
    ASSUME OneProcess
    PROVE  Spec => []DamageOnlyAtTail
<1>1. TypeOK /\ ChainInv => DamageOnlyAtTail
  BY DEF ChainInv
<1> QED
  BY <1>1, ChainAlways, PTL

\* With one process, and texts that survive encoding, Verify certifies every
\* log that scans to its end.
THEOREM NoFalseAlarm ==
    ASSUME OneProcess, Faithful
    PROVE  Spec => []VerifyAcceptsOwn
<1>1. TypeOK /\ ChainInv => VerifyAcceptsOwn
  BY DEF ChainInv, ChainLinked, AllIntact, VerifyAcceptsOwn, Certified
<1> QED
  BY <1>1, ChainAlways, PTL

-----------------------------------------------------------------------------
(* No receipt is lost in silence, with any number of processes *)

InFile(r) == \E i \in DOMAIN log : log[i].event = r

AckInv == Scans(log) => \A r \in acked : InFile(r)

LEMMA LandingKeeps ==
    ASSUME TypeOK, NEW l \in Lines(Receipt), log' \in Landings(log, l), Scans(log'),
           NEW r, InFile(r)
    PROVE  InFile(r)'
<1>1. log \in Seq(Lines(Receipt)) /\ log' \in Seq(Lines(Receipt))
      /\ (log' = log \/ Garbled(log, log') \/ Extended(log, log', l))
  BY Landing DEF TypeOK
<1>2. ~Garbled(log, log')
  BY LandingStaysBroken DEF TypeOK
<1>3. CASE log' = log
  BY <1>3 DEF InFile
<1>4. CASE Extended(log, log', l)
  <2>1. \A i \in DOMAIN log : i \in DOMAIN log' /\ log'[i] = log[i]
    BY <1>1, <1>4 DEF Extended
  <2> QED
    BY <2>1 DEF InFile
<1> QED
  BY <1>1, <1>2, <1>3, <1>4

LEMMA AckInductive ==
    ASSUME TypeOK, AckInv, [Next]_vars
    PROVE  AckInv'
<1> DEFINE E == Receipt
<1>0. StoreType(E)
  BY DEF TypeOK, StoreType
<1> SUFFICES ASSUME Scans(log') PROVE \A r \in acked' : InFile(r)'
  BY DEF AckInv
<1>1. ASSUME NEW t \in Threads, RecordDone(t) PROVE \A r \in acked' : InFile(r)'
  <2> DEFINE l == draft[t]
  <2>1. l \in Lines(Receipt) /\ log' \in Landings(log, l)
    BY <1>0, <1>1, CallEnds DEF RecordDone
  <2>2. Scans(log)
    BY <2>1, LandingStaysBroken DEF TypeOK
  <2>3. \A r \in acked : InFile(r)'
    BY <2>1, <2>2, LandingKeeps DEF AckInv
  <2>4. \E i \in DOMAIN log' : log'[i].event = l.event
    <3>1. log' = AppendLine(log, l)
      BY <1>1 DEF RecordDone, Commit
    <3>2. ~Ragged(log)
      <4> SUFFICES ASSUME Ragged(log) PROVE FALSE
        OBVIOUS
      <4>1. log' = Garble(log, TRUE)
        BY <3>1 DEF AppendLine
      <4>2. Garbled(log, log')
        BY <4>1, GarbleType DEF TypeOK
      <4> QED
        BY <2>1, <4>2, LandingStaysBroken DEF TypeOK
    <3>3. log' = Append(log, l)
      BY <3>1, <3>2 DEF AppendLine
    <3>4. Len(log) + 1 \in DOMAIN log' /\ log'[Len(log) + 1].event = l.event
      BY <2>1, <3>3 DEF TypeOK
    <3> QED
      BY <3>4
  <2> QED
    BY <1>1, <2>3, <2>4 DEF RecordDone, InFile
<1>2. ASSUME acked' = acked, Ends PROVE \A r \in acked' : InFile(r)'
  <2>1. CASE log' = log
    BY <1>2, <2>1 DEF AckInv, InFile
  <2>2. CASE \E t \in Threads : Writing(t) /\ log' \in Landings(log, draft[t])
    <3>1. PICK t \in Threads : Writing(t) /\ log' \in Landings(log, draft[t])
      BY <2>2
    <3>2. draft[t] \in Lines(Receipt)
      BY <3>1 DEF TypeOK, Writing
    <3>3. Scans(log)
      BY <3>1, <3>2, LandingStaysBroken DEF TypeOK
    <3> QED
      BY <1>2, <3>1, <3>2, <3>3, LandingKeeps DEF AckInv
  <2> QED
    BY <1>2, <2>1, <2>2 DEF Ends
<1>3. ASSUME acked' = acked, log' = log PROVE \A r \in acked' : InFile(r)'
  BY <1>3 DEF AckInv, InFile
<1>4. ASSUME NEW t \in Threads, RecordFails(t) PROVE \A r \in acked' : InFile(r)'
  BY <1>0, <1>2, <1>4, CallEnds DEF RecordFails
<1>5. ASSUME NEW p \in Procs, Crash(p) PROVE \A r \in acked' : InFile(r)'
  BY <1>0, <1>2, <1>5, ProcessEnds DEF Crash
<1> QED
  BY <1>1, <1>3, <1>4, <1>5 DEF Next, Record, Begin, ReadFails, Read, vars

\* A receipt that was returned stays returned.
LEMMA AckedGrows == [Next]_vars => acked \subseteq acked'
BY DEF Next, Record, RecordDone, RecordFails, ReadFails, Read, Crash, vars

LEMMA AckAlways == Spec => [](TypeOK /\ AckInv)
<1>1. Init => AckInv
  BY DEF Init, AckInv
<1>2. TypeOK /\ AckInv /\ [Next]_vars => AckInv'
  BY AckInductive
<1> QED
  BY <1>1, <1>2, TypeCorrect, PTL DEF Spec

\* A receipt that Record returned is in the file, or Verify does not certify
\* the file.
THEOREM NoSilentLoss == Spec => []LossIsVisible
<1>1. AckInv => LossIsVisible
  BY DEF AckInv, InFile, LossIsVisible, Certified, Scans
<1> QED
  BY <1>1, AckAlways, PTL

-----------------------------------------------------------------------------
(* The log implements the promised chain *)

LEMMA StepRefines ==
    ASSUME OneProcess, Faithful, Unreadable \notin Seq(Receipt),
           TypeOK, ChainInv, TypeOK', [Next]_vars
    PROVE  [Chain!Next]_View
<1> DEFINE E == Receipt
<1>0. StoreType(E) /\ log' \in Seq(Lines(Receipt))
  BY DEF TypeOK, StoreType
<1>1. CASE log' = log
  BY <1>1 DEF View, Events, Scans
<1>2. CASE ~Scans(log')
  BY <1>2 DEF View, Chain!Next, Chain!Break
<1>3. ASSUME Ends, log' # log, Scans(log') PROVE Chain!Next
  <2>1. PICK t \in Threads : Writing(t) /\ log' \in Landings(log, draft[t])
    BY <1>3 DEF Ends
  <2> DEFINE l == draft[t]
             r == l.event
  <2>2. l \in Lines(Receipt) /\ r \in Receipt
    BY <2>1 DEF TypeOK, Writing, Lines
  <2>3. Scans(log) /\ ~Garbled(log, log')
    BY <1>3, <2>1, <2>2, LandingStaysBroken DEF TypeOK
  <2>4. Extended(log, log', l)
    BY <1>3, <2>1, <2>2, <2>3, Landing DEF TypeOK
  <2>5. View = Events(log) /\ View' = Append(View, r)
    BY <1>0, <1>3, <2>2, <2>3, <2>4, EventsExtended DEF TypeOK, View
  <2>6. View # Unreadable
    BY <2>5, EventsType DEF TypeOK
  <2>7. r.prev = TailHash(View) /\ r.hash = HashOf(r.id, r.text, r.prev)
    BY <2>1, <2>5 DEF ChainInv, WriterInv, Intact
  <2>8. r = [id |-> r.id, text |-> r.text, prev |-> TailHash(View),
             hash |-> HashOf(r.id, r.text, TailHash(View))]
        /\ r.id \in Ids /\ r.text \in Texts
    BY <2>2, <2>7 DEF Receipt
  <2>9. Chain!TailHash(View) = TailHash(View)
        /\ \A i, x, p : Chain!HashOf(i, x, p) = HashOf(i, x, p)
    BY DEF Chain!TailHash, TailHash, Chain!HashOf, HashOf, Chain!NoHash, NoHash
  <2> QED
    BY <2>5, <2>6, <2>8, <2>9 DEF Chain!Next, Chain!Extend
<1>4. ASSUME NEW t \in Threads, RecordDone(t) \/ RecordFails(t) PROVE Ends
  BY <1>0, <1>4, CallEnds DEF RecordDone, RecordFails
<1>5. ASSUME NEW p \in Procs, Crash(p) PROVE Ends
  BY <1>0, <1>5, ProcessEnds DEF Crash
<1>6. ASSUME NEW t \in Threads, NEW text \in Texts, Record(t, text) PROVE log' = log
  BY <1>6 DEF Record, Begin
<1> QED
  BY <1>1, <1>2, <1>3, <1>4, <1>5, <1>6 DEF Next, ReadFails, Read, vars

\* With one process, and texts that survive encoding, readers of the log see
\* what AuditChain promises: one growing chain, or for ever an error.
THEOREM Implements ==
    ASSUME OneProcess, Faithful, Unreadable \notin Seq(Receipt)
    PROVE  Spec => ImplementsChain
<1>1. Init => Chain!Init
  BY DEF Init, StoreInit, Chain!Init, View, Scans, Events
<1>2. TypeOK /\ ChainInv /\ TypeOK' /\ [Next]_vars => [Chain!Next]_View
  BY StepRefines
<1> QED
  BY <1>1, <1>2, ChainAlways, PTL DEF Spec, ImplementsChain, Chain!Spec
=============================================================================
