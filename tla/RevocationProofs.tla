-------------------------- MODULE RevocationProofs --------------------------
(***************************************************************************)
(* Theorems about the revocation log, for any number of processes,         *)
(* threads, targets and requests.                                          *)
(***************************************************************************)
EXTENDS Revocation, StoreProofs

Posted(op, key, fits) == Line([op |-> op, key |-> key], fits)

\* A valid target has a key, and the line posted for it is one of the log's.
LEMMA PostedType ==
    ASSUME NEW g \in Targets, Valid(g), NEW op \in {"revoke", "restore"},
           NEW fits \in BOOLEAN
    PROVE  KeyOf(g) \in Key /\ Posted(op, KeyOf(g), fits) \in Lines(Event)
<1>1. KeyOf(g) \in Key
  BY DEF Valid, KeyOf, Key
<1> QED
  BY <1>1 DEF Posted, Line, Lines, Event

-----------------------------------------------------------------------------
(* Types *)

LEMMA InitType == Init => TypeOK
BY DEF Init, StoreInit, TypeOK

LEMMA TypeOKInductive == TypeOK /\ [Next]_vars => TypeOK'
<1> SUFFICES ASSUME TypeOK, [Next]_vars PROVE TypeOK'
  OBVIOUS
<1> DEFINE E == Event
<1>0. StoreType(E)
  BY DEF TypeOK, StoreType
<1>1. ASSUME NEW t \in Threads, NEW g \in Targets, Revoke(t, g) PROVE TypeOK'
  <2>1. \A fits \in BOOLEAN : Posted("revoke", KeyOf(g), fits) \in Lines(Event)
    BY <1>1, PostedType DEF Revoke
  <2> QED
    BY <1>1, <2>1 DEF TypeOK, Revoke, Begin, Posted, Others
<1>2. ASSUME NEW t \in Threads, NEW g \in Targets, Restore(t, g) PROVE TypeOK'
  <2>1. \A fits \in BOOLEAN : Posted("restore", KeyOf(g), fits) \in Lines(Event)
    BY <1>2, PostedType DEF Restore
  <2> QED
    BY <1>2, <2>1 DEF TypeOK, Restore, Begin, Posted, Others
<1>3. ASSUME NEW t \in Threads, Done(t) PROVE TypeOK'
  <2>1. StoreType(E)' /\ draft[t] \in Lines(Event)
    BY <1>0, <1>3, CallEnds DEF Done
  <2>2. draft[t].event.key \in Key
    BY <2>1 DEF Lines, Event
  <2>3. blocked' \subseteq blocked \cup {draft[t].event.key}
        /\ released' \subseteq released \cup {draft[t].event.key}
    BY <1>3 DEF Done
  <2> QED
    BY <2>1, <2>2, <2>3 DEF TypeOK, StoreType
<1>4. ASSUME NEW t \in Threads, Fails(t) PROVE TypeOK'
  <2>1. StoreType(E)'
    BY <1>0, <1>4, CallEnds DEF Fails
  <2> QED
    BY <1>4, <2>1 DEF TypeOK, StoreType, Fails
<1>5. ASSUME NEW p \in Procs, Crash(p) PROVE TypeOK'
  <2>1. StoreType(E)'
    BY <1>0, <1>5, ProcessEnds DEF Crash
  <2> QED
    BY <1>5, <2>1 DEF TypeOK, StoreType, Crash
<1>6. CASE UNCHANGED vars
  BY <1>6 DEF TypeOK, vars
<1> QED
  BY <1>1, <1>2, <1>3, <1>4, <1>5, <1>6 DEF Next, Match, MatchFails, Refuse

\* The state keeps its types, for any processes, targets and requests; every
\* key of the log is normalized and names something.
THEOREM TypeCorrect == Spec => []TypeOK
<1>1. TypeOK /\ [Next]_vars => TypeOK'
  BY TypeOKInductive
<1> QED
  BY <1>1, InitType, PTL DEF Spec

-----------------------------------------------------------------------------
(* The active revocations *)

\* What a line adds to a log that decodes: its own target follows its op,
\* every other target stays as it was.
LEMMA ActiveLands ==
    ASSUME NEW f \in Seq(Lines(Event)), NEW l \in Lines(Event),
           NEW g \in Landings(f, l), Scans(g), NEW k
    PROVE  /\ Scans(f)
           /\ k \in ActiveIn(f) /\ (Read(l.event.key) = k => l.event.op = "revoke")
                => k \in ActiveIn(g)
           /\ k \notin ActiveIn(f) /\ (Read(l.event.key) = k => l.event.op = "restore")
                => k \notin ActiveIn(g)
<1>1. /\ g \in Seq(Lines(Event)) /\ Scans(f)
      /\ g = f \/ Extended(f, g, l)
  BY Landing, LandingStaysBroken
<1>2. CASE g = f
  BY <1>1, <1>2
<1>3. CASE Extended(f, g, l)
  <2> DEFINE n == Len(g)
  <2>1. /\ n = Len(f) + 1 /\ n \in Nat /\ n \in DOMAIN g /\ g[n].event = l.event
        /\ DOMAIN f = 1..Len(f) /\ DOMAIN g = 1..n /\ Len(f) \in Nat
        /\ \A i \in DOMAIN f : i \in DOMAIN g /\ g[i] = f[i] /\ i < n
        /\ \A i \in DOMAIN g : i # n => i \in DOMAIN f
    BY <1>1, <1>3 DEF Extended
  <2>2. ASSUME Read(l.event.key) = k PROVE k \in ActiveIn(g) <=> l.event.op = "revoke"
    <3>1. Decides(g, n)
      BY <2>1 DEF Decides
    <3>2. \A i \in DOMAIN g : Read(g[i].event.key) = k /\ Decides(g, i) => i = n
      BY <2>1, <2>2 DEF Decides
    <3> QED
      BY <2>1, <2>2, <3>1, <3>2 DEF ActiveIn
  <2>3. ASSUME Read(l.event.key) # k PROVE k \in ActiveIn(g) <=> k \in ActiveIn(f)
    <3>1. \A i \in DOMAIN g : Read(g[i].event.key) = k => i \in DOMAIN f
      BY <2>1, <2>3
    <3>2. \A i \in DOMAIN f : Read(f[i].event.key) = k => (Decides(f, i) <=> Decides(g, i))
      BY <2>1, <2>3 DEF Decides
    <3> QED
      BY <2>1, <3>1, <3>2 DEF ActiveIn
  <2> QED
    BY <1>1, <2>2, <2>3
<1> QED
  BY <1>1, <1>2, <1>3

\* While a revocation holds, nobody is about to restore its target, and a log
\* that decodes has it active; the same for a restoration.
HoldInv ==
    /\ \A k \in blocked :
          /\ \A t \in Threads :
                Writing(t) /\ Read(draft[t].event.key) = Read(k) => draft[t].event.op = "revoke"
          /\ Scans(log) => Read(k) \in ActiveIn(log)
    /\ \A k \in released :
          /\ \A t \in Threads :
                Writing(t) /\ Read(draft[t].event.key) = Read(k) => draft[t].event.op = "restore"
          /\ Scans(log) => Read(k) \notin ActiveIn(log)

\* An append that ends without returning success keeps what holds.
LEMMA EndsKeepHold ==
    ASSUME TypeOK, HoldInv, Ends, blocked' = blocked, released' = released
    PROVE  HoldInv'
<1>1. ASSUME NEW t \in Threads, Writing(t)'
      PROVE  Writing(t) /\ draft'[t] = draft[t]
  BY <1>1 DEF Ends, Writing
<1>2. CASE log' = log
  BY <1>1, <1>2 DEF HoldInv
<1>3. CASE \E t \in Threads : Writing(t) /\ log' \in Landings(log, draft[t])
  <2>1. PICK t \in Threads : Writing(t) /\ log' \in Landings(log, draft[t])
    BY <1>3
  <2>2. draft[t] \in Lines(Event) /\ log \in Seq(Lines(Event))
        /\ blocked \subseteq Key /\ released \subseteq Key
    BY <2>1 DEF TypeOK, Writing
  <2>3. ASSUME NEW k \in blocked, Scans(log') PROVE Read(k) \in ActiveIn(log')
    BY <2>1, <2>2, <2>3, ActiveLands DEF HoldInv
  <2>4. ASSUME NEW k \in released, Scans(log') PROVE Read(k) \notin ActiveIn(log')
    BY <2>1, <2>2, <2>4, ActiveLands DEF HoldInv
  <2>5. /\ \A k \in blocked' : Scans(log') => Read(k) \in ActiveIn(log')
        /\ \A k \in released' : Scans(log') => Read(k) \notin ActiveIn(log')
    BY <2>3, <2>4
  <2>6. \A k \in blocked', u \in Threads :
           Writing(u)' /\ Read(draft'[u].event.key) = Read(k) => draft'[u].event.op = "revoke"
    BY <1>1 DEF HoldInv
  <2>7. \A k \in released', u \in Threads :
           Writing(u)' /\ Read(draft'[u].event.key) = Read(k) => draft'[u].event.op = "restore"
    BY <1>1 DEF HoldInv
  <2> QED
    BY <2>5, <2>6, <2>7 DEF HoldInv
<1> QED
  BY <1>2, <1>3 DEF Ends

LEMMA DoneHolds ==
    ASSUME TypeOK, HoldInv, NEW t \in Threads, Done(t)
    PROVE  HoldInv'
<1> DEFINE l == draft[t]
           E == Event
<1>0. StoreType(E)
  BY DEF TypeOK, StoreType
<1>1. /\ l \in Lines(Event) /\ log' \in Landings(log, l) /\ draft'[t] = NoLine
      /\ \A u \in Threads : u # t => draft'[u] = draft[u]
      /\ log \in Seq(Lines(Event)) /\ log' \in Seq(Lines(Event))
      /\ l.event.key \in Key /\ l.event.op \in {"revoke", "restore"}
      /\ blocked \subseteq Key /\ released \subseteq Key
      /\ Writing(t)
  <2>1. Commit(t)
    BY DEF Done
  <2>2. /\ l \in Lines(Event) /\ log' \in Landings(log, l) /\ draft'[t] = NoLine
        /\ \A u \in Threads : u # t => draft'[u] = draft[u]
        /\ StoreType(E)'
    BY <1>0, <2>1, CallEnds
  <2>3. l.event.key \in Key /\ l.event.op \in {"revoke", "restore"}
    BY <2>2 DEF Lines, Event
  <2> QED
    BY <2>1, <2>2, <2>3 DEF TypeOK, StoreType, Commit
<1>2. ASSUME NEW u \in Threads, Writing(u)' PROVE Writing(u) /\ draft'[u] = draft[u]
  BY <1>1, <1>2 DEF Writing
<1>3. Scans(log') => Extended(log, log', l)
  <2> SUFFICES ASSUME Scans(log') PROVE Extended(log, log', l)
    OBVIOUS
  <2>1. ~Garbled(log, log')
    BY <1>1, LandingStaysBroken
  <2>2. ~Ragged(log)
    BY <1>1, <2>1, GarbleType DEF Done, Commit, AppendLine
  <2>3. log' = Append(log, l)
    BY <2>2 DEF Done, Commit, AppendLine
  <2> QED
    BY <1>1, <2>2, <2>3, ExtendType
<1>4. Scans(log') => (Read(l.event.key) \in ActiveIn(log') <=> l.event.op = "revoke")
  <2> SUFFICES ASSUME Scans(log')
               PROVE  Read(l.event.key) \in ActiveIn(log') <=> l.event.op = "revoke"
    OBVIOUS
  <2> DEFINE n == Len(log')
  <2>1. n \in DOMAIN log' /\ log'[n].event = l.event /\ n \in Nat /\ DOMAIN log' = 1..n
    BY <1>1, <1>3 DEF Extended
  <2>2. Decides(log', n)
    BY <2>1 DEF Decides
  <2>3. \A i \in DOMAIN log' :
           Read(log'[i].event.key) = Read(l.event.key) /\ Decides(log', i) => i = n
    BY <2>1 DEF Decides
  <2> QED
    BY <2>1, <2>2, <2>3 DEF ActiveIn
<1>5. ASSUME NEW k \in blocked'
      PROVE  /\ \A u \in Threads : Writing(u)' /\ Read(draft'[u].event.key) = Read(k)
                                    => draft'[u].event.op = "revoke"
             /\ Scans(log') => Read(k) \in ActiveIn(log')
  <2>1. CASE k \in blocked
    <3>1. Scans(log') => Read(k) \in ActiveIn(log')
      BY <1>1, <2>1, ActiveLands DEF HoldInv
    <3> QED
      BY <1>2, <2>1, <3>1 DEF HoldInv
  <2>2. CASE k \notin blocked
    <3>1. k = l.event.key /\ l.event.op = "revoke" /\ ~Contested(t)
      BY <1>5, <2>2 DEF Done
    <3> QED
      BY <1>2, <1>4, <3>1 DEF Contested
  <2> QED
    BY <2>1, <2>2
<1>6. ASSUME NEW k \in released'
      PROVE  /\ \A u \in Threads : Writing(u)' /\ Read(draft'[u].event.key) = Read(k)
                                    => draft'[u].event.op = "restore"
             /\ Scans(log') => Read(k) \notin ActiveIn(log')
  <2>1. CASE k \in released
    <3>1. Scans(log') => Read(k) \notin ActiveIn(log')
      BY <1>1, <2>1, ActiveLands DEF HoldInv
    <3> QED
      BY <1>2, <2>1, <3>1 DEF HoldInv
  <2>2. CASE k \notin released
    <3>1. k = l.event.key /\ l.event.op = "restore" /\ ~Contested(t)
      BY <1>6, <2>2 DEF Done
    <3> QED
      BY <1>2, <1>4, <3>1 DEF Contested
  <2> QED
    BY <2>1, <2>2
<1> QED
  BY <1>5, <1>6 DEF HoldInv

LEMMA HoldInductive ==
    ASSUME TypeOK, HoldInv, [Next]_vars
    PROVE  HoldInv'
<1> DEFINE E == Event
<1>0. StoreType(E)
  BY DEF TypeOK, StoreType
<1>1. ASSUME NEW t \in Threads, NEW g \in Targets, Revoke(t, g) PROVE HoldInv'
  <2>0. PICK fits \in BOOLEAN : Begin(t, Posted("revoke", KeyOf(g), fits))
    BY <1>1 DEF Revoke, Posted
  <2> DEFINE l == Posted("revoke", KeyOf(g), fits)
  <2>1. l \in Lines(Event) /\ l.event.key = Meant(g) /\ l.event.op = "revoke"
    BY <1>1, PostedType DEF Revoke, Posted, Line, KeyOf, Meant
  <2>2. log' = log /\ draft' = [draft EXCEPT ![t] = l] /\ blocked' = blocked
        /\ released' = Others(released, g)
    BY <1>1, <2>0 DEF Revoke, Begin
  <2>3. draft'[t] = l /\ \A u \in Threads : u # t => draft'[u] = draft[u]
    BY <2>2 DEF TypeOK
  <2> QED
    BY <2>1, <2>2, <2>3 DEF HoldInv, Others, Writing
<1>2. ASSUME NEW t \in Threads, NEW g \in Targets, Restore(t, g) PROVE HoldInv'
  <2>0. PICK fits \in BOOLEAN : Begin(t, Posted("restore", KeyOf(g), fits))
    BY <1>2 DEF Restore, Posted
  <2> DEFINE l == Posted("restore", KeyOf(g), fits)
  <2>1. l \in Lines(Event) /\ l.event.key = Meant(g) /\ l.event.op = "restore"
    BY <1>2, PostedType DEF Restore, Posted, Line, KeyOf, Meant
  <2>2. log' = log /\ draft' = [draft EXCEPT ![t] = l] /\ released' = released
        /\ blocked' = Others(blocked, g)
    BY <1>2, <2>0 DEF Restore, Begin
  <2>3. draft'[t] = l /\ \A u \in Threads : u # t => draft'[u] = draft[u]
    BY <2>2 DEF TypeOK
  <2> QED
    BY <2>1, <2>2, <2>3 DEF HoldInv, Others, Writing
<1>3. ASSUME NEW t \in Threads, Done(t) PROVE HoldInv'
  BY <1>3, DoneHolds
<1>4. ASSUME NEW t \in Threads, Fails(t) PROVE HoldInv'
  BY <1>0, <1>4, CallEnds, EndsKeepHold DEF Fails
<1>5. ASSUME NEW p \in Procs, Crash(p) PROVE HoldInv'
  BY <1>0, <1>5, ProcessEnds, EndsKeepHold DEF Crash
<1>6. CASE UNCHANGED vars
  BY <1>6 DEF HoldInv, vars, Writing
<1> QED
  BY <1>1, <1>2, <1>3, <1>4, <1>5, <1>6 DEF Next, Match, MatchFails, Refuse

LEMMA HoldAlways == Spec => [](TypeOK /\ HoldInv)
<1>1. Init => TypeOK /\ HoldInv
  BY InitType DEF Init, HoldInv
<1>2. TypeOK /\ HoldInv /\ [Next]_vars => (TypeOK /\ HoldInv)'
  BY TypeOKInductive, HoldInductive
<1> QED
  BY <1>1, <1>2, PTL DEF Spec

-----------------------------------------------------------------------------
\* Whatever part of the appends in progress a reader meets, a request that
\* names a target whose revocation holds is revoked or gets an error.
LEMMA BlocksEveryView ==
    ASSUME TypeOK, HoldInv, NEW k \in blocked, NEW t \in Threads,
           NEW f \in Views(t), Scans(f)
    PROVE  Read(k) \in ActiveIn(f)
<1>1. CASE f = log
  BY <1>1 DEF HoldInv
<1>2. CASE f # log
  <2>1. PICK u \in Threads : Writing(u) /\ f \in Landings(log, draft[u])
    BY <1>2 DEF Views, Landings
  <2>2. draft[u] \in Lines(Event) /\ log \in Seq(Lines(Event)) /\ k \in Key
    BY <2>1 DEF TypeOK, Writing
  <2> QED
    BY <2>1, <2>2, ActiveLands DEF HoldInv
<1> QED
  BY <1>1, <1>2

\* No reader finds a request clear that names a revoked target.
THEOREM RevocationHolds == Spec => []RevokedBlocks
<1>1. TypeOK /\ HoldInv => RevokedBlocks
  BY BlocksEveryView DEF RevokedBlocks, Answer, Legible
<1> QED
  BY <1>1, HoldAlways, PTL

LEMMA ActiveAreKeys ==
    ASSUME TypeOK, NEW k \in ActiveIn(log)
    PROVE  \E key \in Key : k = Read(key)
<1>1. \A l \in Lines(Event) : l.event.key \in Key
  BY DEF Lines, Event
<1>2. PICK i \in DOMAIN log : k = Read(log[i].event.key)
  BY DEF ActiveIn
<1> QED
  BY <1>1, <1>2 DEF TypeOK

\* Reading a key changes its id alone; everything stays everything, and a
\* name a name.
LEMMA ReadIs ==
    ASSUME NEW k \in Key
    PROVE  /\ Read(k) = [type |-> k.type, id |-> Decoded[k.id]]
           /\ k.type = "all" => Read(k) = k
           /\ k.type # "all" => Decoded[k.id] # Blank
<1>1. k = [type |-> k.type, id |-> k.id]
  BY DEF Key
<1>2. Read(k) = [type |-> k.type, id |-> Decoded[k.id]]
  BY <1>1 DEF Read
<1>3. k.type = "all" => k.id = AnyId
  BY DEF Key, Types
<1>4. k.type # "all" => \E g \in Targets : k.id = Trimmed[g.id] /\ Trimmed[g.id] # Blank
  BY DEF Key
<1> QED
  BY <1>1, <1>2, <1>3, <1>4, DecodedAssumption

\* A restored target blocks nobody.
THEOREM RestorationHolds == Spec => []RestoreReleases
<1>1. TypeOK /\ HoldInv => RestoreReleases
  <2> SUFFICES ASSUME TypeOK, HoldInv, Scans(log),
                      NEW k \in released, NEW a \in ActiveIn(log), a.type = k.type
               PROVE  a.type # "all" /\ a.id # Decoded[k.id]
    BY DEF RestoreReleases
  <2>1. k \in Key /\ Read(k) \notin ActiveIn(log)
    BY DEF TypeOK, HoldInv
  <2>2. PICK key \in Key : a = Read(key)
    BY ActiveAreKeys
  <2>3. Read(key) # Read(k)
    BY <2>1, <2>2
  <2>4. /\ Read(key) = [type |-> key.type, id |-> Decoded[key.id]]
        /\ Read(k) = [type |-> k.type, id |-> Decoded[k.id]]
    BY <2>1, ReadIs
  <2>5. key.type = "all" => key.id = AnyId
    BY DEF Key, Types
  <2>6. k.type = "all" => k.id = AnyId
    BY <2>1 DEF Key, Types
  <2> QED
    BY <2>2, <2>3, <2>4, <2>5, <2>6
<1> QED
  BY <1>1, HoldAlways, PTL

\* A request that leaves a field empty is blocked by no revocation of that
\* field.
THEOREM NamelessAreFree == Spec => []NamelessNotBlocked
<1>1. TypeOK => NamelessNotBlocked
  <2> SUFFICES ASSUME TypeOK, NEW k \in ActiveIn(log), NEW req \in Requests,
                      Covers(k, req)
               PROVE  k.type = "all" \/ req[k.type] # Blank
    BY DEF NamelessNotBlocked
  <2>1. PICK key \in Key : k = Read(key)
    BY ActiveAreKeys
  <2>2. key.type # "all" => k.type = key.type /\ k.id # Blank
    BY <2>1, ReadIs
  <2>3. key.type = "all" => k.type = "all"
    BY <2>1, ReadIs
  <2> QED
    BY <2>2, <2>3 DEF Covers
<1> QED
  BY <1>1, TypeCorrect, PTL

\* A log that does not decode stays so.
THEOREM DamageStaysClosed == Spec => StaysClosed
<1>1. TypeOK /\ [Next]_vars => [~Scans(log) => ~Scans(log)']_vars
  <2> SUFFICES ASSUME TypeOK, Next, Scans(log') PROVE Scans(log)
    OBVIOUS
  <2> DEFINE E == Event
  <2>0. StoreType(E)
    BY DEF TypeOK, StoreType
  <2>1. ASSUME Ends PROVE Scans(log)
    <3>1. CASE log' = log
      BY <3>1
    <3>2. CASE \E t \in Threads : Writing(t) /\ log' \in Landings(log, draft[t])
      <4>1. PICK t \in Threads : Writing(t) /\ log' \in Landings(log, draft[t])
        BY <3>2
      <4>2. draft[t] \in Lines(Event)
        BY <4>1 DEF TypeOK, Writing
      <4> QED
        BY <4>1, <4>2, LandingStaysBroken DEF TypeOK
    <3> QED
      BY <2>1, <3>1, <3>2 DEF Ends
  <2>2. ASSUME NEW t \in Threads, Done(t) \/ Fails(t) PROVE Ends
    BY <2>0, <2>2, CallEnds DEF Done, Fails
  <2>3. ASSUME NEW p \in Procs, Crash(p) PROVE Ends
    BY <2>0, <2>3, ProcessEnds DEF Crash
  <2>4. ASSUME NEW t \in Threads, NEW g \in Targets, Revoke(t, g) \/ Restore(t, g)
        PROVE  log' = log
    BY <2>4 DEF Revoke, Restore, Begin
  <2> QED
    BY <2>1, <2>2, <2>3, <2>4 DEF Next, Match, MatchFails, Refuse, vars
<1> QED
  BY <1>1, TypeCorrect, PTL DEF Spec, StaysClosed
=============================================================================
