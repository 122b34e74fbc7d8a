----------------------------- MODULE Revocation -----------------------------
(***************************************************************************)
(* The revocation log: internal/revocation.  Threads of one or more        *)
(* processes call Store.Revoke and Store.Restore, which append an event    *)
(* under the mutex without reading the log, and Store.Match, which reads   *)
(* the log without the mutex.                                              *)
(***************************************************************************)
EXTENDS JsonlStore

CONSTANTS
    Targets,        \* what a caller may name: a type, and an id as typed
    Trimmed,        \* the id without the space around it
    Blank,          \* the empty id
    Decoded,        \* the id that decoding the written line yields
    Requests,       \* requests, by what they hold for each target type
    MaxLines        \* bound on the lines of the log

ASSUME BoundAssumption == MaxLines \in Nat

AnyId == "*"

\* JSON loses no id altogether; bytes that are not UTF-8 it changes.
ASSUME DecodedAssumption ==
    /\ Decoded[AnyId] = AnyId
    /\ \A g \in Targets : Trimmed[g.id] # Blank => Decoded[Trimmed[g.id]] # Blank

VARIABLES
    blocked,        \* targets whose revocation holds: Revoke returned, and
                    \* no Restore of the target, or of one that reads back
                    \* the same, has started since
    released        \* the same for Restore

vars == <<log, draft, blocked, released>>

Types == {"all", "agent", "agent_instance", "user", "session", "action"}

\* The keys of the snapshot: a field of requests with a name it may hold, or
\* the one key for everything.
Key ==
    [type : Types \ {"all"}, id : {Trimmed[g.id] : g \in Targets} \ {Blank}]
      \cup {[type |-> "all", id |-> AnyId]}

Event == [op : {"revoke", "restore"}, key : Key]

Init == StoreInit /\ blocked = {} /\ released = {}

-----------------------------------------------------------------------------
\* Fault: only the id of a target is checked.
ValidAnyType(g) == g.type # "all" => Trimmed[g.id] # Blank

\* Fault: only the type of a target is checked.
ValidAnyId(g) == g.type \in Types

\* validateTarget
Valid(g) ==
    /\ g.type \in Types
    /\ g.type # "all" => Trimmed[g.id] # Blank

\* What the caller means by a target: one id per type, and one "all".
Meant(g) == [type |-> g.type, id |-> IF g.type = "all" THEN AnyId ELSE Trimmed[g.id]]

\* Fault: the id of an "all" target is kept as typed.
KeyOfUnnormalized(g) == [type |-> g.type, id |-> Trimmed[g.id]]

\* normalizeTargetID
KeyOf(g) == [type |-> g.type, id |-> IF g.type = "all" THEN AnyId ELSE Trimmed[g.id]]

\* A key as a reader of its line finds it; an event is written with the id
\* in memory.
Read(k) == [k EXCEPT !.id = Decoded[@]]

\* The key survives its line.
Legible(k) == Read(k) = k

\* No later event of the same target overrides line i.
Decides(f, i) ==
    \A j \in DOMAIN f : Read(f[j].event.key) = Read(f[i].event.key) => j <= i

\* snapshot, for a log that decodes.
ActiveIn(f) ==
    {Read(f[i].event.key)
       : i \in {j \in DOMAIN f : f[j].event.op = "revoke" /\ Decides(f, j)}}

\* matches
Covers(k, req) == k.type = "all" \/ req[k.type] = k.id

\* Fault: a log that does not decode reads as far as it decodes.
AnswerAnyway(f, req) ==
    LET read == SelectSeq(f, LAMBDA l : l.whole)
    IN  IF \E k \in ActiveIn(read) : Covers(k, req) THEN "revoked" ELSE "clear"

\* What Match answers for request req when it finds f in the file.
Answer(f, req) ==
    IF ~Scans(f) THEN "error"
    ELSE IF \E k \in ActiveIn(f) : Covers(k, req) THEN "revoked"
    ELSE "clear"

-----------------------------------------------------------------------------
\* The keys that an event for g does not touch.
Others(keys, g) == {k \in keys : Read(k) # Read(Meant(g))}

\* Revoke or Restore, up to the append: the target is validated and
\* normalized, the mutex taken.  The reason may make the line too long.
Revoke(t, g) ==
    /\ Valid(g)
    /\ LockFree(t)
    /\ Len(log) < MaxLines
    /\ \E fits \in BOOLEAN : Begin(t, Line([op |-> "revoke", key |-> KeyOf(g)], fits))
    /\ released' = Others(released, g)
    /\ UNCHANGED blocked

Restore(t, g) ==
    /\ Valid(g)
    /\ LockFree(t)
    /\ Len(log) < MaxLines
    /\ \E fits \in BOOLEAN : Begin(t, Line([op |-> "restore", key |-> KeyOf(g)], fits))
    /\ blocked' = Others(blocked, g)
    /\ UNCHANGED released

\* Another process is about to append the opposite event for this target.
Contested(t) ==
    \E u \in Threads :
        /\ Writing(u)
        /\ Read(draft[u].event.key) = Read(draft[t].event.key)
        /\ draft[u].event.op # draft[t].event.op

\* The append succeeds and the call returns.
Done(t) ==
    /\ Commit(t)
    /\ LET e == draft[t].event
           holds(op) == IF e.op = op /\ ~Contested(t) THEN {e.key} ELSE {}
       IN  /\ blocked' = blocked \cup holds("revoke")
           /\ released' = released \cup holds("restore")

\* The append fails and the call returns its error.
Fails(t) == Fail(t) /\ UNCHANGED <<blocked, released>>

\* Match or Active answers; Refuse is an invalid target.  Neither takes the
\* mutex or changes anything.
Match(t, req) == ~Writing(t) /\ Answer(log, req) # "error" /\ UNCHANGED vars

MatchFails(t) == ~Writing(t) /\ (\E f \in Views(t) : ~Scans(f)) /\ UNCHANGED vars

Refuse(t) == ~Writing(t) /\ (\E g \in Targets : ~Valid(g)) /\ UNCHANGED vars

\* Process p dies during an append, and starts again.
Crash(p) ==
    /\ \E t \in Threads : ProcOf[t] = p /\ Writing(t)
    /\ Halt(p)
    /\ UNCHANGED <<blocked, released>>

Next ==
    \/ \E t \in Threads :
          \/ \E g \in Targets : Revoke(t, g) \/ Restore(t, g)
          \/ Done(t)
          \/ Fails(t)
          \/ \E req \in Requests : Match(t, req)
          \/ MatchFails(t)
          \/ Refuse(t)
    \/ \E p \in Procs : Crash(p)

Spec == Init /\ [][Next]_vars

-----------------------------------------------------------------------------
\* Only validated and normalized targets reach the log: every event names a
\* key that validateTarget and normalizeTargetID can yield.
TypeOK ==
    /\ log \in Seq(Lines(Event))
    /\ draft \in [Threads -> Lines(Event) \cup {NoLine}]
    /\ blocked \subseteq Key
    /\ released \subseteq Key

\* Once Revoke has returned, no request that names the target is clear, for
\* any reader in any process and whatever later fails or crashes, until a
\* Restore of the target starts.  A revocation whose line was garbled (its
\* append ran into an unended line) leaves an error, never "clear".  This is
\* for the ids that JSON keeps: `revocations add` also takes an id that is
\* not UTF-8, which reads back as another one and blocks nobody it names.
RevokedBlocks ==
    \A k \in blocked, req \in Requests, t \in Threads :
        Legible(k) /\ Covers(k, req) => \A f \in Views(t) : Answer(f, req) # "clear"

\* Once Restore has returned, the target blocks nobody, until a Revoke of it
\* starts; for "all" this holds however the two callers wrote the id, and for
\* an id that JSON changes, of the id that it became.
RestoreReleases ==
    Scans(log) =>
        \A k \in released, a \in ActiveIn(log) :
            a.type = k.type => a.type # "all" /\ a.id # Decoded[k.id]

\* A revocation blocks only requests that name its target: one that leaves a
\* field empty is blocked by nothing but "all".
NamelessNotBlocked ==
    \A k \in ActiveIn(log), req \in Requests :
        Covers(k, req) => k.type = "all" \/ req[k.type] # Blank

\* A log that a reader could not decode never becomes readable again by
\* itself: every decision is refused until someone repairs the file.
StaysClosed == [][~Scans(log) => ~Scans(log)']_vars
=============================================================================
