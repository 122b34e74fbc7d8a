------------------------------- MODULE Audit -------------------------------
(***************************************************************************)
(* The audit log: internal/audit.  Threads of one or more processes call   *)
(* Recorder.Record, which reads the last hash and appends a receipt linked *)
(* to it, and the readers List, Get and Verify.  Writes fail part way and  *)
(* processes die and start again.                                          *)
(***************************************************************************)
EXTENDS JsonlStore, Receipts

CONSTANTS
    LongTexts,      \* texts whose line exceeds the scanner's buffer
    ReadBack,       \* the text that decoding the written line yields
    Unreadable      \* a reader is given an error

ASSUME TextAssumption == LongTexts \subseteq Texts /\ ReadBack \in [Texts -> Texts]

VARIABLE acked      \* the receipts Record has returned to a caller

vars == <<log, draft, acked>>

Init == StoreInit /\ acked = {}

Minted ==
    {log[i].event.id : i \in DOMAIN log}
      \cup {draft[t].event.id : t \in {u \in Threads : Writing(u)}}
      \cup {r.id : r \in acked}

\* newID returns an id that no receipt has; which one makes no difference.
NewId == CHOOSE i \in Ids : i \notin Minted

\* Fault: the integrity hash is not set.
NewReceiptUnhashed(text) ==
    [id |-> NewId, text |-> ReadBack[text], prev |-> TailHash(Events(log))]

\* Fault: the hash is taken before the previous hash is filled in.
NewReceiptHashedEarly(text) ==
    [id |-> NewId, text |-> ReadBack[text], prev |-> TailHash(Events(log)),
     hash |-> HashOf(NewId, text, NoHash)]

\* The receipt as its line reads back.  Its hash is taken before, over the
\* text in memory.
NewReceipt(text) ==
    LET prev == TailHash(Events(log))
    IN  [id |-> NewId, text |-> ReadBack[text], prev |-> prev,
         hash |-> HashOf(NewId, text, prev)]

\* Fault: lastHashLocked skips a line that does not decode.
DecodesAnything == TRUE

\* lastHashLocked returns no error.
Decodes == Scans(log)

-----------------------------------------------------------------------------
\* Record, up to the append: the mutex is taken, the log read, the receipt
\* composed and hashed.
Record(t, text) ==
    /\ LockFree(t)
    /\ Decodes
    /\ Minted # Ids
    /\ Begin(t, Line(NewReceipt(text), text \notin LongTexts))
    /\ UNCHANGED acked

\* Record returns the receipt.
RecordDone(t) ==
    /\ Commit(t)
    /\ acked' = acked \cup {draft[t].event}

\* Record returns the error of the append.
RecordFails(t) == Fail(t) /\ UNCHANGED acked

\* Record, List or Get returns an error, because of the file or because the
\* read met another process's append.  Nothing changes.
ReadFails(t) ==
    /\ LockFree(t)
    /\ \E f \in Views(t) : ~Scans(f)
    /\ UNCHANGED vars

\* List, Get or Verify returns; they hold the mutex and change nothing.
Read(t) == LockFree(t) /\ UNCHANGED vars

\* Process p dies during an append, and starts again.
Crash(p) ==
    /\ \E t \in Threads : ProcOf[t] = p /\ Writing(t)
    /\ Halt(p)
    /\ UNCHANGED acked

Next ==
    \/ \E t \in Threads :
          \/ \E text \in Texts : Record(t, text)
          \/ RecordDone(t)
          \/ RecordFails(t)
          \/ ReadFails(t)
          \/ Read(t)
    \/ \E p \in Procs : Crash(p)

Spec == Init /\ [][Next]_vars

-----------------------------------------------------------------------------
\* Fault: Verify passes over a line that does not decode.
CertifiedSkipping(f) ==
    \A i \in DOMAIN f : f[i].whole => Intact(f[i].event)

\* Verify returns valid and no error.
Certified(f) ==
    /\ Scans(f)
    /\ \A i \in DOMAIN f : Intact(f[i].event)
    /\ Linked(Events(f))

\* What List and Get read.
View == IF Scans(log) THEN Events(log) ELSE Unreadable

-----------------------------------------------------------------------------
\* The state has the shape the code gives it: a file of receipt lines, at
\* most one draft per process, and receipts handed to callers.
TypeOK ==
    /\ log \in Seq(Lines(Receipt))
    /\ draft \in [Threads -> Lines(Receipt) \cup {NoLine}]
    /\ Mutex
    /\ acked \subseteq Receipt

\* Every thread of a process that has the log to itself: one server, and no
\* command that records while it runs.
OneProcess == \A p, q \in Procs : p = q

\* Every text survives encoding and decoding.
Faithful == \A t \in Texts : ReadBack[t] = t

\* The receipts in the file form one chain, whatever failed or crashed: no
\* two receipts have the same predecessor, and none is linked to a receipt
\* that is not there.  Record's mutex spans the read of the last hash and
\* the append.
ChainLinked == Linked(Events(log))

\* Damage stays in the last line: after a failed write or a crash, nothing
\* is recorded behind bytes that do not decode, as Record reads the log to
\* its end before it appends.
DamageOnlyAtTail ==
    \A i \in DOMAIN log : i < Len(log) => log[i].whole /\ log[i].ended

\* Verify has no false alarms: a log that Record alone wrote and that scans
\* to its end is certified, so a reported hash means an edited file.
VerifyAcceptsOwn == Scans(log) => Certified(log)

\* No receipt is lost in silence: one that Record returned is in the file
\* for List and Get, or Verify does not certify the file.  Record can return
\* a receipt nobody can read (the append ran into an unended line, or the
\* line is too long); what must not happen is that Verify then passes.
LossIsVisible ==
    \A r \in acked :
        Certified(log) => \E i \in DOMAIN log : log[i].whole /\ log[i].event = r

Chain == INSTANCE AuditChain WITH view <- View

\* The file, its readers and its writers implement the promised chain.
ImplementsChain == Chain!Spec
=============================================================================
