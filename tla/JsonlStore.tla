----------------------------- MODULE JsonlStore -----------------------------
(***************************************************************************)
(* What the three stores share: a log file, and the goroutines of one or   *)
(* more processes that append to it.  Every process has its own mutex (the *)
(* mu of Recorder and Store); nothing orders two processes.  A thread      *)
(* holds its process's mutex exactly while it has a draft: the event it    *)
(* composed from what it read and has not yet finished writing.            *)
(***************************************************************************)
EXTENDS Jsonl

CONSTANTS
    Threads,    \* the calls that may be in progress at once
    Procs,      \* the server, and each CLI process
    ProcOf,     \* the process each thread runs in
    NoLine      \* a thread that is not writing

ASSUME ThreadAssumption == ProcOf \in [Threads -> Procs]

VARIABLES
    log,        \* the file
    draft       \* draft[t]: the line t is about to append, or NoLine

StoreInit == log = <<>> /\ draft = [t \in Threads |-> NoLine]

Writing(t) == draft[t] # NoLine

Peers(t) == {u \in Threads : ProcOf[u] = ProcOf[t]}

\* Fault: no mutex around the read and the append.
LockFreeNoMutex(t) == ~Writing(t)

\* mu.Lock() succeeds: no call of the same process is between its read of
\* the log and the end of its append.
LockFree(t) == \A u \in Peers(t) : ~Writing(u)

\* No process has two threads between their read and the end of their write.
Mutex == \A t, u \in Threads :
            ProcOf[t] = ProcOf[u] /\ Writing(t) /\ Writing(u) => t = u

Begin(t, l) == draft' = [draft EXCEPT ![t] = l] /\ UNCHANGED log

Release(t) == draft' = [draft EXCEPT ![t] = NoLine]

\* Fault: the file is opened with O_TRUNC instead of O_APPEND.
CommitTruncating(t) == Writing(t) /\ log' = <<draft[t]>> /\ Release(t)

\* The append succeeds.
Commit(t) == Writing(t) /\ log' = AppendLine(log, draft[t]) /\ Release(t)

\* Fault: the mutex is unlocked on success only.
FailKeepingMutex(t) ==
    Writing(t) /\ log' \in CutAppend(log, draft[t]) /\ UNCHANGED draft

\* MkdirAll, OpenFile or the write itself returns an error, after any
\* number of bytes.
Fail(t) == Writing(t) /\ log' \in CutAppend(log, draft[t]) /\ Release(t)

\* What t may find in the file: another thread's append may have reached it
\* in part, or whole before its call returns.
Views(t) ==
    {log} \cup
    UNION {CutAppend(log, draft[u]) \cup {AppendLine(log, draft[u])}
             : u \in {v \in Threads \ {t} : Writing(v)}}

\* Process p dies, its memory and its mutex with it; an append in progress
\* is lost, cut short or complete.
Halt(p) ==
    LET writers == {t \in Threads : ProcOf[t] = p /\ Writing(t)}
    IN  /\ log' \in {log} \cup
               UNION {CutAppend(log, draft[t]) \cup {AppendLine(log, draft[t])}
                        : t \in writers}
        /\ draft' = [t \in Threads |-> IF ProcOf[t] = p THEN NoLine ELSE draft[t]]
=============================================================================
