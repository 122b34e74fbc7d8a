# Verification of OpenAgentsGate

OpenAgentsGate decides whether an agent may act. A request is completed and
classified, checked against revocations and a policy, answered (`allow`,
`deny`, `approval_required`, `dry_run`) and recorded. What it promises rests on
three append-only JSON-lines files, which the server and every command line
call open for themselves. This directory holds TLA+ models of that core and of
what surrounds it (callers, start-up, redaction), the TLC configurations that
check them and the TLAPS proofs of what holds for all sizes.

## 1. The system

| Component | State | Operations | Correct when |
|---|---|---|---|
| audit log, `internal/audit` | `audit.jsonl`; one mutex per process | `Record`, `List`, `Get`, `Verify` | receipts form one hash chain, losses and damage are reported, and nothing else is |
| approval log, `internal/approval` | `approvals.jsonl`; one mutex per process | `CreatePending`, `Resolve`, `List`, `Get` | one pending approval per request id, one final verdict per approval, answers that stand |
| revocation log, `internal/revocation` | `revocations.jsonl`; one mutex per process, for writers only | `Revoke`, `Restore`, `Active`, `Match` | a revocation that returned blocks, a restore releases, a damaged log refuses |
| gateway, `internal/gateway` | none of its own | `Decide`, `Replay`, delegations | revocation before policy, approval before receipt, errors stop the call, every call returns |
| policy, risk, action, decision | configuration, read only | `WithDefaults`, `Classify`, `Decide` | first matching rule, else the default |
| starter configuration, `internal/config/defaults.go` | the configuration file | `Default`, `WriteDefault` | rule order and labels never unlock what the rules withhold |
| configuration loading, `config.go`, `config_paths.go`, `init.go` | the configuration file; each process's copy of it | find, create, force, load | the nearest file wins, nobody's file is overwritten unasked, what runs is what was written |
| HTTP API, `internal/server` | the admin token | handlers over the gateway | nobody without the token beyond the loopback; an answer holds even if its client left |
| command line, `cmd/openagentsgate` | the supervised command | `check`, `decide`, `tool`, `wrap`, ... | nothing is executed without an allow that was recorded, or against a revocation |
| redaction, `internal/redact`, `command_redact.go` | none | `Map`, argument lists | no secret is persisted, nothing else is lost |
| `internal/ids`, help, build info | none | | ids are not used twice |

How they interact: the server and the commands call `gateway.Service`, which
calls the three stores in turn. `Decide` is `evaluate` (reads revocations), then
`CreatePending` if the effect asks for it, then `Record`: three separate
critical sections with nothing around them. The stores share nothing but the
file system with the same stores of other processes; a command that runs beside
the server has its own mutexes on the same files. Every command that needs the service, and
`run`, first finds its configuration (the nearest project file, else the user's),
creates a missing user file, and loads it once; a server keeps that copy for its
whole life. `tool` and `wrap` start another command on an allow.

What makes it hard:

* *Concurrency.* Read, decide, append is one step for the goroutines of a
  process and for nobody else. `revocation.snapshot` takes no lock at all.
* *Partial writes and crashes.* An append may leave nothing, a fragment, or a
  whole object without its newline; the next append continues that line. Nothing
  is repaired; readers fail on the first line that does not decode.
* *Limits.* A line over 1 MiB is written, acknowledged, and never read again.
* *Partial failure of a call.* An approval stays when its receipt fails.
* *Start-up.* Look, create, write and load are separate system calls of processes
  that may all be the first; `init -force` truncates a file others may be
  writing or reading.
* *Callers.* A client leaves or times out while its decision goes on; a process
  can die between the receipt and the command it allows.
* *Ordering.* First matching rule, last event per target, revocation before
  policy.

The approval of a request does not unlock it: a resubmission after the approval
is decided like the first one and creates a new pending approval
(docs/state-and-config.md:123). No property says otherwise.

`PROJECT.json` lists every hazard at its line with the properties about it, and
the ones that have none yet with the reason.

## 2. Modules

```
Jsonl            lines, fragments, what an append can leave
  JsonlStore     log, mutex, append, failure, torn reads, process death
    Audit        + Receipts (hash chain)      implements AuditChain
    Approval                                  implements ApprovalLifecycle
    Revocation
      Gateway    instances of Audit, Approval and Revocation
        Callers  HTTP handlers and commands over Gateway
Policy           matching and deciding, as operators
  DefaultPolicy  the configuration that init writes
    Replay       + Redact (what is hidden): a request stored and replayed
Config           finding, creating and loading the configuration; serving
StoreProofs      lemmas about files and mutexes, under
                 AuditProofs, ApprovalProofs, RevocationProofs
GatewayProofs    instances of those three
  CallersProofs
ConfigProofs
PolicyProofs     about Policy, DefaultPolicy, Redact and Replay
MCAudit, MCApproval, MCRevocation, MCDefaultPolicy, MCGateway, MCCallers,
MCConfig         instances
```

**Jsonl, JsonlStore.** A file is a sequence of lines; a line is the event it was
written for, `whole` if a reader still decodes it and `ended` if its newline is
there. `AppendLine` and `CutAppend` are the outcomes of `Encode` on an
`O_APPEND` file, and an append after an unended line garbles it. `draft[t]` is
the line that thread `t` composed and has not finished writing; a thread has a
draft exactly while it holds its process's mutex, so `LockFree` is a mutex
without a variable. `Commit` and `Fail` are the landing of the bytes together
with the return of the call. A reader without the lock, or in another process,
can also meet the file while bytes are landing: `Views(t)` adds the partial and
complete outcomes of everybody else's append. `Halt(p)` is the death of a
process with any of these outcomes; its memory and mutex go, the file stays, and
starting again needs no step, since a store keeps nothing in memory.

**Receipts, Audit, AuditChain.** `Record` reads the tail hash and composes the
receipt; `RecordDone`/`RecordFails` finish it; `ReadFails` is every error of
reading; `Read` is `List`, `Get`, `Verify`. A hash is written as the history it
covers, so hashes are equal when the hashed bytes are (SHA-256 as collision
free). A receipt's `text` stands for request, decision, approval and time;
`ReadBack` is what JSON makes of it on the way back. `acked` remembers receipts
returned to callers. `AuditChain` is the promise to readers: a chain that grows
by intact, linked receipts, or from some moment on an error.

**Approval, ApprovalLifecycle.** An event is a creation (request id and shape) or
a verdict. `StatusOf`, `CreationOf`, `PendingFor` and `Loads` are what
`snapshotLocked` computes. `Create`/`CreateAgain` are the two ways through
`CreatePending`; `Resolve`/`ResolveRefused` those through `Resolve`; `Done`
returns. `told` and `verdicts` remember answers. `shape` is everything of a
request but its id.

**Revocation.** `Revoke` and `Restore` validate, normalize and append without
reading. `Match` takes no lock, so it answers from `Views(t)`. `blocked` and
`released` remember which targets callers may rely on: a target is `blocked`
from the return of `Revoke` until a `Restore` of it starts, unless the opposite
append was under way in another process (then their order is open), and the same
for `released`. They are filled from what the caller *means*, so that
normalization is checked and not assumed. `Decoded` is what JSON makes of an id on
its way through the file: bytes that are not UTF-8 read back as U+FFFD, so two ids
may become one. `Read` applies it to a key as `snapshot` finds it, and a key is
`Legible` if it survives. What holds of an id is said of legible keys where the code
breaks it for others: `revocations add -id` takes such an id, returns, and blocks
nobody it names.

**Policy, DefaultPolicy.** Names are token sequences cut where patterns can tell
them apart. `WithDefaults`, `Classify`, `Matches`, `Deciding` and `Decide`
follow the code; `ConfigRiskRules`, `BuiltinRiskRules` and `Rules` are the tables
of `Default` and `DefaultRules`, in order.

**Gateway.** `call[t]` is how far the call of a thread has come. `Evaluate` reads
revocations and policy; `AskApproval`, `FindApproval`, `ApprovalCreated`,
`ApprovalFails`, `WriteReceipt`, `ReceiptWritten`, `ReceiptFails` are the steps of
`Decide`, each conjoined with the step of the store it calls. `Crash` kills all stores
of a process at once. The policy is the constant `Effect`, as its inside is checked in
`DefaultPolicy`. `Replay` and the lists change nothing and are the one action
`ReadOnly`. `LongReceipts` and `LongApprovals` are the requests whose lines exceed the
scanner's buffer (the body limit of server.go:18 allows them); `Decoded` is as in
Revocation. `Room` bounds the run by the approval ids that are left, for requests that
could need one.

**Callers.** `job[t]` is where a handler (a thread of `Server`) or a command (the
thread of another process) stands with the request it was given: it has asked the
gateway, its client has left, its answer is ready, or its command runs. `Ask`,
`Continue`, `Decided`, `NotDecided` wrap the steps of `Decide` in Gateway; `Result` is
what the caller makes of the effect: `tool` and `wrap` start their command on an allow
only, the others answer with `CodeOf`. Which command it is matters only when `Decide`
returns, and is chosen there. `ClientLeaves` is `WriteTimeout` or a lost connection:
the handler is not told, and a retry is a second `Ask` with the same request; the
handler still makes an answer, which `RepliesHold` covers. `GoesAhead` is a command
that runs, an answer of allow by any handler or command, or the exit code 0 that
stands for it. `ChildEnds` replaces the exit code by the child's. `Operate` (`Review`,
`Revise`) is the operator's part, `Inspect` the commands and handlers that only read,
and `Die` kills a process with its job. `barred` remembers whether a standing
revocation, of a legible id, named the request when it was made.

**Redact.** Keys and arguments are sequences of characters, because the code finds
its words inside of them: `NormalizeKey` trims a key, lowers it and drops its
separators, position by position (`KeptIn`, `Kept`), so that "pass-word" and
"alto_ken" name secrets and a key with a no-break space in "api key" does not.
`Spelled` gives the words as characters, `Lower` the capitals. A value decoded from
JSON is a finite tree: the constant `Values` is a set of values with all their parts,
and `Nesting` says how deep each one nests (`ValuesAssumption`). `Value` is the
recursive function of `redact.Value` and `redact.Map` on that set, `Redacted` its
one step; `Rounds` is the state of the loop of `redactArgv` after each of its
rounds `Step`, with the carried flag. `RedactsExactly` compares `Value` with a
definition by leaves that does not normalize: `Spells` looks for a stretch of the
key that is the word apart from separators. `ArgvRedacted` says what the loop gets
right of runs of flags; `SecretArgsHidden` is what the documentation says, and the
run `secret_args` shows that it fails. No operator is `RECURSIVE`, so that theorems
can be about this module.

**Replay.** `Receipt` is what `Decide` leaves of a request in the audit log
(completed, labelled, and redacted by the store, once) with the effect, `ReplayOf` what
`Service.Replay` makes of that. Both ask for revocations first (`EffectOf`), which
may have changed in between, as may the risk rules; the policy stays the one that
`init` writes. The module extends `DefaultPolicy`, for the fields of a request, and
`Redact`, for its input. How a revocation gets into its log is left to Gateway.

**Config.** `proc[p]` is how far a process has come: searching (one `Look` per stat),
located, with the file open, written, loading, loaded, serving. `file[x]` is a length
and a content; a write starts at offset 0 of what is there, so two writers, or a
truncation under a writer, give what `Overwritten` and `Cuts` say. `WriteFails` and
`Crash` leave any beginning. `Load` may read beside a writer (`Views`). The operator
may save at any time: `Edit` writes the file in place, `Replace` renames another one
over it, `Remove` deletes it. A start that had the replaced file open goes on with one
that has no name (`Displaced`, `WriteAside`). For the properties, `kept` remembers
what the operator saved while no start had the file open, `suspect` where a writer
failed, died or was not alone (an editor counts), `offered` which project files were
there throughout a search. User directories, environment variables and `-config` paths
are the constants `UserPath`, `StateOf` and `Explicit`.

Operators preceded by `Fault:` are not part of any specification. Each is a
plausible mistake in the definition below it; with it in place, the property it
is paired with in `PROJECT.json` is violated, which shows that the property
depends on that piece of code.

## 3. Runs

Run a configuration with `tlc -config X.cfg M`.

| Run | Module | Distinct states | Shows |
|---|---|---|---|
| `audit` | MCAudit | 259 | chain, tail damage, no false alarm, no silent loss, refinement of AuditChain |
| `approval` | MCApproval | 6 898 | deduplication, one verdict, finality, answers that stand, refinement of ApprovalLifecycle |
| `revocation` | MCRevocation | 905 547 | revoked blocks, restored releases, damage stays closed, with two processes and an id that JSON changes |
| `default_policy` | MCDefaultPolicy | 2 145 | no payment is allowed, labels unlock nothing, no rule is shadowed; secrets behind keys are hidden; a replay agrees with its receipt |
| `gateway` | MCGateway | 278 258 | receipts cite approvals, retries share them, revocation decides, every call returns |
| `callers` | MCCallers | 2 670 102 | nothing runs or is allowed unrecorded or revoked; answers hold |
| `config` | MCConfig | 2 401 872 | what runs is what was written, edits survive, no open public server, the nearest file wins, damage is explained |
| `audit_two_processes` | MCAudit | violation | the chain forks when a command and the server record at once |
| `audit_invalid_utf8` | MCAudit | violation | Verify reports an untouched receipt whose text is not UTF-8 |
| `approval_two_processes` | MCApproval | violation | two pending approvals for a request id |
| `approval_shape` | MCApproval | violation | an approval is handed to a request that asks for something else |
| `secret_args` | MCDefaultPolicy | violation | the value of the second of two secret flags is recorded |

The five violations are the findings of `PROJECT.json`, each against the sentence
of the documentation it quotes. Deadlock is checked in every run: a store can
always be read or refuse.

Bounds, and why they are enough:

* *Threads and processes.* Two threads in one process show every interleaving of
  read and append; a third one waits while two compete. Two processes show
  everything that mutexes do not order.
* `Ids`, `ReceiptIds`, `ApprovalIds`. A chain breaks at a first, a middle or a
  last receipt, and a cut append needs one receipt before it and one after.
  Two approvals allow a resubmission after a verdict and two request ids at once.
  They bound the state because ids are never used again (`Minted # Ids`, `Room`).
* `MaxLines` bounds the revocation log: three lines for revoke, restore, revoke,
  and a cut append on top. In `gateway` and `callers` it is 1 (one revocation at any
  time among the calls), as `revocation` checks the store itself.
* `revocation` has two users, one of whose ids reads back as the other's, written with
  and without space, and "all" written in two ways.
* `gateway` has one request that needs an approval, made and made again by two calls;
  what differs between requests (allowed ones, and ones whose lines are too long to
  read back) is in `callers`. All calls of the server are in this run when
  `CallsReturn` is checked, those of the operator included.
* The request universe of `default_policy` has an action under and beside every
  pattern, resources inside and outside `external*`, every label the rules
  mention and one they do not, and padded names; inputs three levels deep through
  maps and lists, under keys that spell a secret plainly, in capitals, with
  separators inside, across two words, with spaces around, and under three that do
  not; argument lists up to three long over six arguments and up to five long over
  flags, values and assignments, so that flags run five in a row. `Values` are
  those inputs with their parts and what redaction makes of them. Fields and
  inputs vary one at a time, since neither is read with the other.
* `callers` has a handler, a command that is also the operator's, two receipts
  and one approval: a revocation can land before, during and after a decision of
  the other process, and a client can leave and retry. One of its three requests leaves
  lines that cannot be read back. `ChildCodes` holds the two
  codes that also mean a decision. With one command at a time two commands never
  overlap; they would differ from the handler and the command in nothing but
  their names.
* `config` has two processes, three places (a project within a project, and the user's
  file) and texts of three lengths, so that an overwritten text can be shorter, equal
  or longer; one of the operator's texts has rules that are not accepted and one an
  unsecured address. `-config` names the outer file (`Explicit`), which is how two
  processes give one file different state directories.
* `SYMMETRY` (threads of one process; in `approval.cfg` also request ids) is used in
  `approval.cfg` and `revocation.cfg` only, where all properties are safety
  properties.

Fairness. `CallsReturn` assumes strong fairness of each call's own steps. A
goroutine that can run is run by the Go scheduler, and one that waits for a
`sync.Mutex` is handed it after a millisecond (starvation mode), although others
lock and unlock in between; weak fairness would not say that. No file operation
is assumed to succeed, and no call is assumed to be made.

## 4. Proofs

`tlapm M.tla` checks the proofs of module `M`: `AuditProofs`, `ApprovalProofs`,
`RevocationProofs`, `GatewayProofs`, `CallersProofs`, `ConfigProofs`,
`PolicyProofs`; `StoreProofs` has the lemmas about files and mutexes that the
first three use. An empty "Assumes" means: for any threads, processes, ids,
requests and files.

| Theorem | Says | Assumes |
|---|---|---|
| `AuditProofs!TypeCorrect` | `Spec => []TypeOK` | |
| `AuditProofs!ChainIsLinked` | `Spec => []ChainLinked` | one process |
| `AuditProofs!DamageStaysAtTail` | `Spec => []DamageOnlyAtTail` | one process |
| `AuditProofs!NoFalseAlarm` | `Spec => []VerifyAcceptsOwn` | one process, texts survive JSON |
| `AuditProofs!NoSilentLoss` | `Spec => []LossIsVisible` | |
| `AuditProofs!Implements` | `Spec => Chain!Spec` | one process, texts survive JSON |
| `ApprovalProofs!TypeCorrect` | `Spec => []TypeOK` | |
| `ApprovalProofs!LogLoads` | `Spec => []DecodingLogLoads` | |
| `ApprovalProofs!OnePendingAtATime` | `Spec => []OnePendingPerRequest` | one process |
| `ApprovalProofs!VerdictIsOne` | `Spec => []OneVerdict` | one process |
| `ApprovalProofs!ToldStands` | `Spec => []AnswersStand` | one process |
| `ApprovalProofs!VerdictIsFinal` | `Spec => ResolutionIsFinal` | one process |
| `ApprovalProofs!Implements` | `Spec => ImplementsLifecycle` | one process |
| `RevocationProofs!TypeCorrect` | `Spec => []TypeOK` | |
| `RevocationProofs!RevocationHolds` | `Spec => []RevokedBlocks` | |
| `RevocationProofs!RestorationHolds` | `Spec => []RestoreReleases` | |
| `RevocationProofs!NamelessAreFree` | `Spec => []NamelessNotBlocked` | |
| `RevocationProofs!DamageStaysClosed` | `Spec => StaysClosed` | |
| `GatewayProofs!TypeCorrect` | `Spec => []TypeOK` | |
| `GatewayProofs!StoresRun` | `Spec` implies the `Spec` of each store | |
| `GatewayProofs!ReceiptsCite` | `Spec => []ReceiptCitesApproval` | |
| `GatewayProofs!RetriesShare` | `Spec => []RetriesShareApproval` | one process |
| `GatewayProofs!RevokedIsDenied` | `Spec => RevocationDecides` | |
| `CallersProofs!SystemRuns` | `CallersSpec` implies the gateway's steps and the `Spec` of each store | |
| `CallersProofs!CallersTyped` | `CallersSpec => []CallersTypeOK` | |
| `CallersProofs!NothingUnrecorded` | `CallersSpec => []NothingRunsUnrecorded` | |
| `CallersProofs!RevokedStops` | `CallersSpec => []RevokedNeverRuns` | |
| `CallersProofs!AnswersHold` | `CallersSpec => []RepliesHold` | |
| `CallersProofs!LogsStand` | `CallersSpec` implies `LossIsVisible`, `DecodingLogLoads`, `RevokedBlocks`, `RestoreReleases`, `NamelessNotBlocked` and `StaysClosed` of its logs | |
| `CallersProofs!OneServerKeeps` | `CallersSpec` implies `ChainLinked`, `DamageOnlyAtTail`, `VerifyAcceptsOwn`, `OnePendingPerRequest`, `OneVerdict`, `AnswersStand` and `ResolutionIsFinal` of its logs | one process |
| `CallersProofs!OneServerImplements` | `CallersSpec => A!ImplementsChain /\ P!ImplementsLifecycle` | one process |
| `ConfigProofs!TypeCorrect` | `Spec => []TypeOK` | |
| `ConfigProofs!SavedStays` | `Spec => []EditsSurvive` | |
| `ConfigProofs!RunsWithItsFile` | `Spec => []RunsAsWritten` | |
| `ConfigProofs!PublicIsClosed` | `Spec => []NoOpenPublicServer` | |
| `ConfigProofs!NearestIsFound` | `Spec => []NearestConfigWins` | |
| `ConfigProofs!DamageHasACause` | `Spec => []DamageExplained` | |
| `PolicyProofs!MoneyIsNotAllowed` | `Spec => []MoneyNeverAllowed` | |
| `PolicyProofs!PaddingChangesNothing` | `Spec => []PaddingIrrelevant` | |
| `PolicyProofs!LabelUnlocksNothing` | `Spec => []LabelsAllowNothing` | |
| `PolicyProofs!EachRuleDecidesItsOwn` | rule *i* decides every unlabelled request it is for | |
| `PolicyProofs!NoRuleIsShadowed` | `Spec => []EveryRuleDecides` | the requests have one for each rule |
| `PolicyProofs!ReplayShowsTheReceipt` | `ReplaySpec => []ReplayAgrees` | |
| `PolicyProofs!RedactionIsExact` | `ReplaySpec => []RedactsExactly` | |
| `PolicyProofs!ArgumentsAreRedacted` | `ReplaySpec => []ArgvRedacted` | |

"One process" (`OneProcess`) is the server with no command beside it, for any
number of goroutines. It is needed: `audit_two_processes` and
`approval_two_processes` are the counterexamples, as `audit_invalid_utf8` is to
texts that do not survive JSON. The two `Implements` and `OneServerImplements`
further assume that the value that stands for an error is not a view (`Unreadable`
is not a chain, `ErrorIsNoView`). `NoRuleIsShadowed` is about a universe of
requests, and a universe that has no request for a rule would leave that rule idle,
whatever the code does: `Reaching` asks for one request for each rule, with each
label that callers use. The universe of the run is such a one.
`EachRuleDecidesItsOwn` says the same of every single request there could be,
without any universe.

The constants' own assumptions are in the modules that declare them and TLC
evaluates them in the runs. Those that carry a proof: every thread has a process;
an approval's request id is the request's own (`RequestAssumption`); no thread's
empty draft is a line (`NoLineAssumption`); the only threads that share a process
are the server's (`CallerAssumption`); no configuration is the mark for none, and
the user's file is not among the project files of a search (`ConfigAssumption`);
the fields of a request are token sequences of any length
(`RequestsAssumption`), which is the only thing `PolicyProofs` knows of them; JSON
turns no id into the empty one (`DecodedAssumption`); requests with long lines are
requests (`LongAssumption`); the code's list of key parts, normalized, spells the ten
words of `Secrets` (`SpelledAssumption`); values
are finite trees whose parts are values again (`ValuesAssumption`), and what is
redacted is one too (`RedactedAssumption`); inputs are values, and the arguments of
a command are character sequences of any number and length (`InputsAssumption`,
`ArgvsAssumption`).

The arguments:

* *Chain.* `ChainLinked` alone is not inductive: a draft holds a tail hash that
  was read earlier. The invariant adds that at most one thread writes, that its
  draft is linked to the last line of the file **as it is now**, and that the log
  decoded when it was read. Landing then either appends a linked receipt, or
  (a failure) leaves it as a damaged last line, after which `Decodes` stops every
  further `Record`.
* *Silent loss.* Lines never disappear and garbled lines never become whole
  again, so a receipt that was returned is whole in the file, or a line of the
  file does not decode, for ever. No assumption on processes is needed.
* *Loading of approvals.* `OrderInv`, for any processes: in the log
  every resolution comes after a creation of its approval, and every draft of a
  resolution is for an approval that the log already has. What lands meanwhile
  only adds lines.
* *Life of an approval.* `LifeInv`, for one process: every approval of a decoding
  log is unborn, open (one creation) or settled (a creation and one resolution
  behind it), at most one is open per request id, the only draft `Fits` the log
  as it is **now**, and what callers were told is in it. `OnePendingPerRequest`
  is not inductive without the second and the third. The refinement maps the
  three ages to absent, pending and the verdict.
* *Revocation.* While the log decodes, a key in `blocked` has a last event that is a
  revoke, and no draft anywhere restores it; symmetrically for `released`. Keys are
  compared as they read back (`Read`), so an event for an id that JSON changes counts
  for the id it becomes; what is promised of the id as it was given is promised of
  legible ones. A torn read can add a fragment (an error) or another target's line
  (irrelevant to this key).
* *Gateway.* The three proof modules are instantiated for its stores. Every step
  of the gateway is a step of one store and leaves the others alone, or a crash,
  which is one of all three (`StoresRun`), so the stores' invariants hold inside
  it. `CallsOK` says that a call holds a draft in the store of its stage and in
  no other. `CiteInv` carries the citation from the answer of the approval log
  through the call and the receipt's draft to the receipt; a receipt in the
  file or in a caller's hands then cites an approval that was handed out, and
  with one process `LifeInv` makes two of them for one request id equal.
  `RevocationDecides` follows from the revocation invariant for every view at
  the moment of `Evaluate`.
* *Callers.* `JobInv`: a job waits exactly while its thread's call is in progress;
  a request that was barred when it was made has the effect deny in its call and
  in its answer; an answer is `Backed` by a receipt that was returned, cites its
  approval, and goes ahead on an allow only. `AckInv` of the audit log and
  `ToldInv` of the approval log (for any processes: what was handed out is in the
  log or the log does not decode) turn that into what the logs show.
* *Configuration.* The invariant has one part per file (`FileOK`) and one per
  process (`ProcOK`). What an operator saved (`kept`) is in its file and nobody has
  that file open: a rename puts open writers aside, and a save in place under one is
  not kept. While a file that is not suspect has writers, they write the same default
  and the file holds that or nothing yet; without writers it holds a
  configuration; and a process in use runs with it unless an operator changed it
  since (`edited`). Most steps are `Private`: they change one process and no
  file. A view of an undamaged file that loads is what the file holds, although
  it may be read beside a writer (`LoadsWhatIsThere`). For the search, every file in
  `offered` is still there, and no candidate that the search has passed is in it.
* *Policy.* The starter rules allow only a short list of plain names
  (`AllowsOnlyHarmless`), no risk rule of either set applies to one of those, and
  no pattern for money matches one. Trimming twice is trimming once
  (`TrimTwice`, from the least and the largest non-blank position), and
  everything is decided on trimmed names.
* *Every rule.* For each of the nine rules, `IsFor` describes the requests the rule
  is there for, by their fields alone. The label the risk rules give such a request
  is computed (`LabelsGiven`), and with it no earlier rule matches and this one does.
* *System.* Every run of the handlers and commands is a run of the three logs
  (`LogsAlone`); the logs' theorems are cited for the instances the gateway has of
  them (`LogsStand`, `OneServerKeeps`, `OneServerImplements`).
* *Redaction.* `Value` and `Leaves` are recursive functions on trees, and the
  library's induction theorems cannot be instantiated by the installed provers. So
  induction is done on sets: the values for which a fact fails, if there are any,
  include one that nests least (`LeastIs`), and all its parts satisfy the fact
  (`ValuesByInduction`; `NumbersByInduction` for the rounds of the loop). That
  a recursive definition has a function at all is shown level by level in the same
  way. The loop of `redactArgv` is right because its flag, after *i* rounds, is the
  parity of the run of flags that ends at *i*. Keys: the
  characters that are kept have ranks, one more at each kept position (`RankGrows`),
  and `NormalizeKey` has at rank *r* the character of that position (`NormalizedIs`);
  so a word stands in the normalized key just when a stretch of the key spells it
  (`WithinSpells`, `SpellsWithin`, `KeysAgree`). The ends that are trimmed contain
  nothing of a word.
* *Replay.* A stored request is completed already, and its label stands
  (`LabelStands`): classification replaces only an empty label, and the one it
  gives, a rule's or `unknown`, is not empty and has no space around it. So the same
  request is decided, whichever rules are in use, and a revocation comes before that on
  both sides. An allow carries over to the
  request as submitted because labels unlock nothing.

Only model-checked:

* `CallsReturn`: liveness, `ENABLED`.
* The violated properties of the five finding runs: they are false.

## 5. Not modelled

* Reasons, times, and of the ids in a request all but what revocations name.
* The result of a lookup or a list over HTTP or on the command line: `Inspect` and
  `ReadOnly` say that it changes nothing, the stores' modules what it returns.
* Other texts that JSON changes. Request ids, names and shapes are taken to survive in
  Approval, Gateway and Callers: the server has them from JSON, and only flags of a
  command can bring other bytes. For receipts (`ReadBack`) and revocation ids
  (`Decoded`) the change is modelled.
* Loss of power: no write is synced, and the models keep what a completed write
  put in the file.
* Edits of the logs by others; `Verify` is checked for what the program itself
  writes.
* Which of several revocations is reported to the caller.
* Status codes of the handlers other than decide, `parseLimit`, bodies and
  headers other than the token; flag parsing, help, build info, output.
* The `.gitignore` that `init -project` adds: the program never reads it.
* Errors of `Stat` and `Getwd` (`fileExists` takes them for an absent file), and
  relative log paths, which depend on the directory of each process.
* A promise for what an operator saves in place between the `OpenFile` and the `Write`
  of a start (defaults.go:145-150): the start overwrites it without `-force`. The step
  is in `config`; `EditsSurvive` excludes it, and `PROJECT.json` lists it as a hazard.
* A secret inside of one argument that is not key=value (`-H 'Authorization: ...'`):
  the code keeps it, and `ArgvRedacted` says that it does.
* What a supervised command does, and that it completed: the code records only
  that it was allowed.

## 6. Plan

1. Done: stores, policy, gateway, callers, configuration, redaction, replay;
   proofs of audit, approval and revocation, of the gateway and its callers, of
   the configuration and of the starter policy.
2. Done: `Redact` without `RECURSIVE` operators; proofs of redaction, of the
   argument loop, of replay and of the reach of every rule; what the logs promise,
   carried to the whole system.
3. Done: characters of keys, ids that JSON changes, revocations in a replay, lines too
   long in the system, an operator who saves under a writer.
4. The hazards of `PROJECT.json` that no property covers yet, where the notes
   there leave room for one.
