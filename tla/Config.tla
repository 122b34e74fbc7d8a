------------------------------- MODULE Config -------------------------------
(***************************************************************************)
(* Starting up: how a process finds, creates, overwrites and loads its     *)
(* configuration file (config_paths.go, init.go, internal/config) and what *)
(* a server that runs with it admits.  Processes start at any time in any  *)
(* directory and share the files; each call to the file system is a step.  *)
(* An operator edits files meanwhile.                                      *)
(***************************************************************************)
EXTENDS Naturals, Sequences, FiniteSets

CONSTANTS
    Procs,          \* commands and servers
    Paths,          \* where a configuration may be
    Candidates,     \* Candidates[p]: the project files of p's directory and
                    \* of its parents, nearest first
    UserPath,       \* the user's file
    Explicit,       \* the files that -config may name
    StateOf,        \* StateOf[x]: the state directory that goes with file x
    Edits,          \* Edits[x]: the configurations an operator writes in x
    Size,           \* the length of a configuration's text
    NoConfig        \* text that does not decode

\* What the rest of the program tells apart in a configuration: listen_addr,
\* whether admin_token_env is named, whether the policy and the risk rules
\* are accepted, and where the logs are.
Default(state) == [listen |-> "loopback", token |-> FALSE, rules |-> TRUE, logs |-> state]

Edited == UNION {Edits[x] : x \in Paths}

Configs == Edited \cup {Default(StateOf[x]) : x \in Paths}

\* Two defaults, one over the other: both texts up to their paths, then either.
Mixture == Default("mixed")

ASSUME ConfigAssumption ==
    /\ UserPath \in Paths
    /\ Explicit \subseteq Paths
    /\ Candidates \in [Procs -> Seq(Paths \ {UserPath})]
    /\ \A p \in Procs : Len(Candidates[p]) > 0
    /\ Size \in [Configs -> Nat \ {0}]
    /\ NoConfig \notin Configs \cup {Mixture}
    /\ Mixture \notin Configs

VARIABLES
    file,           \* file[x]
    proc,           \* proc[p]: how far process p has come
    kept,           \* kept[x]: what the operator saved in x while no start
                    \* had it open, until somebody forces x to be overwritten
    suspect         \* files a writer failed on or died over, or two shared

vars == <<file, proc, kept, suspect>>

Absent == [there |-> FALSE, holds |-> NoConfig, size |-> 0]
Empty == [there |-> TRUE, holds |-> NoConfig, size |-> 0]

\* `run`; every other command that needs the service (and `config doctor`);
\* `config path`; `init`.
Kinds == {"run", "use", "path", "init"}

Idle == [stage |-> "idle"]

Init ==
    /\ file = [x \in Paths |-> Absent]
    /\ proc = [p \in Procs |-> Idle]
    /\ kept = [x \in Paths |-> NoConfig]
    /\ suspect = {}

At(p, stage) == proc[p].stage = stage

\* The processes that run with x are not told that it changes.
Unaware(x) ==
    [p \in Procs |->
        IF proc[p].stage \in {"loaded", "serving"} /\ proc[p].path = x
        THEN [proc[p] EXCEPT !.edited = TRUE] ELSE proc[p]]

Exit(p) == proc' = [proc EXCEPT ![p] = Idle]

\* Another file takes the place of x, or none: who had x open goes on with
\* the one that has lost its name.
Displaced(x) ==
    [p \in Procs |->
        IF At(p, "open") /\ proc[p].path = x
        THEN [proc[p] EXCEPT !.stage = "aside"] ELSE Unaware(x)[p]]

-----------------------------------------------------------------------------
(* Finding the file *)

\* The project files that p should find.
ProjectFiles(p) == {x \in Paths \ {UserPath} :
    file[x].there /\ \E i \in DOMAIN Candidates[p] : Candidates[p][i] = x}

\* A process starts without -config, and looks for the nearest project file.
\* It remembers, for the properties, those that are there all along.
Start(p, kind, force) ==
    /\ At(p, "idle")
    /\ force => kind = "init"
    /\ proc' = [proc EXCEPT ![p] = [stage |-> "search", kind |-> kind,
                                    force |-> force, next |-> 1,
                                    offered |-> ProjectFiles(p)]]
    /\ UNCHANGED <<file, kept, suspect>>

Located(kind, force, x, state, source, offered) ==
    [stage |-> "located", kind |-> kind, force |-> force, path |-> x, state |-> state,
     source |-> source, exists |-> file[x].there, offered |-> offered]

\* A process is given its file: -config names it, with the user's state
\* directory whatever the file, or `init -project` takes the nearest place.
Named(p, kind, force, x, source) ==
    /\ At(p, "idle")
    /\ force => kind = "init"
    /\ IF source = "project" THEN kind = "init" /\ x = Candidates[p][1]
       ELSE x \in Explicit
    /\ proc' = [proc EXCEPT ![p] =
          Located(kind, force, x,
                  StateOf[IF source = "project" THEN x ELSE UserPath], source, {})]
    /\ UNCHANGED <<file, kept, suspect>>

\* Fault: the parents are looked at before the directory itself.
PlacesParentsFirst(p) == Tail(Candidates[p]) \o <<Head(Candidates[p]), UserPath>>

\* The places that are looked at, in order.
Places(p) == Candidates[p] \o <<UserPath>>

\* One stat.  The search ends at the first file that is there; the last
\* place is the one to create.
Look(p) ==
    /\ At(p, "search")
    /\ LET i == proc[p].next
           x == Places(p)[i]
       IN  IF file[x].there \/ i = Len(Places(p))
           THEN proc' = [proc EXCEPT ![p] =
                   Located(@.kind, @.force, x, StateOf[x],
                           IF x = UserPath THEN "user" ELSE "project", @.offered)]
           ELSE proc' = [proc EXCEPT ![p].next = i + 1]
    /\ UNCHANGED <<file, kept, suspect>>

\* The file is there and will be loaded, or it is not there or not wanted
\* and the process stops: `config path` has printed the place, an explicit
\* file must exist, and `init` needs -force for one that does.
ToLoad(p) ==
    /\ At(p, "located")
    /\ proc[p].exists /\ proc[p].kind \in {"run", "use"}
    /\ proc' = [proc EXCEPT ![p] = [stage |-> "load", kind |-> @.kind, path |-> @.path]]
    /\ UNCHANGED <<file, kept, suspect>>

Stop(p) ==
    /\ At(p, "located")
    /\ \/ proc[p].kind = "path"
       \/ proc[p].kind = "init" /\ proc[p].exists /\ ~proc[p].force
       \/ proc[p].kind \in {"run", "use"} /\ ~proc[p].exists /\ proc[p].source = "explicit"
    /\ Exit(p)
    /\ UNCHANGED <<file, kept, suspect>>

-----------------------------------------------------------------------------
(* Creating it: WriteDefault *)

Creates(p) ==
    /\ At(p, "located")
    /\ \/ proc[p].kind = "init" /\ (proc[p].exists => proc[p].force)
       \/ proc[p].kind \in {"run", "use"} /\ ~proc[p].exists /\ proc[p].source # "explicit"

\* The processes that have x open and have not written it yet.
Writers(x) == {p \in Procs : At(p, "open") /\ proc[p].path = x}

\* Fault: an existing file is opened as it is.
ExclusiveNot(x) == TRUE

\* O_EXCL
Exclusive(x) == ~file[x].there

\* Fault: the file that is overwritten keeps its length.
TruncatedNot(x) == [file[x] EXCEPT !.there = TRUE]

\* O_TRUNC
Truncated(x) == Empty

Opened(p) == [stage |-> "open", kind |-> proc[p].kind, path |-> proc[p].path,
              state |-> proc[p].state]

\* A new file is there, without a text.
Create(p) ==
    LET x == proc[p].path
    IN  /\ Creates(p) /\ ~proc[p].force
        /\ Exclusive(x)
        /\ file' = [file EXCEPT ![x].there = TRUE]
        /\ proc' = [proc EXCEPT ![p] = Opened(p)]
        /\ UNCHANGED <<kept, suspect>>

\* Another process has the file open and will write another text to it.
Shared(p, x) == \E q \in Writers(x) : proc[q].state # proc[p].state

\* init -force: what was there goes, and with it any damage, if nobody else
\* is writing.
Overwrite(p) ==
    LET x == proc[p].path
    IN  /\ Creates(p) /\ proc[p].force
        /\ file' = [file EXCEPT ![x] = Truncated(x)]
        /\ proc' = [Unaware(x) EXCEPT ![p] = Opened(p)]
        /\ kept' = [kept EXCEPT ![x] = NoConfig]
        /\ suspect' = IF Shared(p, x) THEN suspect \cup {x}
                      ELSE IF Writers(x) = {} THEN suspect \ {x}
                      ELSE suspect

\* Another process created it first, or the directory or file cannot be made.
OpenFails(p) ==
    /\ Creates(p)
    /\ Exit(p)
    /\ UNCHANGED <<file, kept, suspect>>

\* The text c written whole at the start of file f.  What is longer stays,
\* and is no part of a text unless it is blank.
Overwritten(f, c) ==
    IF f.size <= Size[c] THEN {[there |-> TRUE, holds |-> c, size |-> Size[c]]}
    ELSE {[f EXCEPT !.holds = h] : h \in IF f.holds = c THEN {c} ELSE {c, NoConfig}}

\* A beginning of it: a text that does not decode, unless the rest of one
\* that was there completes it.
Cuts(f, c) ==
    IF f.holds = c THEN {f}
    ELSE {[there |-> TRUE, holds |-> h, size |-> IF f.size >= k THEN f.size ELSE k]
            : k \in 0 .. Size[c] - 1,
              h \in IF f.holds = NoConfig THEN {NoConfig}
                    ELSE {NoConfig, f.holds, Mixture}}

Write(p) ==
    /\ At(p, "open")
    /\ \E f \in Overwritten(file[proc[p].path], Default(proc[p].state)) :
          file' = [file EXCEPT ![proc[p].path] = f]
    /\ proc' = [proc EXCEPT ![p].stage = "written"]
    /\ UNCHANGED <<kept, suspect>>

\* The text goes to a file that has no name any more.
WriteAside(p) ==
    /\ At(p, "aside")
    /\ proc' = [proc EXCEPT ![p].stage = "written"]
    /\ UNCHANGED <<file, kept, suspect>>

\* The file is left as it is, or with the beginning of the text.
LeftBehind(p) ==
    LET x == proc[p].path
    IN  /\ \E f \in {file[x]} \cup Cuts(file[x], Default(proc[p].state)) :
              file' = [file EXCEPT ![x] = f]
        /\ suspect' = suspect \cup {x}

WriteFails(p) ==
    /\ At(p, "open")
    /\ LeftBehind(p)
    /\ Exit(p)
    /\ UNCHANGED kept

\* WriteDefault returns; `init` is done, other commands load what is there.
Created(p) ==
    /\ At(p, "written")
    /\ IF proc[p].kind = "init" THEN Exit(p)
       ELSE proc' = [proc EXCEPT ![p] =
               [stage |-> "load", kind |-> @.kind, path |-> @.path]]
    /\ UNCHANGED <<file, kept, suspect>>

ChmodFails(p) ==
    /\ At(p, "written") \/ At(p, "aside")
    /\ Exit(p)
    /\ UNCHANGED <<file, kept, suspect>>

-----------------------------------------------------------------------------
(* Loading it and serving *)

\* What a reader of x may find while others write.
Views(x) ==
    {file[x]} \cup
    UNION {Cuts(file[x], Default(proc[q].state)) : q \in Writers(x)}

\* validateListenSecurity, after the default for an empty address.
ListenSecure(c) == c.token \/ c.listen \in {"", "loopback"}

\* Fault: text that does not decode is an empty configuration.
LoadableAny(f) == f.there

\* Load returns the configuration.
Loadable(f) ==
    f.there /\ f.holds # NoConfig /\ ListenSecure(f.holds) /\ f.holds.rules

Load(p) ==
    /\ At(p, "load")
    /\ \E f \in Views(proc[p].path) :
          /\ Loadable(f)
          /\ proc' = [proc EXCEPT ![p] =
                [stage |-> "loaded", kind |-> @.kind, path |-> @.path,
                 config |-> f.holds, edited |-> FALSE]]
    /\ UNCHANGED <<file, kept, suspect>>

LoadFails(p) ==
    /\ At(p, "load")
    /\ \E f \in Views(proc[p].path) : ~Loadable(f)
    /\ Exit(p)
    /\ UNCHANGED <<file, kept, suspect>>

\* A command does its work with the service and ends.
Use(p) ==
    /\ At(p, "loaded") /\ proc[p].kind = "use"
    /\ Exit(p)
    /\ UNCHANGED <<file, kept, suspect>>

\* Fault: a token that is not set is no token.
TokensMissing(c) == {"", "token"}

\* AdminToken: what the environment gives for the name, if there is one.
Tokens(c) == IF c.token THEN {"token"} ELSE {""}

\* run: the server listens.
Serve(p) ==
    /\ At(p, "loaded") /\ proc[p].kind = "run"
    /\ proc[p].config.listen # "malformed"
    /\ \E token \in Tokens(proc[p].config) :
          proc' = [proc EXCEPT ![p] =
             [stage |-> "serving", path |-> @.path, config |-> @.config,
              edited |-> @.edited, token |-> token]]
    /\ UNCHANGED <<file, kept, suspect>>

\* The token is not set, or the address cannot be listened on.
ServeFails(p) ==
    /\ At(p, "loaded") /\ proc[p].kind = "run"
    /\ Exit(p)
    /\ UNCHANGED <<file, kept, suspect>>

\* withAuth: a request for a route with an Authorization header ("" for none).
Admits(p, route, bearer) ==
    route = "/healthz" \/ proc[p].token = "" \/ bearer = proc[p].token

\* A process is killed, wherever it is.
Crash(p) ==
    /\ ~At(p, "idle")
    /\ IF At(p, "open") THEN LeftBehind(p) ELSE UNCHANGED <<file, suspect>>
    /\ Exit(p)
    /\ UNCHANGED kept

-----------------------------------------------------------------------------
(* The operator, at any time *)

Saved(c) == [there |-> TRUE, holds |-> c, size |-> Size[c]]

\* An editor writes x in place.  A start that has x open has yet to write its
\* own text over this one, though it created the file.
Edit(x, c) ==
    /\ file' = [file EXCEPT ![x] = Saved(c)]
    /\ IF Writers(x) = {}
       THEN kept' = [kept EXCEPT ![x] = c] /\ suspect' = suspect \ {x}
       ELSE kept' = [kept EXCEPT ![x] = NoConfig] /\ suspect' = suspect \cup {x}
    /\ proc' = Unaware(x)

\* An editor writes another file and gives it the name of x.
Replace(x, c) ==
    /\ file' = [file EXCEPT ![x] = Saved(c)]
    /\ kept' = [kept EXCEPT ![x] = c]
    /\ suspect' = suspect \ {x}
    /\ proc' = Displaced(x)

Remove(x) ==
    /\ file[x].there
    /\ file' = [file EXCEPT ![x] = Absent]
    /\ kept' = [kept EXCEPT ![x] = NoConfig]
    /\ suspect' = suspect \ {x}
    /\ proc' = [p \in Procs |->
          IF At(p, "search") \/ At(p, "located")
          THEN [proc[p] EXCEPT !.offered = @ \ {x}]
          ELSE Displaced(x)[p]]

Next ==
    \/ \E p \in Procs :
          \/ \E kind \in Kinds, force \in BOOLEAN :
                \/ Start(p, kind, force)
                \/ \E x \in Paths, source \in {"explicit", "project"} :
                      Named(p, kind, force, x, source)
          \/ Look(p) \/ ToLoad(p) \/ Stop(p)
          \/ Create(p) \/ Overwrite(p) \/ OpenFails(p) \/ Write(p) \/ WriteFails(p)
          \/ WriteAside(p)
          \/ Created(p) \/ ChmodFails(p)
          \/ Load(p) \/ LoadFails(p) \/ Use(p) \/ Serve(p) \/ ServeFails(p)
          \/ Crash(p)
    \/ \E x \in Paths : Remove(x) \/ \E c \in Edits[x] : Edit(x, c) \/ Replace(x, c)

Spec == Init /\ [][Next]_vars

-----------------------------------------------------------------------------
InUse == {p \in Procs : proc[p].stage \in {"loaded", "serving"}}

\* Files, processes and what the properties remember have their types, and
\* only configurations that Load accepts are in use.
TypeOK ==
    /\ file \in [Paths -> [there : BOOLEAN, size : Nat,
                           holds : Configs \cup {NoConfig, Mixture}]]
    /\ kept \in [Paths -> Edited \cup {NoConfig}]
    /\ suspect \subseteq Paths
    /\ \A p \in Procs : proc[p].stage \in
          {"idle", "search", "located", "open", "aside", "written", "load", "loaded",
           "serving"}
    /\ \A p \in InUse :
          LET c == proc[p].config
          IN  c # NoConfig /\ c.rules /\ ListenSecure(c)

\* A process runs with what its file says, until an operator or init -force
\* changes the file: of two first starts one creates the file, and no other
\* start overwrites what a process has loaded, or loads half of it.  Files
\* with an interrupted or a second writer, the operator's editor included,
\* are excepted.
RunsAsWritten ==
    \A p \in InUse :
        proc[p].edited \/ proc[p].path \in suspect
          \/ file[proc[p].path].holds = proc[p].config

\* What an operator saved stays as saved until somebody runs init -force on
\* it, also when a first start had found no file a moment before, if the
\* editor renames its file into place or no start has the file open.  It does
\* not hold of an editor that writes in place between the OpenFile and the
\* Write of a start: WriteDefault then overwrites what was saved.
EditsSurvive ==
    \A x \in Paths :
        kept[x] # NoConfig => file[x].there /\ file[x].holds = kept[x]

\* A server that listens beyond the loopback lets nobody in without its
\* token except for /healthz, whatever the file says by now.
NoOpenPublicServer ==
    \A p \in Procs :
        At(p, "serving") /\ proc[p].config.listen = "public" =>
            \A route \in {"/healthz", "/v1/actions/decide"}, bearer \in {"", "guess"} :
                Admits(p, route, bearer) => route = "/healthz"

\* A search passes by no file that was there from its beginning: the nearest
\* project configuration wins, and the user's comes last.
NearestConfigWins ==
    \A p \in Procs :
        At(p, "located") =>
            \A i \in 1 .. Len(Candidates[p]) :
                Candidates[p][i] \in proc[p].offered =>
                    \E j \in 1 .. i : proc[p].path = Candidates[p][j]

\* A file without a configuration in it is being written, or a writer failed
\* or died there, or two wrote it at once, or one and an editor; nothing else
\* makes one.
DamageExplained ==
    \A x \in Paths :
        file[x].there /\ file[x].holds = NoConfig => Writers(x) # {} \/ x \in suspect
=============================================================================
