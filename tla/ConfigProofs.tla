---------------------------- MODULE ConfigProofs ----------------------------
(***************************************************************************)
(* Theorems about starting up, for any processes, directories, files,      *)
(* configurations an operator writes, and lengths of their texts.          *)
(***************************************************************************)
EXTENDS Config, TLAPS

-----------------------------------------------------------------------------
(* Types *)

States == {StateOf[x] : x \in Paths}

Texts == Configs \cup {Mixture}

Files == [there : BOOLEAN, size : Nat, holds : Texts \cup {NoConfig}]

Searching ==
    [stage : {"search"}, kind : Kinds, force : BOOLEAN, next : Nat \ {0},
     offered : SUBSET Paths]

Finding ==
    [stage : {"located"}, kind : Kinds, force : BOOLEAN, path : Paths, state : States,
     source : {"explicit", "project", "user"}, exists : BOOLEAN,
     offered : SUBSET Paths]

Creating ==
    [stage : {"open", "aside", "written"}, kind : Kinds, path : Paths, state : States]

Loading == [stage : {"load"}, kind : Kinds, path : Paths]

Loaded ==
    [stage : {"loaded"}, kind : Kinds, path : Paths, config : Texts, edited : BOOLEAN]

Serving ==
    [stage : {"serving"}, path : Paths, config : Texts, edited : BOOLEAN,
     token : {"", "token"}]

Jobs ==
    {Idle} \cup Searching \cup Finding \cup Creating \cup Loading \cup Loaded
      \cup Serving

Types ==
    /\ file \in [Paths -> Files]
    /\ kept \in [Paths -> Edited \cup {NoConfig}]
    /\ suspect \subseteq Paths
    /\ proc \in [Procs -> Jobs]

\* The record of a process follows from its stage.
LEMMA JobOf ==
    ASSUME Types, NEW p \in Procs
    PROVE  /\ At(p, "idle") <=> proc[p] = Idle
           /\ At(p, "search") <=> proc[p] \in Searching
           /\ At(p, "located") <=> proc[p] \in Finding
           /\ At(p, "open") \/ At(p, "aside") \/ At(p, "written") <=> proc[p] \in Creating
           /\ At(p, "load") <=> proc[p] \in Loading
           /\ At(p, "loaded") <=> proc[p] \in Loaded
           /\ At(p, "serving") <=> proc[p] \in Serving
<1>1. proc[p] \in Jobs
  BY DEF Types
<1>2. /\ Idle.stage = "idle"
      /\ \A j \in Searching : j.stage = "search"
      /\ \A j \in Finding : j.stage = "located"
      /\ \A j \in Creating : j.stage \in {"open", "aside", "written"}
      /\ \A j \in Loading : j.stage = "load"
      /\ \A j \in Loaded : j.stage = "loaded"
      /\ \A j \in Serving : j.stage = "serving"
  BY DEF Idle, Searching, Finding, Creating, Loading, Loaded, Serving
<1>3. CASE proc[p] = Idle
  BY <1>2, <1>3 DEF At
<1>4. CASE proc[p] \in Searching
  BY <1>2, <1>4 DEF At
<1>5. CASE proc[p] \in Finding
  BY <1>2, <1>5 DEF At
<1>6. CASE proc[p] \in Creating
  BY <1>2, <1>6 DEF At
<1>7. CASE proc[p] \in Loading
  BY <1>2, <1>7 DEF At
<1>8. CASE proc[p] \in Loaded
  BY <1>2, <1>8 DEF At
<1>9. CASE proc[p] \in Serving
  BY <1>2, <1>9 DEF At
<1> QED
  BY <1>1, <1>3, <1>4, <1>5, <1>6, <1>7, <1>8, <1>9 DEF Jobs

\* Process p becomes j and the others stay.
LEMMA Becomes ==
    ASSUME Types, NEW p \in Procs, NEW j \in Jobs, proc' = [proc EXCEPT ![p] = j]
    PROVE  /\ proc' \in [Procs -> Jobs] /\ proc'[p] = j
           /\ \A q \in Procs : q # p => proc'[q] = proc[q]
BY DEF Types

\* The default configurations are configurations, and have a length.
LEMMA Defaults ==
    ASSUME NEW s \in States
    PROVE  /\ Default(s) \in Configs /\ Default(s) # NoConfig
           /\ Size[Default(s)] \in Nat \ {0}
BY ConfigAssumption DEF States, Configs

\* A text that is written, or its beginning, leaves a file.
LEMMA CutsAre ==
    ASSUME NEW f \in Files, NEW c \in Configs, NEW g \in Cuts(f, c)
    PROVE  /\ g \in Files /\ (f.there => g.there)
           /\ f.holds = c => g = f
           /\ f.holds = NoConfig => g.holds = NoConfig
<1>1. CASE f.holds = c
  <2>1. c # NoConfig
    BY ConfigAssumption
  <2> QED
    BY <1>1, <2>1 DEF Cuts
<1>2. CASE f.holds # c
  <2>1. PICK k \in 0 .. Size[c] - 1,
             h \in IF f.holds = NoConfig THEN {NoConfig} ELSE {NoConfig, f.holds, Mixture} :
           g = [there |-> TRUE, holds |-> h, size |-> IF f.size >= k THEN f.size ELSE k]
    BY <1>2 DEF Cuts
  <2>2. Size[c] \in Nat
    BY ConfigAssumption
  <2>3. k \in Nat /\ f.size \in Nat /\ h \in Texts \cup {NoConfig}
    BY <2>2 DEF Files, Texts
  <2> QED
    BY <1>2, <2>1, <2>3 DEF Files
<1> QED
  BY <1>1, <1>2

LEMMA OverwrittenIs ==
    ASSUME NEW f \in Files, f.there, NEW c \in Configs, NEW g \in Overwritten(f, c)
    PROVE  /\ g \in Files /\ g.there
           /\ f.holds = c => g.holds = c
           /\ f.holds = NoConfig /\ f.size = 0 => g.holds = c
<1>1. f.size \in Nat /\ Size[c] \in Nat /\ c \in Texts
  BY ConfigAssumption DEF Files, Texts
<1>2. CASE f.size <= Size[c]
  <2>1. g = [there |-> TRUE, holds |-> c, size |-> Size[c]]
    BY <1>2 DEF Overwritten
  <2>2. g \in Files /\ g.there /\ g.holds = c
    BY <1>1, <2>1 DEF Files
  <2> QED
    BY <2>2
<1>3. CASE ~(f.size <= Size[c])
  <2>1. PICK h \in IF f.holds = c THEN {c} ELSE {c, NoConfig} :
           g = [f EXCEPT !.holds = h]
    BY <1>1, <1>3 DEF Overwritten
  <2>2. h \in Texts \cup {NoConfig}
    BY <1>1
  <2>3. g \in Files /\ g.there /\ g.holds = h
    BY <2>1, <2>2 DEF Files
  <2>4. f.size # 0
    BY <1>1, <1>3
  <2> QED
    BY <2>1, <2>3, <2>4
<1> QED
  BY <1>1, <1>2, <1>3

\* Who is writing to x is opening it, with a state directory of a file.
LEMMA WriterIs ==
    ASSUME Types, NEW x \in Paths, NEW p \in Writers(x)
    PROVE  p \in Procs /\ proc[p] \in Creating /\ proc[p].state \in States
BY JobOf DEF Writers, Creating

LEMMA ViewsAre ==
    ASSUME Types, NEW x \in Paths, NEW f \in Views(x)
    PROVE  /\ f \in Files
           /\ f = file[x] \/ \E q \in Writers(x) : f \in Cuts(file[x], Default(proc[q].state))
<1>1. f = file[x] \/ \E q \in Writers(x) : f \in Cuts(file[x], Default(proc[q].state))
  BY DEF Views
<1>2. file[x] \in Files
  BY DEF Types
<1> QED
  BY <1>1, <1>2, WriterIs, Defaults, CutsAre

-----------------------------------------------------------------------------
(* Steps that touch no file *)

\* What process p becomes, in a step of its own on no file.
Private(p, j) ==
    /\ UNCHANGED <<file, kept, suspect>>
    /\ j \in Jobs /\ proc' = [proc EXCEPT ![p] = j]
    /\ ~At(p, "open") /\ j.stage # "open"
    /\ j.stage = "loaded" =>
          /\ At(p, "load") /\ j.path = proc[p].path
          /\ \E f \in Views(j.path) : Loadable(f) /\ j.config = f.holds
    /\ j.stage = "serving" =>
          /\ At(p, "loaded") /\ j.path = proc[p].path
          /\ j.config = proc[p].config /\ j.edited = proc[p].edited
          /\ j.token \in Tokens(j.config)

LEMMA IdleIsPrivate ==
    ASSUME Types, NEW p \in Procs, ~At(p, "open"),
           UNCHANGED <<file, kept, suspect>>, Exit(p)
    PROVE  Private(p, Idle)
BY DEF Private, Exit, Jobs, Idle

LEMMA LoadIsPrivate ==
    ASSUME Types, NEW p \in Procs, Load(p)
    PROVE  \E j : Private(p, j)
<1>1. PICK f \in Views(proc[p].path) :
         /\ Loadable(f)
         /\ proc' = [proc EXCEPT ![p] =
               [stage |-> "loaded", kind |-> proc[p].kind, path |-> proc[p].path,
                config |-> f.holds, edited |-> FALSE]]
  BY DEF Load
<1>2. proc[p] \in Loading /\ At(p, "load") /\ ~At(p, "open")
  BY JobOf DEF Load, At
<1>3. f \in Files /\ f.holds \in Texts
  BY <1>1, <1>2, ViewsAre DEF Loading, Loadable, Files
<1> DEFINE j == [stage |-> "loaded", kind |-> proc[p].kind, path |-> proc[p].path,
                 config |-> f.holds, edited |-> FALSE]
<1>4. j \in Jobs
  BY <1>2, <1>3 DEF Loading, Jobs, Loaded
<1>5. Private(p, j)
  BY <1>1, <1>2, <1>4 DEF Private, Load
<1> QED
  BY <1>5

LEMMA ServeIsPrivate ==
    ASSUME Types, NEW p \in Procs, Serve(p)
    PROVE  \E j : Private(p, j)
<1>1. PICK token \in Tokens(proc[p].config) :
         proc' = [proc EXCEPT ![p] =
             [stage |-> "serving", path |-> proc[p].path, config |-> proc[p].config,
              edited |-> proc[p].edited, token |-> token]]
  BY DEF Serve
<1>2. proc[p] \in Loaded /\ At(p, "loaded") /\ ~At(p, "open")
  BY JobOf DEF Serve, At
<1>3. token \in {"", "token"}
  BY <1>1 DEF Tokens
<1> DEFINE j == [stage |-> "serving", path |-> proc[p].path, config |-> proc[p].config,
                 edited |-> proc[p].edited, token |-> token]
<1>4. j \in Jobs
  BY <1>2, <1>3 DEF Loaded, Jobs, Serving
<1>5. Private(p, j)
  BY <1>1, <1>2, <1>4 DEF Private, Serve
<1> QED
  BY <1>5

-----------------------------------------------------------------------------
(* The search *)

LEMMA PlacesAre ==
    ASSUME NEW p \in Procs
    PROVE  LET n == Len(Candidates[p])
           IN  /\ n \in Nat \ {0} /\ Len(Places(p)) = n + 1
               /\ \A i \in 1 .. n : Places(p)[i] = Candidates[p][i]
               /\ \A i \in 1 .. n : Candidates[p][i] \in Paths \ {UserPath}
               /\ Places(p)[n + 1] = UserPath /\ UserPath \in Paths
<1> DEFINE n == Len(Candidates[p])
<1>1. Candidates[p] \in Seq(Paths \ {UserPath}) /\ n > 0 /\ UserPath \in Paths
  BY ConfigAssumption
<1>2. n \in Nat \ {0} /\ \A i \in 1 .. n : Candidates[p][i] \in Paths \ {UserPath}
  BY <1>1
<1>3. /\ Len(Places(p)) = n + 1
      /\ \A i \in 1 .. n : Places(p)[i] = Candidates[p][i]
      /\ Places(p)[n + 1] = UserPath
  BY <1>1, <1>2 DEF Places
<1> QED
  BY <1>1, <1>2, <1>3

Nearest(p) ==
    \A i \in 1 .. Len(Candidates[p]) :
        Candidates[p][i] \in proc[p].offered =>
            \E j \in 1 .. i : proc[p].path = Candidates[p][j]

\* A search that goes on has passed by no file that is offered, and what is
\* offered is there; a search that has ended found the nearest.
SearchOK(p) ==
    /\ At(p, "search") =>
          /\ proc[p].next <= Len(Places(p))
          /\ \A x \in proc[p].offered : file[x].there
          /\ \A i \in 1 .. proc[p].next - 1 :
                i <= Len(Candidates[p]) => Candidates[p][i] \notin proc[p].offered
    /\ At(p, "located") => Nearest(p)

LEMMA StartIsPrivate ==
    ASSUME Types, NEW p \in Procs, NEW kind \in Kinds, NEW force \in BOOLEAN,
           Start(p, kind, force)
    PROVE  (\E j : Private(p, j)) /\ SearchOK(p)'
<1> DEFINE j == [stage |-> "search", kind |-> kind, force |-> force, next |-> 1,
                 offered |-> ProjectFiles(p)]
<1>1. j \in Searching /\ j \in Jobs
  BY DEF ProjectFiles, Searching, Jobs
<1>2. Private(p, j)
  BY <1>1 DEF Start, Private, At
<1>3. proc'[p] = j /\ file' = file
  BY <1>1, <1>2, Becomes DEF Private
<1>4. /\ At(p, "search")' /\ ~At(p, "located")'
      /\ proc'[p].next = 1 /\ \A x \in proc'[p].offered : file'[x].there
  BY <1>3 DEF At, ProjectFiles
<1>5. 1 <= Len(Places(p))
  BY PlacesAre
<1>6. SearchOK(p)'
  BY <1>4, <1>5 DEF SearchOK, Places
<1> QED
  BY <1>2, <1>6

LEMMA NamedIsPrivate ==
    ASSUME Types, NEW p \in Procs, NEW kind \in Kinds, NEW force \in BOOLEAN,
           NEW x \in Paths, NEW source \in {"explicit", "project"},
           Named(p, kind, force, x, source)
    PROVE  (\E j : Private(p, j)) /\ SearchOK(p)'
<1> DEFINE j == Located(kind, force, x,
                  StateOf[IF source = "project" THEN x ELSE UserPath], source, {})
<1>1. j \in Jobs
  <2>1. StateOf[IF source = "project" THEN x ELSE UserPath] \in States
    BY ConfigAssumption DEF States
  <2>2. file[x].there \in BOOLEAN
    BY DEF Types, Files
  <2> QED
    BY <2>1, <2>2 DEF Located, Jobs, Finding
<1>2. j.stage = "located" /\ j.offered = {}
  BY DEF Located
<1>3. proc' = [proc EXCEPT ![p] = j] /\ UNCHANGED <<file, kept, suspect>> /\ At(p, "idle")
  BY DEF Named
<1> HIDE DEF j
<1>4. Private(p, j)
  BY <1>1, <1>2, <1>3 DEF Private, At
<1>5. proc'[p] = j
  BY <1>1, <1>3, Becomes
<1>6. SearchOK(p)'
  BY <1>2, <1>5 DEF SearchOK, At, Nearest
<1> QED
  BY <1>4, <1>6

LEMMA LookIsPrivate ==
    ASSUME Types, NEW p \in Procs, SearchOK(p), Look(p)
    PROVE  (\E j : Private(p, j)) /\ SearchOK(p)'
<1> DEFINE i == proc[p].next
           x == Places(p)[i]
           n == Len(Candidates[p])
<1>1. At(p, "search") /\ proc[p] \in Searching /\ UNCHANGED <<file, kept, suspect>>
  BY JobOf DEF Look
<1>2. i \in 1 .. n + 1 /\ n \in Nat
  BY <1>1, PlacesAre DEF SearchOK, Searching
<1>3. x \in Paths /\ (i <= n => x = Candidates[p][i]) /\ (x = UserPath <=> i = n + 1)
  BY <1>2, PlacesAre
<1>4. CASE file[x].there \/ i = Len(Places(p))
  <2> DEFINE j == Located(proc[p].kind, proc[p].force, x, StateOf[x],
                    IF x = UserPath THEN "user" ELSE "project", proc[p].offered)
  <2>1. StateOf[x] \in States /\ file[x].there \in BOOLEAN
    BY <1>3 DEF States, Types, Files
  <2>2. j \in Finding
    BY <1>1, <1>3, <2>1 DEF Located, Finding, Searching
  <2>3. j.stage = "located" /\ j.path = x /\ j.offered = proc[p].offered
    BY DEF Located
  <2>4. proc' = [proc EXCEPT ![p] = j]
    BY <1>4 DEF Look
  <2> HIDE DEF j
  <2>5. Private(p, j)
    BY <1>1, <2>2, <2>3, <2>4 DEF Private, At, Jobs
  <2>6. proc'[p] = j
    BY <2>2, <2>4, Becomes DEF Jobs
  <2>7. ASSUME NEW k \in 1 .. n, Candidates[p][k] \in proc[p].offered
        PROVE  \E m \in 1 .. k : x = Candidates[p][m]
    <3>1. i <= k
      BY <1>1, <1>2, <2>7 DEF SearchOK
    <3>2. i \in 1 .. k /\ x = Candidates[p][i]
      BY <1>2, <1>3, <2>7, <3>1
    <3> QED
      BY <3>2
  <2>8. SearchOK(p)'
    BY <2>3, <2>6, <2>7 DEF SearchOK, At, Nearest
  <2> QED
    BY <2>5, <2>8
<1>5. CASE ~(file[x].there \/ i = Len(Places(p)))
  <2> DEFINE j == [proc[p] EXCEPT !.next = i + 1]
  <2>1. /\ j \in Searching /\ j.stage = "search" /\ j.next = i + 1
        /\ j.offered = proc[p].offered
    BY <1>1, <1>2 DEF Searching
  <2>2. proc' = [proc EXCEPT ![p] = j]
    BY <1>5 DEF Look
  <2> HIDE DEF j
  <2>3. Private(p, j)
    BY <1>1, <2>1, <2>2 DEF Private, At, Jobs
  <2>4. proc'[p] = j
    BY <2>1, <2>2, Becomes DEF Jobs
  <2>5. i <= n /\ i + 1 <= Len(Places(p))
    BY <1>2, <1>5, PlacesAre
  <2>6. Candidates[p][i] \notin proc[p].offered
    BY <1>1, <1>3, <1>5, <2>5 DEF SearchOK
  <2>7. \A k \in 1 .. i : k <= n => Candidates[p][k] \notin proc[p].offered
    BY <1>1, <1>2, <2>6 DEF SearchOK
  <2>8. /\ proc'[p].next <= Len(Places(p))
        /\ \A y \in proc'[p].offered : file'[y].there
        /\ \A k \in 1 .. proc'[p].next - 1 :
              k <= Len(Candidates[p]) => Candidates[p][k] \notin proc'[p].offered
    BY <1>1, <1>2, <2>1, <2>4, <2>5, <2>7 DEF SearchOK
  <2>9. SearchOK(p)'
    BY <2>1, <2>4, <2>8 DEF SearchOK, At, Places
  <2> QED
    BY <2>3, <2>9
<1> QED
  BY <1>4, <1>5

-----------------------------------------------------------------------------
(* The steps of one process that touch no file, together *)

LEMMA LeavesSearch ==
    ASSUME Types, NEW p \in Procs, NEW j, Private(p, j),
           j.stage \notin {"search", "located"}
    PROVE  (\E k : Private(p, k)) /\ SearchOK(p)'
<1>1. proc'[p] = j
  BY Becomes DEF Private
<1>2. SearchOK(p)'
  BY <1>1 DEF SearchOK, At
<1> QED
  BY <1>2

LEMMA ToLoadIsPrivate ==
    ASSUME Types, NEW p \in Procs, ToLoad(p)
    PROVE  (\E j : Private(p, j)) /\ SearchOK(p)'
<1> DEFINE j == [stage |-> "load", kind |-> proc[p].kind, path |-> proc[p].path]
<1>1. proc[p] \in Finding /\ At(p, "located")
  BY JobOf DEF ToLoad
<1>2. j \in Jobs
  BY <1>1 DEF Finding, Jobs, Loading
<1>3. Private(p, j)
  BY <1>1, <1>2 DEF Private, ToLoad, At
<1> QED
  BY <1>3, LeavesSearch

LEMMA AsideIsPrivate ==
    ASSUME Types, NEW p \in Procs, WriteAside(p)
    PROVE  (\E j : Private(p, j)) /\ SearchOK(p)'
<1> DEFINE j == [proc[p] EXCEPT !.stage = "written"]
<1>1. proc[p] \in Creating /\ At(p, "aside") /\ ~At(p, "open")
  BY JobOf DEF WriteAside, At
<1>2. j \in Creating /\ j.stage = "written"
  BY <1>1 DEF Creating
<1>3. Private(p, j)
  <2> HIDE DEF j
  <2>1. proc' = [proc EXCEPT ![p] = j]
    BY DEF WriteAside, j
  <2> QED
    BY <1>1, <1>2, <2>1 DEF Private, WriteAside, Jobs
<1>4. SearchOK(p)'
  <2>1. proc'[p].stage = "written"
    BY <1>2 DEF WriteAside, Types
  <2> QED
    BY <2>1 DEF SearchOK, At
<1> QED
  BY <1>3, <1>4

LEMMA CreatedIsPrivate ==
    ASSUME Types, NEW p \in Procs, Created(p)
    PROVE  (\E j : Private(p, j)) /\ SearchOK(p)'
<1> DEFINE j == [stage |-> "load", kind |-> proc[p].kind, path |-> proc[p].path]
<1>1. proc[p] \in Creating /\ At(p, "written")
  BY JobOf DEF Created
<1>2. CASE proc[p].kind = "init"
  <2>1. Private(p, Idle)
    BY <1>1, <1>2, IdleIsPrivate DEF Created, At
  <2> QED
    BY <2>1, LeavesSearch DEF Idle
<1>3. CASE proc[p].kind # "init"
  <2>1. j \in Jobs
    BY <1>1 DEF Creating, Jobs, Loading
  <2>2. Private(p, j)
    BY <1>1, <1>3, <2>1 DEF Private, Created, At
  <2> QED
    BY <2>2, LeavesSearch
<1> QED
  BY <1>2, <1>3

Begins(p) ==
    \E kind \in Kinds, force \in BOOLEAN :
        \/ Start(p, kind, force)
        \/ \E x \in Paths, source \in {"explicit", "project"} :
              Named(p, kind, force, x, source)

Ends(p) ==
    \/ Stop(p) \/ OpenFails(p) \/ ChmodFails(p) \/ LoadFails(p) \/ Use(p)
    \/ ServeFails(p) \/ (Crash(p) /\ ~At(p, "open"))

Quiet(p) ==
    \/ Begins(p) \/ Look(p) \/ ToLoad(p) \/ WriteAside(p) \/ Created(p)
    \/ Load(p) \/ Serve(p) \/ Ends(p)

LEMMA QuietIsPrivate ==
    ASSUME Types, NEW p \in Procs, SearchOK(p), Quiet(p)
    PROVE  (\E j : Private(p, j)) /\ SearchOK(p)'
<1>2. CASE WriteAside(p)
  BY <1>2, AsideIsPrivate
<1>3. CASE Look(p)
  BY <1>3, LookIsPrivate
<1>4. CASE ToLoad(p)
  BY <1>4, ToLoadIsPrivate
<1>5. CASE Created(p)
  BY <1>5, CreatedIsPrivate
<1>6. CASE Load(p)
  <2>1. PICK j : Private(p, j)
    BY <1>6, LoadIsPrivate
  <2>2. At(p, "load") /\ proc'[p].stage = "loaded"
    BY <1>6 DEF Load, Types
  <2>3. SearchOK(p)'
    BY <2>2 DEF SearchOK, At
  <2> QED
    BY <2>1, <2>3
<1>7. CASE Serve(p)
  <2>1. PICK j : Private(p, j)
    BY <1>7, ServeIsPrivate
  <2>2. proc'[p].stage = "serving"
    BY <1>7 DEF Serve, Types
  <2>3. SearchOK(p)'
    BY <2>2 DEF SearchOK, At
  <2> QED
    BY <2>1, <2>3
<1>8. CASE Ends(p)
  <2>1. Exit(p) /\ UNCHANGED <<file, kept, suspect>> /\ ~At(p, "open")
    BY <1>8 DEF Ends, Stop, OpenFails, Creates, ChmodFails, LoadFails, Use, ServeFails, Crash, At
  <2>2. Private(p, Idle)
    BY <2>1, IdleIsPrivate
  <2> QED
    BY <2>2, LeavesSearch DEF Idle
<1>9. CASE Begins(p)
  <2>1. PICK kind \in Kinds, force \in BOOLEAN :
           \/ Start(p, kind, force)
           \/ \E x \in Paths, source \in {"explicit", "project"} :
                 Named(p, kind, force, x, source)
    BY <1>9 DEF Begins
  <2> QED
    BY <2>1, StartIsPrivate, NamedIsPrivate
<1> QED
  BY <1>2, <1>3, <1>4, <1>5, <1>6, <1>7, <1>8, <1>9 DEF Quiet

-----------------------------------------------------------------------------
(* The invariant *)

\* What is known of file x.  As long as no writer failed or died over it and
\* no two wrote different texts to it: its writers all write one text, it has
\* that text or none, none only while it has a writer, and the processes in
\* use run with what it says unless it was edited.
FileOK(x) ==
    /\ ~file[x].there => file[x] = Absent /\ Writers(x) = {}
    /\ kept[x] # NoConfig =>
          file[x].there /\ file[x].holds = kept[x] /\ Writers(x) = {}
    /\ x \notin suspect =>
          /\ \A q \in Writers(x) :
                /\ file[x].holds \in {NoConfig, Default(proc[q].state)}
                /\ \A r \in Writers(x) : proc[r].state = proc[q].state
          /\ file[x].there /\ file[x].holds = NoConfig =>
                Writers(x) # {} /\ file[x].size = 0
          /\ \A q \in InUse :
                proc[q].path = x => proc[q].edited \/ proc[q].config = file[x].holds

\* What is known of process p.
ProcOK(p) ==
    /\ SearchOK(p)
    /\ p \in InUse =>
          /\ proc[p].config \in Texts /\ proc[p].config.rules
          /\ ListenSecure(proc[p].config)
    /\ At(p, "serving") => proc[p].token \in Tokens(proc[p].config)

ConfigInv ==
    /\ Types
    /\ \A x \in Paths : FileOK(x)
    /\ \A p \in Procs : ProcOK(p)

LEMMA InUseIs ==
    ASSUME Types, NEW p \in InUse
    PROVE  /\ p \in Procs /\ proc[p] \in Loaded \cup Serving
           /\ proc[p].path \in Paths /\ proc[p].config \in Texts
           /\ proc[p].config # NoConfig /\ proc[p].edited \in BOOLEAN
<1>1. p \in Procs /\ proc[p] \in Loaded \cup Serving
  BY JobOf DEF InUse, At
<1>2. /\ proc[p].path \in Paths /\ proc[p].config \in Texts
      /\ proc[p].edited \in BOOLEAN
  <2>1. CASE proc[p] \in Loaded
    BY <2>1 DEF Loaded
  <2>2. CASE proc[p] \in Serving
    BY <2>2 DEF Serving
  <2> QED
    BY <1>1, <2>1, <2>2
<1>3. NoConfig \notin Texts
  BY ConfigAssumption DEF Texts
<1> QED
  BY <1>1, <1>2, <1>3

\* Nothing that concerns file x happens to process q: it writes x with the
\* same text or does not, and runs with x as it did, or not any longer.
Apart(q, x) ==
    /\ (q \in Writers(x))' <=> q \in Writers(x)
    /\ q \in Writers(x) => proc'[q].state = proc[q].state
    /\ (q \in InUse)' /\ proc'[q].path = x =>
          /\ q \in InUse /\ proc[q].path = x
          /\ proc'[q].config = proc[q].config
          /\ proc[q].edited => proc'[q].edited

LEMMA Elsewhere ==
    ASSUME NEW x \in Paths, FileOK(x), \A q \in Procs : Apart(q, x),
           file'[x] = file[x], kept'[x] = kept[x], x \in suspect' <=> x \in suspect
    PROVE  FileOK(x)'
<1>1. Writers(x)' = Writers(x)
  BY DEF Apart, Writers
<1>2. \A q \in Writers(x) : proc'[q].state = proc[q].state
  BY DEF Apart, Writers
<1>3. \A q \in InUse' : proc'[q].path = x =>
         /\ q \in InUse /\ proc[q].path = x
         /\ proc'[q].config = proc[q].config
         /\ proc[q].edited => proc'[q].edited
  BY DEF Apart, InUse
<1>4. ASSUME x \notin suspect'
      PROVE  /\ \A q \in Writers(x)' :
                /\ file'[x].holds \in {NoConfig, Default(proc'[q].state)}
                /\ \A r \in Writers(x)' : proc'[r].state = proc'[q].state
             /\ file'[x].there /\ file'[x].holds = NoConfig =>
                  Writers(x)' # {} /\ file'[x].size = 0
             /\ \A q \in InUse' :
                  proc'[q].path = x => proc'[q].edited \/ proc'[q].config = file'[x].holds
  BY <1>1, <1>2, <1>3, <1>4 DEF FileOK
<1>5. /\ ~file'[x].there => file'[x] = Absent /\ Writers(x)' = {}
      /\ kept'[x] # NoConfig =>
          file'[x].there /\ file'[x].holds = kept'[x] /\ Writers(x)' = {}
  BY <1>1 DEF FileOK
<1> QED
  BY <1>4, <1>5 DEF FileOK, Absent

\* A process to which nothing happens is apart from every file; one that
\* moves is apart from the files that are not its own.
LEMMA Unmoved ==
    ASSUME NEW x \in Paths, NEW q \in Procs, proc'[q] = proc[q]
    PROVE  Apart(q, x)
BY DEF Apart, Writers, InUse, At

LEMMA OthersFile ==
    ASSUME NEW x \in Paths, NEW q \in Procs,
           At(q, "open") \/ q \in InUse => proc[q].path # x,
           At(q, "open")' \/ (q \in InUse)' => proc'[q].path # x
    PROVE  Apart(q, x)
BY DEF Apart, Writers, InUse, At

\* The same of a process and what the invariant says of it: files that were
\* there still are, or are no longer offered.
LEMMA ProcStays ==
    ASSUME NEW q \in Procs, ProcOK(q), proc'[q] = proc[q],
           At(q, "search") => \A x \in proc[q].offered : file'[x].there
    PROVE  ProcOK(q)'
<1>1. SearchOK(q)'
  <2>1. At(q, "located") => Nearest(q)'
    BY DEF ProcOK, SearchOK, Nearest
  <2> QED
    BY <2>1 DEF ProcOK, SearchOK, At, Places
<1>2. (q \in InUse)' <=> q \in InUse
  BY DEF InUse
<1> QED
  BY <1>1, <1>2 DEF ProcOK, At

\* Whom a step of p alone leaves as they were.
LEMMA OthersStay ==
    ASSUME Types, NEW p \in Procs, NEW j \in Jobs, proc' = [proc EXCEPT ![p] = j]
    PROVE  /\ proc'[p] = j /\ proc' \in [Procs -> Jobs]
           /\ \A q \in Procs \ {p} :
                 proc'[q] = proc[q] /\ \A x \in Paths : Apart(q, x)
<1>1. proc'[p] = j /\ \A q \in Procs : q # p => proc'[q] = proc[q]
  BY Becomes
<1>2. proc' \in [Procs -> Jobs]
  BY DEF Types
<1> QED
  BY <1>1, <1>2, Unmoved

\* A load of a file that was not damaged returns what the file holds, also
\* when it reads it while others write.
LEMMA LoadsWhatIsThere ==
    ASSUME Types, NEW x \in Paths, FileOK(x), x \notin suspect,
           NEW f \in Views(x), Loadable(f)
    PROVE  f.holds = file[x].holds
<1>1. CASE f = file[x]
  BY <1>1
<1>2. CASE \E q \in Writers(x) : f \in Cuts(file[x], Default(proc[q].state))
  <2>1. PICK q \in Writers(x) : f \in Cuts(file[x], Default(proc[q].state))
    BY <1>2
  <2>2. Default(proc[q].state) \in Configs /\ file[x] \in Files
    BY WriterIs, Defaults DEF Types
  <2>3. file[x].holds \in {NoConfig, Default(proc[q].state)}
    BY DEF FileOK
  <2>4. f.holds # NoConfig
    BY DEF Loadable
  <2> QED
    BY <2>1, <2>2, <2>3, <2>4, CutsAre
<1> QED
  BY <1>1, <1>2, ViewsAre

LEMMA PrivateKeeps ==
    ASSUME ConfigInv, NEW p \in Procs, NEW j, Private(p, j), SearchOK(p)'
    PROVE  ConfigInv'
<1>1. /\ Types /\ j \in Jobs /\ proc' = [proc EXCEPT ![p] = j]
      /\ file' = file /\ kept' = kept /\ suspect' = suspect
  BY DEF ConfigInv, Private
<1>2. /\ proc'[p] = j /\ proc' \in [Procs -> Jobs]
      /\ \A q \in Procs \ {p} : proc'[q] = proc[q] /\ \A x \in Paths : Apart(q, x)
  BY <1>1, OthersStay
<1>3. Types'
  BY <1>1, <1>2 DEF Types
<1>4. ~At(p, "open") /\ ~At(p, "open")'
  BY <1>2 DEF Private, At
<1>5. ASSUME NEW x \in Paths
      PROVE  FileOK(x)'
  <2>1. FileOK(x)
    BY DEF ConfigInv
  <2>2. CASE j.stage = "loaded" /\ j.path = x
    <3>1. PICK f \in Views(x) : Loadable(f) /\ j.config = f.holds
      BY <2>2 DEF Private
    <3>2. x \notin suspect => j.config = file[x].holds
      BY <1>1, <2>1, <3>1, LoadsWhatIsThere
    <3>3. /\ Writers(x)' = Writers(x)
          /\ \A q \in Writers(x) : q # p /\ proc'[q] = proc[q]
      BY <1>2, <1>4 DEF Writers, At
    <3>4. \A q \in InUse' \ {p} : q \in InUse /\ proc'[q] = proc[q]
      BY <1>2 DEF InUse
    <3>5. x \notin suspect' => \A q \in InUse' :
             proc'[q].path = x => proc'[q].edited \/ proc'[q].config = file'[x].holds
      BY <1>1, <1>2, <2>1, <3>2, <3>4 DEF FileOK
    <3> QED
      BY <1>1, <2>1, <3>3, <3>5 DEF FileOK, Absent
  <2>3. CASE ~(j.stage = "loaded" /\ j.path = x)
    <3>1. Apart(p, x)
      <4>1. CASE (p \in InUse)' /\ j.path = x
        <5>1. j.stage = "serving"
          BY <1>2, <2>3, <4>1 DEF InUse
        <5>2. /\ At(p, "loaded") /\ proc[p].path = x
              /\ j.config = proc[p].config /\ j.edited = proc[p].edited
          BY <4>1, <5>1 DEF Private
        <5>3. p \in InUse
          BY <5>2 DEF InUse, At
        <5> QED
          BY <1>2, <1>4, <5>2, <5>3 DEF Apart, Writers
      <4>2. CASE ~((p \in InUse)' /\ j.path = x)
        BY <1>2, <1>4, <4>2 DEF Apart, Writers
      <4> QED
        BY <4>1, <4>2
    <3>2. \A q \in Procs : Apart(q, x)
      BY <1>2, <3>1
    <3> QED
      BY <1>1, <2>1, <3>2, Elsewhere
  <2> QED
    BY <2>2, <2>3
<1>6. ASSUME NEW q \in Procs
      PROVE  ProcOK(q)'
  <2>1. CASE q # p
    <3>1. ProcOK(q) /\ proc'[q] = proc[q]
      BY <1>2, <2>1 DEF ConfigInv
    <3>2. At(q, "search") => \A x \in proc[q].offered : file'[x].there
      BY <1>1, <3>1 DEF ProcOK, SearchOK
    <3> QED
      BY <3>1, <3>2, ProcStays
  <2>2. CASE q = p
    <3>1. CASE j.stage = "loaded"
      <4>1. j.path = proc[p].path /\ proc[p] \in Loading /\ proc[p].path \in Paths
        BY <1>1, <3>1, JobOf DEF Private, Loading
      <4>2. PICK f \in Views(j.path) : Loadable(f) /\ j.config = f.holds
        BY <3>1 DEF Private
      <4>3. f \in Files /\ f.holds \in Texts
        BY <1>1, <4>1, <4>2, ViewsAre DEF Files, Loadable
      <4> QED
        BY <1>2, <2>2, <3>1, <4>2, <4>3 DEF ProcOK, At, Loadable
    <3>2. CASE j.stage = "serving"
      <4>1. /\ p \in InUse /\ j.config = proc[p].config
            /\ j.token \in Tokens(j.config)
        BY <3>2 DEF Private, InUse, At
      <4>2. ProcOK(p)
        BY DEF ConfigInv
      <4> QED
        BY <1>2, <2>2, <3>2, <4>1, <4>2 DEF ProcOK, At
    <3>3. CASE j.stage \notin {"loaded", "serving"}
      <4>1. (p \notin InUse)' /\ ~At(p, "serving")'
        BY <1>2, <3>3 DEF InUse, At
      <4> QED
        BY <2>2, <4>1 DEF ProcOK
    <3> QED
      BY <3>1, <3>2, <3>3
  <2> QED
    BY <2>1, <2>2
<1> QED
  BY <1>3, <1>5, <1>6 DEF ConfigInv

-----------------------------------------------------------------------------
(* Steps on a file *)

LEMMA UnawareIs ==
    ASSUME Types, NEW x \in Paths, NEW q \in Procs
    PROVE  LET u == Unaware(x)[q]
           IN  /\ u \in Jobs /\ u.stage = proc[q].stage
               /\ ~(q \in InUse /\ proc[q].path = x) => u = proc[q]
               /\ q \in InUse =>
                     /\ u.path = proc[q].path /\ u.config = proc[q].config
                     /\ proc[q].path = x => u.edited
                     /\ proc[q].path # x => u.edited = proc[q].edited
               /\ At(q, "serving") => u.token = proc[q].token
<1> DEFINE u == Unaware(x)[q]
           e == [proc[q] EXCEPT !.edited = TRUE]
<1>1. CASE ~(q \in InUse /\ proc[q].path = x)
  <2>1. u = proc[q]
    BY <1>1 DEF Unaware, InUse
  <2> QED
    BY <1>1, <2>1 DEF Types
<1>2. CASE q \in InUse /\ proc[q].path = x
  <2>1. u = e
    BY <1>2 DEF Unaware, InUse
  <2>2. CASE proc[q] \in Loaded
    <3>1. /\ e \in Loaded /\ e.stage = "loaded" /\ e.path = x
          /\ e.config = proc[q].config /\ e.edited
      BY <1>2, <2>2 DEF Loaded
    <3>2. ~At(q, "serving") /\ proc[q].stage = "loaded"
      BY <2>2 DEF At, Loaded
    <3> QED
      BY <1>2, <2>1, <3>1, <3>2 DEF Jobs
  <2>3. CASE proc[q] \in Serving
    <3>1. /\ e \in Serving /\ e.stage = proc[q].stage /\ e.path = x
          /\ e.config = proc[q].config /\ e.edited /\ e.token = proc[q].token
      BY <1>2, <2>3 DEF Serving
    <3> QED
      BY <1>2, <2>1, <3>1 DEF Jobs
  <2> QED
    BY <1>2, <2>2, <2>3, InUseIs
<1> QED
  BY <1>1, <1>2

\* Another file changed, and who uses that one is not told.
LEMMA UnawareApart ==
    ASSUME Types, NEW x \in Paths, NEW y \in Paths \ {x}, NEW q \in Procs,
           proc'[q] = Unaware(x)[q]
    PROVE  Apart(q, y)
<1>1. CASE q \in InUse /\ proc[q].path = x
  <2>1. proc'[q].path = x /\ proc'[q].stage = proc[q].stage
    BY <1>1, UnawareIs
  <2> QED
    BY <1>1, <2>1 DEF Apart, Writers, InUse, At
<1>2. CASE ~(q \in InUse /\ proc[q].path = x)
  BY <1>2, UnawareIs, Unmoved
<1> QED
  BY <1>1, <1>2

LEMMA UnawareStays ==
    ASSUME Types, NEW x \in Paths, NEW q \in Procs, ProcOK(q), proc'[q] = Unaware(x)[q],
           At(q, "search") => \A y \in proc[q].offered : file'[y].there
    PROVE  ProcOK(q)'
<1>1. CASE q \in InUse /\ proc[q].path = x
  <2>1. /\ proc'[q].stage = proc[q].stage /\ proc'[q].config = proc[q].config
        /\ At(q, "serving") => proc'[q].token = proc[q].token
    BY <1>1, UnawareIs
  <2> QED
    BY <1>1, <2>1 DEF ProcOK, SearchOK, InUse, At
<1>2. CASE ~(q \in InUse /\ proc[q].path = x)
  BY <1>2, UnawareIs, ProcStays
<1> QED
  BY <1>1, <1>2

\* Process p opens, writes or leaves file x: what is left to show is that the
\* invariant holds of x.
OnFile(p, x, f, j) ==
    /\ f \in Files /\ f.there /\ file' = [file EXCEPT ![x] = f]
    /\ kept' \in [Paths -> Edited \cup {NoConfig}] /\ suspect' \subseteq Paths
    /\ \A y \in Paths \ {x} :
          kept'[y] = kept[y] /\ (y \in suspect' <=> y \in suspect)
    /\ j \in Jobs /\ j.stage \in {"idle", "open", "written"}
    /\ j.stage = "open" => j.path = x
    /\ p \notin InUse /\ (At(p, "open") => proc[p].path = x)
    /\ proc' \in [Procs -> Jobs] /\ proc'[p] = j

LEMMA OnFileKeeps ==
    ASSUME ConfigInv, NEW p \in Procs, NEW x \in Paths, NEW f, NEW j,
           OnFile(p, x, f, j), FileOK(x)',
           \A q \in Procs \ {p} : proc'[q] = proc[q] \/ proc'[q] = Unaware(x)[q]
    PROVE  ConfigInv'
<1>1. Types /\ Types'
  BY DEF ConfigInv, Types, OnFile
<1>2. ASSUME NEW y \in Paths \ {x}
      PROVE  FileOK(y)'
  <2>1. ~At(p, "open")' \/ proc'[p].path # y
    BY DEF OnFile, At
  <2>2. (p \notin InUse)'
    BY DEF OnFile, InUse
  <2>3. Apart(p, y)
    BY <2>1, <2>2 DEF OnFile, Apart, Writers
  <2>4. \A q \in Procs : Apart(q, y)
    BY <1>1, <2>3, Unmoved, UnawareApart
  <2>5. /\ file'[y] = file[y] /\ kept'[y] = kept[y]
        /\ y \in suspect' <=> y \in suspect
    BY <1>1 DEF OnFile, Types
  <2> QED
    BY <2>4, <2>5, Elsewhere DEF ConfigInv
<1>3. ASSUME NEW q \in Procs
      PROVE  ProcOK(q)'
  <2>1. CASE q = p
    <3>1. ~At(q, "search")' /\ ~At(q, "located")' /\ (q \notin InUse)' /\ ~At(q, "serving")'
      BY <2>1 DEF OnFile, At, InUse
    <3> QED
      BY <3>1 DEF ProcOK, SearchOK
  <2>2. CASE q # p
    <3>1. ProcOK(q)
      BY DEF ConfigInv
    <3>2. \A y \in Paths : file[y].there => file'[y].there
      BY <1>1 DEF OnFile, Types
    <3>3. At(q, "search") =>
             proc[q].offered \subseteq Paths /\ \A y \in proc[q].offered : file[y].there
      BY <1>1, <3>1, JobOf DEF ProcOK, SearchOK, Searching
    <3>4. At(q, "search") => \A y \in proc[q].offered : file'[y].there
      BY <3>2, <3>3
    <3> QED
      BY <1>1, <2>2, <3>1, <3>4, ProcStays, UnawareStays
  <2> QED
    BY <2>1, <2>2
<1> QED
  BY <1>1, <1>2, <1>3 DEF ConfigInv

LEMMA OpenedIs ==
    ASSUME Types, NEW p \in Procs, Creates(p)
    PROVE  /\ proc[p].path \in Paths /\ Opened(p) \in Jobs
           /\ Opened(p).stage = "open" /\ Opened(p).path = proc[p].path
           /\ Opened(p).state = proc[p].state
           /\ ~At(p, "open") /\ p \notin InUse
<1>1. At(p, "located") /\ proc[p] \in Finding
  BY JobOf DEF Creates
<1>2. Opened(p) \in Creating
  BY <1>1 DEF Opened, Finding, Creating
<1> QED
  BY <1>1, <1>2 DEF Opened, Finding, Jobs, At, InUse

LEMMA CreateKeeps ==
    ASSUME ConfigInv, NEW p \in Procs, NEW x \in Paths, x = proc[p].path, Create(p)
    PROVE  ConfigInv'
<1> DEFINE j == Opened(p)
           f == [file[x] EXCEPT !.there = TRUE]
<1>1. Types /\ Creates(p)
  BY DEF ConfigInv, Create
<1>2. /\ x \in Paths /\ j \in Jobs /\ j.stage = "open" /\ j.path = x
      /\ j.state = proc[p].state /\ ~At(p, "open") /\ p \notin InUse
  BY <1>1, OpenedIs
<1>3. file[x] = Absent /\ Writers(x) = {} /\ kept[x] = NoConfig
  BY <1>2 DEF ConfigInv, FileOK, Create, Exclusive
<1>4. /\ file' = [file EXCEPT ![x] = f] /\ f \in Files /\ f.there
      /\ f.holds = NoConfig /\ f.size = 0
      /\ proc' = [proc EXCEPT ![p] = j] /\ kept' = kept /\ suspect' = suspect
  <2>1. file' = [file EXCEPT ![x] = f]
    BY DEF Create
  <2>2. file[x] \in Files
    BY <1>1 DEF Types
  <2>3. f \in Files /\ f.there /\ f.holds = file[x].holds /\ f.size = file[x].size
    BY <2>2 DEF Files
  <2>4. file[x].holds = NoConfig /\ file[x].size = 0
    BY <1>3 DEF Absent
  <2> HIDE DEF f
  <2> QED
    BY <2>1, <2>3, <2>4 DEF Create
<1> HIDE DEF f, j
<1>5. /\ proc'[p] = j /\ proc' \in [Procs -> Jobs]
      /\ \A q \in Procs \ {p} : proc'[q] = proc[q]
  BY <1>1, <1>2, <1>4, OthersStay
<1>6. OnFile(p, x, f, j)
  BY <1>1, <1>2, <1>4, <1>5 DEF OnFile, Types
<1>7. FileOK(x)'
  <2>1. Writers(x)' = {p}
    BY <1>2, <1>3, <1>5 DEF Writers, At
  <2>2. file'[x] = f
    BY <1>1, <1>2, <1>4 DEF Types
  <2>3. \A q \in InUse' : q \in InUse /\ proc'[q] = proc[q]
    BY <1>2, <1>5 DEF InUse
  <2>4. x \notin suspect => \A q \in InUse :
           proc[q].path = x => proc[q].edited \/ proc[q].config = NoConfig
    BY <1>2, <1>3 DEF ConfigInv, FileOK, Absent
  <2>5. kept'[x] = NoConfig
    BY <1>3, <1>4
  <2> QED
    BY <1>4, <2>1, <2>2, <2>3, <2>4, <2>5 DEF FileOK
<1> QED
  BY <1>2, <1>5, <1>6, <1>7, OnFileKeeps

LEMMA OverwriteKeeps ==
    ASSUME ConfigInv, NEW p \in Procs, NEW x \in Paths, x = proc[p].path, Overwrite(p)
    PROVE  ConfigInv'
<1> DEFINE j == Opened(p)
<1>1. Types /\ Creates(p)
  BY DEF ConfigInv, Overwrite
<1>2. /\ x \in Paths /\ j \in Jobs /\ j.stage = "open" /\ j.path = x
      /\ j.state = proc[p].state /\ ~At(p, "open") /\ p \notin InUse
  BY <1>1, OpenedIs
<1>3. /\ file' = [file EXCEPT ![x] = Empty] /\ Empty \in Files /\ Empty.there
      /\ proc' = [Unaware(x) EXCEPT ![p] = j]
      /\ kept' = [kept EXCEPT ![x] = NoConfig]
      /\ suspect' \in {suspect, suspect \cup {x}, suspect \ {x}}
  BY DEF Overwrite, Truncated, Empty, Files
<1>4. x \notin suspect' =>
         ~Shared(p, x) /\ (x \notin suspect \/ Writers(x) = {})
  BY DEF Overwrite
<1> HIDE DEF j
<1>5. proc'[p] = j /\ \A q \in Procs \ {p} : proc'[q] = Unaware(x)[q]
  BY <1>3 DEF Unaware
<1>6. proc' \in [Procs -> Jobs]
  <2>1. Unaware(x) \in [Procs -> Jobs]
    <3>1. \A q \in Procs : Unaware(x)[q] \in Jobs
      BY <1>1, <1>2, UnawareIs
    <3>2. Unaware(x) = [q \in Procs |-> Unaware(x)[q]]
      BY DEF Unaware
    <3> QED
      BY <3>1, <3>2
  <2> QED
    BY <1>2, <1>3, <2>1
<1>7. OnFile(p, x, Empty, j)
  BY <1>1, <1>2, <1>3, <1>5, <1>6 DEF OnFile, Types
<1>8. FileOK(x)'
  <2>1. Writers(x)' = Writers(x) \cup {p}
    BY <1>1, <1>2, <1>5, UnawareIs DEF Writers, At, InUse
  <2>2. file'[x] = Empty /\ kept'[x] = NoConfig
    BY <1>1, <1>2, <1>3 DEF Types
  <2>3. \A q \in InUse' : proc'[q].path = x => proc'[q].edited
    <3> SUFFICES ASSUME NEW q \in InUse', proc'[q].path = x
                 PROVE  proc'[q].edited
      OBVIOUS
    <3>1. q \in Procs /\ q # p
      BY <1>2, <1>5 DEF InUse
    <3>2. q \in InUse
      BY <1>1, <1>2, <1>5, <3>1, UnawareIs DEF InUse
    <3> QED
      BY <1>1, <1>2, <1>5, <3>1, <3>2, UnawareIs
  <2>4. \A q \in Writers(x) : q # p /\ proc'[q].state = proc[q].state
    BY <1>1, <1>2, <1>5, UnawareIs DEF Writers, At, InUse
  <2>5. x \notin suspect' => \A q \in Writers(x) : proc[q].state = proc[p].state
    BY <1>4 DEF Shared
  <2>6. x \notin suspect' => \A q, r \in Writers(x)' : proc'[r].state = proc'[q].state
    BY <1>2, <1>5, <2>1, <2>4, <2>5
  <2> QED
    BY <2>1, <2>2, <2>3, <2>6 DEF FileOK, Empty
<1> QED
  BY <1>2, <1>5, <1>7, <1>8, OnFileKeeps

LEMMA WritingIs ==
    ASSUME ConfigInv, NEW p \in Procs, At(p, "open"), NEW x \in Paths, x = proc[p].path
    PROVE  /\ proc[p] \in Creating /\ p \in Writers(x) /\ p \notin InUse
           /\ proc[p].state \in States /\ Default(proc[p].state) \in Configs
           /\ file[x] \in Files /\ file[x].there /\ kept[x] = NoConfig
<1>1. Types /\ FileOK(x)
  BY DEF ConfigInv
<1>2. p \in Writers(x)
  BY DEF Writers
<1>3. proc[p] \in Creating /\ proc[p].state \in States /\ Default(proc[p].state) \in Configs
  BY <1>1, <1>2, WriterIs, Defaults
<1>4. file[x].there /\ kept[x] = NoConfig
  BY <1>1, <1>2 DEF FileOK
<1>5. file[x] \in Files
  BY <1>1 DEF Types
<1> QED
  BY <1>2, <1>3, <1>4, <1>5 DEF At, InUse

LEMMA WriteKeeps ==
    ASSUME ConfigInv, NEW p \in Procs, NEW x \in Paths, x = proc[p].path, Write(p)
    PROVE  ConfigInv'
<1> DEFINE c == Default(proc[p].state)
           j == [proc[p] EXCEPT !.stage = "written"]
<1>0. PICK f \in Overwritten(file[x], c) : file' = [file EXCEPT ![x] = f]
  BY DEF Write
<1>1. /\ proc[p] \in Creating /\ p \in Writers(x) /\ p \notin InUse
      /\ c \in Configs /\ file[x] \in Files /\ file[x].there /\ kept[x] = NoConfig
  BY WritingIs DEF Write
<1>2. /\ f \in Files /\ f.there /\ (file[x].holds = c => f.holds = c)
      /\ file[x].holds = NoConfig /\ file[x].size = 0 => f.holds = c
  BY <1>1, OverwrittenIs
<1>3. j \in Creating /\ j.stage = "written"
  BY <1>1 DEF Creating
<1>4. /\ file' = [file EXCEPT ![x] = f] /\ proc' = [proc EXCEPT ![p] = j]
      /\ kept' = kept /\ suspect' = suspect
  BY <1>0 DEF Write
<1>5. c # NoConfig /\ Types /\ FileOK(x)
  BY <1>1, ConfigAssumption DEF ConfigInv
<1> HIDE DEF j, c
<1>6. /\ proc'[p] = j /\ proc' \in [Procs -> Jobs]
      /\ \A q \in Procs \ {p} : proc'[q] = proc[q]
  BY <1>3, <1>4, <1>5, OthersStay DEF Jobs
<1>7. OnFile(p, x, f, j)
  BY <1>1, <1>2, <1>3, <1>4, <1>5, <1>6 DEF OnFile, Types, Jobs
<1>8. FileOK(x)'
  <2>1. Writers(x)' = Writers(x) \ {p}
    BY <1>3, <1>6 DEF Writers, At
  <2>2. file'[x] = f
    BY <1>4, <1>5 DEF Types
  <2>3. \A q \in InUse' : q \in InUse /\ proc'[q] = proc[q]
    BY <1>3, <1>6 DEF InUse
  <2>4. ASSUME x \notin suspect
        PROVE  /\ f.holds = c
               /\ \A q \in Writers(x) : Default(proc[q].state) = c
               /\ \A q, r \in Writers(x) : proc[q].state = proc[r].state
    <3>1. file[x].holds \in {NoConfig, c}
      BY <1>1, <1>5, <2>4 DEF FileOK, c
    <3>2. file[x].holds = NoConfig => file[x].size = 0
      BY <1>1, <1>5, <2>4 DEF FileOK
    <3>3. \A q, r \in Writers(x) : proc[q].state = proc[r].state
      BY <1>5, <2>4 DEF FileOK
    <3> QED
      BY <1>1, <1>2, <3>1, <3>2, <3>3 DEF c
  <2>5. x \notin suspect => \A q \in InUse :
           proc[q].path = x => proc[q].edited \/ proc[q].config = c
    <3> SUFFICES ASSUME x \notin suspect, NEW q \in InUse, proc[q].path = x
                 PROVE  proc[q].edited \/ proc[q].config = c
      OBVIOUS
    <3>1. proc[q].edited \/ proc[q].config = file[x].holds
      BY <1>5 DEF FileOK
    <3>2. file[x].holds \in {NoConfig, c}
      BY <1>1, <1>5 DEF FileOK, c
    <3>3. proc[q].config # NoConfig
      BY <1>5, InUseIs
    <3> QED
      BY <3>1, <3>2, <3>3
  <2>6. \A q \in Writers(x)' : q \in Writers(x) /\ proc'[q] = proc[q]
    BY <1>6, <2>1 DEF Writers
  <2> QED
    BY <1>1, <1>2, <1>4, <1>5, <2>2, <2>3, <2>4, <2>5, <2>6 DEF FileOK
<1> QED
  BY <1>6, <1>7, <1>8, OnFileKeeps

LEMMA LeftBehindKeeps ==
    ASSUME ConfigInv, NEW p \in Procs, NEW x \in Paths, x = proc[p].path,
           At(p, "open"), LeftBehind(p), Exit(p), kept' = kept
    PROVE  ConfigInv'
<1>1. /\ p \in Writers(x) /\ p \notin InUse /\ Default(proc[p].state) \in Configs
      /\ file[x] \in Files /\ file[x].there /\ kept[x] = NoConfig
  BY WritingIs
<1>2. PICK f \in {file[x]} \cup Cuts(file[x], Default(proc[p].state)) :
         file' = [file EXCEPT ![x] = f]
  BY DEF LeftBehind
<1>3. f \in Files /\ f.there
  BY <1>1, <1>2, CutsAre
<1>4. suspect' = suspect \cup {x} /\ proc' = [proc EXCEPT ![p] = Idle] /\ Types
  BY DEF LeftBehind, Exit, ConfigInv
<1>5. /\ proc'[p] = Idle /\ proc' \in [Procs -> Jobs]
      /\ \A q \in Procs \ {p} : proc'[q] = proc[q]
  BY <1>4, OthersStay DEF Jobs
<1>6. OnFile(p, x, f, Idle)
  BY <1>1, <1>2, <1>3, <1>4, <1>5 DEF OnFile, Types, Jobs, Idle
<1>7. FileOK(x)'
  <2>1. file'[x] = f
    BY <1>2, <1>4 DEF Types
  <2> QED
    BY <1>1, <1>3, <1>4, <2>1 DEF FileOK
<1> QED
  BY <1>5, <1>6, <1>7, OnFileKeeps

\* Who has x open when its name goes to another file.
LEMMA DisplacedIs ==
    ASSUME Types, NEW x \in Paths, NEW q \in Procs
    PROVE  /\ Displaced(x)[q] \in Jobs
           /\ q \in Writers(x) => Displaced(x)[q].stage = "aside"
           /\ q \notin Writers(x) => Displaced(x)[q] = Unaware(x)[q]
<1>1. CASE q \in Writers(x)
  <2>1. Displaced(x)[q] = [proc[q] EXCEPT !.stage = "aside"]
    BY <1>1 DEF Displaced, Writers
  <2>2. proc[q] \in Creating
    BY <1>1, WriterIs
  <2> QED
    BY <1>1, <2>1, <2>2 DEF Creating, Jobs
<1>2. CASE q \notin Writers(x)
  <2>1. Displaced(x)[q] = Unaware(x)[q]
    BY <1>2 DEF Displaced, Writers
  <2> QED
    BY <1>2, <2>1, UnawareIs
<1> QED
  BY <1>1, <1>2

\* What an operator does to file x: everybody who uses it did not hear of it,
\* and nothing happens to the other files.
LEMMA OperatorLeaves ==
    ASSUME Types, NEW x \in Paths,
           \A q \in Procs :
              \/ proc'[q] = Unaware(x)[q]
              \/ (At(q, "search") \/ At(q, "located")) /\ proc'[q].stage = proc[q].stage
              \/ q \in Writers(x) /\ proc'[q].stage = "aside"
    PROVE  /\ \A q \in InUse' : proc'[q].path = x => proc'[q].edited
           /\ \A q \in Procs, y \in Paths \ {x} : Apart(q, y)
<1>1. ASSUME NEW q \in InUse', proc'[q].path = x
      PROVE  proc'[q].edited
  <2>1. q \in Procs /\ proc'[q] = Unaware(x)[q]
    BY DEF InUse, At
  <2>2. q \in InUse
    BY <2>1, UnawareIs DEF InUse
  <2> QED
    BY <1>1, <2>1, <2>2, UnawareIs
<1>2. ASSUME NEW q \in Procs, NEW y \in Paths \ {x}
      PROVE  Apart(q, y)
  <2>1. CASE proc'[q] = Unaware(x)[q]
    BY <2>1, UnawareApart
  <2>2. CASE (At(q, "search") \/ At(q, "located")) /\ proc'[q].stage = proc[q].stage
    BY <2>2 DEF Apart, Writers, InUse, At
  <2>3. CASE q \in Writers(x) /\ proc'[q].stage = "aside"
    BY <2>3 DEF Apart, Writers, InUse, At
  <2> QED
    BY <2>1, <2>2, <2>3
<1> QED
  BY <1>1, <1>2

\* The other files and what is known of processes, when an operator has
\* written x, in either way.
LEMMA SavedKeeps ==
    ASSUME ConfigInv, NEW x \in Paths, NEW c \in Edits[x],
           file' = [file EXCEPT ![x] = Saved(c)],
           NEW k \in {c, NoConfig}, kept' = [kept EXCEPT ![x] = k],
           suspect' \in {suspect \cup {x}, suspect \ {x}},
           proc' \in [Procs -> Jobs],
           \A q \in Procs :
              \/ proc'[q] = Unaware(x)[q]
              \/ q \in Writers(x) /\ proc'[q].stage = "aside",
           k # NoConfig \/ x \notin suspect' => Writers(x)' = {}
    PROVE  ConfigInv'
<1>1. Types /\ c \in Edited /\ c \in Configs /\ c # NoConfig /\ Size[c] \in Nat
  BY ConfigAssumption DEF ConfigInv, Configs, Edited
<1>2. Saved(c) \in Files /\ Saved(c).there /\ Saved(c).holds = c
  BY <1>1 DEF Saved, Files, Texts
<1>3. Types'
  BY <1>1, <1>2 DEF Types
<1>4. /\ \A q \in InUse' : proc'[q].path = x => proc'[q].edited
      /\ \A q \in Procs, y \in Paths \ {x} : Apart(q, y)
  BY <1>1, OperatorLeaves
<1>5. file'[x] = Saved(c) /\ kept'[x] = k
  BY <1>1 DEF Types
<1>6. FileOK(x)'
  BY <1>1, <1>2, <1>4, <1>5 DEF FileOK
<1>7. ASSUME NEW y \in Paths \ {x}
      PROVE  FileOK(y)'
  <2>1. /\ file'[y] = file[y] /\ kept'[y] = kept[y]
        /\ y \in suspect' <=> y \in suspect
    BY <1>1 DEF Types
  <2> QED
    BY <1>4, <2>1, Elsewhere DEF ConfigInv
<1>8. ASSUME NEW q \in Procs
      PROVE  ProcOK(q)'
  <2>1. ProcOK(q)
    BY DEF ConfigInv
  <2>2. At(q, "search") => proc[q].offered \subseteq Paths
    BY <1>1, JobOf DEF Searching
  <2>3. \A y \in Paths : file[y].there => file'[y].there
    BY <1>1, <1>2, <1>5 DEF Types
  <2>4. At(q, "search") => \A y \in proc[q].offered : file'[y].there
    BY <2>1, <2>2, <2>3 DEF ProcOK, SearchOK
  <2>5. CASE proc'[q] = Unaware(x)[q]
    BY <1>1, <2>1, <2>4, <2>5, UnawareStays
  <2>6. CASE proc'[q].stage = "aside"
    BY <2>6 DEF ProcOK, SearchOK, InUse, At
  <2> QED
    BY <2>5, <2>6
<1> QED
  BY <1>3, <1>6, <1>7, <1>8 DEF ConfigInv

\* Nobody has x open any more.
LEMMA NobodyWrites ==
    ASSUME Types, NEW x \in Paths,
           \A q \in Procs :
              /\ q \in Writers(x) => proc'[q].stage = "aside"
              /\ q \notin Writers(x) =>
                    \/ proc'[q] = Unaware(x)[q]
                    \/ (At(q, "search") \/ At(q, "located"))
                          /\ proc'[q].stage = proc[q].stage
    PROVE  Writers(x)' = {}
<1> SUFFICES ASSUME NEW q \in Procs, At(q, "open")', proc'[q].path = x
             PROVE  FALSE
  BY DEF Writers
<1>1. q \notin Writers(x) /\ proc'[q] = Unaware(x)[q]
  BY DEF At
<1>2. At(q, "open") /\ q \notin InUse
  BY <1>1, UnawareIs DEF At, InUse
<1>3. proc'[q] = proc[q]
  BY <1>1, <1>2, UnawareIs
<1> QED
  BY <1>1, <1>2, <1>3 DEF Writers

LEMMA EditKeeps ==
    ASSUME ConfigInv, NEW x \in Paths, NEW c \in Edits[x], Edit(x, c)
    PROVE  ConfigInv'
<1>1. Types
  BY DEF ConfigInv
<1>2. \A q \in Procs : proc'[q] = Unaware(x)[q] /\ proc'[q] \in Jobs
  BY <1>1, UnawareIs DEF Edit
<1>3. proc' \in [Procs -> Jobs]
  BY <1>2 DEF Edit, Unaware
<1>4. Writers(x) = {} => Writers(x)' = {}
  <2> SUFFICES ASSUME NEW q \in Procs, At(q, "open")', proc'[q].path = x
               PROVE  q \in Writers(x)
    BY DEF Writers
  <2>1. At(q, "open") /\ q \notin InUse
    BY <1>1, <1>2, UnawareIs DEF At, InUse
  <2>2. proc'[q] = proc[q]
    BY <1>1, <1>2, <2>1, UnawareIs
  <2> QED
    BY <2>1, <2>2 DEF Writers
<1>5. /\ file' = [file EXCEPT ![x] = Saved(c)]
      /\ Writers(x) = {} =>
            kept' = [kept EXCEPT ![x] = c] /\ suspect' = suspect \ {x}
      /\ Writers(x) # {} =>
            kept' = [kept EXCEPT ![x] = NoConfig] /\ suspect' = suspect \cup {x}
  BY DEF Edit
<1>6. CASE Writers(x) = {}
  BY <1>2, <1>3, <1>4, <1>5, <1>6, SavedKeeps
<1>7. CASE Writers(x) # {}
  BY <1>2, <1>3, <1>5, <1>7, SavedKeeps
<1> QED
  BY <1>6, <1>7

LEMMA ReplaceKeeps ==
    ASSUME ConfigInv, NEW x \in Paths, NEW c \in Edits[x], Replace(x, c)
    PROVE  ConfigInv'
<1>1. Types
  BY DEF ConfigInv
<1>2. \A q \in Procs :
         /\ proc'[q] \in Jobs
         /\ q \in Writers(x) => proc'[q].stage = "aside"
         /\ q \notin Writers(x) => proc'[q] = Unaware(x)[q]
  BY <1>1, DisplacedIs DEF Replace
<1>3. proc' \in [Procs -> Jobs]
  BY <1>2 DEF Replace, Displaced
<1>4. Writers(x)' = {}
  BY <1>1, <1>2, NobodyWrites
<1>5. /\ file' = [file EXCEPT ![x] = Saved(c)] /\ kept' = [kept EXCEPT ![x] = c]
      /\ suspect' = suspect \ {x}
  BY DEF Replace
<1> QED
  BY <1>2, <1>3, <1>4, <1>5, SavedKeeps

\* The search goes on with one file less on offer.
LEMMA OfferShrinks ==
    ASSUME Types, NEW x \in Paths, NEW q \in Procs, At(q, "search") \/ At(q, "located")
    PROVE  LET j == [proc[q] EXCEPT !.offered = @ \ {x}]
           IN  /\ j \in Jobs /\ j.stage = proc[q].stage
               /\ j.offered = proc[q].offered \ {x}
               /\ At(q, "search") => j.next = proc[q].next
               /\ At(q, "located") => j.path = proc[q].path
<1> DEFINE j == [proc[q] EXCEPT !.offered = @ \ {x}]
<1>1. CASE At(q, "search")
  <2>1. proc[q] \in Searching /\ ~At(q, "located")
    BY <1>1, JobOf DEF At
  <2>2. /\ j \in Searching /\ j.stage = proc[q].stage /\ j.next = proc[q].next
        /\ j.offered = proc[q].offered \ {x}
    BY <2>1 DEF Searching
  <2> QED
    BY <2>1, <2>2 DEF Jobs
<1>2. CASE At(q, "located")
  <2>1. proc[q] \in Finding /\ ~At(q, "search")
    BY <1>2, JobOf DEF At
  <2>2. /\ j \in Finding /\ j.stage = proc[q].stage /\ j.path = proc[q].path
        /\ j.offered = proc[q].offered \ {x}
    BY <2>1 DEF Finding
  <2> QED
    BY <2>1, <2>2 DEF Jobs
<1> QED
  BY <1>1, <1>2

LEMMA RemoveKeeps ==
    ASSUME ConfigInv, NEW x \in Paths, Remove(x)
    PROVE  ConfigInv'
<1>1. Types /\ NoConfig \notin Texts /\ Absent \in Files
  BY ConfigAssumption DEF ConfigInv, Absent, Files, Texts
<1>2. /\ file' = [file EXCEPT ![x] = Absent] /\ kept' = [kept EXCEPT ![x] = NoConfig]
      /\ suspect' = suspect \ {x}
      /\ \A q \in Procs :
            proc'[q] = IF At(q, "search") \/ At(q, "located")
                       THEN [proc[q] EXCEPT !.offered = @ \ {x}]
                       ELSE Displaced(x)[q]
  BY DEF Remove
<1>3. ASSUME NEW q \in Procs
      PROVE  /\ proc'[q] \in Jobs
             /\ q \in Writers(x) => proc'[q].stage = "aside"
             /\ q \notin Writers(x) =>
                   \/ proc'[q] = Unaware(x)[q]
                   \/ (At(q, "search") \/ At(q, "located"))
                         /\ proc'[q].stage = proc[q].stage
  <2>1. CASE At(q, "search") \/ At(q, "located")
    <3>1. q \notin Writers(x)
      BY <2>1 DEF Writers, At
    <3> QED
      BY <1>1, <1>2, <2>1, <3>1, OfferShrinks
  <2>2. CASE ~(At(q, "search") \/ At(q, "located"))
    BY <1>1, <1>2, <2>2, DisplacedIs
  <2> QED
    BY <2>1, <2>2
<1>4. proc' \in [Procs -> Jobs]
  <2>1. proc' = [q \in Procs |-> proc'[q]]
    BY DEF Remove
  <2> QED
    BY <1>3, <2>1
<1>5. Types'
  BY <1>1, <1>2, <1>4 DEF Types
<1>6. /\ Writers(x)' = {}
      /\ \A q \in InUse' : proc'[q].path = x => proc'[q].edited
      /\ \A q \in Procs, y \in Paths \ {x} : Apart(q, y)
  BY <1>1, <1>3, OperatorLeaves, NobodyWrites
<1>7. FileOK(x)'
  <2>1. file'[x] = Absent /\ kept'[x] = NoConfig
    BY <1>1, <1>2 DEF Types
  <2> QED
    BY <1>6, <2>1 DEF FileOK, Absent
<1>8. ASSUME NEW y \in Paths \ {x}
      PROVE  FileOK(y)'
  <2>1. /\ file'[y] = file[y] /\ kept'[y] = kept[y]
        /\ y \in suspect' <=> y \in suspect
    BY <1>1, <1>2 DEF Types
  <2> QED
    BY <1>6, <2>1, Elsewhere DEF ConfigInv
<1>9. ASSUME NEW q \in Procs
      PROVE  ProcOK(q)'
  <2>1. ProcOK(q)
    BY DEF ConfigInv
  <2>2. CASE At(q, "search") \/ At(q, "located")
    <3>1. /\ proc'[q].stage = proc[q].stage
          /\ proc'[q].offered = proc[q].offered \ {x}
          /\ At(q, "search") => proc'[q].next = proc[q].next
          /\ At(q, "located") => proc'[q].path = proc[q].path
      BY <1>1, <1>2, <2>2, OfferShrinks
    <3>2. At(q, "search") => proc[q].offered \subseteq Paths
      BY <1>1, JobOf DEF Searching
    <3>3. \A y \in Paths \ {x} : file'[y] = file[y]
      BY <1>1, <1>2 DEF Types
    <3>4. (q \notin InUse)' /\ ~At(q, "serving")'
      BY <2>2, <3>1 DEF InUse, At
    <3>5. At(q, "search") =>
            /\ proc'[q].next <= Len(Places(q))
            /\ \A y \in proc'[q].offered : file'[y].there
            /\ \A i \in 1 .. proc'[q].next - 1 :
                  i <= Len(Candidates[q]) => Candidates[q][i] \notin proc'[q].offered
      BY <2>1, <3>1, <3>2, <3>3 DEF ProcOK, SearchOK
    <3>6. At(q, "located") => Nearest(q)'
      BY <2>1, <3>1 DEF ProcOK, SearchOK, Nearest
    <3> QED
      BY <3>1, <3>4, <3>5, <3>6 DEF ProcOK, SearchOK, At, Places
  <2>3. CASE ~(At(q, "search") \/ At(q, "located"))
    <3>1. CASE q \notin Writers(x)
      BY <1>1, <1>3, <2>1, <2>3, <3>1, UnawareStays
    <3>2. CASE q \in Writers(x)
      <4>1. proc'[q].stage = "aside"
        BY <1>3, <3>2
      <4> QED
        BY <4>1 DEF ProcOK, SearchOK, InUse, At
    <3> QED
      BY <3>1, <3>2
  <2> QED
    BY <2>2, <2>3
<1> QED
  BY <1>5, <1>7, <1>8, <1>9 DEF ConfigInv

-----------------------------------------------------------------------------
(* The theorems *)

LEMMA ConfigInductive ==
    ASSUME ConfigInv, [Next]_vars
    PROVE  ConfigInv'
<1>1. ASSUME NEW p \in Procs, Quiet(p)
      PROVE  ConfigInv'
  <2>1. Types /\ SearchOK(p)
    BY DEF ConfigInv, ProcOK
  <2> QED
    BY <1>1, <2>1, QuietIsPrivate, PrivateKeeps
<1>2. ASSUME NEW p \in Procs, Create(p) \/ Overwrite(p)
      PROVE  ConfigInv'
  <2>1. Types /\ Creates(p)
    BY <1>2 DEF ConfigInv, Create, Overwrite
  <2>2. proc[p].path \in Paths
    BY <2>1, OpenedIs
  <2>3. PICK x \in Paths : x = proc[p].path
    BY <2>2
  <2> QED
    BY <1>2, <2>3, CreateKeeps, OverwriteKeeps
<1>3. ASSUME NEW p \in Procs, Write(p) \/ WriteFails(p) \/ (Crash(p) /\ At(p, "open"))
      PROVE  ConfigInv'
  <2>1. Types /\ At(p, "open")
    BY <1>3 DEF ConfigInv, Write, WriteFails
  <2>2. proc[p].path \in Paths
    BY <2>1, JobOf DEF Creating
  <2>3. PICK x \in Paths : x = proc[p].path
    BY <2>2
  <2>4. CASE Write(p)
    BY <2>3, <2>4, WriteKeeps
  <2>5. CASE WriteFails(p) \/ (Crash(p) /\ At(p, "open"))
    <3>1. LeftBehind(p) /\ Exit(p) /\ kept' = kept
      BY <2>5 DEF WriteFails, Crash
    <3> QED
      BY <2>1, <2>3, <3>1, LeftBehindKeeps
  <2> QED
    BY <1>3, <2>4, <2>5
<1>4. ASSUME NEW x \in Paths, Remove(x) \/ \E c \in Edits[x] : Edit(x, c) \/ Replace(x, c)
      PROVE  ConfigInv'
  BY <1>4, RemoveKeeps, EditKeeps, ReplaceKeeps
<1>5. CASE UNCHANGED vars
  <2>1. /\ file' = file /\ proc' = proc /\ kept' = kept /\ suspect' = suspect
    BY <1>5 DEF vars
  <2>2. Types'
    BY <2>1 DEF ConfigInv, Types
  <2>3. \A x \in Paths : FileOK(x)'
    BY <2>1, Unmoved, Elsewhere DEF ConfigInv
  <2>4. ASSUME NEW q \in Procs
        PROVE  ProcOK(q)'
    <3>1. ProcOK(q)
      BY DEF ConfigInv
    <3>2. At(q, "search") => \A x \in proc[q].offered : file'[x].there
      BY <2>1, <3>1 DEF ProcOK, SearchOK
    <3> QED
      BY <2>1, <3>1, <3>2, ProcStays
  <2> QED
    BY <2>2, <2>3, <2>4 DEF ConfigInv
<1>6. CASE Next
  <2>1. \/ \E x \in Paths : Remove(x) \/ \E c \in Edits[x] : Edit(x, c) \/ Replace(x, c)
        \/ \E p \in Procs :
              \/ Begins(p) \/ Look(p) \/ ToLoad(p) \/ Stop(p)
              \/ Create(p) \/ Overwrite(p) \/ OpenFails(p) \/ Write(p) \/ WriteFails(p)
              \/ WriteAside(p)
              \/ Created(p) \/ ChmodFails(p)
              \/ Load(p) \/ LoadFails(p) \/ Use(p) \/ Serve(p) \/ ServeFails(p)
              \/ Crash(p)
    BY <1>6 DEF Next, Begins
  <2>2. ASSUME NEW p \in Procs,
              \/ Begins(p) \/ Look(p) \/ ToLoad(p) \/ Stop(p)
              \/ Create(p) \/ Overwrite(p) \/ OpenFails(p) \/ Write(p) \/ WriteFails(p)
              \/ WriteAside(p)
              \/ Created(p) \/ ChmodFails(p)
              \/ Load(p) \/ LoadFails(p) \/ Use(p) \/ Serve(p) \/ ServeFails(p)
              \/ Crash(p)
        PROVE  \/ Quiet(p) \/ Create(p) \/ Overwrite(p)
               \/ Write(p) \/ WriteFails(p) \/ (Crash(p) /\ At(p, "open"))
    BY <2>2 DEF Quiet, Ends
  <2> QED
    BY <1>1, <1>2, <1>3, <1>4, <2>1, <2>2
<1> QED
  BY <1>5, <1>6

LEMMA ConfigInitially ==
    ASSUME Init
    PROVE  ConfigInv
<1>1. Types
  BY DEF Init, Types, Jobs, Absent, Files
<1>2. \A p \in Procs : proc[p].stage = "idle"
  BY DEF Init, Idle
<1>3. \A x \in Paths : file[x] = Absent /\ kept[x] = NoConfig
  BY DEF Init
<1>4. InUse = {} /\ \A x \in Paths : Writers(x) = {}
  BY <1>2 DEF InUse, Writers, At
<1>5. ASSUME NEW x \in Paths PROVE FileOK(x)
  <2>1. Absent.there = FALSE
    BY DEF Absent
  <2>2. file[x] = Absent /\ kept[x] = NoConfig
    BY <1>3
  <2>3. file[x].there = FALSE
    BY <2>1, <2>2
  <2> QED
    BY <1>4, <2>2, <2>3 DEF FileOK
<1>6. \A p \in Procs : ProcOK(p)
  BY <1>2, <1>4 DEF ProcOK, SearchOK, At
<1> QED
  BY <1>1, <1>5, <1>6 DEF ConfigInv

LEMMA ConfigAlways == Spec => []ConfigInv
<1>1. ConfigInv /\ [Next]_vars => ConfigInv'
  BY ConfigInductive
<1> QED
  BY <1>1, ConfigInitially, PTL DEF Spec

\* Files, processes and bookkeeping keep their types, and every
\* configuration in use is one that Load accepts: no process runs with a text
\* that it read while another was writing it (internal/config, Load).
THEOREM TypeCorrect == Spec => []TypeOK
<1>1. ConfigInv => TypeOK
  <2> SUFFICES ASSUME ConfigInv PROVE TypeOK
    OBVIOUS
  <2>1. Types
    BY DEF ConfigInv
  <2>2. ASSUME NEW p \in Procs
        PROVE  proc[p].stage \in {"idle", "search", "located", "open", "aside",
                                  "written", "load", "loaded", "serving"}
    <3>1. proc[p] \in Jobs
      BY <2>1 DEF Types
    <3>2. /\ Idle.stage = "idle"
          /\ \A j \in Searching : j.stage = "search"
          /\ \A j \in Finding : j.stage = "located"
          /\ \A j \in Creating : j.stage \in {"open", "aside", "written"}
          /\ \A j \in Loading : j.stage = "load"
          /\ \A j \in Loaded : j.stage = "loaded"
          /\ \A j \in Serving : j.stage = "serving"
      BY DEF Idle, Searching, Finding, Creating, Loading, Loaded, Serving
    <3> QED
      BY <3>1, <3>2 DEF Jobs
  <2>3. \A p \in InUse : LET c == proc[p].config
                         IN  c # NoConfig /\ c.rules /\ ListenSecure(c)
    BY <2>1, InUseIs DEF ConfigInv, ProcOK
  <2> QED
    BY <2>1, <2>2, <2>3 DEF TypeOK, Types, Files, Texts
<1> QED
  BY <1>1, ConfigAlways, PTL

\* What an operator saved stays until somebody forces the file to be
\* overwritten, whichever starts had not seen the file when it was saved:
\* they create it exclusively (init.go, WriteDefault).  A save in place that
\* falls between the OpenFile and the Write of a start is excepted.
THEOREM SavedStays == Spec => []EditsSurvive
<1>1. ConfigInv => EditsSurvive
  BY DEF ConfigInv, FileOK, EditsSurvive
<1> QED
  BY <1>1, ConfigAlways, PTL

\* A process runs with what its file says until an operator changes it, also
\* when it read the file while another process was writing it (main.go,
\* loadConfig; internal/config, Load).
THEOREM RunsWithItsFile == Spec => []RunsAsWritten
<1>1. ConfigInv => RunsAsWritten
  BY InUseIs DEF ConfigInv, FileOK, RunsAsWritten
<1> QED
  BY <1>1, ConfigAlways, PTL

\* Beyond the loopback there is no admission without a token: Load refuses
\* such a configuration without one, and a server that cannot read its token
\* does not start (internal/config, validateListenSecurity; server.go,
\* withAuth).
THEOREM PublicIsClosed == Spec => []NoOpenPublicServer
<1>1. ConfigInv => NoOpenPublicServer
  <2> SUFFICES ASSUME ConfigInv, NEW p \in Procs, At(p, "serving"),
                      proc[p].config.listen = "public",
                      NEW route \in {"/healthz", "/v1/actions/decide"},
                      NEW bearer \in {"", "guess"}, Admits(p, route, bearer)
               PROVE  route = "/healthz"
    BY DEF NoOpenPublicServer
  <2>1. p \in InUse
    BY DEF InUse, At
  <2>2. ListenSecure(proc[p].config) /\ proc[p].token \in Tokens(proc[p].config)
    BY <2>1 DEF ConfigInv, ProcOK
  <2>3. proc[p].token = "token"
    BY <2>2 DEF ListenSecure, Tokens
  <2> QED
    BY <2>3 DEF Admits
<1> QED
  BY <1>1, ConfigAlways, PTL

\* A search that has ended found the nearest of the project files that were
\* there all along, though others came and went meanwhile (config_paths.go).
THEOREM NearestIsFound == Spec => []NearestConfigWins
<1>1. ConfigInv => NearestConfigWins
  BY DEF ConfigInv, ProcOK, SearchOK, Nearest, NearestConfigWins
<1> QED
  BY <1>1, ConfigAlways, PTL

\* A file without a text is being written, or has lost a writer, or has had
\* two at once, an editor counted: no other order of starts and forced
\* overwrites leaves one
\* (init.go, WriteDefault).
THEOREM DamageHasACause == Spec => []DamageExplained
<1>1. ConfigInv => DamageExplained
  BY DEF ConfigInv, FileOK, DamageExplained
<1> QED
  BY <1>1, ConfigAlways, PTL
=============================================================================
