CONSTANTS
    p1 = p1  p2 = p2
    NoConfig = NoConfig
    Procs = {p1, p2}
    Paths = {"inner", "outer", "user"}
    Candidates <- MCCandidates
    UserPath = "user"
    Explicit = {"outer"}
    StateOf <- MCStateOf
    Edits <- MCEdits
    Size <- MCSize
SPECIFICATION Spec
INVARIANTS
    TypeOK
    RunsAsWritten
    EditsSurvive
    NoOpenPublicServer
    NearestConfigWins
    DamageExplained
