CONSTANTS
    t1 = t1  t2 = t2  t3 = t3
    server = server  cli = cli
    NoLine = NoLine
    Threads = {t1, t2, t3}
    Procs = {server, cli}
    ProcOf <- ServerAndCli
    Targets <- MCTargets
    Trimmed <- MCTrimmed
    Blank = ""
    Decoded <- MCDecoded
    Requests <- MCRequests
    MaxLines = 3
SYMMETRY Interchangeable
SPECIFICATION Spec
INVARIANTS
    TypeOK
    RevokedBlocks
    RestoreReleases
    NamelessNotBlocked
PROPERTY StaysClosed
