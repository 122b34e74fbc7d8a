CONSTANTS
    t1 = t1  t2 = t2  t3 = t3
    server = server  cli = cli
    plain = plain  long = long  raw = raw  replaced = replaced
    NoLine = NoLine
    Unreadable = Unreadable
    Threads = {t1, t2}
    Procs = {server, cli}
    ProcOf <- ServerAndCli
    Ids = {1, 2, 3}
    Texts = {plain, long}
    LongTexts = {long}
    ReadBack <- SameText
SPECIFICATION Spec
INVARIANT
    ChainLinked
