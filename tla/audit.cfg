CONSTANTS
    t1 = t1  t2 = t2  t3 = t3
    server = server  cli = cli
    plain = plain  long = long  raw = raw  replaced = replaced
    NoLine = NoLine
    Unreadable = Unreadable
    Threads = {t1, t2, t3}
    Procs = {server}
    ProcOf <- OneServer
    Ids = {1, 2, 3, 4}
    Texts = {plain, long}
    LongTexts = {long}
    ReadBack <- SameText
SPECIFICATION Spec
INVARIANTS
    TypeOK
    ChainLinked
    DamageOnlyAtTail
    VerifyAcceptsOwn
    LossIsVisible
PROPERTY ImplementsChain
