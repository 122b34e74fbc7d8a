CONSTANTS
    t1 = t1  t2 = t2  t3 = t3
    server = server  cli = cli
    r1 = r1  r2 = r2
    pay = pay  mail = mail  long = long
    NoLine = NoLine
    Unreadable = Unreadable
    Threads = {t1, t2}
    Procs = {server}
    ProcOf <- OneServer
    Ids = {1, 2}
    RequestIds = {r1, r2}
    Shapes = {pay, long}
    LongShapes = {long}
SPECIFICATION Spec
INVARIANTS
    TypeOK
    DecodingLogLoads
    OnePendingPerRequest
    OneVerdict
    AnswersStand
PROPERTIES
    ResolutionIsFinal
    ImplementsLifecycle
SYMMETRY Interchangeable
