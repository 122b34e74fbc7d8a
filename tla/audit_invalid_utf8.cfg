CONSTANTS
    t1 = t1  t2 = t2  t3 = t3
    server = server  cli = cli
    plain = plain  long = long  raw = raw  replaced = replaced
    NoLine = NoLine
    Unreadable = Unreadable
    Threads = {t1}
    Procs = {server}
    ProcOf <- OneServer
    Ids = {1, 2, 3}
    Texts = {plain, raw, replaced}
    LongTexts = {}
    ReadBack <- Utf8Text
SPECIFICATION Spec
INVARIANT
    VerifyAcceptsOwn
