CONSTANTS
    t1 = t1  t2 = t2  server = server  r1 = r1
    NoLine = NoLine
    Unreadable = Unreadable
    NoApproval = NoApproval
    Threads = {t1, t2}
    Procs = {server}
    ProcOf <- OneServer
    ReceiptIds = {1, 2}
    ApprovalIds = {1, 2}
    RequestIds = {r1}
    Requests <- MCRequests
    Effect <- MCEffect
    LongReceipts = {}
    LongApprovals = {}
    Targets <- MCTargets
    Trimmed <- MCTrimmed
    Blank = ""
    Decoded <- MCDecoded
    MaxLines = 1
SPECIFICATION Spec
INVARIANTS
    TypeOK
    ReceiptCitesApproval
    RetriesShareApproval
PROPERTIES
    RevocationDecides
    CallsReturn
