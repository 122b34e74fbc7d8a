CONSTANTS
    h = h  c = c  server = server  command = command  r1 = r1  r2 = r2
    NoLine = NoLine
    Unreadable = Unreadable
    NoApproval = NoApproval
    Threads = {h, c}
    Procs = {server, command}
    ProcOf <- MCProcOf
    Server = server
    Operators = {c}
    ChildCodes = {0, 30}
    ReceiptIds = {1, 2}
    ApprovalIds = {1}
    RequestIds = {r1, r2}
    Requests <- MCRequests
    Effect <- MCEffect
    LongReceipts <- MCLong
    LongApprovals <- MCLong
    Targets <- MCTargets
    Trimmed <- MCTrimmed
    Blank = ""
    Decoded <- MCDecoded
    MaxLines = 1
SPECIFICATION CallersSpec
INVARIANTS
    CallersTypeOK
    NothingRunsUnrecorded
    RevokedNeverRuns
    RepliesHold
