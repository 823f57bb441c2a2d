SPECIFICATION MCSpec
CONSTANTS
    Null = Null
    Emails = {"e1", "e2"}
    LoginIDs = {"l1", "l2"}
    ExternalIDs = {"x1", "x2"}
    TeamIDs = {"t1", "t2", "t3"}
    TeamNames = {"n1", "n2"}
    Tokens = {"p1", "p2"}
    Accounts = {"a1", "a2"}
    Secrets = {"s1", "s2"}
    MaxCalls <- MCMaxCalls
CHECK_DEADLOCK FALSE
INVARIANTS  NothingDangles
PROPERTIES  RefusedLeavesNoTrace
