SPECIFICATION Spec
CONSTANTS
    Proc = {p1, p2}
    A = A
    B = B
    A0 = A0
    A1 = A1
    A2 = A2
    B1 = B1
    AN = AN
    s = s
    n = n
    Thread = {A, B}
    Rollout = {A0, A2, B1, AN}
    ThreadOf <- MCThreadOf
    Plans <- TwoLineages
    InitialLive <- Homes
    Record = {s, n}
    NativeRecord = n
    MaxLen = 2
    MaxInterrupts = 0
    MaxFailures = 0
    None = None
INVARIANTS
    ConfirmedNeverPartial
