\* Two connections after one another, two commands on each.
SPECIFICATION FairSpec
CONSTANTS
    Conns = {c1, c2}
    Fds = {f1, f2}
    NoConn = NoConn
    Invalid = Invalid
    Backlog = 2
    MaxMessages = 2
INVARIANTS
    TypeOK
    AcceptFindsNoClient
    CommandsWholeAndInOrder
    OpenDescriptorsAreKnown
    StopLeavesNoWait
PROPERTIES
    WaitingClientIsServed
    StopEnds
    CommandsAreReceived
    SendReturns
