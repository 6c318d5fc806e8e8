\* One account, two calls after one another, batches of two commands.
SPECIFICATION Spec
CONSTANTS
    Users = {u1}
    Calls = {c1, c2}
    NoUser = NoUser
    NoCall = NoCall
    Player = Player
    CommandNames = {"registration", "disconnect", "call", "answer", "destroy"}
    MaxCommands = 2
    MaxStates = 1
SYMMETRY Symmetry
INVARIANTS
    TypeOK
    EraseFindsEndedCall
    FreeOnceDisconnectedIsTold
    OneCallInClientView
    OneRemovalEach
    EndIsOnItsWay
PROPERTIES
    ReportsInOrder
    SlotSpec
ACTION_CONSTRAINT CommandsArriveInTime
