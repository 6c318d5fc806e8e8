\* Two accounts sharing the queues, single commands.
SPECIFICATION Spec
CONSTANTS
    Users = {u1, u2}
    Calls = {c1, c2}
    NoUser = NoUser
    NoCall = NoCall
    Player = Player
    CommandNames = {"registration", "call"}
    MaxCommands = 1
    MaxStates = 1
SYMMETRY Symmetry
INVARIANTS
    EraseFindsEndedCall
PROPERTY ReportsInOrder
ACTION_CONSTRAINT CommandsArriveInTime
