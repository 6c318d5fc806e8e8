\* Liveness: one account, one call, two reports waiting, a client that may not read.
SPECIFICATION FairSpec
CONSTANTS
    Users = {u1}
    Calls = {c1}
    NoUser = NoUser
    NoCall = NoCall
    Player = Player
    CommandNames = {"registration", "disconnect", "call", "hangup", "destroy"}
    MaxCommands = 1
    MaxStates = 2
PROPERTIES
    HangupFreesAccount
    EndIsTold
ACTION_CONSTRAINT CommandsArriveInTime
