\* A documented promise the code does not keep: see CallFailureIsTold.
SPECIFICATION FairSpec
CONSTANTS
    Users = {u1}
    Calls = {c1}
    NoUser = NoUser
    NoCall = NoCall
    Player = Player
    CommandNames = {"registration", "call"}
    MaxCommands = 1
    MaxStates = 1
PROPERTY CallFailureIsTold
