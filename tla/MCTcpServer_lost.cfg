\* A documented promise the code does not keep: see OnlyLostClientsAreClosed.
SPECIFICATION Spec
CONSTANTS
    Conns = {c1, c2}
    Fds = {f1, f2}
    NoConn = NoConn
    Invalid = Invalid
    Backlog = 2
    MaxMessages = 1
PROPERTY OnlyLostClientsAreClosed
