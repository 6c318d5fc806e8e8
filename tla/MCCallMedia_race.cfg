\* A documented promise the code does not keep: see MutedIsDisconnected.
SPECIFICATION Spec
CONSTANTS
    Devices = {microphone, speaker}
    Calls = {c1}
    NoCall = NoCall
    NoDevice = NoDevice
    MaxPlugs = 0
    MaxMedia = 1
SYMMETRY Symmetry
INVARIANT MutedIsDisconnected
