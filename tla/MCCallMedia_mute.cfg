\* Two calls one after the other, with up to three events in all: media found or
\* lost, or a sound device plugged in, pulled out or selected.
SPECIFICATION Spec
CONSTANTS
    Devices = {microphone, speaker}
    Calls = {c1, c2}
    NoCall = NoCall
    NoDevice = NoDevice
    MaxMedia = 3
    MaxPlugs = 2
SYMMETRY Symmetry
ACTION_CONSTRAINT FewEvents
INVARIANTS
    TypeOK
    CallFollowsAccount
    UnmutedIsConnected
    CallHasDevices
    ToldMediaIsTrue
