\* A documented promise the code does not keep: see MuteIsSent.
SPECIFICATION Spec
CONSTANTS
    Switches = {"mute speaker", "mute microphone"}
    DeviceSwitches = {"device_off"}
    Reports = {"registered", "calling"}
    MaxRegs = 1
    MaxRequests = 2
    MaxReports = 1
    MaxBreaks = 0
PROPERTIES
    MuteIsSent
CHECK_DEADLOCK FALSE
