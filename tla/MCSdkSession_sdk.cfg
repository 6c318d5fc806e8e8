\* Two registrations, another request, two reports, one broken connection.
SPECIFICATION FairSpec
CONSTANTS
    Switches = {"mute"}
    DeviceSwitches = {"device_off"}
    Reports = {"registered", "incoming", "streaming"}
    MaxRegs = 2
    MaxRequests = 1
    MaxReports = 2
    MaxBreaks = 1
INVARIANTS
    TypeOK
    CommandsOnceInOrder
    AccountsMatch
    ViewIsLastWord
    CloseIsOnItsWay
PROPERTIES
    CloseEnds
CHECK_DEADLOCK FALSE
