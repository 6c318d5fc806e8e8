\* Three files, four changes of the media, calls of other accounts; the call
\* ends at any moment.  All comes to rest when it has ended, died or locked up.
SPECIFICATION FairSpec
CONSTANTS
    MaxFiles = 3
    MaxMedia = 4
CHECK_DEADLOCK FALSE
INVARIANT TypeOK
PROPERTIES
    NotCutOff
    EndOfFileIsTold
    CallbackEnds
