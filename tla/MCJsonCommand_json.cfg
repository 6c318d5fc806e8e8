\* All short values in commands of one or two fields, and in states.
SPECIFICATION Spec
CONSTANTS
    Chars <- MCChars
    Keys <- MCKeys
    Command <- MCCommand
    Commands <- MCCommands
    States <- MCStates
INVARIANTS
    OneLine
    FieldsAsSent
    StateAsSent
CHECK_DEADLOCK FALSE
