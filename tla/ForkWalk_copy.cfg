SPECIFICATION WalkSpec
CONSTANTS
    NPDP = 3
    NPD = 2
    NPT = 2
    UXStack = 11
INVARIANTS CopiesAddressSpace
PROPERTIES Ends
