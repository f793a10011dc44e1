SPECIFICATION Spec
CONSTANTS
    NFC_PAGE_SIZE = 16
    UserPages = 8
    Payloads <- MCPayloads
    Garbage = {0, 13, 240}
    MaxFaults = 1
CHECK_DEADLOCK FALSE
INVARIANTS
    TypeOK
    TagIsMessage
PROPERTIES
    AnnouncedKept
