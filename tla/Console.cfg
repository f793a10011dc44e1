SPECIFICATION Spec
CONSTANTS
    MAX_TOKEN_NUM = 3
    MAX_TOKEN_LEN = 4
    QueueLength = 3
    Letters = {"a", "b"}
    MaxTyped = 7
CHECK_DEADLOCK FALSE
INVARIANTS
    TypeOK
    TokensAreWords
PROPERTIES
    CommandAsTyped
