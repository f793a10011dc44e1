SPECIFICATION Spec
CONSTANTS
    Bytes = {0, 2, 13, 90, 165}
    Sequences = {2}
    Statuses = {"report", "conf"}
    PayloadLen = 2
INVARIANTS
    TypeOK
    AcceptsAnswers
    RefusesOthers
