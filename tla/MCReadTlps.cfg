CONSTANTS
    N_ENTRIES = 3
    N_RESERVED = 1
    AfuTags = {a1, a2, a3}
    MAX_PAYLOAD_LINES = 4
    LineCounts = {1, 4}
    LEN_WRAP = 4
    NoReq = NoReq
    NoTlp = NoTlp
    NoBeat = NoBeat
    NoCpl = NoCpl
    NoRsp = NoRsp
SYMMETRY AfuTagSymmetry
SPECIFICATION Spec
INVARIANTS TypeOK TagsOutliveCompletions OneTagPerRead NoResponseBehindFence CountsStartFromZero
PROPERTIES LinesInOrder
