CONSTANTS
    N_ENTRIES = 2
    N_RESERVED = 0
    AfuTags = {a1, a2}
    MAX_WAITING = 3
    NoReq = NoReq
    NoTlp = NoTlp
    NoRsp = NoRsp
    NoTag = NoTag
SYMMETRY AfuTagSymmetry
SPECIFICATION Spec
INVARIANTS TypeOK FenceTagsNameTheirFence OneAnswerUnderWay
PROPERTIES EachAnsweredOnce
