CONSTANTS
    N_ENTRIES = 2
    N_RESERVED = 1
    AfuTags = {a1, a2}
    MAX_PAYLOAD_LINES = 2
    LineCounts = {2}
    LEN_WRAP = 2
    NoReq = NoReq
    NoTlp = NoTlp
    NoBeat = NoBeat
    NoCpl = NoCpl
    NoRsp = NoRsp
SPECIFICATION FairSpec
PROPERTIES EveryReadIsAnswered
