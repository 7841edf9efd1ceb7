\* A FIM without a separate stream for reads.
SPECIFICATION Spec
CONSTANTS
    FIM_HAS_SEPARATE_READ_STREAM = FALSE
    WR_TIMEOUT = 2
    MAX_BEATS = 2
    NoTlp = NoTlp
INVARIANTS
    TypeOK
    OneWinner
    StreamsKeepTheirBeats
PROPERTIES
    PacketsStayWhole
