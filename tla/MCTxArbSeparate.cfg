\* A FIM with a separate stream for reads.
SPECIFICATION FairSpec
CONSTANTS
    FIM_HAS_SEPARATE_READ_STREAM = TRUE
    WR_TIMEOUT = 1
    MAX_BEATS = 2
    NoTlp = NoTlp
PROPERTIES
    WritesProceed
    MmioProceeds
