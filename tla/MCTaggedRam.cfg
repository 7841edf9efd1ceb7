CONSTANTS
    N_ENTRIES = 4
    N_RESERVED = 1
    Values = {v1, v2}
    NoValue = NoValue
SPECIFICATION FairSpec
INVARIANTS TypeOK UidsAreExclusive NoUidIsLost
PROPERTIES ReadsReturnWhatWasStored FreeUidIsOffered
