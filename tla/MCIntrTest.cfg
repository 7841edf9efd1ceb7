\* Three vectors, the test is run twice.
SPECIFICATION IntrSpec
CONSTANTS
    NumIntrIds = 3
    IdValues = 4
    MaxPolls = 2
    MaxTests = 2
INVARIANT VerdictIsTrue
