\* Paging through every result of read_file and the two searches.
CONSTANTS
    m1 = m1
    m2 = m2
    m3 = m3
    Letters = {"a", "b"}
    MaxLines = 3
    MaxLineLen = 2
    FileCharsPage = 2
    UrisPage = 2
    Matches <- MCMatches
    Null = Null
SPECIFICATION Spec
INVARIANT TypeOK
INVARIANT PagesReassemble
INVARIANT NoEmptyNextPage
