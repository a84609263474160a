\* One caller making two rebuildIndex calls, of all folders or of R1, one
\* after the other, and an updateFileIndex call overlapping them, while
\* files are edited, deleted and created.
CONSTANTS
    R1 = R1  R2 = R2  f1 = f1  f2 = f2  f3 = f3  r1 = r1  r2 = r2  u1 = u1
    All = All  None = None
    Roots <- MCRoots
    Files <- MCFiles
    FileRoot <- MCFileRoot
    Rebuilders = {r1}
    Updaters = {u1}
    MaxCalls = 2
    RootArgs = {All, R1}
    MaxResults = 10
    MaxChanges = 2
SPECIFICATION Spec
INVARIANT TypeOK
INVARIANT IsolatedRebuildIsExact
PROPERTY RebuildsFinish
\* The calls are finite: once they have all returned and the files stop
\* changing, the system stops.
CHECK_DEADLOCK FALSE
