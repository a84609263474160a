\* rebuildIndex(R1) after rebuildIndex(): the entries of R2 are dropped.
CONSTANTS
    R1 = R1  R2 = R2  f1 = f1  f2 = f2  f3 = f3  r1 = r1  r2 = r2  u1 = u1
    All = All  None = None
    Roots <- MCRoots
    Files <- MCFiles
    FileRoot <- MCFileRoot
    Rebuilders = {r1}
    Updaters = {}
    MaxCalls = 2
    RootArgs = {All, R1}
    MaxResults = 10
    MaxChanges = 0
SPECIFICATION Spec
PROPERTY RebuildKeepsOtherRoots
CHECK_DEADLOCK FALSE
