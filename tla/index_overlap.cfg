\* Two overlapping rebuildIndex() calls and one change to a file.
CONSTANTS
    R1 = R1  R2 = R2  f1 = f1  f2 = f2  f3 = f3  r1 = r1  r2 = r2  u1 = u1
    All = All  None = None
    Roots <- MCRoots
    Files <- MCFiles
    FileRoot <- MCFileRoot
    Rebuilders = {r1, r2}
    Updaters = {}
    MaxCalls = 1
    RootArgs = {All}
    MaxResults = 10
    MaxChanges = 1
SPECIFICATION Spec
INVARIANT CleanRebuildIsExact
CHECK_DEADLOCK FALSE
