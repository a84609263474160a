\* run_command and git_status auto-approved: the note a timed-out wait
\* gives about a process that keeps running.
CONSTANTS
    c1 = c1
    c2 = c2
    c3 = c3
    t1 = t1
    t2 = t2
    t3 = t3
    Calls <- MCCalls
    Ids <- MCIds
    Kinds <- MCKinds
    AutoApprove = {"terminal"}
SPECIFICATION Spec
PROPERTY TimeoutNoteTruthful
CHECK_DEADLOCK FALSE
