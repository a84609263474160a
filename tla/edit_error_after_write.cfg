\* rewrite_file / edit_file auto-approved: an error reply for a call
\* whose edit was applied.
CONSTANTS
    c1 = c1
    c2 = c2
    u1 = u1
    u2 = u2
    Calls <- MCCalls
    Uris <- MCUris
    Kinds <- MCGuardedKinds
    AutoApprove = {"edits"}
SPECIFICATION Spec
INVARIANT ErrorMeansNoEffect
