\* All mutating tools, edits approved by the user; the pass run.
CONSTANTS
    c1 = c1
    c2 = c2
    u1 = u1
    u2 = u2
    Calls <- MCCalls
    Uris <- MCUris
    Kinds <- MCAllKinds
    AutoApprove = {}
SPECIFICATION Spec
INVARIANT TypeOK
INVARIANT FileMutationNeedsConsent
PROPERTY EveryCallAnswered
PROPERTY ImplementsToolCall
