\* rewrite_file / edit_file auto-approved, streams opening and closing:
\* a tool write landing in a file being streamed.
CONSTANTS
    c1 = c1
    c2 = c2
    u1 = u1
    u2 = u2
    Calls <- MCCalls
    Uris <- MCUris
    Kinds <- MCGuardedKinds
    AutoApprove = {"edits"}
SPECIFICATION Spec
PROPERTY SingleWriterPerFile
