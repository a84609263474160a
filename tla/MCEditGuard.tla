---------------------------- MODULE MCEditGuard ----------------------------
(***************************************************************************)
(* Model-checking instance of EditGuard: two calls, two files. Two calls   *)
(* are what a race between edits needs; two files let a rename touch a     *)
(* file other than its target and let calls on different files proceed.   *)
(***************************************************************************)
EXTENDS EditGuard, TLC

CONSTANTS c1, c2, u1, u2

MCCalls == {c1, c2}
MCUris == {u1, u2}

\* The mutating tools of the catalog, and one read-only tool of each
\* executor shape.
MCAllKinds == {"rewrite_file", "edit_file", "lsp_format",
               "lsp_organize_imports", "lsp_rename",
               "create_file_or_folder", "delete_file_or_folder",
               "move_file_or_folder", "copy_file_or_folder",
               "lsp_references", "project_symbols", "search_in_file",
               "read_lint_errors", "editor_close"}

\* Only the tools that check the stream state.
MCGuardedKinds == {"rewrite_file", "edit_file"}

\* Calls and files are interchangeable (safety runs only).
MCSymmetry == Permutations(MCCalls) \cup Permutations(MCUris)
====
