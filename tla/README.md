# TLA+ models of the Prism editor's agent tool pipeline

These modules model the tool pipeline of the Prism editor
(`src/src/vs/workbench/contrib/void/`) and the codebase symbol indexer beside it. TLC checks them.
Every definition is translated from the TypeScript source. A few definitions model collaborators that are not under `src/`. Each of those is marked `spec_modelled` in `PROJECT.json` and taken from `spec.md`.

## The system

`browser/toolsService.ts` (class `ToolsService`) is the core. For each of about 45 tool names it holds three stages:

- **`validateParams`** (lines 171-500) turns the raw JSON arguments an LLM produced into typed parameters. It uses the helpers at lines 38-133: `isFalsy`, `validateStr`, `validateURI`, `validatePageNum`, `validateNumber`, `validateBoolean` and others.
- **`callTool`** (lines 511-979) runs the tool against collaborators: the model service, the file service, the search engine, the language providers, the terminal service and the editor service.
  - `rewrite_file` and `edit_file` first check `commandBarService.getStreamState(uri)`. They then await `callBeforeApplyOrEdit`, write at once, and return a promise of the lint errors, read 2 s later.
  - `read_file`, `search_pathnames_only` and `search_for_files` paginate their results and report `hasNextPage`.
  - The `lsp_*` editing tools apply the first answering provider's edits.
- **`stringOfResult`** (lines 1005-1181) renders a result for the LLM. It appends `(more on next page...)` when there is more.

`common/toolsServiceTypes.ts` declares the result types. It also declares `approvalTypeOfBuiltinToolName`, the approval category of each tool. The approval gate that uses this table lives outside `src/`.

`common/codebaseIndexerService.ts` (`PrismCodebaseIndexerService`) keeps a map from file to parsed symbols:

- `rebuildIndex(root?)` clears the map. For each folder it awaits the folder listing (capped at 10000 files), then awaits `updateFileIndex` on each listed file. At the end it fires `onDidUpdateIndex`.
- `updateFileIndex` reads a file and sets its entry. It swallows read errors.
- `searchSymbols` and `getStats` only read the map.

The other sources hold constants and type declarations (`storageKeys.ts`, `actionIDs.ts`, `directoryStrTypes.ts`), the update service interface, and build scripts. None of them has behaviour to model.

### How the parts interact

The parts run concurrently, and that is where the hard cases are:

- Many tool calls run at once, one per agent request. Every `await` in an executor is a point where another call, a streaming edit session or a file change can run.
- Streaming sessions (chat apply, Ctrl-K) open and close on files independently of the tools.
- The indexer's calls are re-entrant. Nothing serialises two rebuilds, or a rebuild and an update.

## Modules

| module | models | state | actions |
|---|---|---|---|
| `ToolArgs` | `validateParams` and the validate helpers | the tool, its raw arguments, the validated result | `Validate` (one call through the validator), `Handoff` |
| `Pagination` | `read_file`, `search_pathnames_only`, `search_for_files` and their stringifiers | the full result, the page asked, what the agent has seen | `FetchPage` (the executor answers page n), `Done` |
| `ToolCall` | the abstract tool call (spec section 3) | per-call stage, the files changed, the answer | `Request`, `Grant`, `Deny`, `Change`, `Answer` |
| `EditGuard` | `rewrite_file`, `edit_file`, `create/delete/move/copy_file_or_folder`, `lsp_format`, `lsp_organize_imports`, `lsp_rename`, the approval gate, the streaming sessions, the edit stringifiers; the read-only executors (`lsp_*` queries, `project_symbols`, `search_in_file`, `read_lint_errors`, `editor_*`, `project_index`, `project_dependencies`, `terminal_focus/clear`) | per-call pc, call, consent, written files, reply; per-file stream state | `Issue`, `Approve`, `Reject`, `StreamStart`, `StreamEnd`, `CheckStream`, `ApplyEdit`, `ReadLint`, `LoadModel`, `ProvideEdits`, `FileOp`, `ProvideResults`, `WorkspaceSymbols`, `SearchInFile`, `ReadLintErrors`, `OneStepTool` |
| `SymbolIndex` | `rebuildIndex`, `updateFileIndex` | files on disk (exists, version), the index (version each entry was parsed from), per-call state of rebuilds and updates, the event count | `ChangeFile`, `RebuildStart`, `ListRoot`, `RbRead`, `RbSet`, `RebuildFinish`, `UpRead`, `UpSet` |
| `TerminalTools` | `run_command`, `run_persistent_command`, `open_persistent_terminal`, `kill_persistent_terminal`, `runGit` and the `git_*` tools, their stringifiers, and the terminal service they call | per-call pc, call (kind, terminal id), the process it started (state, terminal), reply; the registry of persistent terminals | `Issue`, `Approve`, `Reject`, `RunTemporary`, `RunPersistent`, `OpenTerminal`, `KillTerminal`, `Exit`, `WaitDone`, `WaitTimeout`, `Interrupt` |
| `SymbolParse` | `_parseSymbols`, `_parseTSJS`, `_parsePython`, `_createSymbol` | a file's extension and lines, the symbols parsed | `Parse`, `Done` |

Each `MC*` module supplies the model values. `PROJECT.json` maps every definition to the source lines it translates.

### How the modules abstract the code

- **ToolArgs.** A raw argument is a record tagged like a JSON value:
  - `Undef`, `JNull`, `Str(x)`, `Num(v, frac)` and `Bool(b)`;
  - `frac` marks a non-integral number;
  - JavaScript truthiness and `parseInt` are defined by what they do on those values.

  Each helper returns the set of its results, and the empty set stands for a throw. A tool's schema maps each parameter to the helper and post-processing its validator applies. Examples: read_file drops line numbers below 1; git_stash replaces an unknown subcommand by `push`.
- **Pagination.** Texts are sequences of letters and `NL` tokens. Search results are injective sequences of model values. The slice, `hasNextPage` and the line range are the code's arithmetic, in 1-based positions.
- **EditGuard.** File contents are abstracted to the set of files each call wrote. Each await of an executor is one step:
  1. `initializeModel` resolving, followed by the stream check;
  2. `callBeforeApplyOrEdit` resolving, followed by the write;
  3. the 2 s timer firing, followed by the lint read and the stringification.

  `lsp_format` pushes its provider's edits onto the target's own model (`SingleFile`). `lsp_rename` and `lsp_organize_imports` apply a provider's WorkspaceEdit through `bulkEditService`, which may change any file (`MultiFile`).

  The four file operations are one awaited file-service call each: it either changes the files the call names (`Touched`: the source and target of a move, the target of a copy, the uri otherwise) or throws.

  The read-only executors run under the same gate (they have no approval category) and interleave with the edits. A language query loads the model; a file that no longer exists has none, and the call throws (`ModelMissing`, shared with the lsp editing tools). It then asks every ordered provider and concatenates their answers (`ProvideResults`). `search_in_file` scans the model at once, `read_lint_errors` reads the markers after its 1 s timer, and the editor, summary and terminal focus/clear tools make one awaited call, or none, and return a result. The editor state they change and the contents of the answers are abstracted away.

  The stringifiers of `edit_file` and `rewrite_file` read `this.voidSettingsService`, but the injected field is `prismSettingsService` (line 163). The read throws, so `EditResultStringifies` is `FALSE` and the reply after a write is an error.
- **TerminalTools.** Command text, output and exit codes are abstracted away; a call is its tool kind and, for the persistent tools, a terminal id. The terminal service (`terminalToolService`) is not under `src/`: its registry of persistent terminals, its temporary terminals, its bounded wait and kill are taken from spec sections 4.2 and 5 (`spec_modelled`). A command starts a process in a fresh temporary terminal (`run_command`, `runGit`) or in an open persistent one; the wait resolves `done` once the process has exited or was killed, or `timeout` while it still runs, and a timeout does not kill it. The stringifier of the answer is part of the wait's step: output and exit code on `done`; on `timeout` the "was automatically killed" note for a temporary terminal (`run_command`, `stringifyTerminalResult`) and the "is running in terminal" note for a persistent one. The caller may abandon a waiting call through the `interruptTool` handle the executor returns (`Interrupt`): its wait ends and the process keeps running (spec 4.2, 5).
- **SymbolIndex.** A file's content is a version number, and the symbols parsed from it are a function of the version. `updateFileIndex`'s `await readFile` is split in two steps:
  1. the read, which takes the version on disk, or a throw if the file is missing;
  2. the continuation, which sets the entry.

  The order of the folders and of a listing is left open.

- **SymbolParse.** A line is a sequence of tokens: words, one blank, `=` and `(`. Words include every keyword and `subclass`, a word that ends in one. Each regex is evaluated by what it does on the tokens: an unanchored match may start inside a word that ends with the keyword, and `exec` takes the leftmost match. The character columns are the lengths of the tokens before the match. `_parseTSJS` takes the first regex of its else-if chain that matches, so a line gives at most one symbol.

### Refinement

`ToolCall` states what the pipeline promises of one call, whatever the executor: a gated call waits for the user and is then denied or runs; a running call may change files; it is answered exactly once, changes nothing after its answer, and answers "conflict" only if it changed nothing. `EditGuard` implements it under the mapping `Stage`: `idle` is idle, `approval` is awaiting, `returned` is answered, every executor step in between is running; the effect is `wrote` and the answer is `reply`. The run `edit_guard` checks `ImplementsToolCall == Abstract!Spec` as a property, fairness included.

`TerminalTools` is not checked against `ToolCall`. Under `src/` its executors only forward to the terminal service and return its result promise, so the lifecycle and the answer of a terminal call would hold by the spec-modelled service, whatever the code does.

## Runs

| run | cfg | expect | what it shows |
|---|---|---|---|
| tool_args | `ToolArgs.cfg` | pass | for all 44 tools and every combination of 7 URI raws and 13 value raws, URIs are parsed in dual mode (`UriDualMode`) and every falsy form of an optional parameter behaves as the omitted key (`FalsyFormsAbsent`) |
| pagination | `Pagination.cfg` | pass | following `hasNextPage` reassembles exactly the full result, never reaches an empty page, |
| edit_guard | `EditGuard.cfg` | pass | every tool of the module, two calls and two files: a file-mutation tool changes files only with the user's consent (`FileMutationNeedsConsent`), every executing call is answered even if a stream never ends, and the executors implement `ToolCall` |
| edit_stream_race | `edit_stream_race.cfg` | violation | `SingleWriterPerFile`: a write happens while a stream is open on the file, or while another call on the same file is between its stream check and its write; the check is not check-and-set (spec 4.3, 5) |
| edit_error_after_write | `edit_error_after_write.cfg` | violation | the edit is applied and the agent is told it failed |
| terminal_tools | `TerminalTools.cfg` | pass | three calls, three terminal ids, every terminal tool kind, nothing auto-approved, waits that may be interrupted: each executor starts its process in the terminal of its mode (`TypeOK`), and no command runs and no terminal is opened or killed without the user's consent (`CommandsNeedConsent`, the approval table for the terminal and git tools) |
| terminal_timeout_note | `terminal_timeout_note.cfg` | violation | `TimeoutNoteTruthful`: when the wait of `run_command` or a git tool times out, the agent is told the process was automatically killed while it keeps running (spec 4.2 and 4.4) |
| symbol_index | `SymbolIndex.cfg` | pass | a caller making full and one-folder rebuilds, and an `updateFileIndex` call, while files change: a full rebuild that ran alone after the last change leaves the index exact; every rebuild fires its event |
| symbol_parse | `symbol_parse.cfg` | pass | every one-line file of up to 5 tokens, every extension case: a plain declaration line is indexed with its name, kind and line; no line gives two symbols |
| symbol_range | `symbol_range.cfg` | violation | `_createSymbol`'s range starts at the keyword, not at the name |
| index_root_rebuild | `index_root_rebuild.cfg` | violation | `rebuildIndex(folder)` drops every other folder's entries |
| index_overlap | `index_overlap.cfg` | violation | two overlapping full rebuilds leave a deleted file's entry behind |

### Mutants

Each property of a passing run has a mutant in `PROJECT.json`. The mutant swaps a mapped definition for a plausible bug, and TLC finds the property violated. The mutants are:

- the stream check made to wait for the stream (liveness), or made after the write (breaks the refinement: a conflict reply after a change);
- `_parseSymbols` without `tsx`/`jsx`;
- the else-if chain of `_parseTSJS` as independent ifs (two symbols for one line, against the type invariant);
- a page sliced up to `toIdx`;
- `hasNextPage` computed with `>= 0`;
- a URI parse failure falling back to a path;
- `isFalsy` without `'undefined'`;
- a rebuild that does not clear the index;
- a read error that escapes `updateFileIndex`;
- `approvalTypeOfBuiltinToolName` giving the file operations no category (`ApprovalTypeEditsOnly`: only the two edit tools are gated), breaking `FileMutationNeedsConsent`;
- the git tools left out of the approval table (`ApprovalTypeGitUngated`), breaking `CommandsNeedConsent`.

The type invariants also state what shape each value must have, so each of them can be broken by a mutant too:

- `lsp_format` applying its edits beyond its own model (`EditTargetsAny`);
- a page sliced one item too wide;
- `validateNumber` passing a string on without `parseInt`;
- `onDidUpdateIndex` fired once per folder;
- `run_persistent_command` started in a temporary terminal (`RunPersistentTemp`).

### Bounds and why they suffice

- **ToolArgs.** The raw values include each form that a helper branches on:
  - undefined, null, the empty text, "null" and "undefined";
  - "true", "2" and "2.5";
  - the numbers 0, 0.5, 2 and 2.5 (0.5 is a line number below 1 that is not an integer);
  - both booleans;
  - a path, a folder path, a well-formed URI and a malformed one.
- **Pagination.** Page sizes of 2, files of up to 3 lines of up to 2 letters, and up to 3 matches. This reaches empty results, results of exactly one and two pages, a page ending on a line break, and reversed and out-of-range line ranges.
- **EditGuard.** Two calls and two files. This is enough for two calls on one file, a call on a streamed file, and a stream opening during an await. The pass run adds one read-only tool of each executor shape (`lsp_references`, `project_symbols`, `search_in_file`, `read_lint_errors`, `editor_close`); the other tools of a shape take the same steps.
- **SymbolIndex.** Two folders, holding two files and one file. Up to 2 file changes, 2 rebuild calls of either argument and one update. `MaxResults` is above the folder sizes, so exactness is checkable. The cap itself is listed as a hazard.

- **TerminalTools.** Three calls and three ids. A kill racing a run in the same terminal needs three calls (open, run, kill); a run on an id never opened, a second open and a kill of an absent terminal all occur too. Every executor kind is present once (one git tool stands for all, they share `runGit`).
- **SymbolParse.** Lines of up to 5 tokens over 7 words: enough for `const x = ...`, `const x =`, a keyword followed by a keyword (`class function x`), a keyword inside a word, and every extension in upper and lower case.

### Fairness

- **EditGuard.** Weak fairness on each call's executor steps. The promises of the model service, `callBeforeApplyOrEdit`, the providers and the 2 s timer resolve. The user (approval) and the streaming sessions get no fairness, because nothing obliges them to act.
- **SymbolIndex.** Weak fairness on a started rebuild's steps and on an update's continuation. The file service and the listing resolve. Nobody is obliged to call the service or to change files.
- **TerminalTools.** No fairness. Its run checks only safety: whether a terminal call is answered depends on the terminal service's bounded wait, which is not under `src/`.
- **Pagination.** Weak fairness on `FetchPage`: the agent keeps asking while `hasNextPage` holds.
- **ToolCall.** Weak fairness on `Answer`: the pipeline never leaves a running call without a reply. `EditGuard`'s fairness implies it.
- **ToolArgs, SymbolParse.** No fairness. It checks only safety.

Where the system may stop, the configs say `CHECK_DEADLOCK FALSE`: the indexer and terminal runs have a finite number of calls, and once all are answered nothing more happens.

## Not modelled, and why

- **The git command text.** The exact `git` argument strings are data; each git tool is one temporary command. The terminal service is modelled only as far as spec 4.2 and 5 describe it.
- **The editor state and the answers' contents of the read-only tools.** Open editors, selections and scroll positions, and what providers and searches answer, are not read by any property. Because contents are abstracted, the stale line texts `search_in_file`'s stringifier reads (line 1023) are a hazard without a property.
- **The lint list contents** (`_getLintErrors`, `stringifyLintErrors`). The marker store is outside `src/` and the filter has no state; its truncation and the settle delays are listed as hazards.
- **`validatePageNum` and the lsp approval category as runs.** An earlier version checked these as violations. `ToolArgs` still models `validatePageNum` exactly, and `EditGuard` still lets the `lsp_*` tools write unapproved; both are now listed as hazards, so the runs go to the executors' races.
- **`searchSymbols` and `getStats`.** They only read the map.
- **`_getLintErrors`' marker filter.**
- **Build scripts, constants and type declarations.**

## Where to go next

1. **File contents as versions in `EditGuard`.** Relate the deferred lint read and `search_in_file`'s stringifier to the version they report on (hazards at lines 637 and 1023). Both would be violations and need runs of their own.
2. **`updateFileIndex` on a deleted file** (indexer line 75) as a property of `SymbolIndex`, for the same reason a run of its own.
