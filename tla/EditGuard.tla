----------------------------- MODULE EditGuard -----------------------------
(***************************************************************************)
(* The file-mutating tool executors of ToolsService (toolsService.ts) and  *)
(* the stages around them: the approval gate that consults                 *)
(* approvalTypeOfBuiltinToolName, the "single-writer" stream check of      *)
(* rewrite_file / edit_file, the deferred lint read, the lsp_* tools that  *)
(* change files through providers, the file operations (create, delete,    *)
(* move, copy) and the stringification of the result; beside them the    *)
(* read-only executors (the lsp_* and project_symbols queries,             *)
(* search_in_file, read_lint_errors, the editor, workspace-summary and     *)
(* terminal focus/clear tools), which run under the same gate and          *)
(* interleave with the edits.                                              *)
(*                                                                         *)
(* Each tool call is an actor; every await of the executor is a step, so   *)
(* calls interleave with one another and with streaming edit sessions,     *)
(* which the chat / Ctrl-K apply flow opens and closes on a file (the      *)
(* stream state read through commandBarService.getStreamState).            *)
(* File contents are abstracted away: what a call changed is the set of    *)
(* files it wrote.                                                         *)
(***************************************************************************)
EXTENDS Naturals, FiniteSets

CONSTANTS
    Calls,        \* tool calls issued by agents (model values)
    Uris,         \* files (model values)
    Kinds,        \* the mutating tool names the agents may call
    AutoApprove   \* approval categories the user set to auto-approve

\* The mutating tools of the catalog and how their executors are shaped.
Guarded    == {"rewrite_file", "edit_file"}          \* check the stream state
SingleFile == {"lsp_format"}          \* pushEditOperations on the target's model
MultiFile  == {"lsp_rename", "lsp_organize_imports"}  \* bulkEditService.apply
FileOps    == {"create_file_or_folder", "delete_file_or_folder",
               "move_file_or_folder", "copy_file_or_folder"}
\* The read-only tools, by the shape of their executors.
ProviderQueries == {"lsp_symbols", "lsp_definitions", "lsp_references",
                    "lsp_hover", "lsp_code_actions"}  \* load the model, ask all providers
EditorTools  == {"editor_open", "editor_close", "editor_selection", "editor_scroll"}
SummaryTools == {"project_index", "project_dependencies"}
AllKinds   == Guarded \cup SingleFile \cup MultiFile \cup FileOps \cup
              ProviderQueries \cup EditorTools \cup SummaryTools \cup
              {"project_symbols", "search_in_file", "read_lint_errors",
               "terminal_focus", "terminal_clear"}

ASSUME Kinds \subseteq AllKinds /\ Kinds # {}
ASSUME AutoApprove \subseteq {"edits", "terminal", "MCP tools"}

ApprovalTypeEditsOnly(k) == IF k \in Guarded THEN "edits" ELSE "none"

\* approvalTypeOfBuiltinToolName: the edit tools and the file operations
\* are "edits"; the lsp_* tools have no category, so no gate asks for them.
ApprovalType(k) == IF k \in Guarded \cup FileOps THEN "edits" ELSE "none"

VARIABLES
    streamState,  \* streamState[u]: "idle" or "streaming"
    pc,           \* pc[c]: where call c is
    call,         \* call[c]: the validated call [kind, uri, target]
    consent,      \* consent[c]: the user, or auto-approval, allowed call c
    wrote,        \* wrote[c]: the files call c has changed so far
    reply         \* reply[c]: what the agent was told about call c

vars == <<streamState, pc, call, consent, wrote, reply>>

NoCall == [kind |-> "none", uri |-> "none", target |-> "none"]
PCs == {"idle", "approval", "started", "beforeApply", "lintWait",
        "provider", "returned"}
Replies == {"none", "result", "conflict", "error", "rejected"}

\* Calls that have passed the approval gate and are executing.
Executing == {"started", "beforeApply", "lintWait", "provider"}

\* The files a call names: move_file_or_folder changes its source and its
\* target, copy_file_or_folder its target, every other tool its uri.
Touched(c) ==
    CASE call[c].kind = "move_file_or_folder" -> {call[c].uri, call[c].target}
      [] call[c].kind = "copy_file_or_folder" -> {call[c].target}
      [] OTHER                                -> {call[c].uri}

TypeOK ==
    /\ streamState \in [Uris -> {"idle", "streaming"}]
    /\ pc \in [Calls -> PCs]
    /\ call \in [Calls -> [kind : AllKinds, uri : Uris, target : Uris] \cup {NoCall}]
    /\ consent \in [Calls -> BOOLEAN]
    /\ wrote \in [Calls -> SUBSET Uris]
    /\ reply \in [Calls -> Replies]
    /\ \A c \in Calls : call[c].kind \notin MultiFile => wrote[c] \subseteq Touched(c)

Init ==
    /\ streamState = [u \in Uris |-> "idle"]
    /\ pc = [c \in Calls |-> "idle"]
    /\ call = [c \in Calls |-> NoCall]
    /\ consent = [c \in Calls |-> FALSE]
    /\ wrote = [c \in Calls |-> {}]
    /\ reply = [c \in Calls |-> "none"]

(***************************************************************************)
(* The agent issues a validated call. A tool with an approval category     *)
(* that is not auto-approved waits for the user; every other tool runs at  *)
(* once, and its consent records whether the user allowed it.             *)
(***************************************************************************)
Issue(c) ==
    /\ pc[c] = "idle"
    /\ \E k \in Kinds, u \in Uris :
       \E t \in IF k \in {"move_file_or_folder", "copy_file_or_folder"} THEN Uris ELSE {u} :
         LET gated == ApprovalType(k) # "none" /\ ApprovalType(k) \notin AutoApprove
         IN /\ call' = [call EXCEPT ![c] = [kind |-> k, uri |-> u, target |-> t]]
            /\ pc' = [pc EXCEPT ![c] = IF gated THEN "approval" ELSE "started"]
            /\ consent' = [consent EXCEPT ![c] = ApprovalType(k) \in AutoApprove]
    /\ UNCHANGED <<streamState, wrote, reply>>

Approve(c) ==
    /\ pc[c] = "approval"
    /\ pc' = [pc EXCEPT ![c] = "started"]
    /\ consent' = [consent EXCEPT ![c] = TRUE]
    /\ UNCHANGED <<streamState, call, wrote, reply>>

Reject(c) ==
    /\ pc[c] = "approval"
    /\ pc' = [pc EXCEPT ![c] = "returned"]
    /\ reply' = [reply EXCEPT ![c] = "rejected"]
    /\ UNCHANGED <<streamState, call, consent, wrote>>

(***************************************************************************)
(* A streaming edit session opens or closes on a file. Nothing in the      *)
(* tools service drives it, so neither step is fair.                       *)
(***************************************************************************)
StreamStart(u) ==
    /\ streamState[u] = "idle"
    /\ streamState' = [streamState EXCEPT ![u] = "streaming"]
    /\ UNCHANGED <<pc, call, consent, wrote, reply>>

StreamEnd(u) ==
    /\ streamState[u] = "streaming"
    /\ streamState' = [streamState EXCEPT ![u] = "idle"]
    /\ UNCHANGED <<pc, call, consent, wrote, reply>>

(***************************************************************************)
(* rewrite_file / edit_file. After initializeModel resolves the executor   *)
(* reads the stream state once: a streaming file fails the call with the   *)
(* "Another LLM is currently making changes" error. Otherwise it awaits    *)
(* callBeforeApplyOrEdit and only then writes; nothing marks the file as   *)
(* being edited in between.                                                *)
(***************************************************************************)
CheckStreamWaits(c) ==
    /\ pc[c] = "started" /\ call[c].kind \in Guarded
    /\ streamState[call[c].uri] = "idle"
    /\ pc' = [pc EXCEPT ![c] = "beforeApply"]
    /\ UNCHANGED <<streamState, call, consent, wrote, reply>>

CheckStreamAfterWrite(c) ==
    /\ pc[c] = "started" /\ call[c].kind \in Guarded
    /\ wrote' = [wrote EXCEPT ![c] = @ \cup {call[c].uri}]
    /\ IF streamState[call[c].uri] = "streaming"
          THEN /\ pc' = [pc EXCEPT ![c] = "returned"]
               /\ reply' = [reply EXCEPT ![c] = "conflict"]
          ELSE /\ pc' = [pc EXCEPT ![c] = "lintWait"]
               /\ UNCHANGED reply
    /\ UNCHANGED <<streamState, call, consent>>

CheckStream(c) ==
    /\ pc[c] = "started" /\ call[c].kind \in Guarded
    /\ IF streamState[call[c].uri] = "streaming"
          THEN /\ pc' = [pc EXCEPT ![c] = "returned"]
               /\ reply' = [reply EXCEPT ![c] = "conflict"]
          ELSE /\ pc' = [pc EXCEPT ![c] = "beforeApply"]
               /\ UNCHANGED reply
    /\ UNCHANGED <<streamState, call, consent, wrote>>

\* callBeforeApplyOrEdit resolves; instantlyRewriteFile (or
\* instantlyApplySearchReplaceBlocks) changes the file at once, and the
\* executor returns a promise of the lint errors.
ApplyEdit(c) ==
    /\ pc[c] = "beforeApply"
    /\ wrote' = [wrote EXCEPT ![c] = @ \cup {call[c].uri}]
    /\ pc' = [pc EXCEPT ![c] = "lintWait"]
    /\ UNCHANGED <<streamState, call, consent, reply>>

\* The stringifiers of rewrite_file and edit_file read
\* this.voidSettingsService.state, but the service is injected as
\* prismSettingsService: the property read throws, and the pipeline
\* turns the throw into an error reply.
EditResultStringifies == FALSE

\* The 2 s timer fires, the lint errors are read, the caller stringifies
\* the awaited result and the agent gets its reply.
ReadLint(c) ==
    /\ pc[c] = "lintWait"
    /\ pc' = [pc EXCEPT ![c] = "returned"]
    /\ reply' = [reply EXCEPT ![c] = IF EditResultStringifies THEN "result" ELSE "error"]
    /\ UNCHANGED <<streamState, call, consent, wrote>>

(***************************************************************************)
(* lsp_format, lsp_organize_imports, lsp_rename and the provider queries:  *)
(* initializeModel and getModelSafe resolve; a file that no longer exists  *)
(* (removed outside the tool) has no model and the call throws "File does  *)
(* not exist". Otherwise the ordered providers are asked in turn: for an   *)
(* editing tool the first that answers has its edits applied, a query      *)
(* concatenates every provider's answer. No stream state is read.          *)
(***************************************************************************)
\* getModelSafe found no model: the executor throws.
ModelMissing(c) ==
    /\ pc' = [pc EXCEPT ![c] = "returned"]
    /\ reply' = [reply EXCEPT ![c] = "error"]

LoadModel(c) ==
    /\ pc[c] = "started" /\ call[c].kind \in SingleFile \cup MultiFile \cup ProviderQueries
    /\ \/ pc' = [pc EXCEPT ![c] = "provider"] /\ UNCHANGED reply
       \/ ModelMissing(c)
    /\ UNCHANGED <<streamState, call, consent, wrote>>

\* The files a provider's answer may change: none (no provider answered),
\* the target file for lsp_format, or any files of the workspace for the
\* WorkspaceEdit that lsp_rename and lsp_organize_imports apply.
EditTargetsAny(c) == SUBSET Uris

EditTargets(c) ==
    IF call[c].kind \in MultiFile THEN SUBSET Uris ELSE {{}, {call[c].uri}}

ProvideEdits(c) ==
    /\ pc[c] = "provider" /\ call[c].kind \in SingleFile \cup MultiFile
    /\ \E targets \in EditTargets(c) :
          wrote' = [wrote EXCEPT ![c] = @ \cup targets]
    /\ pc' = [pc EXCEPT ![c] = "returned"]
    /\ reply' = [reply EXCEPT ![c] = "result"]
    /\ UNCHANGED <<streamState, call, consent>>

\* lsp_symbols, lsp_definitions, lsp_references, lsp_hover, lsp_code_actions
\* and project_symbols: every provider is awaited in order and its answers
\* appended; the result lists them (possibly none).
ProvideResults(c) ==
    /\ pc[c] = "provider" /\ call[c].kind \in ProviderQueries \cup {"project_symbols"}
    /\ pc' = [pc EXCEPT ![c] = "returned"]
    /\ reply' = [reply EXCEPT ![c] = "result"]
    /\ UNCHANGED <<streamState, call, consent, wrote>>

\* project_symbols needs no model: it goes to the workspace symbol
\* providers at once.
WorkspaceSymbols(c) ==
    /\ pc[c] = "started" /\ call[c].kind = "project_symbols"
    /\ pc' = [pc EXCEPT ![c] = "provider"]
    /\ UNCHANGED <<streamState, call, consent, wrote, reply>>

\* search_in_file: after the model loads, the lines matching the query are
\* collected synchronously; a missing model throws.
SearchInFile(c) ==
    /\ pc[c] = "started" /\ call[c].kind = "search_in_file"
    /\ \/ /\ pc' = [pc EXCEPT ![c] = "returned"]
          /\ reply' = [reply EXCEPT ![c] = "result"]
       \/ ModelMissing(c)
    /\ UNCHANGED <<streamState, call, consent, wrote>>

\* read_lint_errors: a 1 s timer, then _getLintErrors reads the markers;
\* the stringifier lists them or says none were found.
ReadLintErrors(c) ==
    /\ pc[c] = "started" /\ call[c].kind = "read_lint_errors"
    /\ pc' = [pc EXCEPT ![c] = "returned"]
    /\ reply' = [reply EXCEPT ![c] = "result"]
    /\ UNCHANGED <<streamState, call, consent, wrote>>

\* editor_open/close/selection/scroll, project_index, project_dependencies:
\* one awaited call of the editor, search or file service (read errors of
\* the dependency files are swallowed, a missing editor is a no-op), then
\* a result. terminal_focus and terminal_clear return at once.
OneStepTool(c) ==
    /\ pc[c] = "started"
    /\ call[c].kind \in EditorTools \cup SummaryTools \cup {"terminal_focus", "terminal_clear"}
    /\ pc' = [pc EXCEPT ![c] = "returned"]
    /\ reply' = [reply EXCEPT ![c] = "result"]
    /\ UNCHANGED <<streamState, call, consent, wrote>>

(***************************************************************************)
(* create_file_or_folder, delete_file_or_folder, move_file_or_folder,      *)
(* copy_file_or_folder: one awaited fileService call, with no stream       *)
(* check. It resolves, having changed the files the call names, and the    *)
(* stringifier reports success; or it rejects (the file exists, is         *)
(* missing, ...) having changed nothing, and the agent gets the error.     *)
(***************************************************************************)
FileOp(c) ==
    /\ pc[c] = "started" /\ call[c].kind \in FileOps
    /\ \/ /\ wrote' = [wrote EXCEPT ![c] = @ \cup Touched(c)]
          /\ reply' = [reply EXCEPT ![c] = "result"]
       \/ /\ reply' = [reply EXCEPT ![c] = "error"]
          /\ UNCHANGED wrote
    /\ pc' = [pc EXCEPT ![c] = "returned"]
    /\ UNCHANGED <<streamState, call, consent>>

(***************************************************************************)
(* The specification.                                                      *)
(***************************************************************************)
Step(c) ==
    \/ CheckStream(c) \/ ApplyEdit(c) \/ ReadLint(c)
    \/ LoadModel(c) \/ ProvideEdits(c) \/ FileOp(c)
    \/ ProvideResults(c) \/ WorkspaceSymbols(c) \/ SearchInFile(c)
    \/ ReadLintErrors(c) \/ OneStepTool(c)

Next ==
    \/ \E c \in Calls : Issue(c) \/ Approve(c) \/ Reject(c) \/ Step(c)
    \/ \E u \in Uris : StreamStart(u) \/ StreamEnd(u)

\* Promises of the file, model and language services and the lint timer
\* resolve; the user and the streaming sessions owe nothing.
Fairness == \A c \in Calls : WF_vars(Step(c))

Spec == Init /\ [][Next]_vars /\ Fairness

(***************************************************************************)
(* Properties.                                                             *)
(***************************************************************************)

\* Every executing call eventually gets its reply, even when the file's
\* streaming session never ends: the stream check fails fast instead of
\* waiting (rewrite_file / edit_file, lines 630-632).
EveryCallAnswered ==
    \A c \in Calls : pc[c] \in Executing ~> pc[c] = "returned"

\* Spec 4.3 and 5, the single-writer guard: a tool changes a file only
\* while no other writer holds it, i.e. no streaming session is open on
\* it and no other call has passed its check on it and not yet written
\* (the check must be a check-and-set). rewrite_file / edit_file read the
\* stream state once, before the await of callBeforeApplyOrEdit, and mark
\* nothing.
SingleWriterPerFile ==
    [][\A c \in Calls : \A u \in wrote'[c] \ wrote[c] :
          /\ streamState[u] = "idle"
          /\ \A d \in Calls \ {c} : ~(pc[d] = "beforeApply" /\ call[d].uri = u)]_vars

\* Spec 4.2 and the tool catalog: a tool of the file-mutation group
\* changes files only after the user approved it or its approval category
\* (approvalTypeOfBuiltinToolName) is auto-approved.
FileMutationTools == {"create_file_or_folder", "delete_file_or_folder", "rewrite_file",
                      "edit_file", "move_file_or_folder", "copy_file_or_folder"}

FileMutationNeedsConsent ==
    \A c \in Calls : (call[c].kind \in FileMutationTools /\ wrote[c] # {}) => consent[c]

\* Spec 7: a failure reported to the agent means the call had no effect,
\* so the agent's retry does not apply the edit twice.
ErrorMeansNoEffect ==
    \A c \in Calls : reply[c] \in {"conflict", "error"} => wrote[c] = {}

(***************************************************************************)
(* Refinement: every call follows the lifecycle ToolCall promises. A call  *)
(* waiting at the gate is awaiting, an executing one running, a returned   *)
(* one answered; what it wrote is its effect, its reply its answer.        *)
(***************************************************************************)
Stage(c) ==
    CASE pc[c] = "idle"     -> "idle"
      [] pc[c] = "approval" -> "awaiting"
      [] pc[c] = "returned" -> "answered"
      [] OTHER              -> "running"

Abstract == INSTANCE ToolCall WITH
    stage <- [c \in Calls |-> Stage(c)],
    effect <- wrote,
    answer <- reply

\* Each tool call is requested, approved or denied, runs, changes files
\* only while it runs, is answered exactly once (a "conflict" only when it
\* changed nothing) and is always answered: the executors, the gate and
\* the stringifiers together implement ToolCall.
ImplementsToolCall == Abstract!Spec
====
