---------------------------- MODULE TerminalTools ----------------------------
(***************************************************************************)
(* The terminal-backed tool executors of ToolsService (run_command,        *)
(* run_persistent_command, open_persistent_terminal,                       *)
(* kill_persistent_terminal, and the git_* tools through runGit) with      *)
(* their stringifiers, and the terminal service they call.                 *)
(*                                                                         *)
(* The terminal service (terminalToolService) is not under src: its        *)
(* registry of persistent terminals and its bounded wait are taken from    *)
(* spec sections 4.2 and 5. A command starts a process in a fresh          *)
(* temporary terminal or in an open persistent one; the wait on it         *)
(* resolves "done" when the process exits, or "timeout" when its ceiling   *)
(* elapses, and a timeout does not kill the process. The interrupt handle  *)
(* the executors return cancels the caller's wait, not the process.        *)
(***************************************************************************)
EXTENDS Naturals, FiniteSets

CONSTANTS
    Calls,        \* tool calls issued by agents (model values)
    Ids,          \* persistent terminal ids (model values)
    Kinds,        \* the terminal tools the agents may call
    AutoApprove   \* approval categories the user set to auto-approve

\* Tools that run their command in a fresh temporary terminal: run_command
\* and every git_* tool (runGit).
TempKinds == {"run_command", "git_status", "git_diff", "git_commit", "git_branch",
              "git_push", "git_log", "git_rebase", "git_stash", "git_tag", "git_checkout"}
\* Tools whose argument is a persistent terminal id.
IdKinds == {"run_persistent_command", "kill_persistent_terminal"}
AllKinds == TempKinds \cup IdKinds \cup {"open_persistent_terminal"}

ASSUME Kinds \subseteq AllKinds /\ Kinds # {}
\* open_persistent_terminal always finds a fresh id.
ASSUME Cardinality(Ids) >= Cardinality(Calls)

ApprovalTypeGitUngated(k) == IF k \in TempKinds \ {"run_command"} THEN "none" ELSE "terminal"

\* approvalTypeOfBuiltinToolName: every terminal tool is "terminal".
ApprovalType(k) == "terminal"

VARIABLES
    pc,       \* pc[c]: where call c is
    call,     \* call[c]: the validated call [kind, id]
    consent,  \* consent[c]: the user, or auto-approval, allowed call c
    reg,      \* reg[i]: persistent terminal i is "open" or "absent"
    proc,     \* proc[c]: the process call c started [st, in]
    reply     \* reply[c]: what the agent was told about call c

vars == <<pc, call, consent, reg, proc, reply>>

NoCall == [kind |-> "none", id |-> "none"]
NoProc == [st |-> "none", in |-> "none"]
PCs == {"idle", "approval", "started", "waiting", "returned"}
\* exitCode: "<output>\n(exit code N)"; killedNote: "... was automatically
\* killed by Prism after ..."; runningNote: "Terminal command is running in
\* terminal <id>. ..."
Replies == {"none", "exitCode", "killedNote", "runningNote", "result", "error", "rejected",
            "interrupted"}

TypeOK ==
    /\ pc \in [Calls -> PCs]
    /\ call \in [Calls -> [kind : AllKinds, id : Ids \cup {"none"}] \cup {NoCall}]
    /\ consent \in [Calls -> BOOLEAN]
    /\ reg \in [Ids -> {"open", "absent"}]
    /\ proc \in [Calls -> [st : {"running", "exited", "killed"}, in : Ids \cup {"temp"}]
                          \cup {NoProc}]
    /\ reply \in [Calls -> Replies]
    /\ \A c \in Calls : proc[c] # NoProc =>
          (proc[c].in = "temp") = (call[c].kind \in TempKinds)

Init ==
    /\ pc = [c \in Calls |-> "idle"]
    /\ call = [c \in Calls |-> NoCall]
    /\ consent = [c \in Calls |-> FALSE]
    /\ reg = [i \in Ids |-> "absent"]
    /\ proc = [c \in Calls |-> NoProc]
    /\ reply = [c \in Calls |-> "none"]

(***************************************************************************)
(* The agent issues a validated call. A tool with an approval category     *)
(* that is not auto-approved waits for the user; every other tool runs at  *)
(* once, and its consent records whether the user allowed it.             *)
(***************************************************************************)
Issue(c) ==
    /\ pc[c] = "idle"
    /\ \E k \in Kinds, i \in Ids :
         /\ call' = [call EXCEPT ![c] = [kind |-> k, id |-> IF k \in IdKinds THEN i ELSE "none"]]
         /\ LET gated == ApprovalType(k) # "none" /\ ApprovalType(k) \notin AutoApprove
            IN pc' = [pc EXCEPT ![c] = IF gated THEN "approval" ELSE "started"]
         /\ consent' = [consent EXCEPT ![c] = ApprovalType(k) \in AutoApprove]
    /\ UNCHANGED <<reg, proc, reply>>

Approve(c) ==
    /\ pc[c] = "approval"
    /\ pc' = [pc EXCEPT ![c] = "started"]
    /\ consent' = [consent EXCEPT ![c] = TRUE]
    /\ UNCHANGED <<call, reg, proc, reply>>

Reject(c) ==
    /\ pc[c] = "approval"
    /\ pc' = [pc EXCEPT ![c] = "returned"]
    /\ reply' = [reply EXCEPT ![c] = "rejected"]
    /\ UNCHANGED <<call, consent, reg, proc>>

(***************************************************************************)
(* The executors. Each awaits one call of the terminal service.            *)
(***************************************************************************)
\* run_command and runGit: runCommand(command, {type: 'temporary',
\* terminalId: generateUuid()}) starts the process in a new terminal; the
\* executor returns the result promise, which the pipeline awaits.
RunTemporary(c) ==
    /\ pc[c] = "started" /\ call[c].kind \in TempKinds
    /\ proc' = [proc EXCEPT ![c] = [st |-> "running", in |-> "temp"]]
    /\ pc' = [pc EXCEPT ![c] = "waiting"]
    /\ UNCHANGED <<call, consent, reg, reply>>

RunPersistentTemp(c) ==
    /\ pc[c] = "started" /\ call[c].kind = "run_persistent_command"
    /\ proc' = [proc EXCEPT ![c] = [st |-> "running", in |-> "temp"]]
    /\ pc' = [pc EXCEPT ![c] = "waiting"]
    /\ UNCHANGED <<call, consent, reg, reply>>

\* run_persistent_command: runCommand(command, {type: 'persistent',
\* persistentTerminalId}); the service rejects an id it does not hold.
RunPersistent(c) ==
    /\ pc[c] = "started" /\ call[c].kind = "run_persistent_command"
    /\ IF reg[call[c].id] = "open"
          THEN /\ proc' = [proc EXCEPT ![c] = [st |-> "running", in |-> call[c].id]]
               /\ pc' = [pc EXCEPT ![c] = "waiting"]
               /\ UNCHANGED reply
          ELSE /\ pc' = [pc EXCEPT ![c] = "returned"]
               /\ reply' = [reply EXCEPT ![c] = "error"]
               /\ UNCHANGED proc
    /\ UNCHANGED <<call, consent, reg>>

\* open_persistent_terminal: createPersistentTerminal opens a terminal
\* under a new id, which the stringifier reports.
OpenTerminal(c) ==
    /\ pc[c] = "started" /\ call[c].kind = "open_persistent_terminal"
    /\ \E i \in Ids : reg[i] = "absent" /\ reg' = [reg EXCEPT ![i] = "open"]
    /\ pc' = [pc EXCEPT ![c] = "returned"]
    /\ reply' = [reply EXCEPT ![c] = "result"]
    /\ UNCHANGED <<call, consent, proc>>

\* kill_persistent_terminal: killPersistentTerminal ends the terminal and
\* the processes in it, or rejects an id it does not hold.
KillTerminal(c) ==
    /\ pc[c] = "started" /\ call[c].kind = "kill_persistent_terminal"
    /\ LET i == call[c].id IN
       IF reg[i] = "open"
          THEN /\ reg' = [reg EXCEPT ![i] = "absent"]
               /\ proc' = [d \in Calls |->
                             IF proc[d].in = i /\ proc[d].st = "running"
                             THEN [proc[d] EXCEPT !.st = "killed"] ELSE proc[d]]
               /\ reply' = [reply EXCEPT ![c] = "result"]
          ELSE /\ reply' = [reply EXCEPT ![c] = "error"]
               /\ UNCHANGED <<reg, proc>>
    /\ pc' = [pc EXCEPT ![c] = "returned"]
    /\ UNCHANGED <<call, consent>>

\* A process exits by itself; nothing obliges it to.
Exit(c) ==
    /\ proc[c].st = "running"
    /\ proc' = [proc EXCEPT ![c].st = "exited"]
    /\ UNCHANGED <<pc, call, consent, reg, reply>>

(***************************************************************************)
(* The bounded wait resolves and the stringifier renders the result:       *)
(* resolveReason 'done' as the output and its exit code; 'timeout' as the  *)
(* note of run_command / stringifyTerminalResult (a temporary terminal) or *)
(* of run_persistent_command. The process is left as it is.                *)
(***************************************************************************)
WaitDone(c) ==
    /\ pc[c] = "waiting" /\ proc[c].st \in {"exited", "killed"}
    /\ pc' = [pc EXCEPT ![c] = "returned"]
    /\ reply' = [reply EXCEPT ![c] = "exitCode"]
    /\ UNCHANGED <<call, consent, reg, proc>>

WaitTimeout(c) ==
    /\ pc[c] = "waiting" /\ proc[c].st = "running"
    /\ pc' = [pc EXCEPT ![c] = "returned"]
    /\ reply' = [reply EXCEPT ![c] =
                   IF proc[c].in = "temp" THEN "killedNote" ELSE "runningNote"]
    /\ UNCHANGED <<call, consent, reg, proc>>

\* The caller abandons a waiting call through the interruptTool handle the
\* executor returned: the wait is cancelled and the process left running
\* (spec 4.2, 5). Nothing obliges the caller to interrupt.
Interrupt(c) ==
    /\ pc[c] = "waiting"
    /\ pc' = [pc EXCEPT ![c] = "returned"]
    /\ reply' = [reply EXCEPT ![c] = "interrupted"]
    /\ UNCHANGED <<call, consent, reg, proc>>

(***************************************************************************)
(* The specification.                                                      *)
(***************************************************************************)
Step(c) ==
    \/ RunTemporary(c) \/ RunPersistent(c) \/ OpenTerminal(c) \/ KillTerminal(c)
    \/ WaitDone(c) \/ WaitTimeout(c)

Next ==
    \E c \in Calls : Issue(c) \/ Approve(c) \/ Reject(c) \/ Step(c) \/ Exit(c) \/ Interrupt(c)

Spec == Init /\ [][Next]_vars

(***************************************************************************)
(* Properties.                                                             *)
(***************************************************************************)

\* Spec 4.2 and the catalog's process-control and version-control groups:
\* a terminal tool starts a process, opens a terminal or kills one only
\* after the user approved it or its approval category
\* (approvalTypeOfBuiltinToolName) is auto-approved.
CommandsNeedConsent ==
    \A c \in Calls : (proc[c] # NoProc \/ reply[c] = "result") => consent[c]

\* Spec 4.2 and 4.4: the note given when a wait times out describes the
\* process as it is: "automatically killed" only for a killed process,
\* "is running" only for a running one.
TimeoutNoteTruthful ==
    [][\A c \in Calls :
         /\ reply'[c] = "killedNote" /\ reply[c] # "killedNote" => proc'[c].st = "killed"
         /\ reply'[c] = "runningNote" /\ reply[c] # "runningNote" => proc'[c].st = "running"]_vars

====
