------------------------------ MODULE ToolCall ------------------------------
(***************************************************************************)
(* What the tool pipeline promises about one tool call, whatever its       *)
(* executor does (spec section 3: validate, approve, execute, stringify,   *)
(* reply). A call is requested; it waits for the user when its approval    *)
(* category is gated, and is then denied or runs; while it runs it may     *)
(* change files; it is answered exactly once, and once answered it         *)
(* changes nothing more. A "conflict" answer (the single-writer refusal)   *)
(* is given only by a call that changed nothing.                           *)
(***************************************************************************)

CONSTANTS Calls, Uris

Answers == {"result", "conflict", "error", "rejected"}

VARIABLES
    stage,   \* stage[c]: "idle", "awaiting" (the user), "running", "answered"
    effect,  \* effect[c]: the files call c has changed
    answer   \* answer[c]: the reply, "none" before it is answered

vars == <<stage, effect, answer>>

Init ==
    /\ stage = [c \in Calls |-> "idle"]
    /\ effect = [c \in Calls |-> {}]
    /\ answer = [c \in Calls |-> "none"]

Request(c) ==
    /\ stage[c] = "idle"
    /\ stage' \in {[stage EXCEPT ![c] = s] : s \in {"awaiting", "running"}}
    /\ UNCHANGED <<effect, answer>>

Grant(c) ==
    /\ stage[c] = "awaiting"
    /\ stage' = [stage EXCEPT ![c] = "running"]
    /\ UNCHANGED <<effect, answer>>

Deny(c) ==
    /\ stage[c] = "awaiting"
    /\ stage' = [stage EXCEPT ![c] = "answered"]
    /\ answer' = [answer EXCEPT ![c] = "rejected"]
    /\ UNCHANGED effect

Change(c) ==
    /\ stage[c] = "running"
    /\ \E U \in SUBSET Uris \ {{}} : effect' = [effect EXCEPT ![c] = @ \cup U]
    /\ UNCHANGED <<stage, answer>>

\* The answer may come with the call's last change, in one step.
Answer(c) ==
    /\ stage[c] = "running"
    /\ \E U \in SUBSET Uris, a \in Answers \ {"rejected"} :
          /\ effect' = [effect EXCEPT ![c] = @ \cup U]
          /\ a = "conflict" => effect'[c] = {}
          /\ answer' = [answer EXCEPT ![c] = a]
    /\ stage' = [stage EXCEPT ![c] = "answered"]

Next == \E c \in Calls : Request(c) \/ Grant(c) \/ Deny(c) \/ Change(c) \/ Answer(c)

\* A running call is answered: the pipeline never leaves one hanging.
Spec == Init /\ [][Next]_vars /\ \A c \in Calls : WF_vars(Answer(c))

====
