-------------------------- MODULE MCTerminalTools --------------------------
(***************************************************************************)
(* Model-checking instance of TerminalTools: three calls and three         *)
(* persistent terminal ids. Three calls are what a kill racing a command   *)
(* in the same terminal needs (one opens it, one runs in it, one kills     *)
(* it); as many ids as calls let every open find a fresh id while another  *)
(* call names one that does not exist.                                     *)
(***************************************************************************)
EXTENDS TerminalTools

CONSTANTS c1, c2, c3, t1, t2, t3

MCCalls == {c1, c2, c3}
MCIds == {t1, t2, t3}

\* One tool of each executor shape: a temporary command, a git tool, a
\* command in a persistent terminal, opening and killing one.
MCKinds == {"run_command", "git_status", "run_persistent_command",
            "open_persistent_terminal", "kill_persistent_terminal"}
====
