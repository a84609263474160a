---------------------------- MODULE MCSymbolIndex ----------------------------
(* Two workspace folders: R1 holds f1 and f2, R2 holds f3. *)
EXTENDS SymbolIndex, TLC

CONSTANTS R1, R2, f1, f2, f3, r1, r2, u1

MCRoots == {R1, R2}
MCFiles == {f1, f2, f3}
MCFileRoot == (f1 :> R1) @@ (f2 :> R1) @@ (f3 :> R2)
====
