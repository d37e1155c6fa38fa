---------------------------- MODULE PackJudgement ----------------------------
(***************************************************************************)
(* What verify.Pack promises: one verdict, the one the pack deserves, and  *)
(* the exit code that goes with it -- unless the operating system refuses  *)
(* to open or read a file, which makes any pack "malformed".               *)
(***************************************************************************)
EXTENDS CompliancePack

VARIABLES pack, kek, strict, refused, verdict, exitCode

vars == <<pack, kek, strict, refused, verdict, exitCode>>

Init ==
    /\ pack \in Packs
    /\ kek \in Keks \union {Nil}
    /\ strict \in BOOLEAN
    /\ refused = FALSE
    /\ verdict = "none" /\ exitCode = 0

Judge ==
    /\ verdict = "none"
    /\ refused' \in BOOLEAN
    /\ verdict' = IF refused' THEN "malformed" ELSE Judgement(pack, kek, strict)
    /\ exitCode' = ExitCodeOf(verdict')
    /\ UNCHANGED <<pack, kek, strict>>

Spec == Init /\ [][Judge]_vars /\ WF_vars(Judge)
===============================================================================
