------------------------------- MODULE MCInstall -------------------------------
(***************************************************************************)
(* Two releases, the second not published yet, and two keys.               *)
(***************************************************************************)
EXTENDS Install

CONSTANTS k1, k2
================================================================================
