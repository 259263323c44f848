------------------------------ MODULE MC_Harness ------------------------------
(***************************************************************************)
(* Instances of Harness for TLC: three cells in two runs are enough for    *)
(* correct and failed rows of both variants in one file, for a degraded    *)
(* row beside a clean one, and for a file that is written twice.           *)
(***************************************************************************)
EXTENDS Harness
===============================================================================
