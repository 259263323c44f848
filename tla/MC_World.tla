------------------------------- MODULE MC_World -------------------------------
(***************************************************************************)
(* Instances of World for TLC.  The stock is small enough for a sale to    *)
(* reach the floor at zero; the lifecycle, which takes four ticks, is      *)
(* looked at in the instances of Evaluation.                               *)
(***************************************************************************)
EXTENDS World

LowAndHigh == {"BRONZE", "GOLD"}
Once       == <<1>>
Twice      == <<0, 1>>
===============================================================================
