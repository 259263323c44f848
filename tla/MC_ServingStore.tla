---------------------------- MODULE MC_ServingStore ----------------------------
(***************************************************************************)
(* Instances of ServingStore for TLC.  Three events and times 0..1 are     *)
(* enough for a tie, for an event that arrives late, for one that holds    *)
(* back a later one, and for a cache entry to expire and be refreshed.  The*)
(* instance of records has two keys and runs past the time at which the    *)
(* last event becomes visible and a copy taken then expires; the instance  *)
(* of lists has one key, two versions and a clock that steps back.         *)
(***************************************************************************)
EXTENDS ServingStore

TimeLine == 0..1
NoVersions == {0}
TwoVersions == {1, 2}
===============================================================================
