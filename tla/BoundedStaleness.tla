--------------------------- MODULE BoundedStaleness ---------------------------
(***************************************************************************)
(* What a per-source serving store promises its readers, without saying    *)
(* how: every read answers from some prefix of the ingested log, and the   *)
(* choice of the prefix is bounded on three sides.                         *)
(*                                                                         *)
(*   not too new     every event of the prefix is at least Lag old;        *)
(*   not too old     an event that had arrived, and was Lag old, more than *)
(*                   Ttl ago is in the prefix, unless an earlier arrival   *)
(*                   holds it back;                                        *)
(*   never backwards two gets of one key never go back in the log, nor do  *)
(*                   two scans.                                            *)
(*                                                                         *)
(* ServingStore implements it when its clock does not step back.           *)
(***************************************************************************)
EXTENDS Integers, Sequences

CONSTANTS
  Keys,        \* the keys records are looked up by
  Event,       \* the events that may be ingested, records with a field at
  Lag,         \* replication_lag_ms
  Ttl,         \* cache_ttl_ms
  MaxClock     \* bound on the readers' clock

VARIABLES
  clock,       \* the readers' clock
  log,         \* the ingested events, in arrival order
  arrived,     \* arrived[i]: the clock when log[i] was ingested
  floor,       \* floor[k]: the prefix the last get of k answered from
  scanFloor,   \* the prefix the last scan answered from
  reply        \* the last answer: which prefix, for which key, at what time

vars == <<clock, log, arrived, floor, scanFloor, reply>>

\* Every event of the first n is at least Lag old at time t.
Visible(n, t) == \A i \in 1..n : log[i].at <= t - Lag

\* The i-th event and all before it had arrived before t and were Lag old at t.
Owed(i, t) == \A j \in 1..i : arrived[j] < t /\ log[j].at <= t - Lag

\* A prefix that answers a read at the present clock, with a copy of age up to ttl.
Answers(n, ttl) ==
  /\ Visible(n, clock)
  /\ \A i \in 1..Len(log) : Owed(i, clock - ttl) => i <= n

Init ==
  /\ clock = 0
  /\ log = <<>> /\ arrived = <<>>
  /\ floor = [k \in Keys |-> 0]
  /\ scanFloor = 0
  /\ reply = [op |-> "none", now |-> 0, asOf |-> 0]

Ingest ==
  \E e \in Event :
    /\ log' = Append(log, e)
    /\ arrived' = Append(arrived, clock)
    /\ UNCHANGED <<clock, floor, scanFloor, reply>>

AdvanceClock ==
  /\ \E t \in clock + 1 .. MaxClock : clock' = t
  /\ UNCHANGED <<log, arrived, floor, scanFloor, reply>>

Get(k) ==
  \E n \in floor[k] .. Len(log) :
    /\ Answers(n, Ttl)
    /\ floor' = [floor EXCEPT ![k] = n]
    /\ reply' = [op |-> "get", key |-> k, now |-> clock, asOf |-> n]
    /\ UNCHANGED <<clock, log, arrived, scanFloor>>

Scan ==
  \E n \in scanFloor .. Len(log) :
    /\ Answers(n, 0)
    /\ scanFloor' = n
    /\ reply' = [op |-> "view", now |-> clock, asOf |-> n]
    /\ UNCHANGED <<clock, log, arrived, floor>>

Next == Ingest \/ AdvanceClock \/ (\E k \in Keys : Get(k)) \/ Scan

Spec == Init /\ [][Next]_vars
===============================================================================
