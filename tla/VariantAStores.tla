----------------------------- MODULE VariantAStores -----------------------------
(***************************************************************************)
(* What the stores of VariantA hold, as stores of the module ServingStore: *)
(* a refinement mapping for each store of the bundle.                      *)
(***************************************************************************)
EXTENDS VariantA, Projectors

\* The answers of store s, which it gave to calls that were neither refused nor
\* failed, and those to get() of key k or to view().
Told(s) == SelectSeq(transcript, LAMBDA e : e.store = s /\ Answered(e))
ToldGet(s, k) == SelectSeq(Told(s), LAMBDA e : e.op = "get" /\ e.key = k)
ToldView(s) == SelectSeq(Told(s), LAMBDA e : e.op = "view")

LastAsOf(s, told) == IF told = <<>> THEN 0 ELSE Rank(s, told[Len(told)].asOf)

\* The topic of s as a ServingStore sees it.
Topic(s) == SelectSeq(stream, LAMBDA e : e.store = s)
Events(s) ==
  LET topic == Topic(s)
  IN [i \in DOMAIN topic |-> [key |-> topic[i].key, at |-> topic[i].at,
                              ver |-> topic[i].ver, no |-> i]]

\* What the projector of s should keep of the topic up to position p.
Made(s, p) ==
  [k \in Keys |-> Kept(ProjectorOf[s], SubSeq(Events(s), 1, Rank(s, p)), k)]

\* The last answer of s, and its value.
LastReply(s) ==
  LET told == Told(s)
      e == told[Len(told)]
  IN IF told = <<>> THEN [op |-> "none", now |-> 0, asOf |-> 0]
     ELSE IF e.op = "get"
          THEN [op |-> "get", key |-> e.key, now |-> e.now, asOf |-> Rank(s, e.asOf)]
          ELSE [op |-> "view", now |-> e.now, asOf |-> Rank(s, e.asOf)]

LastAnswer(s) ==
  LET told == Told(s)
      e == told[Len(told)]
  IN IF told = <<>> THEN <<>>
     ELSE IF e.op = "get" THEN Made(s, e.asOf)[e.key] ELSE Made(s, e.asOf)

Store(s) == INSTANCE ServingStore WITH
  Times              <- 0..MaxClock,
  Versions           <- 0..MaxFeeds,
  Projector          <- ProjectorOf[s],
  Lag                <- ReplicationLag(s),
  Ttl                <- CacheTtl(s),
  ClockMayStepBack   <- TRUE,
  MaxEvents          <- MaxFeeds,
  events             <- Events(s),
  lastAppliedIdx     <- Rank(s, applied[s]),
  lastVisibleAt      <- visibleAt[s],
  view               <- Made(s, applied[s]),
  cacheFirstServedAt <- cachedAt[s],
  cacheValue         <- [k \in Keys |-> Made(s, cachedAsOf[s][k])[k]],
  answer             <- LastAnswer(s),
  reply              <- LastReply(s),
  arrived            <- [i \in DOMAIN Topic(s) |-> Topic(s)[i].fedAt],
  servedAsOf         <- [k \in Keys |-> LastAsOf(s, ToldGet(s, k))],
  viewAsOf           <- LastAsOf(s, ToldView(s))

\* All that store s is mapped from but the clock.  A step that leaves it leaves the
\* store, but for a step of its clock.
Content(s) == <<Topic(s), Told(s), applied[s], visibleAt[s], cachedAt[s], cachedAsOf[s]>>

\* Behind its source server each store is a ServingStore: a read happens only in a
\* call that is answered, at the clock reading of the answer, and a call that is
\* refused or fails leaves every store as it was.
ImplementsStores ==
  /\ \A s \in Stores : Store(s)!Init
  /\ [][\A s \in Stores : \/ Content(s)' = Content(s) /\ clock' \in 0..MaxClock
                         \/ Store(s)!Next]_vars
===============================================================================
