----------------------------- MODULE Statistics -----------------------------
(***************************************************************************)
(* GatewayStats and MuxStats: handlers and workers Add samples to a        *)
(* bounded channel, Run applies them to the map of the current minute and  *)
(* then to the prometheus counters, a ticker publishes the map, the admin  *)
(* reads the published map and cleans the counters.  The entries of the    *)
(* maps are independent of each other, so one entry stands for all.  Stop  *)
(* is not here: the program never calls it.                                *)
(*                                                                         *)
(* A map is an object: Output hands out the published one by reference.    *)
(***************************************************************************)
EXTENDS Integers, Sequences, FiniteSets, FiniteSetsExt

CONSTANTS
  ChannelBuff,  \* capacity of itemChan
  Times,        \* durations of a consumption
  MaxAdds,      \* bound: calls of Add
  MaxTicks,     \* bound: minutes
  Cleaners      \* admin requests that clean the counters

\* A consumption takes time: the clock counts nanoseconds and SendJobs lies
\* between its two readings.  MinTime keeps 0 for "none yet", so a duration of 0
\* would be forgotten by the next sample.
ASSUME StatAssumption ==
  /\ ChannelBuff \in Nat
  /\ Times \subseteq Nat \ {0}
  /\ MaxAdds \in Nat
  /\ MaxTicks \in Nat

VARIABLES
  timed,     \* MuxStats (TRUE: with durations) or GatewayStats
  itemChan,
  map,       \* every map allocated so far
  cur, data, \* the objects s.cur and s.data
  hand,      \* what Run is counting in prometheus: the counter, and once it
             \* has the value, the value's epoch
  prom,      \* prometheus values of the entry; Absent when deleted
  cleaner,   \* where each CleanStatisticsAction is
  removed,   \* deletions that found the label, per cleaner
  added, dropped,  \* history: samples given to Add, and refused by it
  published, \* history: what the published map held when it was published
  wiped,     \* history: counts that went with a deleted value
  epoch      \* how often each value was deleted

statVars == <<timed, itemChan, map, cur, data, hand, prom, cleaner, removed,
          added, dropped, published, wiped, epoch>>

Absent == -1
Items == [ok : BOOLEAN, tc : IF timed THEN Times ELSE {0}]
Counters == {"success", "fail", "consumes"}
NewData == [success |-> 0, fail |-> 0, max |-> 0, min |-> 0, total |-> 0,
            seen |-> <<>>]      \* seen: history of the durations applied

StatInit ==
  /\ timed \in BOOLEAN
  /\ itemChan = <<>>
  /\ map = <<NewData, NewData>>
  /\ cur = 1
  /\ data = 2
  /\ hand = <<>>
  /\ prom = [k \in Counters |-> Absent]
  /\ cleaner = [c \in Cleaners |-> 0]
  /\ removed = [c \in Cleaners |-> 0]
  /\ added = 0
  /\ dropped = 0
  /\ published = NewData
  /\ wiped = [k \in Counters |-> 0]
  /\ epoch = [k \in Counters |-> 0]

-----------------------------------------------------------------------------
\* Add never blocks: a sample that finds the channel full is dropped.
Add(item) ==
  /\ added < MaxAdds
  /\ added' = added + 1
  /\ IF Len(itemChan) < ChannelBuff
     THEN itemChan' = Append(itemChan, item) /\ UNCHANGED dropped
     ELSE dropped' = dropped + 1 /\ UNCHANGED itemChan
  /\ UNCHANGED <<timed, map, cur, data, hand, prom, cleaner, removed, epoch,
                 published, wiped>>

\* The durations of MuxStatsData.  MinTime is only looked at when the sample is
\* not a new maximum.
Timed(d, tc) ==
  [d EXCEPT !.total = @ + tc,
            !.max = IF tc > d.max THEN tc ELSE @,
            !.min = IF tc <= d.max /\ (d.min = 0 \/ tc < d.min) THEN tc ELSE @,
            !.seen = Append(@, tc)]

Counted(d, item) ==
  IF item.ok THEN [d EXCEPT !.success = @ + 1] ELSE [d EXCEPT !.fail = @ + 1]

\* What addJobStats, or addQueueStats, will count: GatewayStats has no counter
\* for failures.
External(ok) ==
  IF ok THEN <<IF timed THEN "consumes" ELSE "success">>
  ELSE IF timed THEN <<"fail">> ELSE <<>>

\* Run, under the lock: the sample goes into the map of the current minute.
Apply ==
  LET item == Head(itemChan)
      d == Counted(map[cur], item)
  IN  /\ hand = <<>>
      /\ itemChan # <<>>
      /\ itemChan' = Tail(itemChan)
      /\ map' = [map EXCEPT ![cur] = IF timed THEN Timed(d, item.tc) ELSE d]
      /\ hand' = External(item.ok)
      /\ UNCHANGED <<timed, cur, data, prom, cleaner, removed, epoch,
                     added, dropped, published, wiped>>

\* WithLabelValues creates a value that is absent.
Bumped(p, k, by) == [p EXCEPT ![k] = IF @ = Absent THEN by ELSE @ + by]

\* addJobStats and addQueueStats, after the unlock: WithLabelValues finds or
\* creates the value ...
Fetch ==
  /\ Len(hand) = 1
  /\ hand' = Append(hand, epoch[hand[1]])
  /\ prom' = Bumped(prom, hand[1], 0)
  /\ UNCHANGED <<timed, itemChan, map, cur, data, cleaner, removed, epoch,
                 added, dropped, published, wiped>>

\* ... and counts in it, even when a clean has deleted it meanwhile.  A success
\* of MuxStats is observed before it is counted.
Count ==
  LET k == hand[1]
  IN  /\ Len(hand) = 2
      /\ hand' = IF k = "consumes" THEN <<"success">> ELSE <<>>
      /\ IF hand[2] = epoch[k]
         THEN prom' = Bumped(prom, k, 1) /\ UNCHANGED wiped
         ELSE wiped' = [wiped EXCEPT ![k] = @ + 1] /\ UNCHANGED prom
      /\ UNCHANGED <<timed, itemChan, map, cur, data, cleaner, removed, epoch,
                     added, dropped, published>>

\* Mutant of Tick: the published map stays the current one.
TickShared ==
  /\ Len(map) < MaxTicks + 2
  /\ data' = cur
  /\ map' = Append(map, NewData)
  /\ cur' = cur
  /\ published' = map[cur]
  /\ UNCHANGED <<timed, itemChan, hand, prom, cleaner, removed, epoch,
                 added, dropped, wiped>>

\* The ticker publishes the minute and starts another map.
Tick ==
  /\ Len(map) < MaxTicks + 2
  /\ data' = cur
  /\ map' = Append(map, NewData)
  /\ cur' = Len(map')
  /\ published' = map[cur]
  /\ UNCHANGED <<timed, itemChan, hand, prom, cleaner, removed, epoch,
                 added, dropped, wiped>>

\* CleanStatisticsAction: first every value is made to exist (the summary with
\* an observation of its own), then the three are deleted one by one.
CleanOrder == <<"consumes", "success", "fail", "fail", "success", "consumes">>

Clean(c) ==
  LET k == CleanOrder[cleaner[c] + 1]
  IN  /\ timed
      /\ cleaner[c] < 6
      /\ cleaner' = [cleaner EXCEPT ![c] = @ + 1]
      /\ IF cleaner[c] < 3
         THEN /\ prom' = Bumped(prom, k, IF k = "consumes" THEN 1 ELSE 0)
              /\ UNCHANGED <<removed, epoch, wiped>>
         ELSE /\ prom' = [prom EXCEPT ![k] = Absent]
              /\ epoch' = [epoch EXCEPT ![k] = @ + 1]
              /\ wiped' = [wiped EXCEPT ![k] =
                             IF prom[k] = Absent THEN @ ELSE @ + prom[k]]
              /\ removed' = [removed EXCEPT ![c] =
                               IF prom[k] = Absent THEN @ ELSE @ + 1]
      /\ UNCHANGED <<timed, itemChan, map, cur, data, hand,
                     added, dropped, published>>

StatNext ==
  \/ \E item \in Items : Add(item)
  \/ Apply
  \/ Fetch
  \/ Count
  \/ Tick
  \/ \E c \in Cleaners : Clean(c)

StatSpec == StatInit /\ [][StatNext]_statVars

-----------------------------------------------------------------------------
StatTypeOK ==
  /\ itemChan \in Seq(Items)
  /\ Len(itemChan) <= ChannelBuff
  /\ cur \in DOMAIN map
  /\ data \in DOMAIN map
  /\ hand # <<>> => hand[1] \in Counters
  /\ prom \in [Counters -> Nat \cup {Absent}]
  /\ cleaner \in [Cleaners -> 0 .. 6]
  /\ removed \in [Cleaners -> 0 .. 3]

Held(k) ==
  (IF prom[k] = Absent THEN 0 ELSE prom[k]) + wiped[k]
    + (IF hand # <<>> /\ (hand[1] = k \/ (k = "success" /\ hand[1] = "consumes"))
       THEN 1 ELSE 0)

Total(s) ==
  LET sum[i \in 0 .. Len(s)] == IF i = 0 THEN 0 ELSE sum[i - 1] + s[i]
  IN  sum[Len(s)]

Successes == Total([i \in DOMAIN map |-> map[i].success])
Failures == Total([i \in DOMAIN map |-> map[i].fail])

\* The durations that were not a new maximum when they were applied.
NotRecords(s) ==
  {s[i] : i \in {j \in DOMAIN s : \E k \in 1 .. j - 1 : s[k] >= s[j]}}

\* MaxTime and TotalTime are those of the samples; MinTime is the least of the
\* samples that were not a new maximum, 0 when there is none.
TimesExact(d) ==
  /\ d.max = Max(Range(d.seen) \cup {0})
  /\ d.total = Total(d.seen)
  /\ d.min = IF NotRecords(d.seen) = {} THEN 0 ELSE Min(NotRecords(d.seen))

\* No sample is lost or counted twice between Add and the readers, whatever the
\* order of the handlers, the ticker and the admin's cleaning: what Add
\* took is queued or in exactly one minute's map; a drop needs a backlog of
\* ChannelBuff; the prometheus counters agree with the maps up to the sample in
\* hand and what a clean deleted; and the map Output hands out never changes
\* after the ticker published it (mux_stats.go:59-130, gateway_stats.go:52-113).
SamplesAccounted ==
  /\ added = dropped + Len(itemChan) + Successes + Failures
  /\ dropped > 0 => added > ChannelBuff
  /\ Held("success") = Successes
  /\ Held("fail") = IF timed THEN Failures ELSE 0
  /\ map[data] = published
  /\ \A i \in DOMAIN map : TimesExact(map[i])
=============================================================================
