------------------------------ MODULE Metrics -------------------------------
(***************************************************************************)
(* The metrics registry: counters and one histogram per tool, updated and  *)
(* read under one lock; and the gauge of the history's size, which the     *)
(* calls set after they have changed the history, each in its own time.    *)
(* The history outlives the process, the registry does not.                *)
(***************************************************************************)
EXTENDS Integers, Sequences, FiniteSets, FiniteSetsExt, Functions

CONSTANTS Callers, Tools, Outcomes, Bounds, Durations, Cap, MaxCalls, MaxRestarts

\* Times are whole, and the history's cap a number.
ASSUME MetricsAssumption ==
  /\ IsFiniteSet(Callers) /\ IsFiniteSet(Outcomes)
  /\ Durations \subseteq Int /\ Bounds \in Seq(Int) /\ Cap \in Nat

VARIABLES series, history, doing, ended, lengths, restarts

metricsVars == <<series, history, doing, ended, lengths, restarts>>

\* The upper bounds of the buckets, in their order; none holds what exceeds them all.
NoDurations == [buckets |-> [i \in DOMAIN Bounds |-> 0], sum |-> 0, count |-> 0]
Fresh == [calls |-> [k \in Tools \X Outcomes |-> 0],
          durations |-> [t \in Tools |-> NoDurations],
          rejected |-> [r \in {"auth", "rate_limit"} |-> 0], failures |-> 0,
          size |-> 0]
Resting == [pc |-> "idle", length |-> 0]

MetricsInit ==
  /\ series = Fresh /\ history = 0 /\ doing = [c \in Callers |-> Resting]
  /\ ended = [t \in Tools |-> 0] /\ lengths = {0} /\ restarts = 0

-----------------------------------------------------------------------------
(* Updates of the registry, each one critical section.                     *)

BucketOf(secs) == {i \in DOMAIN Bounds: secs <= Bounds[i]}
ObserveBounded(h, secs) ==
  IF BucketOf(secs) = {} THEN h
  ELSE [h EXCEPT !.sum = @ + secs, !.count = @ + 1, !.buckets[Min(BucketOf(secs))] = @ + 1]
Observe(h, secs) ==
  [h EXCEPT !.sum = @ + secs, !.count = @ + 1,
     !.buckets = [i \in DOMAIN @ |->
       IF BucketOf(secs) # {} /\ i = Min(BucketOf(secs)) THEN @[i] + 1 ELSE @[i]]]
\* A call is counted by its outcome and observed, together.
RecordCall(tool, secs, outcome) ==
  /\ series' = [series EXCEPT !.calls[<<tool, outcome>>] = @ + 1,
                  !.durations[tool] = Observe(@, secs)]
  /\ ended' = [ended EXCEPT ![tool] = @ + 1]
SetSize(n) == series' = [series EXCEPT !.size = n]

-----------------------------------------------------------------------------
(* The callers.                                                            *)

Goto(c, pc, length) == doing' = [doing EXCEPT ![c] = [pc |-> pc, length |-> length]]
Free(c) == doing[c].pc = "idle"
CallsSoFar ==
  SumFunction(ended) + series.rejected["auth"] + series.rejected["rate_limit"]

\* An invocation ends; a recordable one goes on to the history.
End(c, tool, secs, outcome) ==
  /\ Free(c) /\ CallsSoFar < MaxCalls /\ RecordCall(tool, secs, outcome)
  /\ \E next \in {"append", "idle"}: Goto(c, next, 0)
  /\ UNCHANGED <<history, lengths, restarts>>
\* The store takes the record, evicting at its cap; it may also fail to.
AppendRecord(c) ==
  /\ doing[c].pc = "append"
  /\ \/ /\ history' = IF history = Cap THEN Cap ELSE history + 1
        /\ lengths' = lengths \union {history'} /\ Goto(c, "measure", 0)
     \/ Goto(c, "idle", 0) /\ UNCHANGED <<history, lengths>>
  /\ UNCHANGED <<series, ended, restarts>>
\* The length is read under the store's lock and written under the registry's.
Measure(c) ==
  /\ doing[c].pc = "measure" /\ Goto(c, "gauge", history)
  /\ UNCHANGED <<series, history, ended, lengths, restarts>>
Gauge(c) ==
  /\ doing[c].pc = "gauge" /\ SetSize(doing[c].length) /\ Goto(c, "idle", 0)
  /\ UNCHANGED <<history, ended, lengths, restarts>>
\* clear_action_history; the gauge is set to 0 whatever was recorded meanwhile.
Clear(c) ==
  /\ Free(c) /\ history > 0
  /\ history' = 0 /\ Goto(c, "gauge", 0)
  /\ UNCHANGED <<series, ended, lengths, restarts>>

\* A refused credential counts twice, in two critical sections.
RejectAuth(c) ==
  /\ Free(c) /\ CallsSoFar < MaxCalls
  /\ series' = [series EXCEPT !.rejected["auth"] = @ + 1] /\ Goto(c, "refused", 0)
  /\ UNCHANGED <<history, ended, lengths, restarts>>
CountFailure(c) ==
  /\ doing[c].pc = "refused" /\ Goto(c, "idle", 0)
  /\ series' = [series EXCEPT !.failures = @ + 1]
  /\ UNCHANGED <<history, ended, lengths, restarts>>
RejectRate(c) ==
  /\ Free(c) /\ CallsSoFar < MaxCalls
  /\ series' = [series EXCEPT !.rejected["rate_limit"] = @ + 1]
  /\ UNCHANGED <<doing, history, ended, lengths, restarts>>

\* The process ends and another starts on the history that was kept.
Restart ==
  /\ restarts < MaxRestarts /\ restarts' = restarts + 1
  /\ series' = Fresh /\ doing' = [c \in Callers |-> Resting]
  /\ ended' = [t \in Tools |-> 0] /\ lengths' = {0}
  /\ UNCHANGED history

MetricsNext ==
  \/ \E c \in Callers:
       \/ \E t \in Tools, s \in Durations, o \in Outcomes: End(c, t, s, o)
       \/ AppendRecord(c) \/ Measure(c) \/ Gauge(c) \/ Clear(c)
       \/ RejectAuth(c) \/ CountFailure(c) \/ RejectRate(c)
  \/ Restart

MetricsSpec == MetricsInit /\ [][MetricsNext]_metricsVars

-----------------------------------------------------------------------------
(* The exposition: read under the lock, so that it is of one moment.       *)

Cumulative(h, i) == SumFunctionOnSet(h.buckets, 1..i)
Exposition(t) == [i \in DOMAIN Bounds |-> Cumulative(series.durations[t], i)]
Counted(t) == SumFunctionOnSet(series.calls, {t} \X Outcomes)

\* What is exposed agrees with itself and with what happened: the histogram of a tool
\* is cumulative and counts the calls its outcomes count, which are the calls that have
\* ended; refused credentials are the failures, but for those being counted; and the
\* history's gauge is a size the history had under this process.
MetricsTrue ==
  /\ \A t \in Tools:
       /\ Counted(t) = ended[t] /\ series.durations[t].count = ended[t]
       /\ \A i \in DOMAIN Bounds:
            /\ Exposition(t)[i] <= series.durations[t].count
            /\ i > 1 => Exposition(t)[i - 1] <= Exposition(t)[i]
  /\ series.rejected["auth"] - series.failures
       = Cardinality({c \in Callers: doing[c].pc = "refused"})
  /\ series.size \in lengths

\* docs/ARCHITECTURE.md:579: "Records retained in the encrypted action history".
SizeTold == (\A c \in Callers: Free(c)) => series.size = history
=============================================================================
