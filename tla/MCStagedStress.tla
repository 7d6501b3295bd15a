--------------------------- MODULE MCStagedStress ---------------------------
(***************************************************************************)
(* Small plans in which each mode meets its limits: a soak without a cap   *)
(* and one that uses it up, an interval that waits for its first future, a *)
(* batch whose last wave is smaller, a chaos that has no room for a spike  *)
(* and one that reaches max_total_requests, a ramp before and after other  *)
(* stages, and stages enough for two failures in a row.                    *)
(***************************************************************************)
EXTENDS StagedStress

Once == [mode |-> "burst", total |-> 1, workers |-> 1]
Burst == [mode |-> "burst", total |-> 2, workers |-> 1]
Interval == [mode |-> "interval", total |-> 5, workers |-> 1]
Batch == [mode |-> "batch", total |-> 3, size |-> 2, workers |-> 2]
Ramp == [mode |-> "ramp", start |-> 1, step |-> 1, max |-> 2, perWorker |-> 1]
Soak(cap) == [mode |-> "soak", workers |-> 2, cap |-> cap]
Chaos == [mode |-> "chaos", workers |-> 1, tps |-> 1, spike |-> 1, ticks |-> 2, spikes |-> 1, multiplier |-> 1]
Spikes == [mode |-> "chaos", workers |-> 1, tps |-> 2, spike |-> 2, ticks |-> 2, spikes |-> 1, multiplier |-> 2]

MCPlans ==
  {<<Burst, Soak(0)>>, <<Interval>>, <<Batch, Ramp>>, <<Soak(2)>>, <<Ramp, Chaos>>, <<Spikes>>, <<Once, Once, Once>>}

=============================================================================
