---------------------------- MODULE Observation ----------------------------
(***************************************************************************)
(* How a reading of the console becomes the state that Automations act on: *)
(* the poller (internal/controller/unifi_poller.go), the webhook receiver  *)
(* that may bring a poll forward (internal/providers/unifi/receiver.go)    *)
(* and the debouncing StateStore (internal/engine/state.go).               *)
(*                                                                         *)
(* Time passes in units.  The poller is one goroutine, so a poll and the   *)
(* store update it ends in are one step, and time does not pass while a    *)
(* poll is due.                                                            *)
(***************************************************************************)
EXTENDS Naturals

CONSTANTS
  Keys,                \* the state keys of the provider
  Values,              \* the values a key may be reported with
  Absent,              \* the key is not reported
  Samples,             \* samplesFor: observations a changed value must hold for
  Interval,            \* UniFiPoller.Interval
  MinObserveInterval,  \* UniFiPoller.MinObserveInterval
  Horizon              \* bound: the history variables stop counting here

Longest == IF MinObserveInterval > Interval THEN MinObserveInterval ELSE Interval
Shortest == IF MinObserveInterval < Interval THEN MinObserveInterval ELSE Interval

ASSUME ConstantsAssumption ==
  /\ Absent \notin Values
  /\ Samples \in [Keys -> Nat \ {0}]
  /\ Interval \in Nat \ {0}
  /\ MinObserveInterval \in Nat
  /\ Horizon \in Nat
  /\ \A k \in Keys : Horizon > Samples[k] * Longest

VARIABLES
  console,   \* what the console would report of each key now
  stable,    \* providerState.stable: the reported value of each key
  pending,   \* providerState.pending: the value proving itself, and its count
  slot,      \* Receiver.requests: a delivery is waiting
  phase,     \* the poller: starting, waiting for its ticker, or sleeping out the floor
  since,     \* time since the last poll
  cause,     \* history: what brought the last poll on
  streak,    \* history: per key, the equal readings up to now and since when
  steady,    \* history: for how long the console has not changed a key nor failed
  last       \* history: the last value reported of each key, gone or not

store   == <<stable, pending>>
history == <<cause, streak, steady, last>>
vars    == <<console, store, slot, phase, since, history>>

Reading == Values \cup {Absent}

NoCandidate == [value |-> Absent, count |-> 0]

TypeOK ==
  /\ console \in [Keys -> Reading]
  /\ stable \in [Keys -> Reading]
  /\ pending \in [Keys -> [value : Reading, count : Nat]]
  /\ slot \in BOOLEAN
  /\ phase \in {"starting", "waiting", "flooring"}
  /\ since \in IF phase = "waiting" THEN 0..Interval ELSE 0..Longest
  /\ cause \in {"start", "tick", "delivery"}
  /\ streak \in [Keys -> [value : Reading, n : 0..Horizon, age : 0..Horizon]]
  /\ steady \in [Keys -> 0..Horizon]
  /\ last \in [Keys -> Reading]

Nothing  == [k \in Keys |-> Absent]
NoStreak == [k \in Keys |-> [value |-> Absent, n |-> 0, age |-> 0]]

Init ==
  /\ console \in [Keys -> Reading]
  /\ stable = Nothing
  /\ pending = [k \in Keys |-> NoCandidate]
  /\ slot = FALSE
  /\ phase = "starting"
  /\ since = 0
  /\ cause = "start"
  /\ streak = NoStreak
  /\ steady = [k \in Keys |-> 0]
  /\ last = Nothing

Later(n) == IF n < Horizon THEN n + 1 ELSE n

-----------------------------------------------------------------------------
(* The store. *)

\* Some changed value is part-way through its threshold.
Proving == \E k \in Keys : pending[k] # NoCandidate

\* How many observations in a row back the value now read of k.
Backing(k) == IF pending[k].value = console[k] THEN pending[k].count + 1 ELSE 1

\* Wrong: one observation too few is asked for.
SettlesEarly(k) ==
  \/ console[k] = Absent
  \/ stable[k] = Absent
  \/ Backing(k) + 1 >= Samples[k]

\* Whether the value now read of k is reported at once: it vanished, was not
\* reported before, or has held for long enough.
Settles(k) ==
  \/ console[k] = Absent
  \/ stable[k] = Absent
  \/ Backing(k) >= Samples[k]

\* Wrong: the candidate of a key that vanished is kept.
ObserveLeavesCandidates ==
  /\ stable' = [k \in Keys |-> IF Settles(k) THEN console[k] ELSE stable[k]]
  /\ pending' = [k \in Keys |->
                   IF console[k] = Absent THEN pending[k]
                   ELSE IF Settles(k) \/ console[k] = stable[k] THEN NoCandidate
                   ELSE [value |-> console[k], count |-> Backing(k)]]

Observe ==
  /\ stable' = [k \in Keys |-> IF Settles(k) THEN console[k] ELSE stable[k]]
  /\ pending' = [k \in Keys |->
                   IF Settles(k) \/ console[k] = stable[k] THEN NoCandidate
                   ELSE [value |-> console[k], count |-> Backing(k)]]

-----------------------------------------------------------------------------
(* The poller. *)

TickerFired == phase = "waiting" /\ since = Interval

\* Wrong: a delivery is obeyed at once.
NoFloor == phase = "flooring"

\* The floor has been slept out since the last observation.
FloorPassed == phase = "flooring" /\ since >= MinObserveInterval

Due == phase = "starting" \/ TickerFired \/ FloorPassed

Cause ==
  CASE phase = "starting" -> "start" [] phase = "waiting" -> "tick" [] phase = "flooring" -> "delivery"

\* The ticker restarts from the observation just made, a tick that fired
\* meanwhile included.
Rest ==
  /\ phase' = "waiting"
  /\ since' = 0
  /\ cause' = Cause

Poll ==
  /\ Due
  /\ Observe
  /\ Rest
  /\ streak' = [k \in Keys |->
                  IF streak[k].n > 0 /\ streak[k].value = console[k]
                  THEN [streak[k] EXCEPT !.n = Later(@)]
                  ELSE [value |-> console[k], n |-> 1, age |-> 0]]
  /\ last' = [k \in Keys |-> IF stable'[k] = Absent THEN last[k] ELSE stable'[k]]
  /\ UNCHANGED <<console, slot, steady>>

\* The console does not answer: the store keeps what it has.
PollFails ==
  /\ Due
  /\ Rest
  /\ steady' = [k \in Keys |-> 0]
  /\ UNCHANGED <<console, store, slot, streak, last>>

\* Wrong: deliveries are obeyed while a value is proving itself.
TakeEveryDelivery ==
  /\ phase = "waiting"
  /\ slot
  /\ slot' = FALSE
  /\ phase' = "flooring"
  /\ UNCHANGED <<console, store, since, history>>

\* Wrong: a delivery that is ignored restarts the wait for the ticker.
TakeAndRestart ==
  /\ phase = "waiting"
  /\ slot
  /\ slot' = FALSE
  /\ phase' = IF Proving THEN "waiting" ELSE "flooring"
  /\ since' = IF Proving THEN 0 ELSE since
  /\ UNCHANGED <<console, store, history>>

\* A delivery brings the next poll forward, unless a value is proving itself.
TakeDelivery ==
  /\ phase = "waiting"
  /\ slot
  /\ slot' = FALSE
  /\ phase' = IF Proving THEN "waiting" ELSE "flooring"
  /\ UNCHANGED <<console, store, since, history>>

-----------------------------------------------------------------------------
(* The receiver, and the environment. *)

\* Deliveries coalesce in the receiver's single slot.
Deliver ==
  /\ slot' = TRUE
  /\ UNCHANGED <<console, store, phase, since, history>>

Change(k) ==
  /\ \E v \in Reading \ {console[k]} : console' = [console EXCEPT ![k] = v]
  /\ steady' = [steady EXCEPT ![k] = 0]
  /\ UNCHANGED <<store, slot, phase, since, cause, streak, last>>

TimePasses ==
  /\ ~Due
  /\ since' = since + 1
  /\ streak' = [k \in Keys |-> [streak[k] EXCEPT !.age = Later(@)]]
  /\ steady' = [k \in Keys |-> Later(steady[k])]
  /\ UNCHANGED <<console, store, slot, phase, cause, last>>

\* A manager that restarts has seen nothing: the store is in memory only.
Restart ==
  /\ stable' = Nothing
  /\ pending' = [k \in Keys |-> NoCandidate]
  /\ slot' = FALSE
  /\ phase' = "starting"
  /\ since' = 0
  /\ cause' = "start"
  /\ streak' = NoStreak
  /\ steady' = [k \in Keys |-> 0]
  /\ last' = Nothing
  /\ UNCHANGED console

Next ==
  \/ Poll \/ PollFails \/ TakeDelivery
  \/ Deliver \/ TimePasses \/ Restart
  \/ \E k \in Keys : Change(k)

Spec == Init /\ [][Next]_vars

-----------------------------------------------------------------------------
Changed(k) == stable[k] # Absent /\ stable'[k] \notin {Absent, stable[k]}

\* A reported value changes only after as many consecutive readings of the new
\* value as its key demands, spread over as many polling intervals as that
\* takes, whatever deliveries arrive, readings fail or values flap in between.
Debounced ==
  [][\A k \in Keys : Changed(k) =>
       /\ streak'[k].value = stable'[k]
       /\ streak'[k].n >= Samples[k]
       /\ streak'[k].age >= (Samples[k] - 1) * Interval]_vars

\* A delivery starts a debounce at most: the reading that promotes a debounced
\* value comes from the poll cadence (awaitNextObservation).
PromotedOnCadence ==
  [][\A k \in Keys : Samples[k] > 1 /\ Changed(k) => cause' = "tick"]_vars

\* The same of every value that differs from the one last reported, a key that
\* was away for a reading included.
DeliveriesNeverPromote ==
  [][\A k \in Keys :
       Samples[k] > 1 /\ last[k] # Absent /\ last'[k] # last[k] /\ last'[k] # Absent
       => cause' = "tick"]_vars

\* Only a reported key has a value proving itself, another one than reported
\* and short of its threshold: a candidate never outlives its key, which would
\* keep the deliveries shut out for ever.
CandidatesAreAlive ==
  \A k \in Keys : pending[k] # NoCandidate =>
    /\ stable[k] # Absent
    /\ pending[k].value \notin {Absent, stable[k]}
    /\ pending[k].count \in 1..(Samples[k] - 1)

\* A burst of deliveries never brings two polls closer than the floor.
Floored ==
  [][phase' = "waiting" /\ since' = 0 /\ since # 0 /\ cause' # "start"
     => since >= Shortest]_vars

\* A value that holds is reported within the poll interval times its samples
\* (docs: settling a noisy signal), however many deliveries are ignored or
\* obeyed meanwhile.
ReportedWithinBound ==
  \A k \in Keys : steady[k] > Samples[k] * Longest => stable[k] = console[k]

=============================================================================
