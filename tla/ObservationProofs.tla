------------------------- MODULE ObservationProofs -------------------------
(***************************************************************************)
(* Theorems about Observation, for any keys, values, sample counts and     *)
(* intervals.                                                              *)
(***************************************************************************)
EXTENDS Observation, TLAPS

\* The candidates are alive and none is proving itself while a delivery is
\* being obeyed: what makes the promotion of a value the ticker's alone.
Inv ==
  /\ CandidatesAreAlive
  /\ phase # "waiting" => ~Proving

\* Initially nothing is proving itself.
LEMMA InvInit == Init => Inv
BY DEF Init, Inv, CandidatesAreAlive, Proving

\* A value that is reported although the key was reported with another one
\* had a candidate behind it, unless one observation is enough for its key.
LEMMA PromotionHasACandidate ==
  ASSUME TypeOK, NEW k \in Keys, Samples[k] > 1, stable[k] # Absent, console[k] # Absent,
         Settles(k)
  PROVE  pending[k] # NoCandidate
<1>1. pending[k].count + 1 >= Samples[k] \/ 1 >= Samples[k]
  BY DEF Settles, Backing
<1>2. pending[k].count + 1 >= Samples[k]
  BY <1>1, ConstantsAssumption
<1>. QED  BY <1>2, ConstantsAssumption DEF NoCandidate, TypeOK

\* The store and the history of a manager that has just started.
LEMMA BlankTypes ==
  /\ Nothing \in [Keys -> Reading]
  /\ [k \in Keys |-> NoCandidate] \in [Keys -> [value : Reading, count : Nat]]
  /\ NoStreak \in [Keys -> [value : Reading, n : 0..Horizon, age : 0..Horizon]]
  /\ [k \in Keys |-> 0] \in [Keys -> 0..Horizon]
  /\ 0 \in 0..Longest
<1>1. NoCandidate \in [value : Reading, count : Nat]
  BY DEF NoCandidate, Reading
<1>2. 0 \in 0..Horizon /\ 0 \in 0..Longest
  BY ConstantsAssumption DEF Longest
<1>3. [value |-> Absent, n |-> 0, age |-> 0]
        \in [value : Reading, n : 0..Horizon, age : 0..Horizon]
  BY <1>2 DEF Reading
<1>. QED  BY <1>1, <1>2, <1>3 DEF Nothing, NoStreak, Reading

\* The initial states are well typed.
LEMMA TypeInit == Init => TypeOK
BY BlankTypes DEF Init, TypeOK

\* Counting stops at the horizon.
LEMMA LaterType == \A n \in 0..Horizon : Later(n) \in 0..Horizon
BY ConstantsAssumption DEF Later

\* Every step preserves the types.
LEMMA TypeStep == TypeOK /\ [Next]_vars => TypeOK'
<1>. SUFFICES ASSUME TypeOK, [Next]_vars PROVE TypeOK'
  OBVIOUS
<1>. USE DEF store, history
<1>0. Longest \in Nat /\ Interval <= Longest /\ MinObserveInterval <= Longest
  BY ConstantsAssumption DEF Longest
<1>a. ASSUME Rest PROVE /\ phase' = "waiting" /\ since' \in 0..Interval
                               /\ cause' \in {"start", "tick", "delivery"}
  BY <1>a, ConstantsAssumption DEF Rest, Cause, TypeOK
<1>1. CASE Poll
  <2>1. stable' \in [Keys -> Reading]
    BY <1>1 DEF Poll, Observe, TypeOK
  <2>2. pending' \in [Keys -> [value : Reading, count : Nat]]
    <3>1. \A k \in Keys : Backing(k) \in Nat
      BY DEF Backing, TypeOK
    <3>2. NoCandidate \in [value : Reading, count : Nat]
      BY DEF NoCandidate, Reading
    <3>. QED  BY <1>1, <3>1, <3>2 DEF Poll, Observe, TypeOK
  <2>3. streak' \in [Keys -> [value : Reading, n : 0..Horizon, age : 0..Horizon]]
    <3>1. 1 \in 0..Horizon \/ Keys = {}
      <4>1. ASSUME NEW k \in Keys PROVE 1 \in 0..Horizon
        <5>1. Samples[k] * Longest \in Nat
          BY <1>0, ConstantsAssumption
        <5>. QED  BY <5>1, ConstantsAssumption
      <4>. QED  BY <4>1
    <3>2. ASSUME NEW k \in Keys PROVE streak'[k] \in [value : Reading, n : 0..Horizon, age : 0..Horizon]
      <4>1. streak[k] \in [value : Reading, n : 0..Horizon, age : 0..Horizon]
        BY DEF TypeOK
      <4>2. [streak[k] EXCEPT !.n = Later(@)] \in [value : Reading, n : 0..Horizon, age : 0..Horizon]
        BY <4>1, LaterType
      <4>3. [value |-> console[k], n |-> 1, age |-> 0]
              \in [value : Reading, n : 0..Horizon, age : 0..Horizon]
        BY <3>1, ConstantsAssumption DEF TypeOK
      <4>. QED  BY <1>1, <4>2, <4>3 DEF Poll
    <3>. QED  BY <1>1, <3>2 DEF Poll
  <2>4. last' \in [Keys -> Reading]
    BY <1>1, <2>1 DEF Poll, TypeOK
  <2>. QED  BY <1>1, <1>a, <2>1, <2>2, <2>3, <2>4 DEF Poll, TypeOK
<1>2. CASE PollFails
  BY <1>2, <1>a, ConstantsAssumption DEF PollFails, TypeOK
<1>3. CASE TakeDelivery
  <2>1. since \in 0..Interval /\ since \in 0..Longest
    BY <1>0, <1>3, ConstantsAssumption DEF TakeDelivery, TypeOK
  <2>2. phase' \in {"waiting", "flooring"} /\ slot' \in BOOLEAN
    BY <1>3 DEF TakeDelivery
  <2>3. since' \in IF phase' = "waiting" THEN 0..Interval ELSE 0..Longest
    BY <1>3, <2>1 DEF TakeDelivery
  <2>4. UNCHANGED <<console, store, history>>
    BY <1>3 DEF TakeDelivery
  <2>. QED  BY <2>2, <2>3, <2>4 DEF TypeOK
<1>4. CASE Deliver
  BY <1>4 DEF Deliver, TypeOK
<1>5. CASE TimePasses
  <2>1. since' \in IF phase' = "waiting" THEN 0..Interval ELSE 0..Longest
    <3>1. CASE phase = "waiting"
      <4>1. since \in 0..Interval /\ since # Interval /\ since' = since + 1 /\ phase' = phase
        BY <1>5, <3>1 DEF TimePasses, Due, TickerFired, TypeOK
      <4>. QED  BY <3>1, <4>1, ConstantsAssumption
    <3>2. CASE phase = "flooring"
      <4>1. since \in 0..Longest /\ ~(since >= MinObserveInterval) /\ since' = since + 1
            /\ phase' = phase
        BY <1>5, <3>2 DEF TimePasses, Due, FloorPassed, TypeOK
      <4>. QED  BY <1>0, <3>2, <4>1, ConstantsAssumption
    <3>. QED  BY <1>5, <3>1, <3>2 DEF TimePasses, Due, TypeOK
  <2>2. streak' \in [Keys -> [value : Reading, n : 0..Horizon, age : 0..Horizon]]
    BY <1>5, LaterType DEF TimePasses, TypeOK
  <2>3. steady' \in [Keys -> 0..Horizon]
    BY <1>5, LaterType DEF TimePasses, TypeOK
  <2>. QED  BY <1>5, <2>1, <2>2, <2>3 DEF TimePasses, TypeOK
<1>6. CASE Restart
  BY <1>6, BlankTypes DEF Restart, TypeOK
<1>7. ASSUME NEW k \in Keys, Change(k) PROVE TypeOK'
  BY <1>7, ConstantsAssumption DEF Change, TypeOK
<1>8. CASE UNCHANGED vars
  BY <1>8 DEF vars, TypeOK
<1>. QED  BY <1>1, <1>2, <1>3, <1>4, <1>5, <1>6, <1>7, <1>8 DEF Next

\* Every step preserves the invariant.
LEMMA InvStep == TypeOK /\ Inv /\ [Next]_vars => Inv'
<1>. SUFFICES ASSUME TypeOK, Inv, [Next]_vars PROVE Inv'
  OBVIOUS
<1>. USE DEF store, history
<1>1. CASE Poll
  <2>1. ASSUME NEW k \in Keys, pending'[k] # NoCandidate
        PROVE  /\ stable'[k] # Absent
               /\ pending'[k].value \notin {Absent, stable'[k]}
               /\ pending'[k].count \in 1..(Samples[k] - 1)
    <3>1. ~Settles(k) /\ console[k] # stable[k] /\ stable'[k] = stable[k]
          /\ pending'[k] = [value |-> console[k], count |-> Backing(k)]
      BY <1>1, <2>1 DEF Poll, Observe
    <3>2. Backing(k) \in Nat \ {0} /\ Backing(k) < Samples[k]
      BY <3>1, ConstantsAssumption DEF Settles, Backing, TypeOK
    <3>. QED  BY <3>1, <3>2, ConstantsAssumption DEF Settles
  <2>. QED  BY <1>1, <2>1 DEF Poll, Rest, Inv, CandidatesAreAlive
<1>2. CASE PollFails
  BY <1>2 DEF PollFails, Rest, Inv, CandidatesAreAlive
<1>3. CASE TakeDelivery
  BY <1>3 DEF TakeDelivery, Inv, CandidatesAreAlive, Proving
<1>4. CASE Deliver \/ TimePasses \/ \E k \in Keys : Change(k)
  BY <1>4 DEF Deliver, TimePasses, Change, Inv, CandidatesAreAlive, Proving
<1>5. CASE Restart
  BY <1>5 DEF Restart, Inv, CandidatesAreAlive, Proving
<1>6. CASE UNCHANGED vars
  BY <1>6 DEF vars, Inv, CandidatesAreAlive, Proving
<1>. QED  BY <1>1, <1>2, <1>3, <1>4, <1>5, <1>6 DEF Next

\* Every reachable state is well typed and satisfies the invariant.
LEMMA Invariant == Spec => [](TypeOK /\ Inv)
<1>1. Init => TypeOK /\ Inv
  BY TypeInit, InvInit
<1>2. TypeOK /\ Inv /\ [Next]_vars => (TypeOK /\ Inv)'
  BY TypeStep, InvStep
<1>. QED  BY <1>1, <1>2, PTL DEF Spec

\* A candidate never outlives its key or its threshold.
THEOREM CandidatesStayAlive == Spec => []CandidatesAreAlive
<1>1. Inv => CandidatesAreAlive
  BY DEF Inv
<1>. QED  BY <1>1, Invariant, PTL

\* Whatever deliveries arrive, the reading that promotes a debounced value is
\* one the ticker brought.
THEOREM DeliveriesStartADebounceAtMost == Spec => PromotedOnCadence
<1>. DEFINE Cadence ==
       \A k \in Keys : Samples[k] > 1 /\ Changed(k) => cause' = "tick"
<1>1. TypeOK /\ Inv /\ [Next]_vars => [Cadence]_vars
  <2>. SUFFICES ASSUME TypeOK, Inv, Next, NEW k \in Keys, Samples[k] > 1, Changed(k)
                PROVE  cause' = "tick"
    OBVIOUS
  <2>. USE DEF store, history
  <2>1. stable'[k] # stable[k] /\ stable'[k] # Absent /\ stable[k] # Absent
    BY DEF Changed
  <2>2. Poll
    BY <2>1 DEF Next, PollFails, TakeDelivery, Deliver, TimePasses, Change, Restart, Nothing
  <2>3. Settles(k) /\ console[k] # Absent
    BY <2>1, <2>2 DEF Poll, Observe, TypeOK
  <2>4. Proving
    BY <2>1, <2>3, PromotionHasACandidate DEF Proving
  <2>. QED  BY <2>2, <2>4 DEF Inv, Poll, Rest, Cause
<1>. QED  BY <1>1, Invariant, PTL DEF Spec, PromotedOnCadence

\* The evidence behind a candidate: as many consecutive readings as it counts,
\* and an age that grows by a whole interval with each of them.
Evidence(k) ==
  pending[k] # NoCandidate =>
    /\ streak[k].value = pending[k].value
    /\ streak[k].n >= pending[k].count
    /\ \/ streak[k].age = Horizon
       \/ streak[k].age >= (pending[k].count - 1) * Interval + since

Backed == \A k \in Keys : Evidence(k)

\* Initially there is no candidate.
LEMMA BackedInit == Init => Backed
BY DEF Init, Backed, Evidence

\* Intervals add up, and never beyond the horizon.
LEMMA Spacing ==
  ASSUME NEW k \in Keys, NEW c \in Nat \ {0}, c < Samples[k]
  PROVE  /\ (c - 1) * Interval + Interval = c * Interval
         /\ c * Interval <= Horizon
         /\ c * Interval \in Nat /\ (c - 1) * Interval \in Nat
<1>1. Interval \in Nat \ {0} /\ Samples[k] \in Nat /\ Longest \in Nat /\ Interval <= Longest
  BY ConstantsAssumption DEF Longest
<1>2. Horizon \in Nat /\ Horizon > Samples[k] * Longest
  BY ConstantsAssumption
<1>3. c * Interval <= Samples[k] * Interval
  BY <1>1
<1>4. Samples[k] * Interval <= Samples[k] * Longest
  BY <1>1
<1>5. c * Interval \in Nat /\ (c - 1) * Interval \in Nat
  BY <1>1
<1>6. Samples[k] * Interval \in Nat /\ Samples[k] * Longest \in Nat
  BY <1>1
<1>7. (c - 1) * Interval + Interval = c * Interval
  BY <1>1
<1>. QED  BY <1>2, <1>3, <1>4, <1>5, <1>6, <1>7

\* A candidate is sampled by the ticker only.
LEMMA OnlyTicksSample ==
  ASSUME TypeOK, Inv, Due, NEW k \in Keys, pending[k] # NoCandidate
  PROVE  since = Interval
BY DEF Inv, Proving, Due, FloorPassed, TickerFired

\* Every step keeps the evidence behind the candidates.
LEMMA BackedStep == TypeOK /\ Inv /\ Backed /\ [Next]_vars => Backed'
<1>. SUFFICES ASSUME TypeOK, Inv, Backed, [Next]_vars, NEW k \in Keys, pending'[k] # NoCandidate
              PROVE  Evidence(k)'
  BY DEF Backed, Evidence
<1>. USE DEF store, history
<1>0. /\ Samples[k] \in Nat \ {0} /\ Interval \in Nat \ {0} /\ Horizon \in Nat
      /\ streak[k].n \in 0..Horizon /\ streak[k].age \in 0..Horizon
      /\ pending[k].count \in Nat /\ since \in Nat
  <2>1. Longest \in Nat
    BY ConstantsAssumption DEF Longest
  <2>. QED  BY <2>1, ConstantsAssumption DEF TypeOK
<1>1. CASE Poll
  <2>1. /\ ~Settles(k) /\ console[k] # Absent
        /\ pending'[k] = [value |-> console[k], count |-> Backing(k)]
    BY <1>1 DEF Poll, Observe, Settles
  <2>2. since' = 0
    BY <1>1 DEF Poll, Rest
  <2>3. Horizon >= 1
    <3>1. Longest \in Nat
      BY ConstantsAssumption DEF Longest
    <3>2. Samples[k] * Longest \in Nat /\ Samples[k] * Longest < Horizon
      BY <1>0, <3>1, ConstantsAssumption
    <3>. QED  BY <1>0, <3>2
  <2>4. CASE pending[k] # NoCandidate /\ pending[k].value = console[k]
    <3>1. /\ streak[k].value = console[k] /\ streak[k].n >= pending[k].count
          /\ pending[k].count \in 1..(Samples[k] - 1)
      BY <2>4 DEF Inv, CandidatesAreAlive, Backed, Evidence
    <3>2. since = Interval
      BY <1>1, <2>4, OnlyTicksSample DEF Poll
    <3>3. streak'[k] = [streak[k] EXCEPT !.n = Later(@)]
      BY <1>0, <1>1, <3>1 DEF Poll
    <3>4. streak'[k].value = console[k] /\ streak'[k].n = Later(streak[k].n)
          /\ streak'[k].age = streak[k].age
      BY <3>1, <3>3 DEF TypeOK
    <3>5. Backing(k) = pending[k].count + 1 /\ Backing(k) < Samples[k]
      BY <1>0, <2>1, <2>4 DEF Settles, Backing, TypeOK
    <3>6. Later(streak[k].n) >= pending[k].count + 1
      <4>1. pending[k].count + 1 <= Horizon
        <5>1. (pending[k].count + 1) * Interval <= Horizon
          BY <1>0, <3>5, Spacing
        <5>. QED  BY <1>0, <5>1
      <4>. QED  BY <1>0, <3>1, <4>1 DEF Later
    <3>7. streak[k].age = Horizon \/ streak[k].age >= pending[k].count * Interval
      <4>1. streak[k].age = Horizon
            \/ streak[k].age >= (pending[k].count - 1) * Interval + Interval
        BY <2>4, <3>2 DEF Backed, Evidence
      <4>2. (pending[k].count - 1) * Interval + Interval = pending[k].count * Interval
        BY <1>0, <3>1, Spacing
      <4>. QED  BY <4>1, <4>2
    <3>8. (Backing(k) - 1) * Interval + since' = pending[k].count * Interval
      BY <1>0, <2>2, <3>5
    <3>. QED  BY <2>1, <3>4, <3>5, <3>6, <3>7, <3>8 DEF Evidence
  <2>5. CASE ~(pending[k] # NoCandidate /\ pending[k].value = console[k])
    <3>1. Backing(k) = 1
      BY <2>1, <2>5 DEF Backing, NoCandidate
    <3>2. streak'[k].value = console[k] /\ streak'[k].n >= 1
      <4>1. streak'[k].value = console[k]
            /\ (streak'[k].n = 1 \/ (streak'[k].n = Later(streak[k].n) /\ streak[k].n > 0))
        BY <1>1 DEF Poll, TypeOK
      <4>. QED  BY <1>0, <4>1 DEF Later
    <3>3. streak'[k].age >= 0
      BY <1>0, <1>1 DEF Poll, TypeOK
    <3>4. (Backing(k) - 1) * Interval + since' = 0
      BY <1>0, <2>2, <3>1
    <3>. QED  BY <2>1, <3>1, <3>2, <3>3, <3>4 DEF Evidence
  <2>. QED  BY <2>4, <2>5
<1>2. CASE PollFails
  <2>1. pending' = pending /\ streak' = streak /\ since' = 0
    BY <1>2 DEF PollFails, Rest
  <2>2. (pending[k].count - 1) * Interval + since >= (pending[k].count - 1) * Interval
    BY <1>0
  <2>. QED  BY <1>0, <2>1, <2>2 DEF Backed, Evidence
<1>3. CASE TimePasses
  <2>1. pending' = pending /\ since' = since + 1
        /\ streak'[k] = [streak[k] EXCEPT !.age = Later(@)]
    BY <1>3 DEF TimePasses
  <2>2. streak'[k].value = streak[k].value /\ streak'[k].n = streak[k].n
        /\ streak'[k].age = Later(streak[k].age)
    BY <2>1 DEF TypeOK
  <2>3. streak[k].age = Horizon
        \/ streak[k].age >= (pending[k].count - 1) * Interval + since
    BY <2>1 DEF Backed, Evidence
  <2>4. (pending[k].count - 1) * Interval \in Nat
    <3>1. pending[k].count \in 1..(Samples[k] - 1)
      BY <2>1 DEF Inv, CandidatesAreAlive
    <3>. QED  BY <1>0, <3>1, Spacing
  <2>5. Later(streak[k].age) = Horizon
        \/ Later(streak[k].age) >= (pending[k].count - 1) * Interval + since'
    BY <1>0, <2>1, <2>3, <2>4 DEF Later
  <2>. QED  BY <2>1, <2>2, <2>5 DEF Backed, Evidence
<1>4. CASE TakeDelivery \/ Deliver \/ (\E l \in Keys : Change(l)) \/ UNCHANGED vars
  BY <1>4 DEF TakeDelivery, Deliver, Change, vars, Backed, Evidence
<1>5. CASE Restart
  BY <1>5 DEF Restart
<1>. QED  BY <1>1, <1>2, <1>3, <1>4, <1>5 DEF Next

\* A reported value changes only on as many consecutive readings as its key
\* demands, as many polling intervals apart as that takes.
THEOREM ChangesAreDebounced == Spec => Debounced
<1>. DEFINE Proved ==
       \A k \in Keys : Changed(k) =>
         /\ streak'[k].value = stable'[k]
         /\ streak'[k].n >= Samples[k]
         /\ streak'[k].age >= (Samples[k] - 1) * Interval
<1>1. Init => TypeOK /\ Inv /\ Backed
  BY TypeInit, InvInit, BackedInit
<1>2. TypeOK /\ Inv /\ Backed /\ [Next]_vars => (TypeOK /\ Inv /\ Backed)'
  BY TypeStep, InvStep, BackedStep
<1>3. TypeOK /\ Inv /\ Backed /\ [Next]_vars => [Proved]_vars
  <2>. SUFFICES ASSUME TypeOK, Inv, Backed, Next, NEW k \in Keys, Changed(k)
                PROVE  /\ streak'[k].value = stable'[k]
                       /\ streak'[k].n >= Samples[k]
                       /\ streak'[k].age >= (Samples[k] - 1) * Interval
    OBVIOUS
  <2>. USE DEF store, history
  <2>0. /\ Samples[k] \in Nat \ {0} /\ Interval \in Nat \ {0} /\ Horizon \in Nat
        /\ streak[k].n \in 0..Horizon /\ streak[k].age \in 0..Horizon
        /\ pending[k].count \in Nat
    BY ConstantsAssumption DEF TypeOK
  <2>1. stable'[k] # stable[k] /\ stable'[k] # Absent /\ stable[k] # Absent
    BY DEF Changed
  <2>2. Poll
    BY <2>1 DEF Next, PollFails, TakeDelivery, Deliver, TimePasses, Change, Restart, Nothing
  <2>3. Settles(k) /\ console[k] # Absent /\ stable'[k] = console[k]
    BY <2>1, <2>2 DEF Poll, Observe, TypeOK
  <2>4. /\ streak'[k].value = console[k]
        /\ streak'[k].n = 1 \/ (streak'[k].n = Later(streak[k].n) /\ streak[k].n > 0)
        /\ streak'[k].age = 0 \/ streak'[k].age = streak[k].age
    BY <2>2 DEF Poll, TypeOK
  <2>5. CASE Samples[k] = 1
    <3>1. streak'[k].n >= 1 /\ streak'[k].age >= 0
      BY <2>0, <2>4 DEF Later
    <3>2. (Samples[k] - 1) * Interval = 0
      BY <2>0, <2>5
    <3>. QED  BY <2>3, <2>4, <2>5, <3>1, <3>2
  <2>6. CASE Samples[k] > 1
    <3>1. pending[k] # NoCandidate
      BY <2>1, <2>3, <2>6, PromotionHasACandidate
    <3>2. pending[k].value = console[k] /\ pending[k].count + 1 >= Samples[k]
      BY <2>0, <2>1, <2>3, <2>6 DEF Settles, Backing
    <3>3. /\ streak[k].value = console[k] /\ streak[k].n >= pending[k].count
          /\ pending[k].count \in 1..(Samples[k] - 1)
      BY <3>1, <3>2 DEF Inv, CandidatesAreAlive, Backed, Evidence
    <3>4. pending[k].count = Samples[k] - 1
      BY <2>0, <3>2, <3>3
    <3>5. since = Interval
      BY <2>2, <3>1, OnlyTicksSample DEF Poll
    <3>6. streak'[k] = [streak[k] EXCEPT !.n = Later(@)]
      BY <2>0, <2>2, <3>3 DEF Poll
    <3>7. streak'[k].n = Later(streak[k].n) /\ streak'[k].age = streak[k].age
      BY <3>6 DEF TypeOK
    <3>8. (Samples[k] - 1) * Interval <= Horizon
          /\ (pending[k].count - 1) * Interval + Interval = (Samples[k] - 1) * Interval
      BY <2>0, <2>6, <3>4, Spacing
    <3>9. Samples[k] <= Horizon
      <4>1. Longest \in Nat \ {0}
        BY ConstantsAssumption DEF Longest
      <4>2. Samples[k] * Longest < Horizon
        BY ConstantsAssumption
      <4>3. Samples[k] <= Samples[k] * Longest /\ Samples[k] * Longest \in Nat
        BY <2>0, <4>1
      <4>. QED  BY <2>0, <4>2, <4>3
    <3>10. streak'[k].n >= Samples[k]
      BY <2>0, <3>3, <3>4, <3>7, <3>9 DEF Later
    <3>11. streak'[k].age >= (Samples[k] - 1) * Interval
      BY <3>1, <3>5, <3>7, <3>8 DEF Backed, Evidence
    <3>. QED  BY <2>3, <2>4, <3>10, <3>11
  <2>. QED  BY <2>0, <2>5, <2>6
<1>. QED  BY <1>1, <1>2, <1>3, PTL DEF Spec, Debounced
-----------------------------------------------------------------------------

\* Two polls are never closer than the floor and the interval allow, however
\* many deliveries arrive, but for the first one after a start.
THEOREM FlooredHolds == Spec => Floored
<1>. DEFINE Apart ==
       phase' = "waiting" /\ since' = 0 /\ since # 0 /\ cause' # "start"
       => since >= Shortest
<1>1. TypeOK /\ Inv /\ [Next]_vars => [Apart]_vars
  <2>. SUFFICES ASSUME TypeOK, Next,
                       phase' = "waiting", since' = 0, since # 0, cause' # "start"
                PROVE  since >= Shortest
    OBVIOUS
  <2>. USE DEF store, history
  <2>1. since \in Nat
    <3>1. Longest \in Nat
      BY ConstantsAssumption DEF Longest
    <3>. QED  BY <3>1, ConstantsAssumption DEF TypeOK
  <2>2. Poll \/ PollFails
    BY <2>1 DEF Next, TakeDelivery, Deliver, TimePasses, Change, Restart
  <2>3. Due /\ cause' = Cause
    BY <2>2 DEF Poll, PollFails, Rest
  <2>4. phase # "starting"
    BY <2>3 DEF Cause
  <2>5. since = Interval \/ since >= MinObserveInterval
    BY <2>3, <2>4 DEF Due, TickerFired, FloorPassed
  <2>. QED  BY <2>1, <2>5, ConstantsAssumption DEF Shortest
<1>. QED  BY <1>1, Invariant, PTL DEF Spec, Floored

\* How many readings back the value the console would report of k now.
Confirmed(k) == IF pending[k].value = console[k] THEN pending[k].count ELSE 0

\* A value that is not reported yet has held for no longer than the readings
\* that back it took, and the time since the last of them.
Timely ==
  \A k \in Keys :
    stable[k] # console[k] => steady[k] <= Confirmed(k) * Longest + since

\* The numbers the bound is made of.
LEMMA BoundTypes ==
  ASSUME TypeOK, NEW k \in Keys
  PROVE  /\ Longest \in Nat /\ since \in 0..Longest
         /\ Samples[k] \in Nat \ {0} /\ Confirmed(k) \in Nat
         /\ steady[k] \in 0..Horizon /\ Horizon \in Nat
<1>1. Longest \in Nat /\ Interval <= Longest /\ Interval \in Nat
  BY ConstantsAssumption DEF Longest
<1>2. since \in 0..Longest
  BY <1>1 DEF TypeOK
<1>3. Confirmed(k) \in Nat
  BY DEF Confirmed, TypeOK
<1>. QED  BY <1>1, <1>2, <1>3, ConstantsAssumption DEF TypeOK

\* Initially nothing has held for any time.
LEMMA TimelyInit == Init => Timely
<1>. SUFFICES ASSUME Init, NEW k \in Keys PROVE steady[k] <= Confirmed(k) * Longest + since
  BY DEF Timely
<1>1. steady[k] = 0 /\ since = 0
  BY DEF Init
<1>2. Confirmed(k) = 0
  BY DEF Init, Confirmed, NoCandidate
<1>3. Longest \in Nat
  BY ConstantsAssumption DEF Longest
<1>4. Confirmed(k) * Longest = 0
  BY <1>2, <1>3
<1>. QED  BY <1>1, <1>4

\* Every step keeps unreported values young: a reading of such a value counts
\* towards it, or shows another one.
LEMMA TimelyStep == TypeOK /\ Inv /\ Timely /\ [Next]_vars => Timely'
<1>. SUFFICES ASSUME TypeOK, Inv, Timely, [Next]_vars, NEW k \in Keys,
                     stable'[k] # console'[k]
              PROVE  steady'[k] <= Confirmed(k)' * Longest + since'
  BY DEF Timely
<1>. USE DEF store, history
<1>0. /\ Longest \in Nat /\ since \in 0..Longest
      /\ Confirmed(k) \in Nat /\ steady[k] \in Nat
  BY BoundTypes
<1>a. Confirmed(k)' \in Nat /\ since' \in Nat
  <2>1. TypeOK'
    BY TypeStep
  <2>2. since' \in Nat
    BY <1>0, <2>1 DEF TypeOK
  <2>3. Confirmed(k)' \in Nat
    BY <2>1 DEF Confirmed, TypeOK
  <2>. QED  BY <2>2, <2>3
<1>b. Confirmed(k) * Longest \in Nat /\ Confirmed(k)' * Longest \in Nat
  BY <1>0, <1>a
<1>1. ASSUME steady'[k] = 0 PROVE steady'[k] <= Confirmed(k)' * Longest + since'
  BY <1>1, <1>a, <1>b
<1>2. CASE Poll
  <2>1. /\ ~Settles(k) /\ console'[k] = console[k] /\ console[k] # stable[k]
        /\ pending'[k] = [value |-> console[k], count |-> Backing(k)]
    BY <1>2 DEF Poll, Observe, Settles
  <2>2. Confirmed(k)' = Backing(k)
    BY <2>1 DEF Confirmed
  <2>3. Backing(k) = Confirmed(k) + 1
    BY <1>0 DEF Backing, Confirmed
  <2>4. steady'[k] = steady[k] /\ since' = 0
    BY <1>2 DEF Poll, Rest
  <2>5. steady[k] <= Confirmed(k) * Longest + since
    BY <2>1 DEF Timely
  <2>6. (Confirmed(k) + 1) * Longest = Confirmed(k) * Longest + Longest
    BY <1>0
  <2>. QED  BY <1>0, <1>b, <2>2, <2>3, <2>4, <2>5, <2>6
<1>3. CASE PollFails
  BY <1>1, <1>3 DEF PollFails
<1>4. CASE TakeDelivery \/ Deliver \/ UNCHANGED vars
  BY <1>4 DEF TakeDelivery, Deliver, vars, Timely, Confirmed
<1>5. CASE TimePasses
  <2>1. /\ stable' = stable /\ console' = console /\ pending' = pending
        /\ since' = since + 1 /\ steady'[k] = Later(steady[k])
    BY <1>5 DEF TimePasses
  <2>2. Later(steady[k]) <= steady[k] + 1
    BY <1>0 DEF Later
  <2>3. steady[k] <= Confirmed(k) * Longest + since /\ Confirmed(k)' = Confirmed(k)
    BY <2>1 DEF Timely, Confirmed
  <2>. QED  BY <1>0, <1>b, <2>1, <2>2, <2>3 DEF Later
<1>6. CASE Restart
  BY <1>1, <1>6 DEF Restart
<1>7. ASSUME NEW l \in Keys, Change(l)
      PROVE  steady'[k] <= Confirmed(k)' * Longest + since'
  <2>1. CASE l = k
    BY <1>1, <1>7, <2>1 DEF Change, TypeOK
  <2>2. CASE l # k
    <3>1. /\ stable' = stable /\ console'[k] = console[k] /\ pending' = pending
          /\ since' = since /\ steady'[k] = steady[k]
      BY <1>7, <2>2 DEF Change, TypeOK
    <3>. QED  BY <3>1 DEF Timely, Confirmed
  <2>. QED  BY <2>1, <2>2
<1>. QED  BY <1>2, <1>3, <1>4, <1>5, <1>6, <1>7 DEF Next

\* A value that holds is reported within its samples times the longest the
\* poller ever rests, whatever deliveries arrive meanwhile.
THEOREM ReportedWithinBoundHolds == Spec => []ReportedWithinBound
<1>1. Init => TypeOK /\ Inv /\ Timely
  BY TypeInit, InvInit, TimelyInit
<1>2. TypeOK /\ Inv /\ Timely /\ [Next]_vars => (TypeOK /\ Inv /\ Timely)'
  BY TypeStep, InvStep, TimelyStep
<1>3. TypeOK /\ Inv /\ Timely => ReportedWithinBound
  <2>. SUFFICES ASSUME TypeOK, Inv, Timely, NEW k \in Keys, stable[k] # console[k]
                PROVE  ~(steady[k] > Samples[k] * Longest)
    BY DEF ReportedWithinBound
  <2>1. /\ Longest \in Nat /\ since \in 0..Longest
        /\ Samples[k] \in Nat \ {0} /\ Confirmed(k) \in Nat /\ steady[k] \in Nat
    BY BoundTypes
  <2>2. Confirmed(k) <= Samples[k] - 1
    <3>1. CASE pending[k] = NoCandidate
      BY <2>1, <3>1 DEF Confirmed, NoCandidate
    <3>2. CASE pending[k] # NoCandidate
      BY <2>1, <3>2 DEF Confirmed, Inv, CandidatesAreAlive
    <3>. QED  BY <3>1, <3>2
  <2>3. steady[k] <= Confirmed(k) * Longest + since
    BY DEF Timely
  <2>4. Confirmed(k) * Longest <= (Samples[k] - 1) * Longest
    BY <2>1, <2>2
  <2>5. (Samples[k] - 1) * Longest + Longest = Samples[k] * Longest
    BY <2>1
  <2>6. /\ Confirmed(k) * Longest \in Nat /\ (Samples[k] - 1) * Longest \in Nat
        /\ Samples[k] * Longest \in Nat
    BY <2>1
  <2>. QED  BY <2>1, <2>3, <2>4, <2>5, <2>6
<1>. QED  BY <1>1, <1>2, <1>3, PTL DEF Spec
======================================================================
