------------------------- MODULE TargetContractProofs -------------------------
(***************************************************************************)
(* With one worker, TargetClaims implements TargetContract: for any number *)
(* of Automations, any levels, any reversal policies and any disturbances, *)
(* restarts and failed calls included.                                     *)
(***************************************************************************)
EXTENDS TargetClaimsProofs

Asked == {ClaimLevel[p] : p \in Askers}
Exits == {OnExitLevel[p] : p \in Automations} \ {NoLevel}

\* The phases in which a pass relies on the target it read.
Sighted == {"read", "folded", "record", "patch", "reread", "apply", "update", "clear"}
Writing == {"apply", "update"}

\* What a pass nothing can overtake knows of the target and may do to it: the
\* record it saw is the record there is, what it writes was asked for, and it
\* writes and clears only over a record.
Placed(a) ==
  LET p    == pass[a]
      home == {target.baseline} \cup Exits
  IN  /\ p.at \in Sighted => p.snap.baseline = target.baseline
      /\ p.at = "folded" => p.back \subseteq home
      /\ p.at \in {"record", "patch", "reread"} \cup Writing /\ p.op = "claim"
           => p.level \in Asked
      /\ p.at \in Writing \cup {"clear"} => Recorded(target)
      /\ p.at \in Writing /\ p.op = "release" => p.level \in home

SerialInv == TypeOK /\ IInv /\ Alone /\ \A a \in Automations : Placed(a)

\* A pass that relies on no target is in its place, and so are those a pass in
\* flight keeps from starting.
LEMMA OthersPlaced ==
  ASSUME Alone, NEW a \in InFlight, \A b \in Automations \ {a} : pass'[b] = pass[b]
  PROVE  \A b \in Automations \ {a} : Placed(b)'
<1>1. \A b \in Automations \ {a} : pass'[b].at = "idle"
  BY DEF Alone, InFlight
<1>. QED  BY <1>1 DEF Placed, Sighted, Writing

\* A step of a pass is a step of one in flight, and touches no other.
LEMMA StepsInFlight ==
  ASSUME TypeOK, NEW a \in Automations, Proceed(a) \/ Fail(a) \/ DropReport(a)
  PROVE  a \in InFlight /\ \A b \in Automations \ {a} : pass'[b] = pass[b]
<1>1. a \in InFlight
  BY DEF Proceed, InFlight, At, ListPeers, GetTarget, Fold, Decline, Claim, Release,
     LeaveAlone, ReadLevel, RecordBaseline, RecordConflict, RereadTarget, RefreshClaimants,
     ReadScale, UpdateScale, ScaleConflict, ApplySwitch, ClearAnnotations, Commit,
     Finalized, ReportFailure, GiveUp, Fail, DropReport
<1>2. ASSUME NEW p, Step(a, p) PROVE \A b \in Automations \ {a} : pass'[b] = pass[b]
  BY <1>2 DEF Step, TypeOK
<1>. QED
  BY <1>1, <1>2 DEF Proceed, ListPeers, GetTarget, ReadTarget, Fold, Decline, Claim,
     Release, HandBack, LeaveAlone, ReadLevel, RecordBaseline, RecordConflict,
     RereadTarget, RefreshClaimants, ReadScale, UpdateScale, ScaleConflict, ApplySwitch,
     ClearAnnotations, Commit, Finalized, ReportFailure, GiveUp, Fail, DropReport,
     End, Finish

\* A claim resolves to a level somebody asks for.
LEMMA ClaimIsAsked ==
  ASSUME NEW claims \in SUBSET Askers, claims # {}
  PROVE  Resolve({Intent(p, ClaimLevel[p]) : p \in claims}).level \in Asked
<1>. DEFINE intents == {Intent(p, ClaimLevel[p]) : p \in claims}
            asked == LevelsOf(intents)
<1>1. \A i \in intents : i.level \in Asked
  BY DEF Intent, Asked
<1>2. intents # {}
  OBVIOUS
<1>3. Asked \subseteq Nat
  BY ConstantsAssumption DEF Asked, Askers
<1>4. asked \in SUBSET Nat /\ asked # {} /\ asked \subseteq Asked
  <2>. HIDE DEF intents
  <2>1. \A l \in asked : l \in Asked
    BY <1>1 DEF LevelsOf
  <2>2. PICK i \in intents : TRUE
    BY <1>2
  <2>3. i.level \in asked
    BY <2>2 DEF LevelsOf
  <2>. QED  BY <1>3, <2>1, <2>3
<1>5. Meet(asked) \in asked
  <2>. HIDE DEF asked
  <2>. QED  BY <1>4, MeetIsLeast
<1>6. Resolve(intents).level = Meet(asked)
  BY DEF Resolve
<1>. QED  BY <1>4, <1>5, <1>6

\* The same, of the first state.
LEMMA PlacedInit == Init => \A a \in Automations : Placed(a)
BY DEF Init, Idle, Blank, Placed, Sighted, Writing

\* What a step that folds, claims or hands back makes of the pass.
LEMMA FoldMakes ==
  ASSUME TypeOK, NEW a \in Automations, Fold(a)
  PROVE  LET all   == pass[a].peers \cup {a}
             count == {p \in all : Counts(a, p)}
             back  == {ReversalLevel(p, pass[a].snap.baseline) : p \in all \ count}
         IN  /\ pass'[a].at = "folded" /\ pass'[a].back = back \ {NoLevel}
             /\ pass'[a].claims = count \cap Askers
             /\ pass'[a].snap = pass[a].snap /\ target' = target
<1>. DEFINE all == pass[a].peers \cup {a}
            count == {p \in all : Counts(a, p)}
            back == {ReversalLevel(p, pass[a].snap.baseline) : p \in all \ count}
<1>1. /\ Step(a, [pass[a] EXCEPT !.at = "folded", !.claims = count \cap Askers,
                    !.back = back \ {NoLevel}, !.peers = {}, !.inForce = {}, !.held = {}])
      /\ target' = target
  BY DEF Fold
<1>. HIDE DEF back, count
<1>2. pass[a] \in Pass
  BY DEF TypeOK
<1>3. pass'[a] = [pass[a] EXCEPT !.at = "folded", !.claims = count \cap Askers,
                    !.back = back \ {NoLevel}, !.peers = {}, !.inForce = {}, !.held = {}]
  BY <1>1 DEF Step, TypeOK
<1>4. /\ pass'[a].at = "folded" /\ pass'[a].back = back \ {NoLevel}
      /\ pass'[a].claims = count \cap Askers /\ pass'[a].snap = pass[a].snap
  BY <1>2, <1>3 DEF Pass
<1>. QED  BY <1>1, <1>4 DEF back, count

\* Handing back leaves the pass about to apply the level, or to clear if there is none.
LEMMA HandBackMakes ==
  ASSUME TypeOK, NEW a \in Automations, NEW level, HandBack(a, level)
  PROVE  /\ pass'[a].at = (IF level = NoLevel THEN "clear" ELSE "apply")
         /\ pass'[a].op = "release" /\ pass'[a].level = level
         /\ pass'[a].snap = pass[a].snap
<1>1. pass[a] \in Pass
  BY DEF TypeOK
<1>2. pass'[a] = [pass[a] EXCEPT !.at = IF level = NoLevel THEN "clear" ELSE "apply",
                    !.op = "release", !.level = level, !.claims = {}, !.back = {}]
  BY DEF HandBack, Step, TypeOK
<1>. QED  BY <1>1, <1>2 DEF Pass

\* Claiming leaves the pass about to record, with the level its claims resolve to.
LEMMA ClaimMakes ==
  ASSUME TypeOK, NEW a \in Automations, Claim(a)
  PROVE  /\ pass'[a].at = "record"
         /\ pass'[a].level = Resolve({Intent(p, ClaimLevel[p]) : p \in pass[a].claims}).level
         /\ pass'[a].snap = pass[a].snap /\ target' = target
<1>. DEFINE level == Resolve({Intent(p, ClaimLevel[p]) : p \in pass[a].claims}).level
<1>1. /\ Step(a, [pass[a] EXCEPT !.at = "record", !.op = "claim", !.level = level, !.back = {}])
      /\ target' = target
  BY DEF Claim
<1>. HIDE DEF level
<1>2. pass[a] \in Pass
  BY DEF TypeOK
<1>3. pass'[a] = [pass[a] EXCEPT !.at = "record", !.op = "claim", !.level = level, !.back = {}]
  BY <1>1 DEF Step, TypeOK
<1>4. pass'[a].at = "record" /\ pass'[a].level = level /\ pass'[a].snap = pass[a].snap
  BY <1>2, <1>3 DEF Pass
<1>. QED  BY <1>1, <1>4 DEF level

\* No step of one worker, or of the environment, puts a pass out of its place.
LEMMA PlacedStep ==
  ASSUME MaxConcurrentReconciles = 1, SerialInv, [Next]_vars
  PROVE  \A a \in Automations : Placed(a)'
<1>. USE DEF objects, world, history
<1>0. /\ TypeOK /\ IInv /\ Alone /\ target \in Target
      /\ \A a \in Automations : pass[a] \in Pass /\ Placed(a) /\ Sound(a)
  BY DEF SerialInv, TypeOK, IInv
<1>1. ASSUME NEW a \in Automations, Begin(a) \/ BeginFinalize(a)
      PROVE  \A b \in Automations : Placed(b)'
  <2>1. InFlight = {}
    BY <1>1, StartsAlone DEF Begin, BeginFinalize
  <2>2. pass'[a].at = "begun" /\ \A b \in Automations \ {a} : pass'[b] = pass[b]
    <3>1. CASE Begin(a)
      <4>1. PICK h : Step(a, [Idle EXCEPT !.at = "begun", !.mode = mode[a], !.matching = h,
                                 !.claiming = h /\ mode[a] = "live"])
        BY <3>1 DEF Begin
      <4>. QED  BY <1>0, <4>1 DEF Step, TypeOK, Idle, Blank
    <3>2. CASE BeginFinalize(a)
      BY <1>0, <3>2 DEF BeginFinalize, Step, TypeOK, Idle, Blank
    <3>. QED  BY <1>1, <3>1, <3>2
  <2>3. \A b \in Automations \ {a} : pass'[b].at = "idle"
    BY <2>1, <2>2 DEF InFlight
  <2>. QED  BY <2>2, <2>3 DEF Placed, Sighted, Writing
<1>2. ASSUME NEW a \in Automations, Proceed(a) \/ Fail(a) \/ DropReport(a)
      PROVE  \A b \in Automations : Placed(b)'
  <2>1. a \in InFlight /\ \A b \in Automations \ {a} : pass'[b] = pass[b]
    BY <1>0, <1>2, StepsInFlight
  <2>3. \A b \in Automations \ {a} : Placed(b)'
    BY <1>0, <2>1, OthersPlaced
  <2>4. ASSUME NEW p, Step(a, p) PROVE pass'[a] = p
    BY <1>0, <2>4 DEF Step, TypeOK
  <2>5. SUFFICES Placed(a)'
    BY <2>3
  <2>. USE DEF Sighted, Writing
  <2>6. CASE ListPeers(a) \/ LeaveAlone(a) \/ ScaleConflict(a) \/ Fail(a)
    <3>1. pass'[a].at \in {"listed", "done", "failed"}
      BY <1>0, <2>4, <2>6 DEF ListPeers, LeaveAlone, ScaleConflict, Fail, Pass
    <3>. QED  BY <3>1 DEF Placed
  <2>7. CASE Commit(a) \/ Finalized(a) \/ ReportFailure(a) \/ GiveUp(a) \/ DropReport(a)
    <3>1. pass'[a] = Idle
      BY <2>4, <2>7 DEF Commit, Finalized, ReportFailure, GiveUp, DropReport, End, Finish
    <3>. QED  BY <3>1 DEF Placed, Idle, Blank
  <2>8. CASE GetTarget(a)
    <3>1. pass'[a].at = "read" /\ pass'[a].snap = target /\ target' = target
      BY <1>0, <2>4, <2>8 DEF GetTarget, ReadTarget, Pass
    <3>. QED  BY <3>1 DEF Placed
  <2>9. CASE Fold(a)
    <3>. DEFINE all == pass[a].peers \cup {a}
                count == {p \in all : Counts(a, p)}
                back == {ReversalLevel(p, pass[a].snap.baseline) : p \in all \ count}
    <3>1. pass[a].at = "read" /\ pass[a].snap.baseline = target.baseline
      BY <1>0, <2>9 DEF Fold, At, Placed
    <3>2. \A p \in all : ReversalLevel(p, target.baseline) \in {target.baseline, NoLevel} \cup Exits
      BY <1>0, ConstantsAssumption DEF Pass, ReversalLevel, Policies, Exits
    <3>3. back \ {NoLevel} \subseteq {target.baseline} \cup Exits
      BY <3>1, <3>2
    <3>. HIDE DEF back, count
    <3>4. /\ pass'[a].at = "folded" /\ pass'[a].back = back \ {NoLevel}
          /\ pass'[a].snap = pass[a].snap /\ target' = target
      BY <1>0, <2>9, FoldMakes DEF back, count
    <3>. QED  BY <3>1, <3>3, <3>4 DEF Placed
  <2>10. CASE Decline(a)
    <3>1. /\ pass[a].at = "folded" /\ Recorded(pass[a].snap)
          /\ pass[a].snap.baseline = target.baseline
      BY <1>0, <2>10 DEF Decline, At, Placed
    <3>2. /\ pass'[a].at = "apply" /\ pass'[a].op = "release"
          /\ pass'[a].level = target.baseline
          /\ pass'[a].snap = pass[a].snap /\ target' = target
      <4>1. HandBack(a, pass[a].snap.baseline) /\ target' = target
        BY <2>10 DEF Decline
      <4>. QED  BY <1>0, <3>1, <4>1, HandBackMakes DEF Recorded
    <3>. QED  BY <3>1, <3>2 DEF Placed, Recorded
  <2>11. CASE Release(a)
    <3>. DEFINE level == IF pass[a].back = {} THEN NoLevel ELSE Meet(pass[a].back)
    <3>1. /\ pass[a].at = "folded" /\ Recorded(pass[a].snap)
          /\ pass[a].snap.baseline = target.baseline
          /\ pass[a].back \subseteq {target.baseline} \cup Exits
      BY <1>0, <2>11 DEF Release, At, Placed
    <3>2. level # NoLevel => level \in {target.baseline} \cup Exits
      <4>1. pass[a].back \in SUBSET Nat
        BY <1>0, ConstantsAssumption DEF Pass
      <4>. QED  BY <3>1, <4>1, MeetIsLeast
    <3>. HIDE DEF level
    <3>3. /\ pass'[a].at = (IF level = NoLevel THEN "clear" ELSE "apply")
          /\ pass'[a].op = "release" /\ pass'[a].level = level
          /\ pass'[a].snap = pass[a].snap /\ target' = target
      <4>1. HandBack(a, level) /\ target' = target
        BY <2>11 DEF Release, level
      <4>. QED  BY <1>0, <4>1, HandBackMakes
    <3>. QED  BY <3>1, <3>2, <3>3 DEF Placed, Recorded
  <2>12. CASE Claim(a)
    <3>. DEFINE level == Resolve({Intent(p, ClaimLevel[p]) : p \in pass[a].claims}).level
    <3>1. pass[a].at = "folded" /\ pass[a].snap.baseline = target.baseline
      BY <1>0, <2>12 DEF Claim, At, Placed
    <3>2. level \in Asked
      BY <1>0, <2>12, ClaimIsAsked DEF Claim, Pass
    <3>. HIDE DEF level
    <3>3. /\ pass'[a].at = "record" /\ pass'[a].level = level
          /\ pass'[a].snap = pass[a].snap /\ target' = target
      BY <1>0, <2>12, ClaimMakes DEF level
    <3>. QED  BY <3>1, <3>2, <3>3 DEF Placed
  <2>13. CASE ReadLevel(a) \/ RecordConflict(a)
    <3>1. /\ pass'[a].at \in {"patch", "reread", "failed"}
          /\ pass'[a].op = pass[a].op /\ pass'[a].level = pass[a].level
          /\ pass'[a].snap = pass[a].snap /\ target' = target
          /\ pass[a].at \in {"record", "patch"}
      <4>1. CASE ReadLevel(a)
        BY <1>0, <2>4, <4>1 DEF ReadLevel, At, Pass
      <4>2. CASE RecordConflict(a)
        BY <1>0, <2>4, <4>2 DEF RecordConflict, At, Pass
      <4>. QED  BY <2>13, <4>1, <4>2
    <3>. QED  BY <1>0, <3>1 DEF Placed
  <2>14. CASE RereadTarget(a)
    <3>1. /\ pass'[a].at = "record" /\ pass[a].at = "reread"
          /\ pass'[a].op = pass[a].op /\ pass'[a].level = pass[a].level
          /\ pass'[a].snap = target /\ target' = target
      BY <1>0, <2>4, <2>14 DEF RereadTarget, ReadTarget, At, Pass
    <3>. QED  BY <1>0, <3>1 DEF Placed
  <2>15. CASE RecordBaseline(a)
    <3>. DEFINE t == [target EXCEPT !.baseline = pass[a].found, !.claimedBy = pass[a].claims]
    <3>1. pass[a].at = "patch" /\ pass[a].op = "claim" /\ pass[a].found \in Levels
      BY <1>0, <2>15 DEF RecordBaseline, At, Sound, Armed
    <3>2. t.baseline = pass[a].found
      BY <1>0 DEF Target
    <3>. HIDE DEF t
    <3>3. /\ pass'[a].at = "apply" /\ pass'[a].snap = t /\ target' = t
          /\ pass'[a].op = pass[a].op /\ pass'[a].level = pass[a].level
      BY <1>0, <2>4, <2>15 DEF RecordBaseline, WriteTarget, Pass, t
    <3>. QED  BY <1>0, <3>1, <3>2, <3>3, ConstantsAssumption DEF Placed, Recorded
  <2>16. CASE RefreshClaimants(a)
    <3>. DEFINE t == [target EXCEPT !.claimedBy = pass[a].claims]
    <3>1. /\ pass[a].at = "record" /\ pass[a].op = "claim" /\ Recorded(pass[a].snap)
          /\ pass[a].snap.baseline = target.baseline
      BY <1>0, <2>16 DEF RefreshClaimants, At, Sound, Armed, Placed
    <3>2. t.baseline = target.baseline
      BY <1>0 DEF Target
    <3>. HIDE DEF t
    <3>3. /\ pass'[a].at = "apply" /\ pass'[a].snap \in {pass[a].snap, t}
          /\ target' \in {target, t}
          /\ pass'[a].op = pass[a].op /\ pass'[a].level = pass[a].level
      BY <1>0, <2>4, <2>16 DEF RefreshClaimants, WriteTarget, Pass, t
    <3>4. target'.baseline = target.baseline /\ pass'[a].snap.baseline = target.baseline
      BY <3>1, <3>2, <3>3
    <3>. QED  BY <1>0, <3>1, <3>3, <3>4 DEF Placed, Recorded
  <2>17. CASE ReadScale(a) \/ UpdateScale(a)
    <3>1. pass[a].at \in {"apply", "update"}
      BY <2>17 DEF ReadScale, UpdateScale, At
    <3>2. /\ pass'[a].at \in {"update", "done", "clear"}
          /\ pass'[a].snap = pass[a].snap /\ pass'[a].op = pass[a].op
          /\ pass'[a].level = pass[a].level
      BY <1>0, <2>4, <2>17 DEF ReadScale, UpdateScale, AfterApply, Pass
    <3>3. target'.baseline = target.baseline
      BY <1>0, <2>17 DEF ReadScale, UpdateScale, WriteTarget, Target
    <3>. QED  BY <1>0, <3>1, <3>2, <3>3 DEF Placed, Recorded
  <2>18. CASE ApplySwitch(a)
    <3>. DEFINE t == [target EXCEPT !.level = pass[a].level]
    <3>1. t.baseline = target.baseline
      BY <1>0 DEF Target
    <3>. HIDE DEF t
    <3>2. /\ pass'[a].at \in {"done", "clear"} /\ pass[a].at = "apply"
          /\ pass'[a].snap \in {pass[a].snap, t} /\ target' \in {target, t}
      BY <1>0, <2>4, <2>18 DEF ApplySwitch, WriteTarget, AfterApply, At, Pass, t
    <3>3. target'.baseline = target.baseline /\ pass'[a].snap.baseline = target.baseline
      BY <1>0, <3>1, <3>2 DEF Placed
    <3>. QED  BY <1>0, <3>2, <3>3 DEF Placed, Recorded
  <2>19. CASE ClearAnnotations(a)
    <3>1. pass'[a].at = "done"
      BY <1>0, <2>4, <2>19 DEF ClearAnnotations, Pass
    <3>. QED  BY <3>1 DEF Placed
  <2>. QED
    BY <1>2, <2>6, <2>7, <2>8, <2>9, <2>10, <2>11, <2>12, <2>13, <2>14, <2>15, <2>16,
       <2>17, <2>18, <2>19 DEF Proceed
<1>3. ASSUME NEW a \in Automations, HoldLastKnown(a) \/ Respec(a) \/ Delete(a)
      PROVE  \A b \in Automations : Placed(b)'
  BY <1>0, <1>3 DEF HoldLastKnown, Respec, Delete, Placed, Recorded
<1>4. ASSUME Observe \/ Edit \/ Touch \/ Autoscale PROVE \A b \in Automations : Placed(b)'
  <2>1. pass' = pass /\ target'.baseline = target.baseline
    BY <1>0, <1>4 DEF Observe, Edit, Touch, Autoscale, Target
  <2>. QED  BY <1>0, <2>1 DEF Placed, Recorded
<1>5. ASSUME Crash PROVE \A b \in Automations : Placed(b)'
  BY <1>5 DEF Crash, Idle, Blank, Placed, Sighted, Writing
<1>6. ASSUME UNCHANGED vars PROVE \A b \in Automations : Placed(b)'
  BY <1>0, <1>6 DEF vars, Placed, Recorded
<1>. QED  BY <1>1, <1>2, <1>3, <1>4, <1>5, <1>6 DEF Next, Environment

\* Every reachable state of a single worker is sound and in place.
LEMMA SerialInvariant ==
  ASSUME MaxConcurrentReconciles = 1
  PROVE  Spec => []SerialInv
<1>1. Init => SerialInv
  <2>1. Init => Alone
    BY DEF Init, Alone, InFlight, Idle, Blank
  <2>. QED  BY <2>1, TypeInit, SoundInit, PlacedInit DEF SerialInv
<1>2. SerialInv /\ [Next]_vars => SerialInv'
  <2>. SUFFICES ASSUME SerialInv, [Next]_vars PROVE SerialInv'
    OBVIOUS
  <2>1. TypeOK' /\ IInv' /\ Alone'
    <3>1. TypeOK /\ IInv /\ Alone /\ \A a \in Automations : Armed(a)
      BY DEF SerialInv, IInv, Sound
    <3>. QED  BY <3>1, TypeStep, SoundStep, StaysAlone
  <2>2. \A a \in Automations : Placed(a)'
    BY PlacedStep
  <2>. QED  BY <2>1, <2>2 DEF SerialInv
<1>. QED  BY <1>1, <1>2, PTL DEF Spec

\* A pass that applies its level puts it, restores it or leaves the owner's
\* view of the target as it is.
LEMMA AppliesByContract ==
  ASSUME SerialInv, NEW a \in Automations, pass[a].at \in Writing,
         target'.baseline = target.baseline,
         target'.level \in {pass[a].level, target.level},
         NEW wrote, wrote \/ target' = target, wrote => target'.level = pass[a].level,
         author' = IF wrote \/ (pass[a].op = "release" /\ target'.level = pass[a].level)
                   THEN OwnerAfter(pass[a]) ELSE author
  PROVE  [Contract!Next]_Contract!vars
<1>1. /\ Placed(a) /\ Recorded(target) /\ Armed(a) /\ pass[a].op \in {"none", "claim", "release"}
  BY DEF SerialInv, IInv, Sound, TypeOK, Pass, Placed
<1>2. CASE author' = author /\ target' = target
  BY <1>2 DEF Contract!vars
<1>3. CASE target'.level = pass[a].level /\ author' = OwnerAfter(pass[a])
  <2>1. CASE pass[a].op = "claim"
    <3>1. Contract!Put
      BY <1>1, <1>3, <2>1 DEF Contract!Put, Placed, Asked, OwnerAfter, Recorded
    <3>. QED  BY <3>1 DEF Contract!Next
  <2>2. CASE pass[a].op = "release"
    <3>1. Contract!Restore
      BY <1>1, <1>3, <2>2 DEF Contract!Restore, Placed, Exits, OwnerAfter, Recorded
    <3>. QED  BY <3>1 DEF Contract!Next
  <2>. QED  BY <1>1, <2>1, <2>2 DEF Armed, Writing
<1>. QED  BY <1>2, <1>3

\* Every step of the protocol is a step of the contract or none.
LEMMA StepByContract ==
  ASSUME SerialInv, [Next]_vars
  PROVE  [Contract!Next]_Contract!vars
<1>. USE DEF objects, world, history
<1>0. /\ TypeOK /\ target \in Target
      /\ \A a \in Automations : pass[a] \in Pass /\ Placed(a) /\ Sound(a)
  BY DEF SerialInv, TypeOK, IInv
<1>1. ASSUME NEW a \in Automations, RecordBaseline(a) PROVE Contract!Record
  <2>1. ~Recorded(target) /\ target'.baseline = target.level
    BY <1>1, RecordsOverNothing DEF SerialInv
  <2>2. target'.level = target.level
    BY <1>0, <1>1 DEF RecordBaseline, WriteTarget, Target
  <2>. QED  BY <1>1, <2>1, <2>2 DEF Contract!Record, RecordBaseline, Recorded
<1>2. ASSUME NEW a \in Automations, RefreshClaimants(a) PROVE UNCHANGED Contract!vars
  BY <1>0, <1>2 DEF RefreshClaimants, WriteTarget, Target, Contract!vars
<1>3. ASSUME NEW a \in Automations, ReadScale(a) PROVE [Contract!Next]_Contract!vars
  <2>1. pass[a].at \in Writing
    BY <1>3 DEF ReadScale, At, Writing
  <2>2. CASE target.level = pass[a].level
    <3>1. target' = target /\ Asserted(a, FALSE)
      BY <1>3, <2>2 DEF ReadScale
    <3>. QED  BY <2>1, <2>2, <3>1, AppliesByContract DEF Asserted
  <2>3. CASE target.level # pass[a].level
    BY <1>3, <2>3 DEF ReadScale, Contract!vars
  <2>. QED  BY <2>2, <2>3
<1>4. ASSUME NEW a \in Automations, UpdateScale(a) PROVE [Contract!Next]_Contract!vars
  <2>1. pass[a].at \in Writing /\ Asserted(a, TRUE)
    BY <1>4 DEF UpdateScale, At, Writing
  <2>2. target'.level = pass[a].level /\ target'.baseline = target.baseline
    BY <1>0, <1>4 DEF UpdateScale, WriteTarget, Target
  <2>. QED  BY <2>1, <2>2, AppliesByContract DEF Asserted
<1>5. ASSUME NEW a \in Automations, ApplySwitch(a) PROVE [Contract!Next]_Contract!vars
  <2>1. pass[a].at \in Writing
    BY <1>5 DEF ApplySwitch, At, Writing
  <2>2. CASE pass[a].snap.level = pass[a].level
    <3>1. target' = target /\ Asserted(a, FALSE)
      BY <1>5, <2>2 DEF ApplySwitch
    <3>. QED  BY <2>1, <3>1, AppliesByContract DEF Asserted
  <2>3. CASE pass[a].snap.level # pass[a].level
    <3>1. PICK wrote : /\ wrote = (target' # target) /\ Asserted(a, wrote)
                       /\ target' = [target EXCEPT !.level = pass[a].level]
      BY <1>5, <2>3 DEF ApplySwitch, WriteTarget
    <3>2. target'.level = pass[a].level /\ target'.baseline = target.baseline
      BY <1>0, <3>1 DEF Target
    <3>. QED  BY <2>1, <3>1, <3>2, AppliesByContract DEF Asserted
  <2>. QED  BY <2>2, <2>3
<1>6. ASSUME NEW a \in Automations, ClearAnnotations(a) PROVE Contract!Next
  <2>1. Recorded(pass[a].snap) /\ Sound(a) /\ a \notin missedClaim /\ pass[a].at = "clear"
    BY <1>0, <1>6 DEF ClearAnnotations, At, Placed, Sighted, SerialInv, Alone, Recorded
  <2>2. target'.baseline = NoLevel /\ target'.level = target.level
    BY <1>0, <1>6, <2>1 DEF ClearAnnotations, WriteTarget, Target
  <2>3. author' = IF pass[a].level = NoLevel THEN "release" ELSE author
    BY <1>6 DEF ClearAnnotations
  <2>4. CASE pass[a].level = NoLevel
    BY <2>2, <2>3, <2>4 DEF Contract!Next, Contract!Abandon
  <2>5. CASE pass[a].level # NoLevel
    <3>1. author # "claim"
      BY <2>1, <2>5 DEF Sound, Owned
    <3>. QED  BY <2>2, <2>3, <2>5, <3>1 DEF Contract!Next, Contract!Forget
  <2>. QED  BY <2>4, <2>5
<1>7. ASSUME Edit PROVE Contract!OwnerEdits
  <2>1. PICK l \in Levels : target' = [target EXCEPT !.level = l]
    BY <1>7 DEF Edit
  <2>. QED  BY <1>0, <1>7, <2>1 DEF Edit, Target, Contract!OwnerEdits
<1>8. ASSUME NEW a \in Automations,
             \/ Begin(a) \/ HoldLastKnown(a) \/ BeginFinalize(a)
             \/ ListPeers(a) \/ GetTarget(a) \/ Fold(a)
             \/ Decline(a) \/ Claim(a) \/ Release(a) \/ LeaveAlone(a)
             \/ ReadLevel(a) \/ RecordConflict(a) \/ RereadTarget(a) \/ ScaleConflict(a)
             \/ Commit(a) \/ Finalized(a) \/ ReportFailure(a) \/ GiveUp(a)
             \/ Respec(a) \/ Delete(a) \/ Fail(a) \/ DropReport(a)
      PROVE  UNCHANGED Contract!vars
  BY <1>8 DEF Begin, HoldLastKnown, BeginFinalize, ListPeers, GetTarget, ReadTarget, Fold,
     Decline, Claim, Release, LeaveAlone, ReadLevel, RecordConflict, RereadTarget,
     ScaleConflict, Commit, Finalized, ReportFailure, GiveUp, End,
     Respec, Delete, Fail, DropReport, Contract!vars
<1>9. ASSUME Observe \/ Touch \/ Autoscale \/ Crash PROVE UNCHANGED Contract!vars
  BY <1>9 DEF Observe, Touch, Autoscale, Crash, Contract!vars
<1>10. ASSUME UNCHANGED vars PROVE UNCHANGED Contract!vars
  BY <1>10 DEF vars, Contract!vars
<1>. QED
  BY <1>1, <1>2, <1>3, <1>4, <1>5, <1>6, <1>7, <1>8, <1>9, <1>10
     DEF Next, Proceed, Environment, Contract!Next

\* With one worker the protocol implements what the owner of the target is
\* promised: a first state maps to a first state, a step to a step or to none.
THEOREM SerialImplementsContract ==
  ASSUME MaxConcurrentReconciles = 1
  PROVE  Spec => ImplementsContract
<1>1. Init => Contract!Init
  BY DEF Init, Contract!Init
<1>2. SerialInv /\ [Next]_vars => [Contract!Next]_Contract!vars
  BY StepByContract
<1>. QED  BY <1>1, <1>2, SerialInvariant, PTL DEF Spec, ImplementsContract, Contract!Spec

-----------------------------------------------------------------------------
(* The round trip. *)

\* Everybody hands the target back to its baseline and nobody else moves it.
LeftToReactor ==
  spent["edit"] = 0 /\ \A a \in Automations : Reversal[a] = "Baseline"

\* On its way a pass takes the target from where it found it, and back there.
Homing(a) ==
  LET p == pass[a]
  IN  /\ p.at = "folded" => p.back \subseteq {target.baseline}
      /\ p.at = "folded" /\ p.claims = {} => p.back = {target.baseline} \ {NoLevel}
      /\ p.at \in Writing /\ p.op = "release" => p.level = target.baseline
      /\ p.at = "clear" => target.level = target.baseline
      /\ p.at \in Sighted \ {"update", "clear"} => p.snap.level = target.level

\* Where the target was found is on record, or where it is.
FoundAtHome ==
  /\ Recorded(target) => target.baseline = original
  /\ ~Recorded(target) => target.level = original

HomeInv == LeftToReactor => FoundAtHome /\ \A a \in Automations : Homing(a)

\* What is left to Reactor has been all along.
LEMMA LeftAllAlong ==
  ASSUME TypeOK, [Next]_vars, LeftToReactor'
  PROVE  LeftToReactor /\ ~Edit
<1>. USE DEF objects, world, history
<1>1. spent["edit"] \in Nat
  BY DEF TypeOK, Disturbances
<1>2. ASSUME NEW kind \in Disturbances, Disturb(kind)
      PROVE  spent'["edit"] = IF kind = "edit" THEN spent["edit"] + 1 ELSE spent["edit"]
  BY <1>2 DEF Disturb, TypeOK, Disturbances
<1>3. CASE spent' = spent
  BY <1>1, <1>2, <1>3 DEF LeftToReactor, Edit, Disturbances
<1>4. CASE \E kind \in Disturbances : Disturb(kind)
  BY <1>1, <1>2, <1>4 DEF LeftToReactor, Edit, Disturbances
<1>5. ASSUME NEW a \in Automations,
             Begin(a) \/ HoldLastKnown(a) \/ BeginFinalize(a) \/ Proceed(a)
      PROVE  (spent' = spent) \/ \E kind \in Disturbances : Disturb(kind)
  BY <1>5 DEF Begin, HoldLastKnown, BeginFinalize, Proceed,
     ListPeers, GetTarget, ReadTarget, Fold, Decline, Claim,
     Release, LeaveAlone, ReadLevel, RecordBaseline, RecordConflict,
     RereadTarget, RefreshClaimants, ReadScale, UpdateScale, ScaleConflict, ApplySwitch,
     ClearAnnotations, Commit, Finalized, ReportFailure, GiveUp
<1>6. ASSUME Environment PROVE \E kind \in Disturbances : Disturb(kind)
  BY <1>6 DEF Environment, Observe, Edit, Touch, Autoscale, Crash, Respec, Delete, Fail,
     DropReport, Disturbances
<1>7. ASSUME UNCHANGED vars PROVE spent' = spent
  BY <1>7 DEF vars
<1>. QED  BY <1>3, <1>4, <1>5, <1>6, <1>7 DEF Next

\* A target left to a single worker never loses its way home.
LEMMA HomeStep ==
  ASSUME MaxConcurrentReconciles = 1, Askers = Automations, SerialInv, HomeInv, [Next]_vars
  PROVE  HomeInv'
<1>. USE DEF objects, world, history
<1>0. /\ TypeOK /\ IInv /\ Alone /\ target \in Target
      /\ \A a \in Automations : pass[a] \in Pass /\ Placed(a) /\ Sound(a)
  BY DEF SerialInv, TypeOK, IInv
<1>. SUFFICES ASSUME LeftToReactor' PROVE FoundAtHome' /\ \A b \in Automations : Homing(b)'
  BY DEF HomeInv
<1>1. /\ LeftToReactor /\ ~Edit
      /\ FoundAtHome /\ \A a \in Automations : Homing(a)
  BY <1>0, LeftAllAlong DEF HomeInv
<1>2. ASSUME NEW a \in Automations, Begin(a) \/ BeginFinalize(a)
      PROVE  FoundAtHome' /\ \A b \in Automations : Homing(b)'
  <2>1. InFlight = {}
    BY <1>2, StartsAlone DEF Begin, BeginFinalize
  <2>2. pass'[a].at = "begun" /\ \A b \in Automations \ {a} : pass'[b] = pass[b]
    <3>1. CASE Begin(a)
      <4>1. PICK h : Step(a, [Idle EXCEPT !.at = "begun", !.mode = mode[a], !.matching = h,
                                 !.claiming = h /\ mode[a] = "live"])
        BY <3>1 DEF Begin
      <4>. QED  BY <1>0, <4>1 DEF Step, TypeOK, Idle, Blank
    <3>2. CASE BeginFinalize(a)
      BY <1>0, <3>2 DEF BeginFinalize, Step, TypeOK, Idle, Blank
    <3>. QED  BY <1>2, <3>1, <3>2
  <2>3. \A b \in Automations \ {a} : pass'[b].at = "idle"
    BY <2>1, <2>2 DEF InFlight
  <2>4. FoundAtHome'
    BY <1>1, <1>2 DEF Begin, BeginFinalize, FoundAtHome, Recorded
  <2>. QED  BY <2>2, <2>3, <2>4 DEF Homing, Sighted, Writing
<1>3. ASSUME NEW a \in Automations, Proceed(a) \/ Fail(a) \/ DropReport(a)
      PROVE  FoundAtHome' /\ \A b \in Automations : Homing(b)'
  <2>1. a \in InFlight /\ \A b \in Automations \ {a} : pass'[b] = pass[b]
    BY <1>0, <1>3, StepsInFlight
  <2>2. \A b \in Automations \ {a} : Homing(b)'
    <3>1. \A b \in Automations \ {a} : pass'[b].at = "idle"
      BY <1>0, <2>1 DEF Alone, InFlight
    <3>. QED  BY <3>1 DEF Homing, Sighted, Writing
  <2>3. ASSUME NEW p, Step(a, p) PROVE pass'[a] = p
    BY <1>0, <2>3 DEF Step, TypeOK
  <2>4. SUFFICES FoundAtHome' /\ Homing(a)'
    BY <2>2
  <2>5. original' = original
    BY <1>3 DEF Proceed, ListPeers, GetTarget, ReadTarget, Fold, Decline, Claim,
       Release, LeaveAlone, ReadLevel, RecordBaseline, RecordConflict,
       RereadTarget, RefreshClaimants, ReadScale, UpdateScale, ScaleConflict, ApplySwitch,
       ClearAnnotations, Commit, Finalized, ReportFailure, GiveUp, Fail, DropReport, End
  <2>6. target' = target => FoundAtHome'
    BY <1>1, <2>5 DEF FoundAtHome, Recorded
  <2>. USE DEF Sighted, Writing
  <2>7. CASE ListPeers(a) \/ LeaveAlone(a) \/ ScaleConflict(a) \/ Fail(a)
    <3>1. pass'[a].at \in {"listed", "done", "failed"} /\ target' = target
      BY <1>0, <2>3, <2>7 DEF ListPeers, LeaveAlone, ScaleConflict, Fail, Pass
    <3>. QED  BY <2>6, <3>1 DEF Homing
  <2>8. CASE Commit(a) \/ Finalized(a) \/ ReportFailure(a) \/ GiveUp(a) \/ DropReport(a)
    <3>1. pass'[a] = Idle /\ target' = target
      BY <2>3, <2>8 DEF Commit, Finalized, ReportFailure, GiveUp, DropReport, End, Finish
    <3>. QED  BY <2>6, <3>1 DEF Homing, Idle, Blank
  <2>9. CASE GetTarget(a)
    <3>1. pass'[a].at = "read" /\ pass'[a].snap = target /\ target' = target
      BY <1>0, <2>3, <2>9 DEF GetTarget, ReadTarget, Pass
    <3>. QED  BY <2>6, <3>1 DEF Homing
  <2>10. CASE Fold(a)
    <3>. DEFINE all == pass[a].peers \cup {a}
                count == {p \in all : Counts(a, p)}
                back == {ReversalLevel(p, pass[a].snap.baseline) : p \in all \ count}
    <3>1. /\ pass[a].at = "read" /\ pass[a].snap.baseline = target.baseline
          /\ pass[a].snap.level = target.level
      BY <1>0, <1>1, <2>10 DEF Fold, At, Placed, Homing
    <3>2. all \subseteq Automations /\ count \subseteq all
      BY <1>0 DEF Pass
    <3>3. \A p \in all : ReversalLevel(p, pass[a].snap.baseline) = target.baseline
      BY <1>1, <3>1, <3>2 DEF LeftToReactor, ReversalLevel
    <3>4. back \subseteq {target.baseline}
      BY <3>3
    <3>5. count \cap Askers = {} => back = {target.baseline}
      <4>1. count \cap Askers = count
        BY <3>2
      <4>2. a \in all
        OBVIOUS
      <4>. QED  BY <3>3, <4>1, <4>2
    <3>. HIDE DEF back, count
    <3>6. /\ pass'[a].at = "folded" /\ pass'[a].back = back \ {NoLevel}
          /\ pass'[a].claims = count \cap Askers
          /\ pass'[a].snap = pass[a].snap /\ target' = target
      BY <1>0, <2>10, FoldMakes DEF back, count
    <3>. QED  BY <2>6, <3>1, <3>4, <3>5, <3>6 DEF Homing
  <2>11. CASE Decline(a)
    <3>1. /\ pass[a].at = "folded" /\ Recorded(pass[a].snap)
          /\ pass[a].snap.baseline = target.baseline /\ pass[a].snap.level = target.level
      BY <1>0, <1>1, <2>11 DEF Decline, At, Placed, Homing
    <3>2. /\ pass'[a].at = "apply" /\ pass'[a].level = target.baseline
          /\ pass'[a].snap = pass[a].snap /\ target' = target
      <4>1. HandBack(a, pass[a].snap.baseline) /\ target' = target
        BY <2>11 DEF Decline
      <4>. QED  BY <1>0, <3>1, <4>1, HandBackMakes DEF Recorded
    <3>. QED  BY <2>6, <3>1, <3>2 DEF Homing
  <2>12. CASE Release(a)
    <3>. DEFINE level == IF pass[a].back = {} THEN NoLevel ELSE Meet(pass[a].back)
    <3>1. /\ pass[a].at = "folded" /\ Recorded(target) /\ pass[a].snap.level = target.level
          /\ pass[a].back = {target.baseline} \ {NoLevel}
      BY <1>0, <1>1, <2>12 DEF Release, At, Placed, Homing, Recorded
    <3>2. level = target.baseline /\ level # NoLevel
      <4>1. pass[a].back \in SUBSET Nat /\ pass[a].back # {} /\ pass[a].back = {target.baseline}
        BY <1>0, <3>1, ConstantsAssumption DEF Pass, Recorded
      <4>2. Meet(pass[a].back) \in pass[a].back
        BY <4>1, MeetIsLeast
      <4>. QED  BY <3>1, <4>1, <4>2 DEF Recorded
    <3>. HIDE DEF level
    <3>3. /\ pass'[a].at = "apply" /\ pass'[a].level = level
          /\ pass'[a].snap = pass[a].snap /\ target' = target
      <4>1. HandBack(a, level) /\ target' = target
        BY <2>12 DEF Release, level
      <4>. QED  BY <1>0, <3>2, <4>1, HandBackMakes
    <3>. QED  BY <2>6, <3>1, <3>2, <3>3 DEF Homing
  <2>13. CASE Claim(a)
    <3>1. pass[a].at = "folded"
      BY <2>13 DEF Claim, At
    <3>2. pass'[a].at = "record" /\ pass'[a].snap = pass[a].snap /\ target' = target
      BY <1>0, <2>13, ClaimMakes
    <3>. QED  BY <1>1, <2>6, <3>1, <3>2 DEF Homing
  <2>14. CASE ReadLevel(a) \/ RecordConflict(a)
    <3>1. /\ pass'[a].at \in {"patch", "reread", "failed"} /\ pass[a].at \in {"record", "patch"}
          /\ pass'[a].snap = pass[a].snap /\ target' = target
      <4>1. CASE ReadLevel(a)
        BY <1>0, <2>3, <4>1 DEF ReadLevel, At, Pass
      <4>2. CASE RecordConflict(a)
        BY <1>0, <2>3, <4>2 DEF RecordConflict, At, Pass
      <4>. QED  BY <2>14, <4>1, <4>2
    <3>. QED  BY <1>1, <2>6, <3>1 DEF Homing
  <2>15. CASE RereadTarget(a)
    <3>1. pass'[a].at = "record" /\ pass'[a].snap = target /\ target' = target
      BY <1>0, <2>3, <2>15 DEF RereadTarget, ReadTarget, Pass
    <3>. QED  BY <2>6, <3>1 DEF Homing
  <2>16. CASE RecordBaseline(a)
    <3>. DEFINE t == [target EXCEPT !.baseline = pass[a].found, !.claimedBy = pass[a].claims]
    <3>1. t.level = target.level
      BY <1>0 DEF Target
    <3>. HIDE DEF t
    <3>2. /\ pass'[a].at = "apply" /\ pass'[a].snap = t /\ target' = t
          /\ pass'[a].op = pass[a].op /\ pass[a].at = "patch"
      BY <1>0, <2>3, <2>16 DEF RecordBaseline, WriteTarget, At, Pass, t
    <3>3. ~Recorded(target) /\ target'.baseline = target.level
      BY <1>0, <2>16, RecordsOverNothing
    <3>4. pass[a].op = "claim"
      BY <1>0, <3>2 DEF Sound, Armed
    <3>. QED  BY <1>1, <2>5, <3>1, <3>2, <3>3, <3>4 DEF FoundAtHome, Homing, Recorded
  <2>17. CASE RefreshClaimants(a)
    <3>. DEFINE t == [target EXCEPT !.claimedBy = pass[a].claims]
    <3>1. t.baseline = target.baseline /\ t.level = target.level
      BY <1>0 DEF Target
    <3>. HIDE DEF t
    <3>2. /\ pass'[a].at = "apply" /\ pass'[a].snap \in {pass[a].snap, t}
          /\ target' \in {target, t}
          /\ pass'[a].op = pass[a].op /\ pass[a].at = "record"
      BY <1>0, <2>3, <2>17 DEF RefreshClaimants, WriteTarget, At, Pass, t
    <3>3. pass[a].op = "claim" /\ pass[a].snap.level = target.level
      BY <1>0, <1>1, <3>2 DEF Sound, Armed, Homing
    <3>4. /\ target'.baseline = target.baseline /\ target'.level = target.level
          /\ pass'[a].snap.level = target.level
      BY <3>1, <3>2, <3>3
    <3>. QED  BY <1>1, <2>5, <3>2, <3>3, <3>4 DEF FoundAtHome, Homing, Recorded
  <2>18. CASE ReadScale(a) \/ UpdateScale(a)
    <3>1. /\ pass[a].at \in Writing
          /\ pass'[a].op = pass[a].op /\ pass'[a].level = pass[a].level
          /\ target'.baseline = target.baseline
          /\ \/ pass'[a].at = "update"
             \/ pass'[a].at = AfterApply(pass[a]) /\ target'.level = pass[a].level
      BY <1>0, <2>3, <2>18 DEF ReadScale, UpdateScale, WriteTarget, At, Pass, Target
    <3>2. pass[a].op # "claim" => pass[a].op = "release"
      BY <1>0, <3>1 DEF Sound, Armed, Pass
    <3>3. Recorded(target)
      BY <1>0, <3>1 DEF Placed
    <3>. QED  BY <1>1, <2>5, <3>1, <3>2, <3>3 DEF FoundAtHome, Homing, Recorded, AfterApply
  <2>19. CASE ApplySwitch(a)
    <3>. DEFINE t == [target EXCEPT !.level = pass[a].level]
    <3>1. t.baseline = target.baseline /\ t.level = pass[a].level
      BY <1>0 DEF Target
    <3>. HIDE DEF t
    <3>2. /\ pass[a].at = "apply" /\ pass'[a].at = AfterApply(pass[a])
          /\ \/ target' = target /\ pass[a].snap.level = pass[a].level
             \/ target' = t
      BY <1>0, <2>3, <2>19 DEF ApplySwitch, WriteTarget, At, Pass, t
    <3>3. target'.baseline = target.baseline /\ target'.level = pass[a].level
      BY <1>1, <3>1, <3>2 DEF Homing
    <3>4. pass[a].op # "claim" => pass[a].op = "release"
      BY <1>0, <3>2 DEF Sound, Armed, Pass
    <3>5. Recorded(target)
      BY <1>0, <3>2 DEF Placed
    <3>. QED  BY <1>1, <2>5, <3>2, <3>3, <3>4, <3>5 DEF FoundAtHome, Homing, Recorded, AfterApply
  <2>20. CASE ClearAnnotations(a)
    <3>1. pass[a].at = "clear" /\ Recorded(pass[a].snap) /\ Recorded(target)
      BY <1>0, <2>20 DEF ClearAnnotations, At, Placed, Recorded
    <3>2. target'.baseline = NoLevel /\ target'.level = target.level
      BY <1>0, <2>20, <3>1 DEF ClearAnnotations, WriteTarget, Target
    <3>3. pass'[a].at = "done"
      BY <1>0, <2>3, <2>20 DEF ClearAnnotations, Pass
    <3>. QED  BY <1>1, <2>5, <3>1, <3>2, <3>3 DEF FoundAtHome, Homing, Recorded
  <2>. QED
    BY <1>3, <2>7, <2>8, <2>9, <2>10, <2>11, <2>12, <2>13, <2>14, <2>15, <2>16,
       <2>17, <2>18, <2>19, <2>20 DEF Proceed
<1>4. ASSUME NEW a \in Automations, HoldLastKnown(a) \/ Respec(a) \/ Delete(a)
      PROVE  FoundAtHome' /\ \A b \in Automations : Homing(b)'
  BY <1>1, <1>4 DEF HoldLastKnown, Respec, Delete, FoundAtHome, Homing, Recorded
<1>5. ASSUME Observe \/ Touch \/ Autoscale
      PROVE  FoundAtHome' /\ \A b \in Automations : Homing(b)'
  BY <1>1, <1>5 DEF Observe, Touch, Autoscale, FoundAtHome, Homing, Recorded
<1>6. ASSUME Crash PROVE FoundAtHome' /\ \A b \in Automations : Homing(b)'
  BY <1>1, <1>6 DEF Crash, Idle, Blank, FoundAtHome, Homing, Recorded, Sighted, Writing
<1>7. ASSUME UNCHANGED vars PROVE FoundAtHome' /\ \A b \in Automations : Homing(b)'
  BY <1>1, <1>7 DEF vars, FoundAtHome, Homing, Recorded
<1>. QED  BY <1>1, <1>2, <1>3, <1>4, <1>5, <1>6, <1>7 DEF Next, Environment

\* With one worker, and no Automation that references the target without ever
\* claiming it, a target off the record is where Reactor first found it.
THEOREM SerialRoundTrip ==
  ASSUME MaxConcurrentReconciles = 1, Askers = Automations
  PROVE  Spec => []RoundTrip
<1>1. Init => HomeInv
  BY DEF Init, HomeInv, FoundAtHome, Homing, Idle, Blank, Recorded, Sighted, Writing
<1>2. SerialInv /\ HomeInv /\ [Next]_vars => HomeInv'
  BY HomeStep
<1>3. HomeInv => RoundTrip
  BY DEF HomeInv, LeftToReactor, FoundAtHome, RoundTrip
<1>. QED  BY <1>1, <1>2, <1>3, SerialInvariant, PTL DEF Spec


-----------------------------------------------------------------------------
(* The last one out. *)

\* a is the only Automation left.
LastOne(a) == \A b \in Automations \ {a} : mode[b] = "gone"

\* The pass that finalizes the last Automation claims nothing for anybody: it
\* hands the target back, or found nothing on record.
Parting(a) ==
  LET p == pass[a]
  IN  p.at # "idle" /\ p.mode = "deleting" /\ LastOne(a) =>
        /\ ~p.claiming
        /\ p.at \in {"listed", "read"} => p.peers = {}
        /\ p.at = "folded" => p.claims = {}
        /\ p.at \notin {"record", "patch", "reread"}
        /\ p.at \in Writing => p.op = "release"
        /\ p.at = "done" => ~Recorded(target)

\* Nobody leaves but through its finalizer, with no pass of it in flight, and
\* not before the target is let go when it is the last.
Departing ==
  /\ \A a \in Automations : mode[a] # "gone" => a \in finalizer
  /\ \A a \in Automations : mode[a] = "gone" => pass[a].at = "idle"
  /\ \A a \in Automations : Parting(a)
  /\ (\A a \in Automations : mode[a] = "gone") => ~Recorded(target)

LeaveInv == ~GaveUp => Departing

\* Who gave up has given up for good.
LEMMA GaveUpStays ==
  ASSUME TypeOK, [Next]_vars, GaveUp
  PROVE  GaveUp'
<1>. USE DEF objects, world, history
<1>1. PICK g \in Automations : attempts[g] = MaxReleaseAttempts
  BY DEF GaveUp
<1>2. SUFFICES attempts'[g] = MaxReleaseAttempts
  BY DEF GaveUp
<1>3. CASE attempts' = attempts
  BY <1>1, <1>3
<1>4. ASSUME NEW a \in Automations, ReportFailure(a), attempts' # attempts
      PROVE  attempts'[g] = MaxReleaseAttempts
  <2>1. attempts[a] + 1 < MaxReleaseAttempts /\ attempts' = [attempts EXCEPT ![a] = @ + 1]
    BY <1>4 DEF ReportFailure
  <2>2. a # g
    BY <1>1, <2>1, ConstantsAssumption DEF TypeOK
  <2>. QED  BY <1>1, <2>1, <2>2 DEF TypeOK
<1>5. ASSUME NEW a \in Automations, GiveUp(a) PROVE attempts'[g] = MaxReleaseAttempts
  BY <1>1, <1>5 DEF GiveUp, TypeOK
<1>6. ASSUME NEW a \in Automations,
             Begin(a) \/ HoldLastKnown(a) \/ BeginFinalize(a) \/ Proceed(a),
             ~ReportFailure(a), ~GiveUp(a)
      PROVE  attempts' = attempts
  BY <1>6 DEF Begin, HoldLastKnown, BeginFinalize, Proceed, ListPeers, GetTarget, ReadTarget,
     Fold, Decline, Claim, Release, LeaveAlone, ReadLevel, RecordBaseline, RecordConflict,
     RereadTarget, RefreshClaimants, ReadScale, UpdateScale, ScaleConflict, ApplySwitch,
     ClearAnnotations, Commit, Finalized
<1>7. Environment => attempts' = attempts
  BY DEF Environment, Observe, Edit, Touch, Autoscale, Crash, Respec, Delete, Fail, DropReport
<1>8. UNCHANGED vars => attempts' = attempts
  BY DEF vars
<1>. QED  BY <1>3, <1>4, <1>5, <1>6, <1>7, <1>8 DEF Next

\* The steps that take a pass further without ending it.
Advances(a) ==
  \/ ListPeers(a) \/ GetTarget(a) \/ Fold(a)
  \/ Decline(a) \/ Claim(a) \/ Release(a) \/ LeaveAlone(a)
  \/ ReadLevel(a) \/ RecordBaseline(a) \/ RecordConflict(a) \/ RereadTarget(a)
  \/ RefreshClaimants(a)
  \/ ReadScale(a) \/ UpdateScale(a) \/ ScaleConflict(a) \/ ApplySwitch(a)
  \/ ClearAnnotations(a) \/ Fail(a)

\* A pass keeps the mode it began in, and whether it claims for itself.
LEMMA KeepsItsMode ==
  ASSUME TypeOK, NEW a \in Automations, Advances(a)
  PROVE  /\ pass'[a].mode = pass[a].mode /\ pass'[a].claiming = pass[a].claiming
         /\ UNCHANGED objects
<1>. USE DEF objects, world, history
<1>0. pass[a] \in Pass
  BY DEF TypeOK
<1>1. ASSUME NEW p, Step(a, p) PROVE pass'[a] = p
  BY <1>1 DEF Step, TypeOK
<1>2. CASE Fold(a)
  <2>1. PICK c, d : Step(a, [pass[a] EXCEPT !.at = "folded", !.claims = c, !.back = d,
                                            !.peers = {}, !.inForce = {}, !.held = {}])
    BY <1>2 DEF Fold
  <2>2. pass'[a] = [pass[a] EXCEPT !.at = "folded", !.claims = c, !.back = d,
                                   !.peers = {}, !.inForce = {}, !.held = {}]
    BY <1>1, <2>1
  <2>. QED  BY <1>0, <1>2, <2>2 DEF Fold, Pass
<1>3. CASE Decline(a) \/ Release(a)
  <2>1. PICK level : HandBack(a, level)
    BY <1>3 DEF Decline, Release
  <2>2. PICK phase : pass'[a] = [pass[a] EXCEPT !.at = phase, !.op = "release",
                                   !.level = level, !.claims = {}, !.back = {}]
    BY <1>1, <2>1 DEF HandBack
  <2>. QED  BY <1>0, <1>3, <2>2 DEF Decline, Release, Pass
<1>4. CASE Claim(a)
  <2>1. PICK level : Step(a, [pass[a] EXCEPT !.at = "record", !.op = "claim",
                                             !.level = level, !.back = {}])
    BY <1>4 DEF Claim
  <2>2. pass'[a] = [pass[a] EXCEPT !.at = "record", !.op = "claim",
                                   !.level = level, !.back = {}]
    BY <1>1, <2>1
  <2>. QED  BY <1>0, <1>4, <2>2 DEF Claim, Pass
<1>5. CASE ListPeers(a) \/ GetTarget(a) \/ LeaveAlone(a)
  BY <1>0, <1>1, <1>5 DEF ListPeers, GetTarget, ReadTarget, LeaveAlone, Pass
<1>6. CASE ReadLevel(a) \/ RecordConflict(a) \/ RereadTarget(a) \/ ScaleConflict(a) \/ Fail(a)
  BY <1>0, <1>1, <1>6 DEF ReadLevel, RecordConflict, RereadTarget, ReadTarget, ScaleConflict,
     Fail, Pass
<1>7. CASE RecordBaseline(a) \/ RefreshClaimants(a)
  BY <1>0, <1>1, <1>7 DEF RecordBaseline, RefreshClaimants, Pass
<1>8. CASE ReadScale(a) \/ UpdateScale(a) \/ ApplySwitch(a) \/ ClearAnnotations(a)
  BY <1>0, <1>1, <1>8 DEF ReadScale, UpdateScale, ApplySwitch, ClearAnnotations, Pass
<1>. QED  BY <1>2, <1>3, <1>4, <1>5, <1>6, <1>7, <1>8 DEF Advances

\* The last pass advances towards letting the target go, and nowhere else.
LEMMA PartingStep ==
  ASSUME ~DryRun, SerialInv, NEW a \in Automations, Parting(a), Advances(a)
  PROVE  Parting(a)'
<1>. USE DEF objects, world, history
<1>0. TypeOK /\ pass[a] \in Pass /\ Placed(a) /\ Sound(a) /\ target \in Target
  BY DEF SerialInv, TypeOK, IInv
<1>1. /\ pass'[a].mode = pass[a].mode /\ pass'[a].claiming = pass[a].claiming /\ mode' = mode
  BY <1>0, KeepsItsMode
<1>2. SUFFICES ASSUME pass[a].mode = "deleting", LastOne(a)
               PROVE  /\ pass'[a].at \in {"listed", "read"} => pass'[a].peers = {}
                      /\ pass'[a].at = "folded" => pass'[a].claims = {}
                      /\ pass'[a].at \notin {"record", "patch", "reread"}
                      /\ pass'[a].at \in Writing => pass'[a].op = "release"
                      /\ pass'[a].at = "done" => ~Recorded(target)'
                      /\ ~pass[a].claiming
  BY <1>1 DEF Parting, LastOne
<1>3. pass[a].at # "idle"
  BY <1>0, StepsInFlight DEF Advances, Proceed, InFlight
<1>4. /\ ~pass[a].claiming
      /\ pass[a].at \in {"listed", "read"} => pass[a].peers = {}
      /\ pass[a].at = "folded" => pass[a].claims = {}
      /\ pass[a].at \notin {"record", "patch", "reread"}
      /\ pass[a].at \in Writing => pass[a].op = "release"
      /\ pass[a].at = "done" => ~Recorded(target)
  BY <1>2, <1>3 DEF Parting
<1>5. ASSUME NEW p, Step(a, p) PROVE pass'[a] = p
  BY <1>0, <1>5 DEF Step, TypeOK
<1>. USE DEF Writing
<1>6. CASE ListPeers(a)
  <2>. DEFINE peers == {p \in Automations \ {a} : mode[p] # "gone"}
  <2>1. peers = {}
    BY <1>2 DEF LastOne
  <2>. HIDE DEF peers
  <2>2. PICK x, y : pass'[a] = [pass[a] EXCEPT !.at = "listed", !.peers = peers,
                                               !.inForce = x, !.held = y]
    BY <1>5, <1>6 DEF ListPeers, peers
  <2>3. pass'[a].at = "listed" /\ pass'[a].peers = peers
    BY <1>0, <2>2 DEF Pass
  <2>. QED  BY <1>4, <2>1, <2>3
<1>7. CASE GetTarget(a)
  <2>1. pass[a].at = "listed" /\ pass'[a].at = "read" /\ pass'[a].peers = pass[a].peers
    BY <1>0, <1>5, <1>7 DEF GetTarget, ReadTarget, At, Pass
  <2>. QED  BY <1>4, <2>1
<1>8. CASE Fold(a)
  <2>. DEFINE all == pass[a].peers \cup {a}
              count == {p \in all : Counts(a, p)}
              back == {ReversalLevel(p, pass[a].snap.baseline) : p \in all \ count}
  <2>1. pass[a].peers = {}
    BY <1>4, <1>8 DEF Fold, At
  <2>2. count = {}
    BY <1>4, <2>1 DEF Counts
  <2>. HIDE DEF count
  <2>3. pass'[a].at = "folded" /\ pass'[a].claims = count \cap Askers
    BY <1>0, <1>8, FoldMakes DEF count
  <2>. QED  BY <1>4, <2>2, <2>3
<1>9. CASE Decline(a) \/ Release(a)
  <2>1. PICK level : HandBack(a, level)
    BY <1>9 DEF Decline, Release
  <2>2. pass'[a].at \in {"clear", "apply"} /\ pass'[a].op = "release"
    BY <1>0, <2>1, HandBackMakes
  <2>. QED  BY <1>4, <2>2
<1>10. ~Claim(a)
  BY <1>4 DEF Claim, At
<1>11. CASE LeaveAlone(a)
  <2>1. pass[a].at = "folded" /\ pass'[a].at = "done" /\ target' = target
    BY <1>0, <1>5, <1>11 DEF LeaveAlone, At, Pass
  <2>2. ~Recorded(pass[a].snap)
    BY <1>11 DEF LeaveAlone
  <2>3. pass[a].snap.baseline = target.baseline
    BY <1>0, <2>1 DEF Placed, Sighted
  <2>. QED  BY <1>4, <2>1, <2>2, <2>3 DEF Recorded
<1>12. ~ReadLevel(a) /\ ~RecordBaseline(a) /\ ~RecordConflict(a) /\ ~RereadTarget(a)
       /\ ~RefreshClaimants(a)
  BY <1>4 DEF ReadLevel, RecordBaseline, RecordConflict, RereadTarget, RefreshClaimants, At
<1>13. CASE ReadScale(a) \/ UpdateScale(a) \/ ApplySwitch(a)
  <2>1. pass[a].at \in Writing
    BY <1>13 DEF ReadScale, UpdateScale, ApplySwitch, At
  <2>2. AfterApply(pass[a]) = "clear"
    BY <1>4, <2>1 DEF AfterApply
  <2>3. pass'[a].at \in {"update", AfterApply(pass[a])} /\ pass'[a].op = pass[a].op
    BY <1>0, <1>5, <1>13 DEF ReadScale, UpdateScale, ApplySwitch, Pass
  <2>. QED  BY <1>4, <2>1, <2>2, <2>3
<1>14. CASE ClearAnnotations(a)
  <2>1. pass[a].at = "clear" /\ pass'[a].at = "done"
    BY <1>0, <1>5, <1>14 DEF ClearAnnotations, At, Pass
  <2>2. Recorded(pass[a].snap)
    BY <1>0, <2>1 DEF Placed, Sighted, Recorded
  <2>3. target'.baseline = NoLevel
    BY <1>0, <1>14, <2>2 DEF ClearAnnotations, WriteTarget, Target
  <2>. QED  BY <1>4, <2>1, <2>3 DEF Recorded
<1>15. CASE ScaleConflict(a) \/ Fail(a)
  <2>1. pass'[a].at = "failed"
    BY <1>0, <1>5, <1>15 DEF ScaleConflict, Fail, Pass
  <2>. QED  BY <1>4, <2>1
<1>. QED  BY <1>6, <1>7, <1>8, <1>9, <1>10, <1>11, <1>12, <1>13, <1>14, <1>15 DEF Advances

\* Nobody leaves otherwise, whatever a single worker or the environment does.
LEMMA LeaveStep ==
  ASSUME MaxConcurrentReconciles = 1, ~DryRun, SerialInv, LeaveInv, [Next]_vars
  PROVE  LeaveInv'
<1>. USE DEF objects, world, history
<1>0. /\ TypeOK /\ Alone /\ target \in Target
      /\ \A a \in Automations : pass[a] \in Pass
  BY DEF SerialInv, TypeOK
<1>. SUFFICES ASSUME ~GaveUp' PROVE Departing'
  BY DEF LeaveInv
<1>1. /\ \A a \in Automations : mode[a] # "gone" => a \in finalizer
      /\ \A a \in Automations : mode[a] = "gone" => pass[a].at = "idle"
      /\ \A a \in Automations : Parting(a)
      /\ (\A a \in Automations : mode[a] = "gone") => ~Recorded(target)
  BY <1>0, GaveUpStays DEF LeaveInv, Departing
<1>2. ASSUME UNCHANGED <<mode, pass>>, target'.baseline = target.baseline,
             \A a \in Automations : mode[a] # "gone" => a \in finalizer'
      PROVE  Departing'
  BY <1>1, <1>2 DEF Departing, Parting, LastOne, Recorded
<1>3. ASSUME NEW a \in Automations, HoldLastKnown(a) PROVE Departing'
  <2>1. \A b \in Automations : mode[b] # "gone" => b \in finalizer'
    BY <1>1, <1>3 DEF HoldLastKnown, KeepFinalizer
  <2>. QED  BY <1>2, <1>3, <2>1 DEF HoldLastKnown
<1>4. ASSUME NEW a \in Automations, Begin(a) \/ BeginFinalize(a) PROVE Departing'
  <2>1. InFlight = {}
    BY <1>4, StartsAlone DEF Begin, BeginFinalize
  <2>2. \A b \in Automations \ {a} : pass'[b] = pass[b] /\ pass'[b].at = "idle"
    BY <1>0, <1>4, <2>1 DEF Begin, BeginFinalize, Step, TypeOK, InFlight
  <2>3. pass'[a].at = "begun" /\ (pass'[a].mode = "deleting" => ~pass'[a].claiming)
    <3>1. CASE Begin(a)
      <4>1. PICK h : Step(a, [Idle EXCEPT !.at = "begun", !.mode = mode[a], !.matching = h,
                                 !.claiming = h /\ mode[a] = "live"])
        BY <3>1 DEF Begin
      <4>2. pass'[a].at = "begun" /\ pass'[a].mode = mode[a]
        BY <1>0, <4>1 DEF Step, TypeOK, Idle, Blank
      <4>. QED  BY <3>1, <4>2 DEF Begin
    <3>2. CASE BeginFinalize(a)
      BY <1>0, <3>2 DEF BeginFinalize, Step, TypeOK, Idle, Blank
    <3>. QED  BY <1>4, <3>1, <3>2
  <2>4. mode[a] # "gone" /\ UNCHANGED <<mode, target>>
        /\ \A b \in Automations : mode[b] # "gone" => b \in finalizer'
    BY <1>1, <1>4 DEF Begin, BeginFinalize, KeepFinalizer
  <2>5. \A b \in Automations : Parting(b)'
    BY <2>2, <2>3 DEF Parting, Writing
  <2>. QED  BY <1>1, <2>2, <2>4, <2>5 DEF Departing
<1>5. ASSUME NEW a \in Automations, Advances(a) PROVE Departing'
  <2>1. a \in InFlight /\ \A b \in Automations \ {a} : pass'[b] = pass[b]
    BY <1>0, <1>5, StepsInFlight DEF Advances, Proceed
  <2>2. UNCHANGED objects
    BY <1>0, <1>5, KeepsItsMode
  <2>3. mode[a] # "gone"
    BY <1>1, <2>1 DEF InFlight
  <2>4. \A b \in Automations \ {a} : pass'[b].at = "idle"
    BY <1>0, <2>1 DEF Alone, InFlight
  <2>5. Parting(a)'
    BY <1>1, <1>5, PartingStep
  <2>6. \A b \in Automations : Parting(b)'
    BY <2>4, <2>5 DEF Parting
  <2>. QED  BY <1>1, <2>1, <2>2, <2>3, <2>4, <2>6 DEF Departing
<1>6. ASSUME NEW a \in Automations,
             Commit(a) \/ Finalized(a) \/ ReportFailure(a) \/ GiveUp(a) \/ DropReport(a)
      PROVE  Departing'
  <2>1. a \in InFlight /\ \A b \in Automations \ {a} : pass'[b] = pass[b]
    BY <1>0, <1>6, StepsInFlight DEF Proceed
  <2>2. pass'[a].at = "idle" /\ target' = target
    BY <1>0, <1>6 DEF Commit, Finalized, ReportFailure, GiveUp, DropReport, End, Finish, Step,
       TypeOK, Idle, Blank
  <2>3. \A b \in Automations : pass'[b].at = "idle"
    BY <1>0, <2>1, <2>2 DEF Alone, InFlight
  <2>4. \A b \in Automations : Parting(b)'
    BY <2>3 DEF Parting
  <2>5. mode[a] # "gone"
    BY <1>1, <2>1 DEF InFlight
  <2>6. CASE mode' = mode /\ finalizer' = finalizer
    BY <1>1, <2>3, <2>4, <2>5, <2>6 DEF Departing
  <2>7. CASE Finalized(a)
    <3>1. pass[a].at = "done" /\ pass[a].mode = "deleting"
          /\ mode' = [mode EXCEPT ![a] = "gone"] /\ finalizer' = finalizer \ {a}
      BY <2>7 DEF Finalized, LetGo, At
    <3>2. mode'[a] = "gone" /\ \A b \in Automations \ {a} : mode'[b] = mode[b]
      BY <1>0, <3>1 DEF TypeOK
    <3>3. (\A b \in Automations : mode'[b] = "gone") => ~Recorded(target)
      BY <1>1, <3>1, <3>2 DEF Parting, LastOne
    <3>. QED  BY <1>1, <2>2, <2>3, <2>4, <3>1, <3>2, <3>3 DEF Departing
  <2>8. ~GiveUp(a)
    <3>1. GiveUp(a) => attempts'[a] = MaxReleaseAttempts
      BY <1>0 DEF GiveUp, TypeOK
    <3>. QED  BY <3>1 DEF GaveUp
  <2>. QED  BY <1>6, <2>6, <2>7, <2>8 DEF Commit, ReportFailure, DropReport
<1>7. ASSUME NEW a \in Automations, Respec(a) \/ Delete(a) PROVE Departing'
  <2>1. UNCHANGED <<target, finalizer, pass>>
    BY <1>7 DEF Respec, Delete
  <2>2. mode[a] # "gone"
    BY <1>7 DEF Respec, Delete
  <2>3. mode'[a] # "gone" /\ \A b \in Automations \ {a} : mode'[b] = mode[b]
    <3>1. CASE Respec(a)
      BY <1>0, <3>1 DEF Respec, TypeOK
    <3>2. CASE Delete(a)
      BY <1>0, <1>1, <2>2, <3>2 DEF Delete, TypeOK
    <3>. QED  BY <1>7, <3>1, <3>2
  <2>4. \A b \in Automations : mode'[b] = "gone" <=> mode[b] = "gone"
    BY <2>2, <2>3
  <2>5. \A b \in Automations : Parting(b)'
    BY <1>1, <2>1, <2>4 DEF Parting, LastOne
  <2>. QED  BY <1>1, <2>1, <2>4, <2>5 DEF Departing
<1>8. ASSUME Observe \/ Edit \/ Touch \/ Autoscale PROVE Departing'
  <2>1. UNCHANGED <<mode, pass, finalizer>> /\ target'.baseline = target.baseline
    BY <1>0, <1>8 DEF Observe, Edit, Touch, Autoscale, Target
  <2>. QED  BY <1>1, <1>2, <2>1
<1>9. ASSUME Crash PROVE Departing'
  <2>1. UNCHANGED <<mode, target, finalizer>> /\ \A a \in Automations : pass'[a].at = "idle"
    BY <1>9 DEF Crash, Idle, Blank
  <2>. QED  BY <1>1, <2>1 DEF Departing, Parting
<1>10. ASSUME UNCHANGED vars PROVE Departing'
  <2>1. UNCHANGED <<mode, pass, finalizer, target>>
    BY <1>10 DEF vars
  <2>. QED  BY <1>1, <1>2, <2>1
<1>. QED
  BY <1>3, <1>4, <1>5, <1>6, <1>7, <1>8, <1>9, <1>10 DEF Next, Environment, Proceed, Advances

\* With one worker, and every Automation under the finalizer when the operator
\* starts, nothing of Reactor's is left on the target once they are all gone,
\* whoever was deleted when, and whatever failed or restarted in between.
THEOREM SerialNothingLeftHeld ==
  ASSUME MaxConcurrentReconciles = 1, DryRun \/ Adopted = Automations
  PROVE  Spec => []NothingLeftHeld
<1>1. CASE DryRun
  <2>1. DryRunInv /\ HeldIsRecorded => NothingLeftHeld
    BY <1>1 DEF DryRunInv, Harmless, HeldIsRecorded, NothingLeftHeld
  <2>. QED  BY <2>1, DryRunInvariant, SerialClaimsAreBacked, PTL
<1>2. CASE ~DryRun
  <2>1. Init => LeaveInv
    <3>1. Init => Departing
      BY <1>1, <1>2 DEF Init, Departing, Parting, Idle, Blank, Recorded
    <3>. QED  BY <3>1 DEF LeaveInv
  <2>2. SerialInv /\ LeaveInv /\ [Next]_vars => LeaveInv'
    BY <1>2, LeaveStep
  <2>3. LeaveInv /\ HeldIsRecorded => NothingLeftHeld
    BY DEF LeaveInv, Departing, HeldIsRecorded, NothingLeftHeld
  <2>. QED  BY <2>1, <2>2, <2>3, SerialInvariant, SerialClaimsAreBacked, PTL DEF Spec
<1>. QED  BY <1>1, <1>2

======================================================================
