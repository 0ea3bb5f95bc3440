------------------------- MODULE TargetClaimsProofs -------------------------
(***************************************************************************)
(* Theorems about TargetClaims, for any number of Automations, any levels, *)
(* any reversal policies, any number of workers and any disturbances.      *)
(***************************************************************************)
EXTENDS TargetClaims, ArbiterProofs, FiniteSetTheorems

\* A pass that has not started is a well-formed pass.
LEMMA IdleIsAPass == Idle \in Pass
<1>1. AnyTarget \in Target
  BY ConstantsAssumption DEF AnyTarget, Target, Optional
<1>. QED  BY <1>1 DEF Idle, Blank, Pass, Phases, Optional

\* A claim resolves to a level that somebody may ask for.
LEMMA ClaimIsALevel ==
  ASSUME NEW claims \in SUBSET Askers, claims # {}
  PROVE  Resolve({Intent(p, ClaimLevel[p]) : p \in claims}).level \in Levels
<1>. DEFINE intents == {Intent(p, ClaimLevel[p]) : p \in claims}
            asked == LevelsOf(intents)
<1>1. \A i \in intents : i.level \in Levels
  BY ConstantsAssumption DEF Intent, Askers
<1>2. intents # {}
  OBVIOUS
<1>3. asked \in SUBSET Nat /\ asked # {} /\ asked \subseteq Levels
  <2>. HIDE DEF intents
  <2>1. \A l \in asked : l \in Levels
    BY <1>1 DEF LevelsOf
  <2>2. PICK i \in intents : TRUE
    BY <1>2
  <2>3. i.level \in asked
    BY <2>2 DEF LevelsOf
  <2>. QED  BY <2>1, <2>3, ConstantsAssumption
<1>4. Meet(asked) \in asked
  <2>. HIDE DEF asked
  <2>. QED  BY <1>3, MeetIsLeast
<1>5. Resolve(intents).level = Meet(asked)
  BY DEF Resolve
<1>. QED  BY <1>3, <1>4, <1>5

\* The initial states are well typed.
LEMMA TypeInit == Init => TypeOK
<1>. SUFFICES ASSUME Init PROVE TypeOK
  OBVIOUS
<1>1. PICK l \in Levels : target = [level |-> l, baseline |-> NoLevel, claimedBy |-> {}]
  BY DEF Init
<1>2. target \in Target /\ original \in Levels
  BY <1>1 DEF Init, Target, Optional
<1>3. pass \in [Automations -> Pass]
  BY IdleIsAPass DEF Init
<1>4. attempts \in [Automations -> 0..MaxReleaseAttempts]
  BY ConstantsAssumption DEF Init
<1>5. spent \in [Disturbances -> Nat]
  BY DEF Init
<1>6. finalizer \subseteq Automations
  BY ConstantsAssumption DEF Init
<1>. QED  BY <1>2, <1>3, <1>4, <1>5, <1>6 DEF Init, TypeOK

\* Updating the pass of one Automation keeps the function of passes typed.
LEMMA StepType ==
  ASSUME pass \in [Automations -> Pass], NEW a \in Automations, NEW p \in Pass, Step(a, p)
  PROVE  pass' \in [Automations -> Pass]
BY DEF Step

\* The shapes of update a step makes of its pass keep it a pass.
LEMMA ListedType ==
  ASSUME NEW p \in Pass, NEW phase \in Phases, NEW x \in SUBSET Automations,
         NEW y \in SUBSET Automations, NEW z \in SUBSET Automations
  PROVE  [p EXCEPT !.at = phase, !.peers = x, !.inForce = y, !.held = z] \in Pass
BY DEF Pass

\* What Fold makes of a pass.
LEMMA FoldedType ==
  ASSUME NEW p \in Pass, NEW phase \in Phases, NEW x \in SUBSET Askers, NEW y \in SUBSET Levels
  PROVE  [p EXCEPT !.at = phase, !.claims = x, !.back = y,
                   !.peers = {}, !.inForce = {}, !.held = {}] \in Pass
BY DEF Pass

\* What leaving the target alone makes of a pass.
LEMMA BlankedType ==
  ASSUME NEW p \in Pass, NEW phase \in Phases
  PROVE  [p EXCEPT !.at = phase, !.claims = {}, !.back = {}] \in Pass
BY DEF Pass

\* What Claim makes of a pass.
LEMMA ClaimingType ==
  ASSUME NEW p \in Pass, NEW phase \in Phases, NEW x \in Optional
  PROVE  [p EXCEPT !.at = phase, !.op = "claim", !.level = x, !.back = {}] \in Pass
BY DEF Pass

\* What HandBack makes of a pass.
LEMMA ReleasingType ==
  ASSUME NEW p \in Pass, NEW phase \in Phases, NEW x \in Optional
  PROVE  [p EXCEPT !.at = phase, !.op = "release", !.level = x, !.claims = {}, !.back = {}]
           \in Pass
BY DEF Pass

\* What reading a level makes of a pass.
LEMMA FoundType ==
  ASSUME NEW p \in Pass, NEW phase \in Phases, NEW x \in Optional
  PROVE  [p EXCEPT !.at = phase, !.found = x] \in Pass
BY DEF Pass

\* What reading the target makes of a pass.
LEMMA SeenType ==
  ASSUME NEW p \in Pass, NEW phase \in Phases, NEW x \in Target
  PROVE  [p EXCEPT !.at = phase, !.snap = x] \in Pass
BY DEF Pass

\* What reading the target leaves of a pass.
LEMMA SnapType ==
  ASSUME NEW p \in Pass, NEW x \in Target
  PROVE  [p EXCEPT !.snap = x] \in Pass
BY DEF Pass

\* What moving on for the second time makes of a pass.
LEMMA RetriedType ==
  ASSUME NEW p \in Pass, NEW phase \in Phases
  PROVE  [p EXCEPT !.at = phase, !.retried = TRUE] \in Pass
BY DEF Pass

\* What recording a claim makes of a pass.
LEMMA RecordedType ==
  ASSUME NEW p \in Pass, NEW phase \in Phases, NEW x \in Target
  PROVE  [p EXCEPT !.at = phase, !.snap = x, !.found = NoLevel] \in Pass
BY DEF Pass, Optional

\* What moving on makes of a pass.
LEMMA PhaseType ==
  ASSUME NEW p \in Pass, NEW phase \in Phases
  PROVE  [p EXCEPT !.at = phase] \in Pass
BY DEF Pass

\* Counting a disturbance keeps the counters typed.
LEMMA DisturbType ==
  ASSUME spent \in [Disturbances -> Nat], NEW kind \in Disturbances, Disturb(kind)
  PROVE  spent' \in [Disturbances -> Nat]
BY DEF Disturb

\* The history a write leaves is well typed.
LEMMA AssertedType ==
  ASSUME TypeOK, NEW a \in Automations, NEW wrote, Asserted(a, wrote)
  PROVE  /\ author' \in {"user", "claim", "release"}
         /\ missedClear' \subseteq Automations
         /\ missedClaim' \subseteq Automations
         /\ crossed' \in BOOLEAN
BY DEF TypeOK, Asserted, OwnerAfter, Overtakes, InFlight

\* Every step of every actor preserves the types.
LEMMA TypeStep == TypeOK /\ (\A a \in Automations : Armed(a)) /\ [Next]_vars => TypeOK'
<1>. SUFFICES ASSUME TypeOK, \A a \in Automations : Armed(a), [Next]_vars PROVE TypeOK'
  OBVIOUS
<1>. USE DEF objects, world, history
<1>0. \A a \in Automations : pass[a] \in Pass /\ pass[a].snap \in Target
  BY DEF TypeOK, Pass
<1>1. ASSUME NEW a \in Automations, Begin(a) PROVE TypeOK'
  <2>1. PICK h \in BOOLEAN : Step(a, [Idle EXCEPT !.at = "begun", !.mode = mode[a], !.matching = h,
                                         !.claiming = h /\ mode[a] = "live"])
    BY <1>1 DEF Begin, TypeOK
  <2>2. mode[a] \in {"live", "outOfForce"}
    BY <1>1 DEF Begin
  <2>3. [Idle EXCEPT !.at = "begun", !.mode = mode[a], !.matching = h,
                     !.claiming = h /\ mode[a] = "live"] \in Pass
    BY <2>2, IdleIsAPass DEF Pass, Phases
  <2>4. pass' \in [Automations -> Pass]
    BY <2>1, <2>3, StepType DEF TypeOK
  <2>. QED  BY <1>1, <2>4 DEF TypeOK, Begin, KeepFinalizer
<1>2. ASSUME NEW a \in Automations, HoldLastKnown(a) PROVE TypeOK'
  BY <1>2 DEF TypeOK, HoldLastKnown, KeepFinalizer
<1>3. ASSUME NEW a \in Automations, BeginFinalize(a) PROVE TypeOK'
  <2>1. [Idle EXCEPT !.at = "begun", !.mode = "deleting"] \in Pass
    BY IdleIsAPass DEF Pass, Phases
  <2>2. pass' \in [Automations -> Pass]
    BY <1>3, <2>1, StepType DEF BeginFinalize, TypeOK
  <2>. QED  BY <1>3, <2>2 DEF TypeOK, BeginFinalize
<1>4. ASSUME NEW a \in Automations, ListPeers(a) PROVE TypeOK'
  <2>. DEFINE peers == {p \in Automations \ {a} : mode[p] # "gone"}
              inForce == {p \in peers : mode[p] = "live"}
              held == {p \in inForce : matching[p]}
  <2>1. [pass[a] EXCEPT !.at = "listed", !.peers = peers, !.inForce = inForce,
                        !.held = held] \in Pass
    <3>1. peers \in SUBSET Automations /\ inForce \in SUBSET Automations /\ held \in SUBSET Automations
      OBVIOUS
    <3>. HIDE DEF peers, inForce, held
    <3>. QED  BY <1>0, <3>1, ListedType DEF Phases
  <2>2. pass' \in [Automations -> Pass]
    BY <1>4, <2>1, StepType DEF ListPeers, TypeOK
  <2>. QED  BY <1>4, <2>2 DEF TypeOK, ListPeers
<1>5. ASSUME NEW a \in Automations, GetTarget(a) PROVE TypeOK'
  <2>1. [[pass[a] EXCEPT !.at = "read"] EXCEPT !.snap = target] \in Pass
    <3>1. [pass[a] EXCEPT !.at = "read"] \in Pass
      BY <1>0, PhaseType DEF Phases
    <3>2. target \in Target
      BY DEF TypeOK
    <3>. QED  BY <3>1, <3>2, SnapType
  <2>2. pass' \in [Automations -> Pass]
    BY <1>5, <2>1, StepType DEF GetTarget, TypeOK, ReadTarget
  <2>. QED  BY <1>5, <2>2 DEF TypeOK, GetTarget, ReadTarget
<1>6. ASSUME NEW a \in Automations, Fold(a) PROVE TypeOK'
  <2>. DEFINE all == pass[a].peers \cup {a}
              count == {p \in all : Counts(a, p)}
              folded == {ReversalLevel(p, pass[a].snap.baseline) : p \in all \ count}
  <2>1. all \subseteq Automations
    BY <1>0 DEF Pass
  <2>2. \A p \in Automations : ReversalLevel(p, pass[a].snap.baseline) \in Optional
    BY <1>0, ConstantsAssumption DEF ReversalLevel, Target, Optional, Policies
  <2>3. folded \ {NoLevel} \subseteq Levels
    BY <2>1, <2>2 DEF Optional
  <2>4. count \cap Askers \subseteq Askers
    OBVIOUS
  <2>. HIDE DEF folded, count
  <2>5. [pass[a] EXCEPT !.at = "folded", !.claims = count \cap Askers,
           !.back = folded \ {NoLevel}, !.peers = {}, !.inForce = {}, !.held = {}] \in Pass
    BY <1>0, <2>3, <2>4, FoldedType DEF Phases
  <2>6. pass' \in [Automations -> Pass]
    BY <1>6, <2>5, StepType DEF Fold, TypeOK, folded, count
  <2>. QED  BY <1>6, <2>6 DEF TypeOK, Fold
<1>7. ASSUME NEW a \in Automations, Decline(a) PROVE TypeOK'
  <2>. DEFINE level == pass[a].snap.baseline
  <2>1. level \in Optional
    BY <1>0 DEF Target
  <2>. HIDE DEF level
  <2>2. [pass[a] EXCEPT !.at = IF level = NoLevel THEN "clear" ELSE "apply",
           !.op = "release", !.level = level, !.claims = {}, !.back = {}] \in Pass
    BY <1>0, <2>1, ReleasingType DEF Phases
  <2>3. pass' \in [Automations -> Pass]
    BY <1>7, <2>2, StepType DEF Decline, HandBack, TypeOK, level
  <2>. QED  BY <1>7, <2>3 DEF TypeOK, Decline
<1>8. ASSUME NEW a \in Automations, Claim(a) PROVE TypeOK'
  <2>. DEFINE level == Resolve({Intent(p, ClaimLevel[p]) : p \in pass[a].claims}).level
  <2>1. level \in Levels
    BY <1>8, <1>0, ClaimIsALevel DEF Claim, Pass
  <2>. HIDE DEF level
  <2>2. [pass[a] EXCEPT !.at = "record", !.op = "claim", !.level = level, !.back = {}] \in Pass
    BY <1>0, <2>1, ClaimingType DEF Phases, Optional
  <2>3. pass' \in [Automations -> Pass]
    BY <1>8, <2>2, StepType DEF Claim, TypeOK, level
  <2>. QED  BY <1>8, <2>3 DEF TypeOK, Claim
<1>9. ASSUME NEW a \in Automations, Release(a) PROVE TypeOK'
  <2>. DEFINE level == IF pass[a].back = {} THEN NoLevel ELSE Meet(pass[a].back)
  <2>1. level \in Optional
    <3>1. pass[a].back \in SUBSET Nat /\ pass[a].back \subseteq Levels
      BY <1>0, ConstantsAssumption DEF Pass
    <3>. QED  BY <3>1, MeetIsLeast DEF Optional
  <2>. HIDE DEF level
  <2>2. [pass[a] EXCEPT !.at = IF level = NoLevel THEN "clear" ELSE "apply",
           !.op = "release", !.level = level, !.claims = {}, !.back = {}] \in Pass
    BY <1>0, <2>1, ReleasingType DEF Phases
  <2>3. pass' \in [Automations -> Pass]
    BY <1>9, <2>2, StepType DEF Release, HandBack, TypeOK, level
  <2>. QED  BY <1>9, <2>3 DEF TypeOK, Release
<1>10. ASSUME NEW a \in Automations, LeaveAlone(a) PROVE TypeOK'
  <2>1. [pass[a] EXCEPT !.at = "done", !.claims = {}, !.back = {}] \in Pass
    BY <1>0, BlankedType DEF Phases
  <2>2. pass' \in [Automations -> Pass]
    BY <1>10, <2>1, StepType DEF LeaveAlone, TypeOK
  <2>. QED  BY <1>10, <2>2 DEF TypeOK, LeaveAlone
<1>11. ASSUME NEW a \in Automations, ReadLevel(a) PROVE TypeOK'
  <2>1. [pass[a] EXCEPT !.at = "patch",
           !.found = IF Kind = "replicas" THEN target.level ELSE pass[a].snap.level] \in Pass
    BY <1>0, FoundType DEF TypeOK, Phases, Target, Optional
  <2>2. pass' \in [Automations -> Pass]
    BY <1>11, <2>1, StepType DEF ReadLevel, TypeOK
  <2>. QED  BY <1>11, <2>2 DEF TypeOK, ReadLevel
<1>12. ASSUME NEW a \in Automations, RecordBaseline(a) PROVE TypeOK'
  <2>. DEFINE t == [target EXCEPT !.baseline = pass[a].found, !.claimedBy = pass[a].claims]
  <2>1. t \in Target
    BY <1>0 DEF TypeOK, Pass, Target, Askers
  <2>. HIDE DEF t
  <2>2. [pass[a] EXCEPT !.at = "apply", !.snap = t, !.found = NoLevel] \in Pass
    BY <1>0, <2>1, RecordedType DEF Phases
  <2>3. pass' \in [Automations -> Pass]
    BY <1>12, <2>2, StepType DEF RecordBaseline, TypeOK, t
  <2>4. target' = t /\ fresh' \subseteq Automations
    BY <1>12 DEF RecordBaseline, WriteTarget, TypeOK, t
  <2>. QED  BY <1>12, <2>1, <2>3, <2>4 DEF TypeOK, RecordBaseline
<1>13. ASSUME NEW a \in Automations, RecordConflict(a) PROVE TypeOK'
  <2>1. [pass[a] EXCEPT !.at = IF pass[a].retried THEN "failed" ELSE "reread",
           !.found = NoLevel] \in Pass
    BY <1>0, FoundType DEF Phases, Optional
  <2>2. pass' \in [Automations -> Pass]
    BY <1>13, <2>1, StepType DEF RecordConflict, TypeOK
  <2>. QED  BY <1>13, <2>2 DEF TypeOK, RecordConflict
<1>14. ASSUME NEW a \in Automations, RereadTarget(a) PROVE TypeOK'
  <2>1. [[pass[a] EXCEPT !.at = "record",
           !.retried = TRUE] EXCEPT !.snap = target] \in Pass
    <3>1. [pass[a] EXCEPT !.at = "record", !.retried = TRUE] \in Pass
      BY <1>0, RetriedType DEF Phases
    <3>2. target \in Target
      BY DEF TypeOK
    <3>. QED  BY <3>1, <3>2, SnapType
  <2>2. pass' \in [Automations -> Pass]
    BY <1>14, <2>1, StepType DEF RereadTarget, TypeOK, ReadTarget
  <2>. QED  BY <1>14, <2>2 DEF TypeOK, RereadTarget, ReadTarget
<1>15. ASSUME NEW a \in Automations, RefreshClaimants(a) PROVE TypeOK'
  <2>. DEFINE t == [target EXCEPT !.claimedBy = pass[a].claims]
  <2>1. t \in Target
    BY <1>0 DEF TypeOK, Pass, Target, Askers
  <2>. HIDE DEF t
  <2>2. [pass[a] EXCEPT !.at = "apply"] \in Pass /\ [pass[a] EXCEPT !.at = "apply", !.snap = t] \in Pass
    BY <1>0, <2>1, PhaseType, SeenType DEF Phases
  <2>3. pass' \in [Automations -> Pass]
    BY <1>15, <2>2, StepType DEF RefreshClaimants, TypeOK, t
  <2>4. target' \in {target, t} /\ fresh' \subseteq Automations
    BY <1>15 DEF RefreshClaimants, WriteTarget, TypeOK, t
  <2>. QED  BY <1>15, <2>1, <2>3, <2>4 DEF TypeOK, RefreshClaimants
<1>16. ASSUME NEW a \in Automations, ReadScale(a) PROVE TypeOK'
  <2>1. AfterApply(pass[a]) \in Phases
    BY DEF AfterApply, Phases
  <2>2. [pass[a] EXCEPT !.at = AfterApply(pass[a])] \in Pass /\ [pass[a] EXCEPT !.at = "update"] \in Pass
    BY <1>0, <2>1, PhaseType DEF Phases
  <2>3. pass' \in [Automations -> Pass]
    BY <1>16, <2>2, StepType DEF ReadScale, TypeOK
  <2>4. /\ author' \in {"user", "claim", "release"}
        /\ missedClear' \subseteq Automations
        /\ missedClaim' \subseteq Automations
        /\ crossed' \in BOOLEAN
    BY <1>16, AssertedType DEF ReadScale, TypeOK
  <2>. QED  BY <1>16, <2>3, <2>4 DEF TypeOK, ReadScale
<1>17. ASSUME NEW a \in Automations, UpdateScale(a) PROVE TypeOK'
  <2>1. AfterApply(pass[a]) \in Phases
    BY DEF AfterApply, Phases
  <2>2. [pass[a] EXCEPT !.at = AfterApply(pass[a])] \in Pass
    BY <1>0, <2>1, PhaseType
  <2>3. pass' \in [Automations -> Pass]
    BY <1>17, <2>2, StepType DEF UpdateScale, TypeOK
  <2>4. /\ author' \in {"user", "claim", "release"}
        /\ missedClear' \subseteq Automations
        /\ missedClaim' \subseteq Automations
        /\ crossed' \in BOOLEAN
    BY <1>17, AssertedType DEF UpdateScale, TypeOK
  <2>5. target' \in Target /\ fresh' \subseteq Automations
    BY <1>17 DEF TypeOK, UpdateScale, WriteTarget, Target, At, Armed
  <2>. QED  BY <1>17, <2>3, <2>4, <2>5 DEF TypeOK, UpdateScale
<1>18. ASSUME NEW a \in Automations, ScaleConflict(a) PROVE TypeOK'
  <2>1. [pass[a] EXCEPT !.at = "failed"] \in Pass
    BY <1>0 DEF Pass, Phases
  <2>2. pass' \in [Automations -> Pass]
    BY <1>18, <2>1, StepType DEF ScaleConflict, TypeOK
  <2>. QED  BY <1>18, <2>2 DEF TypeOK, ScaleConflict
<1>19. ASSUME NEW a \in Automations, ApplySwitch(a) PROVE TypeOK'
  <2>. DEFINE t == [target EXCEPT !.level = pass[a].level]
  <2>1. AfterApply(pass[a]) \in Phases
    BY DEF AfterApply, Phases
  <2>2. [pass[a] EXCEPT !.at = AfterApply(pass[a])] \in Pass
    BY <1>0, <2>1, PhaseType
  <2>3. CASE pass[a].snap.level = pass[a].level
    <3>1. pass' \in [Automations -> Pass]
      BY <1>19, <2>2, <2>3, StepType DEF ApplySwitch, TypeOK
    <3>2. Asserted(a, FALSE)
      BY <1>19, <2>3 DEF ApplySwitch
    <3>. QED  BY <1>19, <2>3, <3>1, <3>2, AssertedType DEF TypeOK, ApplySwitch
  <2>4. CASE pass[a].snap.level # pass[a].level
    <3>1. t \in Target
      BY <1>19 DEF TypeOK, Target, ApplySwitch, At, Armed
    <3>. HIDE DEF t
    <3>2. [pass[a] EXCEPT !.at = AfterApply(pass[a]), !.snap = t] \in Pass
      BY <1>0, <2>1, <3>1, SeenType
    <3>3. pass' \in [Automations -> Pass]
      BY <1>19, <2>4, <3>2, StepType DEF ApplySwitch, TypeOK, t
    <3>4. Asserted(a, t # target) /\ target' = t /\ fresh' \subseteq Automations
      BY <1>19, <2>4 DEF ApplySwitch, WriteTarget, TypeOK, t
    <3>. QED  BY <1>19, <3>1, <3>3, <3>4, AssertedType DEF TypeOK, ApplySwitch
  <2>. QED  BY <2>3, <2>4
<1>20. ASSUME NEW a \in Automations, ClearAnnotations(a) PROVE TypeOK'
  <2>. DEFINE t == [target EXCEPT !.baseline = IF Recorded(pass[a].snap) THEN NoLevel ELSE @,
                                  !.claimedBy = IF pass[a].snap.claimedBy # {} THEN {} ELSE @]
  <2>1. t \in Target
    BY <1>0 DEF TypeOK, Target, Optional
  <2>. HIDE DEF t
  <2>2. [pass[a] EXCEPT !.at = "done"] \in Pass
    BY <1>0, PhaseType DEF Phases
  <2>3. pass' \in [Automations -> Pass]
    BY <1>20, <2>2, StepType DEF ClearAnnotations, TypeOK
  <2>4. target' = t /\ fresh' \subseteq Automations
    BY <1>20 DEF ClearAnnotations, WriteTarget, TypeOK, t
  <2>5. missedClear' \subseteq Automations
    BY <1>20 DEF ClearAnnotations, TypeOK, Overtakes, InFlight
  <2>6. author' \in {"user", "claim", "release"} /\ crossed' \in BOOLEAN
    BY <1>20 DEF ClearAnnotations, TypeOK
  <2>. QED  BY <1>20, <2>1, <2>3, <2>4, <2>5, <2>6 DEF TypeOK, ClearAnnotations
<1>21. ASSUME NEW a \in Automations, Commit(a) PROVE TypeOK'
  <2>1. pass' \in [Automations -> Pass]
    BY <1>21, IdleIsAPass, StepType DEF Commit, End, Finish, TypeOK
  <2>2. matching' \in [Automations -> BOOLEAN]
    BY <1>21 DEF TypeOK, Commit, Pass
  <2>. QED  BY <1>21, <2>1, <2>2 DEF TypeOK, Commit, End
<1>22. ASSUME NEW a \in Automations, Finalized(a) PROVE TypeOK'
  <2>1. pass' \in [Automations -> Pass]
    BY <1>22, IdleIsAPass, StepType DEF Finalized, End, Finish, TypeOK
  <2>2. matching' \in [Automations -> BOOLEAN]
    BY <1>22 DEF TypeOK, Finalized, Pass
  <2>. QED  BY <1>22, <2>1, <2>2 DEF TypeOK, Finalized, End, LetGo
<1>23. ASSUME NEW a \in Automations, ReportFailure(a) PROVE TypeOK'
  <2>1. pass' \in [Automations -> Pass]
    BY <1>23, IdleIsAPass, StepType DEF ReportFailure, End, Finish, TypeOK
  <2>2. attempts' \in [Automations -> 0..MaxReleaseAttempts]
    BY <1>23, ConstantsAssumption DEF ReportFailure, TypeOK
  <2>. QED  BY <1>23, <2>1, <2>2 DEF TypeOK, ReportFailure, End
<1>24. ASSUME NEW a \in Automations, GiveUp(a) PROVE TypeOK'
  <2>1. pass' \in [Automations -> Pass]
    BY <1>24, IdleIsAPass, StepType DEF GiveUp, End, Finish, TypeOK
  <2>2. attempts' \in [Automations -> 0..MaxReleaseAttempts]
    BY <1>24, ConstantsAssumption DEF GiveUp, TypeOK
  <2>. QED  BY <1>24, <2>1, <2>2 DEF TypeOK, GiveUp, End, LetGo
<1>25. ASSUME NEW a \in Automations, DropReport(a) PROVE TypeOK'
  <2>1. spent' \in [Disturbances -> Nat]
    BY <1>25, DisturbType DEF DropReport, TypeOK, Disturbances
  <2>2. pass' \in [Automations -> Pass]
    BY <1>25, IdleIsAPass, StepType DEF DropReport, End, Finish, TypeOK
  <2>. QED  BY <1>25, <2>1, <2>2 DEF TypeOK, DropReport, End
<1>26. ASSUME NEW a \in Automations, Fail(a) PROVE TypeOK'
  <2>1. spent' \in [Disturbances -> Nat]
    BY <1>26, DisturbType DEF Fail, TypeOK, Disturbances
  <2>2. [pass[a] EXCEPT !.at = "failed"] \in Pass
    BY <1>0, PhaseType DEF Phases
  <2>3. pass' \in [Automations -> Pass]
    BY <1>26, <2>2, StepType DEF Fail, TypeOK
  <2>. QED  BY <1>26, <2>1, <2>3 DEF TypeOK, Fail
<1>27. ASSUME NEW a \in Automations, Respec(a) PROVE TypeOK'
  <2>1. spent' \in [Disturbances -> Nat]
    BY <1>27, DisturbType DEF Respec, TypeOK, Disturbances
  <2>. QED  BY <1>27, <2>1 DEF TypeOK, Respec
<1>28. ASSUME NEW a \in Automations, Delete(a) PROVE TypeOK'
  <2>1. spent' \in [Disturbances -> Nat]
    BY <1>28, DisturbType DEF Delete, TypeOK, Disturbances
  <2>. QED  BY <1>28, <2>1 DEF TypeOK, Delete
<1>29. ASSUME Observe PROVE TypeOK'
  <2>1. spent' \in [Disturbances -> Nat]
    BY <1>29, DisturbType DEF Observe, TypeOK, Disturbances
  <2>. QED  BY <1>29, <2>1 DEF TypeOK, Observe
<1>30. ASSUME Edit PROVE TypeOK'
  <2>1. spent' \in [Disturbances -> Nat]
    BY <1>30, DisturbType DEF Edit, TypeOK, Disturbances
  <2>. QED  BY <1>30, <2>1 DEF TypeOK, Edit, Target
<1>31. ASSUME Touch PROVE TypeOK'
  <2>1. spent' \in [Disturbances -> Nat]
    BY <1>31, DisturbType DEF Touch, TypeOK, Disturbances
  <2>. QED  BY <1>31, <2>1 DEF TypeOK, Touch
<1>32. ASSUME Autoscale PROVE TypeOK'
  <2>1. spent' \in [Disturbances -> Nat]
    BY <1>32, DisturbType DEF Autoscale, TypeOK, Disturbances
  <2>. QED  BY <1>32, <2>1 DEF TypeOK, Autoscale
<1>33. ASSUME Crash PROVE TypeOK'
  <2>1. spent' \in [Disturbances -> Nat]
    BY <1>33, DisturbType DEF Crash, TypeOK, Disturbances
  <2>2. pass' \in [Automations -> Pass]
    BY <1>33, IdleIsAPass DEF Crash
  <2>. QED  BY <1>33, <2>1, <2>2 DEF TypeOK, Crash
<1>34. ASSUME UNCHANGED vars PROVE TypeOK'
  BY <1>34 DEF vars, TypeOK
<1>. QED
  BY <1>1, <1>2, <1>3, <1>4, <1>5, <1>6, <1>7, <1>8, <1>9, <1>10, <1>11, <1>12, <1>13, <1>14, <1>15, <1>16, <1>17, <1>18, <1>19, <1>20, <1>21, <1>22, <1>23, <1>24, <1>25, <1>26, <1>27, <1>28, <1>29, <1>30, <1>31, <1>32, <1>33, <1>34 DEF Next, Proceed, Environment

\* What others do leaves a pass sound as long as it is told of it: a write
\* makes its snapshot stale, a release or a claim marks it overtaken.
LEMMA Undisturbed ==
  ASSUME NEW b \in Automations, Sound(b), pass'[b] = pass[b],
         b \in fresh' => b \in fresh /\ target' = target,
         b \notin missedClear' =>
           b \notin missedClear /\ (Recorded(target) => Recorded(target)'),
         b \notin missedClaim' /\ author' = "claim" =>
           b \notin missedClaim /\ author = "claim" /\ target'.level = target.level
  PROVE  Sound(b)'
<1>1. Armed(b)'
  BY DEF Sound, Armed, Recorded
<1>2. Current(b)'
  BY DEF Sound, Current
<1>3. Backed(b)'
  BY DEF Sound, Backed, Recorded
<1>4. Owned(b)'
  BY DEF Sound, Owned
<1>. QED  BY <1>1, <1>2, <1>3, <1>4 DEF Sound

\* A pass that is not in flight relies on nothing.
LEMMA IdleIsSound ==
  ASSUME NEW a \in Automations, pass'[a] = Idle
  PROVE  Sound(a)'
BY DEF Sound, Armed, Current, Backed, Owned, Idle, Blank, AnyTarget, Recorded

\* Initially every pass is idle, hence sound.
LEMMA SoundInit == Init => IInv
<1>. SUFFICES ASSUME Init PROVE IInv
  OBVIOUS
<1>1. ASSUME NEW a \in Automations PROVE Sound(a)
  BY DEF Init, Sound, Armed, Current, Backed, Owned, Idle, Blank, AnyTarget, Recorded
<1>2. HeldIsRecordedUnlessCrossed
  BY DEF Init, HeldIsRecordedUnlessCrossed, HeldIsRecorded
<1>. QED  BY <1>1, <1>2 DEF IInv

\* Every step of every actor preserves the invariant.
LEMMA SoundStep == TypeOK /\ IInv /\ [Next]_vars => IInv'
<1>. SUFFICES ASSUME TypeOK, IInv, [Next]_vars PROVE IInv'
  OBVIOUS
<1>. USE DEF objects, world, history
<1>0. /\ pass \in [Automations -> Pass]
      /\ \A a \in Automations : pass[a] \in Pass /\ Sound(a)
      /\ HeldIsRecordedUnlessCrossed
  BY DEF TypeOK, IInv
<1>1. ASSUME NEW a \in Automations, Begin(a) PROVE IInv'
  <2>1. ASSUME NEW b \in Automations \ {a} PROVE Sound(b)'
    BY <1>0, <1>1, Undisturbed DEF Begin, Step
  <2>2. Sound(a)'
    BY <1>0, <1>1 DEF Begin, Step, Sound, Armed, Current, Backed, Owned, Pass, At, Recorded, Idle, Blank, AnyTarget
  <2>3. HeldIsRecordedUnlessCrossed'
    BY <1>0, <1>1 DEF Begin, Step, HeldIsRecordedUnlessCrossed, HeldIsRecorded, Recorded
  <2>. QED  BY <2>1, <2>2, <2>3 DEF IInv
<1>2. ASSUME NEW a \in Automations, HoldLastKnown(a) PROVE IInv'
  <2>1. ASSUME NEW b \in Automations PROVE Sound(b)'
    BY <1>0, <1>2, Undisturbed DEF HoldLastKnown
  <2>2. HeldIsRecordedUnlessCrossed'
    BY <1>0, <1>2 DEF HoldLastKnown, HeldIsRecordedUnlessCrossed, HeldIsRecorded
  <2>. QED  BY <2>1, <2>2 DEF IInv
<1>3. ASSUME NEW a \in Automations, BeginFinalize(a) PROVE IInv'
  <2>1. ASSUME NEW b \in Automations \ {a} PROVE Sound(b)'
    BY <1>0, <1>3, Undisturbed DEF BeginFinalize, Step
  <2>2. Sound(a)'
    BY <1>0, <1>3 DEF BeginFinalize, Step, Sound, Armed, Current, Backed, Owned, Pass, At, Recorded, Idle, Blank, AnyTarget
  <2>3. HeldIsRecordedUnlessCrossed'
    BY <1>0, <1>3 DEF BeginFinalize, Step, HeldIsRecordedUnlessCrossed, HeldIsRecorded, Recorded
  <2>. QED  BY <2>1, <2>2, <2>3 DEF IInv
<1>4. ASSUME NEW a \in Automations, ListPeers(a) PROVE IInv'
  <2>1. ASSUME NEW b \in Automations \ {a} PROVE Sound(b)'
    BY <1>0, <1>4, Undisturbed DEF ListPeers, Step
  <2>2. Sound(a)'
    BY <1>0, <1>4 DEF ListPeers, Step, Sound, Armed, Current, Backed, Owned, Pass, At, Recorded
  <2>3. HeldIsRecordedUnlessCrossed'
    BY <1>0, <1>4 DEF ListPeers, Step, HeldIsRecordedUnlessCrossed, HeldIsRecorded, Recorded
  <2>. QED  BY <2>1, <2>2, <2>3 DEF IInv
<1>5. ASSUME NEW a \in Automations, Fold(a) PROVE IInv'
  <2>1. ASSUME NEW b \in Automations \ {a} PROVE Sound(b)'
    BY <1>0, <1>5, Undisturbed DEF Fold, Step
  <2>2. Sound(a)'
    BY <1>0, <1>5 DEF Fold, Step, Sound, Armed, Current, Backed, Owned, Pass, At, Recorded
  <2>3. HeldIsRecordedUnlessCrossed'
    BY <1>0, <1>5 DEF Fold, Step, HeldIsRecordedUnlessCrossed, HeldIsRecorded, Recorded
  <2>. QED  BY <2>1, <2>2, <2>3 DEF IInv
<1>6. ASSUME NEW a \in Automations, Claim(a) PROVE IInv'
  <2>1. ASSUME NEW b \in Automations \ {a} PROVE Sound(b)'
    BY <1>0, <1>6, Undisturbed DEF Claim, Step
  <2>2. Sound(a)'
    <3>. DEFINE level == Resolve({Intent(p, ClaimLevel[p]) : p \in pass[a].claims}).level
    <3>1. level \in Levels
      BY <1>0, <1>6, ClaimIsALevel DEF Claim, Pass
    <3>. HIDE DEF level
    <3>2. pass'[a] = [pass[a] EXCEPT !.at = "record", !.op = "claim", !.level = level, !.back = {}]
      BY <1>0, <1>6 DEF Claim, Step, level
    <3>. QED  BY <1>0, <1>6, <3>1, <3>2 DEF Claim, At, Pass, Sound, Armed, Current, Backed, Owned, Recorded
  <2>3. HeldIsRecordedUnlessCrossed'
    BY <1>0, <1>6 DEF Claim, Step, HeldIsRecordedUnlessCrossed, HeldIsRecorded, Recorded
  <2>. QED  BY <2>1, <2>2, <2>3 DEF IInv
<1>7. ASSUME NEW a \in Automations, LeaveAlone(a) PROVE IInv'
  <2>1. ASSUME NEW b \in Automations \ {a} PROVE Sound(b)'
    BY <1>0, <1>7, Undisturbed DEF LeaveAlone, Step
  <2>2. Sound(a)'
    BY <1>0, <1>7 DEF LeaveAlone, Step, Sound, Armed, Current, Backed, Owned, Pass, At, Recorded
  <2>3. HeldIsRecordedUnlessCrossed'
    BY <1>0, <1>7 DEF LeaveAlone, Step, HeldIsRecordedUnlessCrossed, HeldIsRecorded, Recorded
  <2>. QED  BY <2>1, <2>2, <2>3 DEF IInv
<1>8. ASSUME NEW a \in Automations, ReadLevel(a) PROVE IInv'
  <2>1. ASSUME NEW b \in Automations \ {a} PROVE Sound(b)'
    BY <1>0, <1>8, Undisturbed DEF ReadLevel, Step
  <2>2. Sound(a)'
    <3>1. target.level \in Levels /\ pass[a].snap.level \in Levels
      BY <1>0 DEF TypeOK, Pass, Target
    <3>2. a \in fresh => pass[a].snap = target
      BY <1>0, <1>8 DEF ReadLevel, At, Sound, Current
    <3>3. /\ pass'[a].at = "patch" /\ pass'[a].snap = pass[a].snap
          /\ pass'[a].op = "claim" /\ pass'[a].level \in Levels
          /\ pass'[a].found \in {target.level, pass[a].snap.level}
      BY <1>0, <1>8 DEF ReadLevel, Step, At, Pass, Sound, Armed
    <3>4. Armed(a)'
      BY <1>8, <3>1, <3>3 DEF ReadLevel, Armed, Recorded
    <3>5. Current(a)'
      BY <1>8, <3>2, <3>3 DEF ReadLevel, Current
    <3>6. Backed(a)' /\ Owned(a)'
      BY <1>0, <1>8, <3>3 DEF ReadLevel, At, Sound, Backed, Owned, Recorded
    <3>. QED  BY <3>4, <3>5, <3>6 DEF Sound
  <2>3. HeldIsRecordedUnlessCrossed'
    BY <1>0, <1>8 DEF ReadLevel, Step, HeldIsRecordedUnlessCrossed, HeldIsRecorded, Recorded
  <2>. QED  BY <2>1, <2>2, <2>3 DEF IInv
<1>9. ASSUME NEW a \in Automations, RecordConflict(a) PROVE IInv'
  <2>1. ASSUME NEW b \in Automations \ {a} PROVE Sound(b)'
    BY <1>0, <1>9, Undisturbed DEF RecordConflict, Step
  <2>2. Sound(a)'
    BY <1>0, <1>9 DEF RecordConflict, Step, Sound, Armed, Current, Backed, Owned, Pass, At, Recorded
  <2>3. HeldIsRecordedUnlessCrossed'
    BY <1>0, <1>9 DEF RecordConflict, Step, HeldIsRecordedUnlessCrossed, HeldIsRecorded, Recorded
  <2>. QED  BY <2>1, <2>2, <2>3 DEF IInv
<1>10. ASSUME NEW a \in Automations, ScaleConflict(a) PROVE IInv'
  <2>1. ASSUME NEW b \in Automations \ {a} PROVE Sound(b)'
    BY <1>0, <1>10, Undisturbed DEF ScaleConflict, Step
  <2>2. Sound(a)'
    BY <1>0, <1>10 DEF ScaleConflict, Step, Sound, Armed, Current, Backed, Owned, Pass, At, Recorded
  <2>3. HeldIsRecordedUnlessCrossed'
    BY <1>0, <1>10 DEF ScaleConflict, Step, HeldIsRecordedUnlessCrossed, HeldIsRecorded, Recorded
  <2>. QED  BY <2>1, <2>2, <2>3 DEF IInv
<1>11. ASSUME NEW a \in Automations, Fail(a) PROVE IInv'
  <2>1. ASSUME NEW b \in Automations \ {a} PROVE Sound(b)'
    BY <1>0, <1>11, Undisturbed DEF Fail, Step
  <2>2. Sound(a)'
    BY <1>0, <1>11 DEF Fail, Step, Sound, Armed, Current, Backed, Owned, Pass, At, Recorded
  <2>3. HeldIsRecordedUnlessCrossed'
    BY <1>0, <1>11 DEF Fail, Step, HeldIsRecordedUnlessCrossed, HeldIsRecorded, Recorded
  <2>. QED  BY <2>1, <2>2, <2>3 DEF IInv
<1>12. ASSUME NEW a \in Automations, GetTarget(a) PROVE IInv'
  <2>1. ASSUME NEW b \in Automations \ {a} PROVE Sound(b)'
    BY <1>0, <1>12, Undisturbed DEF GetTarget, ReadTarget, Step
  <2>2. Sound(a)'
    BY <1>0, <1>12 DEF GetTarget, ReadTarget, Step, Sound, Armed, Current, Backed, Owned, Pass, At, Recorded
  <2>3. HeldIsRecordedUnlessCrossed'
    BY <1>0, <1>12 DEF GetTarget, ReadTarget, Step, HeldIsRecordedUnlessCrossed, HeldIsRecorded, Recorded
  <2>. QED  BY <2>1, <2>2, <2>3 DEF IInv
<1>13. ASSUME NEW a \in Automations, RereadTarget(a) PROVE IInv'
  <2>1. ASSUME NEW b \in Automations \ {a} PROVE Sound(b)'
    BY <1>0, <1>13, Undisturbed DEF RereadTarget, ReadTarget, Step
  <2>2. Sound(a)'
    BY <1>0, <1>13 DEF RereadTarget, ReadTarget, Step, Sound, Armed, Current, Backed, Owned, Pass, At, Recorded
  <2>3. HeldIsRecordedUnlessCrossed'
    BY <1>0, <1>13 DEF RereadTarget, ReadTarget, Step, HeldIsRecordedUnlessCrossed, HeldIsRecorded, Recorded
  <2>. QED  BY <2>1, <2>2, <2>3 DEF IInv
<1>14. ASSUME NEW a \in Automations, Decline(a) PROVE IInv'
  <2>1. ASSUME NEW b \in Automations \ {a} PROVE Sound(b)'
    BY <1>0, <1>14, Undisturbed DEF Decline, HandBack, Step
  <2>2. Sound(a)'
    <3>. DEFINE level == pass[a].snap.baseline
    <3>1. level \in Levels \cup {NoLevel}
      BY <1>0 DEF Pass, Target, Optional
    <3>. HIDE DEF level
    <3>2. /\ pass'[a].at = IF level = NoLevel THEN "clear" ELSE "apply"
          /\ pass'[a].op = "release" /\ pass'[a].level = level
          /\ pass'[a].snap = pass[a].snap
      BY <1>0, <1>14 DEF Decline, HandBack, Step, Pass, level
    <3>3. UNCHANGED <<target, fresh, author, missedClear, missedClaim>> /\ pass[a].at = "folded"
      BY <1>14 DEF Decline, At
    <3>. QED  BY <1>0, <3>1, <3>2, <3>3 DEF Sound, Armed, Current, Backed, Owned, Recorded
  <2>3. HeldIsRecordedUnlessCrossed'
    BY <1>0, <1>14 DEF Decline, HandBack, Step, HeldIsRecordedUnlessCrossed, HeldIsRecorded, Recorded
  <2>. QED  BY <2>1, <2>2, <2>3 DEF IInv
<1>15. ASSUME NEW a \in Automations, Release(a) PROVE IInv'
  <2>1. ASSUME NEW b \in Automations \ {a} PROVE Sound(b)'
    BY <1>0, <1>15, Undisturbed DEF Release, HandBack, Step
  <2>2. Sound(a)'
    <3>. DEFINE level == IF pass[a].back = {} THEN NoLevel ELSE Meet(pass[a].back)
    <3>1. level \in Levels \cup {NoLevel}
      <4>1. pass[a].back \in SUBSET Nat /\ pass[a].back \subseteq Levels
        BY <1>0, ConstantsAssumption DEF Pass
      <4>. QED  BY <4>1, MeetIsLeast
    <3>. HIDE DEF level
    <3>2. /\ pass'[a].at = IF level = NoLevel THEN "clear" ELSE "apply"
          /\ pass'[a].op = "release" /\ pass'[a].level = level
          /\ pass'[a].snap = pass[a].snap
      BY <1>0, <1>15 DEF Release, HandBack, Step, Pass, level
    <3>3. UNCHANGED <<target, fresh, author, missedClear, missedClaim>> /\ pass[a].at = "folded"
      BY <1>15 DEF Release, At
    <3>. QED  BY <1>0, <3>1, <3>2, <3>3 DEF Sound, Armed, Current, Backed, Owned, Recorded
  <2>3. HeldIsRecordedUnlessCrossed'
    BY <1>0, <1>15 DEF Release, HandBack, Step, HeldIsRecordedUnlessCrossed, HeldIsRecorded, Recorded
  <2>. QED  BY <2>1, <2>2, <2>3 DEF IInv
<1>16. ASSUME NEW a \in Automations, Commit(a) PROVE IInv'
  <2>1. ASSUME NEW b \in Automations \ {a} PROVE Sound(b)'
    BY <1>0, <1>16, Undisturbed DEF Commit, End, Finish, Step
  <2>2. Sound(a)'
    BY <1>0, <1>16, IdleIsSound DEF Commit, End, Finish, Step
  <2>3. HeldIsRecordedUnlessCrossed'
    BY <1>0, <1>16 DEF Commit, End, Finish, Step, HeldIsRecordedUnlessCrossed, HeldIsRecorded, Recorded
  <2>. QED  BY <2>1, <2>2, <2>3 DEF IInv
<1>17. ASSUME NEW a \in Automations, Finalized(a) PROVE IInv'
  <2>1. ASSUME NEW b \in Automations \ {a} PROVE Sound(b)'
    BY <1>0, <1>17, Undisturbed DEF Finalized, End, Finish, Step
  <2>2. Sound(a)'
    BY <1>0, <1>17, IdleIsSound DEF Finalized, End, Finish, Step
  <2>3. HeldIsRecordedUnlessCrossed'
    BY <1>0, <1>17 DEF Finalized, End, Finish, Step, HeldIsRecordedUnlessCrossed, HeldIsRecorded, Recorded
  <2>. QED  BY <2>1, <2>2, <2>3 DEF IInv
<1>18. ASSUME NEW a \in Automations, ReportFailure(a) PROVE IInv'
  <2>1. ASSUME NEW b \in Automations \ {a} PROVE Sound(b)'
    BY <1>0, <1>18, Undisturbed DEF ReportFailure, End, Finish, Step
  <2>2. Sound(a)'
    BY <1>0, <1>18, IdleIsSound DEF ReportFailure, End, Finish, Step
  <2>3. HeldIsRecordedUnlessCrossed'
    BY <1>0, <1>18 DEF ReportFailure, End, Finish, Step, HeldIsRecordedUnlessCrossed, HeldIsRecorded, Recorded
  <2>. QED  BY <2>1, <2>2, <2>3 DEF IInv
<1>19. ASSUME NEW a \in Automations, GiveUp(a) PROVE IInv'
  <2>1. ASSUME NEW b \in Automations \ {a} PROVE Sound(b)'
    BY <1>0, <1>19, Undisturbed DEF GiveUp, End, Finish, Step
  <2>2. Sound(a)'
    BY <1>0, <1>19, IdleIsSound DEF GiveUp, End, Finish, Step
  <2>3. HeldIsRecordedUnlessCrossed'
    BY <1>0, <1>19 DEF GiveUp, End, Finish, Step, HeldIsRecordedUnlessCrossed, HeldIsRecorded, Recorded
  <2>. QED  BY <2>1, <2>2, <2>3 DEF IInv
<1>20. ASSUME NEW a \in Automations, DropReport(a) PROVE IInv'
  <2>1. ASSUME NEW b \in Automations \ {a} PROVE Sound(b)'
    BY <1>0, <1>20, Undisturbed DEF DropReport, End, Finish, Step
  <2>2. Sound(a)'
    BY <1>0, <1>20, IdleIsSound DEF DropReport, End, Finish, Step
  <2>3. HeldIsRecordedUnlessCrossed'
    BY <1>0, <1>20 DEF DropReport, End, Finish, Step, HeldIsRecordedUnlessCrossed, HeldIsRecorded, Recorded
  <2>. QED  BY <2>1, <2>2, <2>3 DEF IInv
<1>21. ASSUME NEW a \in Automations, Respec(a) PROVE IInv'
  <2>1. ASSUME NEW b \in Automations PROVE Sound(b)'
    BY <1>0, <1>21, Undisturbed DEF Respec
  <2>2. HeldIsRecordedUnlessCrossed'
    BY <1>0, <1>21 DEF Respec, HeldIsRecordedUnlessCrossed, HeldIsRecorded
  <2>. QED  BY <2>1, <2>2 DEF IInv
<1>22. ASSUME NEW a \in Automations, Delete(a) PROVE IInv'
  <2>1. ASSUME NEW b \in Automations PROVE Sound(b)'
    BY <1>0, <1>22, Undisturbed DEF Delete
  <2>2. HeldIsRecordedUnlessCrossed'
    BY <1>0, <1>22 DEF Delete, HeldIsRecordedUnlessCrossed, HeldIsRecorded
  <2>. QED  BY <2>1, <2>2 DEF IInv
<1>23. ASSUME Observe PROVE IInv'
  <2>1. ASSUME NEW b \in Automations PROVE Sound(b)'
    BY <1>0, <1>23, Undisturbed DEF Observe
  <2>2. HeldIsRecordedUnlessCrossed'
    BY <1>0, <1>23 DEF Observe, HeldIsRecordedUnlessCrossed, HeldIsRecorded
  <2>. QED  BY <2>1, <2>2 DEF IInv
<1>24. ASSUME Touch PROVE IInv'
  <2>1. ASSUME NEW b \in Automations PROVE Sound(b)'
    BY <1>0, <1>24, Undisturbed DEF Touch
  <2>2. HeldIsRecordedUnlessCrossed'
    BY <1>0, <1>24 DEF Touch, HeldIsRecordedUnlessCrossed, HeldIsRecorded
  <2>. QED  BY <2>1, <2>2 DEF IInv
<1>25. ASSUME Autoscale PROVE IInv'
  <2>1. ASSUME NEW b \in Automations PROVE Sound(b)'
    BY <1>0, <1>25, Undisturbed DEF Autoscale
  <2>2. HeldIsRecordedUnlessCrossed'
    BY <1>0, <1>25 DEF Autoscale, HeldIsRecordedUnlessCrossed, HeldIsRecorded
  <2>. QED  BY <2>1, <2>2 DEF IInv
<1>26. ASSUME Edit PROVE IInv'
  <2>1. ASSUME NEW b \in Automations PROVE Sound(b)'
    BY <1>0, <1>26, Undisturbed DEF Edit, Recorded
  <2>2. HeldIsRecordedUnlessCrossed'
    BY <1>0, <1>26 DEF Edit, HeldIsRecordedUnlessCrossed, HeldIsRecorded, Recorded
  <2>. QED  BY <2>1, <2>2 DEF IInv
<1>27. ASSUME NEW a \in Automations, RecordBaseline(a) PROVE IInv'
  <2>. DEFINE t == [target EXCEPT !.baseline = pass[a].found, !.claimedBy = pass[a].claims]
  <2>1. /\ target' = t /\ fresh' = {a} \cup (IF t = target THEN fresh ELSE {})
        /\ pass' = [pass EXCEPT ![a] = [pass[a] EXCEPT !.at = "apply", !.snap = t, !.found = NoLevel]]
        /\ UNCHANGED <<author, missedClear, missedClaim, crossed>>
    BY <1>27 DEF RecordBaseline, WriteTarget, Step
  <2>2. t.level = target.level /\ t.baseline = pass[a].found
    BY DEF TypeOK, Target
  <2>3. /\ pass[a].found \in Levels
        /\ pass[a].op = "claim" /\ pass[a].level \in Levels
    BY <1>0, <1>27 DEF RecordBaseline, At, Sound, Armed
  <2>4. Recorded(t)
    BY <2>2, <2>3, ConstantsAssumption DEF Recorded
  <2>. HIDE DEF t
  <2>5. ASSUME NEW b \in Automations \ {a} PROVE Sound(b)'
    BY <1>0, <2>1, <2>2, <2>4, Undisturbed DEF Recorded
  <2>6. Sound(a)'
    <3>1. /\ pass'[a].at = "apply" /\ pass'[a].snap = t
          /\ pass'[a].op = "claim" /\ pass'[a].level \in Levels
      BY <1>0, <2>1, <2>3 DEF Pass
    <3>. QED  BY <2>1, <2>2, <2>4, <3>1 DEF Sound, Armed, Current, Backed, Owned, Recorded
  <2>7. HeldIsRecordedUnlessCrossed'
    BY <2>1, <2>4 DEF HeldIsRecordedUnlessCrossed, HeldIsRecorded, Recorded
  <2>. QED  BY <2>5, <2>6, <2>7 DEF IInv
<1>28. ASSUME NEW a \in Automations, RefreshClaimants(a) PROVE IInv'
  <2>. DEFINE t == [target EXCEPT !.claimedBy = pass[a].claims]
  <2>1. t.level = target.level /\ t.baseline = target.baseline
    BY DEF TypeOK, Target
  <2>2. /\ target' \in {target, t}
        /\ fresh' \subseteq {a} \cup (IF target' = target THEN fresh ELSE {})
        /\ UNCHANGED <<author, missedClear, missedClaim, crossed>>
        /\ pass[a].at = "record" /\ Recorded(pass[a].snap)
    BY <1>28 DEF RefreshClaimants, WriteTarget, At
  <2>3. /\ \A b \in Automations \ {a} : pass'[b] = pass[b]
        /\ pass'[a].at = "apply" /\ pass'[a].op = pass[a].op /\ pass'[a].level = pass[a].level
        /\ pass'[a].snap = pass[a].snap \/ pass'[a].snap = target'
    <3>1. CASE pass[a].snap.claimedBy = pass[a].claims
      <4>1. pass' = [pass EXCEPT ![a] = [pass[a] EXCEPT !.at = "apply"]]
        BY <1>28, <3>1 DEF RefreshClaimants, Step
      <4>. QED  BY <1>0, <4>1 DEF Pass
    <3>2. CASE pass[a].snap.claimedBy # pass[a].claims
      <4>1. /\ pass' = [pass EXCEPT ![a] = [pass[a] EXCEPT !.at = "apply", !.snap = t]]
            /\ target' = t
        BY <1>28, <3>2 DEF RefreshClaimants, WriteTarget, Step
      <4>. HIDE DEF t
      <4>. QED  BY <1>0, <4>1 DEF Pass
    <3>. QED  BY <3>1, <3>2
  <2>. HIDE DEF t
  <2>4. ASSUME NEW b \in Automations \ {a} PROVE Sound(b)'
    BY <1>0, <2>1, <2>2, <2>3, Undisturbed DEF Recorded
  <2>5. Sound(a)'
    BY <1>0, <2>1, <2>2, <2>3 DEF Sound, Armed, Current, Backed, Owned, Recorded
  <2>6. HeldIsRecordedUnlessCrossed'
    BY <1>0, <2>1, <2>2 DEF HeldIsRecordedUnlessCrossed, HeldIsRecorded, Recorded
  <2>. QED  BY <2>4, <2>5, <2>6 DEF IInv
<1>29. ASSUME NEW a \in Automations, ReadScale(a) PROVE IInv'
  <2>1. /\ target' = target /\ fresh' \subseteq fresh \cup {a}
        /\ UNCHANGED <<missedClear, missedClaim, crossed>>
        /\ pass[a].at = "apply" /\ Kind = "replicas"
        /\ author' = author \/ (author' = "release" /\ pass[a].op = "release")
    <3>1. crossed \in BOOLEAN
      BY DEF TypeOK
    <3>2. CASE target.level = pass[a].level
      BY <1>29, <3>1, <3>2 DEF ReadScale, Asserted, OwnerAfter, At
    <3>3. CASE target.level # pass[a].level
      BY <1>29, <3>3 DEF ReadScale, At
    <3>. QED  BY <3>2, <3>3
  <2>2. /\ \A b \in Automations \ {a} : pass'[b] = pass[b]
        /\ pass'[a].op = pass[a].op /\ pass'[a].level = pass[a].level
        /\ pass'[a].snap = pass[a].snap
        /\ \/ pass'[a].at = "update"
           \/ pass'[a].at = "done"
           \/ pass'[a].at = "clear" /\ author' = "release"
    <3>1. CASE target.level = pass[a].level
      <4>1. pass[a].op \in {"claim", "release"}
        BY <1>0, <1>29 DEF ReadScale, At, Sound, Armed, Pass
      <4>2. /\ pass' = [pass EXCEPT ![a] = [pass[a] EXCEPT !.at = AfterApply(pass[a])]]
            /\ pass[a].op = "release" => author' = "release"
        BY <1>29, <3>1 DEF ReadScale, Asserted, OwnerAfter, Step
      <4>. QED  BY <1>0, <4>1, <4>2 DEF AfterApply, Pass
    <3>2. CASE target.level # pass[a].level
      <4>1. pass' = [pass EXCEPT ![a] = [pass[a] EXCEPT !.at = "update"]]
        BY <1>29, <3>2 DEF ReadScale, Step
      <4>. QED  BY <1>0, <4>1 DEF Pass
    <3>. QED  BY <3>1, <3>2
  <2>3. ASSUME NEW b \in Automations \ {a} PROVE Sound(b)'
    BY <1>0, <2>1, <2>2, Undisturbed DEF Recorded
  <2>4. Sound(a)'
    BY <1>0, <2>1, <2>2 DEF Sound, Armed, Current, Backed, Owned, Recorded
  <2>5. HeldIsRecordedUnlessCrossed'
    BY <1>0, <2>1 DEF HeldIsRecordedUnlessCrossed, HeldIsRecorded, Recorded
  <2>. QED  BY <2>3, <2>4, <2>5 DEF IInv
<1>30. ASSUME NEW a \in Automations, UpdateScale(a) PROVE IInv'
  <2>1. target'.level = pass[a].level /\ target'.baseline = target.baseline
    BY <1>30 DEF UpdateScale, WriteTarget, TypeOK, Target
  <2>2. /\ fresh' \subseteq {a} \cup (IF target' = target THEN fresh ELSE {})
        /\ author' = OwnerAfter(pass[a])
        /\ missedClear' = missedClear
        /\ missedClaim' = IF pass[a].op = "claim" THEN missedClaim \cup Overtakes(a) ELSE missedClaim
        /\ crossed' = (crossed \/ (pass[a].op = "claim" /\ a \in missedClear))
        /\ pass[a].at = "update"
    BY <1>30 DEF UpdateScale, WriteTarget, Asserted, At
  <2>3. /\ \A b \in Automations \ {a} : pass'[b] = pass[b]
        /\ pass'[a].op = pass[a].op /\ pass'[a].level = pass[a].level
        /\ pass'[a].snap = pass[a].snap /\ pass'[a].at = AfterApply(pass[a])
    BY <1>0, <1>30 DEF UpdateScale, Step, Pass
  <2>4. Sound(a)'
    BY <1>0, <2>1, <2>2, <2>3 DEF AfterApply, OwnerAfter, Sound, Armed, Current, Backed, Owned, Recorded
  <2>5. ASSUME NEW b \in Automations \ {a} PROVE Sound(b)'
    <3>1. pass[b].at # "idle" => b \in Overtakes(a)
      BY DEF Overtakes, InFlight
    <3>2. CASE pass[b].at = "idle"
      BY <1>0, <2>1, <2>2, <2>3, <3>2 DEF OwnerAfter, Sound, Armed, Current, Backed, Owned, Recorded
    <3>3. CASE pass[b].at # "idle"
      BY <1>0, <2>1, <2>2, <2>3, <3>1, <3>3, Undisturbed DEF OwnerAfter, Recorded
    <3>. QED  BY <3>2, <3>3
  <2>6. HeldIsRecordedUnlessCrossed'
    BY <1>0, <2>1, <2>2 DEF OwnerAfter, Sound, Backed, HeldIsRecordedUnlessCrossed, HeldIsRecorded, Recorded
  <2>. QED  BY <2>4, <2>5, <2>6 DEF IInv
<1>31. ASSUME NEW a \in Automations, ApplySwitch(a) PROVE IInv'
  <2>1. CASE pass[a].snap.level = pass[a].level
    <3>1. /\ target' = target /\ fresh' = fresh
          /\ UNCHANGED <<missedClear, missedClaim, crossed>>
          /\ author' = IF pass[a].op = "release" /\ target.level = pass[a].level
                       THEN "release" ELSE author
          /\ pass[a].at = "apply" /\ Kind = "switch"
      <4>1. crossed \in BOOLEAN
        BY DEF TypeOK
      <4>. QED  BY <1>31, <2>1, <4>1 DEF ApplySwitch, Asserted, OwnerAfter, At
    <3>2. /\ \A b \in Automations \ {a} : pass'[b] = pass[b]
          /\ pass'[a].op = pass[a].op /\ pass'[a].level = pass[a].level
          /\ pass'[a].snap = pass[a].snap /\ pass'[a].at = AfterApply(pass[a])
      BY <1>0, <1>31, <2>1 DEF ApplySwitch, Step, Pass
    <3>3. pass[a].op \in {"claim", "release", "none"}
      BY <1>0 DEF Pass
    <3>4. ASSUME NEW b \in Automations \ {a} PROVE Sound(b)'
      BY <1>0, <3>1, <3>2, Undisturbed DEF Recorded
    <3>5. pass'[a].at = "clear" /\ a \notin missedClaim => author' # "claim"
      BY <1>0, <2>1, <3>1, <3>2, <3>3 DEF AfterApply, Sound, Armed, Owned
    <3>6. Sound(a)'
      BY <1>0, <3>1, <3>2, <3>5 DEF AfterApply, Sound, Armed, Current, Backed, Owned, Recorded
    <3>7. HeldIsRecordedUnlessCrossed'
      BY <1>0, <3>1 DEF HeldIsRecordedUnlessCrossed, HeldIsRecorded, Recorded
    <3>. QED  BY <3>4, <3>6, <3>7 DEF IInv
  <2>2. CASE pass[a].snap.level # pass[a].level
    <3>. DEFINE t == [target EXCEPT !.level = pass[a].level]
    <3>1. target' = t /\ t.level = pass[a].level /\ t.baseline = target.baseline
      BY <1>31, <2>2 DEF ApplySwitch, WriteTarget, TypeOK, Target
    <3>2. /\ fresh' = {a} \cup (IF t = target THEN fresh ELSE {})
          /\ missedClear' = missedClear
          /\ author' = IF t # target \/ (pass[a].op = "release" /\ t.level = pass[a].level)
                       THEN OwnerAfter(pass[a]) ELSE author
          /\ missedClaim' = IF t # target /\ pass[a].op = "claim"
                            THEN missedClaim \cup Overtakes(a) ELSE missedClaim
          /\ crossed' = (crossed \/ (t # target /\ pass[a].op = "claim" /\ a \in missedClear))
          /\ pass[a].at = "apply"
      BY <1>31, <2>2 DEF ApplySwitch, WriteTarget, Asserted, At
    <3>3. /\ \A b \in Automations \ {a} : pass'[b] = pass[b]
          /\ pass'[a].op = pass[a].op /\ pass'[a].level = pass[a].level
          /\ pass'[a].snap = t /\ pass'[a].at = AfterApply(pass[a])
      <4>1. pass' = [pass EXCEPT ![a] = [pass[a] EXCEPT !.at = AfterApply(pass[a]), !.snap = t]]
        BY <1>31, <2>2 DEF ApplySwitch, Step
      <4>. HIDE DEF t
      <4>. QED  BY <1>0, <4>1 DEF Pass
    <3>. HIDE DEF t
    <3>4. Sound(a)'
      <4>1. Armed(a)' /\ Current(a)'
        BY <3>3 DEF AfterApply, Armed, Current
      <4>2. Backed(a)'
        BY <3>1, <3>2, <3>3 DEF AfterApply, Backed
      <4>3. Owned(a)'
        <5>1. CASE pass[a].op = "claim"
          BY <3>3, <5>1 DEF AfterApply, Owned
        <5>2. CASE pass[a].op # "claim"
          BY <1>0, <3>1, <3>2, <3>3, <5>2 DEF OwnerAfter, Sound, Armed, Owned, Pass
        <5>. QED  BY <5>1, <5>2
      <4>. QED  BY <4>1, <4>2, <4>3 DEF Sound
    <3>5. ASSUME NEW b \in Automations \ {a} PROVE Sound(b)'
      <4>1. pass[b].at # "idle" => b \in Overtakes(a)
        BY DEF Overtakes, InFlight
      <4>2. CASE pass[b].at = "idle"
        BY <1>0, <3>1, <3>2, <3>3, <4>2 DEF OwnerAfter, Sound, Armed, Current, Backed, Owned, Recorded
      <4>3. CASE pass[b].at # "idle"
        BY <1>0, <3>1, <3>2, <3>3, <4>1, <4>3, Undisturbed DEF OwnerAfter, Recorded
      <4>. QED  BY <4>2, <4>3
    <3>6. HeldIsRecordedUnlessCrossed'
      BY <1>0, <3>1, <3>2 DEF OwnerAfter, Sound, Backed, HeldIsRecordedUnlessCrossed, HeldIsRecorded, Recorded
    <3>. QED  BY <3>4, <3>5, <3>6 DEF IInv
  <2>. QED  BY <2>1, <2>2
<1>32. ASSUME NEW a \in Automations, ClearAnnotations(a) PROVE IInv'
  <2>. DEFINE snap == pass[a].snap
              t == [target EXCEPT !.baseline = IF Recorded(snap) THEN NoLevel ELSE @,
                                  !.claimedBy = IF snap.claimedBy # {} THEN {} ELSE @]
  <2>1. /\ target' = t /\ t.level = target.level
        /\ t.baseline = target.baseline \/ ~Recorded(t)
    BY <1>32 DEF ClearAnnotations, WriteTarget, TypeOK, Target, Recorded
  <2>2. /\ fresh' = {a} \cup (IF t = target THEN fresh ELSE {})
        /\ missedClear' = IF t.baseline # target.baseline
                          THEN missedClear \cup Overtakes(a) ELSE missedClear
        /\ missedClaim' = missedClaim
        /\ author' = IF pass[a].level = NoLevel THEN "release" ELSE author
        /\ crossed' = (crossed \/ a \in missedClaim)
        /\ pass[a].at = "clear"
    BY <1>32 DEF ClearAnnotations, WriteTarget, At
  <2>3. /\ \A b \in Automations \ {a} : pass'[b] = pass[b]
        /\ pass'[a].at = "done"
    BY <1>0, <1>32 DEF ClearAnnotations, Step, Pass
  <2>. HIDE DEF t
  <2>4. Sound(a)'
    BY <1>0, <2>1, <2>2, <2>3 DEF Sound, Armed, Current, Backed, Owned, Recorded
  <2>5. ASSUME NEW b \in Automations \ {a} PROVE Sound(b)'
    <3>1. pass[b].at # "idle" => b \in Overtakes(a)
      BY DEF Overtakes, InFlight
    <3>2. CASE pass[b].at = "idle"
      BY <1>0, <2>1, <2>2, <2>3, <3>2 DEF Sound, Armed, Current, Backed, Owned, Recorded
    <3>3. CASE pass[b].at # "idle"
      BY <1>0, <2>1, <2>2, <2>3, <3>1, <3>3, Undisturbed DEF Recorded
    <3>. QED  BY <3>2, <3>3
  <2>6. HeldIsRecordedUnlessCrossed'
    BY <1>0, <2>1, <2>2 DEF Sound, Owned, HeldIsRecordedUnlessCrossed, HeldIsRecorded, Recorded
  <2>. QED  BY <2>4, <2>5, <2>6 DEF IInv
<1>33. ASSUME Crash PROVE IInv'
  <2>1. ASSUME NEW b \in Automations PROVE Sound(b)'
    BY <1>33, IdleIsSound DEF Crash
  <2>2. HeldIsRecordedUnlessCrossed'
    BY <1>0, <1>33 DEF Crash, HeldIsRecordedUnlessCrossed, HeldIsRecorded
  <2>. QED  BY <2>1, <2>2 DEF IInv
<1>34. ASSUME UNCHANGED vars PROVE IInv'
  BY <1>34 DEF vars, IInv, HeldIsRecordedUnlessCrossed, HeldIsRecorded, Sound, Armed, Current, Backed, Owned
<1>. QED
  BY <1>1, <1>2, <1>3, <1>4, <1>5, <1>6, <1>7, <1>8, <1>9, <1>10, <1>11, <1>12, <1>13, <1>14, <1>15, <1>16, <1>17, <1>18, <1>19, <1>20, <1>21, <1>22, <1>23, <1>24, <1>25, <1>26, <1>27, <1>28, <1>29, <1>30, <1>31, <1>32, <1>33, <1>34
     DEF Next, Proceed, Environment

\* Every reachable state is well typed and every pass in it sound.
LEMMA Invariant == Spec => [](TypeOK /\ IInv)
<1>1. Init => TypeOK /\ IInv
  BY TypeInit, SoundInit
<1>2. TypeOK /\ IInv /\ [Next]_vars => (TypeOK /\ IInv)'
  <2>1. IInv => \A a \in Automations : Armed(a)
    BY DEF IInv, Sound
  <2>. QED  BY <2>1, TypeStep, SoundStep
<1>. QED  BY <1>1, <1>2, PTL DEF Spec

\* Type correctness, for any number of Automations, levels and workers.
THEOREM TypeCorrect == Spec => []TypeOK
BY Invariant, PTL

\* A level Reactor set is on the target only while the target's own level is
\* on record, unless a reconcile went on writing after it had been overtaken.
THEOREM ClaimsAreBacked == Spec => []HeldIsRecordedUnlessCrossed
<1>1. IInv => HeldIsRecordedUnlessCrossed
  BY DEF IInv
<1>. QED  BY <1>1, Invariant, PTL

\* Only one step of the protocol puts a baseline on record.
LEMMA OnlyRecordBaseline ==
  ASSUME TypeOK, [Next]_vars, target'.baseline # target.baseline, Recorded(target)'
  PROVE  \E a \in Automations : RecordBaseline(a)
<1>. USE DEF objects, world, history
<1>1. ASSUME NEW a \in Automations,
             UpdateScale(a) \/ ApplySwitch(a) \/ RefreshClaimants(a) \/ ClearAnnotations(a)
      PROVE  FALSE
  <2>1. CASE UpdateScale(a)
    BY <2>1 DEF UpdateScale, WriteTarget, TypeOK, Target
  <2>2. CASE ApplySwitch(a)
    BY <2>2 DEF ApplySwitch, WriteTarget, TypeOK, Target
  <2>3. CASE RefreshClaimants(a)
    BY <2>3 DEF RefreshClaimants, WriteTarget, TypeOK, Target
  <2>4. CASE ClearAnnotations(a)
    BY <2>4 DEF ClearAnnotations, WriteTarget, TypeOK, Target, Recorded
  <2>. QED  BY <1>1, <2>1, <2>2, <2>3, <2>4
<1>2. ASSUME NEW a \in Automations,
             \/ Begin(a) \/ HoldLastKnown(a) \/ BeginFinalize(a)
             \/ ListPeers(a) \/ GetTarget(a) \/ Fold(a)
             \/ Decline(a) \/ Claim(a) \/ Release(a) \/ LeaveAlone(a)
             \/ ReadLevel(a) \/ RecordConflict(a) \/ RereadTarget(a)
             \/ ReadScale(a) \/ ScaleConflict(a)
             \/ Commit(a) \/ Finalized(a) \/ ReportFailure(a) \/ GiveUp(a)
             \/ Respec(a) \/ Delete(a) \/ Fail(a) \/ DropReport(a)
      PROVE  FALSE
  BY <1>2 DEF Begin, HoldLastKnown, BeginFinalize, ListPeers, GetTarget, ReadTarget, Fold,
     Decline, Claim, Release, LeaveAlone, ReadLevel, RecordConflict, RereadTarget,
     ReadScale, ScaleConflict, Commit, Finalized, ReportFailure, GiveUp, End,
     Respec, Delete, Fail, DropReport
<1>3. ASSUME Observe \/ Edit \/ Touch \/ Autoscale \/ Crash PROVE FALSE
  BY <1>3 DEF Observe, Edit, Touch, Autoscale, Crash, TypeOK, Target
<1>4. ASSUME UNCHANGED vars PROVE FALSE
  BY <1>4 DEF vars
<1>. QED  BY <1>1, <1>2, <1>3, <1>4 DEF Next, Proceed, Environment

\* Recording a baseline finds none on record and records the level it finds.
LEMMA RecordsOverNothing ==
  ASSUME TypeOK, IInv, NEW a \in Automations, RecordBaseline(a)
  PROVE  ~Recorded(target) /\ target'.baseline = target.level
<1>1. Sound(a)
  BY DEF IInv
<1>2. pass[a].found = target.level /\ ~Recorded(target)
  BY <1>1 DEF RecordBaseline, At, Sound, Armed, Current
<1>. QED  BY <1>2 DEF RecordBaseline, WriteTarget, TypeOK, Target

\* A baseline on record is never rewritten in place.
THEOREM BaselineIsRecordedOnce == Spec => RecordedOnce
<1>1. TypeOK /\ IInv /\ [Next]_vars
      => [Recorded(target) /\ Recorded(target)' => target'.baseline = target.baseline]_vars
  BY OnlyRecordBaseline, RecordsOverNothing
<1>. QED  BY <1>1, Invariant, PTL DEF Spec, RecordedOnce

\* What is put on record is the level the target has at that moment.
THEOREM TheLevelFoundIsRecorded == Spec => RecordsTheLevelFound
<1>1. TypeOK /\ IInv /\ [Next]_vars
      => [~Recorded(target) /\ Recorded(target)' => target'.baseline = target.level]_vars
  BY OnlyRecordBaseline, RecordsOverNothing DEF Recorded
<1>. QED  BY <1>1, Invariant, PTL DEF Spec, RecordsTheLevelFound

\* With a single worker a pass starts only when none is in flight.
LEMMA StartsAlone ==
  ASSUME NEW a \in Automations, MaxConcurrentReconciles = 1, HasWorker(a)
  PROVE  InFlight = {}
<1>1. IsFiniteSet(InFlight)
  BY ConstantsAssumption, FS_Subset DEF InFlight
<1>2. Cardinality(InFlight) < 1 /\ Cardinality(InFlight) \in Nat
  BY <1>1, FS_CardinalityType DEF HasWorker
<1>. QED  BY <1>1, <1>2, FS_EmptySet

\* With a single worker no pass is ever overtaken.
LEMMA StaysAlone ==
  ASSUME MaxConcurrentReconciles = 1, TypeOK, Alone, [Next]_vars
  PROVE  Alone'
<1>. USE DEF objects, world, history
<1>1. ASSUME NEW a \in Automations, Begin(a) \/ BeginFinalize(a) PROVE Alone'
  <2>1. InFlight = {}
    BY <1>1, StartsAlone DEF Begin, BeginFinalize
  <2>2. \A b \in Automations \ {a} : pass'[b] = pass[b]
    BY <1>1 DEF Begin, BeginFinalize, Step, TypeOK
  <2>3. InFlight' \subseteq {a}
    BY <2>1, <2>2 DEF InFlight
  <2>. QED  BY <1>1, <2>3 DEF Begin, BeginFinalize, Alone
<1>2. ASSUME NEW a \in Automations, Proceed(a) \/ Fail(a) \/ DropReport(a) PROVE Alone'
  <2>1. a \in InFlight
    BY <1>2 DEF Proceed, InFlight, At, ListPeers, GetTarget, Fold, Decline, Claim, Release,
       LeaveAlone, ReadLevel, RecordBaseline, RecordConflict, RereadTarget, RefreshClaimants,
       ReadScale, UpdateScale, ScaleConflict, ApplySwitch, ClearAnnotations, Commit,
       Finalized, ReportFailure, GiveUp, Fail, DropReport
  <2>2. Overtakes(a) = {}
    BY <2>1 DEF Alone, Overtakes
  <2>3. \A b \in Automations \ {a} : pass'[b] = pass[b]
    <3>1. ASSUME NEW p, Step(a, p) PROVE \A b \in Automations \ {a} : pass'[b] = pass[b]
      BY <3>1 DEF Step, TypeOK
    <3>. QED
      BY <1>2, <3>1 DEF Proceed, ListPeers, GetTarget, ReadTarget, Fold, Decline, Claim,
         Release, HandBack, LeaveAlone, ReadLevel, RecordBaseline, RecordConflict,
         RereadTarget, RefreshClaimants, ReadScale, UpdateScale, ScaleConflict, ApplySwitch,
         ClearAnnotations, Commit, Finalized, ReportFailure, GiveUp, Fail, DropReport,
         End, Finish
  <2>4. InFlight' \subseteq InFlight
    BY <2>1, <2>3 DEF InFlight
  <2>5. missedClear' = {} /\ missedClaim' = {} /\ ~crossed'
    <3>1. CASE ReadScale(a)
      BY <2>2, <3>1 DEF ReadScale, Asserted, Alone
    <3>2. CASE UpdateScale(a)
      BY <2>2, <3>2 DEF UpdateScale, Asserted, Alone
    <3>3. CASE ApplySwitch(a)
      BY <2>2, <3>3 DEF ApplySwitch, Asserted, Alone
    <3>4. CASE ClearAnnotations(a)
      BY <2>2, <3>4 DEF ClearAnnotations, Alone
    <3>5. CASE GetTarget(a) \/ RereadTarget(a)
      BY <3>5 DEF GetTarget, RereadTarget, ReadTarget, Alone
    <3>6. CASE \/ Commit(a) \/ Finalized(a) \/ ReportFailure(a) \/ GiveUp(a) \/ DropReport(a)
      BY <3>6 DEF Commit, Finalized, ReportFailure, GiveUp, DropReport, End, Alone
    <3>7. CASE \/ ListPeers(a) \/ Fold(a) \/ Decline(a) \/ Claim(a) \/ Release(a)
               \/ LeaveAlone(a) \/ ReadLevel(a) \/ RecordBaseline(a) \/ RecordConflict(a)
               \/ RefreshClaimants(a) \/ ScaleConflict(a) \/ Fail(a)
      BY <3>7 DEF ListPeers, Fold, Decline, Claim, Release, LeaveAlone, ReadLevel,
         RecordBaseline, RecordConflict, RefreshClaimants, ScaleConflict, Fail, Alone
    <3>. QED  BY <1>2, <3>1, <3>2, <3>3, <3>4, <3>5, <3>6, <3>7 DEF Proceed
  <2>. QED  BY <2>4, <2>5 DEF Alone
<1>3. ASSUME NEW a \in Automations, HoldLastKnown(a) \/ Respec(a) \/ Delete(a) PROVE Alone'
  BY <1>3 DEF HoldLastKnown, Respec, Delete, Alone, InFlight
<1>4. ASSUME Observe \/ Edit \/ Touch \/ Autoscale PROVE Alone'
  BY <1>4 DEF Observe, Edit, Touch, Autoscale, Alone, InFlight
<1>5. ASSUME Crash PROVE Alone'
  <2>1. InFlight' = {}
    BY <1>5 DEF Crash, InFlight, Idle, Blank
  <2>. QED  BY <1>5, <2>1 DEF Crash, Alone
<1>6. ASSUME UNCHANGED vars PROVE Alone'
  BY <1>6 DEF vars, Alone, InFlight
<1>. QED  BY <1>1, <1>2, <1>3, <1>4, <1>5, <1>6 DEF Next, Environment

\* With a single worker, then, no reconcile ever crosses another ...
THEOREM SerialNeverCrosses == Spec => []OneWorkerNeverCrosses
<1>1. CASE MaxConcurrentReconciles = 1
  <2>1. Init => Alone
    BY DEF Init, Alone, InFlight, Idle, Blank
  <2>2. TypeOK /\ Alone /\ [Next]_vars => Alone'
    BY <1>1, StaysAlone
  <2>3. Alone => OneWorkerNeverCrosses
    BY DEF Alone, OneWorkerNeverCrosses
  <2>. QED  BY <2>1, <2>2, <2>3, TypeCorrect, PTL DEF Spec
<1>2. CASE MaxConcurrentReconciles # 1
  <2>1. OneWorkerNeverCrosses
    BY <1>2 DEF OneWorkerNeverCrosses
  <2>. QED  BY <2>1, PTL
<1>. QED  BY <1>1, <1>2

\* ... and a level Reactor set is always backed by a baseline on record.
THEOREM SerialClaimsAreBacked ==
  ASSUME MaxConcurrentReconciles = 1
  PROVE  Spec => []HeldIsRecorded
<1>1. OneWorkerNeverCrosses /\ HeldIsRecordedUnlessCrossed => HeldIsRecorded
  BY DEF OneWorkerNeverCrosses, HeldIsRecordedUnlessCrossed
<1>. QED  BY <1>1, SerialNeverCrosses, ClaimsAreBacked, PTL
-----------------------------------------------------------------------------
(* A dry-run install. *)

\* No pass is on its way to a write, and no baseline was ever recorded.
Harmless ==
  /\ ~Recorded(target)
  /\ \A a \in Automations :
       pass[a].at \in {"idle", "begun", "listed", "read", "folded", "done", "failed"}

DryRunInv == DryRun => Harmless

\* A dry run stays harmless: every step towards a write asks first.
LEMMA DryRunStep == TypeOK /\ DryRunInv /\ [Next]_vars => DryRunInv'
<1>. SUFFICES ASSUME TypeOK, DryRun, Harmless, [Next]_vars PROVE Harmless'
  BY DEF DryRunInv
<1>. USE DEF objects, world, history
<1>0. \A a \in Automations : pass[a] \in Pass
  BY DEF TypeOK
<1>1. ASSUME NEW a \in Automations, NEW p, Step(a, p), target' = target,
             p.at \in {"idle", "begun", "listed", "read", "folded", "done", "failed"}
      PROVE  Harmless'
  BY <1>1 DEF Step, Harmless, TypeOK
<1>2. ASSUME NEW a \in Automations, Begin(a) \/ BeginFinalize(a) PROVE Harmless'
  <2>1. CASE Begin(a)
    <3>1. PICK h : Step(a, [Idle EXCEPT !.at = "begun", !.mode = mode[a], !.matching = h,
                               !.claiming = h /\ mode[a] = "live"])
      BY <2>1 DEF Begin
    <3>. QED  BY <1>1, <2>1, <3>1 DEF Begin, Idle, Blank
  <2>2. CASE BeginFinalize(a)
    BY <1>1, <2>2 DEF BeginFinalize, Idle, Blank
  <2>. QED  BY <1>2, <2>1, <2>2
<1>3. ASSUME NEW a \in Automations, ListPeers(a) \/ GetTarget(a) \/ LeaveAlone(a)
      PROVE  Harmless'
  <2>1. CASE ListPeers(a)
    <3>1. PICK c, d, h : Step(a, [pass[a] EXCEPT !.at = "listed", !.peers = c,
                                                 !.inForce = d, !.held = h])
      BY <2>1 DEF ListPeers
    <3>2. [pass[a] EXCEPT !.at = "listed", !.peers = c, !.inForce = d, !.held = h].at = "listed"
      BY <1>0 DEF Pass
    <3>. QED  BY <1>1, <2>1, <3>1, <3>2 DEF ListPeers
  <2>2. CASE GetTarget(a)
    <3>1. [[pass[a] EXCEPT !.at = "read"] EXCEPT !.snap = target].at = "read"
      BY <1>0 DEF Pass
    <3>. QED  BY <1>1, <2>2, <3>1 DEF GetTarget, ReadTarget
  <2>3. CASE LeaveAlone(a)
    <3>1. [pass[a] EXCEPT !.at = "done", !.claims = {}, !.back = {}].at = "done"
      BY <1>0 DEF Pass
    <3>. QED  BY <1>1, <2>3, <3>1 DEF LeaveAlone
  <2>. QED  BY <1>3, <2>1, <2>2, <2>3
<1>4. ASSUME NEW a \in Automations, Fold(a) PROVE Harmless'
  <2>1. PICK c, d : Step(a, [pass[a] EXCEPT !.at = "folded", !.claims = c, !.back = d,
                                            !.peers = {}, !.inForce = {}, !.held = {}])
    BY <1>4 DEF Fold
  <2>2. [pass[a] EXCEPT !.at = "folded", !.claims = c, !.back = d,
                        !.peers = {}, !.inForce = {}, !.held = {}].at = "folded"
    BY <1>0 DEF Pass
  <2>. QED  BY <1>1, <1>4, <2>1, <2>2 DEF Fold
<1>5. ASSUME NEW a \in Automations,
             \/ Decline(a) \/ Claim(a) \/ Release(a)
             \/ ReadLevel(a) \/ RecordBaseline(a) \/ RecordConflict(a) \/ RereadTarget(a)
             \/ RefreshClaimants(a)
             \/ ReadScale(a) \/ UpdateScale(a) \/ ScaleConflict(a) \/ ApplySwitch(a)
             \/ ClearAnnotations(a)
      PROVE  FALSE
  BY <1>5 DEF Harmless, At, Decline, Claim, Release, ReadLevel, RecordBaseline, RecordConflict,
     RereadTarget, RefreshClaimants, ReadScale, UpdateScale, ScaleConflict, ApplySwitch,
     ClearAnnotations
<1>6. ASSUME NEW a \in Automations,
             Commit(a) \/ Finalized(a) \/ ReportFailure(a) \/ GiveUp(a) \/ DropReport(a)
      PROVE  Harmless'
  BY <1>1, <1>6 DEF Commit, Finalized, ReportFailure, GiveUp, DropReport, End, Finish, Idle,
     Blank
<1>7. ASSUME NEW a \in Automations, Fail(a) PROVE Harmless'
  <2>1. [pass[a] EXCEPT !.at = "failed"].at = "failed"
    BY <1>0 DEF Pass
  <2>. QED  BY <1>1, <1>7, <2>1 DEF Fail
<1>8. ASSUME NEW a \in Automations, HoldLastKnown(a) \/ Respec(a) \/ Delete(a)
      PROVE  Harmless'
  BY <1>8 DEF HoldLastKnown, Respec, Delete, Harmless
<1>9. CASE Observe \/ Edit \/ Touch \/ Autoscale
  <2>1. pass' = pass /\ target'.baseline = target.baseline
    BY <1>9 DEF Observe, Edit, Touch, Autoscale, TypeOK, Target
  <2>. QED  BY <2>1 DEF Harmless, Recorded
<1>10. CASE Crash
  BY <1>10 DEF Crash, Harmless, Idle, Blank
<1>11. CASE UNCHANGED vars
  BY <1>11 DEF vars, Harmless
<1>. QED
  BY <1>2, <1>3, <1>4, <1>5, <1>6, <1>7, <1>8, <1>9, <1>10, <1>11
     DEF Next, Proceed, Environment

\* Every reachable state of a dry-run install is harmless.
LEMMA DryRunInvariant == Spec => []DryRunInv
<1>1. Init => DryRunInv
  BY DEF Init, DryRunInv, Harmless, Recorded, Idle, Blank
<1>. QED  BY <1>1, DryRunStep, TypeCorrect, PTL DEF Spec

\* A dry-run install writes nothing, however many workers it has: the baseline
\* stays as it is, and the level is the user's alone to change.
THEOREM DryRunIsDry == Spec => DryRunWritesNothing
<1>. DEFINE Dry == DryRun => /\ target'.baseline = target.baseline
                             /\ author' # author => author' = "user"
<1>1. TypeOK /\ DryRunInv /\ [Next]_vars => [Dry]_vars
  <2>. SUFFICES ASSUME TypeOK, DryRunInv, Next, DryRun
                PROVE  /\ target'.baseline = target.baseline
                       /\ author' # author => author' = "user"
    OBVIOUS
  <2>. USE DEF objects, world, history
  <2>1. Harmless
    BY DEF DryRunInv
  <2>2. Harmless'
    BY DryRunStep DEF DryRunInv
  <2>3. target.baseline = NoLevel /\ target'.baseline = NoLevel
    BY <2>1, <2>2 DEF Harmless, Recorded
  <2>4. ASSUME NEW a \in Automations,
               \/ ReadScale(a) \/ UpdateScale(a) \/ ApplySwitch(a) \/ ClearAnnotations(a)
        PROVE  FALSE
    BY <2>1, <2>4 DEF Harmless, At, ReadScale, UpdateScale, ApplySwitch, ClearAnnotations
  <2>5. ASSUME NEW a \in Automations,
               Begin(a) \/ HoldLastKnown(a) \/ BeginFinalize(a) \/ Proceed(a)
        PROVE  author' = author
    BY <2>4, <2>5 DEF Begin, HoldLastKnown, BeginFinalize, Proceed, ListPeers, GetTarget,
       ReadTarget, Fold, Decline, Claim, Release, LeaveAlone, ReadLevel, RecordBaseline,
       RecordConflict, RereadTarget, RefreshClaimants, ScaleConflict, Commit, Finalized,
       ReportFailure, GiveUp, End
  <2>6. Environment => author' \in {author, "user"}
    BY DEF Environment, Observe, Edit, Touch, Autoscale, Crash, Respec, Delete, Fail,
       DropReport, End
  <2>. QED  BY <2>3, <2>5, <2>6 DEF Next
<1>. QED  BY <1>1, DryRunInvariant, TypeCorrect, PTL DEF Spec, DryRunWritesNothing

======================================================================
