-------------------------- MODULE MCTargetClaims --------------------------
(* Model-checking instances of TargetClaims: two Automations over one target. *)
EXTENDS TargetClaims, FiniteSetsExt, TLC

CONSTANTS a, b

MCLevels == 0..2
MCSwitchLevels == 0..1

\* a sheds the target entirely, b only halves it.
MCClaimLevel == (a :> 0) @@ (b :> 1)
MCOnExit == (a :> NoLevel) @@ (b :> 2)
MCSwitchOnExit == (a :> NoLevel) @@ (b :> 1)
AllBaseline == [x \in Automations |-> "Baseline"]
BothPolicies == (a :> "Baseline") @@ (b :> "Declared")

LimitsOf(observe, respec, delete, edit, touch, autoscale, fault, crash) ==
  [d \in Disturbances |->
     CASE d = "observe" -> observe [] d = "respec" -> respec [] d = "delete" -> delete
       [] d = "edit" -> edit [] d = "touch" -> touch [] d = "autoscale" -> autoscale
       [] d = "fault" -> fault [] d = "crash" -> crash]

SerialLimit  == LimitsOf(2, 1, 2, 1, 0, 1, 2, 1)
NewbornLimit == LimitsOf(1, 0, 2, 0, 0, 0, 0, 0)
QuietLimit   == LimitsOf(2, 0, 0, 0, 1, 0, 0, 0)

\* At most so many disturbances of all kinds together.
FewDisturbances == MapThenSumSet(LAMBDA d : spent[d], Disturbances) <= 4
=============================================================================
