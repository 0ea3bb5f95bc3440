------------------------------ MODULE Arbiter ------------------------------
(***************************************************************************)
(* internal/engine/arbiter.go: the pure half of arbitration.  Several      *)
(* claimants ask for levels on one shared target and the most restrictive  *)
(* (lowest) level wins.  The engine never interprets a level beyond its    *)
(* order, so a level is a natural number and a claimant an opaque value.   *)
(***************************************************************************)
EXTENDS Naturals

\* One claimant's desired level for a shared target.
Intent(claimant, level) == [claimant |-> claimant, level |-> level]

LevelsOf(intents) == {i.level : i \in intents}

ClaimantsOf(intents) == {i.claimant : i \in intents}

\* The most restrictive member of a non-empty set of levels.
Meet(levels) == CHOOSE l \in levels : \A m \in levels : l <= m

\* The arbitrated outcome of a non-empty set of intents: the meet, the
\* claimants that asked for exactly it, and the ones that were outvoted.
Resolve(intents) ==
  LET level == Meet(LevelsOf(intents)) IN
  [level    |-> level,
   winners  |-> ClaimantsOf({i \in intents : i.level = level}),
   deferred |-> ClaimantsOf({i \in intents : i.level # level})]

=============================================================================
