---------------------------- MODULE ArbiterFold ----------------------------
(***************************************************************************)
(* The loops of internal/engine/arbiter.go and the preview built on them   *)
(* (internal/controller/arbitration.go, previewFor), run over every order  *)
(* in which the intents of one target can be gathered.  The reconciler     *)
(* gathers them from a cached list whose order it does not control, at     *)
(* most one intent per Automation.                                         *)
(***************************************************************************)
EXTENDS Arbiter, Sequences, SequencesExt

CONSTANTS
  Claimants,   \* identities of the Automations sharing the target
  Levels       \* the levels they may ask for

ASSUME LevelsAreNaturals == Levels \subseteq Nat

VARIABLE gathered   \* the slice of intents, in the order they were appended

Intents(slice) == ToSet(slice)

\* Wrong: each level is compared with the first instead of the lowest so far.
LowestOfTwo(slice) ==
  LET low[n \in DOMAIN slice] ==
        IF n = 1 \/ slice[n].level >= slice[1].level THEN slice[1].level ELSE slice[n].level
  IN  low

\* The running minimum: the level of the resolution after each round of the loop.
LowestSoFar(slice) ==
  LET low[n \in DOMAIN slice] ==
        IF n = 1 THEN slice[1].level
        ELSE IF slice[n].level < low[n - 1] THEN slice[n].level ELSE low[n - 1]
  IN  low

\* Resolve as the code computes it: a running minimum over the slice, then one
\* pass that splits the claimants.
ResolveLoop(slice) ==
  LET level == LowestSoFar(slice)[Len(slice)] IN
  [level    |-> level,
   winners  |-> ClaimantsOf({i \in Intents(slice) : i.level = level}),
   deferred |-> ClaimantsOf({i \in Intents(slice) : i.level # level})]

DeferredOf(slice) == IF slice = <<>> THEN {} ELSE ResolveLoop(slice).deferred

\* Wrong: a peer outvoted already is blamed on the added claim.
BlamesForAll(before, after, self) == after \ {self}

\* The claimants that stop getting what they want because of one added claim.
NewlyDeferred(before, after, self) == (after \ before) \ {self}

\* What putting self in force at the given level would do to the target.
Preview(self, level) ==
  LET resolution == ResolveLoop(Append(gathered, Intent(self, level))) IN
  [effective  |-> resolution.level,
   deferredBy |-> IF resolution.level # level THEN resolution.winners \ {self} ELSE {},
   wouldDefer |-> NewlyDeferred(DeferredOf(gathered), resolution.deferred, self)]

\* One more peer's claim is appended; a peer appears once in the list.
Gather(claimant, level) ==
  /\ claimant \notin ClaimantsOf(Intents(gathered))
  /\ gathered' = Append(gathered, Intent(claimant, level))

-----------------------------------------------------------------------------
\* What the loops compute is the meet of the SET of intents: the result never
\* depends on the order the reconciler gathered the claims in.
OrderIndependent ==
  gathered # <<>> => ResolveLoop(gathered) = Resolve(Intents(gathered))

\* A preview agrees with what then happens: it names as newly deferred exactly
\* the present winners when, and only when, the added claim undercuts them, and
\* it names somebody holding the target when its own claim would not win.
PreviewIsTheCounterfactual ==
  \A c \in Claimants \ ClaimantsOf(Intents(gathered)), l \in Levels :
    gathered # <<>> =>
      LET now == ResolveLoop(gathered)
          seen == Preview(c, l)
      IN  /\ seen.wouldDefer = (IF l < now.level THEN now.winners ELSE {})
          /\ seen.deferredBy = (IF l > now.level THEN now.winners ELSE {})
          /\ seen.effective <= l

=============================================================================
