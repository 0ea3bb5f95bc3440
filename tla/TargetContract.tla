---------------------------- MODULE TargetContract ----------------------------
(***************************************************************************)
(* What the owner of a workload may rely on, without a word about          *)
(* reconciles: Reactor notes the level it finds before it puts one of its  *)
(* own, never rewrites the note, hands the target to that level or to a    *)
(* declared one, and forgets the note only once the target is handed over. *)
(* TargetClaims implements it (docs/src/content/docs/concepts/             *)
(* arbitration.md, reversal.md).                                           *)
(***************************************************************************)
EXTENDS Naturals

CONSTANTS
  Levels,
  NoLevel,      \* nothing on record
  ClaimLevels,  \* what the Automations may ask for
  ExitLevels    \* what they may declare as the level to leave behind

VARIABLES
  level,     \* the level the target is at
  baseline,  \* the level on record
  author     \* who decided the level last: user, claim or release

vars == <<level, baseline, author>>

Init ==
  /\ level \in Levels
  /\ baseline = NoLevel
  /\ author = "user"

Record ==
  /\ baseline = NoLevel
  /\ baseline' = level
  /\ UNCHANGED <<level, author>>

Put ==
  /\ baseline # NoLevel
  /\ level' \in ClaimLevels
  /\ author' = "claim"
  /\ UNCHANGED baseline

Restore ==
  /\ baseline # NoLevel
  /\ level' \in {baseline} \cup ExitLevels
  /\ author' = "release"
  /\ UNCHANGED baseline

Forget ==
  /\ author # "claim"
  /\ baseline' = NoLevel
  /\ UNCHANGED <<level, author>>

\* Nobody asks for a reversal: the target stays where it is, and is let go.
Abandon ==
  /\ baseline' = NoLevel
  /\ author' = "release"
  /\ UNCHANGED level

OwnerEdits ==
  /\ level' \in Levels
  /\ author' = "user"
  /\ UNCHANGED baseline

Next == Record \/ Put \/ Restore \/ Forget \/ Abandon \/ OwnerEdits

Spec == Init /\ [][Next]_vars

=============================================================================
