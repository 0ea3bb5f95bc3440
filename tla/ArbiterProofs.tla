--------------------------- MODULE ArbiterProofs ---------------------------
(***************************************************************************)
(* Facts about arbitration that hold for every set of intents.             *)
(***************************************************************************)
EXTENDS Arbiter, TLAPS, WellFoundedInduction

\* A non-empty set of levels has a most restrictive member, whatever its size:
\* Resolve never fails once somebody claims.
LEMMA MeetIsLeast ==
  \A S \in SUBSET Nat : S # {} => Meet(S) \in S /\ \A m \in S : Meet(S) <= m
<1>. SUFFICES ASSUME NEW S \in SUBSET Nat, S # {}
              PROVE  Meet(S) \in S /\ \A m \in S : Meet(S) <= m
  OBVIOUS
<1>. DEFINE R == OpToRel(<, Nat)
<1>1. \E l \in S : \A m \in S : ~ (<<m, l>> \in R)
  <2>1. IsWellFoundedOn(R, Nat)
    BY NatLessThanWellFounded
  <2>. HIDE DEF R
  <2>. QED  BY <2>1, WFMin
<1>2. PICK l \in S : \A m \in S : ~ (<<m, l>> \in R)
  BY <1>1
<1>3. \A m \in S : l <= m
  <2>. SUFFICES ASSUME NEW m \in S PROVE l <= m
    OBVIOUS
  <2>1. ~ (m < l)
    BY <1>2 DEF OpToRel
  <2>. QED  BY <2>1
<1>. QED  BY <1>3 DEF Meet

\* Joining the claims of a target only ever lowers it (the reconciler relies on
\* this: another Automation's claim can hold a target down, never lift it).
THEOREM JoiningNeverRaises ==
  ASSUME NEW S, NEW T, S \subseteq Nat, T \subseteq Nat, S # {}, T # {}, S \subseteq T
  PROVE  Meet(T) <= Meet(S)
<1>1. Meet(S) \in T
  BY MeetIsLeast
<1>. QED  BY <1>1, MeetIsLeast

\* Every claimant either gets the resolved level or is reported as outvoted,
\* and the resolved level is one that somebody asked for.
THEOREM ResolveIsSound ==
  ASSUME NEW C, NEW L, L \subseteq Nat, L # {},
         NEW intents \in SUBSET {Intent(c, l) : c \in C, l \in L}, intents # {}
  PROVE  /\ Resolve(intents).level \in LevelsOf(intents)
         /\ \A i \in intents : Resolve(intents).level <= i.level
         /\ Resolve(intents).winners \cup Resolve(intents).deferred = ClaimantsOf(intents)
<1>. DEFINE asked == LevelsOf(intents)
<1>1. asked \subseteq Nat /\ asked # {}
  BY DEF LevelsOf, Intent
<1>2. Resolve(intents).level = Meet(asked)
  BY DEF Resolve
<1>3. Meet(asked) \in asked /\ \A m \in asked : Meet(asked) <= m
  <2>. HIDE DEF asked
  <2>. QED  BY <1>1, MeetIsLeast
<1>4. \A i \in intents : i.level \in asked
  BY DEF LevelsOf
<1>5. Resolve(intents).winners \cup Resolve(intents).deferred = ClaimantsOf(intents)
  <2>. DEFINE W == ClaimantsOf({i \in intents : i.level = Meet(asked)})
              D == ClaimantsOf({i \in intents : i.level # Meet(asked)})
  <2>1. Resolve(intents).winners = W /\ Resolve(intents).deferred = D
    BY DEF Resolve
  <2>2. W \cup D = ClaimantsOf(intents)
    BY DEF ClaimantsOf
  <2>. QED  BY <2>1, <2>2
<1>. QED  BY <1>2, <1>3, <1>4, <1>5
=============================================================================
