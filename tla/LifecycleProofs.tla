-------------------------- MODULE LifecycleProofs --------------------------
(***************************************************************************)
(* What holds of every install and every uninstall: whatever the releases, *)
(* the Automations, what they refer to and what they want back.            *)
(***************************************************************************)
EXTENDS Lifecycle, ArbiterProofs

(***************************************************************************)
(* Who owns the CRD.                                                       *)
(***************************************************************************)

\* One helm operation of a release.
Operation ==
  [at : {"none", "apply", "hook", "patch", "rollout"}, version : Nat, seen : {Nobody},
   docs : Manifests \cup {<<>>}]

\* The definition as the API server holds it.
CRD == [there : BOOLEAN, owner : Releases \cup {Nobody}, schema : Nat]

\* Types of the releases and the definition they share.
AdoptType ==
  /\ crd \in CRD
  /\ upgrade \in [Releases -> Operation]
  /\ operator \in [Releases -> Nat]
  /\ raced \in BOOLEAN

\* How far a release has come, and what it can rely on from there: a hook about
\* to patch is the only one, and the CRD is nobody's; a rollout follows once the
\* CRD is the release's own and its schema is live.
Follows(r, operation, live) ==
  /\ operator[r] > 0 => live.there /\ live.owner = r /\ live.schema >= operator[r]
  /\ operation.at # "none" => operation.version > operator[r]
  /\ operation.at \in {"hook", "patch"} => live.there
  /\ operation.at = "hook" /\ live.owner = r => live.schema >= operation.version
  /\ operation.at = "patch" => live.owner = Nobody /\ ~AnotherPatches(r)
  /\ operation.at = "rollout" =>
       live.there /\ live.owner = r /\ live.schema >= operation.version

\* Where the release stands, in the present state.
Owned(r) == Follows(r, upgrade[r], crd)

\* Unless two hooks raced, every release knows where it stands.
AdoptInv == AdoptType /\ (~raced => \A r \in Releases : Owned(r))

(***************************************************************************)
(* The sweep and the manager.                                              *)
(***************************************************************************)

\* The points of the sweep.
Places == {"none", "stopping", "waiting", "listing", "next", "restore", "clear", "done", "dead"}

\* What the sweep carries from call to call.
SweepState ==
  [at : Places, todo : SUBSET Targets, target : Targets \cup {None},
   found : Levels \cup {None}, drop : SUBSET Automations, failures : Nat, runs : Nat]

\* Types of the targets, the manager and the sweep.
SweepType ==
  /\ level \in [Targets -> Levels]
  /\ baseline \in [Targets -> Levels \cup {None}]
  /\ held \subseteq Targets /\ finalizer \subseteq Automations
  /\ manager \in {"running", "terminating", "gone"}
  /\ worker \in [at : {"idle", "recorded", "restored"}, target : Targets \cup {None}]
  /\ worker.at # "idle" => worker.target \in Targets
  /\ sweep \in SweepState
  /\ sweep.at \in {"restore", "clear"} => sweep.target \in Targets
  /\ sweep.at = "restore" => sweep.found \in Levels
  /\ overlapped \in BOOLEAN

\* Nobody states a level for the target once it is unclaimed.
Unwanted(t) == \A a \in Automations : t \in References[a] => Reversal[a] = None

\* What a claim leaves behind at every point of its life: the record as long as
\* the level is Reactor's, and a claimed level without one only where nobody
\* wants another.
Safe(t) ==
  /\ t \in held => baseline[t] # None
  /\ baseline[t] \in Claims => Unwanted(t)
  /\ t \notin held /\ level[t] \in Claims => Unwanted(t)
  /\ baseline[t] # None => \E a \in Automations : t \in References[a]

\* The manager writes only with a record in place, and forgets only what it has
\* handed back.
Working ==
  /\ worker.at = "recorded" => baseline[worker.target] # None
  /\ worker.at = "restored" => worker.target \notin held

\* The list of Automations is taken.
Sweeping == sweep.at \in {"next", "restore", "clear", "done"}

\* Once the list is taken the sweep is alone, and a target it is done with has
\* no record.
Alone ==
  /\ manager = "gone" => worker = Idle
  /\ Sweeping => manager = "gone" /\ stale = {}
  /\ sweep.at \in {"restore", "clear"} => sweep.target \in sweep.todo
  /\ sweep.at = "restore" => sweep.found = baseline[sweep.target] /\ sweep.found # None
  /\ sweep.at = "clear" => sweep.target \notin held
  /\ Sweeping /\ sweep.failures = 0 =>
       /\ finalizer \subseteq sweep.drop
       /\ \A t \in Targets \ sweep.todo : baseline[t] = None
  /\ sweep.at = "done" => sweep.todo = {} /\ sweep.drop = {}

\* Unless a sweep overlapped the manager, nothing is lost on the way.
SweepInv ==
  /\ SweepType
  /\ ~overlapped => (\A t \in Targets : Safe(t)) /\ Working /\ Alone

(***************************************************************************)
(* The steps of an installation.                                           *)
(***************************************************************************)

\* One release goes on with its operation, and at most takes the CRD of nobody.
Moves(r, operation, live) ==
  /\ upgrade' = [upgrade EXCEPT ![r] = operation] /\ crd' = live /\ operator' = operator
  /\ raced' \in BOOLEAN
  /\ ~raced' =>
       /\ ~raced /\ Follows(r, operation, live)
       /\ \/ live = crd
          \/ /\ live.there /\ live.owner = r
             /\ \A o \in Releases \ {r} : ~(crd.there /\ crd.owner = o) /\ upgrade[o].at # "patch"

\* A release that goes on as described keeps the others where they stand.
LEMMA MovesFit ==
  ASSUME AdoptInv, NEW r \in Releases, NEW operation \in Operation, NEW live \in CRD,
         Moves(r, operation, live)
  PROVE  AdoptInv'
<1>. USE DEF Moves
<1>1. AdoptType'
  BY DEF AdoptInv, AdoptType
<1>2. ASSUME ~raced', NEW o \in Releases PROVE Owned(o)'
  <2>1. ~raced /\ Follows(r, operation, live) /\ Owned(o)
    BY <1>2 DEF AdoptInv
  <2>2. /\ upgrade'[r] = operation /\ \A q \in Releases \ {r} : upgrade'[q] = upgrade[q]
        /\ crd' = live /\ operator' = operator
    BY DEF AdoptInv, AdoptType
  <2>3. CASE o = r
    <3>1. AnotherPatches(r)' <=> AnotherPatches(r)
      BY <2>2 DEF AnotherPatches
    <3>. QED  BY <2>1, <2>2, <2>3, <3>1 DEF Owned, Follows
  <2>4. CASE o # r
    <3>1. upgrade'[o] = upgrade[o]
      BY <2>2, <2>4
    <3>2. CASE live = crd
      <4>1. upgrade[o].at = "patch" => ~AnotherPatches(o)'
        <5>. SUFFICES ASSUME upgrade[o].at = "patch", NEW q \in Releases \ {o}, upgrade'[q].at = "patch"
                      PROVE  FALSE
          BY DEF AnotherPatches
        <5>1. CASE q = r
          <6>1. ~AnotherPatches(r)
            BY <2>1, <2>2, <5>1 DEF Follows
          <6>. QED  BY <2>4, <6>1 DEF AnotherPatches
        <5>2. CASE q # r
          <6>1. ~AnotherPatches(o)
            BY <2>1 DEF Owned, Follows
          <6>. QED  BY <2>2, <5>2, <6>1 DEF AnotherPatches
        <5>. QED  BY <5>1, <5>2
      <4>. QED  BY <2>1, <2>2, <3>1, <3>2, <4>1 DEF Owned, Follows
    <3>3. CASE live # crd
      <4>1. /\ live.there /\ live.owner = r /\ ~(crd.there /\ crd.owner = o)
            /\ upgrade[o].at # "patch"
        BY <1>2, <2>4, <3>3
      <4>2. ~(operator[o] > 0) /\ upgrade[o].at # "rollout"
        BY <2>1, <4>1 DEF Owned, Follows
      <4>. QED  BY <2>1, <2>2, <2>4, <3>1, <4>1, <4>2 DEF Owned, Follows
    <3>. QED  BY <3>2, <3>3
  <2>. QED  BY <2>3, <2>4
<1>. QED  BY <1>1, <1>2 DEF AdoptInv

\* Helm renders a chart with or without the CRD.
LEMMA RenderFits ==
  ASSUME AdoptInv, NEW r \in Releases, NEW v \in 1..MaxVersion, NEW docs \in Manifests,
         Render(r, v, docs)
  PROVE  AdoptInv'
<1>. DEFINE operation == [at |-> IF crd.there /\ crd.owner = Nobody THEN "hook" ELSE "apply",
                          version |-> v, seen |-> Nobody, docs |-> docs]
<1>1. v \in Nat /\ v > operator[r]
  BY AdoptConstants DEF Render
<1>2. operation \in Operation
  BY <1>1 DEF Operation
<1>3. ~raced => Follows(r, operation, crd)
  <2>1. ~raced => Owned(r)
    BY DEF AdoptInv
  <2>. QED  BY <1>1, <2>1, AdoptConstants DEF Owned, Follows
<1>4. Moves(r, operation, crd) /\ crd \in CRD
  <2>1. upgrade' = [upgrade EXCEPT ![r] = operation]
    BY DEF Render
  <2>. HIDE DEF operation
  <2>. QED  BY <1>3, <2>1 DEF Moves, Render, AdoptInv, AdoptType
<1>. HIDE DEF operation
<1>. QED  BY <1>2, <1>4, MovesFit

\* A release without an operation under way relies on nothing.
LEMMA IdleFits == ASSUME NEW r PROVE NoUpgrade \in Operation /\ (~raced /\ Owned(r) => Follows(r, NoUpgrade, crd))
BY DEF NoUpgrade, Operation, Owned, Follows

\* The hook goes on to its patch only over a CRD nobody owns.
LEMMA ReadCRDFits == ASSUME AdoptInv, NEW r \in Releases, ReadCRD(r) PROVE AdoptInv'
<1>1. /\ upgrade[r].at = "hook" /\ UNCHANGED <<crd, operator>>
      /\ raced' = (raced \/ (upgrade'[r].at = "patch" /\ AnotherPatches(r)))
      /\ upgrade \in [Releases -> Operation] /\ crd \in CRD /\ raced \in BOOLEAN
  BY DEF ReadCRD, AdoptInv, AdoptType
<1>2. raced' \in BOOLEAN /\ (~raced' => ~raced)
  BY <1>1
<1>3. ~raced => Owned(r)
  BY DEF AdoptInv
<1>4. CASE GiveUp(r)
  <2>1. Moves(r, NoUpgrade, crd)
    BY <1>1, <1>2, <1>3, <1>4, IdleFits DEF GiveUp, Moves
  <2>. QED  BY <1>1, <2>1, IdleFits, MovesFit
<1>5. CASE Step(r, "rollout") /\ (~crd.there \/ crd.owner = r)
  <2>. DEFINE operation == [upgrade[r] EXCEPT !.at = "rollout"]
  <2>1. operation \in Operation
    BY <1>1 DEF Operation
  <2>2. upgrade' = [upgrade EXCEPT ![r] = operation]
    BY <1>1, <1>5 DEF Step, Operation
  <2>3. operation.at = "rollout" /\ operation.version = upgrade[r].version
    BY <1>1 DEF Operation
  <2>. HIDE DEF operation
  <2>4. ~raced => Follows(r, operation, crd)
    BY <1>1, <1>3, <1>5, <2>3 DEF Owned, Follows
  <2>5. Moves(r, operation, crd)
    BY <1>1, <1>2, <2>2, <2>4 DEF Moves
  <2>. QED  BY <1>1, <2>1, <2>5, MovesFit
<1>6. CASE Step(r, "patch") /\ crd.there /\ crd.owner = Nobody
  <2>. DEFINE operation == [upgrade[r] EXCEPT !.at = "patch"]
  <2>1. operation \in Operation
    BY <1>1 DEF Operation
  <2>2. upgrade' = [upgrade EXCEPT ![r] = operation]
    BY <1>1, <1>6 DEF Step, Operation
  <2>3. operation.at = "patch" /\ operation.version = upgrade[r].version
    BY <1>1 DEF Operation
  <2>. HIDE DEF operation
  <2>4. ~raced' => ~AnotherPatches(r)
    <3>1. upgrade'[r].at = "patch"
      BY <1>1, <2>2, <2>3
    <3>. QED  BY <1>1, <3>1
  <2>5. ~raced' => Follows(r, operation, crd)
    BY <1>1, <1>2, <1>3, <1>6, <2>3, <2>4 DEF Owned, Follows
  <2>6. Moves(r, operation, crd)
    BY <1>1, <1>2, <2>2, <2>5 DEF Moves
  <2>. QED  BY <1>1, <2>1, <2>6, MovesFit
<1>. QED  BY <1>4, <1>5, <1>6 DEF ReadCRD

\* What the patch makes of a CRD that is nobody's.
LEMMA Patched ==
  ASSUME AdoptInv, NEW r \in Releases, upgrade[r].at = "patch",
         NEW operation \in Operation, operation.at \in {"rollout", "hook", "none"},
         operation.version = upgrade[r].version \/ operation.at = "none",
         upgrade' = [upgrade EXCEPT ![r] = operation],
         crd' = [crd EXCEPT !.owner = r, !.schema = upgrade[r].version],
         UNCHANGED <<operator, raced>>
  PROVE  AdoptInv'
<1>. DEFINE live == [crd EXCEPT !.owner = r, !.schema = upgrade[r].version]
<1>1. /\ upgrade[r] \in Operation /\ crd \in CRD /\ raced \in BOOLEAN /\ operator \in [Releases -> Nat]
      /\ upgrade[r].version \in Nat
  BY DEF AdoptInv, AdoptType, Operation
<1>2. live \in CRD /\ live.there = crd.there /\ live.owner = r /\ live.schema = upgrade[r].version
  BY <1>1 DEF CRD
<1>3. ~raced => Owned(r) /\ \A o \in Releases : Owned(o)
  BY DEF AdoptInv
<1>. HIDE DEF live
<1>4. operation.version \in Nat /\ operator[r] \in Nat
  BY <1>1 DEF Operation
<1>5. ~raced => Follows(r, operation, live)
  BY <1>1, <1>2, <1>3, <1>4 DEF Owned, Follows
<1>6. ~raced => \A o \in Releases \ {r} : ~(crd.there /\ crd.owner = o) /\ upgrade[o].at # "patch"
  BY <1>3, AdoptConstants DEF Owned, Follows, AnotherPatches
<1>7. ~raced => live.there
  BY <1>2, <1>3 DEF Owned, Follows
<1>8. crd' = live
  BY DEF live
<1>9. Moves(r, operation, live)
  BY <1>1, <1>2, <1>5, <1>6, <1>7, <1>8 DEF Moves
<1>. QED  BY <1>2, <1>9, MovesFit

\* The one patch takes the CRD and sets the schema together.
LEMMA PatchCRDFits == ASSUME AdoptInv, NEW r \in Releases, PatchCRD(r) PROVE AdoptInv'
<1>. DEFINE operation == [upgrade[r] EXCEPT !.at = "rollout"]
<1>1. upgrade \in [Releases -> Operation]
  BY DEF AdoptInv, AdoptType
<1>2. operation \in Operation /\ operation.at = "rollout" /\ operation.version = upgrade[r].version
  BY <1>1 DEF Operation
<1>3. upgrade' = [upgrade EXCEPT ![r] = operation]
  BY <1>1 DEF PatchCRD, Step, Operation
<1>. HIDE DEF operation
<1>. QED  BY <1>2, <1>3, Patched DEF PatchCRD

\* A hook that is killed, or loses its answer, may have patched all the same.
LEMMA HookBreaksFits == ASSUME AdoptInv, NEW r \in Releases, HookBreaks(r) PROVE AdoptInv'
<1>. DEFINE again == [upgrade[r] EXCEPT !.at = "hook"]
<1>1. /\ upgrade[r].at \in {"hook", "patch"} /\ upgrade \in [Releases -> Operation]
      /\ crd \in CRD /\ raced \in BOOLEAN /\ UNCHANGED <<operator, raced>>
  BY DEF HookBreaks, AdoptInv, AdoptType, Operation
<1>2. again \in Operation /\ again.at = "hook" /\ again.version = upgrade[r].version
      /\ [upgrade EXCEPT ![r].at = "hook"] = [upgrade EXCEPT ![r] = again]
  BY <1>1 DEF Operation
<1>. HIDE DEF again
<1>3. PICK operation \in {again, NoUpgrade} : upgrade' = [upgrade EXCEPT ![r] = operation]
  BY <1>2 DEF HookBreaks
<1>4. operation \in Operation /\ operation.at \in {"hook", "none"}
      /\ (operation.at = "none" \/ (operation.at = "hook" /\ operation.version = upgrade[r].version))
  BY <1>2, <1>3, IdleFits DEF NoUpgrade
<1>5. CASE crd' = crd
  <2>1. ~raced => Owned(r)
    BY DEF AdoptInv
  <2>2. operation.at = "hook" => crd.there \/ raced
    BY <1>1, <2>1 DEF Owned, Follows
  <2>3. upgrade[r].at = "patch" /\ ~raced => crd.owner # r
    BY <2>1, AdoptConstants DEF Owned, Follows
  <2>4. ~raced => Follows(r, operation, crd)
    BY <1>1, <1>4, <2>1, <2>2, <2>3 DEF Owned, Follows
  <2>5. Moves(r, operation, crd)
    BY <1>1, <1>3, <1>5, <2>4 DEF Moves
  <2>. QED  BY <1>1, <1>4, <2>5, MovesFit
<1>6. CASE upgrade[r].at = "patch" /\ crd' = [crd EXCEPT !.owner = r, !.schema = upgrade[r].version]
  BY <1>1, <1>3, <1>4, <1>6, Patched
<1>. QED  BY <1>5, <1>6 DEF HookBreaks

\* Helm applies a chart whose CRD it owns or creates.
LEMMA ApplyFits == ASSUME AdoptInv, NEW r \in Releases, Apply(r) PROVE AdoptInv'
<1>1. /\ upgrade[r].at = "apply" /\ upgrade \in [Releases -> Operation]
      /\ crd \in CRD /\ raced \in BOOLEAN /\ UNCHANGED <<operator, raced>>
      /\ operator \in [Releases -> Nat] /\ upgrade[r].version \in Nat
  BY DEF Apply, AdoptInv, AdoptType, Operation
<1>2. ~raced => Owned(r) /\ \A o \in Releases : Owned(o)
  BY DEF AdoptInv
<1>3. CASE GiveUp(r) /\ crd' = crd
  <2>1. Moves(r, NoUpgrade, crd)
    BY <1>1, <1>2, <1>3, IdleFits DEF GiveUp, Moves
  <2>. QED  BY <1>1, <2>1, IdleFits, MovesFit
<1>4. CASE /\ ~crd.there \/ crd.owner = r
           /\ crd' = [there |-> TRUE, owner |-> r, schema |-> upgrade[r].version]
           /\ Step(r, "rollout")
  <2>. DEFINE operation == [upgrade[r] EXCEPT !.at = "rollout"]
              live == [there |-> TRUE, owner |-> r, schema |-> upgrade[r].version]
  <2>1. operation \in Operation /\ operation.at = "rollout" /\ operation.version = upgrade[r].version
    BY <1>1 DEF Operation
  <2>2. live \in CRD /\ live.there = TRUE /\ live.owner = r /\ live.schema = upgrade[r].version
    BY <1>1 DEF CRD
  <2>3. upgrade' = [upgrade EXCEPT ![r] = operation] /\ crd' = live
    BY <1>1, <1>4 DEF Step, Operation
  <2>. HIDE DEF operation, live
  <2>4. ~raced => Follows(r, operation, live)
    BY <1>1, <1>2, <2>1, <2>2 DEF Owned, Follows
  <2>5. ~raced => \A o \in Releases \ {r} : ~(crd.there /\ crd.owner = o) /\ upgrade[o].at # "patch"
    BY <1>2, <1>4, AdoptConstants DEF Owned, Follows
  <2>6. Moves(r, operation, live)
    BY <1>1, <2>2, <2>3, <2>4, <2>5 DEF Moves
  <2>. QED  BY <2>1, <2>2, <2>6, MovesFit
<1>. QED  BY <1>3, <1>4 DEF Apply

\* The operator is rolled out over the schema that was just put live.
LEMMA RolloutFits == ASSUME AdoptInv, NEW r \in Releases, Rollout(r) PROVE AdoptInv'
<1>1. /\ upgrade[r].at = "rollout" /\ upgrade \in [Releases -> Operation] /\ upgrade[r].version \in Nat
      /\ operator \in [Releases -> Nat] /\ UNCHANGED <<crd, raced>>
      /\ upgrade' = [upgrade EXCEPT ![r] = NoUpgrade]
      /\ operator' = [operator EXCEPT ![r] = upgrade[r].version]
  BY DEF Rollout, GiveUp, AdoptInv, AdoptType, Operation
<1>2. AdoptType'
  BY <1>1, IdleFits DEF AdoptInv, AdoptType
<1>3. ASSUME ~raced, NEW o \in Releases PROVE Owned(o)'
  <2>1. Owned(o) /\ Owned(r)
    BY <1>3 DEF AdoptInv
  <2>2. CASE o = r
    BY <1>1, <2>1, <2>2 DEF Owned, Follows, NoUpgrade
  <2>3. CASE o # r
    <3>1. AnotherPatches(o)' => AnotherPatches(o)
      BY <1>1 DEF AnotherPatches, NoUpgrade
    <3>. QED  BY <1>1, <2>1, <2>3, <3>1 DEF Owned, Follows
  <2>. QED  BY <2>2, <2>3
<1>. QED  BY <1>1, <1>2, <1>3 DEF AdoptInv

\* Every step of an installation preserves its invariant.
LEMMA AdoptStep == ASSUME AdoptInv, AdoptNext PROVE AdoptInv'
BY RenderFits, ReadCRDFits, PatchCRDFits, HookBreaksFits, ApplyFits, RolloutFits DEF AdoptNext

\* So does a step of the uninstall, which touches nothing of it.
LEMMA AdoptUnchanged == ASSUME AdoptInv, UNCHANGED adoptVars PROVE AdoptInv'
BY DEF AdoptInv, AdoptType, adoptVars, Owned, Follows, AnotherPatches

\* Initially no release has an operation under way.
LEMMA AdoptFirst == ASSUME AdoptInit PROVE AdoptInv
<1>. USE DEF AdoptInit
<1>1. crd \in CRD
  <2>1. PICK there \in BOOLEAN : crd = [there |-> there, owner |-> Nobody, schema |-> 0]
    OBVIOUS
  <2>. QED  BY <2>1 DEF CRD
<1>2. AdoptType
  BY <1>1, IdleFits DEF AdoptType
<1>3. ASSUME NEW r \in Releases PROVE Owned(r)
  BY DEF Owned, Follows, NoUpgrade
<1>. QED  BY <1>2, <1>3 DEF AdoptInv

(***************************************************************************)
(* The steps of the manager and of the sweep.                              *)
(***************************************************************************)

\* What is due to a target is no claim, and nothing only where nobody wants
\* anything; the recorded level need not be trusted for the latter.
LEMMA DueIsNoClaim ==
  ASSUME NEW t \in Targets, NEW found \in Levels
  PROVE  /\ Due(t, found) \in Levels \cup {None}
         /\ Due(t, found) = None <=> Unwanted(t)
         /\ Due(t, found) # None /\ (found \in Claims => Unwanted(t)) => Due(t, found) \notin Claims
<1>. DEFINE who == {b \in Automations : t \in References[b] /\ Reversal[b] # None}
            wish(a) == IF Reversal[a] = AtBaseline THEN found ELSE Reversal[a]
            wished == Wishes(t, found)
<1>1. wished = {Intent(a, wish(a)) : a \in who}
  BY DEF Wishes
<1>2. \A a \in who : wish(a) \in Levels /\ wish(a) \in (Levels \ Claims) \cup {found}
  BY SweepConstants
<1>3. Unwanted(t) <=> who = {}
  BY DEF Unwanted
<1>4. wished = {} <=> who = {}
  BY <1>1
<1>. HIDE DEF wish, who
<1>5. CASE wished = {}
  BY <1>3, <1>4, <1>5 DEF Due
<1>6. CASE wished # {}
  <2>. DEFINE asked == LevelsOf(wished)
  <2>1. asked \subseteq (Levels \ Claims) \cup {found} /\ asked # {}
    BY <1>1, <1>2, <1>6 DEF LevelsOf, Intent
  <2>2. Meet(asked) \in asked
    <3>1. asked \subseteq Nat
      BY <2>1, SweepConstants
    <3>. HIDE DEF asked
    <3>. QED  BY <2>1, <3>1, MeetIsLeast
  <2>3. Resolve(wished).level = Meet(asked)
    BY DEF Resolve
  <2>4. Due(t, found) = Resolve(wished).level
    BY <1>6 DEF Due
  <2>5. Due(t, found) \in (Levels \ Claims) \cup {found}
    BY <2>1, <2>2, <2>3, <2>4
  <2>6. Due(t, found) # None /\ ~Unwanted(t)
    BY <1>3, <1>4, <1>6, <2>5, SweepConstants
  <2>. QED  BY <2>5, <2>6
<1>. QED  BY <1>5, <1>6

\* A target that is handed back is not held, and safe.
LEMMA HandedBack ==
  ASSUME SweepType, NEW t \in Targets, NEW found \in Levels, HandBack(t, found),
         found \in Claims => Unwanted(t)
  PROVE  /\ level' \in [Targets -> Levels] /\ held' = held \ {t}
         /\ level'[t] \in Claims => Unwanted(t)
         /\ \A s \in Targets \ {t} : level'[s] = level[s]
<1>1. level \in [Targets -> Levels]
  BY DEF SweepType
<1>2. CASE Due(t, found) = None
  BY <1>1, <1>2, DueIsNoClaim DEF HandBack
<1>3. CASE Due(t, found) # None
  <2>1. Due(t, found) \in Levels \ Claims
    BY <1>3, DueIsNoClaim
  <2>. QED  BY <1>1, <1>3, <2>1 DEF HandBack
<1>. QED  BY <1>2, <1>3

\* The manager works only where the sweep does not, unless they overlap.
LEMMA StillAlive ==
  ASSUME SweepInv, Alive, UNCHANGED <<manager, sweep, overlapped>>
  PROVE  ~overlapped' => ~overlapped /\ (\A t \in Targets : Safe(t)) /\ Working /\ Alone'
<1>. SUFFICES ASSUME ~overlapped PROVE (\A t \in Targets : Safe(t)) /\ Working /\ Alone'
  OBVIOUS
<1>1. (\A t \in Targets : Safe(t)) /\ Working /\ Alone
  BY DEF SweepInv
<1>2. manager' # "gone" /\ sweep.at \notin {"next", "restore", "clear", "done"}
  BY <1>1 DEF Alone, Alive, Sweeping
<1>. QED  BY <1>1, <1>2 DEF Alone, Sweeping

\* The manager adds its finalizer.
LEMMA RegisterFits ==
  ASSUME SweepInv, NEW a \in Automations, Register(a) PROVE SweepInv'
<1>1. Alive /\ UNCHANGED <<level, baseline, held, manager, worker, sweep, overlapped>>
      /\ finalizer' = finalizer \cup {a}
  BY DEF Register, targetVars, managerVars
<1>2. SweepType'
  BY <1>1 DEF SweepInv, SweepType
<1>3. ASSUME ~overlapped' PROVE (\A t \in Targets : Safe(t))' /\ Working' /\ Alone'
  <2>1. (\A t \in Targets : Safe(t)) /\ Working /\ Alone'
    BY <1>1, <1>3, StillAlive
  <2>. QED  BY <1>1, <2>1 DEF Safe, Working
<1>. QED  BY <1>2, <1>3 DEF SweepInv

\* The manager records the level it finds before it writes its own.
LEMMA RecordBaselineFits ==
  ASSUME SweepInv, NEW a \in Automations, NEW t \in Targets, RecordBaseline(a, t) PROVE SweepInv'
<1>1. /\ Alive /\ t \in References[a]
      /\ UNCHANGED <<level, held, finalizer, manager, sweep, overlapped>>
      /\ baseline' = [baseline EXCEPT ![t] = IF @ = None THEN level[t] ELSE @]
      /\ worker' = [at |-> "recorded", target |-> t]
  BY DEF RecordBaseline
<1>2. /\ level \in [Targets -> Levels] /\ baseline \in [Targets -> Levels \cup {None}]
      /\ SweepType
  BY DEF SweepInv, SweepType
<1>3. /\ baseline' \in [Targets -> Levels \cup {None}]
      /\ baseline'[t] = IF baseline[t] = None THEN level[t] ELSE baseline[t]
      /\ \A s \in Targets \ {t} : baseline'[s] = baseline[s]
  BY <1>1, <1>2
<1>4. SweepType'
  BY <1>1, <1>2, <1>3 DEF SweepType
<1>5. ASSUME ~overlapped' PROVE (\A s \in Targets : Safe(s))' /\ Working' /\ Alone'
  <2>1. (\A s \in Targets : Safe(s)) /\ Alone'
    BY <1>1, <1>5, StillAlive
  <2>2. baseline'[t] # None
    BY <1>2, <1>3, SweepConstants
  <2>3. ASSUME NEW s \in Targets PROVE Safe(s)'
    <3>1. CASE s = t
      BY <1>1, <1>3, <2>1, <2>2, <3>1 DEF Safe, Unwanted
    <3>2. CASE s # t
      BY <1>1, <1>3, <2>1, <3>2 DEF Safe, Unwanted
    <3>. QED  BY <3>1, <3>2
  <2>4. Working'
    BY <1>1, <2>2 DEF Working
  <2>. QED  BY <2>1, <2>3, <2>4
<1>. QED  BY <1>4, <1>5 DEF SweepInv

\* The manager writes a level over its record.
LEMMA WriteLevelFits == ASSUME SweepInv, WriteLevel PROVE SweepInv'
<1>. DEFINE t == worker.target
<1>1. /\ Alive /\ worker.at = "recorded"
      /\ UNCHANGED <<baseline, finalizer, manager, sweep, overlapped>>
      /\ held' = held \cup {t} /\ worker' = Idle
  BY DEF WriteLevel
<1>2. PICK l \in Claims : level' = [level EXCEPT ![t] = l]
  BY DEF WriteLevel
<1>3. t \in Targets /\ SweepType /\ level \in [Targets -> Levels]
  BY <1>1 DEF SweepInv, SweepType
<1>4. l \in Levels
  BY SweepConstants
<1>. HIDE DEF t
<1>5. level' \in [Targets -> Levels] /\ \A s \in Targets \ {t} : level'[s] = level[s]
  BY <1>2, <1>3, <1>4
<1>6. SweepType'
  BY <1>1, <1>3, <1>5 DEF SweepType, Idle
<1>7. ASSUME ~overlapped' PROVE (\A s \in Targets : Safe(s))' /\ Working' /\ Alone'
  <2>1. (\A s \in Targets : Safe(s)) /\ Alone' /\ Working
    BY <1>1, <1>7, StillAlive
  <2>2. baseline[t] # None
    BY <1>1, <2>1 DEF Working, t
  <2>3. ASSUME NEW s \in Targets PROVE Safe(s)'
    <3>1. CASE s = t
      BY <1>1, <2>1, <2>2, <3>1 DEF Safe, Unwanted
    <3>2. CASE s # t
      BY <1>1, <1>5, <2>1, <3>2 DEF Safe, Unwanted
    <3>. QED  BY <3>1, <3>2
  <2>4. Working'
    BY <1>1 DEF Working, Idle
  <2>. QED  BY <2>1, <2>3, <2>4
<1>. QED  BY <1>6, <1>7 DEF SweepInv

\* The manager hands a level back under its record.
LEMMA RestoreLevelFits == ASSUME SweepInv, NEW t \in Targets, RestoreLevel(t) PROVE SweepInv'
<1>1. /\ Alive /\ baseline[t] # None /\ HandBack(t, baseline[t])
      /\ UNCHANGED <<baseline, finalizer, manager, sweep, overlapped>>
      /\ worker' = [at |-> "restored", target |-> t]
  BY DEF RestoreLevel
<1>2. SweepType /\ baseline[t] \in Levels
  BY <1>1 DEF SweepInv, SweepType
<1>3. level' \in [Targets -> Levels] /\ held' = held \ {t}
  <2>1. Due(t, baseline[t]) \in Levels \cup {None} /\ level \in [Targets -> Levels]
    BY <1>2, DueIsNoClaim DEF SweepType
  <2>. QED  BY <1>1, <2>1 DEF HandBack
<1>4. SweepType'
  BY <1>1, <1>2, <1>3 DEF SweepType
<1>5. ASSUME ~overlapped' PROVE (\A s \in Targets : Safe(s))' /\ Working' /\ Alone'
  <2>1. (\A s \in Targets : Safe(s)) /\ Alone'
    BY <1>1, <1>5, StillAlive
  <2>2. /\ level'[t] \in Claims => Unwanted(t)
        /\ \A s \in Targets \ {t} : level'[s] = level[s]
    BY <1>1, <1>2, <2>1, HandedBack DEF Safe
  <2>3. ASSUME NEW s \in Targets PROVE Safe(s)'
    <3>1. CASE s = t
      BY <1>1, <1>3, <2>1, <2>2, <3>1 DEF Safe, Unwanted
    <3>2. CASE s # t
      BY <1>1, <1>3, <2>1, <2>2, <3>2 DEF Safe, Unwanted
    <3>. QED  BY <3>1, <3>2
  <2>4. Working'
    BY <1>1, <1>3 DEF Working
  <2>. QED  BY <2>1, <2>3, <2>4
<1>. QED  BY <1>4, <1>5 DEF SweepInv

\* The manager takes the record off a level that is restored.
LEMMA ForgetBaselineFits == ASSUME SweepInv, ForgetBaseline PROVE SweepInv'
<1>. DEFINE t == worker.target
<1>1. /\ Alive /\ worker.at = "restored"
      /\ UNCHANGED <<level, held, finalizer, manager, sweep, overlapped>>
      /\ baseline' = [baseline EXCEPT ![t] = None] /\ worker' = Idle
  BY DEF ForgetBaseline
<1>2. t \in Targets /\ SweepType /\ baseline \in [Targets -> Levels \cup {None}]
  BY <1>1 DEF SweepInv, SweepType
<1>. HIDE DEF t
<1>3. baseline' \in [Targets -> Levels \cup {None}] /\ baseline'[t] = None
      /\ \A s \in Targets \ {t} : baseline'[s] = baseline[s]
  BY <1>1, <1>2
<1>4. SweepType'
  BY <1>1, <1>2, <1>3 DEF SweepType, Idle
<1>5. ASSUME ~overlapped' PROVE (\A s \in Targets : Safe(s))' /\ Working' /\ Alone'
  <2>1. (\A s \in Targets : Safe(s)) /\ Alone' /\ Working
    BY <1>1, <1>5, StillAlive
  <2>2. t \notin held /\ None \notin Claims
    BY <1>1, <2>1, SweepConstants DEF Working, t
  <2>3. ASSUME NEW s \in Targets PROVE Safe(s)'
    <3>1. CASE s = t
      BY <1>1, <1>3, <2>1, <2>2, <3>1 DEF Safe, Unwanted
    <3>2. CASE s # t
      BY <1>1, <1>3, <2>1, <3>2 DEF Safe, Unwanted
    <3>. QED  BY <3>1, <3>2
  <2>4. Working'
    BY <1>1 DEF Working, Idle
  <2>. QED  BY <2>1, <2>3, <2>4
<1>. QED  BY <1>4, <1>5 DEF SweepInv

\* The pod of the manager is marked, and then gone.
LEMMA PodFits == ASSUME SweepInv, PodMarked \/ PodGone PROVE SweepInv'
<1>1. /\ UNCHANGED <<level, baseline, held, finalizer, stale, sweep, overlapped>>
      /\ manager \in {"running", "terminating"} /\ manager' \in {"terminating", "gone"}
      /\ worker' \in {worker, Idle} /\ (manager' = "gone" => worker' = Idle)
  BY DEF PodMarked, PodGone, targetVars
<1>2. SweepType'
  BY <1>1 DEF SweepInv, SweepType, Idle
<1>3. ASSUME ~overlapped' PROVE (\A t \in Targets : Safe(t))' /\ Working' /\ Alone'
  <2>1. (\A t \in Targets : Safe(t)) /\ Working /\ Alone
    BY <1>1, <1>3 DEF SweepInv
  <2>2. ~Sweeping /\ sweep.at \notin {"next", "restore", "clear", "done"}
    BY <1>1, <2>1 DEF Alone, Sweeping
  <2>3. Alone'
    BY <1>1, <2>1, <2>2 DEF Alone, Sweeping
  <2>4. Working'
    BY <1>1, <2>1 DEF Working, Idle
  <2>. QED  BY <1>1, <2>1, <2>3, <2>4 DEF Safe
<1>. QED  BY <1>2, <1>3 DEF SweepInv

\* A pod of the hook that begins, waits or dies touches nothing.
LEMMA AsideFits ==
  ASSUME SweepInv, sweep' \in SweepState, sweep'.at \in {"stopping", "waiting", "listing", "dead"},
         UNCHANGED <<level, baseline, held, finalizer, manager, worker, overlapped>>
  PROVE  SweepInv'
<1>1. SweepType'
  BY DEF SweepInv, SweepType, SweepState
<1>2. ASSUME ~overlapped' PROVE (\A t \in Targets : Safe(t))' /\ Working' /\ Alone'
  BY <1>2 DEF SweepInv, Safe, Working, Alone, Sweeping
<1>. QED  BY <1>1, <1>2 DEF SweepInv

\* The hook starts, is killed, starts again, stops the manager, waits and lists.
LEMMA HookFits ==
  ASSUME SweepInv, StartSweep \/ StopManager \/ ManagerStopped \/ Killed \/ SweepAgain
  PROVE  SweepInv'
<1>1. UNCHANGED <<level, baseline, held, finalizer, manager, worker, overlapped>>
  BY DEF StartSweep, StopManager, ManagerStopped, Killed, SweepAgain, targetVars, managerVars
<1>2. sweep \in SweepState
  BY DEF SweepInv, SweepType, SweepState
<1>3. CASE StartSweep \/ SweepAgain
  <2>1. PICK n \in Nat : sweep' = [NotStarted EXCEPT !.at = "stopping", !.runs = n]
    <3>1. sweep.runs \in Nat
      BY <1>2 DEF SweepState
    <3>2. CASE StartSweep
      BY <3>2 DEF StartSweep
    <3>3. CASE SweepAgain
      <4>1. sweep.runs + 1 \in Nat
        BY <3>1
      <4>2. sweep' = [NotStarted EXCEPT !.at = "stopping", !.runs = sweep.runs + 1]
        BY <3>3 DEF SweepAgain
      <4>. QED  BY <4>1, <4>2
    <3>. QED  BY <1>3, <3>2, <3>3
  <2>2. sweep' \in SweepState /\ sweep'.at = "stopping"
    BY <2>1 DEF NotStarted, SweepState, Places
  <2>. QED  BY <1>1, <2>2, AsideFits
<1>4. CASE StopManager \/ ManagerStopped \/ Killed
  <2>1. PICK place \in {"waiting", "listing", "dead"} : sweep' = [sweep EXCEPT !.at = place]
    BY <1>4 DEF StopManager, ManagerStopped, Killed, Move
  <2>2. sweep' \in SweepState /\ sweep'.at = place
    BY <1>2, <2>1 DEF SweepState, Places
  <2>. QED  BY <1>1, <2>2, AsideFits
<1>. QED  BY <1>3, <1>4

\* The list: from here on the sweep is alone, or has overlapped.
LEMMA ListFits == ASSUME SweepInv, List PROVE SweepInv'
<1>1. UNCHANGED <<level, baseline, held, finalizer, manager, worker>> /\ sweep \in SweepState
  BY DEF List, targetVars, managerVars, SweepInv, SweepType, SweepState
<1>. DEFINE all == UNION {References[a] : a \in Automations}
<1>2. CASE /\ sweep' = [sweep EXCEPT !.at = "next", !.failures = 0, !.todo = all, !.drop = finalizer]
           /\ stale' = {} /\ overlapped' = (overlapped \/ Alive)
  <2>1. all \subseteq Targets /\ finalizer \subseteq Automations
    BY SweepConstants DEF SweepInv, SweepType
  <2>2. \A t \in Targets, a \in Automations : t \in References[a] => t \in all
    OBVIOUS
  <2>. HIDE DEF all
  <2>3. /\ sweep' \in SweepState /\ sweep'.at = "next" /\ sweep'.failures = 0
        /\ sweep'.todo = all /\ sweep'.drop = finalizer
    BY <1>1, <1>2, <2>1 DEF SweepState, Places
  <2>4. overlapped' \in BOOLEAN /\ (~overlapped' => ~overlapped /\ ~Alive)
    BY <1>2
  <2>5. SweepType'
    BY <1>1, <2>3, <2>4 DEF SweepInv, SweepType, SweepState
  <2>6. ASSUME ~overlapped' PROVE (\A t \in Targets : Safe(t))' /\ Working' /\ Alone'
    <3>1. (\A t \in Targets : Safe(t)) /\ Working /\ Alone /\ manager = "gone"
      BY <2>4, <2>6 DEF SweepInv, Alive
    <3>2. \A t \in Targets \ all : baseline[t] = None
      BY <2>2, <3>1 DEF Safe
    <3>3. Alone'
      BY <1>1, <1>2, <2>3, <3>1, <3>2 DEF Alone, Sweeping
    <3>. QED  BY <1>1, <3>1, <3>3 DEF Safe, Working
  <2>. QED  BY <2>5, <2>6 DEF SweepInv
<1>3. CASE Move("dead") /\ UNCHANGED overlapped
  <2>1. sweep' \in SweepState /\ sweep'.at = "dead"
    BY <1>1, <1>3 DEF Move, SweepState, Places
  <2>. QED  BY <1>1, <1>3, <2>1, AsideFits
<1>. QED  BY <1>2, <1>3 DEF List

\* What the sweep does to its own record when it is through with a target.
LEMMA DoneWith ==
  ASSUME SweepType, NEW t \in Targets
  PROVE  \A next \in {Done(t), Skipped(t)} :
           /\ next \in SweepState /\ next.at = "next"
           /\ next.todo = sweep.todo \ {t} /\ next.drop = sweep.drop
           /\ next.failures = 0 => next = Done(t) /\ sweep.failures = 0
<1>1. sweep \in SweepState
  BY DEF SweepType, SweepState
<1>2. /\ Done(t) \in SweepState /\ Done(t).at = "next" /\ Done(t).todo = sweep.todo \ {t}
      /\ Done(t).drop = sweep.drop /\ Done(t).failures = sweep.failures
  BY <1>1 DEF Done, SweepState, Places
<1>3. /\ Skipped(t) \in SweepState /\ Skipped(t).at = "next" /\ Skipped(t).todo = sweep.todo \ {t}
      /\ Skipped(t).drop = sweep.drop /\ Skipped(t).failures = sweep.failures + 1
  BY <1>2 DEF Skipped, SweepState
<1>4. sweep.failures \in Nat
  BY <1>1 DEF SweepState
<1>. QED  BY <1>2, <1>3, <1>4

\* The sweep is through with a target, which is without a record or has failed.
LEMMA NextTargetFits ==
  ASSUME SweepInv, Sweeping, sweep.at # "done", NEW t \in Targets, sweep' \in {Done(t), Skipped(t)},
         UNCHANGED <<finalizer, stale, manager, worker, overlapped>>,
         SweepType', ~overlapped => \A s \in Targets : Safe(s)',
         sweep' = Done(t) => baseline'[t] = None,
         \A s \in Targets \ {t} : baseline'[s] = baseline[s]
  PROVE  SweepInv'
<1>1. SweepType
  BY DEF SweepInv
<1>2. /\ sweep'.at = "next" /\ sweep'.todo = sweep.todo \ {t} /\ sweep'.drop = sweep.drop
      /\ sweep'.failures = 0 => sweep' = Done(t) /\ sweep.failures = 0
  BY <1>1, DoneWith
<1>3. ASSUME ~overlapped' PROVE Working' /\ Alone'
  <2>1. Alone /\ worker = Idle /\ manager = "gone" /\ stale = {}
    BY <1>3 DEF SweepInv, Alone
  <2>2. Working'
    BY <2>1 DEF Working, Idle
  <2>3. sweep'.failures = 0 => \A s \in Targets \ sweep'.todo : baseline'[s] = None
    <3>. SUFFICES ASSUME sweep'.failures = 0, NEW s \in Targets \ sweep'.todo
                  PROVE  baseline'[s] = None
      OBVIOUS
    <3>1. s = t \/ s \in Targets \ sweep.todo
      BY <1>2
    <3>. QED  BY <1>2, <2>1, <3>1 DEF Alone
  <2>4. sweep'.failures = 0 => finalizer' \subseteq sweep'.drop
    BY <1>2, <2>1 DEF Alone
  <2>5. Alone'
    BY <1>2, <2>1, <2>3, <2>4 DEF Alone, Sweeping
  <2>. QED  BY <2>2, <2>5
<1>. QED  BY <1>3 DEF SweepInv

\* The sweep reads a target and goes by its record.
LEMMA ReadTargetFits == ASSUME SweepInv, NEW t \in Targets, ReadTarget(t) PROVE SweepInv'
<1>1. /\ sweep.at = "next" /\ Sweeping /\ t \in sweep.todo
      /\ UNCHANGED <<level, baseline, held, finalizer, stale, manager, worker, overlapped>>
  BY DEF ReadTarget, At, Sweeping, targetVars, managerVars
<1>2. SweepType /\ sweep \in SweepState /\ baseline[t] \in Levels \cup {None}
  BY DEF SweepInv, SweepType, SweepState
<1>3. CASE sweep' \in {Done(t), Skipped(t)} /\ (sweep' = Done(t) => baseline[t] = None)
  <2>1. sweep' \in SweepState /\ sweep'.at = "next"
    BY <1>2, <1>3, DoneWith
  <2>2. SweepType'
    BY <1>1, <1>2, <2>1 DEF SweepType
  <2>3. ~overlapped => \A s \in Targets : Safe(s)'
    BY <1>1 DEF SweepInv, Safe
  <2>. QED  BY <1>1, <1>3, <2>2, <2>3, NextTargetFits
<1>4. CASE baseline[t] # None /\ sweep' = [sweep EXCEPT !.at = "restore", !.target = t, !.found = baseline[t]]
  <2>1. /\ sweep' \in SweepState /\ sweep'.at = "restore" /\ sweep'.target = t
        /\ sweep'.found = baseline[t] /\ sweep'.todo = sweep.todo /\ sweep'.drop = sweep.drop
        /\ sweep'.failures = sweep.failures
    BY <1>2, <1>4 DEF SweepState, Places
  <2>2. SweepType'
    BY <1>1, <1>2, <1>4, <2>1 DEF SweepType
  <2>3. ASSUME ~overlapped' PROVE (\A s \in Targets : Safe(s))' /\ Working' /\ Alone'
    <3>1. (\A s \in Targets : Safe(s)) /\ Working /\ Alone
      BY <1>1, <2>3 DEF SweepInv
    <3>2. Alone'
      BY <1>1, <1>4, <2>1, <3>1 DEF Alone, Sweeping
    <3>. QED  BY <1>1, <3>1, <3>2 DEF Safe, Working
  <2>. QED  BY <2>2, <2>3 DEF SweepInv
<1>5. \/ baseline[t] = None /\ sweep' = Done(t)
      \/ /\ baseline[t] # None
         /\ sweep' = [sweep EXCEPT !.at = "restore", !.target = t, !.found = baseline[t]]
      \/ sweep' = Skipped(t)
  BY DEF ReadTarget
<1>6. Skipped(t) # Done(t)
  <2>1. Skipped(t).failures = sweep.failures + 1 /\ Done(t).failures = sweep.failures /\ sweep.failures \in Nat
    BY <1>2 DEF Skipped, Done, SweepState
  <2>. QED  BY <2>1
<1>. QED  BY <1>3, <1>4, <1>5, <1>6

\* The sweep restores a level somebody wants back.
LEMMA RestoreFits == ASSUME SweepInv, Restore PROVE SweepInv'
<1>. DEFINE t == sweep.target
<1>1. /\ sweep.at = "restore" /\ Sweeping
      /\ UNCHANGED <<baseline, finalizer, stale, manager, worker, overlapped>>
  BY DEF Restore, At, Sweeping, managerVars
<1>2. SweepType /\ sweep \in SweepState /\ level \in [Targets -> Levels] /\ held \subseteq Targets
  BY DEF SweepInv, SweepType, SweepState
<1>3. \/ HandBack(t, sweep.found) /\ Move("clear")
      \/ /\ sweep' = Skipped(t)
         /\ HandBack(t, sweep.found) \/ UNCHANGED <<level, held>>
  BY DEF Restore
<1>4. CASE overlapped
  <2>1. t \in Targets /\ sweep.found \in Levels
    BY <1>1, <1>2 DEF SweepType
  <2>2. sweep' \in SweepState /\ sweep'.at \in {"clear", "next"} /\ (sweep'.at = "clear" => sweep'.target = t)
    <3>1. CASE sweep' = Skipped(t)
      BY <1>2, <2>1, <3>1, DoneWith
    <3>2. CASE Move("clear")
      BY <1>2, <3>2 DEF Move, SweepState, Places
    <3>. QED  BY <1>3, <3>1, <3>2
  <2>3. level' \in [Targets -> Levels] /\ held' \subseteq Targets
    <3>1. CASE HandBack(t, sweep.found)
      <4>1. Due(t, sweep.found) \in Levels \cup {None}
        BY <2>1, DueIsNoClaim
      <4>. QED  BY <1>2, <3>1, <4>1 DEF HandBack
    <3>2. CASE UNCHANGED <<level, held>>
      BY <1>2, <3>2
    <3>. QED  BY <1>3, <3>1, <3>2
  <2>4. SweepType'
    BY <1>1, <1>2, <2>1, <2>2, <2>3 DEF SweepType
  <2>. QED  BY <1>1, <1>4, <2>4 DEF SweepInv
<1>5. CASE ~overlapped
  <2>1. (\A s \in Targets : Safe(s)) /\ Working /\ Alone
    BY <1>5 DEF SweepInv
  <2>2. /\ t \in sweep.todo /\ t \in Targets
        /\ sweep.found = baseline[t] /\ sweep.found # None
    BY <1>1, <1>2, <2>1 DEF Alone, SweepState
  <2>3. sweep.found \in Levels /\ (sweep.found \in Claims => Unwanted(t))
    BY <1>2, <2>1, <2>2 DEF Safe, SweepState
  <2>. HIDE DEF t
  <2>4. /\ level' \in [Targets -> Levels] /\ held' \subseteq Targets
        /\ \A s \in Targets : Safe(s)'
        /\ HandBack(t, sweep.found) => t \notin held'
    <3>1. CASE HandBack(t, sweep.found)
      <4>1. /\ level' \in [Targets -> Levels] /\ held' = held \ {t}
            /\ level'[t] \in Claims => Unwanted(t)
            /\ \A s \in Targets \ {t} : level'[s] = level[s]
        BY <1>2, <2>2, <2>3, <3>1, HandedBack
      <4>2. ASSUME NEW s \in Targets PROVE Safe(s)'
        <5>1. CASE s = t
          BY <1>1, <2>1, <4>1, <5>1 DEF Safe, Unwanted
        <5>2. CASE s # t
          BY <1>1, <2>1, <4>1, <5>2 DEF Safe, Unwanted
        <5>. QED  BY <5>1, <5>2
      <4>. QED  BY <1>2, <4>1, <4>2
    <3>2. CASE ~HandBack(t, sweep.found)
      BY <1>1, <1>2, <1>3, <2>1, <3>2 DEF Safe, Unwanted
    <3>. QED  BY <3>1, <3>2
  <2>5. CASE HandBack(t, sweep.found) /\ Move("clear")
    <3>1. /\ sweep' \in SweepState /\ sweep'.at = "clear" /\ sweep'.target = t
          /\ sweep'.todo = sweep.todo /\ sweep'.drop = sweep.drop /\ sweep'.failures = sweep.failures
      BY <1>2, <2>5 DEF Move, SweepState, Places, t
    <3>2. SweepType'
      BY <1>1, <1>2, <2>2, <2>4, <3>1 DEF SweepType
    <3>3. Alone'
      BY <1>1, <2>1, <2>2, <2>4, <2>5, <3>1 DEF Alone, Sweeping
    <3>4. Working'
      BY <1>1, <2>1 DEF Working, Alone, Idle
    <3>. QED  BY <2>4, <3>2, <3>3, <3>4 DEF SweepInv
  <2>6. CASE sweep' = Skipped(t)
    <3>1. sweep' \in SweepState /\ sweep'.at = "next" /\ Skipped(t) # Done(t)
      <4>1. Skipped(t).failures = sweep.failures + 1 /\ Done(t).failures = sweep.failures /\ sweep.failures \in Nat
        BY <1>2 DEF Skipped, Done, SweepState
      <4>. QED  BY <1>2, <2>2, <2>6, <4>1, DoneWith
    <3>2. SweepType'
      BY <1>1, <1>2, <2>4, <3>1 DEF SweepType
    <3>. QED  BY <1>1, <2>2, <2>4, <2>6, <3>1, <3>2, NextTargetFits
  <2>. QED  BY <1>3, <2>5, <2>6 DEF t
<1>. QED  BY <1>4, <1>5

\* The sweep takes the record off what it has restored.
LEMMA ClearFits == ASSUME SweepInv, Clear PROVE SweepInv'
<1>. DEFINE t == sweep.target
<1>1. /\ sweep.at = "clear" /\ Sweeping
      /\ UNCHANGED <<level, held, finalizer, stale, manager, worker, overlapped>>
      /\ sweep' \in {Done(t), Skipped(t)}
      /\ baseline' \in {baseline, [baseline EXCEPT ![t] = None]}
  BY DEF Clear, At, Sweeping, managerVars
<1>2. /\ SweepType /\ sweep \in SweepState /\ t \in Targets
      /\ baseline \in [Targets -> Levels \cup {None}]
  BY <1>1 DEF SweepInv, SweepType
<1>3. sweep' = Done(t) => baseline' = [baseline EXCEPT ![t] = None]
  <2>1. Skipped(t).failures = sweep.failures + 1 /\ Done(t).failures = sweep.failures /\ sweep.failures \in Nat
    BY <1>2 DEF Skipped, Done, SweepState
  <2>2. Skipped(t) # Done(t)
    BY <2>1
  <2>. QED  BY <2>2 DEF Clear
<1>4. ~overlapped => (\A s \in Targets : Safe(s)) /\ t \notin held
  BY <1>1 DEF SweepInv, Alone
<1>. HIDE DEF t
<1>5. /\ baseline' \in [Targets -> Levels \cup {None}] /\ baseline'[t] \in {baseline[t], None}
      /\ \A s \in Targets \ {t} : baseline'[s] = baseline[s]
      /\ sweep' = Done(t) => baseline'[t] = None
  BY <1>1, <1>2, <1>3
<1>6. sweep' \in SweepState /\ sweep'.at = "next"
  BY <1>1, <1>2, DoneWith
<1>7. SweepType'
  BY <1>1, <1>2, <1>5, <1>6 DEF SweepType
<1>8. ASSUME ~overlapped, NEW s \in Targets PROVE Safe(s)'
  <2>1. CASE s = t
    BY <1>1, <1>4, <1>5, <1>8, <2>1, SweepConstants DEF Safe, Unwanted
  <2>2. CASE s # t
    BY <1>1, <1>4, <1>5, <1>8, <2>2 DEF Safe, Unwanted
  <2>. QED  BY <2>1, <2>2
<1>. QED  BY <1>1, <1>2, <1>5, <1>7, <1>8, NextTargetFits

\* The sweep takes a finalizer off.
LEMMA DropFinalizerFits == ASSUME SweepInv, NEW a \in Automations, DropFinalizer(a) PROVE SweepInv'
<1>1. /\ sweep.at = "next" /\ sweep.todo = {}
      /\ UNCHANGED <<level, baseline, held, manager, worker, stale, overlapped>>
      /\ SweepType /\ sweep \in SweepState /\ sweep.failures \in Nat
  BY DEF DropFinalizer, At, targetVars, managerVars, SweepInv, SweepType, SweepState
<1>2. PICK n \in Nat :
        /\ sweep' = [sweep EXCEPT !.drop = @ \ {a}, !.failures = n]
        /\ \/ n = sweep.failures /\ finalizer' = finalizer \ {a}
           \/ n = sweep.failures + 1 /\ finalizer' = finalizer
  <2>1. CASE finalizer' = finalizer \ {a} /\ sweep' = [sweep EXCEPT !.drop = @ \ {a}]
    <3>1. sweep' = [sweep EXCEPT !.drop = @ \ {a}, !.failures = sweep.failures]
      BY <1>1, <2>1 DEF SweepState
    <3>. QED  BY <1>1, <2>1, <3>1
  <2>2. CASE finalizer' = finalizer /\ sweep' = [sweep EXCEPT !.drop = @ \ {a}, !.failures = @ + 1]
    <3>1. sweep' = [sweep EXCEPT !.drop = @ \ {a}, !.failures = sweep.failures + 1]
      BY <1>1, <2>2 DEF SweepState
    <3>2. sweep.failures + 1 \in Nat
      BY <1>1
    <3>. QED  BY <2>2, <3>1, <3>2
  <2>. QED  BY <2>1, <2>2 DEF DropFinalizer
<1>3. /\ sweep' \in SweepState /\ sweep'.at = "next" /\ sweep'.todo = {}
      /\ sweep'.drop = sweep.drop \ {a} /\ sweep'.failures = n
  BY <1>1, <1>2 DEF SweepState
<1>4. SweepType'
  BY <1>1, <1>2, <1>3 DEF SweepType
<1>5. ASSUME ~overlapped' PROVE (\A t \in Targets : Safe(t))' /\ Working' /\ Alone'
  <2>1. (\A t \in Targets : Safe(t)) /\ Working /\ Alone
    BY <1>1, <1>5 DEF SweepInv
  <2>2. n = 0 => sweep.failures = 0 /\ finalizer' = finalizer \ {a}
    BY <1>1, <1>2
  <2>3. Alone'
    BY <1>1, <1>3, <2>1, <2>2 DEF Alone, Sweeping
  <2>. QED  BY <1>1, <2>1, <2>3 DEF Safe, Working
<1>. QED  BY <1>4, <1>5 DEF SweepInv

\* The sweep ends with nothing left to do.
LEMMA FinishFits == ASSUME SweepInv, Finish PROVE SweepInv'
<1>1. /\ sweep.at = "next" /\ sweep.todo = {} /\ sweep.drop = {}
      /\ sweep' = [sweep EXCEPT !.at = "done"]
      /\ UNCHANGED <<level, baseline, held, manager, worker, finalizer, stale, overlapped>>
      /\ SweepType /\ sweep \in SweepState
  BY DEF Finish, At, Move, targetVars, SweepInv, SweepType
<1>2. /\ sweep' \in SweepState /\ sweep'.at = "done" /\ sweep'.todo = {} /\ sweep'.drop = {}
      /\ sweep'.failures = sweep.failures
  BY <1>1 DEF SweepState, Places
<1>3. SweepType'
  BY <1>1, <1>2 DEF SweepType
<1>4. ASSUME ~overlapped' PROVE (\A t \in Targets : Safe(t))' /\ Working' /\ Alone'
  <2>1. (\A t \in Targets : Safe(t)) /\ Working /\ Alone
    BY <1>1, <1>4 DEF SweepInv
  <2>2. Alone'
    BY <1>1, <1>2, <2>1 DEF Alone, Sweeping
  <2>. QED  BY <1>1, <2>1, <2>2 DEF Safe, Working
<1>. QED  BY <1>3, <1>4 DEF SweepInv

\* Every step of an uninstall preserves its invariant.
LEMMA SweepStep == ASSUME SweepInv, SweepNext PROVE SweepInv'
<1>1. CASE \E a \in Automations : Register(a) \/ DropFinalizer(a)
  BY <1>1, RegisterFits, DropFinalizerFits
<1>2. CASE \E a \in Automations, t \in Targets : RecordBaseline(a, t)
  BY <1>2, RecordBaselineFits
<1>3. CASE \E t \in Targets : RestoreLevel(t) \/ ReadTarget(t)
  BY <1>3, RestoreLevelFits, ReadTargetFits
<1>4. CASE WriteLevel \/ ForgetBaseline \/ PodMarked \/ PodGone
  BY <1>4, WriteLevelFits, ForgetBaselineFits, PodFits
<1>5. CASE StartSweep \/ StopManager \/ ManagerStopped \/ List \/ Restore \/ Clear \/ Finish
           \/ Killed \/ SweepAgain
  BY <1>5, HookFits, ListFits, RestoreFits, ClearFits, FinishFits
<1>. QED  BY <1>1, <1>2, <1>3, <1>4, <1>5 DEF SweepNext

\* So does a step of the installation, which touches nothing of it.
LEMMA SweepUnchanged == ASSUME SweepInv, UNCHANGED sweepVars PROVE SweepInv'
<1>1. UNCHANGED <<level, baseline, held, finalizer, stale, manager, worker, sweep, overlapped>>
  BY DEF sweepVars
<1>. QED  BY <1>1 DEF SweepInv, SweepType, Safe, Unwanted, Working, Alone, Sweeping

\* Initially nothing is claimed.
LEMMA SweepFirst == ASSUME SweepInit PROVE SweepInv
<1>. USE DEF SweepInit
<1>1. sweep \in SweepState /\ sweep.at = "none" /\ worker.at = "idle"
  BY DEF NotStarted, SweepState, Places, Idle
<1>2. SweepType
  BY <1>1, SweepConstants DEF SweepType, Idle
<1>3. \A t \in Targets : Safe(t)
  BY SweepConstants DEF Safe
<1>4. Working /\ Alone
  BY <1>1 DEF Working, Alone, Sweeping
<1>. QED  BY <1>2, <1>3, <1>4 DEF SweepInv

(***************************************************************************)
(* The life of an install.                                                 *)
(***************************************************************************)

\* The installation and the uninstall.
Inv == AdoptInv /\ SweepInv

\* Through every installation, upgrade, uninstall and failure of theirs, the
\* releases know where they stand with the CRD, and a target's level is never
\* without what leads back from it.
THEOREM InvHolds == Spec => []Inv
<1>1. Init => Inv
  BY AdoptFirst, SweepFirst DEF Init, Inv
<1>2. Inv /\ [Next]_<<sweepVars, adoptVars>> => Inv'
  <2>1. ASSUME Inv, Installing PROVE Inv'
    BY <2>1, AdoptStep, SweepUnchanged DEF Inv, Installing
  <2>2. ASSUME Inv, Uninstalling PROVE Inv'
    BY <2>2, SweepStep, AdoptUnchanged DEF Inv, Uninstalling
  <2>3. ASSUME Inv, UNCHANGED <<sweepVars, adoptVars>> PROVE Inv'
    BY <2>3, SweepUnchanged, AdoptUnchanged DEF Inv
  <2>. QED  BY <2>1, <2>2, <2>3 DEF Next
<1>. QED  BY <1>1, <1>2, PTL DEF Spec

\* That nobody wants a level back does not depend on which was recorded.
LEMMA NobodyWishes ==
  ASSUME NEW t \in Targets, NEW found, Unwanted(t) PROVE Wishes(t, found) = {}
BY DEF Unwanted, Wishes

\* A level of Reactor's is never without its record, and what is recorded is no
\* claim unless nobody wants the level back, for every set of targets.
THEOREM SweepKeepsTheRecordHolds == Spec => []SweepKeepsTheRecord
<1>1. Inv => SweepKeepsTheRecord
  BY NobodyWishes, SweepConstants DEF Inv, SweepInv, SweepType, Safe, SweepKeepsTheRecord
<1>. QED  BY <1>1, InvHolds, PTL

\* A sweep that was alone and met no failure leaves nothing of Reactor behind.
THEOREM SweptCleanHolds == Spec => []SweptClean
<1>1. Inv => SweptClean
  <2>. SUFFICES ASSUME SweepInv, sweep.at = "done", ~overlapped, sweep.failures = 0
                PROVE  /\ held = {} /\ finalizer = {}
                       /\ \A t \in Targets :
                            /\ baseline[t] = None
                            /\ level[t] \in Claims => Wishes(t, Original[t]) = {}
    BY DEF Inv, SweptClean, At
  <2>1. /\ \A t \in Targets : Safe(t)
        /\ finalizer \subseteq sweep.drop /\ sweep.drop = {}
        /\ \A t \in Targets : baseline[t] = None
        /\ held \subseteq Targets
    BY DEF SweepInv, SweepType, Alone, Sweeping
  <2>2. held = {}
    BY <2>1 DEF Safe
  <2>3. ASSUME NEW t \in Targets, level[t] \in Claims PROVE Wishes(t, Original[t]) = {}
    BY <2>1, <2>2, <2>3, NobodyWishes DEF Safe
  <2>. QED  BY <2>1, <2>2, <2>3
<1>. QED  BY <1>1, InvHolds, PTL

\* No operator runs over a schema older than its own, however many releases,
\* upgrades and broken hooks there are.
THEOREM SchemaBeforeOperatorHolds == Spec => []SchemaBeforeOperator
<1>1. Inv => SchemaBeforeOperator
  BY DEF Inv, AdoptInv, Owned, Follows, SchemaBeforeOperator
<1>. QED  BY <1>1, InvHolds, PTL

\* A CRD that belongs to a release stays with it.
THEOREM NeverTakenHolds == Spec => NeverTaken
<1>1. ASSUME Inv, [Next]_<<sweepVars, adoptVars>>, ~raced, crd.there, crd.owner # Nobody
      PROVE  crd'.owner = crd.owner
  <2>1. \A r \in Releases : Owned(r)
    BY <1>1 DEF Inv, AdoptInv
  <2>2. CASE crd' = crd
    BY <2>2
  <2>3. CASE crd' # crd
    <3>1. AdoptNext
      BY <1>1, <2>3 DEF Next, Installing, Uninstalling, adoptVars
    <3>2. PICK r \in Releases : PatchCRD(r) \/ HookBreaks(r) \/ Apply(r)
      BY <2>3, <3>1 DEF AdoptNext, Render, ReadCRD, Rollout
    <3>3. upgrade[r].at # "patch"
      BY <1>1, <2>1 DEF Owned, Follows
    <3>4. Apply(r) /\ crd' = [there |-> TRUE, owner |-> r, schema |-> upgrade[r].version]
          /\ crd.owner = r
      BY <1>1, <2>3, <3>2, <3>3 DEF PatchCRD, HookBreaks, Apply
    <3>. QED  BY <3>4
  <2>. QED  BY <2>2, <2>3
<1>2. Inv /\ [Next]_<<sweepVars, adoptVars>> =>
        [~raced /\ crd.there /\ crd.owner # Nobody => crd'.owner = crd.owner]_adoptVars
  BY <1>1
<1>. QED  BY <1>2, InvHolds, PTL DEF Spec, NeverTaken

=============================================================================
