------------------------------ MODULE AdoptCRD ------------------------------
(***************************************************************************)
(* Who owns the CRD and which schema is live: internal/adopt/crd.go, run   *)
(* as a hook by the chart (reactor.crdAdoption in _helpers.tpl) on the one *)
(* upgrade that finds a CRD no release owns.  Helm itself is external: it  *)
(* renders against the cluster, runs the hook, applies what it rendered,   *)
(* and rolls the operator out.                                             *)
(***************************************************************************)
EXTENDS Naturals, Sequences, FiniteSets, SequencesExt

CONSTANTS
  Releases,     \* the releases that install the chart
  Manifests,    \* the documents a mounted manifest may hold
  Nobody,       \* the owner of a CRD the old packaging left behind
  MaxVersion,   \* chart versions
  MaxBroken     \* hooks that die or lose a call

ASSUME AdoptConstants == {MaxVersion, MaxBroken} \subseteq Nat /\ Nobody \notin Releases

VARIABLES
  crd,        \* the live CRD: there or not, its owner, its schema's version
  upgrade,    \* each release's helm operation
  operator,   \* the version of the manager each release runs, 0 for none
  broken,     \* hooks broken so far
  raced       \* two hooks have held a CRD of nobody's, read, at once

adoptVars == <<crd, upgrade, operator, broken, raced>>

NoUpgrade == [at |-> "none", version |-> 0, seen |-> Nobody, docs |-> <<>>]

AdoptInit ==
  /\ crd \in {[there |-> FALSE, owner |-> Nobody, schema |-> 0],
              [there |-> TRUE, owner |-> Nobody, schema |-> 0]}
  /\ upgrade = [r \in Releases |-> NoUpgrade]
  /\ operator = [r \in Releases |-> 0]
  /\ broken = 0
  /\ raced = FALSE

Step(r, place) == upgrade' = [upgrade EXCEPT ![r].at = place]
AnotherPatches(r) == \E o \in Releases \ {r} : upgrade[o].at = "patch"
GiveUp(r) == upgrade' = [upgrade EXCEPT ![r] = NoUpgrade]

\* helm install or upgrade: the chart looks the CRD up while it renders, and
\* either applies it, leaves it to the hook, or stops.
Render(r, version, docs) ==
  /\ upgrade[r].at = "none" /\ version > operator[r]
  /\ \/ ~crd.there \/ crd.owner = r
     \/ crd.owner = Nobody
  /\ upgrade' = [upgrade EXCEPT ![r] =
       [at |-> IF crd.there /\ crd.owner = Nobody THEN "hook" ELSE "apply",
        version |-> version, seen |-> Nobody, docs |-> docs]]
  /\ UNCHANGED <<crd, operator, broken, raced>>

\* chartDocument: exactly one document, a CRD of that name with a spec; empty
\* documents do not count.
Document(docs) ==
  LET written == SelectSeq(docs, LAMBDA d : d # "empty") IN
  Len(written) = 1 /\ written[1] = "crd"

\* Wrong: a CRD is taken whoever owns it.
ReadAndTake(r) ==
  /\ upgrade[r].at = "hook"
  /\ \/ ~crd.there /\ Step(r, "rollout")
     \/ crd.there /\ crd.owner = r /\ Step(r, "rollout")
     \/ crd.there /\ crd.owner # r /\ Document(upgrade[r].docs) /\ Step(r, "patch")
     \/ crd.there /\ crd.owner # r /\ ~Document(upgrade[r].docs) /\ GiveUp(r)
  /\ raced' = (raced \/ (upgrade'[r].at = "patch" /\ AnotherPatches(r)))
  /\ UNCHANGED <<crd, operator, broken>>

\* The hook reads the CRD: nothing to adopt, already ours, another's, or
\* nobody's - and then the chart's copy has to be the one document it expects.
ReadCRD(r) ==
  /\ upgrade[r].at = "hook"
  /\ \/ ~crd.there /\ Step(r, "rollout")
     \/ crd.there /\ crd.owner = r /\ Step(r, "rollout")
     \/ crd.there /\ crd.owner \notin {r, Nobody} /\ GiveUp(r)
     \/ crd.there /\ crd.owner = Nobody /\ Document(upgrade[r].docs) /\ Step(r, "patch")
     \/ crd.there /\ crd.owner = Nobody /\ ~Document(upgrade[r].docs) /\ GiveUp(r)
  /\ raced' = (raced \/ (upgrade'[r].at = "patch" /\ AnotherPatches(r)))
  /\ UNCHANGED <<crd, operator, broken>>

\* Wrong: ownership first, the schema in a second patch.
PatchInTwo(r) ==
  /\ upgrade[r].at \in {"patch", "schema"}
  /\ \/ upgrade[r].at = "patch" /\ crd' = [crd EXCEPT !.owner = r] /\ Step(r, "schema")
     \/ upgrade[r].at = "schema" /\ crd' = [crd EXCEPT !.schema = upgrade[r].version]
        /\ Step(r, "rollout")
  /\ UNCHANGED <<operator, broken, raced>>

\* One merge patch takes the CRD and puts the chart's schema live; it carries
\* no version of what was read.
PatchCRD(r) ==
  /\ upgrade[r].at = "patch"
  /\ crd' = [crd EXCEPT !.owner = r, !.schema = upgrade[r].version]
  /\ Step(r, "rollout")
  /\ UNCHANGED <<operator, broken, raced>>

\* The patch takes effect and its answer is lost, or it does not; or the pod
\* dies.  The Job tries once more from the start.
HookBreaks(r) ==
  /\ upgrade[r].at \in {"hook", "patch", "schema"} /\ broken < MaxBroken
  /\ broken' = broken + 1
  /\ crd' \in {crd} \cup (IF upgrade[r].at = "patch"
                          THEN {[crd EXCEPT !.owner = r, !.schema = upgrade[r].version]} ELSE {})
  /\ upgrade' \in {[upgrade EXCEPT ![r].at = "hook"], [upgrade EXCEPT ![r] = NoUpgrade]}
  /\ UNCHANGED <<operator, raced>>

\* Helm applies the CRD it rendered, creating it or updating its own.
Apply(r) ==
  /\ upgrade[r].at = "apply"
  /\ \/ /\ ~crd.there \/ crd.owner = r
        /\ crd' = [there |-> TRUE, owner |-> r, schema |-> upgrade[r].version]
        /\ Step(r, "rollout")
     \/ crd.there /\ crd.owner # r /\ GiveUp(r) /\ UNCHANGED crd
  /\ UNCHANGED <<operator, broken, raced>>

\* The operator of the new version starts.
Rollout(r) ==
  /\ upgrade[r].at = "rollout"
  /\ operator' = [operator EXCEPT ![r] = upgrade[r].version]
  /\ GiveUp(r)
  /\ UNCHANGED <<crd, broken, raced>>

AdoptNext ==
  \E r \in Releases :
    \/ \E v \in 1..MaxVersion, docs \in Manifests : Render(r, v, docs)
    \/ ReadCRD(r) \/ PatchCRD(r) \/ HookBreaks(r) \/ Apply(r) \/ Rollout(r)

-----------------------------------------------------------------------------
\* An operator never runs with a schema older than the one it was built with:
\* the hook takes the CRD and puts the schema live in one patch, and dies
\* leaving either or neither (crd.go:83-93).
SchemaBeforeOperator ==
  ~raced => \A r \in Releases : operator[r] > 0 => crd.there /\ crd.schema >= operator[r]

\* A CRD that belongs to a release stays with it (crd.go:106-108), as long as
\* no two hooks read it while it was nobody's: the patch does not carry the
\* version that was read.
NeverTaken ==
  [][~raced /\ crd.there /\ crd.owner # Nobody => crd'.owner = crd.owner]_adoptVars

=============================================================================
