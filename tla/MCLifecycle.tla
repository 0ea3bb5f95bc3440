---------------------------- MODULE MCLifecycle ----------------------------
EXTENDS Lifecycle
CONSTANTS a1, a2, a3, t1, t2, r1, r2

\* Of the first target two Automations want different levels, of the second
\* nobody wants any.
MCOriginal == [t \in {t1, t2} |-> IF t = t1 THEN 2 ELSE 3]
MCReferences == [a \in {a1, a2, a3} |-> IF a = a3 THEN {t1, t2} ELSE {t1}]
MCReversal == [a \in {a1, a2, a3} |-> CASE a = a1 -> AtBaseline [] a = a2 -> 1 [] a = a3 -> None]
\* The two releases are alike.
Symmetric == Permutations({r1, r2})

MCManifests == {<<"empty", "crd">>, <<"crd", "crd">>}

\* The manager never looks at who owns the CRD: it is followed from one outcome
\* of the installation only.
MCNext ==
  \/ At("none") /\ finalizer = {} /\ Installing
  \/ broken = 0 /\ ~raced /\ Uninstalling

MCSpec == Init /\ [][MCNext]_<<sweepVars, adoptVars>>
=============================================================================
