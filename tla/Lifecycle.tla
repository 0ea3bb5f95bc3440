------------------------------ MODULE Lifecycle ------------------------------
(***************************************************************************)
(* The life of an install, from helm install to helm uninstall: AdoptCRD   *)
(* up to a running operator, then ReleaseSweep (cmd/main.go runs the same  *)
(* binary in both one-shot modes).  Helm runs one of the two at a time.    *)
(***************************************************************************)
EXTENDS ReleaseSweep, AdoptCRD

Init == SweepInit /\ AdoptInit

Installing == AdoptNext /\ UNCHANGED sweepVars

\* The operator works once some release has rolled it out and no operation on
\* it is under way.
Uninstalling ==
  /\ \E r \in Releases : operator[r] > 0
  /\ \A r \in Releases : upgrade[r].at = "none"
  /\ SweepNext
  /\ UNCHANGED adoptVars

Next == (At("none") /\ Installing) \/ Uninstalling

Spec == Init /\ [][Next]_<<sweepVars, adoptVars>>

=============================================================================
