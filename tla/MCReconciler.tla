---------------------------- MODULE MCReconciler ----------------------------
(* Model-checking instances of Reconciler: two targets and a two-valued key. *)
EXTENDS Reconciler, TLC

LimitsOf(poll, drop, suspend, delete, break, fault, crash) ==
  [d \in Disturbances |->
     CASE d = "poll" -> poll [] d = "drop" -> drop [] d = "suspend" -> suspend
       [] d = "delete" -> delete [] d = "break" -> break
       [] d = "fault" -> fault [] d = "crash" -> crash]

AllLimit   == LimitsOf(2, 1, 1, 1, 2, 1, 1)
RetryLimit == LimitsOf(2, 0, 0, 0, 2, 0, 0)
=============================================================================
