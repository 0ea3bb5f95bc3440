---------------------------- MODULE EdgeActions ----------------------------
(***************************************************************************)
(* Everything a manager sends out: the edge actions of one transition      *)
(* (Delivery), of which those on the console go through the writer         *)
(* (Console) beside the writes of another worker and a person's, and the   *)
(* rule it registers at its start (AlarmRegistrar).                        *)
(***************************************************************************)
EXTENDS Delivery, Console, AlarmRegistrar

CONSTANT Mine   \* the worker that reconciles this Automation

ASSUME Worker == Mine \in Writers

Init == DeliveryInit /\ ConsoleInit /\ RegistrarInit

vars == <<deliveryVars, consoleVars, registrarVars>>

HandOver ==
  /\ HandToConsole
  /\ \E action \in ConsoleActions : BeginWrite(Mine, action)
  /\ UNCHANGED registrarVars

\* The worker keeps nothing of a console action but its entry in the status.
TakeBack ==
  /\ writer[Mine].at = "idle" /\ writer[Mine].report # "none"
  /\ HearFromConsole(writer[Mine].report, writer[Mine].carried)
  /\ writer' = [writer EXCEPT ![Mine] = Resting]
  /\ UNCHANGED <<policy, console, table, begun, edits, registrarVars>>

Deliver == DeliveryNext /\ UNCHANGED <<consoleVars, registrarVars>>

\* The console's world is followed while this transition has an action on it.
AtTheConsole ==
  /\ at = "console"
  /\ \/ PersonOrConsole
     \/ \E w \in Writers : WriterSteps(w)
     \/ \E w \in Writers \ {Mine}, action \in ConsoleActions : BeginWrite(w, action)
  /\ UNCHANGED <<deliveryVars, registrarVars>>

\* The registrar shares nothing with the writer but the console's address, so
\* it is followed in the behaviours whose transition has no edge action.
Register == list = <<>> /\ RegistrarNext /\ UNCHANGED <<deliveryVars, consoleVars>>

Next == Deliver \/ HandOver \/ TakeBack \/ AtTheConsole \/ Register

Spec == Init /\ [][Next]_vars

=============================================================================
