------------------------------ MODULE Decision ------------------------------
(***************************************************************************)
(* From a reading of the console to the level of a target: one poll        *)
(* (StateKeys), the conditions of the Automations that share the target    *)
(* judged against it (internal/controller/arbitration.go, matchingOf), and *)
(* the claims of those that hold gathered and resolved (ArbiterFold).  The *)
(* debounce that stands between the reading and the conditions has its own *)
(* module, Observation.                                                    *)
(***************************************************************************)
EXTENDS StateKeys, ArbiterFold

CONSTANT When   \* the condition of each Automation: the keys, each with the value asked for

VARIABLE holding   \* the Automations whose condition holds

decisionVars == <<devices, health, gathered, holding>>

\* Every key asked for has the value asked for; a key not seen holds nothing.
Matches(when, view) == when \subseteq view

DecisionInit ==
  /\ ReadingInit
  /\ gathered = <<>>
  /\ holding = {}

Read == NextRecord /\ holding = {} /\ UNCHANGED <<gathered, holding>>

\* The poll is over, with or without one of its endpoints, and the conditions
\* are judged against what it saw.
Judge ==
  /\ holding = {}
  /\ \E lost \in SUBSET Endpoints :
       holding' = {c \in Claimants : Matches(When[c], Sees(lost))}
  /\ NextPoll
  /\ gathered' = <<>>

GatherHolding ==
  /\ \E c \in holding, l \in Levels : Gather(c, l)
  /\ UNCHANGED <<devices, health, holding>>

\* The target is written and the next poll is awaited.
Decided ==
  /\ Len(gathered) = Cardinality(holding)
  /\ gathered' = <<>> /\ holding' = {}
  /\ UNCHANGED <<devices, health>>

DecisionNext == Read \/ Judge \/ GatherHolding \/ Decided

DecisionSpec == DecisionInit /\ [][DecisionNext]_decisionVars

=============================================================================
