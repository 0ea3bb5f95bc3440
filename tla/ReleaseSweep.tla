---------------------------- MODULE ReleaseSweep ----------------------------
(***************************************************************************)
(* The pre-delete hook: internal/controller/release.go stops the manager,  *)
(* hands every target back and drops the finalizers, while the manager may *)
(* still be running.  The manager is the claim protocol of TargetClaims    *)
(* seen from here: it registers finalizers, and it records, writes,        *)
(* restores and forgets, one call at a time.                               *)
(***************************************************************************)
EXTENDS Arbiter, FiniteSets

CONSTANTS
  Automations, Targets, Levels,
  Claims,        \* the levels that are claimed, and by nobody else asked for
  Original,      \* the level each target's owner gave it
  References,    \* the targets of each Automation
  Reversal,      \* what each Automation wants of a target nobody claims
  AtBaseline,    \* what it wants when that is the recorded baseline
  None,          \* no baseline recorded, or no level wanted
  MaxFailures,   \* calls that fail
  MaxRuns        \* pods the hook's Job may start

ASSUME SweepConstants ==
  /\ Levels \subseteq Nat /\ None \notin Levels
  /\ Claims \subseteq Levels
  /\ Original \in [Targets -> Levels \ Claims]
  /\ References \in [Automations -> SUBSET Targets]
  /\ Reversal \in [Automations -> (Levels \ Claims) \cup {AtBaseline, None}]
  /\ {MaxFailures, MaxRuns} \subseteq Nat

VARIABLES
  level, baseline,   \* the targets: their level and the recorded baseline
  held,              \* the targets whose level is Reactor's
  finalizer,         \* the Automations that carry the finalizer
  stale,             \* the Automations written since the sweep listed them
  manager,           \* the manager's pod
  replicas,          \* what its Deployment asks for
  worker,            \* the manager's reconcile under way
  sweep,             \* the hook's own progress
  failed,            \* calls that have failed
  overlapped         \* a pod of the hook went on with the manager not gone

targetVars == <<level, baseline, held>>
managerVars == <<manager, replicas, worker>>
sweepVars == <<level, baseline, held, finalizer, stale, manager, replicas, worker, sweep, failed, overlapped>>

Idle == [at |-> "idle", target |-> None]
NotStarted == [at |-> "none", todo |-> {}, target |-> None, found |-> None, drop |-> {},
               failures |-> 0, runs |-> 0]

SweepInit ==
  /\ level = Original
  /\ baseline = [t \in Targets |-> None]
  /\ held = {}
  /\ finalizer = {}
  /\ stale = {}
  /\ manager = "running"
  /\ replicas = 1
  /\ worker = Idle
  /\ sweep = NotStarted
  /\ failed = 0
  /\ overlapped = FALSE

MayFail == failed < MaxFailures
Failing == failed' = failed + 1

\* What the Automations of a target want of it once nothing claims it.
Wishes(t, found) ==
  {Intent(a, IF Reversal[a] = AtBaseline THEN found ELSE Reversal[a]) :
     a \in {b \in Automations : t \in References[b] /\ Reversal[b] # None}}

\* The level they agree on, none if none wants one.
Due(t, found) ==
  IF Wishes(t, found) = {} THEN None ELSE Resolve(Wishes(t, found)).level

\* The level that is due is written, if one is; the target is Reactor's no more.
HandBack(t, found) ==
  /\ level' = [level EXCEPT ![t] = IF Due(t, found) = None THEN @ ELSE Due(t, found)]
  /\ held' = held \ {t}

-----------------------------------------------------------------------------
\* The manager, until its pod is gone.

Alive == manager # "gone"

\* The finalizer comes before the first claim.
Register(a) ==
  /\ Alive /\ worker.at = "idle" /\ a \notin finalizer
  /\ finalizer' = finalizer \cup {a}
  /\ stale' = stale \cup {a}
  /\ UNCHANGED <<targetVars, managerVars, sweep, failed, overlapped>>

\* A claim: the baseline first, when there is none yet.
RecordBaseline(a, t) ==
  /\ Alive /\ worker.at = "idle" /\ a \in finalizer /\ t \in References[a]
  /\ baseline' = [baseline EXCEPT ![t] = IF @ = None THEN level[t] ELSE @]
  /\ worker' = [at |-> "recorded", target |-> t]
  /\ UNCHANGED <<level, held, finalizer, stale, manager, replicas, sweep, failed, overlapped>>

WriteLevel ==
  /\ Alive /\ worker.at = "recorded"
  /\ \E l \in Claims : level' = [level EXCEPT ![worker.target] = l]
  /\ held' = held \cup {worker.target}
  /\ worker' = Idle
  /\ UNCHANGED <<baseline, finalizer, stale, manager, replicas, sweep, failed, overlapped>>

\* A release of the manager's own, for a condition that stopped holding.
RestoreLevel(t) ==
  /\ Alive /\ worker.at = "idle" /\ baseline[t] # None
  /\ HandBack(t, baseline[t])
  /\ worker' = [at |-> "restored", target |-> t]
  /\ UNCHANGED <<baseline, finalizer, stale, manager, replicas, sweep, failed, overlapped>>

ForgetBaseline ==
  /\ Alive /\ worker.at = "restored"
  /\ baseline' = [baseline EXCEPT ![worker.target] = None]
  /\ worker' = Idle
  /\ UNCHANGED <<level, held, finalizer, stale, manager, replicas, sweep, failed, overlapped>>

\* The Deployment's controller marks the pod, and stops counting it, before the
\* process has been told to stop; whatever it was doing is cut off.
PodMarked ==
  /\ manager = "running" /\ replicas = 0
  /\ manager' = "terminating"
  /\ UNCHANGED <<targetVars, finalizer, stale, replicas, worker, sweep, failed, overlapped>>

PodGone ==
  /\ manager = "terminating"
  /\ manager' = "gone"
  /\ worker' = Idle
  /\ UNCHANGED <<targetVars, finalizer, stale, replicas, sweep, failed, overlapped>>

-----------------------------------------------------------------------------
\* The sweep.

At(place) == sweep.at = place
Move(place) == sweep' = [sweep EXCEPT !.at = place]

\* helm uninstall creates the Job.
StartSweep ==
  /\ At("none")
  /\ sweep' = [NotStarted EXCEPT !.at = "stopping", !.runs = 1]
  /\ UNCHANGED <<targetVars, managerVars, finalizer, stale, failed, overlapped>>

\* stopManager scales the Deployment to zero; not being able to is logged.
StopManager ==
  /\ At("stopping")
  /\ \/ replicas' = 0 /\ Move("waiting") /\ UNCHANGED failed
     \/ MayFail /\ Failing /\ Move("listing") /\ replicas' \in {replicas, 0}
  /\ UNCHANGED <<targetVars, finalizer, stale, manager, worker, overlapped>>

\* status.replicas reached zero, or the wait ran out; the sweep goes on.
ManagerStopped ==
  /\ At("waiting")
  /\ \/ manager # "running" /\ UNCHANGED failed
     \/ MayFail /\ Failing
  /\ Move("listing")
  /\ UNCHANGED <<targetVars, managerVars, finalizer, stale, overlapped>>

\* Every Automation, and its targets once each; this is the one call whose
\* failure ends the sweep.
List ==
  /\ At("listing")
  /\ \/ /\ sweep' = [sweep EXCEPT
              !.at = "next", !.failures = 0,
              !.todo = UNION {References[a] : a \in Automations}, !.drop = finalizer]
        /\ stale' = {} /\ overlapped' = (overlapped \/ Alive) /\ UNCHANGED failed
     \/ MayFail /\ Failing /\ Move("dead") /\ UNCHANGED <<stale, overlapped>>
  /\ UNCHANGED <<targetVars, managerVars, finalizer>>

Done(t) == [sweep EXCEPT !.at = "next", !.todo = @ \ {t}, !.target = None, !.found = None]
Skipped(t) == [Done(t) EXCEPT !.failures = @ + 1]

\* Wrong: a target that cannot be read is taken for one that is not there.
ReadOrPass(t) ==
  /\ At("next") /\ t \in sweep.todo
  /\ \/ baseline[t] = None /\ sweep' = Done(t) /\ UNCHANGED failed
     \/ /\ baseline[t] # None /\ UNCHANGED failed
        /\ sweep' = [sweep EXCEPT !.at = "restore", !.target = t, !.found = baseline[t]]
     \/ MayFail /\ Failing /\ sweep' = Done(t)
  /\ UNCHANGED <<targetVars, managerVars, finalizer, stale, overlapped>>

\* releaseClaimedTarget: nothing recorded, nothing to hand back.
ReadTarget(t) ==
  /\ At("next") /\ t \in sweep.todo
  /\ \/ baseline[t] = None /\ sweep' = Done(t) /\ UNCHANGED failed
     \/ /\ baseline[t] # None /\ UNCHANGED failed
        /\ sweep' = [sweep EXCEPT !.at = "restore", !.target = t, !.found = baseline[t]]
     \/ MayFail /\ Failing /\ sweep' = Skipped(t)
  /\ UNCHANGED <<targetVars, managerVars, finalizer, stale, overlapped>>

\* Wrong: the annotations come off before the level is back.
RestoreAfterClearing ==
  /\ At("restore")
  /\ \/ /\ baseline' = [baseline EXCEPT ![sweep.target] = None]
        /\ Move("clear") /\ UNCHANGED <<level, held, failed>>
     \/ MayFail /\ Failing /\ sweep' = Skipped(sweep.target) /\ UNCHANGED targetVars
  /\ UNCHANGED <<managerVars, finalizer, stale, overlapped>>

\* releaseTarget: first the level ...
Restore ==
  LET t == sweep.target IN
  /\ At("restore")
  /\ \/ HandBack(t, sweep.found) /\ Move("clear") /\ UNCHANGED failed
     \/ /\ Due(t, sweep.found) # None /\ MayFail /\ Failing
        /\ sweep' = Skipped(t)
        /\ HandBack(t, sweep.found) \/ UNCHANGED <<level, held>>
  /\ UNCHANGED <<baseline, managerVars, finalizer, stale, overlapped>>

\* ... then the annotations, with a patch that takes no lock.
Clear ==
  LET t == sweep.target IN
  /\ At("clear")
  /\ \/ sweep' = Done(t) /\ UNCHANGED failed
     \/ MayFail /\ Failing /\ sweep' = Skipped(t)
  /\ \/ baseline' = [baseline EXCEPT ![t] = None]
     \/ failed' # failed /\ UNCHANGED baseline
  /\ UNCHANGED <<level, held, managerVars, finalizer, stale, overlapped>>

\* The finalizers, from the list taken at the start: one that was written since
\* conflicts and is left.
DropFinalizer(a) ==
  /\ At("next") /\ sweep.todo = {} /\ a \in sweep.drop
  /\ \/ a \notin stale /\ finalizer' = finalizer \ {a} /\ UNCHANGED failed
        /\ sweep' = [sweep EXCEPT !.drop = @ \ {a}]
     \/ /\ a \in stale \/ MayFail
        /\ failed' = IF a \in stale THEN failed ELSE failed + 1
        /\ sweep' = [sweep EXCEPT !.drop = @ \ {a}, !.failures = @ + 1]
        /\ UNCHANGED finalizer
  /\ UNCHANGED <<targetVars, managerVars, stale, overlapped>>

\* Failures are logged and the Job succeeds; the release's own objects go next.
Finish ==
  /\ At("next") /\ sweep.todo = {} /\ sweep.drop = {}
  /\ Move("done")
  /\ replicas' = 0
  /\ UNCHANGED <<targetVars, manager, worker, finalizer, stale, failed, overlapped>>

\* The hook's pod is killed, by its deadline or its node.
Killed ==
  /\ sweep.at \notin {"none", "done", "dead"} /\ MayFail /\ Failing
  /\ Move("dead")
  /\ UNCHANGED <<targetVars, managerVars, finalizer, stale, overlapped>>

\* The Job starts one more pod, which begins from nothing.
SweepAgain ==
  /\ At("dead") /\ sweep.runs < MaxRuns
  /\ sweep' = [NotStarted EXCEPT !.at = "stopping", !.runs = sweep.runs + 1]
  /\ UNCHANGED <<targetVars, managerVars, finalizer, stale, failed, overlapped>>

SweepNext ==
  \/ \E a \in Automations : Register(a) \/ DropFinalizer(a)
  \/ \E a \in Automations, t \in Targets : RecordBaseline(a, t)
  \/ \E t \in Targets : RestoreLevel(t) \/ ReadTarget(t)
  \/ WriteLevel \/ ForgetBaseline \/ PodMarked \/ PodGone
  \/ StartSweep \/ StopManager \/ ManagerStopped \/ List \/ Restore \/ Clear \/ Finish
  \/ Killed \/ SweepAgain

-----------------------------------------------------------------------------
\* A sweep that found the manager gone and met no failure leaves nothing of
\* Reactor behind: no target held, none at a claimed level that somebody wants
\* back, no record, no finalizer that nothing would service (release.go,
\* ReleaseAllClaims) - also when the manager was cut off halfway through a
\* claim, and when an earlier pod of the hook was killed halfway.
SweptClean ==
  At("done") /\ ~overlapped /\ sweep.failures = 0 =>
    /\ held = {} /\ finalizer = {}
    /\ \A t \in Targets :
         /\ baseline[t] = None
         /\ level[t] \in Claims => Wishes(t, Original[t]) = {}

\* Through failed calls, a killed hook and the restart of its Job, a level of
\* Reactor's is never without the record that leads back from it, as long as
\* the manager is gone when the sweep lists (arbitration.go:787-789); and what
\* is recorded is never itself a claim, unless it is of a target whose level
\* nobody wants back and which is left where it was.
SweepKeepsTheRecord ==
  ~overlapped =>
    \A t \in Targets :
      /\ t \in held => baseline[t] # None
      /\ baseline[t] \in Claims => Wishes(t, Original[t]) = {}

=============================================================================
