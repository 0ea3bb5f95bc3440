---------------------------- MODULE TargetClaims ----------------------------
(***************************************************************************)
(* One shared target and every Automation that references it: the claim,   *)
(* hold and release protocol of internal/controller/arbitration.go, driven *)
(* by the reconciles of automation_controller.go.                          *)
(*                                                                         *)
(* Each Automation has at most one reconcile in flight (the work queue     *)
(* never runs one key twice at once) and at most MaxConcurrentReconciles   *)
(* run in all.  A reconcile ("pass") is cut at every call to the API       *)
(* server, so passes interleave exactly where the program can be           *)
(* preempted between calls.                                                *)
(***************************************************************************)
EXTENDS Arbiter, FiniteSets

CONSTANTS
  Automations,     \* the Automations that reference the target
  Levels,          \* levels the target can hold
  NoLevel,         \* "no level": an absent annotation, no action for the target
  ClaimLevel,      \* what spec.actions asks for, per Automation
  OnExitLevel,     \* what spec.onExit asks for, per Automation
  Reversal,        \* spec.EffectiveReversal(), per Automation
  Kind,            \* "replicas" (replicaHandler) or "switch" (switchHandler)
  DryRun,          \* the whole install reports and writes nothing
  DetectHPA,       \* decline a target an autoscaler drives
  Adopted,         \* the Automations that already carry the finalizer
  MaxConcurrentReconciles,
  MaxReleaseAttempts,
  Limit            \* how often each disturbance of the environment may happen

\* What the environment does: a poll lands, a user edits a spec, deletes an
\* Automation or edits the target, somebody else writes the target object, an
\* autoscaler comes or goes, a call fails, the operator restarts.
Disturbances ==
  {"observe", "respec", "delete", "edit", "touch", "autoscale", "fault", "crash"}

Policies == {"Baseline", "Declared", "None"}

ASSUME ConstantsAssumption ==
  /\ IsFiniteSet(Automations)
  /\ Levels \subseteq Nat
  /\ Levels # {}
  /\ NoLevel \notin Levels
  /\ ClaimLevel \in [Automations -> Levels \cup {NoLevel}]
  /\ OnExitLevel \in [Automations -> Levels \cup {NoLevel}]
  /\ Reversal \in [Automations -> Policies]
  /\ Kind \in {"replicas", "switch"}
  /\ DryRun \in BOOLEAN
  /\ DetectHPA \in BOOLEAN
  /\ Adopted \subseteq Automations
  /\ MaxConcurrentReconciles \in Nat \ {0}
  /\ MaxReleaseAttempts \in Nat \ {0}
  /\ Limit \in [Disturbances -> Nat]

VARIABLES
  target,      \* the live target: its level and Reactor's annotations on it
  mode,        \* each Automation: live, outOfForce, deleting or gone
  finalizer,   \* the Automations carrying the release finalizer
  matching,    \* status.matching of each Automation
  attempts,    \* status.releaseAttempts of each Automation
  verdict,     \* each Automation's condition against the StateStore
  autoscaled,  \* a HorizontalPodAutoscaler drives the target
  pass,        \* the reconcile of each Automation
  fresh,       \* passes whose last-read resourceVersion is still current
  author,      \* history: who last decided the target's level
  original,    \* history: the level before Reactor ever ran
  missedClear, \* history: passes overtaken by a release since they last read
  missedClaim, \* history: passes overtaken by a claim since they last read
  crossed,     \* history: an overtaken pass wrote all the same
  spent        \* how often each disturbance has happened

objects  == <<mode, finalizer, matching, attempts>>
world    == <<verdict, autoscaled, original>>
history  == <<author, missedClear, missedClaim, crossed>>
vars == <<target, objects, world, pass, fresh, history, spent>>

Optional == Levels \cup {NoLevel}

\* An absent claimed-by annotation is the empty set: a claim always names one.
Target == [level : Levels, baseline : Optional, claimedBy : SUBSET Automations]

Phases == {"idle", "begun", "listed", "read", "folded", "record", "patch",
           "reread", "apply", "update", "clear", "done", "failed"}

\* The Automations whose spec.actions name a level for the target.
Askers == {a \in Automations : ClaimLevel[a] # NoLevel}

\* What one reconcile carries between its API calls.
Pass == [at       : Phases,
         mode     : {"live", "outOfForce", "deleting"},
         matching : BOOLEAN,             \* its own condition, as evaluated
         claiming : BOOLEAN,             \* ... and whether that counts
         peers    : SUBSET Automations,  \* the other Automations listed
         inForce  : SUBSET Automations,  \* ... those of them in force
         held     : SUBSET Automations,  \* ... those whose status says matching
         snap     : Target,              \* the target as last read
         claims   : SUBSET Askers,       \* who claims it
         back     : SUBSET Levels,       \* the reversals of those who do not
         op       : {"none", "claim", "release"},
         level    : Optional,            \* the level to apply
         found    : Optional,            \* the level read for the baseline
         retried  : BOOLEAN]             \* the claim conflict was already retried

Blank(snapshot) ==
  [at |-> "idle", mode |-> "live", matching |-> FALSE, claiming |-> FALSE,
   peers |-> {}, inForce |-> {}, held |-> {}, snap |-> snapshot,
   claims |-> {}, back |-> {}, op |-> "none", level |-> NoLevel,
   found |-> NoLevel, retried |-> FALSE]

AnyTarget == [level |-> CHOOSE l \in Levels : TRUE, baseline |-> NoLevel,
              claimedBy |-> {}]

Idle == Blank(AnyTarget)

InFlight == {a \in Automations : pass[a].at # "idle"}

At(a, phase) == pass[a].at = phase

Step(a, p) == pass' = [pass EXCEPT ![a] = p]

Finish(a) == Step(a, Idle)

Recorded(t) == t.baseline # NoLevel

TypeOK ==
  /\ target \in Target
  /\ mode \in [Automations -> {"live", "outOfForce", "deleting", "gone"}]
  /\ finalizer \subseteq Automations
  /\ matching \in [Automations -> BOOLEAN]
  /\ attempts \in [Automations -> 0..MaxReleaseAttempts]
  /\ verdict \in [Automations -> {"holds", "fails", "blind"}]
  /\ autoscaled \in BOOLEAN
  /\ pass \in [Automations -> Pass]
  /\ fresh \subseteq Automations
  /\ author \in {"user", "claim", "release"}
  /\ original \in Levels
  /\ missedClear \subseteq Automations
  /\ missedClaim \subseteq Automations
  /\ crossed \in BOOLEAN
  /\ spent \in [Disturbances -> Nat]

Init ==
  /\ target \in {[level |-> l, baseline |-> NoLevel, claimedBy |-> {}] : l \in Levels}
  /\ mode = [a \in Automations |-> "live"]
  /\ finalizer = Adopted
  /\ matching = [a \in Automations |-> FALSE]
  /\ attempts = [a \in Automations |-> 0]
  /\ verdict = [a \in Automations |-> "blind"]
  /\ autoscaled = FALSE
  /\ pass = [a \in Automations |-> Idle]
  /\ fresh = {}
  /\ author = "user"
  /\ original = target.level
  /\ missedClear = {}
  /\ missedClaim = {}
  /\ crossed = FALSE
  /\ spent = [d \in Disturbances |-> 0]

-----------------------------------------------------------------------------
(* Starting a reconcile. *)

HasWorker(a) ==
  /\ At(a, "idle")
  /\ Cardinality(InFlight) < MaxConcurrentReconciles

\* An Automation in force whose state cannot be read holds what it last knew.
Blinded(a) == mode[a] = "live" /\ verdict[a] = "blind"

\* A dry-run install takes the finalizer off, any other makes sure of it.
KeepFinalizer(a) == finalizer' = IF DryRun THEN finalizer \ {a} ELSE finalizer \cup {a}

Begin(a) ==
  /\ HasWorker(a)
  /\ mode[a] \in {"live", "outOfForce"}
  /\ ~Blinded(a)
  /\ KeepFinalizer(a)
  /\ LET holds == IF verdict[a] = "blind" THEN matching[a] ELSE verdict[a] = "holds"
     IN  Step(a, [Idle EXCEPT !.at = "begun", !.mode = mode[a], !.matching = holds,
                              !.claiming = holds /\ mode[a] = "live"])
  /\ UNCHANGED <<target, mode, matching, attempts, world, fresh, history, spent>>

\* The reconcile of a blinded Automation reports and touches no target.
HoldLastKnown(a) ==
  /\ HasWorker(a)
  /\ Blinded(a)
  /\ KeepFinalizer(a)
  /\ UNCHANGED <<target, mode, matching, attempts, world, pass, fresh, history, spent>>

\* Wrong: an Automation being deleted goes on claiming while its condition holds.
FinalizeStillClaiming(a) ==
  /\ HasWorker(a)
  /\ mode[a] = "deleting"
  /\ a \in finalizer
  /\ Step(a, [Idle EXCEPT !.at = "begun", !.mode = "deleting",
                          !.claiming = verdict[a] = "holds"])
  /\ UNCHANGED <<target, objects, world, fresh, history, spent>>

BeginFinalize(a) ==
  /\ HasWorker(a)
  /\ mode[a] = "deleting"
  /\ a \in finalizer
  /\ Step(a, [Idle EXCEPT !.at = "begun", !.mode = "deleting"])
  /\ UNCHANGED <<target, objects, world, fresh, history, spent>>

-----------------------------------------------------------------------------
(* Reading: the peers, then the target, then the StateStore, then the HPAs. *)

ListPeers(a) ==
  /\ At(a, "begun")
  /\ LET peers   == {p \in Automations \ {a} : mode[p] # "gone"}
         inForce == {p \in peers : mode[p] = "live"}
     IN  Step(a, [pass[a] EXCEPT !.at = "listed", !.peers = peers, !.inForce = inForce,
                                 !.held = {p \in inForce : matching[p]}])
  /\ UNCHANGED <<target, objects, world, fresh, history, spent>>

\* Reading the target makes the pass current again: nothing has overtaken it.
ReadTarget(a, p) ==
  /\ Step(a, [p EXCEPT !.snap = target])
  /\ fresh' = fresh \cup {a}
  /\ missedClear' = missedClear \ {a}
  /\ missedClaim' = missedClaim \ {a}
  /\ UNCHANGED <<target, objects, world, author, crossed, spent>>

GetTarget(a) ==
  /\ At(a, "listed")
  /\ ReadTarget(a, [pass[a] EXCEPT !.at = "read"])

\* Wrong: each Automation looks only at its own condition.
CountsAlone(a, p) == p = a /\ pass[a].claiming

\* Whether p's condition counts in a's fold: its own as evaluated when the
\* reconcile began, a peer's from the store now or, unreadable, from status.
Counts(a, p) ==
  IF p = a THEN pass[a].claiming
  ELSE /\ p \in pass[a].inForce
       /\ IF verdict[p] = "blind" THEN p \in pass[a].held ELSE verdict[p] = "holds"

\* Wrong: a target whose baseline is on record is handed to the declared level.
ReversalDeclared(p, baseline) ==
  IF Reversal[p] = "None" \/ baseline = NoLevel THEN NoLevel ELSE OnExitLevel[p]

\* What an Automation hands a target back to.
ReversalLevel(p, baseline) ==
  CASE Reversal[p] = "None"     -> NoLevel
    [] Reversal[p] = "Baseline" -> baseline
    [] Reversal[p] = "Declared" -> OnExitLevel[p]

\* Wrong: an Automation that reverses to nothing takes part in the release.
FoldKeepsNothing(a) ==
  /\ At(a, "read")
  /\ LET all   == pass[a].peers \cup {a}
         count == {p \in all : Counts(a, p)}
     IN  Step(a, [pass[a] EXCEPT !.at = "folded",
                    !.claims = count \cap Askers,
                    !.back = {ReversalLevel(p, pass[a].snap.baseline) : p \in all \ count},
                    !.peers = {}, !.inForce = {}, !.held = {}])
  /\ UNCHANGED <<target, objects, world, fresh, history, spent>>

Fold(a) ==
  /\ At(a, "read")
  /\ LET all   == pass[a].peers \cup {a}
         count == {p \in all : Counts(a, p)}
         back  == {ReversalLevel(p, pass[a].snap.baseline) : p \in all \ count}
     IN  Step(a, [pass[a] EXCEPT !.at = "folded",
                    !.claims = count \cap Askers,
                    !.back = back \ {NoLevel},
                    !.peers = {}, !.inForce = {}, !.held = {}])
  /\ UNCHANGED <<target, objects, world, fresh, history, spent>>

-----------------------------------------------------------------------------
(* Deciding. *)

ForeignManager == DetectHPA /\ Kind = "replicas" /\ autoscaled

\* Wrong: the annotations come off before the level is restored.
StripOnly(a, level) ==
  Step(a, [pass[a] EXCEPT !.at = "clear", !.op = "release", !.level = level,
                          !.claims = {}, !.back = {}])

\* Start handing the target back, to a level or to nothing at all.
HandBack(a, level) ==
  Step(a, [pass[a] EXCEPT !.at = IF level = NoLevel THEN "clear" ELSE "apply",
                          !.op = "release", !.level = level, !.claims = {}, !.back = {}])

\* A target somebody else drives is handed back to where it was found.
Decline(a) ==
  /\ At(a, "folded")
  /\ ForeignManager
  /\ Recorded(pass[a].snap)
  /\ ~DryRun
  /\ HandBack(a, pass[a].snap.baseline)
  /\ UNCHANGED <<target, objects, world, fresh, history, spent>>

Claim(a) ==
  /\ At(a, "folded")
  /\ ~ForeignManager
  /\ pass[a].claims # {}
  /\ ~DryRun
  /\ LET intents == {Intent(p, ClaimLevel[p]) : p \in pass[a].claims}
     IN  Step(a, [pass[a] EXCEPT !.at = "record", !.op = "claim",
                                 !.level = Resolve(intents).level, !.back = {}])
  /\ UNCHANGED <<target, objects, world, fresh, history, spent>>

Release(a) ==
  /\ At(a, "folded")
  /\ ~ForeignManager
  /\ pass[a].claims = {}
  /\ Recorded(pass[a].snap)
  /\ ~DryRun
  /\ HandBack(a, IF pass[a].back = {} THEN NoLevel ELSE Meet(pass[a].back))
  /\ UNCHANGED <<target, objects, world, fresh, history, spent>>

\* Never claimed and claimed by nobody, or driven by somebody else, or a dry
\* run: nothing is written.
LeaveAlone(a) ==
  /\ At(a, "folded")
  /\ \/ DryRun
     \/ /\ ~Recorded(pass[a].snap)
        /\ ForeignManager \/ pass[a].claims = {}
  /\ Step(a, [pass[a] EXCEPT !.at = "done", !.claims = {}, !.back = {}])
  /\ UNCHANGED <<target, objects, world, fresh, history, spent>>

-----------------------------------------------------------------------------
(* Writing.  Every write that changes the object moves its                 *)
(* resourceVersion, and the answer to a write carries the new one.         *)

WriteTarget(a, t) ==
  /\ target' = t
  /\ fresh' = {a} \cup (IF t = target THEN fresh ELSE {})

Overtakes(a) == InFlight \ {a}

\* First claim: the level to record is read live for a replica count and from
\* the snapshot for a switch.
ReadLevel(a) ==
  /\ At(a, "record")
  /\ ~Recorded(pass[a].snap)
  /\ Step(a, [pass[a] EXCEPT !.at = "patch",
                !.found = IF Kind = "replicas" THEN target.level ELSE pass[a].snap.level])
  /\ UNCHANGED <<target, objects, world, fresh, history, spent>>

\* Wrong: the recording patch goes out without the optimistic lock.
RecordUnlocked(a) ==
  /\ At(a, "patch")
  /\ LET t == [target EXCEPT !.baseline = pass[a].found, !.claimedBy = pass[a].claims]
     IN  /\ WriteTarget(a, t)
         /\ Step(a, [pass[a] EXCEPT !.at = "apply", !.snap = t, !.found = NoLevel])
  /\ UNCHANGED <<objects, world, history, spent>>

\* The recording patch carries the snapshot's resourceVersion.
RecordBaseline(a) ==
  /\ At(a, "patch")
  /\ a \in fresh
  /\ LET t == [target EXCEPT !.baseline = pass[a].found, !.claimedBy = pass[a].claims]
     IN  /\ WriteTarget(a, t)
         /\ Step(a, [pass[a] EXCEPT !.at = "apply", !.snap = t, !.found = NoLevel])
  /\ UNCHANGED <<objects, world, history, spent>>

RecordConflict(a) ==
  /\ At(a, "patch")
  /\ a \notin fresh
  /\ Step(a, [pass[a] EXCEPT !.at = IF pass[a].retried THEN "failed" ELSE "reread",
                             !.found = NoLevel])
  /\ UNCHANGED <<target, objects, world, fresh, history, spent>>

RereadTarget(a) ==
  /\ At(a, "reread")
  /\ ReadTarget(a, [pass[a] EXCEPT !.at = "record", !.retried = TRUE])

\* Wrong: a refresh records the level again, as a first claim does.
RefreshAndRecord(a) ==
  /\ At(a, "record")
  /\ Recorded(pass[a].snap)
  /\ LET t == [target EXCEPT !.baseline = target.level, !.claimedBy = pass[a].claims]
     IN  /\ WriteTarget(a, t)
         /\ Step(a, [pass[a] EXCEPT !.at = "apply", !.snap = t])
  /\ UNCHANGED <<objects, world, history, spent>>

\* The snapshot says claimed: only claimed-by is refreshed, and without a lock.
RefreshClaimants(a) ==
  /\ At(a, "record")
  /\ Recorded(pass[a].snap)
  /\ IF pass[a].snap.claimedBy = pass[a].claims
     THEN /\ Step(a, [pass[a] EXCEPT !.at = "apply"])
          /\ UNCHANGED <<target, fresh>>
     ELSE LET t == [target EXCEPT !.claimedBy = pass[a].claims]
          IN  /\ WriteTarget(a, t)
              /\ Step(a, [pass[a] EXCEPT !.at = "apply", !.snap = t])
  /\ UNCHANGED <<objects, world, history, spent>>

AfterApply(p) == IF p.op = "claim" THEN "done" ELSE "clear"

OwnerAfter(p) == IF p.op = "claim" THEN "claim" ELSE "release"

\* The level is where the pass wants it: who does it now belong to?
\* A release owns it either way, a claim only if it had to write it.
Asserted(a, wrote) ==
  /\ author' = IF wrote \/ (pass[a].op = "release" /\ target'.level = pass[a].level)
               THEN OwnerAfter(pass[a]) ELSE author
  /\ missedClaim' = IF wrote /\ pass[a].op = "claim"
                    THEN missedClaim \cup Overtakes(a) ELSE missedClaim
  /\ crossed' = (crossed \/ (wrote /\ pass[a].op = "claim" /\ a \in missedClear))
  /\ UNCHANGED missedClear

\* The replica handler reads /scale live and writes only a different count.
ReadScale(a) ==
  /\ At(a, "apply")
  /\ Kind = "replicas"
  /\ IF target.level = pass[a].level
     THEN /\ Step(a, [pass[a] EXCEPT !.at = AfterApply(pass[a])])
          /\ UNCHANGED <<target, fresh>>
          /\ Asserted(a, FALSE)
     ELSE /\ Step(a, [pass[a] EXCEPT !.at = "update"])
          /\ fresh' = fresh \cup {a}
          /\ UNCHANGED <<target, history>>
  /\ UNCHANGED <<objects, world, spent>>

\* The scale carries the resourceVersion it was read at.
UpdateScale(a) ==
  /\ At(a, "update")
  /\ a \in fresh
  /\ WriteTarget(a, [target EXCEPT !.level = pass[a].level])
  /\ Step(a, [pass[a] EXCEPT !.at = AfterApply(pass[a])])
  /\ Asserted(a, TRUE)
  /\ UNCHANGED <<objects, world, spent>>

ScaleConflict(a) ==
  /\ At(a, "update")
  /\ a \notin fresh
  /\ Step(a, [pass[a] EXCEPT !.at = "failed"])
  /\ UNCHANGED <<target, objects, world, fresh, history, spent>>

\* The switch handler compares with its snapshot and patches without a lock.
ApplySwitch(a) ==
  /\ At(a, "apply")
  /\ Kind = "switch"
  /\ IF pass[a].snap.level = pass[a].level
     THEN /\ Step(a, [pass[a] EXCEPT !.at = AfterApply(pass[a])])
          /\ UNCHANGED <<target, fresh>>
          /\ Asserted(a, FALSE)
     ELSE LET t == [target EXCEPT !.level = pass[a].level]
          IN  /\ WriteTarget(a, t)
              /\ Step(a, [pass[a] EXCEPT !.at = AfterApply(pass[a]), !.snap = t])
              /\ Asserted(a, t # target)
  /\ UNCHANGED <<objects, world, spent>>

\* Every annotation the snapshot carries comes off, without a lock.
ClearAnnotations(a) ==
  /\ At(a, "clear")
  /\ LET snap == pass[a].snap
         t == [target EXCEPT !.baseline = IF Recorded(snap) THEN NoLevel ELSE @,
                             !.claimedBy = IF snap.claimedBy # {} THEN {} ELSE @]
     IN  /\ WriteTarget(a, t)
         /\ missedClear' = IF t.baseline # target.baseline
                           THEN missedClear \cup Overtakes(a) ELSE missedClear
  /\ Step(a, [pass[a] EXCEPT !.at = "done"])
  /\ author' = IF pass[a].level = NoLevel THEN "release" ELSE author
  /\ crossed' = (crossed \/ a \in missedClaim)
  /\ UNCHANGED <<objects, world, missedClaim, spent>>

-----------------------------------------------------------------------------
(* Ending a reconcile. *)

Disturb(kind) ==
  /\ spent[kind] < Limit[kind]
  /\ spent' = [spent EXCEPT ![kind] = @ + 1]

End(a) ==
  /\ Finish(a)
  /\ fresh' = fresh \ {a}
  /\ missedClear' = missedClear \ {a}
  /\ missedClaim' = missedClaim \ {a}
  /\ UNCHANGED <<target, world, author, crossed>>

\* The transition is committed to status; a spec edited since the object was
\* read makes the write conflict and leaves it uncommitted.
Commit(a) ==
  /\ At(a, "done")
  /\ pass[a].mode # "deleting"
  /\ matching' = IF mode[a] = pass[a].mode
                 THEN [matching EXCEPT ![a] = pass[a].matching] ELSE matching
  /\ End(a)
  /\ UNCHANGED <<mode, finalizer, attempts, spent>>

LetGo(a) ==
  /\ mode' = [mode EXCEPT ![a] = "gone"]
  /\ finalizer' = finalizer \ {a}

Finalized(a) ==
  /\ At(a, "done")
  /\ pass[a].mode = "deleting"
  /\ LetGo(a)
  /\ End(a)
  /\ UNCHANGED <<matching, attempts, spent>>

\* The failure is reported and the reconcile retried later; a deletion counts
\* its attempts.
ReportFailure(a) ==
  /\ At(a, "failed")
  /\ IF pass[a].mode = "deleting"
     THEN /\ attempts[a] + 1 < MaxReleaseAttempts
          /\ attempts' = [attempts EXCEPT ![a] = @ + 1]
     ELSE UNCHANGED attempts
  /\ End(a)
  /\ UNCHANGED <<mode, finalizer, matching, spent>>

\* Out of attempts: the object goes anyway and the target stays as it is.
GiveUp(a) ==
  /\ At(a, "failed")
  /\ pass[a].mode = "deleting"
  /\ attempts[a] + 1 >= MaxReleaseAttempts
  /\ attempts' = [attempts EXCEPT ![a] = MaxReleaseAttempts]
  /\ LetGo(a)
  /\ End(a)
  /\ UNCHANGED <<matching, spent>>

\* The call that would have reported the outcome fails: nothing is committed
\* and the reconcile starts over.
DropReport(a) ==
  /\ pass[a].at \in {"done", "failed"}
  /\ Disturb("fault")
  /\ End(a)
  /\ UNCHANGED objects

\* A call fails, or runs into the action's timeout after it took effect.
Fail(a) ==
  /\ pass[a].at \in Phases \ {"idle", "failed"}
  /\ Disturb("fault")
  /\ Step(a, [pass[a] EXCEPT !.at = "failed"])
  /\ UNCHANGED <<target, objects, world, fresh, history>>

-----------------------------------------------------------------------------
(* The environment. *)

\* A poll lands: every Automation's condition is re-read under one lock.
Observe ==
  /\ \E seen \in [Automations -> {"holds", "fails", "blind"}] : verdict' = seen
  /\ Disturb("observe")
  /\ UNCHANGED <<target, objects, autoscaled, original, pass, fresh, history>>

\* spec.suspend or spec.dryRun is set or cleared.
Respec(a) ==
  /\ mode[a] \in {"live", "outOfForce"}
  /\ mode' = [mode EXCEPT ![a] = IF @ = "live" THEN "outOfForce" ELSE "live"]
  /\ Disturb("respec")
  /\ UNCHANGED <<target, finalizer, matching, attempts, world, pass, fresh, history>>

\* Without the finalizer the object goes at once.
Delete(a) ==
  /\ mode[a] \in {"live", "outOfForce"}
  /\ mode' = [mode EXCEPT ![a] = IF a \in finalizer THEN "deleting" ELSE "gone"]
  /\ Disturb("delete")
  /\ UNCHANGED <<target, finalizer, matching, attempts, world, pass, fresh, history>>

\* The owner of the workload changes its level by hand.
Edit ==
  /\ \E l \in Levels \ {target.level} : target' = [target EXCEPT !.level = l]
  /\ author' = "user"
  /\ fresh' = {}
  /\ Disturb("edit")
  /\ UNCHANGED <<objects, world, pass, missedClear, missedClaim, crossed>>

\* Somebody writes another part of the object, its status for instance.
Touch ==
  /\ fresh' = {}
  /\ Disturb("touch")
  /\ UNCHANGED <<target, objects, world, pass, history>>

Autoscale ==
  /\ autoscaled' = ~autoscaled
  /\ Disturb("autoscale")
  /\ UNCHANGED <<target, objects, verdict, original, pass, fresh, history>>

\* The operator restarts: the store and every reconcile are lost, what was
\* written to the API server is not.
Crash ==
  /\ pass' = [a \in Automations |-> Idle]
  /\ verdict' = [a \in Automations |-> "blind"]
  /\ fresh' = {}
  /\ missedClear' = {}
  /\ missedClaim' = {}
  /\ Disturb("crash")
  /\ UNCHANGED <<target, objects, autoscaled, original, author, crossed>>

Proceed(a) ==
  \/ ListPeers(a) \/ GetTarget(a) \/ Fold(a)
  \/ Decline(a) \/ Claim(a) \/ Release(a) \/ LeaveAlone(a)
  \/ ReadLevel(a) \/ RecordBaseline(a) \/ RecordConflict(a) \/ RereadTarget(a)
  \/ RefreshClaimants(a)
  \/ ReadScale(a) \/ UpdateScale(a) \/ ScaleConflict(a) \/ ApplySwitch(a)
  \/ ClearAnnotations(a)
  \/ Commit(a) \/ Finalized(a) \/ ReportFailure(a) \/ GiveUp(a)

Environment ==
  \/ Observe \/ Edit \/ Touch \/ Autoscale \/ Crash
  \/ \E a \in Automations : Respec(a) \/ Delete(a) \/ Fail(a) \/ DropReport(a)

Next ==
  \/ \E a \in Automations : Begin(a) \/ HoldLastKnown(a) \/ BeginFinalize(a) \/ Proceed(a)
  \/ Environment

Spec == Init /\ [][Next]_vars

\* A started reconcile runs to its end (every call is bounded by a timeout) and
\* the work queue is first in, first out, with a periodic requeue of every
\* Automation: none is passed over for ever.  The environment owes nothing.
Fairness ==
  \A a \in Automations : WF_vars(Proceed(a)) /\ SF_vars(Begin(a) \/ BeginFinalize(a))

FairSpec == Spec /\ Fairness

-----------------------------------------------------------------------------
\* A level Reactor itself set is on the target only while the target's own
\* level is on record, whatever restarts or failed calls came between: the
\* baseline is durable before the value it describes is overwritten
\* (claimTarget) and comes off only once that value is restored
\* (releaseTarget).
HeldIsRecorded == author = "claim" => Recorded(target)

\* The same, unless a reconcile went on writing after an opposite one had
\* overtaken it.
HeldIsRecordedUnlessCrossed == ~crossed => HeldIsRecorded

\* With one worker no reconcile ever overtakes another.
OneWorkerNeverCrosses == MaxConcurrentReconciles = 1 => ~crossed

\* A baseline on record is never rewritten in place, whoever races to claim
\* (recordClaim: "Recorded once").
RecordedOnce ==
  [][Recorded(target) /\ Recorded(target)' => target'.baseline = target.baseline]_vars

\* What is recorded is the level the target has at that moment, although it
\* was read in an earlier call: the optimistic lock of recordClaim.
RecordsTheLevelFound ==
  [][~Recorded(target) /\ Recorded(target)' => target'.baseline = target.level]_vars

\* Over Automations that all reverse to the baseline, with nobody else changing
\* the level, a target off the record is exactly where Reactor first found it.
RoundTrip ==
  (/\ spent["edit"] = 0
   /\ \A a \in Automations : Reversal[a] = "Baseline"
   /\ ~crossed
   /\ ~Recorded(target))
  => target.level = original

GaveUp == \E a \in Automations : attempts[a] = MaxReleaseAttempts

\* Once every Automation is gone, and none of them gave up, nothing of Reactor's
\* is left on the target: finalize released it on the way.
NothingLeftHeld ==
  (~GaveUp /\ \A a \in Automations : mode[a] = "gone")
  => author # "claim" /\ ~Recorded(target)

\* A dry-run install writes nothing, the handing back of a target included.
DryRunWritesNothing ==
  [][DryRun => target'.baseline = target.baseline /\ (author' # author => author' = "user")]_vars

\* The level the conditions that hold now ask for.
Wanted ==
  Meet({ClaimLevel[a] : a \in {b \in Askers : mode[b] = "live" /\ verdict[b] = "holds"}})

AnyClaim == \E a \in Askers : mode[a] = "live" /\ verdict[a] = "holds"

Settled ==
  IF AnyClaim /\ ~ForeignManager
  THEN Recorded(target) /\ target.level = Wanted
  ELSE ~Recorded(target)

SomebodyIsLeft ==
  \E a \in Automations : mode[a] \in {"live", "outOfForce"}

\* Once the world holds still and every condition can be read, the target ends
\* at the meet of the conditions that hold, or off the record, and stays there,
\* whatever order the reconciles ran in and whatever failed before.
Converges ==
  <>[](SomebodyIsLeft /\ \A a \in Automations : verdict[a] # "blind") => <>[]Settled

Contract ==
  INSTANCE TargetContract WITH
    level       <- target.level,
    baseline    <- target.baseline,
    ClaimLevels <- {ClaimLevel[p] : p \in Askers},
    ExitLevels  <- {OnExitLevel[p] : p \in Automations} \ {NoLevel}

\* With one worker, every step of every reconcile, failed, retried or cut short
\* by a restart, is to the owner of the target a step of the contract or none.
ImplementsContract == Contract!Spec

-----------------------------------------------------------------------------
(* What a reconcile in flight may rely on: the strengthening that makes the *)
(* properties of the record inductive.                                      *)

\* A pass about to write knows what to write, and records only over nothing.
Armed(a) ==
  LET p == pass[a]
  IN  /\ p.at \in {"record", "patch", "reread"} => p.op = "claim"
      /\ p.at \in {"record", "patch", "reread", "apply", "update"} => p.level \in Levels
      /\ p.at \in {"apply", "update"} => p.op # "none"
      /\ p.at = "patch" => p.found \in Levels /\ ~Recorded(p.snap)

\* A snapshot whose resourceVersion is current is the target as it is.
Current(a) ==
  LET p == pass[a]
  IN  /\ a \in fresh /\ p.at \in {"read", "folded", "record", "patch"} => p.snap = target
      /\ a \in fresh /\ p.at = "patch" => p.found = target.level

\* Unless a release came between, what the pass saw recorded still is, and
\* what it is about to claim is.
Backed(a) ==
  LET p == pass[a]
  IN  a \notin missedClear =>
        /\ p.at \notin {"idle", "done", "failed"} /\ Recorded(p.snap) => Recorded(target)
        /\ p.at \in {"apply", "update"} /\ p.op = "claim" => Recorded(target)

\* Unless a claim came between, a release that applied its level owns the
\* target, and a switch it saw claimed is at the level it saw.
Owned(a) ==
  LET p == pass[a]
  IN  a \notin missedClaim /\ author = "claim" =>
        /\ p.at = "clear" => p.level = NoLevel
        /\ /\ Kind = "switch"
           /\ p.at \in {"read", "folded", "record", "patch", "reread", "apply"}
           => p.snap.level = target.level

\* At most one pass is in flight and nothing was ever overtaken.
Alone ==
  /\ \A a, b \in InFlight : a = b
  /\ missedClear = {} /\ missedClaim = {} /\ ~crossed

Sound(a) == Armed(a) /\ Current(a) /\ Backed(a) /\ Owned(a)

IInv == HeldIsRecordedUnlessCrossed /\ \A a \in Automations : Sound(a)

=============================================================================
