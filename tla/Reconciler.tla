----------------------------- MODULE Reconciler -----------------------------
(***************************************************************************)
(* One Automation seen from the controller that reconciles it: the object  *)
(* at the API server, the informer's cache that lags behind it, the entry  *)
(* in the work queue, the passes over its targets, the status that commits *)
(* a transition and the edge actions sent for it                           *)
(* (internal/controller/automation_controller.go, unifi_poller.go).        *)
(*                                                                         *)
(* The arbitration of one target is TargetClaims; here a target is held or *)
(* not, and reachable or not.  The work queue gives one key to one worker  *)
(* at a time, so there is at most one pass.                                *)
(***************************************************************************)
EXTENDS Naturals, Sequences, Functions

CONSTANTS
  NTargets,          \* how many targets the Automation's actions name, in order
  Values,            \* values of the state key in spec.when
  Trigger,           \* the one that spec.when asks for
  NoValue,           \* a key that is not reported
  MaxReleaseAttempts,
  MaxActionAttempts,
  Limit,             \* how often each disturbance of the environment may happen
  MaxDisturbances    \* how many may happen in all

Disturbances == {"poll", "drop", "suspend", "delete", "break", "fault", "crash"}

ASSUME ReconcilerAssumption ==
  /\ NTargets \in Nat
  /\ Trigger \in Values
  /\ NoValue \notin Values
  /\ MaxReleaseAttempts \in Nat \ {0}
  /\ MaxActionAttempts \in Nat \ {0}
  /\ Limit \in [Disturbances -> Nat]
  /\ MaxDisturbances \in Nat

VARIABLES
  stored,   \* the Automation at the API server
  feed,     \* the versions of it the informer has not delivered yet
  cache,    \* the version the informer holds
  seen,     \* what the StateStore reports for the key
  held,     \* the targets that are at the level the Automation claims
  broken,   \* the targets that refuse every call
  queued,   \* its entry in the work queue
  pass,     \* the reconcile in flight
  unsent,   \* history: the committed transition nothing was sent for yet
  roused,   \* history: something other than its own status write queued it
  spent     \* how often each disturbance has happened

vars == <<stored, feed, cache, seen, held, broken, queued, pass, unsent, roused, spent>>

Targets == 1..NTargets
Reported == Values \cup {NoValue}

\* The object: what the user asks, the finalizer and the status.  A failure
\* count above the budget is all one to the code.
Object ==
  [exists : BOOLEAN, deleting : BOOLEAN, inForce : BOOLEAN, finalizer : BOOLEAN,
   matching : BOOLEAN,                     \* status.matching
   observed : Reported,                    \* status.observedState of the key
   transition : Reported \X Reported,      \* status.lastTransition, from and to
   attempts : 0..(MaxActionAttempts + 1),  \* status.lastExecution: 0 unless failed
   releases : 0..MaxReleaseAttempts,       \* status.releaseAttempts
   ready : {"none", "reconciled", "unobserved", "unavailable", "failed", "outOfForce"},
   applied : {"none", "inEffect", "failed", "exhausted", "outOfForce", "releaseFailed"}]

NoTransition == <<NoValue, NoValue>>

Created ==
  [exists |-> TRUE, deleting |-> FALSE, inForce |-> TRUE, finalizer |-> FALSE,
   matching |-> FALSE, observed |-> NoValue, transition |-> NoTransition,
   attempts |-> 0, releases |-> 0, ready |-> "none", applied |-> "none"]

Phases == {"idle", "register", "evaluate", "hold", "targets", "failed", "send", "sent"}

\* What a pass carries: its working copy of the object, whether that copy's
\* resourceVersion is still the stored one, its evaluation, the next target.
Pass == [at : Phases, obj : Object, current : BOOLEAN, value : Reported,
         matching : BOOLEAN, next : 1..(NTargets + 1), changed : BOOLEAN]

Idle == [at |-> "idle", obj |-> Created, current |-> FALSE, value |-> NoValue,
         matching |-> FALSE, next |-> 1, changed |-> FALSE]

TypeOK ==
  /\ stored \in Object /\ cache \in Object
  /\ feed \in Seq([obj : Object, by : {"user", "self"}])
  /\ seen \in Reported \cup {"unknown"}
  /\ held \subseteq Targets /\ broken \subseteq Targets
  /\ queued \in {"no", "later", "now"}
  /\ pass \in Pass
  /\ unsent \in {"none", "enter", "exit"}
  /\ roused \in BOOLEAN
  /\ spent \in [Disturbances -> Nat]

Init ==
  /\ stored = Created /\ cache = Created /\ feed = <<>>
  /\ seen = "unknown" /\ held = {} /\ broken = {}
  /\ queued = "now" /\ pass = Idle
  /\ unsent = "none" /\ roused = TRUE
  /\ spent = [d \in Disturbances |-> 0]

At(phase) == pass.at = phase

Go(phase) == pass' = [pass EXCEPT !.at = phase]

-----------------------------------------------------------------------------
(* The work queue: one entry, ready or delayed.  An earlier time wins, and a *)
(* key added while its pass runs is given out when the pass ends.            *)

Enqueue == queued' = "now"

EnqueueLater == queued' = IF queued = "now" THEN "now" ELSE "later"

\* The end of a pass.  Every return asks for the pass to be repeated: after
\* the re-evaluation interval, after a backoff, or rate limited on an error.
EndPass == pass' = Idle /\ EnqueueLater

\* The end of a pass over an object that is gone or has nothing to do.
Dismiss == pass' = Idle /\ UNCHANGED queued

-----------------------------------------------------------------------------
(* Writing the object.  Every write carries the resourceVersion it was read *)
(* at; one that changes nothing makes no new version and no event.          *)

Publish(o, by) == stored' = o /\ feed' = Append(feed, [obj |-> o, by |-> by])

WriteObject(o) == IF o = stored THEN UNCHANGED <<stored, feed>> ELSE Publish(o, "self")

Conflict ==
  /\ ~pass.current
  /\ EndPass
  /\ UNCHANGED <<stored, feed>>

Aside == <<cache, seen, broken, roused, spent>>

-----------------------------------------------------------------------------
(* A pass, in the order of Reconcile. *)

HasTargets == NTargets > 0

\* Wrong: the finalizer is left for the end of the pass.
BeginUnregistered ==
  /\ At("idle") /\ queued = "now" /\ cache.exists /\ ~cache.deleting
  /\ queued' = "no" /\ roused' = FALSE
  /\ pass' = [Idle EXCEPT !.obj = cache, !.current = feed = <<>>, !.at = "evaluate"]
  /\ UNCHANGED <<stored, feed, cache, seen, held, broken, unsent, spent>>

\* A live Automation: the finalizer is made sure of first.
Begin ==
  /\ At("idle") /\ queued = "now" /\ cache.exists /\ ~cache.deleting
  /\ queued' = "no" /\ roused' = FALSE
  /\ pass' = [Idle EXCEPT !.obj = cache, !.current = feed = <<>>,
                !.at = IF HasTargets # cache.finalizer THEN "register" ELSE "evaluate"]
  /\ UNCHANGED <<stored, feed, cache, seen, held, broken, unsent, spent>>

\* An Automation being deleted claims nothing any more.
BeginFinalize ==
  /\ At("idle") /\ queued = "now" /\ cache.exists /\ cache.deleting /\ cache.finalizer
  /\ queued' = "no" /\ roused' = FALSE
  /\ pass' = [Idle EXCEPT !.obj = cache, !.current = feed = <<>>, !.at = "targets"]
  /\ UNCHANGED <<stored, feed, cache, seen, held, broken, unsent, spent>>

\* Gone for good: nothing is asked of the queue again.
Forget ==
  /\ At("idle") /\ queued = "now" /\ ~cache.exists
  /\ queued' = "no" /\ roused' = FALSE
  /\ UNCHANGED <<stored, feed, cache, seen, held, broken, pass, unsent, spent>>

Register ==
  /\ At("register")
  /\ \/ Conflict
     \/ LET o == [pass.obj EXCEPT !.finalizer = HasTargets]
        IN  /\ pass.current
            /\ Publish(o, "self")
            /\ pass' = [pass EXCEPT !.at = "evaluate", !.obj = o]
            /\ UNCHANGED queued
  /\ UNCHANGED <<held, unsent, Aside>>

Readable == seen \in Values

\* An Automation in force that cannot read its state holds what it last knew.
EvaluateBlind ==
  /\ At("evaluate") /\ pass.obj.inForce /\ ~Readable
  /\ pass' = [pass EXCEPT !.at = "hold",
                !.obj.observed = IF seen = "unknown" THEN @ ELSE NoValue,
                !.obj.ready = IF seen = "unknown" THEN "unobserved" ELSE "unavailable"]
  /\ UNCHANGED <<stored, feed, held, queued, unsent, Aside>>

Evaluate ==
  /\ At("evaluate") /\ (Readable \/ ~pass.obj.inForce)
  /\ pass' = [pass EXCEPT !.at = "targets",
                !.value = IF Readable THEN seen ELSE NoValue,
                !.matching = IF Readable THEN seen = Trigger ELSE pass.obj.matching]
  /\ UNCHANGED <<stored, feed, held, queued, unsent, Aside>>

ReportHeldState ==
  /\ At("hold")
  /\ \/ Conflict
     \/ pass.current /\ WriteObject(pass.obj) /\ EndPass
  /\ UNCHANGED <<held, unsent, Aside>>

Claiming == pass.matching /\ pass.obj.inForce /\ ~pass.obj.deleting

\* The targets are reconciled in order ...
ReconcileTarget ==
  /\ At("targets") /\ pass.next <= NTargets
  /\ pass.next \notin broken
  /\ held' = IF Claiming THEN held \cup {pass.next} ELSE held \ {pass.next}
  /\ pass' = [pass EXCEPT !.next = @ + 1, !.changed = @ \/ held' # held]
  /\ UNCHANGED <<stored, feed, queued, unsent, Aside>>

\* ... and the first failure ends the pass.
TargetFails ==
  /\ At("targets") /\ pass.next <= NTargets
  /\ pass.next \in broken
  /\ Go("failed")
  /\ UNCHANGED <<stored, feed, held, queued, unsent, Aside>>

TargetsDone == At("targets") /\ pass.next > NTargets

Flips == pass.matching # pass.obj.matching

ObservedNow(o) == IF pass.value = NoValue THEN o.observed ELSE pass.value

\* The first key whose value differs from the last one observed, or whatever
\* was there before.
TransitionFor(o) ==
  IF o.observed # pass.value THEN <<o.observed, pass.value>> ELSE o.transition

Committed(o) ==
  [o EXCEPT !.matching = pass.matching,
            !.transition = IF Flips THEN TransitionFor(o) ELSE @,
            !.observed = ObservedNow(o),
            !.attempts = IF pass.changed THEN 0 ELSE @,
            !.ready = IF o.inForce THEN "reconciled" ELSE "outOfForce",
            !.applied = IF o.inForce THEN "inEffect" ELSE "outOfForce"]

\* A run that changed something carries the time it did.
WriteCommitted(o) == IF pass.changed THEN Publish(o, "self") ELSE WriteObject(o)

Direction == IF pass.matching THEN "enter" ELSE "exit"

NoteCommit == unsent' = IF Flips /\ pass.obj.inForce THEN Direction ELSE unsent

\* Wrong: a status write that conflicts is taken for granted.
CommitBlindly ==
  /\ TargetsDone /\ ~pass.obj.deleting
  /\ LET o == Committed(pass.obj)
     IN  /\ IF pass.current THEN WriteCommitted(o) /\ NoteCommit
                            ELSE UNCHANGED <<stored, feed, unsent>>
         /\ IF Flips /\ pass.obj.inForce
            THEN pass' = [pass EXCEPT !.at = "send", !.obj = o] /\ UNCHANGED queued
            ELSE EndPass
  /\ UNCHANGED <<held, Aside>>

\* Wrong: nothing asks for the next pass.
CommitForGood ==
  /\ TargetsDone /\ ~pass.obj.deleting
  /\ \/ Conflict /\ UNCHANGED unsent
     \/ LET o == Committed(pass.obj)
        IN  /\ pass.current /\ WriteCommitted(o) /\ NoteCommit
            /\ IF Flips /\ pass.obj.inForce
               THEN pass' = [pass EXCEPT !.at = "send", !.obj = o] /\ UNCHANGED queued
               ELSE Dismiss
  /\ UNCHANGED <<held, Aside>>

\* The status write that commits the transition; only then is anything sent.
Commit ==
  /\ TargetsDone /\ ~pass.obj.deleting
  /\ \/ Conflict /\ UNCHANGED unsent
     \/ LET o == Committed(pass.obj)
        IN  /\ pass.current /\ WriteCommitted(o) /\ NoteCommit
            /\ IF Flips /\ pass.obj.inForce
               THEN pass' = [pass EXCEPT !.at = "send", !.obj = o] /\ UNCHANGED queued
               ELSE EndPass
  /\ UNCHANGED <<held, Aside>>

\* A run that wrote a target before it failed starts the count again.
AttemptsAfter(last) ==
  IF last = 0 \/ pass.changed THEN 1
  ELSE IF last > MaxActionAttempts THEN last ELSE last + 1

Failed(o) ==
  LET attempts == AttemptsAfter(o.attempts)
  IN  [o EXCEPT !.attempts = attempts, !.observed = ObservedNow(o), !.ready = "failed",
                !.applied = IF attempts >= MaxActionAttempts THEN "exhausted" ELSE "failed"]

\* Wrong: the transition is committed with the failure.
RecordFailureAndCommit ==
  /\ At("failed") /\ ~pass.obj.deleting
  /\ \/ Conflict /\ UNCHANGED unsent
     \/ /\ pass.current /\ EndPass /\ NoteCommit
        /\ Publish([Failed(pass.obj) EXCEPT !.matching = pass.matching], "self")
  /\ UNCHANGED <<held, Aside>>

\* The transition stays uncommitted.  A failure carries its time, so this
\* write always makes a new version.
RecordApplyFailure ==
  /\ At("failed") /\ ~pass.obj.deleting
  /\ \/ Conflict
     \/ pass.current /\ Publish(Failed(pass.obj), "self") /\ EndPass
  /\ UNCHANGED <<held, unsent, Aside>>

RunEdgeActions ==
  /\ At("send")
  /\ Go("sent")
  /\ unsent' = "none"
  /\ UNCHANGED <<stored, feed, held, queued, Aside>>

\* What was sent is recorded if it can be; sending it again would be worse.
RecordEdgeActions ==
  /\ At("sent")
  /\ IF pass.current THEN Publish(pass.obj, "self") ELSE UNCHANGED <<stored, feed>>
  /\ EndPass
  /\ UNCHANGED <<held, unsent, Aside>>

\* Wrong: a failed attempt to release is not counted.
RetryReleaseUncounted ==
  /\ At("failed") /\ pass.obj.deleting
  /\ EndPass
  /\ UNCHANGED <<stored, feed, held, unsent, Aside>>

RetryRelease ==
  /\ At("failed") /\ pass.obj.deleting
  /\ pass.obj.releases + 1 < MaxReleaseAttempts
  /\ \/ Conflict
     \/ LET o == [pass.obj EXCEPT !.releases = @ + 1, !.applied = "releaseFailed"]
        IN  pass.current /\ Publish(o, "self") /\ EndPass
  /\ UNCHANGED <<held, unsent, Aside>>

GivesUp == At("failed") /\ pass.obj.deleting /\ pass.obj.releases + 1 >= MaxReleaseAttempts

\* The finalizer comes off, the targets released or the attempts used up.
LetGo ==
  /\ GivesUp \/ (TargetsDone /\ pass.obj.deleting)
  /\ \/ Conflict
     \/ /\ pass.current
        /\ Publish([pass.obj EXCEPT !.exists = FALSE, !.finalizer = FALSE], "self")
        /\ Dismiss
  /\ UNCHANGED <<held, unsent, Aside>>

-----------------------------------------------------------------------------
(* The queue's timers, the informer and the poller. *)

DelayPasses ==
  /\ queued = "later"
  /\ queued' = "now" /\ roused' = TRUE
  /\ UNCHANGED <<stored, feed, cache, seen, held, broken, pass, unsent, spent>>

\* The controller watches Automations without a predicate: every version that
\* arrives queues the object, its own status writes included.
Deliver ==
  /\ feed # <<>>
  /\ cache' = Head(feed).obj
  /\ feed' = Tail(feed)
  /\ Enqueue
  /\ roused' = (roused \/ Head(feed).by = "user")
  /\ UNCHANGED <<stored, seen, held, broken, pass, unsent, spent>>

InBounds == FoldFunction(+, 0, spent) < MaxDisturbances

Disturb(kind) ==
  /\ spent[kind] < Limit[kind]
  /\ InBounds
  /\ spent' = [spent EXCEPT ![kind] = @ + 1]

\* A poll that found a change wakes the Automations ...
Poll ==
  /\ \E v \in Reported \ {seen} : seen' = v
  /\ Disturb("poll")
  /\ Enqueue /\ roused' = TRUE
  /\ UNCHANGED <<stored, feed, cache, held, broken, pass, unsent>>

\* ... unless the wake channel is full.
PollUnheard ==
  /\ \E v \in Reported \ {seen} : seen' = v
  /\ Disturb("drop")
  /\ UNCHANGED <<stored, feed, cache, held, broken, queued, pass, unsent, roused>>

-----------------------------------------------------------------------------
(* The environment. *)

UserWrites(o) ==
  /\ Publish(o, "user")
  /\ pass' = [pass EXCEPT !.current = FALSE]

Suspend ==
  /\ stored.exists /\ ~stored.deleting
  /\ UserWrites([stored EXCEPT !.inForce = ~@])
  /\ Disturb("suspend")
  /\ UNCHANGED <<cache, seen, held, broken, queued, unsent, roused>>

Delete ==
  /\ stored.exists /\ ~stored.deleting
  /\ UserWrites(IF stored.finalizer THEN [stored EXCEPT !.deleting = TRUE]
                                    ELSE [stored EXCEPT !.exists = FALSE])
  /\ Disturb("delete")
  /\ UNCHANGED <<cache, seen, held, broken, queued, unsent, roused>>

\* A target stops answering, or answers again: nothing tells Reactor.
Break ==
  /\ \E t \in Targets : broken' = (broken \cup {t}) \ (broken \cap {t})
  /\ Disturb("break")
  /\ UNCHANGED <<stored, feed, cache, seen, held, queued, pass, unsent, roused>>

\* A call on a target runs into its timeout after it took effect.
TargetTimesOut ==
  /\ At("targets") /\ pass.next <= NTargets
  /\ held' = IF Claiming THEN held \cup {pass.next} ELSE held \ {pass.next}
  /\ Go("failed")
  /\ Disturb("fault")
  /\ UNCHANGED <<stored, feed, cache, seen, broken, queued, unsent, roused>>

\* The answer to the committing write is lost: the pass takes it for a failure.
CommitUnanswered ==
  /\ TargetsDone /\ ~pass.obj.deleting /\ pass.current
  /\ WriteCommitted(Committed(pass.obj)) /\ NoteCommit
  /\ EndPass
  /\ Disturb("fault")
  /\ UNCHANGED <<cache, seen, held, broken, roused>>

\* The operator restarts: the pass, the queue and the store are lost, the
\* informer lists the object again and queues it.
Crash ==
  /\ pass' = Idle /\ feed' = <<>> /\ cache' = stored
  /\ seen' = "unknown" /\ queued' = "now" /\ roused' = TRUE
  /\ Disturb("crash")
  /\ UNCHANGED <<stored, held, broken, unsent>>

PassStep ==
  \/ Register \/ EvaluateBlind \/ Evaluate \/ ReportHeldState
  \/ ReconcileTarget \/ TargetFails \/ Commit \/ RecordApplyFailure
  \/ RunEdgeActions \/ RecordEdgeActions \/ RetryRelease \/ LetGo

Start == Begin \/ BeginFinalize \/ Forget

Environment ==
  \/ Poll \/ PollUnheard \/ Suspend \/ Delete \/ Break
  \/ TargetTimesOut \/ CommitUnanswered \/ Crash

Next == PassStep \/ Start \/ DelayPasses \/ Deliver \/ Environment

Spec == Init /\ [][Next]_vars

\* A pass in flight runs on (its calls are bounded), a ready entry is given
\* out, a delay passes, the informer catches up.  The environment owes nothing.
FairSpec ==
  /\ Spec
  /\ WF_vars(PassStep) /\ WF_vars(Start) /\ WF_vars(DelayPasses) /\ WF_vars(Deliver)

-----------------------------------------------------------------------------
\* Edge actions are sent at most once for a transition committed to status, and
\* in its direction: a cache that lags, a write that conflicts, an answer that
\* is lost or a restart may lose them, never repeat them (runEdgeActions).
SentAtMostOnce == [][RunEdgeActions => unsent = Direction]_vars

\* What an edge action says of the Automation is what its status says.
SaysWhatIsStored ==
  [][RunEdgeActions => pass.matching = stored.matching /\ pass.value = stored.observed]_vars

\* The transition is committed, and reported as in effect, only once every
\* target is where it puts them, whichever of them failed on the way.
CommittedOnceApplied ==
  [][(stored'.matching # stored.matching \/ (stored' # stored /\ stored'.applied = "inEffect"
                                             /\ stored.applied # "inEffect"))
     => held = IF pass.matching /\ stored.inForce THEN Targets ELSE {}]_vars

\* Reactor holds nothing for an Automation without the finalizer that would
\* release it, however far the cache lags, unless it gave up releasing.
HeldUnderFinalizer ==
  held # {} => \/ stored.finalizer
               \/ ~stored.exists /\ stored.releases + 1 >= MaxReleaseAttempts

\* Once the world holds still the Automation ends committed to what its
\* condition says, and its targets with it, also when the wake was lost.
Still ==
  /\ stored.exists /\ ~stored.deleting
  /\ Readable /\ broken = {}
Settled ==
  /\ stored.matching = (seen = Trigger)
  /\ held = IF seen = Trigger /\ stored.inForce THEN Targets ELSE {}
Settles == <>[]Still => <>[]Settled

\* An Automation that is deleted goes, whatever its targets do.
DeletionEnds == stored.deleting ~> ~stored.exists

\* A failing Automation is retried when its delay has passed or something
\* happened to it, not before: backoff, attempts and budget
\* (docs/src/content/docs/concepts/arbitration.md).
RetriesWaitTheirTurn == [][Begin /\ cache.attempts > 0 => roused]_vars

=============================================================================
