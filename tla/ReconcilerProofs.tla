--------------------------- MODULE ReconcilerProofs ---------------------------
(***************************************************************************)
(* Theorems about Reconciler, for any number of targets, any values of the *)
(* key, any budgets and any disturbances: what is sent was committed, what *)
(* is committed was applied, and what is held is under a finalizer.        *)
(***************************************************************************)
EXTENDS Reconciler, SequenceTheorems, TLAPS

Live(o) == o.exists /\ ~o.deleting

\* The informer delivers the versions in order and ends at the stored one; a
\* deletion is never taken back, and where the finalizer was once seen on a
\* live version it is still there.
Informed ==
  /\ stored.finalizer => HasTargets
  /\ cache.deleting => stored.deleting
  /\ Live(cache) /\ cache.finalizer => stored.finalizer
  /\ feed = <<>> => cache = stored
  /\ feed # <<>> => feed[Len(feed)].obj = stored
  /\ \A i \in 1..Len(feed) :
       LET o == feed[i].obj
       IN  /\ cache.deleting => o.deleting
           /\ o.deleting => stored.deleting
           /\ Live(o) /\ o.finalizer => stored.finalizer
           /\ \A j \in i..Len(feed) : o.deleting => feed[j].obj.deleting

Acting == Phases \ {"idle", "register"}

\* What a pass in flight may rely on: its copy is the stored object as long as
\* it is current, it acts under a finalizer that is still there, the targets
\* behind it are where it put them, and what it is about to say is committed.
Grounded ==
  LET o == pass.obj
  IN  /\ o.exists
      /\ pass.current => o = [stored EXCEPT !.observed = o.observed, !.ready = o.ready]
      /\ pass.current /\ pass.at # "hold" => o = stored
      /\ pass.at \in Acting /\ HasTargets => o.finalizer
      /\ o.deleting => cache.deleting /\ pass.at \in {"targets", "failed"}
      /\ ~o.deleting /\ o.finalizer => stored.finalizer
      /\ pass.at \in {"register", "evaluate"} => pass.next = 1
      /\ pass.at = "targets" => \A t \in 1..(pass.next - 1) : t \in held <=> Claiming
      /\ pass.at = "targets" /\ Flips /\ ~o.deleting => pass.value # NoValue
      /\ pass.at = "send" => /\ unsent = Direction
                             /\ stored.matching = pass.matching
                             /\ stored.observed = pass.value

IInv == HeldUnderFinalizer /\ Informed /\ (pass.at # "idle" => Grounded)

-----------------------------------------------------------------------------
(* Types. *)

Version == [obj : Object, by : {"user", "self"}]

\* A new Automation is a well-formed object.
LEMMA CreatedIsAnObject == Created \in Object
BY ReconcilerAssumption DEF Created, Object, Reported, NoTransition

\* A pass that has not begun is well formed.
LEMMA IdleIsAPass == Idle \in Pass
BY CreatedIsAnObject, ReconcilerAssumption DEF Idle, Pass, Phases, Reported

\* A write keeps the object and the feed typed.
LEMMA PublishType ==
  ASSUME TypeOK, NEW o \in Object, NEW by \in {"user", "self"}, Publish(o, by)
  PROVE  stored' \in Object /\ feed' \in Seq([obj : Object, by : {"user", "self"}])
BY DEF TypeOK, Publish

\* The shapes of update a step makes of an object keep it an object.
LEMMA CommittedShape ==
  ASSUME NEW o \in Object, NEW m \in BOOLEAN, NEW t \in Reported \X Reported,
         NEW v \in Reported, NEW n \in 0..(MaxActionAttempts + 1),
         NEW r \in {"reconciled", "outOfForce"}, NEW p \in {"inEffect", "outOfForce"}
  PROVE  [o EXCEPT !.matching = m, !.transition = t, !.observed = v, !.attempts = n,
                   !.ready = r, !.applied = p] \in Object
BY DEF Object

\* What holding the last known state leaves of an object.
LEMMA HeldStateShape ==
  ASSUME NEW o \in Object, NEW v \in Reported, NEW r \in {"unobserved", "unavailable"}
  PROVE  [o EXCEPT !.observed = v, !.ready = r] \in Object
BY DEF Object

\* What registering the finalizer makes of an object.
LEMMA RegisteredShape ==
  ASSUME NEW o \in Object, NEW f \in BOOLEAN
  PROVE  [o EXCEPT !.finalizer = f] \in Object
BY DEF Object

\* What suspending or resuming makes of an object.
LEMMA SuspendedShape ==
  ASSUME NEW o \in Object, NEW f \in BOOLEAN
  PROVE  [o EXCEPT !.inForce = f] \in Object
BY DEF Object

\* What a failed release makes of an object.
LEMMA UnreleasedShape ==
  ASSUME NEW o \in Object, NEW n \in 0..MaxReleaseAttempts
  PROVE  [o EXCEPT !.releases = n, !.applied = "releaseFailed"] \in Object
BY DEF Object

\* Counting a disturbance keeps the counters typed.
LEMMA DisturbType ==
  ASSUME TypeOK, NEW kind \in Disturbances, Disturb(kind)
  PROVE  spent' \in [Disturbances -> Nat]
BY DEF TypeOK, Disturb

\* What a committing pass makes of the object is an object.
LEMMA CommittedType == TypeOK => Committed(pass.obj) \in Object
<1>. SUFFICES ASSUME TypeOK PROVE Committed(pass.obj) \in Object
  OBVIOUS
<1>1. pass.obj \in Object /\ pass.value \in Reported /\ pass.matching \in BOOLEAN
      /\ pass.changed \in BOOLEAN
  BY DEF TypeOK, Pass
<1>2. ObservedNow(pass.obj) \in Reported
  BY <1>1 DEF ObservedNow, Object
<1>3. TransitionFor(pass.obj) \in Reported \X Reported
  BY <1>1 DEF TransitionFor, Object
<1>. DEFINE t == IF Flips THEN TransitionFor(pass.obj) ELSE pass.obj.transition
            n == IF pass.changed THEN 0 ELSE pass.obj.attempts
            r == IF pass.obj.inForce THEN "reconciled" ELSE "outOfForce"
            p == IF pass.obj.inForce THEN "inEffect" ELSE "outOfForce"
<1>4. /\ t \in Reported \X Reported /\ n \in 0..(MaxActionAttempts + 1)
      /\ r \in {"reconciled", "outOfForce"} /\ p \in {"inEffect", "outOfForce"}
  BY <1>1, <1>3, ReconcilerAssumption DEF Object
<1>5. Committed(pass.obj) =
        [pass.obj EXCEPT !.matching = pass.matching, !.transition = t,
                         !.observed = ObservedNow(pass.obj), !.attempts = n,
                         !.ready = r, !.applied = p]
  BY <1>1 DEF Committed, Object
<1>. HIDE DEF t, n, r, p
<1>6. PICK v \in Reported, m \in BOOLEAN : v = ObservedNow(pass.obj) /\ m = pass.matching
  BY <1>1, <1>2
<1>7. [pass.obj EXCEPT !.matching = m, !.transition = t, !.observed = v, !.attempts = n,
                       !.ready = r, !.applied = p] \in Object
  BY <1>1, <1>4 DEF Object
<1>. QED  BY <1>5, <1>6, <1>7

\* What a failed pass makes of the object is an object.
LEMMA FailedType == TypeOK => Failed(pass.obj) \in Object
<1>. SUFFICES ASSUME TypeOK PROVE Failed(pass.obj) \in Object
  OBVIOUS
<1>1. pass.obj \in Object /\ pass.value \in Reported
  BY DEF TypeOK, Pass
<1>2. ObservedNow(pass.obj) \in Reported
  BY <1>1 DEF ObservedNow, Object
<1>3. AttemptsAfter(pass.obj.attempts) \in 0..(MaxActionAttempts + 1)
  BY <1>1, ReconcilerAssumption DEF AttemptsAfter, Object
<1>. QED  BY <1>1, <1>2, <1>3 DEF Failed, Object

\* The initial states are well typed.
LEMMA TypeInit == Init => TypeOK
BY CreatedIsAnObject, IdleIsAPass DEF Init, TypeOK, Reported, Targets

\* Every step preserves the types.
LEMMA TypeStep == TypeOK /\ [Next]_vars => TypeOK'
<1>. SUFFICES ASSUME TypeOK, [Next]_vars PROVE TypeOK'
  OBVIOUS
<1>0. /\ stored \in Object /\ cache \in Object /\ pass \in Pass /\ pass.obj \in Object
      /\ feed \in Seq([obj : Object, by : {"user", "self"}])
      /\ held \subseteq Targets /\ queued \in {"no", "later", "now"}
      /\ pass.value \in Reported /\ pass.matching \in BOOLEAN /\ pass.changed \in BOOLEAN
      /\ unsent \in {"none", "enter", "exit"}
  BY DEF TypeOK, Pass
<1>1. Idle \in Pass
  BY IdleIsAPass
<1>2. ASSUME EndPass PROVE pass' \in Pass /\ queued' \in {"no", "later", "now"}
  BY <1>0, <1>1, <1>2 DEF EndPass, EnqueueLater
<1>3. ASSUME Conflict PROVE /\ pass' \in Pass /\ queued' \in {"no", "later", "now"}
                            /\ UNCHANGED <<stored, feed>>
  BY <1>2, <1>3 DEF Conflict
<1>4. CASE Begin \/ BeginFinalize \/ Forget
  <2>1. pass' \in Pass
    BY <1>0, <1>1, <1>4 DEF Begin, BeginFinalize, Forget, Pass, Phases
  <2>. QED  BY <1>4, <2>1 DEF TypeOK, Begin, BeginFinalize, Forget
<1>5. CASE Register
  <2>1. CASE Conflict
    BY <1>3, <1>5, <2>1 DEF TypeOK, Register, Aside
  <2>2. CASE ~Conflict
    <3>. DEFINE o == [pass.obj EXCEPT !.finalizer = HasTargets]
    <3>1. o \in Object
      <4>1. HasTargets \in BOOLEAN
        BY DEF HasTargets
      <4>. QED  BY <1>0, <4>1, RegisteredShape
    <3>2. Publish(o, "self") /\ pass' = [pass EXCEPT !.at = "evaluate", !.obj = o]
          /\ queued' = queued
      BY <1>5, <2>2 DEF Register
    <3>. HIDE DEF o
    <3>3. pass' \in Pass
      BY <1>0, <3>1, <3>2 DEF Pass, Phases
    <3>. QED  BY <1>5, <3>1, <3>2, <3>3, PublishType DEF TypeOK, Register, Aside
  <2>. QED  BY <2>1, <2>2
<1>6. CASE EvaluateBlind
  <2>. DEFINE v == IF seen = "unknown" THEN pass.obj.observed ELSE NoValue
              r == IF seen = "unknown" THEN "unobserved" ELSE "unavailable"
              o == [pass.obj EXCEPT !.observed = v, !.ready = r]
  <2>1. o \in Object
    <3>1. v \in Reported /\ r \in {"unobserved", "unavailable"}
      BY <1>0 DEF Object, Reported
    <3>. HIDE DEF v, r
    <3>. QED  BY <1>0, <3>1, HeldStateShape
  <2>2. pass' = [pass EXCEPT !.at = "hold", !.obj = o]
    BY <1>0, <1>6 DEF EvaluateBlind, Pass, Object
  <2>. HIDE DEF o
  <2>3. pass' \in Pass
    BY <1>0, <2>1, <2>2 DEF Pass, Phases
  <2>. QED  BY <1>6, <2>3 DEF TypeOK, EvaluateBlind, Aside
<1>7. CASE Evaluate
  <2>1. PICK v \in Reported, m \in BOOLEAN :
          pass' = [pass EXCEPT !.at = "targets", !.value = v, !.matching = m]
    <3>. DEFINE v == IF Readable THEN seen ELSE NoValue
                m == IF Readable THEN seen = Trigger ELSE pass.obj.matching
    <3>1. v \in Reported /\ m \in BOOLEAN
      BY <1>0 DEF Readable, Reported, Object
    <3>2. pass' = [pass EXCEPT !.at = "targets", !.value = v, !.matching = m]
      BY <1>7 DEF Evaluate
    <3>. QED  BY <3>1, <3>2
  <2>2. pass' \in Pass
    BY <1>0, <2>1 DEF Pass, Phases
  <2>. QED  BY <1>7, <2>2 DEF TypeOK, Evaluate, Aside
<1>8. CASE ReportHeldState
  <2>1. CASE Conflict
    BY <1>3, <1>8, <2>1 DEF TypeOK, ReportHeldState, Aside
  <2>2. CASE WriteObject(pass.obj) /\ EndPass
    BY <1>0, <1>2, <1>8, <2>2, PublishType DEF TypeOK, ReportHeldState, WriteObject, Aside
  <2>. QED  BY <1>8, <2>1, <2>2 DEF ReportHeldState
<1>9. CASE ReconcileTarget
  <2>1. pass' \in Pass
    <3>1. PICK c \in BOOLEAN : pass' = [pass EXCEPT !.next = @ + 1, !.changed = c]
      BY <1>0, <1>9 DEF ReconcileTarget
    <3>2. pass.next + 1 \in 1..(NTargets + 1)
      BY <1>0, <1>9, ReconcilerAssumption DEF ReconcileTarget, Pass
    <3>. QED  BY <1>0, <3>1, <3>2 DEF Pass
  <2>2. held' \subseteq Targets
    BY <1>0, <1>9, ReconcilerAssumption DEF ReconcileTarget, Pass, Targets
  <2>. QED  BY <1>9, <2>1, <2>2 DEF TypeOK, ReconcileTarget, Aside
<1>10. CASE TargetFails
  <2>1. pass' \in Pass
    BY <1>0, <1>10 DEF TargetFails, Go, Pass, Phases
  <2>. QED  BY <1>10, <2>1 DEF TypeOK, TargetFails, Aside
<1>11. CASE Commit
  <2>1. CASE Conflict /\ UNCHANGED unsent
    BY <1>3, <1>11, <2>1 DEF TypeOK, Commit, Aside
  <2>2. CASE ~(Conflict /\ UNCHANGED unsent)
    <3>. DEFINE o == Committed(pass.obj)
    <3>1. o \in Object
      BY CommittedType
    <3>. HIDE DEF o
    <3>2. /\ WriteCommitted(o) /\ NoteCommit
          /\ \/ pass' = [pass EXCEPT !.at = "send", !.obj = o] /\ UNCHANGED queued
             \/ EndPass
      BY <1>11, <2>2 DEF Commit, o
    <3>3. stored' \in Object /\ feed' \in Seq([obj : Object, by : {"user", "self"}])
      BY <1>0, <3>1, <3>2, PublishType DEF WriteCommitted, WriteObject
    <3>4. pass' \in Pass /\ queued' \in {"no", "later", "now"}
      BY <1>0, <1>2, <3>1, <3>2 DEF Pass, Phases
    <3>5. unsent' \in {"none", "enter", "exit"}
      BY <1>0, <3>2 DEF NoteCommit, Direction
    <3>. QED  BY <1>11, <3>3, <3>4, <3>5 DEF TypeOK, Commit, Aside
  <2>. QED  BY <2>1, <2>2
<1>12. CASE RecordApplyFailure
  <2>1. CASE Conflict
    BY <1>3, <1>12, <2>1 DEF TypeOK, RecordApplyFailure, Aside
  <2>2. CASE Publish(Failed(pass.obj), "self") /\ EndPass
    BY <1>2, <1>12, <2>2, FailedType, PublishType DEF TypeOK, RecordApplyFailure, Aside
  <2>. QED  BY <1>12, <2>1, <2>2 DEF RecordApplyFailure
<1>13. CASE RunEdgeActions
  <2>1. pass' \in Pass
    BY <1>0, <1>13 DEF RunEdgeActions, Go, Pass, Phases
  <2>. QED  BY <1>13, <2>1 DEF TypeOK, RunEdgeActions, Aside
<1>14. CASE RecordEdgeActions
  <2>1. stored' \in Object /\ feed' \in Seq([obj : Object, by : {"user", "self"}])
    BY <1>0, <1>14, PublishType DEF RecordEdgeActions
  <2>2. pass' \in Pass /\ queued' \in {"no", "later", "now"}
    BY <1>2, <1>14 DEF RecordEdgeActions
  <2>. QED  BY <1>14, <2>1, <2>2 DEF TypeOK, RecordEdgeActions, Aside
<1>15. CASE RetryRelease
  <2>1. CASE Conflict
    BY <1>3, <1>15, <2>1 DEF TypeOK, RetryRelease, Aside
  <2>2. CASE ~Conflict
    <3>. DEFINE o == [pass.obj EXCEPT !.releases = @ + 1, !.applied = "releaseFailed"]
    <3>1. o \in Object
      <4>1. pass.obj.releases + 1 \in 0..MaxReleaseAttempts
        <5>1. pass.obj.releases \in 0..MaxReleaseAttempts
          BY <1>0 DEF Object
        <5>2. pass.obj.releases + 1 < MaxReleaseAttempts
          BY <1>15 DEF RetryRelease
        <5>. QED  BY <5>1, <5>2, ReconcilerAssumption
      <4>2. o = [pass.obj EXCEPT !.releases = pass.obj.releases + 1, !.applied = "releaseFailed"]
        BY <1>0 DEF Object
      <4>. QED  BY <1>0, <4>1, <4>2, UnreleasedShape
    <3>2. Publish(o, "self") /\ EndPass
      BY <1>15, <2>2 DEF RetryRelease
    <3>. HIDE DEF o
    <3>. QED  BY <1>2, <1>15, <3>1, <3>2, PublishType DEF TypeOK, RetryRelease, Aside
  <2>. QED  BY <2>1, <2>2
<1>16. CASE LetGo
  <2>1. CASE Conflict
    BY <1>3, <1>16, <2>1 DEF TypeOK, LetGo, Aside
  <2>2. CASE ~Conflict
    <3>. DEFINE o == [pass.obj EXCEPT !.exists = FALSE, !.finalizer = FALSE]
    <3>1. o \in Object
      BY <1>0 DEF Object
    <3>2. Publish(o, "self") /\ Dismiss
      BY <1>16, <2>2 DEF LetGo
    <3>. HIDE DEF o
    <3>. QED  BY <1>0, <1>1, <1>16, <3>1, <3>2, PublishType DEF TypeOK, LetGo, Dismiss, Aside
  <2>. QED  BY <2>1, <2>2
<1>17. CASE DelayPasses
  BY <1>17 DEF TypeOK, DelayPasses
<1>18. CASE Deliver
  <2>1. cache' \in Object /\ feed' \in Seq([obj : Object, by : {"user", "self"}])
    <3>1. /\ Head(feed) \in [obj : Object, by : {"user", "self"}]
          /\ Tail(feed) \in Seq([obj : Object, by : {"user", "self"}])
      BY <1>0, <1>18, HeadTailProperties DEF Deliver
    <3>. QED  BY <1>18, <3>1 DEF Deliver
  <2>2. roused' \in BOOLEAN
    BY <1>18 DEF Deliver, TypeOK
  <2>. QED  BY <1>18, <2>1, <2>2 DEF TypeOK, Deliver, Enqueue
<1>19. CASE Poll \/ PollUnheard
  <2>1. spent' \in [Disturbances -> Nat]
    BY <1>19, DisturbType DEF Poll, PollUnheard, Disturbances
  <2>. QED  BY <1>19, <2>1 DEF TypeOK, Poll, PollUnheard, Enqueue
<1>20. CASE Suspend \/ Delete
  <2>1. spent' \in [Disturbances -> Nat]
    BY <1>20, DisturbType DEF Suspend, Delete, Disturbances
  <2>2. PICK o \in Object : UserWrites(o)
    <3>1. [stored EXCEPT !.inForce = ~@] \in Object
      <4>1. PICK f \in BOOLEAN : f = ~stored.inForce
        OBVIOUS
      <4>2. [stored EXCEPT !.inForce = f] \in Object
        BY <1>0, SuspendedShape
      <4>. QED  BY <4>1, <4>2
    <3>2. [stored EXCEPT !.deleting = TRUE] \in Object /\ [stored EXCEPT !.exists = FALSE] \in Object
      BY <1>0 DEF Object
    <3>. QED  BY <1>20, <3>1, <3>2 DEF Suspend, Delete
  <2>3. pass' \in Pass
    BY <1>0, <2>2 DEF UserWrites, Pass
  <2>. QED  BY <1>20, <2>1, <2>2, <2>3, PublishType DEF TypeOK, Suspend, Delete, UserWrites
<1>21. CASE Break
  <2>1. spent' \in [Disturbances -> Nat]
    BY <1>21, DisturbType DEF Break, Disturbances
  <2>. QED  BY <1>21, <2>1 DEF TypeOK, Break
<1>22. CASE TargetTimesOut
  <2>1. spent' \in [Disturbances -> Nat]
    BY <1>22, DisturbType DEF TargetTimesOut, Disturbances
  <2>2. pass' \in Pass
    BY <1>0, <1>22 DEF TargetTimesOut, Go, Pass, Phases
  <2>3. held' \subseteq Targets
    <3>1. pass.next \in Targets
      BY <1>0, <1>22, ReconcilerAssumption DEF TargetTimesOut, Pass, Targets
    <3>. QED  BY <1>0, <1>22, <3>1 DEF TargetTimesOut
  <2>. QED  BY <1>22, <2>1, <2>2, <2>3 DEF TypeOK, TargetTimesOut
<1>23. CASE CommitUnanswered
  <2>1. spent' \in [Disturbances -> Nat]
    BY <1>23, DisturbType DEF CommitUnanswered, Disturbances
  <2>2. stored' \in Object /\ feed' \in Seq([obj : Object, by : {"user", "self"}])
    <3>1. WriteCommitted(Committed(pass.obj))
      BY <1>23 DEF CommitUnanswered
    <3>. QED  BY <1>0, <3>1, CommittedType, PublishType DEF WriteCommitted, WriteObject
  <2>3. pass' \in Pass /\ queued' \in {"no", "later", "now"}
    BY <1>2, <1>23 DEF CommitUnanswered
  <2>4. unsent' \in {"none", "enter", "exit"}
    BY <1>0, <1>23 DEF CommitUnanswered, NoteCommit, Direction
  <2>. QED  BY <1>23, <2>1, <2>2, <2>3, <2>4 DEF TypeOK, CommitUnanswered
<1>24. CASE Crash
  <2>1. spent' \in [Disturbances -> Nat]
    BY <1>24, DisturbType DEF Crash, Disturbances
  <2>. QED  BY <1>0, <1>1, <1>24, <2>1 DEF TypeOK, Crash
<1>25. CASE UNCHANGED vars
  BY <1>25 DEF vars, TypeOK
<1>. QED
  BY <1>4, <1>5, <1>6, <1>7, <1>8, <1>9, <1>10, <1>11, <1>12, <1>13, <1>14, <1>15, <1>16,
     <1>17, <1>18, <1>19, <1>20, <1>21, <1>22, <1>23, <1>24, <1>25
     DEF Next, PassStep, Start, Environment

-----------------------------------------------------------------------------
(* The informer. *)

\* A new version keeps the order of versions, if it takes no deletion back and
\* gives up the finalizer only of an object known to be going.
LEMMA PublishInforms ==
  ASSUME TypeOK, Informed, NEW o \in Object, NEW by \in {"user", "self"},
         Publish(o, by), cache' = cache,
         stored.deleting => o.deleting,
         o.finalizer => HasTargets,
         stored.finalizer => o.finalizer \/ cache.deleting
  PROVE  Informed'
<1>1. /\ stored' = o /\ cache' = cache /\ Len(feed) \in Nat /\ Len(feed') = Len(feed) + 1
      /\ \A i \in 1..Len(feed) : feed'[i] = feed[i]
      /\ feed'[Len(feed) + 1].obj = o
      /\ feed' # <<>>
  BY DEF TypeOK, Publish
<1>2. \A i \in 1..Len(feed') : i \in 1..Len(feed) \/ (i = Len(feed) + 1 /\ feed'[i].obj = o)
  BY <1>1
<1>3. \A i \in 1..Len(feed) : Live(feed[i].obj) /\ feed[i].obj.finalizer => o.finalizer
  BY DEF Informed, Live
<1>4. Live(cache) /\ cache.finalizer => o.finalizer
  BY DEF Informed, Live
<1>5. ASSUME NEW i \in 1..Len(feed')
      PROVE  /\ cache.deleting => feed'[i].obj.deleting
             /\ feed'[i].obj.deleting => o.deleting
             /\ Live(feed'[i].obj) /\ feed'[i].obj.finalizer => o.finalizer
             /\ \A j \in i..Len(feed') : feed'[i].obj.deleting => feed'[j].obj.deleting
  <2>1. CASE i = Len(feed) + 1
    <3>1. \A j \in i..Len(feed') : j = i
      BY <1>1, <2>1
    <3>. QED  BY <1>1, <2>1, <3>1 DEF Informed
  <2>2. CASE i \in 1..Len(feed)
    <3>1. feed'[i] = feed[i]
      BY <1>1, <2>2
    <3>2. \A j \in i..Len(feed') :
            (j \in i..Len(feed) /\ feed'[j] = feed[j]) \/ feed'[j].obj = o
      BY <1>1, <2>2
    <3>. QED  BY <1>3, <2>2, <3>1, <3>2 DEF Informed
  <2>. QED  BY <1>2, <2>1, <2>2
<1>6. /\ stored'.finalizer => HasTargets'
      /\ cache'.deleting => stored'.deleting
      /\ Live(cache)' /\ cache'.finalizer => stored'.finalizer
  BY <1>1, <1>4 DEF Informed, Live, HasTargets
<1>7. feed'[Len(feed')].obj = stored'
  BY <1>1
<1>. QED  BY <1>1, <1>5, <1>6, <1>7 DEF Informed, Live

\* Delivering a version keeps their order.
LEMMA DeliverInforms == TypeOK /\ Informed /\ Deliver => Informed'
<1>. SUFFICES ASSUME TypeOK, Informed, Deliver PROVE Informed'
  OBVIOUS
<1>1. /\ feed # <<>> /\ cache' = feed[1].obj /\ feed' = Tail(feed) /\ stored' = stored
      /\ Len(feed) \in Nat \ {0} /\ Len(feed') = Len(feed) - 1
      /\ \A i \in 1..Len(feed') : feed'[i] = feed[i + 1]
  <2>1. feed \in Seq([obj : Object, by : {"user", "self"}])
    BY DEF TypeOK
  <2>. QED  BY <2>1, HeadTailProperties DEF Deliver
<1>2. feed' = <<>> => cache' = stored'
  <2>1. feed' = <<>> => Len(feed) = 1
    BY <1>1
  <2>2. feed[Len(feed)].obj = stored
    BY <1>1 DEF Informed
  <2>. QED  BY <1>1, <2>1, <2>2
<1>3. feed' # <<>> => feed'[Len(feed')].obj = stored'
  <2>1. ASSUME feed' # <<>> PROVE Len(feed') \in 1..Len(feed')
    BY <1>1, <2>1 DEF TypeOK
  <2>. QED  BY <1>1, <2>1 DEF Informed
<1>4. ASSUME NEW i \in 1..Len(feed')
      PROVE  /\ cache'.deleting => feed'[i].obj.deleting
             /\ feed'[i].obj.deleting => stored'.deleting
             /\ Live(feed'[i].obj) /\ feed'[i].obj.finalizer => stored'.finalizer
             /\ \A j \in i..Len(feed') : feed'[i].obj.deleting => feed'[j].obj.deleting
  <2>1. i + 1 \in 1..Len(feed) /\ feed'[i] = feed[i + 1] /\ 1 \in 1..Len(feed)
        /\ i + 1 \in 1..Len(feed)
    BY <1>1
  <2>2. \A j \in i..Len(feed') : j + 1 \in (i + 1)..Len(feed) /\ feed'[j] = feed[j + 1]
    BY <1>1
  <2>. QED  BY <1>1, <2>1, <2>2 DEF Informed
<1>5. /\ stored'.finalizer => HasTargets'
      /\ cache'.deleting => stored'.deleting
      /\ Live(cache)' /\ cache'.finalizer => stored'.finalizer
  <2>1. 1 \in 1..Len(feed)
    BY <1>1
  <2>. QED  BY <1>1, <2>1 DEF Informed, Live, HasTargets
<1>. QED  BY <1>2, <1>3, <1>4, <1>5 DEF Informed, Live

-----------------------------------------------------------------------------
(* The pass. *)

\* What a current pass writes over the object it acted on.
LEMMA OwnWrite ==
  ASSUME TypeOK, IInv, pass.at # "idle", pass.current, NEW o \in Object,
         Publish(o, "self") \/ (o = stored /\ UNCHANGED <<stored, feed>>),
         cache' = cache, held' = held,
         o.exists = stored.exists, o.deleting = stored.deleting,
         stored.finalizer => o.finalizer, o.finalizer => HasTargets
  PROVE  Informed' /\ HeldUnderFinalizer' /\ stored' = o
<1>1. stored' = o
  BY DEF Publish
<1>2. Informed'
  <2>1. CASE Publish(o, "self")
    BY <2>1, PublishInforms DEF IInv
  <2>2. CASE UNCHANGED <<stored, feed>>
    BY <2>2 DEF IInv, Informed, HasTargets
  <2>. QED  BY <2>1, <2>2
<1>3. stored.exists
  BY DEF IInv, Grounded, TypeOK, Object
<1>. QED  BY <1>1, <1>2, <1>3 DEF IInv, HeldUnderFinalizer

\* Where nothing of the object or the targets changes, the rest follows from
\* the pass.
LEMMA Unwritten ==
  ASSUME IInv, UNCHANGED <<stored, feed, cache, held>>
  PROVE  Informed' /\ HeldUnderFinalizer'
BY DEF IInv, Informed, HeldUnderFinalizer, HasTargets

\* A pass that ends is idle.
LEMMA EndedPass == EndPass => pass'.at = "idle"
BY DEF EndPass, Idle

\* A pass that does not move stays grounded while the object is left alone.
LEMMA Kept ==
  ASSUME Grounded, UNCHANGED <<pass, stored, held, unsent>>, cache.deleting => cache'.deleting
  PROVE  Grounded'
BY DEF Grounded, Acting, HasTargets, Flips, Claiming, Direction

\* What a commit leaves of the object, and what it changes.
LEMMA CommittedFields ==
  ASSUME TypeOK
  PROVE  LET o == Committed(pass.obj)
         IN  /\ o.exists = pass.obj.exists /\ o.deleting = pass.obj.deleting
             /\ o.finalizer = pass.obj.finalizer /\ o.inForce = pass.obj.inForce
             /\ o.matching = pass.matching
             /\ o.observed = ObservedNow(pass.obj)
BY DEF TypeOK, Pass, Object, Committed

\* The initial states satisfy the invariant.
LEMMA InvInit == Init => IInv
BY DEF Init, IInv, HeldUnderFinalizer, Informed, Live, Idle, Created

\* Every step preserves the invariant.
LEMMA InvStep == TypeOK /\ IInv /\ [Next]_vars => IInv'
<1>. SUFFICES ASSUME TypeOK, IInv, [Next]_vars PROVE IInv'
  OBVIOUS
<1>0. /\ stored \in Object /\ cache \in Object /\ pass \in Pass /\ pass.obj \in Object
      /\ held \subseteq Targets /\ Informed /\ HeldUnderFinalizer
      /\ pass.at # "idle" => Grounded
      /\ pass.value \in Reported /\ pass.matching \in BOOLEAN
  BY DEF TypeOK, Pass, IInv
<1>. USE DEF Aside
<1>1. ASSUME Conflict, UNCHANGED <<cache, held>> PROVE IInv'
  BY <1>1, Unwritten, EndedPass DEF Conflict, IInv
<1>2. CASE Begin
  <2>1. /\ pass'.obj = cache /\ pass'.current = (feed = <<>>) /\ pass'.next = 1
        /\ pass'.at = IF HasTargets # cache.finalizer THEN "register" ELSE "evaluate"
        /\ UNCHANGED <<stored, feed, cache, held>>
        /\ cache.exists /\ ~cache.deleting
    BY <1>2 DEF Begin, Idle
  <2>2. HasTargets \in BOOLEAN /\ HasTargets' = HasTargets
    BY DEF HasTargets
  <2>3. stored = [stored EXCEPT !.observed = stored.observed, !.ready = stored.ready]
    BY <1>0 DEF Object
  <2>4. Grounded'
    BY <1>0, <2>1, <2>2, <2>3 DEF Grounded, Informed, Live, Acting, Object
  <2>. QED  BY <2>1, <2>4, Unwritten DEF IInv
<1>3. CASE BeginFinalize
  <2>1. /\ pass'.obj = cache /\ pass'.current = (feed = <<>>) /\ pass'.at = "targets"
        /\ pass'.next = 1
        /\ UNCHANGED <<stored, feed, cache, held>>
        /\ cache.exists /\ cache.deleting /\ cache.finalizer
    BY <1>3 DEF BeginFinalize, Idle
  <2>2. stored = [stored EXCEPT !.observed = stored.observed, !.ready = stored.ready]
    BY <1>0 DEF Object
  <2>3. 1..(pass'.next - 1) = {}
    BY <2>1
  <2>4. Grounded'
    BY <1>0, <2>1, <2>2, <2>3 DEF Grounded, Informed, Live, Acting, Object
  <2>. QED  BY <2>1, <2>4, Unwritten DEF IInv
<1>4. CASE Forget
  BY <1>0, <1>4, Unwritten DEF Forget, At, IInv
<1>5. CASE Register
  <2>1. CASE Conflict
    BY <1>1, <1>5, <2>1 DEF Register
  <2>2. CASE ~Conflict
    <3>. DEFINE o == [pass.obj EXCEPT !.finalizer = HasTargets]
    <3>0. HasTargets \in BOOLEAN /\ HasTargets' = HasTargets
      BY DEF HasTargets
    <3>1. /\ o \in Object /\ o.exists = pass.obj.exists /\ o.deleting = pass.obj.deleting
          /\ o.finalizer = HasTargets
      BY <1>0, <3>0 DEF Object
    <3>2. pass.at = "register" /\ pass.current /\ pass.obj = stored
      BY <1>0, <1>5, <2>2 DEF Register, At, Grounded
    <3>3. Publish(o, "self") /\ pass' = [pass EXCEPT !.at = "evaluate", !.obj = o]
          /\ UNCHANGED <<cache, held>>
      BY <1>5, <2>2 DEF Register
    <3>. HIDE DEF o
    <3>4. Informed' /\ HeldUnderFinalizer' /\ stored' = o
      BY <1>0, <3>1, <3>2, <3>3, OwnWrite DEF Informed
    <3>5. pass'.at = "evaluate" /\ pass'.obj = o /\ pass'.current = pass.current
          /\ pass'.next = pass.next
      BY <1>0, <3>3 DEF Pass
    <3>6. o = [o EXCEPT !.observed = o.observed, !.ready = o.ready]
      BY <3>1 DEF Object
    <3>7. Grounded'
      BY <1>0, <3>0, <3>1, <3>2, <3>3, <3>4, <3>5, <3>6 DEF Grounded, Acting
    <3>. QED  BY <3>4, <3>7 DEF IInv
  <2>. QED  BY <2>1, <2>2
<1>6. CASE EvaluateBlind
  <2>. DEFINE v == IF seen = "unknown" THEN pass.obj.observed ELSE NoValue
              r == IF seen = "unknown" THEN "unobserved" ELSE "unavailable"
              o == [pass.obj EXCEPT !.observed = v, !.ready = r]
  <2>1. pass' = [pass EXCEPT !.at = "hold", !.obj = o] /\ pass.at = "evaluate"
        /\ UNCHANGED <<stored, feed, cache, held>>
    BY <1>0, <1>6 DEF EvaluateBlind, At, Pass, Object
  <2>. HIDE DEF v, r
  <2>2. /\ o.exists = pass.obj.exists /\ o.deleting = pass.obj.deleting
        /\ o.finalizer = pass.obj.finalizer
        /\ o = [pass.obj EXCEPT !.observed = o.observed, !.ready = o.ready]
    BY <1>0 DEF Object
  <2>. HIDE DEF o
  <2>3. pass'.at = "hold" /\ pass'.obj = o /\ pass'.current = pass.current
    BY <1>0, <2>1 DEF Pass
  <2>4. HasTargets' = HasTargets
    BY DEF HasTargets
  <2>5. Grounded'
    BY <1>0, <2>1, <2>2, <2>3, <2>4 DEF Grounded, Acting, Phases
  <2>. QED  BY <2>1, <2>5, Unwritten DEF IInv
<1>7. CASE Evaluate
  <2>1. /\ pass.at = "evaluate" /\ UNCHANGED <<stored, feed, cache, held>>
        /\ pass'.at = "targets" /\ pass'.obj = pass.obj /\ pass'.current = pass.current
        /\ pass'.next = pass.next
        /\ pass'.value = (IF Readable THEN seen ELSE NoValue)
        /\ pass'.matching = (IF Readable THEN seen = Trigger ELSE pass.obj.matching)
    BY <1>0, <1>7 DEF Evaluate, At, Pass
  <2>2. pass'.value = NoValue => pass'.matching = pass'.obj.matching
    BY <2>1, ReconcilerAssumption DEF Readable
  <2>3. HasTargets' = HasTargets
    BY DEF HasTargets
  <2>4. 1..(pass'.next - 1) = {}
    BY <1>0, <2>1 DEF Grounded
  <2>5. Grounded'
    BY <1>0, <2>1, <2>2, <2>3, <2>4 DEF Grounded, Acting, Phases, Flips
  <2>. QED  BY <2>1, <2>5, Unwritten DEF IInv
<1>8. CASE ReportHeldState
  <2>1. CASE Conflict
    BY <1>1, <1>8, <2>1 DEF ReportHeldState
  <2>2. CASE pass.current /\ WriteObject(pass.obj) /\ EndPass
    <3>1. pass.at # "idle" /\ UNCHANGED <<cache, held>>
      BY <1>8 DEF ReportHeldState, At
    <3>2. /\ pass.obj.exists = stored.exists /\ pass.obj.deleting = stored.deleting
          /\ pass.obj.finalizer = stored.finalizer
      BY <1>0, <2>2, <3>1 DEF Grounded, Object
    <3>3. Publish(pass.obj, "self") \/ (pass.obj = stored /\ UNCHANGED <<stored, feed>>)
      BY <2>2 DEF WriteObject
    <3>4. Informed' /\ HeldUnderFinalizer'
      BY <1>0, <2>2, <3>1, <3>2, <3>3, OwnWrite DEF Informed
    <3>. QED  BY <2>2, <3>4, EndedPass DEF IInv
  <2>. QED  BY <1>8, <2>1, <2>2 DEF ReportHeldState
<1>9. CASE ReconcileTarget
  <2>1. /\ pass.at = "targets" /\ pass.next <= NTargets /\ UNCHANGED <<stored, feed, cache>>
        /\ held' = IF Claiming THEN held \cup {pass.next} ELSE held \ {pass.next}
        /\ pass'.at = "targets" /\ pass'.obj = pass.obj /\ pass'.current = pass.current
        /\ pass'.next = pass.next + 1 /\ pass'.value = pass.value
        /\ pass'.matching = pass.matching
    BY <1>0, <1>9 DEF ReconcileTarget, At, Pass
  <2>2. HasTargets /\ HasTargets' = HasTargets /\ pass.next \in 1..NTargets
    BY <1>0, <2>1, ReconcilerAssumption DEF HasTargets, Pass
  <2>3. Claiming' = Claiming /\ (Claiming \in BOOLEAN) /\ (Flips' <=> Flips)
    BY <2>1 DEF Claiming, Flips
  <2>4. HeldUnderFinalizer'
    <3>1. CASE Claiming
      BY <1>0, <2>1, <2>2, <3>1 DEF Grounded, Claiming, Acting, Phases, HeldUnderFinalizer
    <3>2. CASE ~Claiming
      BY <1>0, <2>1, <3>2 DEF HeldUnderFinalizer
    <3>. QED  BY <3>1, <3>2
  <2>5. \A t \in 1..(pass'.next - 1) : t \in held' <=> Claiming'
    <3>1. \A t \in 1..(pass'.next - 1) : t = pass.next \/ t \in 1..(pass.next - 1)
      BY <2>1, <2>2
    <3>. QED  BY <1>0, <2>1, <2>3, <3>1 DEF Grounded
  <2>6. Grounded'
    BY <1>0, <2>1, <2>2, <2>3, <2>5 DEF Grounded
  <2>7. Informed'
    BY <1>0, <2>1, <2>2 DEF Informed
  <2>. QED  BY <2>4, <2>6, <2>7 DEF IInv
<1>10. CASE TargetFails
  <2>1. /\ pass.at = "targets" /\ UNCHANGED <<stored, feed, cache, held>>
        /\ pass'.at = "failed" /\ pass'.obj = pass.obj /\ pass'.current = pass.current
    BY <1>0, <1>10 DEF TargetFails, Go, At, Pass
  <2>2. HasTargets' = HasTargets
    BY DEF HasTargets
  <2>3. Grounded'
    BY <1>0, <2>1, <2>2 DEF Grounded, Acting, Phases
  <2>. QED  BY <2>1, <2>3, Unwritten DEF IInv
<1>11. ASSUME TargetsDone, ~pass.obj.deleting, pass.current, NoteCommit,
              WriteCommitted(Committed(pass.obj)), UNCHANGED <<cache, held>>
       PROVE  /\ Informed' /\ HeldUnderFinalizer' /\ stored' = Committed(pass.obj)
              /\ pass.obj = stored /\ pass.at = "targets"
  <2>. DEFINE o == Committed(pass.obj)
  <2>1. pass.at = "targets" /\ pass.obj = stored
    BY <1>0, <1>11 DEF TargetsDone, At, Grounded
  <2>2. o \in Object
    BY CommittedType
  <2>3. o.exists = stored.exists /\ o.deleting = stored.deleting /\ o.finalizer = stored.finalizer
    BY <2>1, CommittedFields
  <2>. HIDE DEF o
  <2>4. Publish(o, "self") \/ (o = stored /\ UNCHANGED <<stored, feed>>)
    BY <1>11 DEF WriteCommitted, WriteObject, o
  <2>5. Informed' /\ HeldUnderFinalizer' /\ stored' = o
    BY <1>0, <1>11, <2>1, <2>2, <2>3, <2>4, OwnWrite DEF Informed
  <2>. QED  BY <2>1, <2>5 DEF o
<1>12. CASE Commit
  <2>1. CASE Conflict /\ UNCHANGED unsent
    BY <1>1, <1>12, <2>1 DEF Commit
  <2>2. CASE ~(Conflict /\ UNCHANGED unsent)
    <3>. DEFINE o == Committed(pass.obj)
    <3>1. Informed' /\ HeldUnderFinalizer' /\ stored' = o /\ pass.obj = stored
          /\ pass.at = "targets"
      BY <1>11, <1>12, <2>2 DEF Commit
    <3>2. CASE Flips /\ pass.obj.inForce
      <4>1. /\ pass' = [pass EXCEPT !.at = "send", !.obj = o] /\ unsent' = Direction
            /\ pass.current /\ UNCHANGED <<cache, held>> /\ ~pass.obj.deleting
        BY <1>12, <2>2, <3>2 DEF Commit, NoteCommit
      <4>2. /\ pass'.at = "send" /\ pass'.obj = o /\ pass'.matching = pass.matching
            /\ pass'.value = pass.value
        <5>. HIDE DEF o
        <5>. QED  BY <1>0, <4>1 DEF Pass
      <4>3. /\ o \in Object /\ o.exists = pass.obj.exists /\ o.deleting = pass.obj.deleting
            /\ o.finalizer = pass.obj.finalizer /\ o.matching = pass.matching
            /\ o.observed = ObservedNow(pass.obj)
        BY CommittedFields, CommittedType
      <4>. HIDE DEF o
      <4>4. o.observed = pass.value
        BY <1>0, <3>1, <3>2, <4>1, <4>3 DEF Grounded, ObservedNow
      <4>5. Direction' = Direction /\ HasTargets' = HasTargets
        BY <4>2 DEF Direction, HasTargets
      <4>6. o = [o EXCEPT !.observed = o.observed, !.ready = o.ready]
        BY <4>3 DEF Object
      <4>7. Grounded'
        BY <1>0, <3>1, <4>1, <4>2, <4>3, <4>4, <4>5, <4>6 DEF Grounded, Acting, Phases
      <4>. QED  BY <3>1, <4>7 DEF IInv
    <3>3. CASE ~(Flips /\ pass.obj.inForce)
      BY <1>12, <2>2, <3>1, <3>3, EndedPass DEF Commit, IInv
    <3>. QED  BY <3>2, <3>3
  <2>. QED  BY <2>1, <2>2
<1>13. CASE CommitUnanswered
  BY <1>11, <1>13, EndedPass DEF CommitUnanswered, IInv
<1>14. CASE RecordApplyFailure
  <2>1. CASE Conflict
    BY <1>1, <1>14, <2>1 DEF RecordApplyFailure
  <2>2. CASE pass.current /\ Publish(Failed(pass.obj), "self") /\ EndPass
    <3>. DEFINE o == Failed(pass.obj)
    <3>1. pass.at = "failed" /\ UNCHANGED <<cache, held>>
      BY <1>14 DEF RecordApplyFailure, At
    <3>2. /\ o \in Object /\ o.exists = pass.obj.exists /\ o.deleting = pass.obj.deleting
          /\ o.finalizer = pass.obj.finalizer
      BY <1>0, FailedType DEF Failed, Object
    <3>. HIDE DEF o
    <3>3. pass.obj = stored
      BY <1>0, <2>2, <3>1 DEF Grounded
    <3>4. Informed' /\ HeldUnderFinalizer'
      BY <1>0, <2>2, <3>1, <3>2, <3>3, OwnWrite DEF Informed, o
    <3>. QED  BY <2>2, <3>4, EndedPass DEF IInv
  <2>. QED  BY <1>14, <2>1, <2>2 DEF RecordApplyFailure
<1>15. CASE RunEdgeActions
  <2>1. /\ pass.at = "send" /\ UNCHANGED <<stored, feed, cache, held>>
        /\ pass'.at = "sent" /\ pass'.obj = pass.obj /\ pass'.current = pass.current
    BY <1>0, <1>15 DEF RunEdgeActions, Go, At, Pass
  <2>2. HasTargets' = HasTargets
    BY DEF HasTargets
  <2>3. Grounded'
    BY <1>0, <2>1, <2>2 DEF Grounded, Acting, Phases
  <2>. QED  BY <2>1, <2>3, Unwritten DEF IInv
<1>16. CASE RecordEdgeActions
  <2>1. pass.at = "sent" /\ UNCHANGED <<cache, held>> /\ EndPass
    BY <1>16 DEF RecordEdgeActions, At
  <2>2. CASE pass.current
    <3>1. pass.obj = stored
      BY <1>0, <2>1, <2>2 DEF Grounded
    <3>2. Informed' /\ HeldUnderFinalizer'
      BY <1>0, <1>16, <2>1, <2>2, <3>1, OwnWrite DEF RecordEdgeActions, Informed
    <3>. QED  BY <2>1, <3>2, EndedPass DEF IInv
  <2>3. CASE ~pass.current
    BY <1>16, <2>1, <2>3, Unwritten, EndedPass DEF RecordEdgeActions, IInv
  <2>. QED  BY <2>2, <2>3
<1>17. CASE RetryRelease
  <2>1. CASE Conflict
    BY <1>1, <1>17, <2>1 DEF RetryRelease
  <2>2. CASE ~Conflict
    <3>. DEFINE o == [pass.obj EXCEPT !.releases = @ + 1, !.applied = "releaseFailed"]
    <3>1. /\ pass.at = "failed" /\ pass.current /\ Publish(o, "self") /\ EndPass
          /\ UNCHANGED <<cache, held>>
      BY <1>17, <2>2 DEF RetryRelease, At
    <3>2. o.exists = pass.obj.exists /\ o.deleting = pass.obj.deleting
          /\ o.finalizer = pass.obj.finalizer
      BY <1>0 DEF Object
    <3>3. o \in Object
      <4>1. pass.obj.releases + 1 \in 0..MaxReleaseAttempts
        BY <1>0, <1>17, ReconcilerAssumption DEF RetryRelease, Object
      <4>2. o = [pass.obj EXCEPT !.releases = pass.obj.releases + 1, !.applied = "releaseFailed"]
        BY <1>0 DEF Object
      <4>. QED  BY <1>0, <4>1, <4>2, UnreleasedShape
    <3>. HIDE DEF o
    <3>4. pass.obj = stored
      BY <1>0, <3>1 DEF Grounded
    <3>5. Informed' /\ HeldUnderFinalizer'
      BY <1>0, <3>1, <3>2, <3>3, <3>4, OwnWrite DEF Informed
    <3>. QED  BY <3>1, <3>5, EndedPass DEF IInv
  <2>. QED  BY <2>1, <2>2
<1>18. CASE LetGo
  <2>1. CASE Conflict
    BY <1>1, <1>18, <2>1 DEF LetGo
  <2>2. CASE ~Conflict
    <3>. DEFINE o == [pass.obj EXCEPT !.exists = FALSE, !.finalizer = FALSE]
    <3>1. /\ pass.at \in {"targets", "failed"} /\ pass.current /\ pass.obj.deleting
          /\ Publish(o, "self") /\ Dismiss /\ UNCHANGED <<cache, held>>
      BY <1>18, <2>2 DEF LetGo, GivesUp, TargetsDone, At
    <3>2. /\ o \in Object /\ ~o.exists /\ ~o.finalizer /\ o.deleting = pass.obj.deleting
          /\ o.releases = pass.obj.releases
      BY <1>0 DEF Object
    <3>3. cache.deleting
      BY <1>0, <3>1 DEF Grounded
    <3>. HIDE DEF o
    <3>4. Informed' /\ stored' = o
      BY <1>0, <3>1, <3>2, <3>3, PublishInforms DEF Publish
    <3>5. HeldUnderFinalizer'
      <4>1. CASE GivesUp
        BY <3>1, <3>2, <3>4, <4>1 DEF GivesUp, HeldUnderFinalizer
      <4>2. CASE TargetsDone
        <5>1. \A t \in 1..(pass.next - 1) : t \notin held
          BY <1>0, <3>1, <4>2 DEF Grounded, Claiming, TargetsDone, At
        <5>2. \A t \in Targets : t \in 1..(pass.next - 1)
          BY <1>0, <4>2, ReconcilerAssumption DEF TargetsDone, Targets, Pass
        <5>. QED  BY <1>0, <3>1, <5>1, <5>2 DEF HeldUnderFinalizer
      <4>. QED  BY <1>18, <4>1, <4>2 DEF LetGo
    <3>6. pass'.at = "idle"
      BY <3>1 DEF Dismiss, Idle
    <3>. QED  BY <3>4, <3>5, <3>6 DEF IInv
  <2>. QED  BY <2>1, <2>2
<1>19. CASE Deliver
  <2>1. UNCHANGED <<pass, stored, held, unsent>>
    BY <1>19 DEF Deliver
  <2>2. cache.deleting => cache'.deleting
    <3>1. feed # <<>> /\ cache' = feed[1].obj
      BY <1>19 DEF Deliver, TypeOK
    <3>2. 1 \in 1..Len(feed)
      BY <3>1 DEF TypeOK
    <3>. QED  BY <1>0, <3>1, <3>2 DEF Informed
  <2>3. Informed' /\ HeldUnderFinalizer'
    BY <1>0, <1>19, <2>1, DeliverInforms DEF HeldUnderFinalizer
  <2>. QED  BY <1>0, <2>1, <2>2, <2>3, Kept DEF IInv
<1>20. CASE DelayPasses \/ Poll \/ PollUnheard \/ Break
  <2>1. UNCHANGED <<stored, feed, cache, held, pass, unsent>>
    BY <1>20 DEF DelayPasses, Poll, PollUnheard, Break
  <2>. QED  BY <1>0, <2>1, Unwritten, Kept DEF IInv
<1>21. CASE Suspend \/ Delete
  <2>1. PICK o \in Object :
          /\ Publish(o, "user") /\ pass' = [pass EXCEPT !.current = FALSE]
          /\ ~stored.deleting /\ stored.exists
          /\ o.finalizer = stored.finalizer /\ o.matching = stored.matching
          /\ o.observed = stored.observed
          /\ o.exists \/ ~o.finalizer
    <3>1. CASE Suspend
      <4>. DEFINE o == [stored EXCEPT !.inForce = ~@]
      <4>1. /\ o \in Object /\ o.finalizer = stored.finalizer /\ o.matching = stored.matching
            /\ o.observed = stored.observed /\ o.exists = stored.exists
        BY <1>0 DEF Object
      <4>. QED  BY <3>1, <4>1 DEF Suspend, UserWrites
    <3>2. CASE Delete
      <4>. DEFINE o == IF stored.finalizer THEN [stored EXCEPT !.deleting = TRUE]
                                           ELSE [stored EXCEPT !.exists = FALSE]
      <4>1. /\ o \in Object /\ o.finalizer = stored.finalizer /\ o.matching = stored.matching
            /\ o.observed = stored.observed /\ (stored.exists => o.exists \/ ~o.finalizer)
        BY <1>0 DEF Object
      <4>. QED  BY <3>2, <4>1 DEF Delete, UserWrites
    <3>. QED  BY <1>21, <3>1, <3>2
  <2>2. UNCHANGED <<cache, held, unsent>> /\ stored' = o
    BY <1>21, <2>1 DEF Suspend, Delete, Publish
  <2>3. Informed'
    BY <1>0, <2>1, <2>2, PublishInforms DEF Informed
  <2>4. HeldUnderFinalizer'
    BY <1>0, <2>1, <2>2 DEF HeldUnderFinalizer
  <2>5. /\ pass'.at = pass.at /\ pass'.obj = pass.obj /\ ~pass'.current
        /\ pass'.next = pass.next /\ pass'.value = pass.value /\ pass'.matching = pass.matching
    BY <1>0, <2>1 DEF Pass
  <2>6. /\ (Claiming' <=> Claiming) /\ (Flips' <=> Flips) /\ Direction' = Direction
        /\ HasTargets' = HasTargets
    BY <2>5 DEF Claiming, Flips, Direction, HasTargets
  <2>7. pass.at # "idle" => Grounded'
    BY <1>0, <2>1, <2>2, <2>5, <2>6 DEF Grounded
  <2>. QED  BY <2>3, <2>4, <2>5, <2>7 DEF IInv
<1>22. CASE TargetTimesOut
  <2>1. /\ pass.at = "targets" /\ pass.next <= NTargets /\ UNCHANGED <<stored, feed, cache>>
        /\ held' = IF Claiming THEN held \cup {pass.next} ELSE held \ {pass.next}
        /\ pass'.at = "failed" /\ pass'.obj = pass.obj /\ pass'.current = pass.current
    BY <1>0, <1>22 DEF TargetTimesOut, Go, At, Pass
  <2>2. HasTargets /\ HasTargets' = HasTargets
    BY <1>0, <2>1, ReconcilerAssumption DEF HasTargets, Pass
  <2>3. HeldUnderFinalizer'
    <3>1. CASE Claiming
      BY <1>0, <2>1, <2>2, <3>1 DEF Grounded, Claiming, Acting, Phases, HeldUnderFinalizer
    <3>2. CASE ~Claiming
      BY <1>0, <2>1, <3>2 DEF HeldUnderFinalizer
    <3>. QED  BY <3>1, <3>2
  <2>4. Grounded'
    BY <1>0, <2>1, <2>2 DEF Grounded, Acting, Phases
  <2>5. Informed'
    BY <1>0, <2>1, <2>2 DEF Informed
  <2>. QED  BY <2>3, <2>4, <2>5 DEF IInv
<1>23. CASE Crash
  <2>1. /\ pass'.at = "idle" /\ feed' = <<>> /\ cache' = stored /\ stored' = stored
        /\ held' = held
    BY <1>23 DEF Crash, Idle
  <2>2. Informed'
    BY <1>0, <2>1 DEF Informed, Live, HasTargets
  <2>. QED  BY <1>0, <2>1, <2>2 DEF IInv, HeldUnderFinalizer
<1>24. CASE UNCHANGED vars
  <2>1. UNCHANGED <<stored, feed, cache, held, pass, unsent>>
    BY <1>24 DEF vars
  <2>. QED  BY <1>0, <2>1, Unwritten, Kept DEF IInv
<1>. QED
  BY <1>2, <1>3, <1>4, <1>5, <1>6, <1>7, <1>8, <1>9, <1>10, <1>12, <1>13, <1>14, <1>15,
     <1>16, <1>17, <1>18, <1>19, <1>20, <1>21, <1>22, <1>23, <1>24
     DEF Next, PassStep, Start, Environment

\* Every reachable state is well typed and every pass in it grounded.
LEMMA Invariant == Spec => [](TypeOK /\ IInv)
BY TypeInit, InvInit, TypeStep, InvStep, PTL DEF Spec

\* Type correctness, for any number of targets and any budgets.
THEOREM ReconcilerTypeCorrect == Spec => []TypeOK
BY Invariant, PTL

\* Nothing is held for an Automation without the finalizer that releases it,
\* however far the cache lags, unless its release was given up.
THEOREM HeldIsRegistered == Spec => []HeldUnderFinalizer
<1>1. IInv => HeldUnderFinalizer
  BY DEF IInv
<1>. QED  BY <1>1, Invariant, PTL

\* Edge actions are sent at most once for a committed transition, and in its
\* direction.
THEOREM EdgeActionsSentOnce == Spec => SentAtMostOnce
<1>1. TypeOK /\ IInv /\ [Next]_vars => [RunEdgeActions => unsent = Direction]_vars
  BY DEF IInv, Grounded, RunEdgeActions, At
<1>. QED  BY <1>1, Invariant, PTL DEF Spec, SentAtMostOnce

\* What is sent is said of the state that status carries at that moment.
THEOREM WhatIsSentIsStored == Spec => SaysWhatIsStored
<1>1. TypeOK /\ IInv /\ [Next]_vars
      => [RunEdgeActions => pass.matching = stored.matching /\ pass.value = stored.observed]_vars
  BY DEF IInv, Grounded, RunEdgeActions, At
<1>. QED  BY <1>1, Invariant, PTL DEF Spec, SaysWhatIsStored

\* Behind a commit every target is where the pass put it.
LEMMA CommitFollowsTargets ==
  ASSUME TypeOK, IInv, Commit \/ CommitUnanswered, stored' # stored
  PROVE  held = IF pass.matching /\ stored.inForce THEN Targets ELSE {}
<1>1. /\ TargetsDone /\ ~pass.obj.deleting /\ pass.current /\ pass.at = "targets"
  BY DEF Commit, CommitUnanswered, Conflict, TargetsDone, At
<1>2. pass.obj = stored /\ \A t \in 1..(pass.next - 1) : t \in held <=> Claiming
  BY <1>1 DEF IInv, Grounded
<1>3. \A t \in Targets : t \in 1..(pass.next - 1)
  BY <1>1, ReconcilerAssumption DEF TargetsDone, Targets, TypeOK, Pass
<1>4. held \subseteq Targets /\ (Claiming <=> pass.matching /\ stored.inForce)
  BY <1>1, <1>2 DEF TypeOK, Claiming
<1>. QED  BY <1>2, <1>3, <1>4

\* No other step changes what is committed, or reports it in effect.
LEMMA OnlyCommitsCommit ==
  ASSUME TypeOK, IInv, [Next]_vars, stored' # stored,
         \/ stored'.matching # stored.matching
         \/ stored'.applied = "inEffect" /\ stored.applied # "inEffect"
  PROVE  Commit \/ CommitUnanswered
<1>. USE DEF Aside
<1>0. stored \in Object /\ pass \in Pass /\ pass.obj \in Object
      /\ (pass.at # "idle" => Grounded)
  BY DEF TypeOK, Pass, IInv
<1>1. ASSUME NEW o, NEW by, Publish(o, by), o.matching = stored.matching,
             o.applied = stored.applied \/ o.applied # "inEffect"
      PROVE  FALSE
  BY <1>1 DEF Publish
<1>2. CASE Register \/ ReportHeldState \/ RecordEdgeActions
  <2>1. pass.at # "idle" /\ pass.current
    BY <1>2 DEF Register, ReportHeldState, RecordEdgeActions, Conflict, At
  <2>2. pass.obj.matching = stored.matching /\ pass.obj.applied = stored.applied
    BY <1>0, <2>1 DEF Grounded, Object
  <2>3. \E o : Publish(o, "self") /\ o.matching = stored.matching /\ o.applied = stored.applied
    <3>1. CASE Register
      <4>1. Publish([pass.obj EXCEPT !.finalizer = HasTargets], "self")
        BY <2>1, <3>1 DEF Register, Conflict
      <4>2. [pass.obj EXCEPT !.finalizer = HasTargets].matching = pass.obj.matching
            /\ [pass.obj EXCEPT !.finalizer = HasTargets].applied = pass.obj.applied
        BY <1>0 DEF Object
      <4>. QED  BY <2>2, <4>1, <4>2
    <3>2. CASE ReportHeldState \/ RecordEdgeActions
      <4>1. Publish(pass.obj, "self")
        BY <2>1, <3>2 DEF ReportHeldState, RecordEdgeActions, Conflict, WriteObject
      <4>. QED  BY <2>2, <4>1
    <3>. QED  BY <1>2, <3>1, <3>2
  <2>. QED  BY <1>1, <2>3
<1>3. CASE RecordApplyFailure
  <2>1. pass.at = "failed" /\ pass.current /\ Publish(Failed(pass.obj), "self")
    BY <1>3 DEF RecordApplyFailure, Conflict, At
  <2>2. Failed(pass.obj).matching = pass.obj.matching /\ Failed(pass.obj).applied # "inEffect"
    BY <1>0 DEF Failed, Object
  <2>. QED  BY <1>0, <1>1, <2>1, <2>2 DEF Grounded
<1>4. CASE RetryRelease
  <2>. DEFINE o == [pass.obj EXCEPT !.releases = @ + 1, !.applied = "releaseFailed"]
  <2>1. pass.at = "failed" /\ pass.current /\ Publish(o, "self")
    BY <1>4 DEF RetryRelease, Conflict, At
  <2>2. o.matching = pass.obj.matching /\ o.applied # "inEffect"
    BY <1>0 DEF Object
  <2>. QED  BY <1>0, <1>1, <2>1, <2>2 DEF Grounded
<1>5. CASE LetGo
  <2>. DEFINE o == [pass.obj EXCEPT !.exists = FALSE, !.finalizer = FALSE]
  <2>1. pass.at \in {"targets", "failed"} /\ pass.current /\ Publish(o, "self")
    BY <1>5 DEF LetGo, GivesUp, TargetsDone, Conflict, At
  <2>2. o.matching = pass.obj.matching /\ o.applied = pass.obj.applied
    BY <1>0 DEF Object
  <2>. QED  BY <1>0, <1>1, <2>1, <2>2 DEF Grounded
<1>6. CASE Suspend \/ Delete
  <2>1. PICK o : Publish(o, "user") /\ o.matching = stored.matching /\ o.applied = stored.applied
    <3>. DEFINE p == [stored EXCEPT !.inForce = ~@]
                q == [stored EXCEPT !.deleting = TRUE]
                r == [stored EXCEPT !.exists = FALSE]
    <3>1. /\ p.matching = stored.matching /\ p.applied = stored.applied
          /\ q.matching = stored.matching /\ q.applied = stored.applied
          /\ r.matching = stored.matching /\ r.applied = stored.applied
      BY <1>0 DEF Object
    <3>2. Publish(p, "user") \/ Publish(q, "user") \/ Publish(r, "user")
      BY <1>6 DEF Suspend, Delete, UserWrites
    <3>. QED  BY <3>1, <3>2
  <2>. QED  BY <1>1, <2>1
<1>7. CASE \/ EvaluateBlind \/ Evaluate \/ ReconcileTarget \/ TargetFails \/ RunEdgeActions
           \/ Begin \/ BeginFinalize \/ Forget \/ DelayPasses \/ Deliver
           \/ Poll \/ PollUnheard \/ Break \/ TargetTimesOut \/ Crash
  BY <1>7 DEF EvaluateBlind, Evaluate, ReconcileTarget, TargetFails, RunEdgeActions,
     Begin, BeginFinalize, Forget, DelayPasses, Deliver, Poll, PollUnheard, Break,
     TargetTimesOut, Crash
<1>8. CASE UNCHANGED vars
  BY <1>8 DEF vars
<1>. QED
  BY <1>2, <1>3, <1>4, <1>5, <1>6, <1>7, <1>8 DEF Next, PassStep, Start, Environment

\* A transition is committed, and reported in effect, only behind the last
\* target.
THEOREM CommitsFollowTargets == Spec => CommittedOnceApplied
<1>1. TypeOK /\ IInv /\ [Next]_vars
      => [(stored'.matching # stored.matching
           \/ (stored' # stored /\ stored'.applied = "inEffect" /\ stored.applied # "inEffect"))
          => held = IF pass.matching /\ stored.inForce THEN Targets ELSE {}]_vars
  <2>1. stored'.matching # stored.matching => stored' # stored
    OBVIOUS
  <2>. QED  BY <2>1, OnlyCommitsCommit, CommitFollowsTargets
<1>. QED  BY <1>1, Invariant, PTL DEF Spec, CommittedOnceApplied

=============================================================================
