--------------------------- MODULE Platform_proofs ---------------------------
(***************************************************************************)
(* Theorems about Platform: it is DeployPipeline and RuntimeControl at     *)
(* once, so that what is proved of either holds of the platform, and what  *)
(* the two prove about one release fits together.                          *)
(***************************************************************************)
EXTENDS Platform, DeployPipeline_proofs

\* The theorems about RuntimeControl.
RP == INSTANCE RuntimeControl_proofs
      WITH Kinds <- BOOLEAN, Faults <- RuntimeFaults, row <- instances

-----------------------------------------------------------------------------
(* Every step is one of either, or of both                                 *)

LEMMA SameInit == R!Init = RP!Init
BY DEF R!Init, RP!Init, R!Instances, RP!Instances, R!NoRow, RP!NoRow,
       R!CallerKinds, RP!CallerKinds, R!NoRequest, RP!NoRequest, R!None,
       RP!None, R!NoName, RP!NoName, R!health, RP!health, R!Request,
       RP!Request

LEMMA SameNext == R!Next = RP!Next
BY DEF R!Next, RP!Next, R!StrategyKinds, RP!StrategyKinds, R!Announce,
       RP!Announce, R!CallStep, RP!CallStep, R!DeployLoop, RP!DeployLoop,
       R!HealthLoop, RP!HealthLoop, R!StartCronJob, RP!StartCronJob,
       R!Teardown, RP!Teardown, R!User, RP!User, R!FaultStep, RP!FaultStep,
       R!calls, RP!calls, R!health, RP!health, R!Retire, RP!Retire, R!Insert,
       RP!Insert, R!StartContainer, RP!StartContainer, R!Record, RP!Record,
       R!StartFromEvent, RP!StartFromEvent, R!SkipEvent, RP!SkipEvent,
       R!ListDesired, RP!ListDesired, R!Restart, RP!Restart, R!Confirm,
       RP!Confirm, R!ReadForPatch, RP!ReadForPatch, R!Patch, RP!Patch,
       R!StartCall, RP!StartCall, R!Request, RP!Request, R!None, RP!None,
       R!Deploys, RP!Deploys, R!FindByDeploymentID, RP!FindByDeploymentID,
       R!StopByDeployment, RP!StopByDeployment, R!UserCreate, RP!UserCreate,
       R!UserCreateStopped, RP!UserCreateStopped, R!Instances, RP!Instances,
       R!UserStart, RP!UserStart, R!UserStop, RP!UserStop, R!UserStopped,
       RP!UserStopped, R!Abandon, RP!Abandon, R!AbandonTeardown,
       RP!AbandonTeardown, R!ContainerExits, RP!ContainerExits, R!EngineStop,
       RP!EngineStop, R!Save, RP!Save, R!Stopped, RP!Stopped, R!NoRow,
       RP!NoRow, R!Done, RP!Done, R!world, RP!world, R!NewRow, RP!NewRow,
       R!NextId, RP!NextId, R!ContainerName, RP!ContainerName, R!Others,
       RP!Others, R!NextEvent, RP!NextEvent, R!Present, RP!Present,
       R!Unhealthy, RP!Unhealthy, R!FindActiveByProject,
       RP!FindActiveByProject, R!Room, RP!Room, R!Newest, RP!Newest,
       R!UserRequest, RP!UserRequest, R!NoRequest, RP!NoRequest,
       R!Cardinality, RP!Cardinality, R!Starting, RP!Starting, R!NoName,
       RP!NoName, R!Green, RP!Green, R!Blue, RP!Blue

LEMMA SameVars == R!vars = RP!vars
BY DEF R!vars, RP!vars, R!world, RP!world, R!calls, RP!calls, R!health,
       RP!health

LEMMA SameRunning == R!OnlyReleasesRun = RP!OnlyReleasesRun
BY DEF R!OnlyReleasesRun, RP!OnlyReleasesRun, R!None, RP!None

LEMMA SameServes == R!LastReleaseServes = RP!LastReleaseServes
BY DEF R!LastReleaseServes, RP!LastReleaseServes, R!NoFailedFlip,
       RP!NoFailedFlip, R!ProductionReleases, RP!ProductionReleases,
       R!Serving, RP!Serving, R!Instances, RP!Instances, R!NeverStarted,
       RP!NeverStarted, R!Present, RP!Present

LEMMA SameStep == [R!Next]_(R!vars) <=> [RP!Next]_(RP!vars)
<1>1. R!vars' = R!vars <=> RP!vars' = RP!vars
  BY DEF R!vars, RP!vars, R!world, RP!world, R!calls, RP!calls, R!health,
         RP!health
<1>2. QED
  BY <1>1, SameNext

LEMMA SameAssumption == RP!RuntimeAssumption
BY PlatformAssumption DEF PlatformAssumption, R!RuntimeAssumption, RP!RuntimeAssumption,
   R!CallerKinds, RP!CallerKinds, R!StrategyKinds, RP!StrategyKinds,
   R!FaultKinds, RP!FaultKinds

LEMMA SameSpec == R!Spec => RP!Spec
<1>1. R!Init => RP!Init
  BY SameInit
<1>2. [R!Next]_(R!vars) => [RP!Next]_(RP!vars)
  BY SameStep
<1>3. QED
  BY <1>1, <1>2, PTL DEF R!Spec, RP!Spec

LEMMA SameStill == UNCHANGED R!vars <=> UNCHANGED runtime
BY DEF R!vars, R!world, R!calls, R!health, runtime

-----------------------------------------------------------------------------
(* A step of the platform is a step of each half, or leaves it as it is    *)

LEMMA InsideStep ==
    ASSUME Inside
    PROVE  Next
BY DEF Inside, Next, DeployStep

LEMMA PublishStep ==
    ASSUME Publish
    PROVE  Next /\ R!Next
<1>1. Next
  BY DEF Publish, Next, DeployStep, JobStep
<1>2. R!Next
  <2>1. PICK t \in R!StrategyKinds :
           R!Announce(Verdict(events'[Len(events')].status),
                      Preview(events'[Len(events')].id), t)
    BY DEF Publish
  <2>2. /\ Verdict(events'[Len(events')].status) \in {"ready", "failed"}
        /\ Preview(events'[Len(events')].id) \in BOOLEAN
    BY DEF Verdict, Preview
  <2>3. QED
    BY <2>1, <2>2 DEF R!Next
<1>3. QED
  BY <1>1, <1>2

LEMMA TellStopStep ==
    ASSUME RP!IInv, NEW d \in Deploys, TellStop(d)
    PROVE  Next /\ (R!Next \/ UNCHANGED runtime)
<1>1. Next
  BY DEF TellStop, Next, DeployStep
<1>2. ASSUME NEW i \in Places(d), R!FindByDeploymentID(i)
      PROVE  R!Next
  <2>1. i \in 1 .. Len(log) /\ Len(log) <= MaxDeploys /\ Len(log) \in Nat
    BY <1>2 DEF R!FindByDeploymentID, RP!IInv, RP!TypeOK
  <2>2. i \in R!Deploys
    BY <2>1, PipelineAssumption DEF PipelineAssumption, R!Deploys
  <2>3. QED
    BY <1>2, <2>2 DEF R!Next, R!Teardown
<1>3. QED
  BY <1>1, <1>2 DEF TellStop

LEMMA RuntimeStepStep ==
    ASSUME RuntimeStep
    PROVE  R!Next /\ UNCHANGED vars
BY DEF RuntimeStep, R!Next, R!Teardown

LEMMA BothStep ==
    ASSUME RP!IInv, [PlatformNext]_platformVars
    PROVE  [Next]_vars /\ [R!Next]_(R!vars)
<1>1. CASE PipelineStep
  BY <1>1, InsideStep, SameStill DEF PipelineStep
<1>2. CASE Publish
  BY <1>2, PublishStep
<1>3. ASSUME NEW d \in Deploys, TellStop(d)
      PROVE  [Next]_vars /\ [R!Next]_(R!vars)
  BY <1>3, TellStopStep, SameStill
<1>4. CASE RuntimeStep
  BY <1>4, RuntimeStepStep
<1>5. CASE UNCHANGED platformVars
  BY <1>5, SameStill DEF platformVars
<1>6. QED
  BY <1>1, <1>2, <1>3, <1>4, <1>5 DEF PlatformNext

LEMMA RuntimeInv ==
    PlatformSpec => []RP!IInv
<1>1. PlatformInit => RP!IInv
  BY SameInit, SameAssumption, RP!IInvInit DEF PlatformInit
<1>2. RP!IInv /\ [PlatformNext]_platformVars => RP!IInv'
  BY BothStep, SameStep, SameAssumption, RP!IInvStep
<1>3. QED
  BY <1>1, <1>2, PTL DEF PlatformSpec

\* The platform is the pipeline and the runtime at once: what either
\* specification promises holds while they pass each other events and calls.
THEOREM PlatformImplementsComponents ==
    PlatformSpec => Spec /\ R!Spec
<1>1. PlatformInit => Init /\ R!Init
  BY DEF PlatformInit
<1>2. RP!IInv /\ [PlatformNext]_platformVars => [Next]_vars /\ [R!Next]_(R!vars)
  BY BothStep
<1>3. QED
  BY <1>1, <1>2, RuntimeInv, PTL DEF PlatformSpec, Spec, R!Spec

-----------------------------------------------------------------------------
(* What the scheduler reads is what was announced                          *)

\* Entry by entry, the scheduler's log is jp.deploy.
Linked ==
    /\ Len(log) = Len(events)
    /\ \A i \in 1 .. Len(events) :
          /\ log[i].status = Verdict(events[i].status)
          /\ log[i].preview = Preview(events[i].id)

\* Nobody but the pipeline appends to it.
LEMMA RuntimeReads ==
    ASSUME RuntimeStep
    PROVE  log' = log
BY DEF RuntimeStep, R!CallStep, R!DeployLoop, R!HealthLoop, R!StartCronJob,
       R!StopByDeployment, R!User, R!FaultStep, R!Retire, R!Insert,
       R!StartContainer, R!Record, R!StartFromEvent, R!SkipEvent,
       R!ListDesired, R!Restart, R!Confirm, R!ReadForPatch, R!Patch,
       R!UserCreate, R!UserCreateStopped, R!UserStart, R!UserStop,
       R!UserStopped, R!UserRequest, R!Abandon, R!AbandonTeardown,
       R!ContainerExits, R!world

\* A deployment that was announced has a row.
LEMMA AnnouncedExists ==
    ASSUME IInv, Delivery, NEW i \in 1 .. Len(events)
    PROVE  events[i].id \in Deploys /\ status[events[i].id] # "absent"
<1>1. events[i].id \in Deploys
  BY EventIds DEF IInv
<1>2. job[events[i].id] # "none" \/ pc[events[i].id] # "none"
  BY DEF Delivery, AnnouncedIsDone
<1>3. QED
  BY <1>1, <1>2 DEF IInv, Existing

\* So whether it is a preview does not change.
LEMMA AnnouncedKind ==
    ASSUME IInv, Delivery, [Next]_vars, NEW i \in 1 .. Len(events)
    PROVE  (branch'[events[i].id] \in PRs) = Preview(events[i].id)
<1>1. branch'[events[i].id] = branch[events[i].id]
  BY AnnouncedExists, RowStays DEF IInv
<1>2. QED
  BY <1>1 DEF Preview

LEMMA LinkedStep ==
    ASSUME IInv, Delivery, RP!IInv, Linked, [PlatformNext]_platformVars
    PROVE  Linked'
<1>1. [Next]_vars
  BY BothStep
<1>2. ASSUME events' = events, log' = log
      PROVE  Linked'
  BY <1>1, <1>2, AnnouncedKind DEF Linked, Preview
<1>3. CASE PipelineStep
  BY <1>2, <1>3 DEF PipelineStep, runtime
<1>4. CASE Publish
  <2> DEFINE e == events'[Len(events')]
  <2>1. PICK d, x : events' = Append(events, x)
    BY <1>4 DEF Publish, AnnounceRollback, TellDeploy, PublishDeploy
  <2>2. PICK t : log' = Append(log, [status |-> Verdict(e.status),
                                     preview |-> Preview(e.id), strategy |-> t])
    BY <1>4 DEF Publish, R!Announce
  <2>3. branch' = branch
    BY <1>4 DEF Publish, AnnounceRollback, TellDeploy, store, fixed
  <2>4. /\ Len(events') = Len(events) + 1
        /\ events'[Len(events) + 1] = e
        /\ \A i \in 1 .. Len(events) : events'[i] = events[i]
        /\ Len(events) \in Nat
    BY <2>1 DEF IInv, TypeOK
  <2>5. /\ Len(log') = Len(log) + 1
        /\ \A i \in 1 .. Len(log) : log'[i] = log[i]
        /\ log'[Len(log) + 1].status = Verdict(e.status)
        /\ log'[Len(log) + 1].preview = Preview(e.id)
    BY <2>2 DEF RP!IInv, RP!TypeOK
  <2> HIDE DEF e
  <2>6. ASSUME NEW i \in 1 .. Len(events')
        PROVE  /\ log'[i].status = Verdict(events'[i].status)
               /\ log'[i].preview = Preview(events'[i].id)
    <3>1. CASE i = Len(events) + 1
      BY <2>4, <2>5, <3>1 DEF Linked
    <3>2. CASE i \in 1 .. Len(events)
      <4>1. i \in 1 .. Len(log)
        BY <3>2 DEF Linked
      <4>2. events'[i] = events[i] /\ log'[i] = log[i]
        BY <2>4, <2>5, <3>2, <4>1
      <4>3. QED
        BY <3>2, <4>2 DEF Linked
    <3>3. QED
      BY <2>4, <3>1, <3>2
  <2>7. Len(log') = Len(events')
    BY <2>4, <2>5 DEF Linked
  <2>8. QED
    BY <2>3, <2>6, <2>7 DEF Linked, Verdict, Preview
<1>5. ASSUME NEW d \in Deploys, TellStop(d)
      PROVE  Linked'
  <2>1. events' = events
    BY <1>5 DEF TellStop, TeardownResources
  <2>2. log' = log
    BY <1>5 DEF TellStop, R!FindByDeploymentID, runtime
  <2>3. QED
    BY <1>2, <2>1, <2>2
<1>6. CASE RuntimeStep
  BY <1>2, <1>6, RuntimeReads, RuntimeStepStep DEF vars
<1>7. CASE UNCHANGED platformVars
  BY <1>2, <1>7 DEF platformVars, vars, runtime
<1>8. QED
  BY <1>3, <1>4, <1>5, <1>6, <1>7 DEF PlatformNext

PlatformInv == IInv /\ Delivery /\ RP!IInv /\ Linked

LEMMA PlatformInvariant == PlatformSpec => []PlatformInv
<1>1. PlatformInit => PlatformInv
  <2> SUFFICES ASSUME PlatformInit PROVE PlatformInv
    OBVIOUS
  <2>1. IInv /\ Delivery
    BY IInvInit, DeliveryInit DEF PlatformInit
  <2>2. RP!IInv
    BY SameInit, SameAssumption, RP!IInvInit DEF PlatformInit
  <2>3. Linked
    BY DEF PlatformInit, Init, R!Init, Linked
  <2>4. QED
    BY <2>1, <2>2, <2>3 DEF PlatformInv
<1>2. PlatformInv /\ [PlatformNext]_platformVars => PlatformInv'
  <2> SUFFICES ASSUME PlatformInv, [PlatformNext]_platformVars PROVE PlatformInv'
    OBVIOUS
  <2>1. [Next]_vars /\ [R!Next]_(R!vars)
    BY BothStep DEF PlatformInv
  <2>2. (IInv /\ Delivery)'
    BY <2>1, IInvStep, DeliveryStep DEF PlatformInv
  <2>3. RP!IInv'
    BY <2>1, SameStep, SameAssumption, RP!IInvStep DEF PlatformInv
  <2>4. Linked'
    BY LinkedStep DEF PlatformInv
  <2>5. QED
    BY <2>2, <2>3, <2>4 DEF PlatformInv
<1>3. QED
  BY <1>1, <1>2, PTL DEF PlatformSpec

-----------------------------------------------------------------------------
(* End to end                                                              *)

\* Nothing runs that was not built, from the push to the container: whatever
\* crashes, is lost, retried or restarted on either side of jp.deploy, the
\* image of a deployment's container is one that a worker made.
THEOREM NothingUnbuiltRuns == PlatformSpec => []RunningWasBuilt
<1>1. PlatformSpec => []R!OnlyReleasesRun
  <2>1. RP!Spec => []RP!OnlyReleasesRun
    BY SameAssumption, RP!ReleasesOnly
  <2>2. RP!OnlyReleasesRun => R!OnlyReleasesRun
    BY SameRunning
  <2>3. QED
    BY <2>1, <2>2, SameSpec, PlatformImplementsComponents, PTL
<1>2. PlatformInv /\ R!OnlyReleasesRun => RunningWasBuilt
  <2> SUFFICES ASSUME PlatformInv, R!OnlyReleasesRun, NEW k \in up,
                      instances[k.inst].dep # None
               PROVE  LET i == instances[k.inst].dep IN
                      /\ i \in DOMAIN events
                      /\ events[i].status = "ready"
                      /\ events[i].image \in Made
    BY DEF RunningWasBuilt
  <2> DEFINE i == instances[k.inst].dep
  <2>1. i <= cursor /\ log[i].status = "ready"
    BY DEF R!OnlyReleasesRun, R!None, None
  <2>2. i \in 1 .. MaxDeploys
    <3>1. k.inst \in RP!Instances /\ instances \in [RP!Instances -> RP!Row]
      BY DEF PlatformInv, RP!IInv, RP!TypeOK
    <3>2. instances[k.inst] \in RP!Row
      BY <3>1
    <3>3. QED
      BY <3>2 DEF RP!Row, RP!Deploys, RP!None, None
  <2>3. cursor <= Len(events) /\ events \in Seq([id : Deploys, status : Statuses,
                                                image : Tags \cup {NoImage}])
    BY DEF PlatformInv, Linked, RP!IInv, RP!TypeOK, IInv, TypeOK
  <2>4. i \in 1 .. Len(events)
    <3>1. cursor \in Nat /\ Len(events) \in Nat /\ MaxDeploys \in Nat
      BY <2>3, PipelineAssumption
         DEF PipelineAssumption, PlatformInv, RP!IInv, RP!TypeOK
    <3>2. QED
      BY <2>1, <2>2, <2>3, <3>1
  <2>5. events[i].status = "ready"
    BY <2>1, <2>4 DEF PlatformInv, Linked, Verdict
  <2>6. QED
    BY <2>3, <2>4, <2>5 DEF PlatformInv, IInv, ReadyWasBuilt
<1>3. QED
  BY <1>1, <1>2, PlatformInvariant, PTL

LEMMA Greatest ==
    ASSUME NEW n \in Nat, NEW S \in SUBSET (1 .. n), S # {}
    PROVE  \E x \in S : \A y \in S : y <= x
<1> DEFINE Gaps == {n - x : x \in S}
<1>1. Gaps \in SUBSET Nat /\ Gaps # {}
  <2>1. \A x \in S : n - x \in Nat
    OBVIOUS
  <2>2. QED
    BY <2>1
<1>2. PICK g \in Gaps : \A h \in Gaps : g <= h
  <2> HIDE DEF Gaps
  <2>1. QED
    BY <1>1, SameAssumption, RP!Least
<1>3. PICK x \in S : g = n - x
  BY <1>2
<1>4. \A y \in S : g <= n - y
  BY <1>2
<1>5. QED
  BY <1>3, <1>4

\* The last release announced and read is what production runs: the rows,
\* names and containers of the runtime are on the side of the deployment
\* service's branches and of its order of events, whatever fails up to
\* jp.deploy.  After that only starts may fail, and releases and teardowns
\* alone call the runtime (ReleasesAlone).
THEOREM ProductionRunsLastRelease ==
    ASSUME RP!ReleasesAlone
    PROVE  PlatformSpec => []ProductionIsLastRelease
<1>1. PlatformSpec => []R!LastReleaseServes
  <2>1. RP!Spec => []RP!LastReleaseServes
    BY SameAssumption, RP!LastReleaseIsServed
  <2>2. RP!LastReleaseServes => R!LastReleaseServes
    BY SameServes
  <2>3. QED
    BY <2>1, <2>2, SameSpec, PlatformImplementsComponents, PTL
<1>2. PlatformInv /\ R!LastReleaseServes => ProductionIsLastRelease
  <2> SUFFICES ASSUME PlatformInv, R!LastReleaseServes, R!NoFailedFlip,
                      step["deploy"] = "idle", NEW k \in R!Serving,
                      NEW i \in ProductionPlaces
               PROVE  i <= instances[k.inst].dep
    BY DEF ProductionIsLastRelease
  <2> DEFINE last == CHOOSE d \in R!ProductionReleases :
                        \A e \in R!ProductionReleases : e <= d
  <2>1. cursor \in Nat /\ cursor <= Len(events) /\ Len(events) \in Nat
    BY DEF PlatformInv, Linked, RP!IInv, RP!TypeOK, IInv, TypeOK
  <2>2. i \in 1 .. Len(events) /\ i \in 1 .. cursor
    BY <2>1 DEF ProductionPlaces
  <2>3. ~Preview(events[i].id)
    BY PipelineAssumption DEF PipelineAssumption, ProductionPlaces, Preview
  <2>4. log[i].status = "ready" /\ ~log[i].preview
    BY <2>2, <2>3 DEF ProductionPlaces, PlatformInv, Linked, Verdict
  <2>5. i \in R!ProductionReleases
    BY <2>2, <2>4 DEF R!ProductionReleases
  <2>6. instances[k.inst].dep = last
    BY <2>5 DEF R!LastReleaseServes
  <2>7. \A e \in R!ProductionReleases : e <= last
    <3>1. R!ProductionReleases \subseteq 1 .. cursor
      BY DEF R!ProductionReleases
    <3>2. \E d \in R!ProductionReleases : \A e \in R!ProductionReleases : e <= d
      BY <2>1, <2>5, <3>1, Greatest
    <3>3. QED
      BY <3>2
  <2>8. QED
    BY <2>5, <2>6, <2>7
<1>3. QED
  BY <1>1, <1>2, PlatformInvariant, PTL

=============================================================================
