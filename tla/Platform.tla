------------------------------ MODULE Platform ------------------------------
(***************************************************************************)
(* The path of a release from end to end: DeployPipeline and               *)
(* RuntimeControl on either side of jp.deploy and of the call that tears a *)
(* preview down.  They take two steps together,                            *)
(*                                                                         *)
(*   Publish    publishDeploy appends an event, which is what the          *)
(*              scheduler's loop will read, and                            *)
(*   TellStop   teardownResources calls stop-by-deployment,                *)
(*                                                                         *)
(* and all others apart.  The runtime knows a deployment by the place of   *)
(* its event on jp.deploy.                                                 *)
(***************************************************************************)
EXTENDS DeployPipeline

CONSTANTS MaxInstances, MaxStarts, MaxRequests, Strategies, PreviewStrategies,
          Callers, RuntimeFaults

VARIABLES log, cursor, crons, uses, instances, up, started, step, req, prev,
          cur, listed, checking, report, dying

R == INSTANCE RuntimeControl
     WITH Kinds <- BOOLEAN, Faults <- RuntimeFaults, row <- instances

runtime == <<log, cursor, crons, uses, instances, up, started, step, req, prev,
             cur, listed, checking, report, dying>>

ASSUME PlatformAssumption == R!RuntimeAssumption

PlatformInit == Init /\ R!Init

\* Mutant: only a failed deployment is passed over.
VerdictUnlessFailed(s) == IF s = "failed" THEN "failed" ELSE "ready"

\* startFromEvent passes over every event that does not say ready.
Verdict(s) == IF s = "ready" THEN "ready" ELSE "failed"

\* What publishDeploy appends is what the scheduler's loop will read.  The
\* strategy is the deployment's, which DeployPipeline has no use for.
Publish ==
    LET e == events'[Len(events')] IN
    /\ \E d \in Deploys : AnnounceRollback(d) \/ TellDeploy(d)
    /\ events' # events
    /\ \E strategy \in R!StrategyKinds :
          R!Announce(Verdict(e.status), Preview(e.id), strategy)

Places(d) == {i \in DOMAIN events : events[i].id = d}

\* stop-by-deployment finds the rows of the deployment.  It has none unless
\* it was announced, and the call may be lost.
TellStop(d) ==
    /\ TeardownResources(d)
    /\ \/ /\ stops' = stops \cup {d}
          /\ \E i \in Places(d) : R!FindByDeploymentID(i)
       \/ /\ Places(d) = {} \/ ("http" \in Faults /\ stops' = stops)
          /\ UNCHANGED runtime

\* Steps of the pipeline that neither publish an event nor call the runtime.
Inside ==
    \/ Requests
    \/ \E d \in Deploys :
          \/ InsertBuild(d) \/ PublishJob(d) \/ FailUnqueuedBuild(d)
          \/ MarkBuilding(d) \/ MarkRefused(d) \/ PostRefused(d)
          \/ CreateRollback(d) \/ AnnounceRollback(d) \/ ClosePreview(d)
          \/ JobStep(d)
    \/ \E w \in Workers : ReadGroup(w) \/ StartJob(w)
    \/ FaultStep

PipelineStep == UNCHANGED events /\ Inside /\ UNCHANGED runtime

\* Steps of the runtime and its callers.
RuntimeStep ==
    /\ \/ \E c \in Callers : R!CallStep(c)
       \/ R!DeployLoop \/ R!HealthLoop \/ R!StartCronJob \/ R!StopByDeployment
       \/ R!User \/ R!FaultStep
    /\ UNCHANGED vars

PlatformNext ==
    \/ PipelineStep
    \/ Publish
    \/ \E d \in Deploys : TellStop(d)
    \/ RuntimeStep

platformVars == <<vars, runtime>>

PlatformSpec == PlatformInit /\ [][PlatformNext]_platformVars

-----------------------------------------------------------------------------
(* Properties                                                              *)

\* Nothing runs that was not built: every container of a deployment, however
\* it came to be started, is there because of an event that said ready, and
\* the image of that event was built by a worker.
RunningWasBuilt ==
    \A k \in up : LET i == instances[k.inst].dep IN
        i # None => /\ i \in DOMAIN events
                    /\ events[i].status = "ready"
                    /\ events[i].image \in Made

ProductionPlaces ==
    {i \in 1 .. cursor : events[i].status = "ready" /\ branch[events[i].id] = Main}

\* Between two releases production is the last one announced that the
\* scheduler has read, be it a deployment or a rollback, whatever has become
\* of the previews (with the exception RuntimeControl names, NoFailedFlip).
ProductionIsLastRelease ==
    (R!NoFailedFlip /\ step["deploy"] = "idle") =>
        \A k \in R!Serving, i \in ProductionPlaces : i <= instances[k.inst].dep

=============================================================================
