--------------------------- MODULE DeployPipeline ---------------------------
(***************************************************************************)
(* From a push or an API call to the `deploy.updated' event the scheduler  *)
(* acts on: the deployment service, the build service, the build workers   *)
(* and the two Redis streams between them.                                 *)
(*                                                                         *)
(*   deployment --HTTP--> build --jp.build--> worker --HTTP--> build       *)
(*        ^                                      |                         *)
(*        +---------------HTTP-------------------+                         *)
(*        +--jp.deploy--> (scheduler: module RuntimeControl)               *)
(*                                                                         *)
(* Deployment ids are 1, 2, ... in the order of `created_at'.  A           *)
(* deployment queues at most one build, so a build goes by the id of the   *)
(* deployment it was queued for.  An image is named by the tag its git     *)
(* sha shortens to; every commit-less ("HEAD") build has the same tag.     *)
(* The row's commit_status and build_id decide nothing here and are left   *)
(* out; `posted' is what GitHub was last told for the deployment.          *)
(***************************************************************************)
EXTENDS Naturals, Sequences, FiniteSets

CONSTANTS MaxDeploys,   \* how many deployment rows a behaviour creates
          Workers,      \* the worker processes (--scale worker=N)
          Concurrency,  \* WORKER_CONCURRENCY, the builds one process runs
          Tags,         \* the tags an image can get
          PRs,          \* the pull requests with previews ("preview/pr-N")
          Main,         \* the production branch
          NoImage,      \* an empty image_ref
          MaxBuilds,    \* how many of the rows are built, not rolled back to
          Triggers,     \* the requests that may come
          Faults        \* the faults that may happen

Deploys == 1 .. MaxDeploys
None    == 0            \* a NULL rollback_of, an unpushed tag, no runner

FaultKinds == {"worker_crash",   \* a worker process is killed or restarted
               "dep_crash",      \* a deployment handler dies half way
               "db",             \* an ignored UPDATE error
               "http",           \* a call is refused or its answer is lost
               "redis"}          \* an XADD fails or its answer is lost

TriggerKinds == {"create", "rollback", "close", "expire"}

ASSUME PipelineAssumption ==
    /\ MaxDeploys \in Nat
    /\ MaxBuilds \in Nat
    /\ Concurrency \in Nat \ {0}
    /\ None \notin Workers
    /\ Main \notin PRs
    /\ NoImage \notin Tags
    /\ Triggers \subseteq TriggerKinds
    /\ Faults \subseteq FaultKinds

VARIABLES
    status, image, rollbackOf, branch, tag,  \* table deployments
    target,    \* the row a rollback request has read and not yet copied
    pc,        \* the request that created the row: where it has got to
    posted,    \* GitHub's commit status
    bld,       \* table builds: the status column
    jobs,      \* jp.build: the entries no worker has read
    batch,     \* the entries a worker's loop has read but not started
    job,       \* the goroutine of a build
    runner,    \* the worker it runs in
    built,     \* the builds whose image exists
    images,    \* registry-api: the tags it was ever told of
    outcomes,  \* the build.succeeded and build.failed events on jp.deploy
    events,    \* the deploy.updated events on jp.deploy
    closing,   \* the rows a preview teardown has still to fail
    stopping,  \* the rows whose resources a teardown has still to remove
    stops      \* the deployments runtime was told to stop

row   == <<status, image>>
fixed == <<rollbackOf, branch, tag, target>>
store == <<row, fixed>>
queue == <<jobs, batch>>
work  == <<job, runner, built, images, outcomes>>
tear  == <<closing, stopping, stops>>
vars  == <<store, pc, posted, bld, queue, work, events, tear>>

Statuses == {"absent", "queued", "building", "ready", "failed"}
Active   == {"ready", "queued", "building"}
Preview(d) == branch[d] \in PRs

TypeOK ==
    /\ status     \in [Deploys -> Statuses]
    /\ image      \in [Deploys -> Tags \cup {NoImage}]
    /\ rollbackOf \in [Deploys -> Deploys \cup {None}]
    /\ branch     \in [Deploys -> PRs \cup {Main}]
    /\ tag        \in [Deploys -> Tags \cup {NoImage}]
    /\ target     \in Deploys \cup {None}
    /\ pc         \in [Deploys -> {"none", "enqueue", "publish", "pubfail",
                                   "accepted", "refused", "unposted", "announce",
                                   "done"}]
    /\ posted     \in [Deploys -> {"none", "pending", "success", "failure"}]
    /\ bld        \in [Deploys -> {"absent", "queued", "running", "succeeded",
                                   "failed"}]
    /\ jobs       \in Seq(Deploys)
    /\ batch      \in [Workers -> Seq(Deploys)]
    /\ job        \in [Deploys -> {"none", "running", "built", "broken",
                                   "reported", "registered", "failing",
                                   "tellReady", "tellFailed", "done", "lost"}]
    /\ runner     \in [Deploys -> Workers \cup {None}]
    /\ built      \in SUBSET Deploys
    /\ images     \in SUBSET (Tags \cup {NoImage})
    /\ outcomes   \in SUBSET (Deploys \X {"succeeded", "failed"})
    /\ events     \in Seq([id : Deploys, status : Statuses,
                           image : Tags \cup {NoImage}])
    /\ closing    \in SUBSET Deploys
    /\ stopping   \in SUBSET Deploys
    /\ stops      \in SUBSET Deploys

Init ==
    /\ status     = [d \in Deploys |-> "absent"]
    /\ image      = [d \in Deploys |-> NoImage]
    /\ rollbackOf = [d \in Deploys |-> None]
    /\ branch     = [d \in Deploys |-> Main]
    /\ tag        = [d \in Deploys |-> NoImage]
    /\ target     = None
    /\ pc         = [d \in Deploys |-> "none"]
    /\ posted     = [d \in Deploys |-> "none"]
    /\ bld        = [d \in Deploys |-> "absent"]
    /\ jobs       = <<>>
    /\ batch      = [w \in Workers |-> <<>>]
    /\ job        = [d \in Deploys |-> "none"]
    /\ runner     = [d \in Deploys |-> None]
    /\ built      = {}
    /\ images     = {}
    /\ outcomes   = {}
    /\ events     = <<>>
    /\ closing    = {}
    /\ stopping   = {}
    /\ stops      = {}

-----------------------------------------------------------------------------
(* The deployment store and the event it publishes.                        *)

Fresh(d) == /\ status[d] = "absent"
            /\ \A e \in 1 .. d - 1 : status[e] # "absent"

\* An UPDATE with no condition on the old status; an empty image_ref keeps
\* the old value.
UpdateStatus(d, s, i) ==
    /\ status' = [status EXCEPT ![d] = s]
    /\ image'  = IF i = NoImage THEN image ELSE [image EXCEPT ![d] = i]

\* The error of the XADD is dropped.
PublishDeploy(d, s, i) ==
    \/ events' = Append(events, [id |-> d, status |-> s, image |-> i])
    \/ "redis" \in Faults /\ UNCHANGED events

-----------------------------------------------------------------------------
(* Creating a deployment: insert, tell GitHub, queue a build, record it.   *)

\* Create (API) and FromGit (push and pull request webhooks).
Create(d, b, t) ==
    /\ "create" \in Triggers
    /\ Fresh(d)
    /\ Cardinality({e \in 1 .. d - 1 : rollbackOf[e] = None}) < MaxBuilds
    /\ status' = [status EXCEPT ![d] = "queued"]
    /\ branch' = [branch EXCEPT ![d] = b]
    /\ tag'    = [tag EXCEPT ![d] = t]
    /\ posted' = [posted EXCEPT ![d] = "pending"]
    /\ pc'     = [pc EXCEPT ![d] = "enqueue"]
    /\ UNCHANGED <<image, rollbackOf, target, bld, queue, work, events, tear>>

\* The build service inserts the build row ...
InsertBuild(d) ==
    /\ pc[d] = "enqueue"
    /\ pc'  = [pc EXCEPT ![d] = "publish"]
    /\ bld' = [bld EXCEPT ![d] = "queued"]
    /\ UNCHANGED <<store, posted, queue, work, events, tear>>

\* ... and puts the job on jp.build.
PublishJob(d) ==
    /\ pc[d] = "publish"
    /\ pc'   = [pc EXCEPT ![d] = "accepted"]
    /\ jobs' = Append(jobs, d)
    /\ UNCHANGED <<store, posted, bld, batch, work, events, tear>>

\* The XADD returns an error, although the entry may have been added.
PublishJobError(d) ==
    /\ "redis" \in Faults
    /\ pc[d] = "publish"
    /\ pc' = [pc EXCEPT ![d] = "pubfail"]
    /\ jobs' \in {jobs, Append(jobs, d)}
    /\ UNCHANGED <<store, posted, bld, batch, work, events, tear>>

FailUnqueuedBuild(d) ==
    /\ pc[d] = "pubfail"
    /\ pc'  = [pc EXCEPT ![d] = "refused"]
    /\ bld' = [bld EXCEPT ![d] = "failed"]
    /\ UNCHANGED <<store, posted, queue, work, events, tear>>

\* enqueueBuild gives up: the build service is down, or its answer does not
\* come within the client's timeout.  Its handler's context is cancelled, so
\* it writes nothing more, but what it has written stays.
EnqueueTimeout(d) ==
    /\ "http" \in Faults
    /\ pc[d] \in {"enqueue", "publish", "pubfail", "accepted"}
    /\ pc' = [pc EXCEPT ![d] = "refused"]
    /\ UNCHANGED <<store, posted, bld, queue, work, events, tear>>

\* Mutant: the handler also tells GitHub that the build is pending.
MarkBuildingPosts(d) ==
    /\ pc[d] = "accepted"
    /\ pc'     = [pc EXCEPT ![d] = "done"]
    /\ posted' = [posted EXCEPT ![d] = "pending"]
    /\ UpdateStatus(d, "building", NoImage)
    /\ UNCHANGED <<fixed, bld, queue, work, events, tear>>

\* startBuild's second half: the build is queued and may already be running.
MarkBuilding(d) ==
    /\ pc[d] = "accepted"
    /\ pc' = [pc EXCEPT ![d] = "done"]
    /\ \/ UpdateStatus(d, "building", NoImage)
       \/ "db" \in Faults /\ UNCHANGED row
    /\ UNCHANGED <<fixed, posted, bld, queue, work, events, tear>>

\* Mutant: the refusal is announced, as a worker's failure would be.
MarkRefusedPublishes(d) ==
    /\ pc[d] = "refused"
    /\ pc' = [pc EXCEPT ![d] = "unposted"]
    /\ UpdateStatus(d, "failed", NoImage)
    /\ PublishDeploy(d, "failed", NoImage)
    /\ UNCHANGED <<fixed, posted, bld, queue, work, tear>>

\* No build, as far as the handler knows: the row, then GitHub; no event.
MarkRefused(d) ==
    /\ pc[d] = "refused"
    /\ pc' = [pc EXCEPT ![d] = "unposted"]
    /\ \/ UpdateStatus(d, "failed", NoImage)
       \/ "db" \in Faults /\ UNCHANGED row
    /\ UNCHANGED <<fixed, posted, bld, queue, work, events, tear>>

PostRefused(d) ==
    /\ pc[d] = "unposted"
    /\ pc'     = [pc EXCEPT ![d] = "done"]
    /\ posted' = [posted EXCEPT ![d] = "failure"]
    /\ UNCHANGED <<store, bld, queue, work, events, tear>>

\* The deployment service dies while it serves the request.
HandlerDies(d) ==
    /\ "dep_crash" \in Faults
    /\ pc[d] \in {"enqueue", "accepted", "refused", "unposted", "announce"}
    /\ pc' = [pc EXCEPT ![d] = "done"]
    /\ UNCHANGED <<store, posted, bld, queue, work, events, tear>>

-----------------------------------------------------------------------------
(* Rolling back: a new row that is ready from the start, and its event.    *)

Rollbackable == {t \in Deploys : status[t] = "ready" /\ image[t] # NoImage}

LatestSuccessful(t) == t \in Rollbackable /\ \A u \in Rollbackable : u <= t

\* The row to copy is read first; what becomes of it before the insert goes
\* unnoticed.  One rollback request is in flight at a time.
ReadTarget(t) ==
    /\ "rollback" \in Triggers
    /\ target  = None
    /\ \E d \in Deploys : status[d] = "absent"
    /\ target' = t
    /\ UNCHANGED <<row, rollbackOf, branch, tag, pc, posted, bld, queue, work,
                   events, tear>>

Rollback == \E t \in Deploys : LatestSuccessful(t) /\ ReadTarget(t)

RollbackTo(t) == t \in Rollbackable /\ ReadTarget(t)

CreateRollback(r) ==
    /\ target # None
    /\ Fresh(r)
    /\ target'     = None
    /\ status'     = [status EXCEPT ![r] = "ready"]
    /\ image'      = [image EXCEPT ![r] = image[target]]
    /\ rollbackOf' = [rollbackOf EXCEPT ![r] = target]
    /\ branch'     = [branch EXCEPT ![r] = branch[target]]
    /\ tag'        = [tag EXCEPT ![r] = tag[target]]
    /\ posted'     = [posted EXCEPT ![r] = "success"]
    /\ pc'         = [pc EXCEPT ![r] = "announce"]
    /\ UNCHANGED <<bld, queue, work, events, tear>>

\* The handler dies, or the insert fails.
DropTarget ==
    /\ {"dep_crash", "db"} \cap Faults # {}
    /\ target # None
    /\ target' = None
    /\ UNCHANGED <<row, rollbackOf, branch, tag, pc, posted, bld, queue, work,
                   events, tear>>

\* The event is made from the struct in memory, not from the row.
AnnounceRollback(r) ==
    /\ pc[r] = "announce"
    /\ pc' = [pc EXCEPT ![r] = "done"]
    /\ PublishDeploy(r, "ready", image[r])
    /\ UNCHANGED <<store, posted, bld, queue, work, tear>>

-----------------------------------------------------------------------------
(* A worker: one loop that reads jp.build, one goroutine per build.        *)

RunningIn(w) == {d \in Deploys : runner[d] = w}

\* Mutant: the cursor is left on the last entry read.
ReadGroupAgain(w) ==
    LET n == IF Len(jobs) < Concurrency THEN Len(jobs) ELSE Concurrency IN
    /\ batch[w] = <<>>
    /\ jobs # <<>>
    /\ batch' = [batch EXCEPT ![w] = SubSeq(jobs, 1, n)]
    /\ jobs'  = SubSeq(jobs, n, Len(jobs))
    /\ UNCHANGED <<store, pc, posted, bld, work, events, tear>>

\* XREADGROUP ">" COUNT Concurrency.  The loop reads again only when it has
\* started everything it read.
ReadGroup(w) ==
    LET n == IF Len(jobs) < Concurrency THEN Len(jobs) ELSE Concurrency IN
    /\ batch[w] = <<>>
    /\ jobs # <<>>
    /\ batch' = [batch EXCEPT ![w] = SubSeq(jobs, 1, n)]
    /\ jobs'  = SubSeq(jobs, n + 1, Len(jobs))
    /\ UNCHANGED <<store, pc, posted, bld, work, events, tear>>

\* Mutant: the worker uses the deployment's word for a build that runs.
PatchBuildWords(d, s) ==
    bld' = [bld EXCEPT ![d] = IF s = "running" THEN "building" ELSE s]

\* AppendUpdate has no condition on the old status either.  The worker
\* ignores the error of the call.
PatchBuild(d, s) ==
    \/ bld' = [bld EXCEPT ![d] = s]
    \/ "http" \in Faults /\ UNCHANGED bld

\* Acquire the semaphore, start the goroutine, report "running".
StartJob(w) ==
    LET d == Head(batch[w]) IN
    /\ batch[w] # <<>>
    /\ Cardinality(RunningIn(w)) < Concurrency
    /\ batch'  = [batch EXCEPT ![w] = Tail(@)]
    /\ job'    = [job EXCEPT ![d] = "running"]
    /\ runner' = [runner EXCEPT ![d] = w]
    /\ PatchBuild(d, "running")
    /\ UNCHANGED <<store, pc, posted, jobs, built, images, outcomes,
                   events, tear>>

\* Mutant: a failed docker build is logged and passed over, like a failed push.
BuildImageAnyway(d) ==
    /\ job[d] = "running"
    /\ PatchBuild(d, "running")
    /\ job' = [job EXCEPT ![d] = "built"]
    /\ built' \in {built, built \cup {d}}
    /\ UNCHANGED <<store, pc, posted, queue, runner, images, outcomes, events,
                   tear>>

\* Clone, docker build, docker push.  The status is reported as "running"
\* all along; a failed push is logged and the tag recorded anyway.
BuildImage(d) ==
    /\ job[d] = "running"
    /\ PatchBuild(d, "running")
    /\ \/ /\ job'   = [job EXCEPT ![d] = "built"]
          /\ built' = built \cup {d}
       \/ /\ job' = [job EXCEPT ![d] = "broken"]
          /\ UNCHANGED built
    /\ UNCHANGED <<store, pc, posted, queue, runner, images, outcomes, events,
                   tear>>

\* Mutant: the deployment is reported before the image is registered.
ReportBuildFirst(d) ==
    LET ok == job[d] = "built"
        s  == IF ok THEN "succeeded" ELSE "failed" IN
    /\ job[d] \in {"built", "broken"}
    /\ job' = [job EXCEPT ![d] = IF ok THEN "registered" ELSE "failing"]
    /\ bld' = [bld EXCEPT ![d] = s]
    /\ outcomes' = outcomes \cup {<<d, s>>}
    /\ UNCHANGED <<store, pc, posted, queue, runner, built, images,
                   events, tear>>

\* The build service's InternalStatus: the row, then its outcome event.
ReportBuild(d) ==
    LET ok == job[d] = "built"
        s  == IF ok THEN "succeeded" ELSE "failed" IN
    /\ job[d] \in {"built", "broken"}
    /\ job' = [job EXCEPT ![d] = IF ok THEN "reported" ELSE "failing"]
    /\ \/ /\ bld' = [bld EXCEPT ![d] = s]
          /\ \/ outcomes' = outcomes \cup {<<d, s>>}
             \/ "redis" \in Faults /\ UNCHANGED outcomes
       \/ "http" \in Faults /\ UNCHANGED <<bld, outcomes>>
    /\ UNCHANGED <<store, pc, posted, queue, runner, built, images,
                   events, tear>>

RegisterImage(d) ==
    /\ job[d] = "reported"
    /\ job' = [job EXCEPT ![d] = "registered"]
    /\ \/ images' = images \cup {tag[d]}
       \/ "http" \in Faults /\ UNCHANGED images
    /\ UNCHANGED <<store, pc, posted, bld, queue, runner, built,
                   outcomes, events, tear>>

\* InternalUpdateStatus, first half: the row.
UpdateDeploy(d) ==
    /\ \/ /\ job[d] = "registered"
          /\ job' = [job EXCEPT ![d] = "tellReady"]
          /\ UpdateStatus(d, "ready", tag[d])
       \/ /\ job[d] = "failing"
          /\ job' = [job EXCEPT ![d] = "tellFailed"]
          /\ UpdateStatus(d, "failed", NoImage)
    /\ UNCHANGED <<fixed, pc, posted, bld, queue, runner, built,
                   images, outcomes, events, tear>>

\* Mutant: the semaphore's slot is not released.
TellDeployLeaks(d) ==
    /\ job[d] \in {"tellReady", "tellFailed"}
    /\ posted' = [posted EXCEPT ![d] = IF job[d] = "tellReady" THEN "success"
                                                               ELSE "failure"]
    /\ PublishDeploy(d, status[d], image[d])
    /\ job' = [job EXCEPT ![d] = "done"]
    /\ UNCHANGED <<store, pc, bld, queue, runner, built, images,
                   outcomes, tear>>

\* Second half: the row is read back, GitHub is told what the request said,
\* the event carries what the row says now.  The worker then acknowledges.
TellDeploy(d) ==
    /\ job[d] \in {"tellReady", "tellFailed"}
    /\ posted' = [posted EXCEPT ![d] = IF job[d] = "tellReady" THEN "success"
                                                               ELSE "failure"]
    /\ PublishDeploy(d, status[d], image[d])
    /\ job'    = [job EXCEPT ![d] = "done"]
    /\ runner' = [runner EXCEPT ![d] = None]
    /\ UNCHANGED <<store, pc, bld, queue, built, images, outcomes,
                   tear>>

\* The call never reaches the row, or the handler dies after the row.  The
\* worker ignores the error, acknowledges and forgets the build.
ReportLost(d) ==
    /\ \/ "http" \in Faults /\ job[d] \in {"registered", "failing"}
       \/ /\ "dep_crash" \in Faults \/ runner[d] = None
          /\ job[d] \in {"tellReady", "tellFailed"}
    /\ job'    = [job EXCEPT ![d] = "lost"]
    /\ runner' = [runner EXCEPT ![d] = None]
    /\ UNCHANGED <<store, pc, posted, bld, queue, built, images,
                   outcomes, events, tear>>

\* The process is killed, or told to stop: its context is cancelled and no
\* report gets out.  Entries it had read stay pending in the group for ever,
\* since nothing claims them.  A handler already past the row may go on or,
\* its client gone, give up (ReportLost).
WorkerCrash(w) ==
    LET InMemory == {batch[w][i] : i \in 1 .. Len(batch[w])}
        Cut(d) == \/ d \in InMemory
                  \/ runner[d] = w /\ job[d] \notin {"tellReady", "tellFailed"}
    IN
    /\ "worker_crash" \in Faults
    /\ batch'  = [batch EXCEPT ![w] = <<>>]
    /\ job'    = [d \in Deploys |-> IF Cut(d) THEN "lost" ELSE job[d]]
    /\ runner' = [d \in Deploys |-> IF runner[d] = w THEN None ELSE runner[d]]
    /\ UNCHANGED <<store, pc, posted, bld, jobs, built, images,
                   outcomes, events, tear>>

-----------------------------------------------------------------------------
(* Closing previews: on a closed pull request, and after PREVIEW_TTL.      *)

\* Mutant: the branch is missing from the query.
FindPreviewOfProject(b) ==
    /\ "close" \in Triggers
    /\ closing' = closing \cup {d \in Deploys : status[d] \in Active}
    /\ closing' # closing
    /\ UNCHANGED <<store, pc, posted, bld, queue, work, events, stopping,
                   stops>>

\* InternalPreviewTeardown lists the branch's active rows ...
FindPreviewByBranch(b) ==
    /\ "close" \in Triggers
    /\ closing' = closing \cup {d \in Deploys : branch[d] = b /\ status[d] \in Active}
    /\ closing' # closing
    /\ UNCHANGED <<store, pc, posted, bld, queue, work, events, stopping,
                   stops>>

\* Mutant: a row that a build has failed meanwhile is skipped.
ClosePreviewActive(d) ==
    /\ d \in closing
    /\ closing'  = closing \ {d}
    /\ stopping' = IF status[d] \in Active THEN stopping \cup {d} ELSE stopping
    /\ UpdateStatus(d, "failed", NoImage)
    /\ UNCHANGED <<fixed, pc, posted, bld, queue, work, events, stops>>

\* ... and fails them one by one, whatever became of them since.
ClosePreview(d) ==
    /\ d \in closing
    /\ closing'  = closing \ {d}
    /\ stopping' = stopping \cup {d}
    /\ UpdateStatus(d, "failed", NoImage)
    /\ UNCHANGED <<fixed, pc, posted, bld, queue, work, events, stops>>

\* CleanupPreview: one UPDATE fails every active preview older than cutoff.
ExpirePreviews(cutoff) ==
    LET old == {d \in 1 .. cutoff : Preview(d) /\ status[d] \in Active} IN
    /\ "expire" \in Triggers
    /\ old # {}
    /\ status'   = [d \in Deploys |-> IF d \in old THEN "failed" ELSE status[d]]
    /\ stopping' = stopping \cup old
    /\ UNCHANGED <<image, fixed, pc, posted, bld, queue, work, events,
                   closing, stops>>

\* teardownResources: stop-by-deployment and domain delete, errors ignored.
TeardownResources(d) ==
    /\ d \in stopping
    /\ stopping' = stopping \ {d}
    /\ \/ stops' = stops \cup {d}
       \/ "http" \in Faults /\ UNCHANGED stops
    /\ UNCHANGED <<store, pc, posted, bld, queue, work, events, closing>>

\* The teardown handler dies: the rows it did not reach are forgotten.
TeardownDies ==
    /\ "dep_crash" \in Faults
    /\ closing \cup stopping # {}
    /\ closing'  = {}
    /\ stopping' = {}
    /\ UNCHANGED <<store, pc, posted, bld, queue, work, events, stops>>

-----------------------------------------------------------------------------
Requests ==
    \/ \E d \in Deploys, b \in PRs \cup {Main}, t \in Tags : Create(d, b, t)
    \/ Rollback
    \/ \E t \in Deploys : RollbackTo(t)
    \/ \E b \in PRs : FindPreviewByBranch(b)
    \/ \E n \in Deploys : ExpirePreviews(n)

DeployStep(d) ==
    \/ InsertBuild(d) \/ PublishJob(d) \/ FailUnqueuedBuild(d)
    \/ MarkBuilding(d) \/ MarkRefused(d) \/ PostRefused(d)
    \/ CreateRollback(d) \/ AnnounceRollback(d)
    \/ ClosePreview(d) \/ TeardownResources(d)

JobStep(d) ==
    \/ BuildImage(d) \/ ReportBuild(d) \/ RegisterImage(d)
    \/ UpdateDeploy(d) \/ TellDeploy(d)

FaultStep ==
    \/ \E d \in Deploys : \/ PublishJobError(d) \/ EnqueueTimeout(d)
                          \/ HandlerDies(d) \/ ReportLost(d)
    \/ \E w \in Workers : WorkerCrash(w)
    \/ DropTarget
    \/ TeardownDies

Next ==
    \/ Requests
    \/ \E d \in Deploys : DeployStep(d) \/ JobStep(d)
    \/ \E w \in Workers : ReadGroup(w) \/ StartJob(w)
    \/ FaultStep

Spec == Init /\ [][Next]_vars

\* Handlers, loops and goroutines that can move do move; nobody has to
\* deploy, to roll back or to close a pull request, and no fault has to
\* happen.
Fairness ==
    /\ \A d \in Deploys : WF_vars(DeployStep(d)) /\ WF_vars(JobStep(d))
    /\ \A w \in Workers : WF_vars(ReadGroup(w)) /\ WF_vars(StartJob(w))

FairSpec == Spec /\ Fairness

-----------------------------------------------------------------------------
(* Safety                                                                  *)

Waiting(d) == {<<"jp.build", i>> : i \in {j \in 1 .. Len(jobs) : jobs[j] = d}}
              \cup {x \in Workers \X (1 .. MaxDeploys) :
                       x[2] <= Len(batch[x[1]]) /\ batch[x[1]][x[2]] = d}

\* A build is run at most once and has at most one outcome: its entry is in
\* one place at a time, on the stream or in one worker's memory, and it is
\* gone for good once a goroutine has it, whatever crashes (ReadGroup and
\* Ack of packages/events as the worker's loop uses them).
BuildsAtMostOnce ==
    \A d \in Deploys : /\ Cardinality(Waiting(d)) <= 1
                       /\ job[d] # "none" => Waiting(d) = {}
                       /\ ~({<<d, "succeeded">>, <<d, "failed">>} \subseteq outcomes)

Made == {tag[d] : d \in built}

\* Nothing is ever ready that was not built: neither a row, nor an event the
\* scheduler starts containers from, nor a commit GitHub shows as a success
\* (deployments, rollbacks and rollbacks of rollbacks alike).
ReadyWasBuilt ==
    /\ \A d \in Deploys : status[d] = "ready" => image[d] \in Made
    /\ \A i \in 1 .. Len(events) :
          events[i].status = "ready" => events[i].image \in Made
    /\ \A d \in Deploys : posted[d] = "success" => tag[d] \in Made

\* When no call is lost, a deployment is ready only after its image was
\* registered: the worker calls the registry before the deployment service,
\* and a rollback copies an image that went that way.
ReadyIsRegistered ==
    \A d \in Deploys : status[d] = "ready" => image[d] \in images

\* When no call is lost, the first verdict GitHub gets of a deployment is
\* the last: the creating handler, the worker's report and a rollback post
\* statuses without waiting for one another, and none takes back what
\* another has said.
PostedIsFinal ==
    [][\A d \in Deploys : posted[d] \in {"success", "failure"}
                             => posted'[d] = posted[d]]_vars

\* A production rollback is ready at once and stays so, whatever fails: no
\* late build report, no teardown that lists rows while they change and no
\* preview clean-up touches its row.
RollbackStaysReady ==
    [][\A r \in Deploys : rollbackOf[r] # None /\ ~Preview(r)
                             => status'[r] = "ready"]_vars

\* Everything the scheduler may rely on (module ReleaseLog).
Releases == INSTANCE ReleaseLog
            WITH Releases <- Deploys, Images <- Tags \cup {NoImage},
                 States <- Statuses, made <- Made, log <- events

ImplementsReleaseLog == Releases!Spec

-----------------------------------------------------------------------------
(* Liveness                                                                *)

\* Every deployment that is queued is announced on jp.deploy in the end, its
\* build and GitHub's commit have a verdict by then: no slot of a worker
\* leaks, no entry is skipped, and no step of the four services drops it.
DeploysSettle ==
    \A d \in Deploys : status[d] = "queued" ~>
                          /\ \E i \in 1 .. Len(events) : events[i].id = d
                          /\ posted[d] \in {"success", "failure"}
                          /\ bld[d] \in {"succeeded", "failed"}

\* Closing a pull request reaches the runtime for every preview it listed.
CloseReachesRuntime ==
    \A d \in Deploys : d \in closing ~> d \in stops

-----------------------------------------------------------------------------
(* What the documents say and the code does not do                         *)

\* docs/phases.md: after deploy and build succeed the deployment service
\* publishes deploy.updated and the scheduler starts the image.
BuiltIsReleased ==
    \A d \in Deploys : bld[d] = "succeeded" ~>
        \E i \in 1 .. Len(events) : events[i].id = d /\ events[i].status = "ready"

\* docs/phases.md: an expired preview is marked failed and its runtime
\* stopped; the same for a closed pull request.
ClosedStaysClosed ==
    [][\A d \in stops : status[d] = "failed" => status'[d] # "ready"]_vars

Live == LET ready == {i \in 1 .. Len(events) : events[i].status = "ready"} IN
        IF ready = {} THEN None
        ELSE events[CHOOSE i \in ready : \A j \in ready : j <= i].id

\* handlers.go: Rollback points at the previous successful deployment, so,
\* where there is another one, not at the one that is live.
RollbackGoesBack ==
    [][Rollback /\ Live # None /\ rollbackOf[Live] = None
                /\ (\E t \in Rollbackable : t < Live) => target' # Live]_vars

=============================================================================
