----------------------- MODULE DeployPipeline_proofs -----------------------
(***************************************************************************)
(* Theorems about DeployPipeline, for every number of deployments, workers *)
(* and builds per worker, every set of tags, pull requests, triggers and   *)
(* faults; the last two leave out lost calls, and one of them lost writes  *)
(* to Redis, because the worker ignores both.                              *)
(***************************************************************************)
EXTENDS DeployPipeline, SequenceTheorems, FiniteSetTheorems, TLAPS

-----------------------------------------------------------------------------
(* Type correctness                                                        *)

\* What a request assigns has its type.
LEMMA RequestsType ==
    ASSUME TypeOK, Requests
    PROVE  TypeOK'
<1>1. ASSUME NEW d \in Deploys, NEW b \in PRs \cup {Main}, NEW t \in Tags,
             Create(d, b, t)
      PROVE  TypeOK'
  BY <1>1 DEF TypeOK, Create, queue, work, tear, Statuses
<1>2. ASSUME NEW t \in Deploys, ReadTarget(t)
      PROVE  TypeOK'
  BY <1>2 DEF TypeOK, ReadTarget, row, queue, work, tear
<1>3. ASSUME NEW b \in PRs, FindPreviewByBranch(b)
      PROVE  TypeOK'
  BY <1>3 DEF TypeOK, FindPreviewByBranch, store, row, fixed, queue, work
<1>4. ASSUME NEW n \in Deploys, ExpirePreviews(n)
      PROVE  TypeOK'
  <2>1. 1 .. n \subseteq Deploys
    BY PipelineAssumption DEF PipelineAssumption, Deploys
  <2>2. status' \in [Deploys -> Statuses]
    BY <1>4 DEF TypeOK, ExpirePreviews, Statuses
  <2>3. stopping' \in SUBSET Deploys
    BY <1>4, <2>1 DEF TypeOK, ExpirePreviews
  <2>4. QED
    BY <1>4, <2>2, <2>3 DEF TypeOK, ExpirePreviews, fixed, queue, work
<1>5. QED
  BY <1>1, <1>2, <1>3, <1>4 DEF Requests, Rollback, RollbackTo

\* An announcement keeps jp.deploy a sequence of events.
LEMMA PublishDeployType ==
    ASSUME TypeOK, NEW d \in Deploys, NEW s \in Statuses,
           NEW i \in Tags \cup {NoImage}, PublishDeploy(d, s, i)
    PROVE  events' \in Seq([id : Deploys, status : Statuses,
                            image : Tags \cup {NoImage}])
<1> DEFINE e == [id |-> d, status |-> s, image |-> i]
           Event == [id : Deploys, status : Statuses, image : Tags \cup {NoImage}]
<1>1. e \in Event
  OBVIOUS
<1>2. events \in Seq(Event)
  BY DEF TypeOK
<1>3. Append(events, e) \in Seq(Event)
  BY <1>1, <1>2, AppendProperties
<1>4. events' = Append(events, e) \/ events' = events
  BY DEF PublishDeploy
<1>5. QED
  BY <1>2, <1>3, <1>4

\* Nor does a step that serves deployment d.
LEMMA DeployStepType ==
    ASSUME TypeOK, NEW d \in Deploys, DeployStep(d)
    PROVE  TypeOK'
<1>1. CASE InsertBuild(d)
  BY <1>1 DEF TypeOK, InsertBuild, store, row, fixed, queue, work, tear
<1>2. CASE PublishJob(d)
  BY <1>2 DEF TypeOK, PublishJob, store, row, fixed, work, tear
<1>3. CASE FailUnqueuedBuild(d)
  BY <1>3 DEF TypeOK, FailUnqueuedBuild, store, row, fixed, queue, work, tear
<1>4. CASE MarkBuilding(d)
  BY <1>4 DEF TypeOK, MarkBuilding, UpdateStatus, Statuses, row, fixed,
              queue, work, tear
<1>5. CASE MarkRefused(d)
  BY <1>5 DEF TypeOK, MarkRefused, UpdateStatus, Statuses, row, fixed,
              queue, work, tear
<1>6. CASE PostRefused(d)
  BY <1>6 DEF TypeOK, PostRefused, store, row, fixed, queue, work, tear
<1>7. CASE CreateRollback(d)
  BY <1>7 DEF TypeOK, CreateRollback, Statuses, queue, work, tear
<1>8. CASE AnnounceRollback(d)
  <2>1. events' \in Seq([id : Deploys, status : Statuses,
                         image : Tags \cup {NoImage}])
    <3>1. image[d] \in Tags \cup {NoImage} /\ "ready" \in Statuses
      BY DEF TypeOK, Statuses
    <3>2. QED
      BY <1>8, <3>1, PublishDeployType DEF AnnounceRollback
  <2>2. QED
    BY <1>8, <2>1 DEF TypeOK, AnnounceRollback, store, row, fixed, queue,
                      work, tear
<1>9. CASE ClosePreview(d)
  BY <1>9 DEF TypeOK, ClosePreview, UpdateStatus, Statuses, fixed, queue, work
<1>10. CASE TeardownResources(d)
  BY <1>10 DEF TypeOK, TeardownResources, store, row, fixed, queue, work
<1>11. QED
  BY <1>1, <1>2, <1>3, <1>4, <1>5, <1>6, <1>7, <1>8, <1>9, <1>10
     DEF DeployStep

\* Nor does a step of a build's goroutine.
LEMMA JobStepType ==
    ASSUME TypeOK, NEW d \in Deploys, JobStep(d)
    PROVE  TypeOK'
<1>1. CASE BuildImage(d)
  BY <1>1 DEF TypeOK, BuildImage, PatchBuild, store, row, fixed, queue, tear
<1>2. CASE ReportBuild(d)
  BY <1>2 DEF TypeOK, ReportBuild, store, row, fixed, queue, tear
<1>3. CASE RegisterImage(d)
  BY <1>3 DEF TypeOK, RegisterImage, store, row, fixed, queue, tear
<1>4. CASE UpdateDeploy(d)
  <2>1. UpdateStatus(d, "ready", tag[d]) \/ UpdateStatus(d, "failed", NoImage)
    BY <1>4 DEF UpdateDeploy
  <2>2. /\ status' \in [Deploys -> Statuses]
        /\ image' \in [Deploys -> Tags \cup {NoImage}]
    BY <2>1 DEF TypeOK, UpdateStatus, Statuses
  <2>3. job' \in [Deploys -> {"none", "running", "built", "broken", "reported",
                              "registered", "failing", "tellReady",
                              "tellFailed", "done", "lost"}]
    BY <1>4 DEF TypeOK, UpdateDeploy
  <2>4. QED
    BY <1>4, <2>2, <2>3 DEF TypeOK, UpdateDeploy, fixed, queue, tear
<1>5. CASE TellDeploy(d)
  <2>1. events' \in Seq([id : Deploys, status : Statuses,
                         image : Tags \cup {NoImage}])
    <3>1. status[d] \in Statuses /\ image[d] \in Tags \cup {NoImage}
      BY DEF TypeOK
    <3>2. QED
      BY <1>5, <3>1, PublishDeployType DEF TellDeploy
  <2>2. QED
    BY <1>5, <2>1 DEF TypeOK, TellDeploy, store, row, fixed, queue, tear
<1>6. QED
  BY <1>1, <1>2, <1>3, <1>4, <1>5 DEF JobStep

\* Nor does a worker's loop, which takes entries from the stream's head.
LEMMA WorkerStepType ==
    ASSUME TypeOK, NEW w \in Workers, ReadGroup(w) \/ StartJob(w)
    PROVE  TypeOK'
<1>1. CASE ReadGroup(w)
  <2> DEFINE n == IF Len(jobs) < Concurrency THEN Len(jobs) ELSE Concurrency
  <2>1. jobs \in Seq(Deploys) /\ Len(jobs) \in Nat /\ n \in 0 .. Len(jobs)
    BY PipelineAssumption DEF TypeOK, PipelineAssumption
  <2>2. SubSeq(jobs, 1, n) \in Seq(Deploys)
    BY <2>1, SubSeqProperties
  <2>3. SubSeq(jobs, n + 1, Len(jobs)) \in Seq(Deploys)
    <3>1. \A i \in n + 1 .. Len(jobs) : jobs[i] \in Deploys
      BY <2>1
    <3>2. n + 1 \in Int /\ Len(jobs) \in Int
      BY <2>1
    <3>3. QED
      BY <3>1, <3>2, SubSeqProperties
  <2>4. jobs' = SubSeq(jobs, n + 1, Len(jobs))
        /\ batch' = [batch EXCEPT ![w] = SubSeq(jobs, 1, n)]
    BY <1>1 DEF ReadGroup
  <2>5. jobs' \in Seq(Deploys) /\ batch' \in [Workers -> Seq(Deploys)]
    BY <2>2, <2>3, <2>4 DEF TypeOK
  <2>6. QED
    BY <1>1, <2>5 DEF TypeOK, ReadGroup, store, row, fixed, work, tear
<1>2. CASE StartJob(w)
  <2>1. Head(batch[w]) \in Deploys /\ Tail(batch[w]) \in Seq(Deploys)
    BY <1>2, HeadTailProperties DEF TypeOK, StartJob
  <2>2. QED
    BY <1>2, <2>1 DEF TypeOK, StartJob, PatchBuild, store, row, fixed, tear
<1>3. QED
  BY <1>1, <1>2

\* Nor does a fault.
LEMMA FaultStepType ==
    ASSUME TypeOK, FaultStep
    PROVE  TypeOK'
<1>1. ASSUME NEW d \in Deploys, PublishJobError(d)
      PROVE  TypeOK'
  <2>1. jobs' \in Seq(Deploys)
    <3>1. jobs \in Seq(Deploys)
      BY DEF TypeOK
    <3>2. Append(jobs, d) \in Seq(Deploys)
      BY <3>1, AppendProperties
    <3>3. jobs' = jobs \/ jobs' = Append(jobs, d)
      BY <1>1 DEF PublishJobError
    <3>4. QED
      BY <3>1, <3>2, <3>3
  <2>2. /\ pc' = [pc EXCEPT ![d] = "pubfail"]
        /\ UNCHANGED <<store, posted, bld, batch, work, events, tear>>
    BY <1>1 DEF PublishJobError
  <2>3. QED
    BY <2>1, <2>2 DEF TypeOK, store, row, fixed, work, tear
<1>2. ASSUME NEW d \in Deploys, EnqueueTimeout(d)
      PROVE  TypeOK'
  BY <1>2 DEF TypeOK, EnqueueTimeout, store, row, fixed, queue, work, tear
<1>3. ASSUME NEW d \in Deploys, HandlerDies(d)
      PROVE  TypeOK'
  BY <1>3 DEF TypeOK, HandlerDies, store, row, fixed, queue, work, tear
<1>4. ASSUME NEW d \in Deploys, ReportLost(d)
      PROVE  TypeOK'
  BY <1>4 DEF TypeOK, ReportLost, store, row, fixed, queue, tear
<1>5. ASSUME NEW w \in Workers, WorkerCrash(w)
      PROVE  TypeOK'
  <2>1. batch' = [batch EXCEPT ![w] = <<>>] /\ <<>> \in Seq(Deploys)
    BY <1>5 DEF WorkerCrash
  <2>2. batch' \in [Workers -> Seq(Deploys)]
    BY <2>1 DEF TypeOK
  <2>3. QED
    BY <1>5, <2>2 DEF TypeOK, WorkerCrash, store, row, fixed, tear
<1>6. CASE DropTarget
  BY <1>6 DEF TypeOK, DropTarget, row, queue, work, tear
<1>7. CASE TeardownDies
  BY <1>7 DEF TypeOK, TeardownDies, store, row, fixed, queue, work
<1>8. QED
  BY <1>1, <1>2, <1>3, <1>4, <1>5, <1>6, <1>7 DEF FaultStep

\* The empty tables and streams have their types.
LEMMA TypeInit == Init => TypeOK
<1> SUFFICES ASSUME Init PROVE TypeOK
  OBVIOUS
<1>1. <<>> \in Seq(Deploys)
      /\ <<>> \in Seq([id : Deploys, status : Statuses,
                       image : Tags \cup {NoImage}])
  OBVIOUS
<1>2. QED
  BY <1>1 DEF Init, TypeOK, Statuses

\* No step of the system, request, handler, worker or fault, breaks a type.
LEMMA TypeStep == TypeOK /\ [Next]_vars => TypeOK'
<1> SUFFICES ASSUME TypeOK, [Next]_vars PROVE TypeOK'
  OBVIOUS
<1>1. CASE Next
  BY <1>1, RequestsType, DeployStepType, JobStepType, WorkerStepType,
     FaultStepType DEF Next
<1>2. CASE UNCHANGED vars
  BY <1>2 DEF TypeOK, vars, store, row, fixed, queue, work, tear
<1>3. QED
  BY <1>1, <1>2

\* Every state variable keeps its type, whatever the interleaving and
\* whichever faults happen: no handler, worker loop or fault ever puts an
\* unknown status word, a build of no deployment or a malformed event there.
THEOREM TypeCorrect == Spec => []TypeOK
BY TypeInit, TypeStep, PTL DEF Spec

-----------------------------------------------------------------------------
(* Nothing is ready that was not built                                     *)

\* Only a row that exists has a request, a build, an image or a teardown,
\* and an entry of the queue is of a row that exists.  So the tag of a built
\* image never changes: only an insert sets it.
Existing ==
    /\ \A d \in Deploys : status[d] = "absent" =>
          /\ pc[d] = "none" /\ job[d] = "none" /\ runner[d] = None
          /\ image[d] = NoImage
          /\ d \notin built /\ d \notin closing
    /\ \A d \in Deploys : status[d] # "absent" => tag[d] \in Tags
    /\ \A i \in 1 .. Len(jobs) : status[jobs[i]] # "absent"
    /\ \A w \in Workers : \A i \in 1 .. Len(batch[w]) :
          status[batch[w][i]] # "absent"

\* The goroutine has got past the docker build.
PastBuild == {"built", "reported", "registered", "tellReady"}

\* Whoever is about to say "ready" has an image that was made.
Backed ==
    /\ \A d \in Deploys : image[d] # NoImage => image[d] = tag[d]
    /\ \A d \in Deploys : job[d] \in PastBuild => d \in built
    /\ target # None => image[target] \in Made
    /\ \A d \in Deploys : pc[d] = "announce" => image[d] \in Made

IInv == TypeOK /\ Existing /\ Backed /\ ReadyWasBuilt

Provenance == Existing /\ Backed /\ ReadyWasBuilt

\* An image that was made stays made, since an insert takes a fresh row.
LEMMA MadeStays ==
    ASSUME built \subseteq built', \A d \in built : tag'[d] = tag[d]
    PROVE  Made \subseteq Made'
BY DEF Made

\* An announcement of a ready row with a made image is a release that was
\* built, and so is everything announced before it.
LEMMA AnnouncementBacked ==
    ASSUME TypeOK, ReadyWasBuilt, NEW d \in Deploys, NEW s \in Statuses,
           NEW i \in Tags \cup {NoImage}, PublishDeploy(d, s, i),
           s = "ready" => i \in Made
    PROVE  \A j \in 1 .. Len(events') :
              events'[j].status = "ready" => events'[j].image \in Made
<1> DEFINE e == [id |-> d, status |-> s, image |-> i]
           Event == [id : Deploys, status : Statuses, image : Tags \cup {NoImage}]
<1>1. events \in Seq(Event) /\ e \in Event
  BY DEF TypeOK
<1>2. \A j \in 1 .. Len(events) :
         events[j].status = "ready" => events[j].image \in Made
  BY DEF ReadyWasBuilt
<1>3. e.status = "ready" => e.image \in Made
  OBVIOUS
<1>4. CASE events' = Append(events, e)
  <2>1. /\ Len(events') = Len(events) + 1
        /\ \A j \in 1 .. Len(events) : events'[j] = events[j]
        /\ events'[Len(events) + 1] = e
    BY <1>1, <1>4, AppendProperties
  <2> HIDE DEF e
  <2>2. Len(events) \in Nat
    BY <1>1
  <2>3. QED
    BY <1>2, <1>3, <2>1, <2>2
<1>5. CASE events' = events
  BY <1>2, <1>5
<1>6. QED
  BY <1>4, <1>5 DEF PublishDeploy

\* Requests: only Create sets a tag, and that of a row with no image.
LEMMA RequestsProvenance ==
    ASSUME IInv, Requests
    PROVE  Provenance'
<1> USE DEF IInv
<1>1. ASSUME NEW d \in Deploys, NEW b \in PRs \cup {Main}, NEW t \in Tags,
             Create(d, b, t)
      PROVE  Provenance'
  <2>1. status[d] = "absent" /\ d \notin built
    BY <1>1 DEF Create, Fresh, Existing
  <2>2. Made \subseteq Made'
    BY <1>1, <2>1, MadeStays DEF Create, TypeOK, work
  <2>3. Existing'
    BY <1>1, <2>1 DEF Create, TypeOK, Existing, queue, work, tear
  <2>4. Backed'
    BY <1>1, <2>1, <2>2 DEF Create, TypeOK, Existing, Backed, queue, work
  <2>5. ReadyWasBuilt'
    BY <1>1, <2>1, <2>2 DEF Create, TypeOK, Existing, ReadyWasBuilt, queue, work
  <2>6. QED
    BY <2>3, <2>4, <2>5 DEF Provenance
<1>2. ASSUME NEW t \in Deploys, ReadTarget(t), t \in Rollbackable
      PROVE  Provenance'
  BY <1>2 DEF ReadTarget, Rollbackable, TypeOK, Provenance, Existing, Backed,
              ReadyWasBuilt, Made, row, queue, work, tear
<1>3. ASSUME NEW b \in PRs, FindPreviewByBranch(b)
      PROVE  Provenance'
  BY <1>3 DEF FindPreviewByBranch, Active, TypeOK, Provenance, Existing,
              Backed, ReadyWasBuilt, Made, store, row, fixed, queue, work
<1>4. ASSUME NEW n \in Deploys, ExpirePreviews(n)
      PROVE  Provenance'
  <2>1. \A d \in Deploys : \/ status'[d] = status[d]
                           \/ status[d] # "absent" /\ status'[d] = "failed"
    <3> DEFINE old == {d \in 1 .. n : Preview(d) /\ status[d] \in Active}
    <3>1. status' = [d \in Deploys |-> IF d \in old THEN "failed" ELSE status[d]]
      BY <1>4 DEF ExpirePreviews
    <3>2. \A d \in old : status[d] # "absent"
      BY DEF Active
    <3> HIDE DEF old
    <3>3. QED
      BY <3>1, <3>2
  <2>2. Existing'
    BY <1>4, <2>1 DEF ExpirePreviews, TypeOK, Existing, fixed, queue, work
  <2>3. Backed' /\ ReadyWasBuilt'
    BY <1>4, <2>1 DEF ExpirePreviews, TypeOK, Backed, ReadyWasBuilt, Made,
                      fixed, queue, work
  <2>4. QED
    BY <2>2, <2>3 DEF Provenance
<1>5. QED
  BY <1>1, <1>2, <1>3, <1>4
     DEF Requests, Rollback, RollbackTo, LatestSuccessful

\* Handlers: a rollback copies the image and the tag of a row that has both.
LEMMA DeployStepProvenance ==
    ASSUME IInv, NEW d \in Deploys, DeployStep(d)
    PROVE  Provenance'
<1> USE DEF IInv
<1>1. CASE InsertBuild(d)
  BY <1>1 DEF InsertBuild, TypeOK, Provenance, Existing, Backed,
              ReadyWasBuilt, Made, store, row, fixed, queue, work, tear
<1>2. CASE PublishJob(d)
  <2>1. status[d] # "absent"
    BY <1>2 DEF PublishJob, Existing
  <2>2. \A i \in 1 .. Len(jobs') : status[jobs'[i]] # "absent"
    BY <1>2, <2>1 DEF PublishJob, TypeOK, Existing
  <2>3. Existing'
    BY <1>2, <2>1, <2>2 DEF PublishJob, TypeOK, Existing, store, row, fixed,
                            work, tear
  <2>4. Backed' /\ ReadyWasBuilt'
    BY <1>2 DEF PublishJob, TypeOK, Backed, ReadyWasBuilt, Made, store, row,
                fixed, work
  <2>5. QED
    BY <2>3, <2>4 DEF Provenance
<1>3. CASE FailUnqueuedBuild(d)
  BY <1>3 DEF FailUnqueuedBuild, TypeOK, Provenance, Existing, Backed,
              ReadyWasBuilt, Made, store, row, fixed, queue, work, tear
<1>4. CASE MarkBuilding(d)
  <2>1. status[d] # "absent"
    BY <1>4 DEF MarkBuilding, Existing
  <2>2. UpdateStatus(d, "building", NoImage) \/ UNCHANGED row
    BY <1>4 DEF MarkBuilding
  <2>3. Existing'
    BY <1>4, <2>1, <2>2 DEF MarkBuilding, UpdateStatus, TypeOK, Existing, row,
                            fixed, queue, work, tear
  <2>4. Backed' /\ ReadyWasBuilt'
    BY <1>4, <2>2 DEF MarkBuilding, UpdateStatus, TypeOK, Backed,
                      ReadyWasBuilt, Made, row, fixed, work
  <2>5. QED
    BY <2>3, <2>4 DEF Provenance
<1>5. CASE MarkRefused(d)
  <2>1. status[d] # "absent"
    BY <1>5 DEF MarkRefused, Existing
  <2>2. UpdateStatus(d, "failed", NoImage) \/ UNCHANGED row
    BY <1>5 DEF MarkRefused
  <2>3. Existing'
    BY <1>5, <2>1, <2>2 DEF MarkRefused, UpdateStatus, TypeOK, Existing, row,
                            fixed, queue, work, tear
  <2>4. Backed' /\ ReadyWasBuilt'
    BY <1>5, <2>2 DEF MarkRefused, UpdateStatus, TypeOK, Backed,
                      ReadyWasBuilt, Made, row, fixed, work
  <2>5. QED
    BY <2>3, <2>4 DEF Provenance
<1>6. CASE PostRefused(d)
  BY <1>6 DEF PostRefused, TypeOK, Provenance, Existing, Backed,
              ReadyWasBuilt, Made, store, row, fixed, queue, work, tear
<1>7. CASE CreateRollback(d)
  <2>1. status[d] = "absent" /\ d \notin built
    BY <1>7 DEF CreateRollback, Fresh, Existing
  <2>2. Made \subseteq Made'
    BY <1>7, <2>1, MadeStays DEF CreateRollback, TypeOK, work
  <2>3. target \in Deploys /\ image[target] \in Made
    BY <1>7 DEF CreateRollback, TypeOK, Backed
  <2>4. Made \subseteq Tags
    BY DEF Made, Existing, TypeOK
  <2>5. image[target] = tag[target] /\ tag[target] \in Tags
    BY <2>3, <2>4, PipelineAssumption DEF PipelineAssumption, Backed
  <2>6. Existing'
    BY <1>7, <2>1, <2>5 DEF CreateRollback, TypeOK, Existing, queue, work, tear
  <2>7. Backed'
    BY <1>7, <2>1, <2>2, <2>3, <2>5
       DEF CreateRollback, TypeOK, Existing, Backed, None, work
  <2>8. ReadyWasBuilt'
    BY <1>7, <2>1, <2>2, <2>3, <2>5
       DEF CreateRollback, TypeOK, Existing, ReadyWasBuilt, work
  <2>9. QED
    BY <2>6, <2>7, <2>8 DEF Provenance
<1>8. CASE AnnounceRollback(d)
  <2>1. image[d] \in Made
    BY <1>8 DEF AnnounceRollback, Backed
  <2>2. UNCHANGED <<status, image, tag, posted, built>> /\ Made' = Made
    BY <1>8 DEF AnnounceRollback, Made, store, row, fixed, work
  <2>3. \A j \in 1 .. Len(events') :
           events'[j].status = "ready" => events'[j].image \in Made
    <3>1. "ready" \in Statuses /\ image[d] \in Tags \cup {NoImage}
      BY DEF TypeOK, Statuses
    <3>2. QED
      BY <1>8, <2>1, <3>1, AnnouncementBacked DEF AnnounceRollback
  <2>4. ReadyWasBuilt'
    BY <2>2, <2>3 DEF ReadyWasBuilt
  <2>5. Existing' /\ Backed'
    BY <1>8 DEF AnnounceRollback, TypeOK, Existing, Backed, Made, store, row,
                fixed, queue, work, tear
  <2>6. QED
    BY <2>4, <2>5 DEF Provenance
<1>9. CASE ClosePreview(d)
  <2>1. status[d] # "absent"
    BY <1>9 DEF ClosePreview, Existing
  <2>2. Existing'
    BY <1>9, <2>1 DEF ClosePreview, UpdateStatus, TypeOK, Existing, fixed,
                      queue, work
  <2>3. Backed' /\ ReadyWasBuilt'
    BY <1>9 DEF ClosePreview, UpdateStatus, TypeOK, Backed, ReadyWasBuilt,
                Made, fixed, work
  <2>4. QED
    BY <2>2, <2>3 DEF Provenance
<1>10. CASE TeardownResources(d)
  BY <1>10 DEF TeardownResources, TypeOK, Provenance, Existing, Backed,
               ReadyWasBuilt, Made, store, row, fixed, queue, work
<1>11. QED
  BY <1>1, <1>2, <1>3, <1>4, <1>5, <1>6, <1>7, <1>8, <1>9, <1>10
     DEF DeployStep

\* A build's goroutine: it reports "ready" only past the docker build.
LEMMA JobStepProvenance ==
    ASSUME IInv, NEW d \in Deploys, JobStep(d)
    PROVE  Provenance'
<1> USE DEF IInv
<1>1. CASE BuildImage(d)
  <2>1. status[d] # "absent"
    BY <1>1 DEF BuildImage, Existing
  <2>2. built \subseteq built' /\ UNCHANGED <<status, image, tag, target, pc,
                                              posted, events>>
    BY <1>1 DEF BuildImage, store, row, fixed
  <2>3. Made \subseteq Made'
    BY <2>2, MadeStays DEF TypeOK
  <2>4. Existing'
    BY <1>1, <2>1 DEF BuildImage, TypeOK, Existing, store, row, fixed, queue,
                      tear
  <2>5. \A e \in Deploys : job'[e] \in PastBuild => e \in built'
    BY <1>1 DEF BuildImage, TypeOK, Backed, PastBuild
  <2>6. Backed'
    BY <2>2, <2>3, <2>5 DEF Backed
  <2>7. ReadyWasBuilt'
    BY <2>2, <2>3 DEF ReadyWasBuilt
  <2>8. QED
    BY <2>4, <2>6, <2>7 DEF Provenance
<1>2. CASE ReportBuild(d)
  BY <1>2 DEF ReportBuild, PastBuild, TypeOK, Provenance, Existing, Backed,
              ReadyWasBuilt, Made, store, row, fixed, queue, tear
<1>3. CASE RegisterImage(d)
  BY <1>3 DEF RegisterImage, PastBuild, TypeOK, Provenance, Existing, Backed,
              ReadyWasBuilt, Made, store, row, fixed, queue, tear
<1>4. CASE UpdateDeploy(d)
  <2>1. status[d] # "absent" /\ tag[d] \in Tags /\ tag[d] # NoImage
    BY <1>4, PipelineAssumption DEF UpdateDeploy, Existing, PipelineAssumption
  <2>2. UNCHANGED <<tag, target, pc, posted, built, events>> /\ Made' = Made
    BY <1>4 DEF UpdateDeploy, Made, fixed
  <2>3. CASE job[d] = "registered"
    <3>1. tag[d] \in Made
      BY <2>3 DEF Backed, PastBuild, Made
    <3>2. /\ status' = [status EXCEPT ![d] = "ready"]
          /\ image' = [image EXCEPT ![d] = tag[d]]
          /\ job' = [job EXCEPT ![d] = "tellReady"]
      BY <1>4, <2>1, <2>3 DEF UpdateDeploy, UpdateStatus
    <3>3. Existing'
      BY <1>4, <2>1, <3>2 DEF UpdateDeploy, TypeOK, Existing, fixed, queue, tear
    <3>4. Backed'
      BY <2>2, <2>3, <3>1, <3>2 DEF TypeOK, Backed, PastBuild
    <3>5. ReadyWasBuilt'
      BY <2>2, <3>1, <3>2 DEF TypeOK, ReadyWasBuilt
    <3>6. QED
      BY <3>3, <3>4, <3>5 DEF Provenance
  <2>4. CASE job[d] = "failing"
    <3>1. /\ status' = [status EXCEPT ![d] = "failed"]
          /\ image' = image
          /\ job' = [job EXCEPT ![d] = "tellFailed"]
      BY <1>4, <2>4 DEF UpdateDeploy, UpdateStatus
    <3>2. Existing'
      BY <1>4, <2>1, <3>1 DEF UpdateDeploy, TypeOK, Existing, fixed, queue, tear
    <3>3. Backed' /\ ReadyWasBuilt'
      BY <2>2, <3>1 DEF TypeOK, Backed, ReadyWasBuilt, PastBuild
    <3>4. QED
      BY <3>2, <3>3 DEF Provenance
  <2>5. QED
    BY <1>4, <2>3, <2>4 DEF UpdateDeploy
<1>5. CASE TellDeploy(d)
  <2>1. UNCHANGED <<status, image, tag, target, pc, built>> /\ Made' = Made
    BY <1>5 DEF TellDeploy, Made, store, row, fixed
  <2>2. \A j \in 1 .. Len(events') :
           events'[j].status = "ready" => events'[j].image \in Made
    <3>1. status[d] \in Statuses /\ image[d] \in Tags \cup {NoImage}
      BY DEF TypeOK
    <3>2. status[d] = "ready" => image[d] \in Made
      BY DEF ReadyWasBuilt
    <3>3. QED
      BY <1>5, <3>1, <3>2, AnnouncementBacked DEF TellDeploy
  <2>3. \A e \in Deploys : posted'[e] = "success" => tag[e] \in Made
    BY <1>5 DEF TellDeploy, TypeOK, Backed, PastBuild, ReadyWasBuilt, Made
  <2>4. Existing'
    BY <1>5 DEF TellDeploy, TypeOK, Existing, store, row, fixed, queue, tear
  <2>5. Backed'
    BY <1>5, <2>1 DEF TellDeploy, TypeOK, Backed, PastBuild
  <2>6. ReadyWasBuilt'
    BY <2>1, <2>2, <2>3 DEF ReadyWasBuilt
  <2>7. QED
    BY <2>4, <2>5, <2>6 DEF Provenance
<1>6. QED
  BY <1>1, <1>2, <1>3, <1>4, <1>5 DEF JobStep

\* Workers: what is read or started is of a row that exists.
LEMMA WorkerStepProvenance ==
    ASSUME IInv, NEW w \in Workers, ReadGroup(w) \/ StartJob(w)
    PROVE  Provenance'
<1> USE DEF IInv
<1>1. CASE ReadGroup(w)
  <2> DEFINE n == IF Len(jobs) < Concurrency THEN Len(jobs) ELSE Concurrency
  <2>1. jobs \in Seq(Deploys) /\ Len(jobs) \in Nat /\ n \in 0 .. Len(jobs)
    BY PipelineAssumption DEF TypeOK, PipelineAssumption
  <2>2. /\ jobs' = SubSeq(jobs, n + 1, Len(jobs))
        /\ batch' = [batch EXCEPT ![w] = SubSeq(jobs, 1, n)]
        /\ UNCHANGED <<store, pc, posted, work, events, tear>>
    BY <1>1 DEF ReadGroup
  <2>3. /\ \A i \in 1 .. Len(SubSeq(jobs, 1, n)) :
              status[SubSeq(jobs, 1, n)[i]] # "absent"
        /\ \A i \in 1 .. Len(jobs') : status[jobs'[i]] # "absent"
    <3>1. /\ \A i \in 1 .. n : jobs[i] \in Deploys
          /\ \A i \in n + 1 .. Len(jobs) : jobs[i] \in Deploys
          /\ \A i \in 1 .. Len(jobs) : status[jobs[i]] # "absent"
      BY <2>1 DEF Existing
    <3> HIDE DEF n
    <3>2. /\ Len(SubSeq(jobs, 1, n)) = n
          /\ \A i \in 1 .. n : SubSeq(jobs, 1, n)[i] = jobs[i]
      BY <2>1, <3>1, SubSeqProperties
    <3>3. /\ Len(jobs') = Len(jobs) - n
          /\ \A i \in 1 .. Len(jobs) - n : jobs'[i] = jobs[n + i]
      <4>1. n + 1 \in Int /\ Len(jobs) \in Int
        BY <2>1
      <4>2. /\ Len(jobs') = IF n + 1 <= Len(jobs) THEN Len(jobs) - (n + 1) + 1
                                                  ELSE 0
            /\ \A i \in 1 .. Len(jobs) - (n + 1) + 1 :
                  jobs'[i] = jobs[n + 1 + i - 1]
        BY <2>2, <3>1, <4>1, SubSeqProperties
      <4>3. QED
        BY <2>1, <4>2
    <3>4. QED
      BY <2>1, <3>1, <3>2, <3>3
  <2>4. Existing'
    <3> HIDE DEF n
    <3>1. ASSUME NEW v \in Workers, NEW i \in 1 .. Len(batch'[v])
          PROVE  status[batch'[v][i]] # "absent"
      <4>1. CASE v = w
        BY <2>2, <2>3, <4>1 DEF TypeOK
      <4>2. CASE v # w
        BY <2>2, <4>2 DEF TypeOK, Existing
      <4>3. QED
        BY <4>1, <4>2
    <3>2. UNCHANGED <<status, image, tag, pc, job, runner, built, closing>>
      BY <2>2 DEF store, row, fixed, work, tear
    <3>3. QED
      BY <2>3, <3>1, <3>2 DEF Existing
  <2>5. Backed' /\ ReadyWasBuilt'
    BY <2>2 DEF Backed, ReadyWasBuilt, Made, store, row, fixed, work
  <2>6. QED
    BY <2>4, <2>5 DEF Provenance
<1>2. CASE StartJob(w)
  <2>1. batch[w] \in Seq(Deploys) /\ batch[w] # <<>>
    BY <1>2 DEF TypeOK, StartJob
  <2>2. status[Head(batch[w])] # "absent"
    BY <2>1 DEF Existing
  <2>3. \A i \in 1 .. Len(Tail(batch[w])) : status[Tail(batch[w])[i]] # "absent"
    BY <2>1, HeadTailProperties DEF Existing
  <2>4. Existing'
    BY <1>2, <2>2, <2>3 DEF StartJob, TypeOK, Existing, store, row, fixed, tear
  <2>5. Backed' /\ ReadyWasBuilt'
    BY <1>2 DEF StartJob, PastBuild, TypeOK, Backed, ReadyWasBuilt, Made,
                store, row, fixed
  <2>6. QED
    BY <2>4, <2>5 DEF Provenance
<1>3. QED
  BY <1>1, <1>2

\* Faults take away and never give.
LEMMA FaultStepProvenance ==
    ASSUME IInv, FaultStep
    PROVE  Provenance'
<1> USE DEF IInv
<1>1. ASSUME NEW d \in Deploys, PublishJobError(d)
      PROVE  Provenance'
  <2>1. status[d] # "absent"
    BY <1>1 DEF PublishJobError, Existing
  <2>2. \A i \in 1 .. Len(jobs') : status[jobs'[i]] # "absent"
    <3>1. CASE jobs' = jobs
      BY <3>1 DEF Existing
    <3>2. CASE jobs' = Append(jobs, d)
      BY <2>1, <3>2 DEF TypeOK, Existing
    <3>3. QED
      BY <1>1, <3>1, <3>2 DEF PublishJobError
  <2>3. /\ pc' = [pc EXCEPT ![d] = "pubfail"]
        /\ UNCHANGED <<store, posted, bld, batch, work, events, tear>>
    BY <1>1 DEF PublishJobError
  <2>4. Existing'
    BY <2>1, <2>2, <2>3 DEF TypeOK, Existing, store, row, fixed, work, tear
  <2>5. Backed' /\ ReadyWasBuilt'
    BY <2>3 DEF TypeOK, Backed, ReadyWasBuilt, Made, store, row, fixed, work
  <2>6. QED
    BY <2>4, <2>5 DEF Provenance
<1>2. ASSUME NEW d \in Deploys, EnqueueTimeout(d)
      PROVE  Provenance'
  BY <1>2 DEF EnqueueTimeout, TypeOK, Provenance, Existing, Backed,
              ReadyWasBuilt, Made, store, row, fixed, queue, work, tear
<1>3. ASSUME NEW d \in Deploys, HandlerDies(d)
      PROVE  Provenance'
  BY <1>3 DEF HandlerDies, TypeOK, Provenance, Existing, Backed,
              ReadyWasBuilt, Made, store, row, fixed, queue, work, tear
<1>4. ASSUME NEW d \in Deploys, ReportLost(d)
      PROVE  Provenance'
  BY <1>4 DEF ReportLost, PastBuild, TypeOK, Provenance, Existing, Backed,
              ReadyWasBuilt, Made, store, row, fixed, queue, tear
<1>5. ASSUME NEW w \in Workers, WorkerCrash(w)
      PROVE  Provenance'
  <2>1. batch' = [batch EXCEPT ![w] = <<>>]
        /\ UNCHANGED <<store, pc, posted, bld, jobs, built, images, outcomes,
                       events, tear>>
    BY <1>5 DEF WorkerCrash
  <2>2. \A d \in Deploys :
           \/ job'[d] = job[d]
           \/ job'[d] = "lost" /\ status[d] # "absent"
    <3> SUFFICES ASSUME NEW d \in Deploys
                 PROVE  \/ job'[d] = job[d]
                        \/ job'[d] = "lost" /\ status[d] # "absent"
      OBVIOUS
    <3>1. \A i \in 1 .. Len(batch[w]) : status[batch[w][i]] # "absent"
      BY DEF Existing
    <3>2. status[d] = "absent" => runner[d] # w
      BY PipelineAssumption DEF PipelineAssumption, Existing
    <3>3. QED
      BY <1>5, <3>1, <3>2 DEF WorkerCrash, TypeOK, Existing
  <2>3. \A d \in Deploys : runner'[d] \in {runner[d], None}
    BY <1>5 DEF WorkerCrash, TypeOK
  <2>4. Existing'
    BY <2>1, <2>2, <2>3 DEF TypeOK, Existing, store, row, fixed, tear
  <2>5. Backed' /\ ReadyWasBuilt'
    BY <2>1, <2>2 DEF PastBuild, TypeOK, Backed, ReadyWasBuilt, Made, store,
                      row, fixed
  <2>6. QED
    BY <2>4, <2>5 DEF Provenance
<1>6. CASE DropTarget
  BY <1>6 DEF DropTarget, TypeOK, Provenance, Existing, Backed,
              ReadyWasBuilt, Made, None, row, queue, work, tear
<1>7. CASE TeardownDies
  BY <1>7 DEF TeardownDies, TypeOK, Provenance, Existing, Backed,
              ReadyWasBuilt, Made, store, row, fixed, queue, work
<1>8. QED
  BY <1>1, <1>2, <1>3, <1>4, <1>5, <1>6, <1>7 DEF FaultStep

\* The invariant holds of the empty tables and streams ...
LEMMA IInvInit == Init => IInv
<1> SUFFICES ASSUME Init PROVE IInv
  OBVIOUS
<1>1. TypeOK
  BY TypeInit
<1>2. Len(<<>>) = 0
  OBVIOUS
<1>3. Existing /\ Backed /\ ReadyWasBuilt
  BY <1>2 DEF Init, Existing, Backed, PastBuild, ReadyWasBuilt, None
<1>4. QED
  BY <1>1, <1>3 DEF IInv

\* ... and no step breaks it.
LEMMA IInvStep == IInv /\ [Next]_vars => IInv'
<1> SUFFICES ASSUME IInv, [Next]_vars PROVE IInv'
  OBVIOUS
<1>1. TypeOK'
  BY TypeStep DEF IInv
<1>2. Provenance'
  <2>1. CASE Next
    BY <2>1, RequestsProvenance, DeployStepProvenance, JobStepProvenance,
       WorkerStepProvenance, FaultStepProvenance DEF Next
  <2>2. CASE UNCHANGED vars
    BY <2>2 DEF IInv, Provenance, Existing, Backed, ReadyWasBuilt, Made,
                vars, store, row, fixed, queue, work, tear
  <2>3. QED
    BY <2>1, <2>2
<1>3. QED
  BY <1>1, <1>2 DEF IInv, Provenance

\* Nothing is ever ready that was not built: no row, no event and no commit
\* on GitHub, however requests, builds, rollbacks, teardowns, crashes, lost
\* calls and lost writes interleave.
THEOREM ReadyBuilt == Spec => []ReadyWasBuilt
<1>1. IInv => ReadyWasBuilt
  BY DEF IInv
<1>2. QED
  BY <1>1, IInvInit, IInvStep, PTL DEF Spec

-----------------------------------------------------------------------------
(* Lemmas on sequences without repetition                                  *)

Elements(s) == {s[i] : i \in 1 .. Len(s)}
Distinct(s) == \A i, j \in 1 .. Len(s) : s[i] = s[j] => i = j

\* Appending adds one element; it repeats none if it was not there.
LEMMA AppendElements ==
    ASSUME NEW S, NEW s \in Seq(S), NEW e \in S
    PROVE  /\ Elements(Append(s, e)) = Elements(s) \cup {e}
           /\ Distinct(s) /\ e \notin Elements(s) => Distinct(Append(s, e))
<1> DEFINE a == Append(s, e)
<1>1. /\ Len(s) \in Nat /\ Len(a) = Len(s) + 1
      /\ \A i \in 1 .. Len(s) : a[i] = s[i]
      /\ a[Len(s) + 1] = e
  BY AppendProperties
<1> HIDE DEF a
<1>2. 1 .. Len(a) = (1 .. Len(s)) \cup {Len(s) + 1}
  BY <1>1
<1>3. Elements(a) = Elements(s) \cup {e}
  BY <1>1, <1>2 DEF Elements
<1>4. ASSUME Distinct(s), e \notin Elements(s)
      PROVE  Distinct(a)
  BY <1>1, <1>2, <1>4 DEF Distinct, Elements
<1>5. QED
  BY <1>3, <1>4 DEF a

\* A sequence without repetition falls into two that share nothing.
LEMMA SplitElements ==
    ASSUME NEW S, NEW s \in Seq(S), NEW n \in 0 .. Len(s), Distinct(s)
    PROVE  /\ Elements(s) = Elements(SubSeq(s, 1, n))
                            \cup Elements(SubSeq(s, n + 1, Len(s)))
           /\ Elements(SubSeq(s, 1, n))
              \cap Elements(SubSeq(s, n + 1, Len(s))) = {}
           /\ Distinct(SubSeq(s, 1, n)) /\ Distinct(SubSeq(s, n + 1, Len(s)))
<1> DEFINE a == SubSeq(s, 1, n)
           b == SubSeq(s, n + 1, Len(s))
<1>1. Len(s) \in Nat /\ n \in Nat /\ n <= Len(s)
  OBVIOUS
<1>2. Len(a) = n /\ \A i \in 1 .. n : a[i] = s[i]
  BY <1>1, SubSeqProperties
<1>3. Len(b) = Len(s) - n /\ \A i \in 1 .. Len(s) - n : b[i] = s[n + i]
  <2>1. n + 1 \in Int /\ Len(s) \in Int /\ \A i \in n + 1 .. Len(s) : s[i] \in S
    BY <1>1
  <2>2. /\ Len(b) = IF n + 1 <= Len(s) THEN Len(s) - (n + 1) + 1 ELSE 0
        /\ \A i \in 1 .. Len(s) - (n + 1) + 1 : b[i] = s[n + 1 + i - 1]
    BY <2>1, SubSeqProperties
  <2>3. QED
    BY <1>1, <2>2
<1> HIDE DEF a, b
<1>4. Elements(a) = {s[i] : i \in 1 .. n}
  BY <1>1, <1>2 DEF Elements
<1>5. Elements(b) = {s[i] : i \in n + 1 .. Len(s)}
  <2>1. \A i \in n + 1 .. Len(s) : i - n \in 1 .. Len(s) - n /\ b[i - n] = s[i]
    BY <1>1, <1>3
  <2>2. \A i \in 1 .. Len(s) - n : n + i \in n + 1 .. Len(s) /\ b[i] = s[n + i]
    BY <1>1, <1>3
  <2>3. QED
    BY <1>1, <1>3, <2>1, <2>2 DEF Elements
<1>6. Elements(s) = Elements(a) \cup Elements(b)
  <2>1. 1 .. Len(s) = (1 .. n) \cup (n + 1 .. Len(s))
    BY <1>1
  <2>2. QED
    BY <1>4, <1>5, <2>1 DEF Elements
<1>7. Elements(a) \cap Elements(b) = {}
  <2> SUFFICES ASSUME NEW i \in 1 .. n, NEW j \in n + 1 .. Len(s), s[i] = s[j]
               PROVE  FALSE
    BY <1>4, <1>5
  <2>1. i \in 1 .. Len(s) /\ j \in 1 .. Len(s) /\ i # j
    BY <1>1
  <2>2. QED
    BY <1>1, <2>1 DEF Distinct
<1>8. Distinct(a) /\ Distinct(b)
  <2>1. Distinct(a)
    BY <1>1, <1>2 DEF Distinct
  <2>2. ASSUME NEW i \in 1 .. Len(b), NEW j \in 1 .. Len(b), b[i] = b[j]
        PROVE  i = j
    <3>1. n + i \in 1 .. Len(s) /\ n + j \in 1 .. Len(s) /\ s[n + i] = s[n + j]
      BY <1>1, <1>3, <2>2
    <3>2. n + i = n + j
      BY <3>1 DEF Distinct
    <3>3. QED
      BY <1>1, <1>3, <3>2
  <2>3. QED
    BY <2>1, <2>2 DEF Distinct
<1>9. QED
  BY <1>6, <1>7, <1>8 DEF a, b

\* Taking the head takes one element, and no other entry of it is left.
LEMMA TailElements ==
    ASSUME NEW S, NEW s \in Seq(S), s # <<>>, Distinct(s)
    PROVE  /\ Head(s) \in Elements(s)
           /\ Elements(Tail(s)) = Elements(s) \ {Head(s)}
           /\ Distinct(Tail(s))
<1> DEFINE t == Tail(s)
<1>1. Len(s) \in Nat \ {0} /\ Head(s) = s[1]
  BY EmptySeq
<1>2. Len(t) = Len(s) - 1 /\ \A i \in 1 .. Len(t) : t[i] = s[i + 1]
  BY HeadTailProperties
<1> HIDE DEF t
<1>3. Head(s) \in Elements(s)
  BY <1>1 DEF Elements
<1>4. Elements(t) = {s[i] : i \in 2 .. Len(s)}
  <2>1. \A i \in 2 .. Len(s) : i - 1 \in 1 .. Len(t) /\ t[i - 1] = s[i]
    BY <1>1, <1>2
  <2>2. \A i \in 1 .. Len(t) : i + 1 \in 2 .. Len(s) /\ t[i] = s[i + 1]
    BY <1>1, <1>2
  <2>3. QED
    BY <1>1, <1>2, <2>1, <2>2 DEF Elements
<1>5. Elements(t) = Elements(s) \ {Head(s)}
  <2>1. 1 .. Len(s) = {1} \cup (2 .. Len(s))
    BY <1>1
  <2>2. \A i \in 2 .. Len(s) : s[i] # s[1]
    BY <1>1 DEF Distinct
  <2>3. QED
    BY <1>1, <1>4, <2>1, <2>2 DEF Elements
<1>6. Distinct(t)
  BY <1>1, <1>2 DEF Distinct
<1>7. QED
  BY <1>3, <1>5, <1>6 DEF t

-----------------------------------------------------------------------------
(* Each build is run and announced once                                    *)

\* The builds whose entry is on the stream or in a worker's memory.
Queued == Elements(jobs) \cup UNION {Elements(batch[w]) : w \in Workers}

\* An entry is in one place; its build has not been started.
InOnePlace ==
    /\ Distinct(jobs)
    /\ \A w \in Workers : /\ Distinct(batch[w])
                          /\ Elements(jobs) \cap Elements(batch[w]) = {}
    /\ \A v, w \in Workers : v # w => Elements(batch[v]) \cap Elements(batch[w]) = {}
    /\ \A d \in Queued : job[d] = "none"

\* What is not published has no entry and no goroutine; a rollback never has.
NotPublished ==
    \A d \in Deploys :
        (pc[d] \in {"none", "enqueue", "publish"} \/ rollbackOf[d] # None) =>
            d \notin Queued /\ job[d] = "none"

\* A request that announces is a rollback's, and no other request is.
RollbacksAnnounce ==
    \A d \in Deploys :
        /\ status[d] = "absent" => rollbackOf[d] = None
        /\ pc[d] = "announce" => rollbackOf[d] # None
        /\ rollbackOf[d] # None => pc[d] \in {"announce", "done"}

\* A build has at most one outcome, and none before its goroutine reports it.
OneOutcome ==
    \A d \in Deploys :
        /\ ~({<<d, "succeeded">>, <<d, "failed">>} \subseteq outcomes)
        /\ job[d] \in {"none", "running", "built", "broken"} =>
               \A s \in {"succeeded", "failed"} : <<d, s>> \notin outcomes

\* A deployment is announced by its build's goroutine, which is done then, or
\* by the request for the rollback, which is done then.
AnnouncedIsDone ==
    \A i \in 1 .. Len(events) :
        LET d == events[i].id IN
        job[d] = "done" \/ (rollbackOf[d] # None /\ pc[d] = "done")

\* A goroutine that has ended, or has not begun, runs in no worker.
RunnersRun ==
    \A d \in Deploys : job[d] \in {"none", "done"} => runner[d] = None

Delivery == /\ InOnePlace /\ NotPublished /\ RollbacksAnnounce
            /\ RunnersRun /\ OneOutcome /\ AnnouncedIsDone

\* Every event is of a deployment.
LEMMA EventIds ==
    ASSUME TypeOK
    PROVE  \A i \in 1 .. Len(events) : events[i].id \in Deploys
<1> DEFINE Event == [id : Deploys, status : Statuses, image : Tags \cup {NoImage}]
<1>1. events \in Seq(Event) /\ \A e \in Event : e.id \in Deploys
  BY DEF TypeOK
<1> HIDE DEF Event
<1>2. QED
  BY <1>1

\* Only builds of deployments are queued.
LEMMA QueuedType ==
    ASSUME TypeOK
    PROVE  Queued \subseteq Deploys
<1>1. \A s \in Seq(Deploys) : Elements(s) \subseteq Deploys
  BY ElementOfSeq DEF Elements
<1>2. QED
  BY <1>1 DEF Queued, TypeOK

\* A step of a handler that leaves the queue and the goroutines alone: it
\* moves its request on, or gives it up.
LEMMA HandlerDelivery ==
    ASSUME TypeOK, Delivery,
           UNCHANGED <<rollbackOf, jobs, batch, job, runner, outcomes, events>>,
           \A d \in Deploys :
              /\ status'[d] = "absent" => status[d] = "absent"
              /\ \/ pc'[d] = pc[d] \/ pc'[d] = "done"
                 \/ /\ pc[d] \notin {"announce", "done"} /\ pc'[d] # "announce"
                    /\ pc'[d] \in {"none", "enqueue", "publish"} =>
                          pc[d] \in {"none", "enqueue", "publish"}
    PROVE  Delivery'
<1>1. Queued' = Queued
  BY DEF Queued, Elements
<1>2. InOnePlace'
  <2>1. jobs' = jobs /\ batch' = batch /\ job' = job
    OBVIOUS
  <2>2. InOnePlace
    BY DEF Delivery
  <2>3. QED
    BY <1>1, <2>1, <2>2 DEF InOnePlace
<1>3. NotPublished'
  BY <1>1 DEF Delivery, NotPublished
<1>4. RollbacksAnnounce'
  BY DEF Delivery, RollbacksAnnounce
<1>5. RunnersRun' /\ OneOutcome'
  BY DEF Delivery, RunnersRun, OneOutcome
<1>6. AnnouncedIsDone'
  <2>1. \A i \in 1 .. Len(events) : events[i].id \in Deploys
    BY EventIds
  <2>2. QED
    BY <2>1 DEF Delivery, AnnouncedIsDone
<1>7. QED
  BY <1>2, <1>3, <1>4, <1>5, <1>6 DEF Delivery

\* A step of a build's goroutine, at most to its end without a report: it
\* starts no other, and a second outcome is not reported.
LEMMA GoroutineDelivery ==
    ASSUME TypeOK, Delivery,
           UNCHANGED <<rollbackOf, pc, jobs, batch, events>>,
           \A d \in Deploys :
              /\ status'[d] = "absent" => status[d] = "absent"
              /\ \/ job'[d] = job[d]
                 \/ /\ job[d] \notin {"none", "done"}
                    /\ job'[d] \notin {"none", "done"}
              /\ runner'[d] \in {runner[d], None},
           OneOutcome'
    PROVE  Delivery'
<1>1. Queued' = Queued
  BY DEF Queued, Elements
<1>2. InOnePlace'
  <2>1. /\ jobs' = jobs /\ batch' = batch
        /\ \A d \in Deploys : job[d] = "none" => job'[d] = "none"
    OBVIOUS
  <2>2. InOnePlace /\ Queued \subseteq Deploys
    BY QueuedType DEF Delivery
  <2>3. QED
    BY <1>1, <2>1, <2>2 DEF InOnePlace
<1>3. NotPublished'
  <2>1. \A d \in Deploys : job[d] = "none" => job'[d] = "none"
    OBVIOUS
  <2>2. pc' = pc /\ rollbackOf' = rollbackOf /\ NotPublished
    BY DEF Delivery
  <2>3. QED
    BY <1>1, <2>1, <2>2 DEF NotPublished
<1>4. RollbacksAnnounce' /\ RunnersRun'
  BY DEF Delivery, RollbacksAnnounce, RunnersRun
<1>5. AnnouncedIsDone'
  <2>1. \A i \in 1 .. Len(events) : events[i].id \in Deploys
    BY EventIds
  <2>2. QED
    BY <2>1 DEF Delivery, AnnouncedIsDone
<1>6. QED
  BY <1>2, <1>3, <1>4, <1>5 DEF Delivery

\* A job put on jp.build, or not, by the request that has not published yet.
LEMMA PublicationDelivery ==
    ASSUME TypeOK, Delivery, NEW d \in Deploys, pc[d] = "publish",
           jobs' = jobs \/ jobs' = Append(jobs, d),
           pc' \in {[pc EXCEPT ![d] = "accepted"], [pc EXCEPT ![d] = "pubfail"]},
           UNCHANGED <<status, rollbackOf, batch, job, runner, outcomes, events>>
    PROVE  Delivery'
<1>1. d \notin Queued /\ job[d] = "none" /\ rollbackOf[d] = None
  BY DEF Delivery, NotPublished, RollbacksAnnounce
<1>2. jobs \in Seq(Deploys) /\ batch \in [Workers -> Seq(Deploys)]
  BY DEF TypeOK
<1>3. /\ Elements(jobs') \in {Elements(jobs), Elements(jobs) \cup {d}}
      /\ Distinct(jobs')
  <2>1. Distinct(jobs) /\ d \notin Elements(jobs)
    BY <1>1 DEF Queued, Delivery, InOnePlace
  <2>2. CASE jobs' = jobs
    BY <2>1, <2>2 DEF Elements, Distinct
  <2>3. CASE jobs' = Append(jobs, d)
    BY <1>2, <2>1, <2>3, AppendElements
  <2>4. QED
    BY <2>2, <2>3
<1>4. Queued' \subseteq Queued \cup {d}
  <2>1. Queued' = Elements(jobs') \cup UNION {Elements(batch[w]) : w \in Workers}
    BY DEF Queued, Elements
  <2>2. QED
    BY <1>3, <2>1 DEF Queued
<1>5. InOnePlace'
  <2>1. \A w \in Workers : d \notin Elements(batch[w])
    BY <1>1 DEF Queued
  <2>2. InOnePlace
    BY DEF Delivery
  <2>3. \A w \in Workers : Elements(jobs') \cap Elements(batch[w]) = {}
    BY <1>3, <2>1, <2>2 DEF InOnePlace
  <2>4. \A e \in Queued' : job[e] = "none"
    BY <1>1, <1>4, <2>2 DEF InOnePlace
  <2>5. batch' = batch /\ job' = job
    OBVIOUS
  <2>6. QED
    BY <1>3, <2>2, <2>3, <2>4, <2>5 DEF InOnePlace
<1>6. NotPublished'
  BY <1>1, <1>4 DEF TypeOK, Delivery, NotPublished
<1>7. RollbacksAnnounce' /\ RunnersRun' /\ OneOutcome'
  <2>1. RollbacksAnnounce'
    BY <1>1 DEF TypeOK, Delivery, RollbacksAnnounce
  <2>2. RunnersRun' /\ OneOutcome'
    BY <1>1 DEF Delivery, RunnersRun, OneOutcome
  <2>3. QED
    BY <2>1, <2>2
<1>8. AnnouncedIsDone'
  <2>1. \A i \in 1 .. Len(events) : events[i].id \in Deploys
    BY EventIds
  <2>2. QED
    BY <2>1 DEF TypeOK, Delivery, AnnouncedIsDone
<1>9. QED
  BY <1>5, <1>6, <1>7, <1>8 DEF Delivery

\* An announcement adds an event of the deployment announced, and no other.
LEMMA AnnouncementIds ==
    ASSUME TypeOK, NEW d \in Deploys, NEW s \in Statuses,
           NEW i \in Tags \cup {NoImage}, PublishDeploy(d, s, i)
    PROVE  \A j \in 1 .. Len(events') :
              \/ events'[j].id = d
              \/ j \in 1 .. Len(events) /\ events'[j].id = events[j].id
<1> DEFINE e == [id |-> d, status |-> s, image |-> i]
           Event == [id : Deploys, status : Statuses, image : Tags \cup {NoImage}]
<1>1. events \in Seq(Event) /\ e \in Event /\ e.id = d
  BY DEF TypeOK
<1>2. CASE events' = Append(events, e)
  <2>1. /\ Len(events) \in Nat /\ Len(events') = Len(events) + 1
        /\ \A j \in 1 .. Len(events) : events'[j] = events[j]
        /\ events'[Len(events) + 1] = e
    BY <1>1, <1>2, AppendProperties
  <2> HIDE DEF e
  <2>2. QED
    BY <1>1, <2>1
<1>3. CASE events' = events
  BY <1>3
<1>4. QED
  BY <1>2, <1>3 DEF PublishDeploy

\* Requests insert rows, choose what to roll back to, and list previews.
LEMMA RequestsDelivery ==
    ASSUME IInv, Delivery, Requests
    PROVE  Delivery'
<1>1. TypeOK
  BY DEF IInv
<1>2. ASSUME NEW d \in Deploys, NEW b \in PRs \cup {Main}, NEW t \in Tags,
             Create(d, b, t)
      PROVE  Delivery'
  <2>1. pc[d] = "none"
    BY <1>2 DEF IInv, Create, Fresh, Existing
  <2>2. /\ UNCHANGED <<rollbackOf, jobs, batch, job, runner, outcomes, events>>
        /\ \A e \in Deploys : /\ status'[e] = "absent" => status[e] = "absent"
                              /\ e # d => pc'[e] = pc[e]
        /\ pc'[d] = "enqueue"
    BY <1>1, <1>2 DEF Create, TypeOK, queue, work
  <2>3. QED
    BY <1>1, <2>1, <2>2, HandlerDelivery
<1>3. ASSUME NEW t \in Deploys, ReadTarget(t)
      PROVE  Delivery'
  BY <1>1, <1>3, HandlerDelivery DEF ReadTarget, row, queue, work
<1>4. ASSUME NEW b \in PRs, FindPreviewByBranch(b)
      PROVE  Delivery'
  BY <1>1, <1>4, HandlerDelivery
     DEF FindPreviewByBranch, store, row, fixed, queue, work
<1>5. ASSUME NEW n \in Deploys, ExpirePreviews(n)
      PROVE  Delivery'
  <2>1. \A d \in Deploys : status'[d] = "absent" => status[d] = "absent"
    BY <1>1, <1>5 DEF ExpirePreviews, TypeOK
  <2>2. QED
    BY <1>1, <1>5, <2>1, HandlerDelivery DEF ExpirePreviews, fixed, queue, work
<1>6. QED
  BY <1>2, <1>3, <1>4, <1>5 DEF Requests, Rollback, RollbackTo

\* Handlers: only PublishJob queues, only a rollback's request announces.
LEMMA DeployStepDelivery ==
    ASSUME IInv, Delivery, NEW d \in Deploys, DeployStep(d)
    PROVE  Delivery'
<1>1. TypeOK
  BY DEF IInv
<1>2. CASE InsertBuild(d)
  BY <1>1, <1>2, HandlerDelivery
     DEF TypeOK, InsertBuild, store, row, fixed, queue, work
<1>3. CASE PublishJob(d)
  BY <1>1, <1>3, PublicationDelivery
     DEF PublishJob, store, row, fixed, work
<1>4. CASE FailUnqueuedBuild(d)
  BY <1>1, <1>4, HandlerDelivery
     DEF TypeOK, FailUnqueuedBuild, store, row, fixed, queue, work
<1>5. CASE MarkBuilding(d)
  <2>1. \A e \in Deploys : status'[e] = "absent" => status[e] = "absent"
    BY <1>1, <1>5 DEF TypeOK, MarkBuilding, UpdateStatus, row
  <2>2. QED
    BY <1>1, <1>5, <2>1, HandlerDelivery
       DEF TypeOK, MarkBuilding, fixed, queue, work
<1>6. CASE MarkRefused(d)
  <2>1. \A e \in Deploys : status'[e] = "absent" => status[e] = "absent"
    BY <1>1, <1>6 DEF TypeOK, MarkRefused, UpdateStatus, row
  <2>2. QED
    BY <1>1, <1>6, <2>1, HandlerDelivery
       DEF TypeOK, MarkRefused, fixed, queue, work
<1>7. CASE PostRefused(d)
  BY <1>1, <1>7, HandlerDelivery
     DEF TypeOK, PostRefused, store, row, fixed, queue, work
<1>8. CASE CreateRollback(d)
  <2>1. /\ status[d] = "absent" /\ pc[d] = "none" /\ job[d] = "none"
        /\ d \notin Queued /\ rollbackOf[d] = None
    BY <1>8 DEF CreateRollback, Fresh, IInv, Existing, Delivery, NotPublished,
                RollbacksAnnounce
  <2>2. /\ UNCHANGED <<jobs, batch, job, runner, outcomes, events>>
        /\ status' = [status EXCEPT ![d] = "ready"]
        /\ pc' = [pc EXCEPT ![d] = "announce"]
        /\ rollbackOf' = [rollbackOf EXCEPT ![d] = target]
        /\ target # None
    BY <1>8 DEF CreateRollback, queue, work
  <2>3. Queued' = Queued
    BY <2>2 DEF Queued, Elements
  <2>4. InOnePlace' /\ RunnersRun' /\ OneOutcome'
    <3>1. jobs' = jobs /\ batch' = batch /\ job' = job
          /\ runner' = runner /\ outcomes' = outcomes
      BY <2>2
    <3>2. InOnePlace /\ RunnersRun /\ OneOutcome
      BY DEF Delivery
    <3>3. InOnePlace'
      BY <2>3, <3>1, <3>2 DEF InOnePlace
    <3>4. QED
      BY <3>1, <3>2, <3>3 DEF RunnersRun, OneOutcome
  <2>5. NotPublished'
    BY <1>1, <2>1, <2>2, <2>3 DEF TypeOK, Delivery, NotPublished
  <2>6. RollbacksAnnounce'
    BY <1>1, <2>1, <2>2 DEF TypeOK, Delivery, RollbacksAnnounce
  <2>7. AnnouncedIsDone'
    <3>1. \A i \in 1 .. Len(events) : events[i].id \in Deploys
      BY <1>1, EventIds
    <3>2. QED
      BY <1>1, <2>1, <2>2, <3>1 DEF TypeOK, Delivery, AnnouncedIsDone
  <2>8. QED
    BY <2>4, <2>5, <2>6, <2>7 DEF Delivery
<1>9. CASE AnnounceRollback(d)
  <2>1. /\ pc[d] = "announce" /\ rollbackOf[d] # None
        /\ pc' = [pc EXCEPT ![d] = "done"]
        /\ UNCHANGED <<status, rollbackOf, jobs, batch, job, runner, outcomes>>
    BY <1>9 DEF AnnounceRollback, store, row, fixed, queue, work, Delivery,
                RollbacksAnnounce
  <2>2. Queued' = Queued
    BY <2>1 DEF Queued, Elements
  <2>3. InOnePlace'
    <3>1. jobs' = jobs /\ batch' = batch /\ job' = job /\ InOnePlace
      BY <2>1 DEF Delivery
    <3>2. QED
      BY <2>2, <3>1 DEF InOnePlace
  <2>4. NotPublished' /\ RollbacksAnnounce' /\ RunnersRun' /\ OneOutcome'
    BY <1>1, <2>1, <2>2 DEF TypeOK, Delivery, NotPublished, RollbacksAnnounce,
                            RunnersRun, OneOutcome
  <2>5. AnnouncedIsDone'
    <3>1. \A j \in 1 .. Len(events') :
             \/ events'[j].id = d
             \/ j \in 1 .. Len(events) /\ events'[j].id = events[j].id
      <4>1. "ready" \in Statuses /\ image[d] \in Tags \cup {NoImage}
        BY <1>1 DEF TypeOK, Statuses
      <4>2. QED
        BY <1>1, <1>9, <4>1, AnnouncementIds DEF AnnounceRollback
    <3>2. \A i \in 1 .. Len(events) : events[i].id \in Deploys
      BY <1>1, EventIds
    <3>3. QED
      BY <1>1, <2>1, <3>1, <3>2 DEF TypeOK, Delivery, AnnouncedIsDone
  <2>6. QED
    BY <2>3, <2>4, <2>5 DEF Delivery
<1>10. CASE ClosePreview(d)
  <2>1. \A e \in Deploys : status'[e] = "absent" => status[e] = "absent"
    BY <1>1, <1>10 DEF TypeOK, ClosePreview, UpdateStatus
  <2>2. QED
    BY <1>1, <1>10, <2>1, HandlerDelivery
       DEF ClosePreview, fixed, queue, work
<1>11. CASE TeardownResources(d)
  BY <1>1, <1>11, HandlerDelivery
     DEF TeardownResources, store, row, fixed, queue, work
<1>12. QED
  BY <1>2, <1>3, <1>4, <1>5, <1>6, <1>7, <1>8, <1>9, <1>10, <1>11
     DEF DeployStep

\* A build's goroutine reports one outcome, and announces as it ends.
LEMMA JobStepDelivery ==
    ASSUME IInv, Delivery, NEW d \in Deploys, JobStep(d)
    PROVE  Delivery'
<1>1. TypeOK /\ OneOutcome
  BY DEF IInv, Delivery
<1>2. CASE BuildImage(d)
  <2>1. OneOutcome'
    BY <1>1, <1>2 DEF TypeOK, BuildImage, OneOutcome
  <2>2. QED
    BY <1>1, <1>2, <2>1, GoroutineDelivery
       DEF TypeOK, BuildImage, store, row, fixed, queue
<1>3. CASE ReportBuild(d)
  <2>1. OneOutcome'
    <3>1. \A s \in {"succeeded", "failed"} : <<d, s>> \notin outcomes
      BY <1>1, <1>3 DEF ReportBuild, OneOutcome
    <3>2. PICK s \in {"succeeded", "failed"} :
             outcomes' = outcomes \/ outcomes' = outcomes \cup {<<d, s>>}
      BY <1>3 DEF ReportBuild
    <3>3. job'[d] \in {"reported", "failing"}
          /\ \A e \in Deploys : e # d => job'[e] = job[e]
      BY <1>1, <1>3 DEF ReportBuild, TypeOK
    <3>4. QED
      BY <1>1, <3>1, <3>2, <3>3 DEF OneOutcome
  <2>2. QED
    BY <1>1, <1>3, <2>1, GoroutineDelivery
       DEF TypeOK, ReportBuild, store, row, fixed, queue
<1>4. CASE RegisterImage(d)
  <2>1. OneOutcome'
    BY <1>1, <1>4 DEF TypeOK, RegisterImage, OneOutcome
  <2>2. QED
    BY <1>1, <1>4, <2>1, GoroutineDelivery
       DEF TypeOK, RegisterImage, store, row, fixed, queue
<1>5. CASE UpdateDeploy(d)
  <2>1. OneOutcome'
    BY <1>1, <1>5 DEF TypeOK, UpdateDeploy, OneOutcome
  <2>2. \A e \in Deploys : status'[e] = "absent" => status[e] = "absent"
    BY <1>1, <1>5 DEF TypeOK, UpdateDeploy, UpdateStatus
  <2>3. \A e \in Deploys : \/ job'[e] = job[e]
                           \/ /\ job[e] \notin {"none", "done"}
                              /\ job'[e] \notin {"none", "done"}
    BY <1>1, <1>5 DEF TypeOK, UpdateDeploy
  <2>4. QED
    BY <1>1, <1>5, <2>1, <2>2, <2>3, GoroutineDelivery
       DEF UpdateDeploy, fixed, queue
<1>6. CASE TellDeploy(d)
  <2>1. /\ job[d] \in {"tellReady", "tellFailed"}
        /\ job' = [job EXCEPT ![d] = "done"]
        /\ runner' = [runner EXCEPT ![d] = None]
        /\ UNCHANGED <<status, rollbackOf, pc, jobs, batch, outcomes>>
    BY <1>6 DEF TellDeploy, store, row, fixed, queue
  <2>2. Queued' = Queued
    BY <2>1 DEF Queued, Elements
  <2>3. \A e \in Deploys : job[e] = "none" => job'[e] = "none"
    BY <1>1, <2>1 DEF TypeOK
  <2>4. InOnePlace'
    <3>1. jobs' = jobs /\ batch' = batch /\ InOnePlace /\ Queued \subseteq Deploys
      BY <1>1, <2>1, QueuedType DEF Delivery
    <3>2. QED
      BY <2>2, <2>3, <3>1 DEF InOnePlace
  <2>5. NotPublished'
    <3>1. pc' = pc /\ rollbackOf' = rollbackOf /\ NotPublished
      BY <2>1 DEF Delivery
    <3>2. QED
      BY <2>2, <2>3, <3>1 DEF NotPublished
  <2>6. RollbacksAnnounce' /\ RunnersRun' /\ OneOutcome'
    BY <1>1, <2>1 DEF TypeOK, Delivery, RollbacksAnnounce, RunnersRun, OneOutcome
  <2>7. AnnouncedIsDone'
    <3>1. \A j \in 1 .. Len(events') :
             \/ events'[j].id = d
             \/ j \in 1 .. Len(events) /\ events'[j].id = events[j].id
      <4>1. status[d] \in Statuses /\ image[d] \in Tags \cup {NoImage}
        BY <1>1 DEF TypeOK
      <4>2. QED
        BY <1>1, <1>6, <4>1, AnnouncementIds DEF TellDeploy
    <3>2. \A i \in 1 .. Len(events) : events[i].id \in Deploys
      BY <1>1, EventIds
    <3>3. QED
      BY <1>1, <2>1, <3>1, <3>2 DEF TypeOK, Delivery, AnnouncedIsDone
  <2>8. QED
    BY <2>4, <2>5, <2>6, <2>7 DEF Delivery
<1>7. QED
  BY <1>2, <1>3, <1>4, <1>5, <1>6 DEF JobStep

\* A worker takes entries off the stream, and starts each once.
LEMMA WorkerStepDelivery ==
    ASSUME IInv, Delivery, NEW w \in Workers, ReadGroup(w) \/ StartJob(w)
    PROVE  Delivery'
<1>1. /\ TypeOK /\ jobs \in Seq(Deploys) /\ batch \in [Workers -> Seq(Deploys)]
      /\ InOnePlace /\ Queued \subseteq Deploys
  BY QueuedType DEF IInv, TypeOK, Delivery
<1>2. \A i \in 1 .. Len(events) : events[i].id \in Deploys
  BY <1>1, EventIds
<1>3. CASE ReadGroup(w)
  <2> DEFINE n == IF Len(jobs) < Concurrency THEN Len(jobs) ELSE Concurrency
             taken == SubSeq(jobs, 1, n)
             left  == SubSeq(jobs, n + 1, Len(jobs))
  <2>1. /\ batch[w] = <<>> /\ jobs' = left /\ batch' = [batch EXCEPT ![w] = taken]
        /\ UNCHANGED <<status, rollbackOf, pc, job, runner, outcomes, events>>
    BY <1>3 DEF ReadGroup, store, row, fixed, work
  <2>2. n \in 0 .. Len(jobs)
    BY <1>1, PipelineAssumption DEF PipelineAssumption
  <2>3. /\ Elements(jobs) = Elements(taken) \cup Elements(left)
        /\ Elements(taken) \cap Elements(left) = {}
        /\ Distinct(taken) /\ Distinct(left)
    BY <1>1, <2>2, SplitElements DEF InOnePlace
  <2> HIDE DEF taken, left, n
  <2>4. Elements(batch[w]) = {}
    BY <2>1 DEF Elements
  <2>5. \A v \in Workers : batch'[v] = IF v = w THEN taken ELSE batch[v]
    BY <1>1, <2>1
  <2>6. Queued' = Queued
    <3>1. Queued' = Elements(jobs') \cup UNION {Elements(batch'[v]) : v \in Workers}
      BY DEF Queued, Elements
    <3>2. Queued' = Elements(left) \cup Elements(taken)
                    \cup UNION {Elements(batch[v]) : v \in Workers \ {w}}
      BY <2>1, <2>5, <3>1
    <3>3. Queued = Elements(jobs) \cup UNION {Elements(batch[v]) : v \in Workers \ {w}}
      BY <2>4 DEF Queued
    <3>4. QED
      BY <2>3, <3>2, <3>3
  <2>7. InOnePlace'
    <3>1. Distinct(jobs')
      BY <2>1, <2>3
    <3>2. \A v \in Workers : Distinct(batch'[v])
                             /\ Elements(jobs') \cap Elements(batch'[v]) = {}
      BY <1>1, <2>1, <2>3, <2>5 DEF InOnePlace
    <3>3. \A u, v \in Workers :
             u # v => Elements(batch'[u]) \cap Elements(batch'[v]) = {}
      BY <1>1, <2>3, <2>5 DEF InOnePlace
    <3>4. \A d \in Queued' : job'[d] = "none"
      BY <1>1, <2>1, <2>6 DEF InOnePlace
    <3>5. QED
      BY <3>1, <3>2, <3>3, <3>4 DEF InOnePlace, Distinct, Elements
  <2>8. QED
    BY <2>1, <2>6, <2>7 DEF Delivery, NotPublished, RollbacksAnnounce, RunnersRun,
                            OneOutcome, AnnouncedIsDone
<1>4. CASE StartJob(w)
  <2> DEFINE d == Head(batch[w])
             rest == Tail(batch[w])
  <2>1. /\ batch[w] # <<>> /\ jobs' = jobs /\ batch' = [batch EXCEPT ![w] = rest]
        /\ job' = [job EXCEPT ![d] = "running"]
        /\ runner' = [runner EXCEPT ![d] = w]
        /\ UNCHANGED <<status, rollbackOf, pc, outcomes, events>>
    BY <1>4 DEF StartJob, store, row, fixed
  <2>2. /\ d \in Elements(batch[w])
        /\ Elements(rest) = Elements(batch[w]) \ {d}
        /\ Distinct(rest)
    BY <1>1, <2>1, TailElements DEF InOnePlace
  <2> HIDE DEF d, rest
  <2>3. d \in Queued /\ d \in Deploys /\ job[d] = "none"
    <3>1. d \in Queued
      BY <2>2 DEF Queued
    <3>2. QED
      BY <1>1, <3>1 DEF InOnePlace
  <2>4. \A v \in Workers : batch'[v] = IF v = w THEN rest ELSE batch[v]
    BY <1>1, <2>1
  <2>5. Queued' = Queued \ {d}
    <3>1. Queued' = Elements(jobs) \cup UNION {Elements(batch'[v]) : v \in Workers}
      BY <2>1 DEF Queued, Elements
    <3>2. d \notin Elements(jobs)
          /\ \A v \in Workers \ {w} : d \notin Elements(batch[v])
      BY <1>1, <2>2 DEF InOnePlace
    <3>3. \A v \in Workers : Elements(batch'[v]) = Elements(batch[v]) \ {d}
      BY <2>2, <2>4, <3>2
    <3>4. QED
      BY <3>1, <3>2, <3>3 DEF Queued
  <2>6. InOnePlace'
    <3>1. \A v \in Workers : /\ Distinct(batch'[v])
                             /\ Elements(batch'[v]) \subseteq Elements(batch[v])
      BY <1>1, <2>2, <2>4 DEF InOnePlace
    <3>2. \A e \in Queued' : job'[e] = "none"
      BY <1>1, <2>1, <2>5 DEF InOnePlace, TypeOK
    <3>3. jobs' = jobs
      BY <2>1
    <3>4. \A u, v \in Workers :
             u # v => Elements(batch'[u]) \cap Elements(batch'[v]) = {}
      BY <1>1, <3>1 DEF InOnePlace
    <3>5. \A v \in Workers : Elements(jobs') \cap Elements(batch'[v]) = {}
      BY <1>1, <3>1, <3>3 DEF InOnePlace
    <3>6. Distinct(jobs')
      BY <1>1, <3>3 DEF InOnePlace
    <3>7. QED
      BY <3>1, <3>2, <3>4, <3>5, <3>6 DEF InOnePlace, Distinct, Elements
  <2>7. NotPublished'
    <3>1. pc' = pc /\ rollbackOf' = rollbackOf /\ NotPublished
      BY <2>1 DEF Delivery
    <3>2. \A e \in Deploys : e # d => job'[e] = job[e]
      BY <1>1, <2>1 DEF TypeOK
    <3>3. QED
      BY <2>3, <2>5, <3>1, <3>2 DEF NotPublished
  <2>8. RollbacksAnnounce' /\ RunnersRun' /\ OneOutcome'
    BY <1>1, <2>1, <2>3 DEF TypeOK, Delivery, RollbacksAnnounce, RunnersRun,
                            OneOutcome
  <2>9. AnnouncedIsDone'
    BY <1>1, <1>2, <2>1, <2>3 DEF TypeOK, Delivery, AnnouncedIsDone
  <2>10. QED
    BY <2>6, <2>7, <2>8, <2>9 DEF Delivery
<1>5. QED
  BY <1>3, <1>4

\* A crash loses what the worker had read and what it ran; nothing comes back.
LEMMA WorkerCrashDelivery ==
    ASSUME IInv, Delivery, NEW w \in Workers, WorkerCrash(w)
    PROVE  Delivery'
<1>1. /\ TypeOK /\ InOnePlace /\ Queued \subseteq Deploys
      /\ batch \in [Workers -> Seq(Deploys)]
  BY QueuedType DEF IInv, TypeOK, Delivery
<1>2. \A i \in 1 .. Len(events) : events[i].id \in Deploys
  BY <1>1, EventIds
<1>3. /\ batch' = [batch EXCEPT ![w] = <<>>]
      /\ UNCHANGED <<status, rollbackOf, pc, jobs, outcomes, events>>
  BY DEF WorkerCrash, store, row, fixed
<1>4. \A v \in Workers : batch'[v] = IF v = w THEN <<>> ELSE batch[v]
  BY <1>1, <1>3
<1>5. ASSUME NEW d \in Deploys
      PROVE  /\ runner'[d] \in {runner[d], None}
             /\ \/ job'[d] = job[d]
                \/ job'[d] = "lost" /\ (d \in Elements(batch[w]) \/ runner[d] = w)
  BY <1>1 DEF WorkerCrash, TypeOK, Elements
<1>6. Elements(<<>>) = {} /\ Distinct(<<>>)
  BY DEF Elements, Distinct
<1>7. Queued' \subseteq Queued \ Elements(batch[w])
  <2>1. Queued' = Elements(jobs) \cup UNION {Elements(batch'[v]) : v \in Workers}
    BY <1>3 DEF Queued, Elements
  <2>2. \A v \in Workers : Elements(batch'[v]) \subseteq Queued \ Elements(batch[w])
    BY <1>1, <1>4, <1>6 DEF Queued, InOnePlace
  <2>3. Elements(jobs) \subseteq Queued \ Elements(batch[w])
    BY <1>1 DEF Queued, InOnePlace
  <2>4. QED
    BY <2>1, <2>2, <2>3
<1>8. \A d \in Deploys : job[d] = "none" /\ d \notin Elements(batch[w])
                            => job'[d] = "none"
  BY <1>5, PipelineAssumption DEF PipelineAssumption, Delivery, RunnersRun
<1>9. InOnePlace'
  <2>1. \A v \in Workers : /\ Distinct(batch'[v])
                           /\ Elements(batch'[v]) \subseteq Elements(batch[v])
    BY <1>1, <1>4, <1>6 DEF InOnePlace
  <2>2. \A d \in Queued' : job'[d] = "none"
    BY <1>1, <1>7, <1>8 DEF InOnePlace
  <2>3. \A u, v \in Workers :
           u # v => Elements(batch'[u]) \cap Elements(batch'[v]) = {}
    BY <1>1, <2>1 DEF InOnePlace
  <2>4. \A v \in Workers : Elements(jobs) \cap Elements(batch'[v]) = {}
    BY <1>1, <2>1 DEF InOnePlace
  <2>5. jobs' = jobs /\ Distinct(jobs)
    BY <1>1, <1>3 DEF InOnePlace
  <2>6. QED
    BY <2>1, <2>2, <2>3, <2>4, <2>5 DEF InOnePlace
<1>10. NotPublished'
  <2>1. pc' = pc /\ rollbackOf' = rollbackOf /\ NotPublished
    BY <1>3 DEF Delivery
  <2>2. Elements(batch[w]) \subseteq Queued
    BY DEF Queued
  <2>3. QED
    BY <1>7, <1>8, <2>1, <2>2 DEF NotPublished
<1>11. RollbacksAnnounce' /\ RunnersRun' /\ OneOutcome'
  BY <1>3, <1>5 DEF Delivery, RollbacksAnnounce, RunnersRun, OneOutcome
<1>12. AnnouncedIsDone'
  <2>1. \A d \in Deploys : job[d] = "done" => job'[d] = "done"
    <3>1. \A d \in Elements(batch[w]) : job[d] = "none"
      BY <1>1 DEF InOnePlace, Queued
    <3>2. QED
      BY <1>5, <3>1, PipelineAssumption DEF PipelineAssumption, Delivery, RunnersRun
  <2>2. QED
    BY <1>2, <1>3, <2>1 DEF Delivery, AnnouncedIsDone
<1>13. QED
  BY <1>9, <1>10, <1>11, <1>12 DEF Delivery

\* A fault queues at most the entry whose XADD seemed to fail.
LEMMA FaultStepDelivery ==
    ASSUME IInv, Delivery, FaultStep
    PROVE  Delivery'
<1>1. TypeOK
  BY DEF IInv
<1>2. ASSUME NEW d \in Deploys, PublishJobError(d)
      PROVE  Delivery'
  BY <1>1, <1>2, PublicationDelivery DEF PublishJobError, store, row, fixed, work
<1>3. ASSUME NEW d \in Deploys, EnqueueTimeout(d)
      PROVE  Delivery'
  BY <1>1, <1>3, HandlerDelivery
     DEF TypeOK, EnqueueTimeout, store, row, fixed, queue, work
<1>4. ASSUME NEW d \in Deploys, HandlerDies(d)
      PROVE  Delivery'
  BY <1>1, <1>4, HandlerDelivery
     DEF TypeOK, HandlerDies, store, row, fixed, queue, work
<1>5. ASSUME NEW d \in Deploys, ReportLost(d)
      PROVE  Delivery'
  <2>1. OneOutcome'
    BY <1>1, <1>5 DEF TypeOK, ReportLost, Delivery, OneOutcome
  <2>2. QED
    BY <1>1, <1>5, <2>1, GoroutineDelivery
       DEF TypeOK, ReportLost, store, row, fixed, queue
<1>6. CASE DropTarget
  BY <1>1, <1>6, HandlerDelivery DEF DropTarget, row, queue, work
<1>7. CASE TeardownDies
  BY <1>1, <1>7, HandlerDelivery DEF TeardownDies, store, row, fixed, queue, work
<1>8. QED
  BY <1>2, <1>3, <1>4, <1>5, <1>6, <1>7, WorkerCrashDelivery DEF FaultStep

\* Nothing is queued, running or announced at first ...
LEMMA DeliveryInit == Init => Delivery
<1> SUFFICES ASSUME Init PROVE Delivery
  OBVIOUS
<1>1. Elements(<<>>) = {} /\ Distinct(<<>>) /\ Len(<<>>) = 0
  BY DEF Elements, Distinct
<1>2. jobs = <<>> /\ \A w \in Workers : batch[w] = <<>>
  BY DEF Init
<1>3. Queued = {}
  BY <1>1, <1>2 DEF Queued
<1>4. InOnePlace
  BY <1>1, <1>2, <1>3 DEF InOnePlace
<1>5. NotPublished /\ RollbacksAnnounce /\ RunnersRun /\ OneOutcome
      /\ AnnouncedIsDone
  BY <1>1, <1>3 DEF Init, NotPublished, RollbacksAnnounce, RunnersRun,
                    OneOutcome, AnnouncedIsDone
<1>6. QED
  BY <1>4, <1>5 DEF Delivery

\* ... and no step duplicates a build or an announcement.
LEMMA DeliveryStep == IInv /\ Delivery /\ [Next]_vars => Delivery'
<1> SUFFICES ASSUME IInv, Delivery, [Next]_vars PROVE Delivery'
  OBVIOUS
<1>1. CASE Next
  BY <1>1, RequestsDelivery, DeployStepDelivery, JobStepDelivery,
     WorkerStepDelivery, FaultStepDelivery DEF Next
<1>2. CASE UNCHANGED vars
  BY <1>2, HandlerDelivery
     DEF IInv, vars, store, row, fixed, queue, work
<1>3. QED
  BY <1>1, <1>2

\* A set in which any two elements are equal has at most one.
LEMMA AtMostOne ==
    ASSUME NEW S, \A x, y \in S : x = y
    PROVE  Cardinality(S) <= 1
<1>1. CASE S = {}
  BY <1>1, FS_EmptySet
<1>2. CASE S # {}
  <2>1. PICK x \in S : TRUE
    BY <1>2
  <2>2. S = {x}
    BY <2>1
  <2>3. QED
    BY <2>2, FS_Singleton
<1>3. QED
  BY <1>1, <1>2

\* A build is run at most once and has at most one outcome, however many
\* workers read the stream, whatever they read and whichever of them crash,
\* time out or lose an answer of Redis: its entry waits in one place, and in
\* none once a goroutine has it.
THEOREM RunAtMostOnce == Spec => []BuildsAtMostOnce
<1>1. IInv /\ Delivery => BuildsAtMostOnce
  <2> SUFFICES ASSUME IInv, Delivery, NEW d \in Deploys
               PROVE  /\ Cardinality(Waiting(d)) <= 1
                      /\ job[d] # "none" => Waiting(d) = {}
                      /\ ~({<<d, "succeeded">>, <<d, "failed">>} \subseteq outcomes)
    BY DEF BuildsAtMostOnce
  <2> DEFINE OnStream == {<<"jp.build", i>> : i \in {j \in 1 .. Len(jobs) : jobs[j] = d}}
             InMemory == {x \in Workers \X (1 .. MaxDeploys) :
                             x[2] <= Len(batch[x[1]]) /\ batch[x[1]][x[2]] = d}
  <2>1. Waiting(d) = OnStream \cup InMemory
    BY DEF Waiting
  <2>2. InOnePlace /\ OneOutcome
    BY DEF Delivery
  <2>3. ASSUME NEW x \in OnStream
        PROVE  d \in Elements(jobs) /\ \A y \in OnStream : x = y
    BY <2>2 DEF InOnePlace, Distinct, Elements
  <2>4. ASSUME NEW x \in InMemory
        PROVE  /\ x[1] \in Workers /\ d \in Elements(batch[x[1]])
               /\ \A y \in InMemory : x = y
    <3>1. /\ x[1] \in Workers /\ x[2] \in 1 .. Len(batch[x[1]])
          /\ batch[x[1]][x[2]] = d /\ x = <<x[1], x[2]>>
      BY DEF IInv, TypeOK
    <3>2. ASSUME NEW y \in InMemory
          PROVE  x = y
      <4>1. /\ y[1] \in Workers /\ y[2] \in 1 .. Len(batch[y[1]])
            /\ batch[y[1]][y[2]] = d /\ y = <<y[1], y[2]>>
        BY DEF IInv, TypeOK
      <4>2. x[1] = y[1]
        BY <2>2, <3>1, <4>1 DEF InOnePlace, Elements
      <4>3. x[2] = y[2]
        BY <2>2, <3>1, <4>1, <4>2 DEF InOnePlace, Distinct
      <4>4. QED
        BY <3>1, <4>1, <4>2, <4>3
    <3>3. QED
      BY <3>1, <3>2 DEF Elements
  <2> HIDE DEF OnStream, InMemory
  <2>5. \A x, y \in Waiting(d) : x = y
    BY <2>1, <2>2, <2>3, <2>4 DEF InOnePlace
  <2>6. job[d] # "none" => Waiting(d) = {}
    BY <2>1, <2>2, <2>3, <2>4 DEF InOnePlace, Queued
  <2>7. QED
    BY <2>2, <2>5, <2>6, AtMostOne DEF OneOutcome
<1>2. QED
  BY <1>1, IInvInit, IInvStep, DeliveryInit, DeliveryStep, PTL DEF Spec

-----------------------------------------------------------------------------
(* The log the scheduler reads                                             *)

\* A tag changes only at the insert of a row that has no image yet.
LEMMA MadeSame ==
    ASSUME built' = built, \A d \in built : tag'[d] = tag[d]
    PROVE  Made' = Made
BY DEF Made

\* A deployment announced now was not announced before: the goroutine of its
\* build was running, or its rollback's request was not done.
LEMMA FirstAnnouncement ==
    ASSUME TypeOK, Delivery, NEW d \in Deploys, NEW s \in Statuses,
           NEW i \in Tags \cup {NoImage}, PublishDeploy(d, s, i),
           s = "ready" => i \in Made, Made' = Made,
           \/ job[d] \in {"tellReady", "tellFailed"}
           \/ pc[d] = "announce"
    PROVE  [Releases!Next]_<<Made, events>>
<1>1. CASE events' = events
  BY <1>1
<1>2. CASE events' = Append(events, [id |-> d, status |-> s, image |-> i])
  <2>1. job[d] # "done" /\ (rollbackOf[d] = None \/ pc[d] # "done")
    BY DEF Delivery, NotPublished, RollbacksAnnounce
  <2>2. \A j \in 1 .. Len(events) : events[j].id # d
    BY <2>1 DEF Delivery, AnnouncedIsDone
  <2>3. Releases!Announce(d, s, i)
    BY <1>2, <2>2 DEF Releases!Announce, Releases!Announced
  <2>4. QED
    BY <2>3 DEF Releases!Next
<1>3. QED
  BY <1>1, <1>2 DEF PublishDeploy

\* Every step of the pipeline makes one image, announces one release that was
\* not announced, or leaves both as they are.
LEMMA ReleaseLogStep ==
    ASSUME IInv, Delivery, [Next]_vars
    PROVE  [Releases!Next]_<<Made, events>>
<1>1. TypeOK
  BY DEF IInv
<1>2. ASSUME Requests
      PROVE  UNCHANGED <<Made, events>>
  <2>1. ASSUME NEW d \in Deploys, NEW b \in PRs \cup {Main}, NEW t \in Tags,
               Create(d, b, t)
        PROVE  UNCHANGED <<Made, events>>
    <3>1. d \notin built
      BY <2>1 DEF Create, Fresh, IInv, Existing
    <3>2. QED
      BY <1>1, <2>1, <3>1, MadeSame DEF Create, TypeOK, work
  <2>2. ASSUME NEW t \in Deploys, ReadTarget(t)
        PROVE  UNCHANGED <<Made, events>>
    BY <2>2, MadeSame DEF ReadTarget, work
  <2>3. ASSUME NEW b \in PRs, FindPreviewByBranch(b)
        PROVE  UNCHANGED <<Made, events>>
    BY <2>3, MadeSame DEF FindPreviewByBranch, store, fixed, work
  <2>4. ASSUME NEW n \in Deploys, ExpirePreviews(n)
        PROVE  UNCHANGED <<Made, events>>
    BY <2>4, MadeSame DEF ExpirePreviews, fixed, work
  <2>5. QED
    BY <1>2, <2>1, <2>2, <2>3, <2>4 DEF Requests, Rollback, RollbackTo
<1>3. ASSUME NEW d \in Deploys, DeployStep(d), ~AnnounceRollback(d)
      PROVE  UNCHANGED <<Made, events>>
  <2>1. CASE CreateRollback(d)
    <3>1. d \notin built
      BY <2>1 DEF CreateRollback, Fresh, IInv, Existing
    <3>2. QED
      BY <1>1, <2>1, <3>1, MadeSame DEF CreateRollback, TypeOK, work
  <2>2. CASE ~CreateRollback(d)
    <3>1. UNCHANGED <<tag, built, events>>
      BY <1>3, <2>2 DEF DeployStep, InsertBuild, PublishJob, FailUnqueuedBuild,
         MarkBuilding, MarkRefused, PostRefused, ClosePreview, TeardownResources,
         store, fixed, work
    <3>2. QED
      BY <3>1, MadeSame
  <2>3. QED
    BY <2>1, <2>2
<1>4. ASSUME NEW d \in Deploys, AnnounceRollback(d)
      PROVE  [Releases!Next]_<<Made, events>>
  <2>1. image[d] \in Made /\ image[d] \in Tags \cup {NoImage} /\ "ready" \in Statuses
    BY <1>1, <1>4 DEF AnnounceRollback, IInv, Backed, TypeOK, Statuses
  <2>2. Made' = Made
    BY <1>4, MadeSame DEF AnnounceRollback, store, fixed, work
  <2>3. QED
    BY <1>1, <1>4, <2>1, <2>2, FirstAnnouncement DEF AnnounceRollback
<1>5. ASSUME NEW d \in Deploys, BuildImage(d)
      PROVE  [Releases!Next]_<<Made, events>>
  <2>1. UNCHANGED <<tag, events>> /\ (built' = built \/ built' = built \cup {d})
    BY <1>5 DEF BuildImage, store, fixed
  <2>2. CASE built' = built
    BY <2>1, <2>2, MadeSame
  <2>3. CASE built' = built \cup {d}
    <3>1. Made' = Made \cup {tag[d]} /\ tag[d] \in Tags \cup {NoImage}
      BY <1>1, <2>1, <2>3 DEF Made, TypeOK
    <3>2. Releases!Make(tag[d])
      BY <2>1, <3>1 DEF Releases!Make
    <3>3. QED
      BY <3>1, <3>2 DEF Releases!Next
  <2>4. QED
    BY <2>1, <2>2, <2>3
<1>6. ASSUME NEW d \in Deploys, TellDeploy(d)
      PROVE  [Releases!Next]_<<Made, events>>
  <2>1. /\ status[d] \in Statuses /\ image[d] \in Tags \cup {NoImage}
        /\ status[d] = "ready" => image[d] \in Made
    BY <1>1 DEF IInv, ReadyWasBuilt, TypeOK
  <2>2. Made' = Made
    BY <1>6, MadeSame DEF TellDeploy, store, fixed
  <2>3. QED
    BY <1>1, <1>6, <2>1, <2>2, FirstAnnouncement DEF TellDeploy
<1>7. ASSUME NEW d \in Deploys, JobStep(d), ~BuildImage(d), ~TellDeploy(d)
      PROVE  UNCHANGED <<Made, events>>
  BY <1>7, MadeSame DEF JobStep, ReportBuild, RegisterImage, UpdateDeploy,
                        store, fixed
<1>8. ASSUME NEW w \in Workers, ReadGroup(w) \/ StartJob(w)
      PROVE  UNCHANGED <<Made, events>>
  BY <1>8, MadeSame DEF ReadGroup, StartJob, store, fixed, work
<1>9. ASSUME FaultStep
      PROVE  UNCHANGED <<Made, events>>
  BY <1>9, MadeSame DEF FaultStep, PublishJobError, EnqueueTimeout, HandlerDies,
     ReportLost, WorkerCrash, DropTarget, TeardownDies, store, fixed, work
<1>10. CASE UNCHANGED vars
  BY <1>10, MadeSame DEF vars, store, fixed, work
<1>11. QED
  BY <1>2, <1>3, <1>4, <1>5, <1>6, <1>7, <1>8, <1>9, <1>10 DEF Next

\* The pipeline implements the release log: whatever fails, what the
\* scheduler reads of jp.deploy only grows, announces a deployment at most
\* once, and says ready only of an image that had been made.
THEOREM ReleaseLogImplemented == Spec => ImplementsReleaseLog
<1>1. Init => Releases!Init
  BY DEF Init, Releases!Init, Made
<1>2. IInv /\ Delivery /\ [Next]_vars => [Releases!Next]_<<Made, events>>
  BY ReleaseLogStep
<1>3. QED
  BY <1>1, <1>2, IInvInit, IInvStep, DeliveryInit, DeliveryStep, PTL
     DEF Spec, ImplementsReleaseLog, Releases!Spec

-----------------------------------------------------------------------------
(* What nobody takes back                                                  *)

\* What a row is does not change once it is inserted.
LEMMA RowStays ==
    ASSUME TypeOK, [Next]_vars, NEW d \in Deploys, status[d] # "absent"
    PROVE  rollbackOf'[d] = rollbackOf[d] /\ branch'[d] = branch[d]
<1>1. CASE Requests
  BY <1>1 DEF Requests, TypeOK, Create, Fresh, Rollback, RollbackTo, ReadTarget,
              FindPreviewByBranch, ExpirePreviews, store, fixed
<1>2. ASSUME NEW e \in Deploys, DeployStep(e)
      PROVE  rollbackOf'[d] = rollbackOf[d] /\ branch'[d] = branch[d]
  <2>1. CASE CreateRollback(e)
    BY <2>1 DEF TypeOK, CreateRollback, Fresh
  <2>2. CASE ~CreateRollback(e)
    BY <1>2, <2>2 DEF DeployStep, InsertBuild, PublishJob, FailUnqueuedBuild,
       MarkBuilding, MarkRefused, PostRefused, AnnounceRollback, ClosePreview,
       TeardownResources, store, fixed
  <2>3. QED
    BY <2>1, <2>2
<1>3. ASSUME NEW e \in Deploys, JobStep(e)
      PROVE  rollbackOf'[d] = rollbackOf[d] /\ branch'[d] = branch[d]
  BY <1>3 DEF JobStep, BuildImage, ReportBuild, RegisterImage, UpdateDeploy,
              TellDeploy, store, fixed
<1>4. ASSUME NEW w \in Workers, ReadGroup(w) \/ StartJob(w)
      PROVE  rollbackOf'[d] = rollbackOf[d] /\ branch'[d] = branch[d]
  BY <1>4 DEF ReadGroup, StartJob, store, fixed
<1>5. CASE FaultStep
  BY <1>5 DEF FaultStep, PublishJobError, EnqueueTimeout, HandlerDies,
     ReportLost, WorkerCrash, DropTarget, TeardownDies, store, fixed
<1>6. CASE UNCHANGED vars
  BY <1>6 DEF vars, store, fixed
<1>7. QED
  BY <1>1, <1>2, <1>3, <1>4, <1>5, <1>6 DEF Next

\* A production rollback is ready, and a teardown has listed previews only.
Standing ==
    /\ \A r \in Deploys : rollbackOf[r] # None /\ ~Preview(r) => status[r] = "ready"
    /\ \A d \in closing : Preview(d)

\* No step sets the status of a production rollback: its request is past the
\* build, its build has no goroutine, and no teardown lists it.
LEMMA RollbackKept ==
    ASSUME IInv, Delivery, Standing, [Next]_vars,
           NEW r \in Deploys, rollbackOf[r] # None, ~Preview(r)
    PROVE  status'[r] = status[r]
<1>1. /\ TypeOK /\ status[r] = "ready" /\ job[r] = "none" /\ r \notin closing
      /\ pc[r] \in {"announce", "done"}
  BY DEF IInv, Standing, Delivery, NotPublished, RollbacksAnnounce
<1>2. CASE Requests
  <2>1. ASSUME NEW n \in Deploys, ExpirePreviews(n)
        PROVE  status'[r] = status[r]
    BY <2>1 DEF ExpirePreviews
  <2>2. QED
    BY <1>1, <1>2, <2>1 DEF Requests, TypeOK, Create, Fresh, Rollback, RollbackTo,
       ReadTarget, FindPreviewByBranch, store, row
<1>3. ASSUME NEW e \in Deploys, DeployStep(e)
      PROVE  status'[r] = status[r]
  <2>1. CASE CreateRollback(e) \/ MarkBuilding(e) \/ MarkRefused(e) \/ ClosePreview(e)
    BY <1>1, <2>1 DEF TypeOK, CreateRollback, Fresh, MarkBuilding, MarkRefused,
                      ClosePreview, UpdateStatus, row
  <2>2. CASE ~(CreateRollback(e) \/ MarkBuilding(e) \/ MarkRefused(e)
               \/ ClosePreview(e))
    BY <1>3, <2>2 DEF DeployStep, InsertBuild, PublishJob, FailUnqueuedBuild,
       PostRefused, AnnounceRollback, TeardownResources, store, row
  <2>3. QED
    BY <2>1, <2>2
<1>4. ASSUME NEW e \in Deploys, JobStep(e)
      PROVE  status'[r] = status[r]
  <2>1. CASE UpdateDeploy(e)
    BY <1>1, <2>1 DEF TypeOK, UpdateDeploy, UpdateStatus
  <2>2. CASE ~UpdateDeploy(e)
    BY <1>4, <2>2 DEF JobStep, BuildImage, ReportBuild, RegisterImage, TellDeploy,
                      store, row
  <2>3. QED
    BY <2>1, <2>2
<1>5. ASSUME NEW w \in Workers, ReadGroup(w) \/ StartJob(w)
      PROVE  status'[r] = status[r]
  BY <1>5 DEF ReadGroup, StartJob, store, row
<1>6. CASE FaultStep
  BY <1>6 DEF FaultStep, PublishJobError, EnqueueTimeout, HandlerDies,
     ReportLost, WorkerCrash, DropTarget, TeardownDies, store, row
<1>7. CASE UNCHANGED vars
  BY <1>7 DEF vars, store, row
<1>8. QED
  BY <1>2, <1>3, <1>4, <1>5, <1>6, <1>7 DEF Next

\* A row joins a teardown's list only as its branch's preview.
LEMMA ClosingArePreviews ==
    ASSUME IInv, [Next]_vars, NEW d \in closing'
    PROVE  d \in closing \/ (d \in Deploys /\ Preview(d) /\ status[d] # "absent")
<1>1. CASE Requests
  BY <1>1 DEF Requests, Create, Rollback, RollbackTo, ReadTarget,
     FindPreviewByBranch, ExpirePreviews, Preview, Active, tear
<1>2. ASSUME NEW e \in Deploys, DeployStep(e)
      PROVE  d \in closing
  BY <1>2 DEF DeployStep, InsertBuild, PublishJob, FailUnqueuedBuild,
     MarkBuilding, MarkRefused, PostRefused, CreateRollback, AnnounceRollback,
     ClosePreview, TeardownResources, tear
<1>3. ASSUME NEW e \in Deploys, JobStep(e)
      PROVE  d \in closing
  BY <1>3 DEF JobStep, BuildImage, ReportBuild, RegisterImage, UpdateDeploy,
              TellDeploy, tear
<1>4. ASSUME NEW w \in Workers, ReadGroup(w) \/ StartJob(w)
      PROVE  d \in closing
  BY <1>4 DEF ReadGroup, StartJob, tear
<1>5. CASE FaultStep
  BY <1>5 DEF FaultStep, PublishJobError, EnqueueTimeout, HandlerDies,
     ReportLost, WorkerCrash, DropTarget, TeardownDies, tear
<1>6. CASE UNCHANGED vars
  BY <1>6 DEF vars, tear
<1>7. QED
  BY <1>1, <1>2, <1>3, <1>4, <1>5, <1>6 DEF Next

\* A row becomes a rollback's only by the insert that makes it ready.
LEMMA NewRollback ==
    ASSUME IInv, Delivery, [Next]_vars, NEW d \in Deploys, status[d] = "absent"
    PROVE  rollbackOf'[d] = None \/ status'[d] = "ready"
<1>1. TypeOK /\ rollbackOf[d] = None
  BY DEF IInv, Delivery, RollbacksAnnounce
<1>2. CASE \E r \in Deploys : CreateRollback(r)
  BY <1>1, <1>2 DEF TypeOK, CreateRollback
<1>3. CASE ~\E r \in Deploys : CreateRollback(r)
  <2>1. CASE Requests
    BY <1>1, <2>1 DEF Requests, Create, Rollback, RollbackTo, ReadTarget,
       FindPreviewByBranch, ExpirePreviews, store, fixed
  <2>2. ASSUME NEW e \in Deploys, DeployStep(e)
        PROVE  rollbackOf'[d] = None
    BY <1>1, <1>3, <2>2 DEF DeployStep, InsertBuild, PublishJob,
       FailUnqueuedBuild, MarkBuilding, MarkRefused, PostRefused,
       AnnounceRollback, ClosePreview, TeardownResources, store, fixed
  <2>3. ASSUME NEW e \in Deploys, JobStep(e)
        PROVE  rollbackOf'[d] = None
    BY <1>1, <2>3 DEF JobStep, BuildImage, ReportBuild, RegisterImage,
                      UpdateDeploy, TellDeploy, store, fixed
  <2>4. ASSUME NEW w \in Workers, ReadGroup(w) \/ StartJob(w)
        PROVE  rollbackOf'[d] = None
    BY <1>1, <2>4 DEF ReadGroup, StartJob, store, fixed
  <2>5. CASE FaultStep
    BY <1>1, <2>5 DEF FaultStep, PublishJobError, EnqueueTimeout, HandlerDies,
       ReportLost, WorkerCrash, DropTarget, TeardownDies, store, fixed
  <2>6. CASE UNCHANGED vars
    BY <1>1, <2>6 DEF vars, store, fixed
  <2>7. QED
    BY <2>1, <2>2, <2>3, <2>4, <2>5, <2>6 DEF Next
<1>4. QED
  BY <1>2, <1>3

\* So production rollbacks stand: after the step as before.
LEMMA StandingStep ==
    ASSUME IInv, Delivery, Standing, [Next]_vars
    PROVE  Standing'
<1>1. TypeOK /\ \A d \in closing : d \in Deploys /\ status[d] # "absent"
  BY DEF IInv, TypeOK, Existing
<1>2. ASSUME NEW r \in Deploys, rollbackOf'[r] # None, branch'[r] \notin PRs
      PROVE  status'[r] = "ready"
  <2>1. CASE status[r] = "absent"
    BY <1>2, <2>1, NewRollback
  <2>2. CASE status[r] # "absent"
    BY <1>1, <1>2, <2>2, RowStays, RollbackKept DEF Preview, Standing
  <2>3. QED
    BY <2>1, <2>2
<1>3. ASSUME NEW d \in closing'
      PROVE  branch'[d] \in PRs
  BY <1>1, <1>3, ClosingArePreviews, RowStays DEF Preview, Standing
<1>4. QED
  BY <1>2, <1>3 DEF Standing, Preview

\* A production rollback is ready at once and stays so, whatever fails: no
\* late build report, no teardown that lists rows while they change and no
\* preview clean-up touches its row.
THEOREM RollbackReady == Spec => RollbackStaysReady
<1>1. Init => Standing
  BY DEF Init, Standing, None
<1>2. IInv /\ Delivery /\ Standing /\ [Next]_vars =>
         [\A r \in Deploys : rollbackOf[r] # None /\ ~Preview(r)
                                => status'[r] = "ready"]_vars
  BY RollbackKept DEF Standing
<1>3. QED
  BY <1>1, <1>2, IInvInit, IInvStep, DeliveryInit, DeliveryStep, StandingStep,
     PTL DEF Spec, RollbackStaysReady

-----------------------------------------------------------------------------
(* When no call is lost                                                    *)

\* Past the registry's call the tag is registered, and so is what a rollback
\* request has read.
Registered ==
    /\ ReadyIsRegistered
    /\ \A d \in Deploys : job[d] = "registered" => tag[d] \in images
    /\ target # None => image[target] \in images

\* A rollback copies a registered image; the registry forgets none.
LEMMA RegisteredStep ==
    ASSUME "http" \notin Faults, IInv, Delivery, Registered, [Next]_vars
    PROVE  Registered'
<1> USE DEF Registered, ReadyIsRegistered
<1>1. TypeOK
  BY DEF IInv
<1>2. CASE Requests
  <2>1. ASSUME NEW d \in Deploys, NEW b \in PRs \cup {Main}, NEW t \in Tags,
               Create(d, b, t)
        PROVE  Registered'
    BY <1>1, <2>1 DEF IInv, TypeOK, Existing, Create, Fresh, work
  <2>2. ASSUME NEW t \in Deploys, ReadTarget(t), t \in Rollbackable
        PROVE  Registered'
    BY <1>1, <2>2 DEF ReadTarget, Rollbackable, TypeOK, row, work
  <2>3. ASSUME NEW b \in PRs, FindPreviewByBranch(b)
        PROVE  Registered'
    BY <2>3 DEF FindPreviewByBranch, store, row, fixed, work
  <2>4. ASSUME NEW n \in Deploys, ExpirePreviews(n)
        PROVE  Registered'
    BY <1>1, <2>4 DEF ExpirePreviews, TypeOK, fixed, work
  <2>5. QED
    BY <1>2, <2>1, <2>2, <2>3, <2>4
       DEF Requests, Rollback, RollbackTo, LatestSuccessful
<1>3. ASSUME NEW e \in Deploys, DeployStep(e)
      PROVE  Registered'
  <2>1. CASE CreateRollback(e)
    <3>1. /\ status[e] = "absent" /\ job[e] = "none" /\ target \in Deploys
          /\ image[target] \in images
      BY <1>1, <2>1 DEF CreateRollback, Fresh, IInv, Existing, TypeOK
    <3>2. /\ status' = [status EXCEPT ![e] = "ready"]
          /\ image' = [image EXCEPT ![e] = image[target]]
          /\ tag' = [tag EXCEPT ![e] = tag[target]]
          /\ target' = None /\ job' = job /\ images' = images
      BY <2>1 DEF CreateRollback, work
    <3>3. QED
      BY <1>1, <3>1, <3>2 DEF TypeOK
  <2>2. CASE MarkBuilding(e) \/ MarkRefused(e)
    <3>1. UNCHANGED <<image, tag, target, job, images>>
      BY <2>2 DEF MarkBuilding, MarkRefused, UpdateStatus, row, fixed, work
    <3>2. \A d \in Deploys : status'[d] = "ready" => status[d] = "ready"
      BY <1>1, <2>2 DEF MarkBuilding, MarkRefused, UpdateStatus, TypeOK, row
    <3>3. QED
      BY <3>1, <3>2
  <2>3. CASE ClosePreview(e)
    BY <1>1, <2>3 DEF ClosePreview, UpdateStatus, TypeOK, fixed, work
  <2>4. CASE InsertBuild(e) \/ PublishJob(e) \/ FailUnqueuedBuild(e) \/ PostRefused(e)
             \/ AnnounceRollback(e) \/ TeardownResources(e)
    BY <2>4 DEF InsertBuild, PublishJob, FailUnqueuedBuild, PostRefused,
                AnnounceRollback, TeardownResources, store, row, fixed, work
  <2>5. QED
    BY <1>3, <2>1, <2>2, <2>3, <2>4 DEF DeployStep
<1>4. ASSUME NEW e \in Deploys, JobStep(e)
      PROVE  Registered'
  <2>1. CASE RegisterImage(e)
    <3>1. /\ images' = images \cup {tag[e]}
          /\ job' = [job EXCEPT ![e] = "registered"]
          /\ UNCHANGED <<status, image, tag, target>>
      BY <2>1 DEF RegisterImage, store, row, fixed
    <3>2. QED
      BY <1>1, <3>1 DEF TypeOK
  <2>2. CASE UpdateDeploy(e)
    <3>1. UNCHANGED <<tag, target, images>>
      BY <2>2 DEF UpdateDeploy, fixed
    <3>2. \A d \in Deploys : job'[d] = "registered" => job[d] = "registered"
      BY <1>1, <2>2 DEF UpdateDeploy, TypeOK
    <3>3. CASE job[e] = "registered"
      <4>1. /\ status' = [status EXCEPT ![e] = "ready"]
            /\ image' = [image EXCEPT ![e] = tag[e]] \/ image' = image
            /\ tag[e] = NoImage \/ image' = [image EXCEPT ![e] = tag[e]]
        BY <2>2, <3>3 DEF UpdateDeploy, UpdateStatus
      <4>2. tag[e] \in images /\ tag[e] \in Tags
        BY <3>3 DEF IInv, Existing
      <4>3. QED
        BY <1>1, <3>1, <3>2, <4>1, <4>2, PipelineAssumption
           DEF PipelineAssumption, TypeOK
    <3>4. CASE job[e] = "failing"
      <4>1. status' = [status EXCEPT ![e] = "failed"] /\ image' = image
        BY <2>2, <3>4 DEF UpdateDeploy, UpdateStatus
      <4>2. QED
        BY <1>1, <3>1, <3>2, <4>1 DEF TypeOK
    <3>5. QED
      BY <2>2, <3>3, <3>4 DEF UpdateDeploy
  <2>3. CASE BuildImage(e) \/ ReportBuild(e) \/ TellDeploy(e)
    <3>1. UNCHANGED <<status, image, tag, target, images>>
      BY <2>3 DEF BuildImage, ReportBuild, TellDeploy, store, row, fixed
    <3>2. \A d \in Deploys : job'[d] = "registered" => job[d] = "registered"
      BY <1>1, <2>3 DEF BuildImage, ReportBuild, TellDeploy, TypeOK
    <3>3. QED
      BY <3>1, <3>2
  <2>4. QED
    BY <1>4, <2>1, <2>2, <2>3 DEF JobStep
<1>5. ASSUME NEW w \in Workers, ReadGroup(w) \/ StartJob(w)
      PROVE  Registered'
  <2>1. UNCHANGED <<status, image, tag, target, images>>
    BY <1>5 DEF ReadGroup, StartJob, store, row, fixed, work
  <2>2. \A d \in Deploys : job'[d] = "registered" => job[d] = "registered"
    BY <1>1, <1>5 DEF ReadGroup, StartJob, TypeOK, work
  <2>3. QED
    BY <2>1, <2>2
<1>6. CASE FaultStep
  <2>1. UNCHANGED <<status, image, tag, images>> /\ target' \in {target, None}
    BY <1>6 DEF FaultStep, PublishJobError, EnqueueTimeout, HandlerDies,
       ReportLost, WorkerCrash, DropTarget, TeardownDies, store, row, fixed, work
  <2>2. \A d \in Deploys : job'[d] = "registered" => job[d] = "registered"
    BY <1>1, <1>6 DEF TypeOK, FaultStep, PublishJobError, EnqueueTimeout,
       HandlerDies, ReportLost, WorkerCrash, DropTarget, TeardownDies, work
  <2>3. QED
    BY <2>1, <2>2
<1>7. CASE UNCHANGED vars
  BY <1>7 DEF vars, store, row, fixed, work
<1>8. QED
  BY <1>2, <1>3, <1>4, <1>5, <1>6, <1>7 DEF Next

\* When no call is lost, a deployment is ready only after its image was
\* registered, whatever else fails: the worker calls the registry before the
\* deployment service, and a rollback copies an image that went that way.
THEOREM ReadyRegistered ==
    ASSUME "http" \notin Faults
    PROVE  Spec => []ReadyIsRegistered
<1>1. Init => Registered
  BY DEF Init, Registered, ReadyIsRegistered, None
<1>2. IInv /\ Delivery /\ Registered /\ [Next]_vars => Registered'
  BY RegisteredStep
<1>3. Registered => ReadyIsRegistered
  BY DEF Registered
<1>4. QED
  BY <1>1, <1>2, <1>3, IInvInit, IInvStep, DeliveryInit, DeliveryStep, PTL
     DEF Spec

\* No build is refused; the final word on GitHub was the goroutine's last act,
\* or came with the rollback's row.
Verdicts ==
    /\ \A d \in Deploys : pc[d] \notin {"pubfail", "refused", "unposted"}
    /\ \A d \in Deploys : status[d] = "absent" => posted[d] = "none"
    /\ \A d \in Deploys : posted[d] \in {"success", "failure"} =>
                             job[d] = "done" \/ rollbackOf[d] # None

\* A goroutine that is done stays so.
LEMMA DoneStays ==
    ASSUME IInv, Delivery, [Next]_vars, NEW d \in Deploys, job[d] = "done"
    PROVE  job'[d] = "done"
<1>1. TypeOK /\ runner[d] = None /\ d \notin Queued
  BY DEF IInv, Delivery, RunnersRun, InOnePlace
<1>2. CASE Requests
  BY <1>2 DEF Requests, Create, Rollback, RollbackTo, ReadTarget,
              FindPreviewByBranch, ExpirePreviews, work
<1>3. ASSUME NEW e \in Deploys, DeployStep(e)
      PROVE  job'[d] = "done"
  BY <1>3 DEF DeployStep, InsertBuild, PublishJob, FailUnqueuedBuild,
     MarkBuilding, MarkRefused, PostRefused, CreateRollback, AnnounceRollback,
     ClosePreview, TeardownResources, work
<1>4. ASSUME NEW e \in Deploys, JobStep(e)
      PROVE  job'[d] = "done"
  BY <1>1, <1>4 DEF TypeOK, JobStep, BuildImage, ReportBuild, RegisterImage,
                    UpdateDeploy, TellDeploy
<1>5. ASSUME NEW w \in Workers, ReadGroup(w) \/ StartJob(w)
      PROVE  job'[d] = "done"
  <2>1. CASE ReadGroup(w)
    BY <2>1 DEF ReadGroup, work
  <2>2. CASE StartJob(w)
    <3>1. batch[w] \in Seq(Deploys) /\ batch[w] # <<>> /\ Distinct(batch[w])
      BY <1>1, <2>2 DEF StartJob, TypeOK, Delivery, InOnePlace
    <3>2. Head(batch[w]) \in Queued
      BY <3>1, TailElements DEF Queued
    <3>3. QED
      BY <1>1, <2>2, <3>2 DEF StartJob, TypeOK
  <2>3. QED
    BY <1>5, <2>1, <2>2
<1>6. CASE FaultStep
  <2>1. ASSUME NEW w \in Workers, WorkerCrash(w)
        PROVE  job'[d] = "done"
    <3>1. d \notin {batch[w][i] : i \in 1 .. Len(batch[w])}
      BY <1>1 DEF Queued, Elements
    <3>2. runner[d] # w
      BY <1>1, PipelineAssumption DEF PipelineAssumption
    <3>3. QED
      BY <2>1, <3>1, <3>2 DEF WorkerCrash
  <2>2. QED
    BY <1>1, <1>6, <2>1 DEF TypeOK, FaultStep, PublishJobError, EnqueueTimeout,
       HandlerDies, ReportLost, DropTarget, TeardownDies, work
<1>7. CASE UNCHANGED vars
  BY <1>7 DEF vars, work
<1>8. QED
  BY <1>2, <1>3, <1>4, <1>5, <1>6, <1>7 DEF Next

\* GitHub hears of a deployment when its row is inserted, and from the report
\* of its build; no build is refused when calls and XADDs get through.
LEMMA Postings ==
    ASSUME Faults \cap {"http", "redis"} = {}, IInv, Delivery, Verdicts,
           [Next]_vars, NEW d \in Deploys
    PROVE  /\ pc'[d] \notin {"pubfail", "refused", "unposted"}
           /\ status'[d] = "absent" => status[d] = "absent"
           /\ \/ posted'[d] = posted[d]
              \/ /\ status[d] = "absent" /\ status'[d] # "absent"
                 /\ posted'[d] = "pending" \/ rollbackOf'[d] # None
              \/ job[d] \in {"tellReady", "tellFailed"} /\ job'[d] = "done"
<1> DEFINE Goal ==
           /\ pc'[d] \notin {"pubfail", "refused", "unposted"}
           /\ status'[d] = "absent" => status[d] = "absent"
           /\ \/ posted'[d] = posted[d]
              \/ /\ status[d] = "absent" /\ status'[d] # "absent"
                 /\ posted'[d] = "pending" \/ rollbackOf'[d] # None
              \/ job[d] \in {"tellReady", "tellFailed"} /\ job'[d] = "done"
<1>1. /\ TypeOK /\ "http" \notin Faults /\ "redis" \notin Faults
      /\ \A e \in Deploys : pc[e] \notin {"pubfail", "refused", "unposted"}
  BY DEF IInv, Verdicts
<1>2. CASE Requests
  <2>1. ASSUME NEW n \in Deploys, ExpirePreviews(n)
        PROVE  Goal
    BY <1>1, <2>1 DEF ExpirePreviews, TypeOK
  <2>2. ASSUME NEW e \in Deploys, NEW b \in PRs \cup {Main}, NEW t \in Tags,
               Create(e, b, t)
        PROVE  Goal
    BY <1>1, <2>2 DEF Create, Fresh, TypeOK
  <2>3. ASSUME NEW t \in Deploys, ReadTarget(t)
        PROVE  Goal
    BY <1>1, <2>3 DEF ReadTarget, row
  <2>4. ASSUME NEW b \in PRs, FindPreviewByBranch(b)
        PROVE  Goal
    BY <1>1, <2>4 DEF FindPreviewByBranch, store, row
  <2>5. QED
    BY <1>2, <2>1, <2>2, <2>3, <2>4 DEF Requests, Rollback, RollbackTo
<1>3. ASSUME NEW e \in Deploys, DeployStep(e)
      PROVE  Goal
  <2>1. CASE CreateRollback(e)
    BY <1>1, <2>1 DEF TypeOK, CreateRollback, Fresh
  <2>2. CASE MarkBuilding(e) \/ ClosePreview(e)
    <3>1. posted' = posted /\ \A f \in Deploys : pc'[f] \in {pc[f], "done"}
      BY <1>1, <2>2 DEF TypeOK, MarkBuilding, ClosePreview
    <3>2. status'[d] = "absent" => status[d] = "absent"
      BY <1>1, <2>2 DEF TypeOK, MarkBuilding, ClosePreview, UpdateStatus, row
    <3>3. QED
      BY <1>1, <3>1, <3>2
  <2>3. CASE InsertBuild(e) \/ PublishJob(e) \/ AnnounceRollback(e)
             \/ TeardownResources(e)
    BY <1>1, <2>3 DEF TypeOK, InsertBuild, PublishJob, AnnounceRollback,
                      TeardownResources, store, row
  <2>4. QED
    BY <1>1, <1>3, <2>1, <2>2, <2>3
       DEF DeployStep, FailUnqueuedBuild, MarkRefused, PostRefused
<1>4. ASSUME NEW e \in Deploys, JobStep(e)
      PROVE  Goal
  <2>1. CASE TellDeploy(e)
    BY <1>1, <2>1 DEF TypeOK, TellDeploy, store, row
  <2>2. CASE UpdateDeploy(e)
    <3>1. status'[d] = "absent" => status[d] = "absent"
      BY <1>1, <2>2 DEF TypeOK, UpdateDeploy, UpdateStatus
    <3>2. QED
      BY <1>1, <2>2, <3>1 DEF UpdateDeploy
  <2>3. QED
    BY <1>1, <1>4, <2>1, <2>2 DEF JobStep, BuildImage, ReportBuild,
                                  RegisterImage, store, row
<1>5. ASSUME NEW w \in Workers, ReadGroup(w) \/ StartJob(w)
      PROVE  Goal
  BY <1>1, <1>5 DEF ReadGroup, StartJob, store, row
<1>6. CASE FaultStep
  BY <1>1, <1>6 DEF TypeOK, FaultStep, PublishJobError, EnqueueTimeout,
     HandlerDies, ReportLost, WorkerCrash, DropTarget, TeardownDies, store, row
<1>7. CASE UNCHANGED vars
  BY <1>1, <1>7 DEF vars, store, row
<1>8. QED
  BY <1>2, <1>3, <1>4, <1>5, <1>6, <1>7 DEF Next

\* So a verdict is only ever given by what has ended.
LEMMA VerdictsStep ==
    ASSUME Faults \cap {"http", "redis"} = {}, IInv, Delivery, Verdicts,
           [Next]_vars
    PROVE  Verdicts'
<1> SUFFICES ASSUME NEW d \in Deploys
             PROVE  /\ pc'[d] \notin {"pubfail", "refused", "unposted"}
                    /\ status'[d] = "absent" => posted'[d] = "none"
                    /\ posted'[d] \in {"success", "failure"} =>
                          job'[d] = "done" \/ rollbackOf'[d] # None
  BY DEF Verdicts
<1>1. /\ pc'[d] \notin {"pubfail", "refused", "unposted"}
      /\ status'[d] = "absent" => status[d] = "absent"
      /\ \/ posted'[d] = posted[d]
         \/ /\ status[d] = "absent" /\ status'[d] # "absent"
            /\ posted'[d] = "pending" \/ rollbackOf'[d] # None
         \/ job[d] \in {"tellReady", "tellFailed"} /\ job'[d] = "done"
  BY Postings
<1>2. job[d] = "done" => job'[d] = "done"
  BY DoneStays
<1>3. status[d] # "absent" => rollbackOf'[d] = rollbackOf[d]
  BY RowStays DEF IInv
<1>4. status[d] = "absent" => job[d] = "none" /\ posted[d] = "none"
  BY DEF IInv, Existing, Verdicts
<1>5. posted[d] \in {"success", "failure"} => job[d] = "done" \/ rollbackOf[d] # None
  BY DEF Verdicts
<1>6. QED
  BY <1>1, <1>2, <1>3, <1>4, <1>5

\* When no call and no XADD is lost, the first verdict GitHub gets of a
\* deployment is the last, however requests, builds, crashes, rollbacks and
\* teardowns interleave.
THEOREM VerdictIsFinal ==
    ASSUME Faults \cap {"http", "redis"} = {}
    PROVE  Spec => PostedIsFinal
<1>1. Init => Verdicts
  BY DEF Init, Verdicts
<1>2. IInv /\ Delivery /\ Verdicts /\ [Next]_vars => Verdicts'
  BY VerdictsStep
<1>3. IInv /\ Delivery /\ Verdicts /\ [Next]_vars =>
         [\A d \in Deploys : posted[d] \in {"success", "failure"}
                                => posted'[d] = posted[d]]_vars
  <2> SUFFICES ASSUME IInv, Delivery, Verdicts, [Next]_vars, NEW d \in Deploys,
                      posted[d] \in {"success", "failure"}
               PROVE  posted'[d] = posted[d]
    OBVIOUS
  <2>1. status[d] # "absent"
    BY DEF Verdicts
  <2>2. job[d] = "done" \/ job[d] = "none"
    BY DEF Verdicts, Delivery, NotPublished
  <2>3. QED
    BY <2>1, <2>2, Postings
<1>4. QED
  BY <1>1, <1>2, <1>3, IInvInit, IInvStep, DeliveryInit, DeliveryStep, PTL
     DEF Spec, PostedIsFinal

=============================================================================
