--------------------------- MODULE RuntimeControl ---------------------------
(***************************************************************************)
(* From `deploy.updated' to containers: the runtime service and everybody  *)
(* who calls it about one project.                                         *)
(*                                                                         *)
(*   "deploy"    the scheduler's loop on jp.deploy, one event at a time    *)
(*   "health"    its health loop, every 20 s                               *)
(*   "cron"      its jobs consumer                                         *)
(*   "teardown"  the deployment service, closing a preview                 *)
(*   "user"      the runtime API                                           *)
(*                                                                         *)
(* The runtime's handlers take no lock: each reads rows of                 *)
(* runtime_instances, calls the Docker engine, and writes whole rows back  *)
(* from what it has in memory.  A handler is modelled up to those reads,   *)
(* engine calls and writes; every caller has one call in flight at most.   *)
(*                                                                         *)
(* Instances are 1, 2, ... in the order of `created_at'; a deployment goes  *)
(* by the place of its event on jp.deploy, where it has one at most        *)
(* (module ReleaseLog).  The image of an instance is the image of its      *)
(* deployment, or, when it has none, the one its cron job or user named.   *)
(***************************************************************************)
EXTENDS Naturals, Sequences, FiniteSets

CONSTANTS MaxDeploys,        \* the deployments that may be announced
          MaxInstances,      \* the rows a behaviour inserts
          MaxStarts,         \* the containers it creates
          MaxRequests,       \* the cron triggers and user requests together
          Kinds,             \* FALSE: production may be released, TRUE: previews
          Strategies,        \* what production deployments may ask for
          PreviewStrategies, \* what previews may ask for
          Callers,           \* who calls the runtime
          Faults             \* the faults that may happen

Deploys   == 1 .. MaxDeploys
Instances == 1 .. MaxInstances
None      == 0

CallerKinds   == {"deploy", "health", "cron", "teardown", "user"}
StrategyKinds == {"rolling", "blue_green"}
FaultKinds    == {"engine_start",  \* docker create or start fails
                  "engine_stop",   \* docker stop fails
                  "timeout",       \* a call is cut off half way
                  "exit"}          \* a container dies by itself

ASSUME RuntimeAssumption ==
    /\ MaxDeploys \in Nat
    /\ MaxInstances \in Nat
    /\ MaxStarts \in Nat
    /\ MaxRequests \in Nat
    /\ Kinds \subseteq BOOLEAN
    /\ Strategies \subseteq StrategyKinds
    /\ PreviewStrategies \subseteq StrategyKinds
    /\ Callers \subseteq CallerKinds
    /\ Faults \subseteq FaultKinds

VARIABLES
    log,       \* the deploy.updated events on jp.deploy, event d of deployment d
    cursor,    \* how many of them the scheduler has read
    crons,     \* how many cron triggers there have been
    uses,      \* how many requests of users
    row,       \* table runtime_instances
    up,        \* the containers that run
    started,   \* how many containers were ever started
    step,      \* what each caller's handler does next
    req,       \* the start request it serves
    prev,      \* the row it took for the active one
    cur,       \* the row it works on
    listed,    \* the rows the health loop has listed and not yet checked
    checking,  \* the instance it checks
    report,    \* the status it will report for it
    dying      \* the rows a teardown has listed and not yet stopped

calls  == <<step, req, prev, cur>>
health == <<listed, checking, report>>
world  == <<log, cursor, crons, uses>>
vars   == <<world, row, up, started, calls, health, dying>>

-----------------------------------------------------------------------------
(* Rows, requests and containers                                           *)

NoName == <<"none", 0>>
Blue   == <<"blue", 0>>
Green  == <<"green", 0>>

Names == {NoName, Blue, Green}
         \cup {<<"own", i>> : i \in Instances}
         \cup {<<"preview", d>> : d \in Deploys}

Row == [id : Instances \cup {None},
        status  : {"absent", "desired", "running", "failed", "stopped"},
        desired : {"running", "stopped"},
        cid     : 0 .. MaxStarts,
        name    : Names,
        dep     : Deploys \cup {None},
        preview : BOOLEAN,
        policy  : {"on-failure", "never"}]

NoRow == [id |-> None, status |-> "absent", desired |-> "stopped", cid |-> 0,
          name |-> NoName, dep |-> None, preview |-> FALSE,
          policy |-> "on-failure"]

Request(d, p, s, restart) ==
    [dep |-> d, preview |-> p, strategy |-> s, policy |-> restart]

Requests == [dep : Deploys \cup {None}, preview : BOOLEAN,
             strategy : StrategyKinds, policy : {"on-failure", "never"}]

NoRequest == Request(None, FALSE, "rolling", "on-failure")

Present == {i \in Instances : row[i].status # "absent"}

TypeOK ==
    /\ log      \in Seq([status : {"ready", "failed"}, preview : BOOLEAN,
                         strategy : StrategyKinds])
    /\ Len(log) <= MaxDeploys
    /\ cursor   \in 0 .. Len(log)
    /\ crons    \in 0 .. MaxRequests
    /\ uses     \in 0 .. MaxRequests
    /\ row      \in [Instances -> Row]
    /\ up       \in SUBSET [cid : 1 .. MaxStarts, name : Names, inst : Instances]
    /\ started  \in 0 .. MaxStarts
    /\ step     \in [CallerKinds -> {"idle", "retire", "insert", "engine",
                                     "record", "flip", "patch", "stopping"}]
    /\ req      \in [CallerKinds -> Requests]
    /\ prev     \in [CallerKinds -> Row]
    /\ cur      \in [CallerKinds -> Row]
    /\ listed   \in SUBSET Row
    /\ checking \in Instances \cup {None}
    /\ report   \in {"running", "failed", "desired", "stopped"}
    /\ dying    \in SUBSET Row

Init ==
    /\ log      = <<>>
    /\ cursor   = 0
    /\ crons    = 0
    /\ uses     = 0
    /\ row      = [i \in Instances |-> NoRow]
    /\ up       = {}
    /\ started  = 0
    /\ step     = [c \in CallerKinds |-> "idle"]
    /\ req      = [c \in CallerKinds |-> NoRequest]
    /\ prev     = [c \in CallerKinds |-> NoRow]
    /\ cur      = [c \in CallerKinds |-> NoRow]
    /\ listed   = {}
    /\ checking = None
    /\ report   = "running"
    /\ dying    = {}

-----------------------------------------------------------------------------
(* The store and the engine                                                *)

\* Update writes every column from the struct in memory.
Save(x) == row' = [row EXCEPT ![x.id] = x]

Stopped(x) == [x EXCEPT !.status = "stopped", !.desired = "stopped"]

Newest(S) == CHOOSE x \in S : \A y \in S : y.id <= x.id

\* Mutant: the query forgets that previews do not count.
FindActiveOfAnyKind ==
    LET active == {row[i] : i \in {j \in Present : row[j].desired = "running"}}
    IN IF active = {} THEN NoRow ELSE Newest(active)

\* The newest production row that is desired to run, whatever its status.
FindActiveByProject ==
    LET active == {row[i] : i \in {j \in Present : /\ row[j].desired = "running"
                                                   /\ ~row[j].preview}}
    IN IF active = {} THEN NoRow ELSE Newest(active)

\* The handlers that start or tear down drop the error.
EngineStop(x) ==
    \/ up' = {k \in up : k.cid # x.cid}
    \/ "engine_stop" \in Faults /\ UNCHANGED up

\* StartWithConfig first removes whatever has the name.
Others(name) == {k \in up : k.name # name}

\* The handler returns and its variables die.
Done(c) ==
    /\ step' = [step EXCEPT ![c] = "idle"]
    /\ req'  = [req EXCEPT ![c] = NoRequest]
    /\ prev' = [prev EXCEPT ![c] = NoRow]
    /\ cur'  = [cur EXCEPT ![c] = NoRow]

-----------------------------------------------------------------------------
(* InternalStart                                                           *)

\* Every call in flight that has not started its container may still take a
\* row and a container (bounds MaxInstances and MaxStarts).
Starting == {c \in Callers : step[c] \in {"retire", "insert", "engine"}}

Room == /\ Cardinality(Instances \ Present) > Cardinality(Starting)
        /\ started + Cardinality(Starting) < MaxStarts

\* Mutant: a preview has a predecessor too.
StartCallStops(c, r) ==
    LET p == FindActiveByProject IN
    /\ step[c] = "idle"
    /\ Room
    /\ req'  = [req EXCEPT ![c] = r]
    /\ prev' = [prev EXCEPT ![c] = p]
    /\ step' = [step EXCEPT ![c] =
                   IF p # NoRow /\ r.strategy = "rolling" THEN "retire"
                                                          ELSE "insert"]
    /\ UNCHANGED cur

\* A preview has no predecessor; a rolling start stops it first, a
\* blue/green start keeps it for the flip.
StartCall(c, r) ==
    LET p == IF r.preview THEN NoRow ELSE FindActiveByProject IN
    /\ step[c] = "idle"
    /\ Room
    /\ req'  = [req EXCEPT ![c] = r]
    /\ prev' = [prev EXCEPT ![c] = p]
    /\ step' = [step EXCEPT ![c] =
                   IF p # NoRow /\ r.strategy = "rolling" THEN "retire"
                                                          ELSE "insert"]
    /\ UNCHANGED cur

\* Mutant: the flip looks for the active row again, and finds the new one.
RetireActive(c) ==
    LET p == IF step[c] = "flip" THEN FindActiveByProject ELSE prev[c] IN
    /\ step[c] \in {"retire", "flip"}
    /\ EngineStop(p)
    /\ Save(Stopped(p))
    /\ \/ /\ step[c] = "retire"
          /\ step' = [step EXCEPT ![c] = "insert"]
          /\ prev' = [prev EXCEPT ![c] = NoRow]
          /\ UNCHANGED <<req, cur>>
       \/ step[c] = "flip" /\ Done(c)
    /\ UNCHANGED <<world, started, health, dying>>

\* Stop the predecessor: before a rolling start, after a blue/green one.
Retire(c) ==
    /\ step[c] \in {"retire", "flip"}
    /\ EngineStop(prev[c])
    /\ Save(Stopped(prev[c]))
    /\ \/ /\ step[c] = "retire"
          /\ step' = [step EXCEPT ![c] = "insert"]
          /\ prev' = [prev EXCEPT ![c] = NoRow]
          /\ UNCHANGED <<req, cur>>
       \/ step[c] = "flip" /\ Done(c)
    /\ UNCHANGED <<world, started, health, dying>>

\* The name goes by the strategy first: a blue/green preview, which has no
\* predecessor, is called blue.
ContainerName(r, p, i) ==
    IF r.strategy = "blue_green"
    THEN IF p # NoRow /\ p.name # Green THEN Green ELSE Blue
    ELSE IF r.preview THEN <<"preview", r.dep>> ELSE <<"own", i>>

NewRow(i, r) == [id |-> i, status |-> "desired", desired |-> "running",
                 cid |-> 0, name |-> NoName, dep |-> r.dep,
                 preview |-> r.preview, policy |-> r.policy]

NextId == CHOOSE i \in Instances \ Present : \A j \in Instances \ Present : i <= j

\* The row is inserted without the name; the name is chosen afterwards.
Insert(c) ==
    /\ step[c] = "insert"
    /\ Save(NewRow(NextId, req[c]))
    /\ cur'  = [cur EXCEPT ![c] =
                   [NewRow(NextId, req[c]) EXCEPT
                       !.name = ContainerName(req[c], prev[c], NextId)]]
    /\ step' = [step EXCEPT ![c] = "engine"]
    /\ UNCHANGED <<world, up, started, req, prev, health, dying>>

\* startInstance: the engine call ...
StartContainer(c) ==
    LET x == cur[c] IN
    /\ step[c] = "engine"
    /\ step' = [step EXCEPT ![c] = "record"]
    /\ \/ /\ started' = started + 1
          /\ up'  = Others(x.name) \cup
                    {[cid |-> started', name |-> x.name, inst |-> x.id]}
          /\ cur' = [cur EXCEPT ![c].cid = started', ![c].status = "running",
                                ![c].desired = "running"]
       \/ /\ "engine_start" \in Faults
          /\ up'  \in {up, Others(x.name)}
          /\ cur' = [cur EXCEPT ![c].status = "failed"]
          /\ UNCHANGED started
    /\ UNCHANGED <<world, row, req, prev, health, dying>>

\* ... and the row.  A failed start ends the call: no flip.
Record(c) ==
    /\ step[c] = "record"
    /\ Save(cur[c])
    /\ IF cur[c].status = "running" /\ prev[c] # NoRow
       THEN step' = [step EXCEPT ![c] = "flip"] /\ UNCHANGED <<req, prev, cur>>
       ELSE Done(c)
    /\ UNCHANGED <<world, up, started, health, dying>>

-----------------------------------------------------------------------------
(* The scheduler's loop on jp.deploy                                       *)

\* DeployPipeline, as module ReleaseLog lets the scheduler see it.
Announce(s, preview, strategy) ==
    /\ Len(log) < MaxDeploys
    /\ preview \in Kinds
    /\ strategy \in IF preview THEN PreviewStrategies ELSE Strategies
    /\ log' = Append(log, [status |-> s, preview |-> preview,
                           strategy |-> strategy])
    /\ UNCHANGED <<cursor, crons, uses, row, up, started, calls, health, dying>>

NextEvent == log[cursor + 1]

\* Mutant: the event's status is not looked at.
StartFromAnyEvent ==
    /\ "deploy" \in Callers
    /\ cursor < Len(log)
    /\ StartCall("deploy", Request(cursor + 1, NextEvent.preview,
                                   NextEvent.strategy, "on-failure"))
    /\ cursor' = cursor + 1
    /\ UNCHANGED <<log, crons, uses, row, up, started, health, dying>>

\* The event is acknowledged whatever comes of the call.
StartFromEvent ==
    /\ "deploy" \in Callers
    /\ cursor < Len(log)
    /\ NextEvent.status = "ready"
    /\ StartCall("deploy", Request(cursor + 1, NextEvent.preview,
                                   NextEvent.strategy, "on-failure"))
    /\ cursor' = cursor + 1
    /\ UNCHANGED <<log, crons, uses, row, up, started, health, dying>>

\* Mutant: an event that comes while a start is under way is dropped.
SkipEventWhenBusy ==
    /\ "deploy" \in Callers
    /\ cursor < Len(log)
    /\ step["deploy"] = "idle" => NextEvent.status # "ready"
    /\ cursor' = cursor + 1
    /\ UNCHANGED <<log, crons, uses, row, up, started, calls, health, dying>>

SkipEvent ==
    /\ "deploy" \in Callers
    /\ step["deploy"] = "idle"
    /\ cursor < Len(log)
    /\ NextEvent.status # "ready"
    /\ cursor' = cursor + 1
    /\ UNCHANGED <<log, crons, uses, row, up, started, calls, health, dying>>

-----------------------------------------------------------------------------
(* The health loop                                                         *)

\* InternalDesired.
ListDesired ==
    /\ "health" \in Callers
    /\ step["health"] = "idle"
    /\ checking = None
    /\ listed = {}
    /\ listed' = {row[i] : i \in {j \in Present : row[j].desired = "running"}}
    /\ listed' # {}
    /\ UNCHANGED <<world, row, up, started, calls, checking, report, dying>>

\* Mutant: the restart policy is not looked at.
UnhealthyAlways(x) == x.status # "running"

Unhealthy(x) == x.status # "running" /\ x.policy = "on-failure"

\* An unhealthy instance is started again as a new one: rolling, and not a
\* preview, since the request says neither.  The old row is then reported as
\* running.
Restart(x) ==
    /\ x \in listed
    /\ checking = None
    /\ Unhealthy(x)
    /\ StartCall("health", Request(x.dep, FALSE, "rolling", x.policy))
    /\ listed'   = listed \ {x}
    /\ checking' = x.id
    /\ report'   = "running"
    /\ UNCHANGED <<world, row, up, started, dying>>

\* Otherwise the status that was listed is reported back.
Confirm(x) ==
    /\ x \in listed
    /\ checking = None
    /\ step["health"] = "idle"
    /\ ~Unhealthy(x)
    /\ listed'   = listed \ {x}
    /\ checking' = x.id
    /\ report'   = x.status
    /\ UNCHANGED <<world, row, up, started, calls, dying>>

\* InternalHealth reads the row ...
ReadForPatch ==
    /\ step["health"] = "idle"
    /\ checking # None
    /\ cur'  = [cur EXCEPT !["health"] = row[checking]]
    /\ step' = [step EXCEPT !["health"] = "patch"]
    /\ UNCHANGED <<world, row, up, started, req, prev, health, dying>>

\* ... and writes it back with the reported status.
Patch ==
    /\ step["health"] = "patch"
    /\ Save([cur["health"] EXCEPT !.status = report])
    /\ Done("health")
    /\ checking' = None
    /\ report'   = "running"
    /\ UNCHANGED <<world, up, started, listed, dying>>

-----------------------------------------------------------------------------
(* Cron jobs, teardowns and the runtime API                                *)

\* Neither a preview nor a strategy in the request, so a rolling start.
StartCronJob ==
    /\ "cron" \in Callers
    /\ crons + uses < MaxRequests
    /\ crons' = crons + 1
    /\ StartCall("cron", Request(None, FALSE, "rolling", "never"))
    /\ UNCHANGED <<log, cursor, uses, row, up, started, health, dying>>

\* InternalStopByDeployment: the rows a preview still has are listed ...
FindByDeploymentID(d) ==
    /\ "teardown" \in Callers
    /\ d \in 1 .. Len(log)
    /\ log[d].preview
    /\ dying = {}
    /\ dying' = {row[i] : i \in {j \in Present : row[j].dep = d /\
                                   row[j] # Stopped(row[j])}}
    /\ UNCHANGED <<log, cursor, crons, uses, row, up, started, calls, health>>

\* ... and stopped one by one.
StopByDeployment ==
    LET x == Newest(dying) IN
    /\ dying # {}
    /\ EngineStop(x)
    /\ Save(Stopped(x))
    /\ dying' = dying \ {x}
    /\ UNCHANGED <<world, started, calls, health>>

UserRequest ==
    /\ "user" \in Callers
    /\ step["user"] = "idle"
    /\ crons + uses < MaxRequests
    /\ uses' = uses + 1
    /\ UNCHANGED <<log, cursor, crons>>

\* Create, with and without `start'.  A deployment id that the user may put
\* in the request is left out.
UserCreate ==
    /\ UserRequest
    /\ Room
    /\ step' = [step EXCEPT !["user"] = "insert"]
    /\ UNCHANGED <<row, up, started, req, prev, cur, health, dying>>

UserCreateStopped ==
    /\ UserRequest
    /\ Room
    /\ Save(NewRow(NextId, NoRequest))
    /\ UNCHANGED <<up, started, calls, health, dying>>

\* Start takes the row as it finds it, its container's name included.
UserStart(i) ==
    /\ UserRequest
    /\ i \in Present
    /\ started + Cardinality(Starting) < MaxStarts
    /\ cur'  = [cur EXCEPT !["user"] =
                   [row[i] EXCEPT !.desired = "running",
                                  !.name = IF @ = NoName THEN <<"own", i>> ELSE @]]
    /\ step' = [step EXCEPT !["user"] = "engine"]
    /\ UNCHANGED <<row, up, started, req, prev, health, dying>>

UserStop(i) ==
    /\ UserRequest
    /\ i \in Present
    /\ cur'  = [cur EXCEPT !["user"] = row[i]]
    /\ step' = [step EXCEPT !["user"] = "stopping"]
    /\ UNCHANGED <<row, up, started, req, prev, health, dying>>

\* Mutant: a stop that fails records the engine's word for it.
UserStoppedExited ==
    LET x == cur["user"] IN
    /\ step["user"] = "stopping"
    /\ Done("user")
    /\ \/ /\ up' = {k \in up : k.cid # x.cid}
          /\ Save(Stopped(x))
       \/ /\ "engine_stop" \in Faults
          /\ Save([x EXCEPT !.desired = "stopped", !.status = "exited"])
          /\ UNCHANGED up
    /\ UNCHANGED <<world, started, health, dying>>

UserStopped ==
    LET x == cur["user"] IN
    /\ step["user"] = "stopping"
    /\ Done("user")
    /\ \/ /\ up' = {k \in up : k.cid # x.cid}
          /\ Save(Stopped(x))
       \/ /\ "engine_stop" \in Faults
          /\ Save([x EXCEPT !.desired = "stopped", !.status = "failed"])
          /\ UNCHANGED up
    /\ UNCHANGED <<world, started, health, dying>>

-----------------------------------------------------------------------------
(* Faults                                                                  *)

\* The client's timeout, or a restart of either side: the request's context
\* is cancelled, so the handler does nothing more.  The health loop reports
\* a start that was cut off as failed and never misses a lost patch.
Abandon(c) ==
    /\ "timeout" \in Faults
    /\ step[c] # "idle"
    /\ Done(c)
    /\ IF c # "health" THEN UNCHANGED <<checking, report>>
       ELSE IF step[c] = "patch" THEN checking' = None /\ report' = "running"
       ELSE report' = "failed" /\ UNCHANGED checking
    /\ UNCHANGED <<world, row, up, started, listed, dying>>

AbandonTeardown ==
    /\ "timeout" \in Faults
    /\ dying # {}
    /\ dying' = {}
    /\ UNCHANGED <<world, row, up, started, calls, health>>

ContainerExits(k) ==
    /\ "exit" \in Faults
    /\ up' = up \ {k}
    /\ UNCHANGED <<world, row, started, calls, health, dying>>

-----------------------------------------------------------------------------
CallStep(c) == Retire(c) \/ Insert(c) \/ StartContainer(c) \/ Record(c)

DeployLoop == StartFromEvent \/ SkipEvent

HealthLoop == \/ ListDesired
              \/ \E x \in listed : Restart(x) \/ Confirm(x)
              \/ ReadForPatch
              \/ Patch

Teardown == (\E d \in Deploys : FindByDeploymentID(d)) \/ StopByDeployment

User == \/ UserCreate \/ UserCreateStopped
        \/ \E i \in Instances : UserStart(i) \/ UserStop(i)
        \/ UserStopped

FaultStep == \/ \E c \in Callers : Abandon(c)
             \/ AbandonTeardown
             \/ \E k \in up : ContainerExits(k)

Next ==
    \/ \E s \in {"ready", "failed"}, preview \in BOOLEAN,
          strategy \in StrategyKinds : Announce(s, preview, strategy)
    \/ \E c \in Callers : CallStep(c)
    \/ DeployLoop \/ HealthLoop \/ StartCronJob \/ Teardown \/ User
    \/ FaultStep

Spec == Init /\ [][Next]_vars

\* The loops and the handlers that can move do move; nobody has to announce,
\* tear down, trigger or use anything.
Fairness == /\ \A c \in Callers : WF_vars(CallStep(c))
            /\ WF_vars(DeployLoop)
            /\ WF_vars(HealthLoop)
            /\ WF_vars(StopByDeployment)

FairSpec == Spec /\ Fairness

-----------------------------------------------------------------------------
(* Properties                                                              *)

\* Only releases run: a container of a deployment is there because a ready
\* event announced it, through all the restarts and whole-row writes, as
\* long as users do not name deployments in requests of their own.
OnlyReleasesRun ==
    \A k \in up : LET d == row[k.inst].dep IN
        d # None => d <= cursor /\ log[d].status = "ready"

\* A cron job runs once per trigger: the health loop never runs it again,
\* although its row stays desired to run for ever.
CronRunsOnce ==
    Cardinality({i \in Present : row[i].policy = "never"}) <= crons

Serving == {k \in up : ~row[k.inst].preview}

\* A production instance whose start has failed, or will have.
NeverStarted(i) ==
    /\ i \in Present
    /\ ~row[i].preview
    /\ row[i].cid = 0
    /\ \A c \in Callers : cur[c].id = i => cur[c].status = "failed"

\* A failed blue/green start leaves its row behind as the active one, so the
\* next start misses the predecessor that still runs.  What follows is about
\* all other behaviours.
NoFailedFlip ==
    \/ \A i \in 1 .. Len(log) : log[i].strategy = "rolling"
    \/ \A i \in Instances : ~NeverStarted(i)

\* As long as only releases start production, there is one production
\* container, and two only while a blue/green start has not flipped.
OneProduction ==
    NoFailedFlip =>
        \/ Cardinality(Serving) <= 1
        \/ /\ Cardinality(Serving) = 2
           /\ req["deploy"].strategy = "blue_green"
           /\ step["deploy"] \in {"record", "flip"}

ProductionReleases ==
    {d \in 1 .. cursor : log[d].status = "ready" /\ ~log[d].preview}

\* When the scheduler has handled all it read, production is the last
\* release it read, or, when that did not start, nothing; what a preview
\* does, and when it is torn down, has no say in it.
LastReleaseServes ==
    (NoFailedFlip /\ step["deploy"] = "idle" /\ ProductionReleases # {}) =>
        LET last == CHOOSE d \in ProductionReleases :
                       \A e \in ProductionReleases : e <= d
        IN /\ \A k \in Serving : row[k.inst].dep = last
           /\ (\A i \in Instances : ~NeverStarted(i)) => Serving # {}

ForPreview(c) == req[c].dep # None /\ log[req[c].dep].preview

\* handlers.go: preview instances never stop production, neither when one is
\* started nor when it is torn down: the container ids a teardown has read
\* are of no production container, however many starts there were since.
PreviewNeverStopsProduction ==
    [][(dying' # dying \/ \E c \in CallerKinds : step'[c] # step[c] /\ ForPreview(c))
          => Serving \subseteq Serving']_vars

\* Every release is tried: neither a failed start nor a teardown stops the
\* scheduler's loop, and no event is left over.
EveryReleaseIsTried ==
    \A d \in Deploys :
        (d <= Len(log) /\ log[d].status = "ready")
            ~> (\E i \in Instances : row[i].dep = d)

=============================================================================
