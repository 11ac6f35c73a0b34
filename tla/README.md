# JP Cloud Platform: TLA+ models, checks and proofs

The platform is a self-hosted PaaS: about two dozen Go services, each with its
own tables in one Postgres, talking over HTTP and three Redis Streams
(`jp.build`, `jp.deploy`, `jp.jobs`; `jp.cleanup` besides). This directory
models its core logic in TLA+, checks the models with TLC and proves theorems
about them with TLAPS.

Contents: [1 The system](#1-the-system) · [2 Modules and code](#2-modules-and-code)
· [3 Runs](#3-runs) · [4 Fairness](#4-fairness) · [5 Proofs](#5-proofs) ·
[6 Where documents and code part](#6-where-documents-and-code-part) ·
[7 What is left out](#7-what-is-left-out) · [8 Plan](#8-plan)

Paths are below `services/` unless they start with `packages/` or `docs/`.

## 1 The system

### The path of a release

    GitHub --webhook--> repository --HTTP--> deployment --HTTP--> build
                                                 ^                  | jp.build
                                                 |                  v
                       registry-api <--HTTP-- worker (x N, WORKER_CONCURRENCY each)
                                                 |
             deployment --jp.deploy--> scheduler --HTTP--> runtime --> Docker
                  |                      |   ^                ^
                  +-- teardown ----------|---|----------------+
                                         +-> domain, certificate (preview URLs)

| component | state it keeps | operations | what is hard about it |
|---|---|---|---|
| repository (`repository/internal/handlers`) | connections, hooks | push and pull request webhooks: create a deployment, tear a preview down | GitHub repeats and reorders hooks |
| deployment (`deployment/internal`) | table `deployments` (status, image, branch, rollback_of) | create, from-git, rollback (two kinds), status report, preview teardown, preview clean-up | three handlers write one row with no condition on its old status; each does several writes and calls one after the other |
| build (`build/internal`) | table `builds` | create (row, then job on `jp.build`), status report (row, then outcome on `jp.deploy`) | the row and the stream are written separately |
| worker (`worker/cmd/main.go`) | a semaphore, goroutines; nothing on disk | read the group, build, push, report to three services | crashes between read and acknowledgement; ignored errors |
| events (`packages/events`) | the streams | `PublishJSON`, `ReadGroup`, `Ack` | consumer groups read `>` only: what a dead consumer had read stays pending |
| registry-api | table `images` | register, delete orphans | "orphan" is decided by age, not by use, while builds go on registering |
| scheduler (`scheduler/internal/loop`, `cron`, `cluster`) | Redis keys of schedules; nodes in memory | deploy loop, health loop, job loop, clean-up loop, cron ticker, placement | the loops call the runtime and the registry side by side; the ticker works on copies |
| runtime (`runtime/internal`) | table `runtime_instances`; the Docker engine's containers | start, stop, stop by deployment, health report, list desired | no lock: rows are read, the engine is called, whole rows are written back |
| domain, certificate | tables `domains`, `certificates`; Traefik's files | create, verify, delete, provision preview, issue, renew | DNS and file writes between the read and the write of a row |

### Around it

| component | state it keeps | operations | what is hard about it |
|---|---|---|---|
| identity | users, sessions, personal access tokens; Redis: refresh keys, counters of failed logins | register, login (password, second factor), refresh, revoke, MFA, bootstrap | every handler decides from a row read earlier; a refresh is four calls to two stores |
| organization, project | organizations, members, invitations; projects and their manifests | create, invite, accept; create, update, apply a manifest, delete | the role or the membership that was checked may be gone when the row is written |
| secret | secrets and their numbered, encrypted versions; the master key in memory | create, rotate, rename, delete, read | versions are computed from a row read before the transaction |
| database, addon | a row, a schema or database or vhost on a shared server, and a URL in the secret service | create, delete | three places and no transaction; names are derived, so two requests can meet |
| storage | buckets and objects in MinIO (or in memory), and a table of them | upload, delete | two stores, nothing undone |
| repository (the rest of it) | installations, connections, deploy keys; a cache of GitHub tokens | install, connect, keys, commit status | races of first requests; tokens that expire on the way |
| billing, logging, metrics | events, lines, samples | a consumer of two streams; ingestion over HTTP | crashes between counting and acknowledging |
| gateway, CLI, dashboard | tokens: in a file, in `localStorage` | requests, refresh, sign-in and sign-out | several tabs and commands share one refresh token that works once |
| notification, ai | mails and web hooks; prompts | send; ask | I/O, see section 7 |

`PROJECT.json` lists every component with its state of modelling, and every
hazard met while reading, at its line.

### What must hold

* A build is run and reported at most once, even when workers crash.
* Nothing becomes ready, is announced as ready or is shown as a success on
  GitHub without having been built.
* What the scheduler reads on `jp.deploy` is a log it can act on: at most one
  event of each deployment, ready ones with an image that exists.
* When nothing fails, every queued deployment gets a verdict and an event, and
  every teardown reaches the runtime.
* Production is the last release, alone, or a pair while blue/green flips;
  previews do not touch it.
* Nothing runs that was not released; a cron job runs once a trigger, and is
  triggered once for each time it is due.
* A sign-in gives one usable refresh token at a time, a spent one stays dead,
  and failed logins are bounded; a role goes back to the founder.
* The version a secret names is there, and a reader gets one that was current.
* What is kept outside a row (schemas, objects, routes, keys, timers, images)
  agrees with the row, unless one of the failures named below hit it.
* Nothing is billed twice; no request goes out with a token that has expired;
  the dashboard does not sign its user out by itself.

The first three need several steps of several services to go wrong, each step
an ignored error, a crash or an interleaving: no unit test of the repository
comes near them.

## 2 Modules and code

| module | what it is |
|---|---|
| `ReleaseLog` | abstract: what the scheduler may rely on when it reads `jp.deploy` |
| `DeployPipeline` | deployment, build, worker, the streams between them; implements `ReleaseLog` |
| `RuntimeControl` | the runtime and its five callers; takes its events as `ReleaseLog` gives them |
| `Platform` | the two joined at `jp.deploy` and at the teardown call: a release from the push to its container |
| `Sessions` | identity: refresh tokens, sessions, personal access tokens |
| `SignIn` | identity: registration, login limit, second factor, bootstrap |
| `Tenancy` | organization and project: members, roles, invitations, projects, manifests |
| `SecretVersions` | secret |
| `Provisioning` | database and addon |
| `Buckets` | storage |
| `Domains` | domain and certificate, and what the scheduler asks of them for previews |
| `Schedules` | scheduler: cron schedules, ticker, job loop |
| `Cluster` | scheduler: the table of nodes |
| `Repositories` | repository: installations, connections, deploy keys, tokens |
| `Images` | registry-api and the scheduler's clean-up loop |
| `Metering` | billing, logging, metrics |
| `Console` | dashboard and CLI, with the gateway's answers |
| `MCDeployPipeline`, `MCRuntimeControl`, `MCPlatform`, `MCProvisioning` | instances for TLC |
| `MCAccounts` | `Sessions`, `SignIn`, `Tenancy`, `SecretVersions` for TLC |
| `MCServices` | the other nine for TLC |
| `DeployPipeline_proofs`, `RuntimeControl_proofs`, `Sessions_proofs`, `SignIn_proofs` | theorems about these modules |
| `Platform_proofs` | theorems about `Platform`, from those of its two halves |
| `Accounts_proofs` | theorems about `Tenancy`, `SecretVersions` and the composition in `MCAccounts` |
| `Resources_proofs` | theorems about `Buckets`, `Provisioning`, `Domains` |
| `Services_proofs` | theorems about `Schedules`, `Cluster`, `Repositories`, `Metering`, `Images`, `Console` and the composition in `MCServices` |

`ReleaseLog` is where the two detailed modules meet: `DeployPipeline` is shown
to implement it, `RuntimeControl` assumes it (an event's place on the log is
its deployment's id, which is sound because no deployment is announced twice).
`Platform` puts the two together and takes nothing for granted of either.

Definitions whose comment starts with "Mutant" (`ReadGroupAgain` and the like)
are no part of a specification: each is the mutated form of the definition
that follows it, kept so that one can see that a property notices.

### DeployPipeline

State: one function per column that decides something (`status`, `image`,
`rollbackOf`, `branch`, `tag` of `deployments`; `bld`, the status of
`builds`), the stream `jobs`, what a worker's loop has read (`batch`), the
place each build's goroutine has got to (`job`, `runner`), and the events.
Where a handler does several writes or calls, `pc` (per deployment), `target`
(the row a rollback has read), `closing` and `stopping` (teardown) hold the
place between them, so that any other step may come in between.

| actions | code |
|---|---|
| `Create`, `InsertBuild`, `PublishJob`, `MarkBuilding`, `MarkRefused`, `PostRefused` | `Create`/`FromGit` and `startBuild` of deployment, `InternalCreate` and `publishJob` of build |
| `ReadTarget`, `CreateRollback`, `AnnounceRollback`, `DropTarget` | `Rollback`, `RollbackTo`, `createRollback` |
| `ReadGroup`, `StartJob`, `BuildImage`, `ReportBuild`, `RegisterImage`, `UpdateDeploy`, `TellDeploy` | the worker's loop and `process`; `InternalStatus` of build; `InternalUpdateStatus` of deployment, whose UPDATE and read-back are two steps |
| `FindPreviewByBranch`, `ClosePreview`, `ExpirePreviews`, `TeardownResources` | `InternalPreviewTeardown`, `CleanupPreview`, `teardownResources` |
| `PublishJobError`, `EnqueueTimeout`, `HandlerDies`, `ReportLost`, `WorkerCrash`, `TeardownDies` | the error paths, ignored errors and crashes; `Faults` says which kinds may happen |

Abstractions: an image is its tag (the short SHA, or `latest` for a build
without a commit, which all such builds share); what a tag contains is not
modelled. A build is named by its deployment, which queues at most one.
`built` is history: which builds passed `docker build`. Only one rollback
request is between its read and its insert at a time. GitHub's status is the
last one sent; an answer GitHub refuses is not modelled.

### RuntimeControl

One project. State: the rows (`row`), the containers that run (`up`), and for
each caller what its handler holds in local variables (`req`, `prev`, `cur`)
and does next (`step`). A handler is cut where it reads rows, calls the engine
or writes a row; whole rows are written from memory, as `Store.Update` does.

| actions | code |
|---|---|
| `StartCall`, `Retire`, `Insert`, `StartContainer`, `Record` (and `Retire` again as the flip) | `InternalStart`, `startInstance`, `blueGreenFlipStub`; `StartWithConfig` removes the container of that name first |
| `StartFromEvent`, `SkipEvent` | the scheduler's `handle` and `startFromEvent` |
| `ListDesired`, `Restart`, `Confirm`, `ReadForPatch`, `Patch` | `checkHealth`, `InternalDesired`, `InternalHealth` |
| `StartCronJob` | `startCronJob` |
| `FindByDeploymentID`, `StopByDeployment` | `InternalStopByDeployment` |
| `UserCreate`, `UserCreateStopped`, `UserStart`, `UserStop`, `UserStopped` | `Create`, `Start`, `Stop` |
| `Abandon`, `AbandonTeardown`, `ContainerExits` | client timeouts and restarts; containers that die |

Each caller has at most one call in flight. For the scheduler's loops that is
the code (each is one goroutine that waits for its answer); for users and
teardowns it is a bound.

### Platform

No state of its own: the variables of `DeployPipeline` and of an instance of
`RuntimeControl` (whose `row` is called `instances` here). Most steps are one
half's. Two are both's:

| action | code |
|---|---|
| `Publish`: `TellDeploy` or `AnnounceRollback` with `Announce` | `publishDeploy` appends what the scheduler's loop will read; the runtime's half has of it what `startFromEvent` looks at: whether it says ready (`Verdict`), whether it is a preview, the strategy |
| `TellStop`: `TeardownResources` with `FindByDeploymentID` | `teardownResources` calls `InternalStopByDeployment`; a deployment never announced has no instance; the call may be lost (`"http"`) |

The strategy of a deployment is chosen when it is announced, since nothing
before depends on it. The runtime works on one teardown at a time.

### The modules around the core

All thirteen are cut the same way: a handler is one action from one read of a
shared store to the next, what it holds in between is a record of the request
(`handler`, `visitor`, `client`, `request`, `deleter`, `storer`, `caller`,
`repoCaller`, `cleaner`, `page`, `process`), and any other request may act
there. A statement of Postgres or Redis is one step. Handlers that only read
are left out unless what they answer is a property.

| module | actions and code | abstractions |
|---|---|---|
| `Sessions` | `Refresh`, `DeleteRefreshKey`, `RevokeSessionByJTI`, `IssueTokens`, `CreateSession`, `StoreRefreshKey`: the handler `Refresh` call by call; `RevokeSession`; `VerifyPATInternal`. `Logout` writes a key nothing reads and is no action | one user; tokens are numbers; one of the two stores may fail for the whole behaviour |
| `SignIn` | `Login` (limit), `GetUserByEmail`, `CheckCode`, `ConsumeBackupCode`, `Admit`; `SetupMFA`, `EnableMFA`, `DisableMFA`; `Bootstrap` in its three statements | a password or code is right or wrong; backup codes and secrets are numbers; the 15 minutes are the action `CounterExpires` |
| `Tenancy` | `AskInvite` then `CreateInvite`, `AcceptInvite`, `InviteExpires`; `requireMember` then each handler of project; `Validate` and `normalizeRuntime` of `jp.yaml` | manifests are a runtime and a deploy part |
| `SecretVersions` | `SetSecret` (read), `PutSecret` (transaction), `PostSecret`, `DeleteSecret`, `ReadRow` and `InternalValue`; `NewFromEnv` as a restart with another key | a cipher is a value under a key; a hint is its value |
| `Provisioning` | `AskInstance`, `MakeShared`, `MakeSimulated`, `StoreSecret`, `InsertInstance`, `RefuseConflict`; `AskDelete`, `DeleteRow`, `DropInstance` | one project; a resource is server and safe name, and its password the number of the request that set it |
| `Buckets` | `PutObject`, `RecordObject`; `RemoveObject`, `UnrecordObject`; `NewBackend` as a restart that may find MinIO unreachable | a body is its number, which stands for size and etag |
| `Domains` | `Verify`, `WriteRoute`, `RequestCert`, `IssueCert`, `UpdateDomain`; `RemoveRoute`, `DeleteDomain`; `ProvisionPreview` to `ServePreview`; `RenewScan` or `Renew`, `MarkRenewing`, `ApplyRenew` | DNS's answer is a choice; a file is its name |
| `Schedules` | `StartPass`, `ReadDue`, `PublishTrigger`, `MarkRun`, `EndPass`; `CreateSchedule`, `DeleteSchedule`; `ReadJob`, `RunJob`; `CrashScheduler` | minutes; `NextRun` for the three kinds of expression |
| `Cluster` | each operation of `cluster.go` is one step, since each holds the lock | memory and CPU in units |
| `Repositories` | `InstallStart`, `InstallCallback`, `GitHubSetup`, `UpsertInstallation`, `ConnectRepo`, `DisconnectRepo`; `TakeToken`, `MintToken`, `CallGitHub`; `GetDeployKey`, `InsertKey`, `FetchKey`, `RotateDeployKey` | a token is young, old (inside the two-minute margin) or dead |
| `Images` | `InternalCreate`; `Protect`, `Scan`, `DeleteOrphan` of `DeleteOrphans`; `ImageTick`, `ReadCleanup`, `RunOrphanImageCleanup` | an image is project and tag |
| `Metering` | `ReadBatch`, `HandleEntry`, `AckEntry`, `BillingCrash`; `IngestLine`; `IngestSample`, `ReadSummary` (which writes in simulate mode) | an entry is its topic and kind |
| `Console` | `SendPage`, `PageAnswered`, `PageRefused`, `EnsureRefreshed`, `RefreshAsked`, `RefreshEnds`, `Resume`; `CliStart`, `CliRequest`, `CliSave` and the commands that save | a token pair is its number; identity is seen from outside |

Some properties hold but for named cases, and the model keeps a history
variable for each: `overlaps` (refreshes of one token side by side), `raced`,
`overlapped`, `tangled`, `excused` (two requests at work on one row, key or
hostname), `abandoned` (a resource whose row a failure lost), `interrupted` (a
run that could not be marked), `mishap` (a refresh that met a network failure
or another tab). They are not excuses added to make a run pass: the code
has no lock in those places, TLC shows the property failing there when the
exception is taken away, and each is a hazard of `PROJECT.json`.

## 3 Runs

| run | question | bounds | states |
|---|---|---|---|
| `pipeline_faults` | Under every request and every fault, does anything become ready that was not built, does the pipeline implement `ReleaseLog`, and does a rollback stay ready? | 2 rows, 1 built, 1 tag, 1 worker, 1 PR | 157 k |
| `platform` | From the push to the container, whatever workers crash: is a build ever run or reported twice, and was the image of every container built? | 2 builds (or a build and a rollback), 2 workers of 2 slots, 1 PR, 2 instances | 738 k |
| `pipeline_live` | When nothing fails, does everything settle, and in an order GitHub and the registry can bear? | 2 builds, 1 worker of 1 slot, a PR, rollbacks | 68 k |
| `runtime_releases` | Does the last release serve, alone? Is every release tried? | 3 releases of either kind and strategy, teardowns, failing starts | 14 k |
| `runtime_callers` | With all five callers and all faults, does anything run that was not released, or a cron job twice? | 1 release, 1 user request or cron trigger, 2 rows, 2 containers | 868 k |
| `accounts` | Do sign-ins, refreshes, invitations, manifests and secrets stay whole when requests meet between their statements? | 2 requests at once; 3 refresh tokens; 1 account with 2 backup codes; 1 organization, 2 people, 2 invitations, 1 project; 2 secrets of 3 values, 2 keys | 800 k |
| `services` | Does what services keep outside their rows agree with the rows, after any meeting of two requests, failing calls and restarts? | 2 requests at once; 2 databases; 2 projects in storage, 1 key, 3 bodies; 1 hostname, 2 domains, 1 certificate; 2 schedules; 2 nodes; 2 organizations, 1 installation; 2 images; 3 stream entries; 2 tabs, 3 requests, 2 token pairs | 666 k |
| `pipeline_released`, `pipeline_closed`, `pipeline_rollback`, `runtime_preview`, `databases_isolated` | what a document says and the code does not do (section 6) | 1 to 3 rows | - |

Why these bounds are enough to see the interesting cases:

* One build and one more row (`pipeline_faults`) give a rollback of a built
  release, a rollback whose target is torn down between read and insert, a
  late report on a closed preview, and every fault in each of those. One tag
  is the hard case: two deployments whose images cannot be told apart.
* Two workers of two slots and two builds (`platform`) let a worker hold an
  entry it has read and not started while its other build runs, the other
  worker reads on and either of them crashes. The crash is the only fault that
  moves entries, so the others are left out there. Two deployments let the
  first one's container be replaced, or torn down, by the other or beside it.
  The callers of the runtime that are left out here, and its faults, are in
  `runtime_callers`; the theorem behind `RunningWasBuilt` has them all, and
  the one behind `BuildsAtMostOnce` any number of builds, workers and slots.
* Two builds on one slot (`pipeline_live`) make the second wait for the
  first, so a slot that leaks is seen.
* Three releases (`runtime_releases`) give predecessor, current and next, of
  any mix of strategies; a failed start between two good ones; and blue,
  green, blue again.
* One release and one request more (`runtime_callers`) let the health loop,
  a teardown and a user or a cron job work on one row with stale copies of it.

Deadlock is not checked: the system rests when nobody asks anything of it,
and in `accounts` and `services` when the bounds are used up.
Symmetry over workers and pull requests is used in safety runs only, as is
that over the two requests of `accounts` and `services`, which every module
treats alike and whose properties are invariants and action properties.

What the properties say, in the words of their modules' comments:
`BuildsAtMostOnce`, `ReadyWasBuilt`, `ReadyIsRegistered`, `PostedIsFinal`,
`RollbackStaysReady`, `DeploysSettle`, `CloseReachesRuntime`,
`ImplementsReleaseLog` (refinement: `made` is the set of tags of built
images, `log` is `jp.deploy`), `OneProduction`, `LastReleaseServes`,
`PreviewNeverStopsProduction`, `EveryReleaseIsTried`, `OnlyReleasesRun`,
`CronRunsOnce`, `RunningWasBuilt`.

And of the modules around:

| property | what it says |
|---|---|
| `RefreshesReplace` | usable refresh tokens are never more than sign-ins, but for one more per refresh that began beside another of its token |
| `SpentTokensStayDead` | no request begins to refresh with a token that was rotated or revoked, whichever of the two stores fails; no revoked PAT comes back |
| `FailedLoginsBounded` | failed logins on one account exceed the limit by less than the requests in flight |
| `SecondFactorWhole` | a used backup code is gone, and MFA is on only with a secret, for accounts on which no two requests were at work at once |
| `RolesAreGranted` | every role goes back to the founder over invitations of owners and admins |
| `ManifestIsLastApplied` | a project's manifest is the one applied last, whatever updates from older copies are written after it |
| `SecretIsWhole`, `ReadsAreSnapshots` | the version a row names exists with the hint beside it; a reader gets the value that was current when it looked |
| `UncontestedWorks`, `NothingLeftBehind` | a ready instance whose resource nobody else has met opens with its URL; a resource has an owner, or a failure lost it |
| `RowsMatchObjects` | object and row agree |
| `RoutesMatchDomains`, `RenewalIsKept` | a hostname is routed exactly when a row says so; a certificate that says issued ends when its last renewal said |
| `OncePerDueTime`, `DeletedIsSilent` | one trigger for each due time; a deleted schedule does not fire in a later pass |
| `NodesAccountFor` | nothing is handed out twice, evacuated no more often than registered |
| `ShownKeysWork`, `TokensOutliveCalls` | users are shown the deploy key that was stored; no call goes out with a dead token |
| `NewestImageStays` | no clean-up deletes the newest image of a project |
| `MeteredAtMostOnce` | a stream entry is billed at most once |
| `KeepsItsTokens` | the dashboard's tokens leave `localStorage` for newer ones or at a logout only |

Conditions under which they are checked, which matter as much as the
properties:

* `ReadyIsRegistered`, `PostedIsFinal` and the liveness properties are checked
  without faults. With them they fail, and rightly: a lost call to the registry
  is ignored by the worker, a request that timed out tells GitHub of a failure
  though the build goes on to succeed, and a lost report strands a deployment
  for ever. Nothing retries.
* `OneProduction` and `LastReleaseServes` except behaviours in which a
  blue/green start has failed (`NoFailedFlip`): its row stays behind as the
  active one, the next release takes it for the predecessor, and the container
  that really serves is never stopped. They are also about releases and
  teardowns alone: the health loop, users and cron jobs can each start or stop
  production beside a release.
* `PreviewNeverStopsProduction` is about starts and teardowns of previews. It
  holds as long as previews are rolling, which is all that webhooks ask for
  (section 6).

## 4 Fairness

`DeployPipeline`: weak fairness of every handler's and every goroutine's next
step (`DeployStep(d)`, `JobStep(d)`) and of every worker's loop (`ReadGroup`,
`StartJob`): Go schedules runnable goroutines, the handlers wait for nothing
but calls with timeouts, and the loop blocks on the stream or the semaphore
only. Nothing is assumed of requests (nobody has to deploy or close anything)
and no fault ever has to happen. `RuntimeControl`: the same of a call in
flight (`CallStep`), the deploy loop, the health loop and a teardown under way.
Strong fairness is nowhere needed: no step of these is disabled again by
others before it is taken, except `StartJob`, which competes for slots with
its own worker alone and stays enabled once one is free.

## 5 Proofs

Every safety property that a passing run checks is also a theorem, proved for
every value of the constants; so are the refinement and the action
properties. The theorems rest on the modules' own assumptions
(`PipelineAssumption` and its like) and, where the code leaves a property true
under a condition only, on a hypothesis that stands in the theorem. Each
follows one scheme: an inductive invariant, a lemma that the initial states
have it, a lemma per action or group of actions that the step keeps it (with a
step per conjunct the action can disturb), and a temporal step at the end.

| module | theorems | hypothesis |
|---|---|---|
| `DeployPipeline_proofs` | `TypeCorrect`, `ReadyBuilt`, `RunAtMostOnce`, `ReleaseLogImplemented`, `RollbackReady` | - |
| | `ReadyRegistered` | calls over HTTP are not lost: `"http" \notin Faults` |
| | `VerdictIsFinal` | nor are writes to Redis |
| `RuntimeControl_proofs` | `TypeCorrect`, `ReleasesOnly`, `CronOncePerTrigger` | - |
| | `OneProductionAtATime`, `LastReleaseIsServed`, `PreviewsLeaveProduction` | `ReleasesAlone` |
| `Platform_proofs` | `PlatformImplementsComponents`, `NothingUnbuiltRuns` | - |
| | `ProductionRunsLastRelease` | `ReleasesAlone` |
| `Sessions_proofs` | `SpentStayDead`, `RefreshesReplaceTokens` | - |
| `SignIn_proofs` | `LoginsBounded`, `SecondFactorKept` | - |
| `Accounts_proofs` (organization, project, secret) | `RolesGoBack`, `ManifestKept`, `WholeSecrets`, `SnapshotReads` | - |
| | `AccountsImplementComponents`, `AccountsTypes` | - |
| `Resources_proofs` (storage, database, domain) | `ObjectsAccountedFor`, `UncontestedInstancesWork`, `ResourcesAccountedFor`, `RenewalsLast` | - |
| | `RoutesFollowRows` | `Distinct`: no two hostnames share a file |
| `Services_proofs` (scheduler, repository, billing, registry, console) | `TriggeredOnce`, `DeletedStaysSilent`, `ClusterAccounts`, `DeployKeysWork`, `TokensLastTheCall`, `EntriesMeteredOnce`, `NewestImageKept`, `DashboardKeepsTokens` | - |
| | `ServicesImplementComponents`, `ServicesTypes` | - |

The modules' assumptions are weak: bounds are natural numbers, model values
are what they are not confused with. Three are more than that: visitors, the
requests of a token and nodes are finitely many, because the code's
properties count them; and emails are no addresses, because both are keys of
one counter's map.

### DeployPipeline

`TypeOK` is inductive. `ReadyWasBuilt` is not: it says nothing of what is under
way. The inductive invariant `IInv` adds

* `Existing`: only a row that exists has a request, a build, an image or a
  teardown, and queue entries are of rows that exist. Without it an insert
  could change the tag of an image that is already built, and `Made` (the tags
  of what was built) could shrink;
* `Backed`: whoever is about to say "ready" has reason to. A goroutine past
  `docker build` has `built` behind it; an image, once set, is the row's tag; a
  rollback's target has an image that was made, even if the target has been
  failed meanwhile, and so has a rollback not yet announced.

The argument: made images stay made (`MadeStays`), so an old "ready" stays
justified; and each of the few steps that write one (`UpdateDeploy`,
`CreateRollback`, `TellDeploy`, `AnnounceRollback`) finds the image made by
`Backed`. Note what makes it work for `TellDeploy`: it announces what it
reads back from the row, not what was reported, so it is the invariant of the
*row* that carries the event.

`RunAtMostOnce` and `ReleaseLogImplemented` rest on `Delivery`: an entry is in
one place, the stream or one worker's memory, and its build has not been
started (`InOnePlace`, which needs lemmas about what appending to a sequence
and splitting one do to its elements); what is not published has no entry and
no goroutine; a build has one outcome at most; and what is announced is done,
so that nobody is left to announce it again. With it every step maps to
`Make`, `Announce` or a stutter of `ReleaseLog`. `Standing`, `Registered` and
`Verdicts` carry the other three in the same way.

### RuntimeControl

No handler takes a lock, and each writes whole rows from memory. What holds
nevertheless is `Copies`: a copy, however old, is of a row that is there and
agrees with it on what the instance *is* (deployment, restart policy), which
no write changes; only on how it fares may it be out of date. From this follow
the types of the rows, `ReleasesOnly` and `CronOncePerTrigger` with all five
callers and every fault. `Places` counts what is left of the bounds.

What production *does* needs more, and a hypothesis. `ReleasesAlone` is the
setting of `runtime_releases`: the deploy loop and teardowns call, starts may
fail, previews are rolling. With the other callers or faults the properties do
not hold of the code (section 3 says why). `Releasing` follows the release
under way: it is the event read last; the row it replaces is production's and
has not changed since it was read, although nothing locks it; the row it makes
is its own; and containers and rows name each other (`Owned`), so that stopping
a container id stops no other instance's. `Production`, which holds as long as
no flip has failed, says what serves: a subset of what the rows want, which is
the last release between releases (`Steady`), and the old and the new one
during a blue/green start. A failed start stays failed (`FailedStays`), so
that a behaviour without a failed flip never had one. TLC had checked
`Releasing` and `Production` on the constants of `runtime_releases` before the
proof.

`PreviewsLeaveProduction` is about teardowns too: a teardown stops container
ids that it read earlier, while starts go on. Container ids are not used twice
and a preview's row never becomes production's, so they are no production
container's.

### Platform

`PlatformImplementsComponents` takes the runtime's invariant: a step of
`TellStop` is one of `RuntimeControl` only if the place it asks for is within
the bound, which the types of the runtime say. What joins the two is
`Linked`: entry by entry, the runtime's log says of `jp.deploy` what
`startFromEvent` reads of it. It is kept because nobody but the pipeline
appends, and because a row that was announced exists (`AnnouncedExists`, from
`Delivery`) and so keeps its branch (`RowStays`): whether an old event is a
preview's does not change. Then `NothingUnbuiltRuns` is `OnlyReleasesRun` on
one side and `ReadyWasBuilt` on the other, and `ProductionRunsLastRelease` is
`LastReleaseServes` in the words of the deployment service's table (TLC agreed
on it, `ProductionIsLastRelease`, before the proof). The latter
leaves the faults of the pipeline free: `ReleasesAlone` is about the runtime.

`RuntimeControl` comes in twice, once with `Platform` (as `R`) and once
with its theorems (as `RP`); the lemmas called `Same...` say that both are
the same formulas.

### Sessions, SignIn, Tenancy, SecretVersions

`Refresh` asks two stores: the key in Redis and the row in Postgres. A token
is dead when it lacks either, for good, and which one depends on the store
that may fail. The invariant has it as `Dead`: a spent token's row is
revoked, or, when Postgres may have failed, its key is gone and nobody is about to
store it. The other parts carry that: `KeyForgotten` (a rotation that gets to
the row has removed the key, unless Redis may fail), `NotYetStored` (a token
whose key is still to be stored is held by that request alone) and `Issued`
(only tokens that were issued are held, stored or spent). With both stores
failing the property would not hold; the model has one failing at a time, and
the theorem says so by `failing`. `RefreshesReplaceTokens` counts on top of
that: usable tokens and those still to be stored, against sign-ins and
overlaps.

`LoginsBounded` is not inductive either: `Counted` adds to the failed logins
the requests whose password is still to be checked (their cardinality), and
the sum is what stays within the limit and the number of visitors.
`SecondFactorKept` needs to know whose copy is whose: codes are never given
out twice (`RowsApart`), and a request that holds a row alone holds it as it is.

Inviting reads the role first and inserts later, so Tenancy's invariant follows the
answer over that gap: `LetIn` (a request about to insert was an owner's or an admin's
once), `Sent` (an invitation was sent by somebody who had been one), `Granted` and
`NotFounded` (nobody has a role before the organization is founded, so
founding takes nothing away). Manifests need `InRow`, and a fact about the
pure function (`ValidNormal`): what `Validate` lets through, it lets through
again unchanged.

Secrets: `SecretTables` relates each row to its versions, `SecretCopies` says of each
request's copy that the version it names is still there if the secret is, and
`SetsAlone` that who sets a secret alone writes from its row as it is.

### Resources and Services

| invariant | what it adds to the property |
|---|---|
| `BucketsInv` | a request at a key that is not excused has the key to itself, and the object is what its own first half has made of it |
| `ProvisioningInv` | until it is dropped, what was made where nobody else was opens with its own password, and nobody else uses it |
| `DomainsInv` | one row per hostname; a request works on its hostname's row |
| `DomainsWhole` | step by step, what the file and the row are while one request has the hostname |
| `SchedulesInv` | a schedule that fired for a minute is being marked, or has moved on; rests on the lemma that `NextRun` is later than now, for every expression |
| `ClusterInv` | evacuated and still evacuable together are within what was registered |
| `RepositoriesInv` | a call that waited once started young; keys shown are the one stored |
| `MeteringInv` | unread entries and the batch are ascending, apart from each other and not yet metered, except the entry just handled |
| `ImagesInv` | what a clean-up will delete is outdated, and stays so, because no clean-up deletes a newest row |
| `ConsoleInv` | without a mishap one tab at most refreshes, with a pair nobody else has used |

`Distinct` is there because the domain service makes file names with
`sanitize`, which turns `.` into `-`: of two hostnames that differ in nothing
else, deleting one removes the other's route (section 6).

### The compositions

The theorems are about the specification of one component, while the runs
check several side by side. `AccountsImplementComponents` and
`ServicesImplementComponents` close that gap: a behaviour of `MCAccounts` is
one of each of its four components, a behaviour of `MCServices` one of each of
its nine (initial states are initial, and a step of the one in focus is a step
or a stutter of every component). So every theorem of a component holds of the
composition, and `AccountsTypes` and `ServicesTypes` collect the types.

Some of these types need more than that a step writes what it should. The
queries of `Repositories` that look for the newest row return one of those
found (`NewestExists`); that a nonempty set of row numbers has a greatest is
proved by descent, from the library's theorem that naturals are well-founded,
since an induction theorem with an operator as its parameter cannot be used.
Metering's bounds and those of the dashboard need the order of the stream
(`MeteringBounded`) and the number of refreshes so far (`ConsoleBounded`).

### Only model-checked

* Liveness (`DeploysSettle`, `CloseReachesRuntime`,
  `EveryReleaseIsTried`): `ENABLED` and fairness are beyond the prover.
* What documents say and the code does not do (section 6) is refuted by TLC.

## 6 Where documents and code part

Each is a run that must find a violation; `PROJECT.json` quotes the lines.

* `pipeline_released` (`docs/phases.md`: after the build succeeds,
  `deploy.updated` makes the scheduler start the image). The build is queued
  before the row is set to "building", without a condition. If the report of a
  quick build falls in between, and its read-back after, the only event ever
  published says "building" and nothing is started.
* `pipeline_closed` (`docs/phases.md`, `repository/README.md`: a closed
  preview is failed and stopped). The build of a preview that was torn down
  reports, and the row is ready again, and announced.
* `pipeline_rollback` (`deployment/internal/handlers/handlers.go`, comment of
  `Rollback`: the previous successful deploy). The newest ready row is the one
  that is live, so the rollback copies it.
* `runtime_preview` (`runtime/internal/handlers/handlers.go`, comment in
  `InternalStart`, and `docs/phases.md`: previews do not stop production). A
  preview that asks for blue/green is named like production's blue container,
  and replaces it.
* `databases_isolated` (`database/internal/provisioner/provisioner.go`,
  comment in `Create`, and `database/README.md`: an isolated schema and role
  for each database). A database and a Postgres add-on of one project and one
  name get one schema and one role; the second one's URL has a password the
  role does not have, and deleting one drops the other's data.

Met while modelling, and not a run of their own:

* A closed pull request stops the runtime of its preview
  (`repository/README.md`), but neither the scheduler nor the runtime asks what
  a deployment is now (`scheduler/internal/loop/loop.go:149`). If it was
  announced and is torn down before the loop comes to the event, or between its
  instance's row and its container, the container is started all the same, and
  stays: only active rows are ever torn down. Unlike `pipeline_closed` it
  takes no late build. `Platform` has these behaviours.
* `POST /auth/logout` ("Logout current session",
  `docs/full-platform-reference.md`) writes a key `jp:deny:<jti>` that no code
  reads, and revokes no session: both tokens go on working until they expire.
  `Sessions` has no action for it.
* Bootstrap checks that nobody is registered, creates the account and marks
  the platform initialized in three statements
  (`identity/internal/handlers/handlers.go:641`): two first requests can both
  become an administrator, which `docs/IMPLEMENTATION_PLAN.md:75` excludes.
  `SignIn` has the steps.
* `POST /system/settings` answers "Settings saved to runtime state" and
  `POST /system/maintenance/cleanup` "Pruned orphan images and expired preview
  environments" (`gateway/cmd/main.go:328-341`); both do nothing. The gateway
  has no route for the MFA handlers of identity.
* Build outcomes are published on `jp.deploy` and metered on `jp.build` only,
  so that no build is ever billed; what the consumer read before a crash is
  lost for billing.
* A backup (`database/internal/handlers/handlers.go:248`) is announced as
  completed and nothing is stored. MariaDB databases are never dropped.
* The scheduler's clean-up sends no `keep_refs`, so an image that is deployed,
  or could be rolled back to, is deleted when it is not its project's newest.
* Two hostnames that differ in `.` and `-` share one Traefik file.
* Commit statuses without an installation take any organization's
  installation for the repository (`ResolveInstallationIDForRepo` with no
  organization).

## 7 What is left out

Components that are not modelled:

* **notification**: stores what it is sent and sends mails and web hooks; a
  failure is recorded in its row and nobody acts on it.
* **ai**: prompts to a model, or heuristics over logs; text in, text out.
* **event**, **jp-schema**, **templates**, **infra**: a migration without code,
  data and configuration.

In the parts modelled:

* Logs, environment variables, ports, URLs, resource limits, wording, audit
  trails and read-only handlers. Authorisation is modelled where it is a read
  that can be out of date (`Tenancy`), and else taken for granted.
* The worker's framework detection, Dockerfile generation and git commands are
  one step that succeeds or fails.
* The add-on engines that differ from others in their URLs only, and their
  browser consoles; the catalogue of engines, which is data.
* The arithmetic of TOTP, password hashes, signatures and encryption: right or
  wrong, under this key or another.
* The pages of the dashboard and what the CLI prints.
* One user (`Sessions`), one project (`Provisioning`, `Metering`): rows are
  found by user or project, and those of two do not meet. Where they do,
  the module has two (`Buckets`, whose bucket names are cut to eight digits).
* Postgres and Redis themselves: a statement is atomic and durable; a stream
  loses nothing it has accepted.
* Several projects at once: rows, names and containers of two projects do not
  meet.
* A request that a user sends to the runtime naming some deployment's id.

## 8 Plan

What the models are still to get, in order of weight:

1. **Composition**: the previews of `Domains` beside `Platform` in one
   behaviour (a URL provisioned after its teardown); the content of the tag
   `latest` over `Images` and rollbacks.
2. **Proofs with fewer hypotheses**: what is left of `OneProductionAtATime`
   when the health loop runs beside releases (at most one row wanted, still);
   what `VerdictIsFinal` becomes when calls are lost.
3. **Lemmas of their own**: `ValidNormal`, `NextRunIsLater` and those about
   sequences are used by one module each; the last would serve a second
   stream.

A run is added for a new question, not for a new module; properties are
replaced by deeper ones before more are added.
