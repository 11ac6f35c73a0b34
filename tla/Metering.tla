------------------------------ MODULE Metering ------------------------------
(***************************************************************************)
(* What the platform records about itself: billing meters the event        *)
(* streams and keeps the plan of an organization, logging stores the lines *)
(* of a request one by one, metrics stores samples and scrape targets.     *)
(* The streams are written by the build and deployment services.           *)
(***************************************************************************)
EXTENDS Naturals, Sequences

CONSTANTS
    MaxEntries,   \* bound on the stream entries published
    BatchSize,    \* entries one read of the billing consumer returns (5)
    PlanIds,      \* the plans of billing
    LogRequests,  \* requests to ingest log lines
    MaxLines,     \* lines of a log request
    MaxApiUsage,  \* bound on the usage events ingested by requests
    MaxSamples,   \* bound on the metric samples of a project
    MaxTargets,   \* bound on the scrape targets of a project
    Simulate,     \* the metrics service runs in simulate mode
    MeteringFaults \* of {"insert", "crash"}

ASSUME MeteringAssumption ==
    /\ {MaxEntries, BatchSize, MaxLines, MaxApiUsage, MaxSamples, MaxTargets} \subseteq Nat
    /\ "free" \in PlanIds
    /\ Simulate \in BOOLEAN
    /\ MeteringFaults \subseteq {"insert", "crash"}

VARIABLES
    entryKind,   \* the topic and the kind of every entry published
    unread,      \* per topic, the entries billing's group has not read
    batch,       \* the entries the billing consumer has read and not handled
    handled,     \* whether its first one has been handled, but not acknowledged
    usage,       \* billing_usage_events written from the streams, per entry
    apiUsage,    \* billing_usage_events written by requests
    plan,        \* billing_org_plans: "none" when there is no row
    logLines,    \* log_entries stored, per request
    ingest,      \* each log request: its answer and the lines left
    samples,     \* metric_samples of the project
    targets      \* scrape_targets of the project

meteringVars == <<entryKind, unread, batch, handled, usage, apiUsage, plan, logLines,
                  ingest, samples, targets>>
billingVars == <<entryKind, unread, batch, handled, usage, apiUsage, plan>>
recordVars  == <<logLines, ingest, samples, targets>>

Topics == {"jp.deploy", "jp.build"}
\* What is published where: build outcomes go to jp.deploy.
PublishedKinds == {<<"jp.deploy", "ready">>, <<"jp.deploy", "other status">>,
                   <<"jp.deploy", "build outcome">>, <<"jp.build", "build.queued">>}

MeteringInit ==
    /\ entryKind = <<>>
    /\ unread = [t \in Topics |-> <<>>]
    /\ batch = <<>>
    /\ handled = FALSE
    /\ usage = [e \in 1..MaxEntries |-> 0]
    /\ apiUsage = 0
    /\ plan = "none"
    /\ logLines = [r \in LogRequests |-> 0]
    /\ ingest = [r \in LogRequests |-> [answer |-> "unsent", left |-> 0]]
    /\ samples = 0
    /\ targets = 0

-----------------------------------------------------------------------------
(* Billing. *)

\* The build and deployment services publish.
Publish(topic, kind) ==
    /\ Len(entryKind) < MaxEntries
    /\ entryKind' = Append(entryKind, <<topic, kind>>)
    /\ unread' = [unread EXCEPT ![topic] = Append(@, Len(entryKind) + 1)]
    /\ UNCHANGED <<batch, handled, usage, apiUsage, plan, recordVars>>

\* Run reads up to BatchSize entries of one topic, then of the other.
ReadBatch(topic) ==
    LET n == IF Len(unread[topic]) < BatchSize THEN Len(unread[topic]) ELSE BatchSize IN
    /\ batch = <<>>
    /\ n > 0
    /\ batch' = SubSeq(unread[topic], 1, n)
    /\ unread' = [unread EXCEPT ![topic] = SubSeq(@, n + 1, Len(@))]
    /\ UNCHANGED <<entryKind, handled, usage, apiUsage, plan, recordVars>>

\* Whether handle makes a usage event of an entry: build outcomes if they come
\* on jp.build, a deployment that is ready on jp.deploy.
Meters(entry) == entry \in {<<"jp.build", "build outcome">>, <<"jp.deploy", "ready">>}

\* The Insert of one usage event, which can fail.
InsertUsage(e) ==
    \/ usage' = [usage EXCEPT ![e] = @ + 1]
    \/ "insert" \in MeteringFaults /\ UNCHANGED usage

\* handle: an entry is metered or passed over; its error is ignored.
HandleEntry ==
    /\ batch # <<>>
    /\ ~handled
    /\ handled' = TRUE
    /\ IF Meters(entryKind[Head(batch)]) THEN InsertUsage(Head(batch)) ELSE UNCHANGED usage
    /\ UNCHANGED <<entryKind, unread, batch, apiUsage, plan, recordVars>>

\* Ack, whatever handle answered.
AckEntry ==
    /\ handled
    /\ handled' = FALSE
    /\ batch' = Tail(batch)
    /\ UNCHANGED <<entryKind, unread, usage, apiUsage, plan, recordVars>>

\* A crash that gives the pending entries back to the group (for the mutant).
BillingReclaims ==
    /\ "crash" \in MeteringFaults
    /\ batch # <<>>
    /\ batch' = <<>>
    /\ handled' = FALSE
    /\ unread' = [t \in Topics |->
                    LET Of(e) == entryKind[e][1] = t IN SelectSeq(batch, Of) \o unread[t]]
    /\ UNCHANGED <<entryKind, usage, apiUsage, plan, recordVars>>

\* A crash: what was read stays pending, and only new entries are ever read.
BillingCrash ==
    /\ "crash" \in MeteringFaults
    /\ batch # <<>>
    /\ batch' = <<>>
    /\ handled' = FALSE
    /\ UNCHANGED <<entryKind, unread, usage, apiUsage, plan, recordVars>>

\* IngestEvent of a member, InternalIngest of a service: one row a request.
IngestEvent ==
    /\ apiUsage < MaxApiUsage
    /\ apiUsage' = apiUsage + 1
    /\ UNCHANGED <<entryKind, unread, batch, handled, usage, plan, recordVars>>

GetPlan == IF plan = "none" THEN "free" ELSE plan

\* SetPlan upserts a known plan, whatever the usage is.
SetPlan(p) ==
    /\ plan' = p
    /\ UNCHANGED <<entryKind, unread, batch, handled, usage, apiUsage, recordVars>>

-----------------------------------------------------------------------------
(* Logging. *)

\* Ingest starts over the lines of a request; a client answered 500 may send
\* the same request again (bound: while fewer than MaxLines rows are stored).
SendLogs(r) ==
    /\ ingest[r].answer \in {"unsent", "failed"}
    /\ logLines[r] < MaxLines
    /\ ingest' = [ingest EXCEPT ![r] = [answer |-> "none", left |-> MaxLines]]
    /\ UNCHANGED <<billingVars, logLines, samples, targets>>

\* A line that cannot be stored fails the request; the lines before it stay.
FailLine(r) == ingest' = [ingest EXCEPT ![r] = [answer |-> "failed", left |-> 0]]

\* Each line is stored, and pushed to Loki, in turn.
IngestLine(r) ==
    /\ ingest[r].left > 0
    /\ \/ /\ logLines' = [logLines EXCEPT ![r] = @ + 1]
          /\ ingest' = [ingest EXCEPT ![r].left = @ - 1]
       \/ /\ "insert" \in MeteringFaults
          /\ FailLine(r)
          /\ UNCHANGED logLines
    /\ UNCHANGED <<billingVars, samples, targets>>

\* All lines done: 201 with the entries.
AnswerLogs(r) ==
    /\ ingest[r] = [answer |-> "none", left |-> 0]
    /\ ingest' = [ingest EXCEPT ![r].answer = "created"]
    /\ UNCHANGED <<billingVars, logLines, samples, targets>>

-----------------------------------------------------------------------------
(* Metrics. *)

Sampled(n) == /\ samples + n <= MaxSamples
              /\ samples' = samples + n

\* SeedSimulate stores up to four made-up samples; failures are ignored.
SeedSimulate == \E n \in 0..4 : (n = 4 \/ "insert" \in MeteringFaults) /\ Sampled(n)

\* Summary: a read of the metrics writes in simulate mode.
ReadSummary ==
    /\ Simulate
    /\ SeedSimulate
    /\ UNCHANGED <<billingVars, logLines, ingest, targets>>

IngestSample ==
    /\ Sampled(1)
    /\ UNCHANGED <<billingVars, logLines, ingest, targets>>

\* UpsertTarget always inserts: the same target can be there many times.
UpsertTarget ==
    /\ targets < MaxTargets
    /\ targets' = targets + 1
    /\ UNCHANGED <<billingVars, logLines, ingest, samples>>

-----------------------------------------------------------------------------
BillingNext ==
    \/ \E entry \in PublishedKinds : Publish(entry[1], entry[2])
    \/ \E topic \in Topics : ReadBatch(topic)
    \/ HandleEntry \/ AckEntry \/ BillingCrash \/ IngestEvent
    \/ \E p \in PlanIds : SetPlan(p)

LoggingNext == \E r \in LogRequests : SendLogs(r) \/ IngestLine(r) \/ AnswerLogs(r)

MetricsNext == ReadSummary \/ IngestSample \/ UpsertTarget

MeteringNext == BillingNext \/ LoggingNext \/ MetricsNext

MeteringSpec == MeteringInit /\ [][MeteringNext]_meteringVars

-----------------------------------------------------------------------------
(* Every variable keeps its type. *)
MeteringTypeOK ==
    /\ entryKind \in Seq(PublishedKinds) /\ Len(entryKind) <= MaxEntries
    /\ unread \in [Topics -> Seq(1..MaxEntries)]
    /\ batch \in Seq(1..MaxEntries) /\ Len(batch) <= BatchSize
    /\ handled \in BOOLEAN
    /\ usage \in [1..MaxEntries -> Nat]
    /\ apiUsage \in 0..MaxApiUsage
    /\ GetPlan \in PlanIds
    /\ logLines \in [LogRequests -> Nat]
    /\ ingest \in [LogRequests -> [answer : {"unsent", "none", "failed", "created"}, left : 0..MaxLines]]
    /\ samples \in 0..MaxSamples
    /\ targets \in 0..MaxTargets

(* A stream entry is billed at most once, whatever crashes and failed inserts
   come between reading, inserting and acknowledging: billing loses usage
   rather than charge it twice. *)
MeteredAtMostOnce == \A e \in DOMAIN entryKind : usage[e] <= 1
=============================================================================
