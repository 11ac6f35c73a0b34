----------------------------- MODULE MCServices -----------------------------
(***************************************************************************)
(* The components that serve projects (databases, objects, domains,        *)
(* schedules, nodes, repositories, images, metering) and the clients of    *)
(* the platform, checked together.  They share no state, so a behaviour is *)
(* of one of them, the one in focus, while the others keep their initial   *)
(* state: their states add up and do not multiply.                         *)
(***************************************************************************)
EXTENDS MCProvisioning, Buckets, Domains, Schedules, Cluster,
        Repositories, Images, Metering, Console, TLC

VARIABLE focus \* the component whose behaviour this is

MCBucketName == [p \in StoreProjects |-> IF p = "p2" THEN "jp-2" ELSE "jp-1"]
MCSanitize == [h \in Hosts |-> IF h = "a.b" THEN "a-b" ELSE h]
MCExprs == {[kind |-> "hourly", min |-> 0, hour |-> 0]}
MCLabels == [n \in NodeIds |-> IF n = LocalNode THEN "primary" ELSE "edge"]
MCTabOf == (1 :> "t1") @@ (2 :> "t1") @@ (3 :> "t2")

\* The callers of every component are the same two model values.
MCSymmetry == Permutations(Callers)

ServicesInit ==
    /\ focus \in {"databases", "storage", "domains", "schedules", "cluster",
                  "github", "deploy keys", "images", "billing", "logging",
                  "metrics", "dashboard", "cli"}
    /\ ProvisioningInit
    /\ BucketsInit
    /\ DomainsInit
    /\ SchedulesInit
    /\ ClusterInit
    /\ focus # "cluster" => node[LocalNode].mem = 1 /\ node[LocalNode].cpu = 1
    /\ RepositoriesInit
    /\ ImagesInit
    /\ MeteringInit
    /\ ConsoleInit

ServicesNext ==
    \/ /\ focus = "databases" /\ ProvisioningNext
       /\ UNCHANGED <<focus, bucketVars, domainVars, scheduleVars, clusterVars,
                     repoVars, imageVars, meteringVars, consoleVars>>
    \/ /\ focus = "storage" /\ BucketsNext
       /\ UNCHANGED <<focus, provisionVars, domainVars, scheduleVars,
                     clusterVars, repoVars, imageVars, meteringVars,
                     consoleVars>>
    \/ /\ focus = "domains" /\ DomainsNext
       /\ UNCHANGED <<focus, provisionVars, bucketVars, scheduleVars,
                     clusterVars, repoVars, imageVars, meteringVars,
                     consoleVars>>
    \/ /\ focus = "schedules" /\ SchedulesNext
       /\ UNCHANGED <<focus, provisionVars, bucketVars, domainVars, clusterVars,
                     repoVars, imageVars, meteringVars, consoleVars>>
    \/ /\ focus = "cluster" /\ ClusterNext
       /\ UNCHANGED <<focus, provisionVars, bucketVars, domainVars,
                     scheduleVars, repoVars, imageVars, meteringVars,
                     consoleVars>>
    \/ /\ focus = "github" /\ GitHubNext
       /\ UNCHANGED <<focus, provisionVars, bucketVars, domainVars,
                     scheduleVars, clusterVars, imageVars, meteringVars,
                     consoleVars>>
    \/ /\ focus = "deploy keys" /\ DeployKeyNext
       /\ UNCHANGED <<focus, provisionVars, bucketVars, domainVars,
                     scheduleVars, clusterVars, imageVars, meteringVars,
                     consoleVars>>
    \/ /\ focus = "images" /\ ImagesNext
       /\ UNCHANGED <<focus, provisionVars, bucketVars, domainVars,
                     scheduleVars, clusterVars, repoVars, meteringVars,
                     consoleVars>>
    \/ /\ focus = "billing" /\ BillingNext
       /\ UNCHANGED <<focus, provisionVars, bucketVars, domainVars,
                     scheduleVars, clusterVars, repoVars, imageVars,
                     consoleVars>>
    \/ /\ focus = "logging" /\ LoggingNext
       /\ UNCHANGED <<focus, provisionVars, bucketVars, domainVars,
                     scheduleVars, clusterVars, repoVars, imageVars,
                     consoleVars>>
    \/ /\ focus = "metrics" /\ MetricsNext
       /\ UNCHANGED <<focus, provisionVars, bucketVars, domainVars,
                     scheduleVars, clusterVars, repoVars, imageVars,
                     consoleVars>>
    \/ /\ focus = "dashboard" /\ BrowserNext
       /\ UNCHANGED <<focus, provisionVars, bucketVars, domainVars,
                     scheduleVars, clusterVars, repoVars, imageVars,
                     meteringVars>>
    \/ /\ focus = "cli" /\ CliNext
       /\ UNCHANGED <<focus, provisionVars, bucketVars, domainVars,
                     scheduleVars, clusterVars, repoVars, imageVars,
                     meteringVars>>

ServicesVars ==
    <<focus, provisionVars, bucketVars, domainVars, scheduleVars, clusterVars,
      repoVars, imageVars, meteringVars, consoleVars>>

ServicesSpec == ServicesInit /\ [][ServicesNext]_ServicesVars

\* Every variable of the component in focus keeps its type.
ServicesTypesOK ==
    /\ focus = "databases" => ProvisioningTypeOK
    /\ focus = "storage" => BucketsTypeOK
    /\ focus = "domains" => DomainsTypeOK
    /\ focus = "schedules" => SchedulesTypeOK
    /\ focus = "cluster" => ClusterTypeOK
    /\ focus \in {"github", "deploy keys"} => RepositoriesTypeOK
    /\ focus = "images" => ImagesTypeOK
    /\ focus \in {"billing", "logging", "metrics"} => MeteringTypeOK
    /\ focus \in {"dashboard", "cli"} => ConsoleTypeOK
=============================================================================
