------------------------------- MODULE Images -------------------------------
(***************************************************************************)
(* Image metadata in the registry-api and its clean-up: the scheduler      *)
(* publishes clean-up requests, its consumer turns each into a call, and   *)
(* the registry deletes old rows while builds go on registering new ones.  *)
(***************************************************************************)
EXTENDS Naturals, Sequences

CONSTANTS
    ImageProjects,  \* projects that register images
    ImageTags,      \* tags an image of a project is built under
    MaxImages,      \* bound on the rows registered
    Cleaners,       \* requests POST /internal/cleanup/orphaned-images in flight
    Hours,          \* values of older_than_hours in a request, in ticks
    DefaultHours,   \* the 168 hours used in place of none, in ticks
    MaxImageClock,  \* bound on the clock, in ticks
    MaxCleanups     \* bound on the clean-up rounds published

ASSUME ImagesAssumption ==
    /\ {MaxImages, DefaultHours, MaxImageClock, MaxCleanups} \subseteq Nat
    /\ Hours \subseteq Nat

VARIABLES
    images,      \* rows of images: their project, tag and creation time, by id
    imageCount,  \* rows ever inserted; ids grow with created_at
    imageClock,
    cleanups,    \* jp.cleanup entries not read yet
    cleaning,    \* the entry the consumer is handling
    rounds,      \* clean-up rounds published
    cleaner      \* each clean-up request: where it is, and the rows it has read

imageVars == <<images, imageCount, imageClock, cleanups, cleaning, rounds, cleaner>>

ImageIds == 1..MaxImages
Unregistered == [project |-> "none", tag |-> "none", at |-> 0]
NoEntry == "no entry"
NoCleanup == [at |-> "idle", cutoff |-> 0, keep |-> {}, ids |-> {}]

Rows == {i \in ImageIds : images[i] # Unregistered}
RefOf(i) == <<images[i].project, images[i].tag>>

ImagesInit ==
    /\ images = [i \in ImageIds |-> Unregistered]
    /\ imageCount = 0
    /\ imageClock = 0
    /\ cleanups = <<>>
    /\ cleaning = NoEntry
    /\ rounds = 0
    /\ cleaner = [c \in Cleaners |-> NoCleanup]

-----------------------------------------------------------------------------
(* The store. *)

\* Create inserts a row; the same reference may have several.
InsertImage(p, tag) ==
    /\ imageCount' = imageCount + 1
    /\ images' = [images EXCEPT ![imageCount + 1] =
                    [project |-> p, tag |-> tag, at |-> imageClock]]

\* DeleteOrphans, first query: the newest row of every project.
NewestOfProjects == {i \in Rows : \A j \in Rows : images[j].project = images[i].project => j <= i}

\* No reference protected but those the request names (for the mutant).
NoRefs == {}

LatestRefs == {RefOf(i) : i \in NewestOfProjects}

\* Second query: the rows before the cutoff whose reference is not kept.
Orphans(cutoff, keep) == {i \in Rows : images[i].at < cutoff /\ RefOf(i) \notin keep}

-----------------------------------------------------------------------------
(* The registry's handlers. *)

InternalCreate(p, tag) ==
    /\ imageCount < MaxImages
    /\ InsertImage(p, tag)
    /\ UNCHANGED <<imageClock, cleanups, cleaning, rounds, cleaner>>

\* The cutoff of a request: none, or none above zero, means DefaultHours.
Cutoff(hours) ==
    LET age == IF hours <= 0 THEN DefaultHours ELSE hours
    IN  IF age > imageClock THEN 0 ELSE imageClock - age

\* CleanupOrphans starts; keep_refs is what the request names.
CleanupOrphans(c, hours, keep) ==
    /\ cleaner[c] = NoCleanup
    /\ cleaner' = [cleaner EXCEPT ![c] =
                     [NoCleanup EXCEPT !.at = "protect", !.cutoff = Cutoff(hours), !.keep = keep]]

Protect(c) ==
    /\ cleaner[c].at = "protect"
    /\ cleaner' = [cleaner EXCEPT ![c].at = "scan", ![c].keep = @ \cup LatestRefs]
    /\ UNCHANGED <<images, imageCount, imageClock, cleanups, cleaning, rounds>>

Scan(c) ==
    /\ cleaner[c].at = "scan"
    /\ cleaner' = [cleaner EXCEPT ![c].at = "delete",
                     ![c].ids = Orphans(cleaner[c].cutoff, cleaner[c].keep)]
    /\ UNCHANGED <<images, imageCount, imageClock, cleanups, cleaning, rounds>>

\* One row at a time; a row whose DELETE fails is skipped.
DeleteOrphan(c) ==
    /\ cleaner[c].at = "delete"
    /\ \E i \in cleaner[c].ids :
          /\ cleaner' = [cleaner EXCEPT ![c].ids = @ \ {i}]
          /\ images' \in {images, [images EXCEPT ![i] = Unregistered]}
    /\ UNCHANGED <<imageCount, imageClock, cleanups, cleaning, rounds>>

\* The answer.  The scheduler's consumer was waiting for its own request, and
\* acknowledges the entry.
CleanupAnswers(c) ==
    /\ cleaner[c].at = "delete" /\ cleaner[c].ids = {}
    /\ cleaner' = [cleaner EXCEPT ![c] = NoCleanup]
    /\ cleaning' = IF c = "scheduler" THEN NoEntry ELSE cleaning
    /\ UNCHANGED <<images, imageCount, imageClock, cleanups, rounds>>

\* A request of an operator, with any age and keep_refs.
OperatorCleans(c, hours, keep) ==
    /\ c # "scheduler"
    /\ CleanupOrphans(c, hours, keep)
    /\ UNCHANGED <<images, imageCount, imageClock, cleanups, cleaning, rounds>>

-----------------------------------------------------------------------------
(* The scheduler. *)

\* publishCleanup publishes one entry of each type; a publish can fail.
PublishCleanup ==
    /\ rounds < MaxCleanups
    /\ rounds' = rounds + 1
    /\ \E sent \in {<<"orphan_images", "preview">>, <<"orphan_images">>, <<"preview">>, <<>>} :
          cleanups' = cleanups \o sent
    /\ UNCHANGED <<images, imageCount, imageClock, cleaning, cleaner>>

\* cleanupConsumer reads one entry at a time.
ReadCleanup ==
    /\ cleaning = NoEntry
    /\ cleanups # <<>>
    /\ cleaning' = Head(cleanups)
    /\ cleanups' = Tail(cleanups)
    /\ UNCHANGED <<images, imageCount, imageClock, rounds, cleaner>>

\* runOrphanImageCleanup posts its ImageTTL and no keep_refs.
RunOrphanImageCleanup ==
    /\ cleaning = "orphan_images"
    /\ CleanupOrphans("scheduler", DefaultHours, {})
    /\ UNCHANGED <<images, imageCount, imageClock, cleanups, cleaning, rounds>>

\* runPreviewCleanup calls the deployment service (DeployPipeline has what it
\* does); and either call may not get through.  The entry is acknowledged.
CleanupDone ==
    /\ cleaning # NoEntry
    /\ cleaner["scheduler"] = NoCleanup
    /\ cleaning' = NoEntry
    /\ UNCHANGED <<images, imageCount, imageClock, cleanups, rounds, cleaner>>

\* The scheduler dies: the entry it read is pending and read by nobody.  Its
\* request goes with it.
SchedulerCrash ==
    /\ cleaning # NoEntry
    /\ cleaning' = NoEntry
    /\ cleaner' = [cleaner EXCEPT !["scheduler"] = NoCleanup]
    /\ UNCHANGED <<images, imageCount, imageClock, cleanups, rounds>>

ImageTick ==
    /\ imageClock < MaxImageClock
    /\ imageClock' = imageClock + 1
    /\ UNCHANGED <<images, imageCount, cleanups, cleaning, rounds, cleaner>>

ImagesNext ==
    \/ ImageTick \/ PublishCleanup \/ ReadCleanup \/ RunOrphanImageCleanup
    \/ CleanupDone \/ SchedulerCrash
    \/ \E p \in ImageProjects, tag \in ImageTags : InternalCreate(p, tag)
    \/ \E c \in Cleaners :
          \/ Protect(c) \/ Scan(c) \/ DeleteOrphan(c) \/ CleanupAnswers(c)
          \/ \E h \in Hours, keep \in {{}, ImageProjects \X ImageTags} : OperatorCleans(c, h, keep)

ImagesSpec == ImagesInit /\ [][ImagesNext]_imageVars

-----------------------------------------------------------------------------
(* Every variable keeps its type. *)
ImagesTypeOK ==
    /\ images \in [ImageIds -> [project : ImageProjects, tag : ImageTags, at : 0..MaxImageClock]
                                 \cup {Unregistered}]
    /\ imageCount \in 0..MaxImages
    /\ imageClock \in 0..MaxImageClock
    /\ cleanups \in Seq({"orphan_images", "preview"})
    /\ cleaning \in {"orphan_images", "preview", NoEntry}
    /\ rounds \in 0..MaxCleanups
    /\ cleaner \in [Cleaners -> [at : {"idle", "protect", "scan", "delete"}, cutoff : 0..MaxImageClock,
                                 keep : SUBSET (ImageProjects \X ImageTags), ids : SUBSET ImageIds]]

(* However the clean-ups of the scheduler and of operators overlap with each
   other and with builds that register images meanwhile, no step deletes the
   newest row of a project. *)
NewestImageStays == [][\A i \in NewestOfProjects : images'[i] # Unregistered]_imageVars
=============================================================================
