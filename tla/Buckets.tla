------------------------------- MODULE Buckets ------------------------------
(***************************************************************************)
(* The storage service: a bucket per project in MinIO, or in the memory of *)
(* the service, and a table of what is in it.                              *)
(*                                                                         *)
(* An upload puts the object and then upserts its row; a deletion removes  *)
(* the object and then its row.  Uploads and deletions of one key are not  *)
(* kept apart, and neither half is undone when the other fails.            *)
(***************************************************************************)
EXTENDS Naturals, FiniteSets

CONSTANTS StoreProjects, \* the projects
          BucketName,    \* [StoreProjects -> STRING]: made of 8 digits of the ids
          ObjectKeys,    \* the keys objects have
          MaxBodies,     \* the uploads of a behaviour; a body is its upload's number
          Storers,       \* the requests that may be in flight together
          StorageMode,   \* STORAGE_MODE, "minio" or "simulate"
          StorageFaults  \* what goes wrong: see the actions

BucketNames == {BucketName[p] : p \in StoreProjects}
Bodies      == 1 .. MaxBodies
Backends    == {"minio", "simulate"}

ASSUME BucketsAssumption ==
    /\ MaxBodies \in Nat
    /\ StorageMode \in Backends
    /\ StorageFaults \subseteq {"metadata", "remove", "unreachable", "restart"}

VARIABLES
    bucketRow, \* table storage_buckets: the mode it was created in, "none"
    objectRow, \* table storage_objects: the body whose size and etag it has, or 0
    object,    \* the objects, by backend and bucket name
    backend,   \* what the running service stores in
    storer,    \* what each request does next
    bodies,    \* the uploads so far
    excused    \* buckets' keys that two requests were busy with, or a fault hit

bucketVars == <<bucketRow, objectRow, object, backend, storer, bodies, excused>>

Resting == [step |-> "resting", project |-> "none", key |-> "none", body |-> 0]

BucketsTypeOK ==
    /\ bucketRow \in [StoreProjects -> Backends \cup {"none"}]
    /\ objectRow \in [StoreProjects -> [ObjectKeys -> {0} \cup Bodies]]
    /\ object \in [Backends -> [BucketNames -> [ObjectKeys -> {0} \cup Bodies]]]
    /\ backend \in Backends
    /\ \A s \in Storers : /\ storer[s].step \in {"resting", "put", "row", "remove", "unrow"}
                          /\ storer[s].body \in {0} \cup Bodies
    /\ bodies \in {0} \cup Bodies
    /\ excused \subseteq BucketNames \X ObjectKeys

EmptyBackend == [b \in BucketNames |-> [k \in ObjectKeys |-> 0]]

BucketsInit ==
    /\ bucketRow = [p \in StoreProjects |-> "none"]
    /\ objectRow = [p \in StoreProjects |-> [k \in ObjectKeys |-> 0]]
    /\ object    = [e \in Backends |-> EmptyBackend]
    /\ backend   = StorageMode
    /\ storer    = [s \in Storers |-> Resting]
    /\ bodies    = 0
    /\ excused   = {}

\* Who is at a key of a bucket.
AtKey(b, k) == {s \in Storers : /\ storer[s].step # "resting"
                                /\ BucketName[storer[s].project] = b
                                /\ storer[s].key = k}

\* Two projects whose ids begin alike have one bucket.
SharesBucket(p) == \E q \in StoreProjects \ {p} : BucketName[q] = BucketName[p]

Excuses(p, k) == excused' = excused \cup {<<BucketName[p], k>>}

-----------------------------------------------------------------------------
(* The backend and the table                                               *)

\* The service starts: in MinIO when that is what it is told and MinIO
\* answers, in its memory otherwise; what was in its memory is gone.
NewBackend ==
    /\ "restart" \in StorageFaults
    /\ \/ backend' = StorageMode
       \/ "unreachable" \in StorageFaults /\ backend' = "simulate"
    /\ object'  = [object EXCEPT !["simulate"] = EmptyBackend]
    /\ storer'  = [s \in Storers |-> Resting]
    /\ excused' = IF backend = "minio" /\ backend' = "minio"
                  THEN excused \cup {<<BucketName[storer[s].project], storer[s].key>> :
                                     s \in {x \in Storers : storer[x].step # "resting"}}
                  ELSE BucketNames \X ObjectKeys
    /\ UNCHANGED <<bucketRow, objectRow, bodies>>

PutBody(b, k, x) == object' = [object EXCEPT ![backend][b][k] = x]
RemoveBody(b, k) == object' = [object EXCEPT ![backend][b][k] = 0]

\* INSERT ... ON CONFLICT DO NOTHING: the mode it was created in stays.
EnsureBucket(p) ==
    bucketRow' = [bucketRow EXCEPT ![p] = IF @ = "none" THEN backend ELSE @]

\* Mutant: ON CONFLICT DO NOTHING here too.
InsertObject(p, k, x) ==
    objectRow' = [objectRow EXCEPT ![p][k] = IF @ = 0 THEN x ELSE @]

UpsertObject(p, k, x) == objectRow' = [objectRow EXCEPT ![p][k] = x]
DeleteObjectRow(p, k) == objectRow' = [objectRow EXCEPT ![p][k] = 0]

-----------------------------------------------------------------------------
(* Requests                                                                *)

\* GetBucket, ListObjects and SignedURL make the bucket, and look.
GetBucket(p) ==
    /\ EnsureBucket(p)
    /\ UNCHANGED <<objectRow, object, backend, storer, bodies, excused>>

\* An upload and a deletion begin with the bucket's row.
StartStorer(s, p, k, step) ==
    /\ storer[s] = Resting
    /\ EnsureBucket(p)
    /\ bodies' = IF step = "put" THEN bodies + 1 ELSE bodies
    /\ bodies' <= MaxBodies
    /\ storer' = [storer EXCEPT ![s] = [step |-> step, project |-> p, key |-> k,
                                        body |-> IF step = "put" THEN bodies' ELSE 0]]
    /\ IF AtKey(BucketName[p], k) # {} \/ SharesBucket(p) THEN Excuses(p, k) ELSE UNCHANGED excused
    /\ UNCHANGED <<objectRow, object, backend>>

\* UploadObject: the object, then its row; without the row the object stays.
PutObject(s) ==
    /\ storer[s].step = "put"
    /\ PutBody(BucketName[storer[s].project], storer[s].key, storer[s].body)
    /\ storer' = [storer EXCEPT ![s].step = "row"]
    /\ UNCHANGED <<bucketRow, objectRow, backend, bodies, excused>>

RecordObject(s) ==
    LET p == storer[s].project  k == storer[s].key IN
    /\ storer[s].step = "row"
    /\ storer' = [storer EXCEPT ![s] = Resting]
    /\ \/ UpsertObject(p, k, storer[s].body) /\ UNCHANGED excused
       \/ "metadata" \in StorageFaults /\ Excuses(p, k) /\ UNCHANGED objectRow
    /\ UNCHANGED <<bucketRow, object, backend, bodies>>

\* DeleteObject: the object, whose error is not looked at ...
RemoveObject(s) ==
    LET p == storer[s].project  k == storer[s].key IN
    /\ storer[s].step = "remove"
    /\ \/ RemoveBody(BucketName[p], k) /\ UNCHANGED excused
       \/ "remove" \in StorageFaults /\ Excuses(p, k) /\ UNCHANGED object
    /\ storer' = [storer EXCEPT ![s].step = "unrow"]
    /\ UNCHANGED <<bucketRow, objectRow, backend, bodies>>

\* ... then the row.
UnrecordObject(s) ==
    LET p == storer[s].project  k == storer[s].key IN
    /\ storer[s].step = "unrow"
    /\ storer' = [storer EXCEPT ![s] = Resting]
    /\ \/ DeleteObjectRow(p, k) /\ UNCHANGED excused
       \/ "metadata" \in StorageFaults /\ Excuses(p, k) /\ UNCHANGED objectRow
    /\ UNCHANGED <<bucketRow, object, backend, bodies>>

BucketsNext ==
    \/ NewBackend
    \/ \E p \in StoreProjects : GetBucket(p)
    \/ \E s \in Storers : \/ PutObject(s) \/ RecordObject(s) \/ RemoveObject(s) \/ UnrecordObject(s)
                          \/ \E p \in StoreProjects, k \in ObjectKeys, step \in {"put", "remove"} :
                                 StartStorer(s, p, k, step)

BucketsSpec == BucketsInit /\ [][BucketsNext]_bucketVars

-----------------------------------------------------------------------------
(* Properties                                                              *)

\* The table tells the truth about a key, an object is there exactly when its
\* row is and the row has that object's size and etag, unless a request is at
\* work on the key, requests on it have overlapped, the two projects have one
\* bucket, or a failure came between the two halves.
RowsMatchObjects ==
    \A p \in StoreProjects, k \in ObjectKeys :
        \/ <<BucketName[p], k>> \in excused
        \/ AtKey(BucketName[p], k) # {}
        \/ objectRow[p][k] = object[backend][BucketName[p]][k]
=============================================================================
