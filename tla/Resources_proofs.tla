-------------------------- MODULE Resources_proofs --------------------------
(***************************************************************************)
(* Proofs about what a project owns on shared infrastructure: objects in   *)
(* buckets (Buckets), databases and add-ons (Provisioning), domains and    *)
(* certificates (Domains).                                                 *)
(*                                                                         *)
(* The three have one difficulty: two stores are kept in step by requests  *)
(* that write first the one and then the other.  Each invariant says of a  *)
(* request in between what it has done and has yet to do, and that it is   *)
(* alone with what it works on, or that what it works on is among the      *)
(* excused (Buckets), the contested (Provisioning), the tangled (Domains). *)
(***************************************************************************)
EXTENDS Buckets, Provisioning, Domains, NaturalsInduction, WellFoundedInduction,
        FiniteSetTheorems, TLAPS

-----------------------------------------------------------------------------
(* Buckets: the invariant                                                  *)

StorerRecords == [step : {"resting", "put", "row", "remove", "unrow"},
                  project : StoreProjects \cup {"none"},
                  key : ObjectKeys \cup {"none"}, body : {0} \cup Bodies]

\* Request r is at key k of bucket b.
At(r, b, k) == r.step # "resting" /\ BucketName[r.project] = b /\ r.key = k

StoredBody(b, k) == object[backend][b][k]

\* A request at a key that is not excused has the key and the bucket for
\* itself, and the object is what its own first half has made of it.
StorerFits(s) ==
    LET r == storer[s]  b == BucketName[r.project]  k == r.key
    IN  r.step # "resting" =>
            /\ r.project \in StoreProjects /\ k \in ObjectKeys
            /\ <<b, k>> \notin excused =>
                   /\ ~SharesBucket(r.project)
                   /\ \A t \in Storers \ {s} : ~At(storer[t], b, k)
                   /\ r.step = "row"   => StoredBody(b, k) = r.body
                   /\ r.step = "unrow" => StoredBody(b, k) = 0

BucketsInv ==
    /\ BucketsTypeOK
    /\ storer \in [Storers -> StorerRecords]
    /\ \A s \in Storers : StorerFits(s)
    /\ RowsMatchObjects

-----------------------------------------------------------------------------
(* Provisioning: the invariant                                             *)

InstanceRecords ==
    [step : {"unasked", "asked", "made", "stored", "conflict", "ready", "deleted", "over"},
     engine : Engines \cup {"custom"}, name : DbNames \cup {"none"},
     mode : {"none", "shared", "simulate"}]

\* An instance that was asked for has an engine and a name.
Named(i) == instance[i].step # "unasked" =>
                instance[i].engine \in Engines /\ instance[i].name \in DbNames

\* Who deletes deletes something that is, or was, ready.
DeleterFits(d) ==
    /\ deleter[d].step # "free" => deleter[d].id \in Creates
    /\ deleter[d].step = "read" => instance[deleter[d].id].step \in {"ready", "deleted"}
    /\ deleter[d].step = "drop" => instance[deleter[d].id].step = "deleted"

\* Until it is dropped, what was made where nobody else was opens with its own
\* password, and nobody else uses it.
KeptAlone(i) ==
    /\ instance[i].step \notin {"unasked", "asked"} /\ HasResource(i)
    /\ \A j \in Creates \ {i} :
           UsesResource(i) /\ UsesResource(j) => ResourceOf(i) # ResourceOf(j)
    /\ instance[i].mode = "shared" /\ instance[i].step \in {"made", "stored", "conflict", "ready"} =>
           password[ResourceOf(i)] = i

ProvisioningInv ==
    /\ ProvisioningTypeOK
    /\ instance \in [Creates -> InstanceRecords]
    /\ \A i \in Creates : Named(i)
    /\ \A d \in Deleters : DeleterFits(d)
    /\ \A i \in alone : KeptAlone(i)
    /\ NothingLeftBehind

-----------------------------------------------------------------------------
(* Domains: the invariant                                                  *)

CallerRecords ==
    [step : {"silent", "route", "certify", "issue", "update", "remove",
             "take", "insert", "serve", "renew", "renewed"},
     host : Hosts \cup {NoHost}, id : {0} \cup DomainIds, copy : DomainRows,
     certs : SUBSET CertIds, ends : {"never", "soon", "later"}]

\* One row at a time has a hostname; a row that is there has one.
OneRowPerHost ==
    /\ \A d \in DomainIds : There(d) => domain[d].host \in Hosts
    /\ \A d, e \in DomainIds :
           There(d) /\ There(e) /\ domain[d].host = domain[e].host => d = e

\* A request about a hostname works on that hostname's row.
CallerKnows(r) ==
    /\ r.step \in {"route", "certify", "issue", "update", "remove", "serve"} =>
           /\ r.host \in Hosts /\ r.id \in DomainIds
           /\ domain[r.id].status # "absent"
           /\ There(r.id) => domain[r.id].host = r.host
    /\ r.step \in {"route", "certify", "issue", "update", "take", "insert"} =>
           /\ r.host \in Hosts /\ r.copy.host = r.host
           /\ r.copy.status \notin {"absent", "deleted"}
    /\ r.step \in {"take", "insert"} => ~r.copy.file
    /\ r.step \in {"silent", "renew", "renewed"} => r.host = NoHost
    /\ r.step \in {"renew", "renewed"} => r.certs # {}

Routed(h) == HostFile(h) \in routed
Rowed(h)  == \E d \in FindByHostname(h) : domain[d].file

\* A request that has its hostname for itself: the file is what the request
\* has made of it, and the row what it was.
RecordFits(r) ==
    LET h == r.host
    IN  /\ r.step \in {"route", "certify", "issue", "update"} => (Routed(h) <=> r.copy.file)
        /\ r.step \in {"route", "certify", "issue", "update", "remove", "serve"} => There(r.id)
        /\ r.step \in {"remove", "insert", "serve"} => ~Routed(h)
        /\ r.step = "insert" => FindByHostname(h) = {}
        /\ r.step = "serve" => ~domain[r.id].file
        /\ r.step = "take" => (Routed(h) => Rowed(h))

\* One request at a time is busy with hostname h, and between requests the
\* file is there when the row says so.
HostWhole(h) ==
    /\ \A c \in Callers : caller[c].host = h =>
           RecordFits(caller[c]) /\ \A x \in Callers \ {c} : caller[x].host # h
    /\ ~Busy(h) => (Routed(h) <=> Rowed(h))

\* A certificate that was renewed exists.
RenewedExist == \A k \in renewed : cert[k].status # "absent"

DomainsInv ==
    /\ DomainsTypeOK
    /\ caller \in [Callers -> CallerRecords]
    /\ OneRowPerHost
    /\ \A c \in Callers : CallerKnows(caller[c])
    /\ RenewedExist /\ RenewalIsKept

\* Where no two hostnames have one file.
Distinct == \A g, h \in Hosts : Sanitize[g] = Sanitize[h] => g = h

DomainsWhole == \A h \in Hosts \ (Bare \cup tangled) : HostWhole(h)

-----------------------------------------------------------------------------
(* Buckets: every step keeps the invariant                                 *)

LEMMA RestingRecord ==
    Resting \in StorerRecords /\ Resting.step = "resting" /\ Resting.body = 0
  BY BucketsAssumption DEF BucketsAssumption, Resting, StorerRecords, Bodies

LEMMA NamesOfBuckets == \A p \in StoreProjects : BucketName[p] \in BucketNames
  BY DEF BucketNames

\* What a record in StorerRecords is to BucketsTypeOK.
LEMMA StorerTypes ==
    ASSUME storer \in [Storers -> StorerRecords]
    PROVE  \A s \in Storers : /\ storer[s].step \in {"resting", "put", "row", "remove", "unrow"}
                              /\ storer[s].body \in {0} \cup Bodies
  BY DEF StorerRecords

LEMMA BucketsInitInv == BucketsInit => BucketsInv
<1> SUFFICES ASSUME BucketsInit
             PROVE  BucketsInv
  OBVIOUS
<1>1. storer \in [Storers -> StorerRecords] /\ \A s \in Storers : storer[s].step = "resting"
  BY RestingRecord DEF BucketsInit
<1>2. BucketsTypeOK
  <2>1. EmptyBackend \in [BucketNames -> [ObjectKeys -> {0} \cup Bodies]]
    BY DEF EmptyBackend
  <2>2. object \in [Backends -> [BucketNames -> [ObjectKeys -> {0} \cup Bodies]]]
    BY <2>1 DEF BucketsInit
  <2> QED
    BY <1>1, <2>2, StorerTypes, BucketsAssumption DEF BucketsInit, BucketsTypeOK, BucketsAssumption
<1>3. RowsMatchObjects
  BY NamesOfBuckets, BucketsAssumption
     DEF BucketsInit, RowsMatchObjects, EmptyBackend, BucketsAssumption, Backends
<1>4. \A s \in Storers : StorerFits(s)
  BY <1>1 DEF StorerFits
<1> QED
  BY <1>1, <1>2, <1>3, <1>4 DEF BucketsInv

\* Nothing is written but key k of p's bucket.
OnlyAt(p, k) ==
    /\ excused \subseteq excused' /\ backend' = backend
    /\ \A b \in BucketNames, j \in ObjectKeys :
           <<b, j>> # <<BucketName[p], k>> => object'[backend][b][j] = object[backend][b][j]
    /\ \A q \in StoreProjects, j \in ObjectKeys :
           <<q, j>> # <<p, k>> => objectRow'[q][j] = objectRow[q][j]

\* What holds of other keys, and of the other requests that are not at this one.
RestFits(s, p, k) ==
    /\ \A t \in Storers \ {s} : ~At(storer[t], BucketName[p], k) => StorerFits(t)'
    /\ \A q \in StoreProjects, j \in ObjectKeys :
           <<BucketName[q], j>> # <<BucketName[p], k>> =>
               \/ <<BucketName[q], j>> \in excused'
               \/ AtKey(BucketName[q], j)' # {}
               \/ objectRow'[q][j] = object'[backend][BucketName[q]][j]

\* A request that takes a step at a key leaves the invariant of every other
\* key and every other request alone.
LEMMA BucketsElsewhere ==
    ASSUME BucketsInv, NEW s \in Storers, NEW r \in StorerRecords,
           storer' = [storer EXCEPT ![s] = r],
           NEW p \in StoreProjects, NEW k \in ObjectKeys,
           At(storer[s], BucketName[p], k) \/ storer[s].step = "resting",
           At(r, BucketName[p], k) \/ r.step = "resting",
           OnlyAt(p, k)
    PROVE  RestFits(s, p, k)
<1> USE DEF OnlyAt
<1>1. \A t \in Storers : storer'[t] = IF t = s THEN r ELSE storer[t]
  BY DEF BucketsInv
<1>2. ASSUME NEW t \in Storers \ {s}, ~At(storer[t], BucketName[p], k)
      PROVE  StorerFits(t)'
  <2> DEFINE b == BucketName[storer[t].project]
             j == storer[t].key
  <2> SUFFICES ASSUME storer[t].step # "resting"
               PROVE  StorerFits(t)'
    BY <1>1, <1>2 DEF StorerFits
  <2>1. /\ storer[t].project \in StoreProjects /\ j \in ObjectKeys /\ b \in BucketNames
        /\ <<b, j>> # <<BucketName[p], k>>
    BY <1>2, NamesOfBuckets DEF BucketsInv, StorerFits, At
  <2>2. storer'[t] = storer[t] /\ ~At(storer'[s], b, j)
    BY <1>1, <2>1 DEF At
  <2>3. \A x \in Storers : At(storer'[x], b, j) => At(storer[x], b, j)
    BY <1>1, <2>2
  <2>4. object'[backend'][b][j] = object[backend][b][j]
    BY <2>1
  <2>5. StorerFits(t)
    BY DEF BucketsInv
  <2> HIDE DEF b, j
  <2> QED
    BY <2>1, <2>2, <2>3, <2>4, <2>5 DEF StorerFits, StoredBody, SharesBucket, b, j
<1>3. ASSUME NEW q \in StoreProjects, NEW j \in ObjectKeys,
             <<BucketName[q], j>> # <<BucketName[p], k>>, <<BucketName[q], j>> \notin excused',
             AtKey(BucketName[q], j)' = {}
      PROVE  objectRow'[q][j] = object'[backend][BucketName[q]][j]
  <2>1. AtKey(BucketName[q], j) = {}
    <3> SUFFICES ASSUME NEW x \in Storers, At(storer[x], BucketName[q], j)
                 PROVE  x = s
      BY <1>3 DEF AtKey, At
    <3> QED
      BY <1>1, <1>3 DEF AtKey, At
  <2>2. <<q, j>> # <<p, k>> /\ BucketName[q] \in BucketNames
    BY <1>3, NamesOfBuckets
  <2>3. objectRow[q][j] = object[backend][BucketName[q]][j]
    BY <1>3, <2>1 DEF BucketsInv, RowsMatchObjects
  <2> QED
    BY <1>3, <2>2, <2>3
<1> QED
  BY <1>2, <1>3 DEF RestFits

\* What the request that has key k of p's bucket to itself leaves there.
KeyFits(s, r, p, k) ==
    <<BucketName[p], k>> \notin excused' =>
        /\ ~SharesBucket(p)
        /\ \A t \in Storers \ {s} : ~At(storer[t], BucketName[p], k)
        /\ r.step = "row"     => object'[backend][BucketName[p]][k] = r.body
        /\ r.step = "unrow"   => object'[backend][BucketName[p]][k] = 0
        /\ r.step = "resting" => objectRow'[p][k] = object'[backend][BucketName[p]][k]

LEMMA BucketsHere ==
    ASSUME BucketsInv, NEW s \in Storers, NEW r \in StorerRecords,
           storer' = [storer EXCEPT ![s] = r],
           NEW p \in StoreProjects, NEW k \in ObjectKeys,
           At(storer[s], BucketName[p], k) \/ storer[s].step = "resting",
           r.step # "resting" => r.project = p /\ r.key = k,
           OnlyAt(p, k),
           KeyFits(s, r, p, k)
    PROVE  (\A t \in Storers : StorerFits(t)') /\ RowsMatchObjects'
<1>0. excused \subseteq excused' /\ backend' = backend
  BY DEF OnlyAt
<1>1. \A t \in Storers : storer'[t] = IF t = s THEN r ELSE storer[t]
  BY DEF BucketsInv
<1>2. At(r, BucketName[p], k) \/ r.step = "resting"
  BY DEF At
<1>3. RestFits(s, p, k)
  BY <1>2, BucketsElsewhere
<1>4. StorerFits(s)'
  <2>1. \A t \in Storers \ {s} : At(storer'[t], BucketName[p], k) => At(storer[t], BucketName[p], k)
    BY <1>1
  <2> QED
    BY <1>0, <1>1, <2>1 DEF StorerFits, KeyFits, StoredBody, SharesBucket
<1>5. ASSUME NEW t \in Storers \ {s}
      PROVE  StorerFits(t)'
  <2>1. CASE ~At(storer[t], BucketName[p], k)
    BY <1>3, <2>1 DEF RestFits
  <2>2. CASE At(storer[t], BucketName[p], k)
    <3>1. <<BucketName[p], k>> \in excused'
      BY <2>2 DEF KeyFits
    <3>2. storer'[t] = storer[t] /\ storer[t].project \in StoreProjects
      BY <1>1, <2>2 DEF BucketsInv, StorerFits, At
    <3> QED
      BY <2>2, <3>1, <3>2 DEF StorerFits, At
  <2> QED
    BY <2>1, <2>2
<1>6. ASSUME NEW q \in StoreProjects, NEW j \in ObjectKeys,
             <<BucketName[q], j>> = <<BucketName[p], k>>
      PROVE  \/ <<BucketName[q], j>> \in excused'
             \/ AtKey(BucketName[q], j)' # {}
             \/ objectRow'[q][j] = object'[backend][BucketName[q]][j]
  <2>1. CASE r.step = "resting"
    <3>1. <<BucketName[p], k>> \notin excused' => q = p
      BY <1>6 DEF KeyFits, SharesBucket
    <3> QED
      BY <1>6, <2>1, <3>1 DEF KeyFits
  <2>2. CASE r.step # "resting"
    <3>1. s \in AtKey(BucketName[q], j)'
      BY <1>1, <1>6, <2>2 DEF AtKey
    <3> QED
      BY <3>1
  <2> QED
    BY <2>1, <2>2
<1>7. RowsMatchObjects'
  BY <1>0, <1>3, <1>6 DEF RowsMatchObjects, RestFits
<1> QED
  BY <1>4, <1>5, <1>7

\* The types, in every step of a request.
LEMMA BucketsTypeStep ==
    ASSUME BucketsInv, NEW s \in Storers,
           \/ PutObject(s) \/ RecordObject(s) \/ RemoveObject(s) \/ UnrecordObject(s)
    PROVE  BucketsTypeOK' /\ storer' \in [Storers -> StorerRecords]
<1> DEFINE p == storer[s].project
           k == storer[s].key
<1>1. /\ p \in StoreProjects /\ k \in ObjectKeys /\ BucketName[p] \in BucketNames
      /\ storer[s].body \in {0} \cup Bodies /\ backend \in Backends
  BY NamesOfBuckets, StorerTypes
     DEF BucketsInv, BucketsTypeOK, StorerFits, PutObject, RecordObject, RemoveObject, UnrecordObject
<1>2. storer' \in [Storers -> StorerRecords]
  BY RestingRecord DEF BucketsInv, PutObject, RecordObject, RemoveObject, UnrecordObject, StorerRecords
<1>3. object' \in [Backends -> [BucketNames -> [ObjectKeys -> {0} \cup Bodies]]]
  <2>1. object \in [Backends -> [BucketNames -> [ObjectKeys -> {0} \cup Bodies]]]
    BY DEF BucketsInv, BucketsTypeOK
  <2>2. PICK x \in {0} \cup Bodies :
            object' = object \/ object' = [object EXCEPT ![backend][BucketName[p]][k] = x]
    BY <1>1 DEF PutObject, RecordObject, RemoveObject, UnrecordObject, PutBody, RemoveBody
  <2> DEFINE f == [object[backend][BucketName[p]] EXCEPT ![k] = x]
             g == [object[backend] EXCEPT ![BucketName[p]] = f]
  <2>3. f \in [ObjectKeys -> {0} \cup Bodies]
    BY <1>1, <2>1
  <2>4. g \in [BucketNames -> [ObjectKeys -> {0} \cup Bodies]]
    BY <1>1, <2>1, <2>3
  <2>5. object' = object \/ object' = [object EXCEPT ![backend] = g]
    BY <2>2
  <2> HIDE DEF f, g
  <2> QED
    BY <1>1, <2>1, <2>4, <2>5
<1>4. objectRow' \in [StoreProjects -> [ObjectKeys -> {0} \cup Bodies]]
  <2>1. objectRow \in [StoreProjects -> [ObjectKeys -> {0} \cup Bodies]]
    BY DEF BucketsInv, BucketsTypeOK
  <2>2. PICK x \in {0} \cup Bodies : objectRow' = objectRow \/ objectRow' = [objectRow EXCEPT ![p][k] = x]
    BY <1>1 DEF PutObject, RecordObject, RemoveObject, UnrecordObject, UpsertObject, DeleteObjectRow
  <2> QED
    BY <1>1, <2>1, <2>2
<1>5. excused' \subseteq BucketNames \X ObjectKeys
  BY <1>1 DEF BucketsInv, BucketsTypeOK, PutObject, RecordObject, RemoveObject, UnrecordObject, Excuses
<1>6. UNCHANGED <<bucketRow, backend, bodies>>
  BY DEF PutObject, RecordObject, RemoveObject, UnrecordObject
<1>7. \A t \in Storers : /\ storer'[t].step \in {"resting", "put", "row", "remove", "unrow"}
                         /\ storer'[t].body \in {0} \cup Bodies
  BY <1>2 DEF StorerRecords
<1> QED
  BY <1>2, <1>3, <1>4, <1>5, <1>6, <1>7 DEF BucketsInv, BucketsTypeOK

\* A request that is at work, and the step it takes next.
LEMMA RequestStep ==
    ASSUME BucketsInv, NEW s \in Storers,
           \/ PutObject(s) \/ RecordObject(s) \/ RemoveObject(s) \/ UnrecordObject(s)
    PROVE  BucketsInv'
<1> DEFINE p == storer[s].project
           k == storer[s].key
           b == BucketName[p]
           r == storer'[s]
<1>1. BucketsTypeOK' /\ storer' \in [Storers -> StorerRecords]
  BY BucketsTypeStep
<1>2. /\ p \in StoreProjects /\ k \in ObjectKeys /\ b \in BucketNames /\ backend \in Backends
      /\ storer[s].step # "resting" /\ storer[s] \in StorerRecords
      /\ storer \in [Storers -> StorerRecords]
  BY NamesOfBuckets
     DEF BucketsInv, BucketsTypeOK, StorerFits, PutObject, RecordObject, RemoveObject, UnrecordObject
<1>3. /\ object \in [Backends -> [BucketNames -> [ObjectKeys -> {0} \cup Bodies]]]
      /\ objectRow \in [StoreProjects -> [ObjectKeys -> {0} \cup Bodies]]
  BY DEF BucketsInv, BucketsTypeOK
<1>4. UNCHANGED backend /\ excused \subseteq excused'
  BY DEF PutObject, RecordObject, RemoveObject, UnrecordObject, Excuses
<1>5. <<b, k>> \notin excused =>
          /\ ~SharesBucket(p) /\ \A t \in Storers \ {s} : ~At(storer[t], b, k)
          /\ storer[s].step = "row"   => object[backend][b][k] = storer[s].body
          /\ storer[s].step = "unrow" => object[backend][b][k] = 0
  BY <1>2 DEF BucketsInv, StorerFits, StoredBody
<1>6. /\ storer' = [storer EXCEPT ![s] = r] /\ r \in StorerRecords
      /\ r.step # "resting" => r.project = p /\ r.key = k
      /\ KeyFits(s, r, p, k) /\ OnlyAt(p, k)
  <2>1. CASE PutObject(s)
    <3>1. /\ storer' = [storer EXCEPT ![s].step = "row"] /\ UNCHANGED <<objectRow, excused>>
          /\ object' = [object EXCEPT ![backend][b][k] = storer[s].body]
      BY <2>1 DEF PutObject, PutBody
    <3>2. r = [storer[s] EXCEPT !.step = "row"] /\ storer' = [storer EXCEPT ![s] = r]
      BY <1>2, <3>1
    <3>3. r.step = "row" /\ r.project = p /\ r.key = k /\ r.body = storer[s].body /\ r \in StorerRecords
      BY <1>1, <1>2, <3>2 DEF StorerRecords
    <3>4. /\ object'[backend][b][k] = storer[s].body
          /\ \A c \in BucketNames, j \in ObjectKeys :
                 <<c, j>> # <<b, k>> => object'[backend][c][j] = object[backend][c][j]
      BY <1>2, <1>3, <3>1
    <3> HIDE DEF p, k, b, r
    <3> QED
      BY <1>4, <1>5, <3>1, <3>2, <3>3, <3>4 DEF KeyFits, OnlyAt, b
  <2>2. CASE RemoveObject(s)
    <3>1. /\ storer' = [storer EXCEPT ![s].step = "unrow"] /\ UNCHANGED objectRow
          /\ \/ object' = [object EXCEPT ![backend][b][k] = 0]
             \/ <<b, k>> \in excused' /\ UNCHANGED object
      BY <2>2 DEF RemoveObject, RemoveBody, Excuses
    <3>2. r = [storer[s] EXCEPT !.step = "unrow"] /\ storer' = [storer EXCEPT ![s] = r]
      BY <1>2, <3>1
    <3>3. r.step = "unrow" /\ r.project = p /\ r.key = k /\ r \in StorerRecords
      BY <1>1, <1>2, <3>2 DEF StorerRecords
    <3>4. /\ <<b, k>> \notin excused' => object'[backend][b][k] = 0
          /\ \A c \in BucketNames, j \in ObjectKeys :
                 <<c, j>> # <<b, k>> => object'[backend][c][j] = object[backend][c][j]
      BY <1>2, <1>3, <3>1
    <3> HIDE DEF p, k, b, r
    <3> QED
      BY <1>4, <1>5, <3>1, <3>2, <3>3, <3>4 DEF KeyFits, OnlyAt, b
  <2>3. CASE RecordObject(s)
    <3>1. /\ storer' = [storer EXCEPT ![s] = Resting] /\ UNCHANGED object
          /\ storer[s].step = "row"
          /\ \/ objectRow' = [objectRow EXCEPT ![p][k] = storer[s].body]
             \/ <<b, k>> \in excused' /\ UNCHANGED objectRow
      BY <2>3 DEF RecordObject, UpsertObject, Excuses
    <3>2. r = Resting /\ storer' = [storer EXCEPT ![s] = r]
      BY <1>2, <3>1
    <3>3. r.step = "resting" /\ r \in StorerRecords
      BY <3>2, RestingRecord
    <3>4. /\ <<b, k>> \notin excused' => objectRow'[p][k] = storer[s].body
          /\ \A q \in StoreProjects, j \in ObjectKeys :
                 <<q, j>> # <<p, k>> => objectRow'[q][j] = objectRow[q][j]
      BY <1>2, <1>3, <3>1
    <3> HIDE DEF p, k, b, r
    <3> QED
      BY <1>4, <1>5, <3>1, <3>2, <3>3, <3>4 DEF KeyFits, OnlyAt, b
  <2>4. CASE UnrecordObject(s)
    <3>1. /\ storer' = [storer EXCEPT ![s] = Resting] /\ UNCHANGED object
          /\ storer[s].step = "unrow"
          /\ \/ objectRow' = [objectRow EXCEPT ![p][k] = 0]
             \/ <<b, k>> \in excused' /\ UNCHANGED objectRow
      BY <2>4 DEF UnrecordObject, DeleteObjectRow, Excuses
    <3>2. r = Resting /\ storer' = [storer EXCEPT ![s] = r]
      BY <1>2, <3>1
    <3>3. r.step = "resting" /\ r \in StorerRecords
      BY <3>2, RestingRecord
    <3>4. /\ <<b, k>> \notin excused' => objectRow'[p][k] = 0
          /\ \A q \in StoreProjects, j \in ObjectKeys :
                 <<q, j>> # <<p, k>> => objectRow'[q][j] = objectRow[q][j]
      BY <1>2, <1>3, <3>1
    <3> HIDE DEF p, k, b, r
    <3> QED
      BY <1>4, <1>5, <3>1, <3>2, <3>3, <3>4 DEF KeyFits, OnlyAt, b
  <2> QED
    BY <2>1, <2>2, <2>3, <2>4
<1>7. At(storer[s], b, k)
  BY <1>2 DEF At
<1>8. (\A t \in Storers : StorerFits(t)') /\ RowsMatchObjects'
  <2> HIDE DEF p, k, r
  <2> QED
    BY <1>2, <1>6, <1>7, BucketsHere
<1> QED
  BY <1>1, <1>8 DEF BucketsInv

\* A request that comes in.
LEMMA ArrivalStep ==
    ASSUME BucketsInv, NEW s \in Storers, NEW p \in StoreProjects, NEW k \in ObjectKeys,
           NEW step \in {"put", "remove"}, StartStorer(s, p, k, step)
    PROVE  BucketsInv'
<1> DEFINE r == [step |-> step, project |-> p, key |-> k,
                 body |-> IF step = "put" THEN bodies' ELSE 0]
           b == BucketName[p]
<1>1. bodies' \in {0} \cup Bodies /\ (step = "put" => bodies' \in Bodies)
  BY BucketsAssumption DEF BucketsInv, BucketsTypeOK, StartStorer, Bodies, BucketsAssumption
<1>2. r \in StorerRecords /\ r.step \notin {"resting", "row", "unrow"} /\ r.project = p /\ r.key = k
  BY <1>1 DEF StorerRecords
<1>3. storer' = [storer EXCEPT ![s] = r] /\ UNCHANGED <<objectRow, object, backend>>
  BY DEF StartStorer
<1>4. bucketRow' \in [StoreProjects -> Backends \cup {"none"}]
  BY DEF BucketsInv, BucketsTypeOK, StartStorer, EnsureBucket
<1>5. b \in BucketNames /\ excused' \subseteq BucketNames \X ObjectKeys /\ excused \subseteq excused'
      /\ storer[s].step = "resting"
  BY NamesOfBuckets, RestingRecord DEF BucketsInv, BucketsTypeOK, StartStorer, Excuses
<1>6. <<b, k>> \notin excused' =>
          ~SharesBucket(p) /\ \A t \in Storers \ {s} : ~At(storer[t], b, k)
  BY DEF StartStorer, Excuses, AtKey, At
<1>7. storer' \in [Storers -> StorerRecords]
  BY <1>2, <1>3 DEF BucketsInv
<1>8. \A t \in Storers : /\ storer'[t].step \in {"resting", "put", "row", "remove", "unrow"}
                         /\ storer'[t].body \in {0} \cup Bodies
  BY <1>7 DEF StorerRecords
<1>9. BucketsTypeOK'
  BY <1>1, <1>3, <1>4, <1>5, <1>8 DEF BucketsInv, BucketsTypeOK
<1> HIDE DEF r
<1>10. KeyFits(s, r, p, k) /\ OnlyAt(p, k)
  BY <1>2, <1>3, <1>5, <1>6 DEF KeyFits, OnlyAt
<1>11. (\A t \in Storers : StorerFits(t)') /\ RowsMatchObjects'
  BY <1>2, <1>3, <1>5, <1>10, BucketsHere
<1> QED
  BY <1>7, <1>9, <1>11 DEF BucketsInv

\* The service starts anew: nobody is at work, and what the restart or the
\* other backend may have upset is excused.
LEMMA RestartStep ==
    ASSUME BucketsInv, NewBackend
    PROVE  BucketsInv'
<1>1. storer' = [s \in Storers |-> Resting] /\ UNCHANGED <<bucketRow, objectRow, bodies>>
  BY DEF NewBackend
<1>2. storer' \in [Storers -> StorerRecords] /\ \A s \in Storers : storer'[s].step = "resting"
  BY <1>1, RestingRecord
<1>3. /\ object' = [object EXCEPT !["simulate"] = EmptyBackend]
      /\ object \in [Backends -> [BucketNames -> [ObjectKeys -> {0} \cup Bodies]]]
      /\ EmptyBackend \in [BucketNames -> [ObjectKeys -> {0} \cup Bodies]]
  BY DEF NewBackend, BucketsInv, BucketsTypeOK, EmptyBackend
<1>4. object' \in [Backends -> [BucketNames -> [ObjectKeys -> {0} \cup Bodies]]]
  BY <1>3
<1>5. backend' \in Backends
  BY BucketsAssumption DEF NewBackend, Backends, BucketsAssumption
<1>6. \A s \in Storers : storer[s].step # "resting" =>
          storer[s].project \in StoreProjects /\ storer[s].key \in ObjectKeys
  BY DEF BucketsInv, StorerFits
<1>7. excused' \subseteq BucketNames \X ObjectKeys
  BY <1>6, NamesOfBuckets DEF NewBackend, BucketsInv, BucketsTypeOK
<1>8. BucketsTypeOK'
  <2>1. \A s \in Storers : /\ storer'[s].step \in {"resting", "put", "row", "remove", "unrow"}
                           /\ storer'[s].body \in {0} \cup Bodies
    BY <1>2 DEF StorerRecords
  <2> QED
    BY <1>1, <1>4, <1>5, <1>7, <2>1 DEF BucketsInv, BucketsTypeOK
<1>9. RowsMatchObjects'
  <2> SUFFICES ASSUME NEW p \in StoreProjects, NEW k \in ObjectKeys,
                      <<BucketName[p], k>> \notin excused'
               PROVE  objectRow'[p][k] = object'[backend'][BucketName[p]][k]
    BY DEF RowsMatchObjects
  <2>1. BucketName[p] \in BucketNames
    BY NamesOfBuckets
  <2>2. backend = "minio" /\ backend' = "minio"
    BY <2>1 DEF NewBackend
  <2>3. <<BucketName[p], k>> \notin excused
        /\ \A s \in Storers : ~At(storer[s], BucketName[p], k)
    BY <2>2 DEF NewBackend, At
  <2>4. AtKey(BucketName[p], k) = {}
    BY <2>3 DEF AtKey, At
  <2>5. objectRow[p][k] = object["minio"][BucketName[p]][k]
    BY <2>2, <2>3, <2>4 DEF BucketsInv, RowsMatchObjects
  <2>6. object'["minio"] = object["minio"]
    BY <1>3 DEF Backends
  <2> QED
    BY <1>1, <2>2, <2>5, <2>6
<1> QED
  BY <1>2, <1>8, <1>9 DEF BucketsInv, StorerFits

LEMMA BucketsStep ==
    ASSUME BucketsInv, [BucketsNext]_bucketVars
    PROVE  BucketsInv'
<1>1. CASE UNCHANGED bucketVars
  BY <1>1 DEF bucketVars, BucketsInv, BucketsTypeOK, StorerFits, StoredBody, SharesBucket,
              At, RowsMatchObjects, AtKey
<1>2. ASSUME NEW p \in StoreProjects, GetBucket(p)
      PROVE  BucketsInv'
  <2>1. UNCHANGED <<objectRow, object, backend, storer, bodies, excused>>
    BY <1>2 DEF GetBucket
  <2>2. bucketRow' \in [StoreProjects -> Backends \cup {"none"}]
    BY <1>2 DEF BucketsInv, BucketsTypeOK, GetBucket, EnsureBucket
  <2> QED
    BY <2>1, <2>2 DEF BucketsInv, BucketsTypeOK, StorerFits, StoredBody, SharesBucket,
                      At, RowsMatchObjects, AtKey
<1> QED
  BY <1>1, <1>2, RequestStep, ArrivalStep, RestartStep DEF BucketsNext

LEMMA BucketsInvHolds == BucketsSpec => []BucketsInv
<1>1. BucketsInv /\ [BucketsNext]_bucketVars => BucketsInv'
  BY BucketsStep
<1> QED
  BY <1>1, BucketsInitInv, PTL DEF BucketsSpec

\* The rows, the objects and the requests keep their types.
THEOREM BucketsTypes == BucketsSpec => []BucketsTypeOK
<1>1. BucketsInv => BucketsTypeOK
  BY DEF BucketsInv
<1> QED
  BY <1>1, BucketsInvHolds, PTL

\* A key nobody is busy with, and that no fault, no overlap and no shared
\* bucket has ever touched, has the row of the object that is there: uploads
\* and deletions in two halves leave no other trace.
THEOREM ObjectsAccountedFor == BucketsSpec => []RowsMatchObjects
<1>1. BucketsInv => RowsMatchObjects
  BY DEF BucketsInv
<1> QED
  BY <1>1, BucketsInvHolds, PTL

-----------------------------------------------------------------------------
(* Provisioning: every step keeps the invariant                            *)

\* The steps at which what was made is there to be used.
InService == {"made", "stored", "conflict", "ready"}

Begun(i) == instance[i].step \notin {"unasked", "asked"}

\* Once begun, an instance stays of its engine, name and mode.
SameResource(i) ==
    /\ instance'[i].engine = instance[i].engine
    /\ instance'[i].name = instance[i].name
    /\ instance'[i].mode = instance[i].mode

LEMMA UsesBegun ==
    ASSUME NEW i, UsesResource(i)
    PROVE  Begun(i) /\ HasResource(i)
  BY DEF UsesResource, Begun

LEMMA ResourceKept ==
    ASSUME NEW i, instance'[i].engine = instance[i].engine,
           instance'[i].name = instance[i].name
    PROVE  ResourceOf(i)' = ResourceOf(i) /\ HasResource(i)' = HasResource(i)
  BY DEF ResourceOf, HasResource

LEMMA ResourceTyped ==
    ASSUME ProvisioningInv, NEW i \in Creates, instance[i].step # "unasked"
    PROVE  ResourceOf(i) \in Resources
  BY DEF ProvisioningInv, Named, ResourceOf, Resources, ResourceNames

\* The part of the invariant that is about resources.
ResourcesKept == (\A i \in alone : KeptAlone(i)) /\ NothingLeftBehind

\* No password changes, and what stops being used is abandoned.
Calm(j) ==
    /\ Begun(j) => /\ SameResource(j)
                   /\ instance'[j].step \notin {"unasked", "asked"}
                   /\ instance'[j].step \in InService => instance[j].step \in InService
    /\ UsesResource(j)' => UsesResource(j)
    /\ UsesResource(j) => UsesResource(j)' \/ ResourceOf(j) \in abandoned'

LEMMA CalmKeeps ==
    ASSUME ProvisioningInv, UNCHANGED <<password, alone>>, abandoned \subseteq abandoned',
           \A j \in Creates : Calm(j)
    PROVE  ResourcesKept'
<1>1. \A j \in Creates : Begun(j) => ResourceOf(j)' = ResourceOf(j) /\ HasResource(j)' = HasResource(j)
  BY ResourceKept DEF Calm, SameResource
<1>2. ASSUME NEW i \in alone
      PROVE  KeptAlone(i)'
  <2>1. i \in Creates /\ KeptAlone(i) /\ Begun(i) /\ HasResource(i)
    BY DEF ProvisioningInv, ProvisioningTypeOK, KeptAlone, Begun
  <2>2. /\ HasResource(i)' /\ ResourceOf(i)' = ResourceOf(i)
        /\ instance'[i].step \notin {"unasked", "asked"} /\ instance'[i].mode = instance[i].mode
        /\ instance'[i].step \in InService => instance[i].step \in InService
    BY <1>1, <2>1 DEF Calm, SameResource
  <2>3. ASSUME NEW j \in Creates \ {i}, UsesResource(i)', UsesResource(j)'
        PROVE  ResourceOf(i)' # ResourceOf(j)'
    <3>1. UsesResource(i) /\ UsesResource(j) /\ Begun(j)
      BY <2>1, <2>3, UsesBegun DEF Calm
    <3> QED
      BY <1>1, <2>1, <2>2, <3>1 DEF KeptAlone
  <2> QED
    BY <2>1, <2>2, <2>3 DEF KeptAlone, InService
<1>3. NothingLeftBehind'
  <2> SUFFICES ASSUME NEW r \in Resources, password[r] # 0, r \notin abandoned'
               PROVE  \E i \in Creates : UsesResource(i)' /\ ResourceOf(i)' = r
    BY DEF NothingLeftBehind
  <2>1. PICK i \in Creates : UsesResource(i) /\ ResourceOf(i) = r
    BY DEF ProvisioningInv, NothingLeftBehind
  <2>2. UsesResource(i)'
    BY <2>1 DEF Calm
  <2> QED
    BY <1>1, <2>1, <2>2, UsesBegun
<1> QED
  BY <1>2, <1>3 DEF ResourcesKept

\* Instance i goes on, as it must, and nobody else.
OnlyMoves(i) == \A j \in Creates \ {i} : instance'[j] = instance[j]

LEMMA OthersSame ==
    ASSUME NEW i, OnlyMoves(i), NEW j \in Creates \ {i}
    PROVE  /\ ResourceOf(j)' = ResourceOf(j) /\ HasResource(j)' = HasResource(j)
           /\ UsesResource(j)' = UsesResource(j) /\ SameResource(j)
           /\ KeptAlone(j)' => Begun(j)
<1>1. instance'[j] = instance[j]
  BY DEF OnlyMoves
<1> QED
  BY <1>1 DEF ResourceOf, HasResource, UsesResource, SameResource, KeptAlone, Begun

\* Something is made for i: whoever is met there is alone no longer.
LEMMA MakeKeeps ==
    ASSUME ProvisioningInv, NEW i \in Creates, instance[i].step = "asked", HasResource(i),
           Meets(i), OnlyMoves(i),
           instance'[i].engine = instance[i].engine, instance'[i].name = instance[i].name,
           instance'[i].step \in {"made", "over"}, abandoned \subseteq abandoned',
           NEW x \in {i, password[ResourceOf(i)]},
           password' = [password EXCEPT ![ResourceOf(i)] = x],
           instance'[i].step = "made" /\ instance'[i].mode = "shared"
               /\ password[ResourceOf(i)] = 0 => x = i,
           instance'[i].step = "over" => password' = password \/ ResourceOf(i) \in abandoned'
    PROVE  ResourcesKept' /\ alone' \subseteq Creates
<1> DEFINE R == ResourceOf(i)
           others == {j \in Creates \ {i} : UsesResource(j) /\ ResourceOf(j) = R}
<1>1. alone \subseteq Creates /\ password \in [Resources -> {0} \cup Creates] /\ R \in Resources
  BY ResourceTyped DEF ProvisioningInv, ProvisioningTypeOK
<1>2. R' = R /\ HasResource(i)'
  BY ResourceKept
<1>3. i \notin alone /\ ~UsesResource(i)
  BY DEF ProvisioningInv, KeptAlone, UsesResource
<1>4. \/ alone' = alone \cup {i} /\ others = {} /\ password[R] = 0
      \/ alone' = alone \ others
  BY DEF Meets
<1>5. alone' \subseteq Creates
  BY <1>1, <1>4
<1>6. ASSUME NEW a \in alone', a # i
      PROVE  KeptAlone(a)'
  <2>1. a \in alone /\ a \in Creates /\ a \notin others
    BY <1>1, <1>4, <1>6
  <2>2. KeptAlone(a) /\ instance'[a] = instance[a]
    BY <1>6, <2>1 DEF ProvisioningInv, OnlyMoves
  <2>3. /\ ResourceOf(a)' = ResourceOf(a) /\ HasResource(a)' = HasResource(a)
        /\ UsesResource(a)' = UsesResource(a)
    BY <1>6, <2>1, OthersSame
  <2>4. UsesResource(a) => ResourceOf(a) # R
    BY <1>6, <2>1
  <2>5. ASSUME NEW j \in Creates \ {a}, UsesResource(a), UsesResource(j)'
        PROVE  ResourceOf(a) # ResourceOf(j)'
    <3>1. CASE j = i
      BY <1>2, <2>4, <2>5, <3>1
    <3>2. CASE j # i
      BY <2>2, <2>5, <3>2, OthersSame DEF KeptAlone
    <3> QED
      BY <3>1, <3>2
  <2>6. /\ HasResource(a) /\ instance[a].step \notin {"unasked", "asked"}
        /\ instance[a].mode = "shared" /\ instance[a].step \in InService =>
               password[ResourceOf(a)] = a /\ UsesResource(a)
    BY <2>2 DEF KeptAlone, InService, UsesResource
  <2>7. ResourceOf(a) \in Resources
    BY <2>1, <2>6, ResourceTyped
  <2>8. instance[a].mode = "shared" /\ instance[a].step \in InService => password'[ResourceOf(a)] = a
    BY <1>1, <2>4, <2>6, <2>7
  <2> HIDE DEF others, R
  <2> QED
    BY <2>2, <2>3, <2>5, <2>6, <2>8 DEF KeptAlone, InService
<1>7. ASSUME i \in alone'
      PROVE  KeptAlone(i)'
  <2>1. others = {} /\ password[R] = 0
    BY <1>3, <1>4, <1>7
  <2>2. ASSUME NEW j \in Creates \ {i}, UsesResource(j)'
        PROVE  R' # ResourceOf(j)'
    BY <1>2, <2>1, <2>2, OthersSame
  <2>3. instance'[i].step = "made" /\ instance'[i].mode = "shared" => password'[R] = i
    BY <1>1, <2>1
  <2> HIDE DEF others
  <2> QED
    BY <1>2, <2>2, <2>3 DEF KeptAlone
<1>8. NothingLeftBehind'
  <2> SUFFICES ASSUME NEW r \in Resources, password'[r] # 0, r \notin abandoned'
               PROVE  \E j \in Creates : UsesResource(j)' /\ ResourceOf(j)' = r
    BY DEF NothingLeftBehind
  <2>1. CASE r = R /\ instance'[i].step = "made"
    <3>1. UsesResource(i)'
      BY <1>2, <2>1 DEF UsesResource
    <3> QED
      BY <1>2, <2>1, <3>1
  <2>2. CASE r # R \/ instance'[i].step = "over"
    <3>1. password[r] # 0 /\ r \notin abandoned
      BY <1>1, <2>2
    <3>2. PICK j \in Creates : UsesResource(j) /\ ResourceOf(j) = r
      BY <3>1 DEF ProvisioningInv, NothingLeftBehind
    <3>3. j # i
      BY <1>3, <3>2
    <3> QED
      BY <3>2, <3>3, OthersSame
  <2> QED
    BY <2>1, <2>2
<1> QED
  BY <1>5, <1>6, <1>7, <1>8 DEF ResourcesKept

\* A resource is dropped for i, which is of no more use.
LEMMA DropEffect ==
    ASSUME ProvisioningInv, NEW i \in Creates, Drop(i)
    PROVE  \/ /\ HasResource(i)
              /\ \/ password' = [password EXCEPT ![ResourceOf(i)] = 0] /\ abandoned' = abandoned
                 \/ abandoned' = abandoned \cup {ResourceOf(i)} /\ password' = password
           \/ ~HasResource(i) /\ UNCHANGED <<password, abandoned>>
<1>1. Drops(instance[i].engine) => HasResource(i)
  BY DEF Drops, HasResource
<1> QED
  BY <1>1 DEF Drop

LEMMA DropKeeps ==
    ASSUME ProvisioningInv, NEW i \in Creates, instance[i].step \in {"conflict", "deleted"},
           Drop(i), OnlyMoves(i), SameResource(i),
           instance'[i].step = "over" \/ (instance[i].step = "deleted" /\ instance'[i] = instance[i]),
           UNCHANGED alone
    PROVE  ResourcesKept' /\ abandoned' \subseteq Resources
           /\ password' \in [Resources -> {0} \cup Creates]
<1> DEFINE R == ResourceOf(i)
<1>1. /\ alone \subseteq Creates /\ password \in [Resources -> {0} \cup Creates] /\ R \in Resources
      /\ abandoned \subseteq Resources
  BY ResourceTyped DEF ProvisioningInv, ProvisioningTypeOK
<1>2. (HasResource(i) <=> UsesResource(i)) /\ R' = R /\ (HasResource(i)' <=> HasResource(i))
  <2>1. R' = R /\ HasResource(i)' = HasResource(i)
    BY ResourceKept DEF SameResource
  <2>2. HasResource(i) <=> UsesResource(i)
    BY DEF UsesResource
  <2> QED
    BY <2>1, <2>2
<1>3. abandoned \subseteq abandoned' /\ abandoned' \subseteq Resources
      /\ password' \in [Resources -> {0} \cup Creates]
  BY <1>1, DropEffect
<1>4. /\ \A r \in Resources : r # R => password'[r] = password[r]
      /\ \A r \in Resources : password'[r] # 0 => password'[r] = password[r]
      /\ password'[R] # 0 /\ HasResource(i) => R \in abandoned'
      /\ ~HasResource(i) => password' = password
  BY <1>1, DropEffect
<1>5. ASSUME NEW a \in alone
      PROVE  KeptAlone(a)'
  <2>1. a \in Creates /\ KeptAlone(a)
    BY <1>1 DEF ProvisioningInv
  <2>2. CASE a = i
    <3>1. instance'[i].step \notin InService \cup {"unasked", "asked"} /\ HasResource(i)
      BY <2>1, <2>2 DEF InService, KeptAlone
    <3>2. ASSUME NEW j \in Creates \ {i}, UsesResource(i)', UsesResource(j)'
          PROVE  R' # ResourceOf(j)'
      BY <1>2, <2>1, <2>2, <3>1, <3>2, OthersSame DEF KeptAlone
    <3> QED
      BY <1>2, <2>2, <3>1, <3>2 DEF KeptAlone, InService
  <2>3. CASE a # i
    <3>1. instance'[a] = instance[a] /\ ResourceOf(a)' = ResourceOf(a)
          /\ HasResource(a)' = HasResource(a) /\ UsesResource(a)' = UsesResource(a)
      BY <2>1, <2>3, OthersSame DEF OnlyMoves
    <3>2. ASSUME NEW j \in Creates \ {a}, UsesResource(a), UsesResource(j)'
          PROVE  ResourceOf(a) # ResourceOf(j)'
      <4>1. UsesResource(j) /\ ResourceOf(j)' = ResourceOf(j)
        <5>1. CASE j = i
          BY <1>2, <3>2, <5>1, UsesBegun DEF UsesResource
        <5>2. CASE j # i
          BY <3>2, <5>2, OthersSame
        <5> QED
          BY <5>1, <5>2
      <4> QED
        BY <2>1, <3>2, <4>1 DEF KeptAlone
    <3>3. instance[a].mode = "shared" /\ instance[a].step \in InService => password'[ResourceOf(a)] = a
      <4>1. SUFFICES ASSUME instance[a].mode = "shared", instance[a].step \in InService
                     PROVE  password'[ResourceOf(a)] = a
        OBVIOUS
      <4>2. UsesResource(a) /\ password[ResourceOf(a)] = a /\ ResourceOf(a) \in Resources
        BY <2>1, <4>1, ResourceTyped DEF KeptAlone, UsesResource, InService
      <4>3. HasResource(i) => ResourceOf(a) # R
        BY <1>2, <2>1, <2>3, <4>2 DEF KeptAlone
      <4> QED
        BY <1>4, <4>2, <4>3
    <3> QED
      BY <2>1, <3>1, <3>2, <3>3 DEF KeptAlone, InService
  <2> QED
    BY <2>2, <2>3
<1>6. NothingLeftBehind'
  <2> SUFFICES ASSUME NEW r \in Resources, password'[r] # 0, r \notin abandoned'
               PROVE  \E j \in Creates : UsesResource(j)' /\ ResourceOf(j)' = r
    BY DEF NothingLeftBehind
  <2>1. PICK j \in Creates : UsesResource(j) /\ ResourceOf(j) = r
    BY <1>3, <1>4 DEF ProvisioningInv, NothingLeftBehind
  <2>2. j # i
    BY <1>2, <1>4, <2>1
  <2> QED
    BY <2>1, <2>2, OthersSame
<1> QED
  BY <1>3, <1>5, <1>6 DEF ResourcesKept

\* The part of the invariant that is about the requests.
RequestsKept ==
    /\ instance \in [Creates -> InstanceRecords]
    /\ \A i \in Creates : Named(i)
    /\ deleter \in [Deleters -> [step : {"free", "read", "drop"}, id : {0} \cup Creates]]
    /\ \A d \in Deleters : DeleterFits(d)

\* The rest of it is about types.
RestTyped ==
    /\ password \in [Resources -> {0} \cup Creates]
    /\ url \in [SecretKeys -> {0} \cup Creates] /\ catalog \subseteq {"custom"}
    /\ alone \subseteq Creates /\ abandoned \subseteq Resources

LEMMA PartsAreTyped == RequestsKept /\ RestTyped => ProvisioningTypeOK
<1> SUFFICES ASSUME RequestsKept, RestTyped
             PROVE  ProvisioningTypeOK
  OBVIOUS
<1>1. ASSUME NEW i \in Creates
      PROVE  /\ instance[i].step \in {"unasked", "asked", "made", "stored", "conflict",
                                      "ready", "deleted", "over"}
             /\ instance[i].engine \in Engines \cup {"custom"}
             /\ instance[i].mode \in {"none", "shared", "simulate"}
  BY DEF RequestsKept, InstanceRecords
<1> QED
  BY <1>1 DEF RequestsKept, RestTyped, ProvisioningTypeOK

LEMMA InvIsParts == ProvisioningInv <=> RequestsKept /\ ResourcesKept /\ RestTyped
<1>1. ProvisioningInv => RequestsKept /\ ResourcesKept /\ RestTyped
  BY DEF RequestsKept, ResourcesKept, RestTyped, ProvisioningInv, ProvisioningTypeOK
<1>2. RequestsKept /\ ResourcesKept /\ RestTyped => ProvisioningInv
  BY PartsAreTyped DEF RequestsKept, ResourcesKept, ProvisioningInv
<1> QED
  BY <1>1, <1>2

LEMMA PartsMakeInv ==
    ASSUME RequestsKept', ResourcesKept', password' \in [Resources -> {0} \cup Creates],
           url' \in [SecretKeys -> {0} \cup Creates], catalog' \subseteq {"custom"},
           alone' \subseteq Creates, abandoned' \subseteq Resources
    PROVE  ProvisioningInv'
<1>1. ProvisioningInv <=> RequestsKept /\ ResourcesKept /\ RestTyped
  BY InvIsParts
<1>2. RestTyped'
  BY DEF RestTyped
<1>3. ProvisioningInv' <=> RequestsKept' /\ ResourcesKept' /\ RestTyped'
  BY InvIsParts, PTL
<1> QED
  BY <1>2, <1>3

LEMMA InvMakesParts ==
    ASSUME ProvisioningInv
    PROVE  /\ RequestsKept /\ ResourcesKept /\ password \in [Resources -> {0} \cup Creates]
           /\ url \in [SecretKeys -> {0} \cup Creates] /\ catalog \subseteq {"custom"}
           /\ alone \subseteq Creates /\ abandoned \subseteq Resources
  BY DEF RequestsKept, ResourcesKept, ProvisioningInv, ProvisioningTypeOK

\* Instance i becomes r.
Becomes(i, r) == /\ r \in InstanceRecords
                 /\ r.step # "unasked" /\ r.engine \in Engines /\ r.name \in DbNames
                 /\ instance' = [instance EXCEPT ![i] = r]

LEMMA BecomesKeeps ==
    ASSUME RequestsKept, NEW i \in Creates, NEW r, Becomes(i, r)
    PROVE  /\ instance' \in [Creates -> InstanceRecords] /\ \A j \in Creates : Named(j)'
           /\ OnlyMoves(i) /\ instance'[i] = r
<1>1. instance' \in [Creates -> InstanceRecords] /\ OnlyMoves(i) /\ instance'[i] = r
  BY DEF RequestsKept, Becomes, OnlyMoves
<1>2. ASSUME NEW j \in Creates
      PROVE  Named(j)'
  <2>1. CASE j = i
    BY <1>1, <2>1 DEF Named, Becomes
  <2>2. CASE j # i
    <3>1. instance'[j] = instance[j] /\ Named(j)
      BY <1>1, <2>2 DEF OnlyMoves, RequestsKept
    <3> QED
      BY <3>1 DEF Named
  <2> QED
    BY <2>1, <2>2
<1> QED
  BY <1>1, <1>2

\* The moves of a request at work.
LEMMA GoesBecomes ==
    ASSUME RequestsKept, NEW i \in Creates, instance[i].step # "unasked",
           NEW s \in {"made", "stored", "conflict", "ready", "deleted", "over"}, Goes(i, s)
    PROVE  Becomes(i, [instance[i] EXCEPT !.step = s])
<1>1. instance[i] \in InstanceRecords /\ Named(i)
  BY DEF RequestsKept
<1> QED
  BY <1>1 DEF RequestsKept, Becomes, Goes, Named, InstanceRecords

LEMMA GoesMoves ==
    ASSUME RequestsKept, NEW i \in Creates, instance[i].step # "unasked",
           NEW s \in {"made", "stored", "conflict", "ready", "deleted", "over"}, Goes(i, s)
    PROVE  /\ instance' \in [Creates -> InstanceRecords] /\ \A j \in Creates : Named(j)'
           /\ OnlyMoves(i) /\ SameResource(i) /\ instance'[i].step = s
<1> DEFINE r == [instance[i] EXCEPT !.step = s]
<1>1. Becomes(i, r)
  BY GoesBecomes
<1>2. r.step = s /\ r.engine = instance[i].engine /\ r.name = instance[i].name
      /\ r.mode = instance[i].mode
  <2>1. instance[i] \in InstanceRecords
    BY DEF RequestsKept
  <2> QED
    BY <2>1 DEF InstanceRecords
<1> HIDE DEF r
<1>3. instance' \in [Creates -> InstanceRecords] /\ (\A j \in Creates : Named(j)')
      /\ OnlyMoves(i) /\ instance'[i] = r
  BY <1>1, BecomesKeeps
<1> QED
  BY <1>2, <1>3 DEF SameResource

LEMMA MadeMoves ==
    ASSUME RequestsKept, NEW i \in Creates, instance[i].step # "unasked",
           NEW m \in {"shared", "simulate"},
           instance' = [instance EXCEPT ![i].step = "made", ![i].mode = m]
    PROVE  /\ instance' \in [Creates -> InstanceRecords] /\ \A j \in Creates : Named(j)'
           /\ OnlyMoves(i) /\ instance'[i].engine = instance[i].engine
           /\ instance'[i].name = instance[i].name /\ instance'[i].step = "made"
           /\ instance'[i].mode = m
<1> DEFINE r == [instance[i] EXCEPT !.step = "made", !.mode = m]
<1>1. instance[i] \in InstanceRecords /\ Named(i)
  BY DEF RequestsKept
<1>2. r \in InstanceRecords /\ r.step = "made" /\ r.engine = instance[i].engine
      /\ r.name = instance[i].name /\ r.mode = m
  BY <1>1 DEF InstanceRecords
<1>3. instance' = [instance EXCEPT ![i] = r]
  BY DEF RequestsKept
<1> HIDE DEF r
<1>4. Becomes(i, r)
  BY <1>1, <1>2, <1>3 DEF Becomes, Named
<1>5. instance' \in [Creates -> InstanceRecords] /\ (\A j \in Creates : Named(j)')
      /\ OnlyMoves(i) /\ instance'[i] = r
  BY <1>4, BecomesKeeps
<1> QED
  BY <1>2, <1>5

\* Nobody deletes an instance that is not there yet.
LEMMA DeletersKept ==
    ASSUME RequestsKept, NEW i \in Creates, instance[i].step \notin {"ready", "deleted"},
           OnlyMoves(i), UNCHANGED deleter
    PROVE  \A d \in Deleters : DeleterFits(d)'
<1> SUFFICES ASSUME NEW d \in Deleters
             PROVE  DeleterFits(d)'
  OBVIOUS
<1>1. DeleterFits(d)
  BY DEF RequestsKept
<1>2. deleter[d].step \in {"free", "read", "drop"}
  BY DEF RequestsKept
<1>3. CASE deleter[d].step = "free"
  BY <1>3 DEF DeleterFits
<1>4. CASE deleter[d].step \in {"read", "drop"}
  <2>1. deleter[d].id \in Creates \ {i}
    BY <1>1, <1>4 DEF DeleterFits
  <2>2. instance'[deleter[d].id] = instance[deleter[d].id]
    BY <2>1 DEF OnlyMoves
  <2> QED
    BY <1>1, <1>4, <2>1, <2>2 DEF DeleterFits
<1> QED
  BY <1>2, <1>3, <1>4

\* Instances that stay as they are are calm.
LEMMA SameIsCalm ==
    ASSUME NEW j, instance'[j] = instance[j]
    PROVE  Calm(j)
<1>1. (UsesResource(j)' <=> UsesResource(j)) /\ SameResource(j)
  BY DEF UsesResource, HasResource, SameResource
<1> QED
  BY <1>1 DEF Calm, Begun

-----------------------------------------------------------------------------
(* Provisioning: one step per action                                       *)

LEMMA AskStep ==
    ASSUME ProvisioningInv, NEW i \in Creates, NEW e \in Engines, NEW n \in DbNames,
           AskInstance(i, e, n)
    PROVE  ProvisioningInv'
<1> DEFINE r == [step |-> "asked", engine |-> e, name |-> n, mode |-> "none"]
<1>1. RequestsKept /\ instance[i].step = "unasked"
  BY InvMakesParts DEF AskInstance, Unasked
<1>2. r \in InstanceRecords /\ r.step = "asked" /\ r.engine = e /\ r.name = n
  BY DEF InstanceRecords
<1>3. instance' = [instance EXCEPT ![i] = r]
  BY DEF AskInstance
<1> HIDE DEF r
<1>4. Becomes(i, r)
  BY <1>2, <1>3 DEF Becomes
<1>5. /\ instance' \in [Creates -> InstanceRecords] /\ \A j \in Creates : Named(j)'
      /\ OnlyMoves(i) /\ instance'[i] = r
  BY <1>1, <1>4, BecomesKeeps
<1>6. \A d \in Deleters : DeleterFits(d)'
  BY <1>1, <1>5, DeletersKept DEF AskInstance
<1>7. RequestsKept'
  BY <1>1, <1>5, <1>6 DEF RequestsKept, AskInstance
<1>8. Calm(i)
  BY <1>1, <1>2, <1>5 DEF Calm, Begun, UsesResource
<1>9. \A j \in Creates : Calm(j)
  BY <1>5, <1>8, SameIsCalm DEF OnlyMoves
<1>10. ResourcesKept'
  BY <1>9, CalmKeeps DEF AskInstance
<1> QED
  BY <1>7, <1>10, InvMakesParts, PartsMakeInv DEF AskInstance

\* Something is made on a server: what password' is, in one line.
LEMMA SharedEffect ==
    ASSUME NEW i, NEW r, CreateShared(i, r)
    PROVE  \E x \in {i, password[r]} : /\ password' = [password EXCEPT ![r] = x]
                                       /\ password[r] = 0 => x = i
  BY DEF CreateShared, SharedPostgres, SharedMySQL, SharedRabbit

LEMMA MakeSharedStep ==
    ASSUME ProvisioningInv, NEW i \in Creates, MakeShared(i)
    PROVE  ProvisioningInv'
<1>1. RequestsKept /\ instance[i].step = "asked" /\ HasResource(i) /\ Meets(i)
      /\ UNCHANGED <<url, deleter, catalog, abandoned>>
  BY InvMakesParts DEF MakeShared
<1>2. /\ instance' \in [Creates -> InstanceRecords] /\ \A j \in Creates : Named(j)'
      /\ OnlyMoves(i) /\ instance'[i].engine = instance[i].engine
      /\ instance'[i].name = instance[i].name /\ instance'[i].step = "made"
  BY <1>1, MadeMoves DEF MakeShared
<1>3. RequestsKept'
  BY <1>1, <1>2, DeletersKept DEF RequestsKept
<1>4. PICK x \in {i, password[ResourceOf(i)]} :
          /\ password' = [password EXCEPT ![ResourceOf(i)] = x]
          /\ password[ResourceOf(i)] = 0 => x = i
  BY SharedEffect DEF MakeShared
<1>5. ResourcesKept' /\ alone' \subseteq Creates
  BY <1>1, <1>2, <1>4, MakeKeeps
<1>6. ResourceOf(i) \in Resources /\ password \in [Resources -> {0} \cup Creates]
  BY <1>1, ResourceTyped, InvMakesParts
<1>7. password' \in [Resources -> {0} \cup Creates]
  BY <1>4, <1>6
<1> QED
  BY <1>1, <1>3, <1>5, <1>7, InvMakesParts, PartsMakeInv

LEMMA MakeSimulatedStep ==
    ASSUME ProvisioningInv, NEW i \in Creates, MakeSimulated(i)
    PROVE  ProvisioningInv'
<1>1. RequestsKept /\ instance[i].step = "asked" /\ UNCHANGED <<url, deleter, catalog, abandoned>>
  BY InvMakesParts DEF MakeSimulated
<1>2. /\ instance' \in [Creates -> InstanceRecords] /\ \A j \in Creates : Named(j)'
      /\ OnlyMoves(i) /\ instance'[i].engine = instance[i].engine
      /\ instance'[i].name = instance[i].name /\ instance'[i].step = "made"
      /\ instance'[i].mode = "simulate"
  BY <1>1, MadeMoves DEF MakeSimulated
<1>3. RequestsKept'
  BY <1>1, <1>2, DeletersKept DEF RequestsKept
<1>4. ResourceOf(i) \in Resources /\ password \in [Resources -> {0} \cup Creates]
  BY <1>1, ResourceTyped, InvMakesParts
<1>5. CASE HasResource(i) /\ Meets(i) /\ (UNCHANGED password
                                          \/ password' = [password EXCEPT ![ResourceOf(i)] = i])
  <2>1. PICK x \in {i, password[ResourceOf(i)]} :
            password' = [password EXCEPT ![ResourceOf(i)] = x]
    <3>1. password = [password EXCEPT ![ResourceOf(i)] = password[ResourceOf(i)]]
      BY <1>4
    <3> QED
      BY <1>5, <3>1
  <2>2. ResourcesKept' /\ alone' \subseteq Creates
    BY <1>1, <1>2, <1>5, <2>1, MakeKeeps
  <2>3. password' \in [Resources -> {0} \cup Creates]
    BY <1>4, <2>1
  <2> QED
    BY <1>1, <1>3, <2>2, <2>3, InvMakesParts, PartsMakeInv
<1>6. CASE ~HasResource(i) /\ UNCHANGED <<password, alone>>
  <2>1. ~HasResource(i)'
    BY <1>2, <1>6 DEF HasResource
  <2>2. Calm(i)
    BY <1>1, <1>6, <2>1 DEF Calm, Begun, UsesResource
  <2>3. ResourcesKept'
    BY <1>1, <1>2, <1>6, <2>2, CalmKeeps, SameIsCalm DEF OnlyMoves
  <2> QED
    BY <1>1, <1>3, <1>6, <2>3, InvMakesParts, PartsMakeInv
<1> QED
  BY <1>5, <1>6 DEF MakeSimulated, CreateSimulate

LEMMA MakeUncommittedStep ==
    ASSUME ProvisioningInv, NEW i \in Creates, MakeUncommitted(i)
    PROVE  ProvisioningInv'
<1>1. /\ RequestsKept /\ instance[i].step = "asked" /\ HasResource(i) /\ Meets(i)
      /\ instance[i].engine = "database" /\ UNCHANGED <<url, deleter, catalog>>
  BY InvMakesParts DEF MakeUncommitted, HasResource
<1>2. /\ instance' \in [Creates -> InstanceRecords] /\ \A j \in Creates : Named(j)'
      /\ OnlyMoves(i) /\ SameResource(i) /\ instance'[i].step = "over"
  BY <1>1, GoesMoves DEF MakeUncommitted
<1>3. RequestsKept'
  BY <1>1, <1>2, DeletersKept DEF RequestsKept
<1>4. ResourceOf(i) \in Resources /\ password \in [Resources -> {0} \cup Creates]
      /\ abandoned \subseteq Resources
  BY <1>1, ResourceTyped, InvMakesParts
<1>5. PICK x \in {i, password[ResourceOf(i)]} :
          /\ password' = [password EXCEPT ![ResourceOf(i)] = x]
          /\ \/ UNCHANGED <<password, abandoned>>
             \/ /\ password[ResourceOf(i)] = 0 => x = i
                /\ abandoned' = abandoned \cup {ResourceOf(i)}
  <2>1. password = [password EXCEPT ![ResourceOf(i)] = password[ResourceOf(i)]]
    BY <1>4
  <2>2. CASE UNCHANGED <<password, abandoned>>
    <3>1. password' = [password EXCEPT ![ResourceOf(i)] = password[ResourceOf(i)]]
      BY <2>1, <2>2, Zenon
    <3> QED
      BY <2>2, <3>1, Zenon
  <2>3. CASE SharedPostgres(i, ResourceOf(i)) /\ abandoned' = abandoned \cup {ResourceOf(i)}
    BY <2>3 DEF SharedPostgres
  <2> QED
    BY <2>2, <2>3 DEF MakeUncommitted
<1>6. password' \in [Resources -> {0} \cup Creates] /\ abandoned' \subseteq Resources
      /\ abandoned \subseteq abandoned'
  BY <1>4, <1>5
<1>7. ResourcesKept' /\ alone' \subseteq Creates
  BY <1>1, <1>2, <1>5, <1>6, MakeKeeps DEF SameResource
<1> QED
  BY <1>1, <1>3, <1>6, <1>7, InvMakesParts, PartsMakeInv

LEMMA StoreSecretStep ==
    ASSUME ProvisioningInv, NEW i \in Creates, StoreSecret(i)
    PROVE  ProvisioningInv'
<1>1. RequestsKept /\ instance[i].step = "made" /\ UNCHANGED <<password, deleter, catalog, alone, abandoned>>
  BY InvMakesParts DEF StoreSecret
<1>2. /\ instance' \in [Creates -> InstanceRecords] /\ \A j \in Creates : Named(j)'
      /\ OnlyMoves(i) /\ SameResource(i) /\ instance'[i].step = "stored"
  BY <1>1, GoesMoves DEF StoreSecret
<1>3. RequestsKept'
  BY <1>1, <1>2, DeletersKept DEF RequestsKept
<1>4. Calm(i)
  BY <1>1, <1>2 DEF Calm, InService, UsesResource, HasResource, SameResource
<1>5. ResourcesKept'
  BY <1>1, <1>2, <1>4, CalmKeeps, SameIsCalm DEF OnlyMoves
<1>6. url' \in [SecretKeys -> {0} \cup Creates]
  BY InvMakesParts DEF StoreSecret
<1> QED
  BY <1>1, <1>3, <1>5, <1>6, InvMakesParts, PartsMakeInv

LEMMA InsertStep ==
    ASSUME ProvisioningInv, NEW i \in Creates, InsertInstance(i)
    PROVE  ProvisioningInv'
<1>1. RequestsKept /\ instance[i].step = "stored" /\ UNCHANGED <<password, url, deleter, catalog, alone>>
  BY InvMakesParts DEF InsertInstance
<1>2. PICK s \in {"conflict", "ready", "over"} :
          /\ Goes(i, s)
          /\ abandoned' = IF s = "over" /\ HasResource(i) THEN abandoned \cup {ResourceOf(i)}
                                                          ELSE abandoned
  BY DEF InsertInstance
<1>3. /\ instance' \in [Creates -> InstanceRecords] /\ \A j \in Creates : Named(j)'
      /\ OnlyMoves(i) /\ SameResource(i) /\ instance'[i].step = s
  BY <1>1, <1>2, GoesMoves
<1>4. RequestsKept'
  BY <1>1, <1>3, DeletersKept DEF RequestsKept
<1>5. abandoned \subseteq abandoned' /\ abandoned' \subseteq Resources
  BY <1>1, <1>2, ResourceTyped, InvMakesParts
<1>6. Calm(i)
  BY <1>1, <1>2, <1>3 DEF Calm, InService, UsesResource, HasResource, SameResource
<1>7. ResourcesKept'
  BY <1>1, <1>3, <1>5, <1>6, CalmKeeps, SameIsCalm DEF OnlyMoves
<1> QED
  BY <1>1, <1>4, <1>5, <1>7, InvMakesParts, PartsMakeInv

LEMMA RefuseStep ==
    ASSUME ProvisioningInv, NEW i \in Creates, RefuseConflict(i)
    PROVE  ProvisioningInv'
<1>1. RequestsKept /\ instance[i].step = "conflict" /\ Drop(i)
      /\ UNCHANGED <<url, deleter, catalog, alone>>
  BY InvMakesParts DEF RefuseConflict
<1>2. /\ instance' \in [Creates -> InstanceRecords] /\ \A j \in Creates : Named(j)'
      /\ OnlyMoves(i) /\ SameResource(i) /\ instance'[i].step = "over"
  BY <1>1, GoesMoves DEF RefuseConflict
<1>3. RequestsKept'
  BY <1>1, <1>2, DeletersKept DEF RequestsKept
<1>4. ResourcesKept' /\ abandoned' \subseteq Resources
      /\ password' \in [Resources -> {0} \cup Creates]
  BY <1>1, <1>2, DropKeeps
<1> QED
  BY <1>1, <1>3, <1>4, InvMakesParts, PartsMakeInv

LEMMA AskDeleteStep ==
    ASSUME ProvisioningInv, NEW i \in Creates, NEW d \in Deleters, AskDelete(d, i)
    PROVE  ProvisioningInv'
<1>1. RequestsKept /\ instance[i].step = "ready"
      /\ UNCHANGED <<instance, password, url, catalog, alone, abandoned>>
  BY InvMakesParts DEF AskDelete
<1>2. deleter' = [deleter EXCEPT ![d] = [step |-> "read", id |-> i]]
  BY DEF AskDelete
<1>3. RequestsKept'
  BY <1>1, <1>2 DEF RequestsKept, DeleterFits, Named
<1>4. ResourcesKept'
  BY <1>1, CalmKeeps, SameIsCalm
<1> QED
  BY <1>1, <1>3, <1>4, InvMakesParts, PartsMakeInv

LEMMA DeleteRowStep ==
    ASSUME ProvisioningInv, NEW d \in Deleters, DeleteRow(d)
    PROVE  ProvisioningInv'
<1> DEFINE i == deleter[d].id
<1>1. RequestsKept /\ i \in Creates /\ instance[i].step \in {"ready", "deleted"}
      /\ UNCHANGED <<password, url, catalog, alone, abandoned>>
  BY InvMakesParts DEF DeleteRow, RequestsKept, DeleterFits
<1>2. /\ instance' \in [Creates -> InstanceRecords] /\ \A j \in Creates : Named(j)'
      /\ OnlyMoves(i) /\ SameResource(i) /\ instance'[i].step = "deleted"
  BY <1>1, GoesMoves DEF DeleteRow
<1>3. /\ deleter' = [deleter EXCEPT ![d].step = "drop"]
      /\ deleter \in [Deleters -> [step : {"free", "read", "drop"}, id : {0} \cup Creates]]
  BY <1>1 DEF DeleteRow, RequestsKept
<1>4. /\ deleter' \in [Deleters -> [step : {"free", "read", "drop"}, id : {0} \cup Creates]]
      /\ deleter'[d].step = "drop" /\ deleter'[d].id = i
      /\ \A x \in Deleters : x # d => deleter'[x] = deleter[x]
  BY <1>3
<1>5. ASSUME NEW x \in Deleters
      PROVE  DeleterFits(x)'
  <2> HIDE DEF i
  <2>1. CASE x = d
    BY <1>1, <1>2, <1>4, <2>1 DEF DeleterFits
  <2>2. CASE x # d
    <3>1. deleter'[x] = deleter[x] /\ DeleterFits(x)
      BY <1>1, <1>4, <2>2 DEF RequestsKept
    <3>2. deleter[x].id # i /\ deleter[x].id \in Creates => instance'[deleter[x].id] = instance[deleter[x].id]
      BY <1>2 DEF OnlyMoves
    <3> QED
      BY <1>2, <3>1, <3>2 DEF DeleterFits
  <2> QED
    BY <2>1, <2>2
<1>6. RequestsKept'
  BY <1>2, <1>4, <1>5 DEF RequestsKept
<1> HIDE DEF i
<1>7. ASSUME NEW j \in Creates
      PROVE  Calm(j)
  <2>1. CASE j # i
    BY <1>2, <2>1, SameIsCalm DEF OnlyMoves
  <2>2. CASE j = i
    <3>1. UsesResource(j)' <=> HasResource(j)'
      BY <1>2, <2>2 DEF UsesResource
    <3>2. UsesResource(j) <=> HasResource(j)
      BY <1>1, <2>2 DEF UsesResource
    <3>3. SameResource(j)
      BY <1>2, <2>2 DEF SameResource
    <3>4. HasResource(j)' <=> HasResource(j)
      BY <3>3 DEF HasResource, SameResource
    <3> QED
      BY <1>2, <2>2, <3>1, <3>2, <3>3, <3>4 DEF Calm, InService
  <2> QED
    BY <2>1, <2>2
<1>8. ResourcesKept'
  BY <1>1, <1>7, CalmKeeps
<1> QED
  BY <1>1, <1>6, <1>8, InvMakesParts, PartsMakeInv

LEMMA DropInstanceStep ==
    ASSUME ProvisioningInv, NEW d \in Deleters, DropInstance(d)
    PROVE  ProvisioningInv'
<1> DEFINE i == deleter[d].id
           last == \A x \in Deleters \ {d} : deleter[x].id # i
<1>1. RequestsKept /\ i \in Creates /\ instance[i].step = "deleted" /\ Drop(i)
      /\ UNCHANGED <<url, catalog, alone>>
  BY InvMakesParts DEF DropInstance, RequestsKept, DeleterFits
<1>2. \/ last /\ Goes(i, "over")
      \/ ~last /\ instance' = instance
  BY DEF DropInstance
<1>3. /\ instance' \in [Creates -> InstanceRecords] /\ \A j \in Creates : Named(j)'
      /\ OnlyMoves(i) /\ SameResource(i)
      /\ \/ last /\ instance'[i].step = "over"
         \/ instance' = instance
  <2>1. CASE last /\ Goes(i, "over")
    BY <1>1, <2>1, GoesMoves
  <2>2. CASE instance' = instance
    BY <1>1, <2>2 DEF RequestsKept, Named, OnlyMoves, SameResource
  <2> QED
    BY <1>2, <2>1, <2>2
<1>4. /\ deleter' = [deleter EXCEPT ![d] = Free]
      /\ deleter \in [Deleters -> [step : {"free", "read", "drop"}, id : {0} \cup Creates]]
  BY <1>1 DEF DropInstance, RequestsKept
<1>5. /\ deleter' \in [Deleters -> [step : {"free", "read", "drop"}, id : {0} \cup Creates]]
      /\ deleter'[d].step = "free"
      /\ \A x \in Deleters : x # d => deleter'[x] = deleter[x]
  BY <1>4 DEF Free
<1>6. ASSUME NEW x \in Deleters
      PROVE  DeleterFits(x)'
  <2> HIDE DEF i
  <2>1. CASE x = d
    BY <1>5, <2>1 DEF DeleterFits
  <2>2. CASE x # d
    <3>1. deleter'[x] = deleter[x] /\ DeleterFits(x)
      BY <1>1, <1>5, <2>2 DEF RequestsKept
    <3>2. instance' = instance \/ deleter[x].id # i
      BY <1>3, <2>2
    <3>3. deleter[x].id \in Creates => instance'[deleter[x].id] = instance[deleter[x].id]
      BY <1>3, <3>2 DEF OnlyMoves
    <3> QED
      BY <3>1, <3>3 DEF DeleterFits
  <2> QED
    BY <2>1, <2>2
<1>7. RequestsKept'
  BY <1>3, <1>5, <1>6 DEF RequestsKept
<1> HIDE DEF i, last
<1>8. ResourcesKept' /\ abandoned' \subseteq Resources
      /\ password' \in [Resources -> {0} \cup Creates]
  BY <1>1, <1>3, DropKeeps
<1> QED
  BY <1>1, <1>7, <1>8, InvMakesParts, PartsMakeInv

LEMMA ProvisioningCrashStep ==
    ASSUME ProvisioningInv, CrashProvisioning
    PROVE  ProvisioningInv'
<1> DEFINE lost == {i \in Creates : instance[i].step \in {"asked", "made", "stored", "conflict"}}
           held == {i \in lost : UsesResource(i)}
                       \cup {i \in Creates : instance[i].step = "deleted" /\ HasResource(i)}
           ends == {i \in Creates : instance[i].step \in {"asked", "made", "stored", "conflict", "deleted"}}
<1>1. /\ instance' = [i \in Creates |-> IF i \in ends THEN [instance[i] EXCEPT !.step = "over"]
                                                      ELSE instance[i]]
      /\ deleter' = [d \in Deleters |-> Free] /\ catalog' = {}
      /\ abandoned' = abandoned \cup {ResourceOf(i) : i \in held}
      /\ UNCHANGED <<password, url, alone>>
  BY DEF CrashProvisioning
<1>2. RequestsKept /\ abandoned \subseteq Resources
  BY InvMakesParts
<1>3. ASSUME NEW i \in Creates
      PROVE  /\ instance'[i] \in InstanceRecords /\ Named(i)' /\ SameResource(i)
             /\ instance'[i].step = IF i \in ends THEN "over" ELSE instance[i].step
  <2>1. instance[i] \in InstanceRecords /\ Named(i)
    BY <1>2 DEF RequestsKept
  <2>2. CASE i \in ends
    <3>1. instance'[i] = [instance[i] EXCEPT !.step = "over"]
      BY <1>1, <2>2
    <3>2. instance[i].step # "unasked"
      BY <2>2
    <3> QED
      BY <2>1, <2>2, <3>1, <3>2 DEF InstanceRecords, Named, SameResource
  <2>3. CASE i \notin ends
    <3>1. instance'[i] = instance[i]
      BY <1>1, <2>3
    <3> QED
      BY <2>1, <2>3, <3>1 DEF Named, SameResource
  <2> QED
    BY <2>2, <2>3
<1>4. instance' \in [Creates -> InstanceRecords]
  <2> HIDE DEF ends
  <2> QED
    BY <1>1, <1>3
<1>5. /\ deleter' \in [Deleters -> [step : {"free", "read", "drop"}, id : {0} \cup Creates]]
      /\ \A d \in Deleters : DeleterFits(d)'
  BY <1>1 DEF Free, DeleterFits
<1>6. RequestsKept'
  BY <1>3, <1>4, <1>5 DEF RequestsKept
<1>7. ASSUME NEW i \in Creates
      PROVE  Calm(i)
  <2>1. (HasResource(i)' <=> HasResource(i)) /\ SameResource(i)
    BY <1>3 DEF HasResource, SameResource
  <2>2. CASE i \in ends
    <3>1. instance'[i].step = "over"
      BY <1>3, <2>2
    <3>2. UsesResource(i) => i \in held
      BY <2>2 DEF UsesResource
    <3>3. UsesResource(i) => ResourceOf(i) \in abandoned'
      BY <1>1, <3>2
    <3>4. ~UsesResource(i)'
      BY <3>1 DEF UsesResource
    <3> QED
      BY <2>1, <3>1, <3>3, <3>4 DEF Calm, InService
  <2>3. CASE i \notin ends
    <3>1. instance'[i] = instance[i]
      BY <1>1, <2>3
    <3> QED
      BY <3>1, SameIsCalm
  <2> QED
    BY <2>2, <2>3
<1>8. ResourcesKept'
  BY <1>1, <1>7, CalmKeeps
<1>9. abandoned' \subseteq Resources
  <2>1. \A i \in held : i \in Creates /\ instance[i].step # "unasked"
    OBVIOUS
  <2>2. \A i \in held : ResourceOf(i) \in Resources
    BY <2>1, ResourceTyped
  <2> QED
    BY <1>1, <1>2, <2>2
<1> QED
  BY <1>1, <1>6, <1>8, <1>9, InvMakesParts, PartsMakeInv

-----------------------------------------------------------------------------
(* Provisioning: what follows                                              *)

LEMMA ProvisioningInitInv == ProvisioningInit => ProvisioningInv
<1> SUFFICES ASSUME ProvisioningInit
             PROVE  ProvisioningInv
  OBVIOUS
<1>1. RequestsKept
  BY DEF ProvisioningInit, RequestsKept, InstanceRecords, Unasked, Named, Free, DeleterFits
<1>2. ResourcesKept
  BY DEF ProvisioningInit, ResourcesKept, NothingLeftBehind
<1> QED
  BY <1>1, <1>2, InvIsParts DEF ProvisioningInit, RestTyped

LEMMA ProvisioningStep == ProvisioningInv /\ [ProvisioningNext]_provisionVars => ProvisioningInv'
<1> SUFFICES ASSUME ProvisioningInv, [ProvisioningNext]_provisionVars
             PROVE  ProvisioningInv'
  OBVIOUS
<1>1. CASE UNCHANGED provisionVars
  <2>1. UNCHANGED <<instance, password, url, deleter, catalog, alone, abandoned>>
    BY <1>1 DEF provisionVars
  <2>2. RequestsKept'
    BY <2>1, InvMakesParts DEF RequestsKept, Named, DeleterFits
  <2>3. ResourcesKept'
    BY <2>1, CalmKeeps, SameIsCalm
  <2> QED
    BY <2>1, <2>2, <2>3, InvMakesParts, PartsMakeInv
<1> QED
  BY <1>1, AskStep, MakeSharedStep, MakeSimulatedStep, MakeUncommittedStep, StoreSecretStep,
     InsertStep, RefuseStep, AskDeleteStep, DeleteRowStep, DropInstanceStep,
     ProvisioningCrashStep DEF ProvisioningNext

LEMMA ProvisioningInvHolds == ProvisioningSpec => []ProvisioningInv
<1>1. ProvisioningInv /\ [ProvisioningNext]_provisionVars => ProvisioningInv'
  BY ProvisioningStep
<1> QED
  BY <1>1, ProvisioningInitInv, PTL DEF ProvisioningSpec

\* Instances, passwords, secrets and requests keep their types.
THEOREM ProvisioningTypes == ProvisioningSpec => []ProvisioningTypeOK
<1>1. ProvisioningInv => ProvisioningTypeOK
  BY DEF ProvisioningInv
<1> QED
  BY <1>1, ProvisioningInvHolds, PTL

\* A ready instance that nobody else has ever met on its server opens with the
\* password of its URL, whatever failed on the way and whatever others do.
THEOREM UncontestedInstancesWork == ProvisioningSpec => []UncontestedWorks
<1>1. ProvisioningInv => UncontestedWorks
  BY DEF ProvisioningInv, UncontestedWorks, KeptAlone
<1> QED
  BY <1>1, ProvisioningInvHolds, PTL

\* Whatever exists on a server is used by a row or by a request at work, or is
\* one of those whose row, commit or drop has failed.
THEOREM ResourcesAccountedFor == ProvisioningSpec => []NothingLeftBehind
<1>1. ProvisioningInv => NothingLeftBehind
  BY DEF ProvisioningInv
<1> QED
  BY <1>1, ProvisioningInvHolds, PTL

-----------------------------------------------------------------------------
(* Domains: rows                                                           *)

\* A set of naturals that is not empty has a least element: the sets of the
\* numbers below its elements are finite, and inclusion is well-founded there.
LEMMA LeastNumber ==
    ASSUME NEW S \in SUBSET Nat, S # {}
    PROVE  \E x \in S : \A y \in S : x <= y
<1> DEFINE Below(n) == {m \in Nat : m < n}
           T == {Below(n) : n \in S}
           F == FiniteSubsetsOf(Nat)
<1>1. \A n \in Nat : Below(n) \in F
  <2> SUFFICES ASSUME NEW n \in Nat PROVE IsFiniteSet(Below(n))
    BY DEF FiniteSubsetsOf
  <2>1. Below(n) \in SUBSET Nat /\ \A m \in Below(n) : m <= n
    OBVIOUS
  <2> QED
    BY <2>1, FS_BoundedSetOfNaturals
<1>2. T \subseteq F /\ T # {}
  BY <1>1
<1>3. PICK b \in T : \A a \in T : <<a, b>> \notin StrictSubsetOrdering(Nat)
  BY <1>2, FS_StrictSubsetOrderingWellFounded, WFMin
<1>4. PICK x \in S : b = Below(x)
  BY <1>3
<1>5. ASSUME NEW y \in S PROVE x <= y
  <2> SUFFICES ASSUME y < x PROVE FALSE
    OBVIOUS
  <2>1. Below(y) \subseteq Below(x) /\ y \in Below(x) /\ y \notin Below(y)
    OBVIOUS
  <2>2. <<Below(y), b>> \in StrictSubsetOrdering(Nat)
    BY <1>4, <2>1 DEF StrictSubsetOrdering
  <2> QED
    BY <1>3, <2>2
<1> QED
  BY <1>5

LEMMA LowestIsIn ==
    ASSUME NEW S \in SUBSET Nat, S # {}
    PROVE  Lowest(S) \in S
<1>1. \E x \in S : \A y \in S : x <= y
  BY LeastNumber
<1> QED
  BY <1>1 DEF Lowest

LEMMA NewAreFree ==
    /\ NewDomain # {} => Lowest(NewDomain) \in DomainIds /\ domain[Lowest(NewDomain)].status = "absent"
    /\ NewCert # {} => Lowest(NewCert) \in CertIds /\ cert[Lowest(NewCert)].status = "absent"
<1>1. DomainIds \subseteq Nat /\ CertIds \subseteq Nat /\ 0 \notin DomainIds
  BY DomainsAssumption DEF DomainsAssumption, DomainIds, CertIds
<1>2. NewDomain \in SUBSET Nat /\ NewCert \in SUBSET Nat
  BY <1>1 DEF NewDomain, NewCert
<1>3. NewDomain # {} => Lowest(NewDomain) \in NewDomain
  BY <1>2, LowestIsIn
<1>4. NewCert # {} => Lowest(NewCert) \in NewCert
  BY <1>2, LowestIsIn
<1> QED
  BY <1>3, <1>4 DEF NewDomain, NewCert

\* Row d was there before if it is now, of the same hostname, and it is not
\* forgotten.
Follows(d) ==
    /\ domain[d].status # "absent" => domain'[d].status # "absent"
    /\ There(d)' => There(d) /\ domain'[d].host = domain[d].host

LEMMA KnowsKept ==
    ASSUME NEW r, CallerKnows(r), \A d \in DomainIds : domain[d].status # "absent" => Follows(d)
    PROVE  CallerKnows(r)'
<1>1. CASE r.step \in {"route", "certify", "issue", "update", "remove", "serve"}
  <2>1. r.id \in DomainIds /\ domain[r.id].status # "absent" /\ Follows(r.id)
    BY <1>1 DEF CallerKnows
  <2> QED
    BY <2>1 DEF CallerKnows, Follows
<1>2. CASE r.step \notin {"route", "certify", "issue", "update", "remove", "serve"}
  BY <1>2 DEF CallerKnows
<1> QED
  BY <1>1, <1>2

LEMMA RowsKept ==
    ASSUME OneRowPerHost, \A d \in DomainIds : Follows(d)
    PROVE  OneRowPerHost'
<1>1. \A d \in DomainIds : There(d)' => There(d) /\ domain'[d].host = domain[d].host
  BY DEF Follows
<1> QED
  BY <1>1 DEF OneRowPerHost

\* A new row, of a hostname that has none.
LEMMA RowAdded ==
    ASSUME OneRowPerHost, NEW e \in DomainIds, NEW h \in Hosts, FindByHostname(h) = {},
           \A d \in DomainIds \ {e} : Follows(d), domain'[e].host = h
    PROVE  OneRowPerHost'
<1>1. \A d \in DomainIds \ {e} : There(d)' => There(d) /\ domain'[d].host = domain[d].host
  BY DEF Follows
<1>2. \A d \in DomainIds : There(d) => domain[d].host # h
  BY DEF FindByHostname
<1> QED
  BY <1>1, <1>2 DEF OneRowPerHost

-----------------------------------------------------------------------------
(* Domains: the parts of the invariant                                     *)

TablesTyped ==
    /\ domain \in [DomainIds -> DomainRows]
    /\ routed \subseteq {Sanitize[h] : h \in Hosts} \X {"host", "root"}
    /\ tangled \subseteq Hosts

CertsKept ==
    /\ cert \in [CertIds -> [status : {"absent", "pending", "issued", "renewing"},
                             ends : {"never", "soon", "later"}]]
    /\ renewed \subseteq CertIds
    /\ RenewedExist /\ RenewalIsKept

CallersKept ==
    /\ caller \in [Callers -> CallerRecords]
    /\ \A c \in Callers : CallerKnows(caller[c])

LEMMA DomainParts == DomainsInv <=> TablesTyped /\ CertsKept /\ CallersKept /\ OneRowPerHost
<1>1. DomainsInv => TablesTyped /\ CertsKept /\ CallersKept /\ OneRowPerHost
  BY DEF DomainsInv, DomainsTypeOK, TablesTyped, CertsKept, CallersKept
<1>2. ASSUME CallersKept, NEW c \in Callers
      PROVE  /\ caller[c].step \in {"silent", "route", "certify", "issue", "update", "remove",
                                    "take", "insert", "serve", "renew", "renewed"}
             /\ caller[c].copy \in DomainRows
             /\ caller[c].certs \subseteq CertIds
             /\ caller[c].ends \in {"never", "soon", "later"}
  BY <1>2 DEF CallersKept, CallerRecords
<1>3. TablesTyped /\ CertsKept /\ CallersKept /\ OneRowPerHost => DomainsInv
  BY <1>2 DEF DomainsInv, DomainsTypeOK, TablesTyped, CertsKept, CallersKept
<1> QED
  BY <1>1, <1>3

\* One caller goes on.
OnlyCaller(c) == \A x \in Callers \ {c} : caller'[x] = caller[x]

\* Caller c becomes r, and everybody else is as before.
CallerBecomes(c, r) == caller' = [caller EXCEPT ![c] = r]

LEMMA CallerStep ==
    ASSUME CallersKept, NEW c \in Callers, NEW r \in CallerRecords, CallerBecomes(c, r),
           CallerKnows(r)', \A d \in DomainIds : domain[d].status # "absent" => Follows(d)
    PROVE  CallersKept' /\ OnlyCaller(c) /\ caller'[c] = r
<1>1. caller' \in [Callers -> CallerRecords] /\ OnlyCaller(c) /\ caller'[c] = r
  BY DEF CallersKept, CallerBecomes, OnlyCaller
<1>2. ASSUME NEW x \in Callers
      PROVE  CallerKnows(caller[x])'
  <2>1. PICK q : q = caller'[x]
    OBVIOUS
  <2>2. CallerKnows(q)'
    <3>1. CASE x = c
      BY <1>1, <2>1, <3>1
    <3>2. CASE x # c
      <4>1. q = caller[x] /\ CallerKnows(caller[x])
        BY <1>1, <2>1, <3>2 DEF OnlyCaller, CallersKept
      <4> QED
        BY <4>1, KnowsKept
    <3> QED
      BY <3>1, <3>2
  <2> QED
    BY <2>1, <2>2 DEF CallerKnows
<1> QED
  BY <1>1, <1>2 DEF CallersKept

LEMMA SilentRecord ==
    /\ Silent \in CallerRecords /\ Silent.host = NoHost /\ Silent.step = "silent"
    /\ NoDomain \in DomainRows /\ NoDomain.status = "absent" /\ ~NoDomain.file
    /\ NoHost \notin Hosts
  BY DomainsAssumption DEF DomainsAssumption, Silent, CallerRecords, NoDomain, DomainRows

LEMMA SilentKnows == CallerKnows(Silent)
  BY DEF Silent, CallerKnows, NoHost

LEMMA DomainPartsNext ==
    ASSUME TablesTyped', CertsKept', CallersKept', OneRowPerHost'
    PROVE  DomainsInv'
<1>1. DomainsInv' <=> TablesTyped' /\ CertsKept' /\ CallersKept' /\ OneRowPerHost'
  BY DomainParts, PTL
<1> QED
  BY <1>1

LEMMA SameFollows == UNCHANGED domain => \A d \in DomainIds : Follows(d)
  BY DEF Follows, There

LEMMA SameKnows == ASSUME NEW r, CallerKnows(r), UNCHANGED domain PROVE CallerKnows(r)'
  BY DEF CallerKnows, There

\* A step of caller c that touches no row.
LEMMA MoveStep ==
    ASSUME DomainsInv, NEW c \in Callers, NEW r \in CallerRecords, CallerBecomes(c, r),
           CallerKnows(r), UNCHANGED domain, TablesTyped', CertsKept'
    PROVE  DomainsInv' /\ OnlyCaller(c) /\ caller'[c] = r
<1>1. \A d \in DomainIds : Follows(d)
  BY SameFollows
<1>2. CallersKept /\ OneRowPerHost
  BY DomainParts
<1>3. CallerKnows(r)'
  BY SameKnows
<1>4. CallersKept' /\ OnlyCaller(c) /\ caller'[c] = r
  BY <1>1, <1>2, <1>3, CallerStep
<1> QED
  BY <1>1, <1>2, <1>4, RowsKept, DomainPartsNext

\* What is true of the record of caller c.
LEMMA CallerTyped ==
    ASSUME DomainsInv, NEW c \in Callers
    PROVE  caller[c] \in CallerRecords /\ CallerKnows(caller[c])
  BY DEF DomainsInv

-----------------------------------------------------------------------------
(* Domains: one step per action                                            *)

LEMMA VerifyStep ==
    ASSUME DomainsInv, NEW c \in Callers, NEW d \in DomainIds, Verify(c, d)
    PROVE  /\ DomainsInv' /\ OnlyCaller(c)
           /\ caller'[c].step = "route" /\ caller'[c].host = domain[d].host
           /\ caller'[c].id = d /\ caller'[c].copy = domain[d]
<1>1. /\ There(d) /\ domain[d].host \in Hosts /\ domain[d] \in DomainRows
      /\ domain[d].status # "absent"
  BY DEF Verify, DomainsInv, DomainsTypeOK, OneRowPerHost, There
<1>2. PICK r \in CallerRecords :
          /\ CallerBecomes(c, r)
          /\ r.step = "route" /\ r.host = domain[d].host /\ r.id = d /\ r.copy = domain[d]
  <2> DEFINE s == [Silent EXCEPT !.step = "route", !.host = domain[d].host, !.id = d,
                                 !.copy = domain[d]]
  <2>1. CallerBecomes(c, s)
    BY DEF Verify, Begins, CallerBecomes
  <2>2. s \in CallerRecords
    BY <1>1, SilentRecord DEF CallerRecords
  <2>3. s.step = "route" /\ s.host = domain[d].host /\ s.id = d /\ s.copy = domain[d]
    BY SilentRecord DEF CallerRecords
  <2> HIDE DEF s
  <2> QED
    BY <2>1, <2>2, <2>3
<1>3. CallerKnows(r)
  BY <1>1, <1>2 DEF CallerKnows, There
<1>4. TablesTyped'
  BY <1>1 DEF Verify, Begins, Tangles, DomainsInv, DomainsTypeOK, TablesTyped
<1>5. CertsKept'
  BY DomainParts DEF Verify, CertsKept, RenewedExist, RenewalIsKept
<1> QED
  BY <1>2, <1>3, <1>4, <1>5, MoveStep DEF Verify

LEMMA WriteRouteStep ==
    ASSUME DomainsInv, NEW c \in Callers, WriteRoute(c)
    PROVE  /\ DomainsInv' /\ OnlyCaller(c)
           /\ caller'[c].step = "certify" /\ caller'[c].host = caller[c].host
           /\ caller'[c].id = caller[c].id
           /\ \/ routed' = routed \cup {VerifiedFile(caller[c].host)} /\ caller'[c].copy.file
              \/ routed' = routed /\ caller'[c].copy.file = caller[c].copy.file
<1>1. caller[c] \in CallerRecords /\ CallerKnows(caller[c]) /\ caller[c].step = "route"
      /\ caller \in [Callers -> CallerRecords] /\ caller[c].copy \in DomainRows
  BY CallerTyped DEF WriteRoute, DomainsInv, CallerRecords
<1>2. PICK r \in CallerRecords :
          /\ CallerBecomes(c, r)
          /\ r.step = "certify" /\ r.host = caller[c].host /\ r.id = caller[c].id
          /\ r.copy.host = caller[c].copy.host /\ r.copy.status = "verified"
          /\ \/ routed' = routed \cup {VerifiedFile(caller[c].host)} /\ r.copy.file
             \/ routed' = routed /\ r.copy.file = caller[c].copy.file
  <2>1. CASE /\ routed' = routed \cup {VerifiedFile(caller[c].host)}
             /\ caller' = [caller EXCEPT ![c].step = "certify", ![c].copy.file = TRUE,
                                         ![c].copy.status = "verified"]
    <3> DEFINE q == [caller[c].copy EXCEPT !.file = TRUE, !.status = "verified"]
               s == [caller[c] EXCEPT !.step = "certify", !.copy = q]
    <3>1. q \in DomainRows /\ q.file /\ q.status = "verified" /\ q.host = caller[c].copy.host
      BY <1>1 DEF DomainRows
    <3>2. CallerBecomes(c, s)
      BY <1>1, <2>1 DEF CallerBecomes, CallerRecords
    <3> HIDE DEF q
    <3>3. s \in CallerRecords /\ s.step = "certify" /\ s.host = caller[c].host
          /\ s.id = caller[c].id /\ s.copy = q
      BY <1>1, <3>1 DEF CallerRecords
    <3> HIDE DEF s
    <3> QED
      BY <2>1, <3>1, <3>2, <3>3
  <2>2. CASE /\ caller' = [caller EXCEPT ![c].step = "certify", ![c].copy.status = "verified"]
             /\ routed' = routed
    <3> DEFINE q == [caller[c].copy EXCEPT !.status = "verified"]
               s == [caller[c] EXCEPT !.step = "certify", !.copy = q]
    <3>1. q \in DomainRows /\ q.file = caller[c].copy.file /\ q.status = "verified"
          /\ q.host = caller[c].copy.host
      BY <1>1 DEF DomainRows
    <3>2. CallerBecomes(c, s)
      BY <1>1, <2>2 DEF CallerBecomes, CallerRecords
    <3> HIDE DEF q
    <3>3. s \in CallerRecords /\ s.step = "certify" /\ s.host = caller[c].host
          /\ s.id = caller[c].id /\ s.copy = q
      BY <1>1, <3>1 DEF CallerRecords
    <3> HIDE DEF s
    <3> QED
      BY <2>2, <3>1, <3>2, <3>3
  <2> QED
    BY <2>1, <2>2 DEF WriteRoute
<1>3. CallerKnows(r)
  BY <1>1, <1>2 DEF CallerKnows
<1>4. caller[c].host \in Hosts /\ UNCHANGED <<domain, cert, renewed, tangled>>
  BY <1>1 DEF CallerKnows, WriteRoute
<1>5. TablesTyped'
  BY <1>2, <1>4 DEF DomainsInv, DomainsTypeOK, TablesTyped, VerifiedFile
<1>6. CertsKept'
  BY <1>4, DomainParts DEF CertsKept, RenewedExist, RenewalIsKept
<1> QED
  BY <1>2, <1>3, <1>4, <1>5, <1>6, MoveStep

\* A request that only goes on keeps all but its step.
LEMMA ProceedsRecord ==
    ASSUME DomainsInv, NEW c \in Callers,
           NEW s \in {"update", "insert", "renewed"}, Proceeds(c, s)
    PROVE  \E r \in CallerRecords :
               /\ CallerBecomes(c, r) /\ r.step = s
               /\ r.host = caller[c].host /\ r.id = caller[c].id /\ r.copy = caller[c].copy
               /\ r.certs = caller[c].certs /\ r.ends = caller[c].ends
<1>1. caller[c] \in CallerRecords
  BY CallerTyped
<1> DEFINE r == [caller[c] EXCEPT !.step = s]
<1>2. CallerBecomes(c, r)
  BY DEF Proceeds, CallerBecomes
<1>3. /\ r \in CallerRecords /\ r.step = s
      /\ r.host = caller[c].host /\ r.id = caller[c].id /\ r.copy = caller[c].copy
      /\ r.certs = caller[c].certs /\ r.ends = caller[c].ends
  BY <1>1 DEF CallerRecords
<1> HIDE DEF r
<1> QED
  BY <1>2, <1>3

LEMMA RequestCertStep ==
    ASSUME DomainsInv, NEW c \in Callers, RequestCert(c)
    PROVE  /\ DomainsInv' /\ OnlyCaller(c)
           /\ caller'[c].step \in {"issue", "update"} /\ caller'[c].host = caller[c].host
           /\ caller'[c].id = caller[c].id /\ caller'[c].copy.file = caller[c].copy.file
<1>1. caller[c] \in CallerRecords /\ CallerKnows(caller[c]) /\ caller[c].step = "certify"
      /\ caller \in [Callers -> CallerRecords] /\ caller[c].copy \in DomainRows
  BY CallerTyped DEF RequestCert, DomainsInv, CallerRecords
<1>2. PICK r \in CallerRecords :
          /\ CallerBecomes(c, r)
          /\ r.step \in {"issue", "update"} /\ r.host = caller[c].host /\ r.id = caller[c].id
          /\ r.copy.host = caller[c].copy.host /\ r.copy.status \in {"active", caller[c].copy.status}
          /\ r.copy.file = caller[c].copy.file
  <2>1. CASE /\ NewCert # {}
             /\ caller' = [caller EXCEPT ![c].step = IF SimulateACME THEN "issue" ELSE "update",
                                         ![c].copy.cert = Lowest(NewCert),
                                         ![c].copy.status = "active"]
    <3> DEFINE q == [caller[c].copy EXCEPT !.cert = Lowest(NewCert), !.status = "active"]
               s == [caller[c] EXCEPT !.step = IF SimulateACME THEN "issue" ELSE "update", !.copy = q]
    <3>1. q \in DomainRows /\ q.file = caller[c].copy.file /\ q.status = "active"
          /\ q.host = caller[c].copy.host
      BY <1>1, <2>1, NewAreFree DEF DomainRows
    <3>2. CallerBecomes(c, s)
      BY <1>1, <2>1 DEF CallerBecomes, CallerRecords
    <3> HIDE DEF q
    <3>3. s \in CallerRecords /\ s.step \in {"issue", "update"} /\ s.host = caller[c].host
          /\ s.id = caller[c].id /\ s.copy = q
      BY <1>1, <3>1 DEF CallerRecords
    <3> HIDE DEF s
    <3> QED
      BY <3>1, <3>2, <3>3
  <2>2. CASE Proceeds(c, "update")
    BY <2>2, ProceedsRecord
  <2> QED
    BY <2>1, <2>2 DEF RequestCert
<1>3. CallerKnows(r)
  BY <1>1, <1>2 DEF CallerKnows
<1>4. UNCHANGED <<domain, routed, renewed, tangled>>
  BY DEF RequestCert
<1>5. TablesTyped'
  BY <1>4 DEF DomainsInv, DomainsTypeOK, TablesTyped
<1>6. CertsKept'
  <2>1. CertsKept
    BY DomainParts
  <2>2. CASE UNCHANGED cert
    BY <1>4, <2>1, <2>2 DEF CertsKept, RenewedExist, RenewalIsKept
  <2>3. CASE NewCert # {} /\ cert' = [cert EXCEPT ![Lowest(NewCert)] = [status |-> "pending", ends |-> "never"]]
    <3>1. Lowest(NewCert) \in CertIds /\ Lowest(NewCert) \notin renewed
      BY <2>1, <2>3, NewAreFree DEF CertsKept, RenewedExist
    <3> QED
      BY <1>4, <2>1, <2>3, <3>1 DEF CertsKept, RenewedExist, RenewalIsKept
  <2> QED
    BY <2>2, <2>3 DEF RequestCert
<1> QED
  BY <1>2, <1>3, <1>4, <1>5, <1>6, MoveStep

LEMMA IssueCertStep ==
    ASSUME DomainsInv, NEW c \in Callers, IssueCert(c)
    PROVE  /\ DomainsInv' /\ OnlyCaller(c)
           /\ caller'[c].step = "update" /\ caller'[c].host = caller[c].host
           /\ caller'[c].id = caller[c].id /\ caller'[c].copy.file = caller[c].copy.file
<1>1. CallerKnows(caller[c]) /\ caller[c].step = "issue"
  BY CallerTyped DEF IssueCert
<1>2. PICK r \in CallerRecords :
          /\ CallerBecomes(c, r) /\ r.step = "update"
          /\ r.host = caller[c].host /\ r.id = caller[c].id /\ r.copy = caller[c].copy
  BY ProceedsRecord DEF IssueCert
<1>3. CallerKnows(r)
  BY <1>1, <1>2 DEF CallerKnows
<1>4. UNCHANGED <<domain, routed, renewed, tangled>>
  BY DEF IssueCert
<1>5. TablesTyped'
  BY <1>4 DEF DomainsInv, DomainsTypeOK, TablesTyped
<1>6. CertsKept'
  BY <1>4, DomainParts DEF IssueCert, CertsKept, RenewedExist, RenewalIsKept
<1> QED
  BY <1>2, <1>3, <1>4, <1>5, <1>6, MoveStep

LEMMA UpdateDomainStep ==
    ASSUME DomainsInv, NEW c \in Callers, UpdateDomain(c)
    PROVE  DomainsInv' /\ OnlyCaller(c) /\ caller'[c].host = NoHost
<1> DEFINE d == caller[c].id
<1>1. CallersKept /\ TablesTyped /\ CertsKept /\ OneRowPerHost
  BY DomainParts
<1>2. CallerKnows(caller[c]) /\ caller[c].step = "update" /\ caller[c].copy \in DomainRows
      /\ caller[c].host \in Hosts /\ d \in DomainIds /\ caller[c].copy.host = caller[c].host
      /\ caller[c].copy.status \notin {"absent", "deleted"}
  BY CallerTyped DEF UpdateDomain, CallerKnows, CallerRecords
<1>3. CallerBecomes(c, Silent) /\ UNCHANGED <<routed, cert, renewed>>
  BY DEF UpdateDomain, Ends, CallerBecomes
<1>4. domain' = domain \/ (There(d) /\ domain' = [domain EXCEPT ![d] = caller[c].copy])
  BY DEF UpdateDomain
<1>5. \A e \in DomainIds : Follows(e)
  <2>1. CASE domain' = domain
    BY <2>1, SameFollows
  <2>2. CASE There(d) /\ domain' = [domain EXCEPT ![d] = caller[c].copy]
    <3>1. domain[d].host = caller[c].host
      BY <1>2, <2>2 DEF CallerKnows
    <3> QED
      BY <1>1, <1>2, <2>2, <3>1 DEF Follows, There, TablesTyped
  <2> QED
    BY <1>4, <2>1, <2>2
<1>6. TablesTyped'
  BY <1>1, <1>2, <1>3, <1>4 DEF TablesTyped, UpdateDomain, Tangles
<1>7. CertsKept'
  BY <1>1, <1>3 DEF CertsKept, RenewedExist, RenewalIsKept
<1>8. CallerKnows(Silent)'
  BY SilentKnows, PTL
<1>9. CallersKept' /\ OnlyCaller(c) /\ caller'[c] = Silent
  BY <1>1, <1>3, <1>5, SilentRecord, SilentKnows, KnowsKept, CallerStep
<1> QED
  BY <1>1, <1>5, <1>6, <1>7, <1>9, SilentRecord, RowsKept, DomainPartsNext

\* Rows that go.
Gone == [NoDomain EXCEPT !.status = "deleted"]

LEMMA GoneRecord == Gone \in DomainRows /\ Gone.status = "deleted" /\ Gone.host = NoHost /\ ~Gone.file
  BY DEF Gone, NoDomain, DomainRows

LEMMA GoneFollows ==
    ASSUME TablesTyped, NEW D,
           domain' = [e \in DomainIds |-> IF e \in D THEN Gone ELSE domain[e]]
    PROVE  /\ domain' \in [DomainIds -> DomainRows]
           /\ \A e \in DomainIds : Follows(e)
           /\ \A e \in DomainIds : There(e)' <=> (There(e) /\ e \notin D)
  BY GoneRecord DEF TablesTyped, Follows, There

LEMMA RemoveRouteStep ==
    ASSUME DomainsInv, NEW c \in Callers, NEW d \in DomainIds, RemoveRoute(c, d)
    PROVE  /\ DomainsInv' /\ OnlyCaller(c)
           /\ caller'[c].step = "remove" /\ caller'[c].host = domain[d].host
           /\ caller'[c].id = d
<1>1. There(d) /\ domain[d].host \in Hosts /\ domain[d].status # "absent"
  BY DEF RemoveRoute, DomainsInv, DomainsTypeOK, OneRowPerHost, There
<1>2. PICK r \in CallerRecords :
          CallerBecomes(c, r) /\ r.step = "remove" /\ r.host = domain[d].host /\ r.id = d
  <2> DEFINE s == [Silent EXCEPT !.step = "remove", !.host = domain[d].host, !.id = d]
  <2>1. CallerBecomes(c, s)
    BY DEF RemoveRoute, CallerBecomes
  <2>2. s \in CallerRecords
    BY <1>1, SilentRecord DEF CallerRecords
  <2>3. s.step = "remove" /\ s.host = domain[d].host /\ s.id = d
    BY SilentRecord DEF CallerRecords
  <2> HIDE DEF s
  <2> QED
    BY <2>1, <2>2, <2>3
<1>3. CallerKnows(r)
  BY <1>1, <1>2 DEF CallerKnows, There
<1>4. TablesTyped'
  BY <1>1 DEF RemoveRoute, Tangles, DomainsInv, DomainsTypeOK, TablesTyped
<1>5. CertsKept'
  BY DomainParts DEF RemoveRoute, CertsKept, RenewedExist, RenewalIsKept
<1> QED
  BY <1>2, <1>3, <1>4, <1>5, MoveStep DEF RemoveRoute

LEMMA DeleteDomainStep ==
    ASSUME DomainsInv, NEW c \in Callers, DeleteDomain(c)
    PROVE  /\ DomainsInv' /\ OnlyCaller(c) /\ caller'[c].host = NoHost
<1> DEFINE d == caller[c].id
<1>1. CallersKept /\ TablesTyped /\ CertsKept /\ OneRowPerHost
  BY DomainParts
<1>2. CallerBecomes(c, Silent) /\ UNCHANGED <<routed, cert, renewed, tangled>>
  BY DEF DeleteDomain, Ends, CallerBecomes
<1>3. domain' = [e \in DomainIds |-> IF e \in {d} THEN Gone ELSE domain[e]]
  BY <1>1 DEF DeleteDomain, Gone, TablesTyped
<1>4. domain' \in [DomainIds -> DomainRows] /\ \A e \in DomainIds : Follows(e)
  BY <1>1, <1>3, GoneFollows
<1>5. TablesTyped'
  BY <1>1, <1>2, <1>4 DEF TablesTyped
<1>6. CertsKept'
  BY <1>1, <1>2 DEF CertsKept, RenewedExist, RenewalIsKept
<1>7. CallersKept' /\ OnlyCaller(c) /\ caller'[c] = Silent
  BY <1>1, <1>2, <1>4, SilentRecord, SilentKnows, KnowsKept, CallerStep
<1> QED
  BY <1>1, <1>4, <1>5, <1>6, <1>7, SilentRecord, RowsKept, DomainPartsNext

LEMMA CreateDomainStep ==
    ASSUME DomainsInv, NEW h \in Hosts, CreateDomain(h)
    PROVE  DomainsInv'
<1> DEFINE e == Lowest(NewDomain)
           row == [NoDomain EXCEPT !.status = "pending", !.host = h]
<1>1. CallersKept /\ TablesTyped /\ CertsKept /\ OneRowPerHost
  BY DomainParts
<1>2. /\ e \in DomainIds /\ domain[e].status = "absent" /\ FindByHostname(h) = {}
      /\ domain' = [domain EXCEPT ![e] = row]
      /\ UNCHANGED <<routed, cert, caller, renewed>>
  BY NewAreFree DEF CreateDomain
<1>3. row \in DomainRows /\ row.host = h /\ row.status = "pending" /\ ~row.file
  BY SilentRecord DEF DomainRows
<1> HIDE DEF e, row
<1>4. domain' \in [DomainIds -> DomainRows] /\ domain'[e] = row
      /\ \A d \in DomainIds \ {e} : domain'[d] = domain[d]
  BY <1>1, <1>2, <1>3 DEF TablesTyped
<1>5. \A d \in DomainIds \ {e} : Follows(d)
  BY <1>4 DEF Follows, There
<1>6. \A d \in DomainIds : domain[d].status # "absent" => Follows(d)
  BY <1>2, <1>5
<1>7. OneRowPerHost'
  BY <1>1, <1>2, <1>3, <1>4, <1>5, RowAdded
<1>8. TablesTyped'
  BY <1>1, <1>2, <1>4 DEF TablesTyped, CreateDomain, Tangles
<1>9. CertsKept'
  BY <1>1, <1>2 DEF CertsKept, RenewedExist, RenewalIsKept
<1>10. CallersKept'
  <2>1. ASSUME NEW c \in Callers
        PROVE  CallerKnows(caller[c])'
    <3>1. PICK q : q = caller[c] /\ q = caller'[c]
      BY <1>2
    <3>2. CallerKnows(q)'
      BY <1>1, <1>6, <3>1, KnowsKept DEF CallersKept
    <3> QED
      BY <3>1, <3>2 DEF CallerKnows
  <2> QED
    BY <1>1, <1>2, <2>1 DEF CallersKept
<1> QED
  BY <1>7, <1>8, <1>9, <1>10, DomainPartsNext

LEMMA DropEffects ==
    ASSUME DomainsInv, NEW D, DropDomains(D)
    PROVE  /\ domain' \in [DomainIds -> DomainRows]
           /\ \A e \in DomainIds : Follows(e)
           /\ \A e \in DomainIds : There(e)' <=> (There(e) /\ e \notin D)
           /\ \A e \in DomainIds : There(e)' => domain'[e] = domain[e]
           /\ routed' \subseteq routed
<1>1. TablesTyped
  BY DomainParts
<1>2. domain' = [e \in DomainIds |-> IF e \in D THEN Gone ELSE domain[e]]
  BY DEF DropDomains, Gone
<1>3. /\ domain' \in [DomainIds -> DomainRows]
      /\ \A e \in DomainIds : Follows(e)
      /\ \A e \in DomainIds : There(e)' <=> (There(e) /\ e \notin D)
  BY <1>1, <1>2, GoneFollows
<1> QED
  BY <1>2, <1>3 DEF DropDomains

\* A step of caller c that takes rows away.
LEMMA DropStep ==
    ASSUME DomainsInv, NEW c \in Callers, NEW r \in CallerRecords, CallerBecomes(c, r),
           CallerKnows(r)', NEW D, DropDomains(D), tangled' \subseteq Hosts,
           UNCHANGED <<cert, renewed>>
    PROVE  DomainsInv' /\ OnlyCaller(c) /\ caller'[c] = r
<1>1. CallersKept /\ TablesTyped /\ CertsKept /\ OneRowPerHost
  BY DomainParts
<1>2. domain' \in [DomainIds -> DomainRows] /\ (\A e \in DomainIds : Follows(e))
      /\ routed' \subseteq routed
  BY DropEffects
<1>3. TablesTyped'
  BY <1>1, <1>2 DEF TablesTyped
<1>4. CertsKept'
  BY <1>1 DEF CertsKept, RenewedExist, RenewalIsKept
<1>5. CallersKept' /\ OnlyCaller(c) /\ caller'[c] = r
  BY <1>1, <1>2, CallerStep
<1> QED
  BY <1>1, <1>2, <1>3, <1>4, <1>5, RowsKept, DomainPartsNext

LEMMA ProvisionStep ==
    ASSUME DomainsInv, NEW c \in Callers, NEW h \in Hosts, NEW p \in Previews,
           ProvisionPreview(c, h, p)
    PROVE  /\ DomainsInv' /\ OnlyCaller(c)
           /\ caller'[c].step = "take" /\ caller'[c].host = h
<1>1. PICK r \in CallerRecords :
          /\ CallerBecomes(c, r) /\ r.step = "take" /\ r.host = h
          /\ r.copy.host = h /\ r.copy.status = "active" /\ ~r.copy.file
  <2> DEFINE q == [status |-> "active", host |-> h, preview |-> p, file |-> FALSE, cert |-> 0]
             s == [Silent EXCEPT !.step = "take", !.host = h, !.copy = q]
  <2>1. CallerBecomes(c, s)
    BY DEF ProvisionPreview, CallerBecomes
  <2>2. q \in DomainRows /\ q.host = h /\ q.status = "active" /\ ~q.file
    BY DEF DomainRows
  <2> HIDE DEF q
  <2>3. s \in CallerRecords
    BY <2>2, SilentRecord DEF CallerRecords
  <2>4. s.step = "take" /\ s.host = h /\ s.copy = q
    BY SilentRecord DEF CallerRecords
  <2> HIDE DEF s
  <2> QED
    BY <2>1, <2>2, <2>3, <2>4
<1>2. CallerKnows(r)'
  BY <1>1 DEF CallerKnows
<1>3. DropDomains(FindByDeployment(p)) /\ UNCHANGED <<cert, renewed>>
  BY DEF ProvisionPreview
<1>4. tangled' \subseteq Hosts
  BY DEF ProvisionPreview, Tangles, Meddles, FindByDeployment, DomainsInv, DomainsTypeOK, OneRowPerHost
<1> QED
  BY <1>1, <1>2, <1>3, <1>4, DropStep

LEMMA TakeStep ==
    ASSUME DomainsInv, NEW c \in Callers, TakeHostname(c)
    PROVE  /\ DomainsInv' /\ OnlyCaller(c)
           /\ caller'[c].step = "insert" /\ caller'[c].host = caller[c].host
<1>1. CallerKnows(caller[c]) /\ caller[c].step = "take"
  BY CallerTyped DEF TakeHostname
<1>2. PICK r \in CallerRecords :
          /\ CallerBecomes(c, r) /\ r.step = "insert"
          /\ r.host = caller[c].host /\ r.id = caller[c].id /\ r.copy = caller[c].copy
  BY ProceedsRecord DEF TakeHostname
<1>3. CallerKnows(r)'
  BY <1>1, <1>2 DEF CallerKnows
<1>4. DropDomains(FindByHostname(caller[c].host)) /\ UNCHANGED <<cert, renewed>>
      /\ tangled' \subseteq Hosts
  BY DEF TakeHostname, DomainsInv, DomainsTypeOK
<1> QED
  BY <1>2, <1>3, <1>4, DropStep

LEMMA TeardownStep ==
    ASSUME DomainsInv, NEW p \in Previews, DeleteByDeployment(p)
    PROVE  DomainsInv'
<1>1. CallersKept /\ TablesTyped /\ CertsKept /\ OneRowPerHost
  BY DomainParts
<1>2. domain' \in [DomainIds -> DomainRows] /\ (\A e \in DomainIds : Follows(e))
      /\ routed' \subseteq routed
  BY DropEffects DEF DeleteByDeployment
<1>3. tangled' \subseteq Hosts
  BY DEF DeleteByDeployment, Tangles, Meddles, FindByDeployment, DomainsInv, DomainsTypeOK,
         OneRowPerHost
<1>4. TablesTyped'
  BY <1>1, <1>2, <1>3 DEF TablesTyped
<1>5. CertsKept'
  BY <1>1 DEF DeleteByDeployment, CertsKept, RenewedExist, RenewalIsKept
<1>6. UNCHANGED caller
  BY DEF DeleteByDeployment
<1>7. CallersKept'
  <2>1. ASSUME NEW c \in Callers
        PROVE  CallerKnows(caller[c])'
    <3>1. PICK q : q = caller[c] /\ q = caller'[c]
      BY <1>6
    <3>2. CallerKnows(q)'
      BY <1>1, <1>2, <3>1, KnowsKept DEF CallersKept
    <3> QED
      BY <3>1, <3>2 DEF CallerKnows
  <2> QED
    BY <1>1, <1>6, <2>1 DEF CallersKept
<1> QED
  BY <1>1, <1>2, <1>4, <1>5, <1>7, RowsKept, DomainPartsNext

LEMMA InsertPreviewStep ==
    ASSUME DomainsInv, NEW c \in Callers, InsertPreview(c)
    PROVE  /\ DomainsInv' /\ OnlyCaller(c)
           /\ \/ /\ caller'[c].step = "serve" /\ caller'[c].host = caller[c].host
                 /\ caller'[c].id = Lowest(NewDomain) /\ FindByHostname(caller[c].host) = {}
                 /\ NewDomain # {}
              \/ /\ caller'[c].host = NoHost /\ FindByHostname(caller[c].host) # {}
                 /\ UNCHANGED domain
<1> DEFINE e == Lowest(NewDomain)
<1>1. CallersKept /\ TablesTyped /\ CertsKept /\ OneRowPerHost
  BY DomainParts
<1>2. /\ CallerKnows(caller[c]) /\ caller[c].step = "insert" /\ caller[c] \in CallerRecords
      /\ caller[c].copy \in DomainRows /\ caller[c].host \in Hosts
      /\ caller[c].copy.host = caller[c].host /\ caller[c].copy.status \notin {"absent", "deleted"}
  BY CallerTyped DEF InsertPreview, CallerKnows, CallerRecords
<1>3. UNCHANGED <<routed, cert, renewed, tangled>>
  BY DEF InsertPreview
<1>4. CertsKept'
  BY <1>1, <1>3 DEF CertsKept, RenewedExist, RenewalIsKept
<1>5. CASE /\ FindByHostname(caller[c].host) = {} /\ NewDomain # {}
           /\ domain' = [domain EXCEPT ![e] = caller[c].copy]
           /\ caller' = [caller EXCEPT ![c].step = "serve", ![c].id = e]
  <2> DEFINE s == [caller[c] EXCEPT !.step = "serve", !.id = e]
  <2>1. e \in DomainIds /\ domain[e].status = "absent"
    BY <1>5, NewAreFree
  <2> HIDE DEF e
  <2>2. CallerBecomes(c, s)
    BY <1>1, <1>5 DEF CallerBecomes, CallersKept, CallerRecords
  <2>3. s \in CallerRecords /\ s.step = "serve" /\ s.host = caller[c].host /\ s.id = e
    BY <1>2, <2>1 DEF CallerRecords
  <2> HIDE DEF s
  <2>4. PICK r \in CallerRecords :
            CallerBecomes(c, r) /\ r.step = "serve" /\ r.host = caller[c].host /\ r.id = e
    BY <2>2, <2>3
  <2>5. domain' \in [DomainIds -> DomainRows] /\ domain'[e] = caller[c].copy
        /\ \A d \in DomainIds \ {e} : domain'[d] = domain[d]
    BY <1>1, <1>2, <1>5, <2>1 DEF TablesTyped
  <2>6. \A d \in DomainIds \ {e} : Follows(d)
    BY <2>5 DEF Follows, There
  <2>7. OneRowPerHost'
    BY <1>1, <1>2, <1>5, <2>1, <2>5, <2>6, RowAdded
  <2>8. CallerKnows(r)'
    BY <1>2, <2>1, <2>4, <2>5 DEF CallerKnows, There
  <2>9. \A d \in DomainIds : domain[d].status # "absent" => Follows(d)
    BY <2>1, <2>6
  <2>10. CallersKept' /\ OnlyCaller(c) /\ caller'[c] = r
    BY <1>1, <2>4, <2>8, <2>9, CallerStep
  <2>11. TablesTyped'
    BY <1>1, <1>3, <2>5 DEF TablesTyped
  <2>12. DomainsInv'
    BY <1>4, <2>7, <2>10, <2>11, DomainPartsNext
  <2> QED
    BY <1>5, <2>4, <2>10, <2>12 DEF e
<1>6. CASE FindByHostname(caller[c].host) # {} /\ Ends(c) /\ UNCHANGED domain
  <2>1. CallerBecomes(c, Silent)
    BY <1>6 DEF Ends, CallerBecomes
  <2>2. TablesTyped'
    BY <1>1, <1>3, <1>6 DEF TablesTyped
  <2>3. DomainsInv' /\ OnlyCaller(c) /\ caller'[c] = Silent
    BY <1>4, <1>6, <2>1, <2>2, SilentRecord, SilentKnows, MoveStep
  <2> QED
    BY <1>6, <2>3, SilentRecord
<1> QED
  BY <1>5, <1>6 DEF InsertPreview

LEMMA ServePreviewStep ==
    ASSUME DomainsInv, NEW c \in Callers, ServePreview(c)
    PROVE  DomainsInv' /\ OnlyCaller(c) /\ caller'[c].host = NoHost
<1> DEFINE d == caller[c].id
<1>1. CallersKept /\ TablesTyped /\ CertsKept /\ OneRowPerHost
  BY DomainParts
<1>2. caller[c].host \in Hosts /\ d \in DomainIds
  BY CallerTyped DEF ServePreview, CallerKnows
<1>3. CallerBecomes(c, Silent) /\ UNCHANGED <<cert, renewed, tangled>>
  BY DEF ServePreview, Ends, CallerBecomes
<1>4. \/ There(d) /\ domain' = [domain EXCEPT ![d].file = TRUE]
      \/ domain' = domain
  BY DEF ServePreview
<1>5. domain' \in [DomainIds -> DomainRows] /\ \A e \in DomainIds : Follows(e)
  <2>1. CASE There(d) /\ domain' = [domain EXCEPT ![d].file = TRUE]
    <3> DEFINE q == [domain[d] EXCEPT !.file = TRUE]
    <3>1. q \in DomainRows /\ q.host = domain[d].host /\ q.status = domain[d].status
      BY <1>1, <1>2 DEF TablesTyped, DomainRows
    <3>2. domain' = [domain EXCEPT ![d] = q]
      BY <2>1
    <3> HIDE DEF q
    <3> QED
      BY <1>1, <1>2, <3>1, <3>2 DEF TablesTyped, Follows, There
  <2>2. CASE domain' = domain
    BY <1>1, <2>2, SameFollows DEF TablesTyped
  <2> QED
    BY <1>4, <2>1, <2>2
<1>6. TablesTyped'
  BY <1>1, <1>2, <1>3, <1>5 DEF TablesTyped, ServePreview, HostFile
<1>7. CertsKept'
  BY <1>1, <1>3 DEF CertsKept, RenewedExist, RenewalIsKept
<1>8. CallersKept' /\ OnlyCaller(c) /\ caller'[c] = Silent
  BY <1>1, <1>3, <1>5, SilentRecord, SilentKnows, KnowsKept, CallerStep
<1> QED
  BY <1>1, <1>5, <1>6, <1>7, <1>8, SilentRecord, RowsKept, DomainPartsNext

\* A record that is about certificates, and no hostname.
Renews(r) == /\ r.step \in {"silent", "renew", "renewed"} /\ r.host = NoHost
             /\ r.step \in {"renew", "renewed"} => r.certs # {}

LEMMA RenewsKnows == ASSUME NEW r, Renews(r) PROVE CallerKnows(r)
  BY DEF Renews, CallerKnows

\* The steps on certificates.
LEMMA CertStep ==
    ASSUME DomainsInv, NEW c \in Callers, NEW r \in CallerRecords, CallerBecomes(c, r), Renews(r),
           UNCHANGED <<domain, routed, tangled>>, CertsKept'
    PROVE  DomainsInv' /\ OnlyCaller(c) /\ caller'[c].host = NoHost
<1>1. TablesTyped'
  BY DomainParts DEF TablesTyped
<1>2. DomainsInv' /\ OnlyCaller(c) /\ caller'[c] = r
  BY <1>1, RenewsKnows, MoveStep
<1> QED
  BY <1>2 DEF Renews

LEMMA SameCerts == ASSUME DomainsInv, UNCHANGED <<cert, renewed>> PROVE CertsKept'
  BY DomainParts DEF CertsKept, RenewedExist, RenewalIsKept

LEMMA ScanRecord ==
    ASSUME NEW S \in SUBSET CertIds, S # {}, NEW t \in {"never", "soon", "later"}
    PROVE  LET r == [Silent EXCEPT !.step = "renew", !.certs = S, !.ends = t]
           IN  r \in CallerRecords /\ Renews(r)
<1> DEFINE r == [Silent EXCEPT !.step = "renew", !.certs = S, !.ends = t]
<1>1. r \in CallerRecords
  BY SilentRecord DEF CallerRecords
<1>2. r.step = "renew" /\ r.certs = S /\ r.host = NoHost
  BY SilentRecord DEF CallerRecords
<1> QED
  BY <1>1, <1>2 DEF Renews

LEMMA RenewScanStep ==
    ASSUME DomainsInv, NEW c \in Callers, RenewScan(c)
    PROVE  DomainsInv' /\ OnlyCaller(c) /\ caller'[c].host = NoHost
<1>1. ListExpiring \in SUBSET CertIds /\ ListExpiring # {}
  BY DEF RenewScan, ListExpiring
<1>2. PICK r \in CallerRecords : CallerBecomes(c, r) /\ Renews(r)
  BY <1>1, ScanRecord DEF RenewScan, CallerBecomes
<1> QED
  BY <1>2, SameCerts, CertStep DEF RenewScan

LEMMA RenewStep ==
    ASSUME DomainsInv, NEW c \in Callers, NEW k \in CertIds, Renew(c, k)
    PROVE  DomainsInv' /\ OnlyCaller(c) /\ caller'[c].host = NoHost
<1>1. {k} \in SUBSET CertIds /\ {k} # {} /\ cert[k].ends \in {"never", "soon", "later"}
  BY DEF DomainsInv, DomainsTypeOK
<1>2. PICK r \in CallerRecords : CallerBecomes(c, r) /\ Renews(r)
  BY <1>1, ScanRecord DEF Renew, CallerBecomes
<1> QED
  BY <1>2, SameCerts, CertStep DEF Renew

\* The certificate a renewal is at.
LEMMA CertAtHand ==
    ASSUME DomainsInv, NEW c \in Callers, caller[c].step \in {"renew", "renewed"}
    PROVE  /\ Lowest(caller[c].certs) \in CertIds /\ caller[c].certs \in SUBSET CertIds
           /\ caller[c] \in CallerRecords /\ caller[c].host = NoHost /\ caller[c].certs # {}
           /\ caller[c].ends \in {"never", "soon", "later"}
<1>1. caller[c] \in CallerRecords /\ caller[c].certs \in SUBSET CertIds /\ caller[c].certs # {}
      /\ caller[c].host = NoHost /\ caller[c].ends \in {"never", "soon", "later"}
  BY CallerTyped DEF CallerRecords, CallerKnows
<1>2. caller[c].certs \in SUBSET Nat
  BY <1>1, DomainsAssumption DEF DomainsAssumption, CertIds
<1> QED
  BY <1>1, <1>2, LowestIsIn

\* A certificate is marked, or given its new end.
LEMMA CertWritten ==
    ASSUME CertsKept, NEW k \in CertIds,
           NEW s \in {"issued", "renewing"}, NEW t \in {"never", "soon", "later"},
           s = "renewing" \/ t = "later", cert' = [cert EXCEPT ![k] = [status |-> s, ends |-> t]],
           renewed \subseteq renewed', renewed' \subseteq renewed \cup {k}
    PROVE  CertsKept'
  BY DEF CertsKept, RenewedExist, RenewalIsKept

LEMMA MarkStep ==
    ASSUME DomainsInv, NEW c \in Callers, MarkRenewing(c)
    PROVE  DomainsInv' /\ OnlyCaller(c) /\ caller'[c].host = NoHost
<1>1. /\ Lowest(caller[c].certs) \in CertIds /\ caller[c].host = NoHost /\ caller[c].certs # {}
      /\ caller[c].ends \in {"never", "soon", "later"}
  BY CertAtHand DEF MarkRenewing
<1>2. PICK r \in CallerRecords :
          /\ CallerBecomes(c, r) /\ r.step = "renewed"
          /\ r.host = caller[c].host /\ r.certs = caller[c].certs
  BY ProceedsRecord DEF MarkRenewing
<1>3. Renews(r)
  BY <1>1, <1>2 DEF Renews
<1>4. CertsKept'
  BY <1>1, DomainParts, CertWritten DEF MarkRenewing
<1> QED
  BY <1>2, <1>3, <1>4, CertStep DEF MarkRenewing

LEMMA ApplyStep ==
    ASSUME DomainsInv, NEW c \in Callers, ApplyRenew(c)
    PROVE  DomainsInv' /\ OnlyCaller(c) /\ caller'[c].host = NoHost
<1> DEFINE k == Lowest(caller[c].certs)
           rest == caller[c].certs \ {k}
<1>1. /\ k \in CertIds /\ caller[c].host = NoHost /\ rest \in SUBSET CertIds
      /\ caller[c] \in CallerRecords
  BY CertAtHand DEF ApplyRenew
<1>2. CertsKept'
  <2>1. CASE UNCHANGED <<cert, renewed>>
    BY <2>1, SameCerts
  <2>2. CASE /\ cert' = [cert EXCEPT ![k] = [status |-> "issued", ends |-> "later"]]
             /\ renewed' = renewed \cup {k}
    BY <1>1, <2>2, DomainParts, CertWritten
  <2> QED
    BY <2>1, <2>2 DEF ApplyRenew
<1>3. PICK r \in CallerRecords : CallerBecomes(c, r) /\ Renews(r)
  <2>1. CASE rest = {} /\ caller' = [caller EXCEPT ![c] = Silent]
    BY <2>1, SilentRecord DEF CallerBecomes, Renews
  <2>2. CASE rest # {} /\ caller' = [caller EXCEPT ![c].step = "renew", ![c].certs = rest]
    <3> DEFINE s == [caller[c] EXCEPT !.step = "renew", !.certs = rest]
    <3> HIDE DEF rest
    <3>1. CallerBecomes(c, s)
      BY <1>1, <2>2 DEF CallerBecomes, DomainsInv, CallerRecords
    <3>2. s \in CallerRecords /\ s.step = "renew" /\ s.certs = rest /\ s.host = NoHost
      BY <1>1 DEF CallerRecords
    <3> HIDE DEF s
    <3> QED
      BY <2>2, <3>1, <3>2 DEF Renews
  <2> QED
    BY <2>1, <2>2 DEF ApplyRenew
<1> QED
  BY <1>2, <1>3, CertStep DEF ApplyRenew

LEMMA CallersStay ==
    ASSUME CallersKept, UNCHANGED <<domain, caller>>
    PROVE  CallersKept'
  BY DEF CallersKept, CallerKnows, There

LEMMA NearsEndStep ==
    ASSUME DomainsInv, NEW k \in CertIds, NearsEnd(k)
    PROVE  DomainsInv'
<1>1. CallersKept /\ TablesTyped /\ CertsKept /\ OneRowPerHost
  BY DomainParts
<1>2. CertsKept'
  BY <1>1 DEF NearsEnd, CertsKept, RenewedExist, RenewalIsKept
<1>3. TablesTyped' /\ OneRowPerHost'
  BY <1>1 DEF NearsEnd, TablesTyped, OneRowPerHost, There
<1> QED
  BY <1>1, <1>2, <1>3, CallersStay, DomainPartsNext DEF NearsEnd

LEMMA DomainsCrashStep ==
    ASSUME DomainsInv, CrashDomains
    PROVE  DomainsInv'
<1>1. CallersKept /\ TablesTyped /\ CertsKept /\ OneRowPerHost
  BY DomainParts
<1>2. caller' = [c \in Callers |-> Silent] /\ UNCHANGED <<domain, routed, cert, renewed>>
  BY DEF CrashDomains
<1>3. \A c \in Callers : caller[c].host \in Hosts \cup {NoHost}
  BY <1>1 DEF CallersKept, CallerRecords
<1>4. TablesTyped' /\ OneRowPerHost'
  BY <1>1, <1>2, <1>3 DEF CrashDomains, Tangles, TablesTyped, OneRowPerHost, There
<1>5. CallersKept'
  BY <1>2, SilentRecord DEF CallersKept, CallerKnows
<1> QED
  BY <1>2, <1>4, <1>5, SameCerts, DomainPartsNext

-----------------------------------------------------------------------------
(* Domains: what follows                                                   *)

LEMMA DomainsInitInv == DomainsInit => DomainsInv
<1> SUFFICES ASSUME DomainsInit
             PROVE  DomainsInv
  OBVIOUS
<1>1. TablesTyped /\ OneRowPerHost
  BY SilentRecord DEF DomainsInit, TablesTyped, OneRowPerHost, There
<1>2. CertsKept
  BY DEF DomainsInit, CertsKept, RenewedExist, RenewalIsKept, NoCert
<1>3. CallersKept
  BY SilentRecord, SilentKnows DEF DomainsInit, CallersKept
<1> QED
  BY <1>1, <1>2, <1>3, DomainParts

LEMMA DomainsStep == DomainsInv /\ [DomainsNext]_domainVars => DomainsInv'
<1> SUFFICES ASSUME DomainsInv, [DomainsNext]_domainVars
             PROVE  DomainsInv'
  OBVIOUS
<1>1. CASE UNCHANGED domainVars
  <2>1. UNCHANGED <<domain, routed, cert, caller, renewed, tangled>>
    BY <1>1 DEF domainVars
  <2>2. CallersKept /\ TablesTyped /\ OneRowPerHost
    BY DomainParts
  <2>3. TablesTyped' /\ OneRowPerHost'
    BY <2>1, <2>2 DEF TablesTyped, OneRowPerHost, There
  <2> QED
    BY <2>1, <2>2, <2>3, CallersStay, SameCerts, DomainPartsNext
<1> QED
  BY <1>1, CreateDomainStep, TeardownStep, NearsEndStep, WriteRouteStep, RequestCertStep,
     IssueCertStep, UpdateDomainStep, DeleteDomainStep, TakeStep, InsertPreviewStep,
     ServePreviewStep, MarkStep, ApplyStep, RenewScanStep, RenewStep, VerifyStep,
     RemoveRouteStep, ProvisionStep, DomainsCrashStep DEF DomainsNext

LEMMA DomainsInvHolds == DomainsSpec => []DomainsInv
<1>1. DomainsInv /\ [DomainsNext]_domainVars => DomainsInv'
  BY DomainsStep
<1> QED
  BY <1>1, DomainsInitInv, PTL DEF DomainsSpec

\* Rows, files, certificates and requests keep their types.
THEOREM DomainsTypes == DomainsSpec => []DomainsTypeOK
<1>1. DomainsInv => DomainsTypeOK
  BY DEF DomainsInv
<1> QED
  BY <1>1, DomainsInvHolds, PTL

\* A certificate that was renewed has its new end, or says "renewing" and is
\* found by the next scan, however many scans and requests overlap and
\* whatever update fails.
THEOREM RenewalsLast == DomainsSpec => []RenewalIsKept
<1>1. DomainsInv => RenewalIsKept
  BY DEF DomainsInv
<1> QED
  BY <1>1, DomainsInvHolds, PTL

-----------------------------------------------------------------------------
(* Domains: files and rows, where no two hostnames have one file           *)

LEMMA FilesApart ==
    ASSUME Distinct, NEW g \in Hosts, NEW h \in Hosts
    PROVE  /\ HostFile(g) = HostFile(h) => g = h
           /\ VerifiedFile(g) = HostFile(h) => g = h
           /\ h \notin Bare => VerifiedFile(h) = HostFile(h)
  BY DEF Distinct, HostFile, VerifiedFile

\* A host that is still as it was to be judged by.
LEMMA WholeBefore ==
    ASSUME DomainsWhole, tangled \subseteq tangled', NEW h \in Hosts \ (Bare \cup tangled')
    PROVE  HostWhole(h) /\ h \in Hosts /\ h \notin Bare /\ h \notin tangled
  BY DEF DomainsWhole

\* The file and the rows of hostname h are what they were.
HostSame(h) ==
    /\ Routed(h)' <=> Routed(h)
    /\ \A d \in DomainIds : There(d)' /\ domain'[d].host = h <=> There(d) /\ domain[d].host = h
    /\ \A d \in DomainIds : There(d) /\ domain[d].host = h => domain'[d] = domain[d]

LEMMA UnchangedSame ==
    ASSUME NEW h, UNCHANGED <<domain, routed>>
    PROVE  HostSame(h)
  BY DEF HostSame, Routed, There, HostFile

LEMMA RowedStays ==
    ASSUME NEW h, HostSame(h)
    PROVE  (Routed(h)' <=> Routed(h)) /\ (Rowed(h)' <=> Rowed(h))
<1>1. (Routed(h)' <=> Routed(h))
      /\ (\A d \in DomainIds : There(d)' /\ domain'[d].host = h <=> There(d) /\ domain[d].host = h)
      /\ \A d \in DomainIds : There(d) /\ domain[d].host = h => domain'[d] = domain[d]
  BY DEF HostSame
<1> QED
  BY <1>1 DEF Rowed, FindByHostname

LEMMA RecordStays ==
    ASSUME NEW r, HostSame(r.host), CallerKnows(r), RecordFits(r)
    PROVE  RecordFits(r)'
<1> DEFINE h == r.host
<1>1. (Routed(h)' <=> Routed(h))
      /\ (\A d \in DomainIds : There(d)' /\ domain'[d].host = h <=> There(d) /\ domain[d].host = h)
      /\ \A d \in DomainIds : There(d) /\ domain[d].host = h => domain'[d] = domain[d]
  BY DEF HostSame
<1>2. FindByHostname(h)' = FindByHostname(h)
  BY <1>1 DEF FindByHostname
<1>3. r.step \in {"route", "certify", "issue", "update", "remove", "serve"} =>
          There(r.id)' /\ domain'[r.id] = domain[r.id]
  BY <1>1 DEF RecordFits, CallerKnows
<1>5. Rowed(h)' <=> Rowed(h)
  BY RowedStays
<1> HIDE DEF h
<1>4. r.host = h
  BY DEF h
<1> QED
  BY <1>1, <1>2, <1>3, <1>4, <1>5 DEF RecordFits

\* Nothing happens to h.
LEMMA HostStays ==
    ASSUME DomainsInv, NEW h, HostSame(h), HostWhole(h),
           \A x \in Callers : caller[x].host = h \/ caller'[x].host = h => caller'[x] = caller[x]
    PROVE  HostWhole(h)'
<1>1. ASSUME NEW c \in Callers, caller'[c].host = h
      PROVE  RecordFits(caller[c])' /\ \A x \in Callers \ {c} : caller'[x].host # h
  <2>1. PICK q : q = caller[c] /\ q = caller'[c]
    BY <1>1
  <2>2. CallerKnows(q) /\ RecordFits(q) /\ q.host = h
        /\ \A x \in Callers \ {c} : caller[x].host # h
    BY <1>1, <2>1, CallerTyped DEF HostWhole
  <2>3. RecordFits(q)'
    BY <2>2, RecordStays
  <2>4. RecordFits(caller[c])'
    BY <2>1, <2>3 DEF RecordFits
  <2> QED
    BY <2>2, <2>4
<1>2. Busy(h)' <=> Busy(h)
  BY DEF Busy
<1>3. ~Busy(h)' => (Routed(h)' <=> Rowed(h)')
  BY <1>2, RowedStays DEF HostWhole
<1> QED
  BY <1>1, <1>3 DEF HostWhole

\* The request at h goes on, or one begins where none was.
LEMMA HostGoesOn ==
    ASSUME NEW h, HostWhole(h), NEW c \in Callers, caller[c].host = h \/ ~Busy(h), OnlyCaller(c),
           NEW r, r = caller'[c], r.host = h, RecordFits(r)'
    PROVE  HostWhole(h)'
<1>1. \A x \in Callers \ {c} : caller'[x].host # h
  BY DEF HostWhole, Busy, OnlyCaller
<1>2. RecordFits(caller[c])'
  BY DEF RecordFits
<1>3. Busy(h)'
  BY DEF Busy
<1> QED
  BY <1>1, <1>2, <1>3 DEF HostWhole

\* Nobody is at h any longer.
LEMMA HostAtRest ==
    ASSUME NEW h, \A x \in Callers : caller'[x].host # h, Routed(h)' <=> Rowed(h)'
    PROVE  HostWhole(h)'
  BY DEF HostWhole

LEMMA OthersLeave ==
    ASSUME NEW h \in Hosts, HostWhole(h), NEW c \in Callers, caller[c].host = h, OnlyCaller(c),
           caller'[c].host = NoHost
    PROVE  \A x \in Callers : caller'[x].host # h
  BY DomainsAssumption DEF DomainsAssumption, HostWhole, OnlyCaller

\* Steps of caller c that do not touch host h.
LEMMA ElsewhereWhole ==
    ASSUME DomainsInv, NEW h, HostWhole(h), HostSame(h), NEW c \in Callers, OnlyCaller(c),
           caller[c].host # h, caller'[c].host # h
    PROVE  HostWhole(h)'
  BY HostStays DEF OnlyCaller

\* Where rows are dropped, their files are.
LEMMA DropHosts ==
    ASSUME Distinct, DomainsInv, NEW D, DropDomains(D), D \subseteq {d \in DomainIds : There(d)},
           NEW h \in Hosts
    PROVE  \/ HostSame(h) /\ \A d \in D : domain[d].host # h
           \/ /\ ~Routed(h)' /\ ~Rowed(h)' /\ FindByHostname(h)' = {}
              /\ \E d \in D : domain[d].host = h
<1>1. /\ \A e \in DomainIds : There(e)' <=> (There(e) /\ e \notin D)
      /\ \A e \in DomainIds : There(e)' => domain'[e] = domain[e]
  BY DropEffects
<1>2. routed' = routed \ {HostFile(domain[d].host) : d \in D}
  BY DEF DropDomains
<1>3. \A d \in D : domain[d].host \in Hosts
  BY DEF DomainsInv, OneRowPerHost
<1>4. CASE \A d \in D : domain[d].host # h
  <2>1. Routed(h)' <=> Routed(h)
    BY <1>2, <1>3, <1>4, FilesApart DEF Routed, HostFile
  <2>2. \A d \in DomainIds : There(d)' /\ domain'[d].host = h <=> There(d) /\ domain[d].host = h
    BY <1>1, <1>4
  <2>3. \A d \in DomainIds : There(d) /\ domain[d].host = h => domain'[d] = domain[d]
    BY <1>1, <1>4
  <2> QED
    BY <1>4, <2>1, <2>2, <2>3 DEF HostSame
<1>5. CASE \E d \in D : domain[d].host = h
  <2>1. PICK d \in D : domain[d].host = h
    BY <1>5
  <2>2. ~Routed(h)'
    BY <1>2, <2>1 DEF Routed, HostFile
  <2>3. \A e \in DomainIds : There(e) /\ domain[e].host = h => e = d
    BY <2>1 DEF DomainsInv, OneRowPerHost
  <2>4. FindByHostname(h)' = {}
    BY <1>1, <2>1, <2>3 DEF FindByHostname
  <2>5. ~Rowed(h)'
    BY <2>4 DEF Rowed
  <2> QED
    BY <2>1, <2>2, <2>4, <2>5
<1> QED
  BY <1>4, <1>5

\* The row of a hostname decides.
LEMMA RowedByRow ==
    ASSUME OneRowPerHost, NEW d \in DomainIds, There(d)
    PROVE  Rowed(domain[d].host) <=> domain[d].file
  BY DEF OneRowPerHost, Rowed, FindByHostname

LEMMA RowedByRowNext ==
    ASSUME OneRowPerHost', NEW d \in DomainIds, There(d)', NEW h, domain'[d].host = h
    PROVE  Rowed(h)' <=> domain'[d].file
  BY DEF OneRowPerHost, Rowed, FindByHostname

LEMMA VerifyWhole ==
    ASSUME Distinct, DomainsInv, DomainsWhole, NEW c \in Callers, NEW d \in DomainIds, Verify(c, d)
    PROVE  DomainsWhole'
<1> SUFFICES ASSUME NEW h \in Hosts \ (Bare \cup tangled')
             PROVE  HostWhole(h)'
  BY DEF DomainsWhole
<1>1. tangled \subseteq tangled' /\ caller[c] = Silent /\ UNCHANGED <<domain, routed>> /\ There(d)
      /\ (Busy(domain[d].host) => domain[d].host \in tangled')
  BY DEF Verify, Begins, Tangles
<1>2. HostWhole(h) /\ h \in Hosts /\ HostSame(h) /\ caller[c].host = NoHost
  BY <1>1, WholeBefore, UnchangedSame, SilentRecord
<1>3. /\ OnlyCaller(c) /\ caller'[c].step = "route" /\ caller'[c].host = domain[d].host
      /\ caller'[c].id = d /\ caller'[c].copy = domain[d]
  BY VerifyStep
<1>4. CASE domain[d].host # h
  BY <1>2, <1>3, <1>4, ElsewhereWhole, SilentRecord
<1>5. CASE domain[d].host = h
  <2>1. ~Busy(h)
    BY <1>1, <1>5
  <2>2. Routed(h) <=> domain[d].file
    <3>1. Rowed(h) <=> domain[d].file
      BY <1>1, <1>5, RowedByRow DEF DomainsInv
    <3> QED
      BY <1>2, <2>1, <3>1 DEF HostWhole
  <2>3. PICK r : r = caller'[c]
    OBVIOUS
  <2>4. RecordFits(r)
    BY <1>1, <1>3, <1>5, <2>2, <2>3 DEF RecordFits
  <2>5. CallerKnows(r)
    BY <1>1, <1>3, <1>5, <2>3 DEF CallerKnows, There
  <2>6. RecordFits(r)'
    BY <1>2, <1>3, <1>5, <2>3, <2>4, <2>5, RecordStays
  <2> QED
    BY <1>2, <1>3, <1>5, <2>1, <2>3, <2>6, HostGoesOn
<1> QED
  BY <1>4, <1>5

LEMMA WriteRouteWhole ==
    ASSUME Distinct, DomainsInv, DomainsWhole, NEW c \in Callers, WriteRoute(c)
    PROVE  DomainsWhole'
<1> SUFFICES ASSUME NEW h \in Hosts \ (Bare \cup tangled')
             PROVE  HostWhole(h)'
  BY DEF DomainsWhole
<1>1. /\ OnlyCaller(c) /\ caller'[c].step = "certify" /\ caller'[c].host = caller[c].host
      /\ caller'[c].id = caller[c].id
      /\ \/ routed' = routed \cup {VerifiedFile(caller[c].host)} /\ caller'[c].copy.file
         \/ routed' = routed /\ caller'[c].copy.file = caller[c].copy.file
  BY WriteRouteStep
<1>2. UNCHANGED <<domain, tangled>> /\ caller[c].step = "route" /\ caller[c].host \in Hosts
  BY CallerTyped DEF WriteRoute, CallerKnows
<1>3. HostWhole(h) /\ h \in Hosts /\ h \notin Bare
  BY <1>2, WholeBefore
<1>4. CASE caller[c].host # h
  <2>1. Routed(h)' <=> Routed(h)
    BY <1>1, <1>2, <1>3, <1>4, FilesApart DEF Routed, HostFile
  <2>2. HostSame(h)
    BY <1>2, <2>1 DEF HostSame, There
  <2> QED
    BY <1>1, <1>3, <1>4, <2>2, ElsewhereWhole
<1>5. CASE caller[c].host = h
  <2>1. PICK r : r = caller'[c]
    OBVIOUS
  <2>2. RecordFits(caller[c])
    BY <1>3, <1>5 DEF HostWhole
  <2>3. There(r.id)' /\ (Routed(h)' <=> r.copy.file)
    <3>1. VerifiedFile(h) = HostFile(h)
      BY <1>3, FilesApart
    <3> QED
      BY <1>1, <1>2, <1>5, <2>1, <2>2, <3>1 DEF RecordFits, There, Routed, HostFile
  <2>4. RecordFits(r)'
    BY <1>1, <1>5, <2>1, <2>3 DEF RecordFits
  <2> QED
    BY <1>1, <1>3, <1>5, <2>1, <2>4, HostGoesOn
<1> QED
  BY <1>4, <1>5

\* A request asks for its certificate: rows and files stay.
LEMMA CertifyWhole ==
    ASSUME DomainsInv, DomainsWhole, NEW c \in Callers, RequestCert(c) \/ IssueCert(c)
    PROVE  DomainsWhole'
<1> SUFFICES ASSUME NEW h \in Hosts \ (Bare \cup tangled')
             PROVE  HostWhole(h)'
  BY DEF DomainsWhole
<1>1. /\ OnlyCaller(c) /\ caller'[c].step \in {"issue", "update"}
      /\ caller'[c].host = caller[c].host
      /\ caller'[c].id = caller[c].id /\ caller'[c].copy.file = caller[c].copy.file
  BY RequestCertStep, IssueCertStep
<1>2. UNCHANGED <<domain, routed, tangled>> /\ caller[c].step \in {"certify", "issue"}
  BY DEF RequestCert, IssueCert
<1>3. HostWhole(h) /\ h \in Hosts /\ HostSame(h)
  BY <1>2, WholeBefore, UnchangedSame
<1>4. CASE caller[c].host # h
  BY <1>1, <1>3, <1>4, ElsewhereWhole
<1>5. CASE caller[c].host = h
  <2>1. PICK r : r = caller'[c]
    OBVIOUS
  <2>2. RecordFits(caller[c]) /\ CallerKnows(caller[c])
    BY <1>3, <1>5, CallerTyped DEF HostWhole
  <2>3. There(r.id)' /\ (Routed(h)' <=> r.copy.file)
    BY <1>1, <1>2, <1>5, <2>1, <2>2 DEF RecordFits, There, Routed, HostFile
  <2>4. RecordFits(r)'
    BY <1>1, <1>5, <2>1, <2>3 DEF RecordFits
  <2> QED
    BY <1>1, <1>3, <1>5, <2>1, <2>4, HostGoesOn
<1> QED
  BY <1>4, <1>5

LEMMA UpdateWhole ==
    ASSUME DomainsInv, DomainsWhole, NEW c \in Callers, UpdateDomain(c)
    PROVE  DomainsWhole'
<1> SUFFICES ASSUME NEW h \in Hosts \ (Bare \cup tangled')
             PROVE  HostWhole(h)'
  BY DEF DomainsWhole
<1>0. PICK d : d = caller[c].id
  OBVIOUS
<1>1. DomainsInv' /\ OnlyCaller(c) /\ caller'[c].host = NoHost /\ UNCHANGED routed
  BY UpdateDomainStep DEF UpdateDomain
<1>2. /\ caller[c].step = "update" /\ caller[c].host \in Hosts /\ d \in DomainIds
      /\ (There(d) => domain[d].host = caller[c].host)
      /\ caller[c].copy.host = caller[c].host
      /\ caller[c].copy.status \notin {"absent", "deleted"}
  BY <1>0, CallerTyped DEF UpdateDomain, CallerKnows
<1>3. tangled \subseteq tangled'
  BY DEF UpdateDomain, Tangles
<1>4. HostWhole(h) /\ h \in Hosts
  BY <1>3, WholeBefore
<1>5. CASE caller[c].host # h
  <2>1. domain \in [DomainIds -> DomainRows]
    BY DEF DomainsInv, DomainsTypeOK
  <2>2. \A e \in DomainIds : domain'[e] = domain[e]
                             \/ (e = d /\ There(d) /\ domain'[e] = caller[c].copy)
    BY <1>0, <1>2, <2>1 DEF UpdateDomain
  <2>3. HostSame(h)
    BY <1>1, <1>2, <1>5, <2>2 DEF HostSame, Routed, There, HostFile
  <2> QED
    BY <1>1, <1>4, <1>5, <2>3, ElsewhereWhole, SilentRecord
<1>6. CASE caller[c].host = h
  <2>1. RecordFits(caller[c])
    BY <1>4, <1>6 DEF HostWhole
  <2>2. There(d) /\ (Routed(h) <=> caller[c].copy.file)
    BY <1>0, <1>2, <1>6, <2>1 DEF RecordFits
  <2>3. domain' = [domain EXCEPT ![d] = caller[c].copy]
    BY <1>0, <1>6, <2>2 DEF UpdateDomain, Tangles
  <2>4. domain'[d] = caller[c].copy
    BY <1>2, <2>3 DEF DomainsInv, DomainsTypeOK
  <2>5. There(d)' /\ domain'[d].host = h
    BY <1>2, <1>6, <2>4 DEF There
  <2>6. Rowed(h)' <=> caller[c].copy.file
    BY <1>1, <1>2, <2>4, <2>5, RowedByRowNext DEF DomainsInv
  <2>7. Routed(h)' <=> Rowed(h)'
    BY <1>1, <2>2, <2>6 DEF Routed, HostFile
  <2> QED
    BY <1>1, <1>4, <1>6, <2>7, OthersLeave, HostAtRest
<1> QED
  BY <1>5, <1>6

LEMMA RemoveRouteWhole ==
    ASSUME Distinct, DomainsInv, DomainsWhole, NEW c \in Callers, NEW d \in DomainIds,
           RemoveRoute(c, d)
    PROVE  DomainsWhole'
<1> SUFFICES ASSUME NEW h \in Hosts \ (Bare \cup tangled')
             PROVE  HostWhole(h)'
  BY DEF DomainsWhole
<1>1. /\ OnlyCaller(c) /\ caller'[c].step = "remove" /\ caller'[c].host = domain[d].host
      /\ caller'[c].id = d
  BY RemoveRouteStep
<1>2. /\ tangled \subseteq tangled' /\ caller[c] = Silent /\ UNCHANGED domain /\ There(d)
      /\ \/ /\ routed' = routed \ {HostFile(domain[d].host)}
            /\ Busy(domain[d].host) => domain[d].host \in tangled'
         \/ routed' = routed /\ domain[d].host \in tangled'
  BY DEF RemoveRoute, Tangles
<1>3. HostWhole(h) /\ h \in Hosts /\ caller[c].host = NoHost /\ NoHost \notin Hosts
  BY <1>2, WholeBefore, SilentRecord
<1>4. CASE domain[d].host # h
  <2>1. domain[d].host \in Hosts
    BY <1>2 DEF DomainsInv, OneRowPerHost
  <2>2. Routed(h)' <=> Routed(h)
    BY <1>2, <1>3, <1>4, <2>1, FilesApart DEF Routed, HostFile
  <2>3. HostSame(h)
    BY <1>2, <2>2 DEF HostSame, There
  <2> QED
    BY <1>1, <1>3, <1>4, <2>3, ElsewhereWhole
<1>5. CASE domain[d].host = h
  <2>1. ~Busy(h) /\ ~Routed(h)' /\ There(d)'
    BY <1>2, <1>5 DEF Routed, HostFile, There
  <2>2. PICK r : r = caller'[c]
    OBVIOUS
  <2>3. RecordFits(r)'
    BY <1>1, <1>5, <2>1, <2>2 DEF RecordFits
  <2> QED
    BY <1>1, <1>3, <1>5, <2>1, <2>2, <2>3, HostGoesOn
<1> QED
  BY <1>4, <1>5

LEMMA DeleteWhole ==
    ASSUME DomainsInv, DomainsWhole, NEW c \in Callers, DeleteDomain(c)
    PROVE  DomainsWhole'
<1> SUFFICES ASSUME NEW h \in Hosts \ (Bare \cup tangled')
             PROVE  HostWhole(h)'
  BY DEF DomainsWhole
<1>0. PICK d : d = caller[c].id
  OBVIOUS
<1>1. DomainsInv' /\ OnlyCaller(c) /\ caller'[c].host = NoHost /\ UNCHANGED <<routed, tangled>>
      /\ caller[c].step = "remove"
  BY DeleteDomainStep DEF DeleteDomain
<1>2. caller[c].host \in Hosts /\ d \in DomainIds /\ (There(d) => domain[d].host = caller[c].host)
  BY <1>0, <1>1, CallerTyped DEF CallerKnows
<1>3. HostWhole(h) /\ h \in Hosts /\ NoHost \notin Hosts
  BY <1>1, WholeBefore, SilentRecord
<1>4. /\ \A e \in DomainIds : There(e)' <=> (There(e) /\ e # d)
      /\ \A e \in DomainIds : There(e)' => domain'[e] = domain[e]
  <2>1. domain' = [e \in DomainIds |-> IF e \in {d} THEN Gone ELSE domain[e]]
    BY <1>0 DEF DeleteDomain, Gone, DomainsInv, DomainsTypeOK
  <2>2. TablesTyped
    BY DomainParts
  <2>3. \A e \in DomainIds : There(e)' <=> (There(e) /\ e \notin {d})
    BY <2>1, <2>2, GoneFollows
  <2> QED
    BY <2>1, <2>3
<1>5. CASE caller[c].host # h
  <2>1. HostSame(h)
    <3>1. Routed(h)' <=> Routed(h)
      BY <1>1 DEF Routed, HostFile
    <3>2. \A e \in DomainIds : There(e)' /\ domain'[e].host = h <=> There(e) /\ domain[e].host = h
      BY <1>2, <1>4, <1>5
    <3>3. \A e \in DomainIds : There(e) /\ domain[e].host = h => domain'[e] = domain[e]
      BY <1>2, <1>4, <1>5
    <3> QED
      BY <3>1, <3>2, <3>3 DEF HostSame
  <2> QED
    BY <1>1, <1>3, <1>5, <2>1, ElsewhereWhole
<1>6. CASE caller[c].host = h
  <2>1. RecordFits(caller[c])
    BY <1>3, <1>6 DEF HostWhole
  <2>2. There(d) /\ ~Routed(h)
    BY <1>0, <1>1, <1>6, <2>1 DEF RecordFits
  <2>3. \A e \in DomainIds : There(e) /\ domain[e].host = h => e = d
    BY <1>2, <1>6, <2>2 DEF DomainsInv, OneRowPerHost
  <2>4. ~Rowed(h)'
    BY <1>4, <2>3 DEF Rowed, FindByHostname
  <2>5. ~Routed(h)'
    BY <1>1, <2>2 DEF Routed, HostFile
  <2> QED
    BY <1>1, <1>3, <1>6, <2>4, <2>5, OthersLeave, HostAtRest
<1> QED
  BY <1>5, <1>6

LEMMA CreateWhole ==
    ASSUME DomainsInv, DomainsWhole, NEW g \in Hosts, CreateDomain(g)
    PROVE  DomainsWhole'
<1> SUFFICES ASSUME NEW h \in Hosts \ (Bare \cup tangled')
             PROVE  HostWhole(h)'
  BY DEF DomainsWhole
<1>0. PICK e : e = Lowest(NewDomain)
  OBVIOUS
<1>1. /\ e \in DomainIds /\ domain[e].status = "absent" /\ FindByHostname(g) = {}
      /\ UNCHANGED <<routed, caller>> /\ tangled \subseteq tangled'
      /\ (Busy(g) => g \in tangled')
  BY <1>0, NewAreFree DEF CreateDomain, Tangles
<1>2. /\ domain'[e].host = g /\ domain'[e].status = "pending" /\ ~domain'[e].file
      /\ \A d \in DomainIds \ {e} : domain'[d] = domain[d]
  <2> DEFINE row == [NoDomain EXCEPT !.status = "pending", !.host = g]
  <2>1. row.host = g /\ row.status = "pending" /\ ~row.file
    BY SilentRecord DEF DomainRows
  <2>2. domain' = [domain EXCEPT ![e] = row] /\ domain \in [DomainIds -> DomainRows]
    BY <1>0 DEF CreateDomain, DomainsInv, DomainsTypeOK
  <2> HIDE DEF row
  <2> QED
    BY <1>1, <2>1, <2>2
<1>3. HostWhole(h)
  BY <1>1, WholeBefore
<1>4. CASE g # h
  <2>1. HostSame(h)
    BY <1>1, <1>2, <1>4 DEF HostSame, Routed, There, HostFile
  <2> QED
    BY <1>1, <1>3, <2>1, HostStays
<1>5. CASE g = h
  <2>1. ~Busy(h) /\ ~Rowed(h) /\ ~Routed(h)
    BY <1>1, <1>3, <1>5 DEF HostWhole, Rowed
  <2>2. \A d \in DomainIds : There(d) => domain[d].host # h
    BY <1>1, <1>5 DEF FindByHostname
  <2>3. ~Rowed(h)'
    BY <1>1, <1>2, <2>2 DEF Rowed, FindByHostname, There
  <2>4. ~Routed(h)' /\ \A x \in Callers : caller'[x].host # h
    BY <1>1, <2>1 DEF Routed, HostFile, Busy
  <2> QED
    BY <2>3, <2>4, HostAtRest
<1> QED
  BY <1>4, <1>5

LEMMA ProvisionWhole ==
    ASSUME Distinct, DomainsInv, DomainsWhole, NEW c \in Callers, NEW g \in Hosts,
           NEW p \in Previews, ProvisionPreview(c, g, p)
    PROVE  DomainsWhole'
<1> SUFFICES ASSUME NEW h \in Hosts \ (Bare \cup tangled')
             PROVE  HostWhole(h)'
  BY DEF DomainsWhole
<1> DEFINE D == FindByDeployment(p)
<1>1. OnlyCaller(c) /\ caller'[c].step = "take" /\ caller'[c].host = g
  BY ProvisionStep
<1>2. /\ tangled \subseteq tangled' /\ caller[c] = Silent /\ DropDomains(D)
      /\ Meddles(D) \subseteq tangled' /\ (Busy(g) => g \in tangled')
  BY DEF ProvisionPreview, Tangles
<1>3. HostWhole(h) /\ h \in Hosts /\ caller[c].host = NoHost /\ NoHost \notin Hosts
  BY <1>2, WholeBefore, SilentRecord
<1>4. \/ HostSame(h)
      \/ ~Routed(h)' /\ ~Rowed(h)' /\ ~Busy(h)
  <2>1. D \subseteq {d \in DomainIds : There(d)}
    BY DEF FindByDeployment
  <2>2. (\E d \in D : domain[d].host = h) => ~Busy(h)
    BY <1>2 DEF Meddles
  <2> HIDE DEF D
  <2> QED
    BY <1>2, <2>1, <2>2, DropHosts
<1>5. CASE h = g
  <2>1. ~Busy(h)
    BY <1>2, <1>5
  <2>2. PICK r : r = caller'[c]
    OBVIOUS
  <2>3. Routed(h)' => Rowed(h)'
    BY <1>3, <1>4, <2>1, RowedStays DEF HostWhole
  <2>4. RecordFits(r)'
    BY <1>1, <1>5, <2>2, <2>3 DEF RecordFits
  <2> QED
    BY <1>1, <1>3, <1>5, <2>1, <2>2, <2>4, HostGoesOn
<1>6. CASE h # g /\ HostSame(h)
  BY <1>1, <1>3, <1>6, ElsewhereWhole
<1>7. CASE h # g /\ ~Routed(h)' /\ ~Rowed(h)' /\ ~Busy(h)
  <2>1. \A x \in Callers : caller'[x].host # h
    BY <1>1, <1>7 DEF OnlyCaller, Busy
  <2> QED
    BY <1>7, <2>1, HostAtRest
<1> QED
  BY <1>4, <1>5, <1>6, <1>7

LEMMA TakeWhole ==
    ASSUME Distinct, DomainsInv, DomainsWhole, NEW c \in Callers, TakeHostname(c)
    PROVE  DomainsWhole'
<1> SUFFICES ASSUME NEW h \in Hosts \ (Bare \cup tangled')
             PROVE  HostWhole(h)'
  BY DEF DomainsWhole
<1>0. PICK g : g = caller[c].host
  OBVIOUS
<1>1. OnlyCaller(c) /\ caller'[c].step = "insert" /\ caller'[c].host = g
  BY <1>0, TakeStep
<1>2. /\ UNCHANGED tangled /\ DropDomains(FindByHostname(g)) /\ caller[c].step = "take"
      /\ g \in Hosts
  BY <1>0, CallerTyped DEF TakeHostname, CallerKnows
<1>3. HostWhole(h) /\ h \in Hosts
  BY <1>2, WholeBefore
<1>4. FindByHostname(g) \subseteq {d \in DomainIds : There(d)}
      /\ \A d \in FindByHostname(g) : domain[d].host = g
  BY DEF FindByHostname
<1>5. CASE g # h
  <2>1. HostSame(h)
    BY <1>2, <1>3, <1>4, <1>5, DropHosts
  <2> QED
    BY <1>0, <1>1, <1>3, <1>5, <2>1, ElsewhereWhole
<1>6. CASE g = h
  <2>1. FindByHostname(h)' = {}
    <3>1. \A e \in DomainIds : There(e)' <=> (There(e) /\ e \notin FindByHostname(g))
      BY <1>2, DropEffects
    <3>2. \A e \in DomainIds : There(e)' => domain'[e] = domain[e]
      BY <1>2, DropEffects
    <3> QED
      BY <1>6, <3>1, <3>2 DEF FindByHostname
  <2>2. ~Routed(h)'
    <3>1. FindByHostname(h) # {} => HostFile(h) \notin routed'
      BY <1>2, <1>6 DEF DropDomains, FindByHostname, HostFile
    <3>2. FindByHostname(h) = {} => ~Routed(h)
      <4>1. RecordFits(caller[c])
        BY <1>0, <1>3, <1>6 DEF HostWhole
      <4>2. Routed(h) => Rowed(h)
        BY <1>0, <1>2, <1>6, <4>1 DEF RecordFits
      <4> QED
        BY <4>2 DEF Rowed
    <3>3. routed' \subseteq routed
      BY <1>2, DropEffects
    <3> QED
      BY <3>1, <3>2, <3>3 DEF Routed, HostFile
  <2>3. PICK r : r = caller'[c]
    OBVIOUS
  <2>4. RecordFits(r)'
    BY <1>1, <1>6, <2>1, <2>2, <2>3 DEF RecordFits
  <2> QED
    BY <1>0, <1>1, <1>3, <1>6, <2>3, <2>4, HostGoesOn
<1> QED
  BY <1>5, <1>6

LEMMA TeardownWhole ==
    ASSUME Distinct, DomainsInv, DomainsWhole, NEW p \in Previews, DeleteByDeployment(p)
    PROVE  DomainsWhole'
<1> SUFFICES ASSUME NEW h \in Hosts \ (Bare \cup tangled')
             PROVE  HostWhole(h)'
  BY DEF DomainsWhole
<1> DEFINE D == FindByDeployment(p)
<1>1. /\ tangled \subseteq tangled' /\ DropDomains(D) /\ Meddles(D) \subseteq tangled'
      /\ UNCHANGED caller
  BY DEF DeleteByDeployment, Tangles
<1>2. HostWhole(h) /\ h \in Hosts
  BY <1>1, WholeBefore
<1>3. \/ HostSame(h)
      \/ ~Routed(h)' /\ ~Rowed(h)' /\ ~Busy(h)
  <2>1. D \subseteq {d \in DomainIds : There(d)}
    BY DEF FindByDeployment
  <2>2. (\E d \in D : domain[d].host = h) => ~Busy(h)
    BY <1>1 DEF Meddles
  <2> HIDE DEF D
  <2> QED
    BY <1>1, <1>2, <2>1, <2>2, DropHosts
<1>4. CASE HostSame(h)
  BY <1>1, <1>2, <1>4, HostStays
<1>5. CASE ~Routed(h)' /\ ~Rowed(h)' /\ ~Busy(h)
  <2>1. \A x \in Callers : caller'[x].host # h
    BY <1>1, <1>5 DEF Busy
  <2> QED
    BY <1>5, <2>1, HostAtRest
<1> QED
  BY <1>3, <1>4, <1>5

LEMMA InsertPreviewWhole ==
    ASSUME DomainsInv, DomainsWhole, NEW c \in Callers, InsertPreview(c)
    PROVE  DomainsWhole'
<1> SUFFICES ASSUME NEW h \in Hosts \ (Bare \cup tangled')
             PROVE  HostWhole(h)'
  BY DEF DomainsWhole
<1>0. PICK e, g : e = Lowest(NewDomain) /\ g = caller[c].host
  OBVIOUS
<1>1. /\ OnlyCaller(c)
      /\ \/ /\ caller'[c].step = "serve" /\ caller'[c].host = g
            /\ caller'[c].id = e /\ FindByHostname(g) = {} /\ NewDomain # {}
         \/ caller'[c].host = NoHost /\ FindByHostname(g) # {} /\ UNCHANGED domain
  BY <1>0, InsertPreviewStep
<1>2. /\ UNCHANGED <<routed, tangled>> /\ caller[c].step = "insert" /\ g \in Hosts
      /\ caller[c].copy.host = g /\ ~caller[c].copy.file
      /\ caller[c].copy.status \notin {"absent", "deleted"}
  BY <1>0, CallerTyped DEF InsertPreview, CallerKnows
<1>3. HostWhole(h) /\ h \in Hosts /\ NoHost \notin Hosts
  BY <1>2, WholeBefore, SilentRecord
<1>4. CASE FindByHostname(g) # {} /\ UNCHANGED domain /\ caller'[c].host = NoHost
  <2>1. g # h
    BY <1>0, <1>2, <1>3, <1>4 DEF HostWhole, RecordFits
  <2>2. HostSame(h)
    BY <1>2, <1>4, UnchangedSame
  <2> QED
    BY <1>0, <1>1, <1>3, <1>4, <2>1, <2>2, ElsewhereWhole
<1>5. CASE /\ caller'[c].step = "serve" /\ caller'[c].host = g
           /\ caller'[c].id = e /\ FindByHostname(g) = {} /\ NewDomain # {}
  <2>1. e \in DomainIds /\ domain[e].status = "absent"
    BY <1>0, <1>5, NewAreFree
  <2>2. domain' = [domain EXCEPT ![e] = caller[c].copy]
    BY <1>0, <1>5 DEF InsertPreview
  <2>3. domain'[e] = caller[c].copy /\ \A d \in DomainIds \ {e} : domain'[d] = domain[d]
    BY <2>1, <2>2 DEF DomainsInv, DomainsTypeOK
  <2>4. CASE g # h
    <3>1. HostSame(h)
      BY <1>2, <2>1, <2>3, <2>4 DEF HostSame, Routed, There, HostFile
    <3> QED
      BY <1>0, <1>1, <1>3, <1>5, <2>4, <3>1, ElsewhereWhole
  <2>5. CASE g = h
    <3>1. ~Routed(h)
      BY <1>0, <1>2, <1>3, <2>5 DEF HostWhole, RecordFits
    <3>2. There(e)' /\ ~domain'[e].file /\ ~Routed(h)'
      BY <1>2, <2>3, <3>1 DEF There, Routed, HostFile
    <3>3. PICK r : r = caller'[c]
      OBVIOUS
    <3>4. RecordFits(r)'
      BY <1>5, <2>5, <3>2, <3>3 DEF RecordFits
    <3> QED
      BY <1>0, <1>1, <1>3, <1>5, <2>5, <3>3, <3>4, HostGoesOn
  <2> QED
    BY <2>4, <2>5
<1> QED
  BY <1>1, <1>4, <1>5

LEMMA ServeWhole ==
    ASSUME Distinct, DomainsInv, DomainsWhole, NEW c \in Callers, ServePreview(c)
    PROVE  DomainsWhole'
<1> SUFFICES ASSUME NEW h \in Hosts \ (Bare \cup tangled')
             PROVE  HostWhole(h)'
  BY DEF DomainsWhole
<1>0. PICK d, g : d = caller[c].id /\ g = caller[c].host
  OBVIOUS
<1>1. DomainsInv' /\ OnlyCaller(c) /\ caller'[c].host = NoHost /\ UNCHANGED tangled
      /\ caller[c].step = "serve"
  BY ServePreviewStep DEF ServePreview
<1>2. g \in Hosts /\ d \in DomainIds /\ (There(d) => domain[d].host = g)
  BY <1>0, <1>1, CallerTyped DEF CallerKnows
<1>3. HostWhole(h) /\ h \in Hosts /\ NoHost \notin Hosts
  BY <1>1, WholeBefore, SilentRecord
<1>4. \/ /\ routed' = routed \cup {HostFile(g)}
         /\ domain' = IF There(d) THEN [domain EXCEPT ![d].file = TRUE] ELSE domain
      \/ UNCHANGED <<domain, routed>>
  BY <1>0 DEF ServePreview
<1>5. /\ \A e \in DomainIds \ {d} : domain'[e] = domain[e]
      /\ domain'[d].host = domain[d].host /\ domain'[d].status = domain[d].status
      /\ ~There(d) => domain' = domain
  <2>1. domain \in [DomainIds -> DomainRows]
    BY DEF DomainsInv, DomainsTypeOK
  <2>2. CASE There(d) /\ domain' = [domain EXCEPT ![d].file = TRUE]
    <3> DEFINE q == [domain[d] EXCEPT !.file = TRUE]
    <3>1. q.host = domain[d].host /\ q.status = domain[d].status
      BY <1>2, <2>1 DEF DomainRows
    <3>2. domain' = [domain EXCEPT ![d] = q]
      BY <2>2
    <3> HIDE DEF q
    <3> QED
      BY <1>2, <2>1, <2>2, <3>1, <3>2
  <2>3. CASE domain' = domain
    BY <2>3
  <2> QED
    BY <1>4, <2>2, <2>3
<1>6. CASE g # h
  <2>1. Routed(h)' <=> Routed(h)
    BY <1>2, <1>3, <1>4, <1>6, FilesApart DEF Routed, HostFile
  <2>2. \A e \in DomainIds : There(e)' /\ domain'[e].host = h <=> There(e) /\ domain[e].host = h
    BY <1>2, <1>5 DEF There
  <2>3. \A e \in DomainIds : There(e) /\ domain[e].host = h => domain'[e] = domain[e]
    BY <1>2, <1>5, <1>6
  <2>4. HostSame(h)
    BY <2>1, <2>2, <2>3 DEF HostSame
  <2> QED
    BY <1>0, <1>1, <1>3, <1>6, <2>4, ElsewhereWhole
<1>7. CASE g = h
  <2>1. RecordFits(caller[c])
    BY <1>0, <1>3, <1>7 DEF HostWhole
  <2>2. There(d) /\ ~Routed(h) /\ ~domain[d].file
    BY <1>0, <1>1, <1>7, <2>1 DEF RecordFits
  <2>3. There(d)' /\ domain'[d].host = h
    BY <1>2, <1>5, <1>7, <2>2 DEF There
  <2>4. Rowed(h)' <=> domain'[d].file
    BY <1>1, <1>2, <2>3, RowedByRowNext DEF DomainsInv
  <2>5. Routed(h)' <=> domain'[d].file
    <3>1. CASE UNCHANGED <<domain, routed>>
      BY <2>2, <3>1 DEF Routed, HostFile
    <3>2. CASE routed' = routed \cup {HostFile(g)} /\ domain' = [domain EXCEPT ![d].file = TRUE]
      <4>1. domain'[d].file
        BY <1>2, <3>2 DEF DomainsInv, DomainsTypeOK, DomainRows
      <4> QED
        BY <1>7, <3>2, <4>1 DEF Routed, HostFile
    <3> QED
      BY <1>4, <2>2, <3>1, <3>2
  <2> QED
    BY <1>0, <1>1, <1>3, <1>7, <2>4, <2>5, OthersLeave, HostAtRest
<1> QED
  BY <1>6, <1>7

\* Certificates have nothing to do with it.
LEMMA CertsWhole ==
    ASSUME DomainsInv, DomainsWhole, NEW c \in Callers,
           \/ MarkRenewing(c) \/ ApplyRenew(c) \/ RenewScan(c)
           \/ \E k \in CertIds : Renew(c, k)
    PROVE  DomainsWhole'
<1> SUFFICES ASSUME NEW h \in Hosts \ (Bare \cup tangled')
             PROVE  HostWhole(h)'
  BY DEF DomainsWhole
<1>1. OnlyCaller(c) /\ caller'[c].host = NoHost
  BY MarkStep, ApplyStep, RenewScanStep, RenewStep
<1>2. caller[c].host = NoHost
  BY CertAtHand, SilentRecord DEF MarkRenewing, ApplyRenew, RenewScan, Renew
<1>3. UNCHANGED <<domain, routed, tangled>>
  BY DEF MarkRenewing, ApplyRenew, RenewScan, Renew
<1>4. HostWhole(h) /\ HostSame(h) /\ h # NoHost
  BY <1>3, WholeBefore, UnchangedSame, SilentRecord
<1> QED
  BY <1>1, <1>2, <1>4, ElsewhereWhole

LEMMA NothingWhole ==
    ASSUME DomainsInv, DomainsWhole, UNCHANGED <<domain, routed, caller, tangled>>
    PROVE  DomainsWhole'
<1> SUFFICES ASSUME NEW h \in Hosts \ (Bare \cup tangled')
             PROVE  HostWhole(h)'
  BY DEF DomainsWhole
<1> QED
  BY WholeBefore, UnchangedSame, HostStays

LEMMA CrashWhole ==
    ASSUME DomainsInv, DomainsWhole, CrashDomains
    PROVE  DomainsWhole'
<1> SUFFICES ASSUME NEW h \in Hosts \ (Bare \cup tangled')
             PROVE  HostWhole(h)'
  BY DEF DomainsWhole
<1>1. /\ UNCHANGED <<domain, routed>> /\ caller' = [c \in Callers |-> Silent]
      /\ tangled' = tangled \cup {caller[c].host : c \in {x \in Callers : caller[x].host # NoHost}}
  BY DEF CrashDomains, Tangles
<1>2. HostWhole(h) /\ HostSame(h) /\ h # NoHost
  BY <1>1, WholeBefore, UnchangedSame, SilentRecord
<1>3. ~Busy(h)
  BY <1>1, <1>2 DEF Busy
<1>4. \A x \in Callers : caller'[x].host # h
  BY <1>1, <1>2, SilentRecord
<1>5. Routed(h)' <=> Rowed(h)'
  BY <1>2, <1>3, RowedStays DEF HostWhole
<1> QED
  BY <1>4, <1>5, HostAtRest

LEMMA DomainsWholeInit == DomainsInit => DomainsWhole
<1> SUFFICES ASSUME DomainsInit, NEW h \in Hosts
             PROVE  HostWhole(h)
  BY DEF DomainsWhole
<1>1. (\A d \in DomainIds : ~There(d)) /\ routed = {} /\ \A c \in Callers : caller[c].host # h
  BY SilentRecord DEF DomainsInit, There
<1> QED
  BY <1>1 DEF HostWhole, Routed, Rowed, FindByHostname

LEMMA DomainsWholeStep ==
    ASSUME Distinct, DomainsInv, DomainsWhole, [DomainsNext]_domainVars
    PROVE  DomainsWhole'
<1>1. CASE UNCHANGED domainVars
  BY <1>1, NothingWhole DEF domainVars
<1>2. ASSUME NEW k \in CertIds, NearsEnd(k)
      PROVE  DomainsWhole'
  BY <1>2, NothingWhole DEF NearsEnd
<1>3. ASSUME NEW c \in Callers,
             \/ WriteRoute(c) \/ RequestCert(c) \/ IssueCert(c) \/ UpdateDomain(c) \/ DeleteDomain(c)
             \/ TakeHostname(c) \/ InsertPreview(c) \/ ServePreview(c)
      PROVE  DomainsWhole'
  BY <1>3, WriteRouteWhole, CertifyWhole, UpdateWhole, DeleteWhole, TakeWhole,
     InsertPreviewWhole, ServeWhole
<1> QED
  BY <1>1, <1>2, <1>3, CreateWhole, TeardownWhole, CertsWhole, VerifyWhole, RemoveRouteWhole,
     ProvisionWhole, CrashWhole DEF DomainsNext

\* Where sanitize gives two hostnames two files, a hostname without the dotless
\* special case is routed exactly when its row says so, whenever nobody is busy
\* with it and no overlap and no fault has ever hit it: every request puts both
\* halves in place, and takes both away.
THEOREM RoutesFollowRows ==
    ASSUME Distinct
    PROVE  DomainsSpec => []RoutesMatchDomains
<1>1. DomainsInv /\ DomainsWhole /\ [DomainsNext]_domainVars => DomainsWhole'
  BY DomainsWholeStep
<1>2. DomainsWhole => RoutesMatchDomains
  <2> SUFFICES ASSUME DomainsWhole, NEW h \in Hosts \ (Bare \cup tangled), ~Busy(h)
               PROVE  (HostFile(h) \in routed) = (\E d \in FindByHostname(h) : domain[d].file)
    BY DEF RoutesMatchDomains
  <2>1. HostFile(h) \in routed <=> \E d \in FindByHostname(h) : domain[d].file
    BY DEF DomainsWhole, HostWhole, Routed, Rowed
  <2> QED
    <3>1. CASE HostFile(h) \in routed
      BY <2>1, <3>1
    <3>2. CASE HostFile(h) \notin routed
      <4>1. (HostFile(h) \in routed) = FALSE
        BY <3>2
      <4>2. (\E d \in FindByHostname(h) : domain[d].file) = FALSE
        BY <2>1, <3>2
      <4> QED
        BY <4>1, <4>2
    <3> QED
      BY <3>1, <3>2
<1>3. DomainsInv /\ [DomainsNext]_domainVars => DomainsInv'
  BY DomainsStep
<1> QED
  BY <1>1, <1>2, <1>3, DomainsInitInv, DomainsWholeInit, PTL DEF DomainsSpec

=============================================================================
