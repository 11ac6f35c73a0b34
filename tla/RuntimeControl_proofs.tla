----------------------- MODULE RuntimeControl_proofs -----------------------
(***************************************************************************)
(* Theorems about RuntimeControl, for every number of deployments,         *)
(* instances and containers, every set of callers and every set of faults: *)
(* what holds although handlers take no lock and write back whole rows     *)
(* from what they have in memory.  The second half is about production     *)
(* while nobody but the deploy loop and teardowns starts and stops things. *)
(***************************************************************************)
EXTENDS RuntimeControl, FiniteSetTheorems, SequenceTheorems,
        WellFoundedInduction, TLAPS

-----------------------------------------------------------------------------
(* The invariant                                                           *)

\* The copies of rows that handlers and loops have in memory.
Held == {prev[c] : c \in CallerKinds} \cup {cur[c] : c \in CallerKinds}
        \cup listed \cup dying

\* A copy is of a row of the table, and says the same of what it is; only
\* what it says of how the instance fares may be out of date.
Faithful(x) == x.id # None => /\ x.id \in Present
                              /\ x.dep = row[x.id].dep
                              /\ x.policy = row[x.id].policy

\* A row that is there has its number, one that is not has none.
Numbered == \A i \in Instances :
               row[i].id = IF row[i].status = "absent" THEN None ELSE i

Copies ==
    /\ Numbered
    /\ \A x \in Held : Faithful(x)
    /\ \A x \in listed \cup dying : x.id # None /\ x.status # "absent"
    /\ \A c \in CallerKinds :
          /\ step[c] \in {"engine", "record"} => cur[c].id # None
          /\ step[c] = "record" => cur[c].status \in {"running", "failed"}
          /\ req[c].preview => req[c].dep # None

\* A start that has been let in finds a row to insert and a container to
\* start (the bounds MaxInstances and MaxStarts).
Inserting == {c \in Callers : step[c] \in {"retire", "insert"}}

Places ==
    /\ Cardinality(Inserting) <= Cardinality(Instances \ Present)
    /\ started + Cardinality(Starting) <= MaxStarts

IInv == TypeOK /\ Copies /\ Places

-----------------------------------------------------------------------------
(* Rows                                                                    *)

\* Marking a row stopped changes nothing else.
LEMMA StoppedRow ==
    ASSUME NEW x \in Row
    PROVE  /\ Stopped(x) \in Row /\ Stopped(x).id = x.id
           /\ Stopped(x).dep = x.dep /\ Stopped(x).policy = x.policy
           /\ Stopped(x).status = "stopped"
BY DEF Row, Stopped

\* Nor does setting its status.
LEMMA StatusRow ==
    ASSUME NEW x \in Row, NEW s \in {"desired", "running", "failed", "stopped"}
    PROVE  LET y == [x EXCEPT !.status = s] IN
           /\ y \in Row /\ y.id = x.id /\ y.dep = x.dep /\ y.policy = x.policy
           /\ y.status = s
BY DEF Row

\* The row of no instance, and the request of no caller.
LEMMA NoRows == NoRow \in Row /\ NoRow.id = None /\ NoRequest \in Requests
<1>1. NoName \in Names /\ 0 \in 0 .. MaxStarts
  BY RuntimeAssumption DEF Names, RuntimeAssumption
<1>2. NoRow \in Row /\ NoRow.id = None
  BY <1>1 DEF NoRow, Row
<1>3. NoRequest \in Requests
  BY DEF NoRequest, Request, Requests, StrategyKinds
<1>4. QED
  BY <1>2, <1>3

\* A new row is of the request's deployment and has its policy.
LEMMA NewRowType ==
    ASSUME NEW i \in Instances, NEW r \in Requests
    PROVE  /\ NewRow(i, r) \in Row /\ NewRow(i, r).id = i
           /\ NewRow(i, r).dep = r.dep /\ NewRow(i, r).policy = r.policy
           /\ NewRow(i, r).status = "desired"
<1>1. NoName \in Names /\ 0 \in 0 .. MaxStarts
  BY RuntimeAssumption DEF Names, RuntimeAssumption
<1>2. QED
  BY <1>1 DEF NewRow, Row, Requests

\* Its name is one of the names.
LEMMA ContainerNameType ==
    ASSUME NEW r \in Requests, NEW p, NEW i \in Instances,
           r.preview => r.dep # None
    PROVE  ContainerName(r, p, i) \in Names
BY DEF ContainerName, Names, Requests

\* What every write but an insert leaves alone.
Kept == /\ row' \in [Instances -> Row]
        /\ \A i \in Instances :
              /\ row'[i].id = row[i].id /\ row'[i].dep = row[i].dep
              /\ row'[i].policy = row[i].policy
              /\ row'[i].status = "absent" <=> row[i].status = "absent"

\* A faithful copy written back keeps every row what it was.
LEMMA SaveKeeps ==
    ASSUME row \in [Instances -> Row], Numbered,
           NEW x \in Row, Faithful(x), x.status # "absent", Save(x)
    PROVE  Kept
<1>1. x.id \in Instances \cup {None} /\ None \notin Instances
  BY DEF Row, None, Instances
<1>2. CASE x.id = None
  <2>1. row' = row
    BY <1>1, <1>2 DEF Save
  <2>2. QED
    BY <2>1 DEF Kept
<1>3. CASE x.id \in Instances
  <2>1. /\ x.id \in Present /\ x.dep = row[x.id].dep /\ x.policy = row[x.id].policy
        /\ row[x.id].id = x.id /\ row[x.id].status # "absent"
    BY <1>1, <1>3 DEF Faithful, Present, Numbered
  <2>2. row' = [row EXCEPT ![x.id] = x]
    BY DEF Save
  <2>3. QED
    BY <1>3, <2>1, <2>2 DEF Kept
<1>4. QED
  BY <1>1, <1>2, <1>3

\* Then faithful copies stay so.
LEMMA KeptFaithful ==
    ASSUME Kept
    PROVE  /\ Present' = Present
           /\ \A x : Faithful(x) => (x.id # None => /\ x.id \in Present'
                                                    /\ x.dep = row'[x.id].dep
                                                    /\ x.policy = row'[x.id].policy)
BY DEF Kept, Present, Faithful

-----------------------------------------------------------------------------
(* Choices                                                                 *)

\* A set of naturals that is not empty has a least element: the sets of the
\* numbers below its elements are finite, and inclusion is well-founded there.
LEMMA Least ==
    ASSUME NEW S \in SUBSET Nat, S # {}
    PROVE  \E x \in S : \A y \in S : x <= y
<1> DEFINE Below(n) == {m \in Nat : m < n}
           T == {Below(n) : n \in S}
           F == FiniteSubsetsOf(Nat)
<1>1. \A n \in Nat : Below(n) \in F
  <2> SUFFICES ASSUME NEW n \in Nat PROVE IsFiniteSet(Below(n))
    BY DEF FiniteSubsetsOf
  <2>1. Below(n) \in SUBSET Nat /\ \A m \in Below(n) : m <= n
    OBVIOUS
  <2>2. QED
    BY <2>1, FS_BoundedSetOfNaturals
<1>2. T \subseteq F /\ T # {}
  BY <1>1
<1>3. PICK b \in T : \A a \in T : <<a, b>> \notin StrictSubsetOrdering(Nat)
  BY <1>2, FS_StrictSubsetOrderingWellFounded, WFMin
<1>4. PICK x \in S : b = Below(x)
  BY <1>3
<1>5. ASSUME NEW y \in S PROVE x <= y
  <2> SUFFICES ASSUME y < x PROVE FALSE
    OBVIOUS
  <2>1. Below(y) \subseteq Below(x) /\ y \in Below(x) /\ y \notin Below(y)
    OBVIOUS
  <2>2. <<Below(y), b>> \in StrictSubsetOrdering(Nat)
    BY <1>4, <2>1 DEF StrictSubsetOrdering
  <2>3. QED
    BY <1>3, <2>2
<1>6. QED
  BY <1>5

\* The newest of some rows is one of them.
LEMMA NewestIsThere ==
    ASSUME NEW S \in SUBSET Row, S # {}
    PROVE  Newest(S) \in S
<1> DEFINE Age(x) == MaxInstances - x.id
           Ages == {Age(x) : x \in S}
<1>1. \A x \in S : x.id \in 0 .. MaxInstances /\ Age(x) \in Nat
  BY RuntimeAssumption DEF Row, Instances, None, RuntimeAssumption
<1>2. PICK a \in Ages : \A b \in Ages : a <= b
  <2>1. Ages \in SUBSET Nat /\ Ages # {}
    BY <1>1
  <2> HIDE DEF Ages
  <2>2. QED
    BY <2>1, Least
<1>3. PICK x \in S : a = Age(x)
  BY <1>2
<1>4. \A y \in S : Age(x) <= Age(y)
  BY <1>2, <1>3
<1>5. \A y \in S : y.id <= x.id
  BY <1>1, <1>4, RuntimeAssumption DEF RuntimeAssumption
<1>6. QED
  BY <1>5 DEF Newest

\* An insert takes an id that no row has.
LEMMA NextIdIsFree ==
    ASSUME Instances \ Present # {}
    PROVE  NextId \in Instances \ Present
<1>1. Instances \ Present \subseteq Nat
  BY DEF Instances
<1>2. \E i \in Instances \ Present : \A j \in Instances \ Present : i <= j
  BY <1>1, Least
<1>3. QED
  BY <1>2 DEF NextId

\* The active row is a row of the table, if there is one.
LEMMA ActiveRow ==
    ASSUME row \in [Instances -> Row], Numbered
    PROVE  FindActiveByProject \in Row /\ Faithful(FindActiveByProject)
<1> DEFINE active == {row[i] : i \in {j \in Present : /\ row[j].desired = "running"
                                                      /\ ~row[j].preview}}
<1>1. active \subseteq Row /\ \A x \in active : Faithful(x)
  BY DEF Present, Faithful, Numbered
<1>2. CASE active = {}
  BY <1>2, NoRows DEF FindActiveByProject, Faithful
<1>3. CASE active # {}
  <2>1. Newest(active) \in active
    BY <1>1, <1>3, NewestIsThere
  <2>2. FindActiveByProject = Newest(active)
    BY <1>3 DEF FindActiveByProject
  <2>3. QED
    BY <1>1, <2>1, <2>2
<1>4. QED
  BY <1>2, <1>3

-----------------------------------------------------------------------------
(* Places                                                                  *)

\* The counted sets are finite, and an insert needs no more than a start.
LEMMA Counts ==
    /\ IsFiniteSet(Starting) /\ IsFiniteSet(Inserting)
    /\ IsFiniteSet(Instances \ Present)
    /\ Cardinality(Starting) \in Nat /\ Cardinality(Inserting) \in Nat
    /\ Cardinality(Instances \ Present) \in Nat
    /\ Cardinality(Inserting) <= Cardinality(Starting)
<1>1. IsFiniteSet(Callers)
  <2>1. IsFiniteSet({}) /\ CallerKinds =
           (((({} \cup {"deploy"}) \cup {"health"}) \cup {"cron"})
              \cup {"teardown"}) \cup {"user"}
    BY FS_EmptySet DEF CallerKinds
  <2>2. IsFiniteSet(CallerKinds)
    BY <2>1, FS_AddElement
  <2>3. QED
    BY <2>2, FS_Subset, RuntimeAssumption DEF RuntimeAssumption
<1>2. IsFiniteSet(Instances)
  BY FS_Interval, RuntimeAssumption DEF Instances, RuntimeAssumption
<1>3. Starting \subseteq Callers /\ Inserting \subseteq Starting
      /\ Instances \ Present \subseteq Instances
  BY DEF Starting, Inserting
<1>4. QED
  BY <1>1, <1>2, <1>3, FS_Subset, FS_CardinalityType

\* Who has a place keeps it while nobody else is let in.
LEMMA PlacesKept ==
    ASSUME started \in Nat, Places,
           Starting' \subseteq Starting, Inserting' \subseteq Inserting,
           Present' = Present, started' = started
    PROVE  Places'
<1>1. /\ Cardinality(Starting') <= Cardinality(Starting)
      /\ Cardinality(Inserting') <= Cardinality(Inserting)
      /\ Cardinality(Starting') \in Nat /\ Cardinality(Inserting') \in Nat
  BY Counts, FS_Subset, FS_CardinalityType
<1>2. QED
  BY <1>1, Counts, RuntimeAssumption DEF Places, RuntimeAssumption

\* A start is let in only where there is room for it.
LEMMA PlacesTaken ==
    ASSUME started \in Nat, Places, NEW c,
           started + Cardinality(Starting) < MaxStarts,
           Cardinality(Starting) < Cardinality(Instances \ Present)
              \/ Inserting' \subseteq Inserting,
           Starting' \subseteq Starting \cup {c}, Inserting' \subseteq Starting',
           Present' = Present, started' = started
    PROVE  Places'
<1>1. /\ IsFiniteSet(Starting \cup {c})
      /\ Cardinality(Starting \cup {c}) <= Cardinality(Starting) + 1
  <2>1. IsFiniteSet(Starting) /\ Cardinality(Starting) \in Nat
    BY Counts
  <2>2. /\ IsFiniteSet(Starting \cup {c})
        /\ Cardinality(Starting \cup {c}) =
              IF c \in Starting THEN Cardinality(Starting) ELSE Cardinality(Starting) + 1
    BY <2>1, FS_AddElement
  <2>3. QED
    BY <2>1, <2>2
<1>2. /\ IsFiniteSet(Starting')
      /\ Cardinality(Starting') <= Cardinality(Starting \cup {c})
  BY <1>1, FS_Subset
<1>3. /\ Cardinality(Inserting') <= Cardinality(Starting')
      /\ Cardinality(Starting') \in Nat /\ Cardinality(Inserting') \in Nat
      /\ Cardinality(Starting \cup {c}) \in Nat
  BY <1>1, <1>2, FS_Subset, FS_CardinalityType
<1>4. Inserting' \subseteq Inserting
         => Cardinality(Inserting') <= Cardinality(Inserting)
  BY Counts, FS_Subset
<1>5. Cardinality(Inserting') <= Cardinality(Instances \ Present)
  BY <1>1, <1>2, <1>3, <1>4, Counts DEF Places
<1>6. started + Cardinality(Starting') <= MaxStarts
  BY <1>1, <1>2, <1>3, Counts, RuntimeAssumption DEF RuntimeAssumption
<1>7. QED
  BY <1>5, <1>6 DEF Places

\* An insert uses up one free row and one of the places counted for it.
LEMMA PlacesInserted ==
    ASSUME started \in Nat, Places, NEW i \in Instances \ Present,
           \/ Cardinality(Starting) < Cardinality(Instances \ Present)
              /\ Inserting' = Inserting
           \/ \E c \in Inserting : Inserting' = Inserting \ {c},
           Starting' = Starting,
           Present' = Present \cup {i}, started' = started
    PROVE  Places'
<1>1. Instances \ Present' = (Instances \ Present) \ {i}
  OBVIOUS
<1>2. Cardinality(Instances \ Present') = Cardinality(Instances \ Present) - 1
  <2>1. IsFiniteSet(Instances \ Present)
    BY Counts
  <2>2. Cardinality((Instances \ Present) \ {i}) = Cardinality(Instances \ Present) - 1
    BY <2>1, FS_RemoveElement
  <2>3. QED
    BY <1>1, <2>2
<1>3. Cardinality(Inserting') <= Cardinality(Instances \ Present) - 1
  <2>1. CASE /\ Cardinality(Starting) < Cardinality(Instances \ Present)
             /\ Inserting' = Inserting
    BY <2>1, Counts
  <2>2. ASSUME NEW c \in Inserting, Inserting' = Inserting \ {c}
        PROVE  Cardinality(Inserting') = Cardinality(Inserting) - 1
    BY <2>2, Counts, FS_RemoveElement
  <2>3. QED
    BY <2>1, <2>2, Counts DEF Places
<1>4. QED
  BY <1>2, <1>3 DEF Places

\* Starting a container uses up the place of whoever starts it.
LEMMA PlacesUsed ==
    ASSUME started \in Nat, Places, NEW c \in Starting, Starting' = Starting \ {c},
           Inserting' = Inserting, Present' = Present,
           started' \in {started, started + 1}
    PROVE  Places' /\ started' \in 0 .. MaxStarts
<1>1. Cardinality(Starting') = Cardinality(Starting) - 1 /\ Cardinality(Starting') \in Nat
  BY Counts, FS_RemoveElement, FS_CardinalityType
<1>2. QED
  BY <1>1, Counts, RuntimeAssumption DEF Places, RuntimeAssumption

-----------------------------------------------------------------------------
(* What a step must show                                                   *)

\* The variables of the calls.
CallTypes ==
    /\ step \in [CallerKinds -> {"idle", "retire", "insert", "engine",
                                 "record", "flip", "patch", "stopping"}]
    /\ req  \in [CallerKinds -> Requests]
    /\ prev \in [CallerKinds -> Row]
    /\ cur  \in [CallerKinds -> Row]

\* A call of c's copy by copy: c holds rows of the table, and who has an
\* engine call to make has a row to make it for.
SoundCall(c) ==
    /\ Faithful(prev[c]) /\ Faithful(cur[c])
    /\ step[c] \in {"engine", "record"} => cur[c].id # None
    /\ step[c] = "record" => cur[c].status \in {"running", "failed"}
    /\ req[c].preview => req[c].dep # None

SoundLoops == \A x \in listed \cup dying : Faithful(x) /\ x.id # None /\ x.status # "absent"

LEMMA CopiesParts ==
    Copies <=> /\ Numbered
               /\ \A c \in CallerKinds : SoundCall(c)
               /\ SoundLoops
BY DEF Copies, Held, SoundCall, SoundLoops

\* Nobody but c moves.
Only(c) == \A e \in CallerKinds \ {c} :
              /\ step'[e] = step[e] /\ req'[e] = req[e]
              /\ prev'[e] = prev[e] /\ cur'[e] = cur[e]

\* Where rows stay what they are, a step of c must show its own part only.
LEMMA CopiesStep ==
    ASSUME Copies, Kept, NEW c \in CallerKinds, Only(c),
           Faithful(prev'[c]), Faithful(cur'[c]),
           step'[c] \in {"engine", "record"} => cur'[c].id # None,
           step'[c] = "record" => cur'[c].status \in {"running", "failed"},
           req'[c].preview => req'[c].dep # None,
           \A x \in listed' \cup dying' :
              x \in listed \cup dying
              \/ (Faithful(x) /\ x.id # None /\ x.status # "absent")
    PROVE  Copies'
<1>1. /\ Numbered
      /\ \A e \in CallerKinds : SoundCall(e)
      /\ SoundLoops
  BY CopiesParts
<1>2. Present' = Present
      /\ \A x : Faithful(x) => (x.id # None => /\ x.id \in Present'
                                               /\ x.dep = row'[x.id].dep
                                               /\ x.policy = row'[x.id].policy)
  BY KeptFaithful
<1>3. Numbered'
  BY <1>1, <1>2 DEF Kept, Numbered
<1>4. \A e \in CallerKinds : SoundCall(e)'
  BY <1>1, <1>2 DEF SoundCall, Faithful, Only
<1>5. SoundLoops'
  BY <1>1, <1>2 DEF SoundLoops, Faithful
<1>6. QED
  BY <1>3, <1>4, <1>5 DEF Copies, Held, SoundCall, SoundLoops

\* A table that is left alone is kept.
LEMMA SameRows ==
    ASSUME TypeOK, row' = row
    PROVE  Kept /\ Present' = Present
BY DEF TypeOK, Kept, Present

\* The places that c's step takes or leaves.
LEMMA OnlyPlaces ==
    ASSUME NEW c \in CallerKinds, Only(c)
    PROVE  /\ Starting' \cup {c} = Starting \cup {c}
           /\ Inserting' \cup {c} = Inserting \cup {c}
BY RuntimeAssumption DEF Only, Starting, Inserting, RuntimeAssumption

-----------------------------------------------------------------------------
(* A call that starts                                                      *)

LEMMA StartCallSound ==
    ASSUME IInv, NEW c \in CallerKinds, NEW r \in Requests,
           r.preview => r.dep # None, StartCall(c, r), UNCHANGED <<row, started>>, dying' = dying,
           listed' \subseteq listed
    PROVE  CallTypes' /\ Copies' /\ Places'
<1> DEFINE p == IF r.preview THEN NoRow ELSE FindActiveByProject
<1>1. TypeOK /\ Copies /\ Places
  BY DEF IInv
<1>2. p \in Row /\ Faithful(p)
  <2>1. FindActiveByProject \in Row /\ Faithful(FindActiveByProject)
    BY <1>1, ActiveRow DEF TypeOK, Copies
  <2>2. QED
    BY <2>1, NoRows DEF Faithful
<1>3. /\ step[c] = "idle" /\ Room
      /\ req' = [req EXCEPT ![c] = r]
      /\ prev' = [prev EXCEPT ![c] = p]
      /\ \E s \in {"retire", "insert"} : step' = [step EXCEPT ![c] = s]
      /\ cur' = cur
  BY DEF StartCall
<1> HIDE DEF p
<1>4. CallTypes'
  BY <1>1, <1>2, <1>3 DEF TypeOK, CallTypes
<1>5. Only(c) /\ prev'[c] = p /\ cur'[c] = cur[c] /\ req'[c] = r
      /\ step'[c] \in {"retire", "insert"}
  BY <1>1, <1>3 DEF TypeOK, Only
<1>6. Copies'
  <2>1. Faithful(cur[c])
    BY <1>1 DEF Copies, Held
  <2>2. QED
    BY <1>1, <1>2, <1>5, <2>1, SameRows, CopiesStep
<1>7. Places'
  <2>1. started \in Nat /\ Present' = Present
    BY <1>1, SameRows DEF TypeOK
  <2>2. /\ started + Cardinality(Starting) < MaxStarts
        /\ Cardinality(Starting) < Cardinality(Instances \ Present)
    BY <1>3, <2>1, Counts, RuntimeAssumption DEF Room, RuntimeAssumption
  <2>3. Starting' \subseteq Starting \cup {c} /\ Inserting' \subseteq Starting'
    <3>1. Starting' \subseteq Starting \cup {c}
      BY <1>1, <1>5, OnlyPlaces
    <3>2. Inserting' \subseteq Starting'
      BY DEF Inserting, Starting
    <3>3. QED
      BY <3>1, <3>2
  <2>4. QED
    BY <1>1, <2>1, <2>2, <2>3, PlacesTaken
<1>8. QED
  BY <1>4, <1>6, <1>7

-----------------------------------------------------------------------------
(* The rest of the call                                                    *)

\* A return leaves no copies behind, and no place taken.
LEMMA DoneSound ==
    ASSUME IInv, NEW c \in CallerKinds, Done(c), Kept, started' = started,
           \A x \in listed' \cup dying' :
              x \in listed \cup dying
              \/ (Faithful(x) /\ x.id # None /\ x.status # "absent")
    PROVE  CallTypes' /\ Copies' /\ Places'
<1>1. TypeOK /\ Copies /\ Places /\ started \in Nat
  BY DEF IInv, TypeOK
<1>2. /\ step' = [step EXCEPT ![c] = "idle"] /\ req' = [req EXCEPT ![c] = NoRequest]
      /\ prev' = [prev EXCEPT ![c] = NoRow] /\ cur' = [cur EXCEPT ![c] = NoRow]
  BY DEF Done
<1>3. CallTypes'
  BY <1>1, <1>2, NoRows DEF TypeOK, CallTypes
<1>4. Only(c) /\ step'[c] = "idle" /\ prev'[c] = NoRow /\ cur'[c] = NoRow
      /\ req'[c] = NoRequest
  BY <1>1, <1>2 DEF TypeOK, Only
<1>5. Copies'
  <2>1. Faithful(NoRow) /\ ~NoRequest.preview
    BY NoRows DEF Faithful, NoRequest, Request
  <2>2. QED
    BY <1>1, <1>4, <2>1, CopiesStep
<1>6. Starting' \subseteq Starting /\ Inserting' \subseteq Inserting
  BY <1>4, RuntimeAssumption DEF Only, Starting, Inserting, RuntimeAssumption
<1>7. Places'
  BY <1>1, <1>6, KeptFaithful, PlacesKept
<1>8. QED
  BY <1>3, <1>5, <1>7

LEMMA RetireSound ==
    ASSUME IInv, NEW c \in Callers, Retire(c)
    PROVE  Kept /\ IInv'
<1>1. /\ c \in CallerKinds /\ TypeOK /\ Copies /\ Places
      /\ Numbered
      /\ prev[c] \in Row /\ Faithful(prev[c]) /\ row \in [Instances -> Row]
  BY RuntimeAssumption DEF IInv, RuntimeAssumption, TypeOK, Copies, Held
<1>2. /\ UNCHANGED <<world, started, health, dying>>
      /\ Save(Stopped(prev[c])) /\ EngineStop(prev[c])
  BY DEF Retire
<1>3. Kept
  <2>1. /\ Stopped(prev[c]) \in Row /\ Faithful(Stopped(prev[c]))
        /\ Stopped(prev[c]).status # "absent"
    BY <1>1, StoppedRow DEF Faithful
  <2>2. QED
    BY <1>1, <1>2, <2>1, SaveKeeps
<1>4. CallTypes' /\ Copies' /\ Places'
  <2>1. CASE step[c] = "flip" /\ Done(c)
    BY <1>1, <1>2, <1>3, <2>1, DoneSound DEF health
  <2>2. CASE step[c] = "retire"
    <3>1. /\ step' = [step EXCEPT ![c] = "insert"]
          /\ prev' = [prev EXCEPT ![c] = NoRow] /\ req' = req /\ cur' = cur
      BY <2>2 DEF Retire
    <3>2. CallTypes'
      BY <1>1, <3>1, NoRows DEF TypeOK, CallTypes
    <3>3. Only(c) /\ prev'[c] = NoRow /\ cur'[c] = cur[c] /\ req'[c] = req[c]
          /\ step'[c] = "insert"
      BY <1>1, <3>1 DEF TypeOK, Only
    <3>4. Copies'
      <4>1. Faithful(NoRow) /\ SoundCall(c)
        BY <1>1, NoRows, CopiesParts DEF Faithful
      <4>2. QED
        BY <1>1, <1>2, <1>3, <3>3, <4>1, CopiesStep DEF SoundCall, health
    <3>5. Starting' = Starting /\ Inserting' = Inserting
      BY <1>1, <2>2, <3>3, RuntimeAssumption
         DEF Only, Starting, Inserting, RuntimeAssumption
    <3>6. Places'
      BY <1>1, <1>2, <1>3, <3>5, KeptFaithful, PlacesKept DEF TypeOK
    <3>7. QED
      BY <3>2, <3>4, <3>6
  <2>3. QED
    BY <2>1, <2>2 DEF Retire
<1>5. TypeOK'
  <2>1. up' \subseteq up
    BY <1>2 DEF EngineStop
  <2>2. QED
    BY <1>1, <1>2, <1>3, <1>4, <2>1
       DEF TypeOK, CallTypes, Kept, world, health
<1>6. QED
  BY <1>3, <1>4, <1>5 DEF IInv

\* A row appears that has the request's deployment and policy.
Inserted(i, r) == row' = [row EXCEPT ![i] = NewRow(i, r)]

LEMMA InsertedRow ==
    ASSUME TypeOK, Copies, NEW i \in Instances \ Present, NEW r \in Requests,
           Inserted(i, r)
    PROVE  /\ row' \in [Instances -> Row]
           /\ Present' = Present \cup {i}
           /\ row'[i] = NewRow(i, r)
           /\ \A j \in Instances \ {i} : row'[j] = row[j]
           /\ Numbered'
           /\ \A x : Faithful(x) => (x.id # None => /\ x.id \in Present'
                                                    /\ x.dep = row'[x.id].dep
                                                    /\ x.policy = row'[x.id].policy)
<1>1. /\ row' \in [Instances -> Row] /\ row'[i] = NewRow(i, r)
      /\ \A j \in Instances \ {i} : row'[j] = row[j]
      /\ NewRow(i, r).status = "desired" /\ NewRow(i, r).id = i
  BY NewRowType DEF TypeOK, Inserted
<1>2. Present' = Present \cup {i}
  BY <1>1 DEF Present
<1>3. Numbered'
  BY <1>1, <1>2, NewRowType DEF Copies, Numbered, Instances, None
<1>4. QED
  BY <1>1, <1>2, <1>3 DEF Faithful, Present

LEMMA InsertSound ==
    ASSUME IInv, NEW c \in Callers, Insert(c)
    PROVE  /\ NextId \in Instances \ Present /\ Inserted(NextId, req[c])
           /\ IInv'
<1>1. /\ c \in CallerKinds /\ TypeOK /\ Copies /\ Places
      /\ req[c] \in Requests /\ started \in Nat
  BY RuntimeAssumption DEF IInv, RuntimeAssumption, TypeOK
<1>2. NextId \in Instances \ Present
  <2>1. c \in Inserting
    BY DEF Insert, Inserting
  <2>2. Cardinality(Inserting) # 0
    BY <2>1, Counts, FS_EmptySet
  <2>3. Cardinality(Instances \ Present) # 0
    BY <1>1, <2>2, Counts DEF Places
  <2>4. Instances \ Present # {}
    BY <2>3, FS_EmptySet
  <2>5. QED
    BY <2>4, NextIdIsFree
<1> DEFINE i == NextId
           n == NewRow(i, req[c])
           x == [n EXCEPT !.name = ContainerName(req[c], prev[c], i)]
<1>3. /\ Inserted(i, req[c])
      /\ cur' = [cur EXCEPT ![c] = x]
      /\ step' = [step EXCEPT ![c] = "engine"]
      /\ UNCHANGED <<world, up, started, req, prev, health, dying>>
  BY <1>2, NewRowType, <1>1 DEF Insert, Save, Inserted
<1>4. x \in Row /\ x.id = i /\ x.dep = n.dep /\ x.policy = n.policy
  <2>1. ContainerName(req[c], prev[c], i) \in Names
    BY <1>1, <1>2, ContainerNameType DEF Copies
  <2>2. n \in Row /\ n.id = i
    BY <1>1, <1>2, NewRowType
  <2> HIDE DEF n, i
  <2>3. QED
    BY <2>1, <2>2 DEF Row
<1> HIDE DEF i, x
<1>5. /\ row' \in [Instances -> Row] /\ Present' = Present \cup {i}
      /\ row'[i] = n
      /\ Numbered'
      /\ \A y : Faithful(y) => (y.id # None => /\ y.id \in Present'
                                               /\ y.dep = row'[y.id].dep
                                               /\ y.policy = row'[y.id].policy)
  BY <1>1, <1>2, <1>3, InsertedRow DEF i
<1> HIDE DEF n
<1>6. /\ Only(c) /\ cur'[c] = x /\ prev'[c] = prev[c] /\ req'[c] = req[c]
      /\ step'[c] = "engine"
  BY <1>1, <1>3 DEF TypeOK, Only
<1>7. Copies'
  <2>1. (\A e \in CallerKinds : SoundCall(e)) /\ SoundLoops
    BY <1>1, CopiesParts
  <2>2. \A e \in CallerKinds : SoundCall(e)'
    <3>1. x.id # None => x.id \in Present' /\ x.dep = row'[x.id].dep
                         /\ x.policy = row'[x.id].policy
      BY <1>4, <1>5
    <3>2. x.id # None
      BY <1>2, <1>4 DEF None, Instances, i
    <3>3. QED
      BY <1>5, <1>6, <2>1, <3>1, <3>2 DEF SoundCall, Faithful, Only
  <2>3. SoundLoops'
    BY <1>3, <1>5, <2>1 DEF SoundLoops, Faithful, health
  <2>4. QED
    BY <1>5, <2>2, <2>3 DEF Copies, Held, SoundCall, SoundLoops
<1>8. Places'
  <2>1. c \in Inserting /\ Inserting' = Inserting \ {c} /\ Starting' = Starting
    BY <1>1, <1>6 DEF Insert, Only, Inserting, Starting
  <2>2. i \in Instances \ Present /\ started' = started
    BY <1>2, <1>3 DEF i
  <2>3. QED
    BY <1>1, <1>5, <2>1, <2>2, PlacesInserted
<1>9. TypeOK'
  BY <1>1, <1>3, <1>4, <1>5 DEF TypeOK, world, health
<1>10. QED
  BY <1>2, <1>3, <1>7, <1>8, <1>9 DEF IInv, i

LEMMA StartContainerSound ==
    ASSUME IInv, NEW c \in Callers, StartContainer(c)
    PROVE  row' = row /\ IInv'
<1>1. /\ c \in CallerKinds /\ TypeOK /\ Copies /\ Places
      /\ cur[c] \in Row /\ started \in Nat
  BY RuntimeAssumption DEF IInv, RuntimeAssumption, TypeOK
<1>2. /\ step[c] = "engine" /\ step' = [step EXCEPT ![c] = "record"]
      /\ UNCHANGED <<world, row, req, prev, health, dying>>
  BY DEF StartContainer
<1>3. SoundCall(c) /\ cur[c].id \in Instances
  <2>1. SoundCall(c) /\ cur[c].id # None
    BY <1>1, <1>2, CopiesParts DEF SoundCall
  <2>2. QED
    BY <1>1, <2>1 DEF Row
<1>4. started' \in {started, started + 1}
  BY DEF StartContainer
<1>5. Places' /\ started' \in 0 .. MaxStarts
  <2>1. c \in Starting /\ Starting' = Starting \ {c} /\ Inserting' = Inserting
    BY <1>1, <1>2, RuntimeAssumption
       DEF TypeOK, Starting, Inserting, RuntimeAssumption
  <2>2. Present' = Present
    BY <1>2 DEF Present
  <2>3. QED
    BY <1>1, <1>4, <2>1, <2>2, PlacesUsed
<1>6. PICK y : /\ cur' = [cur EXCEPT ![c] = y]
               /\ y \in Row /\ y.id = cur[c].id /\ y.dep = cur[c].dep
               /\ y.policy = cur[c].policy /\ y.status \in {"running", "failed"}
               /\ \/ up' \subseteq up
                  \/ up' \subseteq up \cup {[cid |-> started', name |-> cur[c].name,
                                             inst |-> cur[c].id]}
                     /\ started' = started + 1
  <2>1. CASE started' = started + 1 /\
             up' = Others(cur[c].name) \cup
                   {[cid |-> started', name |-> cur[c].name, inst |-> cur[c].id]} /\
             cur' = [cur EXCEPT ![c].cid = started', ![c].status = "running",
                                ![c].desired = "running"]
    <3> DEFINE y == [cur[c] EXCEPT !.cid = started', !.status = "running",
                                   !.desired = "running"]
    <3>1. /\ y \in Row /\ y.id = cur[c].id /\ y.dep = cur[c].dep
          /\ y.policy = cur[c].policy /\ y.status = "running"
      BY <1>1, <1>5 DEF Row
    <3>2. cur' = [cur EXCEPT ![c] = y]
      BY <1>1, <2>1 DEF TypeOK
    <3>3. up' \subseteq up \cup {[cid |-> started', name |-> cur[c].name,
                                  inst |-> cur[c].id]}
      BY <2>1 DEF Others
    <3> HIDE DEF y
    <3>4. QED
      BY <2>1, <3>1, <3>2, <3>3
  <2>2. CASE /\ up' \in {up, Others(cur[c].name)}
             /\ cur' = [cur EXCEPT ![c].status = "failed"]
    <3> DEFINE y == [cur[c] EXCEPT !.status = "failed"]
    <3>1. /\ y \in Row /\ y.id = cur[c].id /\ y.dep = cur[c].dep
          /\ y.policy = cur[c].policy /\ y.status = "failed"
      BY <1>1, StatusRow
    <3>2. cur' = [cur EXCEPT ![c] = y]
      BY <1>1, <2>2 DEF TypeOK
    <3>3. up' \subseteq up
      BY <2>2 DEF Others
    <3> HIDE DEF y
    <3>4. QED
      BY <3>1, <3>2, <3>3
  <2>3. QED
    BY <2>1, <2>2 DEF StartContainer
<1>7. /\ Only(c) /\ cur'[c] = y /\ step'[c] = "record" /\ prev'[c] = prev[c]
      /\ req'[c] = req[c]
  BY <1>1, <1>2, <1>6 DEF TypeOK, Only
<1>8. Copies'
  <2>1. Faithful(y) /\ Faithful(prev[c]) /\ y.id # None
        /\ (req[c].preview => req[c].dep # None)
    BY <1>2, <1>3, <1>6 DEF SoundCall, Faithful
  <2>2. Kept /\ listed' = listed /\ dying' = dying
    BY <1>1, <1>2, SameRows DEF health
  <2>3. QED
    BY <1>1, <1>6, <1>7, <2>1, <2>2, CopiesStep
<1>9. TypeOK'
  <2>1. up' \in SUBSET [cid : 1 .. MaxStarts, name : Names, inst : Instances]
    <3>1. cur[c].name \in Names /\ (started' = started + 1 => started' \in 1 .. MaxStarts)
      BY <1>1, <1>5 DEF Row
    <3>2. QED
      BY <1>1, <1>3, <1>6, <3>1 DEF TypeOK
  <2>2. CallTypes'
    BY <1>1, <1>2, <1>6 DEF TypeOK, CallTypes
  <2>3. QED
    BY <1>1, <1>2, <1>5, <2>1, <2>2 DEF TypeOK, CallTypes, world, health
<1>10. QED
  BY <1>2, <1>5, <1>8, <1>9 DEF IInv

LEMMA RecordSound ==
    ASSUME IInv, NEW c \in Callers, Record(c)
    PROVE  Kept /\ IInv'
<1>1. /\ c \in CallerKinds /\ TypeOK /\ Copies /\ Places /\ started \in Nat
      /\ cur[c] \in Row /\ SoundCall(c)
      /\ row \in [Instances -> Row] /\ Numbered
  BY RuntimeAssumption, CopiesParts DEF IInv, RuntimeAssumption, TypeOK
<1>2. /\ step[c] = "record" /\ Save(cur[c])
      /\ UNCHANGED <<world, up, started, health, dying>>
  BY DEF Record
<1>3. Kept
  <2>1. Faithful(cur[c]) /\ cur[c].status # "absent"
    BY <1>1, <1>2 DEF SoundCall
  <2>2. QED
    BY <1>1, <1>2, <2>1, SaveKeeps
<1>4. CallTypes' /\ Copies' /\ Places'
  <2>1. CASE Done(c)
    BY <1>1, <1>2, <1>3, <2>1, DoneSound DEF health
  <2>2. CASE /\ step' = [step EXCEPT ![c] = "flip"]
             /\ UNCHANGED <<req, prev, cur>>
    <3>1. CallTypes'
      BY <1>1, <2>2 DEF TypeOK, CallTypes
    <3>2. Only(c) /\ prev'[c] = prev[c] /\ cur'[c] = cur[c] /\ req'[c] = req[c]
          /\ step'[c] = "flip"
      BY <1>1, <2>2 DEF TypeOK, Only
    <3>3. Copies'
      BY <1>1, <1>2, <1>3, <3>2, CopiesStep DEF SoundCall, health
    <3>4. Starting' = Starting /\ Inserting' = Inserting
      BY <1>1, <1>2, <3>2, RuntimeAssumption
         DEF Only, Starting, Inserting, RuntimeAssumption
    <3>5. Places'
      BY <1>1, <1>2, <1>3, <3>4, KeptFaithful, PlacesKept
    <3>6. QED
      BY <3>1, <3>3, <3>5
  <2>3. QED
    BY <2>1, <2>2 DEF Record
<1>5. TypeOK'
  BY <1>1, <1>2, <1>3, <1>4 DEF TypeOK, CallTypes, Kept, world, health
<1>6. QED
  BY <1>3, <1>4, <1>5 DEF IInv

-----------------------------------------------------------------------------
(* The callers                                                             *)

\* The request of an event is of a deployment that was announced.
LEMMA EventRequest ==
    ASSUME TypeOK, cursor < Len(log)
    PROVE  /\ cursor + 1 \in Deploys /\ cursor + 1 \in 1 .. Len(log)
           /\ NextEvent.preview \in BOOLEAN /\ NextEvent.strategy \in StrategyKinds
           /\ Request(cursor + 1, NextEvent.preview, NextEvent.strategy,
                      "on-failure") \in Requests
           /\ cursor + 1 # None
<1>1. /\ cursor \in Nat /\ Len(log) \in Nat /\ Len(log) <= MaxDeploys
      /\ log \in Seq([status : {"ready", "failed"}, preview : BOOLEAN,
                      strategy : StrategyKinds])
  BY DEF TypeOK
<1>2. cursor + 1 \in 1 .. Len(log) /\ cursor + 1 \in Deploys
  BY <1>1, RuntimeAssumption DEF Deploys, RuntimeAssumption
<1> DEFINE Event == [status : {"ready", "failed"}, preview : BOOLEAN,
                     strategy : StrategyKinds]
<1>3. NextEvent \in Event
  <2>1. log \in Seq(Event)
    BY <1>1
  <2> HIDE DEF Event
  <2>2. log[cursor + 1] \in Event
    BY <1>1, <1>2, <2>1
  <2>3. QED
    BY <2>2 DEF NextEvent
<1>4. QED
  BY <1>1, <1>2, <1>3 DEF Request, Requests, None

LEMMA DeployLoopSound ==
    ASSUME IInv, DeployLoop
    PROVE  row' = row /\ IInv'
<1>1. TypeOK
  BY DEF IInv
<1>2. CASE StartFromEvent
  <2>1. /\ CallTypes' /\ Copies' /\ Places'
    <3> DEFINE r == Request(cursor + 1, NextEvent.preview, NextEvent.strategy,
                            "on-failure")
    <3>1. "deploy" \in CallerKinds /\ StartCall("deploy", r) /\ cursor < Len(log)
          /\ UNCHANGED <<row, started>> /\ dying' = dying /\ listed' \subseteq listed
      BY <1>2 DEF StartFromEvent, health, CallerKinds
    <3>2. r \in Requests /\ (r.preview => r.dep # None)
      BY <1>1, <3>1, EventRequest DEF Request
    <3> HIDE DEF r
    <3>3. QED
      BY <3>1, <3>2, StartCallSound
  <2>2. TypeOK'
    <3>1. cursor' \in 0 .. Len(log)
      BY <1>1, <1>2 DEF TypeOK, StartFromEvent
    <3>2. QED
      BY <1>1, <1>2, <2>1, <3>1 DEF TypeOK, CallTypes, StartFromEvent, health
  <2>3. QED
    BY <1>2, <2>1, <2>2 DEF IInv, StartFromEvent
<1>3. CASE SkipEvent
  <2>1. cursor' \in 0 .. Len(log)
    BY <1>1, <1>3 DEF TypeOK, SkipEvent
  <2>2. TypeOK'
    BY <1>1, <1>3, <2>1 DEF TypeOK, SkipEvent, calls, health
  <2>3. Copies' /\ Places'
    BY <1>3 DEF SkipEvent, calls, health, IInv, Copies, Numbered, Held, Faithful, Present,
                Places, Inserting, Starting
  <2>4. QED
    BY <1>3, <2>2, <2>3 DEF IInv, SkipEvent
<1>4. QED
  BY <1>2, <1>3 DEF DeployLoop

LEMMA AnnounceSound ==
    ASSUME IInv, NEW s \in {"ready", "failed"}, NEW p \in BOOLEAN,
           NEW t \in StrategyKinds, Announce(s, p, t)
    PROVE  row' = row /\ IInv'
<1> DEFINE e == [status |-> s, preview |-> p, strategy |-> t]
           Event == [status : {"ready", "failed"}, preview : BOOLEAN,
                     strategy : StrategyKinds]
<1>1. TypeOK /\ log \in Seq(Event) /\ e \in Event
  BY DEF IInv, TypeOK
<1>2. /\ log' = Append(log, e) /\ Len(log) < MaxDeploys
      /\ UNCHANGED <<cursor, crons, uses, row, up, started, calls, health, dying>>
  BY DEF Announce
<1> HIDE DEF e, Event
<1>3. log' \in Seq(Event) /\ Len(log') = Len(log) + 1 /\ Len(log) \in Nat
  BY <1>1, <1>2
<1>4. cursor' \in 0 .. Len(log') /\ Len(log') <= MaxDeploys
  BY <1>1, <1>2, <1>3, RuntimeAssumption DEF TypeOK, RuntimeAssumption
<1>5. TypeOK'
  BY <1>1, <1>2, <1>3, <1>4 DEF TypeOK, calls, health, Event
<1>6. Copies' /\ Places'
  BY <1>2 DEF calls, health, IInv, Copies, Numbered, Held, Faithful, Present, Places,
              Inserting, Starting
<1>7. QED
  BY <1>2, <1>5, <1>6 DEF IInv

LEMMA CronSound ==
    ASSUME IInv, StartCronJob
    PROVE  row' = row /\ IInv'
<1> DEFINE r == Request(None, FALSE, "rolling", "never")
<1>1. /\ TypeOK /\ "cron" \in CallerKinds /\ StartCall("cron", r)
      /\ crons' = crons + 1 /\ crons + uses < MaxRequests
      /\ UNCHANGED <<log, cursor, uses, row, up, started, health, dying>>
  BY DEF IInv, StartCronJob, CallerKinds
<1>2. r \in Requests /\ ~r.preview
  BY DEF Request, Requests, StrategyKinds
<1> HIDE DEF r
<1>3. CallTypes' /\ Copies' /\ Places'
  BY <1>1, <1>2, StartCallSound DEF health
<1>4. crons' \in 0 .. MaxRequests
  BY <1>1, RuntimeAssumption DEF TypeOK, RuntimeAssumption
<1>5. TypeOK'
  BY <1>1, <1>3, <1>4 DEF TypeOK, CallTypes, health
<1>6. QED
  BY <1>1, <1>3, <1>5 DEF IInv

\* The health loop writes back what it read, with the status it reports.
LEMMA HealthSound ==
    ASSUME IInv, HealthLoop
    PROVE  Kept /\ IInv'
<1>1. /\ TypeOK /\ Copies /\ Places /\ started \in Nat /\ "health" \in CallerKinds
      /\ row \in [Instances -> Row] /\ Numbered
      /\ SoundLoops /\ SoundCall("health") /\ listed \subseteq Row
  BY CopiesParts DEF IInv, TypeOK, Copies, CallerKinds
<1>2. CASE ListDesired
  <2>1. /\ listed' \subseteq {row[i] : i \in Present}
        /\ UNCHANGED <<world, row, up, started, calls, checking, report, dying>>
    BY <1>2 DEF ListDesired
  <2>2. listed' \subseteq Row
        /\ \A x \in listed' : Faithful(x) /\ x.id # None /\ x.status # "absent"
    BY <1>1, <2>1 DEF Present, Faithful, Numbered, Instances, None
  <2>3. Kept /\ Only("health") /\ Present' = Present
    BY <1>1, <2>1, SameRows DEF Only, calls
  <2>4. Copies'
    BY <1>1, <2>1, <2>2, <2>3, CopiesStep DEF SoundCall, calls
  <2>5. Places'
    BY <1>1, <2>1 DEF Places, Inserting, Starting, Present, calls
  <2>6. TypeOK'
    BY <1>1, <2>1, <2>2 DEF TypeOK, world, calls
  <2>7. QED
    BY <2>3, <2>4, <2>5, <2>6 DEF IInv
<1>3. ASSUME NEW x \in listed, Restart(x)
      PROVE  Kept /\ IInv'
  <2> DEFINE r == Request(x.dep, FALSE, "rolling", x.policy)
  <2>1. /\ StartCall("health", r)
        /\ listed' = listed \ {x} /\ checking' = x.id /\ report' = "running"
        /\ UNCHANGED <<world, row, up, started, dying>>
    BY <1>3 DEF Restart
  <2>2. x \in Row /\ x.id \in Instances /\ r \in Requests /\ ~r.preview
    BY <1>1 DEF SoundLoops, Row, Request, Requests, StrategyKinds
  <2> HIDE DEF r
  <2>3. CallTypes' /\ Copies' /\ Places'
    <3>1. listed' \subseteq listed /\ dying' = dying /\ UNCHANGED <<row, started>>
      BY <2>1
    <3>2. QED
      BY <1>1, <2>1, <2>2, <3>1, StartCallSound
  <2>4. TypeOK'
    BY <1>1, <2>1, <2>2, <2>3 DEF TypeOK, CallTypes, world
  <2>5. QED
    BY <1>1, <2>1, <2>3, <2>4, SameRows DEF IInv
<1>4. ASSUME NEW x \in listed, Confirm(x)
      PROVE  Kept /\ IInv'
  <2>1. /\ listed' = listed \ {x} /\ checking' = x.id /\ report' = x.status
        /\ UNCHANGED <<world, row, up, started, calls, dying>>
    BY <1>4 DEF Confirm
  <2>2. x.id \in Instances /\ x.status \in {"running", "failed", "desired", "stopped"}
    BY <1>1 DEF SoundLoops, Row
  <2>3. Kept /\ Only("health") /\ Present' = Present
    BY <1>1, <2>1, SameRows DEF Only, calls
  <2>4. Copies'
    BY <1>1, <2>1, <2>3, CopiesStep DEF SoundCall, calls
  <2>5. Places'
    BY <1>1, <2>1 DEF Places, Inserting, Starting, Present, calls
  <2>6. TypeOK'
    BY <1>1, <2>1, <2>2 DEF TypeOK, world, calls
  <2>7. QED
    BY <2>3, <2>4, <2>5, <2>6 DEF IInv
<1>5. CASE ReadForPatch
  <2>1. /\ step["health"] = "idle" /\ checking \in Instances
        /\ cur' = [cur EXCEPT !["health"] = row[checking]]
        /\ step' = [step EXCEPT !["health"] = "patch"]
        /\ UNCHANGED <<world, row, up, started, req, prev, health, dying>>
    BY <1>1, <1>5 DEF ReadForPatch, TypeOK
  <2>2. row[checking] \in Row /\ Faithful(row[checking])
    BY <1>1, <2>1 DEF Faithful, Present, Numbered
  <2>3. Kept /\ Only("health") /\ Present' = Present /\ cur'["health"] = row[checking]
        /\ step'["health"] = "patch" /\ prev'["health"] = prev["health"]
        /\ req'["health"] = req["health"]
    BY <1>1, <2>1, SameRows DEF Only, TypeOK
  <2>4. Copies'
    BY <1>1, <2>1, <2>2, <2>3, CopiesStep DEF SoundCall, health
  <2>5. Starting' = Starting /\ Inserting' = Inserting
    BY <2>1, <2>3, RuntimeAssumption
       DEF Only, Starting, Inserting, RuntimeAssumption
  <2>6. Places'
    BY <1>1, <2>1, <2>3, <2>5, PlacesKept
  <2>7. TypeOK'
    BY <1>1, <2>1, <2>2 DEF TypeOK, world, health
  <2>8. QED
    BY <2>3, <2>4, <2>6, <2>7 DEF IInv
<1>6. CASE Patch
  <2> DEFINE y == [cur["health"] EXCEPT !.status = report]
  <2>1. /\ Save(y) /\ Done("health") /\ checking' = None /\ report' = "running"
        /\ UNCHANGED <<world, up, started, listed, dying>>
    BY <1>6 DEF Patch
  <2>2. y \in Row /\ Faithful(y) /\ y.status # "absent"
    <3>1. cur["health"] \in Row /\ report \in {"desired", "running", "failed", "stopped"}
      BY <1>1 DEF TypeOK
    <3>2. y \in Row /\ y.id = cur["health"].id /\ y.dep = cur["health"].dep
          /\ y.policy = cur["health"].policy /\ y.status = report
      BY <3>1, StatusRow
    <3>3. QED
      BY <1>1, <3>1, <3>2 DEF SoundCall, Faithful
  <2> HIDE DEF y
  <2>3. Kept
    BY <1>1, <2>1, <2>2, SaveKeeps
  <2>4. CallTypes' /\ Copies' /\ Places'
    BY <1>1, <2>1, <2>3, DoneSound
  <2>5. TypeOK'
    BY <1>1, <2>1, <2>3, <2>4 DEF TypeOK, CallTypes, Kept, world
  <2>6. QED
    BY <2>3, <2>4, <2>5 DEF IInv
<1>7. QED
  BY <1>2, <1>3, <1>4, <1>5, <1>6 DEF HealthLoop

\* A teardown stops what it listed.
LEMMA TeardownSound ==
    ASSUME IInv, Teardown
    PROVE  Kept /\ IInv'
<1>1. /\ TypeOK /\ Copies /\ Places /\ started \in Nat /\ "teardown" \in CallerKinds
      /\ row \in [Instances -> Row] /\ Numbered
      /\ SoundLoops /\ SoundCall("teardown") /\ dying \subseteq Row
  BY CopiesParts DEF IInv, TypeOK, Copies, CallerKinds
<1>2. ASSUME NEW d \in Deploys, FindByDeploymentID(d)
      PROVE  Kept /\ IInv'
  <2>1. /\ dying' \subseteq {row[i] : i \in Present}
        /\ UNCHANGED <<log, cursor, crons, uses, row, up, started, calls, health>>
    BY <1>2 DEF FindByDeploymentID
  <2>2. dying' \subseteq Row
        /\ \A x \in dying' : Faithful(x) /\ x.id # None /\ x.status # "absent"
    BY <1>1, <2>1 DEF Present, Faithful, Numbered, Instances, None
  <2>3. Kept /\ Only("teardown") /\ Present' = Present
    BY <1>1, <2>1, SameRows DEF Only, calls
  <2>4. Copies'
    BY <1>1, <2>1, <2>2, <2>3, CopiesStep DEF SoundCall, calls, health
  <2>5. Places'
    BY <1>1, <2>1 DEF Places, Inserting, Starting, Present, calls
  <2>6. TypeOK'
    BY <1>1, <2>1, <2>2 DEF TypeOK, calls, health
  <2>7. QED
    BY <2>3, <2>4, <2>5, <2>6 DEF IInv
<1>3. CASE StopByDeployment
  <2> DEFINE x == Newest(dying)
  <2>1. /\ dying # {} /\ EngineStop(x) /\ Save(Stopped(x)) /\ dying' = dying \ {x}
        /\ UNCHANGED <<world, started, calls, health>>
    BY <1>3 DEF StopByDeployment
  <2>2. x \in dying
    BY <1>1, <2>1, NewestIsThere
  <2> HIDE DEF x
  <2>3. /\ Stopped(x) \in Row /\ Faithful(Stopped(x)) /\ Stopped(x).status # "absent"
    BY <1>1, <2>2, StoppedRow DEF SoundLoops, Faithful
  <2>4. Kept /\ Present' = Present
    BY <1>1, <2>1, <2>3, SaveKeeps, KeptFaithful
  <2>5. Copies'
    BY <1>1, <2>1, <2>4, CopiesStep DEF SoundCall, Only, calls, health
  <2>6. Places'
    BY <1>1, <2>1, <2>4 DEF Places, Inserting, Starting, calls
  <2>7. TypeOK'
    BY <1>1, <2>1, <2>4 DEF TypeOK, Kept, EngineStop, world, calls, health
  <2>8. QED
    BY <2>4, <2>5, <2>6, <2>7 DEF IInv
<1>4. QED
  BY <1>2, <1>3 DEF Teardown

\* A user's row starts out stopped or is brought back as it was found.
LEMMA UserCreateSound ==
    ASSUME IInv, UserCreate
    PROVE  row' = row /\ IInv'
<1>1. /\ TypeOK /\ Copies /\ Places /\ started \in Nat /\ "user" \in CallerKinds
      /\ SoundCall("user") /\ Kept /\ Present' = Present /\ row' = row
  BY CopiesParts, SameRows DEF IInv, TypeOK, CallerKinds, UserCreate
<1>2. /\ Room /\ step' = [step EXCEPT !["user"] = "insert"]
      /\ crons + uses < MaxRequests /\ uses' = uses + 1
      /\ UNCHANGED <<log, cursor, crons, row, up, started, req, prev, cur,
                     health, dying>>
  BY DEF UserCreate, UserRequest
<1>3. Only("user") /\ step'["user"] = "insert"
  BY <1>1, <1>2 DEF TypeOK, Only
<1>4. Copies'
  BY <1>1, <1>2, <1>3, CopiesStep DEF SoundCall, health
<1>5. Places'
  <2>1. /\ started + Cardinality(Starting) < MaxStarts
        /\ Cardinality(Starting) < Cardinality(Instances \ Present)
    BY <1>1, <1>2, Counts, RuntimeAssumption DEF Room, RuntimeAssumption
  <2>2. Starting' \subseteq Starting \cup {"user"} /\ Inserting' \subseteq Starting'
    BY <1>1, <1>3, OnlyPlaces DEF Inserting, Starting
  <2>3. QED
    BY <1>1, <1>2, <2>1, <2>2, PlacesTaken
<1>6. TypeOK'
  BY <1>1, <1>2, RuntimeAssumption DEF TypeOK, RuntimeAssumption, health
<1>7. QED
  BY <1>1, <1>4, <1>5, <1>6 DEF IInv

LEMMA UserCreateStoppedSound ==
    ASSUME IInv, UserCreateStopped
    PROVE  /\ NextId \in Instances \ Present /\ Inserted(NextId, NoRequest)
           /\ UNCHANGED calls /\ IInv'
<1>1. /\ TypeOK /\ Copies /\ Places /\ started \in Nat
  BY DEF IInv, TypeOK
<1>2. /\ Room /\ Save(NewRow(NextId, NoRequest))
      /\ crons + uses < MaxRequests /\ uses' = uses + 1
      /\ UNCHANGED <<log, cursor, crons, up, started, calls, health, dying>>
  BY DEF UserCreateStopped, UserRequest
<1>3. Cardinality(Starting) < Cardinality(Instances \ Present)
  BY <1>2, Counts DEF Room
<1>4. NextId \in Instances \ Present
  <2>1. Cardinality(Instances \ Present) # 0
    BY <1>3, Counts
  <2>2. QED
    BY <2>1, FS_EmptySet, NextIdIsFree
<1> DEFINE i == NextId
<1>5. Inserted(i, NoRequest)
  BY <1>2, <1>4, NoRows, NewRowType DEF Save, Inserted
<1> HIDE DEF i
<1>6. /\ row' \in [Instances -> Row] /\ Present' = Present \cup {i} /\ Numbered'
      /\ \A y : Faithful(y) => (y.id # None => /\ y.id \in Present'
                                               /\ y.dep = row'[y.id].dep
                                               /\ y.policy = row'[y.id].policy)
  BY <1>1, <1>4, <1>5, NoRows, InsertedRow DEF i
<1>7. Copies'
  <2>1. (\A e \in CallerKinds : SoundCall(e)) /\ SoundLoops
    BY <1>1, CopiesParts
  <2>2. \A e \in CallerKinds : SoundCall(e)'
    BY <1>2, <1>6, <2>1 DEF SoundCall, Faithful, calls
  <2>3. SoundLoops'
    BY <1>2, <1>6, <2>1 DEF SoundLoops, Faithful, health
  <2>4. QED
    BY <1>6, <2>2, <2>3 DEF Copies, Held, SoundCall, SoundLoops
<1>8. Places'
  <2>1. Inserting' = Inserting /\ Starting' = Starting /\ started' = started
    BY <1>2 DEF Inserting, Starting, calls
  <2>2. i \in Instances \ Present
    BY <1>4 DEF i
  <2>3. QED
    BY <1>1, <1>3, <1>6, <2>1, <2>2, PlacesInserted
<1>9. TypeOK'
  BY <1>1, <1>2, <1>6, RuntimeAssumption
     DEF TypeOK, RuntimeAssumption, calls, health
<1>10. QED
  BY <1>2, <1>4, <1>5, <1>7, <1>8, <1>9 DEF IInv, i

LEMMA UserStartSound ==
    ASSUME IInv, NEW i \in Instances, UserStart(i)
    PROVE  row' = row /\ IInv'
<1>1. /\ TypeOK /\ Copies /\ Places /\ started \in Nat /\ "user" \in CallerKinds
      /\ SoundCall("user") /\ Kept /\ Present' = Present /\ row' = row
  BY CopiesParts, SameRows DEF IInv, TypeOK, CallerKinds, UserStart
<1> DEFINE n == IF row[i].name = NoName THEN <<"own", i>> ELSE row[i].name
           x == [row[i] EXCEPT !.desired = "running", !.name = n]
<1>2. x \in Row /\ x.id = row[i].id /\ x.dep = row[i].dep /\ x.policy = row[i].policy
  <2>1. row[i] \in Row /\ n \in Names
    BY <1>1 DEF TypeOK, Row, Names
  <2> HIDE DEF n
  <2>2. QED
    BY <2>1 DEF Row
<1>3. /\ i \in Present /\ cur' = [cur EXCEPT !["user"] = x]
      /\ step' = [step EXCEPT !["user"] = "engine"]
      /\ started + Cardinality(Starting) < MaxStarts
      /\ crons + uses < MaxRequests /\ uses' = uses + 1
      /\ UNCHANGED <<log, cursor, crons, row, up, started, req, prev,
                     health, dying>>
      /\ step["user"] = "idle"
  BY <1>1 DEF UserStart, UserRequest, TypeOK, Row
<1> HIDE DEF x
<1>4. x.id = i /\ i # None /\ Faithful(x)
  BY <1>1, <1>2, <1>3 DEF Copies, Numbered, Faithful, Present, Instances, None
<1>5. /\ Only("user") /\ step'["user"] = "engine" /\ cur'["user"] = x
      /\ prev'["user"] = prev["user"] /\ req'["user"] = req["user"]
  BY <1>1, <1>3 DEF TypeOK, Only
<1>6. Copies'
  BY <1>1, <1>3, <1>4, <1>5, CopiesStep DEF SoundCall, health
<1>7. Places'
  <2>1. Starting' \subseteq Starting \cup {"user"} /\ Inserting' \subseteq Starting'
    BY <1>1, <1>5, OnlyPlaces DEF Inserting, Starting
  <2>2. Inserting' \subseteq Inserting
    BY <1>5, RuntimeAssumption DEF Only, Inserting, RuntimeAssumption
  <2>3. QED
    BY <1>1, <1>3, <2>1, <2>2, PlacesTaken
<1>8. TypeOK'
  BY <1>1, <1>2, <1>3, RuntimeAssumption DEF TypeOK, RuntimeAssumption, health
<1>9. QED
  BY <1>1, <1>6, <1>7, <1>8 DEF IInv

LEMMA UserStopSound ==
    ASSUME IInv, NEW i \in Instances, UserStop(i)
    PROVE  row' = row /\ IInv'
<1>1. /\ TypeOK /\ Copies /\ Places /\ started \in Nat /\ "user" \in CallerKinds
      /\ SoundCall("user") /\ Kept /\ Present' = Present /\ row' = row
      /\ row[i] \in Row /\ step["user"] = "idle"
  BY CopiesParts, SameRows DEF IInv, TypeOK, CallerKinds, UserStop, UserRequest
<1>2. /\ i \in Present /\ cur' = [cur EXCEPT !["user"] = row[i]]
      /\ step' = [step EXCEPT !["user"] = "stopping"]
      /\ crons + uses < MaxRequests /\ uses' = uses + 1
      /\ UNCHANGED <<log, cursor, crons, row, up, started, req, prev,
                     health, dying>>
  BY DEF UserStop, UserRequest
<1>3. Faithful(row[i])
  BY <1>1, <1>2 DEF Copies, Numbered, Faithful, Present
<1>4. /\ Only("user") /\ step'["user"] = "stopping" /\ cur'["user"] = row[i]
      /\ prev'["user"] = prev["user"] /\ req'["user"] = req["user"]
  BY <1>1, <1>2 DEF TypeOK, Only
<1>5. Copies'
  BY <1>1, <1>2, <1>3, <1>4, CopiesStep DEF SoundCall, health
<1>6. Starting' = Starting /\ Inserting' = Inserting
  BY <1>1, <1>4, RuntimeAssumption
     DEF Only, Starting, Inserting, RuntimeAssumption
<1>7. Places'
  BY <1>1, <1>2, <1>6, PlacesKept
<1>8. TypeOK'
  BY <1>1, <1>2, RuntimeAssumption DEF TypeOK, RuntimeAssumption, health
<1>9. QED
  BY <1>1, <1>5, <1>7, <1>8 DEF IInv

LEMMA UserStoppedSound ==
    ASSUME IInv, UserStopped
    PROVE  Kept /\ IInv'
<1> DEFINE x == cur["user"]
           y == [x EXCEPT !.desired = "stopped", !.status = "failed"]
<1>1. /\ TypeOK /\ "user" \in CallerKinds /\ row \in [Instances -> Row] /\ Numbered
      /\ Faithful(x) /\ x \in Row
  BY DEF IInv, TypeOK, Copies, CallerKinds, Held
<1>2. /\ Done("user") /\ up' \subseteq up
      /\ Save(Stopped(x)) \/ Save(y)
      /\ UNCHANGED <<world, started, health, dying>>
  BY DEF UserStopped
<1> HIDE DEF x
<1>3. y \in Row /\ y.id = x.id /\ y.dep = x.dep /\ y.policy = x.policy
      /\ y.status = "failed"
  BY <1>1 DEF Row
<1> HIDE DEF y
<1>4. Kept
  <2>1. CASE Save(Stopped(x))
    <3>1. Stopped(x) \in Row /\ Faithful(Stopped(x)) /\ Stopped(x).status # "absent"
      BY <1>1, StoppedRow DEF Faithful
    <3>2. QED
      BY <1>1, <2>1, <3>1, SaveKeeps
  <2>2. CASE Save(y)
    <3>1. Faithful(y)
      BY <1>1, <1>3 DEF Faithful
    <3>2. QED
      BY <1>1, <1>3, <2>2, <3>1, SaveKeeps
  <2>3. QED
    BY <1>2, <2>1, <2>2
<1>5. CallTypes' /\ Copies' /\ Places'
  BY <1>1, <1>2, <1>4, DoneSound DEF health
<1>6. TypeOK'
  BY <1>1, <1>2, <1>4, <1>5 DEF TypeOK, CallTypes, Kept, world, health
<1>7. QED
  BY <1>4, <1>5, <1>6 DEF IInv

\* A fault takes copies and containers away, and adds none.
LEMMA FaultSound ==
    ASSUME IInv, FaultStep
    PROVE  row' = row /\ IInv'
<1>1. /\ TypeOK /\ Copies /\ Places /\ started \in Nat
      /\ SoundLoops /\ \A c \in CallerKinds : SoundCall(c)
  BY CopiesParts DEF IInv, TypeOK
<1>2. ASSUME NEW c \in Callers, Abandon(c)
      PROVE  row' = row /\ IInv'
  <2>1. /\ c \in CallerKinds /\ Done(c)
        /\ UNCHANGED <<world, row, up, started, listed, dying>>
        /\ checking' \in {checking, None} /\ report' \in {report, "running", "failed"}
    BY <1>2, RuntimeAssumption DEF Abandon, RuntimeAssumption
  <2>2. CallTypes' /\ Copies' /\ Places'
    BY <1>1, <2>1, SameRows, DoneSound
  <2>3. TypeOK'
    BY <1>1, <2>1, <2>2 DEF TypeOK, CallTypes, world
  <2>4. QED
    BY <2>1, <2>2, <2>3 DEF IInv
<1>3. CASE AbandonTeardown \/ \E k \in up : ContainerExits(k)
  <2>1. /\ up' \subseteq up /\ dying' \subseteq dying
        /\ UNCHANGED <<world, row, started, calls, health>>
    BY <1>3 DEF AbandonTeardown, ContainerExits
  <2>2. Copies'
    <3>1. Kept /\ Only("cron") /\ "cron" \in CallerKinds
      BY <1>1, <2>1, SameRows DEF Only, calls, CallerKinds
    <3>2. QED
      BY <1>1, <2>1, <3>1, CopiesStep DEF SoundCall, calls, health
  <2>3. Places'
    BY <1>1, <2>1 DEF Places, Inserting, Starting, Present, calls
  <2>4. TypeOK'
    BY <1>1, <2>1 DEF TypeOK, world, calls, health
  <2>5. QED
    BY <2>1, <2>2, <2>3, <2>4 DEF IInv
<1>4. QED
  BY <1>2, <1>3 DEF FaultStep

-----------------------------------------------------------------------------
(* The invariant holds                                                     *)

LEMMA IInvInit ==
    ASSUME Init
    PROVE  IInv
<1>1. NoRow \in Row /\ NoRow.id = None /\ NoRow.status = "absent"
      /\ NoRequest \in Requests /\ ~NoRequest.preview
  BY NoRows DEF NoRow, NoRequest, Request
<1>2. TypeOK
  BY <1>1, RuntimeAssumption DEF Init, TypeOK, RuntimeAssumption
<1>3. Copies
  BY <1>1 DEF Init, Copies, Numbered, Held, Faithful
<1>4. Places
  <2>1. Starting = {} /\ Inserting = {}
    BY RuntimeAssumption DEF Init, Starting, Inserting, RuntimeAssumption
  <2>2. Cardinality({}) = 0
    BY FS_EmptySet
  <2>3. QED
    BY <2>1, <2>2, Counts, RuntimeAssumption DEF Init, Places, RuntimeAssumption
<1>5. QED
  BY <1>2, <1>3, <1>4 DEF IInv

\* Every step keeps what each row is, or inserts one row.
LEMMA IInvStep ==
    ASSUME IInv, [Next]_vars
    PROVE  /\ IInv'
           /\ Kept \/ UserCreateStopped \/ \E c \in Callers : Insert(c)
<1>1. row' = row => Kept
  BY SameRows DEF IInv
<1>2. CASE UNCHANGED vars
  <2>1. row' = row
    BY <1>2 DEF vars
  <2>2. IInv'
    BY <1>2 DEF vars, world, calls, health, IInv, TypeOK, Copies, Numbered, Held,
                Faithful, Present, Places, Inserting, Starting
  <2>3. QED
    BY <1>1, <2>1, <2>2
<1>3. ASSUME NEW c \in Callers, CallStep(c)
      PROVE  IInv' /\ (Kept \/ Insert(c))
  BY <1>1, <1>3, RetireSound, InsertSound, StartContainerSound, RecordSound
     DEF CallStep
<1>4. CASE \/ \E s \in {"ready", "failed"}, p \in BOOLEAN, t \in StrategyKinds :
                 Announce(s, p, t)
           \/ DeployLoop \/ StartCronJob \/ FaultStep
  BY <1>1, <1>4, AnnounceSound, DeployLoopSound, CronSound, FaultSound
<1>5. CASE HealthLoop \/ Teardown
  BY <1>5, HealthSound, TeardownSound
<1>6. CASE User
  BY <1>1, <1>6, UserCreateSound, UserCreateStoppedSound, UserStartSound,
     UserStopSound, UserStoppedSound DEF User
<1>7. QED
  BY <1>2, <1>3, <1>4, <1>5, <1>6 DEF Next

LEMMA InvariantHolds == Spec => []IInv
<1>1. Init => IInv
  BY IInvInit
<1>2. IInv /\ [Next]_vars => IInv'
  BY IInvStep
<1>3. QED
  BY <1>1, <1>2, PTL DEF Spec

\* Type correctness: no handler, however its reads and writes interleave
\* with the others', writes a row outside its column types, and no behaviour
\* starts more containers or inserts more rows than it may.
THEOREM TypeCorrect == Spec => []TypeOK
<1>1. IInv => TypeOK
  BY DEF IInv
<1>2. QED
  BY <1>1, InvariantHolds, PTL

-----------------------------------------------------------------------------
(* Requests                                                                *)

\* Requests come from events, from cron triggers and from restarts.
LEMMA Requested ==
    ASSUME TypeOK, [Next]_vars
    PROVE  \/ StartFromEvent \/ StartCronJob \/ \E x \in listed : Restart(x)
           \/ \A c \in CallerKinds : req'[c] \in {req[c], NoRequest}
<1>1. \A c \in CallerKinds :
         Done(c) => \A e \in CallerKinds : req'[e] \in {req[e], NoRequest}
  BY DEF Done, TypeOK
<1>2. req' = req => \A e \in CallerKinds : req'[e] \in {req[e], NoRequest}
  OBVIOUS
<1>3. ASSUME NEW c \in Callers, CallStep(c)
      PROVE  req' = req \/ Done(c)
  BY <1>3 DEF CallStep, Retire, Insert, StartContainer, Record
<1>4. HealthLoop => req' = req \/ Done("health") \/ \E x \in listed : Restart(x)
  BY DEF HealthLoop, ListDesired, Confirm, ReadForPatch, Patch, calls
<1>5. DeployLoop => req' = req \/ StartFromEvent
  BY DEF DeployLoop, SkipEvent, calls
<1>6. User => req' = req \/ Done("user")
  BY DEF User, UserCreate, UserCreateStopped, UserStart, UserStop, UserStopped, calls
<1>7. Teardown => req' = req
  BY DEF Teardown, FindByDeploymentID, StopByDeployment, calls
<1>8. FaultStep => req' = req \/ \E c \in Callers : Done(c)
  BY DEF FaultStep, Abandon, AbandonTeardown, ContainerExits, calls
<1>9. (\E s \in {"ready", "failed"}, p \in BOOLEAN, t \in StrategyKinds :
          Announce(s, p, t)) \/ UNCHANGED vars => req' = req
  BY DEF Announce, calls, vars
<1>10. Callers \subseteq CallerKinds /\ {"health", "user"} \subseteq CallerKinds
  BY RuntimeAssumption DEF RuntimeAssumption, CallerKinds
<1>11. QED
  BY <1>1, <1>2, <1>3, <1>4, <1>5, <1>6, <1>7, <1>8, <1>9, <1>10 DEF Next

\* A cron job gets to its insert through its trigger only.
JobPending == step["cron"] \in {"retire", "insert"}

LEMMA JobsStart ==
    ASSUME TypeOK, [Next]_vars, ~StartCronJob
    PROVE  crons' = crons /\ (JobPending' => JobPending)
<1> DEFINE Idle == step' = step \/ \E c \in CallerKinds : Done(c)
<1> DEFINE Elsewhere == \E c \in CallerKinds \ {"cron"} : \E s :
                           step' = [step EXCEPT ![c] = s]
<1> DEFINE Onward == \E c \in CallerKinds, s \in {"engine", "record", "flip"} :
                        step' = [step EXCEPT ![c] = s]
<1>1. Idle \/ Elsewhere \/ Onward => (JobPending' => JobPending)
  BY DEF JobPending, Done, TypeOK, CallerKinds
<1>2. Callers \subseteq CallerKinds
      /\ {"deploy", "health", "user"} \subseteq CallerKinds \ {"cron"}
  BY RuntimeAssumption DEF RuntimeAssumption, CallerKinds
<1>3. ASSUME NEW c \in Callers, CallStep(c)
      PROVE  crons' = crons /\ (JobPending' => JobPending)
  <2>1. Retire(c) => crons' = crons /\ (JobPending' => JobPending)
    <3> SUFFICES ASSUME Retire(c)
                 PROVE  crons' = crons /\ (JobPending' => JobPending)
      OBVIOUS
    <3>1. crons' = crons
      BY DEF Retire, world
    <3>2. CASE Done(c)
      BY <1>1, <1>2, <3>1, <3>2
    <3>3. CASE step[c] = "retire" /\ step' = [step EXCEPT ![c] = "insert"]
      BY <1>2, <3>1, <3>3 DEF JobPending, TypeOK, CallerKinds
    <3>4. QED
      BY <3>2, <3>3 DEF Retire
  <2>2. Insert(c) \/ StartContainer(c) \/ Record(c) => Idle \/ Onward
    BY <1>2 DEF Insert, StartContainer, Record
  <2>3. Insert(c) \/ StartContainer(c) \/ Record(c) => crons' = crons
    BY DEF Insert, StartContainer, Record, world
  <2>4. QED
    BY <1>1, <1>3, <2>1, <2>2, <2>3 DEF CallStep
<1>4. HealthLoop => crons' = crons /\ (Idle \/ Elsewhere)
  BY <1>2 DEF HealthLoop, ListDesired, Restart, StartCall, Confirm, ReadForPatch,
              Patch, calls, world
<1>5. DeployLoop => crons' = crons /\ (Idle \/ Elsewhere)
  BY <1>2 DEF DeployLoop, SkipEvent, StartFromEvent, StartCall, calls
<1>6. User => crons' = crons /\ (Idle \/ Elsewhere)
  BY <1>2 DEF User, UserRequest, UserCreate, UserCreateStopped, UserStart, UserStop,
              UserStopped, calls, world
<1>7. Teardown => crons' = crons /\ Idle
  BY DEF Teardown, FindByDeploymentID, StopByDeployment, calls, world
<1>8. FaultStep => crons' = crons /\ Idle
  BY <1>2 DEF FaultStep, Abandon, AbandonTeardown, ContainerExits, calls, world
<1>9. (\E s \in {"ready", "failed"}, p \in BOOLEAN, t \in StrategyKinds :
          Announce(s, p, t)) \/ UNCHANGED vars => crons' = crons /\ Idle
  BY DEF Announce, calls, vars, world
<1> HIDE DEF Idle, Elsewhere
<1>10. QED
  BY <1>1, <1>3, <1>4, <1>5, <1>6, <1>7, <1>8, <1>9 DEF Next

-----------------------------------------------------------------------------
(* Only releases run                                                       *)

\* Deployment d, if it is one, was announced ready in an event that has been
\* read.
Released(d) == d # None => d <= cursor /\ log[d].status = "ready"

\* All rows are of such deployments, and all requests ask for one.
Releases == /\ \A i \in Instances : Released(row[i].dep)
            /\ \A c \in CallerKinds : Released(req[c].dep)

\* What was announced stays announced.
LEMMA ReleasedStays ==
    ASSUME TypeOK, [Next]_vars, NEW d \in Deploys \cup {None}, Released(d)
    PROVE  Released(d)'
<1> DEFINE Event == [status : {"ready", "failed"}, preview : BOOLEAN,
                     strategy : StrategyKinds]
<1>1. cursor' \in {cursor, cursor + 1} /\ (log' = log \/ \E e \in Event : log' = Append(log, e))
  <2>1. \A c \in Callers : CallStep(c) => UNCHANGED <<cursor, log>>
    BY DEF CallStep, Retire, Insert, StartContainer, Record, world
  <2>2. HealthLoop \/ StartCronJob \/ Teardown \/ FaultStep \/ UNCHANGED vars
           => UNCHANGED <<cursor, log>>
    BY DEF HealthLoop, ListDesired, Restart, Confirm, ReadForPatch, Patch,
           StartCronJob, Teardown, FindByDeploymentID, StopByDeployment,
           FaultStep, Abandon, AbandonTeardown, ContainerExits, vars, world
  <2>3. User => UNCHANGED <<cursor, log>>
    BY DEF User, UserRequest, UserCreate, UserCreateStopped, UserStart, UserStop,
           UserStopped, world
  <2>4. DeployLoop => cursor' = cursor + 1 /\ log' = log
    BY DEF DeployLoop, StartFromEvent, SkipEvent
  <2>5. ASSUME NEW s \in {"ready", "failed"}, NEW p \in BOOLEAN,
               NEW t \in StrategyKinds, Announce(s, p, t)
        PROVE  cursor' = cursor /\ \E e \in Event : log' = Append(log, e)
    BY <2>5 DEF Announce
  <2>6. QED
    BY <2>1, <2>2, <2>3, <2>4, <2>5 DEF Next
<1>2. log \in Seq(Event) /\ cursor \in 0 .. Len(log) /\ Len(log) \in Nat
  BY DEF TypeOK
<1> HIDE DEF Event
<1>3. d # None => d \in 1 .. Len(log)
  BY <1>2, RuntimeAssumption DEF Released, Deploys, None, RuntimeAssumption
<1>4. d # None => log'[d] = log[d]
  BY <1>1, <1>2, <1>3
<1>5. QED
  BY <1>1, <1>2, <1>3, <1>4 DEF Released

LEMMA ReleasesStep ==
    ASSUME IInv, Releases, [Next]_vars
    PROVE  Releases'
<1>1. TypeOK /\ Copies /\ SoundLoops /\ IInv'
      /\ (Kept \/ UserCreateStopped \/ \E c \in Callers : Insert(c))
  BY IInvStep, CopiesParts DEF IInv
<1>2. \A d \in Deploys \cup {None} : Released(d) => Released(d)'
  BY <1>1, ReleasedStays
<1>3. /\ \A i \in Instances : row[i].dep \in Deploys \cup {None}
      /\ \A c \in CallerKinds : req[c].dep \in Deploys \cup {None}
  BY <1>1 DEF TypeOK, Row, Requests
<1>4. \A r : r.dep = None => Released(r.dep)'
  BY DEF Released
<1>5. \A i \in Instances : Released(row[i].dep)'
  <2>1. CASE Kept
    BY <1>2, <1>3, <2>1 DEF Kept, Releases, Released
  <2>2. ASSUME NEW r \in Requests, Released(r.dep)', Inserted(NextId, r),
               NextId \in Instances \ Present
        PROVE  \A i \in Instances : Released(row[i].dep)'
    <3>1. row'[NextId].dep = r.dep /\ \A j \in Instances \ {NextId} : row'[j] = row[j]
      BY <1>1, <2>2, InsertedRow, NewRowType
    <3>2. QED
      BY <1>2, <1>3, <2>2, <3>1 DEF Releases, Released
  <2>3. CASE UserCreateStopped
    <3>1. Inserted(NextId, NoRequest) /\ NextId \in Instances \ Present
      BY <2>3, UserCreateStoppedSound
    <3>2. Released(NoRequest.dep)' /\ NoRequest \in Requests
      BY <1>4, NoRows DEF NoRequest, Request
    <3>3. QED
      BY <2>2, <3>1, <3>2
  <2>4. ASSUME NEW c \in Callers, Insert(c)
        PROVE  \A i \in Instances : Released(row[i].dep)'
    <3>1. Inserted(NextId, req[c]) /\ NextId \in Instances \ Present
      BY <2>4, InsertSound
    <3>2. PICK r \in Requests : r = req[c]
      BY <1>1, RuntimeAssumption DEF TypeOK, RuntimeAssumption
    <3>3. Released(r.dep)'
      <4>1. Released(r.dep) /\ r.dep \in Deploys \cup {None}
        BY <1>3, <3>2, RuntimeAssumption DEF Releases, RuntimeAssumption
      <4>2. QED
        BY <1>2, <4>1
    <3>4. QED
      BY <2>2, <3>1, <3>2, <3>3
  <2>5. QED
    BY <1>1, <2>1, <2>3, <2>4
<1>6. \A c \in CallerKinds : Released(req[c].dep)'
  <2>1. ASSUME NEW c \in CallerKinds, NEW r, req' = [req EXCEPT ![c] = r],
               Released(r.dep)'
        PROVE  \A e \in CallerKinds : Released(req[e].dep)'
    BY <1>1, <1>2, <1>3, <2>1 DEF Releases, Released, TypeOK
  <2>2. CASE StartFromEvent
    <3>1. /\ req' = [req EXCEPT !["deploy"] =
                        Request(cursor + 1, NextEvent.preview, NextEvent.strategy,
                                "on-failure")]
          /\ log[cursor + 1].status = "ready" /\ cursor' = cursor + 1 /\ log' = log
      BY <2>2 DEF StartFromEvent, StartCall, NextEvent
    <3> DEFINE q == Request(cursor + 1, NextEvent.preview, NextEvent.strategy,
                            "on-failure")
    <3>2. PICK r : /\ req' = [req EXCEPT !["deploy"] = r]
                   /\ r.dep = cursor + 1
      <4>1. q.dep = cursor + 1
        BY DEF Request
      <4>2. req' = [req EXCEPT !["deploy"] = q]
        BY <3>1
      <4> HIDE DEF q
      <4>3. QED
        BY <4>1, <4>2
    <3>3. Released(r.dep)'
      BY <1>1, <3>1, <3>2 DEF Released, TypeOK
    <3>4. QED
      BY <2>1, <3>2, <3>3 DEF CallerKinds
  <2>3. CASE StartCronJob
    <3>1. req' = [req EXCEPT !["cron"] = Request(None, FALSE, "rolling", "never")]
      BY <2>3 DEF StartCronJob, StartCall
    <3>2. QED
      BY <1>4, <2>1, <3>1 DEF Request, CallerKinds
  <2>4. ASSUME NEW x \in listed, Restart(x)
        PROVE  \A c \in CallerKinds : Released(req[c].dep)'
    <3> DEFINE q == Request(x.dep, FALSE, "rolling", x.policy)
    <3>1. PICK r : req' = [req EXCEPT !["health"] = r] /\ r.dep = x.dep
      <4>1. q.dep = x.dep
        BY DEF Request
      <4>2. req' = [req EXCEPT !["health"] = q]
        BY <2>4 DEF Restart, StartCall
      <4> HIDE DEF q
      <4>3. QED
        BY <4>1, <4>2
    <3>2. x.id \in Instances /\ x.dep = row[x.id].dep
      BY <1>1 DEF SoundLoops, Faithful, Present
    <3>3. Released(x.dep)'
      BY <1>2, <1>3, <3>2 DEF Releases, Released
    <3>4. QED
      BY <2>1, <3>1, <3>3 DEF CallerKinds
  <2>5. CASE \A c \in CallerKinds : req'[c] \in {req[c], NoRequest}
    <3>1. Released(NoRequest.dep)'
      BY <1>4 DEF NoRequest, Request
    <3>2. QED
      BY <1>2, <1>3, <2>5, <3>1 DEF Releases, Released
  <2>6. QED
    BY <1>1, <2>2, <2>3, <2>4, <2>5, Requested
<1>7. QED
  BY <1>5, <1>6 DEF Releases

\* Whatever runs for a deployment runs a released one: starts that fail or
\* are cut off, restarts by the health loop, users' starts of old rows and
\* whole-row writes from stale copies never put up a container of a
\* deployment that no ready event announced.
THEOREM ReleasesOnly == Spec => []OnlyReleasesRun
<1>1. Init => IInv /\ Releases
  <2>1. Init => Releases
    BY DEF Init, Releases, Released, NoRow, NoRequest, Request
  <2>2. QED
    BY <2>1, IInvInit
<1>2. IInv /\ Releases /\ [Next]_vars => (IInv /\ Releases)'
  BY IInvStep, ReleasesStep
<1>3. IInv /\ Releases => OnlyReleasesRun
  BY DEF IInv, TypeOK, Releases, Released, OnlyReleasesRun
<1>4. QED
  BY <1>1, <1>2, <1>3, PTL DEF Spec

-----------------------------------------------------------------------------
(* Cron jobs run once                                                      *)

Jobs == {i \in Present : row[i].policy = "never"}

\* Every trigger accounts for one row of its policy, or for the one its call
\* is about to insert; nobody else asks for that policy.
Triggered ==
    /\ Cardinality(Jobs) + (IF JobPending THEN 1 ELSE 0) <= crons
    /\ \A c \in CallerKinds \ {"cron"} : req[c].policy = "on-failure"

LEMMA JobsFinite == IsFiniteSet(Jobs) /\ Cardinality(Jobs) \in Nat
<1>1. IsFiniteSet(Instances)
  BY FS_Interval, RuntimeAssumption DEF Instances, RuntimeAssumption
<1>2. Jobs \subseteq Instances
  BY DEF Jobs, Present
<1>3. QED
  BY <1>1, <1>2, FS_Subset, FS_CardinalityType

LEMMA TriggeredStep ==
    ASSUME IInv, Triggered, [Next]_vars
    PROVE  Triggered'
<1>1. TypeOK /\ Copies /\ crons \in Nat
      /\ (Kept \/ UserCreateStopped \/ \E c \in Callers : Insert(c))
  BY IInvStep DEF IInv, TypeOK
<1>2. \A c \in CallerKinds \ {"cron"} : req'[c].policy = "on-failure"
  <2>1. ASSUME NEW c \in CallerKinds, NEW r, req' = [req EXCEPT ![c] = r],
               c = "cron" \/ r.policy = "on-failure"
        PROVE  \A e \in CallerKinds \ {"cron"} : req'[e].policy = "on-failure"
    BY <1>1, <2>1 DEF Triggered, TypeOK
  <2>2. CASE StartFromEvent
    <3>1. \E r : r.policy = "on-failure" /\ req' = [req EXCEPT !["deploy"] = r]
      BY <2>2 DEF StartFromEvent, StartCall, Request
    <3>2. QED
      BY <2>1, <3>1 DEF CallerKinds
  <2>3. CASE StartCronJob
    <3>1. \E r : req' = [req EXCEPT !["cron"] = r]
      BY <2>3 DEF StartCronJob, StartCall
    <3>2. QED
      BY <2>1, <3>1 DEF CallerKinds
  <2>4. ASSUME NEW x \in listed, Restart(x)
        PROVE  \A e \in CallerKinds \ {"cron"} : req'[e].policy = "on-failure"
    <3>1. \E r : r.policy = "on-failure" /\ req' = [req EXCEPT !["health"] = r]
      BY <2>4 DEF Restart, Unhealthy, StartCall, Request
    <3>2. QED
      BY <2>1, <3>1 DEF CallerKinds
  <2>5. CASE \A c \in CallerKinds : req'[c] \in {req[c], NoRequest}
    BY <2>5 DEF Triggered, NoRequest, Request
  <2>6. QED
    BY <1>1, <2>2, <2>3, <2>4, <2>5, Requested
<1>3. Cardinality(Jobs') + (IF JobPending' THEN 1 ELSE 0) <= crons'
  <2>0. StartCronJob => crons' = crons + 1
    BY DEF StartCronJob
  <2>1. Kept => Jobs' = Jobs
    BY DEF Kept, Jobs, Present
  <2>2. CASE StartCronJob
    <3>1. row' = row /\ crons' = crons + 1 /\ ~JobPending
      BY <2>2 DEF StartCronJob, StartCall, JobPending
    <3>2. Jobs' = Jobs
      BY <3>1 DEF Jobs, Present
    <3>3. QED
      BY <1>1, <3>1, <3>2, JobsFinite DEF Triggered
  <2>3. CASE Kept /\ ~StartCronJob
    <3>1. Jobs' = Jobs /\ crons' = crons /\ (JobPending' => JobPending)
      BY <1>1, <2>1, <2>3, JobsStart
    <3>2. QED
      BY <1>1, <3>1, JobsFinite DEF Triggered
  <2>4. ASSUME NEW r \in Requests, r.policy = "on-failure", Inserted(NextId, r),
               NextId \in Instances \ Present, ~StartCronJob
        PROVE  Cardinality(Jobs') + (IF JobPending' THEN 1 ELSE 0) <= crons'
    <3>1. /\ Present' = Present \cup {NextId} /\ row'[NextId].policy = "on-failure"
          /\ \A j \in Instances \ {NextId} : row'[j] = row[j]
      BY <1>1, <2>4, InsertedRow, NewRowType
    <3>2. Jobs' = Jobs
      BY <2>4, <3>1 DEF Jobs, Present
    <3>3. crons' = crons /\ (JobPending' => JobPending)
      BY <1>1, <2>4, JobsStart
    <3>4. QED
      BY <1>1, <3>2, <3>3, JobsFinite DEF Triggered
  <2>5. CASE UserCreateStopped
    <3>1. Inserted(NextId, NoRequest) /\ NextId \in Instances \ Present
      BY <2>5, UserCreateStoppedSound
    <3>2. NoRequest \in Requests /\ NoRequest.policy = "on-failure"
      BY NoRows DEF NoRequest, Request
    <3>3. ~StartCronJob
      <4>1. crons' = crons
        BY <2>5 DEF UserCreateStopped, UserRequest
      <4>2. QED
        BY <1>1, <2>0, <4>1
    <3>4. QED
      BY <2>4, <3>1, <3>2, <3>3
  <2>6. ASSUME NEW c \in Callers, Insert(c)
        PROVE  Cardinality(Jobs') + (IF JobPending' THEN 1 ELSE 0) <= crons'
    <3>1. Inserted(NextId, req[c]) /\ NextId \in Instances \ Present
          /\ c \in CallerKinds /\ req[c] \in Requests
      BY <1>1, <2>6, InsertSound, RuntimeAssumption DEF RuntimeAssumption, TypeOK
    <3>2. ~StartCronJob
      <4>1. crons' = crons
        BY <2>6 DEF Insert, world
      <4>2. QED
        BY <1>1, <2>0, <4>1
    <3>3. CASE c # "cron"
      <4>1. req[c].policy = "on-failure"
        BY <3>1, <3>3 DEF Triggered
      <4>2. QED
        BY <2>4, <3>1, <3>2, <4>1
    <3>4. CASE c = "cron"
      <4>1. JobPending /\ ~JobPending' /\ crons' = crons
        BY <1>1, <2>6, <3>1, <3>4 DEF Insert, JobPending, TypeOK, world
      <4>2. \/ Jobs' = Jobs
            \/ Jobs' = Jobs \cup {NextId}
        <5>1. /\ Present' = Present \cup {NextId}
              /\ \A j \in Instances \ {NextId} : row'[j] = row[j]
          BY <1>1, <3>1, InsertedRow
        <5>2. QED
          BY <3>1, <5>1 DEF Jobs, Present
      <4>3. Cardinality(Jobs') <= Cardinality(Jobs) + 1 /\ Cardinality(Jobs') \in Nat
        <5>1. IsFiniteSet(Jobs) /\ Cardinality(Jobs) \in Nat
          BY JobsFinite
        <5>2. Cardinality(Jobs \cup {NextId}) =
                 IF NextId \in Jobs THEN Cardinality(Jobs) ELSE Cardinality(Jobs) + 1
          BY <5>1, FS_AddElement
        <5>3. CASE Jobs' = Jobs
          BY <5>1, <5>3
        <5>4. CASE Jobs' = Jobs \cup {NextId}
          <6>1. Cardinality(Jobs') = Cardinality(Jobs \cup {NextId})
            BY <5>4
          <6>2. QED
            BY <5>1, <5>2, <6>1
        <5>5. QED
          BY <4>2, <5>3, <5>4
      <4>4. QED
        BY <1>1, <4>1, <4>3, JobsFinite DEF Triggered
    <3>5. QED
      BY <3>3, <3>4
  <2>7. QED
    BY <1>1, <2>2, <2>3, <2>5, <2>6
<1>4. QED
  BY <1>2, <1>3 DEF Triggered

\* A cron job gets one row, and so one container, per trigger: no restart by
\* the health loop, however it interleaves with the job's own call, inserts
\* another, though the row stays desired to run for ever.
THEOREM CronOncePerTrigger == Spec => []CronRunsOnce
<1>1. Init => IInv /\ Triggered
  <2>1. ASSUME Init PROVE Triggered
    <3>1. Jobs = {} /\ ~JobPending /\ crons = 0
      BY <2>1 DEF Init, Jobs, Present, JobPending, NoRow, CallerKinds
    <3>2. Cardinality({}) = 0
      BY FS_EmptySet
    <3>3. QED
      BY <2>1, <3>1, <3>2 DEF Triggered, Init, NoRequest, Request
  <2>2. QED
    BY <2>1, IInvInit
<1>2. IInv /\ Triggered /\ [Next]_vars => (IInv /\ Triggered)'
  BY IInvStep, TriggeredStep
<1>3. IInv /\ Triggered => CronRunsOnce
  BY JobsFinite DEF IInv, TypeOK, Triggered, Jobs, CronRunsOnce
<1>4. QED
  BY <1>1, <1>2, <1>3, PTL DEF Spec

-----------------------------------------------------------------------------
(* Production, as long as only releases start and stop things              *)

\* What the rest of the module is about: the deploy loop and teardowns alone,
\* starts that may fail, and previews that are rolling, which is all that
\* webhooks ask for.
ReleasesAlone == /\ Callers \subseteq {"deploy", "teardown"}
                 /\ Faults \subseteq {"engine_start"}
                 /\ PreviewStrategies \subseteq {"rolling"}

\* The release under way: how far it has come, what was asked, the row it
\* replaces and the row it makes.
At  == step["deploy"]
Ask == req["deploy"]
Old == prev["deploy"]
Own == cur["deploy"]

AtStart == {"engine", "record", "flip"}

\* The rows production goes by, and the containers of an instance.
Wanted  == {i \in Present : row[i].desired = "running" /\ ~row[i].preview}
Live(i) == {k \in up : k.inst = i}

\* Nobody but the deploy loop and a teardown has anything under way.
Quiet ==
    /\ \A c \in CallerKinds \ {"deploy"} :
          /\ step[c] = "idle" /\ req[c] = NoRequest
          /\ prev[c] = NoRow /\ cur[c] = NoRow
    /\ listed = {} /\ checking = None

\* A row is of an event that was read, and a preview if that was; teardowns
\* are of previews.
Kin == /\ \A i \in Present : /\ row[i].dep \in 1 .. cursor
                             /\ row[i].preview = log[row[i].dep].preview
       /\ \A y \in dying : y.preview /\ row[y.id].preview
       /\ \A d \in 1 .. Len(log) : log[d].preview => log[d].strategy = "rolling"

\* An instance has one container, and whoever has a container's id, in a row
\* or in memory, has that of its own container.
Owned ==
    /\ \A k \in up : k.inst \in Present /\ k.cid <= started
    /\ \A k, l \in up : k.inst = l.inst => k = l
    /\ \A i \in Present : /\ row[i].cid <= started
                          /\ \A k \in up : k.cid = row[i].cid => k.inst = i
    /\ \A y \in dying : /\ y.cid <= started
                        /\ \A k \in up : k.cid = y.cid => k.inst = y.id
    /\ \A k \in Serving, d \in Deploys : k.name # <<"preview", d>>

\* The release under way is the event that was read last, and the row it
\* replaces is production's and has not changed.
Asked ==
    /\ At \in {"idle", "retire", "insert"} \cup AtStart
    /\ At = "idle" => Ask = NoRequest /\ Old = NoRow /\ Own = NoRow
    /\ At # "idle" =>
          /\ "deploy" \in Callers
          /\ cursor \in 1 .. Len(log) /\ log[cursor].status = "ready"
          /\ Ask.dep = cursor
          /\ Ask.preview = log[cursor].preview
          /\ Ask.strategy = log[cursor].strategy
          /\ Ask.preview => Old = NoRow
    /\ Old # NoRow => Old.id \in Wanted /\ Old = row[Old.id]
    /\ At \in {"retire", "flip"} => Old # NoRow

\* The row it makes is its own, another than the one it replaces, and the
\* container it has started is that row's.
Making ==
    /\ At \in {"retire", "insert"} => Own = NoRow
    /\ At \in AtStart =>
          /\ Own.id \in Present /\ Own.id # Old.id
          /\ Own.dep = cursor /\ row[Own.id].dep = cursor
          /\ Own.preview = Ask.preview /\ row[Own.id].preview = Ask.preview
          /\ Own.desired = "running"
          /\ ~Ask.preview => Own.id \in Wanted
    /\ At = "engine" =>
          /\ Own.cid = 0 /\ Own.status = "desired" /\ Live(Own.id) = {}
          /\ Ask.preview <=> \E d \in Deploys : Own.name = <<"preview", d>>
    /\ At = "record" =>
          \/ Own.status = "failed" /\ Own.cid = 0 /\ Live(Own.id) = {}
          \/ /\ Own.status = "running" /\ Own.cid \in 1 .. started
             /\ \A k \in up : k.inst = Own.id <=> k.cid = Own.cid
    /\ At \in {"engine", "record"} /\ ~Ask.preview => row[Own.id].cid = 0
    /\ At = "flip" => row[Own.id] = Own /\ Own.status = "running"

Releasing == Quiet /\ Kin /\ Owned /\ Asked /\ Making

-----------------------------------------------------------------------------
(* What each step does to the release under way and to the rows            *)

\* A present row is written back by somebody who has not changed what it is.
Writes(y) == /\ y \in Row /\ y.id \in Present /\ y.status # "absent"
             /\ y.dep = row[y.id].dep /\ y.preview = row[y.id].preview
             /\ Save(y)

LEMMA WrittenRow ==
    ASSUME TypeOK, NEW y, Writes(y)
    PROVE  /\ Present' = Present /\ row'[y.id] = y
           /\ \A i \in Instances : i # y.id => row'[i] = row[i]
           /\ \A i \in Instances : /\ row'[i].dep = row[i].dep
                                   /\ row'[i].preview = row[i].preview
<1>1. y.id \in Instances /\ row \in [Instances -> Row]
  BY DEF Writes, Present, TypeOK
<1>2. row' = [row EXCEPT ![y.id] = y]
  BY DEF Writes, Save
<1>3. /\ row'[y.id] = y
      /\ \A i \in Instances : i # y.id => row'[i] = row[i]
  BY <1>1, <1>2
<1>4. \A i \in Instances : /\ row'[i].dep = row[i].dep
                           /\ row'[i].preview = row[i].preview
  BY <1>3 DEF Writes
<1>5. Present' = Present
  BY <1>3 DEF Present, Writes
<1>6. QED
  BY <1>3, <1>4, <1>5

\* Only the deploy loop moves.
Alone == Only("deploy") /\ UNCHANGED <<listed, checking>>

\* Nothing happens to the release under way.
Still == UNCHANGED <<step, req, prev, cur>>

\* The call returns.
Gone == /\ At' = "idle" /\ Ask' = NoRequest /\ Old' = NoRow /\ Own' = NoRow

LEMMA DoneGone ==
    ASSUME TypeOK, Done("deploy")
    PROVE  Gone /\ Only("deploy")
BY DEF TypeOK, Done, Gone, Only, At, Ask, Old, Own, CallerKinds

LEMMA StillOnly ==
    ASSUME Still
    PROVE  /\ Only("deploy")
           /\ At' = At /\ Ask' = Ask /\ Old' = Old /\ Own' = Own
BY DEF Still, Only, At, Ask, Old, Own

\* A marked copy is still the row's own.
LEMMA StoppedWrites ==
    ASSUME IInv, NEW y \in Row, Faithful(y), y.id # None,
           y.preview = row[y.id].preview, Save(Stopped(y))
    PROVE  Writes(Stopped(y))
<1>1. /\ Stopped(y) \in Row /\ Stopped(y).id = y.id /\ Stopped(y).dep = y.dep
      /\ Stopped(y).status = "stopped"
  BY StoppedRow
<1>2. Stopped(y).preview = y.preview
  BY DEF Stopped, Row
<1>3. QED
  BY <1>1, <1>2 DEF Writes, Faithful

\* Stopping the predecessor, before the start or as the flip.
RetireDoes ==
    /\ At \in {"retire", "flip"} /\ Old # NoRow
    /\ Writes(Stopped(Old))
    /\ up' = {k \in up : k.cid # Old.cid}
    /\ \/ /\ At = "retire" /\ At' = "insert"
          /\ Ask' = Ask /\ Old' = NoRow /\ Own' = Own
       \/ At = "flip" /\ Gone
    /\ Alone /\ UNCHANGED <<log, cursor, started, dying>>

LEMMA RetireFacts ==
    ASSUME ReleasesAlone, IInv, Releasing, Retire("deploy")
    PROVE  RetireDoes
<1>1. TypeOK /\ Copies /\ prev["deploy"] \in Row
  BY DEF IInv, TypeOK, CallerKinds
<1>2. /\ At \in {"retire", "flip"} /\ Old # NoRow
      /\ Old.id \in Wanted /\ Old = row[Old.id]
  BY DEF Retire, At, Releasing, Asked
<1>3. Writes(Stopped(Old))
  <2>1. Faithful(Old) /\ Old \in Row
    BY <1>1 DEF Copies, Held, Old, CallerKinds
  <2>2. Old.id # None
    BY <1>2 DEF Wanted, Present, Instances, None
  <2>3. Save(Stopped(Old))
    BY DEF Retire, Old
  <2>4. QED
    BY <1>2, <2>1, <2>2, <2>3, StoppedWrites
<1>4. up' = {k \in up : k.cid # Old.cid}
  BY DEF ReleasesAlone, Retire, EngineStop, Old
<1>5. UNCHANGED <<log, cursor, started, dying, listed, checking>>
  BY DEF Retire, world, health
<1>6. CASE At = "flip"
  <2>1. Done("deploy")
    BY <1>6 DEF Retire, At
  <2>2. QED
    BY <1>1, <1>2, <1>3, <1>4, <1>5, <1>6, <2>1, DoneGone DEF RetireDoes, Alone
<1>7. CASE At = "retire"
  <2>1. /\ step' = [step EXCEPT !["deploy"] = "insert"]
        /\ prev' = [prev EXCEPT !["deploy"] = NoRow] /\ req' = req /\ cur' = cur
    BY <1>7 DEF Retire, At
  <2>2. /\ At' = "insert" /\ Ask' = Ask /\ Old' = NoRow /\ Own' = Own
        /\ Only("deploy")
    BY <1>1, <2>1 DEF TypeOK, At, Ask, Old, Own, Only, CallerKinds
  <2>3. QED
    BY <1>2, <1>3, <1>4, <1>5, <1>7, <2>2 DEF RetireDoes, Alone
<1>8. QED
  BY <1>2, <1>6, <1>7


\* Inserting a row of its own.
InsertDoes ==
    /\ At = "insert" /\ At' = "engine" /\ Ask' = Ask /\ Old' = Old
    /\ Ask \in Requests
    /\ \E i \in Instances \ Present :
          /\ Present' = Present \cup {i}
          /\ row'[i] = NewRow(i, Ask)
          /\ \A j \in Instances \ {i} : row'[j] = row[j]
          /\ Own' = [NewRow(i, Ask) EXCEPT !.name = ContainerName(Ask, Old, i)]
    /\ Alone /\ UNCHANGED <<log, cursor, up, started, dying>>

LEMMA InsertFacts ==
    ASSUME IInv, "deploy" \in Callers, Insert("deploy")
    PROVE  InsertDoes
<1>1. TypeOK /\ Copies /\ req["deploy"] \in Requests
  BY DEF IInv, TypeOK, CallerKinds
<1>2. NextId \in Instances \ Present /\ Inserted(NextId, req["deploy"])
  BY InsertSound
<1>3. /\ Present' = Present \cup {NextId}
      /\ row'[NextId] = NewRow(NextId, req["deploy"])
      /\ \A j \in Instances \ {NextId} : row'[j] = row[j]
  BY <1>1, <1>2, InsertedRow
<1> DEFINE i == NextId
           x == [NewRow(i, req["deploy"]) EXCEPT
                    !.name = ContainerName(req["deploy"], prev["deploy"], i)]
<1>4. /\ step["deploy"] = "insert"
      /\ step' = [step EXCEPT !["deploy"] = "engine"]
      /\ cur' = [cur EXCEPT !["deploy"] = x]
      /\ UNCHANGED <<req, prev, log, cursor, up, started, dying, listed, checking>>
  BY DEF Insert, world, health
<1> HIDE DEF i, x
<1>5. /\ At = "insert" /\ At' = "engine" /\ Ask' = Ask /\ Old' = Old /\ Own' = x
      /\ Only("deploy")
  BY <1>1, <1>4 DEF TypeOK, At, Ask, Old, Own, Only, CallerKinds
<1>6. x = [NewRow(i, Ask) EXCEPT !.name = ContainerName(Ask, Old, i)]
  BY DEF x, Ask, Old
<1>7. QED
  BY <1>1, <1>2, <1>3, <1>4, <1>5, <1>6 DEF InsertDoes, Alone, Ask, i

\* Starting its container, or failing to.
StartsContainer ==
    /\ started' = started + 1
    /\ up' = Others(Own.name) \cup {[cid |-> started', name |-> Own.name, inst |-> Own.id]}
    /\ Own'.cid = started' /\ Own'.status = "running"

FailsToStart ==
    /\ started' = started
    /\ up' \in {up, Others(Own.name)}
    /\ Own'.cid = Own.cid /\ Own'.status = "failed"

StartContainerDoes ==
    /\ At = "engine" /\ At' = "record" /\ Ask' = Ask /\ Old' = Old
    /\ Own'.id = Own.id /\ Own'.dep = Own.dep /\ Own'.preview = Own.preview
    /\ Own'.desired = "running"
    /\ StartsContainer \/ FailsToStart
    /\ row' = row
    /\ Alone /\ UNCHANGED <<log, cursor, dying>>

LEMMA StartContainerFacts ==
    ASSUME IInv, Releasing, StartContainer("deploy")
    PROVE  StartContainerDoes
<1>1. TypeOK /\ Own \in Row /\ cur \in [CallerKinds -> Row]
      /\ "deploy" \in CallerKinds
  BY DEF IInv, TypeOK, Own, CallerKinds
<1>2. /\ step["deploy"] = "engine"
      /\ step' = [step EXCEPT !["deploy"] = "record"]
      /\ UNCHANGED <<req, prev, row, log, cursor, dying, listed, checking>>
  BY DEF StartContainer, world, health
<1>3. Own.desired = "running"
  BY <1>2 DEF Releasing, Making, At, AtStart
<1>4. /\ Own'.id = Own.id /\ Own'.dep = Own.dep /\ Own'.preview = Own.preview
      /\ Own'.desired = "running"
      /\ \A e \in CallerKinds \ {"deploy"} : cur'[e] = cur[e]
      /\ StartsContainer \/ FailsToStart
  <2>1. CASE /\ started' = started + 1
             /\ up' = Others(cur["deploy"].name) \cup
                      {[cid |-> started', name |-> cur["deploy"].name,
                        inst |-> cur["deploy"].id]}
             /\ cur' = [cur EXCEPT !["deploy"].cid = started',
                                   !["deploy"].status = "running",
                                   !["deploy"].desired = "running"]
    <3> DEFINE r == [[[Own EXCEPT !.cid = started'] EXCEPT !.status = "running"]
                        EXCEPT !.desired = "running"]
    <3>1. /\ r.id = Own.id /\ r.dep = Own.dep /\ r.preview = Own.preview
          /\ r.desired = "running" /\ r.cid = started' /\ r.status = "running"
      BY <1>1 DEF Row
    <3>2. cur' = [cur EXCEPT !["deploy"] = r]
      BY <1>1, <2>1 DEF Own
    <3> HIDE DEF r
    <3>3. Own' = r /\ \A e \in CallerKinds \ {"deploy"} : cur'[e] = cur[e]
      BY <1>1, <3>2 DEF Own
    <3>4. StartsContainer
      BY <2>1, <3>1, <3>3 DEF StartsContainer, Own
    <3>5. QED
      BY <3>1, <3>3, <3>4
  <2>2. CASE /\ up' \in {up, Others(cur["deploy"].name)}
             /\ cur' = [cur EXCEPT !["deploy"].status = "failed"]
             /\ started' = started
    <3> DEFINE r == [Own EXCEPT !.status = "failed"]
    <3>1. /\ r.id = Own.id /\ r.dep = Own.dep /\ r.preview = Own.preview
          /\ r.desired = Own.desired /\ r.cid = Own.cid /\ r.status = "failed"
      BY <1>1 DEF Row
    <3>2. cur' = [cur EXCEPT !["deploy"] = r]
      BY <1>1, <2>2 DEF Own
    <3> HIDE DEF r
    <3>3. Own' = r /\ \A e \in CallerKinds \ {"deploy"} : cur'[e] = cur[e]
      BY <1>1, <3>2 DEF Own
    <3>4. FailsToStart
      BY <2>2, <3>1, <3>3 DEF FailsToStart, Own
    <3>5. QED
      BY <1>3, <3>1, <3>3, <3>4
  <2>3. QED
    BY <2>1, <2>2 DEF StartContainer
<1>5. /\ At = "engine" /\ At' = "record" /\ Ask' = Ask /\ Old' = Old
      /\ Only("deploy")
  BY <1>1, <1>2, <1>4 DEF TypeOK, At, Ask, Old, Only
<1>6. QED
  BY <1>2, <1>4, <1>5 DEF StartContainerDoes, Alone

\* Writing the row; a start that failed ends here, and one with nobody to
\* replace.
RecordDoes ==
    /\ At = "record" /\ Writes(Own)
    /\ \/ /\ At' = "flip" /\ Own.status = "running" /\ Old # NoRow
          /\ Ask' = Ask /\ Old' = Old /\ Own' = Own
       \/ Gone /\ (Own.status # "running" \/ Old = NoRow)
    /\ Alone /\ UNCHANGED <<log, cursor, up, started, dying>>

LEMMA RecordFacts ==
    ASSUME IInv, Releasing, Record("deploy")
    PROVE  RecordDoes
<1>1. TypeOK /\ Own \in Row /\ At = "record"
  BY DEF IInv, TypeOK, Own, CallerKinds, Record, At
<1>2. UNCHANGED <<log, cursor, up, started, dying, listed, checking>>
  BY DEF Record, world, health
<1>3. Writes(Own)
  <2>1. /\ Own.id \in Present /\ Own.dep = row[Own.id].dep
        /\ Own.preview = row[Own.id].preview
        /\ Own.status # "absent"
    BY <1>1 DEF Releasing, Making, AtStart
  <2>2. Save(Own)
    BY DEF Record, Own
  <2>3. QED
    BY <1>1, <2>1, <2>2 DEF Writes
<1>4. CASE Own.status = "running" /\ Old # NoRow
  <2>1. /\ step' = [step EXCEPT !["deploy"] = "flip"]
        /\ req' = req /\ prev' = prev /\ cur' = cur
    BY <1>4 DEF Record, Own, Old
  <2>2. /\ At' = "flip" /\ Ask' = Ask /\ Old' = Old /\ Own' = Own
        /\ Only("deploy")
    BY <1>1, <2>1 DEF TypeOK, At, Ask, Old, Own, Only, CallerKinds
  <2>3. QED
    BY <1>1, <1>2, <1>3, <1>4, <2>2 DEF RecordDoes, Alone
<1>5. CASE ~(Own.status = "running" /\ Old # NoRow)
  <2>1. Done("deploy")
    BY <1>5 DEF Record, Own, Old
  <2>2. QED
    BY <1>1, <1>2, <1>3, <1>5, <2>1, DoneGone DEF RecordDoes, Alone
<1>6. QED
  BY <1>4, <1>5


\* Taking an event: production replaces the row that is wanted, if there is
\* one, and a preview nothing.
EventDoes ==
    /\ At = "idle" /\ At' \in {"retire", "insert"}
    /\ "deploy" \in Callers
    /\ cursor' = cursor + 1 /\ cursor' <= Len(log)
    /\ log[cursor'].status = "ready"
    /\ Ask'.dep = cursor' /\ Ask'.preview = log[cursor'].preview
    /\ Ask'.strategy = log[cursor'].strategy
    /\ At' = "retire" <=> Old' # NoRow /\ Ask'.strategy = "rolling"
    /\ Own' = Own
    /\ Ask'.preview => Old' = NoRow
    /\ ~Ask'.preview => \/ Wanted = {} /\ Old' = NoRow
                        \/ \E i \in Wanted : Old' = row[i] /\ row[i].id = i
    /\ Alone /\ UNCHANGED <<log, row, up, started, dying>>

\* The active row is wanted.
LEMMA ActiveIsWanted ==
    ASSUME TypeOK, Numbered
    PROVE  \/ Wanted = {} /\ FindActiveByProject = NoRow
           \/ \E i \in Wanted : FindActiveByProject = row[i] /\ row[i].id = i
<1> DEFINE active == {row[i] : i \in {j \in Present : /\ row[j].desired = "running"
                                                      /\ ~row[j].preview}}
<1>1. active = {row[i] : i \in Wanted}
  BY DEF Wanted
<1>2. active \subseteq Row
  BY DEF TypeOK, Present
<1>3. CASE active = {}
  BY <1>1, <1>3 DEF FindActiveByProject
<1>4. CASE active # {}
  <2>1. Newest(active) \in active
    BY <1>2, <1>4, NewestIsThere
  <2>2. FindActiveByProject = Newest(active)
    BY <1>4 DEF FindActiveByProject
  <2>3. PICK i \in Wanted : FindActiveByProject = row[i]
    BY <1>1, <2>1, <2>2
  <2>4. row[i].id = i
    BY DEF Wanted, Present, Numbered
  <2>5. QED
    BY <2>3, <2>4
<1>5. QED
  BY <1>3, <1>4

LEMMA EventFacts ==
    ASSUME IInv, StartFromEvent
    PROVE  EventDoes
<1>1. TypeOK /\ Numbered /\ "deploy" \in CallerKinds
  BY DEF IInv, Copies, CallerKinds
<1> DEFINE r == Request(cursor + 1, NextEvent.preview, NextEvent.strategy, "on-failure")
           p == IF r.preview THEN NoRow ELSE FindActiveByProject
<1>2. /\ "deploy" \in Callers /\ cursor < Len(log) /\ NextEvent.status = "ready"
      /\ cursor' = cursor + 1
      /\ UNCHANGED <<log, row, up, started, dying, listed, checking>>
  BY DEF StartFromEvent, health
<1>3. /\ step["deploy"] = "idle"
      /\ req' = [req EXCEPT !["deploy"] = r]
      /\ prev' = [prev EXCEPT !["deploy"] = p]
      /\ step' = [step EXCEPT !["deploy"] =
                     IF p # NoRow /\ r.strategy = "rolling" THEN "retire" ELSE "insert"]
      /\ cur' = cur
  BY DEF StartFromEvent, StartCall
<1>4. /\ r.dep = cursor + 1 /\ r.preview = log[cursor + 1].preview
      /\ r.strategy = log[cursor + 1].strategy
  BY DEF Request, NextEvent
<1>5. /\ r.preview => p = NoRow
      /\ ~r.preview => \/ Wanted = {} /\ p = NoRow
                       \/ \E i \in Wanted : p = row[i] /\ row[i].id = i
  BY <1>1, ActiveIsWanted
<1> HIDE DEF r, p
<1>6. /\ At = "idle" /\ At' \in {"retire", "insert"}
      /\ At' = "retire" <=> p # NoRow /\ r.strategy = "rolling"
      /\ Ask' = r /\ Old' = p /\ Own' = Own /\ Only("deploy")
  BY <1>1, <1>3 DEF TypeOK, At, Ask, Old, Own, Only
<1>7. log[cursor + 1].status = "ready" /\ cursor + 1 <= Len(log)
  <2>1. cursor \in Nat /\ Len(log) \in Nat
    BY <1>1, LenProperties DEF TypeOK
  <2>2. QED
    BY <1>2, <2>1 DEF NextEvent
<1>8. QED
  BY <1>2, <1>4, <1>5, <1>6, <1>7 DEF EventDoes, Alone

\* Passing over an event that is not ready.
SkipDoes ==
    /\ At = "idle" /\ cursor' = cursor + 1 /\ cursor' <= Len(log)
    /\ log[cursor'].status # "ready"
    /\ Still /\ Alone /\ UNCHANGED <<log, row, up, started, dying>>

LEMMA SkipFacts ==
    ASSUME IInv, SkipEvent
    PROVE  SkipDoes
<1>1. cursor \in Nat /\ Len(log) \in Nat
  BY LenProperties DEF IInv, TypeOK
<1>2. /\ At = "idle" /\ cursor < Len(log) /\ cursor' = cursor + 1
      /\ log[cursor + 1].status # "ready"
      /\ UNCHANGED <<log, row, up, started, dying, step, req, prev, cur, listed, checking>>
  BY DEF SkipEvent, calls, health, At, NextEvent
<1>3. QED
  BY <1>1, <1>2, StillOnly DEF SkipDoes, Alone, Still

\* An event arrives.
AnnounceDoes ==
    /\ \E e : /\ log' = Append(log, e)
              /\ e \in [status : {"ready", "failed"}, preview : BOOLEAN,
                        strategy : StrategyKinds]
              /\ e.preview => e.strategy = "rolling"
    /\ Still /\ Alone /\ UNCHANGED <<cursor, row, up, started, dying>>

LEMMA AnnounceFacts ==
    ASSUME ReleasesAlone, NEW s \in {"ready", "failed"}, NEW q \in BOOLEAN,
           NEW t \in StrategyKinds, Announce(s, q, t)
    PROVE  AnnounceDoes
<1> DEFINE e == [status |-> s, preview |-> q, strategy |-> t]
<1>1. log' = Append(log, e)
  BY DEF Announce
<1>2. /\ e \in [status : {"ready", "failed"}, preview : BOOLEAN, strategy : StrategyKinds]
      /\ e.preview => e.strategy = "rolling"
  BY DEF Announce, ReleasesAlone
<1>3. /\ UNCHANGED <<cursor, row, up, started, dying, step, req, prev, cur, listed, checking>>
  BY DEF Announce, calls, health
<1> HIDE DEF e
<1>4. QED
  BY <1>1, <1>2, <1>3, StillOnly DEF AnnounceDoes, Alone, Still

\* A teardown lists rows of a preview, and stops them one by one.
FindDoes ==
    /\ \E d \in 1 .. Len(log) :
          /\ log[d].preview /\ dying = {}
          /\ \A y \in dying' : \E i \in Present : y = row[i] /\ row[i].dep = d
    /\ Still /\ Alone /\ UNCHANGED <<log, cursor, row, up, started>>

LEMMA FindFacts ==
    ASSUME NEW d \in Deploys, FindByDeploymentID(d)
    PROVE  FindDoes
<1>1. /\ d \in 1 .. Len(log) /\ log[d].preview /\ dying = {}
      /\ \A y \in dying' : \E i \in Present : y = row[i] /\ row[i].dep = d
  BY DEF FindByDeploymentID
<1>2. UNCHANGED <<log, cursor, row, up, started, step, req, prev, cur, listed, checking>>
  BY DEF FindByDeploymentID, calls, health
<1>3. QED
  BY <1>1, <1>2, StillOnly DEF FindDoes, Alone, Still

StopDoes ==
    /\ \E y \in dying : /\ Writes(Stopped(y)) /\ y.id \in Present
                        /\ y.preview /\ row[y.id].preview
                        /\ Stopped(y).id = y.id /\ Stopped(y).cid = y.cid
                        /\ up' = {k \in up : k.cid # y.cid}
    /\ dying' \subseteq dying
    /\ Still /\ Alone /\ UNCHANGED <<log, cursor, started>>

LEMMA StopFacts ==
    ASSUME ReleasesAlone, IInv, Releasing, StopByDeployment
    PROVE  StopDoes
<1> DEFINE y == Newest(dying)
<1>1. y \in dying /\ y \in Row
  BY NewestIsThere DEF StopByDeployment, IInv, TypeOK
<1>2. /\ Save(Stopped(y)) /\ up' = {k \in up : k.cid # y.cid}
      /\ dying' = dying \ {y}
      /\ UNCHANGED <<log, cursor, started, step, req, prev, cur, listed, checking>>
  BY DEF StopByDeployment, EngineStop, ReleasesAlone, world, calls, health
<1> HIDE DEF y
<1>3. /\ Faithful(y) /\ y.id # None /\ y.preview /\ row[y.id].preview
      /\ y.preview = row[y.id].preview
  BY <1>1 DEF IInv, Copies, Held, Releasing, Kin, Row
<1>4. Writes(Stopped(y)) /\ y.id \in Present
  BY <1>1, <1>2, <1>3, StoppedWrites DEF Faithful
<1>5. Stopped(y).id = y.id /\ Stopped(y).cid = y.cid
  BY <1>1 DEF Stopped, Row
<1>6. dying' \subseteq dying
  BY <1>2
<1>7. QED
  BY <1>1, <1>2, <1>3, <1>4, <1>5, <1>6, StillOnly DEF StopDoes, Alone, Still


-----------------------------------------------------------------------------
(* Releasing holds on                                                      *)

LEMMA QuietKept ==
    ASSUME Quiet, Alone
    PROVE  Quiet'
BY DEF Quiet, Alone, Only

\* The types the steps below go by.
LEMMA Sizes ==
    ASSUME TypeOK
    PROVE  /\ started \in Nat /\ cursor \in Nat /\ Len(log) \in Nat
           /\ cursor <= Len(log) /\ 1 .. Len(log) \subseteq Deploys
           /\ \A k \in up : /\ k.inst \in Instances /\ k.cid \in Nat /\ k.cid # 0
                            /\ k.cid <= MaxStarts
           /\ \A i \in Instances : row[i] \in Row /\ row[i].cid \in Nat
           /\ \A d \in 1 .. Len(log) : /\ log[d].preview \in BOOLEAN
                                       /\ log[d].strategy \in StrategyKinds
           /\ Own \in Row /\ Old \in Row /\ Own.cid \in Nat
           /\ None \notin Instances /\ NoRow.id = None
<1>1. /\ log \in Seq([status : {"ready", "failed"}, preview : BOOLEAN,
                      strategy : StrategyKinds])
      /\ Len(log) <= MaxDeploys /\ MaxDeploys \in Nat /\ MaxStarts \in Nat
  BY RuntimeAssumption DEF TypeOK, RuntimeAssumption
<1>2. Len(log) \in Nat /\ \A d \in 1 .. Len(log) :
         log[d] \in [status : {"ready", "failed"}, preview : BOOLEAN,
                     strategy : StrategyKinds]
  BY <1>1, LenProperties, ElementOfSeq
<1>3. Own \in Row /\ Old \in Row
  BY DEF TypeOK, Own, Old, CallerKinds
<1>4. \A i \in Instances : row[i] \in Row
  BY DEF TypeOK
<1>5. \A x \in Row : x.cid \in Nat
  BY <1>1 DEF Row
<1>6. \A k \in up : k.inst \in Instances /\ k.cid \in 1 .. MaxStarts
  BY DEF TypeOK
<1>7. started \in Nat /\ cursor \in Nat /\ cursor <= Len(log)
  BY <1>1, <1>2 DEF TypeOK
<1>8. 1 .. Len(log) \subseteq Deploys
  BY <1>1, <1>2 DEF Deploys
<1>9. None \notin Instances
  BY DEF None, Instances
<1>10. QED
  BY <1>1, <1>2, <1>3, <1>4, <1>5, <1>6, <1>7, <1>8, <1>9, NoRows

\* Who writes a row leaves the other rows, and who wants them, alone.
LEMMA WrittenWanted ==
    ASSUME TypeOK, NEW y, Writes(y)
    PROVE  Wanted' = IF y.desired = "running" /\ ~y.preview
                     THEN Wanted \cup {y.id} ELSE Wanted \ {y.id}
<1>1. y.id \in Present
  BY DEF Writes
<1>2. /\ Present' = Present /\ row'[y.id] = y
      /\ \A i \in Instances : i # y.id => row'[i] = row[i]
  BY WrittenRow
<1>3. \A i \in Instances : i # y.id => (i \in Wanted' <=> i \in Wanted)
  BY <1>2 DEF Wanted
<1>4. y.id \in Wanted' <=> y.desired = "running" /\ ~y.preview
  BY <1>1, <1>2 DEF Wanted
<1>5. Wanted \subseteq Instances /\ Wanted' \subseteq Instances
  BY DEF Wanted, Present
<1>6. QED
  BY <1>3, <1>4, <1>5

LEMMA RetireKeeps ==
    ASSUME IInv, Releasing, RetireDoes
    PROVE  Releasing'
<1> DEFINE y == Stopped(Old)
<1>1. TypeOK
  BY DEF IInv
<1>2. Writes(y) /\ y.id = Old.id /\ y.cid = Old.cid /\ Old = row[Old.id]
      /\ Old.id \in Instances
  <2>1. Old \in Row /\ Writes(y)
    BY <1>1, Sizes DEF RetireDoes
  <2>2. y.id = Old.id /\ y.cid = Old.cid
    BY <2>1 DEF Stopped, Row
  <2>3. Old = row[Old.id] /\ Old.id \in Instances
    BY DEF RetireDoes, Releasing, Asked, Wanted, Present
  <2>4. QED
    BY <2>1, <2>2, <2>3
<1> HIDE DEF y
<1>3. /\ Present' = Present /\ row'[y.id] = y
      /\ \A i \in Instances : i # y.id => row'[i] = row[i]
      /\ \A i \in Instances : row'[i].dep = row[i].dep /\ row'[i].preview = row[i].preview
  BY <1>1, <1>2, WrittenRow
<1>4. /\ up' \subseteq up /\ UNCHANGED <<log, cursor, started, dying>> /\ Alone
  BY DEF RetireDoes
<1>5. Quiet'
  BY <1>4, QuietKept DEF Releasing
<1>6. Kin'
  <2>1. \A d \in dying : d.id \in Instances
    BY DEF IInv, Copies, Held, Faithful, Present
  <2>2. QED
    BY <1>3, <1>4, <2>1 DEF Releasing, Kin, Present
<1>7. Owned'
  <2>1. \A i \in Instances : row'[i].cid = row[i].cid
    BY <1>2, <1>3
  <2>2. \A k \in up : k.inst \in Instances
    BY <1>1, Sizes
  <2>3. Serving' \subseteq Serving
    BY <1>3, <1>4, <2>2 DEF Serving
  <2>4. Present \subseteq Instances
    BY DEF Present
  <2>5. QED
    BY <1>3, <1>4, <2>1, <2>3, <2>4 DEF Releasing, Owned
<1>8. Asked' /\ Making'
  <2>1. CASE Gone
    BY <2>1 DEF Gone, Asked, Making, AtStart
  <2>2. CASE /\ At = "retire" /\ At' = "insert"
             /\ Ask' = Ask /\ Old' = NoRow /\ Own' = Own
    BY <1>4, <2>2 DEF Releasing, Asked, Making, AtStart
  <2>3. QED
    BY <2>1, <2>2 DEF RetireDoes
<1>9. QED
  BY <1>5, <1>6, <1>7, <1>8 DEF Releasing

\* The new row as the release has it in memory.
LEMMA OwnRow ==
    ASSUME NEW i \in Instances, NEW r \in Requests, NEW n
    PROVE  LET x == [NewRow(i, r) EXCEPT !.name = n] IN
           /\ x.id = i /\ x.status = "desired" /\ x.desired = "running" /\ x.cid = 0
           /\ x.name = n /\ x.dep = r.dep /\ x.preview = r.preview
BY DEF NewRow

LEMMA InsertKeeps ==
    ASSUME IInv, Releasing, InsertDoes
    PROVE  Releasing'
<1>1. TypeOK /\ None \notin Instances /\ NoRow.id = None
  BY Sizes DEF IInv
<1>2. PICK i \in Instances \ Present :
         /\ Present' = Present \cup {i}
         /\ row'[i] = NewRow(i, Ask)
         /\ \A j \in Instances \ {i} : row'[j] = row[j]
         /\ Own' = [NewRow(i, Ask) EXCEPT !.name = ContainerName(Ask, Old, i)]
  BY DEF InsertDoes
<1>3. /\ row'[i].id = i /\ row'[i].desired = "running" /\ row'[i].cid = 0
      /\ row'[i].dep = Ask.dep /\ row'[i].preview = Ask.preview
  BY <1>2 DEF NewRow
<1>4. /\ Own'.id = i /\ Own'.status = "desired" /\ Own'.desired = "running"
      /\ Own'.cid = 0 /\ Own'.name = ContainerName(Ask, Old, i)
      /\ Own'.dep = Ask.dep /\ Own'.preview = Ask.preview
  BY <1>2, OwnRow DEF InsertDoes
<1>5. /\ At = "insert" /\ At' = "engine" /\ Ask' = Ask /\ Old' = Old /\ Alone
      /\ UNCHANGED <<log, cursor, up, started, dying>>
  BY DEF InsertDoes
<1>6. /\ cursor \in 1 .. Len(log) /\ Ask.dep = cursor
      /\ Ask.preview = log[cursor].preview /\ Ask.strategy = log[cursor].strategy
      /\ Ask.preview \in BOOLEAN
  BY <1>1, <1>5, Sizes DEF Releasing, Asked
<1>7. Quiet'
  BY <1>5, QuietKept DEF Releasing
<1>8. \A j \in Present : j # i /\ row'[j] = row[j]
  BY <1>2 DEF Present
<1>9. \A k \in up : k.inst \in Present /\ k.cid # 0
  BY <1>1, Sizes DEF Releasing, Owned
<1>10. \A y \in dying : y.id \in Present
  BY DEF IInv, Copies, Held, Faithful
<1>11. Kin'
  BY <1>2, <1>3, <1>5, <1>6, <1>8, <1>10 DEF Releasing, Kin
<1>12. Owned'
  <2>1. Serving' = Serving
    BY <1>5, <1>8, <1>9 DEF Serving
  <2>2. 0 <= started
    BY <1>1, Sizes
  <2>3. QED
    BY <1>2, <1>3, <1>5, <1>8, <1>9, <2>1, <2>2 DEF Releasing, Owned
<1>13. /\ Wanted \subseteq Wanted'
       /\ ~Ask.preview => i \in Wanted'
  BY <1>2, <1>3, <1>8 DEF Wanted
<1>14. Old # NoRow => Old.id \in Wanted /\ Old = row[Old.id] /\ Old.id \in Present
  BY DEF Releasing, Asked, Wanted
<1>15. Asked'
  BY <1>5, <1>8, <1>13, <1>14 DEF Releasing, Asked, AtStart
<1>16. Making'
  <2>1. i # Old.id
    BY <1>1, <1>2, <1>14
  <2>2. {k \in up' : k.inst = i} = {}
    BY <1>2, <1>5, <1>9
  <2>3. Ask.preview <=> \E d \in Deploys : Own'.name = <<"preview", d>>
    <3>1. CASE Ask.preview
      <4>1. Ask.strategy = "rolling"
        BY <1>6, <3>1 DEF Releasing, Kin
      <4>2. Own'.name = <<"preview", cursor>> /\ cursor \in Deploys
        BY <1>1, <1>4, <1>6, <3>1, <4>1, Sizes DEF ContainerName
      <4>3. QED
        BY <3>1, <4>2
    <3>2. CASE ~Ask.preview
      BY <1>4, <3>2 DEF ContainerName, Blue, Green
    <3>3. QED
      BY <1>6, <3>1, <3>2
  <2>4. QED
    BY <1>2, <1>3, <1>4, <1>5, <1>6, <1>13, <2>1, <2>2, <2>3 DEF Making, AtStart, Live
<1>17. QED
  BY <1>7, <1>11, <1>12, <1>15, <1>16 DEF Releasing

LEMMA StartContainerKeeps ==
    ASSUME IInv, Releasing, StartContainerDoes
    PROVE  Releasing'
<1>1. TypeOK /\ started \in Nat
  BY Sizes DEF IInv
<1>2. /\ At = "engine" /\ At' = "record" /\ Ask' = Ask /\ Old' = Old
      /\ Own'.id = Own.id /\ Own'.dep = Own.dep /\ Own'.preview = Own.preview
      /\ Own'.desired = "running"
      /\ row' = row /\ Alone /\ UNCHANGED <<log, cursor, dying>>
      /\ Present' = Present /\ Wanted' = Wanted
  BY DEF StartContainerDoes, Present, Wanted
<1>3. /\ Live(Own.id) = {} /\ Own.cid = 0 /\ Own.id \in Present
      /\ row[Own.id].preview = Ask.preview
      /\ Ask.preview <=> \E d \in Deploys : Own.name = <<"preview", d>>
  BY <1>2 DEF Releasing, Making, AtStart
<1>4. Quiet' /\ Kin' /\ Asked'
  BY <1>2, QuietKept DEF Releasing, Kin, Asked, AtStart
<1>5. \A k \in up : k.inst # Own.id /\ k.cid # 0 /\ k.cid \in Nat /\ k.cid <= started
  BY <1>1, <1>3, Sizes DEF Live, Releasing, Owned
<1>6. CASE StartsContainer
  <2> DEFINE c == [cid |-> started + 1, name |-> Own.name, inst |-> Own.id]
  <2>1. /\ started' = started + 1 /\ up' \subseteq up \cup {c} /\ c \in up'
        /\ Own'.cid = started + 1 /\ Own'.status = "running"
        /\ c.cid = started + 1 /\ c.name = Own.name /\ c.inst = Own.id
    BY <1>6 DEF StartsContainer, Others
  <2> HIDE DEF c
  <2>2. \A y \in dying : y.cid \in Nat
    BY <1>1, RuntimeAssumption DEF TypeOK, Row, RuntimeAssumption
  <2>3. \A i \in Present : row[i].cid \in Nat
    BY <1>1, Sizes DEF Present
  <2>4. Owned'
    <3>1. \A k \in up' : k.inst \in Present' /\ k.cid <= started'
      BY <1>1, <1>2, <1>3, <1>5, <2>1 DEF Releasing, Owned
    <3>2. \A k, l \in up' : k.inst = l.inst => k = l
      BY <1>5, <2>1 DEF Releasing, Owned
    <3>3. \A i \in Present' : /\ row'[i].cid <= started'
                              /\ \A k \in up' : k.cid = row'[i].cid => k.inst = i
      <4> SUFFICES ASSUME NEW i \in Present
                   PROVE  /\ row[i].cid <= started + 1
                          /\ \A k \in up' : k.cid = row[i].cid => k.inst = i
        BY <1>2, <2>1
      <4>1. row[i].cid <= started /\ row[i].cid \in Nat
        BY <2>3 DEF Releasing, Owned
      <4>2. QED
        BY <1>1, <2>1, <4>1 DEF Releasing, Owned
    <3>4. \A y \in dying' : /\ y.cid <= started'
                            /\ \A k \in up' : k.cid = y.cid => k.inst = y.id
      <4> SUFFICES ASSUME NEW y \in dying
                   PROVE  /\ y.cid <= started + 1
                          /\ \A k \in up' : k.cid = y.cid => k.inst = y.id
        BY <1>2, <2>1
      <4>1. y.cid <= started /\ y.cid \in Nat
        BY <2>2 DEF Releasing, Owned
      <4>2. QED
        BY <1>1, <2>1, <4>1 DEF Releasing, Owned
    <3>5. \A k \in Serving', d \in Deploys : k.name # <<"preview", d>>
      <4>1. \A k \in Serving' : k \in Serving \/ (k = c /\ ~Ask.preview)
        BY <1>2, <1>3, <2>1 DEF Serving
      <4>2. QED
        BY <1>3, <2>1, <4>1 DEF Releasing, Owned
    <3>6. QED
      BY <3>1, <3>2, <3>3, <3>4, <3>5 DEF Owned
  <2>5. Making'
    <3>1. \A k \in up' : k.inst = Own'.id <=> k.cid = Own'.cid
      BY <1>1, <1>2, <1>5, <2>1
    <3>2. Own'.cid \in 1 .. started'
      BY <1>1, <2>1
    <3>3. QED
      BY <1>2, <2>1, <3>1, <3>2 DEF Releasing, Making, AtStart
  <2>6. QED
    BY <1>4, <2>4, <2>5 DEF Releasing
<1>7. CASE FailsToStart
  <2>1. /\ started' = started /\ up' \subseteq up
        /\ Own'.cid = 0 /\ Own'.status = "failed"
    BY <1>3, <1>7 DEF FailsToStart, Others
  <2>2. Serving' \subseteq Serving
    BY <1>2, <2>1 DEF Serving
  <2>3. Owned'
    BY <1>2, <2>1, <2>2 DEF Releasing, Owned
  <2>4. {k \in up' : k.inst = Own'.id} = {}
    BY <1>2, <1>5, <2>1
  <2>5. Making'
    BY <1>2, <2>1, <2>4 DEF Releasing, Making, AtStart, Live
  <2>6. QED
    BY <1>4, <2>3, <2>5 DEF Releasing
<1>8. QED
  BY <1>6, <1>7 DEF StartContainerDoes


LEMMA RecordKeeps ==
    ASSUME IInv, Releasing, RecordDoes
    PROVE  Releasing'
<1>1. TypeOK /\ started \in Nat
  BY Sizes DEF IInv
<1>2. /\ At = "record" /\ Writes(Own) /\ Own.id \in Instances
      /\ Alone /\ UNCHANGED <<log, cursor, up, started, dying>>
  BY DEF RecordDoes, Writes, Present
<1>3. /\ Present' = Present /\ row'[Own.id] = Own
      /\ \A i \in Instances : i # Own.id => row'[i] = row[i]
      /\ \A i \in Instances : row'[i].dep = row[i].dep /\ row'[i].preview = row[i].preview
  BY <1>1, <1>2, WrittenRow
<1>4. /\ Own.id # Old.id /\ Own.desired = "running" /\ Own.preview = Ask.preview
      /\ Own.dep = cursor /\ row[Own.id].dep = cursor
      /\ row[Own.id].preview = Ask.preview
      /\ Own.cid <= started
      /\ \A k \in up : k.cid = Own.cid => k.inst = Own.id
  <2>1. \A k \in up : k.cid # 0
    BY <1>1, Sizes
  <2>2. QED
    BY <1>1, <1>2, <2>1 DEF Releasing, Making, AtStart
<1>5. Quiet'
  BY <1>2, QuietKept DEF Releasing
<1>6. Present \subseteq Instances /\ \A k \in up : k.inst \in Instances
  BY <1>1, Sizes DEF Present
<1>7. Kin'
  <2>1. \A d \in dying : d.id \in Instances
    BY DEF IInv, Copies, Held, Faithful, Present
  <2>2. QED
    BY <1>2, <1>3, <1>6, <2>1 DEF Releasing, Kin
<1>8. Owned'
  <2>1. Serving' = Serving
    BY <1>2, <1>3, <1>6 DEF Serving
  <2>2. \A i \in Present' : /\ row'[i].cid <= started
                            /\ \A k \in up : k.cid = row'[i].cid => k.inst = i
    BY <1>3, <1>4, <1>6 DEF Releasing, Owned
  <2>3. QED
    BY <1>2, <1>3, <2>1, <2>2 DEF Releasing, Owned
<1>9. Asked' /\ Making'
  <2>1. CASE Gone
    BY <2>1 DEF Gone, Asked, Making, AtStart
  <2>2. CASE /\ At' = "flip" /\ Own.status = "running" /\ Old # NoRow
             /\ Ask' = Ask /\ Old' = Old /\ Own' = Own
    <3>1. /\ Old.id \in Wanted /\ Old = row[Old.id] /\ Old.id \in Instances
          /\ ~Ask.preview
      BY <1>1, <1>2, <2>2, Sizes DEF Releasing, Asked, Wanted, Present
    <3>2. Wanted' = Wanted \cup {Own.id}
      BY <1>1, <1>2, <1>4, <3>1, WrittenWanted
    <3>3. Asked'
      BY <1>2, <1>3, <1>4, <2>2, <3>1, <3>2 DEF Releasing, Asked, AtStart
    <3>4. Making'
      BY <1>2, <1>3, <1>4, <2>2, <3>1, <3>2 DEF Making, AtStart, Writes
    <3>5. QED
      BY <3>3, <3>4
  <2>3. QED
    BY <2>1, <2>2 DEF RecordDoes
<1>10. QED
  BY <1>5, <1>7, <1>8, <1>9 DEF Releasing

\* Steps that leave rows and containers alone.
LEMMA RowsKept ==
    ASSUME row' = row
    PROVE  /\ Present' = Present /\ Wanted' = Wanted
           /\ up' = up => Serving' = Serving
BY DEF Present, Wanted, Serving

LEMMA EventKeeps ==
    ASSUME IInv, Releasing, EventDoes
    PROVE  Releasing'
<1>1. TypeOK /\ cursor \in Nat /\ Len(log) \in Nat
  BY Sizes DEF IInv
<1>2. /\ At = "idle" /\ At' \in {"retire", "insert"} /\ "deploy" \in Callers
      /\ cursor' = cursor + 1 /\ cursor' <= Len(log)
      /\ Alone /\ UNCHANGED <<log, row, up, started, dying>>
  BY DEF EventDoes
<1>3. /\ Present' = Present /\ Wanted' = Wanted /\ Serving' = Serving
  BY <1>2, RowsKept
<1>4. Quiet'
  BY <1>2, QuietKept DEF Releasing
<1>5. Kin'
  BY <1>1, <1>2, <1>3 DEF Releasing, Kin
<1>6. Owned'
  BY <1>2, <1>3 DEF Releasing, Owned
<1>7. Old' # NoRow => Old'.id \in Wanted' /\ Old' = row'[Old'.id]
  BY <1>2, <1>3 DEF EventDoes
<1>8. Asked'
  <2>1. cursor' \in 1 .. Len(log')
    BY <1>1, <1>2
  <2>2. At' = "retire" => Old' # NoRow
    BY DEF EventDoes
  <2>3. QED
    BY <1>2, <1>7, <2>1, <2>2 DEF EventDoes, Asked, AtStart
<1>9. Making'
  BY <1>2 DEF EventDoes, Releasing, Asked, Making, AtStart
<1>10. QED
  BY <1>4, <1>5, <1>6, <1>8, <1>9 DEF Releasing

LEMMA SkipKeeps ==
    ASSUME IInv, Releasing, SkipDoes
    PROVE  Releasing'
<1>1. TypeOK /\ cursor \in Nat /\ Len(log) \in Nat
  BY Sizes DEF IInv
<1>2. /\ At = "idle" /\ cursor' = cursor + 1
      /\ Alone /\ UNCHANGED <<log, row, up, started, dying>>
      /\ At' = At /\ Ask' = Ask /\ Old' = Old /\ Own' = Own
  BY StillOnly DEF SkipDoes
<1>3. /\ Present' = Present /\ Wanted' = Wanted /\ Serving' = Serving
  BY <1>2, RowsKept
<1>4. Quiet'
  BY <1>2, QuietKept DEF Releasing
<1>5. Kin' /\ Owned'
  BY <1>1, <1>2, <1>3 DEF Releasing, Kin, Owned
<1>6. Asked' /\ Making'
  BY <1>2, <1>3 DEF Releasing, Asked, Making, AtStart
<1>7. QED
  BY <1>4, <1>5, <1>6 DEF Releasing

\* Events that are on the log stay there.
LEMMA Announced ==
    ASSUME TypeOK, AnnounceDoes
    PROVE  /\ Len(log') = Len(log) + 1
           /\ \A d \in 1 .. Len(log) : log'[d] = log[d]
           /\ log'[Len(log) + 1].preview => log'[Len(log) + 1].strategy = "rolling"
<1> DEFINE E == [status : {"ready", "failed"}, preview : BOOLEAN, strategy : StrategyKinds]
<1>1. PICK e \in E : log' = Append(log, e) /\ (e.preview => e.strategy = "rolling")
  BY DEF AnnounceDoes
<1>2. log \in Seq(E)
  BY DEF TypeOK
<1> HIDE DEF E
<1>3. /\ Len(log') = Len(log) + 1
      /\ \A d \in 1 .. Len(log) : log'[d] = log[d]
      /\ log'[Len(log) + 1] = e
  BY <1>1, <1>2, AppendProperties
<1>4. QED
  BY <1>1, <1>3

LEMMA AnnounceKeeps ==
    ASSUME IInv, Releasing, AnnounceDoes
    PROVE  Releasing'
<1>1. /\ TypeOK /\ cursor \in Nat /\ Len(log) \in Nat /\ cursor <= Len(log)
  BY Sizes DEF IInv
<1>2. /\ Alone /\ UNCHANGED <<cursor, row, up, started, dying>>
      /\ At' = At /\ Ask' = Ask /\ Old' = Old /\ Own' = Own
  BY StillOnly DEF AnnounceDoes
<1>3. /\ Present' = Present /\ Wanted' = Wanted /\ Serving' = Serving
  BY <1>2, RowsKept
<1>4. /\ Len(log') = Len(log) + 1
      /\ \A d \in 1 .. Len(log) : log'[d] = log[d]
      /\ log'[Len(log) + 1].preview => log'[Len(log) + 1].strategy = "rolling"
  BY <1>1, Announced
<1>5. Quiet'
  BY <1>2, QuietKept DEF Releasing
<1>6. Kin'
  <2>1. \A d \in 1 .. cursor : log'[d] = log[d]
    BY <1>1, <1>4
  <2>2. \A i \in Present' : /\ row'[i].dep \in 1 .. cursor'
                            /\ row'[i].preview = log'[row'[i].dep].preview
    BY <1>2, <1>3, <2>1 DEF Releasing, Kin
  <2>3. \A d \in 1 .. Len(log') : log'[d].preview => log'[d].strategy = "rolling"
    <3>1. \A d \in 1 .. Len(log') : d \in 1 .. Len(log) \/ d = Len(log) + 1
      BY <1>1, <1>4
    <3>2. QED
      BY <1>4, <3>1 DEF Releasing, Kin
  <2>4. QED
    BY <1>2, <2>2, <2>3 DEF Releasing, Kin
<1>7. Owned'
  BY <1>2, <1>3 DEF Releasing, Owned
<1>8. Asked'
  <2>1. cursor \in 1 .. Len(log) =>
           cursor' \in 1 .. Len(log') /\ log'[cursor'] = log[cursor]
    BY <1>1, <1>2, <1>4
  <2>2. QED
    BY <1>2, <1>3, <2>1 DEF Releasing, Asked, AtStart
<1>9. Making'
  BY <1>2, <1>3 DEF Releasing, Making, AtStart, Live
<1>10. QED
  BY <1>5, <1>6, <1>7, <1>8, <1>9 DEF Releasing

LEMMA FindKeeps ==
    ASSUME IInv, Releasing, FindDoes
    PROVE  Releasing'
<1>1. /\ TypeOK
  BY DEF IInv
<1>2. /\ Alone /\ UNCHANGED <<log, cursor, row, up, started>>
      /\ At' = At /\ Ask' = Ask /\ Old' = Old /\ Own' = Own
  BY StillOnly DEF FindDoes
<1>3. /\ Present' = Present /\ Wanted' = Wanted /\ Serving' = Serving
  BY <1>2, RowsKept
<1>4. \A y \in dying' : \E i \in Present : y = row[i] /\ y.id = i /\ row[i].preview
  <2>1. PICK d \in 1 .. Len(log) :
           /\ log[d].preview
           /\ \A y \in dying' : \E i \in Present : y = row[i] /\ row[i].dep = d
    BY DEF FindDoes
  <2>2. \A i \in Present : /\ row[i].id = i
                           /\ row[i].preview = log[row[i].dep].preview
    BY DEF IInv, Copies, Numbered, Present, Releasing, Kin
  <2>3. QED
    BY <2>1, <2>2
<1>5. Quiet'
  BY <1>2, QuietKept DEF Releasing
<1>6. Kin'
  BY <1>2, <1>3, <1>4 DEF Releasing, Kin
<1>7. Owned'
  BY <1>2, <1>3, <1>4 DEF Releasing, Owned
<1>8. Asked' /\ Making'
  BY <1>2, <1>3 DEF Releasing, Asked, Making, AtStart, Live
<1>9. QED
  BY <1>5, <1>6, <1>7, <1>8 DEF Releasing

\* A teardown writes preview rows only.
LEMMA StoppedPreview ==
    ASSUME TypeOK, StopDoes
    PROVE  /\ Wanted' = Wanted /\ Present' = Present
           /\ \E y \in dying :
                 /\ y.id \in Present /\ y.id \notin Wanted
                 /\ row'[y.id].cid = y.cid /\ up' = {k \in up : k.cid # y.cid}
                 /\ \A i \in Instances : i # y.id => row'[i] = row[i]
                 /\ \A i \in Instances : /\ row'[i].dep = row[i].dep
                                         /\ row'[i].preview = row[i].preview
<1>1. PICK y \in dying : /\ Writes(Stopped(y)) /\ y.id \in Present
                         /\ y.preview /\ row[y.id].preview
                         /\ Stopped(y).id = y.id /\ Stopped(y).cid = y.cid
                         /\ up' = {k \in up : k.cid # y.cid}
  BY DEF StopDoes
<1> DEFINE s == Stopped(y)
<1>2. /\ Writes(s) /\ s.id = y.id /\ s.cid = y.cid
      /\ s.preview = row[s.id].preview
  BY <1>1 DEF Writes
<1> HIDE DEF s
<1>3. /\ Present' = Present /\ row'[s.id] = s
      /\ \A i \in Instances : i # s.id => row'[i] = row[i]
      /\ \A i \in Instances : /\ row'[i].dep = row[i].dep
                              /\ row'[i].preview = row[i].preview
  BY <1>2, WrittenRow
<1>4. y.id \notin Wanted
  BY <1>1 DEF Wanted
<1>5. Wanted' = Wanted
  <2>1. s.preview
    BY <1>1, <1>2
  <2>2. Wanted' = Wanted \ {s.id}
    BY <1>2, <2>1, WrittenWanted
  <2>3. QED
    BY <1>2, <1>4, <2>2
<1>6. QED
  BY <1>1, <1>2, <1>3, <1>4, <1>5

LEMMA StopKeeps ==
    ASSUME IInv, Releasing, StopDoes
    PROVE  Releasing'
<1>1. TypeOK
  BY DEF IInv
<1>2. /\ Alone /\ UNCHANGED <<log, cursor, started>> /\ dying' \subseteq dying
      /\ At' = At /\ Ask' = Ask /\ Old' = Old /\ Own' = Own
  BY StillOnly DEF StopDoes
<1>3. /\ Wanted' = Wanted /\ Present' = Present
  BY <1>1, StoppedPreview
<1>4. PICK y \in dying :
         /\ y.id \in Present /\ y.id \notin Wanted
         /\ row'[y.id].cid = y.cid /\ up' = {k \in up : k.cid # y.cid}
         /\ \A i \in Instances : i # y.id => row'[i] = row[i]
         /\ \A i \in Instances : /\ row'[i].dep = row[i].dep
                                 /\ row'[i].preview = row[i].preview
  BY <1>1, StoppedPreview
<1>5. /\ Present \subseteq Instances /\ Wanted \subseteq Instances /\ up' \subseteq up
      /\ \A k \in up : k.inst \in Instances
      /\ \A i \in Wanted : row'[i] = row[i]
  BY <1>1, <1>4, Sizes DEF Present, Wanted
<1>6. Quiet'
  BY <1>2, QuietKept DEF Releasing
<1>7. Kin'
  <2>1. \A d \in dying : d.id \in Instances
    BY DEF IInv, Copies, Held, Faithful, Present
  <2>2. QED
    BY <1>2, <1>3, <1>4, <1>5, <2>1 DEF Releasing, Kin
<1>8. Owned'
  <2>1. Serving' \subseteq Serving
    BY <1>4, <1>5 DEF Serving
  <2>2. \A i \in Present : /\ row'[i].cid <= started
                           /\ \A k \in up' : k.cid = row'[i].cid => k.inst = i
    BY <1>4, <1>5 DEF Releasing, Owned
  <2>3. QED
    BY <1>2, <1>3, <1>5, <2>1, <2>2 DEF Releasing, Owned
<1>9. Asked'
  BY <1>2, <1>3, <1>5 DEF Releasing, Asked, AtStart
<1>10. Making'
  <2>1. At \in AtStart => /\ Own.id \in Instances
                          /\ row'[Own.id].dep = row[Own.id].dep
                          /\ row'[Own.id].preview = row[Own.id].preview
    BY <1>4, <1>5 DEF Releasing, Making
  <2>2. At \in AtStart /\ ~Ask.preview => row'[Own.id] = row[Own.id]
    BY <1>5 DEF Releasing, Making
  <2>3. At = "flip" => row'[Own.id] = row[Own.id]
    BY <2>2 DEF Releasing, Asked, AtStart
  <2>4. \A i : Live(i)' \subseteq Live(i)
    BY <1>5 DEF Live
  <2>5. QED
    BY <1>2, <1>3, <1>5, <2>1, <2>2, <2>3, <2>4 DEF Releasing, Making, AtStart, Live
<1>11. QED
  BY <1>6, <1>7, <1>8, <1>9, <1>10 DEF Releasing


-----------------------------------------------------------------------------
(* Every step is one of these                                              *)

Happens == \/ RetireDoes \/ InsertDoes \/ StartContainerDoes \/ RecordDoes
           \/ EventDoes \/ SkipDoes \/ AnnounceDoes \/ FindDoes \/ StopDoes

LEMMA OneStep ==
    ASSUME ReleasesAlone, IInv, Releasing, [Next]_vars
    PROVE  Happens \/ UNCHANGED vars
<1>1. \A c \in CallerKinds \ {"deploy"} : step[c] = "idle"
  BY DEF Releasing, Quiet
<1>2. listed = {} /\ checking = None
  BY DEF Releasing, Quiet
<1>3. ASSUME NEW s \in {"ready", "failed"}, NEW q \in BOOLEAN,
             NEW t \in StrategyKinds, Announce(s, q, t)
      PROVE  Happens
  BY <1>3, AnnounceFacts DEF Happens
<1>4. ASSUME NEW c \in Callers, CallStep(c) PROVE Happens
  <2>1. c = "deploy"
    BY <1>1, <1>4, RuntimeAssumption
       DEF RuntimeAssumption, CallStep, Retire, Insert, StartContainer, Record
  <2>2. QED
    BY <1>4, <2>1, RetireFacts, InsertFacts, StartContainerFacts, RecordFacts
       DEF CallStep, Happens
<1>5. DeployLoop => Happens
  BY EventFacts, SkipFacts DEF DeployLoop, Happens
<1>6. ~HealthLoop
  BY <1>1, <1>2 DEF ReleasesAlone, HealthLoop, ListDesired, ReadForPatch, Patch, CallerKinds
<1>7. ~StartCronJob
  BY DEF ReleasesAlone, StartCronJob
<1>8. Teardown => Happens
  BY FindFacts, StopFacts DEF Teardown, Happens
<1>9. ~User
  BY <1>1 DEF ReleasesAlone, User, UserRequest, UserCreate, UserCreateStopped,
              UserStart, UserStop, UserStopped, CallerKinds
<1>10. ~FaultStep
  BY DEF ReleasesAlone, FaultStep, Abandon, AbandonTeardown, ContainerExits
<1>11. QED
  BY <1>3, <1>4, <1>5, <1>6, <1>7, <1>8, <1>9, <1>10 DEF Next

LEMMA ReleasingInit ==
    ASSUME Init
    PROVE  Releasing
<1>1. Present = {} /\ dying = {} /\ up = {}
  BY DEF Init, Present, NoRow
<1>2. Quiet
  BY DEF Init, Quiet
<1>3. Kin
  <2>1. Len(log) = 0
    BY EmptySeq DEF Init
  <2>2. QED
    BY <1>1, <2>1 DEF Kin
<1>4. Owned
  BY <1>1 DEF Owned, Serving
<1>5. /\ At = "idle" /\ Ask = NoRequest /\ Old = NoRow /\ Own = NoRow
  BY DEF Init, At, Ask, Old, Own, CallerKinds
<1>6. Asked /\ Making
  BY <1>5 DEF Asked, Making, AtStart
<1>7. QED
  BY <1>2, <1>3, <1>4, <1>6 DEF Releasing

LEMMA ReleasingStep ==
    ASSUME ReleasesAlone, IInv, Releasing, [Next]_vars
    PROVE  Releasing'
<1>1. CASE UNCHANGED vars
  BY <1>1 DEF vars, world, calls, health, Releasing, Quiet, Kin, Owned, Asked, Making,
              At, Ask, Old, Own, AtStart, Wanted, Present, Live, Serving
<1>2. CASE Happens
  BY <1>2, RetireKeeps, InsertKeeps, StartContainerKeeps, RecordKeeps, EventKeeps,
     SkipKeeps, AnnounceKeeps, FindKeeps, StopKeeps DEF Happens
<1>3. QED
  BY <1>1, <1>2, OneStep

-----------------------------------------------------------------------------
(* Previews                                                                *)

\* Starting a preview removes no container but one of that preview's name.
LEMMA PreviewStart ==
    ASSUME IInv, Releasing, StartContainerDoes, Ask.preview
    PROVE  Serving \subseteq Serving'
<1>1. PICK d \in Deploys : Own.name = <<"preview", d>>
  BY DEF StartContainerDoes, Releasing, Making
<1>2. \A k \in Serving : k \in up /\ k.name # Own.name /\ ~row[k.inst].preview
  BY <1>1 DEF Releasing, Owned, Serving
<1>3. Others(Own.name) \subseteq up'
  BY DEF StartContainerDoes, StartsContainer, FailsToStart, Others
<1>4. row' = row
  BY DEF StartContainerDoes
<1>5. QED
  BY <1>2, <1>3, <1>4 DEF Serving, Others

\* No row that is there turns from production to preview when one is inserted
\* or written.
LEMMA ServingThere ==
    ASSUME IInv, Releasing, InsertDoes \/ RecordDoes
    PROVE  Serving' = Serving
<1>1. TypeOK /\ \A k \in up : k.inst \in Present /\ k.inst \in Instances
  BY Sizes DEF IInv, Releasing, Owned
<1>2. CASE InsertDoes
  <2>1. \A j \in Present : row'[j] = row[j]
    BY <1>2 DEF InsertDoes, Present
  <2>2. up' = up
    BY <1>2 DEF InsertDoes
  <2>3. QED
    BY <1>1, <2>1, <2>2 DEF Serving
<1>3. CASE RecordDoes
  <2>1. \A i \in Instances : row'[i].preview = row[i].preview
    BY <1>1, <1>3, WrittenRow DEF RecordDoes
  <2>2. up' = up
    BY <1>3 DEF RecordDoes
  <2>3. QED
    BY <1>1, <2>1, <2>2 DEF Serving
<1>4. QED
  BY <1>2, <1>3

\* A teardown stops the containers of its preview's rows and no others.
LEMMA StopServing ==
    ASSUME IInv, Releasing, StopDoes
    PROVE  Serving \subseteq Serving'
<1>1. PICK y \in dying :
         /\ y.id \in Present /\ row[y.id].preview
         /\ up' = {k \in up : k.cid # y.cid}
  BY DEF StopDoes
<1>2. \A k \in up : k.cid = y.cid => k.inst = y.id
  BY DEF Releasing, Owned
<1>3. \A k \in up : k.inst \in Instances
  BY Sizes DEF IInv
<1>4. \A i \in Instances : row'[i].preview = row[i].preview
  BY StoppedPreview DEF IInv
<1>5. QED
  BY <1>1, <1>2, <1>3, <1>4 DEF Serving

\* The comment in InternalStart, "preview instances never stop production",
\* for rolling previews: no step of a preview's start or of its teardown
\* takes a container of production away, for any number of releases and
\* whatever starts fail.
THEOREM PreviewsLeaveProduction ==
    ASSUME ReleasesAlone
    PROVE  Spec => PreviewNeverStopsProduction
<1>1. Init => IInv /\ Releasing
  BY IInvInit, ReleasingInit
<1>2. IInv /\ Releasing /\ [Next]_vars => (IInv /\ Releasing)'
  BY IInvStep, ReleasingStep
<1>3. ASSUME IInv, Releasing, Happens, NEW c \in CallerKinds,
             step'[c] # step[c], ForPreview(c)
      PROVE  Serving \subseteq Serving'
  <2>1. Alone
    BY <1>3 DEF Happens, RetireDoes, InsertDoes, StartContainerDoes, RecordDoes,
                EventDoes, SkipDoes, AnnounceDoes, FindDoes, StopDoes
  <2>2. c = "deploy" /\ At' # At
    BY <1>3, <2>1 DEF Alone, Only, At
  <2>3. Ask.dep # None /\ log[Ask.dep].preview
    BY <1>3, <2>2 DEF ForPreview, Ask
  <2>4. At # "idle"
    BY <1>3, <2>3 DEF Releasing, Asked, NoRequest, Request
  <2>5. Ask.preview /\ Old = NoRow
    BY <1>3, <2>3, <2>4 DEF Releasing, Asked
  <2>6. ~(SkipDoes \/ AnnounceDoes \/ FindDoes \/ StopDoes)
    BY <2>2, StillOnly DEF SkipDoes, AnnounceDoes, FindDoes, StopDoes
  <2>7. ~(RetireDoes \/ EventDoes)
    BY <2>4, <2>5 DEF RetireDoes, EventDoes
  <2>8. QED
    BY <1>3, <2>5, <2>6, <2>7, PreviewStart, ServingThere DEF Happens
<1>4. ASSUME IInv, Releasing, Happens, dying' # dying
      PROVE  Serving \subseteq Serving'
  <2>1. FindDoes \/ StopDoes
    BY <1>4 DEF Happens, RetireDoes, InsertDoes, StartContainerDoes, RecordDoes,
                EventDoes, SkipDoes, AnnounceDoes, Still
  <2>2. CASE FindDoes
    BY <2>2 DEF FindDoes, Serving
  <2>3. QED
    BY <1>4, <2>1, <2>2, StopServing
<1>5. IInv /\ Releasing /\ [Next]_vars =>
         [(dying' # dying \/ \E c \in CallerKinds : step'[c] # step[c] /\ ForPreview(c))
             => Serving \subseteq Serving']_vars
  BY <1>3, <1>4, OneStep
<1>6. QED
  BY <1>1, <1>2, <1>5, PTL DEF Spec, PreviewNeverStopsProduction


-----------------------------------------------------------------------------
(* Production                                                              *)

LastRelease == CHOOSE d \in ProductionReleases :
                  \A e \in ProductionReleases : e <= d

\* Between two releases one row is wanted at most, that of the last release,
\* and it has its container if its start has succeeded.
Steady ==
    /\ \A i, j \in Wanted : i = j
    /\ ProductionReleases # {} => \E i \in Wanted : row[i].dep = LastRelease
    /\ \A i \in Wanted : row[i].cid # 0 => Live(i) # {}

\* What serves is wanted, under the container's id that the row has or is
\* about to get.  While production is released, what is wanted is the old row
\* and the new one; both serve in a blue/green start only.
Production ==
    /\ \A k \in Serving :
          /\ k.inst \in Wanted
          /\ k.cid = row[k.inst].cid \/ (At = "record" /\ k.inst = Own.id)
    /\ At = "idle" \/ Ask.preview => Steady
    /\ At # "idle" /\ ~Ask.preview =>
          /\ Wanted \subseteq {Old.id, Own.id}
          /\ Old # NoRow /\ At # "retire" => Ask.strategy = "blue_green"
          /\ At = "record" /\ Own.status = "failed" => Old = NoRow
          /\ At \in {"record", "flip"} /\ Own.status = "running" => Live(Own.id) # {}

\* A production row whose start has failed, or will have.
Failed(i) == /\ i \in Present /\ ~row[i].preview /\ row[i].cid = 0
             /\ Own.id = i => Own.status = "failed"

LEMMA NeverStartedIs ==
    Releasing => \A i \in Instances : NeverStarted(i) <=> Failed(i)
<1> SUFFICES ASSUME Releasing, NEW i \in Instances
             PROVE  NeverStarted(i) <=> Failed(i)
  OBVIOUS
<1>1. NoRow.id # i
  BY NoRows DEF None, Instances
<1>2. \A c \in CallerKinds \ {"deploy"} : cur[c].id # i
  BY <1>1 DEF Releasing, Quiet
<1>3. "deploy" \notin Callers => Own.id # i
  BY <1>1 DEF Releasing, Asked
<1>4. (\A c \in Callers : cur[c].id = i => cur[c].status = "failed")
         <=> (Own.id = i => Own.status = "failed")
  BY <1>2, <1>3, RuntimeAssumption DEF RuntimeAssumption, Own
<1>5. QED
  BY <1>4 DEF NeverStarted, Failed

LEMMA NeverStartedAfter ==
    Releasing' => \A i \in Instances : NeverStarted(i)' <=> Failed(i)'
<1>1. (Releasing => \A i \in Instances : NeverStarted(i) <=> Failed(i))'
  BY NeverStartedIs, PTL
<1>2. QED
  BY <1>1

\* A start that has failed has failed for good.
LEMMA FailedStays ==
    ASSUME IInv, Releasing, Happens, NEW i \in Instances, Failed(i)
    PROVE  Failed(i)'
<1>1. TypeOK /\ NoRow.id # i /\ i \in Present
  BY NoRows DEF IInv, None, Instances, Failed
<1>2. CASE row' = row /\ Own' = Own
  BY <1>2 DEF Failed, Present
<1>3. CASE SkipDoes \/ AnnounceDoes \/ FindDoes \/ EventDoes
  <2>1. row' = row /\ Own' = Own
    BY <1>3, StillOnly DEF SkipDoes, AnnounceDoes, FindDoes, EventDoes
  <2>2. QED
    BY <1>2, <2>1
<1>4. CASE RetireDoes
  <2>1. Old \in Row /\ Old = row[Old.id] /\ Old.id \in Present
    BY <1>1, <1>4, Sizes DEF RetireDoes, Releasing, Asked, Wanted
  <2> DEFINE s == Stopped(Old)
  <2>2. s.id = Old.id /\ s.cid = Old.cid /\ Writes(s)
    BY <1>4, <2>1 DEF RetireDoes, Stopped, Row
  <2> HIDE DEF s
  <2>3. /\ Present' = Present /\ row'[s.id] = s
        /\ \A j \in Instances : j # s.id => row'[j] = row[j]
        /\ \A j \in Instances : row'[j].preview = row[j].preview
    BY <1>1, <2>2, WrittenRow
  <2>4. row'[i].cid = row[i].cid
    BY <2>1, <2>2, <2>3
  <2>5. Own' = Own \/ Own' = NoRow
    BY <1>4 DEF RetireDoes, Gone
  <2>6. QED
    BY <1>1, <2>3, <2>4, <2>5 DEF Failed
<1>5. CASE InsertDoes
  <2>1. PICK n \in Instances \ Present :
           /\ Present' = Present \cup {n} /\ Ask \in Requests
           /\ \A j \in Instances \ {n} : row'[j] = row[j]
           /\ Own' = [NewRow(n, Ask) EXCEPT !.name = ContainerName(Ask, Old, n)]
    BY <1>5 DEF InsertDoes
  <2>2. Own'.id = n /\ n # i
    BY <1>1, <2>1, OwnRow
  <2>3. QED
    BY <1>1, <2>1, <2>2 DEF Failed
<1>6. CASE StartContainerDoes
  <2>1. Own.status = "desired"
    BY <1>6 DEF StartContainerDoes, Releasing, Making
  <2>2. row' = row /\ Own'.id = Own.id
    BY <1>6 DEF StartContainerDoes
  <2>3. QED
    BY <2>1, <2>2 DEF Failed, Present
<1>7. CASE RecordDoes
  <2>1. /\ Writes(Own) /\ At = "record"
    BY <1>7 DEF RecordDoes
  <2>2. /\ Present' = Present /\ row'[Own.id] = Own
        /\ \A j \in Instances : j # Own.id => row'[j] = row[j]
        /\ \A j \in Instances : row'[j].preview = row[j].preview
    BY <1>1, <2>1, WrittenRow
  <2>3. Own.id = i => Own.cid = 0
    BY <2>1 DEF Failed, Releasing, Making
  <2>4. Own' = Own \/ Own' = NoRow
    BY <1>7 DEF RecordDoes, Gone
  <2>5. QED
    BY <1>1, <2>2, <2>3, <2>4 DEF Failed
<1>8. CASE StopDoes
  <2>1. PICK y \in dying :
           /\ y.id \in Present /\ row[y.id].preview /\ Writes(Stopped(y))
           /\ Stopped(y).id = y.id
    BY <1>8 DEF StopDoes
  <2>2. /\ Present' = Present
        /\ \A j \in Instances : j # y.id => row'[j] = row[j]
    BY <1>1, <2>1, WrittenRow
  <2>3. y.id # i
    BY <2>1 DEF Failed
  <2>4. Own' = Own
    BY <1>8, StillOnly DEF StopDoes
  <2>5. QED
    BY <1>1, <2>2, <2>3, <2>4 DEF Failed
<1>9. QED
  BY <1>3, <1>4, <1>5, <1>6, <1>7, <1>8 DEF Happens

\* So no behaviour comes back to those without a failed flip.
LEMMA NoFailedFlipBefore ==
    ASSUME IInv, Releasing, Releasing', Happens, NoFailedFlip'
    PROVE  NoFailedFlip
<1>1. TypeOK /\ Len(log) \in Nat
  BY Sizes DEF IInv
<1>2. Len(log') >= Len(log) /\ \A d \in 1 .. Len(log) : log'[d] = log[d]
  <2>1. CASE AnnounceDoes
    BY <1>1, <2>1, Announced
  <2>2. CASE ~AnnounceDoes
    <3>1. log' = log
      BY <2>2 DEF Happens, RetireDoes, InsertDoes, StartContainerDoes, RecordDoes,
                  EventDoes, SkipDoes, FindDoes, StopDoes
    <3>2. QED
      BY <1>1, <3>1
  <2>3. QED
    BY <2>1, <2>2
<1>3. \A i \in Instances : NeverStarted(i) <=> Failed(i)
  BY NeverStartedIs
<1>4. \A i \in Instances : NeverStarted(i)' <=> Failed(i)'
  BY NeverStartedAfter
<1>5. CASE \A d \in 1 .. Len(log') : log'[d].strategy = "rolling"
  <2>1. \A d \in 1 .. Len(log) : log[d].strategy = "rolling"
    BY <1>1, <1>2, <1>5
  <2>2. QED
    BY <2>1 DEF NoFailedFlip
<1>6. CASE \A i \in Instances : ~NeverStarted(i)'
  <2>1. \A i \in Instances : ~NeverStarted(i)
    BY <1>3, <1>4, <1>6, FailedStays
  <2>2. QED
    BY <2>1 DEF NoFailedFlip
<1>7. QED
  BY <1>5, <1>6 DEF NoFailedFlip


\* The release under way is the last one, if it is one of production.
LEMMA LastIsCursor ==
    ASSUME TypeOK, Releasing, At # "idle", ~Ask.preview
    PROVE  cursor \in ProductionReleases /\ LastRelease = cursor
<1>1. cursor \in ProductionReleases
  BY DEF Releasing, Asked, ProductionReleases
<1>2. \A e \in ProductionReleases : e \in Nat /\ e <= cursor
  BY Sizes DEF ProductionReleases
<1>3. /\ LastRelease \in ProductionReleases
      /\ \A e \in ProductionReleases : e <= LastRelease
  BY <1>1, <1>2 DEF LastRelease
<1>4. QED
  BY <1>1, <1>2, <1>3

LEMMA SameReleases ==
    ASSUME ProductionReleases' = ProductionReleases
    PROVE  LastRelease' = LastRelease
BY DEF LastRelease

LEMMA RetireServes ==
    ASSUME IInv, Releasing, RetireDoes, Production
    PROVE  Production'
<1> DEFINE y == Stopped(Old)
<1>1. TypeOK /\ Own \in Row /\ NoRow.id \notin Instances
  BY Sizes DEF IInv
<1>2. /\ Writes(y) /\ y.id = Old.id /\ y.cid = Old.cid /\ y.desired = "stopped"
      /\ Old = row[Old.id] /\ Old.id \in Present
  <2>1. Old \in Row /\ Writes(y) /\ Old = row[Old.id] /\ Old.id \in Present
    BY <1>1, Sizes DEF RetireDoes, Releasing, Asked, Wanted
  <2>2. y.id = Old.id /\ y.cid = Old.cid /\ y.desired = "stopped"
    BY <2>1 DEF Stopped, Row
  <2>3. QED
    BY <2>1, <2>2
<1> HIDE DEF y
<1>3. /\ Present' = Present /\ row'[y.id] = y
      /\ \A i \in Instances : i # y.id => row'[i] = row[i]
      /\ \A i \in Instances : row'[i].dep = row[i].dep /\ row'[i].preview = row[i].preview
  BY <1>1, <1>2, WrittenRow
<1>4. Wanted' = Wanted \ {Old.id} /\ Wanted \subseteq Instances
  BY <1>1, <1>2, WrittenWanted DEF Wanted, Present
<1>5. /\ At \in {"retire", "flip"} /\ Old # NoRow /\ ~Ask.preview
      /\ up' = {k \in up : k.cid # Old.cid}
      /\ ProductionReleases' = ProductionReleases /\ LastRelease' = LastRelease
  BY SameReleases DEF RetireDoes, Releasing, Asked, ProductionReleases
<1>6. \A k \in Serving' : k.inst \in Wanted' /\ k.cid = row'[k.inst].cid
  <2>1. Serving' \subseteq Serving /\ \A k \in Serving' : k.cid # Old.cid
    <3>1. \A k \in up : k.inst \in Instances
      BY <1>1, Sizes
    <3>2. QED
      BY <1>3, <1>5, <3>1 DEF Serving
  <2>2. \A k \in Serving : k.inst \in Wanted /\ k.cid = row[k.inst].cid
    BY <1>5 DEF Production
  <2>3. \A k \in Serving' : k.inst # Old.id
    BY <1>2, <2>1, <2>2
  <2>4. QED
    BY <1>2, <1>3, <1>4, <2>1, <2>2, <2>3
<1>7. Wanted \subseteq {Old.id, Own.id}
  BY <1>5 DEF Production
<1>8. CASE At = "retire"
  <2>1. Own = NoRow
    BY <1>8 DEF Releasing, Making
  <2>2. Wanted' = {}
    BY <1>1, <1>4, <1>7, <2>1
  <2>3. At' = "insert" /\ Ask' = Ask /\ Old' = NoRow
    BY <1>8 DEF RetireDoes
  <2>4. QED
    BY <1>5, <1>6, <2>2, <2>3 DEF Production
<1>9. CASE At = "flip"
  <2>1. /\ Own.id \in Wanted /\ Own.id # Old.id /\ row[Own.id].dep = cursor
        /\ Own.status = "running"
    BY <1>5, <1>9 DEF Releasing, Making, AtStart
  <2>2. Wanted' = {Own.id}
    BY <1>4, <1>7, <2>1
  <2>3. row'[Own.id].dep = LastRelease'
    BY <1>1, <1>3, <1>4, <1>5, <1>9, <2>1, LastIsCursor
  <2>4. {k \in up' : k.inst = Own.id} # {}
    <3>1. PICK k \in up : k.inst = Own.id
      BY <1>5, <1>9, <2>1 DEF Production, Live
    <3>2. k.cid # Old.cid
      BY <1>2, <2>1, <3>1 DEF Releasing, Owned
    <3>3. QED
      BY <1>5, <3>1, <3>2
  <2>5. Steady'
    BY <2>2, <2>3, <2>4 DEF Steady, Live
  <2>6. At' = "idle"
    BY <1>9 DEF RetireDoes, Gone
  <2>7. QED
    BY <1>6, <2>5, <2>6 DEF Production
<1>10. QED
  BY <1>5, <1>8, <1>9

LEMMA InsertServes ==
    ASSUME IInv, Releasing, InsertDoes, Production
    PROVE  Production'
<1>1. TypeOK /\ NoRow.id \notin Instances
  BY Sizes DEF IInv
<1>2. PICK i \in Instances \ Present :
         /\ Present' = Present \cup {i}
         /\ row'[i] = NewRow(i, Ask)
         /\ \A j \in Instances \ {i} : row'[j] = row[j]
         /\ Own' = [NewRow(i, Ask) EXCEPT !.name = ContainerName(Ask, Old, i)]
  BY DEF InsertDoes
<1>3. /\ At = "insert" /\ At' = "engine" /\ Ask' = Ask /\ Old' = Old /\ up' = up
      /\ Own = NoRow /\ Ask.preview \in BOOLEAN
      /\ ProductionReleases' = ProductionReleases /\ LastRelease' = LastRelease
  BY <1>1, SameReleases DEF InsertDoes, Releasing, Making, ProductionReleases, Requests
<1>4. Own'.id = i /\ row'[i].preview = Ask.preview
  <2>1. row'[i].preview = Ask.preview
    BY <1>2 DEF NewRow
  <2>2. QED
    BY <1>2, <2>1, OwnRow DEF InsertDoes
<1>5. \A j \in Present : j # i /\ row'[j] = row[j]
  BY <1>2 DEF Present
<1>6. /\ Wanted \subseteq Wanted' /\ Wanted' \subseteq Wanted \cup {i}
      /\ Ask.preview => Wanted' = Wanted
  BY <1>2, <1>4, <1>5 DEF Wanted
<1>7. \A j \in Wanted : row'[j] = row[j]
  BY <1>5 DEF Wanted
<1>8. \A k \in Serving' : k.inst \in Wanted' /\ k.cid = row'[k.inst].cid
  <2>1. \A k \in Serving : k.inst \in Wanted /\ k.cid = row[k.inst].cid
    BY <1>3 DEF Production
  <2>2. QED
    BY <1>6, <1>7, <2>1, ServingThere
<1>9. CASE Ask.preview
  <2>1. Steady
    BY <1>9 DEF Production
  <2>2. Steady'
    BY <1>3, <1>6, <1>7, <1>9, <2>1 DEF Steady, Live
  <2>3. QED
    BY <1>3, <1>8, <1>9, <2>2 DEF Production
<1>10. CASE ~Ask.preview
  <2>1. Wanted \subseteq Instances /\ Wanted \subseteq {Old.id, NoRow.id}
    BY <1>3, <1>10 DEF Production, Wanted, Present
  <2>2. Wanted' \subseteq {Old'.id, Own'.id}
    BY <1>1, <1>3, <1>4, <1>6, <2>1
  <2>3. Old # NoRow => Ask.strategy = "blue_green"
    BY <1>3, <1>10 DEF Production
  <2>4. QED
    BY <1>3, <1>8, <1>10, <2>2, <2>3 DEF Production
<1>11. QED
  BY <1>9, <1>10

LEMMA StartServes ==
    ASSUME IInv, Releasing, Releasing', StartContainerDoes, Production, NoFailedFlip'
    PROVE  Production'
<1>1. TypeOK /\ NoRow.id \notin Instances
  BY Sizes DEF IInv
<1>2. /\ At = "engine" /\ At' = "record" /\ Ask' = Ask /\ Old' = Old
      /\ Own'.id = Own.id /\ row' = row
      /\ UNCHANGED <<log, cursor>>
      /\ Present' = Present /\ Wanted' = Wanted
      /\ ProductionReleases' = ProductionReleases /\ LastRelease' = LastRelease
  BY SameReleases DEF StartContainerDoes, Present, Wanted, ProductionReleases
<1>3. /\ Own.id \in Present /\ row[Own.id].preview = Ask.preview
      /\ cursor \in 1 .. Len(log) /\ Ask.strategy = log[cursor].strategy
      /\ ~Ask.preview => Own.id \in Wanted /\ row[Own.id].cid = 0
  BY <1>2 DEF Releasing, Making, Asked, AtStart
<1>4. \A k \in Serving' : k \in Serving \/ (k.inst = Own.id /\ ~Ask.preview)
  BY <1>2, <1>3 DEF StartContainerDoes, StartsContainer, FailsToStart, Others, Serving
<1>5. \A k \in Serving' :
         /\ k.inst \in Wanted'
         /\ k.cid = row'[k.inst].cid \/ (At' = "record" /\ k.inst = Own'.id)
  <2>1. \A k \in Serving : k.inst \in Wanted /\ k.cid = row[k.inst].cid
    BY <1>2 DEF Production
  <2>2. QED
    BY <1>2, <1>3, <1>4, <2>1
<1>6. CASE Ask.preview
  <2>1. Steady
    BY <1>6 DEF Production
  <2>2. \A i \in Wanted : Live(i) # {} => {k \in up' : k.inst = i} # {}
    <3> SUFFICES ASSUME NEW i \in Wanted, NEW k \in up, k.inst = i
                 PROVE  k \in up'
      BY DEF Live
    <3>1. k \in Serving
      BY DEF Wanted, Serving
    <3>2. QED
      BY <1>6, <3>1, PreviewStart DEF Serving
  <2>3. Steady'
    BY <1>2, <2>1, <2>2 DEF Steady, Live
  <2>4. QED
    BY <1>2, <1>5, <1>6, <2>3 DEF Production
<1>7. CASE ~Ask.preview
  <2>1. /\ Wanted \subseteq {Old.id, Own.id}
        /\ Old # NoRow => Ask.strategy = "blue_green"
    BY <1>2, <1>7 DEF Production
  <2>2. CASE StartsContainer
    <3>1. Own'.status = "running" /\ {k \in up' : k.inst = Own.id} # {}
      <4> DEFINE n == [cid |-> started', name |-> Own.name, inst |-> Own.id]
      <4>1. n \in up' /\ n.inst = Own.id
        BY <2>2 DEF StartsContainer
      <4> HIDE DEF n
      <4>2. QED
        BY <2>2, <4>1 DEF StartsContainer
    <3>2. QED
      BY <1>2, <1>5, <1>7, <2>1, <3>1 DEF Production, Live
  <2>3. CASE FailsToStart
    <3>1. Own'.status = "failed"
      BY <2>3 DEF FailsToStart
    <3>2. PICK n \in Instances : n = Own.id
      BY <1>3 DEF Present
    <3>3. NeverStarted(n)'
      <4>1. Failed(n)'
        BY <1>2, <1>3, <1>7, <3>1, <3>2 DEF Failed
      <4>2. QED
        BY <4>1, NeverStartedAfter
    <3>4. \A d \in 1 .. Len(log) : log[d].strategy = "rolling"
      BY <1>2, <3>3 DEF NoFailedFlip
    <3>5. Old = NoRow
      BY <1>3, <2>1, <3>4
    <3>6. QED
      BY <1>2, <1>5, <1>7, <2>1, <3>1, <3>5 DEF Production
  <2>4. QED
    BY <2>2, <2>3 DEF StartContainerDoes
<1>8. QED
  BY <1>6, <1>7


LEMMA RecordServes ==
    ASSUME IInv, Releasing, RecordDoes, Production
    PROVE  Production'
<1>1. TypeOK /\ NoRow.id \notin Instances /\ \A k \in up : k.cid # 0
  BY Sizes DEF IInv
<1>2. /\ At = "record" /\ Writes(Own) /\ Own.id \in Instances /\ up' = up
      /\ ProductionReleases' = ProductionReleases /\ LastRelease' = LastRelease
  BY SameReleases DEF RecordDoes, Writes, Present, ProductionReleases
<1>3. /\ Present' = Present /\ row'[Own.id] = Own
      /\ \A i \in Instances : i # Own.id => row'[i] = row[i]
      /\ \A i \in Instances : row'[i].dep = row[i].dep /\ row'[i].preview = row[i].preview
  BY <1>1, <1>2, WrittenRow
<1>4. /\ Own.desired = "running" /\ Own.preview = Ask.preview
      /\ row[Own.id].preview = Ask.preview /\ row[Own.id].dep = cursor
      /\ ~Ask.preview => Own.id \in Wanted
  BY <1>2 DEF Releasing, Making, AtStart
<1>5. Wanted' = Wanted
  <2>1. Ask.preview => Own.id \notin Wanted
    BY <1>4 DEF Wanted
  <2>2. QED
    BY <1>1, <1>2, <1>4, <2>1, WrittenWanted
<1>6. \A k \in up : k.inst = Own.id => k.cid = Own.cid
  BY <1>2 DEF Releasing, Making, Live
<1>7. Serving' = Serving /\ Serving \subseteq up /\ Wanted \subseteq Instances
  BY ServingThere DEF Serving, Wanted, Present
<1>8. \A k \in Serving' : k.inst \in Wanted' /\ k.cid = row'[k.inst].cid
  <2>1. \A k \in Serving : /\ k.inst \in Wanted
                           /\ k.cid = row[k.inst].cid \/ k.inst = Own.id
    BY DEF Production
  <2>2. QED
    BY <1>3, <1>5, <1>6, <1>7, <2>1
<1>9. CASE Ask.preview
  <2>1. Steady /\ Own.id \notin Wanted
    BY <1>4, <1>9 DEF Production, Wanted
  <2>2. \A i \in Wanted : row'[i] = row[i]
    BY <1>3, <1>7, <2>1
  <2>3. Steady'
    BY <1>2, <1>5, <2>1, <2>2 DEF Steady, Live
  <2>4. Old = NoRow
    BY <1>2, <1>9 DEF Releasing, Asked
  <2>5. At' = "idle"
    BY <2>4 DEF RecordDoes, Gone
  <2>6. QED
    BY <1>8, <2>3, <2>5 DEF Production
<1>10. CASE ~Ask.preview /\ Gone
  <2>1. /\ Wanted \subseteq {Old.id, Own.id}
        /\ Own.status = "failed" => Old = NoRow
        /\ Own.status = "running" => Live(Own.id) # {}
    BY <1>2, <1>10 DEF Production
  <2>2. Own.status \in {"failed", "running"} /\ (Own.status = "failed" => Own.cid = 0)
    BY <1>2 DEF Releasing, Making
  <2>3. Old = NoRow
    <3>1. CASE At' = "flip"
      BY <1>10, <3>1 DEF Gone
    <3>2. CASE At' # "flip"
      BY <2>1, <2>2, <3>2 DEF RecordDoes
    <3>3. QED
      BY <3>1, <3>2
  <2>4. Wanted = {Own.id}
    BY <1>1, <1>4, <1>7, <1>10, <2>1, <2>3
  <2>5. row'[Own.id].dep = LastRelease'
    BY <1>1, <1>2, <1>3, <1>4, <1>10, LastIsCursor
  <2>6. row'[Own.id].cid # 0 => {k \in up' : k.inst = Own.id} # {}
    BY <1>2, <1>3, <2>1, <2>2 DEF Live
  <2>7. Steady'
    BY <1>5, <2>4, <2>5, <2>6 DEF Steady, Live
  <2>8. QED
    BY <1>8, <1>10, <2>7 DEF Production, Gone
<1>11. CASE ~Ask.preview /\ ~Gone
  <2>1. /\ At' = "flip" /\ Own.status = "running"
        /\ Ask' = Ask /\ Old' = Old /\ Own' = Own
    BY <1>11 DEF RecordDoes
  <2>2. /\ Wanted \subseteq {Old.id, Own.id}
        /\ Old # NoRow => Ask.strategy = "blue_green"
        /\ Live(Own.id) # {}
    BY <1>2, <1>11, <2>1 DEF Production
  <2>3. QED
    BY <1>2, <1>5, <1>8, <1>11, <2>1, <2>2 DEF Production, Live
<1>12. QED
  BY <1>9, <1>10, <1>11

LEMMA EventServes ==
    ASSUME IInv, Releasing, EventDoes, Production
    PROVE  Production'
<1>1. TypeOK /\ cursor \in Nat /\ Len(log) \in Nat
  BY Sizes DEF IInv
<1>2. /\ At = "idle" /\ At' \in {"retire", "insert"}
      /\ cursor' = cursor + 1 /\ cursor' <= Len(log)
      /\ UNCHANGED <<log, row, up>> /\ Ask'.preview = log[cursor'].preview
      /\ At' = "retire" <=> Old' # NoRow /\ Ask'.strategy = "rolling"
  BY DEF EventDoes
<1>3. /\ Present' = Present /\ Wanted' = Wanted /\ Serving' = Serving
  BY <1>2, RowsKept
<1>4. Steady /\ \A k \in Serving : k.inst \in Wanted /\ k.cid = row[k.inst].cid
  BY <1>2 DEF Production
<1>5. CASE Ask'.preview
  <2>1. ProductionReleases' = ProductionReleases
    <3>1. \A d \in 1 .. cursor + 1 : d \in 1 .. cursor \/ d = cursor + 1
      BY <1>1
    <3>2. log[cursor + 1].preview /\ 1 .. cursor \subseteq 1 .. cursor + 1
      BY <1>1, <1>2, <1>5
    <3>3. QED
      BY <1>2, <3>1, <3>2 DEF ProductionReleases
  <2>2. Steady'
    BY <1>2, <1>3, <1>4, <2>1, SameReleases DEF Steady, Live
  <2>3. QED
    BY <1>2, <1>3, <1>4, <1>5, <2>2 DEF Production
<1>6. CASE ~Ask'.preview
  <2>1. Wanted \subseteq {Old'.id}
    BY <1>4, <1>6 DEF EventDoes, Steady
  <2>2. Ask'.strategy \in {"rolling", "blue_green"}
    BY <1>1, <1>2, Sizes DEF EventDoes, StrategyKinds
  <2>3. Old' # NoRow /\ At' # "retire" => Ask'.strategy = "blue_green"
    BY <1>2, <2>2
  <2>4. QED
    BY <1>2, <1>3, <1>4, <1>6, <2>1, <2>3 DEF Production
<1>7. QED
  BY <1>5, <1>6

\* Steps that leave the release under way, the rows and the containers alone.
LEMMA ServesOn ==
    ASSUME Production, row' = row, up' = up, At' = At, Ask' = Ask, Old' = Old, Own' = Own,
           ProductionReleases' = ProductionReleases
    PROVE  Production'
<1>1. /\ Present' = Present /\ Wanted' = Wanted /\ Serving' = Serving
      /\ LastRelease' = LastRelease
  BY RowsKept, SameReleases
<1>2. Steady' <=> Steady
  BY <1>1 DEF Steady, Live
<1>3. QED
  BY <1>1, <1>2 DEF Production, Live

LEMMA LoopServes ==
    ASSUME IInv, Releasing, SkipDoes \/ AnnounceDoes \/ FindDoes, Production
    PROVE  Production'
<1>1. TypeOK /\ cursor \in Nat /\ Len(log) \in Nat /\ cursor <= Len(log)
  BY Sizes DEF IInv
<1>2. /\ row' = row /\ up' = up
      /\ At' = At /\ Ask' = Ask /\ Old' = Old /\ Own' = Own
  BY StillOnly DEF SkipDoes, AnnounceDoes, FindDoes
<1>3. ProductionReleases' = ProductionReleases
  <2>1. CASE SkipDoes
    <3>1. \A d \in 1 .. cursor + 1 : d \in 1 .. cursor \/ d = cursor + 1
      BY <1>1
    <3>2. /\ log' = log /\ cursor' = cursor + 1 /\ log[cursor + 1].status # "ready"
          /\ 1 .. cursor \subseteq 1 .. cursor + 1
      BY <1>1, <2>1 DEF SkipDoes
    <3>3. QED
      BY <3>1, <3>2 DEF ProductionReleases
  <2>2. CASE AnnounceDoes
    <3>1. cursor' = cursor /\ \A d \in 1 .. cursor : log'[d] = log[d]
      BY <1>1, <2>2, Announced DEF AnnounceDoes
    <3>2. QED
      BY <3>1 DEF ProductionReleases
  <2>3. CASE FindDoes
    BY <2>3 DEF FindDoes, ProductionReleases
  <2>4. QED
    BY <2>1, <2>2, <2>3
<1>4. QED
  BY <1>2, <1>3, ServesOn

LEMMA StopServes ==
    ASSUME IInv, Releasing, StopDoes, Production
    PROVE  Production'
<1>1. TypeOK /\ Present \subseteq Instances /\ Wanted \subseteq Present
  BY DEF IInv, Present, Wanted
<1>2. /\ At' = At /\ Ask' = Ask /\ Old' = Old /\ Own' = Own
      /\ ProductionReleases' = ProductionReleases /\ LastRelease' = LastRelease
  BY StillOnly, SameReleases DEF StopDoes, ProductionReleases
<1>3. /\ Wanted' = Wanted /\ Present' = Present
  BY <1>1, StoppedPreview
<1>4. PICK y \in dying :
         /\ y.id \notin Wanted /\ up' = {k \in up : k.cid # y.cid}
         /\ \A i \in Instances : i # y.id => row'[i] = row[i]
         /\ \A i \in Instances : row'[i].preview = row[i].preview
  BY <1>1, StoppedPreview
<1>5. \A i \in Wanted : row'[i] = row[i]
  BY <1>1, <1>4
<1>6. \A k \in up : k.inst \in Wanted => k \in up'
  <2>1. \A k \in up : k.cid = y.cid => k.inst = y.id
    BY DEF Releasing, Owned
  <2>2. QED
    BY <1>4, <2>1
<1>7. Serving' \subseteq Serving
  BY <1>1, <1>4, Sizes DEF Serving
<1>8. Steady => Steady'
  BY <1>2, <1>3, <1>5, <1>6 DEF Steady, Live
<1>9. \A i \in Wanted : Live(i) # {} => {k \in up' : k.inst = i} # {}
  BY <1>6 DEF Live
<1>10. ~Ask.preview /\ At \in AtStart => Own.id \in Wanted
  BY DEF Releasing, Making
<1>11. QED
  <2>1. \A k \in Serving' :
           /\ k.inst \in Wanted'
           /\ k.cid = row'[k.inst].cid \/ (At' = "record" /\ k.inst = Own'.id)
    BY <1>2, <1>3, <1>5, <1>7 DEF Production
  <2>2. At' = "idle" \/ Ask'.preview => Steady'
    BY <1>2, <1>8 DEF Production
  <2>3. At' \in {"record", "flip"} /\ Own'.status = "running" /\ ~Ask'.preview
           => {k \in up' : k.inst = Own'.id} # {}
    BY <1>2, <1>9, <1>10 DEF Production, AtStart
  <2>4. QED
    BY <1>2, <1>3, <2>1, <2>2, <2>3 DEF Production, Live

LEMMA ProductionStep ==
    ASSUME ReleasesAlone, IInv, Releasing, Releasing', [Next]_vars,
           NoFailedFlip => Production
    PROVE  (NoFailedFlip => Production)'
<1>1. CASE UNCHANGED vars
  <2>1. /\ row' = row /\ up' = up /\ log' = log /\ cursor' = cursor
        /\ At' = At /\ Ask' = Ask /\ Old' = Old /\ Own' = Own /\ cur' = cur
    BY <1>1 DEF vars, world, calls, At, Ask, Old, Own
  <2>2. ProductionReleases' = ProductionReleases
    BY <2>1 DEF ProductionReleases
  <2>3. NoFailedFlip' <=> NoFailedFlip
    BY <2>1 DEF NoFailedFlip, NeverStarted, Present
  <2>4. QED
    BY <2>1, <2>2, <2>3, ServesOn
<1>2. CASE Happens
  <2> SUFFICES ASSUME NoFailedFlip' PROVE Production'
    OBVIOUS
  <2>1. Production
    BY <1>2, NoFailedFlipBefore
  <2>2. QED
    BY <1>2, <2>1, RetireServes, InsertServes, StartServes, RecordServes, EventServes,
       LoopServes, StopServes DEF Happens
<1>3. QED
  BY <1>1, <1>2, OneStep

LEMMA ProductionInit ==
    ASSUME Init
    PROVE  Production
<1>1. Present = {} /\ Wanted = {} /\ Serving = {}
  BY DEF Init, Present, NoRow, Wanted, Serving
<1>2. ProductionReleases = {}
  BY DEF Init, ProductionReleases
<1>3. At = "idle"
  BY DEF Init, At, CallerKinds
<1>4. QED
  BY <1>1, <1>2, <1>3 DEF Production, Steady

-----------------------------------------------------------------------------
(* What the invariant says                                                 *)

LEMMA AtMostOneServes ==
    ASSUME IInv, Releasing, Production,
           ~(At \in {"record", "flip"} /\ Ask.strategy = "blue_green")
    PROVE  \A k, l \in Serving : k = l
<1>1. TypeOK /\ Wanted \subseteq Instances /\ NoRow.id \notin Instances
  BY Sizes DEF IInv, Wanted, Present
<1>2. \A k \in Serving : k \in up /\ k.inst \in Wanted
  BY DEF Production, Serving
<1>3. \A k, l \in up : k.inst = l.inst => k = l
  BY DEF Releasing, Owned
<1>4. \A k, l \in Serving : k.inst = l.inst
  <2>1. CASE At = "idle" \/ Ask.preview
    BY <1>2, <2>1 DEF Production, Steady
  <2>2. CASE At # "idle" /\ ~Ask.preview /\ Old = NoRow
    BY <1>1, <1>2, <2>2 DEF Production
  <2>3. CASE At \in {"retire", "insert"}
    <3>1. Own.id \notin Wanted
      BY <1>1, <2>3 DEF Releasing, Making
    <3>2. QED
      BY <1>2, <2>1, <2>3, <3>1 DEF Production
  <2>4. CASE At = "engine" /\ ~Ask.preview
    <3>1. \A k \in up : k.inst # Own.id
      BY <2>4 DEF Releasing, Making, Live
    <3>2. QED
      BY <1>2, <2>4, <3>1 DEF Production
  <2>5. CASE At \in {"record", "flip"} /\ ~Ask.preview /\ Old # NoRow
    BY <2>5 DEF Production
  <2>6. QED
    BY <2>1, <2>2, <2>3, <2>4, <2>5 DEF Releasing, Asked, AtStart
<1>5. QED
  BY <1>2, <1>3, <1>4

LEMMA TwoServe ==
    ASSUME IInv, Releasing, Production
    PROVE  \A j, k, l \in Serving : j = k \/ k = l \/ j = l
<1>1. \A k \in Serving : k \in up /\ k.inst \in Wanted
  BY DEF Production, Serving
<1>2. \A k, l \in up : k.inst = l.inst => k = l
  BY DEF Releasing, Owned
<1>3. \A j, k, l \in Wanted : j = k \/ k = l \/ j = l
  <2>1. CASE At = "idle" \/ Ask.preview
    BY <2>1 DEF Production, Steady
  <2>2. CASE At # "idle" /\ ~Ask.preview
    BY <2>2 DEF Production
  <2>3. QED
    BY <2>1, <2>2
<1>4. QED
  BY <1>1, <1>2, <1>3

LEMMA SmallSet ==
    ASSUME NEW S, \A j, k, l \in S : j = k \/ k = l \/ j = l
    PROVE  /\ Cardinality(S) \in 0 .. 2
           /\ (\A k, l \in S : k = l) => Cardinality(S) <= 1
<1>1. CASE S = {}
  BY <1>1, FS_EmptySet
<1>2. CASE S # {}
  <2>1. PICK a \in S : TRUE
    BY <1>2
  <2>2. Cardinality({a}) = 1 /\ IsFiniteSet({a})
    BY FS_Singleton
  <2>3. CASE S = {a}
    BY <2>2, <2>3
  <2>4. CASE S # {a}
    <3>1. PICK b \in S : b # a
      BY <2>1, <2>4
    <3>2. S = {a} \cup {b}
      BY <2>1, <3>1
    <3>3. Cardinality({a} \cup {b}) = 2
      BY <2>2, <3>1, FS_AddElement
    <3>4. QED
      BY <2>1, <3>1, <3>2, <3>3
  <2>5. QED
    BY <2>3, <2>4
<1>3. QED
  BY <1>1, <1>2

\* Together with the invariant that every property above rests on.
LEMMA ProductionHolds ==
    ASSUME ReleasesAlone
    PROVE  Spec => [](IInv /\ Releasing /\ (NoFailedFlip => Production))
<1>1. Init => IInv /\ Releasing /\ (NoFailedFlip => Production)
  BY IInvInit, ReleasingInit, ProductionInit
<1>2. IInv /\ Releasing /\ (NoFailedFlip => Production) /\ [Next]_vars
         => (IInv /\ Releasing /\ (NoFailedFlip => Production))'
  <2> SUFFICES ASSUME IInv, Releasing, NoFailedFlip => Production, [Next]_vars
               PROVE  (IInv /\ Releasing /\ (NoFailedFlip => Production))'
    OBVIOUS
  <2>1. IInv' /\ Releasing'
    BY IInvStep, ReleasingStep
  <2>2. QED
    BY <2>1, ProductionStep
<1>3. QED
  BY <1>1, <1>2, PTL DEF Spec

\* What the deploy path is for: at any time one production container runs, or
\* two while a blue/green start has not yet stopped the one it replaces, for
\* any number of releases and previews, whatever starts fail.
THEOREM OneProductionAtATime ==
    ASSUME ReleasesAlone
    PROVE  Spec => []OneProduction
<1>1. IInv /\ Releasing /\ (NoFailedFlip => Production) => OneProduction
  <2> SUFFICES ASSUME IInv, Releasing, Production
               PROVE  \/ Cardinality(Serving) <= 1
                      \/ /\ Cardinality(Serving) = 2
                         /\ req["deploy"].strategy = "blue_green"
                         /\ step["deploy"] \in {"record", "flip"}
    BY DEF OneProduction
  <2>1. Cardinality(Serving) \in 0 .. 2
    BY TwoServe, SmallSet
  <2>2. CASE At \in {"record", "flip"} /\ Ask.strategy = "blue_green"
    BY <2>1, <2>2 DEF At, Ask
  <2>3. CASE ~(At \in {"record", "flip"} /\ Ask.strategy = "blue_green")
    BY <2>3, AtMostOneServes, TwoServe, SmallSet
  <2>4. QED
    BY <2>2, <2>3
<1>2. QED
  BY <1>1, ProductionHolds, PTL

\* And between two releases production is the last release that was read: no
\* preview, teardown or failed start has put another in its place, and it runs
\* unless a start has failed.
THEOREM LastReleaseIsServed ==
    ASSUME ReleasesAlone
    PROVE  Spec => []LastReleaseServes
<1>1. IInv /\ Releasing /\ (NoFailedFlip => Production) => LastReleaseServes
  <2> SUFFICES ASSUME IInv, Releasing, Production, At = "idle", ProductionReleases # {}
               PROVE  /\ \A k \in Serving : row[k.inst].dep = LastRelease
                      /\ (\A i \in Instances : ~NeverStarted(i)) => Serving # {}
    BY DEF LastReleaseServes, LastRelease, At
  <2>1. /\ Steady /\ \A k \in Serving : k.inst \in Wanted
    BY DEF Production
  <2>2. PICK i \in Wanted : row[i].dep = LastRelease
    BY <2>1 DEF Steady
  <2>3. \A k \in Serving : k.inst = i
    BY <2>1, <2>2 DEF Steady
  <2>4. ASSUME ~NeverStarted(i) PROVE Serving # {}
    <3>1. Own = NoRow /\ i \in Present /\ ~row[i].preview
      BY DEF Releasing, Asked, Wanted
    <3>2. i \in Instances /\ NoRow.id # i
      BY <3>1, Sizes DEF Present, IInv
    <3>3. ~Failed(i)
      BY <2>4, <3>2, NeverStartedIs
    <3>4. row[i].cid # 0
      BY <3>1, <3>2, <3>3 DEF Failed
    <3>5. Live(i) # {}
      BY <2>1, <2>2, <3>4 DEF Steady
    <3>6. QED
      BY <3>1, <3>5 DEF Live, Serving
  <2>5. i \in Instances
    BY <2>2 DEF Wanted, Present
  <2>6. QED
    BY <2>2, <2>3, <2>4, <2>5
<1>2. QED
  BY <1>1, ProductionHolds, PTL

=============================================================================
