--------------------------- MODULE Accounts_proofs ---------------------------
(***************************************************************************)
(* Theorems about the rights and secrets of a tenant, and about the four   *)
(* account components together.                                            *)
(*                                                                         *)
(* Tenancy, for any organizations, people, invitations, projects,          *)
(* manifests and requests in flight: roles go back to the founder, and a   *)
(* project keeps the manifest that was applied last.                       *)
(*                                                                         *)
(* SecretVersions, for every number of secrets, values and requests: no    *)
(* lock protects the copy of a row from which SetSecret writes, and still  *)
(* a secret names a value that is stored.                                  *)
(*                                                                         *)
(* MCAccounts, what the run `accounts' checks: it implements each of its   *)
(* components, so that what is proved of them holds of it.                 *)
(***************************************************************************)
EXTENDS MCAccounts, Sessions_proofs, SignIn_proofs

-----------------------------------------------------------------------------
(* Tenancy: the invariant                                                  *)

\* A request that was let in works on an organization that can exist, and one
\* that invites was an owner's or an admin's when it asked.
LetIn ==
    \A c \in Clients :
        /\ client[c].step # "quiet" => client[c].org \in Orgs
        /\ client[c].step = "invite" => client[c].who \in granted[client[c].org]

\* An invitation is one person's into one organization, from somebody who had
\* been made an owner or an admin there.
Sent ==
    \A i \in Invites : invite[i].status # "absent" =>
        /\ invite[i].org \in Orgs
        /\ invite[i].email \in People
        /\ invite[i].by \in granted[invite[i].org]

\* Who is an owner or an admin has been granted it.
Granted ==
    \A o \in Orgs, u \in People :
        member[o][u] \in {"owner", "admin"} => u \in granted[o]

\* Nobody has a role in an organization that was not founded, so that founding
\* it overwrites nobody's.
NotFounded ==
    \A o \in Orgs : founder[o] = NoOne =>
        /\ granted[o] = {}
        /\ \A u \in People : member[o][u] = "none"

\* A manifest that was applied is valid and is the one in the row; a row that
\* is yet to be created has had none.
InRow ==
    \A p \in Projects :
        /\ applied[p] # NoManifest =>
               /\ project[p].config = Validate(applied[p])
               /\ project[p].config # NoManifest
        /\ project[p].status = "absent" => applied[p] = NoManifest

TenancyInv == /\ TenancyTypeOK
        /\ LetIn /\ Sent /\ Granted /\ NotFounded /\ RolesAreGranted
        /\ InRow

-----------------------------------------------------------------------------
(* Manifests                                                               *)

Deployable == [replicas : 1 .. 10, port : {0, 1, 65535}, strategy : Strategy \ {"unset"}]

\* Defaults are filled in once, and what is in bounds then may be stored.
LEMMA FilledOnce ==
    ASSUME NEW d \in DeployPart
    PROVE  /\ WithDefaults(d) # NoDeploy
           /\ WithDefaults(WithDefaults(d)) = WithDefaults(d)
           /\ InBounds(WithDefaults(d)) => WithDefaults(d) \in Deployable
<1>1. WithDefaults(d).strategy # "none"
  BY DEF WithDefaults, DeployPart, Strategy
<1>2. WithDefaults(WithDefaults(d)) = WithDefaults(d)
  BY DEF WithDefaults
<1>3. ASSUME InBounds(WithDefaults(d)) PROVE WithDefaults(d) \in Deployable
  BY <1>3 DEF InBounds, WithDefaults, DeployPart, Deployable, Strategy
<1> QED
  BY <1>1, <1>2, <1>3 DEF NoDeploy

LEMMA NormalRuntime ==
    ASSUME NEW r \in Runtimes
    PROVE  /\ normalizeRuntime(r) \in Runtimes \ {"node22", "node"}
           /\ normalizeRuntime(normalizeRuntime(r)) = normalizeRuntime(r)
BY DEF normalizeRuntime, Runtimes

\* What Validate lets through is stored in normal form, and it would let that
\* through as it is.
LEMMA ValidNormal ==
    ASSUME NEW m \in Manifest, Validate(m) # NoManifest
    PROVE  /\ Validate(m) \in Stored
           /\ Validate(Validate(m)) = Validate(m)
           /\ Validate(m).deploy # NoDeploy =>
                  Validate(m).deploy.replicas > 0 /\ Validate(m).deploy.strategy # "unset"
<1> DEFINE n == normalizeRuntime(m.runtime)
           d == IF m.deploy = NoDeploy THEN NoDeploy ELSE WithDefaults(m.deploy)
           s == [runtime |-> n, deploy |-> d]
<1>1. m.runtime \in Runtimes /\ (d = NoDeploy \/ InBounds(d)) /\ Validate(m) = s
  BY DEF Validate
<1>2. n \in Runtimes \ {"node22", "node"} /\ normalizeRuntime(n) = n
  BY <1>1, NormalRuntime
<1>3. d = NoDeploy \/ (d # NoDeploy /\ d \in Deployable /\ WithDefaults(d) = d)
  BY <1>1, FilledOnce DEF Manifest
<1> HIDE DEF n, d
<1>4. Validate(s) = s
  BY <1>1, <1>2, <1>3 DEF Validate
<1>5. s \in Stored
  BY <1>2, <1>3 DEF Stored, Deployable
<1>6. d # NoDeploy => d.replicas > 0 /\ d.strategy # "unset"
  BY <1>3 DEF Deployable
<1> QED
  BY <1>1, <1>4, <1>5, <1>6

-----------------------------------------------------------------------------
(* The initial states                                                      *)

LEMMA QuietTyped == Quiet \in ClientState /\ NoProject \in Row
BY DEF Quiet, ClientState, NoProject, Row

LEMMA TenancyInitInv == TenancyInit => TenancyInv
<1> SUFFICES ASSUME TenancyInit PROVE TenancyInv
  OBVIOUS
<1>1. TenancyTypeOK
  BY QuietTyped DEF TenancyInit, TenancyTypeOK, NoInvite, Roles
<1>2. LetIn /\ Sent /\ Granted /\ NotFounded /\ RolesAreGranted
  BY DEF TenancyInit, LetIn, Sent, Granted, NotFounded, RolesAreGranted, NoInvite, Quiet
<1>3. InRow
  BY DEF TenancyInit, InRow
<1> QED
  BY <1>1, <1>2, <1>3 DEF TenancyInv

-----------------------------------------------------------------------------
(* Organizations                                                           *)

\* The steps of the organization service leave projects alone, and their
\* requests stay let in.
LEMMA CreateOrgKeeps ==
    ASSUME TenancyInv, NEW u \in People, NEW o \in Orgs, CreateOrg(u, o)
    PROVE  TenancyInv'
<1> USE DEF CreateOrg
<1>1. TenancyTypeOK'
  BY DEF TenancyInv, TenancyTypeOK, Roles
<1>2. LetIn'
  BY DEF TenancyInv, TenancyTypeOK, LetIn, NotFounded
<1>3. Sent'
  BY DEF TenancyInv, TenancyTypeOK, Sent, NotFounded
<1>4. Granted'
  BY DEF TenancyInv, TenancyTypeOK, Granted, NotFounded
<1>5. NotFounded'
  BY TenancyAssumption DEF TenancyInv, TenancyTypeOK, NotFounded, TenancyAssumption
<1>6. RolesAreGranted'
  <2> SUFFICES ASSUME NEW q \in Orgs, NEW w \in People, member'[q][w] # "none"
               PROVE  \/ w = founder'[q] /\ member'[q][w] = "owner"
                      \/ \E i \in Invites :
                            /\ invite[i].status = "accepted" /\ invite[i].org = q
                            /\ invite[i].email = w /\ invite[i].role = member'[q][w]
                            /\ invite[i].by \in granted'[q]
    BY DEF RolesAreGranted
  <2>1. CASE q = o
    BY <2>1 DEF TenancyInv, TenancyTypeOK, NotFounded
  <2>2. CASE q # o
    BY <2>2 DEF TenancyInv, TenancyTypeOK, RolesAreGranted
  <2> QED
    BY <2>1, <2>2
<1>7. InRow'
  BY DEF TenancyInv, InRow
<1> QED
  BY <1>1, <1>2, <1>3, <1>4, <1>5, <1>6, <1>7 DEF TenancyInv

\* A step that leaves roles and invitations alone.
LEMMA RolesStay ==
    ASSUME TenancyInv, UNCHANGED <<member, founder, invite, granted>>
    PROVE  (Sent /\ Granted /\ NotFounded /\ RolesAreGranted)'
BY DEF TenancyInv, Sent, Granted, NotFounded, RolesAreGranted

\* A question to the organization service that is answered with yes.
LEMMA LetInKeeps ==
    ASSUME TenancyInv, NEW c \in Clients, NEW u \in People, NEW o \in Orgs,
           AskInvite(c, u, o) \/ requireMember(c, u, o)
    PROVE  TenancyInv'
<1>1. PICK step \in {"invite", "member"} :
          Enters(c, step, u, o) /\ (step = "invite" => member[o][u] \in {"owner", "admin"})
  BY DEF AskInvite, requireMember, MemberRole
<1>2. UNCHANGED <<member, founder, invite, project, granted, applied>>
  BY DEF AskInvite, requireMember
<1> DEFINE s == [step |-> step, who |-> u, org |-> o, id |-> 0, row |-> NoProject]
<1>3. s.step = step /\ s.who = u /\ s.org = o
  OBVIOUS
<1>4. s \in ClientState
  BY <1>1, QuietTyped DEF ClientState
<1>5. client' = [client EXCEPT ![c] = s]
  BY <1>1 DEF Enters
<1> HIDE DEF s
<1>6. TenancyTypeOK'
  BY <1>2, <1>4, <1>5 DEF TenancyInv, TenancyTypeOK
<1>7. LetIn'
  <2>1. step = "invite" => u \in granted[o]
    BY <1>1 DEF TenancyInv, Granted
  <2> QED
    BY <1>2, <1>3, <1>5, <2>1 DEF TenancyInv, TenancyTypeOK, LetIn
<1>8. (Sent /\ Granted /\ NotFounded /\ RolesAreGranted)'
  BY <1>2, RolesStay
<1>9. InRow'
  BY <1>2 DEF TenancyInv, InRow
<1> QED
  BY <1>6, <1>7, <1>8, <1>9 DEF TenancyInv

\* An answered request is over.
LEMMA QuitKeeps ==
    ASSUME TenancyInv, NEW c \in Clients, Quits(c), UNCHANGED granted
    PROVE  LetIn' /\ client' \in [Clients -> ClientState]
<1>1. client' \in [Clients -> ClientState]
  BY QuietTyped DEF TenancyInv, TenancyTypeOK, Quits
<1>2. LetIn'
  BY DEF TenancyInv, TenancyTypeOK, Quits, LetIn, Quiet
<1> QED
  BY <1>1, <1>2

LEMMA CreateInviteKeeps ==
    ASSUME TenancyInv, NEW c \in Clients, NEW e \in People, NEW r \in Roles,
           CreateInvite(c, e, r)
    PROVE  TenancyInv'
<1> DEFINE o == client[c].org
           w == client[c].who
<1>1. PICK n \in Invites :
          /\ invite[n].status = "absent"
          /\ invite' = [invite EXCEPT ![n] = [status |-> "open", org |-> o, email |-> e,
                                              role |-> r, by |-> w]]
  <2> DEFINE new == {i \in Invites : invite[i].status = "absent"}
  <2>1. new # {} /\ NewId(new) \in new
    BY DEF CreateInvite, NewId
  <2> QED
    BY <2>1 DEF CreateInvite
<1>2. o \in Orgs /\ w \in granted[o] /\ w \in People
  BY DEF CreateInvite, TenancyInv, LetIn, TenancyTypeOK
<1>3. /\ Quits(c) /\ UNCHANGED <<member, founder, project, granted, applied>>
  BY DEF CreateInvite
<1> HIDE DEF o, w
<1>4. TenancyTypeOK'
  BY <1>1, <1>2, <1>3, QuitKeeps DEF TenancyInv, TenancyTypeOK
<1>5. LetIn'
  BY <1>3, QuitKeeps
<1>6. Sent'
  BY <1>1, <1>2, <1>3 DEF TenancyInv, TenancyTypeOK, Sent
<1>7. (Granted /\ NotFounded /\ InRow)'
  BY <1>3 DEF TenancyInv, Granted, NotFounded, InRow
<1>8. RolesAreGranted'
  BY <1>1, <1>3 DEF TenancyInv, TenancyTypeOK, RolesAreGranted
<1> QED
  BY <1>4, <1>5, <1>6, <1>7, <1>8 DEF TenancyInv

LEMMA AcceptInviteKeeps ==
    ASSUME TenancyInv, NEW i \in Invites, NEW u \in People, AcceptInvite(i, u)
    PROVE  TenancyInv'
<1> DEFINE o == invite[i].org
           r == invite[i].role
<1>1. /\ o \in Orgs /\ r \in Roles /\ invite[i].email = u
      /\ invite[i].by \in granted[o] /\ invite[i].status = "open"
      /\ member'  = [member EXCEPT ![o][u] = r]
      /\ invite'  = [invite EXCEPT ![i].status = "accepted"]
      /\ granted' = [granted EXCEPT ![o] = IF r \in {"owner", "admin"} THEN @ \cup {u} ELSE @]
      /\ UNCHANGED <<founder, project, client, applied>>
  BY DEF AcceptInvite, TenancyInv, TenancyTypeOK, Sent
<1>2. founder[o] # NoOne
  BY <1>1 DEF TenancyInv, NotFounded
<1> HIDE DEF o, r
<1>3. \A q \in Orgs : granted[q] \subseteq granted'[q]
  BY <1>1 DEF TenancyInv, TenancyTypeOK
<1>4. TenancyTypeOK'
  <2>1. TenancyTypeOK
    BY DEF TenancyInv
  <2>2. member' \in [Orgs -> [People -> Roles \cup {"none"}]]
    BY <1>1, <2>1 DEF TenancyTypeOK
  <2>3. invite' \in [Invites ->
           [status : {"absent", "open", "accepted", "expired"},
            org : Orgs \cup {NoOne}, email : People \cup {NoOne}, role : Roles,
            by : People \cup {NoOne}]]
    BY <1>1, <2>1 DEF TenancyTypeOK
  <2>4. granted' \in [Orgs -> SUBSET People]
    BY <1>1, <2>1 DEF TenancyTypeOK
  <2> QED
    BY <1>1, <2>1, <2>2, <2>3, <2>4 DEF TenancyTypeOK
<1>5. LetIn'
  BY <1>1, <1>3 DEF TenancyInv, LetIn
<1>6. Sent'
  BY <1>1, <1>3 DEF TenancyInv, TenancyTypeOK, Sent
<1>7. Granted'
  BY <1>1, <1>3 DEF TenancyInv, TenancyTypeOK, Granted
<1>8. NotFounded'
  BY <1>1, <1>2 DEF TenancyInv, TenancyTypeOK, NotFounded
<1>9. RolesAreGranted'
  <2> SUFFICES ASSUME NEW q \in Orgs, NEW w \in People, member'[q][w] # "none"
               PROVE  \/ w = founder'[q] /\ member'[q][w] = "owner"
                      \/ \E j \in Invites :
                            /\ invite'[j].status = "accepted" /\ invite'[j].org = q
                            /\ invite'[j].email = w /\ invite'[j].role = member'[q][w]
                            /\ invite'[j].by \in granted'[q]
    BY DEF RolesAreGranted
  <2>1. CASE q = o /\ w = u
    BY <1>1, <1>3, <2>1 DEF TenancyInv, TenancyTypeOK, o, r
  <2>2. CASE ~(q = o /\ w = u)
    <3>1. member'[q][w] = member[q][w]
      BY <1>1, <2>2 DEF TenancyInv, TenancyTypeOK
    <3>2. CASE w = founder[q] /\ member[q][w] = "owner"
      BY <1>1, <3>1, <3>2
    <3>3. CASE \E j \in Invites : /\ invite[j].status = "accepted" /\ invite[j].org = q
                                  /\ invite[j].email = w /\ invite[j].role = member[q][w]
                                  /\ invite[j].by \in granted[q]
      <4>1. PICK j \in Invites : /\ invite[j].status = "accepted" /\ invite[j].org = q
                                 /\ invite[j].email = w /\ invite[j].role = member[q][w]
                                 /\ invite[j].by \in granted[q]
        BY <3>3
      <4>2. invite'[j] = invite[j]
        BY <1>1, <4>1 DEF TenancyInv, TenancyTypeOK
      <4> QED
        BY <1>3, <3>1, <4>1, <4>2
    <3> QED
      BY <3>1, <3>2, <3>3 DEF TenancyInv, RolesAreGranted
  <2> QED
    BY <2>1, <2>2
<1>10. InRow'
  BY <1>1 DEF TenancyInv, InRow
<1> QED
  BY <1>4, <1>5, <1>6, <1>7, <1>8, <1>9, <1>10 DEF TenancyInv

LEMMA InviteExpiresKeeps ==
    ASSUME TenancyInv, NEW i \in Invites, InviteExpires(i)
    PROVE  TenancyInv'
<1> USE DEF InviteExpires
<1>1. TenancyTypeOK'
  <2>1. TenancyTypeOK
    BY DEF TenancyInv
  <2> DEFINE I == [status : {"absent", "open", "accepted", "expired"},
                   org : Orgs \cup {NoOne}, email : People \cup {NoOne}, role : Roles,
                   by : People \cup {NoOne}]
             x == [invite[i] EXCEPT !.status = "expired"]
  <2>2. invite' \in [Invites -> I]
    <3>1. invite \in [Invites -> I] /\ invite' = [invite EXCEPT ![i] = x]
      BY <2>1 DEF TenancyTypeOK
    <3>2. x \in I
      BY <3>1
    <3> HIDE DEF I, x
    <3> QED
      BY <3>1, <3>2
  <2> QED
    BY <2>1, <2>2 DEF TenancyTypeOK
<1>2. (LetIn /\ Granted /\ NotFounded /\ InRow)'
  BY DEF TenancyInv, LetIn, Granted, NotFounded, InRow
<1>3. Sent'
  BY DEF TenancyInv, TenancyTypeOK, Sent
<1>4. RolesAreGranted'
  BY DEF TenancyInv, TenancyTypeOK, RolesAreGranted
<1> QED
  BY <1>1, <1>2, <1>3, <1>4 DEF TenancyInv

-----------------------------------------------------------------------------
(* Projects                                                                *)

\* A step of the project service keeps the invariant when it keeps the types
\* of its own variables, who is let in, and the manifests.
LEMMA ProjectStepKeeps ==
    ASSUME TenancyInv, UNCHANGED <<member, founder, invite, granted>>,
           project' \in [Projects -> Row], client' \in [Clients -> ClientState],
           applied' \in [Projects -> Manifest \cup {NoManifest}],
           LetIn', InRow'
    PROVE  TenancyInv'
<1>1. TenancyTypeOK'
  BY DEF TenancyInv, TenancyTypeOK
<1> QED
  BY <1>1, RolesStay DEF TenancyInv

LEMMA CreateProjectKeeps ==
    ASSUME TenancyInv, NEW c \in Clients, NEW s \in Slugs, CreateProject(c, s)
    PROVE  TenancyInv'
<1> DEFINE o == client[c].org
           r == [status |-> "there", org |-> o, slug |-> s, config |-> NoManifest]
<1>1. PICK n \in Projects : /\ project[n].status = "absent"
                            /\ project' = [project EXCEPT ![n] = r]
  <2> DEFINE new == {p \in Projects : project[p].status = "absent"}
  <2>1. new # {} /\ NewId(new) \in new
    BY DEF CreateProject, NewId
  <2> QED
    BY <2>1 DEF CreateProject
<1>2. Quits(c) /\ UNCHANGED <<member, founder, invite, granted, applied>>
  BY DEF CreateProject
<1>3. r \in Row
  <2>1. o \in Orgs
    BY DEF CreateProject, TenancyInv, LetIn
  <2> QED
    BY <2>1 DEF Row
<1>4. r.status = "there"
  OBVIOUS
<1> HIDE DEF r
<1>5. project' \in [Projects -> Row]
  BY <1>1, <1>3 DEF TenancyInv, TenancyTypeOK
<1>6. InRow'
  BY <1>1, <1>2, <1>4 DEF TenancyInv, TenancyTypeOK, InRow
<1> QED
  BY <1>2, <1>5, <1>6, QuitKeeps, ProjectStepKeeps DEF TenancyInv, TenancyTypeOK

LEMMA ReadProjectKeeps ==
    ASSUME TenancyInv, NEW c \in Clients, NEW p \in Projects, ReadProject(c, p)
    PROVE  TenancyInv'
<1>1. /\ client[c].step = "member"
      /\ client' = [client EXCEPT ![c] = [step |-> "update", who |-> @.who, org |-> @.org,
                                          id |-> p, row |-> project[p]]]
      /\ UNCHANGED <<member, founder, invite, project, granted, applied>>
  BY DEF ReadProject
<1>2. client' \in [Clients -> ClientState]
  BY <1>1 DEF TenancyInv, TenancyTypeOK, ClientState
<1>3. LetIn'
  BY <1>1 DEF TenancyInv, TenancyTypeOK, LetIn, ClientState
<1>4. InRow'
  BY <1>1 DEF TenancyInv, InRow
<1> QED
  BY <1>1, <1>2, <1>3, <1>4, ProjectStepKeeps DEF TenancyInv, TenancyTypeOK

\* A new name leaves the manifest of the row alone.
LEMMA UpdateProjectKeeps ==
    ASSUME TenancyInv, NEW c \in Clients, NEW s \in Slugs, UpdateProject(c, s)
    PROVE  TenancyInv'
<1> DEFINE p == client[c].id
<1>1. Quits(c) /\ UNCHANGED <<member, founder, invite, granted, applied>>
  BY DEF UpdateProject
<1>2. project' = project \/ project' = [project EXCEPT ![p].slug = s]
  BY DEF UpdateProject
<1> HIDE DEF p
<1>3. project' \in [Projects -> Row]
  <2>1. CASE p \in Projects
    <3>1. project[p] \in Row
      BY <2>1 DEF TenancyInv, TenancyTypeOK
    <3>2. [project[p] EXCEPT !.slug = s] \in Row
      BY <3>1 DEF Row
    <3> QED
      BY <1>2, <2>1, <3>2 DEF TenancyInv, TenancyTypeOK
  <2>2. CASE p \notin Projects
    BY <1>2, <2>2 DEF TenancyInv, TenancyTypeOK
  <2> QED
    BY <2>1, <2>2
<1>4. InRow'
  BY <1>1, <1>2 DEF TenancyInv, TenancyTypeOK, Row, InRow
<1> QED
  BY <1>1, <1>3, <1>4, QuitKeeps, ProjectStepKeeps DEF TenancyInv, TenancyTypeOK

LEMMA ApplyConfigKeeps ==
    ASSUME TenancyInv, NEW c \in Clients, NEW p \in Projects, NEW m \in Manifests,
           ApplyConfig(c, p, m)
    PROVE  TenancyInv'
<1>1. /\ Quits(c) /\ UNCHANGED <<member, founder, invite, granted>>
      /\ project[p].status = "there"
      /\ Validate(m) # NoManifest
      /\ project' = [project EXCEPT ![p].config = Validate(m)]
      /\ applied' = [applied EXCEPT ![p] = m]
  BY DEF ApplyConfig, InOrg
<1>2. m \in Manifest /\ Validate(m) \in Stored
  BY <1>1, ValidNormal, TenancyAssumption DEF TenancyAssumption
<1>3. project' \in [Projects -> Row] /\ applied' \in [Projects -> Manifest \cup {NoManifest}]
  <2> DEFINE x == [project[p] EXCEPT !.config = Validate(m)]
  <2>1. project \in [Projects -> Row] /\ applied \in [Projects -> Manifest \cup {NoManifest}]
    BY DEF TenancyInv, TenancyTypeOK
  <2>2. x \in Row
    BY <1>2, <2>1 DEF Row
  <2>3. project' = [project EXCEPT ![p] = x]
    BY <1>1
  <2> HIDE DEF x
  <2>4. project' \in [Projects -> Row]
    BY <2>1, <2>2, <2>3
  <2>5. applied' \in [Projects -> Manifest \cup {NoManifest}]
    BY <1>1, <1>2, <2>1
  <2> QED
    BY <2>4, <2>5
<1>4. InRow'
  BY <1>1 DEF TenancyInv, TenancyTypeOK, Row, InRow
<1> QED
  BY <1>1, <1>3, <1>4, QuitKeeps, ProjectStepKeeps

LEMMA DeleteProjectKeeps ==
    ASSUME TenancyInv, NEW c \in Clients, NEW p \in Projects, DeleteProject(c, p)
    PROVE  TenancyInv'
<1>1. /\ Quits(c) /\ UNCHANGED <<member, founder, invite, granted, applied>>
      /\ project' = [project EXCEPT ![p].status = "deleted"]
  BY DEF DeleteProject
<1>2. project' \in [Projects -> Row]
  <2> DEFINE x == [project[p] EXCEPT !.status = "deleted"]
  <2>1. project \in [Projects -> Row]
    BY DEF TenancyInv, TenancyTypeOK
  <2>2. x \in Row
    BY <2>1 DEF Row
  <2>3. project' = [project EXCEPT ![p] = x]
    BY <1>1, <2>1
  <2> HIDE DEF x
  <2> QED
    BY <2>1, <2>2, <2>3
<1>3. InRow'
  BY <1>1 DEF TenancyInv, TenancyTypeOK, Row, InRow
<1> QED
  BY <1>1, <1>2, <1>3, QuitKeeps, ProjectStepKeeps DEF TenancyInv, TenancyTypeOK

LEMMA RefusedKeeps ==
    ASSUME TenancyInv, NEW c \in Clients, Refused(c)
    PROVE  TenancyInv'
<1>1. Quits(c) /\ UNCHANGED <<member, founder, invite, project, granted, applied>>
  BY DEF Refused
<1>2. InRow'
  BY <1>1 DEF TenancyInv, InRow
<1> QED
  BY <1>1, <1>2, QuitKeeps, ProjectStepKeeps DEF TenancyInv, TenancyTypeOK

-----------------------------------------------------------------------------
(* The theorems                                                            *)

LEMMA TenancyStepKeeps ==
    ASSUME TenancyInv, [TenancyNext]_tenancyVars
    PROVE  TenancyInv'
<1>1. CASE \E u \in People, o \in Orgs :
              \/ CreateOrg(u, o)
              \/ \E c \in Clients : AskInvite(c, u, o) \/ requireMember(c, u, o)
  BY <1>1, CreateOrgKeeps, LetInKeeps
<1>2. CASE \E c \in Clients, e \in People, r \in Roles : CreateInvite(c, e, r)
  BY <1>2, CreateInviteKeeps
<1>3. CASE \/ \E i \in Invites, u \in People : AcceptInvite(i, u)
           \/ \E i \in Invites : InviteExpires(i)
  BY <1>3, AcceptInviteKeeps, InviteExpiresKeeps
<1>4. CASE \E c \in Clients : \/ \E s \in Slugs : CreateProject(c, s) \/ UpdateProject(c, s)
                              \/ Refused(c)
  BY <1>4, CreateProjectKeeps, UpdateProjectKeeps, RefusedKeeps
<1>5. CASE \E c \in Clients, p \in Projects :
              \/ ReadProject(c, p) \/ DeleteProject(c, p)
              \/ \E m \in Manifests : ApplyConfig(c, p, m)
  BY <1>5, ReadProjectKeeps, DeleteProjectKeeps, ApplyConfigKeeps
<1>6. CASE UNCHANGED tenancyVars
  <2>1. TenancyTypeOK' /\ LetIn' /\ InRow'
    BY <1>6 DEF TenancyInv, TenancyTypeOK, LetIn, InRow, tenancyVars
  <2> QED
    BY <1>6, <2>1, RolesStay DEF TenancyInv, tenancyVars
<1> QED
  BY <1>1, <1>2, <1>3, <1>4, <1>5, <1>6 DEF TenancyNext

LEMMA TenancyInvariant == TenancySpec => []TenancyInv
<1>1. TenancyInv /\ [TenancyNext]_tenancyVars => TenancyInv'
  BY TenancyStepKeeps
<1> QED
  BY TenancyInitInv, <1>1, PTL DEF TenancySpec

\* Every role in an organization goes back to its founder, over invitations
\* whose senders had been made an owner or an admin before, however requests
\* meet.
THEOREM RolesGoBack == TenancySpec => []RolesAreGranted
<1>1. TenancyInv => RolesAreGranted
  BY DEF TenancyInv
<1> QED
  BY TenancyInvariant, <1>1, PTL

\* A project keeps the manifest that was applied last, in normal form, whatever
\* updates from older copies of its row are written after it.
THEOREM ManifestKept == TenancySpec => []ManifestIsLastApplied
<1>1. TenancyInv => ManifestIsLastApplied
  <2> SUFFICES ASSUME TenancyInv, NEW p \in Projects, applied[p] # NoManifest
               PROVE  LET config == project[p].config IN
                      /\ config = Validate(applied[p])
                      /\ config = Validate(config)
                      /\ config.deploy # NoDeploy =>
                             config.deploy.replicas > 0 /\ config.deploy.strategy # "unset"
    BY DEF ManifestIsLastApplied
  <2>1. applied[p] \in Manifest
    BY DEF TenancyInv, TenancyTypeOK
  <2>2. project[p].config = Validate(applied[p]) /\ project[p].config # NoManifest
    BY DEF TenancyInv, InRow
  <2> QED
    BY <2>1, <2>2, ValidNormal
<1> QED
  BY TenancyInvariant, <1>1, PTL

-----------------------------------------------------------------------------
(* Secrets: the invariant                                                  *)

HasCipher(i, v) == history[i][v] # NoCipher

There(i) == secret[i].status = "there"

\* A value is stored for a secret that is there, and is at least as recent as
\* its version's number says; the version a row names is stored, beside its
\* hint.
SecretTables ==
    \A i \in SecretIds :
        /\ \A v \in Versions : HasCipher(i, v) =>
               There(i) /\ v <= history[i][v].plain /\ history[i][v].plain <= valuesSet
        /\ There(i) => /\ secret[i].version \in Versions
                       /\ HasCipher(i, secret[i].version)
                       /\ secret[i].hint = history[i][secret[i].version].plain

UniqueNames == \A i, j \in SecretIds :
              There(i) /\ There(j) /\ secret[i].name = secret[j].name => i = j

Copying(r) == request[r].step \in {"set", "value"} /\ request[r].id # 0

\* The version a request has read is still there, as long as the secret is,
\* and was stored before the value the request brings.
GoodCopy(r) ==
    /\ Copying(r) =>
          /\ request[r].row.version \in Versions
          /\ secret[request[r].id].status # "absent"
          /\ There(request[r].id) =>
                /\ HasCipher(request[r].id, request[r].row.version)
                /\ request[r].row.hint =
                      history[request[r].id][request[r].row.version].plain
                /\ request[r].step = "value" =>
                      Decrypt(history[request[r].id][request[r].row.version])
                          = request[r].promised
          /\ request[r].value # 0 => request[r].row.version < request[r].value
    /\ request[r].step = "value" => request[r].id # 0
    /\ request[r].step = "set" =>
          /\ request[r].value <= valuesSet
          /\ request[r].id = 0 => request[r].value # 0

SecretCopies == \A r \in Requests : GoodCopy(r)

Setting(r, i) == request[r].step = "set" /\ request[r].id = i

\* Who writes a secret alone writes from its row as it is.
SetsAlone ==
    \A i \in SecretIds \ overlapped : There(i) =>
        /\ \A v \in Versions : HasCipher(i, v) => v <= secret[i].version
        /\ \A r \in Requests : Setting(r, i) =>
              /\ request[r].row.version = secret[i].version
              /\ \A q \in Requests : Setting(q, i) => q = r

SecretsInv == SecretsTypeOK /\ SecretTables /\ UniqueNames /\ SecretCopies /\ SetsAlone

-----------------------------------------------------------------------------
(* Rows, ciphers and requests                                              *)

Held == [step : {"waiting", "set", "value"}, id : {0} \cup SecretIds, row : Rows,
         target : SecretNames \cup {NoName}, value : {0} \cup Values,
         promised : {0} \cup Values]

LEMMA SecretTypes ==
    ASSUME SecretsTypeOK
    PROVE  /\ secret \in [SecretIds -> Rows]
           /\ history \in [SecretIds -> [Versions -> Ciphers]]
           /\ masterKey \in MasterKeys
           /\ request \in [Requests -> Held]
           /\ valuesSet \in {0} \cup Values
BY DEF SecretsTypeOK, Held

\* No row and no request.
LEMMA Blanks == /\ Waiting \in Held /\ Waiting.step = "waiting"
                /\ Waiting.id = 0 /\ Waiting.row = NoSecret /\ Waiting.value = 0
                /\ NoSecret \in Rows /\ NoSecret.status = "absent"
                /\ NoCipher \in Ciphers /\ NoCipher.plain = 0
BY DEF Waiting, Held, NoSecret, Rows, NoCipher, Ciphers

\* What is sealed is a cipher that holds the value.
LEMMA Sealed ==
    ASSUME SecretsTypeOK, NEW x \in Values
    PROVE  Encrypt(x) \in Ciphers /\ Encrypt(x).plain = x /\ Encrypt(x) # NoCipher
<1>1. Encrypt(x) \in Ciphers /\ Encrypt(x).plain = x
  BY DEF SecretsTypeOK, Encrypt, Ciphers
<1>2. x # 0
  BY DEF Values
<1>3. QED
  BY <1>1, <1>2, Blanks

\* An opened cipher is a value or nothing.
LEMMA Opened ==
    ASSUME NEW ct \in Ciphers
    PROVE  Decrypt(ct) \in {0} \cup Values
BY DEF Decrypt, Ciphers, NoCipher

LEMMA FreshIsUnmade ==
    ASSUME Unmade # {}
    PROVE  Fresh \in SecretIds /\ secret[Fresh].status = "absent"
BY DEF Fresh, Unmade

\* Requests that are answered hold nothing any more.
Fewer == request' \in [Requests -> Held]
         /\ \A r \in Requests : request'[r] \in {request[r], Waiting}

LEMMA AnswersFewer ==
    ASSUME SecretsTypeOK, NEW r \in Requests, Answers(r)
    PROVE  Fewer
BY SecretTypes, Blanks DEF Answers, Fewer

\* The copies in flight stay good while what is stored stays and nothing that
\* was made comes back.
LEMMA CopiesKept ==
    ASSUME SecretsTypeOK, SecretCopies, Fewer, masterKey' = masterKey,
           valuesSet' \in {0} \cup Values, valuesSet <= valuesSet',
           \A i \in SecretIds : secret[i].status # "absent" =>
              /\ secret'[i].status # "absent"
              /\ secret'[i].status = "there" => secret[i].status = "there"
              /\ \A v \in Versions : /\ history[i][v] # NoCipher
                                     /\ secret'[i].status = "there"
                                     => history'[i][v] = history[i][v]
    PROVE  SecretCopies'
<1> SUFFICES ASSUME NEW r \in Requests PROVE GoodCopy(r)'
  BY DEF SecretCopies
<1>1. CASE request'[r] = Waiting
  BY <1>1, Blanks DEF Copying, GoodCopy
<1>2. CASE request'[r] = request[r]
  <2>1. request[r] \in Held /\ valuesSet \in {0} \cup Values
    BY SecretTypes
  <2>2. Copying(r) => request[r].id \in SecretIds
    BY <2>1 DEF Copying, Held
  <2>3. request[r].value \in Nat /\ valuesSet \in Nat /\ valuesSet' \in Nat
    BY <2>1 DEF Held, Values
  <2>4. request[r].step = "set" => request[r].value <= valuesSet'
    BY <2>3 DEF SecretCopies, GoodCopy
  <2> DEFINE i == request[r].id
             v == request[r].row.version
  <2>5. GoodCopy(r)
    BY DEF SecretCopies
  <2>6. ASSUME Copying(r), secret'[i].status = "there"
        PROVE  There(i) /\ history'[i][v] = history[i][v] /\ HasCipher(i, v)
    <3>1. i \in SecretIds /\ v \in Versions /\ secret[i].status # "absent"
      BY <2>2, <2>5, <2>6 DEF GoodCopy
    <3>2. There(i)
      BY <2>6, <3>1 DEF There
    <3>3. HasCipher(i, v)
      BY <2>5, <2>6, <3>2 DEF GoodCopy
    <3>4. QED
      BY <2>6, <3>1, <3>2, <3>3 DEF HasCipher
  <2>7. Copying(r) => secret'[i].status # "absent"
    BY <2>2, <2>5 DEF GoodCopy
  <2>8. QED
    BY <1>2, <2>4, <2>5, <2>6, <2>7 DEF GoodCopy, Copying, There, HasCipher, Decrypt
<1>3. QED
  BY <1>1, <1>2 DEF Fewer

\* A secret is made.
LEMMA CreateKeeps ==
    ASSUME SecretsInv, NEW n \in SecretNames \cup {NoName}, NEW x \in Values, Unmade # {},
           GetSecret(n) = {}, CreateSecret(Fresh, n, x), Fewer,
           x <= valuesSet', valuesSet' \in {0} \cup Values, valuesSet <= valuesSet',
           UNCHANGED <<environments, masterKey, overlapped>>
    PROVE  SecretsInv'
<1> DEFINE f == Fresh
           n1 == [status |-> "there", name |-> n, version |-> 1, hint |-> x]
<1>1. f \in SecretIds /\ secret[f].status = "absent"
  BY FreshIsUnmade
<1>2. /\ secret' = [secret EXCEPT ![f] = n1]
      /\ history' = [history EXCEPT ![f][1] = Encrypt(x)]
  BY DEF CreateSecret, Hint
<1>3. SecretsTypeOK /\ SecretTables /\ UniqueNames /\ SecretCopies /\ SetsAlone
  BY DEF SecretsInv
<1>4. 1 \in Versions /\ n1 \in Rows
  <2>1. 1 \in Versions
    BY SecretsAssumption DEF Versions, Values, SecretsAssumption
  <2>2. QED
    BY <2>1 DEF Rows
<1>5. Encrypt(x) \in Ciphers /\ Encrypt(x).plain = x /\ Encrypt(x) # NoCipher
  BY <1>3, Sealed
<1> HIDE DEF f
<1>6. /\ secret' \in [SecretIds -> Rows]
      /\ history' \in [SecretIds -> [Versions -> Ciphers]]
      /\ secret'[f] = n1 /\ history'[f][1] = Encrypt(x)
      /\ \A v \in Versions \ {1} : history'[f][v] = history[f][v]
      /\ \A i \in SecretIds \ {f} : secret'[i] = secret[i] /\ history'[i] = history[i]
  BY <1>1, <1>2, <1>3, <1>4, <1>5, SecretTypes
<1>7. SecretsTypeOK'
  BY <1>3, <1>6 DEF SecretsTypeOK, Fewer, Held
<1>8. \A v \in Versions : history[f][v] = NoCipher
  BY <1>1, <1>3 DEF SecretTables, HasCipher, There
<1>9. x \in Nat /\ 1 <= x /\ valuesSet \in Nat /\ valuesSet' \in Nat
  BY <1>3 DEF Values, SecretsTypeOK
<1>10. SecretTables'
  <2>1. ASSUME NEW i \in SecretIds \ {f}, NEW v \in Versions, history[i][v] # NoCipher
        PROVE  v <= history[i][v].plain /\ history[i][v].plain <= valuesSet'
    <3>1. v <= history[i][v].plain /\ history[i][v].plain <= valuesSet
      BY <1>3, <2>1 DEF SecretTables, HasCipher
    <3>2. history[i][v].plain \in Nat
      BY <1>3, <2>1, SecretTypes DEF Ciphers, Values
    <3>3. QED
      BY <1>9, <3>1, <3>2
  <2>2. ASSUME NEW i \in SecretIds \ {f}
        PROVE  /\ \A v \in Versions : history'[i][v] # NoCipher =>
                     /\ secret'[i].status = "there"
                     /\ v <= history'[i][v].plain /\ history'[i][v].plain <= valuesSet'
               /\ secret'[i].status = "there" =>
                     /\ secret'[i].version \in Versions
                     /\ history'[i][secret'[i].version] # NoCipher
                     /\ secret'[i].hint = history'[i][secret'[i].version].plain
    BY <1>3, <1>6, <2>1, <2>2 DEF SecretTables, HasCipher, There
  <2>3. /\ \A v \in Versions : history'[f][v] # NoCipher =>
               v = 1 /\ history'[f][v].plain = x
        /\ secret'[f].status = "there" /\ secret'[f].version = 1 /\ secret'[f].hint = x
        /\ history'[f][1] # NoCipher /\ history'[f][1].plain = x
    BY <1>5, <1>6, <1>8
  <2>4. QED
    BY <1>1, <1>4, <1>9, <2>2, <2>3 DEF SecretTables, HasCipher, There
<1>11. UniqueNames'
  BY <1>1, <1>3, <1>6 DEF UniqueNames, There, GetSecret
<1>12. SecretCopies'
  BY <1>1, <1>3, <1>6, CopiesKept
<1>13. SetsAlone'
  <2>1. \A r \in Requests : ~Setting(r, f)
    BY <1>1, <1>3 DEF SecretCopies, GoodCopy, Copying, Setting, SecretIds
  <2>2. \A r \in Requests, i \in SecretIds : request'[r].step = "set" /\ request'[r].id = i
            => Setting(r, i) /\ request'[r] = request[r]
    BY Blanks DEF Fewer, Setting
  <2>3. \A v \in Versions : history'[f][v] # NoCipher => v <= secret'[f].version
    BY <1>6, <1>8
  <2>4. \A i \in SecretIds, r \in Requests :
           request'[r].step = "set" /\ request'[r].id = i => i # f
    BY <2>1, <2>2
  <2>5. ASSUME NEW i \in SecretIds \ overlapped, i # f, secret'[i].status = "there"
        PROVE  /\ \A v \in Versions : history'[i][v] # NoCipher => v <= secret'[i].version
               /\ \A q \in Requests : request'[q].step = "set" /\ request'[q].id = i =>
                     /\ request'[q].row.version = secret'[i].version
                     /\ \A p \in Requests : request'[p].step = "set" /\ request'[p].id = i
                                               => p = q
    <3>1. There(i) /\ secret'[i] = secret[i] /\ history'[i] = history[i]
      BY <1>3, <1>6, <2>5 DEF There
    <3>2. /\ \A v \in Versions : HasCipher(i, v) => v <= secret[i].version
          /\ \A q \in Requests : Setting(q, i) =>
                /\ request[q].row.version = secret[i].version
                /\ \A p \in Requests : Setting(p, i) => p = q
      BY <1>3, <2>5, <3>1 DEF SetsAlone
    <3>3. QED
      BY <2>2, <2>5, <3>1, <3>2 DEF HasCipher
  <2>6. QED
    BY <1>1, <2>3, <2>4, <2>5 DEF SetsAlone, There, HasCipher, Setting
<1>14. QED
  BY <1>7, <1>10, <1>11, <1>12, <1>13 DEF SecretsInv

\* A secret that is written gets the request's version.
LEMMA UpdateKeeps ==
    ASSUME SecretsInv, NEW r \in Requests, request[r].step = "set", Answers(r),
           request[r].id # 0, There(request[r].id),
           ~UpdateFails(request[r].id, request[r].row, request[r].target, request[r].value),
           UpdateSecretWithRename(request[r].id, request[r].row, request[r].target,
                                  request[r].value),
           UNCHANGED <<environments, masterKey, valuesSet, overlapped>>
    PROVE  SecretsInv'
<1> DEFINE i == request[r].id
           old == request[r].row.version
           x == request[r].value
           next == IF x = 0 THEN old ELSE old + 1
           hint == IF x = 0 THEN request[r].row.hint ELSE x
           n1 == [secret[i] EXCEPT !.name = request[r].target, !.version = next,
                                   !.hint = hint]
<1>1. SecretsTypeOK /\ SecretTables /\ UniqueNames /\ SecretCopies /\ SetsAlone
  BY DEF SecretsInv
<1>2. /\ request[r] \in Held /\ i \in SecretIds /\ secret[i] \in Rows
      /\ secret[i].status = "there" /\ x \in {0} \cup Values
      /\ request[r].row \in Rows /\ request[r].target \in SecretNames \cup {NoName}
  <2>1. request[r] \in Held
    BY <1>1, SecretTypes
  <2>2. i \in SecretIds /\ x \in {0} \cup Values /\ request[r].row \in Rows
        /\ request[r].target \in SecretNames \cup {NoName}
    BY <2>1 DEF Held
  <2>3. QED
    BY <1>1, <2>1, <2>2, SecretTypes DEF There
<1>3. /\ old \in Versions /\ history[i][old] # NoCipher
      /\ request[r].row.hint = history[i][old].plain
      /\ x # 0 => old < x
  BY <1>1 DEF SecretCopies, GoodCopy, Copying, There, HasCipher
<1>4. x <= valuesSet /\ valuesSet \in Nat /\ x \in Nat /\ old \in Nat
  <2>1. valuesSet \in Nat /\ x \in Nat /\ old \in Nat
    BY <1>1, <1>2, <1>3 DEF Versions, Values, SecretsTypeOK
  <2>2. QED
    BY <1>1, <2>1 DEF SecretCopies, GoodCopy
<1>5. next \in Versions
  BY <1>2, <1>3, <1>4, SecretsAssumption DEF Versions, Values, SecretsAssumption
<1>6. /\ x # 0 => history[i][next] = NoCipher
      /\ GetSecret(request[r].target) \ {i} = {}
  BY <1>2, <1>5 DEF UpdateFails, GetCiphertext
<1>7. x # 0 => /\ Encrypt(x) \in Ciphers /\ Encrypt(x).plain = x
               /\ Encrypt(x) # NoCipher /\ next <= x
  BY <1>1, <1>2, <1>3, <1>4, Sealed
<1>8. /\ n1 \in Rows /\ n1.status = "there" /\ n1.name = request[r].target
      /\ n1.version = next /\ n1.hint = hint
  <2>1. hint \in {0} \cup Values /\ next \in {0} \cup Versions
    BY <1>2, <1>5 DEF Rows
  <2> HIDE DEF next, hint
  <2>2. QED
    BY <1>2, <2>1 DEF Rows
<1>9. /\ secret' = [secret EXCEPT ![i] = n1]
      /\ x = 0 => history' = history
      /\ x # 0 => history' = [history EXCEPT ![i][next] = Encrypt(x)]
  BY <1>1, <1>2, SecretTypes DEF UpdateSecretWithRename, Hint
<1>10. Fewer
  BY <1>1, AnswersFewer
<1> HIDE DEF n1, next
<1>11. /\ secret' \in [SecretIds -> Rows] /\ secret'[i] = n1
       /\ \A j \in SecretIds \ {i} : secret'[j] = secret[j] /\ history'[j] = history[j]
  <2>1. secret \in [SecretIds -> Rows] /\ history \in [SecretIds -> [Versions -> Ciphers]]
    BY <1>1, SecretTypes
  <2>2. QED
    BY <1>2, <1>8, <1>9, <2>1
<1>12. /\ history' \in [SecretIds -> [Versions -> Ciphers]]
       /\ \A v \in Versions \ {next} : history'[i][v] = history[i][v]
       /\ x # 0 => history'[i][next] = Encrypt(x)
       /\ x = 0 => history'[i][next] = history[i][next] /\ next = old
  <2>1. history \in [SecretIds -> [Versions -> Ciphers]]
    BY <1>1, SecretTypes
  <2>2. CASE x = 0
    BY <1>9, <2>1, <2>2 DEF next
  <2>3. CASE x # 0
    BY <1>2, <1>5, <1>7, <1>9, <2>1, <2>3
  <2>4. QED
    BY <2>2, <2>3
<1>13. SecretsTypeOK'
  BY <1>1, <1>10, <1>11, <1>12 DEF SecretsTypeOK, Fewer, Held
<1>14. /\ history'[i][next] # NoCipher /\ hint = history'[i][next].plain
       /\ next <= history'[i][next].plain /\ history'[i][next].plain <= valuesSet
  <2>1. CASE x = 0
    BY <1>1, <1>2, <1>3, <1>12, <2>1 DEF SecretTables, HasCipher
  <2>2. CASE x # 0
    BY <1>4, <1>7, <1>12, <2>2
  <2>3. QED
    BY <2>1, <2>2
<1> HIDE DEF hint
<1>15. SecretTables'
  BY <1>1, <1>2, <1>5, <1>8, <1>11, <1>12, <1>14 DEF SecretTables, HasCipher, There
<1>16. UniqueNames'
  BY <1>1, <1>2, <1>6, <1>8, <1>11 DEF UniqueNames, There, GetSecret
<1>17. SecretCopies'
  <2>1. \A v \in Versions : history[i][v] # NoCipher => history'[i][v] = history[i][v]
    BY <1>6, <1>12
  <2>2. valuesSet' \in {0} \cup Values /\ valuesSet <= valuesSet'
    BY <1>1, <1>4 DEF SecretsTypeOK
  <2>3. QED
    BY <1>1, <1>2, <1>8, <1>10, <1>11, <2>1, <2>2, CopiesKept
<1>18. SetsAlone'
  <2>1. \A q \in Requests, j \in SecretIds :
           request'[q].step = "set" /\ request'[q].id = j
              => Setting(q, j) /\ request'[q] = request[q] /\ q # r
    BY <1>1, <1>10, Blanks, SecretTypes DEF Fewer, Setting, Answers
  <2>2. ASSUME i \notin overlapped
        PROVE  /\ \A v \in Versions : history'[i][v] # NoCipher => v <= secret'[i].version
               /\ \A q \in Requests : ~(request'[q].step = "set" /\ request'[q].id = i)
    <3>1. Setting(r, i) /\ i \in SecretIds \ overlapped /\ There(i)
      BY <1>2, <2>2 DEF Setting
    <3>2. \A q \in Requests : Setting(q, i) => q = r
      BY <1>1, <3>1 DEF SetsAlone
    <3>3. old = secret[i].version /\ \A v \in Versions : history[i][v] # NoCipher => v <= old
      BY <1>1, <3>1 DEF SetsAlone, HasCipher
    <3>4. next >= old /\ next \in Nat
      BY <1>4 DEF next
    <3>5. \A v \in Versions : history'[i][v] # NoCipher => v <= next
      BY <1>4, <1>12, <3>3, <3>4 DEF Versions
    <3>6. QED
      BY <1>2, <1>8, <1>11, <2>1, <3>2, <3>5
  <2>3. ASSUME NEW j \in SecretIds \ overlapped, j # i, secret'[j].status = "there"
        PROVE  /\ \A v \in Versions : history'[j][v] # NoCipher => v <= secret'[j].version
               /\ \A q \in Requests : request'[q].step = "set" /\ request'[q].id = j =>
                     /\ request'[q].row.version = secret'[j].version
                     /\ \A p \in Requests : request'[p].step = "set" /\ request'[p].id = j
                                               => p = q
    BY <1>1, <1>11, <2>1, <2>3 DEF SetsAlone, Setting, There, HasCipher
  <2>4. QED
    BY <2>2, <2>3 DEF SetsAlone, Setting, There, HasCipher
<1>19. QED
  BY <1>13, <1>15, <1>16, <1>17, <1>18 DEF SecretsInv

-----------------------------------------------------------------------------
(* The operations                                                          *)

\* Environments and a restart with another key: no copy outlives a restart.
LEMMA RestartKeeps ==
    ASSUME SecretsInv, NEW k \in MasterKeys, NewFromEnv(k)
    PROVE  SecretsInv'
<1>1. /\ SecretsTypeOK /\ SecretTables /\ UniqueNames /\ SetsAlone
      /\ request' = [r \in Requests |-> Waiting] /\ masterKey' = k
      /\ UNCHANGED <<secret, history, environments, valuesSet, overlapped>>
  BY DEF SecretsInv, NewFromEnv
<1>2. SecretsTypeOK'
  <2>1. request' \in [Requests -> Held]
    BY <1>1, Blanks
  <2>2. QED
    BY <1>1, <2>1 DEF SecretsTypeOK, Held
<1>3. \A r \in Requests : request'[r].step = "waiting"
  BY <1>1, Blanks
<1>4. SecretTables' /\ UniqueNames' /\ SecretCopies' /\ SetsAlone'
  BY <1>1, <1>3 DEF SecretTables, UniqueNames, SecretCopies, GoodCopy, Copying, SetsAlone, Setting, HasCipher, There
<1>5. QED
  BY <1>2, <1>4 DEF SecretsInv

LEMMA EnvironmentsKeep ==
    ASSUME SecretsInv, environments' \subseteq Environments,
           UNCHANGED <<secret, history, masterKey, request, valuesSet, overlapped>>
    PROVE  SecretsInv'
<1>1. SecretsTypeOK'
  BY DEF SecretsInv, SecretsTypeOK
<1>2. SecretTables' /\ UniqueNames'
  BY DEF SecretsInv, SecretTables, UniqueNames, HasCipher, There, GetSecret
<1>3. SecretCopies'
  BY DEF SecretsInv, SecretCopies, GoodCopy, Copying, HasCipher, There, Decrypt
<1>4. SetsAlone'
  BY DEF SecretsInv, SetsAlone, Setting, HasCipher, There
<1>5. QED
  BY <1>1, <1>2, <1>3, <1>4 DEF SecretsInv

LEMMA PostKeeps ==
    ASSUME SecretsInv, NEW n \in SecretNames, PostSecret(n)
    PROVE  SecretsInv'
<1>1. valuesSet + 1 \in Values /\ valuesSet \in Nat
  BY SecretsAssumption DEF SecretsInv, SecretsTypeOK, PostSecret, Values, SecretsAssumption
<1>2. Fewer
  BY SecretTypes DEF SecretsInv, PostSecret, Fewer
<1>3. /\ Unmade # {} /\ GetSecret(n) = {} /\ CreateSecret(Fresh, n, valuesSet + 1)
      /\ valuesSet' = valuesSet + 1
      /\ UNCHANGED <<environments, masterKey, overlapped>>
  BY DEF PostSecret
<1>4. PICK x \in Values : x = valuesSet + 1
  BY <1>1
<1>5. QED
  BY <1>1, <1>2, <1>3, <1>4, CreateKeeps

LEMMA PutKeeps ==
    ASSUME SecretsInv, NEW r \in Requests, PutSecret(r)
    PROVE  SecretsInv'
<1>1. /\ SecretsTypeOK /\ request[r].step = "set" /\ Answers(r)
      /\ UNCHANGED <<environments, masterKey, valuesSet, overlapped>>
      /\ Fewer
  BY AnswersFewer DEF SecretsInv, PutSecret
<1>2. request[r] \in Held /\ valuesSet \in Nat /\ valuesSet \in {0} \cup Values
  BY <1>1, SecretTypes DEF Values
<1>3. CASE /\ request[r].id = 0 /\ GetSecret(request[r].target) = {} /\ Unmade # {}
           /\ CreateSecret(Fresh, request[r].target, request[r].value)
  <2>1. request[r].value \in Values /\ request[r].value <= valuesSet
    BY <1>1, <1>2, <1>3 DEF SecretsInv, SecretCopies, GoodCopy, Held
  <2>2. PICK x \in Values : x = request[r].value
    BY <2>1
  <2>3. PICK n \in SecretNames \cup {NoName} : n = request[r].target
    BY <1>2 DEF Held
  <2>4. QED
    BY <1>1, <1>2, <1>3, <2>1, <2>2, <2>3, CreateKeeps
<1>4. CASE /\ request[r].id # 0 /\ There(request[r].id)
           /\ ~UpdateFails(request[r].id, request[r].row, request[r].target,
                           request[r].value)
           /\ UpdateSecretWithRename(request[r].id, request[r].row, request[r].target,
                                     request[r].value)
  BY <1>1, <1>4, UpdateKeeps
<1>5. CASE UNCHANGED <<secret, history>>
  <2>1. SecretsTypeOK'
    BY <1>1, <1>5 DEF SecretsTypeOK, Fewer, Held
  <2>2. SecretTables' /\ UniqueNames'
    BY <1>1, <1>5 DEF SecretsInv, SecretTables, UniqueNames, HasCipher, There
  <2>3. SecretCopies'
    BY <1>1, <1>2, <1>5, CopiesKept DEF SecretsInv
  <2>4. SetsAlone'
    <3>1. \A q \in Requests, i \in SecretIds :
             request'[q].step = "set" /\ request'[q].id = i
                => Setting(q, i) /\ request'[q] = request[q]
      BY <1>1, Blanks DEF Fewer, Setting
    <3>2. QED
      BY <1>1, <1>5, <3>1 DEF SecretsInv, SetsAlone, Setting, There, HasCipher
  <2>5. QED
    BY <2>1, <2>2, <2>3, <2>4 DEF SecretsInv
<1>6. QED
  BY <1>3, <1>4, <1>5 DEF PutSecret, There

LEMMA DeleteKeeps ==
    ASSUME SecretsInv, NEW n \in SecretNames, DeleteSecret(n)
    PROVE  SecretsInv'
<1> DEFINE gone == [NoSecret EXCEPT !.status = "deleted"]
           none == [v \in Versions |-> NoCipher]
<1>1. /\ SecretsTypeOK /\ SecretTables /\ UniqueNames /\ SecretCopies /\ SetsAlone
      /\ UNCHANGED <<environments, masterKey, request, valuesSet, overlapped>>
  BY DEF SecretsInv, DeleteSecret
<1>2. PICK i \in SecretIds : /\ secret[i].status = "there"
                             /\ secret' = [secret EXCEPT ![i] = gone]
                             /\ history' = [history EXCEPT ![i] = none]
  BY DEF DeleteSecret, GetSecret
<1>3. gone \in Rows /\ gone.status = "deleted" /\ none \in [Versions -> Ciphers]
  BY Blanks DEF Rows, NoSecret
<1> HIDE DEF gone
<1>4. /\ secret' \in [SecretIds -> Rows]
      /\ history' \in [SecretIds -> [Versions -> Ciphers]]
      /\ secret'[i].status = "deleted" /\ \A v \in Versions : history'[i][v] = NoCipher
      /\ \A j \in SecretIds \ {i} : secret'[j] = secret[j] /\ history'[j] = history[j]
  BY <1>1, <1>2, <1>3, SecretTypes
<1>5. SecretsTypeOK'
  BY <1>1, <1>4 DEF SecretsTypeOK
<1>6. SecretTables' /\ UniqueNames'
  <2>1. SecretTables'
    BY <1>1, <1>4 DEF SecretTables, HasCipher, There
  <2>2. UniqueNames'
    BY <1>1, <1>4 DEF UniqueNames, There
  <2>3. QED
    BY <2>1, <2>2
<1>7. SecretCopies'
  <2>1. Fewer /\ valuesSet' \in {0} \cup Values /\ valuesSet <= valuesSet'
    BY <1>1, SecretTypes DEF Fewer, Values
  <2>2. QED
    BY <1>1, <1>2, <1>4, <2>1, CopiesKept
<1>8. SetsAlone'
  BY <1>1, <1>4 DEF SetsAlone, Setting, HasCipher, There
<1>9. QED
  BY <1>5, <1>6, <1>7, <1>8 DEF SecretsInv

\* A request that reads a row takes it as it is.
LEMMA ReadKeeps ==
    ASSUME SecretsInv, NEW r \in Requests, NEW n \in SecretNames, ReadRow(r, n)
    PROVE  SecretsInv'
<1>1. /\ SecretsTypeOK /\ SecretTables /\ UniqueNames /\ SecretCopies /\ SetsAlone
      /\ UNCHANGED <<secret, history, environments, masterKey, valuesSet, overlapped>>
  BY DEF SecretsInv, ReadRow
<1>2. PICK i \in SecretIds :
         /\ secret[i].status = "there"
         /\ request' = [request EXCEPT ![r] =
               [Waiting EXCEPT !.step = "value", !.id = i, !.row = secret[i],
                   !.promised = Decrypt(GetCiphertext(i, secret[i].version))]]
  BY DEF ReadRow, GetSecret
<1> DEFINE p == Decrypt(history[i][secret[i].version])
           q == [Waiting EXCEPT !.step = "value", !.id = i, !.row = secret[i],
                                !.promised = p]
<1>3. /\ secret[i].version \in Versions /\ HasCipher(i, secret[i].version)
      /\ secret[i].hint = history[i][secret[i].version].plain
  BY <1>1, <1>2 DEF SecretTables, There
<1>4. p \in {0} \cup Values /\ secret[i] \in Rows
  BY <1>1, <1>3, Opened, SecretTypes
<1>5. request' = [request EXCEPT ![r] = q]
  <2>1. p = Decrypt(GetCiphertext(i, secret[i].version))
    BY <1>3 DEF GetCiphertext
  <2> HIDE DEF p
  <2>2. QED
    BY <1>2, <2>1
<1>6. i # 0
  BY DEF SecretIds
<1> HIDE DEF p
<1>7. q \in Held
  BY <1>4, Blanks DEF Held
<1>8. /\ q.step = "value" /\ q.id = i /\ q.row = secret[i] /\ q.value = 0
      /\ q.promised = p
  BY Blanks DEF Held
<1> HIDE DEF q
<1>9. /\ request' \in [Requests -> Held] /\ request'[r] = q
      /\ \A s \in Requests \ {r} : request'[s] = request[s]
  BY <1>1, <1>5, <1>7, SecretTypes
<1>10. SecretsTypeOK'
  BY <1>1, <1>9 DEF SecretsTypeOK, Held
<1>11. SecretTables' /\ UniqueNames'
  BY <1>1 DEF SecretTables, UniqueNames, HasCipher, There
<1>12. SecretCopies'
  <2>1. \A s \in Requests \ {r} : request'[s] = request[s]
    BY <1>9
  <2>2. request'[r].step = "value" /\ request'[r].id = i /\ request'[r].row = secret[i]
        /\ request'[r].value = 0 /\ request'[r].promised = Decrypt(history[i][secret[i].version])
    BY <1>8, <1>9 DEF p
  <2>3. SecretCopies
    BY <1>1
  <2>4. QED
    <3>1. ASSUME NEW s \in Requests \ {r} PROVE GoodCopy(s)'
      <4>1. GoodCopy(s) /\ request'[s] = request[s]
        BY <2>1, <2>3 DEF SecretCopies
      <4>2. QED
        BY <1>1, <4>1 DEF GoodCopy, Copying, HasCipher, There, Decrypt
    <3>2. GoodCopy(r)'
      BY <1>1, <1>2, <1>3, <1>6, <2>2 DEF GoodCopy, Copying, HasCipher, There, Decrypt
    <3>3. QED
      BY <3>1, <3>2 DEF SecretCopies
<1>13. SetsAlone'
  BY <1>1, <1>8, <1>9 DEF SetsAlone, Setting, HasCipher, There
<1>14. QED
  BY <1>10, <1>11, <1>12, <1>13 DEF SecretsInv

LEMMA SetKeeps ==
    ASSUME SecretsInv, NEW r \in Requests, NEW n \in SecretNames, NEW t \in SecretNames,
           NEW x \in {0, valuesSet + 1}, SetSecret(r, n, t, x)
    PROVE  SecretsInv'
<1> DEFINE busy == {i \in GetSecret(n) : \E q \in Requests : Setting(q, i)}
<1>1. /\ SecretsTypeOK /\ SecretTables /\ UniqueNames /\ SecretCopies /\ SetsAlone
      /\ request[r].step = "waiting" /\ x <= MaxValues
      /\ valuesSet' = (IF x = 0 THEN valuesSet ELSE x)
      /\ overlapped' = overlapped \cup busy
      /\ UNCHANGED <<secret, history, environments, masterKey>>
  BY DEF SecretsInv, SetSecret, Setting
<1>2. /\ valuesSet \in Nat /\ x \in Nat /\ x \in {0} \cup Values
      /\ valuesSet' \in {0} \cup Values /\ valuesSet <= valuesSet' /\ x <= valuesSet'
  BY <1>1, SecretsAssumption DEF SecretsTypeOK, Values, SecretsAssumption
<1>3. PICK i \in {0} \cup GetSecret(n), q \in Held :
         /\ request' = [request EXCEPT ![r] = q]
         /\ q.step = "set" /\ q.id = i /\ q.value = x
         /\ i # 0 => q.row = secret[i]
         /\ i = 0 => x # 0
  <2>1. ASSUME NEW i \in GetSecret(n),
               request' = [request EXCEPT ![r] =
                  [Waiting EXCEPT !.step = "set", !.id = i, !.row = secret[i],
                                  !.target = t, !.value = x]]
        PROVE  \E q \in Held :
                  /\ request' = [request EXCEPT ![r] = q]
                  /\ q.step = "set" /\ q.id = i /\ q.value = x /\ q.row = secret[i]
                  /\ i # 0
    <3> DEFINE q == [Waiting EXCEPT !.step = "set", !.id = i, !.row = secret[i],
                                    !.target = t, !.value = x]
    <3>1. secret[i] \in Rows /\ i \in SecretIds /\ i # 0
      BY <1>1, SecretTypes DEF GetSecret, SecretIds
    <3>2. q \in Held
      BY <1>2, <3>1, Blanks DEF Held
    <3>3. q.step = "set" /\ q.id = i /\ q.value = x /\ q.row = secret[i]
      BY Blanks DEF Held
    <3>4. request' = [request EXCEPT ![r] = q]
      BY <2>1
    <3> HIDE DEF q
    <3>5. QED
      BY <3>1, <3>2, <3>3, <3>4
  <2>2. ASSUME x # 0,
               request' = [request EXCEPT ![r] =
                  [Waiting EXCEPT !.step = "set", !.target = t, !.value = x]]
        PROVE  \E q \in Held :
                  /\ request' = [request EXCEPT ![r] = q]
                  /\ q.step = "set" /\ q.id = 0 /\ q.value = x
    <3> DEFINE q == [Waiting EXCEPT !.step = "set", !.target = t, !.value = x]
    <3>1. q \in Held /\ q.step = "set" /\ q.id = 0 /\ q.value = x
      BY <1>2, Blanks DEF Held
    <3>2. request' = [request EXCEPT ![r] = q]
      BY <2>2
    <3> HIDE DEF q
    <3>3. QED
      BY <3>1, <3>2
  <2>3. QED
    BY <2>1, <2>2 DEF SetSecret
<1>4. /\ i \in {0} \cup SecretIds
      /\ i # 0 => i \in SecretIds /\ secret[i].status = "there"
  BY DEF GetSecret
<1>7. /\ request' \in [Requests -> Held] /\ request'[r] = q
      /\ \A s \in Requests \ {r} : request'[s] = request[s]
  BY <1>1, <1>3, SecretTypes
<1>8. SecretsTypeOK'
  <2>1. overlapped' \subseteq SecretIds
    BY <1>1 DEF SecretsTypeOK, GetSecret
  <2>2. QED
    BY <1>1, <1>2, <1>7, <2>1 DEF SecretsTypeOK, Held
<1>9. SecretTables'
  <2>1. ASSUME NEW j \in SecretIds, NEW v \in Versions, HasCipher(j, v)
        PROVE  history[j][v].plain <= valuesSet'
    <3>1. history[j][v].plain <= valuesSet /\ history[j][v].plain \in Nat
      BY <1>1, <2>1, SecretTypes DEF SecretTables, HasCipher, Ciphers, Values
    <3>2. valuesSet' \in Nat
      BY <1>2 DEF Values
    <3>3. QED
      BY <1>2, <3>1, <3>2
  <2>2. QED
    BY <1>1, <2>1 DEF SecretTables, HasCipher, There
<1>10. UniqueNames'
  BY <1>1 DEF UniqueNames, There
<1>11. i # 0 => /\ secret[i].version \in Versions /\ HasCipher(i, secret[i].version)
                /\ secret[i].hint = history[i][secret[i].version].plain
                /\ x # 0 => secret[i].version < x
  <2> SUFFICES ASSUME i # 0
               PROVE  /\ secret[i].version \in Versions
                      /\ HasCipher(i, secret[i].version)
                      /\ secret[i].hint = history[i][secret[i].version].plain
                      /\ x # 0 => secret[i].version < x
    OBVIOUS
  <2>1. /\ secret[i].version \in Versions /\ HasCipher(i, secret[i].version)
        /\ secret[i].hint = history[i][secret[i].version].plain
        /\ secret[i].version <= history[i][secret[i].version].plain
        /\ history[i][secret[i].version].plain <= valuesSet
    BY <1>1, <1>4 DEF SecretTables, There
  <2>2. /\ secret[i].version \in Nat
        /\ history[i][secret[i].version].plain \in Nat
    <3>1. i \in SecretIds /\ history[i][secret[i].version] \in Ciphers
      BY <1>1, <1>4, <2>1, SecretTypes
    <3>2. \A ct \in Ciphers : ct.plain \in Nat
      BY DEF Ciphers, NoCipher, Values
    <3>3. QED
      BY <2>1, <3>1, <3>2 DEF Versions
  <2>3. QED
    BY <1>2, <2>1, <2>2
<1>12. SecretCopies'
  <2>1. \A s \in Requests : request[s].step = "set" => request[s].value <= valuesSet'
    <3>1. \A s \in Requests : request[s].value \in Nat
      BY <1>1, SecretTypes DEF Held, Values
    <3>2. valuesSet' \in Nat
      BY <1>2 DEF Values
    <3>3. QED
      BY <1>1, <1>2, <3>1, <3>2 DEF SecretCopies, GoodCopy
  <2>2. QED
    BY <1>1, <1>2, <1>3, <1>4, <1>7, <1>11, <2>1
       DEF SecretCopies, GoodCopy, Copying, HasCipher, There, Decrypt
<1>13. SetsAlone'
  <2> SUFFICES ASSUME NEW j \in SecretIds, j \notin overlapped', There(j)
               PROVE  /\ \A v \in Versions : HasCipher(j, v) => v <= secret[j].version
                      /\ \A p \in Requests :
                            request'[p].step = "set" /\ request'[p].id = j =>
                              /\ request'[p].row.version = secret[j].version
                              /\ \A s \in Requests :
                                    request'[s].step = "set" /\ request'[s].id = j
                                        => s = p
    BY <1>1 DEF SetsAlone, Setting, There, HasCipher
  <2>1. j \in SecretIds \ overlapped /\ j # 0
    BY <1>1 DEF SecretIds
  <2>2. i = j => \A s \in Requests : ~Setting(s, j)
    BY <1>1, <2>1
  <2>3. QED
    BY <1>1, <1>3, <1>4, <1>7, <2>1, <2>2 DEF SetsAlone, Setting
<1>14. QED
  BY <1>8, <1>9, <1>10, <1>12, <1>13 DEF SecretsInv

LEMMA AnswerKeeps ==
    ASSUME SecretsInv, NEW r \in Requests, InternalValue(r)
    PROVE  SecretsInv'
<1>1. /\ SecretsTypeOK /\ SecretTables /\ UniqueNames /\ SecretCopies /\ SetsAlone /\ Fewer
      /\ UNCHANGED <<secret, history, environments, masterKey, valuesSet, overlapped>>
  BY AnswersFewer DEF SecretsInv, InternalValue
<1>2. SecretsTypeOK'
  BY <1>1 DEF SecretsTypeOK, Fewer, Held
<1>3. SecretTables' /\ UniqueNames'
  BY <1>1 DEF SecretTables, UniqueNames, HasCipher, There
<1>4. SecretCopies'
  <2>1. valuesSet' \in {0} \cup Values /\ valuesSet <= valuesSet'
    BY <1>1 DEF SecretsTypeOK, Values
  <2>2. QED
    BY <1>1, <2>1, CopiesKept
<1>5. SetsAlone'
  <2>1. \A q \in Requests, i \in SecretIds :
           request'[q].step = "set" /\ request'[q].id = i
              => Setting(q, i) /\ request'[q] = request[q]
    BY <1>1, Blanks DEF Fewer, Setting
  <2>2. QED
    BY <1>1, <2>1 DEF SetsAlone, Setting, There, HasCipher
<1>6. QED
  BY <1>2, <1>3, <1>4, <1>5 DEF SecretsInv

LEMMA SecretsInitInv == SecretsInit => SecretsInv
<1> SUFFICES ASSUME SecretsInit PROVE SecretsInv
  OBVIOUS
<1>1. SecretsTypeOK
  <2>1. request \in [Requests -> Held]
    BY Blanks DEF SecretsInit
  <2>2. QED
    BY <2>1, Blanks DEF SecretsInit, SecretsTypeOK, Held
<1>2. SecretTables /\ UniqueNames /\ SecretCopies /\ SetsAlone
  BY Blanks DEF SecretsInit, SecretTables, UniqueNames, SecretCopies, GoodCopy, Copying, SetsAlone, Setting, HasCipher, There
<1>3. QED
  BY <1>1, <1>2 DEF SecretsInv

LEMMA SecretsStepKeeps ==
    ASSUME SecretsInv, [SecretsNext]_secretVars
    PROVE  SecretsInv'
<1>1. CASE ListSecrets \/ \E e \in Environments : CreateEnvironment(e)
  <2>1. environments' \subseteq Environments
    BY <1>1 DEF ListSecrets, EnsureDefaultEnvironments, CreateEnvironment, SecretsInv,
                SecretsTypeOK
  <2>2. QED
    BY <1>1, <2>1, EnvironmentsKeep DEF ListSecrets, CreateEnvironment
<1>2. CASE UNCHANGED secretVars
  <2>1. environments' \subseteq Environments
    BY <1>2 DEF secretVars, SecretsInv, SecretsTypeOK
  <2>2. QED
    BY <1>2, <2>1, EnvironmentsKeep DEF secretVars
<1>3. CASE \E k \in MasterKeys : NewFromEnv(k)
  BY <1>3, RestartKeeps
<1>4. CASE \E n \in SecretNames : PostSecret(n) \/ DeleteSecret(n)
  BY <1>4, PostKeeps, DeleteKeeps
<1>5. CASE \E r \in Requests : PutSecret(r) \/ InternalValue(r)
  BY <1>5, PutKeeps, AnswerKeeps
<1>6. CASE \E r \in Requests, n \in SecretNames :
              \/ ReadRow(r, n)
              \/ \E t \in SecretNames, x \in {0, valuesSet + 1} : SetSecret(r, n, t, x)
  BY <1>6, ReadKeeps, SetKeeps
<1>7. QED
  BY <1>1, <1>2, <1>3, <1>4, <1>5, <1>6 DEF SecretsNext

LEMMA SecretsInvariant == SecretsSpec => []SecretsInv
<1>1. SecretsInv /\ [SecretsNext]_secretVars => SecretsInv'
  BY SecretsStepKeeps
<1>2. QED
  BY SecretsInitInv, <1>1, PTL DEF SecretsSpec

-----------------------------------------------------------------------------
(* What it means for secrets and readers                                   *)

\* Whatever writes and renames overlap, from whatever copies: a secret names a
\* version that is stored, shows that version's hint and has its name to
\* itself; and when nobody wrote it beside another, it names its last version.
THEOREM WholeSecrets == SecretsSpec => []SecretIsWhole
<1>1. SecretsInv => SecretIsWhole
  <2> SUFFICES ASSUME SecretsInv, NEW i \in SecretIds, secret[i].status = "there"
               PROVE  /\ GetCiphertext(i, secret[i].version) # NoCipher
                      /\ secret[i].hint = Hint(GetCiphertext(i, secret[i].version).plain)
                      /\ GetSecret(secret[i].name) = {i}
                      /\ i \notin overlapped =>
                           \A v \in Versions : GetCiphertext(i, v) # NoCipher
                                                  => v <= secret[i].version
    BY DEF SecretIsWhole
  <2>1. /\ secret[i].version \in Versions /\ HasCipher(i, secret[i].version)
        /\ secret[i].hint = history[i][secret[i].version].plain
    BY DEF SecretsInv, SecretTables, There
  <2>2. GetSecret(secret[i].name) = {i}
    BY DEF SecretsInv, UniqueNames, There, GetSecret
  <2>3. i \notin overlapped =>
           \A v \in Versions : GetCiphertext(i, v) # NoCipher => v <= secret[i].version
    BY DEF SecretsInv, SetsAlone, There, HasCipher, GetCiphertext
  <2>4. QED
    BY <2>1, <2>2, <2>3 DEF GetCiphertext, HasCipher, Hint
<1>2. QED
  BY <1>1, SecretsInvariant, PTL

\* A reader who takes the row in one statement and the value in another gets
\* the value that was current at the first, or none because the secret is gone:
\* no rotation or rename in between touches a version that is stored.
THEOREM SnapshotReads == SecretsSpec => []ReadsAreSnapshots
<1>1. SecretsInv => ReadsAreSnapshots
  <2> SUFFICES ASSUME SecretsInv, NEW r \in Requests, request[r].step = "value"
               PROVE  \/ InternalAnswer(r) = request[r].promised
                      \/ /\ InternalAnswer(r) = 0
                         /\ secret[request[r].id].status = "deleted"
    BY DEF ReadsAreSnapshots
  <2> DEFINE i == request[r].id
             v == request[r].row.version
  <2>1. SecretsTypeOK /\ Copying(r) /\ v \in Versions /\ secret[i].status # "absent"
    BY DEF SecretsInv, SecretCopies, GoodCopy, Copying
  <2>2. i \in SecretIds
    BY <2>1, SecretTypes DEF Copying, Held
  <2>3. InternalAnswer(r) = Decrypt(history[i][v])
    BY <2>1 DEF InternalAnswer, GetCiphertext
  <2>4. CASE There(i)
    BY <2>1, <2>3, <2>4 DEF SecretsInv, SecretCopies, GoodCopy
  <2>5. CASE ~There(i)
    <3>1. history[i][v] = NoCipher
      BY <2>1, <2>2, <2>5 DEF SecretsInv, SecretTables, HasCipher
    <3>2. Decrypt(history[i][v]) = 0
      BY <3>1, Blanks DEF Decrypt
    <3>3. secret[i].status = "deleted"
      BY <2>1, <2>2, <2>5, SecretTypes DEF There, Rows
    <3>4. QED
      BY <2>3, <3>2, <3>3
  <2>6. QED
    BY <2>4, <2>5
<1>2. QED
  BY <1>1, SecretsInvariant, PTL

-----------------------------------------------------------------------------
(* The components together                                                 *)

\* A step of the one in focus leaves the others where they are.
LEMMA AccountsSteps ==
    [AccountsNext]_<<focus, sessionVars, signInVars, tenancyVars, secretVars>>
    => /\ [SessionsNext]_sessionVars
       /\ [SignInNext]_signInVars
       /\ [TenancyNext]_tenancyVars
       /\ [SecretsNext]_secretVars
  BY DEF AccountsNext

LEMMA AccountsStart ==
    AccountsInit => SessionsInit /\ SignInInit /\ TenancyInit /\ SecretsInit
  BY DEF AccountsInit

\* What the components do together is, for each of them, what it does alone:
\* nothing one of them does touches what another keeps, and so every theorem
\* about one of them is a theorem about the whole.
THEOREM AccountsImplementComponents ==
    AccountsSpec => SessionsSpec /\ SignInSpec /\ TenancySpec /\ SecretsSpec
  BY AccountsSteps, AccountsStart, PTL
  DEF AccountsSpec, SessionsSpec, SignInSpec, TenancySpec, SecretsSpec

\* Sessions, accounts, rights and secrets keep their types together.
THEOREM AccountsTypes == AccountsSpec => []AccountsTypesOK
<1>1. /\ SessionsInv => SessionsTypeOK
      /\ TenancyInv => TenancyTypeOK
      /\ SecretsInv => SecretsTypeOK
  BY DEF SessionsInv, TenancyInv, SecretsInv
<1>2. SessionsTypeOK /\ SignInTypeOK /\ TenancyTypeOK /\ SecretsTypeOK => AccountsTypesOK
  BY DEF AccountsTypesOK
<1> QED
  BY <1>1, <1>2, AccountsImplementComponents, SessionsInvariant, SignInTypes,
     TenancyInvariant, SecretsInvariant, PTL
=============================================================================
