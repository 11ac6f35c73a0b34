------------------------------ MODULE Tenancy -------------------------------
(***************************************************************************)
(* Organizations and projects: who belongs to which organization, and what *)
(* the members do to its projects.                                         *)
(*                                                                         *)
(* The project service asks the organization service whether the caller is *)
(* a member, and then works on its own table; the organization service     *)
(* checks the role of who invites, and then inserts.  Both act on an       *)
(* answer that may be out of date by then.                                 *)
(***************************************************************************)
EXTENDS Naturals, FiniteSets

CONSTANTS Orgs,        \* the slugs organizations may have
          People,      \* user ids; a person's email stands for the id
          MaxInvites,  \* the invitations a behaviour creates
          MaxProjects, \* the projects it creates
          Slugs,       \* what projects may be called
          Manifests,   \* the manifests that are applied, see Manifest below
          Clients      \* the requests that may be in flight together

Invites  == 1 .. MaxInvites
Projects == 1 .. MaxProjects
Roles    == {"owner", "admin", "member", "viewer"}
NoOne    == "no one"

\* packages/go-common/jpconfig: what Validate looks at.  `deploy' may be
\* left out, and so may its fields: 0 replicas, port 0, strategy unset.
Runtimes   == {"nodejs", "python", "go", "docker", "static", "node22", "node"}
Strategy   == {"unset", "rolling", "blue_green"}
NoDeploy   == [replicas |-> 0, port |-> 0, strategy |-> "none"]
DeployPart == [replicas : 0 .. 11, port : {0, 1, 65535, 65536},
               strategy : Strategy \cup {"recreate"}]
Manifest   == [runtime : Runtimes \cup {"ruby"}, deploy : DeployPart \cup {NoDeploy}]
NoManifest == [runtime |-> "none", deploy |-> NoDeploy]

\* A manifest that is stored is filled in and within its bounds.
Stored     == [runtime : Runtimes \ {"node22", "node"},
               deploy : [replicas : 1 .. 10, port : {0, 1, 65535}, strategy : Strategy \ {"unset"}]
                          \cup {NoDeploy}]

ASSUME TenancyAssumption ==
    /\ MaxInvites \in Nat
    /\ MaxProjects \in Nat
    /\ Manifests \subseteq Manifest
    /\ NoOne \notin People

VARIABLES
    member,   \* table org_members; an organization exists when it has one
    founder,  \* who created it
    invite,   \* table org_invites
    project,  \* table projects
    client,   \* what each request does next, with what it has read
    granted,  \* who has ever been an owner or an admin, by organization
    applied   \* the manifest whose ApplyConfig came last, by project

tenancyVars == <<member, founder, invite, project, client, granted, applied>>

NoInvite  == [status |-> "absent", org |-> NoOne, email |-> NoOne,
              role |-> "viewer", by |-> NoOne]
NoProject == [status |-> "absent", org |-> NoOne, slug |-> NoOne, config |-> NoManifest]
Quiet     == [step |-> "quiet", who |-> NoOne, org |-> NoOne, id |-> 0, row |-> NoProject]

Row == [status : {"absent", "there", "deleted"}, org : Orgs \cup {NoOne},
        slug : Slugs \cup {NoOne}, config : Stored \cup {NoManifest}]

ClientState == [step : {"quiet", "invite", "member", "update"}, who : People \cup {NoOne},
                org : Orgs \cup {NoOne}, id : {0} \cup Projects, row : Row]

TenancyTypeOK ==
    /\ member  \in [Orgs -> [People -> Roles \cup {"none"}]]
    /\ founder \in [Orgs -> People \cup {NoOne}]
    /\ invite  \in [Invites ->
           [status : {"absent", "open", "accepted", "expired"},
            org : Orgs \cup {NoOne}, email : People \cup {NoOne}, role : Roles,
            by : People \cup {NoOne}]]
    /\ project \in [Projects -> Row]
    /\ client  \in [Clients -> ClientState]
    /\ granted \in [Orgs -> SUBSET People]
    /\ applied \in [Projects -> Manifest \cup {NoManifest}]

TenancyInit ==
    /\ member  = [o \in Orgs |-> [u \in People |-> "none"]]
    /\ founder = [o \in Orgs |-> NoOne]
    /\ invite  = [i \in Invites |-> NoInvite]
    /\ project = [p \in Projects |-> NoProject]
    /\ client  = [c \in Clients |-> Quiet]
    /\ granted = [o \in Orgs |-> {}]
    /\ applied = [p \in Projects |-> NoManifest]

\* A request that was let in; and one that is over.
Enters(c, step, u, o) ==
    /\ client[c] = Quiet
    /\ client' = [client EXCEPT ![c] = [step |-> step, who |-> u, org |-> o,
                                        id |-> 0, row |-> NoProject]]

Quits(c) == client' = [client EXCEPT ![c] = Quiet]

\* A new id; which one it is makes no difference.
NewId(S) == CHOOSE x \in S : TRUE

-----------------------------------------------------------------------------
(* Organizations                                                           *)

\* One transaction; the slug is unique.
CreateOrg(u, o) ==
    /\ founder[o] = NoOne
    /\ founder' = [founder EXCEPT ![o] = u]
    /\ member'  = [member EXCEPT ![o][u] = "owner"]
    /\ granted' = [granted EXCEPT ![o] = {u}]
    /\ UNCHANGED <<invite, project, client, applied>>

MemberRole(o, u) == member[o][u]

\* Mutant: any member may invite.
AskInviteAny(c, u, o) ==
    /\ MemberRole(o, u) # "none"
    /\ Enters(c, "invite", u, o)
    /\ UNCHANGED <<member, founder, invite, project, granted, applied>>

\* CreateInvite: the role of who asks ...
AskInvite(c, u, o) ==
    /\ MemberRole(o, u) \in {"owner", "admin"}
    /\ Enters(c, "invite", u, o)
    /\ UNCHANGED <<member, founder, invite, project, granted, applied>>

\* ... and the row, in the role's name, whatever it is by now.
CreateInvite(c, e, r) ==
    LET new == {i \in Invites : invite[i].status = "absent"} IN
    /\ client[c].step = "invite"
    /\ new # {}
    /\ invite' = [invite EXCEPT ![NewId(new)] =
                     [status |-> "open", org |-> client[c].org, email |-> e,
                      role |-> r, by |-> client[c].who]]
    /\ Quits(c)
    /\ UNCHANGED <<member, founder, project, granted, applied>>

\* One transaction, under the lock of the invitation's row; a role the
\* person has already is replaced.
AcceptInvite(i, u) ==
    LET v == invite[i] IN
    /\ v.status = "open"
    /\ v.email = u
    /\ member'  = [member EXCEPT ![v.org][u] = v.role]
    /\ invite'  = [invite EXCEPT ![i].status = "accepted"]
    /\ granted' = [granted EXCEPT ![v.org] =
                      IF v.role \in {"owner", "admin"} THEN @ \cup {u} ELSE @]
    /\ UNCHANGED <<founder, project, client, applied>>

InviteExpires(i) ==
    /\ invite[i].status = "open"
    /\ invite' = [invite EXCEPT ![i].status = "expired"]
    /\ UNCHANGED <<member, founder, project, client, granted, applied>>

-----------------------------------------------------------------------------
(* Manifests                                                               *)

\* Mutant: the runtime is kept as it was written.
KeepRuntime(r) == r

normalizeRuntime(r) == IF r \in {"node", "node22"} THEN "nodejs" ELSE r

\* A deploy part with the fields filled in that were left out ...
WithDefaults(d) ==
    [replicas |-> IF d.replicas = 0 THEN 1 ELSE d.replicas,
     port     |-> d.port,
     strategy |-> IF d.strategy = "unset" THEN "rolling" ELSE d.strategy]

\* ... and what is asked of it then.
InBounds(d) ==
    /\ d.replicas \in 1 .. 10
    /\ d.port <= 65535
    /\ d.strategy \in {"rolling", "blue_green"}

\* What is stored for a valid manifest, NoManifest for an invalid one.
Validate(m) ==
    LET deploy == IF m.deploy = NoDeploy THEN NoDeploy ELSE WithDefaults(m.deploy)
    IN  IF m.runtime \in Runtimes /\ (deploy = NoDeploy \/ InBounds(deploy))
        THEN [runtime |-> normalizeRuntime(m.runtime), deploy |-> deploy]
        ELSE NoManifest

-----------------------------------------------------------------------------
(* Projects                                                                *)

\* The organization service's answer, given the request.
requireMember(c, u, o) ==
    /\ MemberRole(o, u) # "none"
    /\ Enters(c, "member", u, o)
    /\ UNCHANGED <<member, founder, invite, project, granted, applied>>

InOrg(o) == {p \in Projects : project[p].status = "there" /\ project[p].org = o}

SlugFree(o, s) == \A p \in InOrg(o) : project[p].slug # s

CreateProject(c, s) ==
    LET o   == client[c].org
        new == {p \in Projects : project[p].status = "absent"} IN
    /\ client[c].step = "member"
    /\ new # {}
    /\ SlugFree(o, s)
    /\ project' = [project EXCEPT ![NewId(new)] =
                      [status |-> "there", org |-> o, slug |-> s, config |-> NoManifest]]
    /\ Quits(c)
    /\ UNCHANGED <<member, founder, invite, granted, applied>>

\* Update reads the row ...
ReadProject(c, p) ==
    /\ client[c].step = "member"
    /\ p \in InOrg(client[c].org)
    /\ client' = [client EXCEPT ![c] = [step |-> "update", who |-> @.who, org |-> @.org,
                                        id |-> p, row |-> project[p]]]
    /\ UNCHANGED <<member, founder, invite, project, granted, applied>>

\* Mutant: every column is written.
UpdateRow(c, s) ==
    LET p == client[c].id IN
    /\ client[c].step = "update"
    /\ project[p].status = "there" =>
           \A q \in InOrg(client[c].org) \ {p} : project[q].slug # s
    /\ project' = IF project[p].status = "there"
                  THEN [project EXCEPT ![p] = [client[c].row EXCEPT !.slug = s]]
                  ELSE project
    /\ Quits(c)
    /\ UNCHANGED <<member, founder, invite, granted, applied>>

\* ... and writes name, slug and description, not the manifest; a row that
\* is gone by now is not missed.  The slug that was read, or a new one.
UpdateProject(c, s) ==
    LET p == client[c].id IN
    /\ client[c].step = "update"
    /\ project[p].status = "there" =>
           \A q \in InOrg(client[c].org) \ {p} : project[q].slug # s
    /\ project' = IF project[p].status = "there"
                  THEN [project EXCEPT ![p].slug = s] ELSE project
    /\ Quits(c)
    /\ UNCHANGED <<member, founder, invite, granted, applied>>

\* The row is looked up, and its manifest, text and hash are replaced in one
\* statement.
ApplyConfig(c, p, m) ==
    /\ client[c].step = "member"
    /\ p \in InOrg(client[c].org)
    /\ Validate(m) # NoManifest
    /\ project' = [project EXCEPT ![p].config = Validate(m)]
    /\ applied' = [applied EXCEPT ![p] = m]
    /\ Quits(c)
    /\ UNCHANGED <<member, founder, invite, granted>>

DeleteProject(c, p) ==
    /\ client[c].step = "member"
    /\ p \in InOrg(client[c].org)
    /\ project' = [project EXCEPT ![p].status = "deleted"]
    /\ Quits(c)
    /\ UNCHANGED <<member, founder, invite, granted, applied>>

\* A refused request (a taken slug, an invalid manifest), or one cut off.
Refused(c) ==
    /\ client[c] # Quiet
    /\ Quits(c)
    /\ UNCHANGED <<member, founder, invite, project, granted, applied>>

-----------------------------------------------------------------------------
TenancyNext ==
    \/ \E u \in People, o \in Orgs :
          \/ CreateOrg(u, o)
          \/ \E c \in Clients : AskInvite(c, u, o) \/ requireMember(c, u, o)
    \/ \E c \in Clients, e \in People, r \in Roles : CreateInvite(c, e, r)
    \/ \E i \in Invites, u \in People : AcceptInvite(i, u)
    \/ \E i \in Invites : InviteExpires(i)
    \/ \E c \in Clients :
          \/ \E s \in Slugs : CreateProject(c, s) \/ UpdateProject(c, s)
          \/ \E p \in Projects :
                \/ ReadProject(c, p) \/ DeleteProject(c, p)
                \/ \E m \in Manifests : ApplyConfig(c, p, m)
          \/ Refused(c)

TenancySpec == TenancyInit /\ [][TenancyNext]_tenancyVars

-----------------------------------------------------------------------------
(* Properties                                                              *)

\* Every role goes back to the founder: a member's role is the founder's own
\* or the one of an invitation the member accepted, and who sent that had
\* been made an owner or an admin of the same organization before, in the
\* same way.
RolesAreGranted ==
    \A o \in Orgs, u \in People :
        member[o][u] # "none" =>
            \/ u = founder[o] /\ member[o][u] = "owner"
            \/ \E i \in Invites : /\ invite[i].status = "accepted"
                                  /\ invite[i].org = o
                                  /\ invite[i].email = u
                                  /\ invite[i].role = member[o][u]
                                  /\ invite[i].by \in granted[o]

\* The manifest of a project is the one that was applied last, in normal
\* form, whatever updates of its name were under way meanwhile; normal form
\* is what Validate leaves alone.
ManifestIsLastApplied ==
    \A p \in Projects :
        LET config == project[p].config IN
        applied[p] # NoManifest =>
            /\ config = Validate(applied[p])
            /\ config = Validate(config)
            /\ config.deploy # NoDeploy =>
                   config.deploy.replicas > 0 /\ config.deploy.strategy # "unset"

=============================================================================
