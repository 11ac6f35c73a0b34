---------------------------- MODULE Repositories ----------------------------
(***************************************************************************)
(* The repository service: GitHub App installations, connected             *)
(* repositories, the deploy key of a project and the installation tokens   *)
(* commit statuses are posted with.  One project per organization, so an   *)
(* organization stands for its project as well.  Handlers run              *)
(* concurrently; between two steps of one caller any other may act.        *)
(*                                                                         *)
(* What a push does with the rows found here is in DeployPipeline.         *)
(***************************************************************************)
EXTENDS Naturals, Sequences, SequencesExt

CONSTANTS
    RepoOrgs,       \* organizations, each with one project
    GitHubIds,      \* installation ids GitHub hands out
    RepoNames,      \* full names owner/repo
    RepoCallers,    \* requests in flight at once
    MaxKeys,        \* bound on the key pairs generated
    AppConfigured   \* GITHUB_APP_ID and a private key are set

ASSUME RepositoriesAssumption == MaxKeys \in Nat /\ AppConfigured \in BOOLEAN

VARIABLES
    installed,    \* rows of github_installations, in created_at order
    connected,    \* rows of connected_repos, in created_at order
    deployKey,    \* project_deploy_keys: the key pair of a project, 0 for none
    keysMade,     \* key pairs generated so far; pairs are numbered from 1
    installState, \* the organization in Redis under the pending install state
    tokens,       \* the token cache: the life left of an installation's token
    repoCaller,   \* each caller's handler: the place it is at and its locals
    shown         \* per project, the keys users were shown since its last rotation

repoVars == <<installed, connected, deployKey, keysMade, installState, tokens,
              repoCaller, shown>>

NoRepoOrg == "no organization"
NoInstall == "no installation"
\* A token lives an hour.  "young" has more than two minutes left, "old" less.
Lives == {"young", "old", "dead"}
OffDuty == [at |-> "idle", org |-> NoRepoOrg, gh |-> NoInstall, key |-> 0, life |-> "young", waited |-> FALSE]

Move(c, rec) == repoCaller' = [repoCaller EXCEPT ![c] = rec]
Retire(c)    == Move(c, OffDuty)
OffShift(c)  == repoCaller[c] = OffDuty

RepositoriesInit ==
    /\ installed = <<>>
    /\ connected = <<>>
    /\ deployKey = [o \in RepoOrgs |-> 0]
    /\ keysMade = 0
    /\ installState = NoRepoOrg
    /\ tokens = [g \in GitHubIds |-> "none"]
    /\ repoCaller = [c \in RepoCallers |-> OffDuty]
    /\ shown = [o \in RepoOrgs |-> {}]

-----------------------------------------------------------------------------
(* The store. *)

\* The newest of some rows: the one with the greatest position.
Newest(table, found) == table[Max(found)]

\* LatestInstallation: the organization's most recent installation.
LatestInstallation(org) ==
    LET mine == {i \in DOMAIN installed : installed[i].org = org}
    IN  IF mine = {} THEN NoInstall ELSE Newest(installed, mine).gh

\* FindInstallationByGitHubID looks at every organization's rows.
FindInstallationByGitHubID(gh) ==
    LET same == {i \in DOMAIN installed : installed[i].gh = gh}
    IN  IF same = {} THEN NoRepoOrg ELSE Newest(installed, same).org

\* CreateInstallation: UNIQUE (org_id, installation_id).  The row that is
\* there already is the one ListInstallations finds and refreshes.
CreateInstallation(org, gh) ==
    installed' = IF Contains(installed, [org |-> org, gh |-> gh])
                 THEN installed ELSE Append(installed, [org |-> org, gh |-> gh])

\* ResolveInstallationIDForRepo: the newest row of that name with an
\* installation, whichever organization connected it.
ResolveInstallationIDForRepo(name) ==
    LET named == {i \in DOMAIN connected : connected[i].name = name /\ connected[i].gh # NoInstall}
    IN  IF named = {} THEN NoInstall ELSE Newest(connected, named).gh

IsConnected(org, name) ==
    \E i \in DOMAIN connected : connected[i].org = org /\ connected[i].name = name

\* ConnectRepo inserts; UNIQUE (org_id, project_id, full_name).
InsertRepo(org, gh, name) ==
    connected' = IF IsConnected(org, name) THEN connected
                 ELSE Append(connected, [org |-> org, gh |-> gh, name |-> name])

\* The row of that id is the one of that name.
DeleteRepo(org, name) ==
    \E i \in DOMAIN connected :
        /\ connected[i].org = org /\ connected[i].name = name
        /\ connected' = RemoveAt(connected, i)

-----------------------------------------------------------------------------
(* Installing the GitHub App. *)

\* InstallStart saves a fresh state; without the App it answers a stub URL.
\* One state is pending at a time: a newer one only hides the older.
InstallStart(org) ==
    /\ AppConfigured
    /\ installState' = org
    /\ UNCHANGED <<installed, connected, deployKey, keysMade, tokens, repoCaller, shown>>

\* The state's ten minutes are over.
StateExpires ==
    /\ installState # NoRepoOrg
    /\ installState' = NoRepoOrg
    /\ UNCHANGED <<installed, connected, deployKey, keysMade, tokens, repoCaller, shown>>

\* InstallCallback, sent with or without a state.  loadInstallState reads the
\* state and deletes it even when it names another organization.
InstallCallback(c, org, gh, sent) ==
    /\ OffShift(c)
    /\ installState' = IF sent THEN NoRepoOrg ELSE installState
    /\ IF sent /\ installState \notin {NoRepoOrg, org}
       THEN UNCHANGED repoCaller
       ELSE Move(c, [OffDuty EXCEPT !.at = "find", !.org = org, !.gh = gh])
    /\ UNCHANGED <<installed, connected, deployKey, keysMade, tokens, shown>>

\* GitHubSetup gets the state by GET and deletes it by a second command, so
\* two redirects can both use it.
GitHubSetup(c, gh) ==
    /\ OffShift(c)
    /\ installState # NoRepoOrg
    /\ Move(c, [OffDuty EXCEPT !.at = "forget", !.org = installState, !.gh = gh])
    /\ UNCHANGED <<installed, connected, deployKey, keysMade, installState, tokens, shown>>

\* loadInstallState's DEL.
ForgetState(c) ==
    /\ repoCaller[c].at = "forget"
    /\ installState' = NoRepoOrg
    /\ Move(c, [repoCaller[c] EXCEPT !.at = "find"])
    /\ UNCHANGED <<installed, connected, deployKey, keysMade, tokens, shown>>

\* UpsertInstallation finds the newest row of that id first: its own
\* organization's is refreshed, any other leads to an insert.
UpsertInstallation(c) ==
    /\ repoCaller[c].at = "find"
    /\ IF FindInstallationByGitHubID(repoCaller[c].gh) = repoCaller[c].org
       THEN Retire(c)
       ELSE Move(c, [repoCaller[c] EXCEPT !.at = "insert installation"])
    /\ UNCHANGED <<installed, connected, deployKey, keysMade, installState, tokens, shown>>

InsertInstallation(c) ==
    /\ repoCaller[c].at = "insert installation"
    /\ CreateInstallation(repoCaller[c].org, repoCaller[c].gh)
    /\ Retire(c)
    /\ UNCHANGED <<connected, deployKey, keysMade, installState, tokens, shown>>

-----------------------------------------------------------------------------
(* Connecting repositories. *)

\* ConnectRepo takes the organization's latest installation when the request
\* names none, and inserts the row; the clone URL is left out.
ConnectRepo(org, name, gh) ==
    /\ InsertRepo(org, IF gh = NoInstall THEN LatestInstallation(org) ELSE gh, name)
    /\ UNCHANGED <<installed, deployKey, keysMade, installState, tokens, repoCaller, shown>>

DisconnectRepo(org, name) ==
    /\ DeleteRepo(org, name)
    /\ UNCHANGED <<installed, deployKey, keysMade, installState, tokens, repoCaller, shown>>

-----------------------------------------------------------------------------
(* Installation tokens. *)

\* The cached token without the margin (for the mutant).
CachedTokenToTheEnd(gh) == IF tokens[gh] \in {"young", "old"} THEN tokens[gh] ELSE "none"

\* InstallationToken: the cached token, if it has more than two minutes left.
CachedToken(gh) == IF tokens[gh] = "young" THEN "young" ELSE "none"

\* A call that needs the token of gh takes the cached one, or else mints one
\* outside the lock.
TakeToken(c, gh) ==
    IF CachedToken(gh) # "none"
    THEN Move(c, [OffDuty EXCEPT !.at = "call", !.gh = gh, !.life = CachedToken(gh)])
    ELSE Move(c, [OffDuty EXCEPT !.at = "mint", !.gh = gh])

\* InternalCommitStatus: skipped without the App or an installation.
InternalCommitStatus(c, name) ==
    /\ OffShift(c)
    /\ AppConfigured
    /\ ResolveInstallationIDForRepo(name) \in GitHubIds
    /\ TakeToken(c, ResolveInstallationIDForRepo(name))
    /\ UNCHANGED <<installed, connected, deployKey, keysMade, installState, tokens, shown>>

\* ListAvailableRepos asks GitHub with the latest installation of the organization.
ListAvailableRepos(c, org) ==
    /\ OffShift(c)
    /\ AppConfigured
    /\ LatestInstallation(org) \in GitHubIds
    /\ TakeToken(c, LatestInstallation(org))
    /\ UNCHANGED <<installed, connected, deployKey, keysMade, installState, tokens, shown>>

\* GitHub answers the mint: the token is stored over whatever is cached.  Or
\* it fails, and the request with it.
MintToken(c) ==
    /\ repoCaller[c].at = "mint"
    /\ \/ /\ tokens' = [tokens EXCEPT ![repoCaller[c].gh] = "young"]
          /\ Move(c, [repoCaller[c] EXCEPT !.at = "call", !.life = "young"])
       \/ /\ Retire(c)
          /\ UNCHANGED tokens
    /\ UNCHANGED <<installed, connected, deployKey, keysMade, installState, shown>>

\* CreateCommitStatus (or the listing) is sent; a failure is answered and dropped.
CallGitHub(c) ==
    /\ repoCaller[c].at = "call"
    /\ Retire(c)
    /\ UNCHANGED <<installed, connected, deployKey, keysMade, installState, tokens, shown>>

Aged(life) == CASE life = "young" -> "old" [] life = "old" -> "dead" [] OTHER -> life

\* Time passes.  The HTTP client gives up after 15 seconds, far less than the
\* two minutes of the margin, so a call in flight sees at most one such step.
TokensAge ==
    /\ \E g \in GitHubIds : tokens[g] \in {"young", "old"}
    /\ \A c \in RepoCallers : ~repoCaller[c].waited
    /\ tokens' = [g \in GitHubIds |-> Aged(tokens[g])]
    /\ repoCaller' = [c \in RepoCallers |->
                        IF repoCaller[c].at = "call"
                        THEN [repoCaller[c] EXCEPT !.life = Aged(@), !.waited = TRUE]
                        ELSE repoCaller[c]]
    /\ UNCHANGED <<installed, connected, deployKey, keysMade, installState, shown>>

-----------------------------------------------------------------------------
(* The deploy key of a project. *)

Show(org, key) == shown' = [shown EXCEPT ![org] = @ \cup {key}]

\* GetDeployKey, first SELECT: shown if it is there, else a pair is generated.
GetDeployKey(c, org) ==
    /\ OffShift(c)
    /\ IF deployKey[org] # 0
       THEN Show(org, deployKey[org]) /\ UNCHANGED <<keysMade, repoCaller>>
       ELSE /\ keysMade < MaxKeys
            /\ keysMade' = keysMade + 1
            /\ Move(c, [OffDuty EXCEPT !.at = "insert key", !.org = org, !.key = keysMade + 1])
            /\ UNCHANGED shown
    /\ UNCHANGED <<installed, connected, deployKey, installState, tokens>>

\* INSERT ... ON CONFLICT (project_id) DO NOTHING.
InsertKey(c) ==
    LET org == repoCaller[c].org IN
    /\ repoCaller[c].at = "insert key"
    /\ deployKey' = [deployKey EXCEPT ![org] = IF @ = 0 THEN repoCaller[c].key ELSE @]
    /\ Move(c, [repoCaller[c] EXCEPT !.at = "fetch key"])
    /\ UNCHANGED <<installed, connected, keysMade, installState, tokens, shown>>

\* Answering with the pair just generated (for the mutant).
AnswerOwnKey(c) ==
    /\ repoCaller[c].at = "fetch key"
    /\ Show(repoCaller[c].org, repoCaller[c].key)
    /\ Retire(c)
    /\ UNCHANGED <<installed, connected, deployKey, keysMade, installState, tokens>>

\* "Fetch again in case another worker/goroutine inserted simultaneously".
FetchKey(c) ==
    /\ repoCaller[c].at = "fetch key"
    /\ Show(repoCaller[c].org, deployKey[repoCaller[c].org])
    /\ Retire(c)
    /\ UNCHANGED <<installed, connected, deployKey, keysMade, installState, tokens>>

\* RotateDeployKey upserts a new pair and shows it.
RotateDeployKey(org) ==
    /\ keysMade < MaxKeys
    /\ keysMade' = keysMade + 1
    /\ deployKey' = [deployKey EXCEPT ![org] = keysMade + 1]
    /\ shown' = [shown EXCEPT ![org] = {keysMade + 1}]
    /\ UNCHANGED <<installed, connected, installState, tokens, repoCaller>>

-----------------------------------------------------------------------------
GitHubNext ==
    \/ StateExpires
    \/ TokensAge
    \/ \E o \in RepoOrgs : InstallStart(o)
    \/ \E o \in RepoOrgs, n \in RepoNames :
          \/ DisconnectRepo(o, n)
          \/ \E g \in GitHubIds \cup {NoInstall} : ConnectRepo(o, n, g)
    \/ \E c \in RepoCallers :
          \/ \E o \in RepoOrgs, g \in GitHubIds, sent \in BOOLEAN : InstallCallback(c, o, g, sent)
          \/ \E g \in GitHubIds : GitHubSetup(c, g)
          \/ \E o \in RepoOrgs : ListAvailableRepos(c, o)
          \/ \E n \in RepoNames : InternalCommitStatus(c, n)
          \/ ForgetState(c) \/ UpsertInstallation(c) \/ InsertInstallation(c)
          \/ MintToken(c) \/ CallGitHub(c)

DeployKeyNext ==
    \/ \E o \in RepoOrgs : RotateDeployKey(o)
    \/ \E c \in RepoCallers :
          \/ \E o \in RepoOrgs : GetDeployKey(c, o)
          \/ InsertKey(c) \/ FetchKey(c)

RepositoriesNext == GitHubNext \/ DeployKeyNext

RepositoriesSpec == RepositoriesInit /\ [][RepositoriesNext]_repoVars

-----------------------------------------------------------------------------
(* Every variable keeps its type; rows are unique as the schema says. *)
RepositoriesTypeOK ==
    /\ installed \in Seq([org : RepoOrgs, gh : GitHubIds])
    /\ connected \in Seq([org : RepoOrgs, gh : GitHubIds \cup {NoInstall}, name : RepoNames])
    /\ deployKey \in [RepoOrgs -> 0..MaxKeys]
    /\ keysMade \in 0..MaxKeys
    /\ installState \in RepoOrgs \cup {NoRepoOrg}
    /\ tokens \in [GitHubIds -> Lives \cup {"none"}]
    /\ repoCaller \in [RepoCallers ->
          [at   : {"idle", "forget", "find", "insert installation", "mint", "call",
                   "insert key", "fetch key"},
           org  : RepoOrgs \cup {NoRepoOrg}, gh : GitHubIds \cup {NoInstall},
           key  : 0..MaxKeys, life : Lives, waited : BOOLEAN]]
    /\ shown \in [RepoOrgs -> SUBSET (1..MaxKeys)]

(* Whoever is shown the deploy key of a project since its last rotation is
   shown the one the builds clone with, however many first requests race each
   other and the rotation: users paste it into GitHub once. *)
ShownKeysWork ==
    \A o \in RepoOrgs : shown[o] \subseteq {deployKey[o]}

(* No request goes to GitHub with a token that has expired meanwhile: the
   two-minute margin of the cache outlasts the call. *)
TokensOutliveCalls ==
    \A c \in RepoCallers : repoCaller[c].at = "call" => repoCaller[c].life # "dead"
=============================================================================
