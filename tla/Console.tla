------------------------------ MODULE Console ------------------------------
(***************************************************************************)
(* The clients' side of a session: the tabs of the dashboard share the     *)
(* tokens in localStorage, the processes of the command line share those   *)
(* of ~/.jp/config.json, and the gateway lets a request through when its   *)
(* access token is good.  A token pair is numbered; its access token lives *)
(* shortly, its refresh token until it is used (Sessions has how).         *)
(***************************************************************************)
EXTENDS Naturals, FiniteSets

CONSTANTS
    Tabs,           \* tabs of the dashboard open in one browser
    PageRequests,   \* requests the tabs have in flight at once
    TabOf,          \* the tab of each
    Processes,      \* jp commands running at once
    MaxPairs,       \* bound on the token pairs issued
    ConsoleFaults   \* of {"network", "upstream"}

ASSUME ConsoleAssumption ==
    /\ MaxPairs \in Nat
    /\ TabOf \in [PageRequests -> Tabs]
    /\ ConsoleFaults \subseteq {"network", "upstream"}

VARIABLES
    pairs,       \* token pairs issued
    goodAccess,  \* pairs whose access token has not expired
    goodRefresh, \* pairs whose refresh token has not been used
    local,       \* the pair in localStorage, 0 for none
    page,        \* each request of a tab: where it is and the pair it was sent with
    refreshing,  \* each tab's refreshPromise: where it is and the pair it is for
    mishap,      \* a refresh met a network failure, a login or another tab's
                 \* refresh, or the /me of a page load failed
    file,        \* the pair in the command line's configuration file
    process      \* each jp process: where it is and its copy of the configuration

browserVars == <<local, page, refreshing, mishap>>
cliVars     == <<file, process>>
consoleVars == <<pairs, goodAccess, goodRefresh, browserVars, cliVars>>

Pairs == 1..MaxPairs
NoRequest == [at |-> "idle", pair |-> 0, again |-> FALSE, waits |-> FALSE]
NoPromise == [at |-> "none", pair |-> 0]
Ended == [at |-> "ended", pair |-> 0, again |-> FALSE]

ConsoleInit ==
    /\ pairs = 0
    /\ goodAccess = {}
    /\ goodRefresh = {}
    /\ local = 0
    /\ page = [r \in PageRequests |-> NoRequest]
    /\ refreshing = [t \in Tabs |-> NoPromise]
    /\ mishap = FALSE
    /\ file = 0
    /\ process = [p \in Processes |-> Ended]

-----------------------------------------------------------------------------
(* The platform, as the clients see it. *)

\* Issues a new pair, using up the refresh token of the pair used (0: a login).
Issue(used) ==
    /\ pairs < MaxPairs
    /\ pairs' = pairs + 1
    /\ goodAccess' = goodAccess \cup {pairs + 1}
    /\ goodRefresh' = (goodRefresh \ {used}) \cup {pairs + 1}

NoIssue == UNCHANGED <<pairs, goodAccess, goodRefresh>>

\* bearerOrPAT: an expired or missing access token is answered 401.
Admitted(pair) == pair \in goodAccess

\* Behind it, the proxy answers 200, also with an empty list where a GET finds
\* the upstream down, or 502.
Upstream == {"ok"} \cup (IF "upstream" \in ConsoleFaults THEN {"failed"} ELSE {})

AccessExpires(k) ==
    /\ k \in goodAccess
    /\ goodAccess' = goodAccess \ {k}
    /\ UNCHANGED <<pairs, goodRefresh, browserVars, cliVars>>

-----------------------------------------------------------------------------
(* The dashboard. *)

SetPage(r, rec) == page' = [page EXCEPT ![r] = rec]

\* login, register and bootstrap store the pair they are answered.
BrowserLogin ==
    /\ local = 0
    /\ Issue(0)
    /\ local' = pairs + 1
    /\ mishap' = (mishap \/ \E u \in Tabs : refreshing[u] # NoPromise)
    /\ UNCHANGED <<page, refreshing, cliVars>>

\* request() is sent with the access token in localStorage.  kind "me" is the
\* request of refreshUser at page load, "logout" that of logout.
SendPage(r, kind) ==
    /\ page[r] = NoRequest
    /\ local # 0
    /\ SetPage(r, [NoRequest EXCEPT !.at = kind, !.pair = local])
    /\ UNCHANGED <<pairs, goodAccess, goodRefresh, local, refreshing, mishap, cliVars>>

\* What a request's caller does with its outcome: logout clears the tokens in
\* any case, refreshUser when it failed.
Finish(r, failed) ==
    LET clears == page[r].at = "logout" \/ (page[r].at = "me" /\ failed) IN
    /\ SetPage(r, NoRequest)
    /\ local' = IF clears THEN 0 ELSE local
    /\ mishap' = (mishap \/ (page[r].at = "me" /\ failed))

\* The gateway lets the request through, or the request does not get there.
PageAnswered(r) ==
    /\ page[r] # NoRequest /\ ~page[r].waits
    /\ \/ Admitted(page[r].pair) /\ \E up \in Upstream : Finish(r, up = "failed")
       \/ "network" \in ConsoleFaults /\ Finish(r, TRUE)
    /\ UNCHANGED <<pairs, goodAccess, goodRefresh, refreshing, cliVars>>

\* A promise of its own for every request (for the mutant): the earlier one is
\* forgotten, not awaited.
AloneEnsureRefreshed(t) ==
    IF local = 0 THEN UNCHANGED refreshing
    ELSE refreshing' = [refreshing EXCEPT ![t] = [at |-> "asked", pair |-> local]]

\* ensureRefreshed: join the tab's refresh in flight, or start one with the
\* refresh token in localStorage, if there is one.
EnsureRefreshed(t) ==
    IF refreshing[t] # NoPromise \/ local = 0 THEN UNCHANGED refreshing
    ELSE refreshing' = [refreshing EXCEPT ![t] = [at |-> "asked", pair |-> local]]

\* 401: the request waits for a refresh; a repeated one fails.
PageRefused(r) ==
    LET t == TabOf[r] IN
    /\ page[r] # NoRequest /\ ~page[r].waits
    /\ ~Admitted(page[r].pair)
    /\ IF page[r].again
       THEN Finish(r, TRUE) /\ UNCHANGED refreshing
       ELSE IF refreshing[t] = NoPromise /\ local = 0
       THEN /\ SetPage(r, NoRequest)
            /\ UNCHANGED <<local, refreshing, mishap>>
       ELSE /\ SetPage(r, [page[r] EXCEPT !.again = TRUE, !.waits = TRUE])
            /\ EnsureRefreshed(t)
            /\ mishap' = (mishap \/ \E u \in Tabs \ {t} : refreshing[u] # NoPromise)
            /\ UNCHANGED local
    /\ UNCHANGED <<pairs, goodAccess, goodRefresh, cliVars>>

\* POST /auth/refresh reaches identity: it uses the refresh token up, or
\* refuses it.
RefreshAsked(t) ==
    LET k == refreshing[t].pair IN
    /\ refreshing[t].at = "asked"
    /\ IF k \in goodRefresh
       THEN Issue(k) /\ refreshing' = [refreshing EXCEPT ![t] = [at |-> "issued", pair |-> pairs + 1]]
       ELSE NoIssue /\ refreshing' = [refreshing EXCEPT ![t].at = "refused"]
    /\ UNCHANGED <<local, page, mishap, cliVars>>

\* The requests of the tab that waited go on: repeated with the tokens stored,
\* or ended, the tokens cleared.
Resume(t, ok, pair) ==
    page' = [r \in PageRequests |->
               IF TabOf[r] # t \/ ~page[r].waits THEN page[r]
               ELSE IF ok THEN [page[r] EXCEPT !.waits = FALSE, !.pair = pair] ELSE NoRequest]

\* refreshAccessToken ends: new tokens are stored, a refusal or a failure of
\* the network clears what is stored.
RefreshEnds(t) ==
    /\ refreshing[t] # NoPromise
    /\ refreshing' = [refreshing EXCEPT ![t] = NoPromise]
    /\ \/ /\ refreshing[t].at = "issued"
          /\ local' = refreshing[t].pair
          /\ Resume(t, TRUE, refreshing[t].pair)
          /\ UNCHANGED mishap
       \/ /\ refreshing[t].at = "refused"
          /\ local' = 0
          /\ Resume(t, FALSE, 0)
          /\ UNCHANGED mishap
       \/ /\ "network" \in ConsoleFaults
          /\ local' = 0
          /\ Resume(t, FALSE, 0)
          /\ mishap' = TRUE
    /\ UNCHANGED <<pairs, goodAccess, goodRefresh, cliVars>>

-----------------------------------------------------------------------------
(* The command line. *)

SetProcess(p, rec) == process' = [process EXCEPT ![p] = rec]

\* A command loads the configuration, and has its tokens for good.
CliStart(p) ==
    /\ process[p] = Ended
    /\ SetProcess(p, [at |-> "loaded", pair |-> file, again |-> FALSE])
    /\ UNCHANGED <<pairs, goodAccess, goodRefresh, browserVars, file>>

\* Save writes the whole configuration back, tokens and all.
Save(p) == file' = process[p].pair

\* jp login: the pair answered is saved.
CliLogin(p) ==
    /\ process[p].at = "loaded"
    /\ Issue(0)
    /\ SetProcess(p, [at |-> "save", pair |-> pairs + 1, again |-> TRUE])
    /\ UNCHANGED <<browserVars, file>>

\* jp logout: the tokens are cleared whatever the platform answers.
CliLogout(p) ==
    /\ process[p].at = "loaded"
    /\ SetProcess(p, [at |-> "save", pair |-> 0, again |-> TRUE])
    /\ UNCHANGED <<pairs, goodAccess, goodRefresh, browserVars, file>>

\* jp org and jp config change a setting and save.
CliConfigure(p) ==
    /\ process[p].at = "loaded"
    /\ SetProcess(p, [process[p] EXCEPT !.at = "save", !.again = TRUE])
    /\ UNCHANGED <<pairs, goodAccess, goodRefresh, browserVars, file>>

\* doRawOnce: answered, or not logged in, or 401.  A 401 is followed by one
\* refresh and one repetition; a refresh that fails leaves the file alone.
CliRequest(p) ==
    LET k == process[p].pair IN
    /\ process[p].at = "loaded"
    /\ \/ /\ k = 0 \/ Admitted(k) \/ process[p].again \/ k \notin goodRefresh
          /\ SetProcess(p, Ended)
          /\ NoIssue
       \/ /\ ~Admitted(k) /\ ~process[p].again /\ k \in goodRefresh
          /\ Issue(k)
          /\ SetProcess(p, [at |-> "save", pair |-> pairs + 1, again |-> FALSE])
    /\ UNCHANGED <<browserVars, file>>

\* The file is written; after a refresh the request is repeated.
CliSave(p) ==
    /\ process[p].at = "save"
    /\ Save(p)
    /\ SetProcess(p, IF process[p].again THEN Ended
                     ELSE [process[p] EXCEPT !.at = "loaded", !.again = TRUE])
    /\ UNCHANGED <<pairs, goodAccess, goodRefresh, browserVars>>

-----------------------------------------------------------------------------
Expiry == \E k \in Pairs : AccessExpires(k)

BrowserNext ==
    \/ Expiry
    \/ BrowserLogin
    \/ \E t \in Tabs : RefreshAsked(t) \/ RefreshEnds(t)
    \/ \E r \in PageRequests :
          \/ \E kind \in {"get", "me", "logout"} : SendPage(r, kind)
          \/ PageAnswered(r) \/ PageRefused(r)

CliNext ==
    \/ Expiry
    \/ \E p \in Processes :
          CliStart(p) \/ CliLogin(p) \/ CliLogout(p) \/ CliConfigure(p) \/ CliRequest(p) \/ CliSave(p)

ConsoleNext == BrowserNext \/ CliNext

ConsoleSpec == ConsoleInit /\ [][ConsoleNext]_consoleVars

-----------------------------------------------------------------------------
(* Every variable keeps its type. *)
ConsoleTypeOK ==
    /\ pairs \in 0..MaxPairs
    /\ goodAccess \subseteq 1..pairs /\ goodRefresh \subseteq 1..pairs
    /\ local \in 0..pairs /\ file \in 0..pairs
    /\ page \in [PageRequests ->
                   [at : {"idle", "get", "me", "logout"}, pair : 0..pairs,
                    again : BOOLEAN, waits : BOOLEAN]]
    /\ refreshing \in [Tabs -> [at : {"none", "asked", "issued", "refused"}, pair : 0..pairs]]
    /\ mishap \in BOOLEAN
    /\ process \in [Processes -> [at : {"ended", "loaded", "save"}, pair : 0..pairs, again : BOOLEAN]]

(* The dashboard does not sign its user out on its own: tokens leave
   localStorage only for newer ones or at a logout, however many requests of
   a tab meet an expired access token at once.  The exceptions are a refresh
   that met a network failure, a login or another tab's refresh, and a failed
   /me at page load. *)
KeepsItsTokens ==
    [][ (local' # local /\ ~mishap')
        => \/ local' > local
           \/ \E r \in PageRequests : page[r].at = "logout" /\ page'[r] = NoRequest ]_consoleVars
=============================================================================
