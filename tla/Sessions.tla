------------------------------ MODULE Sessions ------------------------------
(***************************************************************************)
(* Refresh tokens and personal access tokens: what the identity service    *)
(* keeps of a signed-in user.                                              *)
(*                                                                         *)
(* A refresh token is usable when its key `jp:refresh:<jti>' is in Redis   *)
(* and its row in `sessions' is not revoked.  Refresh looks at both, then  *)
(* deletes the one, revokes the other and issues a new token, four calls   *)
(* to two stores under no lock; the errors of the two in the middle are    *)
(* dropped.  The lookups of the key and of the row are one step: a row is  *)
(* there before its key, and is never un-revoked, so a request that passed *)
(* both would have passed them together when it made the first.            *)
(***************************************************************************)
EXTENDS Naturals, FiniteSets

CONSTANTS MaxTokens,    \* the refresh tokens a behaviour issues
          MaxPats,      \* the personal access tokens it creates
          Handlers,     \* the requests that may be in flight together
          MaxOverlaps,  \* the refreshes that begin beside another of their token
          Unreliable    \* the stores of which one may fail, "redis" or "db"

Tokens == 1 .. MaxTokens
Pats   == 1 .. MaxPats

ASSUME SessionsAssumption ==
    /\ MaxTokens \in Nat
    /\ MaxPats \in Nat
    /\ MaxOverlaps \in Nat
    /\ IsFiniteSet(Handlers)
    /\ Unreliable \subseteq {"redis", "db"}

VARIABLES
    session,    \* table sessions, by refresh token
    stored,     \* the tokens whose key is in Redis
    pat,        \* table personal_access_tokens
    handler,    \* what each request does next, and for which token
    failing,    \* the store whose calls may fail
    signIns,    \* how many sign-ins there have been
    overlaps,   \* how many refreshes began beside another of their token
    spent       \* the tokens whose rotation or revocation has been answered

patVars     == <<pat>>
refreshVars == <<session, stored, handler, signIns, overlaps, spent>>
sessionVars == <<refreshVars, patVars, failing>>

Idle == [step |-> "idle", token |-> 0]

SessionsTypeOK ==
    /\ session  \in [Tokens -> {"absent", "live", "revoked"}]
    /\ stored   \in SUBSET Tokens
    /\ pat      \in [Pats -> [status : {"absent", "active", "revoked"},
                              used : BOOLEAN]]
    /\ handler  \in [Handlers ->
                        [step : {"idle", "forget", "revoke", "issue", "store", "touch"},
                         token : 0 .. (MaxTokens + MaxPats)]]
    /\ failing  \in Unreliable
    /\ signIns  \in 0 .. MaxTokens
    /\ overlaps \in 0 .. MaxOverlaps
    /\ spent    \in SUBSET Tokens

SessionsInit ==
    /\ session  = [t \in Tokens |-> "absent"]
    /\ stored   = {}
    /\ pat      = [p \in Pats |-> [status |-> "absent", used |-> FALSE]]
    /\ handler  = [h \in Handlers |-> Idle]
    /\ failing  \in Unreliable
    /\ signIns  = 0
    /\ overlaps = 0
    /\ spent    = {}

-----------------------------------------------------------------------------
(* issueTokens                                                             *)

Goto(h, s, t) == handler' = [handler EXCEPT ![h] = [step |-> s, token |-> t]]

Unissued == {t \in Tokens : session[t] = "absent"}

\* Nobody has it yet; which one it is makes no difference.
NextToken == CHOOSE t \in Unissued : TRUE

\* Registered, logged in or bootstrapped: module SignIn.
IssueTokens(h) ==
    /\ handler[h] = Idle
    /\ Goto(h, "issue", 0)
    /\ signIns < MaxTokens
    /\ signIns' = signIns + 1
    /\ UNCHANGED <<session, stored, overlaps, spent>>

\* The row ...
CreateSession(h) ==
    /\ handler[h].step = "issue"
    /\ \/ /\ Unissued # {}
          /\ session' = [session EXCEPT ![NextToken] = "live"]
          /\ Goto(h, "store", NextToken)
       \/ /\ failing = "db"
          /\ Goto(h, "idle", 0)
          /\ UNCHANGED session
    /\ UNCHANGED <<stored, signIns, overlaps, spent>>

\* ... and the key.  When Redis fails the row stays.
StoreRefreshKey(h) ==
    /\ handler[h].step = "store"
    /\ Goto(h, "idle", 0)
    /\ \/ stored' = stored \cup {handler[h].token}
       \/ failing = "redis" /\ UNCHANGED stored
    /\ UNCHANGED <<session, signIns, overlaps, spent>>

-----------------------------------------------------------------------------
(* Refresh, RevokeSession.  Logout is no action: all it writes is a key    *)
(* `jp:deny:<jti>' that nothing reads; sessions and tokens stay.           *)

\* The row must be there and not revoked.
GetSessionByRefreshJTI(t) == session[t] = "live"

RefreshedBy(t) == {h \in Handlers : handler[h].token = t /\
                                    handler[h].step \in {"forget", "revoke"}}

\* Mutant: Redis alone is asked.
RefreshByKey(h, t) ==
    /\ handler[h] = Idle
    /\ t \in stored
    /\ Goto(h, "forget", t)
    /\ overlaps' = overlaps + Cardinality(RefreshedBy(t))
    /\ overlaps' <= MaxOverlaps
    /\ UNCHANGED <<session, stored, signIns, spent>>

\* The token is read; two requests may both find it good.
Refresh(h, t) ==
    /\ handler[h] = Idle
    /\ t \in stored
    /\ GetSessionByRefreshJTI(t)
    /\ Goto(h, "forget", t)
    /\ overlaps' = overlaps + Cardinality(RefreshedBy(t))
    /\ overlaps' <= MaxOverlaps
    /\ UNCHANGED <<session, stored, signIns, spent>>

\* Rotate: the errors of both calls are dropped.
DeleteRefreshKey(h) ==
    LET t == handler[h].token IN
    /\ handler[h].step = "forget"
    /\ Goto(h, "revoke", t)
    /\ \/ stored' = stored \ {t}
       \/ failing = "redis" /\ UNCHANGED stored
    /\ UNCHANGED <<session, signIns, overlaps, spent>>

\* Mutant: the row is left to expire.
LeaveSession(h) ==
    LET t == handler[h].token IN
    /\ handler[h].step = "revoke"
    /\ Goto(h, "issue", t)
    /\ spent' = spent \cup {t}
    /\ UNCHANGED <<session, stored, signIns, overlaps>>

RevokeSessionByJTI(h) ==
    LET t == handler[h].token IN
    /\ handler[h].step = "revoke"
    /\ Goto(h, "issue", t)
    /\ \/ session' = [session EXCEPT ![t] = "revoked"]
       \/ failing = "db" /\ UNCHANGED session
    /\ spent' = spent \cup {t}
    /\ UNCHANGED <<stored, signIns, overlaps>>

\* One statement; the key stays in Redis.
RevokeSession(t) ==
    /\ session[t] = "live"
    /\ session' = [session EXCEPT ![t] = "revoked"]
    /\ spent'   = spent \cup {t}
    /\ UNCHANGED <<stored, handler, signIns, overlaps>>

\* The key's time to live.
KeyExpires(t) ==
    /\ t \in stored
    /\ stored' = stored \ {t}
    /\ UNCHANGED <<session, handler, signIns, overlaps, spent>>

\* The client goes away or the service restarts.
RequestDies(h) ==
    /\ handler[h] # Idle
    /\ Goto(h, "idle", 0)
    /\ UNCHANGED <<session, stored, signIns, overlaps, spent>>

-----------------------------------------------------------------------------
(* Personal access tokens                                                  *)

Missing == {p \in Pats : pat[p].status = "absent"}

CreatePAT ==
    /\ Missing # {}
    /\ LET p == CHOOSE p \in Missing : TRUE
       IN pat' = [pat EXCEPT ![p].status = "active"]
    /\ UNCHANGED handler

RevokePAT(p) ==
    /\ pat[p].status = "active"
    /\ pat' = [pat EXCEPT ![p].status = "revoked"]
    /\ UNCHANGED handler

\* VerifyPATInternal reads the row of an active token ...
LookupPATByHash(h, p) ==
    /\ handler[h] = Idle
    /\ pat[p].status = "active"
    /\ Goto(h, "touch", p)
    /\ UNCHANGED pat

\* ... and then touches it, revoked or not by now.
TouchPAT(h) ==
    /\ handler[h].step = "touch"
    /\ pat' = [pat EXCEPT ![handler[h].token].used = TRUE]
    /\ Goto(h, "idle", 0)

-----------------------------------------------------------------------------
RefreshStep ==
    \/ \E h \in Handlers :
          \/ IssueTokens(h) \/ CreateSession(h) \/ StoreRefreshKey(h)
          \/ \E t \in Tokens : Refresh(h, t)
          \/ DeleteRefreshKey(h) \/ RevokeSessionByJTI(h) \/ RequestDies(h)
    \/ \E t \in Tokens : RevokeSession(t) \/ KeyExpires(t)

PatStep ==
    \/ CreatePAT
    \/ \E p \in Pats : RevokePAT(p)
    \/ \E h \in Handlers, p \in Pats : LookupPATByHash(h, p)
    \/ \E h \in Handlers : TouchPAT(h)

SessionsNext ==
    /\ \/ RefreshStep /\ UNCHANGED patVars
       \/ PatStep /\ UNCHANGED <<session, stored, signIns, overlaps, spent>>
    /\ UNCHANGED failing

SessionsSpec == SessionsInit /\ [][SessionsNext]_sessionVars

-----------------------------------------------------------------------------
(* Properties                                                              *)

Usable == {t \in stored : session[t] = "live"}

\* A refresh replaces the token it was given: there are never more usable
\* tokens than sign-ins, but for one more per refresh that began beside
\* another of the same token.  Either store alone may fail.
RefreshesReplace == Cardinality(Usable) <= signIns + overlaps

\* Once a rotation or a revocation of a token has been answered, no request
\* begins to refresh with it, although a revocation leaves the key in Redis
\* and a rotation drops the errors of both stores.  Nor does a revoked
\* personal access token come back when a request that verified it touches it.
SpentTokensStayDead ==
    [][/\ \A h \in Handlers :
             (handler[h] = Idle /\ handler'[h].step = "forget")
                 => handler'[h].token \notin spent
       /\ \A p \in Pats : pat[p].status = "revoked" => pat'[p].status = "revoked"
      ]_sessionVars

=============================================================================
