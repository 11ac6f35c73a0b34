--------------------------- MODULE Sessions_proofs --------------------------
(***************************************************************************)
(* Theorems about Sessions: for every number of tokens and of requests in  *)
(* flight, a refresh token that was rotated or revoked is never refreshed  *)
(* with again, whichever of the two stores fails, and refreshes replace    *)
(* tokens and add none, but where two of one token meet.                   *)
(***************************************************************************)
EXTENDS Sessions, FiniteSetTheorems, TLAPS

\* The steps of a request that holds a refresh token.
Holding == {"forget", "revoke", "store"}

\* Only tokens that were issued are held, stored or spent.
Issued ==
    /\ \A t \in stored \cup spent : session[t] # "absent"
    /\ \A h \in Handlers : handler[h].step \in Holding =>
           handler[h].token \in Tokens /\ session[handler[h].token] # "absent"

\* A token whose key is yet to be stored is held by that request alone.
NotYetStored ==
    \A h \in Handlers : handler[h].step = "store" =>
        /\ handler[h].token \notin stored
        /\ \A g \in Handlers \ {h} :
               handler[g].step \in Holding => handler[g].token # handler[h].token

\* A rotation gets to the row when the key is gone, unless Redis may fail.
KeyForgotten ==
    \A h \in Handlers : handler[h].step = "revoke" =>
        handler[h].token \notin stored \/ failing = "redis"

\* Of the two things that make a token usable one is gone for good: the row is
\* revoked, or, if Postgres may fail, the key is gone and nobody stores it.
Dead ==
    \A t \in spent :
        \/ session[t] = "revoked"
        \/ /\ failing = "db"
           /\ t \notin stored
           /\ \A h \in Handlers : handler[h].step = "store" => handler[h].token # t

SessionsInv == SessionsTypeOK /\ Issued /\ NotYetStored /\ KeyForgotten /\ Dead

-----------------------------------------------------------------------------
(* The initial states, and the steps                                       *)

LEMMA SessionsInitInv == SessionsInit => SessionsInv
<1> SUFFICES ASSUME SessionsInit PROVE SessionsInv
  OBVIOUS
<1>1. SessionsTypeOK
  BY SessionsAssumption
  DEF SessionsAssumption, SessionsInit, SessionsTypeOK, Idle
<1>2. Issued /\ NotYetStored /\ KeyForgotten /\ Dead
  BY DEF SessionsInit, Issued, NotYetStored, KeyForgotten, Dead, Holding, Idle
<1> QED
  BY <1>1, <1>2 DEF SessionsInv

\* The number of refreshes under way is a number.
LEMMA RefreshesCounted == \A t : Cardinality(RefreshedBy(t)) \in Nat
<1>1. \A t : IsFiniteSet(RefreshedBy(t))
  BY SessionsAssumption, FS_Subset DEF SessionsAssumption, RefreshedBy
<1> QED
  BY <1>1, FS_CardinalityType

LEMMA TokenIds == Tokens \subseteq 0 .. (MaxTokens + MaxPats)
                  /\ Pats \subseteq 0 .. (MaxTokens + MaxPats)
BY SessionsAssumption DEF SessionsAssumption, Tokens, Pats

\* A new token was not issued before.
LEMMA NextIsNew ==
    ASSUME SessionsTypeOK, Unissued # {}
    PROVE  NextToken \in Tokens /\ session[NextToken] = "absent"
BY DEF NextToken, Unissued

\* The steps that issue a token.
LEMMA IssueKeeps ==
    ASSUME SessionsInv, NEW h \in Handlers, UNCHANGED <<patVars, failing>>,
           IssueTokens(h) \/ CreateSession(h) \/ StoreRefreshKey(h)
    PROVE  SessionsInv'
<1>1. CASE IssueTokens(h)
  <2>1. SessionsTypeOK'
    BY <1>1, TokenIds, SessionsAssumption
    DEF SessionsInv, SessionsTypeOK, IssueTokens, Goto, patVars, SessionsAssumption
  <2>2. (Issued /\ NotYetStored /\ KeyForgotten /\ Dead)'
    BY <1>1 DEF SessionsInv, SessionsTypeOK, IssueTokens, Goto, Idle, Holding,
                Issued, NotYetStored, KeyForgotten, Dead
  <2> QED
    BY <2>1, <2>2 DEF SessionsInv
<1>2. CASE CreateSession(h) /\ Unissued # {}
           /\ session' = [session EXCEPT ![NextToken] = "live"]
           /\ Goto(h, "store", NextToken)
  <2> DEFINE n == NextToken
  <2>1. n \in Tokens /\ session[n] = "absent"
    BY <1>2, NextIsNew DEF SessionsInv
  <2> HIDE DEF n
  <2>2. /\ handler' = [handler EXCEPT ![h] = [step |-> "store", token |-> n]]
        /\ session' = [session EXCEPT ![n] = "live"]
        /\ UNCHANGED <<stored, signIns, overlaps, spent, pat, failing>>
        /\ handler[h].step = "issue"
    BY <1>2 DEF CreateSession, Goto, patVars, n
  <2>3. SessionsTypeOK'
    BY <2>1, <2>2, TokenIds DEF SessionsInv, SessionsTypeOK
  <2>4. n \notin stored /\ n \notin spent
    BY <2>1 DEF SessionsInv, Issued
  <2>5. \A g \in Handlers : handler[g].step \in Holding => handler[g].token # n
    BY <2>1 DEF SessionsInv, Issued
  <2>6. Issued'
    BY <2>1, <2>2, <2>4, <2>5 DEF SessionsInv, SessionsTypeOK, Issued, Holding
  <2>7. NotYetStored'
    BY <2>1, <2>2, <2>4, <2>5 DEF SessionsInv, SessionsTypeOK, NotYetStored, Holding
  <2>8. KeyForgotten' /\ Dead'
    BY <2>1, <2>2, <2>4, <2>5 DEF SessionsInv, SessionsTypeOK, KeyForgotten, Dead, Holding
  <2> QED
    BY <2>3, <2>6, <2>7, <2>8 DEF SessionsInv
<1>3. CASE CreateSession(h) /\ Goto(h, "idle", 0) /\ UNCHANGED session
  <2>1. SessionsTypeOK'
    BY <1>3, TokenIds, SessionsAssumption
    DEF SessionsInv, SessionsTypeOK, CreateSession, Goto, patVars, SessionsAssumption
  <2>2. (Issued /\ NotYetStored /\ KeyForgotten /\ Dead)'
    BY <1>3 DEF SessionsInv, SessionsTypeOK, CreateSession, Goto, Holding,
                Issued, NotYetStored, KeyForgotten, Dead
  <2> QED
    BY <2>1, <2>2 DEF SessionsInv
<1>4. CASE StoreRefreshKey(h)
  <2>1. handler[h].token \in Tokens
    BY <1>4 DEF SessionsInv, Issued, StoreRefreshKey, Holding
  <2>2. SessionsTypeOK'
    BY <1>4, <2>1, SessionsAssumption
    DEF SessionsInv, SessionsTypeOK, StoreRefreshKey, Goto, patVars, SessionsAssumption
  <2>3. Issued'
    BY <1>4 DEF SessionsInv, SessionsTypeOK, StoreRefreshKey, Goto, Holding, Issued
  <2>4. NotYetStored'
    BY <1>4 DEF SessionsInv, SessionsTypeOK, StoreRefreshKey, Goto, Holding, NotYetStored
  <2>5. KeyForgotten'
    BY <1>4 DEF SessionsInv, SessionsTypeOK, StoreRefreshKey, Goto, Holding, NotYetStored,
                KeyForgotten
  <2>6. Dead'
    BY <1>4 DEF SessionsInv, SessionsTypeOK, StoreRefreshKey, Goto, Dead
  <2> QED
    BY <2>2, <2>3, <2>4, <2>5, <2>6 DEF SessionsInv
<1> QED
  BY <1>1, <1>2, <1>3, <1>4 DEF CreateSession

\* The steps of a refresh.
LEMMA RefreshKeeps ==
    ASSUME SessionsInv, NEW h \in Handlers, UNCHANGED <<patVars, failing>>,
           \/ \E t \in Tokens : Refresh(h, t)
           \/ DeleteRefreshKey(h) \/ RevokeSessionByJTI(h) \/ RequestDies(h)
    PROVE  SessionsInv'
<1>1. ASSUME NEW t \in Tokens, Refresh(h, t)
      PROVE  SessionsInv'
  <2>1. overlaps' \in 0 .. MaxOverlaps
    BY <1>1, RefreshesCounted, SessionsAssumption
    DEF SessionsInv, SessionsTypeOK, Refresh, SessionsAssumption
  <2>2. SessionsTypeOK'
    BY <1>1, <2>1, TokenIds DEF SessionsInv, SessionsTypeOK, Refresh, Goto, patVars
  <2>3. t \in stored /\ session[t] = "live"
    BY <1>1 DEF Refresh, GetSessionByRefreshJTI
  <2>4. (Issued /\ NotYetStored /\ KeyForgotten /\ Dead)'
    BY <1>1, <2>3 DEF SessionsInv, SessionsTypeOK, Refresh, Goto, Idle, Holding,
                      Issued, NotYetStored, KeyForgotten, Dead
  <2> QED
    BY <2>2, <2>4 DEF SessionsInv
<1>2. CASE DeleteRefreshKey(h)
  <2>1. SessionsTypeOK'
    BY <1>2 DEF SessionsInv, SessionsTypeOK, DeleteRefreshKey, Goto, patVars
  <2>2. (Issued /\ NotYetStored /\ KeyForgotten /\ Dead)'
    BY <1>2 DEF SessionsInv, SessionsTypeOK, DeleteRefreshKey, Goto, Holding,
                Issued, NotYetStored, KeyForgotten, Dead
  <2> QED
    BY <2>1, <2>2 DEF SessionsInv
<1>3. CASE RevokeSessionByJTI(h)
  <2> DEFINE t == handler[h].token
  <2>1. t \in Tokens /\ session[t] # "absent"
    BY <1>3 DEF SessionsInv, Issued, RevokeSessionByJTI, Holding
  <2>2. SessionsTypeOK'
    BY <1>3, <2>1 DEF SessionsInv, SessionsTypeOK, RevokeSessionByJTI, Goto, patVars
  <2>3. (Issued /\ NotYetStored /\ KeyForgotten)'
    BY <1>3, <2>1 DEF SessionsInv, SessionsTypeOK, RevokeSessionByJTI, Goto, Holding,
                      Issued, NotYetStored, KeyForgotten
  <2>4. \A g \in Handlers : handler[g].step = "store" => handler[g].token # t
    BY <1>3 DEF SessionsInv, NotYetStored, RevokeSessionByJTI, Holding
  <2>5. failing = "db" => t \notin stored
    BY <1>3 DEF SessionsInv, KeyForgotten, RevokeSessionByJTI
  <2>6. Dead'
    BY <1>3, <2>1, <2>4, <2>5
    DEF SessionsInv, SessionsTypeOK, RevokeSessionByJTI, Goto, Dead
  <2> QED
    BY <2>2, <2>3, <2>6 DEF SessionsInv
<1>4. CASE RequestDies(h)
  <2>1. SessionsTypeOK'
    BY <1>4, SessionsAssumption
    DEF SessionsInv, SessionsTypeOK, RequestDies, Goto, patVars, SessionsAssumption
  <2>2. (Issued /\ NotYetStored /\ KeyForgotten /\ Dead)'
    BY <1>4 DEF SessionsInv, SessionsTypeOK, RequestDies, Goto, Holding,
                Issued, NotYetStored, KeyForgotten, Dead
  <2> QED
    BY <2>1, <2>2 DEF SessionsInv
<1> QED
  BY <1>1, <1>2, <1>3, <1>4

\* A revocation, and a key that expires.
LEMMA EndKeeps ==
    ASSUME SessionsInv, NEW t \in Tokens, UNCHANGED <<patVars, failing>>,
           RevokeSession(t) \/ KeyExpires(t)
    PROVE  SessionsInv'
<1>1. CASE RevokeSession(t)
  BY <1>1 DEF SessionsInv, SessionsTypeOK, RevokeSession, patVars, Holding,
              Issued, NotYetStored, KeyForgotten, Dead
<1>2. CASE KeyExpires(t)
  BY <1>2 DEF SessionsInv, SessionsTypeOK, KeyExpires, patVars, Holding,
              Issued, NotYetStored, KeyForgotten, Dead
<1> QED
  BY <1>1, <1>2

\* Personal access tokens: their requests hold no refresh token.
LEMMA PatKeeps ==
    ASSUME SessionsInv, PatStep,
           UNCHANGED <<session, stored, signIns, overlaps, spent, failing>>
    PROVE  SessionsInv'
<1>1. pat' \in [Pats -> [status : {"absent", "active", "revoked"}, used : BOOLEAN]]
  <2>1. CASE CreatePAT
    <3>1. PICK q \in Missing : pat' = [pat EXCEPT ![q].status = "active"]
      BY <2>1 DEF CreatePAT
    <3> QED
      BY <3>1 DEF SessionsInv, SessionsTypeOK, Missing
  <2>2. CASE \E p \in Pats : RevokePAT(p)
    BY <2>2 DEF SessionsInv, SessionsTypeOK, RevokePAT
  <2>3. CASE \E h \in Handlers : TouchPAT(h)
    <3>1. PICK x : pat' = [pat EXCEPT ![x].used = TRUE]
      BY <2>3 DEF TouchPAT
    <3>2. ASSUME NEW p \in Pats
          PROVE  pat'[p] \in [status : {"absent", "active", "revoked"}, used : BOOLEAN]
      <4>1. pat[p] \in [status : {"absent", "active", "revoked"}, used : BOOLEAN]
        BY DEF SessionsInv, SessionsTypeOK
      <4>2. pat'[p] = pat[p] \/ pat'[p] = [pat[p] EXCEPT !.used = TRUE]
        BY <3>1 DEF SessionsInv, SessionsTypeOK
      <4> QED
        BY <4>1, <4>2
    <3>3. pat' = [p \in Pats |-> pat'[p]]
      BY <3>1 DEF SessionsInv, SessionsTypeOK
    <3> QED
      BY <3>2, <3>3
  <2>4. CASE UNCHANGED pat
    BY <2>4 DEF SessionsInv, SessionsTypeOK
  <2> QED
    BY <2>1, <2>2, <2>3, <2>4 DEF PatStep, LookupPATByHash
<1>2. \/ handler' = handler
      \/ \E h \in Handlers, p \in Pats :
             handler' = [handler EXCEPT ![h] = [step |-> "touch", token |-> p]]
      \/ \E h \in Handlers :
             handler' = [handler EXCEPT ![h] = [step |-> "idle", token |-> 0]]
  BY DEF PatStep, CreatePAT, RevokePAT, LookupPATByHash, TouchPAT, Goto
<1>3. handler' \in [Handlers ->
                        [step : {"idle", "forget", "revoke", "issue", "store", "touch"},
                         token : 0 .. (MaxTokens + MaxPats)]]
  BY <1>2, TokenIds, SessionsAssumption
  DEF SessionsInv, SessionsTypeOK, SessionsAssumption
<1>4. SessionsTypeOK'
  BY <1>1, <1>3 DEF SessionsInv, SessionsTypeOK
<1>5. \A h \in Handlers : handler'[h].step \in Holding => handler'[h] = handler[h]
  BY <1>2 DEF SessionsInv, SessionsTypeOK, Holding
<1>6. (Issued /\ NotYetStored /\ KeyForgotten /\ Dead)'
  BY <1>5 DEF SessionsInv, Holding, Issued, NotYetStored, KeyForgotten, Dead
<1> QED
  BY <1>4, <1>6 DEF SessionsInv

LEMMA SessionsStepKeeps ==
    ASSUME SessionsInv, [SessionsNext]_sessionVars
    PROVE  SessionsInv'
<1>1. CASE RefreshStep /\ UNCHANGED <<patVars, failing>>
  BY <1>1, IssueKeeps, RefreshKeeps, EndKeeps DEF RefreshStep
<1>2. CASE PatStep /\ UNCHANGED <<session, stored, signIns, overlaps, spent, failing>>
  BY <1>2, PatKeeps
<1>3. CASE UNCHANGED sessionVars
  BY <1>3 DEF SessionsInv, SessionsTypeOK, Issued, NotYetStored, KeyForgotten, Dead,
              sessionVars, refreshVars, patVars
<1> QED
  BY <1>1, <1>2, <1>3 DEF SessionsNext

\* Everything the identity service keeps of sessions has its type, and a spent
\* token lacks its row or its key for good.
THEOREM SessionsInvariant == SessionsSpec => []SessionsInv
<1>1. SessionsInv /\ [SessionsNext]_sessionVars => SessionsInv'
  BY SessionsStepKeeps
<1> QED
  BY SessionsInitInv, <1>1, PTL DEF SessionsSpec

-----------------------------------------------------------------------------
(* Spent tokens                                                            *)

\* A request begins to refresh with a token that is stored and live: not with
\* a spent one.
LEMMA BeginsWithUsable ==
    ASSUME SessionsInv, [SessionsNext]_sessionVars, NEW h \in Handlers,
           handler[h] = Idle, handler'[h].step = "forget"
    PROVE  handler'[h].token \notin spent
<1>1. handler'[h] # handler[h]
  BY DEF Idle
<1>2. CASE \E g \in Handlers, t \in Tokens : Refresh(g, t)
  <2>1. PICK g \in Handlers, t \in Tokens : Refresh(g, t)
    BY <1>2
  <2>2. g = h /\ handler'[h].token = t
    BY <2>1, <1>1 DEF Refresh, Goto, SessionsInv, SessionsTypeOK
  <2>3. t \in stored /\ session[t] = "live"
    BY <2>1 DEF Refresh, GetSessionByRefreshJTI
  <2> QED
    BY <2>2, <2>3 DEF SessionsInv, Dead
<1>3. CASE \E g \in Handlers : \/ IssueTokens(g) \/ CreateSession(g)
                               \/ StoreRefreshKey(g) \/ DeleteRefreshKey(g)
                               \/ RevokeSessionByJTI(g) \/ RequestDies(g)
  BY <1>1, <1>3 DEF SessionsInv, SessionsTypeOK, IssueTokens, CreateSession, StoreRefreshKey,
              DeleteRefreshKey, RevokeSessionByJTI, RequestDies, Goto, Idle
<1>4. CASE \E t \in Tokens : RevokeSession(t) \/ KeyExpires(t)
  BY <1>1, <1>4 DEF RevokeSession, KeyExpires
<1>5. CASE PatStep
  <2>1. PICK g \in Handlers, p \in Nat, step \in {"touch", "idle"} :
            handler' = [handler EXCEPT ![g] = [step |-> step, token |-> p]]
    <3>1. handler' # handler
      BY <1>1
    <3>2. Pats \subseteq Nat
      BY DEF Pats
    <3> QED
      BY <1>5, <3>1, <3>2 DEF PatStep, CreatePAT, RevokePAT, LookupPATByHash, TouchPAT, Goto
  <2> QED
    BY <1>1, <2>1 DEF SessionsInv, SessionsTypeOK
<1>6. CASE UNCHANGED sessionVars
  BY <1>1, <1>6 DEF sessionVars, refreshVars
<1> QED
  BY <1>2, <1>3, <1>4, <1>5, <1>6 DEF SessionsNext, RefreshStep

\* A personal access token that is revoked stays so.
LEMMA RevokedStays ==
    ASSUME SessionsInv, [SessionsNext]_sessionVars, NEW p \in Pats,
           pat[p].status = "revoked"
    PROVE  pat'[p].status = "revoked"
<1>1. CASE CreatePAT
  <2>1. PICK q \in Missing : pat' = [pat EXCEPT ![q].status = "active"]
    BY <1>1 DEF CreatePAT
  <2>2. q # p
    BY DEF Missing
  <2> QED
    BY <2>1, <2>2 DEF SessionsInv, SessionsTypeOK, Missing
<1>2. CASE \E q \in Pats : RevokePAT(q)
  BY <1>2 DEF SessionsInv, SessionsTypeOK, RevokePAT
<1>3. CASE \E h \in Handlers : TouchPAT(h)
  BY <1>3 DEF SessionsInv, SessionsTypeOK, TouchPAT
<1>4. CASE UNCHANGED pat
  BY <1>4
<1> QED
  BY <1>1, <1>2, <1>3, <1>4
  DEF SessionsNext, PatStep, LookupPATByHash, patVars, sessionVars

\* What one step does, in the invariant: SpentTokensStayDead as an action.
LEMMA StepsSpareTheDead ==
    ASSUME SessionsInv, [SessionsNext]_sessionVars
    PROVE  [/\ \A h \in Handlers :
                  (handler[h] = Idle /\ handler'[h].step = "forget")
                      => handler'[h].token \notin spent
            /\ \A p \in Pats : pat[p].status = "revoked" => pat'[p].status = "revoked"
           ]_sessionVars
BY BeginsWithUsable, RevokedStays

\* Once a rotation or a revocation has been answered, the identity service
\* lets no request refresh with that token, and no revoked personal access
\* token comes back.
THEOREM SpentStayDead == SessionsSpec => SpentTokensStayDead
<1>1. SessionsInv /\ [SessionsNext]_sessionVars
      => [/\ \A h \in Handlers :
                (handler[h] = Idle /\ handler'[h].step = "forget")
                    => handler'[h].token \notin spent
          /\ \A p \in Pats : pat[p].status = "revoked" => pat'[p].status = "revoked"
         ]_sessionVars
  BY StepsSpareTheDead
<1> QED
  BY SessionsInvariant, <1>1, PTL DEF SessionsSpec, SpentTokensStayDead


-----------------------------------------------------------------------------
(* A refresh replaces its token                                            *)

\* The requests that will issue or store a token.
Working == {h \in Handlers : handler[h].step \in {"forget", "revoke", "issue", "store"}}

\* The usable tokens that no request is refreshing.
Untouched == {t \in Usable : RefreshedBy(t) = {}}

\* Every sign-in and every refresh beside another pays for one of them: a
\* refresh alone takes its token's place.
Replaced == Cardinality(Working) + Cardinality(Untouched) <= signIns + overlaps

\* One element more or less.
LEMMA OneMore ==
    ASSUME NEW S, NEW T, NEW x, IsFiniteSet(S), T \subseteq S \cup {x}
    PROVE  /\ IsFiniteSet(T) /\ Cardinality(T) \in Nat /\ Cardinality(S) \in Nat
           /\ Cardinality(T) <= Cardinality(S) + 1
<1>1. IsFiniteSet(S \cup {x}) /\ Cardinality(S) \in Nat
      /\ Cardinality(S \cup {x}) \in {Cardinality(S), Cardinality(S) + 1}
  BY FS_AddElement, FS_CardinalityType
<1>2. IsFiniteSet(T) /\ Cardinality(T) <= Cardinality(S \cup {x})
  BY <1>1, FS_Subset
<1>3. Cardinality(T) \in Nat
  BY <1>2, FS_CardinalityType
<1> QED
  BY <1>1, <1>2, <1>3

LEMMA OneLess ==
    ASSUME NEW S, NEW T, NEW x \in S, IsFiniteSet(S), T \subseteq S \ {x}
    PROVE  /\ IsFiniteSet(T) /\ Cardinality(T) \in Nat /\ Cardinality(S) \in Nat
           /\ Cardinality(T) <= Cardinality(S) - 1
<1>1. IsFiniteSet(S \ {x}) /\ Cardinality(S) \in Nat
      /\ Cardinality(S \ {x}) = Cardinality(S) - 1
  BY FS_RemoveElement, FS_CardinalityType
<1>2. IsFiniteSet(T) /\ Cardinality(T) <= Cardinality(S \ {x})
  BY <1>1, FS_Subset
<1>3. Cardinality(T) \in Nat
  BY <1>2, FS_CardinalityType
<1> QED
  BY <1>1, <1>2, <1>3

LEMMA NoMore ==
    ASSUME NEW S, NEW T, IsFiniteSet(S), T \subseteq S
    PROVE  /\ IsFiniteSet(T) /\ Cardinality(T) \in Nat /\ Cardinality(S) \in Nat
           /\ Cardinality(T) <= Cardinality(S)
BY FS_Subset, FS_CardinalityType

LEMMA ReplacedFinite ==
    ASSUME SessionsTypeOK
    PROVE  /\ IsFiniteSet(Working) /\ IsFiniteSet(Untouched)
           /\ signIns \in Nat /\ overlaps \in Nat
<1>1. IsFiniteSet(Tokens) /\ IsFiniteSet(Handlers)
  BY FS_Interval, SessionsAssumption DEF SessionsAssumption, Tokens
<1>2. Working \subseteq Handlers /\ Untouched \subseteq Tokens
  BY DEF Working, Untouched, Usable, SessionsTypeOK
<1> QED
  BY <1>1, <1>2, FS_Subset DEF SessionsTypeOK

\* What steps do to the balance: they lower one side, ...
LEMMA ReplacedKept ==
    ASSUME SessionsTypeOK, Replaced, Working' \subseteq Working,
           Untouched' \subseteq Untouched, UNCHANGED <<signIns, overlaps>>
    PROVE  Replaced'
BY ReplacedFinite, NoMore DEF Replaced

\* ... put a token in a request's place or a request in a token's, ...
LEMMA ReplacedTaken ==
    ASSUME SessionsTypeOK, Replaced, NEW h, NEW t \in Untouched,
           Working' \subseteq Working \cup {h},
           Untouched' \subseteq Untouched \ {t}, UNCHANGED <<signIns, overlaps>>
    PROVE  Replaced'
<1>1. IsFiniteSet(Working) /\ IsFiniteSet(Untouched)
      /\ signIns \in Nat /\ overlaps \in Nat
  BY ReplacedFinite
<1>2. /\ Cardinality(Working') <= Cardinality(Working) + 1
      /\ Cardinality(Working) \in Nat /\ Cardinality(Working') \in Nat
  BY <1>1, OneMore
<1>3. /\ Cardinality(Untouched') <= Cardinality(Untouched) - 1
      /\ Cardinality(Untouched) \in Nat /\ Cardinality(Untouched') \in Nat
  BY <1>1, OneLess
<1> QED
  BY <1>1, <1>2, <1>3 DEF Replaced

LEMMA ReplacedGiven ==
    ASSUME SessionsTypeOK, Replaced, NEW h \in Working, NEW t,
           Working' \subseteq Working \ {h},
           Untouched' \subseteq Untouched \cup {t}, UNCHANGED <<signIns, overlaps>>
    PROVE  Replaced'
<1>1. IsFiniteSet(Working) /\ IsFiniteSet(Untouched)
      /\ signIns \in Nat /\ overlaps \in Nat
  BY ReplacedFinite
<1>2. /\ Cardinality(Working') <= Cardinality(Working) - 1
      /\ Cardinality(Working) \in Nat /\ Cardinality(Working') \in Nat
  BY <1>1, OneLess
<1>3. /\ Cardinality(Untouched') <= Cardinality(Untouched) + 1
      /\ Cardinality(Untouched) \in Nat /\ Cardinality(Untouched') \in Nat
  BY <1>1, OneMore
<1> QED
  BY <1>1, <1>2, <1>3 DEF Replaced

\* ... or pay for a request more.
LEMMA ReplacedPaid ==
    ASSUME SessionsTypeOK, Replaced, NEW h,
           Working' \subseteq Working \cup {h}, Untouched' \subseteq Untouched,
           \E n \in Nat \ {0} :
              \/ signIns' = signIns + n /\ overlaps' = overlaps
              \/ signIns' = signIns /\ overlaps' = overlaps + n
    PROVE  Replaced'
<1>2. IsFiniteSet(Working) /\ IsFiniteSet(Untouched)
      /\ signIns \in Nat /\ overlaps \in Nat
  BY ReplacedFinite
<1>3. /\ Cardinality(Working') <= Cardinality(Working) + 1
      /\ Cardinality(Working) \in Nat /\ Cardinality(Working') \in Nat
  BY <1>2, OneMore
<1>4. /\ Cardinality(Untouched') <= Cardinality(Untouched)
      /\ Cardinality(Untouched) \in Nat /\ Cardinality(Untouched') \in Nat
  BY <1>2, NoMore
<1>5. Cardinality(Working) + Cardinality(Untouched) <= signIns + overlaps
  BY DEF Replaced
<1>6. Cardinality(Working') + Cardinality(Untouched') <= signIns' + overlaps'
  <2>1. /\ signIns + overlaps \in Nat /\ signIns' + overlaps' \in Nat
        /\ signIns + overlaps + 1 <= signIns' + overlaps'
    BY <1>2
  <2>2. /\ Cardinality(Working) + Cardinality(Untouched) \in Nat
        /\ Cardinality(Working') + Cardinality(Untouched') \in Nat
        /\ Cardinality(Working') + Cardinality(Untouched')
              <= Cardinality(Working) + Cardinality(Untouched) + 1
    BY <1>3, <1>4
  <2> QED
    BY <1>5, <2>1, <2>2
<1> QED
  BY <1>6 DEF Replaced

\* The requests that refresh t, when h moves.
LEMMA RefreshedAfter ==
    ASSUME SessionsTypeOK, NEW h \in Handlers, NEW s, NEW u, NEW t,
           handler' = [handler EXCEPT ![h] = [step |-> s, token |-> u]]
    PROVE  /\ RefreshedBy(t) \ {h} \subseteq RefreshedBy(t)'
           /\ RefreshedBy(t)' \ {h} \subseteq RefreshedBy(t)
           /\ s \in {"forget", "revoke"} /\ u = t => h \in RefreshedBy(t)'
           /\ Working' \ {h} = Working \ {h}
           /\ h \in Working' <=> s \in {"forget", "revoke", "issue", "store"}
BY DEF SessionsTypeOK, RefreshedBy, Working

LEMMA ReplacedByIssue ==
    ASSUME SessionsInv, SessionsInv', Replaced, NEW h \in Handlers,
           IssueTokens(h) \/ CreateSession(h) \/ StoreRefreshKey(h)
    PROVE  Replaced'
<1>1. SessionsTypeOK /\ SessionsTypeOK' /\ signIns \in Nat /\ overlaps \in Nat
  BY DEF SessionsInv, SessionsTypeOK
<1>2. CASE IssueTokens(h)
  <2>1. Working' \subseteq Working \cup {h} /\ Untouched' \subseteq Untouched
    BY <1>1, <1>2 DEF IssueTokens, Goto, Working, Untouched, Usable, RefreshedBy,
                      Idle, SessionsTypeOK
  <2>2. signIns' = signIns + 1 /\ overlaps' = overlaps
    BY <1>1, <1>2 DEF IssueTokens
  <2> QED
    BY <1>1, <2>1, <2>2, ReplacedPaid
<1>3. CASE CreateSession(h) /\ Unissued # {}
           /\ session' = [session EXCEPT ![NextToken] = "live"]
           /\ Goto(h, "store", NextToken)
  <2>1. NextToken \notin stored
    BY <1>1, <1>3, NextIsNew DEF SessionsInv, Issued
  <2>2. Usable' = Usable
    BY <1>1, <1>3, <2>1 DEF CreateSession, Usable, SessionsTypeOK
  <2>3. Working' \subseteq Working /\ \A t : RefreshedBy(t)' = RefreshedBy(t)
    BY <1>1, <1>3 DEF CreateSession, Goto, Working, RefreshedBy, SessionsTypeOK
  <2>4. Untouched' \subseteq Untouched /\ UNCHANGED <<signIns, overlaps>>
    BY <1>3, <2>2, <2>3 DEF Untouched, CreateSession
  <2> QED
    BY <1>1, <2>3, <2>4, ReplacedKept
<1>4. CASE CreateSession(h) /\ Goto(h, "idle", 0) /\ UNCHANGED session
  <2>1. Working' \subseteq Working /\ Untouched' \subseteq Untouched
    BY <1>1, <1>4 DEF CreateSession, Goto, Working, Untouched, Usable, RefreshedBy,
                      SessionsTypeOK
  <2> QED
    BY <1>1, <1>4, <2>1, ReplacedKept DEF CreateSession
<1>5. CASE StoreRefreshKey(h)
  <2>1. h \in Working /\ Working' \subseteq Working \ {h}
    BY <1>1, <1>5 DEF StoreRefreshKey, Goto, Working, SessionsTypeOK
  <2>2. \A t : RefreshedBy(t)' = RefreshedBy(t)
    BY <1>1, <1>5 DEF StoreRefreshKey, Goto, RefreshedBy, SessionsTypeOK
  <2>3. Untouched' \subseteq Untouched \cup {handler[h].token}
    BY <1>5, <2>2 DEF StoreRefreshKey, Untouched, Usable
  <2> QED
    BY <1>1, <1>5, <2>1, <2>3, ReplacedGiven DEF StoreRefreshKey
<1> QED
  BY <1>2, <1>3, <1>4, <1>5 DEF CreateSession

LEMMA ReplacedByRefresh ==
    ASSUME SessionsInv, SessionsInv', UNCHANGED failing, Replaced, NEW h \in Handlers,
           \/ \E t \in Tokens : Refresh(h, t)
           \/ DeleteRefreshKey(h) \/ RevokeSessionByJTI(h)
    PROVE  Replaced'
<1>1. SessionsTypeOK /\ SessionsTypeOK' /\ signIns \in Nat /\ overlaps \in Nat
  BY DEF SessionsInv, SessionsTypeOK
<1>2. ASSUME NEW t \in Tokens, Refresh(h, t)
      PROVE  Replaced'
  <2>1. /\ t \in Usable /\ Usable' = Usable /\ signIns' = signIns
        /\ handler' = [handler EXCEPT ![h] = [step |-> "forget", token |-> t]]
        /\ handler[h].step = "idle"
        /\ overlaps' = overlaps + Cardinality(RefreshedBy(t))
    BY <1>2 DEF Refresh, GetSessionByRefreshJTI, Usable, Goto, Idle
  <2>2. Working' \subseteq Working \cup {h}
    BY <1>1, <2>1, RefreshedAfter
  <2>3. \A u : RefreshedBy(u) \subseteq RefreshedBy(u)'
    BY <1>1, <2>1 DEF RefreshedBy, SessionsTypeOK
  <2>4. h \in RefreshedBy(t)'
    BY <1>1, <2>1, RefreshedAfter
  <2>5. Untouched' \subseteq Untouched \ {t}
    BY <2>1, <2>3, <2>4 DEF Untouched
  <2>6. CASE RefreshedBy(t) = {}
    <3>1. t \in Untouched /\ overlaps' = overlaps
      BY <1>1, <2>1, <2>6, FS_EmptySet DEF Untouched
    <3> QED
      BY <1>1, <2>1, <2>2, <2>5, <3>1, ReplacedTaken
  <2>7. CASE RefreshedBy(t) # {}
    <3>1. IsFiniteSet(RefreshedBy(t))
      BY SessionsAssumption, FS_Subset DEF SessionsAssumption, RefreshedBy
    <3>2. Cardinality(RefreshedBy(t)) \in Nat \ {0}
      BY <2>7, <3>1, FS_EmptySet, FS_CardinalityType
    <3> QED
      BY <1>1, <2>1, <2>2, <2>5, <3>2, ReplacedPaid
  <2> QED
    BY <2>6, <2>7
<1>3. CASE DeleteRefreshKey(h)
  <2>1. /\ handler' = [handler EXCEPT ![h] = [step |-> "revoke",
                                              token |-> handler[h].token]]
        /\ handler[h].step = "forget" /\ UNCHANGED <<session, signIns, overlaps>>
        /\ stored' \subseteq stored
    BY <1>3 DEF DeleteRefreshKey, Goto
  <2>2. Working' = Working /\ \A t : RefreshedBy(t)' = RefreshedBy(t)
    BY <1>1, <2>1 DEF Working, RefreshedBy, SessionsTypeOK
  <2>3. Untouched' \subseteq Untouched
    BY <2>1, <2>2 DEF Untouched, Usable
  <2> QED
    BY <1>1, <2>1, <2>2, <2>3, ReplacedKept
<1>4. CASE RevokeSessionByJTI(h)
  <2> DEFINE t == handler[h].token
  <2>1. /\ handler' = [handler EXCEPT ![h] = [step |-> "issue", token |-> t]]
        /\ handler[h].step = "revoke" /\ UNCHANGED <<stored, signIns, overlaps>>
        /\ \/ session' = [session EXCEPT ![t] = "revoked"]
           \/ failing = "db" /\ session' = session
    BY <1>4 DEF RevokeSessionByJTI, Goto
  <2>2. t \in Tokens /\ (t \notin stored \/ failing = "redis")
    BY <2>1 DEF SessionsInv, Issued, KeyForgotten, Holding
  <2> HIDE DEF t
  <2>3. t \notin Usable' /\ Usable' \subseteq Usable
    BY <1>1, <2>1, <2>2 DEF Usable, SessionsTypeOK
  <2>4. Working' = Working
    BY <1>1, <2>1 DEF Working, SessionsTypeOK
  <2>5. \A u : u # t => RefreshedBy(u)' = RefreshedBy(u)
    BY <1>1, <2>1 DEF RefreshedBy, SessionsTypeOK, t
  <2>6. Untouched' \subseteq Untouched
    BY <2>3, <2>5 DEF Untouched
  <2> QED
    BY <1>1, <2>1, <2>4, <2>6, ReplacedKept
<1> QED
  BY <1>2, <1>3, <1>4

LEMMA ReplacedAtEnd ==
    ASSUME SessionsInv, Replaced,
           \/ \E h \in Handlers : RequestDies(h)
           \/ \E t \in Tokens : RevokeSession(t) \/ KeyExpires(t)
    PROVE  Replaced'
<1>1. SessionsTypeOK
  BY DEF SessionsInv
<1>2. ASSUME NEW h \in Handlers, RequestDies(h)
      PROVE  Replaced'
  <2>1. /\ handler' = [handler EXCEPT ![h] = [step |-> "idle", token |-> 0]]
        /\ Usable' = Usable /\ UNCHANGED <<signIns, overlaps>>
    BY <1>2 DEF RequestDies, Goto, Usable
  <2>2. Working' \subseteq Working \ {h}
    BY <1>1, <2>1 DEF Working, SessionsTypeOK
  <2>3. CASE h \in Working
    <3>1. \A t : t # handler[h].token => RefreshedBy(t)' = RefreshedBy(t)
      BY <1>1, <2>1 DEF RefreshedBy, SessionsTypeOK
    <3>2. Untouched' \subseteq Untouched \cup {handler[h].token}
      BY <2>1, <3>1 DEF Untouched
    <3> QED
      BY <1>1, <2>1, <2>2, <2>3, <3>2, ReplacedGiven
  <2>4. CASE h \notin Working
    <3>1. \A t : RefreshedBy(t)' = RefreshedBy(t)
      BY <1>1, <2>1, <2>4 DEF RefreshedBy, Working, SessionsTypeOK
    <3>2. Untouched' \subseteq Untouched
      BY <2>1, <3>1 DEF Untouched
    <3> QED
      BY <1>1, <2>1, <2>2, <3>2, ReplacedKept
  <2> QED
    BY <2>3, <2>4
<1>3. CASE \E t \in Tokens : RevokeSession(t) \/ KeyExpires(t)
  <2>1. Usable' \subseteq Usable /\ UNCHANGED <<handler, signIns, overlaps>>
    BY <1>1, <1>3 DEF RevokeSession, KeyExpires, Usable, SessionsTypeOK
  <2>2. Working' = Working /\ Untouched' \subseteq Untouched
    BY <2>1 DEF Working, Untouched, RefreshedBy
  <2> QED
    BY <1>1, <2>1, <2>2, ReplacedKept
<1> QED
  BY <1>2, <1>3

LEMMA ReplacedByPat ==
    ASSUME SessionsInv, Replaced, PatStep, UNCHANGED <<session, stored, signIns, overlaps>>
    PROVE  Replaced'
<1>1. SessionsTypeOK
  BY DEF SessionsInv
<1>2. \/ handler' = handler
      \/ \E h \in Handlers, s \in {"touch", "idle"} : \E t :
             /\ handler[h].step \in {"touch", "idle"}
             /\ handler' = [handler EXCEPT ![h] = [step |-> s, token |-> t]]
  <2>1. CreatePAT \/ (\E p \in Pats : RevokePAT(p)) => handler' = handler
    BY DEF CreatePAT, RevokePAT
  <2>2. ASSUME NEW h \in Handlers, NEW p \in Pats, LookupPATByHash(h, p)
        PROVE  /\ handler[h].step = "idle"
               /\ handler' = [handler EXCEPT ![h] = [step |-> "touch", token |-> p]]
    BY <2>2 DEF LookupPATByHash, Goto, Idle
  <2>3. ASSUME NEW h \in Handlers, TouchPAT(h)
        PROVE  /\ handler[h].step = "touch"
               /\ handler' = [handler EXCEPT ![h] = [step |-> "idle", token |-> 0]]
    BY <2>3 DEF TouchPAT, Goto
  <2> QED
    BY <2>1, <2>2, <2>3 DEF PatStep
<1>3. Working' = Working /\ \A t : RefreshedBy(t)' = RefreshedBy(t)
  BY <1>1, <1>2 DEF Working, RefreshedBy, SessionsTypeOK
<1>4. Untouched' \subseteq Untouched
  BY <1>3 DEF Untouched, Usable
<1> QED
  BY <1>1, <1>3, <1>4, ReplacedKept

LEMMA ReplacedStep ==
    ASSUME SessionsInv, Replaced, [SessionsNext]_sessionVars
    PROVE  Replaced'
<1>1. SessionsInv'
  BY SessionsStepKeeps
<1>2. CASE RefreshStep /\ UNCHANGED <<patVars, failing>>
  BY <1>1, <1>2, ReplacedByIssue, ReplacedByRefresh, ReplacedAtEnd DEF RefreshStep
<1>3. CASE PatStep /\ UNCHANGED <<session, stored, signIns, overlaps, spent, failing>>
  BY <1>3, ReplacedByPat
<1>4. CASE UNCHANGED sessionVars
  BY <1>4 DEF sessionVars, refreshVars, Replaced, Working, Untouched, Usable, RefreshedBy
<1> QED
  BY <1>2, <1>3, <1>4 DEF SessionsNext

LEMMA UsableFinite ==
    ASSUME SessionsTypeOK
    PROVE  IsFiniteSet(Usable)
<1>1. IsFiniteSet(Tokens)
  BY FS_Interval, SessionsAssumption DEF SessionsAssumption, Tokens
<1>2. Usable \subseteq Tokens
  BY DEF Usable, SessionsTypeOK
<1> QED
  BY <1>1, <1>2, FS_Subset

\* A usable token that is being refreshed has a request of its own.
LEMMA TouchedAreWorked ==
    ASSUME SessionsTypeOK
    PROVE  Cardinality(Usable) <= Cardinality(Working) + Cardinality(Untouched)
<1> DEFINE Touched == Usable \ Untouched
           f == [t \in Touched |-> CHOOSE h \in RefreshedBy(t) : TRUE]
<1>1. IsFiniteSet(Usable) /\ IsFiniteSet(Working)
  BY UsableFinite, ReplacedFinite
<1>2. IsFiniteSet(Touched) /\ IsFiniteSet(Untouched)
  BY <1>1, FS_Subset, ReplacedFinite
<1>3. Cardinality(Touched) <= Cardinality(Working)
  <2>1. \A t \in Touched : f[t] \in RefreshedBy(t)
    BY DEF Untouched
  <2>2. \A t : RefreshedBy(t) \subseteq Working
    BY DEF RefreshedBy, Working
  <2>3. f \in [Touched -> Working]
    BY <2>1, <2>2
  <2>4. \A t, u \in Touched : f[t] = f[u] => t = u
    BY <2>1 DEF RefreshedBy
  <2> HIDE DEF f, Touched
  <2>5. ~(Cardinality(Working) < Cardinality(Touched))
    BY <1>1, <1>2, <2>3, <2>4, FS_PigeonHole
  <2>6. Cardinality(Working) \in Nat /\ Cardinality(Touched) \in Nat
    BY <1>1, <1>2, FS_CardinalityType
  <2> QED
    BY <2>5, <2>6
<1>4. Cardinality(Touched) = Cardinality(Usable) - Cardinality(Untouched)
  <2>1. Usable \cap Untouched = Untouched
    BY DEF Untouched
  <2> QED
    BY <1>1, <2>1, FS_Difference
<1>5. /\ Cardinality(Usable) \in Nat /\ Cardinality(Untouched) \in Nat
      /\ Cardinality(Working) \in Nat /\ Cardinality(Touched) \in Nat
  BY <1>1, <1>2, FS_CardinalityType
<1> HIDE DEF Touched
<1> QED
  BY <1>3, <1>4, <1>5

\* A refresh replaces the token it was given, in whatever order the calls of
\* requests about one token reach the two stores and whichever store fails:
\* beyond one token per sign-in there is only what refreshes that began beside
\* another of the same token have left.
THEOREM RefreshesReplaceTokens == SessionsSpec => []RefreshesReplace
<1>1. SessionsInit => SessionsInv /\ Replaced
  <2> SUFFICES ASSUME SessionsInit PROVE Replaced
    BY SessionsInitInv
  <2>1. Working = {} /\ Untouched = {} /\ signIns = 0 /\ overlaps = 0
    BY DEF SessionsInit, Working, Untouched, Usable, Idle
  <2>2. Cardinality({}) = 0
    BY FS_EmptySet
  <2> QED
    BY <2>1, <2>2 DEF Replaced
<1>2. SessionsInv /\ Replaced /\ [SessionsNext]_sessionVars => (SessionsInv /\ Replaced)'
  BY SessionsStepKeeps, ReplacedStep
<1>3. SessionsInv /\ Replaced => RefreshesReplace
  <2> SUFFICES ASSUME SessionsInv, Replaced PROVE RefreshesReplace
    OBVIOUS
  <2>1. SessionsTypeOK
    BY DEF SessionsInv
  <2>2. Cardinality(Usable) \in Nat
    BY <2>1, UsableFinite, FS_CardinalityType
  <2>3. /\ Cardinality(Working) \in Nat /\ Cardinality(Untouched) \in Nat
        /\ signIns \in Nat /\ overlaps \in Nat
    BY <2>1, ReplacedFinite, FS_CardinalityType
  <2> QED
    BY <2>1, <2>2, <2>3, TouchedAreWorked DEF Replaced, RefreshesReplace
<1> QED
  BY <1>1, <1>2, <1>3, PTL DEF SessionsSpec

=============================================================================
