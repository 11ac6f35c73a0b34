--------------------------- MODULE SignIn_proofs ----------------------------
(***************************************************************************)
(* Proofs about SignIn: the types, the bound on failed logins, and the     *)
(* second factor of an account whose requests do not overlap.              *)
(*                                                                         *)
(* The bound is a matter of counting: a request that may still fail was    *)
(* let in while its email had failed fewer than LoginLimit times, so the   *)
(* failures and the requests still at work on an email stay together below *)
(* LoginLimit and the number of visitors.  The second factor is a matter   *)
(* of who holds a copy of the row: codes are never given out twice, so the *)
(* copies of one account's codes have nothing to do with another's, and    *)
(* while one request at a time holds the row its copy is what is there.    *)
(***************************************************************************)
EXTENDS SignIn, FiniteSetTheorems, TLAPS

Visits == [step : {"away", "password", "code", "consume", "admit",
                   "enable", "off", "disable", "found", "mark"},
           email : Emails \cup {NoEmail}, from : Addresses \cup {NoEmail},
           seen : Accounts, code : 0 .. MaxCodes]

\* A request that does something does it for an email.
HasEmail(r) == r.step # "away" => r.email \in Emails

\* The requests whose password or code for e is yet to be checked.
Trying(e) == {v \in Visitors : /\ visitor[v].email = e
                               /\ visitor[v].step \in {"password", "code"}}

\* Every failed login is counted, and what is counted and what is yet to be
\* checked stay together within the bound.
Counted ==
    \A e \in Emails :
        /\ tries[e] <= failures[e]
        /\ tries[e] + Cardinality(Trying(e)) < LoginLimit + Cardinality(Visitors)

\* A request that will write e's row from what it has read of it.
HoldsRow(v, e) == /\ visitor[v].email = e
                 /\ visitor[v].step \in {"consume", "enable", "off", "disable"}

\* Two of them make e raced.
HeldAlone ==
    \A v, w \in Visitors, e \in Emails :
        v # w /\ HoldsRow(v, e) /\ HoldsRow(w, e) => e \in raced

IssuedCodes == 1 .. made.codes

\* The codes of different accounts, and those that requests for different
\* accounts have read, are different, and were all given out.
RowsApart ==
    /\ usedCodes \subseteq IssuedCodes
    /\ \A e \in Emails : account[e].codes \subseteq IssuedCodes
    /\ \A e, f \in Emails : e # f => account[e].codes \cap account[f].codes = {}

CopyApart(r) ==
    /\ r.seen.codes \subseteq IssuedCodes
    /\ \A f \in Emails : f # r.email => r.seen.codes \cap account[f].codes = {}
    /\ \A w \in Visitors : visitor[w].email # r.email =>
           r.seen.codes \cap visitor[w].seen.codes = {}

\* What a request goes on from is what is there, unless others were there too.
CopyFits(r) ==
    /\ r.step = "consume" => r.code \in r.seen.codes
    /\ r.step = "consume" /\ r.email \notin raced => r.seen.codes = account[r.email].codes
    /\ r.step = "enable" /\ r.email \notin raced => account[r.email].secret # 0

CopyGood(r) == HasEmail(r) /\ CopyApart(r) /\ CopyFits(r)

Copies == \A v \in Visitors : CopyGood(visitor[v])

\* The inductive invariant.
SignInInv ==
    /\ SignInTypeOK
    /\ Counted
    /\ HeldAlone
    /\ RowsApart
    /\ Copies
    /\ SecondFactorWhole

-----------------------------------------------------------------------------
(* Types                                                                   *)

\* The row and the request with nothing in them.
LEMMA Blank == NoAccount \in Accounts /\ Away \in Visits /\ Away.email = NoEmail
               /\ Away.step = "away" /\ Away.seen = NoAccount /\ NoAccount.codes = {}
  BY SignInAssumption DEF SignInAssumption, NoAccount, Accounts, Away, Visits

\* Requests that leave or go on stay requests.
LEMMA StepTypes ==
    ASSUME SignInTypeOK, NEW v \in Visitors
    PROVE  /\ Leaves(v) => visitor' \in [Visitors -> Visits]
           /\ \A s \in {"consume", "admit", "disable", "mark"} :
                 Then(v, s) => visitor' \in [Visitors -> Visits]
<1>1. visitor \in [Visitors -> Visits]
  BY DEF SignInTypeOK, Visits
<1>2. Leaves(v) => visitor' \in [Visitors -> Visits]
  BY <1>1, Blank DEF Leaves
<1>3. ASSUME NEW s \in {"consume", "admit", "disable", "mark"}, Then(v, s)
      PROVE  visitor' \in [Visitors -> Visits]
  <2> DEFINE r == [visitor[v] EXCEPT !.step = s]
  <2>1. visitor[v] \in Visits
    BY <1>1
  <2>2. r \in Visits
    BY <1>3, <2>1 DEF Visits
  <2>3. visitor' = [visitor EXCEPT ![v] = r]
    BY <1>1, <1>3 DEF Then
  <2> HIDE DEF r
  <2> QED
    BY <1>1, <2>2, <2>3
<1> QED
  BY <1>2, <1>3

LEMMA RacedGrows ==
    ASSUME raced \in SUBSET Emails, NEW v, NEW e \in Emails, Holds(v, e)
    PROVE  raced' \in SUBSET Emails /\ raced \subseteq raced'
  BY DEF Holds

\* A request that comes in, and one that goes on with a code of a row.
Arrived(s, e)  == [Away EXCEPT !.step = s, !.email = e]
Coded(r, s, c) == [r EXCEPT !.step = "consume", !.code = c, !.seen = s]

LEMMA Arrives ==
    ASSUME NEW s \in {"enable", "disable", "off", "found"}, NEW e \in Emails
    PROVE  Arrived(s, e) \in Visits /\ Arrived(s, e).step = s /\ Arrived(s, e).email = e
           /\ Arrived(s, e).seen = NoAccount
  BY Blank DEF Visits, Arrived

LEMMA TakesCode ==
    ASSUME NEW r \in Visits, NEW s \in Accounts, NEW c \in s.codes
    PROVE  Coded(r, s, c) \in Visits /\ Coded(r, s, c).step = "consume"
           /\ Coded(r, s, c).code = c /\ Coded(r, s, c).seen = s
           /\ Coded(r, s, c).email = r.email /\ Coded(r, s, c).from = r.from
<1>1. c \in 0 .. MaxCodes
  BY SignInAssumption DEF Accounts, Codes, SignInAssumption
<1> QED
  BY <1>1 DEF Visits, Coded

\* Every step keeps the types; a request that is at work has an email.
LEMMA TypeStep ==
    ASSUME SignInTypeOK, SignInNext,
           \A v \in Visitors : HasEmail(visitor[v]) /\ CopyFits(visitor[v])
    PROVE  SignInTypeOK'
<1> USE SignInAssumption, Blank
<1>1. ASSUME NEW e \in Emails, Register(e)
      PROVE  SignInTypeOK'
  BY <1>1 DEF SignInTypeOK, Register, CreateUser, Accounts
<1>2. ASSUME NEW e \in Emails, SetupMFA(e)
      PROVE  SignInTypeOK'
  <2>1. made.secrets + 1 \in 0 .. MaxSecrets /\ made.codes \in 0 .. MaxCodes
    BY <1>2 DEF SignInTypeOK, SetupMFA, SignInAssumption
  <2>2. made' \in [secrets : 0 .. MaxSecrets, codes : 0 .. MaxCodes]
        /\ made'.secrets \in 0 .. MaxSecrets
    BY <1>2, <2>1 DEF SignInTypeOK, SetupMFA
  <2>3. account' \in [Emails -> Accounts]
    <3> DEFINE a == [account[e] EXCEPT !.secret = made'.secrets]
    <3>1. account \in [Emails -> Accounts] /\ account[e] \in Accounts
      BY DEF SignInTypeOK
    <3>2. a \in Accounts
      BY <2>2, <3>1 DEF Accounts
    <3>3. account' = [account EXCEPT ![e] = a]
      BY <1>2, <3>1 DEF SetupMFA
    <3> HIDE DEF a
    <3> QED
      BY <3>1, <3>2, <3>3
  <2> QED
    BY <1>2, <2>2, <2>3 DEF SignInTypeOK, SetupMFA
<1>3. ASSUME NEW k \in Emails \cup Addresses, CounterExpires(k)
      PROVE  SignInTypeOK'
  BY <1>3 DEF SignInTypeOK, CounterExpires
<1>4. ASSUME NEW v \in Visitors, NEW e \in Emails, NEW a \in Addresses, Login(v, e, a)
      PROVE  SignInTypeOK'
  BY <1>4 DEF SignInTypeOK, Login, Visits
<1>5. ASSUME NEW v \in Visitors, NEW e \in Emails, EnableMFA(v, e) \/ DisableMFA(v, e)
      PROVE  SignInTypeOK'
  <2>1. Holds(v, e)
    BY <1>5 DEF EnableMFA, DisableMFA
  <2>2. raced' \in SUBSET Emails
    BY <2>1, RacedGrows DEF SignInTypeOK
  <2>3. visitor' \in [Visitors -> Visits]
    <3>1. \E s \in {"enable", "disable", "off"} :
              visitor' = [visitor EXCEPT ![v] = Arrived(s, e)]
      BY <1>5 DEF EnableMFA, DisableMFA, Arrived
    <3>2. visitor \in [Visitors -> Visits]
      BY DEF SignInTypeOK, Visits
    <3> QED
      BY <3>1, <3>2, Arrives
  <2>4. UNCHANGED <<account, failures, initialized, made, tries, usedCodes>>
    BY <1>5 DEF EnableMFA, DisableMFA
  <2> QED
    BY <2>2, <2>3, <2>4 DEF SignInTypeOK, Visits
<1>6. ASSUME NEW v \in Visitors, NEW e \in Emails, IsBootstrapInitialized(v, e)
      PROVE  SignInTypeOK'
  BY <1>6 DEF SignInTypeOK, IsBootstrapInitialized, Visits
<1>7. ASSUME NEW v \in Visitors, GetUserByEmail(v)
      PROVE  SignInTypeOK'
  <2>1. visitor[v].email \in Emails /\ account[visitor[v].email] \in Accounts
    BY <1>7 DEF SignInTypeOK, GetUserByEmail, HasEmail
  <2> QED
    BY <1>7, <2>1 DEF SignInTypeOK, GetUserByEmail, Visits, Leaves, recordFailedLogin
<1>8. ASSUME NEW v \in Visitors, CheckCode(v)
      PROVE  SignInTypeOK'
  <2>1. visitor[v].email \in Emails /\ account[visitor[v].email] \in Accounts
    BY <1>8 DEF SignInTypeOK, CheckCode, HasEmail
  <2>2. account[visitor[v].email].codes \subseteq 0 .. MaxCodes
    BY <2>1 DEF Accounts, Codes, SignInAssumption
  <2>3. raced' \in SUBSET Emails
    BY <1>8, <2>1, RacedGrows DEF SignInTypeOK, CheckCode
  <2>4. visitor' \in [Visitors -> Visits]
    <3>0. visitor \in [Visitors -> Visits]
      BY DEF SignInTypeOK, Visits
    <3>1. CASE \E c \in account[visitor[v].email].codes :
                  visitor' = [visitor EXCEPT ![v].step = "consume", ![v].code = c,
                                             ![v].seen = account[visitor[v].email]]
      <4>1. PICK c \in account[visitor[v].email].codes :
                visitor' = [visitor EXCEPT ![v] = Coded(visitor[v], account[visitor[v].email], c)]
        BY <3>0, <3>1 DEF Coded
      <4>2. visitor[v] \in Visits
        BY <3>0
      <4> QED
        BY <3>0, <4>1, <4>2, <2>1, TakesCode
    <3>2. CASE Leaves(v) \/ Then(v, "admit")
      BY <3>0, <3>2 DEF Leaves, Then, Visits
    <3> QED
      BY <1>8, <3>1, <3>2 DEF CheckCode
  <2>5. recordFailedLogin(visitor[v].email, visitor[v].from) \/ UNCHANGED <<failures, tries>>
    BY <1>8 DEF CheckCode
  <2>6. failures' \in [Emails \cup Addresses -> Nat] /\ tries' \in [Emails -> Nat]
    BY <2>5 DEF SignInTypeOK, recordFailedLogin
  <2>7. UNCHANGED <<account, initialized, made, usedCodes>>
    BY <1>8 DEF CheckCode
  <2> QED
    BY <2>3, <2>4, <2>6, <2>7 DEF SignInTypeOK, Visits
<1>9. ASSUME NEW v \in Visitors, ConsumeBackupCode(v)
      PROVE  SignInTypeOK'
  <2>1. visitor[v].email \in Emails /\ visitor[v].seen \in Accounts
        /\ visitor[v].code \in visitor[v].seen.codes
    BY <1>9 DEF SignInTypeOK, ConsumeBackupCode, HasEmail, CopyFits
  <2>2. visitor[v].seen.codes \in SUBSET Codes
    BY <2>1 DEF Accounts
  <2>3. visitor' \in [Visitors -> Visits]
    BY <1>9, StepTypes DEF ConsumeBackupCode
  <2>4. account' \in [Emails -> Accounts]
    <3> DEFINE e == visitor[v].email
               a == [account[e] EXCEPT !.codes = visitor[v].seen.codes \ {visitor[v].code}]
    <3>1. account \in [Emails -> Accounts] /\ account[e] \in Accounts
      BY <2>1 DEF SignInTypeOK
    <3>2. a \in Accounts
      BY <2>2, <3>1 DEF Accounts
    <3>3. account' = [account EXCEPT ![e] = a]
      BY <1>9, <3>1 DEF ConsumeBackupCode
    <3> HIDE DEF a, e
    <3> QED
      BY <2>1, <3>1, <3>2, <3>3 DEF e
  <2>5. usedCodes' \in SUBSET Codes
    BY <1>9, <2>1, <2>2 DEF SignInTypeOK, ConsumeBackupCode
  <2> QED
    BY <1>9, <2>3, <2>4, <2>5 DEF SignInTypeOK, ConsumeBackupCode, Visits
<1>10. ASSUME NEW v \in Visitors, Admit(v)
       PROVE  SignInTypeOK'
  BY <1>10 DEF SignInTypeOK, Admit, Visits, Leaves, clearRateLimit
<1>11. ASSUME NEW v \in Visitors, EnableTOTP(v)
       PROVE  SignInTypeOK'
  <2>1. made.codes + 1 \in 1 .. MaxCodes /\ made.secrets \in 0 .. MaxSecrets
    BY <1>11 DEF SignInTypeOK, EnableTOTP, SignInAssumption
  <2>2. made.codes + 1 \in 0 .. MaxCodes
    BY <2>1 DEF SignInAssumption
  <2>3. made' \in [secrets : 0 .. MaxSecrets, codes : 0 .. MaxCodes] /\ made'.codes \in Codes
    BY <1>11, <2>1, <2>2 DEF SignInTypeOK, EnableTOTP, Codes
  <2>4. visitor' \in [Visitors -> Visits]
    BY <1>11 DEF SignInTypeOK, EnableTOTP, Visits, Leaves
  <2>5. account' \in [Emails -> Accounts]
    <3> DEFINE row == [account[visitor[v].email] EXCEPT !.enabled = TRUE, !.codes = {made'.codes}]
    <3>1. visitor[v].email \in Emails /\ account[visitor[v].email] \in Accounts
      BY <1>11 DEF SignInTypeOK, EnableTOTP, HasEmail
    <3>2. row \in Accounts
      BY <2>3, <3>1 DEF Accounts
    <3>3. account' = [account EXCEPT ![visitor[v].email] = row]
      BY <1>11, <3>1 DEF EnableTOTP, SignInTypeOK
    <3> QED
      BY <3>2, <3>3 DEF SignInTypeOK
  <2> QED
    BY <1>11, <2>3, <2>4, <2>5 DEF SignInTypeOK, EnableTOTP, Visits
<1>12. ASSUME NEW v \in Visitors, DisableWithCode(v)
       PROVE  SignInTypeOK'
  <2>1. visitor[v].email \in Emails /\ account[visitor[v].email] \in Accounts
    BY <1>12 DEF SignInTypeOK, DisableWithCode, HasEmail
  <2>2. account[visitor[v].email].codes \subseteq 0 .. MaxCodes
    BY <2>1 DEF Accounts, Codes, SignInAssumption
  <2>3. raced' \in SUBSET Emails
    BY <1>12, <2>1, RacedGrows DEF SignInTypeOK, DisableWithCode
  <2>4. visitor' \in [Visitors -> Visits]
    <3>1. visitor \in [Visitors -> Visits]
      BY DEF SignInTypeOK, Visits
    <3>2. PICK c \in account[visitor[v].email].codes :
              visitor' = [visitor EXCEPT ![v] = Coded(visitor[v], account[visitor[v].email], c)]
      BY <1>12, <3>1 DEF DisableWithCode, Coded
    <3>3. visitor[v] \in Visits
      BY <3>1
    <3> QED
      BY <3>1, <3>2, <3>3, <2>1, TakesCode
  <2> QED
    BY <1>12, <2>3, <2>4 DEF SignInTypeOK, DisableWithCode, Visits
<1>13. ASSUME NEW v \in Visitors, DisableTOTP(v)
       PROVE  SignInTypeOK'
  BY <1>13 DEF SignInTypeOK, DisableTOTP, Visits, Leaves, NoAccount, Accounts
<1>14. ASSUME NEW v \in Visitors, Bootstrap(v)
       PROVE  SignInTypeOK'
  <2>1. account' \in [Emails -> Accounts]
    <3>1. account \in [Emails -> Accounts]
      BY DEF SignInTypeOK
    <3>2. \A a \in Accounts : [a EXCEPT !.registered = TRUE] \in Accounts
      BY DEF Accounts
    <3> DEFINE e == visitor[v].email
               a == [account[e] EXCEPT !.registered = TRUE]
    <3>3. account' = [account EXCEPT ![e] = a]
      BY <1>14 DEF Bootstrap, CreateUser
    <3>4. e \in Emails => a \in Accounts
      BY <3>1, <3>2
    <3> HIDE DEF e, a
    <3> QED
      BY <3>1, <3>3, <3>4
  <2>2. visitor' \in [Visitors -> Visits]
    BY <1>14, StepTypes DEF Bootstrap
  <2> QED
    BY <1>14, <2>1, <2>2 DEF SignInTypeOK, Bootstrap, Visits
<1>15. ASSUME NEW v \in Visitors, MarkBootstrapComplete(v) \/ GivesUp(v)
       PROVE  SignInTypeOK'
  <2>1. visitor' \in [Visitors -> Visits]
    BY <1>15, StepTypes DEF MarkBootstrapComplete, GivesUp
  <2>2. initialized' \in BOOLEAN
    BY <1>15 DEF SignInTypeOK, MarkBootstrapComplete, GivesUp
  <2> QED
    BY <1>15, <2>1, <2>2 DEF SignInTypeOK, MarkBootstrapComplete, GivesUp, Visits
<1> QED
  BY <1>1, <1>2, <1>3, <1>4, <1>5, <1>6, <1>7, <1>8, <1>9, <1>10, <1>11, <1>12, <1>13,
     <1>14, <1>15 DEF SignInNext

-----------------------------------------------------------------------------
(* The bound on failed logins                                              *)

LEMMA TryingFinite ==
    ASSUME NEW e
    PROVE  /\ IsFiniteSet(Trying(e)) /\ IsFiniteSet(Trying(e)')
           /\ Cardinality(Trying(e)) \in Nat /\ Cardinality(Trying(e)') \in Nat
           /\ Cardinality(Trying(e)') <= Cardinality(Visitors) /\ Cardinality(Visitors) \in Nat
<1>1. IsFiniteSet(Visitors)
  BY SignInAssumption DEF SignInAssumption
<1>2. Trying(e) \subseteq Visitors /\ Trying(e)' \subseteq Visitors
  BY DEF Trying
<1> QED
  BY <1>1, <1>2, FS_Subset, FS_CardinalityType

\* One email's part of Counted, before and after a step.
CountedFor(e) == /\ tries[e] <= failures[e]
                 /\ tries[e] + Cardinality(Trying(e)) < LoginLimit + Cardinality(Visitors)

\* Nothing fails and nobody new is to be checked.
LEMMA CountedQuietly ==
    ASSUME SignInTypeOK, NEW e \in Emails, CountedFor(e),
           tries'[e] = tries[e], failures'[e] = failures[e],
           Trying(e)' \subseteq Trying(e)
    PROVE  CountedFor(e)'
<1>1. PICK T : T = Trying(e)'
  OBVIOUS
<1>2. T \subseteq Trying(e) /\ IsFiniteSet(Trying(e)) /\ Cardinality(Trying(e)) \in Nat
      /\ Cardinality(Visitors) \in Nat
  BY <1>1, TryingFinite
<1>3. Cardinality(T) \in Nat /\ Cardinality(T) <= Cardinality(Trying(e))
  BY <1>2, FS_Subset, FS_CardinalityType
<1>4. tries[e] \in Nat /\ failures[e] \in Nat
  BY DEF SignInTypeOK
<1>5. tries'[e] + Cardinality(T) < LoginLimit + Cardinality(Visitors)
  BY <1>2, <1>3, <1>4 DEF CountedFor, LoginLimit
<1> QED
  BY <1>1, <1>5 DEF CountedFor

\* A request is let in: e has failed fewer than LoginLimit times.
LEMMA CountedLogin ==
    ASSUME SignInTypeOK, NEW e \in Emails, CountedFor(e),
           UNCHANGED <<tries, failures>>, failures[e] < LoginLimit
    PROVE  CountedFor(e)'
<1>1. PICK T : T = Trying(e)'
  OBVIOUS
<1>2. Cardinality(T) \in Nat /\ Cardinality(T) <= Cardinality(Visitors) /\ Cardinality(Visitors) \in Nat
  BY <1>1, TryingFinite
<1>3. tries[e] \in Nat /\ failures[e] \in Nat
  BY DEF SignInTypeOK
<1>4. tries[e] + Cardinality(T) < LoginLimit + Cardinality(Visitors)
  BY <1>2, <1>3 DEF CountedFor, LoginLimit
<1> QED
  BY <1>1, <1>4 DEF CountedFor

\* The count of e begins anew.
LEMMA CountedAnew ==
    ASSUME SignInTypeOK, NEW e \in Emails, tries'[e] = 0, failures'[e] \in Nat
    PROVE  CountedFor(e)'
<1>1. PICK T : T = Trying(e)'
  OBVIOUS
<1>2. Cardinality(T) \in Nat /\ Cardinality(T) <= Cardinality(Visitors) /\ Cardinality(Visitors) \in Nat
  BY <1>1, TryingFinite
<1>3. tries'[e] + Cardinality(T) < LoginLimit + Cardinality(Visitors)
  BY <1>2 DEF LoginLimit
<1>4. tries'[e] <= failures'[e]
  OBVIOUS
<1> QED
  BY <1>1, <1>3, <1>4 DEF CountedFor

\* A request fails: one more failure, one request less to be checked.
LEMMA CountedFailure ==
    ASSUME SignInTypeOK, NEW v \in Visitors, NEW e \in Emails, CountedFor(e),
           v \in Trying(e), Leaves(v), NEW a, recordFailedLogin(e, a)
    PROVE  CountedFor(e)'
<1>1. PICK T : T = Trying(e)'
  OBVIOUS
<1>2. T \subseteq Trying(e) \ {v}
  BY <1>1, Blank DEF Trying, Leaves, SignInTypeOK
<1>3. IsFiniteSet(Trying(e)) /\ Cardinality(Trying(e)) \in Nat /\ Cardinality(Visitors) \in Nat
  BY TryingFinite
<1>4. IsFiniteSet(Trying(e) \ {v}) /\ Cardinality(Trying(e) \ {v}) = Cardinality(Trying(e)) - 1
  BY <1>3, FS_RemoveElement
<1>5. Cardinality(T) \in Nat /\ Cardinality(T) <= Cardinality(Trying(e)) - 1
  BY <1>2, <1>4, FS_Subset, FS_CardinalityType
<1>6. tries[e] \in Nat /\ failures[e] \in Nat
  BY DEF SignInTypeOK
<1>7. tries'[e] = tries[e] + 1 /\ failures'[e] \in Nat /\ failures'[e] >= failures[e] + 1
  BY <1>6 DEF SignInTypeOK, recordFailedLogin
<1>8. tries'[e] + Cardinality(T) < LoginLimit + Cardinality(Visitors) /\ tries'[e] <= failures'[e]
  BY <1>3, <1>5, <1>6, <1>7 DEF CountedFor, LoginLimit
<1> QED
  BY <1>1, <1>8 DEF CountedFor

LEMMA CountedStep ==
    ASSUME SignInTypeOK, Counted, SignInNext, \A v \in Visitors : HasEmail(visitor[v])
    PROVE  Counted'
<1> SUFFICES ASSUME NEW e \in Emails
             PROVE  CountedFor(e)'
  BY DEF Counted, CountedFor
<1>1. CountedFor(e)
  BY DEF Counted, CountedFor
<1> USE <1>1
<1>2. ASSUME UNCHANGED <<failures, tries>>, Trying(e)' \subseteq Trying(e)
      PROVE  CountedFor(e)'
  BY <1>2, CountedQuietly
<1>3. ASSUME NEW v \in Visitors, NEW f \in Emails, NEW a \in Addresses, Login(v, f, a)
      PROVE  CountedFor(e)'
  <2>1. UNCHANGED <<failures, tries>>
    BY <1>3 DEF Login
  <2>2. CASE e = f
    <3>1. failures[e] < LoginLimit
      BY <1>3, <2>2 DEF Login, isRateLimited, SignInTypeOK, LoginLimit
    <3> QED
      BY <2>1, <3>1, CountedLogin
  <2>3. CASE e # f
    <3>1. Trying(e)' \subseteq Trying(e)
      BY <1>3, <2>3 DEF Trying, Login, SignInTypeOK, Away
    <3> QED
      BY <1>2, <2>1, <3>1
  <2> QED
    BY <2>2, <2>3
<1>4. ASSUME NEW v \in Visitors, visitor[v].step \in {"password", "code"},
             recordFailedLogin(visitor[v].email, visitor[v].from), Leaves(v)
      PROVE  CountedFor(e)'
  <2>1. visitor[v].email \in Emails
    BY <1>4 DEF HasEmail
  <2>2. CASE e = visitor[v].email
    <3>1. v \in Trying(e)
      BY <1>4, <2>2 DEF Trying
    <3> QED
      BY <1>4, <2>2, <3>1, CountedFailure
  <2>3. CASE e # visitor[v].email
    <3>1. Trying(e)' \subseteq Trying(e)
      BY <1>4, Blank, SignInAssumption DEF Trying, Leaves, SignInTypeOK, SignInAssumption
    <3>2. tries'[e] = tries[e]
      BY <1>4, <2>3 DEF recordFailedLogin, SignInTypeOK
    <3>3. e # visitor[v].from
      BY SignInAssumption DEF SignInTypeOK, SignInAssumption
    <3>4. failures'[e] = failures[e]
      BY <1>4, <2>3, <3>3 DEF recordFailedLogin, SignInTypeOK
    <3> QED
      BY <3>1, <3>2, <3>4, CountedQuietly
  <2> QED
    BY <2>2, <2>3
<1>5. ASSUME NEW v \in Visitors, GetUserByEmail(v)
      PROVE  CountedFor(e)'
  <2>1. CASE recordFailedLogin(visitor[v].email, visitor[v].from) /\ Leaves(v)
    BY <1>4, <1>5, <2>1 DEF GetUserByEmail
  <2>2. CASE ~(recordFailedLogin(visitor[v].email, visitor[v].from) /\ Leaves(v))
    <3>1. UNCHANGED <<failures, tries>>
      BY <1>5, <2>2 DEF GetUserByEmail
    <3>2. Trying(e)' \subseteq Trying(e)
      BY <1>5, <2>2 DEF GetUserByEmail, Trying, SignInTypeOK
    <3> QED
      BY <1>2, <3>1, <3>2
  <2> QED
    BY <2>1, <2>2
<1>6. ASSUME NEW v \in Visitors, CheckCode(v)
      PROVE  CountedFor(e)'
  <2>1. CASE recordFailedLogin(visitor[v].email, visitor[v].from) /\ Leaves(v)
    BY <1>4, <1>6, <2>1 DEF CheckCode
  <2>2. CASE ~(recordFailedLogin(visitor[v].email, visitor[v].from) /\ Leaves(v))
    <3>1. UNCHANGED <<failures, tries>>
      BY <1>6, <2>2 DEF CheckCode
    <3>2. visitor'[v].step \notin {"password", "code"}
          /\ \A w \in Visitors : w # v => visitor'[w] = visitor[w]
      <4>1. CASE Leaves(v) \/ Then(v, "admit")
        BY <4>1, Blank DEF SignInTypeOK, Leaves, Then
      <4>2. CASE \E c \in account[visitor[v].email].codes :
                    visitor' = [visitor EXCEPT ![v].step = "consume", ![v].code = c,
                                               ![v].seen = account[visitor[v].email]]
        BY <4>2 DEF SignInTypeOK
      <4> QED
        BY <1>6, <2>2, <4>1, <4>2 DEF CheckCode
    <3>3. Trying(e)' \subseteq Trying(e)
      BY <3>2 DEF Trying
    <3> QED
      BY <1>2, <3>1, <3>3
  <2> QED
    BY <2>1, <2>2
<1>7. ASSUME NEW v \in Visitors, Admit(v)
      PROVE  CountedFor(e)'
  <2>1. CASE e = visitor[v].email
    <3>1. tries'[e] = 0 /\ failures'[e] = 0
      BY <1>7, <2>1 DEF Admit, clearRateLimit, SignInTypeOK
    <3> QED
      BY <3>1, CountedAnew
  <2>2. CASE e # visitor[v].email
    <3>1. e # visitor[v].from
      BY SignInAssumption DEF SignInTypeOK, SignInAssumption
    <3>2. tries'[e] = tries[e] /\ failures'[e] = failures[e]
      BY <1>7, <2>2, <3>1 DEF Admit, clearRateLimit, SignInTypeOK
    <3>3. Trying(e)' \subseteq Trying(e)
      BY <1>7, Blank, SignInAssumption DEF Admit, Trying, Leaves, SignInTypeOK, SignInAssumption
    <3> QED
      BY <3>2, <3>3, CountedQuietly
  <2> QED
    BY <2>1, <2>2
<1>8. ASSUME NEW k \in Emails \cup Addresses, CounterExpires(k)
      PROVE  CountedFor(e)'
  <2>1. CASE e = k
    <3>1. tries'[e] = 0 /\ failures'[e] = 0
      BY <1>8, <2>1 DEF CounterExpires, SignInTypeOK
    <3> QED
      BY <3>1, CountedAnew
  <2>2. CASE e # k
    <3>1. tries'[e] = tries[e] /\ failures'[e] = failures[e] /\ Trying(e)' \subseteq Trying(e)
      BY <1>8, <2>2 DEF CounterExpires, SignInTypeOK, Trying
    <3> QED
      BY <3>1, CountedQuietly
  <2> QED
    BY <2>1, <2>2
<1>9. ASSUME NEW v \in Visitors, NEW f \in Emails,
             EnableMFA(v, f) \/ DisableMFA(v, f) \/ IsBootstrapInitialized(v, f)
      PROVE  CountedFor(e)'
  <2>1. UNCHANGED <<failures, tries>>
    BY <1>9 DEF EnableMFA, DisableMFA, IsBootstrapInitialized
  <2>2. visitor'[v].step \notin {"password", "code"}
        /\ \A w \in Visitors : w # v => visitor'[w] = visitor[w]
    <3>1. \E s \in {"enable", "disable", "off", "found"} :
              visitor' = [visitor EXCEPT ![v] = Arrived(s, f)]
      BY <1>9 DEF EnableMFA, DisableMFA, IsBootstrapInitialized, Arrived
    <3> QED
      BY <3>1, Arrives DEF SignInTypeOK
  <2>3. Trying(e)' \subseteq Trying(e)
    BY <2>2 DEF Trying
  <2> QED
    BY <1>2, <2>1, <2>3
<1>10. ASSUME NEW v \in Visitors,
              \/ ConsumeBackupCode(v) \/ EnableTOTP(v) \/ DisableWithCode(v) \/ DisableTOTP(v)
              \/ Bootstrap(v) \/ MarkBootstrapComplete(v) \/ GivesUp(v)
       PROVE  CountedFor(e)'
  <2>1. UNCHANGED <<failures, tries>>
    BY <1>10 DEF ConsumeBackupCode, EnableTOTP, DisableWithCode, DisableTOTP, Bootstrap,
                 MarkBootstrapComplete, GivesUp
  <2>2. visitor'[v].step \notin {"password", "code"}
        /\ \A w \in Visitors : w # v => visitor'[w] = visitor[w]
    <3>1. CASE ConsumeBackupCode(v) \/ DisableWithCode(v) \/ Bootstrap(v)
      <4>1. CASE ConsumeBackupCode(v)
        BY <4>1 DEF ConsumeBackupCode, SignInTypeOK, Then
      <4>2. CASE DisableWithCode(v)
        BY <4>2 DEF DisableWithCode, SignInTypeOK
      <4>3. CASE Bootstrap(v)
        BY <4>3 DEF Bootstrap, SignInTypeOK, Then
      <4> QED
        BY <3>1, <4>1, <4>2, <4>3
    <3>2. CASE EnableTOTP(v) \/ DisableTOTP(v) \/ MarkBootstrapComplete(v) \/ GivesUp(v)
      BY <3>2, Blank DEF EnableTOTP, DisableTOTP, MarkBootstrapComplete, GivesUp, SignInTypeOK, Leaves
    <3> QED
      BY <1>10, <3>1, <3>2
  <2>3. Trying(e)' \subseteq Trying(e)
    BY <2>2 DEF Trying
  <2> QED
    BY <1>2, <2>1, <2>3
<1>11. ASSUME NEW f \in Emails, Register(f) \/ SetupMFA(f)
       PROVE  CountedFor(e)'
  <2>1. UNCHANGED <<failures, tries, visitor>>
    BY <1>11 DEF Register, SetupMFA
  <2>2. Trying(e)' \subseteq Trying(e)
    BY <2>1 DEF Trying
  <2> QED
    BY <1>2, <2>1, <2>2
<1> QED
  BY <1>3, <1>5, <1>6, <1>7, <1>8, <1>9, <1>10, <1>11 DEF SignInNext

-----------------------------------------------------------------------------
(* The second factor                                                       *)

Whole == HeldAlone /\ RowsApart /\ Copies /\ SecondFactorWhole

Writes(r) == r.step \in {"consume", "enable", "off", "disable"}

\* One request moves on, to r, and no row loses a secret or changes its codes.
LEMMA WholeMoves ==
    ASSUME SignInTypeOK, SignInTypeOK', Whole,
           NEW v \in Visitors, NEW r \in Visits, visitor' = [visitor EXCEPT ![v] = r],
           UNCHANGED usedCodes, made'.codes = made.codes, raced \subseteq raced',
           \A f \in Emails : /\ account'[f].codes = account[f].codes
                             /\ account'[f].enabled = account[f].enabled
                             /\ account[f].secret # 0 => account'[f].secret # 0,
           HasEmail(r), CopyApart(r),
           r.step = "consume" => r.code \in r.seen.codes,
           r.step = "consume" /\ r.email \notin raced' => r.seen.codes = account[r.email].codes,
           r.step = "enable" /\ r.email \notin raced' => account[r.email].secret # 0,
           Writes(r) /\ (\E w \in Visitors \ {v} : HoldsRow(w, r.email)) => r.email \in raced'
    PROVE  Whole'
<1>1. \A w \in Visitors : visitor'[w] = IF w = v THEN r ELSE visitor[w]
  BY DEF SignInTypeOK
<1>2. IssuedCodes' = IssuedCodes
  BY DEF IssuedCodes
<1>3. HeldAlone'
  <2> SUFFICES ASSUME NEW x \in Visitors, NEW y \in Visitors, NEW e \in Emails, x # y,
                      HoldsRow(x, e)', HoldsRow(y, e)'
               PROVE  e \in raced'
    BY DEF HeldAlone
  <2>1. CASE x # v /\ y # v
    BY <1>1, <2>1 DEF Whole, HeldAlone, HoldsRow
  <2>2. CASE x = v
    <3>1. Writes(r) /\ r.email = e /\ HoldsRow(y, e)
      BY <1>1, <2>2 DEF HoldsRow, Writes
    <3> QED
      BY <2>2, <3>1
  <2>3. CASE y = v
    <3>1. Writes(r) /\ r.email = e /\ HoldsRow(x, e)
      BY <1>1, <2>3 DEF HoldsRow, Writes
    <3> QED
      BY <2>3, <3>1
  <2> QED
    BY <2>1, <2>2, <2>3
<1>4. RowsApart'
  BY <1>2 DEF Whole, RowsApart
<1>5. SecondFactorWhole'
  BY DEF Whole, SecondFactorWhole
<1>6. Copies'
  <2> SUFFICES ASSUME NEW w \in Visitors
               PROVE  CopyGood(visitor[w])'
    BY DEF Copies
  <2>1. CASE w = v
    <3>1. visitor'[w] = r
      BY <1>1, <2>1
    <3>2. HasEmail(r)' /\ CopyFits(r)'
      BY DEF HasEmail, CopyFits
    <3>3. CopyApart(r)'
      BY <1>1, <1>2 DEF CopyApart
    <3> QED
      BY <3>1, <3>2, <3>3 DEF CopyGood, HasEmail, CopyFits, CopyApart
  <2>2. CASE w # v
    <3>1. PICK q : q = visitor[w]
      OBVIOUS
    <3>2. q = visitor'[w] /\ CopyGood(q)
      BY <1>1, <2>2, <3>1 DEF Whole, Copies
    <3>3. HasEmail(q)' /\ CopyFits(q)'
      BY <3>2 DEF CopyGood, HasEmail, CopyFits
    <3>4. CopyApart(q)'
      <4>1. r.email # q.email => q.seen.codes \cap r.seen.codes = {}
        BY <3>1 DEF CopyApart
      <4> QED
        BY <1>1, <1>2, <3>2, <4>1 DEF CopyGood, CopyApart
    <3> QED
      BY <3>2, <3>3, <3>4 DEF CopyGood, HasEmail, CopyFits, CopyApart
  <2> QED
    BY <2>1, <2>2
<1> QED
  BY <1>3, <1>4, <1>5, <1>6 DEF Whole

\* What the holder of e's row goes on with: nothing, or the copy it had.
LetsGo(v, e, r) ==
    /\ HasEmail(r) /\ r.email \in {e, NoEmail}
    /\ r.seen \in {visitor[v].seen, NoAccount}
    /\ r.email = NoEmail => r.seen = NoAccount
    /\ r.step \in {"away", "admit", "disable"}

\* What it writes: codes that were given out, to nobody else, and not used.
CleanRow(e, row) ==
    /\ row.codes \subseteq IssuedCodes' /\ usedCodes' \subseteq IssuedCodes'
    /\ \A f \in Emails : f # e => row.codes \cap account[f].codes = {}
    /\ \A w \in Visitors : visitor[w].email # e => row.codes \cap visitor[w].seen.codes = {}
    /\ \A f \in Emails : f # e /\ f \notin raced => account[f].codes \cap usedCodes' = {}
    /\ e \notin raced => /\ row.codes \cap usedCodes' = {}
                         /\ row.enabled => row.secret # 0

\* The request that holds e's row writes it, and holds it no longer, or only
\* to turn the second factor off.
LEMMA WholeWrites ==
    ASSUME SignInTypeOK, SignInTypeOK', Whole,
           NEW v \in Visitors, NEW e \in Emails, HoldsRow(v, e),
           NEW r \in Visits, visitor' = [visitor EXCEPT ![v] = r],
           NEW row \in Accounts, account' = [account EXCEPT ![e] = row],
           UNCHANGED raced, IssuedCodes \subseteq IssuedCodes', LetsGo(v, e, r), CleanRow(e, row)
    PROVE  Whole'
<1> USE DEF LetsGo, CleanRow
<1>1. \A w \in Visitors : visitor'[w] = IF w = v THEN r ELSE visitor[w]
  BY DEF SignInTypeOK
<1>2. \A f \in Emails : account'[f] = IF f = e THEN row ELSE account[f]
  BY DEF SignInTypeOK
<1>3. visitor[v].email = e /\ CopyGood(visitor[v])
  BY DEF HoldsRow, Whole, Copies
<1>4. r.seen.codes \subseteq visitor[v].seen.codes
  BY Blank
<1>5. HeldAlone'
  <2> SUFFICES ASSUME NEW x \in Visitors, NEW y \in Visitors, NEW f \in Emails, x # y,
                      HoldsRow(x, f)', HoldsRow(y, f)'
               PROVE  f \in raced
    BY DEF HeldAlone
  <2>1. ASSUME NEW z \in Visitors, HoldsRow(z, f)'
        PROVE  HoldsRow(z, f)
    BY <1>1, <1>3, <2>1, SignInAssumption DEF HoldsRow, SignInAssumption
  <2> QED
    BY <2>1 DEF Whole, HeldAlone
<1>6. RowsApart'
  <2>1. \A f \in Emails : account'[f].codes \subseteq IssuedCodes'
    BY <1>2 DEF Whole, RowsApart
  <2>2. \A f, g \in Emails : f # g => account'[f].codes \cap account'[g].codes = {}
    BY <1>2 DEF Whole, RowsApart
  <2> QED
    BY <2>1, <2>2 DEF RowsApart
<1>7. SecondFactorWhole'
  BY <1>2 DEF Whole, SecondFactorWhole
<1>8. Copies'
  <2> SUFFICES ASSUME NEW w \in Visitors
               PROVE  CopyGood(visitor[w])'
    BY DEF Copies
  <2>1. CASE w = v
    <3>1. visitor'[w] = r
      BY <1>1, <2>1
    <3>2. HasEmail(r)' /\ CopyFits(r)'
      BY DEF HasEmail, CopyFits
    <3>3. CopyApart(r)'
      <4>1. r.seen.codes \subseteq IssuedCodes'
        BY <1>3, <1>4 DEF CopyGood, CopyApart
      <4>2. ASSUME NEW f \in Emails, f # r.email
            PROVE  r.seen.codes \cap account'[f].codes = {}
        <5>1. CASE f = e
          BY <4>2, <5>1, Blank
        <5>2. CASE f # e
          BY <1>2, <1>3, <1>4, <5>2 DEF CopyGood, CopyApart
        <5> QED
          BY <5>1, <5>2
      <4>3. ASSUME NEW x \in Visitors, visitor'[x].email # r.email
            PROVE  r.seen.codes \cap visitor'[x].seen.codes = {}
        <5>1. CASE r.email = NoEmail
          BY <5>1, Blank
        <5>2. CASE r.email = e
          BY <1>1, <1>3, <1>4, <4>3, <5>2 DEF CopyGood, CopyApart
        <5> QED
          BY <5>1, <5>2
      <4> QED
        BY <4>1, <4>2, <4>3 DEF CopyApart
    <3> QED
      BY <3>1, <3>2, <3>3 DEF CopyGood, HasEmail, CopyFits, CopyApart
  <2>2. CASE w # v
    <3>1. PICK q : q = visitor[w]
      OBVIOUS
    <3>2. q = visitor'[w] /\ CopyGood(q)
      BY <1>1, <2>2, <3>1 DEF Whole, Copies
    <3>3. HasEmail(q)'
      BY <3>2 DEF CopyGood, HasEmail
    <3>4. CopyFits(q)'
      <4>1. CASE q.email = e
        <5>1. e \in raced \/ q.step \notin {"consume", "enable"}
          BY <2>2, <3>1, <4>1 DEF Whole, HeldAlone, HoldsRow
        <5> QED
          BY <3>2, <4>1, <5>1 DEF CopyGood, CopyFits
      <4>2. CASE q.email # e
        <5>1. q.step \in {"consume", "enable"} => account'[q.email] = account[q.email]
          BY <1>2, <3>2, <4>2 DEF CopyGood, HasEmail
        <5> QED
          BY <3>2, <5>1 DEF CopyGood, CopyFits
      <4> QED
        BY <4>1, <4>2
    <3>5. CopyApart(q)'
      <4>1. q.seen.codes \subseteq IssuedCodes'
        BY <3>2 DEF CopyGood, CopyApart
      <4>2. ASSUME NEW f \in Emails, f # q.email
            PROVE  q.seen.codes \cap account'[f].codes = {}
        <5>1. CASE f = e
          BY <1>2, <3>1, <4>2, <5>1
        <5>2. CASE f # e
          BY <1>2, <3>2, <4>2, <5>2 DEF CopyGood, CopyApart
        <5> QED
          BY <5>1, <5>2
      <4>3. ASSUME NEW x \in Visitors, visitor'[x].email # q.email
            PROVE  q.seen.codes \cap visitor'[x].seen.codes = {}
        <5>1. CASE x # v
          BY <1>1, <3>2, <4>3, <5>1 DEF CopyGood, CopyApart
        <5>2. CASE x = v /\ r.email = NoEmail
          BY <1>1, <5>2, Blank
        <5>3. CASE x = v /\ r.email = e
          BY <1>1, <1>3, <1>4, <3>2, <4>3, <5>3 DEF CopyGood, CopyApart
        <5> QED
          BY <5>1, <5>2, <5>3
      <4> QED
        BY <4>1, <4>2, <4>3 DEF CopyApart
    <3> QED
      BY <3>2, <3>3, <3>4, <3>5 DEF CopyGood, HasEmail, CopyFits, CopyApart
  <2> QED
    BY <2>1, <2>2
<1> QED
  BY <1>5, <1>6, <1>7, <1>8 DEF Whole

LEMMA EmptyCopy ==
    ASSUME NEW r, r.seen = NoAccount
    PROVE  CopyApart(r)
  BY Blank DEF CopyApart

\* A copy of the row of the request's own email is apart from the others.
LEMMA FreshCopy ==
    ASSUME Whole, NEW r, r.email \in Emails, r.seen = account[r.email]
    PROVE  CopyApart(r)
<1>1. \A f \in Emails : f # r.email => r.seen.codes \cap account[f].codes = {}
  BY DEF Whole, RowsApart
<1>2. ASSUME NEW w \in Visitors, visitor[w].email # r.email
      PROVE  r.seen.codes \cap visitor[w].seen.codes = {}
  BY <1>2 DEF Whole, Copies, CopyGood, CopyApart
<1>3. r.seen.codes \subseteq IssuedCodes
  BY DEF Whole, RowsApart
<1> QED
  BY <1>1, <1>2, <1>3 DEF CopyApart

\* A step that only a request takes, and that writes nothing it has read.
LEMMA WholeLeaves ==
    ASSUME SignInTypeOK, SignInTypeOK', Whole, NEW v \in Visitors, Leaves(v),
           UNCHANGED <<account, made, usedCodes, raced>>
    PROVE  Whole'
<1>1. Away \in Visits /\ HasEmail(Away) /\ CopyApart(Away) /\ ~Writes(Away)
      /\ Away.step \notin {"consume", "enable"}
  BY Blank, EmptyCopy DEF HasEmail, Writes
<1>2. visitor' = [visitor EXCEPT ![v] = Away] /\ made'.codes = made.codes
  BY DEF Leaves
<1> QED
  BY <1>1, <1>2, WholeMoves

\* A request that goes on with the same copy, but does not write.
LEMMA WholeGoesOn ==
    ASSUME SignInTypeOK, SignInTypeOK', Whole, NEW v \in Visitors,
           NEW s \in {"admit", "mark"}, Then(v, s), visitor[v].step # "away",
           UNCHANGED <<made, usedCodes, raced>>,
           \A f \in Emails : /\ account'[f].codes = account[f].codes
                             /\ account'[f].enabled = account[f].enabled
                             /\ account[f].secret # 0 => account'[f].secret # 0
    PROVE  Whole'
<1> DEFINE r == [visitor[v] EXCEPT !.step = s]
<1>1. visitor[v] \in Visits /\ visitor \in [Visitors -> Visits]
  BY DEF SignInTypeOK, Visits
<1>2. r \in Visits /\ r.step = s /\ r.email = visitor[v].email /\ r.seen = visitor[v].seen
  BY <1>1 DEF Visits
<1>3. visitor' = [visitor EXCEPT ![v] = r]
  BY <1>1 DEF Then
<1>4. CopyGood(visitor[v])
  BY DEF Whole, Copies
<1> HIDE DEF r
<1>5. HasEmail(r) /\ CopyApart(r) /\ ~Writes(r)
  BY <1>2, <1>4 DEF CopyGood, HasEmail, CopyApart, Writes
<1> QED
  BY <1>2, <1>3, <1>5, WholeMoves

\* A request that reads e's row again and holds it, with a code of it.
LEMMA WholeTakesCode ==
    ASSUME SignInTypeOK, SignInTypeOK', Whole, NEW v \in Visitors, visitor[v].step # "away",
           NEW c \in account[visitor[v].email].codes,
           visitor' = [visitor EXCEPT ![v] = Coded(visitor[v], account[visitor[v].email], c)],
           Holds(v, visitor[v].email), UNCHANGED <<account, made, usedCodes>>
    PROVE  Whole'
<1>1. visitor[v] \in Visits /\ CopyGood(visitor[v])
  BY DEF SignInTypeOK, Visits, Whole, Copies
<1>2. visitor[v].email \in Emails
  BY <1>1 DEF CopyGood, HasEmail
<1>3. account[visitor[v].email] \in Accounts
  BY <1>2 DEF SignInTypeOK
<1>4. PICK r \in Visits : /\ r = Coded(visitor[v], account[visitor[v].email], c)
                          /\ r.step = "consume" /\ r.code = c
                          /\ r.seen = account[r.email] /\ r.email = visitor[v].email
  BY <1>1, <1>3, TakesCode
<1>5. HasEmail(r) /\ CopyApart(r)
  BY <1>2, <1>4, FreshCopy DEF HasEmail
<1>6. (\E w \in Visitors \ {v} : HoldsRow(w, r.email)) => r.email \in raced'
  BY <1>4 DEF Holds, HeldByOther, HoldsRow
<1>7. raced \subseteq raced' /\ made'.codes = made.codes
  BY <1>2, RacedGrows DEF SignInTypeOK
<1>8. visitor' = [visitor EXCEPT ![v] = r]
  BY <1>4
<1>9. r.step # "enable" /\ r.code \in r.seen.codes /\ r.seen.codes = account[r.email].codes
  BY <1>4
<1>10. \A f \in Emails : /\ account'[f].codes = account[f].codes
                          /\ account'[f].enabled = account[f].enabled
                          /\ account[f].secret # 0 => account'[f].secret # 0
  OBVIOUS
<1> QED
  BY <1>5, <1>6, <1>7, <1>8, <1>9, <1>10, WholeMoves

\* A request that comes in and holds the row.
LEMMA WholeArrives ==
    ASSUME SignInTypeOK, SignInTypeOK', Whole, NEW v \in Visitors, NEW e \in Emails,
           NEW s \in {"enable", "disable", "off", "found"},
           visitor' = [visitor EXCEPT ![v] = Arrived(s, e)],
           s = "enable" => account[e].secret # 0,
           s # "found" => Holds(v, e), s = "found" => UNCHANGED raced,
           UNCHANGED <<account, made, usedCodes>>
    PROVE  Whole'
<1>1. PICK r \in Visits : r = Arrived(s, e) /\ r.step = s /\ r.email = e /\ r.seen = NoAccount
  BY Arrives
<1>2. HasEmail(r) /\ CopyApart(r)
  BY <1>1, EmptyCopy DEF HasEmail
<1>3. raced \subseteq raced' /\ made'.codes = made.codes
  BY RacedGrows DEF SignInTypeOK
<1>4. Writes(r) /\ (\E w \in Visitors \ {v} : HoldsRow(w, r.email)) => r.email \in raced'
  BY <1>1 DEF Holds, HeldByOther, HoldsRow, Writes
<1>5. visitor' = [visitor EXCEPT ![v] = r]
  BY <1>1
<1> QED
  BY <1>1, <1>2, <1>3, <1>4, <1>5, WholeMoves

LEMMA WholeConsume ==
    ASSUME SignInTypeOK, SignInTypeOK', Whole, NEW v \in Visitors, ConsumeBackupCode(v)
    PROVE  Whole'
<1> DEFINE e == visitor[v].email
           s == IF visitor[v].from = NoEmail THEN "disable" ELSE "admit"
           r == [visitor[v] EXCEPT !.step = s]
           row == [account[e] EXCEPT !.codes = visitor[v].seen.codes \ {visitor[v].code}]
<1>1. /\ visitor[v] \in Visits /\ visitor \in [Visitors -> Visits]
      /\ visitor[v].step = "consume" /\ CopyGood(visitor[v])
  BY DEF SignInTypeOK, Visits, Whole, Copies, ConsumeBackupCode
<1>2. /\ e \in Emails /\ account[e] \in Accounts /\ visitor[v].code \in visitor[v].seen.codes
      /\ HoldsRow(v, e) /\ visitor[v].seen \in Accounts
  BY <1>1 DEF CopyGood, HasEmail, CopyFits, SignInTypeOK, HoldsRow, Visits
<1>3. r \in Visits /\ r.step \in {"admit", "disable"} /\ r.email = e /\ r.seen = visitor[v].seen
  BY <1>1 DEF Visits
<1>4. visitor' = [visitor EXCEPT ![v] = r]
  BY <1>1 DEF ConsumeBackupCode, Then
<1>5. /\ row \in Accounts /\ row.codes = visitor[v].seen.codes \ {visitor[v].code}
      /\ row.enabled = account[e].enabled /\ row.secret = account[e].secret
  BY <1>2 DEF Accounts
<1>6. account' = [account EXCEPT ![e] = row]
  BY <1>2 DEF ConsumeBackupCode, SignInTypeOK
<1>7. UNCHANGED <<made, raced>> /\ usedCodes' = usedCodes \cup {visitor[v].code}
  BY DEF ConsumeBackupCode
<1>8. IssuedCodes' = IssuedCodes
  BY <1>7 DEF IssuedCodes
<1>9. /\ visitor[v].seen.codes \subseteq IssuedCodes /\ usedCodes \subseteq IssuedCodes
      /\ \A f \in Emails : f # e => visitor[v].seen.codes \cap account[f].codes = {}
      /\ \A w \in Visitors : visitor[w].email # e =>
             visitor[v].seen.codes \cap visitor[w].seen.codes = {}
  BY <1>1 DEF CopyGood, CopyApart, Whole, RowsApart
<1>10. \A f \in Emails \ raced : /\ account[f].codes \cap usedCodes = {}
                                 /\ account[f].enabled => account[f].secret # 0
  BY DEF Whole, SecondFactorWhole
<1>11. e \notin raced => visitor[v].seen.codes = account[e].codes
  BY <1>1 DEF CopyGood, CopyFits
<1> HIDE DEF r, row, s, e
<1>12. HasEmail(r) /\ r.email # NoEmail
  BY <1>2, <1>3, SignInAssumption DEF HasEmail, SignInAssumption
<1>13. row.codes \subseteq IssuedCodes' /\ usedCodes' \subseteq IssuedCodes'
  BY <1>2, <1>5, <1>7, <1>8, <1>9
<1>14. /\ \A f \in Emails : f # e => row.codes \cap account[f].codes = {}
       /\ \A w \in Visitors : visitor[w].email # e => row.codes \cap visitor[w].seen.codes = {}
  BY <1>5, <1>9
<1>15. \A f \in Emails : f # e /\ f \notin raced => account[f].codes \cap usedCodes' = {}
  BY <1>2, <1>7, <1>9, <1>10
<1>16. e \notin raced => /\ row.codes \cap usedCodes' = {}
                         /\ row.enabled => row.secret # 0
  BY <1>2, <1>5, <1>7, <1>10, <1>11
<1>17. UNCHANGED raced /\ IssuedCodes \subseteq IssuedCodes' /\ LetsGo(v, e, r)
  BY <1>3, <1>7, <1>8, <1>12 DEF LetsGo
<1>18. CleanRow(e, row)
  BY <1>13, <1>14, <1>15, <1>16 DEF CleanRow
<1> QED
  BY <1>2, <1>3, <1>4, <1>5, <1>6, <1>17, <1>18, WholeWrites

LEMMA WholeEnable ==
    ASSUME SignInTypeOK, SignInTypeOK', Whole, NEW v \in Visitors, EnableTOTP(v)
    PROVE  Whole'
<1> DEFINE e == visitor[v].email
           c == made'.codes
           row == [account[e] EXCEPT !.enabled = TRUE, !.codes = {c}]
<1>1. visitor[v].step = "enable" /\ CopyGood(visitor[v])
  BY DEF Whole, Copies, EnableTOTP
<1>2. e \in Emails /\ account[e] \in Accounts /\ HoldsRow(v, e)
  BY <1>1 DEF CopyGood, HasEmail, SignInTypeOK, HoldsRow
<1>3. made.codes \in 0 .. MaxCodes /\ made.codes < MaxCodes /\ c = made.codes + 1
  BY DEF SignInTypeOK, EnableTOTP
<1>4. made.codes \in Nat /\ c \in Codes
  BY <1>3, SignInAssumption DEF Codes, SignInAssumption
<1>5. IssuedCodes \subseteq IssuedCodes' /\ c \in IssuedCodes' /\ c \notin IssuedCodes
  BY <1>3, <1>4 DEF IssuedCodes
<1>6. /\ row \in Accounts /\ row.codes = {c} /\ row.enabled = TRUE
      /\ row.secret = account[e].secret
  BY <1>2, <1>4 DEF Accounts
<1>7. account' = [account EXCEPT ![e] = row]
  BY <1>2 DEF EnableTOTP, SignInTypeOK
<1>8. UNCHANGED <<usedCodes, raced>> /\ visitor' = [visitor EXCEPT ![v] = Away]
  BY DEF EnableTOTP, Leaves
<1>9. /\ usedCodes \subseteq IssuedCodes /\ \A f \in Emails : account[f].codes \subseteq IssuedCodes
      /\ \A w \in Visitors : visitor[w].seen.codes \subseteq IssuedCodes
  BY DEF Whole, RowsApart, Copies, CopyGood, CopyApart
<1>10. \A f \in Emails \ raced : account[f].codes \cap usedCodes = {}
  BY DEF Whole, SecondFactorWhole
<1>11. e \notin raced => account[e].secret # 0
  BY <1>1 DEF CopyGood, CopyFits
<1> HIDE DEF row, c, e
<1>12. HasEmail(Away)
  BY Blank DEF HasEmail
<1>13. row.codes \subseteq IssuedCodes' /\ usedCodes' \subseteq IssuedCodes'
  BY <1>5, <1>6, <1>8, <1>9
<1>14. /\ \A f \in Emails : f # e => row.codes \cap account[f].codes = {}
       /\ \A w \in Visitors : visitor[w].email # e => row.codes \cap visitor[w].seen.codes = {}
  BY <1>5, <1>6, <1>9
<1>15. e \notin raced => /\ row.codes \cap usedCodes' = {}
                         /\ row.enabled => row.secret # 0
  BY <1>5, <1>6, <1>8, <1>9, <1>11
<1>16. \A f \in Emails : f # e /\ f \notin raced => account[f].codes \cap usedCodes' = {}
  BY <1>8, <1>10
<1>17. LetsGo(v, e, Away)
  BY <1>12, Blank DEF LetsGo
<1>18. CleanRow(e, row)
  BY <1>13, <1>14, <1>15, <1>16 DEF CleanRow
<1> QED
  BY <1>2, <1>5, <1>6, <1>7, <1>8, <1>17, <1>18, Blank, WholeWrites

LEMMA WholeDisable ==
    ASSUME SignInTypeOK, SignInTypeOK', Whole, NEW v \in Visitors, DisableTOTP(v)
    PROVE  Whole'
<1> DEFINE e == visitor[v].email
           row == [NoAccount EXCEPT !.registered = TRUE]
<1>1. visitor[v].step = "disable" /\ CopyGood(visitor[v])
  BY DEF Whole, Copies, DisableTOTP
<1>2. e \in Emails /\ HoldsRow(v, e)
  BY <1>1 DEF CopyGood, HasEmail, HoldsRow
<1>3. row \in Accounts /\ row.codes = {} /\ row.enabled = FALSE
  <2>1. row \in Accounts
    BY Blank DEF Accounts
  <2>2. row.codes = {} /\ row.enabled = FALSE
    BY DEF NoAccount
  <2> QED
    BY <2>1, <2>2
<1>4. account' = [account EXCEPT ![e] = row]
  BY DEF DisableTOTP
<1>5. UNCHANGED <<made, usedCodes, raced>> /\ visitor' = [visitor EXCEPT ![v] = Away]
  BY DEF DisableTOTP, Leaves
<1>6. IssuedCodes' = IssuedCodes
  BY <1>5 DEF IssuedCodes
<1>7. usedCodes \subseteq IssuedCodes
  BY DEF Whole, RowsApart
<1>8. \A f \in Emails \ raced : account[f].codes \cap usedCodes = {}
  BY DEF Whole, SecondFactorWhole
<1> HIDE DEF row, e
<1>9. HasEmail(Away)
  BY Blank DEF HasEmail
<1>10. \A f \in Emails : f # e /\ f \notin raced => account[f].codes \cap usedCodes' = {}
  BY <1>5, <1>8
<1>11. LetsGo(v, e, Away)
  BY <1>9, Blank DEF LetsGo
<1>12. CleanRow(e, row)
  BY <1>3, <1>5, <1>6, <1>7, <1>10 DEF CleanRow
<1> QED
  BY <1>2, <1>3, <1>4, <1>5, <1>6, <1>11, <1>12, Blank, WholeWrites

\* Registering, or a new secret, while nobody moves.
LEMMA WholeRows ==
    ASSUME SignInTypeOK, Whole, NEW e \in Emails, Register(e) \/ SetupMFA(e)
    PROVE  Whole'
<1>1. UNCHANGED <<visitor, usedCodes, raced>> /\ made'.codes = made.codes
  BY DEF Register, SetupMFA, SignInTypeOK
<1>2. \A f \in Emails : /\ account'[f].codes = account[f].codes
                        /\ account'[f].enabled = account[f].enabled
                        /\ account[f].secret # 0 => account'[f].secret # 0
  <2>1. CASE Register(e)
    BY <2>1 DEF Register, CreateUser, SignInTypeOK, Accounts
  <2>2. CASE SetupMFA(e)
    <3>1. made'.secrets # 0
      BY <2>2 DEF SetupMFA, SignInTypeOK
    <3> QED
      BY <2>2, <3>1 DEF SetupMFA, SignInTypeOK, Accounts
  <2> QED
    BY <2>1, <2>2
<1>3. IssuedCodes' = IssuedCodes
  BY <1>1 DEF IssuedCodes
<1>4. HeldAlone' /\ RowsApart' /\ SecondFactorWhole'
  BY <1>1, <1>2, <1>3 DEF Whole, HeldAlone, HoldsRow, RowsApart, SecondFactorWhole
<1>5. ASSUME NEW v \in Visitors
      PROVE  CopyGood(visitor[v])'
  <2>1. PICK q : q = visitor[v]
    OBVIOUS
  <2>2. q = visitor'[v] /\ CopyGood(q)
    BY <1>1, <2>1 DEF Whole, Copies
  <2>3. HasEmail(q)' /\ CopyFits(q)' /\ CopyApart(q)'
    BY <1>1, <1>2, <1>3, <2>2 DEF CopyGood, HasEmail, CopyFits, CopyApart
  <2> QED
    BY <2>2, <2>3 DEF CopyGood, HasEmail, CopyFits, CopyApart
<1> QED
  BY <1>4, <1>5 DEF Whole, Copies

LEMMA WholeStep ==
    ASSUME SignInTypeOK, SignInTypeOK', Whole, SignInNext
    PROVE  Whole'
<1>0. \A v \in Visitors : CopyGood(visitor[v])
  BY DEF Whole, Copies
<1>1. ASSUME NEW e \in Emails, Register(e) \/ SetupMFA(e)
      PROVE  Whole'
  BY <1>1, WholeRows
<1>2. ASSUME NEW k \in Emails \cup Addresses, CounterExpires(k)
      PROVE  Whole'
  <2>1. UNCHANGED <<account, visitor, made, usedCodes, raced>>
    BY <1>2 DEF CounterExpires
  <2> QED
    BY <2>1 DEF Whole, HeldAlone, HoldsRow, RowsApart, IssuedCodes, Copies, CopyGood, HasEmail,
                CopyFits, CopyApart, SecondFactorWhole
<1>3. ASSUME NEW v \in Visitors, NEW e \in Emails, NEW a \in Addresses, Login(v, e, a)
      PROVE  Whole'
  <2> DEFINE r == [Away EXCEPT !.step = "password", !.email = e, !.from = a]
  <2>1. r \in Visits /\ r.step = "password" /\ r.email = e /\ r.seen = NoAccount
    BY Blank DEF Visits
  <2>2. HasEmail(r) /\ CopyApart(r) /\ ~Writes(r)
    BY <2>1, EmptyCopy DEF HasEmail, Writes
  <2>3. visitor' = [visitor EXCEPT ![v] = r] /\ UNCHANGED <<account, made, usedCodes, raced>>
    BY <1>3 DEF Login
  <2> HIDE DEF r
  <2> QED
    BY <2>1, <2>2, <2>3, WholeMoves
<1>4. ASSUME NEW v \in Visitors, NEW e \in Emails,
             EnableMFA(v, e) \/ DisableMFA(v, e) \/ IsBootstrapInitialized(v, e)
      PROVE  Whole'
  <2>1. PICK s \in {"enable", "disable", "off", "found"} :
            /\ visitor' = [visitor EXCEPT ![v] = Arrived(s, e)]
            /\ s = "enable" => account[e].secret # 0
            /\ s # "found" => Holds(v, e)
            /\ s = "found" => UNCHANGED raced
    <3>1. CASE EnableMFA(v, e)
      BY <3>1 DEF EnableMFA, Arrived
    <3>2. CASE DisableMFA(v, e)
      BY <3>2 DEF DisableMFA, Arrived
    <3>3. CASE IsBootstrapInitialized(v, e)
      BY <3>3 DEF IsBootstrapInitialized, Arrived
    <3> QED
      BY <1>4, <3>1, <3>2, <3>3
  <2>2. UNCHANGED <<account, made, usedCodes>>
    BY <1>4 DEF EnableMFA, DisableMFA, IsBootstrapInitialized
  <2> QED
    BY <2>1, <2>2, WholeArrives
<1>5. ASSUME NEW v \in Visitors, GetUserByEmail(v)
      PROVE  Whole'
  <2> DEFINE e == visitor[v].email
  <2>1. UNCHANGED <<account, made, usedCodes, raced>> /\ visitor[v].step = "password"
    BY <1>5 DEF GetUserByEmail
  <2>2. CASE Leaves(v)
    BY <2>1, <2>2, WholeLeaves
  <2>3. CASE ~Leaves(v)
    <3>1. PICK s \in {"code", "admit"} :
              visitor' = [visitor EXCEPT ![v].step = s, ![v].seen = account[e]]
      BY <1>5, <2>3 DEF GetUserByEmail
    <3>2. e \in Emails /\ account[e] \in Accounts /\ visitor[v] \in Visits
      BY <1>0, <2>1 DEF CopyGood, HasEmail, SignInTypeOK, Visits
    <3> DEFINE r == [visitor[v] EXCEPT !.step = s, !.seen = account[e]]
    <3>3. r \in Visits /\ r.step = s /\ r.email = e /\ r.seen = account[e]
      BY <3>2 DEF Visits
    <3>4. visitor' = [visitor EXCEPT ![v] = r]
      BY <3>1 DEF SignInTypeOK
    <3> HIDE DEF r
    <3>5. HasEmail(r) /\ CopyApart(r) /\ ~Writes(r)
      BY <3>2, <3>3, FreshCopy DEF HasEmail, Writes
    <3> QED
      BY <2>1, <3>3, <3>4, <3>5, WholeMoves
  <2> QED
    BY <2>2, <2>3
<1>6. ASSUME NEW v \in Visitors, CheckCode(v)
      PROVE  Whole'
  <2>1. UNCHANGED <<account, made, usedCodes>> /\ visitor[v].step = "code"
    BY <1>6 DEF CheckCode
  <2>2. CASE Leaves(v) /\ UNCHANGED raced
    BY <2>1, <2>2, WholeLeaves
  <2>3. CASE Then(v, "admit") /\ UNCHANGED raced
    BY <2>1, <2>3, WholeGoesOn
  <2>4. CASE \E c \in account[visitor[v].email].codes :
                /\ visitor' = [visitor EXCEPT ![v].step = "consume", ![v].code = c,
                                              ![v].seen = account[visitor[v].email]]
                /\ Holds(v, visitor[v].email)
    <3>1. PICK c \in account[visitor[v].email].codes :
              /\ visitor' = [visitor EXCEPT ![v] = Coded(visitor[v], account[visitor[v].email], c)]
              /\ Holds(v, visitor[v].email)
      BY <2>4 DEF Coded, SignInTypeOK
    <3> QED
      BY <2>1, <3>1, WholeTakesCode
  <2> QED
    BY <1>6, <2>2, <2>3, <2>4 DEF CheckCode
<1>7. ASSUME NEW v \in Visitors, Admit(v) \/ MarkBootstrapComplete(v) \/ GivesUp(v)
      PROVE  Whole'
  <2>1. Leaves(v) /\ UNCHANGED <<account, made, usedCodes, raced>>
    BY <1>7 DEF Admit, MarkBootstrapComplete, GivesUp
  <2> QED
    BY <2>1, WholeLeaves
<1>8. ASSUME NEW v \in Visitors, DisableWithCode(v)
      PROVE  Whole'
  <2>1. PICK c \in account[visitor[v].email].codes :
            visitor' = [visitor EXCEPT ![v] = Coded(visitor[v], account[visitor[v].email], c)]
    BY <1>8 DEF DisableWithCode, Coded, SignInTypeOK
  <2>2. /\ UNCHANGED <<account, made, usedCodes>> /\ visitor[v].step # "away"
        /\ Holds(v, visitor[v].email)
    BY <1>8 DEF DisableWithCode
  <2> QED
    BY <2>1, <2>2, WholeTakesCode
<1>9. ASSUME NEW v \in Visitors, Bootstrap(v)
      PROVE  Whole'
  <2>1. \A f \in Emails : /\ account'[f].codes = account[f].codes
                          /\ account'[f].enabled = account[f].enabled
                          /\ account[f].secret # 0 => account'[f].secret # 0
    BY <1>9 DEF Bootstrap, CreateUser, SignInTypeOK, Accounts
  <2>2. Then(v, "mark") /\ visitor[v].step # "away" /\ UNCHANGED <<made, usedCodes, raced>>
    BY <1>9 DEF Bootstrap
  <2> QED
    BY <2>1, <2>2, WholeGoesOn
<1> QED
  BY <1>1, <1>2, <1>3, <1>4, <1>5, <1>6, <1>7, <1>8, <1>9, WholeConsume, WholeEnable,
     WholeDisable DEF SignInNext

-----------------------------------------------------------------------------
(* The theorems                                                            *)

LEMMA SignInInitInv == SignInInit => SignInInv
<1> SUFFICES ASSUME SignInInit
             PROVE  SignInInv
  OBVIOUS
<1>1. SignInTypeOK
  <2>1. 0 \in 0 .. MaxSecrets /\ 0 \in 0 .. MaxCodes
    BY SignInAssumption DEF SignInAssumption
  <2>2. made \in [secrets : 0 .. MaxSecrets, codes : 0 .. MaxCodes]
    BY <2>1 DEF SignInInit
  <2>3. account \in [Emails -> Accounts] /\ visitor \in [Visitors -> Visits]
    BY Blank DEF SignInInit
  <2>4. failures \in [Emails \cup Addresses -> Nat] /\ tries \in [Emails -> Nat]
    BY DEF SignInInit
  <2> QED
    BY <2>2, <2>3, <2>4 DEF SignInInit, SignInTypeOK, Visits
<1>2. \A e \in Emails : /\ account[e].codes = {} /\ account[e].enabled = FALSE
                        /\ tries[e] = 0 /\ failures[e] = 0
  BY Blank DEF SignInInit, NoAccount
<1>3. \A v \in Visitors : visitor[v] = Away
  BY DEF SignInInit
<1>4. Counted
  <2> SUFFICES ASSUME NEW e \in Emails
               PROVE  CountedFor(e)
    BY DEF Counted, CountedFor
  <2>1. Trying(e) = {}
    BY <1>3, Blank DEF Trying
  <2>2. Cardinality(Trying(e)) = 0 /\ Cardinality(Visitors) \in Nat
    BY <2>1, FS_EmptySet, TryingFinite
  <2> QED
    BY <1>2, <2>2 DEF CountedFor, LoginLimit
<1>5. HeldAlone /\ RowsApart /\ SecondFactorWhole
  BY <1>2, <1>3, Blank DEF SignInInit, HeldAlone, HoldsRow, RowsApart, SecondFactorWhole
<1>6. Copies
  BY <1>2, <1>3, Blank, EmptyCopy DEF Copies, CopyGood, HasEmail, CopyFits
<1> QED
  BY <1>1, <1>4, <1>5, <1>6 DEF SignInInv

LEMMA SignInStepKeeps == SignInInv /\ [SignInNext]_signInVars => SignInInv'
<1> SUFFICES ASSUME SignInInv, [SignInNext]_signInVars
             PROVE  SignInInv'
  OBVIOUS
<1>1. CASE SignInNext
  <2>1. \A v \in Visitors : HasEmail(visitor[v]) /\ CopyFits(visitor[v])
    BY DEF SignInInv, Copies, CopyGood
  <2>2. SignInTypeOK'
    BY <1>1, <2>1, TypeStep DEF SignInInv
  <2>3. Counted'
    BY <1>1, <2>1, CountedStep DEF SignInInv
  <2>4. Whole
    BY DEF SignInInv, Whole
  <2>5. Whole'
    BY <1>1, <2>2, <2>4, WholeStep DEF SignInInv
  <2> QED
    BY <2>2, <2>3, <2>5 DEF SignInInv, Whole
<1>2. CASE UNCHANGED signInVars
  <2>1. UNCHANGED <<account, failures, initialized, visitor, made, tries, usedCodes, raced>>
    BY <1>2 DEF signInVars
  <2>2. SignInTypeOK' /\ Counted'
    BY <2>1 DEF SignInInv, SignInTypeOK, Counted, Trying
  <2>3. HeldAlone' /\ RowsApart' /\ SecondFactorWhole'
    BY <2>1 DEF SignInInv, HeldAlone, HoldsRow, RowsApart, IssuedCodes, SecondFactorWhole
  <2>4. Copies'
    BY <2>1 DEF SignInInv, Copies, CopyGood, HasEmail, CopyFits, CopyApart, IssuedCodes
  <2> QED
    BY <2>2, <2>3, <2>4 DEF SignInInv
<1> QED
  BY <1>1, <1>2

LEMMA SignInInvariant == SignInSpec => []SignInInv
<1> QED
  BY SignInInitInv, SignInStepKeeps, PTL DEF SignInSpec

\* Rows, requests and counters keep their types: no request writes a code that
\* was never given out, whatever it read before.
THEOREM SignInTypes == SignInSpec => []SignInTypeOK
<1>1. SignInInv => SignInTypeOK
  BY DEF SignInInv
<1> QED
  BY <1>1, SignInInvariant, PTL

\* However many logins are in flight, an email fails fewer times between two
\* good ones than the limit and the requests together: the check that each
\* request makes once, when it comes in, lets no more through.
THEOREM LoginsBounded == SignInSpec => []FailedLoginsBounded
<1>1. SignInInv => FailedLoginsBounded
  <2> SUFFICES ASSUME SignInInv, NEW e \in Emails
               PROVE  tries[e] < LoginLimit + Cardinality(Visitors)
    BY DEF FailedLoginsBounded
  <2>1. tries[e] \in Nat /\ Cardinality(Trying(e)) \in Nat /\ Cardinality(Visitors) \in Nat
    BY TryingFinite DEF SignInInv, SignInTypeOK
  <2>2. tries[e] + Cardinality(Trying(e)) < LoginLimit + Cardinality(Visitors)
    BY DEF SignInInv, Counted
  <2> QED
    BY <2>1, <2>2 DEF LoginLimit
<1> QED
  BY <1>1, SignInInvariant, PTL

\* An account whose requests have not overlapped has a second factor only with
\* a secret, and a backup code that let somebody in never lets anybody in
\* again, although the codes that remain are written from a copy.
THEOREM SecondFactorKept == SignInSpec => []SecondFactorWhole
<1>1. SignInInv => SecondFactorWhole
  BY DEF SignInInv
<1> QED
  BY <1>1, SignInInvariant, PTL

=============================================================================
