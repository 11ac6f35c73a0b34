------------------------------- MODULE SignIn -------------------------------
(***************************************************************************)
(* Who gets in: registration, password, second factor, the limit on failed *)
(* logins, and the platform's first account.                               *)
(*                                                                         *)
(* Each handler reads a user's row and decides from the copy it holds:     *)
(* checking a password or a code takes time, and what is written later     *)
(* (the remaining backup codes, "enabled") is computed from that copy.     *)
(* What follows a sign-in, the tokens, is module Sessions.                 *)
(***************************************************************************)
EXTENDS Naturals, FiniteSets

CONSTANTS Emails,      \* who may have an account
          Addresses,   \* where requests come from
          Visitors,    \* the requests that may be in flight together
          MaxSecrets,  \* the secrets that are generated
          MaxCodes,    \* the backup codes; each enabling generates one here
          SignInKinds  \* what the requests may ask for

LoginLimit == 5

Codes   == 1 .. MaxCodes
NoEmail == "nobody"

RequestKinds == {"register", "login", "mfa", "bootstrap"}

\* An email and an address are counted under different keys in Redis.
ASSUME SignInAssumption ==
    /\ IsFiniteSet(Visitors)
    /\ MaxSecrets \in Nat
    /\ MaxCodes \in Nat
    /\ NoEmail \notin Emails
    /\ Emails \cap Addresses = {}
    /\ SignInKinds \subseteq RequestKinds

VARIABLES
    account,      \* table users: the second factor of each registered email
    failures,     \* Redis: the failed logins counted by email and by address
    initialized,  \* platform_bootstrap.initialized
    visitor,      \* what each request does next, with the row it has read
    made,         \* how many secrets and backup codes were generated
    tries,        \* the failed logins of each email since the last good one
    usedCodes,    \* the backup codes that let somebody in
    raced         \* the emails whose row two requests held at the same time

signInVars == <<account, failures, initialized, visitor, made, tries, usedCodes, raced>>

NoAccount == [registered |-> FALSE, enabled |-> FALSE, secret |-> 0, codes |-> {}]

Accounts == [registered : BOOLEAN, enabled : BOOLEAN,
             secret : 0 .. MaxSecrets, codes : SUBSET Codes]

Away == [step |-> "away", email |-> NoEmail, from |-> NoEmail,
         seen |-> NoAccount, code |-> 0]

SignInTypeOK ==
    /\ account     \in [Emails -> Accounts]
    /\ failures    \in [Emails \cup Addresses -> Nat]
    /\ initialized \in BOOLEAN
    /\ visitor     \in [Visitors ->
           [step : {"away", "password", "code", "consume", "admit",
                    "enable", "off", "disable", "found", "mark"},
            email : Emails \cup {NoEmail}, from : Addresses \cup {NoEmail},
            seen : Accounts, code : 0 .. MaxCodes]]
    /\ made        \in [secrets : 0 .. MaxSecrets, codes : 0 .. MaxCodes]
    /\ tries       \in [Emails -> Nat]
    /\ usedCodes   \in SUBSET Codes
    /\ raced       \in SUBSET Emails

SignInInit ==
    /\ account     = [e \in Emails |-> NoAccount]
    /\ failures    = [k \in Emails \cup Addresses |-> 0]
    /\ initialized = FALSE
    /\ visitor     = [v \in Visitors |-> Away]
    /\ made        = [secrets |-> 0, codes |-> 0]
    /\ tries       = [e \in Emails |-> 0]
    /\ usedCodes   = {}
    /\ raced       = {}

-----------------------------------------------------------------------------
(* Helpers                                                                 *)

Leaves(v)  == visitor' = [visitor EXCEPT ![v] = Away]
Then(v, s) == visitor' = [visitor EXCEPT ![v].step = s]

\* Another request holds a copy of e's row that it will write from.
HeldByOther(v, e) ==
    \E w \in Visitors \ {v} :
        visitor[w].email = e /\ visitor[w].step \in {"consume", "enable", "off", "disable"}

Holds(v, e) == raced' = IF HeldByOther(v, e) THEN raced \cup {e} ELSE raced

isRateLimited(e, a) == failures[a] >= LoginLimit \/ failures[e] >= LoginLimit

recordFailedLogin(e, a) ==
    /\ failures' = [failures EXCEPT ![a] = @ + 1, ![e] = @ + 1]
    /\ tries'    = [tries EXCEPT ![e] = @ + 1]

clearRateLimit(e, a) ==
    /\ failures' = [failures EXCEPT ![a] = 0, ![e] = 0]
    /\ tries'    = [tries EXCEPT ![e] = 0]

\* A unique constraint on the email.
CreateUser(e) ==
    /\ ~account[e].registered
    /\ account' = [account EXCEPT ![e].registered = TRUE]

-----------------------------------------------------------------------------
(* Register and Login.  The tokens they answer with are those of Sessions. *)

Register(e) ==
    /\ "register" \in SignInKinds
    /\ CreateUser(e)
    /\ UNCHANGED <<failures, initialized, visitor, made, tries, usedCodes, raced>>

\* The limit is looked at once, when the request comes in.
Login(v, e, a) ==
    /\ "login" \in SignInKinds
    /\ visitor[v] = Away
    /\ ~isRateLimited(e, a)
    /\ visitor' = [visitor EXCEPT ![v] = [Away EXCEPT !.step = "password",
                                                      !.email = e, !.from = a]]
    /\ UNCHANGED <<account, failures, initialized, made, tries, usedCodes, raced>>

\* GetUserByEmail and the password.
GetUserByEmail(v) ==
    LET e == visitor[v].email IN
    /\ visitor[v].step = "password"
    /\ \/ /\ recordFailedLogin(e, visitor[v].from)
          /\ Leaves(v)
       \/ /\ account[e].registered
          /\ visitor' = [visitor EXCEPT
                            ![v].step = IF account[e].enabled THEN "code" ELSE "admit",
                            ![v].seen = account[e]]
          /\ UNCHANGED <<failures, tries>>
    /\ UNCHANGED <<account, initialized, made, usedCodes, raced>>

\* Mutant: a wrong second factor is not counted.
CheckCodeOnly(v) ==
    LET e == visitor[v].email IN
    /\ visitor[v].step = "code"
    /\ \/ Leaves(v) /\ tries' = [tries EXCEPT ![e] = @ + 1] /\ UNCHANGED raced
       \/ Then(v, "admit") /\ UNCHANGED <<tries, raced>>
    /\ UNCHANGED <<account, failures, initialized, made, usedCodes>>

\* No code given: mfa_required.  Otherwise the authenticator's code is tried,
\* then the backup codes, whose list ConsumeBackupCode reads again.
CheckCode(v) ==
    LET e == visitor[v].email IN
    /\ visitor[v].step = "code"
    /\ \/ Leaves(v) /\ UNCHANGED <<failures, tries, raced>>
       \/ visitor[v].seen.secret # 0 /\ Then(v, "admit") /\ UNCHANGED <<failures, tries, raced>>
       \/ \E c \in account[e].codes :
             /\ visitor' = [visitor EXCEPT ![v].step = "consume", ![v].code = c,
                                           ![v].seen = account[e]]
             /\ Holds(v, e)
             /\ UNCHANGED <<failures, tries>>
       \/ recordFailedLogin(e, visitor[v].from) /\ Leaves(v) /\ UNCHANGED raced
    /\ UNCHANGED <<account, initialized, made, usedCodes>>

\* Mutant: the code that matched stays in the list.
ConsumeNothing(v) ==
    /\ visitor[v].step = "consume"
    /\ usedCodes' = usedCodes \cup {visitor[v].code}
    /\ Then(v, IF visitor[v].from = NoEmail THEN "disable" ELSE "admit")
    /\ UNCHANGED <<account, failures, initialized, made, tries, raced>>

\* The remaining codes are written whole, from the list that was read.
ConsumeBackupCode(v) ==
    /\ visitor[v].step = "consume"
    /\ account'   = [account EXCEPT ![visitor[v].email].codes =
                        visitor[v].seen.codes \ {visitor[v].code}]
    /\ usedCodes' = usedCodes \cup {visitor[v].code}
    /\ Then(v, IF visitor[v].from = NoEmail THEN "disable" ELSE "admit")
    /\ UNCHANGED <<failures, initialized, made, tries, raced>>

Admit(v) ==
    /\ visitor[v].step = "admit"
    /\ clearRateLimit(visitor[v].email, visitor[v].from)
    /\ Leaves(v)
    /\ UNCHANGED <<account, initialized, made, usedCodes, raced>>

\* The counters' time to live, set again at each failure; a request is
\* shorter than that.
CounterExpires(k) ==
    /\ failures[k] > 0
    /\ \A v \in Visitors : visitor[v] = Away
    /\ failures' = [failures EXCEPT ![k] = 0]
    /\ tries'    = [e \in Emails |-> IF e = k THEN 0 ELSE tries[e]]
    /\ UNCHANGED <<account, initialized, visitor, made, usedCodes, raced>>

-----------------------------------------------------------------------------
(* The second factor                                                       *)

\* A new secret, whether or not one is enabled.
SetupMFA(e) ==
    /\ "mfa" \in SignInKinds
    /\ account[e].registered
    /\ made.secrets < MaxSecrets
    /\ made'    = [made EXCEPT !.secrets = @ + 1]
    /\ account' = [account EXCEPT ![e].secret = made'.secrets]
    /\ UNCHANGED <<failures, initialized, visitor, tries, usedCodes, raced>>

\* Reads the row and checks the code against the secret it read ...
EnableMFA(v, e) ==
    /\ "mfa" \in SignInKinds
    /\ visitor[v] = Away
    /\ account[e].secret # 0
    /\ visitor' = [visitor EXCEPT ![v] = [Away EXCEPT !.step = "enable", !.email = e]]
    /\ Holds(v, e)
    /\ UNCHANGED <<account, failures, initialized, made, tries, usedCodes>>

\* ... and enables whatever secret is there now, with new backup codes.
EnableTOTP(v) ==
    /\ visitor[v].step = "enable"
    /\ made.codes < MaxCodes
    /\ made'    = [made EXCEPT !.codes = @ + 1]
    /\ account' = [account EXCEPT ![visitor[v].email].enabled = TRUE,
                                  ![visitor[v].email].codes   = {made'.codes}]
    /\ Leaves(v)
    /\ UNCHANGED <<failures, initialized, tries, usedCodes, raced>>

DisableMFA(v, e) ==
    /\ "mfa" \in SignInKinds
    /\ visitor[v] = Away
    /\ account[e].enabled
    /\ Holds(v, e)
    /\ \/ /\ account[e].secret # 0
          /\ visitor' = [visitor EXCEPT ![v] = [Away EXCEPT !.step = "disable", !.email = e]]
       \/ visitor' = [visitor EXCEPT ![v] = [Away EXCEPT !.step = "off", !.email = e]]
    /\ UNCHANGED <<account, failures, initialized, made, tries, usedCodes>>

\* With a backup code: the list is read again.
DisableWithCode(v) ==
    LET e == visitor[v].email IN
    /\ visitor[v].step = "off"
    /\ Holds(v, e)
    /\ \E c \in account[e].codes :
          visitor' = [visitor EXCEPT ![v].step = "consume", ![v].code = c,
                                     ![v].seen = account[e]]
    /\ UNCHANGED <<account, failures, initialized, made, tries, usedCodes>>

DisableTOTP(v) ==
    /\ visitor[v].step = "disable"
    /\ account' = [account EXCEPT ![visitor[v].email] =
                      [NoAccount EXCEPT !.registered = TRUE]]
    /\ Leaves(v)
    /\ UNCHANGED <<failures, initialized, made, tries, usedCodes, raced>>

-----------------------------------------------------------------------------
(* Bootstrap                                                               *)

IsBootstrapInitialized(v, e) ==
    /\ "bootstrap" \in SignInKinds
    /\ visitor[v] = Away
    /\ ~initialized
    /\ visitor' = [visitor EXCEPT ![v] = [Away EXCEPT !.step = "found", !.email = e]]
    /\ UNCHANGED <<account, failures, initialized, made, tries, usedCodes, raced>>

Bootstrap(v) ==
    /\ visitor[v].step = "found"
    /\ CreateUser(visitor[v].email)
    /\ Then(v, "mark")
    /\ UNCHANGED <<failures, initialized, made, tries, usedCodes, raced>>

\* Its error is dropped.
MarkBootstrapComplete(v) ==
    /\ visitor[v].step = "mark"
    /\ initialized' \in {initialized, TRUE}
    /\ Leaves(v)
    /\ UNCHANGED <<account, failures, made, tries, usedCodes, raced>>

\* A wrong code or a taken email, a client that goes away, a restart.
GivesUp(v) ==
    /\ visitor[v] # Away
    /\ Leaves(v)
    /\ UNCHANGED <<account, failures, initialized, made, tries, usedCodes, raced>>

-----------------------------------------------------------------------------
SignInNext ==
    \/ \E e \in Emails : Register(e) \/ SetupMFA(e)
    \/ \E k \in Emails \cup Addresses : CounterExpires(k)
    \/ \E v \in Visitors, e \in Emails :
          \/ \E a \in Addresses : Login(v, e, a)
          \/ EnableMFA(v, e) \/ DisableMFA(v, e) \/ IsBootstrapInitialized(v, e)
    \/ \E v \in Visitors :
          \/ GetUserByEmail(v) \/ CheckCode(v) \/ ConsumeBackupCode(v) \/ Admit(v)
          \/ EnableTOTP(v) \/ DisableWithCode(v) \/ DisableTOTP(v)
          \/ Bootstrap(v) \/ MarkBootstrapComplete(v) \/ GivesUp(v)

SignInSpec == SignInInit /\ [][SignInNext]_signInVars

-----------------------------------------------------------------------------
(* Properties                                                              *)

\* "5 login attempts per 15 minutes": wrong passwords and wrong second
\* factors alike count, and requests that passed the check together may
\* exceed the limit by one less than there are of them.
FailedLoginsBounded ==
    \A e \in Emails : tries[e] < LoginLimit + Cardinality(Visitors)

\* While the requests about an account do not overlap, its second factor is
\* whole: it is on only with a secret to check against, and a backup code
\* that let somebody in is gone for good.
SecondFactorWhole ==
    \A e \in Emails \ raced :
        /\ account[e].enabled => account[e].secret # 0
        /\ account[e].codes \cap usedCodes = {}
=============================================================================
