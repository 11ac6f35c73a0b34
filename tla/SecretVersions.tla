--------------------------- MODULE SecretVersions ---------------------------
(***************************************************************************)
(* The secret service: named secrets whose values are kept as numbered,    *)
(* encrypted versions.                                                     *)
(*                                                                         *)
(* A row of `secrets' names the current version, the values are rows of    *)
(* `secret_versions'.  SetSecret reads the row in one statement and writes *)
(* both tables in a later transaction, from the copy it read; a reader     *)
(* takes the row first and the value second.  Other requests come between. *)
(***************************************************************************)
EXTENDS Naturals

CONSTANTS SecretNames,   \* the names in use, of one project and environment
          MaxSecretIds,  \* the secrets a behaviour creates
          MaxValues,     \* the values it sets; also the longest history
          Requests,      \* the requests that may be in flight together
          MasterKeys,    \* what SECRETS_MASTER_KEY may be, over restarts
          Environments   \* the environments a project may have

SecretIds == 1 .. MaxSecretIds
Values    == 1 .. MaxValues
Versions  == 1 .. MaxValues
NoName    == "no name"

ASSUME SecretsAssumption ==
    /\ MaxSecretIds \in Nat
    /\ MaxValues \in Nat
    /\ NoName \notin SecretNames

VARIABLES
    secret,       \* table secrets
    history,      \* table secret_versions: by secret and version
    environments, \* table project_environments
    masterKey,    \* the key of the running service
    request,      \* what each request does next, with what it has read
    valuesSet,    \* how many values clients have sent
    overlapped    \* the secrets that two requests have been writing at once

secretVars == <<secret, history, environments, masterKey, request, valuesSet, overlapped>>

NoCipher == [key |-> NoName, plain |-> 0]
NoSecret == [status |-> "absent", name |-> NoName, version |-> 0, hint |-> 0]
Waiting  == [step |-> "waiting", id |-> 0, row |-> NoSecret, target |-> NoName,
             value |-> 0, promised |-> 0]

Ciphers == [key : MasterKeys, plain : Values] \cup {NoCipher}
Rows    == [status : {"absent", "there", "deleted"}, name : SecretNames \cup {NoName},
            version : {0} \cup Versions, hint : {0} \cup Values]

SecretsTypeOK ==
    /\ secret \in [SecretIds -> Rows]
    /\ history \in [SecretIds -> [Versions -> Ciphers]]
    /\ environments \subseteq Environments
    /\ masterKey \in MasterKeys
    /\ request \in [Requests -> [step : {"waiting", "set", "value"}, id : {0} \cup SecretIds,
                                 row : Rows, target : SecretNames \cup {NoName},
                                 value : {0} \cup Values, promised : {0} \cup Values]]
    /\ valuesSet \in {0} \cup Values
    /\ overlapped \subseteq SecretIds

SecretsInit ==
    /\ secret  = [i \in SecretIds |-> NoSecret]
    /\ history = [i \in SecretIds |-> [v \in Versions |-> NoCipher]]
    /\ environments = {}
    /\ masterKey \in MasterKeys
    /\ request = [r \in Requests |-> Waiting]
    /\ valuesSet = 0
    /\ overlapped = {}

Answers(r) == request' = [request EXCEPT ![r] = Waiting]

-----------------------------------------------------------------------------
(* Encryption and the tables                                               *)

\* The service starts again, with the key its environment has by then.
\* Rows record a key version, and it is 1 whatever the key.
NewFromEnv(k) ==
    /\ masterKey # k
    /\ masterKey' = k
    /\ request' = [r \in Requests |-> Waiting]
    /\ UNCHANGED <<secret, history, environments, valuesSet, overlapped>>

Encrypt(x) == [key |-> masterKey, plain |-> x]

\* The value, or 0: GCM does not open what another key has sealed.
Decrypt(ct) == IF ct.key = masterKey THEN ct.plain ELSE 0

\* The hint shows the end of the value; it stands here for the value.
Hint(x) == x

GetSecret(n) == {i \in SecretIds : secret[i].status = "there" /\ secret[i].name = n}

GetCiphertext(i, v) == IF v \in Versions THEN history[i][v] ELSE NoCipher

\* The row and its first version; names are unique.
CreateSecret(i, n, x) ==
    /\ secret'  = [secret EXCEPT ![i] = [status |-> "there", name |-> n,
                                         version |-> 1, hint |-> Hint(x)]]
    /\ history' = [history EXCEPT ![i][1] = Encrypt(x)]

\* Mutant: a request without a value leaves the version to the row.
UpdateNameAndHint(i, row, n, x) ==
    /\ history' = IF x = 0 THEN history
                  ELSE [history EXCEPT ![i][row.version + 1] = Encrypt(x)]
    /\ secret'  = [secret EXCEPT ![i].name = n,
                                 ![i].version = IF x = 0 THEN @ ELSE row.version + 1,
                                 ![i].hint = IF x = 0 THEN row.hint ELSE Hint(x)]

\* Mutant: the value of a version that is there is replaced.
UpdateInPlace(i, row, n, x) ==
    /\ history' = IF x = 0 THEN history ELSE [history EXCEPT ![i][row.version] = Encrypt(x)]
    /\ secret'  = [secret EXCEPT ![i].name = n,
                                 ![i].hint = IF x = 0 THEN row.hint ELSE Hint(x)]

\* One transaction, from the copy: with a value the version after the copy's,
\* without one the copy's own version and hint.
UpdateSecretWithRename(i, row, n, x) ==
    LET next == IF x = 0 THEN row.version ELSE row.version + 1
    IN  /\ history' = IF x = 0 THEN history ELSE [history EXCEPT ![i][next] = Encrypt(x)]
        /\ secret'  = [secret EXCEPT ![i].name = n, ![i].version = next,
                                     ![i].hint = IF x = 0 THEN row.hint ELSE Hint(x)]

\* A version is inserted once, for a secret that is there, and the new name
\* is nobody else's: otherwise the transaction is rolled back.
UpdateFails(i, row, n, x) ==
    \/ x # 0 /\ (secret[i].status = "deleted" \/ GetCiphertext(i, row.version + 1) # NoCipher)
    \/ secret[i].status = "there" /\ GetSecret(n) \ {i} # {}

-----------------------------------------------------------------------------
(* The service's operations                                                *)

EnsureDefaultEnvironments == environments' = Environments

CreateEnvironment(e) ==
    /\ e \notin environments
    /\ environments' = environments \cup {e}
    /\ UNCHANGED <<secret, history, masterKey, request, valuesSet, overlapped>>

\* Listing creates the environments that are missing.
ListSecrets ==
    /\ EnsureDefaultEnvironments
    /\ UNCHANGED <<secret, history, masterKey, request, valuesSet, overlapped>>

Unmade == {i \in SecretIds : secret[i].status = "absent"}
Fresh  == CHOOSE i \in Unmade : TRUE

\* POST: refused when the name is taken.
PostSecret(n) ==
    /\ GetSecret(n) = {} /\ Unmade # {} /\ valuesSet < MaxValues
    /\ CreateSecret(Fresh, n, valuesSet + 1)
    /\ valuesSet' = valuesSet + 1
    /\ UNCHANGED <<environments, masterKey, request, overlapped>>

\* PUT, the name `target' and, unless it is 0, the value x: the row is read ...
SetSecret(r, n, target, x) ==
    LET busy == {i \in GetSecret(n) : \E q \in Requests : request[q].step = "set" /\ request[q].id = i}
    IN  /\ request[r].step = "waiting"
        /\ x \in {0, valuesSet + 1} /\ x <= MaxValues
        /\ valuesSet' = IF x = 0 THEN valuesSet ELSE x
        /\ \/ \E i \in GetSecret(n) : request' = [request EXCEPT ![r] =
                  [Waiting EXCEPT !.step = "set", !.id = i, !.row = secret[i],
                                  !.target = target, !.value = x]]
           \/ GetSecret(n) = {} /\ x # 0 /\ request' = [request EXCEPT ![r] =
                  [Waiting EXCEPT !.step = "set", !.target = target, !.value = x]]
        /\ overlapped' = overlapped \cup busy
        /\ UNCHANGED <<secret, history, environments, masterKey>>

\* ... and the tables are written.
PutSecret(r) ==
    LET q == request[r] IN
    /\ q.step = "set"
    /\ Answers(r)
    /\ \/ /\ q.id = 0 /\ GetSecret(q.target) = {} /\ Unmade # {}
          /\ CreateSecret(Fresh, q.target, q.value)
       \/ /\ q.id # 0 /\ ~UpdateFails(q.id, q.row, q.target, q.value)
          /\ \/ secret[q.id].status = "there"
                /\ UpdateSecretWithRename(q.id, q.row, q.target, q.value)
             \/ secret[q.id].status = "deleted" /\ UNCHANGED <<secret, history>>
       \/ /\ \/ q.id = 0 /\ GetSecret(q.target) # {}
             \/ q.id # 0 /\ UpdateFails(q.id, q.row, q.target, q.value)
          /\ UNCHANGED <<secret, history>>
    /\ UNCHANGED <<environments, masterKey, valuesSet, overlapped>>

\* The versions go with the row.
DeleteSecret(n) ==
    /\ \E i \in GetSecret(n) :
           /\ secret'  = [secret EXCEPT ![i] = [NoSecret EXCEPT !.status = "deleted"]]
           /\ history' = [history EXCEPT ![i] = [v \in Versions |-> NoCipher]]
    /\ UNCHANGED <<environments, masterKey, request, valuesSet, overlapped>>

\* A value is read for a container, or to be shown: the row ...
ReadRow(r, n) ==
    /\ request[r].step = "waiting"
    /\ \E i \in GetSecret(n) : request' = [request EXCEPT ![r] =
           [Waiting EXCEPT !.step = "value", !.id = i, !.row = secret[i],
                           !.promised = Decrypt(GetCiphertext(i, secret[i].version))]]
    /\ UNCHANGED <<secret, history, environments, masterKey, valuesSet, overlapped>>

\* ... then the value of the version the row named, 0 when there is none to give.
InternalAnswer(r) == Decrypt(GetCiphertext(request[r].id, request[r].row.version))

InternalValue(r) ==
    /\ request[r].step = "value"
    /\ Answers(r)
    /\ UNCHANGED <<secret, history, environments, masterKey, valuesSet, overlapped>>

SecretsNext ==
    \/ ListSecrets
    \/ \E e \in Environments : CreateEnvironment(e)
    \/ \E k \in MasterKeys : NewFromEnv(k)
    \/ \E n \in SecretNames : PostSecret(n) \/ DeleteSecret(n)
    \/ \E r \in Requests : PutSecret(r) \/ InternalValue(r)
    \/ \E r \in Requests, n \in SecretNames :
           \/ ReadRow(r, n)
           \/ \E t \in SecretNames, x \in {0, valuesSet + 1} : SetSecret(r, n, t, x)

SecretsSpec == SecretsInit /\ [][SecretsNext]_secretVars

-----------------------------------------------------------------------------
(* Properties                                                              *)

\* Whatever requests overlap, and a rename may take the row back to an older
\* version: the version a secret names is stored, the hint beside it is that
\* version's, and the name is one secret's.  Only requests that wrote it at the
\* same time can do that: otherwise the version it names is the last stored.
SecretIsWhole ==
    \A i \in SecretIds : secret[i].status = "there" =>
        /\ GetCiphertext(i, secret[i].version) # NoCipher
        /\ secret[i].hint = Hint(GetCiphertext(i, secret[i].version).plain)
        /\ GetSecret(secret[i].name) = {i}
        /\ i \notin overlapped =>
               \A v \in Versions : GetCiphertext(i, v) # NoCipher => v <= secret[i].version

\* Who reads a value between two statements gets the one that was current when
\* the row was read, or nothing because the secret is gone: a rotation adds a
\* version and never touches the one being read.
ReadsAreSnapshots ==
    \A r \in Requests : request[r].step = "value" =>
        \/ InternalAnswer(r) = request[r].promised
        \/ InternalAnswer(r) = 0 /\ secret[request[r].id].status = "deleted"
=============================================================================
