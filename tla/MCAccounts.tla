----------------------------- MODULE MCAccounts -----------------------------
(***************************************************************************)
(* The components that keep a tenant's people, rights and secrets, checked *)
(* together.  They share no state, so a behaviour is of one of them, the   *)
(* one in focus, while the others keep their initial state: their states   *)
(* add up and do not multiply.                                             *)
(***************************************************************************)
EXTENDS Sessions, SignIn, Tenancy, SecretVersions, TLC

VARIABLE focus \* the component whose behaviour this is

\* A manifest with nothing, one whose runtime is not in the list, and one
\* whose deploy part is out of its bounds.
MCManifests ==
    {[runtime |-> "go", deploy |-> NoDeploy],
     [runtime |-> "node22", deploy |-> [replicas |-> 0, port |-> 0, strategy |-> "unset"]],
     [runtime |-> "go", deploy |-> [replicas |-> 11, port |-> 1, strategy |-> "blue_green"]]}

\* The requests of every component are the same two model values.
MCSymmetry == Permutations(Requests)

AccountsInit ==
    /\ focus \in {"sessions", "sign-in", "tenancy", "secrets"}
    /\ SessionsInit /\ (focus # "sessions" => failing = "redis")
    /\ SignInInit
    /\ TenancyInit
    /\ SecretsInit /\ (focus # "secrets" => masterKey = "set")

AccountsNext ==
    \/ /\ focus = "sessions" /\ SessionsNext
       /\ UNCHANGED <<focus, signInVars, tenancyVars, secretVars>>
    \/ /\ focus = "sign-in" /\ SignInNext
       /\ UNCHANGED <<focus, sessionVars, tenancyVars, secretVars>>
    \/ /\ focus = "tenancy" /\ TenancyNext
       /\ UNCHANGED <<focus, sessionVars, signInVars, secretVars>>
    \/ /\ focus = "secrets" /\ SecretsNext
       /\ UNCHANGED <<focus, sessionVars, signInVars, tenancyVars>>

AccountsSpec ==
    AccountsInit
    /\ [][AccountsNext]_<<focus, sessionVars, signInVars, tenancyVars, secretVars>>

\* Every variable of the component in focus keeps its type.
AccountsTypesOK ==
    /\ focus = "sessions" => SessionsTypeOK
    /\ focus = "sign-in"  => SignInTypeOK
    /\ focus = "tenancy"  => TenancyTypeOK
    /\ focus = "secrets"  => SecretsTypeOK
=============================================================================
