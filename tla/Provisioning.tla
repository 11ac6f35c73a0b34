---------------------------- MODULE Provisioning ----------------------------
(***************************************************************************)
(* The database service and the add-on service: what a project asks for is *)
(* made on shared servers, under names derived from the project and the    *)
(* name it is given.                                                       *)
(*                                                                         *)
(* Create makes the resource, stores its URL as a secret and inserts the   *)
(* row that remembers it, in three places; Delete takes the row away and   *)
(* drops the resource.  Nothing ties the three together, the two services  *)
(* use one Postgres and the same names on it, and names are made safe, so  *)
(* that two of them may become one.                                        *)
(***************************************************************************)
EXTENDS Naturals, FiniteSets

CONSTANTS DbNames,    \* the names people give, within one project
          SafeName,   \* [DbNames -> STRING]: sanitize
          Engines,    \* "database" is the database service, the rest are add-ons
          MaxCreates, \* the Create requests of a behaviour
          Deleters,   \* the Delete requests that may be in flight together
          Faults      \* what goes wrong: see the actions

Creates == 1 .. MaxCreates

\* Who serves an engine: MySQL and MariaDB share MYSQL_PROVISION_URL.
ServerOf(e) == CASE e \in {"database", "postgres"} -> "postgres"
                 [] e \in {"mysql", "mariadb"}     -> "mysql"
                 [] OTHER                          -> e

ResourceNames == {SafeName[n] : n \in DbNames}
Resources == {ServerOf(e) : e \in Engines} \X ResourceNames

ASSUME ProvisioningAssumption ==
    /\ MaxCreates \in Nat
    /\ Engines \subseteq {"database", "postgres", "mysql", "mariadb", "rabbitmq", "redis", "custom"}
    /\ Faults \subseteq {"refused", "commit", "secret", "insert", "drop", "crash"}

\* catalog.SecretName and the handlers: the key the URL is stored under.  Most
\* engines have one key for all their instances.
SecretKey(e, n) ==
    CASE e = "database"                         -> <<"DATABASE_URL_NAME", n>>
      [] e \in {"postgres", "mysql", "mariadb"} -> <<"DATABASE_URL", "all">>
      [] e = "rabbitmq"                         -> <<"RABBITMQ_URL", "all">>
      [] e = "redis"                            -> <<"REDIS_URL", "all">>
      [] OTHER                                  -> <<"ENGINE_URL_NAME", SafeName[n]>>

SecretKeys == {SecretKey(e, n) : e \in Engines, n \in DbNames}

VARIABLES
    instance,  \* each Create request, and the row it inserts
    password,  \* by resource: whose password opens it; 0: it does not exist
    url,       \* the secrets: whose URL a key holds, 0 none
    deleter,   \* what each Delete request does next, and to which instance
    catalog,   \* custom engines registered by this run of the add-on service
    alone,     \* the instances nobody else's resource has ever met
    abandoned  \* resources whose row was lost, or that are never dropped

provisionVars == <<instance, password, url, deleter, catalog, alone, abandoned>>

Unasked == [step |-> "unasked", engine |-> "custom", name |-> "none", mode |-> "none"]
Free    == [step |-> "free", id |-> 0]

ProvisioningTypeOK ==
    /\ \A i \in Creates :
           /\ instance[i].step \in {"unasked", "asked", "made", "stored", "conflict",
                                    "ready", "deleted", "over"}
           /\ instance[i].engine \in Engines \cup {"custom"}
           /\ instance[i].mode \in {"none", "shared", "simulate"}
    /\ password \in [Resources -> {0} \cup Creates]
    /\ url \in [SecretKeys -> {0} \cup Creates]
    /\ deleter \in [Deleters -> [step : {"free", "read", "drop"}, id : {0} \cup Creates]]
    /\ catalog \subseteq {"custom"}
    /\ alone \subseteq Creates
    /\ abandoned \subseteq Resources

ProvisioningInit ==
    /\ instance  = [i \in Creates |-> Unasked]
    /\ password  = [r \in Resources |-> 0]
    /\ url       = [k \in SecretKeys |-> 0]
    /\ deleter   = [d \in Deleters |-> Free]
    /\ catalog   = {}
    /\ alone     = {}
    /\ abandoned = {}

Goes(i, step) == instance' = [instance EXCEPT ![i].step = step]

\* The schema and role, the database and user, or the vhost and user.
ResourceOf(i) == <<ServerOf(instance[i].engine), SafeName[instance[i].name]>>

\* Engines that have something of their own on a server.
HasResource(i) == instance[i].engine \notin {"custom", "redis"}

\* Those whose resource is, or may yet be, in use.
UsesResource(i) == /\ instance[i].step \in {"made", "stored", "conflict", "ready", "deleted"}
                   /\ HasResource(i)

-----------------------------------------------------------------------------
(* The provisioners                                                        *)

\* Postgres, of either service: role and schema in one transaction, each IF
\* NOT EXISTS, so that a role that is there keeps its password.
SharedPostgres(i, r) == password' = [password EXCEPT ![r] = IF @ = 0 THEN i ELSE @]

\* MySQL and MariaDB: CREATE USER IF NOT EXISTS.
SharedMySQL(i, r) == password' = [password EXCEPT ![r] = IF @ = 0 THEN i ELSE @]

\* RabbitMQ: PUT of the vhost, then of the user, whose password is replaced.
SharedRabbit(i, r) == password' = [password EXCEPT ![r] = i]

CreateShared(i, r) ==
    CASE r[1] = "postgres" -> SharedPostgres(i, r)
      [] r[1] = "mysql"    -> SharedMySQL(i, r)
      [] OTHER             -> SharedRabbit(i, r)

\* The add-on service's way out when a server refuses: for Postgres it tries
\* the same statements again one by one, and gives the role its password; for
\* the others the calls that got through before have done what they did.
CreateSimulate(i, r) ==
    \/ UNCHANGED password
    \/ /\ instance[i].engine \in {"postgres", "rabbitmq"}
       /\ password' = [password EXCEPT ![r] = i]

\* Whose work meets somebody else's on a server.
Meets(i) ==
    LET others == {j \in Creates \ {i} : UsesResource(j) /\ ResourceOf(j) = ResourceOf(i)}
        dropping == {d \in Deleters : /\ deleter[d].step = "drop"
                                      /\ ResourceOf(deleter[d].id) = ResourceOf(i)}
    IN  alone' = IF others = {} /\ dropping = {} /\ password[ResourceOf(i)] = 0
                 THEN alone \cup {i} ELSE alone \ others

\* DROP ... IF EXISTS, by name.  MariaDB, Redis and the rest have no case.
Drops(e) == e \in {"database", "postgres", "mysql", "rabbitmq"}

\* Mutant: what was simulated is taken to be nowhere.
DropShared(i) ==
    IF Drops(instance[i].engine) /\ instance[i].mode = "shared"
    THEN password' = [password EXCEPT ![ResourceOf(i)] = 0] /\ UNCHANGED abandoned
    ELSE UNCHANGED <<password, abandoned>>

Drop(i) ==
    CASE Drops(instance[i].engine) ->
             \/ password' = [password EXCEPT ![ResourceOf(i)] = 0] /\ UNCHANGED abandoned
             \/ /\ "drop" \in Faults
                /\ abandoned' = abandoned \cup {ResourceOf(i)} /\ UNCHANGED password
      [] HasResource(i) /\ ~Drops(instance[i].engine) ->
             abandoned' = abandoned \cup {ResourceOf(i)} /\ UNCHANGED password
      [] OTHER -> UNCHANGED <<password, abandoned>>

-----------------------------------------------------------------------------
(* Create                                                                  *)

\* An engine the catalog does not know becomes a custom one.
AskInstance(i, e, n) ==
    /\ instance[i] = Unasked
    /\ \A j \in Creates : j < i => instance[j] # Unasked
    /\ instance' = [instance EXCEPT ![i] = [step |-> "asked", engine |-> e,
                                            name |-> n, mode |-> "none"]]
    /\ catalog' = IF e = "custom" THEN catalog \cup {e} ELSE catalog
    /\ UNCHANGED <<password, url, deleter, alone, abandoned>>

\* Mutant: a refusal is not noticed.
MakeUnchecked(i) ==
    /\ instance[i].step = "asked"
    /\ HasResource(i)
    /\ Meets(i)
    /\ instance' = [instance EXCEPT ![i].step = "made", ![i].mode = "shared"]
    /\ CreateShared(i, ResourceOf(i)) \/ ("refused" \in Faults /\ UNCHANGED password)
    /\ UNCHANGED <<url, deleter, catalog, abandoned>>

\* On the shared server.
MakeShared(i) ==
    /\ instance[i].step = "asked"
    /\ HasResource(i)
    /\ Meets(i)
    /\ instance' = [instance EXCEPT ![i].step = "made", ![i].mode = "shared"]
    /\ CreateShared(i, ResourceOf(i))
    /\ UNCHANGED <<url, deleter, catalog, abandoned>>

\* Refused, or an engine without a server: the URL is only made up, and a
\* custom one names a port that is free now and that nobody takes.
MakeSimulated(i) ==
    /\ instance[i].step = "asked"
    /\ instance' = [instance EXCEPT ![i].step = "made", ![i].mode = "simulate"]
    /\ \/ /\ "refused" \in Faults /\ HasResource(i) /\ Meets(i)
          /\ instance[i].engine # "database" => CreateSimulate(i, ResourceOf(i))
          /\ instance[i].engine = "database" => UNCHANGED password
       \/ ~HasResource(i) /\ UNCHANGED <<password, alone>>
    /\ UNCHANGED <<url, deleter, catalog, abandoned>>

\* The answer to COMMIT is lost: the database service gives up, whether or not
\* the transaction is there.
MakeUncommitted(i) ==
    /\ "commit" \in Faults
    /\ instance[i].step = "asked" /\ instance[i].engine = "database"
    /\ Goes(i, "over")
    /\ Meets(i)
    /\ \/ UNCHANGED <<password, abandoned>>
       \/ SharedPostgres(i, ResourceOf(i)) /\ abandoned' = abandoned \cup {ResourceOf(i)}
    /\ UNCHANGED <<url, deleter, catalog>>

\* PUT to the secret service; its failure is not looked at.
StoreSecret(i) ==
    LET k == SecretKey(instance[i].engine, instance[i].name) IN
    /\ instance[i].step = "made"
    /\ Goes(i, "stored")
    /\ \/ url' = [url EXCEPT ![k] = i]
       \/ "secret" \in Faults /\ UNCHANGED url
    /\ UNCHANGED <<password, deleter, catalog, alone, abandoned>>

Conflicts(i) == \E j \in Creates \ {i} : /\ instance[j].step = "ready"
                                         /\ instance[j].engine = instance[i].engine
                                         /\ instance[j].name = instance[i].name

\* The row.  A name that is taken makes the handler drop what it made; any
\* other failure leaves it.
InsertInstance(i) ==
    /\ instance[i].step = "stored"
    /\ \/ Conflicts(i) /\ Goes(i, "conflict") /\ UNCHANGED abandoned
       \/ ~Conflicts(i) /\ Goes(i, "ready") /\ UNCHANGED abandoned
       \/ /\ "insert" \in Faults /\ Goes(i, "over")
          /\ abandoned' = IF HasResource(i) THEN abandoned \cup {ResourceOf(i)} ELSE abandoned
    /\ UNCHANGED <<password, url, deleter, catalog, alone>>

\* 409, after the Drop: of the resource of this name, whoever made it.
RefuseConflict(i) ==
    /\ instance[i].step = "conflict"
    /\ Goes(i, "over")
    /\ Drop(i)
    /\ UNCHANGED <<url, deleter, catalog, alone>>

-----------------------------------------------------------------------------
(* Delete, crashes                                                         *)

\* Store.Delete reads the row ...
AskDelete(d, i) ==
    /\ deleter[d] = Free
    /\ instance[i].step = "ready"
    /\ deleter' = [deleter EXCEPT ![d] = [step |-> "read", id |-> i]]
    /\ UNCHANGED <<instance, password, url, catalog, alone, abandoned>>

\* ... deletes it, whether or not another request has done so ...
DeleteRow(d) ==
    /\ deleter[d].step = "read"
    /\ deleter' = [deleter EXCEPT ![d].step = "drop"]
    /\ Goes(deleter[d].id, "deleted")
    /\ UNCHANGED <<password, url, catalog, alone, abandoned>>

\* ... and the handler drops the resource; the secret stays.
DropInstance(d) ==
    LET i == deleter[d].id
        last == \A x \in Deleters \ {d} : deleter[x].id # i
    IN  /\ deleter[d].step = "drop"
        /\ deleter' = [deleter EXCEPT ![d] = Free]
        /\ Drop(i)
        /\ IF last THEN Goes(i, "over") ELSE UNCHANGED instance
        /\ UNCHANGED <<url, catalog, alone>>

\* A service dies: its requests with it, and the custom engines.
CrashProvisioning ==
    LET lost == {i \in Creates : instance[i].step \in {"asked", "made", "stored", "conflict"}}
        held == {i \in lost : UsesResource(i)}
                    \cup {i \in Creates : instance[i].step = "deleted" /\ HasResource(i)}
    IN  /\ "crash" \in Faults
        /\ instance' = [i \in Creates |-> IF i \in lost \/ instance[i].step = "deleted"
                                          THEN [instance[i] EXCEPT !.step = "over"] ELSE instance[i]]
        /\ deleter' = [d \in Deleters |-> Free]
        /\ catalog' = {}
        /\ abandoned' = abandoned \cup {ResourceOf(i) : i \in held}
        /\ instance' # instance
        /\ UNCHANGED <<password, url, alone>>

ProvisioningNext ==
    \/ \E i \in Creates, e \in Engines, n \in DbNames : AskInstance(i, e, n)
    \/ \E i \in Creates : \/ MakeShared(i) \/ MakeSimulated(i) \/ MakeUncommitted(i)
                          \/ StoreSecret(i) \/ InsertInstance(i) \/ RefuseConflict(i)
    \/ \E d \in Deleters : \/ DeleteRow(d) \/ DropInstance(d)
                           \/ \E i \in Creates : AskDelete(d, i)
    \/ CrashProvisioning

ProvisioningSpec == ProvisioningInit /\ [][ProvisioningNext]_provisionVars

-----------------------------------------------------------------------------
(* Properties                                                              *)

\* What is reported ready on a shared server is there and opens with the
\* password of its URL, when no other request has ever had to do with a
\* resource of that name: no failure of a step in between changes that.
UncontestedWorks ==
    \A i \in alone : instance[i].step = "ready" /\ instance[i].mode = "shared" =>
        password[ResourceOf(i)] = i

\* A resource is somebody's: a row's, a request's that is still at work, or it
\* is one of those a failure has abandoned.
NothingLeftBehind ==
    \A r \in Resources : password[r] # 0 =>
        r \in abandoned \/ \E i \in Creates : UsesResource(i) /\ ResourceOf(i) = r

\* What provisioner.go says of the shared Postgres: "Schema-per-db isolation".
\* Not so: two names, or the two services, get one schema and one role.
SchemaPerDatabase ==
    LET served == {i \in Creates : /\ instance[i].step = "ready"
                                   /\ instance[i].mode = "shared"
                                   /\ HasResource(i)}
    IN  \A i, j \in served : i # j => ResourceOf(i) # ResourceOf(j)
=============================================================================
