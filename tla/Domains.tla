------------------------------- MODULE Domains ------------------------------
(***************************************************************************)
(* The domain service and the certificate service.                         *)
(*                                                                         *)
(* A domain is a row, a Traefik file that routes its hostname, and a       *)
(* certificate row of the other service.  Verifying one asks DNS, writes   *)
(* the file, asks for the certificate and updates the row, from a copy     *)
(* read at the start; deleting one removes the file and then the row; a    *)
(* preview replaces whatever domain has its hostname.  The certificate     *)
(* service renews in two updates from a list it has read.                  *)
(***************************************************************************)
EXTENDS Naturals, FiniteSets

CONSTANTS Hosts,        \* hostnames
          Bare,         \* those without a dot, which get ROOT_DOMAIN appended
          Sanitize,     \* [Hosts -> STRING]: dots become dashes
          Previews,     \* ids of preview deployments
          MaxDomains,   \* the domain rows of a behaviour
          MaxCerts,     \* its certificates
          Callers,      \* the requests that may be in flight together
          SimulateACME, \* whether certificates are issued at once
          DomainFaults  \* what goes wrong: see the actions

DomainIds == 1 .. MaxDomains
CertIds   == 1 .. MaxCerts
NoPreview == "no preview"
NoHost    == "no host"

ASSUME DomainsAssumption ==
    /\ Bare \subseteq Hosts
    /\ MaxDomains \in Nat /\ MaxCerts \in Nat
    /\ SimulateACME \in BOOLEAN
    /\ NoPreview \notin Previews /\ NoHost \notin Hosts
    /\ DomainFaults \subseteq {"file", "certificate", "row", "crash"}

VARIABLES
    domain,  \* table domains
    routed,  \* the Traefik files there are
    cert,    \* table certificates
    caller,  \* what each request does next, with what it has read
    renewed, \* certificates renewed since they last came near their end
    tangled  \* hostnames two requests were busy with, or a fault hit

domainVars == <<domain, routed, cert, caller, renewed, tangled>>

NoDomain == [status |-> "absent", host |-> NoHost, preview |-> NoPreview, file |-> FALSE, cert |-> 0]
NoCert   == [status |-> "absent", ends |-> "never"]
Silent   == [step |-> "silent", host |-> NoHost, id |-> 0, copy |-> NoDomain, certs |-> {},
             ends |-> "never"]

DomainRows == [status : {"absent", "pending", "verified", "active", "deleted"},
               host : Hosts \cup {NoHost}, preview : Previews \cup {NoPreview},
               file : BOOLEAN, cert : {0} \cup CertIds]

DomainsTypeOK ==
    /\ domain \in [DomainIds -> DomainRows]
    /\ routed \subseteq {Sanitize[h] : h \in Hosts} \X {"host", "root"}
    /\ cert \in [CertIds -> [status : {"absent", "pending", "issued", "renewing"},
                             ends : {"never", "soon", "later"}]]
    /\ \A c \in Callers :
           /\ caller[c].step \in {"silent", "route", "certify", "issue", "update", "remove",
                                  "take", "insert", "serve", "renew", "renewed"}
           /\ caller[c].copy \in DomainRows
           /\ caller[c].certs \subseteq CertIds
           /\ caller[c].ends \in {"never", "soon", "later"}
    /\ renewed \subseteq CertIds
    /\ tangled \subseteq Hosts

DomainsInit ==
    /\ domain  = [d \in DomainIds |-> NoDomain]
    /\ routed  = {}
    /\ cert    = [c \in CertIds |-> NoCert]
    /\ caller  = [c \in Callers |-> Silent]
    /\ renewed = {}
    /\ tangled = {}

There(d)         == domain[d].status \notin {"absent", "deleted"}
FindByHostname(h) == {d \in DomainIds : There(d) /\ domain[d].host = h}
FindByDeployment(p) == {d \in DomainIds : There(d) /\ domain[d].preview = p}
NewDomain == {d \in DomainIds : domain[d].status = "absent"}
NewCert   == {c \in CertIds : cert[c].status = "absent"}
Lowest(S) == CHOOSE x \in S : \A y \in S : x <= y

\* Verify writes the file of the full name; every removal, and a preview, goes
\* by the hostname of the row.
VerifiedFile(h) == <<Sanitize[h], IF h \in Bare THEN "root" ELSE "host">>
HostFile(h)     == <<Sanitize[h], "host">>

Busy(h)    == \E c \in Callers : caller[c].host = h
Tangles(H) == tangled' = tangled \cup H
Begins(c, h, step, d) ==
    /\ caller[c] = Silent
    /\ caller' = [caller EXCEPT ![c] = [Silent EXCEPT !.step = step, !.host = h, !.id = d,
                                                      !.copy = domain[d]]]
    /\ Tangles(IF Busy(h) THEN {h} ELSE {})
Proceeds(c, step) == caller' = [caller EXCEPT ![c].step = step]
Ends(c)           == caller' = [caller EXCEPT ![c] = Silent]

-----------------------------------------------------------------------------
(* Domains                                                                 *)

\* The hostname is unique.
CreateDomain(h) ==
    /\ FindByHostname(h) = {} /\ NewDomain # {}
    /\ domain' = [domain EXCEPT ![Lowest(NewDomain)] =
                      [NoDomain EXCEPT !.status = "pending", !.host = h]]
    /\ Tangles(IF Busy(h) THEN {h} ELSE {})
    /\ UNCHANGED <<routed, cert, caller, renewed>>

\* Verify: the row is read, and DNS agrees ...
Verify(c, d) ==
    /\ There(d)
    /\ Begins(c, domain[d].host, "route", d)
    /\ UNCHANGED <<domain, routed, cert, renewed>>

\* ... the file is written, and an error only leaves it unnamed ...
WriteRoute(c) ==
    /\ caller[c].step = "route"
    /\ \/ /\ routed' = routed \cup {VerifiedFile(caller[c].host)}
          /\ caller' = [caller EXCEPT ![c].step = "certify", ![c].copy.file = TRUE,
                                      ![c].copy.status = "verified"]
       \/ /\ "file" \in DomainFaults
          /\ caller' = [caller EXCEPT ![c].step = "certify", ![c].copy.status = "verified"]
          /\ UNCHANGED routed
    /\ UNCHANGED <<domain, cert, renewed, tangled>>

\* ... a certificate is asked for: each Verify creates one ...
RequestCert(c) ==
    /\ caller[c].step = "certify"
    /\ \/ /\ NewCert # {}
          /\ cert' = [cert EXCEPT ![Lowest(NewCert)] = [status |-> "pending", ends |-> "never"]]
          /\ caller' = [caller EXCEPT ![c].step = IF SimulateACME THEN "issue" ELSE "update",
                                      ![c].copy.cert = Lowest(NewCert),
                                      ![c].copy.status = "active"]
       \/ "certificate" \in DomainFaults /\ Proceeds(c, "update") /\ UNCHANGED cert
    /\ UNCHANGED <<domain, routed, renewed, tangled>>

\* ... in simulation it is issued by a second statement, whose error is
\* ignored ...
IssueCert(c) ==
    LET k == caller[c].copy.cert IN
    /\ caller[c].step = "issue"
    /\ Proceeds(c, "update")
    /\ \/ cert' = [cert EXCEPT ![k] = [status |-> "issued", ends |-> "later"]]
       \/ "row" \in DomainFaults /\ UNCHANGED cert
    /\ UNCHANGED <<domain, routed, renewed, tangled>>

\* ... and the row, if it is still there, becomes the copy; errors are ignored.
UpdateDomain(c) ==
    LET d == caller[c].id IN
    /\ caller[c].step = "update"
    /\ Ends(c)
    /\ \/ /\ domain' = IF There(d) THEN [domain EXCEPT ![d] = caller[c].copy] ELSE domain
          /\ UNCHANGED tangled
       \/ "row" \in DomainFaults /\ Tangles({caller[c].host}) /\ UNCHANGED domain
    /\ UNCHANGED <<routed, cert, renewed>>

\* Delete: the file, whose error is ignored, and then the row.
RemoveRoute(c, d) ==
    /\ There(d)
    /\ caller[c] = Silent
    /\ caller' = [caller EXCEPT ![c] = [Silent EXCEPT !.step = "remove", !.host = domain[d].host,
                                                      !.id = d]]
    /\ \/ /\ routed' = routed \ {HostFile(domain[d].host)}
          /\ Tangles(IF Busy(domain[d].host) THEN {domain[d].host} ELSE {})
       \/ "file" \in DomainFaults /\ Tangles({domain[d].host}) /\ UNCHANGED routed
    /\ UNCHANGED <<domain, cert, renewed>>

DeleteDomain(c) ==
    LET d == caller[c].id IN
    /\ caller[c].step = "remove"
    /\ Ends(c)
    /\ domain' = [domain EXCEPT ![d] = [NoDomain EXCEPT !.status = "deleted"]]
    /\ UNCHANGED <<routed, cert, renewed, tangled>>

-----------------------------------------------------------------------------
(* Previews                                                                *)

\* Mutant: only the rows go.
DropRowsOnly(D) ==
    /\ domain' = [d \in DomainIds |-> IF d \in D THEN [NoDomain EXCEPT !.status = "deleted"]
                                      ELSE domain[d]]
    /\ UNCHANGED routed

\* The files and the rows of domains that something takes away.
DropDomains(D) ==
    /\ routed' = routed \ {HostFile(domain[d].host) : d \in D}
    /\ domain' = [d \in DomainIds |-> IF d \in D THEN [NoDomain EXCEPT !.status = "deleted"]
                                      ELSE domain[d]]

\* Tangled: the hostnames of D others are busy with.
Meddles(D) == {h \in {domain[d].host : d \in D} : Busy(h)}

\* InternalPreviewProvision: what the deployment had ...
ProvisionPreview(c, h, p) ==
    LET D == FindByDeployment(p) IN
    /\ caller[c] = Silent
    /\ caller' = [caller EXCEPT ![c] = [Silent EXCEPT !.step = "take", !.host = h,
                     !.copy = [status |-> "active", host |-> h, preview |-> p,
                               file |-> FALSE, cert |-> 0]]]
    /\ DropDomains(D)
    /\ Tangles(Meddles(D) \cup (IF Busy(h) THEN {h} ELSE {}))
    /\ UNCHANGED <<cert, renewed>>

\* ... and whatever has the hostname go, anybody's verified domain included ...
TakeHostname(c) ==
    LET h == caller[c].host IN
    /\ caller[c].step = "take"
    /\ Proceeds(c, "insert")
    /\ DropDomains(FindByHostname(h))
    /\ UNCHANGED <<cert, renewed, tangled>>

\* ... the row is inserted, unless another request was faster ...
InsertPreview(c) ==
    /\ caller[c].step = "insert"
    /\ \/ /\ FindByHostname(caller[c].host) = {} /\ NewDomain # {}
          /\ domain' = [domain EXCEPT ![Lowest(NewDomain)] = caller[c].copy]
          /\ caller' = [caller EXCEPT ![c].step = "serve", ![c].id = Lowest(NewDomain)]
       \/ FindByHostname(caller[c].host) # {} /\ Ends(c) /\ UNCHANGED domain
    /\ UNCHANGED <<routed, cert, renewed, tangled>>

\* ... and the file is written, and named in the row.
ServePreview(c) ==
    LET d == caller[c].id IN
    /\ caller[c].step = "serve"
    /\ Ends(c)
    /\ \/ /\ routed' = routed \cup {HostFile(caller[c].host)}
          /\ domain' = IF There(d) THEN [domain EXCEPT ![d].file = TRUE] ELSE domain
       \/ "file" \in DomainFaults /\ UNCHANGED <<domain, routed>>
    /\ UNCHANGED <<cert, renewed, tangled>>

\* The teardown of a preview.
DeleteByDeployment(p) ==
    /\ FindByDeployment(p) # {}
    /\ DropDomains(FindByDeployment(p))
    /\ Tangles(Meddles(FindByDeployment(p)))
    /\ UNCHANGED <<cert, caller, renewed>>

-----------------------------------------------------------------------------
(* Certificates                                                            *)

\* Time passes.
NearsEnd(k) ==
    /\ cert[k].ends = "later"
    /\ cert' = [cert EXCEPT ![k].ends = "soon"]
    /\ renewed' = renewed \ {k}
    /\ UNCHANGED <<domain, routed, caller, tangled>>

ListExpiring == {k \in CertIds : cert[k].status \in {"issued", "renewing"} /\ cert[k].ends = "soon"}

\* The hourly scan, or one certificate on request: copies are read ...
RenewScan(c) ==
    /\ caller[c] = Silent /\ ListExpiring # {}
    /\ caller' = [caller EXCEPT ![c] = [Silent EXCEPT !.step = "renew", !.certs = ListExpiring,
                                                      !.ends = "soon"]]
    /\ UNCHANGED <<domain, routed, cert, renewed, tangled>>

Renew(c, k) ==
    /\ caller[c] = Silent /\ cert[k].status # "absent"
    /\ caller' = [caller EXCEPT ![c] = [Silent EXCEPT !.step = "renew", !.certs = {k},
                                                      !.ends = cert[k].ends]]
    /\ UNCHANGED <<domain, routed, cert, renewed, tangled>>

\* Mutant: the first update already calls it issued.
MarkIssued(c) ==
    LET k == Lowest(caller[c].certs) IN
    /\ caller[c].step = "renew"
    /\ Proceeds(c, "renewed")
    /\ cert' = [cert EXCEPT ![k] = [status |-> "issued", ends |-> caller[c].ends]]
    /\ UNCHANGED <<domain, routed, renewed, tangled>>

\* ... each is marked, with the end it had when it was read (one that was
\* renewed by others in the meantime gets its old end back) ...
MarkRenewing(c) ==
    LET k == Lowest(caller[c].certs) IN
    /\ caller[c].step = "renew"
    /\ Proceeds(c, "renewed")
    /\ cert' = [cert EXCEPT ![k] = [status |-> "renewing", ends |-> caller[c].ends]]
    /\ UNCHANGED <<domain, routed, renewed, tangled>>

\* ... and given 90 days.
ApplyRenew(c) ==
    LET k == Lowest(caller[c].certs)  rest == caller[c].certs \ {k} IN
    /\ caller[c].step = "renewed"
    /\ \/ /\ cert' = [cert EXCEPT ![k] = [status |-> "issued", ends |-> "later"]]
          /\ renewed' = renewed \cup {k}
       \/ "row" \in DomainFaults /\ UNCHANGED <<cert, renewed>>
    /\ caller' = IF rest = {} THEN [caller EXCEPT ![c] = Silent]
                 ELSE [caller EXCEPT ![c].step = "renew", ![c].certs = rest]
    /\ UNCHANGED <<domain, routed, tangled>>

-----------------------------------------------------------------------------

\* A service dies, its requests with it.
CrashDomains ==
    /\ "crash" \in DomainFaults
    /\ \E c \in Callers : caller[c] # Silent
    /\ Tangles({caller[c].host : c \in {x \in Callers : caller[x].host # NoHost}})
    /\ caller' = [c \in Callers |-> Silent]
    /\ UNCHANGED <<domain, routed, cert, renewed>>

DomainsNext ==
    \/ \E h \in Hosts : CreateDomain(h)
    \/ \E p \in Previews : DeleteByDeployment(p)
    \/ \E k \in CertIds : NearsEnd(k)
    \/ \E c \in Callers :
           \/ WriteRoute(c) \/ RequestCert(c) \/ IssueCert(c) \/ UpdateDomain(c) \/ DeleteDomain(c)
           \/ TakeHostname(c) \/ InsertPreview(c) \/ ServePreview(c)
           \/ MarkRenewing(c) \/ ApplyRenew(c) \/ RenewScan(c)
           \/ \E k \in CertIds : Renew(c, k)
           \/ \E d \in DomainIds : Verify(c, d) \/ RemoveRoute(c, d)
           \/ \E h \in Hosts, p \in Previews : ProvisionPreview(c, h, p)
    \/ CrashDomains

DomainsSpec == DomainsInit /\ [][DomainsNext]_domainVars

-----------------------------------------------------------------------------
(* Properties                                                              *)

\* A hostname is routed exactly when a row says so, whatever was created,
\* verified, previewed and deleted before, unless requests on the hostname
\* have overlapped or a failure fell between the file and the row.  (A name
\* without a dot is another matter: Delete removes a file Verify never wrote.)
RoutesMatchDomains ==
    \A h \in Hosts \ (Bare \cup tangled) :
        ~Busy(h) => (HostFile(h) \in routed) = (\E d \in FindByHostname(h) : domain[d].file)

\* A certificate that is called issued has the end its last renewal gave it:
\* a renewal that works on an old copy says "renewing" first, and what says so
\* is found again by the next scan.
RenewalIsKept ==
    \A k \in renewed : \/ cert[k].ends = "later"
                        \/ cert[k].status = "renewing"
=============================================================================
