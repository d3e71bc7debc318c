----------------------------- MODULE Readiness -----------------------------
(***************************************************************************)
(* The life of an enterprise in the pool: the services restart with new    *)
(* registries one after the other, the Proxy checks its stored enterprises *)
(* (enterpriseRepo.ts), compares its profile with what SSO and Login       *)
(* report (enterpriseReadiness.ts), lets an administrator activate and     *)
(* drain (enterprisesApi.ts, updateEnterprisePolicy) and creates members   *)
(* only where the comparison succeeded (eligibleEnterprises of the         *)
(* provisioner and the worker).                                            *)
(***************************************************************************)
EXTENDS EnterpriseRegistry

CONSTANTS RegistryFiles,   \* the registry files of the deployment
          ServiceEnv,      \* service -> its environment
          Changes,         \* the activations that administrators ask for
          ReadyTtl,        \* how long a ready result is reused
          NotReadyTtl,     \* how long any other result is reused
          MaxReloads, MaxWrites, MaxStock,  \* bounds
          Nothing          \* no snapshot, no refresh, no request

\* Whatever a file or an environment says is a text with a normal form.
ASSUME ReadinessAssumption ==
    /\ \A file \in RegistryFiles : \A entry \in file.entries :
         \A path \in DOMAIN entry.fields \ {"cap"} : entry.fields[path] \in Texts
    /\ \A s \in Services : \A path \in DOMAIN ServiceEnv[s] \ {"cap"} : ServiceEnv[s][path] \in Texts

VARIABLES loaded,     \* service -> its profiles; Refused while it is down
          table,      \* proxy_enterprises: id -> [state, cap, stock, version, print], and born,
                      \* the fingerprints the members were created with
          snapshot,   \* the comparison this replica remembers: [age, ready]
          refresh,    \* the comparison in progress: peer -> [at, rows]; at is "pending", "read" or "failed"
          change,     \* per activation: [at, id, expected, found]; found: its enterprise was found ready since it began
          eligible,   \* the enterprises of this tick: those known to be ready, those that wait
          compared,   \* what this Proxy has found ready since it started
          reloads     \* how often a file or a process changed

readinessVars ==
    <<loaded, table, snapshot, refresh, change, eligible, compared, reloads>>

\* The bounds on policy writes and on members, over all enterprises.
WritesLeft == MapThenSumSet(LAMBDA id : table[id].version - 1, DOMAIN table) < MaxWrites
StockLeft == MapThenSumSet(LAMBDA id : table[id].stock, DOMAIN table) < MaxStock

Peers == {"sso", "login"}
ProfileOf(service, id) == ProfileIn(loaded[service], id)
Registered(service) == {p.id : p \in loaded[service]}
ProxyUp == loaded["proxy"] # Refused
NoChange == [at |-> "idle", id |-> DefaultId, expected |-> 0, found |-> FALSE]

---------------------------------------------------------------------------
(* Starting a service. *)

\* profileFingerprint: the identity of the members an enterprise has.
Fingerprint(p) == <<p.id, p.baseUrl, p.shortcode, p.domain>>

NewRow(p) == [state |-> IF p.id = DefaultId THEN "active" ELSE "draft", cap |-> p.cap, stock |-> 0,
              version |-> 1, print |-> Fingerprint(p), born |-> {}]

\* ensureEnterprise: the caps of all enterprises stay within the catalog of names.
WithNewRows(profiles) ==
    [id \in DOMAIN table \cup {p.id : p \in profiles} |->
        IF id \in DOMAIN table THEN table[id] ELSE NewRow(ProfileIn(profiles, id))]

CapsFit(rows) == SumFunction([id \in DOMAIN rows |-> rows[id].cap]) <= CatalogNames

\* verifyEnterpriseIdentity: the identity may follow the configuration only while there are no members.
IdentityKept(row, p) == row.print = Fingerprint(p) \/ row.stock = 0

\* syncRegistryEnterprises: also refuses when an enterprise with members left the registry.
SyncAccepted(profiles) ==
    /\ CapsFit(WithNewRows(profiles))
    /\ \A p \in profiles : p.id \in DOMAIN table => IdentityKept(table[p.id], p)
    /\ \A id \in DOMAIN table : table[id].stock > 0 => \E p \in profiles : p.id = id

Synced(profiles) ==
    [id \in DOMAIN WithNewRows(profiles) |->
        IF \E p \in profiles : p.id = id
        THEN [WithNewRows(profiles)[id] EXCEPT !.print = Fingerprint(ProfileIn(profiles, id))]
        ELSE WithNewRows(profiles)[id]]

\* The first deployment: the services start with the same file and the table is empty.
ReadinessInit ==
    /\ \E file \in RegistryFiles : loaded = [s \in Services |-> LoadRegistry(s, ServiceEnv[s], file)]
    /\ table = [id \in {p.id : p \in loaded["proxy"]} |-> NewRow(ProfileOf("proxy", id))]
    /\ snapshot = Nothing /\ refresh = Nothing
    /\ change = [c \in Changes |-> NoChange]
    /\ eligible = Nothing /\ compared = {} /\ reloads = 0

\* A restart of the Proxy forgets the comparison and every request; a refused start leaves the table alone.
StartProxy(file) ==
    LET profiles == LoadRegistry("proxy", ServiceEnv["proxy"], file)
    IN  /\ IF profiles # Refused /\ SyncAccepted(profiles)
           THEN loaded' = [loaded EXCEPT !["proxy"] = profiles] /\ table' = Synced(profiles)
           ELSE loaded' = [loaded EXCEPT !["proxy"] = Refused] /\ UNCHANGED table
        /\ snapshot' = Nothing /\ refresh' = Nothing /\ eligible' = Nothing
        /\ change' = [c \in Changes |-> NoChange] /\ compared' = {}

StartPeer(peer, file) ==
    /\ loaded' = [loaded EXCEPT ![peer] = LoadRegistry(peer, ServiceEnv[peer], file)]
    /\ UNCHANGED <<table, snapshot, refresh, change, eligible, compared>>

\* A service restarts with the file of that moment.
Restart ==
    /\ reloads < MaxReloads /\ reloads' = reloads + 1
    /\ \E file \in RegistryFiles :
         StartProxy(file) \/ \E peer \in Peers : StartPeer(peer, file)

---------------------------------------------------------------------------
(* The comparison. *)

\* GET /internal/enterprises; Login does not know the shortcode.
ListingRow(peer, p) ==
    [id |-> p.id, baseUrl |-> p.baseUrl, slug |-> p.slug, shortcode |-> IF peer = "sso" THEN p.shortcode ELSE Unset]

\* The rows of what the peer calls configured: the others block an enterprise just as a missing row does.
Listing(peer) == {ListingRow(peer, p) : p \in {q \in loaded[peer] : q.blockers = {}}}

StartRefresh ==
    refresh' = IF refresh = Nothing THEN [peer \in Peers |-> [at |-> "pending", rows |-> {}]] ELSE refresh

\* readPeer: a listing is trusted whole or not at all.  Without rows: the peer is down or late, the body is not
\* the expected one, or SSO cannot read its secrets.
PeerAnswers(peer) ==
    /\ refresh # Nothing /\ refresh[peer].at = "pending"
    /\ \E rows \in {Listing(peer), {}} : refresh' = [refresh EXCEPT ![peer] = [at |-> "read", rows |-> rows]]
    /\ UNCHANGED <<loaded, table, snapshot, change, eligible, compared, reloads>>

PeerRow(listing, id) == {row \in listing.rows : row.id = id}

\* peerBlockers.
PeerAgrees(listing, p) == \E row \in PeerRow(listing, p.id) : row.baseUrl = p.baseUrl

\* crossBlockers: the shortcode is shared with SSO, the slug by SSO and Login when Login has one.
CrossAgrees(sso, login, p) ==
    \A r \in PeerRow(sso, p.id), q \in PeerRow(login, p.id) :
        r.shortcode = p.shortcode /\ (q.slug # Unset => q.slug = r.slug)

CompareEnterprise(p, answers) ==
    /\ p.blockers = {}
    /\ PeerAgrees(answers["sso"], p) /\ PeerAgrees(answers["login"], p)
    /\ CrossAgrees(answers["sso"], answers["login"], p)

RefreshDone ==
    /\ refresh # Nothing /\ \A peer \in Peers : refresh[peer].at # "pending"
    /\ LET ready == {p.id : p \in {q \in loaded["proxy"] : CompareEnterprise(q, refresh)}}
       IN  /\ snapshot' = [age |-> 0, ready |-> ready]
           /\ compared' = compared \cup ready
           \* whoever waits for this refresh gets its result
           /\ change' = [c \in Changes |->
                 IF change[c].at = "waiting" /\ change[c].id \notin ready THEN NoChange
                 ELSE IF change[c].at = "idle" THEN change[c]
                 ELSE [change[c] EXCEPT !.at = "writing", !.found = @ \/ change[c].id \in ready]]
           /\ eligible' = IF eligible = Nothing THEN Nothing
                          ELSE [ids |-> eligible.ids \cup (eligible.waiting \cap ready), waiting |-> {}]
    /\ refresh' = Nothing
    /\ UNCHANGED <<loaded, table, reloads>>

SnapshotAges ==
    /\ snapshot # Nothing /\ snapshot.age < ReadyTtl
    /\ snapshot' = [snapshot EXCEPT !.age = @ + 1]
    /\ UNCHANGED <<loaded, table, refresh, change, eligible, compared, reloads>>

\* cached: ready results live longer than the others (isStale); what left the registry has no result.
IsFresh(id) ==
    /\ snapshot # Nothing /\ id \in Registered("proxy")
    /\ snapshot.age < (IF id \in snapshot.ready THEN ReadyTtl ELSE NotReadyTtl)

---------------------------------------------------------------------------
(* The administrator. *)

\* nextPolicy: the transitions an administrator may ask for.
Transitions == {<<"draft", "active">>, <<"active", "active">>, <<"active", "draining">>, <<"draining", "active">>,
                <<"draining", "draining">>}

\* Draining needs no comparison and is one transaction; a version that was not the current one changes nothing.
Drain(id) ==
    /\ ProxyUp /\ WritesLeft /\ <<table[id].state, "draining">> \in Transitions
    /\ table' = [table EXCEPT ![id].state = "draining", ![id].version = @ + 1]
    /\ UNCHANGED <<loaded, snapshot, refresh, change, eligible, compared, reloads>>

NeedsComparisonCached(id) == table[id].state # "active" /\ ~(snapshot # Nothing /\ id \in snapshot.ready)
\* assertActivatable: an active enterprise needs no comparison, another one a fresh one.
NeedsComparison(id) == table[id].state # "active"

\* updatePolicy for state active, up to the comparison; a console knows a version that it has read.
RequestActivation(c) ==
    /\ ProxyUp /\ change[c].at = "idle"
    /\ \E id \in DOMAIN table \cap Registered("proxy"), age \in {0, 1} :
         /\ table[id].version > age
         /\ change' = [change EXCEPT ![c] = [at |-> IF NeedsComparison(id) THEN "waiting" ELSE "writing",
                                             id |-> id, expected |-> table[id].version - age, found |-> FALSE]]
         /\ IF NeedsComparison(id) THEN StartRefresh ELSE UNCHANGED refresh
    /\ UNCHANGED <<loaded, table, snapshot, eligible, compared, reloads>>

\* nextPolicy: the version the administrator saw, and a transition that is allowed.
PolicyAccepted(c) ==
    /\ change[c].expected = table[change[c].id].version
    /\ <<table[change[c].id].state, "active">> \in Transitions

\* updateEnterprisePolicy.
Activate(c) ==
    /\ change[c].at = "writing" /\ (PolicyAccepted(c) => WritesLeft)
    /\ IF PolicyAccepted(c)
       THEN table' = [table EXCEPT ![change[c].id].state = "active", ![change[c].id].version = @ + 1]
       ELSE UNCHANGED table
    /\ change' = [change EXCEPT ![c] = NoChange]
    /\ UNCHANGED <<loaded, snapshot, refresh, eligible, compared, reloads>>

---------------------------------------------------------------------------
(* The prewarm worker. *)

ActiveIds == {id \in DOMAIN table : table[id].state = "active"}

\* eligibleEnterprises: the active ones are probed; a remembered answer is enough, the others wait for a refresh.
ProbeEligible ==
    /\ ProxyUp /\ eligible = Nothing
    /\ LET fresh == {id \in ActiveIds : IsFresh(id)}
       IN  /\ eligible' = [ids |-> {id \in fresh : id \in snapshot.ready}, waiting |-> ActiveIds \ fresh]
           /\ IF ActiveIds \subseteq fresh THEN UNCHANGED refresh ELSE StartRefresh
    /\ UNCHANGED <<loaded, table, snapshot, change, compared, reloads>>

\* readyWithinDeadline: a late answer leaves out its enterprise; ELIGIBILITY_TIMEOUT_MS leaves out all.
ProbeTimeout ==
    /\ eligible # Nothing /\ eligible.waiting # {}
    /\ \E ids \in {eligible.ids, {}} : eligible' = [ids |-> ids, waiting |-> {}]
    /\ UNCHANGED <<loaded, table, snapshot, refresh, change, compared, reloads>>

\* reserve: inside the transaction the state is read again; the comparison is not.
ReserveMember ==
    /\ ProxyUp /\ eligible # Nothing /\ eligible.waiting = {}
    /\ LET open == {id \in eligible.ids \cap ActiveIds : table[id].stock < table[id].cap /\ StockLeft}
       IN  IF open = {} THEN UNCHANGED table
           ELSE \E id \in open : table' = [table EXCEPT ![id].stock = @ + 1,
                                                           ![id].born = @ \cup {Fingerprint(ProfileOf("proxy", id))}]
    /\ eligible' = Nothing
    /\ UNCHANGED <<loaded, snapshot, refresh, change, compared, reloads>>

---------------------------------------------------------------------------

ReadinessNext ==
    \/ Restart \/ SnapshotAges \/ RefreshDone \/ ProbeEligible \/ ProbeTimeout \/ ReserveMember
    \/ \E peer \in Peers : PeerAnswers(peer)
    \/ \E c \in Changes : RequestActivation(c) \/ Activate(c)
    \/ \E id \in DOMAIN table : Drain(id)

ReadinessSpec == ReadinessInit /\ [][ReadinessNext]_readinessVars

---------------------------------------------------------------------------

(***************************************************************************)
(* Members keep the identity they were created with: while the Proxy runs, *)
(* an enterprise with members is in its registry with the fingerprint it   *)
(* had when they were created, whatever file it was restarted with         *)
(* (syncRegistryEnterprises).                                              *)
(***************************************************************************)
MembersKeepIdentity ==
    ProxyUp => \A id \in DOMAIN table : table[id].stock > 0 =>
                 id \in Registered("proxy") /\ table[id].born = {Fingerprint(ProfileOf("proxy", id))}

(***************************************************************************)
(* No service runs with two enterprises that a login page, an account      *)
(* domain or a slug confuses, in the normal form that requests are         *)
(* compared in, nor with caps beyond the catalog of names (loadRegistry).  *)
(***************************************************************************)
EnterprisesAreDistinct ==
    /\ \A s \in Services : \A p, q \in loaded[s] : p # q =>
         /\ p.id # q.id
         /\ Unset \notin {p.loginUrl, q.loginUrl} => CanonicalText[p.loginUrl] # CanonicalText[q.loginUrl]
         /\ Unset \notin {p.domain, q.domain} => CanonicalText[p.domain] # CanonicalText[q.domain]
         /\ Unset \notin {p.slug, q.slug} /\ p.baseUrl = q.baseUrl => CanonicalText[p.slug] # CanonicalText[q.slug]
    /\ CapsFit(table)

RegistryIsSafe == MembersKeepIdentity /\ EnterprisesAreDistinct

(***************************************************************************)
(* An enterprise becomes active only after a comparison of this Proxy that *)
(* ended while the request was being served found it ready, and a member   *)
(* is created only after one found it ready (updatePolicy,                 *)
(* eligibleEnterprises): neither a remembered result nor an activation     *)
(* that raced with a drain is enough.                                      *)
(***************************************************************************)
Activated(id) == id \in DOMAIN table /\ table'[id].state = "active" /\ table[id].state # "active"
Grew(id) == id \in DOMAIN table /\ table'[id].stock > table[id].stock

ActivationIsCompared ==
    [][\A id \in DOMAIN table :
          /\ Activated(id) => /\ \E c \in Changes : change[c].id = id /\ change[c].at = "writing" /\ change[c].found
          /\ Grew(id) => id \in compared]_readinessVars

(***************************************************************************)
(* Services that disagree about an enterprise neither mix identities up    *)
(* nor serve it.                                                           *)
(***************************************************************************)
EnterprisesAreSafe == []RegistryIsSafe /\ ActivationIsCompared
===========================================================================
