------------------------------ MODULE Accounts ------------------------------
(***************************************************************************)
(* The Proxy's accounts in direct mode (proxy/src/db/mysqlStorage.ts,      *)
(* copilot/copilotAuthManager.ts, accounts/copilotOauthTokenImport.ts):    *)
(* the row of one identity, the claim that keeps replicas from             *)
(* initializing it twice, the import of a token by CSV, requests whose     *)
(* token Copilot rejects, and deletion.  Every SQL statement is a step, so *)
(* what was read before an await may be stale when it is used.             *)
(***************************************************************************)
EXTENDS Naturals, FiniteSets

CONSTANTS
    AccountEnterprises,     \* the enterprises of the registry
    DirectEnterprise,       \* DIRECT_MODE_ENTERPRISE_ID
    Starters,               \* calls of getAuth for the identity, on any replica
    ReplicaOf,              \* starter -> replica
    Importers,              \* CSV rows that import a token for the identity
    ImportsInto,            \* importer -> enterprise
    MaxAttemptsIssued,      \* bounds on the attempts and tokens ever issued
    MaxTokensIssued,
    NoAccount, NoClaim

ASSUME AccountsAssumption ==
    /\ DirectEnterprise \in AccountEnterprises /\ ImportsInto \in [Importers -> AccountEnterprises]
    /\ NoClaim \notin Starters

VARIABLES
    account,        \* the row of proxy_accounts, or NoAccount
    initClaim,      \* whose claim proxy_identity_initializations holds, or NoClaim
    starter,        \* starter -> [at, attempt, leased]: leased until its lease expires
    importer,       \* importer -> where it is
    viewer,         \* a request that uses a token: the token, 0 when there is none
    issuedAttempts, \* attempts are numbered 1..issuedAttempts
    issuedTokens

accountVars == <<account, initClaim, starter, importer, viewer, issuedAttempts, issuedTokens>>
issued == <<issuedAttempts, issuedTokens>>

AccountStatus == {"missing", "refreshing", "valid", "failed", "expired"}

AccountsInit ==
    /\ account = NoAccount /\ initClaim = NoClaim
    /\ starter = [s \in Starters |-> [at |-> "idle", attempt |-> 0, leased |-> FALSE]]
    /\ importer = [k \in Importers |-> "idle"]
    /\ viewer = 0 /\ issuedAttempts = 0 /\ issuedTokens = 0

-----------------------------------------------------------------------------
(* The statements of MysqlStorage *)

\* createAccount: an existing row keeps its credentials; another enterprise's row
\* makes the statement fail (KEEP_ENTERPRISE_SQL).
Created(e, status) ==
    IF account = NoAccount THEN [ent |-> e, token |-> 0, status |-> status, attempt |-> 0] ELSE account

Imported(e, t) == [ent |-> e, token |-> t, status |-> "valid", attempt |-> 0]

UpsertAllowed(e) == account = NoAccount \/ account.ent = e

Saved(t) == [account EXCEPT !.token = t, !.status = "valid", !.attempt = 0]

BegunWith(a) == [account EXCEPT !.status = "refreshing", !.attempt = a]

FailedAttempt(a) ==
    IF account # NoAccount /\ account.attempt = a THEN [account EXCEPT !.status = "failed"] ELSE account

Invalidated(t) ==
    IF account # NoAccount /\ account.token = t /\ account.status = "valid"
    THEN [account EXCEPT !.token = 0, !.status = "expired", !.attempt = 0] ELSE account

-----------------------------------------------------------------------------
(* getAuth of an unknown identity *)

Step(s, p) == starter' = [starter EXCEPT ![s].at = p]

\* The promises a replica keeps in `initializing'.
InitializingOn(r) == \E s \in Starters : ReplicaOf[s] = r
    /\ starter[s].at \in {"ensuring", "creating", "preparing", "beginning", "submitting", "releasing"}

getAuth(s) ==
    /\ starter[s].at = "idle" /\ account = NoAccount
    /\ Step(s, IF InitializingOn(ReplicaOf[s]) THEN "answered" ELSE "claiming")
    /\ UNCHANGED <<account, initClaim, importer, viewer, issued>>

Claim(s) ==
    /\ initClaim' = s
    /\ starter' = [starter EXCEPT ![s].at = "ensuring", ![s].leased = TRUE]

\* INSERT IGNORE, then the UPDATE of an expired row.
claimIdentityInitialization(s) ==
    /\ \/ /\ starter[s].at = "claiming"
          /\ IF initClaim = NoClaim
               THEN Claim(s)
               ELSE Step(s, "stealing") /\ UNCHANGED initClaim
       \/ /\ starter[s].at = "stealing"
          /\ IF initClaim # NoClaim /\ ~starter[initClaim].leased
               THEN Claim(s)
               ELSE Step(s, "answered") /\ UNCHANGED initClaim
    /\ UNCHANGED <<account, importer, viewer, issued>>

LeaseExpires(s) ==
    /\ starter[s].leased
    /\ starter' = [starter EXCEPT ![s].leased = FALSE]
    /\ UNCHANGED <<account, initClaim, importer, viewer, issued>>

\* ensureSsoUser and syncEmuUser of SSO, or their failure.
ensureSsoUser(s) ==
    /\ starter[s].at = "ensuring"
    /\ \E p \in {"creating", "releasing"} : Step(s, p)
    /\ UNCHANGED <<account, initClaim, importer, viewer, issued>>

\* Without a password for the login the row is created failed and the
\* initialization ends.
createAccount(s) ==
    /\ starter[s].at = "creating"
    /\ IF UpsertAllowed(DirectEnterprise)
         THEN \E password \in BOOLEAN :
                /\ account' = Created(DirectEnterprise, IF password THEN "missing" ELSE "failed")
                /\ Step(s, IF password THEN "preparing" ELSE "releasing")
         ELSE Step(s, "releasing") /\ UNCHANGED account
    /\ UNCHANGED <<initClaim, importer, viewer, issued>>

\* prepareLoginAuthorization reads the row, then begins with force.
prepareLoginAuthorization(s) ==
    /\ starter[s].at = "preparing"
    /\ Step(s, IF account # NoAccount /\ account.ent = DirectEnterprise THEN "beginning" ELSE "releasing")
    /\ UNCHANGED <<account, initClaim, importer, viewer, issued>>

beginCopilotOauthAuthorization(s) ==
    /\ starter[s].at = "beginning" /\ issuedAttempts < MaxAttemptsIssued
    /\ IF account = NoAccount
         THEN Step(s, "releasing") /\ UNCHANGED <<account, issuedAttempts>>
         ELSE /\ issuedAttempts' = issuedAttempts + 1
              /\ account' = BegunWith(issuedAttempts + 1)
              /\ starter' = [starter EXCEPT ![s].at = "submitting", ![s].attempt = issuedAttempts + 1]
    /\ UNCHANGED <<initClaim, importer, viewer, issuedTokens>>

\* createLoginTask is accepted, or its answer is an error and the attempt is failed
\* (Login may have accepted it all the same).
submitLogin(s) ==
    /\ starter[s].at = "submitting"
    /\ account' \in {account, FailedAttempt(starter[s].attempt)}
    /\ Step(s, "releasing")
    /\ UNCHANGED <<initClaim, importer, viewer, issued>>

ReleaseAny(s) ==
    /\ starter[s].at = "releasing"
    /\ initClaim' = NoClaim
    /\ starter' = [starter EXCEPT ![s] = [at |-> "answered", attempt |-> 0, leased |-> FALSE]]
    /\ UNCHANGED <<account, importer, viewer, issued>>

\* The claim is deleted by its own id: a starter whose lease expired leaves the
\* claim of the next one alone.
releaseIdentityInitialization(s) ==
    /\ starter[s].at = "releasing"
    /\ initClaim' = IF initClaim = s THEN NoClaim ELSE initClaim
    /\ starter' = [starter EXCEPT ![s] = [at |-> "answered", attempt |-> 0, leased |-> FALSE]]
    /\ UNCHANGED <<account, importer, viewer, issued>>

Dies(s) ==
    /\ starter[s].at \notin {"idle", "answered"}
    /\ Step(s, "answered")
    /\ UNCHANGED <<account, initClaim, importer, viewer, issued>>

-----------------------------------------------------------------------------
(* Login's answers, the operator and the requests *)

triggerOauthRefresh ==
    /\ account # NoAccount /\ issuedAttempts < MaxAttemptsIssued
    /\ issuedAttempts' = issuedAttempts + 1
    /\ account' = BegunWith(issuedAttempts + 1)
    /\ UNCHANGED <<initClaim, starter, importer, viewer, issuedTokens>>

saveCopilotOauthToken(a) ==
    /\ account # NoAccount /\ account.attempt = a /\ account.status = "refreshing"
    /\ issuedTokens < MaxTokensIssued
    /\ issuedTokens' = issuedTokens + 1
    /\ account' = Saved(issuedTokens + 1)
    /\ UNCHANGED <<initClaim, starter, importer, viewer, issuedAttempts>>

failCopilotOauthAuthorization(a) ==
    /\ account' = FailedAttempt(a)
    /\ UNCHANGED <<initClaim, starter, importer, viewer, issued>>

\* assertNotOtherEnterprise, then SSO and Copilot are asked.
importCopilotOauthTokenRow(k) ==
    /\ importer[k] = "idle"
    /\ importer' = [importer EXCEPT ![k] = IF UpsertAllowed(ImportsInto[k]) THEN "validated" ELSE "failed"]
    /\ UNCHANGED <<account, initClaim, starter, viewer, issued>>

importCopilotOauthToken(k) ==
    /\ importer[k] = "validated" /\ issuedTokens < MaxTokensIssued
    /\ IF UpsertAllowed(ImportsInto[k])
         THEN /\ issuedTokens' = issuedTokens + 1
              /\ account' = Imported(ImportsInto[k], issuedTokens + 1)
              /\ importer' = [importer EXCEPT ![k] = "success"]
         ELSE importer' = [importer EXCEPT ![k] = "failed"] /\ UNCHANGED <<account, issuedTokens>>
    /\ UNCHANGED <<initClaim, starter, viewer, issuedAttempts>>

\* getAuth of a valid account hands its token to the request.
UseToken ==
    /\ account # NoAccount /\ account.status = "valid" /\ account.token # 0
    /\ viewer = 0 /\ viewer' = account.token
    /\ UNCHANGED <<account, initClaim, starter, importer, issued>>

\* Copilot answers the request: 401 invalidates the token it used.
invalidateCopilotOauthToken ==
    /\ viewer # 0 /\ viewer' = 0
    /\ account' \in {account, Invalidated(viewer)}
    /\ UNCHANGED <<initClaim, starter, importer, issued>>

deleteAccount ==
    /\ account # NoAccount /\ account' = NoAccount
    /\ UNCHANGED <<initClaim, starter, importer, viewer, issued>>

deleteAccountsBySsoUser(e) ==
    /\ account # NoAccount /\ account.ent = e /\ account' = NoAccount
    /\ UNCHANGED <<initClaim, starter, importer, viewer, issued>>

AccountsNext ==
    \/ \E s \in Starters :
        \/ getAuth(s) \/ claimIdentityInitialization(s) \/ ensureSsoUser(s) \/ createAccount(s)
        \/ prepareLoginAuthorization(s) \/ beginCopilotOauthAuthorization(s) \/ submitLogin(s)
        \/ releaseIdentityInitialization(s) \/ LeaseExpires(s) \/ Dies(s)
    \/ triggerOauthRefresh
    \/ \E a \in 1..issuedAttempts : saveCopilotOauthToken(a) \/ failCopilotOauthAuthorization(a)
    \/ \E k \in Importers : importCopilotOauthTokenRow(k) \/ importCopilotOauthToken(k)
    \/ UseToken \/ invalidateCopilotOauthToken \/ deleteAccount
    \/ \E e \in AccountEnterprises : deleteAccountsBySsoUser(e)

-----------------------------------------------------------------------------
\* The row's columns agree: a valid row has a token to serve and a refreshing one
\* an attempt that can end it, whichever of Login, import, request and operator
\* wrote last.
AccountRowAgrees ==
    account # NoAccount =>
        /\ account.status = "valid" => account.token # 0
        /\ account.status = "refreshing" => account.attempt # 0

\* No two replicas initialize the identity within their leases: a starter whose
\* lease expired and that releases late never drops the next one's claim.
OneInitializer ==
    \A s, o \in Starters : (starter[s].leased /\ starter[o].leased) => s = o

AccountsAreSafe == AccountRowAgrees /\ OneInitializer

\* A row never moves to another enterprise, although an import looks at the row
\* long before it writes, and a stored token is erased only when a request with
\* that very token was rejected, never because an older one was.
AccountKeepsItsToken ==
    [][ (account # NoAccount /\ account' # NoAccount) =>
            /\ account'.ent = account.ent
            /\ (account.token # 0 /\ account'.token = 0) => viewer = account.token ]_accountVars
=============================================================================
