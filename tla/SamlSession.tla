---------------------------- MODULE SamlSession -----------------------------
(***************************************************************************)
(* The SAML identity provider of one enterprise.  The session is only a    *)
(* signed cookie: a request reads it when it is sent, awaits the parsing,  *)
(* the password or the signature, and writes it back with its response, so *)
(* that requests of several tabs overwrite each other's session.  Users    *)
(* are deleted and created again meanwhile.                                *)
(***************************************************************************)
EXTENDS Integers, FiniteSets

CONSTANTS
  Tabs,        \* requests the browser may have open
  SamlUsers,   \* names
  SsoRequests, \* what GET /sso may bring: AuthnRequests, with an ID or without one, and none
  Bare,        \* those without a SAMLRequest
  ForcedRequests, \* AuthnRequests with ForceAuthn
  MaxRows,     \* bound: rows of one name, numbered by their created_at
  MaxTime,     \* bound: time, in units of PENDING_TTL_MS
  MaxSent,     \* bound: requests sent
  NoOne        \* no user, no request

ASSUME SamlAssumption ==
  Bare \subseteq SsoRequests /\ ForcedRequests \subseteq SsoRequests \ Bare /\ NoOne \notin SamlUsers \cup SsoRequests
    /\ MaxRows \in Nat \ {0} /\ MaxTime \in Nat /\ MaxSent \in Nat

VARIABLES
  userRow,       \* created_at of the row of each name, 0 for none
  created,   \* rows created so far, by name
  cookie,    \* the session cookie of the browser
  tab,       \* the request each tab has open
  time,
  sent,      \* requests sent so far
  proven,    \* rows whose password this browser has given (history)
  asserted,  \* rows named in responses (history)
  answered,  \* responses to each of SsoRequests (history)
  shared     \* those pending in two open requests at once (history)

samlVars == <<userRow, created, cookie, tab, time, sent, proven, asserted, answered, shared>>

(* created 0: a cookie of the baseline, without created_at.  The pending request
   is an object also when there is no ID to answer to, and NoOne stands for
   undefined: which of SsoRequests it came from, its response need not say. *)
NoSession == [user |-> NoOne, created |-> 0, pending |-> NoOne, exp |-> 0]
Closed == [kind |-> "none", phase |-> "closed", session |-> NoSession, name |-> NoOne, created |-> 0, id |-> NoOne]

(* A baseline cookie keeps no time of its request: each reading renews it. *)
LegacySessions ==
  [user : SamlUsers \cup {NoOne}, created : {0}, pending : SsoRequests \cup {NoOne}, exp : {MaxTime + 1}]

SamlInit ==
  /\ userRow = [n \in SamlUsers |-> 1] /\ created = [n \in SamlUsers |-> 1]
  /\ cookie \in {NoSession} \cup LegacySessions
  /\ tab = [t \in Tabs |-> Closed]
  /\ time = 0 /\ sent = 0
  /\ proven = IF cookie.user = NoOne THEN {} ELSE {<<cookie.user, k>> : k \in 1..MaxRows}
  /\ asserted = {} /\ answered = [i \in SsoRequests |-> 0] /\ shared = {}

history == <<proven, asserted, answered, shared>>
userRows == <<userRow, created>>

(* readSession, readPending: a pending request that has expired is dropped. *)
ReadSession(s) == IF s.pending # NoOne /\ s.exp <= time THEN [s EXCEPT !.pending = NoOne] ELSE s

Overlaps(t, s) ==
  {i \in SsoRequests : s.pending = i /\ \E u \in Tabs \ {t} : tab[u].phase # "closed" /\ i \in {tab[u].session.pending, tab[u].id}}

SendTab(t, request) ==
  /\ tab[t].phase = "closed" /\ sent < MaxSent
  /\ sent' = sent + 1
  /\ tab' = [tab EXCEPT ![t] = request]
  /\ shared' = shared \cup Overlaps(t, cookie)
       \cup {i \in SsoRequests : request.id = i /\ (answered[i] > 0 \/ cookie.pending = i
               \/ \E u \in Tabs : tab[u].phase # "closed" /\ i \in {tab[u].session.pending, tab[u].id})}
  /\ UNCHANGED <<userRows, cookie, time, proven, asserted, answered>>

Close(t) == tab' = [tab EXCEPT ![t] = Closed]

-----------------------------------------------------------------------------
(* GET /sso, with an AuthnRequest or without one. *)
SendSso(t, id) ==
  SendTab(t, [Closed EXCEPT !.kind = "sso", !.phase = "parse", !.session = cookie, !.id = id])

(* recordPendingRequest: without a SAMLRequest, too, a request is pending, and
   the next login answers it; ForceAuthn forgets the signed-in user. *)
RecordPending(t) ==
  LET s == [ReadSession(tab[t].session) EXCEPT !.pending = tab[t].id, !.exp = time + 1] IN
    IF tab[t].id \in ForcedRequests THEN [s EXCEPT !.user = NoOne, !.created = 0] ELSE s

(* Mutant: the name is enough. *)
CurrentUserByName(s) ==
  IF s.user = NoOne \/ userRow[s.user] = 0
  THEN [s EXCEPT !.user = NoOne, !.created = 0] ELSE [s EXCEPT !.created = userRow[s.user]]

(* currentUser: the row must be the one that signed in; a baseline cookie is
   accepted and completed. *)
CurrentUser(s) ==
  IF s.user = NoOne \/ userRow[s.user] = 0 \/ (s.created # 0 /\ s.created # userRow[s.user])
  THEN [s EXCEPT !.user = NoOne, !.created = 0] ELSE [s EXCEPT !.created = userRow[s.user]]

(* parseAuthnRequest may refuse what it is given: not XML, not an AuthnRequest,
   for another destination or ACS. *)
MayBeRefused(t) == tab[t].id \notin Bare

(* startSso after parseAuthnRequest. *)
StartSso(t) ==
  /\ tab[t].phase = "parse"
  /\ \/ MayBeRefused(t) /\ Close(t) /\ UNCHANGED cookie
     \/ LET s == CurrentUser(RecordPending(t)) IN
          IF s.user = NoOne THEN cookie' = s /\ Close(t)
          ELSE /\ tab' = [tab EXCEPT ![t].phase = "respond", ![t].session = s,
                                     ![t].name = s.user, ![t].created = s.created]
               /\ UNCHANGED cookie
  /\ UNCHANGED <<userRows, time, sent, history>>

(* POST /login: the row is read, then the password is verified. *)
SendLogin(t, n) ==
  SendTab(t, [Closed EXCEPT !.kind = "login", !.phase = IF userRow[n] = 0 THEN "closed" ELSE "verify",
                         !.session = cookie, !.name = n, !.created = userRow[n]])

(* login: a wrong password changes nothing. *)
Login(t) ==
  /\ tab[t].phase = "verify"
  /\ \/ Close(t) /\ UNCHANGED <<cookie, proven>>
     \/ LET s == [ReadSession(tab[t].session) EXCEPT !.user = tab[t].name, !.created = tab[t].created] IN
          /\ proven' = proven \cup {<<s.user, s.created>>}
          /\ IF s.pending = NoOne THEN cookie' = s /\ Close(t)
             ELSE tab' = [tab EXCEPT ![t].phase = "respond", ![t].session = s, ![t].id = s.pending]
                  /\ UNCHANGED cookie
  /\ UNCHANGED <<userRows, time, sent, asserted, answered, shared>>

(* buildSamlResponse: what the response says of whom; here, the row. *)
Assertion(t) == <<tab[t].name, tab[t].created>>

(* respondSaml after buildSamlResponse. *)
Respond(t) ==
  /\ tab[t].phase = "respond"
  /\ cookie' = [tab[t].session EXCEPT !.pending = NoOne]
  /\ asserted' = asserted \cup {Assertion(t)}
  /\ answered' = [i \in SsoRequests |-> answered[i] + IF i = tab[t].id /\ answered[i] < 2 THEN 1 ELSE 0]
  /\ Close(t)
  /\ UNCHANGED <<userRows, time, sent, proven, shared>>

(* POST /logout: clearSession. *)
Logout ==
  /\ sent < MaxSent /\ sent' = sent + 1
  /\ cookie' = NoSession
  /\ UNCHANGED <<userRows, tab, time, history>>

(* Users come and go; time passes. *)
RemoveUser(n) ==
  /\ userRow[n] # 0 /\ userRow' = [userRow EXCEPT ![n] = 0]
  /\ UNCHANGED <<created, cookie, tab, time, sent, history>>

RecreateUser(n) ==
  /\ userRow[n] = 0 /\ created[n] < MaxRows
  /\ created' = [created EXCEPT ![n] = @ + 1] /\ userRow' = [userRow EXCEPT ![n] = created[n] + 1]
  /\ UNCHANGED <<cookie, tab, time, sent, history>>

SamlTick == time < MaxTime /\ time' = time + 1 /\ UNCHANGED <<userRows, cookie, tab, sent, history>>

SamlNext ==
  \/ \E t \in Tabs : \/ \E id \in SsoRequests : SendSso(t, id)
                     \/ \E n \in SamlUsers : SendLogin(t, n)
                     \/ StartSso(t) \/ Login(t) \/ Respond(t)
  \/ Logout \/ SamlTick
  \/ \E n \in SamlUsers : RemoveUser(n) \/ RecreateUser(n)

SamlSpec == SamlInit /\ [][SamlNext]_samlVars

-----------------------------------------------------------------------------
(* Every response names a row whose own password was given in this browser: a
   cookie of a user who was deleted never speaks for the one created after
   (currentUser).  A baseline cookie counts as proof for its name. *)
ResponsesAreProven == asserted \subseteq proven

(* What GET /sso brought is answered once (respondSaml clears it), and so is the
   unsolicited response to a GET without an AuthnRequest, unless it was in the
   hands of two requests at the same time or was sent twice. *)
AnsweredOnce == \A i \in SsoRequests \ shared : answered[i] <= 1

(* A response to a request with ForceAuthn follows a password given in that
   very request. *)
ForcedMeansPassword ==
  \A t \in Tabs : (tab[t].phase = "respond" /\ tab[t].id \in ForcedRequests) => tab[t].kind = "login"

(* Tabs that overwrite each other's session never buy a response that the
   user has not earned, nor a second one. *)
SessionIsSafe == ResponsesAreProven /\ AnsweredOnce /\ ForcedMeansPassword
=============================================================================
