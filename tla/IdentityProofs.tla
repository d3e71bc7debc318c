--------------------------- MODULE IdentityProofs ---------------------------
(***************************************************************************)
(* Proofs about the identity provider and the users behind it: sessions    *)
(* that several tabs of a browser overwrite, the import of GitHub's SCIM   *)
(* users from a plan that others make stale, and requests on users that    *)
(* overlap and fail halfway; the storage of direct mode; the enterprises   *)
(* of services that restart with other registries.                         *)
(***************************************************************************)
EXTENDS MCIdentity, FiniteSetTheorems, SequenceTheorems, WellFoundedInduction, TLAPS

-----------------------------------------------------------------------------
(* A session, and a request in the browser. *)
Sessions ==
  [user : SamlUsers \cup {NoOne}, created : 0..MaxRows, pending : SsoRequests \cup {NoOne}, exp : 0..(MaxTime + 1)]

TabRequests ==
  [kind : {"none", "sso", "login"}, phase : {"closed", "parse", "verify", "respond"}, session : Sessions,
   name : SamlUsers \cup {NoOne}, created : 0..MaxRows, id : SsoRequests \cup {NoOne}]

SamlTypeOK ==
  /\ userRow \in [SamlUsers -> 0..MaxRows] /\ created \in [SamlUsers -> 1..MaxRows]
  /\ cookie \in Sessions /\ tab \in [Tabs -> TabRequests]
  /\ time \in 0..MaxTime /\ answered \in [SsoRequests -> 0..2]

(* The user of a session has given the password of the row the session names;
   a baseline session stands for every row of the name. *)
SessionProven(s) ==
  s.user # NoOne => \A k \in 1..MaxRows : s.created \in {0, k} => <<s.user, k>> \in proven

(* What the request in a tab has shown so far. *)
TabSound(r) ==
  /\ r.phase # "closed" => SessionProven(r.session)
  /\ r.phase = "parse" => r.kind = "sso"
  /\ r.phase = "verify" => r.kind = "login" /\ r.name \in SamlUsers /\ r.created \in 1..MaxRows
  /\ r.phase = "respond" => <<r.name, r.created>> \in proven /\ (r.id \in ForcedRequests => r.kind = "login")

(* The open requests that know of the AuthnRequest i. *)
HoldsId(r, i) == r.phase # "closed" /\ (r.session.pending = i \/ r.id = i)

(* An AuthnRequest that was never in two hands: one open request knows of it
   at most, and after the answer nobody does, nor the cookie. *)
IdSound(i) ==
  /\ answered[i] <= 1
  /\ \A t, u \in Tabs : HoldsId(tab[t], i) /\ HoldsId(tab[u], i) => t = u
  /\ answered[i] # 0 => cookie.pending # i /\ \A t \in Tabs : ~HoldsId(tab[t], i)

SamlInv ==
  /\ SamlTypeOK
  /\ \A n \in SamlUsers : userRow[n] <= created[n]
  /\ SessionProven(cookie)
  /\ \A t \in Tabs : TabSound(tab[t])
  /\ ResponsesAreProven
  /\ \A i \in SsoRequests \ shared : IdSound(i)

-----------------------------------------------------------------------------
(* What the changes of a session and of a request leave. *)
LEMMA PendingChanges ==
  ASSUME NEW s \in Sessions, NEW i \in SsoRequests \cup {NoOne}, NEW e \in 0..(MaxTime + 1)
  PROVE  LET p == [s EXCEPT !.pending = i, !.exp = e] IN
         p \in Sessions /\ p.user = s.user /\ p.created = s.created /\ p.pending = i
BY DEF Sessions

LEMMA UserChanges ==
  ASSUME NEW s \in Sessions, NEW n \in SamlUsers \cup {NoOne}, NEW k \in 0..MaxRows
  PROVE  LET p == [s EXCEPT !.user = n, !.created = k] IN
         p \in Sessions /\ p.user = n /\ p.created = k /\ p.pending = s.pending
BY DEF Sessions

LEMMA UserLeaves ==
  ASSUME NEW s \in Sessions
  PROVE  LET p == [s EXCEPT !.user = NoOne, !.created = 0] IN
         p \in Sessions /\ p.user = NoOne /\ p.pending = s.pending
<1>1. 0 \in 0..MaxRows
  BY SamlAssumption
<1> QED BY <1>1 DEF Sessions

LEMMA RowChanges ==
  ASSUME NEW s \in Sessions, NEW k \in 0..MaxRows
  PROVE  LET p == [s EXCEPT !.created = k] IN
         p \in Sessions /\ p.user = s.user /\ p.created = k /\ p.pending = s.pending
BY DEF Sessions

LEMMA NothingPending ==
  ASSUME NEW s \in Sessions
  PROVE  LET p == [s EXCEPT !.pending = NoOne] IN
         p \in Sessions /\ p.user = s.user /\ p.created = s.created /\ p.pending = NoOne
BY DEF Sessions

LEMMA RequestParts ==
  ASSUME NEW r \in TabRequests
  PROVE  /\ r.session \in Sessions /\ r.name \in SamlUsers \cup {NoOne} /\ r.created \in 0..MaxRows
         /\ r.id \in SsoRequests \cup {NoOne} /\ r.session.pending \in SsoRequests \cup {NoOne}
BY DEF TabRequests, Sessions

LEMMA EmptySession == NoSession \in Sessions /\ NoSession.user = NoOne /\ NoSession.pending = NoOne
<1>1. 0 \in 0..MaxRows /\ 0 \in 0..(MaxTime + 1)
  BY SamlAssumption
<1> QED BY <1>1 DEF NoSession, Sessions

LEMMA ClosedTab == Closed \in TabRequests /\ Closed.phase = "closed"
<1>1. 0 \in 0..MaxRows
  BY SamlAssumption
<1> QED BY <1>1, EmptySession DEF Closed, TabRequests

(* A request that is sent, and one that gets to its answer. *)
LEMMA AnsweringSso ==
  ASSUME NEW r \in TabRequests, NEW s \in Sessions, NEW n \in SamlUsers, NEW k \in 0..MaxRows
  PROVE  LET a == [r EXCEPT !.phase = "respond", !.session = s, !.name = n, !.created = k] IN
         /\ a \in TabRequests /\ a.kind = r.kind /\ a.phase = "respond" /\ a.session = s
         /\ a.name = n /\ a.created = k /\ a.id = r.id
BY DEF TabRequests

LEMMA AnsweringLogin ==
  ASSUME NEW r \in TabRequests, NEW s \in Sessions, NEW i \in SsoRequests
  PROVE  LET a == [r EXCEPT !.phase = "respond", !.session = s, !.id = i] IN
         /\ a \in TabRequests /\ a.kind = r.kind /\ a.phase = "respond" /\ a.session = s
         /\ a.name = r.name /\ a.created = r.created /\ a.id = i
BY DEF TabRequests

LEMMA ReadKeeps ==
  ASSUME NEW s \in Sessions, SamlTypeOK
  PROVE  /\ ReadSession(s) \in Sessions /\ ReadSession(s).user = s.user /\ ReadSession(s).created = s.created
         /\ ReadSession(s).pending \in {s.pending, NoOne}
BY NothingPending DEF ReadSession

(* The answer to an AuthnRequest with ForceAuthn starts without a user. *)
LEMMA RecordKeeps ==
  ASSUME SamlTypeOK, NEW t \in Tabs
  PROVE  LET s == RecordPending(t) IN
         /\ s \in Sessions /\ s.pending = tab[t].id
         /\ s.user # NoOne => /\ s.user = tab[t].session.user /\ s.created = tab[t].session.created
                              /\ tab[t].id \notin ForcedRequests
<1> DEFINE q == ReadSession(tab[t].session)
           p == [q EXCEPT !.pending = tab[t].id, !.exp = time + 1]
<1>1. tab[t] \in TabRequests /\ time + 1 \in 0..(MaxTime + 1)
  BY SamlAssumption DEF SamlTypeOK
<1>2. tab[t].session \in Sessions /\ tab[t].id \in SsoRequests \cup {NoOne}
  BY <1>1, RequestParts
<1>3. q \in Sessions /\ q.user = tab[t].session.user /\ q.created = tab[t].session.created
  BY <1>2, ReadKeeps
<1>4. RecordPending(t) = IF tab[t].id \in ForcedRequests THEN [p EXCEPT !.user = NoOne, !.created = 0] ELSE p
  BY DEF RecordPending
<1> HIDE DEF q
<1>5. p \in Sessions /\ p.user = q.user /\ p.created = q.created /\ p.pending = tab[t].id
  BY <1>1, <1>2, <1>3, PendingChanges
<1> HIDE DEF p
<1> DEFINE e == [p EXCEPT !.user = NoOne, !.created = 0]
<1>7. e \in Sessions /\ e.user = NoOne /\ e.pending = tab[t].id
  BY <1>5, UserLeaves
<1>8. RecordPending(t) = IF tab[t].id \in ForcedRequests THEN e ELSE p
  BY <1>4
<1> HIDE DEF e
<1> QED BY <1>3, <1>5, <1>7, <1>8

(* currentUser() gives a user whose present row has been proven. *)
LEMMA CurrentKeeps ==
  ASSUME SamlTypeOK, \A n \in SamlUsers : userRow[n] <= created[n], NEW s \in Sessions, SessionProven(s)
  PROVE  LET c == CurrentUser(s) IN
         /\ c \in Sessions /\ c.pending = s.pending
         /\ c.user # NoOne => /\ c.user = s.user /\ c.user \in SamlUsers /\ c.created \in 1..MaxRows
                              /\ <<c.user, c.created>> \in proven
<1> DEFINE none == [s EXCEPT !.user = NoOne, !.created = 0]
           same == [s EXCEPT !.created = userRow[s.user]]
           gone == s.user = NoOne \/ userRow[s.user] = 0 \/ (s.created # 0 /\ s.created # userRow[s.user])
<1>0. CurrentUser(s) = IF gone THEN none ELSE same
  BY DEF CurrentUser
<1>1. s.user \in SamlUsers \cup {NoOne}
  BY DEF Sessions
<1>2. none \in Sessions /\ none.pending = s.pending /\ none.user = NoOne
  BY UserLeaves
<1>3. CASE gone
  BY <1>0, <1>2, <1>3
<1>4. CASE ~gone
  <2>1. s.user \in SamlUsers /\ s.user # NoOne
    BY <1>1, <1>4
  <2>2. userRow[s.user] \in 0..MaxRows /\ userRow[s.user] # 0
    BY <1>4, <2>1 DEF SamlTypeOK
  <2>3. userRow[s.user] \in 1..MaxRows
    BY <2>2, SamlAssumption
  <2>4. same \in Sessions /\ same.pending = s.pending /\ same.user = s.user /\ same.created = userRow[s.user]
    BY <2>2, RowChanges
  <2>5. <<s.user, userRow[s.user]>> \in proven
    BY <1>4, <2>1, <2>3 DEF SessionProven
  <2> HIDE DEF same
  <2> QED BY <1>0, <1>4, <2>1, <2>3, <2>4, <2>5
<1> QED BY <1>3, <1>4

-----------------------------------------------------------------------------
(* What was proven stays so. *)
LEMMA ProvenGrows ==
  ASSUME proven \subseteq proven', NEW s, SessionProven(s)
  PROVE  SessionProven(s)'
BY DEF SessionProven

LEMMA TabsStaySound ==
  ASSUME SamlInv, proven \subseteq proven', NEW t \in Tabs, NEW r \in TabRequests,
         tab' = [tab EXCEPT ![t] = r], TabSound(r)'
  PROVE  tab' \in [Tabs -> TabRequests] /\ (\A u \in Tabs : TabSound(tab[u]))'
<1>1. tab \in [Tabs -> TabRequests]
  BY DEF SamlInv, SamlTypeOK
<1>2. ASSUME NEW u \in Tabs PROVE TabSound(tab[u])'
  <2>1. CASE u = t
    BY <1>1, <2>1
  <2>2. CASE u # t
    <3>1. tab'[u] = tab[u] /\ TabSound(tab[u])
      BY <1>1, <2>2 DEF SamlInv
    <3>2. PICK q : q = tab[u]
      OBVIOUS
    <3>3. TabSound(q) => TabSound(q)'
      BY DEF TabSound, SessionProven
    <3>4. TabSound(q)' => TabSound(tab[u])'
      BY <3>1, <3>2 DEF TabSound, SessionProven
    <3> QED BY <3>1, <3>2, <3>3, <3>4
  <2> QED BY <2>1, <2>2
<1> QED BY <1>1, <1>2

(* A step that sends, drops or advances one request keeps the AuthnRequests
   sound: the request may learn of an id only when no other one holds it. *)
LEMMA IdsStaySound ==
  ASSUME SamlInv, NEW t \in Tabs, NEW r \in TabRequests, tab' = [tab EXCEPT ![t] = r],
         answered' = answered, shared \subseteq shared',
         NEW i \in SsoRequests \ shared',
         HoldsId(r, i) => \/ HoldsId(tab[t], i)
                          \/ answered[i] = 0 /\ \A u \in Tabs \ {t} : ~HoldsId(tab[u], i),
         cookie'.pending = i => cookie.pending = i \/ HoldsId(tab[t], i)
  PROVE  IdSound(i)'
<1>1. tab \in [Tabs -> TabRequests] /\ IdSound(i)
  BY DEF SamlInv, SamlTypeOK
<1>2. \A u \in Tabs : tab'[u] = IF u = t THEN r ELSE tab[u]
  BY <1>1
<1>3. \A u \in Tabs : HoldsId(tab'[u], i) <=> IF u = t THEN HoldsId(r, i) ELSE HoldsId(tab[u], i)
  BY <1>2
<1>4. answered'[i] = answered[i]
  OBVIOUS
<1> QED BY <1>1, <1>3, <1>4 DEF IdSound
-----------------------------------------------------------------------------
LEMMA SamlStarts == SamlInit => SamlInv
<1> SUFFICES ASSUME SamlInit PROVE SamlInv
  OBVIOUS
<1> USE SamlAssumption DEF SamlInit
<1>1. 0 \in 0..MaxRows /\ 1 \in 0..MaxRows /\ 1 \in 1..MaxRows /\ 0 \in 0..MaxTime
  OBVIOUS
<1>2. cookie \in Sessions
  <2>1. CASE cookie = NoSession
    BY <2>1, EmptySession
  <2>2. CASE cookie \in LegacySessions
    <3>1. MaxTime + 1 \in 0..(MaxTime + 1)
      OBVIOUS
    <3> QED BY <1>1, <2>2, <3>1 DEF LegacySessions, Sessions
  <2> QED BY <2>1, <2>2
<1>3. SamlTypeOK
  <2>1. tab \in [Tabs -> TabRequests]
    BY ClosedTab
  <2> QED BY <1>1, <1>2, <2>1 DEF SamlTypeOK
<1>4. SessionProven(cookie)
  <2>1. cookie.user # NoOne => \A k \in 1..MaxRows : <<cookie.user, k>> \in proven
    OBVIOUS
  <2> QED BY <2>1 DEF SessionProven
<1>5. \A t \in Tabs : tab[t].phase = "closed"
  BY ClosedTab
<1>6. \A t \in Tabs : TabSound(tab[t])
  BY <1>5 DEF TabSound
<1>7. \A i \in SsoRequests : IdSound(i)
  BY <1>5 DEF IdSound, HoldsId
<1> QED BY <1>1, <1>3, <1>4, <1>6, <1>7 DEF SamlInv, ResponsesAreProven

(* A step that changes one request and perhaps the cookie. *)
LEMMA RequestStep ==
  ASSUME SamlInv, NEW t \in Tabs, NEW r \in TabRequests,
         tab' = [tab EXCEPT ![t] = r], UNCHANGED <<userRow, created, time>>,
         proven \subseteq proven', asserted' \subseteq proven', TabSound(r)',
         cookie' \in Sessions, SessionProven(cookie)', answered' \in [SsoRequests -> 0..2],
         \A i \in SsoRequests \ shared' : IdSound(i)'
  PROVE  SamlInv'
<1>1. tab' \in [Tabs -> TabRequests] /\ (\A u \in Tabs : TabSound(tab[u]))'
  BY TabsStaySound
<1>2. SamlTypeOK'
  BY <1>1 DEF SamlInv, SamlTypeOK
<1>3. (\A n \in SamlUsers : userRow[n] <= created[n])'
  BY DEF SamlInv
<1>4. (\A i \in SsoRequests \ shared : IdSound(i))'
  OBVIOUS
<1> QED BY <1>1, <1>2, <1>3, <1>4 DEF SamlInv, ResponsesAreProven

(* The cookie and what was proven stay: only the request changes. *)
LEMMA CookieStays ==
  ASSUME SamlInv, UNCHANGED <<cookie, proven, asserted>>
  PROVE  /\ proven \subseteq proven' /\ asserted' \subseteq proven'
         /\ cookie' \in Sessions /\ SessionProven(cookie)'
BY DEF SamlInv, SamlTypeOK, SessionProven, ResponsesAreProven

(* A request that is dropped. *)
LEMMA ClosingKeeps ==
  ASSUME SamlInv, NEW t \in Tabs, Close(t), UNCHANGED <<userRows, time, answered, shared>>,
         proven \subseteq proven', asserted' \subseteq proven', cookie' \in Sessions, SessionProven(cookie)',
         \A i \in SsoRequests : cookie'.pending = i => cookie.pending = i \/ HoldsId(tab[t], i)
  PROVE  SamlInv'
<1> DEFINE r == Closed
<1>1. r \in TabRequests /\ r.phase = "closed"
  BY ClosedTab
<1>2. tab' = [tab EXCEPT ![t] = r]
  BY DEF Close
<1> HIDE DEF r
<1>3. TabSound(r)' /\ \A i \in SsoRequests : ~HoldsId(r, i)
  BY <1>1 DEF TabSound, HoldsId
<1>4. ASSUME NEW i \in SsoRequests \ shared' PROVE IdSound(i)'
  BY <1>1, <1>2, <1>3, IdsStaySound
<1>5. answered' \in [SsoRequests -> 0..2]
  BY DEF SamlInv, SamlTypeOK
<1>6. UNCHANGED <<userRow, created, time>>
  BY DEF userRows
<1> QED BY <1>1, <1>2, <1>3, <1>4, <1>5, <1>6, RequestStep

(* A request that is sent with the cookie of the moment. *)
LEMMA SendingKeeps ==
  ASSUME SamlInv, NEW t \in Tabs, NEW r \in TabRequests, SendTab(t, r),
         r.session = cookie, r.phase \in {"closed", "parse", "verify"},
         r.phase = "parse" => r.kind = "sso",
         r.phase = "verify" => r.kind = "login" /\ r.name \in SamlUsers /\ r.created \in 1..MaxRows
  PROVE  SamlInv'
<1>1. /\ tab' = [tab EXCEPT ![t] = r]
      /\ UNCHANGED <<userRows, cookie, time, proven, asserted, answered>>
      /\ shared \subseteq shared'
  BY DEF SendTab
<1>2. TabSound(r)'
  <2>1. SessionProven(cookie)
    BY DEF SamlInv
  <2>2. SessionProven(r.session)'
    BY <1>1, <2>1 DEF SessionProven
  <2> QED BY <2>2 DEF TabSound
<1>3. ASSUME NEW i \in SsoRequests \ shared' PROVE IdSound(i)'
  <2>1. i \notin shared /\ IdSound(i) /\ answered[i] \in 0..2
    BY <1>1 DEF SamlInv, SamlTypeOK
  <2>2. ASSUME HoldsId(r, i)
        PROVE  answered[i] = 0 /\ \A u \in Tabs \ {t} : ~HoldsId(tab[u], i)
    <3>1. CASE r.id = i
      <4>1. /\ ~(answered[i] > 0 \/ cookie.pending = i
                 \/ \E u \in Tabs : tab[u].phase # "closed" /\ i \in {tab[u].session.pending, tab[u].id})
        BY <3>1 DEF SendTab
      <4> QED BY <2>1, <4>1 DEF HoldsId
    <3>2. CASE r.session.pending = i
      <4>1. i \notin Overlaps(t, cookie)
        BY DEF SendTab
      <4>2. cookie.pending = i
        BY <3>2
      <4>3. \A u \in Tabs \ {t} : ~HoldsId(tab[u], i)
        BY <4>1, <4>2 DEF Overlaps, HoldsId
      <4> QED BY <2>1, <4>2, <4>3 DEF IdSound
    <3> QED BY <2>2, <3>1, <3>2 DEF HoldsId
  <2> QED BY <1>1, <2>2, IdsStaySound
<1>4. answered' \in [SsoRequests -> 0..2]
  BY <1>1 DEF SamlInv, SamlTypeOK
<1>5. UNCHANGED <<userRow, created, time>>
  BY <1>1 DEF userRows
<1> QED BY <1>1, <1>2, <1>3, <1>4, <1>5, CookieStays, RequestStep

LEMMA SendSsoKeeps ==
  ASSUME SamlInv, NEW t \in Tabs, NEW id \in SsoRequests \cup {NoOne}, SendSso(t, id)
  PROVE  SamlInv'
<1> DEFINE r == [Closed EXCEPT !.kind = "sso", !.phase = "parse", !.session = cookie, !.id = id]
<1>1. cookie \in Sessions
  BY DEF SamlInv, SamlTypeOK
<1>2. SendTab(t, r)
  BY DEF SendSso
<1>3. r \in TabRequests /\ r.kind = "sso" /\ r.phase = "parse" /\ r.session = cookie
  <2>1. 0 \in 0..MaxRows
    BY SamlAssumption
  <2> QED BY <1>1, <2>1 DEF Closed, TabRequests
<1> HIDE DEF r
<1> QED BY <1>2, <1>3, SendingKeeps

LEMMA SendLoginKeeps ==
  ASSUME SamlInv, NEW t \in Tabs, NEW n \in SamlUsers, SendLogin(t, n)
  PROVE  SamlInv'
<1> DEFINE ph == IF userRow[n] = 0 THEN "closed" ELSE "verify"
           k == userRow[n]
<1>1. cookie \in Sessions /\ k \in 0..MaxRows
  BY DEF SamlInv, SamlTypeOK
<1>2. ph \in {"closed", "verify"} /\ (ph = "verify" => k # 0)
  OBVIOUS
<1>3. SendTab(t, [Closed EXCEPT !.kind = "login", !.phase = ph, !.session = cookie, !.name = n, !.created = k])
  BY DEF SendLogin
<1> HIDE DEF ph, k
<1> DEFINE r == [Closed EXCEPT !.kind = "login", !.phase = ph, !.session = cookie, !.name = n, !.created = k]
<1>4. r \in TabRequests /\ r.kind = "login" /\ r.phase = ph /\ r.session = cookie /\ r.name = n /\ r.created = k
  BY <1>1, <1>2 DEF Closed, TabRequests
<1>5. SendTab(t, r)
  BY <1>3
<1>6. ph = "verify" => k \in 1..MaxRows
  BY <1>1, <1>2, SamlAssumption
<1> HIDE DEF r
<1> QED BY <1>2, <1>4, <1>5, <1>6, SendingKeeps

(* The request of a tab, opened: its session is a proven one. *)
LEMMA OpenTab ==
  ASSUME SamlInv, NEW t \in Tabs, tab[t].phase # "closed"
  PROVE  tab[t] \in TabRequests /\ tab[t].session \in Sessions /\ SessionProven(tab[t].session) /\ TabSound(tab[t])
BY RequestParts DEF SamlInv, SamlTypeOK, TabSound

LEMMA RecordProves ==
  ASSUME SamlInv, NEW t \in Tabs, tab[t].phase # "closed"
  PROVE  SessionProven(RecordPending(t))
<1> DEFINE s == RecordPending(t)
<1>1. s.user # NoOne => s.user = tab[t].session.user /\ s.created = tab[t].session.created
  BY RecordKeeps DEF SamlInv
<1>2. SessionProven(tab[t].session)
  BY OpenTab
<1> HIDE DEF s
<1> QED BY <1>1, <1>2 DEF SessionProven, s

LEMMA StartSsoKeeps ==
  ASSUME SamlInv, NEW t \in Tabs, StartSso(t)
  PROVE  SamlInv'
<1> DEFINE q == RecordPending(t)
           s == CurrentUser(q)
           r == [tab[t] EXCEPT !.phase = "respond", !.session = s, !.name = s.user, !.created = s.created]
<1>1. tab[t].phase = "parse" /\ UNCHANGED <<userRows, time, sent, history>>
  BY DEF StartSso
<1>2. UNCHANGED <<userRow, created, proven, asserted, answered, shared>>
  BY <1>1 DEF userRows, history
<1>3. tab[t] \in TabRequests /\ TabSound(tab[t]) /\ SessionProven(q)
  BY <1>1, OpenTab, RecordProves
<1>4. q \in Sessions /\ q.pending = tab[t].id /\ (q.user # NoOne => tab[t].id \notin ForcedRequests)
  BY RecordKeeps DEF SamlInv
<1>5. /\ s \in Sessions /\ s.pending = tab[t].id
      /\ s.user # NoOne => /\ s.user \in SamlUsers /\ s.created \in 1..MaxRows /\ <<s.user, s.created>> \in proven
                           /\ tab[t].id \notin ForcedRequests
  <2> HIDE DEF q
  <2> QED BY <1>3, <1>4, CurrentKeeps DEF SamlInv
<1>6. SessionProven(s)
  <2> HIDE DEF s
  <2> QED BY <1>5, SamlAssumption DEF SessionProven
<1>7. \/ Close(t) /\ UNCHANGED cookie
      \/ s.user = NoOne /\ cookie' = s /\ Close(t)
      \/ s.user # NoOne /\ tab' = [tab EXCEPT ![t] = r] /\ UNCHANGED cookie
  BY <1>3 DEF StartSso, SamlInv, SamlTypeOK
<1> HIDE DEF s, q
<1>8. CASE Close(t) /\ UNCHANGED cookie
  BY <1>1, <1>2, <1>8, CookieStays, ClosingKeeps
<1>9. CASE s.user = NoOne /\ cookie' = s /\ Close(t)
  <2>1. cookie' \in Sessions /\ SessionProven(cookie)'
    BY <1>2, <1>5, <1>9 DEF SessionProven
  <2>2. proven \subseteq proven' /\ asserted' \subseteq proven'
    BY <1>2 DEF SamlInv, ResponsesAreProven
  <2>3. \A i \in SsoRequests : cookie'.pending = i => cookie.pending = i \/ HoldsId(tab[t], i)
    BY <1>1, <1>5, <1>9 DEF HoldsId
  <2> QED BY <1>1, <1>2, <1>9, <2>1, <2>2, <2>3, ClosingKeeps
<1>10. CASE s.user # NoOne /\ tab' = [tab EXCEPT ![t] = r] /\ UNCHANGED cookie
  <2>1. s.user \in SamlUsers /\ s.created \in 0..MaxRows
    BY <1>5, <1>10, SamlAssumption
  <2>2. /\ r \in TabRequests /\ r.phase = "respond" /\ r.session = s
        /\ r.name = s.user /\ r.created = s.created /\ r.id = tab[t].id
    BY <1>3, <1>5, <2>1 DEF TabRequests
  <2>3. PICK a : a = r
    OBVIOUS
  <2>4. tab' = [tab EXCEPT ![t] = a]
    BY <1>10, <2>3
  <2>5. a \in TabRequests /\ a.phase = "respond" /\ a.id = tab[t].id /\ a.session.pending = tab[t].id
    BY <1>5, <2>2, <2>3
  <2>6. /\ a.session.user = a.name /\ a.session.created = a.created /\ a.created # 0
        /\ <<a.name, a.created>> \in proven' /\ a.id \notin ForcedRequests
    BY <1>2, <1>5, <1>10, <2>2, <2>3
  <2> HIDE DEF r
  <2>7. TabSound(a)'
    BY <2>5, <2>6 DEF TabSound, SessionProven
  <2>8. ASSUME NEW i \in SsoRequests \ shared' PROVE IdSound(i)'
    <3>1. HoldsId(a, i) => HoldsId(tab[t], i)
      BY <1>1, <2>5 DEF HoldsId
    <3> QED BY <1>2, <1>10, <2>4, <2>5, <3>1, IdsStaySound
  <2>9. answered' \in [SsoRequests -> 0..2]
    BY <1>2 DEF SamlInv, SamlTypeOK
  <2> QED BY <1>1, <1>2, <1>10, <2>4, <2>5, <2>7, <2>8, <2>9, CookieStays, RequestStep
<1> QED BY <1>7, <1>8, <1>9, <1>10

LEMMA LoginKeeps ==
  ASSUME SamlInv, NEW t \in Tabs, Login(t)
  PROVE  SamlInv'
<1> DEFINE q == ReadSession(tab[t].session)
           s == [q EXCEPT !.user = tab[t].name, !.created = tab[t].created]
           r == [tab[t] EXCEPT !.phase = "respond", !.session = s, !.id = s.pending]
<1>1. tab[t].phase = "verify" /\ UNCHANGED <<userRows, time, sent, asserted, answered, shared>>
  BY DEF Login
<1>2. UNCHANGED <<userRow, created, time, asserted, answered, shared>>
  BY <1>1 DEF userRows
<1>3. tab[t] \in TabRequests /\ TabSound(tab[t]) /\ tab[t].session \in Sessions /\ SamlTypeOK
  BY <1>1, OpenTab DEF SamlInv
<1>4. tab[t].kind = "login" /\ tab[t].name \in SamlUsers /\ tab[t].created \in 1..MaxRows
  BY <1>1, <1>3 DEF TabSound
<1>5. q \in Sessions /\ q.pending \in {tab[t].session.pending, NoOne}
  BY <1>3, ReadKeeps
<1>6. \/ Close(t) /\ UNCHANGED <<cookie, proven>>
      \/ /\ proven' = proven \cup {<<s.user, s.created>>}
         /\ \/ s.pending = NoOne /\ cookie' = s /\ Close(t)
            \/ s.pending # NoOne /\ tab' = [tab EXCEPT ![t] = r] /\ UNCHANGED cookie
  BY <1>3 DEF Login, SamlTypeOK
<1> HIDE DEF q
<1>7. tab[t].created \in 0..MaxRows
  BY <1>4, SamlAssumption
<1>8. s \in Sessions /\ s.user = tab[t].name /\ s.created = tab[t].created /\ s.pending = q.pending
  BY <1>4, <1>5, <1>7 DEF Sessions
<1> HIDE DEF s
<1>9. CASE Close(t) /\ UNCHANGED <<cookie, proven>>
  BY <1>1, <1>2, <1>9, CookieStays, ClosingKeeps
<1>10. CASE proven' = proven \cup {<<s.user, s.created>>}
  <2>1. PICK c : c = s
    OBVIOUS
  <2>2. c \in Sessions /\ SessionProven(c)'
    BY <1>4, <1>8, <1>10, <2>1 DEF SessionProven
  <2>3. proven \subseteq proven' /\ asserted' \subseteq proven'
    BY <1>2, <1>10 DEF SamlInv, ResponsesAreProven
  <2>4. CASE s.pending = NoOne /\ cookie' = s /\ Close(t)
    <3>1. cookie' = c
      BY <2>1, <2>4
    <3>2. cookie' \in Sessions /\ SessionProven(cookie)'
      BY <2>2, <3>1 DEF SessionProven
    <3>3. \A i \in SsoRequests : cookie'.pending # i
      BY <2>4, SamlAssumption
    <3> QED BY <1>1, <1>2, <2>3, <2>4, <3>2, <3>3, ClosingKeeps
  <2>5. CASE s.pending # NoOne /\ tab' = [tab EXCEPT ![t] = r] /\ UNCHANGED cookie
    <3>1. s.pending \in SsoRequests
      BY <1>8, <2>5 DEF Sessions
    <3>2. /\ r \in TabRequests /\ r.phase = "respond" /\ r.session = s /\ r.kind = "login"
          /\ r.name = tab[t].name /\ r.created = tab[t].created /\ r.id = s.pending
      BY <1>3, <1>4, <1>8, <3>1 DEF TabRequests
    <3>3. PICK a : a = r
      OBVIOUS
    <3>4. tab' = [tab EXCEPT ![t] = a]
      BY <2>5, <3>3
    <3>5. /\ a \in TabRequests /\ a.phase = "respond" /\ a.session = c /\ a.kind = "login" /\ a.id = c.pending
          /\ c.pending # NoOne /\ c.pending \in {tab[t].session.pending, NoOne}
      BY <1>5, <1>8, <2>1, <2>5, <3>2, <3>3
    <3>6. <<a.name, a.created>> \in proven'
      BY <1>8, <1>10, <3>2, <3>3
    <3> HIDE DEF r
    <3>7. TabSound(a)'
      BY <2>2, <3>5, <3>6 DEF TabSound
    <3>8. ASSUME NEW i \in SsoRequests \ shared' PROVE IdSound(i)'
      <4>1. HoldsId(a, i) => HoldsId(tab[t], i)
        BY <1>1, <3>5 DEF HoldsId
      <4> QED BY <1>2, <2>5, <3>4, <3>5, <4>1, IdsStaySound
    <3>9. answered' \in [SsoRequests -> 0..2]
      BY <1>2 DEF SamlInv, SamlTypeOK
    <3>10. cookie' \in Sessions /\ SessionProven(cookie)'
      BY <2>3, <2>5 DEF SamlInv, SamlTypeOK, SessionProven
    <3> QED BY <1>2, <2>3, <3>4, <3>5, <3>7, <3>8, <3>9, <3>10, RequestStep
  <2> QED BY <1>6, <1>9, <2>4, <2>5
<1> QED BY <1>6, <1>9, <1>10

LEMMA RespondKeeps ==
  ASSUME SamlInv, NEW t \in Tabs, Respond(t)
  PROVE  SamlInv'
<1> DEFINE r == Closed
           c == [tab[t].session EXCEPT !.pending = NoOne]
<1>1. /\ tab[t].phase = "respond" /\ cookie' = c /\ asserted' = asserted \cup {<<tab[t].name, tab[t].created>>}
      /\ answered' = [i \in SsoRequests |-> answered[i] + IF i = tab[t].id /\ answered[i] < 2 THEN 1 ELSE 0]
      /\ tab' = [tab EXCEPT ![t] = r] /\ UNCHANGED <<userRow, created, time, proven, shared>>
  BY DEF Respond, Assertion, Close, userRows
<1>2. TabSound(tab[t]) /\ tab[t].session \in Sessions /\ SessionProven(tab[t].session) /\ SamlTypeOK
  BY <1>1, OpenTab DEF SamlInv
<1>3. c \in Sessions /\ c.user = tab[t].session.user /\ c.created = tab[t].session.created /\ c.pending = NoOne
  BY <1>2 DEF Sessions
<1>4. r \in TabRequests /\ r.phase = "closed"
  BY ClosedTab
<1> HIDE DEF r, c
<1>5. cookie' \in Sessions /\ SessionProven(cookie)' /\ cookie'.pending = NoOne
  BY <1>1, <1>2, <1>3 DEF SessionProven
<1>6. asserted' \subseteq proven'
  BY <1>1, <1>2 DEF TabSound, SamlInv, ResponsesAreProven
<1>7. TabSound(r)'
  BY <1>4 DEF TabSound
<1>8. answered' \in [SsoRequests -> 0..2]
  BY <1>1, <1>2 DEF SamlTypeOK
<1>9. ASSUME NEW i \in SsoRequests \ shared' PROVE IdSound(i)'
  <2>1. IdSound(i) /\ tab \in [Tabs -> TabRequests] /\ answered[i] \in 0..2
    BY <1>1, <1>2 DEF SamlInv, SamlTypeOK
  <2>2. \A u \in Tabs : tab'[u] = IF u = t THEN r ELSE tab[u]
    BY <1>1, <2>1
  <2>3. \A u \in Tabs : HoldsId(tab'[u], i) => u # t /\ HoldsId(tab[u], i)
    BY <1>4, <2>2 DEF HoldsId
  <2>4. cookie'.pending # i
    BY <1>5, SamlAssumption
  <2>5. CASE i = tab[t].id
    <3>1. HoldsId(tab[t], i)
      BY <1>1, <2>5 DEF HoldsId
    <3>2. answered[i] = 0 /\ \A u \in Tabs : HoldsId(tab[u], i) => u = t
      BY <2>1, <3>1 DEF IdSound
    <3>3. answered'[i] = 1
      BY <1>1, <2>5, <3>2
    <3>4. \A u \in Tabs : ~HoldsId(tab'[u], i)
      BY <2>3, <3>2
    <3> QED BY <2>4, <3>3, <3>4 DEF IdSound
  <2>6. CASE i # tab[t].id
    <3>1. answered'[i] = answered[i]
      BY <1>1, <2>1, <2>6
    <3> QED BY <2>1, <2>3, <2>4, <3>1 DEF IdSound
  <2> QED BY <2>5, <2>6
<1> QED BY <1>1, <1>4, <1>5, <1>6, <1>7, <1>8, <1>9, RequestStep

(* Steps that open and close no request and answer none. *)
LEMMA OutsideKeeps ==
  ASSUME SamlInv, UNCHANGED <<tab, proven, asserted, answered, shared>>,
         userRow' \in [SamlUsers -> 0..MaxRows], created' \in [SamlUsers -> 1..MaxRows], time' \in 0..MaxTime,
         (\A n \in SamlUsers : userRow[n] <= created[n])',
         cookie' \in {cookie, NoSession}
  PROVE  SamlInv'
<1>1. cookie' \in Sessions
  BY EmptySession DEF SamlInv, SamlTypeOK
<1>2. SamlTypeOK'
  BY <1>1 DEF SamlInv, SamlTypeOK
<1>3. SessionProven(cookie)'
  BY EmptySession DEF SamlInv, SessionProven
<1>4. (\A t \in Tabs : TabSound(tab[t]))'
  BY DEF SamlInv, TabSound, SessionProven
<1>5. \A i \in SsoRequests : cookie'.pending = i => cookie.pending = i
  BY EmptySession, SamlAssumption
<1>6. (\A i \in SsoRequests \ shared : IdSound(i))'
  BY <1>5 DEF SamlInv, IdSound, HoldsId
<1> QED BY <1>2, <1>3, <1>4, <1>6 DEF SamlInv, ResponsesAreProven

LEMMA RowsKeep ==
  ASSUME SamlInv, NEW n \in SamlUsers, RemoveUser(n) \/ RecreateUser(n)
  PROVE  SamlInv'
<1>1. /\ userRow \in [SamlUsers -> 0..MaxRows] /\ created \in [SamlUsers -> 1..MaxRows] /\ time \in 0..MaxTime
      /\ \A m \in SamlUsers : userRow[m] <= created[m]
  BY DEF SamlInv, SamlTypeOK
<1>2. UNCHANGED <<tab, proven, asserted, answered, shared, time, cookie>>
  BY DEF RemoveUser, RecreateUser, history
<1>3. userRow' \in [SamlUsers -> 0..MaxRows] /\ created' \in [SamlUsers -> 1..MaxRows]
  BY <1>1, SamlAssumption DEF RemoveUser, RecreateUser
<1>4. (\A m \in SamlUsers : userRow[m] <= created[m])'
  BY <1>1, SamlAssumption DEF RemoveUser, RecreateUser
<1> QED BY <1>1, <1>2, <1>3, <1>4, OutsideKeeps

LEMMA LogoutAndTimeKeep == ASSUME SamlInv, Logout \/ SamlTick PROVE SamlInv'
<1>1. /\ userRow \in [SamlUsers -> 0..MaxRows] /\ created \in [SamlUsers -> 1..MaxRows] /\ time \in 0..MaxTime
      /\ \A m \in SamlUsers : userRow[m] <= created[m]
  BY DEF SamlInv, SamlTypeOK
<1>2. UNCHANGED <<userRow, created, tab, proven, asserted, answered, shared>> /\ cookie' \in {cookie, NoSession}
  BY DEF Logout, SamlTick, history, userRows
<1>3. time' \in 0..MaxTime
  BY <1>1, SamlAssumption DEF Logout, SamlTick
<1> QED BY <1>1, <1>2, <1>3, OutsideKeeps

LEMMA SamlStep == SamlInv /\ [SamlNext]_samlVars => SamlInv'
<1> SUFFICES ASSUME SamlInv, [SamlNext]_samlVars PROVE SamlInv'
  OBVIOUS
<1>1. ASSUME NEW t \in Tabs, NEW id \in SsoRequests \cup {NoOne}, SendSso(t, id) PROVE SamlInv'
  BY <1>1, SendSsoKeeps
<1>2. ASSUME NEW t \in Tabs, NEW n \in SamlUsers, SendLogin(t, n) PROVE SamlInv'
  BY <1>2, SendLoginKeeps
<1>3. ASSUME NEW t \in Tabs, StartSso(t) \/ Login(t) \/ Respond(t) PROVE SamlInv'
  BY <1>3, StartSsoKeeps, LoginKeeps, RespondKeeps
<1>4. CASE Logout \/ SamlTick
  BY <1>4, LogoutAndTimeKeep
<1>5. ASSUME NEW n \in SamlUsers, RemoveUser(n) \/ RecreateUser(n) PROVE SamlInv'
  BY <1>5, RowsKeep
<1>6. CASE UNCHANGED samlVars
  <2>1. UNCHANGED <<userRow, created, cookie, tab, time, proven, asserted, answered, shared>>
    BY <1>6 DEF samlVars
  <2>2. /\ userRow \in [SamlUsers -> 0..MaxRows] /\ created \in [SamlUsers -> 1..MaxRows] /\ time \in 0..MaxTime
        /\ \A m \in SamlUsers : userRow[m] <= created[m]
    BY DEF SamlInv, SamlTypeOK
  <2> QED BY <2>1, <2>2, OutsideKeeps
<1> QED BY <1>1, <1>2, <1>3, <1>4, <1>5, <1>6 DEF SamlNext

(* Whatever the tabs of the browser send and in whatever order their answers
   come, every response, the unsolicited one after a visit without an
   AuthnRequest included, names a row whose password was given here; a request
   is answered once and a forced one only after a password
   (respondSaml, currentUser, recordPendingRequest). *)
THEOREM SessionStaysSafe == SamlSpec => []SessionIsSafe
<1>1. SamlInv => SessionIsSafe
  <2> SUFFICES ASSUME SamlInv PROVE SessionIsSafe
    OBVIOUS
  <2>1. AnsweredOnce
    BY DEF SamlInv, IdSound, AnsweredOnce
  <2>2. ForcedMeansPassword
    BY DEF SamlInv, TabSound, ForcedMeansPassword
  <2> QED BY <2>1, <2>2 DEF SamlInv, SessionIsSafe
<1> QED BY <1>1, SamlStarts, SamlStep, PTL DEF SamlSpec

-----------------------------------------------------------------------------
(* The import of SCIM users. *)

ScimRows == {Nobody} \cup [name: SsoNames, data: 1..2]
PlanRows == [name: SsoNames \cup {Nobody}, status: Pending \cup Final \cup {"none"}, data: 0..2]
LocalRows == {Nobody} \cup [id: ScimIds \cup {Nobody}, pool: BOOLEAN, data: 0..2]
NoRows == [i \in ScimIds |-> NoPlanRow]

(* Rows exist while their plan does, and a row to apply has the name of a user. *)
PlanIsSound ==
  /\ plan \notin {"planned", "applied"} => planRows = NoRows
  /\ \A i \in ScimIds : planRows[i].status \in Pending => planRows[i].name \in SsoNames

EmuInv == ImportTypeOK /\ seen \in [ScimIds -> ScimRows] /\ PlanIsSound

LEMMA PlanTypes ==
  /\ NoPlanRow \in PlanRows /\ NoRows \in [ScimIds -> PlanRows]
  /\ \A i \in ScimIds : NoRows[i].status \notin Pending \cup Final
BY DEF NoPlanRow, PlanRows, NoRows, Pending, Final

(* A nonempty finite set of numbers has a last one. *)
LEMMA LastNumber ==
  ASSUME NEW S \in SUBSET Nat, IsFiniteSet(S), S # {}
  PROVE  \E x \in S : \A y \in S : y <= x
<1> DEFINE f == [x \in S |-> {z \in S : x < z}]
           T == {f[x] : x \in S}
<1>2. f \in [S -> SUBSET S] /\ \A x \in S : f[x] = {z \in S : x < z}
  OBVIOUS
<1> HIDE DEF f
<1>3. T \subseteq SUBSET S /\ T # {}
  BY <1>2
<1>4. T \subseteq FiniteSubsetsOf(S)
  <2> HIDE DEF T
  <2> QED
    BY <1>3, FS_Subset DEF FiniteSubsetsOf
<1>5. PICK D \in T : \A E \in T : ~(<<E, D>> \in StrictSubsetOrdering(S))
  <2> HIDE DEF T
  <2> QED
    BY <1>3, <1>4, FS_StrictSubsetOrderingWellFounded, WFMin
<1>6. PICK x \in S : D = f[x]
  OBVIOUS
<1>7. ASSUME NEW y \in S, x < y PROVE FALSE
  <2>1. x \in Nat /\ y \in Nat /\ f[x] \in SUBSET S /\ f[y] \in SUBSET S
    BY <1>2
  <2>2. y \in f[x] /\ y \notin f[y]
    BY <1>7, <1>2, <2>1
  <2>3. ASSUME NEW z \in f[y] PROVE z \in f[x]
    <3>1. z \in S /\ z \in Nat
      BY <2>1
    <3>2. y < z => x < z
      BY <1>7, <2>1, <3>1
    <3> QED
      BY <1>2, <3>1, <3>2
  <2>4. <<f[y], f[x]>> \in StrictSubsetOrdering(S)
    BY <2>1, <2>2, <2>3 DEF StrictSubsetOrdering
  <2> QED
    BY <1>5, <1>6, <2>4
<1> QED
  BY <1>7

(* localUserIndex finds a user with the id, if there is one. *)
LEMMA IdIsFound ==
  ASSUME NEW i \in ScimIds, BoundTo(i) # {}
  PROVE  ByScimId(i) \in BoundTo(i)
<1>1. BoundTo(i) \subseteq SsoNames
  BY DEF BoundTo
<1> QED
  BY <1>1, LastNumber, EmuImportAssumption, FS_Subset DEF ByScimId

(* What an applied plan writes: users of rows that were to be applied and are not stale. *)
LEMMA WhatIsApplied ==
  ASSUME EmuInv, NEW a \in Appliers, Apply(a), NEW n \in SsoNames, local'[n] # local[n]
  PROVE  \E i \in PendingRows : ~StaleConflict(i) /\ planRows[i].name = n /\ ~Aborts /\ local'[n] = ImportedUser(i)
<1>1. /\ ~Aborts
      /\ \E fit \in SUBSET Creations(a) : local' = Written(fit \cup Updates)
  BY DEF Apply
<1>2. PICK fit \in SUBSET Creations(a) : local' = Written(fit \cup Updates)
  BY <1>1
<1> DEFINE rows == fit \cup Updates
<1>3. \A i \in rows : i \in PendingRows /\ ~StaleConflict(i)
  BY DEF Creations, Updates
<1> HIDE DEF rows
<1>4. local' = Written(rows)
  BY <1>2 DEF rows
<1>5. \E i \in rows : planRows[i].name = n
  BY <1>4 DEF Written
<1>6. PICK i \in rows : planRows[i].name = n /\ i = CHOOSE j \in rows : planRows[j].name = n
  BY <1>5
<1>7. local'[n] = ImportedUser(i)
  BY <1>4, <1>5, <1>6 DEF Written
<1> QED
  BY <1>1, <1>3, <1>6, <1>7

(* A newly bound user is the only one with its SCIM user. *)
LEMMA AppliedIsAlone ==
  ASSUME EmuInv, NEW a \in Appliers, Apply(a), NEW i \in ScimIds, Cardinality(BoundTo(i)') > 1
  PROVE  BoundTo(i)' \subseteq BoundTo(i)
<1> SUFFICES ASSUME NEW n \in BoundTo(i)', n \notin BoundTo(i)
             PROVE  FALSE
  OBVIOUS
<1>1. n \in SsoNames /\ local'[n].id = i /\ local'[n] # local[n]
  BY DEF BoundTo
<1>2. PICK j \in PendingRows : ~StaleConflict(j) /\ planRows[j].name = n /\ local'[n] = ImportedUser(j)
  BY <1>1, WhatIsApplied
<1>3. j = i /\ planRows[i].name = n /\ i \in PendingRows
  BY <1>1, <1>2 DEF ImportedUser
<1>4. BoundTo(i) = {}
  BY <1>2, <1>3, IdIsFound DEF StaleConflict, Binds
<1>5. ASSUME NEW m \in BoundTo(i)' PROVE m = n
  <2>1. m \in SsoNames /\ local'[m].id = i /\ local'[m] # local[m]
    BY <1>4 DEF BoundTo
  <2>2. PICK k \in PendingRows : planRows[k].name = m /\ local'[m] = ImportedUser(k)
    BY <2>1, WhatIsApplied
  <2> QED
    BY <1>3, <2>1, <2>2 DEF ImportedUser
<1>6. BoundTo(i)' = {n}
  BY <1>5
<1>7. Cardinality({n}) = 1
  BY ONLY FS_Singleton
<1>8. Cardinality(BoundTo(i)') > 1
  OBVIOUS
<1> QED
  BY ONLY <1>6, <1>7, <1>8

(* Nothing else finishes a request that applies the plan. *)
LEMMA OnlyApplyApplies ==
  ASSUME EmuInv, [ImportNext]_importVars, NEW a \in Appliers, Applied(a)
  PROVE  \E b \in Appliers : Apply(b)
<1>1. CASE UNCHANGED applier
  BY <1>1 DEF Applied
<1>2. ASSUME NEW b \in Appliers, HashPasswords(b)
      PROVE  FALSE
  BY <1>2 DEF HashPasswords, Applied, EmuInv, ImportTypeOK
<1> QED
  BY <1>1, <1>2 DEF ImportNext, importVars, ReadGitHub, CreatePlan, DeletePlan, CreateLocal, BindLocal,
                    DeleteLocal, ChangeRemote, Other

-----------------------------------------------------------------------------
LEMMA EmuStarts ==
  ASSUME ImportInit
  PROVE  EmuInv
<1>1. /\ local \in [SsoNames -> LocalRows] /\ remote \in [ScimIds -> ScimRows] /\ seen \in [ScimIds -> ScimRows]
      /\ applier \in [Appliers -> [phase: {"idle", "hashing", "done", "failed"}, hashed: SUBSET ScimIds]]
      /\ others \in 0..MaxOthers /\ plan = "none" /\ planRows = NoRows
  BY EmuImportAssumption DEF ImportInit, LocalRows, ScimRows, NoRows
<1> QED
  BY <1>1, PlanTypes DEF EmuInv, ImportTypeOK, PlanIsSound, LocalRows, ScimRows, PlanRows

(* A step outside the plan keeps it. *)
LEMMA OutsideThePlan ==
  ASSUME EmuInv, UNCHANGED <<seen, plan, planRows, applier>>,
         local' \in [SsoNames -> LocalRows], remote' \in [ScimIds -> ScimRows], others' \in 0..MaxOthers
  PROVE  EmuInv'
BY DEF EmuInv, ImportTypeOK, PlanIsSound, LocalRows, ScimRows

LEMMA OthersKeep ==
  ASSUME EmuInv, \/ \E n \in SsoNames : BindLocal(n) \/ DeleteLocal(n) \/ \E pool \in BOOLEAN : CreateLocal(n, pool)
                 \/ \E i \in ScimIds : ChangeRemote(i)
  PROVE  EmuInv'
<1>1. Other /\ others' \in 0..MaxOthers
  BY EmuImportAssumption DEF BindLocal, DeleteLocal, CreateLocal, ChangeRemote, Other, EmuInv, ImportTypeOK
<1>2. local \in [SsoNames -> LocalRows] /\ remote \in [ScimIds -> ScimRows]
  BY DEF EmuInv, ImportTypeOK, LocalRows, ScimRows
<1>3. ASSUME NEW n \in SsoNames, NEW pool \in BOOLEAN, CreateLocal(n, pool)
      PROVE  EmuInv'
  <2>1. [id |-> Nobody, pool |-> pool, data |-> 0] \in LocalRows
    BY DEF LocalRows
  <2> QED
    BY <1>1, <1>2, <1>3, <2>1, OutsideThePlan DEF CreateLocal, Other
<1>4. ASSUME NEW n \in SsoNames, BindLocal(n)
      PROVE  EmuInv'
  <2>1. PICK i \in ScimIds : /\ remote[i] # Nobody
                             /\ local' = [local EXCEPT ![n].id = i, ![n].data = remote[i].data]
    BY <1>4 DEF BindLocal
  <2>2. remote[i].data \in 0..2
    BY <1>2, <2>1 DEF ScimRows
  <2>3. local[n] # Nobody /\ UNCHANGED remote
    BY <1>4 DEF BindLocal
  <2> DEFINE bound == [local[n] EXCEPT !.id = i, !.data = remote[i].data]
  <2>4. bound \in LocalRows
    BY <1>2, <2>2, <2>3 DEF LocalRows
  <2>5. local' = [local EXCEPT ![n] = bound]
    BY <2>1
  <2> HIDE DEF bound
  <2>6. local' \in [SsoNames -> LocalRows]
    BY <1>2, <2>4, <2>5
  <2> QED
    BY <1>1, <1>2, <2>3, <2>6, OutsideThePlan DEF Other
<1>5. ASSUME NEW n \in SsoNames, DeleteLocal(n)
      PROVE  EmuInv'
  <2>1. local' \in [SsoNames -> LocalRows] /\ remote' \in [ScimIds -> ScimRows]
    BY <1>2, <1>5 DEF DeleteLocal, LocalRows, ScimRows
  <2> QED
    BY <1>1, <2>1, OutsideThePlan DEF Other
<1>6. ASSUME NEW i \in ScimIds, ChangeRemote(i)
      PROVE  EmuInv'
  <2>1. remote' \in [ScimIds -> ScimRows]
    <3>1. PICK n \in SsoNames : remote' = [remote EXCEPT ![i] = [name |-> n, data |-> 2]]
      BY <1>6 DEF ChangeRemote
    <3>2. [name |-> n, data |-> 2] \in ScimRows
      BY DEF ScimRows
    <3> QED
      BY <1>2, <3>1, <3>2
  <2>2. UNCHANGED local
    BY <1>6 DEF ChangeRemote
  <2> QED
    BY <1>1, <1>2, <2>1, <2>2, OutsideThePlan DEF Other
<1> QED
  BY <1>3, <1>4, <1>5, <1>6

LEMMA PlanKeeps ==
  ASSUME EmuInv, ReadGitHub \/ CreatePlan \/ DeletePlan
  PROVE  EmuInv'
<1>1. UNCHANGED <<local, remote, applier, others>> /\ plan' \in {"reading", "planned", "deleted"}
  BY DEF ReadGitHub, CreatePlan, DeletePlan
<1>2. seen' \in [ScimIds -> ScimRows]
  BY DEF ReadGitHub, CreatePlan, DeletePlan, EmuInv, ImportTypeOK, ScimRows
<1>3. planRows' \in [ScimIds -> PlanRows] /\ PlanIsSound'
  <2>1. CASE ReadGitHub \/ DeletePlan
    <3>1. planRows' = NoRows
      BY <2>1 DEF ReadGitHub, DeletePlan, NoRows, EmuInv, PlanIsSound
    <3> QED
      BY <3>1, PlanTypes DEF PlanIsSound
  <2>2. CASE CreatePlan
    <3>1. ASSUME NEW i \in ScimIds, seen[i] # Nobody
          PROVE  PlannedRow(i) \in PlanRows /\ PlannedRow(i).name \in SsoNames
      <4>1. seen[i] \in [name: SsoNames, data: 1..2]
        BY <3>1 DEF EmuInv, ScimRows
      <4>2. seen[i].name \in SsoNames /\ seen[i].data \in 0..2
        BY <4>1
      <4> QED
        BY <4>2 DEF PlannedRow, PlanRows, Pending, Final
    <3>2. planRows' = [i \in ScimIds |-> IF seen[i] = Nobody THEN NoPlanRow ELSE PlannedRow(i)] /\ plan' = "planned"
      BY <2>2 DEF CreatePlan
    <3>3. planRows' \in [ScimIds -> PlanRows]
      BY <3>1, <3>2, PlanTypes
    <3>4. NoPlanRow.status \notin Pending
      BY DEF NoPlanRow, Pending
    <3> QED
      BY <3>1, <3>2, <3>3, <3>4 DEF PlanIsSound
  <2> QED
    BY <2>1, <2>2
<1> QED
  BY <1>1, <1>2, <1>3 DEF EmuInv, ImportTypeOK, PlanRows

LEMMA HashKeeps ==
  ASSUME EmuInv, NEW a \in Appliers, HashPasswords(a)
  PROVE  EmuInv'
<1>1. UNCHANGED <<local, remote, seen, plan, planRows, others>>
  BY DEF HashPasswords
<1>2. applier' \in [Appliers -> [phase: {"idle", "hashing", "done", "failed"}, hashed: SUBSET ScimIds]]
  <2> DEFINE rows == {i \in PendingRows : planRows[i].status = "pending_create"}
  <2>1. rows \in SUBSET ScimIds
    BY DEF PendingRows
  <2>2. applier' = [applier EXCEPT ![a] = [phase |-> "hashing", hashed |-> rows]]
    BY DEF HashPasswords
  <2> HIDE DEF rows
  <2> QED
    BY <2>1, <2>2 DEF EmuInv, ImportTypeOK
<1> QED
  BY <1>1, <1>2 DEF EmuInv, ImportTypeOK, PlanIsSound

LEMMA ApplyKeeps ==
  ASSUME EmuInv, NEW a \in Appliers, Apply(a)
  PROVE  EmuInv'
<1>1. UNCHANGED <<remote, seen, others>>
  BY DEF Apply
<1>2. applier' \in [Appliers -> [phase: {"idle", "hashing", "done", "failed"}, hashed: SUBSET ScimIds]]
  <2> DEFINE closed(p) == [phase |-> p, hashed |-> {}]
             Requests == [phase: {"idle", "hashing", "done", "failed"}, hashed: SUBSET ScimIds]
  <2>1. closed("failed") \in Requests /\ closed("done") \in Requests
    OBVIOUS
  <2>2. \/ applier' = [applier EXCEPT ![a] = closed("failed")]
        \/ applier' = [applier EXCEPT ![a] = closed("done")]
    <3>1. CASE plan = "deleted" \/ Aborts
      BY <3>1 DEF Apply
    <3>2. CASE ~(plan = "deleted" \/ Aborts)
      BY <3>2 DEF Apply
    <3> QED
      BY <3>1, <3>2
  <2>3. applier \in [Appliers -> Requests]
    BY DEF EmuInv, ImportTypeOK
  <2> HIDE DEF closed, Requests
  <2>4. applier' \in [Appliers -> Requests]
    BY <2>1, <2>2, <2>3
  <2> QED
    BY <2>4 DEF Requests
<1>3. local' \in [SsoNames -> LocalRows]
  <2>1. CASE plan = "deleted" \/ Aborts
    BY <2>1 DEF Apply, EmuInv, ImportTypeOK, LocalRows
  <2>2. CASE ~(plan = "deleted" \/ Aborts)
    <3>1. PICK fit \in SUBSET Creations(a) : local' = Written(fit \cup Updates)
      BY <2>2 DEF Apply
    <3>2. ASSUME NEW n \in SsoNames
          PROVE  local'[n] \in LocalRows
      <4>1. CASE local'[n] = local[n]
        BY <4>1 DEF EmuInv, ImportTypeOK, LocalRows
      <4>2. CASE local'[n] # local[n]
        <5>1. PICK i \in PendingRows : local'[n] = ImportedUser(i)
          BY <4>2, WhatIsApplied
        <5>2. i \in ScimIds /\ planRows[i].data \in 0..2
          BY DEF PendingRows, EmuInv, ImportTypeOK
        <5> QED
          BY <5>1, <5>2 DEF ImportedUser, LocalRows
      <4> QED
        BY <4>1, <4>2
    <3>3. local' = [n \in SsoNames |-> local'[n]]
      BY <3>1 DEF Written
    <3> QED
      BY <3>2, <3>3
  <2> QED
    BY <2>1, <2>2
<1>4. planRows' \in [ScimIds -> PlanRows] /\ PlanIsSound' /\ plan' \in {"none", "reading", "planned", "applied", "deleted"}
  <2>1. CASE plan = "deleted" \/ Aborts
    BY <2>1 DEF Apply, EmuInv, ImportTypeOK, PlanRows, PlanIsSound
  <2>2. CASE ~(plan = "deleted" \/ Aborts)
    <3>1. PICK rows : planRows' = [i \in ScimIds |-> IF i \in PendingRows THEN AppliedRow(i, rows) ELSE planRows[i]]
      BY <2>2 DEF Apply
    <3>2. plan' = "applied"
      BY <2>2 DEF Apply
    <3>3. ASSUME NEW i \in ScimIds
          PROVE  AppliedRow(i, rows) \in PlanRows /\ AppliedRow(i, rows).status \notin Pending
      <4>1. planRows[i] \in PlanRows
        BY DEF EmuInv, ImportTypeOK, PlanRows
      <4> DEFINE word == IF i \in rows THEN IF planRows[i].status = "pending_create" THEN "created" ELSE "updated"
                         ELSE IF StaleConflict(i) THEN "conflict" ELSE "failed"
      <4>2. word \in Final /\ word \notin Pending
        BY DEF Final, Pending
      <4>3. AppliedRow(i, rows) = [planRows[i] EXCEPT !.status = word]
        BY DEF AppliedRow
      <4> HIDE DEF word
      <4> QED
        BY <4>1, <4>2, <4>3 DEF PlanRows
    <3>4. planRows' \in [ScimIds -> PlanRows]
      BY <3>1, <3>3 DEF EmuInv, ImportTypeOK, PlanRows
    <3> QED
      BY <3>1, <3>2, <3>3, <3>4 DEF PlanIsSound, EmuInv
  <2> QED
    BY <2>1, <2>2
<1> QED
  BY <1>1, <1>2, <1>3, <1>4 DEF EmuInv, ImportTypeOK, LocalRows, PlanRows

LEMMA EmuStep == EmuInv /\ [ImportNext]_importVars => EmuInv'
<1> SUFFICES ASSUME EmuInv, [ImportNext]_importVars PROVE EmuInv'
  OBVIOUS
<1>1. CASE UNCHANGED importVars
  BY <1>1 DEF importVars, EmuInv, ImportTypeOK, PlanIsSound
<1> QED
  BY <1>1, OthersKeep, PlanKeeps, HashKeeps, ApplyKeeps DEF ImportNext

(* A decided row stays as it is, unless its plan is deleted. *)
LEMMA DecidedRowStays ==
  ASSUME EmuInv, [ImportNext]_importVars, NEW i \in ScimIds, planRows[i].status \in Final, plan' # "deleted"
  PROVE  planRows'[i] = planRows[i]
<1>1. CASE UNCHANGED planRows
  BY <1>1
<1>2. CASE CreatePlan
  BY <1>2, PlanTypes DEF CreatePlan, EmuInv, PlanIsSound
<1>3. ASSUME NEW a \in Appliers, Apply(a)
      PROVE  planRows'[i] = planRows[i]
  <2>1. i \notin PendingRows
    BY DEF PendingRows, Pending, Final
  <2> QED
    BY <1>3, <2>1 DEF Apply
<1> QED
  BY <1>1, <1>2, <1>3 DEF ImportNext, importVars, ReadGitHub, DeletePlan, HashPasswords, CreateLocal, BindLocal,
                          DeleteLocal, ChangeRemote, Other

(* Applying a plan of GitHub's users that has become stale does no harm
   (staleConflictForRow, applyEmuImportPlan): it binds no SCIM user to a second
   local user, decides a row once, and replaces neither a pool user nor a user
   bound to another SCIM user. *)
THEOREM ImportStaysSafe == ImportSpec => ImportIsSafe
<1>1. EmuInv /\ [ImportNext]_importVars =>
        ((\E a \in Appliers : Applied(a)) =>
           \A i \in ScimIds : Cardinality(BoundTo(i)') > 1 => BoundTo(i)' \subseteq BoundTo(i))
  BY OnlyApplyApplies, AppliedIsAlone
<1>2. EmuInv /\ [ImportNext]_importVars =>
        /\ \A i \in ScimIds : (planRows[i].status \in Final /\ plan' # "deleted") => planRows'[i] = planRows[i]
        /\ \A a \in Appliers : Applied(a) =>
             \A n \in SsoNames : local'[n] # local[n] =>
               /\ \E i \in ScimIds : planRows[i].status \in Pending /\ planRows[i].name = n
               /\ local[n] # Nobody => ~local[n].pool /\ local[n].id \in {Nobody, local'[n].id}
  <2> SUFFICES ASSUME EmuInv, [ImportNext]_importVars, NEW a \in Appliers, Applied(a),
                      NEW n \in SsoNames, local'[n] # local[n]
               PROVE  /\ \E i \in ScimIds : planRows[i].status \in Pending /\ planRows[i].name = n
                      /\ local[n] # Nobody => ~local[n].pool /\ local[n].id \in {Nobody, local'[n].id}
    BY DecidedRowStays
  <2>1. PICK b \in Appliers : Apply(b)
    BY OnlyApplyApplies
  <2>2. PICK i \in PendingRows : ~StaleConflict(i) /\ planRows[i].name = n /\ ~Aborts /\ local'[n] = ImportedUser(i)
    BY <2>1, WhatIsApplied
  <2>3. local[n] # Nobody => ~local[n].pool
    BY <2>2 DEF Aborts
  <2>4. local[n] # Nobody => local[n].id \in {Nobody, i} /\ local'[n].id = i
    BY <2>2 DEF StaleConflict, Binds, ImportedUser
  <2> QED
    BY <2>2, <2>3, <2>4 DEF PendingRows
<1>3. ImportInit => EmuInv
  BY EmuStarts
<1> QED
  BY <1>1, <1>2, <1>3, EmuStep, PTL DEF ImportSpec, ImportIsSafe, OneUserPerScimUser, RowsAreFinal

-----------------------------------------------------------------------------
(* The users of the SSO service. *)

(* A request at one of its awaits. *)
Looking == {"member", "suspend", "seat", "confirm", "scimId", "lookup", "scimName", "proxy", "last",
            "known", "post", "replace"}
Stages == Looking \cup {"hash", "idle", "done", "failed"}

UserRequests ==
  [op: {"none", "ensure", "create", "patch", "sync", "assign"} \cup Destructive, name: UserNames, phase: Stages,
   user: {NoUser} \cup UserRows, flag: BOOLEAN, tries: Nat, found: 0..MaxScimIds]

UserTypes ==
  /\ users \in [UserNames -> {NoUser} \cup UserRows]
  /\ request \in [UserCalls -> UserRequests]
  /\ scim \in [UserNames -> 0..MaxScimIds] /\ seats \in [UserNames -> Confirmed]
  /\ accounts \subseteq UserNames /\ legacy \subseteq UserNames /\ limit \in UserLimits

(* What a request has at its stage; past the question about membership it is
   not about a pool member. *)
StageFits(r) ==
  /\ r.phase \in {"seat", "confirm"} => r.op \in {"sync", "assign"} \cup Destructive
  /\ r.phase = "lookup" => r.op \in {"sync", "delete", "deleteEmu"}
  /\ r.phase \in {"scimId", "scimName", "last"} => r.op \in {"delete", "deleteEmu"}
  /\ r.phase = "proxy" => r.op = "delete"
  /\ r.phase \in Looking => r.op # "ensure" /\ r.user # NoUser
  /\ r.phase = "known" => r.user.id # 0
  /\ r.phase = "replace" => r.found # 0
  /\ r.phase \in Looking \ {"member"} /\ r.op \in Destructive => r.name \notin legacy

(* A request that works alone knows the id of its user, and a deletion knows
   what is gone. *)
Tracks(r) ==
  /\ Exists(r.name) /\ r.user.id = users[r.name].id
  /\ r.phase = "scimName" => r.found = scim[r.name]
  /\ r.phase \in {"proxy", "last"} => scim[r.name] = 0
  /\ r.phase = "last" /\ r.op = "delete" => r.name \notin accounts

(* Requests that work on one user disturb each other; only ensureUser comes
   to a name without notice. *)
DisturbedTogether ==
  \A c, d \in UserCalls :
    (c # d /\ WorkingOn(c) /\ WorkingOn(d) /\ Name(c) = Name(d) /\ Name(c) \notin disturbed) =>
      "ensure" \in {request[c].op, request[d].op}

UsersInv ==
  /\ UserTypes
  /\ \A n \in UserNames : scim[n] = 0 => seats[n] = "unassigned"
  /\ \A n \in legacy : Exists(n) /\ scim[n] # 0
  /\ \A c \in UserCalls : StageFits(request[c])
  /\ DisturbedTogether
  /\ \A c \in UserCalls : request[c].phase \in Looking /\ Name(c) \notin disturbed => Tracks(request[c])
  /\ \A n \in UserNames \ disturbed : seats[n] # "unassigned" => Exists(n) /\ users[n].id # 0

-----------------------------------------------------------------------------
(* What a request that resumes does to the requests, ... *)
RequestMoves(c) ==
  /\ UNCHANGED <<limit, legacy, disturbed>>
  /\ request' \in [UserCalls -> UserRequests]
  /\ \A d \in UserCalls \ {c} : request'[d] = request[d]
  /\ WorkingOn(c) /\ request'[c].op = request[c].op
  /\ request'[c].name = Name(c) \/ request[c].op = "ensure"
  /\ StageFits(request'[c])

(* ... to its user, to GitHub and the Proxy, ... *)
UserMoves(c) ==
  /\ users' \in [UserNames -> {NoUser} \cup UserRows]
  /\ scim' \in [UserNames -> 0..MaxScimIds] /\ seats' \in [UserNames -> Confirmed]
  /\ accounts' \subseteq accounts
  /\ \A n \in UserNames \ {Name(c)} : users'[n] = users[n] /\ scim'[n] = scim[n] /\ seats'[n] = seats[n]
  /\ scim'[Name(c)] = 0 => seats'[Name(c)] = "unassigned"
  /\ Name(c) \in legacy => /\ users'[Name(c)] # NoUser /\ scim'[Name(c)] = scim[Name(c)]
                           /\ seats[Name(c)] = "assigned" => seats'[Name(c)] = "assigned"
  /\ request[c].op = "ensure" => UNCHANGED <<scim, seats>> /\ (Exists(Name(c)) => UNCHANGED users)

(* ... to a user nobody else works on, ... *)
AloneMoves(c) ==
  Name(c) \notin disturbed =>
    /\ request'[c].phase \in Looking => Tracks(request[c])'
    /\ seats'[Name(c)] # "unassigned" => users'[Name(c)] # NoUser /\ users'[Name(c)].id # 0

(* ... and what it promises of the row. *)
RowMoves(c) ==
  /\ ~Exists(Name(c)) /\ users'[Name(c)] # NoUser => Cardinality(Present) < limit
  /\ Exists(Name(c)) /\ users[Name(c)].pool =>
       users'[Name(c)] # NoUser /\ users'[Name(c)].pool /\ users'[Name(c)].password = users[Name(c)].password
  /\ (/\ request[c].phase \in {"seat", "confirm"} /\ request'[c].phase \notin {"seat", "confirm"}
      /\ Name(c) \notin disturbed /\ users'[Name(c)] # NoUser
      /\ users'[Name(c)].seat \in Confirmed /\ ~users'[Name(c)].error)
     => users'[Name(c)].seat = seats'[Name(c)]

Moves(c) == RequestMoves(c) /\ UserMoves(c) /\ AloneMoves(c) /\ RowMoves(c)

Over == {"done", "failed"}

(* What a stage a request goes to asks of it. *)
MayGoTo(c, p) == p \in Over \/ (p \in Stages /\ StageFits([request[c] EXCEPT !.phase = p]))

-----------------------------------------------------------------------------
LEMMA GotoMoves ==
  ASSUME UsersInv, NEW c \in UserCalls, WorkingOn(c), NEW p, MayGoTo(c, p), Goto(c, p), UNCHANGED <<limit, legacy>>
  PROVE  /\ RequestMoves(c) /\ request'[c].name = Name(c) /\ request'[c].phase = p
         /\ p \notin Over => request'[c].user = Read(c) /\ request'[c].found = request[c].found
<1>1. request \in [UserCalls -> UserRequests] /\ request[c] \in UserRequests
  BY DEF UsersInv, UserTypes
<1> DEFINE r == request[c]
           q == [r EXCEPT !.phase = p, !.user = IF p \in Over THEN NoUser ELSE @, !.found = IF p \in Over THEN 0 ELSE @]
<1>2. p \in Stages
  BY DEF MayGoTo, Over, Stages
<1>3. q \in UserRequests
  <2>1. CASE p \in Over
    <3>1. q = [r EXCEPT !.phase = p, !.user = NoUser, !.found = 0]
      BY <2>1
    <3>2. 0 \in 0..MaxScimIds
      BY SsoUsersAssumption
    <3> QED
      BY <1>1, <1>2, <3>1, <3>2 DEF UserRequests
  <2>2. CASE p \notin Over
    <3>1. q = [r EXCEPT !.phase = p]
      BY <1>1, <2>2 DEF UserRequests
    <3> QED
      BY <1>1, <1>2, <3>1 DEF UserRequests
  <2> QED
    BY <2>1, <2>2
<1>4. /\ q.op = r.op /\ q.name = r.name /\ q.phase = p
      /\ p \notin Over => q.user = r.user /\ q.found = r.found
  BY <1>1 DEF UserRequests
<1>5. StageFits(q)
  BY <1>1, <1>4 DEF MayGoTo, StageFits, UserRequests, Over, Looking
<1>6. request' = [request EXCEPT ![c] = q] /\ disturbed' = disturbed
  BY <1>1 DEF Goto, Over, UserRequests
<1> HIDE DEF q
<1>7. request' \in [UserCalls -> UserRequests] /\ request'[c] = q /\ \A d \in UserCalls \ {c} : request'[d] = request[d]
  BY <1>1, <1>3, <1>6
<1> QED
  BY <1>4, <1>5, <1>6, <1>7 DEF RequestMoves, Name, Read

(* A request that only goes on. *)
LEMMA GoingOn ==
  ASSUME UsersInv, NEW c \in UserCalls, WorkingOn(c), RequestMoves(c), request'[c].name = Name(c),
         UNCHANGED <<users, github>>, accounts' \subseteq accounts,
         request'[c].phase \notin {"seat", "confirm"} => request[c].phase \notin {"seat", "confirm"} \/ ~Exists(Name(c)),
         Name(c) \notin disturbed /\ request'[c].phase \in Looking => Tracks(request[c])'
  PROVE  Moves(c)
<1>1. Name(c) \in UserNames
  BY DEF UsersInv, UserTypes, UserRequests, Name
<1>2. UserMoves(c)
  BY <1>1 DEF UsersInv, UserTypes, UserMoves, github, Exists
<1>3. AloneMoves(c)
  BY <1>1 DEF UsersInv, AloneMoves, github, Exists
<1>4. RowMoves(c)
  BY <1>1 DEF UsersInv, RowMoves, Exists
<1> QED
  BY <1>2, <1>3, <1>4 DEF Moves

(* A request that writes the row of its user. *)
LEMMA RowWritten ==
  ASSUME UsersInv, NEW c \in UserCalls, request[c].phase \in Looking, RequestMoves(c), request'[c].name = Name(c),
         UNCHANGED <<github, world>>, Exists(Name(c)), NEW row \in UserRows, Update(Name(c), row),
         row.pool = users[Name(c)].pool, row.password = users[Name(c)].password,
         Name(c) \notin disturbed /\ seats[Name(c)] # "unassigned" => row.id # 0,
         Name(c) \notin disturbed /\ request'[c].phase \in Looking => Tracks(request[c])',
         (/\ request[c].phase \in {"seat", "confirm"} /\ request'[c].phase \notin {"seat", "confirm"}
          /\ Name(c) \notin disturbed /\ row.seat \in Confirmed /\ ~row.error)
         => row.seat = seats[Name(c)]
  PROVE  Moves(c)
<1>1. Name(c) \in UserNames
  BY DEF UsersInv, UserTypes, UserRequests, Name
<1>2. /\ users \in [UserNames -> {NoUser} \cup UserRows] /\ users' = [users EXCEPT ![Name(c)] = row]
      /\ users'[Name(c)] = row /\ row # NoUser
  BY <1>1, SsoUsersAssumption DEF UsersInv, UserTypes, Update
<1>3. request[c].op # "ensure"
  BY DEF UsersInv, StageFits
<1>4. UserMoves(c)
  BY <1>1, <1>2, <1>3 DEF UsersInv, UserTypes, UserMoves, github, world, Exists
<1>5. AloneMoves(c)
  BY <1>1, <1>2 DEF AloneMoves, github, Exists
<1>6. RowMoves(c)
  BY <1>1, <1>2 DEF RowMoves, Exists, github
<1> QED
  BY <1>4, <1>5, <1>6 DEF Moves

(* What is known of a request. *)
LEMMA RequestTyped ==
  ASSUME UsersInv, NEW c \in UserCalls
  PROVE  /\ request[c] \in UserRequests /\ StageFits(request[c]) /\ Name(c) \in UserNames /\ Name(c) = request[c].name
         /\ users[Name(c)] \in {NoUser} \cup UserRows
         /\ request[c].phase \in Looking => Read(c) \in UserRows /\ WorkingOn(c)
         /\ scim[Name(c)] \in 0..MaxScimIds /\ seats[Name(c)] \in Confirmed
BY DEF UsersInv, UserTypes, UserRequests, Name, Read, StageFits, WorkingOn, Looking

(* A request that ends. *)
LEMMA Stops ==
  ASSUME UsersInv, NEW c \in UserCalls, WorkingOn(c), NEW p \in Over, Goto(c, p),
         UNCHANGED <<limit, users, github, legacy>>, accounts' \subseteq accounts,
         request[c].phase \notin {"seat", "confirm"} \/ ~Exists(Name(c))
  PROVE  Moves(c)
<1>1. MayGoTo(c, p)
  BY DEF MayGoTo
<1>2. RequestMoves(c) /\ request'[c].name = Name(c) /\ request'[c].phase = p
  BY <1>1, GotoMoves
<1>3. p \notin Looking
  BY DEF Over, Looking
<1> QED
  BY <1>2, <1>3, GoingOn

-----------------------------------------------------------------------------
LEMMA PresentIsFinite == IsFiniteSet(Present) /\ Cardinality(Present) \in Nat
<1>1. Present \subseteq UserNames
  BY DEF Present
<1>2. IsFiniteSet(Present)
  BY <1>1, SsoUsersAssumption, FS_Subset
<1> QED
  BY <1>2, FS_CardinalityType

LEMMA UserCreated ==
  ASSUME UsersInv, NEW c \in UserCalls, request[c].phase = "hash", NEW pool \in BOOLEAN, ~Exists(Name(c)),
         CreateUser(c, Name(c), pool), UNCHANGED <<limit, github, world>>
  PROVE  Moves(c)
<1>1. WorkingOn(c) /\ Name(c) \in UserNames
  BY RequestTyped DEF WorkingOn
<1>2. CASE Cardinality(Present) >= limit
  <2>1. Goto(c, "failed") /\ UNCHANGED users
    BY <1>2 DEF CreateUser
  <2> QED
    BY <1>1, <2>1, Stops DEF Over, world
<1>3. CASE ~(Cardinality(Present) >= limit)
  <2>1. Update(Name(c), NewUser(pool)) /\ Goto(c, "done")
    BY <1>3 DEF CreateUser
  <2>2. RequestMoves(c) /\ request'[c].phase = "done"
    <3>1. MayGoTo(c, "done")
      BY DEF MayGoTo, Over
    <3> QED
      BY <1>1, <2>1, <3>1, GotoMoves DEF world
  <2>3. NewUser(pool) \in UserRows
    <3>1. 0 \in 0..MaxScimIds
      BY SsoUsersAssumption
    <3> QED
      BY <3>1 DEF NewUser, UserRows
  <2>4. /\ users' \in [UserNames -> {NoUser} \cup UserRows]
        /\ users' = [users EXCEPT ![Name(c)] = NewUser(pool)] /\ users'[Name(c)] = NewUser(pool)
    BY <1>1, <2>1, <2>3 DEF UsersInv, UserTypes, Update
  <2>5. seats[Name(c)] = "unassigned" \/ Name(c) \in disturbed
    BY <1>1 DEF UsersInv
  <2>6. UserMoves(c)
    BY <1>1, <2>3, <2>4, SsoUsersAssumption DEF UsersInv, UserTypes, UserMoves, github, world, Exists
  <2>7. AloneMoves(c)
    BY <2>2, <2>5 DEF AloneMoves, github, Looking
  <2>8. RowMoves(c)
    <3>1. Cardinality(Present) \in Nat /\ limit \in Nat
      BY PresentIsFinite, SsoUsersAssumption DEF UsersInv, UserTypes
    <3>2. Cardinality(Present) < limit
      BY <1>3, <3>1
    <3> QED
      BY <3>2 DEF RowMoves
  <2> QED
    BY <2>2, <2>6, <2>7, <2>8 DEF Moves
<1> QED
  BY <1>2, <1>3

LEMMA EnsureMoves == ASSUME UsersInv, NEW c \in UserCalls, Ensure(c) PROVE Moves(c)
<1>1. request[c].op = "ensure" /\ request[c].phase = "hash" /\ WorkingOn(c)
  BY DEF Ensure, In, WorkingOn
<1>2. UNCHANGED <<limit, github, world>>
  BY DEF Ensure
<1>3. CASE ~Exists(Name(c))
  BY <1>1, <1>2, <1>3, UserCreated DEF Ensure
<1>4. CASE Exists(Name(c)) /\ (request[c].flag \/ request[c].tries = 3)
  <2>1. UNCHANGED users /\ \E p \in Over : Goto(c, p)
    BY <1>4 DEF Ensure, Over
  <2> QED
    BY <1>1, <1>2, <2>1, Stops DEF world
<1>5. CASE Exists(Name(c)) /\ ~request[c].flag /\ request[c].tries # 3
  <2>1. /\ request' = [request EXCEPT ![c].name = NextAvailable(NamePrefix), ![c].tries = @ + 1]
        /\ UNCHANGED <<users, disturbed>>
    BY <1>5 DEF Ensure
  <2>2. NextAvailable(NamePrefix) \in UserNames
    BY SsoUsersAssumption DEF NextAvailable
  <2> DEFINE q == [request[c] EXCEPT !.name = NextAvailable(NamePrefix), !.tries = request[c].tries + 1]
  <2>3. q \in UserRequests /\ q.op = "ensure" /\ q.phase = "hash"
    <3>1. request[c] \in UserRequests /\ request[c].tries + 1 \in Nat
      BY RequestTyped DEF UserRequests
    <3> QED
      BY <1>1, <2>2, <3>1 DEF UserRequests
  <2>4. request' = [request EXCEPT ![c] = q]
    BY <2>1
  <2> HIDE DEF q
  <2>5. request' \in [UserCalls -> UserRequests] /\ request'[c] = q /\ \A d \in UserCalls \ {c} : request'[d] = request[d]
    BY <2>3, <2>4 DEF UsersInv, UserTypes
  <2>6. StageFits(q)
    BY <2>3 DEF StageFits, Looking
  <2>7. RequestMoves(c) /\ request'[c].phase \notin Looking
    BY <1>1, <1>2, <2>1, <2>3, <2>5, <2>6 DEF RequestMoves, world, Looking
  <2>8. UserMoves(c)
    BY <1>2, <1>5, <2>1, RequestTyped DEF UsersInv, UserTypes, UserMoves, github, world, Exists
  <2>9. AloneMoves(c)
    BY <1>2, <2>1, <2>7, RequestTyped DEF UsersInv, AloneMoves, github, Exists
  <2>10. RowMoves(c)
    BY <1>1, <1>5, <2>1 DEF RowMoves, Exists
  <2> QED
    BY <2>7, <2>8, <2>9, <2>10 DEF Moves
<1> QED
  BY <1>3, <1>4, <1>5

LEMMA CreateMoves == ASSUME UsersInv, NEW c \in UserCalls, Create(c) PROVE Moves(c)
<1>1. request[c].phase = "hash" /\ WorkingOn(c) /\ UNCHANGED <<limit, github, world>>
  BY DEF Create, In, WorkingOn
<1>2. CASE Exists(Name(c))
  <2>1. UNCHANGED users /\ Goto(c, "failed")
    BY <1>2 DEF Create
  <2> QED
    BY <1>1, <2>1, Stops DEF Over, world
<1>3. CASE ~Exists(Name(c))
  <2>1. request[c].flag \in BOOLEAN
    BY RequestTyped DEF UserRequests
  <2>2. CreateUser(c, Name(c), request[c].flag)
    BY <1>3 DEF Create
  <2> QED
    BY <1>1, <1>3, <2>1, <2>2, UserCreated
<1> QED
  BY <1>2, <1>3

LEMMA PatchMoves == ASSUME UsersInv, NEW c \in UserCalls, Patch(c) PROVE Moves(c)
<1>1. request[c].phase = "hash" /\ request[c].op = "patch" /\ WorkingOn(c) /\ UNCHANGED <<limit, github, world>>
  BY DEF Patch, In, WorkingOn
<1>2. CASE ~Exists(Name(c)) \/ users[Name(c)].pool
  <2>1. UNCHANGED users /\ Goto(c, "failed")
    BY <1>2 DEF Patch, UpdateUser
  <2> QED
    BY <1>1, <2>1, Stops DEF Over, world
<1>3. CASE Exists(Name(c)) /\ ~users[Name(c)].pool
  <2> DEFINE row == [users[Name(c)] EXCEPT !.password = "changed"]
  <2>1. Update(Name(c), row) /\ Goto(c, "done")
    BY <1>3 DEF Patch, UpdateUser
  <2>2. RequestMoves(c) /\ request'[c].phase = "done"
    <3>1. MayGoTo(c, "done")
      BY DEF MayGoTo, Over
    <3> QED
      BY <1>1, <2>1, <3>1, GotoMoves DEF world
  <2>3. row \in UserRows /\ row.id = users[Name(c)].id
    BY <1>3, RequestTyped DEF UserRows, Exists
  <2> HIDE DEF row
  <2>4. /\ users' \in [UserNames -> {NoUser} \cup UserRows] /\ users'[Name(c)] = row /\ row # NoUser
        /\ users' = [users EXCEPT ![Name(c)] = row]
    BY <2>1, <2>3, RequestTyped, SsoUsersAssumption DEF UsersInv, UserTypes, Update
  <2>5. UserMoves(c)
    BY <1>1, <2>4, RequestTyped DEF UsersInv, UserTypes, UserMoves, github, world
  <2>6. AloneMoves(c)
    BY <1>1, <2>2, <2>3, <2>4, RequestTyped DEF UsersInv, AloneMoves, github, Looking
  <2>7. RowMoves(c)
    BY <1>1, <1>3, <2>4 DEF RowMoves
  <2> QED
    BY <2>2, <2>5, <2>6, <2>7 DEF Moves
<1> QED
  BY <1>2, <1>3

-----------------------------------------------------------------------------
(* A request that only goes on knows what it knew. *)
LEMMA WalksOn ==
  ASSUME UsersInv, NEW c \in UserCalls, request[c].phase \in Looking, NEW p \in Looking, MayGoTo(c, p), Goto(c, p),
         UNCHANGED <<limit, users, github, legacy>>, accounts' \subseteq accounts,
         p \in {"seat", "confirm"} \/ request[c].phase \notin {"seat", "confirm"},
         p = "scimName" => request[c].found = scim[Name(c)],
         Name(c) \notin disturbed /\ p \in {"proxy", "last"} => scim[Name(c)] = 0,
         p = "last" /\ request[c].op = "delete" => Name(c) \notin accounts'
  PROVE  Moves(c)
<1>1. WorkingOn(c) /\ p \notin Over
  BY RequestTyped DEF Looking, Over
<1>2. /\ RequestMoves(c) /\ request'[c].name = Name(c) /\ request'[c].phase = p
      /\ request'[c].user = Read(c) /\ request'[c].found = request[c].found
  BY <1>1, GotoMoves
<1>3. request'[c].op = request[c].op
  BY <1>2 DEF RequestMoves
<1>4. ASSUME Name(c) \notin disturbed
      PROVE  Tracks(request[c])'
  <2>1. Exists(Name(c)) /\ Read(c).id = users[Name(c)].id
    BY <1>4 DEF UsersInv, Tracks, Name, Read
  <2> QED
    BY <1>2, <1>3, <1>4, <2>1 DEF Tracks, Exists, github
<1> QED
  BY <1>1, <1>2, <1>4, GoingOn

LEMMA AssertDestructiveMoves == ASSUME UsersInv, NEW c \in UserCalls, AssertDestructive(c) PROVE Moves(c)
<1>1. /\ request[c].op \in Destructive /\ request[c].phase = "member" /\ request[c].phase \in Looking /\ WorkingOn(c)
      /\ UNCHANGED <<users, limit, github, world>> /\ accounts' \subseteq accounts
  BY DEF AssertDestructive, In, Looking, WorkingOn, world
<1>2. CASE Goto(c, "failed")
  BY <1>1, <1>2, Stops DEF Over, world
<1>3. ASSUME Name(c) \notin legacy, NEW p \in {"suspend", "seat"}, Goto(c, p)
      PROVE  Moves(c)
  <2>1. MayGoTo(c, p)
    BY <1>1, <1>3, RequestTyped DEF MayGoTo, StageFits, UserRequests, Looking, Stages
  <2>2. p \in Looking
    BY DEF Looking
  <2> QED
    BY <1>1, <1>3, <2>1, <2>2, WalksOn DEF world
<1> QED
  BY <1>2, <1>3 DEF AssertDestructive

LEMMA SuspendMoves == ASSUME UsersInv, NEW c \in UserCalls, Suspend(c) PROVE Moves(c)
<1>1. /\ request[c].op \in Destructive /\ request[c].phase = "suspend" /\ request[c].phase \in Looking /\ WorkingOn(c)
      /\ UNCHANGED <<limit, github, world>>
  BY DEF Suspend, In, Looking, WorkingOn
<1>2. CASE Goto(c, "failed") /\ UNCHANGED users
  BY <1>1, <1>2, Stops DEF Over, world
<1> DEFINE row == [users[Name(c)] EXCEPT !.id = Read(c).id, !.emu = "suspended"]
<1>3. CASE Exists(Name(c)) /\ Update(Name(c), row) /\ Goto(c, "done")
  <2>1. RequestMoves(c) /\ request'[c].name = Name(c) /\ request'[c].phase = "done"
    <3>1. MayGoTo(c, "done")
      BY DEF MayGoTo, Over
    <3> QED
      BY <1>1, <1>3, <3>1, GotoMoves DEF world
  <2>2. row \in UserRows /\ row.pool = users[Name(c)].pool /\ row.password = users[Name(c)].password /\ row.id = Read(c).id
    BY <1>1, <1>3, RequestTyped DEF UserRows, Exists
  <2>3. Name(c) \notin disturbed /\ seats[Name(c)] # "unassigned" => Read(c).id # 0
    BY <1>1, RequestTyped DEF UsersInv, Tracks, Name, Read
  <2> HIDE DEF row
  <2> QED
    <3>1. request'[c].phase \notin Looking /\ request[c].phase \notin {"seat", "confirm"}
      BY <1>1, <2>1 DEF Looking
    <3>2. Update(Name(c), row) /\ Exists(Name(c))
      BY <1>3 DEF row
    <3> QED
      BY <1>1, <2>1, <2>2, <2>3, <3>1, <3>2, RowWritten
<1> QED
  BY <1>2, <1>3 DEF Suspend

-----------------------------------------------------------------------------
SeatStatuses == Confirmed \cup {"unknown", "assign_failed", "remove_failed"}

LEMMA SeatRow ==
  ASSUME UsersInv, NEW n \in UserNames, Exists(n), NEW status \in SeatStatuses, NEW error \in BOOLEAN
  PROVE  /\ UpdateSeat(n, status, error) \in UserRows
         /\ UpdateSeat(n, status, error).pool = users[n].pool
         /\ UpdateSeat(n, status, error).password = users[n].password
         /\ UpdateSeat(n, status, error).id = users[n].id
         /\ UpdateSeat(n, status, error).seat = status
         /\ UpdateSeat(n, status, error).error = error
<1>1. users[n] \in UserRows
  BY DEF UsersInv, UserTypes, Exists
<1> QED
  BY <1>1 DEF UpdateSeat, UserRows, SeatStatuses

LEMMA SeatWritten ==
  ASSUME UsersInv, NEW c \in UserCalls, request[c].phase \in {"seat", "confirm"}, Exists(Name(c)),
         NEW status \in SeatStatuses, NEW error \in BOOLEAN, Update(Name(c), UpdateSeat(Name(c), status, error)),
         NEW p \in {"done", "failed", "scimId"}, Goto(c, p), p = "scimId" => request[c].op \in {"delete", "deleteEmu"},
         UNCHANGED <<limit, github, world>>,
         Name(c) \notin disturbed /\ status \in Confirmed /\ ~error => status = seats[Name(c)]
  PROVE  Moves(c)
<1>1. request[c].phase \in Looking /\ WorkingOn(c) /\ Name(c) \in UserNames
  BY RequestTyped DEF Looking, WorkingOn
<1> DEFINE row == UpdateSeat(Name(c), status, error)
<1>2. /\ row \in UserRows /\ row.pool = users[Name(c)].pool /\ row.password = users[Name(c)].password
      /\ row.id = users[Name(c)].id /\ row.seat = status /\ row.error = error
  BY <1>1, SeatRow
<1>3. Update(Name(c), row)
  OBVIOUS
<1> HIDE DEF row
<1>4. MayGoTo(c, p)
  BY <1>1, RequestTyped DEF MayGoTo, StageFits, UserRequests, Looking, Stages, Over, Destructive
<1>5. /\ RequestMoves(c) /\ request'[c].name = Name(c) /\ request'[c].phase = p
      /\ p = "scimId" => request'[c].user = Read(c)
  BY <1>1, <1>4, GotoMoves DEF world, Over
<1>6. Name(c) \notin disturbed => Read(c).id = users[Name(c)].id
  BY <1>1 DEF UsersInv, Tracks, Name, Read
<1>7. users'[Name(c)] = row /\ row # NoUser
  BY <1>1, <1>2, <1>3, SsoUsersAssumption DEF UsersInv, UserTypes, Update
<1>8. Name(c) \notin disturbed /\ request'[c].phase \in Looking => Tracks(request[c])'
  <2>1. p \in Looking => p = "scimId"
    BY DEF Looking
  <2> QED
    BY <1>2, <1>5, <1>6, <1>7, <2>1 DEF Tracks, Exists
<1>9. Name(c) \notin disturbed /\ seats[Name(c)] # "unassigned" => row.id # 0
  BY <1>1, <1>2 DEF UsersInv
<1> QED
  BY <1>1, <1>2, <1>3, <1>5, <1>8, <1>9, RowWritten

LEMMA SeatSkippedMoves == ASSUME UsersInv, NEW c \in UserCalls, SeatSkipped(c) PROVE Moves(c)
<1>1. request[c].phase = "seat" /\ request[c].phase \in Looking /\ WorkingOn(c) /\ UNCHANGED <<limit, github, world>>
  BY DEF SeatSkipped, Looking, WorkingOn
<1>2. CASE ~Exists(Name(c))
  <2>1. Goto(c, "failed") /\ UNCHANGED users
    BY <1>2 DEF SeatSkipped
  <2> QED
    BY <1>1, <1>2, <2>1, Stops DEF Over, world
<1>3. CASE Exists(Name(c)) /\ Kind(c) = "assign"
  <2>1. Update(Name(c), UpdateSeat(Name(c), "assign_failed", TRUE)) /\ Goto(c, "failed")
    BY <1>3 DEF SeatSkipped
  <2>2. "assign_failed" \in SeatStatuses /\ TRUE \in BOOLEAN /\ "assign_failed" \notin Confirmed
    BY DEF SeatStatuses, Confirmed
  <2> QED
    BY <1>1, <1>3, <2>1, <2>2, SeatWritten
<1>4. CASE Exists(Name(c)) /\ Kind(c) # "assign"
  <2>1. Update(Name(c), UpdateSeat(Name(c), "unassigned", FALSE)) /\ Goto(c, AfterSeat(c))
    BY <1>4 DEF SeatSkipped
  <2>2. "unassigned" \in SeatStatuses /\ FALSE \in BOOLEAN
    BY DEF SeatStatuses, Confirmed
  <2>3. AfterSeat(c) \in {"done", "failed", "scimId"} /\ (AfterSeat(c) = "scimId" => request[c].op \in {"delete", "deleteEmu"})
    BY DEF AfterSeat
  <2>4. Read(c).id = 0 \/ seats[Name(c)] = "unassigned"
    BY DEF SeatSkipped
  <2>5. Name(c) \notin disturbed => seats[Name(c)] = "unassigned"
    BY <1>1, <2>4, RequestTyped DEF UsersInv, Tracks, Name, Read
  <2> QED
    BY <1>1, <1>4, <2>1, <2>2, <2>3, <2>5, SeatWritten
<1> QED
  BY <1>2, <1>3, <1>4

LEMMA ConfirmSeatMoves == ASSUME UsersInv, NEW c \in UserCalls, ConfirmSeat(c) PROVE Moves(c)
<1>1. request[c].phase = "confirm" /\ request[c].phase \in Looking /\ WorkingOn(c) /\ UNCHANGED <<limit, github, world>>
  BY DEF ConfirmSeat, Looking, WorkingOn
<1>2. CASE ~Exists(Name(c))
  <2>1. Goto(c, "failed") /\ UNCHANGED users
    BY <1>2 DEF ConfirmSeat
  <2> QED
    BY <1>1, <1>2, <2>1, Stops DEF Over, world
<1>3. CASE Exists(Name(c))
  <2>1. users[Name(c)].seat \in SeatStatuses /\ seats[Name(c)] \in SeatStatuses
    BY <1>3, RequestTyped DEF Exists, UserRows, SeatStatuses
  <2> DEFINE ok == IF Kind(c) = "assign" THEN seats[Name(c)] = "assigned" ELSE seats[Name(c)] # "assigned"
             next == IF ok THEN AfterSeat(c) ELSE "failed"
  <2>2. ok \in BOOLEAN /\ (~ok) \in BOOLEAN
    OBVIOUS
  <2>3. next \in {"done", "failed", "scimId"} /\ (next = "scimId" => request[c].op \in {"delete", "deleteEmu"})
    BY DEF AfterSeat
  <2>4. \/ Update(Name(c), UpdateSeat(Name(c), users[Name(c)].seat, TRUE)) /\ Goto(c, "failed")
        \/ Update(Name(c), UpdateSeat(Name(c), seats[Name(c)], ~ok)) /\ Goto(c, next)
    BY <1>3 DEF ConfirmSeat
  <2> HIDE DEF ok, next
  <2>5. CASE Update(Name(c), UpdateSeat(Name(c), users[Name(c)].seat, TRUE)) /\ Goto(c, "failed")
    BY <1>1, <1>3, <2>1, <2>5, SeatWritten
  <2>6. CASE Update(Name(c), UpdateSeat(Name(c), seats[Name(c)], ~ok)) /\ Goto(c, next)
    BY <1>1, <1>3, <2>1, <2>2, <2>3, <2>6, SeatWritten
  <2> QED
    BY <2>4, <2>5, <2>6
<1> QED
  BY <1>2, <1>3

(* What a change of a seat may do at GitHub, and what it keeps. *)
LEMMA SeatChanges ==
  ASSUME UsersInv, NEW c \in UserCalls, request[c].phase = "seat",
         seats' \in {seats, [seats EXCEPT ![Name(c)] = IF scim[Name(c)] = 0 THEN @ ELSE SeatAsked(c)]}
  PROVE  /\ seats' \in [UserNames -> Confirmed]
         /\ \A n \in UserNames \ {Name(c)} : seats'[n] = seats[n]
         /\ scim[Name(c)] = 0 => seats'[Name(c)] = "unassigned"
         /\ Name(c) \in legacy /\ seats[Name(c)] = "assigned" => seats'[Name(c)] = "assigned"
<1> DEFINE asked == IF scim[Name(c)] = 0 THEN seats[Name(c)] ELSE SeatAsked(c)
<1>1. seats' = seats \/ seats' = [seats EXCEPT ![Name(c)] = asked]
  OBVIOUS
<1>2. asked \in Confirmed
  BY RequestTyped DEF SeatAsked, Confirmed
<1>3. Name(c) \in legacy => SeatAsked(c) = "assigned"
  BY RequestTyped DEF StageFits, SeatAsked, Kind, Looking
<1>4. /\ scim[Name(c)] = 0 => asked = seats[Name(c)]
      /\ Name(c) \in legacy /\ seats[Name(c)] = "assigned" => asked = "assigned"
  BY <1>3
<1>5. seats \in [UserNames -> Confirmed] /\ Name(c) \in UserNames /\ (scim[Name(c)] = 0 => seats[Name(c)] = "unassigned")
  BY RequestTyped DEF UsersInv, UserTypes
<1> HIDE DEF asked
<1> QED
  BY <1>1, <1>2, <1>4, <1>5

LEMMA SeatAcceptedMoves == ASSUME UsersInv, NEW c \in UserCalls, SeatAccepted(c) PROVE Moves(c)
<1>1. /\ request[c].phase = "seat" /\ request[c].phase \in Looking /\ WorkingOn(c) /\ Read(c).id # 0
      /\ UNCHANGED <<users, limit, scim, world>> /\ Goto(c, "confirm")
  BY DEF SeatAccepted, Looking, WorkingOn
<1>2. MayGoTo(c, "confirm")
  BY <1>1, RequestTyped DEF MayGoTo, StageFits, UserRequests, Looking, Stages
<1>3. /\ RequestMoves(c) /\ request'[c].name = Name(c) /\ request'[c].phase = "confirm"
      /\ request'[c].user = Read(c)
  BY <1>1, <1>2, GotoMoves DEF world, Over
<1>4. /\ seats' \in [UserNames -> Confirmed]
      /\ \A n \in UserNames \ {Name(c)} : seats'[n] = seats[n]
      /\ scim[Name(c)] = 0 => seats'[Name(c)] = "unassigned"
      /\ Name(c) \in legacy /\ seats[Name(c)] = "assigned" => seats'[Name(c)] = "assigned"
  <2>1. seats' \in {seats, [seats EXCEPT ![Name(c)] = IF scim[Name(c)] = 0 THEN @ ELSE SeatAsked(c)]}
    BY DEF SeatAccepted
  <2> QED
    BY <1>1, <2>1, SeatChanges
<1>5. UserMoves(c)
  BY <1>1, <1>4, RequestTyped DEF UsersInv, UserTypes, UserMoves, world, StageFits, Exists
<1>6. AloneMoves(c)
  <2>1. Name(c) \notin disturbed => Exists(Name(c)) /\ Read(c).id = users[Name(c)].id
    BY <1>1 DEF UsersInv, Tracks, Name, Read
  <2> QED
    BY <1>1, <1>3, <2>1 DEF AloneMoves, Tracks, Exists
<1>7. RowMoves(c)
  BY <1>1, <1>3 DEF RowMoves, Exists
<1> QED
  BY <1>3, <1>5, <1>6, <1>7 DEF Moves

LEMMA SeatFailsMoves == ASSUME UsersInv, NEW c \in UserCalls, SeatFails(c) PROVE Moves(c)
<1>1. /\ request[c].phase = "seat" /\ request[c].phase \in Looking /\ WorkingOn(c) /\ Read(c).id # 0
      /\ UNCHANGED <<limit, scim, world>> /\ Goto(c, "failed") /\ Name(c) \in UserNames
  BY RequestTyped DEF SeatFails, Looking, WorkingOn
<1>2. RequestMoves(c) /\ request'[c].phase = "failed"
  <2>1. MayGoTo(c, "failed")
    BY DEF MayGoTo, Over
  <2> QED
    BY <1>1, <2>1, GotoMoves DEF world
<1>3. /\ seats' \in [UserNames -> Confirmed]
      /\ \A n \in UserNames \ {Name(c)} : seats'[n] = seats[n]
      /\ scim[Name(c)] = 0 => seats'[Name(c)] = "unassigned"
      /\ Name(c) \in legacy /\ seats[Name(c)] = "assigned" => seats'[Name(c)] = "assigned"
  <2>1. seats' \in {seats, [seats EXCEPT ![Name(c)] = IF scim[Name(c)] = 0 THEN @ ELSE SeatAsked(c)]}
    BY DEF SeatFails
  <2> QED
    BY <1>1, <2>1, SeatChanges
<1>4. Name(c) \notin disturbed => Exists(Name(c)) /\ users[Name(c)].id # 0
  BY <1>1 DEF UsersInv, Tracks, Name, Read
<1>5. request[c].op # "ensure"
  BY <1>1, RequestTyped DEF StageFits
<1>6. CASE ~Exists(Name(c))
  <2>1. UNCHANGED users
    BY <1>6 DEF SeatFails
  <2>2. UserMoves(c)
    BY <1>1, <1>3, <1>5, <2>1, RequestTyped DEF UsersInv, UserTypes, UserMoves, world, Exists
  <2>3. AloneMoves(c) /\ RowMoves(c)
    BY <1>4, <1>6, <2>1 DEF AloneMoves, RowMoves, Exists
  <2> QED
    BY <1>2, <2>2, <2>3 DEF Moves
<1>7. CASE Exists(Name(c))
  <2> DEFINE status == IF Read(c).seat \in Confirmed THEN users[Name(c)].seat ELSE CallFailed[Kind(c)]
             row == UpdateSeat(Name(c), status, TRUE)
  <2>1. status \in SeatStatuses /\ TRUE \in BOOLEAN
    BY <1>7, RequestTyped DEF Exists, UserRows, SeatStatuses, CallFailed, Kind
  <2>2. Update(Name(c), row)
    BY <1>7 DEF SeatFails
  <2> HIDE DEF status
  <2>3. /\ row \in UserRows /\ row.pool = users[Name(c)].pool /\ row.password = users[Name(c)].password
        /\ row.id = users[Name(c)].id /\ row.error = TRUE
    BY <1>1, <1>7, <2>1, SeatRow
  <2> HIDE DEF row
  <2>4. /\ users' = [users EXCEPT ![Name(c)] = row] /\ users' \in [UserNames -> {NoUser} \cup UserRows]
        /\ users'[Name(c)] = row /\ row # NoUser
    BY <1>1, <2>2, <2>3, SsoUsersAssumption DEF UsersInv, UserTypes, Update
  <2>5. UserMoves(c)
    BY <1>1, <1>3, <1>5, <2>4, RequestTyped DEF UsersInv, UserTypes, UserMoves, world
  <2>6. AloneMoves(c)
    BY <1>2, <1>4, <2>3, <2>4 DEF AloneMoves, Looking
  <2>7. RowMoves(c)
    BY <1>7, <2>3, <2>4 DEF RowMoves
  <2> QED
    BY <1>2, <2>5, <2>6, <2>7 DEF Moves
<1> QED
  BY <1>6, <1>7

-----------------------------------------------------------------------------
(* A deletion at GitHub. *)
LEMMA ScimDeleted ==
  ASSUME UsersInv, NEW c \in UserCalls, request[c].phase \in {"scimId", "scimName"},
         UNCHANGED <<users, limit, world>>, UNCHANGED github \/ DeleteScim(Name(c)),
         NEW p \in {"failed", "lookup", "proxy", "last"}, Goto(c, p), MayGoTo(c, p),
         p = "last" => request[c].op # "delete",
         Name(c) \notin disturbed /\ p \in {"proxy", "last"} => scim'[Name(c)] = 0
  PROVE  Moves(c)
<1>1. /\ request[c].phase \in Looking /\ WorkingOn(c) /\ Name(c) \in UserNames /\ request[c].op # "ensure"
      /\ Name(c) \notin legacy
  BY RequestTyped DEF Looking, WorkingOn, StageFits, Destructive
<1>2. /\ RequestMoves(c) /\ request'[c].name = Name(c) /\ request'[c].phase = p
      /\ p # "failed" => request'[c].user = Read(c)
  BY <1>1, GotoMoves DEF world, Over
<1>3. /\ scim' \in [UserNames -> 0..MaxScimIds] /\ seats' \in [UserNames -> Confirmed]
      /\ \A n \in UserNames \ {Name(c)} : scim'[n] = scim[n] /\ seats'[n] = seats[n]
      /\ seats'[Name(c)] = "unassigned" \/ UNCHANGED github
  BY <1>1, SsoUsersAssumption DEF UsersInv, UserTypes, DeleteScim, github, Confirmed
<1>4. UserMoves(c)
  BY <1>1, <1>3 DEF UsersInv, UserTypes, UserMoves, world, github
<1>5. AloneMoves(c)
  <2>1. Name(c) \notin disturbed => Exists(Name(c)) /\ Read(c).id = users[Name(c)].id
    BY <1>1 DEF UsersInv, Tracks, Name, Read
  <2>2. Name(c) \notin disturbed => (seats'[Name(c)] # "unassigned" => users'[Name(c)] # NoUser /\ users'[Name(c)].id # 0)
    BY <1>1, <1>3 DEF UsersInv, Exists, github
  <2>3. request'[c].op = request[c].op
    BY <1>2 DEF RequestMoves
  <2>4. Name(c) \notin disturbed /\ p \in Looking => Tracks(request[c])'
    <3>1. p \in Looking => p # "failed"
      BY DEF Looking
    <3> QED
      BY <1>2, <2>1, <2>3, <3>1 DEF Tracks, Exists
  <2> QED
    BY <1>2, <2>2, <2>4 DEF AloneMoves
<1>6. RowMoves(c)
  BY <1>1 DEF RowMoves, Exists
<1> QED
  BY <1>2, <1>4, <1>5, <1>6 DEF Moves

LEMMA DeleteByIdMoves == ASSUME UsersInv, NEW c \in UserCalls, DeleteById(c) PROVE Moves(c)
<1>1. request[c].phase = "scimId" /\ UNCHANGED <<users, limit, world>>
  BY DEF DeleteById, DeleteByScimId
<1>2. PICK p \in {"failed", "lookup"} : Goto(c, p) /\ (UNCHANGED github \/ DeleteScim(Name(c)))
  BY DEF DeleteById, DeleteByScimId
<1>3. MayGoTo(c, p)
  BY <1>1, RequestTyped DEF MayGoTo, StageFits, UserRequests, Looking, Stages, Over, Destructive
<1> QED
  BY <1>1, <1>2, <1>3, ScimDeleted

LEMMA DeleteByNameMoves == ASSUME UsersInv, NEW c \in UserCalls, DeleteByName(c) PROVE Moves(c)
<1>1. request[c].phase = "scimName" /\ UNCHANGED <<users, limit, world>>
  BY DEF DeleteByName, DeleteByScimId
<1>2. Name(c) \notin disturbed => request[c].found = scim[Name(c)]
  BY <1>1 DEF UsersInv, Tracks, Name, Looking
<1>3. \/ Goto(c, "failed") /\ (UNCHANGED github \/ DeleteScim(Name(c)))
      \/ /\ Goto(c, AfterScim(c)) /\ (UNCHANGED github \/ DeleteScim(Name(c)))
         /\ request[c].found # 0 /\ scim[Name(c)] = request[c].found => DeleteScim(Name(c))
         /\ ~(request[c].found # 0 /\ scim[Name(c)] = request[c].found) => UNCHANGED github
  BY DEF DeleteByName, DeleteByScimId
<1>4. CASE Goto(c, "failed") /\ (UNCHANGED github \/ DeleteScim(Name(c)))
  <2>1. MayGoTo(c, "failed")
    BY DEF MayGoTo, Over
  <2> QED
    BY <1>1, <1>4, <2>1, ScimDeleted
<1>5. CASE /\ Goto(c, AfterScim(c)) /\ (UNCHANGED github \/ DeleteScim(Name(c)))
           /\ request[c].found # 0 /\ scim[Name(c)] = request[c].found => DeleteScim(Name(c))
           /\ ~(request[c].found # 0 /\ scim[Name(c)] = request[c].found) => UNCHANGED github
  <2>1. PICK p \in {"proxy", "last"} : p = AfterScim(c) /\ (p = "proxy" <=> request[c].op = "delete")
    BY DEF AfterScim
  <2>2. MayGoTo(c, p)
    BY <1>1, <2>1, RequestTyped DEF MayGoTo, StageFits, UserRequests, Looking, Stages, Destructive
  <2>3. Name(c) \notin disturbed => scim'[Name(c)] = 0
    BY <1>2, <1>5, RequestTyped DEF DeleteScim, github, UsersInv, UserTypes
  <2> QED
    BY <1>1, <1>5, <2>1, <2>2, <2>3, ScimDeleted
<1> QED
  BY <1>3, <1>4, <1>5

LEMMA LookupMoves == ASSUME UsersInv, NEW c \in UserCalls, Lookup(c) PROVE Moves(c)
<1>1. /\ request[c].phase = "lookup" /\ request[c].phase \in Looking /\ WorkingOn(c)
      /\ UNCHANGED <<users, limit, github, world>> /\ accounts' \subseteq accounts
      /\ request[c].op \in {"sync", "delete", "deleteEmu"}
  BY RequestTyped DEF Lookup, Looking, WorkingOn, world, StageFits
<1>2. CASE Goto(c, "failed")
  BY <1>1, <1>2, Stops DEF Over, world
<1>3. CASE scim[Name(c)] = 0 /\ Goto(c, IF request[c].op = "sync" THEN "failed" ELSE AfterScim(c))
  <2>1. PICK p \in {"failed", "proxy", "last"} :
          Goto(c, p) /\ (p = "proxy" <=> request[c].op = "delete") /\ (p = "last" <=> request[c].op = "deleteEmu")
    BY <1>1, <1>3 DEF AfterScim
  <2>2. CASE p = "failed"
    BY <1>2, <2>1, <2>2
  <2>3. CASE p # "failed"
    <3>1. MayGoTo(c, p) /\ p \in Looking
      BY <1>1, <2>1, <2>3, RequestTyped DEF MayGoTo, StageFits, UserRequests, Looking, Stages, Destructive
    <3>2. /\ p \notin {"scimName"} /\ request[c].phase \notin {"seat", "confirm"}
          /\ p = "last" => request[c].op # "delete"
      BY <1>1, <2>1, <2>3
    <3> QED
      BY <1>1, <1>3, <2>1, <3>1, <3>2, WalksOn DEF world
  <2> QED
    BY <2>2, <2>3
<1>4. CASE /\ scim[Name(c)] # 0
           /\ request' = [request EXCEPT
                ![c].phase = IF request[c].op = "sync" THEN "replace" ELSE "scimName",
                ![c].found = scim[Name(c)]]
           /\ UNCHANGED disturbed
  <2> DEFINE p == IF request[c].op = "sync" THEN "replace" ELSE "scimName"
             found == scim[Name(c)]
             q == [request[c] EXCEPT !.phase = p, !.found = found]
  <2>1. p \in Looking /\ p \in Stages /\ found \in 0..MaxScimIds
    BY RequestTyped DEF Looking, Stages
  <2>2. request' = [request EXCEPT ![c] = q]
    BY <1>4
  <2>3. p \in {"replace", "scimName"} /\ (p = "scimName" => request[c].op \in {"delete", "deleteEmu"})
    BY <1>1
  <2> HIDE DEF p
  <2>4. /\ q \in UserRequests /\ q.op = request[c].op /\ q.name = request[c].name /\ q.phase = p
        /\ q.found = found /\ q.user = request[c].user
    BY <2>1, RequestTyped DEF UserRequests
  <2>5. found = scim[Name(c)] /\ found # 0
    BY <1>4
  <2> HIDE DEF q, found
  <2>6. request' \in [UserCalls -> UserRequests] /\ request'[c] = q /\ \A d \in UserCalls \ {c} : request'[d] = request[d]
    BY <2>2, <2>4 DEF UsersInv, UserTypes
  <2>7. StageFits(q)
    BY <1>1, <2>3, <2>4, <2>5, RequestTyped DEF StageFits, Looking, Destructive
  <2>8. RequestMoves(c) /\ request'[c].name = Name(c)
    BY <1>1, <1>4, <2>4, <2>6, <2>7 DEF RequestMoves, world, Name
  <2>9. Name(c) \notin disturbed => Tracks(request[c])'
    <3>1. Name(c) \notin disturbed => Exists(Name(c)) /\ Read(c).id = users[Name(c)].id
      BY <1>1 DEF UsersInv, Tracks, Name, Read
    <3>2. request'[c].name = Name(c) /\ request'[c].user = Read(c) /\ request'[c].found = scim[Name(c)]
          /\ request'[c].phase \in {"replace", "scimName"}
      BY <2>3, <2>4, <2>5, <2>6 DEF Name, Read
    <3> QED
      BY <1>1, <3>1, <3>2 DEF Tracks, Exists, github
  <2> QED
    BY <1>1, <2>8, <2>9, GoingOn
<1> QED
  BY <1>2, <1>3, <1>4 DEF Lookup

LEMMA DeleteAccountsMoves == ASSUME UsersInv, NEW c \in UserCalls, DeleteAccounts(c) PROVE Moves(c)
<1>1. /\ request[c].phase = "proxy" /\ request[c].phase \in Looking /\ WorkingOn(c)
      /\ UNCHANGED <<users, limit, github, legacy>> /\ accounts' \subseteq accounts
      /\ request'[c].phase = "last" => Name(c) \notin accounts'
  BY DEF DeleteAccounts, Looking, WorkingOn
<1>2. CASE Goto(c, "failed")
  BY <1>1, <1>2, Stops DEF Over
<1>3. CASE Goto(c, "last")
  <2>1. MayGoTo(c, "last") /\ "last" \in Looking /\ "last" \notin Over
    BY <1>1, RequestTyped DEF MayGoTo, StageFits, UserRequests, Looking, Stages, Destructive, Over
  <2>2. request'[c].phase = "last"
    BY <1>1, <1>3, <2>1, GotoMoves
  <2>3. Name(c) \notin disturbed => scim[Name(c)] = 0
    BY <1>1 DEF UsersInv, Tracks, Name
  <2> QED
    BY <1>1, <1>3, <2>1, <2>2, <2>3, WalksOn
<1> QED
  BY <1>2, <1>3 DEF DeleteAccounts

LEMMA DeleteUserMoves == ASSUME UsersInv, NEW c \in UserCalls, DeleteUser(c) PROVE Moves(c)
<1>1. /\ request[c].phase = "last" /\ request[c].op = "delete" /\ request[c].phase \in Looking /\ WorkingOn(c)
      /\ UNCHANGED <<limit, github, world>> /\ Name(c) \in UserNames
  BY RequestTyped DEF DeleteUser, In, Looking, WorkingOn
<1>2. CASE ~Exists(Name(c)) \/ users[Name(c)].pool
  <2>1. Goto(c, "failed") /\ UNCHANGED users
    BY <1>2 DEF DeleteUser
  <2> QED
    BY <1>1, <2>1, Stops DEF Over, world
<1>3. CASE Exists(Name(c)) /\ ~users[Name(c)].pool
  <2>1. Goto(c, "done") /\ users' = [users EXCEPT ![Name(c)] = NoUser]
    BY <1>3 DEF DeleteUser, Update
  <2>2. RequestMoves(c) /\ request'[c].phase = "done"
    <3>1. MayGoTo(c, "done")
      BY DEF MayGoTo, Over
    <3> QED
      BY <1>1, <2>1, <3>1, GotoMoves DEF world
  <2>3. users' \in [UserNames -> {NoUser} \cup UserRows] /\ users'[Name(c)] = NoUser
    BY <1>1, <2>1 DEF UsersInv, UserTypes
  <2>4. Name(c) \notin legacy
    BY <1>1, RequestTyped DEF StageFits, Destructive
  <2>5. Name(c) \notin disturbed => seats[Name(c)] = "unassigned"
    BY <1>1 DEF UsersInv, Tracks, Name
  <2>6. UserMoves(c)
    BY <1>1, <2>1, <2>3, <2>4, RequestTyped DEF UsersInv, UserTypes, UserMoves, github, world
  <2>7. AloneMoves(c)
    BY <1>1, <2>2, <2>5 DEF AloneMoves, Looking, github
  <2>8. RowMoves(c)
    BY <1>3, <2>3 DEF RowMoves
  <2> QED
    BY <2>2, <2>6, <2>7, <2>8 DEF Moves
<1> QED
  BY <1>2, <1>3

LEMMA ForgetEmuMoves == ASSUME UsersInv, NEW c \in UserCalls, ForgetEmu(c) PROVE Moves(c)
<1>1. /\ request[c].phase = "last" /\ request[c].phase \in Looking /\ WorkingOn(c)
      /\ UNCHANGED <<limit, github, world>> /\ Name(c) \in UserNames
  BY RequestTyped DEF ForgetEmu, In, Looking, WorkingOn
<1>2. CASE ~Exists(Name(c))
  <2>1. Goto(c, "failed") /\ UNCHANGED users
    BY <1>2 DEF ForgetEmu
  <2> QED
    BY <1>1, <2>1, Stops DEF Over, world
<1>3. CASE Exists(Name(c))
  <2> DEFINE seatRow == UpdateSeat(Name(c), "unassigned", FALSE)
             row == [seatRow EXCEPT !.id = 0, !.emu = "not_synced"]
  <2>1. Update(Name(c), row) /\ Goto(c, "done")
    BY <1>3 DEF ForgetEmu
  <2>2. seatRow \in UserRows /\ seatRow.pool = users[Name(c)].pool /\ seatRow.password = users[Name(c)].password
    <3>1. "unassigned" \in SeatStatuses /\ FALSE \in BOOLEAN
      BY DEF SeatStatuses, Confirmed
    <3> QED
      BY <1>1, <1>3, <3>1, SeatRow
  <2> HIDE DEF seatRow
  <2>3. row \in UserRows /\ row.pool = users[Name(c)].pool /\ row.password = users[Name(c)].password
    <3>1. 0 \in 0..MaxScimIds
      BY SsoUsersAssumption
    <3> QED
      BY <2>2, <3>1 DEF UserRows
  <2> HIDE DEF row
  <2>4. RequestMoves(c) /\ request'[c].name = Name(c) /\ request'[c].phase = "done"
    <3>1. MayGoTo(c, "done")
      BY DEF MayGoTo, Over
    <3> QED
      BY <1>1, <2>1, <3>1, GotoMoves DEF world
  <2>5. Name(c) \notin disturbed => seats[Name(c)] = "unassigned"
    BY <1>1 DEF UsersInv, Tracks, Name
  <2>6. request'[c].phase \notin Looking /\ request[c].phase \notin {"seat", "confirm"}
    BY <1>1, <2>4 DEF Looking
  <2> QED
    BY <1>1, <1>3, <2>1, <2>3, <2>4, <2>5, <2>6, RowWritten
<1> QED
  BY <1>2, <1>3

-----------------------------------------------------------------------------
(* A user created at GitHub, or nothing. *)
ScimAdded(n, id) == scim[n] = 0 /\ scim' = [scim EXCEPT ![n] = id]

LEMMA ScimGrows ==
  ASSUME UsersInv, NEW n \in UserNames, NEW id \in 1..MaxScimIds, UNCHANGED scim \/ ScimAdded(n, id)
  PROVE  /\ scim' \in [UserNames -> 0..MaxScimIds] /\ \A m \in UserNames \ {n} : scim'[m] = scim[m]
         /\ scim'[n] = 0 => scim[n] = 0
         /\ n \in legacy => scim'[n] = scim[n]
<1>1. id # 0 /\ id \in 0..MaxScimIds
  BY SsoUsersAssumption
<1> QED
  BY <1>1 DEF UsersInv, UserTypes, ScimAdded

(* A sync that ends or goes on without a change of the row. *)
LEMMA SyncWalks ==
  ASSUME UsersInv, NEW c \in UserCalls, request[c].phase \in {"known", "post", "replace"}, request[c].op = "sync",
         NEW id \in 1..MaxScimIds, UNCHANGED scim \/ ScimAdded(Name(c), id),
         UNCHANGED <<users, seats, limit, world>>,
         NEW p \in {"done", "failed", "lookup", "post"}, Goto(c, p)
  PROVE  Moves(c)
<1>1. request[c].phase \in Looking /\ WorkingOn(c) /\ Name(c) \in UserNames
  BY RequestTyped DEF Looking, WorkingOn
<1>2. MayGoTo(c, p)
  BY <1>1, RequestTyped DEF MayGoTo, StageFits, UserRequests, Looking, Stages, Over, Destructive
<1>3. /\ RequestMoves(c) /\ request'[c].name = Name(c) /\ request'[c].phase = p
      /\ p \in {"lookup", "post"} => request'[c].user = Read(c)
  BY <1>1, <1>2, GotoMoves DEF world, Over
<1>4. /\ scim' \in [UserNames -> 0..MaxScimIds] /\ \A m \in UserNames \ {Name(c)} : scim'[m] = scim[m]
      /\ scim'[Name(c)] = 0 => scim[Name(c)] = 0
      /\ Name(c) \in legacy => scim'[Name(c)] = scim[Name(c)]
  BY <1>1, ScimGrows
<1>5. UserMoves(c)
  BY <1>1, <1>4 DEF UsersInv, UserTypes, UserMoves, world, Exists
<1>6. AloneMoves(c)
  <2>1. Name(c) \notin disturbed => Exists(Name(c)) /\ Read(c).id = users[Name(c)].id
    BY <1>1 DEF UsersInv, Tracks, Name, Read
  <2>2. Name(c) \notin disturbed => (seats'[Name(c)] # "unassigned" => users'[Name(c)] # NoUser /\ users'[Name(c)].id # 0)
    BY <1>1 DEF UsersInv, Exists
  <2>3. Name(c) \notin disturbed /\ p \in Looking => Tracks(request[c])'
    <3>1. p \in Looking => p \in {"lookup", "post"}
      BY DEF Looking
    <3> QED
      BY <1>3, <2>1, <3>1 DEF Tracks, Exists
  <2> QED
    BY <1>3, <2>2, <2>3 DEF AloneMoves
<1>7. RowMoves(c)
  BY DEF RowMoves, Exists
<1> QED
  BY <1>3, <1>5, <1>6, <1>7 DEF Moves

LEMMA ProvisionedMoves ==
  ASSUME UsersInv, NEW c \in UserCalls, request[c].phase \in {"known", "post", "replace"}, request[c].op = "sync",
         NEW id \in 1..MaxScimIds, UNCHANGED scim \/ ScimAdded(Name(c), id),
         UNCHANGED <<seats, limit, world>>, Provisioned(c, id)
  PROVE  Moves(c)
<1>1. /\ request[c].phase \in Looking /\ WorkingOn(c) /\ Name(c) \in UserNames
      /\ request[c].op # "ensure" /\ request[c].phase \notin {"seat", "confirm"}
  BY RequestTyped DEF Looking, WorkingOn
<1>2. CASE ~Exists(Name(c))
  <2>1. UNCHANGED users /\ Goto(c, "failed")
    BY <1>2 DEF Provisioned
  <2> QED
    BY <2>1, SyncWalks
<1>3. CASE Exists(Name(c))
  <2> DEFINE row == [users[Name(c)] EXCEPT !.id = id, !.emu = "active"]
  <2>1. /\ Update(Name(c), row)
        /\ \/ Goto(c, "done")
           \/ /\ request' = [request EXCEPT ![c].phase = "seat", ![c].user = row, ![c].found = 0]
              /\ UNCHANGED disturbed
    BY <1>3 DEF Provisioned
  <2>2. id # 0 /\ id \in 0..MaxScimIds /\ 0 \in 0..MaxScimIds
    BY SsoUsersAssumption
  <2>3. /\ row \in UserRows /\ row.id = id /\ row.pool = users[Name(c)].pool
        /\ row.password = users[Name(c)].password
    BY <1>3, <2>2, RequestTyped DEF UserRows, Exists
  <2> HIDE DEF row
  <2>4. /\ users' = [users EXCEPT ![Name(c)] = row] /\ users' \in [UserNames -> {NoUser} \cup UserRows]
        /\ users'[Name(c)] = row /\ row # NoUser
    BY <1>1, <2>1, <2>3, SsoUsersAssumption DEF UsersInv, UserTypes, Update
  <2>5. RequestMoves(c) /\ (request'[c].phase \in Looking => request'[c].name = Name(c) /\ request'[c].user = row
                            /\ request'[c].phase = "seat")
    <3>1. CASE Goto(c, "done")
      <4>1. MayGoTo(c, "done") /\ "done" \notin Looking
        BY DEF MayGoTo, Over, Looking
      <4> QED
        BY <1>1, <3>1, <4>1, GotoMoves DEF world
    <3>2. CASE /\ request' = [request EXCEPT ![c].phase = "seat", ![c].user = row, ![c].found = 0]
               /\ UNCHANGED disturbed
      <4> DEFINE q == [request[c] EXCEPT !.phase = "seat", !.user = row, !.found = 0]
      <4>1. "seat" \in Stages
        BY DEF Stages, Looking
      <4>2. /\ q \in UserRequests /\ q.op = request[c].op /\ q.name = request[c].name /\ q.phase = "seat"
            /\ q.user = row
        BY <2>2, <2>3, <4>1, RequestTyped DEF UserRequests
      <4>3. request' = [request EXCEPT ![c] = q]
        BY <3>2
      <4> HIDE DEF q
      <4>4. request' \in [UserCalls -> UserRequests] /\ request'[c] = q /\ \A d \in UserCalls \ {c} : request'[d] = request[d]
        BY <4>2, <4>3 DEF UsersInv, UserTypes
      <4>5. StageFits(q)
        BY <2>4, <4>2 DEF StageFits, Looking, Destructive
      <4> QED
        BY <1>1, <3>2, <4>2, <4>4, <4>5 DEF RequestMoves, world, Name
    <3> QED
      BY <2>1, <3>1, <3>2
  <2>6. /\ scim' \in [UserNames -> 0..MaxScimIds] /\ \A m \in UserNames \ {Name(c)} : scim'[m] = scim[m]
        /\ scim'[Name(c)] = 0 => scim[Name(c)] = 0
        /\ Name(c) \in legacy => scim'[Name(c)] = scim[Name(c)]
    BY <1>1, ScimGrows
  <2>7. UserMoves(c)
    BY <1>1, <2>4, <2>6 DEF UsersInv, UserTypes, UserMoves, world
  <2>8. AloneMoves(c)
    BY <2>2, <2>3, <2>4, <2>5 DEF AloneMoves, Tracks, Exists
  <2>9. RowMoves(c)
    BY <1>1, <1>3, <2>3, <2>4 DEF RowMoves
  <2> QED
    BY <2>5, <2>7, <2>8, <2>9 DEF Moves
<1> QED
  BY <1>2, <1>3

LEMMA ReplaceMoves == ASSUME UsersInv, NEW c \in UserCalls, Replace(c) PROVE Moves(c)
<1>1. /\ request[c].op = "sync" /\ request[c].phase \in {"known", "post", "replace"} /\ request[c].phase \in Looking
      /\ UNCHANGED <<limit, github, world>>
  BY DEF Replace, In, Looking
<1> DEFINE id == IF request[c].phase = "known" THEN Read(c).id ELSE request[c].found
<1>2. id \in 1..MaxScimIds
  <2>1. id \in 0..MaxScimIds
    BY <1>1, RequestTyped DEF UserRequests, UserRows
  <2>2. id # 0
    BY <1>1, RequestTyped DEF Replace, In, StageFits, Read
  <2> HIDE DEF id
  <2> QED
    BY <2>1, <2>2, SsoUsersAssumption
<1>3. \/ Provisioned(c, id)
      \/ UNCHANGED users /\ \E p \in {"done", "failed", "lookup", "post"} : Goto(c, p)
  BY DEF Replace
<1> HIDE DEF id
<1>4. UNCHANGED <<scim, seats, limit, world>>
  BY <1>1 DEF github
<1>5. CASE Provisioned(c, id)
  BY <1>1, <1>2, <1>4, <1>5, ProvisionedMoves
<1>6. CASE UNCHANGED users /\ \E p \in {"done", "failed", "lookup", "post"} : Goto(c, p)
  BY <1>1, <1>2, <1>4, <1>6, SyncWalks
<1> QED
  BY <1>3, <1>5, <1>6

LEMMA PostMoves == ASSUME UsersInv, NEW c \in UserCalls, Post(c) PROVE Moves(c)
<1>1. /\ request[c].op = "sync" /\ request[c].phase \in {"known", "post", "replace"}
      /\ UNCHANGED <<seats, limit, world>>
  BY DEF Post, In
<1> DEFINE conflict == Goto(c, IF request[c].flag THEN "failed" ELSE "lookup") /\ UNCHANGED users
           Walk == UNCHANGED users /\ \E p \in {"done", "failed", "lookup", "post"} : Goto(c, p)
<1>2. (conflict => Walk) /\ (Goto(c, "failed") /\ UNCHANGED users => Walk)
  OBVIOUS
<1>3. \/ UNCHANGED scim /\ Walk
      \/ /\ Ids(Name(c)) \cap (1..MaxScimIds) # 1..MaxScimIds
         /\ ScimAdded(Name(c), FreshId(Name(c)))
         /\ Walk \/ Provisioned(c, FreshId(Name(c)))
  BY <1>2 DEF Post, ScimAdded
<1>4. CASE UNCHANGED scim /\ Walk
  <2>1. 1 \in 1..MaxScimIds
    BY SsoUsersAssumption
  <2> QED
    BY <1>1, <1>4, <2>1, SyncWalks
<1>5. CASE /\ Ids(Name(c)) \cap (1..MaxScimIds) # 1..MaxScimIds
           /\ ScimAdded(Name(c), FreshId(Name(c)))
           /\ Walk \/ Provisioned(c, FreshId(Name(c)))
  <2>1. PICK k \in 1..MaxScimIds : k \notin Ids(Name(c))
    BY <1>5
  <2>2. \E id \in 1..MaxScimIds : \A m \in Ids(Name(c)) : id # m
    BY <2>1
  <2>3. FreshId(Name(c)) \in 1..MaxScimIds
    BY <2>2 DEF FreshId
  <2>4. CASE Walk
    BY <1>1, <1>5, <2>3, <2>4, SyncWalks
  <2>5. CASE Provisioned(c, FreshId(Name(c)))
    BY <1>1, <1>5, <2>3, <2>5, ProvisionedMoves
  <2> QED
    BY <1>5, <2>4, <2>5
<1> QED
  BY <1>3, <1>4, <1>5

LEMMA ResumeMoves == ASSUME UsersInv, NEW c \in UserCalls, Resume(c) PROVE Moves(c)
BY EnsureMoves, CreateMoves, PatchMoves, AssertDestructiveMoves, SuspendMoves, SeatSkippedMoves, SeatAcceptedMoves,
   SeatFailsMoves, ConfirmSeatMoves, DeleteByIdMoves, LookupMoves, DeleteByNameMoves, DeleteAccountsMoves,
   DeleteUserMoves, ForgetEmuMoves, ReplaceMoves, PostMoves
   DEF Resume

-----------------------------------------------------------------------------
(* A request that arrives. *)
Arrives(c) ==
  /\ UNCHANGED <<users, limit, github, world>>
  /\ request' \in [UserCalls -> UserRequests]
  /\ \A d \in UserCalls \ {c} : request'[d] = request[d]
  /\ ~WorkingOn(c) /\ request'[c].phase # "idle" /\ StageFits(request'[c])
  /\ disturbed \subseteq disturbed'
  /\ \A d \in UserCalls : WorkingOn(d) /\ Name(d) = request'[c].name => Name(d) \in disturbed'
  /\ request'[c].phase \in Looking =>
       /\ request'[c].phase \notin {"scimName", "proxy", "last"}
       /\ request'[c].user = users[request'[c].name] /\ request'[c].user # NoUser

(* What the stage a request begins at asks of it. *)
MayBegin(op, n, phase) ==
  /\ op \in {"none", "ensure", "create", "patch", "sync", "assign"} \cup Destructive
  /\ phase \in {"done", "failed", "hash", "member", "known", "post", "seat"}
  /\ phase \in {"member", "known", "post", "seat"} => op # "ensure" /\ Exists(n)
  /\ phase = "known" => users[n].id # 0
  /\ phase = "seat" => op = "assign"
  /\ phase \in {"known", "post"} => op = "sync"

LEMMA BeginArrives ==
  ASSUME UsersInv, NEW c \in UserCalls, NEW op, NEW n \in UserNames, NEW flag \in BOOLEAN, NEW phase,
         MayBegin(op, n, phase), BeginCall(c, op, n, flag, phase), UNCHANGED <<users, limit, github, world>>
  PROVE  Arrives(c)
<1> DEFINE user == IF phase \in {"done", "failed"} THEN NoUser ELSE users[n]
           q == [op |-> op, name |-> n, phase |-> phase, user |-> user, flag |-> flag, tries |-> 1, found |-> 0]
<1>1. request[c].phase = "idle" /\ request' = [request EXCEPT ![c] = q]
  BY DEF BeginCall
<1>2. user \in {NoUser} \cup UserRows /\ (phase \in Looking => user = users[n])
  BY DEF UsersInv, UserTypes, Looking
<1>3. phase \in Stages
  BY DEF MayBegin, Stages, Looking
<1> HIDE DEF user
<1>4. q \in UserRequests
  <2>1. 0 \in 0..MaxScimIds /\ 1 \in Nat
    BY SsoUsersAssumption
  <2> QED
    BY <1>2, <1>3, <2>1 DEF UserRequests, MayBegin
<1>5. q.op = op /\ q.name = n /\ q.phase = phase /\ q.user = user
  OBVIOUS
<1> HIDE DEF q
<1>6. request' \in [UserCalls -> UserRequests] /\ request'[c] = q /\ \A d \in UserCalls \ {c} : request'[d] = request[d]
  BY <1>1, <1>4 DEF UsersInv, UserTypes
<1>7. phase \in Looking => phase \in {"member", "known", "post", "seat"}
  BY DEF MayBegin, Looking
<1>8. phase \in Looking => users[n] # NoUser
  BY <1>7 DEF MayBegin, Exists
<1>9. StageFits(q)
  BY <1>2, <1>5, <1>7, <1>8 DEF StageFits, MayBegin, Looking, Destructive
<1>10. /\ disturbed \subseteq disturbed'
       /\ \A d \in UserCalls : WorkingOn(d) /\ Name(d) = n => Name(d) \in disturbed'
  BY DEF BeginCall, Name
<1>11. ~WorkingOn(c) /\ phase # "idle"
  BY <1>1 DEF WorkingOn, MayBegin
<1> QED
  BY <1>2, <1>5, <1>6, <1>7, <1>8, <1>9, <1>10, <1>11 DEF Arrives

LEMMA StartArrives == ASSUME UsersInv, NEW c \in UserCalls, Start(c) PROVE Arrives(c)
<1>1. ASSUME NEW n \in UserNames, NEW flag \in BOOLEAN, StartEnsure(c, n, flag)
      PROVE  Arrives(c)
  BY <1>1, BeginArrives DEF StartEnsure, MayBegin
<1>2. ASSUME NEW n \in UserNames, NEW flag \in BOOLEAN, StartCreate(c, n, flag)
      PROVE  Arrives(c)
  BY <1>2, BeginArrives DEF StartCreate, MayBegin
<1>3. ASSUME NEW n \in UserNames, NEW flag \in BOOLEAN, StartImport(c, n, flag)
      PROVE  Arrives(c)
  BY <1>3, BeginArrives DEF StartImport, MayBegin
<1>4. ASSUME NEW n \in UserNames, NEW flag \in BOOLEAN, StartSync(c, n, flag)
      PROVE  Arrives(c)
  BY <1>4, BeginArrives DEF StartSync, MayBegin
<1>5. ASSUME NEW n \in UserNames, StartPatch(c, n) \/ StartAssign(c, n)
      PROVE  Arrives(c)
  BY <1>5, BeginArrives DEF StartPatch, StartAssign, MayBegin
<1>6. ASSUME NEW n \in UserNames, NEW op \in Destructive, StartDestructive(c, op, n)
      PROVE  Arrives(c)
  BY <1>6, BeginArrives DEF StartDestructive, MayBegin, Destructive
<1> QED
  BY <1>1, <1>2, <1>3, <1>4, <1>5, <1>6 DEF Start

-----------------------------------------------------------------------------
LEMMA UsersStart ==
  ASSUME UsersInit
  PROVE  UsersInv
<1>1. NewUser(FALSE) \in UserRows /\ SyncedUser \in UserRows /\ SyncedUser.id = 1
  <2>1. 0 \in 0..MaxScimIds /\ 1 \in 0..MaxScimIds
    BY SsoUsersAssumption
  <2>2. NewUser(FALSE) \in UserRows
    BY <2>1 DEF NewUser, UserRows
  <2> QED
    BY <2>1, <2>2 DEF SyncedUser, UserRows, Confirmed
<1>2. users \in [UserNames -> {NoUser} \cup UserRows]
  BY <1>1 DEF UsersInit
<1>3. Rest \in UserRequests /\ Rest.phase = "idle"
  <2>1. 0 \in 0..MaxScimIds /\ 0 \in Nat
    BY SsoUsersAssumption
  <2> QED
    BY <2>1, SsoUsersAssumption DEF Rest, UserRequests, Stages
<1>4. request \in [UserCalls -> UserRequests] /\ \A c \in UserCalls : request[c].phase = "idle"
  BY <1>3 DEF UsersInit
<1>5. /\ \A n \in UserNames : scim[n] = IF users[n] = SyncedUser THEN 1 ELSE 0
      /\ \A n \in UserNames : seats[n] = IF users[n] = SyncedUser THEN "assigned" ELSE "unassigned"
      /\ \A n \in legacy : n \in UserNames /\ users[n] = SyncedUser
      /\ accounts \subseteq UserNames /\ limit \in UserLimits
      /\ scim \in [UserNames -> 0..MaxScimIds] /\ seats \in [UserNames -> Confirmed]
  BY SsoUsersAssumption DEF UsersInit, Confirmed
<1>6. UserTypes
  BY <1>2, <1>4, <1>5 DEF UserTypes
<1>7. \A c \in UserCalls : StageFits(request[c]) /\ request[c].phase \notin Looking /\ ~WorkingOn(c)
  BY <1>4 DEF StageFits, Looking, WorkingOn
<1>8. SyncedUser # NoUser
  BY <1>1, SsoUsersAssumption
<1> QED
  BY <1>1, <1>5, <1>6, <1>7, <1>8 DEF UsersInv, DisturbedTogether, Exists

LEMMA MovesKeep ==
  ASSUME UsersInv, NEW c \in UserCalls, Moves(c)
  PROVE  UsersInv'
<1>1. /\ UNCHANGED <<limit, legacy, disturbed>> /\ request' \in [UserCalls -> UserRequests]
      /\ \A d \in UserCalls \ {c} : request'[d] = request[d]
      /\ WorkingOn(c) /\ request'[c].op = request[c].op
      /\ request'[c].name = Name(c) \/ request[c].op = "ensure"
      /\ StageFits(request'[c])
  BY DEF Moves, RequestMoves
<1>2. UserMoves(c) /\ AloneMoves(c) /\ Name(c) \in UserNames
  BY RequestTyped DEF Moves
<1>3. UserTypes'
  BY <1>1, <1>2 DEF UsersInv, UserTypes, UserMoves
<1>4. \A n \in UserNames : scim'[n] = 0 => seats'[n] = "unassigned"
  BY <1>2 DEF UsersInv, UserMoves
<1>5. \A n \in legacy : users'[n] # NoUser /\ scim'[n] # 0
  BY <1>2 DEF UsersInv, UserTypes, UserMoves, Exists
<1>6. \A d \in UserCalls : StageFits(request'[d])
  BY <1>1 DEF UsersInv
<1>7. DisturbedTogether'
  <2> SUFFICES ASSUME NEW d \in UserCalls, NEW e \in UserCalls, d # e, WorkingOn(d)', WorkingOn(e)', Name(d)' = Name(e)',
                      Name(d)' \notin disturbed'
               PROVE  "ensure" \in {request'[d].op, request'[e].op}
    BY DEF DisturbedTogether
  <2>1. \A x \in UserCalls : /\ request'[x].op = request[x].op /\ (WorkingOn(x)' => WorkingOn(x))
                             /\ Name(x)' = Name(x) \/ request[x].op = "ensure"
    BY <1>1 DEF WorkingOn, Name
  <2> QED
    BY <1>1, <2>1 DEF UsersInv, DisturbedTogether
<1>8. ASSUME NEW d \in UserCalls, request'[d].phase \in Looking, Name(d)' \notin disturbed'
      PROVE  Tracks(request[d])'
  <2>1. request'[d].op # "ensure"
    BY <1>6, <1>8 DEF StageFits
  <2>2. CASE d = c
    BY <1>1, <1>2, <1>8, <2>1, <2>2 DEF AloneMoves, Name
  <2>3. CASE d # c
    <3>1. request'[d] = request[d] /\ Name(d) = request[d].name /\ Name(d) \in UserNames /\ WorkingOn(d)
          /\ request[d].phase \in Looking /\ Name(d) \notin disturbed
      BY <1>1, <1>8, <2>3, RequestTyped DEF Name
    <3>2. Tracks(request[d])
      BY <3>1 DEF UsersInv
    <3>3. accounts' \subseteq accounts
      BY <1>2 DEF UserMoves
    <3>4. CASE Name(d) # Name(c)
      <4>1. users'[Name(d)] = users[Name(d)] /\ scim'[Name(d)] = scim[Name(d)]
        BY <1>2, <3>1, <3>4 DEF UserMoves
      <4> QED
        BY <3>1, <3>2, <3>3, <4>1 DEF Tracks, Exists
    <3>5. CASE Name(d) = Name(c)
      <4>1. request[c].op = "ensure"
        BY <1>1, <2>1, <2>3, <3>1, <3>5 DEF UsersInv, DisturbedTogether
      <4>2. Exists(Name(c))
        BY <3>1, <3>2, <3>5 DEF Tracks
      <4>3. UNCHANGED <<users, scim>>
        BY <1>2, <4>1, <4>2 DEF UserMoves
      <4> QED
        BY <3>1, <3>2, <3>3, <4>3 DEF Tracks, Exists
    <3> QED
      BY <3>4, <3>5
  <2> QED
    BY <2>2, <2>3
<1>9. \A n \in UserNames \ disturbed : seats'[n] # "unassigned" => users'[n] # NoUser /\ users'[n].id # 0
  BY <1>2 DEF UsersInv, UserMoves, AloneMoves, Exists
<1>10. \A d \in UserCalls : StageFits(request[d])'
  BY <1>1, <1>6 DEF StageFits
<1> QED
  BY <1>1, <1>3, <1>4, <1>5, <1>7, <1>8, <1>9, <1>10 DEF UsersInv, Exists

LEMMA ArrivalKeeps ==
  ASSUME UsersInv, NEW c \in UserCalls, Arrives(c)
  PROVE  UsersInv'
<1>1. UNCHANGED <<users, limit, scim, seats, accounts, legacy>> /\ disturbed \subseteq disturbed'
  BY DEF Arrives, github, world
<1>2. /\ request' \in [UserCalls -> UserRequests] /\ \A d \in UserCalls \ {c} : request'[d] = request[d]
      /\ StageFits(request'[c])
      /\ \A d \in UserCalls : WorkingOn(d) /\ Name(d) = request'[c].name => Name(d) \in disturbed'
      /\ request'[c].phase \in Looking =>
            /\ request'[c].phase \notin {"scimName", "proxy", "last"}
            /\ request'[c].user = users[request'[c].name] /\ request'[c].user # NoUser
  BY DEF Arrives
<1>3. UserTypes'
  BY <1>1, <1>2 DEF UsersInv, UserTypes
<1>4. \A d \in UserCalls : StageFits(request[d])'
  BY <1>1, <1>2 DEF UsersInv, StageFits
<1>5. DisturbedTogether'
  <2> SUFFICES ASSUME NEW d \in UserCalls, NEW e \in UserCalls, d # e, WorkingOn(d)', WorkingOn(e)', Name(d)' = Name(e)',
                      Name(d)' \notin disturbed'
               PROVE  "ensure" \in {request'[d].op, request'[e].op}
    BY DEF DisturbedTogether
  <2>1. \A x \in UserCalls \ {c} : request'[x] = request[x] /\ Name(x)' = Name(x) /\ (WorkingOn(x)' <=> WorkingOn(x))
    BY <1>2 DEF WorkingOn, Name
  <2>2. d # c /\ e # c
    BY <1>2, <2>1 DEF Name
  <2> QED
    BY <1>1, <2>1, <2>2 DEF UsersInv, DisturbedTogether
<1>6. ASSUME NEW d \in UserCalls, request'[d].phase \in Looking, Name(d)' \notin disturbed'
      PROVE  Tracks(request[d])'
  <2>1. CASE d = c
    BY <1>1, <1>2, <1>6, <2>1 DEF Tracks, Exists
  <2>2. CASE d # c
    <3>1. request'[d] = request[d] /\ Name(d)' = Name(d)
      BY <1>2, <2>2 DEF Name
    <3>2. Tracks(request[d])
      BY <1>1, <1>6, <3>1 DEF UsersInv
    <3> QED
      BY <1>1, <3>1, <3>2 DEF Tracks, Exists
  <2> QED
    BY <2>1, <2>2
<1> QED
  BY <1>1, <1>3, <1>4, <1>5, <1>6 DEF UsersInv, Exists

LEMMA UsersStep == UsersInv /\ [UsersNext]_userVars => UsersInv'
<1> SUFFICES ASSUME UsersInv, [UsersNext]_userVars PROVE UsersInv'
  OBVIOUS
<1>1. CASE UNCHANGED userVars
  BY <1>1 DEF userVars, UsersInv, UserTypes, StageFits, DisturbedTogether, WorkingOn, Name, Tracks, Exists
<1>2. ASSUME NEW l \in UserLimits, SetLimit(l)
      PROVE  UsersInv'
  BY <1>2 DEF SetLimit, github, world, UsersInv, UserTypes, StageFits, DisturbedTogether, WorkingOn, Name, Tracks, Exists
<1> QED
  BY <1>1, <1>2, ResumeMoves, MovesKeep, StartArrives, ArrivalKeeps DEF UsersNext

-----------------------------------------------------------------------------
(* What the moves promise: the limit, ... *)
LEMMA MovesFit ==
  ASSUME UsersInv, NEW c \in UserCalls, Moves(c), Cardinality(Present) < Cardinality(Present')
  PROVE  Cardinality(Present') <= limit
<1>1. /\ \A n \in UserNames \ {Name(c)} : users'[n] = users[n]
      /\ ~Exists(Name(c)) /\ users'[Name(c)] # NoUser => Cardinality(Present) < limit
      /\ limit \in Nat /\ Name(c) \in UserNames
  BY RequestTyped, SsoUsersAssumption DEF Moves, UserMoves, RowMoves, UsersInv, UserTypes
<1>2. IsFiniteSet(Present) /\ Cardinality(Present) \in Nat
  BY PresentIsFinite
<1>3. Present' \subseteq Present \cup {Name(c)}
  BY <1>1 DEF Present, Exists
<1>4. CASE Present' \subseteq Present
  <2>1. Cardinality(Present') <= Cardinality(Present) /\ Cardinality(Present') \in Nat
    BY <1>2, <1>4, FS_Subset, FS_CardinalityType
  <2> QED
    BY <1>2, <2>1
<1>5. CASE ~(Present' \subseteq Present)
  <2>1. Name(c) \notin Present /\ Name(c) \in Present'
    BY <1>3, <1>5
  <2>2. ~Exists(Name(c)) /\ users'[Name(c)] # NoUser
    BY <1>1, <2>1 DEF Present, Exists
  <2>3. IsFiniteSet(Present \cup {Name(c)}) /\ Cardinality(Present \cup {Name(c)}) = Cardinality(Present) + 1
    BY <1>2, <2>1, FS_AddElement
  <2>4. Cardinality(Present') <= Cardinality(Present \cup {Name(c)}) /\ Cardinality(Present') \in Nat
    BY <1>3, <2>3, FS_Subset, FS_CardinalityType
  <2> QED
    BY <1>1, <1>2, <2>2, <2>3, <2>4
<1> QED
  BY <1>4, <1>5

(* ... the users of the pool, ... *)
LEMMA MovesSpare ==
  ASSUME UsersInv, NEW c \in UserCalls, Moves(c), NEW n \in UserNames
  PROVE  /\ Exists(n) /\ users[n].pool =>
              users'[n] # NoUser /\ users'[n].pool /\ users'[n].password = users[n].password
         /\ n \in legacy => /\ users'[n] # NoUser /\ scim'[n] = scim[n]
                            /\ seats[n] = "assigned" => seats'[n] = "assigned"
<1>1. CASE n = Name(c)
  BY <1>1 DEF Moves, RowMoves, UserMoves
<1>2. CASE n # Name(c)
  BY <1>2 DEF Moves, UserMoves, UsersInv, Exists
<1> QED
  BY <1>1, <1>2

(* ... what a deletion leaves, ... *)
LEMMA DeletedIsGone ==
  ASSUME UsersInv, NEW c \in UserCalls, In(c, {"delete"}, "last"), Name(c) \notin disturbed
  PROVE  scim[Name(c)] = 0 /\ seats[Name(c)] = "unassigned" /\ Name(c) \notin accounts
<1>1. request[c].phase = "last" /\ request[c].op = "delete" /\ request[c].phase \in Looking /\ Name(c) \in UserNames
  BY RequestTyped DEF In, Looking
<1> QED
  BY <1>1 DEF UsersInv, Tracks, Name

(* ... and the seat that the row shows. *)
LEMMA MovesTell ==
  ASSUME UsersInv, NEW c \in UserCalls, Moves(c), NEW d \in UserCalls,
         request[d].phase \in {"seat", "confirm"}, request'[d].phase \notin {"seat", "confirm"},
         Name(d) \notin disturbed, Exists(Name(d))',
         users'[Name(d)].seat \in Confirmed, ~users'[Name(d)].error
  PROVE  users'[Name(d)].seat = seats'[Name(d)]
<1>1. d = c
  BY DEF Moves, RequestMoves
<1>2. request[c].op # "ensure"
  BY <1>1, RequestTyped DEF StageFits, Looking
<1>3. users'[Name(c)] # NoUser
  BY <1>1, <1>2 DEF Moves, RequestMoves, Exists, Name
<1> QED
  BY <1>1, <1>3 DEF Moves, RowMoves

(* A step that is nobody's move. *)
LEMMA NobodyMoves ==
  ASSUME UsersInv, [UsersNext]_userVars, ~\E c \in UserCalls : Moves(c)
  PROVE  /\ UNCHANGED <<users, scim, seats, accounts, legacy>>
         /\ \A d \in UserCalls : request[d].phase \in {"seat", "confirm"} => request'[d].phase = request[d].phase
<1>1. CASE UNCHANGED userVars
  BY <1>1 DEF userVars
<1>2. ASSUME NEW l \in UserLimits, SetLimit(l)
      PROVE  UNCHANGED <<users, request, scim, seats, accounts, legacy>>
  BY <1>2 DEF SetLimit, github, world
<1>3. ASSUME NEW c \in UserCalls, Arrives(c)
      PROVE  /\ UNCHANGED <<users, scim, seats, accounts, legacy>>
             /\ \A d \in UserCalls : request[d].phase \in {"seat", "confirm"} => request'[d].phase = request[d].phase
  BY <1>3 DEF Arrives, github, world, WorkingOn
<1> QED
  BY <1>1, <1>2, <1>3, ResumeMoves, StartArrives DEF UsersNext

(* Requests on one user that overlap between their awaits, fail halfway or are
   answered late (ensureUser, deleteSsoUser, syncSsoUser, confirmSeatMutation)
   keep the limit, spare the users of the pool, leave nothing behind of a
   deleted user and show the seat GitHub has. *)
THEOREM UsersStaySafe == UsersSpec => UsersAreSafe
<1>1. UsersInv /\ [UsersNext]_userVars =>
        (Cardinality(Present) < Cardinality(Present') => Cardinality(Present') <= limit)
  <2> SUFFICES ASSUME UsersInv, [UsersNext]_userVars, Cardinality(Present) < Cardinality(Present')
               PROVE  Cardinality(Present') <= limit
    OBVIOUS
  <2>1. CASE \E c \in UserCalls : Moves(c)
    BY <2>1, MovesFit
  <2>2. CASE ~\E c \in UserCalls : Moves(c)
    <3>1. Present' = Present
      BY <2>2, NobodyMoves DEF Present, Exists
    <3> QED
      BY <3>1, PresentIsFinite
  <2> QED
    BY <2>1, <2>2
<1>2. UsersInv /\ [UsersNext]_userVars =>
        \A n \in UserNames :
          /\ (Exists(n) /\ users[n].pool) => (Exists(n)' /\ users'[n].pool /\ users'[n].password = users[n].password)
          /\ n \in legacy => /\ Exists(n)' /\ scim'[n] = scim[n]
                             /\ seats[n] = "assigned" => seats'[n] = "assigned"
  <2> SUFFICES ASSUME UsersInv, [UsersNext]_userVars, NEW n \in UserNames
               PROVE  /\ (Exists(n) /\ users[n].pool) => (Exists(n)' /\ users'[n].pool /\ users'[n].password = users[n].password)
                      /\ n \in legacy => /\ Exists(n)' /\ scim'[n] = scim[n]
                                         /\ seats[n] = "assigned" => seats'[n] = "assigned"
    OBVIOUS
  <2>1. CASE \E c \in UserCalls : Moves(c)
    BY <2>1, MovesSpare DEF Exists
  <2>2. CASE ~\E c \in UserCalls : Moves(c)
    BY <2>2, NobodyMoves DEF UsersInv, Exists
  <2> QED
    BY <2>1, <2>2
<1>3. UsersInv /\ [UsersNext]_userVars =>
        \A c \in UserCalls :
          (In(c, {"delete"}, "last") /\ request'[c].phase = "done" /\ Name(c) \notin disturbed)
          => (scim[Name(c)] = 0 /\ seats[Name(c)] = "unassigned" /\ Name(c) \notin accounts)
  BY DeletedIsGone
<1>4. UsersInv /\ [UsersNext]_userVars =>
        \A c \in UserCalls :
          (/\ request[c].phase \in {"seat", "confirm"} /\ request'[c].phase \notin {"seat", "confirm"}
           /\ Name(c) \notin disturbed /\ Exists(Name(c))'
           /\ users'[Name(c)].seat \in Confirmed /\ ~users'[Name(c)].error)
          => users'[Name(c)].seat = seats'[Name(c)]
  <2> SUFFICES ASSUME UsersInv, [UsersNext]_userVars, NEW d \in UserCalls,
                      request[d].phase \in {"seat", "confirm"}, request'[d].phase \notin {"seat", "confirm"},
                      Name(d) \notin disturbed, Exists(Name(d))',
                      users'[Name(d)].seat \in Confirmed, ~users'[Name(d)].error
               PROVE  users'[Name(d)].seat = seats'[Name(d)]
    OBVIOUS
  <2>1. PICK c \in UserCalls : Moves(c)
    BY NobodyMoves
  <2> QED
    BY <2>1, MovesTell
<1> QED
  BY <1>1, <1>2, <1>3, <1>4, UsersStart, UsersStep, PTL
     DEF UsersSpec, UsersAreSafe, NewUserFits, PoolUsersStay, NothingIsLeft, SeatIsTrue


-----------------------------------------------------------------------------
(* The account row of direct mode and its initializer. *)

AccountRows == [ent: AccountEnterprises, token: Nat, status: AccountStatus, attempt: Nat]

StarterStates ==
  [at: {"idle", "claiming", "stealing", "ensuring", "creating", "preparing", "beginning", "submitting", "releasing",
        "answered"}, attempt: Nat, leased: BOOLEAN]

AccountTypes ==
  /\ account \in {NoAccount} \cup AccountRows
  /\ starter \in [Starters -> StarterStates]
  /\ issuedAttempts \in Nat /\ issuedTokens \in Nat

(* A leased starter holds the claim, so that there is one at most. *)
LeasedHolds == \A s \in Starters : starter[s].leased => initClaim = s

AccountsInv == AccountTypes /\ AccountRowAgrees /\ LeasedHolds

(* What a statement makes of the row. *)
AccountChanges ==
  /\ account' \in {NoAccount} \cup AccountRows
  /\ AccountRowAgrees'
  /\ (account # NoAccount /\ account' # NoAccount) =>
       /\ account'.ent = account.ent
       /\ (account.token # 0 /\ account'.token = 0) => viewer = account.token

LEMMA RowKept == ASSUME AccountsInv, UNCHANGED account PROVE AccountChanges
BY DEF AccountsInv, AccountTypes, AccountRowAgrees, AccountChanges

LEMMA RowDeleted == ASSUME account' = NoAccount PROVE AccountChanges
BY DEF AccountRowAgrees, AccountChanges

LEMMA RowCreated ==
  ASSUME AccountsInv, NEW status \in {"missing", "failed"}, account' = Created(DirectEnterprise, status)
  PROVE  AccountChanges
<1>1. CASE account # NoAccount
  BY <1>1, RowKept DEF Created
<1>2. CASE account = NoAccount
  <2>1. account' = [ent |-> DirectEnterprise, token |-> 0, status |-> status, attempt |-> 0]
    BY <1>2 DEF Created
  <2>2. account' \in AccountRows /\ account'.status \in {"missing", "failed"}
    BY <2>1, AccountsAssumption DEF AccountRows, AccountStatus
  <2> QED
    BY <1>2, <2>2 DEF AccountChanges, AccountRowAgrees
<1> QED
  BY <1>1, <1>2

LEMMA RowBegun ==
  ASSUME AccountsInv, account # NoAccount, NEW a \in Nat \ {0}, account' = BegunWith(a)
  PROVE  AccountChanges
<1>1. account \in AccountRows
  BY DEF AccountsInv, AccountTypes
<1>2. /\ account' \in AccountRows /\ account'.status = "refreshing" /\ account'.attempt = a
      /\ account'.ent = account.ent /\ account'.token = account.token
  BY <1>1 DEF BegunWith, AccountRows, AccountStatus
<1> QED
  BY <1>2 DEF AccountChanges, AccountRowAgrees

LEMMA RowFailed ==
  ASSUME AccountsInv, NEW a, account' = FailedAttempt(a)
  PROVE  AccountChanges
<1>1. CASE account # NoAccount /\ account.attempt = a
  <2>1. account \in AccountRows /\ account' = [account EXCEPT !.status = "failed"]
    BY <1>1 DEF AccountsInv, AccountTypes, FailedAttempt
  <2>2. /\ account' \in AccountRows /\ account'.status = "failed"
        /\ account'.ent = account.ent /\ account'.token = account.token
    BY <2>1 DEF AccountRows, AccountStatus
  <2> QED
    BY <2>2 DEF AccountChanges, AccountRowAgrees
<1>2. CASE ~(account # NoAccount /\ account.attempt = a)
  BY <1>2, RowKept DEF FailedAttempt
<1> QED
  BY <1>1, <1>2

LEMMA RowSaved ==
  ASSUME AccountsInv, account # NoAccount, NEW t \in Nat \ {0}, account' = Saved(t)
  PROVE  AccountChanges
<1>1. account \in AccountRows
  BY DEF AccountsInv, AccountTypes
<1>2. /\ account' \in AccountRows /\ account'.status = "valid" /\ account'.token = t
      /\ account'.ent = account.ent
  BY <1>1 DEF Saved, AccountRows, AccountStatus
<1> QED
  BY <1>2 DEF AccountChanges, AccountRowAgrees

LEMMA RowImported ==
  ASSUME AccountsInv, NEW e \in AccountEnterprises, UpsertAllowed(e), NEW t \in Nat \ {0}, account' = Imported(e, t)
  PROVE  AccountChanges
<1>1. /\ account' \in AccountRows /\ account'.status = "valid" /\ account'.token = t /\ account'.ent = e
  BY DEF Imported, AccountRows, AccountStatus
<1> QED
  BY <1>1 DEF AccountChanges, AccountRowAgrees, UpsertAllowed

LEMMA RowInvalidated ==
  ASSUME AccountsInv, account' = Invalidated(viewer)
  PROVE  AccountChanges
<1>1. CASE account # NoAccount /\ account.token = viewer /\ account.status = "valid"
  <2>1. account \in AccountRows /\ account' = [account EXCEPT !.token = 0, !.status = "expired", !.attempt = 0]
    BY <1>1 DEF AccountsInv, AccountTypes, Invalidated
  <2> DEFINE row == [account EXCEPT !.token = 0, !.status = "expired", !.attempt = 0]
  <2>2. row \in AccountRows /\ row.status = "expired" /\ row.ent = account.ent
    <3>1. "expired" \in AccountStatus /\ 0 \in Nat
      BY DEF AccountStatus
    <3> HIDE <1>1
    <3> QED
      BY <2>1, <3>1 DEF AccountRows
  <2> QED
    BY <1>1, <2>1, <2>2 DEF AccountChanges, AccountRowAgrees
<1>2. CASE ~(account # NoAccount /\ account.token = viewer /\ account.status = "valid")
  BY <1>2, RowKept DEF Invalidated
<1> QED
  BY <1>1, <1>2

(* What a step makes of the starters and their claim. *)
StarterChanges ==
  /\ starter' \in [Starters -> StarterStates] /\ LeasedHolds'
  /\ issuedAttempts' \in Nat /\ issuedTokens' \in Nat

LEMMA StarterSteps ==
  ASSUME AccountsInv, UNCHANGED <<initClaim, issued>>, NEW s \in Starters,
         NEW p \in {"claiming", "stealing", "creating", "preparing", "beginning", "submitting", "releasing", "answered"},
         Step(s, p)
  PROVE  StarterChanges
<1>1. starter' \in [Starters -> StarterStates]
  BY DEF Step, AccountsInv, AccountTypes, StarterStates
<1>2. \A o \in Starters : starter'[o].leased = starter[o].leased
  BY DEF Step, AccountsInv, AccountTypes, StarterStates
<1> QED
  BY <1>1, <1>2 DEF StarterChanges, LeasedHolds, AccountsInv, AccountTypes, issued

LEMMA StartersKept ==
  ASSUME AccountsInv, UNCHANGED <<initClaim, starter>>, issuedAttempts' \in Nat, issuedTokens' \in Nat
  PROVE  StarterChanges
BY DEF StarterChanges, LeasedHolds, AccountsInv, AccountTypes

(* A starter's state that is replaced. *)
LEMMA StarterBecomes ==
  ASSUME AccountsInv, NEW s \in Starters, NEW q \in StarterStates, starter' = [starter EXCEPT ![s] = q],
         \A o \in Starters \ {s} : starter[o].leased => initClaim' = o, q.leased => initClaim' = s,
         issuedAttempts' \in Nat, issuedTokens' \in Nat
  PROVE  StarterChanges
<1>1. /\ starter' \in [Starters -> StarterStates] /\ starter'[s] = q
      /\ \A o \in Starters \ {s} : starter'[o] = starter[o]
  BY DEF AccountsInv, AccountTypes
<1> QED
  BY <1>1 DEF StarterChanges, LeasedHolds

LEMMA ClaimChanges ==
  ASSUME AccountsInv, NEW s \in Starters, Claim(s), UNCHANGED issued,
         initClaim = NoClaim \/ (initClaim # NoClaim /\ ~starter[initClaim].leased)
  PROVE  StarterChanges
<1> DEFINE q == [starter[s] EXCEPT !.at = "ensuring", !.leased = TRUE]
<1>1. starter' = [starter EXCEPT ![s] = q] /\ initClaim' = s
  BY DEF Claim
<1>2. q \in StarterStates
  BY DEF AccountsInv, AccountTypes, StarterStates
<1> HIDE DEF q
<1>3. \A o \in Starters : ~starter[o].leased
  BY AccountsAssumption DEF AccountsInv, LeasedHolds
<1>4. issuedAttempts' \in Nat /\ issuedTokens' \in Nat
  BY DEF issued, AccountsInv, AccountTypes
<1> QED
  BY <1>1, <1>2, <1>3, <1>4, StarterBecomes

LEMMA AccountsKeep ==
  ASSUME AccountsInv, [AccountsNext]_accountVars
  PROVE  AccountChanges /\ StarterChanges
<1>0. issuedAttempts \in Nat /\ issuedTokens \in Nat /\ issuedAttempts + 1 \in Nat \ {0} /\ issuedTokens + 1 \in Nat \ {0}
  BY DEF AccountsInv, AccountTypes
<1>1. CASE UNCHANGED accountVars
  BY <1>0, <1>1, RowKept, StartersKept DEF accountVars
<1>2. ASSUME NEW s \in Starters, getAuth(s) \/ ensureSsoUser(s) \/ prepareLoginAuthorization(s) \/ Dies(s)
      PROVE  AccountChanges /\ StarterChanges
  <2>1. UNCHANGED <<account, initClaim, issued>>
    BY <1>2 DEF getAuth, ensureSsoUser, prepareLoginAuthorization, Dies
  <2>2. \E p \in {"claiming", "creating", "releasing", "beginning", "answered"} : Step(s, p)
    BY <1>2 DEF getAuth, ensureSsoUser, prepareLoginAuthorization, Dies
  <2> QED
    BY <2>1, <2>2, RowKept, StarterSteps
<1>3. ASSUME NEW s \in Starters, claimIdentityInitialization(s)
      PROVE  AccountChanges /\ StarterChanges
  <2>1. UNCHANGED <<account, issued>>
    BY <1>3 DEF claimIdentityInitialization
  <2>2. \/ Claim(s) /\ (initClaim = NoClaim \/ (initClaim # NoClaim /\ ~starter[initClaim].leased))
        \/ UNCHANGED initClaim /\ \E p \in {"stealing", "answered"} : Step(s, p)
    BY <1>3 DEF claimIdentityInitialization
  <2> QED
    BY <2>1, <2>2, RowKept, StarterSteps, ClaimChanges
<1>4. ASSUME NEW s \in Starters, createAccount(s)
      PROVE  AccountChanges /\ StarterChanges
  <2>1. UNCHANGED <<initClaim, issued>>
    BY <1>4 DEF createAccount
  <2>2. \E p \in {"preparing", "releasing"} : Step(s, p)
    BY <1>4 DEF createAccount
  <2>3. UNCHANGED account \/ \E status \in {"missing", "failed"} : account' = Created(DirectEnterprise, status)
    BY <1>4 DEF createAccount
  <2> QED
    BY <2>1, <2>2, <2>3, RowKept, RowCreated, StarterSteps
<1>5. ASSUME NEW s \in Starters, beginCopilotOauthAuthorization(s)
      PROVE  AccountChanges /\ StarterChanges
  <2>1. CASE account = NoAccount
    <3>1. Step(s, "releasing") /\ UNCHANGED <<account, initClaim, issued>>
      BY <1>5, <2>1 DEF beginCopilotOauthAuthorization, issued
    <3> QED
      BY <3>1, RowKept, StarterSteps
  <2>2. CASE account # NoAccount
    <3> DEFINE q == [starter[s] EXCEPT !.at = "submitting", !.attempt = issuedAttempts + 1]
    <3>1. /\ account' = BegunWith(issuedAttempts + 1) /\ UNCHANGED <<initClaim, issuedTokens>>
          /\ issuedAttempts' = issuedAttempts + 1
          /\ starter' = [starter EXCEPT ![s] = q]
      BY <1>5, <2>2 DEF beginCopilotOauthAuthorization
    <3>2. q \in StarterStates /\ q.leased = starter[s].leased
      BY <1>0 DEF AccountsInv, AccountTypes, StarterStates
    <3> HIDE DEF q
    <3>3. AccountChanges
      BY <1>0, <2>2, <3>1, RowBegun
    <3>4. \A o \in Starters : starter[o].leased => initClaim' = o
      BY <3>1 DEF AccountsInv, LeasedHolds
    <3> QED
      BY <1>0, <3>1, <3>2, <3>3, <3>4, StarterBecomes
  <2> QED
    BY <2>1, <2>2
<1>6. ASSUME NEW s \in Starters, submitLogin(s)
      PROVE  AccountChanges /\ StarterChanges
  <2>1. Step(s, "releasing") /\ UNCHANGED <<initClaim, issued>> /\ (UNCHANGED account \/ account' = FailedAttempt(starter[s].attempt))
    BY <1>6 DEF submitLogin
  <2> QED
    BY <2>1, RowKept, RowFailed, StarterSteps
<1>7. ASSUME NEW s \in Starters, releaseIdentityInitialization(s)
      PROVE  AccountChanges /\ StarterChanges
  <2> DEFINE q == [at |-> "answered", attempt |-> 0, leased |-> FALSE]
  <2>1. /\ UNCHANGED <<account, issued>> /\ starter' = [starter EXCEPT ![s] = q]
        /\ initClaim' = IF initClaim = s THEN NoClaim ELSE initClaim
    BY <1>7 DEF releaseIdentityInitialization
  <2>2. q \in StarterStates /\ ~q.leased
    BY DEF StarterStates
  <2> HIDE DEF q
  <2>3. \A o \in Starters \ {s} : starter[o].leased => initClaim' = o
    BY <2>1 DEF AccountsInv, LeasedHolds
  <2> QED
    BY <1>0, <2>1, <2>2, <2>3, RowKept, StarterBecomes DEF issued
<1>8. ASSUME NEW s \in Starters, LeaseExpires(s)
      PROVE  AccountChanges /\ StarterChanges
  <2> DEFINE q == [starter[s] EXCEPT !.leased = FALSE]
  <2>1. UNCHANGED <<account, initClaim, issued>> /\ starter' = [starter EXCEPT ![s] = q]
    BY <1>8 DEF LeaseExpires
  <2>2. q \in StarterStates /\ ~q.leased
    BY DEF AccountsInv, AccountTypes, StarterStates
  <2> HIDE DEF q
  <2>3. \A o \in Starters \ {s} : starter[o].leased => initClaim' = o
    BY <2>1 DEF AccountsInv, LeasedHolds
  <2> QED
    BY <1>0, <2>1, <2>2, <2>3, RowKept, StarterBecomes DEF issued
<1>9. CASE triggerOauthRefresh
  <2>1. UNCHANGED <<initClaim, starter, issuedTokens>> /\ issuedAttempts' = issuedAttempts + 1
    BY <1>9 DEF triggerOauthRefresh
  <2> QED
    BY <1>0, <1>9, <2>1, RowBegun, StartersKept DEF triggerOauthRefresh
<1>10. ASSUME NEW a \in 1..issuedAttempts, saveCopilotOauthToken(a) \/ failCopilotOauthAuthorization(a)
       PROVE  AccountChanges /\ StarterChanges
  <2>1. UNCHANGED <<initClaim, starter, issuedAttempts>> /\ issuedTokens' \in Nat
    BY <1>0, <1>10 DEF saveCopilotOauthToken, failCopilotOauthAuthorization, issued
  <2>2. account' = FailedAttempt(a) \/ (account # NoAccount /\ account' = Saved(issuedTokens + 1))
    BY <1>10 DEF saveCopilotOauthToken, failCopilotOauthAuthorization
  <2> QED
    BY <1>0, <2>1, <2>2, RowFailed, RowSaved, StartersKept
<1>11. ASSUME NEW k \in Importers, importCopilotOauthTokenRow(k) \/ importCopilotOauthToken(k)
       PROVE  AccountChanges /\ StarterChanges
  <2>1. UNCHANGED <<initClaim, starter, issuedAttempts>> /\ issuedTokens' \in Nat
    BY <1>0, <1>11 DEF importCopilotOauthTokenRow, importCopilotOauthToken, issued
  <2>2. UNCHANGED account \/ (UpsertAllowed(ImportsInto[k]) /\ account' = Imported(ImportsInto[k], issuedTokens + 1))
    BY <1>11 DEF importCopilotOauthTokenRow, importCopilotOauthToken
  <2>3. ImportsInto[k] \in AccountEnterprises
    BY AccountsAssumption
  <2> QED
    BY <1>0, <2>1, <2>2, <2>3, RowKept, RowImported, StartersKept
<1>12. CASE UseToken \/ invalidateCopilotOauthToken \/ deleteAccount \/ \E e \in AccountEnterprises : deleteAccountsBySsoUser(e)
  <2>1. UNCHANGED <<initClaim, starter, issued>>
    BY <1>12 DEF UseToken, invalidateCopilotOauthToken, deleteAccount, deleteAccountsBySsoUser
  <2>2. UNCHANGED account \/ account' = Invalidated(viewer) \/ account' = NoAccount
    BY <1>12 DEF UseToken, invalidateCopilotOauthToken, deleteAccount, deleteAccountsBySsoUser
  <2> QED
    BY <1>0, <2>1, <2>2, RowKept, RowInvalidated, RowDeleted, StartersKept DEF issued
<1> QED
  BY <1>1, <1>2, <1>3, <1>4, <1>5, <1>6, <1>7, <1>8, <1>9, <1>10, <1>11, <1>12 DEF AccountsNext

LEMMA AccountsStart == ASSUME AccountsInit PROVE AccountsInv
BY DEF AccountsInit, AccountsInv, AccountTypes, AccountRowAgrees, LeasedHolds, StarterStates

LEMMA AccountsStep == ASSUME AccountsInv, [AccountsNext]_accountVars PROVE AccountsInv'
BY AccountsKeep DEF AccountChanges, StarterChanges, AccountsInv, AccountTypes

LEMMA AccountsSafe == AccountsInv => AccountsAreSafe
BY DEF AccountsInv, AccountsAreSafe, OneInitializer, LeasedHolds

-----------------------------------------------------------------------------
(* Request statistics and their export. *)

RowSets == {S \in SUBSET Nat : IsFiniteSet(S)}

(* What the pages sent so far make up. *)
ExportHolds ==
  /\ export = [at |-> export.at, snapshot |-> export.snapshot, page |-> export.page, sent |-> export.sent]
  /\ export.at = "reading" =>
       /\ export.snapshot \in RowSets /\ export.page \in Nat \ {0}
       /\ (export.page - 1) * PageRows <= Cardinality(export.snapshot)
       /\ export.sent = SubSeq(NewerFirst(export.snapshot), 1, (export.page - 1) * PageRows)
  /\ ExportIsOneTable

StatsInv ==
  /\ statRows \in RowSets /\ stamp \in Nat
  /\ recorder \in [Recorders -> [at: {"idle", "stamped", "pruning"}, row: Nat]]
  /\ ExportHolds

(* Rows outside the newest have StatsLimit newer ones that stay. *)
LEMMA RetainedStay ==
  ASSUME NEW S \in RowSets, NEW p \in S, p \notin Retained(S)
  PROVE  Cardinality(Newer(Retained(S), p)) >= StatsLimit
<1> DEFINE N == Newer(S, p)
           M == Newer(Retained(S), p)
           P == N \ Retained(S)
<1>1. S \subseteq Nat /\ IsFiniteSet(S) /\ Retained(S) \subseteq S /\ StatsLimit \in Nat
  BY StatsAssumption DEF RowSets, Retained
<1>2. IsFiniteSet(M) /\ Cardinality(M) \in Nat /\ IsFiniteSet(N) /\ Cardinality(N) \in Nat
  <2>1. N \subseteq S /\ M \subseteq S
    BY <1>1 DEF Newer
  <2> HIDE DEF N, M
  <2> QED
    BY <1>1, <2>1, FS_Subset, FS_CardinalityType
<1>3. Cardinality(N) >= StatsLimit
  BY <1>1, <1>2 DEF Retained
<1> DEFINE c == Cardinality(M)
<1>0. c \in Nat /\ c = Cardinality(Newer(Retained(S), p))
  BY <1>2
<1>4. SUFFICES ASSUME c < StatsLimit PROVE FALSE
  <2> HIDE DEF M, c
  <2> QED
    BY <1>0, <1>1
<1>5. P # {}
  <2>1. P = {} => N \subseteq M
    BY <1>1 DEF Newer
  <2>2. N \subseteq M => Cardinality(N) <= Cardinality(M)
    <3> HIDE DEF N, M
    <3> QED
      BY <1>2, FS_Subset
  <2> HIDE DEF N, M, P
  <2> QED
    BY <1>1, <1>2, <1>3, <1>4, <2>1, <2>2
<1>6. PICK x \in P : \A y \in P : y <= x
  <2>1. P \subseteq N /\ P \subseteq Nat
    BY <1>1 DEF Newer
  <2> HIDE DEF P, N
  <2>2. IsFiniteSet(P)
    BY <1>2, <2>1, FS_Subset
  <2> QED
    BY <1>5, <2>1, <2>2, LastNumber
<1>7. Newer(S, x) \subseteq M
  <2> SUFFICES ASSUME NEW y \in S, y > x PROVE y \in Retained(S) /\ y > p
    BY DEF Newer
  <2>1. y \in Nat /\ x \in Nat /\ p \in Nat /\ x > p
    BY <1>1 DEF Newer
  <2>2. y > p /\ ~(y <= x)
    BY <2>1
  <2>3. y \in N
    BY <2>2 DEF Newer
  <2> QED
    BY <1>6, <2>2, <2>3
<1>8. Cardinality(Newer(S, x)) <= Cardinality(M) /\ Cardinality(Newer(S, x)) \in Nat
  <2> HIDE DEF M
  <2> QED
    BY <1>2, <1>7, FS_Subset, FS_CardinalityType
<1>9. x \in S /\ x \notin Retained(S)
  BY <1>1 DEF Newer
<1> HIDE DEF M
<1> QED
  BY <1>1, <1>2, <1>4, <1>8, <1>9 DEF Retained

(* Pages in a row make up one prefix. *)
LEMMA PagesJoin ==
  ASSUME NEW n \in Nat, NEW s, NEW k \in 0..n, NEW m \in k..n
  PROVE  SubSeq(s, 1, k) \o SubSeq(s, k + 1, m) = SubSeq(s, 1, m)
<1> DEFINE V == {s[i] : i \in 1..n}
           a == SubSeq(s, 1, k)
           b == SubSeq(s, k + 1, m)
           c == SubSeq(s, 1, m)
<1>1. n \in Nat /\ k \in Nat /\ m \in Nat /\ k + 1 \in Int /\ 1 \in Int /\ k <= m /\ m <= n
  OBVIOUS
<1>2. \A i \in 1..n : s[i] \in V
  OBVIOUS
<1> HIDE DEF V
<1>3. a \in Seq(V) /\ Len(a) = k /\ \A i \in 1..k : a[i] = s[i]
  <2>1. \A i \in 1..k : s[i] \in V
    BY <1>1, <1>2
  <2>2. /\ a \in Seq(V) /\ Len(a) = (IF 1 <= k THEN k - 1 + 1 ELSE 0)
        /\ \A i \in 1..(k - 1 + 1) : a[i] = s[1 + i - 1]
    BY <1>1, <2>1, SubSeqProperties
  <2> HIDE DEF a
  <2>3. k - 1 + 1 = k /\ (IF 1 <= k THEN k - 1 + 1 ELSE 0) = k /\ \A i \in 1..k : 1 + i - 1 = i
    BY <1>1
  <2>4. \A i \in 1..k : a[i] = s[i]
    BY <2>2, <2>3
  <2> QED
    BY <2>2, <2>3, <2>4
<1>4. b \in Seq(V) /\ Len(b) = m - k /\ \A i \in 1..(m - k) : b[i] = s[k + i]
  <2>1. \A i \in (k + 1)..m : s[i] \in V
    BY <1>1, <1>2
  <2>2. /\ b \in Seq(V) /\ Len(b) = (IF k + 1 <= m THEN m - (k + 1) + 1 ELSE 0)
        /\ \A i \in 1..(m - (k + 1) + 1) : b[i] = s[(k + 1) + i - 1]
    BY <1>1, <2>1, SubSeqProperties
  <2> HIDE DEF b
  <2>3. /\ m - (k + 1) + 1 = m - k /\ (IF k + 1 <= m THEN m - (k + 1) + 1 ELSE 0) = m - k
        /\ \A i \in 1..(m - k) : (k + 1) + i - 1 = k + i
    BY ONLY <1>1
  <2>4. \A i \in 1..(m - k) : b[i] = s[k + i]
    BY ONLY <2>2, <2>3
  <2> QED
    BY ONLY <2>2, <2>3, <2>4
<1>5. c \in Seq(V) /\ Len(c) = m /\ \A i \in 1..m : c[i] = s[i]
  <2>1. \A i \in 1..m : s[i] \in V
    BY <1>1, <1>2
  <2>2. /\ c \in Seq(V) /\ Len(c) = (IF 1 <= m THEN m - 1 + 1 ELSE 0)
        /\ \A i \in 1..(m - 1 + 1) : c[i] = s[1 + i - 1]
    BY <1>1, <2>1, SubSeqProperties
  <2> HIDE DEF c
  <2>3. m - 1 + 1 = m /\ (IF 1 <= m THEN m - 1 + 1 ELSE 0) = m /\ \A i \in 1..m : 1 + i - 1 = i
    BY ONLY <1>1
  <2>4. \A i \in 1..m : c[i] = s[i]
    BY ONLY <2>2, <2>3
  <2> QED
    BY ONLY <2>2, <2>3, <2>4
<1> HIDE DEF a, b, c
<1>6. /\ a \o b \in Seq(V) /\ Len(a \o b) = Len(a) + Len(b)
      /\ \A i \in 1..(Len(a) + Len(b)) : (a \o b)[i] = IF i <= Len(a) THEN a[i] ELSE b[i - Len(a)]
  BY <1>3, <1>4, ConcatProperties
<1>7. Len(a \o b) = m /\ \A i \in 1..m : (a \o b)[i] = s[i]
  <2>1. Len(a) + Len(b) = m
    BY <1>1, <1>3, <1>4
  <2>2. ASSUME NEW i \in 1..m PROVE (a \o b)[i] = s[i]
    <3>1. CASE i <= k
      BY <1>1, <1>3, <1>6, <2>1, <3>1
    <3>2. CASE ~(i <= k)
      <4>1. i - k \in 1..(m - k) /\ k + (i - k) = i
        BY <1>1, <3>2
      <4> QED
        BY <1>1, <1>3, <1>4, <1>6, <2>1, <3>2, <4>1
    <3> QED
      BY <3>1, <3>2
  <2> QED
    BY <1>6, <2>1, <2>2
<1>8. a \o b = c
  BY <1>5, <1>6, <1>7, SeqEqual
<1> QED
  BY <1>8 DEF a, b, c

(* All of the pages are the table. *)
LEMMA AllPages ==
  ASSUME NEW S \in RowSets
  PROVE  SubSeq(NewerFirst(S), 1, Cardinality(S)) = NewerFirst(S)
<1> DEFINE n == Cardinality(S)
           s == NewerFirst(S)
           V == {s[i] : i \in 1..n}
<1>1. n \in Nat
  BY FS_CardinalityType DEF RowSets
<1>2. s \in [1..n -> V]
  BY DEF NewerFirst
<1>3. \A i \in 1..n : s[i] \in V
  OBVIOUS
<1> HIDE DEF n, s, V
<1>4. s \in Seq(V) /\ Len(s) = n
  BY <1>1, <1>2
<1>5. /\ SubSeq(s, 1, n) \in Seq(V) /\ Len(SubSeq(s, 1, n)) = (IF 1 <= n THEN n - 1 + 1 ELSE 0)
      /\ \A i \in 1..(n - 1 + 1) : SubSeq(s, 1, n)[i] = s[1 + i - 1]
  BY <1>1, <1>3, SubSeqProperties
<1>6. Len(SubSeq(s, 1, n)) = n /\ \A i \in 1..n : SubSeq(s, 1, n)[i] = s[i]
  BY <1>1, <1>5
<1>7. SubSeq(s, 1, n) = s
  BY <1>4, <1>5, <1>6, SeqEqual
<1> QED
  BY <1>7 DEF n, s

(* An export goes on as one prefix of the table that ends with the table. *)
LEMMA PageExported ==
  ASSUME ExportHolds, export.at = "reading"
  PROVE  LET e == Exported(listRequestStatsPage(export.snapshot, export.page))
         IN  /\ e = [at |-> e.at, snapshot |-> e.snapshot, page |-> e.page, sent |-> e.sent]
             /\ e.at = "reading" =>
                  /\ e.snapshot \in RowSets /\ e.page \in Nat \ {0}
                  /\ (e.page - 1) * PageRows <= Cardinality(e.snapshot)
                  /\ e.sent = SubSeq(NewerFirst(e.snapshot), 1, (e.page - 1) * PageRows)
             /\ e.at = "done" => e.sent = NewerFirst(e.snapshot)
<1> DEFINE S == export.snapshot
           n == Cardinality(S)
           s == NewerFirst(S)
           p == export.page
           k == (p - 1) * PageRows
           l == p * PageRows
           m == Lesser(l, n)
           r == listRequestStatsPage(S, p)
           e == Exported(r)
<1>1. S \in RowSets /\ p \in Nat \ {0} /\ k <= n /\ export.sent = SubSeq(s, 1, k) /\ PageRows \in Nat \ {0}
  BY StatsAssumption DEF ExportHolds
<1>2. n \in Nat
  BY <1>1, FS_CardinalityType DEF RowSets
<1>3. k \in Nat /\ l \in Nat /\ k <= l /\ ((p + 1) - 1) * PageRows = l
  <2>1. p - 1 \in Nat /\ PageRows \in Nat /\ p \in Nat
    BY <1>1
  <2>2. k \in Nat /\ l \in Nat /\ l = k + PageRows /\ (p + 1) - 1 = p
    <3> HIDE DEF p
    <3> QED
      BY <2>1
  <2> HIDE DEF k, l
  <2>3. k <= l
    BY <2>1, <2>2
  <2> QED
    BY <2>2, <2>3 DEF l
<1>4. m \in k..n /\ k \in 0..n /\ (l >= n => m = n) /\ (~(l >= n) => m = l)
  <2> HIDE DEF k, l, n
  <2> QED
    BY <1>1, <1>2, <1>3 DEF Lesser
<1>5. SubSeq(s, 1, k) \o SubSeq(s, k + 1, m) = SubSeq(s, 1, m)
  <2> HIDE DEF k, m, n, s
  <2> QED
    BY <1>2, <1>4, PagesJoin
<1>6. CASE r.page # p
  <2>1. e = [export EXCEPT !.at = "destroyed"]
    BY <1>6 DEF Exported
  <2>2. e.at = "destroyed" /\ e = [at |-> e.at, snapshot |-> e.snapshot, page |-> e.page, sent |-> e.sent]
    <3> HIDE DEF e, r
    <3> QED
      BY <2>1 DEF ExportHolds
  <2> QED
    BY <2>2
<1>7. CASE r.page = p
  <2>1. r.items = SubSeq(s, k + 1, m) /\ r.total = n
    BY <1>7 DEF listRequestStatsPage
  <2>2. e = [export EXCEPT !.sent = @ \o r.items, !.page = @ + 1,
                           !.at = IF p * PageRows >= r.total THEN "done" ELSE @]
    BY <1>7 DEF Exported
  <2>3. /\ e.snapshot = S /\ e.page = p + 1 /\ e.sent = SubSeq(s, 1, k) \o SubSeq(s, k + 1, m)
        /\ e.at = (IF l >= n THEN "done" ELSE "reading")
        /\ e = [at |-> e.at, snapshot |-> e.snapshot, page |-> e.page, sent |-> e.sent]
    <3> HIDE DEF e, r, k, m, s, n
    <3> QED
      BY <1>1, <2>1, <2>2 DEF ExportHolds
  <2>4. e.sent = SubSeq(s, 1, m)
    <3> HIDE DEF e, r, k, m, s, n
    <3> QED
      BY <1>5, <2>3
  <2>5. CASE l >= n
    <3>1. SubSeq(s, 1, n) = s
      BY <1>1, AllPages
    <3>2. m = n
      BY <1>4, <2>5
    <3> HIDE DEF e, r, k, l, m, n, s
    <3>3. e.at = "done" /\ e.sent = s /\ e.snapshot = S
      BY <2>3, <2>4, <2>5, <3>1, <3>2
    <3>4. e.at # "reading" /\ e.sent = NewerFirst(e.snapshot)
      BY <3>3 DEF s
    <3> QED
      BY <2>3, <3>4 DEF e, r
  <2>6. CASE ~(l >= n)
    <3>1. m = l /\ l <= n
      <4> HIDE DEF l, m, n
      <4> QED
        BY <1>2, <1>3, <1>4, <2>6
    <3>2. p + 1 \in Nat \ {0} /\ ((p + 1) - 1) * PageRows = l
      BY <1>1, <1>3
    <3> HIDE DEF e, r, k, l, m, n, s, p
    <3>3. e.at = "reading" /\ e.sent = SubSeq(s, 1, l) /\ e.snapshot = S /\ e.page = p + 1
      BY <2>3, <2>4, <2>6, <3>1
    <3>4. e.page \in Nat \ {0} /\ (e.page - 1) * PageRows = l
      <4>1. e.page = p + 1
        BY <3>3
      <4> QED
        BY <3>2, <4>1
    <3>5. /\ e.at # "done" /\ e.snapshot \in RowSets
          /\ l <= Cardinality(e.snapshot) /\ e.sent = SubSeq(NewerFirst(e.snapshot), 1, l)
      BY <1>1, <3>1, <3>3 DEF n, s
    <3> HIDE DEF S
    <3>6. /\ e.snapshot \in RowSets /\ e.page \in Nat \ {0}
          /\ (e.page - 1) * PageRows <= Cardinality(e.snapshot)
          /\ e.sent = SubSeq(NewerFirst(e.snapshot), 1, (e.page - 1) * PageRows)
      BY <3>4, <3>5
    <3> QED
      BY <2>3, <3>5, <3>6 DEF e, r, p, S
  <2> QED
    BY <2>5, <2>6
<1> HIDE DEF r, p
<1> QED
  BY <1>6, <1>7 DEF r, p

LEMMA RetainedRows ==
  ASSUME NEW S \in RowSets
  PROVE  Retained(S) \in RowSets
<1>1. Retained(S) \subseteq S
  BY DEF Retained
<1> QED
  BY <1>1, FS_Subset DEF RowSets

(* What a step may do to the statistics. *)
StatChanges ==
  /\ StatsInv'
  /\ (statRows' # {}) => \A row \in statRows \ statRows' : Cardinality(Newer(statRows', row)) >= StatsLimit

LEMMA StatsKeep ==
  ASSUME StatsInv, [StatsNext]_statVars
  PROVE  StatChanges
<1> DEFINE States == [at: {"idle", "stamped", "pruning"}, row: Nat]
           Gone == (statRows' # {}) => \A row \in statRows \ statRows' : Cardinality(Newer(statRows', row)) >= StatsLimit
<1>0. statRows \in RowSets /\ stamp \in Nat /\ recorder \in [Recorders -> States] /\ ExportHolds
  BY DEF StatsInv
<1>K. UNCHANGED export => ExportHolds'
  BY <1>0 DEF ExportHolds, ExportIsOneTable
<1>I. UNCHANGED <<stamp, export>> /\ recorder' \in [Recorders -> States] /\ statRows' \in RowSets => StatsInv'
  BY <1>0, <1>K DEF StatsInv
<1>R. /\ Retained(statRows) \in RowSets
      /\ statRows' = Retained(statRows) => Gone
  BY <1>0, RetainedRows, RetainedStay
<1>S. ASSUME NEW r \in Recorders, recorder' = [recorder EXCEPT ![r].at = "idle"]
               \/ (recorder' = [recorder EXCEPT ![r].at = "pruning"])
      PROVE  recorder' \in [Recorders -> States]
  <2> DEFINE a == [recorder[r] EXCEPT !.at = "idle"]
             b == [recorder[r] EXCEPT !.at = "pruning"]
  <2>1. a \in States /\ b \in States
    BY <1>0
  <2>2. recorder' = [recorder EXCEPT ![r] = a] \/ recorder' = [recorder EXCEPT ![r] = b]
    BY <1>S
  <2> HIDE DEF a, b
  <2> QED
    BY <1>0, <2>1, <2>2
<1> HIDE DEF Gone
<1>1. CASE UNCHANGED statVars
  BY <1>0, <1>1, <1>K DEF StatChanges, StatsInv, statVars
<1>2. ASSUME NEW r \in Recorders, recordRequestStat(r)
      PROVE  StatChanges
  <2>1. [at |-> "stamped", row |-> stamp + 1] \in States
    BY <1>0
  <2>2. recorder' \in [Recorders -> States] /\ UNCHANGED <<statRows, export>> /\ stamp' \in Nat
    BY <1>0, <1>2, <2>1 DEF recordRequestStat
  <2> QED
    BY <1>0, <1>K, <2>2 DEF StatChanges, StatsInv
<1>3. ASSUME NEW r \in Recorders, InsertStat(r)
      PROVE  StatChanges
  <2>1. recorder[r].row \in Nat
    BY <1>0
  <2>2. statRows \cup {recorder[r].row} \in RowSets
    BY <1>0, <2>1, FS_AddElement DEF RowSets
  <2>3. StatsInv'
    BY <1>3, <1>I, <1>S, <2>2 DEF InsertStat
  <2> QED
    BY <1>3, <2>3 DEF InsertStat, StatChanges
<1>4. ASSUME NEW r \in Recorders, pruneStats(r)
      PROVE  StatChanges
  BY <1>4, <1>I, <1>R, <1>S DEF pruneStats, StatChanges, Gone
<1>5. ASSUME NEW r \in Recorders, RecordFails(r)
      PROVE  StatChanges
  BY <1>0, <1>5, <1>I, <1>S DEF RecordFails, StatChanges
<1>6. CASE pruneAllRequestStats
  BY <1>0, <1>6, <1>I, <1>R DEF pruneAllRequestStats, StatChanges, Gone
<1>7. CASE DeleteStats
  <2>1. {} \in RowSets
    BY FS_EmptySet DEF RowSets
  <2> QED
    BY <1>0, <1>7, <1>I, <2>1 DEF DeleteStats, StatChanges
<1>8. ASSUME UNCHANGED <<statRows, stamp, recorder>>, ExportHolds'
      PROVE  StatChanges
  BY <1>0, <1>8 DEF StatChanges, StatsInv
<1>9. CASE withReadSnapshot
  <2>1. SubSeq(NewerFirst(statRows), 1, 0) = << >>
    OBVIOUS
  <2>2. Cardinality(statRows) \in Nat /\ (1 - 1) * PageRows = 0
    BY <1>0, FS_CardinalityType, StatsAssumption DEF RowSets
  <2>3. ExportHolds'
    BY <1>0, <1>9, <2>1, <2>2 DEF withReadSnapshot, ExportHolds, ExportIsOneTable
  <2> QED
    BY <1>8, <1>9, <2>3 DEF withReadSnapshot
<1>10. CASE ExportPage
  <2>1. ExportHolds'
    BY <1>0, <1>10, PageExported DEF ExportPage, ExportHolds, ExportIsOneTable
  <2> QED
    BY <1>8, <1>10, <2>1 DEF ExportPage
<1>11. CASE ExportAborted
  <2>1. ExportHolds'
    BY <1>0, <1>11 DEF ExportAborted, ExportHolds, ExportIsOneTable
  <2> QED
    BY <1>8, <1>11, <2>1 DEF ExportAborted
<1> QED
  BY <1>1, <1>2, <1>3, <1>4, <1>5, <1>6, <1>7, <1>9, <1>10, <1>11 DEF StatsNext

LEMMA StatsStart == ASSUME StatsInit PROVE StatsInv
<1>1. {} \in RowSets /\ 0 \in Nat
  BY FS_EmptySet DEF RowSets
<1> QED
  BY <1>1 DEF StatsInit, StatsInv, ExportHolds, ExportIsOneTable

(***************************************************************************)
(* StorageIsSafe (accountRepo, identityInitializationRepo, mysqlStorage):  *)
(* the account row of direct mode is whole, one starter at most holds the  *)
(* initializer's lease and a valid token is only lost when it was refused, *)
(* replaced or deleted; a finished export is the table at one moment, and  *)
(* a pruned row leaves StatsLimit newer ones behind, however recorders,    *)
(* pruners and exports interleave.                                         *)
(***************************************************************************)
THEOREM StorageStaysSafe == MCSpec => StorageIsSafe
<1> DEFINE MCVars == <<part, userVars, importVars, samlVars, readinessVars, accountVars, statVars>>
<1>1. MCInit => AccountsInv /\ StatsInv
  BY AccountsStart, StatsStart DEF MCInit
<1>2. [MCNext]_MCVars => [AccountsNext]_accountVars /\ [StatsNext]_statVars
  BY DEF MCNext
<1>3. AccountsInv /\ StatsInv /\ [AccountsNext]_accountVars /\ [StatsNext]_statVars => (AccountsInv /\ StatsInv)'
  BY AccountsStep, StatsKeep DEF StatChanges
<1>4. AccountsInv /\ StatsInv => AccountsAreSafe /\ ExportIsOneTable
  BY AccountsSafe DEF StatsInv, ExportHolds
<1>5. AccountsInv /\ [AccountsNext]_accountVars =>
        [ (account # NoAccount /\ account' # NoAccount) =>
            /\ account'.ent = account.ent
            /\ (account.token # 0 /\ account'.token = 0) => viewer = account.token ]_accountVars
  BY AccountsKeep DEF AccountChanges
<1>6. StatsInv /\ [StatsNext]_statVars =>
        [ (statRows' # {}) => \A row \in statRows \ statRows' :
            Cardinality(Newer(statRows', row)) >= StatsLimit ]_statVars
  BY StatsKeep DEF StatChanges
<1> QED
  BY <1>1, <1>2, <1>3, <1>4, <1>5, <1>6, PTL
     DEF MCSpec, StorageIsSafe, AccountKeepsItsToken, NewestStatsStay

-----------------------------------------------------------------------------
(* The registry that a service loads. *)

(* The caps of nothing fit. *)
LEMMA EmptySum == ASSUME NEW f, DOMAIN f = {} PROVE SumFunction(f) <= CatalogNames
<1> DEFINE D(g) == [s \in SUBSET {} |-> IF s = {} THEN 0 ELSE LET x == CHOOSE x \in s : TRUE IN f[x] + g[s \ {x}]]
<1>1. \E g : g = D(g)
  <2>1. [s \in SUBSET {} |-> 0] = D([s \in SUBSET {} |-> 0])
    OBVIOUS
  <2> QED
    BY <2>1
<1>2. \A g : g = D(g) => g[{}] = 0
  OBVIOUS
<1>3. SumFunction(f) = (CHOOSE g : g = D(g))[{}]
  BY DEF SumFunction, SumFunctionOnSet, FoldFunctionOnSet, MapThenFoldSet
<1> HIDE DEF D
<1>4. SumFunction(f) = 0
  BY <1>1, <1>2, <1>3
<1> QED
  BY <1>4, RegistryAssumption

(* What a field says, if anything, is in the form that values are compared in. *)
Normal(text) == text = Unset \/ Canonical(text)

(* The profiles that a service may run with; none when it refused to start. *)
LoadedWell(profiles) ==
  /\ UniqueProfiles(profiles) /\ CapsWithinCatalog(profiles)
  /\ \A p, q \in profiles : p.id = q.id => p = q
  /\ \A p \in profiles : Normal(p.loginUrl) /\ Normal(p.domain)

LEMMA NothingLoaded == LoadedWell({})
<1> DEFINE f == [id \in {p.id : p \in {}} |-> ProfileIn({}, id).cap]
<1>1. DOMAIN f = {}
  OBVIOUS
<1>2. SumFunction(f) <= CatalogNames
  <2> HIDE DEF f
  <2> QED
    BY <1>1, EmptySum
<1> QED
  BY <1>2 DEF LoadedWell, UniqueProfiles, DistinctKeys, CapsWithinCatalog

(* An entry whose compared fields are in normal form. *)
EntryNormal(entry) == \A path \in {"loginUrl", "domain"} : Normal(FieldOr(entry.fields, path, Unset))

LEMMA ReadIsNormal ==
  ASSUME NEW file \in RegistryFiles, NEW entry \in file.entries
  PROVE  EntryNormal(ReadEntry(entry))
<1> DEFINE fields == ReadEntry(entry).fields
<1> SUFFICES ASSUME NEW path \in {"loginUrl", "domain"}, path \in DOMAIN fields
             PROVE  Canonical(fields[path])
  BY DEF EntryNormal, Normal, FieldOr
<1>1. path \in DOMAIN entry.fields \ {"cap"} /\ fields[path] = CanonicalText[entry.fields[path]]
  BY DEF ReadEntry, NormalizeField
<1> QED
  BY <1>1, RegistryAssumption, ReadinessAssumption

LEMMA DefaultIsNormal ==
  ASSUME NEW s \in Services, NEW fields, \A path \in {"loginUrl", "domain"} : Normal(FieldOr(fields, path, Unset))
  PROVE  EntryNormal([id |-> DefaultId, fields |-> DefaultFields(s, ServiceEnv[s], fields)])
<1> DEFINE env == DefaultFromEnv(s, ServiceEnv[s], fields)
           merged == Merged(env, fields)
           fallback == FallbackFields(s, merged)
           all == DefaultFields(s, ServiceEnv[s], fields)
<1> SUFFICES ASSUME NEW path \in {"loginUrl", "domain"}
             PROVE  Normal(FieldOr(all, path, Unset))
  BY DEF EntryNormal
<1>1. path \notin DOMAIN fallback
  BY DEF FallbackFields, FallbackPaths
<1>2. all = Merged(merged, fallback)
  BY DEF DefaultFields
<1>3. path \in DOMAIN env => Canonical(env[path])
  <2> SUFFICES ASSUME path \in DOMAIN env PROVE Canonical(env[path])
    OBVIOUS
  <2>1. DOMAIN env \subseteq DOMAIN ServiceEnv[s]
    BY DEF DefaultFromEnv, Restrict
  <2>2. env[path] = CanonicalText[ServiceEnv[s][path]]
    BY DEF DefaultFromEnv, Restrict, NormalizeField
  <2> QED
    BY <2>1, <2>2, RegistryAssumption, ReadinessAssumption
<1> HIDE DEF env, fallback, all
<1>4. FieldOr(merged, path, Unset) = FieldOr(env, path, FieldOr(fields, path, Unset))
  BY DEF Merged, FieldOr
<1>5. Normal(FieldOr(merged, path, Unset))
  BY <1>3, <1>4 DEF FieldOr, Normal
<1> HIDE DEF merged
<1>6. FieldOr(all, path, Unset) = FieldOr(merged, path, Unset)
  BY <1>1, <1>2 DEF Merged, FieldOr
<1> QED
  BY <1>5, <1>6

LEMMA ProfileIsNormal ==
  ASSUME NEW s \in Services, NEW entry, EntryNormal(entry), entry.id \in EnterpriseNames \cup {DefaultId}
  PROVE  LET p == ResolveProfile(s, ServiceEnv[s], entry) IN Normal(p.loginUrl) /\ Normal(p.domain)
<1> DEFINE p == ResolveProfile(s, ServiceEnv[s], entry)
<1>1. p.loginUrl = LoginUrl(s, ServiceEnv[s], entry) /\ p.domain = FieldOr(entry.fields, "domain", Unset)
  BY DEF ResolveProfile
<1>2. Normal(LoginUrl(s, ServiceEnv[s], entry))
  <2>1. CASE "loginUrl" \in DOMAIN entry.fields
    BY <2>1 DEF LoginUrl, FieldOr, EntryNormal
  <2>2. CASE "loginUrl" \notin DOMAIN entry.fields /\ s = "login" /\ "loginUrl" \in DOMAIN ServiceEnv[s]
    <3>1. LoginUrl(s, ServiceEnv[s], entry) =
            IF entry.id = DefaultId THEN CanonicalText[ServiceEnv[s]["loginUrl"]] ELSE DerivedLogin[entry.id]
      BY <2>2 DEF LoginUrl, FieldOr
    <3>2. ServiceEnv[s]["loginUrl"] \in Texts
      BY <2>2, ReadinessAssumption
    <3> QED
      BY <3>1, <3>2, RegistryAssumption DEF Normal
  <2>3. CASE "loginUrl" \notin DOMAIN entry.fields /\ ~(s = "login" /\ "loginUrl" \in DOMAIN ServiceEnv[s])
    BY <2>3 DEF LoginUrl, FieldOr, Normal
  <2> QED
    BY <2>1, <2>2, <2>3
<1> QED
  BY <1>1, <1>2 DEF EntryNormal

LEMMA LoadIsSound ==
  ASSUME NEW s \in Services, NEW file \in RegistryFiles
  PROVE  LoadedWell(LoadRegistry(s, ServiceEnv[s], file))
<1> DEFINE env == ServiceEnv[s]
           loads == LoadRegistry(s, env, file)
           entries == ReadRegistryFile(file)
           listed == {entry \in entries : entry.id = DefaultId}
           fileFields == IF listed = {} THEN << >> ELSE (CHOOSE entry \in listed : TRUE).fields
           default == [id |-> DefaultId, fields |-> DefaultFields(s, env, fileFields)]
           all == (entries \ listed) \cup {default}
           profiles == {ResolveProfile(s, env, entry) : entry \in all}
<1>1. CASE loads = Refused
  BY <1>1, NothingLoaded DEF Refused
<1>2. CASE loads # Refused
  <2>1. RegistryFileAccepted(file) /\ loads = profiles /\ UniqueProfiles(profiles) /\ CapsWithinCatalog(profiles)
    BY <1>2 DEF LoadRegistry
  <2>2. ASSUME NEW entry \in entries
        PROVE  EntryNormal(entry) /\ entry.id \in EnterpriseNames
    <3>1. PICK e \in file.entries : entry = ReadEntry(e) /\ file.listed
      BY DEF ReadRegistryFile
    <3> QED
      BY <2>1, <3>1, ReadIsNormal DEF RegistryFileAccepted, EntryAccepted, ReadEntry
  <2>3. \A path \in {"loginUrl", "domain"} : Normal(FieldOr(fileFields, path, Unset))
    <3>1. CASE listed = {}
      BY <3>1 DEF FieldOr, Normal
    <3>2. CASE listed # {}
      <4>1. (CHOOSE entry \in listed : TRUE) \in entries
        BY <3>2
      <4> QED
        BY <2>2, <3>2, <4>1 DEF EntryNormal
    <3> QED
      BY <3>1, <3>2
  <2>4. EntryNormal(default)
    <3> HIDE DEF fileFields
    <3> QED
      BY <2>3, DefaultIsNormal
  <2>5. \A entry \in all : EntryNormal(entry) /\ entry.id \in EnterpriseNames \cup {DefaultId}
    <3>1. default.id = DefaultId
      OBVIOUS
    <3> HIDE DEF default, listed, entries
    <3>2. entries \ listed \subseteq entries
      OBVIOUS
    <3> QED
      BY <2>2, <2>4, <3>1, <3>2
  <2>6. \A p \in profiles : Normal(p.loginUrl) /\ Normal(p.domain)
    <3> HIDE DEF all
    <3> QED
      BY <2>5, ProfileIsNormal
  <2>7. \A p, q \in profiles : p.id = q.id => p = q
    <3>1. \A entry, other \in all : entry.id = other.id => entry = other
      BY <1>2 DEF LoadRegistry
    <3>2. \A entry : ResolveProfile(s, env, entry).id = entry.id
      BY DEF ResolveProfile
    <3> HIDE DEF all, env
    <3> QED
      BY <3>1, <3>2
  <2> QED
    BY <2>1, <2>6, <2>7 DEF LoadedWell
<1> HIDE DEF loads
<1> QED
  BY <1>1, <1>2 DEF loads

(* Profiles in normal form are told apart as requests tell them apart. *)
Apart(profiles) ==
  \A p, q \in profiles : p # q =>
    /\ p.id # q.id
    /\ Unset \notin {p.loginUrl, q.loginUrl} => CanonicalText[p.loginUrl] # CanonicalText[q.loginUrl]
    /\ Unset \notin {p.domain, q.domain} => CanonicalText[p.domain] # CanonicalText[q.domain]
    /\ Unset \notin {p.slug, q.slug} /\ p.baseUrl = q.baseUrl => CanonicalText[p.slug] # CanonicalText[q.slug]

LEMMA LoadedApart == ASSUME NEW profiles, LoadedWell(profiles) PROVE Apart(profiles)
<1> SUFFICES ASSUME NEW p \in profiles, NEW q \in profiles, p # q
             PROVE  /\ p.id # q.id
                    /\ Unset \notin {p.loginUrl, q.loginUrl} => CanonicalText[p.loginUrl] # CanonicalText[q.loginUrl]
                    /\ Unset \notin {p.domain, q.domain} => CanonicalText[p.domain] # CanonicalText[q.domain]
                    /\ Unset \notin {p.slug, q.slug} /\ p.baseUrl = q.baseUrl => CanonicalText[p.slug] # CanonicalText[q.slug]
  BY DEF Apart
<1>1. /\ p.id # q.id
      /\ p.loginUrl # Unset => p.loginUrl # q.loginUrl
      /\ p.domain # Unset => p.domain # q.domain
  BY DEF LoadedWell, UniqueProfiles, DistinctKeys
<1> QED
  BY <1>1 DEF LoadedWell, UniqueProfiles, Normal, Canonical

-----------------------------------------------------------------------------
(* The stored enterprises, the comparison and the requests that wait for it. *)

(* A stored enterprise; its members were created with the fingerprint it has. *)
RowSound(r) ==
  /\ r = [state |-> r.state, cap |-> r.cap, stock |-> r.stock, version |-> r.version, print |-> r.print,
          born |-> r.born]
  /\ r.stock \in Nat /\ r.version \in Nat
  /\ r.born = IF r.stock = 0 THEN {} ELSE {r.print}

(* The table agrees with what the Proxy has loaded. *)
TableSound ==
  /\ CapsFit(table) /\ \A id \in DOMAIN table : RowSound(table[id])
  /\ ProxyUp =>
       /\ \A p \in loaded["proxy"] : p.id \in DOMAIN table /\ table[p.id].print = Fingerprint(p)
       /\ \A id \in DOMAIN table : table[id].stock > 0 => id \in Registered("proxy")

(* An activation whose version is still current either saw its enterprise
   active or waits for, or has, a comparison that found it ready. *)
ChangeSound(r) ==
  /\ r = [at |-> r.at, id |-> r.id, expected |-> r.expected, found |-> r.found]
  /\ r.at \in {"idle", "waiting", "writing"} /\ r.found \in BOOLEAN /\ r.expected \in Nat
  /\ r.at # "idle" =>
       /\ r.id \in DOMAIN table /\ r.expected <= table[r.id].version
       /\ (r.at = "writing" /\ ~r.found /\ r.expected = table[r.id].version) => table[r.id].state = "active"

(* What is remembered as ready was found ready, by this Proxy and in its registry. *)
ComparedSound ==
  /\ compared \subseteq Registered("proxy")
  /\ snapshot # Nothing => snapshot.ready \subseteq compared
  /\ eligible # Nothing => eligible.ids \subseteq compared

ReadyInv ==
  /\ loaded = [s \in Services |-> loaded[s]] /\ \A s \in Services : LoadedWell(loaded[s])
  /\ TableSound
  /\ change = [c \in Changes |-> change[c]] /\ \A c \in Changes : ChangeSound(change[c])
  /\ ComparedSound

LEMMA ReadySafe == ReadyInv => RegistryIsSafe
<1> SUFFICES ASSUME ReadyInv PROVE RegistryIsSafe
  OBVIOUS
<1>1. \A s \in Services : Apart(loaded[s])
  BY LoadedApart DEF ReadyInv
<1>2. ASSUME ProxyUp, NEW id \in DOMAIN table, table[id].stock > 0
      PROVE  id \in Registered("proxy") /\ table[id].born = {Fingerprint(ProfileOf("proxy", id))}
  <2>0. RowSound(table[id]) /\ id \in Registered("proxy")
    BY <1>2 DEF ReadyInv, TableSound
  <2>1. id \in Registered("proxy") /\ table[id].born = {table[id].print}
    <3>1. table[id].stock # 0
      BY <1>2
    <3> QED
      BY <2>0, <3>1 DEF RowSound
  <2>2. ProfileOf("proxy", id) \in loaded["proxy"] /\ ProfileOf("proxy", id).id = id
    BY <2>1 DEF ProfileOf, ProfileIn, Registered
  <2>3. table[id].print = Fingerprint(ProfileOf("proxy", id))
    BY <1>2, <2>2 DEF ReadyInv, TableSound
  <2> QED
    BY <2>1, <2>3
<1>3. MembersKeepIdentity
  BY <1>2 DEF MembersKeepIdentity
<1>4. EnterprisesAreDistinct
  BY <1>1 DEF EnterprisesAreDistinct, Apart, ReadyInv, TableSound
<1> QED
  BY <1>3, <1>4 DEF RegistryIsSafe

LEMMA ProfileFound ==
  ASSUME NEW profiles, LoadedWell(profiles), NEW p \in profiles
  PROVE  ProfileIn(profiles, p.id) = p
BY DEF ProfileIn, LoadedWell

LEMMA NewRowSound ==
  ASSUME NEW p
  PROVE  RowSound(NewRow(p)) /\ NewRow(p).print = Fingerprint(p) /\ NewRow(p).stock = 0 /\ NewRow(p).cap = p.cap
BY DEF RowSound, NewRow

LEMMA ReadyStart == ReadinessInit => ReadyInv
<1> SUFFICES ASSUME ReadinessInit PROVE ReadyInv
  OBVIOUS
<1> DEFINE profiles == loaded["proxy"]
<1>1. loaded = [s \in Services |-> loaded[s]] /\ \A s \in Services : LoadedWell(loaded[s])
  BY LoadIsSound DEF ReadinessInit
<1>2. /\ DOMAIN table = {p.id : p \in profiles}
      /\ \A id \in DOMAIN table : table[id] = NewRow(ProfileIn(profiles, id))
  BY DEF ReadinessInit, ProfileOf
<1>3. LoadedWell(profiles)
  BY <1>1 DEF Services
<1>4. CapsFit(table)
  <2>1. \A id \in DOMAIN table : table[id].cap = ProfileIn(profiles, id).cap
    BY <1>2, NewRowSound
  <2>2. [id \in DOMAIN table |-> table[id].cap] = [id \in {p.id : p \in profiles} |-> ProfileIn(profiles, id).cap]
    BY <1>2, <2>1
  <2> QED
    BY <1>3, <2>2 DEF LoadedWell, CapsWithinCatalog, CapsFit
<1>5. TableSound
  <2>1. \A id \in DOMAIN table : RowSound(table[id]) /\ table[id].stock = 0
    BY <1>2, NewRowSound
  <2>2. ASSUME NEW p \in profiles PROVE p.id \in DOMAIN table /\ table[p.id].print = Fingerprint(p)
    BY <1>2, <1>3, <2>2, ProfileFound, NewRowSound
  <2> QED
    BY <1>4, <2>1, <2>2 DEF TableSound
<1>6. change = [c \in Changes |-> change[c]] /\ \A c \in Changes : ChangeSound(change[c])
  BY DEF ReadinessInit, NoChange, ChangeSound
<1>7. ComparedSound
  BY DEF ReadinessInit, ComparedSound
<1> QED
  BY <1>1, <1>5, <1>6, <1>7 DEF ReadyInv

(* What a step may do. *)
ReadyChanges ==
  /\ ReadyInv'
  /\ \A id \in DOMAIN table :
       /\ Activated(id) => \E c \in Changes : change[c].id = id /\ change[c].at = "writing" /\ change[c].found
       /\ Grew(id) => id \in compared

(* The table stays, and so do the requests that a version guards. *)
LEMMA TableKept ==
  ASSUME ReadyInv, UNCHANGED <<loaded, table>>, ComparedSound',
         change' = [c \in Changes |-> change'[c]], \A c \in Changes : ChangeSound(change[c])'
  PROVE  ReadyChanges
<1>1. TableSound'
  BY DEF ReadyInv, TableSound, ProxyUp, Registered, CapsFit
<1>2. ReadyInv'
  BY <1>1 DEF ReadyInv
<1>3. \A id \in DOMAIN table : ~Activated(id) /\ ~Grew(id)
  <2>1. \A id \in DOMAIN table : table[id].stock \in Nat
    BY DEF ReadyInv, TableSound, RowSound
  <2> QED
    BY <2>1 DEF Activated, Grew
<1> QED
  BY <1>2, <1>3 DEF ReadyChanges

LEMMA ChangesKept ==
  ASSUME ReadyInv, UNCHANGED <<table, change>>
  PROVE  change' = [c \in Changes |-> change'[c]] /\ \A c \in Changes : ChangeSound(change[c])'
BY DEF ReadyInv, ChangeSound

(* A sound row with two fields replaced. *)
LEMMA StateReplaced ==
  ASSUME NEW r, RowSound(r), NEW w, NEW v
  PROVE  [r EXCEPT !.state = w, !.version = v] =
           [state |-> w, cap |-> r.cap, stock |-> r.stock, version |-> v, print |-> r.print, born |-> r.born]
<1> DEFINE a == [r EXCEPT !.state = w]
<1>1. a = [state |-> w, cap |-> r.cap, stock |-> r.stock, version |-> r.version, print |-> r.print, born |-> r.born]
  BY DEF RowSound
<1>2. [r EXCEPT !.state = w, !.version = v] = [a EXCEPT !.version = v]
  OBVIOUS
<1> HIDE DEF a
<1> QED
  BY <1>1, <1>2

LEMMA StockReplaced ==
  ASSUME NEW r, RowSound(r), NEW w, NEW v
  PROVE  [r EXCEPT !.stock = w, !.born = v] =
           [state |-> r.state, cap |-> r.cap, stock |-> w, version |-> r.version, print |-> r.print, born |-> v]
<1> DEFINE a == [r EXCEPT !.stock = w]
<1>1. a = [state |-> r.state, cap |-> r.cap, stock |-> w, version |-> r.version, print |-> r.print, born |-> r.born]
  BY DEF RowSound
<1>2. [r EXCEPT !.stock = w, !.born = v] = [a EXCEPT !.born = v]
  OBVIOUS
<1> HIDE DEF a
<1> QED
  BY <1>1, <1>2

(* A row whose state changes gets a new version, so that the requests that saw
   another state are refused. *)
RowFollows(r, q) ==
  /\ RowSound(q) /\ q.cap = r.cap /\ q.print = r.print
  /\ q.version >= r.version /\ (q.state # r.state => q.version > r.version)

LEMMA RowBecomes ==
  ASSUME ReadyInv, UNCHANGED loaded, NEW id \in DOMAIN table, NEW q, RowFollows(table[id], q),
         q.stock > 0 => table[id].stock > 0 \/ id \in Registered("proxy"),
         table' = [table EXCEPT ![id] = q]
  PROVE  TableSound'
<1>1. DOMAIN table' = DOMAIN table /\ table'[id] = q /\ \A i \in DOMAIN table \ {id} : table'[i] = table[i]
  OBVIOUS
<1>2. \A i \in DOMAIN table : table'[i].cap = table[i].cap /\ table'[i].print = table[i].print
  BY <1>1 DEF RowFollows
<1>3. CapsFit(table)'
  <2>1. [i \in DOMAIN table' |-> table'[i].cap] = [i \in DOMAIN table |-> table[i].cap]
    BY <1>1, <1>2
  <2> QED
    BY <2>1 DEF CapsFit, ReadyInv, TableSound
<1>4. \A i \in DOMAIN table' : RowSound(table'[i])
  BY <1>1 DEF RowFollows, ReadyInv, TableSound
<1>5. ProxyUp => \A p \in loaded["proxy"] : p.id \in DOMAIN table' /\ table'[p.id].print = Fingerprint(p)
  BY <1>1, <1>2 DEF ReadyInv, TableSound
<1>6. ProxyUp => \A i \in DOMAIN table' : table'[i].stock > 0 => i \in Registered("proxy")
  BY <1>1 DEF ReadyInv, TableSound
<1> QED
  BY <1>3, <1>4, <1>5, <1>6 DEF TableSound, ProxyUp, Registered

LEMMA ChangesFollow ==
  ASSUME ReadyInv, NEW id \in DOMAIN table, NEW q, RowFollows(table[id], q),
         table' = [table EXCEPT ![id] = q],
         NEW c \in Changes, change'[c] = change[c] \/ change'[c] = NoChange
  PROVE  ChangeSound(change[c])'
<1>1. DOMAIN table' = DOMAIN table /\ table'[id] = q /\ \A i \in DOMAIN table \ {id} : table'[i] = table[i]
  OBVIOUS
<1>2. CASE change'[c] = NoChange
  BY <1>2 DEF ChangeSound, NoChange
<1>3. CASE change'[c] = change[c]
  <2> DEFINE r == change[c]
  <2>1. ChangeSound(r) /\ RowSound(table[id])
    BY DEF ReadyInv, TableSound
  <2>2. q.version \in Nat /\ table[id].version \in Nat /\ r.expected \in Nat
    BY <2>1 DEF RowSound, RowFollows, ChangeSound
  <2>3. r.at # "idle" =>
          /\ r.id \in DOMAIN table' /\ r.expected <= table'[r.id].version
          /\ (r.at = "writing" /\ ~r.found /\ r.expected = table'[r.id].version) => table'[r.id].state = "active"
    <3>1. CASE r.id = id
      <4> HIDE DEF r
      <4> QED
        BY <1>1, <2>1, <2>2, <3>1 DEF ChangeSound, RowFollows
    <3>2. CASE r.id # id
      <4> HIDE DEF r
      <4> QED
        BY <1>1, <2>1, <3>2 DEF ChangeSound
    <3> QED
      BY <3>1, <3>2
  <2> QED
    BY <1>3, <2>1, <2>3 DEF ChangeSound
<1> QED
  BY <1>2, <1>3

(* Before its first start there is no row that the start would change. *)
LEMMA SyncIsSound ==
  ASSUME ReadyInv, NEW profiles, LoadedWell(profiles), SyncAccepted(profiles),
         loaded'["proxy"] = profiles, table' = Synced(profiles)
  PROVE  TableSound' /\ \A id \in DOMAIN table : id \in DOMAIN table' /\ table'[id].state = table[id].state /\ table'[id].stock = table[id].stock
<1> DEFINE rows == WithNewRows(profiles)
           ids == {p.id : p \in profiles}
<1>1. /\ DOMAIN rows = DOMAIN table \cup ids
      /\ \A id \in DOMAIN table : rows[id] = table[id]
      /\ \A id \in ids \ DOMAIN table : rows[id] = NewRow(ProfileIn(profiles, id))
  BY DEF WithNewRows
<1>2. \A id \in DOMAIN rows : RowSound(rows[id])
  <2> HIDE DEF rows
  <2> QED
    BY <1>1, NewRowSound DEF ReadyInv, TableSound
<1>3. /\ DOMAIN table' = DOMAIN rows
      /\ \A id \in DOMAIN rows : table'[id] = IF id \in ids THEN [rows[id] EXCEPT !.print = Fingerprint(ProfileIn(profiles, id))]
                                              ELSE rows[id]
  BY DEF Synced
<1>4. ASSUME NEW p \in profiles
      PROVE  /\ p.id \in DOMAIN rows /\ ProfileIn(profiles, p.id) = p
             /\ rows[p.id].print = Fingerprint(p) \/ rows[p.id].stock = 0
  <2> HIDE DEF rows
  <2>1. ProfileIn(profiles, p.id) = p
    BY ProfileFound
  <2>2. CASE p.id \in DOMAIN table
    BY <1>1, <2>1, <2>2 DEF SyncAccepted, IdentityKept
  <2>3. CASE p.id \notin DOMAIN table
    BY <1>1, <2>1, <2>3, NewRowSound
  <2> QED
    BY <2>2, <2>3, <2>1
<1> HIDE DEF rows
<1>5. ASSUME NEW id \in DOMAIN rows
      PROVE  /\ RowSound(table'[id]) /\ table'[id].cap = rows[id].cap /\ table'[id].stock = rows[id].stock
             /\ table'[id].state = rows[id].state
  <2>1. CASE id \notin ids
    BY <1>2, <1>3, <2>1
  <2>2. ASSUME NEW p \in profiles, id = p.id
        PROVE  /\ RowSound(table'[id]) /\ table'[id].cap = rows[id].cap /\ table'[id].stock = rows[id].stock
               /\ table'[id].state = rows[id].state
    <3> DEFINE r == rows[id]
               q == [r EXCEPT !.print = Fingerprint(p)]
    <3>1. table'[id] = q
      BY <1>3, <1>4, <2>2
    <3>2. RowSound(r) /\ (r.print = Fingerprint(p) \/ r.stock = 0)
      BY <1>2, <1>4, <2>2
    <3> HIDE DEF r
    <3>3. RowSound(q) /\ q.cap = r.cap /\ q.stock = r.stock /\ q.state = r.state
      BY <3>2 DEF RowSound
    <3> QED
      BY <3>1, <3>3 DEF r
  <2> QED
    BY <2>1, <2>2
<1>6. CapsFit(table)'
  <2>1. [id \in DOMAIN table' |-> table'[id].cap] = [id \in DOMAIN rows |-> rows[id].cap]
    BY <1>3, <1>5
  <2> QED
    BY <2>1 DEF CapsFit, SyncAccepted, rows
<1>7. \A id \in DOMAIN table' : RowSound(table'[id])
  BY <1>3, <1>5
<1>8. ASSUME NEW p \in profiles PROVE p.id \in DOMAIN table' /\ table'[p.id].print = Fingerprint(p)
  <2> DEFINE r == rows[p.id]
  <2>1. p.id \in DOMAIN table' /\ table'[p.id] = [r EXCEPT !.print = Fingerprint(p)] /\ RowSound(r)
    BY <1>2, <1>3, <1>4
  <2> HIDE DEF r
  <2> QED
    BY <2>1 DEF RowSound
<1>9. ASSUME NEW id \in DOMAIN table', table'[id].stock > 0 PROVE id \in ids
  BY <1>1, <1>3, <1>5, <1>9 DEF SyncAccepted
<1>10. TableSound'
  BY <1>6, <1>7, <1>8, <1>9 DEF TableSound, Registered
<1> QED
  BY <1>1, <1>3, <1>5, <1>10

LEMMA RestartKeeps == ASSUME ReadyInv, Restart PROVE ReadyChanges
<1>1. ASSUME NEW file \in RegistryFiles, StartProxy(file)
      PROVE  ReadyChanges
  <2> DEFINE profiles == LoadRegistry("proxy", ServiceEnv["proxy"], file)
             accepted == profiles # Refused /\ SyncAccepted(profiles)
             running == IF accepted THEN profiles ELSE Refused
  <2>0. LoadedWell(profiles) /\ LoadedWell(running)
    BY LoadIsSound, NothingLoaded DEF Services, Refused
  <2>1. /\ loaded' = [loaded EXCEPT !["proxy"] = running]
        /\ IF accepted THEN table' = Synced(profiles) ELSE UNCHANGED table
        /\ snapshot' = Nothing /\ eligible' = Nothing /\ change' = [c \in Changes |-> NoChange] /\ compared' = {}
    BY <1>1 DEF StartProxy
  <2> HIDE DEF profiles
  <2>2. loaded = [s \in Services |-> loaded[s]] /\ \A s \in Services : LoadedWell(loaded[s])
    BY DEF ReadyInv
  <2>3. loaded'["proxy"] = running /\ \A s \in Services \ {"proxy"} : loaded'[s] = loaded[s]
    BY <2>1, <2>2 DEF Services
  <2>4. loaded' = [s \in Services |-> loaded'[s]] /\ \A s \in Services : LoadedWell(loaded'[s])
    <3> HIDE DEF running
    <3>1. loaded' = [s \in Services |-> IF s = "proxy" THEN running ELSE loaded[s]]
      BY <2>1, <2>2 DEF Services
    <3> QED
      BY <2>0, <2>2, <2>3, <3>1
  <2>5. /\ TableSound'
        /\ \A id \in DOMAIN table : table'[id].state = table[id].state /\ table'[id].stock = table[id].stock
    <3>1. CASE accepted
      BY <2>0, <2>1, <2>3, <3>1, SyncIsSound
    <3>2. CASE ~accepted
      BY <2>1, <2>3, <3>2 DEF ReadyInv, TableSound, CapsFit, ProxyUp, Refused
    <3> QED
      BY <3>1, <3>2
  <2>6. ComparedSound'
    BY <2>1 DEF ComparedSound
  <2>7. change' = [c \in Changes |-> change'[c]] /\ \A c \in Changes : ChangeSound(change[c])'
    BY <2>1 DEF ChangeSound, NoChange
  <2>8. ReadyInv'
    BY <2>4, <2>5, <2>6, <2>7 DEF ReadyInv
  <2>9. \A id \in DOMAIN table : ~Activated(id) /\ ~Grew(id)
    <3>1. \A id \in DOMAIN table : table[id].stock \in Nat
      BY DEF ReadyInv, TableSound, RowSound
    <3> QED
      BY <2>5, <3>1 DEF Activated, Grew
  <2> QED
    BY <2>8, <2>9 DEF ReadyChanges
<1>2. ASSUME NEW file \in RegistryFiles, NEW peer \in Peers, StartPeer(peer, file)
      PROVE  ReadyChanges
  <2> DEFINE profiles == LoadRegistry(peer, ServiceEnv[peer], file)
  <2>0. peer \in Services /\ peer # "proxy" /\ LoadedWell(profiles)
    BY LoadIsSound DEF Services, Peers
  <2>1. loaded' = [loaded EXCEPT ![peer] = profiles] /\ UNCHANGED <<table, snapshot, change, eligible, compared>>
    BY <1>2 DEF StartPeer
  <2> HIDE DEF profiles
  <2>2. loaded = [s \in Services |-> loaded[s]] /\ \A s \in Services : LoadedWell(loaded[s])
    BY DEF ReadyInv
  <2>3. /\ loaded' = [s \in Services |-> loaded'[s]] /\ \A s \in Services : LoadedWell(loaded'[s])
        /\ loaded'["proxy"] = loaded["proxy"]
    <3>1. loaded' = [s \in Services |-> IF s = peer THEN profiles ELSE loaded[s]]
      BY <2>0, <2>1, <2>2
    <3> QED
      BY <2>0, <2>2, <3>1 DEF Services
  <2>4. TableSound' /\ ComparedSound'
    BY <2>1, <2>3 DEF ReadyInv, TableSound, CapsFit, ProxyUp, Registered, ComparedSound
  <2>5. ReadyInv'
    BY <2>1, <2>3, <2>4, ChangesKept DEF ReadyInv
  <2>6. \A id \in DOMAIN table : ~Activated(id) /\ ~Grew(id)
    <3>1. \A id \in DOMAIN table : table[id].stock \in Nat
      BY DEF ReadyInv, TableSound, RowSound
    <3> QED
      BY <2>1, <3>1 DEF Activated, Grew
  <2> QED
    BY <2>5, <2>6 DEF ReadyChanges
<1> QED
  BY <1>1, <1>2 DEF Restart

LEMMA ComparisonKeeps == ASSUME ReadyInv, RefreshDone PROVE ReadyChanges
<1> DEFINE ready == {p.id : p \in {q \in loaded["proxy"] : CompareEnterprise(q, refresh)}}
<1>1. /\ snapshot' = [age |-> 0, ready |-> ready] /\ compared' = compared \cup ready
      /\ change' = [c \in Changes |->
            IF change[c].at = "waiting" /\ change[c].id \notin ready THEN NoChange
            ELSE IF change[c].at = "idle" THEN change[c]
            ELSE [change[c] EXCEPT !.at = "writing", !.found = @ \/ change[c].id \in ready]]
      /\ eligible' = IF eligible = Nothing THEN Nothing
                     ELSE [ids |-> eligible.ids \cup (eligible.waiting \cap ready), waiting |-> {}]
      /\ UNCHANGED <<loaded, table>>
  BY DEF RefreshDone
<1>2. ready \subseteq Registered("proxy")
  BY DEF Registered
<1> HIDE DEF ready
<1>3. ComparedSound'
  <2>1. compared' \subseteq Registered("proxy")' /\ snapshot'.ready \subseteq compared'
    BY <1>1, <1>2 DEF ReadyInv, ComparedSound, Registered
  <2>2. eligible' # Nothing => eligible'.ids \subseteq compared'
    <3> SUFFICES ASSUME eligible' # Nothing PROVE eligible'.ids \subseteq compared'
      OBVIOUS
    <3>1. eligible # Nothing /\ eligible'.ids = eligible.ids \cup (eligible.waiting \cap ready)
      BY <1>1
    <3> QED
      BY <1>1, <3>1 DEF ReadyInv, ComparedSound
  <2> QED
    BY <2>1, <2>2 DEF ComparedSound
<1>4. ASSUME NEW c \in Changes PROVE ChangeSound(change[c])'
  <2> DEFINE r == change[c]
             q == [r EXCEPT !.at = "writing", !.found = r.found \/ r.id \in ready]
  <2>1. ChangeSound(r)
    BY DEF ReadyInv
  <2>2. \/ change'[c] = NoChange
        \/ r.at = "idle" /\ change'[c] = r
        \/ r.at # "idle" /\ ~(r.at = "waiting" /\ r.id \notin ready) /\ change'[c] = q
    BY <1>1
  <2>3. CASE change'[c] = NoChange
    BY <2>3 DEF ChangeSound, NoChange
  <2>4. CASE r.at = "idle" /\ change'[c] = r
    BY <1>1, <2>1, <2>4 DEF ChangeSound
  <2>5. CASE r.at # "idle" /\ ~(r.at = "waiting" /\ r.id \notin ready) /\ change'[c] = q
    <3> HIDE DEF r
    <3>1. /\ q = [at |-> "writing", id |-> r.id, expected |-> r.expected, found |-> r.found \/ r.id \in ready]
          /\ r.id \in DOMAIN table /\ r.expected <= table[r.id].version /\ r.expected \in Nat
      BY <2>1, <2>5 DEF ChangeSound
    <3>2. ~q.found /\ q.expected = table[q.id].version => table[q.id].state = "active"
      <4> SUFFICES ASSUME ~(r.found \/ r.id \in ready), r.expected = table[r.id].version
                   PROVE  table[r.id].state = "active"
        BY <3>1
      <4> QED
        BY <2>1, <2>5 DEF ChangeSound
    <3> HIDE DEF q
    <3>3. q.at = "writing" /\ q.id = r.id /\ q.expected = r.expected /\ q.found \in BOOLEAN
      BY <3>1
    <3> QED
      BY <1>1, <2>5, <3>1, <3>2, <3>3 DEF ChangeSound
  <2> QED
    BY <2>2, <2>3, <2>4, <2>5
<1>5. change' = [c \in Changes |-> change'[c]]
  BY <1>1
<1> QED
  BY <1>1, <1>3, <1>4, <1>5, TableKept

LEMMA RequestKeeps == ASSUME ReadyInv, NEW c \in Changes, RequestActivation(c) PROVE ReadyChanges
<1>1. PICK id \in DOMAIN table \cap Registered("proxy"), age \in {0, 1} :
        /\ table[id].version > age
        /\ change' = [change EXCEPT ![c] = [at |-> IF NeedsComparison(id) THEN "waiting" ELSE "writing",
                                            id |-> id, expected |-> table[id].version - age, found |-> FALSE]]
  BY DEF RequestActivation
<1> DEFINE q == [at |-> IF NeedsComparison(id) THEN "waiting" ELSE "writing",
                 id |-> id, expected |-> table[id].version - age, found |-> FALSE]
<1>2. UNCHANGED <<loaded, table, snapshot, eligible, compared>>
  BY DEF RequestActivation
<1>3. table[id].version \in Nat
  BY DEF ReadyInv, TableSound, RowSound
<1>4. ChangeSound(q)
  <2>1. table[id].version - age \in Nat /\ table[id].version - age <= table[id].version
    BY <1>1, <1>3
  <2> QED
    BY <2>1 DEF ChangeSound, NeedsComparison
<1>5. ComparedSound'
  BY <1>2 DEF ReadyInv, ComparedSound, Registered
<1> HIDE DEF q
<1>6. change' = [d \in Changes |-> IF d = c THEN q ELSE change[d]]
  BY <1>1 DEF ReadyInv, q
<1>7. \A d \in Changes : ChangeSound(change[d])'
  BY <1>2, <1>4, <1>6 DEF ReadyInv, ChangeSound
<1>8. change' = [d \in Changes |-> change'[d]]
  BY <1>6
<1> QED
  BY <1>2, <1>5, <1>7, <1>8, TableKept

LEMMA ActivateKeeps == ASSUME ReadyInv, NEW c \in Changes, Activate(c) PROVE ReadyChanges
<1> DEFINE r == change[c]
           row == table[r.id]
           q == [row EXCEPT !.state = "active", !.version = row.version + 1]
<1>1. /\ r.at = "writing" /\ change' = [change EXCEPT ![c] = NoChange]
      /\ UNCHANGED <<loaded, snapshot, eligible, compared>>
      /\ IF PolicyAccepted(c) THEN table' = [table EXCEPT ![r.id].state = "active", ![r.id].version = @ + 1] ELSE UNCHANGED table
  BY DEF Activate
<1>2. change' = [d \in Changes |-> IF d = c THEN NoChange ELSE change[d]]
  BY <1>1 DEF ReadyInv
<1>3. change' = [d \in Changes |-> change'[d]] /\ \A d \in Changes : change'[d] = change[d] \/ change'[d] = NoChange
  BY <1>2
<1>4. ComparedSound'
  BY <1>1 DEF ReadyInv, ComparedSound, Registered
<1>5. CASE ~PolicyAccepted(c)
  <2>1. UNCHANGED table
    BY <1>1, <1>5
  <2>2. ASSUME NEW d \in Changes PROVE ChangeSound(change[d])'
    <3>1. CASE change'[d] = NoChange
      BY <3>1 DEF ChangeSound, NoChange
    <3>2. CASE change'[d] = change[d]
      BY <2>1, <3>2 DEF ReadyInv, ChangeSound
    <3> QED
      BY <1>3, <3>1, <3>2
  <2> QED
    BY <1>1, <1>3, <1>4, <2>1, <2>2, TableKept
<1>6. CASE PolicyAccepted(c)
  <2>1. ChangeSound(r) /\ r.id \in DOMAIN table /\ RowSound(row)
    BY <1>1 DEF ReadyInv, ChangeSound, TableSound
  <2>2. table' = [table EXCEPT ![r.id] = q]
    BY <1>1, <1>6
  <2>3. RowFollows(row, q) /\ q.stock = row.stock /\ q.state = "active"
    <3> HIDE DEF row
    <3>1. q = [state |-> "active", cap |-> row.cap, stock |-> row.stock, version |-> row.version + 1,
               print |-> row.print, born |-> row.born]
      BY <2>1, StateReplaced
    <3>2. row.version + 1 \in Nat /\ row.version + 1 > row.version
      BY <2>1 DEF RowSound
    <3> HIDE DEF q
    <3> QED
      BY <2>1, <3>1, <3>2 DEF RowFollows, RowSound
  <2>4. /\ DOMAIN table' = DOMAIN table /\ table'[r.id] = q
        /\ \A id \in DOMAIN table \ {r.id} : table'[id] = table[id]
    BY <2>1, <2>2
  <2>5. row.state # "active" => r.found
    BY <1>1, <1>6, <2>1 DEF ChangeSound, PolicyAccepted
  <2> HIDE DEF q, r
  <2>6. TableSound'
    BY <1>1, <2>1, <2>2, <2>3, RowBecomes
  <2>7. \A d \in Changes : ChangeSound(change[d])'
    BY <1>3, <2>1, <2>2, <2>3, ChangesFollow
  <2>8. ReadyInv'
    BY <1>1, <1>3, <1>4, <2>6, <2>7 DEF ReadyInv
  <2>9. \A id \in DOMAIN table : ~Grew(id) /\ (Activated(id) => id = r.id /\ row.state # "active")
    <3>1. \A id \in DOMAIN table : table[id].stock \in Nat
      BY DEF ReadyInv, TableSound, RowSound
    <3> QED
      BY <2>3, <2>4, <3>1 DEF Activated, Grew
  <2> QED
    BY <1>1, <2>5, <2>8, <2>9 DEF ReadyChanges, r
<1> QED
  BY <1>5, <1>6

LEMMA DrainKeeps == ASSUME ReadyInv, NEW id \in DOMAIN table, Drain(id) PROVE ReadyChanges
<1> DEFINE row == table[id]
           q == [row EXCEPT !.state = "draining", !.version = row.version + 1]
<1>1. UNCHANGED <<loaded, snapshot, change, eligible, compared>> /\ table' = [table EXCEPT ![id] = q]
  BY DEF Drain
<1>2. RowSound(row)
  BY DEF ReadyInv, TableSound
<1>3. RowFollows(row, q) /\ q.stock = row.stock /\ q.state = "draining"
  <2> HIDE DEF row
  <2>1. q = [state |-> "draining", cap |-> row.cap, stock |-> row.stock, version |-> row.version + 1,
             print |-> row.print, born |-> row.born]
    BY <1>2, StateReplaced
  <2>2. row.version + 1 \in Nat /\ row.version + 1 > row.version
    BY <1>2 DEF RowSound
  <2> HIDE DEF q
  <2> QED
    BY <1>2, <2>1, <2>2 DEF RowFollows, RowSound
<1>4. DOMAIN table' = DOMAIN table /\ table'[id] = q /\ \A i \in DOMAIN table \ {id} : table'[i] = table[i]
  BY <1>1
<1> HIDE DEF q
<1>5. TableSound' /\ ComparedSound'
  BY <1>1, <1>3, RowBecomes DEF ReadyInv, ComparedSound, Registered
<1>6. \A d \in Changes : ChangeSound(change[d])'
  BY <1>1, <1>3, ChangesFollow
<1>7. ReadyInv'
  BY <1>1, <1>5, <1>6 DEF ReadyInv
<1>8. \A i \in DOMAIN table : ~Activated(i) /\ ~Grew(i)
  <2>1. \A i \in DOMAIN table : table[i].stock \in Nat
    BY DEF ReadyInv, TableSound, RowSound
  <2> QED
    BY <1>3, <1>4, <2>1 DEF Activated, Grew
<1> QED
  BY <1>7, <1>8 DEF ReadyChanges

LEMMA ReserveKeeps == ASSUME ReadyInv, ReserveMember PROVE ReadyChanges
<1>1. UNCHANGED <<loaded, snapshot, change, compared>> /\ eligible' = Nothing /\ ProxyUp /\ eligible # Nothing
  BY DEF ReserveMember
<1>2. ComparedSound'
  BY <1>1 DEF ReadyInv, ComparedSound, Registered
<1>3. CASE UNCHANGED table
  BY <1>1, <1>2, <1>3, TableKept, ChangesKept DEF ReadyInv
<1>4. ASSUME NEW id \in eligible.ids \cap ActiveIds,
             table' = [table EXCEPT ![id].stock = @ + 1, ![id].born = @ \cup {Fingerprint(ProfileOf("proxy", id))}]
      PROVE  ReadyChanges
  <2> DEFINE row == table[id]
             print == Fingerprint(ProfileOf("proxy", id))
             q == [row EXCEPT !.stock = row.stock + 1, !.born = row.born \cup {print}]
  <2>1. id \in DOMAIN table /\ id \in compared /\ id \in Registered("proxy") /\ RowSound(row)
    BY <1>1 DEF ActiveIds, ReadyInv, ComparedSound, TableSound
  <2>2. row.print = print
    <3>1. ProfileOf("proxy", id) \in loaded["proxy"] /\ ProfileOf("proxy", id).id = id
      BY <2>1 DEF ProfileOf, ProfileIn, Registered
    <3> QED
      BY <1>1, <3>1 DEF ReadyInv, TableSound
  <2>3. table' = [table EXCEPT ![id] = q]
    BY <1>4
  <2>4. DOMAIN table' = DOMAIN table /\ table'[id] = q /\ \A i \in DOMAIN table \ {id} : table'[i] = table[i]
    BY <2>1, <2>3
  <2>5. RowFollows(row, q) /\ q.state = row.state
    <3> HIDE DEF row, print
    <3>1. q = [state |-> row.state, cap |-> row.cap, stock |-> row.stock + 1, version |-> row.version,
               print |-> row.print, born |-> row.born \cup {print}]
      BY <2>1, StockReplaced
    <3>2. row.stock + 1 \in Nat /\ row.stock + 1 # 0 /\ row.version \in Nat /\ row.version >= row.version
      BY <2>1 DEF RowSound
    <3>3. row.born \cup {print} = {row.print}
      BY <2>1, <2>2 DEF RowSound
    <3> HIDE DEF q
    <3> QED
      BY <2>1, <3>1, <3>2, <3>3 DEF RowFollows, RowSound
  <2> HIDE DEF q
  <2>6. TableSound'
    BY <1>1, <2>1, <2>3, <2>5, RowBecomes
  <2>7. \A d \in Changes : ChangeSound(change[d])'
    BY <1>1, <2>1, <2>3, <2>5, ChangesFollow
  <2>8. ReadyInv'
    BY <1>1, <1>2, <2>6, <2>7 DEF ReadyInv
  <2>9. \A i \in DOMAIN table : ~Activated(i) /\ (Grew(i) => i = id)
    <3>1. \A i \in DOMAIN table : table[i].stock \in Nat
      BY DEF ReadyInv, TableSound, RowSound
    <3> QED
      BY <2>4, <2>5, <3>1 DEF Activated, Grew
  <2> QED
    BY <2>1, <2>8, <2>9 DEF ReadyChanges
<1> QED
  BY <1>3, <1>4 DEF ReserveMember

LEMMA ProbeKeeps == ASSUME ReadyInv, ProbeEligible \/ ProbeTimeout PROVE ReadyChanges
<1>1. UNCHANGED <<loaded, table, snapshot, change, compared>>
  BY DEF ProbeEligible, ProbeTimeout
<1>2. eligible' # Nothing => eligible'.ids \subseteq compared
  <2>1. CASE ProbeEligible
    <3>1. eligible'.ids = {id \in {i \in ActiveIds : IsFresh(i)} : id \in snapshot.ready}
      BY <2>1 DEF ProbeEligible
    <3> QED
      BY <3>1 DEF IsFresh, ReadyInv, ComparedSound
  <2>2. CASE ProbeTimeout
    <3>1. eligible # Nothing /\ (eligible'.ids = eligible.ids \/ eligible'.ids = {})
      BY <2>2 DEF ProbeTimeout
    <3> QED
      BY <3>1 DEF ReadyInv, ComparedSound
  <2> QED
    BY <2>1, <2>2
<1>3. ComparedSound'
  BY <1>1, <1>2 DEF ReadyInv, ComparedSound, Registered
<1> QED
  BY <1>1, <1>3, TableKept, ChangesKept

LEMMA QuietKeeps ==
  ASSUME ReadyInv, UNCHANGED readinessVars \/ SnapshotAges \/ \E peer \in Peers : PeerAnswers(peer)
  PROVE  ReadyChanges
<1>1. UNCHANGED <<loaded, table, change, eligible, compared>>
  BY DEF SnapshotAges, PeerAnswers, readinessVars
<1>2. snapshot' # Nothing => snapshot'.ready \subseteq compared
  <2>1. CASE UNCHANGED snapshot
    BY <2>1 DEF ReadyInv, ComparedSound
  <2>2. CASE SnapshotAges
    <3>1. snapshot # Nothing /\ snapshot' = [snapshot EXCEPT !.age = @ + 1]
      BY <2>2 DEF SnapshotAges
    <3>2. snapshot'.ready = snapshot.ready
      BY <3>1
    <3> QED
      BY <3>1, <3>2 DEF ReadyInv, ComparedSound
  <2> QED
    BY <2>1, <2>2 DEF PeerAnswers, readinessVars
<1>3. ComparedSound'
  BY <1>1, <1>2 DEF ReadyInv, ComparedSound, Registered
<1> QED
  BY <1>1, <1>3, TableKept, ChangesKept

LEMMA ReadyKeeps == ASSUME ReadyInv, [ReadinessNext]_readinessVars PROVE ReadyChanges
BY RestartKeeps, ComparisonKeeps, RequestKeeps, ActivateKeeps, DrainKeeps, ReserveKeeps, ProbeKeeps, QuietKeeps
   DEF ReadinessNext

(***************************************************************************)
(* EnterprisesAreSafe (registryFile.ts, enterpriseRepo.ts,                 *)
(* enterpriseReadiness.ts): whatever files the services restart with, the  *)
(* profiles of each are told apart as requests tell them apart, the caps   *)
(* fit the catalog of names, members keep the identity they were created   *)
(* with, and an enterprise is activated, and grows, only after a           *)
(* comparison of this Proxy found it ready.                                *)
(***************************************************************************)
THEOREM EnterprisesStaySafe == ReadinessSpec => EnterprisesAreSafe
<1>1. ReadyInv /\ [ReadinessNext]_readinessVars => ReadyInv'
  BY ReadyKeeps DEF ReadyChanges
<1>2. ReadyInv /\ [ReadinessNext]_readinessVars =>
        [ \A id \in DOMAIN table :
            /\ Activated(id) => /\ \E c \in Changes : change[c].id = id /\ change[c].at = "writing" /\ change[c].found
            /\ Grew(id) => id \in compared ]_readinessVars
  BY ReadyKeeps DEF ReadyChanges
<1> QED
  BY <1>1, <1>2, ReadyStart, ReadySafe, PTL DEF ReadinessSpec, EnterprisesAreSafe, ActivationIsCompared
=============================================================================
