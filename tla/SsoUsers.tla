------------------------------ MODULE SsoUsers ------------------------------
(***************************************************************************)
(* The users of the SSO service: a row in its database, a SCIM user and a  *)
(* Copilot seat at GitHub, and accounts of the Proxy.  A request reads the *)
(* row, then awaits password hashing or calls to GitHub and the Proxy; at  *)
(* each await other requests run.  A call to GitHub may take effect and    *)
(* still fail, because its answer is lost.                                 *)
(***************************************************************************)
EXTENDS Integers, FiniteSets

CONSTANTS
  UserNames,    \* names of one enterprise; names are compared in lower case
  UserCalls,    \* requests
  UserLimits,   \* values maxSsoUsers is given
  NamePrefix,   \* userPrefix, the name of an identity that maps to no name
  NameSuffixed, \* <prefix>-2
  MaxScimIds,   \* bound: SCIM users GitHub creates of one name
  NoUser

Confirmed == {"assigned", "pending_cancellation", "unassigned"}

(* SsoUserRecord, with the marker of sso_pool_managed_users. *)
UserRows ==
  [pool: BOOLEAN, password: {"initial", "changed"}, id: 0..MaxScimIds,
   emu: {"active", "suspended", "not_synced"},
   seat: Confirmed \cup {"unknown", "assign_failed", "remove_failed"}, error: BOOLEAN]

ASSUME SsoUsersAssumption ==
  /\ {NamePrefix, NameSuffixed} \subseteq UserNames /\ IsFiniteSet(UserNames)
  /\ UserLimits \subseteq Nat /\ MaxScimIds \in Nat \ {0} /\ NoUser \notin UserRows

VARIABLES
  users,     \* sso_users and sso_pool_managed_users
  limit,     \* max_sso_users
  request,   \* each request: operation, name, phase, the row it read
  scim,      \* external: the SCIM user of each name, 0 for none
  seats,     \* external: the direct seat of each name
  accounts,  \* external: names with an account in the Proxy
  legacy,    \* external: pool members without a local marker
  disturbed  \* names some request worked on while another did (history)

userVars == <<users, limit, request, scim, seats, accounts, legacy, disturbed>>
github == <<scim, seats>>
world == <<accounts, legacy>>

CallFailed == [assign |-> "assign_failed", remove |-> "remove_failed"]

NewUser(pool) == [pool |-> pool, password |-> "initial", id |-> 0, emu |-> "not_synced",
                  seat |-> "unknown", error |-> FALSE]
SyncedUser == [NewUser(FALSE) EXCEPT !.id = 1, !.emu = "active", !.seat = "assigned"]

Rest == [op |-> "none", name |-> NamePrefix, phase |-> "idle", user |-> NoUser, flag |-> FALSE,
         tries |-> 0, found |-> 0]

UsersTypeOK ==
  /\ users \in [UserNames -> {NoUser} \cup UserRows]
  /\ limit \in UserLimits
  /\ scim \in [UserNames -> 0..MaxScimIds] /\ seats \in [UserNames -> Confirmed]
  /\ accounts \subseteq UserNames /\ legacy \subseteq UserNames /\ disturbed \subseteq UserNames

(* Some names belong to direct users, new or synced and with a seat. *)
UsersInit ==
  /\ users \in [UserNames -> {NoUser, NewUser(FALSE), SyncedUser}]
  /\ LET synced == {n \in UserNames : users[n] = SyncedUser} IN
       /\ scim = [n \in UserNames |-> IF n \in synced THEN 1 ELSE 0]
       /\ seats = [n \in UserNames |-> IF n \in synced THEN "assigned" ELSE "unassigned"]
       /\ accounts = synced
       /\ legacy \in SUBSET synced
  /\ limit \in UserLimits
  /\ request = [c \in UserCalls |-> Rest]
  /\ disturbed = {}

Exists(n) == users[n] # NoUser
Present == {n \in UserNames : Exists(n)}
WorkingOn(c) == request[c].phase \notin {"idle", "done", "failed"}

-----------------------------------------------------------------------------
(* How a request moves; a new request on a name disturbs the one at work.  *)

BeginCall(c, op, n, flag, phase) ==
  /\ request[c].phase = "idle"
  /\ request' = [request EXCEPT ![c] = [op |-> op, name |-> n, phase |-> phase,
                         user |-> IF phase \in {"done", "failed"} THEN NoUser ELSE users[n],
                         flag |-> flag, tries |-> 1, found |-> 0]]
  /\ disturbed' = IF \E d \in UserCalls : WorkingOn(d) /\ request[d].name = n
                  THEN disturbed \cup {n} ELSE disturbed

(* A request that ends forgets what it read. *)
Goto(c, phase) ==
  /\ request' = [request EXCEPT ![c].phase = phase,
       ![c].user = IF phase \in {"done", "failed"} THEN NoUser ELSE @,
       ![c].found = IF phase \in {"done", "failed"} THEN 0 ELSE @]
  /\ UNCHANGED disturbed

In(c, ops, phase) == request[c].op \in ops /\ request[c].phase = phase
Name(c) == request[c].name
Read(c) == request[c].user

(* updateEmu, updateCopilotSeat, recordCopilotSeatError: they throw when the
   row has gone. *)
Update(n, row) == users' = [users EXCEPT ![n] = row]

UpdateSeat(n, status, error) == [users[n] EXCEPT !.seat = status, !.error = error]

(* Mutant: the limit is checked when the request arrives, not on insert. *)
CreateUserUnchecked(c, n, pool) ==
  Update(n, NewUser(pool)) /\ Goto(c, "done")

(* createUser: one immediate transaction. *)
CreateUser(c, n, pool) ==
  IF Cardinality(Present) >= limit
  THEN Goto(c, "failed") /\ UNCHANGED users
  ELSE Update(n, NewUser(pool)) /\ Goto(c, "done")

(* updateUser: the row may have gone, or become a pool user. *)
UpdateUser(c) ==
  IF ~Exists(Name(c)) \/ users[Name(c)].pool
  THEN Goto(c, "failed") /\ UNCHANGED users
  ELSE Update(Name(c), [users[Name(c)] EXCEPT !.password = "changed"]) /\ Goto(c, "done")

(* nextAvailableSsoUser: the base name or the first free suffix. *)
NextAvailable(n) == IF n = NamePrefix /\ Exists(n) THEN NameSuffixed ELSE n

-----------------------------------------------------------------------------
(* ensureUser.  flag: the identity maps to a name; otherwise it gets one
   that starts with the prefix and is never found again. *)
StartEnsure(c, n, flag) ==
  /\ flag \/ n = NextAvailable(NamePrefix)
  /\ BeginCall(c, "ensure", n, flag, IF flag /\ Exists(n) THEN "done" ELSE "hash")
  /\ UNCHANGED <<users, limit, github, world>>

(* A third attempt that finds its name taken gives up. *)
Ensure(c) ==
  /\ In(c, {"ensure"}, "hash")
  /\ IF ~Exists(Name(c)) THEN CreateUser(c, Name(c), FALSE)
     ELSE IF request[c].flag THEN Goto(c, "done") /\ UNCHANGED users
     ELSE IF request[c].tries = 3 THEN Goto(c, "failed") /\ UNCHANGED users
     ELSE /\ request' = [request EXCEPT ![c].name = NextAvailable(NamePrefix),
                                        ![c].tries = @ + 1]
          /\ UNCHANGED <<users, disturbed>>
  /\ UNCHANGED <<limit, github, world>>

(* createSsoUser; flag: poolManaged. *)
StartCreate(c, n, flag) ==
  /\ BeginCall(c, "create", n, flag, IF Exists(n) THEN "failed" ELSE "hash")
  /\ UNCHANGED <<users, limit, github, world>>

(* importUserRow: a given password changes an existing row. *)
StartImport(c, n, flag) ==
  /\ BeginCall(c, IF Exists(n) THEN "patch" ELSE "create", n, FALSE,
           IF Exists(n) /\ ~flag THEN "done" ELSE "hash")
  /\ UNCHANGED <<users, limit, github, world>>

Create(c) ==
  /\ In(c, {"create"}, "hash")
  /\ IF Exists(Name(c)) THEN Goto(c, "failed") /\ UNCHANGED users
     ELSE CreateUser(c, Name(c), request[c].flag)
  /\ UNCHANGED <<limit, github, world>>

(* patchSsoUser. *)
StartPatch(c, n) ==
  /\ BeginCall(c, "patch", n, FALSE,
           IF Exists(n) /\ users[n].pool THEN "failed" ELSE "hash")
  /\ UNCHANGED <<users, limit, github, world>>

Patch(c) ==
  /\ In(c, {"patch"}, "hash")
  /\ UpdateUser(c)
  /\ UNCHANGED <<limit, github, world>>

-----------------------------------------------------------------------------
(* The destructive operations: delete_sso, delete_emu, suspend_emu,
   remove_copilot.  The marker is checked here, pool membership next. *)
Destructive == {"delete", "deleteEmu", "suspend", "removeSeat"}

StartDestructive(c, op, n) ==
  /\ BeginCall(c, op, n, FALSE, IF ~Exists(n) \/ users[n].pool THEN "failed" ELSE "member")
  /\ UNCHANGED <<users, limit, github, world>>

(* assertDestructiveOperationAllowed: the Proxy says that the user is no pool
   member; anything else, and no answer, is a refusal. *)
AssertDestructive(c) ==
  /\ In(c, Destructive, "member")
  /\ \/ Goto(c, "failed")
     \/ /\ Name(c) \notin legacy
        /\ Goto(c, IF request[c].op = "suspend"
                   THEN IF Read(c).id = 0 THEN "failed" ELSE "suspend" ELSE "seat")
  /\ UNCHANGED <<users, limit, github, world>>

Suspend(c) ==
  /\ In(c, Destructive, "suspend")
  /\ \/ Goto(c, "failed") /\ UNCHANGED users
     \/ IF scim[Name(c)] # Read(c).id \/ ~Exists(Name(c))
        THEN Goto(c, "failed") /\ UNCHANGED users
        ELSE /\ Update(Name(c), [users[Name(c)] EXCEPT !.id = Read(c).id, !.emu = "suspended"])
             /\ Goto(c, "done")
  /\ UNCHANGED <<limit, github, world>>

AfterSeat(c) ==
  IF request[c].op \in {"delete", "deleteEmu"} THEN "scimId" ELSE "done"

Kind(c) == IF request[c].op \in {"sync", "assign"} THEN "assign" ELSE "remove"
SeatAsked(c) == IF Kind(c) = "assign" THEN "assigned" ELSE "pending_cancellation"

(* removeCopilotSeatForUser and assignCopilotSeatForUser without a GH login,
   or when GitHub says that there is no seat to remove. *)
SeatSkipped(c) ==
  /\ request[c].phase = "seat"
  /\ \/ Read(c).id = 0
     \/ Kind(c) = "remove" /\ seats[Name(c)] = "unassigned"
  /\ IF ~Exists(Name(c)) THEN Goto(c, "failed") /\ UNCHANGED users
     ELSE IF Kind(c) = "assign"
     THEN Update(Name(c), UpdateSeat(Name(c), "assign_failed", TRUE)) /\ Goto(c, "failed")
     ELSE Update(Name(c), UpdateSeat(Name(c), "unassigned", FALSE)) /\ Goto(c, AfterSeat(c))
  /\ UNCHANGED <<limit, github, world>>

(* mutateCopilotSeat: GitHub accepts; the change may take a while. *)
SeatAccepted(c) ==
  /\ request[c].phase = "seat" /\ Read(c).id # 0
  /\ Kind(c) = "remove" => seats[Name(c)] # "unassigned"
  /\ Goto(c, "confirm")
  /\ seats' \in {seats, [seats EXCEPT ![Name(c)] = IF scim[Name(c)] = 0 THEN @ ELSE SeatAsked(c)]}
  /\ UNCHANGED <<users, limit, scim, world>>

(* recordSeatMutationFailure: a confirmed status is kept, with the error; the
   change may have taken effect all the same. *)
SeatFails(c) ==
  /\ request[c].phase = "seat" /\ Read(c).id # 0
  /\ Goto(c, "failed")
  /\ seats' \in {seats, [seats EXCEPT ![Name(c)] = IF scim[Name(c)] = 0 THEN @ ELSE SeatAsked(c)]}
  /\ IF ~Exists(Name(c)) THEN UNCHANGED users
     ELSE Update(Name(c), UpdateSeat(Name(c),
            IF Read(c).seat \in Confirmed THEN users[Name(c)].seat ELSE CallFailed[Kind(c)], TRUE))
  /\ UNCHANGED <<limit, scim, world>>

(* confirmSeatMutation: the seat is read back; an unreadable or unchanged one
   is an error, in the row and to the caller. *)
ConfirmSeat(c) ==
  /\ request[c].phase = "confirm"
  /\ LET n == Name(c)
         ok == IF Kind(c) = "assign" THEN seats[n] = "assigned" ELSE seats[n] # "assigned"
     IN IF ~Exists(n) THEN Goto(c, "failed") /\ UNCHANGED users
        ELSE \/ Update(n, UpdateSeat(n, users[n].seat, TRUE)) /\ Goto(c, "failed")
             \/ /\ Update(n, UpdateSeat(n, seats[n], ~ok))
                /\ Goto(c, IF ok THEN AfterSeat(c) ELSE "failed")
  /\ UNCHANGED <<limit, github, world>>

(* GitHub drops a user and its seat. *)
DeleteScim(n) ==
  /\ scim' = [scim EXCEPT ![n] = 0]
  /\ seats' = [seats EXCEPT ![n] = "unassigned"]

(* scimFetch DELETE: the user with that id, or 404; a failure may follow the
   effect. *)
DeleteByScimId(c, id, phase) ==
  LET hit == id # 0 /\ scim[Name(c)] = id IN
    /\ \/ Goto(c, phase) /\ (IF hit THEN DeleteScim(Name(c)) ELSE UNCHANGED github)
       \/ Goto(c, "failed") /\ (UNCHANGED github \/ (hit /\ DeleteScim(Name(c))))
    /\ UNCHANGED <<users, limit, world>>

AfterScim(c) == IF request[c].op = "delete" THEN "proxy" ELSE "last"

(* deleteProvisionedUser: first by the id of the row, if it has one, ... *)
DeleteById(c) == request[c].phase = "scimId" /\ DeleteByScimId(c, Read(c).id, "lookup")

(* findScimUserByUsername: for the deletion of what the row does not know of,
   or to adopt the user that a create met. *)
Lookup(c) ==
  /\ request[c].phase = "lookup"
  /\ \/ Goto(c, "failed")
     \/ scim[Name(c)] = 0 /\ Goto(c, IF request[c].op = "sync" THEN "failed" ELSE AfterScim(c))
     \/ /\ scim[Name(c)] # 0
        /\ request' = [request EXCEPT
             ![c].phase = IF request[c].op = "sync" THEN "replace" ELSE "scimName",
             ![c].found = scim[Name(c)]]
        /\ UNCHANGED disturbed
  /\ UNCHANGED <<users, limit, github, world>>

(* ... then the user of that name. *)
DeleteByName(c) ==
  request[c].phase = "scimName" /\ DeleteByScimId(c, request[c].found, AfterScim(c))

(* deleteProxyAccountsBySsoUser. *)
DeleteAccounts(c) ==
  /\ request[c].phase = "proxy"
  /\ Goto(c, "last") \/ Goto(c, "failed")
  /\ accounts' \in {accounts, accounts \ {Name(c)}}
  /\ request'[c].phase = "last" => Name(c) \notin accounts'
  /\ UNCHANGED <<users, limit, github, legacy>>

(* deleteUser: not what has become a pool user. *)
DeleteUser(c) ==
  /\ In(c, {"delete"}, "last")
  /\ IF ~Exists(Name(c)) \/ users[Name(c)].pool
     THEN Goto(c, "failed") /\ UNCHANGED users
     ELSE Update(Name(c), NoUser) /\ Goto(c, "done")
  /\ UNCHANGED <<limit, github, world>>

(* deleteEmuUser ends with updateEmu and updateCopilotSeat. *)
ForgetEmu(c) ==
  /\ In(c, {"deleteEmu"}, "last")
  /\ IF ~Exists(Name(c)) THEN Goto(c, "failed") /\ UNCHANGED users
     ELSE /\ Update(Name(c), [UpdateSeat(Name(c), "unassigned", FALSE)
                                EXCEPT !.id = 0, !.emu = "not_synced"])
          /\ Goto(c, "done")
  /\ UNCHANGED <<limit, github, world>>

-----------------------------------------------------------------------------
(* syncSsoUser.  flag: createOnly, which never touches an existing SCIM user
   and is the only sync a pool user gets. *)
StartSync(c, n, flag) ==
  /\ BeginCall(c, "sync", n, flag,
       IF \/ ~Exists(n)
          \/ Exists(n) /\ users[n].pool /\ ~flag
          \/ Exists(n) /\ flag /\ (users[n].id # 0 \/ users[n].emu # "not_synced")
       THEN "failed" ELSE IF users[n].id # 0 THEN "known" ELSE "post")
  /\ UNCHANGED <<users, limit, github, world>>

(* updateEmu, then the seat when it was asked for. *)
Provisioned(c, id) ==
  IF ~Exists(Name(c)) THEN Goto(c, "failed") /\ UNCHANGED users
  ELSE LET row == [users[Name(c)] EXCEPT !.id = id, !.emu = "active"] IN
    /\ Update(Name(c), row)
    /\ \/ Goto(c, "done")
       \/ /\ request' = [request EXCEPT ![c].phase = "seat", ![c].user = row, ![c].found = 0]
          /\ UNCHANGED disturbed

(* replaceUser: 404 creates the user, or ends an adoption. *)
Replace(c) ==
  /\ In(c, {"sync"}, "known") \/ In(c, {"sync"}, "replace")
  /\ LET id == IF request[c].phase = "known" THEN Read(c).id ELSE request[c].found IN
       \/ Goto(c, "failed") /\ UNCHANGED users
       \/ scim[Name(c)] = id /\ Provisioned(c, id)
       \/ /\ scim[Name(c)] # id
          /\ Goto(c, IF request[c].phase = "known" THEN "post" ELSE "failed")
          /\ UNCHANGED users
  /\ UNCHANGED <<limit, github, world>>

(* The ids GitHub gives are new: here, larger than any a row or a request
   still knows of. *)
Ids(n) ==
  {scim[n]} \cup (IF Exists(n) THEN {users[n].id} ELSE {})
    \cup UNION {{request[c].found} \cup (IF Read(c) = NoUser THEN {} ELSE {Read(c).id}) :
                c \in {d \in UserCalls : WorkingOn(d) /\ Name(d) = n}}

FreshId(n) == CHOOSE id \in 1..MaxScimIds : \A k \in Ids(n) : id # k

(* SCIM create: created; created but the answer lost, so that the retry meets
   409 or the request fails; or 409 at once. *)
Post(c) ==
  /\ In(c, {"sync"}, "post")
  /\ LET n == Name(c) 
         conflict == Goto(c, IF request[c].flag THEN "failed" ELSE "lookup") /\ UNCHANGED users
     IN \/ scim[n] # 0 /\ conflict /\ UNCHANGED scim
        \/ Goto(c, "failed") /\ UNCHANGED <<users, scim>>
        \/ /\ scim[n] = 0 /\ Ids(n) \cap (1..MaxScimIds) # 1..MaxScimIds
           /\ scim' = [scim EXCEPT ![n] = FreshId(n)]
           /\ conflict \/ (Goto(c, "failed") /\ UNCHANGED users) \/ Provisioned(c, FreshId(n))
  /\ UNCHANGED <<limit, seats, world>>

(* assignCopilotSeatForSsoUser. *)
StartAssign(c, n) ==
  /\ BeginCall(c, "assign", n, FALSE, IF Exists(n) THEN "seat" ELSE "failed")
  /\ UNCHANGED <<users, limit, github, world>>

(* updateSsoRuntimeSettings. *)
SetLimit(l) ==
  /\ l # limit /\ limit' = l
  /\ UNCHANGED <<users, request, github, world, disturbed>>

Start(c) ==
  \/ \E n \in UserNames, flag \in BOOLEAN :
       StartEnsure(c, n, flag) \/ StartCreate(c, n, flag) \/ StartImport(c, n, flag)
         \/ StartSync(c, n, flag)
  \/ \E n \in UserNames : StartPatch(c, n) \/ StartAssign(c, n)
  \/ \E n \in UserNames, op \in Destructive : StartDestructive(c, op, n)

Resume(c) ==
  \/ Ensure(c) \/ Create(c) \/ Patch(c)
  \/ AssertDestructive(c) \/ Suspend(c)
  \/ SeatSkipped(c) \/ SeatAccepted(c) \/ SeatFails(c) \/ ConfirmSeat(c)
  \/ DeleteById(c) \/ Lookup(c) \/ DeleteByName(c) \/ DeleteAccounts(c)
  \/ DeleteUser(c) \/ ForgetEmu(c)
  \/ Replace(c) \/ Post(c)

UsersNext ==
  \/ \E c \in UserCalls : Start(c) \/ Resume(c)
  \/ \E l \in UserLimits : SetLimit(l)

UsersSpec == UsersInit /\ [][UsersNext]_userVars

-----------------------------------------------------------------------------
(* A user is only added below the limit of that moment, however many requests
   passed their checks before they hashed a password (createUser checks inside
   its immediate transaction). *)
NewUserFits == [][Cardinality(Present) < Cardinality(Present') => Cardinality(Present') <= limit]_userVars

(* Pool users stay what the pool made them: the row of a marked user is never
   deleted and keeps its password, also when the request began before the
   name was marked; and no destructive request touches the row, the SCIM user
   or the seat of a pool member that only the Proxy knows of. *)
PoolUsersStay ==
  [][\A n \in UserNames :
       /\ (Exists(n) /\ users[n].pool) => (Exists(n)' /\ users'[n].pool /\ users'[n].password = users[n].password)
       /\ n \in legacy => /\ Exists(n)' /\ scim'[n] = scim[n]
                          /\ seats[n] = "assigned" => seats'[n] = "assigned"]_userVars

(* When a deletion has removed a row and nobody else worked on that user, no
   SCIM user, seat or Proxy account is left behind: also when an earlier sync
   created a SCIM user whose id the row never learned. *)
NothingIsLeft ==
  [][\A c \in UserCalls : LET n == Name(c) IN
       (In(c, {"delete"}, "last") /\ request'[c].phase = "done" /\ n \notin disturbed)
       => (scim[n] = 0 /\ seats[n] = "unassigned" /\ n \notin accounts)]_userVars

(* When a request that changes a seat ends, a seat status without an error in
   the row is the one GitHub has, whatever calls failed or took effect unseen
   (confirmSeatMutation, recordSeatMutationFailure), unless requests on the
   user overlapped. *)
SeatIsTrue ==
  [][\A c \in UserCalls : LET n == Name(c) IN
       (/\ request[c].phase \in {"seat", "confirm"} /\ request'[c].phase \notin {"seat", "confirm"}
        /\ n \notin disturbed /\ Exists(n)'
        /\ users'[n].seat \in Confirmed /\ ~users'[n].error)
       => users'[n].seat = seats'[n]]_userVars

(* Requests on one user that overlap, fail halfway or are answered late keep
   the limit, the pool's users and what is recorded of GitHub. *)
UsersAreSafe == NewUserFits /\ PoolUsersStay /\ NothingIsLeft /\ SeatIsTrue
=============================================================================
