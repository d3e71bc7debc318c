----------------------------- MODULE MCIdentity -----------------------------
(***************************************************************************)
(* Users, enterprises, sessions and the accounts and statistics of direct  *)
(* mode, side by side: the components share no state, so a behaviour is a  *)
(* behaviour of one part.                                                  *)
(***************************************************************************)
EXTENDS SsoUsers, EmuImport, SamlSession, Readiness, Accounts, RequestStats

CONSTANTS nameA, nameB

VARIABLE part

MCTextsOfRegistry == {"dotcom", "ghe", "octo", "acme", "ACME", "page", "PAGE", "a.com", "b.com", "B.com",
                      "cert", "derived", "bad", "", "unset"}
MCCanonical == [x \in MCTextsOfRegistry |->
                  CASE x = "ACME" -> "acme" [] x = "PAGE" -> "page" [] x = "B.com" -> "b.com" [] OTHER -> x]
MCBaseline == [baseUrl |-> "dotcom", shortcode |-> "octo", slug |-> "octo", signingCert |-> "cert"]
MCDerived == [id \in EnterpriseNames |-> "derived"]

(* Two enterprises whose domains differ in case only, one of them alone, and
   one that moved to another host. *)
MCAcme == [baseUrl |-> "dotcom", shortcode |-> "ACME", slug |-> "acme", domain |-> "B.com", cap |-> 1,
           signingCert |-> "cert"]
MCMoved == [baseUrl |-> "ghe", slug |-> "acme", domain |-> "b.com", signingCert |-> "cert"]
MCEntry(id, fields) == [id |-> id, fields |-> fields]
MCFiles == {[listed |-> TRUE, entries |-> entries] :
              entries \in {{MCEntry("acme", MCAcme), MCEntry("default", [domain |-> "b.com"])},
                           {MCEntry("acme", MCAcme)},
                           {MCEntry("acme", MCMoved), MCEntry("default", [cap |-> 2])}}}
MCEnv == [s \in Services |-> CASE s = "login" -> [loginUrl |-> "PAGE"]
                               [] s = "proxy" -> [domain |-> "a.com"]
                               [] OTHER -> << >>]

(* Accounts: two requests on one replica and one on another. *)
MCRemote == CHOOSE s \in Starters : TRUE
MCReplicaOf == [s \in Starters |-> IF s = MCRemote THEN "b" ELSE "a"]
MCImportsInto == [k \in Importers |-> "e2"]

-----------------------------------------------------------------------------
MCInit ==
  /\ part \in {"users", "import", "saml", "readiness", "accounts", "stats"}
  /\ UsersInit /\ (part # "users" => Present = {} /\ limit = Min(UserLimits))
  /\ ImportInit /\ (part # "import" => \A i \in ScimIds : remote[i].name = Min(SsoNames))
  /\ SamlInit /\ (part # "saml" => cookie = NoSession)
  /\ AccountsInit /\ StatsInit
  /\ ReadinessInit /\ (part # "readiness" => \E p \in loaded["proxy"] : p.baseUrl = "ghe")

MCNext ==
  \/ /\ part = "users" /\ UsersNext
     /\ UNCHANGED <<part, importVars, samlVars, readinessVars, accountVars, statVars>>
  \/ /\ part = "import" /\ ImportNext
     /\ UNCHANGED <<part, userVars, samlVars, readinessVars, accountVars, statVars>>
  \/ /\ part = "saml" /\ SamlNext
     /\ UNCHANGED <<part, userVars, importVars, readinessVars, accountVars, statVars>>
  \/ /\ part = "readiness" /\ ReadinessNext
     /\ UNCHANGED <<part, userVars, importVars, samlVars, accountVars, statVars>>
  \/ /\ part = "accounts" /\ AccountsNext
     /\ UNCHANGED <<part, userVars, importVars, samlVars, readinessVars, statVars>>
  \/ /\ part = "stats" /\ StatsNext
     /\ UNCHANGED <<part, userVars, importVars, samlVars, readinessVars, accountVars>>

MCSpec ==
  MCInit /\ [][MCNext]_<<part, userVars, importVars, samlVars, readinessVars, accountVars, statVars>>

-----------------------------------------------------------------------------
(* What the MySQL storage keeps for direct mode: the account row and its
   initializer, and statistics that are pruned and exported while requests
   are recorded. *)
StorageIsSafe == [](AccountsAreSafe /\ ExportIsOneTable) /\ AccountKeepsItsToken /\ NewestStatsStay
=============================================================================
