------------------------- MODULE EnterpriseRegistry -------------------------
(***************************************************************************)
(* How each service reads the enterprise registry when it starts           *)
(* (shared/src/enterprise: registryFile.ts, registry.ts, registryFields.ts,*)
(* registryDefaults.ts, defaultFromEnv.ts).  The file lists the            *)
(* enterprises; the environment of the service fills, and must agree with, *)
(* the entry of `default`, or stands for it.  The result is a set of       *)
(* profiles, or a refusal to start.                                        *)
(*                                                                         *)
(* The fields of an entry are a function from the paths that are set to    *)
(* texts.  Of the paths the model keeps those that a rule of the registry, *)
(* a blocker of a service or a comparison of two services is about.        *)
(***************************************************************************)
EXTENDS Naturals, FiniteSetsExt, Functions

CONSTANTS EnterpriseNames,    \* the ids that match the pattern of an id
          CanonicalText,      \* text -> its normal form (lower case, without query and fragment)
          MalformedTexts,     \* texts that no field accepts
          GheUrls,            \* the GitHub origins under ghe.com
          BaselineText,       \* path -> the built-in value of today's services
          DerivedLogin,       \* id -> the login page derived from SSO_URL
          CatalogNames,       \* how many account names there are
          MaxEnterprises,     \* how many enterprises a file may list
          NewCap, DefaultCap  \* the caps of an entry that states none

Texts == DOMAIN CanonicalText
Canonical(text) == text \in Texts /\ CanonicalText[text] = text

\* A normal form is its own; the derived page is an origin with a path of an id.
ASSUME RegistryAssumption ==
    /\ \A text \in Texts : Canonical(CanonicalText[text])
    /\ \A id \in EnterpriseNames : Canonical(DerivedLogin[id])
    /\ CatalogNames \in Nat

Services == {"proxy", "sso", "login"}
DefaultId == "default"
Paths == {"baseUrl", "slug", "shortcode", "loginUrl", "allowedUrls", "domain", "cap", "signingCert", "clientId"}
Unset == "unset"

FieldOr(fields, path, other) == IF path \in DOMAIN fields THEN fields[path] ELSE other

---------------------------------------------------------------------------
(* Reading the file. *)

\* normalizeField: hosts, domains, shortcodes and login pages are compared in their normal form.
NormalizeField(path, text) == IF path \in {"baseUrl", "shortcode", "domain", "loginUrl"} THEN CanonicalText[text] ELSE text

FieldAccepted(path, text) == path \in Paths /\ (path # "cap" => text \notin MalformedTexts)

EntryAccepted(entry) ==
    /\ entry.id \in EnterpriseNames
    /\ \A path \in DOMAIN entry.fields : FieldAccepted(path, entry.fields[path])

ReadEntry(entry) ==
    [id |-> entry.id, fields |-> [path \in DOMAIN entry.fields |-> NormalizeField(path, entry.fields[path])]]

RegistryFileAccepted(file) ==
    file.listed => /\ Cardinality(file.entries) \in 1..MaxEnterprises
                   /\ \A entry \in file.entries : EntryAccepted(entry)

\* Without ENTERPRISE_REGISTRY_FILE there are no entries.
ReadRegistryFile(file) == IF file.listed THEN {ReadEntry(entry) : entry \in file.entries} ELSE {}

---------------------------------------------------------------------------
(* The default enterprise: the file, the environment, the built-in values. *)

IsGhe(url) == url \in GheUrls

\* The variables a service reads; pool variables only in caller-lease mode, which is the mode modelled here.
EnvPaths(service) ==
    CASE service = "proxy" -> {"baseUrl", "shortcode", "domain", "cap"}
      [] service = "sso"   -> {"baseUrl", "slug", "shortcode", "signingCert"}
      [] service = "login" -> {"baseUrl", "slug", "clientId", "loginUrl"}

\* defaultFromEnv: ENTERPRISE_SHORTCODE is ignored on GHE.com, which the file decides before the environment.
DefaultFromEnv(service, env, fileFields) ==
    LET known == Restrict(env, EnvPaths(service) \cap DOMAIN env)
        base  == FieldOr(fileFields, "baseUrl", FieldOr(known, "baseUrl", Unset))
        used  == IF IsGhe(base) THEN DOMAIN known \ {"shortcode"} ELSE DOMAIN known
    IN  [path \in used |-> NormalizeField(path, known[path])]

EnvAgrees(fileFields, envFields) ==
    \A path \in DOMAIN fileFields \cap DOMAIN envFields : fileFields[path] = envFields[path]

\* fallbackFields: the built-in values fill what neither side sets.
FallbackPaths(service, merged) ==
    {"baseUrl"}
    \cup (IF service # "login" /\ ~IsGhe(FieldOr(merged, "baseUrl", BaselineText["baseUrl"])) THEN {"shortcode"} ELSE {})
    \cup (IF service = "sso" THEN {"slug", "signingCert"} ELSE {})

FallbackFields(service, merged) == [path \in FallbackPaths(service, merged) |-> BaselineText[path]]

Merged(fields, others) ==
    [path \in DOMAIN fields \cup DOMAIN others |-> FieldOr(fields, path, FieldOr(others, path, Unset))]

\* mergeEnvFields, then the fallbacks.
DefaultFields(service, env, fileFields) ==
    LET merged == Merged(DefaultFromEnv(service, env, fileFields), fileFields)
    IN  Merged(merged, FallbackFields(service, merged))

---------------------------------------------------------------------------
(* Profiles. *)

\* SSO_URL itself for default, a page under its origin for the others; only Login reads it.
LoginUrl(service, env, entry) ==
    FieldOr(entry.fields, "loginUrl",
            IF service # "login" \/ "loginUrl" \notin DOMAIN env THEN Unset
            ELSE IF entry.id = DefaultId THEN CanonicalText[env["loginUrl"]] ELSE DerivedLogin[entry.id])

ResolveShortcode(entry, ghe) == IF ghe THEN "" ELSE FieldOr(entry.fields, "shortcode", Unset)

ResolveCap(entry) == FieldOr(entry.fields, "cap", IF entry.id = DefaultId THEN DefaultCap ELSE NewCap)

\* requiredFields: what the service cannot work without is reported, not refused.
RequiredPaths(service, ghe) ==
    (IF service = "sso" \/ (service = "login" /\ ghe) THEN {"slug"} ELSE {})
    \cup (IF service = "sso" THEN {"signingCert"} ELSE {})
    \cup (IF service # "login" /\ ~ghe THEN {"shortcode"} ELSE {})
    \cup (IF service = "proxy" THEN {"domain"} ELSE {})

\* loginBlockers: a login run also needs a client id, which has a built-in value.
ResolveProfile(service, env, entry) ==
    LET fields == entry.fields
        ghe == IsGhe(fields["baseUrl"])
    IN  [id |-> entry.id, baseUrl |-> fields["baseUrl"], slug |-> FieldOr(fields, "slug", Unset),
         shortcode |-> ResolveShortcode(entry, ghe), domain |-> FieldOr(fields, "domain", Unset),
         loginUrl |-> LoginUrl(service, env, entry), cap |-> ResolveCap(entry),
         blockers |-> RequiredPaths(service, ghe) \ DOMAIN fields]

\* The rules of one profile: an origin, the right shortcode, and a login page among the allowed ones.
ProfileAccepted(service, env, entry) ==
    /\ "baseUrl" \in DOMAIN entry.fields
    /\ LET ghe == IsGhe(entry.fields["baseUrl"])
           shortcode == FieldOr(entry.fields, "shortcode", Unset)
           page == LoginUrl(service, env, entry)
       IN  /\ ghe => shortcode \in {Unset, ""}
           /\ ~ghe => shortcode # ""
           /\ "allowedUrls" \in DOMAIN entry.fields /\ page # Unset => page = entry.fields["allowedUrls"]

\* assertUnique: an unset value collides with nothing; slugKey: a slug is one of its GitHub instance, in any case.
DistinctKeys(keyOf) ==
    \A p, q \in DOMAIN keyOf : p # q /\ keyOf[p] # Unset => keyOf[p] # keyOf[q]

UniqueProfiles(profiles) ==
    /\ DistinctKeys([p \in profiles |-> p.domain])
    /\ DistinctKeys([p \in profiles |-> p.loginUrl])
    /\ \A p, q \in profiles :
         p # q /\ Unset \notin {p.slug, q.slug} =>
             <<p.baseUrl, CanonicalText[p.slug]>> # <<q.baseUrl, CanonicalText[q.slug]>>

\* The only profile of an id, and what the caps sum up to.
ProfileIn(profiles, id) == CHOOSE p \in profiles : p.id = id
CapsWithinCatalog(profiles) ==
    SumFunction([id \in {p.id : p \in profiles} |-> ProfileIn(profiles, id).cap]) <= CatalogNames

---------------------------------------------------------------------------

Refused == {}

(***************************************************************************)
(* loadRegistry: the profiles of a service, or Refused when it cannot      *)
(* start.                                                                  *)
(***************************************************************************)
LoadRegistry(service, env, file) ==
    IF ~RegistryFileAccepted(file) THEN Refused
    ELSE LET entries     == ReadRegistryFile(file)
             listed      == {entry \in entries : entry.id = DefaultId}
             fileFields  == IF listed = {} THEN << >> ELSE (CHOOSE entry \in listed : TRUE).fields
             default     == [id |-> DefaultId, fields |-> DefaultFields(service, env, fileFields)]
             all         == (entries \ listed) \cup {default}
         IN  IF \/ Cardinality(listed) > 1
                \/ ~EnvAgrees(fileFields, DefaultFromEnv(service, env, fileFields))
                \/ Cardinality(all) > MaxEnterprises
                \/ \E entry, other \in all : entry # other /\ entry.id = other.id
                \/ \E entry \in all : ~ProfileAccepted(service, env, entry)
             THEN Refused
             ELSE LET profiles == {ResolveProfile(service, env, entry) : entry \in all}
                  IN  IF UniqueProfiles(profiles) /\ CapsWithinCatalog(profiles) THEN profiles ELSE Refused
=============================================================================
