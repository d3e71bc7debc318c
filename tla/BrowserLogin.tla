---------------------------- MODULE BrowserLogin ----------------------------
(***************************************************************************)
(* One device-flow login of the Login service: the device code, the        *)
(* headless browser that authorizes it and the poll for the token          *)
(* (login/src/auth/deviceFlow.ts and HeadlessPlaywrightAuthStrategy.ts).   *)
(*                                                                         *)
(* The page is a set of what its URL says (githubUrls.ts,                  *)
(* loginUrlAllowlist.ts).  It may navigate whenever a step is awaited, so  *)
(* `Navigate' interleaves with every step, and the answer of a click or of *)
(* a goto is wherever the page is when the next step looks.  The task's    *)
(* abort signal may fire at any step; closing the browser makes every      *)
(* awaited page operation reject (`Throw').                                *)
(***************************************************************************)
EXTENDS Naturals, FiniteSets

CONSTANTS
    SsoProvider,        \* "custom" or "azure"
    DeviceLifetime,     \* polls before expires_in passes
    DeviceAttempts      \* maxAttempts of requestDeviceCode

ASSUME BrowserAssumption == SsoProvider \in {"custom", "azure"} /\ {DeviceLifetime, DeviceAttempts} \subseteq Nat

VARIABLES
    gheCom,     \* the deployment is *.ghe.com, which opens the enterprise SSO page first
    loginAt,         \* the step that runs
    loginStage,      \* the stage named in authorize
    page,       \* what the current URL is
    chrome,     \* "none", "launching", "open" or "closed"
    closing,    \* the promise of closeBrowser: "no", "running" or "done"
    loginAborted,    \* the abort signal
    tries,      \* attempts of the loop that runs
    result,     \* how authorize ends: "none", "ok", "failed" or "aborted"
    flow,       \* what loginWithDeviceFlow returned
    typed,      \* of each field filled: was it on a page of the SSO, had the page moved since the check
    moved       \* the page has navigated since the field's check

browserVars == <<gheCom, loginAt, loginStage, page, chrome, closing, loginAborted, tries, result, flow, typed, moved>>
signalVars == <<chrome, closing, loginAborted>>
endVars == <<result, flow, gheCom>>

Pages == {"device", "select", "github", "interstitial", "sso", "provider", "foreign"}

isGitHubUrl(p) == p \in {"device", "select", "github", "interstitial"}
isGitHubSsoInterstitial(p) == p = "interstitial"
isGheComSignInPage(p) == gheCom /\ p = "github"
isSsoUrl(p) == p = "sso"
hasKnownProviderUrl(p) == SsoProvider = "azure" /\ p = "provider"
CredentialPage(p) == isSsoUrl(p) \/ hasKnownProviderUrl(p)

BrowserInit ==
    /\ gheCom \in BOOLEAN
    /\ loginAt = "request" /\ loginStage = "launch-browser" /\ page = "github"
    /\ chrome = "none" /\ closing = "no" /\ loginAborted = FALSE
    /\ tries = 1 /\ result = "none" /\ flow = "none" /\ typed = {}
    /\ moved = FALSE

-----------------------------------------------------------------------------
(* deviceFlow.ts *)

Return(f) == loginAt' = "returned" /\ flow' = f /\ UNCHANGED <<loginStage, page, signalVars, tries, result, gheCom, typed, moved>>

RequestDeviceCode ==
    /\ loginAt = "request"
    /\ \/ loginAborted /\ Return("aborted")
       \/ /\ ~loginAborted
          /\ loginAt' = "launch" /\ tries' = 1
          /\ UNCHANGED <<loginStage, page, signalVars, endVars, typed, moved>>
       \/ /\ ~loginAborted /\ tries < DeviceAttempts
          /\ tries' = tries + 1
          /\ UNCHANGED <<loginAt, loginStage, page, signalVars, endVars, typed, moved>>
       \/ \* the last refusal, or a fetch that rejects
          ~loginAborted /\ Return("failed")

\* The rest of loginWithDeviceFlow after authorize: its error propagates, and the
\* signal is looked at again before the first poll.
AfterAuthorize ==
    /\ loginAt = "authorized"
    /\ IF result = "ok" /\ ~loginAborted
         THEN loginAt' = "poll" /\ tries' = 0 /\ UNCHANGED <<loginStage, page, signalVars, endVars, typed, moved>>
         ELSE Return(IF result = "ok" THEN "aborted" ELSE result)

PollAccessToken ==
    /\ loginAt = "poll"
    /\ \/ loginAborted /\ Return("aborted")
       \/ ~loginAborted /\ tries >= DeviceLifetime /\ Return("timeout")
       \/ /\ ~loginAborted /\ tries < DeviceLifetime
          /\ \/ \E f \in {"token", "expired", "denied", "failed"} : Return(f)
             \/ \* authorization_pending and slow_down
                /\ tries' = tries + 1
                /\ UNCHANGED <<loginAt, loginStage, page, signalVars, endVars, typed, moved>>

-----------------------------------------------------------------------------
(* authorize: the browser and the abort signal *)

Go(p) == loginAt' = p /\ UNCHANGED <<signalVars, page, endVars, typed, moved>>
GoOn(p) == Go(p) /\ UNCHANGED <<loginStage, tries>>
GoStage(s, p) == Go(p) /\ loginStage' = s /\ tries' = 1

Launch ==
    /\ loginAt = "launch"
    /\ IF loginAborted THEN loginAt' = "catch" /\ UNCHANGED chrome
                  ELSE loginAt' = "launching" /\ chrome' = "launching"
    /\ UNCHANGED <<loginStage, page, closing, loginAborted, tries, endVars, typed, moved>>

\* chromium.launch settles.  The listener found no browser to close if the signal
\* fired meanwhile, so the signal is looked at once more.
Launched ==
    /\ loginAt = "launching"
    /\ \/ /\ chrome' = "open"
          /\ closing' = IF loginAborted THEN "running" ELSE closing
          /\ loginAt' = IF loginAborted THEN "catch" ELSE "context"
       \/ chrome' = "none" /\ loginAt' = "catch" /\ UNCHANGED closing
    /\ UNCHANGED <<loginStage, page, loginAborted, tries, endVars, typed, moved>>

Listening == loginAt \notin {"request", "finally", "closing", "authorized", "poll", "returned"}

AbortSignal ==
    /\ ~loginAborted /\ flow = "none"
    /\ loginAborted' = TRUE
    /\ closing' = IF Listening /\ chrome = "open" /\ closing = "no" THEN "running" ELSE closing
    /\ UNCHANGED <<loginAt, loginStage, page, chrome, tries, endVars, typed, moved>>

\* instance.close() succeeds, or fails on a browser that is no longer connected;
\* any other failure is retried.
CloseBrowser ==
    /\ closing = "running"
    /\ closing' = "done" /\ chrome' = "closed"
    /\ UNCHANGED <<loginAt, loginStage, page, loginAborted, tries, endVars, typed, moved>>

Open == chrome = "open"

Typing == {"type-username", "type-password"}

Navigate ==
    /\ Open /\ \E p \in Pages : page' = p
    /\ moved' = (loginAt \in Typing)
    /\ UNCHANGED <<loginAt, loginStage, signalVars, tries, endVars, typed>>

Driving == loginAt \notin {"request", "launch", "launching", "catch", "finally", "closing", "authorized", "poll", "returned"}

\* A page operation rejects: a missing control, a timeout, a closed browser.
Throw ==
    /\ Driving
    /\ GoOn("catch")

CatchLogin ==
    /\ loginAt = "catch"
    /\ loginAt' = "finally"
    /\ result' = IF loginAborted THEN "aborted" ELSE "failed"
    /\ UNCHANGED <<loginStage, page, signalVars, tries, flow, gheCom, typed, moved>>

Finally ==
    /\ loginAt = "finally"
    /\ loginAt' = "closing"
    /\ closing' = IF closing = "no" /\ Open THEN "running" ELSE closing
    /\ UNCHANGED <<loginStage, page, chrome, loginAborted, tries, endVars, typed, moved>>

Closed ==
    /\ loginAt = "closing" /\ closing # "running"
    /\ GoOn("authorized")

-----------------------------------------------------------------------------
(* authorize: the pages *)

NewPage ==
    /\ loginAt = "context" /\ Open
    /\ IF gheCom THEN GoStage("enterprise-sso-login", "sso-login")
                        ELSE GoStage("open-device-page", "goto-device")

openDevicePage ==
    /\ loginAt = "goto-device" /\ Open
    /\ GoStage("pre-device-login", "select")

\* completeLoginIfNeeded and submitDeviceCode both begin by picking the account.
selectGitHubDeviceAccountIfPresent ==
    /\ loginAt \in {"select", "reselect"} /\ Open
    /\ GoOn(IF loginAt = "reselect" THEN "check-url"
            ELSE IF loginStage = "device-code" THEN "await-form" ELSE "has-input")

\* The form is there, or it did not appear in half a second.
completeLoginIfNeeded ==
    /\ loginAt = "has-input" /\ Open
    /\ \/ page = "device" /\ GoOn("login-done")
       \/ gheCom /\ GoOn("need-sso")
       \/ ~gheCom /\ GoOn("github-login")

completeGitHubLogin ==
    /\ loginAt = "github-login" /\ Open
    /\ IF CredentialPage(page) THEN GoOn("need-sso")
       ELSE isGitHubUrl(page) /\ \E p \in {"sso-login", "need-sso"} : GoOn(p)

NeedSso ==
    /\ loginAt = "need-sso" /\ Open
    /\ IF CredentialPage(page) \/ isGitHubSsoInterstitial(page) \/ isGheComSignInPage(page)
         THEN Go("sso-login") /\ tries' = 1 /\ UNCHANGED loginStage
         ELSE GoOn("check-url")

CheckUrl ==
    /\ loginAt = "check-url" /\ Open
    /\ isGitHubUrl(page) \/ isSsoUrl(page)
    /\ GoOn("login-done")

LoginDone ==
    /\ loginAt = "login-done" /\ Open
    /\ IF loginStage = "pre-device-login" THEN GoStage("device-code", "select")
                                     ELSE GoStage("github-authorize", "authorize")

AfterSso == IF loginStage = "enterprise-sso-login" THEN GoStage("open-device-page", "goto-device") ELSE GoOn("reselect")

\* The loop of completeSsoLogin, two attempts to get to the SSO page.
completeSsoLogin ==
    /\ loginAt = "sso-login" /\ Open
    /\ IF CredentialPage(page) THEN GoOn("fill-username")
       ELSE IF tries > 2 \/ page = "device" THEN AfterSso
       ELSE GoOn("sso-continue")

continueGitHubSsoIfPresent ==
    /\ loginAt = "sso-continue" /\ Open
    /\ IF isSsoUrl(page) THEN GoOn("fill-username")
       ELSE IF page = "device" THEN AfterSso
       ELSE GoOn("sso-wait")

AwaitSso ==
    /\ loginAt = "sso-wait" /\ Open
    /\ IF CredentialPage(page) \/ isGitHubSsoInterstitial(page)
         THEN Go("sso-login") /\ tries' = tries + 1 /\ UNCHANGED loginStage
         ELSE AfterSso

TypingOf == [p \in {"fill-username", "fill-password"} |->
    IF p = "fill-username" THEN "type-username" ELSE "type-password"]

AfterFill == [p \in Typing |-> IF p = "type-username" THEN "fill-password" ELSE "await-return"]

Fill(checked) ==
    /\ loginAt \in {"fill-username", "fill-password"} /\ Open
    /\ checked
    /\ loginAt' = TypingOf[loginAt] /\ moved' = FALSE
    /\ UNCHANGED <<loginStage, page, signalVars, tries, endVars, typed>>

\* The page was looked at when the login began.
fillSsoFieldUnchecked == Fill(TRUE)

\* The control was awaited; the page is looked at right before typing.
fillSsoField == Fill(CredentialPage(page))

\* locator.fill is awaited: it fills what the locator finds when it runs.
fillFirst ==
    /\ loginAt \in Typing /\ Open
    /\ typed' = typed \cup {[sso |-> CredentialPage(page), moved |-> moved]}
    /\ loginAt' = AfterFill[loginAt] /\ moved' = FALSE
    /\ UNCHANGED <<loginStage, page, signalVars, tries, endVars>>

ReturnToGitHub ==
    /\ loginAt = "await-return" /\ Open
    /\ isGitHubUrl(page)
    /\ AfterSso

submitDeviceCode ==
    /\ loginAt = "await-form" /\ Open
    /\ isGitHubUrl(page)
    /\ GoStage("post-device-login", "select")

confirmGitHubAuthorization ==
    /\ loginAt = "authorize" /\ Open
    /\ isGitHubUrl(page)
    /\ loginAt' = "finally" /\ result' = "ok"
    /\ UNCHANGED <<loginStage, page, signalVars, tries, flow, gheCom, typed, moved>>

PageStep ==
    \/ NewPage \/ openDevicePage \/ selectGitHubDeviceAccountIfPresent
    \/ completeLoginIfNeeded \/ completeGitHubLogin \/ NeedSso \/ CheckUrl \/ LoginDone
    \/ completeSsoLogin \/ continueGitHubSsoIfPresent \/ AwaitSso \/ fillSsoField \/ fillFirst
    \/ ReturnToGitHub \/ submitDeviceCode \/ confirmGitHubAuthorization

FlowStep ==
    \/ RequestDeviceCode \/ Launch \/ Launched \/ PageStep \/ Throw \/ CatchLogin
    \/ Finally \/ Closed \/ AfterAuthorize \/ PollAccessToken

BrowserNext == FlowStep \/ CloseBrowser \/ AbortSignal \/ Navigate

-----------------------------------------------------------------------------
BrowserTypeOK ==
    /\ page \in Pages /\ typed \subseteq [sso : BOOLEAN, moved : BOOLEAN] /\ moved \in BOOLEAN
    /\ chrome \in {"none", "launching", "open", "closed"}
    /\ closing \in {"no", "running", "done"} /\ loginAborted \in BOOLEAN
    /\ tries \in 0..(DeviceAttempts + DeviceLifetime + 3)
    /\ result \in {"none", "ok", "failed", "aborted"}

\* SSO credentials are typed only into the enterprise's login pages, whatever the
\* page does while a control is awaited or between two fields: only a navigation
\* after the check of that very field (assertCredentialPage) and before its fill
\* brings them elsewhere.
CredentialsStayOnSso == \A t \in typed : t.sso \/ t.moved

\* When authorize has ended, its browser is gone: whatever it was doing when the
\* signal fired (chromium.launch, a close that fails, the trace), no second
\* attempt of the account finds the first one's browser.
NoBrowserIsLeft == loginAt \in {"authorized", "poll", "returned"} => chrome \in {"none", "closed"}

\* Credentials and browsers stay where they belong.
BrowserIsSafe == BrowserTypeOK /\ CredentialsStayOnSso /\ NoBrowserIsLeft

-----------------------------------------------------------------------------
(* Why they do. *)

\* chromium.launch is awaited in its own step, and the promise of closeBrowser
\* says whether the browser is gone.
BrowserIsKnown ==
    /\ chrome = "launching" <=> loginAt = "launching"
    /\ closing = "running" => Open
    /\ closing = "done" <=> chrome = "closed"
    /\ loginAt \in {"request", "launch"} => chrome = "none"
    /\ loginAt = "closing" /\ closing # "running" => ~Open

\* A field that is being filled was checked on the page it began on.
CheckedPage == loginAt \in Typing => CredentialPage(page) \/ moved

\* Each loop bounds its own attempts.
TriesAreBounded ==
    /\ loginAt = "request" => tries = 1 \/ tries <= DeviceAttempts
    /\ loginAt = "poll" => tries <= DeviceLifetime
    /\ loginAt \in {"sso-continue", "sso-wait"} => tries <= 2
    /\ loginAt \notin {"request", "poll", "returned"} => tries <= 3

BrowserInv ==
    /\ BrowserTypeOK /\ BrowserIsKnown /\ TriesAreBounded
    /\ CredentialsStayOnSso /\ NoBrowserIsLeft /\ CheckedPage

-----------------------------------------------------------------------------
\* Every login returns: pages that never arrive time out, polling stops with the
\* device code, and an abort closes the browser under whatever was awaited.
LoginReturns == <>(loginAt = "returned")

\* Fairness: every awaited operation has a timeout, so a step of the flow or its
\* rejection comes; closeBrowser retries until the browser is closed or gone.
BrowserSpec ==
    /\ BrowserInit /\ [][BrowserNext]_browserVars
    /\ WF_browserVars(FlowStep) /\ WF_browserVars(CloseBrowser)
=============================================================================
