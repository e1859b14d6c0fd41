----------------------------- MODULE UiPagesProofs -----------------------------
(***************************************************************************)
(* The session of a tab, the forms of the UI, its lists, its graphs and    *)
(* its alerts are safe, for any pages, languages and groups, any number of *)
(* tokens, loads, logins in flight and choices, any number of volumes,     *)
(* edits and submissions, any rows and words, any spans, outages and       *)
(* samples, and any alerts.                                                *)
(*                                                                         *)
(* None is inductive.  SessionSafe leans on the order in which a page      *)
(* comes to life (BootInv): there is a user only once the navbar is shown, *)
(* which is only once its script is ready, which is only after the         *)
(* configuration.  LoginInv says which login the Salt token will come from,*)
(* AskedInv what the tab remembers while it is at the provider, and        *)
(* DrawnInv what the navbar was drawn for.                                 *)
(*                                                                         *)
(* FormsSafe leans on what an open form is (GoodForm), on what the schema  *)
(* let into a batch (GoodBatch), which is still true of what is left of it *)
(* after any answer, and on the roles a createNode saga was given.         *)
(*                                                                         *)
(* ListsSafe leans on rows that come sorted by health (DataInv), so that an*)
(* unsorted table and one sorted by health look the same; on a query that  *)
(* tells the order whenever the effect is not due (SyncInv); and on what a *)
(* location still allows to replace (LoopInv).  That rows can be sorted at *)
(* all is the lemma SomeOrder.                                             *)
(*                                                                         *)
(* MetricsSafe leans on samples that are on the grid of the span they were *)
(* fetched for, and on a fetch that is always for the span of the store    *)
(* (MetricsInv).  What addMissingDataPoint draws of them is the lemma      *)
(* AllDrawn: the values are sorted (SeriesSorted), and the walk along the  *)
(* grid passes a value only at its own point (NoneSkipped).                *)
(*                                                                         *)
(* AlertsAgree leans on a count (LeftOver): removals take one alert each,  *)
(* the first of them a warning, and there are no more of them than critical*)
(* alerts (PairsHaveCriticals), so that one of these is left.              *)
(***************************************************************************)
EXTENDS UiPages, TLAPS, FiniteSetTheorems, SequenceTheorems,
        WellFoundedInduction

-----------------------------------------------------------------------------
(* The session.                                                            *)

BootInv ==
    /\ sStatus # "success" => sScript = "none"
    /\ sScript # "ready" => sShell = "off"
    /\ sUserData # 0 => sShell = "shown"
    /\ sUser # 0 => sScript = "ready"

\* The Salt token is the user's, or will be: a single login is in flight, and
\* it is that of the user.
LoginInv ==
    sUser # 0 /\ ~sOverlapped /\ ~sFailed =>
        \/ sLogins = S!Free /\ sSalt = sUser
        \/ \E s \in S!Slots : sLogins = [S!Free EXCEPT ![s] = sUser]

AskedInv == sWhere # "app" => sRedirectUrl = sAsked

DrawnInv ==
    sShell = "shown" => sDrawn \in Pages /\ (sDrawn = "alerts" <=> sUrl = "alerts")

PartsInv ==
    /\ S!TypeOK
    /\ sUser = sK8s
    /\ S!WaitsOnlyWithoutToken /\ S!LandsWhereAsked /\ S!PreferencesKept
    /\ BootInv /\ LoginInv /\ AskedInv /\ DrawnInv

-----------------------------------------------------------------------------
(* The invariant is strong enough.                                         *)

LEMMA SafeParts ==
    ASSUME S!SessionAssumption, PartsInv
    PROVE  S!SessionSafe
<1>1. S!ClientsAreOfUser
  <2>1. sUser # 0 => sStatus = "success" /\ sScript = "ready"
    BY DEF PartsInv, BootInv
  <2>2. (sUser # 0 /\ sLogins = S!Free /\ ~sOverlapped /\ ~sFailed) => sSalt = sUser
    <3> SUFFICES ASSUME sUser # 0, sLogins = S!Free, ~sOverlapped, ~sFailed,
                        NEW s \in S!Slots, sLogins = [S!Free EXCEPT ![s] = sUser]
                 PROVE  FALSE
      BY DEF PartsInv, LoginInv
    <3>1. sLogins[s] = sUser /\ sLogins[s] = 0
      BY DEF S!Free
    <3> QED BY <3>1
  <2> QED BY <2>1, <2>2 DEF PartsInv, S!ClientsAreOfUser
<1>2. S!MenuTellsPage
  <2> SUFFICES ASSUME sShell = "shown" PROVE S!SelectedOn(sDrawn) = S!SelectedOn(sUrl)
    BY DEF S!MenuTellsPage
  <2>1. sDrawn \in Pages /\ sUrl \in Pages /\ (sDrawn = "alerts" <=> sUrl = "alerts")
    BY DEF PartsInv, DrawnInv, S!TypeOK
  <2>2. /\ S!Menu["platform"].active = Pages \ {"alerts"}
        /\ S!Menu["alerts"].active = {"alerts"}
    BY DEF S!Menu, S!Entry
  <2>3. \A e \in S!Tabs : sDrawn \in S!Menu[e].active <=> sUrl \in S!Menu[e].active
    BY <2>1, <2>2 DEF S!Tabs
  <2> QED BY <2>3 DEF S!SelectedOn
<1> QED BY <1>1, <1>2 DEF PartsInv, S!SessionSafe

-----------------------------------------------------------------------------
(* A load of the page.                                                     *)

LEMMA FreshType ==
    ASSUME S!SessionAssumption, S!FreshPage
    PROVE  /\ {sUserData', sUser', sK8s', sSalt'} \subseteq 0..MaxTokens
           /\ sLogins' \in [S!Slots -> 0..MaxTokens]
BY DEF S!SessionAssumption, S!FreshPage, S!Free

\* Whatever the tab does when a page is loaded again, the page starts from
\* nothing, and localStorage keeps what it has.
LEMMA FreshStep ==
    ASSUME S!SessionAssumption, PartsInv, S!FreshPage,
           sWhere' \in {"app", "provider", "callback"},
           sUrl' \in Pages, sAsked' \in Pages, sRedirectUrl' \in Pages \cup {NoPage},
           sStored' \in 0..MaxTokens, sIssued' \in 0..MaxTokens,
           sWhere' = "app" => sUrl' = sAsked',
           sWhere' # "app" => sRedirectUrl' = sAsked'
    PROVE  PartsInv'
<1>1. S!TypeOK'
  BY FreshType
     DEF S!FreshPage, S!SessionAssumption, PartsInv, S!TypeOK, S!Themes
<1>2. /\ sUser' = sK8s' /\ S!WaitsOnlyWithoutToken' /\ S!LandsWhereAsked'
      /\ S!PreferencesKept'
  BY DEF S!FreshPage, S!WaitsOnlyWithoutToken, S!LandsWhereAsked,
         S!PreferencesKept
<1>3. BootInv' /\ LoginInv' /\ AskedInv' /\ DrawnInv'
  BY DEF S!FreshPage, BootInv, LoginInv, AskedInv, DrawnInv
<1> QED BY <1>1, <1>2, <1>3 DEF PartsInv

LEMMA InitPartsInv ==
    ASSUME S!SessionAssumption, S!Init
    PROVE  PartsInv
<1>1. /\ {sUserData, sUser, sK8s, sSalt, sStored, sIssued} \subseteq 0..MaxTokens
      /\ sLogins \in [S!Slots -> 0..MaxTokens]
  BY DEF S!SessionAssumption, S!Init, S!Free
<1>2. S!TypeOK
  BY <1>1 DEF S!Init, S!SessionAssumption, S!TypeOK, S!Themes
<1>3. /\ sUser = sK8s /\ S!WaitsOnlyWithoutToken /\ S!LandsWhereAsked
      /\ S!PreferencesKept
  BY DEF S!Init, S!WaitsOnlyWithoutToken, S!LandsWhereAsked, S!PreferencesKept
<1>4. BootInv /\ LoginInv /\ AskedInv /\ DrawnInv
  BY DEF S!Init, BootInv, LoginInv, AskedInv, DrawnInv
<1> QED BY <1>2, <1>3, <1>4 DEF PartsInv

LEMMA FreshSteps ==
    ASSUME S!SessionAssumption, PartsInv,
           \/ S!SignIn \/ S!OnSignIn \/ S!LogOut
           \/ \E p \in Pages : S!Open(p)
           \/ \E e \in DOMAIN S!Menu : S!FollowMenu(e)
    PROVE  PartsInv'
<1> USE DEF PartsInv, S!TypeOK
<1>1. CASE S!SignIn
  BY <1>1, FreshStep DEF S!SignIn, S!LandsWhereAsked
<1>2. CASE S!OnSignIn
  <2>1. sRedirectUrl # NoPage /\ sRedirectUrl = sAsked
    BY <1>2 DEF S!OnSignIn, AskedInv, S!SessionAssumption
  <2>2. sIssued' \in 0..MaxTokens /\ sStored' = sIssued'
    BY <1>2 DEF S!OnSignIn, S!SessionAssumption
  <2> QED BY <1>2, <2>1, <2>2, FreshStep DEF S!OnSignIn
<1>3. CASE S!LogOut
  <2>1. sStored' \in 0..MaxTokens
    BY <1>3 DEF S!LogOut, S!SessionAssumption
  <2> QED BY <1>3, <2>1, FreshStep DEF S!LogOut, S!LandsWhereAsked
<1>4. ASSUME NEW p \in Pages, S!Open(p) PROVE PartsInv'
  BY <1>4, FreshStep DEF S!Open
<1>5. ASSUME NEW e \in DOMAIN S!Menu, S!FollowMenu(e) PROVE PartsInv'
  <2>1. S!Menu[e].page \in Pages
    BY DEF S!Menu, S!Entry, S!SessionAssumption
  <2> QED BY <1>4, <1>5, <2>1 DEF S!FollowMenu
<1> QED BY <1>1, <1>2, <1>3, <1>4, <1>5

-----------------------------------------------------------------------------
(* Loading, step by step.                                                  *)

LEMMA LoadingSteps ==
    ASSUME S!SessionAssumption, PartsInv,
           \/ S!FetchConfig
           \/ \E ok \in BOOLEAN : S!ConfigAnswered(ok) \/ S!ScriptAnswered(ok)
    PROVE  PartsInv'
<1> USE DEF S!tab, S!clients, S!nodesIPs, S!prefs, S!menu
<1>1. UNCHANGED <<S!tab, S!clients, S!nodesIPs, S!menu, sLang, sSavedLang, sUiLang, sTheme,
                  sSavedTheme, sUiTheme, sSavedExpanded>>
  BY DEF S!FetchConfig, S!ConfigAnswered, S!ScriptAnswered, S!boot
<1>2. CASE S!FetchConfig
  <2>1. /\ sStatus = "idle" /\ sStatus' = "loading" /\ UNCHANGED <<sScript, sShell>>
        /\ sExpanded' = IF sSavedExpanded = NoPage THEN sExpanded ELSE sSavedExpanded
    BY <1>2 DEF S!FetchConfig
  <2>2. S!TypeOK' /\ S!PreferencesKept'
    BY <1>1, <2>1 DEF PartsInv, S!TypeOK, S!PreferencesKept
  <2>3. BootInv' /\ DrawnInv'
    BY <1>1, <2>1 DEF PartsInv, BootInv, DrawnInv
  <2> QED
    BY <1>1, <2>2, <2>3
       DEF PartsInv, LoginInv, AskedInv, S!WaitsOnlyWithoutToken,
           S!LandsWhereAsked
<1>3. ASSUME NEW ok \in BOOLEAN, S!ConfigAnswered(ok) PROVE PartsInv'
  <2>1. /\ sStatus = "loading" /\ UNCHANGED <<sShell, S!prefs>>
        /\ sStatus' = IF ok THEN "success" ELSE "error"
        /\ sScript' = IF ok THEN "loading" ELSE "none"
    BY <1>3 DEF S!ConfigAnswered
  <2>2. S!TypeOK' /\ S!PreferencesKept'
    BY <1>1, <2>1 DEF PartsInv, S!TypeOK, S!PreferencesKept
  <2>3. BootInv' /\ DrawnInv'
    BY <1>1, <2>1 DEF PartsInv, BootInv, DrawnInv
  <2> QED
    BY <1>1, <2>2, <2>3
       DEF PartsInv, LoginInv, AskedInv, S!WaitsOnlyWithoutToken,
           S!LandsWhereAsked
<1>4. ASSUME NEW ok \in BOOLEAN, S!ScriptAnswered(ok) PROVE PartsInv'
  <2>1. /\ sScript = "loading" /\ UNCHANGED <<sStatus, S!prefs>>
        /\ sScript' = IF ok THEN "ready" ELSE "failed"
        /\ sShell' = IF ok THEN "loading" ELSE "off"
    BY <1>4 DEF S!ScriptAnswered
  <2>2. S!TypeOK' /\ S!PreferencesKept'
    BY <1>1, <2>1 DEF PartsInv, S!TypeOK, S!PreferencesKept
  <2>3. BootInv' /\ DrawnInv'
    BY <1>1, <2>1 DEF PartsInv, BootInv, DrawnInv
  <2> QED
    BY <1>1, <2>2, <2>3
       DEF PartsInv, LoginInv, AskedInv, S!WaitsOnlyWithoutToken,
           S!LandsWhereAsked
<1> QED BY <1>2, <1>3, <1>4

\* The navbar is shown with what localStorage holds, and tells the UI.
LEMMA NavbarStep ==
    ASSUME S!SessionAssumption, PartsInv, NEW ok \in BOOLEAN, NEW l \in Langs,
           S!NavbarAnswered(ok, l)
    PROVE  PartsInv'
<1> USE DEF S!tab, S!clients, S!nodesIPs
<1>1. /\ sShell = "loading" /\ sShell' = IF ok THEN "shown" ELSE "error"
      /\ UNCHANGED <<S!tab, sStatus, sScript, S!clients, S!nodesIPs, sSavedLang,
                     sExpanded, sSavedExpanded, sGroups>>
      /\ sDrawn' = IF ok THEN sUrl ELSE NoPage
  BY DEF S!NavbarAnswered, S!Draw
<1>2. sUserData = 0 /\ sScript = "ready"
  BY <1>1 DEF PartsInv, BootInv
<1>3. \/ ok /\ sLang' = (IF sSavedLang = NoPage THEN l ELSE sSavedLang) /\ sUiLang' = sLang'
            /\ sTheme' = (IF sSavedTheme = NoPage THEN "darkRebrand" ELSE sSavedTheme)
            /\ sSavedTheme' = sTheme' /\ sUiTheme' = sTheme'
      \/ ~ok /\ UNCHANGED <<sLang, sUiLang, sTheme, sSavedTheme, sUiTheme>>
  BY DEF S!NavbarAnswered
<1>4. S!TypeOK'
  BY <1>1, <1>3 DEF PartsInv, S!TypeOK, S!Themes
<1>5. S!PreferencesKept'
  BY <1>1, <1>3 DEF PartsInv, S!PreferencesKept, S!TypeOK
<1>6. BootInv' /\ DrawnInv'
  BY <1>1, <1>2 DEF PartsInv, BootInv, DrawnInv, S!TypeOK
<1> QED
  BY <1>1, <1>4, <1>5, <1>6
     DEF PartsInv, LoginInv, AskedInv, S!WaitsOnlyWithoutToken,
         S!LandsWhereAsked

-----------------------------------------------------------------------------
(* Users and the Salt API.                                                 *)

\* A new user: the clients are his at once, and so is the login that starts,
\* unless an older one is still in flight.
LEMMA NewUserStep ==
    ASSUME S!SessionAssumption, PartsInv, NEW g \in 0..MaxTokens, g # 0,
           S!UpdateApiServerConfig(g), sShell = "shown", sUserData' = g,
           sStored' \in 0..MaxTokens, sIssued' \in 0..MaxTokens, S!Draw(sUrl),
           UNCHANGED <<sWhere, sUrl, sAsked, sRedirectUrl, S!boot, S!nodesIPs, S!prefs>>
    PROVE  PartsInv'
<1> USE DEF S!boot, S!nodesIPs, S!prefs
<1>1. PICK s \in S!Slots :
        /\ sLogins[s] = 0 /\ sUser' = g /\ sK8s' = g
        /\ sLogins' = [sLogins EXCEPT ![s] = g]
        /\ sOverlapped' = (sLogins # S!Free) /\ sFailed' = FALSE
        /\ UNCHANGED sSalt
  BY DEF S!UpdateApiServerConfig
<1>2. sDrawn' = sUrl /\ UNCHANGED sGroups
  BY DEF S!Draw
<1>3. sScript = "ready" /\ sStatus = "success"
  BY DEF PartsInv, BootInv
<1>4. S!TypeOK'
  <2>1. sLogins' \in [S!Slots -> 0..MaxTokens]
    BY <1>1 DEF PartsInv, S!TypeOK
  <2>2. sOverlapped' \in BOOLEAN /\ sFailed' \in BOOLEAN
    BY <1>1
  <2> QED BY <1>1, <1>2, <2>1, <2>2 DEF PartsInv, S!TypeOK
<1>5. BootInv' /\ DrawnInv'
  BY <1>2, <1>3 DEF PartsInv, BootInv, DrawnInv, S!TypeOK
<1>6. LoginInv'
  <2> SUFFICES ASSUME ~sOverlapped'
               PROVE  sLogins' = [S!Free EXCEPT ![s] = sUser']
    BY DEF LoginInv
  <2> QED BY <1>1
<1> QED
  BY <1>1, <1>4, <1>5, <1>6
     DEF PartsInv, AskedInv, S!WaitsOnlyWithoutToken, S!LandsWhereAsked,
         S!PreferencesKept

LEMMA UserSteps ==
    ASSUME S!SessionAssumption, PartsInv, S!UserLoaded \/ S!Renewed \/ S!UserGone
    PROVE  PartsInv'
<1> USE DEF S!tab
<1>1. CASE S!UserLoaded
  BY <1>1, NewUserStep DEF S!UserLoaded, PartsInv, S!TypeOK
<1>2. CASE S!Renewed
  <2>1. sShell = "shown"
    BY <1>2 DEF S!Renewed, PartsInv, BootInv
  <2>2. sIssued' \in 0..MaxTokens /\ sIssued' # 0
    BY <1>2 DEF S!Renewed, PartsInv, S!TypeOK, S!SessionAssumption
  <2> QED BY <1>2, <2>1, <2>2, NewUserStep DEF S!Renewed
<1>3. CASE S!UserGone
  <2> USE DEF S!boot, S!nodesIPs, S!prefs
  <2>1. /\ sStored' = 0 /\ sUserData' = 0 /\ sDrawn' = sUrl
        /\ UNCHANGED <<sGroups, sWhere, sUrl, sAsked, sRedirectUrl, sIssued, S!boot, sUser,
                       sK8s, sLogins, sSalt, sOverlapped, sFailed, S!nodesIPs, S!prefs>>
    BY <1>3 DEF S!UserGone, S!Draw
  <2>2. S!TypeOK'
    BY <2>1 DEF PartsInv, S!TypeOK, S!SessionAssumption
  <2>3. BootInv' /\ DrawnInv' /\ LoginInv'
    BY <2>1 DEF PartsInv, BootInv, DrawnInv, LoginInv, S!TypeOK
  <2> QED
    BY <2>1, <2>2, <2>3
       DEF PartsInv, AskedInv, S!WaitsOnlyWithoutToken, S!LandsWhereAsked,
           S!PreferencesKept
<1> QED BY <1>1, <1>2, <1>3

\* The answer to a login: if it is the only one in flight it is the user's, and
\* the token is set or the login has failed.
LEMMA LoginStep ==
    ASSUME S!SessionAssumption, PartsInv, NEW s \in S!Slots, NEW ok \in BOOLEAN,
           S!LoginAnswered(s, ok)
    PROVE  PartsInv'
<1> USE DEF S!menu, S!tab, S!boot, S!prefs
<1>1. /\ sLogins[s] # 0 /\ sLogins' = [sLogins EXCEPT ![s] = 0]
      /\ sSalt' = IF ok THEN sLogins[s] ELSE sSalt
      /\ sFailed' = (sFailed \/ (~ok /\ sLogins[s] = sUser))
      /\ sIpsFetch' = IF ok /\ sIpsFetch = "waiting" THEN "asking" ELSE sIpsFetch
      /\ UNCHANGED <<S!menu, S!tab, S!boot, sUserData, sUser, sK8s, sOverlapped, sIps, S!prefs>>
  BY DEF S!LoginAnswered
<1>2. S!TypeOK'
  <2>1. /\ sLogins' \in [S!Slots -> 0..MaxTokens]
        /\ sSalt' \in 0..MaxTokens
    BY <1>1 DEF PartsInv, S!TypeOK, S!SessionAssumption
  <2>2. sFailed' \in BOOLEAN
    BY <1>1 DEF PartsInv, S!TypeOK
  <2> QED BY <1>1, <2>1, <2>2 DEF PartsInv, S!TypeOK
<1>3. S!WaitsOnlyWithoutToken'
  BY <1>1 DEF PartsInv, S!WaitsOnlyWithoutToken
<1>4. LoginInv'
  <2> SUFFICES ASSUME sUser # 0, ~sOverlapped, ~sFailed'
               PROVE  sLogins' = S!Free /\ sSalt' = sUser
    BY <1>1 DEF LoginInv
  <2>1. ~sFailed /\ ~(~ok /\ sLogins[s] = sUser)
    BY <1>1
  <2>2. \E r \in S!Slots : sLogins = [S!Free EXCEPT ![r] = sUser]
    BY <1>1, <2>1 DEF PartsInv, LoginInv, S!Free
  <2>3. sLogins[s] = sUser /\ sLogins = [S!Free EXCEPT ![s] = sUser]
    BY <1>1, <2>2 DEF S!Free
  <2>4. sLogins' = S!Free
    BY <1>1, <2>3 DEF S!Free
  <2> QED BY <1>1, <2>1, <2>3, <2>4
<1> QED
  BY <1>1, <1>2, <1>3, <1>4
     DEF PartsInv, BootInv, DrawnInv, AskedInv, S!LandsWhereAsked,
         S!PreferencesKept

-----------------------------------------------------------------------------
(* The other steps.                                                        *)

LEMMA IPsSteps ==
    ASSUME S!SessionAssumption, PartsInv,
           \/ S!FetchNodesIPsInterface \/ S!IPsTimeout
           \/ \E ok \in BOOLEAN : S!IPsAnswered(ok)
    PROVE  PartsInv'
<1> USE DEF S!menu, S!tab, S!boot, S!clients, S!prefs
<1>1. /\ UNCHANGED <<S!menu, S!tab, S!boot, S!clients, S!prefs>>
      /\ sIpsFetch' \in {"off", "waiting", "asking"}
      /\ sIps' \in BOOLEAN
      /\ sIpsFetch' = "waiting" => sSalt = 0
  BY DEF S!FetchNodesIPsInterface, S!IPsTimeout, S!IPsAnswered, PartsInv,
         S!TypeOK
<1> QED
  BY <1>1
     DEF PartsInv, S!TypeOK, BootInv, DrawnInv, LoginInv, AskedInv,
         S!WaitsOnlyWithoutToken, S!LandsWhereAsked, S!PreferencesKept

LEMMA MovingSteps ==
    ASSUME S!SessionAssumption, PartsInv,
           S!Authorised \/ S!Redraw \/ \E p \in Pages : S!GoTo(p)
    PROVE  PartsInv'
<1> USE DEF S!tab, S!boot, S!clients, S!nodesIPs, S!prefs, S!menu
<1>1. /\ UNCHANGED <<sRedirectUrl, sStored, sIssued, S!boot, S!clients, S!nodesIPs,
                     S!prefs, sGroups>>
      /\ sUrl' \in Pages /\ sAsked' \in Pages
      /\ sWhere' \in {"app", "provider", "callback"}
  BY DEF S!Authorised, S!Redraw, S!GoTo, S!Draw, PartsInv, S!TypeOK
<1>2. CASE S!Authorised
  BY <1>1, <1>2
     DEF S!Authorised, PartsInv, S!TypeOK, BootInv, DrawnInv, LoginInv,
         AskedInv, S!WaitsOnlyWithoutToken, S!LandsWhereAsked,
         S!PreferencesKept
<1>3. CASE S!Redraw
  BY <1>1, <1>3
     DEF S!Redraw, S!Draw, PartsInv, S!TypeOK, BootInv, DrawnInv, LoginInv,
         AskedInv, S!WaitsOnlyWithoutToken, S!LandsWhereAsked,
         S!PreferencesKept
<1>4. ASSUME NEW p \in Pages, S!GoTo(p) PROVE PartsInv'
  BY <1>1, <1>4
     DEF S!GoTo, PartsInv, S!TypeOK, BootInv, DrawnInv, LoginInv, AskedInv,
         S!WaitsOnlyWithoutToken, S!LandsWhereAsked, S!PreferencesKept
<1> QED BY <1>2, <1>3, <1>4

LEMMA ChoiceSteps ==
    ASSUME S!SessionAssumption, PartsInv,
           \/ \E l \in Langs : S!SetLanguage(l)
           \/ \E t \in S!Themes : S!SetTheme(t)
           \/ S!ToggleSideBar
    PROVE  PartsInv'
<1> USE DEF S!tab, S!boot, S!clients, S!nodesIPs
<1>1. /\ UNCHANGED <<S!tab, S!boot, S!clients, S!nodesIPs, sGroups>>
      /\ sDrawn' = sDrawn \/ sDrawn' = sUrl
  BY DEF S!SetLanguage, S!SetTheme, S!ToggleSideBar, S!Draw, S!menu
<1>2. BootInv' /\ DrawnInv' /\ LoginInv' /\ AskedInv' /\ sUser' = sK8s'
      /\ S!WaitsOnlyWithoutToken' /\ S!LandsWhereAsked'
  BY <1>1 DEF PartsInv, S!TypeOK, BootInv, DrawnInv, LoginInv, AskedInv,
              S!WaitsOnlyWithoutToken, S!LandsWhereAsked
<1>3. S!TypeOK' /\ S!PreferencesKept'
  <2>1. ASSUME NEW l \in Langs, S!SetLanguage(l) PROVE S!TypeOK' /\ S!PreferencesKept'
    BY <1>1, <2>1 DEF S!SetLanguage, PartsInv, S!TypeOK, S!PreferencesKept
  <2>2. ASSUME NEW t \in S!Themes, S!SetTheme(t) PROVE S!TypeOK' /\ S!PreferencesKept'
    BY <1>1, <2>2 DEF S!SetTheme, PartsInv, S!TypeOK, S!PreferencesKept
  <2>3. CASE S!ToggleSideBar
    BY <1>1, <2>3 DEF S!ToggleSideBar, PartsInv, S!TypeOK, S!PreferencesKept
  <2> QED BY <2>1, <2>2, <2>3
<1> QED BY <1>2, <1>3 DEF PartsInv

LEMMA NextPartsInv ==
    ASSUME S!SessionAssumption, PartsInv, [S!Next]_S!vars
    PROVE  PartsInv'
<1>1. CASE UNCHANGED S!vars
  BY <1>1
     DEF S!vars, S!tab, S!boot, S!clients, S!nodesIPs, S!prefs, S!menu,
         PartsInv, S!TypeOK, BootInv, DrawnInv, LoginInv, AskedInv,
         S!WaitsOnlyWithoutToken, S!LandsWhereAsked, S!PreferencesKept
<1> QED
  BY <1>1, FreshSteps, LoadingSteps, NavbarStep, UserSteps, LoginStep,
     IPsSteps, MovingSteps, ChoiceSteps
     DEF S!Next

\* For any pages, languages and groups, any number of tokens, loads, logins and
\* choices: the clients are those of the user, nobody waits for a connection
\* that was announced, the tab lands where the user asked, preferences last,
\* and the menu tells the page.
THEOREM SessionIsSafe ==
    ASSUME S!SessionAssumption
    PROVE  S!Spec => []SessionSafe
<1>1. S!Init => PartsInv
  BY InitPartsInv
<1>2. PartsInv /\ [S!Next]_S!vars => PartsInv'
  BY NextPartsInv
<1>3. PartsInv => S!SessionSafe
  BY SafeParts
<1> QED BY <1>1, <1>2, <1>3, PTL DEF S!Spec, SessionSafe

-----------------------------------------------------------------------------
(* The forms.                                                              *)

\* A name of a row, its path, and a row.
Names == {"", "a", "A"} \X Nat
Paths == {"", "vd", "sd", "rel"} \X Nat
Row == [name: Names, path: Paths, nameTouched: BOOLEAN, pathTouched: BOOLEAN]
OpenForm ==
    [open: {TRUE}, name: {"", "a", "A"}, node: BOOLEAN, storageClass: BOOLEAN,
     type: F!Types, path: {"", "vd", "sd", "rel"}, size: {"", "0", "1"},
     labels: SUBSET {"k"}, labelName: {"", "k", "k&"}, multi: BOOLEAN,
     number: Nat, rows: Seq(Row), hung: BOOLEAN]

\* An open form has as many rows as the number says, and does not hang.
GoodForm(f) ==
    /\ f \in OpenForm
    /\ ~f.hung
    /\ f.number % 2 = 0
    /\ 2 * Len(f.rows) = f.number

PageInv == /\ fClasses \in BOOLEAN /\ fNodes \in BOOLEAN
           /\ fForm = F!Closed \/ GoodForm(fForm)

\* What a batch has left to create went through the schema.
Vol == [name: Names, path: {"", "vd", "sd", "rel"}]
Batch == [vols: Seq(Vol), type: F!Types, size: {"", "0", "1"},
          storageClass: BOOLEAN, labels: SUBSET {"k"}, live: BOOLEAN]
GoodBatch(b) ==
    /\ b \in Batch /\ b.vols # <<>>
    /\ b.type = "sparseLoopDevice" => b.size = "1"
    /\ \A i \in DOMAIN b.vols :
         b.vols[i].name = F!Empty \/ F!ValidName(b.vols[i].name)

\* A Volume is posted for a batch; a request without its saga was abandoned.
SagaInv == /\ fBatch # F!Nothing => GoodBatch(fBatch)
           /\ fCall # F!Nothing => fBatch # F!Nothing
           /\ fUnheard \subseteq fAbandoned
           /\ F!PostsAreComplete /\ F!NothingSilent

\* The roles that were ticked are known ones, and at least one was.
Ask == [id: Nat, boxes: {b \in SUBSET F!RoleBoxes : b # {}},
        phase: {"posted", "reading"}]
NodeInv == /\ fNodeForm \in [roles: SUBSET F!RoleBoxes, filled: BOOLEAN]
           /\ fAsked \subseteq Ask
           /\ fSubmits \in Nat
           /\ F!RolesAsTicked

FormsInv == PageInv /\ SagaInv /\ NodeInv


-----------------------------------------------------------------------------
\* A row is a row whatever is written in its fields.
LEMMA RowWith ==
    ASSUME NEW r \in Row, NEW n \in Names, NEW p \in Paths
    PROVE  [r EXCEPT !.name = n, !.path = p] \in Row
BY DEF Row

LEMMA EmptyRowType == F!EmptyRow \in Row /\ F!Empty \in Names /\ F!Empty \in Paths
<1>1. F!Empty \in Names /\ F!Empty \in Paths
  BY DEF F!Empty, Names, Paths
<1> QED BY <1>1 DEF F!EmptyRow, Row

\* A function on the first numbers is a sequence.
LEMMA SeqOf ==
    ASSUME NEW T, NEW n \in Nat, NEW f \in [1..n -> T]
    PROVE  f \in Seq(T) /\ Len(f) = n
OBVIOUS

\* What a good form has.
LEMMA GoodFields ==
    ASSUME NEW f, GoodForm(f)
    PROVE  /\ f \in OpenForm /\ f.rows \in Seq(Row)
           /\ Len(f.rows) \in Nat /\ DOMAIN f.rows = 1..Len(f.rows)
           /\ \A i \in DOMAIN f.rows : f.rows[i] \in Row /\ i \in Nat \ {0}
           /\ f.number \in Nat /\ f.number % 2 = 0 /\ 2 * Len(f.rows) = f.number
           /\ f.name \in {"", "a", "A"} /\ f.path \in {"", "vd", "sd", "rel"}
           /\ f.type \in F!Types /\ f.size \in {"", "0", "1"} /\ ~f.hung
<1>1. f \in OpenForm
  BY DEF GoodForm
<1>2. f.rows \in Seq(Row) /\ f.number \in Nat
      /\ f.name \in {"", "a", "A"} /\ f.path \in {"", "vd", "sd", "rel"}
      /\ f.type \in F!Types /\ f.size \in {"", "0", "1"}
  BY <1>1 DEF OpenForm
<1>3. PICK s : s = f.rows /\ s \in Seq(Row)
  BY <1>2
<1>4. /\ Len(s) \in Nat /\ DOMAIN s = 1..Len(s)
      /\ \A i \in DOMAIN s : s[i] \in Row /\ i \in Nat \ {0}
  BY <1>3
<1> QED BY <1>1, <1>2, <1>3, <1>4 DEF GoodForm

\* A good form stays good with as many other rows.
LEMMA GoodWithRows ==
    ASSUME NEW f, GoodForm(f), NEW rows \in Seq(Row), Len(rows) = Len(f.rows)
    PROVE  GoodForm([f EXCEPT !.rows = rows])
BY GoodFields DEF GoodForm, OpenForm

\* Filling rows by default keeps a good form good.
LEMMA RecommendedGood ==
    ASSUME NEW f, GoodForm(f)
    PROVE  GoodForm(F!Recommended(f))
<1> DEFINE rows == [i \in DOMAIN f.rows |-> F!RowFilled(f, f.rows[i], i)]
<1>1. DOMAIN f.rows = 1..Len(f.rows) /\ Len(f.rows) \in Nat
      /\ f \in OpenForm /\ f.name \in {"", "a", "A"}
  BY GoodFields
<1>2. ASSUME NEW i \in DOMAIN f.rows
      PROVE  F!RowFilled(f, f.rows[i], i) \in Row
  <2>1. f.rows[i] \in Row /\ i \in Nat /\ i - 1 \in Nat
    <3>1. i \in Nat \ {0} /\ f.rows[i] \in Row
      BY GoodFields
    <3> QED BY <3>1
  <2>2. F!BatchName(f.name, i) \in Names
    BY <1>1, <2>1 DEF F!BatchName, Names
  <2>3. F!NextDrive(f.path, i - 1) \in Paths
    <3>1. f.path \in {"", "vd", "sd", "rel"}
      BY <1>1 DEF OpenForm
    <3> QED BY <2>1, <3>1, EmptyRowType DEF F!NextDrive, Paths
  <2>4. f.rows[i].name \in Names /\ f.rows[i].path \in Paths
    BY <2>1 DEF Row
  <2> DEFINE n == IF f.name # "" /\ f.rows[i].name = F!Empty
                  THEN F!BatchName(f.name, i) ELSE f.rows[i].name
             p == IF f.type = "rawBlockDevice" /\ f.path # ""
                     /\ f.rows[i].path = F!Empty
                  THEN F!NextDrive(f.path, i - 1) ELSE f.rows[i].path
  <2>5. /\ n \in Names /\ p \in Paths
        /\ F!RowFilled(f, f.rows[i], i) = [f.rows[i] EXCEPT !.name = n, !.path = p]
    BY <2>2, <2>3, <2>4 DEF F!RowFilled
  <2> HIDE DEF n, p
  <2>6. PICK r \in Row : r = f.rows[i]
    BY <2>1
  <2>7. [r EXCEPT !.name = n, !.path = p] \in Row
    BY <2>5, RowWith
  <2> QED BY <2>5, <2>6, <2>7
<1>3. rows \in Seq(Row) /\ Len(rows) = Len(f.rows)
  <2>1. rows \in [1..Len(f.rows) -> Row]
    BY <1>1, <1>2
  <2> QED BY <1>1, <2>1, SeqOf
<1>4. CASE ~f.multi \/ f.number > 2 * MaxBatch
  BY <1>4 DEF F!Recommended
<1>5. CASE ~(~f.multi \/ f.number > 2 * MaxBatch)
  <2>1. F!Recommended(f) = [f EXCEPT !.rows = rows]
    BY <1>5 DEF F!Recommended
  <2> QED BY <1>3, <2>1, GoodWithRows
<1> QED BY <1>4, <1>5

\* An edit leaves the form good when what it was asked to be is.
LEMMA EditGood ==
    ASSUME NEW f, GoodForm(f), F!Edit(f)
    PROVE  GoodForm(fForm')
BY RecommendedGood DEF F!Edit

\* The fields of the form.
LEMMA TypeFieldGood ==
    ASSUME GoodForm(fForm), F!TypeField
    PROVE  GoodForm(fForm')
<1>1. ASSUME NEW n \in {"", "a", "A"}
      PROVE  GoodForm([fForm EXCEPT !.name = n])
  BY DEF GoodForm, OpenForm
<1>2. ASSUME NEW t \in F!Types
      PROVE  GoodForm([fForm EXCEPT !.type = t])
  BY DEF GoodForm, OpenForm
<1>3. ASSUME NEW p \in {"", "vd", "sd", "rel"}
      PROVE  GoodForm([fForm EXCEPT !.path = p])
  BY DEF GoodForm, OpenForm
<1>4. ASSUME NEW z \in {"", "0", "1"}
      PROVE  GoodForm([fForm EXCEPT !.size = z])
  BY DEF GoodForm, OpenForm
<1>5. ASSUME NEW l \in {"", "k", "k&"}
      PROVE  GoodForm([fForm EXCEPT !.labelName = l])
  BY DEF GoodForm, OpenForm
<1>6. GoodForm([fForm EXCEPT !.node = TRUE])
  BY DEF GoodForm, OpenForm
<1>7. GoodForm([fForm EXCEPT !.storageClass = TRUE])
  BY DEF GoodForm, OpenForm
<1> QED BY <1>1, <1>2, <1>3, <1>4, <1>5, <1>6, <1>7, EditGood DEF F!TypeField

\* The fields of a row.
LEMMA TypeRowGood ==
    ASSUME GoodForm(fForm), NEW i, F!TypeRow(i)
    PROVE  GoodForm(fForm')
<1>1. i \in DOMAIN fForm.rows /\ fForm.rows \in Seq(Row)
      /\ fForm.rows[i] \in Row /\ fForm \in OpenForm
  BY GoodFields DEF F!TypeRow, F!RowShown
<1>2. ASSUME NEW f, NEW r \in Row,
             f = [fForm EXCEPT !.rows = [fForm.rows EXCEPT ![i] = r]]
      PROVE  GoodForm(f)
  <2>1. [fForm.rows EXCEPT ![i] = r] \in Seq(Row)
        /\ Len([fForm.rows EXCEPT ![i] = r]) = Len(fForm.rows)
    BY <1>1
  <2> QED BY <1>2, <2>1, GoodWithRows
<1>3. ASSUME NEW n \in {"", "a", "A"},
             F!Edit([fForm EXCEPT !.rows[i].name = <<n, 0>>,
                               !.rows[i].nameTouched = TRUE])
      PROVE  GoodForm(fForm')
  <2> DEFINE r == [fForm.rows[i] EXCEPT !.name = <<n, 0>>, !.nameTouched = TRUE]
             f == [fForm EXCEPT !.rows[i].name = <<n, 0>>,
                               !.rows[i].nameTouched = TRUE]
  <2>1. r \in Row
    BY <1>1 DEF Row, Names
  <2>2. f = [fForm EXCEPT !.rows = [fForm.rows EXCEPT ![i] = r]]
    BY <1>1 DEF OpenForm, Row
  <2>3. GoodForm(f)
    BY <1>2, <2>1, <2>2
  <2> QED BY <1>3, <2>3, EditGood
<1>4. ASSUME NEW q \in {"", "sd", "rel"},
             F!Edit([fForm EXCEPT !.rows[i].path = <<q, 0>>,
                               !.rows[i].pathTouched = TRUE])
      PROVE  GoodForm(fForm')
  <2> DEFINE r == [fForm.rows[i] EXCEPT !.path = <<q, 0>>, !.pathTouched = TRUE]
             f == [fForm EXCEPT !.rows[i].path = <<q, 0>>,
                               !.rows[i].pathTouched = TRUE]
  <2>1. r \in Row
    <3>1. <<q, 0>> \in {"", "vd", "sd", "rel"} \X Nat
      BY <1>4
    <3> QED BY <1>1, <3>1 DEF Row, Paths
  <2>2. f = [fForm EXCEPT !.rows = [fForm.rows EXCEPT ![i] = r]]
    BY <1>1 DEF OpenForm, Row
  <2>3. GoodForm(f)
    BY <1>2, <2>1, <2>2
  <2> QED BY <1>4, <2>3, EditGood
<1> QED BY <1>3, <1>4 DEF F!TypeRow

\* The box "create multiple volumes".
LEMMA ToggleMultiGood ==
    ASSUME GoodForm(fForm), F!ToggleMulti
    PROVE  GoodForm(fForm')
<1> DEFINE cleared(i) == IF 2 * i > fForm.number + 1 THEN fForm.rows[i]
                         ELSE F!Cleared(fForm.rows[i])
           rows == [i \in DOMAIN fForm.rows |-> cleared(i)]
           f == [fForm EXCEPT !.multi = ~fForm.multi, !.rows = rows]
<1>1. DOMAIN fForm.rows = 1..Len(fForm.rows) /\ Len(fForm.rows) \in Nat
  BY GoodFields
<1>2. ASSUME NEW i \in DOMAIN fForm.rows PROVE cleared(i) \in Row
  <2>1. fForm.rows[i] \in Row
    BY GoodFields
  <2> DEFINE n == IF fForm.rows[i].nameTouched THEN fForm.rows[i].name ELSE F!Empty
             p == IF fForm.rows[i].pathTouched THEN fForm.rows[i].path ELSE F!Empty
  <2>2. fForm.rows[i].name \in Names /\ fForm.rows[i].path \in Paths
    BY <2>1 DEF Row
  <2>3. /\ n \in Names /\ p \in Paths
        /\ F!Cleared(fForm.rows[i]) = [fForm.rows[i] EXCEPT !.name = n, !.path = p]
    BY <2>2, EmptyRowType DEF F!Cleared
  <2> HIDE DEF n, p
  <2>6. PICK r \in Row : r = fForm.rows[i]
    BY <2>1
  <2>7. [r EXCEPT !.name = n, !.path = p] \in Row
    BY <2>3, RowWith
  <2> QED BY <2>3, <2>6, <2>7
<1>3. rows \in Seq(Row) /\ Len(rows) = Len(fForm.rows)
  <2> HIDE DEF cleared
  <2>1. rows \in [1..Len(fForm.rows) -> Row]
    BY <1>1, <1>2
  <2> QED BY <1>1, <2>1, SeqOf
<1>4. GoodForm(f)
  <2>1. GoodForm([fForm EXCEPT !.rows = rows])
    BY <1>3, GoodWithRows
  <2>2. f = [[fForm EXCEPT !.rows = rows] EXCEPT !.multi = ~fForm.multi]
        /\ fForm \in OpenForm
    BY GoodFields DEF OpenForm
  <2>3. ASSUME NEW g, GoodForm(g), NEW b \in BOOLEAN
        PROVE  GoodForm([g EXCEPT !.multi = b])
    BY <2>3 DEF GoodForm, OpenForm
  <2>4. PICK b \in BOOLEAN : b = ~fForm.multi
    OBVIOUS
  <2> HIDE DEF rows
  <2> QED BY <2>1, <2>2, <2>3, <2>4
<1> QED BY <1>4, EditGood DEF F!ToggleMulti

\* Rows are added or removed so that there are as many as the number says.
LEMMA RowsOfNumber ==
    ASSUME NEW f, GoodForm(f), NEW n \in Nat, n % 2 = 0
    PROVE  F!RowsOf(f, n) \in Seq(Row) /\ 2 * Len(F!RowsOf(f, n)) = n
<1>1. /\ f.rows \in Seq(Row) /\ f.number \in Nat /\ f.number % 2 = 0
      /\ 2 * Len(f.rows) = f.number
  BY DEF GoodForm, OpenForm
<1>2. CASE n < f.number
  <2>1. CASE n = 0
    <3>1. F!RowsOf(f, n) = SubSeq(f.rows, 1, 0)
      BY <1>2, <2>1 DEF F!RowsOf
    <3> QED BY <1>1, <2>1, <3>1
  <2>2. CASE n # 0
    <3>1. F!RowsOf(f, n) = SubSeq(f.rows, 1, (n + 1) \div 2)
      BY <1>2, <2>2 DEF F!RowsOf
    <3>2. (n + 1) \div 2 \in 1..Len(f.rows) /\ 2 * ((n + 1) \div 2) = n
      BY <1>1, <1>2, <2>2
    <3>3. PICK k \in 1..Len(f.rows) : k = (n + 1) \div 2
      BY <3>2
    <3>4. SubSeq(f.rows, 1, k) \in Seq(Row) /\ Len(SubSeq(f.rows, 1, k)) = k
      BY <1>1, <3>3
    <3> QED BY <3>1, <3>2, <3>3, <3>4
  <2> QED BY <2>1, <2>2
<1>3. CASE ~(n < f.number)
  <2>1. PICK k \in Nat : k = (n - f.number) \div 2 /\ 2 * k = n - f.number
    <3>1. PICK m \in Nat : m = f.number /\ m % 2 = 0 /\ ~(n < m)
      BY <1>1, <1>3
    <3>2. (n - m) \div 2 \in Nat /\ 2 * ((n - m) \div 2) = n - m
      BY <3>1
    <3> QED BY <3>1, <3>2
  <2>2. F!RowsOf(f, n) = f.rows \o [i \in 1..k |-> F!EmptyRow]
    BY <1>3, <2>1 DEF F!RowsOf
  <2>3. [i \in 1..k |-> F!EmptyRow] \in Seq(Row)
        /\ Len([i \in 1..k |-> F!EmptyRow]) = k
    <3>1. PICK t \in [1..k -> Row] : t = [i \in 1..k |-> F!EmptyRow]
      BY EmptyRowType
    <3>2. t \in Seq(Row) /\ Len(t) = k
      BY <2>1, SeqOf
    <3> QED BY <3>1, <3>2
  <2>4. f.rows \o [i \in 1..k |-> F!EmptyRow] \in Seq(Row)
        /\ Len(f.rows \o [i \in 1..k |-> F!EmptyRow]) = Len(f.rows) + k
    <3>1. PICK t \in Seq(Row) : t = [i \in 1..k |-> F!EmptyRow] /\ Len(t) = k
      BY <2>3
    <3>2. f.rows \o t \in Seq(Row) /\ Len(f.rows \o t) = Len(f.rows) + Len(t)
      BY <1>1, ConcatProperties
    <3>3. PICK u : u = [i \in 1..k |-> F!EmptyRow] /\ t = u
      BY <3>1
    <3> QED BY <3>1, <3>2, <3>3, Zenon
  <2> QED
    <3>1. PICK rs \in Seq(Row) : rs = F!RowsOf(f, n) /\ Len(rs) = Len(f.rows) + k
      BY <2>2, <2>4
    <3>2. PICK l \in Nat, m \in Nat :
              l = Len(f.rows) /\ m = f.number /\ 2 * l = m /\ 2 * k = n - m
      <4>1. Len(f.rows) \in Nat
        BY GoodFields
      <4> QED BY <1>1, <2>1, <4>1
    <3>3. 2 * (l + k) = n
      <4>1. n \in Nat /\ k \in Nat /\ l \in Nat /\ m \in Nat
            /\ 2 * l = m /\ 2 * k = n - m
        BY <2>1, <3>2
      <4> QED BY <4>1
    <3> QED BY <3>1, <3>2, <3>3
<1> QED BY <1>2, <1>3

\* The number of volumes.
LEMMA SetVolumeNumberGood ==
    ASSUME GoodForm(fForm), F!WholeNumbers, F!SetVolumeNumber
    PROVE  GoodForm(fForm')
<1>1. PICK n \in NumberInputs :
        F!Edit([fForm EXCEPT
                !.number = n,
                !.hung = n > fForm.number /\ (n - fForm.number) % 2 = 1,
                !.rows = F!RowsOf(fForm, n)])
  BY DEF F!SetVolumeNumber
<1>2. n \in Nat /\ n % 2 = 0
  BY DEF F!WholeNumbers
<1>3. F!RowsOf(fForm, n) \in Seq(Row) /\ 2 * Len(F!RowsOf(fForm, n)) = n
  BY <1>2, RowsOfNumber
<1>4. fForm.number \in Nat /\ fForm.number % 2 = 0 /\ fForm \in OpenForm
  BY DEF GoodForm, OpenForm
<1>5. ~(n > fForm.number /\ (n - fForm.number) % 2 = 1)
  BY <1>2, <1>4
<1>6. GoodForm([fForm EXCEPT
                !.number = n,
                !.hung = n > fForm.number /\ (n - fForm.number) % 2 = 1,
                !.rows = F!RowsOf(fForm, n)])
  BY <1>2, <1>3, <1>4, <1>5 DEF GoodForm, OpenForm
<1> QED BY <1>1, <1>6, EditGood

\* Every edit leaves a good form good.
LEMMA EditedFormGood ==
    ASSUME PageInv, F!WholeNumbers, F!EditVolume
    PROVE  GoodForm(fForm')
<1>1. GoodForm(fForm)
  BY DEF PageInv, F!EditVolume, F!Closed
<1>2. ASSUME NEW labels \in SUBSET {"k"}, F!SetLabels(labels)
      PROVE  GoodForm(fForm')
  <2>1. GoodForm([fForm EXCEPT !.labels = labels, !.labelName = ""])
    BY <1>1 DEF GoodForm, OpenForm
  <2> QED BY <1>2, <2>1, EditGood DEF F!SetLabels
<1>3. F!AddLabel \/ F!RemoveLabel => GoodForm(fForm')
  <2>1. {"k"} \in SUBSET {"k"} /\ {} \in SUBSET {"k"}
    OBVIOUS
  <2> QED BY <1>2, <2>1 DEF F!AddLabel, F!RemoveLabel
<1> QED BY <1>1, <1>3, TypeFieldGood, ToggleMultiGood, SetVolumeNumberGood,
           TypeRowGood DEF F!EditVolume

-----------------------------------------------------------------------------
(* Frames.                                                                 *)

LEMMA PageFrame ==
    ASSUME PageInv, UNCHANGED <<fClasses, fNodes, fForm>>
    PROVE  PageInv'
BY DEF PageInv

LEMMA SagaFrame ==
    ASSUME SagaInv, UNCHANGED <<F!sagaVars, fAlive>>
    PROVE  SagaInv'
BY DEF SagaInv, F!sagaVars, F!PostsAreComplete, F!NothingSilent

LEMMA NodeFrame ==
    ASSUME NodeInv, UNCHANGED <<fNodeForm, fAsked, fCreated, fSubmits>>
    PROVE  NodeInv'
BY DEF NodeInv, F!RolesAsTicked

-----------------------------------------------------------------------------
(* Batches.                                                                *)

LEMMA BatchIsSomething ==
    ASSUME NEW b \in Batch
    PROVE  b # F!Nothing
<1>1. "vols" \in DOMAIN b
  BY DEF Batch
<1>2. DOMAIN F!Nothing = {"none"}
  BY DEF F!Nothing
<1> QED BY <1>1, <1>2

\* Labels and the form it comes from do not make a batch worse.
LEMMA GoodBatchWith ==
    ASSUME NEW b, GoodBatch(b), NEW labels \in SUBSET {"k"}, NEW live \in BOOLEAN
    PROVE  /\ GoodBatch([b EXCEPT !.labels = labels])
           /\ GoodBatch([b EXCEPT !.live = live])
BY DEF GoodBatch, Batch

\* What is left of a batch once its first Volume is dealt with.
LEMMA RestGood ==
    ASSUME NEW b, GoodBatch(b)
    PROVE  F!Rest(b) # F!Nothing => GoodBatch(F!Rest(b))
<1>1. PICK s \in Seq(Vol) : s = b.vols /\ s # <<>>
  BY DEF GoodBatch, Batch
<1>2. CASE Len(s) = 1
  BY <1>1, <1>2 DEF F!Rest
<1>3. CASE Len(s) # 1
  <2>1. /\ Tail(s) \in Seq(Vol) /\ Tail(s) # <<>>
        /\ DOMAIN Tail(s) = 1..(Len(s) - 1) /\ DOMAIN s = 1..Len(s)
        /\ \A i \in DOMAIN Tail(s) : Tail(s)[i] = s[i + 1]
    <3>1. Len(s) \in Nat /\ Len(s) > 1
      <4>1. Len(s) \in Nat
        BY <1>1, LenProperties
      <4>2. Len(s) # 0
        BY <1>1, EmptySeq
      <4> QED BY <4>1, <4>2, <1>3
    <3>2. /\ Tail(s) \in Seq(Vol) /\ Len(Tail(s)) = Len(s) - 1
          /\ \A i \in 1..Len(Tail(s)) : Tail(s)[i] = s[i + 1]
      BY <1>1, HeadTailProperties
    <3>3. DOMAIN Tail(s) = 1..Len(Tail(s)) /\ DOMAIN s = 1..Len(s)
      BY <1>1, <3>2, LenProperties
    <3>4. Tail(s) # <<>>
      <4>1. Len(Tail(s)) # 0
        BY <3>1, <3>2
      <4> QED BY <3>2, <4>1, EmptySeq
    <3> QED BY <3>2, <3>3, <3>4
  <2>2. \A i \in DOMAIN Tail(s) : i + 1 \in DOMAIN s
    BY <2>1, <1>1
  <2>3. F!Rest(b) = [b EXCEPT !.vols = Tail(s)]
    BY <1>1, <1>3 DEF F!Rest
  <2>4. b \in Batch
    BY DEF GoodBatch
  <2>5. /\ F!Rest(b) \in Batch /\ F!Rest(b).vols = Tail(s)
        /\ F!Rest(b).type = b.type /\ F!Rest(b).size = b.size
    BY <2>1, <2>3, <2>4 DEF Batch
  <2>6. \A i \in DOMAIN s : s[i].name = F!Empty \/ F!ValidName(s[i].name)
    BY <1>1 DEF GoodBatch
  <2>7. \A i \in DOMAIN Tail(s) : Tail(s)[i].name = F!Empty
                                  \/ F!ValidName(Tail(s)[i].name)
    BY <2>1, <2>2, <2>6
  <2> QED BY <2>1, <2>5, <2>7 DEF GoodBatch
<1> QED BY <1>2, <1>3

LEMMA BatchRecord ==
    ASSUME NEW vols \in Seq(Vol), NEW type \in F!Types, NEW size \in {"", "0", "1"},
           NEW class \in BOOLEAN, NEW labels \in SUBSET {"k"}
    PROVE  [vols |-> vols, type |-> type, size |-> size, storageClass |-> class,
            labels |-> labels, live |-> TRUE] \in Batch
BY DEF Batch

\* What a valid form is turned into.
LEMMA FormattedGood ==
    ASSUME GoodForm(fForm), F!Valid(fForm),
           NEW b, b = [vols |-> F!FormatVolumeCreationData(fForm),
                       type |-> fForm.type, size |-> fForm.size,
                       storageClass |-> fForm.storageClass,
                       labels |-> fForm.labels, live |-> TRUE],
           F!FormatVolumeCreationData(fForm) # <<>>
    PROVE  GoodBatch(b)
<1> DEFINE vols == F!FormatVolumeCreationData(fForm)
<1>1. /\ vols \in Seq(Vol)
      /\ \A i \in DOMAIN vols : vols[i].name = F!Empty \/ F!ValidName(vols[i].name)
  <2>1. CASE fForm.multi
    <3>1. vols = [i \in DOMAIN fForm.rows |->
                    [name |-> fForm.rows[i].name, path |-> fForm.rows[i].path[1]]]
      BY <2>1 DEF F!FormatVolumeCreationData
    <3>2. DOMAIN fForm.rows = 1..Len(fForm.rows) /\ Len(fForm.rows) \in Nat
      BY GoodFields
    <3>3. ASSUME NEW i \in DOMAIN fForm.rows
          PROVE  [name |-> fForm.rows[i].name, path |-> fForm.rows[i].path[1]]
                   \in Vol
      <4>1. fForm.rows[i] \in Row
        BY GoodFields
      <4>2. fForm.rows[i].name \in Names /\ fForm.rows[i].path \in Paths
        BY <4>1 DEF Row
      <4>3. fForm.rows[i].path[1] \in {"", "vd", "sd", "rel"}
        BY <4>2 DEF Paths
      <4> QED BY <4>2, <4>3 DEF Vol
    <3>4. vols \in [1..Len(fForm.rows) -> Vol] /\ DOMAIN vols = DOMAIN fForm.rows
      BY <3>1, <3>2, <3>3
    <3>5. vols \in Seq(Vol)
      BY <3>2, <3>4, SeqOf
    <3>6. \A i \in DOMAIN fForm.rows :
            fForm.rows[i].name = F!Empty \/ F!ValidName(fForm.rows[i].name)
      BY DEF F!Valid
    <3>7. \A i \in DOMAIN vols : vols[i].name = fForm.rows[i].name
      BY <3>1
    <3> QED BY <3>4, <3>5, <3>6, <3>7
  <2>2. CASE ~fForm.multi
    <3>1. vols = <<[name |-> <<fForm.name, 0>>, path |-> fForm.path]>>
      BY <2>2 DEF F!FormatVolumeCreationData
    <3>2. fForm.name = "a" /\ fForm.path \in {"", "vd", "sd", "rel"}
      BY GoodFields DEF F!Valid
    <3>3. [name |-> <<fForm.name, 0>>, path |-> fForm.path] \in Vol
          /\ F!ValidName(<<fForm.name, 0>>)
      BY <3>2 DEF Vol, Names, F!ValidName
    <3> QED BY <3>1, <3>3
  <2> QED BY <2>1, <2>2
<1>2. vols # <<>>
  OBVIOUS
<1>3. b.vols = vols /\ b.type = fForm.type /\ b.size = fForm.size
  OBVIOUS
<1>4. fForm \in OpenForm
  BY GoodFields
<1> HIDE DEF vols
<1>5. b \in Batch
  <2>1. /\ fForm.type \in F!Types /\ fForm.size \in {"", "0", "1"}
        /\ fForm.storageClass \in BOOLEAN /\ fForm.labels \in SUBSET {"k"}
    BY <1>4 DEF OpenForm
  <2>2. b = [vols |-> vols, type |-> fForm.type, size |-> fForm.size,
             storageClass |-> fForm.storageClass, labels |-> fForm.labels,
             live |-> TRUE]
    BY DEF vols
  <2>3. vols \in Seq(Vol)
    BY <1>1
  <2>4. [vols |-> vols, type |-> fForm.type, size |-> fForm.size,
         storageClass |-> fForm.storageClass, labels |-> fForm.labels,
         live |-> TRUE] \in Batch
    BY <2>1, <2>3, BatchRecord
  <2> QED BY <2>2, <2>4
<1>6. fForm.type = "sparseLoopDevice" => fForm.size = "1"
  BY DEF F!Valid
<1> QED BY <1>1, <1>2, <1>3, <1>5, <1>6 DEF GoodBatch

-----------------------------------------------------------------------------
(* The steps of the volume form and of its saga.                           *)

LEMMA EditVolumeStep ==
    ASSUME FormsInv, F!WholeNumbers, F!EditVolume
    PROVE  FormsInv'
<1>1. PageInv /\ SagaInv /\ NodeInv
  BY DEF FormsInv
<1>2. /\ UNCHANGED <<fPage, F!storeVars, fCall, fUnheard, fCluster, fTold, fSuperseded,
                     fAbandoned, fNodeForm, F!nodeSagaVars, fSubmits>>
  BY DEF F!EditVolume, F!TypeField, F!ToggleMulti, F!SetVolumeNumber,
         F!TypeRow, F!AddLabel, F!RemoveLabel, F!SetLabels, F!Edit
<1>3. PageInv'
  BY <1>1, <1>2, EditedFormGood DEF PageInv, F!storeVars
<1>4. \/ UNCHANGED fBatch
      \/ fBatch # F!Nothing /\ \E labels \in SUBSET {"k"} :
             fBatch' = [fBatch EXCEPT !.labels = labels]
  <2>1. ASSUME NEW labels \in SUBSET {"k"}, F!SetLabels(labels)
        PROVE  \/ UNCHANGED fBatch
               \/ fBatch # F!Nothing /\ fBatch' = [fBatch EXCEPT !.labels = labels]
    BY <2>1 DEF F!SetLabels
  <2>2. {"k"} \in SUBSET {"k"} /\ {} \in SUBSET {"k"}
    OBVIOUS
  <2> QED BY <2>1, <2>2 DEF F!EditVolume, F!AddLabel, F!RemoveLabel
<1>5. SagaInv'
  <2>1. CASE UNCHANGED fBatch
    BY <1>1, <1>2, <2>1, SagaFrame DEF F!sagaVars, F!storeVars
  <2>2. ASSUME NEW labels \in SUBSET {"k"}, fBatch # F!Nothing,
               fBatch' = [fBatch EXCEPT !.labels = labels]
        PROVE  SagaInv'
    <3>1. GoodBatch(fBatch') /\ fBatch' # F!Nothing
      BY <1>1, <2>2, GoodBatchWith, BatchIsSomething DEF SagaInv, GoodBatch
    <3> QED BY <1>1, <1>2, <3>1
               DEF SagaInv, F!PostsAreComplete, F!NothingSilent, F!storeVars
  <2> QED BY <1>4, <2>1, <2>2
<1>6. NodeInv'
  BY <1>1, <1>2, NodeFrame DEF F!nodeSagaVars
<1> QED BY <1>3, <1>5, <1>6 DEF FormsInv

\* What a cancelled saga leaves behind.
LEMMA Cancelled ==
    ASSUME SagaInv, F!CancelCall
    PROVE  /\ fCall' = F!Nothing
           /\ fUnheard' \subseteq fAbandoned'
           /\ fAbandoned \subseteq fAbandoned'
           /\ fCall = F!Nothing => fAbandoned' = fAbandoned
BY DEF SagaInv, F!CancelCall

LEMMA SubmitStep ==
    ASSUME FormsInv, F!Submit
    PROVE  FormsInv'
<1>1. PageInv /\ SagaInv /\ NodeInv
  BY DEF FormsInv
<1>2. PageInv'
  BY <1>1, PageFrame DEF F!Submit, F!storeVars
<1>3. GoodForm(fForm)
  <2>1. fForm.open
    BY DEF F!Submit
  <2> QED BY <1>1, <2>1 DEF PageInv, F!Closed
<1>4. fBatch' # F!Nothing => GoodBatch(fBatch')
  <2>1. F!Valid(fForm)
    BY DEF F!Submit
  <2>2. fBatch' = IF F!FormatVolumeCreationData(fForm) = <<>> THEN F!Nothing
                 ELSE [vols |-> F!FormatVolumeCreationData(fForm),
                       type |-> fForm.type, size |-> fForm.size,
                       storageClass |-> fForm.storageClass,
                       labels |-> fForm.labels, live |-> TRUE]
    BY DEF F!Submit
  <2> QED BY <1>3, <2>1, <2>2, FormattedGood
<1>5. SagaInv'
  <2>1. /\ fSuperseded' = (fSuperseded \/ fBatch # F!Nothing)
        /\ F!CancelCall /\ UNCHANGED <<fCluster, fTold, fAlive>>
    BY DEF F!Submit, F!storeVars
  <2>2. fCall' = F!Nothing /\ fUnheard' \subseteq fAbandoned'
    BY <1>1, <2>1, Cancelled
  <2>3. F!NothingSilent'
    <3>1. fCall # F!Nothing => fSuperseded'
      BY <1>1, <2>1 DEF SagaInv
    <3> QED BY <1>1, <2>1, <3>1, Cancelled DEF SagaInv, F!NothingSilent
  <2>4. F!PostsAreComplete'
    BY <2>2 DEF F!PostsAreComplete
  <2> QED BY <1>4, <2>2, <2>3, <2>4 DEF SagaInv
<1>6. NodeInv'
  <2>1. fSubmits' = fSubmits + 1 /\ fNodeForm' = fNodeForm /\ fAsked' = fAsked
        /\ fCreated' = fCreated
    BY DEF F!Submit, F!nodeSagaVars
  <2>2. fSubmits' \in Nat
    BY <1>1, <2>1 DEF NodeInv
  <2> QED BY <1>1, <2>1, <2>2 DEF NodeInv, F!RolesAsTicked
<1> QED BY <1>2, <1>5, <1>6 DEF FormsInv

\* What is posted was checked, by the form or by the saga.
LEMMA CreateNextStep ==
    ASSUME FormsInv, F!CreateNext
    PROVE  FormsInv'
<1>1. PageInv /\ SagaInv /\ NodeInv
  BY DEF FormsInv
<1>2. PageInv' /\ NodeInv'
  BY <1>1, PageFrame, NodeFrame DEF F!CreateNext, F!storeVars, F!nodeSagaVars
<1> DEFINE v == Head(fBatch.vols)
<1>3. fBatch # F!Nothing /\ fCall = F!Nothing /\ GoodBatch(fBatch)
  BY <1>1 DEF F!CreateNext, SagaInv
<1>4. v.name = F!Empty \/ F!ValidName(v.name)
  <2>1. PICK s \in Seq(Vol) : s = fBatch.vols /\ s # <<>>
    BY <1>3 DEF GoodBatch, Batch
  <2>2. Head(s) = s[1] /\ 1 \in DOMAIN s
    BY <2>1
  <2> QED BY <1>3, <2>1, <2>2 DEF GoodBatch
<1>5. CASE F!IsNewVolumeValid(v)
  <2>1. fBatch' = fBatch /\ fTold' = fTold
        /\ fCall' = [name |-> v.name, labels |-> fBatch.labels,
                    devicePath |-> IF fBatch.type = "sparseLoopDevice" THEN ""
                                   ELSE v.path,
                    size |-> IF fBatch.type = "sparseLoopDevice" THEN fBatch.size
                             ELSE ""]
    BY <1>5 DEF F!CreateNext
  <2>2. v.name # F!Empty /\ (fBatch.type = "rawBlockDevice" => v.path # "")
    BY <1>5 DEF F!IsNewVolumeValid
  <2>3. fBatch.type \in F!Types /\ (fBatch.type = "sparseLoopDevice" => fBatch.size = "1")
    BY <1>3 DEF GoodBatch, Batch
  <2>4. F!PostsAreComplete'
    <3> HIDE DEF v
    <3> QED BY <1>4, <2>1, <2>2, <2>3 DEF F!PostsAreComplete, F!Types
  <2>5. UNCHANGED <<fUnheard, fCluster, fSuperseded, fAbandoned, fAlive>>
    BY DEF F!CreateNext, F!storeVars
  <2> QED BY <1>1, <1>2, <1>3, <2>1, <2>4, <2>5
          DEF FormsInv, SagaInv, F!NothingSilent
<1>6. CASE ~F!IsNewVolumeValid(v)
  <2>1. fBatch' = F!Rest(fBatch) /\ fTold' = fTold \cup {v.name} /\ fCall' = F!Nothing
        /\ UNCHANGED <<fUnheard, fCluster, fSuperseded, fAbandoned, fAlive>>
    BY <1>3, <1>6 DEF F!CreateNext, F!storeVars
  <2> QED BY <1>1, <1>2, <1>3, <2>1, RestGood
          DEF FormsInv, SagaInv, F!NothingSilent, F!PostsAreComplete
<1> QED BY <1>5, <1>6

\* The form that is left is gone, and with it its values.
LEMMA ShowPage ==
    ASSUME PageInv, NEW p, F!Show(p), UNCHANGED <<fClasses, fNodes>>
    PROVE  PageInv' /\ fNodeForm' \in [roles: SUBSET F!RoleBoxes, filled: BOOLEAN]
BY DEF PageInv, F!Show, F!RoleBoxes

LEMMA VolumeCreatedStep ==
    ASSUME FormsInv, F!VolumeCreated
    PROVE  FormsInv'
<1>1. PageInv /\ SagaInv /\ NodeInv
  BY DEF FormsInv
<1>2. F!Show("volumes") /\ UNCHANGED <<fClasses, fNodes, fAsked, fCreated, fSubmits>>
  BY DEF F!VolumeCreated, F!storeVars
<1>3. PageInv' /\ NodeInv'
  BY <1>1, <1>2, ShowPage DEF NodeInv, F!RolesAsTicked
<1>4. GoodBatch(fBatch)
  BY <1>1 DEF F!VolumeCreated, SagaInv
<1>5. fBatch' # F!Nothing => GoodBatch(fBatch')
  <2>1. CASE F!Rest(fBatch) = F!Nothing
    BY <2>1 DEF F!VolumeCreated
  <2>2. CASE F!Rest(fBatch) # F!Nothing
    <3>1. fBatch' = [F!Rest(fBatch) EXCEPT !.live = FALSE]
      BY <2>2 DEF F!VolumeCreated
    <3> QED BY <1>4, <2>2, <3>1, RestGood, GoodBatchWith
  <2> QED BY <2>1, <2>2
<1>6. SagaInv'
  BY <1>1, <1>5
     DEF SagaInv, F!VolumeCreated, F!PostsAreComplete, F!NothingSilent, F!storeVars
<1> QED BY <1>3, <1>6 DEF FormsInv

LEMMA VolumeFailedStep ==
    ASSUME FormsInv, F!VolumeFailed
    PROVE  FormsInv'
<1>1. PageInv /\ SagaInv /\ NodeInv
  BY DEF FormsInv
<1>2. PageInv' /\ NodeInv'
  BY <1>1, PageFrame, NodeFrame DEF F!VolumeFailed, F!storeVars, F!nodeSagaVars
<1>3. fBatch' # F!Nothing => GoodBatch(fBatch')
  BY <1>1, RestGood DEF F!VolumeFailed, SagaInv
<1>4. SagaInv'
  BY <1>1, <1>3
     DEF SagaInv, F!VolumeFailed, F!PostsAreComplete, F!NothingSilent, F!storeVars
<1> QED BY <1>2, <1>4 DEF FormsInv

LEMMA CreatedUnheardStep ==
    ASSUME FormsInv, F!CreatedUnheard
    PROVE  FormsInv'
<1>1. PageInv /\ SagaInv /\ NodeInv
  BY DEF FormsInv
<1>2. PageInv' /\ NodeInv'
  BY <1>1, PageFrame, NodeFrame
     DEF F!CreatedUnheard, F!storeVars, F!nodeSagaVars
<1>3. SagaInv'
  <2>1. PICK n \in fUnheard : fCluster' = fCluster \cup {n} /\ fUnheard' = fUnheard \ {n}
    BY DEF F!CreatedUnheard
  <2>2. UNCHANGED <<fBatch, fCall, fTold, fSuperseded, fAbandoned, fAlive>>
    BY DEF F!CreatedUnheard, F!storeVars
  <2>3. n \in fAbandoned
    BY <1>1, <2>1 DEF SagaInv
  <2> QED BY <1>1, <2>1, <2>2, <2>3 DEF SagaInv, F!PostsAreComplete, F!NothingSilent
<1> QED BY <1>2, <1>3 DEF FormsInv

-----------------------------------------------------------------------------
(* The steps of the pages and of the store.                                *)

LEMMA OpenCreateVolumeStep ==
    ASSUME FormsInv, F!OpenCreateVolume
    PROVE  FormsInv'
<1>1. PageInv /\ SagaInv /\ NodeInv
  BY DEF FormsInv
<1>2. PageInv' /\ NodeInv'
  BY <1>1, ShowPage DEF F!OpenCreateVolume, NodeInv, F!RolesAsTicked
<1>3. SagaInv'
  BY <1>1, SagaFrame DEF F!OpenCreateVolume, F!storeVars
<1> QED BY <1>2, <1>3 DEF FormsInv

LEMMA StorageClassesAnsweredStep ==
    ASSUME FormsInv, NEW ok \in BOOLEAN, F!StorageClassesAnswered(ok)
    PROVE  FormsInv'
<1>1. PageInv /\ SagaInv /\ NodeInv
  BY DEF FormsInv
<1>2. fClasses' \in BOOLEAN /\ fNodes' \in BOOLEAN /\ fNodes \in BOOLEAN
  BY <1>1 DEF F!StorageClassesAnswered, PageInv
<1>3. ASSUME NEW a \in BOOLEAN, NEW b \in BOOLEAN
      PROVE  GoodForm(F!InitialValues(a, b))
  <2>1. <<F!EmptyRow>> \in Seq(Row) /\ Len(<<F!EmptyRow>>) = 1
    BY EmptyRowType
  <2> QED BY <2>1 DEF GoodForm, OpenForm, F!InitialValues, F!Types
<1>4. PageInv'
  BY <1>1, <1>2, <1>3 DEF F!StorageClassesAnswered, PageInv
<1>5. SagaInv' /\ NodeInv'
  BY <1>1, SagaFrame, NodeFrame DEF F!StorageClassesAnswered, F!nodeSagaVars
<1> QED BY <1>4, <1>5 DEF FormsInv

LEMMA NodesAnsweredStep ==
    ASSUME FormsInv, F!NodesAnswered
    PROVE  FormsInv'
<1>1. PageInv /\ SagaInv /\ NodeInv
  BY DEF FormsInv
<1>2. PageInv'
  BY <1>1 DEF F!NodesAnswered, PageInv
<1>3. SagaInv' /\ NodeInv'
  BY <1>1, SagaFrame, NodeFrame DEF F!NodesAnswered, F!nodeSagaVars
<1> QED BY <1>2, <1>3 DEF FormsInv

\* Leaving a page, as the user does or as a saga does.
LEMMA LeftPage ==
    ASSUME FormsInv, NEW p, F!Show(p),
           fBatch' = IF fBatch = F!Nothing THEN F!Nothing
                    ELSE [fBatch EXCEPT !.live = FALSE],
           UNCHANGED <<fClasses, fNodes, fCall, fUnheard, fCluster, fTold,
                       fSuperseded, fAbandoned, fAlive>>
    PROVE  /\ PageInv' /\ SagaInv'
           /\ fNodeForm' \in [roles: SUBSET F!RoleBoxes, filled: BOOLEAN]
<1>1. PageInv /\ SagaInv
  BY DEF FormsInv
<1>2. SagaInv'
  <2>1. CASE fBatch = F!Nothing
    BY <1>1, <2>1, SagaFrame DEF F!sagaVars
  <2>2. CASE fBatch # F!Nothing
    <3>1. GoodBatch(fBatch') /\ fBatch' # F!Nothing
      BY <1>1, <2>2, GoodBatchWith, BatchIsSomething DEF SagaInv, GoodBatch
    <3> QED BY <1>1, <3>1 DEF SagaInv, F!PostsAreComplete, F!NothingSilent
  <2> QED BY <2>1, <2>2
<1> QED BY <1>1, <1>2, ShowPage

LEMMA LeaveStep ==
    ASSUME FormsInv, NEW p, F!Leave(p)
    PROVE  FormsInv'
<1>1. /\ PageInv' /\ SagaInv'
      /\ fNodeForm' \in [roles: SUBSET F!RoleBoxes, filled: BOOLEAN]
  BY LeftPage DEF F!Leave, F!storeVars
<1> QED BY <1>1 DEF FormsInv, NodeInv, F!Leave, F!RolesAsTicked

-----------------------------------------------------------------------------
(* The steps of the node form and of its saga.                             *)

\* The entry that is found for the roles that were ticked.
LEMMA Matched ==
    ASSUME NEW boxes \in {b \in SUBSET F!RoleBoxes : b # {}},
           NEW c, c = [F!RoleTaintMatched(boxes) EXCEPT !.boxes = boxes]
    PROVE  /\ "bootstrap" \notin c.labels \cup c.taints
           /\ "control_plane" \in c.boxes <=> {"master", "etcd"} \subseteq c.labels
           /\ "infra" \in c.boxes <=> "infra" \in c.labels
           /\ "workload_plane" \in c.boxes <=> c.taints = {}
<1>1. DOMAIN F!RoleTaintMap = 1..8
  BY DEF F!RoleTaintMap
<1> DEFINE entry(i, b, l, t) == /\ F!RoleTaintMap[i].boxes = b
                                /\ F!RoleTaintMap[i].labels = l
                                /\ F!RoleTaintMap[i].taints = t
                                /\ DOMAIN F!RoleTaintMap[i] = {"boxes", "labels", "taints"}
<1>2. /\ entry(1, {}, {"bootstrap", "master", "etcd", "infra"},
               {"bootstrap", "infra"})
      /\ entry(2, {"control_plane"}, {"master", "etcd"}, {"master", "etcd"})
      /\ entry(3, {"workload_plane"}, {"node"}, {})
      /\ entry(4, {"infra"}, {"infra"}, {"infra"})
      /\ entry(5, {"control_plane", "workload_plane"},
               {"etcd", "master", "node"}, {})
      /\ entry(6, {"control_plane", "infra"}, {"etcd", "master", "infra"},
               {"infra"})
      /\ entry(7, {"workload_plane", "infra"}, {"infra"}, {})
      /\ entry(8, F!RoleBoxes, {"etcd", "master", "infra"}, {})
  BY DEF F!RoleTaintMap, F!Entry
<1>3. \E i \in 1..8 : F!RoleTaintMap[i].boxes = boxes
  <2>1. \A r \in boxes : r \in F!RoleBoxes
    OBVIOUS
  <2>2. CASE "control_plane" \in boxes
    <3>1. CASE "workload_plane" \in boxes /\ "infra" \in boxes
      <4>1. boxes = F!RoleBoxes
        BY <2>1, <2>2, <3>1 DEF F!RoleBoxes
      <4> QED BY <1>2, <4>1
    <3>2. CASE "workload_plane" \in boxes /\ "infra" \notin boxes
      <4>1. boxes = {"control_plane", "workload_plane"}
        BY <2>1, <2>2, <3>2 DEF F!RoleBoxes
      <4> QED BY <1>2, <4>1
    <3>3. CASE "workload_plane" \notin boxes /\ "infra" \in boxes
      <4>1. boxes = {"control_plane", "infra"}
        BY <2>1, <2>2, <3>3 DEF F!RoleBoxes
      <4> QED BY <1>2, <4>1
    <3>4. CASE "workload_plane" \notin boxes /\ "infra" \notin boxes
      <4>1. boxes = {"control_plane"}
        BY <2>1, <2>2, <3>4 DEF F!RoleBoxes
      <4> QED BY <1>2, <4>1
    <3> QED BY <3>1, <3>2, <3>3, <3>4
  <2>3. CASE "control_plane" \notin boxes
    <3>1. CASE "workload_plane" \in boxes /\ "infra" \in boxes
      <4>1. boxes = {"workload_plane", "infra"}
        BY <2>1, <2>3, <3>1 DEF F!RoleBoxes
      <4> QED BY <1>2, <4>1
    <3>2. CASE "workload_plane" \in boxes /\ "infra" \notin boxes
      <4>1. boxes = {"workload_plane"}
        BY <2>1, <2>3, <3>2 DEF F!RoleBoxes
      <4> QED BY <1>2, <4>1
    <3>3. CASE "workload_plane" \notin boxes
      <4>1. PICK r \in boxes : TRUE
        OBVIOUS
      <4>2. \A q \in boxes : q = "infra"
        BY <2>1, <2>3, <3>3 DEF F!RoleBoxes
      <4>3. boxes = {"infra"}
        BY <4>1, <4>2
      <4> QED BY <1>2, <4>3
    <3> QED BY <3>1, <3>2, <3>3
  <2> QED BY <2>2, <2>3
<1>4. PICK i \in 1..8 : F!RoleTaintMap[i].boxes = boxes
                        /\ F!RoleTaintMatched(boxes) = F!RoleTaintMap[i]
  BY <1>1, <1>3 DEF F!RoleTaintMatched
<1>5. DOMAIN F!RoleTaintMap[i] = {"boxes", "labels", "taints"}
  BY <1>2, <1>4
<1>6. c.boxes = boxes /\ c.labels = F!RoleTaintMap[i].labels
      /\ c.taints = F!RoleTaintMap[i].taints
  BY <1>4, <1>5
<1>7. i # 1
  <2>1. F!RoleTaintMap[1].boxes = {} /\ boxes # {}
    BY <1>2
  <2> QED BY <1>4, <2>1
<1> HIDE DEF entry
<1>8. i = 2 \/ i = 3 \/ i = 4 \/ i = 5 \/ i = 6 \/ i = 7 \/ i = 8
  BY <1>4, <1>7
<1> USE DEF entry
<1> QED BY <1>2, <1>4, <1>6, <1>8 DEF F!RoleBoxes

LEMMA TickRoleStep ==
    ASSUME FormsInv, NEW r \in F!RoleBoxes, F!TickRole(r) \/ F!FillNode
    PROVE  FormsInv'
<1>1. PageInv /\ SagaInv /\ NodeInv
  BY DEF FormsInv
<1>2. PageInv' /\ SagaInv'
  BY <1>1, PageFrame, SagaFrame DEF F!TickRole, F!FillNode, F!storeVars
<1>3. fNodeForm' \in [roles: SUBSET F!RoleBoxes, filled: BOOLEAN]
  <2>1. /\ fNodeForm \in [roles: SUBSET F!RoleBoxes, filled: BOOLEAN]
        /\ fNodeForm.roles \in SUBSET F!RoleBoxes /\ fNodeForm.filled \in BOOLEAN
    BY <1>1 DEF NodeInv
  <2>2. CASE F!TickRole(r)
    <3>1. PICK roles \in SUBSET F!RoleBoxes :
             fNodeForm' = [fNodeForm EXCEPT !.roles = roles]
      BY <2>1, <2>2 DEF F!TickRole
    <3> QED BY <2>1, <3>1
  <2>3. CASE F!FillNode
    <3>1. PICK b \in BOOLEAN : fNodeForm' = [fNodeForm EXCEPT !.filled = b]
      BY <2>1, <2>3 DEF F!FillNode
    <3> QED BY <2>1, <3>1
  <2> QED BY <2>2, <2>3
<1> QED BY <1>1, <1>2, <1>3
           DEF FormsInv, NodeInv, F!TickRole, F!FillNode, F!nodeSagaVars,
               F!RolesAsTicked

LEMMA SubmitNodeStep ==
    ASSUME FormsInv, F!SubmitNode
    PROVE  FormsInv'
<1>1. PageInv /\ SagaInv /\ NodeInv
  BY DEF FormsInv
<1>2. PageInv' /\ SagaInv'
  BY <1>1, PageFrame, SagaFrame DEF F!SubmitNode, F!storeVars
<1>3. fSubmits' \in Nat
  BY <1>1 DEF F!SubmitNode, NodeInv
<1>4. [id |-> fSubmits', boxes |-> fNodeForm.roles, phase |-> "posted"] \in Ask
  <2>1. fNodeForm.roles \in SUBSET F!RoleBoxes /\ fNodeForm.roles # {}
    BY <1>1 DEF F!SubmitNode, NodeInv
  <2>2. /\ fNodeForm.roles \in {b \in SUBSET F!RoleBoxes : b # {}}
        /\ "posted" \in {"posted", "reading"}
    BY <2>1
  <2> QED BY <1>3, <2>2 DEF Ask
<1> QED BY <1>1, <1>2, <1>3, <1>4
        DEF FormsInv, NodeInv, F!SubmitNode, F!RolesAsTicked

\* A node that is created for what was asked has the roles that were ticked.
LEMMA CreatedAsTicked ==
    ASSUME NodeInv, NEW a \in fAsked,
           fCreated' \in {fCreated, fCreated \cup {F!Body(a)}}
    PROVE  F!RolesAsTicked'
<1>1. a.boxes \in {b \in SUBSET F!RoleBoxes : b # {}}
  BY DEF NodeInv, Ask
<1>2. F!Body(a) = [F!RoleTaintMatched(a.boxes) EXCEPT !.boxes = a.boxes]
  BY DEF F!Body
<1>3. F!RolesAsTicked
  BY DEF NodeInv
<1> QED BY <1>1, <1>2, <1>3, Matched DEF F!RolesAsTicked

LEMMA NodeCreatedStep ==
    ASSUME FormsInv, NEW a \in fAsked, F!NodeCreated(a)
    PROVE  FormsInv'
<1>1. PageInv /\ SagaInv /\ NodeInv
  BY DEF FormsInv
<1>2. PageInv' /\ SagaInv'
  BY <1>1, PageFrame, SagaFrame DEF F!NodeCreated, F!storeVars
<1>3. a \in Ask
  BY <1>1 DEF NodeInv
<1>4. [a EXCEPT !.phase = "reading"] \in Ask
  BY <1>3 DEF Ask
<1>5. F!RolesAsTicked'
  BY <1>1, CreatedAsTicked DEF F!NodeCreated
<1> QED BY <1>1, <1>2, <1>4, <1>5 DEF FormsInv, NodeInv, F!NodeCreated

LEMMA NodeShownStep ==
    ASSUME FormsInv, NEW a \in fAsked, F!NodeShown(a)
    PROVE  FormsInv'
<1>1. /\ PageInv' /\ SagaInv'
      /\ fNodeForm' \in [roles: SUBSET F!RoleBoxes, filled: BOOLEAN]
  BY LeftPage DEF F!NodeShown, F!storeVars
<1> QED BY <1>1 DEF FormsInv, NodeInv, F!NodeShown, F!RolesAsTicked

LEMMA NodeFailedStep ==
    ASSUME FormsInv, NEW a \in fAsked, F!NodeFailed(a)
    PROVE  FormsInv'
<1>1. PageInv /\ SagaInv /\ NodeInv
  BY DEF FormsInv
<1>2. PageInv' /\ SagaInv'
  BY <1>1, PageFrame, SagaFrame DEF F!NodeFailed, F!storeVars
<1> QED BY <1>1, <1>2 DEF FormsInv, NodeInv, F!NodeFailed, F!RolesAsTicked

\* All sagas stop: the Volume that was being posted is abandoned.
LEMMA NodeThrowsStep ==
    ASSUME FormsInv, NEW a \in fAsked, F!NodeThrows(a)
    PROVE  FormsInv'
<1>1. PageInv /\ SagaInv /\ NodeInv
  BY DEF FormsInv
<1>2. PageInv'
  BY <1>1, PageFrame DEF F!NodeThrows
<1>3. /\ fBatch' = F!Nothing /\ fAlive' = FALSE /\ F!CancelCall
      /\ UNCHANGED <<fCluster, fTold, fSuperseded>>
  BY DEF F!NodeThrows
<1>4. SagaInv'
  <2>1. fCall' = F!Nothing /\ fUnheard' \subseteq fAbandoned'
        /\ fAbandoned \subseteq fAbandoned'
    BY <1>1, <1>3, Cancelled
  <2>2. F!NothingSilent'
    BY <1>1, <1>3, <2>1 DEF SagaInv, F!NothingSilent
  <2> QED BY <1>3, <2>1, <2>2 DEF SagaInv, F!PostsAreComplete
<1>5. F!RolesAsTicked'
  BY <1>1, CreatedAsTicked DEF F!NodeThrows
<1>6. fAsked' \subseteq Ask
  BY <1>1 DEF F!NodeThrows, NodeInv
<1>7. fNodeForm' = fNodeForm /\ fSubmits' = fSubmits
  BY DEF F!NodeThrows
<1> QED BY <1>1, <1>2, <1>4, <1>5, <1>6, <1>7 DEF FormsInv, NodeInv

-----------------------------------------------------------------------------
LEMMA InitFormsInv == F!Init => FormsInv
<1> SUFFICES ASSUME F!Init PROVE FormsInv
  OBVIOUS
<1>1. PageInv
  BY DEF F!Init, PageInv
<1>2. SagaInv
  BY DEF F!Init, SagaInv, F!PostsAreComplete, F!NothingSilent
<1>3. NodeInv
  <2>1. fNodeForm \in [roles: SUBSET F!RoleBoxes, filled: BOOLEAN]
    BY DEF F!Init, F!RoleBoxes
  <2> QED BY <2>1 DEF F!Init, NodeInv, F!RolesAsTicked
<1> QED BY <1>1, <1>2, <1>3 DEF FormsInv

LEMMA NextFormsInv ==
    ASSUME FormsInv, F!WholeNumbers, [F!Next]_F!vars
    PROVE  FormsInv'
<1>1. CASE UNCHANGED F!vars
  BY <1>1, PageFrame, SagaFrame, NodeFrame
     DEF FormsInv, F!vars, F!storeVars, F!nodeSagaVars
<1>2. CASE \E p \in {"volumes", "createNode"} : F!Leave(p)
  BY <1>2, LeaveStep
<1>3. CASE \E a \in fAsked :
             F!NodeCreated(a) \/ F!NodeShown(a) \/ F!NodeFailed(a) \/ F!NodeThrows(a)
  BY <1>3, NodeCreatedStep, NodeShownStep, NodeFailedStep, NodeThrowsStep
<1>4. CASE F!FillNode \/ \E r \in F!RoleBoxes : F!TickRole(r)
  <2>1. "infra" \in F!RoleBoxes
    BY DEF F!RoleBoxes
  <2> QED BY <1>4, <2>1, TickRoleStep
<1>5. CASE \E ok \in BOOLEAN : F!StorageClassesAnswered(ok)
  BY <1>5, StorageClassesAnsweredStep
<1> QED BY <1>1, <1>2, <1>3, <1>4, <1>5, EditVolumeStep, SubmitStep,
           CreateNextStep, VolumeCreatedStep, VolumeFailedStep,
           CreatedUnheardStep, OpenCreateVolumeStep, NodesAnsweredStep,
           SubmitNodeStep DEF F!Next

LEMMA SafeForms == FormsInv => F!FormsSafe
<1>1. ASSUME GoodForm(fForm) PROVE F!RowsMatchNumber
  BY <1>1, GoodFields DEF F!RowsMatchNumber
<1>2. ASSUME fForm = F!Closed PROVE F!RowsMatchNumber
  BY <1>2 DEF F!RowsMatchNumber, F!Closed
<1> QED BY <1>1, <1>2 DEF FormsInv, PageInv, SagaInv, NodeInv, F!FormsSafe

\* Whatever is typed, sent, sent again or left, and whatever the answers: the
\* rows of a batch match their number, what is posted is complete, a Volume
\* whose creation was not reported was being posted when its saga was cancelled,
\* by a later batch or by the error that stops all sagas, and a node gets the
\* roles that were ticked; for any number of volumes, provided that users type
\* whole numbers from 0 on.
THEOREM FormsAreSafe ==
    ASSUME F!WholeNumbers
    PROVE  F!Spec => []FormsSafe
<1>1. FormsInv /\ [F!Next]_F!vars => FormsInv'
  BY NextFormsInv
<1> QED BY <1>1, InitFormsInv, SafeForms, PTL DEF F!Spec, FormsSafe

-----------------------------------------------------------------------------
(* The lists and their URL.                                                *)

\* A set of numbers has a least one.
LEMMA HasLeast ==
    ASSUME NEW numbers, numbers \subseteq Nat, numbers # {}
    PROVE  \E n \in numbers : \A m \in numbers : n <= m
<1>1. PICK less : /\ less = {p \in Nat \X Nat : p[1] < p[2]}
               /\ IsWellFoundedOn(less, Nat)
  BY NatLessThanWellFounded DEF OpToRel
<1>2. PICK n \in numbers : \A m \in numbers : <<m, n>> \notin less
  BY <1>1, WFMin
<1>3. ASSUME NEW m \in numbers PROVE n <= m
  <2>1. m \in Nat /\ n \in Nat
    BY <1>2
  <2>2. ~(m < n)
    BY <1>1, <1>2, <2>1
  <2> QED BY <2>1, <2>2
<1> QED BY <1>2, <1>3

\* An order puts the rows in the order of the column.
Sorts(rows, column, order) ==
    /\ order \in [DOMAIN rows -> DOMAIN rows]
    /\ \A i, j \in DOMAIN rows : order[i] = order[j] => i = j
    /\ \A k \in DOMAIN rows : \E i \in DOMAIN rows : order[i] = k
    /\ \A i, j \in DOMAIN rows :
            i < j => L!Precedes(rows, column, order[i], order[j])

\* Where there is such an order, Ascending is one.
LEMMA Sorting ==
  ASSUME NEW rows, NEW column, NEW order, Sorts(rows, column, order)
  PROVE Sorts(rows, column, L!Ascending(rows, column))
<1>1. L!Bijection(DOMAIN rows, DOMAIN rows) =
        {o \in [DOMAIN rows -> DOMAIN rows] :
           /\ \A i, j \in DOMAIN rows : o[i] = o[j] => i = j
           /\ \A k \in DOMAIN rows : \E i \in DOMAIN rows : o[i] = k}
  BY DEF L!Bijection, L!Injection, L!Surjection, L!IsInjective
<1>2. order \in L!Bijection(DOMAIN rows, DOMAIN rows)
  BY <1>1 DEF Sorts
<1>3. /\ L!Ascending(rows, column) \in L!Bijection(DOMAIN rows, DOMAIN rows)
      /\ \A i, j \in DOMAIN rows :
            i < j => L!Precedes(rows, column, L!Ascending(rows, column)[i],
                              L!Ascending(rows, column)[j])
  BY <1>2 DEF L!Ascending, Sorts
<1> QED BY <1>1, <1>3 DEF Sorts

\* Rows are compared by numbers.
LEMMA RanksOfRows ==
    ASSUME L!ListsAssumption, NEW rows \in Seq(L!Rows), NEW column
    PROVE  /\ DOMAIN rows = 1..Len(rows) /\ Len(rows) \in Nat
           /\ \A i \in DOMAIN rows : L!Rank(rows[i], column) \in Nat
<1>1. DOMAIN rows = 1..Len(rows) /\ Len(rows) \in Nat
  BY LenProperties
<1>2. ASSUME NEW i \in DOMAIN rows PROVE L!Rank(rows[i], column) \in Nat
  <2>1. rows[i] \in L!Rows
    BY <1>1, ElementOfSeq
  <2> QED BY <2>1 DEF L!Rank, L!Rows, L!ListsAssumption
<1> QED BY <1>1, <1>2

\* Of some rows one precedes the others.
LEMMA OnePrecedes ==
    ASSUME L!ListsAssumption, NEW rows \in Seq(L!Rows), NEW column,
           NEW T, T \subseteq DOMAIN rows, T # {}
    PROVE  \E m \in T : \A k \in T : k # m => L!Precedes(rows, column, m, k)
<1> DEFINE rank(i) == L!Rank(rows[i], column)
<1>1. T \subseteq Nat /\ \A i \in T : rank(i) \in Nat
  BY RanksOfRows
<1>2. PICK r \in {rank(i) : i \in T} : \A s \in {rank(i) : i \in T} : r <= s
  BY <1>1, HasLeast
<1> DEFINE lowest == {i \in T : rank(i) = r}
<1>3. PICK m \in lowest : \A k \in lowest : m <= k
  BY <1>1, <1>2, HasLeast
<1>4. ASSUME NEW k \in T, k # m PROVE L!Precedes(rows, column, m, k)
  <2>1. /\ rank(m) = r /\ r <= rank(k)
        /\ {m, k, rank(m), rank(k)} \subseteq Nat
    BY <1>1, <1>2, <1>3
  <2>2. rank(k) = r => m <= k
    BY <1>3
  <2>3. rank(m) < rank(k) \/ (rank(m) = rank(k) /\ m < k)
    BY <1>4, <2>1, <2>2
  <2> QED BY <2>3 DEF L!Precedes
<1> QED BY <1>3, <1>4

\* More rows than places: two rows have one place.
LEMMA Crowded ==
    ASSUME NEW n \in Nat, NEW k \in Nat, k < n, NEW f \in [1..n -> 1..k]
    PROVE  \E x, y \in 1..n : x # y /\ f[x] = f[y]
<1>1. IsFiniteSet(1..n) /\ Cardinality(1..n) = n
  <2>1. Cardinality(1..n) = IF 1 > n THEN 0 ELSE n - 1 + 1
    BY FS_Interval
  <2> QED BY <2>1, FS_Interval
<1>2. IsFiniteSet(1..k) /\ Cardinality(1..k) = k
  <2>1. Cardinality(1..k) = IF 1 > k THEN 0 ELSE k - 1 + 1
    BY FS_Interval
  <2> QED BY <2>1, FS_Interval
<1>3. Cardinality(1..k) < Cardinality(1..n)
  BY <1>1, <1>2
<1> QED BY <1>1, <1>2, <1>3, FS_PigeonHole

\* The k rows that precede the others, in their order.
Starts(rows, column, k, order) ==
    /\ order \in [1..k -> DOMAIN rows]
    /\ \A i, j \in 1..k : order[i] = order[j] => i = j
    /\ \A i, j \in 1..k : i < j => L!Precedes(rows, column, order[i], order[j])
    /\ \A i \in 1..k : \A m \in DOMAIN rows :
         (\A j \in 1..k : order[j] # m) => L!Precedes(rows, column, order[i], m)

\* Of the rows that are left, one comes next.
LEMMA OneMore ==
    ASSUME L!ListsAssumption, NEW rows \in Seq(L!Rows), NEW column,
           NEW k \in Nat, k < Len(rows), NEW order, Starts(rows, column, k, order)
    PROVE  \E longer : Starts(rows, column, k + 1, longer)
<1> DEFINE D == DOMAIN rows
           rest == {m \in D : \A j \in 1..k : order[j] # m}
<1>1. D = 1..Len(rows) /\ Len(rows) \in Nat
  BY RanksOfRows
<1>2. rest # {}
  <2> SUFFICES ASSUME rest = {} PROVE FALSE
    OBVIOUS
  <2>1. \A m \in D : \E j \in 1..k : order[j] = m
    <3> SUFFICES ASSUME NEW m \in D PROVE \E j \in 1..k : order[j] = m
      OBVIOUS
    <3>1. m \notin rest
      OBVIOUS
    <3> QED BY <3>1
  <2> DEFINE place == [m \in D |-> CHOOSE j \in 1..k : order[j] = m]
  <2>2. place \in [D -> 1..k] /\ \A m \in D : order[place[m]] = m
    <3> HIDE DEF D, rest
    <3>1. \A m \in D : LET j == CHOOSE j \in 1..k : order[j] = m
                       IN  j \in 1..k /\ order[j] = m
      BY <2>1
    <3> QED BY <3>1
  <2>3. \E x, y \in D : x # y /\ place[x] = place[y]
    <3> DEFINE n == Len(rows)
    <3>1. n \in Nat /\ k < n /\ D = 1..n /\ place \in [D -> 1..k]
      BY <1>1, <2>2
    <3> HIDE DEF place, D, n
    <3> QED BY <3>1, Crowded
  <2> HIDE DEF place
  <2> QED BY <2>2, <2>3
<1>3. PICK m \in rest : \A q \in rest : q # m => L!Precedes(rows, column, m, q)
  BY <1>2, OnePrecedes
<1> DEFINE longer == [i \in 1..(k + 1) |-> IF i = k + 1 THEN m ELSE order[i]]
<1>4. \A i \in 1..(k + 1) : i \in 1..k \/ (i = k + 1 /\ i \notin 1..k)
  OBVIOUS
<1>5. \A i \in 1..k : /\ i \in 1..(k + 1) /\ i # k + 1 /\ i < k + 1
                     /\ longer[i] = order[i]
  OBVIOUS
<1>6. k + 1 \in 1..(k + 1) /\ longer[k + 1] = m /\ m \in D
  OBVIOUS
<1>7. longer \in [1..(k + 1) -> D]
  BY <1>4, <1>6 DEF Starts
<1> HIDE DEF longer
<1>8. ASSUME NEW i \in 1..(k + 1), NEW j \in 1..(k + 1), longer[i] = longer[j]
      PROVE  i = j
  BY <1>4, <1>5, <1>6, <1>8 DEF Starts
<1>9. ASSUME NEW i \in 1..(k + 1), NEW j \in 1..(k + 1), i < j
      PROVE  L!Precedes(rows, column, longer[i], longer[j])
  <2>1. i \in 1..k
    BY <1>9
  <2>2. CASE j \in 1..k
    BY <1>5, <1>9, <2>1, <2>2 DEF Starts
  <2>3. CASE j = k + 1
    <3>1. longer[j] = m /\ longer[i] = order[i]
      BY <1>5, <1>6, <2>1, <2>3
    <3>2. m \in D /\ \A q \in 1..k : order[q] # m
      OBVIOUS
    <3> QED BY <2>1, <3>1, <3>2 DEF Starts
  <2> QED BY <1>4, <2>2, <2>3
<1>10. ASSUME NEW i \in 1..(k + 1), NEW q \in D,
              \A j \in 1..(k + 1) : longer[j] # q
       PROVE  L!Precedes(rows, column, longer[i], q)
  <2>1. q # m /\ q \in rest
    BY <1>5, <1>6, <1>10
  <2>2. CASE i \in 1..k
    BY <1>5, <2>1, <2>2 DEF Starts
  <2>3. CASE i = k + 1
    BY <1>3, <1>6, <2>1, <2>3
  <2> QED BY <1>4, <2>2, <2>3
<1> QED BY <1>7, <1>8, <1>9, <1>10 DEF Starts

\* n rows with n places: no place is free.
LEMMA AllPlaced ==
    ASSUME NEW n \in Nat, NEW o \in [1..n -> 1..n],
           \A i, j \in 1..n : o[i] = o[j] => i = j
    PROVE  \A m \in 1..n : \E i \in 1..n : o[i] = m
<1> SUFFICES ASSUME NEW m \in 1..n, \A i \in 1..n : o[i] # m PROVE FALSE
  OBVIOUS
<1> DEFINE f == [i \in 1..n |-> IF o[i] < m THEN o[i] ELSE o[i] - 1]
<1>1. \A i \in 1..n : o[i] \in 1..n /\ o[i] # m
  OBVIOUS
<1>2. ASSUME NEW i \in 1..n
      PROVE  f[i] \in 1..(n - 1) /\ f[i] = IF o[i] < m THEN o[i] ELSE o[i] - 1
  <2> DEFINE v == o[i]
  <2>1. v \in 1..n /\ v # m /\ f[i] = IF v < m THEN v ELSE v - 1
    BY <1>1
  <2> HIDE DEF v, f
  <2>2. f[i] \in 1..(n - 1)
    BY <2>1
  <2> QED BY <2>1, <2>2 DEF v
<1>3. f \in [1..n -> 1..(n - 1)] /\ n - 1 \in Nat /\ n - 1 < n
  <2>1. n - 1 \in Nat /\ n - 1 < n
    OBVIOUS
  <2> QED BY <1>2, <2>1
<1> HIDE DEF f
<1>4. ASSUME NEW x \in 1..n, NEW y \in 1..n, f[x] = f[y] PROVE o[x] = o[y]
  <2> DEFINE v == o[x]
             w == o[y]
  <2>1. /\ v \in 1..n /\ v # m /\ f[x] = IF v < m THEN v ELSE v - 1
        /\ w \in 1..n /\ w # m /\ f[y] = IF w < m THEN w ELSE w - 1
    BY <1>1, <1>2
  <2> HIDE DEF v, w
  <2>2. v \in Int /\ w \in Int /\ m \in Int
    BY <2>1
  <2>3. (IF v < m THEN v ELSE v - 1) = (IF w < m THEN w ELSE w - 1)
    BY <1>4, <2>1
  <2>4. v # m /\ w # m
    BY <2>1
  <2>5. v = w
    BY <2>2, <2>3, <2>4
  <2> QED BY <2>5 DEF v, w
<1>5. PICK x \in 1..n, y \in 1..n : x # y /\ f[x] = f[y]
  BY <1>3, Crowded
<1> QED BY <1>4, <1>5

\* Rows can be sorted.
LEMMA SomeOrder ==
    ASSUME L!ListsAssumption, NEW rows \in Seq(L!Rows), NEW column
    PROVE  Sorts(rows, column, L!Ascending(rows, column))
<1> DEFINE n == Len(rows)
           bad == {k \in 0..n : ~ \E order : Starts(rows, column, k, order)}
<1>1. DOMAIN rows = 1..n /\ n \in Nat
  BY RanksOfRows
<1>2. \E order : Starts(rows, column, 0, order)
  <2> DEFINE none == [i \in 1..0 |-> 0]
  <2>1. Starts(rows, column, 0, none)
    BY DEF Starts
  <2> QED BY <2>1
<1>3. bad = {}
  <2> SUFFICES ASSUME bad # {} PROVE FALSE
    OBVIOUS
  <2>1. PICK k \in bad : \A m \in bad : k <= m
    <3>1. bad \subseteq Nat
      BY <1>1
    <3> HIDE DEF bad
    <3> QED BY <3>1, HasLeast
  <2>2. k \in 0..n /\ k # 0 /\ ~ \E order : Starts(rows, column, k, order)
    BY <1>2
  <2>3. /\ k - 1 \in 0..n /\ k - 1 \in Nat
        /\ ~(k <= k - 1) /\ k - 1 < n /\ (k - 1) + 1 = k
    BY <1>1, <2>2
  <2>4. PICK order : Starts(rows, column, k - 1, order)
    BY <2>1, <2>3
  <2>5. \E longer : Starts(rows, column, (k - 1) + 1, longer)
    <3> DEFINE j == k - 1
    <3>1. j \in Nat /\ j < Len(rows) /\ Starts(rows, column, j, order)
      BY <2>3, <2>4
    <3> HIDE DEF j
    <3>2. \E longer : Starts(rows, column, j + 1, longer)
      BY <3>1, OneMore
    <3> QED BY <3>2 DEF j
  <2> QED BY <2>2, <2>3, <2>5
<1>4. PICK order : Starts(rows, column, n, order)
  <2>1. n \in 0..n
    BY <1>1
  <2> QED BY <1>3, <2>1
<1>5. \A m \in 1..n : \E i \in 1..n : order[i] = m
  <2>1. /\ order \in [1..n -> 1..n]
        /\ \A i, j \in 1..n : order[i] = order[j] => i = j
    BY <1>1, <1>4 DEF Starts
  <2> QED BY <1>1, <2>1, AllPlaced
<1>6. Sorts(rows, column, order)
  <2> HIDE DEF n
  <2> QED BY <1>1, <1>4, <1>5 DEF Starts, Sorts
<1> QED BY <1>6, Sorting

-----------------------------------------------------------------------------
\* The rows are in the order of their health.
InHealthOrder(rows) ==
    \A i, j \in DOMAIN rows : i < j => rows[i].health <= rows[j].health

ByHealth(column) == [id |-> column, desc |-> FALSE]

\* What the selectors return is.
LEMMA FetchedInOrder ==
    ASSUME L!ListsAssumption, NoPage # "health", NEW rows \in Seq(L!Rows)
    PROVE  /\ L!Fetched(rows) \in Seq(L!Rows) /\ Len(L!Fetched(rows)) = Len(rows)
           /\ InHealthOrder(L!Fetched(rows))
<1> DEFINE up == L!Ascending(rows, "health")
           n == Len(rows)
           sorted == [i \in DOMAIN rows |-> rows[up[i]]]
<1>1. DOMAIN rows = 1..n /\ n \in Nat /\ rows \in [1..n -> L!Rows]
  BY LenProperties
<1>2. Sorts(rows, "health", up)
  BY SomeOrder
<1>3. L!Fetched(rows) = sorted
  BY DEF L!Fetched, L!Sorted
<1>4. up \in [1..n -> 1..n]
  BY <1>1, <1>2 DEF Sorts
<1> HIDE DEF up
<1>5. sorted \in [1..n -> L!Rows] /\ \A i \in 1..n : sorted[i] = rows[up[i]]
  BY <1>1, <1>4
<1>6. sorted \in Seq(L!Rows) /\ Len(sorted) = n /\ DOMAIN sorted = 1..n
  BY <1>1, <1>5
<1>7. ASSUME NEW i \in 1..n, NEW j \in 1..n, i < j
      PROVE  sorted[i].health <= sorted[j].health
  <2>1. L!Precedes(rows, "health", up[i], up[j])
    BY <1>1, <1>2, <1>7 DEF Sorts
  <2>2. rows[up[i]].health \in Nat /\ rows[up[j]].health \in Nat
    BY <1>1, <1>4 DEF L!Rows, L!ListsAssumption
  <2>3. rows[up[i]].health <= rows[up[j]].health
    BY <2>1, <2>2 DEF L!Precedes, L!Rank
  <2> QED BY <1>5, <2>3
<1> HIDE DEF sorted
<1> QED BY <1>3, <1>6, <1>7 DEF InHealthOrder

\* Rows in order stay where they are when they are sorted again.
LEMMA SortedStays ==
    ASSUME L!ListsAssumption, NEW rows \in Seq(L!Rows), InHealthOrder(rows),
           NEW column \in {"health", "severity"}, NoPage # column
    PROVE  L!Sorted(rows, ByHealth(column)) = rows
<1> DEFINE up == L!Ascending(rows, column)
           n == Len(rows)
           bad == {i \in 1..n : up[i] # i}
<1>1. DOMAIN rows = 1..n /\ n \in Nat /\ rows \in [1..n -> L!Rows]
  BY LenProperties
<1>2. /\ up \in [1..n -> 1..n]
      /\ \A i, j \in 1..n : up[i] = up[j] => i = j
      /\ \A k \in 1..n : \E i \in 1..n : up[i] = k
      /\ \A i, j \in 1..n : i < j => L!Precedes(rows, column, up[i], up[j])
  <2>1. Sorts(rows, column, up)
    BY SomeOrder
  <2> HIDE DEF up, n
  <2> QED BY <1>1, <2>1 DEF Sorts
<1> HIDE DEF up
<1>3. ASSUME NEW i \in 1..n, NEW j \in 1..n, L!Precedes(rows, column, i, j)
      PROVE  i < j
  <2>1. /\ rows[i].health \in Nat /\ rows[j].health \in Nat
        /\ i \in Nat /\ j \in Nat
    <3>1. rows[i] \in L!Rows /\ rows[j] \in L!Rows /\ Ranks \subseteq Nat
      BY <1>1 DEF L!ListsAssumption
    <3>2. i \in Nat /\ j \in Nat
      BY <1>1
    <3> QED BY <3>1, <3>2 DEF L!Rows
  <2>2. \/ rows[i].health < rows[j].health
        \/ rows[i].health = rows[j].health /\ i < j
    BY <1>3 DEF L!Precedes, L!Rank
  <2>3. CASE rows[i].health < rows[j].health
    <3>1. ~(j < i)
      BY <1>1, <2>1, <2>3 DEF InHealthOrder
    <3>2. i # j
      BY <2>1, <2>3
    <3> QED BY <2>1, <3>1, <3>2
  <2> QED BY <2>2, <2>3
<1>4. \A i, j \in 1..n : i < j => up[i] < up[j]
  BY <1>2, <1>3
<1>5. bad = {}
  <2> SUFFICES ASSUME bad # {} PROVE FALSE
    OBVIOUS
  <2>1. PICK i \in bad : \A j \in bad : i <= j
    <3>1. bad \subseteq Nat
      BY <1>1
    <3> HIDE DEF bad
    <3> QED BY <3>1, HasLeast
  <2>2. i \in 1..n /\ up[i] # i /\ up[i] \in 1..n
    BY <1>2
  <2>3. \A j \in 1..n : j < i => up[j] = j
    BY <2>1, <2>2
  <2>4. PICK k \in 1..n : up[k] = i
    BY <1>2, <2>2
  <2>5. ~(k < i)
    BY <2>2, <2>3, <2>4
  <2>6. k # i
    BY <2>2, <2>4
  <2>7. i < k
    BY <2>2, <2>4, <2>5, <2>6
  <2>8. up[i] < i
    BY <1>4, <2>2, <2>4, <2>7
  <2>9. up[up[i]] = up[i]
    BY <2>2, <2>3, <2>8
  <2> QED BY <1>2, <2>2, <2>9
<1>6. \A i \in 1..n : up[i] = i
  BY <1>5
<1>7. L!Sorted(rows, ByHealth(column)) = [i \in DOMAIN rows |-> rows[up[i]]]
  BY DEF L!Sorted, ByHealth, up
<1> QED BY <1>1, <1>6, <1>7

\* What the query of a location may be, a location, and the tables of pages.
ListPages == {"volumes", "nodes", "alerts"}
Texts == Words \cup {"", NoPage}
Orders == [id : L!Columns \cup {NoPage}, desc : BOOLEAN]
TabOrders == [id : L!NodeVolumesColumns \cup {NoPage}, desc : BOOLEAN]
Queries == [sort : L!Columns \cup {NoPage}, desc : BOOLEAN, search : Texts,
            node : Ranks \cup {L!NoRow}]
Locations == [page : ListPages, row : Ranks \cup {L!NoRow},
              tab : Shown \cup {"overview", NoPage}, query : Queries]
Typings == [word : Words \cup {""}, page : ListPages \cup {NoPage}, query : Queries]

\* The query says what the table shows.
InSync ==
    L!Synced(lAt.query, lTable.sortBy, L!TableOf(lAt.page).default) = lAt.query

ListsTypes ==
    /\ lData \in Seq(L!Rows)
    /\ lAt \in Locations /\ lPast \in Seq(Locations)
    /\ lTable \in [sortBy : Orders, filter : Texts]
    /\ lTable.sortBy.id \in L!TableOf(lAt.page).columns \cup {NoPage}
    /\ lTabSort \in TabOrders /\ lTyped \in Typings
    /\ lDue \in BOOLEAN
    /\ lReplaces \in 0..MaxReplaces /\ lMoves \in 0..MaxMoves

\* The rows come sorted by health, whatever the table does with them.
DataInv == InHealthOrder(lData)

SyncInv == ~lDue => lData = <<>> \/ InSync

\* A page without a row may still be redirected to its first, once, and a
\* query that is not in sync replaced, once.
LoopInv ==
    lReplaces <= (IF lAt.row = L!NoRow THEN 1 ELSE 3) - (IF InSync THEN 0 ELSE 1)

ListsInv == ListsTypes /\ DataInv /\ SyncInv /\ LoopInv

-----------------------------------------------------------------------------
\* What the operators on tables and queries return.
LEMMA TablesFit ==
    ASSUME NEW page \in ListPages
    PROVE  /\ L!TableOf(page).columns \subseteq L!Columns
           /\ L!TableOf(page).default \in L!TableOf(page).columns
           /\ L!TableOf(page).default \in {"health", "severity"}
BY DEF ListPages, L!TableOf, L!VolumeTable, L!NodeTable, L!AlertTable,
       L!Columns, L!VolumeColumns, L!NodeColumns, L!AlertColumns

LEMMA MountedFits ==
    ASSUME NEW page \in ListPages, NEW query \in Queries
    PROVE  /\ L!Mounted(page, query) \in [sortBy : Orders, filter : Texts]
           /\ L!Mounted(page, query).sortBy.id \in L!TableOf(page).columns \cup {NoPage}
<1> DEFINE t == L!TableOf(page)
<1>1. t.columns \subseteq L!Columns /\ t.default \in t.columns
  BY TablesFit
<1>2. /\ query.desc \in BOOLEAN /\ query.search \in Texts
      /\ query.sort \in L!Columns \cup {NoPage} /\ NoPage \in Texts
  BY DEF Queries, Texts
<1> HIDE DEF t
<1>3. L!Mounted(page, query) =
        [sortBy |-> IF query.sort = NoPage
                    THEN [id |-> t.default, desc |-> query.desc]
                    ELSE IF query.sort \in t.columns
                         THEN [id |-> query.sort, desc |-> query.desc] ELSE L!Unsorted,
         filter |-> IF query.search = "" THEN NoPage ELSE query.search]
  BY DEF L!Mounted, t
<1>4. /\ NoPage \in L!Columns \cup {NoPage}
      /\ t.columns \cup {NoPage} \subseteq L!Columns \cup {NoPage}
  BY <1>1
<1> DEFINE sortBy == IF query.sort = NoPage
                     THEN [id |-> t.default, desc |-> query.desc]
                     ELSE IF query.sort \in t.columns
                          THEN [id |-> query.sort, desc |-> query.desc] ELSE L!Unsorted
           filter == IF query.search = "" THEN NoPage ELSE query.search
<1>5. sortBy.id \in t.columns \cup {NoPage} /\ sortBy \in Orders
  BY <1>1, <1>2, <1>4 DEF Orders, L!Unsorted
<1>6. filter \in Texts
  BY <1>2
<1> HIDE DEF sortBy, filter
<1>7. L!Mounted(page, query) = [sortBy |-> sortBy, filter |-> filter]
  BY <1>3 DEF sortBy, filter
<1> QED BY <1>5, <1>6, <1>7 DEF t

LEMMA ToggledFits ==
    ASSUME NEW columns, NEW column \in columns,
           NEW sortBy \in [id : columns \cup {NoPage}, desc : BOOLEAN]
    PROVE  L!Toggled(sortBy, column) \in [id : columns \cup {NoPage}, desc : BOOLEAN]
BY DEF L!Toggled, L!Unsorted

\* A query that was replaced is in sync.
LEMMA SyncedFits ==
    ASSUME NEW query \in Queries, NEW sortBy \in Orders, NEW default
    PROVE  /\ L!Synced(query, sortBy, default) \in Queries
           /\ L!Synced(L!Synced(query, sortBy, default), sortBy, default)
                = L!Synced(query, sortBy, default)
<1> USE DEF L!Synced, Orders
<1>1. CASE sortBy.id = NoPage \/ (sortBy.id = default /\ ~sortBy.desc)
  BY <1>1 DEF Queries
<1>2. CASE ~(sortBy.id = NoPage \/ (sortBy.id = default /\ ~sortBy.desc))
  BY <1>2 DEF Queries
<1> QED BY <1>1, <1>2

\* The counts stay within their bounds.
LEMMA CountsBounded ==
    ASSUME L!ListsAssumption
    PROVE  /\ 0 \in 0..MaxReplaces /\ 0 \in 0..MaxMoves
           /\ ListsTypes => lReplaces \in Nat
           /\ (ListsTypes /\ L!Move) => lMoves' \in 0..MaxMoves
           /\ (ListsTypes /\ lReplaces < MaxReplaces /\ lReplaces' = lReplaces + 1)
                => lReplaces' \in 0..MaxReplaces
<1>1. MaxMoves \in Nat /\ MaxReplaces \in Nat
  BY DEF L!ListsAssumption
<1>2. ListsTypes => lReplaces \in 0..MaxReplaces /\ lMoves \in 0..MaxMoves
  BY DEF ListsTypes
<1> QED BY <1>1, <1>2 DEF L!Move

\* The rows of the data.
LEMMA DataFits ==
    ASSUME ListsTypes
    PROVE  /\ lData \in Seq(L!Rows) /\ Len(lData) \in Nat
           /\ DOMAIN lData = 1..Len(lData)
           /\ \A i \in DOMAIN lData : lData[i] \in L!Rows
<1>1. lData \in Seq(L!Rows)
  BY DEF ListsTypes
<1>2. DOMAIN lData = 1..Len(lData) /\ Len(lData) \in Nat
  BY <1>1, LenProperties
<1> QED BY <1>1, <1>2, ElementOfSeq

LEMMA ListsStart ==
    ASSUME L!ListsAssumption, L!Init
    PROVE  ListsInv
<1>1. L!NoQuery \in Queries
  BY DEF L!NoQuery, Queries, Texts
<1>2. /\ lAt.page \in ListPages
      /\ lAt = L!Location(lAt.page, L!NoRow, NoPage, L!NoQuery)
      /\ lAt.query = L!NoQuery
  <2>1. PICK p \in ListPages : lAt = L!Location(p, L!NoRow, NoPage, L!NoQuery)
    BY DEF L!Init, ListPages
  <2> QED BY <2>1 DEF L!Location
<1>3. lAt \in Locations
  BY <1>1, <1>2 DEF Locations, L!Location
<1>4. /\ lTable \in [sortBy : Orders, filter : Texts]
      /\ lTable.sortBy.id \in L!TableOf(lAt.page).columns \cup {NoPage}
  <2>1. lTable = L!Mounted(lAt.page, L!NoQuery)
    BY <1>2 DEF L!Init
  <2> QED BY <1>1, <1>2, <2>1, MountedFits
<1>5. lData \in Seq(L!Rows) /\ lPast \in Seq(Locations) /\ lData = <<>>
  <2>1. lData = <<>> /\ lPast = <<>>
    BY DEF L!Init
  <2> QED BY <2>1
<1>6. lTabSort \in TabOrders
  BY DEF L!Init, L!NodeVolumesTable, L!NodeVolumesColumns, TabOrders
<1>7. lTyped \in Typings
  <2>1. lTyped = [word |-> "", page |-> NoPage, query |-> L!NoQuery]
    BY DEF L!Init
  <2> QED BY <1>1, <2>1 DEF Typings
<1>8. lDue \in BOOLEAN /\ lReplaces \in 0..MaxReplaces /\ lMoves \in 0..MaxMoves
  BY CountsBounded DEF L!Init
<1>9. ListsTypes
  BY <1>3, <1>4, <1>5, <1>6, <1>7, <1>8 DEF ListsTypes
<1>10. DataInv
  BY <1>5 DEF DataInv, InHealthOrder
<1>11. SyncInv /\ LoopInv
  <2>1. lDue = TRUE /\ lReplaces = 0
    BY DEF L!Init
  <2>2. /\ lReplaces <= 1 - 1 /\ lReplaces <= 1
        /\ lReplaces <= 3 - 1 /\ lReplaces <= 3
    BY <2>1
  <2> QED BY <2>1, <2>2 DEF SyncInv, LoopInv
<1> QED BY <1>9, <1>10, <1>11 DEF ListsInv

-----------------------------------------------------------------------------
\* Another location: its table, its tab, and the one before it.
LEMMA PushFits ==
    ASSUME L!ListsAssumption, ListsTypes, NEW location \in Locations, L!Push(location)
    PROVE  /\ lAt' \in Locations /\ lPast' \in Seq(Locations)
           /\ lTable' \in [sortBy : Orders, filter : Texts]
           /\ lTable'.sortBy.id \in L!TableOf(lAt'.page).columns \cup {NoPage}
           /\ lTabSort' \in TabOrders
           /\ lDue' = TRUE /\ lReplaces' = 0 /\ lReplaces' \in 0..MaxReplaces
<1>1. lAt' = location /\ lPast' = Append(lPast, lAt) /\ lDue' = TRUE /\ lReplaces' = 0
  BY DEF L!Push
<1>2. lPast' \in Seq(Locations)
  BY <1>1, AppendProperties DEF ListsTypes
<1>3. lTabSort' \in TabOrders
  BY DEF L!Push, L!ShowTab, ListsTypes, L!NodeVolumesTable,
         L!NodeVolumesColumns, TabOrders
<1>4. /\ lTable' \in [sortBy : Orders, filter : Texts]
      /\ lTable'.sortBy.id \in L!TableOf(lAt'.page).columns \cup {NoPage}
  <2>1. CASE location.page = lAt.page
    <3>1. lTable' = lTable
      BY <2>1 DEF L!Push
    <3> QED BY <1>1, <2>1, <3>1 DEF ListsTypes
  <2>2. CASE location.page # lAt.page
    <3>1. location.page \in ListPages /\ location.query \in Queries
      BY DEF Locations
    <3>2. lTable' = L!Mounted(location.page, location.query)
      BY <2>2 DEF L!Push
    <3> QED BY <1>1, <3>1, <3>2, MountedFits
  <2> QED BY <2>1, <2>2
<1> QED BY <1>1, <1>2, <1>3, <1>4, CountsBounded

\* What a step that goes to a location leaves to say of it.
LEMMA PushTypes ==
    ASSUME L!ListsAssumption, ListsTypes, NEW location \in Locations,
           L!Push(location), L!Move, UNCHANGED <<lData, lTyped>>
    PROVE  ListsTypes' /\ lDue' = TRUE /\ lReplaces' = 0 /\ lData' = lData
<1>1. lMoves' \in 0..MaxMoves
  BY CountsBounded
<1>2. lData' \in Seq(L!Rows) /\ lTyped' = lTyped /\ lData' = lData
  BY DEF ListsTypes
<1> QED BY <1>1, <1>2, PushFits DEF ListsTypes

\* The parts of a location, and the rows it may name.
LEMMA PartsOf ==
    ASSUME L!ListsAssumption, ListsTypes
    PROVE  /\ lAt.page \in ListPages /\ lAt.row \in Ranks \cup {L!NoRow}
           /\ lAt.tab \in Shown \cup {"overview", NoPage} /\ lAt.query \in Queries
           /\ L!NoQuery \in Queries
           /\ \A n \in Ranks : [L!NoQuery EXCEPT !.node = n] \in Queries
           /\ lAt.query.node \in Ranks \cup {L!NoRow}
           /\ \A i \in DOMAIN lData : lData[i].name \in Ranks
<1>1. /\ lAt.page \in ListPages /\ lAt.row \in Ranks \cup {L!NoRow}
      /\ lAt.tab \in Shown \cup {"overview", NoPage} /\ lAt.query \in Queries
  BY DEF ListsTypes, Locations
<1>2. /\ L!NoQuery \in Queries
      /\ \A n \in Ranks : [L!NoQuery EXCEPT !.node = n] \in Queries
  BY DEF L!NoQuery, Queries, Texts
<1>3. lAt.query.node \in Ranks \cup {L!NoRow}
  BY <1>1 DEF Queries
<1>4. \A i \in DOMAIN lData : lData[i].name \in Ranks
  <2> SUFFICES ASSUME NEW i \in DOMAIN lData PROVE lData[i].name \in Ranks
    OBVIOUS
  <2>1. lData[i] \in L!Rows
    BY DataFits
  <2> QED BY <2>1 DEF L!Rows
<1> QED BY <1>1, <1>2, <1>3, <1>4

\* Each step keeps the types.
LEMMA UseTableSortTypes ==
    ASSUME L!ListsAssumption, ListsTypes, L!UseTableSortURLSync
    PROVE  ListsTypes'
<1> DEFINE default == L!TableOf(lAt.page).default
           query == L!Synced(lAt.query, lTable.sortBy, default)
<1>1. query \in Queries
  <2>1. lAt.query \in Queries /\ lTable.sortBy \in Orders
    BY DEF ListsTypes, Locations
  <2> QED BY <2>1, SyncedFits
<1>2. lAt' = lAt \/ lAt' = [lAt EXCEPT !.query = query]
  BY DEF L!UseTableSortURLSync
<1> HIDE DEF query
<1>3. lAt' \in Locations /\ lAt'.page = lAt.page
  BY <1>1, <1>2 DEF ListsTypes, Locations
<1>4. lDue' \in BOOLEAN /\ lReplaces' \in 0..MaxReplaces
  <2>1. /\ lDue' \in BOOLEAN /\ lReplaces < MaxReplaces
        /\ lReplaces' = lReplaces \/ lReplaces' = lReplaces + 1
    BY DEF L!UseTableSortURLSync
  <2> QED BY <2>1, CountsBounded DEF ListsTypes
<1> QED BY <1>3, <1>4 DEF L!UseTableSortURLSync, ListsTypes

LEMMA ClickHeaderTypes ==
    ASSUME L!ListsAssumption, ListsTypes, NEW column \in Clicked,
           L!ClickHeader(column) \/ L!ClickTabHeader(column)
    PROVE  ListsTypes'
<1>1. lMoves' \in 0..MaxMoves
  BY CountsBounded DEF L!ClickHeader, L!ClickTabHeader
<1>2. CASE L!ClickHeader(column)
  <2> DEFINE columns == L!TableOf(lAt.page).columns
  <2>1. /\ column \in columns
        /\ lTable' = [lTable EXCEPT !.sortBy = L!Toggled(@, column)]
    BY <1>2 DEF L!ClickHeader
  <2>2. columns \subseteq L!Columns
    BY TablesFit DEF ListsTypes, Locations
  <2>3. lTable.sortBy \in [id : columns \cup {NoPage}, desc : BOOLEAN]
    BY DEF ListsTypes, Orders
  <2> HIDE DEF columns
  <2>4. L!Toggled(lTable.sortBy, column) \in [id : columns \cup {NoPage}, desc : BOOLEAN]
    BY <2>1, <2>3, ToggledFits
  <2>5. /\ lTable' \in [sortBy : Orders, filter : Texts]
        /\ lTable'.sortBy.id \in columns \cup {NoPage}
    BY <2>1, <2>2, <2>4 DEF ListsTypes, Orders
  <2> QED BY <1>1, <1>2, <2>5, CountsBounded
             DEF L!ClickHeader, ListsTypes, columns
<1>3. CASE L!ClickTabHeader(column)
  <2>1. column \in L!NodeVolumesColumns /\ lTabSort' = L!Toggled(lTabSort, column)
    BY <1>3 DEF L!ClickTabHeader, L!NodeVolumesTable
  <2>2. lTabSort' \in TabOrders
    BY <2>1, ToggledFits DEF ListsTypes, TabOrders
  <2> QED BY <1>1, <1>3, <2>2 DEF L!ClickTabHeader, ListsTypes
<1> QED BY <1>2, <1>3

LEMMA TypeTypes ==
    ASSUME L!ListsAssumption, ListsTypes, NEW word \in Words \cup {""}, L!Type(word)
    PROVE  ListsTypes'
<1>1. lMoves' \in 0..MaxMoves /\ lReplaces' \in 0..MaxReplaces
  BY CountsBounded DEF L!Type
<1>2. lTyped' \in Typings
  BY DEF L!Type, ListsTypes, Locations, Typings
<1> QED BY <1>1, <1>2 DEF L!Type, ListsTypes

LEMMA SearchTypes ==
    ASSUME L!ListsAssumption, ListsTypes, NEW page \in ListPages, L!Search(page)
    PROVE  ListsTypes'
<1> DEFINE query == [(IF lAt.page = page THEN lAt.query ELSE lTyped.query)
                     EXCEPT !.search = lTyped.word]
<1>1. query \in Queries
  <2>1. lAt.query \in Queries /\ lTyped.query \in Queries /\ lTyped.word \in Texts
    BY DEF ListsTypes, Locations, Texts, Typings
  <2> QED BY <2>1 DEF Queries
<1>2. lAt' = [lAt EXCEPT !.query = query] /\ lPast' = Append(lPast, lAt)
  BY DEF L!Search
<1> HIDE DEF query
<1>3. lAt' \in Locations /\ lAt'.page = lAt.page
  BY <1>1, <1>2 DEF ListsTypes, Locations
<1>4. lPast' \in Seq(Locations)
  BY <1>2, AppendProperties DEF ListsTypes
<1>5. lTable' \in [sortBy : Orders, filter : Texts] /\ lTable'.sortBy = lTable.sortBy
  BY DEF L!Search, ListsTypes, Texts, Typings
<1>6. lTyped' \in Typings
  BY DEF L!Search, ListsTypes, Typings
<1>7. /\ UNCHANGED <<lData, lTabSort, lMoves>> /\ lDue' = TRUE /\ lReplaces' = 0
  BY DEF L!Search
<1> QED BY <1>3, <1>4, <1>5, <1>6, <1>7, CountsBounded DEF ListsTypes

LEMMA RefreshTypes ==
    ASSUME L!ListsAssumption, ListsTypes, NEW rows \in Answers, L!Refresh(rows)
    PROVE  ListsTypes'
<1>1. lData' \in Seq(L!Rows)
  BY FetchedInOrder
     DEF L!Refresh, L!ListsAssumption, L!Columns, L!VolumeColumns
<1>2. L!Mounted(lAt.page, lAt.query).filter \in Texts
  BY MountedFits, PartsOf
<1>3. lTable' \in [sortBy : Orders, filter : Texts] /\ lTable'.sortBy = lTable.sortBy
  BY <1>2 DEF L!Refresh, ListsTypes
<1>4. /\ UNCHANGED <<lAt, lPast, lTabSort, lTyped, lMoves>> /\ lReplaces' = 0
      /\ lDue' \in BOOLEAN
  BY DEF L!Refresh, ListsTypes
<1> QED BY <1>1, <1>3, <1>4, CountsBounded DEF ListsTypes

LEMMA SelectTypes ==
    ASSUME L!ListsAssumption, ListsTypes, L!SelectFirstVolume \/ L!SelectDefaultNode
    PROVE  ListsTypes'
<1>1. lReplaces' \in 0..MaxReplaces
  BY CountsBounded DEF L!SelectFirstVolume, L!SelectDefaultNode
<1>2. lAt' \in Locations /\ lAt'.page = lAt.page
  <2>1. CASE L!SelectFirstVolume
    <3>1. 1 \in DOMAIN lData
      <4>1. lData # <<>>
        BY <2>1 DEF L!SelectFirstVolume
      <4>2. Len(lData) # 0
        BY <4>1, DataFits, EmptySeq
      <4> QED BY <4>2, DataFits
    <3>2. lData[1].name \in Ranks
      BY <3>1, PartsOf
    <3>3. /\ lAt' = L!Location("volumes", lData[1].name, "overview", lAt.query)
          /\ lAt.page = "volumes"
      BY <2>1 DEF L!SelectFirstVolume
    <3> QED BY <3>2, <3>3, PartsOf DEF L!Location, Locations
  <2>2. CASE L!SelectDefaultNode
    <3>1. PICK i \in DOMAIN lData :
            lAt' = L!Location("nodes", lData[i].name, "overview", L!NoQuery)
      BY <2>2 DEF L!SelectDefaultNode
    <3>2. lData[i].name \in Ranks /\ lAt.page = "nodes"
      BY <2>2, PartsOf DEF L!SelectDefaultNode
    <3> QED BY <3>1, <3>2, PartsOf DEF L!Location, Locations
  <2> QED BY <2>1, <2>2
<1>3. lDue' = TRUE
  BY DEF L!SelectFirstVolume, L!SelectDefaultNode
<1>4. UNCHANGED <<lData, lPast, lTable, lTabSort, lBox, lTyped, lMoves>>
  BY DEF L!SelectFirstVolume, L!SelectDefaultNode
<1> QED BY <1>1, <1>2, <1>3, <1>4 DEF ListsTypes

\* The step of a user who goes to a location; those of the steps are good.
Goes == \E l \in Locations : L!Push(l) /\ L!Move /\ UNCHANGED <<lData, lTyped>>

LEMMA PushedTypes ==
    ASSUME L!ListsAssumption, ListsTypes,
           \/ \E i \in DOMAIN lData : L!ClickVolume(lData[i]) \/ L!ClickNode(lData[i])
           \/ \E name \in Ranks : L!ClickVolumeOfNode(name)
           \/ \E tab \in Shown : L!SwitchTab(tab)
           \/ \E page \in {"volumes", "nodes", "alerts"} : L!Open(page)
    PROVE  ListsTypes' /\ lDue' = TRUE /\ lReplaces' = 0 /\ lData' = lData
<1>1. ASSUME NEW i \in DOMAIN lData, L!ClickVolume(lData[i])
      PROVE  Goes
  <2>1. lData[i].name \in Ranks /\ lAt.page = "volumes"
    BY <1>1, PartsOf DEF L!ClickVolume
  <2> DEFINE l == IF lAt.query.node # L!NoRow
            THEN L!Location("volumes", lData[i].name, "overview",
                          [L!NoQuery EXCEPT !.node = lAt.query.node])
            ELSE L!Location("volumes", lData[i].name,
                   IF lAt.row # L!NoRow /\ lAt.tab \in {"alerts", "metrics", "details"}
                   THEN lAt.tab ELSE "overview", lAt.query)
  <2>2. l \in Locations
    <3>1. CASE lAt.query.node # L!NoRow
      <4>1. [L!NoQuery EXCEPT !.node = lAt.query.node] \in Queries
        BY <3>1, PartsOf
      <4> QED BY <2>1, <3>1, <4>1 DEF L!Location, Locations, ListPages
    <3>2. CASE lAt.query.node = L!NoRow
      <4> DEFINE tab == IF /\ lAt.row # L!NoRow
                           /\ lAt.tab \in {"alerts", "metrics", "details"}
                        THEN lAt.tab ELSE "overview"
      <4>1. tab \in Shown \cup {"overview", NoPage}
        BY PartsOf
      <4>2. l = L!Location("volumes", lData[i].name, tab, lAt.query)
        BY <3>2
      <4> HIDE DEF tab, l
      <4> QED BY <2>1, <4>1, <4>2, PartsOf DEF L!Location, Locations, ListPages
    <3> QED BY <3>1, <3>2
  <2>3. L!Push(l) /\ L!Move /\ UNCHANGED <<lData, lTyped>>
    BY <1>1 DEF L!ClickVolume
  <2> QED BY <2>2, <2>3 DEF Goes
<1>2. ASSUME NEW i \in DOMAIN lData, L!ClickNode(lData[i])
      PROVE  Goes
  <2> DEFINE l == L!Location("nodes", lData[i].name,
                           IF lAt.row = L!NoRow THEN "overview" ELSE lAt.tab, lAt.query)
  <2>1. l \in Locations
    BY PartsOf DEF L!Location, Locations, ListPages
  <2>2. L!Push(l) /\ L!Move /\ UNCHANGED <<lData, lTyped>>
    BY <1>2 DEF L!ClickNode
  <2> QED BY <2>1, <2>2 DEF Goes
<1>3. ASSUME NEW name \in Ranks, L!ClickVolumeOfNode(name)
      PROVE  Goes
  <2> DEFINE l == L!Location("volumes", name, "overview",
                           [L!NoQuery EXCEPT !.node = lAt.row])
  <2>1. lAt.row \in Ranks
    BY <1>3, PartsOf DEF L!ClickVolumeOfNode
  <2>2. [L!NoQuery EXCEPT !.node = lAt.row] \in Queries
    BY <2>1, PartsOf
  <2>3. l \in Locations
    BY <2>2 DEF L!Location, Locations, ListPages
  <2>4. L!Push(l) /\ L!Move /\ UNCHANGED <<lData, lTyped>>
    BY <1>3 DEF L!ClickVolumeOfNode
  <2> QED BY <2>3, <2>4 DEF Goes
<1>4. ASSUME NEW tab \in Shown, L!SwitchTab(tab)
      PROVE  Goes
  <2> DEFINE l == [lAt EXCEPT !.tab = tab]
  <2>1. l \in Locations
    BY DEF ListsTypes, Locations
  <2>2. L!Push(l) /\ L!Move /\ UNCHANGED <<lData, lTyped>>
    BY <1>4 DEF L!SwitchTab
  <2> QED BY <2>1, <2>2 DEF Goes
<1>5. ASSUME NEW page \in {"volumes", "nodes", "alerts"}, L!Open(page)
      PROVE  Goes
  <2> DEFINE l == L!Location(page, L!NoRow, NoPage, L!NoQuery)
  <2>1. l \in Locations
    BY PartsOf DEF L!Location, Locations, ListPages
  <2>2. L!Push(l) /\ L!Move /\ UNCHANGED <<lData, lTyped>>
    BY <1>5 DEF L!Open
  <2> QED BY <2>1, <2>2 DEF Goes
<1>6. PICK l \in Locations : L!Push(l) /\ L!Move /\ UNCHANGED <<lData, lTyped>>
  BY <1>1, <1>2, <1>3, <1>4, <1>5 DEF Goes
<1> QED BY <1>6, PushTypes

LEMMA BackTypes ==
    ASSUME L!ListsAssumption, ListsTypes, L!Back
    PROVE  ListsTypes'
<1> DEFINE to == L!Last(lPast)
<1>1. to \in Locations /\ L!Front(lPast) \in Seq(Locations)
  <2>1. lPast \in Seq(Locations) /\ lPast # <<>>
    BY DEF L!Back, ListsTypes
  <2>2. /\ Len(lPast) \in Nat /\ Len(lPast) >= 1
        /\ lPast \in [1..Len(lPast) -> Locations]
    BY <2>1, LenProperties, EmptySeq
  <2>3. lPast[Len(lPast)] \in Locations
    BY <2>2
  <2>4. SubSeq(lPast, 1, Len(lPast) - 1) \in Seq(Locations)
    BY <2>1, <2>2, SubSeqProperties
  <2> QED BY <2>3, <2>4 DEF L!Last, L!Front
<1>2. /\ lAt' = to /\ lPast' = L!Front(lPast) /\ L!ShowTab(to)
      /\ to.page = lAt.page => lTable' = lTable
      /\ to.page # lAt.page => lTable' = L!Mounted(to.page, to.query)
      /\ UNCHANGED <<lData, lTyped>> /\ lDue' = TRUE /\ lReplaces' = 0
  BY DEF L!Back
<1> HIDE DEF to
<1>3. lTabSort' \in TabOrders
  BY <1>2 DEF L!ShowTab, ListsTypes, L!NodeVolumesTable, L!NodeVolumesColumns,
              TabOrders
<1>4. /\ lTable' \in [sortBy : Orders, filter : Texts]
      /\ lTable'.sortBy.id \in L!TableOf(lAt'.page).columns \cup {NoPage}
  <2>1. CASE to.page = lAt.page
    <3>1. lTable' = lTable /\ lAt'.page = lAt.page
      BY <1>2, <2>1
    <3> QED BY <3>1 DEF ListsTypes
  <2>2. CASE to.page # lAt.page
    <3>1. to.page \in ListPages /\ to.query \in Queries
      BY <1>1 DEF Locations
    <3> QED BY <1>2, <2>2, <3>1, MountedFits
  <2> QED BY <2>1, <2>2
<1>5. lMoves' \in 0..MaxMoves /\ 0 \in 0..MaxReplaces
  BY CountsBounded DEF L!Back
<1> QED BY <1>1, <1>2, <1>3, <1>4, <1>5 DEF ListsTypes

LEMMA ReloadTypes ==
    ASSUME L!ListsAssumption, ListsTypes, L!Reload
    PROVE  ListsTypes'
<1>1. /\ lTable' = L!Mounted(lAt.page, lAt.query) /\ lAt' = lAt /\ lPast' = lPast
      /\ lData' = <<>> /\ lDue' = TRUE /\ lReplaces' = 0
  BY DEF L!Reload
<1>2. /\ lTable' \in [sortBy : Orders, filter : Texts]
      /\ lTable'.sortBy.id \in L!TableOf(lAt'.page).columns \cup {NoPage}
  BY <1>1, PartsOf, MountedFits
<1>3. lTabSort' \in TabOrders
  BY DEF L!Reload, L!NodeVolumesTable, L!NodeVolumesColumns, TabOrders
<1>4. lTyped' \in Typings
  BY DEF L!Reload, ListsTypes, Typings
<1>5. lMoves' \in 0..MaxMoves /\ 0 \in 0..MaxReplaces
  BY CountsBounded DEF L!Reload
<1>6. lData' \in Seq(L!Rows)
  BY <1>1
<1> QED BY <1>1, <1>2, <1>3, <1>4, <1>5, <1>6 DEF ListsTypes

\* A step of the user, after which the effect is due, starts the count again.
LEMMA FreshStart ==
    ASSUME lReplaces' = 0
    PROVE  LoopInv'
<1>1. lReplaces' <= 3 /\ lReplaces' <= 1 - 1 /\ lReplaces' <= 1 - 0
      /\ lReplaces' <= 3 - 1 /\ lReplaces' <= 3 - 0
  OBVIOUS
<1> QED BY <1>1 DEF LoopInv

\* A replacement of the query, and then the effect finds nothing to replace.
LEMMA SyncStep ==
    ASSUME L!ListsAssumption, ListsInv, L!UseTableSortURLSync
    PROVE  DataInv' /\ SyncInv' /\ LoopInv'
<1> DEFINE default == L!TableOf(lAt.page).default
           query == L!Synced(lAt.query, lTable.sortBy, default)
<1>1. /\ ListsTypes /\ lAt \in Locations /\ lAt.query \in Queries
      /\ lTable.sortBy \in Orders
  BY DEF ListsInv, ListsTypes, Locations
<1>2. DataInv'
  BY DEF L!UseTableSortURLSync, ListsInv, DataInv
<1>3. CASE lData = <<>> \/ query = lAt.query
  <2>1. UNCHANGED <<lAt, lData, lTable, lReplaces>>
    BY <1>3 DEF L!UseTableSortURLSync
  <2>2. SyncInv'
    BY <1>3, <2>1 DEF SyncInv, InSync
  <2>3. LoopInv'
    BY <2>1 DEF ListsInv, LoopInv, InSync
  <2> QED BY <1>2, <2>2, <2>3
<1>4. CASE ~(lData = <<>> \/ query = lAt.query)
  <2>1. /\ lAt' = [lAt EXCEPT !.query = query] /\ lTable' = lTable
        /\ lDue' = TRUE /\ lReplaces' = lReplaces + 1
    BY <1>4 DEF L!UseTableSortURLSync
  <2>2. lAt'.query = query /\ lAt'.row = lAt.row /\ lAt'.page = lAt.page
    <3> HIDE DEF query
    <3> QED BY <1>1, <2>1 DEF Locations
  <2>3. InSync'
    <3>1. L!Synced(query, lTable.sortBy, default) = query
      BY <1>1, SyncedFits
    <3> HIDE DEF query
    <3>2. L!TableOf(lAt'.page).default = default
      BY <2>2
    <3> QED BY <2>1, <2>2, <3>1, <3>2 DEF InSync
  <2>4. ~InSync
    BY <1>4 DEF InSync
  <2>5. LoopInv'
    <3>1. lReplaces <= (IF lAt.row = L!NoRow THEN 1 ELSE 3) - 1
      BY <2>4 DEF ListsInv, LoopInv
    <3>2. lReplaces \in Nat
      BY <1>1, CountsBounded
    <3>3. lReplaces' <= (IF lAt.row = L!NoRow THEN 1 ELSE 3) - 0
      BY <2>1, <3>1, <3>2
    <3> QED BY <2>2, <2>3, <3>3 DEF LoopInv
  <2>6. SyncInv'
    BY <2>1 DEF SyncInv
  <2> QED BY <1>2, <2>5, <2>6
<1> QED BY <1>3, <1>4

\* A redirection to a row, which may put the query out of sync again.
LEMMA SelectStep ==
    ASSUME L!ListsAssumption, ListsInv, L!SelectFirstVolume \/ L!SelectDefaultNode
    PROVE  DataInv' /\ SyncInv' /\ LoopInv'
<1>1. /\ UNCHANGED <<lData, lTable>> /\ lDue' = TRUE /\ lReplaces' = lReplaces + 1
      /\ lAt.row = L!NoRow /\ lData # <<>>
  BY DEF L!SelectFirstVolume, L!SelectDefaultNode
<1>2. lAt'.row # L!NoRow
  <2>1. L!NoRow \notin Ranks
    BY DEF L!ListsAssumption
  <2>2. \E i \in DOMAIN lData : lAt'.row = lData[i].name
    <3>1. CASE L!SelectFirstVolume
      <4>1. Len(lData) # 0
        BY <1>1, DataFits, EmptySeq DEF ListsInv
      <4>2. 1 \in DOMAIN lData
        BY <4>1, DataFits DEF ListsInv
      <4>3. lAt'.row = lData[1].name
        BY <3>1 DEF L!SelectFirstVolume, L!Location
      <4> QED BY <4>2, <4>3
    <3>2. CASE L!SelectDefaultNode
      BY <3>2 DEF L!SelectDefaultNode, L!Location
    <3> QED BY <3>1, <3>2
  <2> QED BY <2>1, <2>2, PartsOf DEF ListsInv
<1>3. lReplaces \in Nat /\ lReplaces <= 1
  <2>1. lReplaces \in Nat
    BY CountsBounded DEF ListsInv
  <2>2. lReplaces <= 1 - (IF InSync THEN 0 ELSE 1)
    BY <1>1 DEF ListsInv, LoopInv
  <2> QED BY <2>1, <2>2
<1>4. lReplaces' <= 3 - 1 /\ lReplaces' <= 3 - 0
  BY <1>1, <1>3
<1>5. LoopInv'
  BY <1>2, <1>4 DEF LoopInv
<1> QED BY <1>1, <1>5 DEF ListsInv, DataInv, SyncInv

\* New rows of the same number: the effect is not due again, and need not be.
LEMMA RefreshStep ==
    ASSUME L!ListsAssumption, ListsInv, NEW rows \in Answers, L!Refresh(rows)
    PROVE  DataInv' /\ SyncInv' /\ LoopInv'
<1>1. /\ lData' = L!Fetched(rows) /\ UNCHANGED <<lAt>> /\ lReplaces' = 0
      /\ lDue' = (lDue \/ Len(lData) # Len(rows))
      /\ lTable' = [lTable EXCEPT !.filter = L!Mounted(lAt.page, lAt.query).filter]
  BY DEF L!Refresh
<1>2. /\ InHealthOrder(lData') /\ Len(lData') = Len(rows)
      /\ lData' \in Seq(L!Rows)
  <2>1. rows \in Seq(L!Rows) /\ NoPage # "health"
    BY DEF L!ListsAssumption, L!Columns, L!VolumeColumns
  <2> QED BY <1>1, <2>1, FetchedInOrder
<1>3. lTable'.sortBy = lTable.sortBy
  BY <1>1 DEF ListsInv, ListsTypes
<1>4. SyncInv'
  <2> SUFFICES ASSUME ~lDue', lData' # <<>> PROVE InSync'
    BY DEF SyncInv
  <2>1. ~lDue /\ Len(lData) = Len(rows)
    BY <1>1
  <2>2. Len(lData') # 0
    BY <1>2, EmptySeq
  <2>3. lData # <<>>
    BY <1>2, <2>1, <2>2
  <2>4. InSync
    BY <2>1, <2>3 DEF ListsInv, SyncInv
  <2> QED BY <1>1, <1>3, <2>4 DEF InSync
<1> QED BY <1>1, <1>2, <1>4, FreshStart DEF DataInv

LEMMA ListsStep ==
    ASSUME L!ListsAssumption, ListsInv, [L!Next]_L!vars
    PROVE  ListsInv'
<1> USE DEF ListsInv
<1>1. CASE L!UseTableSortURLSync
  BY <1>1, UseTableSortTypes, SyncStep
<1>2. CASE \E column \in Clicked : L!ClickHeader(column) \/ L!ClickTabHeader(column)
  <2>1. PICK column \in Clicked : L!ClickHeader(column) \/ L!ClickTabHeader(column)
    BY <1>2
  <2>2. ListsTypes'
    BY <2>1, ClickHeaderTypes
  <2>3. CASE L!ClickHeader(column)
    <3>1. lDue' = TRUE /\ lReplaces' = 0 /\ lData' = lData
      BY <2>3 DEF L!ClickHeader
    <3> QED BY <2>2, <3>1, FreshStart DEF DataInv, SyncInv
  <2>4. CASE L!ClickTabHeader(column)
    <3>1. UNCHANGED <<lData, lAt, lTable, lDue, lReplaces>>
      BY <2>4 DEF L!ClickTabHeader
    <3> QED BY <2>2, <3>1 DEF DataInv, SyncInv, LoopInv, InSync
  <2> QED BY <2>1, <2>3, <2>4
<1>3. CASE \E word \in Words \cup {""} : L!Type(word)
  <2>1. PICK word \in Words \cup {""} : L!Type(word)
    BY <1>3
  <2>2. lReplaces' = 0 /\ UNCHANGED <<lData, lAt, lTable, lDue>>
    BY <2>1 DEF L!Type
  <2> QED BY <2>1, <2>2, TypeTypes, FreshStart DEF DataInv, SyncInv, InSync
<1>4. CASE L!SearchVolumes \/ L!SearchNodes \/ L!SearchAlerts
  <2>1. PICK page \in ListPages : L!Search(page)
    BY <1>4 DEF L!SearchVolumes, L!SearchNodes, L!SearchAlerts, ListPages
  <2>2. lDue' = TRUE /\ lReplaces' = 0 /\ lData' = lData
    BY <2>1 DEF L!Search
  <2> QED BY <2>1, <2>2, SearchTypes, FreshStart DEF DataInv, SyncInv
<1>5. CASE \E rows \in Answers : L!Refresh(rows)
  BY <1>5, RefreshTypes, RefreshStep
<1>6. CASE L!SelectFirstVolume \/ L!SelectDefaultNode
  BY <1>6, SelectTypes, SelectStep
<1>7. CASE \/ \E i \in DOMAIN lData : L!ClickVolume(lData[i]) \/ L!ClickNode(lData[i])
           \/ \E name \in Ranks : L!ClickVolumeOfNode(name)
           \/ \E tab \in Shown : L!SwitchTab(tab)
           \/ \E page \in {"volumes", "nodes", "alerts"} : L!Open(page)
  <2>1. ListsTypes' /\ lDue' = TRUE /\ lReplaces' = 0 /\ lData' = lData
    BY <1>7, PushedTypes
  <2> QED BY <2>1, FreshStart DEF DataInv, SyncInv
<1>8. CASE L!Back
  <2>1. lDue' = TRUE /\ lReplaces' = 0 /\ lData' = lData
    BY <1>8 DEF L!Back
  <2> QED BY <1>8, <2>1, BackTypes, FreshStart DEF DataInv, SyncInv
<1>9. CASE L!Reload
  <2>1. lDue' = TRUE /\ lReplaces' = 0 /\ lData' = <<>>
    BY <1>9 DEF L!Reload
  <2> QED BY <1>9, <2>1, ReloadTypes, FreshStart
             DEF DataInv, SyncInv, InHealthOrder
<1>10. CASE UNCHANGED L!vars
  <2>1. UNCHANGED <<lData, lAt, lPast, lTable, lTabSort, lTyped, lDue, lReplaces,
                    lMoves>>
    BY <1>10 DEF L!vars
  <2> QED BY <2>1 DEF ListsTypes, DataInv, SyncInv, LoopInv, InSync
<1> QED BY <1>1, <1>2, <1>3, <1>4, <1>5, <1>6, <1>7, <1>8, <1>9, <1>10
           DEF L!Next

-----------------------------------------------------------------------------
\* In sync, the table that a reload mounts has the order of the one shown, or
\* the default order instead of none.
LEMMA InSyncMounts ==
    ASSUME L!ListsAssumption, ListsTypes, InSync
    PROVE  \/ L!Mounted(lAt.page, lAt.query).sortBy = lTable.sortBy
           \/ /\ lTable.sortBy.id = NoPage
              /\ L!Mounted(lAt.page, lAt.query).sortBy
                   = ByHealth(L!TableOf(lAt.page).default)
<1> DEFINE sortBy == lTable.sortBy
           t == L!TableOf(lAt.page)
           query == lAt.query
           mounted == L!Mounted(lAt.page, query).sortBy
<1>1. /\ sortBy \in Orders /\ query \in Queries
      /\ sortBy.id \in t.columns \cup {NoPage}
      /\ query = L!Synced(query, sortBy, t.default)
  BY DEF ListsTypes, Locations, InSync
<1>2. NoPage \notin t.columns
  BY PartsOf, TablesFit DEF L!ListsAssumption
<1>3. mounted = IF query.sort = NoPage
                THEN [id |-> t.default, desc |-> query.desc]
                ELSE IF query.sort \in t.columns
                     THEN [id |-> query.sort, desc |-> query.desc] ELSE L!Unsorted
  BY DEF L!Mounted
<1> HIDE DEF sortBy, t, query, mounted
<1>4. sortBy = [id |-> sortBy.id, desc |-> sortBy.desc] /\ sortBy.desc \in BOOLEAN
  BY <1>1 DEF Orders
<1>5. CASE sortBy.id = NoPage \/ (sortBy.id = t.default /\ ~sortBy.desc)
  <2>1. query = [query EXCEPT !.sort = NoPage, !.desc = FALSE]
    BY <1>1, <1>5 DEF L!Synced
  <2>2. query.sort = NoPage /\ query.desc = FALSE
    BY <1>1, <2>1 DEF Queries
  <2>3. mounted = [id |-> t.default, desc |-> FALSE]
    BY <1>3, <2>2
  <2>4. CASE sortBy.id = NoPage
    BY <2>3, <2>4 DEF sortBy, t, query, mounted, ByHealth
  <2>5. CASE sortBy.id = t.default /\ ~sortBy.desc
    <3>1. sortBy = [id |-> t.default, desc |-> FALSE]
      BY <1>4, <2>5
    <3> QED BY <2>3, <3>1 DEF sortBy, query, mounted
  <2> QED BY <1>5, <2>4, <2>5
<1>6. CASE ~(sortBy.id = NoPage \/ (sortBy.id = t.default /\ ~sortBy.desc))
  <2>1. query = [query EXCEPT !.sort = sortBy.id, !.desc = sortBy.desc]
    BY <1>1, <1>6 DEF L!Synced
  <2>2. query.sort = sortBy.id /\ query.desc = sortBy.desc
    BY <1>1, <2>1 DEF Queries
  <2>3. sortBy.id \in t.columns /\ sortBy.id # NoPage
    BY <1>1, <1>6
  <2>4. mounted = sortBy
    BY <1>3, <1>4, <2>2, <2>3
  <2> QED BY <2>4 DEF sortBy, query, mounted
<1> QED BY <1>5, <1>6

LEMMA ListsAreGood ==
    ASSUME L!ListsAssumption, ListsInv
    PROVE  L!TypeOK /\ L!ReloadKeepsOrder /\ L!NoRedirectLoop
<1> USE DEF ListsInv
<1>1. L!TypeOK
  <2>1. lAt.query.sort \in L!Columns \cup {NoPage}
    BY DEF ListsTypes, Locations, Queries
  <2>2. lAt.page \in {"volumes", "nodes", "alerts"}
    BY DEF ListsTypes, Locations, ListPages
  <2> QED BY <2>1, <2>2 DEF ListsTypes, L!TypeOK, TabOrders
<1>2. L!ReloadKeepsOrder
  <2> SUFFICES ASSUME ~lDue, lData # <<>>
               PROVE  L!Sorted(lData, lTable.sortBy)
                        = L!Sorted(lData, L!Mounted(lAt.page, lAt.query).sortBy)
    BY DEF L!ReloadKeepsOrder
  <2>1. InSync
    BY DEF SyncInv
  <2>2. CASE L!Mounted(lAt.page, lAt.query).sortBy = lTable.sortBy
    BY <2>2
  <2>3. CASE /\ lTable.sortBy.id = NoPage
             /\ L!Mounted(lAt.page, lAt.query).sortBy
                  = ByHealth(L!TableOf(lAt.page).default)
    <3> DEFINE default == L!TableOf(lAt.page).default
    <3>1. default \in {"health", "severity"} /\ NoPage # default
      BY PartsOf, TablesFit DEF L!ListsAssumption
    <3> HIDE DEF default
    <3>2. L!Sorted(lData, ByHealth(default)) = lData
      BY <3>1, SortedStays, DataFits DEF DataInv
    <3>3. L!Sorted(lData, lTable.sortBy) = lData
      BY <2>3 DEF L!Sorted
    <3> QED BY <2>3, <3>2, <3>3 DEF default
  <2> QED BY <2>1, <2>2, <2>3, InSyncMounts
<1>3. L!NoRedirectLoop
  <2>1. lReplaces \in Nat
    BY CountsBounded
  <2> QED BY <2>1 DEF LoopInv, L!NoRedirectLoop
<1> QED BY <1>1, <1>2, <1>3

\* What MCUiPages checks of the lists: once the URL follows the table, a reload
\* or a copied link keeps the order of the rows, and useTableSortURLSync and the
\* redirection to the first row replace the URL three times at most.
THEOREM ListsAreSafe ==
    ASSUME L!ListsAssumption
    PROVE  L!Spec => []ListsSafe
<1>1. L!Init => ListsInv
  BY ListsStart
<1>2. ListsInv /\ [L!Next]_L!vars => ListsInv'
  BY ListsStep
<1>3. ListsInv => ListsSafe
  BY ListsAreGood DEF ListsSafe
<1> QED BY <1>1, <1>2, <1>3, PTL DEF L!Spec

-----------------------------------------------------------------------------
(* The spans and the graphs.                                               *)

\* The graphs count as the provers' library does.
LEMMA SameCardinality ==
    ASSUME NEW set
    PROVE  M!Cardinality(set) = Cardinality(set)
BY DEF M!Cardinality, Cardinality

\* How many of some times come up to one of them.
UpTo(times, t) == {u \in times : u <= t}
Place(times, t) == Cardinality(UpTo(times, t))

LEMMA Places ==
    ASSUME NEW times, times \subseteq Nat, IsFiniteSet(times)
    PROVE  /\ Cardinality(times) \in Nat
           /\ \A t \in times : Place(times, t) \in 1..Cardinality(times)
           /\ \A t, u \in times : t < u => Place(times, t) < Place(times, u)
           /\ \A i \in 1..Cardinality(times) : \E t \in times : Place(times, t) = i
<1> DEFINE n == Cardinality(times)
<1>1. n \in Nat
  BY FS_CardinalityType
<1>2. ASSUME NEW t \in times
      PROVE  /\ IsFiniteSet(UpTo(times, t)) /\ Place(times, t) \in 1..n
  <2>1. UpTo(times, t) \subseteq times /\ t \in UpTo(times, t)
    BY DEF UpTo
  <2>2. IsFiniteSet(UpTo(times, t)) /\ Place(times, t) <= n
    BY <2>1, FS_Subset DEF Place
  <2>3. Place(times, t) \in Nat /\ Place(times, t) # 0
    BY <2>1, <2>2, FS_CardinalityType, FS_EmptySet DEF Place
  <2> QED BY <1>1, <2>2, <2>3
<1>3. ASSUME NEW t \in times, NEW u \in times, t < u
      PROVE  Place(times, t) < Place(times, u)
  <2>1. UpTo(times, t) \subseteq UpTo(times, u) /\ u \in UpTo(times, u)
        /\ u \notin UpTo(times, t)
    <3>1. t \in Nat /\ u \in Nat /\ \A v \in times : v \in Nat
      OBVIOUS
    <3>2. \A v \in times : v <= t => v <= u
      BY <1>3, <3>1
    <3>3. u <= u /\ ~(u <= t)
      BY <1>3, <3>1
    <3> QED BY <3>2, <3>3 DEF UpTo
  <2>2. UpTo(times, t) # UpTo(times, u)
    BY <2>1
  <2>3. /\ Place(times, t) <= Place(times, u)
        /\ Place(times, t) # Place(times, u)
    BY <1>2, <2>1, <2>2, FS_Subset DEF Place
  <2> QED BY <1>2, <2>3
<1>4. ASSUME NEW i \in 1..n
      PROVE  \E t \in times : Place(times, t) = i
  <2> DEFINE place == [t \in times |-> Place(times, t)]
             taken == {place[t] : t \in times}
  <2>1. place \in [times -> 1..n]
    BY <1>2
  <2>2. \A t, u \in times : place[t] = place[u] => t = u
    <3> SUFFICES ASSUME NEW t \in times, NEW u \in times, place[t] = place[u], t # u
                 PROVE  FALSE
      OBVIOUS
    <3>1. t < u \/ u < t
      OBVIOUS
    <3>2. place[t] \in Nat /\ place[u] \in Nat
      BY <1>2
    <3> QED BY <1>3, <3>1, <3>2
  <2>3. IsFiniteSet(1..n) /\ Cardinality(1..n) = n
    BY <1>1, FS_Interval
  <2>4. Cardinality(taken) = Cardinality(times) /\ IsFiniteSet(taken) /\ taken \subseteq 1..n
    <3>1. taken \subseteq 1..n
      BY <2>1
    <3>2. place \in Bijection(times, taken)
      BY <2>1, <2>2 DEF Bijection, Injection, Surjection, IsInjective
    <3> HIDE DEF place, taken
    <3>3. ExistsBijection(times, taken)
      BY <3>2 DEF ExistsBijection
    <3> QED BY <3>1, <3>3, FS_Bijection
  <2>5. taken = 1..n
    BY <2>3, <2>4, FS_Subset
  <2>6. i \in taken
    BY <2>5
  <2> QED BY <2>6
<1> QED BY <1>1, <1>2, <1>3, <1>4

\* The values of a series are its times, each once, in order.
LEMMA SeriesSorted ==
    ASSUME NEW times, times \subseteq Nat, IsFiniteSet(times)
    PROVE  LET values == M!Values(times) IN
           /\ values \in Seq([time : times, value : times])
           /\ \A k \in 1..Len(values) : /\ values[k].time \in times
                                        /\ values[k].value = values[k].time
           /\ \A j, k \in 1..Len(values) : j < k => values[j].time < values[k].time
           /\ \A t \in times : \E k \in 1..Len(values) : values[k].time = t
<1> DEFINE n == Cardinality(times)
           at == [i \in 1..n |-> M!TimeOf(times, i)]
           values == M!Values(times)
<1>1. /\ n \in Nat
      /\ \A t \in times : Place(times, t) \in 1..n
      /\ \A t, u \in times : t < u => Place(times, t) < Place(times, u)
      /\ \A i \in 1..n : \E t \in times : Place(times, t) = i
  BY Places
<1>2. values = [i \in 1..n |-> M!Point(at[i], at[i])]
  BY SameCardinality DEF M!Values
<1>3. ASSUME NEW i \in 1..n PROVE at[i] \in times /\ Place(times, at[i]) = i
  <2>1. \A t : M!Cardinality({u \in times : u <= t}) = Place(times, t)
    BY SameCardinality DEF Place, UpTo
  <2>2. PICK t \in times : M!Cardinality({u \in times : u <= t}) = i
    BY <1>1, <2>1
  <2>3. /\ M!TimeOf(times, i) \in times
        /\ M!Cardinality({u \in times : u <= M!TimeOf(times, i)}) = i
    BY <2>2 DEF M!TimeOf
  <2> QED BY <2>1, <2>3
<1> HIDE DEF at, values, n
<1>4. values \in Seq([time : times, value : times]) /\ Len(values) = n
  <2>1. \A i \in 1..n : M!Point(at[i], at[i]) \in [time : times, value : times]
    BY <1>3 DEF M!Point
  <2>2. values \in [1..n -> [time : times, value : times]]
    BY <1>2, <2>1
  <2> DEFINE points == [time : times, value : times]
  <2>3. values \in [1..n -> points]
    BY <2>2
  <2> HIDE DEF points
  <2>4. values \in Seq(points) /\ Len(values) = n
    BY <1>1, <2>3
  <2> QED BY <2>4 DEF points
<1>5. \A k \in 1..n : values[k].time = at[k] /\ values[k].value = at[k]
  BY <1>2 DEF M!Point
<1>6. ASSUME NEW j \in 1..n, NEW k \in 1..n, j < k
      PROVE  at[j] < at[k]
  <2>1. at[j] \in Nat /\ at[k] \in Nat /\ j \in Nat /\ k \in Nat
    <3>1. \A t \in times : t \in Nat
      OBVIOUS
    <3>2. \A i \in 1..n : i \in Nat
      BY <1>1
    <3> QED BY <1>3, <3>1, <3>2
  <2>2. at[j] # at[k]
    BY <1>3, <1>6, <2>1
  <2>3. ~(at[k] < at[j])
    BY <1>1, <1>3, <1>6, <2>1
  <2> QED BY <2>1, <2>2, <2>3
<1>7. ASSUME NEW t \in times PROVE \E k \in 1..n : at[k] = t
  <2> DEFINE k == Place(times, t)
  <2>1. k \in 1..n /\ at[k] \in times /\ Place(times, at[k]) = k
    BY <1>1, <1>3
  <2>2. k \in Nat /\ at[k] \in Nat /\ t \in Nat
    <3>1. \A v \in times : v \in Nat
      OBVIOUS
    <3> HIDE DEF k
    <3>2. \A i \in 1..n : i \in Nat
      BY <1>1
    <3> QED BY <2>1, <3>1, <3>2
  <2>3. ~(at[k] < t) /\ ~(t < at[k])
    BY <1>1, <2>1, <2>2
  <2>4. at[k] = t
    BY <2>2, <2>3
  <2> QED BY <2>1, <2>4
<1> QED BY <1>3, <1>4, <1>5, <1>6, <1>7 DEF values

\* The equation of NextIndex.
Walk(values, start, frequency, size, next) ==
    next = [i \in 1..(size + 1) |->
              IF i = 1 THEN 1
              ELSE IF /\ next[i - 1] <= Len(values)
                      /\ values[next[i - 1]].time = M!TimeAt(start, frequency, i - 1)
                   THEN next[i - 1] + 1 ELSE next[i - 1]]

\* It has a solution, which NextIndex is.
LEMMA Walks ==
    ASSUME NEW values, NEW start, NEW frequency, NEW size \in Nat
    PROVE  Walk(values, start, frequency, size,
                M!NextIndex(values, start, frequency, size))
<1> DEFINE W(k, next) == Walk(values, start, frequency, k, next)
           Step(v, i) == IF /\ v <= Len(values)
                            /\ values[v].time = M!TimeAt(start, frequency, i)
                         THEN v + 1 ELSE v
           bad == {k \in Nat : ~ \E next : W(k, next)}
<1>1. bad = {}
  <2> SUFFICES ASSUME bad # {} PROVE FALSE
    OBVIOUS
  <2>1. PICK k \in bad : \A m \in bad : k <= m
    <3>1. bad \subseteq Nat
      OBVIOUS
    <3> HIDE DEF bad
    <3> QED BY <3>1, HasLeast
  <2>2. k \in Nat /\ ~ \E next : W(k, next)
    OBVIOUS
  <2>3. k # 0
    <3> DEFINE next == [i \in 1..(0 + 1) |-> 1]
    <3>1. \A i \in 1..(0 + 1) : i = 1
      OBVIOUS
    <3>2. W(0, next)
      BY <3>1 DEF Walk
    <3> QED BY <2>2, <3>2
  <2>4. k - 1 \in Nat /\ ~(k <= k - 1)
    BY <2>2, <2>3
  <2>5. PICK shorter : W(k - 1, shorter)
    BY <2>1, <2>4
  <2> DEFINE next == [i \in 1..(k + 1) |->
                        IF i = k + 1 THEN Step(shorter[k], k) ELSE shorter[i]]
  <2>6. W(k, next)
    <3>1. \A i \in 1..(k + 1) : i = k + 1 \/ i \in 1..k
      BY <2>2
    <3>2. \A i \in 1..k : next[i] = shorter[i] /\ i # k + 1
      BY <2>2
    <3>3. \A i \in 1..k : shorter[i] = IF i = 1 THEN 1 ELSE Step(shorter[i - 1], i - 1)
      <4>1. (k - 1) + 1 = k
        BY <2>2
      <4> QED BY <2>5, <4>1 DEF Walk
    <3>4. \A i \in 1..k : i # 1 => i - 1 \in 1..k
      BY <2>2
    <3>5. k \in 1..k /\ k + 1 # 1 /\ (k + 1) - 1 = k
      BY <2>2, <2>3
    <3>6. next[k + 1] = Step(next[k], k)
      BY <2>2, <3>2, <3>5
    <3>7. \A i \in 1..k : next[i] = IF i = 1 THEN 1 ELSE Step(next[i - 1], i - 1)
      BY <3>2, <3>3, <3>4
    <3>8. DOMAIN next = 1..(k + 1) /\ next = [i \in 1..(k + 1) |-> next[i]]
      OBVIOUS
    <3> HIDE DEF next
    <3>9. \A i \in 1..(k + 1) :
            next[i] = IF i = 1 THEN 1 ELSE Step(next[i - 1], i - 1)
      BY <3>1, <3>5, <3>6, <3>7
    <3>10. next = [i \in 1..(k + 1) |-> IF i = 1 THEN 1 ELSE Step(next[i - 1], i - 1)]
      BY <3>8, <3>9
    <3> QED BY <3>10 DEF Walk
  <2> QED BY <2>2, <2>6
<1>2. PICK next : W(size, next)
  BY <1>1
<1>3. M!NextIndex(values, start, frequency, size)
        = CHOOSE g : Walk(values, start, frequency, size, g)
  BY DEF M!NextIndex, Walk
<1> QED BY <1>2, <1>3

\* Points of the grid are in order, a period apart.
LEMMA Multiples ==
    ASSUME NEW f \in Nat \ {0}, NEW p \in Nat, NEW q \in Nat
    PROVE  /\ p * f \in Nat
           /\ p < q => p * f + f <= q * f
           /\ p * f < q * f => p < q
           /\ p * f = q * f => p = q
           /\ p <= q => p * f <= q * f
<1>1. p * f \in Nat /\ q * f \in Nat
  OBVIOUS
<1>2. ASSUME p < q PROVE p * f + f <= q * f
  <2> DEFINE d == q - p - 1
  <2>1. d \in Nat /\ q = p + 1 + d
    BY <1>2
  <2> HIDE DEF d
  <2>2. d * f \in Nat
    BY <2>1
  <2>3. q * f = p * f + f + d * f
    BY <2>1
  <2> QED BY <1>1, <2>2, <2>3
<1>3. ASSUME q < p PROVE q * f + f <= p * f
  <2> DEFINE d == p - q - 1
  <2>1. d \in Nat /\ p = q + 1 + d
    BY <1>3
  <2> HIDE DEF d
  <2>2. d * f \in Nat
    BY <2>1
  <2>3. p * f = q * f + f + d * f
    BY <2>1
  <2> QED BY <1>1, <2>2, <2>3
<1>4. p < q \/ p = q \/ q < p
  OBVIOUS
<1> QED BY <1>1, <1>2, <1>3, <1>4

\* A walk, step by step.
WalkStep(values, start, frequency, size, next) ==
    /\ next[1] = 1
    /\ \A i \in 1..size :
         next[i + 1] = IF /\ next[i] <= Len(values)
                          /\ values[next[i]].time = M!TimeAt(start, frequency, i)
                       THEN next[i] + 1 ELSE next[i]
    /\ \A i \in 1..(size + 1) : next[i] \in Nat \ {0}

LEMMA WalkSteps ==
    ASSUME NEW values, NEW start, NEW frequency, NEW size \in Nat,
           NEW next, Walk(values, start, frequency, size, next)
    PROVE  WalkStep(values, start, frequency, size, next)
<1>1. 1 \in 1..(size + 1)
  OBVIOUS
<1>2. next[1] = 1
  BY <1>1 DEF Walk
<1>3. ASSUME NEW i \in 1..size
      PROVE next[i + 1] = IF /\ next[i] <= Len(values)
                             /\ values[next[i]].time = M!TimeAt(start, frequency, i)
                          THEN next[i] + 1 ELSE next[i]
  <2>1. i + 1 \in 1..(size + 1) /\ i + 1 # 1 /\ (i + 1) - 1 = i
    OBVIOUS
  <2> QED BY <2>1 DEF Walk
<1>4. \A i \in 1..(size + 1) : next[i] \in Nat \ {0}
  <2> DEFINE bad == {i \in 1..(size + 1) : next[i] \notin Nat \ {0}}
  <2> SUFFICES ASSUME bad # {} PROVE FALSE
    OBVIOUS
  <2>1. PICK i \in bad : \A j \in bad : i <= j
    <3>1. bad \subseteq Nat
      OBVIOUS
    <3> HIDE DEF bad
    <3> QED BY <3>1, HasLeast
  <2>2. i \in 1..(size + 1) /\ next[i] \notin Nat \ {0} /\ i # 1
    BY <1>2
  <2>3. i - 1 \in 1..size /\ i - 1 \in 1..(size + 1) /\ ~(i <= i - 1) /\ (i - 1) + 1 = i
    BY <2>2
  <2>4. next[i - 1] \in Nat \ {0}
    BY <2>1, <2>3
  <2>5. next[i] = next[i - 1] \/ next[i] = next[i - 1] + 1
    BY <1>3, <2>3
  <2> QED BY <2>2, <2>4, <2>5
<1> QED BY <1>2, <1>3, <1>4 DEF WalkStep

\* A point carries the value of its own time or none.
UnshiftedPoints(points) ==
    \A i \in DOMAIN points : points[i].value \in {M!Null, points[i].time}

\* The size of the grid of a span, whose duration is a multiple of its period.
GridSize(duration, frequency, size) ==
    size = duration \div frequency /\ duration = size * frequency

\* A point has a value where the walk finds one of its time.
CopiedValues(points, values, next, start, frequency, size) ==
    /\ DOMAIN points = 1..size
    /\ \A i \in 1..size :
         /\ points[i].time = M!TimeAt(start, frequency, i)
         /\ points[i].value # M!Null
              <=> /\ next[i] <= Len(values)
                  /\ values[next[i]].time = M!TimeAt(start, frequency, i)

\* Every time is at a place of the grid.
OnPlaces(times, start, frequency, size) ==
    \A t \in times : \E q \in 0..size : t = start + q * frequency

\* A point of the grid carries the value of its own time or none.
LEMMA PointsFaithful ==
    ASSUME NEW times, times \subseteq Nat, IsFiniteSet(times), NEW start \in Nat,
           NEW size \in Nat, NEW frequency \in Nat \ {0}, NEW duration,
           GridSize(duration, frequency, size), times # {}
    PROVE  LET points == M!AddMissingDataPoint(M!Values(times), start, duration, frequency)
               next == M!NextIndex(M!Values(times), start, frequency, size)
           IN /\ UnshiftedPoints(points)
              /\ CopiedValues(points, M!Values(times), next, start, frequency, size)
<1> DEFINE values == M!Values(times)
           next == M!NextIndex(values, start, frequency, size)
           points == M!AddMissingDataPoint(values, start, duration, frequency)
<1>1. /\ values \in Seq([time : times, value : times])
      /\ \A k \in 1..Len(values) : /\ values[k].time \in times
                                   /\ values[k].value = values[k].time
      /\ \A t \in times : \E k \in 1..Len(values) : values[k].time = t
  BY SeriesSorted
<1>2. values # <<>> /\ ~(start < 0)
  <2>1. PICK t \in times : TRUE
    OBVIOUS
  <2>2. PICK k \in 1..Len(values) : values[k].time = t
    BY <1>1, <2>1
  <2> HIDE DEF values
  <2>3. values = <<>> => Len(values) = 0
    OBVIOUS
  <2>4. values # <<>>
    BY <2>2, <2>3
  <2> QED BY <2>4
<1>3. points = [i \in 1..size |->
               M!Point(M!TimeAt(start, frequency, i),
                     IF next[i + 1] > next[i] THEN values[next[i]].value ELSE M!Null)]
  BY <1>2 DEF M!AddMissingDataPoint, GridSize
<1>4. Walk(values, start, frequency, size, next)
  BY Walks
<1>5. Len(values) \in Nat
  <2> HIDE DEF values
  <2> QED BY <1>1, LenProperties
<1> HIDE DEF values, next, points
<1>6. /\ \A i \in 1..size :
            next[i + 1] = IF /\ next[i] <= Len(values)
                             /\ values[next[i]].time = M!TimeAt(start, frequency, i)
                          THEN next[i] + 1 ELSE next[i]
      /\ \A i \in 1..(size + 1) : next[i] \in Nat \ {0}
  <2>1. WalkStep(values, start, frequency, size, next)
    BY <1>4, WalkSteps
  <2> QED BY <2>1 DEF WalkStep
<1>7. ASSUME NEW i \in 1..size
      PROVE  /\ points[i].time = M!TimeAt(start, frequency, i)
             /\ points[i].value \in {M!Null, points[i].time}
             /\ points[i].value # M!Null
                  <=> /\ next[i] <= Len(values)
                      /\ values[next[i]].time = M!TimeAt(start, frequency, i)
  <2>1. /\ points[i].time = M!TimeAt(start, frequency, i)
        /\ points[i].value = IF next[i + 1] > next[i] THEN values[next[i]].value ELSE M!Null
    BY <1>3 DEF M!Point
  <2>2. next[i] \in Nat \ {0} /\ next[i] # next[i] + 1
    BY <1>6
  <2>3. CASE /\ next[i] <= Len(values)
             /\ values[next[i]].time = M!TimeAt(start, frequency, i)
    <3>1. next[i + 1] > next[i]
      BY <1>6, <2>2, <2>3
    <3>2. next[i] \in 1..Len(values)
      BY <1>5, <2>2, <2>3
    <3>3. points[i].value = M!TimeAt(start, frequency, i) /\ points[i].value \in Nat
      BY <1>1, <2>1, <2>3, <3>1, <3>2
    <3> QED BY <2>1, <2>3, <3>3 DEF M!Null
  <2>4. CASE ~(/\ next[i] <= Len(values)
               /\ values[next[i]].time = M!TimeAt(start, frequency, i))
    <3>1. ~(next[i + 1] > next[i])
      BY <1>6, <2>2, <2>4
    <3> QED BY <2>1, <2>4, <3>1
  <2> QED BY <2>3, <2>4
<1>8. DOMAIN points = 1..size
  BY <1>3
<1>9. UnshiftedPoints(points)
  BY <1>7, <1>8 DEF UnshiftedPoints
<1>10. CopiedValues(points, values, next, start, frequency, size)
  BY <1>7, <1>8 DEF CopiedValues
<1> QED BY <1>9, <1>10 DEF values, next, points

\* A series without values has no points.
LEMMA NoPoints ==
    ASSUME NEW times, times = {}, NEW start, NEW duration, NEW frequency
    PROVE  DOMAIN M!AddMissingDataPoint(M!Values(times), start, duration, frequency) = {}
<1> DEFINE values == M!Values(times)
           points == M!AddMissingDataPoint(values, start, duration, frequency)
<1>1. values = <<>>
  <2>1. Cardinality(times) = 0
    BY FS_EmptySet
  <2>2. values = [i \in 1..0 |-> M!Point(M!TimeOf(times, i), M!TimeOf(times, i))]
    BY <2>1, SameCardinality DEF M!Values
  <2>3. values \in Seq({}) /\ Len(values) = 0
    <3> HIDE DEF values
    <3>1. DOMAIN values = 1..0 /\ values = [i \in 1..0 |-> values[i]]
      BY <2>2
    <3>2. values \in [1..0 -> {}]
      BY <3>1
    <3> QED BY <3>2
  <2> HIDE DEF values
  <2> QED BY <2>3, EmptySeq
<1>2. points = <<>>
  BY <1>1 DEF M!AddMissingDataPoint
<1>3. DOMAIN points = {}
  <2> HIDE DEF points
  <2> QED BY <1>2
<1> QED BY <1>3

\* So a value is never drawn at another time.
LEMMA NoneShifted ==
    ASSUME NEW times, times \subseteq Nat, IsFiniteSet(times), NEW start \in Nat,
           NEW size \in Nat, NEW frequency \in Nat \ {0}, NEW duration,
           GridSize(duration, frequency, size)
    PROVE  UnshiftedPoints(M!AddMissingDataPoint(M!Values(times), start, duration, frequency))
<1>1. CASE times = {}
  <2> DEFINE points == M!AddMissingDataPoint(M!Values(times), start, duration, frequency)
  <2>1. DOMAIN points = {}
    BY <1>1, NoPoints
  <2> HIDE DEF points
  <2>2. UnshiftedPoints(points)
    BY <2>1 DEF UnshiftedPoints
  <2> QED BY <2>2 DEF points
<1>2. CASE times # {}
  BY <1>2, PointsFaithful
<1> QED BY <1>1, <1>2

\* Where every time is on the grid, the walk skips none.
LEMMA NoneSkipped ==
    ASSUME NEW times, times \subseteq Nat, IsFiniteSet(times), NEW start \in Nat,
           NEW size \in Nat, NEW frequency \in Nat \ {0},
           OnPlaces(times, start, frequency, size),
           NEW i \in 1..(size + 1)
    PROVE  LET values == M!Values(times)
               next == M!NextIndex(values, start, frequency, size)
           IN  \A k \in 1..Len(values) :
                 k < next[i] <=> values[k].time < M!TimeAt(start, frequency, i)
<1> DEFINE values == M!Values(times)
           next == M!NextIndex(values, start, frequency, size)
           T(j) == M!TimeAt(start, frequency, j)
           Good(j) == \A k \in 1..Len(values) : k < next[j] <=> values[k].time < T(j)
           bad == {j \in 1..(size + 1) : ~Good(j)}
<1>1. /\ \A k \in 1..Len(values) : values[k].time \in times
      /\ \A j, k \in 1..Len(values) : j < k => values[j].time < values[k].time
      /\ values \in Seq([time : times, value : times])
  BY SeriesSorted
<1>2. Walk(values, start, frequency, size, next)
  BY Walks
<1> HIDE DEF values
<1>3. Len(values) \in Nat
  BY <1>1, LenProperties
<1> HIDE DEF next
<1>4. /\ next[1] = 1
      /\ \A j \in 1..size :
            next[j + 1] = IF /\ next[j] <= Len(values)
                             /\ values[next[j]].time = M!TimeAt(start, frequency, j)
                          THEN next[j] + 1 ELSE next[j]
      /\ \A j \in 1..(size + 1) : next[j] \in Nat \ {0}
  BY <1>2, WalkSteps DEF WalkStep
<1>5. ASSUME NEW k \in 1..Len(values)
      PROVE  \E q \in 0..size : values[k].time = start + q * frequency
  BY <1>1 DEF OnPlaces
<1>6. \A j \in 1..(size + 1) : T(j) = start + (j - 1) * frequency /\ j - 1 \in Nat
  BY DEF M!TimeAt
<1> HIDE DEF T
\* A time is before the next point just when it is at this point or before.
<1>7. ASSUME NEW k \in 1..Len(values), NEW j \in 1..size
      PROVE  values[k].time < T(j + 1) <=> values[k].time <= T(j)
  <2>1. PICK q \in 0..size : values[k].time = start + q * frequency
    BY <1>5
  <2> DEFINE p == j - 1
  <2>2. p \in Nat /\ q \in Nat /\ p + 1 \in Nat /\ j + 1 \in 1..(size + 1)
        /\ j \in 1..(size + 1) /\ (j + 1) - 1 = p + 1
    OBVIOUS
  <2>3. T(j) = start + p * frequency /\ T(j + 1) = start + (p + 1) * frequency
    BY <1>6, <2>2
  <2> HIDE DEF p
  <2>4. /\ q * frequency \in Nat /\ p * frequency \in Nat
        /\ (p + 1) * frequency \in Nat
    BY <2>2, Multiples
  <2>5. q * frequency < (p + 1) * frequency => q < p + 1
    BY <2>2, Multiples
  <2>6. q <= p => q * frequency <= p * frequency
    BY <2>2, Multiples
  <2>7. p < p + 1 => p * frequency + frequency <= (p + 1) * frequency
    BY <2>2, Multiples
  <2>8. q < p + 1 => q <= p
    BY <2>2
  <2>9. p * frequency < (p + 1) * frequency
    BY <2>2, <2>4, <2>7
  <2>10. q * frequency < (p + 1) * frequency <=> q * frequency <= p * frequency
    BY <2>4, <2>5, <2>6, <2>8, <2>9
  <2> QED BY <2>1, <2>3, <2>4, <2>10
<1>8. bad = {}
  <2> SUFFICES ASSUME bad # {} PROVE FALSE
    OBVIOUS
  <2>1. PICK j \in bad : \A m \in bad : j <= m
    <3>1. bad \subseteq Nat
      OBVIOUS
    <3> HIDE DEF bad
    <3> QED BY <3>1, HasLeast
  <2>2. j \in 1..(size + 1) /\ ~Good(j)
    OBVIOUS
  <2>3. j # 1
    <3>1. T(1) = start
      BY <1>6
    <3>2. ASSUME NEW k \in 1..Len(values) PROVE ~(values[k].time < start) /\ ~(k < 1)
      <4>1. PICK q \in 0..size : values[k].time = start + q * frequency
        BY <1>5
      <4>2. q \in Nat /\ q * frequency \in Nat
        BY Multiples
      <4> QED BY <4>1, <4>2
    <3> QED BY <1>4, <2>2, <3>1, <3>2
  <2> DEFINE i0 == j - 1
  <2>4. i0 \in 1..size /\ i0 \in 1..(size + 1) /\ ~(j <= i0) /\ i0 + 1 = j
    BY <2>2, <2>3
  <2>5. Good(i0)
    BY <2>1, <2>4
  <2> HIDE DEF i0
  <2>6. ASSUME NEW k \in 1..Len(values)
        PROVE  k < next[j] <=> values[k].time < T(j)
    <3>1. values[k].time < T(j) <=> values[k].time <= T(i0)
      BY <1>7, <2>4
    <3>2. k < next[i0] <=> values[k].time < T(i0)
      BY <2>5
    <3>3. /\ next[i0] \in Nat \ {0} /\ next[j] \in Nat \ {0}
          /\ next[j] = IF /\ next[i0] <= Len(values)
                          /\ values[next[i0]].time = T(i0)
                       THEN next[i0] + 1 ELSE next[i0]
      BY <1>4, <2>2, <2>4 DEF T
    <3>4. values[k].time \in Nat /\ T(i0) \in Nat
      <4>1. values[k].time \in Nat
        BY <1>1
      <4>2. i0 - 1 \in Nat /\ T(i0) = start + (i0 - 1) * frequency
        BY <1>6, <2>4
      <4> DEFINE p == i0 - 1
      <4>3. p \in Nat /\ T(i0) = start + p * frequency
        BY <4>2
      <4> HIDE DEF p
      <4>4. p * frequency \in Nat
        BY <4>3, Multiples
      <4>5. T(i0) \in Nat
        BY <4>3, <4>4
      <4> QED BY <4>1, <4>5
    <3>5. CASE next[i0] <= Len(values) /\ values[next[i0]].time = T(i0)
      <4>1. next[i0] \in 1..Len(values)
        BY <1>3, <3>3, <3>5
      <4>2. next[i0] < k => T(i0) < values[k].time
        BY <1>1, <3>5, <4>1
      <4>3. k = next[i0] => values[k].time = T(i0)
        BY <3>5
      <4>4. next[j] = next[i0] + 1
        BY <3>3, <3>5
      <4> DEFINE a == next[i0]
                 v == values[k].time
                 b == T(i0)
      <4>5. /\ a \in Nat /\ k \in Nat /\ v \in Nat /\ b \in Nat
            /\ (k < a <=> v < b) /\ (a < k => b < v) /\ (k = a => v = b)
        BY <3>2, <3>3, <3>4, <4>2, <4>3
      <4> HIDE DEF a, v, b
      <4>6. k < a + 1 <=> v <= b
        BY <4>5
      <4> QED BY <3>1, <4>4, <4>6 DEF a, v, b
    <3>6. CASE ~(next[i0] <= Len(values) /\ values[next[i0]].time = T(i0))
      <4>1. next[j] = next[i0]
        BY <3>3, <3>6
      <4>2. values[k].time # T(i0)
        <5> SUFFICES ASSUME values[k].time = T(i0) PROVE FALSE
          OBVIOUS
        <5>1. ~(k < next[i0])
          BY <3>2, <3>4
        <5>2. next[i0] \in 1..Len(values)
          BY <1>3, <3>3, <5>1
        <5>3. ~(values[next[i0]].time < T(i0))
          <6>1. ~(next[i0] < next[i0])
            BY <3>3
          <6> QED BY <2>5, <5>2, <6>1
        <5>4. values[next[i0]].time # T(i0)
          BY <1>3, <3>6, <5>2
        <5>5. k # next[i0]
          BY <5>4
        <5>6. next[i0] < k
          BY <3>3, <5>1, <5>5
        <5>7. values[next[i0]].time < T(i0)
          BY <1>1, <5>2, <5>6
        <5> QED BY <5>3, <5>7
      <4> QED BY <3>1, <3>2, <3>4, <4>1, <4>2
    <3> QED BY <3>5, <3>6
  <2> QED BY <2>2, <2>6
<1> QED BY <1>8 DEF values, next, T

\* The times of the points that have a value.
ShownTimes(points) ==
    {points[i].time : i \in {k \in DOMAIN points : points[k].value # M!Null}}

DrawsAll(points, times, end) == ShownTimes(points) = times \ {end}

\* Where every time is on the grid, every value but one at its end is drawn.
LEMMA AllDrawn ==
    ASSUME NEW times, times \subseteq Nat, IsFiniteSet(times), NEW start \in Nat,
           NEW size \in Nat, NEW frequency \in Nat \ {0}, NEW duration,
           GridSize(duration, frequency, size),
           OnPlaces(times, start, frequency, size)
    PROVE  DrawsAll(M!AddMissingDataPoint(M!Values(times), start, duration, frequency),
                    times, start + duration)
<1> DEFINE values == M!Values(times)
           next == M!NextIndex(values, start, frequency, size)
           points == M!AddMissingDataPoint(values, start, duration, frequency)
           T(j) == M!TimeAt(start, frequency, j)
           drawn == ShownTimes(points)
<1>1. CASE times = {}
  <2>1. DOMAIN points = {}
    BY <1>1, NoPoints
  <2> HIDE DEF points
  <2>2. drawn = {} /\ times \ {start + duration} = {}
    BY <1>1, <2>1 DEF ShownTimes
  <2> HIDE DEF drawn
  <2>3. drawn = times \ {start + duration}
    BY <2>2
  <2> QED BY <2>3 DEF DrawsAll, drawn, points, values
<1>2. CASE times # {}
  <2>1. /\ \A k \in 1..Len(values) : values[k].time \in times
        /\ \A j, k \in 1..Len(values) : j < k => values[j].time < values[k].time
        /\ \A t \in times : \E k \in 1..Len(values) : values[k].time = t
        /\ values \in Seq([time : times, value : times])
    BY SeriesSorted
  <2>2. CopiedValues(points, values, next, start, frequency, size)
    BY <1>2, PointsFaithful
  <2>3. \A i \in 1..(size + 1) : \A k \in 1..Len(values) :
          k < next[i] <=> values[k].time < T(i)
    BY NoneSkipped
  <2>4. \A i \in 1..(size + 1) : next[i] \in Nat \ {0}
    BY Walks, WalkSteps DEF WalkStep
  <2> HIDE DEF values
  <2>5. Len(values) \in Nat
    BY <2>1, LenProperties
  <2>6. \A j \in 1..(size + 1) : T(j) = start + (j - 1) * frequency /\ j - 1 \in Nat
    BY DEF M!TimeAt
  <2> HIDE DEF next, points
  <2>7. /\ DOMAIN points = 1..size
        /\ \A i \in 1..size :
             /\ points[i].time = T(i)
             /\ points[i].value # M!Null
                        <=> next[i] <= Len(values) /\ values[next[i]].time = T(i)
    BY <2>2 DEF CopiedValues
  <2> HIDE DEF T
  <2>8. duration = size * frequency
    BY DEF GridSize
  <2>9. ASSUME NEW i \in 1..size, points[i].value # M!Null
        PROVE  points[i].time \in times \ {start + duration}
    <3>1. next[i] \in 1..Len(values) /\ values[next[i]].time = T(i) /\ points[i].time = T(i)
      BY <2>7, <2>4, <2>5, <2>9
    <3>2. T(i) \in times
      BY <2>1, <3>1
    <3>3. T(i) = start + (i - 1) * frequency /\ i - 1 \in Nat /\ i - 1 < size
      BY <2>6
    <3>4. /\ (i - 1) * frequency \in Nat /\ size * frequency \in Nat
          /\ (i - 1) * frequency = size * frequency => i - 1 = size
      BY <3>3, Multiples
    <3>5. T(i) # start + duration
      BY <2>8, <3>3, <3>4
    <3> QED BY <3>1, <3>2, <3>5
  <2>10. ASSUME NEW t \in times, t # start + duration
        PROVE  \E i \in 1..size : points[i].value # M!Null /\ points[i].time = t
    <3>1. PICK q \in 0..size : t = start + q * frequency
      BY DEF OnPlaces
    <3>2. q # size
      BY <2>10, <2>8, <3>1
    <3> DEFINE i == q + 1
    <3>3. i \in 1..size /\ i \in 1..(size + 1) /\ i - 1 = q
      BY <3>2
    <3> HIDE DEF i
    <3>4. T(i) = t
      BY <2>6, <3>1, <3>3
    <3>5. PICK k \in 1..Len(values) : values[k].time = t
      BY <2>1
    <3>6. next[i] \in Nat \ {0} /\ t \in Nat
      BY <2>4, <3>3
    <3>7. ~(k < next[i])
      BY <2>3, <3>3, <3>4, <3>5, <3>6
    <3>8. next[i] \in 1..Len(values)
      BY <2>5, <3>6, <3>7
    <3>9. ~(values[next[i]].time < t)
      <4>1. ~(next[i] < next[i])
        BY <3>6
      <4> QED BY <2>3, <3>3, <3>4, <3>8, <4>1
    <3>10. k = next[i]
      <4> SUFFICES ASSUME k # next[i] PROVE FALSE
        OBVIOUS
      <4>1. next[i] < k
        BY <3>6, <3>7
      <4> QED BY <2>1, <3>5, <3>8, <3>9, <4>1
    <3>11. next[i] <= Len(values) /\ values[next[i]].time = T(i)
      BY <2>5, <3>4, <3>5, <3>8, <3>10
    <3> QED BY <2>7, <3>3, <3>4, <3>11
  <2>11. drawn \subseteq times \ {start + duration}
    BY <2>7, <2>9 DEF ShownTimes
  <2>12. times \ {start + duration} \subseteq drawn
    BY <2>7, <2>10 DEF ShownTimes
  <2> HIDE DEF drawn
  <2>13. drawn = times \ {start + duration}
    BY <2>11, <2>12
  <2> QED BY <2>13 DEF DrawsAll, drawn, points, values
<1> QED BY <1>1, <1>2

\* The samples a graph holds are on the grid of the span they were fetched for.
OnGrid(start, s, times) ==
    \A t \in times : /\ start <= t /\ t <= start + Duration[s]
                     /\ (t - start) % Frequency[s] = 0

\* The inductive invariant.
MetricsInv ==
    /\ M!TypeOK
    /\ mFetch # M!Idle => mFetch.span \in Spans
    /\ mStats.span \in Spans =>
         \A m \in Metrics : OnGrid(mStats.start, mStats.span, mStats.samples[m])
    /\ mAlive /\ mFetch # M!Idle => mFetch.span = mSpan
    /\ M!GraphSettles
    /\ M!UrlTellsSpan

\* A fetch, where the root saga runs, is for the span it is told.
LEMMA FetchedFits ==
    ASSUME MetricsInv, M!MetricsAssumption, NEW s \in Spans, M!FetchVolumeStats(s)
    PROVE  /\ mFetch' \in [span : Spans \cup {NoPage}, start : M!Times]
           /\ mAlive => mFetch' # M!Idle /\ mFetch'.span = s
           /\ ~mAlive => mFetch' = mFetch
<1>1. /\ mNow \in StartTime..MaxTime /\ Duration[s] \in Nat /\ Duration[s] <= StartTime
      /\ StartTime \in Nat /\ MaxTime \in Nat /\ NoPage \notin Spans
      /\ mFetch \in [span : Spans \cup {NoPage}, start : M!Times]
  BY DEF MetricsInv, M!TypeOK, M!MetricsAssumption
<1>2. mNow - Duration[s] \in M!Times
  BY <1>1 DEF M!Times
<1>3. CASE mAlive
  <2>1. mFetch' = [span |-> s, start |-> mNow - Duration[s]]
    BY <1>3 DEF M!FetchVolumeStats
  <2>2. mFetch'.span = s
    BY <2>1
  <2>3. M!Idle.span = NoPage
    BY DEF M!Idle
  <2>4. mFetch' # M!Idle
    BY <1>1, <2>2, <2>3
  <2> QED BY <1>2, <1>3, <2>1, <2>2, <2>4
<1>4. CASE ~mAlive
  BY <1>1, <1>4 DEF M!FetchVolumeStats
<1> QED BY <1>3, <1>4

\* It holds at first.
LEMMA MetricsInit ==
    ASSUME M!Init, M!MetricsAssumption
    PROVE  MetricsInv
<1>1. /\ mAlive = TRUE /\ mNow = StartTime /\ mPage = "other" /\ mFrom = NoPage
      /\ mBacked = FALSE /\ mSpan = Default /\ mNodeSpan = Default /\ mShowAvg = FALSE
      /\ mFetch = M!Idle /\ mStats = M!NoStats
      /\ StartTime \in Nat /\ MaxTime \in Nat /\ StartTime <= MaxTime
      /\ Default \in Spans /\ NoPage \notin Spans
  BY DEF M!Init, M!MetricsAssumption
<1>2. mNow \in StartTime..MaxTime /\ 0 \in M!Times
  BY <1>1 DEF M!Times
<1>3. mFetch \in [span : Spans \cup {NoPage}, start : M!Times]
  BY <1>1, <1>2 DEF M!Idle
<1>4. mStats.span = NoPage
  BY <1>1 DEF M!NoStats
<1>5. mStats \in [span : Spans \cup {NoPage}, start : M!Times,
                 samples : [Metrics -> SUBSET M!Times]]
  BY <1>1, <1>2 DEF M!NoStats
<1>6. M!TypeOK
  BY <1>1, <1>2, <1>3, <1>5 DEF M!TypeOK, M!Urls
<1> QED BY <1>1, <1>4, <1>6 DEF MetricsInv, M!GraphSettles, M!UrlTellsSpan

\* Every step preserves it.
LEMMA MetricsStep ==
    ASSUME MetricsInv, M!MetricsAssumption, [M!Next]_M!vars
    PROVE  MetricsInv'
<1> DEFINE Known == mFetch # M!Idle => mFetch.span \in Spans
           Grids == mStats.span \in Spans =>
             \A m \in Metrics : OnGrid(mStats.start, mStats.span, mStats.samples[m])
           Current == mAlive /\ mFetch # M!Idle => mFetch.span = mSpan
<1>1. /\ M!TypeOK /\ Known /\ Grids /\ Current /\ M!GraphSettles /\ M!UrlTellsSpan
  BY DEF MetricsInv
<1>2. Default \in Spans /\ NoPage \notin Spans /\ "unknown" \notin Spans
      /\ StartTime \in Nat /\ MaxTime \in Nat
  BY DEF M!MetricsAssumption
<1>3. \A s \in Spans : M!FetchVolumeStats(s) =>
           /\ mFetch' \in [span : Spans \cup {NoPage}, start : M!Times]
           /\ mAlive => mFetch' # M!Idle /\ mFetch'.span = s
           /\ ~mAlive => mFetch' = mFetch
  BY FetchedFits
<1>4. CASE UNCHANGED M!vars
  <2>1. UNCHANGED M!Idle
    BY DEF M!Idle
  <2> QED BY <1>1, <1>4
             DEF M!vars, MetricsInv, M!TypeOK, M!GraphSettles, M!UrlTellsSpan,
                 OnGrid, M!Urls, M!Times, M!Idle
<1>5. CASE M!Tick
  <2>1. mNow' \in StartTime..MaxTime
    BY <1>1, <1>2, <1>5 DEF M!Tick, M!TypeOK
  <2> QED BY <1>1, <1>5, <2>1
             DEF M!Tick, MetricsInv, M!TypeOK, M!GraphSettles, M!UrlTellsSpan,
                 OnGrid, M!Urls, M!Times, M!Idle
<1>6. ASSUME NEW failed \in SUBSET Metrics, M!StatsAnswered(failed)
      PROVE  MetricsInv'
  <2>1. /\ mAlive /\ mFetch # M!Idle /\ mFetch' = M!Idle
        /\ mStats' = [span |-> mFetch.span, start |-> mFetch.start,
                     samples |-> [m \in Metrics |->
                       IF m \in failed THEN {} ELSE M!QueryRange(mFetch)]]
        /\ UNCHANGED <<mAlive, mNow, mDown, mPage, mFrom, mBacked, mSpan, mNodeSpan,
                       mShowAvg>>
    BY <1>6 DEF M!StatsAnswered
  <2>2. mFetch.span \in Spans /\ mFetch.span = mSpan /\ mFetch.start \in M!Times
    BY <1>1, <2>1 DEF M!TypeOK
  <2>3. M!QueryRange(mFetch) \subseteq M!Times /\ OnGrid(mFetch.start, mFetch.span, M!QueryRange(mFetch))
    BY DEF M!QueryRange, OnGrid
  <2>4. /\ mStats'.span = mSpan /\ mStats'.start = mFetch.start
        /\ \A m \in Metrics : mStats'.samples[m] \in {{}, M!QueryRange(mFetch)}
    BY <2>1, <2>2
  <2>5. mStats' \in [span : Spans \cup {NoPage}, start : M!Times,
                    samples : [Metrics -> SUBSET M!Times]]
    BY <2>1, <2>2, <2>3
  <2>6. 0 \in M!Times
    BY <1>2 DEF M!Times
  <2>7. mFetch' \in [span : Spans \cup {NoPage}, start : M!Times]
    BY <2>1, <2>6 DEF M!Idle
  <2>8. M!TypeOK'
    BY <1>1, <2>1, <2>5, <2>7 DEF M!TypeOK, M!Urls, M!Times
  <2>9. \A m \in Metrics : OnGrid(mStats'.start, mStats'.span, mStats'.samples[m])
    BY <2>2, <2>3, <2>4 DEF OnGrid
  <2>10. M!Idle' = M!Idle
    BY DEF M!Idle
  <2>11. Known' /\ Current'
    BY <2>1, <2>10
  <2>12. M!GraphSettles'
    BY <2>1, <2>4 DEF M!GraphSettles
  <2>13. M!UrlTellsSpan'
    BY <1>1, <2>1 DEF M!UrlTellsSpan
  <2>14. Grids'
    BY <2>9 DEF OnGrid
  <2> QED BY <2>8, <2>11, <2>12, <2>13, <2>14 DEF MetricsInv
\* A step that leaves the samples alone and fetches for the span it shows, or
\* does not touch the volumes.
<1>7. ASSUME /\ UNCHANGED <<mNow, mStats>>
             /\ M!TypeOK' /\ M!UrlTellsSpan'
             /\ mAlive' => mAlive
             /\ \/ UNCHANGED <<mFetch, mSpan>> /\ (mPage' \in {"volume", "volumeMetrics"}
                                        => mPage \in {"volume", "volumeMetrics"})
                \/ M!FetchVolumeStats(mSpan') /\ UNCHANGED mAlive
      PROVE  MetricsInv'
  <2>1. M!Idle' = M!Idle
    BY DEF M!Idle
  <2>2. Grids'
    BY <1>1, <1>7 DEF OnGrid
  <2>3. CASE UNCHANGED <<mFetch, mSpan>> /\ (mPage' \in {"volume", "volumeMetrics"}
                                          => mPage \in {"volume", "volumeMetrics"})
    <3>1. Known' /\ Current'
      BY <1>1, <1>7, <2>1, <2>3
    <3>2. M!GraphSettles'
      BY <1>1, <1>7, <2>1, <2>3 DEF M!GraphSettles
    <3> QED BY <1>7, <2>2, <3>1, <3>2 DEF MetricsInv
  <2>4. CASE M!FetchVolumeStats(mSpan') /\ UNCHANGED mAlive
    <3>1. mSpan' \in Spans
      BY <1>7 DEF M!TypeOK
    <3>2. /\ mAlive => mFetch' # M!Idle /\ mFetch'.span = mSpan'
          /\ ~mAlive => mFetch' = mFetch
      BY <1>3, <2>4, <3>1
    <3>3. Known' /\ Current'
      BY <1>1, <2>1, <2>4, <3>1, <3>2
    <3>4. M!GraphSettles'
      BY <2>1, <2>4, <3>2 DEF M!GraphSettles
    <3> QED BY <1>7, <2>2, <3>3, <3>4 DEF MetricsInv
  <2> QED BY <1>7, <2>3, <2>4
<1>8. ASSUME NEW u \in M!Urls, NEW fetched \in BOOLEAN, M!HandleUrlQuery(u, fetched),
             mPage' = "volumeMetrics",
             UNCHANGED <<mAlive, mNow, mDown, mNodeSpan, mShowAvg, mStats>>,
             ~fetched => mPage \in {"volume", "volumeMetrics"}
      PROVE  MetricsInv'
  <2>1. mBacked' = FALSE
    BY <1>8 DEF M!HandleUrlQuery
  <2>2. /\ mSpan' \in Spans /\ mFrom' \in M!Urls
        /\ mFrom' = mSpan' \/ (mFrom' \notin Spans /\ mSpan' = Default)
        /\ M!FetchVolumeStats(mSpan') \/ (~fetched /\ UNCHANGED <<mFetch, mSpan>>)
    <3>1. CASE u \in Spans
      BY <1>8, <3>1 DEF M!HandleUrlQuery, M!Urls
    <3>2. CASE u \notin Spans
      BY <1>1, <1>8, <3>2
         DEF M!HandleUrlQuery, M!WriteUrlTimeSpan, M!TypeOK, M!Urls
    <3> QED BY <3>1, <3>2
  <2>3. mFetch' \in [span : Spans \cup {NoPage}, start : M!Times]
    BY <1>1, <1>3, <2>2 DEF M!TypeOK
  <2>4. M!TypeOK'
    BY <1>1, <1>8, <2>1, <2>2, <2>3 DEF M!TypeOK, M!Urls, M!Times
  <2>5. M!UrlTellsSpan'
    BY <1>8, <2>2 DEF M!UrlTellsSpan
  <2> QED BY <1>7, <1>8, <2>2, <2>4, <2>5
<1>9. ASSUME NEW u \in M!Urls, M!OpenVolume(u) PROVE MetricsInv'
  <2>1. M!FetchVolumeStats(mSpan') /\ UNCHANGED <<mAlive, mNow, mDown, mSpan, mNodeSpan, mShowAvg, mStats>>
        /\ mPage' = "volume" /\ mFrom' = u /\ mBacked' = FALSE
    BY <1>9 DEF M!OpenVolume
  <2>2. mSpan' \in Spans
    BY <1>1, <2>1 DEF M!TypeOK
  <2>3. M!TypeOK'
    BY <1>1, <1>3, <2>1, <2>2 DEF M!TypeOK, M!Urls, M!Times
  <2>4. M!UrlTellsSpan'
    BY <2>1 DEF M!UrlTellsSpan
  <2> QED BY <1>7, <2>1, <2>3, <2>4
<1>10. ASSUME NEW u \in M!Urls, M!OpenVolumeMetrics(u) PROVE MetricsInv'
  BY <1>8, <1>10 DEF M!OpenVolumeMetrics
<1>11. CASE M!ReadUrl
  <2>1. mFrom \in M!Urls
    BY <1>1 DEF M!TypeOK
  <2> QED BY <1>8, <1>11, <2>1 DEF M!ReadUrl
<1>12. ASSUME NEW s \in Spans, M!ChooseSpan(s) PROVE MetricsInv'
  <2>1. /\ M!FetchVolumeStats(mSpan') /\ mSpan' = s /\ mFrom' = s
        /\ UNCHANGED <<mAlive, mNow, mDown, mPage, mBacked, mNodeSpan, mShowAvg, mStats>>
        /\ mPage = "volumeMetrics"
    BY <1>12 DEF M!ChooseSpan, M!WriteUrlTimeSpan
  <2>2. M!TypeOK'
    BY <1>1, <1>3, <2>1 DEF M!TypeOK, M!Urls, M!Times
  <2>3. M!UrlTellsSpan'
    BY <2>1 DEF M!UrlTellsSpan
  <2> QED BY <1>7, <2>1, <2>2, <2>3
\* The node page is shown with the span of the URL.
<1>13. ASSUME NEW u \in M!Urls, M!ShowNode(u), mBacked' \in BOOLEAN, mShowAvg' \in BOOLEAN,
              UNCHANGED <<mNow, mDown, mSpan, mFetch, mStats>>
       PROVE  MetricsInv'
  <2>1. /\ mPage' = "node" /\ mFrom' = u /\ mNodeSpan' = M!SpanOfUrl(u)
        /\ mAlive' = (mAlive /\ mNodeSpan' # "unknown")
    BY <1>13 DEF M!ShowNode
  <2>2. mNodeSpan' \in Spans \cup {"unknown"} /\ (u # NoPage => mNodeSpan' = u)
    BY <1>1, <2>1 DEF M!TypeOK, M!SpanOfUrl, M!Urls
  <2>3. mAlive' \in BOOLEAN /\ (mAlive' => mAlive)
    BY <1>1, <2>1 DEF M!TypeOK
  <2>4. M!TypeOK'
    BY <1>1, <1>13, <2>1, <2>2, <2>3 DEF M!TypeOK, M!Urls, M!Times
  <2>5. M!UrlTellsSpan'
    BY <2>1, <2>2 DEF M!UrlTellsSpan
  <2> QED BY <1>7, <1>13, <2>1, <2>3, <2>4, <2>5
<1>14. ASSUME NEW u \in M!Urls, NEW avg \in BOOLEAN, M!OpenNode(u, avg) PROVE MetricsInv'
  <2>1. M!ShowNode(u) /\ mBacked' \in BOOLEAN /\ UNCHANGED <<mNow, mDown, mSpan, mFetch, mStats>>
    BY <1>14 DEF M!OpenNode
  <2>2. mShowAvg' \in BOOLEAN
    BY <1>1, <1>14 DEF M!OpenNode, M!TypeOK
  <2> QED BY <1>13, <2>1, <2>2
<1>15. ASSUME NEW s \in Spans, M!ChooseNodeSpan(s) PROVE MetricsInv'
  <2>1. s \in M!Urls
    BY DEF M!Urls
  <2>2. /\ M!ShowNode(s) /\ mBacked' \in BOOLEAN /\ mShowAvg' \in BOOLEAN
        /\ UNCHANGED <<mNow, mDown, mSpan, mFetch, mStats>>
    BY <1>1, <1>15 DEF M!ChooseNodeSpan, M!TypeOK
  <2> QED BY <1>13, <2>1, <2>2
<1>16. CASE M!ToggleAvg
  <2>1. mShowAvg' \in BOOLEAN
    BY <1>1, <1>16 DEF M!ToggleAvg, M!TypeOK
  <2>2. UNCHANGED <<mAlive, mNow, mDown, mPage, mFrom, mBacked, mSpan, mNodeSpan, mFetch, mStats>>
    BY <1>16 DEF M!ToggleAvg
  <2>3. M!TypeOK' /\ M!UrlTellsSpan'
    BY <1>1, <2>1, <2>2 DEF M!TypeOK, M!UrlTellsSpan, M!Urls, M!Times
  <2> QED BY <1>7, <2>2, <2>3
<1>17. ASSUME NEW u \in M!Urls, M!Back(u) PROVE MetricsInv'
  <2>1. CASE mPage = "node"
    <3>1. /\ M!ShowNode(u) /\ mBacked' \in BOOLEAN /\ mShowAvg' \in BOOLEAN
          /\ UNCHANGED <<mNow, mDown, mSpan, mFetch, mStats>>
      BY <1>1, <1>17, <2>1 DEF M!Back, M!TypeOK
    <3> QED BY <1>13, <3>1
  <2>2. CASE mPage # "node"
    <3>1. /\ mFrom' = u /\ mBacked' = TRUE /\ mPage = "volumeMetrics"
          /\ UNCHANGED <<mAlive, mPage, mNodeSpan, mNow, mDown, mSpan, mShowAvg, mFetch, mStats>>
      BY <1>17, <2>2 DEF M!Back
    <3>2. M!TypeOK' /\ M!UrlTellsSpan'
      BY <1>1, <3>1 DEF M!TypeOK, M!UrlTellsSpan, M!Urls, M!Times
    <3> QED BY <1>7, <3>1, <3>2
  <2> QED BY <2>1, <2>2
<1>18. CASE M!Leave
  <2>1. /\ mPage' = "other" /\ mFrom' = NoPage /\ mBacked' = FALSE
        /\ UNCHANGED <<mAlive, mNow, mDown, mSpan, mNodeSpan, mShowAvg, mFetch, mStats>>
    BY <1>18 DEF M!Leave
  <2>2. M!TypeOK' /\ M!UrlTellsSpan'
    BY <1>1, <2>1 DEF M!TypeOK, M!UrlTellsSpan, M!Urls, M!Times
  <2> QED BY <1>7, <2>1, <2>2
<1> QED BY <1>4, <1>5, <1>6, <1>9, <1>10, <1>11, <1>12, <1>14, <1>15, <1>16,
           <1>17, <1>18
           DEF M!Next

\* A multiple of the frequency up to the duration is a place of the grid.
LEMMA GridPlaces ==
    ASSUME NEW f \in Nat \ {0}, NEW d \in Nat, d % f = 0
    PROVE  /\ d \div f \in Nat
           /\ d = (d \div f) * f
           /\ \A e \in Nat : e <= d /\ e % f = 0 =>
                \E q \in 0..(d \div f) : e = q * f
<1>1. ASSUME NEW e \in Nat, e % f = 0
      PROVE  e \div f \in Nat /\ e = (e \div f) * f
  BY <1>1, SMTT(30)
<1> DEFINE size == d \div f
<1>2. size \in Nat /\ d = size * f
  BY <1>1
<1> HIDE DEF size
<1>3. ASSUME NEW e \in Nat, e <= d, e % f = 0
      PROVE  \E q \in 0..size : e = q * f
  <2> DEFINE q == e \div f
  <2>1. q \in Nat /\ e = q * f
    BY <1>1, <1>3
  <2> HIDE DEF q
  <2>2. q <= size
    <3> SUFFICES ASSUME size < q PROVE FALSE
      BY <1>2, <2>1
    <3>1. size * f + f <= q * f
      BY <1>2, <2>1, Multiples
    <3>2. size * f \in Nat /\ q * f \in Nat
      BY <1>2, <2>1, Multiples
    <3> QED BY <1>2, <1>3, <2>1, <3>1, <3>2
  <2> QED BY <1>2, <2>1, <2>2
<1> QED BY <1>2, <1>3 DEF size

\* What the graph of a volume draws of the samples fetched.
LEMMA GraphFaithful ==
    ASSUME MetricsInv, M!MetricsAssumption
    PROVE  M!GraphIsFaithful
<1> SUFFICES ASSUME NEW m \in Metrics
    PROVE  LET points == M!Operated(m)
               drawn == {points[i].time : i \in
                            {k \in DOMAIN points : points[k].value # M!Null}}
           IN /\ \A i \in DOMAIN points : points[i].value \in {M!Null, points[i].time}
              /\ mStats.span = mSpan =>
                    drawn = mStats.samples[m] \ {mStats.start + Duration[mSpan]}
  BY DEF M!GraphIsFaithful
<1> DEFINE times == mStats.samples[m]
           start == mStats.start
           f == Frequency[mSpan]
           d == Duration[mSpan]
           size == d \div f
           points == M!AddMissingDataPoint(M!Values(times), start, d, f)
           drawn == ShownTimes(points)
<1>1. /\ mSpan \in Spans /\ start \in M!Times /\ times \subseteq M!Times
      /\ MaxTime \in Nat
  BY DEF MetricsInv, M!TypeOK, M!MetricsAssumption
<1>2. f \in Nat \ {0} /\ d \in Nat /\ d % f = 0
  BY <1>1 DEF M!MetricsAssumption
<1>3. times \subseteq Nat /\ IsFiniteSet(times) /\ start \in Nat
  <2> HIDE DEF times, start
  <2>1. IsFiniteSet(M!Times)
    BY <1>1, FS_Interval DEF M!Times
  <2>2. M!Times \subseteq Nat
    BY <1>1 DEF M!Times
  <2>3. IsFiniteSet(times)
    BY <1>1, <2>1, FS_Subset
  <2> QED BY <1>1, <2>2, <2>3
<1>4. mStats.span = mSpan => OnGrid(start, mSpan, times)
  BY <1>1 DEF MetricsInv
<1>5. points = M!Operated(m)
  BY DEF M!Operated
<1> HIDE DEF times, start, f, d
<1>6. /\ size \in Nat /\ d = size * f
      /\ \A e \in Nat : e <= d /\ e % f = 0 => \E q \in 0..size : e = q * f
  BY <1>2, GridPlaces
<1>7. size = d \div f
  OBVIOUS
<1> HIDE DEF size
<1>8. GridSize(d, f, size)
  BY <1>6, <1>7 DEF GridSize
<1>9. ASSUME NEW i \in DOMAIN points
      PROVE  points[i].value \in {M!Null, points[i].time}
  <2>1. size \in Nat
    BY <1>6
  <2>2. UnshiftedPoints(points)
    BY <1>2, <1>3, <1>8, <2>1, NoneShifted
  <2> HIDE DEF points
  <2> QED BY <2>2 DEF UnshiftedPoints
<1>10. ASSUME mStats.span = mSpan
      PROVE  drawn = times \ {start + d}
  <2>1. ASSUME NEW t \in times
        PROVE  \E q \in 0..size : t = start + q * f
    <3>1. t \in Nat /\ start <= t /\ t <= start + d /\ (t - start) % f = 0
      BY <1>3, <1>4, <1>10 DEF OnGrid, f, d
    <3> DEFINE e == t - start
    <3>2. e \in Nat /\ e <= d /\ t = start + e /\ e % f = 0
      BY <1>2, <1>3, <3>1
    <3> HIDE DEF e
    <3>3. PICK q \in 0..size : e = q * f
      BY <1>6, <3>2
    <3> QED BY <3>2, <3>3
  <2>2. size \in Nat
    BY <1>6
  <2>3. OnPlaces(times, start, f, size)
    BY <2>1 DEF OnPlaces
  <2> HIDE DEF points, drawn
  <2>4. DrawsAll(M!AddMissingDataPoint(M!Values(times), start, d, f), times, start + d)
    BY <1>2, <1>3, <1>8, <2>2, <2>3, AllDrawn
  <2> QED BY <2>4 DEF DrawsAll, points, drawn
<1> HIDE DEF points, drawn
<1> QED BY <1>5, <1>9, <1>10 DEF ShownTimes, drawn, times, start, d

\* The position of a type in the alphabet.
AtPosition(type, i) == i \in 1..12 /\ \A k \in 1..12 : M!Alphabet[k] = type <=> k = i

LEMMA PositionsOfTypes ==
    /\ DOMAIN M!Alphabet = 1..12
    /\ AtPosition("In", 2) /\ AtPosition("Out", 4) /\ AtPosition("Read", 5) /\ AtPosition("Write", 7)
    /\ AtPosition("in avg", 9) /\ AtPosition("out avg", 10)
    /\ AtPosition("read avg", 11) /\ AtPosition("write avg", 12)
<1> DEFINE letters == M!Alphabet
<1>1. /\ DOMAIN letters = 1..12
      /\ letters[1] = "CPU Usage" /\ letters[2] = "In" /\ letters[3] = "Memory"
      /\ letters[4] = "Out" /\ letters[5] = "Read" /\ letters[6] = "System Load"
      /\ letters[7] = "Write" /\ letters[8] = "cluster avg"
      /\ letters[9] = "in avg" /\ letters[10] = "out avg"
      /\ letters[11] = "read avg" /\ letters[12] = "write avg"
  BY DEF M!Alphabet
<1> HIDE DEF letters
<1>2. ASSUME NEW k \in 1..12
      PROVE  /\ letters[k] = "In" <=> k = 2
             /\ letters[k] = "Out" <=> k = 4
             /\ letters[k] = "Read" <=> k = 5
             /\ letters[k] = "Write" <=> k = 7
             /\ letters[k] = "in avg" <=> k = 9
             /\ letters[k] = "out avg" <=> k = 10
             /\ letters[k] = "read avg" <=> k = 11
             /\ letters[k] = "write avg" <=> k = 12
  <2>1. \/ k = 1 \/ k = 2 \/ k = 3 \/ k = 4 \/ k = 5 \/ k = 6
        \/ k = 7 \/ k = 8 \/ k = 9 \/ k = 10 \/ k = 11 \/ k = 12
    OBVIOUS
  <2> QED BY <1>1, <2>1
<1>3. \A k \in 1..12 :
        /\ M!Alphabet[k] = "In" <=> k = 2
        /\ M!Alphabet[k] = "Out" <=> k = 4
        /\ M!Alphabet[k] = "Read" <=> k = 5
        /\ M!Alphabet[k] = "Write" <=> k = 7
        /\ M!Alphabet[k] = "in avg" <=> k = 9
        /\ M!Alphabet[k] = "out avg" <=> k = 10
        /\ M!Alphabet[k] = "read avg" <=> k = 11
        /\ M!Alphabet[k] = "write avg" <=> k = 12
  BY <1>2 DEF letters
<1>4. {2, 4, 5, 7, 9, 10, 11, 12} \subseteq 1..12
  OBVIOUS
<1>5. AtPosition("In", 2) /\ AtPosition("Out", 4)
  BY <1>3, <1>4 DEF AtPosition
<1>6. AtPosition("Read", 5) /\ AtPosition("Write", 7)
  BY <1>3, <1>4 DEF AtPosition
<1>7. AtPosition("in avg", 9) /\ AtPosition("out avg", 10)
  BY <1>3, <1>4 DEF AtPosition
<1>8. AtPosition("read avg", 11) /\ AtPosition("write avg", 12)
  BY <1>3, <1>4 DEF AtPosition
<1> QED BY <1>1, <1>5, <1>6, <1>7, <1>8 DEF letters

\* The types before one are those of a smaller position.
LEMMA EarlierTypes ==
    ASSUME NEW chart, NEW t, NEW u, NEW i, NEW j, AtPosition(t, i), AtPosition(u, j), t \in M!Drawn(chart)
    PROVE  t \in M!Before(chart, u) <=> i < j
<1>1. t \in M!Before(chart, u) <=> \E k, l \in 1..12 :
          k < l /\ M!Alphabet[k] = t /\ M!Alphabet[l] = u
  BY PositionsOfTypes DEF M!Before
<1> QED BY <1>1 DEF AtPosition

\* How many there are of a few.
LEMMA FewOf ==
    /\ Cardinality({}) = 0
    /\ \A a : Cardinality({a}) = 1
    /\ \A a, b : a # b => Cardinality({a, b}) = 2 /\ IsFiniteSet({a, b})
<1>1. Cardinality({}) = 0 /\ IsFiniteSet({})
  BY FS_EmptySet
<1>2. ASSUME NEW a PROVE Cardinality({a}) = 1 /\ IsFiniteSet({a})
  BY FS_Singleton
<1>3. ASSUME NEW a, NEW b, a # b
      PROVE  Cardinality({a, b}) = 2 /\ IsFiniteSet({a, b})
  <2>1. {a, b} = {a} \cup {b} /\ b \notin {a}
    BY <1>3
  <2>2. IsFiniteSet({a} \cup {b}) /\ Cardinality({a} \cup {b}) = Cardinality({a}) + 1
    BY <1>2, <2>1, FS_AddElement
  <2> QED BY <1>2, <2>1, <2>2
<1> QED BY <1>1, <1>2, <1>3

ThreeIn(set, a, b, c) == set = {a, b, c} /\ a # b /\ a # c /\ b # c

LEMMA ThreeOf ==
    ASSUME NEW set, NEW a, NEW b, NEW c, ThreeIn(set, a, b, c)
    PROVE  Cardinality(set) = 3
<1>1. set = {a, b} \cup {c} /\ c \notin {a, b} /\ a # b
  BY DEF ThreeIn
<1>2. Cardinality({a, b}) = 2 /\ IsFiniteSet({a, b})
  BY <1>1, FewOf
<1>3. Cardinality({a, b} \cup {c}) = Cardinality({a, b}) + 1
  BY <1>1, <1>2, FS_AddElement
<1> QED BY <1>1, <1>2, <1>3

\* Some lines, and their averages where they are shown.
Fields(plain, avg) == plain \cup (IF mShowAvg THEN avg ELSE {})

LinesOf(chart, a, b, c, d) == M!Drawn(chart) = Fields({a, b}, {c, d})

\* The series of a chart; the legends of a series and of its average.
SeriesOf(chart, m, n) == chart.data = {m, n}
LegendOf(m, a, c) == M!TypedMetrics[m] = a /\ M!TypedAvgMetrics[m] = c

LEMMA LinesDrawn ==
    ASSUME NEW chart, NEW m, NEW n, SeriesOf(chart, m, n),
           NEW a, NEW b, NEW c, NEW d, LegendOf(m, a, c), LegendOf(n, b, d)
    PROVE  LinesOf(chart, a, b, c, d)
<1>1. /\ {M!TypedMetrics[k] : k \in {m, n}} = {a, b}
      /\ {M!TypedAvgMetrics[k] : k \in {m, n}} = {c, d}
  BY DEF SeriesOf, LegendOf
<1>2. CASE mShowAvg
  BY <1>1, <1>2 DEF M!Drawn, Fields, LinesOf, SeriesOf
<1>3. CASE ~mShowAvg
  BY <1>1, <1>3 DEF M!Drawn, Fields, LinesOf, SeriesOf
<1> QED BY <1>2, <1>3

\* The ranks of two lines of each kind, the plain ones first.
LEMMA TwoLines ==
    ASSUME NEW chart, NEW a, NEW b, NEW i, NEW j, AtPosition(a, i), AtPosition(b, j), i < j,
           M!Drawn(chart) = {a, b}
    PROVE  /\ Cardinality(M!Before(chart, a)) = 0
           /\ Cardinality(M!Before(chart, b)) = 1
<1>1. i \in Nat /\ j \in Nat /\ ~(i < i) /\ ~(j < j) /\ ~(j < i)
  BY DEF AtPosition
<1>2. /\ a \in M!Drawn(chart) /\ b \in M!Drawn(chart)
      /\ \A t : M!Before(chart, t) \subseteq {a, b}
  BY DEF M!Before
<1>3. a \notin M!Before(chart, a) /\ b \notin M!Before(chart, a)
  BY <1>1, <1>2, EarlierTypes
<1>4. a \in M!Before(chart, b) /\ b \notin M!Before(chart, b)
  BY <1>1, <1>2, EarlierTypes
<1>5. M!Before(chart, a) = {} /\ M!Before(chart, b) = {a}
  BY <1>2, <1>3, <1>4
<1> QED BY <1>5, FewOf

\* The same with their averages.
LEMMA FourLines ==
    ASSUME NEW chart, NEW a, NEW b, NEW c, NEW d, NEW i, NEW j, NEW k, NEW l,
           AtPosition(a, i), AtPosition(b, j), AtPosition(c, k), AtPosition(d, l), i < j, j < k, k < l,
           M!Drawn(chart) = {a, b, c, d}
    PROVE  /\ Cardinality(M!Before(chart, a)) = 0
           /\ Cardinality(M!Before(chart, b)) = 1
           /\ Cardinality(M!Before(chart, c)) = 2
           /\ Cardinality(M!Before(chart, d)) = 3
<1>1. /\ i \in Nat /\ j \in Nat /\ k \in Nat /\ l \in Nat
      /\ i < k /\ i < l /\ j < l
      /\ ~(i < i) /\ ~(j < j) /\ ~(k < k) /\ ~(l < l)
      /\ ~(j < i) /\ ~(k < i) /\ ~(l < i) /\ ~(k < j) /\ ~(l < j) /\ ~(l < k)
  BY DEF AtPosition
<1>2. /\ a \in M!Drawn(chart) /\ b \in M!Drawn(chart)
      /\ c \in M!Drawn(chart) /\ d \in M!Drawn(chart)
      /\ \A t : M!Before(chart, t) \subseteq {a, b, c, d}
  BY DEF M!Before
<1>3. /\ a \notin M!Before(chart, a) /\ b \notin M!Before(chart, a)
      /\ c \notin M!Before(chart, a) /\ d \notin M!Before(chart, a)
  BY <1>1, <1>2, EarlierTypes
<1>4. a \in M!Before(chart, b)
  BY <1>1, <1>2, EarlierTypes
<1>5. b \notin M!Before(chart, b) /\ c \notin M!Before(chart, b) /\ d \notin M!Before(chart, b)
  BY <1>1, <1>2, EarlierTypes
<1>6. a \in M!Before(chart, c) /\ b \in M!Before(chart, c)
  BY <1>1, <1>2, EarlierTypes
<1>7. c \notin M!Before(chart, c) /\ d \notin M!Before(chart, c)
  BY <1>1, <1>2, EarlierTypes
<1>8. a \in M!Before(chart, d) /\ b \in M!Before(chart, d)
  BY <1>1, <1>2, EarlierTypes
<1>9. c \in M!Before(chart, d) /\ d \notin M!Before(chart, d)
  BY <1>1, <1>2, EarlierTypes
<1> DEFINE A == M!Before(chart, a)
           B == M!Before(chart, b)
           C == M!Before(chart, c)
           D == M!Before(chart, d)
<1>10. a # b /\ a # c /\ b # c
  BY <1>3, <1>4, <1>5, <1>6
<1>11. /\ A \subseteq {a, b, c, d} /\ B \subseteq {a, b, c, d}
       /\ C \subseteq {a, b, c, d} /\ D \subseteq {a, b, c, d}
  BY <1>2
<1>12. A = {}
  BY <1>3, <1>11
<1>13. B = {a}
  BY <1>4, <1>5, <1>11
<1>14. C = {a, b}
  BY <1>6, <1>7, <1>11
<1>15. D = {a, b, c}
  BY <1>8, <1>9, <1>11
<1>16. Cardinality({a, b}) = 2
  BY <1>10, FewOf, Zenon
<1> HIDE DEF A, B, C, D
<1>17. Cardinality(A) = 0 /\ Cardinality(B) = 1
  BY <1>12, <1>13, FewOf
<1>18. Cardinality(C) = 2
  BY <1>14, <1>16, Zenon
<1>19. Cardinality(D) = 3
  <2>1. ThreeIn(D, a, b, c)
    BY <1>10, <1>15 DEF ThreeIn
  <2> QED BY <2>1, ThreeOf
<1> QED BY <1>17, <1>18, <1>19 DEF A, B, C, D

\* What the tooltips hold.
LEMMA Tooltips ==
    /\ M!Tooltip("tooltipConfigCPU") = Fields({"CPU Usage"}, {"cluster avg"})
    /\ M!Tooltip("tooltipConfigSystemLoad") = Fields({"System Load"}, {"cluster avg"})
    /\ M!Tooltip("tooltipConfigMemory") = Fields({"Memory"}, {"cluster avg"})
    /\ M!Tooltip("tooltipConfigIops") = Fields({"Read", "Write"}, {"read avg", "write avg"})
    /\ M!Tooltip("tooltipConfigInOut") = Fields({"In", "Out"}, {"in avg", "out avg"})
BY DEF M!Tooltip, Fields

\* The legends of the series.
LEMMA Legends ==
    /\ LegendOf("cpuUsage", "CPU Usage", "cluster avg")
    /\ LegendOf("systemLoad", "System Load", "cluster avg")
    /\ LegendOf("memory", "Memory", "cluster avg")
    /\ LegendOf("iopsRead", "Read", "read avg") /\ LegendOf("iopsWrite", "Write", "write avg")
    /\ LegendOf("controlPlaneIn", "In", "in avg")
    /\ LegendOf("controlPlaneOut", "Out", "out avg")
    /\ LegendOf("workloadPlaneIn", "In", "in avg")
    /\ LegendOf("workloadPlaneOut", "Out", "out avg")
BY DEF M!TypedMetrics, M!TypedAvgMetrics, LegendOf

\* Every line drawn has its line in the tooltip.
LEMMA LinesInTooltip ==
    ASSUME NEW chart \in M!Charts
    PROVE  M!Tooltip(chart.tooltip) = M!Drawn(chart)
<1>1. CASE chart = M!Chart({"cpuUsage"}, "tooltipConfigCPU", "colorCPU")
  <2>1. SeriesOf(chart, "cpuUsage", "cpuUsage") /\ chart.tooltip = "tooltipConfigCPU"
    BY <1>1 DEF M!Chart, SeriesOf
  <2>2. LinesOf(chart, "CPU Usage", "CPU Usage", "cluster avg", "cluster avg")
    BY <2>1, Legends, LinesDrawn
  <2>3. M!Drawn(chart) = Fields({"CPU Usage", "CPU Usage"}, {"cluster avg", "cluster avg"})
    BY <2>2 DEF LinesOf
  <2>4. {"CPU Usage", "CPU Usage"} = {"CPU Usage"} /\ {"cluster avg", "cluster avg"} = {"cluster avg"}
    OBVIOUS
  <2>5. M!Drawn(chart) = Fields({"CPU Usage"}, {"cluster avg"})
    BY <2>3, <2>4, Zenon
  <2> QED BY <2>1, <2>5, Tooltips
<1>2. CASE chart = M!Chart({"systemLoad"}, "tooltipConfigSystemLoad", "colorSystemLoad")
  <2>1. SeriesOf(chart, "systemLoad", "systemLoad") /\ chart.tooltip = "tooltipConfigSystemLoad"
    BY <1>2 DEF M!Chart, SeriesOf
  <2>2. LinesOf(chart, "System Load", "System Load", "cluster avg", "cluster avg")
    BY <2>1, Legends, LinesDrawn
  <2>3. M!Drawn(chart) = Fields({"System Load", "System Load"}, {"cluster avg", "cluster avg"})
    BY <2>2 DEF LinesOf
  <2>4. {"System Load", "System Load"} = {"System Load"} /\ {"cluster avg", "cluster avg"} = {"cluster avg"}
    OBVIOUS
  <2>5. M!Drawn(chart) = Fields({"System Load"}, {"cluster avg"})
    BY <2>3, <2>4, Zenon
  <2> QED BY <2>1, <2>5, Tooltips
<1>3. CASE chart = M!Chart({"memory"}, "tooltipConfigMemory", "colorMemory")
  <2>1. SeriesOf(chart, "memory", "memory") /\ chart.tooltip = "tooltipConfigMemory"
    BY <1>3 DEF M!Chart, SeriesOf
  <2>2. LinesOf(chart, "Memory", "Memory", "cluster avg", "cluster avg")
    BY <2>1, Legends, LinesDrawn
  <2>3. M!Drawn(chart) = Fields({"Memory", "Memory"}, {"cluster avg", "cluster avg"})
    BY <2>2 DEF LinesOf
  <2>4. {"Memory", "Memory"} = {"Memory"} /\ {"cluster avg", "cluster avg"} = {"cluster avg"}
    OBVIOUS
  <2>5. M!Drawn(chart) = Fields({"Memory"}, {"cluster avg"})
    BY <2>3, <2>4, Zenon
  <2> QED BY <2>1, <2>5, Tooltips
<1>4. CASE chart = M!Chart({"iopsRead", "iopsWrite"}, "tooltipConfigIops", "colorsWriteRead")
  <2>1. SeriesOf(chart, "iopsRead", "iopsWrite") /\ chart.tooltip = "tooltipConfigIops"
    BY <1>4 DEF M!Chart, SeriesOf
  <2>2. LinesOf(chart, "Read", "Write", "read avg", "write avg")
    BY <2>1, Legends, LinesDrawn
  <2>3. M!Drawn(chart) = Fields({"Read", "Write"}, {"read avg", "write avg"})
    BY <2>2 DEF LinesOf
  <2> QED BY <2>1, <2>3, Tooltips
<1>5. CASE chart = M!Chart({"controlPlaneIn", "controlPlaneOut"}, "tooltipConfigInOut", "colorsInOut")
  <2>1. SeriesOf(chart, "controlPlaneIn", "controlPlaneOut") /\ chart.tooltip = "tooltipConfigInOut"
    BY <1>5 DEF M!Chart, SeriesOf
  <2>2. LinesOf(chart, "In", "Out", "in avg", "out avg")
    BY <2>1, Legends, LinesDrawn
  <2>3. M!Drawn(chart) = Fields({"In", "Out"}, {"in avg", "out avg"})
    BY <2>2 DEF LinesOf
  <2> QED BY <2>1, <2>3, Tooltips
<1>6. CASE chart = M!Chart({"workloadPlaneIn", "workloadPlaneOut"}, "tooltipConfigInOut", "colorsInOut")
  <2>1. SeriesOf(chart, "workloadPlaneIn", "workloadPlaneOut") /\ chart.tooltip = "tooltipConfigInOut"
    BY <1>6 DEF M!Chart, SeriesOf
  <2>2. LinesOf(chart, "In", "Out", "in avg", "out avg")
    BY <2>1, Legends, LinesDrawn
  <2>3. M!Drawn(chart) = Fields({"In", "Out"}, {"in avg", "out avg"})
    BY <2>2 DEF LinesOf
  <2> QED BY <2>1, <2>3, Tooltips
<1> QED BY <1>1, <1>2, <1>3, <1>4, <1>5, <1>6 DEF M!Charts

\* The two colours of a range.
TwoColoursOf(color, a, b) ==
    \/ color = "colorsWriteRead" /\ a = "purple" /\ b = "sand"
    \/ color = "colorsInOut" /\ a = "sand" /\ b = "purple"

\* Four types in the order of the alphabet.
Ordered(a, b, c, d) ==
    \E i, j, k, l \in Nat : /\ i < j /\ j < k /\ k < l
                            /\ AtPosition(a, i) /\ AtPosition(b, j) /\ AtPosition(c, k) /\ AtPosition(d, l)

\* The colours of a range of two, or of the same two twice.
LEMMA TwoByTwo ==
    ASSUME mShowAvg \in BOOLEAN, NEW chart, NEW a, NEW b, NEW type,
           TwoColoursOf(chart.color, a, b)
    PROVE  /\ Cardinality(M!Before(chart, type)) = 0 => M!ColorOf(chart, type) = a
           /\ Cardinality(M!Before(chart, type)) = 1 => M!ColorOf(chart, type) = b
           /\ mShowAvg /\ Cardinality(M!Before(chart, type)) = 2 => M!ColorOf(chart, type) = a
           /\ mShowAvg /\ Cardinality(M!Before(chart, type)) = 3 => M!ColorOf(chart, type) = b
<1> DEFINE rank == Cardinality(M!Before(chart, type))
           range == M!ColorRange(chart.color)
           place == (rank % Len(range)) + 1
<1>1. M!ColorOf(chart, type) = range[place]
  BY SameCardinality DEF M!ColorOf
<1>2. range = IF mShowAvg THEN <<a, b>> \o <<a, b>> ELSE <<a, b>>
  BY DEF M!ColorRange, TwoColoursOf
<1> HIDE DEF rank, range
<1>3. /\ Len(range) = IF mShowAvg THEN 4 ELSE 2
      /\ range[1] = a /\ range[2] = b
      /\ mShowAvg => range[3] = a /\ range[4] = b
  <2>1. CASE mShowAvg
    <3>1. range = <<a, b>> \o <<a, b>>
      BY <1>2, <2>1
    <3>2. /\ Len(<<a, b>> \o <<a, b>>) = 4
          /\ (<<a, b>> \o <<a, b>>)[1] = a /\ (<<a, b>> \o <<a, b>>)[2] = b
          /\ (<<a, b>> \o <<a, b>>)[3] = a /\ (<<a, b>> \o <<a, b>>)[4] = b
      OBVIOUS
    <3> QED BY <2>1, <3>1, <3>2
  <2>2. CASE ~mShowAvg
    BY <1>2, <2>2
  <2> QED BY <2>1, <2>2
<1>4. /\ rank = 0 => place = 1
      /\ rank = 1 => place = 2
      /\ mShowAvg /\ rank = 2 => place = 3
      /\ mShowAvg /\ rank = 3 => place = 4
  <2>1. CASE mShowAvg
    <3>1. place = (rank % 4) + 1
      BY <1>3, <2>1
    <3> HIDE DEF place
    <3> QED BY <3>1
  <2>2. CASE ~mShowAvg
    <3>1. place = (rank % 2) + 1
      BY <1>3, <2>2
    <3> HIDE DEF place
    <3> QED BY <2>2, <3>1
  <2> QED BY <2>1, <2>2
<1> HIDE DEF place
<1>5. /\ rank = 0 => M!ColorOf(chart, type) = a
      /\ rank = 1 => M!ColorOf(chart, type) = b
      /\ mShowAvg /\ rank = 2 => M!ColorOf(chart, type) = a
      /\ mShowAvg /\ rank = 3 => M!ColorOf(chart, type) = b
  BY <1>1, <1>3, <1>4
<1> QED BY <1>5 DEF rank

\* The two lines of a chart, and their averages, have its two colours.
LEMMA Colored ==
    ASSUME mShowAvg \in BOOLEAN, NEW chart, NEW a, NEW b, NEW m, NEW n,
           TwoColoursOf(chart.color, a, b),
           SeriesOf(chart, m, n),
           Ordered(M!TypedMetrics[m], M!TypedMetrics[n], M!TypedAvgMetrics[m], M!TypedAvgMetrics[n])
    PROVE  /\ M!ColorOf(chart, M!TypedMetrics[m]) = a
           /\ M!ColorOf(chart, M!TypedMetrics[n]) = b
           /\ mShowAvg => M!ColorOf(chart, M!TypedAvgMetrics[m]) = a
           /\ mShowAvg => M!ColorOf(chart, M!TypedAvgMetrics[n]) = b
<1> DEFINE p == M!TypedMetrics[m]
           q == M!TypedMetrics[n]
           r == M!TypedAvgMetrics[m]
           s == M!TypedAvgMetrics[n]
<1>1. PICK i, j, k, l \in Nat : /\ i < j /\ j < k /\ k < l
                               /\ AtPosition(p, i) /\ AtPosition(q, j) /\ AtPosition(r, k) /\ AtPosition(s, l)
  BY DEF Ordered
<1>2. M!Drawn(chart) = Fields({p, q}, {r, s})
  <2>1. LegendOf(m, p, r) /\ LegendOf(n, q, s)
    BY DEF LegendOf
  <2> HIDE DEF p, q, r, s
  <2>2. LinesOf(chart, p, q, r, s)
    BY <2>1, LinesDrawn
  <2> QED BY <2>2 DEF LinesOf
<1> HIDE DEF p, q, r, s
<1> DEFINE rank(type) == Cardinality(M!Before(chart, type))
<1>3. \A type : /\ rank(type) = 0 => M!ColorOf(chart, type) = a
                /\ rank(type) = 1 => M!ColorOf(chart, type) = b
                /\ mShowAvg /\ rank(type) = 2 => M!ColorOf(chart, type) = a
                /\ mShowAvg /\ rank(type) = 3 => M!ColorOf(chart, type) = b
  BY TwoByTwo
<1>4. CASE mShowAvg
  <2>1. M!Drawn(chart) = {p, q, r, s}
    BY <1>4, <1>2 DEF Fields
  <2>2. rank(p) = 0 /\ rank(q) = 1 /\ rank(r) = 2 /\ rank(s) = 3
    BY <1>1, <2>1, FourLines
  <2> HIDE DEF rank
  <2> QED BY <1>3, <1>4, <2>2 DEF p, q, r, s
<1>5. CASE ~mShowAvg
  <2>1. M!Drawn(chart) = {p, q}
    BY <1>5, <1>2 DEF Fields
  <2>2. rank(p) = 0 /\ rank(q) = 1
    BY <1>1, <2>1, TwoLines
  <2> HIDE DEF rank
  <2> QED BY <1>3, <1>5, <2>2 DEF p, q
<1> QED BY <1>4, <1>5

\* The charts of a node.
LEMMA ChartsAreReadable ==
    ASSUME mShowAvg \in BOOLEAN
    PROVE  M!ChartsReadable
<1> DEFINE kind(m) == IF M!TypedMetrics[m] \in {"Read", "Out"} THEN "purple" ELSE "sand"
           colored(chart, m) == /\ M!ColorOf(chart, M!TypedMetrics[m]) = kind(m)
                                /\ mShowAvg => M!ColorOf(chart, M!TypedAvgMetrics[m]) = kind(m)
<1>1. /\ kind("iopsRead") = "purple" /\ kind("iopsWrite") = "sand"
      /\ kind("controlPlaneIn") = "sand" /\ kind("controlPlaneOut") = "purple"
      /\ kind("workloadPlaneIn") = "sand" /\ kind("workloadPlaneOut") = "purple"
  BY Legends DEF LegendOf
<1> HIDE DEF kind
<1>2. 2 < 4 /\ 4 < 9 /\ 9 < 10 /\ 5 < 7 /\ 7 < 11 /\ 11 < 12
  OBVIOUS
<1>3. ASSUME NEW chart, SeriesOf(chart, "iopsRead", "iopsWrite"),
             chart.color = "colorsWriteRead"
      PROVE  colored(chart, "iopsRead") /\ colored(chart, "iopsWrite")
  <2>1. /\ AtPosition(M!TypedMetrics["iopsRead"], 5) /\ AtPosition(M!TypedMetrics["iopsWrite"], 7)
        /\ AtPosition(M!TypedAvgMetrics["iopsRead"], 11) /\ AtPosition(M!TypedAvgMetrics["iopsWrite"], 12)
    BY Legends, PositionsOfTypes DEF LegendOf
  <2>2. Ordered(M!TypedMetrics["iopsRead"], M!TypedMetrics["iopsWrite"],
                M!TypedAvgMetrics["iopsRead"], M!TypedAvgMetrics["iopsWrite"])
    BY <1>2, <2>1 DEF Ordered
  <2>3. TwoColoursOf(chart.color, "purple", "sand")
    BY <1>3 DEF TwoColoursOf
  <2>4. /\ M!ColorOf(chart, M!TypedMetrics["iopsRead"]) = "purple"
        /\ M!ColorOf(chart, M!TypedMetrics["iopsWrite"]) = "sand"
        /\ mShowAvg => M!ColorOf(chart, M!TypedAvgMetrics["iopsRead"]) = "purple"
        /\ mShowAvg => M!ColorOf(chart, M!TypedAvgMetrics["iopsWrite"]) = "sand"
    BY <1>3, <2>2, <2>3, Colored
  <2> QED BY <1>1, <2>4
<1>4. ASSUME NEW chart, NEW in, NEW out, SeriesOf(chart, in, out),
             chart.color = "colorsInOut", kind(in) = "sand", kind(out) = "purple",
             LegendOf(in, "In", "in avg"), LegendOf(out, "Out", "out avg")
      PROVE  colored(chart, in) /\ colored(chart, out)
  <2>1. /\ AtPosition(M!TypedMetrics[in], 2) /\ AtPosition(M!TypedMetrics[out], 4)
        /\ AtPosition(M!TypedAvgMetrics[in], 9) /\ AtPosition(M!TypedAvgMetrics[out], 10)
    BY <1>4, PositionsOfTypes DEF LegendOf
  <2>2. Ordered(M!TypedMetrics[in], M!TypedMetrics[out],
                M!TypedAvgMetrics[in], M!TypedAvgMetrics[out])
    BY <1>2, <2>1 DEF Ordered
  <2>3. TwoColoursOf(chart.color, "sand", "purple")
    BY <1>4 DEF TwoColoursOf
  <2>4. SeriesOf(chart, in, out)
    BY <1>4
  <2>5. /\ M!ColorOf(chart, M!TypedMetrics[in]) = "sand"
        /\ M!ColorOf(chart, M!TypedMetrics[out]) = "purple"
        /\ mShowAvg => M!ColorOf(chart, M!TypedAvgMetrics[in]) = "sand"
        /\ mShowAvg => M!ColorOf(chart, M!TypedAvgMetrics[out]) = "purple"
    BY <2>2, <2>3, <2>4, Colored
  <2> QED BY <1>4, <2>5
<1> HIDE DEF colored
<1>5. ASSUME NEW chart \in M!Charts, NEW m \in chart.data \cap M!TwoColours
      PROVE  colored(chart, m)
  <2>1. CASE chart = M!Chart({"iopsRead", "iopsWrite"}, "tooltipConfigIops", "colorsWriteRead")
    <3>1. SeriesOf(chart, "iopsRead", "iopsWrite") /\ chart.color = "colorsWriteRead"
      BY <2>1 DEF M!Chart, SeriesOf
    <3> QED BY <1>3, <3>1 DEF SeriesOf
  <2>2. CASE chart = M!Chart({"controlPlaneIn", "controlPlaneOut"}, "tooltipConfigInOut",
                           "colorsInOut")
    <3>1. SeriesOf(chart, "controlPlaneIn", "controlPlaneOut") /\ chart.color = "colorsInOut"
      BY <2>2 DEF M!Chart, SeriesOf
    <3>2. colored(chart, "controlPlaneIn") /\ colored(chart, "controlPlaneOut")
      BY <1>1, <1>4, <3>1, Legends
    <3> QED BY <3>1, <3>2 DEF SeriesOf
  <2>3. CASE chart = M!Chart({"workloadPlaneIn", "workloadPlaneOut"}, "tooltipConfigInOut",
                           "colorsInOut")
    <3>1. SeriesOf(chart, "workloadPlaneIn", "workloadPlaneOut") /\ chart.color = "colorsInOut"
      BY <2>3 DEF M!Chart, SeriesOf
    <3>2. colored(chart, "workloadPlaneIn") /\ colored(chart, "workloadPlaneOut")
      BY <1>1, <1>4, <3>1, Legends
    <3> QED BY <3>1, <3>2 DEF SeriesOf
  <2>4. CASE chart.data \in {{"cpuUsage"}, {"systemLoad"}, {"memory"}}
    BY <2>4 DEF M!TwoColours
  <2> QED BY <2>1, <2>2, <2>3, <2>4 DEF M!Charts, M!Chart
<1> QED BY <1>5, LinesInTooltip DEF M!ChartsReadable, colored, kind

\* What MCUiPages checks of the graphs: a point never carries the value of
\* another time and, once the samples are those of the span, all but the newest
\* are drawn; when no fetch is on its way they are; the URL tells the span; and
\* the charts of a node have their colours and their tooltips.
THEOREM MetricsAreSafe ==
    ASSUME M!MetricsAssumption
    PROVE  M!Spec => []MetricsSafe
<1>1. M!Init => MetricsInv
  BY MetricsInit
<1>2. MetricsInv /\ [M!Next]_M!vars => MetricsInv'
  BY MetricsStep
<1>3. MetricsInv => MetricsSafe
  BY GraphFaithful, ChartsAreReadable DEF MetricsInv, MetricsSafe, M!TypeOK
<1> QED BY <1>1, <1>2, <1>3, PTL DEF M!Spec

-----------------------------------------------------------------------------
(* The alerts.                                                             *)

\* The alerts count as the provers' library does.
LEMMA SameNumber ==
    ASSUME NEW set
    PROVE  Al!Cardinality(set) = Cardinality(set)
BY DEF Al!Cardinality, Cardinality

\* A list of alerts, each listed once.
ListedOnce(list) ==
    /\ list \in Seq(Al!Alerts)
    /\ \A i, j \in 1..Len(list) : list[i] = list[j] => i = j

\* The alerts met again, up to a place of the list.
Met(list, i) == {k \in 1..i : Al!Twins(list, k) # {}}

\* The critical alerts of a list that have some of the names.
Critical(list, names) == {a \in Al!Of(Al!ToSet(list), "critical") : a.name \in names}

\* What Alertmanager answers is a list of what fires, each alert once.
LEMMA AnswersListOnce ==
    ASSUME NEW alerts \in SUBSET Al!Alerts, IsFiniteSet(alerts),
           NEW list \in Al!SetToSeqs(alerts)
    PROVE  ListedOnce(list) /\ Al!ToSet(list) = alerts
<1> DEFINE n == Cardinality(alerts)
<1>1. n \in Nat
  BY FS_CardinalityType
<1>2. /\ list \in [1..n -> alerts]
      /\ \A i, j \in 1..n : i # j => list[i] # list[j]
  <2>1. Al!Cardinality(alerts) = n
    BY SameNumber
  <2> QED BY <2>1 DEF Al!SetToSeqs
<1>3. IsFiniteSet(1..n) /\ Cardinality(1..n) = n
  <2>1. Cardinality(1..n) = IF 1 > n THEN 0 ELSE n - 1 + 1
    BY <1>1, FS_Interval
  <2> QED BY <1>1, <2>1, FS_Interval
<1> HIDE DEF n
<1>4. list \in Injection(1..n, alerts)
  BY <1>2 DEF Injection, IsInjective
<1>5. list \in Surjection(1..n, alerts)
  BY <1>3, <1>4, FS_Injection DEF n
<1>6. \A a \in alerts : \E i \in 1..n : list[i] = a
  BY <1>5 DEF Surjection
<1>7. Al!ToSet(list) = alerts
  BY <1>2, <1>6 DEF Al!ToSet
<1>8. list \in Seq(Al!Alerts) /\ Len(list) = n
  <2>1. list \in [1..n -> Al!Alerts]
    BY <1>2
  <2> QED BY <1>1, <2>1
<1> QED BY <1>2, <1>7, <1>8 DEF ListedOnce

\* The same alert at two places has both severities.
LEMMA TwinsDiffer ==
    ASSUME NEW list, ListedOnce(list), NEW p \in 1..Len(list),
           NEW q \in 1..Len(list), p # q,
           Al!IsSameAlertWithDiffSeverity(list[p], list[q])
    PROVE  {list[p].severity, list[q].severity} = {"critical", "warning"}
<1>1. /\ list[p] \in Al!Alerts /\ list[q] \in Al!Alerts
      /\ list[p] # list[q]
  BY DEF ListedOnce
<1>2. list[p].severity # list[q].severity
  BY <1>1 DEF Al!Alerts, Al!IsSameAlertWithDiffSeverity
<1>3. list[p].severity \in Al!Severities /\ list[q].severity \in Al!Severities
  BY <1>1 DEF Al!Alerts
<1> QED BY <1>2, <1>3 DEF Al!Severities

\* What is pushed for removal is the place of a warning.
LEMMA IndexIsOfWarning ==
    ASSUME NEW list, ListedOnce(list), NEW i \in 1..Len(list),
           Al!Twins(list, i) # {}
    PROVE  /\ Al!RemoveIndex(list, i) \in 1..Len(list)
           /\ list[Al!RemoveIndex(list, i)].severity = "warning"
<1> DEFINE j == CHOOSE j \in Al!Twins(list, i) : TRUE
<1>1. j \in Al!Twins(list, i)
  OBVIOUS
<1> HIDE DEF j
<1>2. Len(list) \in Nat
  BY DEF ListedOnce
<1>3. /\ j \in 1..Len(list) /\ i # j
      /\ Al!IsSameAlertWithDiffSeverity(list[i], list[j])
  BY <1>1, <1>2 DEF Al!Twins
<1>4. {list[i].severity, list[j].severity} = {"critical", "warning"}
  BY <1>3, TwinsDiffer
<1>5. CASE list[i].severity = "warning"
  BY <1>5 DEF Al!RemoveIndex
<1>6. CASE list[i].severity # "warning"
  <2>1. Al!RemoveIndex(list, i) = j
    BY <1>6 DEF Al!RemoveIndex, j
  <2> QED BY <1>3, <1>4, <1>6, <2>1
<1> QED BY <1>5, <1>6

\* A list has finitely many alerts.
LEMMA CriticalFinite ==
    ASSUME NEW T, NEW list \in Seq(T), NEW names
    PROVE  IsFiniteSet(Critical(list, names)) /\ IsFiniteSet(Al!ToSet(list))
<1>1. DOMAIN list = 1..Len(list) /\ Len(list) \in Nat
  OBVIOUS
<1>2. IsFiniteSet(1..Len(list))
  BY <1>1, FS_Interval
<1> DEFINE all == {list[i] : i \in 1..Len(list)}
<1>3. list \in Surjection(1..Len(list), all)
  <2>1. list \in [1..Len(list) -> all]
    OBVIOUS
  <2> QED BY <2>1 DEF Surjection
<1>4. IsFiniteSet(all)
  <2> HIDE DEF all
  <2> QED BY <1>2, <1>3, FS_Surjection
<1>5. Al!ToSet(list) = all
  BY <1>1 DEF Al!ToSet
<1>6. Critical(list, names) \in SUBSET all
  BY <1>5 DEF Critical, Al!Of
<1> HIDE DEF all
<1> QED BY <1>4, <1>5, <1>6, FS_Subset

\* There are no more pairs than critical alerts of the names that are doubled.
LEMMA PairsHaveCriticals ==
    ASSUME NEW list, ListedOnce(list), NEW names,
           \A k \in Met(list, Len(list)) : list[k].name \in names
    PROVE  Cardinality(Met(list, Len(list))) <= Cardinality(Critical(list, names))
<1> DEFINE n == Len(list)
           met == Met(list, n)
           crit == Critical(list, names)
           raised(k) == [name |-> list[k].name, on |-> list[k].on,
                         severity |-> "critical"]
           f == [k \in met |-> raised(k)]
<1>1. n \in Nat /\ \A k \in 1..n : list[k] \in Al!Alerts
  BY DEF ListedOnce
<1>2. \A k \in met : /\ k \in 1..n
                     /\ \E j \in 1..n : k < j /\ Al!IsSameAlertWithDiffSeverity(list[k], list[j])
  <2> SUFFICES ASSUME NEW k \in met
               PROVE  /\ k \in 1..n
                      /\ \E j \in 1..n : k < j /\ Al!IsSameAlertWithDiffSeverity(list[k], list[j])
    OBVIOUS
  <2>1. k \in 1..n /\ Al!Twins(list, k) # {}
    BY DEF Met
  <2>2. PICK j \in Al!Twins(list, k) : TRUE
    BY <2>1
  <2>3. /\ j \in (k + 1)..n
        /\ Al!IsSameAlertWithDiffSeverity(list[k], list[j])
    BY <2>2 DEF Al!Twins
  <2>4. j \in 1..n /\ k < j
    BY <1>1, <2>1, <2>3
  <2> QED BY <2>1, <2>3, <2>4
<1> HIDE DEF met
<1>3. ASSUME NEW k \in met PROVE raised(k) \in crit
  <2>1. PICK j \in 1..n : k < j /\ Al!IsSameAlertWithDiffSeverity(list[k], list[j])
    BY <1>2
  <2>2. k \in 1..n /\ k # j
    BY <1>1, <1>2, <2>1
  <2>3. {list[k].severity, list[j].severity} = {"critical", "warning"}
    BY <2>1, <2>2, TwinsDiffer
  <2>4. PICK p \in {k, j} : list[p].severity = "critical"
    BY <2>3
  <2>5. /\ p \in 1..n /\ list[p].name = list[k].name /\ list[p].on = list[k].on
    BY <2>1, <2>2 DEF Al!IsSameAlertWithDiffSeverity
  <2>6. list[p] \in Al!Alerts
    BY <1>1, <2>5
  <2>7. raised(k) = list[p]
    BY <2>4, <2>5, <2>6 DEF Al!Alerts
  <2>8. list[p] \in Al!ToSet(list)
    <3>1. DOMAIN list = 1..n
      BY DEF ListedOnce
    <3> QED BY <2>5, <3>1 DEF Al!ToSet
  <2>9. k \in Met(list, Len(list))
    BY DEF met
  <2>10. list[k].name \in names
    BY <2>9
  <2> QED BY <2>4, <2>5, <2>7, <2>8, <2>10 DEF Critical, Al!Of
<1>4. ASSUME NEW k \in met, NEW m \in met, k < m PROVE raised(k) # raised(m)
  <2> SUFFICES ASSUME raised(k) = raised(m) PROVE FALSE
    OBVIOUS
  <2>1. PICK j \in 1..n : m < j /\ Al!IsSameAlertWithDiffSeverity(list[m], list[j])
    BY <1>2
  <2>2. k \in 1..n /\ m \in 1..n /\ k # m /\ m # j /\ k # j
    BY <1>1, <1>2, <1>4, <2>1
  <2>3. list[k].name = list[m].name /\ list[k].on = list[m].on
    OBVIOUS
  <2>4. /\ Al!IsSameAlertWithDiffSeverity(list[k], list[m])
        /\ Al!IsSameAlertWithDiffSeverity(list[k], list[j])
    BY <2>1, <2>3 DEF Al!IsSameAlertWithDiffSeverity
  <2>5. /\ {list[k].severity, list[m].severity} = {"critical", "warning"}
        /\ {list[k].severity, list[j].severity} = {"critical", "warning"}
        /\ {list[m].severity, list[j].severity} = {"critical", "warning"}
    BY <2>1, <2>2, <2>4, TwinsDiffer
  <2> QED BY <2>5
<1>5. \A k, m \in met : k # m => f[k] # f[m]
  <2>1. \A k, m \in met : k # m => k < m \/ m < k
    BY <1>1, <1>2
  <2> HIDE DEF raised
  <2> QED BY <1>4, <2>1
<1>6. f \in Injection(met, crit)
  <2>1. f \in [met -> crit]
    BY <1>3
  <2> HIDE DEF f, crit
  <2> QED BY <1>5, <2>1 DEF Injection, IsInjective
<1>7. IsFiniteSet(crit)
  <2>1. list \in Seq(Al!Alerts)
    BY DEF ListedOnce
  <2> QED BY <2>1, CriticalFinite
<1> HIDE DEF f, crit
<1>8. Cardinality(met) <= Cardinality(crit)
  BY <1>6, <1>7, FS_Injection
<1> QED BY <1>8 DEF met, crit

\* The equation of RemoveWarningAlerts, up to a place of the list.
Removals(list, n, rest) ==
    rest = [i \in 0..n |->
              IF i = 0 THEN list
              ELSE IF Al!Twins(list, i) = {} THEN rest[i - 1]
              ELSE Al!Splice(rest[i - 1], Al!RemoveIndex(list, i))]

\* It has a solution, whose last element is what RemoveWarningAlerts leaves.
LEMMA Removes ==
    ASSUME NEW list, Len(list) \in Nat
    PROVE  \E rest : /\ Removals(list, Len(list), rest)
                     /\ Al!RemoveWarningAlerts(list) = rest[Len(list)]
<1> DEFINE R(n, rest) == Removals(list, n, rest)
           Step(left, i) == IF Al!Twins(list, i) = {} THEN left
                            ELSE Al!Splice(left, Al!RemoveIndex(list, i))
           bad == {n \in Nat : ~ \E rest : R(n, rest)}
<1>1. bad = {}
  <2> SUFFICES ASSUME bad # {} PROVE FALSE
    OBVIOUS
  <2>1. PICK n \in bad : \A m \in bad : n <= m
    <3>1. bad \subseteq Nat
      OBVIOUS
    <3> HIDE DEF bad
    <3> QED BY <3>1, HasLeast
  <2>2. n \in Nat /\ ~ \E rest : R(n, rest)
    OBVIOUS
  <2>3. n # 0
    <3> DEFINE rest == [i \in 0..0 |-> list]
    <3>1. \A i \in 0..0 : i = 0
      OBVIOUS
    <3>2. R(0, rest)
      BY <3>1 DEF Removals
    <3> QED BY <2>2, <3>2
  <2>4. n - 1 \in Nat /\ ~(n <= n - 1)
    BY <2>2, <2>3
  <2>5. PICK shorter : R(n - 1, shorter)
    BY <2>1, <2>4
  <2> DEFINE rest == [i \in 0..n |->
                        IF i = n THEN Step(shorter[n - 1], n) ELSE shorter[i]]
  <2>6. R(n, rest)
    <3>1. \A i \in 0..n : i = n \/ i \in 0..(n - 1)
      BY <2>2
    <3>2. \A i \in 0..(n - 1) : i \in 0..n /\ i # n /\ rest[i] = shorter[i]
      BY <2>2
    <3>3. \A i \in 0..(n - 1) : shorter[i] = IF i = 0 THEN list ELSE Step(shorter[i - 1], i)
      BY <2>5 DEF Removals
    <3>4. \A i \in 0..(n - 1) : i # 0 => i - 1 \in 0..(n - 1)
      BY <2>2
    <3>5. n \in 0..n /\ n - 1 \in 0..(n - 1)
      BY <2>2, <2>4
    <3>6. rest[n] = Step(rest[n - 1], n)
      BY <3>2, <3>5
    <3>7. DOMAIN rest = 0..n /\ rest = [i \in 0..n |-> rest[i]]
      OBVIOUS
    <3> HIDE DEF rest, Step
    <3>8. \A i \in 0..n : rest[i] = IF i = 0 THEN list ELSE Step(rest[i - 1], i)
      BY <2>3, <3>1, <3>2, <3>3, <3>4, <3>6
    <3>9. rest = [i \in 0..n |-> IF i = 0 THEN list ELSE Step(rest[i - 1], i)]
      BY <3>7, <3>8
    <3> QED BY <3>9 DEF Removals, Step
  <2> QED BY <2>2, <2>6
<1>2. PICK some : R(Len(list), some)
  BY <1>1
<1> DEFINE rest == CHOOSE r : Removals(list, Len(list), r)
<1>3. Removals(list, Len(list), rest)
  BY <1>2
<1>4. Al!RemoveWarningAlerts(list) = rest[Len(list)]
  BY DEF Al!RemoveWarningAlerts, Removals
<1> QED BY <1>3, <1>4

\* A removal takes at most the alert at its index.
LEMMA SpliceTakesOne ==
    ASSUME NEW list \in Seq(Al!Alerts), NEW index \in Nat \ {0}
    PROVE  /\ Al!Splice(list, index) \in Seq(Al!Alerts)
           /\ Al!ToSet(Al!Splice(list, index)) \subseteq Al!ToSet(list)
           /\ Al!ToSet(list) \ {list[index]} \subseteq Al!ToSet(Al!Splice(list, index))
<1> DEFINE left == Al!Splice(list, index)
           n == Len(list)
<1>1. n \in Nat /\ DOMAIN list = 1..n /\ \A i \in 1..n : list[i] \in Al!Alerts
  OBVIOUS
<1>2. CASE index > n
  BY <1>1, <1>2 DEF Al!Splice
<1>3. CASE ~(index > n)
  <2>1. /\ index - 1 \in 0..n /\ index \in 1..n
        /\ left = SubSeq(list, 1, index - 1) \o SubSeq(list, index + 1, n)
    <3>1. index - 1 \in 0..n /\ index \in 1..n
      BY <1>1, <1>3
    <3>2. left = Al!RemoveAt(list, index)
      BY <1>3 DEF Al!Splice
    <3> QED BY <3>1, <3>2 DEF Al!RemoveAt
  <2> DEFINE before == SubSeq(list, 1, index - 1)
             after == SubSeq(list, index + 1, n)
  <2>2. /\ before \in Seq(Al!Alerts) /\ Len(before) = index - 1
        /\ \A i \in 1..(index - 1) : before[i] = list[i]
    BY <1>1, <2>1
  <2>3. /\ after \in Seq(Al!Alerts) /\ Len(after) = n - index
        /\ \A i \in 1..(n - index) : after[i] = list[i + index]
    <3>1. /\ index + 1 \in Int /\ n \in Int
          /\ \A i \in (index + 1)..n : list[i] \in Al!Alerts
      <4>1. index \in Nat /\ n \in Nat /\ 1 <= index
        <5> HIDE DEF n
        <5> QED BY <1>1, <2>1
      <4>2. index + 1 \in Int /\ n \in Int /\ \A i \in (index + 1)..n : i \in 1..n
        <5> HIDE DEF n
        <5> QED BY <4>1
      <4> QED BY <1>1, <4>2
    <3>2. /\ after \in Seq(Al!Alerts)
          /\ Len(after) = IF index + 1 <= n THEN n - (index + 1) + 1 ELSE 0
          /\ \A i \in 1..(n - (index + 1) + 1) : after[i] = list[(index + 1) + i - 1]
      BY <3>1, SubSeqProperties
    <3>3. /\ n - (index + 1) + 1 = n - index
          /\ (IF index + 1 <= n THEN n - (index + 1) + 1 ELSE 0) = n - index
          /\ \A i \in 1..(n - index) : (index + 1) + i - 1 = i + index
      <4>1. index \in Nat /\ n \in Nat /\ index <= n
        <5> HIDE DEF n
        <5> QED BY <1>1, <2>1
      <4> HIDE DEF n
      <4> QED BY <4>1
    <3> HIDE DEF after
    <3> QED BY <3>2, <3>3
  <2> HIDE DEF before, after
  <2>4. /\ left \in Seq(Al!Alerts) /\ Len(left) = n - 1
        /\ \A i \in 1..(n - 1) : left[i] = IF i < index THEN list[i] ELSE list[i + 1]
    <3>1. left = before \o after
      BY <2>1 DEF before, after
    <3> HIDE DEF left
    <3>2. left \in Seq(Al!Alerts) /\ Len(left) = (index - 1) + (n - index)
      <4>1. left \in Seq(Al!Alerts) /\ Len(left) = Len(before) + Len(after)
        BY <2>2, <2>3, <3>1, ConcatProperties
      <4> HIDE DEF n
      <4> QED BY <2>2, <2>3, <4>1
    <3>3. (index - 1) + (n - index) = n - 1
      BY <1>1
    <3>4. ASSUME NEW i \in 1..(n - 1)
          PROVE  left[i] = IF i < index THEN list[i] ELSE list[i + 1]
      <4>1. CASE i < index
        <5>1. i \in 1..(index - 1)
          BY <1>1, <4>1
        <5>2. left[i] = before[i]
          BY <2>2, <2>3, <3>1, <5>1
        <5> QED BY <2>2, <4>1, <5>1, <5>2
      <4>2. CASE ~(i < index)
        <5>1. /\ i - (index - 1) \in 1..(n - index) /\ i \notin 1..(index - 1)
              /\ (i - (index - 1)) + index = i + 1
          BY <1>1, <4>2
        <5>2. left[i] = after[i - (index - 1)]
          BY <1>1, <2>2, <2>3, <3>1, <5>1
        <5> QED BY <2>3, <4>2, <5>1, <5>2
      <4> QED BY <4>1, <4>2
    <3> QED BY <3>2, <3>3, <3>4
  <2> HIDE DEF left
  <2>5. DOMAIN left = 1..(n - 1)
    BY <2>4
  <2>6. Al!ToSet(left) \subseteq Al!ToSet(list)
    <3>1. \A i \in 1..(n - 1) : i \in 1..n /\ i + 1 \in 1..n
      BY <1>1
    <3>2. \A i \in 1..(n - 1) : \E j \in 1..n : left[i] = list[j]
      BY <2>4, <3>1
    <3> QED BY <1>1, <2>5, <3>2 DEF Al!ToSet
  <2>7. ASSUME NEW j \in 1..n, list[j] # list[index]
        PROVE  \E i \in 1..(n - 1) : left[i] = list[j]
    <3>1. CASE j < index
      <4>1. j \in 1..(n - 1)
        BY <1>1, <2>1, <3>1
      <4> QED BY <2>4, <3>1, <4>1
    <3>2. CASE ~(j < index)
      <4>1. j - 1 \in 1..(n - 1) /\ ~(j - 1 < index) /\ (j - 1) + 1 = j
        BY <1>1, <2>1, <2>7, <3>2
      <4> QED BY <2>4, <4>1
    <3> QED BY <3>1, <3>2
  <2>8. Al!ToSet(list) \ {list[index]} \subseteq Al!ToSet(left)
    BY <1>1, <2>5, <2>7 DEF Al!ToSet
  <2> QED BY <2>4, <2>6, <2>8 DEF left
<1> QED BY <1>2, <1>3

\* Removals take one alert each, the first of them a warning: fewer critical
\* alerts are lost than are met again.
LeftOver(list, names, i, left) ==
    /\ left \in Seq(Al!Alerts) /\ Al!ToSet(left) \subseteq Al!ToSet(list)
    /\ Met(list, i) = {} => left = list
    /\ Met(list, i) # {} =>
         Cardinality(Critical(list, names)) < Cardinality(Critical(left, names)) + Cardinality(Met(list, i))

\* The alerts met again, one place further.
LEMMA MetFurther ==
    ASSUME NEW list, NEW i \in Nat \ {0}
    PROVE  /\ IsFiniteSet(Met(list, i - 1)) /\ Cardinality(Met(list, i - 1)) \in Nat
           /\ Al!Twins(list, i) = {} => Met(list, i) = Met(list, i - 1)
           /\ Al!Twins(list, i) # {} =>
                /\ Met(list, i) # {}
                /\ Cardinality(Met(list, i)) = Cardinality(Met(list, i - 1)) + 1
<1>1. /\ \A k : k \in 1..i <=> k \in 1..(i - 1) \/ k = i
      /\ i \notin 1..(i - 1)
  OBVIOUS
<1>2. IsFiniteSet(Met(list, i - 1)) /\ Cardinality(Met(list, i - 1)) \in Nat
  <2>1. IsFiniteSet(1..(i - 1))
    BY FS_Interval
  <2>2. Met(list, i - 1) \in SUBSET (1..(i - 1))
    BY DEF Met
  <2> QED BY <2>1, <2>2, FS_Subset, FS_CardinalityType
<1>3. ASSUME Al!Twins(list, i) # {}
      PROVE  /\ Met(list, i) = Met(list, i - 1) \cup {i}
             /\ i \notin Met(list, i - 1)
  BY <1>1, <1>3 DEF Met
<1>4. ASSUME Al!Twins(list, i) = {} PROVE Met(list, i) = Met(list, i - 1)
  BY <1>1, <1>4 DEF Met
<1>5. ASSUME Al!Twins(list, i) # {}
      PROVE  Cardinality(Met(list, i)) = Cardinality(Met(list, i - 1)) + 1
  BY <1>2, <1>3, <1>5, FS_AddElement
<1> QED BY <1>2, <1>3, <1>4, <1>5

\* A removal takes at most one critical alert.
LEMMA CriticalAfterSplice ==
    ASSUME NEW list \in Seq(Al!Alerts), NEW names, NEW index \in Nat \ {0}
    PROVE  LET left == Al!Splice(list, index) IN
           /\ {Cardinality(Critical(list, names)), Cardinality(Critical(left, names))} \subseteq Nat
           /\ Cardinality(Critical(list, names)) <= Cardinality(Critical(left, names)) + 1
           /\ list[index].severity = "warning" =>
                Cardinality(Critical(list, names)) <= Cardinality(Critical(left, names))
<1> DEFINE left == Al!Splice(list, index)
           before == Critical(list, names)
           after == Critical(left, names)
<1>1. /\ left \in Seq(Al!Alerts)
      /\ Al!ToSet(list) \ {list[index]} \subseteq Al!ToSet(left)
  BY SpliceTakesOne
<1>2. IsFiniteSet(before) /\ IsFiniteSet(after)
  BY <1>1, CriticalFinite
<1>3. before \ {list[index]} \subseteq after
  BY <1>1 DEF Critical, Al!Of
<1>4. list[index].severity = "warning" => before \ {list[index]} = before
  BY DEF Critical, Al!Of
<1> HIDE DEF before, after
<1>5. Cardinality(before \ {list[index]}) <= Cardinality(after)
  BY <1>2, <1>3, FS_Subset
<1>6. /\ Cardinality(before) \in Nat /\ Cardinality(after) \in Nat
      /\ Cardinality(before \ {list[index]}) =
           IF list[index] \in before THEN Cardinality(before) - 1 ELSE Cardinality(before)
  BY <1>2, FS_RemoveElement, FS_CardinalityType
<1> QED BY <1>4, <1>5, <1>6 DEF before, after

LEMMA LeftOverStep ==
    ASSUME NEW list, ListedOnce(list), NEW names, NEW i \in 1..Len(list),
           NEW left, LeftOver(list, names, i - 1, left)
    PROVE  LeftOver(list, names, i, IF Al!Twins(list, i) = {} THEN left
                             ELSE Al!Splice(left, Al!RemoveIndex(list, i)))
<1>1. list \in Seq(Al!Alerts) /\ Len(list) \in Nat /\ i \in Nat \ {0}
  BY DEF ListedOnce
<1>2. CASE Al!Twins(list, i) = {}
  <2>1. Met(list, i) = Met(list, i - 1)
    BY <1>1, <1>2, MetFurther
  <2> QED BY <1>2, <2>1 DEF LeftOver
<1>3. CASE Al!Twins(list, i) # {}
  <2> DEFINE index == Al!RemoveIndex(list, i)
             next == Al!Splice(left, index)
  <2>1. /\ index \in 1..Len(list) /\ list[index].severity = "warning"
    BY <1>3, IndexIsOfWarning
  <2>2. index \in Nat \ {0}
    BY <1>1, <2>1
  <2>3. left \in Seq(Al!Alerts) /\ Al!ToSet(left) \subseteq Al!ToSet(list)
    BY DEF LeftOver
  <2> HIDE DEF index
  <2>4. /\ next \in Seq(Al!Alerts)
        /\ Al!ToSet(next) \subseteq Al!ToSet(list)
    BY <2>2, <2>3, SpliceTakesOne
  <2>5. /\ {Cardinality(Critical(left, names)), Cardinality(Critical(next, names))} \subseteq Nat
        /\ Cardinality(Critical(left, names)) <= Cardinality(Critical(next, names)) + 1
        /\ left[index].severity = "warning" =>
             Cardinality(Critical(left, names)) <= Cardinality(Critical(next, names))
    BY <2>2, <2>3, CriticalAfterSplice
  <2>6. /\ Cardinality(Met(list, i - 1)) \in Nat
        /\ Met(list, i) # {}
        /\ Cardinality(Met(list, i)) = Cardinality(Met(list, i - 1)) + 1
    BY <1>1, <1>3, MetFurther
  <2>7. Cardinality(Critical(list, names)) \in Nat
    <3>1. IsFiniteSet(Critical(list, names))
      BY <1>1, CriticalFinite
    <3> QED BY <3>1, FS_CardinalityType
  <2> HIDE DEF next
  <2>8. Cardinality(Critical(list, names)) < Cardinality(Critical(next, names)) + Cardinality(Met(list, i))
    <3>1. CASE Met(list, i - 1) = {}
      <4>1. left = list
        BY <3>1 DEF LeftOver
      <4>2. Cardinality(Critical(list, names)) <= Cardinality(Critical(next, names))
        BY <2>1, <2>5, <4>1
      <4> QED BY <2>5, <2>6, <2>7, <4>2
    <3>2. CASE Met(list, i - 1) # {}
      <4>1. Cardinality(Critical(list, names))
              < Cardinality(Critical(left, names)) + Cardinality(Met(list, i - 1))
        BY <3>2 DEF LeftOver
      <4> QED BY <2>5, <2>6, <2>7, <4>1
    <3> QED BY <3>1, <3>2
  <2>9. LeftOver(list, names, i, next)
    BY <2>4, <2>6, <2>8 DEF LeftOver
  <2> QED BY <1>3, <2>9 DEF next, index
<1> QED BY <1>2, <1>3

\* Hiding warnings hides none but listed alerts, and never the last critical
\* one of some names, if no other name is doubled.
LEMMA CriticalKept ==
    ASSUME NEW list, ListedOnce(list), NEW names
    PROVE  /\ Al!ToSet(Al!RemoveWarningAlerts(list)) \subseteq Al!ToSet(list)
           /\ /\ \A k \in Met(list, Len(list)) : list[k].name \in names
              /\ Critical(list, names) # {}
              => Critical(Al!RemoveWarningAlerts(list), names) # {}
<1> DEFINE n == Len(list)
<1>1. list \in Seq(Al!Alerts) /\ n \in Nat
  BY DEF ListedOnce
<1>2. PICK rest : Removals(list, n, rest) /\ Al!RemoveWarningAlerts(list) = rest[n]
  BY <1>1, Removes
<1> DEFINE bad == {i \in 0..n : ~LeftOver(list, names, i, rest[i])}
<1>3. bad = {}
  <2> SUFFICES ASSUME bad # {} PROVE FALSE
    OBVIOUS
  <2>1. PICK i \in bad : \A j \in bad : i <= j
    <3>1. bad \subseteq Nat
      BY <1>1
    <3> HIDE DEF bad
    <3> QED BY <3>1, HasLeast
  <2>2. i \in 0..n /\ ~LeftOver(list, names, i, rest[i])
    OBVIOUS
  <2>3. i # 0
    <3>1. rest[0] = list
      BY <1>1, <1>2 DEF Removals
    <3>2. Met(list, 0) = {}
      BY DEF Met
    <3>3. LeftOver(list, names, 0, list)
      BY <1>1, <3>2 DEF LeftOver
    <3> QED BY <2>2, <3>1, <3>3
  <2>4. i \in 1..n /\ i - 1 \in 0..n /\ ~(i <= i - 1)
    BY <1>1, <2>2, <2>3
  <2>5. LeftOver(list, names, i - 1, rest[i - 1])
    BY <2>1, <2>4
  <2>6. rest[i] = IF Al!Twins(list, i) = {} THEN rest[i - 1]
                  ELSE Al!Splice(rest[i - 1], Al!RemoveIndex(list, i))
    BY <1>2, <2>2, <2>3 DEF Removals
  <2>7. LeftOver(list, names, i, rest[i])
    BY <2>4, <2>5, <2>6, LeftOverStep
  <2> QED BY <2>2, <2>7
<1> DEFINE left == rest[n]
<1>4. LeftOver(list, names, n, left)
  BY <1>1, <1>3
<1> HIDE DEF left, bad
<1>5. left \in Seq(Al!Alerts) /\ Al!ToSet(left) \subseteq Al!ToSet(list)
  BY <1>4 DEF LeftOver
<1>7. ASSUME \A k \in Met(list, n) : list[k].name \in names,
             Critical(list, names) # {}
      PROVE  Critical(left, names) # {}
  <2> SUFFICES ASSUME Critical(left, names) = {} PROVE FALSE
    OBVIOUS
  <2>1. Met(list, n) # {}
    BY <1>4, <1>7 DEF LeftOver
  <2>2. Cardinality(Critical(list, names)) < Cardinality(Critical(left, names)) + Cardinality(Met(list, n))
    BY <1>4, <2>1 DEF LeftOver
  <2>3. Cardinality(Critical(left, names)) = 0
    BY FS_EmptySet
  <2>4. Cardinality(Critical(list, names)) \in Nat
    BY <1>1, CriticalFinite, FS_CardinalityType
  <2>5. Cardinality(Met(list, n)) \in Nat
    <3>1. Met(list, n) = Met(list, (n + 1) - 1) /\ n + 1 \in Nat \ {0}
      BY <1>1
    <3> QED BY <3>1, MetFurther
  <2>6. Cardinality(Met(list, n)) <= Cardinality(Critical(list, names))
    BY <1>7, PairsHaveCriticals
  <2> QED BY <2>2, <2>3, <2>4, <2>5, <2>6
<1> QED BY <1>2, <1>5, <1>7 DEF left

AlertsInv ==
    /\ Al!TypeOK /\ Al!CriticalStillSeen
    /\ IsFiniteSet(aFiring)
    /\ aFilter \in Al!FilterItems

LEMMA AlertsInit ==
    ASSUME Al!Init
    PROVE  AlertsInv
<1>1. Al!TypeOK
  <2>1. <<>> \in Seq({"healthy"} \cup Al!Severities)
    OBVIOUS
  <2> QED BY <2>1 DEF Al!Init, Al!TypeOK, Al!AlertPage, Al!Page
<1>2. Al!CriticalStillSeen
  BY DEF Al!Init, Al!CriticalStillSeen, Al!HeaderColor, Al!HighestSeverity,
         Al!GetHealthStatus, Al!LeafAlerts, Al!Of
<1>3. IsFiniteSet(aFiring)
  BY FS_EmptySet DEF Al!Init
<1> QED BY <1>1, <1>2, <1>3 DEF AlertsInv, Al!Init, Al!FilterItems

\* Filters that the URL may hold are lists of severities.
LEMMA FiltersOfUrl ==
    ASSUME NEW f \in Al!FilterItems
    PROVE  f \in Seq({"healthy"} \cup Al!Severities)
<1>1. {"healthy", "warning", "critical"} \subseteq {"healthy"} \cup Al!Severities
  BY DEF Al!Severities
<1>2. f = <<>> \/ \E t \in {"healthy", "warning", "critical"} : f = <<t>>
  BY DEF Al!FilterItems
<1>3. <<>> \in Seq({"healthy"} \cup Al!Severities)
  OBVIOUS
<1>4. \A t \in {"healthy"} \cup Al!Severities : <<t>> \in Seq({"healthy"} \cup Al!Severities)
  OBVIOUS
<1> QED BY <1>1, <1>2, <1>3, <1>4

\* What the counter of a severity leads to: a filter by it alone.
LEMMA LinkedIsOne ==
    ASSUME aFilter \in Al!FilterItems, NEW s \in Al!Severities
    PROVE  Al!Linked(s) = <<s>> /\ Al!Linked(s) \in Al!FilterItems
<1>1. Al!Contains(aFilter, s) => aFilter = <<s>>
  <2> SUFFICES ASSUME NEW i \in 1..Len(aFilter), aFilter[i] = s
               PROVE  aFilter = <<s>>
    BY DEF Al!Contains
  <2>1. aFilter # <<>>
    OBVIOUS
  <2>2. PICK t : aFilter = <<t>>
    BY <2>1 DEF Al!FilterItems
  <2>3. i = 1
    BY <2>2
  <2> QED BY <2>2, <2>3
<1>2. <<s>> \in Al!FilterItems
  BY DEF Al!FilterItems, Al!Severities
<1> QED BY <1>1, <1>2 DEF Al!Linked

\* Under such a filter both tabs list the alerts of the severity.
LEMMA TabListsSeverity ==
    ASSUME NEW thing, NEW s
    PROVE  Al!TabList(thing, <<s>>) = Al!Of(Al!UseAlerts(thing), s)
<1>1. \A t : Al!Contains(<<s>>, t) <=> t = s
  BY DEF Al!Contains
<1>2. <<s>> # <<>> /\ <<s>>[1] = s
  OBVIOUS
<1> QED BY <1>1, <1>2 DEF Al!TabList, Al!NodeTabList, Al!VolumeTabList, Al!Of

\* An alert that is met again was listed with both severities.
LEMMA MetIsDoubled ==
    ASSUME NEW list, ListedOnce(list), NEW k \in Met(list, Len(list))
    PROVE  /\ list[k] \in Al!ToSet(list)
           /\ \E b \in Al!ToSet(list) :
                /\ list[k].severity # b.severity
                /\ Al!IsSameAlertWithDiffSeverity(list[k], b)
<1>1. Len(list) \in Nat /\ DOMAIN list = 1..Len(list)
  BY DEF ListedOnce
<1>2. k \in 1..Len(list) /\ Al!Twins(list, k) # {}
  BY DEF Met
<1>3. PICK j \in 1..Len(list) :
        k # j /\ Al!IsSameAlertWithDiffSeverity(list[k], list[j])
  BY <1>1, <1>2 DEF Al!Twins
<1>4. list[k] \in Al!Alerts /\ list[j] \in Al!Alerts /\ list[k] # list[j]
  BY <1>2, <1>3 DEF ListedOnce
<1>5. list[k] \in Al!ToSet(list) /\ list[j] \in Al!ToSet(list)
  BY <1>1, <1>2, <1>3 DEF Al!ToSet
<1>6. list[k].severity # list[j].severity
  BY <1>3, <1>4 DEF Al!Alerts, Al!IsSameAlertWithDiffSeverity
<1> QED BY <1>3, <1>5, <1>6

LEMMA AnswersKeepCritical ==
    ASSUME AlertsInv, Al!Answered
    PROVE  AlertsInv'
<1>1. aFiring \in SUBSET Al!Alerts /\ IsFiniteSet(aFiring)
  BY DEF AlertsInv, Al!TypeOK
<1>2. PICK list \in Al!SetToSeqs(aFiring) :
        aQuery' = [status |-> "success", data |-> Al!ToSet(Al!RemoveWarningAlerts(list))]
  BY DEF Al!Answered
<1>3. ListedOnce(list) /\ Al!ToSet(list) = aFiring
  BY <1>1, <1>2, AnswersListOnce
<1> DEFINE left == Al!RemoveWarningAlerts(list)
<1>4. aQuery'.data = Al!ToSet(left) /\ Al!ToSet(left) \subseteq aFiring
  BY <1>2, <1>3, CriticalKept
<1>5. aFiring' = aFiring /\ aAsOf' = aFiring /\ aPage' = aPage /\ aFilter' = aFilter
  BY DEF Al!Answered
<1>6. Al!TypeOK'
  <2>1. aQuery' \in [status : {"success", "error"}, data : SUBSET Al!Alerts]
    BY <1>1, <1>2, <1>4
  <2> QED BY <1>1, <1>5, <2>1 DEF AlertsInv, Al!TypeOK
<1> HIDE DEF left
<1>7. Al!Of(Al!ToSet(left), "critical") # {} <=> Al!Of(aFiring, "critical") # {}
  <2>1. \A k \in Met(list, Len(list)) : list[k].name \in AlertNames
    BY <1>1, <1>3, MetIsDoubled DEF Al!Alerts
  <2>2. Critical(list, AlertNames) # {} => Critical(left, AlertNames) # {}
    BY <1>3, <2>1, CriticalKept DEF left
  <2>3. /\ Critical(list, AlertNames) = Al!Of(aFiring, "critical")
        /\ Critical(left, AlertNames) = Al!Of(Al!ToSet(left), "critical")
    BY <1>1, <1>3, <1>4 DEF Critical, Al!Of, Al!Alerts
  <2> QED BY <1>4, <2>2, <2>3 DEF Al!Of
<1>8. ASSUME ~Al!ParentDoubled', Al!Of(Al!LeafAlerts(aFiring), "critical") # {}
      PROVE  Al!Of(Al!LeafAlerts(Al!ToSet(left)), "critical") # {}
  <2>1. \A k \in Met(list, Len(list)) : list[k].name \in AlertNames \ Parents
    <3>1. \A k \in Met(list, Len(list)) : list[k].name \in AlertNames
      BY <1>1, <1>3, MetIsDoubled DEF Al!Alerts
    <3>2. \A k \in Met(list, Len(list)) : list[k].name \notin Parents
      BY <1>3, <1>5, <1>8, MetIsDoubled DEF Al!ParentDoubled
    <3> QED BY <3>1, <3>2
  <2>2. /\ Critical(list, AlertNames \ Parents) = Al!Of(Al!LeafAlerts(aFiring), "critical")
        /\ Critical(left, AlertNames \ Parents)
             = Al!Of(Al!LeafAlerts(Al!ToSet(left)), "critical")
    BY <1>1, <1>3, <1>4 DEF Critical, Al!Of, Al!Alerts, Al!LeafAlerts
  <2> QED BY <1>3, <1>8, <2>1, <2>2, CriticalKept DEF left
<1>9. Al!CriticalStillSeen'
  BY <1>4, <1>5, <1>7, <1>8
     DEF Al!CriticalStillSeen, Al!HeaderColor, Al!HighestSeverity,
         Al!GetHealthStatus, Al!LeafAlerts, Al!Of
<1> QED BY <1>5, <1>6, <1>9 DEF AlertsInv

\* Nothing changes while no answer is taken.
LEMMA StillSeen ==
    ASSUME Al!CriticalStillSeen, aQuery'.data = aQuery.data, aAsOf' = aAsOf
    PROVE  Al!CriticalStillSeen'
BY DEF Al!CriticalStillSeen, Al!HeaderColor, Al!HighestSeverity, Al!ParentDoubled

LEMMA AlertsStep ==
    ASSUME AlertsInv, [Al!Next]_Al!vars
    PROVE  AlertsInv'
<1> USE DEF AlertsInv
<1>1. ASSUME NEW a \in Al!Alerts, Al!Fires(a) PROVE AlertsInv'
  <2>1. IsFiniteSet(aFiring')
    BY <1>1, FS_AddElement DEF Al!Fires
  <2> QED BY <1>1, <2>1, StillSeen DEF Al!Fires, Al!TypeOK
<1>2. ASSUME NEW a \in Al!Alerts, Al!Resolves(a) PROVE AlertsInv'
  <2>1. IsFiniteSet(aFiring')
    BY <1>2, FS_RemoveElement DEF Al!Resolves
  <2> QED BY <1>2, <2>1, StillSeen DEF Al!Resolves, Al!TypeOK
<1>3. CASE Al!Answered
  BY <1>3, AnswersKeepCritical
<1>4. CASE Al!Fails
  <2>1. aQuery' = [aQuery EXCEPT !.status = "error"] /\ aAsOf' = aAsOf
    BY <1>4 DEF Al!Fails
  <2>2. /\ aQuery'.data = aQuery.data
        /\ aQuery' \in [status : {"success", "error"}, data : SUBSET Al!Alerts]
    BY <2>1 DEF Al!TypeOK
  <2>3. Al!CriticalStillSeen'
    BY <2>1, <2>2, StillSeen
  <2> QED BY <1>4, <2>2, <2>3 DEF Al!Fails, Al!TypeOK, Al!Page
<1>5. ASSUME NEW p \in [thing : Things \cup {"all"}, tab : {"alerts", "highest", "overview"}],
             Al!Open(p)
      PROVE  AlertsInv'
  <2>1. aFilter' \in Al!FilterItems /\ aFilter' \in Seq({"healthy"} \cup Al!Severities)
    BY <1>5, FiltersOfUrl DEF Al!Open, Al!FilterItems
  <2> QED BY <1>5, <2>1, StillSeen DEF Al!Open, Al!TypeOK, Al!Page
<1>6. ASSUME NEW tab \in {"overview", "alerts"}, Al!SwitchTab(tab) PROVE AlertsInv'
  BY <1>6, StillSeen DEF Al!SwitchTab, Al!TypeOK
<1>7. ASSUME NEW s \in Al!Severities, Al!FollowCounter(s) PROVE AlertsInv'
  <2>1. aFilter' \in Al!FilterItems
    BY <1>7, LinkedIsOne DEF Al!FollowCounter
  <2>2. aFilter' \in Seq({"healthy"} \cup Al!Severities)
    BY <2>1, FiltersOfUrl
  <2> QED BY <1>7, <2>1, <2>2, StillSeen DEF Al!FollowCounter, Al!TypeOK
<1>8. ASSUME NEW c \in Al!FilterItems, Al!ChooseFilter(c) PROVE AlertsInv'
  <2>1. aFilter' \in Al!FilterItems
    BY <1>8 DEF Al!ChooseFilter
  <2>2. aFilter' \in Seq({"healthy"} \cup Al!Severities)
    BY <2>1, FiltersOfUrl
  <2> QED BY <1>8, <2>1, <2>2, StillSeen DEF Al!ChooseFilter, Al!TypeOK
<1>9. CASE UNCHANGED Al!vars
  BY <1>9, StillSeen DEF Al!vars, Al!TypeOK
<1>10. \A t \in Things : Al!Page(t, "overview") \in
         [thing : Things \cup {"all"}, tab : {"alerts", "highest", "overview"}]
  BY DEF Al!Page
<1>11. {Al!AlertPage, Al!Page("all", "highest")} \subseteq
         [thing : Things \cup {"all"}, tab : {"alerts", "highest", "overview"}]
  BY DEF Al!Page, Al!AlertPage
<1> HIDE DEF AlertsInv
<1> QED BY <1>1, <1>2, <1>3, <1>4, <1>5, <1>6, <1>7, <1>8, <1>9, <1>10, <1>11 DEF Al!Next

\* A counter leads to the alerts it counts.
LEMMA CounterStep ==
    ASSUME AlertsInv, NEW s \in Al!Severities, Al!FollowCounter(s)
    PROVE  Al!Cardinality(Al!TabList(aPage.thing, aFilter')) = Al!Counter(aPage.thing, s)
<1>1. aFilter' = <<s>>
  BY LinkedIsOne DEF AlertsInv, Al!FollowCounter
<1>2. Al!TabList(aPage.thing, aFilter') = Al!Of(Al!UseAlerts(aPage.thing), s)
  BY <1>1, TabListsSeverity
<1> QED BY <1>2 DEF Al!Counter

\* What MCUiPages checks of the alerts: whichever alerts the removal of
\* warnings drops, the highest severity is critical exactly when a critical
\* alert was listed, and the header of the alert page says critical only when a
\* critical leaf was, and then always unless an alert that groups others was
\* listed with both severities; and a counter leads to the alerts it counts.
THEOREM AlertsDoAgree == Al!Spec => AlertsAgree
<1>1. Al!Init => AlertsInv
  BY AlertsInit
<1>2. AlertsInv /\ [Al!Next]_Al!vars => AlertsInv'
  BY AlertsStep
<1>3. AlertsInv => Al!TypeOK /\ Al!CriticalStillSeen
  BY DEF AlertsInv
<1>4. AlertsInv => \A s \in Al!Severities : Al!FollowCounter(s) =>
        Al!Cardinality(Al!TabList(aPage.thing, aFilter')) = Al!Counter(aPage.thing, s)
  BY CounterStep
<1> QED BY <1>1, <1>2, <1>3, <1>4, PTL
        DEF Al!Spec, AlertsAgree, Al!CounterMatchesList
=============================================================================
