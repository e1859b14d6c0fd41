------------------------------- MODULE UiSession -------------------------------
(***************************************************************************)
(* A browser tab from the first load to an authenticated page: the         *)
(* configuration (src/ui/src/ducks/config.js), the navbar web component    *)
(* (src/shell-ui/src/navbar and components/Navbar.js), the sign-in through *)
(* the OIDC provider, the clients of the Kubernetes and Salt APIs, and the *)
(* preferences each side keeps.                                            *)
(*                                                                         *)
(* The shell keeps the user, the language and the theme, and tells the UI  *)
(* by events; the UI keeps copies in its store.  Each user event builds a  *)
(* new Kubernetes client at once and starts a login to the Salt API, whose *)
(* answer sets the token the Salt client sends.  Tokens are numbered in    *)
(* the order the provider issues them.                                     *)
(*                                                                         *)
(* The listeners of the UI are added in effects that the browser runs      *)
(* before a network answer that comes later, so the shell, which waits for *)
(* its configuration, never speaks to a UI that does not listen yet.       *)
(***************************************************************************)
EXTENDS Integers, FiniteSets

CONSTANTS
    Pages,        \* where a tab can be asked to go
    MappedGroups, \* userGroupsMapping, for the user's e-mail
    Langs, DefaultLang,   \* languages; en
    None,
    MaxTokens,    \* bound: tokens issued
    MaxLoads,     \* bound: pages asked for and sign-ins
    MaxLogins,    \* bound: Salt logins in flight
    MaxChoices    \* bound: preferences changed

VARIABLES
    where,        \* "app", "provider" (signing in) or "callback" (back from it)
    url, asked,   \* the page of the tab; the page the user last asked for
    redirectUrl,  \* localStorage
    stored,       \* the user localStorage keeps for oidc-client, 0 for none
    issued,       \* tokens issued so far
    status,       \* state.config.status
    script,       \* the script of the web component: none, loading, ready, failed
    shell,        \* the navbar: off, loading, shown or error
    userData,     \* the user of the shell's AuthProvider
    user, k8s,    \* state.oidc.user; the token of the Kubernetes clients
    logins,       \* the Salt logins in flight, by slot
    salt,         \* the login the Salt client's header comes from
    overlapped,   \* the last login began while another was in flight
    failed,       \* the login of the present user failed
    ipsFetch, ips,  \* fetchNodesIPsInterface: off, waiting, asking; IPsInfo set
    lang, savedLang, uiLang,  \* the shell's, localStorage's, the store's
    theme, savedTheme, uiTheme,
    expanded, savedExpanded,  \* the side bar
    groups,       \* the groups the provider gives the user; never changes
    drawn,        \* the page the navbar was last drawn for
    loads, choices

tab == <<where, url, asked, redirectUrl, stored, issued>>
boot == <<status, script, shell>>
clients == <<userData, user, k8s, logins, salt, overlapped, failed>>
nodesIPs == <<ipsFetch, ips>>
prefs == <<lang, savedLang, uiLang, theme, savedTheme, uiTheme, expanded,
           savedExpanded>>
menu == <<groups, drawn>>
vars == <<tab, boot, clients, nodesIPs, prefs, menu, loads, choices>>

Slots == 1..MaxLogins
Themes == {"darkRebrand", "light"}
Expanded == "expanded"
Collapsed == "collapsed"
Free == [s \in Slots |-> 0]

SessionAssumption ==
    /\ DefaultLang \in Langs
    /\ None \notin Pages \cup Langs \cup Themes \cup {Expanded, Collapsed}
    /\ {"nodes", "alerts", "about"} \subseteq Pages
    /\ {MaxTokens, MaxLoads, MaxLogins, MaxChoices} \subseteq Nat

\* What a load of the page starts from.
FreshPage ==
    /\ status' = "idle" /\ script' = "none" /\ shell' = "off"
    /\ userData' = 0 /\ user' = 0 /\ k8s' = 0
    /\ logins' = Free /\ salt' = 0 /\ overlapped' = FALSE /\ failed' = FALSE
    /\ ipsFetch' = "off" /\ ips' = FALSE
    /\ lang' = DefaultLang /\ uiLang' = DefaultLang
    /\ theme' = "darkRebrand" /\ uiTheme' = None
    /\ expanded' = Expanded
    /\ drawn' = None
    /\ UNCHANGED <<savedLang, savedTheme, savedExpanded, groups>>

Init ==
    /\ where = "app" /\ url \in Pages /\ asked = url
    /\ redirectUrl = None /\ stored = 0 /\ issued = 0
    /\ status = "idle" /\ script = "none" /\ shell = "off"
    /\ userData = 0 /\ user = 0 /\ k8s = 0
    /\ logins = Free /\ salt = 0 /\ overlapped = FALSE /\ failed = FALSE
    /\ ipsFetch = "off" /\ ips = FALSE
    /\ lang = DefaultLang /\ savedLang = None /\ uiLang = DefaultLang
    /\ theme = "darkRebrand" /\ savedTheme = None /\ uiTheme = None
    /\ expanded = Expanded /\ savedExpanded = None
    /\ groups \in SUBSET {"metalk8s:admin"} /\ drawn = None
    /\ loads = 0 /\ choices = 0

-----------------------------------------------------------------------------
(* The menu of the navbar, as the default configuration has it.  The tabs are *)
(* links, and lead out of the application as any other site would: following *)
(* one loads the page again.                                               *)

\* getUserGroups: those of the user's profile and those the configuration maps
\* the user's e-mail to.
UserGroups(u) == IF u = 0 THEN {} ELSE groups \cup MappedGroups

\* An entry leads to a page, is for the members of some groups or, without
\* groups, for everybody, and is highlighted on the pages its URL matches.
Entry(page, open, for, active) ==
    [page |-> page, open |-> open, groups |-> for, active |-> active]

Menu ==
    [platform |-> Entry("nodes", FALSE, {"metalk8s:admin"}, Pages \ {"alerts"}),
     alerts |-> Entry("alerts", FALSE, {"metalk8s:admin"}, {"alerts"}),
     about |-> Entry("about", TRUE, {}, {"about"})]

IsEntryAccessibleByTheUser(entry, userGroups) ==
    entry.open \/ entry.groups \cap userGroups # {}

\* translateOptionsToMenu: the entries shown to u, and the tabs highlighted
\* when the navbar is drawn on page p.
MenuOf(u) == {e \in DOMAIN Menu :
                  IsEntryAccessibleByTheUser(Menu[e], UserGroups(u))}
Tabs == {"platform", "alerts"}
SelectedOn(p) == {e \in MenuOf(userData) \cap Tabs : p \in Menu[e].active}

\* The navbar reads the page's address when it is drawn, and is not drawn again
\* when the application pushes another one.
Draw(p) == drawn' = p /\ UNCHANGED groups

-----------------------------------------------------------------------------
(* Loading: App, fetchConfig, useWebComponent, SolutionsNavbar.            *)

\* App's effect: the configuration is asked for, the side bar is restored.
FetchConfig ==
    /\ where # "provider" /\ status = "idle"
    /\ status' = "loading"
    /\ expanded' = IF savedExpanded = None THEN expanded ELSE savedExpanded
    /\ UNCHANGED <<menu, tab, script, shell, clients, nodesIPs, lang, savedLang,
                   uiLang, theme, savedTheme, uiTheme, savedExpanded, loads,
                   choices>>

\* On success the API clients are made and Layout mounts the navbar, which
\* asks for its script; on error there is a page that says so.
ConfigAnswered(ok) ==
    /\ status = "loading"
    /\ status' = IF ok THEN "success" ELSE "error"
    /\ script' = IF ok THEN "loading" ELSE "none"
    /\ UNCHANGED <<menu, tab, shell, clients, nodesIPs, prefs, loads, choices>>

\* The script defines the element: 'ready' makes the UI listen, and the shell
\* asks for its own configuration.
ScriptAnswered(ok) ==
    /\ script = "loading"
    /\ script' = IF ok THEN "ready" ELSE "failed"
    /\ shell' = IF ok THEN "loading" ELSE "off"
    /\ UNCHANGED <<menu, tab, status, clients, nodesIPs, prefs, loads, choices>>

NavbarTellsThemeOnly(ok, browserLang) ==
    /\ shell = "loading"
    /\ shell' = IF ok THEN "shown" ELSE "error"
    /\ IF ok
       THEN /\ lang' = IF savedLang = None THEN browserLang ELSE savedLang
            /\ theme' = IF savedTheme = None THEN "darkRebrand" ELSE savedTheme
            /\ savedTheme' = theme'
            /\ uiTheme' = theme'
       ELSE UNCHANGED <<lang, theme, savedTheme, uiTheme>>
    /\ Draw(IF ok THEN url ELSE None)
    /\ UNCHANGED <<tab, status, script, clients, nodesIPs, savedLang, uiLang,
                   expanded, savedExpanded, loads, choices>>

\* SolutionsNavbar: the providers are mounted with what localStorage holds and
\* tell the UI, which dispatches setLanguageAction and setThemeAction.
NavbarAnswered(ok, browserLang) ==
    /\ shell = "loading"
    /\ shell' = IF ok THEN "shown" ELSE "error"
    /\ IF ok
       THEN /\ lang' = IF savedLang = None THEN browserLang ELSE savedLang
            /\ uiLang' = lang'
            /\ theme' = IF savedTheme = None THEN "darkRebrand" ELSE savedTheme
            /\ savedTheme' = theme'
            /\ uiTheme' = theme'
       ELSE UNCHANGED <<lang, uiLang, theme, savedTheme, uiTheme>>
    /\ Draw(IF ok THEN url ELSE None)
    /\ UNCHANGED <<tab, status, script, clients, nodesIPs, savedLang, expanded,
                   savedExpanded, loads, choices>>

-----------------------------------------------------------------------------
(* Signing in and out.                                                     *)

\* AuthProvider finds no user: onBeforeSignIn, and the tab goes to the provider.
SignIn ==
    /\ where = "app" /\ shell = "shown" /\ stored = 0 /\ user = 0
    /\ redirectUrl' = url
    /\ where' = "provider"
    /\ FreshPage
    /\ UNCHANGED <<url, asked, stored, issued, loads, choices>>

\* The provider sends the tab back.
Authorised ==
    /\ where = "provider"
    /\ where' = "callback"
    /\ UNCHANGED <<menu, url, asked, redirectUrl, stored, issued, boot, clients,
                   nodesIPs, prefs, loads, choices>>

\* onSignIn: the tab goes where it was before, which loads the page again.
OnSignIn ==
    /\ where = "callback" /\ shell = "shown" /\ issued < MaxTokens
    /\ issued' = issued + 1
    /\ stored' = issued'
    /\ url' = IF redirectUrl = None THEN url ELSE redirectUrl
    /\ redirectUrl' = None
    /\ where' = "app"
    /\ FreshPage
    /\ UNCHANGED <<asked, loads, choices>>

\* UPDATE_API_CONFIG, after an AUTHENTICATED_EVENT with a user.  setUser and
\* the new Kubernetes clients come in one turn of the sagas; the Salt login
\* reads the user just set.
UpdateApiServerConfig(g) ==
    \E s \in Slots :
        /\ logins[s] = 0
        /\ user' = g
        /\ k8s' = g
        /\ logins' = [logins EXCEPT ![s] = g]
        /\ overlapped' = (logins # Free)
        /\ failed' = FALSE
        /\ UNCHANGED salt

\* The user localStorage keeps is loaded.
UserLoaded ==
    /\ where = "app" /\ shell = "shown" /\ stored # 0 /\ userData # stored
    /\ userData' = stored
    /\ UpdateApiServerConfig(stored)
    /\ Draw(url)
    /\ UNCHANGED <<tab, boot, nodesIPs, prefs, loads, choices>>

\* automaticSilentRenew
Renewed ==
    /\ userData # 0 /\ issued < MaxTokens
    /\ issued' = issued + 1
    /\ stored' = issued'
    /\ userData' = issued'
    /\ UpdateApiServerConfig(issued')
    /\ Draw(url)
    /\ UNCHANGED <<where, url, asked, redirectUrl, boot, nodesIPs, prefs,
                   loads, choices>>

\* The provider ended the session: the event has no profile, and the UI, which
\* only notes that nobody is authenticated, keeps the user and its clients.
UserGone ==
    /\ userData # 0
    /\ stored' = 0
    /\ userData' = 0
    /\ Draw(url)
    /\ UNCHANGED <<where, url, asked, redirectUrl, issued, boot, user, k8s,
                   logins, salt, overlapped, failed, nodesIPs, prefs, loads,
                   choices>>

\* logOut of the navbar: the user is removed, the page is loaded again.
LogOut ==
    /\ where = "app" /\ shell = "shown" /\ loads < MaxLoads
    /\ loads' = loads + 1
    /\ stored' = 0
    /\ FreshPage
    /\ UNCHANGED <<where, url, asked, redirectUrl, issued, choices>>

\* The user enters a URL or reloads the tab, also while signing in.
Open(p) ==
    /\ loads < MaxLoads
    /\ loads' = loads + 1
    /\ where' = "app" /\ url' = p /\ asked' = p
    /\ FreshPage
    /\ UNCHANGED <<redirectUrl, stored, issued, choices>>

\* A tab or an entry of the user's menu is followed; the tabs are links, the
\* entry sets location.href.
FollowMenu(e) ==
    /\ where = "app" /\ shell = "shown" /\ e \in MenuOf(userData)
    /\ Open(Menu[e].page)

\* Layout shows the side bar to a user, except on the alerts page; its entries
\* push a path, and nothing is loaded again.
GoTo(p) ==
    /\ where = "app" /\ status = "success" /\ user # 0 /\ url # "alerts"
    /\ p \in Pages \ {"alerts", "about", url}
    /\ url' = p /\ asked' = p
    /\ UNCHANGED <<where, redirectUrl, stored, issued, boot, clients, nodesIPs,
                   prefs, menu, loads, choices>>

\* The window gets the focus back: the shell's configuration is asked for again
\* and the navbar drawn again.
Redraw ==
    /\ shell = "shown" /\ drawn # url
    /\ Draw(url)
    /\ UNCHANGED <<tab, boot, clients, nodesIPs, prefs, loads, choices>>

-----------------------------------------------------------------------------
(* The Salt API.                                                           *)

\* authenticateSaltApi, after the answer.  On success the header is set, then
\* SALT_AUTHENTICATION_SUCCESS and CONNECT_SALT_API are dispatched, which wakes
\* the saga that waits for it.
LoginAnswered(s, ok) ==
    /\ logins[s] # 0
    /\ logins' = [logins EXCEPT ![s] = 0]
    /\ salt' = IF ok THEN logins[s] ELSE salt
    /\ failed' = (failed \/ (~ok /\ logins[s] = user))
    /\ ipsFetch' = IF ok /\ ipsFetch = "waiting" THEN "asking" ELSE ipsFetch
    /\ UNCHANGED <<menu, tab, boot, userData, user, k8s, overlapped, ips, prefs,
                   loads, choices>>

\* PrivateRoute: the page for a user, an error page for nobody.
PrivateRoute == IF user # 0 THEN url ELSE "ErrorPageAuth"

\* fetchNodesIPsInterface, at the end of each fetchNodes of a page with nodes.
FetchNodesIPsInterface ==
    /\ PrivateRoute \in Pages \ {"alerts", "about"} /\ ipsFetch = "off"
    /\ ipsFetch' = IF salt # 0 THEN "asking" ELSE "waiting"
    /\ UNCHANGED <<menu, tab, boot, clients, ips, prefs, loads, choices>>

\* Five seconds pass without CONNECT_SALT_API.
IPsTimeout ==
    /\ ipsFetch = "waiting"
    /\ ipsFetch' = "off"
    /\ UNCHANGED <<menu, tab, boot, clients, ips, prefs, loads, choices>>

IPsAnswered(ok) ==
    /\ ipsFetch = "asking"
    /\ ipsFetch' = "off"
    /\ ips' = (ips \/ ok)
    /\ UNCHANGED <<menu, tab, boot, clients, prefs, loads, choices>>

-----------------------------------------------------------------------------
(* Preferences.                                                            *)

ChoiceLeft == choices < MaxChoices /\ choices' = choices + 1

\* setLanguage, then the effect of LanguageProvider.
SetLanguage(l) ==
    /\ shell = "shown" /\ l # lang /\ ChoiceLeft
    /\ lang' = l /\ savedLang' = l /\ uiLang' = l
    /\ Draw(url)
    /\ UNCHANGED <<tab, boot, clients, nodesIPs, theme, savedTheme, uiTheme,
                   expanded, savedExpanded, loads>>

\* setTheme, then the effect of ThemeProvider, which saves the theme.
SetTheme(t) ==
    /\ shell = "shown" /\ t # theme /\ ChoiceLeft
    /\ theme' = t /\ savedTheme' = t /\ uiTheme' = t
    /\ Draw(url)
    /\ UNCHANGED <<tab, boot, clients, nodesIPs, lang, savedLang, uiLang,
                   expanded, savedExpanded, loads>>

\* toggleSideBar
ToggleSideBar ==
    /\ status = "success" /\ ChoiceLeft
    /\ expanded' = IF expanded = Expanded THEN Collapsed ELSE Expanded
    /\ savedExpanded' = expanded'
    /\ UNCHANGED <<menu, tab, boot, clients, nodesIPs, lang, savedLang, uiLang, theme,
                   savedTheme, uiTheme, loads>>

Next ==
    \/ FetchConfig
    \/ \E ok \in BOOLEAN : \/ ConfigAnswered(ok) \/ ScriptAnswered(ok)
                           \/ IPsAnswered(ok)
                           \/ \E s \in Slots : LoginAnswered(s, ok)
                           \/ \E l \in Langs : NavbarAnswered(ok, l)
    \/ SignIn \/ Authorised \/ OnSignIn
    \/ UserLoaded \/ Renewed \/ UserGone \/ LogOut
    \/ \E p \in Pages : Open(p) \/ GoTo(p)
    \/ \E e \in DOMAIN Menu : FollowMenu(e)
    \/ Redraw
    \/ FetchNodesIPsInterface \/ IPsTimeout
    \/ \E l \in Langs : SetLanguage(l)
    \/ \E t \in Themes : SetTheme(t)
    \/ ToggleSideBar

Spec == Init /\ [][Next]_vars

-----------------------------------------------------------------------------
(* Properties.                                                             *)

\* The type of the state.
TypeOK ==
    /\ where \in {"app", "provider", "callback"}
    /\ url \in Pages /\ asked \in Pages /\ redirectUrl \in Pages \cup {None}
    /\ drawn \in Pages \cup {None} /\ groups \subseteq {"metalk8s:admin"}
    /\ issued \in 0..MaxTokens
    /\ {stored, userData, user, k8s, salt} \subseteq 0..MaxTokens
    /\ status \in {"idle", "loading", "success", "error"}
    /\ script \in {"none", "loading", "ready", "failed"}
    /\ shell \in {"off", "loading", "shown", "error"}
    /\ logins \in [Slots -> 0..MaxTokens]
    /\ {overlapped, failed, ips} \subseteq BOOLEAN
    /\ expanded \in {Expanded, Collapsed}
    /\ ipsFetch \in {"off", "waiting", "asking"}
    /\ {lang, uiLang} \subseteq Langs /\ savedLang \in Langs \cup {None}
    /\ theme \in Themes
    /\ {savedTheme, uiTheme} \subseteq Themes \cup {None}
    /\ savedExpanded \in {Expanded, Collapsed, None}

\* PrivateRoute shows a page for the user in the store.  The Kubernetes clients
\* it uses are that user's, and so is the Salt token once no login is in flight,
\* unless that login failed or ran together with an older one: the answer that
\* comes last wins, and a login that failed is not tried again.
ClientsAreOfUser ==
    /\ user = k8s
    /\ user # 0 => status = "success" /\ script = "ready"
    /\ (user # 0 /\ logins = Free /\ ~overlapped /\ ~failed) => salt = user

\* A saga waits for CONNECT_SALT_API only while there is no Salt token: it does
\* not sleep its five seconds after the connection was announced.
WaitsOnlyWithoutToken == ipsFetch = "waiting" => salt = 0

\* The user comes back from the provider to the page last asked for, also when
\* an earlier sign-in was given up half-way.
LandsWhereAsked == where = "app" => url = asked

\* The navbar highlights the tab of the page that is shown, though it does not
\* follow the pushes of the application: the side bar, which makes them, is
\* hidden on the one page whose tab differs.
MenuTellsPage ==
    where = "app" /\ shell = "shown" => SelectedOn(drawn) = SelectedOn(url)

\* What the user chose in an earlier load of the page is what shell and UI both
\* show in this one.
PreferencesKept ==
    /\ shell = "shown" =>
         /\ uiLang = lang /\ savedLang \in {lang, None}
         /\ uiTheme = theme /\ savedTheme = theme
    /\ status # "idle" => savedExpanded \in {expanded, None}

\* Clients are those of the user, nobody waits for a connection that was
\* announced, the user lands where asked, preferences last over loads, and the
\* menu tells the page.
SessionSafe ==
    /\ TypeOK /\ ClientsAreOfUser /\ WaitsOnlyWithoutToken
    /\ LandsWhereAsked /\ PreferencesKept /\ MenuTellsPage
=============================================================================
