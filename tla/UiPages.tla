-------------------------------- MODULE UiPages --------------------------------
(***************************************************************************)
(* Five parts of a page of the UI, side by side: the session of the tab it *)
(* is shown in (UiSession), the forms it may hold (UiForms), the lists with*)
(* their URL (UiLists), the graphs (UiMetrics) and the alerts (UiAlerts).  *)
(* They share no variable: a page that is loaded again mounts its forms and*)
(* its lists anew, and fetches its samples and its alerts.                 *)
(***************************************************************************)
EXTENDS Integers, Sequences, FiniteSets

CONSTANTS
    Pages, MappedGroups, Langs, DefaultLang, NoPage,
    MaxTokens, MaxLoads, MaxLogins, MaxChoices,    \* bounds of the session
    NumberInputs, MaxBatch,
    MaxEdits, MaxSubmits,                          \* bounds of the forms
    Words, Clicked, Shown, Ranks, Answers,
    MaxMoves, MaxReplaces,                         \* bounds of the lists
    Spans, Default, Duration, Frequency, Metrics, Outages,
    StartTime, MaxTime,                            \* bounds of the clock
    AlertNames, Parents, Things, Claims, MaxFiring   \* the alerts

-----------------------------------------------------------------------------
(* UiSession *)

VARIABLES
    sWhere, sUrl, sAsked, sRedirectUrl, sStored, sIssued, sStatus, sScript,
    sShell, sUserData, sUser, sK8s, sLogins, sSalt, sOverlapped, sFailed,
    sIpsFetch, sIps, sLang, sSavedLang, sUiLang, sTheme, sSavedTheme,
    sUiTheme, sExpanded, sSavedExpanded, sGroups, sDrawn, sLoads, sChoices

sVars ==
    <<sWhere, sUrl, sAsked, sRedirectUrl, sStored, sIssued, sStatus, sScript,
      sShell, sUserData, sUser, sK8s, sLogins, sSalt, sOverlapped, sFailed,
      sIpsFetch, sIps, sLang, sSavedLang, sUiLang, sTheme, sSavedTheme,
      sUiTheme, sExpanded, sSavedExpanded, sGroups, sDrawn, sLoads, sChoices>>

S == INSTANCE UiSession WITH
    None <- NoPage,
    where <- sWhere, url <- sUrl, asked <- sAsked,
    redirectUrl <- sRedirectUrl, stored <- sStored, issued <- sIssued,
    status <- sStatus, script <- sScript, shell <- sShell,
    userData <- sUserData, user <- sUser, k8s <- sK8s, logins <- sLogins,
    salt <- sSalt, overlapped <- sOverlapped, failed <- sFailed,
    ipsFetch <- sIpsFetch, ips <- sIps, lang <- sLang,
    savedLang <- sSavedLang, uiLang <- sUiLang, theme <- sTheme,
    savedTheme <- sSavedTheme, uiTheme <- sUiTheme, expanded <- sExpanded,
    savedExpanded <- sSavedExpanded, groups <- sGroups, drawn <- sDrawn,
    loads <- sLoads, choices <- sChoices

-----------------------------------------------------------------------------
(* UiForms *)

VARIABLES
    fPage, fAlive, fScLoading, fClasses, fNodes, fForm, fBatch, fCall,
    fUnheard, fCluster, fTold, fSuperseded, fAbandoned, fNodeForm,
    fAsked, fCreated, fNodeError, fEdits, fSubmits

fVars ==
    <<fPage, fAlive, fScLoading, fClasses, fNodes, fForm, fBatch, fCall,
      fUnheard, fCluster, fTold, fSuperseded, fAbandoned, fNodeForm,
      fAsked, fCreated, fNodeError, fEdits, fSubmits>>

F == INSTANCE UiForms WITH
    page <- fPage, alive <- fAlive, scLoading <- fScLoading,
    classes <- fClasses, nodes <- fNodes, form <- fForm, batch <- fBatch,
    call <- fCall, unheard <- fUnheard, cluster <- fCluster, told <- fTold,
    superseded <- fSuperseded, abandoned <- fAbandoned,
    nodeForm <- fNodeForm, asked <- fAsked, created <- fCreated,
    nodeError <- fNodeError, edits <- fEdits, submits <- fSubmits

-----------------------------------------------------------------------------
(* UiLists *)

VARIABLES
    lData, lAt, lPast, lTable, lTabSort, lBox, lTyped, lDue, lReplaces,
    lMoves

lVars ==
    <<lData, lAt, lPast, lTable, lTabSort, lBox, lTyped, lDue, lReplaces,
      lMoves>>

L == INSTANCE UiLists WITH
    None <- NoPage,
    data <- lData, at <- lAt, past <- lPast, table <- lTable,
    tabSort <- lTabSort, box <- lBox, typed <- lTyped, due <- lDue,
    replaces <- lReplaces, moves <- lMoves

-----------------------------------------------------------------------------
(* UiMetrics *)

VARIABLES
    mAlive, mNow, mDown, mPage, mFrom, mBacked, mSpan, mNodeSpan, mShowAvg,
    mFetch, mStats, mMoves

mVars ==
    <<mAlive, mNow, mDown, mPage, mFrom, mBacked, mSpan, mNodeSpan, mShowAvg,
      mFetch, mStats, mMoves>>

M == INSTANCE UiMetrics WITH
    None <- NoPage, Unknown <- "unknown",
    alive <- mAlive, now <- mNow, down <- mDown, page <- mPage,
    from <- mFrom, backed <- mBacked, span <- mSpan, nodeSpan <- mNodeSpan,
    showAvg <- mShowAvg, fetch <- mFetch, stats <- mStats, moves <- mMoves

-----------------------------------------------------------------------------
(* UiAlerts *)

VARIABLES
    aFiring, aQuery, aAsOf, aPage, aFilter

aVars ==
    <<aFiring, aQuery, aAsOf, aPage, aFilter>>

Al == INSTANCE UiAlerts WITH
    Names <- AlertNames, Volumes <- Claims,
    firing <- aFiring, query <- aQuery, asOf <- aAsOf, page <- aPage,
    filter <- aFilter

-----------------------------------------------------------------------------
(* What they promise.                                                      *)

\* UiSession: clients are those of the user, nobody waits for a connection that
\* was announced, the user lands where asked, preferences last over loads, and
\* the menu tells the page.
SessionSafe == S!SessionSafe

\* UiForms: rows match their number, what is posted is complete, a volume
\* created in silence was being posted when its saga was cancelled, and a node
\* gets the roles that were ticked.
FormsSafe == F!FormsSafe

\* UiLists: a reload or a copied link keeps the order of the rows, and the URL
\* is not replaced for ever.
ListsSafe == L!TypeOK /\ L!ReloadKeepsOrder /\ L!NoRedirectLoop

\* UiMetrics: graphs are faithful to the samples, those of the span on the page
\* in the end, links carry the span, and the charts can be read.
MetricsSafe ==
    /\ M!TypeOK /\ M!GraphIsFaithful /\ M!GraphSettles
    /\ M!UrlTellsSpan /\ M!ChartsReadable

\* UiAlerts: critical alerts are seen behind the warnings that are hidden, in
\* the header too unless an alert that groups others is doubled, and a counter
\* leads to the alerts it counts.
AlertsAgree == [](Al!TypeOK /\ Al!CriticalStillSeen) /\ Al!CounterMatchesList
=============================================================================
