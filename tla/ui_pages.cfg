\* Two deployments, two connections and a reload; an alert of two severities
\* about two things; three moves on a list; two tokens and two loads of a tab;
\* four edits and two submissions of a form; three moves among the graphs; two
\* deployments of a node.
SPECIFICATION MCSpec
CONSTANTS
    Jobs = {j1, j2}
    MaxConnects = 2
    MaxReloads = 1
    None = None
    Pages = {"nodes", "volumes", "alerts", "about"}
    MappedGroups = {}
    Langs = {"en", "fr"}
    DefaultLang = "en"
    NoPage = "none"
    MaxTokens = 2
    MaxLoads = 2
    MaxLogins = 2
    MaxChoices = 1
    NumberInputs = {0, 2, 4, 6}
    MaxBatch = 2
    MaxEdits = 4
    MaxSubmits = 2
    Words = {"w"}
    Clicked = {"health", "severity", "name"}
    Shown = {"overview", "volumes"}
    Ranks = {1, 2}
    Answers <- MCAnswers
    MaxMoves = 3
    MaxReplaces = 5
    Spans = {"1h", "24h", "7d"}
    Default = "24h"
    Duration <- MCDuration
    Frequency <- MCFrequency
    Metrics = {"volumeUsage", "volumeIOPSRead"}
    Outages <- MCOutages
    StartTime = 6
    MaxTime = 8
    AlertNames = {"a", "p"}
    Parents = {"p"}
    Things = {"n", "c"}
    Claims = {"c"}
    MaxFiring = 4
    MaxJobs = 2
    MaxFetches = 2
    MaxNodeChanges = 1
    MaxNodeReloads = 1
    Nodes = {"n1", "n2"}
    PodStates <- MCPodStates
    MaxPodChanges = 2
    MaxVisits = 3
    Mounts = {"root"}
    AlertLabels <- MCAlertLabels
    MaxPartitionChanges = 2
INVARIANTS
    PageMatchesStorage
    JobsSafe
    ListsSafe
    SessionSafe
    FormsSafe
    MetricsSafe
    NodesSafe
PROPERTIES
    AlertsAgree
CHECK_DEADLOCK FALSE
