CONSTANTS
  Parts = {"gate", "runner", "plugins", "metrics"}
  Absent = Absent
  Refusal = Refusal
  Garbage = Garbage
  NoCred = NoCred
  Never = Never
  BadStamp = BadStamp
  Bad = Bad
  Broken = Broken
  r1 = r1
  r2 = r2
  a1 = a1
  k1 = k1
  k2 = k2
  kn = kn
  Requests = {r1, r2}
  Addrs = {a1}
  ValidKeys = {k1, k2, kn}
  NewKey = kn
  Launches <- MCLaunches
  Catalog <- GateCatalog
  Exposed <- GateTools
  Category <- GateCategory
  PluginOf <- GatePlugin
  ReadonlyTools = {"get_windows"}
  Rps = 1
  Burst = 1
  EvictAfter = 1
  MaxIdentities = 1
  GcEvery = 2
  MaxTime = 2
  MaxArrivals = 3
  v = v
  NoVerb = NoVerb
  Calls <- MCCalls
  Pinned = {"grim", "scrot", "slurp", "hyprctl", "xdotool", "wmctrl", "xclip"}
  Flags <- MCFlags
  Numbers = {"1"}
  Repeatable = {"slurp"}
  Reads = {"clients"}
  Dispatchers = {"workspace"}
  Verbs = {"key"}
  ValueFlags = {"--window"}
  MaxArgs = 3
  Budget <- MCBudget
  Outer = 2
  Join = 1
  MaxStdout = 2
  TruncateAt = 1
  MaxOutput = 3
  Input = 2
  Missing = Missing
  Files = {1, 2, 3}
  Directories <- MCDirectories
  Manifests <- MCManifests
  StaticTools = {"sleep", "type", "plugin_run"}
  PluginNames = {"deploy", "notes"}
  ToolNames = {"run_it", "sleep"}
  ParamNames <- MCParamNames
  Recursive = {"plugin_run"}
  Orders <- MCOrders
  Denials <- MCDenials
  MaxFiles = 3
  MaxParams = 1
  MaxSteps = 2
  MaxEdits = 1
  Callers = {r1, r2}
  Tools = {"sleep"}
  Outcomes = {"ok", "error"}
  Bounds <- MCBounds
  Durations = {1, 2, 3}
  Cap = 2
  MaxCalls = 3
  MaxRestarts = 1
SPECIFICATION ServerSpec
INVARIANTS GateAccountable BudgetHolds ListingMatchesDispatch
           HelpersContained WhitelistExact PluginsSound MetricsTrue
CHECK_DEADLOCK FALSE
