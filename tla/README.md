# A formal model of ultranix-mcp

ultranix-mcp is an MCP server (Rust, tokio) that lets a client see and drive a
Linux desktop: capture the screen, move the pointer, type, manage windows, run
whitelisted commands. This directory holds TLA+ models of it, the TLC instances
that check them and the TLAPS proofs about them. Paths below are relative to
`src/src/` unless they say otherwise; `PROJECT.json` maps every definition to
the lines it stands for.

    tlc -workers 2 -config MCConsent.cfg MCSecuredDispatch    # one run (section 4)
    tlapm SecuredDispatchProofs.tla                           # the proofs of one module (section 5)

## 1. The system: inventory

A request takes this path. HTTP requests pass `server.rs http_gate`
(authenticate, rate-limit, attach the key identity); stdio has no gate.
`call_tool` then calls `tools/mod.rs call_tool_secured_with_peer`: category
gate, policy gate, resolution of the target of a close, consent check,
dispatch, audit record, history record. Dispatch reaches a tool module, which
calls a provider (compositor, portal, D-Bus, X11, a spawned binary).
`replay_action` and `plugin_run` call the whole pipeline again for the calls
they make.

| Component (source) | State | Operations | Called by, calls, shares | What is hard | Correct when |
|---|---|---|---|---|---|
| Secured pipeline (`tools/mod.rs`) | one frame per invocation | `call_tool_secured_with_peer` and its gates | server, replay and plugins call it; it calls the gates, tools, audit, history | every await interleaves with other requests and the desktop; it is re-entered | no effect without consent and permission; each invocation audited once and answered |
| Consent gate (`security/consent.rs`) | map token → scope and time, under a mutex | `challenge`, `verify`, expiry on challenge | pipeline | two requests present one token; expiry; spam prunes | a token authorises one effect of the scope it was issued for, in time |
| Policy and roles (`security/policy.rs`) | roles by key id, read-only after start | `is_tool_allowed`, loading | pipeline, tool listing | nested calls | no path round a role |
| Administrative tools (`tools/admin.rs`) | none | window control, `replay_action`, history tools | pipeline → window provider, history, pipeline again | the window list is read twice, with awaits between | a close hits the consented window; replay carries no consent |
| Plugin manifests and executor (`plugins.rs`, `tools/plugin.rs`) | the loaded catalogue | load, validate, `run_manifest`, install, exposed tools | pipeline → pipeline again | steps re-enter; tokens are threaded; the catalogue reloads under a run | each step passes the gates on its own |
| Action history (`security/history.rs`) | one encrypted file of chained frames, key file; in memory: records, next index, tail hash | `open`/`load`, `record`, `clear`, `get_by_index`, v1 migration | pipeline, replay | crash between system calls; torn append; eviction rewrites the file; other processes on one directory | the file always loads, loses nothing acknowledged, an index means one record |
| Audit log (`security/audit.rs`) | one JSONL file per day, hash-chained; in memory: open file, previous hash, date | `open`, `record` with rotation and pruning, `verify_chain` | pipeline, HTTP gate | midnight, clock set back, any step of a rotation fails, cut lines | files verify, hold one day, nothing acknowledged goes early |
| Screen stream (`tools/stream.rs`) | process-wide registry slot; a task with a rolling window of frame files and shared counters | `start`, `stop`, `latest`, `status`; the task | tools → capture providers | starts race; stop, watchdog and abort against a task in mid-write; `latest` reads what is evicted | bounded window, self-describing directory, nothing runs unreachable |
| HTTP server and gate (`server.rs`) | none of its own | `http_gate`, `call_tool`, `list_tools` | → auth, limiter, audit, pipeline | order of refusals; identity handed on | a refused request is audited and goes no further |
| Authentication (`security/auth.rs`) | key digests with expiry | load, `authenticate`, `rotate` | gate | expiry and grace period | a revoked key is refused from its expiry on |
| Rate limiter (`security/ratelimit.rs`) | token bucket per identity, 4096 at most | `check`, eviction | gate | eviction at the cap forgets an exhausted caller | no more than burst + rate·time, evictions aside |
| Recording, captures (`tools/record.rs`, `security/captures.rs`) | a directory and manifest per recording | one bounded burst; `mktemp`-style directories | tools | failures half-way | the manifest lists what is on disk; caps hold |
| Commands (`security/whitelist.rs`, `sanitize.rs`, `spawn.rs`, `paths.rs`) | pinned binaries | validate, spawn, time out, drain | tools, providers | time-out against exit, pipe held by a grandchild | nothing outside the whitelist runs; every wait ends |
| Back-end detection (`backend/detect.rs`) | chosen provider per capability | plan, probe | start-up | order, absent back-ends | the first that works in the documented order |
| Input tools and providers (`tools/mouse.rs`, `keyboard.rs`, `providers/*_input.rs`) | process-wide set of held buttons; device sessions | move, click, drag, type, hold | pipeline → compositor | failures between press and release; check-then-act on the held set | what is held in the set is what is held on the device |
| Capture providers (`providers/*_capture.rs`, `*_stream.rs`) | portal and Wayland sessions | capture a frame, session | tools, stream | lazy sessions, cancelled requests | one frame or an error per request |
| Window providers (`providers/*_window.rs`, `hyprctl.rs`, `wlr_toplevel.rs`) | IPC connections | list, focus, close, move | admin tools | ids vanish | acts on the id it was given |
| Vision, accessibility, browser, overlay, clipboard | result and scan caches, a CDP socket | queries | tools | stale caches, answers out of order | no answer older than the cache's lifetime |
| Metrics, start-up, state directory, traits, errors | counters; directories | — | all | — | — |

Behaviours that are hard to test, each at the line where it bites, are the
`hazards` of `PROJECT.json`, with the properties that would catch them.

## 2. How the models are put together

A component has a module of its own, with its state as variables, an action per
operation (or per step of one, where others may come between) and its
properties at the end. Six MC modules hold the small instances.
`MCSecuredDispatch` picks a workload of the pipeline. The others each hold
several components that share no state: the constant `Parts` lists those a run
explores, the initial state picks one (`part`), its actions run and the
variables of the others stand still in one fixed state. One run thus checks
each of its components on its own instance, and no interleaving of independent
state spaces is explored twice. Each EXTENDS the components that theorems are
about, so that a run and a theorem speak of one definition: MCStores
HistoryStore and AuditLog, MCServer and MCPixels all of theirs, MCDesktop all
but WindowRows, MCSenses BrowserBridge. It instantiates the others under names of its own. Modules that
are extended together share no names, which is why one component says
`WaylandNext` or `captures` where another says `Next` or `frames`. Definitions
under a comment `MUTANT of X` are plausible errors in the code of `X`: no
action uses them; substituted for `X` they make the property that guards
against them fail.

| MC module | Modules | Run |
|---|---|---|
| `MCSecuredDispatch` | SecuredDispatch, ConsentPromise | `consent`, `bypass`, `close_id_in_title` |
| `MCStores` | HistoryStore, AuditLog | `stores`, `history_deleted`, `audit_wedged` |
| `MCServer` | HttpGate, CommandRunner, PluginCatalog, Metrics | `server` |
| `MCPixels` | ScreenStream, WaylandFrames, PipewireFrames, Captures (WlrShot and ScreenRecord) | `pixels`, `stream_single` |
| `MCDesktop` | DetectionLadder, InputDevice, WindowBackends, WindowRows, HighlightOverlay, ClipboardHelpers, PortalSession | `desktop` |
| `MCSenses` | AccessTree, BrowserBridge, ScreenVision, VisionMath | `senses`, `hits` |

How the parts touch, and where one model stands for another:

- HttpGate hands an identity on; `Submit` of SecuredDispatch takes it as
  `caller`. The roles HttpGate resolves are the constant `AllowedTools` there.
- SecuredDispatch sees of the history only `hist` and `nextIndex`; HistoryStore
  shows when the file behind them keeps what was reported.
- SecuredDispatch runs a plugin's steps through the whole pipeline;
  PluginCatalog shows which manifest and which arguments those steps are made of.
- `ResolveWindow` and `DispatchClose` close a window through either kind of
  back end: ids that belong to a window, or a focused view beside ids of one
  snapshot; WindowBackends has all actions over all eight providers.
- The frames ScreenStream keeps come from WaylandFrames, PipewireFrames or a
  helper (CommandRunner); a frame is only a size and a number there.

## 3. The modules

### SecuredDispatch and ConsentPromise

The pipeline with the consent gate, the administrative tools and the plugin
executor. `call` maps an invocation `<<slot, depth>>` to its frame; `<<s, d+1>>`
is the call `<<s, d>>` is waiting for (replay or plugin). The program counter
names the await the task stands at, so between any two of these steps other
requests, the clock and the desktop act:

| `pc` | next action | code |
|---|---|---|
| `gate` | `Gate` | category gate, policy gate, their audited early returns |
| `resolve` | `ResolveCloseTarget` | `resolve_close_target` |
| `consent` | `ConsentCheck` | `ConsentGate::verify` under its mutex: the token is removed before it is compared |
| `challenge` | `Challenge` | `ConsentGate::challenge`, with its pruning of stale tokens |
| `dispatch` | `ExecSystemCommand`, `ResolveWindow`, `ClearActionHistory`, `ReplayAction`, `RunManifest`, `RunUngated` | `dispatch_secured` and the tool |
| `close` | `DispatchClose` | the provider call of `window_control`, which may meet no window, or (toplevels) refuse one with another title |
| `nested` | `ResumeParent` | return of the nested call |
| `audit` | `AuditRecord` | `audit_record` |
| `record` | `HistoryRecord` | `history.record`, whose failure is only logged |
| `returned` | `Return` | the answer |
| `panicked` | none | `truncate64k` cut a character: the task has ended, its audit, its history record and its answer will not come |

`tokens` is the gate's map; `win` and `active` are what the compositor reports;
`hist` and `nextIndex` are what the pipeline sees of the history. `grant`,
`effects` and `uses` are history variables. A token is a value that is never
drawn twice; the canonical argument hash is equality of arguments. The tools
without a consent class are one operation, `RunUngated`. `OpenWindow`,
`FocusWindow`, `UserCloses` and `CloseWindow` are external: the compositor, as
the window provider reports it. The constant `FocusedView` says which kind of
back end there is. With one (river) a close without a selector, or of
`"focused"`, is bound to the focused view, which names no window: it closes what
has the focus then. Any other selector is bound to nothing there
(`tools/mod.rs:828-836`), since the ids are places in a list. Without one a close
is bound to the id the window list gives.

ConsentPromise says what the gate promises with no pipeline in sight: an offer
under a fresh name, withdrawn at any time, and every destructive deed covered
by one offer, which it uses up. The pipeline implements it (`KeepsPromise`):
`drawn` is `issued`, `deeds` is `effects`, and an offer stands while its token
can be presented or an invocation that presented it has yet to act.

Properties: `ConsentSound` and `TokenSingleUse` with the invariant behind them,
`ConsentLedger`; `ReplayInheritsNothing`; `PolicyNotLaundered`; `AuditedOnce`;
`BoundCloseHitsTarget` (while its id is in the list at dispatch, a close bound
to it goes to that window or to none) and `CloseNeverRedirected`, which leaves
the condition out and fails; the refinement `KeepsPromise`; the liveness
`RequestsReturn`. `AuditedOnce` counts the calls of `audit_record`: whether the
line reaches the file is AuditLog's question, and of a failed append the
pipeline only warns (`tools/mod.rs:561-568`). A command whose answer panics has
had its effect and is not audited.

### HistoryStore

One file of frames, each sealed with the hash of the one before as associated
data; the file's abstract value is a sequence of frames (`rec`, `key`, `aad`,
`nonce`, and whether the frame is whole). A frame opened under another key or
behind another predecessor does not decrypt, which `Parses` states. Each
system call is an action: `AppendFrame`, `SealTmp`, `RenameTmp`, `Commit`
(chmod, then memory), `Truncate`, `Overwrite`, `Unlink`, `GenerateKey`. A
process may `Crash` before any of them and `Open`s the file again. `faults`,
fixed at the start of a behaviour from the constant `Worlds`, says which
things may fail in it, so one run covers several sets of failures and a
property can say under which it holds.

Properties: `ChainHolds`, `NothingLost`, `MemoryTracksFile`, `IndexStable`
(with what `GetByIndex` selects), `DeletionRecovered`. Three are stated for the
failures `record()` and `load()` are written to survive (`Tolerable`: failed and
torn writes, short keys, crashes); `NothingLost` holds under all of them. A
torn frame whose removal fails as well (`history.rs:547`, `556`; the fault
`rollback`) stays on file, and with it an appended record is out of reach of a
restart: it is outside `Tolerable`.

### AuditLog

Inodes with their lines, the live path, the archives by date and suffix, and
for every process its open inode, previous hash and date. `writeln!` is two
writes, so a line may lack its newline and the next record is glued to it:
`raw` is the sequence of records written on one line. `BeginRecord`, `Rotate`,
`Reopen`, `Prune`, `WriteLine`, `WriteNewline` are the steps of `record()`;
`OpenRotate` and `OpenLive` those of `open()`. `Shift` moves the clock a day on
or back, `Die` ends the process before any step, and `failing` is what `faults`
is above. Several names of HistoryStore have another here (`Servers`, `answer`,
`appended`), so that one module can extend both.

Properties: `AuditKept` is `WholeFilesVerify` (every file verifies and holds
one day), `AckedKept` (what was reported appended stays for the retention, and
no longer) and `RotationRecovers` (a rotation that failed half-way refuses
nothing later); `NeverRefused` is the last without its antecedent.

### HttpGate

The launch picks the key source (environment, file, directory), the policy and
the filters (`Boot`); `http_gate` is authentication, the token bucket and the
audited refusal; then the call and the listing. A handler is a future that the
client may drop (`HangUp`): of a refusal's audit record only what was handed to
the blocking pool survives. The append there may fail, which is warned of and
not tried again (`unwritten`); a launch without a security context has no log
(`main.rs` always makes one). A request reads the monotonic clock before it takes the limiter's
lock, so two readings may cross. A rotation retires every key after an overlap.

Properties: `GateAccountable` (a request that reaches the MCP layer carries a
live key of the winning source; where there is a log each refusal is tried there
exactly once, whoever hangs up), `BudgetHolds` (burst and refill bound what an identity spends, up to
the crossings of the clock; the map stays within its cap),
`ListingMatchesDispatch` (what is listed and what runs agree, but for plugins
denied by their own name).

### CommandRunner

One call from its arguments to its answer, over the four ways the code runs a
helper (`exec`, `helper`, `probe`, `feed`). The flag parser is a recursive
function over the arguments; the child, a daemon it may leave behind with the
pipes open, the drainers, the time-out and the kill interleave with the clock.

Properties: `HelpersContained` (output is whole up to the cap and never that of
a killed child; each wait ends by its deadline; neither child nor directory is
left), `WhitelistExact` (the parser accepts exactly the grammar, said as a set
of sequences).

### PluginCatalog

The scan reads one file at a time while an editor changes them; then a call
goes through the gate, is bound, and its steps are substituted and sent.
Properties: `PluginsSound` is `FirstFileWins`, `SubstitutedOnce` and
`DeniedEitherName`.

### Metrics

Counters, one histogram for each tool and the history's gauge; a call ends,
changes the history and sets the gauge in separate steps. Property:
`MetricsTrue`.

### ScreenStream

The registry slot, the capture task of every stream with its rolling window on
disk, and the requests. A start looks at the slot (`Start`), spawns the task
(`Mint`) and looks again (`Insert`); the loser aborts its task, waits for it
and removes the directory. `Stop` empties the slot first and joins afterwards,
with a watchdog that aborts. `Latest` polls the counters, which the task
updates in two lock sections, and reads a file that may be gone. Dropping an
aborted task's state writes its manifest, while blocking file work that had
begun still lands (`Abort`). `orphans` records what could not be removed: the
code logs it or ignores it.

Properties: `WindowKept` (the window's bounds, and manifests that describe
their directories), `NoStrayStream` (nothing runs unreachable, a loser leaves
nothing), `LatestNewer`, `SingleStream`.

### PortalSession, WaylandFrames, WlrShot, PipewireFrames, ScreenRecord

- **PortalSession**: calls to the desktop portal are a request and, later, a
  Response signal that every waiter on the connection sees. Input calls share
  one session under a mutex and rebuild it once when a call fails; a capture
  has a session of its own; a held stream keeps one. `SessionsConsented`: no
  session is used without its own dialog, none is confused with another's, a
  capture closes what it opened.
- **WaylandFrames**: a persistent ext-image-copy session and wlr-screencopy with
  damage, over an output of regions with versions. A buffer keeps what the
  compositor does not write; outputs are resized between any two events.
  **WlrShot**: one screencopy frame for `screenshot`, from the name of a
  display to the copy, in versions 2 and 3 of the protocol. `FrameCurrent`: a
  frame shows every region no older than when its capture began, and a session
  that says "unchanged" has handed on what the screen shows; `ShotTrue` for a
  single shot.
- **PipewireFrames**: the worker thread's callbacks against a polling consumer.
  `FramesFaithful`: frames in order and once, sizes as decoded, errors told.
- **ScreenRecord**: the burst with its interval, cap of bytes, failures and
  manifest. `RecordingTold`: the manifest is what is on disk, the bounds hold. One
  property of the run, `CapturesTold`, holds this and `ShotTrue`.

### DetectionLadder, InputDevice, WindowBackends, WindowRows, HighlightOverlay, ClipboardHelpers

- **DetectionLadder**: the environment's snapshot, the ladder of each slot,
  and the walk over it while services come up. `LadderServes`: a slot holds a
  back end only after each one before it was tried and failed.
- **InputDevice**: a tool call is a script of its provider's operations, each
  with what its failure means for the rest. Calls interleave between
  operations, the focus moves, an operation fails between two of its events.
  `NothingLeftDown` (what is down was asked for, or touched by an operation
  that failed), `TypedWhereMeant` (a text goes whole where it was meant, or up
  to a check; only xdotool is handed a text nobody looked up), `PointerLands`.
  An output has a width in pixels and a scale; a virtual device's range is
  stretched over the logical desktop by the compositor (`Onto`). So a move lands
  where it was sent only where the provider takes the desktop for as wide as it
  is (`TrueExtent`), and that is the condition of the property: the wlr provider
  adds pixels to logical origins, uinput's axis starts at 0.
- **WindowBackends**: for eight providers, the queries of a listing, the
  resolution of the selector and the dispatch, between which the desktop
  changes. sway and river ignore a move or resize of a tiled window and report
  success (`tiled`). A toplevel is looked up and then sent the request: in
  between it may close, its handle is `Inert`, and the answer is `ok` all the
  same. `ControlExact`: the action touches the window resolved, as asked, and
  success means it was asked where the provider can tell (`Unsure` says where
  it cannot).
- **WindowRows**: how replies become rows, provider by provider, put together
  from several queries. `RowsTrue`: rows are of their own windows, tell what
  held during the call, and miss none that was there throughout.
- **HighlightOverlay**: the surface from output to configure to the end of its
  time. `HighlightHonest`: what is said to be drawn is, where and how long.
- **ClipboardHelpers**: one helper per call, with kills at the time-out and the
  user copying. `ClipboardTrue`: an answer was so while the helper ran, and a
  call that answered changes nothing after.

### AccessTree, BrowserBridge, ScreenVision, VisionMath

- **AccessTree**: searches share a scan for its time to live; scans go one
  application at a time while the desktop changes; an invocation looks its
  element up twice, reads its actions and sends the place of one in that list.
  A node whose children or proxy cannot be had loses what is below it without
  an error or a mark (`Lossy`). `TreeAnswers`: an answer from an undisturbed
  scan is the truth; what is invoked matched when it was seen, and is the verb
  asked for unless the list was changed meanwhile; a mark of a cut is never
  false, and is there wherever a whole tree is cut.
- **BrowserBridge**: one connection behind a lock, made on demand, dropped when
  a request fails, or is refused: the browser's own socket has no Runtime
  domain. `BrowserTrue`: each call gets the reply to its own request, from a
  local page or worker, and while nothing fails what there is to attach to
  settles whether it is answered, refused or finds no target.
- **ScreenVision**: a capture, the cache of results, models that are fetched on
  first use, and the way back to the layout. `SightTrue`: hits, screenshots and
  colours are of what was shown; an engine runs on verified files only.
- **VisionMath**: the algorithms around the models, each against a definition
  said another way (`AlgorithmsRight`): boxes are the connected regions, text
  is the collapsed path, boxes kept are the greedy choice.

## 4. The runs

All runs are exhaustive within their bounds. `CHECK_DEADLOCK FALSE` stands in
every configuration because bounded counters (tokens, clock, records, frames,
calls) let a behaviour come to rest once they are used up.

| Run | Question and result | Bounds, and why they suffice |
|---|---|---|
| `consent` | Requests race for tokens that expire; the desktop changes between challenge, check and close; replay and plugins re-enter. `TypeOK`, `ConsentSound`, `TokenSingleUse`, `BoundCloseHitsTarget`, `ReplayInheritsNothing`, `PolicyNotLaundered`, `AuditedOnce` and the refinement `KeepsPromise` hold | 2 slots, 3 callers, 3 tokens, lifetime 1, clock 0..3: a token presented twice at once, by the wrong caller, on and past its expiry, after another challenge pruned it; 2 windows whose titles may be shared and may hold an id; depth 3, the most the code allows, and a macro with an ungated, a threaded and an unthreaded step. The proofs lift the bounds |
| `bypass` | With `--allow-destructive`, a request stays unanswered only while an invocation waits for a provider that never answers, or after a panic: `RequestsReturn` holds under fairness | two workloads: 2 slots that replay, run macros and clear, which suffice for the history to be cleared under a replay; 1 slot that closes windows, or the focused view, and replays that. A role without commands: the panic is in `consent` |
| `close_id_in_title` | **violated**, see findings | the workload of closes alone |
| `stores` | Every system call of the history and of the audit log fails or is the last before a crash | history: cap 3 with batch 1, 8 operations, 2 clears: several evictions, restarts in between, appends after rewrites. Audit: 4 days, retention 1, 4 lines, 4 moves of the clock: two rotations onto one date, a boundary archive, a return to an earlier day. One process: the code is written for one |
| `history_deleted`, `audit_wedged` | **violated**, see findings | the one fault each needs |
| `server` | Front door, helper processes, plugins, metrics | gate: 9 launches over every key source, one without a log, bucket of one token, map of one identity (two callers evict each other), clock 0..2, 3 arrivals. Runner: every argument list up to 3 of the capture commands, streams of up to 3 pipe buffers of which 2 are kept. Plugins: 3 files with every mix of a macro and a rival, or with one of 7 unsound manifests, 1 edit. Metrics: 3 calls, 1 restart, durations at, between and above the bounds |
| `pixels` | Streams, frames, recordings | stream: 2 clients, 2 streams of 2 frames and 1, window of 1 frame and 1 unit, frames of 1 or 2 units (one never fits), so that every frame evicts. Wayland: 2 regions, versions up to 2, 2 resizes, 4 frames: one abandoned, one after it. PipeWire: 3 buffers, 3 formats. Recording: 3 frames, cap of 4 bytes, a capture of up to two intervals, 1 failure. Shot: 1 or 2 outputs, a region over an edge, protocol 2 and 3 |
| `stream_single` | **violated**, see findings | window of 2 frames |
| `desktop` | Detection, input, windows, rows, highlight, clipboard, the portal's sessions | detection: 480 environments, two back ends that come up late. Input: 2 calls of 10, 1 failure, 1 change of focus; an output left of the origin, or one of scale two. Windows: 2 windows, one of which may be tiled, 2 changes, 1 call, 1 failure for each of 8 providers. Rows: 4 windows (a panel, one off the workspaces), 2 changes, 1 failure. Highlight: 2 outputs, 10 rectangles, unplugging and dismissal. Clipboard: 2 calls of 6, 4 kits of helpers. Portal: 7 requests, 2 failures, pairs of flows that share a connection |
| `senses` | Accessibility, browser, vision | tree: scan of at most 5 of 7 elements, lifetime 2, 1 change, 1 failure. Browser: 5 endpoints (pages, a worker, the browser's own socket, here or elsewhere), 2 callers, 3 calls, 2 events, 2 failures. Sight: cache of 1, lifetime 1, 1 change, 3 calls, 1 failure. Algorithms: all maps of 3 by 3 cells, paths of 4 steps, queries of 4 tokens, 4 boxes |
| `hits` | **violated**, see findings | the sight part alone |

A window of one frame does not exercise the order of eviction among several,
and one process does not show what two on a state directory do to each other
(findings).

### Fairness

`FairSpec` of SecuredDispatch (and its instance, `BypassSpec`) states weak
fairness of the step of every invocation, but for those in which it waits for a
provider (`AtProvider`). The runtime keeps polling the task of every request,
and the awaits outside the providers end: those on a mutex are on critical
sections without an await, file work on a blocking thread returns, a spawned
command is waited for 15 s (`tools/mod.rs:950-983`). Nothing is assumed of
providers. Most have time-outs of their own, but not all
(`clipboard.rs:131` awaits the writer, the overlay's roundtrips wait for the
compositor), and the pipeline has none above them; so `RequestsReturn` exempts a
request while an invocation of it is at a provider for good, or after
the panic of `truncate64k` ended its task (`Lost`), and says that there is no
third way: no nesting, refusal or fault of the gates, the audit or the history
takes an answer away. Clients owe no further request, the clock need not advance
and the desktop need not change, so `Submit`, `Return`, `Tick` and the window
actions have none. The safety runs need no fairness.

### Findings

| Run | Code | What is said |
|---|---|---|
| `close_id_in_title` (`CloseNeverRedirected`) | `tools/mod.rs:735` puts the resolved id in place of the selector, and `resolve_window` falls back to a title match once that id is gone: the close goes to the window whose title contains it | `tools/mod.rs:730-734`, the substitution binds the close to the resolved window |
| `history_deleted` | `history.rs:325` compares the outermost context of the error, which never says "No such file": the rewrite is never taken and every later record fails | `history.rs:319-322`, "recovers from the missing file" |
| `audit_wedged` | a rotation that fails after its rename leaves the old date with nothing to rename: every later record is refused | `audit.rs:4-5`, every invocation is appended |
| `stream_single` | stop frees the slot before its task has ended, so a second stream starts beside it | `stream.rs:19-21`, a second start while a task is alive is rejected |
| `hits` | `vision.rs:49` adds the scope's origin to a place in physical pixels, and nothing at all for the whole layout: at scale 2, or with an output left of the origin, hits are misplaced or dropped | `docs/TOOLS.md:200-202`, coordinates are logical |

The following are also in the models: each named property is defined in its
module and, by the same name, in the MC module; no run checks it, and it fails
when it is given to TLC in place of the run's own properties.

| Property | Code | What is said |
|---|---|---|
| `WlrShot.DisplayShown` | `wlr_capture.rs:337-347` captures the first output whatever the display, and takes layout coordinates for the output's own | `docs/TOOLS.md:763-765` |
| `WlrShot.InfoComplete` | `wlr_capture.rs:299-308` asks for the geometry and ends its one roundtrip before it is told | `docs/TOOLS.md:807-809` |
| `WaylandFrames.ResizedFrameCurrent`, `NoChangeMissed` | a buffer renewed after a resize is asked only for the damage (`wlr_stream.rs`); a frame given up at its deadline (724-727) takes along an answer that was on its way, whose damage the compositor will not report again | `wlr_stream.rs:18-21`, the buffer holds the full frame and a write happens on real damage |
| `PipewireFrames.FrameFits` | `portal_stream.rs:68-90` and `portal_capture.rs:636-639` hold pixels and size separately, so a frame that waits over a renegotiation has the new size | its comment in `portal_capture.rs` |
| `PortalSession.OneConsentFlow` | `portal_capture.rs:370`: a dialog nobody answers in 120 s fails the call and frees the mutex, but stays open, and the next call opens another | `portal_input.rs:323-325`, one consent flow is ever in flight |
| `ScreenRecord.RegionHonoured` | `grim_capture.rs:57-78` | `docs/TOOLS.md:1300-1301`, an explicit region wins |
| `DetectionLadder.HeadlessEmpty` | `backend/detect.rs:385-416` plans the window slot by the desktop's name alone, so a headless session with a compositor's socket gets a ladder | `backend/detect.rs:352`, headless: every ladder is empty |
| `WindowBackends.NeverRetargeted` | a toplevel id is a place in the list, checked by title and class only (`wlr_toplevel.rs:385-447`): the place may by then be that of another window of the same title | `tools/admin.rs:477-484` |
| `InputDevice.ChordPressed` | `keyboard.rs:117-124` sends `Control_L`, `Alt_L`, ..., which the table of the uinput and portal providers (`common.rs:255`, `common.rs:389`) does not have | `docs/TOOLS.md:706-725` |
| `InputDevice.HeldIsDown` | `mouse.rs:343-358`: the list of held buttons is read before the device is changed and written after: a click or drag that releases the button in between leaves the entry | the list's purpose |
| `CommandRunner.NeverHangs` | `clipboard.rs:122-131` waits for its input to be taken without a time-out | `clipboard.rs:14-15` |
| `CommandRunner.CallAnswered` | `tools/mod.rs:1005-1013` cuts a string inside a character and panics | `docs/TOOLS.md:1703-1704`, output is cut |
| `HttpGate.BudgetExact` | a check that read the clock before another's sets the bucket back | `security/ratelimit.rs` |
| `HttpGate.ListedRuns` | a plugin denied by its own name is listed by its tool's | `server.rs:62-67` |
| `Metrics.SizeTold` | `tools/mod.rs:804-806`, `admin.rs:724`: the gauge is 0 after a restart and set by whoever is last | `docs/ARCHITECTURE.md:579` |
| `AccessTree.FocusedHonest` | `vision.rs:635-651` answers `found: true` with nothing focused | `docs/TOOLS.md:1003` |

Seen while modelling, without a property of its own:

- a close whose target resolved neither at the challenge nor at the retry is
  admitted unbound and resolved at dispatch (`tools/mod.rs:822-823`), and a close
  of river's focused view closes what has the focus by then (828-830);
- the ids a compositor gives its windows may be used again: a close bound to an
  id goes to whatever window has it then; the model takes the id for the window;
- the panic of a cut output leaves a command that ran without an audit line, a
  history record and an answer (`tools/mod.rs:1005-1013`);
- pointer coordinates: the wlr provider adds an output's width in pixels to its
  logical origin (`wlr_input.rs:347-368`, "in layout coordinates"), so every
  move misses where the last output is scaled; uinput's axis starts at 0
  (`uinput_input.rs:267-275`) and ends where `common.rs:105-147` found the
  desktop to end, so moves miss where an output lies left of the origin or that
  number is another than the compositor's;
- a move or resize of a tiled window is ignored and reported as applied
  (`sway_window.rs:25-26`, `river_window.rs:29-31`), as is a request to a
  toplevel that closed since it was looked up (`wlr_toplevel.rs:454-475`);
- when `/json/list` has no page, a query goes to the browser's own socket
  (`cdp_browser.rs:126-140`), where `Runtime.enable` is refused: that fallback
  never answers;
- a node of the accessibility tree that does not tell its children, or whose
  proxy cannot be built, silently loses what is below it (`atspi.rs:705-719`);
  an action is sent as a place in a list that may have changed since
  (`atspi.rs:1135-1144`);
- a chmod that fails after an append leaves the frame on file and pops its
  record from memory (`history.rs:561`), so the next append is sealed against
  the wrong hash, and a torn append whose removal fails (`history.rs:547`, `556`)
  stays; hence `Tolerable`;
- `clear()` that fails between overwriting and unlinking leaves memory listing
  what the file no longer has (`history.rs:395`);
- an audit line cut short of its newline spoils the next one
  (`audit.rs:281`), hence the antecedents on `cut`;
- nothing locks the state directory: two processes fork the chain of the
  history, which then does not load, and that of the audit log;
- `rate_limit_rejections_total` also counts refused credentials
  (`server.rs:317`), and the HTTP session gauge is never set;
- an accessibility registry that does not tell its children makes an empty scan
  that is cached (`atspi.rs:758`), and a slow older scan overwrites a newer one;
  `invoke_element` reports the rectangle of its first lookup;
- kdotool's output is cut at a marker a caption may contain; hyprctl marks the
  window last focused when nothing has the focus; wayfire takes an event for a
  reply after skipping its fill, narrows ids to 32 bits and writes back a
  rectangle it read before (`wayfire_window.rs:196-207`); X11 cannot be sent
  to -1;
- the overlay answers "Highlighted" when it was closed before it was
  configured (`overlay.rs:415-419`), does not match fractional or turned
  outputs, and its roundtrips have no time-out;
- clearing with xclip where there is no xsel leaves an empty owner; screencopy
  before version 3 sends no `buffer_done`, so a capture times out;
- two processes fetch a model through one fixed `.part` file.

## 5. The proofs

Each proof module EXTENDS the module of a component, or of the components that
share an MC module: ServerProofs HttpGate, CommandRunner, Metrics and
PluginCatalog, PixelProofs ScreenStream, PipewireFrames, WaylandFrames and
Captures, DesktopProofs PortalSession, ClipboardHelpers, WindowBackends, InputDevice,
DetectionLadder and HighlightOverlay, SensesProofs BrowserBridge.
`DataLemmas` holds what several need of numbers and sequences (extremes,
remainders, removal, suffixes, concatenation, the sequence of a set's elements,
sums over finite sets, folds). A theorem holds for every value of the
constants that its assumption admits: any number of requests, clients, records,
frames, days, and any mix of faults, where the runs have a few.

| Module | Theorem (property of a run) | Assumed beyond the module's ASSUME |
|---|---|---|
| SecuredDispatchProofs | `TypeCorrect` (`TypeOK`), `LedgerInvariant`, `ConsentSafety` (`ConsentSound`), `SingleUse` (`TokenSingleUse`), `RolesHold` (`PolicyNotLaundered`), `ReplayHarmless` (`ReplayInheritsNothing`), `AuditComplete` (`AuditedOnce`), `CloseHitsTarget` (`BoundCloseHitsTarget`) | nothing |
| | `PromiseKept` (`KeepsPromise`), the refinement of ConsentPromise | `~AllowDestructive`: with that flag no consent is asked, by design |
| HistoryStoreProofs | `TypeSound`, `HistoryLosesNothing` (`NothingLost`), `ChainSound` (`ChainHolds`), `MemorySound` (`MemoryTracksFile`), `IndexSound` (`IndexStable`) | one process, `TypeSound` aside |
| AuditLogProofs | `AuditSound` (`AuditKept`), `ArchivesStayApart` | one process |
| ServerProofs | `AdmissionSound` (`GateAccountable`), `BudgetSound` (`BudgetHolds`), `ListingSound` (`ListingMatchesDispatch`), `HelpersSound` (`HelpersContained`), `MetricsAgree` (`MetricsTrue`), `PluginsRunAsWritten` (`PluginsSound`) | nothing |
| PixelProofs | `WindowSound` (`WindowKept`), `SlotSound` (`NoStrayStream`), `LatestSound` (`LatestNewer`), `FramesSound` (`FramesFaithful`), `WaylandSound` (`FrameCurrent`), `CapturesSound` (`CapturesTold`) | nothing |
| DesktopProofs | `PortalSound` (`SessionsConsented`), `ClipboardSound` (`ClipboardTrue`), `WindowsExact` (`ControlExact`), `NothingIsLeftDown` (`NothingLeftDown`), `TextGoesWhereMeant` (`TypedWhereMeant`), `PointerIsThere` (`PointerLands`), `LaddersServe` (`LadderServes`), `HighlightSound` (`HighlightHonest`) | nothing |
| SensesProofs | `BridgeSound` (`BrowserTrue`) | nothing |

What the assumptions leave out. `GateAssumption` requires that a bucket which is
idle for the eviction time is full again (`Burst <= Rps * (EvictAfter + 1)`):
the default rates satisfy it, a rate below burst/600 per second does not, and
there an eviction gives an identity tokens it had not earned. One process, for
the two stores: nothing in the code locks the state directory, and the
properties fail for two (section 4, findings). `RunnerAssumption` gives the join
of a drainer some time (`DRAIN_JOIN_TIMEOUT` is not zero): with none, output that
is there when the child ends could be lost. `BridgeAssumption` says that a page
is found in a list by type and address and that no address is the mark of a
closed connection. `WindowAssumption` says there are finitely many windows and
that each has a number for its identifier; `OutputsAreReal` that an output has modes of
some width and a scale of at least 1; `InputAssumption` that outputs are
finitely many and calls name the tools there are. `PluginAssumption` says that a
parameter's name has none of the template's symbols, as the grammar of names has
it, and that a manifest without a tool section has none of its parameters. The
rest (`FramesAssumption`,
`WaylandAssumption`, `ClipboardAssumption` among them) says that the constants are
numbers, sets and records of the kinds the code has, that `None`, `Blank` or
`Nothing` is not one of the values it stands apart from, and for the stream that
the clients are finitely many. The runs evaluate each of them.

**SecuredDispatch.** Neither `ConsentSound` nor `TokenSingleUse` is inductive:
both speak of effects that have happened, and nothing in them says that the
request about to act may. `ConsentLedger` does. It ties every token that can
still be presented to the scope it was issued for and to zero uses, and every
invocation between the check and the effect (`Holding`) to a token that nobody
else holds, that is no longer in the map and that has authorised nothing
(`Authorised`, `Unspent`). `ConsentCheck` establishes that, since `verify` removes
the token in the step that compares it; `Challenge` keeps it, since tokens are
fresh; an effect spends the right; replay and plugins enter children at `gate`,
which hold nothing. The other properties need that a frame past the gate is of
a tool its caller may use, that a replayed call carries no token and that each
frame has been stamped as often as its place in the pipeline says
(`FramesGood`); for the close, that from the check to the close the window in the
arguments is the one resolved, and that the request goes to it unless it had left
the list when it was looked up again (`TargetBound`). For the refinement, an offer of
ConsentPromise stands while its token is in the map or held; a deed uses up the
holder's offer, and is a new one because every deed so far has used its token
(`Spent`); a refused or expired token withdraws an offer, and every other step
stutters.

**HistoryStore.** `SafeInv` holds under every failure: what memory, the frames
on file, a rewrite in the temporary file and the acknowledged records can be at
each step of an operation, so that whichever of them a restart reads holds what
was acknowledged, from the tail back (`Tracks`). `CalmInv` adds, for the
failures the code is written to survive, that file and memory agree between
operations, that all frames have one key, the one on disk, and that each is
sealed behind the one before.

**AuditLog.** `AuditInv` places every acknowledged record (`FoundIn`): in a file
that will be archived under a day not before the record's, and that has a name
until the record's time is over. That the day is not before it comes from the
first line of the file (`HeadParses`), which is what a restart goes by; hence
the antecedent on cut lines together with a clock that goes back. An open log
writes to the live file or to the archive of its own day that a failed rotation
left (`LogGood`). A rotation finds a free suffix because among one more number
than there are archives one is free: the pigeonhole principle.

**HttpGate.** `GateInv`: the store holds valid keys, each no longer than the
record of the winning source it was read from and the overlap of a rotation let
it, and a caller past the authentication has a key that was live then.
`BudgetInv` sets each identity's account against its bucket: spent and left
together are at most burst and refill, and an identity without a bucket has
spent no more than its refill, so that a full new bucket gives it nothing. The
crossings of the clock are credited to the account. The proofs corrected two history
variables of the model, which the small instance had not told apart: a rotation
retires its own new key if that was live already, and an idle eviction leaves
the account as last seen.

**ScreenStream.** `WindowInv` follows the rolling window through a tick: which
files the directory has at each step of capture, write, push and eviction, and
that the byte counter of the code is the sum of the sizes it holds. `SlotInv`
says of each accepted stream that runs that it is in the slot or was told to
end, and of a start that lost its race that its stream has ended and left
nothing it could remove. `LatestInv` ties what a waiter has read to the numbers
of the frames the stream had written by then.

**PortalSession.** `PortalInv` ties each session to the request that created it
and to the flow that request came from, each flow's step to what it can know of
its session, and each answer in an inbox to the request it answers. A call
that has yet to reach its `Start` has asked no oftener than it has tried
before, which bounds the dialogs.

**CommandRunner.** `RunnerInv` says where the child can be at each await (`ChildAt`:
it runs while its handler waits and at no other time), when there is a scratch
directory (`DirAt`), that no timer is overrun (`TimeAt`), and that what was
written is in the pipe or was drained (`PipesAt`). That the output of a child
without daemons is whole when it is joined needs `JoinAt`: what waits in a pipe
at the end of the child is read before the clock moves, and `out` is complete
by the time `err` is joined.

**Metrics.** `MetricsInv`: each call that ended is counted under one outcome and
once in the histogram of its tool, no bucket exceeds that count, the
credentials refused and not yet failures are those of the calls between the two
increments, and a call about to set the gauge carries a length the history had.
The exposition's sums are folds over finite sets; that a fold exists, does not
depend on the element it takes first and grows by what is added is proved from
induction on the sizes of subsets (`SumProperties`), with a set for the
predicate.

**PluginCatalog.** `CatalogInv`: every name a scan has claimed is that of a sound
manifest it read, and what it read comes before what it has yet to read, so a
manifest that is kept out has an earlier rival; the manifest that runs was
sound when it was read, whatever its file is now, and neither of its names is
denied: the one by the gate, the other at the lookup. That a leaf is
substituted once is about the scan of a template, a fold over its symbols,
which is followed symbol by symbol for the three forms that matter: two dollars,
a placeholder alone, and one behind a dollar (`SegmentsDoubled`,
`SegmentsReference`).

**PipewireFrames.** `FramesInv`: a frame that waits has the negotiated size unless a
change was noted since (`WaitingAt`), its number is above every one handed on,
and a grab that has handed on its frame is over (`GrabAt`).

**WaylandFrames.** `FrameCurrent` speaks of the last frame; what keeps it true is
about the persistent buffer. `WaylandInv` says that the buffer shows what the
screen does wherever the compositor has not marked a change (`Kept`), or was
never copied to and is then asked for as a whole (`NeverCopied`): that is why
asking for the damage of the last frame is enough. Once a copy has been served
and not yet taken, the damage it carries stands for the changes the compositor has
forgotten (`FrameGood`); an answer that is given up loses them, hence the
antecedent `missed`, and a buffer renewed by a resize is only asked for the
damage, hence `renewed` (section 4, findings).

**Captures.** The two go on side by side and share nothing, so the invariant is
`RecordInv /\ ShotInv`. For the recording: the frames that are listed are those
on disk, whole and in order, and beside them there is at most the one whose
write ended the recording (`FilesGood`), and the ticker is due no sooner than an interval after the
last frame, whatever a capture took (`TicksGood`), which bounds their number
(`FramesGood`). For the shot: what was copied is a version the output had since
the call began, in the format that was asked for (`CopyGood`), and of the place
that was asked for while nobody moved an output (`SpanGood`).

**ClipboardHelpers.** `ClipboardInv`: a call has seen every content since its helper
runs, the present one among them (`CopyGood`), and what its helper has done was so
of one of them (`Borne`); a helper is alive only while its call waits.

**WindowBackends.** `WindowInv`: toplevel handles are used where there are some
(`ProviderGood`); a row's id is its window where there are none (`RowGood`);
before its dispatch a call has done nothing, and then at most the first of the
two axes of a resize (`CallGood`); a toplevel that was found had the title
resolved or the focus, and its handle is of an open window or inert (`HandleGood`); and each effect is of the window the call
resolved, or has its title where the id is a place in a list (`HitGood`).

**InputDevice.** `NothingLeftDown` speaks of the end of all calls. `Held` says of
every moment: a code that is down was asked for, or was touched by a failure, or is
released by the script of a call in flight. What makes that inductive is about
scripts alone: each operation that leaves a code down is meant to last or is
followed by one that releases it (`Kept`), and no failure before the release
skips it, but for the modifiers of a chord one of which did not go down
(`Freed`): the operations that release are those a failure goes on at. That the
scripts of all tools over all providers are kept is proved from how they are
put together (`ScriptKept`); an operation that is done or fails then hands a
kept script on (`RestKept`, `AfterFailureRest`). For the text, `Astray` bounds the
characters since the last check by the remainder of their number. `PointerLands`
is inductive by itself: stretching a range that is as wide as the desktop is the
identity, and of any other range it stays on the desktop. The proofs
corrected the model: an operation the portal repeats went on without the check
between two characters, the ghosts counted characters from the start of
the text rather than from the last check, counted a chord's modifiers as asked
for, and did not count those a failing chord leaves held.

**DetectionLadder.** `LadderInv`: for each settled slot the back ends that failed
are those before the one it holds (`Settled`), for the slot the walk is at those it
has passed (`Walking`), and none of them can be used since, unless it came late
(`FailedRightly`); so the portal, which every ladder of a session with a display
ends with, cannot have been passed over. A name stands where the number of slots
filled so far says (`Named`), which cardinality lemmas carry over a step.

**HighlightOverlay.** The client adds up what each output tells of its modes;
`SpanTold` shows that it ends with the current one. `HighlightInv`: what is known of
an output that is still plugged in is what it told (`Heard`), the surface is where
that puts it and what is on the screen is drawn on it (`Placed`), what has passed of
the time and what is left make the time asked for (`Timed`). The proof made two
conditions explicit: an output has one width however many modes it calls current
(`ToldAsShown`), and no mode is 0 wide (`OutputsAreReal`, which the protocol has).

**BrowserBridge.** `BridgeInv` rests on the lock: who attaches or waits holds it,
and nobody else (`CallGood`). So one request is under way at a time, its reply is
the one message in the socket that answers it (`Pending`), and when the lock is
free the socket is quiet but for events (`LinkGood`), which is why no reply to
a request that was given up is taken for another's. Only a page or worker gets
past `Runtime.enable`, so that it is one that answers.

In each of these, the proof that a step keeps the invariant has a lemma for each
action, frame lemmas for what most actions leave alone, and a last lemma that
the invariant implies the property. The strengthenings were checked by TLC on
the runs' instances before they were proved.

Model-checked only: liveness (`RequestsReturn`), which is out of the prover's
reach; whatever a run expects to be violated; `WhitelistExact` of CommandRunner,
which is about what a parser computes for every input; and the properties of
WindowRows, AccessTree, ScreenVision and VisionMath. Of these
AccessTree, VisionMath and WindowRows declare RECURSIVE operators, which keeps
them out of the prover's reach.

## 6. Not modelled, and why

- Durability below the file system (fsync, a rename lost by a power cut): a
  crash here is the death of the process. tokio's write-behind of frame files.
- The text of results, logs, tool schemas and manifests; the formats of keys,
  policies and the text exposition: no property is about them.
- HMAC of the audit log and the environment secret of the history: the model
  has one integrity mechanism each; retention 0 (pruning off); a cap of 1.
- The transports, subscriptions, prompts, health and metrics routes (I/O).
- Installing and removing plugins, trust bundles and signatures.
- Scrolling, keymap upload, workspace switching, the cursor's position.
- Pixel formats beyond the order of channels, PNG conversion, resizing and
  normalising of images, the models' inference, which is external and taken to
  be right, and its boxes are taken for pixels of the frame: `cxcywh_to_rect`
  (`onnx_vision.rs:954-966`), which keeps a width whose origin it clamped, is left out.
- A property of an accessible object that cannot be read, which leaves its field
  empty.
- Panics of a task other than the cut of a long output, `status` of a stream.
- The search of PATH for the pinned binaries, creation and migration of the
  state directory: sequential set-up.
- Traits, errors, test doubles: no state.

The components of `PROJECT.json` say which of their operations are missing.

## 7. Plan

The modelling is done in the order of what matters most: the pipeline and its
proofs, the two stores, the stream, then the server, the desktop, the pixels
and the senses. The proofs follow the same order (section 5). What is left to prove:

1. `SightTrue` of ScreenVision, part by part (`HitsTrue`, `PixelsTrue`,
   `ModelsVerified`, `CacheBounded`).

After that: liveness of ScreenStream (every stop ends although captures hang,
under fairness of the task, the watchdog and the abort), a stream with a window
of several frames, installing and removing plugins, scrolling.
