------------------------------ MODULE HttpGate -----------------------------
(***************************************************************************)
(* The front door of the server: the launch (key store, policy, filters),  *)
(* the /mcp middleware (authentication, token bucket, audited refusal) and *)
(* what tools/list advertises against what tools/call lets through.        *)
(*                                                                         *)
(* A handler is a future that the client may drop by hanging up: only what *)
(* was handed to the blocking pool before the await survives it.  The two  *)
(* clocks (wall clock for expiries, monotonic for buckets) are one integer *)
(* clock here; rates are whole tokens per tick.  A key stands for its      *)
(* SHA-256 digest and for its key_id.                                      *)
(***************************************************************************)
EXTENDS Integers, Sequences, FiniteSets, FiniteSetsExt, SequencesExt

CONSTANTS
  Requests,       \* requests in flight, reused after their answer
  Addrs,          \* remote addresses
  ValidKeys,      \* credentials of the form uxcp_<64 hex>
  NewKey,         \* the key a rotation generates, one of ValidKeys
  Garbage,        \* a credential that is not of that form
  NoCred,         \* an absent or empty header
  Never,          \* no expiry
  BadStamp,       \* an expiry text that is not RFC 3339
  Absent,         \* a source, list or file that is not configured
  Refusal,        \* a configuration that stops the launch
  Launches,       \* the configurations the server is started with
  Catalog,        \* the static tools
  Exposed,        \* tools exposed by plugin manifests
  Category,       \* [Catalog -> categories]
  PluginOf,       \* [Exposed -> plugin names]
  ReadonlyTools,  \* readonly_allowlist()
  Rps, Burst,     \* the shape of a bucket
  EvictAfter, MaxIdentities, GcEvery,
  MaxTime,        \* bound: ticks explored
  MaxArrivals     \* bound: requests explored

VARIABLES
  phase,     \* "boot", "loaded", "serving" or "refused"
  launch,    \* the configuration this process was started with
  store,     \* the keys of ApiKeyStore, [ValidKeys -|-> expiry]
  retired,   \* the keys a rotation stamped, [ValidKeys -|-> end of overlap],
             \* and the new key, which has none
  policy,    \* the policy after the CLI overrides
  time,
  req,       \* [Requests -> the state of the handler]
  buckets,   \* Inner.buckets, [identity -|-> tokens and last]
  checks,    \* Inner.ops
  arrivals,  \* requests so far, for the bound
  jobs,      \* audit records handed to the blocking pool
  audit,     \* number of audit records on disk
  unwritten, \* number of records whose append failed, which is only warned of
  refusals,  \* number of requests refused so far
  ledger,    \* per identity: spent tokens, since when, the last clock its bucket
             \* was refilled or dropped at, and how far that was set back
  served     \* the call that reached the MCP layer last

Entries == [key: ValidKeys \union {Garbage}, expires: Int \union {Never, BadStamp}]
KeyFiles == [private: BOOLEAN, form: {"json", "line", "broken"}, records: Seq(Entries)]

\* What is assumed of the constants: a bucket is full again by the time it is
\* idle enough to drop (ratelimit.rs: twice the rate, at least 20, in 600 s),
\* no manifest exposes the name of a static tool (plugins.rs refuses it), and a
\* server without a security context, which only tests build, has no policy.
GateConstants ==
  /\ {Rps, Burst, EvictAfter, MaxIdentities} \subseteq Nat /\ GcEvery \in Nat \ {0}
  /\ Burst <= Rps * (EvictAfter + 1)
  /\ NewKey \in ValidKeys /\ {Garbage, NoCred, Absent} \cap ValidKeys = {}
  /\ Never \notin Int
  /\ Catalog \cap Exposed = {}
  /\ \A l \in Launches:
       /\ l.stdio \in BOOLEAN /\ l.disabled \in BOOLEAN /\ l.secured \in BOOLEAN
       /\ ~l.secured => l.policy = Absent /\ ~l.readonly /\ l.allow = {} /\ l.deny = {}
       /\ l.env = Absent \/ l.env \in Seq(Entries)
       /\ l.file = Absent \/ l.file \in KeyFiles
       /\ l.dir \in Seq(KeyFiles)

ASSUME GateAssumption == GateConstants

bootVars == <<phase, launch, store, retired, policy>>
gateVars == <<req, buckets, checks, arrivals, jobs, audit, unwritten, refusals, ledger,
              served>>
vars == <<bootVars, gateVars, time>>

-----------------------------------------------------------------------------
(* Loading the keys.                                                       *)

NoCall == [key |-> Absent, at |-> 0, tool |-> Absent, runs |-> FALSE, listed |-> FALSE]
Idle == [pc |-> "idle", cred |-> NoCred, addr |-> Absent, now |-> 0,
         key |-> Absent, id |-> Absent]

\* ULTRANIX_MCP_API_KEY and _EXPIRES: entries and expiries are aligned by
\* position before blank entries are dropped; an unreadable expiry is none.
EnvRecords(env) ==
  [i \in DOMAIN env |->
     [key |-> env[i].key,
      expires |-> IF env[i].expires = BadStamp THEN Never ELSE env[i].expires]]

\* One key file: a loose mode, a broken document or, in JSON, an unreadable
\* expiry stops the launch; the line format takes such an expiry for none.
FileRecords(f) ==
  IF \/ ~f.private
     \/ f.form = "broken"
     \/ f.form = "json" /\ \E i \in DOMAIN f.records: f.records[i].expires = BadStamp
  THEN Refusal
  ELSE EnvRecords(f.records)

\* The first configured source wins, the others are ignored, not merged: its
\* records file by file, the environment being one file.
Source(l) ==
  CASE l.env # Absent -> <<EnvRecords(l.env)>>
    [] l.env = Absent /\ l.file # Absent -> <<FileRecords(l.file)>>
    [] l.env = Absent /\ l.file = Absent -> [n \in DOMAIN l.dir |-> FileRecords(l.dir[n])]

\* One file that stops the launch makes the whole source do so.
Records(l) ==
  IF \E n \in DOMAIN Source(l): Source(l)[n] = Refusal THEN Refusal ELSE Source(l)

\* The records of a key: in these files, at these places of a file.
FilesOf(files, k) == {n \in DOMAIN files: \E i \in DOMAIN files[n]: files[n][i].key = k}
PlacesOf(records, k) == {i \in DOMAIN records: records[i].key = k}
FirstRecord(files, k) ==
  LET records == files[Min(FilesOf(files, k))] IN records[Min(PlacesOf(records, k))]

\* Malformed entries are skipped and the first record of a key is kept.
RecordsToKeys(files) ==
  [k \in {v \in ValidKeys: FilesOf(files, v) # {}} |-> FirstRecord(files, k).expires]

-----------------------------------------------------------------------------
(* The policy.                                                             *)

\* CLI flags change the default role only: an allow list joins the file's
\* under --readonly and replaces it otherwise, a deny list always joins.
CliRole(role, l) ==
  [readonly |-> role.readonly \/ l.readonly,
   allow |-> CASE l.allow = {} -> role.allow
               [] l.allow # {} /\ ~l.readonly -> l.allow
               [] l.allow # {} /\ l.readonly ->
                    l.allow \union (IF role.allow = Absent THEN {} ELSE role.allow),
   deny |-> role.deny \union l.deny]

OpenRole == [readonly |-> FALSE, allow |-> Absent, deny |-> {}]
DefaultPolicy == [default |-> OpenRole, roles |-> <<>>, keys |-> <<>>]

\* A named file that is missing or broken, or that maps a key to a role it
\* does not define, stops the launch.
FromFileAndCli(l) ==
  LET p == IF l.policy = Absent THEN DefaultPolicy ELSE l.policy
  IN IF \/ l.policy = Refusal
        \/ \E k \in DOMAIN p.keys: p.keys[k] \notin DOMAIN p.roles
     THEN Refusal
     ELSE [p EXCEPT !.default = CliRole(p.default, l)]

Resolve(p, key) ==
  IF key \in DOMAIN p.keys THEN p.roles[p.keys[key]] ELSE p.default

Allows(role, tool) ==
  /\ tool \notin role.deny
  /\ IF role.readonly
     THEN tool \in ReadonlyTools \/ (role.allow # Absent /\ tool \in role.allow)
     ELSE role.allow = Absent \/ tool \in role.allow

-----------------------------------------------------------------------------
(* What is advertised, and what a call is answered.                        *)

CategoryOn(tool, l) == l.categories = Absent \/ Category[tool] \in l.categories

\* MUTANT of AdvertisedTools: plugin tools are listed in every category.
AdvertisedAnyCategory(l, p, key) ==
  {t \in Catalog: CategoryOn(t, l) /\ Allows(Resolve(p, key), t)}
    \union
  {t \in Exposed: /\ Allows(Resolve(p, key), "plugin_run")
                  /\ Allows(Resolve(p, key), t)}

AdvertisedTools(l, p, key) ==
  {t \in Catalog: CategoryOn(t, l) /\ Allows(Resolve(p, key), t)}
    \union
  {t \in Exposed: /\ CategoryOn("plugin_run", l)
                  /\ Allows(Resolve(p, key), "plugin_run")
                  /\ Allows(Resolve(p, key), t)}

\* run_exposed_tool: a plugin's tool needs plugin_run's category and the
\* right to run plugins, and must not be denied under the plugin's name.
ExposedRuns(l, p, key, tool) ==
  /\ CategoryOn("plugin_run", l)
  /\ Allows(Resolve(p, key), "plugin_run")
  /\ PluginOf[tool] \notin Resolve(p, key).deny

CallRuns(l, p, key, tool) ==
  /\ tool \in Catalog => CategoryOn(tool, l)
  /\ Allows(Resolve(p, key), tool)
  /\ tool \in Exposed => ExposedRuns(l, p, key, tool)

-----------------------------------------------------------------------------
(* The launch.                                                             *)

Init ==
  /\ phase = "boot"
  /\ launch \in Launches
  /\ store = <<>> /\ retired = <<>>
  /\ policy = DefaultPolicy
  /\ time = 0
  /\ req = [r \in Requests |-> Idle]
  /\ buckets = <<>> /\ checks = 0
  /\ arrivals = 0
  /\ jobs = <<>> /\ audit = 0 /\ unwritten = 0 /\ refusals = 0
  /\ ledger = <<>>
  /\ served = NoCall

\* main: the policy is read before the transport starts; over HTTP the keys
\* are read before the listener is bound.  Either may stop the launch.
Boot ==
  /\ phase = "boot"
  /\ policy' = IF FromFileAndCli(launch) = Refusal THEN policy ELSE FromFileAndCli(launch)
  /\ LET records == Records(launch)
         refuse == \/ FromFileAndCli(launch) = Refusal
                   \/ ~launch.stdio /\ records = Refusal
     IN /\ phase' = IF refuse THEN "refused" ELSE "loaded"
        /\ store' = IF refuse \/ launch.stdio THEN store ELSE RecordsToKeys(records)
  /\ UNCHANGED <<launch, retired, time, gateVars>>

\* MUTANT of Rotate: the overlap prolongs a key that would expire sooner.
RotateExtends(grace) ==
  /\ phase = "loaded" /\ ~launch.stdio
  /\ NewKey \notin DOMAIN store
  /\ store' = [k \in DOMAIN store \union {NewKey} |->
                 IF k = NewKey THEN Never ELSE time + grace]
  /\ retired' = [k \in DOMAIN store \union {NewKey} |->
                   IF k = NewKey THEN Never ELSE time + grace]
  /\ UNCHANGED <<phase, launch, policy, time, gateVars>>

\* Every key held gets the end of the overlap as expiry unless its own is
\* sooner, and a fresh key without expiry joins.  The served store is shared
\* read-only, so a rotation comes before serving.
Rotate(grace) ==
  /\ phase = "loaded" /\ ~launch.stdio
  /\ NewKey \notin DOMAIN store
  /\ LET end == time + grace
         Stamp(e) == IF e = Never THEN end ELSE Min({e, end})
     IN /\ store' = [k \in DOMAIN store \union {NewKey} |->
                       IF k = NewKey THEN Never ELSE Stamp(store[k])]
        /\ retired' = [k \in DOMAIN store \union {NewKey} |->
                         IF k = NewKey THEN Never ELSE end]
  /\ UNCHANGED <<phase, launch, policy, time, gateVars>>

Serve ==
  /\ phase = "loaded"
  /\ phase' = "serving"
  /\ UNCHANGED <<launch, store, retired, policy, time, gateVars>>

Tick ==
  /\ phase = "serving" /\ time < MaxTime
  /\ time' = time + 1
  /\ UNCHANGED <<bootVars, gateVars>>

-----------------------------------------------------------------------------
(* The middleware.                                                         *)

Credential(header, bearer) == IF header # NoCred THEN header ELSE bearer

AuthFailure(cred) ==
  CASE cred = NoCred -> "missing"
    [] cred = Garbage -> "malformed"
    [] cred \in ValidKeys /\ cred \notin DOMAIN store -> "unknown"
    [] cred \in DOMAIN store ->
         IF store[cred] # Never /\ store[cred] <= time THEN "expired_key" ELSE "ok"

Credentials == ValidKeys \union {Garbage, NoCred}

\* A request arrives: over HTTP at the gate, on stdio straight at MCP.
Arrive(r) ==
  /\ phase = "serving" /\ req[r] = Idle
  /\ arrivals < MaxArrivals
  /\ \E header, bearer \in Credentials, addr \in Addrs:
       req' = [req EXCEPT ![r] =
         [Idle EXCEPT !.pc = IF launch.stdio THEN "mcp" ELSE "auth",
                      !.cred = Credential(header, bearer), !.addr = addr, !.now = time]]
  /\ arrivals' = arrivals + 1
  /\ served' = NoCall
  /\ UNCHANGED <<bootVars, time, buckets, checks, jobs, audit, unwritten, refusals, ledger>>

\* A refusal hands its audit record to the blocking pool and awaits it; a
\* server without a security context has no log.
Refuse(r, outcome, identity) ==
  /\ jobs' = IF launch.secured
             THEN Append(jobs, [r |-> r, outcome |-> outcome, id |-> identity])
             ELSE jobs
  /\ refusals' = refusals + 1
  /\ req' = [req EXCEPT ![r] = [Idle EXCEPT !.pc = "refused", !.id = identity]]

\* authenticate_verbose, then the first line of check: the bucket's clock is
\* read before its lock is taken.
Authenticate(r) ==
  /\ req[r].pc = "auth"
  /\ LET outcome == IF launch.disabled THEN "ok" ELSE AuthFailure(req[r].cred)
         key == IF launch.disabled THEN Absent ELSE req[r].cred
     IN \/ /\ outcome # "ok"
           /\ Refuse(r, "auth_rejected", req[r].addr)
        \/ /\ outcome = "ok"
           /\ req' = [req EXCEPT ![r] =
                [Idle EXCEPT !.pc = "limit", !.key = key, !.now = time,
                             !.id = IF key = Absent THEN req[r].addr ELSE key]]
           /\ UNCHANGED <<jobs, refusals>>
  /\ UNCHANGED <<bootVars, time, buckets, checks, arrivals, audit, unwritten, ledger, served>>

Minus(a, b) == IF a > b THEN a - b ELSE 0

\* Buckets idle for longer than EvictAfter are dropped on every GcEvery-th
\* check, and on every check while the map is over its cap.
EvictStale(bs, now) ==
  IF (checks + 1) % GcEvery = 0 \/ Cardinality(DOMAIN bs) > MaxIdentities
  THEN Restrict(bs, {i \in DOMAIN bs: Minus(now, bs[i].last) <= EvictAfter})
  ELSE bs

\* MUTANT of Take: the time of the last check is not moved on.
TakeKeepsLast(b, now) ==
  LET tokens == Min({b.tokens + Minus(now, b.last) * Rps, Burst})
  IN [tokens |-> Minus(tokens, 1), last |-> b.last, allowed |-> tokens >= 1]

\* Refill for the time since the last check, then spend one token.
Take(b, now) ==
  LET tokens == Min({b.tokens + Minus(now, b.last) * Rps, Burst})
  IN [tokens |-> Minus(tokens, 1), last |-> now, allowed |-> tokens >= 1]

\* Over the cap, one least recently active bucket is dropped.
Oldest(bs) == {i \in DOMAIN bs: \A j \in DOMAIN bs: bs[i].last <= bs[j].last}

EvictOldest(bs) ==
  IF Cardinality(DOMAIN bs) <= MaxIdentities
  THEN {bs}
  ELSE {Restrict(bs, DOMAIN bs \ {i}): i \in Oldest(bs)}

\* The account of an identity, kept for the properties: opened when a bucket
\* is created, it outlives an idle eviction (of the buckets outside live) but
\* not one at the cap.
Account(live, i, now, allowed, kept) ==
  LET old == IF i \in DOMAIN ledger THEN ledger[i]
             ELSE [since |-> now, spent |-> 0, seen |-> now, back |-> 0]
      new == [since |-> old.since, spent |-> old.spent + (IF allowed THEN 1 ELSE 0),
              seen |-> now, back |-> old.back + Minus(old.seen, now)]
      Idled(j) == [ledger[j] EXCEPT !.seen = IF j \in DOMAIN buckets \ DOMAIN live
                                            THEN now ELSE @]
  IN [j \in kept |-> IF j = i THEN new ELSE Idled(j)]

\* The critical section of RateLimiter::check, with the clock read before it.
Check(r) ==
  /\ req[r].pc = "limit"
  /\ LET now == req[r].now
         i == req[r].id
         live == EvictStale(buckets, now)
         b == IF i \in DOMAIN live THEN live[i] ELSE [tokens |-> Burst, last |-> now]
         taken == Take(b, now)
         bs == [j \in DOMAIN live \union {i} |->
                  IF j = i THEN [tokens |-> taken.tokens, last |-> taken.last]
                  ELSE live[j]]
     IN /\ buckets' \in EvictOldest(bs)
        /\ ledger' = Account(live, i, now, taken.allowed,
                       (DOMAIN ledger \union {i}) \ (DOMAIN bs \ DOMAIN buckets'))
        /\ \/ /\ taken.allowed
              /\ req' = [req EXCEPT ![r].pc = "mcp"]
              /\ UNCHANGED <<jobs, refusals>>
           \/ /\ ~taken.allowed
              /\ Refuse(r, "rate_limited", i)
  /\ checks' = checks + 1
  /\ UNCHANGED <<bootVars, time, arrivals, audit, unwritten, served>>

\* The blocking pool appends a record, whether or not anyone still waits; an
\* append that fails, or panics, is warned of and never tried again.
RunJob(n) ==
  /\ \/ audit' = audit + 1 /\ UNCHANGED unwritten
     \/ unwritten' = unwritten + 1 /\ UNCHANGED audit
  /\ jobs' = RemoveAt(jobs, n)
  /\ UNCHANGED <<bootVars, time, req, buckets, checks, arrivals, refusals, ledger, served>>

Pending(r) == \E n \in DOMAIN jobs: jobs[n].r = r

\* The 401 or 429 leaves once the append has ended, well or not.
Respond(r) ==
  /\ req[r].pc = "refused"
  /\ ~Pending(r)
  /\ req' = [req EXCEPT ![r] = Idle]
  /\ UNCHANGED <<bootVars, time, buckets, checks, arrivals, jobs, audit, unwritten, refusals,
                 ledger, served>>

\* The client goes away while its handler waits: the future is dropped.
HangUp(r) ==
  /\ req[r].pc = "refused"
  /\ Pending(r)
  /\ req' = [req EXCEPT ![r] = Idle]
  /\ UNCHANGED <<bootVars, time, buckets, checks, arrivals, jobs, audit, unwritten, refusals,
                 ledger, served>>

\* The MCP layer takes the key_id of the extension the gate inserted.
CallTool(r, tool) ==
  /\ req[r].pc = "mcp"
  /\ served' =
       [key |-> req[r].key, tool |-> tool, at |-> req[r].now,
        runs |-> CallRuns(launch, policy, req[r].key, tool),
        listed |-> tool \in AdvertisedTools(launch, policy, req[r].key)]
  /\ req' = [req EXCEPT ![r] = Idle]
  /\ UNCHANGED <<bootVars, time, buckets, checks, arrivals, jobs, audit, unwritten, refusals,
                 ledger>>

Next ==
  \/ Boot
  \/ \E g \in 0..2: Rotate(g)
  \/ Serve
  \/ Tick
  \/ \E r \in Requests: Arrive(r) \/ Authenticate(r) \/ Check(r) \/ Respond(r) \/ HangUp(r)
  \/ \E n \in DOMAIN jobs: RunJob(n)
  \/ \E r \in Requests, t \in Catalog \union Exposed: CallTool(r, t)

Spec == Init /\ [][Next]_vars
-----------------------------------------------------------------------------
(* Properties.                                                             *)

\* The source the operator's configuration puts first, as raw entries.
WinningEntries ==
  CASE launch.env # Absent -> Range(launch.env)
    [] launch.env = Absent /\ launch.file # Absent -> Range(launch.file.records)
    [] OTHER -> UNION {Range(launch.dir[n].records): n \in DOMAIN launch.dir}

\* Over HTTP with authentication on, whatever reaches the MCP layer carries a
\* key of the winning source (or the rotated one) that was within both its
\* own expiry and the overlap of a rotation when it was authenticated.
ServedKeyLive ==
  (served # NoCall /\ ~launch.stdio /\ ~launch.disabled) =>
    \/ served.key = NewKey /\ NewKey \in DOMAIN retired
    \/ /\ \E e \in WinningEntries:
            /\ e.key = served.key
            /\ (e.expires \notin {Never, BadStamp} => e.expires > served.at)
       /\ served.key \in DOMAIN retired \ {NewKey} => served.at < retired[served.key]

\* Where there is a log, every refusal is tried there exactly once: its record
\* is written, on its way, or was lost to an append that failed and was warned
\* of, and a client that hangs up meanwhile takes no record along.  Without a
\* security context nothing is logged.
RefusalAudited ==
  IF launch.secured
  THEN refusals = audit + unwritten + Len(jobs)
  ELSE audit = 0 /\ unwritten = 0 /\ jobs = <<>>

\* The gate lets in live keys only, and accounts for whom it turns away.
GateAccountable == ServedKeyLive /\ RefusalAudited

\* No identity spends more than its burst plus the refill of the time since
\* its account was opened, an idle eviction included, up to the time by which
\* checks that read the clock before another took the lock set it back, one
\* that dropped their bucket included; and the map the accounts are kept in
\* never outgrows its cap.
BudgetHolds ==
  /\ \A i \in DOMAIN ledger:
       ledger[i].spent <= Burst + Rps * (time - ledger[i].since + ledger[i].back)
  /\ Cardinality(DOMAIN buckets) <= MaxIdentities

\* tools/list hides nothing a call would run, and what it shows a call runs,
\* but for a tool whose plugin is denied by the plugin's own name.
ListingMatchesDispatch ==
  /\ served.runs => served.listed
  /\ served.listed => \/ served.runs
                      \/ /\ served.tool \in Exposed
                         /\ PluginOf[served.tool] \in Resolve(policy, served.key).deny

\* "A plugin-exposed tool is advertised iff plugin_run's category is enabled,
\* the caller's role allows plugin_run, and the tool's own name passes ...,
\* mirroring the dispatch-time conjuncts": the listing promises the call.
ListedRuns == served.listed => served.runs

\* The documented shape: the sustained rate plus one burst, and no more.
BudgetExact ==
  \A i \in DOMAIN ledger:
    ledger[i].spent <= Burst + Rps * (time - ledger[i].since)
=============================================================================
