---------------------------- MODULE ServerProofs ----------------------------
(***************************************************************************)
(* Proofs about HttpGate, for any number of requests, addresses and keys,  *)
(* any configuration, any rate and any bound on the map of buckets; about  *)
(* CommandRunner, for any calls, time-outs and caps; about Metrics, for    *)
(* any callers, tools, bounds and durations; and about PluginCatalog, for  *)
(* any directory, manifests, edits and calls.                              *)
(***************************************************************************)
EXTENDS HttpGate, CommandRunner, Metrics, PluginCatalog, DataLemmas

-----------------------------------------------------------------------------
(* Whom the gate lets in *)

Pcs == {"idle", "auth", "refused", "limit", "mcp"}

\* A key may be used at an instant: it is the fresh one of a rotation, or the
\* winning source holds it, unexpired, and a rotation's overlap has not ended.
MayServe(k, at) ==
  \/ k = NewKey /\ NewKey \in DOMAIN retired
  \/ /\ \E e \in WinningEntries:
          e.key = k /\ (e.expires \notin {Never, BadStamp} => e.expires > at)
     /\ k \in DOMAIN retired \ {NewKey} => at < retired[k]

\* The store holds valid keys, each for no longer than the record it was read
\* from and the overlap of a rotation let it.
KeyHeld(k) ==
  \/ k = NewKey /\ NewKey \in DOMAIN retired
  \/ /\ \E e \in WinningEntries:
          /\ e.key = k
          /\ e.expires \notin {Never, BadStamp} => store[k] # Never /\ store[k] <= e.expires
     /\ k \in DOMAIN retired \ {NewKey} =>
          retired[k] \in Int /\ store[k] # Never /\ store[k] <= retired[k]

StoreGood ==
  /\ launch \in Launches
  /\ phase \in {"boot", "loaded", "serving", "refused"}
  /\ time \in Nat
  /\ DOMAIN store \subseteq ValidKeys
  /\ \A k \in DOMAIN store: store[k] \in Int \union {Never} /\ KeyHeld(k)
  /\ NewKey \notin DOMAIN store => retired = <<>>
  /\ phase = "boot" => store = <<>> /\ retired = <<>>

\* Requests are answered by a serving process only; who is past the
\* authentication over HTTP holds a key that could be used then.
Admitted(q) ==
  /\ q.pc \in Pcs
  /\ q.cred \in Credentials
  /\ q.now \in 0..time
  /\ q.pc \in {"auth", "limit"} => ~launch.stdio
  /\ q.pc \in {"limit", "mcp"} /\ ~launch.stdio /\ ~launch.disabled => MayServe(q.key, q.now)

CallersGood ==
  /\ req = [r \in Requests |-> req[r]]
  /\ \A r \in Requests: Admitted(req[r])
  /\ phase # "serving" => served = NoCall /\ \A r \in Requests: req[r] = Idle
  /\ ServedKeyLive

GateInv == StoreGood /\ CallersGood

\* EnvRecords keeps the keys in place and takes a broken expiry for none.
LEMMA EnvRecordsKeep ==
  ASSUME NEW env \in Seq(Entries), NEW i \in DOMAIN EnvRecords(env)
  PROVE  /\ i \in DOMAIN env
         /\ EnvRecords(env)[i].key = env[i].key
         /\ EnvRecords(env)[i].expires \in Int \union {Never}
         /\ env[i].expires \notin {Never, BadStamp} =>
              EnvRecords(env)[i].expires = env[i].expires
<1>1. i \in DOMAIN env /\ env[i] \in Entries
  BY DEF EnvRecords
<1>2. env[i].expires \in Int \union {Never, BadStamp}
  BY <1>1 DEF Entries
<1>3. EnvRecords(env)[i] =
        [key |-> env[i].key,
         expires |-> IF env[i].expires = BadStamp THEN Never ELSE env[i].expires]
  BY <1>1 DEF EnvRecords
<1> QED BY <1>1, <1>2, <1>3

\* The records of the source that wins are well formed.
LEMMA WinningTyped ==
  ASSUME GateConstants, launch \in Launches
  PROVE  WinningEntries \subseteq Entries
<1>1. /\ launch.env = Absent \/ launch.env \in Seq(Entries)
      /\ launch.file = Absent \/ launch.file \in KeyFiles
      /\ launch.dir \in Seq(KeyFiles)
  BY DEF GateConstants
<1>2. \A s \in Seq(Entries) : Range(s) \subseteq Entries
  BY DEF Range
<1>3. \A f \in KeyFiles : f.records \in Seq(Entries)
  BY DEF KeyFiles
<1>4. CASE launch.env # Absent
  BY <1>1, <1>2, <1>4 DEF WinningEntries
<1>5. CASE launch.env = Absent /\ launch.file # Absent
  BY <1>1, <1>2, <1>3, <1>5 DEF WinningEntries
<1>6. CASE launch.env = Absent /\ launch.file = Absent
  <2>1. WinningEntries = UNION {Range(launch.dir[n].records) : n \in DOMAIN launch.dir}
    BY <1>6 DEF WinningEntries
  <2> QED BY <1>1, <1>2, <1>3, <2>1
<1> QED BY <1>4, <1>5, <1>6

\* Each file of a source that loads holds records of the winning entries.
LEMMA SourceWins ==
  ASSUME GateConstants, launch \in Launches, Records(launch) # Refusal,
         NEW n \in DOMAIN Records(launch), NEW i \in DOMAIN Records(launch)[n]
  PROVE  /\ DOMAIN Records(launch) \subseteq Nat /\ DOMAIN Records(launch)[n] \subseteq Nat
         /\ Records(launch)[n][i].expires \in Int \union {Never}
         /\ \E e \in WinningEntries:
              /\ e.key = Records(launch)[n][i].key
              /\ e.expires \notin {Never, BadStamp} =>
                   Records(launch)[n][i].expires = e.expires
<1>1. Records(launch) = Source(launch) /\ \A m \in DOMAIN Source(launch) : Source(launch)[m] # Refusal
  BY DEF Records
<1>2. /\ launch.env = Absent \/ launch.env \in Seq(Entries)
      /\ launch.file = Absent \/ launch.file \in KeyFiles
      /\ launch.dir \in Seq(KeyFiles)
  BY DEF GateConstants
<1>3. \A f : FileRecords(f) # Refusal => FileRecords(f) = EnvRecords(f.records)
  BY DEF FileRecords
<1>4. \A f \in KeyFiles : f.records \in Seq(Entries)
  BY DEF KeyFiles
<1>5. CASE launch.env # Absent
  <2>1. Source(launch) = <<EnvRecords(launch.env)>> /\ WinningEntries = Range(launch.env)
    BY <1>5 DEF Source, WinningEntries
  <2>2. n = 1 /\ Records(launch)[n] = EnvRecords(launch.env) /\ DOMAIN Records(launch) = {1}
    BY <1>1, <2>1
  <2>3. launch.env \in Seq(Entries) /\ DOMAIN EnvRecords(launch.env) \subseteq Nat
    BY <1>2, <1>5 DEF EnvRecords
  <2> QED BY <2>1, <2>2, <2>3, EnvRecordsKeep DEF Range
<1>6. CASE launch.env = Absent /\ launch.file # Absent
  <2> DEFINE rs == launch.file.records
  <2>1. Source(launch) = <<FileRecords(launch.file)>> /\ WinningEntries = Range(rs)
    BY <1>6 DEF Source, WinningEntries
  <2>2. n = 1 /\ Records(launch)[n] = EnvRecords(rs) /\ DOMAIN Records(launch) = {1}
    BY <1>1, <1>3, <2>1
  <2>3. rs \in Seq(Entries) /\ DOMAIN EnvRecords(rs) \subseteq Nat
    BY <1>2, <1>4, <1>6 DEF EnvRecords
  <2> HIDE DEF rs
  <2> QED BY <2>1, <2>2, <2>3, EnvRecordsKeep DEF Range
<1>7. CASE launch.env = Absent /\ launch.file = Absent
  <2>1. /\ Source(launch) = [m \in DOMAIN launch.dir |-> FileRecords(launch.dir[m])]
        /\ WinningEntries = UNION {Range(launch.dir[m].records) : m \in DOMAIN launch.dir}
    BY <1>7 DEF Source, WinningEntries
  <2> DEFINE rs == launch.dir[n].records
  <2>2. n \in DOMAIN launch.dir /\ launch.dir[n] \in KeyFiles /\ DOMAIN launch.dir \subseteq Nat
    BY <1>1, <1>2, <2>1
  <2>3. Records(launch)[n] = EnvRecords(rs) /\ DOMAIN Records(launch) = DOMAIN launch.dir
    BY <1>1, <1>3, <2>1, <2>2
  <2>4. rs \in Seq(Entries) /\ DOMAIN EnvRecords(rs) \subseteq Nat
    BY <1>4, <2>2 DEF EnvRecords
  <2>5. Range(rs) \subseteq WinningEntries
    BY <2>1, <2>2
  <2> HIDE DEF rs
  <2> QED BY <2>2, <2>3, <2>4, <2>5, EnvRecordsKeep DEF Range
<1> QED BY <1>5, <1>6, <1>7

\* What main loads into the store is held by the source that wins.
LEMMA LoadedHeld ==
  ASSUME GateConstants, launch \in Launches, Records(launch) # Refusal,
         NEW k \in DOMAIN RecordsToKeys(Records(launch))
  PROVE  /\ k \in ValidKeys
         /\ RecordsToKeys(Records(launch))[k] \in Int \union {Never}
         /\ \E e \in WinningEntries:
              /\ e.key = k
              /\ e.expires \notin {Never, BadStamp} =>
                   RecordsToKeys(Records(launch))[k] = e.expires
<1> DEFINE fs == Records(launch)
           n == Min(FilesOf(fs, k))
           i == Min(PlacesOf(fs[n], k))
<1>1. k \in ValidKeys /\ FilesOf(fs, k) # {} /\ RecordsToKeys(fs)[k] = FirstRecord(fs, k).expires
  BY DEF RecordsToKeys
<1>2. FilesOf(fs, k) \subseteq DOMAIN fs
      /\ \A m \in FilesOf(fs, k) : \E j \in DOMAIN fs[m] : fs[m][j].key = k
  BY DEF FilesOf
<1>3. FilesOf(fs, k) \in SUBSET Nat
  BY <1>2, SourceWins
<1>4. n \in FilesOf(fs, k)
  BY <1>1, <1>3, MinProperties
<1>5. PlacesOf(fs[n], k) # {} /\ PlacesOf(fs[n], k) \in SUBSET Nat
  BY <1>2, <1>4, SourceWins DEF PlacesOf
<1>6. i \in PlacesOf(fs[n], k)
  BY <1>5, MinProperties
<1>7. n \in DOMAIN fs /\ i \in DOMAIN fs[n] /\ fs[n][i].key = k /\ FirstRecord(fs, k) = fs[n][i]
  BY <1>2, <1>4, <1>6 DEF PlacesOf, FirstRecord
<1> HIDE DEF n, i
<1> QED BY <1>1, <1>7, SourceWins

-----------------------------------------------------------------------------
(* The steps of the launch *)

\* Whether a key may be used depends on the launch and the rotation only.
LEMMA MayServeSame ==
  ASSUME UNCHANGED <<launch, retired>>, NEW k, NEW at, MayServe(k, at)
  PROVE  MayServe(k, at)'
BY DEF MayServe, WinningEntries

\* So does what the store may hold.
LEMMA StoreSame ==
  ASSUME StoreGood, UNCHANGED <<launch, store, retired, phase>>, time' \in Nat
  PROVE  StoreGood'
BY DEF StoreGood, KeyHeld, WinningEntries

\* main reads the policy and the keys, or stops.
LEMMA BootGood ==
  ASSUME GateConstants, StoreGood, Boot
  PROVE  StoreGood'
<1> DEFINE ks == RecordsToKeys(Records(launch))
<1>1. /\ launch' = launch /\ retired' = retired /\ time' = time
      /\ store = <<>> /\ retired = <<>>
      /\ phase' \in {"loaded", "refused"}
  BY DEF Boot, StoreGood
<1>2. CASE store' = store
  BY <1>1, <1>2 DEF StoreGood
<1>3. CASE store' = ks /\ Records(launch) # Refusal
  <2>1. WinningEntries' = WinningEntries
    BY <1>1 DEF WinningEntries
  <2>2. ASSUME NEW k \in DOMAIN ks
        PROVE  /\ k \in ValidKeys /\ ks[k] \in Int \union {Never}
               /\ \E e \in WinningEntries:
                    /\ e.key = k
                    /\ e.expires \notin {Never, BadStamp} => ks[k] = e.expires
    BY <2>2, <1>3, LoadedHeld DEF StoreGood
  <2> HIDE DEF ks
  <2>3. ASSUME NEW k \in DOMAIN ks
        PROVE  KeyHeld(k)'
    <3>1. PICK e \in WinningEntries :
            /\ e.key = k
            /\ e.expires \notin {Never, BadStamp} => ks[k] = e.expires
      BY <2>2
    <3>2. e.expires \notin {Never, BadStamp} => ks[k] # Never /\ ks[k] <= e.expires
      <4> QED BY <2>2, <3>1
    <3> QED BY <1>1, <1>3, <2>1, <3>1, <3>2 DEF KeyHeld
  <2> QED BY <1>1, <1>3, <2>2, <2>3 DEF StoreGood
<1> QED BY <1>2, <1>3 DEF Boot

\* rotate stamps every key held with the sooner of its expiry and the end of
\* the overlap, and adds a fresh one; it is done at most once.
LEMMA RotateGood ==
  ASSUME GateConstants, StoreGood, NEW g \in 0..2, Rotate(g)
  PROVE  StoreGood'
<1> DEFINE end == time + g
           keys == DOMAIN store \union {NewKey}
<1>1. /\ launch' = launch /\ time' = time /\ phase' = phase /\ phase = "loaded"
      /\ NewKey \notin DOMAIN store /\ retired = <<>> /\ end \in Int
      /\ NewKey \in ValidKeys /\ DOMAIN store \subseteq ValidKeys
      /\ Never \notin Int
  BY DEF Rotate, StoreGood, GateConstants
<1>2. retired' = [k \in keys |-> IF k = NewKey THEN Never ELSE end]
  BY DEF Rotate
<1>3. store' = [k \in keys |-> IF k = NewKey THEN Never
                               ELSE IF store[k] = Never THEN end ELSE Min({store[k], end})]
  BY DEF Rotate
<1>4. DOMAIN store' = keys /\ DOMAIN retired' = keys /\ WinningEntries' = WinningEntries
  BY <1>1, <1>2, <1>3 DEF WinningEntries
<1>5. ASSUME NEW k \in keys
      PROVE  store'[k] \in Int \union {Never} /\ KeyHeld(k)'
  <2>1. CASE k = NewKey
    BY <1>3, <1>4, <2>1 DEF KeyHeld
  <2>2. CASE k # NewKey
    <3> DEFINE s == store[k]
    <3>1. k \in DOMAIN store /\ s \in Int \union {Never} /\ KeyHeld(k)
      BY <2>2 DEF StoreGood
    <3>2. PICK e \in WinningEntries :
            /\ e.key = k
            /\ e.expires \notin {Never, BadStamp} => s # Never /\ s <= e.expires
      BY <2>2, <3>1 DEF KeyHeld
    <3>3. /\ s # Never => Min({s, end}) \in Int /\ Min({s, end}) <= s /\ Min({s, end}) <= end
      BY <1>1, <3>1, MinOfTwo
    <3>4. store'[k] = IF s = Never THEN end ELSE Min({s, end})
      BY <1>3, <2>2, <1>5
    <3>5. retired'[k] = end
      BY <1>2, <2>2, <1>5
    <3> HIDE DEF s, end
    <3>6. /\ store'[k] \in Int /\ store'[k] <= end
          /\ s # Never => store'[k] <= s
      BY <1>1, <3>3, <3>4
    <3>7. e.expires \notin {Never, BadStamp} => store'[k] <= s /\ s <= e.expires
      BY <3>2, <3>6
    <3>8. e.expires \in Int \union {Never, BadStamp}
      BY <3>2, WinningTyped DEF StoreGood, Entries
    <3>9. e.expires \notin {Never, BadStamp} =>
            store'[k] # Never /\ store'[k] <= e.expires
      BY <1>1, <3>1, <3>2, <3>6, <3>7, <3>8
    <3> QED BY <1>1, <1>4, <3>2, <3>5, <3>6, <3>9 DEF KeyHeld
  <2> QED BY <2>1, <2>2
<1> HIDE DEF keys
<1>6. NewKey \in DOMAIN store'
  BY <1>4 DEF keys
<1> QED BY <1>1, <1>4, <1>5, <1>6 DEF StoreGood, keys

-----------------------------------------------------------------------------
(* The steps of the middleware *)

\* What the steps after the launch leave alone.
Launched == <<phase, launch, store, retired, time>>

\* The state of a fresh request.
LEMMA IdleAdmitted ==
  ASSUME StoreGood
  PROVE  Idle.pc = "idle" /\ Admitted(Idle)
BY DEF Idle, Admitted, Pcs, Credentials, StoreGood

\* A request admitted stays so as long as the launch stands.
LEMMA AdmittedSame ==
  ASSUME UNCHANGED Launched, NEW q, Admitted(q)
  PROVE  Admitted(q)'
BY DEF Admitted, Launched, MayServe, WinningEntries

\* While the process serves, a step that leaves the launch alone, moves one
\* request to an admitted state and serves a live key keeps the callers good.
LEMMA OneCallerMoves ==
  ASSUME GateInv, UNCHANGED Launched, phase = "serving", ServedKeyLive',
         NEW r \in Requests, NEW q, Admitted(q), req' = [req EXCEPT ![r] = q]
  PROVE  GateInv'
<1>1. StoreGood'
  BY StoreSame DEF GateInv, StoreGood, Launched
<1>2. req' = [s \in Requests |-> req'[s]]
  BY DEF GateInv, CallersGood
<1>3. ASSUME NEW s \in Requests PROVE Admitted(req[s])'
  <2>1. req'[s] = IF s = r THEN q ELSE req[s]
    BY DEF GateInv, CallersGood
  <2>2. Admitted(req'[s])
    BY <2>1 DEF GateInv, CallersGood
  <2> QED BY <2>2 DEF Admitted, Launched, MayServe, WinningEntries
<1>4. phase' = "serving"
  BY DEF Launched
<1> QED BY <1>1, <1>2, <1>3, <1>4 DEF GateInv, CallersGood

\* Nothing is being served any more, or what was served stays.
LEMMA ServedSame ==
  ASSUME ServedKeyLive, UNCHANGED Launched, served' \in {served, NoCall}
  PROVE  ServedKeyLive'
BY DEF ServedKeyLive, Launched, WinningEntries

\* A request that is not idle is one of a serving process.
LEMMA BusyServes ==
  ASSUME GateInv, NEW r \in Requests, req[r].pc # "idle"
  PROVE  phase = "serving" /\ Admitted(req[r])
BY IdleAdmitted DEF GateInv, CallersGood

\* authenticate_verbose says "ok" to a key the store holds unexpired only.
LEMMA AuthenticKey ==
  ASSUME GateConstants, StoreGood, NEW cred \in Credentials, AuthFailure(cred) = "ok"
  PROVE  MayServe(cred, time)
<1>1. /\ Garbage \notin ValidKeys /\ NoCred \notin ValidKeys /\ DOMAIN store \subseteq ValidKeys
      /\ cred \in ValidKeys \union {Garbage, NoCred}
      /\ time \in Int
  BY DEF GateConstants, StoreGood, Credentials
<1>2. cred \in DOMAIN store /\ (store[cred] = Never \/ ~(store[cred] <= time))
  BY <1>1 DEF AuthFailure
<1>3. store[cred] \in Int \union {Never} /\ KeyHeld(cred) /\ Never \notin Int
  BY <1>2 DEF StoreGood, GateConstants
<1>4. CASE cred = NewKey /\ NewKey \in DOMAIN retired
  BY <1>4 DEF MayServe
<1>5. CASE ~(cred = NewKey /\ NewKey \in DOMAIN retired)
  <2>1. PICK e \in WinningEntries :
          /\ e.key = cred
          /\ e.expires \notin {Never, BadStamp} =>
               store[cred] # Never /\ store[cred] <= e.expires
    BY <1>3, <1>5 DEF KeyHeld
  <2>2. e.expires \in Int \union {Never, BadStamp}
    BY <2>1, WinningTyped DEF StoreGood, Entries
  <2>3. e.expires \notin {Never, BadStamp} => e.expires > time
    BY <1>1, <1>2, <1>3, <2>1, <2>2
  <2>4. cred \in DOMAIN retired \ {NewKey} => time < retired[cred]
    BY <1>1, <1>2, <1>3, <1>5 DEF KeyHeld
  <2> QED BY <2>1, <2>3, <2>4 DEF MayServe
<1> QED BY <1>4, <1>5

\* A request arrives at the gate, or on stdio at the MCP layer.
LEMMA ArriveGood ==
  ASSUME GateInv, NEW r \in Requests, Arrive(r)
  PROVE  GateInv'
<1>1. UNCHANGED Launched /\ phase = "serving" /\ served' = NoCall
  BY DEF Arrive, Launched, bootVars
<1>2. PICK cred \in Credentials, addr \in Addrs :
           req' = [req EXCEPT ![r] =
             [Idle EXCEPT !.pc = IF launch.stdio THEN "mcp" ELSE "auth",
                          !.cred = cred, !.addr = addr, !.now = time]]
  BY DEF Arrive, Credential
<1> DEFINE q == [Idle EXCEPT !.pc = IF launch.stdio THEN "mcp" ELSE "auth",
                             !.cred = cred, !.addr = addr, !.now = time]
<1>3. Admitted(q)
  BY <1>2 DEF Admitted, Idle, Pcs, GateInv, StoreGood
<1> QED BY <1>1, <1>2, <1>3, OneCallerMoves, ServedSame DEF GateInv, CallersGood

\* A refused request waits for its record.
LEMMA RefuseGood ==
  ASSUME GateInv, UNCHANGED <<Launched, served>>, phase = "serving",
         NEW r \in Requests, NEW outcome, NEW identity, Refuse(r, outcome, identity)
  PROVE  GateInv'
<1> DEFINE q == [Idle EXCEPT !.pc = "refused", !.id = identity]
<1>1. req' = [req EXCEPT ![r] = q]
  BY DEF Refuse
<1>2. Admitted(q)
  BY DEF Admitted, Idle, Pcs, Credentials, GateInv, StoreGood
<1> HIDE DEF q
<1> QED BY <1>1, <1>2, OneCallerMoves, ServedSame DEF GateInv, CallersGood

\* The gate authenticates a request with a live key, or refuses it.
LEMMA AuthenticateGood ==
  ASSUME GateConstants, GateInv, NEW r \in Requests, Authenticate(r)
  PROVE  GateInv'
<1>1. UNCHANGED <<Launched, served>> /\ req[r].pc = "auth"
  BY DEF Authenticate, Launched, bootVars
<1>2. phase = "serving" /\ Admitted(req[r])
  BY <1>1, BusyServes
<1>3. CASE \E o : Refuse(r, o, req[r].addr)
  BY <1>1, <1>2, <1>3, RefuseGood
<1>4. CASE launch.disabled \/ AuthFailure(req[r].cred) = "ok"
  <2> DEFINE key == IF launch.disabled THEN Absent ELSE req[r].cred
             q == [Idle EXCEPT !.pc = "limit", !.key = key, !.now = time,
                               !.id = IF key = Absent THEN req[r].addr ELSE key]
  <2>1. CASE req' = [req EXCEPT ![r] = q]
    <3>1. req[r].cred \in Credentials /\ ~launch.stdio
      BY <1>1, <1>2 DEF Admitted
    <3>2. ~launch.disabled => MayServe(key, time)
      BY <1>4, <3>1, AuthenticKey DEF GateInv
    <3> HIDE DEF key
    <3>3. Admitted(q)
      BY <3>1, <3>2 DEF Admitted, Idle, Pcs, Credentials, GateInv, StoreGood
    <3> HIDE DEF q
    <3> QED BY <1>1, <1>2, <2>1, <3>3, OneCallerMoves, ServedSame DEF GateInv, CallersGood
  <2> QED BY <1>3, <1>4, <2>1 DEF Authenticate
<1> QED BY <1>3, <1>4 DEF Authenticate

\* The bucket lets an authenticated request through, or refuses it.
LEMMA CheckGood ==
  ASSUME GateInv, NEW r \in Requests, Check(r)
  PROVE  GateInv'
<1>1. UNCHANGED <<Launched, served>> /\ req[r].pc = "limit"
  BY DEF Check, Launched, bootVars
<1>2. phase = "serving" /\ Admitted(req[r])
  BY <1>1, BusyServes
<1>3. CASE \E o : Refuse(r, o, req[r].id)
  BY <1>1, <1>2, <1>3, RefuseGood
<1>4. CASE req' = [req EXCEPT ![r].pc = "mcp"]
  <2> DEFINE q == [req[r] EXCEPT !.pc = "mcp"]
  <2>1. req' = [req EXCEPT ![r] = q]
    BY <1>4 DEF GateInv, CallersGood
  <2>2. /\ q.pc = "mcp" /\ q.cred = req[r].cred /\ q.now = req[r].now /\ q.key = req[r].key
    BY <1>2 DEF Admitted
  <2>3. Admitted(q)
    BY <1>1, <1>2, <2>2 DEF Admitted, Pcs
  <2> HIDE DEF q
  <2> QED BY <1>1, <1>2, <2>1, <2>3, OneCallerMoves, ServedSame DEF GateInv, CallersGood
<1> QED BY <1>3, <1>4 DEF Check

\* The answer is written, or the client gone: the slot is free again.
LEMMA LeaveGood ==
  ASSUME GateInv, NEW r \in Requests, Respond(r) \/ HangUp(r)
  PROVE  GateInv'
<1>1. /\ UNCHANGED <<Launched, served>> /\ req[r].pc = "refused"
      /\ req' = [req EXCEPT ![r] = Idle]
  BY DEF Respond, HangUp, Launched, bootVars
<1> QED BY <1>1, BusyServes, IdleAdmitted, OneCallerMoves, ServedSame DEF GateInv, CallersGood

\* The MCP layer serves the key that the gate let in.
LEMMA CallToolGood ==
  ASSUME GateInv, NEW r \in Requests, NEW tool, CallTool(r, tool)
  PROVE  GateInv'
<1>1. /\ UNCHANGED Launched /\ req[r].pc = "mcp" /\ req' = [req EXCEPT ![r] = Idle]
      /\ served'.key = req[r].key /\ served'.at = req[r].now
  BY DEF CallTool, Launched, bootVars
<1>2. phase = "serving" /\ Admitted(req[r])
  BY <1>1, BusyServes
<1>3. ServedKeyLive'
  BY <1>1, <1>2 DEF Admitted, MayServe, ServedKeyLive, Launched, WinningEntries
<1> QED BY <1>1, <1>2, <1>3, IdleAdmitted, OneCallerMoves DEF GateInv

\* Every step keeps who is let in good.
LEMMA GateStep ==
  ASSUME GateConstants, GateInv, [Next]_vars
  PROVE  GateInv'
<1>1. CASE Boot
  <2>1. UNCHANGED <<req, served, time, launch, retired>> /\ phase = "boot" /\ phase' # "serving"
    BY <1>1 DEF Boot, gateVars
  <2>2. \A r \in Requests : req[r] = Idle
    BY <2>1 DEF GateInv, CallersGood
  <2>3. served = NoCall
    BY <2>1 DEF GateInv, CallersGood
  <2>4. StoreGood'
    BY <1>1, BootGood DEF GateInv
  <2>5. Admitted(Idle)'
    BY <2>4 DEF Admitted, Idle, Pcs, Credentials, StoreGood
  <2> QED BY <2>1, <2>2, <2>3, <2>4, <2>5 DEF GateInv, CallersGood, ServedKeyLive
<1>2. CASE \E g \in 0..2 : Rotate(g)
  <2>1. UNCHANGED <<req, served, time, launch, phase>> /\ phase = "loaded"
    BY <1>2 DEF Rotate, gateVars
  <2>2. \A r \in Requests : req[r] = Idle
    BY <2>1 DEF GateInv, CallersGood
  <2>3. served = NoCall
    BY <2>1 DEF GateInv, CallersGood
  <2>4. StoreGood'
    BY <1>2, RotateGood DEF GateInv
  <2>5. Admitted(Idle)'
    BY <2>4 DEF Admitted, Idle, Pcs, Credentials, StoreGood
  <2> QED BY <2>1, <2>2, <2>3, <2>4, <2>5 DEF GateInv, CallersGood, ServedKeyLive
<1>3. CASE Serve
  <2>1. UNCHANGED <<req, served, time, launch, retired, store>> /\ phase = "loaded" /\ phase' = "serving"
    BY <1>3 DEF Serve, gateVars
  <2>2. StoreGood'
    BY <2>1 DEF StoreGood, KeyHeld, WinningEntries, GateInv
  <2> QED BY <2>1, <2>2
          DEF GateInv, CallersGood, ServedKeyLive, WinningEntries, Admitted, MayServe
<1>4. CASE Tick
  <2>1. UNCHANGED <<req, served, launch, retired, store, phase>> /\ time' = time + 1
    BY <1>4 DEF Tick, gateVars, bootVars
  <2>2. StoreGood'
    BY <2>1, StoreSame DEF GateInv, StoreGood
  <2>3. \A n : n \in 0..time => n \in 0..time'
    BY <2>1 DEF GateInv, StoreGood
  <2> QED BY <2>1, <2>2, <2>3
          DEF GateInv, CallersGood, ServedKeyLive, WinningEntries, Admitted, MayServe
<1>5. CASE \E r \in Requests : Arrive(r) \/ Authenticate(r) \/ Check(r) \/ Respond(r) \/ HangUp(r)
  BY <1>5, ArriveGood, AuthenticateGood, CheckGood, LeaveGood
<1>6. CASE \E n \in DOMAIN jobs : RunJob(n)
  <2>1. UNCHANGED <<phase, launch, store, retired, time, req, served>>
    BY <1>6 DEF RunJob, bootVars
  <2> QED BY <2>1, StoreSame
          DEF GateInv, CallersGood, ServedKeyLive, WinningEntries, Admitted, MayServe, StoreGood
<1>7. CASE \E r \in Requests, t \in Catalog \union Exposed : CallTool(r, t)
  BY <1>7, CallToolGood
<1>8. CASE UNCHANGED vars
  <2>1. UNCHANGED <<phase, launch, store, retired, time, req, served>>
    BY <1>8 DEF vars, bootVars, gateVars
  <2> QED BY <2>1, StoreSame
          DEF GateInv, CallersGood, ServedKeyLive, WinningEntries, Admitted, MayServe, StoreGood
<1> QED BY <1>1, <1>2, <1>3, <1>4, <1>5, <1>6, <1>7, <1>8 DEF Next

\* Nothing is served and nobody waits before the launch.
LEMMA GateInit ==
  ASSUME GateConstants, Init
  PROVE  GateInv
<1>1. StoreGood
  BY DEF Init, StoreGood
<1> QED BY <1>1, IdleAdmitted DEF Init, GateInv, CallersGood, ServedKeyLive

-----------------------------------------------------------------------------
(* The records of refusals *)

\* The records under way are a queue, and each refusal is counted once.
RecordsKept ==
  /\ jobs \in Seq({jobs[n]: n \in DOMAIN jobs})
  /\ audit \in Nat /\ unwritten \in Nat /\ refusals \in Nat
  /\ RefusalAudited

\* A refusal hands over one record where there is a log, and none otherwise
\* (refused_audit_record).
LEMMA RefuseRecorded ==
  ASSUME RecordsKept, NEW r, NEW outcome, NEW identity, Refuse(r, outcome, identity),
         audit' = audit, unwritten' = unwritten, launch' = launch
  PROVE  RecordsKept'
<1>1. CASE launch.secured
  <2> DEFINE S == {jobs[n] : n \in DOMAIN jobs}
             j == [r |-> r, outcome |-> outcome, id |-> identity]
             T == S \union {j}
  <2>1. jobs \in Seq(T) /\ jobs' = Append(jobs, j) /\ refusals' = refusals + 1
    BY <1>1 DEF RecordsKept, Refuse
  <2> HIDE DEF S, j
  <2>2. /\ jobs' \in Seq(T) /\ Len(jobs') = Len(jobs) + 1
        /\ Len(jobs) \in Nat
    BY <2>1
  <2>3. jobs' \in Seq({jobs'[m] : m \in DOMAIN jobs'})
    BY <2>2
  <2>4. /\ refusals' = audit' + unwritten' + Len(jobs')
        /\ audit' \in Nat /\ unwritten' \in Nat /\ refusals' \in Nat
    BY <1>1, <2>1, <2>2 DEF RecordsKept, RefusalAudited
  <2> QED BY <1>1, <2>3, <2>4 DEF RecordsKept, RefusalAudited
<1>2. CASE ~launch.secured
  <2>1. jobs' = jobs /\ refusals' = refusals + 1
    BY <1>2 DEF Refuse
  <2> QED BY <1>2, <2>1 DEF RecordsKept, RefusalAudited
<1> QED BY <1>1, <1>2

\* The blocking pool moves one record to the file or gives it up.
LEMMA RunJobRecorded ==
  ASSUME RecordsKept, NEW n \in DOMAIN jobs, RunJob(n)
  PROVE  RecordsKept'
<1> DEFINE S == {jobs[m] : m \in DOMAIN jobs}
<1>1. /\ jobs \in Seq(S) /\ jobs' = RemoveAt(jobs, n)
      /\ launch' = launch /\ refusals' = refusals
  BY DEF RecordsKept, RunJob, bootVars
<1>2. /\ \/ audit' = audit + 1 /\ unwritten' = unwritten
         \/ audit' = audit /\ unwritten' = unwritten + 1
      /\ audit \in Nat /\ unwritten \in Nat /\ refusals \in Nat
  BY DEF RecordsKept, RunJob
<1> HIDE DEF S
<1>3. n \in 1..Len(jobs) /\ Len(jobs) \in Nat
  BY <1>1
<1>4. jobs' \in Seq(S) /\ Len(jobs') = Len(jobs) - 1
  BY <1>1, <1>3, RemoveAtProperties
<1>5. jobs' \in Seq({jobs'[m] : m \in DOMAIN jobs'})
  BY <1>4
<1>6. launch.secured
  BY <1>3 DEF RecordsKept, RefusalAudited
<1>7. refusals = audit + unwritten + Len(jobs)
  BY <1>6 DEF RecordsKept, RefusalAudited
<1>8. refusals' = audit' + unwritten' + Len(jobs')
  <2>1. CASE audit' = audit + 1 /\ unwritten' = unwritten
    BY <1>1, <1>2, <1>3, <1>4, <1>7, <2>1
  <2>2. CASE audit' = audit /\ unwritten' = unwritten + 1
    BY <1>1, <1>2, <1>3, <1>4, <1>7, <2>2
  <2> QED BY <1>2, <2>1, <2>2
<1>9. audit' \in Nat /\ unwritten' \in Nat /\ refusals' \in Nat
  BY <1>1, <1>2
<1> QED BY <1>1, <1>5, <1>6, <1>8, <1>9 DEF RecordsKept, RefusalAudited

\* No other step touches them.
LEMMA RecordsStep ==
  ASSUME RecordsKept, [Next]_vars
  PROVE  RecordsKept'
<1> SUFFICES ASSUME ~UNCHANGED <<launch, jobs, audit, unwritten, refusals>>
             PROVE  RecordsKept'
  BY DEF RecordsKept, RefusalAudited
<1> USE DEF gateVars, bootVars
<1>1. CASE Boot \/ Serve \/ Tick \/ \E g \in 0..2 : Rotate(g)
  BY <1>1 DEF Boot, Serve, Tick, Rotate
<1>2. ASSUME NEW r \in Requests, Authenticate(r)
      PROVE  RecordsKept'
  BY <1>2, RefuseRecorded DEF Authenticate
<1>3. ASSUME NEW r \in Requests, Check(r)
      PROVE  RecordsKept'
  BY <1>3, RefuseRecorded DEF Check
<1>4. ASSUME NEW r \in Requests, Arrive(r) \/ Respond(r) \/ HangUp(r)
      PROVE  RecordsKept'
  BY <1>4 DEF Arrive, Respond, HangUp
<1>5. ASSUME NEW r \in Requests, NEW t, CallTool(r, t)
      PROVE  RecordsKept'
  BY <1>5 DEF CallTool
<1>6. CASE UNCHANGED vars
  BY <1>6 DEF vars
<1> QED BY <1>1, <1>2, <1>3, <1>4, <1>5, <1>6, RunJobRecorded DEF Next

\* Over HTTP with authentication on, only a key of the winning source, live
\* when it was authenticated, is served; and where there is a log every request
\* turned away is tried there exactly once, whether or not its client still
\* waits and whether or not earlier appends failed (auth.rs, server.rs).
THEOREM AdmissionSound == Spec => []GateAccountable
<1>1. Init => GateInv /\ RecordsKept
  BY GateAssumption, GateInit DEF Init, RecordsKept, RefusalAudited
<1>2. GateInv /\ RecordsKept /\ [Next]_vars => (GateInv /\ RecordsKept)'
  BY GateAssumption, GateStep, RecordsStep
<1>3. GateInv /\ RecordsKept => GateAccountable
  BY DEF GateInv, CallersGood, RecordsKept, GateAccountable
<1> QED BY <1>1, <1>2, <1>3, PTL DEF Spec

-----------------------------------------------------------------------------
(* The listing *)

\* The call served last is listed and answered by the policy in force.
ServedByPolicy ==
  served # NoCall =>
    /\ served.tool \in Catalog \union Exposed
    /\ served.runs = CallRuns(launch, policy, served.key, served.tool)
    /\ served.listed = (served.tool \in AdvertisedTools(launch, policy, served.key))

\* tools/list and tools/call disagree about a tool only where its plugin is
\* denied by the plugin's own name (server.rs list_tools, call_tool).
LEMMA ListedAsRun ==
  ASSUME GateConstants, NEW t \in Catalog \union Exposed, NEW k
  PROVE  /\ CallRuns(launch, policy, k, t) => t \in AdvertisedTools(launch, policy, k)
         /\ t \in AdvertisedTools(launch, policy, k) =>
              \/ CallRuns(launch, policy, k, t)
              \/ t \in Exposed /\ PluginOf[t] \in Resolve(policy, k).deny
<1>1. t \in Catalog => t \notin Exposed
  BY DEF GateConstants
<1> QED BY <1>1 DEF CallRuns, AdvertisedTools, ExposedRuns

\* A step keeps the call served last with the policy it was judged by.
LEMMA ServedStep ==
  ASSUME GateInv, ServedByPolicy, [Next]_vars
  PROVE  ServedByPolicy'
<1>1. CASE Boot
  BY <1>1 DEF Boot, GateInv, CallersGood, ServedByPolicy, gateVars
<1>2. ASSUME NEW r \in Requests, NEW t \in Catalog \union Exposed, CallTool(r, t)
      PROVE  ServedByPolicy'
  BY <1>2 DEF CallTool, ServedByPolicy, bootVars
<1>3. CASE UNCHANGED <<launch, policy>> /\ served' \in {served, NoCall}
  BY <1>3 DEF ServedByPolicy
<1>4. CASE Serve \/ Tick \/ \E g \in 0..2 : Rotate(g)
  BY <1>3, <1>4 DEF Serve, Tick, Rotate, gateVars, bootVars
<1>5. ASSUME NEW r \in Requests,
             Arrive(r) \/ Authenticate(r) \/ Check(r) \/ Respond(r) \/ HangUp(r)
      PROVE  ServedByPolicy'
  BY <1>3, <1>5 DEF Arrive, Authenticate, Check, Respond, HangUp, bootVars
<1>6. CASE UNCHANGED vars \/ \E n \in DOMAIN jobs : RunJob(n)
  BY <1>3, <1>6 DEF vars, RunJob, gateVars, bootVars
<1> QED BY <1>1, <1>2, <1>4, <1>5, <1>6 DEF Next

\* So what tools/list shows a call runs, and what it hides no call runs, but
\* for a tool whose plugin is denied by the plugin's own name.
THEOREM ListingSound == Spec => []ListingMatchesDispatch
<1>1. Init => GateInv /\ ServedByPolicy
  BY GateAssumption, GateInit DEF Init, ServedByPolicy
<1>2. GateInv /\ ServedByPolicy /\ [Next]_vars => (GateInv /\ ServedByPolicy)'
  BY GateAssumption, GateStep, ServedStep
<1>3. ServedByPolicy => ListingMatchesDispatch
  <2>1. ASSUME ServedByPolicy, served # NoCall
        PROVE  ListingMatchesDispatch
    <3> DEFINE t == served.tool
               k == served.key
    <3>1. /\ t \in Catalog \union Exposed
          /\ served.runs = CallRuns(launch, policy, k, t)
          /\ served.listed = (t \in AdvertisedTools(launch, policy, k))
      BY <2>1 DEF ServedByPolicy
    <3> HIDE DEF t, k
    <3>2. /\ served.runs => served.listed
          /\ served.listed => served.runs \/ (t \in Exposed /\ PluginOf[t] \in Resolve(policy, k).deny)
      BY <3>1, GateAssumption, ListedAsRun
    <3> QED BY <3>2 DEF ListingMatchesDispatch, t, k
  <2>2. served = NoCall => ListingMatchesDispatch
    BY DEF ListingMatchesDispatch, NoCall
  <2> QED BY <2>1, <2>2
<1> QED BY <1>1, <1>2, <1>3, PTL DEF Spec

-----------------------------------------------------------------------------
(* The budget *)

\* An account never lies in the future.
Whole(a) == a \in [since: Int, spent: Int, seen: Int, back: Int]
Accounted(a) == Whole(a) /\ a.seen <= time

\* The refill of the time an account is answerable for.
Refill(a) == Rps * (a.seen - a.since + a.back)

\* What was spent and what the bucket still holds is paid for by one burst
\* and the refill; a bucket that was dropped would be full again.
Covered(b, a) ==
  /\ b.tokens \in 0..Burst
  /\ b.last = a.seen
  /\ a.spent + b.tokens <= Burst + Refill(a)
FullAgain(a) == a.spent <= Refill(a)

BudgetInv ==
  /\ IsFiniteSet(DOMAIN buckets)
  /\ Cardinality(DOMAIN buckets) <= MaxIdentities
  /\ DOMAIN buckets \subseteq DOMAIN ledger
  /\ \A i \in DOMAIN ledger: Accounted(ledger[i])
  /\ \A i \in DOMAIN buckets: Covered(buckets[i], ledger[i])
  /\ \A i \in DOMAIN ledger \ DOMAIN buckets: FullAgain(ledger[i])

\* The numbers among the constants.
LEMMA GateNumbers ==
  ASSUME GateConstants
  PROVE  /\ Rps \in Nat /\ Burst \in Nat /\ EvictAfter \in Nat /\ MaxIdentities \in Nat
         /\ Burst <= Rps * (EvictAfter + 1)
BY DEF GateConstants

\* A saturating difference is one of two numbers (Duration's subtraction).
LEMMA MinusType ==
  ASSUME NEW x \in Int, NEW y \in Int
  PROVE  Minus(x, y) \in Nat /\ Minus(x, x) = 0 /\ x + Minus(y, x) = y + Minus(x, y)
BY DEF Minus

\* More time, more refill.
LEMMA RefillGrows ==
  ASSUME GateConstants
  PROVE  /\ \A x, y \in Int: x <= y => Rps * x <= Rps * y
         /\ \A x, y \in Int: Rps * (x + y) = Rps * x + Rps * y
         /\ \A x \in Int: Rps * x \in Int /\ x * Rps = Rps * x
         /\ \A x \in Nat: Rps * x \in Nat
         /\ Rps * 0 = 0
<1>1. Rps \in Nat
  BY GateNumbers
<1> QED BY <1>1

\* The account of a check at an instant: spent, seen then, and set back by as
\* much as the clock of an earlier check was ahead.
Charged(a, at, allowed) ==
  [since |-> a.since, spent |-> a.spent + (IF allowed THEN 1 ELSE 0),
   seen |-> at, back |-> a.back + Minus(a.seen, at)]

\* Taking a token keeps a bucket paid for, if what it holds and is refilled
\* with was (ratelimit.rs take).
LEMMA TakeCovered ==
  ASSUME GateConstants, NEW a, Whole(a),
         NEW b, b.tokens \in 0..Burst, b.last \in Int, NEW at \in Int, at <= time,
         a.spent + b.tokens + Rps * Minus(at, b.last)
           <= Burst + Rps * (at - a.since + (a.back + Minus(a.seen, at))),
         NEW c, c = Take(b, at), NEW d, d.tokens = c.tokens, d.last = c.last
  PROVE  Accounted(Charged(a, at, c.allowed)) /\ Covered(d, Charged(a, at, c.allowed))
<1>1. Burst \in Nat /\ Minus(at, b.last) \in Nat /\ Minus(a.seen, at) \in Nat
  BY GateNumbers, MinusType DEF Whole
<1>2. Rps * Minus(at, b.last) \in Nat /\ Minus(at, b.last) * Rps = Rps * Minus(at, b.last)
  BY <1>1, RefillGrows
<1> DEFINE more == Rps * Minus(at, b.last)
           t == Min({b.tokens + more, Burst})
           e == Charged(a, at, c.allowed)
<1>3. t \in 0..Burst /\ t <= b.tokens + more
  <2> HIDE DEF more
  <2> QED BY <1>1, <1>2, MinOfTwo DEF more
<1>4. c.tokens = Minus(t, 1) /\ c.last = at /\ c.allowed = (t >= 1)
  BY <1>2 DEF Take
<1>5. /\ e.since = a.since /\ e.seen = at /\ e.back = a.back + Minus(a.seen, at)
      /\ e.spent = a.spent + (IF t >= 1 THEN 1 ELSE 0)
  BY <1>4 DEF Charged
<1>6. c.tokens \in 0..Burst /\ e.spent + c.tokens = a.spent + t
  <2> HIDE DEF t, e
  <2> QED BY <1>1, <1>3, <1>4, <1>5 DEF Minus, Whole
<1>7. /\ Rps * (at - a.since + (a.back + Minus(a.seen, at))) = Refill(e)
      /\ Rps * (at - a.since + (a.back + Minus(a.seen, at))) \in Int
  <2>1. at - a.since + (a.back + Minus(a.seen, at)) \in Int
    BY <1>1 DEF Whole
  <2> QED BY <1>5, <2>1, RefillGrows DEF Refill
<1>8. e.spent + d.tokens <= Burst + Refill(e)
  <2> HIDE DEF more, t, e
  <2> DEFINE refilled == Rps * (at - a.since + (a.back + Minus(a.seen, at)))
  <2>1. a.spent + b.tokens + more <= Burst + refilled /\ refilled = Refill(e) /\ refilled \in Int
    BY <1>7 DEF more
  <2> HIDE DEF refilled
  <2> QED BY <1>1, <1>2, <1>3, <1>6, <2>1 DEF more, Whole
<1>9. Whole(e)
  <2>1. a.since \in Int /\ a.spent + (IF t >= 1 THEN 1 ELSE 0) \in Int
        /\ a.back + Minus(a.seen, at) \in Int
    BY <1>1 DEF Whole
  <2> QED BY <1>4, <2>1 DEF Whole, Charged
<1> HIDE DEF e
<1> QED BY <1>4, <1>5, <1>6, <1>8, <1>9 DEF Accounted, Covered, e

\* The three ways a check finds the bucket of an identity: in the map, new
\* (or dropped before and full again), or dropped by this very check.
LEMMA LiveTaken ==
  ASSUME GateConstants, NEW a, Whole(a),
         NEW b, Covered(b, a), NEW at \in Int
  PROVE  a.spent + b.tokens + Rps * Minus(at, b.last)
           <= Burst + Rps * (at - a.since + (a.back + Minus(a.seen, at)))
<1> DEFINE x == a.seen - a.since + a.back
           m == Minus(at, a.seen)
<1>1. x \in Int /\ m \in Int /\ b.last = a.seen /\ Refill(a) = Rps * x
  BY DEF Covered, Minus, Refill, Whole
<1>2. at - a.since + (a.back + Minus(a.seen, at)) = x + m
  BY DEF Minus, Whole
<1>3. Rps * (x + m) = Rps * x + Rps * m /\ Rps * x \in Int /\ Rps * m \in Int
  BY <1>1, RefillGrows
<1>4. a.spent + b.tokens <= Burst + Rps * x /\ b.tokens \in Int /\ Burst \in Int
  BY <1>1, GateNumbers DEF Covered, Whole
<1> HIDE DEF x, m
<1>5. a.spent + b.tokens + Rps * m <= Burst + Rps * (x + m)
  BY <1>3, <1>4 DEF Whole
<1> QED BY <1>1, <1>2, <1>5 DEF m

\* So does a new bucket that takes the place of one that would be full again.
LEMMA FreshTaken ==
  ASSUME GateConstants, NEW a, Whole(a),
         FullAgain(a), NEW at \in Int
  PROVE  a.spent + Burst + Rps * Minus(at, at)
           <= Burst + Rps * (at - a.since + (a.back + Minus(a.seen, at)))
<1> DEFINE x == a.seen - a.since + a.back
           y == at - a.since + (a.back + Minus(a.seen, at))
<1>1. x \in Int /\ y \in Int /\ x <= y /\ Minus(at, at) = 0
  BY MinusType DEF Minus, Whole
<1>2. Rps * x <= Rps * y /\ Rps * x \in Int /\ Rps * y \in Int /\ Rps * 0 = 0
  BY <1>1, RefillGrows
<1>3. a.spent <= Rps * x /\ a.spent \in Int /\ Burst \in Nat
  BY GateNumbers DEF FullAgain, Refill, Whole
<1> HIDE DEF x, y
<1>4. a.spent + Burst + 0 <= Burst + Rps * y
  BY <1>2, <1>3
<1> QED BY <1>1, <1>2, <1>4 DEF y

\* A bucket that idled for longer than EvictAfter would be full again.
LEMMA IdledFull ==
  ASSUME GateConstants, NEW a, Whole(a),
         NEW b, Covered(b, a), NEW at \in Int, Minus(at, b.last) > EvictAfter
  PROVE  /\ a.spent <= Rps * (at - a.since + a.back)
         /\ a.seen < at
<1> DEFINE x == a.seen - a.since + a.back
           n == EvictAfter + 1
           y == at - a.since + a.back
<1>1. /\ a.seen + n <= at /\ n \in Nat \ {0} /\ a.seen < at
  BY GateNumbers DEF Covered, Minus, Whole
<1>2. x \in Int /\ y \in Int /\ x + n <= y
  BY <1>1 DEF Whole
<1>3. /\ Rps * (x + n) = Rps * x + Rps * n /\ Rps * (x + n) <= Rps * y
      /\ Rps * x \in Int /\ Rps * n \in Int /\ Rps * y \in Int
  <2> HIDE DEF x, n, y
  <2>1. n \in Int /\ x + n \in Int /\ Rps \in Int
    BY <1>1, <1>2, GateNumbers
  <2>2. Rps * (x + n) = Rps * x + Rps * n
    BY <1>2, <2>1
  <2>3. Rps * (x + n) <= Rps * y
    BY <1>2, <2>1, RefillGrows
  <2>4. Rps * x \in Int /\ Rps * n \in Int /\ Rps * y \in Int
    BY <1>2, <2>1
  <2> QED BY <2>2, <2>3, <2>4
<1>4. a.spent + b.tokens <= Burst + Rps * x /\ b.tokens \in Nat /\ Burst <= Rps * n
      /\ Burst \in Nat
  BY GateNumbers DEF Covered, Refill, Whole
<1> HIDE DEF x, n, y
<1>5. a.spent <= Rps * y
  BY <1>3, <1>4 DEF Whole
<1> QED BY <1>1, <1>5 DEF y

\* So its identity could as well be a new one.
LEMMA IdledTaken ==
  ASSUME GateConstants, NEW a, Whole(a),
         NEW b, Covered(b, a), NEW at \in Int, Minus(at, b.last) > EvictAfter
  PROVE  a.spent + Burst + Rps * Minus(at, at)
           <= Burst + Rps * (at - a.since + (a.back + Minus(a.seen, at)))
<1> DEFINE y == at - a.since + (a.back + Minus(a.seen, at))
<1>1. a.spent <= Rps * (at - a.since + a.back) /\ a.seen < at
  BY IdledFull
<1>2. Minus(a.seen, at) = 0 /\ Minus(at, at) = 0
  BY <1>1, MinusType DEF Minus, Whole
<1>3. y = at - a.since + a.back /\ y \in Int
  BY <1>2 DEF Whole
<1>4. a.spent <= Rps * y /\ a.spent \in Int
  BY <1>1, <1>3 DEF Whole
<1> HIDE DEF y
<1>5. Rps * y \in Int /\ Rps * 0 = 0 /\ Burst \in Int
  BY <1>3, RefillGrows, GateNumbers
<1>6. a.spent + Burst + 0 <= Burst + Rps * y
  BY <1>4, <1>5
<1> QED BY <1>2, <1>5, <1>6 DEF y

\* Setting a field of an account.
LEMMA SeenSet ==
  ASSUME NEW a, Whole(a), NEW at \in Int
  PROVE  /\ Whole([a EXCEPT !.seen = at]) /\ [a EXCEPT !.seen = at].seen = at
         /\ [a EXCEPT !.seen = at].since = a.since /\ [a EXCEPT !.seen = at].back = a.back
         /\ [a EXCEPT !.seen = at].spent = a.spent
         /\ [a EXCEPT !.seen = a.seen] = a
BY DEF Whole

\* Dropping the idle buckets leaves the others as they were.
LEMMA EvictStaleKeeps ==
  ASSUME NEW bs, NEW at, NEW live, live = EvictStale(bs, at)
  PROVE  /\ DOMAIN live \subseteq DOMAIN bs
         /\ \A j \in DOMAIN live: live[j] = bs[j]
         /\ \A j \in DOMAIN bs \ DOMAIN live: ~(Minus(at, bs[j].last) <= EvictAfter)
BY DEF EvictStale, Restrict

\* So does dropping the one least recently active, which keeps the map within
\* its cap if it was at most one over.
LEMMA EvictOldestKeeps ==
  ASSUME GateConstants, NEW bs, IsFiniteSet(DOMAIN bs),
         Cardinality(DOMAIN bs) <= MaxIdentities + 1,
         NEW left \in EvictOldest(bs)
  PROVE  /\ DOMAIN left \subseteq DOMAIN bs
         /\ \A j \in DOMAIN left: left[j] = bs[j]
         /\ IsFiniteSet(DOMAIN left) /\ Cardinality(DOMAIN left) <= MaxIdentities
<1>1. MaxIdentities \in Nat /\ Cardinality(DOMAIN bs) \in Nat
  BY GateNumbers, FS_CardinalityType
<1>2. CASE Cardinality(DOMAIN bs) <= MaxIdentities
  BY <1>2 DEF EvictOldest
<1>3. CASE ~(Cardinality(DOMAIN bs) <= MaxIdentities)
  <2>1. PICK i \in DOMAIN bs : left = Restrict(bs, DOMAIN bs \ {i})
    BY <1>3 DEF EvictOldest, Oldest
  <2>2. DOMAIN left = DOMAIN bs \ {i} /\ \A j \in DOMAIN left: left[j] = bs[j]
    BY <2>1 DEF Restrict
  <2>3. /\ IsFiniteSet(DOMAIN bs \ {i})
        /\ Cardinality(DOMAIN bs \ {i}) = Cardinality(DOMAIN bs) - 1
    BY FS_RemoveElement
  <2> QED BY <1>1, <2>2, <2>3
<1> QED BY <1>2, <1>3

\* Every bucket knows the instant of its last check.
LEMMA BucketsDated ==
  ASSUME BudgetInv
  PROVE  \A j \in DOMAIN buckets: buckets[j].last \in Int
<1> TAKE j \in DOMAIN buckets
<1>1. Covered(buckets[j], ledger[j]) /\ Whole(ledger[j])
  BY DEF BudgetInv, Accounted
<1> QED BY <1>1 DEF Covered, Whole

\* A check keeps every account within its budget (RateLimiter::check).
LEMMA CheckBudget ==
  ASSUME GateConstants, BudgetInv, time \in Int,
         NEW r \in Requests, req[r].now \in Int, req[r].now <= time, Check(r)
  PROVE  BudgetInv'
<1> DEFINE at == req[r].now
           i == req[r].id
           live == EvictStale(buckets, at)
           b == IF i \in DOMAIN live THEN live[i] ELSE [tokens |-> Burst, last |-> at]
           c == Take(b, at)
           d == [tokens |-> c.tokens, last |-> c.last]
           bs == [j \in DOMAIN live \union {i} |-> IF j = i THEN d ELSE live[j]]
           left == (DOMAIN ledger \union {i}) \ (DOMAIN bs \ DOMAIN buckets')
           old == IF i \in DOMAIN ledger THEN ledger[i]
                  ELSE [since |-> at, spent |-> 0, seen |-> at, back |-> 0]
           Idled(j) == [ledger[j] EXCEPT !.seen = IF j \in DOMAIN buckets \ DOMAIN live
                                                  THEN at ELSE @]
<1>1. /\ buckets' \in EvictOldest(bs) /\ time' = time
      /\ ledger' = [j \in left |-> IF j = i THEN Charged(old, at, c.allowed) ELSE Idled(j)]
  BY DEF Check, Account, Charged
<1>2. /\ DOMAIN live \subseteq DOMAIN buckets
      /\ \A j \in DOMAIN live: live[j] = buckets[j]
      /\ \A j \in DOMAIN buckets \ DOMAIN live: Minus(at, buckets[j].last) > EvictAfter
  <2>1. \A j \in DOMAIN buckets: buckets[j].last \in Int
    BY BucketsDated
  <2>2. \A x \in Int: Minus(at, x) \in Int
    <3>1. at \in Int
      OBVIOUS
    <3> HIDE DEF at
    <3> QED BY <3>1, MinusType
  <2>3. \A x, y \in Int: ~(x <= y) => x > y
    OBVIOUS
  <2>4. EvictAfter \in Int
    BY GateNumbers
  <2> HIDE DEF live, at
  <2>5. live = EvictStale(buckets, at)
    BY DEF live
  <2> QED BY <2>1, <2>2, <2>3, <2>4, <2>5, EvictStaleKeeps
<1> HIDE DEF live
<1>3. /\ DOMAIN bs = DOMAIN live \union {i} /\ IsFiniteSet(DOMAIN bs)
      /\ Cardinality(DOMAIN bs) <= MaxIdentities + 1
  <2>1. DOMAIN bs = DOMAIN live \union {i}
    OBVIOUS
  <2>2. /\ IsFiniteSet(DOMAIN live)
        /\ Cardinality(DOMAIN live) <= Cardinality(DOMAIN buckets)
    BY <1>2, FS_Subset DEF BudgetInv
  <2>3. /\ IsFiniteSet(DOMAIN live \union {i})
        /\ Cardinality(DOMAIN live \union {i}) <= Cardinality(DOMAIN live) + 1
    <3> DEFINE L == DOMAIN live
    <3>1. IsFiniteSet(L) /\ Cardinality(L) \in Nat
      BY <2>2, FS_CardinalityType
    <3> HIDE DEF L
    <3>2. /\ IsFiniteSet(L \union {i})
          /\ Cardinality(L \union {i}) = IF i \in L THEN Cardinality(L) ELSE Cardinality(L) + 1
      BY <3>1, FS_AddElement
    <3>3. IsFiniteSet(L \union {i}) /\ Cardinality(L \union {i}) <= Cardinality(L) + 1
      BY <3>1, <3>2
    <3> QED BY <3>3 DEF L
  <2>4. /\ Cardinality(DOMAIN live) \in Nat /\ Cardinality(DOMAIN buckets) \in Nat
        /\ Cardinality(DOMAIN live \union {i}) \in Nat /\ MaxIdentities \in Nat
    BY <2>2, <2>3, FS_CardinalityType, GateNumbers DEF BudgetInv
  <2> HIDE DEF bs
  <2> QED BY <2>1, <2>2, <2>3, <2>4 DEF BudgetInv
<1>4. /\ DOMAIN buckets' \subseteq DOMAIN bs /\ \A j \in DOMAIN buckets': buckets'[j] = bs[j]
      /\ IsFiniteSet(DOMAIN buckets') /\ Cardinality(DOMAIN buckets') <= MaxIdentities
  <2> HIDE DEF bs
  <2> QED BY <1>1, <1>3, EvictOldestKeeps
<1>5. DOMAIN ledger' = left /\ DOMAIN buckets' \subseteq left
  <2>1. DOMAIN live \subseteq DOMAIN ledger
    BY <1>2 DEF BudgetInv
  <2>2. DOMAIN ledger' = left
    BY <1>1
  <2> HIDE DEF bs
  <2> QED BY <1>3, <1>4, <2>1, <2>2
<1>6. Whole(old)
  BY DEF BudgetInv, Accounted, Whole
<1>7. ASSUME NEW j \in left, j # i
      PROVE  /\ ledger'[j] = Idled(j) /\ j \in DOMAIN ledger
             /\ j \in DOMAIN buckets' <=> j \in DOMAIN live
             /\ j \in DOMAIN buckets' => buckets'[j] = buckets[j]
  <2>1. j \in DOMAIN bs <=> j \in DOMAIN live
    BY <1>3, <1>7
  <2>2. j \in DOMAIN live => bs[j] = buckets[j]
    BY <1>2, <1>7
  <2>3. ledger'[j] = Idled(j)
    BY <1>1, <1>7
  <2> HIDE DEF bs, Idled
  <2> QED BY <1>4, <1>7, <2>1, <2>2, <2>3
<1> HIDE DEF left, bs
<1>8. /\ b.tokens \in 0..Burst /\ b.last \in Int
      /\ old.spent + b.tokens + Rps * Minus(at, b.last)
           <= Burst + Rps * (at - old.since + (old.back + Minus(old.seen, at)))
  <2>1. CASE i \in DOMAIN live
    <3>1. i \in DOMAIN buckets /\ b = buckets[i] /\ old = ledger[i] /\ Covered(b, old)
      BY <1>2, <2>1 DEF BudgetInv
    <3> HIDE DEF b, old
    <3> QED BY <1>6, <3>1, LiveTaken DEF Covered, Whole
  <2>2. CASE i \notin DOMAIN live
    <3>1. b.tokens = Burst /\ b.last = at /\ Burst \in 0..Burst
      BY <2>2, GateNumbers
    <3>2. CASE i \notin DOMAIN buckets
      <4>1. FullAgain(old)
        <5>1. CASE i \in DOMAIN ledger
          BY <3>2, <5>1 DEF BudgetInv
        <5>2. CASE i \notin DOMAIN ledger
          <6>1. old.spent = 0 /\ old.seen - old.since + old.back = 0
            BY <5>2
          <6> HIDE DEF old
          <6> QED BY <6>1, RefillGrows DEF FullAgain, Refill
        <5> QED BY <5>1, <5>2
      <4> HIDE DEF b, old
      <4> QED BY <1>6, <3>1, <4>1, FreshTaken
    <3>3. CASE i \in DOMAIN buckets
      <4>1. Covered(buckets[i], old) /\ Minus(at, buckets[i].last) > EvictAfter
        BY <1>2, <2>2, <3>3 DEF BudgetInv
      <4> HIDE DEF b, old
      <4> QED BY <1>6, <3>1, <4>1, IdledTaken
    <3> QED BY <3>2, <3>3
  <2> QED BY <2>1, <2>2
<1>9. ASSUME i \in left
      PROVE  /\ i \in DOMAIN buckets' /\ Accounted(ledger'[i]) /\ Covered(buckets'[i], ledger'[i])
  <2>1. i \in DOMAIN buckets'
    BY <1>3, <1>9 DEF left
  <2>2. buckets'[i] = d /\ ledger'[i] = Charged(old, at, c.allowed)
    BY <1>1, <1>4, <1>9, <2>1 DEF bs
  <2>3. /\ Accounted(Charged(old, at, c.allowed))
        /\ Covered(d, Charged(old, at, c.allowed))
    <3> HIDE DEF b, old
    <3> QED BY <1>6, <1>8, TakeCovered
  <2> QED BY <1>1, <2>1, <2>2, <2>3 DEF Accounted, Whole, Covered, Refill
<1>10. ASSUME NEW j \in left, j # i
       PROVE  /\ Accounted(ledger'[j])
              /\ j \in DOMAIN buckets' => Covered(buckets'[j], ledger'[j])
              /\ j \notin DOMAIN buckets' => FullAgain(ledger'[j])
  <2>1. Accounted(ledger[j]) /\ ledger'[j] = Idled(j)
    BY <1>7, <1>10 DEF BudgetInv
  <2>2. CASE j \in DOMAIN buckets \ DOMAIN live
    <3> DEFINE a == ledger[j]
    <3>1. Covered(buckets[j], a) /\ Whole(a) /\ ledger'[j] = [a EXCEPT !.seen = at]
      BY <1>7, <1>10, <2>1, <2>2 DEF BudgetInv, Accounted
    <3>2. Minus(at, buckets[j].last) > EvictAfter
      BY <1>2, <2>2
    <3> HIDE DEF a
    <3>3. a.spent <= Rps * (at - a.since + a.back)
      BY <3>1, <3>2, IdledFull
    <3> DEFINE e == [a EXCEPT !.seen = at]
    <3>4. Whole(e) /\ e.seen = at /\ e.since = a.since /\ e.back = a.back /\ e.spent = a.spent
      BY <3>1, SeenSet
    <3> HIDE DEF e
    <3>5. FullAgain(e) /\ Accounted(e)
      BY <3>3, <3>4 DEF FullAgain, Refill, Accounted
    <3> QED BY <1>7, <1>10, <2>2, <3>1, <3>5 DEF e
  <2>3. CASE j \notin DOMAIN buckets \ DOMAIN live
    <3> DEFINE a == ledger[j]
    <3>1. Whole(a) /\ ledger'[j] = [a EXCEPT !.seen = a.seen]
      BY <2>1, <2>3 DEF Accounted
    <3> HIDE DEF a
    <3>2. ledger'[j] = a
      BY <3>1, SeenSet
    <3> QED BY <1>2, <1>7, <1>10, <2>1, <2>3, <3>2 DEF BudgetInv, a
  <2> QED BY <2>2, <2>3
<1>11. /\ \A j \in DOMAIN ledger': Accounted(ledger'[j])
       /\ \A j \in DOMAIN buckets': Covered(buckets'[j], ledger'[j])
       /\ \A j \in DOMAIN ledger' \ DOMAIN buckets': FullAgain(ledger'[j])
  BY <1>5, <1>9, <1>10
<1>12. \A x : Accounted(x) => Accounted(x)'
  BY <1>1 DEF Accounted, Whole
<1> QED BY <1>1, <1>4, <1>5, <1>11, <1>12 DEF BudgetInv, Covered, FullAgain, Refill, Accounted, Whole

\* Every step keeps the accounts within their budgets.
LEMMA BudgetStep ==
  ASSUME GateConstants, GateInv, BudgetInv, [Next]_vars
  PROVE  BudgetInv'
<1>1. time \in Nat
  BY DEF GateInv, StoreGood
<1>2. CASE UNCHANGED <<buckets, ledger>> /\ time' \in Int /\ time <= time'
  BY <1>1, <1>2 DEF BudgetInv, Accounted, Whole, Covered, FullAgain, Refill
<1>3. ASSUME NEW r \in Requests, Check(r)
      PROVE  BudgetInv'
  <2>1. req[r].now \in Int /\ req[r].now <= time
    BY <1>1 DEF GateInv, CallersGood, Admitted
  <2> QED BY <1>1, <1>3, <2>1, CheckBudget
<1>4. CASE Boot \/ Serve \/ Tick \/ UNCHANGED vars \/ \E g \in 0..2 : Rotate(g)
  BY <1>1, <1>2, <1>4 DEF Boot, Serve, Tick, Rotate, vars, gateVars
<1>5. ASSUME NEW r, Arrive(r) \/ Authenticate(r) \/ Respond(r) \/ HangUp(r)
      PROVE  BudgetInv'
  <2>1. UNCHANGED <<time, buckets, ledger>>
    BY <1>5 DEF Arrive, Authenticate, Respond, HangUp
  <2> QED BY <1>1, <1>2, <2>1
<1>6. ASSUME NEW n, RunJob(n)
      PROVE  BudgetInv'
  BY <1>1, <1>2, <1>6 DEF RunJob
<1>7. ASSUME NEW r, NEW t, CallTool(r, t)
      PROVE  BudgetInv'
  <2>1. UNCHANGED <<time, buckets, ledger>>
    BY <1>7 DEF CallTool
  <2> QED BY <1>1, <1>2, <2>1
<1> QED BY <1>3, <1>4, <1>5, <1>6, <1>7 DEF Next

\* An account within its budget has spent no more than one burst and the
\* refill of the time since it was opened and set back by.
LEMMA BudgetEnough ==
  ASSUME GateConstants, BudgetInv, time \in Nat
  PROVE  BudgetHolds
<1>1. ASSUME NEW i \in DOMAIN ledger
      PROVE  ledger[i].spent <= Burst + Rps * (time - ledger[i].since + ledger[i].back)
  <2> DEFINE a == ledger[i]
             x == a.seen - a.since + a.back
             y == time - a.since + a.back
  <2>1. /\ a.spent \in Int /\ x \in Int /\ y \in Int /\ x <= y
    BY DEF BudgetInv, Accounted, Whole
  <2>2. Rps * x <= Rps * y /\ Rps * x \in Int /\ Rps * y \in Int /\ Burst \in Nat
    BY <2>1, RefillGrows, GateNumbers
  <2>3. a.spent <= Burst + Rps * x
    <3>1. CASE i \in DOMAIN buckets
      <4>1. Covered(buckets[i], a)
        BY <3>1 DEF BudgetInv
      <4>2. buckets[i].tokens \in Nat /\ a.spent + buckets[i].tokens <= Burst + Rps * x
        BY <2>2, <4>1 DEF Covered, Refill
      <4> HIDE DEF a, x
      <4> QED BY <2>1, <2>2, <4>2
    <3>2. CASE i \notin DOMAIN buckets
      <4>1. a.spent <= Rps * x
        BY <3>2 DEF BudgetInv, FullAgain, Refill
      <4> HIDE DEF a, x
      <4> QED BY <2>1, <2>2, <4>1
    <3> QED BY <3>1, <3>2
  <2> HIDE DEF a, x, y
  <2>4. a.spent <= Burst + Rps * y
    BY <2>1, <2>2, <2>3
  <2> QED BY <2>4 DEF a, y
<1> QED BY <1>1 DEF BudgetHolds, BudgetInv

\* Whatever the clients do and however checks interleave, no identity spends
\* more than its burst and its refill, and the map stays within its cap.
THEOREM BudgetSound == Spec => []BudgetHolds
<1>1. Init => GateInv /\ BudgetInv
  <2>1. IsFiniteSet({}) /\ Cardinality({}) = 0 /\ MaxIdentities >= 0
    BY FS_EmptySet, GateAssumption, GateNumbers
  <2> QED BY <2>1, GateAssumption, GateInit DEF Init, BudgetInv
<1>2. GateInv /\ BudgetInv /\ [Next]_vars => (GateInv /\ BudgetInv)'
  BY GateAssumption, GateStep, BudgetStep
<1>3. GateInv /\ BudgetInv => BudgetHolds
  BY GateAssumption, BudgetEnough DEF GateInv, StoreGood
<1> QED BY <1>1, <1>2, <1>3, PTL DEF Spec

-----------------------------------------------------------------------------
(* The helper processes *)

RunnerPcs == {"start", "spawn", "wait", "join", "join_err", "writer", "done", "panicked"}
Refusals == {"ArgConstraint", "Sanitize", "NotWhitelisted", "Path"}
Endings == {"none", "output", "failed", "timed_out", "spawn_failed"} \union Refusals
Capped(n) == IF n > MaxStdout THEN MaxStdout ELSE n

RunnerTyped ==
  /\ call \in Calls
  /\ pc \in RunnerPcs
  /\ attempt \in Nat /\ now \in Nat /\ since \in Nat
  /\ child \in {"none", "running", "exited", "killed"}
  /\ code \in {0, 1}
  /\ unread \in [Streams -> {0, 1}]
  /\ kept \in [Streams -> Nat] /\ written \in [Streams -> Nat]
  /\ feed \in Nat
  /\ dir \in BOOLEAN
  /\ result \in [outcome: Endings, out: Nat, err: Nat]

\* A child runs while its handler waits for it and at no other time; who has
\* stopped waiting has seen it exit or has killed it.
ChildAt ==
  /\ pc \in {"start", "spawn"} => child = "none"
  /\ child = "running" => pc = "wait"
  /\ pc = "wait" => child \in {"running", "exited"}
  /\ pc \in {"join", "join_err"} => child = "exited"
  /\ pc = "writer" => child \in {"exited", "killed"} /\ Kind = "feed"
  /\ pc \in {"wait", "join", "join_err"} => result.outcome = "none"
  /\ pc \in {"start", "spawn", "writer", "panicked"} => result.outcome = "none"
  /\ pc \in {"join", "join_err"} => Kind # "feed"
  /\ pc = "join_err" => Kind # "probe"

\* Only a capture has a scratch directory, and it is gone once the call is over
\* unless the whitelist refused it.
DirAt ==
  /\ dir => Kind = "exec"
  /\ pc \in {"done", "panicked"} => ~dir \/ Refused

\* The clock stands until the child is there; from then on no timer is overrun.
TimeAt ==
  /\ since <= now
  /\ pc \in {"start", "spawn"} => now = 0
  /\ pc \in {"wait", "join", "join_err"} /\ Kind = "exec" => now <= Outer
  /\ pc = "wait" => since = 0 /\ now <= Budget[Kind]
  /\ pc = "join" => since <= Budget[Kind] /\ now <= since + Join
  /\ pc = "join_err" => since <= Budget[Kind] + Join /\ now <= since + Join
  /\ pc = "writer" /\ ~call.daemon => now <= Budget[Kind]

\* A drainer holds what was written and is no longer in the pipe, up to the cap.
PipesAt ==
  /\ \A s \in Streams: unread[s] <= written[s] /\ kept[s] = Capped(written[s] - unread[s])
  /\ \A s \in Streams \ Piped: written[s] = 0
  /\ child = "none" => orphan = {}
  /\ ~call.daemon => orphan = {}

\* Without a process left behind, output that waits at the end of the child is
\* read before the clock moves; what is joined first is then complete.
JoinAt ==
  ~call.daemon =>
    /\ \A s \in Streams: pc \in {"join", "join_err"} /\ unread[s] > 0 => now = since
    /\ pc = "join_err" => result.out = Capped(written["out"])

RunnerInv ==
  /\ RunnerTyped /\ ChildAt /\ DirAt /\ TimeAt /\ PipesAt /\ JoinAt
  /\ OutputWhole

\* The kinds of calls and what the drainers keep are what they are named.
LEMMA RunnerKinds ==
  ASSUME RunnerConstants, RunnerTyped
  PROVE  /\ Kind \in Kinds /\ call.daemon \in BOOLEAN
         /\ Budget[Kind] \in Nat /\ Outer \in Nat /\ Join \in Nat /\ Join > 0
         /\ MaxStdout \in Nat /\ MaxOutput \in Nat /\ Input \in Nat
         /\ Piped \subseteq Streams
         /\ Kind = "feed" => Piped = {}
         /\ Kind = "probe" => Piped = {"out"}
         /\ Kind \in {"exec", "helper"} => Piped = Streams
  BY DEF RunnerConstants, RunnerTyped, Kind, Kinds, Piped, Streams

\* validate_command says "ok" or names a class of refusal.
LEMMA VerdictTyped ==
  ASSUME NEW l, NEW out
  PROVE  ValidateCommand(l, out)
           \in {"ok"} \union Refusals
  BY DEF ValidateCommand, Refusals

\* An answer that is only an outcome has no output.
LEMMA OutcomeTyped ==
  ASSUME NEW o \in Endings
  PROVE  /\ Outcome(o) \in [outcome: Endings, out: Nat, err: Nat]
         /\ Outcome(o).outcome = o
  BY DEF Outcome, NoResult

\* A call starts with its child, or is refused; only a capture gets a directory.
LEMMA StartEffect ==
  ASSUME Start
  PROVE  /\ pc = "start"
         /\ \/ pc' = "spawn" /\ result' = result
            \/ \E o \in Refusals: pc' = "done" /\ result' = Outcome(o)
         /\ \/ dir' = dir
            \/ dir' \in BOOLEAN /\ Kind = "exec"
         /\ UNCHANGED <<call, attempt, now, since, procVars, pipeVars, feed>>
<1> DEFINE out == call.cmd \in {"grim", "scrot"}
           verdict == ValidateCommand(call, out)
<1>1. verdict \in {"ok"} \union Refusals /\ out \in BOOLEAN
  BY VerdictTyped
<1>2. CASE Kind # "exec"
  <2>1. /\ pc = "start" /\ pc' = "spawn" /\ UNCHANGED <<dir, result>>
        /\ UNCHANGED <<call, attempt, now, since, procVars, pipeVars, feed>>
    BY <1>2 DEF Start
  <2> QED BY <2>1
<1>3. CASE Kind = "exec"
  <2>1. /\ pc = "start" /\ dir' = out
        /\ IF verdict = "ok" THEN pc' = "spawn" /\ UNCHANGED result
                             ELSE pc' = "done" /\ result' = Outcome(verdict)
        /\ UNCHANGED <<call, attempt, now, since, procVars, pipeVars, feed>>
    BY <1>3 DEF Start, AnswerCall
  <2> HIDE DEF out, verdict
  <2> QED BY <1>1, <1>3, <2>1
<1> QED BY <1>2, <1>3

\* A failed spawn or a time-out ends the call; its answer is not cut.
LEMMA EndsEarly ==
  ASSUME NEW o \in {"spawn_failed", "timed_out"}, Finish(Outcome(o), TRUE)
  PROVE  /\ pc' = "done" /\ dir' = FALSE
         /\ result' \in [outcome: Endings, out: Nat, err: Nat] /\ result'.outcome = o
<1>1. o \in Endings /\ o # "output"
  BY DEF Endings
<1> QED BY <1>1, OutcomeTyped DEF Finish, AnswerCall

\* A child that has been waited for is answered with its output, unless the
\* output is cut inside a character.
LEMMA EndsWithOutput ==
  ASSUME NEW r \in [outcome: Endings, out: Nat, err: Nat], NEW aligned \in BOOLEAN,
         r.outcome = "output", Finish(r, aligned)
  PROVE  /\ dir' = FALSE
         /\ \/ pc' = "done" /\ result' = r
            \/ pc' = "panicked" /\ result' = result
  BY DEF Finish, AnswerCall

\* What a join yields is a number of buffers, and all of them once the stream
\* has ended.
LEMMA JoinYields ==
  ASSUME RunnerTyped, NEW s \in Streams, NEW n \in Joined(s)
  PROVE  /\ n \in Nat
         /\ AtEnd(s) => n = kept[s]
         /\ ~AtEnd(s) => Due(Join)
<1>1. kept[s] \in Nat
  BY DEF RunnerTyped
<1> QED BY <1>1 DEF Joined

\* A call that starts has no child yet; if it is refused it is over.
LEMMA StartStep ==
  ASSUME RunnerConstants, RunnerInv, Start
  PROVE  RunnerInv'
<1> USE RunnerKinds DEF RunnerInv
<1>1. /\ pc = "start" /\ ((pc' = "spawn" /\ result' = result) \/ pc' = "done")
      /\ pc' = "done" => /\ result' \in [outcome: Endings, out: Nat, err: Nat]
                         /\ result'.outcome \in Refusals
  BY StartEffect, OutcomeTyped DEF Endings
<1>2. RunnerTyped'
  BY <1>1, StartEffect
     DEF RunnerTyped, RunnerPcs, ChildAt, procVars, pipeVars, Endings, Refusals
<1>3. ChildAt'
  BY <1>1, StartEffect DEF ChildAt, Kind, procVars, pipeVars, Refusals
<1>4. DirAt'
  BY <1>1, StartEffect DEF ChildAt, DirAt, Refused, Kind, procVars, pipeVars, Refusals
<1>5. TimeAt'
  BY <1>1, StartEffect DEF TimeAt, RunnerTyped, Kind, procVars, pipeVars
<1>6. PipesAt'
  BY <1>1, StartEffect DEF PipesAt, Piped, Kind, procVars, pipeVars
<1>7. JoinAt'
  BY <1>1, StartEffect DEF JoinAt, RunnerTyped, procVars, pipeVars
<1>8. OutputWhole'
  BY <1>1, StartEffect DEF OutputWhole, ChildAt, Over, Kind, procVars, pipeVars, Refusals
<1> QED BY <1>2, <1>3, <1>4, <1>5, <1>6, <1>7, <1>8 DEF RunnerInv

\* The child is there, or the spawn is tried again, or it is given up.
LEMMA SpawnStep ==
  ASSUME RunnerConstants, RunnerInv, Spawn
  PROVE  RunnerInv'
<1> USE RunnerKinds DEF RunnerInv
<1>1. Finish(Outcome("spawn_failed"), TRUE) =>
        /\ pc' = "done" /\ dir' = FALSE
        /\ result' \in [outcome: Endings, out: Nat, err: Nat]
        /\ result'.outcome = "spawn_failed"
  BY EndsEarly
<1>2. /\ pc = "spawn" /\ UNCHANGED <<call, now, code, orphan, unread, kept, written>>
      /\ \/ /\ child' = "running" /\ pc' = "wait" /\ since' = now /\ feed' \in Nat
            /\ UNCHANGED <<attempt, dir, result>>
         \/ /\ attempt' \in Nat
            /\ UNCHANGED <<pc, child, since, feed, dir, result>>
         \/ /\ pc' = "done" /\ dir' = FALSE
            /\ result' \in [outcome: Endings, out: Nat, err: Nat]
            /\ result'.outcome = "spawn_failed"
            /\ UNCHANGED <<attempt, child, since, feed>>
  <2>1. Input \in Nat /\ attempt + 1 \in Nat
    BY DEF RunnerTyped
  <2>2. pc = "spawn" /\ UNCHANGED <<call, now, code, orphan, unread, kept, written>>
    BY DEF Spawn, pipeVars
  <2>3. CASE Finish(Outcome("spawn_failed"), TRUE) /\ UNCHANGED <<attempt, child, since, feed>>
    BY <1>1, <2>2, <2>3
  <2>4. CASE attempt' = attempt + 1 /\ UNCHANGED <<pc, child, since, feed, dir, result>>
    BY <2>1, <2>2, <2>4
  <2>5. CASE /\ child' = "running" /\ pc' = "wait" /\ since' = now
             /\ feed' = IF Kind = "feed" THEN Input ELSE 0
             /\ UNCHANGED <<attempt, dir, result>>
    BY <2>1, <2>2, <2>5
  <2> QED BY <2>3, <2>4, <2>5 DEF Spawn
<1>3. RunnerTyped'
  BY <1>2 DEF RunnerTyped, RunnerPcs, ChildAt
<1>4. ChildAt'
  BY <1>2 DEF ChildAt, Kind
<1>5. DirAt'
  BY <1>2 DEF ChildAt, DirAt, Refused, Kind
<1>6. TimeAt'
  BY <1>2 DEF TimeAt, RunnerTyped, Kind
<1>7. PipesAt'
  BY <1>2 DEF PipesAt, Piped, Kind
<1>8. JoinAt'
  BY <1>2 DEF JoinAt, RunnerTyped
<1>9. OutputWhole'
  BY <1>2 DEF OutputWhole, ChildAt, Over, Kind
<1> QED BY <1>3, <1>4, <1>5, <1>6, <1>7, <1>8, <1>9 DEF RunnerInv

\* The wait has taken its time-out, no more, and leaves no child.
LEMMA WaitExpiresStep ==
  ASSUME RunnerConstants, RunnerInv, WaitExpires
  PROVE  RunnerInv'
<1> USE RunnerKinds DEF RunnerInv
<1>1. Finish(Outcome("timed_out"), TRUE) =>
        /\ pc' = "done" /\ dir' = FALSE
        /\ result' \in [outcome: Endings, out: Nat, err: Nat]
        /\ result'.outcome = "timed_out"
  BY EndsEarly
<1>2. /\ pc = "wait" /\ now - since >= Budget[Kind] /\ since' = now
      /\ child' = IF child = "running" THEN "killed" ELSE child
      /\ \/ Kind = "feed" /\ pc' = "writer" /\ UNCHANGED <<dir, result>>
         \/ /\ Kind # "feed" /\ pc' = "done" /\ dir' = FALSE
            /\ result' \in [outcome: Endings, out: Nat, err: Nat]
            /\ result'.outcome = "timed_out"
      /\ UNCHANGED <<call, attempt, now, code, orphan, unread, kept, written, feed>>
  BY <1>1 DEF WaitExpires, Kill, Due, pipeVars
<1>3. RunnerTyped'
  BY <1>2 DEF RunnerTyped, RunnerPcs, ChildAt
<1>4. ChildAt'
  BY <1>2 DEF ChildAt, Kind
<1>5. DirAt'
  BY <1>2 DEF ChildAt, DirAt, Refused, Kind
<1>6. TimeAt'
  BY <1>2 DEF TimeAt, RunnerTyped, Kind
<1>7. PipesAt'
  BY <1>2 DEF PipesAt, Piped, Kind
<1>8. JoinAt'
  BY <1>2 DEF JoinAt, RunnerTyped
<1>9. OutputWhole'
  BY <1>2 DEF OutputWhole, ChildAt, Over, Kind
<1> QED BY <1>3, <1>4, <1>5, <1>6, <1>7, <1>8, <1>9 DEF RunnerInv

\* Of a child alone all of stdout is joined, and within the join's time-out.
LEMMA JoinStdoutStep ==
  ASSUME RunnerConstants, RunnerInv, JoinStdout
  PROVE  RunnerInv'
<1> USE RunnerKinds DEF RunnerInv
<1>1. PICK n \in Joined("out"):
        IF "err" \in Piped
        THEN pc' = "join_err" /\ result' = [result EXCEPT !.out = n] /\ UNCHANGED dir
        ELSE Finish([outcome |-> "output", out |-> n, err |-> 0], TRUE)
  BY DEF JoinStdout
<1>2. "out" \in Streams /\ "err" \in Streams
  BY DEF Streams
<1>3. n \in Nat /\ (AtEnd("out") => n = kept["out"]) /\ (~AtEnd("out") => Due(Join))
  BY <1>1, <1>2, JoinYields
<1>4. "err" \notin Piped =>
        /\ dir' = FALSE
        /\ \/ pc' = "done" /\ result' = [outcome |-> "output", out |-> n, err |-> 0]
           \/ pc' = "panicked" /\ result' = result
  BY <1>1, <1>3, EndsWithOutput DEF Endings
<1>5. "err" \in Piped => /\ pc' = "join_err" /\ dir' = dir
                        /\ result' \in [outcome: Endings, out: Nat, err: Nat]
                        /\ result'.outcome = result.outcome /\ result'.out = n
  BY <1>1, <1>3 DEF RunnerTyped
<1>6. [outcome |-> "output", out |-> n, err |-> 0] \in [outcome: Endings, out: Nat, err: Nat]
  BY <1>3 DEF Endings
<1>7. /\ result' \in [outcome: Endings, out: Nat, err: Nat]
      /\ pc' \in RunnerPcs /\ dir' \in BOOLEAN
  BY <1>4, <1>5, <1>6 DEF RunnerTyped, RunnerPcs
<1>8. RunnerTyped'
  BY <1>7 DEF RunnerTyped, JoinStdout, procVars, pipeVars
<1>9. ChildAt'
  BY <1>2, <1>3, <1>4, <1>5 DEF ChildAt, Kind, JoinStdout, procVars, pipeVars
<1>10. DirAt'
  BY <1>2, <1>3, <1>4, <1>5
     DEF ChildAt, DirAt, Refused, Kind, JoinStdout, procVars, pipeVars
<1>11. TimeAt'
  BY <1>2, <1>3, <1>4, <1>5
     DEF TimeAt, RunnerTyped, Kind, JoinStdout, procVars, pipeVars, Due
<1>12. PipesAt'
  BY <1>2, <1>3, <1>4, <1>5 DEF PipesAt, Piped, Kind, JoinStdout, procVars, pipeVars
<1>13. JoinAt'
  BY <1>2, <1>3, <1>4, <1>5
     DEF JoinAt, RunnerTyped, JoinStdout, procVars, pipeVars, AtEnd, Due, PipesAt, ChildAt
<1>14. OutputWhole'
  BY <1>2, <1>3, <1>4, <1>5
     DEF OutputWhole, ChildAt, Over, Kind, JoinStdout, procVars, pipeVars, AtEnd, Due,
     PipesAt, ChildAt, JoinAt, Capped, Streams, TimeAt, RunnerTyped
<1> QED BY <1>8, <1>9, <1>10, <1>11, <1>12, <1>13, <1>14 DEF RunnerInv

\* Of a child alone all of stderr is joined too, and within its time-out.
LEMMA JoinStderrStep ==
  ASSUME RunnerConstants, RunnerInv, JoinStderr
  PROVE  RunnerInv'
<1> USE RunnerKinds DEF RunnerInv
<1>1. PICK n \in Joined("err"), aligned \in BOOLEAN:
        Finish([result EXCEPT !.outcome = "output", !.err = n], aligned)
  BY DEF JoinStderr
<1> DEFINE r == [result EXCEPT !.outcome = "output", !.err = n]
<1>2. "out" \in Streams /\ "err" \in Streams
  BY DEF Streams
<1>3. n \in Nat /\ (AtEnd("err") => n = kept["err"]) /\ (~AtEnd("err") => Due(Join))
  BY <1>1, <1>2, JoinYields
<1>4. /\ r \in [outcome: Endings, out: Nat, err: Nat]
      /\ r.outcome = "output" /\ r.out = result.out /\ r.err = n
  BY <1>3 DEF RunnerTyped, Endings
<1>5. Finish(r, aligned)
  BY <1>1
<1> HIDE DEF r
<1>6. /\ dir' = FALSE
      /\ \/ pc' = "done" /\ result' = r
         \/ pc' = "panicked" /\ result' = result
  BY <1>4, <1>5, EndsWithOutput
<1>7. RunnerTyped'
  BY <1>2, <1>3, <1>4, <1>6
     DEF RunnerTyped, RunnerPcs, ChildAt, JoinStderr, procVars, pipeVars
<1>8. ChildAt'
  BY <1>2, <1>3, <1>4, <1>6 DEF ChildAt, Kind, JoinStderr, procVars, pipeVars
<1>9. DirAt'
  BY <1>2, <1>3, <1>4, <1>6
     DEF ChildAt, DirAt, Refused, Kind, JoinStderr, procVars, pipeVars
<1>10. TimeAt'
  BY <1>2, <1>3, <1>4, <1>6
     DEF TimeAt, RunnerTyped, Kind, JoinStderr, procVars, pipeVars, Due
<1>11. PipesAt'
  BY <1>2, <1>3, <1>4, <1>6 DEF PipesAt, Piped, Kind, JoinStderr, procVars, pipeVars
<1>12. JoinAt'
  BY <1>2, <1>3, <1>4, <1>6
     DEF JoinAt, RunnerTyped, JoinStderr, procVars, pipeVars, AtEnd, Due, PipesAt, ChildAt
<1>13. OutputWhole'
  BY <1>2, <1>3, <1>4, <1>6
     DEF OutputWhole, ChildAt, Over, Kind, JoinStderr, procVars, pipeVars, AtEnd, Due,
     PipesAt, ChildAt, JoinAt, Capped, Streams, TimeAt, RunnerTyped
<1> QED BY <1>7, <1>8, <1>9, <1>10, <1>11, <1>12, <1>13 DEF RunnerInv

\* The outer time-out ends the call and the child.
LEMMA OuterExpiresStep ==
  ASSUME RunnerConstants, RunnerInv, OuterExpires
  PROVE  RunnerInv'
<1> USE RunnerKinds DEF RunnerInv
<1>1. Finish(Outcome("timed_out"), TRUE) =>
        /\ pc' = "done" /\ dir' = FALSE
        /\ result' \in [outcome: Endings, out: Nat, err: Nat]
        /\ result'.outcome = "timed_out"
  BY EndsEarly
<1>2. RunnerTyped'
  BY <1>1 DEF RunnerTyped, RunnerPcs, ChildAt, OuterExpires, Kill, pipeVars
<1>3. ChildAt'
  BY <1>1 DEF ChildAt, Kind, OuterExpires, Kill, pipeVars
<1>4. DirAt'
  BY <1>1 DEF ChildAt, DirAt, Refused, Kind, OuterExpires, Kill, pipeVars
<1>5. TimeAt'
  BY <1>1 DEF TimeAt, RunnerTyped, Kind, OuterExpires, Kill, pipeVars
<1>6. PipesAt'
  BY <1>1 DEF PipesAt, Piped, Kind, OuterExpires, Kill, pipeVars
<1>7. JoinAt'
  BY <1>1 DEF JoinAt, RunnerTyped, OuterExpires, Kill, pipeVars
<1>8. OutputWhole'
  BY <1>1 DEF OutputWhole, ChildAt, Over, Kind, OuterExpires, Kill, pipeVars
<1> QED BY <1>2, <1>3, <1>4, <1>5, <1>6, <1>7, <1>8 DEF RunnerInv

\* Output is written by a running child or by what it left behind, never by a
\* child alone that has exited.
LEMMA WriteStep ==
  ASSUME RunnerConstants, RunnerInv, NEW s \in Streams, Write(s)
  PROVE  RunnerInv'
<1> USE RunnerKinds DEF RunnerInv
<1>1. RunnerTyped'
  BY DEF RunnerTyped, Write, procVars
<1>2. ChildAt'
  BY DEF ChildAt, Kind, Write, procVars
<1>3. DirAt'
  BY DEF DirAt, Refused, Kind, Write, procVars
<1>4. TimeAt'
  BY DEF TimeAt, Kind, Write, procVars
<1>5. PipesAt'
  BY DEF PipesAt, Piped, Kind, Write, procVars, RunnerTyped, Capped
<1>6. JoinAt'
  BY DEF JoinAt, Write, procVars, ChildAt, PipesAt, RunnerTyped
<1>7. OutputWhole'
  BY DEF OutputWhole, Over, Kind, Write, procVars, ChildAt, PipesAt
<1> QED BY <1>1, <1>2, <1>3, <1>4, <1>5, <1>6, <1>7 DEF RunnerInv

\* A drainer takes what is in the pipe, and keeps it up to the cap.
LEMMA DrainStep ==
  ASSUME RunnerConstants, RunnerInv, NEW s \in Streams, Drain(s)
  PROVE  RunnerInv'
<1> USE RunnerKinds DEF RunnerInv
<1>1. RunnerTyped'
  BY DEF RunnerTyped, Drain, procVars, RunnerTyped
<1>2. ChildAt'
  BY DEF ChildAt, Kind, Drain, procVars
<1>3. DirAt'
  BY DEF DirAt, Refused, Kind, Drain, procVars
<1>4. TimeAt'
  BY DEF TimeAt, Kind, Drain, procVars
<1>5. PipesAt'
  BY DEF PipesAt, Piped, Kind, Drain, procVars, RunnerTyped, Capped
<1>6. JoinAt'
  BY DEF JoinAt, Drain, procVars, RunnerTyped
<1>7. OutputWhole'
  BY DEF OutputWhole, Over, Kind, Drain, procVars
<1> QED BY <1>1, <1>2, <1>3, <1>4, <1>5, <1>6, <1>7 DEF RunnerInv

\* A child reads its input.
LEMMA ChildReadsStep ==
  ASSUME RunnerConstants, RunnerInv, ChildReads
  PROVE  RunnerInv'
<1> USE RunnerKinds DEF RunnerInv
<1>1. RunnerTyped'
  BY DEF RunnerTyped, ChildReads, procVars, pipeVars
<1>2. ChildAt'
  BY DEF ChildAt, Kind, ChildReads, procVars, pipeVars
<1>3. DirAt'
  BY DEF DirAt, Refused, Kind, ChildReads, procVars, pipeVars
<1>4. TimeAt'
  BY DEF TimeAt, Kind, ChildReads, procVars, pipeVars
<1>5. PipesAt'
  BY DEF PipesAt, Piped, Kind, ChildReads, procVars, pipeVars
<1>6. JoinAt'
  BY DEF JoinAt, ChildReads, procVars, pipeVars
<1>7. OutputWhole'
  BY DEF OutputWhole, Over, Kind, ChildReads, procVars, pipeVars
<1> QED BY <1>1, <1>2, <1>3, <1>4, <1>5, <1>6, <1>7 DEF RunnerInv

\* Only a child that may leaves a process behind.
LEMMA DaemonizeStep ==
  ASSUME RunnerConstants, RunnerInv, Daemonize
  PROVE  RunnerInv'
<1> USE RunnerKinds DEF RunnerInv
<1>1. RunnerTyped'
  BY DEF RunnerTyped, Daemonize, pipeVars
<1>2. ChildAt'
  BY DEF ChildAt, Kind, Daemonize, pipeVars
<1>3. DirAt'
  BY DEF DirAt, Refused, Kind, Daemonize, pipeVars
<1>4. TimeAt'
  BY DEF TimeAt, Kind, Daemonize, pipeVars
<1>5. PipesAt'
  BY DEF PipesAt, Piped, Kind, Daemonize, pipeVars
<1>6. JoinAt'
  BY DEF JoinAt, Daemonize, pipeVars
<1>7. OutputWhole'
  BY DEF OutputWhole, Over, Kind, Daemonize, pipeVars, ChildAt
<1> QED BY <1>1, <1>2, <1>3, <1>4, <1>5, <1>6, <1>7 DEF RunnerInv

\* A child exits while it is waited for.
LEMMA ChildExitsStep ==
  ASSUME RunnerConstants, RunnerInv, ChildExits
  PROVE  RunnerInv'
<1> USE RunnerKinds DEF RunnerInv
<1>1. RunnerTyped'
  BY DEF RunnerTyped, ChildExits, pipeVars
<1>2. ChildAt'
  BY DEF ChildAt, Kind, ChildExits, pipeVars
<1>3. DirAt'
  BY DEF DirAt, Refused, Kind, ChildExits, pipeVars
<1>4. TimeAt'
  BY DEF TimeAt, Kind, ChildExits, pipeVars
<1>5. PipesAt'
  BY DEF PipesAt, Piped, Kind, ChildExits, pipeVars
<1>6. JoinAt'
  BY DEF JoinAt, ChildExits, pipeVars
<1>7. OutputWhole'
  BY DEF OutputWhole, Over, Kind, ChildExits, pipeVars, ChildAt
<1> QED BY <1>1, <1>2, <1>3, <1>4, <1>5, <1>6, <1>7 DEF RunnerInv

\* What a child left behind exits.
LEMMA OrphanExitsStep ==
  ASSUME RunnerConstants, RunnerInv, OrphanExits
  PROVE  RunnerInv'
<1> USE RunnerKinds DEF RunnerInv
<1>1. RunnerTyped'
  BY DEF RunnerTyped, OrphanExits, pipeVars
<1>2. ChildAt'
  BY DEF ChildAt, Kind, OrphanExits, pipeVars
<1>3. DirAt'
  BY DEF DirAt, Refused, Kind, OrphanExits, pipeVars
<1>4. TimeAt'
  BY DEF TimeAt, Kind, OrphanExits, pipeVars
<1>5. PipesAt'
  BY DEF PipesAt, Piped, Kind, OrphanExits, pipeVars
<1>6. JoinAt'
  BY DEF JoinAt, OrphanExits, pipeVars
<1>7. OutputWhole'
  BY DEF OutputWhole, Over, Kind, OrphanExits, pipeVars
<1> QED BY <1>1, <1>2, <1>3, <1>4, <1>5, <1>6, <1>7 DEF RunnerInv

\* The wait ends with the child, within its time-out.
LEMMA WaitReturnsStep ==
  ASSUME RunnerConstants, RunnerInv, WaitReturns
  PROVE  RunnerInv'
<1> USE RunnerKinds DEF RunnerInv
<1>1. RunnerTyped'
  BY DEF RunnerTyped, WaitReturns, procVars, pipeVars, RunnerPcs
<1>2. ChildAt'
  BY DEF ChildAt, Kind, WaitReturns, procVars, pipeVars
<1>3. DirAt'
  BY DEF DirAt, Refused, Kind, WaitReturns, procVars, pipeVars
<1>4. TimeAt'
  BY DEF TimeAt, Kind, WaitReturns, procVars, pipeVars, RunnerTyped, ChildAt
<1>5. PipesAt'
  BY DEF PipesAt, Piped, Kind, WaitReturns, procVars, pipeVars
<1>6. JoinAt'
  BY DEF JoinAt, WaitReturns, procVars, pipeVars
<1>7. OutputWhole'
  BY DEF OutputWhole, Over, Kind, WaitReturns, procVars, pipeVars, ChildAt
<1> QED BY <1>1, <1>2, <1>3, <1>4, <1>5, <1>6, <1>7 DEF RunnerInv

\* A fed call ends when its input is taken.
LEMMA WriterJoinedStep ==
  ASSUME RunnerConstants, RunnerInv, WriterJoined
  PROVE  RunnerInv'
<1> USE RunnerKinds DEF RunnerInv
<1>1. pc = "writer" /\ pc' = "done" /\ ~dir /\ child \in {"exited", "killed"}
  BY DEF WriterJoined, AnswerCall, ChildAt, DirAt
<1>2. PICK o \in {"timed_out", "output", "failed"}:
        result' = Outcome(o) /\ (o = "output" => child = "exited")
  BY <1>1 DEF WriterJoined, AnswerCall, RunnerTyped
<1>3. /\ result' \in [outcome: Endings, out: Nat, err: Nat]
      /\ result'.outcome = "output" => child = "exited"
  BY <1>2, OutcomeTyped DEF Endings
<1>4. RunnerTyped'
  BY <1>1, <1>3 DEF RunnerTyped, WriterJoined, AnswerCall, procVars, pipeVars, RunnerPcs
<1>5. ChildAt'
  BY DEF ChildAt, Kind, WriterJoined, AnswerCall, procVars, pipeVars
<1>6. DirAt'
  BY <1>1 DEF DirAt, Refused, Kind, WriterJoined, AnswerCall, procVars, pipeVars
<1>7. TimeAt'
  BY DEF TimeAt, Kind, WriterJoined, AnswerCall, procVars, pipeVars
<1>8. PipesAt'
  BY DEF PipesAt, Piped, Kind, WriterJoined, AnswerCall, procVars, pipeVars
<1>9. JoinAt'
  BY DEF JoinAt, WriterJoined, AnswerCall, procVars, pipeVars
<1>10. OutputWhole'
  BY <1>1, <1>3
     DEF ChildAt, OutputWhole, Over, Kind, WriterJoined, AnswerCall, procVars, pipeVars
<1> QED BY <1>4, <1>5, <1>6, <1>7, <1>8, <1>9, <1>10 DEF RunnerInv

\* The clock moves past no timer, and past no output in a pipe.
LEMMA RunnerTickStep ==
  ASSUME RunnerConstants, RunnerInv, RunnerTick
  PROVE  RunnerInv'
<1> USE RunnerKinds DEF RunnerInv
<1>1. RunnerTyped'
  BY DEF RunnerTyped, RunnerTick, TimerDue, OuterDue, Due, procVars, pipeVars
<1>2. ChildAt'
  BY DEF ChildAt, Kind, RunnerTick, TimerDue, OuterDue, Due, procVars, pipeVars
<1>3. DirAt'
  BY DEF DirAt, Refused, Kind, RunnerTick, TimerDue, OuterDue, Due, procVars, pipeVars
<1>4. TimeAt'
  BY DEF TimeAt, Kind, RunnerTick, TimerDue, OuterDue, Due, procVars, pipeVars, Fed,
         RunnerTyped, PipesAt, ChildAt
<1>5. PipesAt'
  BY DEF PipesAt, Piped, Kind, RunnerTick, TimerDue, OuterDue, Due, procVars, pipeVars
<1>6. JoinAt'
  BY DEF JoinAt, RunnerTick, TimerDue, OuterDue, Due, procVars, pipeVars, RunnerTyped
<1>7. OutputWhole'
  BY DEF OutputWhole, Over, Kind, RunnerTick, TimerDue, OuterDue, Due, procVars, pipeVars
<1> QED BY <1>1, <1>2, <1>3, <1>4, <1>5, <1>6, <1>7 DEF RunnerInv

\* A call begins with nothing done.
LEMMA RunnerStarts ==
  ASSUME RunnerConstants, RunnerInit
  PROVE  RunnerInv
<1>1. RunnerTyped
  BY DEF RunnerInit, RunnerTyped, RunnerPcs, NoResult, Endings, Streams
<1>2. ChildAt /\ DirAt /\ TimeAt /\ PipesAt /\ JoinAt /\ OutputWhole
  BY <1>1, RunnerKinds
     DEF RunnerInit, ChildAt, DirAt, TimeAt, PipesAt, JoinAt, OutputWhole, NoResult, Capped,
         Over
<1> QED BY <1>1, <1>2 DEF RunnerInv

\* Every step of the call, its child, the pipes and the clock keeps the invariant.
LEMMA RunnerStep ==
  ASSUME RunnerConstants, RunnerInv, [RunnerNext]_runnerVars
  PROVE  RunnerInv'
<1>1. CASE UNCHANGED runnerVars
  BY <1>1
     DEF runnerVars, procVars, pipeVars, RunnerInv, RunnerTyped, ChildAt, DirAt, TimeAt,
     PipesAt, JoinAt, OutputWhole, Kind, Over, Refused, Piped
<1>2. CASE RunnerNext
  BY <1>2, StartStep, SpawnStep, WriteStep, DrainStep, ChildReadsStep, DaemonizeStep,
     ChildExitsStep, OrphanExitsStep, WaitReturnsStep, WaitExpiresStep, JoinStdoutStep,
     JoinStderrStep, WriterJoinedStep, OuterExpiresStep, RunnerTickStep DEF RunnerNext
<1> QED BY <1>1, <1>2

\* Every call has its deadline: no wait outlasts the timers that bound it.
LEMMA RunnerBounded ==
  ASSUME RunnerConstants, RunnerInv
  PROVE  HelpersContained
<1> USE RunnerKinds DEF RunnerInv
<1>1. NothingLeftBehind
  BY DEF NothingLeftBehind, Over, ChildAt, DirAt
<1>2. WaitBounded
  BY DEF WaitBounded, Over, Deadline, TimeAt, ChildAt, RunnerTyped, RunnerPcs, Kind, Kinds
<1> QED BY <1>1, <1>2 DEF HelpersContained

\* A helper process leaves nothing behind once its call is over, no wait outlasts its
\* timers, and what a call answers is all a child alone has written (tools/commands.rs
\* and the helpers of providers/, whichever way the child, its pipes and the clock go).
THEOREM HelpersSound == RunnerSpec => []HelpersContained
<1>1. RunnerInit => RunnerInv
  BY RunnerAssumption, RunnerStarts
<1>2. RunnerInv /\ [RunnerNext]_runnerVars => RunnerInv'
  BY RunnerAssumption, RunnerStep
<1>3. RunnerInv => HelpersContained
  BY RunnerAssumption, RunnerBounded
<1> QED BY <1>1, <1>2, <1>3, PTL DEF RunnerSpec


-----------------------------------------------------------------------------
(* The metrics: the inductive invariant.                                   *)

Histograms == [buckets: [DOMAIN Bounds -> Nat], sum: Int, count: Nat]
Registries ==
  [calls: [Tools \X Outcomes -> Nat], durations: [Tools -> Histograms],
   rejected: [{"auth", "rate_limit"} -> Nat], failures: Nat, size: Nat]
MetricsSteps == {"idle", "append", "measure", "gauge", "refused"}
MetricsType ==
  /\ series \in Registries
  /\ history \in Nat /\ doing \in [Callers -> [pc: MetricsSteps, length: Nat]]
  /\ ended \in [Tools -> Nat] /\ lengths \in SUBSET Nat

\* Every call that ended is counted once, by an outcome and in the histogram.
CallsCounted ==
  \A t \in Tools : Counted(t) = ended[t] /\ series.durations[t].count = ended[t]
\* A call is in one bucket at most.
BucketsCounted ==
  \A t \in Tools : \A i \in DOMAIN Bounds :
    Cumulative(series.durations[t], i) <= series.durations[t].count
\* The refused credentials that are not failures yet are those being counted.
Rejected == {c \in Callers : doing[c].pc = "refused"}
RefusalsCounted == series.rejected["auth"] - series.failures = Cardinality(Rejected)
\* The gauge shows, and the calls that will set it hold, a length the history had.
GaugeSeen ==
  /\ series.size \in lengths /\ 0 \in lengths
  /\ \A c \in Callers : /\ doing[c].pc = "measure" => history \in lengths
                        /\ doing[c].pc = "gauge" => doing[c].length \in lengths

MetricsInv ==
  MetricsType /\ CallsCounted /\ BucketsCounted /\ RefusalsCounted /\ GaugeSeen

-----------------------------------------------------------------------------
(* Sums over the buckets and the outcomes.                                 *)

\* The buckets of one tool and the outcomes of its calls are finitely many.
LEMMA FinitelyMany ==
  ASSUME MetricsAssumption
  PROVE  /\ \A t : IsFiniteSet({t} \X Outcomes)
         /\ Len(Bounds) \in Nat /\ DOMAIN Bounds = 1..Len(Bounds)
         /\ \A i \in Nat : IsFiniteSet(1..i)
<1>1. ASSUME NEW t PROVE IsFiniteSet({t} \X Outcomes)
  <2>1. IsFiniteSet({t}) /\ IsFiniteSet(Outcomes)
    BY FS_Singleton DEF MetricsAssumption
  <2> QED BY <2>1, FS_Product
<1>2. Len(Bounds) \in Nat /\ DOMAIN Bounds = 1..Len(Bounds)
  BY DEF MetricsAssumption
<1>3. \A i \in Nat : IsFiniteSet(1..i)
  BY FS_Interval
<1> QED BY <1>1, <1>2, <1>3

\* The bucket a duration falls into is one of the buckets.
LEMMA BucketIsOne ==
  ASSUME MetricsAssumption, NEW secs \in Durations, BucketOf(secs) # {}
  PROVE  Min(BucketOf(secs)) \in DOMAIN Bounds
<1>1. BucketOf(secs) \in SUBSET Nat
  BY FinitelyMany DEF BucketOf
<1>2. Min(BucketOf(secs)) \in BucketOf(secs)
  BY <1>1, MinProperties
<1> QED BY <1>2 DEF BucketOf

\* An observation adds one call, to one bucket at most.
LEMMA ObserveOne ==
  ASSUME MetricsAssumption, NEW h \in Histograms, NEW secs \in Durations
  PROVE  /\ Observe(h, secs) \in Histograms /\ Observe(h, secs).count = h.count + 1
         /\ \A i \in DOMAIN Bounds :
              Cumulative(Observe(h, secs), i) <= Cumulative(h, i) + 1
<1> DEFINE g == Observe(h, secs)
           hit == Min(BucketOf(secs))
<1>1. /\ g = [buckets |-> g.buckets, sum |-> h.sum + secs, count |-> h.count + 1]
      /\ DOMAIN g.buckets = DOMAIN Bounds
      /\ g.buckets = [i \in DOMAIN Bounds |-> g.buckets[i]]
      /\ \A i \in DOMAIN Bounds :
           g.buckets[i] = IF BucketOf(secs) # {} /\ i = hit THEN h.buckets[i] + 1
                                                           ELSE h.buckets[i]
  <2>1. h = [buckets |-> h.buckets, sum |-> h.sum, count |-> h.count]
        /\ DOMAIN h.buckets = DOMAIN Bounds
    BY DEF Histograms
  <2>2. g = [buckets |-> [i \in DOMAIN Bounds |->
                             IF BucketOf(secs) # {} /\ i = hit THEN h.buckets[i] + 1
                                                               ELSE h.buckets[i]],
             sum |-> h.sum + secs, count |-> h.count + 1]
    <3> DEFINE b == [i \in DOMAIN Bounds |->
                       IF BucketOf(secs) # {} /\ i = hit THEN h.buckets[i] + 1
                                                         ELSE h.buckets[i]]
    <3>1. g = [h EXCEPT !.sum = h.sum + secs, !.count = h.count + 1, !.buckets = b]
      BY <2>1 DEF Observe
    <3> HIDE DEF b, g
    <3>2. g = [buckets |-> b, sum |-> h.sum + secs, count |-> h.count + 1]
      BY <2>1, <3>1
    <3> QED BY <3>2 DEF b
  <2> HIDE DEF g, hit
  <2> QED BY <2>2
<1>2. secs \in Int
  BY DEF MetricsAssumption
<1> HIDE DEF g, hit
<1>3. \A i \in DOMAIN Bounds : h.buckets[i] \in Nat /\ h.buckets[i] \in Int
  BY DEF Histograms
<1>4. g \in Histograms
  <2>1. g.buckets \in [DOMAIN Bounds -> Nat]
    BY <1>1, <1>3
  <2> QED BY <1>1, <1>2, <2>1 DEF Histograms
<1>5. ASSUME NEW i \in DOMAIN Bounds PROVE Cumulative(g, i) <= Cumulative(h, i) + 1
  <2> DEFINE before == SumFunctionOnSet(h.buckets, 1..i)
             after == SumFunctionOnSet(g.buckets, 1..i)
  <2>1. /\ i \in Nat /\ IsFiniteSet(1..i) /\ \A j \in 1..i : j \in DOMAIN Bounds
        /\ \A j \in 1..i : h.buckets[j] \in Int
    <3>1. i \in Nat /\ \A j \in 1..i : j \in DOMAIN Bounds
      BY FinitelyMany
    <3> QED BY <1>3, <3>1, FinitelyMany
  <2>2. before \in Int
    BY <2>1, SumProperties
  <2>3. CASE BucketOf(secs) # {} /\ hit \in 1..i
    <3>1. g.buckets[hit] = h.buckets[hit] + 1
      BY <1>1, <2>1, <2>3
    <3>2. \A j \in (1..i) \ {hit} : g.buckets[j] = h.buckets[j]
      BY <1>1, <2>1
    <3>3. after = before + 1
      BY <2>1, <2>3, <3>1, <3>2, SumPlusOne
    <3> HIDE DEF after, before
    <3>4. after <= before + 1
      BY <2>2, <3>3
    <3> QED BY <3>4 DEF Cumulative, after, before
  <2>4. CASE ~(BucketOf(secs) # {} /\ hit \in 1..i)
    <3>1. \A j \in 1..i : g.buckets[j] = h.buckets[j]
      BY <1>1, <2>1, <2>4
    <3>2. after = before
      BY <2>1, <3>1, SumProperties
    <3> HIDE DEF after, before
    <3>3. after <= before + 1
      BY <2>2, <3>2
    <3> QED BY <3>3 DEF Cumulative, after, before
  <2> QED BY <2>3, <2>4
<1>6. g.count = h.count + 1
  BY <1>1
<1> QED BY <1>4, <1>5, <1>6 DEF g

\* A histogram is cumulative.
LEMMA BucketsCumulative ==
  ASSUME MetricsAssumption, NEW h \in Histograms, NEW i \in DOMAIN Bounds
  PROVE  Cumulative(h, i) \in Int /\ (i > 1 => Cumulative(h, i - 1) <= Cumulative(h, i))
<1>1. i \in Nat /\ \A j \in 1..i : h.buckets[j] \in Nat /\ h.buckets[j] \in Int
  BY FinitelyMany DEF Histograms
<1>2. Cumulative(h, i) \in Int
  BY <1>1, FinitelyMany, SumProperties DEF Cumulative
<1>3. ASSUME i > 1 PROVE Cumulative(h, i - 1) <= Cumulative(h, i)
  <2> DEFINE n == i - 1
             below == SumFunctionOnSet(h.buckets, 1..n)
             upto == SumFunctionOnSet(h.buckets, 1..(n + 1))
  <2>1. n \in Nat /\ n + 1 = i
    BY <1>1, <1>3
  <2> HIDE DEF n
  <2>2. \A j \in 1..(n + 1) : h.buckets[j] \in Nat
    BY <1>1, <2>1
  <2>3. below \in Int /\ upto = h.buckets[n + 1] + below
    BY <2>1, <2>2, SumUpTo
  <2> HIDE DEF below, upto
  <2>4. h.buckets[n + 1] \in Nat
    BY <2>1, <2>2
  <2>5. below <= upto
    BY <2>3, <2>4
  <2> QED BY <2>1, <2>5 DEF Cumulative, below, upto, n
<1> QED BY <1>2, <1>3

-----------------------------------------------------------------------------
(* The steps.                                                              *)

\* The registry's counts of calls depend on its two tables only.
LEMMA CountsKept ==
  ASSUME CallsCounted, BucketsCounted, series'.calls = series.calls,
         series'.durations = series.durations, UNCHANGED ended
  PROVE  CallsCounted' /\ BucketsCounted'
BY DEF CallsCounted, BucketsCounted, Counted, Cumulative

\* The credentials being refused are as many as they were while nobody's changes.
LEMMA RefusalsKept ==
  ASSUME RefusalsCounted, \A c \in Callers : (doing'[c].pc = "refused") <=> (doing[c].pc = "refused"),
         series'.rejected["auth"] = series.rejected["auth"],
         series'.failures = series.failures
  PROVE  RefusalsCounted'
<1>1. Rejected' = Rejected
  BY DEF Rejected
<1> QED BY <1>1 DEF RefusalsCounted

\* A new process has counted nothing.
Restarted ==
  /\ series = Fresh /\ ended = [t \in Tools |-> 0] /\ lengths = {0} /\ history \in Nat
  /\ doing = [c \in Callers |-> Resting]
LEMMA FreshCounted ==
  ASSUME MetricsAssumption
  PROVE  Restarted => MetricsInv
<1> SUFFICES ASSUME Restarted PROVE MetricsInv
  OBVIOUS
<1> USE DEF Restarted
<1>1. NoDurations \in Histograms
  BY DEF NoDurations, Histograms
<1>2. MetricsType
  <2>1. Resting \in [pc: MetricsSteps, length: Nat]
    BY DEF Resting, MetricsSteps
  <2>2. Fresh \in Registries
    <3> HIDE DEF NoDurations
    <3> QED BY <1>1 DEF Fresh, Registries
  <2> QED BY <2>1, <2>2 DEF MetricsType
<1>3. CallsCounted
  <2> SUFFICES ASSUME NEW t \in Tools
               PROVE  Counted(t) = 0 /\ series.durations[t].count = 0 /\ ended[t] = 0
    BY DEF CallsCounted
  <2>1. \A k \in {t} \X Outcomes : series.calls[k] = 0
    BY DEF Fresh
  <2>2. Counted(t) = 0
    BY <2>1, FinitelyMany, SumOfZeros DEF Counted
  <2>3. series.durations[t].count = 0
    BY DEF Fresh, NoDurations
  <2> QED BY <2>2, <2>3
<1>4. BucketsCounted
  <2> SUFFICES ASSUME NEW t \in Tools, NEW i \in DOMAIN Bounds
               PROVE  Cumulative(series.durations[t], i) = 0 /\ series.durations[t].count = 0
    BY DEF BucketsCounted
  <2>1. series.durations[t] = NoDurations
    BY DEF Fresh
  <2>2. i \in Nat /\ \A j \in 1..i : j \in DOMAIN Bounds
    BY FinitelyMany
  <2>3. \A j \in 1..i : NoDurations.buckets[j] = 0
    BY <2>2 DEF NoDurations
  <2>4. Cumulative(NoDurations, i) = 0
    BY <2>2, <2>3, FinitelyMany, SumOfZeros DEF Cumulative
  <2>5. NoDurations.count = 0
    BY DEF NoDurations
  <2> QED BY <2>1, <2>4, <2>5
<1>5. RefusalsCounted
  <2>1. Rejected = {}
    BY DEF Rejected, Resting
  <2>2. series.rejected["auth"] = 0 /\ series.failures = 0
    BY DEF Fresh
  <2> QED BY <2>1, <2>2, FS_EmptySet DEF RefusalsCounted
<1>6. GaugeSeen
  BY DEF GaugeSeen, Fresh, Resting
<1> QED BY <1>2, <1>3, <1>4, <1>5, <1>6 DEF MetricsInv

\* A call that ends is counted under its outcome and in its histogram.
LEMMA EndCounts ==
  ASSUME MetricsAssumption, MetricsInv, NEW c \in Callers, NEW t \in Tools,
         NEW secs \in Durations, NEW o \in Outcomes, End(c, t, secs, o)
  PROVE  MetricsInv'
<1> DEFINE key == <<t, o>>
           more == Observe(series.durations[t], secs)
<1>1. /\ series.calls \in [Tools \X Outcomes -> Nat]
      /\ series.durations \in [Tools -> Histograms] /\ series.durations[t] \in Histograms
      /\ key \in Tools \X Outcomes
  BY DEF MetricsInv, MetricsType, Registries
<1>2. more \in Histograms /\ more.count = series.durations[t].count + 1
      /\ \A i \in DOMAIN Bounds :
           Cumulative(more, i) <= Cumulative(series.durations[t], i) + 1
  BY <1>1, ObserveOne
<1>3. /\ series' = [series EXCEPT !.calls = series'.calls, !.durations = series'.durations]
      /\ series'.calls = [series.calls EXCEPT ![key] = @ + 1]
      /\ series'.durations = [series.durations EXCEPT ![t] = more]
      /\ ended' = [ended EXCEPT ![t] = @ + 1]
  BY DEF End, RecordCall, MetricsInv, MetricsType, Registries
<1> HIDE DEF key, more
<1>4. /\ \E next \in {"append", "idle"} :
           doing' = [doing EXCEPT ![c] = [pc |-> next, length |-> 0]]
      /\ doing[c].pc = "idle" /\ UNCHANGED <<history, lengths>>
  BY DEF End, Goto, Free
<1>5. MetricsType'
  <2>1. series'.calls \in [Tools \X Outcomes -> Nat]
    BY <1>1, <1>3
  <2>2. series'.durations \in [Tools -> Histograms]
    BY <1>1, <1>2, <1>3
  <2>3. series' \in Registries
    BY <1>3, <2>1, <2>2 DEF MetricsInv, MetricsType, Registries
  <2>4. ended' \in [Tools -> Nat]
    BY <1>3 DEF MetricsInv, MetricsType
  <2>5. doing' \in [Callers -> [pc: MetricsSteps, length: Nat]]
    BY <1>4 DEF MetricsInv, MetricsType, MetricsSteps
  <2> QED BY <1>4, <2>3, <2>4, <2>5 DEF MetricsInv, MetricsType
<1>6. CallsCounted'
  <2> SUFFICES ASSUME NEW u \in Tools
               PROVE  Counted(u)' = ended'[u] /\ series'.durations[u].count = ended'[u]
    BY DEF CallsCounted
  <2>1. /\ Counted(u) = ended[u] /\ series.durations[u].count = ended[u] /\ ended[u] \in Nat
    BY DEF MetricsInv, CallsCounted, MetricsType
  <2>2. IsFiniteSet({u} \X Outcomes) /\ \A k \in {u} \X Outcomes : series.calls[k] \in Int
    <3>1. \A k \in {u} \X Outcomes : k \in Tools \X Outcomes
      OBVIOUS
    <3>2. \A k \in Tools \X Outcomes : series.calls[k] \in Int
      BY <1>1
    <3> QED BY <3>1, <3>2, FinitelyMany
  <2>3. CASE u = t
    <3>1. key \in {u} \X Outcomes /\ series'.calls[key] = series.calls[key] + 1
      BY <1>1, <1>3, <2>3 DEF key
    <3>2. \A k \in ({u} \X Outcomes) \ {key} : series'.calls[k] = series.calls[k]
      BY <1>1, <1>3
    <3>3. Counted(u)' = Counted(u) + 1
      BY <2>2, <3>1, <3>2, SumPlusOne DEF Counted
    <3>4. series'.durations[u].count = ended[u] + 1
      BY <1>1, <1>2, <1>3, <2>1, <2>3
    <3>5. ended'[u] = ended[u] + 1
      BY <1>3, <2>3 DEF MetricsInv, MetricsType
    <3> QED BY <2>1, <3>3, <3>4, <3>5
  <2>4. CASE u # t
    <3>1. \A k \in {u} \X Outcomes : series'.calls[k] = series.calls[k]
      BY <1>1, <1>3, <2>4 DEF key
    <3>2. Counted(u)' = Counted(u)
      BY <2>2, <3>1, SumProperties DEF Counted
    <3>3. series'.durations[u] = series.durations[u] /\ ended'[u] = ended[u]
      BY <1>1, <1>3, <2>4 DEF MetricsInv, MetricsType
    <3> QED BY <2>1, <3>2, <3>3
  <2> QED BY <2>3, <2>4
<1>7. BucketsCounted'
  <2> SUFFICES ASSUME NEW u \in Tools, NEW i \in DOMAIN Bounds
               PROVE  Cumulative(series'.durations[u], i) <= series'.durations[u].count
    BY DEF BucketsCounted, Cumulative
  <2>1. Cumulative(series.durations[u], i) <= series.durations[u].count
    BY DEF MetricsInv, BucketsCounted
  <2>2. CASE u = t
    <3> DEFINE old == Cumulative(series.durations[t], i)
               new == Cumulative(more, i)
    <3>1. old \in Int /\ new \in Int
      BY <1>1, <1>2, BucketsCumulative
    <3>2. new <= old + 1 /\ old <= series.durations[t].count
      BY <1>2, <2>1, <2>2
    <3>3. series.durations[t].count \in Nat
      BY <1>1 DEF Histograms
    <3> HIDE DEF old, new
    <3>4. new <= more.count
      <4> DEFINE was == series.durations[t].count
                 is == more.count
      <4>1. is = was + 1 /\ was \in Nat /\ old <= was
        BY <1>2, <3>2, <3>3
      <4> HIDE DEF was, is
      <4>2. new <= is
        BY <3>1, <3>2, <4>1
      <4> QED BY <4>2 DEF is
    <3>5. series'.durations[u] = more
      BY <1>1, <1>3, <2>2
    <3> QED BY <3>4, <3>5 DEF new
  <2>3. CASE u # t
    <3>1. series'.durations[u] = series.durations[u]
      BY <1>1, <1>3, <2>3
    <3> QED BY <2>1, <3>1
  <2> QED BY <2>2, <2>3
<1>8. RefusalsCounted'
  <2>1. \A d \in Callers : (doing'[d].pc = "refused") <=> (doing[d].pc = "refused")
    BY <1>4 DEF MetricsInv, MetricsType
  <2>2. series'.rejected = series.rejected /\ series'.failures = series.failures
    BY <1>3 DEF MetricsInv, MetricsType, Registries
  <2> QED BY <2>1, <2>2, RefusalsKept DEF MetricsInv
<1>9. GaugeSeen'
  <2>1. series'.size = series.size
    BY <1>3 DEF MetricsInv, MetricsType, Registries
  <2> QED BY <1>4, <2>1 DEF MetricsInv, MetricsType, GaugeSeen
<1> QED BY <1>5, <1>6, <1>7, <1>8, <1>9 DEF MetricsInv

\* What a caller does to the history and the gauge leaves the counts alone.
LEMMA GaugeStep ==
  ASSUME MetricsAssumption, MetricsInv, NEW c \in Callers,
         AppendRecord(c) \/ Measure(c) \/ Gauge(c) \/ Clear(c)
  PROVE  MetricsInv'
<1>1. /\ UNCHANGED ended
      /\ series' = [series EXCEPT !.size = series'.size]
      /\ series'.size \in {series.size} \union {doing[c].length}
      /\ series'.size # series.size => doing[c].pc = "gauge"
  BY DEF AppendRecord, Measure, Gauge, Clear, SetSize, MetricsInv, MetricsType, Registries
<1>2. PICK to \in {"idle", "measure", "gauge"}, n \in Nat :
        /\ doing' = [doing EXCEPT ![c] = [pc |-> to, length |-> n]]
        /\ doing[c].pc # "refused"
        /\ history' \in Nat /\ lengths' \in SUBSET Nat /\ lengths \subseteq lengths'
        /\ history' = history \/ history' \in lengths'
        /\ to = "measure" => history' \in lengths'
        /\ to = "gauge" => n \in lengths'
  <2>1. history \in Nat /\ Cap \in Nat /\ lengths \in SUBSET Nat /\ 0 \in lengths
    BY DEF MetricsInv, MetricsType, GaugeSeen, MetricsAssumption
  <2>2. CASE AppendRecord(c)
    <3>1. CASE /\ history' = IF history = Cap THEN Cap ELSE history + 1
               /\ lengths' = lengths \union {history'} /\ Goto(c, "measure", 0)
      <4>1. history' \in Nat
        BY <2>1, <3>1
      <4>2. doing' = [doing EXCEPT ![c] = [pc |-> "measure", length |-> 0]]
            /\ doing[c].pc # "refused"
        BY <2>2, <3>1 DEF AppendRecord, Goto
      <4> WITNESS "measure" \in {"idle", "measure", "gauge"}
      <4> WITNESS 0 \in Nat
      <4> QED BY <2>1, <3>1, <4>1, <4>2
    <3>2. CASE Goto(c, "idle", 0) /\ UNCHANGED <<history, lengths>>
      BY <2>1, <2>2, <3>2 DEF AppendRecord, Goto
    <3> QED BY <2>2, <3>1, <3>2 DEF AppendRecord
  <2>3. CASE Measure(c)
    BY <2>1, <2>3 DEF Measure, Goto, MetricsInv, GaugeSeen
  <2>4. CASE Gauge(c)
    BY <2>1, <2>4 DEF Gauge, Goto
  <2>5. CASE Clear(c)
    BY <2>1, <2>5 DEF Clear, Goto, Free
  <2> QED BY <2>2, <2>3, <2>4, <2>5
<1>3. /\ series'.calls = series.calls /\ series'.durations = series.durations
      /\ series'.rejected = series.rejected /\ series'.failures = series.failures
  BY <1>1 DEF MetricsInv, MetricsType, Registries
<1>4. MetricsType'
  <2>1. series'.size \in Nat
    BY <1>1 DEF MetricsInv, MetricsType, Registries
  <2>2. series' \in Registries
    BY <1>1, <2>1 DEF MetricsInv, MetricsType, Registries
  <2>3. doing' \in [Callers -> [pc: MetricsSteps, length: Nat]]
    BY <1>2 DEF MetricsInv, MetricsType, MetricsSteps
  <2> QED BY <1>1, <1>2, <2>2, <2>3 DEF MetricsInv, MetricsType
<1>5. CallsCounted' /\ BucketsCounted'
  BY <1>1, <1>3, CountsKept DEF MetricsInv
<1>6. RefusalsCounted'
  <2>1. \A d \in Callers : (doing'[d].pc = "refused") <=> (doing[d].pc = "refused")
    BY <1>2 DEF MetricsInv, MetricsType
  <2> QED BY <1>3, <2>1, RefusalsKept DEF MetricsInv
<1>7. GaugeSeen'
  <2>1. series'.size \in lengths' /\ 0 \in lengths'
    BY <1>1, <1>2 DEF MetricsInv, GaugeSeen
  <2>2. ASSUME NEW d \in Callers
        PROVE  /\ doing'[d].pc = "measure" => history' \in lengths'
               /\ doing'[d].pc = "gauge" => doing'[d].length \in lengths'
    <3>1. doing'[d] = IF d = c THEN [pc |-> to, length |-> n] ELSE doing[d]
      BY <1>2 DEF MetricsInv, MetricsType
    <3>2. /\ doing[d].pc = "measure" => history \in lengths
          /\ doing[d].pc = "gauge" => doing[d].length \in lengths
      BY DEF MetricsInv, GaugeSeen
    <3>3. CASE d = c
      BY <1>2, <3>1, <3>3
    <3>4. CASE d # c
      BY <1>2, <3>1, <3>2, <3>4
    <3> QED BY <3>3, <3>4
  <2> QED BY <2>1, <2>2 DEF GaugeSeen
<1> QED BY <1>4, <1>5, <1>6, <1>7 DEF MetricsInv

\* A refused credential is a refusal at once and a failure in the next step.
LEMMA RefusalStep ==
  ASSUME MetricsAssumption, MetricsInv, NEW c \in Callers,
         RejectAuth(c) \/ CountFailure(c) \/ RejectRate(c)
  PROVE  MetricsInv'
<1>1. /\ series' = [series EXCEPT !.rejected = series'.rejected, !.failures = series'.failures]
      /\ series'.rejected \in [{"auth", "rate_limit"} -> Nat] /\ series'.failures \in Nat
      /\ UNCHANGED <<history, ended, lengths>>
  <2>1. /\ series \in Registries /\ series.rejected \in [{"auth", "rate_limit"} -> Nat]
        /\ series.failures \in Nat
    BY DEF MetricsInv, MetricsType, Registries
  <2>2. CASE RejectAuth(c)
    <3> DEFINE r == [series.rejected EXCEPT !["auth"] = @ + 1]
    <3>1. r \in [{"auth", "rate_limit"} -> Nat] /\ UNCHANGED <<history, ended, lengths>>
      BY <2>1, <2>2 DEF RejectAuth
    <3>2. series' = [series EXCEPT !.rejected = r]
      BY <2>1, <2>2 DEF RejectAuth
    <3> HIDE DEF r
    <3> QED BY <2>1, <3>1, <3>2 DEF Registries
  <2>3. CASE CountFailure(c)
    <3> DEFINE n == series.failures + 1
    <3>1. n \in Nat /\ UNCHANGED <<history, ended, lengths>>
      BY <2>1, <2>3 DEF CountFailure
    <3>2. series' = [series EXCEPT !.failures = n]
      BY <2>3 DEF CountFailure
    <3> HIDE DEF n
    <3> QED BY <2>1, <3>1, <3>2 DEF Registries
  <2>4. CASE RejectRate(c)
    <3> DEFINE r == [series.rejected EXCEPT !["rate_limit"] = @ + 1]
    <3>1. r \in [{"auth", "rate_limit"} -> Nat] /\ UNCHANGED <<history, ended, lengths>>
      BY <2>1, <2>4 DEF RejectRate
    <3>2. series' = [series EXCEPT !.rejected = r]
      BY <2>1, <2>4 DEF RejectRate
    <3> HIDE DEF r
    <3> QED BY <2>1, <3>1, <3>2 DEF Registries
  <2> QED BY <2>2, <2>3, <2>4
<1>2. /\ series'.calls = series.calls /\ series'.durations = series.durations
      /\ series'.size = series.size
  BY <1>1 DEF MetricsInv, MetricsType, Registries
<1>3. doing' = doing \/ \E to \in {"idle", "refused"} :
                           doing' = [doing EXCEPT ![c] = [pc |-> to, length |-> 0]]
  BY DEF RejectAuth, CountFailure, RejectRate, Goto
<1>4. MetricsType'
  <2>1. series' \in Registries
    BY <1>1 DEF MetricsInv, MetricsType, Registries
  <2>2. doing' \in [Callers -> [pc: MetricsSteps, length: Nat]]
    <3>1. doing \in [Callers -> [pc: MetricsSteps, length: Nat]]
          /\ \A to \in {"idle", "refused"} :
               [pc |-> to, length |-> 0] \in [pc: MetricsSteps, length: Nat]
      BY DEF MetricsInv, MetricsType, MetricsSteps
    <3> QED BY <1>3, <3>1
  <2> QED BY <1>1, <2>1, <2>2 DEF MetricsInv, MetricsType
<1>5. CallsCounted' /\ BucketsCounted'
  BY <1>1, <1>2, CountsKept DEF MetricsInv
<1>6. RefusalsCounted'
  <2>1. /\ IsFiniteSet(Rejected) /\ Cardinality(Rejected) \in Nat
    <3>1. IsFiniteSet(Callers) /\ Rejected \in SUBSET Callers
      BY DEF MetricsAssumption, Rejected
    <3> QED BY <3>1, FS_Subset, FS_CardinalityType
  <2>2. /\ series.rejected["auth"] \in Nat /\ series.failures \in Nat
        /\ series.rejected["auth"] - series.failures = Cardinality(Rejected)
    BY DEF MetricsInv, MetricsType, Registries, RefusalsCounted
  <2>3. CASE RejectAuth(c)
    <3>1. Rejected' = Rejected \union {c} /\ c \notin Rejected
      BY <2>3 DEF RejectAuth, Goto, Free, Rejected, MetricsInv, MetricsType
    <3>2. /\ series'.rejected["auth"] = series.rejected["auth"] + 1
          /\ series'.failures = series.failures
      BY <2>3 DEF RejectAuth, MetricsInv, MetricsType, Registries
    <3>3. Cardinality(Rejected') = Cardinality(Rejected) + 1
      BY <2>1, <3>1, FS_AddElement
    <3> QED BY <2>1, <2>2, <3>2, <3>3 DEF RefusalsCounted
  <2>4. CASE CountFailure(c)
    <3>1. Rejected' = Rejected \ {c} /\ c \in Rejected
      BY <2>4 DEF CountFailure, Goto, Rejected, MetricsInv, MetricsType
    <3>2. /\ series'.rejected["auth"] = series.rejected["auth"]
          /\ series'.failures = series.failures + 1
      BY <2>4 DEF CountFailure, MetricsInv, MetricsType, Registries
    <3>3. Cardinality(Rejected') = Cardinality(Rejected) - 1
      BY <2>1, <3>1, FS_RemoveElement
    <3> QED BY <2>1, <2>2, <3>2, <3>3 DEF RefusalsCounted
  <2>5. CASE RejectRate(c)
    <3>1. /\ series'.rejected["auth"] = series.rejected["auth"]
          /\ series'.failures = series.failures /\ doing' = doing
      BY <2>5 DEF RejectRate, MetricsInv, MetricsType, Registries
    <3> QED BY <3>1, RefusalsKept DEF MetricsInv
  <2> QED BY <2>3, <2>4, <2>5
<1>7. GaugeSeen'
  BY <1>1, <1>2, <1>3 DEF MetricsInv, MetricsType, GaugeSeen
<1> QED BY <1>4, <1>5, <1>6, <1>7 DEF MetricsInv

\* The invariant holds initially and every step of the metrics keeps it.
LEMMA MetricsStep ==
  ASSUME MetricsAssumption, MetricsInv, [MetricsNext]_metricsVars
  PROVE  MetricsInv'
<1>1. ASSUME NEW c \in Callers, NEW t \in Tools, NEW s \in Durations, NEW o \in Outcomes,
             End(c, t, s, o)
      PROVE  MetricsInv'
  BY <1>1, EndCounts
<1>2. ASSUME NEW c \in Callers, AppendRecord(c) \/ Measure(c) \/ Gauge(c) \/ Clear(c)
      PROVE  MetricsInv'
  BY <1>2, GaugeStep
<1>3. ASSUME NEW c \in Callers, RejectAuth(c) \/ CountFailure(c) \/ RejectRate(c)
      PROVE  MetricsInv'
  BY <1>3, RefusalStep
<1>4. CASE Restart
  <2>1. Restarted'
    BY <1>4 DEF Restart, Restarted, MetricsInv, MetricsType
  <2>2. (Restarted => MetricsInv)'
    BY FreshCounted, PTL
  <2> QED BY <2>1, <2>2
<1>5. CASE UNCHANGED metricsVars
  BY <1>5 DEF metricsVars, MetricsInv, MetricsType, CallsCounted, BucketsCounted, Counted,
              Cumulative, RefusalsCounted, Rejected, GaugeSeen
<1> QED BY <1>1, <1>2, <1>3, <1>4, <1>5 DEF MetricsNext

\* The metrics' invariant holds in every state (metrics.rs and its callers).
THEOREM MetricsInvariant ==
  ASSUME MetricsAssumption
  PROVE  MetricsSpec => []MetricsInv
<1>1. MetricsInit => MetricsInv
  <2> SUFFICES ASSUME MetricsInit PROVE MetricsInv
    OBVIOUS
  <2> QED BY FreshCounted DEF MetricsInit, Restarted
<1>2. MetricsInv /\ [MetricsNext]_metricsVars => MetricsInv'
  BY MetricsStep
<1> QED BY <1>1, <1>2, PTL DEF MetricsSpec

\* What is exposed agrees with itself and with what happened: the histogram of a tool
\* is cumulative and counts its calls, refusals are failures but for those being
\* counted, and the gauge shows a length the history had (metrics.rs).
THEOREM MetricsAgree ==
  ASSUME MetricsAssumption
  PROVE  MetricsSpec => []MetricsTrue
<1>1. ASSUME MetricsInv PROVE MetricsTrue
  <2>1. ASSUME NEW t \in Tools
        PROVE  /\ Counted(t) = ended[t] /\ series.durations[t].count = ended[t]
               /\ \A i \in DOMAIN Bounds :
                    /\ Exposition(t)[i] <= series.durations[t].count
                    /\ i > 1 => Exposition(t)[i - 1] <= Exposition(t)[i]
    <3>1. Counted(t) = ended[t] /\ series.durations[t].count = ended[t]
      BY <1>1 DEF MetricsInv, CallsCounted
    <3>2. series.durations[t] \in Histograms
      BY <1>1 DEF MetricsInv, MetricsType, Registries
    <3>3. ASSUME NEW i \in DOMAIN Bounds
          PROVE  /\ Exposition(t)[i] <= series.durations[t].count
                 /\ i > 1 => Exposition(t)[i - 1] <= Exposition(t)[i]
      <4>1. /\ Exposition(t)[i] = Cumulative(series.durations[t], i)
            /\ i > 1 => Exposition(t)[i - 1] = Cumulative(series.durations[t], i - 1)
        BY FinitelyMany DEF Exposition
      <4>2. Cumulative(series.durations[t], i) <= series.durations[t].count
        BY <1>1 DEF MetricsInv, BucketsCounted
      <4>3. i > 1 => Cumulative(series.durations[t], i - 1) <= Cumulative(series.durations[t], i)
        BY <3>2, BucketsCumulative
      <4> QED BY <4>1, <4>2, <4>3
    <3> QED BY <3>1, <3>3
  <2>2. series.rejected["auth"] - series.failures
          = Cardinality({c \in Callers : doing[c].pc = "refused"})
    BY <1>1 DEF MetricsInv, RefusalsCounted, Rejected
  <2>3. series.size \in lengths
    BY <1>1 DEF MetricsInv, GaugeSeen
  <2> QED BY <2>1, <2>2, <2>3 DEF MetricsTrue
<1> QED BY <1>1, MetricsInvariant, PTL


-----------------------------------------------------------------------------
(* Plugin manifests: what the scan of a template comes to.                 *)

ScanStates(C) ==
  [mode: {"text", "dollar", "name", "bad"}, lit: Seq(C), name: Seq(C),
   segs: Seq([ref: BOOLEAN, text: Seq(C)])]
ScanFrom == [mode |-> "text", lit |-> <<>>, name |-> <<>>, segs |-> <<>>]

\* One symbol more of a text.
LEMMA ScannedTyped ==
  ASSUME NEW C, Dollar \in C, NEW s \in ScanStates(C), NEW c \in C
  PROVE  Scanned(s, c) \in ScanStates(C)
<1> DEFINE Segs == [ref: BOOLEAN, text: Seq(C)]
<1>1. /\ s = [mode |-> s.mode, lit |-> s.lit, name |-> s.name, segs |-> s.segs]
      /\ s.mode \in {"text", "dollar", "name", "bad"}
      /\ s.lit \in Seq(C) /\ s.name \in Seq(C) /\ s.segs \in Seq(Segs)
  BY DEF ScanStates
<1>2. \A t \in Seq(C) : Lit(t) \in Segs /\ Ref(t) \in Segs
  BY DEF Lit, Ref
<1> HIDE DEF Segs
<1>3. Append(s.lit, c) \in Seq(C) /\ Append(s.name, c) \in Seq(C)
      /\ Append(s.lit, Dollar) \in Seq(C)
  BY <1>1, AppendProperties
<1>4. s.lit \o <<Dollar, c>> \in Seq(C)
  BY <1>1, ConcatProperties
<1>5. Append(WithLit(s.segs, s.lit), Ref(s.name)) \in Seq(Segs)
  <2>1. WithLit(s.segs, s.lit) \in Seq(Segs)
    BY <1>1, <1>2, AppendProperties DEF WithLit
  <2> QED BY <1>1, <1>2, <2>1, AppendProperties
<1>6. <<>> \in Seq(C)
  OBVIOUS
<1>7. CASE s.mode = "text"
  <2>1. Scanned(s, c) = IF c = Dollar THEN [s EXCEPT !.mode = "dollar"]
                                   ELSE [s EXCEPT !.lit = Append(s.lit, c)]
    BY <1>7 DEF Scanned
  <2> QED BY <1>1, <1>3, <2>1 DEF ScanStates, Segs
<1>8. CASE s.mode = "dollar"
  <2>1. Scanned(s, c) =
          IF c = Dollar THEN [s EXCEPT !.mode = "text", !.lit = Append(s.lit, Dollar)]
          ELSE IF c = Open THEN [s EXCEPT !.mode = "name", !.name = <<>>]
          ELSE [s EXCEPT !.mode = "text", !.lit = s.lit \o <<Dollar, c>>]
    BY <1>8 DEF Scanned, Dollar, Open
  <2> QED BY <1>1, <1>3, <1>4, <1>6, <2>1 DEF ScanStates, Segs
<1>9. CASE s.mode = "name"
  <2> DEFINE more == Append(WithLit(s.segs, s.lit), Ref(s.name))
  <2>1. Scanned(s, c) =
          IF c # Close THEN [s EXCEPT !.name = Append(s.name, c)]
          ELSE IF s.name \notin ParamNames THEN [s EXCEPT !.mode = "bad"]
          ELSE [mode |-> "text", lit |-> <<>>, name |-> <<>>, segs |-> more]
    BY <1>9 DEF Scanned
  <2> HIDE DEF more
  <2>2. more \in Seq(Segs)
    BY <1>5 DEF more
  <2>3. [s EXCEPT !.name = Append(s.name, c)] \in ScanStates(C)
    BY <1>1, <1>3 DEF ScanStates, Segs
  <2>4. [s EXCEPT !.mode = "bad"] \in ScanStates(C)
    BY <1>1 DEF ScanStates, Segs
  <2>5. [mode |-> "text", lit |-> <<>>, name |-> <<>>, segs |-> more] \in ScanStates(C)
    BY <1>6, <2>2 DEF ScanStates, Segs
  <2> HIDE DEF ScanStates
  <2> QED BY <2>1, <2>3, <2>4, <2>5
<1>10. CASE s.mode = "bad"
  BY <1>10 DEF Scanned
<1> QED BY <1>1, <1>7, <1>8, <1>9, <1>10

\* The scan of a text goes from symbol to symbol.
LEMMA ScanSteps ==
  ASSUME NEW C, Dollar \in C, NEW text \in Seq(C)
  PROVE  \E f : /\ f[0] = ScanFrom /\ Scan(text) = f[Len(text)]
                /\ \A k \in 1..Len(text) : f[k] = Scanned(f[k - 1], text[k])
<1> DEFINE A == ScanStates(C)
           n == Len(text)
           D == 1..n
           step == [x \in A \X C |-> Scanned(x[1], x[2])]
           Iter(g) == [T \in SUBSET DOMAIN text |->
                         IF T = {} THEN ScanFrom
                         ELSE LET x == Max(T) IN Scanned(g[T \ {x}], text[x])]
           iter == CHOOSE g : g = Iter(g)
<1>1. n \in Nat /\ DOMAIN text = D /\ \A i \in D : text[i] \in C
  OBVIOUS
<1>2. ScanFrom \in A
  <2>1. <<>> \in Seq(C) /\ <<>> \in Seq([ref: BOOLEAN, text: Seq(C)])
    OBVIOUS
  <2> QED BY <2>1 DEF ScanFrom, ScanStates
<1>3. step \in [A \X C -> A]
  BY ScannedTyped
<1>4. \A a \in A, c \in C : step[<<a, c>>] = Scanned(a, c)
  BY DEF step
<1> HIDE DEF step, A
<1>5. PICK g \in [SUBSET D -> A] : FoldsBy(g, step, ScanFrom, text)
  BY <1>2, <1>3, FoldsExist
<1>6. ASSUME NEW T \in SUBSET D, T # {} PROVE Max(T) \in T
  <2>1. IsFiniteSet(T) /\ T \in SUBSET Int
    <3>1. IsFiniteSet(D)
      BY <1>1, FS_Interval
    <3>2. IsFiniteSet(T)
      BY <3>1, FS_Subset
    <3> QED BY <3>2
  <2> QED BY <1>6, <2>1, ExtremesProperties
<1>7. g = Iter(g)
  <2>1. ASSUME NEW T \in SUBSET D
        PROVE  g[T] = IF T = {} THEN ScanFrom ELSE Scanned(g[T \ {Max(T)}], text[Max(T)])
    <3>1. g[T] = IF T = {} THEN ScanFrom ELSE step[<<g[T \ {Max(T)}], text[Max(T)]>>]
      BY <1>5 DEF FoldsBy
    <3>2. T # {} => g[T \ {Max(T)}] \in A /\ text[Max(T)] \in C
      BY <1>1, <1>5, <1>6
    <3> QED BY <1>4, <3>1, <3>2
  <2> QED BY <1>1, <1>5, <2>1
<1>8. iter = Iter(iter)
  <2> HIDE DEF Iter
  <2> QED BY <1>7
<1>9. Scan(text) = iter[D]
  BY <1>1 DEF Scan, FoldLeft, MapThenFoldSet, ScanFrom
<1> HIDE DEF iter
<1> DEFINE f == [k \in 0..n |-> iter[1..k]]
<1>10. f[0] = ScanFrom /\ f[n] = iter[D]
  <2>1. 1..0 = {} /\ 1..0 \in SUBSET D
    OBVIOUS
  <2> QED BY <1>1, <1>8, <2>1
<1>11. ASSUME NEW k \in 1..n PROVE f[k] = Scanned(f[k - 1], text[k])
  <2>1. /\ 1..k \in SUBSET D /\ 1..k # {}
        /\ Max(1..k) = k /\ (1..k) \ {k} = 1..(k - 1)
    BY <1>1, LastPlace
  <2>2. iter[1..k] = Scanned(iter[1..(k - 1)], text[k])
    <3> DEFINE T == 1..k
    <3> HIDE DEF T
    <3>1. T \in SUBSET DOMAIN text /\ T # {}
      BY <1>1, <2>1 DEF T
    <3>2. iter[T] = Scanned(iter[T \ {Max(T)}], text[Max(T)])
      BY <1>8, <3>1
    <3> QED BY <2>1, <3>2 DEF T
  <2>3. k \in 0..n /\ k - 1 \in 0..n
    BY <1>1
  <2> QED BY <2>2, <2>3
<1> HIDE DEF f
<1> QED BY <1>9, <1>10, <1>11

\* A stretch of a text, an element longer.
LEMMA LongerStretch ==
  ASSUME NEW C, NEW text \in Seq(C), NEW m \in 1..Len(text), NEW k \in m..Len(text)
  PROVE  SubSeq(text, m, k) = Append(SubSeq(text, m, k - 1), text[k])
<1>1. SubSeq(text, m, k) = SubSeq(text, m, k - 1) \o <<text[k]>>
  BY SubSeqRecursiveSecond
<1>2. SubSeq(text, m, k - 1) \in Seq(C) /\ text[k] \in C
  <2>1. m \in Int /\ k - 1 \in Int /\ \A i \in m..(k - 1) : text[i] \in C
    OBVIOUS
  <2>2. SubSeq(text, m, k - 1) \in Seq(C)
    BY <2>1, SubSeqProperties
  <2> QED BY <2>2
<1> QED BY <1>1, <1>2, AppendIsConcat

\* A text that starts with two dollars and has no other is what follows the first.
LEMMA SegmentsDoubled ==
  ASSUME NEW C, Dollar \in C, NEW text \in Seq(C), Len(text) >= 2,
         text[1] = Dollar, text[2] = Dollar, \A i \in 3..Len(text) : text[i] # Dollar
  PROVE  Segments(text) = <<Lit(Tail(text))>>
<1> DEFINE n == Len(text)
           At(k) == [mode |-> "text", lit |-> SubSeq(text, 2, k), name |-> <<>>, segs |-> <<>>]
<1>1. n \in Nat /\ n >= 2 /\ \A i \in 1..n : text[i] \in C
  OBVIOUS
<1>2. PICK f : /\ f[0] = ScanFrom /\ Scan(text) = f[n]
               /\ \A k \in 1..n : f[k] = Scanned(f[k - 1], text[k])
  BY ScanSteps
<1>3. f[1] = [mode |-> "dollar", lit |-> <<>>, name |-> <<>>, segs |-> <<>>]
  <2>1. f[1] = Scanned(ScanFrom, Dollar)
    BY <1>1, <1>2
  <2> QED BY <2>1 DEF Scanned, ScanFrom
<1>4. f[2] = At(2)
  <2>1. f[2] = Scanned(f[1], Dollar)
    BY <1>1, <1>2
  <2>2. f[2] = [mode |-> "text", lit |-> Append(<<>>, Dollar), name |-> <<>>, segs |-> <<>>]
    <3> DEFINE r == [mode |-> "dollar", lit |-> <<>>, name |-> <<>>, segs |-> <<>>]
    <3>1. Scanned(r, Dollar) = [r EXCEPT !.mode = "text", !.lit = Append(r.lit, Dollar)]
      BY DEF Scanned, Dollar, Open
    <3> QED BY <1>3, <2>1, <3>1
  <2>3. SubSeq(text, 2, 2) = Append(SubSeq(text, 2, 2 - 1), text[2])
    BY <1>1, LongerStretch
  <2>4. SubSeq(text, 2, 2 - 1) = <<>>
    BY SubSeqEmpty
  <2> QED BY <2>2, <2>3, <2>4
<1>5. ASSUME NEW k \in 3..n, f[k - 1] = At(k - 1) PROVE f[k] = At(k)
  <2>1. f[k] = Scanned(At(k - 1), text[k]) /\ text[k] # Dollar
    BY <1>1, <1>2, <1>5
  <2>2. f[k] = [mode |-> "text", lit |-> Append(SubSeq(text, 2, k - 1), text[k]),
                name |-> <<>>, segs |-> <<>>]
    BY <2>1 DEF Scanned
  <2>3. SubSeq(text, 2, k) = Append(SubSeq(text, 2, k - 1), text[k])
    BY <1>1, LongerStretch
  <2> QED BY <2>2, <2>3
<1>6. f[n] = At(n)
  <2> DEFINE K == {k \in 0..(n - 2) : f[k + 2] = At(k + 2)}
  <2>1. 0 \in K
    BY <1>1, <1>4
  <2>2. ASSUME NEW k \in 0..((n - 2) - 1), k \in K PROVE k + 1 \in K
    <3> DEFINE m == k + 3
    <3>1. m \in 3..n /\ m - 1 = k + 2 /\ m = (k + 1) + 2 /\ k + 1 \in 0..(n - 2)
      BY <1>1
    <3>2. f[m - 1] = At(m - 1)
      BY <2>2, <3>1
    <3> HIDE DEF m, At
    <3>3. f[m] = At(m)
      BY <1>5, <3>1, <3>2
    <3> QED BY <3>1, <3>3
  <2>3. n - 2 \in Nat
    BY <1>1
  <2> DEFINE e == n - 2
  <2> HIDE DEF K, e
  <2>4. \A k \in 0..e : k \in K
    BY <2>1, <2>2, <2>3, UpTo DEF e
  <2>5. e \in K /\ e + 2 = n
    BY <1>1, <2>3, <2>4 DEF e
  <2> QED BY <2>5 DEF K
<1>7. SubSeq(text, 2, n) = Tail(text) /\ Tail(text) # <<>>
  <2>1. text # <<>>
    BY <1>1
  <2>2. Len(Tail(text)) = n - 1
    BY <2>1, HeadTailProperties
  <2>3. Tail(text) # <<>>
    <3>1. n - 1 # 0 /\ Len(<<>>) = 0
      BY <1>1
    <3> HIDE DEF n
    <3> QED BY <2>2, <3>1
  <2> QED BY <2>1, <2>3, TailIsSubSeq
<1>8. Scan(text) = [mode |-> "text", lit |-> Tail(text), name |-> <<>>, segs |-> <<>>]
  BY <1>2, <1>6, <1>7
<1> QED BY <1>7, <1>8 DEF Segments, WithLit

\* A text that is one placeholder is one reference.
LEMMA SegmentsReference ==
  ASSUME NEW C, Dollar \in C, NEW text \in Seq(C), NEW n \in Nat, n = Len(text), n >= 3,
         text[1] = Dollar, text[2] = Open, text[n] = Close,
         \A i \in 3..(n - 1) : text[i] \notin Symbols,
         SubSeq(text, 3, n - 1) \in ParamNames
  PROVE  Segments(text) = <<Ref(SubSeq(text, 3, n - 1))>>
<1> DEFINE At(k) == [mode |-> "name", lit |-> <<>>, name |-> SubSeq(text, 3, k), segs |-> <<>>]
           p == SubSeq(text, 3, n - 1)
<1>1. \A i \in 1..n : text[i] \in C
  OBVIOUS
<1>2. PICK f : /\ f[0] = ScanFrom /\ Scan(text) = f[n]
               /\ \A k \in 1..n : f[k] = Scanned(f[k - 1], text[k])
  BY ScanSteps
<1>3. f[1] = [mode |-> "dollar", lit |-> <<>>, name |-> <<>>, segs |-> <<>>]
  <2>1. f[1] = Scanned(ScanFrom, Dollar)
    BY <1>2
  <2> QED BY <2>1 DEF Scanned, ScanFrom
<1>4. f[2] = At(2)
  <2>1. f[2] = Scanned(f[1], Open)
    BY <1>2
  <2>2. f[2] = [mode |-> "name", lit |-> <<>>, name |-> <<>>, segs |-> <<>>]
    <3> DEFINE r == [mode |-> "dollar", lit |-> <<>>, name |-> <<>>, segs |-> <<>>]
    <3>1. Scanned(r, Open) = [r EXCEPT !.mode = "name", !.name = <<>>]
      BY DEF Scanned, Dollar, Open
    <3> QED BY <1>3, <2>1, <3>1
  <2>3. SubSeq(text, 3, 2) = <<>>
    BY SubSeqEmpty
  <2> QED BY <2>2, <2>3
<1>5. ASSUME NEW k \in 3..(n - 1), f[k - 1] = At(k - 1) PROVE f[k] = At(k)
  <2>1. f[k] = Scanned(At(k - 1), text[k])
    BY <1>2, <1>5
  <2>2. text[k] # Close
    BY DEF Symbols
  <2>3. f[k] = [mode |-> "name", lit |-> <<>>, name |-> Append(SubSeq(text, 3, k - 1), text[k]),
                segs |-> <<>>]
    BY <2>1, <2>2 DEF Scanned
  <2>4. SubSeq(text, 3, k) = Append(SubSeq(text, 3, k - 1), text[k])
    BY LongerStretch
  <2> QED BY <2>3, <2>4
<1>6. f[n - 1] = At(n - 1)
  <2> DEFINE e == n - 3
             K == {k \in 0..e : f[k + 2] = At(k + 2)}
  <2>1. e \in Nat /\ e + 2 = n - 1
    OBVIOUS
  <2>2. 0 \in K
    BY <1>4
  <2>3. ASSUME NEW k \in 0..(e - 1), k \in K PROVE k + 1 \in K
    <3> DEFINE m == k + 3
    <3>1. m \in 3..(n - 1) /\ m - 1 = k + 2 /\ m = (k + 1) + 2 /\ k + 1 \in 0..e
      OBVIOUS
    <3>2. f[m - 1] = At(m - 1)
      BY <2>3, <3>1
    <3> HIDE DEF m, At
    <3>3. f[m] = At(m)
      BY <1>5, <3>1, <3>2
    <3> QED BY <3>1, <3>3
  <2> HIDE DEF K, e
  <2>4. \A k \in 0..e : k \in K
    BY <2>1, <2>2, <2>3, UpTo
  <2>5. e \in K
    BY <2>1, <2>4
  <2> QED BY <2>1, <2>5 DEF K
<1>7. f[n] = Scanned(At(n - 1), Close)
  BY <1>2, <1>6
<1> HIDE DEF p
<1>8. f[n] = [mode |-> "text", lit |-> <<>>, name |-> <<>>,
              segs |-> Append(WithLit(<<>>, <<>>), Ref(p))]
  BY <1>7 DEF Scanned, p
<1>9. Append(WithLit(<<>>, <<>>), Ref(p)) = <<Ref(p)>>
  BY DEF WithLit
<1> QED BY <1>2, <1>8, <1>9 DEF Segments, WithLit, p

\* One text is put together to itself.
LEMMA FlattenOne ==
  ASSUME NEW t, NEW s, s = [i \in {1} |-> t]
  PROVE  FlattenSeq(s) = t
<1> DEFINE Flat(g) == [i \in 1..Len(s) |-> IF i = 1 THEN s[i] ELSE g[i - 1] \o s[i]]
           flat == CHOOSE g : g = Flat(g)
<1>1. Len(s) = 1 /\ 1..Len(s) = {1}
  <2>1. s = <<t>>
    OBVIOUS
  <2>2. Len(<<t>>) = 1 /\ 1..1 = {1}
    OBVIOUS
  <2> QED BY <2>1, <2>2
<1>2. [i \in {1} |-> t] = Flat([i \in {1} |-> t])
  BY <1>1
<1>3. flat = Flat(flat)
  <2> HIDE DEF Flat
  <2> QED BY <1>2
<1>4. flat[1] = t
  BY <1>1, <1>3
<1>5. FlattenSeq(s) = flat[1]
  BY <1>1 DEF FlattenSeq
<1> QED BY <1>4, <1>5

\* A placeholder, symbol by symbol.
LEMMA ReferenceText ==
  ASSUME NEW C, Symbols \in SUBSET C, NEW p \in Seq(C)
  PROVE  /\ Reference(p) \in Seq(C) /\ Len(Reference(p)) = Len(p) + 3
         /\ Reference(p)[1] = Dollar /\ Reference(p)[2] = Open
         /\ Reference(p)[Len(p) + 3] = Close
         /\ \A i \in 1..Len(p) : Reference(p)[i + 2] = p[i]
<1> DEFINE n == Len(p)
           front == <<Dollar, Open>> \o p
<1>1. Dollar \in C /\ Open \in C /\ Close \in C /\ n \in Nat
  BY DEF Symbols
<1>2. <<Dollar, Open>> \in Seq(C) /\ <<Close>> \in Seq(C)
      /\ Len(<<Dollar, Open>>) = 2 /\ Len(<<Close>>) = 1
  BY <1>1
<1>3. /\ front \in Seq(C) /\ Len(front) = 2 + n
      /\ \A i \in 1..(2 + n) : front[i] = IF i <= 2 THEN <<Dollar, Open>>[i] ELSE p[i - 2]
  BY <1>2, ConcatProperties
<1> HIDE DEF front
<1>4. /\ front \o <<Close>> \in Seq(C) /\ Len(front \o <<Close>>) = n + 3
      /\ \A i \in 1..(n + 3) :
           (front \o <<Close>>)[i] = IF i <= n + 2 THEN front[i] ELSE <<Close>>[i - (n + 2)]
  BY <1>1, <1>2, <1>3, ConcatProperties
<1>5. Reference(p) = front \o <<Close>>
  BY DEF Reference, front
<1>6. front[1] = Dollar /\ front[2] = Open /\ \A i \in 1..n : front[i + 2] = p[i]
  BY <1>1, <1>3
<1> QED BY <1>1, <1>4, <1>5, <1>6

\* A placeholder alone is its parameter's value, type and all.
LEMMA SubstitutedReference ==
  ASSUME PluginAssumption, NEW p \in ParamNames, NEW values
  PROVE  /\ Segments(Reference(p)) = <<Ref(p)>>
         /\ Substituted(Reference(p), values) = values[p]
<1> DEFINE C == Range(p) \union Symbols
           text == Reference(p)
           n == Len(p) + 3
<1>1. p \in Seq(C) /\ Dollar \in C /\ \A i \in 1..Len(p) : p[i] \notin Symbols
  <2>1. p \in Seq(Range(p)) /\ Range(p) \intersect Symbols = {}
    BY DEF PluginAssumption
  <2>2. \A i \in 1..Len(p) : p[i] \in Range(p)
    BY <2>1 DEF Range
  <2> QED BY <2>1, <2>2 DEF Symbols
<1>2. /\ text \in Seq(C) /\ Len(text) = n /\ n \in Nat /\ n >= 3
      /\ text[1] = Dollar /\ text[2] = Open /\ text[n] = Close
      /\ \A i \in 1..Len(p) : text[i + 2] = p[i]
  <2> HIDE DEF C
  <2>1. Symbols \in SUBSET C
    BY DEF C
  <2> QED BY <1>1, <2>1, ReferenceText
<1> HIDE DEF C, text
<1>3. \A i \in 3..(n - 1) : text[i] \notin Symbols
  <2> SUFFICES ASSUME NEW i \in 3..(n - 1) PROVE text[i] \notin Symbols
    OBVIOUS
  <2> DEFINE j == i - 2
  <2>1. j \in 1..Len(p) /\ j + 2 = i
    BY <1>1
  <2> HIDE DEF j
  <2> QED BY <1>1, <1>2, <2>1
<1>4. SubSeq(text, 3, n - 1) = p
  <2>1. \A i \in 3..(n - 1) : text[i] \in C
    BY <1>1, <1>2
  <2>2. /\ SubSeq(text, 3, n - 1) \in Seq(C) /\ Len(SubSeq(text, 3, n - 1)) = Len(p)
        /\ \A i \in 1..Len(p) : SubSeq(text, 3, n - 1)[i] = text[3 + i - 1]
    <3>1. 3 \in Int /\ n - 1 \in Int /\ (n - 1) - 3 + 1 = Len(p) /\ Len(p) \in Nat
      BY <1>1
    <3>2. (IF 3 <= n - 1 THEN (n - 1) - 3 + 1 ELSE 0) = Len(p)
      BY <1>1
    <3> DEFINE last == n - 1
    <3> HIDE DEF last
    <3> QED BY <2>1, <3>1, <3>2, SubSeqProperties DEF last
  <2>3. \A i \in 1..Len(p) : text[3 + i - 1] = p[i]
    <3>1. \A i \in 1..Len(p) : 3 + i - 1 = i + 2
      BY <1>1
    <3> QED BY <1>2, <3>1
  <2> DEFINE part == SubSeq(text, 3, n - 1)
  <2> HIDE DEF part
  <2>4. part \in Seq(C) /\ Len(part) = Len(p) /\ \A i \in 1..Len(p) : part[i] = p[i]
    BY <2>2, <2>3 DEF part
  <2>5. part = p
    BY <1>1, <2>4, SeqEqual
  <2> QED BY <2>5 DEF part
<1>5. Segments(text) = <<Ref(p)>>
  <2> DEFINE len == n
  <2> HIDE DEF len
  <2>1. /\ len \in Nat /\ len = Len(text) /\ len >= 3
        /\ text[1] = Dollar /\ text[2] = Open /\ text[len] = Close
        /\ \A i \in 3..(len - 1) : text[i] \notin Symbols
        /\ SubSeq(text, 3, len - 1) \in ParamNames /\ SubSeq(text, 3, len - 1) = p
    BY <1>2, <1>3, <1>4 DEF len
  <2>2. Segments(text) = <<Ref(SubSeq(text, 3, len - 1))>>
    BY <1>1, <1>2, <2>1, SegmentsReference
  <2> QED BY <2>1, <2>2
<1>6. Substituted(text, values) = values[p]
  <2>1. Len(<<Ref(p)>>) = 1 /\ <<Ref(p)>>[1].ref /\ <<Ref(p)>>[1].text = p
    BY DEF Ref
  <2> QED BY <1>5, <2>1 DEF Substituted
<1> QED BY <1>5, <1>6 DEF text

\* A text with its dollar doubled is spelled out with one.
LEMMA SubstitutedDoubled ==
  ASSUME NEW C, Dollar \in C, NEW text \in Seq(C), Len(text) >= 2,
         text[1] = Dollar, text[2] = Dollar, \A i \in 3..Len(text) : text[i] # Dollar,
         NEW values
  PROVE  Substituted(text, values).text = Tail(text)
<1> DEFINE segs == <<Lit(Tail(text))>>
           spelled == [i \in DOMAIN segs |->
                         IF segs[i].ref THEN values[segs[i].text].text ELSE segs[i].text]
<1>1. Segments(text) = segs
  BY SegmentsDoubled
<1>2. ~segs[1].ref /\ segs[1].text = Tail(text) /\ DOMAIN segs = {1}
  BY DEF Lit
<1>3. Substituted(text, values) = [ty |-> "string", text |-> FlattenSeq(spelled)]
  BY <1>1, <1>2 DEF Substituted
<1> HIDE DEF segs
<1>4. spelled = [i \in {1} |-> Tail(text)]
  BY <1>2
<1> HIDE DEF spelled
<1>5. FlattenSeq(spelled) = Tail(text)
  BY <1>4, FlattenOne
<1> QED BY <1>3, <1>5

\* Two dollars are spelled out as one.
LEMMA DollarSpelled ==
  ASSUME NEW values
  PROVE  Substituted(<<Dollar, Dollar>>, values).text = <<Dollar>>
<1>1. /\ <<Dollar, Dollar>> \in Seq({Dollar}) /\ Len(<<Dollar, Dollar>>) >= 2
      /\ <<Dollar, Dollar>>[1] = Dollar /\ <<Dollar, Dollar>>[2] = Dollar
      /\ Dollar \in {Dollar}
      /\ \A i \in 3..Len(<<Dollar, Dollar>>) : <<Dollar, Dollar>>[i] # Dollar
  OBVIOUS
<1>2. Substituted(<<Dollar, Dollar>>, values).text = Tail(<<Dollar, Dollar>>)
  BY <1>1, SubstitutedDoubled
<1> QED BY <1>2

\* A placeholder behind a dollar is spelled out as it reads.
LEMMA EscapeSpelled ==
  ASSUME PluginAssumption, NEW p \in ParamNames, NEW values
  PROVE  Substituted(<<Dollar>> \o Reference(p), values).text = Reference(p)
<1> DEFINE C == Range(p) \union Symbols
           tail == Reference(p)
           text == <<Dollar>> \o tail
           n == Len(p) + 3
<1>1. p \in Seq(C) /\ Dollar \in C /\ \A i \in 1..Len(p) : p[i] \notin Symbols
  <2>1. p \in Seq(Range(p)) /\ Range(p) \intersect Symbols = {}
    BY DEF PluginAssumption
  <2>2. \A i \in 1..Len(p) : p[i] \in Range(p)
    BY <2>1 DEF Range
  <2> QED BY <2>1, <2>2 DEF Symbols
<1>2. /\ tail \in Seq(C) /\ Len(tail) = n /\ n \in Nat /\ n >= 3
      /\ tail[1] = Dollar /\ tail[2] = Open /\ tail[n] = Close
      /\ \A i \in 1..Len(p) : tail[i + 2] = p[i]
  <2> HIDE DEF C
  <2>1. Symbols \in SUBSET C
    BY DEF C
  <2> QED BY <1>1, <2>1, ReferenceText
<1> HIDE DEF C, tail
<1>3. \A i \in 2..n : tail[i] # Dollar
  <2> SUFFICES ASSUME NEW i \in 2..n PROVE tail[i] # Dollar
    OBVIOUS
  <2>1. CASE i = 2
    BY <1>2, <2>1 DEF Dollar, Open
  <2>2. CASE i = n
    BY <1>2, <2>2 DEF Dollar, Close
  <2>3. CASE i \in 3..(n - 1)
    <3> DEFINE j == i - 2
    <3>1. j \in 1..Len(p) /\ j + 2 = i
      BY <1>1, <2>3
    <3> HIDE DEF j
    <3>2. tail[i] \notin Symbols
      BY <1>1, <1>2, <3>1
    <3> QED BY <3>2 DEF Symbols
  <2> QED BY <1>2, <2>1, <2>2, <2>3
<1> HIDE DEF n
<1>4. /\ text \in Seq(C) /\ Len(text) = n + 1
      /\ text[1] = Dollar /\ \A i \in 1..n : text[i + 1] = tail[i]
      /\ Tail(text) = tail
  <2>1. <<Dollar>> \in Seq(C) /\ Len(<<Dollar>>) = 1
    BY <1>1
  <2>2. /\ text \in Seq(C) /\ Len(text) = 1 + n
        /\ \A i \in 1..(1 + n) : text[i] = IF i <= 1 THEN <<Dollar>>[i] ELSE tail[i - 1]
    BY <1>2, <2>1, ConcatProperties
  <2> HIDE DEF text
  <2>3. ASSUME NEW i \in 1..n PROVE text[i + 1] = tail[i]
    <3> DEFINE j == i + 1
    <3>1. j \in 1..(1 + n) /\ ~(j <= 1) /\ j - 1 = i
      BY <1>2
    <3> HIDE DEF j
    <3>2. text[j] = tail[i]
      BY <2>2, <3>1
    <3> QED BY <3>2 DEF j
  <2>4. text # <<>> /\ Len(text) - 1 = n
    <3>1. Len(text) # 0 /\ Len(<<>>) = 0
      BY <1>2, <2>2
    <3>2. Len(text) - 1 = n
      BY <1>2, <2>2
    <3> QED BY <3>1, <3>2
  <2>5. /\ Tail(text) \in Seq(C) /\ Len(Tail(text)) = n
        /\ \A i \in 1..n : Tail(text)[i] = text[i + 1]
    BY <2>2, <2>4, HeadTailProperties
  <2>6. Tail(text) = tail
    <3> DEFINE part == Tail(text)
    <3> HIDE DEF part
    <3>1. part \in Seq(C) /\ Len(part) = n /\ \A i \in 1..n : part[i] = tail[i]
      BY <2>3, <2>5 DEF part
    <3>2. tail \in Seq(C) /\ Len(part) = Len(tail) /\ \A i \in 1..Len(part) : part[i] = tail[i]
      BY <1>2, <3>1
    <3>3. part = tail
      BY <3>1, <3>2, SeqEqual
    <3> QED BY <3>3 DEF part
  <2>7. text[1] = Dollar
    <3>1. 1 \in 1..(1 + n) /\ 1 <= 1 /\ <<Dollar>>[1] = Dollar
      BY <1>2
    <3> QED BY <2>2, <3>1
  <2>8. Len(text) = n + 1
    BY <1>2, <2>2
  <2> QED BY <2>2, <2>3, <2>6, <2>7, <2>8
<1> HIDE DEF text
<1>5. \A i \in 3..Len(text) : text[i] # Dollar
  <2> SUFFICES ASSUME NEW i \in 3..Len(text) PROVE text[i] # Dollar
    OBVIOUS
  <2> DEFINE j == i - 1
  <2>1. j \in 2..n /\ j \in 1..n /\ j + 1 = i
    BY <1>2, <1>4
  <2> HIDE DEF j
  <2> QED BY <1>3, <1>4, <2>1
<1>6. text[2] = Dollar /\ Len(text) >= 2
  <2>1. 1 \in 1..n /\ 1 + 1 = 2 /\ n + 1 >= 2
    BY <1>2
  <2> QED BY <1>2, <1>4, <2>1
<1>7. Substituted(text, values).text = Tail(text)
  BY <1>1, <1>4, <1>5, <1>6, SubstitutedDoubled
<1> QED BY <1>4, <1>7 DEF text, tail

-----------------------------------------------------------------------------
(* Plugin manifests: what a scan keeps, and what a run sends. *)

Pairs == Files \X Contents
Read == Range(loaded) \union Range(skipped)

CatalogTypes ==
  /\ files \in [Files -> Contents] /\ paths \in SUBSET Files
  /\ loaded \in Seq(Pairs) /\ skipped \in Seq(Pairs)
  /\ stage \in {"idle", "load", "steps", "over"}

\* A scan starts with nothing read, for a call the deny list admits.
ScanFresh ==
  /\ stage = "idle" => loaded = <<>> /\ skipped = <<>> /\ claimed = {}
  /\ stage \in {"idle", "load"} => sent = <<>>
  /\ stage # "idle" =>
       order \in Orders /\ (order.op = "exposed" => order.name \notin denied)

\* What is loaded is sound and has claimed its names, which no other has.
LoadedSound ==
  /\ \A l \in Range(loaded) :
       /\ Valid(l[2]) /\ <<"name", l[2].name>> \in claimed
       /\ <<"tool", l[2].tool>> \in claimed
  /\ \A i, j \in DOMAIN loaded : i # j =>
       /\ loaded[i][2].name # loaded[j][2].name
       /\ loaded[i][2].tool # Missing => loaded[i][2].tool # loaded[j][2].tool

\* A name is claimed by a sound manifest that was read.
ClaimsHeld ==
  \A c \in claimed : \E e \in Read :
    Valid(e[2]) /\ c \in {<<"name", e[2].name>>, <<"tool", e[2].tool>>}

\* Files are read in their order, and a sound one is kept out by an earlier one.
EarlierFirst ==
  /\ \A e \in Read, f \in paths : e[1] < f
  /\ \A s \in Range(skipped) : Valid(s[2]) =>
       \E e \in Read :
         /\ e[1] < s[1] /\ Valid(e[2])
         /\ e[2].name = s[2].name \/ (s[2].tool # Missing /\ e[2].tool = s[2].tool)

\* What runs is a sound manifest that neither of its names denies, with values of
\* the declared types.
RunSound ==
  stage = "steps" \/ sent # <<>> =>
    /\ running \in Contents /\ Valid(running) /\ ~BindError(running, bound)
    /\ running.name \notin denied
    /\ running.tool # Missing => running.tool \notin denied

\* What was sent is the manifest's steps with the values bound at the start.
Called(i) == [tool |-> running.steps[i].tool, args |-> StepArgs(running.steps[i], bound)]
SentFaithful ==
  /\ Len(sent) \in Nat /\ sent = [i \in 1..Len(sent) |-> Called(i)]
  /\ \A i \in 1..Len(sent) : Refs(running.steps[i]) \subseteq DOMAIN bound

CatalogInv ==
  CatalogTypes /\ ScanFresh /\ LoadedSound /\ ClaimsHeld /\ EarlierFirst /\ RunSound
  /\ SentFaithful

\* The first of the files listed.
LEMMA FirstListed ==
  ASSUME NEW S \in SUBSET Nat, S # {}
  PROVE  First(S) \in S /\ \A f \in S : First(S) <= f
<1>1. \E f \in S : \A g \in S : f <= g
  BY LeastExists
<1> QED BY <1>1 DEF First

\* A sequence's elements and one more.
LEMMA RangeOfAppend ==
  ASSUME NEW S, NEW s \in Seq(S), NEW e \in S
  PROVE  /\ Append(s, e) \in Seq(S) /\ Range(Append(s, e)) = Range(s) \union {e}
         /\ DOMAIN Append(s, e) = DOMAIN s \union {Len(s) + 1}
         /\ Append(s, e)[Len(s) + 1] = e
         /\ \A i \in DOMAIN s : Append(s, e)[i] = s[i] /\ i # Len(s) + 1
<1> DEFINE t == Append(s, e)
<1>1. /\ t \in Seq(S) /\ DOMAIN s = 1..Len(s) /\ DOMAIN t = 1..(Len(s) + 1)
      /\ Len(s) \in Nat /\ t[Len(s) + 1] = e /\ \A i \in 1..Len(s) : t[i] = s[i]
  BY AppendProperties
<1> HIDE DEF t
<1>2. DOMAIN t = DOMAIN s \union {Len(s) + 1} /\ \A i \in DOMAIN s : i # Len(s) + 1
  BY <1>1
<1>3. Range(t) = Range(s) \union {e}
  BY <1>1, <1>2 DEF Range
<1> QED BY <1>1, <1>2, <1>3 DEF t

\* Nothing is read, sent or run at the start.
LEMMA CatalogStarts ==
  ASSUME PluginAssumption, CatalogInit
  PROVE  CatalogInv
<1>1. /\ files \in [Files -> Contents] /\ paths = {} /\ loaded = <<>> /\ skipped = <<>>
      /\ claimed = {} /\ stage = "idle" /\ sent = <<>>
  BY DEF CatalogInit, PluginAssumption
<1>2. Range(loaded) = {} /\ Range(skipped) = {} /\ DOMAIN loaded = {} /\ Read = {}
  BY <1>1 DEF Range, Read
<1>3. CatalogTypes
  BY <1>1 DEF CatalogTypes
<1>4. ScanFresh /\ LoadedSound /\ ClaimsHeld /\ EarlierFirst /\ RunSound
  BY <1>1, <1>2 DEF ScanFresh, LoadedSound, ClaimsHeld, EarlierFirst, RunSound
<1>5. SentFaithful
  BY <1>1 DEF SentFaithful
<1> QED BY <1>3, <1>4, <1>5 DEF CatalogInv

\* Reading the next file of a scan.
LEMMA LoadKeeps ==
  ASSUME PluginAssumption, CatalogInv, Load
  PROVE  CatalogInv'
<1> DEFINE f == First(paths)
           m == files[f]
           e == <<f, m>>
<1>1. /\ CatalogTypes /\ ScanFresh /\ LoadedSound /\ ClaimsHeld /\ EarlierFirst
      /\ RunSound /\ SentFaithful
  BY DEF CatalogInv
<1>2. /\ stage = "load" /\ paths # {} /\ paths' = paths \ {f} /\ files' = files
      /\ stage' = "load" /\ order' = order /\ denied' = denied
      /\ running' = running /\ bound' = bound /\ sent' = sent
  BY DEF Load, dirVars, runVars
<1>3. /\ f \in paths /\ \A g \in paths : f <= g
      /\ f \in Nat /\ \A g \in paths : g \in Nat
  <2>1. paths \in SUBSET Nat
    BY <1>1 DEF CatalogTypes, PluginAssumption
  <2> QED BY <1>2, <2>1, FirstListed
<1>4. m \in Contents /\ e \in Pairs /\ e[1] = f /\ e[2] = m
  BY <1>1, <1>3 DEF CatalogTypes, Pairs
<1>5. /\ loaded \in Seq(Pairs) /\ skipped \in Seq(Pairs)
  BY <1>1 DEF CatalogTypes
<1>6. \/ /\ skipped' = Append(skipped, e) /\ loaded' = loaded
         /\ claimed' = claimed /\ (Valid(m) => NameSeen(m))
      \/ /\ skipped' = Append(skipped, e) /\ loaded' = loaded /\ Valid(m) /\ ToolSeen(m)
         /\ claimed' = claimed \union {<<"name", m.name>>}
      \/ /\ loaded' = Append(loaded, e) /\ skipped' = skipped
         /\ Valid(m) /\ ~NameSeen(m) /\ ~ToolSeen(m)
         /\ claimed' = claimed \union {<<"name", m.name>>, <<"tool", m.tool>>}
  BY DEF Load
<1> HIDE DEF f, m, e
<1>7. /\ Read' = Read \union {e}
      /\ loaded' \in Seq(Pairs) /\ skipped' \in Seq(Pairs)
      /\ skipped' = skipped \/ Range(skipped)' = Range(skipped) \union {e}
      /\ loaded' = loaded \/ Range(loaded)' = Range(loaded) \union {e}
  <2>1. CASE skipped' = Append(skipped, e) /\ loaded' = loaded
    BY <1>4, <1>5, <2>1, RangeOfAppend DEF Read
  <2>2. CASE loaded' = Append(loaded, e) /\ skipped' = skipped
    BY <1>4, <1>5, <2>2, RangeOfAppend DEF Read
  <2> QED BY <1>6, <2>1, <2>2
<1>8. CatalogTypes'
  BY <1>1, <1>2, <1>7 DEF CatalogTypes
<1>9. ScanFresh' /\ RunSound'
  BY <1>1, <1>2 DEF ScanFresh, RunSound
<1>10. SentFaithful'
  BY <1>1, <1>2 DEF SentFaithful, Called
<1>11. ClaimsHeld'
  <2>1. ASSUME NEW c \in claimed
        PROVE  \E r \in Read' : Valid(r[2]) /\ c \in {<<"name", r[2].name>>, <<"tool", r[2].tool>>}
    BY <1>1, <1>7 DEF ClaimsHeld
  <2>2. ASSUME NEW c \in claimed' \ claimed
        PROVE  /\ e \in Read' /\ Valid(e[2])
               /\ c \in {<<"name", e[2].name>>, <<"tool", e[2].tool>>}
    BY <1>4, <1>6, <1>7
  <2> QED BY <2>1, <2>2 DEF ClaimsHeld
<1>12. LoadedSound'
  <2>1. CASE loaded' = loaded
    <3>1. claimed \subseteq claimed'
      BY <1>6
    <3>2. Range(loaded)' = Range(loaded) /\ DOMAIN loaded' = DOMAIN loaded
      BY <2>1
    <3> QED BY <1>1, <2>1, <3>1, <3>2 DEF LoadedSound
  <2>2. CASE /\ loaded' = Append(loaded, e) /\ Valid(m) /\ ~NameSeen(m) /\ ~ToolSeen(m)
             /\ claimed' = claimed \union {<<"name", m.name>>, <<"tool", m.tool>>}
    <3>1. /\ Range(loaded)' = Range(loaded) \union {e}
          /\ DOMAIN loaded' = DOMAIN loaded \union {Len(loaded) + 1}
          /\ loaded'[Len(loaded) + 1] = e
          /\ \A i \in DOMAIN loaded : loaded'[i] = loaded[i] /\ i # Len(loaded) + 1
      BY <1>4, <1>5, <2>2, RangeOfAppend
    <3>2. ASSUME NEW l \in Range(loaded)'
          PROVE  /\ Valid(l[2]) /\ <<"name", l[2].name>> \in claimed'
                 /\ <<"tool", l[2].tool>> \in claimed'
      BY <1>1, <1>4, <2>2, <3>1 DEF LoadedSound
    <3>3. ASSUME NEW i \in DOMAIN loaded
          PROVE  /\ loaded[i][2].name # m.name
                 /\ m.tool # Missing => loaded[i][2].tool # m.tool
      <4>1. loaded[i] \in Range(loaded)
        BY DEF Range
      <4>2. /\ <<"name", loaded[i][2].name>> \in claimed
            /\ <<"tool", loaded[i][2].tool>> \in claimed
        BY <1>1, <4>1 DEF LoadedSound
      <4> QED BY <2>2, <4>2 DEF NameSeen, ToolSeen
    <3>4. ASSUME NEW i \in DOMAIN loaded', NEW j \in DOMAIN loaded', i # j
          PROVE  /\ loaded'[i][2].name # loaded'[j][2].name
                 /\ loaded'[i][2].tool # Missing => loaded'[i][2].tool # loaded'[j][2].tool
      <4>1. CASE i \in DOMAIN loaded /\ j \in DOMAIN loaded
        BY <1>1, <3>1, <3>4, <4>1 DEF LoadedSound
      <4>2. CASE i \in DOMAIN loaded /\ j = Len(loaded) + 1
        BY <1>4, <3>1, <3>3, <4>2
      <4>3. CASE i = Len(loaded) + 1 /\ j \in DOMAIN loaded
        BY <1>4, <3>1, <3>3, <4>3
      <4> QED BY <3>1, <3>4, <4>1, <4>2, <4>3
    <3> QED BY <3>2, <3>4 DEF LoadedSound
  <2> QED BY <1>6, <2>1, <2>2
<1>13. EarlierFirst'
  <2>1. ASSUME NEW r \in Read', NEW g \in paths'
        PROVE  r[1] < g
    <3>1. g \in paths /\ g # f /\ f < g
      BY <1>2, <1>3
    <3>2. CASE r \in Read
      BY <1>1, <3>1, <3>2 DEF EarlierFirst
    <3>3. CASE r = e
      BY <1>4, <3>1, <3>3
    <3> QED BY <1>7, <3>2, <3>3
  <2>2. ASSUME NEW s \in Range(skipped)', Valid(s[2])
        PROVE  \E r \in Read' :
                 /\ r[1] < s[1] /\ Valid(r[2])
                 /\ r[2].name = s[2].name \/ (s[2].tool # Missing /\ r[2].tool = s[2].tool)
    <3>1. CASE s \in Range(skipped)
      BY <1>1, <1>7, <2>2, <3>1 DEF EarlierFirst
    <3>2. CASE s = e /\ skipped' = Append(skipped, e)
      <4>1. NameSeen(m) \/ ToolSeen(m)
        BY <1>4, <1>6, <2>2, <3>2, RangeOfAppend
      <4>2. PICK c \in claimed : c = <<"name", m.name>> \/ (m.tool # Missing /\ c = <<"tool", m.tool>>)
        BY <4>1 DEF NameSeen, ToolSeen
      <4>3. PICK r \in Read : Valid(r[2]) /\ c \in {<<"name", r[2].name>>, <<"tool", r[2].tool>>}
        BY <1>1 DEF ClaimsHeld
      <4>4. r[2].name = m.name \/ (m.tool # Missing /\ r[2].tool = m.tool)
        BY <4>2, <4>3
      <4>5. r[1] < f
        BY <1>1, <1>3 DEF EarlierFirst
      <4> QED BY <1>4, <1>7, <3>2, <4>3, <4>4, <4>5
    <3>3. CASE skipped' = skipped
      <4>1. s \in Range(skipped)
        BY <3>3
      <4> QED BY <3>1, <4>1
    <3>4. CASE skipped' = Append(skipped, e)
      <4>1. Range(skipped)' = Range(skipped) \union {e}
        BY <1>4, <1>5, <3>4, RangeOfAppend
      <4> QED BY <3>1, <3>2, <3>4, <4>1
    <3> QED BY <1>6, <3>3, <3>4
  <2> QED BY <2>1, <2>2 DEF EarlierFirst
<1> QED BY <1>8, <1>9, <1>10, <1>11, <1>12, <1>13 DEF CatalogInv

\* A step sent, or refused for a parameter nobody supplied.
LEMMA StepKeeps ==
  ASSUME PluginAssumption, CatalogInv, Step
  PROVE  CatalogInv'
<1>1. /\ CatalogTypes /\ ScanFresh /\ LoadedSound /\ ClaimsHeld /\ EarlierFirst
      /\ RunSound /\ SentFaithful
  BY DEF CatalogInv
<1>2. /\ stage = "steps" /\ stage' \in {"steps", "over"}
      /\ files' = files /\ paths' = paths /\ loaded' = loaded /\ skipped' = skipped
      /\ claimed' = claimed /\ order' = order /\ denied' = denied
      /\ running' = running /\ bound' = bound
  BY DEF Step, Answer, dirVars, scanVars
<1>3. CatalogTypes'
  BY <1>1, <1>2 DEF CatalogTypes
<1>4. ScanFresh' /\ RunSound'
  BY <1>1, <1>2 DEF ScanFresh, RunSound
<1>5. LoadedSound' /\ ClaimsHeld' /\ EarlierFirst'
  <2>1. LoadedSound'
    BY <1>1, <1>2 DEF LoadedSound
  <2>2. ClaimsHeld'
    BY <1>1, <1>2 DEF ClaimsHeld, Read
  <2>3. EarlierFirst'
    BY <1>1, <1>2 DEF EarlierFirst, Read
  <2> QED BY <2>1, <2>2, <2>3
<1>6. \A i : Called(i)' = Called(i)
  BY <1>2 DEF Called
<1> PICK n : n = Len(sent)
  OBVIOUS
<1> DEFINE step == running.steps[n + 1]
<1>7. /\ n \in Nat /\ sent = [i \in 1..n |-> Called(i)]
      /\ \A i \in 1..n : Refs(running.steps[i]) \subseteq DOMAIN bound
  BY <1>1 DEF SentFaithful
<1>8. \/ sent' = sent
      \/ /\ Refs(step) \subseteq DOMAIN bound
         /\ sent' = Append(sent, Called(n + 1))
  BY DEF Step, Answer, Called
<1>9. SentFaithful'
  <2>1. CASE sent' = sent
    BY <1>2, <1>6, <1>7, <2>1 DEF SentFaithful
  <2>2. CASE /\ Refs(step) \subseteq DOMAIN bound
             /\ sent' = Append(sent, Called(n + 1))
    <3> DEFINE S == {Called(i) : i \in 1..(n + 1)}
               k == n + 1
               last == Called(k)
    <3> HIDE DEF last
    <3>1. sent \in Seq(S) /\ Len(sent) = n
      BY <1>7
    <3>2. last \in S
      BY <1>7 DEF last
    <3> HIDE DEF S
    <3>3. /\ Append(sent, last) \in Seq(S) /\ Len(Append(sent, last)) = k
          /\ Append(sent, last)[k] = last
          /\ \A i \in 1..n : Append(sent, last)[i] = sent[i]
      BY <3>1, <3>2, AppendProperties
    <3>4. sent' = Append(sent, last)
      BY <2>2 DEF last
    <3>5. sent' \in Seq(S) /\ Len(sent') = k /\ k \in Nat
      BY <1>7, <3>3, <3>4
    <3>6. \A i \in 1..k : sent'[i] = Called(i)'
      <4>1. \A i \in 1..n : sent'[i] = Called(i)'
        BY <1>6, <1>7, <3>3, <3>4
      <4>2. sent'[k] = Called(k)'
        BY <1>6, <3>3, <3>4 DEF last
      <4>3. \A i \in 1..k : i \in 1..n \/ i = k
        BY <1>7
      <4> HIDE DEF k
      <4> QED BY <4>1, <4>2, <4>3
    <3>7. \A i \in 1..k : Refs(running.steps[i]) \subseteq DOMAIN bound
      <4>1. \A i \in 1..k : i \in 1..n \/ i = k
        BY <1>7
      <4>2. Refs(running.steps[k]) \subseteq DOMAIN bound
        BY <2>2
      <4> HIDE DEF k
      <4> QED BY <1>7, <4>1, <4>2
    <3> HIDE DEF k
    <3>8. sent' = [i \in 1..k |-> sent'[i]]
      BY <3>5
    <3>9. sent' = [i \in 1..k |-> Called(i)']
      BY <3>6, <3>8
    <3> QED BY <1>2, <3>5, <3>7, <3>9 DEF SentFaithful
  <2> QED BY <1>8, <2>1, <2>2
<1> QED BY <1>3, <1>4, <1>5, <1>9 DEF CatalogInv

\* The end of a scan runs a manifest that was loaded, if anything.
LEMMA LookUpKeeps ==
  ASSUME PluginAssumption, CatalogInv, LookUp
  PROVE  CatalogInv'
<1> DEFINE found == IF order.op = "exposed" THEN Exposing(order.name) ELSE Named(order.name)
           m == (CHOOSE l \in found : TRUE)[2]
<1>1. /\ CatalogTypes /\ ScanFresh /\ LoadedSound /\ ClaimsHeld /\ EarlierFirst
      /\ RunSound /\ SentFaithful
  BY DEF CatalogInv
<1>2. /\ stage = "load" /\ stage' \in {"steps", "over"}
      /\ files' = files /\ paths' = paths /\ loaded' = loaded /\ skipped' = skipped
      /\ claimed' = claimed /\ order' = order /\ denied' = denied /\ sent' = sent
  BY PluginAssumption, <1>1 DEF LookUp, Answer, dirVars, scanVars, ScanFresh
<1>3. sent = <<>>
  BY <1>1, <1>2 DEF ScanFresh
<1>4. stage' = "steps" =>
        /\ order.op # "plugin_reload" /\ found # {} /\ ~PluginDenied(m)
        /\ ~BindError(m, order.params) /\ running' = m /\ bound' = order.params
  BY DEF LookUp, Answer
<1>5. CatalogTypes'
  BY <1>1, <1>2 DEF CatalogTypes
<1>6. ScanFresh'
  BY <1>1, <1>2 DEF ScanFresh
<1>7. LoadedSound' /\ ClaimsHeld' /\ EarlierFirst'
  <2>1. LoadedSound'
    BY <1>1, <1>2 DEF LoadedSound
  <2>2. ClaimsHeld'
    BY <1>1, <1>2 DEF ClaimsHeld, Read
  <2>3. EarlierFirst'
    BY <1>1, <1>2 DEF EarlierFirst, Read
  <2> QED BY <2>1, <2>2, <2>3
<1>8. SentFaithful'
  BY <1>2, <1>3 DEF SentFaithful
<1>9. RunSound'
  <2> SUFFICES ASSUME stage' = "steps"
               PROVE  /\ m \in Contents /\ Valid(m) /\ ~BindError(m, order.params)
                      /\ m.name \notin denied /\ (m.tool # Missing => m.tool \notin denied)
    BY <1>2, <1>3, <1>4 DEF RunSound
  <2>1. PICK l \in found : l[2] = m
    BY <1>4
  <2>2. l \in Range(loaded) /\ (order.op = "exposed" => l[2].tool = order.name)
    BY <2>1 DEF Named, Exposing
  <2>3. l \in Pairs
    BY <1>1, <2>2 DEF CatalogTypes, Range
  <2>4. m \in Contents /\ Valid(m)
    BY <1>1, <2>1, <2>2, <2>3 DEF LoadedSound, Pairs
  <2>5. order \in Orders /\ (order.op = "exposed" => order.name \notin denied)
    BY <1>1, <1>2 DEF ScanFresh
  <2>6. order.op \in {"plugin_run", "exposed"}
    BY <1>4, <2>5 DEF PluginAssumption
  <2>7. m.name \notin denied /\ (m.tool # Missing => m.tool \notin denied)
    BY <1>4, <2>1, <2>2, <2>5, <2>6 DEF PluginDenied
  <2> QED BY <1>4, <2>4, <2>7
<1> QED BY <1>5, <1>6, <1>7, <1>8, <1>9 DEF CatalogInv

\* The directory's changes, a call's start and its end.
LEMMA OthersKeep ==
  ASSUME PluginAssumption, CatalogInv,
         \/ \E f \in Files, c \in Manifests \union {Broken, Missing} : Edit(f, c)
         \/ \E o \in Orders : Begin(o)
         \/ Complete
         \/ UNCHANGED catalogVars
  PROVE  CatalogInv'
<1>1. /\ CatalogTypes /\ ScanFresh /\ LoadedSound /\ ClaimsHeld /\ EarlierFirst
      /\ RunSound /\ SentFaithful
  BY DEF CatalogInv
<1>2. /\ loaded' = loaded /\ skipped' = skipped /\ claimed' = claimed /\ denied' = denied
      /\ running' = running /\ bound' = bound /\ sent' = sent
  BY DEF Edit, Begin, Complete, catalogVars, dirVars, scanVars, runVars
<1>3. LoadedSound' /\ ClaimsHeld'
  BY <1>1, <1>2 DEF LoadedSound, ClaimsHeld, Read
<1>4. SentFaithful'
  BY <1>1, <1>2 DEF SentFaithful, Called
<1>5. stage' = "steps" => stage = "steps"
  BY DEF Edit, Begin, Complete, Answer, catalogVars
<1>6. RunSound'
  BY <1>1, <1>2, <1>5 DEF RunSound
<1>7. CatalogTypes' /\ EarlierFirst' /\ ScanFresh'
  <2>1. CASE \E f \in Files, c \in Manifests \union {Broken, Missing} : Edit(f, c)
    <3>1. PICK f \in Files, c \in Manifests \union {Broken, Missing} : Edit(f, c)
      BY <2>1
    <3>2. /\ files' = [files EXCEPT ![f] = c]
          /\ stage' = stage /\ paths' = paths /\ order' = order
      BY <3>1 DEF Edit, scanVars
    <3>3. c \in Contents
      <4>1. c \in Manifests \/ c \in {Broken, Missing}
        BY <3>1
      <4> QED BY <4>1 DEF Contents
    <3> QED BY <1>1, <1>2, <3>2, <3>3 DEF CatalogTypes, EarlierFirst, ScanFresh, Read
  <2>2. CASE \E o \in Orders : Begin(o)
    <3>1. PICK o \in Orders : Begin(o)
      BY <2>2
    <3>2. /\ stage = "idle" /\ stage' = "load" /\ files' = files /\ order' = o
          /\ paths' \in SUBSET Files /\ (o.op = "exposed" => o.name \notin denied)
      BY <3>1 DEF Begin, Listed, There, dirVars
    <3>3. loaded = <<>> /\ skipped = <<>> /\ sent = <<>>
      BY <1>1, <3>2 DEF ScanFresh
    <3>4. Read' = {} /\ Range(skipped)' = {}
      BY <1>2, <3>3 DEF Read, Range
    <3>5. CatalogTypes'
      BY <1>1, <1>2, <3>2 DEF CatalogTypes
    <3>6. ScanFresh'
      BY <1>2, <3>2, <3>3 DEF ScanFresh
    <3> QED BY <3>4, <3>5, <3>6 DEF EarlierFirst
  <2>3. CASE Complete \/ UNCHANGED catalogVars
    <3>1. /\ stage' = stage \/ (stage = "steps" /\ stage' = "over")
          /\ files' = files /\ paths' = paths /\ order' = order
      BY <2>3 DEF Complete, Answer, catalogVars, dirVars, scanVars
    <3> QED BY <1>1, <1>2, <3>1 DEF CatalogTypes, EarlierFirst, ScanFresh, Read
  <2> QED BY <2>1, <2>2, <2>3
<1> QED BY <1>3, <1>4, <1>6, <1>7 DEF CatalogInv

\* The invariant of a scan and the run behind it.
THEOREM CatalogInvariant ==
  PluginAssumption => (CatalogSpec => []CatalogInv)
<1> SUFFICES ASSUME PluginAssumption PROVE CatalogSpec => []CatalogInv
  OBVIOUS
<1>1. CatalogInit => CatalogInv
  BY CatalogStarts
<1>2. CatalogInv /\ [CatalogNext]_catalogVars => CatalogInv'
  BY LoadKeeps, StepKeeps, LookUpKeeps, OthersKeep DEF CatalogNext
<1> QED BY <1>1, <1>2, PTL DEF CatalogSpec

\* Every leaf sent is the manifest's, substituted in one pass.
LEMMA SentOnce ==
  ASSUME PluginAssumption, CatalogInv
  PROVE  SubstitutedOnce
<1>1. RunSound /\ SentFaithful
  BY DEF CatalogInv
<1> SUFFICES ASSUME NEW i \in DOMAIN sent, NEW j \in DOMAIN sent[i].args
             PROVE  LET source == running.steps[i].args[j]
                        leaf == sent[i].args[j]
                    IN /\ source = <<Dollar, Dollar>> => leaf.text = <<Dollar>>
                       /\ \A p \in DOMAIN Params(running):
                            /\ source = Reference(p) =>
                                 leaf = bound[p] /\ leaf.ty = Params(running)[p].ty
                            /\ source = <<Dollar>> \o Reference(p) => leaf.text = Reference(p)
  BY DEF SubstitutedOnce
<1> DEFINE step == running.steps[i]
           source == step.args[j]
           leaf == sent[i].args[j]
<1>2. /\ i \in 1..Len(sent) /\ sent # <<>>
      /\ sent[i] = Called(i) /\ Refs(step) \subseteq DOMAIN bound
  <2>1. DOMAIN sent = 1..Len(sent) /\ \A k \in 1..Len(sent) : sent[k] = Called(k)
    <3>1. sent = [k \in 1..Len(sent) |-> Called(k)]
      BY <1>1 DEF SentFaithful
    <3> QED BY <3>1
  <2>2. sent # <<>>
    OBVIOUS
  <2> QED BY <1>1, <2>1, <2>2 DEF SentFaithful
<1>3. sent[i].args = StepArgs(step, bound)
  BY <1>2 DEF Called
<1>4. j \in DOMAIN step.args /\ leaf = Substituted(source, bound)
  BY <1>3 DEF StepArgs
<1>5. running \in Contents /\ Valid(running) /\ ~BindError(running, bound)
  BY <1>1, <1>2 DEF RunSound
<1> HIDE DEF source, leaf, step
<1>6. source = <<Dollar, Dollar>> => leaf.text = <<Dollar>>
  BY <1>4, DollarSpelled
<1>7. ASSUME NEW p \in DOMAIN Params(running)
      PROVE  /\ source = Reference(p) => leaf = bound[p] /\ leaf.ty = Params(running)[p].ty
             /\ source = <<Dollar>> \o Reference(p) => leaf.text = Reference(p)
  <2>1. p \in ParamNames
    <3>1. p \in DOMAIN running.params \union DOMAIN running.toolParams
      BY DEF Params
    <3>2. DOMAIN running.params \subseteq ParamNames /\ running \notin {Missing, Broken}
      BY <1>5 DEF Valid
    <3>3. running.tool # Missing => DOMAIN running.toolParams \subseteq ParamNames
      BY <1>5 DEF Valid, ToolValid
    <3>4. running.tool = Missing => DOMAIN running.toolParams = {}
      <4>1. running.tool = Missing => running.toolParams = <<>>
        BY <1>5, <3>2 DEF PluginAssumption
      <4> QED BY <4>1
    <3> QED BY <3>1, <3>2, <3>3, <3>4
  <2>2. /\ Segments(Reference(p)) = <<Ref(p)>>
        /\ Substituted(Reference(p), bound) = bound[p]
    BY <2>1, SubstitutedReference
  <2>3. Substituted(<<Dollar>> \o Reference(p), bound).text = Reference(p)
    BY <2>1, EscapeSpelled
  <2>4. ASSUME source = Reference(p) PROVE p \in DOMAIN bound
    <3>1. source \in Range(step.args)
      BY <1>4 DEF source, Range
    <3>2. Segments(source) = <<Ref(p)>>
      BY <2>2, <2>4
    <3>3. 1 \in DOMAIN Segments(source) /\ Segments(source)[1].ref /\ Segments(source)[1].text = p
      BY <3>2 DEF Ref
    <3>4. p \in Refs(step)
      BY <3>1, <3>3 DEF Refs
    <3> QED BY <1>2, <3>4 DEF step
  <2>5. p \in DOMAIN bound => bound[p].ty = Params(running)[p].ty
    BY <1>5 DEF BindError
  <2> QED BY <1>4, <2>2, <2>3, <2>4, <2>5
<1> QED BY <1>6, <1>7 DEF source, leaf, step

\* The first file in lexical order that claims a name has it, whatever is done to
\* the files during the scan; a text is substituted once; and a plugin denied under
\* either of its names runs no step.
THEOREM PluginsRunAsWritten ==
  PluginAssumption => (CatalogSpec => []PluginsSound)
<1> SUFFICES ASSUME PluginAssumption PROVE CatalogSpec => []PluginsSound
  OBVIOUS
<1>1. ASSUME CatalogInv PROVE PluginsSound
  <2>1. CatalogTypes /\ LoadedSound /\ EarlierFirst /\ RunSound
    BY <1>1 DEF CatalogInv
  <2>2. FirstFileWins
    <3>1. ASSUME NEW i \in DOMAIN loaded
          PROVE  {loaded[i][2].name, loaded[i][2].tool} \intersect StaticTools = {}
      <4>1. Valid(loaded[i][2])
        BY <2>1 DEF LoadedSound, Range
      <4> QED BY <4>1 DEF Valid, ToolValid, PluginAssumption
    <3> QED BY <2>1, <3>1 DEF FirstFileWins, LoadedSound, EarlierFirst, Read
  <2>3. SubstitutedOnce
    BY <1>1, SentOnce
  <2>4. DeniedEitherName
    BY <2>1 DEF DeniedEitherName, RunSound
  <2> QED BY <2>2, <2>3, <2>4 DEF PluginsSound
<1> QED BY <1>1, CatalogInvariant, PTL
=============================================================================
