---------------------------- MODULE HistoryStore ----------------------------
(***************************************************************************)
(* The encrypted action history of ultranix-mcp (security/history.rs):     *)
(* one file of sealed frames chained through their AAD, appended to by     *)
(* record(), rewritten on eviction, wiped by clear(), parsed by load().    *)
(*                                                                         *)
(* Each system call on the file is a step.  A process holds the store's    *)
(* mutex from the first step of an operation to the last, so it is in one  *)
(* operation at a time; it may die between any two steps, and other        *)
(* processes work on the same files (nothing locks the state directory).   *)
(***************************************************************************)
EXTENDS Naturals, Sequences, FiniteSets, Functions

CONSTANTS
  Procs,       \* server processes that share the state directory
  MaxRecords,  \* retention cap
  Worlds,      \* for every behaviour, which things may go wrong in it
  MaxOps,      \* bound: records and rewrites made in a behaviour
  MaxClears,   \* bound: clears and external deletions
  None         \* Option::None

\* A write of record() fails; so does taking a cut append back; an append is cut short
\* by a crash; a chmod fails; the key file is cut short; a call of clear() fails; the
\* user deletes the file.
FaultKinds == {"write", "rollback", "torn", "chmod", "key", "wipe", "delete"}

\* evict_batch; a cap of 1 would evict the record being added.
EvictBatch == IF MaxRecords \div 10 > 1 THEN MaxRecords \div 10 ELSE 1

ASSUME StoreAssumption ==
  /\ MaxRecords \in Nat /\ MaxRecords > EvictBatch
  /\ Worlds \subseteq SUBSET FaultKinds
  /\ MaxOps \in Nat /\ MaxClears \in Nat
  /\ {None, "short"} \cap (Procs \union {"install"}) = {} /\ None # "short"

VARIABLES
  faults,  \* what may go wrong in this behaviour
  file,    \* history.json: its format and frames
  tmp,     \* history.json.tmp: the frames about to replace it
  keyFile, \* history.key: absent (None), "short", or who generated it
  mem,     \* process -> its Inner
  pc,      \* process -> step of the operation that holds the mutex
  result,  \* process -> how its last record() or clear() ended
  gen,     \* seals made so far: names records and nonces apart
  wipes,   \* bound: clears and deletions so far
  acked    \* history variable: records reported as stored since the last wipe

vars == <<faults, file, tmp, keyFile, mem, pc, result, gen, wipes, acked>>

-----------------------------------------------------------------------------
(* Frames and files *)

\* AAD of the first frame: the hash of the magic header.
Magic == <<0, 0>>

\* A record sealed once has one hash; sealed again it has another.
Hash(frame) == <<frame.rec.id, frame.nonce>>

Seal(rec, key, aad, nonce) ==
  [rec |-> rec, key |-> key, aad |-> aad, nonce |-> nonce, whole |-> TRUE]

TailOf(frames) == IF frames = <<>> THEN Magic ELSE Hash(frames[Len(frames)])

\* MUTANT of SealAll: every frame is sealed against the magic header.
SealAllFlat(recs, key, nonce) ==
  [k \in DOMAIN recs |-> Seal(recs[k], key, Magic, nonce)]

\* persist_v2: all records sealed anew, each against the hash of the one before.
SealAll(recs, key, nonce) ==
  [k \in DOMAIN recs |->
     Seal(recs[k], key, IF k = 1 THEN Magic ELSE <<recs[k-1].id, nonce>>, nonce)]

File(fmt, frames) == [fmt |-> fmt, frames |-> frames]
NoFile == File("absent", <<>>)
\* Zeros, or frames without the magic header: read as v1, fails to decrypt.
Junk == File("junk", <<>>)

Records(frames) == [k \in DOMAIN frames |-> frames[k].rec]

\* parse_frames: every tag check against the chain, and the index check.
Parses(frames, key) ==
  \A k \in DOMAIN frames :
    /\ frames[k].whole /\ frames[k].key = key
    /\ frames[k].aad = TailOf(SubSeq(frames, 1, k - 1))
    /\ k > 1 => frames[k].rec.index > frames[k-1].rec.index

\* load succeeds: nothing to read, or it decrypts under the key on disk.
Readable ==
  \/ file.fmt \in {"absent", "empty"}
  \/ file.fmt = "v1" /\ keyFile = file.frames[1].key
  \/ file.fmt = "v2" /\ keyFile \notin {None, "short"}
     /\ Parses(file.frames, keyFile)

-----------------------------------------------------------------------------
(* Opening *)

FreshMem == [records |-> <<>>, next |-> 0, key |-> None, fmt |-> "absent",
             tail |-> Magic, pending |-> None]

\* MUTANT of NextIndex: numbering resumes from the number of records.
NextIndexCount(recs) == Len(recs)

\* One past the largest index on file; indices increase along the file.
NextIndex(recs) == IF recs = <<>> THEN 0 ELSE recs[Len(recs)].index + 1

\* history_store: a failed open is not remembered, the next call tries again.
Open(p) ==
  /\ pc[p] = "closed" /\ Readable
  /\ LET recs == Records(file.frames)
         kept == SubSeq(recs, Len(recs) - MaxRecords + 1, Len(recs))
     IN mem' = [mem EXCEPT ![p] =
          IF file.fmt \in {"absent", "empty"} THEN FreshMem
          ELSE [FreshMem EXCEPT
                  !.records = IF Len(recs) > MaxRecords THEN kept ELSE recs,
                  !.next = NextIndex(recs), !.key = keyFile, !.fmt = file.fmt,
                  !.tail = IF file.fmt = "v2" THEN TailOf(file.frames) ELSE Magic]]
  /\ pc' = [pc EXCEPT ![p] = "idle"]
  /\ UNCHANGED <<faults, file, tmp, keyFile, result, gen, wipes, acked>>

-----------------------------------------------------------------------------
(* record *)

At(p, step) == pc[p] = step
Goto(p, step) == pc' = [pc EXCEPT ![p] = step]

\* The operation ends and the mutex is released.
Finish(p, outcome) ==
  /\ pc' = [pc EXCEPT ![p] = "idle"]
  /\ result' = [result EXCEPT ![p] = outcome]

\* A failed record() pops the record it had pushed.
FailWith(p, why) == Finish(p, why) /\ mem' = [mem EXCEPT ![p].pending = None]
Fail(p) == FailWith(p, "error")

\* MUTANT of KeepFrom: eviction drains one record more than the batch.
KeepFromExtra(recs) ==
  IF Len(recs) > MaxRecords THEN Len(recs) - (MaxRecords - EvictBatch) + 1 ELSE 0

\* How many of the oldest records an append drops.
KeepFrom(recs) ==
  IF Len(recs) > MaxRecords THEN Len(recs) - (MaxRecords - EvictBatch) ELSE 0

Pushed(p) == Append(mem[p].records, mem[p].pending)
Kept(p) == SubSeq(Pushed(p), KeepFrom(Pushed(p)) + 1, Len(Pushed(p)))

\* Once the key is known: append to a v2 file, else write it whole.
WritePath(m) ==
  IF KeepFrom(Append(m.records, m.pending)) > 0 \/ m.fmt # "v2"
  THEN "seal" ELSE "append"

\* record(): the key from memory, else from the key file, else a new one.
Begin(p) ==
  /\ At(p, "idle") /\ gen < MaxOps
  /\ gen' = gen + 1
  /\ LET key == IF mem[p].key # None THEN mem[p].key ELSE keyFile
         m == [mem[p] EXCEPT !.key = key,
                 !.pending = [id |-> gen', index |-> mem[p].next]]
     IN IF key = "short" THEN Finish(p, "error") /\ UNCHANGED mem
        ELSE /\ mem' = [mem EXCEPT ![p] = m]
             /\ Goto(p, IF key = None THEN "key" ELSE WritePath(m))
             /\ UNCHANGED result
  /\ UNCHANGED <<faults, file, tmp, keyFile, wipes, acked>>

\* resolve_key found no key file: 32 random bytes are written to it.
GenerateKey(p) ==
  /\ At(p, "key")
  /\ \/ /\ "key" \in faults
        /\ keyFile' = "short" /\ Fail(p)
     \/ LET m == [mem[p] EXCEPT !.key = p] IN
        /\ keyFile' = p /\ mem' = [mem EXCEPT ![p] = m]
        /\ Goto(p, WritePath(m)) /\ UNCHANGED result
  /\ UNCHANGED <<faults, file, tmp, gen, wipes, acked>>

\* The frames land at the end of whatever is at the path now.
Landed(frame) ==
  IF file.fmt = "v2" THEN File("v2", Append(file.frames, frame)) ELSE Junk

NewFrame(p) == Seal(mem[p].pending, mem[p].key, mem[p].tail, mem[p].pending.id)

\* append_frame, the write.  No file: the open fails, and the fallback guard
\* looks for "No such file" in the outermost context, which never has it.  A
\* failed write is rolled back to the length before; if that fails too, nobody
\* looks, and what was written of the frame stays.
AppendFrame(p) ==
  /\ At(p, "append")
  /\ \/ file.fmt = "absent" /\ FailWith(p, "missing") /\ UNCHANGED file
     \/ file.fmt # "absent" /\ "write" \in faults /\ Fail(p) /\ UNCHANGED file
     \/ /\ file.fmt # "absent" /\ file' = Landed(NewFrame(p))
        /\ Goto(p, "chmod") /\ UNCHANGED <<mem, result>>
     \/ /\ file.fmt # "absent" /\ file' = Landed([NewFrame(p) EXCEPT !.whole = FALSE])
        /\ \/ "rollback" \in faults /\ Fail(p)
           \/ /\ "torn" \in faults /\ mem' = [mem EXCEPT ![p] = FreshMem]
              /\ Goto(p, "closed") /\ UNCHANGED result
  /\ UNCHANGED <<faults, tmp, keyFile, gen, wipes, acked>>

\* persist_v2, first half: everything kept goes to the temporary file.
SealTmp(p) ==
  /\ At(p, "seal")
  /\ \/ "write" \in faults /\ Fail(p) /\ UNCHANGED tmp
     \/ /\ tmp' = SealAll(Kept(p), mem[p].key, mem[p].pending.id)
        /\ Goto(p, "rename") /\ UNCHANGED <<mem, result>>
  /\ UNCHANGED <<faults, file, keyFile, gen, wipes, acked>>

\* Second half: the temporary file takes the place of the history.
RenameTmp(p) ==
  /\ At(p, "rename")
  /\ \/ /\ tmp = None \/ "write" \in faults
        /\ Fail(p) /\ UNCHANGED <<file, tmp>>
     \/ /\ tmp # None
        /\ file' = File("v2", tmp) /\ tmp' = None
        /\ Goto(p, "chmod") /\ UNCHANGED <<mem, result>>
  /\ UNCHANGED <<faults, keyFile, gen, wipes, acked>>

\* MUTANT of TailAfter: the tail is only updated by an append.
TailAfterAppend(p) ==
  IF KeepFrom(Pushed(p)) > 0 THEN mem[p].tail
  ELSE <<mem[p].pending.id, mem[p].pending.id>>

\* The hash of the frame that was written last.
TailAfter(p) == <<mem[p].pending.id, mem[p].pending.id>>

\* set_mode on the path, then the record is committed to memory.
Commit(p) ==
  /\ At(p, "chmod")
  /\ \/ /\ file.fmt = "absent" \/ "chmod" \in faults
        /\ Fail(p) /\ UNCHANGED acked
     \/ /\ file.fmt # "absent"
        /\ mem' = [mem EXCEPT ![p] =
                     [@ EXCEPT !.records = Kept(p), !.next = mem[p].next + 1, !.fmt = "v2",
                               !.tail = TailAfter(p), !.pending = None]]
        /\ acked' = Append(acked, mem[p].pending)
        /\ Finish(p, "ok")
  /\ UNCHANGED <<faults, file, tmp, keyFile, gen, wipes>>

-----------------------------------------------------------------------------
(* clear *)

\* The index restarts with the records.
Reset(p) ==
  mem' = [mem EXCEPT ![p] = [FreshMem EXCEPT !.key = mem[p].key]]

\* fs::write opens the file truncated; no file at all is already clear.
Truncate(p) ==
  /\ At(p, "idle") /\ wipes < MaxClears
  /\ wipes' = wipes + 1
  /\ \/ /\ file.fmt = "absent"
        /\ Reset(p) /\ Finish(p, "ok") /\ acked' = <<>> /\ UNCHANGED file
     \/ /\ file.fmt # "absent"
        /\ file' = File("empty", <<>>) /\ acked' = <<>>
        /\ Goto(p, "zero") /\ UNCHANGED <<mem, result>>
     \/ /\ "wipe" \in faults
        /\ Finish(p, "error") /\ UNCHANGED <<file, mem, acked>>
  /\ UNCHANGED <<faults, tmp, keyFile, gen>>

\* As many zeros as the file had bytes, into the file that was opened: one
\* that was renamed over it, or deleted, does not get them.
Overwrite(p) ==
  /\ At(p, "zero")
  /\ \/ /\ file' = IF file.fmt \in {"absent", "v2"} THEN file ELSE Junk
        /\ Goto(p, "remove") /\ UNCHANGED result
     \/ "wipe" \in faults /\ Finish(p, "error") /\ UNCHANGED file
  /\ UNCHANGED <<faults, tmp, keyFile, mem, gen, wipes, acked>>

\* The file goes, then the records; a failure leaves memory as it was.
Unlink(p) ==
  /\ At(p, "remove")
  /\ \/ /\ file.fmt # "absent"
        /\ file' = NoFile /\ Reset(p) /\ Finish(p, "ok")
     \/ /\ file.fmt = "absent" \/ "wipe" \in faults
        /\ Finish(p, "error") /\ UNCHANGED <<file, mem>>
  /\ UNCHANGED <<faults, tmp, keyFile, gen, wipes, acked>>

-----------------------------------------------------------------------------
(* The world outside *)

\* The process dies, whatever it was doing; the next one opens the store anew.
Crash(p) ==
  /\ pc[p] # "closed"
  /\ mem' = [mem EXCEPT ![p] = FreshMem]
  /\ Goto(p, "closed")
  /\ result' = [result EXCEPT ![p] = None]
  /\ UNCHANGED <<faults, file, tmp, keyFile, gen, wipes, acked>>

\* The user deletes the history file.
Delete ==
  /\ "delete" \in faults /\ wipes < MaxClears
  /\ file.fmt # "absent"
  /\ file' = NoFile /\ wipes' = wipes + 1 /\ acked' = <<>>
  /\ UNCHANGED <<faults, tmp, keyFile, mem, pc, result, gen>>

\* A fresh install, or a v1 file of an earlier version with its key.
Init ==
  /\ faults \in Worlds
  /\ \/ file = NoFile /\ keyFile = None /\ acked = <<>>
     \/ /\ keyFile = "install"
        /\ acked = << [id |-> 1, index |-> 0] >>
        /\ file = File("v1", << Seal(acked[1], keyFile, Magic, 0) >>)
  /\ tmp = None
  /\ mem = [p \in Procs |-> FreshMem]
  /\ pc = [p \in Procs |-> "closed"]
  /\ result = [p \in Procs |-> None]
  /\ gen = 1 /\ wipes = 0

Step(p) ==
  \/ Open(p) \/ Begin(p) \/ GenerateKey(p) \/ AppendFrame(p)
  \/ SealTmp(p) \/ RenameTmp(p) \/ Commit(p)
  \/ Truncate(p) \/ Overwrite(p) \/ Unlink(p) \/ Crash(p)

Next == (\E p \in Procs : Step(p)) \/ Delete

Spec == Init /\ [][Next]_vars

-----------------------------------------------------------------------------
(* Lookup *)

\* get_by_index: the record at the partition point, if it has that index.
GetByIndex(recs, i) ==
  LET k == Cardinality({j \in DOMAIN recs : recs[j].index < i}) + 1 IN
  IF k \in DOMAIN recs /\ recs[k].index = i THEN recs[k] ELSE None

-----------------------------------------------------------------------------
(* Properties *)

OnFile == Records(file.frames)

\* Nothing fails but what record() and load() are written to survive: a failed
\* or torn write, a crash, a short key.
Tolerable == faults \cap {"rollback", "chmod", "wipe", "delete"} = {}

\* A framed file with no torn frame always decrypts: whatever failed, was
\* evicted, migrated or cut short, every frame is sealed against the one
\* before it (persist_v2, append_frame and parse_frames agree on the chain).
ChainHolds ==
  (Tolerable /\ file.fmt = "v2" /\ \A k \in DOMAIN file.frames : file.frames[k].whole)
    => Readable

\* "Never a silent truncation" (parse_frames): whatever fails, a file that loads
\* has every record that was reported stored since it was last wiped, up to
\* eviction from the oldest end, which never takes more than a batch.
NothingLost ==
  Readable =>
    /\ \A r \in Range(acked), q \in Range(OnFile) :
         r \notin Range(OnFile) => r.index < q.index
    /\ Len(OnFile) >= Len(acked) \/ Len(OnFile) >= MaxRecords - EvictBatch

\* "The store is the file's only writer, so tracking the tail in memory is
\* exact" (history.rs 179-181): between operations memory and file agree on
\* the format, the records and the hash the next frame is sealed against.
MemoryTracksFile ==
  \A p \in Procs : Tolerable /\ pc[p] = "idle" =>
    /\ mem[p].records = OnFile
    /\ mem[p].fmt = IF file.fmt = "empty" THEN "absent" ELSE file.fmt
    /\ file.fmt = "v2" => mem[p].tail = TailOf(file.frames)

\* "replay_action{index} selectors stay stable across FIFO evictions and
\* restarts": until the store is wiped an index names one record, the next
\* record gets an index nothing reported stored has had, and what an index
\* selects is the retained record that was reported stored under it.
IndexStable == Tolerable =>
  /\ \A r \in Range(acked), q \in Range(acked) \cup Range(OnFile) :
       r.index = q.index => r.id = q.id
  /\ \A p \in Procs, r \in Range(acked) :
       pc[p] = "idle" =>
         /\ r.index < mem[p].next
         /\ GetByIndex(mem[p].records, r.index) \in {None, r}
         /\ r \in Range(mem[p].records) => GetByIndex(mem[p].records, r.index) = r

\* "This both recovers from the missing file and preserves the store's
\* monotonic indices" (history.rs 319-322): no record() is refused because
\* the file it appends to was deleted.
DeletionRecovered == \A p \in Procs : result[p] # "missing"
=============================================================================
