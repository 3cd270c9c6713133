------------------------- MODULE HistoryStoreProofs -------------------------
(***************************************************************************)
(* Proofs about HistoryStore, for any retention cap, any number of calls   *)
(* and any mix of the faults, when one process owns the state directory.   *)
(***************************************************************************)
EXTENDS HistoryStore, DataLemmas

-----------------------------------------------------------------------------
(* Types *)

Recs == [id: Nat, index: Nat]
Keys == Procs \union {"install"}
Frames == [rec: Recs, key: Keys, aad: Nat \X Nat, nonce: Nat, whole: BOOLEAN]
Formats == {"absent", "empty", "junk", "v1", "v2"}
Inners == [records: Seq(Recs), next: Nat, key: Keys \union {None}, fmt: Formats,
           tail: Nat \X Nat, pending: Recs \union {None}]
Writing == {"append", "seal", "rename", "chmod"}
Steps == Writing \union {"closed", "idle", "key", "zero", "remove"}

\* What one process holds: while it records it has a record in hand, and once
\* it writes it has a key.
HolderOK(p) ==
  /\ mem[p] \in Inners /\ pc[p] \in Steps
  /\ pc[p] \in Writing \union {"key"} => mem[p].pending \in Recs
  /\ pc[p] \in Writing => mem[p].key \in Keys

TypeOK ==
  /\ faults \in Worlds
  /\ file \in [fmt: Formats, frames: Seq(Frames)]
  /\ file.fmt = "v1" => file.frames # <<>>
  /\ file.fmt \in {"absent", "empty", "junk"} => file.frames = <<>>
  /\ tmp \in Seq(Frames) \union {None}
  /\ keyFile \in Keys \union {None, "short"}
  /\ mem \in [Procs -> Inners] /\ pc \in [Procs -> Steps]
  /\ DOMAIN result = Procs
  /\ \A p \in Procs: HolderOK(p)
  /\ gen \in Nat /\ wipes \in Nat
  /\ acked \in Seq(Recs)

-----------------------------------------------------------------------------
(* Sequences of records and of frames *)

Rising(recs) == \A i, j \in DOMAIN recs: i < j => recs[i].index < recs[j].index
Below(recs, n) == \A i \in DOMAIN recs: recs[i].index < n

\* Everything in all is kept, but for records older than whatever is kept.
OldestGone(all, kept) ==
  \A r \in Range(all), q \in Range(kept) : r \notin Range(kept) => r.index < q.index

\* And what is gone was evicted by the retention limit, a batch at a time.
Tracks(lost, kept) ==
  /\ OldestGone(lost, kept)
  /\ Len(kept) >= Len(lost) \/ Len(kept) >= MaxRecords - EvictBatch

\* The chain, frame by frame.
AadAt(frames, k) == IF k = 1 THEN Magic ELSE Hash(frames[k - 1])
Chained(frames, key) ==
  \A k \in DOMAIN frames:
    /\ frames[k].whole /\ frames[k].key = key
    /\ frames[k].aad = AadAt(frames, k)
    /\ k > 1 => frames[k].rec.index > frames[k - 1].rec.index

\* A batch is evicted before the store is empty.
LEMMA BatchFits ==
  /\ MaxRecords \in Nat /\ EvictBatch \in Nat \ {0} /\ MaxRecords - EvictBatch \in Nat \ {0}
<1>1. MaxRecords \in Nat /\ MaxRecords > EvictBatch
  BY StoreAssumption
<1>2. MaxRecords \div 10 \in Nat
  BY <1>1
<1>3. EvictBatch \in Nat \ {0}
  BY <1>2 DEF EvictBatch
<1> QED BY <1>1, <1>3

\* The hash a frame is sealed against is the one of the frame before it.
LEMMA TailOfPrefix ==
  ASSUME NEW frames \in Seq(Frames), NEW k \in 1..(Len(frames) + 1)
  PROVE  TailOf(SubSeq(frames, 1, k - 1)) = AadAt(frames, k)
<1> DEFINE s == SubSeq(frames, 1, k - 1)
<1>1. Len(frames) \in Nat /\ \A i \in 1..(k - 1) : frames[i] \in Frames
  OBVIOUS
<1>2. /\ s \in Seq(Frames) /\ Len(s) = k - 1
      /\ \A i \in 1..(k - 1) : s[i] = frames[i]
  BY <1>1, SubSeqProperties
<1> HIDE DEF s
<1>3. CASE k = 1
  BY <1>2, <1>3 DEF TailOf, AadAt
<1>4. CASE k # 1
  <2>1. s # <<>> /\ Len(s) = k - 1 /\ s[k - 1] = frames[k - 1]
    BY <1>1, <1>2, <1>4
  <2> QED BY <1>4, <2>1 DEF TailOf, AadAt
<1> QED BY <1>3, <1>4 DEF s

\* parse_frames accepts exactly the chained frames.
LEMMA ParsesChained ==
  ASSUME NEW frames \in Seq(Frames), NEW key
  PROVE  Parses(frames, key) <=> Chained(frames, key)
<1>1. DOMAIN frames = 1..Len(frames) /\ Len(frames) \in Nat
  OBVIOUS
<1>2. \A k \in DOMAIN frames : TailOf(SubSeq(frames, 1, k - 1)) = AadAt(frames, k)
  BY <1>1, TailOfPrefix
<1> QED BY <1>2 DEF Parses, Chained

\* Whatever parses after an append parsed before it, with the new frame whole,
\* sealed against the tail and risen above the others; and conversely.
LEMMA ChainedAppend ==
  ASSUME NEW frames \in Seq(Frames), NEW f \in Frames, NEW key
  PROVE  Chained(Append(frames, f), key) <=>
           /\ Chained(frames, key) /\ f.whole /\ f.key = key /\ f.aad = TailOf(frames)
           /\ frames # <<>> => f.rec.index > frames[Len(frames)].rec.index
<1> DEFINE n == Len(frames)
           g == Append(frames, f)
<1>1. /\ n \in Nat /\ DOMAIN frames = 1..n /\ g \in Seq(Frames)
      /\ DOMAIN g = 1..(n + 1)
      /\ \A i \in 1..n : g[i] = frames[i]
      /\ g[n + 1] = f
  BY AppendProperties
<1>2. TailOf(frames) = AadAt(g, n + 1) /\ (frames # <<>> <=> n + 1 > 1)
  <2>1. CASE n = 0
    <3>1. frames = <<>>
      BY <2>1
    <3> QED BY <2>1, <3>1 DEF TailOf, AadAt
  <2>2. CASE n # 0
    <3>0. frames # <<>>
      BY <2>2
    <3> HIDE DEF g, n
    <3>1. n + 1 # 1 /\ n + 1 > 1 /\ g[n] = frames[n] /\ n \in Nat
      <4>1. n \in Nat /\ n # 0
        BY <1>1, <2>2
      <4>2. n \in 1..n
        BY <4>1
      <4> QED BY <1>1, <4>1, <4>2
    <3> DEFINE m == n + 1
    <3>2. m # 1 /\ m - 1 = n /\ g[m - 1] = frames[n]
      <4>1. m - 1 = n
        BY <3>1
      <4> QED BY <3>1, <4>1
    <3> HIDE DEF m
    <3>3. AadAt(g, m) = Hash(g[m - 1])
      BY <3>2 DEF AadAt
    <3>4. AadAt(g, m) = Hash(frames[n])
      BY <3>2, <3>3
    <3>5. TailOf(frames) = Hash(frames[n])
      BY <3>0 DEF TailOf, n
    <3> QED BY <3>0, <3>1, <3>4, <3>5 DEF m
  <2> QED BY <2>1, <2>2
<1>3. \A k \in 1..n : AadAt(g, k) = AadAt(frames, k)
  BY <1>1 DEF AadAt
<1>4. n + 1 - 1 = n
  BY <1>1
<1> HIDE DEF g, n
<1>5. \A k \in 1..n : k > 1 => k - 1 \in 1..n
  BY <1>1
<1>6. ASSUME Chained(g, key)
      PROVE  Chained(frames, key)
  <2>1. ASSUME NEW k \in 1..n
        PROVE  /\ frames[k].whole /\ frames[k].key = key
               /\ frames[k].aad = AadAt(frames, k)
               /\ k > 1 => frames[k].rec.index > frames[k - 1].rec.index
    <3>1. k \in DOMAIN g /\ g[k] = frames[k] /\ (k > 1 => g[k - 1] = frames[k - 1])
      BY <1>1, <1>5, <2>1
    <3> QED BY <1>3, <1>6, <2>1, <3>1 DEF Chained
  <2> QED BY <1>1, <2>1 DEF Chained
<1>7. ASSUME Chained(g, key)
      PROVE  /\ f.whole /\ f.key = key /\ f.aad = TailOf(frames)
             /\ frames # <<>> => f.rec.index > frames[n].rec.index
  <2>1. n + 1 \in DOMAIN g
    BY <1>1
  <2>2. n > 0 => g[n] = frames[n]
    BY <1>1
  <2> QED BY <1>1, <1>2, <1>4, <1>7, <2>1, <2>2 DEF Chained
<1>8. ASSUME /\ Chained(frames, key) /\ f.whole /\ f.key = key /\ f.aad = TailOf(frames)
             /\ frames # <<>> => f.rec.index > frames[n].rec.index,
             NEW k \in DOMAIN g
      PROVE  /\ g[k].whole /\ g[k].key = key
             /\ g[k].aad = AadAt(g, k)
             /\ k > 1 => g[k].rec.index > g[k - 1].rec.index
  <2>1. CASE k \in 1..n
    BY <1>1, <1>3, <1>5, <1>8, <2>1 DEF Chained
  <2>2. CASE k = n + 1
    <3>1. k > 1 => g[k - 1] = frames[n]
      BY <1>1, <2>2
    <3> QED BY <1>1, <1>2, <1>8, <2>2, <3>1
  <2> QED BY <1>1, <2>1, <2>2
<1> QED BY <1>6, <1>7, <1>8 DEF Chained, g, n

\* Freshly sealed records chain up, if they rise (persist_v2).
LEMMA SealAllChained ==
  ASSUME NEW recs \in Seq(Recs), NEW key \in Keys, NEW nonce \in Nat
  PROVE  /\ SealAll(recs, key, nonce) \in Seq(Frames)
         /\ Records(SealAll(recs, key, nonce)) = recs
         /\ Len(SealAll(recs, key, nonce)) = Len(recs)
         /\ recs # <<>> =>
              TailOf(SealAll(recs, key, nonce)) = <<recs[Len(recs)].id, nonce>>
         /\ Rising(recs) => Chained(SealAll(recs, key, nonce), key)
<1> DEFINE s == SealAll(recs, key, nonce)
           n == Len(recs)
           aad(k) == IF k = 1 THEN Magic ELSE <<recs[k - 1].id, nonce>>
<1>1. n \in Nat /\ DOMAIN recs = 1..n /\ \A k \in 1..n : recs[k] \in Recs
  OBVIOUS
<1>2. \A k \in 1..n : aad(k) \in Nat \X Nat
  <2> TAKE k \in 1..n
  <2>1. CASE k = 1
    BY <2>1 DEF Magic
  <2>2. CASE k # 1
    <3>1. k - 1 \in 1..n
      BY <1>1, <2>2
    <3> QED BY <1>1, <2>2, <3>1 DEF Recs
  <2> QED BY <2>1, <2>2
<1>3. s = [k \in 1..n |-> [rec |-> recs[k], key |-> key, aad |-> aad(k), nonce |-> nonce,
                           whole |-> TRUE]]
  BY <1>1 DEF SealAll, Seal
<1> HIDE DEF s, aad
<1>4. s \in Seq(Frames) /\ Len(s) = n
  <2>1. \A k \in 1..n : [rec |-> recs[k], key |-> key, aad |-> aad(k), nonce |-> nonce,
                         whole |-> TRUE] \in Frames
    BY <1>1, <1>2 DEF Frames
  <2>2. s \in [1..n -> Frames]
    BY <1>3, <2>1
  <2> QED BY <1>1, <2>2
<1>5. \A k \in 1..n : s[k].rec = recs[k] /\ s[k].key = key /\ s[k].aad = aad(k)
                      /\ s[k].nonce = nonce /\ s[k].whole
  BY <1>3
<1>6. DOMAIN s = 1..n
  BY <1>3
<1>7. Records(s) = recs
  <2>1. Records(s) = [k \in 1..n |-> recs[k]]
    BY <1>5, <1>6 DEF Records
  <2> QED BY <1>1, <2>1
<1>8. \A k \in 1..n : s[k].aad = AadAt(s, k)
  <2> TAKE k \in 1..n
  <2>1. CASE k = 1
    BY <1>5, <2>1 DEF AadAt, aad
  <2>2. CASE k # 1
    <3>1. k - 1 \in 1..n
      BY <1>1, <2>2
    <3>2. Hash(s[k - 1]) = <<recs[k - 1].id, nonce>>
      BY <1>5, <3>1 DEF Hash
    <3>3. s[k].aad = aad(k)
      BY <1>5
    <3> QED BY <2>2, <3>2, <3>3 DEF AadAt, aad
  <2> QED BY <2>1, <2>2
<1>9. recs # <<>> => TailOf(s) = <<recs[n].id, nonce>>
  <2> SUFFICES ASSUME recs # <<>> PROVE TailOf(s) = <<recs[n].id, nonce>>
    OBVIOUS
  <2>1. n \in 1..n /\ s # <<>>
    BY <1>1, <1>4
  <2> QED BY <1>4, <1>5, <2>1 DEF TailOf, Hash
<1>10. ASSUME Rising(recs), NEW k \in 1..n, k > 1
       PROVE  s[k].rec.index > s[k - 1].rec.index
  <2>1. k - 1 \in 1..n /\ k - 1 < k
    BY <1>1, <1>10
  <2>2. recs[k - 1].index < recs[k].index /\ recs[k].index \in Nat /\ recs[k - 1].index \in Nat
    BY <1>1, <1>10, <2>1 DEF Rising, Recs
  <2> QED BY <1>5, <1>10, <2>1, <2>2
<1>11. Rising(recs) => Chained(s, key)
  BY <1>5, <1>6, <1>8, <1>10 DEF Chained
<1> QED BY <1>4, <1>7, <1>9, <1>11 DEF s

\* The records of some frames.
LEMMA RecordsType ==
  ASSUME NEW frames \in Seq(Frames)
  PROVE  /\ Records(frames) \in Seq(Recs) /\ Len(Records(frames)) = Len(frames)
         /\ \A k \in 1..Len(frames) : Records(frames)[k] = frames[k].rec
<1> DEFINE n == Len(frames)
<1>1. n \in Nat /\ DOMAIN frames = 1..n /\ \A k \in 1..n : frames[k] \in Frames
  OBVIOUS
<1>2. Records(frames) = [k \in 1..n |-> frames[k].rec]
  BY <1>1 DEF Records
<1>3. \A k \in 1..n : frames[k].rec \in Recs
  BY <1>1 DEF Frames
<1> HIDE DEF n
<1>4. Records(frames) \in [1..n -> Recs]
  BY <1>2, <1>3
<1> QED BY <1>1, <1>2, <1>4 DEF n

\* One more frame, one more record.
LEMMA RecordsAppend ==
  ASSUME NEW frames \in Seq(Frames), NEW f \in Frames
  PROVE  Records(Append(frames, f)) = Append(Records(frames), f.rec)
<1> DEFINE a == Records(Append(frames, f))
           b == Append(Records(frames), f.rec)
           n == Len(frames)
<1>1. /\ n \in Nat /\ Append(frames, f) \in Seq(Frames) /\ Len(Append(frames, f)) = n + 1
      /\ \A i \in 1..n : Append(frames, f)[i] = frames[i]
      /\ Append(frames, f)[n + 1] = f
  BY AppendProperties
<1>2. /\ a \in Seq(Recs) /\ Len(a) = n + 1
      /\ \A k \in 1..(n + 1) : a[k] = Append(frames, f)[k].rec
  BY <1>1, RecordsType
<1>3. f.rec \in Recs /\ Records(frames) \in Seq(Recs) /\ Len(Records(frames)) = n
      /\ \A k \in 1..n : Records(frames)[k] = frames[k].rec
  BY RecordsType DEF Frames
<1>4. /\ b \in Seq(Recs) /\ Len(b) = n + 1
      /\ \A i \in 1..n : b[i] = Records(frames)[i]
      /\ b[n + 1] = f.rec
  BY <1>3, AppendProperties
<1> HIDE DEF a, b, n
<1>5. \A k \in 1..(n + 1) : a[k] = b[k]
  BY <1>1, <1>2, <1>3, <1>4
<1>6. a = b
  BY <1>2, <1>4, <1>5, SeqEqual
<1> QED BY <1>6 DEF a, b

-----------------------------------------------------------------------------
(* Eviction and lookup *)

\* An appended record joins the others.
LEMMA RangeAppend ==
  ASSUME NEW S, NEW s \in Seq(S), NEW x \in S
  PROVE  Range(Append(s, x)) = Range(s) \union {x}
<1> DEFINE t == Append(s, x)
           n == Len(s)
<1>1. /\ n \in Nat /\ DOMAIN s = 1..n /\ DOMAIN t = 1..(n + 1)
      /\ \A i \in 1..n : t[i] = s[i]
      /\ t[n + 1] = x
  BY AppendProperties
<1> HIDE DEF t, n
<1>2. Range(t) \subseteq Range(s) \union {x}
  BY <1>1 DEF Range
<1>3. Range(s) \subseteq Range(t)
  BY <1>1 DEF Range
<1>4. x \in Range(t)
  <2>1. n + 1 \in DOMAIN t
    BY <1>1
  <2> QED BY <1>1, <2>1 DEF Range
<1> QED BY <1>2, <1>3, <1>4 DEF t

\* Records that rise stay so with one above them.
LEMMA RisingAppend ==
  ASSUME NEW recs \in Seq(Recs), NEW x \in Recs, Below(recs, x.index)
  PROVE  /\ Rising(recs) => Rising(Append(recs, x))
         /\ \A m \in Nat : x.index < m => Below(Append(recs, x), m)
<1> DEFINE t == Append(recs, x)
           n == Len(recs)
<1>1. /\ n \in Nat /\ DOMAIN recs = 1..n /\ DOMAIN t = 1..(n + 1)
      /\ \A i \in 1..n : t[i] = recs[i] /\ recs[i].index \in Nat
      /\ t[n + 1] = x /\ x.index \in Nat
  <2>1. \A i \in 1..n : recs[i] \in Recs
    OBVIOUS
  <2> QED BY <2>1, AppendProperties DEF Recs
<1>2. \A i \in 1..n : recs[i].index < x.index
  BY <1>1 DEF Below
<1> HIDE DEF t, n
<1>3. ASSUME Rising(recs), NEW i \in 1..(n + 1), NEW j \in 1..(n + 1), i < j
      PROVE  t[i].index < t[j].index
  <2>1. i \in 1..n
    BY <1>1, <1>3
  <2>2. CASE j \in 1..n
    BY <1>1, <1>3, <2>1, <2>2 DEF Rising
  <2>3. CASE j = n + 1
    BY <1>1, <1>2, <2>1, <2>3
  <2> QED BY <1>1, <2>2, <2>3
<1>4. ASSUME NEW m \in Nat, x.index < m, NEW i \in 1..(n + 1)
      PROVE  t[i].index < m
  <2>1. CASE i \in 1..n
    BY <1>1, <1>2, <1>4, <2>1
  <2>2. CASE i = n + 1
    BY <1>1, <1>4, <2>2
  <2> QED BY <1>1, <2>1, <2>2
<1> QED BY <1>1, <1>3, <1>4 DEF Rising, Below, t

\* A record reported stored that is also kept leaves nothing lost.
LEMMA TracksAppend ==
  ASSUME NEW lost \in Seq(Recs), NEW kept \in Seq(Recs), NEW x \in Recs,
         Tracks(lost, kept), Below(lost, x.index)
  PROVE  Tracks(Append(lost, x), Append(kept, x))
<1>1. /\ Range(Append(lost, x)) = Range(lost) \union {x}
      /\ Range(Append(kept, x)) = Range(kept) \union {x}
  BY RangeAppend
<1>2. /\ Len(Append(lost, x)) = Len(lost) + 1 /\ Len(Append(kept, x)) = Len(kept) + 1
      /\ Len(lost) \in Nat /\ Len(kept) \in Nat
  BY AppendProperties
<1>3. \A r \in Range(lost) : r.index < x.index
  BY DEF Range, Below
<1>4. ASSUME NEW r \in Range(lost) \union {x}, NEW q \in Range(kept) \union {x},
             r \notin Range(kept) \union {x}
      PROVE  r.index < q.index
  BY <1>3, <1>4 DEF Tracks, OldestGone
<1>5. \/ Len(kept) + 1 >= Len(lost) + 1
      \/ Len(kept) + 1 >= MaxRecords - EvictBatch
  BY <1>2, BatchFits DEF Tracks, OldestGone
<1> QED BY <1>1, <1>2, <1>4, <1>5 DEF Tracks, OldestGone

\* What is left when the oldest go: the newest are kept, in their order.
LEMMA SuffixKept ==
  ASSUME NEW recs \in Seq(Recs), NEW from \in Nat, from <= Len(recs), Rising(recs),
         NEW kept \in Seq(Recs), Len(kept) = Len(recs) - from,
         \A i \in 1..(Len(recs) - from) : kept[i] = recs[from + i]
  PROVE  /\ from < Len(recs) => kept # <<>> /\ kept[Len(kept)] = recs[Len(recs)]
         /\ Rising(kept)
         /\ \A m : Below(recs, m) => Below(kept, m)
         /\ OldestGone(recs, kept)
         /\ Range(kept) \subseteq Range(recs)
<1> DEFINE n == Len(recs)
<1>1. /\ n \in Nat /\ DOMAIN recs = 1..n /\ from \in 0..n
      /\ \A i \in 1..n : recs[i] \in Recs
  OBVIOUS
<1>2. /\ Len(kept) = n - from
      /\ \A i \in 1..(n - from) : kept[i] = recs[from + i]
  OBVIOUS
<1>3. DOMAIN kept = 1..(n - from)
  BY <1>2
<1> HIDE DEF n
<1>4. \A i \in 1..(n - from) : from + i \in 1..n
  BY <1>1
<1>5. from < n => kept # <<>> /\ kept[n - from] = recs[n]
  <2> SUFFICES ASSUME from < n PROVE kept # <<>> /\ kept[n - from] = recs[n]
    OBVIOUS
  <2>1. n - from \in 1..(n - from) /\ from + (n - from) = n
    BY <1>1
  <2> QED BY <1>2, <1>3, <2>1
<1>6. Rising(kept)
  <2>1. ASSUME NEW i \in 1..(n - from), NEW j \in 1..(n - from), i < j
        PROVE  kept[i].index < kept[j].index
    <3>1. from + i \in 1..n /\ from + j \in 1..n /\ from + i < from + j
      BY <1>1, <2>1
    <3> QED BY <1>1, <1>2, <3>1 DEF Rising
  <2> QED BY <1>3, <2>1 DEF Rising
<1>7. \A m : Below(recs, m) => Below(kept, m)
  BY <1>1, <1>2, <1>3, <1>4 DEF Below
<1>8. ASSUME NEW r \in Range(recs), NEW q \in Range(kept), r \notin Range(kept)
      PROVE  r.index < q.index
  <2>1. PICK i \in 1..n : r = recs[i]
    BY <1>1, <1>8 DEF Range
  <2>2. PICK j \in 1..(n - from) : q = kept[j]
    BY <1>3, <1>8 DEF Range
  <2>3. i <= from
    <3>1. SUFFICES ASSUME i > from PROVE FALSE
      BY <1>1
    <3>2. i - from \in 1..(n - from) /\ from + (i - from) = i
      BY <1>1, <3>1
    <3>3. kept[i - from] = r
      BY <1>2, <2>1, <3>2
    <3> QED BY <1>3, <1>8, <3>2, <3>3 DEF Range
  <2>4. i < from + j /\ from + j \in 1..n
    BY <1>1, <1>4, <2>3
  <2> QED BY <1>1, <1>2, <2>1, <2>2, <2>4 DEF Rising
<1>9. Range(kept) \subseteq Range(recs)
  BY <1>1, <1>2, <1>3, <1>4 DEF Range
<1> QED BY <1>2, <1>5, <1>6, <1>7, <1>8, <1>9 DEF n, OldestGone

\* The newest of what is kept lose nothing either, if they are enough.
LEMMA TracksSuffix ==
  ASSUME NEW lost \in Seq(Recs), NEW recs \in Seq(Recs), NEW kept \in Seq(Recs),
         Tracks(lost, recs), Range(kept) \subseteq Range(recs),
         OldestGone(recs, kept),
         Len(kept) = Len(recs) \/ Len(kept) >= MaxRecords - EvictBatch
  PROVE  Tracks(lost, kept)
<1>1. ASSUME NEW r \in Range(lost), NEW q \in Range(kept), r \notin Range(kept)
      PROVE  r.index < q.index
  BY <1>1 DEF Tracks, OldestGone
<1>2. Len(kept) >= Len(lost) \/ Len(kept) >= MaxRecords - EvictBatch
  BY DEF Tracks, OldestGone
<1> QED BY <1>1, <1>2 DEF Tracks, OldestGone

\* A record() keeps the new record and all the older ones that the retention
\* limit has room for.
KeptOf(recs, x) ==
  SubSeq(Append(recs, x), KeepFrom(Append(recs, x)) + 1, Len(Append(recs, x)))

\* Nothing is lost in it, its records rise, and the cap holds (record_inner).
LEMMA KeptGood ==
  ASSUME NEW lost \in Seq(Recs), NEW recs \in Seq(Recs), NEW x \in Recs,
         Rising(recs), Below(recs, x.index), Below(lost, x.index), Tracks(lost, recs),
         NEW kept, kept = KeptOf(recs, x)
  PROVE  /\ kept \in Seq(Recs) /\ kept # <<>> /\ kept[Len(kept)] = x
         /\ Rising(kept) /\ Below(kept, x.index + 1)
         /\ Tracks(Append(lost, x), kept)
         /\ Len(recs) <= MaxRecords => Len(kept) <= MaxRecords
         /\ KeepFrom(Append(recs, x)) = 0 => kept = Append(recs, x)
<1> DEFINE all == Append(recs, x)
           n == Len(recs)
           from == KeepFrom(all)
<1>1. /\ n \in Nat /\ all \in Seq(Recs) /\ Len(all) = n + 1 /\ all[n + 1] = x
      /\ x.index \in Nat
  BY AppendProperties DEF Recs
<1>2. Rising(all) /\ Below(all, x.index + 1)
  BY <1>1, RisingAppend
<1>3. Tracks(Append(lost, x), all)
  BY TracksAppend
<1>4. /\ from = IF n + 1 > MaxRecords THEN n + 1 - (MaxRecords - EvictBatch) ELSE 0
      /\ from \in Nat /\ from < n + 1
  BY <1>1, BatchFits DEF KeepFrom
<1> HIDE DEF all, from, n
<1>5. from < Len(all) /\ from <= Len(all) /\ Len(all) \in Nat
  BY <1>1, <1>4
<1> DEFINE left == SubSeq(all, from + 1, Len(all))
<1>5a. /\ left \in Seq(Recs) /\ Len(left) = Len(all) - from
       /\ \A i \in 1..(Len(all) - from) : left[i] = all[from + i]
  BY <1>1, <1>4, <1>5, SuffixProperties
<1>5b. kept = left
  BY DEF KeptOf, all, from
<1> HIDE DEF left
<1>5c. /\ kept \in Seq(Recs) /\ Len(kept) = Len(all) - from
       /\ \A i \in 1..(Len(all) - from) : kept[i] = all[from + i]
  BY <1>5a, <1>5b
<1>6. /\ kept # <<>> /\ kept[Len(kept)] = all[Len(all)]
      /\ Rising(kept)
      /\ \A m : Below(all, m) => Below(kept, m)
      /\ OldestGone(all, kept)
      /\ Range(kept) \subseteq Range(all)
  <2> HIDE DEF Rising, Below
  <2>1. Rising(all) /\ from \in Nat
    BY <1>2, <1>4
  <2> USE <1>1, <2>1, <1>5, <1>5c
  <2>2. from < Len(all) => kept # <<>> /\ kept[Len(kept)] = all[Len(all)]
    BY SuffixKept
  <2>3. Rising(kept)
    BY SuffixKept
  <2>4. \A m : Below(all, m) => Below(kept, m)
    BY SuffixKept
  <2>5. OldestGone(all, kept)
    BY SuffixKept
  <2>6. Range(kept) \subseteq Range(all)
    BY SuffixKept
  <2> QED BY <2>2, <2>3, <2>4, <2>5, <2>6
<1>7. Len(kept) = Len(all) \/ Len(kept) >= MaxRecords - EvictBatch
  <2>1. MaxRecords - EvictBatch \in Nat
    BY BatchFits
  <2> QED BY <1>1, <1>4, <1>5c, <2>1
<1>8. Append(lost, x) \in Seq(Recs)
  BY AppendProperties
<1>9. Tracks(Append(lost, x), kept)
  BY <1>1, <1>3, <1>5c, <1>6, <1>7, <1>8, TracksSuffix
<1>10. n <= MaxRecords => Len(kept) <= MaxRecords
  BY <1>1, <1>4, <1>5c, BatchFits
<1>11. from = 0 => kept = all
  <2>1. from = 0 => kept = SubSeq(all, 1, Len(all))
    BY <1>5b DEF left
  <2> QED BY <1>1, <2>1, SubSeqFull
<1> QED BY <1>1, <1>2, <1>5c, <1>6, <1>9, <1>10, <1>11 DEF n, from, all

\* partition_point finds a record that is there (get_by_index).
LEMMA GetByIndexFinds ==
  ASSUME NEW recs \in Seq(Recs), Rising(recs), NEW k \in DOMAIN recs
  PROVE  GetByIndex(recs, recs[k].index) = recs[k]
<1>1. /\ Len(recs) \in Nat /\ DOMAIN recs = 1..Len(recs) /\ k \in Nat
      /\ \A j \in DOMAIN recs : recs[j].index \in Nat
  <2>1. \A j \in DOMAIN recs : recs[j] \in Recs
    OBVIOUS
  <2> QED BY <2>1 DEF Recs
<1>2. ASSUME NEW j \in DOMAIN recs
      PROVE  recs[j].index < recs[k].index <=> j < k
  <2>1. j < k => recs[j].index < recs[k].index
    BY DEF Rising
  <2>2. k < j => recs[k].index < recs[j].index
    BY DEF Rising
  <2> QED BY <1>1, <2>1, <2>2
<1>3. {j \in DOMAIN recs : recs[j].index < recs[k].index} = 1..(k - 1)
  <2>1. {j \in DOMAIN recs : recs[j].index < recs[k].index} = {j \in 1..Len(recs) : j < k}
    BY <1>1, <1>2
  <2>2. k \in 1..Len(recs)
    BY <1>1
  <2>3. {j \in 1..Len(recs) : j < k} = 1..(k - 1)
    BY <1>1, <2>2
  <2> QED BY <2>1, <2>3
<1>4. Cardinality(1..(k - 1)) = k - 1
  BY <1>1, FS_Interval
<1> DEFINE below == {j \in DOMAIN recs : recs[j].index < recs[k].index}
<1>5. Cardinality(below) + 1 = k
  <2> HIDE DEF below
  <2>1. below = 1..(k - 1)
    BY <1>3 DEF below
  <2> QED BY <1>1, <1>4, <2>1
<1>6. GetByIndex(recs, recs[k].index) =
        LET m == Cardinality(below) + 1 IN
        IF m \in DOMAIN recs /\ recs[m].index = recs[k].index THEN recs[m] ELSE None
  BY DEF GetByIndex
<1> HIDE DEF below
<1> QED BY <1>5, <1>6

\* And finds nothing that has another index.
LEMMA GetByIndexOnly ==
  ASSUME NEW recs \in Seq(Recs), NEW i
  PROVE  \/ GetByIndex(recs, i) = None
         \/ \E q \in Range(recs) : GetByIndex(recs, i) = q /\ q.index = i
BY DEF GetByIndex, Range

-----------------------------------------------------------------------------
(* The invariants *)

\* Whatever fails, the file loses nothing, and with frames on file their key is.
FileSafe ==
  /\ file.fmt \in {"v1", "v2"} => keyFile \in Keys
  /\ file.fmt = "v1" => Len(file.frames) = 1
  /\ Rising(acked)
  /\ Readable => Tracks(acked, OnFile)

\* Memory has the key on file or none.
KeySafe(p) ==
  /\ mem[p].key \in {None, keyFile}
  /\ pc[p] = "key" => keyFile = None

\* Memory loses nothing either, and the next index is above all those in use.
MemSafe(p) ==
  pc[p] # "closed" =>
    /\ Rising(mem[p].records) /\ Below(mem[p].records, mem[p].next)
    /\ Below(acked, mem[p].next) /\ Tracks(acked, mem[p].records)

\* The record in hand takes that index; the file that is about to be replaced,
\* or was just written, holds it; a clear() under way has nothing left to keep.
StepSafe(p) ==
  /\ pc[p] \in Writing \union {"key"} => mem[p].pending.index = mem[p].next
  /\ pc[p] = "rename" =>
       tmp = None \/ tmp = SealAll(Kept(p), mem[p].key, mem[p].pending.id)
  /\ pc[p] = "chmod" =>
       /\ file.fmt \in {"v2", "junk", "absent"}
       /\ file.fmt # "absent" /\ Readable => Tracks(Append(acked, mem[p].pending), OnFile)
  /\ pc[p] \in {"zero", "remove"} => acked = <<>>

SafeInv(p) == FileSafe /\ KeySafe(p) /\ MemSafe(p) /\ StepSafe(p)

\* Memory and file agree, and what is on file decrypts.
Synced(p) ==
  /\ Readable
  /\ mem[p].records = OnFile
  /\ mem[p].fmt = IF file.fmt = "empty" THEN "absent" ELSE file.fmt
  /\ file.fmt = "v2" => mem[p].tail = TailOf(file.frames)

\* The frames just written hold what memory is about to.
Landing(p) ==
  /\ file.fmt = "v2" /\ Chained(file.frames, keyFile)
  /\ OnFile = Kept(p) /\ TailOf(file.frames) = TailAfter(p)

\* When nothing fails but what record() and load() are written to survive, only
\* a torn frame keeps the file from loading, and no index is given twice.
FileCalm ==
  /\ file.fmt = "v2" /\ (\A k \in DOMAIN file.frames : file.frames[k].whole)
       => Chained(file.frames, keyFile)
  /\ Readable => Len(OnFile) <= MaxRecords
  /\ Rising(OnFile) /\ OldestGone(acked, OnFile)

\* Every step of an operation then knows what is on file.
StepCalm(p) ==
  /\ pc[p] \in {"idle", "key", "append", "seal", "rename"} => Synced(p)
  /\ pc[p] = "append" => file.fmt = "v2" /\ KeepFrom(Pushed(p)) = 0
  /\ pc[p] = "chmod" => Landing(p)
  /\ pc[p] = "zero" => file.fmt = "empty"
  /\ pc[p] = "remove" => file.fmt = "junk"

CalmInv(p) == Tolerable => FileCalm /\ StepCalm(p)

-----------------------------------------------------------------------------
(* Types are kept *)

\* What a record() keeps is a sequence of records.
LEMMA KeptType ==
  ASSUME NEW p, mem[p] \in Inners, mem[p].pending \in Recs
  PROVE  Pushed(p) \in Seq(Recs) /\ Kept(p) \in Seq(Recs)
<1>1. mem[p].records \in Seq(Recs)
  BY DEF Inners
<1>2. Pushed(p) \in Seq(Recs)
  BY <1>1, AppendProperties DEF Pushed
<1>3. Len(Pushed(p)) \in Nat /\ KeepFrom(Pushed(p)) \in Nat
      /\ KeepFrom(Pushed(p)) <= Len(Pushed(p))
  <2>1. Len(Pushed(p)) \in Nat
    BY <1>2
  <2> QED BY <2>1, BatchFits DEF KeepFrom
<1> QED BY <1>2, <1>3, SuffixProperties DEF Kept

\* A sealed record is a frame.
LEMMA SealType ==
  ASSUME NEW rec \in Recs, NEW key \in Keys, NEW aad \in Nat \X Nat, NEW nonce \in Nat
  PROVE  /\ Seal(rec, key, aad, nonce) \in Frames
         /\ [Seal(rec, key, aad, nonce) EXCEPT !.whole = FALSE] \in Frames
BY DEF Seal, Frames

\* Neither key nor pending record is mistaken for another value.
LEMMA NoneApart == None \notin Keys /\ "short" \notin Keys /\ None # "short"
BY StoreAssumption DEF Keys

\* Where frames land there is a file of frames, or one that nothing reads.
LEMMA LandedType ==
  ASSUME file \in [fmt: Formats, frames: Seq(Frames)], NEW f \in Frames
  PROVE  /\ Landed(f) \in [fmt: Formats, frames: Seq(Frames)]
         /\ Landed(f).fmt \in {"v2", "junk"}
         /\ Landed(f).fmt = "junk" => Landed(f).frames = <<>>
<1>1. file.frames \in Seq(Frames)
  OBVIOUS
<1>2. Append(file.frames, f) \in Seq(Frames)
  BY <1>1, AppendProperties
<1> QED BY <1>2 DEF Landed, File, Junk, Formats

\* A store that has just been opened.
LEMMA FreshType == FreshMem \in Inners
<1>1. <<>> \in Seq(Recs)
  OBVIOUS
<1> QED BY <1>1 DEF FreshMem, Inners, Magic, Formats

\* Only the process that moves changes what it holds.
LEMMA HoldersKept ==
  ASSUME TypeOK, NEW p \in Procs, NEW m \in Inners, NEW s \in Steps,
         mem' = [mem EXCEPT ![p] = m], pc' = [pc EXCEPT ![p] = s],
         s \in Writing \union {"key"} => m.pending \in Recs,
         s \in Writing => m.key \in Keys
  PROVE  /\ mem' \in [Procs -> Inners] /\ pc' \in [Procs -> Steps]
         /\ \A q \in Procs : HolderOK(q)'
         /\ mem'[p] = m /\ pc'[p] = s
BY DEF TypeOK, HolderOK

\* When memory stays as it was.
LEMMA SameHolder ==
  ASSUME TypeOK, NEW p \in Procs, NEW s, UNCHANGED mem
  PROVE  mem' = [mem EXCEPT ![p] = mem[p]]
BY DEF TypeOK

\* Opening reads what is there: records, and the key and the tail they go with.
LEMMA OpenType ==
  ASSUME TypeOK, NEW p \in Procs, Open(p)
  PROVE  TypeOK'
<1> DEFINE recs == Records(file.frames)
           kept == SubSeq(recs, Len(recs) - MaxRecords + 1, Len(recs))
           some == IF Len(recs) > MaxRecords THEN kept ELSE recs
           tail == IF file.fmt = "v2" THEN TailOf(file.frames) ELSE Magic
           read == [FreshMem EXCEPT !.records = some, !.next = NextIndex(recs),
                                    !.key = keyFile, !.fmt = file.fmt, !.tail = tail]
           m == IF file.fmt \in {"absent", "empty"} THEN FreshMem ELSE read
<1>1. /\ file.frames \in Seq(Frames) /\ file.fmt \in Formats
      /\ keyFile \in Keys \union {None, "short"}
  BY DEF TypeOK
<1>2. recs \in Seq(Recs) /\ Len(recs) = Len(file.frames) /\ Len(recs) \in Nat
  BY <1>1, RecordsType
<1>3. some \in Seq(Recs)
  <2> HIDE DEF recs
  <2>1. CASE Len(recs) > MaxRecords
    <3>1. /\ Len(recs) - MaxRecords \in Nat /\ Len(recs) - MaxRecords <= Len(recs)
      BY <1>2, <2>1, BatchFits
    <3>2. kept \in Seq(Recs)
      BY <1>2, <3>1, SuffixProperties
    <3> QED BY <2>1, <3>2
  <2>2. CASE ~(Len(recs) > MaxRecords)
    BY <1>2, <2>2
  <2> QED BY <2>1, <2>2
<1>4. NextIndex(recs) \in Nat
  <2> HIDE DEF recs
  <2>1. CASE recs = <<>>
    BY <2>1 DEF NextIndex
  <2>2. CASE recs # <<>>
    <3>1. Len(recs) \in DOMAIN recs
      BY <1>2, <2>2
    <3>2. recs[Len(recs)] \in Recs
      BY <1>2, <3>1
    <3> QED BY <2>2, <3>2 DEF NextIndex, Recs
  <2> QED BY <2>1, <2>2
<1>5. tail \in Nat \X Nat
  <2>1. CASE file.frames = <<>>
    BY <2>1 DEF TailOf, Magic
  <2>2. CASE file.frames # <<>>
    <3>1. Len(file.frames) \in DOMAIN file.frames
      BY <1>1, <2>2
    <3>2. file.frames[Len(file.frames)] \in Frames
      BY <1>1, <3>1
    <3> QED BY <2>2, <3>2 DEF TailOf, Magic, Hash, Frames, Recs
  <2> QED BY <2>1, <2>2
<1>6. file.fmt \notin {"absent", "empty"} => keyFile \in Keys
  <2>1. file.fmt = "v1" => file.frames[1] \in Frames
    BY <1>1 DEF TypeOK
  <2> QED BY <1>1, <2>1 DEF Open, Readable, Frames, Formats
<1> HIDE DEF recs, some, tail
<1>7. m \in Inners
  <2>1. file.fmt \notin {"absent", "empty"} => read \in Inners
    BY <1>1, <1>3, <1>4, <1>5, <1>6, FreshType DEF Inners
  <2> QED BY <2>1, FreshType
<1>8. mem' = [mem EXCEPT ![p] = m]
  BY DEF Open, recs, some, tail
<1> HIDE DEF m
<1>9. /\ pc' = [pc EXCEPT ![p] = "idle"]
      /\ UNCHANGED <<faults, file, tmp, keyFile, result, gen, wipes, acked>>
  BY DEF Open
<1>10. /\ mem' \in [Procs -> Inners] /\ pc' \in [Procs -> Steps]
       /\ \A q \in Procs : HolderOK(q)'
  BY <1>7, <1>8, <1>9, HoldersKept DEF Steps, Writing
<1> QED BY <1>9, <1>10 DEF TypeOK

\* Beginning a record() numbers it and finds the key.
LEMMA BeginType ==
  ASSUME TypeOK, NEW p \in Procs, Begin(p)
  PROVE  TypeOK'
<1> DEFINE key == IF mem[p].key # None THEN mem[p].key ELSE keyFile
           m == [mem[p] EXCEPT !.key = key,
                   !.pending = [id |-> gen', index |-> mem[p].next]]
           s == IF key = None THEN "key" ELSE WritePath(m)
<1>0. /\ mem[p] \in [records: Seq(Recs), next: Nat, key: Keys \union {None},
                     fmt: Formats, tail: Nat \X Nat, pending: Recs \union {None}]
      /\ gen \in Nat /\ gen' = gen + 1 /\ keyFile \in Keys \union {None, "short"}
  BY DEF TypeOK, Begin, Inners
<1>1. UNCHANGED <<faults, file, tmp, keyFile, wipes, acked>> /\ gen' \in Nat
  BY <1>0 DEF Begin
<1>2. CASE key = "short"
  <2>1. mem' = [mem EXCEPT ![p] = mem[p]] /\ DOMAIN result' = Procs
    BY <1>2, SameHolder DEF Begin, Finish, TypeOK
  <2>2. pc' = [pc EXCEPT ![p] = "idle"]
    BY <1>2 DEF Begin, Finish
  <2>3. /\ mem' \in [Procs -> Inners] /\ pc' \in [Procs -> Steps]
        /\ \A q \in Procs : HolderOK(q)'
    BY <1>0, <2>1, <2>2, HoldersKept DEF Steps, Writing, Inners
  <2> QED BY <1>1, <2>1, <2>3 DEF TypeOK
<1>3. CASE key # "short"
  <2>1. [id |-> gen', index |-> mem[p].next] \in Recs /\ key \in Keys \union {None}
    BY <1>0, <1>1, <1>3 DEF Recs
  <2>2. m \in Inners /\ m.pending \in Recs /\ m.key = key
    BY <1>0, <2>1 DEF Inners
  <2>3. mem' = [mem EXCEPT ![p] = m] /\ pc' = [pc EXCEPT ![p] = s] /\ result' = result
    BY <1>3 DEF Begin, Goto
  <2>4. WritePath(m) \in {"seal", "append"}
    BY DEF WritePath
  <2> HIDE DEF m
  <2>5. s \in Steps /\ (s \in Writing => key \in Keys)
    BY <2>1, <2>4 DEF Steps, Writing
  <2> HIDE DEF s, key
  <2>6. /\ mem' \in [Procs -> Inners] /\ pc' \in [Procs -> Steps]
        /\ \A q \in Procs : HolderOK(q)'
    BY <2>2, <2>3, <2>5, HoldersKept
  <2> QED BY <1>1, <2>3, <2>6 DEF TypeOK
<1> QED BY <1>2, <1>3

\* A step that failed drops the record in hand.
LEMMA FailType ==
  ASSUME TypeOK, NEW p \in Procs, NEW why, FailWith(p, why)
  PROVE  /\ mem' \in [Procs -> Inners] /\ pc' \in [Procs -> Steps]
         /\ \A q \in Procs : HolderOK(q)'
         /\ DOMAIN result' = Procs
         /\ pc'[p] = "idle" /\ mem'[p] = [mem[p] EXCEPT !.pending = None]
<1> DEFINE m == [mem[p] EXCEPT !.pending = None]
<1>1. mem[p] \in [records: Seq(Recs), next: Nat, key: Keys \union {None},
                  fmt: Formats, tail: Nat \X Nat, pending: Recs \union {None}]
  BY DEF TypeOK, Inners
<1>2. m \in Inners
  BY <1>1 DEF Inners
<1>3. mem' = [mem EXCEPT ![p] = m] /\ pc' = [pc EXCEPT ![p] = "idle"]
  BY DEF FailWith, Finish, TypeOK
<1>4. DOMAIN result' = Procs
  BY DEF FailWith, Finish, TypeOK
<1> HIDE DEF m
<1>5. /\ mem' \in [Procs -> Inners] /\ pc' \in [Procs -> Steps]
      /\ \A q \in Procs : HolderOK(q)'
      /\ mem'[p] = m /\ pc'[p] = "idle"
  BY <1>2, <1>3, HoldersKept DEF Steps, Writing
<1> QED BY <1>4, <1>5 DEF m

\* A step that only moves on.
LEMMA GotoType ==
  ASSUME TypeOK, NEW p \in Procs, NEW s \in Steps, Goto(p, s), UNCHANGED mem,
         s \in Writing \union {"key"} => mem[p].pending \in Recs,
         s \in Writing => mem[p].key \in Keys
  PROVE  /\ mem' \in [Procs -> Inners] /\ pc' \in [Procs -> Steps]
         /\ \A q \in Procs : HolderOK(q)'
<1>1. mem[p] \in Inners
  BY DEF TypeOK
<1> QED BY <1>1, SameHolder, HoldersKept DEF Goto

\* A step that ends an operation, memory as it was.
LEMMA FinishType ==
  ASSUME TypeOK, NEW p \in Procs, NEW why, Finish(p, why), UNCHANGED mem
  PROVE  /\ mem' \in [Procs -> Inners] /\ pc' \in [Procs -> Steps]
         /\ \A q \in Procs : HolderOK(q)'
         /\ DOMAIN result' = Procs
<1>1. mem[p] \in Inners /\ DOMAIN result' = Procs
  BY DEF TypeOK, Finish
<1>2. pc' = [pc EXCEPT ![p] = "idle"]
  BY DEF Finish
<1> QED BY <1>1, <1>2, SameHolder, HoldersKept DEF Steps, Writing

\* A cleared store.
LEMMA ResetType ==
  ASSUME TypeOK, NEW p \in Procs, NEW why, Finish(p, why), Reset(p)
  PROVE  /\ mem' \in [Procs -> Inners] /\ pc' \in [Procs -> Steps]
         /\ \A q \in Procs : HolderOK(q)'
         /\ DOMAIN result' = Procs
<1> DEFINE m == [FreshMem EXCEPT !.key = mem[p].key]
<1>1. mem[p].key \in Keys \union {None}
  BY DEF TypeOK, Inners
<1>2. FreshMem \in [records: Seq(Recs), next: Nat, key: Keys \union {None},
                    fmt: Formats, tail: Nat \X Nat, pending: Recs \union {None}]
  BY FreshType DEF Inners
<1>3. m \in Inners
  BY <1>1, <1>2 DEF Inners
<1>4. mem' = [mem EXCEPT ![p] = m] /\ pc' = [pc EXCEPT ![p] = "idle"]
  BY DEF Reset, Finish
<1>5. DOMAIN result' = Procs
  BY DEF TypeOK, Finish
<1> HIDE DEF m
<1> QED BY <1>3, <1>4, <1>5, HoldersKept DEF Steps, Writing

\* The steps of record() after the first.
LEMMA KeyType ==
  ASSUME TypeOK, NEW p \in Procs, GenerateKey(p)
  PROVE  TypeOK'
<1>0. /\ mem[p] \in [records: Seq(Recs), next: Nat, key: Keys \union {None},
                     fmt: Formats, tail: Nat \X Nat, pending: Recs \union {None}]
      /\ mem[p].pending \in Recs
      /\ UNCHANGED <<faults, file, tmp, gen, wipes, acked>>
  BY DEF TypeOK, GenerateKey, Inners, HolderOK, At
<1>1. CASE keyFile' = "short" /\ Fail(p)
  <2>1. FailWith(p, "error")
    BY <1>1 DEF Fail
  <2> QED BY <1>0, <1>1, <2>1, FailType DEF TypeOK
<1>2. CASE keyFile' # "short" \/ ~Fail(p)
  <2> DEFINE m == [mem[p] EXCEPT !.key = p]
             s == WritePath(m)
  <2>1. keyFile' = p /\ mem' = [mem EXCEPT ![p] = m] /\ pc' = [pc EXCEPT ![p] = s]
        /\ result' = result
    BY <1>2 DEF GenerateKey, Goto
  <2>2. m \in Inners /\ m.pending \in Recs /\ m.key \in Keys
    BY <1>0 DEF Inners, Keys
  <2>3. s \in Steps
    BY DEF WritePath, Steps, Writing
  <2> HIDE DEF m, s
  <2>4. /\ mem' \in [Procs -> Inners] /\ pc' \in [Procs -> Steps]
        /\ \A q \in Procs : HolderOK(q)'
    BY <2>1, <2>2, <2>3, HoldersKept
  <2> QED BY <1>0, <2>1, <2>4 DEF TypeOK, Keys
<1> QED BY <1>1, <1>2

\* The frame that is appended (persist_append).
LEMMA AppendType ==
  ASSUME TypeOK, NEW p \in Procs, AppendFrame(p)
  PROVE  TypeOK'
<1> DEFINE f == Seal(mem[p].pending, mem[p].key, mem[p].tail, mem[p].pending.id)
           torn == [f EXCEPT !.whole = FALSE]
<1>0. /\ mem[p] \in Inners /\ mem[p].pending \in Recs /\ mem[p].key \in Keys
      /\ UNCHANGED <<faults, tmp, keyFile, gen, wipes, acked>>
      /\ file \in [fmt: Formats, frames: Seq(Frames)]
  BY DEF TypeOK, AppendFrame, HolderOK, At, Writing
<1>1. f \in Frames /\ torn \in Frames
  BY <1>0, SealType DEF Inners, Recs
<1>2. CASE UNCHANGED file /\ \E why : FailWith(p, why)
  BY <1>0, <1>2, FailType DEF TypeOK
<1>3. CASE file' = Landed(f) /\ Goto(p, "chmod") /\ UNCHANGED <<mem, result>>
  <2> HIDE DEF f
  <2>1. /\ mem' \in [Procs -> Inners] /\ pc' \in [Procs -> Steps]
        /\ \A q \in Procs : HolderOK(q)'
    BY <1>0, <1>3, GotoType DEF Steps, Writing
  <2> QED BY <1>0, <1>1, <1>3, <2>1, LandedType DEF TypeOK
<1>4. CASE file' = Landed(torn) /\ FailWith(p, "error")
  <2>1. file' \in [fmt: Formats, frames: Seq(Frames)] /\ (file'.fmt = "v1" => file'.frames # <<>>)
        /\ (file'.fmt \in {"absent", "empty", "junk"} => file'.frames = <<>>)
    BY <1>0, <1>1, <1>4, LandedType DEF TypeOK
  <2> QED BY <1>0, <1>4, <2>1, FailType DEF TypeOK
<1>5. CASE /\ file' = Landed(torn) /\ mem' = [mem EXCEPT ![p] = FreshMem]
           /\ Goto(p, "closed") /\ UNCHANGED result
  <2> HIDE DEF torn
  <2>1. /\ mem' \in [Procs -> Inners] /\ pc' \in [Procs -> Steps]
        /\ \A q \in Procs : HolderOK(q)'
    BY <1>5, FreshType, HoldersKept DEF Goto, Steps, Writing
  <2> QED BY <1>0, <1>1, <1>5, <2>1, LandedType DEF TypeOK
<1> QED BY <1>2, <1>3, <1>4, <1>5 DEF AppendFrame, NewFrame, Fail

\* The sealed file beside the store, for a rewrite (persist_v2).
LEMMA SealTmpType ==
  ASSUME TypeOK, NEW p \in Procs, SealTmp(p)
  PROVE  TypeOK'
<1>0. /\ mem[p] \in Inners /\ mem[p].pending \in Recs /\ mem[p].key \in Keys
      /\ UNCHANGED <<faults, file, keyFile, gen, wipes, acked>>
  BY DEF TypeOK, SealTmp, HolderOK, At, Writing
<1>1. CASE UNCHANGED tmp /\ FailWith(p, "error")
  BY <1>0, <1>1, FailType DEF TypeOK
<1>2. CASE /\ tmp' = SealAll(Kept(p), mem[p].key, mem[p].pending.id)
           /\ Goto(p, "rename") /\ UNCHANGED <<mem, result>>
  <2>1. tmp' \in Seq(Frames)
    BY <1>0, <1>2, KeptType, SealAllChained DEF Recs
  <2>2. /\ mem' \in [Procs -> Inners] /\ pc' \in [Procs -> Steps]
        /\ \A q \in Procs : HolderOK(q)'
    BY <1>0, <1>2, GotoType DEF Steps, Writing
  <2> QED BY <1>0, <1>2, <2>1, <2>2 DEF TypeOK
<1> QED BY <1>1, <1>2 DEF SealTmp, Fail

\* The rename that puts it in place.
LEMMA RenameType ==
  ASSUME TypeOK, NEW p \in Procs, RenameTmp(p)
  PROVE  TypeOK'
<1>0. /\ mem[p] \in Inners /\ mem[p].pending \in Recs /\ mem[p].key \in Keys
      /\ UNCHANGED <<faults, keyFile, gen, wipes, acked>>
      /\ tmp \in Seq(Frames) \union {None}
  BY DEF TypeOK, RenameTmp, HolderOK, At, Writing
<1>1. CASE UNCHANGED <<file, tmp>> /\ FailWith(p, "error")
  BY <1>0, <1>1, FailType DEF TypeOK
<1>2. CASE /\ tmp # None /\ file' = File("v2", tmp) /\ tmp' = None
           /\ Goto(p, "chmod") /\ UNCHANGED <<mem, result>>
  <2>1. /\ file' \in [fmt: Formats, frames: Seq(Frames)] /\ file'.fmt = "v2"
    BY <1>0, <1>2 DEF File, Formats
  <2>2. /\ mem' \in [Procs -> Inners] /\ pc' \in [Procs -> Steps]
        /\ \A q \in Procs : HolderOK(q)'
    BY <1>0, <1>2, GotoType DEF Steps, Writing
  <2> QED BY <1>0, <1>2, <2>1, <2>2 DEF TypeOK
<1> QED BY <1>1, <1>2 DEF RenameTmp, Fail

\* What record() commits to memory.
Committed(inner, records, tail) ==
  [inner EXCEPT !.records = records, !.next = inner.next + 1, !.fmt = "v2",
                !.tail = tail, !.pending = None]

\* The key stays, and the index moves on by one.
LEMMA CommittedFields ==
  ASSUME NEW inner \in Inners, NEW records \in Seq(Recs), NEW tail \in Nat \X Nat
  PROVE  /\ Committed(inner, records, tail) \in Inners
         /\ Committed(inner, records, tail).records = records
         /\ Committed(inner, records, tail).next = inner.next + 1
         /\ Committed(inner, records, tail).fmt = "v2"
         /\ Committed(inner, records, tail).tail = tail
         /\ Committed(inner, records, tail).key = inner.key
<1> DEFINE a == [inner EXCEPT !.records = records]
           b == [a EXCEPT !.next = inner.next + 1]
           c == [b EXCEPT !.fmt = "v2"]
           d == [c EXCEPT !.tail = tail]
           e == [d EXCEPT !.pending = None]
<1>0. inner.next + 1 \in Nat /\ "v2" \in Formats
  BY DEF Inners, Formats
<1>1. a \in Inners /\ a.records = records /\ a.key = inner.key /\ a.next = inner.next
  BY DEF Inners
<1> HIDE DEF a
<1>2. b \in Inners /\ b.records = records /\ b.key = inner.key /\ b.next = inner.next + 1
  BY <1>0, <1>1 DEF Inners
<1> HIDE DEF b
<1>3. /\ c \in Inners /\ c.records = records /\ c.key = inner.key /\ c.next = inner.next + 1
      /\ c.fmt = "v2"
  BY <1>0, <1>2 DEF Inners
<1> HIDE DEF c
<1>4. /\ d \in Inners /\ d.records = records /\ d.key = inner.key /\ d.next = inner.next + 1
      /\ d.fmt = "v2" /\ d.tail = tail
  BY <1>3 DEF Inners
<1> HIDE DEF d
<1>5. /\ e \in Inners /\ e.records = records /\ e.key = inner.key /\ e.next = inner.next + 1
      /\ e.fmt = "v2" /\ e.tail = tail
  BY <1>4 DEF Inners
<1>6. Committed(inner, records, tail) = e
  BY DEF Committed, a, b, c, d
<1> HIDE DEF e
<1> QED BY <1>5, <1>6

\* The end of a record(): memory takes what the file holds.
LEMMA CommitType ==
  ASSUME TypeOK, NEW p \in Procs, Commit(p)
  PROVE  TypeOK'
<1>0. /\ mem[p] \in [records: Seq(Recs), next: Nat, key: Keys \union {None},
                     fmt: Formats, tail: Nat \X Nat, pending: Recs \union {None}]
      /\ mem[p] \in Inners /\ mem[p].pending \in Recs /\ acked \in Seq(Recs)
      /\ UNCHANGED <<faults, file, tmp, keyFile, gen, wipes>>
  BY DEF TypeOK, Commit, HolderOK, At, Writing, Inners
<1>1. CASE UNCHANGED acked /\ FailWith(p, "error")
  BY <1>0, <1>1, FailType DEF TypeOK
<1>2. CASE ~(UNCHANGED acked /\ FailWith(p, "error"))
  <2> DEFINE m == Committed(mem[p], Kept(p), TailAfter(p))
  <2>1. /\ mem' = [mem EXCEPT ![p] = m] /\ acked' = Append(acked, mem[p].pending)
        /\ Finish(p, "ok")
    BY <1>2 DEF Commit, Fail, Committed
  <2>2. TailAfter(p) \in Nat \X Nat /\ Kept(p) \in Seq(Recs)
    BY <1>0, KeptType DEF TailAfter, Recs
  <2>3. m \in Inners
    BY <1>0, <2>2, CommittedFields
  <2> HIDE DEF m
  <2>4. acked' \in Seq(Recs)
    BY <1>0, <2>1, AppendProperties
  <2>5. pc' = [pc EXCEPT ![p] = "idle"] /\ DOMAIN result' = Procs
    BY <2>1 DEF Finish, TypeOK
  <2>6. /\ mem' \in [Procs -> Inners] /\ pc' \in [Procs -> Steps]
        /\ \A q \in Procs : HolderOK(q)'
    BY <2>1, <2>3, <2>5, HoldersKept DEF Steps, Writing
  <2> QED BY <1>0, <2>4, <2>5, <2>6 DEF TypeOK
<1> QED BY <1>1, <1>2

\* The steps of clear().
LEMMA ClearType ==
  ASSUME TypeOK, NEW p \in Procs, Truncate(p) \/ Overwrite(p) \/ Unlink(p)
  PROVE  TypeOK'
<1>0. /\ UNCHANGED <<faults, tmp, keyFile, gen>> /\ wipes' \in Nat
      /\ acked' \in Seq(Recs) /\ file \in [fmt: Formats, frames: Seq(Frames)]
  <2>1. /\ wipes \in Nat /\ acked \in Seq(Recs) /\ <<>> \in Seq(Recs)
        /\ file \in [fmt: Formats, frames: Seq(Frames)]
    BY DEF TypeOK
  <2>2. CASE Truncate(p)
    <3>1. UNCHANGED <<faults, tmp, keyFile, gen>> /\ wipes' = wipes + 1
          /\ (acked' = <<>> \/ acked' = acked)
      BY <2>2 DEF Truncate
    <3>2. wipes' \in Nat
      BY <2>1, <3>1
    <3> QED BY <2>1, <3>1, <3>2
  <2>3. CASE Overwrite(p) \/ Unlink(p)
    <3>1. UNCHANGED <<faults, tmp, keyFile, gen, wipes, acked>>
      BY <2>3 DEF Overwrite, Unlink
    <3> QED BY <2>1, <3>1
  <2> QED BY <2>2, <2>3
<1>1. /\ file' \in [fmt: Formats, frames: Seq(Frames)]
      /\ file'.fmt = "v1" => file'.frames # <<>>
      /\ file'.fmt \in {"absent", "empty", "junk"} => file'.frames = <<>>
  <2>1. /\ file.fmt = "v1" => file.frames # <<>>
        /\ file.fmt \in {"absent", "empty", "junk"} => file.frames = <<>>
        /\ <<>> \in Seq(Frames)
    BY DEF TypeOK
  <2>2. CASE UNCHANGED file
    BY <1>0, <2>1, <2>2
  <2>3. CASE \E fmt \in {"absent", "empty", "junk"} : file' = File(fmt, <<>>)
    BY <2>1, <2>3 DEF File, Formats
  <2> QED BY <2>2, <2>3 DEF Truncate, Overwrite, Unlink, Junk, NoFile
<1>2. CASE \E why : Finish(p, why) /\ Reset(p)
  BY <1>0, <1>1, <1>2, ResetType DEF TypeOK
<1>3. CASE \E why : Finish(p, why) /\ UNCHANGED mem
  BY <1>0, <1>1, <1>3, FinishType DEF TypeOK
<1>4. CASE \E s \in {"zero", "remove"} : Goto(p, s) /\ UNCHANGED <<mem, result>>
  <2>1. PICK s \in {"zero", "remove"} : Goto(p, s) /\ UNCHANGED <<mem, result>>
    BY <1>4
  <2>2. /\ mem' \in [Procs -> Inners] /\ pc' \in [Procs -> Steps]
        /\ \A q \in Procs : HolderOK(q)'
    BY <2>1, GotoType DEF Steps, Writing
  <2> QED BY <1>0, <1>1, <2>1, <2>2 DEF TypeOK
<1> QED BY <1>2, <1>3, <1>4 DEF Truncate, Overwrite, Unlink

\* A crash, and a file that is deleted.
LEMMA OutsideType ==
  ASSUME TypeOK, (\E p \in Procs : Crash(p)) \/ Delete
  PROVE  TypeOK'
<1>1. CASE Delete
  BY <1>1 DEF Delete, TypeOK, HolderOK, NoFile, File, Formats
<1>2. ASSUME NEW p \in Procs, Crash(p) PROVE TypeOK'
  <2>1. /\ mem' = [mem EXCEPT ![p] = FreshMem] /\ pc' = [pc EXCEPT ![p] = "closed"]
        /\ DOMAIN result' = Procs
        /\ UNCHANGED <<faults, file, tmp, keyFile, gen, wipes, acked>>
    BY <1>2 DEF Crash, Goto, TypeOK
  <2>2. /\ mem' \in [Procs -> Inners] /\ pc' \in [Procs -> Steps]
        /\ \A q \in Procs : HolderOK(q)'
    BY <2>1, FreshType, HoldersKept DEF Steps, Writing
  <2> QED BY <2>1, <2>2 DEF TypeOK
<1> QED BY <1>1, <1>2

\* Every step keeps every state variable in its type.
LEMMA TypeStep ==
  ASSUME TypeOK, [Next]_vars
  PROVE  TypeOK'
<1>1. CASE UNCHANGED vars
  BY <1>1 DEF vars, TypeOK, HolderOK
<1>2. ASSUME NEW p \in Procs, Step(p) PROVE TypeOK'
  BY <1>2, OpenType, BeginType, KeyType, AppendType, SealTmpType, RenameType, CommitType,
     ClearType, OutsideType DEF Step
<1> QED BY <1>1, <1>2, OutsideType DEF Next

\* And Init starts there.
LEMMA TypeInit == Init => TypeOK
<1> SUFFICES ASSUME Init PROVE TypeOK
  OBVIOUS
<1>1. /\ mem \in [Procs -> Inners] /\ pc \in [Procs -> Steps]
      /\ \A p \in Procs : HolderOK(p)
  BY FreshType DEF Init, HolderOK, Steps, Writing
<1>2. DOMAIN result = Procs /\ gen \in Nat /\ wipes \in Nat /\ tmp = None
  BY DEF Init
<1>3. CASE file = NoFile /\ keyFile = None /\ acked = <<>>
  BY <1>1, <1>2, <1>3 DEF Init, TypeOK, NoFile, File, Formats
<1>4. CASE /\ keyFile = "install" /\ acked = << [id |-> 1, index |-> 0] >>
           /\ file = File("v1", << Seal(acked[1], keyFile, Magic, 0) >>)
  <2>1. [id |-> 1, index |-> 0] \in Recs /\ "install" \in Keys /\ Magic \in Nat \X Nat
    BY DEF Recs, Keys, Magic
  <2>2. acked \in Seq(Recs) /\ acked[1] \in Recs
    BY <1>4, <2>1
  <2>3. Seal(acked[1], keyFile, Magic, 0) \in Frames
    BY <1>4, <2>1, <2>2, SealType
  <2>4. /\ << Seal(acked[1], keyFile, Magic, 0) >> \in Seq(Frames)
        /\ << Seal(acked[1], keyFile, Magic, 0) >> # <<>>
    BY <2>3
  <2> QED BY <1>1, <1>2, <1>4, <2>1, <2>2, <2>4 DEF Init, TypeOK, File, Formats
<1> QED BY <1>3, <1>4 DEF Init

\* Every state variable keeps its type, with any number of processes at work: in
\* every step of an operation that writes, a process holds a record and a key.
THEOREM TypeSound == Spec => []TypeOK
<1>1. Init => TypeOK
  BY TypeInit
<1>2. TypeOK /\ [Next]_vars => TypeOK'
  BY TypeStep
<1> QED BY <1>1, <1>2, PTL DEF Spec

-----------------------------------------------------------------------------
(* Nothing is lost *)

\* Indices that rise from each record to the next rise along the whole sequence.
LEMMA RisingByStep ==
  ASSUME NEW recs \in Seq(Recs),
         \A k \in DOMAIN recs : k > 1 => recs[k].index > recs[k - 1].index
  PROVE  Rising(recs)
<1> DEFINE n == Len(recs)
           Bad == {j \in 1..n : \E i \in 1..n : i < j /\ ~(recs[i].index < recs[j].index)}
<1>1. /\ n \in Nat /\ DOMAIN recs = 1..n
      /\ \A k \in 1..n : recs[k].index \in Nat
  <2>1. \A k \in 1..n : recs[k] \in Recs
    OBVIOUS
  <2> QED BY <2>1 DEF Recs
<1> HIDE DEF n
<1>2. SUFFICES ASSUME Bad # {} PROVE FALSE
  BY <1>1 DEF Rising
<1>3. Bad \in SUBSET Nat
  BY <1>1
<1> HIDE DEF Bad
<1>4. PICK j \in Bad : \A k \in Bad : j <= k
  BY <1>2, <1>3, LeastExists
<1>5. j \in 1..n
  BY <1>4 DEF Bad
<1>6. PICK i \in 1..n : i < j /\ ~(recs[i].index < recs[j].index)
  BY <1>4 DEF Bad
<1>7. j - 1 \in 1..n /\ j > 1 /\ j - 1 < j
  BY <1>1, <1>5, <1>6
<1>8. j - 1 \notin Bad
  BY <1>3, <1>4, <1>7
<1>9. i = j - 1 \/ recs[i].index < recs[j - 1].index
  <2>1. i < j - 1 => recs[i].index < recs[j - 1].index
    BY <1>7, <1>8 DEF Bad
  <2>2. i < j - 1 \/ i = j - 1
    BY <1>1, <1>5, <1>6
  <2> QED BY <2>1, <2>2
<1>10. recs[j].index > recs[j - 1].index
  BY <1>1, <1>5, <1>7
<1>11. recs[i].index \in Nat /\ recs[j].index \in Nat /\ recs[j - 1].index \in Nat
  BY <1>1, <1>5, <1>7
<1> QED BY <1>6, <1>9, <1>10, <1>11

\* So a file that parses holds records whose indices rise.
LEMMA ChainedRising ==
  ASSUME NEW frames \in Seq(Frames), NEW key, Chained(frames, key)
  PROVE  Rising(Records(frames))
<1>1. /\ Records(frames) \in Seq(Recs) /\ Len(Records(frames)) = Len(frames)
      /\ \A k \in 1..Len(frames) : Records(frames)[k] = frames[k].rec
  BY RecordsType
<1>2. /\ Len(frames) \in Nat /\ DOMAIN frames = 1..Len(frames)
      /\ DOMAIN Records(frames) = 1..Len(frames)
  BY <1>1
<1> DEFINE recs == Records(frames)
<1> HIDE DEF recs
<1>3. ASSUME NEW k \in 1..Len(frames), k > 1 PROVE recs[k].index > recs[k - 1].index
  <2>1. k - 1 \in 1..Len(frames)
    BY <1>2, <1>3
  <2>2. frames[k].rec.index > frames[k - 1].rec.index
    BY <1>2, <1>3 DEF Chained
  <2> QED BY <1>1, <1>3, <2>1, <2>2 DEF recs
<1>4. recs \in Seq(Recs) /\ DOMAIN recs = 1..Len(frames)
  BY <1>1, <1>2 DEF recs
<1>5. Rising(recs)
  BY <1>3, <1>4, RisingByStep
<1> QED BY <1>5 DEF recs

\* When nothing is kept, nothing was to be kept.
LEMMA TracksNothing ==
  ASSUME NEW lost \in Seq(Recs), Tracks(lost, <<>>)
  PROVE  lost = <<>>
<1>1. Len(lost) \in Nat /\ Len(<<>>) = 0
  OBVIOUS
<1>2. Len(lost) = 0
  BY <1>1, BatchFits DEF Tracks
<1> QED BY <1>2

\* What holds one record more holds the others.
LEMMA TracksLess ==
  ASSUME NEW lost \in Seq(Recs), NEW kept \in Seq(Recs), NEW x \in Recs,
         Tracks(Append(lost, x), kept)
  PROVE  Tracks(lost, kept)
<1>1. Range(lost) \subseteq Range(Append(lost, x))
  BY RangeAppend
<1>2. Len(Append(lost, x)) = Len(lost) + 1 /\ Len(lost) \in Nat /\ Len(kept) \in Nat
  BY AppendProperties
<1>3. OldestGone(lost, kept)
  BY <1>1 DEF Tracks, OldestGone
<1>4. Len(kept) >= Len(lost) \/ Len(kept) >= MaxRecords - EvictBatch
  BY <1>2 DEF Tracks
<1> QED BY <1>3, <1>4 DEF Tracks

\* One past the largest index on file is above all that were ever stored.
LEMMA NextAbove ==
  ASSUME NEW lost \in Seq(Recs), NEW kept \in Seq(Recs), Rising(kept), Tracks(lost, kept)
  PROVE  Below(kept, NextIndex(kept)) /\ Below(lost, NextIndex(kept))
<1> DEFINE n == Len(kept)
<1>1. CASE kept = <<>>
  <2>1. lost = <<>>
    BY <1>1, TracksNothing
  <2> QED BY <1>1, <2>1 DEF Below
<1>2. CASE kept # <<>>
  <2>1. /\ n \in 1..n /\ DOMAIN kept = 1..n /\ kept[n] \in Recs /\ NextIndex(kept) = kept[n].index + 1
        /\ \A i \in 1..n : kept[i] \in Recs
    BY <1>2 DEF NextIndex
  <2>2. kept[n].index \in Nat /\ (\A i \in 1..n : kept[i].index \in Nat)
    BY <2>1 DEF Recs
  <2> HIDE DEF n
  <2>3. \A i \in 1..n : kept[i].index <= kept[n].index
    <3> TAKE i \in 1..n
    <3>1. i < n => kept[i].index < kept[n].index
      BY <2>1 DEF Rising
    <3>2. i = n \/ i < n
      BY <2>1
    <3> QED BY <2>2, <3>1, <3>2
  <2>4. Below(kept, kept[n].index + 1)
    BY <2>1, <2>2, <2>3 DEF Below
  <2>5. ASSUME NEW i \in DOMAIN lost PROVE lost[i].index < kept[n].index + 1
    <3>1. lost[i] \in Recs /\ lost[i] \in Range(lost) /\ kept[n] \in Range(kept)
      BY <2>1 DEF Range
    <3>2. lost[i].index \in Nat
      BY <3>1 DEF Recs
    <3>3. CASE lost[i] \in Range(kept)
      <4>1. PICK k \in 1..n : lost[i] = kept[k]
        BY <2>1, <3>3 DEF Range
      <4> QED BY <2>2, <2>3, <4>1
    <3>4. CASE lost[i] \notin Range(kept)
      <4>1. lost[i].index < kept[n].index
        BY <3>1, <3>4 DEF Tracks, OldestGone
      <4> QED BY <2>2, <3>2, <4>1
    <3> QED BY <3>3, <3>4
  <2> QED BY <2>1, <2>4, <2>5 DEF Below
<1> QED BY <1>1, <1>2

\* What the file holds when it loads: records that rise and lose nothing.
LEMMA LoadedGood ==
  ASSUME TypeOK, FileSafe, Readable
  PROVE  /\ OnFile \in Seq(Recs) /\ Rising(OnFile) /\ Tracks(acked, OnFile)
         /\ Below(OnFile, NextIndex(OnFile)) /\ Below(acked, NextIndex(OnFile))
         /\ file.fmt \in {"absent", "empty"} => OnFile = <<>>
         /\ file.fmt \in {"absent", "empty", "v1", "v2"}
<1>1. file.frames \in Seq(Frames) /\ acked \in Seq(Recs)
  BY DEF TypeOK
<1>2. OnFile \in Seq(Recs) /\ Len(OnFile) = Len(file.frames)
  BY <1>1, RecordsType DEF OnFile
<1>3. Tracks(acked, OnFile) /\ file.fmt \in {"absent", "empty", "v1", "v2"}
  BY DEF FileSafe, Readable
<1>4. file.fmt \in {"absent", "empty"} => OnFile = <<>>
  BY <1>2 DEF TypeOK
<1>5. Rising(OnFile)
  <2>1. CASE file.fmt \in {"absent", "empty"}
    BY <1>4, <2>1 DEF Rising
  <2>2. CASE file.fmt = "v1"
    <3>1. Len(OnFile) = 1
      BY <1>2, <2>2 DEF FileSafe
    <3>2. DOMAIN OnFile = 1..1
      BY <1>2, <3>1
    <3> QED BY <3>2 DEF Rising
  <2>3. CASE file.fmt = "v2"
    BY <1>1, <2>3, ParsesChained, ChainedRising DEF Readable, OnFile
  <2> QED BY <1>3, <2>1, <2>2, <2>3
<1> QED BY <1>1, <1>2, <1>3, <1>4, <1>5, NextAbove

\* load() keeps the newest records, and the index one past them.
LEMMA OpenRecords ==
  ASSUME TypeOK, NEW p \in Procs, FileSafe, Open(p)
  PROVE  /\ mem'[p].records =
              IF Len(OnFile) > MaxRecords
              THEN SubSeq(OnFile, Len(OnFile) - MaxRecords + 1, Len(OnFile)) ELSE OnFile
         /\ mem'[p].next = NextIndex(OnFile)
         /\ mem'[p].key \in {None, keyFile}
         /\ mem'[p].fmt = IF file.fmt = "empty" THEN "absent" ELSE file.fmt
         /\ file.fmt = "v2" => mem'[p].tail = TailOf(file.frames)
<1>1. mem \in [Procs -> Inners]
  BY DEF TypeOK
<1>2. file.fmt \in {"absent", "empty"} => OnFile = <<>>
  BY LoadedGood DEF Open
<1>3. CASE file.fmt \in {"absent", "empty"}
  <2>1. mem'[p] = FreshMem
    BY <1>1, <1>3 DEF Open
  <2>2. Len(OnFile) = 0
    BY <1>2, <1>3
  <2>3. ~(Len(OnFile) > MaxRecords)
    BY <2>2, BatchFits
  <2> QED BY <1>2, <1>3, <2>1, <2>3 DEF FreshMem, NextIndex
<1>4. CASE file.fmt \notin {"absent", "empty"}
  <2> DEFINE some == IF Len(OnFile) > MaxRecords
                     THEN SubSeq(OnFile, Len(OnFile) - MaxRecords + 1, Len(OnFile))
                     ELSE OnFile
             tail == IF file.fmt = "v2" THEN TailOf(file.frames) ELSE Magic
  <2>1. mem'[p] = [FreshMem EXCEPT !.records = some, !.next = NextIndex(OnFile),
                                   !.key = keyFile, !.fmt = file.fmt, !.tail = tail]
    BY <1>1, <1>4 DEF Open, OnFile
  <2> HIDE DEF some, tail
  <2>2. /\ mem'[p].records = some /\ mem'[p].next = NextIndex(OnFile)
        /\ mem'[p].key = keyFile /\ mem'[p].fmt = file.fmt /\ mem'[p].tail = tail
    BY <2>1 DEF FreshMem
  <2> QED BY <1>4, <2>2 DEF some, tail
<1> QED BY <1>3, <1>4

\* Opening reads no more than the file, so what the file kept memory keeps (load).
LEMMA OpenSafe ==
  ASSUME TypeOK, NEW p \in Procs, SafeInv(p), Open(p)
  PROVE  SafeInv(p)'
<1>1. /\ UNCHANGED <<faults, file, tmp, keyFile, result, gen, wipes, acked>>
      /\ pc'[p] = "idle" /\ Readable
  BY DEF Open, TypeOK
<1>2. /\ OnFile \in Seq(Recs) /\ Rising(OnFile) /\ Tracks(acked, OnFile)
      /\ Below(OnFile, NextIndex(OnFile)) /\ Below(acked, NextIndex(OnFile))
      /\ acked \in Seq(Recs)
  BY <1>1, LoadedGood DEF SafeInv, TypeOK
<1> DEFINE recs == mem'[p].records
           n == NextIndex(OnFile)
<1>3. mem'[p].next = n /\ mem'[p].key \in {None, keyFile}
  BY OpenRecords DEF SafeInv
<1> HIDE DEF n
<1>4. Rising(recs) /\ Below(recs, n) /\ Tracks(acked, recs)
  <2>1. CASE ~(Len(OnFile) > MaxRecords)
    BY <1>2, <2>1, OpenRecords DEF SafeInv, n
  <2>2. CASE Len(OnFile) > MaxRecords
    <3> DEFINE from == Len(OnFile) - MaxRecords
               kept == SubSeq(OnFile, from + 1, Len(OnFile))
    <3>1. recs = kept
      BY <2>2, OpenRecords DEF SafeInv
    <3>2. from \in Nat /\ from <= Len(OnFile) /\ Len(OnFile) - from = MaxRecords
      <4>1. Len(OnFile) \in Nat
        BY <1>2
      <4> QED BY <2>2, <4>1, BatchFits
    <3> HIDE DEF from
    <3>3. /\ kept \in Seq(Recs) /\ Len(kept) = Len(OnFile) - from
          /\ \A i \in 1..(Len(OnFile) - from) : kept[i] = OnFile[from + i]
      BY <1>2, <3>2, SuffixProperties
    <3> HIDE DEF kept
    <3>4. Rising(kept)
      BY <1>2, <3>2, <3>3, SuffixKept
    <3>5. \A m : Below(OnFile, m) => Below(kept, m)
      BY <1>2, <3>2, <3>3, SuffixKept
    <3>6. OldestGone(OnFile, kept) /\ Range(kept) \subseteq Range(OnFile)
      BY <1>2, <3>2, <3>3, SuffixKept
    <3>7. Len(kept) >= MaxRecords - EvictBatch
      BY <3>2, <3>3, BatchFits
    <3>8. Tracks(acked, kept)
      BY <1>2, <3>3, <3>6, <3>7, TracksSuffix
    <3> QED BY <1>2, <3>1, <3>4, <3>5, <3>8 DEF n
  <2> QED BY <2>1, <2>2
<1>5. FileSafe'
  BY <1>1 DEF SafeInv, FileSafe, Readable, OnFile
<1>6. MemSafe(p)'
  BY <1>1, <1>2, <1>3, <1>4 DEF MemSafe, n
<1>7. KeySafe(p)' /\ StepSafe(p)'
  BY <1>1, <1>3 DEF KeySafe, StepSafe, Writing
<1> QED BY <1>5, <1>6, <1>7 DEF SafeInv

\* A step that leaves the file, the key and what was reported stored alone.
LEMMA SameFile ==
  ASSUME FileSafe, UNCHANGED <<file, keyFile, acked>>
  PROVE  FileSafe' /\ (Readable' <=> Readable) /\ OnFile' = OnFile
BY DEF FileSafe, Readable, OnFile

\* An operation that ends with memory as it was.
LEMMA IdleSafe ==
  ASSUME NEW p \in Procs, MemSafe(p), pc[p] # "closed", FileSafe', UNCHANGED acked,
         pc'[p] = "idle", mem'[p].records = mem[p].records, mem'[p].next = mem[p].next,
         mem'[p].key \in {None, keyFile'}
  PROVE  SafeInv(p)'
BY DEF SafeInv, MemSafe, KeySafe, StepSafe, Writing

\* A record() that fails.
LEMMA FailSafe ==
  ASSUME TypeOK, NEW p \in Procs, SafeInv(p), NEW why, FailWith(p, why),
         pc[p] # "closed", UNCHANGED <<file, keyFile, acked>>
  PROVE  SafeInv(p)'
<1>1. /\ mem'[p] = [mem[p] EXCEPT !.pending = None] /\ pc'[p] = "idle"
      /\ mem[p] \in Inners
  BY FailType DEF TypeOK
<1>2. mem'[p].records = mem[p].records /\ mem'[p].next = mem[p].next
      /\ mem'[p].key = mem[p].key
  BY <1>1 DEF Inners
<1> QED BY <1>1, <1>2, SameFile, IdleSafe DEF SafeInv, KeySafe

\* An operation that ends with memory as it was.
LEMMA FinishSafe ==
  ASSUME TypeOK, NEW p \in Procs, SafeInv(p), NEW why, Finish(p, why), UNCHANGED mem,
         pc[p] # "closed", UNCHANGED <<file, keyFile, acked>>
  PROVE  SafeInv(p)'
<1>1. pc'[p] = "idle"
  BY DEF Finish, TypeOK
<1> QED BY <1>1, SameFile, IdleSafe DEF SafeInv, KeySafe

\* The new record's index is above all others, and a rewrite starts from what
\* memory holds (record_inner).
LEMMA BeginSafe ==
  ASSUME TypeOK, NEW p \in Procs, SafeInv(p), Begin(p)
  PROVE  SafeInv(p)'
<1> DEFINE key == IF mem[p].key # None THEN mem[p].key ELSE keyFile
           m == [mem[p] EXCEPT !.key = key,
                   !.pending = [id |-> gen', index |-> mem[p].next]]
           s == IF key = None THEN "key" ELSE WritePath(m)
<1>1. UNCHANGED <<faults, file, tmp, keyFile, wipes, acked>> /\ pc[p] = "idle"
      /\ mem[p] \in Inners
  BY DEF Begin, At, TypeOK
<1>2. CASE key = "short"
  <2>1. Finish(p, "error") /\ UNCHANGED mem
    BY <1>2 DEF Begin
  <2> QED BY <1>1, <2>1, FinishSafe
<1>3. CASE key # "short"
  <2>1. mem'[p] = m /\ pc'[p] = s
    BY <1>3 DEF Begin, Goto, TypeOK
  <2>2. /\ m.records = mem[p].records /\ m.next = mem[p].next /\ m.key = key
        /\ m.pending.index = mem[p].next
    BY <1>1 DEF Inners
  <2>3. WritePath(m) \in {"seal", "append"}
    BY DEF WritePath
  <2> HIDE DEF m
  <2>4. key \in {None, keyFile} /\ (s = "key" => keyFile = None)
    BY <2>3 DEF SafeInv, KeySafe
  <2>5. s \in {"key", "seal", "append"}
    BY <2>3
  <2> HIDE DEF s, key
  <2>6. MemSafe(p)' /\ KeySafe(p)' /\ StepSafe(p)'
    BY <1>1, <2>1, <2>2, <2>4, <2>5 DEF SafeInv, MemSafe, KeySafe, StepSafe, Writing
  <2> QED BY <1>1, <2>6, SameFile DEF SafeInv
<1> QED BY <1>2, <1>3

\* A key is made only where none is in use, and it reaches the disk before a
\* frame does.
LEMMA KeyFileSafe ==
  ASSUME TypeOK, NEW p \in Procs, SafeInv(p), GenerateKey(p)
  PROVE  SafeInv(p)'
<1>1. /\ UNCHANGED <<faults, file, tmp, gen, wipes, acked>> /\ pc[p] = "key"
      /\ mem[p] \in Inners /\ keyFile = None /\ mem[p].key = None
  BY DEF GenerateKey, At, TypeOK, SafeInv, KeySafe
<1>2. file.fmt \notin {"v1", "v2"}
  BY <1>1, NoneApart DEF SafeInv, FileSafe
<1>3. FileSafe'
  BY <1>1, <1>2 DEF SafeInv, FileSafe, Readable, OnFile
<1>4. CASE FailWith(p, "error")
  <2>1. mem'[p] = [mem[p] EXCEPT !.pending = None] /\ pc'[p] = "idle"
    BY <1>4, FailType
  <2>2. mem'[p].records = mem[p].records /\ mem'[p].next = mem[p].next
        /\ mem'[p].key = mem[p].key
    BY <1>1, <2>1 DEF Inners
  <2> QED BY <1>1, <1>3, <2>1, <2>2, IdleSafe DEF SafeInv
<1>5. CASE ~FailWith(p, "error")
  <2> DEFINE m == [mem[p] EXCEPT !.key = p]
  <2>1. mem'[p] = m /\ pc'[p] = WritePath(m) /\ keyFile' = p
    BY <1>5 DEF GenerateKey, Fail, Goto, TypeOK
  <2>2. m.records = mem[p].records /\ m.next = mem[p].next /\ m.key = p
        /\ m.pending = mem[p].pending
    BY <1>1 DEF Inners
  <2>3. WritePath(m) \in {"seal", "append"}
    BY DEF WritePath
  <2> HIDE DEF m
  <2>4. MemSafe(p)' /\ KeySafe(p)' /\ StepSafe(p)'
    BY <1>1, <2>1, <2>2, <2>3 DEF SafeInv, MemSafe, KeySafe, StepSafe, Writing
  <2> QED BY <1>3, <2>4 DEF SafeInv
<1> QED BY <1>4, <1>5

\* What record() keeps, about a process that has a record in hand.
LEMMA KeptSafe ==
  ASSUME TypeOK, NEW p \in Procs, SafeInv(p), pc[p] \in Writing
  PROVE  /\ Kept(p) \in Seq(Recs) /\ Kept(p) # <<>>
         /\ Kept(p)[Len(Kept(p))] = mem[p].pending
         /\ Rising(Kept(p)) /\ Below(Kept(p), mem[p].next + 1)
         /\ Tracks(Append(acked, mem[p].pending), Kept(p))
         /\ Len(mem[p].records) <= MaxRecords => Len(Kept(p)) <= MaxRecords
         /\ KeepFrom(Pushed(p)) = 0 => Kept(p) = Pushed(p)
<1>1. /\ mem[p].records \in Seq(Recs) /\ mem[p].pending \in Recs /\ acked \in Seq(Recs)
      /\ mem[p].pending.index = mem[p].next /\ pc[p] # "closed"
  BY DEF TypeOK, HolderOK, Inners, SafeInv, StepSafe, Writing
<1>2. Kept(p) = KeptOf(mem[p].records, mem[p].pending)
  BY DEF Kept, KeptOf, Pushed
<1>3. /\ Rising(mem[p].records) /\ Below(mem[p].records, mem[p].pending.index)
      /\ Below(acked, mem[p].pending.index) /\ Tracks(acked, mem[p].records)
  BY <1>1 DEF SafeInv, MemSafe
<1>4. Pushed(p) = Append(mem[p].records, mem[p].pending)
  BY DEF Pushed
<1> DEFINE recs == mem[p].records
           x == mem[p].pending
           kept == Kept(p)
<1>5. /\ recs \in Seq(Recs) /\ x \in Recs /\ acked \in Seq(Recs) /\ kept = KeptOf(recs, x)
      /\ Rising(recs) /\ Below(recs, x.index) /\ Below(acked, x.index) /\ Tracks(acked, recs)
      /\ x.index = mem[p].next /\ Pushed(p) = Append(recs, x)
  BY <1>1, <1>2, <1>3, <1>4
<1> HIDE DEF recs, x, kept
<1>6. /\ kept \in Seq(Recs) /\ kept # <<>> /\ kept[Len(kept)] = x
      /\ Rising(kept) /\ Below(kept, x.index + 1) /\ Tracks(Append(acked, x), kept)
      /\ Len(recs) <= MaxRecords => Len(kept) <= MaxRecords
      /\ KeepFrom(Append(recs, x)) = 0 => kept = Append(recs, x)
  BY <1>5, KeptGood
<1> QED BY <1>5, <1>6 DEF recs, x, kept

\* Sealing beside the store touches neither the store nor memory.
LEMMA SealTmpSafe ==
  ASSUME TypeOK, NEW p \in Procs, SafeInv(p), SealTmp(p)
  PROVE  SafeInv(p)'
<1>1. UNCHANGED <<faults, file, keyFile, gen, wipes, acked>> /\ pc[p] = "seal"
  BY DEF SealTmp, At
<1>2. CASE FailWith(p, "error")
  BY <1>1, <1>2, FailSafe
<1>3. CASE ~FailWith(p, "error")
  <2>1. /\ tmp' = SealAll(Kept(p), mem[p].key, mem[p].pending.id)
        /\ pc'[p] = "rename" /\ UNCHANGED mem
    BY <1>3 DEF SealTmp, Fail, Goto, TypeOK
  <2>2. Kept(p)' = Kept(p)
    BY <2>1 DEF Kept, Pushed
  <2>3. MemSafe(p)' /\ KeySafe(p)' /\ StepSafe(p)'
    BY <1>1, <2>1, <2>2 DEF SafeInv, MemSafe, KeySafe, StepSafe, Writing
  <2> QED BY <1>1, <2>3, SameFile DEF SafeInv
<1> QED BY <1>2, <1>3

\* A frame that lands at the end of the file, whole or cut short: if the file
\* loads after that, it loaded before.
LEMMA LandedSafe ==
  ASSUME TypeOK, NEW p \in Procs, SafeInv(p), pc[p] \in Writing,
         NEW f \in Frames, f.rec = mem[p].pending,
         file' = Landed(f), UNCHANGED <<keyFile, acked>>
  PROVE  /\ FileSafe' /\ file'.fmt \in {"v2", "junk"}
         /\ Readable' => Tracks(Append(acked, mem[p].pending), OnFile')
<1>1. /\ file.frames \in Seq(Frames) /\ acked \in Seq(Recs) /\ mem[p].pending \in Recs
      /\ mem[p].key \in Keys /\ mem[p].pending.index = mem[p].next /\ pc[p] # "closed"
      /\ file \in [fmt: Formats, frames: Seq(Frames)]
  BY DEF TypeOK, HolderOK, SafeInv, StepSafe, Writing
<1>2. keyFile \in Keys
  BY <1>1, NoneApart DEF SafeInv, KeySafe
<1>3. CASE file.fmt # "v2"
  <2>1. file' = File("junk", <<>>)
    BY <1>3 DEF Landed, Junk
  <2>2. file'.fmt = "junk" /\ ~Readable'
    BY <2>1 DEF File, Readable
  <2> QED BY <2>2 DEF FileSafe, SafeInv
<1>4. CASE file.fmt = "v2"
  <2> DEFINE g == Append(file.frames, f)
  <2>1. file' = File("v2", g)
    BY <1>4 DEF Landed
  <2> HIDE DEF g
  <2>2. file'.fmt = "v2" /\ file'.frames = g
    BY <2>1 DEF File
  <2>3. OnFile' = Append(OnFile, mem[p].pending) /\ g \in Seq(Frames) /\ OnFile \in Seq(Recs)
    BY <1>1, <2>2, RecordsAppend, RecordsType, AppendProperties DEF OnFile, g
  <2>4. ASSUME Readable' PROVE Tracks(Append(acked, mem[p].pending), OnFile')
    <3>1. Parses(g, keyFile)
      BY <2>2, <2>4 DEF Readable
    <3>2. Chained(g, keyFile)
      BY <2>3, <3>1, ParsesChained
    <3>3. Chained(file.frames, keyFile)
      BY <1>1, <3>2, ChainedAppend DEF g
    <3>4. Parses(file.frames, keyFile)
      BY <1>1, <3>3, ParsesChained
    <3>5. Readable
      BY <1>2, <1>4, <3>4, NoneApart DEF Readable
    <3>6. Tracks(acked, OnFile)
      BY <3>5 DEF SafeInv, FileSafe
    <3>7. Below(acked, mem[p].pending.index)
      BY <1>1 DEF SafeInv, MemSafe
    <3> QED BY <1>1, <2>3, <3>6, <3>7, TracksAppend
  <2>5. Readable' => Tracks(acked, OnFile')
    <3>1. OnFile' \in Seq(Recs)
      BY <1>1, <2>3, AppendProperties
    <3> QED BY <1>1, <2>4, <3>1, TracksLess
  <2>6. FileSafe'
    BY <1>2, <2>2, <2>5 DEF SafeInv, FileSafe
  <2> QED BY <2>2, <2>4, <2>6
<1> QED BY <1>3, <1>4

\* A frame that lands whole adds its record; a torn one adds nothing that loads.
LEMMA AppendSafe ==
  ASSUME TypeOK, NEW p \in Procs, SafeInv(p), AppendFrame(p)
  PROVE  SafeInv(p)'
<1> DEFINE f == Seal(mem[p].pending, mem[p].key, mem[p].tail, mem[p].pending.id)
           torn == [f EXCEPT !.whole = FALSE]
<1>1. /\ UNCHANGED <<faults, tmp, keyFile, gen, wipes, acked>> /\ pc[p] = "append"
      /\ pc[p] \in Writing
  BY DEF AppendFrame, At, Writing
<1>2. f \in Frames /\ torn \in Frames /\ f.rec = mem[p].pending /\ torn.rec = mem[p].pending
  <2>1. /\ mem[p] \in Inners /\ mem[p].pending \in Recs /\ mem[p].key \in Keys
    BY <1>1 DEF TypeOK, HolderOK
  <2>2. f \in Frames /\ torn \in Frames
    BY <2>1, SealType DEF Inners, Recs
  <2> QED BY <2>2 DEF Seal
<1> HIDE DEF f, torn
<1>3. CASE UNCHANGED file /\ \E why : FailWith(p, why)
  BY <1>1, <1>3, FailSafe
<1>4. CASE file' = Landed(f) /\ Goto(p, "chmod") /\ UNCHANGED <<mem, result>>
  <2>1. /\ FileSafe' /\ file'.fmt \in {"v2", "junk"}
        /\ Readable' => Tracks(Append(acked, mem[p].pending), OnFile')
    BY <1>1, <1>2, <1>4, LandedSafe
  <2>2. pc'[p] = "chmod" /\ UNCHANGED mem
    BY <1>4 DEF Goto, TypeOK
  <2>3. MemSafe(p)' /\ KeySafe(p)' /\ StepSafe(p)'
    BY <1>1, <2>1, <2>2 DEF SafeInv, MemSafe, KeySafe, StepSafe, Writing
  <2> QED BY <2>1, <2>3 DEF SafeInv
<1>5. CASE /\ file' = Landed(torn) /\ mem' = [mem EXCEPT ![p] = FreshMem]
           /\ Goto(p, "closed") /\ UNCHANGED result
  <2>1. FileSafe'
    BY <1>1, <1>2, <1>5, LandedSafe
  <2>2. pc'[p] = "closed" /\ mem'[p].key = None
    BY <1>5 DEF Goto, TypeOK, FreshMem
  <2>3. MemSafe(p)' /\ KeySafe(p)' /\ StepSafe(p)'
    BY <2>2 DEF MemSafe, KeySafe, StepSafe, Writing
  <2> QED BY <2>1, <2>3 DEF SafeInv
<1>6. CASE file' = Landed(torn) /\ FailWith(p, "error")
  <2>1. FileSafe'
    BY <1>1, <1>2, <1>6, LandedSafe
  <2>2. mem'[p] = [mem[p] EXCEPT !.pending = None] /\ pc'[p] = "idle" /\ mem[p] \in Inners
    BY <1>6, FailType DEF TypeOK
  <2>3. mem'[p].records = mem[p].records /\ mem'[p].next = mem[p].next
        /\ mem'[p].key = mem[p].key
    BY <2>2 DEF Inners
  <2>4. pc[p] # "closed"
    BY <1>1 DEF Writing
  <2> QED BY <1>1, <2>1, <2>2, <2>3, <2>4, IdleSafe DEF SafeInv, KeySafe
<1> QED BY <1>3, <1>4, <1>5, <1>6 DEF AppendFrame, NewFrame, Fail, f, torn

\* The file that took the place of the history holds what was kept.
LEMMA RenamedGood ==
  ASSUME TypeOK, NEW p \in Procs, SafeInv(p), pc[p] = "rename", tmp # None,
         file' = File("v2", tmp), UNCHANGED <<keyFile, mem>>
  PROVE  /\ file'.fmt = "v2" /\ OnFile' = Kept(p) /\ keyFile \in Keys
         /\ Chained(file'.frames, keyFile) /\ TailOf(file'.frames) = TailAfter(p)
<1>1. /\ mem[p].pending \in Recs /\ mem[p].key \in Keys /\ pc[p] \in Writing
      /\ mem[p].key = keyFile
  BY NoneApart DEF TypeOK, HolderOK, SafeInv, KeySafe, Writing
<1>2. tmp = SealAll(Kept(p), mem[p].key, mem[p].pending.id)
  BY DEF SafeInv, StepSafe
<1>3. /\ Kept(p) \in Seq(Recs) /\ Kept(p) # <<>> /\ Rising(Kept(p))
      /\ Kept(p)[Len(Kept(p))] = mem[p].pending
  BY <1>1, KeptSafe
<1>4. mem[p].pending.id \in Nat
  BY <1>1 DEF Recs
<1>5. /\ Records(tmp) = Kept(p) /\ Chained(tmp, mem[p].key)
      /\ TailOf(tmp) = <<mem[p].pending.id, mem[p].pending.id>>
  BY <1>1, <1>2, <1>3, <1>4, SealAllChained
<1>6. file'.fmt = "v2" /\ file'.frames = tmp
  BY DEF File
<1> QED BY <1>1, <1>5, <1>6 DEF OnFile, TailAfter

\* The renamed file holds what is kept and the new record.
LEMMA RenameSafe ==
  ASSUME TypeOK, NEW p \in Procs, SafeInv(p), RenameTmp(p)
  PROVE  SafeInv(p)'
<1>1. /\ UNCHANGED <<faults, keyFile, gen, wipes, acked>> /\ pc[p] = "rename"
      /\ pc[p] \in Writing
  BY DEF RenameTmp, At, Writing
<1>2. CASE UNCHANGED file /\ FailWith(p, "error")
  BY <1>1, <1>2, FailSafe
<1>3. CASE ~(UNCHANGED file /\ FailWith(p, "error"))
  <2>1. /\ tmp # None /\ file' = File("v2", tmp) /\ pc'[p] = "chmod" /\ UNCHANGED mem
    BY <1>3 DEF RenameTmp, Fail, Goto, TypeOK
  <2>2. file'.fmt = "v2" /\ OnFile' = Kept(p) /\ keyFile \in Keys
    BY <1>1, <2>1, RenamedGood
  <2>3. Tracks(Append(acked, mem[p].pending), Kept(p)) /\ Kept(p) \in Seq(Recs)
    BY <1>1, KeptSafe
  <2>4. Tracks(acked, Kept(p))
    <3>1. acked \in Seq(Recs) /\ mem[p].pending \in Recs
      BY <1>1 DEF TypeOK, HolderOK
    <3> QED BY <2>3, <3>1, TracksLess
  <2>5. FileSafe'
    BY <1>1, <2>2, <2>4 DEF SafeInv, FileSafe
  <2>6. MemSafe(p)' /\ KeySafe(p)' /\ StepSafe(p)'
    BY <1>1, <2>1, <2>2, <2>3 DEF SafeInv, MemSafe, KeySafe, StepSafe, Writing
  <2> QED BY <2>5, <2>6 DEF SafeInv
<1> QED BY <1>2, <1>3

\* Committing reports the record stored only when the file holds it.
LEMMA CommitSafe ==
  ASSUME TypeOK, NEW p \in Procs, SafeInv(p), Commit(p)
  PROVE  SafeInv(p)'
<1>1. /\ UNCHANGED <<faults, file, tmp, keyFile, gen, wipes>> /\ pc[p] = "chmod"
      /\ pc[p] \in Writing
  BY DEF Commit, At, Writing
<1>2. CASE UNCHANGED acked /\ FailWith(p, "error")
  BY <1>1, <1>2, FailSafe
<1>3. CASE ~(UNCHANGED acked /\ FailWith(p, "error"))
  <2>1. /\ mem' = [mem EXCEPT ![p] = Committed(mem[p], Kept(p), TailAfter(p))]
        /\ acked' = Append(acked, mem[p].pending) /\ file.fmt # "absent"
        /\ pc'[p] = "idle"
    BY <1>3 DEF Commit, Fail, Finish, Committed, TypeOK
  <2>2. /\ mem[p] \in Inners /\ mem[p].pending \in Recs /\ acked \in Seq(Recs)
        /\ mem[p].pending.index = mem[p].next /\ TailAfter(p) \in Nat \X Nat
    BY <1>1 DEF TypeOK, HolderOK, SafeInv, StepSafe, TailAfter, Recs
  <2>3. /\ Kept(p) \in Seq(Recs) /\ Rising(Kept(p)) /\ Below(Kept(p), mem[p].next + 1)
        /\ Tracks(Append(acked, mem[p].pending), Kept(p))
    BY <1>1, KeptSafe
  <2>4. /\ mem'[p].records = Kept(p) /\ mem'[p].next = mem[p].next + 1
        /\ mem'[p].key = mem[p].key
    BY <2>1, <2>2, <2>3, CommittedFields DEF TypeOK
  <2>5. Below(acked', mem[p].next + 1) /\ Rising(acked')
    <3>1. Below(acked, mem[p].pending.index) /\ Rising(acked)
      BY <1>1, <2>2 DEF SafeInv, MemSafe, FileSafe
    <3>2. mem[p].next + 1 \in Nat /\ mem[p].pending.index < mem[p].next + 1
      BY <2>2 DEF Inners
    <3> QED BY <2>1, <2>2, <3>1, <3>2, RisingAppend
  <2>6. Readable' => Tracks(acked', OnFile')
    BY <1>1, <2>1 DEF SafeInv, StepSafe, Readable, OnFile
  <2>7. FileSafe'
    BY <1>1, <2>5, <2>6 DEF SafeInv, FileSafe
  <2>8. MemSafe(p)'
    BY <2>1, <2>3, <2>4, <2>5 DEF MemSafe
  <2>9. KeySafe(p)' /\ StepSafe(p)'
    BY <1>1, <2>1, <2>4 DEF SafeInv, KeySafe, StepSafe, Writing
  <2> QED BY <2>7, <2>8, <2>9 DEF SafeInv
<1> QED BY <1>2, <1>3

\* Once the store is wiped there is nothing to lose.
LEMMA WipedGood ==
  /\ \A kept \in Seq(Recs) : Tracks(<<>>, kept)
  /\ Tracks(<<>>, <<>>)
  /\ Rising(<<>>) /\ \A n : Below(<<>>, n)
  /\ Records(<<>>) = <<>>
<1>1. \A kept \in Seq(Recs) : Len(kept) >= Len(<<>>)
  OBVIOUS
<1>2. <<>> \in Seq(Recs)
  OBVIOUS
<1>3. \A kept \in Seq(Recs) : Tracks(<<>>, kept)
  BY <1>1 DEF Tracks, OldestGone, Range
<1>4. Tracks(<<>>, <<>>)
  BY <1>2, <1>3
<1>5. Rising(<<>>) /\ (\A n : Below(<<>>, n)) /\ Records(<<>>) = <<>>
  BY DEF Rising, Below, Records
<1> QED BY <1>3, <1>4, <1>5

\* A wiped store, with memory empty as well.
LEMMA ResetSafe ==
  ASSUME TypeOK, NEW p \in Procs, SafeInv(p), NEW why, Finish(p, why), Reset(p),
         file' = NoFile, UNCHANGED keyFile, acked' = <<>>
  PROVE  SafeInv(p)'
<1>1. /\ pc'[p] = "idle" /\ mem'[p] = [FreshMem EXCEPT !.key = mem[p].key]
  BY DEF Finish, Reset, TypeOK
<1>2. mem'[p].records = <<>> /\ mem'[p].key = mem[p].key
  BY <1>1 DEF FreshMem
<1>3. OnFile' = <<>> /\ file'.fmt = "absent"
  BY WipedGood DEF OnFile, NoFile, File
<1>4. FileSafe'
  BY <1>3, WipedGood DEF FileSafe
<1>5. MemSafe(p)' /\ KeySafe(p)' /\ StepSafe(p)'
  BY <1>1, <1>2, WipedGood DEF SafeInv, MemSafe, KeySafe, StepSafe, Writing
<1> QED BY <1>4, <1>5 DEF SafeInv

\* A clear() gives up what was reported stored and empties the file first.
LEMMA TruncateSafe ==
  ASSUME TypeOK, NEW p \in Procs, SafeInv(p), Truncate(p)
  PROVE  SafeInv(p)'
<1>1. UNCHANGED <<faults, tmp, keyFile, gen>> /\ pc[p] = "idle"
  BY DEF Truncate, At
<1>2. CASE file.fmt = "absent" /\ Reset(p) /\ Finish(p, "ok") /\ acked' = <<>> /\ UNCHANGED file
  <2>1. file = NoFile
    BY <1>2 DEF TypeOK, NoFile, File
  <2> QED BY <1>1, <1>2, <2>1, ResetSafe
<1>3. CASE file' = File("empty", <<>>) /\ acked' = <<>> /\ Goto(p, "zero") /\ UNCHANGED <<mem, result>>
  <2>1. pc'[p] = "zero" /\ OnFile' = <<>> /\ file'.fmt = "empty"
    BY <1>3, WipedGood DEF Goto, TypeOK, OnFile, File
  <2>2. FileSafe'
    BY <1>3, <2>1, WipedGood DEF FileSafe
  <2>3. mem[p].records \in Seq(Recs)
    BY DEF TypeOK, Inners
  <2>4. MemSafe(p)' /\ KeySafe(p)' /\ StepSafe(p)'
    BY <1>1, <1>3, <2>1, <2>3, WipedGood DEF SafeInv, MemSafe, KeySafe, StepSafe, Writing
  <2> QED BY <2>2, <2>4 DEF SafeInv
<1>4. CASE Finish(p, "error") /\ UNCHANGED <<file, mem, acked>>
  BY <1>1, <1>4, FinishSafe
<1> QED BY <1>2, <1>3, <1>4 DEF Truncate

\* A file of records is overwritten with what does not load.
LEMMA OverwriteSafe ==
  ASSUME TypeOK, NEW p \in Procs, SafeInv(p), Overwrite(p)
  PROVE  SafeInv(p)'
<1>1. UNCHANGED <<faults, tmp, keyFile, mem, gen, wipes, acked>> /\ pc[p] = "zero"
      /\ acked = <<>>
  BY DEF Overwrite, At, SafeInv, StepSafe
<1>2. CASE Finish(p, "error") /\ UNCHANGED file
  BY <1>1, <1>2, FinishSafe
<1>3. CASE /\ file' = IF file.fmt \in {"absent", "v2"} THEN file ELSE Junk
           /\ Goto(p, "remove") /\ UNCHANGED result
  <2>1. pc'[p] = "remove"
    BY <1>3 DEF Goto, TypeOK
  <2>2. FileSafe'
    <3>1. CASE file' = file
      BY <1>1, <3>1, SameFile DEF SafeInv
    <3>2. CASE file' = Junk
      BY <1>1, <3>2 DEF SafeInv, FileSafe, Readable, Junk, File
    <3> QED BY <1>3, <3>1, <3>2
  <2>3. MemSafe(p)' /\ KeySafe(p)' /\ StepSafe(p)'
    BY <1>1, <2>1 DEF SafeInv, MemSafe, KeySafe, StepSafe, Writing
  <2> QED BY <2>2, <2>3 DEF SafeInv
<1> QED BY <1>2, <1>3 DEF Overwrite

\* And the removed one loads as nothing.
LEMMA UnlinkSafe ==
  ASSUME TypeOK, NEW p \in Procs, SafeInv(p), Unlink(p)
  PROVE  SafeInv(p)'
<1>1. UNCHANGED <<faults, tmp, keyFile, gen, wipes, acked>> /\ pc[p] = "remove"
      /\ acked = <<>>
  BY DEF Unlink, At, SafeInv, StepSafe
<1>2. CASE Finish(p, "error") /\ UNCHANGED <<file, mem>>
  BY <1>1, <1>2, FinishSafe
<1>3. CASE file' = NoFile /\ Reset(p) /\ Finish(p, "ok")
  BY <1>1, <1>3, ResetSafe
<1> QED BY <1>2, <1>3 DEF Unlink

\* The process dies; the file stays.
LEMMA CrashSafe ==
  ASSUME TypeOK, NEW p \in Procs, SafeInv(p), Crash(p)
  PROVE  SafeInv(p)'
<1>1. /\ UNCHANGED <<file, keyFile, acked>> /\ pc'[p] = "closed" /\ mem'[p].key = None
  BY DEF Crash, Goto, TypeOK, FreshMem
<1>2. MemSafe(p)' /\ KeySafe(p)' /\ StepSafe(p)'
  BY <1>1 DEF MemSafe, KeySafe, StepSafe, Writing
<1> QED BY <1>1, <1>2, SameFile DEF SafeInv

\* The file goes; what it held is given up.
LEMMA DeleteSafe ==
  ASSUME TypeOK, NEW p \in Procs, SafeInv(p), Delete
  PROVE  SafeInv(p)'
<1>1. /\ UNCHANGED <<faults, tmp, keyFile, mem, pc, result, gen>>
      /\ file' = NoFile /\ acked' = <<>>
  BY DEF Delete
<1>2. OnFile' = <<>> /\ file'.fmt = "absent"
  BY <1>1, WipedGood DEF OnFile, NoFile, File
<1>3. FileSafe'
  BY <1>1, <1>2, WipedGood DEF FileSafe
<1>4. mem[p].records \in Seq(Recs)
  BY DEF TypeOK, Inners
<1>5. MemSafe(p)'
  BY <1>1, <1>4, WipedGood DEF SafeInv, MemSafe
<1>6. Kept(p)' = Kept(p)
  BY <1>1 DEF Kept, Pushed
<1>7. KeySafe(p)' /\ StepSafe(p)'
  BY <1>1, <1>2, <1>6 DEF SafeInv, KeySafe, StepSafe, Writing
<1> QED BY <1>3, <1>5, <1>7 DEF SafeInv

\* When one process owns the state directory, every step keeps what is promised.
LEMMA SafeStep ==
  ASSUME TypeOK, NEW p, Procs = {p}, SafeInv(p), [Next]_vars
  PROVE  SafeInv(p)'
<1> p \in Procs
  OBVIOUS
<1>1. CASE UNCHANGED vars
  <2>1. UNCHANGED <<file, tmp, keyFile, mem, pc, acked>>
    BY <1>1 DEF vars
  <2>2. Kept(p)' = Kept(p)
    BY <2>1 DEF Kept, Pushed
  <2>3. MemSafe(p)' /\ KeySafe(p)' /\ StepSafe(p)'
    BY <2>1, <2>2, SameFile DEF SafeInv, MemSafe, KeySafe, StepSafe
  <2> QED BY <2>1, <2>3, SameFile DEF SafeInv
<1>2. CASE Step(p)
  BY <1>2, OpenSafe, BeginSafe, KeyFileSafe, AppendSafe, SealTmpSafe, RenameSafe, CommitSafe,
     TruncateSafe, OverwriteSafe, UnlinkSafe, CrashSafe DEF Step
<1>3. CASE Delete
  BY <1>3, DeleteSafe
<1> QED BY <1>1, <1>2, <1>3 DEF Next

\* At first there is nothing to lose.
LEMMA SafeInit ==
  ASSUME Init, NEW p \in Procs
  PROVE  SafeInv(p)
<1>1. mem[p].key = None /\ pc[p] = "closed"
  BY DEF Init, FreshMem
<1>2. MemSafe(p) /\ KeySafe(p) /\ StepSafe(p)
  BY <1>1 DEF MemSafe, KeySafe, StepSafe, Writing
<1>3. CASE file = NoFile /\ keyFile = None /\ acked = <<>>
  <2>1. OnFile = <<>> /\ file.fmt = "absent"
    BY <1>3, WipedGood DEF OnFile, NoFile, File
  <2> QED BY <1>2, <1>3, <2>1, WipedGood DEF SafeInv, FileSafe
<1>4. CASE /\ keyFile = "install" /\ acked = << [id |-> 1, index |-> 0] >>
           /\ file = File("v1", << Seal(acked[1], keyFile, Magic, 0) >>)
  <2> DEFINE r == [id |-> 1, index |-> 0]
             f == Seal(r, "install", Magic, 0)
  <2>1. acked = <<r>> /\ acked[1] = r /\ r \in Recs /\ f \in Frames /\ keyFile \in Keys
    BY <1>4, SealType DEF Recs, Keys, Magic
  <2>2. file.fmt = "v1" /\ file.frames = <<f>> /\ f.rec = r
    BY <1>4, <2>1 DEF File, Seal
  <2> HIDE DEF r, f
  <2>3. Len(<<f>>) = 1 /\ Len(<<r>>) = 1 /\ DOMAIN <<f>> = 1..1 /\ DOMAIN <<r>> = 1..1
    OBVIOUS
  <2>4. OnFile = <<r>>
    <3>1. Records(<<f>>) = [k \in 1..1 |-> r]
      BY <2>2, <2>3 DEF Records
    <3>2. [k \in 1..1 |-> r] = <<r>>
      OBVIOUS
    <3> QED BY <2>2, <3>1, <3>2 DEF OnFile
  <2>5. Tracks(<<r>>, <<r>>) /\ Rising(<<r>>)
    BY <2>3 DEF Tracks, OldestGone, Rising
  <2> QED BY <1>2, <2>1, <2>2, <2>3, <2>4, <2>5 DEF SafeInv, FileSafe
<1> QED BY <1>3, <1>4 DEF Init

\* "Never a silent truncation" (parse_frames): when one server owns the state
\* directory, then whatever call fails, whenever it dies, and whatever the user
\* deletes, a history that loads has every record reported stored since the last
\* wipe, but for the oldest that the retention limit evicted.
THEOREM HistoryLosesNothing ==
  ASSUME NEW p, Procs = {p}
  PROVE  Spec => []NothingLost
<1> p \in Procs
  OBVIOUS
<1> DEFINE IInv == TypeOK /\ SafeInv(p)
<1>1. Init => IInv
  BY TypeInit, SafeInit
<1>2. IInv /\ [Next]_vars => IInv'
  BY TypeStep, SafeStep
<1>3. IInv => NothingLost
  BY DEF SafeInv, FileSafe, NothingLost, Tracks, OldestGone
<1> QED BY <1>1, <1>2, <1>3, PTL DEF Spec

-----------------------------------------------------------------------------
(* Memory and file agree *)

\* A step that leaves the file, the key and what was reported stored alone.
LEMMA SameCalm ==
  ASSUME FileCalm, UNCHANGED <<file, keyFile, acked>>
  PROVE  FileCalm'
BY DEF FileCalm, Readable, OnFile

\* One that leaves what memory has of the file alone as well.
LEMMA SameSynced ==
  ASSUME NEW p \in Procs, Synced(p), UNCHANGED <<file, keyFile>>,
         mem'[p].records = mem[p].records, mem'[p].fmt = mem[p].fmt,
         mem'[p].tail = mem[p].tail
  PROVE  Synced(p)'
BY DEF Synced, Readable, OnFile

\* A record() that fails leaves both as they were.
LEMMA FailCalm ==
  ASSUME TypeOK, NEW p \in Procs, FileCalm, Synced(p), NEW why, FailWith(p, why),
         UNCHANGED <<file, keyFile, acked>>
  PROVE  FileCalm' /\ StepCalm(p)'
<1>1. /\ mem'[p] = [mem[p] EXCEPT !.pending = None] /\ pc'[p] = "idle"
      /\ mem[p] \in Inners
  BY FailType DEF TypeOK
<1>2. mem'[p].records = mem[p].records /\ mem'[p].fmt = mem[p].fmt
      /\ mem'[p].tail = mem[p].tail
  BY <1>1 DEF Inners
<1> QED BY <1>1, <1>2, SameCalm, SameSynced DEF StepCalm

\* After an open that succeeds memory and file agree.
LEMMA OpenCalm ==
  ASSUME TypeOK, NEW p \in Procs, SafeInv(p), FileCalm, Open(p)
  PROVE  FileCalm' /\ StepCalm(p)'
<1>1. UNCHANGED <<file, keyFile, acked>> /\ pc'[p] = "idle" /\ Readable
  BY DEF Open, TypeOK
<1>2. Len(OnFile) <= MaxRecords
  BY <1>1 DEF FileCalm
<1>3. OnFile \in Seq(Recs)
  BY <1>1, LoadedGood DEF SafeInv
<1>4. ~(Len(OnFile) > MaxRecords)
  <2>1. Len(OnFile) \in Nat
    BY <1>3
  <2> QED BY <1>2, <2>1, BatchFits
<1>5. /\ mem'[p].records = OnFile
      /\ mem'[p].fmt = IF file.fmt = "empty" THEN "absent" ELSE file.fmt
      /\ file.fmt = "v2" => mem'[p].tail = TailOf(file.frames)
  BY <1>4, OpenRecords DEF SafeInv
<1>6. Synced(p)'
  BY <1>1, <1>5 DEF Synced, Readable, OnFile
<1> QED BY <1>1, <1>6, SameCalm DEF StepCalm

\* Beginning a record() changes neither.
LEMMA BeginCalm ==
  ASSUME TypeOK, NEW p \in Procs, SafeInv(p), FileCalm, StepCalm(p), Begin(p)
  PROVE  FileCalm' /\ StepCalm(p)'
<1> DEFINE key == IF mem[p].key # None THEN mem[p].key ELSE keyFile
           m == [mem[p] EXCEPT !.key = key,
                   !.pending = [id |-> gen', index |-> mem[p].next]]
           s == IF key = None THEN "key" ELSE WritePath(m)
<1>1. UNCHANGED <<file, keyFile, acked>> /\ Synced(p) /\ mem[p] \in Inners
  BY DEF Begin, At, TypeOK, StepCalm
<1>2. CASE key = "short"
  <2>1. pc'[p] = "idle" /\ UNCHANGED mem
    BY <1>2 DEF Begin, Finish, TypeOK
  <2> QED BY <1>1, <2>1, SameCalm, SameSynced DEF StepCalm
<1>3. CASE key # "short"
  <2>1. mem'[p] = m /\ pc'[p] = s
    BY <1>3 DEF Begin, Goto, TypeOK
  <2>2. m.records = mem[p].records /\ m.fmt = mem[p].fmt /\ m.tail = mem[p].tail
    BY <1>1 DEF Inners
  <2>3. /\ WritePath(m) \in {"seal", "append"}
        /\ WritePath(m) = "append" =>
             m.fmt = "v2" /\ ~(KeepFrom(Append(m.records, m.pending)) > 0)
    BY DEF WritePath
  <2> HIDE DEF m
  <2>4. Synced(p)'
    BY <1>1, <2>1, <2>2, SameSynced
  <2>5. s \in {"key", "seal", "append"} /\ (s = "append" => WritePath(m) = "append")
    BY <2>3
  <2> HIDE DEF s, key
  <2>6. ASSUME s = "append" PROVE file'.fmt = "v2" /\ KeepFrom(Pushed(p))' = 0
    <3>1. m.fmt = "v2" /\ ~(KeepFrom(Append(m.records, m.pending)) > 0)
      BY <2>3, <2>5, <2>6
    <3>2. file.fmt = "v2"
      BY <1>1, <2>2, <3>1 DEF Synced
    <3>3. Pushed(p)' = Append(m.records, m.pending)
      BY <2>1 DEF Pushed
    <3>4. Pushed(p)' \in Seq(Recs)
      <4>1. TypeOK' /\ pc'[p] \in Writing
        BY <2>1, <2>6, BeginType DEF Writing
      <4>2. mem'[p] \in Inners /\ mem'[p].pending \in Recs
        BY <4>1 DEF TypeOK, HolderOK
      <4>3. mem'[p].records \in Seq(Recs)
        BY <4>2 DEF Inners
      <4> QED BY <4>2, <4>3, AppendProperties DEF Pushed
    <3>5. KeepFrom(Pushed(p))' \in Nat
      <4>1. Len(Pushed(p)') \in Nat
        BY <3>4
      <4> QED BY <4>1, BatchFits DEF KeepFrom
    <3> QED BY <1>1, <3>1, <3>2, <3>3, <3>5
  <2> QED BY <1>1, <2>1, <2>4, <2>5, <2>6, SameCalm DEF StepCalm
<1> QED BY <1>2, <1>3

\* A new key goes with a file without frames.
LEMMA KeyFileCalm ==
  ASSUME TypeOK, NEW p \in Procs, SafeInv(p), FileCalm, StepCalm(p), GenerateKey(p)
  PROVE  FileCalm' /\ StepCalm(p)'
<1>1. /\ UNCHANGED <<faults, file, tmp, gen, wipes, acked>> /\ pc[p] = "key"
      /\ mem[p] \in Inners /\ keyFile = None /\ Synced(p)
  BY DEF GenerateKey, At, TypeOK, SafeInv, KeySafe, StepCalm
<1>2. file.fmt \in {"absent", "empty"}
  BY <1>1, NoneApart DEF SafeInv, FileSafe, Synced, Readable
<1>3. FileCalm' /\ Readable'
  BY <1>1, <1>2 DEF FileCalm, Readable, OnFile
<1>4. mem[p].fmt = "absent" /\ mem[p].records = OnFile
  BY <1>1, <1>2 DEF Synced
<1>5. CASE FailWith(p, "error")
  <2>1. mem'[p] = [mem[p] EXCEPT !.pending = None] /\ pc'[p] = "idle"
    BY <1>5, FailType
  <2>2. mem'[p].records = mem[p].records /\ mem'[p].fmt = mem[p].fmt
    BY <1>1, <2>1 DEF Inners
  <2>3. Synced(p)'
    BY <1>1, <1>2, <1>3, <1>4, <2>2 DEF Synced, OnFile
  <2> QED BY <1>3, <2>1, <2>3 DEF StepCalm
<1>6. CASE ~FailWith(p, "error")
  <2> DEFINE m == [mem[p] EXCEPT !.key = p]
  <2>1. mem'[p] = m /\ pc'[p] = WritePath(m)
    BY <1>6 DEF GenerateKey, Fail, Goto, TypeOK
  <2>2. m.records = mem[p].records /\ m.fmt = mem[p].fmt
    BY <1>1 DEF Inners
  <2> HIDE DEF m
  <2>3. pc'[p] = "seal"
    BY <1>4, <2>1, <2>2 DEF WritePath
  <2>4. Synced(p)'
    BY <1>1, <1>2, <1>3, <1>4, <2>1, <2>2 DEF Synced, OnFile
  <2> QED BY <1>3, <2>3, <2>4 DEF StepCalm
<1> QED BY <1>5, <1>6

\* What a record() is about to have on file.
LEMMA KeptCalm ==
  ASSUME TypeOK, NEW p \in Procs, SafeInv(p), FileCalm, Synced(p), pc[p] \in Writing
  PROVE  /\ Kept(p) \in Seq(Recs) /\ Len(Kept(p)) <= MaxRecords
         /\ Rising(Kept(p)) /\ OldestGone(acked, Kept(p))
         /\ KeepFrom(Pushed(p)) = 0 => Kept(p) = Append(OnFile, mem[p].pending)
<1>1. Len(mem[p].records) <= MaxRecords /\ mem[p].records = OnFile
  BY DEF Synced, FileCalm
<1>2. /\ Kept(p) \in Seq(Recs) /\ Rising(Kept(p)) /\ Len(Kept(p)) <= MaxRecords
      /\ Tracks(Append(acked, mem[p].pending), Kept(p))
      /\ KeepFrom(Pushed(p)) = 0 => Kept(p) = Pushed(p)
  BY <1>1, KeptSafe
<1>3. acked \in Seq(Recs) /\ mem[p].pending \in Recs
  BY DEF TypeOK, HolderOK
<1>4. OldestGone(acked, Kept(p))
  BY <1>2, <1>3, TracksLess DEF Tracks
<1> QED BY <1>1, <1>2, <1>4 DEF Pushed

\* A frame that lands in a file memory agrees with, whole or cut short.
LEMMA LandedCalm ==
  ASSUME TypeOK, NEW p \in Procs, SafeInv(p), FileCalm, StepCalm(p), pc[p] = "append",
         NEW f \in Frames, f.rec = mem[p].pending, file' = Landed(f)
  PROVE  /\ file'.fmt = "v2" /\ file'.frames = Append(file.frames, f)
         /\ file.frames \in Seq(Frames)
         /\ OnFile' = Kept(p) /\ Len(OnFile') <= MaxRecords
         /\ Rising(OnFile') /\ OldestGone(acked, OnFile')
<1>1. Synced(p) /\ file.fmt = "v2" /\ KeepFrom(Pushed(p)) = 0 /\ pc[p] \in Writing
      /\ file.frames \in Seq(Frames)
  BY DEF StepCalm, Writing, TypeOK
<1>2. file'.fmt = "v2" /\ file'.frames = Append(file.frames, f)
  BY <1>1 DEF Landed, File
<1>3. OnFile' = Append(OnFile, mem[p].pending)
  BY <1>1, <1>2, RecordsAppend DEF OnFile
<1> QED BY <1>1, <1>2, <1>3, KeptCalm

\* An append that succeeds extends the chain under the key on file.
LEMMA AppendCalm ==
  ASSUME TypeOK, NEW p \in Procs, Tolerable, SafeInv(p), FileCalm, StepCalm(p),
         AppendFrame(p)
  PROVE  FileCalm' /\ StepCalm(p)'
<1> DEFINE f == Seal(mem[p].pending, mem[p].key, mem[p].tail, mem[p].pending.id)
           torn == [f EXCEPT !.whole = FALSE]
           n == Len(file.frames)
<1>1. /\ UNCHANGED <<faults, tmp, keyFile, gen, wipes, acked>> /\ pc[p] = "append"
      /\ pc[p] \in Writing /\ Synced(p) /\ file.fmt = "v2"
      /\ mem[p] \in Inners /\ mem[p].pending \in Recs /\ mem[p].key \in Keys
      /\ mem[p].pending.index = mem[p].next /\ mem[p].key = keyFile
      /\ file.frames \in Seq(Frames)
  BY NoneApart DEF AppendFrame, At, Writing, StepCalm, TypeOK, HolderOK, SafeInv, StepSafe, KeySafe
<1>2. /\ f \in Frames /\ f.rec = mem[p].pending /\ f.key = keyFile /\ f.whole
      /\ f.aad = mem[p].tail /\ Hash(f) = TailAfter(p)
      /\ torn \in Frames /\ torn.rec = mem[p].pending /\ ~torn.whole
  <2>1. f \in Frames /\ torn \in Frames
    BY <1>1, SealType DEF Inners, Recs
  <2> QED BY <1>1, <2>1 DEF Seal, Hash, TailAfter
<1> HIDE DEF f, torn
<1>3. CASE UNCHANGED file /\ \E why : FailWith(p, why)
  BY <1>1, <1>3, FailCalm
<1>4. CASE file' = Landed(f) /\ Goto(p, "chmod") /\ UNCHANGED <<mem, result>>
  <2> DEFINE g == Append(file.frames, f)
  <2>1. pc'[p] = "chmod" /\ UNCHANGED mem
    BY <1>4 DEF Goto, TypeOK
  <2>2. /\ file'.fmt = "v2" /\ file'.frames = g
        /\ OnFile' = Kept(p) /\ Len(OnFile') <= MaxRecords
        /\ Rising(OnFile') /\ OldestGone(acked, OnFile')
    BY <1>1, <1>2, <1>4, LandedCalm
  <2>3. Chained(file.frames, keyFile)
    BY <1>1, ParsesChained DEF Synced, Readable
  <2>4. f.aad = TailOf(file.frames)
    BY <1>1, <1>2 DEF Synced
  <2>5. file.frames # <<>> => f.rec.index > file.frames[n].rec.index
    <3> SUFFICES ASSUME file.frames # <<>> PROVE f.rec.index > file.frames[n].rec.index
      OBVIOUS
    <3>1. n \in 1..n
      BY <1>1
    <3>2. OnFile \in Seq(Recs) /\ Len(OnFile) = n /\ OnFile[n] = file.frames[n].rec
      BY <1>1, <3>1, RecordsType DEF OnFile
    <3>3. Below(OnFile, mem[p].next)
      BY <1>1 DEF SafeInv, MemSafe, Synced
    <3>4. n \in DOMAIN OnFile /\ OnFile[n] \in Recs /\ mem[p].next \in Nat
      BY <1>1, <3>1, <3>2 DEF Inners
    <3>5. OnFile[n].index < mem[p].next /\ OnFile[n].index \in Nat
      BY <3>3, <3>4 DEF Below, Recs
    <3> QED BY <1>1, <1>2, <3>2, <3>4, <3>5
  <2>6. Chained(g, keyFile)
    BY <1>1, <1>2, <2>3, <2>4, <2>5, ChainedAppend
  <2>7. TailOf(g) = TailAfter(p)
    <3>1. g # <<>> /\ g[Len(g)] = f
      BY <1>1, <1>2, AppendProperties
    <3> QED BY <1>2, <3>1 DEF TailOf
  <2> HIDE DEF g
  <2>8. FileCalm'
    BY <1>1, <2>2, <2>6 DEF FileCalm
  <2>9. Kept(p)' = Kept(p) /\ TailAfter(p)' = TailAfter(p)
    BY <2>1 DEF Kept, Pushed, TailAfter
  <2>10. Landing(p)'
    BY <1>1, <2>2, <2>6, <2>7, <2>9 DEF Landing
  <2> QED BY <2>1, <2>8, <2>10 DEF StepCalm
<1>5. CASE /\ file' = Landed(torn) /\ mem' = [mem EXCEPT ![p] = FreshMem]
           /\ Goto(p, "closed") /\ UNCHANGED result
  <2> DEFINE g == Append(file.frames, torn)
  <2>1. /\ file'.fmt = "v2" /\ file'.frames = g
        /\ Len(OnFile') <= MaxRecords /\ Rising(OnFile') /\ OldestGone(acked, OnFile')
    BY <1>1, <1>2, <1>5, LandedCalm
  <2>2. \E k \in DOMAIN g : ~g[k].whole
    <3>1. n + 1 \in DOMAIN g /\ g[n + 1] = torn
      BY <1>1, <1>2, AppendProperties
    <3> QED BY <1>2, <3>1
  <2> HIDE DEF g
  <2>3. FileCalm'
    BY <1>1, <2>1, <2>2 DEF FileCalm
  <2>4. pc'[p] = "closed"
    BY <1>5 DEF Goto, TypeOK
  <2> QED BY <2>3, <2>4 DEF StepCalm
<1> QED BY <1>3, <1>4, <1>5 DEF AppendFrame, NewFrame, Fail, Tolerable, f, torn

\* Sealing beside the store leaves the agreement as it is.
LEMMA SealTmpCalm ==
  ASSUME TypeOK, NEW p \in Procs, FileCalm, StepCalm(p), SealTmp(p)
  PROVE  FileCalm' /\ StepCalm(p)'
<1>1. UNCHANGED <<file, keyFile, acked>> /\ Synced(p)
  BY DEF SealTmp, At, StepCalm
<1>2. CASE FailWith(p, "error")
  BY <1>1, <1>2, FailCalm
<1>3. CASE ~FailWith(p, "error")
  <2>1. pc'[p] = "rename" /\ UNCHANGED mem
    BY <1>3 DEF SealTmp, Fail, Goto, TypeOK
  <2> QED BY <1>1, <2>1, SameCalm, SameSynced DEF StepCalm
<1> QED BY <1>2, <1>3

\* The renamed file chains under the key on disk.
LEMMA RenameCalm ==
  ASSUME TypeOK, NEW p \in Procs, SafeInv(p), FileCalm, StepCalm(p), RenameTmp(p)
  PROVE  FileCalm' /\ StepCalm(p)'
<1>1. /\ UNCHANGED <<faults, keyFile, gen, wipes, acked>> /\ pc[p] = "rename"
      /\ pc[p] \in Writing /\ Synced(p)
  BY DEF RenameTmp, At, Writing, StepCalm
<1>2. CASE UNCHANGED file /\ FailWith(p, "error")
  BY <1>1, <1>2, FailCalm
<1>3. CASE ~(UNCHANGED file /\ FailWith(p, "error"))
  <2>1. /\ tmp # None /\ file' = File("v2", tmp) /\ pc'[p] = "chmod" /\ UNCHANGED mem
    BY <1>3 DEF RenameTmp, Fail, Goto, TypeOK
  <2>2. /\ file'.fmt = "v2" /\ OnFile' = Kept(p)
        /\ Chained(file'.frames, keyFile) /\ TailOf(file'.frames) = TailAfter(p)
    BY <1>1, <2>1, RenamedGood
  <2>3. Len(Kept(p)) <= MaxRecords /\ Rising(Kept(p)) /\ OldestGone(acked, Kept(p))
    BY <1>1, KeptCalm
  <2>4. FileCalm'
    BY <1>1, <2>2, <2>3 DEF FileCalm
  <2>5. Kept(p)' = Kept(p) /\ TailAfter(p)' = TailAfter(p)
    BY <2>1 DEF Kept, Pushed, TailAfter
  <2>6. Landing(p)'
    BY <1>1, <2>2, <2>5 DEF Landing
  <2> QED BY <2>1, <2>4, <2>6 DEF StepCalm
<1> QED BY <1>2, <1>3

\* Committing brings memory to what the file holds.
LEMMA CommitCalm ==
  ASSUME TypeOK, NEW p \in Procs, SafeInv(p), Tolerable, FileCalm, StepCalm(p), Commit(p)
  PROVE  FileCalm' /\ StepCalm(p)'
<1>1. /\ UNCHANGED <<faults, file, tmp, keyFile, gen, wipes>> /\ pc[p] = "chmod"
      /\ pc[p] \in Writing /\ Landing(p) /\ mem[p] \in Inners
  BY DEF Commit, At, Writing, StepCalm, TypeOK
<1>2. /\ mem' = [mem EXCEPT ![p] = Committed(mem[p], Kept(p), TailAfter(p))]
      /\ acked' = Append(acked, mem[p].pending) /\ pc'[p] = "idle"
  BY <1>1 DEF Commit, Finish, Committed, TypeOK, Tolerable, Landing
<1>3. /\ Kept(p) \in Seq(Recs) /\ Tracks(Append(acked, mem[p].pending), Kept(p))
      /\ TailAfter(p) \in Nat \X Nat
  <2>1. mem[p].pending.id \in Nat
    BY <1>1 DEF TypeOK, HolderOK, Recs
  <2> QED BY <1>1, <2>1, KeptSafe DEF TailAfter
<1>4. mem'[p].records = Kept(p) /\ mem'[p].fmt = "v2" /\ mem'[p].tail = TailAfter(p)
  BY <1>1, <1>2, <1>3, CommittedFields DEF TypeOK
<1>5. Readable'
  <2>1. file.frames \in Seq(Frames) /\ keyFile \in Keys
    BY <1>1 DEF TypeOK, SafeInv, FileSafe, Landing
  <2>2. Parses(file.frames, keyFile)
    BY <1>1, <2>1, ParsesChained DEF Landing
  <2> QED BY <1>1, <2>1, <2>2, NoneApart DEF Readable, Landing
<1>6. Synced(p)'
  BY <1>1, <1>4, <1>5 DEF Synced, Landing, OnFile
<1>7. FileCalm'
  BY <1>1, <1>2, <1>3 DEF FileCalm, Landing, Tracks, Readable, OnFile
<1> QED BY <1>2, <1>6, <1>7 DEF StepCalm

\* A clear() ends with memory empty and no file.
LEMMA ClearCalm ==
  ASSUME TypeOK, NEW p \in Procs, Tolerable, FileCalm, StepCalm(p),
         Truncate(p) \/ Overwrite(p) \/ Unlink(p)
  PROVE  FileCalm' /\ StepCalm(p)'
<1>1. CASE Truncate(p) /\ file.fmt = "absent"
  <2>1. /\ UNCHANGED <<file, keyFile>> /\ acked' = <<>> /\ Reset(p) /\ pc'[p] = "idle"
        /\ Synced(p)
    BY <1>1 DEF Truncate, Tolerable, Finish, Goto, TypeOK, At, StepCalm
  <2>2. mem'[p] = [FreshMem EXCEPT !.key = mem[p].key]
    BY <2>1 DEF Reset, TypeOK
  <2>3. mem'[p].records = <<>> /\ mem'[p].fmt = "absent"
    BY <2>2 DEF FreshMem
  <2>4. OnFile = <<>>
    BY <1>1, WipedGood DEF TypeOK, OnFile
  <2>5. Synced(p)'
    BY <1>1, <2>1, <2>3, <2>4 DEF Synced, Readable, OnFile
  <2>6. FileCalm'
    BY <2>1, WipedGood DEF FileCalm, Readable, OnFile, Tracks, OldestGone, Range
  <2> QED BY <2>1, <2>5, <2>6 DEF StepCalm
<1>2. ASSUME NEW fmt \in {"absent", "empty", "junk"}, file' = File(fmt, <<>>)
      PROVE  FileCalm' /\ file'.fmt = fmt /\ OnFile' = <<>>
  <2>1. OnFile' = <<>> /\ file'.fmt = fmt
    BY <1>2, WipedGood DEF OnFile, File
  <2>2. Len(<<>>) <= MaxRecords /\ OldestGone(acked', <<>>)
    BY BatchFits DEF OldestGone, Range
  <2> QED BY <1>2, <2>1, <2>2, WipedGood DEF FileCalm
<1>3. CASE Truncate(p) /\ file.fmt # "absent"
  <2>1. file' = File("empty", <<>>) /\ pc'[p] = "zero"
    BY <1>3 DEF Truncate, Tolerable, Goto, TypeOK
  <2> QED BY <1>2, <2>1 DEF StepCalm
<1>4. CASE Overwrite(p)
  <2>1. file' = File("junk", <<>>) /\ pc'[p] = "remove"
    BY <1>4 DEF Overwrite, Tolerable, Goto, TypeOK, At, StepCalm, Junk
  <2> QED BY <1>2, <2>1 DEF StepCalm
<1>5. CASE Unlink(p)
  <2>1. file' = File("absent", <<>>) /\ pc'[p] = "idle" /\ Reset(p)
    BY <1>5 DEF Unlink, Tolerable, Finish, TypeOK, At, StepCalm, NoFile
  <2>2. mem'[p] = [FreshMem EXCEPT !.key = mem[p].key]
    BY <2>1 DEF Reset, TypeOK
  <2>3. mem'[p].records = <<>> /\ mem'[p].fmt = "absent"
    BY <2>2 DEF FreshMem
  <2>4. FileCalm' /\ file'.fmt = "absent" /\ OnFile' = <<>>
    BY <1>2, <2>1
  <2>5. Synced(p)'
    BY <2>3, <2>4 DEF Synced, Readable
  <2> QED BY <2>1, <2>4, <2>5 DEF StepCalm
<1> QED BY <1>1, <1>3, <1>4, <1>5

\* While only what record() and load() survive goes wrong, every step keeps
\* memory and file in agreement.
LEMMA CalmStep ==
  ASSUME TypeOK, NEW p, Procs = {p}, SafeInv(p), CalmInv(p), [Next]_vars
  PROVE  CalmInv(p)'
<1> p \in Procs
  OBVIOUS
<1> SUFFICES ASSUME Tolerable' PROVE FileCalm' /\ StepCalm(p)'
  BY DEF CalmInv
<1>1. Tolerable /\ FileCalm /\ StepCalm(p)
  <2>1. faults' = faults
    BY DEF Next, Step, vars, Open, Begin, GenerateKey, AppendFrame, SealTmp, RenameTmp, Commit,
           Truncate, Overwrite, Unlink, Crash, Delete
  <2> QED BY <2>1 DEF Tolerable, CalmInv
<1>2. CASE UNCHANGED vars
  <2>1. UNCHANGED <<file, keyFile, mem, pc, acked>>
    BY <1>2 DEF vars
  <2>2. Kept(p)' = Kept(p) /\ Pushed(p)' = Pushed(p) /\ TailAfter(p)' = TailAfter(p)
    BY <2>1 DEF Kept, Pushed, TailAfter
  <2>3. StepCalm(p)'
    BY <1>1, <2>1, <2>2, SameSynced DEF StepCalm, Landing, OnFile, KeepFrom
  <2> QED BY <1>1, <2>1, <2>3, SameCalm
<1>3. CASE Delete
  BY <1>1, <1>3 DEF Delete, Tolerable
<1>4. CASE Crash(p)
  <2>1. UNCHANGED <<file, keyFile, acked>> /\ pc'[p] = "closed"
    BY <1>4 DEF Crash, Goto, TypeOK
  <2> QED BY <1>1, <2>1, SameCalm DEF StepCalm
<1>5. CASE Step(p) /\ ~Crash(p)
  BY <1>1, <1>5, OpenCalm, BeginCalm, KeyFileCalm, AppendCalm, SealTmpCalm, RenameCalm,
     CommitCalm, ClearCalm DEF Step
<1> QED BY <1>2, <1>3, <1>4, <1>5 DEF Next

\* At first memory and file are empty.
LEMMA CalmInit ==
  ASSUME Init, NEW p \in Procs
  PROVE  CalmInv(p)
<1>1. StepCalm(p)
  BY DEF Init, StepCalm
<1>2. CASE file = NoFile /\ keyFile = None /\ acked = <<>>
  <2>1. OnFile = <<>> /\ file.fmt = "absent"
    BY <1>2, WipedGood DEF OnFile, NoFile, File
  <2>2. Len(<<>>) <= MaxRecords /\ OldestGone(acked, <<>>)
    BY BatchFits DEF OldestGone, Range
  <2> QED BY <1>1, <2>1, <2>2, WipedGood DEF CalmInv, FileCalm
<1>3. CASE /\ keyFile = "install" /\ acked = << [id |-> 1, index |-> 0] >>
           /\ file = File("v1", << Seal(acked[1], keyFile, Magic, 0) >>)
  <2> DEFINE r == [id |-> 1, index |-> 0]
             f == Seal(r, "install", Magic, 0)
  <2>1. acked = <<r>> /\ file.fmt = "v1" /\ file.frames = <<f>> /\ f.rec = r
    BY <1>3 DEF File, Seal
  <2> HIDE DEF r, f
  <2>2. Len(<<r>>) = 1 /\ DOMAIN <<f>> = 1..1 /\ DOMAIN <<r>> = 1..1
    OBVIOUS
  <2>3. OnFile = <<r>>
    <3>1. Records(<<f>>) = [k \in 1..1 |-> r]
      BY <2>1, <2>2 DEF Records
    <3>2. [k \in 1..1 |-> r] = <<r>>
      OBVIOUS
    <3> QED BY <2>1, <3>1, <3>2 DEF OnFile
  <2>4. Rising(<<r>>) /\ OldestGone(<<r>>, <<r>>) /\ 1 <= MaxRecords
    BY <2>2, BatchFits DEF OldestGone, Rising
  <2> QED BY <1>1, <2>1, <2>2, <2>3, <2>4 DEF CalmInv, FileCalm
<1> QED BY <1>2, <1>3 DEF Init

\* What all three invariants say together, in every state.
LEMMA HistoryInvariant ==
  ASSUME NEW p, Procs = {p}
  PROVE  Spec => [](TypeOK /\ SafeInv(p) /\ CalmInv(p))
<1> p \in Procs
  OBVIOUS
<1> DEFINE IInv == TypeOK /\ SafeInv(p) /\ CalmInv(p)
<1>1. Init => IInv
  BY TypeInit, SafeInit, CalmInit
<1>2. IInv /\ [Next]_vars => IInv'
  BY TypeStep, SafeStep, CalmStep
<1> QED BY <1>1, <1>2, PTL DEF Spec

\* persist_v2, append_frame and parse_frames agree on the chain: a framed file
\* without a torn frame always decrypts, whatever was evicted, migrated or cut
\* short before.
THEOREM ChainSound ==
  ASSUME NEW p, Procs = {p}
  PROVE  Spec => []ChainHolds
<1>1. TypeOK /\ SafeInv(p) /\ CalmInv(p) => ChainHolds
  <2> SUFFICES ASSUME TypeOK, SafeInv(p), CalmInv(p), Tolerable, file.fmt = "v2",
                      \A k \in DOMAIN file.frames : file.frames[k].whole
               PROVE  Readable
    BY DEF ChainHolds
  <2>1. file.frames \in Seq(Frames) /\ keyFile \in Keys
    BY DEF TypeOK, SafeInv, FileSafe
  <2>2. Parses(file.frames, keyFile)
    BY <2>1, ParsesChained DEF CalmInv, FileCalm
  <2> QED BY <2>1, <2>2, NoneApart DEF Readable
<1> QED BY <1>1, HistoryInvariant, PTL

\* "Tracking the tail in memory is exact" (history.rs 179-181): between
\* operations the store's memory and its file agree on the format, the records
\* and the hash that the next frame is sealed against.
THEOREM MemorySound ==
  ASSUME NEW p, Procs = {p}
  PROVE  Spec => []MemoryTracksFile
<1>1. CalmInv(p) => MemoryTracksFile
  BY DEF CalmInv, StepCalm, Synced, MemoryTracksFile
<1> QED BY <1>1, HistoryInvariant, PTL

\* Two records of a rising sequence with one index are the same.
LEMMA RisingApart ==
  ASSUME NEW recs \in Seq(Recs), Rising(recs), NEW r \in Range(recs), NEW q \in Range(recs),
         r.index = q.index
  PROVE  r = q
<1>1. PICK i \in DOMAIN recs : r = recs[i]
  BY DEF Range
<1>2. PICK j \in DOMAIN recs : q = recs[j]
  BY DEF Range
<1>3. i \in Nat /\ j \in Nat /\ recs[i] \in Recs
  OBVIOUS
<1>4. recs[i].index \in Nat
  BY <1>3 DEF Recs
<1>5. i < j => recs[i].index < recs[j].index
  BY DEF Rising
<1>6. j < i => recs[j].index < recs[i].index
  BY DEF Rising
<1> QED BY <1>1, <1>2, <1>3, <1>4, <1>5, <1>6

\* "replay_action{index} selectors stay stable across FIFO evictions and
\* restarts": until the store is wiped an index names one record, no index that
\* was reported stored is given again, and what get_by_index finds under one is
\* the record that was reported stored under it.
THEOREM IndexSound ==
  ASSUME NEW p, Procs = {p}
  PROVE  Spec => []IndexStable
<1>1. TypeOK /\ SafeInv(p) /\ CalmInv(p) => IndexStable
  <2> SUFFICES ASSUME TypeOK, SafeInv(p), CalmInv(p), Tolerable PROVE IndexStable
    BY DEF IndexStable
  <2>1. acked \in Seq(Recs) /\ OnFile \in Seq(Recs) /\ Rising(acked) /\ Rising(OnFile)
    BY RecordsType DEF TypeOK, OnFile, SafeInv, FileSafe, CalmInv, FileCalm
  <2>2. \A r \in Range(acked) \union Range(OnFile) : r.index \in Nat
    <3>1. Range(acked) \union Range(OnFile) \subseteq Recs
      BY <2>1 DEF Range
    <3> QED BY <3>1 DEF Recs
  <2>3. ASSUME NEW r \in Range(acked), NEW q \in Range(acked) \cup Range(OnFile),
               r.index = q.index
        PROVE  r.id = q.id
    <3>1. CASE q \in Range(acked)
      BY <2>1, <2>3, <3>1, RisingApart
    <3>2. CASE q \in Range(OnFile) /\ r \in Range(OnFile)
      BY <2>1, <2>3, <3>2, RisingApart
    <3>3. CASE q \in Range(OnFile) /\ r \notin Range(OnFile)
      <4>1. r.index < q.index
        BY <3>3 DEF CalmInv, FileCalm, OldestGone
      <4> QED BY <2>2, <2>3, <4>1
    <3> QED BY <3>1, <3>2, <3>3
  <2>4. ASSUME pc[p] = "idle", NEW r \in Range(acked)
        PROVE  /\ r.index < mem[p].next
               /\ GetByIndex(mem[p].records, r.index) \in {None, r}
               /\ r \in Range(mem[p].records) => GetByIndex(mem[p].records, r.index) = r
    <3>1. /\ mem[p].records \in Seq(Recs) /\ Rising(mem[p].records)
          /\ Below(acked, mem[p].next) /\ OldestGone(acked, mem[p].records)
      BY <2>4 DEF TypeOK, Inners, SafeInv, MemSafe, Tracks
    <3> DEFINE found == GetByIndex(mem[p].records, r.index)
    <3>2. r.index < mem[p].next
      BY <3>1 DEF Below, Range
    <3>3. \/ found = None
          \/ \E q \in Range(mem[p].records) : found = q /\ q.index = r.index
      BY <3>1, GetByIndexOnly
    <3> HIDE DEF found
    <3>4. ASSUME NEW q \in Range(mem[p].records), q.index = r.index
          PROVE  q = r
      <4>1. CASE r \in Range(mem[p].records)
        BY <3>1, <3>4, <4>1, RisingApart
      <4>2. CASE r \notin Range(mem[p].records)
        <5>1. r.index < q.index
          BY <3>1, <4>2 DEF OldestGone
        <5> QED BY <2>2, <3>4, <5>1
      <4> QED BY <4>1, <4>2
    <3>5. r \in Range(mem[p].records) => found = r
      <4> SUFFICES ASSUME r \in Range(mem[p].records) PROVE found = r
        OBVIOUS
      <4>1. PICK k \in DOMAIN mem[p].records : r = mem[p].records[k]
        BY DEF Range
      <4> QED BY <3>1, <4>1, GetByIndexFinds DEF found
    <3> QED BY <3>2, <3>3, <3>4, <3>5 DEF found
  <2> QED BY <2>3, <2>4 DEF IndexStable
<1> QED BY <1>1, HistoryInvariant, PTL
=============================================================================
