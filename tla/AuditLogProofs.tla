--------------------------- MODULE AuditLogProofs ---------------------------
(***************************************************************************)
(* Proofs about AuditLog, for one server process, any retention, any mix   *)
(* of faults and any number of records and days.                           *)
(***************************************************************************)
EXTENDS AuditLog, DataLemmas

-----------------------------------------------------------------------------
(* The invariant *)

Steps == {"closed", "idle", "rotate", "reopen", "prune", "write", "newline"}
Outcomes == {Absent, "ok", "fault", "refused"}
Raws == Seq(Nat) \ {<<>>}
LineType == [raw: Raws, prev: Seq(Nat), date: Nat]
FileType == {f \in [lines: Seq(LineType), cut: BOOLEAN]: f.cut => f.lines # <<>>}
LogType == [ino: Nat \union {Absent}, prev: Seq(Nat), date: Nat, today: Nat, rec: Nat]

\* The inodes are numbered as they are made.
DiskType(d) == \E n \in Nat: d \in [1..n -> FileType]

ClockGood == /\ failing \in AuditWorlds /\ day \in Nat /\ latest \in Nat /\ day <= latest
             /\ "back" \notin failing => day = latest

\* The names of the directory: an archive is another file than the live one.
NamesGood(d, l, A) ==
  /\ l \in DOMAIN d \union {Absent}
  /\ IsFiniteSet(A)
  /\ \A a \in A: a.date \in Nat /\ a.n \in Nat /\ a.ino \in DOMAIN d /\ a.ino # l
  /\ \A a, b \in A: a.date = b.date /\ a.n = b.n => a = b

TypeOK ==
  /\ ClockGood
  /\ DiskType(disk)
  /\ NamesGood(disk, live, archives)
  /\ log \in [Servers -> LogType]
  /\ at \in [Servers -> Steps]
  /\ answer \in [Servers -> Outcomes]
  /\ made \in Nat
  /\ appended \subseteq [id: Nat, date: Nat]

\* The first line of a file parses.
HeadParses(f) == f.lines # <<>> /\ Len(f.lines[1].raw) = 1

\* An open log: it writes to the live file, or to the archive of its own day after
\* a rotation that failed; what it writes has its day.
LogGood(g, c, d, l, A, now) ==
  c # "closed" =>
    /\ g.ino \in DOMAIN d
    /\ l # Absent => l = g.ino
    /\ l = Absent => \E a \in A: a.ino = g.ino
    /\ g.date <= now /\ g.today <= now
    /\ c \in {"prune", "write", "newline"} => g.today = g.date
    /\ c = "reopen" => l = Absent
    /\ c = "prune" => l # Absent
    /\ HeadParses(d[g.ino]) => d[g.ino].lines[1].date = g.date
    /\ \A a \in A: a.ino = g.ino => a.date = g.date
    /\ c = "newline" => \E k \in DOMAIN d[g.ino].lines: g.rec \in Range(d[g.ino].lines[k].raw)

\* Where no line is cut: every file verifies and is of one day, an archive of the
\* day it is named after, and the log knows the hash it goes on from.
OneDay(f) == \A j, k \in DOMAIN f.lines: f.lines[j].date = f.lines[k].date
ChainGood(g, c, d, A) ==
  /\ \A i \in DOMAIN d: Verifies(d[i]) /\ OneDay(d[i])
  /\ \A i \in DOMAIN d: d[i].cut => c = "newline" /\ i = g.ino
  /\ \A a \in A: \A k \in DOMAIN d[a.ino].lines: d[a.ino].lines[k].date = a.date
  /\ c \notin {"closed", "newline"} => g.prev = LastHash(d[g.ino])
  /\ c = "newline" => d[g.ino].lines # <<>> /\ LastHash(d[g.ino]) = <<g.rec>>

\* Where an acknowledged record is: in a file that will be archived under a day that
\* is not before its own, and that has a name unless the record's time is over.
InFile(r, f) == \E k \in DOMAIN f.lines: r.id \in Range(f.lines[k].raw)
FoundIn(r, i, g, c, d, l, A, now) ==
  /\ InFile(r, d[i])
  /\ \A a \in A: a.ino = i => r.date <= a.date
  /\ i = l /\ HeadParses(d[i]) => r.date <= d[i].lines[1].date
  /\ i = l /\ c # "closed" => r.date <= g.date
  /\ i = l \/ (\E a \in A: a.ino = i) \/ now - r.date > Retention
AckedGood(ak, g, c, d, l, A, now) ==
  \A r \in ak:
    /\ r.date <= now
    /\ \E i \in DOMAIN d: FoundIn(r, i, g, c, d, l, A, now)

\* An archive of an open log is within the window, but between a rotation and the
\* pruning that follows it.
WindowGood(g, c, A) ==
  c \notin {"closed", "prune"} => \A a \in A: g.date - a.date <= Retention

AuditInv(p) ==
  /\ TypeOK
  /\ LogGood(log[p], at[p], disk, live, archives, latest)
  /\ "cut" \notin failing => ChainGood(log[p], at[p], disk, archives)
  /\ ~({"cut", "back"} \subseteq failing) =>
       AckedGood(appended, log[p], at[p], disk, live, archives, latest)
  /\ "prune" \notin failing => WindowGood(log[p], at[p], archives)
  /\ failing \cap {"chmod", "open"} = {} =>
       /\ at[p] \notin {"closed", "reopen"} => live # Absent
       /\ answer[p] # "refused"

-----------------------------------------------------------------------------
(* Files *)

\* What two sequences hold, their concatenation holds.
LEMMA JoinFacts ==
  ASSUME NEW a \in Raws, NEW b \in Raws
  PROVE  /\ a \o b \in Raws /\ Len(a \o b) > 1
         /\ Range(a) \subseteq Range(a \o b) /\ Range(b) \subseteq Range(a \o b)
<1>1. /\ a \in Seq(Nat) /\ b \in Seq(Nat) /\ Len(a) \in Nat /\ Len(b) \in Nat
      /\ Len(a) > 0 /\ Len(b) > 0
  BY DEF Raws
<1>2. /\ a \o b \in Seq(Nat) /\ Len(a \o b) = Len(a) + Len(b)
      /\ \A i \in 1..(Len(a) + Len(b)):
           (a \o b)[i] = IF i <= Len(a) THEN a[i] ELSE b[i - Len(a)]
  BY <1>1, ConcatProperties
<1> DEFINE c == a \o b
<1> HIDE DEF c
<1>3. c \in Seq(Nat) /\ Len(c) > 1 /\ c # <<>> /\ DOMAIN c = 1..(Len(a) + Len(b))
  BY <1>1, <1>2 DEF c
<1>4. \A i \in 1..Len(a): i \in DOMAIN c /\ c[i] = a[i]
  BY <1>1, <1>2, <1>3 DEF c
<1>5. \A i \in 1..Len(b): Len(a) + i \in DOMAIN c /\ c[Len(a) + i] = b[i]
  BY <1>1, <1>2, <1>3 DEF c
<1>6. Range(a) \subseteq Range(c) /\ Range(b) \subseteq Range(c)
  <2>1. DOMAIN a = 1..Len(a) /\ DOMAIN b = 1..Len(b)
    BY <1>1
  <2>2. \A x \in Range(a): x \in Range(c)
    BY <1>4, <2>1 DEF Range
  <2>3. \A x \in Range(b): x \in Range(c)
    BY <1>5, <2>1 DEF Range
  <2> QED BY <2>2, <2>3
<1> QED BY <1>3, <1>6 DEF c, Raws

\* What a file keeps when it grows: its lines and what is in them, and its first line
\* parses only if it did.
Grows(f, f2) ==
  /\ \A k \in DOMAIN f.lines:
       k \in DOMAIN f2.lines /\ Range(f.lines[k].raw) \subseteq Range(f2.lines[k].raw)
  /\ f.lines # <<>> /\ HeadParses(f2) => HeadParses(f) /\ f2.lines[1].date = f.lines[1].date

\* A file grows by a line that lands, which is then in it.
LEMMA WrittenFacts ==
  ASSUME NEW f \in FileType, NEW rec \in LineType
  PROVE  /\ Written(f, rec) \in FileType
         /\ Written(f, rec).lines # <<>>
         /\ Grows(f, Written(f, rec))
         /\ \E k \in DOMAIN Written(f, rec).lines:
              Range(rec.raw) \subseteq Range(Written(f, rec).lines[k].raw)
         /\ ~f.cut \/ f.lines = <<>> => Written(f, rec).lines = Append(f.lines, rec)
<1> DEFINE n == Len(f.lines)
           h == [f.lines[n] EXCEPT !.raw = f.lines[n].raw \o rec.raw]
           w == [f.lines EXCEPT ![n] = h]
<1>1. /\ f.lines \in Seq(LineType) /\ n \in Nat /\ f.cut \in BOOLEAN
      /\ f.cut => f.lines # <<>> /\ n > 0
  BY DEF FileType
<1>2. rec.raw \in Raws
  BY DEF LineType
<1>3. CASE f.cut
  <2>1. f.lines # <<>> /\ n \in 1..n /\ f.lines[n] \in LineType
    BY <1>1, <1>3
  <2>2. f.lines[n].raw \in Raws
    BY <2>1 DEF LineType
  <2>3. /\ f.lines[n].raw \o rec.raw \in Raws
        /\ Len(f.lines[n].raw \o rec.raw) > 1
        /\ Range(f.lines[n].raw) \subseteq Range(f.lines[n].raw \o rec.raw)
        /\ Range(rec.raw) \subseteq Range(f.lines[n].raw \o rec.raw)
    BY <1>2, <2>2, JoinFacts
  <2>4. h \in LineType /\ h.raw = f.lines[n].raw \o rec.raw /\ h.date = f.lines[n].date
    BY <2>1, <2>3 DEF LineType
  <2> HIDE DEF h
  <2>5. /\ w \in Seq(LineType) /\ DOMAIN w = DOMAIN f.lines /\ w[n] = h
        /\ \A k \in DOMAIN f.lines: k # n => w[k] = f.lines[k]
        /\ n \in DOMAIN f.lines
    BY <1>1, <2>1, <2>4
  <2>6. Written(f, rec) = [cut |-> TRUE, lines |-> w]
    BY <1>3 DEF Written, h
  <2> HIDE DEF w
  <2>7. w # <<>> /\ 1 \in DOMAIN f.lines
    BY <1>1, <2>1, <2>5
  <2>8. Written(f, rec).lines = w /\ Written(f, rec) \in FileType
    BY <2>5, <2>6, <2>7 DEF FileType
  <2>9. Grows(f, Written(f, rec))
    <3>1. \A k \in DOMAIN f.lines:
            k \in DOMAIN w /\ Range(f.lines[k].raw) \subseteq Range(w[k].raw)
      BY <2>3, <2>4, <2>5
    <3>2. HeadParses(Written(f, rec)) => HeadParses(f) /\ w[1].date = f.lines[1].date
      <4>1. CASE n = 1
        <5>1. Len(w[1].raw) > 1
          BY <2>3, <2>4, <2>5, <4>1
        <5>2. Len(w[1].raw) \in Nat
          BY <2>3, <2>4, <2>5, <4>1 DEF Raws
        <5> QED BY <2>8, <5>1, <5>2 DEF HeadParses
      <4>2. CASE n # 1
        <5>1. w[1] = f.lines[1]
          BY <2>5, <2>7, <4>2
        <5> QED BY <2>1, <2>8, <5>1 DEF HeadParses
      <4> QED BY <4>1, <4>2
    <3> QED BY <2>8, <3>1, <3>2 DEF Grows
  <2> QED BY <1>1, <1>3, <2>3, <2>4, <2>5, <2>7, <2>8, <2>9
<1>4. CASE ~f.cut
  <2> DEFINE e == Append(f.lines, rec)
  <2>1. Written(f, rec) = [cut |-> TRUE, lines |-> e]
    BY <1>4 DEF Written
  <2>2. /\ e \in Seq(LineType) /\ Len(e) = n + 1 /\ e[n + 1] = rec
        /\ \A k \in 1..n: e[k] = f.lines[k]
    BY <1>1, AppendProperties
  <2> HIDE DEF e
  <2>3. e # <<>> /\ n + 1 \in DOMAIN e /\ DOMAIN f.lines = 1..n /\ \A k \in 1..n: k \in DOMAIN e
    BY <1>1, <2>2
  <2>4. Written(f, rec).lines = e /\ Written(f, rec) \in FileType
    BY <2>1, <2>2, <2>3 DEF FileType
  <2>5. Grows(f, Written(f, rec))
    <3>1. f.lines # <<>> => 1 \in 1..n
      BY <1>1
    <3> QED BY <2>2, <2>3, <2>4, <3>1 DEF Grows, HeadParses
  <2> QED BY <1>4, <2>2, <2>3, <2>4, <2>5 DEF e
<1> QED BY <1>1, <1>3, <1>4

\* The newline changes none of the lines.
LEMMA NewlineFacts ==
  ASSUME NEW f \in FileType
  PROVE  LET f2 == [f EXCEPT !.cut = FALSE]
         IN  f2 \in FileType /\ f2.lines = f.lines /\ f2.cut = FALSE
BY DEF FileType

\* The inodes: another content for one of them, or a new one.
LEMMA DiskFacts ==
  ASSUME NEW d, DiskType(d)
  PROVE  /\ \A i \in DOMAIN d: d[i] \in FileType /\ i \in Nat
         /\ \A i \in DOMAIN d: \A f \in FileType: DiskType([d EXCEPT ![i] = f])
         /\ Cardinality(DOMAIN d) + 1 \in Nat
         /\ Cardinality(DOMAIN d) + 1 \notin DOMAIN d
         /\ \A f \in FileType:
              DiskType([i \in DOMAIN d \union {Cardinality(DOMAIN d) + 1} |->
                          IF i = Cardinality(DOMAIN d) + 1 THEN f ELSE d[i]])
<1>1. PICK n \in Nat: d \in [1..n -> FileType]
  BY DEF DiskType
<1>2. DOMAIN d = 1..n /\ Cardinality(1..n) = n
  BY <1>1, FS_Interval
<1>3. \A i \in DOMAIN d: \A f \in FileType: DiskType([d EXCEPT ![i] = f])
  <2> SUFFICES ASSUME NEW i \in DOMAIN d, NEW f \in FileType
               PROVE  [d EXCEPT ![i] = f] \in [1..n -> FileType]
    BY DEF DiskType
  <2> QED BY <1>1
<1>4. ASSUME NEW f \in FileType
      PROVE  DiskType([i \in DOMAIN d \union {n + 1} |-> IF i = n + 1 THEN f ELSE d[i]])
  <2>1. DOMAIN d \union {n + 1} = 1..(n + 1)
    BY <1>2
  <2>2. [i \in DOMAIN d \union {n + 1} |-> IF i = n + 1 THEN f ELSE d[i]]
          \in [1..(n + 1) -> FileType]
    <3>1. \A i \in 1..(n + 1): i # n + 1 => d[i] \in FileType
      BY <1>1
    <3> QED BY <2>1, <3>1
  <2>3. n + 1 \in Nat
    OBVIOUS
  <2> QED BY <2>2, <2>3 DEF DiskType
<1>5. \A i \in DOMAIN d: d[i] \in FileType /\ i \in Nat
  BY <1>1
<1>6. Cardinality(DOMAIN d) = n /\ n + 1 \in Nat /\ n + 1 \notin DOMAIN d
  BY <1>2
<1> QED BY <1>3, <1>4, <1>5, <1>6

\* The hash of a file's last line.
LEMMA LastHashType ==
  ASSUME NEW f, f.lines \in Seq(LineType)
  PROVE  LastHash(f) \in Seq(Nat)
<1>1. CASE f.lines = <<>>
  BY <1>1 DEF LastHash, Genesis
<1>2. CASE f.lines # <<>>
  <2>1. f.lines[Len(f.lines)] \in LineType
    BY <1>2
  <2> QED BY <1>2, <2>1 DEF LastHash, LineType, Raws
<1> QED BY <1>1, <1>2

-----------------------------------------------------------------------------
(* Archives *)

\* One of the suffixes up to the number of archives is free for a date.
LEMMA FreeSuffix ==
  ASSUME NEW A, IsFiniteSet(A), NEW date
  PROVE  \E k \in 1..(Cardinality(A) + 1): ~\E a \in A: a.date = date /\ a.n = k
<1> DEFINE S == 1..(Cardinality(A) + 1)
<1>1. Cardinality(A) \in Nat
  BY FS_CardinalityType
<1>2. IsFiniteSet(S) /\ Cardinality(S) = Cardinality(A) + 1
  <2>1. 1 \in Int /\ Cardinality(A) + 1 \in Int
    BY <1>1
  <2> QED BY <1>1, <2>1, FS_Interval
<1>3. ASSUME \A k \in S: \E a \in A: a.date = date /\ a.n = k PROVE FALSE
  <2> DEFINE f == [k \in S |-> CHOOSE a \in A: a.date = date /\ a.n = k]
  <2>1. \A k \in S: f[k] \in A /\ f[k].n = k
    BY <1>3
  <2>2. f \in [S -> A]
    BY <2>1
  <2>3. Cardinality(A) < Cardinality(S)
    BY <1>1, <1>2
  <2> HIDE DEF f, S
  <2>4. \E x, y \in S: x # y /\ f[x] = f[y]
    BY <1>2, <2>2, <2>3, FS_PigeonHole
  <2> QED BY <2>1, <2>4
<1> QED BY <1>3

\* Rotating adds one archive, the live file under the date, and no two archives ever
\* share a name.
LEMMA RotatedFacts ==
  ASSUME NamesGood(disk, live, archives), live # Absent, Absent \notin DOMAIN disk,
         NEW date \in Nat
  PROVE  /\ NamesGood(disk, Absent, Rotated(date))
         /\ \E x: /\ x.date = date /\ x.ino = live
                  /\ Rotated(date) = archives \union {x}
<1> DEFINE free(k) == ~\E a \in archives: a.date = date /\ a.n = k
           S == {k \in 1..(Cardinality(archives) + 1): free(k)}
           n == CHOOSE k \in 1..(Cardinality(archives) + 1):
                  /\ ~\E a \in archives: a.date = date /\ a.n = k
                  /\ \A j \in 1..(k-1): \E a \in archives: a.date = date /\ a.n = j
           x == [date |-> date, n |-> n, ino |-> live]
<1>1. IsFiniteSet(archives) /\ Cardinality(archives) \in Nat
  BY FS_CardinalityType DEF NamesGood
<1>2. S \in SUBSET Nat /\ S # {}
  BY <1>1, FreeSuffix
<1>3. PICK m \in S: \A k \in S: m <= k
  BY <1>2, LeastExists
<1>4. \A j \in 1..(m - 1): \E a \in archives: a.date = date /\ a.n = j
  <2> SUFFICES ASSUME NEW j \in 1..(m - 1), free(j) PROVE FALSE
    OBVIOUS
  <2>1. m \in 1..(Cardinality(archives) + 1) /\ j < m
    BY <1>1
  <2>2. j \in S
    BY <1>1, <2>1
  <2> QED BY <1>1, <1>3, <2>1, <2>2
<1>5. n \in 1..(Cardinality(archives) + 1) /\ free(n)
  <2>1. m \in 1..(Cardinality(archives) + 1) /\ free(m)
    OBVIOUS
  <2> HIDE DEF S
  <2> QED BY <1>4, <2>1
<1>6. Rotated(date) = archives \union {x}
  BY DEF Rotated
<1> HIDE DEF n, S
<1>7. n \in Nat /\ \A a \in archives: ~(a.date = date /\ a.n = n)
  BY <1>1, <1>5
<1>8. x.date = date /\ x.ino = live /\ x.n = n
  OBVIOUS
<1> HIDE DEF x
<1>9. NamesGood(disk, Absent, archives \union {x})
  <2>1. IsFiniteSet(archives \union {x})
    BY <1>1, FS_AddElement
  <2>2. live \in DOMAIN disk
    BY DEF NamesGood
  <2>3. \A a \in archives: a.date \in Nat /\ a.n \in Nat /\ a.ino \in DOMAIN disk
    BY DEF NamesGood
  <2>4. \A a, b \in archives: a.date = b.date /\ a.n = b.n => a = b
    BY DEF NamesGood
  <2>5. \A a \in archives \union {x}: a.date \in Nat /\ a.n \in Nat /\ a.ino \in DOMAIN disk
    BY <1>7, <1>8, <2>2, <2>3
  <2>6. \A a, b \in archives \union {x}: a.date = b.date /\ a.n = b.n => a = b
    BY <1>7, <1>8, <2>4
  <2> QED BY <2>1, <2>5, <2>6 DEF NamesGood
<1> QED BY <1>6, <1>8, <1>9

\* Pruning takes only what is past the window.
LEMMA KeptFacts ==
  ASSUME NEW d, NEW l, NamesGood(d, l, archives), NEW today
  PROVE  /\ NamesGood(d, l, Unexpired(today))
         /\ Unexpired(today) \subseteq archives
         /\ \A a \in archives: a \notin Unexpired(today) => ~(today - a.date <= Retention)
         /\ \A a \in Unexpired(today): today - a.date <= Retention
<1>1. Unexpired(today) \in SUBSET archives
  BY DEF Unexpired
<1>2. IsFiniteSet(Unexpired(today))
  BY <1>1, FS_Subset DEF NamesGood
<1> QED BY <1>1, <1>2 DEF NamesGood, Unexpired

\* What first_record_date reads.
LEMMA HeadDateFacts ==
  ASSUME TypeOK, ConstantsOK
  PROVE  /\ Absent \notin DOMAIN disk
         /\ HeadDate # Absent =>
              /\ live \in DOMAIN disk /\ live # Absent /\ HeadParses(disk[live])
              /\ HeadDate = disk[live].lines[1].date /\ HeadDate \in Nat
         /\ HeadDate = Absent /\ live # Absent => ~HeadParses(disk[live])
<1>1. \A i \in DOMAIN disk: disk[i] \in FileType /\ i \in Nat
  BY DiskFacts DEF TypeOK
<1>2. Absent \notin DOMAIN disk /\ Absent \notin Nat
  BY <1>1 DEF ConstantsOK
<1>3. live # Absent => live \in DOMAIN disk
  BY DEF TypeOK, NamesGood
<1>4. CASE live = Absent \/ disk[live].lines = <<>>
  <2>1. HeadDate = Absent
    BY <1>4 DEF HeadDate
  <2> QED BY <1>2, <1>4, <2>1 DEF HeadParses
<1>5. CASE live # Absent /\ disk[live].lines # <<>>
  <2> DEFINE head == disk[live].lines[1]
  <2>1. HeadDate = IF Len(head.raw) = 1 THEN head.date ELSE Absent
    BY <1>5 DEF HeadDate
  <2>2. disk[live].lines \in Seq(LineType) /\ disk[live].lines # <<>>
    BY <1>1, <1>3, <1>5 DEF FileType
  <2>3. head \in LineType
    BY <2>2
  <2>4. head.date \in Nat
    BY <2>3 DEF LineType
  <2> QED BY <1>2, <1>3, <1>5, <2>1, <2>4 DEF HeadParses
<1> QED BY <1>4, <1>5

\* Opening: the live file that is there, or a new and empty one.
LEMMA OpenedFacts ==
  ASSUME TypeOK, ConstantsOK, NEW p \in Servers, NEW prev \in Seq(Nat), NEW date \in Nat,
         NEW A, NamesGood(disk, live, A), Opened(p, prev, date)
  PROVE  /\ DiskType(disk') /\ NamesGood(disk', live', A) /\ live' \in DOMAIN disk'
         /\ live' # Absent
         /\ log' \in [Servers -> LogType]
         /\ log'[p].ino = live' /\ log'[p].prev = prev
         /\ log'[p].date = date /\ log'[p].today = date
         /\ \A i \in DOMAIN disk: i \in DOMAIN disk' /\ disk'[i] = disk[i]
         /\ live # Absent => live' = live /\ disk' = disk
         /\ live = Absent => /\ live' \notin DOMAIN disk /\ disk'[live'] = Empty
                           /\ DOMAIN disk' = DOMAIN disk \union {live'}
<1> DEFINE ino == IF live # Absent THEN live ELSE Cardinality(DOMAIN disk) + 1
           g == [ino |-> ino, prev |-> prev, date |-> date, today |-> date,
                 rec |-> log[p].rec]
<1>1. /\ live' = ino
      /\ disk' = IF live # Absent THEN disk
                 ELSE [i \in DOMAIN disk \union {ino} |-> IF i = ino THEN Empty ELSE disk[i]]
      /\ log' = [log EXCEPT ![p] = g]
  BY DEF Opened
<1>2. DiskType(disk) /\ log \in [Servers -> LogType] /\ Absent \notin DOMAIN disk
  BY HeadDateFacts DEF TypeOK
<1>3. Empty \in FileType
  BY DEF Empty, FileType
<1>4. /\ Cardinality(DOMAIN disk) + 1 \in Nat /\ Cardinality(DOMAIN disk) + 1 \notin DOMAIN disk
      /\ \A i \in DOMAIN disk: i \in Nat
      /\ DiskType([i \in DOMAIN disk \union {Cardinality(DOMAIN disk) + 1} |->
                     IF i = Cardinality(DOMAIN disk) + 1 THEN Empty ELSE disk[i]])
  BY <1>2, <1>3, DiskFacts
<1>5. DiskType(disk')
  <2>1. CASE live # Absent
    BY <1>1, <1>2, <2>1
  <2>2. CASE live = Absent
    BY <1>1, <1>4, <2>2
  <2> QED BY <2>1, <2>2
<1>6. live \in DOMAIN disk \union {Absent}
  BY DEF NamesGood
<1>7. ino \in Nat /\ ino # Absent
  BY <1>2, <1>4, <1>6 DEF ConstantsOK
<1>8. live = Absent => ino = Cardinality(DOMAIN disk) + 1
  OBVIOUS
<1> HIDE DEF ino
<1>9. /\ log' \in [Servers -> LogType] /\ live' = ino
      /\ log'[p].ino = ino /\ log'[p].prev = prev
      /\ log'[p].date = date /\ log'[p].today = date
  <2>1. log[p].rec \in Nat
    BY <1>2 DEF LogType
  <2>2. g \in LogType
    BY <1>7, <2>1 DEF LogType
  <2>3. g.ino = ino /\ g.prev = prev /\ g.date = date /\ g.today = date
    OBVIOUS
  <2> HIDE DEF g
  <2>4. log' \in [Servers -> LogType] /\ log'[p] = g /\ live' = ino
    BY <1>1, <1>2, <2>2
  <2> QED BY <2>3, <2>4
<1>10. CASE live # Absent
  <2>1. live' = live /\ disk' = disk
    BY <1>1, <1>10 DEF ino
  <2>2. live \in DOMAIN disk
    BY <1>6, <1>10
  <2> QED BY <1>5, <1>7, <1>9, <1>10, <2>1, <2>2
<1>11. CASE live = Absent
  <2>1. disk' = [i \in DOMAIN disk \union {ino} |-> IF i = ino THEN Empty ELSE disk[i]]
    BY <1>1, <1>11
  <2>2. ino \notin DOMAIN disk
    BY <1>4, <1>8, <1>11
  <2>3. /\ DOMAIN disk' = DOMAIN disk \union {ino} /\ disk'[ino] = Empty
        /\ \A i \in DOMAIN disk: i \in DOMAIN disk' /\ disk'[i] = disk[i]
    BY <2>1, <2>2
  <2>4. NamesGood(disk', ino, A)
    BY <2>2, <2>3 DEF NamesGood
  <2> QED BY <1>5, <1>7, <1>9, <1>11, <2>2, <2>3, <2>4
<1> QED BY <1>10, <1>11

-----------------------------------------------------------------------------
(* Where an acknowledged record is, when something changes *)

\* Files only grow.
LEMMA FoundGrows ==
  ASSUME NEW r, NEW i, NEW g, NEW c, NEW d, NEW d2, NEW l, NEW A, NEW now,
         FoundIn(r, i, g, c, d, l, A, now), Grows(d[i], d2[i])
  PROVE  FoundIn(r, i, g, c, d2, l, A, now)
<1>1. PICK k \in DOMAIN d[i].lines: r.id \in Range(d[i].lines[k].raw)
  BY DEF FoundIn, InFile
<1>2. InFile(r, d2[i])
  BY <1>1 DEF InFile, Grows
<1>3. d[i].lines # <<>>
  BY <1>1
<1>4. HeadParses(d2[i]) => HeadParses(d[i]) /\ d2[i].lines[1].date = d[i].lines[1].date
  BY <1>3 DEF Grows
<1> QED BY <1>2, <1>4 DEF FoundIn

\* The live file becomes an archive, of a day that is not before the record's.
LEMMA FoundRotated ==
  ASSUME NEW r, NEW i, NEW g, NEW c, NEW d, NEW l, NEW A, NEW now, NEW x,
         FoundIn(r, i, g, c, d, l, A, now), i # Absent, x.ino = l,
         i = l => r.date <= x.date
  PROVE  FoundIn(r, i, g, c, d, Absent, A \union {x}, now)
<1>1. \A a \in A \union {x}: a.ino = i => r.date <= a.date
  BY DEF FoundIn
<1>2. (\E a \in A \union {x}: a.ino = i) \/ now - r.date > Retention
  BY DEF FoundIn
<1> QED BY <1>1, <1>2 DEF FoundIn

\* Archives past the window go.
LEMMA FoundPruned ==
  ASSUME ConstantsOK, NEW r \in [id: Nat, date: Nat], NEW i, NEW g, NEW c, NEW d, NEW l,
         NEW A, NEW B \in SUBSET A, NEW now \in Nat, NEW today \in Nat, today <= now,
         \A a \in A: a.date \in Nat,
         \A a \in A: a \notin B => ~(today - a.date <= Retention),
         FoundIn(r, i, g, c, d, l, A, now)
  PROVE  FoundIn(r, i, g, c, d, l, B, now)
<1>1. \A a \in B: a.ino = i => r.date <= a.date
  BY DEF FoundIn
<1>2. i = l \/ (\E a \in B: a.ino = i) \/ now - r.date > Retention
  <2>1. ASSUME NEW a \in A, a.ino = i, a \notin B PROVE now - r.date > Retention
    <3>1. a.date \in Nat /\ r.date \in Nat /\ Retention \in Nat /\ r.date <= a.date
      BY <2>1 DEF FoundIn, ConstantsOK
    <3>2. ~(today - a.date <= Retention)
      BY <2>1
    <3> QED BY <3>1, <3>2
  <2> QED BY <2>1 DEF FoundIn
<1> QED BY <1>1, <1>2 DEF FoundIn

-----------------------------------------------------------------------------
(* The steps *)

\* A live file of an earlier day is archived at the opening.
LEMMA OpenRotateHolds ==
  ASSUME ConstantsOK, NEW p \in Servers, Servers = {p}, AuditInv(p), OpenRotate(p)
  PROVE  AuditInv(p)'
<1> DEFINE g == log[p]
<1>1. /\ at[p] = "closed" /\ HeadDate # Absent /\ archives' = Rotated(HeadDate) /\ live' = Absent
      /\ UNCHANGED <<failing, day, latest, disk, log, at, answer, made, appended>>
  BY DEF OpenRotate, worldVars
<1>2. TypeOK
  BY DEF AuditInv
<1>3. /\ Absent \notin DOMAIN disk
      /\ live \in DOMAIN disk /\ live # Absent /\ HeadParses(disk[live])
      /\ HeadDate = disk[live].lines[1].date /\ HeadDate \in Nat
  BY <1>1, <1>2, HeadDateFacts
<1> DEFINE date == HeadDate
<1>4. NamesGood(disk, live, archives)
  BY <1>2 DEF TypeOK
<1> HIDE DEF date
<1>5. /\ NamesGood(disk, Absent, Rotated(date))
      /\ \E x: x.date = date /\ x.ino = live /\ Rotated(date) = archives \union {x}
  BY <1>3, <1>4, RotatedFacts DEF date
<1>6. PICK x: x.date = date /\ x.ino = live /\ archives' = archives \union {x}
  BY <1>1, <1>5 DEF date
<1>7. TypeOK'
  BY <1>1, <1>2, <1>5 DEF TypeOK, ClockGood, date
<1>8. LogGood(g, "closed", disk, Absent, archives', latest)
  BY DEF LogGood
<1>9. ASSUME "cut" \notin failing PROVE ChainGood(g, "closed", disk, archives')
  <2>1. ChainGood(g, "closed", disk, archives)
    BY <1>1, <1>9 DEF AuditInv
  <2>2. \A k \in DOMAIN disk[live].lines: disk[live].lines[k].date = x.date
    <3>1. disk[live].lines \in Seq(LineType) /\ disk[live].lines # <<>>
      BY <1>2, <1>3, DiskFacts DEF TypeOK, FileType, HeadParses
    <3>2. 1 \in DOMAIN disk[live].lines
      BY <3>1
    <3> QED BY <1>3, <1>6, <2>1, <3>2 DEF ChainGood, OneDay, date
  <2> QED BY <1>6, <2>1, <2>2 DEF ChainGood
<1>10. ASSUME ~({"cut", "back"} \subseteq failing)
       PROVE  AckedGood(appended, g, "closed", disk, Absent, archives', latest)
  <2> SUFFICES ASSUME NEW r \in appended
               PROVE  /\ r.date <= latest
                      /\ \E i \in DOMAIN disk:
                           FoundIn(r, i, g, "closed", disk, Absent, archives', latest)
    BY DEF AckedGood
  <2>1. AckedGood(appended, g, "closed", disk, live, archives, latest)
    BY <1>1, <1>10 DEF AuditInv
  <2>2. r.date <= latest
    BY <2>1 DEF AckedGood
  <2>3. PICK i \in DOMAIN disk: FoundIn(r, i, g, "closed", disk, live, archives, latest)
    BY <2>1 DEF AckedGood
  <2>4. i # Absent
    BY <1>3
  <2>5. i = live => r.date <= x.date
    BY <1>3, <1>6, <2>3 DEF FoundIn, date
  <2>6. FoundIn(r, i, g, "closed", disk, Absent, archives \union {x}, latest)
    BY <1>6, <2>3, <2>4, <2>5, FoundRotated
  <2> QED BY <1>6, <2>2, <2>6
<1>11. WindowGood(g, "closed", archives')
  BY DEF WindowGood
<1>12. failing \cap {"chmod", "open"} = {} => answer[p] # "refused"
  BY DEF AuditInv
<1> QED BY <1>1, <1>7, <1>8, <1>9, <1>10, <1>11, <1>12 DEF AuditInv

\* A log over a file: what it has of the record's place in it.
LEMMA FoundOpened ==
  ASSUME NEW r, NEW i, NEW g, NEW c, NEW d, NEW l, NEW A, NEW now, NEW g2, NEW c2, NEW d2,
         NEW l2, FoundIn(r, i, g, c, d, l, A, now), i # Absent, i \in DOMAIN d,
         d2[i] = d[i],
         l # Absent => l2 = l /\ (i = l => r.date <= g2.date),
         l = Absent => l2 \notin DOMAIN d
  PROVE  FoundIn(r, i, g2, c2, d2, l2, A, now)
<1>1. CASE l # Absent
  BY <1>1 DEF FoundIn
<1>2. CASE l = Absent
  BY <1>2 DEF FoundIn
<1> QED BY <1>1, <1>2

\* The log is opened: what is old goes and the chain is resumed.
LEMMA OpenLiveHolds ==
  ASSUME ConstantsOK, NEW p \in Servers, Servers = {p}, AuditInv(p), OpenLive(p)
  PROVE  AuditInv(p)'
<1> DEFINE g == log[p]
           h == log'[p]
           prev == IF live = Absent THEN Genesis ELSE LastHash(disk[live])
           A == Unexpired(day)
<1>1. /\ at[p] = "closed" /\ ReadyToOpen /\ archives' = A /\ Opened(p, prev, day)
      /\ at' = [at EXCEPT ![p] = "idle"]
      /\ UNCHANGED <<failing, day, latest, answer, made, appended>>
  BY DEF OpenLive, worldVars, MoveTo
<1>2. /\ TypeOK /\ NamesGood(disk, live, archives) /\ day \in Nat /\ latest \in Nat
      /\ day <= latest /\ at \in [Servers -> Steps] /\ DiskType(disk)
      /\ appended \subseteq [id: Nat, date: Nat]
  BY DEF AuditInv, TypeOK, ClockGood
<1>3. /\ Absent \notin DOMAIN disk
      /\ live # Absent => live \in DOMAIN disk
      /\ \A i \in DOMAIN disk: disk[i] \in FileType
  BY <1>2, HeadDateFacts, DiskFacts DEF NamesGood
<1>4. prev \in Seq(Nat)
  <2>1. CASE live = Absent
    BY <2>1 DEF Genesis
  <2>2. CASE live # Absent
    <3>1. disk[live].lines \in Seq(LineType)
      BY <1>3, <2>2 DEF FileType
    <3>2. LastHash(disk[live]) \in Seq(Nat)
      BY <3>1, LastHashType
    <3> QED BY <2>2, <3>2
  <2> QED BY <2>1, <2>2
<1> HIDE DEF prev
<1>5. /\ NamesGood(disk, live, A) /\ A \subseteq archives
      /\ \A a \in archives: a \notin A => ~(day - a.date <= Retention)
      /\ \A a \in A: day - a.date <= Retention
  BY <1>2, KeptFacts
<1> HIDE DEF A
<1>6. /\ DiskType(disk') /\ NamesGood(disk', live', A) /\ live' \in DOMAIN disk'
      /\ live' # Absent
      /\ log' \in [Servers -> LogType]
      /\ h.ino = live' /\ h.prev = prev /\ h.date = day /\ h.today = day
      /\ \A i \in DOMAIN disk: i \in DOMAIN disk' /\ disk'[i] = disk[i]
      /\ live # Absent => live' = live /\ disk' = disk
      /\ live = Absent => /\ live' \notin DOMAIN disk /\ disk'[live'] = Empty
                        /\ DOMAIN disk' = DOMAIN disk \union {live'}
  BY <1>1, <1>2, <1>4, <1>5, OpenedFacts
<1>7. at'[p] = "idle" /\ at' \in [Servers -> Steps]
  BY <1>1, <1>2 DEF Steps
<1>8. TypeOK'
  BY <1>1, <1>2, <1>6, <1>7 DEF TypeOK, ClockGood
<1> HIDE DEF h
\* The live file, if there is one and its head parses, is of today.
<1>9. live # Absent /\ HeadParses(disk[live]) => disk[live].lines[1].date = day
  BY <1>1, <1>2, HeadDateFacts DEF ReadyToOpen
<1>10. LogGood(h, "idle", disk', live', A, latest)
  <2>1. HeadParses(disk'[live']) => disk'[live'].lines[1].date = day
    BY <1>6, <1>9 DEF HeadParses, Empty
  <2>2. \A a \in A: a.ino # live'
    BY <1>6 DEF NamesGood
  <2> QED BY <1>2, <1>6, <2>1, <2>2 DEF LogGood
<1>11. ASSUME "cut" \notin failing PROVE ChainGood(h, "idle", disk', A)
  <2>1. ChainGood(g, "closed", disk, archives)
    BY <1>1, <1>11 DEF AuditInv
  <2>2. \A i \in DOMAIN disk': i \in DOMAIN disk \/ (i = live' /\ disk'[i] = Empty)
    BY <1>6
  <2>3. Verifies(Empty) /\ OneDay(Empty) /\ ~Empty.cut
    BY DEF Verifies, OneDay, Empty
  <2>4. \A i \in DOMAIN disk': Verifies(disk'[i]) /\ OneDay(disk'[i]) /\ ~disk'[i].cut
    BY <1>6, <2>1, <2>2, <2>3 DEF ChainGood
  <2>5. \A a \in A: \A k \in DOMAIN disk'[a.ino].lines: disk'[a.ino].lines[k].date = a.date
    <3>1. \A a \in A: a \in archives /\ disk'[a.ino] = disk[a.ino]
      BY <1>5, <1>6 DEF NamesGood
    <3> QED BY <2>1, <3>1 DEF ChainGood
  <2>6. h.prev = LastHash(disk'[live'])
    <3>1. LastHash(Empty) = Genesis
      BY DEF LastHash, Empty
    <3> QED BY <1>6, <3>1 DEF prev
  <2> QED BY <1>6, <2>4, <2>5, <2>6 DEF ChainGood
<1>12. ASSUME ~({"cut", "back"} \subseteq failing)
       PROVE  AckedGood(appended, h, "idle", disk', live', A, latest)
  <2> SUFFICES ASSUME NEW r \in appended
               PROVE  /\ r.date <= latest
                      /\ \E i \in DOMAIN disk':
                           FoundIn(r, i, h, "idle", disk', live', A, latest)
    BY DEF AckedGood
  <2>1. AckedGood(appended, g, "closed", disk, live, archives, latest)
    BY <1>1, <1>12 DEF AuditInv
  <2>2. r.date <= latest /\ r \in [id: Nat, date: Nat]
    BY <1>2, <2>1 DEF AckedGood
  <2>3. PICK i \in DOMAIN disk: FoundIn(r, i, g, "closed", disk, live, archives, latest)
    BY <2>1 DEF AckedGood
  <2>4. FoundIn(r, i, g, "closed", disk, live, A, latest)
    <3>1. \A a \in archives: a.date \in Nat
      BY <1>2 DEF NamesGood
    <3>2. A \in SUBSET archives
      BY <1>5
    <3> QED BY <1>2, <1>5, <2>2, <2>3, <3>1, <3>2, FoundPruned
  <2>5. ASSUME live # Absent, i = live PROVE r.date <= h.date
    <3>1. CASE HeadParses(disk[live])
      BY <1>6, <1>9, <2>3, <2>5, <3>1 DEF FoundIn
    <3>2. CASE ~HeadParses(disk[live])
      <4>1. "back" \notin failing
        <5>1. PICK k \in DOMAIN disk[i].lines: r.id \in Range(disk[i].lines[k].raw)
          BY <2>3 DEF FoundIn, InFile
        <5>2. disk[live].lines # <<>> /\ disk[live].lines \in Seq(LineType)
          BY <1>3, <2>5, <5>1 DEF FileType
        <5>3. 1 \in DOMAIN disk[live].lines
          BY <5>2
        <5>4. ASSUME "cut" \notin failing PROVE FALSE
          <6>1. Verifies(disk[live])
            BY <1>1, <1>3, <2>5, <5>4 DEF AuditInv, ChainGood
          <6> QED BY <3>2, <5>2, <5>3, <6>1 DEF Verifies, HeadParses
        <5> QED BY <1>12, <5>4
      <4>2. day = latest
        BY <1>2, <4>1 DEF TypeOK, ClockGood
      <4> QED BY <1>6, <2>2, <4>2
    <3> QED BY <3>1, <3>2
  <2>6. i \in DOMAIN disk' /\ disk'[i] = disk[i]
    BY <1>6
  <2>7. FoundIn(r, i, h, "idle", disk', live', A, latest)
    <3>1. i # Absent
      BY <1>3
    <3>2. /\ live # Absent => live' = live /\ (i = live => r.date <= h.date)
          /\ live = Absent => live' \notin DOMAIN disk
      BY <1>6, <2>5
    <3> QED BY <2>4, <2>6, <3>1, <3>2, FoundOpened
  <2> QED BY <2>2, <2>6, <2>7
<1>13. WindowGood(h, "idle", A)
  BY <1>5, <1>6 DEF WindowGood
<1>14. failing \cap {"chmod", "open"} = {} => answer[p] # "refused"
  BY DEF AuditInv
<1> QED BY <1>1, <1>6, <1>7, <1>8, <1>10, <1>11, <1>12, <1>13, <1>14 DEF AuditInv, h

\* What is written of a log while it is open changes none of this but its steps.
LEMMA QuietHolds ==
  ASSUME ConstantsOK, NEW p \in Servers, Servers = {p}, AuditInv(p),
         UNCHANGED <<failing, day, latest, disk, live, archives, appended>>,
         made' \in Nat, log' \in [Servers -> LogType], at' \in [Servers -> Steps],
         answer' \in [Servers -> Outcomes],
         at[p] # "closed", at'[p] # "closed", at'[p] # "newline",
         log'[p].ino = log[p].ino, log'[p].prev = log[p].prev, log'[p].date = log[p].date,
         log'[p].today <= latest,
         at'[p] \in {"prune", "write"} => log'[p].today = log'[p].date,
         at'[p] = "reopen" => live = Absent, at'[p] = "prune" => live # Absent,
         "cut" \notin failing => at[p] # "newline",
         "prune" \notin failing => at[p] # "prune",
         failing \cap {"chmod", "open"} = {} =>
           (at'[p] \notin {"closed", "reopen"} => live # Absent) /\ answer'[p] # "refused"
  PROVE  AuditInv(p)'
<1> DEFINE g == log[p]
           h == log'[p]
           c == at[p]
           e == at'[p]
<1>1. TypeOK'
  BY DEF AuditInv, TypeOK, ClockGood
<1> HIDE DEF g, h, c, e
<1>2. h.ino = g.ino /\ h.prev = g.prev /\ h.date = g.date /\ h.today <= latest
  BY DEF g, h
<1>3. c # "closed" /\ e # "closed" /\ e # "newline"
  BY DEF c, e
<1>4. LogGood(h, e, disk, live, archives, latest)
  <2>1. LogGood(g, c, disk, live, archives, latest)
    BY DEF AuditInv, g, c
  <2>2. /\ e \in {"prune", "write"} => h.today = h.date
        /\ e = "reopen" => live = Absent
        /\ e = "prune" => live # Absent
    BY DEF e, h
  <2> QED BY <1>2, <1>3, <2>1, <2>2 DEF LogGood
<1>5. ASSUME "cut" \notin failing PROVE ChainGood(h, e, disk, archives)
  <2>1. ChainGood(g, c, disk, archives) /\ c # "newline"
    BY <1>5 DEF AuditInv, g, c
  <2> QED BY <1>2, <1>3, <2>1 DEF ChainGood
<1>6. ASSUME ~({"cut", "back"} \subseteq failing)
      PROVE  AckedGood(appended, h, e, disk, live, archives, latest)
  <2>1. AckedGood(appended, g, c, disk, live, archives, latest)
    BY <1>6 DEF AuditInv, g, c
  <2>2. \A r, i: FoundIn(r, i, g, c, disk, live, archives, latest)
                   => FoundIn(r, i, h, e, disk, live, archives, latest)
    BY <1>2, <1>3 DEF FoundIn
  <2> QED BY <2>1, <2>2 DEF AckedGood
<1>7. ASSUME "prune" \notin failing PROVE WindowGood(h, e, archives)
  <2>1. WindowGood(g, c, archives) /\ c # "prune"
    BY <1>7 DEF AuditInv, g, c
  <2> QED BY <1>2, <1>3, <2>1 DEF WindowGood
<1> QED BY <1>1, <1>4, <1>5, <1>6, <1>7 DEF AuditInv, h, e

\* A record begins; its day is read.
LEMMA BeginHolds ==
  ASSUME ConstantsOK, NEW p \in Servers, Servers = {p}, AuditInv(p), BeginRecord(p)
  PROVE  AuditInv(p)'
<1> DEFINE to == IF day # log[p].date THEN "rotate" ELSE "write"
<1>1. /\ at[p] = "idle" /\ made' = made + 1
      /\ log' = [log EXCEPT ![p].today = day, ![p].rec = made']
      /\ at' = [at EXCEPT ![p] = to]
      /\ UNCHANGED <<failing, day, latest, disk, live, archives, answer, appended>>
  BY DEF BeginRecord, worldVars, MoveTo
<1>2. /\ made \in Nat /\ log \in [Servers -> LogType] /\ at \in [Servers -> Steps] /\ day \in Nat
      /\ day <= latest /\ answer \in [Servers -> Outcomes]
  BY DEF AuditInv, TypeOK, ClockGood
<1>3. made' \in Nat
  BY <1>1, <1>2
<1>4. /\ log' \in [Servers -> LogType] /\ log'[p].ino = log[p].ino
      /\ log'[p].prev = log[p].prev /\ log'[p].date = log[p].date
      /\ log'[p].today = day
  BY <1>1, <1>2, <1>3 DEF LogType
<1>5. at' \in [Servers -> Steps] /\ at'[p] = to
  BY <1>1, <1>2 DEF Steps
<1>6. failing \cap {"chmod", "open"} = {} => live # Absent /\ answer'[p] # "refused"
  BY <1>1 DEF AuditInv
<1>7. answer' \in [Servers -> Outcomes]
  BY <1>1, <1>2
<1> QED BY <1>1, <1>2, <1>3, <1>4, <1>5, <1>6, <1>7, QuietHolds

\* A step that ends the record in an error leaves the log as it is.
LEMMA FaultHolds ==
  ASSUME ConstantsOK, NEW p \in Servers, Servers = {p}, AuditInv(p),
         NEW out \in {"fault", "refused"}, EndRecord(p, out),
         UNCHANGED <<worldVars, disk, live, archives, log, made, appended>>,
         at[p] # "closed",
         "cut" \notin failing => at[p] # "newline",
         "prune" \notin failing => at[p] # "prune",
         failing \cap {"chmod", "open"} = {} => live # Absent /\ out # "refused"
  PROVE  AuditInv(p)'
<1>1. /\ at' = [at EXCEPT ![p] = "idle"] /\ answer' = [answer EXCEPT ![p] = out]
      /\ UNCHANGED <<failing, day, latest, disk, live, archives, log, made, appended>>
  BY DEF EndRecord, worldVars
<1>2. /\ made \in Nat /\ log \in [Servers -> LogType] /\ at \in [Servers -> Steps]
      /\ answer \in [Servers -> Outcomes]
      /\ LogGood(log[p], at[p], disk, live, archives, latest)
  BY DEF AuditInv, TypeOK
<1>3. at' \in [Servers -> Steps] /\ at'[p] = "idle" /\ answer' \in [Servers -> Outcomes]
      /\ answer'[p] = out
  BY <1>1, <1>2 DEF Steps, Outcomes
<1>4. log'[p].today <= latest
  BY <1>1, <1>2 DEF LogGood
<1> QED BY <1>1, <1>2, <1>3, <1>4, QuietHolds

\* The finished day is archived under the day the log has; the open log is left with
\* an archive of its own day, to be reopened.
LEMMA RotateHolds ==
  ASSUME ConstantsOK, NEW p \in Servers, Servers = {p}, AuditInv(p), Rotate(p)
  PROVE  AuditInv(p)'
<1> DEFINE g == log[p]
           e == at'[p]
<1>1. /\ at[p] = "rotate"
      /\ UNCHANGED <<worldVars, disk, log, made, appended>>
      /\ UNCHANGED <<failing, day, latest>>
  BY DEF Rotate, worldVars
<1>2. /\ TypeOK /\ NamesGood(disk, live, archives) /\ at \in [Servers -> Steps]
      /\ log \in [Servers -> LogType] /\ answer \in [Servers -> Outcomes]
  BY DEF AuditInv, TypeOK
<1>3. CASE EndRecord(p, "refused") /\ UNCHANGED <<live, archives>> /\ live = Absent
  <2>1. failing \cap {"chmod", "open"} # {}
    BY <1>1, <1>3 DEF AuditInv
  <2> QED BY <1>1, <1>3, <2>1, FaultHolds
<1>4. CASE EndRecord(p, "fault") /\ UNCHANGED <<live, archives>> /\ live # Absent
  BY <1>1, <1>4, FaultHolds
<1>5. CASE /\ live # Absent
           /\ archives' = Rotated(g.date) /\ live' = Absent
           /\ \/ MoveTo(p, "reopen") /\ UNCHANGED answer
              \/ "chmod" \in failing /\ EndRecord(p, "fault")
  <2>1. /\ at' \in [Servers -> Steps] /\ e \in {"reopen", "idle"}
        /\ answer' \in [Servers -> Outcomes]
        /\ failing \cap {"chmod", "open"} = {} =>
             e = "reopen" /\ answer'[p] = answer[p]
    <3>1. CASE MoveTo(p, "reopen") /\ UNCHANGED answer
      BY <1>2, <3>1 DEF MoveTo, Steps
    <3>2. CASE "chmod" \in failing /\ EndRecord(p, "fault")
      BY <1>2, <3>2 DEF EndRecord, Steps, Outcomes
    <3> QED BY <1>5, <3>1, <3>2
  <2>2. /\ Absent \notin DOMAIN disk /\ g \in LogType /\ g.date \in Nat
        /\ \A i \in DOMAIN disk: disk[i] \in FileType
    BY <1>2, HeadDateFacts, DiskFacts DEF TypeOK, LogType
  <2>3. LogGood(g, "rotate", disk, live, archives, latest)
    BY <1>1 DEF AuditInv
  <2> HIDE DEF g
  <2>4. /\ NamesGood(disk, Absent, Rotated(g.date))
        /\ \E x: x.date = g.date /\ x.ino = live /\ Rotated(g.date) = archives \union {x}
    BY <1>2, <1>5, <2>2, RotatedFacts
  <2>5. PICK x: x.date = g.date /\ x.ino = live /\ archives' = archives \union {x}
    BY <1>5, <2>4
  <2>6. g.ino = live /\ live \in DOMAIN disk /\ \A a \in archives: a.ino # live
    BY <1>2, <1>5, <2>3 DEF LogGood, NamesGood
  <2>7. TypeOK'
    BY <1>1, <1>2, <1>5, <2>1, <2>4 DEF TypeOK, ClockGood
  <2> HIDE DEF e
  <2>8. LogGood(g, e, disk, Absent, archives', latest)
    BY <2>1, <2>3, <2>5, <2>6 DEF LogGood
  <2>9. ASSUME "cut" \notin failing PROVE ChainGood(g, e, disk, archives')
    <3>1. ChainGood(g, "rotate", disk, archives)
      BY <1>1, <2>9 DEF AuditInv, g
    <3>2. ASSUME NEW k \in DOMAIN disk[live].lines
          PROVE  disk[live].lines[k].date = x.date
      <4>1. disk[live].lines \in Seq(LineType) /\ disk[live].lines # <<>>
        BY <2>2, <2>6 DEF FileType
      <4>2. 1 \in DOMAIN disk[live].lines
        BY <4>1
      <4>3. HeadParses(disk[live])
        BY <2>6, <3>1, <4>1, <4>2 DEF ChainGood, Verifies, HeadParses
      <4>4. disk[live].lines[1].date = g.date
        BY <2>3, <2>6, <4>3 DEF LogGood
      <4> QED BY <2>5, <2>6, <3>1, <4>2, <4>4 DEF ChainGood, OneDay
    <3> QED BY <2>1, <2>5, <3>1, <3>2 DEF ChainGood
  <2>10. ASSUME ~({"cut", "back"} \subseteq failing)
         PROVE  AckedGood(appended, g, e, disk, Absent, archives', latest)
    <3> SUFFICES ASSUME NEW r \in appended
                 PROVE  /\ r.date <= latest
                        /\ \E i \in DOMAIN disk:
                             FoundIn(r, i, g, e, disk, Absent, archives', latest)
      BY DEF AckedGood
    <3>1. AckedGood(appended, g, "rotate", disk, live, archives, latest)
      BY <1>1, <2>10 DEF AuditInv, g
    <3>2. PICK i \in DOMAIN disk: FoundIn(r, i, g, "rotate", disk, live, archives, latest)
      BY <3>1 DEF AckedGood
    <3>3. i # Absent
      BY <2>2
    <3>4. i = live => r.date <= x.date
      BY <2>5, <3>2 DEF FoundIn
    <3>5. FoundIn(r, i, g, "rotate", disk, Absent, archives \union {x}, latest)
      BY <2>5, <3>2, <3>3, <3>4, FoundRotated
    <3>6. FoundIn(r, i, g, e, disk, Absent, archives', latest)
      BY <2>5, <3>3, <3>5 DEF FoundIn
    <3> QED BY <3>1, <3>6 DEF AckedGood
  <2>11. ASSUME "prune" \notin failing PROVE WindowGood(g, e, archives')
    <3>1. WindowGood(g, "rotate", archives)
      BY <1>1, <2>11 DEF AuditInv, g
    <3>2. g.date - x.date <= Retention
      BY <2>2, <2>5 DEF ConstantsOK
    <3> QED BY <2>5, <3>1, <3>2 DEF WindowGood
  <2>12. failing \cap {"chmod", "open"} = {} =>
           e \in {"closed", "reopen"} /\ answer'[p] # "refused"
    BY <2>1 DEF AuditInv
  <2> QED BY <1>1, <1>5, <2>7, <2>8, <2>9, <2>10, <2>11, <2>12 DEF AuditInv, e, g
<1> QED BY <1>3, <1>4, <1>5 DEF Rotate

\* A fresh file and a fresh chain take the place of the archived one.
LEMMA ReopenHolds ==
  ASSUME ConstantsOK, NEW p \in Servers, Servers = {p}, AuditInv(p), Reopen(p)
  PROVE  AuditInv(p)'
<1> DEFINE g == log[p]
           h == log'[p]
<1>1. /\ at[p] = "reopen"
      /\ UNCHANGED <<worldVars, archives, made, appended>>
      /\ UNCHANGED <<failing, day, latest>>
  BY DEF Reopen, worldVars
<1>2. /\ TypeOK /\ NamesGood(disk, live, archives) /\ at \in [Servers -> Steps]
      /\ log \in [Servers -> LogType] /\ answer \in [Servers -> Outcomes]
      /\ LogGood(g, "reopen", disk, live, archives, latest) /\ live = Absent
  BY <1>1 DEF AuditInv, TypeOK, LogGood
<1>3. CASE "open" \in failing /\ EndRecord(p, "fault") /\ UNCHANGED <<disk, live, log>>
  BY <1>1, <1>3, FaultHolds
<1>4. CASE /\ Opened(p, Genesis, g.today)
           /\ MoveTo(p, "prune") /\ UNCHANGED answer
  <2>1. /\ Absent \notin DOMAIN disk /\ g.today \in Nat /\ g.today <= latest
        /\ Genesis \in Seq(Nat)
    BY <1>2, HeadDateFacts DEF LogType, LogGood, Genesis
  <2>2. /\ DiskType(disk') /\ NamesGood(disk', live', archives) /\ live' \in DOMAIN disk'
        /\ live' # Absent /\ log' \in [Servers -> LogType]
        /\ h.ino = live' /\ h.prev = Genesis /\ h.date = g.today /\ h.today = g.today
        /\ \A i \in DOMAIN disk: i \in DOMAIN disk' /\ disk'[i] = disk[i]
        /\ live' \notin DOMAIN disk /\ disk'[live'] = Empty
        /\ DOMAIN disk' = DOMAIN disk \union {live'}
    BY <1>2, <1>4, <2>1, OpenedFacts
  <2>3. at' \in [Servers -> Steps] /\ at'[p] = "prune"
    BY <1>2, <1>4 DEF MoveTo, Steps
  <2>4. TypeOK'
    BY <1>1, <1>2, <1>4, <2>2, <2>3 DEF TypeOK, ClockGood
  <2> HIDE DEF g, h
  <2>5. LogGood(h, "prune", disk', live', archives, latest)
    <3>1. ~HeadParses(disk'[live'])
      BY <2>2 DEF HeadParses, Empty
    <3>2. \A a \in archives: a.ino # live'
      BY <2>2 DEF NamesGood
    <3> QED BY <2>1, <2>2, <3>1, <3>2 DEF LogGood
  <2>6. ASSUME "cut" \notin failing PROVE ChainGood(h, "prune", disk', archives)
    <3>1. ChainGood(g, "reopen", disk, archives)
      BY <1>1, <2>6 DEF AuditInv, g
    <3>2. \A i \in DOMAIN disk': i \in DOMAIN disk \/ (i = live' /\ disk'[i] = Empty)
      BY <2>2
    <3>3. Verifies(Empty) /\ OneDay(Empty) /\ ~Empty.cut /\ LastHash(Empty) = Genesis
      BY DEF Verifies, OneDay, Empty, LastHash
    <3>4. \A i \in DOMAIN disk': Verifies(disk'[i]) /\ OneDay(disk'[i]) /\ ~disk'[i].cut
      BY <2>2, <3>1, <3>2, <3>3 DEF ChainGood
    <3>5. \A a \in archives: disk'[a.ino] = disk[a.ino]
      BY <1>2, <2>2 DEF NamesGood
    <3>6. \A a \in archives: \A k \in DOMAIN disk'[a.ino].lines:
            disk'[a.ino].lines[k].date = a.date
      BY <3>1, <3>5 DEF ChainGood
    <3>7. h.prev = LastHash(disk'[h.ino])
      BY <2>2, <3>3
    <3> QED BY <3>4, <3>6, <3>7 DEF ChainGood
  <2>7. ASSUME ~({"cut", "back"} \subseteq failing)
        PROVE  AckedGood(appended, h, "prune", disk', live', archives, latest)
    <3>1. AckedGood(appended, g, "reopen", disk, live, archives, latest)
      BY <1>1, <2>7 DEF AuditInv, g
    <3>2. ASSUME NEW r, NEW i \in DOMAIN disk,
                 FoundIn(r, i, g, "reopen", disk, live, archives, latest)
          PROVE  i \in DOMAIN disk' /\ FoundIn(r, i, h, "prune", disk', live', archives, latest)
      <4>1. i # Absent /\ i \in DOMAIN disk' /\ disk'[i] = disk[i]
        BY <2>1, <2>2
      <4> QED BY <1>2, <2>2, <3>2, <4>1, FoundOpened
    <3> QED BY <3>1, <3>2 DEF AckedGood
  <2>8. WindowGood(h, "prune", archives)
    BY DEF WindowGood
  <2>9. failing \cap {"chmod", "open"} = {} => answer'[p] # "refused"
    BY <1>4 DEF AuditInv
  <2> QED BY <1>1, <2>2, <2>3, <2>4, <2>5, <2>6, <2>7, <2>8, <2>9 DEF AuditInv, h
<1> QED BY <1>3, <1>4 DEF Reopen

\* What is past the window of the new day goes, and the record can be written.
LEMMA PruneHolds ==
  ASSUME ConstantsOK, NEW p \in Servers, Servers = {p}, AuditInv(p), Prune(p)
  PROVE  AuditInv(p)'
<1> DEFINE g == log[p]
           A == Unexpired(g.today)
<1>1. /\ at[p] = "prune"
      /\ UNCHANGED <<worldVars, disk, live, log, made, appended>>
      /\ UNCHANGED <<failing, day, latest>>
  BY DEF Prune, worldVars
<1>2. /\ TypeOK /\ NamesGood(disk, live, archives) /\ at \in [Servers -> Steps]
      /\ log \in [Servers -> LogType] /\ answer \in [Servers -> Outcomes]
      /\ appended \subseteq [id: Nat, date: Nat] /\ latest \in Nat
      /\ LogGood(g, "prune", disk, live, archives, latest) /\ live # Absent
  BY <1>1 DEF AuditInv, TypeOK, LogGood, ClockGood
<1>3. CASE "prune" \in failing /\ EndRecord(p, "fault") /\ UNCHANGED archives
  BY <1>1, <1>2, <1>3, FaultHolds
<1>4. CASE archives' = A /\ MoveTo(p, "write") /\ UNCHANGED answer
  <2>1. at' \in [Servers -> Steps] /\ at'[p] = "write"
    BY <1>2, <1>4 DEF MoveTo, Steps
  <2>2. g.today \in Nat /\ g.today <= latest /\ g.today = g.date
    BY <1>2 DEF LogType, LogGood
  <2>3. /\ NamesGood(disk, live, A) /\ A \in SUBSET archives
        /\ \A a \in archives: a \notin A => ~(g.today - a.date <= Retention)
        /\ \A a \in A: g.today - a.date <= Retention
    BY <1>2, KeptFacts
  <2> HIDE DEF A
  <2>4. TypeOK'
    BY <1>1, <1>2, <1>4, <2>1, <2>3 DEF TypeOK, ClockGood
  <2> HIDE DEF g
  <2>5. LogGood(g, "write", disk, live, A, latest)
    BY <1>2, <2>2, <2>3 DEF LogGood
  <2>6. ASSUME "cut" \notin failing PROVE ChainGood(g, "write", disk, A)
    <3>1. ChainGood(g, "prune", disk, archives)
      BY <1>1, <2>6 DEF AuditInv, g
    <3> QED BY <2>3, <3>1 DEF ChainGood
  <2>7. ASSUME ~({"cut", "back"} \subseteq failing)
        PROVE  AckedGood(appended, g, "write", disk, live, A, latest)
    <3>1. AckedGood(appended, g, "prune", disk, live, archives, latest)
      BY <1>1, <2>7 DEF AuditInv, g
    <3>2. \A a \in archives: a.date \in Nat
      BY <1>2 DEF NamesGood
    <3>3. ASSUME NEW r \in appended, NEW i,
                 FoundIn(r, i, g, "prune", disk, live, archives, latest)
          PROVE  FoundIn(r, i, g, "write", disk, live, A, latest)
      <4>1. r \in [id: Nat, date: Nat]
        BY <1>2
      <4>2. FoundIn(r, i, g, "prune", disk, live, A, latest)
        BY <1>2, <2>2, <2>3, <3>2, <3>3, <4>1, FoundPruned
      <4> QED BY <4>2 DEF FoundIn
    <3> QED BY <3>1, <3>3 DEF AckedGood
  <2>8. WindowGood(g, "write", A)
    BY <2>2, <2>3 DEF WindowGood
  <2>9. failing \cap {"chmod", "open"} = {} => answer'[p] # "refused"
    BY <1>4 DEF AuditInv
  <2> QED BY <1>1, <1>2, <1>4, <2>1, <2>4, <2>5, <2>6, <2>7, <2>8, <2>9 DEF AuditInv, g
<1> QED BY <1>3, <1>4 DEF Prune

\* A line that names the last one and is of the file's day goes on with its chain.
LEMMA ChainAppend ==
  ASSUME NEW f \in FileType, NEW f2, NEW rec \in LineType, f2.lines = Append(f.lines, rec),
         Verifies(f), OneDay(f), HeadParses(f) => f.lines[1].date = rec.date,
         Len(rec.raw) = 1, rec.prev = LastHash(f)
  PROVE  /\ Verifies(f2) /\ OneDay(f2) /\ f2.lines # <<>> /\ LastHash(f2) = rec.raw
         /\ \A k \in DOMAIN f2.lines: f2.lines[k].date = rec.date
<1> DEFINE n == Len(f.lines)
           e == Append(f.lines, rec)
<1>1. f.lines \in Seq(LineType) /\ n \in Nat /\ DOMAIN f.lines = 1..n
  BY DEF FileType
<1>2. /\ e \in Seq(LineType) /\ Len(e) = n + 1 /\ e[n + 1] = rec
      /\ \A k \in 1..n: e[k] = f.lines[k]
  BY <1>1, AppendProperties
<1> HIDE DEF e
<1>3. e # <<>> /\ DOMAIN e = 1..(n + 1) /\ LastHash(f2) = rec.raw /\ f2.lines = e
  BY <1>1, <1>2 DEF LastHash, e
<1>4. ASSUME NEW k \in 1..(n + 1)
      PROVE  /\ Len(e[k].raw) = 1
             /\ e[k].prev = IF k = 1 THEN Genesis ELSE e[k-1].raw
             /\ e[k].date = rec.date
  <2>1. CASE k = n + 1
    <3>1. CASE n = 0
      <4>1. f.lines = <<>> /\ LastHash(f) = Genesis
        BY <1>1, <3>1 DEF LastHash
      <4> QED BY <1>2, <2>1, <3>1, <4>1
    <3>2. CASE n # 0
      <4>1. f.lines # <<>> /\ LastHash(f) = f.lines[n].raw /\ k - 1 = n /\ n \in 1..n /\ k # 1
        BY <1>1, <2>1, <3>2 DEF LastHash
      <4>2. e[k - 1].raw = f.lines[n].raw
        BY <1>2, <4>1
      <4> QED BY <1>2, <2>1, <4>1, <4>2
    <3> QED BY <3>1, <3>2
  <2>2. CASE k # n + 1
    <3>1. k \in 1..n /\ 1 \in 1..n /\ f.lines # <<>> /\ (k # 1 => k - 1 \in 1..n)
      BY <1>1, <2>2
    <3>2. HeadParses(f)
      BY <1>1, <3>1 DEF Verifies, HeadParses
    <3>3. f.lines[k].date = rec.date
      BY <1>1, <3>1, <3>2 DEF OneDay
    <3>4. /\ Len(f.lines[k].raw) = 1
          /\ f.lines[k].prev = IF k = 1 THEN Genesis ELSE f.lines[k-1].raw
      BY <1>1, <3>1 DEF Verifies
    <3>5. e[k] = f.lines[k] /\ (k # 1 => e[k-1] = f.lines[k-1])
      BY <1>2, <3>1
    <3> QED BY <3>3, <3>4, <3>5
  <2> QED BY <2>1, <2>2
<1>5. Verifies(f2)
  BY <1>3, <1>4 DEF Verifies
<1>6. OneDay(f2) /\ \A k \in DOMAIN f2.lines: f2.lines[k].date = rec.date
  BY <1>3, <1>4 DEF OneDay
<1> QED BY <1>3, <1>5, <1>6

\* The line lands in the file the log has open.
LEMMA WriteLineHolds ==
  ASSUME ConstantsOK, NEW p \in Servers, Servers = {p}, AuditInv(p), WriteLine(p)
  PROVE  AuditInv(p)'
<1> DEFINE g == log[p]
           f == disk[g.ino]
           line == [raw |-> <<g.rec>>, prev |-> g.prev, date |-> g.today]
<1>1. /\ at[p] = "write"
      /\ UNCHANGED <<worldVars, live, archives, log, made, appended>>
      /\ UNCHANGED <<failing, day, latest>>
  BY DEF WriteLine, worldVars
<1>2. /\ TypeOK /\ NamesGood(disk, live, archives) /\ at \in [Servers -> Steps]
      /\ log \in [Servers -> LogType] /\ answer \in [Servers -> Outcomes] /\ DiskType(disk)
      /\ LogGood(g, "write", disk, live, archives, latest)
      /\ failing \cap {"chmod", "open"} = {} => live # Absent
  BY <1>1 DEF AuditInv, TypeOK
<1>3. CASE "write" \in failing /\ EndRecord(p, "fault") /\ UNCHANGED disk
  BY <1>1, <1>2, <1>3, FaultHolds
<1>4. CASE /\ disk' = [disk EXCEPT ![g.ino] = Written(disk[g.ino], line)]
           /\ MoveTo(p, "newline") /\ UNCHANGED answer
  <2>1. at' \in [Servers -> Steps] /\ at'[p] = "newline"
    BY <1>2, <1>4 DEF MoveTo, Steps
  <2>2. /\ g \in LogType /\ g.ino \in DOMAIN disk /\ g.today = g.date /\ g.rec \in Nat
        /\ g.date \in Nat /\ g.prev \in Seq(Nat)
    BY <1>2 DEF LogType, LogGood
  <2>3. f \in FileType
    BY <1>2, <2>2, DiskFacts
  <2>4. /\ line \in LineType /\ line.date = g.date /\ line.prev = g.prev
        /\ line.raw = <<g.rec>> /\ Len(line.raw) = 1 /\ g.rec \in Range(line.raw)
    <3>1. <<g.rec>> \in Raws /\ Len(<<g.rec>>) = 1 /\ g.rec \in Range(<<g.rec>>)
      BY <2>2 DEF Raws, Range
    <3> QED BY <2>2, <3>1 DEF LineType
  <2> HIDE DEF line
  <2>5. /\ Written(f, line) \in FileType /\ Written(f, line).lines # <<>>
        /\ Grows(f, Written(f, line))
        /\ \E k \in DOMAIN Written(f, line).lines:
             Range(line.raw) \subseteq Range(Written(f, line).lines[k].raw)
        /\ ~f.cut \/ f.lines = <<>> => Written(f, line).lines = Append(f.lines, line)
    BY <2>3, <2>4, WrittenFacts
  <2>6. /\ DiskType(disk') /\ DOMAIN disk' = DOMAIN disk /\ disk'[g.ino] = Written(f, line)
        /\ \A i \in DOMAIN disk: i # g.ino => disk'[i] = disk[i]
    <3>1. DiskType([disk EXCEPT ![g.ino] = Written(f, line)])
      BY <1>2, <2>2, <2>5, DiskFacts
    <3> QED BY <1>4, <2>2, <3>1
  <2>7. TypeOK'
    <3>1. NamesGood(disk', live, archives)
      BY <1>2, <2>6 DEF NamesGood
    <3> QED BY <1>1, <1>2, <1>4, <2>1, <2>6, <3>1 DEF TypeOK, ClockGood
  <2> HIDE DEF g
  <2>8. LogGood(g, "newline", disk', live, archives, latest)
    <3>1. ASSUME HeadParses(disk'[g.ino]) PROVE disk'[g.ino].lines[1].date = g.date
      <4>1. CASE f.lines = <<>>
        <5>1. disk'[g.ino].lines = <<line>>
          BY <2>5, <2>6, <4>1
        <5> QED BY <2>4, <5>1
      <4>2. CASE f.lines # <<>>
        BY <1>2, <2>5, <2>6, <3>1, <4>2 DEF Grows, LogGood
      <4> QED BY <4>1, <4>2
    <3>2. \E k \in DOMAIN disk'[g.ino].lines: g.rec \in Range(disk'[g.ino].lines[k].raw)
      BY <2>4, <2>5, <2>6
    <3> QED BY <1>2, <2>2, <2>6, <3>1, <3>2 DEF LogGood
  <2>9. ASSUME "cut" \notin failing PROVE ChainGood(g, "newline", disk', archives)
    <3>1. ChainGood(g, "write", disk, archives)
      BY <1>1, <2>9 DEF AuditInv, g
    <3>2. Verifies(f) /\ OneDay(f) /\ ~f.cut /\ g.prev = LastHash(f)
      BY <2>2, <3>1 DEF ChainGood
    <3>3. HeadParses(f) => f.lines[1].date = line.date
      BY <1>2, <2>4 DEF LogGood
    <3>4. disk'[g.ino].lines = Append(f.lines, line)
      BY <2>5, <2>6, <3>2
    <3> DEFINE f2 == disk'[g.ino]
    <3> HIDE DEF f, f2
    <3>5. line.prev = LastHash(f) /\ Len(line.raw) = 1 /\ line \in LineType /\ f \in FileType
      BY <2>3, <2>4, <3>2
    <3>6. f2.lines = Append(f.lines, line)
      BY <3>4 DEF f2
    <3>7. /\ Verifies(f2) /\ OneDay(f2) /\ f2.lines # <<>> /\ LastHash(f2) = line.raw
          /\ \A k \in DOMAIN f2.lines: f2.lines[k].date = line.date
      BY <3>2, <3>3, <3>5, <3>6, ChainAppend
    <3>8. /\ Verifies(disk'[g.ino]) /\ OneDay(disk'[g.ino]) /\ disk'[g.ino].lines # <<>>
          /\ LastHash(disk'[g.ino]) = line.raw
          /\ \A k \in DOMAIN disk'[g.ino].lines: disk'[g.ino].lines[k].date = line.date
      BY <3>7 DEF f2
    <3>9. ASSUME NEW a \in archives, NEW k \in DOMAIN disk'[a.ino].lines
          PROVE  disk'[a.ino].lines[k].date = a.date
      <4>1. CASE a.ino = g.ino
        BY <1>2, <2>4, <3>8, <3>9, <4>1 DEF LogGood
      <4>2. CASE a.ino # g.ino
        <5>1. disk'[a.ino] = disk[a.ino]
          BY <1>2, <2>6, <4>2 DEF NamesGood
        <5> QED BY <3>1, <3>9, <5>1 DEF ChainGood
      <4> QED BY <4>1, <4>2
    <3>10. \A i \in DOMAIN disk': Verifies(disk'[i]) /\ OneDay(disk'[i])
      BY <2>6, <3>1, <3>8 DEF ChainGood
    <3>11. \A i \in DOMAIN disk': disk'[i].cut => i = g.ino
      BY <2>6, <3>1 DEF ChainGood
    <3> QED BY <2>4, <3>8, <3>9, <3>10, <3>11 DEF ChainGood
  <2>10. ASSUME ~({"cut", "back"} \subseteq failing)
         PROVE  AckedGood(appended, g, "newline", disk', live, archives, latest)
    <3>1. AckedGood(appended, g, "write", disk, live, archives, latest)
      BY <1>1, <2>10 DEF AuditInv, g
    <3>2. \A i \in DOMAIN disk: Grows(disk[i], disk'[i])
      <4>1. \A i \in DOMAIN disk: i # g.ino => Grows(disk[i], disk'[i])
        BY <2>6 DEF Grows
      <4> QED BY <2>5, <2>6, <4>1
    <3>3. ASSUME NEW r, NEW i \in DOMAIN disk,
                 FoundIn(r, i, g, "write", disk, live, archives, latest)
          PROVE  FoundIn(r, i, g, "newline", disk', live, archives, latest)
      <4>1. FoundIn(r, i, g, "write", disk', live, archives, latest)
        BY <3>2, <3>3, FoundGrows
      <4> QED BY <4>1 DEF FoundIn
    <3> QED BY <2>6, <3>1, <3>3 DEF AckedGood
  <2>11. ASSUME "prune" \notin failing PROVE WindowGood(g, "newline", archives)
    BY <1>1, <2>11 DEF AuditInv, WindowGood, g
  <2>12. failing \cap {"chmod", "open"} = {} => live # Absent /\ answer'[p] # "refused"
    BY <1>2, <1>4 DEF AuditInv
  <2> QED BY <1>1, <2>1, <2>7, <2>8, <2>9, <2>10, <2>11, <2>12 DEF AuditInv, g
<1> QED BY <1>3, <1>4 DEF WriteLine

\* The newline is out: the record counts as appended.
LEMMA WriteNewlineHolds ==
  ASSUME ConstantsOK, NEW p \in Servers, Servers = {p}, AuditInv(p), WriteNewline(p)
  PROVE  AuditInv(p)'
<1> DEFINE g == log[p]
           f == disk[g.ino]
           h == log'[p]
           new == [id |-> g.rec, date |-> g.today]
<1>1. /\ at[p] = "newline"
      /\ UNCHANGED <<worldVars, live, archives, made>>
      /\ UNCHANGED <<failing, day, latest>>
  BY DEF WriteNewline, worldVars
<1>2. /\ TypeOK /\ NamesGood(disk, live, archives) /\ at \in [Servers -> Steps]
      /\ log \in [Servers -> LogType] /\ answer \in [Servers -> Outcomes] /\ DiskType(disk)
      /\ appended \subseteq [id: Nat, date: Nat]
      /\ LogGood(g, "newline", disk, live, archives, latest)
      /\ failing \cap {"chmod", "open"} = {} => live # Absent
  BY <1>1 DEF AuditInv, TypeOK
<1>3. CASE "cut" \in failing /\ EndRecord(p, "fault") /\ UNCHANGED <<disk, log, appended>>
  BY <1>1, <1>2, <1>3, FaultHolds
<1>4. CASE /\ disk' = [disk EXCEPT ![g.ino].cut = FALSE]
           /\ log' = [log EXCEPT ![p].prev = <<g.rec>>]
           /\ appended' = appended \union {new}
           /\ EndRecord(p, "ok")
  <2>1. /\ at' \in [Servers -> Steps] /\ at'[p] = "idle"
        /\ answer' \in [Servers -> Outcomes] /\ answer'[p] = "ok"
    BY <1>2, <1>4 DEF EndRecord, Steps, Outcomes
  <2>2. /\ g \in LogType /\ g.ino \in DOMAIN disk /\ g.today = g.date /\ g.rec \in Nat
        /\ g.date \in Nat /\ g.today <= latest
    BY <1>2 DEF LogType, LogGood
  <2>3. f \in FileType
    BY <1>2, <2>2, DiskFacts
  <2> DEFINE f2 == [f EXCEPT !.cut = FALSE]
  <2>4. f2 \in FileType /\ f2.lines = f.lines /\ f2.cut = FALSE
    BY <2>3, NewlineFacts
  <2>5. disk' = [disk EXCEPT ![g.ino] = f2]
    BY <1>4
  <2> HIDE DEF f2
  <2>6. /\ DiskType(disk') /\ DOMAIN disk' = DOMAIN disk /\ disk'[g.ino] = f2
        /\ \A i \in DOMAIN disk: disk'[i].lines = disk[i].lines
        /\ \A i \in DOMAIN disk: disk'[i].cut => disk[i].cut /\ i # g.ino
    <3>1. DiskType([disk EXCEPT ![g.ino] = f2])
      BY <1>2, <2>2, <2>4, DiskFacts
    <3> QED BY <2>2, <2>4, <2>5, <3>1
  <2>7. /\ log' \in [Servers -> LogType] /\ h.ino = g.ino /\ h.prev = <<g.rec>>
        /\ h.date = g.date /\ h.today = g.today
    <3>1. <<g.rec>> \in Seq(Nat)
      BY <2>2
    <3> QED BY <1>2, <1>4, <3>1 DEF LogType
  <2>8. new \in [id: Nat, date: Nat] /\ new.id = g.rec /\ new.date = g.date
    BY <2>2
  <2> HIDE DEF new
  <2>9. TypeOK'
    <3>1. NamesGood(disk', live, archives)
      BY <1>2, <2>6 DEF NamesGood
    <3> QED BY <1>1, <1>2, <1>4, <2>1, <2>6, <2>7, <2>8, <3>1 DEF TypeOK, ClockGood
  <2> HIDE DEF g, h
  <2>10. LogGood(h, "idle", disk', live, archives, latest)
    <3>1. HeadParses(disk'[g.ino]) => disk'[g.ino].lines[1].date = g.date
      BY <1>2, <2>2, <2>6 DEF LogGood, HeadParses
    <3> QED BY <1>2, <2>2, <2>6, <2>7, <3>1 DEF LogGood
  <2>11. ASSUME "cut" \notin failing PROVE ChainGood(h, "idle", disk', archives)
    <3>1. ChainGood(g, "newline", disk, archives)
      BY <1>1, <2>11 DEF AuditInv, g
    <3>2. \A i \in DOMAIN disk': Verifies(disk'[i]) /\ OneDay(disk'[i]) /\ ~disk'[i].cut
      BY <2>6, <3>1 DEF ChainGood, Verifies, OneDay
    <3>3. \A a \in archives: \A k \in DOMAIN disk'[a.ino].lines:
            disk'[a.ino].lines[k].date = a.date
      BY <1>2, <2>6, <3>1 DEF ChainGood, NamesGood
    <3>4. h.prev = LastHash(disk'[h.ino])
      BY <2>2, <2>6, <2>7, <3>1 DEF ChainGood, LastHash
    <3> QED BY <3>2, <3>3, <3>4 DEF ChainGood
  <2>12. ASSUME ~({"cut", "back"} \subseteq failing)
         PROVE  AckedGood(appended', h, "idle", disk', live, archives, latest)
    <3>1. AckedGood(appended, g, "newline", disk, live, archives, latest)
      BY <1>1, <2>12 DEF AuditInv, g
    <3>2. \A r: \A i \in DOMAIN disk:
            FoundIn(r, i, g, "newline", disk, live, archives, latest)
              => FoundIn(r, i, h, "idle", disk', live, archives, latest)
      BY <2>6, <2>7 DEF FoundIn, InFile, HeadParses
    <3>3. FoundIn(new, g.ino, h, "idle", disk', live, archives, latest)
      <4>1. InFile(new, disk'[g.ino])
        BY <1>2, <2>2, <2>6, <2>8 DEF LogGood, InFile
      <4>2. \A a \in archives: a.ino = g.ino => new.date <= a.date
        BY <1>2, <2>2, <2>8 DEF LogGood
      <4>3. HeadParses(disk'[g.ino]) => new.date <= disk'[g.ino].lines[1].date
        BY <1>2, <2>2, <2>6, <2>8 DEF LogGood, HeadParses
      <4>4. new.date <= h.date
        BY <2>2, <2>7, <2>8
      <4>5. g.ino = live \/ \E a \in archives: a.ino = g.ino
        BY <1>2 DEF LogGood
      <4> QED BY <4>1, <4>2, <4>3, <4>4, <4>5 DEF FoundIn
    <3>4. new.date <= latest
      BY <2>2, <2>8
    <3> QED BY <1>4, <2>2, <2>6, <3>1, <3>2, <3>3, <3>4 DEF AckedGood
  <2>13. ASSUME "prune" \notin failing PROVE WindowGood(h, "idle", archives)
    BY <1>1, <2>7, <2>13 DEF AuditInv, WindowGood, g
  <2>14. failing \cap {"chmod", "open"} = {} => live # Absent /\ answer'[p] # "refused"
    BY <1>2, <2>1
  <2> QED
    BY <1>1, <2>1, <2>9, <2>10, <2>11, <2>12, <2>13, <2>14 DEF AuditInv, h
<1> QED BY <1>3, <1>4 DEF WriteNewline

\* A dead process leaves the files as they are; between a line and its newline it
\* dies only where lines may be cut.
LEMMA CrashHolds ==
  ASSUME ConstantsOK, NEW p \in Servers, Servers = {p}, AuditInv(p), Die(p)
  PROVE  AuditInv(p)'
<1> DEFINE g == log[p]
           c == at[p]
<1>1. /\ c = "newline" => "cut" \in failing
      /\ at' = [at EXCEPT ![p] = "closed"]
      /\ log' = [log EXCEPT ![p] = NoLog]
      /\ answer' = [answer EXCEPT ![p] = Absent]
      /\ UNCHANGED <<failing, day, latest, disk, live, archives, made, appended>>
  BY DEF Die, worldVars, MoveTo
<1>2. /\ TypeOK /\ NamesGood(disk, live, archives) /\ at \in [Servers -> Steps]
      /\ log \in [Servers -> LogType] /\ answer \in [Servers -> Outcomes]
  BY DEF AuditInv, TypeOK
<1>3. NoLog \in LogType
  BY DEF NoLog, LogType, Genesis
<1>4. /\ log' \in [Servers -> LogType] /\ log'[p] = NoLog
      /\ at' \in [Servers -> Steps] /\ at'[p] = "closed"
      /\ answer' \in [Servers -> Outcomes] /\ answer'[p] = Absent
  BY <1>1, <1>2, <1>3 DEF Steps, Outcomes
<1>5. TypeOK'
  BY <1>1, <1>2, <1>4 DEF TypeOK, ClockGood
<1>6. LogGood(NoLog, "closed", disk, live, archives, latest)
  BY DEF LogGood
<1>7. ASSUME "cut" \notin failing PROVE ChainGood(NoLog, "closed", disk, archives)
  <2>1. ChainGood(g, c, disk, archives) /\ c # "newline"
    BY <1>1, <1>7 DEF AuditInv
  <2> HIDE DEF g, c
  <2> QED BY <2>1 DEF ChainGood
<1>8. ASSUME ~({"cut", "back"} \subseteq failing)
      PROVE  AckedGood(appended, NoLog, "closed", disk, live, archives, latest)
  <2>1. AckedGood(appended, g, c, disk, live, archives, latest)
    BY <1>8 DEF AuditInv
  <2> HIDE DEF g, c
  <2>2. \A r, i: FoundIn(r, i, g, c, disk, live, archives, latest)
                   => FoundIn(r, i, NoLog, "closed", disk, live, archives, latest)
    BY DEF FoundIn
  <2> QED BY <2>1, <2>2 DEF AckedGood
<1>9. WindowGood(NoLog, "closed", archives)
  BY DEF WindowGood
<1>10. Absent # "refused"
  BY DEF ConstantsOK
<1> QED BY <1>1, <1>4, <1>5, <1>6, <1>7, <1>8, <1>9, <1>10 DEF AuditInv

\* When the clock moves, nothing on disk does; a later day only ends the time of more
\* records.
LEMMA ShiftHolds ==
  ASSUME ConstantsOK, NEW p \in Servers, Servers = {p}, AuditInv(p), Shift
  PROVE  AuditInv(p)'
<1> DEFINE g == log[p]
           c == at[p]
<1>1. /\ \/ day' = day + 1
         \/ "back" \in failing /\ day > 0 /\ day' = day - 1
      /\ latest' = IF day' > latest THEN day' ELSE latest
      /\ UNCHANGED <<failing, disk, live, archives, log, at, answer, made, appended>>
  BY DEF Shift
<1>2. /\ TypeOK /\ day \in Nat /\ latest \in Nat /\ day <= latest
      /\ "back" \notin failing => day = latest
      /\ log \in [Servers -> LogType] /\ appended \subseteq [id: Nat, date: Nat]
  BY DEF AuditInv, TypeOK, ClockGood
<1>3. /\ day' \in Nat /\ latest' \in Nat /\ day' <= latest' /\ latest <= latest'
      /\ "back" \notin failing => day' = latest'
  BY <1>1, <1>2
<1>4. TypeOK'
  BY <1>1, <1>2, <1>3 DEF TypeOK, ClockGood
<1>5. g.date \in Nat /\ g.today \in Nat
  BY <1>2 DEF LogType
<1> HIDE DEF g, c
<1>6. LogGood(g, c, disk, live, archives, latest')
  <2>1. LogGood(g, c, disk, live, archives, latest)
    BY DEF AuditInv, g, c
  <2>2. g.date <= latest => g.date <= latest'
    BY <1>2, <1>3, <1>5
  <2>3. g.today <= latest => g.today <= latest'
    BY <1>2, <1>3, <1>5
  <2> QED BY <2>1, <2>2, <2>3 DEF LogGood
<1>7. ASSUME ~({"cut", "back"} \subseteq failing)
      PROVE  AckedGood(appended, g, c, disk, live, archives, latest')
  <2>1. AckedGood(appended, g, c, disk, live, archives, latest)
    BY <1>7 DEF AuditInv, g, c
  <2>2. ASSUME NEW r \in appended
        PROVE  /\ r.date <= latest => r.date <= latest'
               /\ latest - r.date > Retention => latest' - r.date > Retention
    <3>1. r.date \in Nat /\ Retention \in Nat
      BY <1>2 DEF ConstantsOK
    <3> QED BY <1>2, <1>3, <3>1
  <2>3. ASSUME NEW r \in appended, NEW i, FoundIn(r, i, g, c, disk, live, archives, latest)
        PROVE  FoundIn(r, i, g, c, disk, live, archives, latest')
    BY <2>2, <2>3 DEF FoundIn
  <2> QED BY <2>1, <2>2, <2>3 DEF AckedGood
<1> QED BY <1>1, <1>4, <1>6, <1>7 DEF AuditInv, g, c

\* Every step keeps the invariant.
LEMMA StepHolds ==
  ASSUME ConstantsOK, NEW p \in Servers, Servers = {p}, AuditInv(p), [AuditNext]_auditVars
  PROVE  AuditInv(p)'
<1>1. CASE AuditStep(p)
  BY <1>1, OpenRotateHolds, OpenLiveHolds, BeginHolds, RotateHolds, ReopenHolds, PruneHolds,
     WriteLineHolds, WriteNewlineHolds, CrashHolds DEF AuditStep
<1>2. CASE Shift
  BY <1>2, ShiftHolds
<1>3. CASE UNCHANGED auditVars
  BY <1>3 DEF auditVars, AuditInv, TypeOK, ClockGood
<1> QED BY <1>1, <1>2, <1>3 DEF AuditNext

\* It holds of an empty directory and a server that is not running.
LEMMA AuditStarts ==
  ASSUME ConstantsOK, NEW p \in Servers, Servers = {p}, AuditInit
  PROVE  AuditInv(p)
<1>1. /\ failing \in AuditWorlds /\ day = 0 /\ latest = 0 /\ disk = <<>> /\ live = Absent
      /\ archives = {} /\ log = [q \in Servers |-> NoLog] /\ at = [q \in Servers |-> "closed"]
      /\ answer = [q \in Servers |-> Absent] /\ made = 0 /\ appended = {}
  BY DEF AuditInit
<1>2. DiskType(disk) /\ DOMAIN disk = {}
  <2>1. disk \in [1..0 -> FileType] /\ 0 \in Nat
    BY <1>1
  <2> QED BY <2>1 DEF DiskType
<1>3. NamesGood(disk, live, archives)
  BY <1>1, FS_EmptySet DEF NamesGood
<1>4. NoLog \in LogType
  BY DEF NoLog, LogType, Genesis
<1>5. TypeOK
  BY <1>1, <1>2, <1>3, <1>4 DEF TypeOK, ClockGood, Steps, Outcomes
<1>6. at[p] = "closed" /\ answer[p] = Absent /\ Absent # "refused"
  BY <1>1 DEF ConstantsOK
<1>7. LogGood(log[p], "closed", disk, live, archives, latest)
  BY DEF LogGood
<1>8. ChainGood(log[p], "closed", disk, archives)
  BY <1>1, <1>2 DEF ChainGood
<1>9. AckedGood(appended, log[p], "closed", disk, live, archives, latest)
  BY <1>1 DEF AckedGood
<1>10. WindowGood(log[p], "closed", archives)
  BY DEF WindowGood
<1> QED BY <1>5, <1>6, <1>7, <1>8, <1>9, <1>10 DEF AuditInv

\* The invariant says what the log promises.
LEMMA AuditEnough ==
  ASSUME ConstantsOK, NEW p \in Servers, Servers = {p}, AuditInv(p)
  PROVE  AuditKept
<1>1. TypeOK /\ NamesGood(disk, live, archives) /\ Absent \notin DOMAIN disk
  BY HeadDateFacts DEF AuditInv, TypeOK
<1>2. /\ \A i \in Named: i \in DOMAIN disk
      /\ \A a \in archives: a.ino \in Named
      /\ live # Absent => live \in Named
  BY <1>1 DEF Named, NamesGood
<1>3. WholeFilesVerify
  <2> SUFFICES ASSUME "cut" \notin failing
               PROVE  /\ FilesVerify
                      /\ \A i \in Named, j, k \in 1..MaxLines :
                           {j, k} \subseteq DOMAIN disk[i].lines =>
                             disk[i].lines[j].date = disk[i].lines[k].date
                      /\ \A a \in archives, k \in 1..MaxLines :
                           k \in DOMAIN disk[a.ino].lines =>
                             disk[a.ino].lines[k].date = a.date
    BY DEF WholeFilesVerify
  <2>1. ChainGood(log[p], at[p], disk, archives)
    BY DEF AuditInv
  <2>2. FilesVerify
    BY <1>2, <2>1 DEF FilesVerify, ChainGood
  <2>3. \A i \in Named: OneDay(disk[i])
    BY <1>2, <2>1 DEF ChainGood
  <2> QED BY <2>1, <2>2, <2>3 DEF ChainGood, OneDay
<1>4. AckedKept
  <2>1. ASSUME ~({"cut", "back"} \subseteq failing), NEW r \in appended,
               latest - r.date <= Retention
        PROVE  \E i \in Named : \E k \in DOMAIN disk[i].lines :
                 r.id \in Range(disk[i].lines[k].raw)
    <3>1. PICK i \in DOMAIN disk:
            FoundIn(r, i, log[p], at[p], disk, live, archives, latest)
      BY <2>1 DEF AuditInv, AckedGood
    <3>2. ~(latest - r.date > Retention)
      <4>1. latest \in Nat /\ r.date \in Nat /\ Retention \in Nat
        BY <1>1 DEF TypeOK, ClockGood, ConstantsOK
      <4> QED BY <2>1, <4>1
    <3>3. i \in Named
      BY <1>1, <1>2, <3>1, <3>2 DEF FoundIn
    <3> QED BY <3>1, <3>3 DEF FoundIn, InFile
  <2>2. ASSUME "prune" \notin failing, NEW q \in Servers, NEW a \in archives, at[q] = "idle"
        PROVE  log[q].date - a.date <= Retention
    <3>1. q = p
      OBVIOUS
    <3> QED BY <2>2, <3>1 DEF AuditInv, WindowGood
  <2> QED BY <2>1, <2>2 DEF AckedKept
<1>5. RotationRecovers
  <2>1. \A q \in Servers: q = p
    OBVIOUS
  <2> QED BY <2>1 DEF AuditInv, RotationRecovers, NeverRefused
<1> QED BY <1>3, <1>4, <1>5 DEF AuditKept

-----------------------------------------------------------------------------
(* The theorems *)

\* One process owns the log.  Where no line is cut short, every file it names verifies
\* and is of one day, the day an archive is named after; what was reported as appended
\* stays in a named file until its time is over, unless lines are cut and the clock set
\* back; archives outlive the window only where one cannot be deleted; and no record is
\* refused for an earlier call unless a chmod or an open failed (record, rotate_file,
\* prune_archives, audit.rs).
THEOREM AuditSound ==
  ASSUME NEW p, Servers = {p}
  PROVE  AuditSpec => []AuditKept
<1>1. p \in Servers
  OBVIOUS
<1>2. AuditInit => AuditInv(p)
  BY <1>1, AuditAssumption, AuditStarts
<1>3. AuditInv(p) /\ [AuditNext]_auditVars => AuditInv(p)'
  BY <1>1, AuditAssumption, StepHolds
<1>4. AuditInv(p) => AuditKept
  BY <1>1, AuditAssumption, AuditEnough
<1> QED BY <1>2, <1>3, <1>4, PTL DEF AuditSpec

\* "The archive is never overwritten" (audit.rs 500-502): no two archives have one name,
\* and none of them is also the file at audit.jsonl.
ArchivesApart ==
  /\ \A a, b \in archives : a.date = b.date /\ a.n = b.n => a = b
  /\ \A a \in archives : a.ino # live

\* It holds whatever fails, lines that are cut and clocks set back included.
THEOREM ArchivesStayApart ==
  ASSUME NEW p, Servers = {p}
  PROVE  AuditSpec => []ArchivesApart
<1>1. p \in Servers
  OBVIOUS
<1>2. AuditInit => AuditInv(p)
  BY <1>1, AuditAssumption, AuditStarts
<1>3. AuditInv(p) /\ [AuditNext]_auditVars => AuditInv(p)'
  BY <1>1, AuditAssumption, StepHolds
<1>4. AuditInv(p) => ArchivesApart
  BY DEF AuditInv, TypeOK, NamesGood, ArchivesApart
<1> QED BY <1>2, <1>3, <1>4, PTL DEF AuditSpec
=============================================================================
