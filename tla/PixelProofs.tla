---------------------------- MODULE PixelProofs -----------------------------
(***************************************************************************)
(* The rolling window, the slot and the answers of latest, proved for any  *)
(* caps, any number of clients, streams and frames, and any failures, and  *)
(* the frames of a PipeWire stream and of a Wayland output, for any sizes  *)
(* and any number of them.                                                 *)
(***************************************************************************)
EXTENDS ScreenStream, PipewireFrames, WaylandFrames, Captures, DataLemmas

-----------------------------------------------------------------------------
(* The bytes in a window *)

FrameRecs == [n: Nat, size: Nat]

\* g sums up the first n sizes.
SumsUp(g, window, n) ==
  \A k \in 0..n : g[k] = IF k = 0 THEN 0 ELSE g[k - 1] + window[k].size

\* There is such a function, for every length.
LEMMA TotalsExist ==
  ASSUME NEW window \in Seq(FrameRecs), NEW n \in 0..Len(window)
  PROVE  \E g \in [0..n -> Nat] : SumsUp(g, window, n)
<1> DEFINE Bad == {m \in 0..Len(window) : ~\E g \in [0..m -> Nat] : SumsUp(g, window, m)}
<1>1. Bad \in SUBSET Nat
  OBVIOUS
<1>2. ASSUME Bad # {} PROVE FALSE
  <2>1. PICK m \in Bad : \A k \in Bad : m <= k
    BY <1>1, <1>2, LeastExists
  <2>2. m # 0
    <3>1. SumsUp([k \in 0..0 |-> 0], window, 0) /\ [k \in 0..0 |-> 0] \in [0..0 -> Nat]
      BY DEF SumsUp
    <3> QED BY <3>1
  <2>3. m - 1 \in 0..Len(window) /\ m - 1 \notin Bad /\ m \in 1..Len(window)
    <3> DEFINE l == Len(window)
    <3>1. m \in 0..l /\ l \in Nat
      OBVIOUS
    <3> HIDE DEF l
    <3>2. m - 1 \in 0..l /\ m \in 1..l /\ m - 1 \in Nat /\ m - 1 < m
      BY <2>2, <3>1
    <3>3. m - 1 \notin Bad
      <4> HIDE DEF Bad
      <4> QED BY <1>1, <2>1, <3>2
    <3> QED BY <3>2, <3>3 DEF l
  <2>4. PICK g \in [0..(m - 1) -> Nat] : SumsUp(g, window, m - 1)
    BY <2>3
  <2> DEFINE h == [k \in 0..m |-> IF k = m THEN g[m - 1] + window[m].size ELSE g[k]]
  <2>5. window[m].size \in Nat /\ g[m - 1] \in Nat /\ m \in Nat
    <3>1. window[m] \in FrameRecs
      BY <2>3
    <3>2. m \in Nat /\ m - 1 \in 0..(m - 1)
      BY <2>2
    <3> QED BY <3>1, <3>2 DEF FrameRecs
  <2>6. h \in [0..m -> Nat]
    BY <2>5
  <2>7. ASSUME NEW k \in 0..m PROVE h[k] = IF k = 0 THEN 0 ELSE h[k - 1] + window[k].size
    BY <2>2, <2>4, <2>5, <2>7 DEF SumsUp
  <2>8. SumsUp(h, window, m)
    BY <2>7 DEF SumsUp
  <2> QED BY <2>1, <2>6, <2>8
<1> QED BY <1>2

\* Two that sum up agree.
LEMMA SumsAgree ==
  ASSUME NEW a, NEW b, NEW window \in Seq(FrameRecs), NEW other \in Seq(FrameRecs),
         NEW n \in Nat, \A k \in 1..n : other[k] = window[k],
         SumsUp(a, window, n), SumsUp(b, other, n)
  PROVE  \A k \in 0..n : a[k] = b[k]
<1> DEFINE Bad == {m \in 0..n : a[m] # b[m]}
<1>1. Bad \in SUBSET Nat
  OBVIOUS
<1>2. ASSUME Bad # {} PROVE FALSE
  <2>1. PICK m \in Bad : \A k \in Bad : m <= k
    BY <1>1, <1>2, LeastExists
  <2>2. m # 0
    BY DEF SumsUp
  <2>3. m - 1 \in 0..n /\ m - 1 \notin Bad /\ m \in 1..n
    BY <2>1, <2>2
  <2> QED BY <2>2, <2>3 DEF SumsUp
<1> QED BY <1>2

\* So the definition is one that sums up.
LEMMA TotalsSumUp ==
  ASSUME NEW window \in Seq(FrameRecs)
  PROVE  Totals(window) \in [0..Len(window) -> Nat] /\ SumsUp(Totals(window), window, Len(window))
<1> DEFINE n == Len(window)
           F(g) == [k \in 0..n |-> IF k = 0 THEN 0 ELSE g[k - 1] + window[k].size]
<1>1. n \in 0..Len(window)
  OBVIOUS
<1>2. PICK g \in [0..n -> Nat] : SumsUp(g, window, n)
  BY <1>1, TotalsExist
<1>3. g = F(g)
  BY <1>2 DEF SumsUp
<1>4. Totals(window) = F(Totals(window))
  BY <1>3 DEF Totals
<1> DEFINE t == Totals(window)
<1> HIDE DEF t
<1>5. SumsUp(t, window, n)
  BY <1>4 DEF t, SumsUp
<1>6. \A k \in 0..n : t[k] = g[k]
  BY <1>1, <1>2, <1>5, SumsAgree
<1>7. t \in [0..n -> Nat]
  BY <1>4, <1>6 DEF t
<1> QED BY <1>5, <1>7 DEF t

\* An empty window has no bytes.
LEMMA BytesEmpty == Bytes(<<>>) = 0
<1> DEFINE empty == <<>>
<1>1. empty \in Seq(FrameRecs) /\ Len(empty) = 0
  OBVIOUS
<1> HIDE DEF empty
<1>2. SumsUp(Totals(empty), empty, 0)
  BY <1>1, TotalsSumUp
<1>3. Totals(empty)[0] = 0
  BY <1>2 DEF SumsUp
<1> QED BY <1>1, <1>3 DEF Bytes, empty

\* A frame at the end adds its size.
LEMMA BytesAppend ==
  ASSUME NEW window \in Seq(FrameRecs), NEW f \in FrameRecs
  PROVE  Bytes(Append(window, f)) = Bytes(window) + f.size /\ Bytes(window) \in Nat
<1> DEFINE n == Len(window)
           more == Append(window, f)
<1>1. /\ n \in Nat /\ more \in Seq(FrameRecs) /\ Len(more) = n + 1 /\ more[n + 1] = f
      /\ \A k \in 1..n : more[k] = window[k]
  BY AppendProperties
<1>2. SumsUp(Totals(window), window, n) /\ Totals(window) \in [0..n -> Nat]
  BY TotalsSumUp
<1>3. SumsUp(Totals(more), more, n + 1)
  BY <1>1, TotalsSumUp
<1> HIDE DEF more, n
<1>4. SumsUp(Totals(more), more, n)
  BY <1>1, <1>3 DEF SumsUp
<1>5. Totals(window)[n] = Totals(more)[n]
  <2>1. n \in 0..n
    BY <1>1
  <2> QED BY <1>1, <1>2, <1>4, <2>1, SumsAgree
<1>6. Totals(more)[n + 1] = Totals(more)[n] + f.size
  <2>1. n + 1 \in 0..(n + 1) /\ n + 1 # 0 /\ (n + 1) - 1 = n
    BY <1>1
  <2>2. Totals(more)[n + 1] = Totals(more)[(n + 1) - 1] + more[n + 1].size
    BY <1>3, <2>1 DEF SumsUp
  <2> QED BY <1>1, <2>1, <2>2
<1>7. Totals(window)[n] \in Nat
  BY <1>1, <1>2
<1> QED BY <1>1, <1>5, <1>6, <1>7 DEF Bytes, more, n

\* And the frame taken from the front takes its size away.
LEMMA BytesTail ==
  ASSUME NEW window \in Seq(FrameRecs), window # <<>>
  PROVE  /\ Bytes(window) = Bytes(Tail(window)) + Head(window).size
         /\ Bytes(Tail(window)) \in Nat /\ Head(window) \in FrameRecs
<1> DEFINE n == Len(window)
           rest == Tail(window)
           a == Totals(window)
           b == Totals(rest)
<1>1. /\ n \in Nat \ {0} /\ rest \in Seq(FrameRecs) /\ Len(rest) = n - 1
      /\ Head(window) = window[1] /\ window[1] \in FrameRecs
      /\ \A k \in 1..(n - 1) : rest[k] = window[k + 1]
  <2>1. n \in Nat \ {0}
    BY EmptySeq
  <2> QED BY <2>1, HeadTailProperties
<1>2. SumsUp(a, window, n) /\ a \in [0..n -> Nat]
  BY TotalsSumUp
<1>3. SumsUp(b, rest, n - 1) /\ b \in [0..(n - 1) -> Nat]
  BY <1>1, TotalsSumUp
<1> DEFINE h == window[1].size
           Bad == {m \in 0..(n - 1) : a[m + 1] # b[m] + h}
<1>4. h \in Nat /\ n \in Nat \ {0}
  BY <1>1 DEF FrameRecs
<1> HIDE DEF a, b, n, h, rest
<1>5. ASSUME Bad # {} PROVE FALSE
  <2>1. Bad \in SUBSET Nat
    OBVIOUS
  <2>2. PICK m \in Bad : \A k \in Bad : m <= k
    BY <1>5, <2>1, LeastExists
  <2>3. a[0] = 0 /\ a[1] = a[0] + h /\ b[0] = 0
    <3>1. 0 \in 0..n /\ 1 \in 0..n /\ 0 \in 0..(n - 1) /\ 1 # 0 /\ 1 - 1 = 0
      BY <1>4
    <3>2. a[0] = 0 /\ a[1] = a[0] + h
      BY <1>2, <3>1 DEF SumsUp, h
    <3>3. b[0] = 0
      BY <1>3, <3>1 DEF SumsUp
    <3> QED BY <3>2, <3>3
  <2>4. m # 0
    BY <1>4, <2>3
  <2>5. m - 1 \in 0..(n - 1) /\ m - 1 \notin Bad /\ m \in 1..(n - 1)
    BY <1>4, <2>2, <2>4
  <2>6. a[m] = b[m - 1] + h
    BY <2>5
  <2>7. a[m + 1] = a[m] + window[m + 1].size
    <3>1. m + 1 \in 0..n /\ m + 1 # 0 /\ (m + 1) - 1 = m
      BY <1>4, <2>5
    <3> QED BY <1>2, <3>1 DEF SumsUp
  <2>8. b[m] = b[m - 1] + rest[m].size /\ rest[m] = window[m + 1]
    <3>1. m \in 0..(n - 1) /\ m # 0
      BY <1>4, <2>5
    <3>2. b[m] = b[m - 1] + rest[m].size
      BY <1>3, <3>1 DEF SumsUp
    <3> QED BY <1>1, <2>5, <3>2
  <2>9. rest[m].size \in Nat /\ b[m - 1] \in Nat /\ m \in Nat
    <3>1. m \in 1..Len(rest) /\ m \in Nat
      BY <1>1, <1>4, <2>5
    <3>2. rest[m] \in FrameRecs
      BY <1>1, <3>1
    <3> QED BY <1>3, <2>5, <3>1, <3>2 DEF FrameRecs
  <2> QED BY <1>4, <2>6, <2>7, <2>8, <2>9
<1>6. n - 1 \in 0..(n - 1) /\ (n - 1) + 1 = n
  BY <1>4
<1>7. a[n] = b[n - 1] + h
  BY <1>5, <1>6
<1>8. b[n - 1] \in Nat
  BY <1>3, <1>6
<1> QED BY <1>1, <1>7, <1>8 DEF Bytes, a, b, n, h, rest
-----------------------------------------------------------------------------
(* Types *)

TaskSteps == {"unborn", "wait", "evict", "unlink", "write", "publish", "count",
              "manifest", "done"}
Tasks == [pc: TaskSteps, frames: Seq(FrameRecs), buffered: Nat, size: Nat,
          old: FrameRecs \cup {None}, seq: Nat]

\* Steps of a request that is about a stream.
Aimed == {"insert", "await", "join", "reap", "read", "again", "reread"}
Steps == Aimed \cup {"idle", "mint", "poll", "replied"}
Requests == [pc: Steps, sid: Streams \cup {None}, n: Nat \cup {None},
             since: Nat \cup {None}, floor: Nat, out: Answers \cup {None}]

\* A request is idle as it began, names a stream when it is about one, and has
\* an answer only at its end.
RequestOK(r) ==
  /\ r.pc = "idle" => r = Idle
  /\ r.pc \in Aimed => r.sid \in Streams
  /\ r.pc \in {"read", "again", "reread"} => r.n \in Nat
  /\ r.pc # "replied" => r.out = None
  /\ r.out = "frame" => r.n \in Nat

Minters == {c \in Clients : Reading(c, "mint")}

TypeOK ==
  /\ reg \in accepted \cup {None}
  /\ accepted \subseteq Streams /\ cancel \subseteq Streams /\ aborted \subseteq Streams
  /\ minted \in Nat /\ minted + Cardinality(Minters) <= MaxStreams
  /\ task \in [Streams -> Tasks]
  /\ stats \in [Streams -> [latest: Nat \cup {None}, written: Nat]]
  /\ files \in [Streams -> SUBSET Nat] /\ orphans \in [Streams -> SUBSET Nat]
  /\ manifest \in [Streams -> (SUBSET Nat) \cup {None}]
  /\ req \in [Clients -> Requests]
  /\ \A c \in Clients : RequestOK(req[c])

-----------------------------------------------------------------------------
(* The window of one stream: its task t, the files f in its directory, the *)
(* orphans o among them, its manifest m.                                   *)

\* The counter is the sum of the sizes, the frame that is going included.
Counted(t) ==
  IF t.pc = "unlink"
  THEN t.old \in FrameRecs /\ t.buffered = Bytes(t.frames) + t.old.size
  ELSE t.buffered = Bytes(t.frames)

\* There is room for the window, and for the frame that is going or coming.
Fits(t) ==
  /\ t.buffered <= MaxBytes /\ Len(t.frames) <= MaxFrames
  /\ t.pc \in {"unlink", "write"} => Len(t.frames) < MaxFrames
  /\ t.pc = "write" => t.buffered + t.size <= MaxBytes
  /\ t.pc = "unborn" => t.frames = <<>>

\* Frames are numbered as they come.
Ordered(t) ==
  /\ \A i, j \in DOMAIN t.frames : i < j => t.frames[i].n < t.frames[j].n
  /\ \A i \in DOMAIN t.frames : /\ t.frames[i].n <= t.seq
                                /\ t.pc = "write" => t.frames[i].n < t.seq
                                /\ t.pc = "unlink" => t.old.n < t.frames[i].n

\* But for one file at most, those of kept are all there are.
OneMore(kept, f) == \A x, y \in f \ kept : x = y

\* What is on disk is the window, orphans aside, and at the end at most one
\* frame that was half-handled.
OnDisk(t, f, o, m) ==
  LET kept == Numbers(t.frames) IN
  CASE t.pc = "unlink" -> /\ m = None /\ kept \subseteq f
                          /\ f \ o \subseteq kept \cup {t.old.n}
    [] t.pc = "manifest" -> /\ m = None /\ kept \subseteq f
                            /\ \/ f \ o \subseteq kept
                               \/ Len(t.frames) < MaxFrames /\ OneMore(kept, f \ o)
    [] t.pc = "done" -> /\ IsFiniteSet(f \ o) /\ Cardinality(f \ o) <= MaxFrames
                        /\ m # None => m \subseteq f /\ OneMore(m, f \ o)
    [] OTHER -> m = None /\ kept \subseteq f /\ f \ o \subseteq kept

WindowGood(t, f, o, m) == Counted(t) /\ Fits(t) /\ Ordered(t) /\ OnDisk(t, f, o, m)

WindowInv ==
  \A s \in Streams : /\ WindowGood(task[s], files[s], orphans[s], manifest[s])
                     /\ s > minted => task[s] = NewTask

-----------------------------------------------------------------------------
(* The slot *)

\* An accepted stream that runs is in the slot or told to end; a start that
\* was told the slot is taken has left nothing.
Told(s) == Alive(s) => reg = s \/ s \in cancel
Gone(s, f, o, m) == ~Alive(s) /\ (0 \notin o => f = {} /\ m = None)
LeftNothing(r) ==
  r.sid # None /\ r.out = "occupied" => Gone(r.sid, files[r.sid], orphans[r.sid], manifest[r.sid])

SlotInv ==
  /\ accepted \subseteq 1..minted /\ \A s \in accepted : Told(s)
  /\ \A c \in Clients : /\ req[c].pc \in Aimed \/ req[c].out = "occupied" =>
                             req[c].sid \in (1..minted) \cup {None}
                        /\ LeftNothing(req[c])

-----------------------------------------------------------------------------
(* The answers of latest *)

Number(n) == IF n = None THEN 0 ELSE n

\* The newest frame is the last one written, once the task has said so.
StatsGood(t, stat) ==
  /\ stat.written <= Number(stat.latest)
  /\ t.pc \in {"unborn", "wait", "evict", "unlink", "count"} => Number(stat.latest) = t.seq
  /\ t.pc \in {"write", "publish"} => Number(stat.latest) + 1 = t.seq

\* What a request knows of a stream is not ahead of it.
QueryGood(r, st) ==
  /\ r.pc \in {"poll", "read", "again", "reread"} /\ r.sid # None =>
       r.floor <= Number(st[r.sid].latest)
  /\ r.pc = "poll" /\ r.sid = None => r.floor = 0
  /\ r.pc \in {"read", "again", "reread"} \/ r.out = "frame" =>
       /\ r.n >= r.floor
       /\ r.since # None => r.n > r.since
  /\ r.pc \in {"read", "again", "reread"} => r.n <= Number(st[r.sid].latest)

LatestInv ==
  /\ \A s \in Streams : StatsGood(task[s], stats[s])
  /\ \A c \in Clients : QueryGood(req[c], stats)

-----------------------------------------------------------------------------
(* Type correctness *)

\* NoClash: None stands for nothing, so it is neither a stream nor a number.
LEMMA NoneApart == None \notin Nat /\ None \notin Streams /\ MaxStreams \in Nat
BY StreamAssumption DEF Streams

\* A new task and the end of one are tasks.
LEMMA NewTaskType == NewTask \in Tasks /\ [NewTask EXCEPT !.pc = "done"] \in Tasks
<1>1. <<>> \in Seq(FrameRecs)
  OBVIOUS
<1> QED BY <1>1 DEF NewTask, Tasks, TaskSteps

\* Only the stream that moves changes its task.
LEMMA TaskMoves ==
  ASSUME TypeOK, NEW s \in Streams, NEW t, Becomes(s, t)
  PROVE  /\ task'[s] = t /\ DOMAIN task' = Streams
         /\ \A k \in Streams \ {s} : task'[k] = task[k]
         /\ t \in Tasks => task' \in [Streams -> Tasks]
BY DEF TypeOK, Becomes

\* A step of the loop that changes nothing but its place.
LEMMA GotoType ==
  ASSUME TypeOK, NEW s \in Streams, NEW step \in TaskSteps, NEW z \in Nat
  PROVE  /\ [task[s] EXCEPT !.pc = step] \in Tasks
         /\ [task[s] EXCEPT !.pc = step, !.size = z] \in Tasks
BY DEF TypeOK, Tasks

\* The oldest frame leaves the window, or the incoming one is on its way in.
LEMMA EvictType ==
  ASSUME NEW t \in Tasks
  PROVE  /\ t.frames # <<>> =>
              [t EXCEPT !.pc = "unlink", !.frames = Tail(t.frames), !.old = Head(t.frames)]
                \in Tasks
         /\ [t EXCEPT !.pc = "write", !.seq = t.seq + 1] \in Tasks
<1>1. t.frames # <<>> => Tail(t.frames) \in Seq(FrameRecs) /\ Head(t.frames) \in FrameRecs
  <2>1. t.frames \in Seq(FrameRecs)
    BY DEF Tasks
  <2> QED BY <2>1, HeadTailProperties
<1>2. t.frames # <<>> =>
        [t EXCEPT !.pc = "unlink", !.frames = Tail(t.frames), !.old = Head(t.frames)]
          \in Tasks
  BY <1>1 DEF Tasks, TaskSteps
<1>3. [t EXCEPT !.pc = "write", !.seq = t.seq + 1] \in Tasks
  <2>1. t.seq + 1 \in Nat
    BY DEF Tasks
  <2> QED BY <2>1 DEF Tasks, TaskSteps
<1> QED BY <1>2, <1>3

\* The counter goes down, to zero at the least.
LEMMA UnlinkType ==
  ASSUME NEW t \in Tasks, t.old \in FrameRecs
  PROVE  [t EXCEPT !.pc = "evict", !.old = None,
                   !.buffered = Less(t.buffered, t.old.size)] \in Tasks
<1>1. t.buffered \in Nat /\ t.old.size \in Nat
  BY DEF Tasks, FrameRecs
<1>2. Less(t.buffered, t.old.size) \in Nat
  BY <1>1 DEF Less
<1> QED BY <1>2 DEF Tasks, TaskSteps

\* A written frame joins the window.
Written(t) ==
  [t EXCEPT !.pc = "publish", !.size = 0,
            !.frames = Append(t.frames, [n |-> t.seq, size |-> t.size]),
            !.buffered = t.buffered + t.size]

\* With that frame the window is one of frames.
LEMMA WrittenType ==
  ASSUME NEW t \in Tasks
  PROVE  /\ Written(t) \in Tasks /\ [n |-> t.seq, size |-> t.size] \in FrameRecs
         /\ Written(t).pc = "publish" /\ Written(t).seq = t.seq
         /\ Written(t).frames = Append(t.frames, [n |-> t.seq, size |-> t.size])
         /\ Written(t).buffered = t.buffered + t.size
<1>1. [n |-> t.seq, size |-> t.size] \in FrameRecs /\ t.frames \in Seq(FrameRecs)
  BY DEF Tasks, FrameRecs
<1>2. Append(t.frames, [n |-> t.seq, size |-> t.size]) \in Seq(FrameRecs)
  BY <1>1, AppendProperties
<1>3. t.buffered + t.size \in Nat
  BY DEF Tasks
<1> QED BY <1>1, <1>2, <1>3 DEF Written, Tasks, TaskSteps

\* The numbers of the frames in a window.
LEMMA NumbersOf ==
  ASSUME NEW window \in Seq(FrameRecs)
  PROVE  /\ Numbers(window) = {window[i].n : i \in 1..Len(window)}
         /\ Numbers(window) \in SUBSET Nat
<1>1. \A i \in 1..Len(window) : window[i].n \in Nat
  <2>1. \A i \in 1..Len(window) : window[i] \in FrameRecs
    OBVIOUS
  <2> QED BY <2>1 DEF FrameRecs
<1>2. DOMAIN window = 1..Len(window)
  OBVIOUS
<1> QED BY <1>1, <1>2 DEF Numbers, Range

\* A table with one entry set anew.
LEMMA PutType ==
  ASSUME NEW S, NEW T, NEW f \in [S -> T], NEW s, NEW v \in T
  PROVE  [f EXCEPT ![s] = v] \in [S -> T]
  OBVIOUS

\* A step of a task leaves every type as it is.
LEMMA RunType ==
  ASSUME TypeOK, WindowInv, NEW s \in Streams, Run(s)
  PROVE  TypeOK'
<1>1. UNCHANGED requestVars /\ task[s] \in Tasks
  BY DEF Run, TypeOK, Cancelled, Abort, Capture, Evict, Unlink, WriteFrame, Publish, Count,
         WriteManifest
<1>2. \E t \in Tasks : Becomes(s, t)
  <2>1. CASE Cancelled(s)
    BY <2>1, GotoType DEF Cancelled, Exit, TaskSteps
  <2>2. CASE Abort(s)
    BY <2>2, NewTaskType DEF Abort, End
  <2>3. CASE Capture(s)
    BY <2>3, GotoType, StreamAssumption DEF Capture, Exit, TaskSteps
  <2>4. CASE Evict(s)
    BY <1>1, <2>4, EvictType, GotoType DEF Evict, TaskSteps
  <2>5. CASE Unlink(s)
    <3>1. task[s].old \in FrameRecs
      BY <2>5 DEF WindowInv, WindowGood, Counted, Unlink, At
    <3> QED BY <1>1, <2>5, <3>1, UnlinkType DEF Unlink
  <2>6. CASE WriteFrame(s)
    BY <1>1, <2>6, WrittenType, GotoType DEF WriteFrame, Written, Exit, TaskSteps
  <2>7. CASE Publish(s)
    BY <2>7, GotoType DEF Publish, Goto, TaskSteps
  <2>8. CASE Count(s)
    BY <2>8, GotoType DEF Count, Goto, TaskSteps
  <2>9. CASE WriteManifest(s)
    BY <2>9, NewTaskType DEF WriteManifest, End
  <2> QED BY <2>1, <2>2, <2>3, <2>4, <2>5, <2>6, <2>7, <2>8, <2>9 DEF Run
<1>3. task' \in [Streams -> Tasks]
  BY <1>2, TaskMoves
<1>4. /\ task[s].seq \in Nat /\ Listed(s) \in SUBSET Nat
      /\ At(s, "unlink") => task[s].old.n \in Nat
  <2>1. task[s].frames \in Seq(FrameRecs) /\ task[s].seq \in Nat
    BY <1>1 DEF Tasks
  <2>2. Listed(s) \in SUBSET Nat
    BY <2>1, NumbersOf DEF Listed
  <2>3. At(s, "unlink") => task[s].old \in FrameRecs
    BY DEF WindowInv, WindowGood, Counted, At
  <2> QED BY <2>1, <2>2, <2>3 DEF FrameRecs
<1>5. /\ files' \in [Streams -> SUBSET Nat] /\ orphans' \in [Streams -> SUBSET Nat]
      /\ manifest' \in [Streams -> (SUBSET Nat) \cup {None}]
  <2>1. CASE UNCHANGED <<files, manifest, orphans>>
    BY <2>1 DEF TypeOK
  <2>2. CASE Abort(s)
    <3>1. \E m \in Nat : \/ UNCHANGED files
                        \/ files' = [files EXCEPT ![s] = @ \ {m}]
                        \/ files' = [files EXCEPT ![s] = @ \cup {m}]
      BY <1>4, <2>2 DEF Abort
    <3>2. files' \in [Streams -> SUBSET Nat]
      BY <3>1 DEF TypeOK
    <3>3. \E l \in SUBSET Nat : UNCHANGED manifest \/ manifest' = [manifest EXCEPT ![s] = l]
      BY <1>4, <2>2 DEF Abort
    <3>4. manifest' \in [Streams -> (SUBSET Nat) \cup {None}]
      BY <3>3 DEF TypeOK
    <3>5. UNCHANGED orphans
      BY <2>2 DEF Abort
    <3> QED BY <3>2, <3>4, <3>5 DEF TypeOK
  <2>3. CASE Unlink(s)
    <3>1. task[s].old.n \in Nat /\ UNCHANGED manifest
      BY <1>4, <2>3 DEF Unlink
    <3>2. \/ files' = [files EXCEPT ![s] = @ \ {task[s].old.n}] /\ UNCHANGED orphans
          \/ orphans' = [orphans EXCEPT ![s] = @ \cup {task[s].old.n}] /\ UNCHANGED files
      BY <2>3 DEF Unlink
    <3>3. files[s] \ {task[s].old.n} \in SUBSET Nat
      BY DEF TypeOK
    <3>4. orphans[s] \cup {task[s].old.n} \in SUBSET Nat
      BY <3>1 DEF TypeOK
    <3>5. files' \in [Streams -> SUBSET Nat]
      BY <3>2, <3>3, PutType DEF TypeOK
    <3>6. orphans' \in [Streams -> SUBSET Nat]
      BY <3>2, <3>4, PutType DEF TypeOK
    <3> QED BY <3>1, <3>5, <3>6 DEF TypeOK
  <2>4. CASE WriteFrame(s)
    <3>1. \E f \in SUBSET {task[s].seq} : files' = [files EXCEPT ![s] = @ \cup f]
      BY <2>4 DEF WriteFrame
    <3>2. files' \in [Streams -> SUBSET Nat]
      BY <1>4, <3>1 DEF TypeOK
    <3> QED BY <2>4, <3>2 DEF WriteFrame, TypeOK
  <2>5. CASE WriteManifest(s)
    BY <1>4, <2>5 DEF WriteManifest, TypeOK
  <2> QED BY <2>1, <2>2, <2>3, <2>4, <2>5 DEF Run, Cancelled, Capture, Evict, Publish, Count
<1>6. stats' \in [Streams -> [latest: Nat \cup {None}, written: Nat]]
  <2>1. CASE UNCHANGED stats
    BY <2>1 DEF TypeOK
  <2>2. CASE Publish(s)
    <3>1. [stats[s] EXCEPT !.latest = task[s].seq] \in [latest: Nat \cup {None}, written: Nat]
      BY <1>4 DEF TypeOK
    <3>2. stats' = [stats EXCEPT ![s] = [stats[s] EXCEPT !.latest = task[s].seq]]
      BY <2>2 DEF Publish
    <3> QED BY <3>1, <3>2, PutType DEF TypeOK
  <2>3. CASE Count(s)
    <3>1. [stats[s] EXCEPT !.written = task[s].seq] \in [latest: Nat \cup {None}, written: Nat]
      BY <1>4 DEF TypeOK
    <3>2. stats' = [stats EXCEPT ![s] = [stats[s] EXCEPT !.written = task[s].seq]]
      BY <2>3 DEF Count
    <3> QED BY <3>1, <3>2, PutType DEF TypeOK
  <2> QED BY <2>1, <2>2, <2>3 DEF Run, Cancelled, Abort, Capture, Evict, Unlink, WriteFrame,
                                  WriteManifest
<1>7. Minters' = Minters /\ UNCHANGED <<reg, minted, cancel, aborted, req, accepted>>
  BY <1>1 DEF requestVars, Minters, Reading
<1> QED BY <1>3, <1>5, <1>6, <1>7 DEF TypeOK

\* Only the client that is served moves on.
LEMMA RequestMoves ==
  ASSUME TypeOK, NEW c \in Clients, NEW r \in Requests, RequestOK(r), Now(c, r)
  PROVE  /\ req' \in [Clients -> Requests] /\ \A k \in Clients : RequestOK(req'[k])
         /\ req'[c] = r /\ \A k \in Clients \ {c} : req'[k] = req[k]
BY DEF TypeOK, Now

\* An answer that names the request keeps what it was about.
LEMMA ReplyType ==
  ASSUME TypeOK, NEW c \in Clients, NEW answer \in Answers,
         answer = "frame" => req[c].n \in Nat,
         Reply(c, answer)
  PROVE  \E r \in Requests : /\ RequestOK(r) /\ Now(c, r) /\ r.pc = "replied" /\ r.out = answer
                             /\ answer \in {"frame", "occupied"} =>
                                  /\ r.sid = req[c].sid /\ r.n = req[c].n
                                  /\ r.since = req[c].since /\ r.floor = req[c].floor
<1> DEFINE kept == IF answer \in {"frame", "occupied"} THEN req[c] ELSE Idle
           r == [kept EXCEPT !.pc = "replied", !.out = answer]
<1>1. kept \in Requests /\ (answer \in {"frame", "occupied"} => kept = req[c])
  BY DEF TypeOK, Idle, Requests, Steps
<1> HIDE DEF kept
<1>2. /\ r \in Requests /\ r.pc = "replied" /\ r.out = answer /\ r.sid = kept.sid
      /\ r.n = kept.n /\ r.since = kept.since /\ r.floor = kept.floor
  BY <1>1 DEF Requests, Steps
<1>3. RequestOK(r)
  BY <1>1, <1>2 DEF RequestOK, Aimed
<1>4. Now(c, r)
  BY DEF Reply, kept
<1> QED BY <1>1, <1>2, <1>3, <1>4

\* The room that is set aside for the starts under way.
LEMMA MintersFinite == IsFiniteSet(Minters) /\ Cardinality(Minters) \in Nat
BY StreamAssumption, FS_Subset, FS_CardinalityType DEF Minters

\* One that does not mint takes none of it.
LEMMA MintersSame ==
  ASSUME TypeOK, NEW c \in Clients, NEW r \in Requests, RequestOK(r), Now(c, r),
         req[c].pc # "mint", r.pc # "mint"
  PROVE  Minters' = Minters
BY RequestMoves DEF Minters, Reading

\* A start takes one id's room.
LEMMA MintersMore ==
  ASSUME TypeOK, NEW c \in Clients, NEW r \in Requests, RequestOK(r), Now(c, r),
         req[c].pc # "mint", r.pc = "mint"
  PROVE  Cardinality(Minters') = Cardinality(Minters) + 1
<1>1. Minters' = Minters \cup {c} /\ c \notin Minters
  BY RequestMoves DEF Minters, Reading
<1> QED BY <1>1, MintersFinite, FS_AddElement

\* Minting gives it back.
LEMMA MintersLess ==
  ASSUME TypeOK, NEW c \in Clients, NEW r \in Requests, RequestOK(r), Now(c, r),
         req[c].pc = "mint", r.pc # "mint"
  PROVE  Cardinality(Minters') = Cardinality(Minters) - 1
<1>1. Minters' = Minters \ {c} /\ c \in Minters
  BY RequestMoves DEF Minters, Reading
<1> QED BY <1>1, MintersFinite, FS_RemoveElement

\* A request goes to its next step, about the stream it was about or another.
LEMMA StepType ==
  ASSUME TypeOK, NEW c \in Clients, req[c].pc # "replied",
         NEW step \in Steps \ {"idle", "replied"},
         step \in {"read", "again", "reread"} => req[c].n \in Nat,
         step \in Aimed => req[c].sid \in Streams,
         NEW r, r = [req[c] EXCEPT !.pc = step]
  PROVE  r \in Requests /\ RequestOK(r) /\ r.pc = step
<1>1. req[c] \in Requests /\ req[c].out = None
  BY DEF TypeOK, RequestOK
<1>2. "frame" # None
  BY StreamAssumption DEF Answers
<1> QED BY <1>1, <1>2 DEF Requests, RequestOK

\* Or it takes up a stream.
AimedAt(c, step, s) == [req[c] EXCEPT !.pc = step, !.sid = s]

\* It is then about that one.
LEMMA AimType ==
  ASSUME TypeOK, NEW c \in Clients, req[c].pc # "replied",
         NEW step \in {"insert", "join"}, NEW s \in Streams
  PROVE  /\ AimedAt(c, step, s) \in Requests /\ RequestOK(AimedAt(c, step, s))
         /\ AimedAt(c, step, s).pc = step /\ AimedAt(c, step, s).sid = s
         /\ AimedAt(c, step, s).out = None
<1>1. req[c] \in Requests /\ req[c].out = None
  BY DEF TypeOK, RequestOK
<1>2. "frame" # None
  BY StreamAssumption DEF Answers
<1> QED BY <1>1, <1>2 DEF Requests, RequestOK, Steps, Aimed, AimedAt

\* A query is a request.
LEMMA QueryType ==
  ASSUME TypeOK, NEW step \in {"poll", "read", "reread"}, NEW s \in Streams \cup {None},
         NEW n \in Nat \cup {None}, NEW since \in Nat \cup {None}, NEW floor \in Nat,
         step # "poll" => s \in Streams /\ n \in Nat
  PROVE  /\ Query(step, s, n, since, floor) \in Requests
         /\ RequestOK(Query(step, s, n, since, floor))
         /\ Query(step, s, n, since, floor).pc = step
<1>1. "frame" # None
  BY StreamAssumption DEF Answers
<1> QED BY <1>1 DEF Requests, RequestOK, Steps, Aimed, Query

\* What is minted fits, so the accepted streams are streams.
LEMMA IdsFit ==
  ASSUME TypeOK
  PROVE  /\ minted \in 0..MaxStreams /\ accepted \subseteq Streams
         /\ reg # None => reg \in Streams /\ reg \in accepted
<1>1. minted \in Nat /\ MaxStreams \in Nat /\ Cardinality(Minters) \in Nat
  BY MintersFinite, NoneApart DEF TypeOK
<1>2. minted <= MaxStreams
  BY <1>1 DEF TypeOK
<1>3. minted \in 0..MaxStreams
  BY <1>1, <1>2
<1>4. 1..minted \subseteq 1..MaxStreams
  BY <1>1, <1>2
<1>5. accepted \subseteq Streams
  BY <1>4 DEF TypeOK, Streams
<1> QED BY <1>3, <1>5 DEF TypeOK

\* A start that goes ahead finds its id.
LEMMA MintFits ==
  ASSUME TypeOK, NEW c \in Clients, req[c].pc = "mint"
  PROVE  minted + 1 \in Streams /\ Cardinality(Minters) >= 1
<1>1. c \in Minters
  BY DEF Minters, Reading
<1>2. Minters # {}
  BY <1>1
<1>3. Cardinality(Minters) >= 1
  BY <1>2, MintersFinite, FS_EmptySet
<1> QED BY <1>3, MintersFinite, NoneApart DEF TypeOK, Streams

\* Serving a request leaves every type as it is.
LEMMA ServeType ==
  ASSUME TypeOK, NEW c \in Clients, Serve(c)
  PROVE  TypeOK'
<1> DEFINE Moves(r) == r \in Requests /\ RequestOK(r) /\ Now(c, r)
           Others == /\ reg' \in accepted' \cup {None}
                     /\ accepted' \subseteq Streams /\ cancel' \subseteq Streams
                     /\ aborted' \subseteq Streams
                     /\ task' \in [Streams -> Tasks] /\ UNCHANGED stats
                     /\ files' \in [Streams -> SUBSET Nat] /\ orphans' \in [Streams -> SUBSET Nat]
                     /\ manifest' \in [Streams -> (SUBSET Nat) \cup {None}]
<1>1. CASE \E r : Moves(r) /\ r.pc # "mint" /\ req[c].pc # "mint" /\ UNCHANGED minted /\ Others
  <2>1. PICK r \in Requests : RequestOK(r) /\ Now(c, r) /\ r.pc # "mint"
    BY <1>1
  <2>2. Minters' = Minters
    BY <1>1, <2>1, MintersSame
  <2>3. req' \in [Clients -> Requests] /\ \A k \in Clients : RequestOK(req'[k])
    BY <2>1, RequestMoves
  <2> QED BY <1>1, <2>2, <2>3 DEF TypeOK
<1>2. ASSUME NEW answer \in Answers, answer = "frame" => req[c].n \in Nat, Reply(c, answer)
      PROVE  \E r : Moves(r) /\ r.pc # "mint"
  BY <1>2, ReplyType
<1>3. /\ minted \in 0..MaxStreams /\ accepted \subseteq Streams
      /\ reg # None => reg \in Streams
  BY IdsFit
<1>4. UNCHANGED <<reg, minted, taskVars, cancel, aborted, accepted>> => Others
  BY DEF TypeOK, taskVars
<1>5. ASSUME UNCHANGED <<reg, minted, taskVars, cancel, aborted, accepted>>,
             req[c].pc # "mint", \E r : Moves(r) /\ r.pc # "mint"
      PROVE  TypeOK'
  BY <1>1, <1>4, <1>5
<1>6. CASE Start(c)
  <2>1. CASE Reply(c, "occupied")
    BY <1>2, <1>5, <1>6, <2>1 DEF Start, Reading, Answers
  <2>2. CASE IdsSuffice /\ Now(c, [req[c] EXCEPT !.pc = "mint"])
    <3> DEFINE r == [req[c] EXCEPT !.pc = "mint"]
    <3>1. Moves(r) /\ r.pc = "mint" /\ req[c].pc = "idle"
      <4>1. "mint" \in Steps \ {"idle", "replied"} /\ "mint" \notin Aimed
        BY DEF Steps, Aimed
      <4>2. req[c].pc = "idle"
        BY <1>6 DEF Start, Reading
      <4> HIDE DEF r
      <4>3. r \in Requests /\ RequestOK(r) /\ r.pc = "mint"
        BY <4>1, <4>2, StepType DEF r, Aimed
      <4> QED BY <2>2, <4>2, <4>3 DEF r
    <3> HIDE DEF r
    <3>2. Cardinality(Minters') = Cardinality(Minters) + 1
      BY <3>1, MintersMore
    <3>3. UNCHANGED minted /\ Others
      BY <1>4, <1>6 DEF Start
    <3>4. req' \in [Clients -> Requests] /\ \A k \in Clients : RequestOK(req'[k])
      BY <3>1, RequestMoves
    <3>5. minted' + Cardinality(Minters') <= MaxStreams
      BY <2>2, <3>2, <3>3, MintersFinite, NoneApart DEF IdsSuffice, Minters, TypeOK
    <3> QED BY <3>3, <3>4, <3>5 DEF TypeOK
  <2> QED BY <1>6, <2>1, <2>2 DEF Start
<1>7. CASE Mint(c)
  <2> DEFINE r == AimedAt(c, "insert", minted + 1)
  <2>1. req[c].pc = "mint" /\ minted' = minted + 1
    BY <1>7 DEF Mint, Reading
  <2>2. minted + 1 \in Streams /\ Cardinality(Minters) >= 1
    BY <2>1, MintFits
  <2>3. Moves(r) /\ r.pc = "insert"
    <3>1. Now(c, r)
      BY <1>7, <2>1 DEF Mint, AimedAt
    <3>2. r \in Requests /\ RequestOK(r) /\ r.pc = "insert"
      BY <2>1, <2>2, AimType
    <3> QED BY <3>1, <3>2
  <2> HIDE DEF r
  <2>4. Cardinality(Minters') = Cardinality(Minters) - 1
    BY <2>1, <2>3, MintersLess
  <2>5. task' \in [Streams -> Tasks]
    BY <1>7, <2>1, <2>2, GotoType, TaskMoves DEF Mint, Goto, TaskSteps, TypeOK, Becomes
  <2>6. Others
    BY <1>3, <1>7, <2>1, <2>5 DEF Mint, TypeOK
  <2>7. req' \in [Clients -> Requests] /\ \A k \in Clients : RequestOK(req'[k])
    BY <2>3, RequestMoves
  <2>8. minted' \in Nat /\ minted' + Cardinality(Minters') <= MaxStreams
    BY <2>1, <2>4, MintersFinite, NoneApart DEF TypeOK
  <2> QED BY <2>6, <2>7, <2>8 DEF TypeOK
<1>8. CASE Insert(c)
  <2> DEFINE s == req[c].sid
  <2>1. s \in Streams /\ req[c].pc = "insert"
    BY <1>8 DEF Insert, Reading, TypeOK, RequestOK, Aimed
  <2>2. CASE ~Occupied /\ reg' = s /\ accepted' = accepted \cup {s} /\ Reply(c, "ok")
             /\ UNCHANGED <<cancel, aborted>>
    <3>1. UNCHANGED minted /\ Others
      BY <1>3, <1>8, <2>1, <2>2 DEF Insert, TypeOK, taskVars
    <3>2. \E r : Moves(r) /\ r.pc # "mint"
      BY <1>2, <2>2 DEF Answers
    <3> QED BY <1>1, <2>1, <3>1, <3>2
  <2>3. CASE cancel' = cancel \cup {s} /\ aborted' = aborted \cup {s}
             /\ Now(c, [req[c] EXCEPT !.pc = "await"]) /\ UNCHANGED <<reg, accepted>>
    <3>1. UNCHANGED minted /\ Others
      BY <1>3, <1>8, <2>1, <2>3 DEF Insert, TypeOK, taskVars
    <3>2. "await" \in Steps \ {"idle", "replied"}
      BY DEF Steps, Aimed
    <3>3. \E r : Moves(r) /\ r.pc # "mint"
      BY <2>1, <2>3, <3>2, StepType
    <3> QED BY <1>1, <2>1, <3>1, <3>3
  <2> QED BY <1>8, <2>2, <2>3 DEF Insert
<1>9. CASE RemoveDir(c)
  <2>1. req[c].pc = "await" /\ Reply(c, "occupied")
    BY <1>9 DEF RemoveDir, Reading
  <2>2. /\ files' \in [Streams -> SUBSET Nat] /\ orphans' \in [Streams -> SUBSET Nat]
        /\ manifest' \in [Streams -> (SUBSET Nat) \cup {None}]
    <3> DEFINE s == req[c].sid
    <3>1. \/ /\ files' = [files EXCEPT ![s] = {}] /\ manifest' = [manifest EXCEPT ![s] = None]
             /\ UNCHANGED orphans
          \/ orphans' = [orphans EXCEPT ![s] = @ \cup {0}] /\ UNCHANGED <<files, manifest>>
      BY <1>9 DEF RemoveDir
    <3> HIDE DEF s
    <3>2. files' \in [Streams -> SUBSET Nat]
      BY <3>1, PutType DEF TypeOK
    <3>3. orphans' \in [Streams -> SUBSET Nat]
      <4>1. CASE s \in Streams
        <5>1. orphans[s] \cup {0} \in SUBSET Nat
          BY <4>1 DEF TypeOK
        <5>2. UNCHANGED orphans \/ orphans' = [orphans EXCEPT ![s] = orphans[s] \cup {0}]
          BY <3>1
        <5>3. orphans \in [Streams -> SUBSET Nat]
          BY DEF TypeOK
        <5>4. [orphans EXCEPT ![s] = orphans[s] \cup {0}] \in [Streams -> SUBSET Nat]
          BY <5>1, <5>3, PutType
        <5> QED BY <5>2, <5>3, <5>4
      <4>2. CASE s \notin Streams
        BY <3>1, <4>2 DEF TypeOK
      <4> QED BY <4>1, <4>2
    <3>4. manifest' \in [Streams -> (SUBSET Nat) \cup {None}]
      BY <3>1, PutType DEF TypeOK
    <3> QED BY <3>2, <3>3, <3>4
  <2>3. UNCHANGED minted /\ Others
    BY <1>3, <1>9, <2>2 DEF RemoveDir, TypeOK
  <2>4. \E r : Moves(r) /\ r.pc # "mint"
    BY <1>2, <2>1 DEF Answers
  <2> QED BY <1>1, <2>1, <2>3, <2>4
<1>10. CASE Stop(c)
  <2>1. req[c].pc = "idle"
    BY <1>10 DEF Stop, Reading
  <2>2. CASE reg = None /\ Reply(c, "none") /\ UNCHANGED <<reg, cancel>>
    <3>1. \E r : Moves(r) /\ r.pc # "mint"
      BY <1>2, <2>2 DEF Answers
    <3> QED BY <1>5, <1>10, <2>1, <2>2, <3>1 DEF Stop
  <2>3. CASE reg # None /\ reg' = None /\ cancel' = cancel \cup {reg}
             /\ Now(c, [req[c] EXCEPT !.pc = "join", !.sid = reg])
    <3>1. UNCHANGED minted /\ Others
      BY <1>3, <1>10, <2>3 DEF Stop, TypeOK, taskVars
    <3>2. \E r : Moves(r) /\ r.pc # "mint"
      BY <1>3, <2>1, <2>3, AimType DEF AimedAt
    <3> QED BY <1>1, <2>1, <3>1, <3>2
  <2> QED BY <1>10, <2>2, <2>3 DEF Stop
<1>11. CASE Join(c)
  <2>1. \E r : Moves(r) /\ r.pc # "mint"
    BY <1>2, <1>11 DEF Join, Answers
  <2> QED BY <1>5, <1>11, <2>1 DEF Join, Reading
<1>12. CASE Watchdog(c)
  <2>1. req[c].pc = "join" /\ req[c].sid \in Streams /\ "reap" \in Steps \ {"idle", "replied"}
    BY <1>12 DEF Watchdog, Reading, TypeOK, RequestOK, Aimed, Steps
  <2>2. UNCHANGED minted /\ Others
    BY <1>12, <2>1 DEF Watchdog, TypeOK, taskVars
  <2>3. \E r : Moves(r) /\ r.pc # "mint"
    BY <1>12, <2>1, StepType DEF Watchdog
  <2> QED BY <1>1, <2>1, <2>2, <2>3
<1>13. CASE Reap(c)
  <2>1. \E r : Moves(r) /\ r.pc # "mint"
    BY <1>2, <1>13 DEF Reap, Answers
  <2> QED BY <1>5, <1>13, <2>1 DEF Reap, Reading
<1>14. CASE Latest(c)
  <2>1. Newest(reg) \in Nat /\ reg \in Streams \cup {None}
    BY <1>3 DEF Newest, TypeOK
  <2>2. PICK w \in Nat \cup {None} : Now(c, Query("poll", reg, None, w, Newest(reg)))
    BY <1>14, StreamAssumption DEF Latest
  <2>3. \E r : Moves(r) /\ r.pc # "mint"
    BY <2>1, <2>2, QueryType
  <2> QED BY <1>5, <1>14, <2>3 DEF Latest, Reading
<1>15. CASE Poll(c)
  <2>1. req[c] \in Requests
    BY DEF TypeOK
  <2>2. CASE Reply(c, "none") \/ Reply(c, "nothing")
    BY <1>2, <1>5, <1>15, <2>2 DEF Poll, Reading, Answers
  <2>3. CASE /\ reg # None /\ FreshEnough(c)
             /\ Now(c, Query("read", reg, stats[reg].latest, req[c].since,
                             Same(c, req[c].floor, 0)))
    <3>1. stats[reg].latest \in Nat /\ reg \in Streams
      BY <1>3, <2>3 DEF FreshEnough, TypeOK
    <3>2. req[c].since \in Nat \cup {None} /\ Same(c, req[c].floor, 0) \in Nat
      BY <2>1 DEF Same, Requests
    <3>3. \E r : Moves(r) /\ r.pc # "mint"
      BY <2>3, <3>1, <3>2, QueryType
    <3> QED BY <1>5, <1>15, <3>3 DEF Poll, Reading
  <2> QED BY <1>15, <2>2, <2>3 DEF Poll
<1>16. CASE ReadFrame(c)
  <2>1. req[c].pc = "read" /\ req[c].n \in Nat /\ req[c].sid \in Streams
    BY <1>16 DEF ReadFrame, Reading, TypeOK, RequestOK, Aimed
  <2>2. "again" \in Steps \ {"idle", "replied"}
    BY DEF Steps, Aimed
  <2>3. \E r : Moves(r) /\ r.pc # "mint"
    BY <1>2, <1>16, <2>1, <2>2, StepType DEF ReadFrame, Answers
  <2> QED BY <1>5, <1>16, <2>1, <2>3 DEF ReadFrame
<1>17. CASE Resnapshot(c)
  <2>1. req[c] \in Requests /\ req[c].pc = "again"
    BY <1>17 DEF TypeOK, Resnapshot, Reading
  <2>2. CASE Reply(c, "error")
    BY <1>2, <1>5, <1>17, <2>1, <2>2 DEF Resnapshot, Answers
  <2>3. CASE /\ reg # None /\ stats[reg].latest # None
             /\ Now(c, Query("reread", reg, stats[reg].latest, Same(c, req[c].since, None),
                             Same(c, req[c].floor, 0)))
    <3>1. stats[reg].latest \in Nat /\ reg \in Streams
      BY <1>3, <2>3 DEF TypeOK
    <3>2. Same(c, req[c].since, None) \in Nat \cup {None} /\ Same(c, req[c].floor, 0) \in Nat
      BY <2>1 DEF Same, Requests
    <3>3. \E r : Moves(r) /\ r.pc # "mint"
      BY <2>3, <3>1, <3>2, QueryType
    <3> QED BY <1>5, <1>17, <2>1, <3>3 DEF Resnapshot
  <2> QED BY <1>17, <2>2, <2>3 DEF Resnapshot
<1>18. CASE Reread(c)
  <2>1. req[c].pc = "reread" /\ req[c].n \in Nat
    BY <1>18 DEF Reread, Reading, TypeOK, RequestOK
  <2>2. \E r : Moves(r) /\ r.pc # "mint"
    BY <1>2, <1>18, <2>1 DEF Reread, Answers
  <2> QED BY <1>5, <1>18, <2>1, <2>2 DEF Reread
<1>19. CASE Return(c)
  <2>1. Idle \in Requests /\ RequestOK(Idle) /\ Idle.pc = "idle"
    <3>1. "frame" # None
      BY StreamAssumption DEF Answers
    <3> QED BY <3>1 DEF Idle, Requests, RequestOK, Steps, Aimed
  <2> QED BY <1>5, <1>19, <2>1 DEF Return, Reading
<1> QED BY <1>6, <1>7, <1>8, <1>9, <1>10, <1>11, <1>12, <1>13, <1>14, <1>15, <1>16, <1>17,
           <1>18, <1>19 DEF Serve

-----------------------------------------------------------------------------
(* The rolling window *)

\* As many numbers as frames at most.
LEMMA NumbersCounted ==
  ASSUME NEW window \in Seq(FrameRecs)
  PROVE  /\ IsFiniteSet(Numbers(window)) /\ Cardinality(Numbers(window)) <= Len(window)
         /\ Cardinality(Numbers(window)) \in Nat /\ Len(window) \in Nat
<1> DEFINE n == Len(window)
           g == [i \in 1..n |-> window[i].n]
<1>1. n \in Nat
  OBVIOUS
<1>2. Numbers(window) = {window[i].n : i \in 1..n}
  BY NumbersOf
<1>3. g \in Surjection(1..n, Numbers(window))
  BY <1>2 DEF Surjection
<1>4. IsFiniteSet(1..n) /\ Cardinality(1..n) = n
  <2> HIDE DEF n
  <2>1. Cardinality(1..n) = (IF 1 > n THEN 0 ELSE n - 1 + 1) /\ IsFiniteSet(1..n)
    BY <1>1, FS_Interval
  <2> QED BY <1>1, <2>1
<1>5. IsFiniteSet(Numbers(window)) /\ Cardinality(Numbers(window)) <= Cardinality(1..n)
  BY <1>3, <1>4, FS_Surjection
<1> QED BY <1>1, <1>4, <1>5, FS_CardinalityType

\* An empty window has no numbers.
LEMMA NumbersEmpty == Numbers(<<>>) = {}
<1> DEFINE empty == <<>>
<1>1. empty \in Seq(FrameRecs) /\ Len(empty) = 0
  OBVIOUS
<1> HIDE DEF empty
<1>2. IsFiniteSet(Numbers(empty)) /\ Cardinality(Numbers(empty)) <= 0
      /\ Cardinality(Numbers(empty)) \in Nat
  BY <1>1, NumbersCounted
<1>3. Cardinality(Numbers(empty)) = 0
  BY <1>2
<1> QED BY <1>2, <1>3, FS_EmptySet DEF empty

\* A directory with the window and at most one file more, if there is room.
Roomy(window, g) ==
  \/ g \subseteq Numbers(window)
  \/ Len(window) < MaxFrames /\ OneMore(Numbers(window), g)

\* It holds no more than the cap.
LEMMA RoomyBounded ==
  ASSUME NEW window \in Seq(FrameRecs), Len(window) <= MaxFrames, NEW g, Roomy(window, g)
  PROVE  IsFiniteSet(g) /\ Cardinality(g) <= MaxFrames /\ OneMore(Numbers(window), g)
<1> DEFINE kept == Numbers(window)
           n == Len(window)
<1>1. /\ IsFiniteSet(kept) /\ Cardinality(kept) <= n /\ Cardinality(kept) \in Nat
      /\ n \in Nat /\ MaxFrames \in Nat
  BY NumbersCounted, StreamAssumption
<1>2. OneMore(kept, g)
  BY DEF Roomy, OneMore
<1> HIDE DEF kept, n
<1>3. CASE g \subseteq kept
  <2>1. IsFiniteSet(g) /\ Cardinality(g) <= Cardinality(kept)
    BY <1>1, <1>3, FS_Subset
  <2>2. Cardinality(g) \in Nat /\ n <= MaxFrames
    BY <2>1, FS_CardinalityType DEF n
  <2> QED BY <1>1, <1>2, <2>1, <2>2 DEF kept
<1>4. CASE ~(g \subseteq kept)
  <2>1. PICK x \in g : x \notin kept
    BY <1>4
  <2>2. g \subseteq kept \cup {x}
    BY <1>2, <2>1 DEF OneMore
  <2>3. IsFiniteSet(kept \cup {x}) /\ Cardinality(kept \cup {x}) = Cardinality(kept) + 1
    BY <1>1, <2>1, FS_AddElement
  <2>4. IsFiniteSet(g) /\ Cardinality(g) <= Cardinality(kept \cup {x})
    BY <2>2, <2>3, FS_Subset
  <2>5. Cardinality(g) \in Nat /\ n < MaxFrames
    BY <1>4, <2>4, FS_CardinalityType DEF n, Roomy, kept
  <2> QED BY <1>1, <1>2, <2>3, <2>4, <2>5 DEF kept
<1> QED BY <1>3, <1>4

\* Steps that leave the window alone.
LEMMA PassGood ==
  ASSUME NEW t, NEW f, NEW o, NEW m, WindowGood(t, f, o, m),
         t.pc \in {"wait", "evict", "publish", "count"},
         NEW u, u.frames = t.frames, u.buffered = t.buffered, u.seq = t.seq,
         u.pc \in {"wait", "evict", "publish", "count", "manifest"}
  PROVE  WindowGood(u, f, o, m)
<1>1. Counted(u) /\ Fits(u)
  BY DEF WindowGood, Counted, Fits
<1>2. Ordered(u)
  BY DEF WindowGood, Ordered
<1>3. OnDisk(u, f, o, m)
  BY DEF WindowGood, OnDisk
<1> QED BY <1>1, <1>2, <1>3 DEF WindowGood

\* The numbers of a window and of what is left without its oldest frame.
LEMMA TailNumbers ==
  ASSUME NEW window \in Seq(FrameRecs), window # <<>>
  PROVE  /\ Tail(window) \in Seq(FrameRecs) /\ Head(window) \in FrameRecs
         /\ Len(Tail(window)) = Len(window) - 1 /\ Len(window) \in Nat \ {0}
         /\ Head(window) = window[1]
         /\ \A i \in 1..(Len(window) - 1) : Tail(window)[i] = window[i + 1]
         /\ Numbers(window) = Numbers(Tail(window)) \cup {Head(window).n}
<1> DEFINE n == Len(window)
           rest == Tail(window)
<1>1. /\ n \in Nat \ {0} /\ rest \in Seq(FrameRecs) /\ Len(rest) = n - 1
      /\ Head(window) = window[1] /\ window[1] \in FrameRecs
      /\ \A k \in 1..(n - 1) : rest[k] = window[k + 1]
  <2>1. n \in Nat \ {0}
    BY EmptySeq
  <2> QED BY <2>1, HeadTailProperties
<1>2. /\ Numbers(window) = {window[i].n : i \in 1..n}
      /\ Numbers(rest) = {rest[i].n : i \in 1..(n - 1)}
  BY <1>1, NumbersOf
<1> HIDE DEF rest, n
<1>3. ASSUME NEW x \in Numbers(window) PROVE x \in Numbers(rest) \cup {window[1].n}
  <2>1. PICK i \in 1..n : x = window[i].n
    BY <1>2
  <2>2. CASE i = 1
    BY <2>1, <2>2
  <2>3. CASE i # 1
    <3>1. i - 1 \in 1..(n - 1) /\ (i - 1) + 1 = i
      BY <1>1, <2>3
    <3> QED BY <1>1, <1>2, <2>1, <3>1
  <2> QED BY <2>2, <2>3
<1>4. ASSUME NEW x \in Numbers(rest) PROVE x \in Numbers(window)
  <2>1. PICK i \in 1..(n - 1) : x = rest[i].n
    BY <1>2
  <2>2. i + 1 \in 1..n /\ x = window[i + 1].n
    BY <1>1, <2>1
  <2> QED BY <1>2, <2>2
<1>5. window[1].n \in Numbers(window)
  <2>1. 1 \in 1..n
    BY <1>1
  <2> QED BY <1>2, <2>1
<1> QED BY <1>1, <1>3, <1>4, <1>5 DEF rest, n

\* The oldest frame leaves the window; its file and its bytes are still there.
LEMMA EvictGood ==
  ASSUME NEW t \in Tasks, NEW f, NEW o, NEW m, WindowGood(t, f, o, m),
         t.pc = "evict", t.frames # <<>>,
         NEW u, u.pc = "unlink", u.frames = Tail(t.frames), u.old = Head(t.frames),
         u.buffered = t.buffered, u.seq = t.seq
  PROVE  WindowGood(u, f, o, m)
<1> DEFINE window == t.frames
           n == Len(window)
<1>1. window \in Seq(FrameRecs)
  BY DEF Tasks
<1>2. /\ u.frames \in Seq(FrameRecs) /\ u.old \in FrameRecs /\ Len(u.frames) = n - 1
      /\ n \in Nat \ {0} /\ u.old = window[1]
      /\ \A i \in 1..(n - 1) : u.frames[i] = window[i + 1]
      /\ Numbers(window) = Numbers(u.frames) \cup {u.old.n}
  BY <1>1, TailNumbers
<1>3. DOMAIN window = 1..n /\ DOMAIN u.frames = 1..(n - 1)
  BY <1>1, <1>2
<1>4. Counted(u)
  BY <1>1, <1>2, BytesTail DEF WindowGood, Counted
<1>5. Fits(u)
  BY <1>2, StreamAssumption DEF WindowGood, Fits
<1> HIDE DEF window, n
<1>6. Ordered(u)
  <2>1. \A i, j \in 1..n : i < j => window[i].n < window[j].n
    BY <1>3 DEF WindowGood, Ordered, window
  <2>2. \A i \in 1..n : window[i].n <= t.seq
    BY <1>3 DEF WindowGood, Ordered, window
  <2>3. ASSUME NEW i \in 1..(n - 1) PROVE u.frames[i].n <= u.seq /\ u.old.n < u.frames[i].n
    <3>1. i + 1 \in 1..n /\ 1 \in 1..n /\ 1 < i + 1
      BY <1>2
    <3> QED BY <1>2, <2>1, <2>2, <3>1
  <2>4. ASSUME NEW i \in 1..(n - 1), NEW j \in 1..(n - 1), i < j
        PROVE  u.frames[i].n < u.frames[j].n
    <3>1. i + 1 \in 1..n /\ j + 1 \in 1..n /\ i + 1 < j + 1
      BY <1>2, <2>4
    <3> QED BY <1>2, <2>1, <3>1
  <2> QED BY <1>3, <2>3, <2>4 DEF Ordered
<1>7. OnDisk(u, f, o, m)
  BY <1>2 DEF WindowGood, OnDisk, window
<1> QED BY <1>4, <1>5, <1>6, <1>7 DEF WindowGood

\* The evicted file goes or is an orphan; the counter forgets it.
LEMMA UnlinkGood ==
  ASSUME NEW t \in Tasks, NEW f, NEW o, NEW m, WindowGood(t, f, o, m), t.pc = "unlink",
         NEW f1, NEW o1,
         \/ f1 = f \ {t.old.n} /\ o1 = o
         \/ f1 = f /\ o1 = o \cup {t.old.n},
         NEW u, u.pc = "evict", u.frames = t.frames, u.seq = t.seq,
         u.buffered = Less(t.buffered, t.old.size)
  PROVE  WindowGood(u, f1, o1, m)
<1>1. t.frames \in Seq(FrameRecs) /\ t.old \in FrameRecs /\ Bytes(t.frames) \in Nat
  <2>1. t.frames \in Seq(FrameRecs) /\ t.old \in FrameRecs
    BY DEF Tasks, WindowGood, Counted
  <2> QED BY <2>1, BytesAppend
<1>2. u.buffered = Bytes(t.frames) /\ u.buffered <= t.buffered
  BY <1>1 DEF WindowGood, Counted, Less, FrameRecs
<1>3. Counted(u)
  BY <1>2 DEF Counted
<1>4. Fits(u)
  BY <1>1, <1>2, StreamAssumption DEF WindowGood, Fits, Tasks
<1>5. Ordered(u)
  BY DEF WindowGood, Ordered
<1>6. t.old.n \notin Numbers(t.frames)
  <2>1. \A i \in 1..Len(t.frames) : t.old.n < t.frames[i].n /\ t.frames[i] \in FrameRecs
    BY <1>1 DEF WindowGood, Ordered
  <2>2. \A i \in 1..Len(t.frames) : t.old.n # t.frames[i].n
    BY <1>1, <2>1 DEF FrameRecs
  <2> QED BY <1>1, <2>2, NumbersOf
<1>7. OnDisk(u, f1, o1, m)
  BY <1>6 DEF WindowGood, OnDisk
<1> QED BY <1>3, <1>4, <1>5, <1>7 DEF WindowGood

\* There is room for the frame that is about to be written.
LEMMA AdmitGood ==
  ASSUME NEW t \in Tasks, NEW f, NEW o, NEW m, WindowGood(t, f, o, m), t.pc = "evict",
         t.frames = <<>> \/ ~Full(t), t.size <= MaxBytes,
         NEW u, u.pc = "write", u.frames = t.frames, u.seq = t.seq + 1,
         u.buffered = t.buffered, u.size = t.size
  PROVE  WindowGood(u, f, o, m)
<1>1. /\ t.frames \in Seq(FrameRecs) /\ t.buffered \in Nat /\ t.size \in Nat /\ t.seq \in Nat
      /\ Len(t.frames) \in Nat /\ MaxFrames \in Nat \ {0} /\ MaxBytes \in Nat
  <2>1. t.frames \in Seq(FrameRecs)
    BY DEF Tasks
  <2>2. Len(t.frames) \in Nat
    BY <2>1
  <2> QED BY <2>1, <2>2, StreamAssumption DEF Tasks
<1>2. t.frames = <<>> => t.buffered = 0 /\ Len(t.frames) = 0
  BY BytesEmpty DEF WindowGood, Counted
<1>3. Counted(u)
  BY DEF WindowGood, Counted
<1>4. Len(t.frames) < MaxFrames /\ t.buffered + t.size <= MaxBytes
  BY <1>1, <1>2 DEF Full
<1>5. Fits(u)
  BY <1>1, <1>4 DEF WindowGood, Fits
<1>6. Ordered(u)
  <2>1. Ordered(t)
    BY DEF WindowGood
  <2>2. ASSUME NEW i \in DOMAIN t.frames
        PROVE  /\ t.frames[i].n <= t.seq /\ t.frames[i].n \in Nat
    <3>1. t.frames[i] \in FrameRecs
      BY <1>1
    <3>2. t.frames[i].n <= t.seq
      BY <2>1 DEF Ordered
    <3> QED BY <3>1, <3>2 DEF FrameRecs
  <2>3. ASSUME NEW i \in DOMAIN u.frames
        PROVE  u.frames[i].n <= u.seq /\ u.frames[i].n < u.seq
    BY <1>1, <2>2
  <2>4. \A i, j \in DOMAIN u.frames : i < j => u.frames[i].n < u.frames[j].n
    BY <2>1 DEF Ordered
  <2> QED BY <2>3, <2>4 DEF Ordered
<1>7. OnDisk(u, f, o, m)
  BY DEF WindowGood, OnDisk
<1> QED BY <1>3, <1>5, <1>6, <1>7 DEF WindowGood

\* The window of a frame more.
LEMMA AppendNumbers ==
  ASSUME NEW window \in Seq(FrameRecs), NEW x \in FrameRecs
  PROVE  /\ Append(window, x) \in Seq(FrameRecs)
         /\ Len(Append(window, x)) = Len(window) + 1 /\ Len(window) \in Nat
         /\ \A i \in 1..Len(window) : Append(window, x)[i] = window[i]
         /\ Append(window, x)[Len(window) + 1] = x
         /\ Numbers(Append(window, x)) = Numbers(window) \cup {x.n}
<1> DEFINE n == Len(window)
           more == Append(window, x)
<1>1. /\ n \in Nat /\ more \in Seq(FrameRecs) /\ Len(more) = n + 1 /\ more[n + 1] = x
      /\ \A k \in 1..n : more[k] = window[k]
  BY AppendProperties
<1>2. /\ Numbers(window) = {window[i].n : i \in 1..n}
      /\ Numbers(more) = {more[i].n : i \in 1..(n + 1)}
  BY <1>1, NumbersOf
<1> HIDE DEF more, n
<1>3. 1..(n + 1) = (1..n) \cup {n + 1}
  BY <1>1
<1>4. {more[i].n : i \in 1..(n + 1)} = {window[i].n : i \in 1..n} \cup {x.n}
  BY <1>1, <1>3
<1> QED BY <1>1, <1>2, <1>4 DEF more, n

\* The frame is on disk and in the window.
LEMMA WrittenGood ==
  ASSUME NEW t \in Tasks, NEW f, NEW o, NEW m, WindowGood(t, f, o, m), t.pc = "write"
  PROVE  WindowGood(Written(t), f \cup {t.seq}, o, m)
<1> DEFINE x == [n |-> t.seq, size |-> t.size]
           u == Written(t)
           n == Len(t.frames)
<1>1. /\ u \in Tasks /\ x \in FrameRecs /\ u.pc = "publish" /\ u.seq = t.seq
      /\ u.frames = Append(t.frames, x) /\ u.buffered = t.buffered + t.size
      /\ t.frames \in Seq(FrameRecs) /\ t.seq \in Nat /\ x.n = t.seq /\ x.size = t.size
  BY WrittenType DEF Tasks
<1> HIDE DEF x, u
<1>2. /\ Len(u.frames) = n + 1 /\ n \in Nat /\ u.frames[n + 1] = x
      /\ \A i \in 1..n : u.frames[i] = t.frames[i]
      /\ Numbers(u.frames) = Numbers(t.frames) \cup {t.seq}
  BY <1>1, AppendNumbers
<1>3. Counted(u)
  BY <1>1, BytesAppend DEF WindowGood, Counted
<1>4. Fits(u)
  BY <1>1, <1>2, StreamAssumption DEF WindowGood, Fits
<1>5. Ordered(u)
  <2>1. DOMAIN u.frames = 1..(n + 1) /\ DOMAIN t.frames = 1..n
    <3>1. u.frames \in Seq(FrameRecs)
      BY <1>1 DEF Tasks
    <3> QED BY <1>1, <1>2, <3>1
  <2>2. /\ \A i, j \in 1..n : i < j => t.frames[i].n < t.frames[j].n
        /\ \A i \in 1..n : t.frames[i].n < t.seq /\ t.frames[i].n <= t.seq
    BY <2>1 DEF WindowGood, Ordered
  <2> HIDE DEF n
  <2>3. ASSUME NEW i \in 1..(n + 1), NEW j \in 1..(n + 1), i < j
        PROVE  u.frames[i].n < u.frames[j].n
    <3>1. i \in 1..n
      BY <1>2, <2>3
    <3>2. CASE j = n + 1
      BY <1>1, <1>2, <2>2, <3>1, <3>2
    <3>3. CASE j # n + 1
      <4>1. j \in 1..n
        BY <1>2, <3>3
      <4> QED BY <1>2, <2>2, <2>3, <3>1, <4>1
    <3> QED BY <3>2, <3>3
  <2>4. ASSUME NEW i \in 1..(n + 1) PROVE u.frames[i].n <= u.seq
    <3>1. CASE i = n + 1
      BY <1>1, <1>2, <3>1
    <3>2. CASE i # n + 1
      <4>1. i \in 1..n
        BY <1>2, <3>2
      <4> QED BY <1>1, <1>2, <2>2, <4>1
    <3> QED BY <3>1, <3>2
  <2> QED BY <1>1, <2>1, <2>3, <2>4 DEF Ordered
<1>6. OnDisk(u, f \cup {t.seq}, o, m)
  BY <1>1, <1>2 DEF WindowGood, OnDisk
<1> QED BY <1>3, <1>4, <1>5, <1>6 DEF WindowGood, u

\* A write that failed may leave its file, for which there was room.
LEMMA FailedGood ==
  ASSUME NEW t \in Tasks, NEW f, NEW o, NEW m, WindowGood(t, f, o, m), t.pc = "write",
         NEW left \in SUBSET {t.seq},
         NEW u, u.pc = "manifest", u.frames = t.frames, u.seq = t.seq, u.buffered = t.buffered
  PROVE  WindowGood(u, f \cup left, o, m)
<1>1. Counted(u) /\ Fits(u)
  BY DEF WindowGood, Counted, Fits
<1>2. Ordered(u)
  BY DEF WindowGood, Ordered
<1>3. Len(u.frames) < MaxFrames /\ OneMore(Numbers(u.frames), (f \cup left) \ o)
  BY DEF WindowGood, Fits, OnDisk, OneMore
<1>4. OnDisk(u, f \cup left, o, m)
  BY <1>3 DEF WindowGood, OnDisk
<1> QED BY <1>1, <1>2, <1>4 DEF WindowGood

\* However a task ends, its directory is as full as the cap allows and its
\* manifest, if there is one, lists what is there but for one file at most.
LEMMA EndGood ==
  ASSUME NEW t \in Tasks, NEW f, NEW o, NEW m, WindowGood(t, f, o, m),
         t.pc \in {"wait", "unlink", "write", "manifest"}, NEW f1,
         \/ f1 = f
         \/ t.pc = "unlink" /\ f1 = f \ {t.old.n}
         \/ t.pc = "write" /\ f1 = f \cup {t.seq},
         NEW m1, m1 = m \/ m1 = Numbers(t.frames)
  PROVE  WindowGood([NewTask EXCEPT !.pc = "done"], f1, o, m1)
<1> DEFINE u == [NewTask EXCEPT !.pc = "done"]
           kept == Numbers(t.frames)
<1>1. u.pc = "done" /\ u.frames = <<>> /\ u.buffered = 0 /\ t.frames \in Seq(FrameRecs)
  BY DEF NewTask, Tasks
<1> HIDE DEF u
<1>2. Counted(u) /\ Fits(u) /\ Ordered(u)
  BY <1>1, BytesEmpty, StreamAssumption DEF Counted, Fits, Ordered
<1>3. Roomy(t.frames, f1 \ o)
  BY DEF WindowGood, OnDisk, Roomy, OneMore, Fits
<1>4. /\ IsFiniteSet(f1 \ o) /\ Cardinality(f1 \ o) <= MaxFrames /\ OneMore(kept, f1 \ o)
  BY <1>1, <1>3, RoomyBounded DEF WindowGood, Fits
<1>5. m1 # None => m1 = kept
  BY DEF WindowGood, OnDisk
<1>6. kept \subseteq f1
  <2>1. t.pc = "unlink" => t.old.n \notin kept
    <3>1. ASSUME t.pc = "unlink", NEW i \in 1..Len(t.frames) PROVE t.old.n # t.frames[i].n
      <4>1. t.frames[i] \in FrameRecs /\ t.old \in FrameRecs /\ t.old.n < t.frames[i].n
        BY <1>1, <3>1 DEF WindowGood, Ordered, Counted
      <4> QED BY <4>1 DEF FrameRecs
    <3> QED BY <1>1, <3>1, NumbersOf
  <2> QED BY <2>1 DEF WindowGood, OnDisk
<1>7. OnDisk(u, f1, o, m1)
  BY <1>1, <1>4, <1>5, <1>6 DEF OnDisk
<1> QED BY <1>2, <1>7 DEF WindowGood, u

\* Only the stream that moves changes its window.
LEMMA WindowMoves ==
  ASSUME TypeOK, WindowInv, NEW s \in Streams, NEW t, Becomes(s, t), UNCHANGED minted,
         task[s].pc # "unborn",
         \A k \in Streams \ {s} : /\ files'[k] = files[k] /\ orphans'[k] = orphans[k]
                                  /\ manifest'[k] = manifest[k],
         WindowGood(t, files'[s], orphans'[s], manifest'[s])
  PROVE  WindowInv'
<1>1. s <= minted
  BY DEF WindowInv, NewTask, TypeOK, Streams
<1>2. task'[s] = t /\ \A k \in Streams \ {s} : task'[k] = task[k]
  BY TaskMoves
<1>3. ~(s > minted)
  BY <1>1 DEF TypeOK, Streams
<1> QED BY <1>2, <1>3 DEF WindowInv

\* Every step of a task keeps its window.
LEMMA RunWindow ==
  ASSUME TypeOK, WindowInv, NEW s \in Streams, Run(s)
  PROVE  WindowInv'
<1> DEFINE t == task[s]
           Good(u) == WindowGood(u, files[s], orphans[s], manifest[s])
<1>1. t \in Tasks /\ Good(t) /\ UNCHANGED minted
  BY DEF TypeOK, WindowInv, Run, Cancelled, Abort, Capture, Evict, Unlink, WriteFrame,
         Publish, Count, WriteManifest, requestVars
<1>2. ASSUME NEW u, Becomes(s, u), Good(u), t.pc # "unborn",
             UNCHANGED <<files, manifest, orphans>>
      PROVE  WindowInv'
  BY <1>1, <1>2, WindowMoves
<1>3. ASSUME NEW u, Becomes(s, u), UNCHANGED <<files, manifest, orphans>>,
             t.pc \in {"wait", "evict", "publish", "count"},
             u.frames = t.frames, u.buffered = t.buffered, u.seq = t.seq,
             u.pc \in {"wait", "evict", "publish", "count", "manifest"}
      PROVE  WindowInv'
  BY <1>1, <1>2, <1>3, PassGood
<1>4. ASSUME NEW step, NEW z
      PROVE  /\ [t EXCEPT !.pc = step].pc = step
             /\ [t EXCEPT !.pc = step].frames = t.frames
             /\ [t EXCEPT !.pc = step].buffered = t.buffered
             /\ [t EXCEPT !.pc = step].seq = t.seq
             /\ [t EXCEPT !.pc = step, !.size = z].pc = step
             /\ [t EXCEPT !.pc = step, !.size = z].frames = t.frames
             /\ [t EXCEPT !.pc = step, !.size = z].buffered = t.buffered
             /\ [t EXCEPT !.pc = step, !.size = z].seq = t.seq
  BY <1>1 DEF Tasks
<1>5. ASSUME NEW step \in {"wait", "evict", "publish", "count", "manifest"}, NEW z,
             Becomes(s, [t EXCEPT !.pc = step, !.size = z]),
             t.pc \in {"wait", "evict", "publish", "count"},
             UNCHANGED <<files, manifest, orphans>>
      PROVE  WindowInv'
  <2> DEFINE u == [t EXCEPT !.pc = step, !.size = z]
  <2>1. u.pc = step /\ u.frames = t.frames /\ u.buffered = t.buffered /\ u.seq = t.seq
    BY <1>4
  <2>2. Becomes(s, u)
    BY <1>5
  <2> HIDE DEF u
  <2> QED BY <1>3, <1>5, <2>1, <2>2
<1>6. CASE Cancelled(s)
  <2>1. t.pc = "wait" /\ UNCHANGED <<files, manifest, orphans>>
        /\ Becomes(s, [t EXCEPT !.pc = "manifest", !.size = 0])
    BY <1>6 DEF Cancelled, Exit, At
  <2> QED BY <1>5, <2>1
<1>7. CASE Abort(s)
  <2>1. Becomes(s, [NewTask EXCEPT !.pc = "done"])
        /\ t.pc \in {"wait", "unlink", "write", "manifest"} /\ UNCHANGED orphans
    BY <1>7 DEF Abort, End
  <2>2. /\ \/ files'[s] = files[s]
           \/ t.pc = "unlink" /\ files'[s] = files[s] \ {t.old.n}
           \/ t.pc = "write" /\ files'[s] = files[s] \cup {t.seq}
        /\ \A k \in Streams \ {s} : files'[k] = files[k]
    BY <1>7 DEF Abort, At, TypeOK
  <2>3. /\ manifest'[s] = manifest[s] \/ manifest'[s] = Numbers(t.frames)
        /\ \A k \in Streams \ {s} : manifest'[k] = manifest[k]
    BY <1>7 DEF Abort, Listed, TypeOK
  <2>4. WindowGood([NewTask EXCEPT !.pc = "done"], files'[s], orphans'[s], manifest'[s])
    BY <1>1, <2>1, <2>2, <2>3, EndGood
  <2> QED BY <1>1, <2>1, <2>2, <2>3, <2>4, WindowMoves
<1>8. CASE Capture(s)
  <2>1. t.pc = "wait" /\ UNCHANGED <<files, manifest, orphans>>
    BY <1>8 DEF Capture, At
  <2>2. PICK step \in {"evict", "manifest"}, z \in Nat :
          Becomes(s, [t EXCEPT !.pc = step, !.size = z])
    BY <1>8, StreamAssumption DEF Capture, Exit
  <2> QED BY <1>5, <2>1, <2>2
<1>9. CASE Evict(s)
  <2>1. t.pc = "evict" /\ UNCHANGED <<files, manifest, orphans>>
    BY <1>9 DEF Evict, At
  <2>2. CASE t.frames # <<>> /\ Becomes(s, [t EXCEPT !.pc = "unlink", !.frames = Tail(t.frames),
                                                     !.old = Head(t.frames)])
    <3> DEFINE u == [t EXCEPT !.pc = "unlink", !.frames = Tail(t.frames), !.old = Head(t.frames)]
    <3>1. /\ u.pc = "unlink" /\ u.frames = Tail(t.frames) /\ u.old = Head(t.frames)
          /\ u.buffered = t.buffered /\ u.seq = t.seq
      BY <1>1 DEF Tasks
    <3> HIDE DEF u
    <3>2. Good(u)
      BY <1>1, <2>1, <2>2, <3>1, EvictGood
    <3> QED BY <1>2, <2>1, <2>2, <3>2 DEF u
  <2>3. CASE t.size > MaxBytes /\ Becomes(s, [t EXCEPT !.pc = "count", !.size = 0])
    BY <1>5, <2>1, <2>3
  <2>4. CASE /\ t.frames = <<>> \/ ~Full(t)
             /\ ~(t.size > MaxBytes) /\ Becomes(s, [t EXCEPT !.pc = "write", !.seq = t.seq + 1])
    <3> DEFINE u == [t EXCEPT !.pc = "write", !.seq = t.seq + 1]
    <3>1. /\ u.pc = "write" /\ u.frames = t.frames /\ u.seq = t.seq + 1
          /\ u.buffered = t.buffered /\ u.size = t.size /\ t.size \in Nat
      BY <1>1 DEF Tasks
    <3> HIDE DEF u
    <3>2. t.size <= MaxBytes
      BY <2>4, <3>1, StreamAssumption
    <3>3. Good(u)
      BY <1>1, <2>1, <2>4, <3>1, <3>2, AdmitGood
    <3> QED BY <1>2, <2>1, <2>4, <3>3 DEF u
  <2> QED BY <1>9, <2>2, <2>3, <2>4 DEF Evict
<1>10. CASE Unlink(s)
  <2> DEFINE u == [t EXCEPT !.pc = "evict", !.old = None,
                            !.buffered = Less(t.buffered, t.old.size)]
  <2>1. /\ u.pc = "evict" /\ u.frames = t.frames /\ u.seq = t.seq
        /\ u.buffered = Less(t.buffered, t.old.size)
    BY <1>1 DEF Tasks
  <2> HIDE DEF u
  <2>2. Becomes(s, u) /\ t.pc = "unlink" /\ UNCHANGED manifest
    BY <1>10 DEF Unlink, At, u
  <2>3. /\ \/ files'[s] = files[s] \ {t.old.n} /\ orphans'[s] = orphans[s]
           \/ files'[s] = files[s] /\ orphans'[s] = orphans[s] \cup {t.old.n}
        /\ \A k \in Streams \ {s} : files'[k] = files[k] /\ orphans'[k] = orphans[k]
    BY <1>10 DEF Unlink, TypeOK
  <2>4. WindowGood(u, files'[s], orphans'[s], manifest'[s])
    BY <1>1, <2>1, <2>2, <2>3, UnlinkGood
  <2> QED BY <1>1, <2>2, <2>3, <2>4, WindowMoves
<1>11. CASE WriteFrame(s)
  <2>1. t.pc = "write" /\ UNCHANGED <<manifest, orphans>>
    BY <1>11 DEF WriteFrame, At
  <2>2. CASE Becomes(s, Written(t)) /\ files' = [files EXCEPT ![s] = @ \cup {t.seq}]
    <3>1. files'[s] = files[s] \cup {t.seq} /\ \A k \in Streams \ {s} : files'[k] = files[k]
      BY <2>2 DEF TypeOK
    <3>2. WindowGood(Written(t), files'[s], orphans'[s], manifest'[s])
      BY <1>1, <2>1, <3>1, WrittenGood
    <3> QED BY <1>1, <2>1, <2>2, <3>1, <3>2, WindowMoves
  <2>3. CASE Exit(s) /\ \E left \in SUBSET {t.seq} : files' = [files EXCEPT ![s] = @ \cup left]
    <3>1. PICK left \in SUBSET {t.seq} : files' = [files EXCEPT ![s] = @ \cup left]
      BY <2>3
    <3>2. files'[s] = files[s] \cup left /\ \A k \in Streams \ {s} : files'[k] = files[k]
      BY <3>1 DEF TypeOK
    <3> DEFINE u == [t EXCEPT !.pc = "manifest", !.size = 0]
    <3>3. u.pc = "manifest" /\ u.frames = t.frames /\ u.buffered = t.buffered /\ u.seq = t.seq
      BY <1>4
    <3>4. Becomes(s, u)
      BY <2>3 DEF Exit
    <3> HIDE DEF u
    <3>5. WindowGood(u, files[s] \cup left, orphans[s], manifest[s])
      BY <1>1, <2>1, <3>3, FailedGood
    <3>6. WindowGood(u, files'[s], orphans'[s], manifest'[s])
      BY <2>1, <3>2, <3>5
    <3> QED BY <1>1, <2>1, <3>2, <3>4, <3>6, WindowMoves
  <2> QED BY <1>11, <2>2, <2>3 DEF WriteFrame, Written
<1>12. CASE Publish(s)
  BY <1>3, <1>4, <1>12 DEF Publish, Goto, At
<1>13. CASE Count(s)
  BY <1>3, <1>4, <1>13 DEF Count, Goto, At
<1>14. CASE WriteManifest(s)
  <2>1. Becomes(s, [NewTask EXCEPT !.pc = "done"]) /\ t.pc = "manifest"
        /\ UNCHANGED <<files, orphans>>
    BY <1>14 DEF WriteManifest, End, At
  <2>2. /\ manifest'[s] = manifest[s] \/ manifest'[s] = Numbers(t.frames)
        /\ \A k \in Streams \ {s} : manifest'[k] = manifest[k]
    BY <1>14 DEF WriteManifest, Listed, TypeOK
  <2>3. WindowGood([NewTask EXCEPT !.pc = "done"], files'[s], orphans'[s], manifest'[s])
    BY <1>1, <2>1, <2>2, EndGood
  <2> QED BY <1>1, <2>1, <2>2, <2>3, WindowMoves
<1> QED BY <1>6, <1>7, <1>8, <1>9, <1>10, <1>11, <1>12, <1>13, <1>14 DEF Run

\* Serving a request touches windows in two places only.
LEMMA ServeWindow ==
  ASSUME TypeOK, WindowInv, NEW c \in Clients, Serve(c)
  PROVE  WindowInv'
<1>1. CASE UNCHANGED taskVars /\ UNCHANGED minted
  BY <1>1 DEF WindowInv, taskVars
<1>2. CASE Mint(c)
  <2> DEFINE s == minted + 1
             u == [task[s] EXCEPT !.pc = "wait"]
  <2>1. minted' = s /\ Becomes(s, u) /\ UNCHANGED <<files, manifest, orphans>> /\ minted \in Nat
    BY <1>2 DEF Mint, Goto, Becomes, TypeOK
  <2>2. ASSUME s \in Streams PROVE WindowGood(u, files[s], orphans[s], manifest[s])
    <3>1. /\ task[s] = NewTask /\ NewTask \in Tasks
          /\ WindowGood(NewTask, files[s], orphans[s], manifest[s])
      BY <2>1, <2>2, NewTaskType DEF WindowInv
    <3>2. u.pc = "wait" /\ u.frames = <<>> /\ u.buffered = 0 /\ u.seq = 0
      BY <3>1 DEF NewTask
    <3>3. NewTask.pc = "unborn" /\ NewTask.frames = <<>>
      BY DEF NewTask
    <3> HIDE DEF u
    <3>4. Counted(u) /\ Fits(u) /\ Ordered(u)
      BY <3>2, BytesEmpty, StreamAssumption DEF Counted, Fits, Ordered
    <3>5. OnDisk(u, files[s], orphans[s], manifest[s])
      BY <3>1, <3>2, <3>3 DEF WindowGood, OnDisk
    <3> QED BY <3>4, <3>5 DEF WindowGood
  <2>3. /\ s \in Streams => task'[s] = u
        /\ \A k \in Streams : k # s => task'[k] = task[k]
    BY <2>1 DEF TypeOK, Becomes
  <2> HIDE DEF u
  <2>4. ASSUME NEW k \in Streams
        PROVE  /\ WindowGood(task'[k], files'[k], orphans'[k], manifest'[k])
               /\ k > minted' => task'[k] = NewTask
    <3>1. k > s => k # s /\ k > minted
      BY <2>1 DEF Streams
    <3> QED BY <2>1, <2>2, <2>3, <3>1 DEF WindowInv
  <2> QED BY <2>4 DEF WindowInv
<1>3. CASE RemoveDir(c)
  <2> DEFINE s == req[c].sid
  <2>1. s \in Streams /\ ~Alive(s) /\ UNCHANGED <<task, minted>>
    BY <1>3 DEF RemoveDir, Reading, TypeOK, RequestOK, Aimed
  <2>2. /\ \/ files'[s] = {} /\ manifest'[s] = None /\ orphans'[s] = orphans[s]
           \/ files'[s] = files[s] /\ manifest'[s] = manifest[s]
              /\ orphans'[s] = orphans[s] \cup {0}
        /\ \A k \in Streams \ {s} : /\ files'[k] = files[k] /\ orphans'[k] = orphans[k]
                                    /\ manifest'[k] = manifest[k]
    BY <1>3, <2>1 DEF RemoveDir, TypeOK
  <2>3. task[s] \in Tasks /\ WindowGood(task[s], files[s], orphans[s], manifest[s])
        /\ task[s].pc \in {"unborn", "done"}
    BY <2>1 DEF WindowInv, TypeOK, Alive
  <2>4. OnDisk(task[s], files'[s], orphans'[s], manifest'[s])
    <3>1. CASE files'[s] = {} /\ manifest'[s] = None
      <4>1. IsFiniteSet({}) /\ Cardinality({}) = 0 /\ MaxFrames \in Nat
        BY FS_EmptySet, StreamAssumption
      <4>2. task[s].pc = "unborn" => Numbers(task[s].frames) \subseteq {}
        BY <2>3, NumbersEmpty DEF WindowGood, Fits
      <4> QED BY <2>3, <3>1, <4>1, <4>2 DEF OnDisk
    <3>2. CASE files'[s] = files[s] /\ manifest'[s] = manifest[s]
               /\ orphans'[s] = orphans[s] \cup {0}
      <4>1. files'[s] \ orphans'[s] \subseteq files[s] \ orphans[s]
        BY <3>2
      <4>2. CASE task[s].pc = "unborn"
        BY <2>3, <3>2, <4>1, <4>2 DEF WindowGood, OnDisk
      <4>3. CASE task[s].pc = "done"
        <5>1. IsFiniteSet(files[s] \ orphans[s]) /\ Cardinality(files[s] \ orphans[s]) <= MaxFrames
              /\ MaxFrames \in Nat
          BY <2>3, <4>3, StreamAssumption DEF WindowGood, OnDisk
        <5>2. /\ IsFiniteSet(files'[s] \ orphans'[s])
              /\ Cardinality(files'[s] \ orphans'[s]) <= MaxFrames
          <6>1. /\ IsFiniteSet(files'[s] \ orphans'[s])
                /\ Cardinality(files'[s] \ orphans'[s]) <= Cardinality(files[s] \ orphans[s])
            BY <4>1, <5>1, FS_Subset
          <6>2. Cardinality(files'[s] \ orphans'[s]) \in Nat
                /\ Cardinality(files[s] \ orphans[s]) \in Nat
            BY <5>1, <6>1, FS_CardinalityType
          <6> QED BY <5>1, <6>1, <6>2
        <5>3. manifest'[s] # None => /\ manifest'[s] \subseteq files'[s]
                                     /\ OneMore(manifest'[s], files'[s] \ orphans'[s])
          BY <2>3, <3>2, <4>1, <4>3 DEF WindowGood, OnDisk, OneMore
        <5> QED BY <4>3, <5>2, <5>3 DEF OnDisk
      <4> QED BY <2>3, <4>2, <4>3
    <3> QED BY <2>2, <3>1, <3>2
  <2>5. WindowGood(task[s], files'[s], orphans'[s], manifest'[s])
    BY <2>3, <2>4 DEF WindowGood
  <2> QED BY <2>1, <2>2, <2>5 DEF WindowInv
<1>4. (UNCHANGED taskVars /\ UNCHANGED minted) \/ Mint(c) \/ RemoveDir(c)
  BY DEF Serve, Start, Insert, Stop, Join, Watchdog, Reap, Latest, Poll, ReadFrame,
         Resnapshot, Reread, Return
<1> QED BY <1>1, <1>2, <1>3, <1>4

\* The cap on frames, the cap on bytes, and the manifest, all follow.
LEMMA WindowEnough == TypeOK /\ WindowInv => WindowKept
<1> SUFFICES ASSUME TypeOK, WindowInv, NEW s \in Streams
             PROVE  /\ Cardinality(files[s] \ orphans[s]) <= MaxFrames
                    /\ Bytes(task[s].frames) <= MaxBytes
                    /\ manifest[s] # None =>
                         /\ manifest[s] \subseteq files[s]
                         /\ Cardinality(files[s] \ (manifest[s] \cup orphans[s])) <= 1
  BY DEF WindowKept, WindowBounded, ManifestDescribes
<1> DEFINE t == task[s]
           disk == files[s] \ orphans[s]
<1>1. WindowGood(t, files[s], orphans[s], manifest[s]) /\ t \in Tasks
  BY DEF WindowInv, TypeOK
<1>2. t.frames \in Seq(FrameRecs) /\ Bytes(t.frames) \in Nat /\ t.buffered \in Nat
  <2>1. t.frames \in Seq(FrameRecs) /\ t.buffered \in Nat
    BY <1>1 DEF Tasks
  <2>2. [n |-> 0, size |-> 0] \in FrameRecs
    BY DEF FrameRecs
  <2> QED BY <2>1, <2>2, BytesAppend
<1>3. Bytes(t.frames) <= MaxBytes
  <2>1. t.buffered <= MaxBytes
    BY <1>1 DEF WindowGood, Fits
  <2>2. Bytes(t.frames) <= t.buffered
    <3>1. t.pc = "unlink" => t.old.size \in Nat
      BY <1>1 DEF WindowGood, Counted, FrameRecs
    <3>2. t.buffered = Bytes(t.frames) + (IF t.pc = "unlink" THEN t.old.size ELSE 0)
      BY <1>1, <1>2 DEF WindowGood, Counted
    <3> QED BY <1>2, <3>1, <3>2
  <2> QED BY <1>2, <2>1, <2>2, StreamAssumption
<1>4. Cardinality(disk) <= MaxFrames
  <2>1. CASE t.pc = "done"
    BY <1>1, <2>1 DEF WindowGood, OnDisk
  <2>2. CASE t.pc # "done"
    <3>1. Roomy(t.frames, disk)
      BY <1>1, <2>2 DEF WindowGood, OnDisk, Fits, Roomy, OneMore
    <3> HIDE DEF disk
    <3> QED BY <1>1, <1>2, <3>1, RoomyBounded DEF WindowGood, Fits
  <2> QED BY <2>1, <2>2
<1>5. ASSUME manifest[s] # None
      PROVE  /\ manifest[s] \subseteq files[s]
             /\ Cardinality(files[s] \ (manifest[s] \cup orphans[s])) <= 1
  <2>1. manifest[s] \subseteq files[s] /\ OneMore(manifest[s], disk)
    BY <1>1, <1>5 DEF WindowGood, OnDisk
  <2> DEFINE rest == files[s] \ (manifest[s] \cup orphans[s])
  <2>2. \A x, y \in rest : x = y
    BY <2>1 DEF OneMore
  <2> HIDE DEF rest
  <2>3. Cardinality(rest) <= 1
    <3>1. CASE rest = {}
      BY <3>1, FS_EmptySet
    <3>2. CASE rest # {}
      <4>1. PICK x \in rest : TRUE
        BY <3>2
      <4>2. rest = {x}
        BY <2>2, <4>1
      <4>3. Cardinality({x}) = 1
        BY FS_Singleton
      <4> QED BY <4>2, <4>3
    <3> QED BY <3>1, <3>2
  <2> QED BY <2>1, <2>3 DEF rest
<1> QED BY <1>3, <1>4, <1>5

-----------------------------------------------------------------------------
(* The slot *)

\* A task that moves was running; all other streams stay as they are.
LEMMA RunFrame ==
  ASSUME TypeOK, NEW s \in Streams, Run(s)
  PROVE  /\ Alive(s) /\ UNCHANGED <<reg, minted, cancel, req, accepted>>
         /\ \A k \in Streams \ {s} :
              /\ task'[k] = task[k] /\ files'[k] = files[k] /\ orphans'[k] = orphans[k]
              /\ manifest'[k] = manifest[k] /\ stats'[k] = stats[k]
<1>1. Alive(s) /\ UNCHANGED <<reg, minted, cancel, req, accepted>>
  BY DEF Run, Cancelled, Abort, Capture, Evict, Unlink, WriteFrame, Publish, Count,
         WriteManifest, At, Alive, requestVars
<1>2. \A k \in Streams \ {s} : task'[k] = task[k]
  BY DEF TypeOK, Run, Cancelled, Abort, Capture, Evict, Unlink, WriteFrame, Publish, Count,
         WriteManifest, Exit, End, Goto, Becomes
<1>3. \A k \in Streams \ {s} : /\ files'[k] = files[k] /\ orphans'[k] = orphans[k]
                               /\ manifest'[k] = manifest[k] /\ stats'[k] = stats[k]
  BY DEF TypeOK, Run, Cancelled, Abort, Capture, Evict, Unlink, WriteFrame, Publish, Count,
         WriteManifest
<1> QED BY <1>1, <1>2, <1>3

\* No step of a task makes a dead one live or touches what is gone.
LEMMA RunSlot ==
  ASSUME TypeOK, SlotInv, NEW s \in Streams, Run(s)
  PROVE  SlotInv'
<1>1. /\ Alive(s) /\ UNCHANGED <<reg, minted, cancel, req, accepted>>
      /\ \A k \in Streams \ {s} :
           /\ task'[k] = task[k] /\ files'[k] = files[k] /\ orphans'[k] = orphans[k]
           /\ manifest'[k] = manifest[k]
  BY RunFrame
<1>2. ASSUME NEW k \in accepted PROVE Told(k)'
  <2>1. k \in Streams /\ Told(k)
    BY DEF TypeOK, SlotInv
  <2> QED BY <1>1, <2>1 DEF Told, Alive
<1>3. ASSUME NEW c \in Clients PROVE LeftNothing(req[c])'
  <2>1. LeftNothing(req[c]) /\ req' = req
    BY <1>1 DEF SlotInv
  <2>2. CASE req[c].sid # None /\ req[c].out = "occupied"
    <3>1. Gone(req[c].sid, files[req[c].sid], orphans[req[c].sid], manifest[req[c].sid])
      BY <2>1, <2>2 DEF LeftNothing
    <3>2. req[c].sid \in Streams \ {s}
      BY <1>1, <2>2, <3>1 DEF Gone, TypeOK, Requests
    <3> QED BY <1>1, <2>1, <3>1, <3>2 DEF LeftNothing, Gone, Alive
  <2> QED BY <2>1, <2>2 DEF LeftNothing
<1> QED BY <1>1, <1>2, <1>3 DEF SlotInv

\* What a request may name, and what it may say of it, besides a removed
\* directory.
Fresh(r, ids) ==
  /\ r.pc \in Aimed \/ r.out = "occupied" => r.sid \in (1..ids) \cup {None}
  /\ r.out = "occupied" => r.sid = None

\* Every request takes such a step, but the one that removes a directory.
LEMMA ServeFresh ==
  ASSUME TypeOK, SlotInv, NEW c \in Clients, Serve(c), ~RemoveDir(c)
  PROVE  \E r \in Requests : Now(c, r) /\ Fresh(r, minted')
<1> DEFINE Familiar == req[c].sid \in 1..minted
           Said(r) == r.out # "occupied"
<1>1. /\ req[c] \in Requests /\ RequestOK(req[c]) /\ minted \in Nat /\ None # "occupied"
      /\ req[c].pc = "idle" => req[c].sid = None
      /\ req[c].pc \in Aimed => Familiar
      /\ reg # None => reg \in 1..minted
  BY StreamAssumption, NoneApart DEF TypeOK, SlotInv, RequestOK, Idle, Answers
<1>2. ASSUME NEW answer \in Answers \ {"occupied"}, Reply(c, answer),
             answer = "frame" => req[c].n \in Nat
      PROVE  \E r \in Requests : Now(c, r) /\ Fresh(r, minted')
  <2>1. PICK r \in Requests : Now(c, r) /\ r.pc = "replied" /\ r.out = answer
    BY <1>2, ReplyType
  <2> QED BY <2>1 DEF Fresh, Aimed
<1>3. ASSUME NEW step \in Steps, req[c].pc # "replied", step \in Aimed => Familiar,
             minted' = minted, Now(c, [req[c] EXCEPT !.pc = step])
      PROVE  \E r \in Requests : Now(c, r) /\ Fresh(r, minted')
  <2> DEFINE r == [req[c] EXCEPT !.pc = step]
  <2>1. r \in Requests /\ r.pc = step /\ r.sid = req[c].sid /\ r.out = None
    BY <1>1, <1>3 DEF Requests, RequestOK
  <2> HIDE DEF r
  <2>2. Fresh(r, minted')
    BY <1>1, <1>3, <2>1 DEF Fresh
  <2> QED BY <1>3, <2>1, <2>2 DEF r
<1>4. ASSUME NEW step \in {"insert", "join"}, req[c].pc # "replied", NEW s \in Streams,
             s \in 1..minted', Now(c, AimedAt(c, step, s))
      PROVE  \E r \in Requests : Now(c, r) /\ Fresh(r, minted')
  <2>1. AimedAt(c, step, s) \in Requests /\ Fresh(AimedAt(c, step, s), minted')
    BY <1>1, <1>4, AimType DEF Fresh
  <2> QED BY <1>4, <2>1
<1>5. ASSUME NEW step \in {"poll", "read", "reread"}, NEW n, NEW since, NEW floor,
             Query(step, reg, n, since, floor) \in Requests,
             minted' = minted, Now(c, Query(step, reg, n, since, floor))
      PROVE  \E r \in Requests : Now(c, r) /\ Fresh(r, minted')
  <2>1. Fresh(Query(step, reg, n, since, floor), minted')
    BY <1>1, <1>5 DEF Fresh, Query, Aimed
  <2> QED BY <1>5, <2>1
<1>6. CASE Start(c)
  <2>1. req[c].pc = "idle" /\ minted' = minted
    BY <1>6 DEF Start, Reading
  <2>2. CASE Reply(c, "occupied")
    <3>1. PICK r \in Requests : Now(c, r) /\ r.pc = "replied" /\ r.out = "occupied"
                                /\ r.sid = req[c].sid
      BY <2>2, ReplyType DEF Answers
    <3> QED BY <1>1, <2>1, <3>1 DEF Fresh
  <2>3. CASE Now(c, [req[c] EXCEPT !.pc = "mint"])
    BY <1>3, <2>1, <2>3 DEF Steps, Aimed
  <2> QED BY <1>6, <2>2, <2>3 DEF Start
<1>7. CASE Mint(c)
  <2>1. /\ req[c].pc = "mint" /\ minted' = minted + 1
        /\ Now(c, AimedAt(c, "insert", minted + 1))
    BY <1>7 DEF Mint, Reading, AimedAt
  <2>2. minted + 1 \in Streams
    BY <2>1, MintFits
  <2> QED BY <1>1, <1>4, <2>1, <2>2
<1>8. CASE Insert(c)
  <2>1. req[c].pc = "insert" /\ Familiar /\ minted' = minted
    BY <1>1, <1>8 DEF Insert, Reading, Aimed
  <2> QED BY <1>2, <1>3, <1>8, <2>1 DEF Insert, Answers, Steps, Aimed
<1>9. CASE Stop(c)
  <2>1. req[c].pc = "idle" /\ minted' = minted
    BY <1>9 DEF Stop, Reading
  <2>2. CASE Reply(c, "none")
    BY <1>2, <2>2 DEF Answers
  <2>3. CASE reg # None /\ Now(c, AimedAt(c, "join", reg))
    BY <1>1, <1>4, <2>1, <2>3, IdsFit
  <2> QED BY <1>9, <2>2, <2>3 DEF Stop, AimedAt
<1>10. CASE Join(c)
  BY <1>2, <1>10 DEF Join, Answers
<1>11. CASE Watchdog(c)
  <2>1. req[c].pc = "join" /\ Familiar /\ minted' = minted
    BY <1>1, <1>11 DEF Watchdog, Reading, Aimed
  <2> QED BY <1>3, <1>11, <2>1 DEF Watchdog, Steps, Aimed
<1>12. CASE Reap(c)
  BY <1>2, <1>12 DEF Reap, Answers
<1>13. CASE Latest(c)
  <2>1. Newest(reg) \in Nat /\ reg \in Streams \cup {None}
    BY IdsFit DEF Newest, TypeOK
  <2>2. PICK w \in Nat \cup {None} : Now(c, Query("poll", reg, None, w, Newest(reg)))
    BY <1>13, StreamAssumption DEF Latest
  <2>3. Query("poll", reg, None, w, Newest(reg)) \in Requests
    BY <2>1, QueryType
  <2> QED BY <1>5, <1>13, <2>2, <2>3 DEF Latest
<1>14. CASE Poll(c)
  <2>1. CASE Reply(c, "none") \/ Reply(c, "nothing")
    BY <1>2, <2>1 DEF Answers
  <2>2. CASE /\ reg # None /\ FreshEnough(c)
             /\ Now(c, Query("read", reg, stats[reg].latest, req[c].since,
                             Same(c, req[c].floor, 0)))
    <3>1. stats[reg].latest \in Nat /\ reg \in Streams
      BY <2>2, IdsFit DEF FreshEnough, TypeOK
    <3>2. req[c].since \in Nat \cup {None} /\ Same(c, req[c].floor, 0) \in Nat
      BY <1>1 DEF Same, Requests
    <3>3. Query("read", reg, stats[reg].latest, req[c].since, Same(c, req[c].floor, 0))
            \in Requests
      BY <3>1, <3>2, QueryType
    <3> QED BY <1>5, <1>14, <2>2, <3>3 DEF Poll
  <2> QED BY <1>14, <2>1, <2>2 DEF Poll
<1>15. CASE ReadFrame(c)
  <2>1. req[c].pc = "read" /\ req[c].n \in Nat /\ Familiar /\ minted' = minted
    BY <1>1, <1>15 DEF ReadFrame, Reading, RequestOK, Aimed
  <2> QED BY <1>2, <1>3, <1>15, <2>1 DEF ReadFrame, Answers, Steps, Aimed
<1>16. CASE Resnapshot(c)
  <2>1. CASE Reply(c, "error")
    BY <1>2, <2>1 DEF Answers
  <2>2. CASE /\ reg # None /\ stats[reg].latest # None
             /\ Now(c, Query("reread", reg, stats[reg].latest, Same(c, req[c].since, None),
                             Same(c, req[c].floor, 0)))
    <3>1. stats[reg].latest \in Nat /\ reg \in Streams
      BY <2>2, IdsFit DEF TypeOK
    <3>2. Same(c, req[c].since, None) \in Nat \cup {None} /\ Same(c, req[c].floor, 0) \in Nat
      BY <1>1 DEF Same, Requests
    <3>3. Query("reread", reg, stats[reg].latest, Same(c, req[c].since, None),
                Same(c, req[c].floor, 0)) \in Requests
      BY <3>1, <3>2, QueryType
    <3> QED BY <1>5, <1>16, <2>2, <3>3 DEF Resnapshot
  <2> QED BY <1>16, <2>1, <2>2 DEF Resnapshot
<1>17. CASE Reread(c)
  <2>1. req[c].n \in Nat
    BY <1>1, <1>17 DEF Reread, Reading, RequestOK
  <2> QED BY <1>2, <1>17, <2>1 DEF Reread, Answers
<1>18. CASE Return(c)
  <2>1. Idle \in Requests /\ Fresh(Idle, minted')
    BY <1>1 DEF Idle, Requests, Fresh, Aimed, Steps
  <2> QED BY <1>18, <2>1 DEF Return
<1> QED BY <1>6, <1>7, <1>8, <1>9, <1>10, <1>11, <1>12, <1>13, <1>14, <1>15, <1>16, <1>17,
           <1>18 DEF Serve

\* What a request was told stays so while its directory stays as it is.
LEMMA ToldStays ==
  ASSUME TypeOK, SlotInv, NEW c \in Clients, req'[c] = req[c],
         \A s \in Streams : s <= minted =>
           task'[s] = task[s] /\ files'[s] = files[s] /\ orphans'[s] = orphans[s]
           /\ manifest'[s] = manifest[s]
  PROVE  LeftNothing(req[c])'
<1>1. LeftNothing(req[c]) /\ req[c] \in Requests /\ minted \in Nat
  BY DEF SlotInv, TypeOK
<1>2. CASE req[c].sid # None /\ req[c].out = "occupied"
  <2>1. req[c].sid \in Streams /\ req[c].sid <= minted
    BY <1>1, <1>2 DEF SlotInv, Requests
  <2> QED BY <1>1, <1>2, <2>1 DEF LeftNothing, Gone, Alive
<1> QED BY <1>1, <1>2 DEF LeftNothing

\* Nor does serving a request.
LEMMA ServeSlot ==
  ASSUME TypeOK, SlotInv, NEW c \in Clients, Serve(c)
  PROVE  SlotInv'
<1>1. minted \in Nat /\ minted' \in {minted, minted + 1} /\ accepted \subseteq 1..minted
      /\ minted \in 0..MaxStreams
  BY IdsFit
     DEF TypeOK, SlotInv, Serve, Start, Mint, Insert, RemoveDir, Stop, Join, Watchdog, Reap,
     Latest, Poll, ReadFrame, Resnapshot, Reread, Return
<1>2. \A k \in Clients \ {c} : req'[k] = req[k]
  BY DEF TypeOK, Serve, Start, Mint, Insert, RemoveDir, Stop, Join, Watchdog, Reap,
     Latest, Poll, ReadFrame, Resnapshot, Reread, Return, Reply, Now
<1>3. accepted' \subseteq 1..minted' /\ \A s \in accepted' : Told(s)'
  <2>1. CASE Mint(c)
    <3>1. \A s \in Streams : s <= minted => task'[s] = task[s]
      BY <2>1, <1>1 DEF Mint, Goto, Becomes, TypeOK
    <3>2. UNCHANGED <<reg, cancel, accepted>> /\ minted' = minted + 1
      BY <2>1 DEF Mint
    <3>3. \A s \in accepted : s \in Streams /\ s <= minted
      BY <1>1, IdsFit
    <3> QED BY <1>1, <3>1, <3>2, <3>3 DEF SlotInv, Told, Alive
  <2>2. CASE Insert(c)
    <3> DEFINE s == req[c].sid
    <3>1. s \in 1..minted /\ UNCHANGED <<minted, task>>
      BY <2>2, NoneApart DEF Insert, Reading, SlotInv, TypeOK, RequestOK, Aimed, taskVars
    <3>2. CASE ~Occupied /\ reg' = s /\ accepted' = accepted \cup {s} /\ UNCHANGED cancel
      <4>1. ASSUME NEW k \in accepted PROVE Alive(k) => k \in cancel
        <5>1. k # None /\ Told(k)
          BY IdsFit, NoneApart DEF SlotInv
        <5> QED BY <3>2, <5>1 DEF Told, Occupied
      <4>2. task' = task /\ cancel' = cancel /\ minted' = minted
        BY <3>1, <3>2
      <4> QED BY <1>1, <3>1, <3>2, <4>1, <4>2 DEF Told, Alive
    <3>3. CASE UNCHANGED <<reg, accepted>> /\ cancel' = cancel \cup {s}
      BY <1>1, <3>1, <3>3 DEF SlotInv, Told, Alive
    <3> QED BY <2>2, <3>2, <3>3 DEF Insert
  <2>3. CASE Stop(c)
    <3>1. UNCHANGED <<minted, task, accepted>>
      BY <2>3 DEF Stop, taskVars
    <3>2. CASE UNCHANGED <<reg, cancel>>
      BY <1>1, <3>1, <3>2 DEF SlotInv, Told, Alive
    <3>3. CASE reg' = None /\ cancel' = cancel \cup {reg}
      BY <1>1, <3>1, <3>3 DEF SlotInv, Told, Alive
    <3> QED BY <2>3, <3>2, <3>3 DEF Stop
  <2>4. CASE UNCHANGED <<reg, minted, task, cancel, accepted>>
    BY <1>1, <2>4 DEF SlotInv, Told, Alive
  <2> QED BY <2>1, <2>2, <2>3, <2>4 DEF Serve, Start, RemoveDir, Join, Watchdog, Reap,
             Latest, Poll, ReadFrame, Resnapshot, Reread, Return, taskVars
<1>4. CASE RemoveDir(c)
  <2> DEFINE s == req[c].sid
  <2>1. /\ s \in Streams /\ s \in 1..minted /\ ~Alive(s) /\ UNCHANGED <<task, minted>>
        /\ Reply(c, "occupied")
    BY <1>4, NoneApart DEF RemoveDir, Reading, TypeOK, RequestOK, Aimed, SlotInv
  <2>2. PICK r \in Requests : Now(c, r) /\ r.out = "occupied" /\ r.sid = s /\ r.pc = "replied"
    BY <2>1, ReplyType DEF Answers
  <2>3. req'[c] = r
    BY <2>2 DEF Now, TypeOK
  <2>4. /\ \/ files'[s] = {} /\ manifest'[s] = None /\ orphans'[s] = orphans[s]
           \/ 0 \in orphans'[s]
        /\ \A k \in Streams \ {s} : /\ files'[k] = files[k] /\ orphans'[k] = orphans[k]
                                    /\ manifest'[k] = manifest[k]
    BY <1>4, <2>1 DEF RemoveDir, TypeOK
  <2>5. Gone(s, files[s], orphans[s], manifest[s])'
    BY <2>1, <2>2, <2>3, <2>4 DEF Gone, Alive
  <2>6. ASSUME NEW k \in Clients
        PROVE  /\ (req[k].pc \in Aimed \/ req[k].out = "occupied" =>
                     req[k].sid \in (1..minted) \cup {None})'
               /\ LeftNothing(req[k])'
    <3>1. CASE k = c
      BY <2>1, <2>2, <2>3, <2>5, <3>1 DEF LeftNothing, Gone, Alive
    <3>2. CASE k # c
      <4>1. req'[k] = req[k] /\ LeftNothing(req[k]) /\ req[k] \in Requests
        BY <1>2, <3>2 DEF SlotInv, TypeOK
      <4>2. req[k].sid = s => LeftNothing(req[k])'
        BY <2>1, <2>4, <2>5, <4>1 DEF LeftNothing, Gone, Alive
      <4>3. req[k].sid # s => LeftNothing(req[k])'
        BY <2>1, <2>4, <4>1 DEF LeftNothing, Gone, Alive, Requests
      <4> QED BY <2>1, <4>1, <4>2, <4>3 DEF SlotInv
    <3> QED BY <3>1, <3>2
  <2> QED BY <1>3, <2>6 DEF SlotInv
<1>5. CASE ~RemoveDir(c)
  <2>1. PICK r \in Requests : Now(c, r) /\ Fresh(r, minted')
    BY <1>5, ServeFresh
  <2>2. req'[c] = r
    BY <2>1 DEF Now, TypeOK
  <2>3. \A s \in Streams : s <= minted =>
          task'[s] = task[s] /\ files'[s] = files[s] /\ orphans'[s] = orphans[s]
          /\ manifest'[s] = manifest[s]
    BY <1>1, <1>5 DEF TypeOK, Serve, Start, Mint, Insert, Stop, Join, Watchdog, Reap,
       Latest, Poll, ReadFrame, Resnapshot, Reread, Return, Goto, Becomes, taskVars
  <2>4. ASSUME NEW k \in Clients
        PROVE  /\ (req[k].pc \in Aimed \/ req[k].out = "occupied" =>
                     req[k].sid \in (1..minted) \cup {None})'
               /\ LeftNothing(req[k])'
    <3>1. CASE k = c
      BY <2>1, <2>2, <3>1 DEF Fresh, LeftNothing
    <3>2. CASE k # c
      <4>1. req'[k] = req[k]
        BY <1>2, <3>2
      <4>2. LeftNothing(req[k])'
        BY <2>3, <4>1, ToldStays
      <4>3. req[k].sid \in (1..minted) \cup {None} => req[k].sid \in (1..minted') \cup {None}
        BY <1>1
      <4> QED BY <4>1, <4>2, <4>3 DEF SlotInv
    <3> QED BY <3>1, <3>2
  <2> QED BY <1>3, <2>4 DEF SlotInv
<1> QED BY <1>4, <1>5

\* So a start that succeeded is in the slot or ending, and one that lost the
\* race is gone.
LEMMA SlotEnough == TypeOK /\ SlotInv => NoStrayStream
BY DEF SlotInv, Told, LeftNothing, Gone, NoStrayStream

-----------------------------------------------------------------------------
(* The answers of latest *)

\* The number of the newest frame is a number.
LEMMA NumberType ==
  ASSUME TypeOK, NEW s \in Streams
  PROVE  Number(stats[s].latest) \in Nat /\ stats[s].written \in Nat
BY DEF TypeOK, Number

\* How a task and its counters move together.
LEMMA StatsStep ==
  ASSUME NEW t, NEW z, NEW u, NEW y, StatsGood(t, z),
         t.seq \in Nat, Number(z.latest) \in Nat, z.written \in Nat,
         \/ /\ t.pc = "publish" /\ u.pc = "count" /\ u.seq = t.seq
            /\ Number(y.latest) = t.seq /\ y.written = z.written
         \/ /\ t.pc = "count" /\ u.pc = "wait" /\ u.seq = t.seq
            /\ y.latest = z.latest /\ y.written = t.seq
         \/ y = z /\ u.pc \in {"manifest", "done"}
         \/ /\ y = z /\ t.pc \in {"unborn", "wait", "evict", "unlink"} /\ u.seq = t.seq
            /\ u.pc \in {"wait", "evict", "unlink", "count"}
         \/ y = z /\ t.pc = "evict" /\ u.pc = "write" /\ u.seq = t.seq + 1
         \/ y = z /\ t.pc = "write" /\ u.pc = "publish" /\ u.seq = t.seq
  PROVE  StatsGood(u, y) /\ Number(z.latest) <= Number(y.latest)
BY DEF StatsGood

\* The counters follow the frames, and never go back.
LEMMA RunStats ==
  ASSUME TypeOK, LatestInv, NEW s \in Streams, Run(s)
  PROVE  /\ StatsGood(task'[s], stats'[s])
         /\ Number(stats[s].latest) <= Number(stats'[s].latest)
<1> DEFINE t == task[s]
           z == stats[s]
<1>1. /\ t \in Tasks /\ z \in [latest: Nat \cup {None}, written: Nat] /\ t.seq \in Nat
      /\ StatsGood(t, z) /\ Number(z.latest) \in Nat /\ z.written \in Nat
  BY NumberType DEF TypeOK, LatestInv, Tasks
<1>2. ASSUME NEW v, Becomes(s, v) PROVE task'[s] = v
  BY <1>2, TaskMoves
<1>3. ASSUME NEW step, NEW n,
             \/ Becomes(s, [t EXCEPT !.pc = step])
             \/ Becomes(s, [t EXCEPT !.pc = step, !.size = n])
      PROVE  task'[s].pc = step /\ task'[s].seq = t.seq
  <2> DEFINE a == [t EXCEPT !.pc = step]
             b == [t EXCEPT !.pc = step, !.size = n]
  <2>1. a.pc = step /\ a.seq = t.seq /\ b.pc = step /\ b.seq = t.seq
    BY <1>1 DEF Tasks
  <2>2. task'[s] = a \/ task'[s] = b
    BY <1>2, <1>3
  <2> HIDE DEF a, b
  <2> QED BY <2>1, <2>2
<1>4. CASE Publish(s)
  <2>1. t.pc = "publish" /\ Becomes(s, [t EXCEPT !.pc = "count"])
    BY <1>4 DEF Publish, Goto, At
  <2>2. stats'[s].latest = t.seq /\ stats'[s].written = z.written
    BY <1>1, <1>4 DEF Publish, TypeOK
  <2>3. Number(t.seq) = t.seq
    BY <1>1, NoneApart DEF Number
  <2>4. task'[s].pc = "count" /\ task'[s].seq = t.seq
    BY <1>3, <2>1
  <2> QED BY <1>1, <2>1, <2>2, <2>3, <2>4, StatsStep
<1>5. CASE Count(s)
  <2>1. t.pc = "count" /\ Becomes(s, [t EXCEPT !.pc = "wait"])
    BY <1>5 DEF Count, Goto, At
  <2>2. stats'[s].latest = z.latest /\ stats'[s].written = t.seq
    BY <1>1, <1>5 DEF Count, TypeOK
  <2>3. task'[s].pc = "wait" /\ task'[s].seq = t.seq
    BY <1>3, <2>1
  <2> QED BY <1>1, <2>1, <2>2, <2>3, StatsStep
<1>6. CASE Cancelled(s) \/ Abort(s) \/ WriteManifest(s)
  <2>1. task'[s].pc \in {"manifest", "done"}
    <3>1. [NewTask EXCEPT !.pc = "done"].pc = "done"
      BY DEF NewTask
    <3>2. Becomes(s, [t EXCEPT !.pc = "manifest", !.size = 0])
          \/ Becomes(s, [NewTask EXCEPT !.pc = "done"])
      BY <1>6 DEF Cancelled, Abort, WriteManifest, Exit, End
    <3> QED BY <1>2, <1>3, <3>1, <3>2
  <2>2. stats'[s] = z
    BY <1>6 DEF Cancelled, Abort, WriteManifest
  <2> QED BY <1>1, <2>1, <2>2, StatsStep
<1>7. CASE Capture(s)
  <2>1. PICK step \in {"evict", "manifest"}, n \in Nat :
          Becomes(s, [t EXCEPT !.pc = step, !.size = n])
    BY <1>7, StreamAssumption DEF Capture, Exit
  <2>2. task'[s].pc \in {"evict", "manifest"} /\ task'[s].seq = t.seq
    BY <1>3, <2>1
  <2>3. stats'[s] = z /\ t.pc = "wait"
    BY <1>7 DEF Capture, At
  <2> QED BY <1>1, <2>2, <2>3, StatsStep
<1>8. CASE Evict(s)
  <2>1. t.pc = "evict" /\ stats'[s] = z
    BY <1>8 DEF Evict, At
  <2> DEFINE a == [t EXCEPT !.pc = "unlink", !.frames = Tail(t.frames), !.old = Head(t.frames)]
             b == [t EXCEPT !.pc = "count", !.size = 0]
             d == [t EXCEPT !.pc = "write", !.seq = t.seq + 1]
  <2>2. Becomes(s, a) \/ Becomes(s, b) \/ Becomes(s, d)
    BY <1>8 DEF Evict
  <2>3. /\ a.pc = "unlink" /\ a.seq = t.seq /\ b.pc = "count" /\ b.seq = t.seq
        /\ d.pc = "write" /\ d.seq = t.seq + 1
    BY <1>1 DEF Tasks
  <2> HIDE DEF a, b, d
  <2>4. task'[s] \in {a, b, d}
    BY <1>2, <2>2
  <2>5. \/ task'[s].pc \in {"unlink", "count"} /\ task'[s].seq = t.seq
        \/ task'[s].pc = "write" /\ task'[s].seq = t.seq + 1
    BY <2>3, <2>4
  <2> QED BY <1>1, <2>1, <2>5, StatsStep
<1>9. CASE Unlink(s)
  <2> DEFINE a == [t EXCEPT !.pc = "evict", !.old = None,
                            !.buffered = Less(t.buffered, t.old.size)]
  <2>1. t.pc = "unlink" /\ stats'[s] = z /\ Becomes(s, a)
    BY <1>9 DEF Unlink, At
  <2>2. a.pc = "evict" /\ a.seq = t.seq
    BY <1>1 DEF Tasks
  <2> HIDE DEF a
  <2>3. task'[s].pc = "evict" /\ task'[s].seq = t.seq
    BY <1>2, <2>1, <2>2
  <2> QED BY <1>1, <2>1, <2>3, StatsStep
<1>10. CASE WriteFrame(s)
  <2>1. t.pc = "write" /\ stats'[s] = z
    BY <1>10 DEF WriteFrame, At
  <2>2. Becomes(s, Written(t)) \/ Becomes(s, [t EXCEPT !.pc = "manifest", !.size = 0])
    BY <1>10 DEF WriteFrame, Exit, Written
  <2>3. Written(t).pc = "publish" /\ Written(t).seq = t.seq
    BY <1>1, WrittenType
  <2>4. task'[s].pc \in {"publish", "manifest"} /\ task'[s].seq = t.seq
    BY <1>2, <1>3, <2>2, <2>3
  <2> QED BY <1>1, <2>1, <2>4, StatsStep
<1> QED BY <1>4, <1>5, <1>6, <1>7, <1>8, <1>9, <1>10 DEF Run

\* A query that stays is still behind when the numbers have grown.
LEMMA QueryStays ==
  ASSUME TypeOK, NEW r \in Requests, RequestOK(r), QueryGood(r, stats),
         stats' \in [Streams -> [latest: Nat \cup {None}, written: Nat]],
         \A k \in Streams : Number(stats[k].latest) <= Number(stats'[k].latest)
  PROVE  QueryGood(r, stats')
<1>1. \A k \in Streams : Number(stats[k].latest) \in Nat /\ Number(stats'[k].latest) \in Nat
  BY DEF TypeOK, Number
<1>2. r.floor \in Nat /\ (r.sid # None => r.sid \in Streams)
      /\ (r.pc \in Aimed => r.sid \in Streams)
      /\ (r.pc \in {"read", "again", "reread"} => r.n \in Nat)
  BY DEF Requests, RequestOK
<1> QED BY <1>1, <1>2 DEF QueryGood, Aimed

\* What a request knows of a stream stays behind it as it moves on.
LEMMA RunLatest ==
  ASSUME TypeOK, TypeOK', LatestInv, NEW s \in Streams, Run(s)
  PROVE  LatestInv'
<1>1. /\ req' = req /\ \A k \in Streams \ {s} : task'[k] = task[k] /\ stats'[k] = stats[k]
      /\ StatsGood(task'[s], stats'[s])
      /\ Number(stats[s].latest) <= Number(stats'[s].latest)
  BY RunFrame, RunStats
<1>2. \A k \in Streams : StatsGood(task'[k], stats'[k])
  BY <1>1 DEF LatestInv
<1>3. \A k \in Streams : Number(stats[k].latest) <= Number(stats'[k].latest)
  BY <1>1, NumberType
<1>4. stats' \in [Streams -> [latest: Nat \cup {None}, written: Nat]]
  BY DEF TypeOK
<1>5. ASSUME NEW c \in Clients PROVE QueryGood(req'[c], stats')
  <2>1. req[c] \in Requests /\ RequestOK(req[c]) /\ QueryGood(req[c], stats)
    BY DEF TypeOK, LatestInv
  <2> QED BY <1>1, <1>3, <1>4, <2>1, QueryStays
<1> QED BY <1>2, <1>5 DEF LatestInv

\* Serving a request starts a query no further than the stream is, moves it
\* on to a frame the caller has not seen, or ends it.
LEMMA ServeQuery ==
  ASSUME TypeOK, LatestInv, NEW c \in Clients, Serve(c)
  PROVE  QueryGood(req'[c], stats)
<1> DEFINE old == req[c]
           new == req'[c]
<1>1. /\ old \in Requests /\ RequestOK(old) /\ QueryGood(old, stats)
      /\ \A k \in Streams : Number(stats[k].latest) \in Nat /\ stats[k].written \in Nat
      /\ reg # None => reg \in Streams
      /\ DOMAIN req = Clients /\ None \notin Answers
  BY NumberType, IdsFit, StreamAssumption DEF TypeOK, LatestInv
<1>2. ASSUME NEW answer \in Answers, Reply(c, answer),
             answer = "frame" => old.pc \in {"read", "reread"}
      PROVE  QueryGood(new, stats)
  <2>1. PICK r \in Requests : /\ Now(c, r) /\ r.pc = "replied" /\ r.out = answer
                              /\ answer = "frame" => /\ r.n = old.n /\ r.since = old.since
                                                     /\ r.floor = old.floor
    <3>1. answer = "frame" => old.n \in Nat
      BY <1>1, <1>2 DEF RequestOK
    <3> QED BY <1>2, <3>1, ReplyType
  <2>2. new = r
    BY <1>1, <2>1 DEF Now
  <2> HIDE DEF new
  <2> QED BY <1>1, <1>2, <2>1, <2>2 DEF QueryGood
<1>3. ASSUME new.pc \notin {"poll", "read", "again", "reread"}, new.out # "frame"
      PROVE  QueryGood(new, stats)
  BY <1>3 DEF QueryGood
<1>4. ASSUME NEW step \in Steps, Now(c, [old EXCEPT !.pc = step]), old.pc # "replied"
      PROVE  /\ new.pc = step /\ new.sid = old.sid /\ new.n = old.n /\ new.since = old.since
             /\ new.floor = old.floor /\ new.out = None
  BY <1>1, <1>4 DEF Now, Requests, RequestOK
<1>5. CASE Start(c)
  BY <1>2, <1>3, <1>4, <1>5, <1>1 DEF Start, Reading, Answers, Steps
<1>6. CASE Mint(c)
  BY <1>1, <1>3, <1>6 DEF Mint, Reading, RequestOK, Now, Requests, Answers
<1>7. CASE Insert(c)
  BY <1>2, <1>3, <1>4, <1>7, <1>1 DEF Insert, Reading, Answers, Steps, Aimed
<1>8. CASE RemoveDir(c)
  BY <1>2, <1>8 DEF RemoveDir, Answers
<1>9. CASE Stop(c)
  <2>1. CASE Reply(c, "none")
    BY <1>2, <2>1 DEF Answers
  <2>2. CASE Now(c, [old EXCEPT !.pc = "join", !.sid = reg])
    BY <1>1, <1>3, <1>9, <2>2 DEF Stop, Reading, RequestOK, Now, Requests, Answers
  <2> QED BY <1>9, <2>1, <2>2 DEF Stop
<1>10. CASE Join(c) \/ Reap(c)
  BY <1>2, <1>10 DEF Join, Reap, Answers
<1>11. CASE Watchdog(c)
  BY <1>1, <1>3, <1>4, <1>11 DEF Watchdog, Reading, Steps, Aimed, Answers
<1>12. CASE Return(c)
  BY <1>1, <1>3, <1>12 DEF Return, Now, Idle, Answers
<1>13. CASE Latest(c)
  <2>1. PICK w \in Nat \cup {None} : new = Query("poll", reg, None, w, Newest(reg))
    BY <1>1, <1>13, StreamAssumption DEF Latest, Now
  <2>2. /\ new.pc = "poll" /\ new.sid = reg /\ new.out = None /\ new.floor = Newest(reg)
    BY <2>1 DEF Query
  <2>3. reg # None => Newest(reg) = Number(stats[reg].latest)
    BY DEF Newest, Number
  <2>4. reg = None => Newest(reg) = 0
    BY DEF Newest
  <2> HIDE DEF new
  <2>5. new.sid # None => new.floor <= Number(stats[new.sid].latest)
    BY <1>1, <2>2, <2>3
  <2>6. new.out # "frame"
    BY <1>1, <2>2 DEF Answers
  <2> QED BY <2>2, <2>4, <2>5, <2>6 DEF QueryGood, new
<1>14. CASE Poll(c)
  <2>1. CASE Reply(c, "none") \/ Reply(c, "nothing")
    BY <1>2, <2>1 DEF Answers
  <2>2. CASE /\ reg # None /\ FreshEnough(c)
             /\ Now(c, Query("read", reg, stats[reg].latest, old.since,
                             Same(c, old.floor, 0)))
    <3> DEFINE n == stats[reg].latest
    <3>1. /\ new.pc = "read" /\ new.sid = reg /\ new.n = n /\ new.out = None
          /\ new.since = old.since /\ new.floor = Same(c, old.floor, 0)
      BY <1>1, <2>2 DEF Now, Query
    <3>2. reg \in Streams /\ n \in Nat /\ Number(n) = n /\ stats[reg].written <= n
      BY <1>1, <2>2 DEF FreshEnough, TypeOK, Number, LatestInv, StatsGood
    <3>3. old.since # None => old.since \in Nat /\ stats[reg].written > old.since
      BY <1>1, <2>2 DEF FreshEnough, Requests
    <3>4. Same(c, old.floor, 0) <= n /\ old.floor \in Nat
      BY <1>1, <1>14, <2>2, <3>2 DEF Poll, Reading, Same, QueryGood, Requests
    <3>5. Same(c, old.floor, 0) \in Nat
      BY <3>4 DEF Same
    <3> HIDE DEF new, old, n
    <3>6. old.since # None => n > old.since
      BY <1>1, <3>2, <3>3
    <3>7. new.n >= new.floor /\ (new.since # None => new.n > new.since)
      BY <3>1, <3>2, <3>4, <3>5, <3>6
    <3>8. new.n <= Number(stats[new.sid].latest) /\ new.floor <= Number(stats[new.sid].latest)
      BY <3>1, <3>2, <3>4 DEF n
    <3> QED BY <3>1, <3>7, <3>8 DEF QueryGood, new
  <2> QED BY <1>14, <2>1, <2>2 DEF Poll
<1>15. CASE ReadFrame(c)
  <2>1. old.pc = "read"
    BY <1>15 DEF ReadFrame, Reading
  <2>2. CASE Reply(c, "frame")
    BY <1>2, <2>1, <2>2 DEF Answers
  <2>3. CASE Now(c, [old EXCEPT !.pc = "again"])
    BY <1>1, <1>4, <2>1, <2>3 DEF QueryGood, Steps, Aimed, Answers
  <2> QED BY <1>15, <2>2, <2>3 DEF ReadFrame
<1>16. CASE Resnapshot(c)
  <2>1. old.pc = "again"
    BY <1>16 DEF Resnapshot, Reading
  <2>2. CASE Reply(c, "error")
    BY <1>2, <2>2 DEF Answers
  <2>3. CASE /\ reg # None /\ stats[reg].latest # None
             /\ Now(c, Query("reread", reg, stats[reg].latest, Same(c, old.since, None),
                             Same(c, old.floor, 0)))
    <3> DEFINE n == stats[reg].latest
    <3>1. /\ new.pc = "reread" /\ new.sid = reg /\ new.n = n /\ new.out = None
          /\ new.since = Same(c, old.since, None) /\ new.floor = Same(c, old.floor, 0)
      BY <1>1, <2>3 DEF Now, Query
    <3>2. reg \in Streams /\ n \in Nat /\ Number(n) = n
      BY <1>1, <2>3 DEF TypeOK, Number
    <3>3. /\ old.sid = reg => old.n <= n /\ old.floor <= n
          /\ old.since # None => old.n > old.since
          /\ old.n \in Nat /\ old.since \in Nat \cup {None} /\ old.floor \in Nat
      BY <1>1, <2>1, <3>2, NoneApart DEF QueryGood, RequestOK, Requests
    <3> HIDE DEF new, n
    <3>4. Same(c, old.floor, 0) <= n
      BY <3>2, <3>3 DEF Same
    <3>5. Same(c, old.since, None) # None => n > Same(c, old.since, None)
      BY <3>2, <3>3 DEF Same
    <3>6. Same(c, old.floor, 0) \in Nat
      BY <3>3 DEF Same
    <3>7. new.n >= new.floor /\ (new.since # None => new.n > new.since)
      BY <3>1, <3>2, <3>4, <3>5, <3>6
    <3>8. new.n <= Number(stats[new.sid].latest) /\ new.floor <= Number(stats[new.sid].latest)
      BY <3>1, <3>2, <3>4 DEF n
    <3> QED BY <3>1, <3>7, <3>8 DEF QueryGood, new
  <2> QED BY <1>16, <2>2, <2>3 DEF Resnapshot
<1>17. CASE Reread(c)
  <2>1. old.pc = "reread"
    BY <1>17 DEF Reread, Reading
  <2> QED BY <1>2, <1>17, <2>1 DEF Reread, Answers
<1> QED BY <1>5, <1>6, <1>7, <1>8, <1>9, <1>10, <1>11, <1>12, <1>13, <1>14, <1>15, <1>16,
           <1>17 DEF Serve

\* The rest of the streams and queries stay as they are.
LEMMA ServeLatest ==
  ASSUME TypeOK, WindowInv, LatestInv, NEW c \in Clients, Serve(c)
  PROVE  LatestInv'
<1>1. UNCHANGED stats /\ \A k \in Clients \ {c} : req'[k] = req[k]
  BY DEF TypeOK, Serve, Start, Mint, Insert, RemoveDir, Stop, Join, Watchdog, Reap,
     Latest, Poll, ReadFrame, Resnapshot, Reread, Return, Reply, Now, taskVars
<1>2. \A k \in Clients : QueryGood(req'[k], stats')
  <2>1. QueryGood(req'[c], stats)
    BY ServeQuery
  <2> QED BY <1>1, <2>1 DEF LatestInv
<1>3. ASSUME NEW s \in Streams PROVE StatsGood(task'[s], stats'[s])
  <2>1. CASE UNCHANGED task
    BY <1>1, <2>1 DEF LatestInv
  <2>2. CASE Mint(c)
    <3>1. minted \in Nat /\ task'[s] # task[s] => s = minted + 1
      BY <2>2 DEF Mint, Goto, Becomes, TypeOK
    <3>2. CASE task'[s] = task[s]
      BY <1>1, <3>2 DEF LatestInv
    <3>3. CASE task'[s] # task[s]
      <4>1. task[s] = NewTask
        BY <3>1, <3>3 DEF WindowInv, TypeOK
      <4>2. task'[s] = [NewTask EXCEPT !.pc = "wait"]
        BY <2>2, <3>1, <3>3, <4>1 DEF Mint, Goto, Becomes, TypeOK
      <4>3. /\ NewTask.pc = "unborn" /\ NewTask.seq = 0
            /\ task'[s].pc = "wait" /\ task'[s].seq = 0
        BY <4>2 DEF NewTask
      <4>4. /\ StatsGood(task[s], stats[s]) /\ Number(stats[s].latest) \in Nat
            /\ stats[s].written \in Nat /\ stats'[s] = stats[s]
        BY <1>1, NumberType DEF LatestInv
      <4> QED BY <4>1, <4>3, <4>4, StatsStep
    <3> QED BY <3>2, <3>3
  <2> QED BY <2>1, <2>2 DEF Serve, Start, Insert, RemoveDir, Stop, Join, Watchdog, Reap,
     Latest, Poll, ReadFrame, Resnapshot, Reread, Return, taskVars
<1> QED BY <1>2, <1>3 DEF LatestInv

\* So a frame that is returned is new to the caller and no older than the one
\* there was when it asked.
LEMMA LatestEnough == LatestInv => LatestNewer
BY DEF LatestInv, QueryGood, LatestNewer

-----------------------------------------------------------------------------
(* The theorems *)

StreamInv == TypeOK /\ WindowInv /\ SlotInv /\ LatestInv

\* At first no stream has been minted and no request made.
LEMMA StreamInit == Init => StreamInv
<1> SUFFICES ASSUME Init PROVE StreamInv
  OBVIOUS
<1>1. None \notin Nat /\ "frame" # None /\ "occupied" # None /\ MaxStreams \in Nat
      /\ MaxFrames \in Nat \ {0} /\ MaxBytes \in Nat
  BY StreamAssumption DEF Answers
<1>2. TypeOK
  <2>1. Minters = {}
    BY DEF Init, Minters, Reading, Idle
  <2>2. Cardinality(Minters) = 0
    BY <2>1, FS_EmptySet
  <2>3. task \in [Streams -> Tasks] /\ minted = 0
    BY NewTaskType DEF Init
  <2>4. Idle \in Requests /\ RequestOK(Idle)
    BY <1>1 DEF Idle, Requests, RequestOK, Steps, Aimed
  <2>5. NewStats \in [latest: Nat \cup {None}, written: Nat]
    BY DEF NewStats
  <2> QED BY <1>1, <2>2, <2>3, <2>4, <2>5 DEF Init, TypeOK
<1>3. ASSUME NEW s \in Streams
      PROVE  WindowGood(task[s], files[s], orphans[s], manifest[s]) /\ task[s] = NewTask
  <2>1. /\ task[s] = NewTask /\ files[s] = {} /\ orphans[s] = {} /\ manifest[s] = None
    BY DEF Init
  <2>2. /\ NewTask.pc = "unborn" /\ NewTask.frames = <<>> /\ NewTask.buffered = 0
        /\ NewTask.seq = 0
    BY DEF NewTask
  <2>3. Counted(NewTask) /\ Fits(NewTask) /\ Ordered(NewTask)
    BY <1>1, <2>2, BytesEmpty DEF Counted, Fits, Ordered
  <2>4. Numbers(NewTask.frames) = {}
    BY <2>2, NumbersEmpty
  <2>5. OnDisk(NewTask, {}, {}, None)
    BY <2>2, <2>4 DEF OnDisk
  <2> QED BY <2>1, <2>3, <2>5 DEF WindowGood
<1>4. WindowInv
  BY <1>3 DEF WindowInv
<1>5. SlotInv
  BY <1>1 DEF Init, SlotInv, LeftNothing, Idle
<1>6. LatestInv
  <2>1. QueryGood(Idle, stats)
    BY <1>1 DEF QueryGood, Idle
  <2>2. StatsGood(NewTask, NewStats)
    BY <1>1 DEF StatsGood, NewTask, NewStats, Number
  <2> QED BY <2>1, <2>2 DEF Init, LatestInv
<1> QED BY <1>2, <1>4, <1>5, <1>6 DEF StreamInv

\* Every step of a task or of a request keeps what is known of the streams.
LEMMA StreamStep == StreamInv /\ [Next]_vars => StreamInv'
<1> SUFFICES ASSUME StreamInv, [Next]_vars PROVE StreamInv'
  OBVIOUS
<1>1. TypeOK /\ WindowInv /\ SlotInv /\ LatestInv
  BY DEF StreamInv
<1>2. ASSUME NEW s \in Streams, Run(s) PROVE StreamInv'
  BY <1>1, <1>2, RunType, RunWindow, RunSlot, RunLatest DEF StreamInv
<1>3. ASSUME NEW c \in Clients, Serve(c) PROVE StreamInv'
  BY <1>1, <1>3, ServeType, ServeWindow, ServeSlot, ServeLatest DEF StreamInv
<1>4. CASE UNCHANGED vars
  <2>1. TypeOK'
    BY <1>1, <1>4 DEF TypeOK, vars, Minters, Reading
  <2>2. WindowInv'
    BY <1>1, <1>4 DEF WindowInv, vars
  <2>3. SlotInv'
    BY <1>1, <1>4 DEF SlotInv, vars, Told, LeftNothing, Gone, Alive
  <2>4. LatestInv'
    BY <1>1, <1>4 DEF LatestInv, vars
  <2> QED BY <2>1, <2>2, <2>3, <2>4 DEF StreamInv
<1> QED BY <1>2, <1>3, <1>4 DEF Next

\* The three follow from it at every state.
LEMMA StreamAlways == Spec => []StreamInv
BY StreamInit, StreamStep, PTL DEF Spec

\* run_stream: whatever fails and wherever the task is cut off, no directory
\* holds more than max_frames frames, orphans aside, the window no more than
\* max_bytes, and a manifest lists what is there but for one file at most.
THEOREM WindowSound == Spec => []WindowKept
<1>1. StreamInv => WindowKept
  BY WindowEnough DEF StreamInv
<1> QED BY <1>1, StreamAlways, PTL

\* stream_start, stream_stop: however starts and stops race, an accepted
\* stream that runs is in the slot or told to end, and a start that lost its
\* race leaves neither a task nor, unless its removal failed, a directory.
THEOREM SlotSound == Spec => []NoStrayStream
<1>1. StreamInv => NoStrayStream
  BY SlotEnough DEF StreamInv
<1> QED BY <1>1, StreamAlways, PTL

\* stream_latest, read_latest: a frame that is returned is newer than the
\* caller's watermark and no older than the newest one when it was asked for,
\* unless another stream has taken the slot.
THEOREM LatestSound == Spec => []LatestNewer
<1>1. StreamInv => LatestNewer
  BY LatestEnough DEF StreamInv
<1> QED BY <1>1, StreamAlways, PTL

-----------------------------------------------------------------------------
(* The frames of a PipeWire stream *)

Picture == [width: Widths, serial: Nat]
Handed == [width: Widths, pixels: Widths, serial: Nat, changed: BOOLEAN]

FramesTyped ==
  /\ mode \in {"held", "grab"}
  /\ worker \in {"handshake", "pump", "done"} /\ opener \in {"waiting", "open", "failed"}
  /\ shutdown \in BOOLEAN /\ fresh \in BOOLEAN /\ error \in BOOLEAN /\ told \in BOOLEAN
  /\ changedSince \in BOOLEAN
  /\ layout \in Widths \union {Nothing}
  /\ buffers \in Nat /\ formats \in Nat
  /\ handed \in Seq(Handed)

\* A frame that waits was decoded under a size, which is still the negotiated
\* one unless a change was noted, and is later than every frame handed on.
WaitingAt ==
  /\ fresh => /\ latest \in Picture /\ layout \in Widths
              /\ changedSince \/ latest.width = layout
              /\ latest.serial <= buffers
              /\ \A i \in DOMAIN handed: handed[i].serial < latest.serial
  /\ \A i \in DOMAIN handed: handed[i].serial <= buffers

\* A grab that has handed on a frame is over.
GrabAt == mode = "grab" => Len(handed) <= 1 /\ (handed # <<>> => shutdown)

FramesInv == FramesTyped /\ WaitingAt /\ GrabAt /\ FramesFaithful

\* A format change is noted while a frame waits that was decoded before it.
LEMMA ParamChangedStep ==
  ASSUME FramesConstants, FramesInv, NEW w \in Widths, NEW ok \in BOOLEAN, ParamChanged(w, ok)
  PROVE  FramesInv'
<1> USE DEF FramesInv
<1>1. FramesTyped'
  <2>1. changedSince' \in BOOLEAN
    BY DEF ParamChanged
  <2>2. layout' \in Widths \union {Nothing} /\ formats' \in Nat
    BY DEF FramesTyped, ParamChanged
  <2>3. error' \in BOOLEAN
    BY DEF FramesTyped, ParamChanged
  <2> QED BY <2>1, <2>2, <2>3 DEF FramesTyped, ParamChanged
<1>2. WaitingAt'
  BY DEF WaitingAt, ParamChanged, FramesTyped
<1>3. GrabAt' /\ FramesFaithful'
  BY DEF GrabAt, FramesFaithful, ParamChanged, FramesTyped
<1> QED BY <1>1, <1>2, <1>3

\* A buffer is decoded under the size of its moment, and is the newest.
LEMMA ProcessStep ==
  ASSUME FramesConstants, FramesInv, NEW b, Process(b)
  PROVE  FramesInv'
<1> USE DEF FramesInv
<1>1. FramesTyped'
  <2>1. buffers' \in Nat
    BY DEF FramesTyped, Process
  <2>2. fresh' \in BOOLEAN
    BY DEF FramesTyped, Process
  <2>3. error' \in BOOLEAN
    BY DEF FramesTyped, Process
  <2> QED BY <2>1, <2>2, <2>3 DEF FramesTyped, Process
<1>2. WaitingAt'
  <2>1. CASE latest' = latest /\ fresh' = fresh
    <3>1. buffers' = buffers + 1 /\ UNCHANGED <<layout, handed, changedSince>>
      BY DEF Process
    <3>2. buffers \in Nat /\ \A i \in DOMAIN handed: handed[i].serial \in Nat
      <4>1. \A i \in DOMAIN handed: handed[i] \in Handed
        BY DEF FramesTyped
      <4> QED BY <4>1 DEF FramesTyped, Handed
    <3>3. fresh => latest.serial \in Nat
      BY DEF WaitingAt, Picture
    <3> QED BY <2>1, <3>1, <3>2, <3>3 DEF WaitingAt
  <2>2. CASE ~(latest' = latest /\ fresh' = fresh)
    <3>1. /\ layout \in Widths /\ buffers' = buffers + 1
          /\ latest' = [width |-> layout, serial |-> buffers']
          /\ UNCHANGED <<layout, handed>>
      BY <2>2 DEF Process, FramesTyped
    <3>2. buffers' \in Nat /\ buffers < buffers'
          /\ \A i \in DOMAIN handed: handed[i].serial \in Nat /\ handed[i].serial <= buffers
      <4>1. \A i \in DOMAIN handed: handed[i] \in Handed
        BY DEF FramesTyped
      <4> QED BY <3>1, <4>1 DEF FramesTyped, WaitingAt, Handed
    <3> QED BY <3>1, <3>2 DEF WaitingAt, Picture, FramesTyped
  <2> QED BY <2>1, <2>2
<1>3. GrabAt' /\ FramesFaithful'
  BY DEF GrabAt, FramesFaithful, Process, FramesTyped
<1> QED BY <1>1, <1>2, <1>3

\* The frame that waited goes to the end of those handed on.
LEMMA TakeFrameStep ==
  ASSUME FramesConstants, FramesInv, TakeFrame
  PROVE  FramesInv'
<1> USE DEF FramesInv
<1> DEFINE f == [width |-> layout, pixels |-> latest.width, serial |-> latest.serial,
                 changed |-> changedSince]
<1>1. f \in Handed /\ latest \in Picture
  BY DEF TakeFrame, WaitingAt, FramesTyped, Picture, Handed
<1>2. /\ handed \in Seq(Handed) /\ handed' = Append(handed, f)
      /\ f.serial <= buffers /\ (f.changed \/ f.width = f.pixels)
      /\ \A i \in DOMAIN handed: handed[i].serial < f.serial
  BY DEF TakeFrame, WaitingAt, FramesTyped
<1>3. /\ ~fresh' /\ opener = "open" /\ ~error /\ ~shutdown /\ shutdown' = (mode = "grab")
      /\ changedSince' = FALSE
      /\ UNCHANGED <<mode, worker, opener, layout, error, told, buffers, formats>>
  BY DEF TakeFrame
<1> HIDE DEF f
<1>4. /\ handed' \in Seq(Handed) /\ Len(handed') = Len(handed) + 1
      /\ DOMAIN handed = 1..Len(handed) /\ DOMAIN handed' = 1..(Len(handed) + 1)
      /\ \A i \in 1..Len(handed): handed'[i] = handed[i]
      /\ handed'[Len(handed) + 1] = f
      /\ Len(handed) \in Nat
  BY <1>1, <1>2
<1>5. FramesTyped'
  <2>1. shutdown' \in BOOLEAN
    BY <1>3
  <2>2. fresh' = FALSE /\ changedSince' = FALSE
    BY DEF TakeFrame
  <2> QED BY <1>3, <1>4, <2>1, <2>2 DEF FramesTyped
<1>6. WaitingAt'
  BY <1>1, <1>2, <1>3, <1>4 DEF WaitingAt
<1>7. GrabAt'
  <2>1. mode = "grab" => handed = <<>> /\ shutdown'
    BY <1>3 DEF GrabAt
  <2> QED BY <1>3, <1>4, <2>1 DEF GrabAt
<1>8. \A i, j \in DOMAIN handed': i < j => handed'[i].serial < handed'[j].serial
  BY <1>2, <1>4 DEF FramesFaithful
<1>9. \A i \in DOMAIN handed': handed'[i].changed \/ handed'[i].width = handed'[i].pixels
  BY <1>2, <1>4 DEF FramesFaithful
<1>10. (worker' = "done" /\ ~shutdown') => (error' \/ told')
  BY <1>3 DEF FramesFaithful
<1> QED BY <1>5, <1>6, <1>7, <1>8, <1>9, <1>10 DEF GrabAt, FramesFaithful

\* Every other step leaves the frames alone, and an error in the slot until
\* the consumer is told.
LEMMA OtherFramesStep ==
  ASSUME FramesConstants, FramesInv,
         HandshakeDone \/ HandshakeFails \/ PumpFails \/ PumpEnds \/ TakeError \/ Drop
  PROVE  FramesInv'
<1> USE DEF FramesInv, HandshakeDone, HandshakeFails, PumpFails, PumpEnds, TakeError, Drop
<1>1. FramesTyped'
  BY DEF FramesTyped
<1>2. WaitingAt'
  BY DEF WaitingAt
<1>3. GrabAt' /\ FramesFaithful'
  BY DEF GrabAt, FramesFaithful, FramesTyped
<1> QED BY <1>1, <1>2, <1>3

\* Whatever the source negotiates, sends and breaks, for any number of buffers: frames are
\* handed on in order, whole and once, and an error is not passed over in silence.
THEOREM FramesSound == FramesSpec => []FramesFaithful
<1>1. FramesInit => FramesInv
  <2> SUFFICES ASSUME FramesInit PROVE FramesInv
    OBVIOUS
  <2>1. handed = <<>> /\ handed \in Seq(Handed) /\ Len(handed) = 0 /\ DOMAIN handed = {}
    BY DEF FramesInit
  <2>2. FramesTyped
    BY <2>1, FramesAssumption DEF FramesConstants, FramesInit, FramesTyped
  <2>3. WaitingAt /\ GrabAt /\ FramesFaithful
    BY <2>1 DEF FramesInit, WaitingAt, GrabAt, FramesFaithful
  <2> QED BY <2>2, <2>3 DEF FramesInv
<1>2. FramesInv /\ [FramesNext]_pipewireVars => FramesInv'
  <2> SUFFICES ASSUME FramesInv, [FramesNext]_pipewireVars
               PROVE  FramesInv'
    OBVIOUS
  <2>1. CASE UNCHANGED pipewireVars
    BY <2>1 DEF pipewireVars, FramesInv, FramesTyped, WaitingAt, GrabAt, FramesFaithful
  <2>2. CASE FramesNext
    BY <2>2, FramesAssumption, ParamChangedStep, ProcessStep, TakeFrameStep, OtherFramesStep
       DEF FramesNext
  <2> QED BY <2>1, <2>2
<1>3. FramesInv => FramesFaithful
  BY DEF FramesInv
<1> QED BY <1>1, <1>2, <1>3, PTL DEF FramesSpec

-----------------------------------------------------------------------------
(* The frames of a Wayland output: the invariant *)

Versions == Nat \union {Blank}
Pictures == UNION {[s -> Versions]: s \in Layouts}
Buffers == [size: Layouts, shows: Pictures]
CaptureRecs ==
  [pc: {"idle", "sent", "served", "dead"}, regions: SUBSET Regions, damage: SUBSET Regions,
   since: [Regions -> Nat] \union {Blank}]

WaylandTyped ==
  /\ proto \in {"ext", "wlr", "shot"}
  /\ output \in Layouts /\ limits \in Layouts
  /\ screen \in [Regions -> Nat]
  /\ changed \in SUBSET output
  /\ asked \in (SUBSET Regions) \union {Blank}
  /\ capture \in CaptureRecs
  /\ renewed \in BOOLEAN /\ missed \in BOOLEAN

\* A buffer has a version or nothing for each region of its size.
BufferTyped(b) == b \in Buffers /\ b.shows \in [b.size -> Versions]
\* Nothing is under way, or was, before there is a buffer.
BufferThere ==
  IF buffer = Blank
  THEN asked = Blank /\ frame = Blank /\ capture.pc \in {"idle", "dead"}
  ELSE BufferTyped(buffer)

\* What a capture under way began with is not newer than the screen.
SinceGood == capture.pc \in {"sent", "served"} =>
  capture.since \in [Regions -> Nat] /\ \A r \in Regions: capture.since[r] <= screen[r]

\* b shows what the screen does, where nothing has changed that is not in d.
Kept(b, d) == \A r \in (b.size \intersect output) \ d: b.shows[r] = screen[r]

\* The buffer was copied to, and shows what has not changed since; or it never
\* was, and is asked for as a whole.
NeverCopied ==
  /\ asked = Blank /\ capture.pc # "served"
  /\ capture.pc = "sent" => capture.regions = buffer.size
BufferGood ==
  (proto = "ext" /\ buffer # Blank /\ ~renewed) => Kept(buffer, changed) \/ NeverCopied

\* A copy that is there and not yet taken shows what the screen showed.
ServedGood ==
  (capture.pc = "served" /\ ~renewed) =>
    /\ Kept(buffer, changed)
    /\ \A r \in buffer.size: buffer.shows[r] # Blank /\ buffer.shows[r] >= capture.since[r]

\* The last frame is current, and shows what is still to be handed on as changed.
FrameGood ==
  (frame # Blank /\ ~frame.renewed) =>
    /\ UpToDate(frame)
    /\ ~missed => Kept(frame, changed \union (IF capture.pc = "served" THEN capture.damage ELSE {}))

WaylandInv ==
  WaylandTyped /\ BufferThere /\ SinceGood /\ BufferGood /\ ServedGood /\ FrameGood

-----------------------------------------------------------------------------
\* FrameCurrent follows from the invariant.
LEMMA InvCurrent == WaylandInv => FrameCurrent
<1> SUFFICES ASSUME WaylandInv PROVE FrameCurrent
  OBVIOUS
<1>1. (frame # Blank /\ ~frame.renewed) => UpToDate(frame)
  BY DEF WaylandInv, FrameGood
<1>2. ASSUME Settled, ~missed, NEW r \in output PROVE frame.shows[r] = screen[r]
  BY <1>2 DEF WaylandInv, FrameGood, Settled, Kept
<1> QED BY <1>1, <1>2 DEF FrameCurrent

\* The sizes of outputs are sets of regions.
LEMMA SizesGood == \A s \in Layouts: s \subseteq Regions
BY DEF Regions

\* A new buffer is one.
LEMMA NewBufferGood ==
  ASSUME NEW s \in Layouts
  PROVE  BufferTyped(NewBuffer(s)) /\ NewBuffer(s).size = s /\ NewBuffer(s) # Blank
<1> DEFINE p == [r \in s |-> Blank]
<1>1. p \in [s -> Versions]
  BY DEF Versions
<1>2. p \in Pictures
  BY <1>1 DEF Pictures
<1>3. NewBuffer(s).shows = p /\ NewBuffer(s).size = s /\ NewBuffer(s) \in Buffers
  BY <1>2 DEF NewBuffer, Buffers
<1>4. Blank \notin Buffers
  BY WaylandAssumption DEF Buffers, Pictures, Versions
<1> HIDE DEF p
<1> QED BY <1>1, <1>3, <1>4 DEF BufferTyped

-----------------------------------------------------------------------------
(* The screen and the compositor *)

\* A region is drawn.
LEMMA DrawStep ==
  ASSUME WaylandInv, NEW r \in Regions, Draw(r)
  PROVE  WaylandInv'
<1>1. /\ r \in output /\ screen' = [screen EXCEPT ![r] = @ + 1]
      /\ changed' = changed \union {r} /\ UNCHANGED <<output, sessionVars>>
  BY DEF Draw
<1>2. /\ UNCHANGED <<proto, output, limits, buffer, asked, capture, frame, renewed, missed>>
  BY <1>1 DEF sessionVars
<1>3. screen \in [Regions -> Nat]
  BY DEF WaylandInv, WaylandTyped
<1>4. /\ screen' \in [Regions -> Nat]
      /\ \A x \in Regions: screen[x] <= screen'[x] /\ (x # r => screen'[x] = screen[x])
  BY <1>1, <1>3
<1>5. WaylandTyped'
  BY <1>1, <1>2, <1>4 DEF WaylandInv, WaylandTyped
<1>6. BufferThere'
  BY <1>2 DEF WaylandInv, BufferThere, BufferTyped
<1>7. SinceGood'
  <2>1. ASSUME capture.pc \in {"sent", "served"}, NEW x \in Regions
        PROVE  capture.since[x] <= screen'[x]
    BY <1>3, <1>4, <2>1 DEF WaylandInv, SinceGood
  <2> QED BY <1>2, <2>1 DEF WaylandInv, SinceGood
<1>8. output \subseteq Regions
  BY SizesGood DEF WaylandInv, WaylandTyped
<1>9. ASSUME NEW b, NEW d, NEW e, Kept(b, d), e = d \union {r}
      PROVE  \A x \in (b.size \intersect output') \ e: b.shows[x] = screen'[x]
  BY <1>1, <1>4, <1>8, <1>9 DEF Kept
<1>10. Kept(buffer, changed) => Kept(buffer, changed)'
  BY <1>1, <1>2, <1>9 DEF Kept
<1>11. BufferGood'
  BY <1>2, <1>10 DEF WaylandInv, BufferGood, NeverCopied
<1>12. ServedGood'
  BY <1>2, <1>10 DEF WaylandInv, ServedGood
<1>13. FrameGood'
  <2> DEFINE e == IF capture.pc = "served" THEN capture.damage ELSE {}
  <2>1. e' = e
    BY <1>2
  <2> HIDE DEF e
  <2>2. Kept(frame, changed \union e) => Kept(frame, changed \union e)'
    <3>1. changed' \union e' = (changed \union e) \union {r}
      BY <1>1, <2>1
    <3>2. Kept(frame, changed \union e) =>
            \A x \in (frame.size \intersect output') \ (changed' \union e'):
              frame.shows[x] = screen'[x]
      BY <1>9, <3>1
    <3> QED BY <1>2, <3>2 DEF Kept
  <2> QED BY <1>2, <2>1, <2>2 DEF WaylandInv, FrameGood, UpToDate, e
<1> QED BY <1>5, <1>6, <1>7, <1>11, <1>12, <1>13 DEF WaylandInv

\* The output takes another size.
LEMMA ResizeStep ==
  ASSUME WaylandInv, NEW size \in Layouts, Resize(size)
  PROVE  WaylandInv'
<1>1. /\ output' = size /\ changed' = (changed \union (size \ output)) \intersect size
      /\ UNCHANGED <<screen, sessionVars>>
  BY DEF Resize
<1>2. UNCHANGED <<screen, proto, limits, buffer, asked, capture, frame, renewed, missed>>
  BY <1>1 DEF sessionVars
<1>3. WaylandTyped'
  BY <1>1, <1>2 DEF WaylandInv, WaylandTyped
<1>4. BufferThere' /\ SinceGood'
  BY <1>2 DEF WaylandInv, BufferThere, BufferTyped, SinceGood
<1>5. ASSUME NEW b, NEW e, Kept(b, changed \union e)
      PROVE  \A x \in (b.size \intersect output') \ (changed' \union e): b.shows[x] = screen'[x]
  BY <1>1, <1>5 DEF Kept
<1>6. Kept(buffer, changed) => Kept(buffer, changed)'
  <2>1. changed \union {} = changed /\ changed' \union {} = changed'
    OBVIOUS
  <2> QED BY <1>2, <1>5, <2>1 DEF Kept
<1>7. BufferGood'
  BY <1>2, <1>6 DEF WaylandInv, BufferGood, NeverCopied
<1>8. ServedGood'
  BY <1>2, <1>6 DEF WaylandInv, ServedGood
<1>9. FrameGood'
  <2> DEFINE e == IF capture.pc = "served" THEN capture.damage ELSE {}
  <2>1. e' = e
    BY <1>2
  <2> HIDE DEF e
  <2>2. Kept(frame, changed \union e) => Kept(frame, changed \union e)'
    BY <1>2, <1>5, <2>1 DEF Kept
  <2> QED BY <1>2, <2>1, <2>2 DEF WaylandInv, FrameGood, UpToDate, e
<1> QED BY <1>3, <1>4, <1>7, <1>8, <1>9 DEF WaylandInv

\* The compositor copies: what it leaves out was kept.
LEMMA ServeStep ==
  ASSUME WaylandInv, ServeCapture
  PROVE  WaylandInv'
<1> DEFINE copied == IF proto = "ext" THEN (changed \union capture.regions) \intersect output
                     ELSE output
           p == [r \in buffer.size |-> IF r \in copied THEN screen[r] ELSE buffer.shows[r]]
<1>1. /\ capture.pc = "sent" /\ buffer.size = output
      /\ buffer' = [buffer EXCEPT !.shows = p]
      /\ capture' = [capture EXCEPT !.pc = "served", !.damage = changed]
      /\ changed' = {}
      /\ UNCHANGED <<proto, output, screen, limits, asked, frame, renewed, missed>>
  BY DEF ServeCapture
<1>2. buffer # Blank /\ BufferTyped(buffer) /\ output \in Layouts /\ output \subseteq Regions
  BY <1>1, SizesGood DEF WaylandInv, BufferThere, WaylandTyped
<1>3. screen \in [Regions -> Nat] /\ capture \in CaptureRecs /\ changed \subseteq output
  BY DEF WaylandInv, WaylandTyped
<1>4. p \in [output -> Versions]
  BY <1>1, <1>2, <1>3 DEF BufferTyped, Versions
<1>5. \A r \in output : p[r] = IF r \in copied THEN screen[r] ELSE buffer.shows[r]
  BY <1>1
<1> HIDE DEF p
<1>6. buffer'.size = output /\ buffer'.shows = p /\ buffer' \in Buffers
  BY <1>1, <1>2, <1>4 DEF BufferTyped, Buffers, Pictures
<1>7. BufferThere'
  <2>1. Blank \notin Buffers
    BY WaylandAssumption DEF Buffers, Pictures, Versions
  <2> QED BY <1>4, <1>6, <2>1 DEF BufferThere, BufferTyped
<1>8. /\ capture' \in CaptureRecs /\ capture'.pc = "served" /\ capture'.damage = changed
      /\ capture'.since = capture.since
  BY <1>1, <1>2, <1>3 DEF CaptureRecs
<1>9. WaylandTyped'
  BY <1>1, <1>8 DEF WaylandInv, WaylandTyped
<1>10. SinceGood'
  BY <1>1, <1>8 DEF WaylandInv, SinceGood
<1>11. ASSUME ~renewed, NEW r \in output PROVE p[r] = screen[r]
  <2>1. CASE r \in copied
    BY <1>5, <2>1
  <2>2. CASE r \notin copied
    <3>1. proto = "ext" /\ r \notin changed /\ r \notin capture.regions
      BY <2>2, <1>11
    <3>2. Kept(buffer, changed)
      BY <1>1, <1>2, <1>11, <3>1 DEF WaylandInv, BufferGood, NeverCopied
    <3> QED BY <1>1, <1>5, <1>11, <2>2, <3>1, <3>2 DEF Kept
  <2> QED BY <2>1, <2>2
<1>12. ~renewed => Kept(buffer, changed)'
  BY <1>1, <1>6, <1>11 DEF Kept
<1>13. BufferGood'
  BY <1>1, <1>12 DEF BufferGood
<1>14. ServedGood'
  <2>1. ASSUME ~renewed, NEW r \in output
        PROVE  p[r] # Blank /\ p[r] >= capture.since[r]
    <3>1. r \in Regions /\ screen[r] \in Nat
      BY <1>2, <1>3
    <3>2. capture.since[r] <= screen[r] /\ capture.since[r] \in Nat
      BY <1>1, <3>1 DEF WaylandInv, SinceGood
    <3>3. screen[r] # Blank
      BY <3>1, WaylandAssumption
    <3> QED BY <1>11, <2>1, <3>1, <3>2, <3>3
  <2> QED BY <1>1, <1>6, <1>8, <1>12, <2>1 DEF ServedGood
<1>15. FrameGood'
  <2>1. changed \union {} = changed /\ {} \union changed = changed
    OBVIOUS
  <2>2. Kept(frame, changed) => Kept(frame, changed \union capture.damage)'
    BY <1>1, <1>8, <2>1 DEF Kept
  <2>3. (frame # Blank /\ ~frame.renewed) =>
          UpToDate(frame) /\ (~missed => Kept(frame, changed))
    BY <1>1, <2>1 DEF WaylandInv, FrameGood
  <2> QED BY <1>1, <1>8, <2>2, <2>3 DEF FrameGood, UpToDate
<1> QED BY <1>7, <1>9, <1>10, <1>13, <1>14, <1>15 DEF WaylandInv

-----------------------------------------------------------------------------
(* The client *)

\* A client's step leaves the screen alone.
ScreenStays == UNCHANGED <<proto, output, screen, changed>>

\* Whatever becomes of a capture that had not been served, or a new one that
\* has not yet, the frame handed on last is as good as it was.
LEMMA FrameStays ==
  ASSUME WaylandInv, ScreenStays, UNCHANGED <<frame, missed>>,
         capture.pc # "served" \/ capture.damage = {}, capture'.pc # "served"
  PROVE  FrameGood'
<1>1. (frame # Blank /\ ~frame.renewed) =>
        UpToDate(frame) /\ (~missed => Kept(frame, changed))
  <2>1. changed \union {} = changed
    OBVIOUS
  <2> QED BY <2>1 DEF WaylandInv, FrameGood
<1>2. Kept(frame, changed) => Kept(frame, changed \union {})'
  BY DEF Kept, ScreenStays
<1> QED BY <1>1, <1>2 DEF FrameGood, UpToDate, ScreenStays

\* A capture of a session begins: with the buffer there is, or a new one that
\* is asked for as a whole.
LEMMA BeginExtStep ==
  ASSUME WaylandInv, BeginExt
  PROVE  WaylandInv'
<1>1. /\ capture.pc = "idle" /\ ScreenStays /\ UNCHANGED <<limits, asked, frame, missed>>
      /\ buffer' = IF BufferFits(limits) THEN buffer ELSE NewBuffer(limits)
      /\ renewed' = (buffer # Blank /\ (renewed \/ ~BufferFits(limits)))
      /\ capture' = [NoCapture EXCEPT !.pc = "sent", !.since = screen,
                       !.regions = IF asked = Blank THEN limits ELSE asked]
  BY DEF BeginExt, ScreenStays
<1>2. limits \in Layouts /\ limits \subseteq Regions /\ screen \in [Regions -> Nat]
  BY SizesGood DEF WaylandInv, WaylandTyped
<1>3. /\ capture'.pc = "sent" /\ capture'.since = screen
      /\ capture'.regions = IF asked = Blank THEN limits ELSE asked
  BY <1>1 DEF NoCapture
<1>4. capture' \in CaptureRecs
  <2>1. asked # Blank => asked \in SUBSET Regions
    BY DEF WaylandInv, WaylandTyped
  <2> QED BY <1>1, <1>2, <2>1 DEF NoCapture, CaptureRecs
<1>5. WaylandTyped'
  BY <1>1, <1>4 DEF WaylandInv, WaylandTyped, ScreenStays
<1>6. BufferTyped(buffer') /\ buffer' # Blank /\ buffer'.size = limits
  BY <1>1, <1>2, NewBufferGood DEF WaylandInv, BufferThere, BufferFits
<1>7. BufferThere'
  BY <1>6 DEF BufferThere, BufferTyped
<1>8. SinceGood'
  BY <1>1, <1>2, <1>3 DEF SinceGood, ScreenStays
<1>9. BufferGood'
  <2>1. ASSUME proto = "ext", ~renewed' PROVE Kept(buffer, changed)' \/ NeverCopied'
    <3>1. CASE asked = Blank
      BY <1>1, <1>3, <1>6, <3>1 DEF NeverCopied
    <3>2. CASE asked # Blank
      <4>1. buffer # Blank /\ ~renewed /\ buffer' = buffer
        BY <1>1, <2>1, <3>2 DEF WaylandInv, BufferThere
      <4>2. Kept(buffer, changed)
        BY <2>1, <3>2, <4>1 DEF WaylandInv, BufferGood, NeverCopied
      <4> QED BY <1>1, <4>1, <4>2 DEF Kept, ScreenStays
    <3> QED BY <3>1, <3>2
  <2> QED BY <1>1, <2>1 DEF BufferGood, ScreenStays
<1>10. ServedGood'
  BY <1>3 DEF ServedGood
<1>11. FrameGood'
  BY <1>1, <1>3, FrameStays
<1> QED BY <1>5, <1>7, <1>8, <1>9, <1>10, <1>11 DEF WaylandInv

\* A screencopy frame begins.
LEMMA BeginCopyStep ==
  ASSUME WaylandInv, BeginCopy
  PROVE  WaylandInv'
<1>1. /\ capture.pc = "idle" /\ ScreenStays /\ UNCHANGED <<asked, frame, missed, renewed>>
      /\ proto \in {"wlr", "shot"} /\ limits' = output
      /\ buffer' = IF proto = "wlr" /\ BufferFits(output) THEN buffer ELSE NewBuffer(output)
      /\ capture' = [NoCapture EXCEPT !.pc = "sent", !.since = screen]
  BY DEF BeginCopy, ScreenStays
<1>2. output \in Layouts /\ screen \in [Regions -> Nat]
  BY DEF WaylandInv, WaylandTyped
<1>3. capture'.pc = "sent" /\ capture'.since = screen /\ capture' \in CaptureRecs
  BY <1>1, <1>2 DEF NoCapture, CaptureRecs
<1>4. WaylandTyped'
  BY <1>1, <1>3 DEF WaylandInv, WaylandTyped, ScreenStays
<1>5. BufferTyped(buffer') /\ buffer' # Blank
  BY <1>1, <1>2, NewBufferGood DEF WaylandInv, BufferThere, BufferFits
<1>6. BufferThere'
  BY <1>5 DEF BufferThere, BufferTyped
<1>7. SinceGood'
  BY <1>1, <1>2, <1>3 DEF SinceGood, ScreenStays
<1>8. BufferGood' /\ ServedGood'
  BY <1>1, <1>3 DEF BufferGood, ServedGood, ScreenStays
<1>9. FrameGood'
  BY <1>1, <1>3, FrameStays
<1> QED BY <1>4, <1>6, <1>7, <1>8, <1>9 DEF WaylandInv

\* A roundtrip: a copy that is ready is handed on, unless nothing changed.
LEMMA RoundtripStep ==
  ASSUME WaylandInv, Roundtrip
  PROVE  WaylandInv'
<1>1. /\ capture.pc \in {"sent", "served"} /\ ScreenStays /\ UNCHANGED <<buffer, renewed, missed>>
      /\ limits' = IF proto = "ext" THEN output ELSE limits
  BY DEF Roundtrip, ScreenStays
<1>2. buffer # Blank /\ BufferThere'
  BY <1>1 DEF WaylandInv, BufferThere, BufferTyped
<1>3. limits' \in Layouts
  BY <1>1 DEF WaylandInv, WaylandTyped
<1>4. CASE capture.pc = "sent"
  <2>1. UNCHANGED <<asked, frame, capture>>
    BY <1>4 DEF Roundtrip
  <2>2. WaylandTyped' /\ SinceGood'
    BY <1>1, <1>3, <2>1 DEF WaylandInv, WaylandTyped, SinceGood, ScreenStays
  <2>3. BufferGood' /\ ServedGood'
    BY <1>1, <1>4, <2>1 DEF WaylandInv, BufferGood, NeverCopied, ServedGood, Kept, ScreenStays
  <2>4. FrameGood'
    BY <1>1, <1>4, <2>1, FrameStays
  <2> QED BY <1>2, <2>2, <2>3, <2>4 DEF WaylandInv
<1>5. CASE capture.pc = "served"
  <2>1. capture' = NoCapture
    BY <1>5 DEF Roundtrip
  <2>2. capture'.pc = "idle" /\ capture' \in CaptureRecs
    BY <2>1 DEF NoCapture, CaptureRecs
  <2>3. capture.damage \in SUBSET Regions
    BY DEF WaylandInv, WaylandTyped, CaptureRecs
  <2>4. SinceGood' /\ ServedGood'
    BY <2>2 DEF SinceGood, ServedGood
  <2>5. ~renewed => Kept(buffer, changed)
    BY <1>5 DEF WaylandInv, ServedGood
  <2>6. BufferGood'
    BY <1>1, <2>5 DEF BufferGood, Kept, ScreenStays
  <2>7. CASE proto = "wlr" /\ capture.damage = {}
    <3>1. UNCHANGED <<asked, frame>>
      BY <1>5, <2>7 DEF Roundtrip
    <3>2. WaylandTyped'
      BY <1>1, <1>3, <2>2, <3>1 DEF WaylandInv, WaylandTyped, ScreenStays
    <3>3. FrameGood'
      BY <1>1, <2>2, <2>7, <3>1, FrameStays
    <3> QED BY <1>2, <2>4, <2>6, <3>2, <3>3 DEF WaylandInv
  <2>8. CASE ~(proto = "wlr" /\ capture.damage = {})
    <3>1. /\ asked' = IF proto = "ext" /\ capture.damage # {} THEN capture.damage ELSE Blank
          /\ frame' = [size |-> buffer.size, shows |-> buffer.shows,
                       since |-> capture.since, renewed |-> renewed]
      BY <1>5, <2>8 DEF Roundtrip
    <3>2. WaylandTyped'
      BY <1>1, <1>3, <2>2, <2>3, <3>1 DEF WaylandInv, WaylandTyped, ScreenStays
    <3>3. /\ frame'.size = buffer.size /\ frame'.shows = buffer.shows
          /\ frame'.since = capture.since /\ frame'.renewed = renewed
      BY <3>1
    <3>4. ~renewed => UpToDate(frame)'
      BY <1>5, <3>3 DEF WaylandInv, ServedGood, UpToDate
    <3>5. ~renewed => Kept(frame, changed \union {})'
      BY <1>1, <2>5, <3>3 DEF Kept, ScreenStays
    <3>6. FrameGood'
      BY <2>2, <3>3, <3>4, <3>5 DEF FrameGood, UpToDate
    <3> QED BY <1>2, <2>4, <2>6, <3>2, <3>6 DEF WaylandInv
  <2> QED BY <2>7, <2>8
<1> QED BY <1>1, <1>4, <1>5

\* A capture that ends without a frame, given up or refused.
LEMMA NoFrameStep ==
  ASSUME WaylandInv, Abandon \/ Refused
  PROVE  WaylandInv'
<1>1. /\ ScreenStays /\ UNCHANGED <<limits, buffer, asked, frame, renewed>>
      /\ capture' \in {NoCapture, [NoCapture EXCEPT !.pc = "dead"]}
      /\ missed' = missed \/ (missed' /\ capture.pc = "served" /\ capture.damage # {})
      /\ capture.pc \in {"sent", "served"}
      /\ (capture.pc = "served" /\ capture.damage # {}) => missed'
      /\ missed' \in BOOLEAN
  BY DEF Abandon, Refused, ScreenStays, WaylandInv, WaylandTyped
<1>2. capture' \in CaptureRecs /\ capture'.pc \in {"idle", "dead"}
  BY <1>1 DEF NoCapture, CaptureRecs
<1>3. WaylandTyped' /\ SinceGood' /\ ServedGood'
  BY <1>1, <1>2 DEF WaylandInv, WaylandTyped, SinceGood, ServedGood, ScreenStays
<1>4. BufferThere'
  BY <1>1, <1>2 DEF WaylandInv, BufferThere, BufferTyped
<1>5. BufferGood'
  <2>1. CASE capture.pc = "served"
    BY <1>1, <2>1 DEF WaylandInv, ServedGood, BufferGood, Kept, ScreenStays
  <2>2. CASE capture.pc = "sent"
    BY <1>1, <1>2, <2>2 DEF WaylandInv, BufferGood, NeverCopied, Kept, ScreenStays
  <2> QED BY <1>1, <2>1, <2>2
<1>6. FrameGood'
  <2>1. CASE capture.pc = "served" /\ capture.damage # {}
    BY <1>1, <2>1 DEF WaylandInv, FrameGood, UpToDate, ScreenStays
  <2>2. CASE capture.pc # "served" \/ capture.damage = {}
    BY <1>1, <1>2, <2>2, FrameStays
  <2> QED BY <2>1, <2>2
<1> QED BY <1>3, <1>4, <1>5, <1>6 DEF WaylandInv

-----------------------------------------------------------------------------
(* The frames of a Wayland output: the theorem *)

\* Nothing has been captured yet.
LEMMA WaylandStart == WaylandInit => WaylandInv
<1> SUFFICES ASSUME WaylandInit PROVE WaylandInv
  OBVIOUS
<1>1. NoCapture \in CaptureRecs /\ NoCapture.pc = "idle"
  BY DEF NoCapture, CaptureRecs
<1>2. screen \in [Regions -> Nat]
  BY DEF WaylandInit
<1>3. WaylandTyped
  BY <1>1, <1>2, WaylandAssumption DEF WaylandTyped, WaylandInit
<1>4. BufferThere /\ SinceGood /\ BufferGood /\ ServedGood /\ FrameGood
  BY <1>1 DEF WaylandInit, BufferThere, SinceGood, BufferGood, ServedGood, FrameGood
<1> QED BY <1>3, <1>4 DEF WaylandInv

\* Every step keeps the invariant.
LEMMA WaylandStep ==
  ASSUME WaylandInv, [WaylandNext]_waylandVars
  PROVE  WaylandInv'
<1>1. CASE SwitchOff \/ UNCHANGED waylandVars
  BY <1>1 DEF SwitchOff, waylandVars, sessionVars, WaylandInv, WaylandTyped, BufferThere,
              BufferTyped, SinceGood, BufferGood, NeverCopied, ServedGood, FrameGood, Kept,
              UpToDate
<1> QED BY <1>1, DrawStep, ResizeStep, ServeStep, BeginExtStep, BeginCopyStep, RoundtripStep,
           NoFrameStep DEF WaylandNext

\* FrameCurrent: of any number of regions, sizes, changes and captures, over
\* each of the three protocols.
THEOREM WaylandSound == WaylandSpec => []FrameCurrent
<1>1. WaylandInit => WaylandInv
  BY WaylandStart
<1>2. WaylandInv /\ [WaylandNext]_waylandVars => WaylandInv'
  BY WaylandStep
<1>3. WaylandInv => FrameCurrent
  BY InvCurrent
<1> QED BY <1>1, <1>2, <1>3, PTL DEF WaylandSpec

-----------------------------------------------------------------------------
(* A single shot over the compositor's protocol *)

Outlets == [name: Names, x: Int, w: Int]
Copied == [span: SUBSET Int, version: Nat, order: Supported, flipped: BOOLEAN]
ShotAnswers ==
  [of: Names, span: SUBSET Int, version: Nat, colours: BOOLEAN, upright: BOOLEAN]
Replies == ShotAnswers \union {Absent, "unsupported", "unknown", "failed"}
Spots == {Absent} \union [x: Int, w: Int]
Listings == SUBSET [name: Names \union {""}, x: Int, w: Int]
ShotSteps == {"idle", "resolve", "connect", "frame", "over"}
Shots ==
  [pc: ShotSteps, scope: Scopes \union {Absent}, region: Spots,
   of: Names \union {Absent}, pending: Supported \union {Absent},
   sent: Supported \union {Absent}, copied: Copied \union {Absent}, flipped: BOOLEAN,
   ready: BOOLEAN, failed: BOOLEAN, seen: SUBSET Nat, listed: Listings, answer: Replies]

ShotTyped ==
  /\ arranged \in Arrangements /\ drawn \in [Names -> Nat]
  /\ taking \in Shots /\ changes \in Nat

\* Nothing is copied before the connection is made, and what was copied is a version
\* the output had since, in the format that was asked for.
CopyGood ==
  /\ taking.pc \in {"idle", "resolve", "connect"} => taking.copied = Absent
  /\ taking.pc = "frame" => taking.of \in Names /\ drawn[taking.of] \in taking.seen
  /\ taking.copied # Absent =>
       /\ taking.ready /\ taking.sent # Absent /\ taking.copied.version \in taking.seen
       /\ taking.copied.order = taking.sent /\ taking.copied.flipped = taking.flipped
  /\ taking.ready => taking.copied \in Copied

\* While nobody moved an output, what was asked for is what it was when it was copied.
SpanGood == taking.copied # Absent /\ changes = 0 => taking.copied.span = Asked

\* What is handed on is what was copied.
AnswerGood == HandedOn => taking.of \in Names /\ taking.answer = Decoded(taking.copied)

ShotInv == ShotTyped /\ CopyGood /\ SpanGood /\ AnswerGood

\* A shot begins with nothing.
LEMMA NoShotTyped ==
  NoShot \in Shots /\ NoShot.copied = Absent /\ NoShot.pc = "idle" /\ NoShot.ready = FALSE
BY DEF NoShot, Shots, ShotSteps, Spots, Listings, Replies

\* A shot that moves on stays one, whatever of it changes.
LEMMA ShotMoves ==
  ASSUME NEW r \in Shots, NEW step \in ShotSteps
  PROVE  /\ \A text \in Replies : [r EXCEPT !.pc = step, !.answer = text] \in Shots
         /\ \A spot \in Spots : [r EXCEPT !.pc = step, !.region = spot] \in Shots
         /\ \A n \in Names, v \in SUBSET Nat :
              [r EXCEPT !.pc = step, !.of = n, !.seen = v] \in Shots
         /\ \A v \in SUBSET Nat : [r EXCEPT !.seen = v] \in Shots
         /\ \A f \in Supported \union {Absent} : [r EXCEPT !.pending = f] \in Shots
         /\ \A f \in Supported \union {Absent} :
              [r EXCEPT !.sent = f, !.pending = Absent] \in Shots
         /\ [r EXCEPT !.failed = TRUE] \in Shots
         /\ \A c \in Copied, b \in BOOLEAN :
              [r EXCEPT !.ready = TRUE, !.flipped = b, !.copied = c] \in Shots
<1> USE DEF Shots
<1>1. \A text \in Replies : [r EXCEPT !.pc = step, !.answer = text] \in Shots
  OBVIOUS
<1>2. \A spot \in Spots : [r EXCEPT !.pc = step, !.region = spot] \in Shots
  OBVIOUS
<1>3. \A n \in Names, v \in SUBSET Nat :
        [r EXCEPT !.pc = step, !.of = n, !.seen = v] \in Shots
  OBVIOUS
<1>4. \A v \in SUBSET Nat : [r EXCEPT !.seen = v] \in Shots
  OBVIOUS
<1>5. \A f \in Supported \union {Absent} : [r EXCEPT !.pending = f] \in Shots
  OBVIOUS
<1>6. \A f \in Supported \union {Absent} :
        [r EXCEPT !.sent = f, !.pending = Absent] \in Shots
  OBVIOUS
<1>7. [r EXCEPT !.failed = TRUE] \in Shots
  OBVIOUS
<1>8. \A c \in Copied, b \in BOOLEAN :
        [r EXCEPT !.ready = TRUE, !.flipped = b, !.copied = c] \in Shots
  OBVIOUS
<1> HIDE DEF Shots
<1> QED BY <1>1, <1>2, <1>3, <1>4, <1>5, <1>6, <1>7, <1>8

\* What a shot is made of.
LEMMA ShotParts ==
  ASSUME NEW r \in Shots
  PROVE  /\ r.pc \in ShotSteps /\ r.of \in Names \union {Absent} /\ r.seen \in SUBSET Nat
         /\ r.pending \in Supported \union {Absent} /\ r.sent \in Supported \union {Absent}
         /\ r.copied \in Copied \union {Absent} /\ r.flipped \in BOOLEAN
         /\ r = [pc |-> r.pc, scope |-> r.scope, region |-> r.region, of |-> r.of,
                 pending |-> r.pending, sent |-> r.sent, copied |-> r.copied,
                 flipped |-> r.flipped, ready |-> r.ready, failed |-> r.failed,
                 seen |-> r.seen, listed |-> r.listed, answer |-> r.answer]
BY DEF Shots

\* The outputs the compositor tells of, and those that are plugged in.
LEMMA OutletsTyped ==
  ASSUME ShotTyped
  PROVE  /\ arranged \in Seq(Outlets) /\ Plugged \in SUBSET Names
         /\ \A i \in DOMAIN arranged : arranged[i] \in Outlets
<1>1. arranged \in Seq(Outlets)
  BY ShotAssumption DEF ShotTyped, Outlets
<1>2. \A i \in DOMAIN arranged : arranged[i] \in Outlets
  BY <1>1
<1> QED BY <1>1, <1>2 DEF Plugged, Outlets

\* The lists of outputs, with their geometry and without.
LEMMA ListsTyped ==
  ASSUME ShotTyped, NEW list \in Lists
  PROVE  list \in Listings
<1> DEFINE Lines == [name: Names \union {""}, x: Int, w: Int]
<1>1. \A i \in DOMAIN arranged : Known(arranged[i]) \in Lines
  BY OutletsTyped DEF Known, Outlets
<1>2. Unheard \in Lines
  BY DEF Unheard
<1>3. list = Outputs(TRUE) \/ list = Outputs(FALSE)
  BY DEF Lists
<1> HIDE DEF Lines
<1>4. Outputs(TRUE) \subseteq Lines
  BY <1>1 DEF Outputs
<1>5. Outputs(FALSE) \subseteq Lines
  BY <1>2 DEF Outputs
<1> QED BY <1>3, <1>4, <1>5 DEF Listings, Lines

\* The invariant holds before anything is asked for.
LEMMA ShotStart == ShotInit => ShotInv
BY NoShotTyped DEF ShotInit, ShotInv, ShotTyped, CopyGood, SpanGood, AnswerGood, HandedOn

\* A call that begins, or lists the outputs, keeps the invariant.
LEMMA BeginShotStep ==
  ASSUME ShotInv, (\E s \in Scopes : BeginShot(s)) \/ Enumerate
  PROVE  ShotInv'
<1>1. /\ UNCHANGED <<arranged, drawn, changes>> /\ taking' \in Shots
      /\ taking'.copied = Absent /\ taking'.pc \in {"connect", "resolve", "over"}
      /\ taking'.ready = FALSE
  <2>1. CASE \E s \in Scopes : BeginShot(s)
    <3>1. PICK s \in Scopes, step \in {"connect", "resolve"} :
            taking' = [NoShot EXCEPT !.pc = step, !.scope = s, !.region = s.region]
      BY <2>1 DEF BeginShot
    <3>2. s.region \in Spots
      BY ShotAssumption DEF Spots
    <3>3. taking' \in Shots
      BY <3>1, <3>2, NoShotTyped DEF Shots, ShotSteps
    <3>4. taking'.copied = Absent /\ taking'.pc = step /\ taking'.ready = FALSE
      BY <3>1, NoShotTyped DEF Shots
    <3> QED BY <2>1, <3>3, <3>4 DEF BeginShot, World
  <2>2. CASE Enumerate
    <3>1. PICK list \in Lists : taking' = [NoShot EXCEPT !.pc = "over", !.listed = list]
      BY <2>2 DEF Enumerate
    <3>2. list \in Listings
      BY ListsTyped DEF ShotInv
    <3>3. taking' \in Shots
      BY <3>1, <3>2, NoShotTyped DEF Shots, ShotSteps
    <3>4. taking'.copied = Absent /\ taking'.pc = "over" /\ taking'.ready = FALSE
      BY <3>1, NoShotTyped DEF Shots
    <3> QED BY <2>2, <3>3, <3>4 DEF Enumerate, World
  <2> QED BY <2>1, <2>2
<1> QED
  BY <1>1 DEF ShotInv, ShotTyped, CopyGood, SpanGood, AnswerGood, HandedOn

\* So does the resolution of a display.
LEMMA ResolveStep ==
  ASSUME ShotInv, ResolveDisplay
  PROVE  ShotInv'
<1>1. /\ UNCHANGED <<arranged, drawn, changes>>
      /\ taking.copied = Absent /\ taking \in Shots
  BY DEF ShotInv, ShotTyped, CopyGood, ResolveDisplay, World
<1>2. PICK list \in Lists :
        LET fit == {o \in Rects(list): o.name = taking.scope.display} IN
          IF fit = {} THEN Over(IF Rects(list) = {} THEN "unsupported" ELSE "unknown")
          ELSE \E o \in fit: taking' = [taking EXCEPT !.pc = "connect",
                                        !.region = [x |-> o.x, w |-> o.w]]
  BY DEF ResolveDisplay
<1>3. \A o \in Rects(list) : o.x \in Int /\ o.w \in Int
  BY ListsTyped DEF ShotInv, Rects, Listings
<1>4. \/ \E text \in Replies : taking' = [taking EXCEPT !.pc = "over", !.answer = text]
      \/ \E spot \in Spots : taking' = [taking EXCEPT !.pc = "connect", !.region = spot]
  <2>1. CASE {o \in Rects(list): o.name = taking.scope.display} = {}
    BY <1>2, <2>1 DEF Over, Replies
  <2>2. CASE {o \in Rects(list): o.name = taking.scope.display} # {}
    BY <1>2, <1>3, <2>2 DEF Spots
  <2> QED BY <2>1, <2>2
<1>5. taking' \in Shots
  <2>1. "connect" \in ShotSteps /\ "over" \in ShotSteps
    BY DEF ShotSteps
  <2>2. ASSUME NEW text \in Replies,
               taking' = [taking EXCEPT !.pc = "over", !.answer = text]
        PROVE  taking' \in Shots
    BY <1>1, <2>1, <2>2, ShotMoves
  <2>3. ASSUME NEW spot \in Spots,
               taking' = [taking EXCEPT !.pc = "connect", !.region = spot]
        PROVE  taking' \in Shots
    BY <1>1, <2>1, <2>3, ShotMoves
  <2> QED BY <1>4, <2>2, <2>3
<1>6. /\ taking'.copied = Absent /\ taking'.pc \in {"connect", "over"}
      /\ taking'.ready = taking.ready
  BY <1>1, <1>4 DEF Shots
<1> QED
  BY <1>1, <1>5, <1>6 DEF ShotInv, ShotTyped, CopyGood, SpanGood, AnswerGood, HandedOn

\* So does the connection.
LEMMA ConnectStep ==
  ASSUME ShotInv, Connect
  PROVE  ShotInv'
<1>1. /\ UNCHANGED <<arranged, drawn, changes>> /\ taking.copied = Absent
      /\ taking \in Shots /\ drawn \in [Names -> Nat]
  BY DEF ShotInv, ShotTyped, CopyGood, Connect, World
<1>2. CASE arranged = <<>>
  <2>1. taking' = [taking EXCEPT !.pc = "over", !.answer = "failed"]
    BY <1>2 DEF Connect, Over
  <2>2. taking' \in Shots
    BY <1>1, <2>1, ShotMoves DEF ShotSteps, Replies
  <2>3. taking'.copied = Absent /\ taking'.pc = "over" /\ taking'.ready = taking.ready
    BY <1>1, <2>1 DEF Shots
  <2> QED
    BY <1>1, <2>2, <2>3 DEF ShotInv, ShotTyped, CopyGood, SpanGood, AnswerGood, HandedOn
<1>3. CASE arranged # <<>>
  <2>1. arranged[1].name \in Names
    BY <1>3, OutletsTyped DEF ShotInv, Outlets
  <2> DEFINE n == arranged[1].name
  <2>2. taking' = [taking EXCEPT !.pc = "frame", !.of = n, !.seen = {drawn[n]}]
    BY <1>3 DEF Connect
  <2> HIDE DEF n
  <2>3. n \in Names /\ drawn[n] \in Nat
    BY <1>1, <2>1 DEF n
  <2>4. taking' \in Shots
    BY <1>1, <2>2, <2>3, ShotMoves DEF ShotSteps
  <2>5. /\ taking'.copied = Absent /\ taking'.pc = "frame"
        /\ taking'.of = n /\ taking'.seen = {drawn[n]} /\ taking'.ready = taking.ready
    BY <1>1, <2>2 DEF Shots
  <2> QED
    BY <1>1, <2>3, <2>4, <2>5 DEF ShotInv, ShotTyped, CopyGood, SpanGood, AnswerGood, HandedOn
<1> QED BY <1>2, <1>3

\* So does an event of the frame that copies nothing.
LEMMA FrameEventStep ==
  ASSUME ShotInv, (\E f \in Formats : Offered(f)) \/ OffersDone \/ FrameFails
  PROVE  ShotInv'
<1>1. /\ UNCHANGED <<arranged, drawn, changes>> /\ taking.pc = "frame"
      /\ taking \in Shots
  BY DEF ShotInv, ShotTyped, Offered, OffersDone, FrameFails, Waiting, World
<1>2. \/ \E f \in Supported : taking' = [taking EXCEPT !.pending = f]
      \/ /\ taking.sent = Absent
         /\ taking' = [taking EXCEPT !.sent = taking.pending, !.pending = Absent]
      \/ taking' = [taking EXCEPT !.failed = TRUE]
  BY DEF Offered, OffersDone, FrameFails
<1>3. taking' \in Shots
  <2>1. taking.pending \in Supported \union {Absent} /\ taking.pc \in ShotSteps
    BY <1>1, ShotParts
  <2>2. ASSUME NEW f \in Supported, taking' = [taking EXCEPT !.pending = f]
        PROVE  taking' \in Shots
    BY <1>1, <2>1, <2>2, ShotMoves
  <2>3. CASE taking' = [taking EXCEPT !.sent = taking.pending, !.pending = Absent]
    BY <1>1, <2>1, <2>3, ShotMoves
  <2>4. CASE taking' = [taking EXCEPT !.failed = TRUE]
    BY <1>1, <2>1, <2>4, ShotMoves
  <2> QED BY <1>2, <2>2, <2>3, <2>4
<1>4. /\ taking'.pc = "frame" /\ taking'.of = taking.of
      /\ taking'.seen = taking.seen /\ taking'.copied = taking.copied
      /\ taking'.region = taking.region
      /\ taking'.flipped = taking.flipped /\ taking'.ready = taking.ready
      /\ taking'.sent = taking.sent \/ taking.sent = Absent
  BY <1>1, <1>2 DEF Shots
<1>5. Asked' = Asked
  BY <1>1, <1>4 DEF Asked, OutputAt
<1> QED
  BY <1>1, <1>3, <1>4, <1>5 DEF ShotInv, ShotTyped, CopyGood, SpanGood, AnswerGood, HandedOn

\* So does the copy.
LEMMA CopiesStep ==
  ASSUME ShotInv, NEW flipped \in BOOLEAN, Copies(flipped)
  PROVE  ShotInv'
<1>1. /\ UNCHANGED <<arranged, drawn, changes>> /\ taking.pc = "frame"
      /\ taking \in Shots /\ taking.of \in Names /\ taking.sent # Absent
      /\ drawn[taking.of] \in taking.seen /\ drawn \in [Names -> Nat]
  BY DEF ShotInv, ShotTyped, CopyGood, Copies, Waiting, World
<1> DEFINE copy == [span |-> Asked, version |-> drawn[taking.of],
                    order |-> taking.sent, flipped |-> flipped]
<1>2. taking' = [taking EXCEPT !.ready = TRUE, !.flipped = flipped, !.copied = copy]
  BY DEF Copies
<1>3. Asked \in SUBSET Int
  BY DEF Asked, Span
<1>4. copy \in Copied
  BY <1>1, <1>3 DEF Copied, Shots
<1>5. /\ copy.span = Asked /\ copy.version = drawn[taking.of]
      /\ copy.order = taking.sent /\ copy.flipped = flipped
  OBVIOUS
<1> HIDE DEF copy
<1>8. taking' \in Shots
  BY <1>1, <1>2, <1>4, ShotMoves, ShotParts
<1>6. /\ taking'.pc = "frame" /\ taking'.of = taking.of
      /\ taking'.seen = taking.seen /\ taking'.copied = copy
      /\ taking'.region = taking.region /\ taking'.sent = taking.sent
      /\ taking'.flipped = flipped /\ taking'.ready
  BY <1>1, <1>2 DEF Shots
<1>7. Asked' = Asked
  BY <1>1, <1>6 DEF Asked, OutputAt
<1> QED
  BY <1>1, <1>4, <1>5, <1>6, <1>7, <1>8
     DEF ShotInv, ShotTyped, CopyGood, SpanGood, AnswerGood, HandedOn

\* So does the end of a call, whatever it is.
LEMMA FinishStep ==
  ASSUME ShotInv, Finish \/ TimesOut
  PROVE  ShotInv'
<1>1. /\ UNCHANGED <<arranged, drawn, changes>> /\ taking.pc = "frame"
      /\ taking \in Shots /\ taking.of \in Names
      /\ taking.copied # Absent => taking.ready
  BY DEF ShotInv, ShotTyped, CopyGood, Finish, TimesOut, Waiting, World
<1> DEFINE good == Decoded(taking.copied)
<1>2. PICK text : /\ taking' = [taking EXCEPT !.pc = "over", !.answer = text]
                  /\ \/ text = "failed" /\ (taking.failed \/ taking.copied = Absent)
                     \/ text = good /\ taking.ready
  BY <1>1 DEF Finish, TimesOut, Over
<1>3. taking.ready => good \in ShotAnswers
  BY <1>1 DEF ShotInv, CopyGood, Decoded, Copied, ShotAnswers
<1> HIDE DEF good
<1>5. text \in Replies
  BY <1>2, <1>3 DEF Replies
<1>6. taking' \in Shots
  BY <1>1, <1>2, <1>5, ShotMoves DEF ShotSteps
<1>7. /\ taking'.pc = "over" /\ taking'.of = taking.of /\ taking'.answer = text
      /\ taking'.seen = taking.seen /\ taking'.copied = taking.copied
      /\ taking'.region = taking.region /\ taking'.sent = taking.sent
      /\ taking'.flipped = taking.flipped /\ taking'.ready = taking.ready
      /\ taking'.failed = taking.failed
  BY <1>1, <1>2 DEF Shots
<1>8. Asked' = Asked /\ Decoded(taking.copied)' = good
  BY <1>1, <1>7 DEF Asked, OutputAt, Decoded, good
<1>9. ShotTyped' /\ CopyGood' /\ SpanGood'
  BY <1>1, <1>6, <1>7, <1>8 DEF ShotInv, ShotTyped, CopyGood, SpanGood
<1>10. AnswerGood'
  BY <1>1, <1>2, <1>7, <1>8 DEF AnswerGood, HandedOn
<1> QED BY <1>9, <1>10 DEF ShotInv

\* So does what the session does meanwhile.
LEMMA SessionStep ==
  ASSUME ShotInv, (\E n \in Names : DrawOn(n)) \/ (\E a \in Arrangements : Rearrange(a))
  PROVE  ShotInv'
<1>1. CASE \E n \in Names : DrawOn(n)
  <2>1. PICK n \in Names : DrawOn(n)
    BY <1>1
  <2>2. /\ UNCHANGED <<arranged, changes>> /\ drawn' = [drawn EXCEPT ![n] = @ + 1]
        /\ drawn \in [Names -> Nat] /\ taking \in Shots
    BY <2>1 DEF DrawOn, ShotInv, ShotTyped
  <2>3. drawn' \in [Names -> Nat] /\ \A m \in Names \ {n} : drawn'[m] = drawn[m]
    BY <2>2
  <2>4. CASE taking.pc = "frame" /\ taking.of = n
    <3>1. taking' = [taking EXCEPT !.seen = @ \union {drawn'[n]}]
      BY <2>1, <2>4 DEF DrawOn, Waiting
    <3>4. taking' \in Shots
      <4>1. taking.seen \union {drawn'[n]} \in SUBSET Nat /\ taking.pc \in ShotSteps
        BY <2>2, <2>3, ShotParts
      <4> QED BY <2>2, <3>1, <4>1, ShotMoves
    <3>2. /\ taking'.seen = taking.seen \union {drawn'[n]}
          /\ taking'.pc = "frame" /\ taking'.of = n /\ taking'.region = taking.region
          /\ taking'.copied = taking.copied /\ taking'.ready = taking.ready
          /\ taking'.sent = taking.sent /\ taking'.flipped = taking.flipped
      BY <2>2, <2>4, <3>1 DEF Shots
    <3>3. Asked' = Asked
      BY <2>2, <2>4, <3>2 DEF Asked, OutputAt
    <3> QED BY <2>2, <2>3, <2>4, <3>2, <3>3, <3>4
         DEF ShotInv, ShotTyped, CopyGood, SpanGood, AnswerGood, HandedOn
  <2>5. CASE ~(taking.pc = "frame" /\ taking.of = n)
    <3>1. taking' = taking
      BY <2>1, <2>5 DEF DrawOn, Waiting
    <3>2. Asked' = Asked /\ Decoded(taking.copied)' = Decoded(taking.copied)
      BY <2>2, <3>1 DEF Asked, OutputAt, Decoded
    <3> QED BY <2>2, <2>3, <2>5, <3>1, <3>2
         DEF ShotInv, ShotTyped, CopyGood, SpanGood, AnswerGood, HandedOn
  <2> QED BY <2>4, <2>5
<1>2. CASE \E a \in Arrangements : Rearrange(a)
  <2>1. /\ UNCHANGED <<drawn, taking>> /\ arranged' \in Arrangements
        /\ changes' = changes + 1 /\ changes \in Nat
    BY <1>2 DEF Rearrange, ShotInv, ShotTyped
  <2>2. changes' \in Nat /\ changes' # 0
    BY <2>1
  <2>3. Decoded(taking.copied)' = Decoded(taking.copied)
    BY <2>1 DEF Decoded
  <2> QED BY <2>1, <2>2, <2>3
       DEF ShotInv, ShotTyped, CopyGood, SpanGood, AnswerGood, HandedOn
<1> QED BY <1>1, <1>2

\* Every step keeps the invariant.
LEMMA ShotStep == ShotInv /\ [ShotNext]_shotVars => ShotInv'
<1> SUFFICES ASSUME ShotInv, [ShotNext]_shotVars PROVE ShotInv'
  OBVIOUS
<1>1. CASE UNCHANGED shotVars
  BY <1>1 DEF shotVars, ShotInv, ShotTyped, CopyGood, SpanGood, AnswerGood, HandedOn,
              Asked, OutputAt, Decoded
<1>2. CASE ShotNext
  BY <1>2, BeginShotStep, ResolveStep, ConnectStep, FrameEventStep, CopiesStep, FinishStep,
     SessionStep DEF ShotNext
<1> QED BY <1>1, <1>2

\* The invariant says what is promised of a shot.
LEMMA ShotEnough == ShotInv => ShotTrue
<1> SUFFICES ASSUME ShotInv, HandedOn PROVE ShotTrue
  BY DEF ShotTrue
<1>1. /\ taking.answer = Decoded(taking.copied) /\ taking.copied # Absent
      /\ taking \in Shots
  BY DEF ShotInv, ShotTyped, AnswerGood, HandedOn
<1>2. /\ taking.answer.version = taking.copied.version
      /\ taking.answer.span = taking.copied.span
      /\ taking.answer.colours = (taking.sent = taking.copied.order)
      /\ taking.answer.upright = (taking.flipped = taking.copied.flipped)
  BY <1>1 DEF Decoded
<1>3. taking.sent \in Supported
  BY <1>1 DEF ShotInv, CopyGood, Shots
<1> QED BY <1>1, <1>2, <1>3 DEF ShotTrue, ShotInv, CopyGood, SpanGood

-----------------------------------------------------------------------------
(* The recording *)

Views == {"asked", "output", "layout", "dragged", Nil}
Stills == [size: Nat, at: Nat, shows: Views]
Reasons == {"duration", "capture_error", "byte_cap", "io_error"}
Recordings ==
  [pc: {"idle", "loop", "shoot", "store", "report", "done"}, args: Calls \union {Nil},
   region: Views, dir: Dirs \union {Nil}, start: Nat, shot: Stills \union {Nil}, at: Nat,
   reason: Reasons, error: BOOLEAN,
   result: {"none", "ok", "error", "invalid", "no manifest"}]
Manifests ==
  [frames: Seq(Stills), region: Views, target: Nat, elapsed: Int, bytes: Int,
   truncated: BOOLEAN, reason: Reasons, error: BOOLEAN]
Folders ==
  [place: {"state", "tmp"}, files: Seq([frame: Stills, whole: BOOLEAN]),
   manifest: Seq(Manifests), duration: Nat]

RecordTyped ==
  /\ clock \in Nat /\ due \in Nat /\ recording \in Recordings /\ frames \in Seq(Stills)
  /\ tree \in [DOMAIN tree -> Folders] /\ DOMAIN tree \subseteq Dirs
  /\ scratch \in {Nil, "made"}

Running == recording.pc \in {"loop", "shoot", "store", "report"}
InFrame == recording.pc \in {"shoot", "store"}

\* What a recording is of: arguments that were accepted, and a directory of its own
\* whose manifest is not written; only a capture has a directory of its own.
PlaceGood ==
  /\ Running \/ frames # <<>> => recording.args \in Calls /\ Accepted(recording.args)
  /\ Running =>
       /\ recording.dir \in DOMAIN tree /\ tree[recording.dir].manifest = <<>>
       /\ tree[recording.dir].duration = recording.args.duration
  /\ recording.pc # "shoot" => scratch = Nil

\* Why it ends.
ReasonGood ==
  /\ recording.error <=> recording.reason \in {"capture_error", "io_error"}
  /\ recording.pc \in {"loop", "shoot", "store"} => recording.reason = "duration"
  /\ recording.pc = "report" /\ recording.reason = "duration" =>
       /\ frames # <<>>
       /\ \/ Len(frames) = FrameTarget(recording.args)
          \/ clock - recording.start >= recording.args.duration
  /\ recording.pc = "done" =>
       /\ (recording.dir # Nil /\ recording.result # "no manifest") =>
            recording.dir \in Reported
       /\ recording.result = "ok" => frames # <<>> \/ recording.reason = "byte_cap"

\* What is on disk.
FilesGood ==
  /\ Running => WholeOnDisk(tree[recording.dir].files,
                            [frames |-> frames, reason |-> recording.reason])
  /\ \A d \in Reported :
       /\ WholeOnDisk(tree[d].files, tree[d].manifest[1])
       /\ tree[d].manifest[1].reason = "duration" =>
            \/ Len(tree[d].manifest[1].frames) = tree[d].manifest[1].target
            \/ tree[d].manifest[1].elapsed >= tree[d].duration

\* The ticker: a tick is never due more than an interval after the clock, nor less than
\* an interval after the last frame.
TicksGood ==
  /\ Running => recording.start <= clock
  /\ recording.pc = "loop" =>
       /\ due <= clock + recording.args.interval
       /\ frames = <<>> => clock = recording.start
       /\ frames # <<>> => due - frames[Len(frames)].at >= recording.args.interval
  /\ InFrame =>
       /\ due = recording.at + recording.args.interval /\ recording.at <= clock
       /\ recording.at - recording.start
            < recording.args.duration + recording.args.interval
       /\ frames # <<>> =>
            recording.at - frames[Len(frames)].at >= recording.args.interval
  /\ recording.pc = "store" => recording.shot \in Stills /\ recording.shot.at = recording.at

\* The frames that are listed.
FramesGood ==
  /\ frames # <<>> => Len(frames) <= FrameTarget(recording.args)
  /\ InFrame => Len(frames) < FrameTarget(recording.args)
  /\ Total <= ByteCap
  /\ \A i \in 2..Len(frames): frames[i].at - frames[i - 1].at >= recording.args.interval
  /\ \A i \in DOMAIN frames:
       frames[i].at - recording.start < recording.args.duration + recording.args.interval

RecordInv ==
  RecordTyped /\ PlaceGood /\ ReasonGood /\ FilesGood /\ TicksGood /\ FramesGood

\* The bytes of some frames.
Weight(s) == SumFunctionOnSet([i \in DOMAIN s |-> s[i].size], DOMAIN s)

\* Nothing weighs nothing, and a frame more adds what it weighs.
LEMMA WeightGrows ==
  /\ Weight(<<>>) = 0 /\ \A s \in Seq(Stills) : Weight(s) \in Int
  /\ \A s \in Seq(Stills), f \in Stills : Weight(Append(s, f)) = Weight(s) + f.size
<1>1. Weight(<<>>) = 0
  <2>1. DOMAIN <<>> = {} /\ IsFiniteSet({})
    BY FS_EmptySet
  <2> QED BY <2>1, SumProperties DEF Weight
<1>2. ASSUME NEW s \in Seq(Stills)
      PROVE  Weight(s) \in Int
  <2>5. DOMAIN s = 1..Len(s) /\ Len(s) \in Nat /\ \A i \in 1..Len(s) : s[i] \in Stills
    OBVIOUS
  <2>1. DOMAIN s = 1..Len(s) /\ Len(s) \in Nat /\ \A i \in 1..Len(s) : s[i].size \in Int
    BY <2>5 DEF Stills
  <2>2. IsFiniteSet(1..Len(s))
    BY <2>1, FS_Interval
  <2> DEFINE g == [i \in DOMAIN s |-> s[i].size]
  <2>3. \A i \in 1..Len(s) : g[i] \in Int
    BY <2>1
  <2>4. Weight(s) = SumFunctionOnSet(g, 1..Len(s))
    BY <2>1 DEF Weight
  <2> HIDE DEF g
  <2> QED BY <2>2, <2>3, <2>4, SumProperties
<1>3. ASSUME NEW s \in Seq(Stills), NEW f \in Stills
      PROVE  Weight(Append(s, f)) = Weight(s) + f.size
  <2> DEFINE n == Len(s)
             more == Append(s, f)
             g == [i \in DOMAIN s |-> s[i].size]
             h == [i \in DOMAIN more |-> more[i].size]
  <2>1. /\ n \in Nat /\ DOMAIN s = 1..n /\ DOMAIN more = 1..(n + 1)
        /\ more[n + 1] = f /\ \A i \in 1..n : more[i] = s[i] /\ s[i] \in Stills
    OBVIOUS
  <2>2. /\ \A i \in 1..n : g[i] = s[i].size /\ h[i] = s[i].size /\ s[i].size \in Nat
        /\ h[n + 1] = f.size /\ f.size \in Nat
    BY <2>1 DEF Stills
  <2>3. Weight(s) = SumFunctionOnSet(g, 1..n) /\ Weight(more) = SumFunctionOnSet(h, 1..(n + 1))
    BY <2>1 DEF Weight
  <2> HIDE DEF n, more, g, h
  <2>4. \A i \in 1..(n + 1) : h[i] \in Nat
    BY <2>1, <2>2
  <2>5. /\ SumFunctionOnSet(h, 1..n) \in Int
        /\ SumFunctionOnSet(h, 1..(n + 1)) = h[n + 1] + SumFunctionOnSet(h, 1..n)
    BY <2>1, <2>4, SumUpTo
  <2>6. SumFunctionOnSet(h, 1..n) = SumFunctionOnSet(g, 1..n)
    <3>1. IsFiniteSet(1..n)
      BY <2>1, FS_Interval
    <3>2. \A i \in 1..n : g[i] \in Int /\ h[i] = g[i]
      BY <2>2
    <3> QED BY <3>1, <3>2, SumProperties
  <2>7. h[n + 1] = f.size /\ f.size \in Int
    BY <2>2
  <2> QED BY <2>3, <2>5, <2>6, <2>7 DEF more
<1> QED BY <1>1, <1>2, <1>3

\* A recording takes at least one frame, and both its times are above zero.
LEMMA ArgsTyped ==
  ASSUME NEW c \in Calls, Accepted(c)
  PROVE  /\ FrameTarget(c) \in Nat \ {0}
         /\ c.duration \in Nat \ {0} /\ c.interval \in Nat \ {0}
<1>1. c.duration \in Nat \ {0} /\ c.interval \in Nat \ {0}
  <2>1. c.duration \in Nat /\ c.interval \in Nat
    BY RecordAssumption
  <2>2. c.duration \in MinDuration..MaxDuration /\ c.interval \in MinInterval..MaxInterval
    BY DEF Accepted
  <2>3. MinDuration \in Nat \ {0} /\ MinInterval \in Nat \ {0} /\ MaxDuration \in Nat
        /\ MaxInterval \in Nat
    BY RecordAssumption
  <2> QED BY <2>1, <2>2, <2>3
<1> DEFINE n == c.duration \div c.interval
<1>2. n \in Int
  BY <1>1
<1> HIDE DEF n
<1>3. FrameTarget(c) = IF n < 1 THEN 1 ELSE IF n > FrameCap THEN FrameCap ELSE n
  BY DEF FrameTarget, n
<1> QED BY <1>1, <1>2, <1>3, RecordAssumption

\* The invariant holds before anything is recorded.
LEMMA RecordStart == RecordInit => RecordInv
<1> SUFFICES ASSUME RecordInit PROVE RecordInv
  OBVIOUS
<1>1. /\ frames = <<>> /\ tree = <<>> /\ scratch = Nil /\ clock = 0 /\ due = 0
      /\ recording = NoRecording
  BY DEF RecordInit
<1>2. DOMAIN tree = {} /\ tree \in [DOMAIN tree -> Folders] /\ Reported = {}
  BY <1>1 DEF Reported
<1>3. recording \in Recordings /\ frames \in Seq(Stills)
  BY <1>1 DEF NoRecording, Recordings, Views, Reasons
<1>4. Total = 0
  BY <1>1, WeightGrows DEF Total, Weight
<1>5. RecordTyped
  BY <1>1, <1>2, <1>3 DEF RecordTyped
<1>6. PlaceGood /\ ReasonGood /\ TicksGood
  BY <1>1 DEF NoRecording, PlaceGood, ReasonGood, TicksGood, Running, InFrame
<1>7. FilesGood /\ FramesGood
  BY <1>1, <1>2, <1>4, RecordAssumption
     DEF NoRecording, FilesGood, FramesGood, Running, InFrame
<1> QED BY <1>5, <1>6, <1>7 DEF RecordInv

\* A call that comes back at once, or one that is killed, leaves no frames of its own
\* and touches no directory.
LEMMA NothingLeft ==
  ASSUME RecordInv, UNCHANGED tree, clock' = clock, due' = due, frames' = <<>>,
         scratch' = Nil, recording' \in Recordings, recording'.dir = Nil,
         recording'.pc \in {"idle", "done"}, recording'.result # "ok",
         recording'.reason = "duration", ~recording'.error
  PROVE  RecordInv'
<1>1. RecordTyped'
  BY DEF RecordInv, RecordTyped
<1>2. PlaceGood' /\ ReasonGood' /\ TicksGood'
  BY DEF PlaceGood, ReasonGood, TicksGood, Running, InFrame
<1>3. FilesGood'
  BY DEF RecordInv, FilesGood, Running, Reported
<1>4. Total' = 0
  BY WeightGrows DEF Total, Weight
<1>5. FramesGood'
  BY <1>4, RecordAssumption DEF FramesGood, InFrame
<1> QED BY <1>1, <1>2, <1>3, <1>5 DEF RecordInv

\* A recording that begins has a new directory, and nothing in it.
LEMMA BeginRecordingStep ==
  ASSUME RecordInv, NEW c \in Calls, BeginRecording(c)
  PROVE  RecordInv'
<1>1. /\ frames' = <<>> /\ UNCHANGED <<clock, scratch>> /\ scratch = Nil
      /\ RecordTyped /\ FilesGood
  BY DEF BeginRecording, RecordInv, PlaceGood
<1>2. CASE UNCHANGED <<due, tree>> /\
           \E how \in {"invalid", "error"} :
             recording' = [NoRecording EXCEPT !.pc = "done", !.args = c, !.result = how]
  <2>1. PICK how \in {"invalid", "error"} :
          recording' = [NoRecording EXCEPT !.pc = "done", !.args = c, !.result = how]
    BY <1>2
  <2>2. recording' = [pc |-> "done", args |-> c, region |-> Nil, dir |-> Nil, start |-> 0,
                      shot |-> Nil, at |-> 0, reason |-> "duration", error |-> FALSE,
                      result |-> how]
    BY <2>1 DEF NoRecording
  <2>3. recording' \in Recordings
    BY <2>2 DEF Recordings, Views, Reasons
  <2>4. /\ recording'.dir = Nil /\ recording'.pc = "done"
        /\ recording'.result # "ok" /\ recording'.reason = "duration" /\ ~recording'.error
    BY <2>2
  <2> QED BY <1>1, <1>2, <2>3, <2>4, NothingLeft
<1>3. CASE /\ Accepted(c)
           /\ \E r \in RegionsOf(c) \ {"invalid", "error"} : \E d \in Dirs \ DOMAIN tree :
                /\ tree' = [e \in DOMAIN tree \union {d} |->
                              IF e = d THEN Leaf(c) ELSE tree[e]]
                /\ due' = clock
                /\ recording' = [NoRecording EXCEPT !.pc = "loop", !.args = c, !.region = r,
                                   !.dir = d, !.start = clock]
  <2>1. PICK r \in RegionsOf(c) \ {"invalid", "error"}, d \in Dirs :
          /\ d \notin DOMAIN tree
          /\ tree' = [e \in DOMAIN tree \union {d} |-> IF e = d THEN Leaf(c) ELSE tree[e]]
          /\ due' = clock
          /\ recording' = [NoRecording EXCEPT !.pc = "loop", !.args = c, !.region = r,
                             !.dir = d, !.start = clock]
    BY <1>3
  <2>2. r \in Views
    BY <2>1 DEF RegionsOf, Views
  <2>3. /\ recording'.pc = "loop" /\ recording'.args = c /\ recording'.dir = d
        /\ recording'.start = clock /\ recording'.reason = "duration" /\ ~recording'.error
        /\ recording' \in Recordings
    BY <1>1, <2>1, <2>2 DEF NoRecording, Recordings, Views, Reasons, RecordTyped
  <2>4. Leaf(c) \in Folders /\ Leaf(c).files = <<>> /\ Leaf(c).manifest = <<>>
        /\ Leaf(c).duration = c.duration
    <3>1. c.duration \in Nat
      BY RecordAssumption
    <3> QED BY <3>1 DEF Leaf, Folders
  <2>5. /\ DOMAIN tree' = DOMAIN tree \union {d} /\ tree'[d] = Leaf(c)
        /\ \A e \in DOMAIN tree : tree'[e] = tree[e]
    BY <2>1
  <2>6. RecordTyped'
    BY <1>1, <2>1, <2>3, <2>4, <2>5 DEF RecordTyped
  <2>7. PlaceGood' /\ ReasonGood'
    BY <1>1, <1>3, <2>3, <2>4, <2>5 DEF PlaceGood, ReasonGood, Running
  <2>8. FilesGood'
    <3>1. Reported' = Reported /\ \A e \in Reported : tree'[e] = tree[e]
      BY <2>4, <2>5 DEF Reported
    <3>2. WholeOnDisk(<<>>, [frames |-> <<>>, reason |-> "duration"])
      BY DEF WholeOnDisk
    <3> QED BY <1>1, <2>3, <2>4, <2>5, <3>1, <3>2 DEF FilesGood
  <2>9. TicksGood'
    <3>1. c.interval \in Nat /\ clock \in Nat
      BY <1>1, RecordAssumption DEF RecordTyped
    <3> QED BY <1>1, <2>1, <2>3, <3>1 DEF TicksGood, Running, InFrame
  <2>10. FramesGood'
    <3>1. Total' = 0
      BY <1>1, WeightGrows DEF Total, Weight
    <3> QED BY <1>1, <2>3, <3>1, RecordAssumption DEF FramesGood, InFrame
  <2> QED BY <2>6, <2>7, <2>8, <2>9, <2>10 DEF RecordInv
<1> QED BY <1>2, <1>3 DEF BeginRecording

\* What a recording that goes on knows of its numbers.
LEMMA NumbersTyped ==
  ASSUME RecordInv, Running
  PROVE  /\ recording.args \in Calls /\ Accepted(recording.args)
         /\ FrameTarget(recording.args) \in Nat \ {0}
         /\ recording.args.duration \in Nat \ {0} /\ recording.args.interval \in Nat \ {0}
         /\ recording.start \in Nat /\ recording.at \in Nat /\ clock \in Nat /\ due \in Nat
         /\ recording \in Recordings /\ Len(frames) \in Nat
         /\ frames # <<>> => frames[Len(frames)].at \in Nat
<1>1. recording.args \in Calls /\ Accepted(recording.args)
  BY DEF RecordInv, PlaceGood
<1>2. /\ recording \in Recordings /\ clock \in Nat /\ due \in Nat /\ frames \in Seq(Stills)
      /\ recording.start \in Nat /\ recording.at \in Nat
  BY DEF RecordInv, RecordTyped, Recordings
<1>3. frames # <<>> => frames[Len(frames)] \in Stills
  BY <1>2
<1> QED BY <1>1, <1>2, <1>3, ArgsTyped DEF Stills

\* A tick, or the end of the recording, keeps the invariant.
LEMMA TickStep ==
  ASSUME RecordInv, Tick
  PROVE  RecordInv'
<1>1. /\ recording.pc = "loop" /\ Running /\ UNCHANGED <<frames, tree, scratch>>
      /\ recording.reason = "duration" /\ ~recording.error /\ scratch = Nil
  BY DEF Tick, RecordInv, Running, ReasonGood, PlaceGood
<1> DEFINE c == recording.args
           target == FrameTarget(c)
           last == frames[Len(frames)].at
<1>2. /\ c \in Calls /\ Accepted(c) /\ target \in Nat \ {0} /\ c.duration \in Nat \ {0}
      /\ c.interval \in Nat \ {0} /\ recording.start \in Nat /\ clock \in Nat /\ due \in Nat
      /\ recording \in Recordings /\ Len(frames) \in Nat
      /\ frames # <<>> => last \in Nat
  BY <1>1, NumbersTyped
<1>3. /\ recording.start <= clock /\ due <= clock + c.interval
      /\ frames = <<>> => clock = recording.start
      /\ frames # <<>> => due - last >= c.interval
  BY <1>1 DEF RecordInv, TicksGood
<1>4. Total' = Total /\ Reported' = Reported
  BY <1>1 DEF Total, Reported
<1>5. CASE Wanted
  <2>1. /\ clock' = IF clock > due THEN clock ELSE due
        /\ due' = clock' + c.interval
        /\ recording' = [recording EXCEPT !.pc = "shoot", !.at = clock']
    BY <1>5 DEF Tick, NextDue
  <2>2. Len(frames) < target /\ clock - recording.start < c.duration
    BY <1>5 DEF Wanted
  <2>3. /\ clock' \in Nat /\ clock' >= clock /\ clock' >= due
        /\ clock' - recording.start < c.duration + c.interval /\ due' \in Nat
    <3> HIDE DEF c, target, last
    <3>1. c.duration \in Nat /\ c.interval \in Nat /\ recording.start \in Nat
      BY <1>2
    <3>2. clock \in Nat /\ due \in Nat /\ due <= clock + c.interval
      BY <1>2, <1>3
    <3>3. clock' \in Nat /\ clock' >= clock /\ clock' >= due /\ clock' <= clock + c.interval
      BY <2>1, <3>1, <3>2
    <3>4. due' \in Nat
      BY <2>1, <3>1, <3>3
    <3>5. clock' - recording.start < c.duration + c.interval
      <4>1. clock - recording.start < c.duration
        BY <2>2
      <4> QED BY <3>1, <3>2, <3>3, <4>1
    <3> QED BY <3>3, <3>4, <3>5
  <2>4. /\ recording' \in Recordings /\ recording'.pc = "shoot" /\ recording'.at = clock'
        /\ recording'.args = c /\ recording'.dir = recording.dir
        /\ recording'.start = recording.start /\ recording'.reason = "duration"
        /\ ~recording'.error
    BY <1>1, <1>2, <2>1, <2>3 DEF Recordings
  <2>5. RecordTyped'
    BY <1>1, <2>3, <2>4 DEF RecordInv, RecordTyped
  <2>6. PlaceGood' /\ ReasonGood'
    BY <1>1, <1>2, <2>4 DEF RecordInv, PlaceGood, ReasonGood, Running
  <2>7. FilesGood'
    BY <1>1, <1>4, <2>4 DEF RecordInv, FilesGood, Running
  <2>8. TicksGood'
    <3>1. frames # <<>> => clock' - last >= c.interval
      <4> HIDE DEF c, last
      <4>1. clock' \in Nat /\ clock' >= due /\ due \in Nat /\ c.interval \in Nat
        BY <1>2, <2>3
      <4>2. frames # <<>> => last \in Nat /\ due - last >= c.interval
        BY <1>2, <1>3
      <4> QED BY <4>1, <4>2
    <3>2. frames'[Len(frames')].at = last
      BY <1>1
    <3> HIDE DEF c, target, last
    <3>3. recording'.start <= clock'
      BY <1>2, <1>3, <2>3, <2>4
    <3> QED BY <1>1, <2>1, <2>3, <2>4, <3>1, <3>2, <3>3 DEF TicksGood, InFrame
  <2>9. FramesGood'
    BY <1>1, <1>4, <2>2, <2>4 DEF RecordInv, FramesGood, InFrame
  <2> QED BY <2>5, <2>6, <2>7, <2>8, <2>9 DEF RecordInv
<1>6. CASE ~Wanted
  <2>1. UNCHANGED <<clock, due>> /\ recording' = [recording EXCEPT !.pc = "report"]
    BY <1>6 DEF Tick
  <2>2. /\ recording' \in Recordings /\ recording'.pc = "report"
        /\ recording'.args = c /\ recording'.dir = recording.dir
        /\ recording'.start = recording.start /\ recording'.reason = "duration"
        /\ ~recording'.error
    BY <1>1, <1>2, <2>1 DEF Recordings
  <2>3. /\ frames # <<>>
        /\ Len(frames) = target \/ clock - recording.start >= c.duration
    <3>1. ~(Len(frames) < target) \/ ~(clock - recording.start < c.duration)
      BY <1>6 DEF Wanted
    <3>2. frames # <<>> => Len(frames) <= target
      BY DEF RecordInv, FramesGood
    <3>3. frames = <<>> => Len(frames) = 0
      OBVIOUS
    <3> HIDE DEF c, target, last
    <3> QED BY <1>2, <1>3, <3>1, <3>2, <3>3
  <2>4. RecordTyped'
    BY <1>1, <2>1, <2>2 DEF RecordInv, RecordTyped
  <2>5. PlaceGood' /\ ReasonGood'
    BY <1>1, <1>2, <2>1, <2>2, <2>3 DEF RecordInv, PlaceGood, ReasonGood, Running
  <2>6. FilesGood'
    BY <1>1, <1>4, <2>2 DEF RecordInv, FilesGood, Running
  <2>7. TicksGood'
    BY <1>1, <1>3, <2>1, <2>2 DEF TicksGood, InFrame
  <2>8. FramesGood'
    BY <1>1, <1>4, <2>2 DEF RecordInv, FramesGood, InFrame
  <2> QED BY <2>4, <2>5, <2>6, <2>7, <2>8 DEF RecordInv
<1> QED BY <1>5, <1>6

\* A capture's directory, made, disturbs nothing.
LEMMA MakeScratchStep ==
  ASSUME RecordInv, MakeScratch
  PROVE  RecordInv'
<1>1. /\ recording.pc = "shoot" /\ scratch' = "made"
      /\ UNCHANGED <<clock, recording, due, frames, tree>>
  BY DEF MakeScratch
<1>2. Total' = Total /\ Reported' = Reported
  BY <1>1 DEF Total, Reported
<1>3. RecordTyped' /\ PlaceGood' /\ ReasonGood'
  BY <1>1, <1>2 DEF RecordInv, RecordTyped, PlaceGood, ReasonGood, Running
<1>4. FilesGood' /\ TicksGood'
  BY <1>1, <1>2 DEF RecordInv, FilesGood, TicksGood, Running, InFrame
<1>5. FramesGood'
  BY <1>1, <1>2 DEF RecordInv, FramesGood, InFrame
<1> QED BY <1>3, <1>4, <1>5 DEF RecordInv

\* A capture that succeeds or fails keeps the invariant.
LEMMA ShootStep ==
  ASSUME RecordInv, NEW slow \in Slowness, Shoot(slow)
  PROVE  RecordInv'
<1>1. /\ recording.pc = "shoot" /\ Running /\ UNCHANGED <<due, frames, tree>>
      /\ recording.reason = "duration" /\ ~recording.error /\ scratch' = Nil
      /\ clock' = clock + slow
  BY DEF Shoot, RecordInv, Running, ReasonGood
<1> DEFINE c == recording.args
<1>2. /\ c \in Calls /\ Accepted(c) /\ recording.start \in Nat /\ recording.at \in Nat
      /\ clock \in Nat /\ due \in Nat /\ recording \in Recordings
  BY <1>1, NumbersTyped
<1>3. clock' \in Nat /\ clock' >= clock
  BY <1>1, <1>2, RecordAssumption
<1>4. /\ recording.start <= clock /\ due = recording.at + c.interval
      /\ recording.at <= clock
      /\ recording.at - recording.start < c.duration + c.interval
      /\ frames # <<>> => recording.at - frames[Len(frames)].at >= c.interval
  BY <1>1 DEF RecordInv, TicksGood, Running, InFrame
<1>5. Total' = Total /\ Reported' = Reported
  BY <1>1 DEF Total, Reported
<1>6. recording.start <= clock' /\ recording.at <= clock'
  BY <1>2, <1>3, <1>4
<1>7. /\ recording' \in Recordings /\ recording'.args = c
      /\ recording'.dir = recording.dir /\ recording'.start = recording.start
      /\ recording'.at = recording.at
      /\ \/ /\ recording'.pc = "store" /\ recording'.reason = "duration"
            /\ ~recording'.error
            /\ recording'.shot \in Stills /\ recording'.shot.at = recording.at
         \/ /\ recording'.pc = "report" /\ recording'.reason = "capture_error"
            /\ recording'.error
  <2>1. CASE \E size \in ShotSizes, area \in ShownArea :
               recording' = [recording EXCEPT !.pc = "store",
                               !.shot = [size |-> size, at |-> recording.at, shows |-> area]]
    <3>1. PICK size \in ShotSizes, area \in ShownArea :
               recording' = [recording EXCEPT !.pc = "store",
                               !.shot = [size |-> size, at |-> recording.at, shows |-> area]]
      BY <2>1
    <3>2. area \in Views
      BY <1>2 DEF ShownArea, Views, Recordings
    <3>3. [size |-> size, at |-> recording.at, shows |-> area] \in Stills
      BY <1>2, <3>2, RecordAssumption DEF Stills
    <3> QED BY <1>1, <1>2, <3>1, <3>3 DEF Recordings
  <2>2. CASE recording' = [recording EXCEPT !.pc = "report", !.reason = "capture_error",
                                            !.error = TRUE]
    BY <1>1, <1>2, <2>2 DEF Recordings, Reasons
  <2> QED BY <2>1, <2>2 DEF Shoot
<1>8. RecordTyped'
  BY <1>1, <1>3, <1>7 DEF RecordInv, RecordTyped
<1>9. PlaceGood' /\ ReasonGood'
  BY <1>1, <1>2, <1>7 DEF RecordInv, PlaceGood, ReasonGood, Running
<1>10. FilesGood'
  <2>1. WholeOnDisk(tree[recording.dir].files, [frames |-> frames, reason |-> "duration"])
    BY <1>1 DEF RecordInv, FilesGood
  <2>2. WholeOnDisk(tree[recording.dir].files,
                    [frames |-> frames, reason |-> "capture_error"])
    BY <2>1 DEF WholeOnDisk
  <2> QED BY <1>1, <1>5, <1>7, <2>1, <2>2 DEF RecordInv, FilesGood
<1>11. TicksGood'
  BY <1>1, <1>4, <1>6, <1>7 DEF TicksGood, InFrame
<1>12. FramesGood'
  BY <1>1, <1>5, <1>7 DEF RecordInv, FramesGood, InFrame
<1> QED BY <1>8, <1>9, <1>10, <1>11, <1>12 DEF RecordInv

\* The files go on mirroring the list when a frame is written whole, or not and the
\* recording ends, or when it ends otherwise.
LEMMA MirrorGrows ==
  ASSUME NEW fs \in Seq(Stills), NEW x \in Stills,
         NEW fl \in Seq([frame: Stills, whole: BOOLEAN]),
         WholeOnDisk(fl, [frames |-> fs, reason |-> "duration"])
  PROVE  /\ WholeOnDisk(Append(fl, [frame |-> x, whole |-> TRUE]),
                        [frames |-> Append(fs, x), reason |-> "duration"])
         /\ WholeOnDisk(Append(fl, [frame |-> x, whole |-> FALSE]),
                        [frames |-> fs, reason |-> "io_error"])
         /\ WholeOnDisk(fl, [frames |-> fs, reason |-> "byte_cap"])
<1> DEFINE n == Len(fs)
           good == [frame |-> x, whole |-> TRUE]
           bad == [frame |-> x, whole |-> FALSE]
<1>1. /\ n \in Nat /\ Len(fl) = n /\ DOMAIN fs = 1..n /\ DOMAIN fl = 1..n
      /\ \A i \in 1..n : fl[i] = [frame |-> fs[i], whole |-> TRUE]
  BY DEF WholeOnDisk
<1>2. good \in [frame: Stills, whole: BOOLEAN] /\ bad \in [frame: Stills, whole: BOOLEAN]
  OBVIOUS
<1>3. ~bad.whole
  OBVIOUS
<1> HIDE DEF good, bad
<1>4. /\ Len(Append(fl, good)) = n + 1 /\ DOMAIN Append(fl, good) = 1..(n + 1)
      /\ Append(fl, good)[n + 1] = good /\ \A i \in 1..n : Append(fl, good)[i] = fl[i]
      /\ Len(Append(fl, bad)) = n + 1 /\ DOMAIN Append(fl, bad) = 1..(n + 1)
      /\ Append(fl, bad)[n + 1] = bad /\ \A i \in 1..n : Append(fl, bad)[i] = fl[i]
      /\ Len(Append(fs, x)) = n + 1 /\ DOMAIN Append(fs, x) = 1..(n + 1)
      /\ Append(fs, x)[n + 1] = x /\ \A i \in 1..n : Append(fs, x)[i] = fs[i]
  BY <1>1, <1>2
<1> HIDE DEF n
<1>5. WholeOnDisk(Append(fl, good), [frames |-> Append(fs, x), reason |-> "duration"])
  <2>1. [frames |-> Append(fs, x), reason |-> "duration"].frames = Append(fs, x)
        /\ [frames |-> Append(fs, x), reason |-> "duration"].reason # "io_error"
    OBVIOUS
  <2>2. Len(Append(fl, good)) = Len(Append(fs, x)) + 0
    BY <1>1, <1>4 DEF n
  <2>3. ASSUME NEW i \in DOMAIN Append(fl, good)
        PROVE  /\ i \in DOMAIN Append(fs, x)
               /\ Append(fl, good)[i] = [frame |-> Append(fs, x)[i], whole |-> TRUE]
    <3>1. CASE i \in 1..n
      BY <1>1, <1>4, <3>1
    <3>2. CASE i = n + 1
      BY <1>4, <3>2 DEF good
    <3>3. i \in 1..n \/ i = n + 1
      BY <1>1, <1>4
    <3> QED BY <3>1, <3>2, <3>3
  <2> QED BY <2>1, <2>2, <2>3 DEF WholeOnDisk
<1>6. WholeOnDisk(Append(fl, bad), [frames |-> fs, reason |-> "io_error"])
  <2>1. Len(fs) = n
    BY DEF n
  <2> QED BY <1>1, <1>3, <1>4, <2>1 DEF WholeOnDisk
<1>7. WholeOnDisk(fl, [frames |-> fs, reason |-> "byte_cap"])
  BY DEF WholeOnDisk
<1> QED BY <1>5, <1>6, <1>7 DEF good, bad

\* A frame that is stored, or not, keeps the invariant.
LEMMA StoreStep ==
  ASSUME RecordInv, Store
  PROVE  RecordInv'
<1> DEFINE c == recording.args
           d == recording.dir
           shot == recording.shot
           target == FrameTarget(c)
           n == Len(frames)
<1>1. /\ recording.pc = "store" /\ Running /\ InFrame /\ UNCHANGED <<clock, due, scratch>>
      /\ recording.reason = "duration" /\ ~recording.error /\ scratch = Nil
      /\ shot \in Stills /\ shot.at = recording.at
  BY DEF Store, RecordInv, Running, InFrame, ReasonGood, PlaceGood, TicksGood
<1>2. /\ c \in Calls /\ Accepted(c) /\ target \in Nat \ {0} /\ c.duration \in Nat \ {0}
      /\ c.interval \in Nat \ {0} /\ recording.start \in Nat /\ recording.at \in Nat
      /\ clock \in Nat /\ due \in Nat /\ recording \in Recordings /\ n \in Nat
      /\ frames # <<>> => frames[n].at \in Nat
  BY <1>1, NumbersTyped
<1>3. /\ recording.start <= clock /\ due = recording.at + c.interval
      /\ recording.at <= clock
      /\ recording.at - recording.start < c.duration + c.interval
      /\ frames # <<>> => recording.at - frames[n].at >= c.interval
  BY <1>1 DEF RecordInv, TicksGood
<1>4. /\ frames \in Seq(Stills) /\ tree \in [DOMAIN tree -> Folders]
      /\ DOMAIN tree \subseteq Dirs /\ d \in DOMAIN tree /\ tree[d] \in Folders
      /\ tree[d].manifest = <<>> /\ tree[d].duration = c.duration
      /\ tree[d].files \in Seq([frame: Stills, whole: BOOLEAN])
  BY <1>1 DEF RecordInv, RecordTyped, PlaceGood, Folders
<1>5. WholeOnDisk(tree[d].files, [frames |-> frames, reason |-> "duration"])
  BY <1>1 DEF RecordInv, FilesGood
<1>6. n < target /\ Total <= ByteCap /\ (frames # <<>> => n <= target)
  BY <1>1 DEF RecordInv, FramesGood
<1>7. Total = Weight(frames) /\ Total' = Weight(frames') /\ Total \in Int
  BY <1>4, WeightGrows DEF Total, Weight
<1>8. shot.size \in Nat
  BY <1>1 DEF Stills
<1>9. CASE /\ recording' = [recording EXCEPT !.pc = "report", !.reason = "byte_cap"]
           /\ UNCHANGED <<frames, tree>>
  <2>1. /\ recording' \in Recordings /\ recording'.pc = "report" /\ recording'.args = c
        /\ recording'.dir = d /\ recording'.start = recording.start
        /\ recording'.reason = "byte_cap" /\ ~recording'.error
    BY <1>1, <1>2, <1>9 DEF Recordings, Reasons
  <2>2. Total' = Total /\ Reported' = Reported
    BY <1>9 DEF Total, Reported
  <2>3. RecordTyped'
    BY <1>1, <1>9, <2>1 DEF RecordInv, RecordTyped
  <2>4. PlaceGood' /\ ReasonGood'
    BY <1>1, <1>2, <1>4, <1>9, <2>1 DEF PlaceGood, ReasonGood
  <2>5. FilesGood'
    <3>1. WholeOnDisk(tree[d].files, [frames |-> frames, reason |-> "byte_cap"])
      BY <1>1, <1>4, <1>5, MirrorGrows
    <3> QED BY <1>9, <2>1, <2>2, <3>1 DEF RecordInv, FilesGood
  <2>6. TicksGood'
    BY <1>1, <1>3, <2>1 DEF TicksGood, InFrame
  <2>7. FramesGood'
    BY <1>9, <2>1, <2>2 DEF RecordInv, FramesGood, InFrame
  <2> QED BY <2>3, <2>4, <2>5, <2>6, <2>7 DEF RecordInv
<1> DEFINE put(whole) == [frame |-> shot, whole |-> whole]
           more(whole) == Append(tree[d].files, put(whole))
<1>10. ASSUME NEW whole \in BOOLEAN,
              tree' = [tree EXCEPT ![d].files = Append(@, [frame |-> shot, whole |-> whole])]
       PROVE  /\ tree' \in [DOMAIN tree' -> Folders] /\ DOMAIN tree' \subseteq Dirs
              /\ d \in DOMAIN tree' /\ tree'[d].manifest = <<>>
              /\ tree'[d].duration = c.duration /\ tree'[d].files = more(whole)
              /\ Reported' = Reported /\ \A e \in Reported : tree'[e] = tree[e]
  <2>1. more(whole) \in Seq([frame: Stills, whole: BOOLEAN])
    BY <1>1, <1>4
  <2> HIDE DEF d, shot
  <2>2. tree' = [tree EXCEPT ![d].files = more(whole)]
    BY <1>10, <1>4
  <2> HIDE DEF more
  <2>3. tree' = [tree EXCEPT ![d] = [tree[d] EXCEPT !.files = more(whole)]]
    BY <1>4, <2>2
  <2> DEFINE f == [tree[d] EXCEPT !.files = more(whole)]
  <2>4. /\ f \in Folders /\ f.manifest = <<>> /\ f.duration = c.duration
        /\ f.files = more(whole)
    BY <1>4, <2>1 DEF Folders
  <2> HIDE DEF f
  <2>5. /\ DOMAIN tree' = DOMAIN tree /\ tree'[d] = f
        /\ \A e \in DOMAIN tree \ {d} : tree'[e] = tree[e]
    BY <1>4, <2>3 DEF f
  <2>6. tree' \in [DOMAIN tree' -> Folders]
    BY <1>4, <2>3, <2>4 DEF f
  <2>7. Reported' = Reported /\ \A e \in Reported : e \in DOMAIN tree \ {d}
    BY <1>4, <2>4, <2>5 DEF Reported
  <2> QED BY <1>4, <2>4, <2>5, <2>6, <2>7
<1>11. CASE /\ frames' = Append(frames, shot)
            /\ tree' = [tree EXCEPT ![d].files = Append(@, [frame |-> shot, whole |-> TRUE])]
            /\ recording' = [recording EXCEPT !.pc = "loop"]
            /\ ~(Total + shot.size > ByteCap)
  <2>1. /\ recording' \in Recordings /\ recording'.pc = "loop" /\ recording'.args = c
        /\ recording'.dir = d /\ recording'.start = recording.start
        /\ recording'.reason = "duration" /\ ~recording'.error
    BY <1>1, <1>2, <1>11 DEF Recordings
  <2>2. /\ tree' \in [DOMAIN tree' -> Folders] /\ DOMAIN tree' \subseteq Dirs
        /\ d \in DOMAIN tree' /\ tree'[d].manifest = <<>>
        /\ tree'[d].duration = c.duration /\ tree'[d].files = more(TRUE)
        /\ Reported' = Reported /\ \A e \in Reported : tree'[e] = tree[e]
    BY <1>10, <1>11
  <2>3. /\ frames' \in Seq(Stills) /\ Len(frames') = n + 1 /\ frames' # <<>>
        /\ frames'[n + 1] = shot /\ \A i \in 1..n : frames'[i] = frames[i]
        /\ DOMAIN frames' = 1..(n + 1) /\ DOMAIN frames = 1..n
    BY <1>1, <1>4, <1>11
  <2>4. Total' <= ByteCap
    <3>1. Total' = Total + shot.size
      BY <1>1, <1>4, <1>7, <1>11, WeightGrows
    <3> QED BY <1>7, <1>8, <1>11, <3>1, RecordAssumption
  <2>5. RecordTyped'
    BY <1>1, <1>2, <2>1, <2>2, <2>3 DEF RecordTyped
  <2>6. PlaceGood' /\ ReasonGood'
    BY <1>1, <1>2, <2>1, <2>2 DEF PlaceGood, ReasonGood
  <2>7. FilesGood'
    <3>1. WholeOnDisk(more(TRUE), [frames |-> frames', reason |-> "duration"])
      BY <1>1, <1>4, <1>5, <1>11, MirrorGrows
    <3> QED BY <2>1, <2>2, <3>1 DEF RecordInv, FilesGood
  <2>8. TicksGood'
    <3>1. /\ due <= clock + c.interval /\ due - recording.at >= c.interval
          /\ frames'[Len(frames')].at = recording.at
      <4>1. frames'[Len(frames')].at = recording.at
        BY <1>1, <2>3
      <4> HIDE DEF c
      <4>2. /\ due \in Nat /\ recording.at \in Nat /\ clock \in Nat /\ c.interval \in Nat
            /\ due = recording.at + c.interval /\ recording.at <= clock
        BY <1>2, <1>3
      <4> QED BY <4>1, <4>2
    <3> QED BY <1>1, <1>3, <2>1, <2>3, <3>1 DEF TicksGood, InFrame
  <2>9. FramesGood'
    <3> HIDE DEF c, shot, target, n
    <3>1. Len(frames') <= target
      BY <1>2, <1>6, <2>3
    <3>2. ASSUME NEW i \in 2..Len(frames')
          PROVE  frames'[i].at - frames'[i - 1].at >= c.interval
      <4>1. i \in 2..(n + 1) /\ i - 1 \in 1..n
        BY <1>2, <2>3
      <4>2. CASE i = n + 1
        <5>1. n # 0 /\ frames # <<>>
          BY <1>2, <4>1, <4>2 DEF n
        <5>2. frames'[i] = shot /\ i - 1 = n /\ frames'[n] = frames[n]
          BY <1>2, <2>3, <4>1, <4>2
        <5> QED BY <1>1, <1>3, <5>1, <5>2
      <4>3. CASE i # n + 1
        <5>1. i \in 2..n /\ i \in 1..n
          BY <1>2, <4>1, <4>3
        <5>2. frames'[i] = frames[i] /\ frames'[i - 1] = frames[i - 1]
          BY <2>3, <4>1, <5>1
        <5>3. frames[i].at - frames[i - 1].at >= c.interval
          BY <5>1 DEF RecordInv, FramesGood, n, c
        <5> QED BY <5>2, <5>3
      <4> QED BY <4>2, <4>3
    <3>3. ASSUME NEW i \in DOMAIN frames'
          PROVE  frames'[i].at - recording.start < c.duration + c.interval
      <4>1. CASE i = n + 1
        BY <1>1, <1>3, <2>3, <4>1
      <4>2. CASE i # n + 1
        <5>1. i \in 1..n /\ i \in DOMAIN frames
          BY <1>2, <2>3, <4>2
        <5>2. frames[i].at - recording.start < c.duration + c.interval
          BY <5>1 DEF RecordInv, FramesGood, c
        <5> QED BY <2>3, <5>1, <5>2
      <4> QED BY <4>1, <4>2
    <3>4. recording'.pc \notin {"shoot", "store"}
      BY <2>1
    <3> QED BY <2>1, <2>4, <3>1, <3>2, <3>3, <3>4 DEF FramesGood, InFrame, c, target
  <2> QED BY <2>5, <2>6, <2>7, <2>8, <2>9 DEF RecordInv
<1>12. CASE /\ frames' = frames
            /\ tree' = [tree EXCEPT ![d].files = Append(@, [frame |-> shot, whole |-> FALSE])]
            /\ recording' = [recording EXCEPT !.pc = "report", !.reason = "io_error",
                                              !.error = TRUE]
  <2>1. /\ recording' \in Recordings /\ recording'.pc = "report" /\ recording'.args = c
        /\ recording'.dir = d /\ recording'.start = recording.start
        /\ recording'.reason = "io_error" /\ recording'.error
    BY <1>1, <1>2, <1>12 DEF Recordings, Reasons
  <2>2. /\ tree' \in [DOMAIN tree' -> Folders] /\ DOMAIN tree' \subseteq Dirs
        /\ d \in DOMAIN tree' /\ tree'[d].manifest = <<>>
        /\ tree'[d].duration = c.duration /\ tree'[d].files = more(FALSE)
        /\ Reported' = Reported /\ \A e \in Reported : tree'[e] = tree[e]
    BY <1>10, <1>12
  <2>3. RecordTyped'
    BY <1>1, <1>2, <1>4, <1>12, <2>1, <2>2 DEF RecordTyped
  <2>4. PlaceGood' /\ ReasonGood'
    BY <1>1, <1>2, <2>1, <2>2 DEF PlaceGood, ReasonGood
  <2>5. FilesGood'
    <3>1. WholeOnDisk(more(FALSE), [frames |-> frames, reason |-> "io_error"])
      BY <1>1, <1>4, <1>5, MirrorGrows
    <3>2. \A e \in Reported' :
            /\ WholeOnDisk(tree'[e].files, tree'[e].manifest[1])
            /\ tree'[e].manifest[1].reason = "duration" =>
                 \/ Len(tree'[e].manifest[1].frames) = tree'[e].manifest[1].target
                 \/ tree'[e].manifest[1].elapsed >= tree'[e].duration
      BY <2>2 DEF RecordInv, FilesGood
    <3> HIDE DEF d, more
    <3>3. WholeOnDisk(tree'[recording'.dir].files,
                      [frames |-> frames', reason |-> recording'.reason])
      BY <1>12, <2>1, <2>2, <3>1
    <3> QED BY <3>2, <3>3 DEF FilesGood
  <2>6. TicksGood'
    BY <1>1, <1>3, <2>1 DEF TicksGood, InFrame
  <2>7. FramesGood'
    <3>1. Total' = Total
      BY <1>12 DEF Total
    <3> QED BY <1>12, <2>1, <3>1 DEF RecordInv, FramesGood, InFrame
  <2> QED BY <2>3, <2>4, <2>5, <2>6, <2>7 DEF RecordInv
<1> QED BY <1>1, <1>9, <1>11, <1>12 DEF Store, Stored

\* A sequence of one.
LEMMA OneOfThem ==
  ASSUME NEW S, NEW x \in S
  PROVE  <<x>> \in Seq(S) /\ <<x>> # <<>> /\ <<x>>[1] = x
OBVIOUS

\* The end of a recording keeps the invariant, whether its manifest is written or not.
LEMMA ReportStep ==
  ASSUME RecordInv, Report
  PROVE  RecordInv'
<1> DEFINE c == recording.args
           d == recording.dir
<1>1. /\ recording.pc = "report" /\ Running
      /\ UNCHANGED <<clock, due, frames, scratch>> /\ scratch = Nil
      /\ recording.error <=> recording.reason \in {"capture_error", "io_error"}
  BY DEF Report, RecordInv, Running, ReasonGood, PlaceGood
<1>2. /\ c \in Calls /\ Accepted(c) /\ FrameTarget(c) \in Nat \ {0}
      /\ recording.start \in Nat /\ clock \in Nat /\ due \in Nat
      /\ recording \in Recordings /\ recording.start <= clock
  BY <1>1, NumbersTyped DEF RecordInv, TicksGood
<1>0. clock - recording.start \in Int
  BY <1>2
<1>3. /\ frames \in Seq(Stills) /\ tree \in [DOMAIN tree -> Folders]
      /\ DOMAIN tree \subseteq Dirs /\ d \in DOMAIN tree /\ tree[d] \in Folders
      /\ tree[d].duration = c.duration
  BY <1>1 DEF RecordInv, RecordTyped, PlaceGood
<1>4. Total' = Total /\ Total \in Int
  BY <1>1, <1>3, WeightGrows DEF Total, Weight
<1>5. PICK how \in {"ok", "error", "no manifest"} :
        /\ recording' = [recording EXCEPT !.pc = "done", !.result = how]
        /\ how = "ok" => ~(frames = <<>> /\ recording.error)
        /\ \/ how # "no manifest" /\ tree' = [tree EXCEPT ![d].manifest = <<Manifest>>]
           \/ how = "no manifest" /\ UNCHANGED tree
  BY DEF Report, ReturnWith
<1>6. /\ recording' \in Recordings /\ recording'.pc = "done" /\ recording'.args = c
      /\ recording'.dir = d /\ recording'.start = recording.start
      /\ recording'.reason = recording.reason /\ recording'.error = recording.error
      /\ recording'.result = how
  BY <1>2, <1>5 DEF Recordings
<1>7. how = "ok" => frames # <<>> \/ recording.reason = "byte_cap"
  <2>1. recording.reason = "duration" => frames # <<>>
    BY <1>1 DEF RecordInv, ReasonGood
  <2>2. recording.reason \in {"duration", "capture_error", "byte_cap", "io_error"}
    BY <1>2 DEF Recordings, Reasons
  <2> QED BY <1>1, <1>5, <2>1, <2>2
<1>8. TicksGood' /\ FramesGood'
  BY <1>1, <1>2, <1>4, <1>6 DEF RecordInv, TicksGood, FramesGood, Running, InFrame
<1>9. CASE how = "no manifest" /\ UNCHANGED tree
  <2>1. Reported' = Reported
    BY <1>9 DEF Reported
  <2>2. RecordTyped'
    BY <1>1, <1>6, <1>9 DEF RecordInv, RecordTyped
  <2>3. PlaceGood' /\ ReasonGood' /\ FilesGood'
    BY <1>1, <1>2, <1>6, <1>9, <2>1
       DEF RecordInv, PlaceGood, ReasonGood, FilesGood, Running
  <2> QED BY <1>8, <2>2, <2>3 DEF RecordInv
<1>10. CASE how # "no manifest" /\ tree' = [tree EXCEPT ![d].manifest = <<Manifest>>]
  <2> DEFINE m == Manifest
             f == [tree[d] EXCEPT !.manifest = <<m>>]
  <2>1. /\ m \in Manifests /\ m.frames = frames /\ m.reason = recording.reason
        /\ m.target = FrameTarget(c) /\ m.elapsed = clock - recording.start
    <3>1. /\ recording.region \in Views /\ recording.reason \in Reasons
          /\ recording.error \in BOOLEAN
      BY <1>2 DEF Recordings
    <3>2. m \in Manifests
      BY <1>2, <1>3, <1>4, <1>0, <3>1 DEF Manifest, Manifests
    <3> QED BY <3>2 DEF Manifest
  <2>2. tree' = [tree EXCEPT ![d] = f]
    BY <1>3, <1>10
  <2> HIDE DEF m
  <2>3. /\ f \in Folders /\ f.files = tree[d].files /\ f.duration = c.duration
        /\ f.manifest = <<m>> /\ f.manifest # <<>> /\ f.manifest[1] = m
    <3>0. m \in Manifests
      BY <2>1
    <3>1. <<m>> \in Seq(Manifests) /\ <<m>> # <<>> /\ <<m>>[1] = m
      BY <3>0, OneOfThem
    <3> DEFINE o == <<m>>
    <3>2. o \in Seq(Manifests)
      BY <3>1
    <3> HIDE DEF o, d
    <3>3. /\ [tree[d] EXCEPT !.manifest = o] \in Folders
          /\ [tree[d] EXCEPT !.manifest = o].files = tree[d].files
          /\ [tree[d] EXCEPT !.manifest = o].duration = c.duration
          /\ [tree[d] EXCEPT !.manifest = o].manifest = o
      BY <1>3, <3>2 DEF Folders
    <3> QED BY <3>1, <3>3 DEF o
  <2> HIDE DEF f, d
  <2>4. /\ DOMAIN tree' = DOMAIN tree /\ tree'[d] = f
        /\ \A e \in DOMAIN tree \ {d} : tree'[e] = tree[e]
        /\ tree' \in [DOMAIN tree' -> Folders]
    BY <1>3, <2>2, <2>3
  <2>5. d \in Reported' /\ \A e \in Reported' : e = d \/ (e \in Reported /\ tree'[e] = tree[e])
    BY <1>3, <2>3, <2>4 DEF Reported
  <2>6. WholeOnDisk(f.files, m)
    <3>1. WholeOnDisk(tree[d].files, [frames |-> frames, reason |-> recording.reason])
      BY <1>1 DEF RecordInv, FilesGood, d
    <3> QED BY <2>1, <2>3, <3>1 DEF WholeOnDisk
  <2>7. m.reason = "duration" => Len(m.frames) = m.target \/ m.elapsed >= f.duration
    BY <1>1, <2>1, <2>3 DEF RecordInv, ReasonGood
  <2>8. RecordTyped'
    BY <1>1, <1>2, <1>3, <1>6, <2>4 DEF RecordInv, RecordTyped
  <2>9. PlaceGood' /\ ReasonGood'
    BY <1>1, <1>2, <1>6, <1>7, <2>5 DEF RecordInv, PlaceGood, ReasonGood, Running
  <2>10. FilesGood'
    <3>1. ~Running'
      BY <1>6 DEF Running
    <3>2. \A e \in Reported : /\ WholeOnDisk(tree[e].files, tree[e].manifest[1])
                              /\ tree[e].manifest[1].reason = "duration" =>
                                   \/ Len(tree[e].manifest[1].frames) = tree[e].manifest[1].target
                                   \/ tree[e].manifest[1].elapsed >= tree[e].duration
      BY DEF RecordInv, FilesGood
    <3>3. tree'[d] = f /\ f.manifest[1] = m
      BY <2>3, <2>4
    <3> HIDE DEF m
    <3>4. ASSUME NEW e \in Reported'
          PROVE  /\ WholeOnDisk(tree'[e].files, tree'[e].manifest[1])
                 /\ tree'[e].manifest[1].reason = "duration" =>
                      \/ Len(tree'[e].manifest[1].frames) = tree'[e].manifest[1].target
                      \/ tree'[e].manifest[1].elapsed >= tree'[e].duration
      <4>1. CASE e = d
        BY <2>6, <2>7, <3>3, <4>1
      <4>2. CASE e \in Reported /\ tree'[e] = tree[e]
        BY <3>2, <4>2
      <4> QED BY <2>5, <4>1, <4>2
    <3> QED BY <3>1, <3>4 DEF FilesGood
  <2> QED BY <1>8, <2>8, <2>9, <2>10 DEF RecordInv
<1> QED BY <1>5, <1>9, <1>10

\* Every step keeps the invariant.
LEMMA RecordStep == RecordInv /\ [RecordNext]_recordVars => RecordInv'
<1> SUFFICES ASSUME RecordInv, [RecordNext]_recordVars PROVE RecordInv'
  OBVIOUS
<1>1. CASE UNCHANGED recordVars
  <2>1. Total' = Total /\ Reported' = Reported
    BY <1>1 DEF recordVars, Total, Reported
  <2>2. RecordTyped' /\ PlaceGood' /\ ReasonGood'
    BY <1>1, <2>1 DEF recordVars, RecordInv, RecordTyped, PlaceGood, ReasonGood, Running
  <2>3. FilesGood' /\ TicksGood' /\ FramesGood'
    BY <1>1, <2>1
       DEF recordVars, RecordInv, FilesGood, TicksGood, FramesGood, Running, InFrame
  <2> QED BY <2>2, <2>3 DEF RecordInv
<1>2. CASE Killed
  <2>1. /\ UNCHANGED <<tree, clock, due>> /\ frames' = <<>> /\ scratch' = Nil
        /\ recording' = NoRecording
    BY <1>2 DEF Killed
  <2>2. /\ recording' \in Recordings /\ recording'.dir = Nil /\ recording'.pc = "idle"
        /\ recording'.result # "ok" /\ recording'.reason = "duration" /\ ~recording'.error
    BY <2>1 DEF NoRecording, Recordings, Views, Reasons
  <2> QED BY <2>1, <2>2, NothingLeft
<1> QED
  BY <1>1, <1>2, BeginRecordingStep, TickStep, MakeScratchStep, ShootStep, StoreStep,
     ReportStep DEF RecordNext

\* The invariant says what is promised of a recording.
LEMMA RecordEnough == RecordInv => RecordingTold
<1> SUFFICES ASSUME RecordInv PROVE RecordingTold
  OBVIOUS
<1>1. ManifestTrue
  BY DEF RecordInv, FilesGood, ReasonGood, PlaceGood, ManifestTrue
<1>2. Paced
  BY DEF RecordInv, FramesGood, Paced
<1> QED BY <1>1, <1>2 DEF RecordingTold

\* Whatever the arrangement of the outputs and what they do during a call, a single shot
\* that is handed on shows what the screen showed, upright and in its colours; whatever
\* the arguments, the caps, the time captures take and the failures, a recording is
\* bounded and its manifest is what is on disk.
THEOREM CapturesSound == CapturesSpec => []CapturesTold
<1>1. RecordInit => RecordInv
  BY RecordStart
<1>2. RecordInv /\ [RecordNext]_recordVars => RecordInv'
  BY RecordStep
<1>3. ShotInit => ShotInv
  BY ShotStart
<1>4. ShotInv /\ [ShotNext]_shotVars => ShotInv'
  BY ShotStep
<1>5. RecordInv /\ ShotInv => CapturesTold
  BY RecordEnough, ShotEnough DEF CapturesTold
<1> QED BY <1>1, <1>2, <1>3, <1>4, <1>5, PTL DEF CapturesSpec, RecordSpec, ShotSpec
=============================================================================
