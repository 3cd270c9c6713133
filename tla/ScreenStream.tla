---------------------------- MODULE ScreenStream ----------------------------
(***************************************************************************)
(* screen_stream of ultranix-mcp (tools/stream.rs): one registry slot for  *)
(* the whole server, a capture task per stream that keeps a rolling window *)
(* of frames on disk, and start, latest and stop requests that race for    *)
(* the slot and with the task.                                             *)
(*                                                                         *)
(* Requests and tasks run on a multi-threaded runtime: every await, and    *)
(* every stretch between two lock acquisitions, is a step of its own.      *)
(***************************************************************************)
EXTENDS Naturals, Sequences, FiniteSets, Functions

CONSTANTS
  Clients,    \* requests that may be in flight at once
  MaxFrames,  \* rolling window: frames kept
  MaxBytes,   \* rolling window: bytes kept
  Sizes,      \* sizes a captured frame can have
  MaxStreams, \* bound: streams minted
  MaxSeq,     \* bound: frames the first stream writes; each later one, one less
  Watermarks, \* bound: the watermarks given to latest, or None
  Workloads,  \* for every behaviour, client -> the requests it makes in it
  None        \* Option::None

Streams == 1..MaxStreams

\* What a request can be told.
Answers == {"ok", "occupied", "none", "stopped", "aborted", "frame", "nothing", "error"}

ASSUME StreamAssumption ==
  /\ MaxFrames \in Nat \ {0} /\ MaxBytes \in Nat \ {0}
  /\ Sizes \subseteq Nat \ {0}
  /\ Watermarks \subseteq Nat \cup {None}
  /\ MaxStreams \in Nat /\ MaxSeq \in Nat
  /\ IsFiniteSet(Clients) /\ None \notin Nat \cup Answers
  /\ Workloads \subseteq [Clients -> SUBSET {"start", "stop", "latest"}]

VARIABLES
  ops,      \* the requests each client makes in this behaviour
  reg,      \* REGISTRY: the stream in the slot, or None
  minted,   \* streams minted so far; the last one has this id
  task,     \* stream -> its StreamState: step, frames, incoming frame, counters
  cancel,   \* streams whose cancel edge has been sent
  aborted,  \* streams whose task has been aborted
  stats,    \* stream -> its shared Stats
  files,    \* stream -> numbers of the frame files in its directory
  manifest, \* stream -> frames its manifest.json lists, or None
  req,      \* client -> its request
  orphans,  \* history variable: stream -> frames (0: the directory) whose
            \* removal failed; the code only logs it, or ignores it
  accepted  \* history variable: streams whose start succeeded

vars == <<ops, reg, minted, task, cancel, aborted, stats, files, manifest, req,
          orphans, accepted>>
requestVars == <<reg, minted, cancel, aborted, req, accepted>>
taskVars == <<task, stats, files, manifest, orphans>>

-----------------------------------------------------------------------------
(* The capture task *)

At(s, step) == task[s].pc = step

\* JoinHandle::is_finished is false.
Alive(s) == task[s].pc \notin {"unborn", "done"}

Becomes(s, t) == task' = [task EXCEPT ![s] = t]

Goto(s, step) == Becomes(s, [task[s] EXCEPT !.pc = step])

Numbers(frames) == {f.n : f \in Range(frames)}

\* buffered is the code's own count of the bytes in the window.
NewTask == [pc |-> "unborn", frames |-> <<>>, buffered |-> 0, size |-> 0,
            old |-> None, seq |-> 0]
NewStats == [latest |-> None, written |-> 0]

\* The task is over and its state is dropped.
End(s) == Becomes(s, [NewTask EXCEPT !.pc = "done"])

\* The loop breaks, for whatever reason.
Exit(s) == Becomes(s, [task[s] EXCEPT !.pc = "manifest", !.size = 0])

\* The cancel edge is raced against the tick, the capture and the session.
Cancelled(s) ==
  /\ At(s, "wait") /\ s \in cancel
  /\ Exit(s)
  /\ UNCHANGED <<requestVars, stats, files, manifest, orphans>>

\* The session thread or the polled provider delivers a frame, or fails; the
\* selects are biased, so a cancel that is already there wins.
Capture(s) ==
  /\ At(s, "wait") /\ s \notin cancel /\ task[s].seq < MaxSeq + 1 - s
  /\ \/ \E z \in Sizes : Becomes(s, [task[s] EXCEPT !.pc = "evict", !.size = z])
     \/ Exit(s)
  /\ UNCHANGED <<requestVars, stats, files, manifest, orphans>>

\* The incoming frame does not fit the window yet.
Full(t) == Len(t.frames) >= MaxFrames \/ t.buffered + t.size > MaxBytes

\* Oldest first; a frame that never fits has evicted all and is dropped.
Evict(s) ==
  /\ At(s, "evict")
  /\ LET t == task[s] IN
     \/ /\ t.frames # <<>> /\ Full(t)
        /\ Becomes(s, [t EXCEPT !.pc = "unlink", !.frames = Tail(t.frames),
                                !.old = Head(t.frames)])
     \/ /\ t.frames = <<>> \/ ~Full(t)
        /\ Becomes(s, IF t.size > MaxBytes
                      THEN [t EXCEPT !.pc = "count", !.size = 0]
                      ELSE [t EXCEPT !.pc = "write", !.seq = t.seq + 1])
  /\ UNCHANGED <<requestVars, stats, files, manifest, orphans>>

\* saturating_sub
Less(a, b) == IF a > b THEN a - b ELSE 0

\* The evicted frame goes; one that cannot be unlinked stays, unaccounted.
Unlink(s) ==
  /\ At(s, "unlink")
  /\ LET t == task[s] IN
     /\ \/ files' = [files EXCEPT ![s] = @ \ {t.old.n}] /\ UNCHANGED orphans
        \/ orphans' = [orphans EXCEPT ![s] = @ \cup {t.old.n}] /\ UNCHANGED files
     /\ Becomes(s, [t EXCEPT !.pc = "evict", !.old = None,
                             !.buffered = Less(t.buffered, t.old.size)])
  /\ UNCHANGED <<requestVars, stats, manifest>>

\* write_leaf; one that fails may leave a part of the file behind.
WriteFrame(s) ==
  /\ At(s, "write")
  /\ \/ /\ files' = [files EXCEPT ![s] = @ \cup {task[s].seq}]
        /\ LET t == task[s] IN
           Becomes(s, [t EXCEPT !.pc = "publish", !.size = 0,
             !.frames = Append(t.frames, [n |-> t.seq, size |-> t.size]),
             !.buffered = t.buffered + t.size])
     \/ /\ \E left \in SUBSET {task[s].seq} :
             files' = [files EXCEPT ![s] = @ \cup left]
        /\ Exit(s)
  /\ UNCHANGED <<requestVars, stats, manifest, orphans>>

\* First lock section: the newest frame.
Publish(s) ==
  /\ At(s, "publish")
  /\ stats' = [stats EXCEPT ![s].latest = task[s].seq]
  /\ Goto(s, "count")
  /\ UNCHANGED <<requestVars, files, manifest, orphans>>

\* Second lock section: the counters.
Count(s) ==
  /\ At(s, "count")
  /\ stats' = [stats EXCEPT ![s].written = task[s].seq]
  /\ Goto(s, "wait")
  /\ UNCHANGED <<requestVars, files, manifest, orphans>>

\* MUTANT of Listed: every frame that was ever written.
ListedWritten(s) == 1..task[s].seq

\* The manifest lists the rolling window as it is at the exit.
Listed(s) == Numbers(task[s].frames)

\* The task ends; a manifest that cannot be written is given up.
WriteManifest(s) ==
  /\ At(s, "manifest")
  /\ \/ manifest' = [manifest EXCEPT ![s] = Listed(s)]
     \/ UNCHANGED manifest
  /\ End(s)
  /\ UNCHANGED <<requestVars, stats, files, orphans>>

\* An abort takes effect at an await.  Blocking file work that has started is
\* not undone: the unlink or the write may still happen.  Drop tries to write
\* the manifest the loop did not get to.
Abort(s) ==
  /\ s \in aborted
  /\ task[s].pc \in {"wait", "unlink", "write", "manifest"}
  /\ \/ UNCHANGED files
     \/ At(s, "unlink") /\ files' = [files EXCEPT ![s] = @ \ {task[s].old.n}]
     \/ At(s, "write") /\ files' = [files EXCEPT ![s] = @ \cup {task[s].seq}]
  /\ \/ manifest' = [manifest EXCEPT ![s] = Listed(s)]
     \/ UNCHANGED manifest
  /\ End(s)
  /\ UNCHANGED <<requestVars, stats, orphans>>

-----------------------------------------------------------------------------
(* start *)

Reading(c, step) == req[c].pc = step

Idle == [pc |-> "idle", sid |-> None, n |-> None, since |-> None, floor |-> 0,
         out |-> None]

Now(c, r) == req' = [req EXCEPT ![c] = r]

\* What the request was about only matters to the answers that name it.
Reply(c, answer) ==
  LET kept == IF answer \in {"frame", "occupied"} THEN req[c] ELSE Idle
  IN Now(c, [kept EXCEPT !.pc = "replied", !.out = answer])

Occupied == reg # None /\ Alive(reg)

\* Bound: a directory name is left for every start under way.
IdsSuffice == minted + Cardinality({c \in Clients : Reading(c, "mint")}) < MaxStreams

\* The cheap look at the slot.
Start(c) ==
  /\ Reading(c, "idle") /\ "start" \in ops[c]
  /\ IF Occupied THEN Reply(c, "occupied")
     ELSE IdsSuffice /\ Now(c, [req[c] EXCEPT !.pc = "mint"])
  /\ UNCHANGED <<reg, minted, taskVars, cancel, aborted, accepted>>

\* A fresh directory, and the task is already spawned; no lock is held.
Mint(c) ==
  /\ Reading(c, "mint")
  /\ minted' = minted + 1
  /\ Goto(minted', "wait")
  /\ Now(c, [req[c] EXCEPT !.pc = "insert", !.sid = minted'])
  /\ UNCHANGED <<reg, stats, files, manifest, cancel, aborted, orphans, accepted>>

\* MUTANT of Insert: the slot is not looked at again.
InsertUnchecked(c) ==
  /\ Reading(c, "insert")
  /\ reg' = req[c].sid /\ accepted' = accepted \cup {req[c].sid}
  /\ Reply(c, "ok")
  /\ UNCHANGED <<minted, taskVars, cancel, aborted>>

\* The look that counts: a dead stream is displaced; a live one wins, and the
\* task that was spawned in vain is cancelled and aborted.
Insert(c) ==
  /\ Reading(c, "insert")
  /\ LET s == req[c].sid IN
     \/ /\ ~Occupied
        /\ reg' = s /\ accepted' = accepted \cup {s} /\ Reply(c, "ok")
        /\ UNCHANGED <<cancel, aborted>>
     \/ /\ Occupied
        /\ cancel' = cancel \cup {s} /\ aborted' = aborted \cup {s}
        /\ Now(c, [req[c] EXCEPT !.pc = "await"])
        /\ UNCHANGED <<reg, accepted>>
  /\ UNCHANGED <<minted, taskVars>>

\* The loser's directory goes once its task has, if it can be removed.
RemoveDir(c) ==
  /\ Reading(c, "await") /\ ~Alive(req[c].sid)
  /\ \/ /\ files' = [files EXCEPT ![req[c].sid] = {}]
        /\ manifest' = [manifest EXCEPT ![req[c].sid] = None]
        /\ UNCHANGED orphans
     \/ /\ orphans' = [orphans EXCEPT ![req[c].sid] = @ \cup {0}]
        /\ UNCHANGED <<files, manifest>>
  /\ Reply(c, "occupied")
  /\ UNCHANGED <<reg, minted, task, stats, cancel, aborted, accepted>>

-----------------------------------------------------------------------------
(* stop *)

\* The slot is free from here on, whatever the task still does.
Stop(c) ==
  /\ Reading(c, "idle") /\ "stop" \in ops[c]
  /\ \/ /\ reg = None /\ Reply(c, "none") /\ UNCHANGED <<reg, cancel>>
     \/ /\ reg # None
        /\ reg' = None /\ cancel' = cancel \cup {reg}
        /\ Now(c, [req[c] EXCEPT !.pc = "join", !.sid = reg])
  /\ UNCHANGED <<minted, taskVars, aborted, accepted>>

Join(c) ==
  /\ Reading(c, "join") /\ ~Alive(req[c].sid)
  /\ Reply(c, "stopped")
  /\ UNCHANGED <<reg, minted, taskVars, cancel, aborted, accepted>>

\* 15 seconds have passed.
Watchdog(c) ==
  /\ Reading(c, "join")
  /\ aborted' = aborted \cup {req[c].sid}
  /\ Now(c, [req[c] EXCEPT !.pc = "reap"])
  /\ UNCHANGED <<reg, minted, taskVars, cancel, accepted>>

\* The task has gone, or two more seconds have.
Reap(c) ==
  /\ Reading(c, "reap")
  /\ Reply(c, "aborted")
  /\ UNCHANGED <<reg, minted, taskVars, cancel, aborted, accepted>>

-----------------------------------------------------------------------------
(* latest *)

\* What latest is after, and what it knows; floor is the newest frame when it
\* was asked, as long as the stream is the same.
Query(step, sid, n, since, floor) ==
  [pc |-> step, sid |-> sid, n |-> n, since |-> since, floor |-> floor, out |-> None]

Newest(s) == IF s = None \/ stats[s].latest = None THEN 0 ELSE stats[s].latest

Same(c, value, other) == IF req[c].sid = reg THEN value ELSE other

Latest(c) ==
  /\ Reading(c, "idle") /\ "latest" \in ops[c]
  /\ \E w \in Watermarks : Now(c, Query("poll", reg, None, w, Newest(reg)))
  /\ UNCHANGED <<reg, minted, taskVars, cancel, aborted, accepted>>

\* MUTANT of FreshEnough: the frame the caller has seen will do.
FreshEnoughAgain(c) ==
  /\ stats[reg].latest # None
  /\ req[c].since # None => stats[reg].written >= req[c].since

FreshEnough(c) ==
  /\ stats[reg].latest # None
  /\ req[c].since # None => stats[reg].written > req[c].since

\* The snapshot under the two locks; past the deadline there is nothing new.
Poll(c) ==
  /\ Reading(c, "poll")
  /\ \/ reg = None /\ Reply(c, "none")
     \/ /\ reg # None /\ FreshEnough(c)
        /\ Now(c, Query("read", reg, stats[reg].latest, req[c].since,
                        Same(c, req[c].floor, 0)))
     \/ reg # None /\ ~FreshEnough(c) /\ Reply(c, "nothing")
  /\ UNCHANGED <<reg, minted, taskVars, cancel, aborted, accepted>>

Present(c) == req[c].n \in files[req[c].sid]

ReadFrame(c) ==
  /\ Reading(c, "read")
  /\ \/ Present(c) /\ Reply(c, "frame")
     \/ ~Present(c) /\ Now(c, [req[c] EXCEPT !.pc = "again"])
  /\ UNCHANGED <<reg, minted, taskVars, cancel, aborted, accepted>>

\* The frame was evicted: the newest frame now, of the stream there is now.
Resnapshot(c) ==
  /\ Reading(c, "again")
  /\ LET moved == /\ reg # None /\ stats[reg].latest # None
                  /\ reg # req[c].sid \/ stats[reg].latest # req[c].n
     IN \/ /\ moved
           /\ Now(c, Query("reread", reg, stats[reg].latest,
                           Same(c, req[c].since, None), Same(c, req[c].floor, 0)))
        \/ ~moved /\ Reply(c, "error")
  /\ UNCHANGED <<reg, minted, taskVars, cancel, aborted, accepted>>

Reread(c) ==
  /\ Reading(c, "reread")
  /\ Reply(c, IF Present(c) THEN "frame" ELSE "error")
  /\ UNCHANGED <<reg, minted, taskVars, cancel, aborted, accepted>>

\* The answer reaches the client.
Return(c) ==
  /\ Reading(c, "replied")
  /\ Now(c, Idle)
  /\ UNCHANGED <<reg, minted, taskVars, cancel, aborted, accepted>>

-----------------------------------------------------------------------------

Init ==
  /\ ops \in Workloads
  /\ reg = None /\ minted = 0
  /\ task = [s \in Streams |-> NewTask]
  /\ cancel = {} /\ aborted = {}
  /\ stats = [s \in Streams |-> NewStats]
  /\ files = [s \in Streams |-> {}]
  /\ manifest = [s \in Streams |-> None]
  /\ req = [c \in Clients |-> Idle]
  /\ orphans = [s \in Streams |-> {}] /\ accepted = {}

Run(s) ==
  \/ Cancelled(s) \/ Abort(s) \/ Capture(s) \/ Evict(s) \/ Unlink(s)
  \/ WriteFrame(s) \/ Publish(s) \/ Count(s) \/ WriteManifest(s)

Serve(c) ==
  \/ Start(c) \/ Mint(c) \/ Insert(c) \/ RemoveDir(c)
  \/ Stop(c) \/ Join(c) \/ Watchdog(c) \/ Reap(c)
  \/ Latest(c) \/ Poll(c) \/ ReadFrame(c) \/ Resnapshot(c) \/ Reread(c)
  \/ Return(c)

Next == ((\E s \in Streams : Run(s)) \/ (\E c \in Clients : Serve(c))) /\ UNCHANGED ops

Spec == Init /\ [][Next]_vars

-----------------------------------------------------------------------------
(* Properties *)

\* The sizes of the first k frames, summed.
Totals(frames) ==
  LET sum[k \in 0..Len(frames)] == IF k = 0 THEN 0 ELSE sum[k - 1] + frames[k].size
  IN sum
Bytes(frames) == Totals(frames)[Len(frames)]

\* The rolling window holds: no stream ever has more frames on disk than
\* max_frames, those whose removal failed aside, and what it buffers fits
\* max_bytes (run_stream, "eviction runs before each write").
WindowBounded ==
  \A s \in Streams :
    /\ Cardinality(files[s] \ orphans[s]) <= MaxFrames
    /\ Bytes(task[s].frames) <= MaxBytes

\* A directory describes itself: a manifest lists frames that are there, and
\* all of them but orphans and the one a fault or an abort left half-handled.
ManifestDescribes ==
  \A s \in Streams : manifest[s] # None =>
    /\ manifest[s] \subseteq files[s]
    /\ Cardinality(files[s] \ (manifest[s] \cup orphans[s])) <= 1

\* What is on disk is bounded and accounted for, whatever fails.
WindowKept == WindowBounded /\ ManifestDescribes

\* No stream runs on unreachable: one whose start succeeded and whose task is
\* alive is in the slot or has been told to end, however starts race; and a
\* start that lost its race leaves nothing behind: no task, and no directory
\* unless its removal failed.
NoStrayStream ==
  /\ \A s \in accepted : Alive(s) => reg = s \/ s \in cancel
  /\ \A c \in Clients :
       (req[c].pc = "replied" /\ req[c].out = "occupied" /\ req[c].sid # None) =>
         /\ ~Alive(req[c].sid)
         /\ 0 \notin orphans[req[c].sid] =>
              files[req[c].sid] = {} /\ manifest[req[c].sid] = None

\* latest never goes back: the frame it returns is newer than the watermark
\* the caller gave, and no older than the newest one when it was asked,
\* unless another stream has taken the slot meanwhile.
LatestNewer ==
  \A c \in Clients : req[c].out = "frame" =>
    /\ req[c].since # None => req[c].n > req[c].since
    /\ req[c].n >= req[c].floor

\* "A second start while a task is alive is rejected" (stream.rs 19-23).
SingleStream == Cardinality({s \in accepted : Alive(s)}) <= 1
=============================================================================
