---------------------------- MODULE ScreenRecord ----------------------------
(***************************************************************************)
(* screen_record over the capture helpers grim and scrot: a burst of       *)
(* frames, one every interval, in a directory of the call's own, with a    *)
(* manifest; each frame is taken by a helper process into a directory that *)
(* lives as long as the capture.                                           *)
(*                                                                         *)
(* Time is a clock in units of the interval's resolution.                  *)
(***************************************************************************)
EXTENDS Integers, Sequences, FiniteSets, FiniteSetsExt, Functions

CONSTANTS
  Calls,        \* [duration, interval, scope]: the arguments explored
  MinDuration, MaxDuration, MinInterval, MaxInterval, FrameCap, ByteCap,
  ShotSizes,        \* sizes of a frame
  Slowness,     \* how long a capture may take
  Dirs,         \* names a directory may get
  Nil,
  MaxCalls, MaxFaults  \* bounds: calls, faults

ASSUME RecordAssumption ==
  /\ MinDuration \in Nat \ {0} /\ MinInterval \in Nat \ {0} /\ FrameCap \in Nat \ {0}
  /\ MaxDuration \in Nat /\ MaxInterval \in Nat
  /\ ByteCap \in Nat /\ ShotSizes \subseteq Nat /\ Slowness \subseteq Nat
  /\ \A c \in Calls: c.duration \in Nat /\ c.interval \in Nat

VARIABLES
  helper,    \* "grim" or "scrot"
  slurp,     \* slurp is installed
  base,      \* where directories can be made: the state directory and /tmp
  clock,
  recording,      \* the call in flight
  due,       \* when the ticker fires next
  frames,    \* the frames the call lists: [size, at, shows]
  tree,      \* [directory -> [place, files, duration, manifest: <<>> or <<it>>]]
  scratch,   \* the capture's directory, if there is one
  calls, faults

recordVars == <<helper, slurp, base, clock, recording, due, frames, tree, scratch, calls, faults>>
fixedVars == <<helper, slurp, base>>

NoRecording == [pc |-> "idle", args |-> Nil, region |-> Nil, dir |-> Nil, start |-> 0,
           shot |-> Nil, at |-> 0, reason |-> "duration", error |-> FALSE, result |-> "none"]

RecordInit ==
  /\ helper \in {"grim", "scrot"}
  /\ slurp \in (IF helper = "grim" THEN BOOLEAN ELSE {FALSE})
  /\ base \in SUBSET {"state", "tmp"}
  /\ clock = 0 /\ due = 0
  /\ recording = NoRecording /\ frames = <<>> /\ tree = <<>> /\ scratch = Nil
  /\ calls = 0 /\ faults = 0

-----------------------------------------------------------------------------
(* The arguments.                                                          *)

FrameTarget(c) ==
  LET n == c.duration \div c.interval
  IN IF n < 1 THEN 1 ELSE IF n > FrameCap THEN FrameCap ELSE n

Accepted(c) ==
  /\ c.duration \in MinDuration..MaxDuration
  /\ c.interval \in MinInterval..MaxInterval
  /\ c.scope # "empty region"

\* A region wins over a display, and a display over the whole layout; what a
\* display comes to is the backend's answer.
RegionsOf(c) ==
  CASE c.scope = "region" -> {"asked"}
    [] c.scope = "display" -> {"output", "invalid", "error"}
    [] c.scope \notin {"region", "display"} -> {"layout"}

\* A fresh directory under the captures of the state directory, or else under
\* /tmp: creating one that exists fails, and another name is tried.
Places == IF "state" \in base THEN {"state"} ELSE base
Leaf(c) ==
  [place |-> IF "state" \in base THEN "state" ELSE "tmp", files |-> <<>>, manifest |-> <<>>,
   duration |-> c.duration]

ReturnWith(how) == recording' = [recording EXCEPT !.pc = "done", !.result = how]

BeginRecording(c) ==
  /\ recording.pc \in {"idle", "done"} /\ calls < MaxCalls
  /\ calls' = calls + 1
  /\ frames' = <<>>
  /\ IF ~Accepted(c)
     THEN recording' = [NoRecording EXCEPT !.pc = "done", !.args = c, !.result = "invalid"]
          /\ UNCHANGED <<due, tree>>
     ELSE \E r \in RegionsOf(c):
       IF r \in {"invalid", "error"} \/ Places = {}
       THEN recording' = [NoRecording EXCEPT !.pc = "done", !.args = c,
                       !.result = IF r = "invalid" THEN r ELSE "error"]
            /\ UNCHANGED <<due, tree>>
       ELSE \E d \in Dirs \ DOMAIN tree:
              /\ tree' = [e \in DOMAIN tree \union {d} |-> IF e = d THEN Leaf(c) ELSE tree[e]]
              /\ due' = clock
              /\ recording' = [NoRecording EXCEPT !.pc = "loop", !.args = c, !.region = r, !.dir = d,
                                        !.start = clock]
  /\ UNCHANGED <<fixedVars, clock, scratch, faults>>

-----------------------------------------------------------------------------
(* One frame.                                                              *)

Wanted == Len(frames) < FrameTarget(recording.args) /\ clock - recording.start < recording.args.duration

\* A tick that is taken late puts the next one an interval after it.
NextDue(now, interval) == (IF now > due THEN now ELSE due) + interval
Tick ==
  /\ recording.pc = "loop"
  /\ IF Wanted
     THEN /\ clock' = IF clock > due THEN clock ELSE due
          /\ due' = NextDue(clock, recording.args.interval)
          /\ recording' = [recording EXCEPT !.pc = "shoot", !.at = clock']
     ELSE recording' = [recording EXCEPT !.pc = "report"] /\ UNCHANGED <<clock, due>>
  /\ UNCHANGED <<fixedVars, frames, tree, scratch, calls, faults>>

MakeScratch ==
  /\ recording.pc = "shoot" /\ scratch = Nil
  /\ scratch' = "made"
  /\ UNCHANGED <<fixedVars, clock, recording, due, frames, tree, calls, faults>>

\* What the frame shows: grim with a region asks the user to drag one, if slurp
\* is there, and takes the rectangle it was given otherwise.
ShownArea ==
  IF helper = "grim" /\ slurp /\ recording.region # "layout" THEN {"dragged"} ELSE {recording.region}

\* The helper runs and its file is read back; the directory goes in either
\* case.
Shoot(slow) ==
  /\ recording.pc = "shoot" /\ scratch = "made"
  /\ clock' = clock + slow
  /\ scratch' = Nil
  /\ \/ /\ \E size \in ShotSizes, area \in ShownArea:
             recording' = [recording EXCEPT !.pc = "store",
                                  !.shot = [size |-> size, at |-> recording.at, shows |-> area]]
        /\ UNCHANGED faults
     \/ /\ faults < MaxFaults
        /\ faults' = faults + 1
        /\ recording' = [recording EXCEPT !.pc = "report", !.reason = "capture_error", !.error = TRUE]
  /\ UNCHANGED <<fixedVars, due, frames, tree, calls>>

Total == SumFunctionOnSet([i \in DOMAIN frames |-> frames[i].size], DOMAIN frames)

\* MUTANT of Stored: a frame is listed although its write fails.
StoredEarly(whole) ==
  /\ frames' = Append(frames, recording.shot)
  /\ tree' = [tree EXCEPT ![recording.dir].files = Append(@, [frame |-> recording.shot, whole |-> whole])]
\* A frame on disk is listed when it is there whole.
Stored(whole) ==
  /\ frames' = IF whole THEN Append(frames, recording.shot) ELSE frames
  /\ tree' = [tree EXCEPT ![recording.dir].files = Append(@, [frame |-> recording.shot, whole |-> whole])]

Store ==
  /\ recording.pc = "store"
  /\ IF Total + recording.shot.size > ByteCap
     THEN /\ recording' = [recording EXCEPT !.pc = "report", !.reason = "byte_cap"]
          /\ UNCHANGED <<frames, tree, faults>>
     ELSE \/ /\ Stored(TRUE)
             /\ recording' = [recording EXCEPT !.pc = "loop"]
             /\ UNCHANGED faults
          \/ /\ faults < MaxFaults
             /\ faults' = faults + 1
             /\ Stored(FALSE)
             /\ recording' = [recording EXCEPT !.pc = "report", !.reason = "io_error", !.error = TRUE]
  /\ UNCHANGED <<fixedVars, clock, due, scratch, calls>>

-----------------------------------------------------------------------------
(* The end.                                                                *)

Manifest ==
  [frames |-> frames, region |-> recording.region, target |-> FrameTarget(recording.args),
   elapsed |-> clock - recording.start, bytes |-> Total, truncated |-> recording.reason = "byte_cap",
   reason |-> recording.reason, error |-> recording.error]

\* A recording without a frame is an error of the tool.
Report ==
  /\ recording.pc = "report"
  /\ \/ /\ tree' = [tree EXCEPT ![recording.dir].manifest = <<Manifest>>]
        /\ ReturnWith(IF frames = <<>> /\ recording.error THEN "error" ELSE "ok")
        /\ UNCHANGED faults
     \/ /\ faults < MaxFaults
        /\ faults' = faults + 1
        /\ ReturnWith("no manifest")
        /\ UNCHANGED tree
  /\ UNCHANGED <<fixedVars, clock, due, frames, scratch, calls>>

\* The server stops in the middle of a call; what it wrote stays, the directory
\* of a capture too, and is nobody's.
Killed ==
  /\ recording.pc \notin {"idle", "done"} /\ faults < MaxFaults
  /\ faults' = faults + 1
  /\ recording' = NoRecording
  /\ frames' = <<>> /\ scratch' = Nil
  /\ UNCHANGED <<fixedVars, clock, due, tree, calls>>

RecordNext ==
  \/ \E c \in Calls: BeginRecording(c)
  \/ Tick \/ MakeScratch \/ Store \/ Report \/ Killed
  \/ \E slow \in Slowness: Shoot(slow)

RecordSpec == RecordInit /\ [][RecordNext]_recordVars
-----------------------------------------------------------------------------
(* Properties.                                                             *)

Reported == {d \in DOMAIN tree: tree[d].manifest # <<>>}
\* The files are those of the frames, whole and in order, and the one whose write
\* failed, if that is what ended the recording.
WholeOnDisk(files, m) ==
  /\ Len(files) = Len(m.frames) + (IF m.reason = "io_error" THEN 1 ELSE 0)
  /\ \A i \in DOMAIN files:
       IF i \in DOMAIN m.frames THEN files[i] = [frame |-> m.frames[i], whole |-> TRUE]
       ELSE ~files[i].whole

\* Whatever fails on the way, a manifest lists the frames that are whole on
\* disk, in order, and says why the recording ended; at most one file is not
\* listed, the one whose write failed.  A call that came back left its manifest
\* (unless that is the failure it reports) and no directory of its captures.
ManifestTrue ==
  /\ \A d \in Reported:
       LET m == tree[d].manifest[1]
       IN /\ WholeOnDisk(tree[d].files, m)
          /\ m.reason = "duration" =>
               (Len(m.frames) = m.target \/ m.elapsed >= tree[d].duration)
  /\ recording.pc = "done" =>
       /\ scratch = Nil
       /\ (recording.dir # Nil /\ recording.result # "no manifest") =>
            recording.dir \in Reported
       /\ recording.result = "ok" => frames # <<>> \/ recording.reason = "byte_cap"

\* A recording is bounded: no more frames than the arguments ask for, no more
\* bytes than the cap, captures at least an interval apart however long each
\* takes, and none begun later than an interval after the duration.
Paced ==
  /\ Len(frames) > 0 => Len(frames) <= FrameTarget(recording.args) /\ Total <= ByteCap
  /\ \A i \in 2..Len(frames): frames[i].at - frames[i - 1].at >= recording.args.interval
  /\ \A i \in DOMAIN frames:
       frames[i].at - recording.start < recording.args.duration + recording.args.interval

RecordingTold == ManifestTrue /\ Paced

\* docs/TOOLS.md:1300, of the scope of a recording: "explicit `region` wins".
RegionHonoured ==
  \A d \in Reported: LET m == tree[d].manifest[1]
                     IN \A i \in DOMAIN m.frames: m.frames[i].shows = m.region
=============================================================================
