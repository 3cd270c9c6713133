---------------------------- MODULE ScreenVision ----------------------------
(***************************************************************************)
(* The tools that look at the screen (tools/vision.rs) and the vision      *)
(* provider they ask (providers/onnx_vision.rs): the scope of a capture,   *)
(* the cache of results, the models that are fetched on first use, and the *)
(* way back from the frame's pixels to the layout.                         *)
(*                                                                         *)
(* The layout is a line.  A label is drawn on an interval of it; a frame   *)
(* is the width of its scope in pixels with the labels on it.  The models  *)
(* themselves are external and read every label right.                     *)
(***************************************************************************)
EXTENDS Integers, Sequences, FiniteSets

CONSTANTS
  Callers, Asks,      \* caller -> the calls it may make
  Layouts, Screens,   \* output name -> interval; label -> interval
  Settings,           \* [outputs, scale (pixels per unit), shown, stored] at first
  Files,              \* engine -> the files it needs
  None, Cap, Ttl, MaxClock, MaxChanges, MaxCalls, MaxFaults

VARIABLES
  outputs, scale, shown, \* the layout and what it shows
  changes,            \* changes of these and of the focus, and crashes, so far
  clock, focus,       \* SPATIAL_FOCUS
  cache,              \* key -> [at, hits]
  engine,             \* engine -> the state of its OnceLock, and its fetches
  disk,               \* file -> [dest, part]
  caller, calls, faults

visionVars == <<outputs, scale, shown, changes, clock, focus, cache, engine, disk, caller,
                calls, faults>>

Engines == {"ocr", "icon"}
NoCall == [pc |-> "idle", ask |-> None, began |-> 0, scope |-> None, frame |-> None,
           hits |-> None, files |-> <<>>, answer |-> None]
Unset == [e \in Engines |-> [is |-> "unset", fetched |-> <<>>]]

Init ==
  /\ \E s \in Settings:
       /\ outputs = s.outputs /\ scale = s.scale /\ shown = s.shown
       /\ disk = [f \in DOMAIN s.stored |-> [dest |-> s.stored[f], part |-> "none"]]
  /\ changes = 0 /\ clock = 0 /\ focus = None /\ cache = <<>> /\ engine = Unset
  /\ caller = [c \in Callers |-> NoCall]
  /\ calls = 0 /\ faults = 0

-----------------------------------------------------------------------------
(* Intervals, frames.                                                      *)

Span(lo, hi) == [lo |-> lo, hi |-> hi]
Meets(a, b) == a.lo < b.hi /\ b.lo < a.hi
Within(a, b) == a.lo >= b.lo /\ a.hi <= b.hi
Whole == LET ends == {outputs[o].lo : o \in DOMAIN outputs}
             stops == {outputs[o].hi : o \in DOMAIN outputs}
         IN Span(CHOOSE x \in ends: \A y \in ends: x <= y,
                 CHOOSE x \in stops: \A y \in stops: x >= y)
Clipped(a, s) == Span(IF a.lo < s.lo THEN s.lo ELSE a.lo, IF a.hi > s.hi THEN s.hi ELSE a.hi)

Item(label, span) == [label |-> label, lo |-> span.lo, hi |-> span.hi]
\* The labels that meet an interval, as far as they do, in units of the layout.
InView(s) == {Item(l, Clipped(shown[l], s)) : l \in {l \in DOMAIN shown: Meets(shown[l], s)}}
\* The frame of a scope.
FrameOf(scope) ==
  LET s == IF scope = None THEN Whole ELSE scope
  IN [width |-> (s.hi - s.lo) * scale,
      items |-> {[i EXCEPT !.lo = (@ - s.lo) * scale, !.hi = (@ - s.lo) * scale] : i \in InView(s)}]

-----------------------------------------------------------------------------
(* What goes on around the calls.                                          *)

Changed == changes < MaxChanges /\ changes' = changes + 1
Redraw(s) == /\ s # shown /\ Changed /\ shown' = s
             /\ UNCHANGED <<outputs, scale, clock, focus, cache, engine, disk, caller, calls,
                            faults>>
Rearrange(o) == /\ o # outputs /\ Changed /\ outputs' = o
                /\ UNCHANGED <<scale, shown, clock, focus, cache, engine, disk, caller,
                               calls, faults>>
Tick == /\ clock < MaxClock /\ clock' = clock + 1
        /\ UNCHANGED <<outputs, scale, shown, changes, focus, cache, engine, disk, caller,
                       calls, faults>>
\* The program ends at any point, a download under way with it, and starts anew.
Crash == /\ Changed /\ focus' = None /\ cache' = <<>> /\ engine' = Unset
         /\ caller' = [c \in Callers |-> NoCall]
         /\ UNCHANGED <<outputs, scale, shown, clock, disk, calls, faults>>

-----------------------------------------------------------------------------
Goto(c, to) == caller' = [caller EXCEPT ![c] = to]
Answered(c, answer) ==
  Goto(c, [NoCall EXCEPT !.pc = "done", !.ask = caller[c].ask, !.began = caller[c].began,
                         !.frame = caller[c].frame, !.answer = answer])
Failed(c, how) == Answered(c, [how |-> how])
desk == <<outputs, scale, shown, clock>>
Fails == faults < MaxFaults /\ faults' = faults + 1

\* An explicit region, or the focus.
ScopeOf(ask) == IF ask.region # None THEN ask.region ELSE focus

SetFocus(c, ask) ==
  /\ focus' = ask.region /\ changes' = changes + 1
  /\ Goto(c, [NoCall EXCEPT !.pc = "done", !.ask = ask, !.began = changes,
                            !.answer = [how |-> "ok"]])

Begin(c) ==
  /\ caller[c].pc \in {"idle", "done"} /\ calls < MaxCalls /\ calls' = calls + 1
  /\ \E ask \in Asks[c]:
       LET start == [NoCall EXCEPT !.ask = ask, !.began = changes]
           Capturing(scope) == [start EXCEPT !.pc = "capture", !.scope = scope]
       IN \/ ask.op = "focus" /\ SetFocus(c, ask)
          \/ /\ ask.op \in {"text", "icon"} /\ Goto(c, Capturing(ScopeOf(ask)))
             /\ UNCHANGED <<focus, changes>>
          \/ /\ ask.op = "color" /\ Goto(c, [start EXCEPT !.pc = "info", !.scope = ask.region])
             /\ UNCHANGED <<focus, changes>>
          \/ /\ ask.op = "shot" /\ UNCHANGED <<focus, changes>>
             /\ IF ask.window /\ (ask.region # None \/ ask.display # None)
                THEN Goto(c, [start EXCEPT !.pc = "done", !.answer = [how |-> "invalid"]])
                ELSE IF ask.region = None /\ ask.display # None
                THEN Goto(c, [start EXCEPT !.pc = "info"])
                ELSE Goto(c, Capturing(ScopeOf(ask)))
  /\ UNCHANGED <<desk, cache, engine, disk, faults>>

\* screen_info: the rectangle of a display; for a colour, whether the point is on
\* an output at all, which is taken to be so when the back end cannot say.
Info(c) ==
  LET me == caller[c]
      known == \E o \in DOMAIN outputs: Within(me.ask.region, outputs[o])
  IN
  /\ me.pc = "info"
  /\ \/ /\ UNCHANGED faults
        /\ IF me.ask.op = "color"
           THEN IF known THEN Goto(c, [me EXCEPT !.pc = "capture"]) ELSE Failed(c, "invalid")
           ELSE IF me.ask.display \in DOMAIN outputs
           THEN Goto(c, [me EXCEPT !.pc = "capture", !.scope = outputs[me.ask.display]])
           ELSE Failed(c, "invalid")
     \/ /\ Fails
        /\ IF me.ask.op = "color" THEN Goto(c, [me EXCEPT !.pc = "capture"])
           ELSE Failed(c, "error")
  /\ UNCHANGED <<desk, focus, changes, cache, engine, disk, calls>>

\* The pixel in the middle of the frame.
ColorIn(frame) ==
  LET at == frame.width \div 2
      over == {i \in frame.items: i.lo <= at /\ at < i.hi}
  IN {i.label : i \in over}

\* A scope off the layout cannot be captured.
Capture(c) ==
  LET me == caller[c]
      frame == FrameOf(me.scope)
  IN
  /\ me.pc = "capture"
  /\ \/ Fails /\ Failed(c, "error")
     \/ /\ UNCHANGED faults
        /\ IF me.scope # None /\ ~Within(me.scope, Whole) /\ ~(me.ask.op = "shot" /\ me.ask.window)
           THEN Failed(c, "error")
           ELSE CASE me.ask.op = "shot" ->
                       Answered(c, [how |-> "ok",
                                    frame |-> IF me.ask.window THEN None ELSE frame])
                  [] me.ask.op = "color" ->
                       Answered(c, [how |-> "ok", color |-> ColorIn(frame)])
                  [] me.ask.op \in {"text", "icon"} ->
                       Goto(c, [me EXCEPT !.pc = "lookup", !.frame = frame])
  /\ UNCHANGED <<desk, focus, changes, cache, engine, disk, calls>>

-----------------------------------------------------------------------------
(* The cache: a result is found by the frame's bytes, and an icon's by its *)
(* description as well.                                                    *)

Key(me) == <<me.frame, IF me.ask.op = "text" THEN None ELSE me.ask.wanted>>
Without(k) == [l \in DOMAIN cache \ {k} |-> cache[l]]
\* What a tool makes of the hits: into the layout by the scope's origin, and those
\* that meet the scope.
Offset(hit, s) == [hit EXCEPT !.lo = @ + s.lo, !.hi = @ + s.lo]
\* MUTANT of Placed: the hits stay where they are in the frame.
PlacedLocal(me, hits) ==
  IF me.scope = None THEN hits ELSE {h \in hits: Meets(h, me.scope)}
Placed(me, hits) ==
  IF me.scope = None THEN hits
  ELSE {h \in {Offset(h, me.scope) : h \in hits}: Meets(h, me.scope)}
Report(c, me, hits) ==
  Answered(c, [how |-> "ok", hits |-> Placed(me, {h \in hits: h.label = me.ask.wanted})])

Lookup(c) ==
  LET me == caller[c] IN
  /\ me.pc = "lookup"
  /\ IF Key(me) \notin DOMAIN cache THEN Goto(c, [me EXCEPT !.pc = "engine"])
     ELSE IF clock - cache[Key(me)].at >= Ttl THEN Goto(c, [me EXCEPT !.pc = "expire"])
     ELSE Report(c, me, cache[Key(me)].hits)
  /\ UNCHANGED <<desk, focus, changes, cache, engine, disk, calls, faults>>

\* By now another caller may have stored a fresh result, which goes as well.
Expire(c) ==
  LET me == caller[c] IN
  /\ me.pc = "expire"
  /\ cache' = Without(Key(me))
  /\ Goto(c, [me EXCEPT !.pc = "engine"])
  /\ UNCHANGED <<desk, focus, changes, engine, disk, calls, faults>>

-----------------------------------------------------------------------------
(* The engines: OnceLock::get_or_init, one caller at a time; a failure is  *)
(* kept as well.                                                           *)

Needs(me) == IF me.ask.op = "text" THEN "ocr" ELSE "icon"
Settle(e, how) == engine' = [engine EXCEPT ![e].is = how]

EngineFails(c) == Settle(Needs(caller[c]), "failed") /\ Failed(c, "error")
Engine(c) ==
  LET me == caller[c]
      e == Needs(me)
  IN
  /\ me.pc = "engine" /\ engine[e].is # "busy"
  /\ CASE engine[e].is = "unset" ->
            Settle(e, "busy") /\ Goto(c, [me EXCEPT !.pc = "check", !.files = Files[e]])
       [] engine[e].is = "ready" -> Goto(c, [me EXCEPT !.pc = "run"]) /\ UNCHANGED engine
       [] engine[e].is = "failed" -> Failed(c, "error") /\ UNCHANGED engine
  /\ UNCHANGED <<desk, focus, changes, cache, disk, calls, faults>>

\* ensure_model: the file as it is, when it is the one that was pinned.
Check(c) ==
  LET me == caller[c]
      f == Head(me.files)
      there == disk[f].dest = "good"
  IN
  /\ me.pc = "check" /\ me.files # <<>>
  /\ IF there THEN Goto(c, [me EXCEPT !.files = Tail(@)]) /\ UNCHANGED disk
     ELSE Goto(c, [me EXCEPT !.pc = "fetch"]) /\ disk' = [disk EXCEPT ![f].dest = "none"]
  /\ UNCHANGED <<desk, focus, changes, cache, engine, calls, faults>>

\* The download, into the temporary file from its first byte on.
Fetch(c) ==
  LET me == caller[c]
      f == Head(me.files)
  IN
  /\ me.pc = "fetch"
  /\ engine' = [engine EXCEPT ![Needs(me)].fetched = Append(@, f)]
  /\ disk' = [disk EXCEPT ![f].part = "half"]
  /\ Goto(c, [me EXCEPT !.pc = "fetching"])
  /\ UNCHANGED <<desk, focus, changes, cache, calls, faults>>
Fetched(c) ==
  LET me == caller[c]
      f == Head(me.files)
  IN
  /\ me.pc = "fetching"
  /\ \/ /\ disk' = [disk EXCEPT ![f].part = "good"]
        /\ Goto(c, [me EXCEPT !.pc = "verify"]) /\ UNCHANGED <<engine, faults>>
     \/ /\ Fails /\ disk' = [disk EXCEPT ![f].part = "wrong"]
        /\ Goto(c, [me EXCEPT !.pc = "verify"]) /\ UNCHANGED engine
     \/ Fails /\ EngineFails(c) /\ UNCHANGED disk
  /\ UNCHANGED <<desk, focus, changes, cache, calls>>

\* Only the file that was pinned goes to its place.
Verify(c) ==
  LET me == caller[c]
      f == Head(me.files)
  IN
  /\ me.pc = "verify"
  /\ IF disk[f].part = "good"
     THEN /\ disk' = [disk EXCEPT ![f] = [dest |-> "good", part |-> "none"]]
          /\ Goto(c, [me EXCEPT !.pc = "check", !.files = Tail(@)])
          /\ UNCHANGED engine
     ELSE disk' = [disk EXCEPT ![f].part = "none"] /\ EngineFails(c)
  /\ UNCHANGED <<desk, focus, changes, cache, calls, faults>>
\* The sessions: on the accelerated providers, or else on the processor.
Load(c) ==
  LET me == caller[c] IN
  /\ me.pc = "check" /\ me.files = <<>>
  /\ \/ /\ Settle(Needs(me), "ready") /\ Goto(c, [me EXCEPT !.pc = "run"])
        /\ UNCHANGED faults
     \/ Fails /\ EngineFails(c)
  /\ UNCHANGED <<desk, focus, changes, cache, disk, calls>>

\* Every label of the frame, or where the description's is.
Inferred(me) ==
  IF me.ask.op = "text" THEN me.frame.items
  ELSE {i \in me.frame.items: i.label = me.ask.wanted}
Run(c) ==
  LET me == caller[c] IN
  /\ me.pc = "run"
  /\ \/ Fails /\ Failed(c, "error")
     \/ Goto(c, [me EXCEPT !.pc = "room", !.hits = Inferred(me)]) /\ UNCHANGED faults
  /\ UNCHANGED <<desk, focus, changes, cache, engine, disk, calls>>

Oldest == CHOOSE k \in DOMAIN cache: \A l \in DOMAIN cache: cache[k].at <= cache[l].at
\* MUTANT of Room: the oldest result is evicted once the cache is over its cap.
RoomLate(c) ==
  LET me == caller[c] IN
  /\ me.pc = "room"
  /\ cache' = IF Key(me) \notin DOMAIN cache /\ Cardinality(DOMAIN cache) > Cap + 1
              THEN Without(Oldest) ELSE cache
  /\ Goto(c, [me EXCEPT !.pc = "put"])
  /\ UNCHANGED <<desk, focus, changes, engine, disk, calls, faults>>
Room(c) ==
  LET me == caller[c] IN
  /\ me.pc = "room"
  /\ cache' = IF Key(me) \notin DOMAIN cache /\ Cardinality(DOMAIN cache) >= Cap
              THEN Without(Oldest) ELSE cache
  /\ Goto(c, [me EXCEPT !.pc = "put"])
  /\ UNCHANGED <<desk, focus, changes, engine, disk, calls, faults>>
Put(c) ==
  LET me == caller[c] IN
  /\ me.pc = "put"
  /\ cache' = [k \in DOMAIN cache \union {Key(me)} |->
                 IF k = Key(me) THEN [at |-> clock, hits |-> me.hits] ELSE cache[k]]
  /\ Report(c, me, me.hits)
  /\ UNCHANGED <<desk, focus, changes, engine, disk, calls, faults>>

-----------------------------------------------------------------------------
Look(c) == Begin(c) \/ Info(c) \/ Capture(c) \/ Lookup(c) \/ Expire(c) \/ Run(c)
             \/ Room(c) \/ Put(c)
Prepare(c) == Engine(c) \/ Check(c) \/ Fetch(c) \/ Fetched(c) \/ Verify(c) \/ Load(c)
Next ==
  \/ Tick \/ Crash
  \/ \E s \in Screens: Redraw(s)
  \/ \E o \in Layouts: Rearrange(o)
  \/ \E c \in Callers: Look(c) \/ Prepare(c)
Spec == Init /\ [][Next]_visionVars
-----------------------------------------------------------------------------
(* Properties.                                                             *)

\* The hits a search of the screen as it is now should report: every label asked
\* for that is in its scope, as far as it is, in units of the layout.
Truth(ask) ==
  LET s == ScopeOf(ask)
  IN {i \in InView(IF s = None THEN Whole ELSE s): i.label = ask.wanted}
Unchanged(c) == caller[c].pc = "done" /\ caller[c].answer.how = "ok" /\ caller[c].began = changes

\* A search under which nothing changed reports what is there, where it is.
HitsTrue(c) == (Unchanged(c) /\ caller[c].ask.op \in {"text", "icon"})
                 => caller[c].answer.hits = Truth(caller[c].ask)
\* The frame's pixels are the layout's units, and so is their origin.
PlainFrame(ask) == scale = 1 /\ (ScopeOf(ask) # None \/ Whole.lo = 0)

\* A screenshot shows the display asked for, and a colour is that of the point.
PixelsTrue(c) ==
  LET ask == caller[c].ask
      a == caller[c].answer
  IN Unchanged(c) =>
       /\ (ask.op = "shot" /\ ~ask.window) =>
            a.frame = FrameOf(IF ask.region = None /\ ask.display # None
                              THEN outputs[ask.display] ELSE ScopeOf(ask))
       /\ ask.op = "color" =>
            a.color = {l \in DOMAIN shown: Meets(shown[l], ask.region)}

\* No file is put in its place that is not the one pinned, whatever ends in the
\* middle; an engine runs on such files only, and has fetched each once at most.
ModelsVerified ==
  /\ \A f \in DOMAIN disk: disk[f].dest \in {"none", "good", "old"}
  /\ \A e \in Engines:
       /\ engine[e].is = "ready" => \A i \in DOMAIN Files[e]: disk[Files[e][i]].dest = "good"
       /\ \A i, j \in DOMAIN engine[e].fetched:
            engine[e].fetched[i] = engine[e].fetched[j] => i = j

\* Callers that make room at once exceed the cap by one each at most.
CacheBounded == Cardinality(DOMAIN cache) < Cap + Cardinality(Callers)

SightTrue ==
  /\ \A c \in Callers: /\ PixelsTrue(c)
                       /\ caller[c].pc = "done" => (PlainFrame(caller[c].ask) => HitsTrue(c))
  /\ ModelsVerified /\ CacheBounded

\* docs/TOOLS.md:200: "All coordinates are Hyprland logical coordinates:
\* compositor layout space in logical (post-scale) pixels".
HitsLogical == \A c \in Callers: HitsTrue(c)
=============================================================================
