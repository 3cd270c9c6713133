-------------------------- MODULE HighlightOverlay --------------------------
(***************************************************************************)
(* screen_highlight: one call draws a rectangle over one output, on a      *)
(* connection of its own to the compositor, and takes it away again.       *)
(* Between any two of the call's roundtrips the compositor may unplug an   *)
(* output, dismiss the surface or go away.                                 *)
(*                                                                         *)
(* Places are on a line: the code treats y and the height as it treats x   *)
(* and the width.  An output is [x, modes, scale, logical]: its modes are  *)
(* told in their order, and its logical width is told to nobody.           *)
(***************************************************************************)
EXTENDS Integers, Sequences, FiniteSets, SequencesExt

CONSTANTS
  Displays,           \* the sequences of outputs the compositor may have
  Rects,              \* the requests: [x, w, duration]
  MaxSide, MinTime, MaxTime,
  Nowhere             \* no output, and nothing on the screen

\* An output's modes and scale are those of the protocol, which has no width or scale of 0.
ASSUME OutputsAreReal ==
  \A list \in Displays:
    list \in Seq([x: Int, modes: Seq([width: Nat \ {0}, current: BOOLEAN]),
                  scale: Nat \ {0}, logical: Nat])
ASSUME RectsArePlaced == \A r \in Rects: r.x \in Int
ASSUME NowhereIsApart == Nowhere \notin Nat /\ Nowhere # "highlighted"

VARIABLES display, plugged, globals, slot,   \* the compositor, and the probe's result
          request, phase, infos, surface, acked, closed, left, screen, shown, answer

highlightVars == <<display, plugged, globals, slot, request, phase, infos, surface,
                   acked, closed, left, screen, shown, answer>>
Compositor == <<display, plugged, globals, slot>>

Globals == {"wl_compositor", "wl_shm", "zwlr_layer_shell_v1"}
NoRequest == [x |-> 0, w |-> 0, duration |-> 0]

\* The slot was filled at start-up, when the session still had all three globals.
HighlightInit ==
  /\ display \in Displays /\ plugged = DOMAIN display
  /\ globals \in {Globals, Globals \ {"wl_shm"}} /\ slot \in BOOLEAN
  /\ request = NoRequest /\ phase = "idle" /\ infos = <<>> /\ surface = Nowhere
  /\ acked = FALSE /\ closed = FALSE /\ left = 0
  /\ screen = Nowhere /\ shown = 0 /\ answer = Nowhere

-----------------------------------------------------------------------------
(* What the client makes of the outputs.                                   *)

Unheard == [x |-> 0, width |-> 0, scale |-> 1]
ModeToldLast(info, mode) == [info EXCEPT !.width = mode.width]
\* The first mode stands until the current one is told.
ModeTold(info, mode) ==
  IF mode.current \/ info.width = 0 THEN [info EXCEPT !.width = mode.width] ELSE info
Told(out) ==
  [FoldLeft(ModeTold, Unheard, out.modes) EXCEPT !.x = out.x, !.scale = out.scale]

AtLeast(a, b) == IF a < b THEN b ELSE a
Span(info) == info.width \div AtLeast(info.scale, 1)
Holds(info, at) == /\ Span(info) > 0 /\ info.x <= at /\ at < info.x + Span(info)
Centre(r) == r.x + r.w \div 2
\* The first output that holds the centre, and the margin from its edge; without
\* one the compositor chooses, and gets the margin as it was asked for.
Place(known, r) ==
  LET fit == {i \in DOMAIN known: Holds(known[i], Centre(r))}
      i == CHOOSE j \in fit: \A k \in fit: j <= k
  IN IF fit = {} THEN [output |-> Nowhere, margin |-> AtLeast(r.x, 0)]
     ELSE [output |-> i, margin |-> AtLeast(r.x - known[i].x, 0)]

-----------------------------------------------------------------------------
(* The call.                                                               *)

EndWith(text) == phase' = "over" /\ answer' = text
\* The connection goes with the call, and whatever it had on the screen with it.
Reaped == screen' = Nowhere

Wellformed(r) == r.w \in 1..MaxSide /\ r.duration \in MinTime..MaxTime
AskHighlight(r) ==
  /\ phase = "idle" /\ request' = r
  /\ IF ~Wellformed(r) THEN EndWith("invalid")
     ELSE IF ~slot THEN EndWith("unavailable")
     ELSE phase' = "connect" /\ UNCHANGED answer
  /\ UNCHANGED <<Compositor, infos, surface, acked, closed, left, screen, shown>>

\* The registry: the outputs that are plugged in now, in the compositor's order.
Connect ==
  /\ phase = "connect"
  /\ IF Globals \subseteq globals
     THEN /\ phase' = "outputs" /\ infos' = [i \in DOMAIN display |-> Unheard]
          /\ UNCHANGED answer
     ELSE EndWith("failed") /\ UNCHANGED infos
  /\ UNCHANGED <<Compositor, request, surface, acked, closed, left, screen, shown>>

\* The second roundtrip: each output tells of itself, unless it has gone meanwhile.
HearOutputs ==
  /\ phase = "outputs" /\ phase' = "create"
  /\ infos' = [i \in DOMAIN infos |-> IF i \in plugged THEN Told(display[i]) ELSE infos[i]]
  /\ UNCHANGED <<Compositor, request, surface, acked, closed, left, screen, shown, answer>>

\* An output that has gone since it told of itself closes the surface at once.
CreateSurface ==
  /\ phase = "create" /\ phase' = "configure"
  /\ surface' = Place(infos, request)
  /\ closed' = (surface'.output \in DOMAIN display \ plugged)
  /\ UNCHANGED <<Compositor, request, infos, acked, left, screen, shown, answer>>

Draw(s) == [output |-> s.output, margin |-> s.margin, width |-> request.w]
\* What the wait for the configure ends with.
AwaitConfigure ==
  /\ phase = "configure"
  /\ \/ closed /\ EndWith("highlighted") /\ Reaped /\ UNCHANGED <<left, shown>>
     \/ /\ ~closed /\ acked
        /\ phase' = "hold" /\ screen' = Draw(surface) /\ left' = request.duration
        /\ UNCHANGED <<answer, shown>>
  /\ UNCHANGED <<Compositor, request, infos, surface, acked, closed>>
ConfigureTimesOut ==
  /\ phase = "configure" /\ ~acked /\ ~closed /\ EndWith("failed") /\ Reaped
  /\ UNCHANGED <<Compositor, request, infos, surface, acked, closed, left, shown>>

\* A slice of the wait passes.
HoldOn ==
  /\ phase = "hold" /\ ~closed /\ left > 0
  /\ left' = left - 1 /\ shown' = shown + 1
  /\ UNCHANGED <<Compositor, request, phase, infos, surface, acked, closed, screen, answer>>
TearDown ==
  /\ phase = "hold" /\ (closed \/ left = 0) /\ EndWith("highlighted") /\ Reaped
  /\ UNCHANGED <<Compositor, request, infos, surface, acked, closed, left, shown>>

\* The socket fails under a roundtrip or the poll, or the buffer cannot be made.
SocketBreaks ==
  /\ phase \in {"connect", "outputs", "configure", "hold"}
  /\ EndWith("failed") /\ Reaped
  /\ UNCHANGED <<Compositor, request, infos, surface, acked, closed, left, shown>>

Call ==
  \/ \E r \in Rects: AskHighlight(r)
  \/ Connect \/ HearOutputs \/ CreateSurface \/ AwaitConfigure \/ ConfigureTimesOut
  \/ HoldOn \/ TearDown \/ SocketBreaks

-----------------------------------------------------------------------------
(* The compositor.                                                         *)

Unmoved == <<display, globals, slot, request, phase, infos, surface, left, shown, answer>>
\* A configure is acknowledged as it is read.
SendConfigure ==
  /\ phase = "configure" /\ ~acked /\ acked' = TRUE
  /\ UNCHANGED <<Unmoved, plugged, closed, screen>>
\* The surface goes with its output; the compositor may also dismiss it by itself.
Dismiss ==
  /\ phase \in {"configure", "hold"} /\ ~closed /\ closed' = TRUE /\ screen' = Nowhere
  /\ UNCHANGED <<Unmoved, plugged, acked>>
Unplug(i) ==
  /\ i \in plugged /\ phase \notin {"idle", "over"}
  /\ plugged' = plugged \ {i}
  /\ IF phase \in {"configure", "hold"} /\ surface.output = i
     THEN closed' = TRUE /\ screen' = Nowhere
     ELSE UNCHANGED <<closed, screen>>
  /\ UNCHANGED <<Unmoved, acked>>

HighlightNext ==
  \/ Call \/ SendConfigure \/ Dismiss
  \/ \E i \in DOMAIN display: Unplug(i)

-----------------------------------------------------------------------------
HighlightSpec == HighlightInit /\ [][HighlightNext]_highlightVars
-----------------------------------------------------------------------------
\* The outputs whose logical width is what the client computes: those with a whole
\* scale, not turned on their side.
ToldAsShown(out) ==
  LET current == {j \in DOMAIN out.modes: out.modes[j].current}
  IN /\ current # {}
     /\ \A j \in current: out.modes[j].width \div out.scale = out.logical
PlainOutputs == \A i \in DOMAIN display: ToldAsShown(display[i])
Within(i, at) == display[i].x <= at /\ at < display[i].x + display[i].logical

\* A highlight that is said to be drawn was on the output its centre lies on, where
\* it was asked for (moved to the output's edge if it began before it), for its whole
\* time unless the compositor took it away; it is on the screen only after the
\* configure was acknowledged, and never once the call is over.
HighlightHonest ==
  /\ screen # Nowhere => (phase = "hold" /\ acked)
  /\ (screen # Nowhere /\ PlainOutputs) =>
       IF screen.output = Nowhere
       THEN \A i \in plugged: ~Within(i, Centre(request))
       ELSE /\ Within(screen.output, Centre(request))
            /\ display[screen.output].x + screen.margin
                 = AtLeast(request.x, display[screen.output].x)
            /\ screen.width = request.w
  /\ (answer = "highlighted" /\ ~closed) => shown = request.duration
=============================================================================
