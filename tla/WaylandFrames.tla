--------------------------- MODULE WaylandFrames ----------------------------
(***************************************************************************)
(* Capturing an output over Wayland: a persistent ext-image-copy session   *)
(* ("ext"), wlr-screencopy with damage ("wlr") and one screencopy frame on *)
(* a connection of its own ("shot").                                       *)
(*                                                                         *)
(* The screen is a set of regions, each with the version of what it shows. *)
(* A persistent buffer keeps what the compositor does not write, so that a *)
(* frame is right only if the right regions were asked for.                *)
(***************************************************************************)
EXTENDS Integers, FiniteSets

CONSTANTS
  Protocols,    \* the protocols explored
  Layouts,      \* the sizes of the output, each the set of regions it has
  Blank,        \* what a new buffer shows
  MaxVersion, MaxResizes, MaxCaptures  \* bounds: changes, resizes, captures

Regions == UNION Layouts

\* What a new buffer shows is no version, and a buffer is there or it is not.
ASSUME WaylandAssumption ==
  /\ Protocols \subseteq {"ext", "wlr", "shot"}
  /\ Blank \notin Nat
  /\ Blank \notin [size: Layouts, shows: UNION {[s -> Nat \union {Blank}]: s \in Layouts}]

VARIABLES
  proto,
  output,      \* the regions of the output now
  screen,      \* [Regions -> version shown]
  changed,     \* the compositor: regions changed since its last copy for us
  limits,      \* the size the session was last told, ext_size
  buffer,      \* the persistent buffer: [size, shows], or Blank
  asked,       \* client_damage, or Blank
  capture,     \* the frame in flight
  frame,       \* the last frame handed on: [size, shows, since], or Blank
  renewed, missed,  \* ghosts: the buffer was replaced; a finished copy was dropped
  halted,      \* the source has stopped
  resizes, captures

waylandVars == <<proto, output, screen, changed, limits, buffer, asked, capture, frame,
                 renewed, missed, halted, resizes, captures>>

NoCapture == [pc |-> "idle", regions |-> {}, damage |-> {}, since |-> Blank]

WaylandInit ==
  /\ proto \in Protocols
  /\ output \in Layouts /\ limits = output
  /\ screen = [r \in Regions |-> 0]
  /\ changed = output
  /\ buffer = Blank /\ asked = Blank /\ frame = Blank
  /\ capture = NoCapture
  /\ renewed = FALSE /\ missed = FALSE /\ halted = FALSE
  /\ resizes = 0 /\ captures = 0

NewBuffer(size) == [size |-> size, shows |-> [r \in size |-> Blank]]
BufferFits(size) == buffer # Blank /\ buffer.size = size

-----------------------------------------------------------------------------
(* The screen and the compositor.                                          *)

sessionVars == <<proto, limits, buffer, asked, capture, frame, renewed, missed, captures>>

Draw(r) ==
  /\ r \in output /\ screen[r] < MaxVersion
  /\ screen' = [screen EXCEPT ![r] = @ + 1]
  /\ changed' = changed \union {r}
  /\ UNCHANGED <<output, halted, resizes, sessionVars>>

\* What the old and the new size share has not changed; the rest has.
Resize(size) ==
  /\ resizes < MaxResizes /\ size # output
  /\ resizes' = resizes + 1
  /\ output' = size
  /\ changed' = (changed \union (size \ output)) \intersect size
  /\ UNCHANGED <<screen, halted, sessionVars>>

\* The output is switched off: the session is told, for good.
SwitchOff ==
  /\ proto = "ext" /\ ~halted
  /\ halted' = TRUE
  /\ UNCHANGED <<output, screen, changed, resizes, sessionVars>>

\* The compositor serves a capture: an ext one may wait for a change; it writes
\* what changed and what the client asked for.  A screencopy frame is written
\* whole, and says which part of it changed.
ServeCapture ==
  /\ capture.pc = "sent" /\ ~halted /\ buffer.size = output
  /\ (proto = "ext" => changed # {} \/ capture.regions # {})
  /\ LET copied == IF proto = "ext" THEN (changed \union capture.regions) \intersect output
                   ELSE output
     IN buffer' = [buffer EXCEPT !.shows = [r \in buffer.size |->
                     IF r \in copied THEN screen[r] ELSE buffer.shows[r]]]
  /\ capture' = [capture EXCEPT !.pc = "served", !.damage = changed]
  /\ changed' = {}
  /\ UNCHANGED <<proto, output, screen, limits, asked, frame, renewed, missed, halted,
                 resizes, captures>>

-----------------------------------------------------------------------------
(* The client.                                                             *)

\* next_frame of an ext session: a buffer of the size last heard of, and the
\* damage of the last frame to be refreshed, or everything.
BeginExt ==
  /\ proto = "ext" /\ capture.pc = "idle" /\ ~halted /\ captures < MaxCaptures
  /\ captures' = captures + 1
  /\ buffer' = IF BufferFits(limits) THEN buffer ELSE NewBuffer(limits)
  /\ renewed' = (buffer # Blank /\ (renewed \/ ~BufferFits(limits)))
  /\ capture' = [NoCapture EXCEPT !.pc = "sent", !.since = screen,
                   !.regions = IF asked = Blank THEN limits ELSE asked]
  /\ UNCHANGED <<proto, output, screen, changed, limits, asked, frame, missed, halted, resizes>>

\* copy_once, and a single screencopy: the size is negotiated for each frame.
BeginCopy ==
  /\ proto \in {"wlr", "shot"} /\ capture.pc = "idle" /\ captures < MaxCaptures
  /\ captures' = captures + 1
  /\ limits' = output
  /\ buffer' = IF proto = "wlr" /\ BufferFits(output) THEN buffer ELSE NewBuffer(output)
  /\ capture' = [NoCapture EXCEPT !.pc = "sent", !.since = screen]
  /\ UNCHANGED <<proto, output, screen, changed, asked, frame, renewed, missed, halted, resizes>>

\* MUTANT of Roundtrip: a copy is taken for ready when it has been asked for.
RoundtripEarly ==
  /\ capture.pc \in {"sent", "served"}
  /\ limits' = IF proto = "ext" THEN output ELSE limits
  /\ IF TRUE
     THEN /\ capture' = NoCapture
          /\ IF proto = "wlr" /\ capture.damage = {} THEN UNCHANGED <<asked, frame>>
             ELSE /\ asked' = IF proto = "ext" /\ capture.damage # {} THEN capture.damage
                              ELSE Blank
                  /\ frame' = [size |-> buffer.size, shows |-> buffer.shows,
                               since |-> capture.since, renewed |-> renewed]
     ELSE UNCHANGED <<asked, frame, capture>>
  /\ UNCHANGED <<proto, output, screen, changed, buffer, renewed, missed, halted, resizes, captures>>

\* A roundtrip brings what the compositor has sent: a new size, or that the
\* copy is ready.  A copy without damage is "unchanged" and hands nothing on.
Roundtrip ==
  /\ capture.pc \in {"sent", "served"}
  /\ limits' = IF proto = "ext" THEN output ELSE limits
  /\ IF capture.pc = "served"
     THEN /\ capture' = NoCapture
          /\ IF proto = "wlr" /\ capture.damage = {} THEN UNCHANGED <<asked, frame>>
             ELSE /\ asked' = IF proto = "ext" /\ capture.damage # {} THEN capture.damage
                              ELSE Blank
                  /\ frame' = [size |-> buffer.size, shows |-> buffer.shows,
                               since |-> capture.since, renewed |-> renewed]
     ELSE UNCHANGED <<asked, frame, capture>>
  /\ UNCHANGED <<proto, output, screen, changed, buffer, renewed, missed, halted, resizes, captures>>

\* The wait is over: an ext session drops the frame, answered or not, and says
\* "unchanged"; the others fail.
Abandon ==
  /\ capture.pc \in {"sent", "served"}
  /\ capture' = IF proto = "ext" THEN NoCapture ELSE [NoCapture EXCEPT !.pc = "dead"]
  /\ missed' = (missed \/ (capture.pc = "served" /\ capture.damage # {}))
  /\ UNCHANGED <<proto, output, screen, changed, limits, buffer, asked, frame, renewed, halted,
                 resizes, captures>>

\* The compositor refuses the frame: a source that has stopped is reported as
\* idle, a buffer that no longer fits ends the session.
Refused ==
  /\ capture.pc = "sent" /\ (halted \/ buffer.size # output)
  /\ capture' = IF halted THEN NoCapture ELSE [NoCapture EXCEPT !.pc = "dead"]
  /\ UNCHANGED <<proto, output, screen, changed, limits, buffer, asked, frame, renewed, missed,
                 halted, resizes, captures>>

WaylandNext ==
  \/ \E r \in Regions: Draw(r)
  \/ \E size \in Layouts: Resize(size)
  \/ SwitchOff \/ ServeCapture \/ BeginExt \/ BeginCopy \/ Roundtrip \/ Abandon \/ Refused

WaylandSpec == WaylandInit /\ [][WaylandNext]_waylandVars
-----------------------------------------------------------------------------
(* Properties.                                                             *)

UpToDate(f) == \A r \in f.size: f.shows[r] # Blank /\ f.shows[r] >= f.since[r]

\* A stream that says "unchanged" is right: when the compositor has nothing new
\* for the session, the last frame handed on shows the screen.
Settled == /\ capture.pc = "idle" /\ ~halted /\ changed = {} /\ frame # Blank
           /\ frame.size = output /\ ~frame.renewed

\* A frame shows every region as it was when the capture began, or later: what
\* the persistent buffer kept is what did not change since.  And between frames
\* nothing has changed that the session did not hand on, but for an answer to a
\* frame that was given up.
FrameCurrent ==
  /\ (frame # Blank /\ ~frame.renewed) => UpToDate(frame)
  /\ (Settled /\ ~missed) => \A r \in output: frame.shows[r] = screen[r]

\* The first half, of a session whose output has been resized.
ResizedFrameCurrent == frame # Blank => UpToDate(frame)

\* The second half, whenever the answer to an abandoned frame comes.
NoChangeMissed == Settled => \A r \in output: frame.shows[r] = screen[r]
=============================================================================
