------------------------------ MODULE WlrShot -------------------------------
(***************************************************************************)
(* One frame over wlr-screencopy, as screenshot takes it: the scope is     *)
(* resolved with the list of outputs, a connection of its own is made, and *)
(* the compositor offers buffers, copies into the one it is given and      *)
(* says so, while clients draw and outputs come and go.                    *)
(*                                                                         *)
(* Outputs are intervals on a line, [name, x, w]; a copy is kept as what   *)
(* it is of: an output, an interval on it, the version it showed, the      *)
(* order of its channels and whether it stands on its head.                *)
(***************************************************************************)
EXTENDS Integers, Sequences, FiniteSets

CONSTANTS Arrangements, Names, Scopes, Formats, Supported, Absent, MaxDrawn, MaxChanges

ASSUME ShotAssumption ==
  /\ \A a \in Arrangements: a \in Seq([name: Names, x: Int, w: Int])
  /\ \A s \in Scopes: s.region \in {Absent} \union [x: Int, w: Int]

VARIABLES arranged, drawn, kit, protocol, taking, changes

shotVars == <<arranged, drawn, kit, protocol, taking, changes>>

Span(x, w) == {p \in -9..19: x <= p /\ p < x + w}
NoShot == [pc |-> "idle", scope |-> Absent, region |-> Absent, of |-> Absent, pending |-> Absent,
           sent |-> Absent, copied |-> Absent, flipped |-> FALSE, ready |-> FALSE,
           failed |-> FALSE, seen |-> {}, listed |-> {}, answer |-> Absent]

\* kit: whether hyprctl was pinned; protocol: what the manager was bound at.
ShotInit ==
  /\ arranged \in Arrangements /\ drawn = [n \in Names |-> 0]
  /\ kit \in BOOLEAN /\ protocol \in {2, 3} /\ taking = NoShot /\ changes = 0

World == <<arranged, drawn, kit, protocol, changes>>
OutputAt(name) == CHOOSE i \in DOMAIN arranged: arranged[i].name = name
Plugged == {arranged[i].name: i \in DOMAIN arranged}

-----------------------------------------------------------------------------
(* The scope.                                                              *)

Known(o) == [name |-> o.name, x |-> o.x, w |-> o.w]
Unheard == [name |-> "", x |-> 0, w |-> 0]
Outputs(told) ==
  {IF told THEN Known(arranged[i]) ELSE Unheard: i \in DOMAIN arranged}
\* An output without a name or a size is passed over.
Rects(list) == {o \in list: o.name # "" /\ o.w > 0}

\* With hyprctl the outputs are told; without it the one roundtrip ends as a rule
\* before they have told of themselves, for it was asked for before they were bound.
Lists == IF kit THEN {Outputs(TRUE), Outputs(FALSE)} ELSE {Outputs(FALSE), Outputs(TRUE)}
BeginShot(scope) ==
  /\ taking.pc = "idle"
  /\ taking' = [NoShot EXCEPT !.pc = IF scope.display = Absent THEN "connect" ELSE "resolve",
                !.scope = scope, !.region = scope.region]
  /\ UNCHANGED World
\* screen_info
Enumerate ==
  /\ taking.pc = "idle"
  /\ \E list \in Lists: taking' = [NoShot EXCEPT !.pc = "over", !.listed = list]
  /\ UNCHANGED World
Over(text) == taking' = [taking EXCEPT !.pc = "over", !.answer = text]
ResolveDisplay ==
  /\ taking.pc = "resolve"
  /\ \E list \in Lists: LET fit == {o \in Rects(list): o.name = taking.scope.display} IN
       IF fit = {} THEN Over(IF Rects(list) = {} THEN "unsupported" ELSE "unknown")
       ELSE \E o \in fit: taking' = [taking EXCEPT !.pc = "connect",
                                     !.region = [x |-> o.x, w |-> o.w]]
  /\ UNCHANGED World

-----------------------------------------------------------------------------
(* The connection, and the handlers of the frame's events.                 *)

\* The first output that is advertised, whatever the scope.
Connect ==
  /\ taking.pc = "connect"
  /\ IF arranged = <<>> THEN Over("failed")
     ELSE LET o == arranged[1]
          IN taking' = [taking EXCEPT !.pc = "frame", !.of = o.name, !.seen = {drawn[o.name]}]
  /\ UNCHANGED World

Waiting == taking.pc = "frame"
\* The first usable format stands.
Offered(format) ==
  /\ Waiting /\ taking.sent = Absent /\ ~taking.failed
  /\ taking.pending = Absent /\ format \in Supported
  /\ taking' = [taking EXCEPT !.pending = format] /\ UNCHANGED World
OffersDone ==
  /\ Waiting /\ protocol = 3 /\ taking.sent = Absent /\ ~taking.failed
  /\ taking' = IF taking.pending = Absent THEN [taking EXCEPT !.failed = TRUE]
             ELSE [taking EXCEPT !.sent = taking.pending, !.pending = Absent]
  /\ UNCHANGED World
\* No file or no pool for the buffer, or the compositor gives the frame up.
FrameFails ==
  /\ Waiting /\ ~taking.failed /\ ~taking.ready
  /\ taking' = [taking EXCEPT !.failed = TRUE] /\ UNCHANGED World
\* The compositor tells how the copy stands, copies, and says when it is done.
Asked ==
  LET own == Span(0, arranged[OutputAt(taking.of)].w)
  IN IF taking.region = Absent THEN own
     ELSE Span(taking.region.x, taking.region.w) \intersect own
Copies(flipped) ==
  /\ Waiting /\ taking.sent # Absent /\ ~taking.ready /\ ~taking.failed /\ taking.of \in Plugged
  /\ Asked # {}
  /\ taking' = [taking EXCEPT !.ready = TRUE, !.flipped = flipped,
                !.copied = [span |-> Asked, version |-> drawn[taking.of],
                            order |-> taking.sent, flipped |-> flipped]]
  /\ UNCHANGED World

Decoded(copy) ==
  [of |-> taking.of, span |-> copy.span, version |-> copy.version,
   colours |-> taking.sent = copy.order, upright |-> taking.flipped = copy.flipped]
Finish ==
  /\ Waiting
  /\ IF taking.failed THEN Over("failed")
     ELSE taking.ready /\ Over(Decoded(taking.copied))
  /\ UNCHANGED World
TimesOut ==
  /\ Waiting /\ ~taking.ready /\ ~taking.failed /\ Over("failed") /\ UNCHANGED World

-----------------------------------------------------------------------------
(* The session.                                                            *)

DrawOn(n) ==
  /\ n \in Plugged /\ drawn[n] < MaxDrawn
  /\ drawn' = [drawn EXCEPT ![n] = @ + 1]
  /\ taking' = IF Waiting /\ taking.of = n THEN [taking EXCEPT !.seen = @ \union {drawn'[n]}]
             ELSE taking
  /\ UNCHANGED <<arranged, kit, protocol, changes>>
Rearrange(a) ==
  /\ changes < MaxChanges /\ a # arranged /\ taking.pc \in {"resolve", "connect", "frame"}
  /\ arranged' = a /\ changes' = changes + 1
  /\ UNCHANGED <<drawn, kit, protocol, taking>>

ShotNext ==
  \/ \E s \in Scopes: BeginShot(s)
  \/ Enumerate \/ ResolveDisplay \/ Connect
  \/ \E f \in Formats: Offered(f)
  \/ OffersDone \/ FrameFails \/ Finish \/ TimesOut
  \/ \E f \in BOOLEAN: Copies(f)
  \/ \E n \in Names: DrawOn(n)
  \/ \E a \in Arrangements: Rearrange(a)

ShotSpec == ShotInit /\ [][ShotNext]_shotVars
-----------------------------------------------------------------------------
HandedOn == taking.pc = "over" /\ taking.copied # Absent /\ ~taking.failed

\* A frame that is handed on shows an output as it was during the call, upright and
\* in its colours, in a format the decoder knows; and on a desktop of one output at
\* the origin, no more and no less than the asked part of it.
ShotTrue == HandedOn =>
  /\ taking.answer.version \in taking.seen
  /\ taking.answer.colours /\ taking.answer.upright /\ taking.sent \in Supported
  /\ (Len(arranged) = 1 /\ arranged[1].x = 0 /\ changes = 0) =>
       taking.answer.span = Asked

\* docs/TOOLS.md:763-765: the scope "display" is an output's name from screen_info,
\* and what the answer calls "display <name>" is of that output.
DisplayShown == (HandedOn /\ taking.scope.display # Absent) =>
  taking.answer.of = taking.scope.display

\* docs/TOOLS.md:807-809: screen_info enumerates the outputs and their bounds.
InfoComplete == Unheard \notin taking.listed
=============================================================================
