------------------------------ MODULE MCPixels ------------------------------
(***************************************************************************)
(* Small instances of the parts that bring in pixels: the screen stream    *)
(* (ScreenStream), the recording (ScreenRecord), and the frames of a       *)
(* Wayland output (WaylandFrames, WlrShot) and of a PipeWire stream        *)
(* (PipewireFrames).  A behaviour follows one, picked at the start.        *)
(***************************************************************************)
EXTENDS ScreenStream, PipewireFrames, WaylandFrames, Captures, TLC

CONSTANTS Parts, s1, s2, d1

VARIABLE part

-----------------------------------------------------------------------------
(* The screen stream: one client starts and stops streams; the other       *)
(* starts one as well, or asks for the latest frame.                       *)

Rivals == {[c \in Clients |-> {"start", IF c = s1 THEN "stop" ELSE "start"}]}
Watchers == {[c \in Clients |-> IF c = s1 THEN {"start", "stop"} ELSE {"latest"}]}
RivalsAndWatchers == Rivals \union Watchers
\* Any frame, or one the caller has not seen.
SomeWatermarks == {None, 1}

-----------------------------------------------------------------------------
(* The frames: an output of one or two regions; a source of two widths.    *)

SomeLayouts == {{"a"}, {"a", "b"}}

-----------------------------------------------------------------------------
(* The recording: durations below, at and above two intervals and out of   *)
(* bounds, every scope; a capture may take two intervals.                  *)

MCCalls ==
  [duration: {2, 5, 7}, interval: {3}, scope: {"region", "display", "full"}]
  \union [duration: {5}, interval: {3}, scope: {"empty region"}]
  \union [duration: {1, 7}, interval: {1}, scope: {"full"}]
  \union [duration: {9}, interval: {3}, scope: {"full"}]

-----------------------------------------------------------------------------
(* The single shot: one output, or two of them; a region that crosses an   *)
(* edge, a display by its name.                                            *)

O(name, at, width) == [name |-> name, x |-> at, w |-> width]
Part(at, width) == [display |-> Absent, region |-> [x |-> at, w |-> width]]
Whole == [display |-> Absent, region |-> Absent]
Named(name) == [display |-> name, region |-> Absent]
MCScopes == {Part(-1, 3), Part(1, 2), Whole, Named("A"), Named("B"), Named("C")}

MCArrangements == {<<>>, <<O("A", 0, 4)>>, <<O("A", 0, 4), O("B", 4, 6)>>,
                   <<O("B", 4, 6), O("A", 0, 4)>>}

-----------------------------------------------------------------------------
\* A component that is not explored starts in one fixed state.
Only(p, choice) == part = p \/ choice

PixelsInit ==
  /\ part \in Parts
  /\ Only("stream", ops = CHOOSE w \in Workloads: TRUE) /\ Init
  /\ Only("wayland", proto = "shot" /\ output = {"a"}) /\ WaylandInit
  /\ Only("pipewire", mode = "grab") /\ FramesInit
  /\ Only("record", helper = "scrot" /\ base = {}) /\ RecordInit
  /\ ShotInit /\ Only("shot", arranged = <<>> /\ kit = TRUE /\ protocol = 3)

PixelsNext ==
  \/ /\ part = "stream" /\ Next
     /\ UNCHANGED <<waylandVars, pipewireVars, recordVars>>
     /\ UNCHANGED <<part, shotVars>>
  \/ /\ part = "wayland" /\ WaylandNext
     /\ UNCHANGED <<vars, pipewireVars, recordVars>>
     /\ UNCHANGED <<part, shotVars>>
  \/ /\ part = "pipewire" /\ FramesNext
     /\ UNCHANGED <<vars, waylandVars, recordVars>>
     /\ UNCHANGED <<part, shotVars>>
  \/ /\ part = "record" /\ RecordNext
     /\ UNCHANGED <<vars, waylandVars, pipewireVars>>
     /\ UNCHANGED <<part, shotVars>>
  \/ /\ part = "shot" /\ ShotNext
     /\ UNCHANGED <<vars, waylandVars, pipewireVars, recordVars>>
     /\ UNCHANGED part

allVars == <<part, vars, waylandVars, pipewireVars, recordVars, shotVars>>
PixelsSpec == PixelsInit /\ [][PixelsNext]_allVars
=============================================================================
