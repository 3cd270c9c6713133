--------------------------- MODULE PipewireFrames ---------------------------
(***************************************************************************)
(* A portal-granted PipeWire stream: the held stream, whose worker thread  *)
(* pumps the callbacks and whose consumer polls the shared state, and the  *)
(* grab of a single frame.  A buffer is decoded under the size negotiated  *)
(* when it came; the state keeps the pixels and the size side by side.     *)
(***************************************************************************)
EXTENDS Integers, Sequences

CONSTANTS
  Modes,      \* "held" and "grab"
  Widths,     \* the sizes the source may have
  Nothing,    \* no size, no pixels
  MaxBuffers, MaxFormats  \* bounds: buffers and format changes

VARIABLES
  mode,
  worker,    \* the thread: handshake, pump, done
  opener,    \* open(): waiting, open, failed
  shutdown,
  layout,    \* the negotiated size
  latest,    \* the decoded pixels: [width, serial]
  fresh,     \* not handed on yet
  error,     \* the error slot
  handed,    \* the frames handed on, in order: [width, pixels, serial]
  told,      \* what the consumer has been told: an error
  changedSince,  \* ghost: the format changed while a frame was waiting
  buffers, formats

\* "No pixels yet" is no picture, and the sizes are whole numbers.
FramesConstants ==
  /\ Modes \subseteq {"held", "grab"}
  /\ Widths \subseteq Nat /\ Nothing \notin Widths
ASSUME FramesAssumption == FramesConstants

pipewireVars == <<mode, worker, opener, shutdown, layout, latest, fresh, error, handed, told,
                  changedSince, buffers, formats>>

FramesInit ==
  /\ mode \in Modes
  /\ worker = "handshake" /\ opener = "waiting" /\ shutdown = FALSE
  /\ layout = Nothing /\ latest = Nothing /\ fresh = FALSE /\ error = FALSE
  /\ handed = <<>> /\ told = FALSE /\ changedSince = FALSE
  /\ buffers = 0 /\ formats = 0

-----------------------------------------------------------------------------
(* The worker.                                                             *)

HandshakeDone ==
  /\ worker = "handshake"
  /\ worker' = "pump" /\ opener' = "open"
  /\ UNCHANGED <<mode, shutdown, layout, latest, fresh, error, handed, told, changedSince,
                 buffers, formats>>

\* Declined, no stream, or the bus is gone: the opener gets the error.
HandshakeFails ==
  /\ worker = "handshake"
  /\ worker' = "done" /\ opener' = "failed" /\ error' = TRUE
  /\ UNCHANGED <<mode, shutdown, layout, latest, fresh, handed, told, changedSince, buffers, formats>>

\* param_changed: a size in a layout that can be decoded, or an error.
ParamChanged(width, decodable) ==
  /\ worker = "pump" /\ formats < MaxFormats
  /\ formats' = formats + 1
  /\ IF decodable THEN layout' = width /\ UNCHANGED error ELSE error' = TRUE /\ UNCHANGED layout
  /\ changedSince' = (changedSince \/ (fresh /\ decodable /\ width # layout))
  /\ UNCHANGED <<mode, worker, opener, shutdown, latest, fresh, handed, told, buffers>>

\* process: nothing before the format is known or after an error; a corrupted or
\* an empty buffer is skipped, one that does not hold the frame is an error.  A
\* grab keeps its first frame.
Process(buffer) ==
  /\ worker = "pump" /\ buffers < MaxBuffers
  /\ buffers' = buffers + 1
  /\ IF error \/ layout = Nothing \/ buffer = "skipped" \/ (mode = "grab" /\ fresh)
     THEN UNCHANGED <<latest, fresh, error>>
     ELSE IF buffer = "bad" THEN error' = TRUE /\ UNCHANGED <<latest, fresh>>
     ELSE /\ latest' = [width |-> layout, serial |-> buffers']
          /\ fresh' = TRUE
          /\ UNCHANGED error
  /\ UNCHANGED <<mode, worker, opener, shutdown, layout, handed, told, changedSince, formats>>

PumpFails ==
  /\ worker = "pump" /\ ~error
  /\ error' = TRUE
  /\ UNCHANGED <<mode, worker, opener, shutdown, layout, latest, fresh, handed, told,
                 changedSince, buffers, formats>>

\* Between two slices of the loop: shut down, or an error to stop for.
PumpEnds ==
  /\ worker = "pump" /\ (shutdown \/ error)
  /\ worker' = "done"
  /\ UNCHANGED <<mode, opener, shutdown, layout, latest, fresh, error, handed, told, changedSince,
                 buffers, formats>>

-----------------------------------------------------------------------------
(* The consumer: next_frame, or the end of a grab.                         *)

TakeError ==
  /\ opener = "open" /\ error /\ ~shutdown
  /\ told' = TRUE
  /\ error' = FALSE
  /\ UNCHANGED <<mode, worker, opener, shutdown, layout, latest, fresh, handed, changedSince,
                 buffers, formats>>

\* MUTANT of TakeFrame: the frame is copied and stays fresh.
TakeFrameCopy ==
  /\ opener = "open" /\ ~error /\ fresh /\ ~shutdown
  /\ UNCHANGED <<fresh, latest>>
  /\ handed' = Append(handed, [width |-> layout, pixels |-> latest.width, serial |-> latest.serial,
                               changed |-> changedSince])
  /\ changedSince' = FALSE
  /\ shutdown' = (mode = "grab")
  /\ UNCHANGED <<mode, worker, opener, layout, error, told, buffers, formats>>

\* The size is read here, the pixels were decoded earlier.
TakeFrame ==
  /\ opener = "open" /\ ~error /\ fresh /\ ~shutdown
  /\ fresh' = FALSE
  /\ latest' = Nothing
  /\ handed' = Append(handed, [width |-> layout, pixels |-> latest.width, serial |-> latest.serial,
                               changed |-> changedSince])
  /\ changedSince' = FALSE
  /\ shutdown' = (mode = "grab")
  /\ UNCHANGED <<mode, worker, opener, layout, error, told, buffers, formats>>

\* The handle is dropped, at an error or when the stream is stopped.
Drop ==
  /\ opener = "open" /\ ~shutdown
  /\ shutdown' = TRUE
  /\ UNCHANGED <<mode, worker, opener, layout, latest, fresh, error, handed, told, changedSince,
                 buffers, formats>>

FramesNext ==
  \/ HandshakeDone \/ HandshakeFails \/ PumpFails \/ PumpEnds
  \/ \E w \in Widths, ok \in BOOLEAN: ParamChanged(w, ok)
  \/ \E b \in {"good", "skipped", "bad"}: Process(b)
  \/ TakeError \/ TakeFrame \/ Drop

FramesSpec == FramesInit /\ [][FramesNext]_pipewireVars
-----------------------------------------------------------------------------
(* Properties.                                                             *)

\* Frames come in the order they were decoded and none twice; a grab hands on
\* the first.  One that waited while nothing was renegotiated has the size it
\* was decoded under.  And an error is not passed over in silence: a worker that
\* stopped by itself has left it in the slot, or it has been told.
FramesFaithful ==
  /\ \A i, j \in DOMAIN handed: i < j => handed[i].serial < handed[j].serial
  /\ mode = "grab" => Len(handed) <= 1
  /\ \A i \in DOMAIN handed: handed[i].changed \/ handed[i].width = handed[i].pixels
  /\ (worker = "done" /\ ~shutdown) => (error \/ told)

\* Every frame handed on has the size its pixels were decoded under.
FrameFits == \A i \in DOMAIN handed: handed[i].width = handed[i].pixels
=============================================================================
