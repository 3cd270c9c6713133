------------------------------ MODULE Captures ------------------------------
(***************************************************************************)
(* The two ways a tool comes to frames of its own: single shots over the   *)
(* compositor's protocol (WlrShot), and recordings through the helpers     *)
(* (ScreenRecord).  They go on side by side and share nothing.             *)
(***************************************************************************)
EXTENDS ScreenRecord, WlrShot

CapturesSpec == RecordSpec /\ ShotSpec

\* A single shot and a recording are what they say they are: the shot shows what
\* the screen showed, the manifest is what is on disk.
CapturesTold == ShotTrue /\ RecordingTold
=============================================================================
