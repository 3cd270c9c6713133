------------------------------ MODULE MCSenses ------------------------------
(***************************************************************************)
(* Small instances of the parts that find things out about the desktop:    *)
(* the accessibility tree (AccessTree), the browser (BrowserBridge), the   *)
(* tools that look at the screen (ScreenVision) and what they compute      *)
(* (VisionMath).  A behaviour follows one of them, picked at the start.    *)
(***************************************************************************)
EXTENDS BrowserBridge, Integers, Sequences, FiniteSets, TLC

CONSTANTS Parts, c1, c2

VARIABLES part,
  tree, changes, clock, cache, caller, invoked, faults,
  outputs, scale, shown, sightChanges, time, focus, results, engine, disk, looker, looks,
  sightFaults,
  sample, result

treeVars == <<tree, changes, clock, cache, caller, invoked, faults>>
sightVars == <<outputs, scale, shown, sightChanges, time, focus, results, engine, disk,
               looker, looks, sightFaults>>
mathVars == <<sample, result>>

-----------------------------------------------------------------------------
(* The tree: two applications of five elements, one of which comes, goes   *)
(* and is renamed; a search against any other call.                        *)

Elements == {"root", "a1", "a2", "x", "y", "z", "w"}
Desk(more, front, focused) ==
  [kids |-> ("root" :> <<"a1", "a2">>) @@ ("a1" :> <<"x">>) @@ ("a2" :> <<"y">> \o more)
              @@ [e \in Elements |-> <<>>],
   name |-> [e \in Elements |-> IF e \in {"x", "y"} THEN "ok" ELSE "no"],
   role |-> [e \in Elements |-> IF e \in {"a1", "a2"} THEN "app" ELSE "item"],
   area |-> [e \in Elements |-> 0],
   actions |-> ("x" :> <<"open", "press">>) @@ ("y" :> <<"expand">>)
                 @@ [e \in Elements |-> <<>>],
   active |-> front, focused |-> focused]
Call(kind, query, value, action, limit, timeout) ==
  [op |-> kind, query |-> [kind |-> query, value |-> value], action |-> action,
   limit |-> limit, timeout |-> timeout]
Seek == Call("find", "any", "item", "", 2, 0)
OtherCalls ==
  {Seek, Call("wait", "index", <<1, 1>>, "", 1, 2),
   Call("invoke", "name", "ok", "press", 1, 0),
   Call("invoke", "object", "x", "open", 1, 0), Call("focused", "any", "", "", 1, 0),
   Call("tree", "any", "", "", 1, 0), Call("tree", "any", "", "", 2, 0)}

T == INSTANCE AccessTree WITH
  Callers <- {c1, c2}, Asks <- (c1 :> {Seek}) @@ (c2 :> OtherCalls), Restless <- {"x"},
  Desktops <- {Desk(<<"z", "w">>, "a1", "x"), Desk(<<>>, "a2", None)}, Root <- "root",
  None <- None, MaxNodes <- 5, Ttl <- 2, Poll <- 1, MaxClock <- 2, MaxChanges <- 1,
  MaxFaults <- 1, desk <- tree

-----------------------------------------------------------------------------
(* The browser: two calls that share the connection; endpoints with a page *)
(* to attach to, without one, and with a remote one.                       *)

Target(type, url) == [type |-> type, url |-> url]
MCEndpoints ==
  {[list |-> <<Target("worker", "local"), Target("page", "local")>>,
    version |-> Target("browser", "local")],
   [list |-> <<Target("page", None), Target("worker", "remote")>>,
    version |-> Target("browser", "local")],
   [list |-> <<>>, version |-> Target("browser", "local")],
   [list |-> <<Target("worker", "local")>>, version |-> Target("browser", "remote")],
   [list |-> <<>>, version |-> Target("browser", None)]}

MCWanted == (c1 :> {"p", "bad"}) @@ (c2 :> {"q", "throw"})
MCPages == ("p" :> "hit") @@ ("q" :> "miss") @@ ("throw" :> "throws") @@ ("bad" :> "refused")

-----------------------------------------------------------------------------
(* The tools that look: one caller finds a label or an icon, the other     *)
(* finds as well, takes screenshots, reads colours or sets the region of   *)
(* interest.  Two outputs that trade places, at the origin or left of it,  *)
(* at scale one and two; models that are there, absent or outdated.        *)

Span(lo, hi) == [lo |-> lo, hi |-> hi]
Look(kind, region, display, window, wanted) ==
  [op |-> kind, region |-> region, display |-> display, window |-> window,
   wanted |-> wanted]
Find(region) == Look("text", region, None, FALSE, "ok")
Shot(region, display, window) == Look("shot", region, display, window, None)
MCLooks ==
  (c1 :> {Find(None), Look("icon", None, None, FALSE, "ok")}) @@
  (c2 :> {Find(Span(0, 2)),
          Shot(None, "A", FALSE), Shot(None, None, TRUE),
          Shot(Span(0, 1), None, TRUE),
          Look("color", Span(1, 2), None, FALSE, None),
          Look("color", Span(6, 7), None, FALSE, None),
          Look("focus", Span(1, 3), None, FALSE, None)})
Outputs(a, b) == ("A" :> a) @@ ("B" :> b)
Labels(ok, no) == ("ok" :> ok) @@ ("no" :> no)
Models(det, rec, owl) == ("det" :> det) @@ ("rec" :> rec) @@ ("owl" :> owl)
MCSettings ==
  {[outputs |-> Outputs(Span(0, 2), Span(2, 4)), scale |-> 1,
    shown |-> Labels(Span(0, 2), Span(2, 3)), stored |-> Models("old", "good", "none")],
   [outputs |-> Outputs(Span(-2, 0), Span(0, 2)), scale |-> 2,
    shown |-> Labels(Span(0, 2), Span(-2, 0)), stored |-> Models("good", "none", "good")]}

V == INSTANCE ScreenVision WITH
  Callers <- {c1, c2}, Asks <- MCLooks,
  Layouts <- {Outputs(Span(0, 2), Span(2, 4)), Outputs(Span(2, 4), Span(0, 2))},
  Screens <- {Labels(Span(0, 2), Span(2, 3)), Labels(Span(1, 2), Span(2, 4))},
  Settings <- MCSettings, Files <- ("ocr" :> <<"det", "rec">>) @@ ("icon" :> <<"owl">>),
  None <- None, Cap <- 1, Ttl <- 1, MaxClock <- 1, MaxChanges <- 1, MaxCalls <- 3,
  MaxFaults <- 1, changes <- sightChanges, clock <- time, cache <- results, caller <- looker,
  calls <- looks, faults <- sightFaults

-----------------------------------------------------------------------------
(* What they compute: maps of three by three cells and less, paths of four *)
(* steps, queries of four tokens, four boxes; every one of them.           *)

Sequences(S, n) == UNION {[1..k -> S]: k \in 0..n}
Map(w, h, levels) ==
  [kind: {"map"}, w: {w}, h: {h}, cell: {2}, prob: [0..(w * h - 1) -> levels]]
Box(x, score) == [x |-> x, y |-> 0, w |-> 4, h |-> 2, score |-> score]
MCSamples ==
  Map(3, 3, {0, 9}) \union Map(2, 3, {0, 4, 9}) \union Map(4, 2, {0, 9})
    \union [kind: {"steps"}, path: Sequences(0..3, 4)]
    \union [kind: {"tokens"}, ids: Sequences(0..2, 4)]
    \union [kind: {"boxes"},
            boxes: Sequences({Box(x, s): x \in {0, 1, 2, 9}, s \in 1..2}, 4)]

M == INSTANCE VisionMath WITH
  Samples <- MCSamples, MapThreshold <- 3, BoxThreshold <- 5, MinEdge <- 2,
  Keys <- <<"a", "b">>, Length <- 3, Pad <- 9, MaxOverlap <- 5, MaxBoxes <- 3,
  None <- None

-----------------------------------------------------------------------------
\* A component that is not explored starts in one fixed state.
Start(p, choice) == part = p \/ choice

Init ==
  /\ part \in Parts
  /\ T!Init /\ Start("tree", tree.active = "a1")
  /\ BridgeInit /\ Start("browser", endpoint.version.url = None)
  /\ V!Init /\ Start("sight", scale = 1)
  /\ M!Init /\ Start("math", sample = [kind |-> "tokens", ids |-> <<>>])

Next ==
  \/ /\ part = "tree" /\ T!Next
     /\ UNCHANGED <<part, bridgeVars, sightVars, mathVars>>
  \/ /\ part = "browser" /\ BridgeNext
     /\ UNCHANGED <<part, treeVars, sightVars, mathVars>>
  \/ /\ part = "sight" /\ V!Next
     /\ UNCHANGED <<part, treeVars, bridgeVars, mathVars>>
  \/ /\ part = "math" /\ M!Next
     /\ UNCHANGED <<part, treeVars, bridgeVars, sightVars>>

Spec == Init /\ [][Next]_<<part, treeVars, bridgeVars, sightVars, mathVars>>
-----------------------------------------------------------------------------
\* What a search finds, and what an invocation does, is true of the desktop.
TreeAnswers == part = "tree" => T!TreeAnswers
\* What a look at the screen answers is what the screen showed where it looked.
SightTrue == part = "sight" => V!SightTrue
\* The detector's boxes, the recognizer's text, the clipped query and the boxes
\* kept are the ones their definitions say.
AlgorithmsRight == part = "math" => M!AlgorithmsRight
\* Hits are in the coordinates of the layout (docs/TOOLS.md:200).
HitsLogical == part = "sight" => V!HitsLogical
\* Nothing focused is not found (docs/TOOLS.md:1003).
FocusedHonest == part = "tree" => T!FocusedHonest
=============================================================================
