------------------------------ MODULE MCDesktop -----------------------------
(***************************************************************************)
(* Small instances of the parts that act on the desktop: the detection of  *)
(* the back ends (DetectionLadder), the pointer and the keyboard           *)
(* (InputDevice), the windows (WindowBackends) and the rows that tell of   *)
(* them (WindowRows), the highlight (HighlightOverlay), the clipboard      *)
(* (ClipboardHelpers), and the portal's sessions, in which input may have  *)
(* to go (PortalSession).  A behaviour follows one, picked at the start.   *)
(***************************************************************************)
EXTENDS PortalSession, ClipboardHelpers, WindowBackends, InputDevice,
        DetectionLadder, HighlightOverlay, TLC

CONSTANTS Parts, w1, w2, w3, w4, c1, c2,
          i1, i2, g1, g2, h1, shot

VARIABLES part,
  teller, op, desk, past, step, queue, raw, focusedId, listed, rowChanges, rowFaults

rowVars == <<teller, op, desk, past, step, queue, raw, focusedId, listed, rowChanges,
             rowFaults>>

-----------------------------------------------------------------------------
(* Detection: sessions of every type and compositor, with variables that   *)
(* outlived theirs; two back ends come up while the ladders are walked.    *)

MCEnvironments ==
  [type: {"wayland", "x11", "tty"}, wayland: BOOLEAN, display: BOOLEAN,
   hyprland: BOOLEAN, swaysock: BOOLEAN, wayfire: {FALSE}, kde: BOOLEAN,
   desktop: {"unset", "sway", "river", "kde", "gnome"}]
Portals == {"portal-screenshot", "portal-remote-desktop"}
MCSessions ==
  {{}, Portals \union {"wlr-toplevel", "xclip"},
   Portals \union {"wlr-screencopy", "grim", "scrot", "wlr-virtual-input", "uinput",
     "xdotool", "hyprctl", "sway-ipc", "wayfire-ipc", "riverctl", "kdotool",
     "gnome-shell", "wmctrl", "wlr-toplevel", "atspi2", "onnx", "cdp",
     "wlr-layer-shell", "wl-clipboard", "xclip"}}

-----------------------------------------------------------------------------
(* Input: two calls at once, a key with and one without the shifted level, *)
(* a character without a key, and two outputs: one of them left of the     *)
(* origin, or the right one doubled; the range of uinput told or found.    *)

K(c, s) == [code |-> c, shifted |-> s]
MCLayout ==
  ("a" :> K("ka", FALSE)) @@ ("A" :> K("ka", TRUE)) @@
  ("Control_L" :> K("kctrl", FALSE)) @@ ("Shift_L" :> K("kshift", FALSE))
Seen(x, w, scale) == [x |-> x, w |-> w, scale |-> scale]
Plain == [tool |-> "type_text", button |-> "left", action |-> "press", from |-> 0,
          to |-> 0, key |-> "a", modifiers |-> {}, text |-> <<>>, delayed |-> FALSE]
MCToolCalls ==
  {[Plain EXCEPT !.text = <<"A", "z">>],
   [Plain EXCEPT !.text = <<"a", "a", "a", "a">>, !.delayed = TRUE],
   [Plain EXCEPT !.tool = "key_control", !.key = "A", !.modifiers = {"Control_L", "Shift_L"}],
   [Plain EXCEPT !.tool = "key_control", !.action = "down"],
   [Plain EXCEPT !.tool = "key_control", !.action = "up"],
   [Plain EXCEPT !.tool = "mouse_button_control", !.action = "down"],
   [Plain EXCEPT !.tool = "mouse_button_control", !.action = "up"],
   [Plain EXCEPT !.tool = "mouse_drag", !.from = -1, !.to = 1],
   [Plain EXCEPT !.tool = "mouse_double_click", !.to = -2],
   [Plain EXCEPT !.tool = "mouse_move_path", !.from = -1, !.to = 5]}

\* Every provider over the plain outputs; the virtual devices over a doubled
\* one too, the axis of uinput being as long as the desktop or longer.
MCPlain == {Seen(-2, 2, 1), Seen(0, 2, 1)}
MCArrangements == {MCPlain, {Seen(0, 1, 1), Seen(1, 4, 2)}}
MCScreen ==
  \/ outputs = MCPlain /\ (backend = "uinput" => extent = PixelRight)
  \/ outputs # MCPlain /\ backend \in {"wlr", "uinput"}

\* The two calls are alike: no definition tells one from the other.
CallsAlike == Permutations({c1, c2})

-----------------------------------------------------------------------------
(* Windows: two that may share a title, every provider; a window closes,   *)
(* opens, moves in the order or takes the focus between any two queries.   *)

Q(action, by, ref, form, at) ==
  [action |-> action, by |-> by, ref |-> ref, form |-> form, at |-> at]
MCWindowCalls ==
  {Q(a, by, NoWindow, "none", 0): a \in {"focus", "close", "minimize"},
                              by \in {"omitted", "focused"}}
  \union {Q("close", "id", 0, "none", 0), Q("close", "id", w1, "none", 0),
          Q("close", "title", "a", "none", 0), Q("move", "id", w1, "absolute", 5),
          Q("move", "id", w2, "absolute", -1),
          Q("move", "omitted", NoWindow, "relative", 1),
          Q("resize", "omitted", NoWindow, "relative", 1),
          Q("resize", "title", "a", "absolute", 3),
          Q("resize", "omitted", NoWindow, "absolute", 0),
          Q("list", "omitted", NoWindow, "none", 0)}

MCIdent == w1 :> 1 @@ w2 :> 0

-----------------------------------------------------------------------------
(* Rows: four windows, one of them a panel, one on another output, one on  *)
(* no workspace; a caption of two lines, and one that begins like the      *)
(* marker kdotool's output is cut at.                                      *)

Facts(class, ws, out, pid, full, floating, ident, panel) ==
  [class |-> class, ws |-> ws, output |-> out, pid |-> pid, full |-> full,
   floating |-> floating, ident |-> ident, panel |-> panel]
MCAbout ==
  (w1 :> Facts("c1", 1, 0, 7, 0, FALSE, "app", FALSE)) @@
  (w2 :> Facts("c2", 2, 1, 8, 2, TRUE, "x11", FALSE)) @@
  (w3 :> Facts("c3", -1, 0, 9, 0, FALSE, "bare", FALSE)) @@
  (w4 :> Facts("c4", 1, 0, 6, 0, FALSE, "app", TRUE))
MCDesks ==
  [order: {<<w1, w4, w2, w3>>}, active: {w2}, last: {w2},
   title: {[w \in {w1, w2, w3, w4} |-> "a"]}]

R == INSTANCE WindowRows WITH
  Tellers <- {"hyprctl", "sway", "gnome", "kdotool", "wayfire", "x11"},
  About <- MCAbout, Desks <- MCDesks, None <- NoWindow, MaxChanges <- 2, MaxFaults <- 1,
  Captions <- ("a" :> <<"text">>) @@ ("b" :> <<"text", "text">>) @@ ("w" :> <<"window">>),
  rows <- listed, changes <- rowChanges, faults <- rowFaults

-----------------------------------------------------------------------------
(* Highlights: two outputs side by side, the left one before the origin,   *)
(* one doubled; or one with a fractional scale.  The current mode is told  *)
(* before another.                                                         *)

Mode(width, current) == [width |-> width, current |-> current]
Output(at, width, scale, logical) ==
  [x |-> at, modes |-> <<Mode(width, TRUE), Mode(1, FALSE)>>, scale |-> scale,
   logical |-> logical]
MCRects == [x: {-5, -3, 2, 7}, w: {2, 5}, duration: {2}]
             \union {[x |-> 0, w |-> 0, duration |-> 2], [x |-> 0, w |-> 1, duration |-> 9]}

MCDisplays == {<<Output(-4, 4, 1, 4), Output(0, 8, 2, 4)>>, <<Output(0, 6, 2, 4)>>}

-----------------------------------------------------------------------------
(* The clipboard: two calls at once, a text that is not UTF-8, a picture.  *)

R3(o, mime, text) == [op |-> o, mime |-> mime, text |-> text]
MCCopies ==
  {R3("get", "text/plain", NoText), R3("get", "image/png", NoText),
   R3("list", "list", NoText), R3("set", "", "a"), R3("set", "", "long"),
   R3("clear", "", NoText)}
MCReads == "a" :> "a" @@ "latin" :> "lat?n" @@ "png" :> NoText

-----------------------------------------------------------------------------
(* The portal: two callers of the input provider, of whom one calls twice; *)
(* two captures on one connection; or a held stream and a screenshot.      *)

MCFlows == {i1, i2, g1, g2, h1, shot}
MCKind == [f \in MCFlows |-> CASE f \in {i1, i2} -> "input" [] f \in {g1, g2} -> "capture"
                               [] f = h1 -> "hold" [] f = shot -> "shot"]
Casting(n) == [f \in MCFlows |-> IF f \in DOMAIN n THEN n[f] ELSE 0]
MCCasts == {Casting(i1 :> 2 @@ i2 :> 1), Casting(g1 :> 1 @@ g2 :> 1),
            Casting(h1 :> 1 @@ shot :> 1)}

-----------------------------------------------------------------------------
\* A component that is not explored starts in one fixed state.
Start(p, choice) == part = p \/ choice

DesktopInit ==
  /\ part \in Parts
  /\ Start("detection", usable = {} /\ env = CHOOSE e \in MCEnvironments: TRUE)
  /\ LadderInit
  /\ Start("input", backend = "wlr" /\ focus = w1 /\ outputs = MCPlain) /\ InputInit
  /\ MCScreen
  /\ Start("windows", provider = "wlr" /\ named = TRUE /\ active = w1
                        /\ title = [w \in {w1, w2} |-> "a"])
  /\ WindowInit /\ tiled \subseteq {w1}
  /\ R!Init /\ Start("rows", teller = "sway" /\ op = "list" /\ desk.active = w2)
  /\ HighlightInit /\ Start("highlight", Len(display) = 1 /\ slot = TRUE /\ "wl_shm" \in globals)
  /\ ClipboardInit /\ Start("clipboard", kit = "none" /\ selection = "png")
  /\ Init /\ Start("portal", turns = CHOOSE n \in MCCasts: TRUE)

vars == <<part, ladderVars, inputVars, windowVars, rowVars, highlightVars, clipVars,
          portalVars>>

DesktopNext ==
  \/ /\ part = "detection" /\ LadderNext
     /\ UNCHANGED <<part, inputVars, windowVars, rowVars, highlightVars, clipVars, portalVars>>
  \/ /\ part = "input" /\ InputNext
     /\ UNCHANGED <<part, ladderVars, windowVars, rowVars, highlightVars, clipVars, portalVars>>
  \/ /\ part = "windows" /\ WindowNext
     /\ UNCHANGED <<part, ladderVars, inputVars, rowVars, highlightVars, clipVars, portalVars>>
  \/ /\ part = "rows" /\ R!RowsNext
     /\ UNCHANGED <<part, ladderVars, inputVars, windowVars, highlightVars, clipVars, portalVars>>
  \/ /\ part = "highlight" /\ HighlightNext
     /\ UNCHANGED <<part, ladderVars, inputVars, windowVars, rowVars, clipVars, portalVars>>
  \/ /\ part = "clipboard" /\ ClipboardNext
     /\ UNCHANGED <<part, ladderVars, inputVars, windowVars, rowVars, highlightVars, portalVars>>
  \/ /\ part = "portal" /\ Next
     /\ UNCHANGED <<part, ladderVars, inputVars, windowVars, rowVars, highlightVars, clipVars>>

DesktopSpec == DesktopInit /\ [][DesktopNext]_vars
-----------------------------------------------------------------------------
\* What a provider lists is the desktop as it was at some point of the call.
RowsTrue == part = "rows" => R!RowsTrue
=============================================================================
