----------------------------- MODULE InputDevice ----------------------------
(***************************************************************************)
(* The pointer and keyboard tools over the four input providers: virtual   *)
(* Wayland devices ("wlr"), /dev/uinput, xdotool ("x11") and the portal.   *)
(*                                                                         *)
(* A tool call is a script of operations of its provider.  An operation is *)
(* a batch of raw events under the provider's lock; what happens to the    *)
(* rest of the script when it fails is the operation's own: "abort" ends   *)
(* the call, "cleanup" goes on at the operations that release what is      *)
(* held, "report" and "ignore" mark those.  The desktop has one dimension. *)
(***************************************************************************)
EXTENDS Integers, Sequences, FiniteSets, FiniteSetsExt, SequencesExt, Functions

CONSTANTS
  Callers,        \* calls in flight at once
  ToolCalls,      \* the calls explored
  InputBackends,       \* the providers explored
  Layout,         \* [key name or character -|-> code, shifted]: the XKB layout
  ShiftCode,
  SpareCode,      \* the code xdotool binds a character to that has no key
  Arrangements,   \* sets of outputs: origin, width in pixels and scale
  ScreenSizes,    \* what ULTRANIX_SCREEN_SIZE or the default may say
  Windows, Unknown, \* windows that may have the focus; no answer
  CheckEvery,     \* characters between two checks of the focus
  MaxSteps,       \* interpolated moves of a drag or a path
  MaxToolCalls, MaxFaults, MaxFocus  \* bounds: calls, failing operations, focus changes

\* What the schemas of the tools and the layout's file admit; no answer is no window.
InputConstants ==
  /\ InputBackends \subseteq {"wlr", "uinput", "x11", "portal"}
  /\ \A outs \in Arrangements:
       /\ IsFiniteSet(outs) /\ outs # {}
       /\ \A o \in outs: o.x \in Int /\ o.w \in Nat \ {0} /\ o.scale \in Nat \ {0}
  /\ ScreenSizes \subseteq Nat
  /\ Unknown \notin Windows \union ToolCalls
  /\ CheckEvery \in Nat \ {0} /\ MaxSteps \in Nat \ {0}
  /\ \A name \in DOMAIN Layout: Layout[name].shifted \in BOOLEAN
  /\ \A c \in ToolCalls:
       /\ c.from \in Int /\ c.to \in Int
       /\ c.text \in Seq(Range(c.text))
       /\ c.tool \in {"mouse_click", "mouse_double_click", "mouse_move_path", "mouse_drag",
                      "mouse_button_control", "key_control", "type_text"}
ASSUME InputAssumption == InputConstants

VARIABLES
  backend,  \* the provider chosen at startup
  outputs,  \* the outputs there are
  extent,   \* the range of the uinput device's axis, 0 with another provider
  alive,    \* its connection is up
  down,     \* codes the compositor takes for pressed
  pointer,  \* where the pointer is
  wanted,   \* where the last move that got through was asked to put it
  heldSet,  \* HELD_BUTTONS
  focus,
  turn,     \* [Callers -> the call in flight]
  asked,    \* codes a successful down call holds and no up call released
  tainted,  \* codes an operation that failed touched, modifiers it left held
  calls, faults, moves

inputVars == <<backend, outputs, extent, alive, down, pointer, wanted, heldSet, focus, turn, asked,
               tainted, calls, faults, moves>>

Modifiers == {"Control_L", "Shift_L", "Alt_L", "Super_L"}

-----------------------------------------------------------------------------
(* Raw events.                                                             *)

Press(code) == [code |-> code, down |-> TRUE]
Release(code) == [code |-> code, down |-> FALSE]

\* What events touch, and what they leave pressed: the last event of a code counts.
Touched(events) == {events[i].code: i \in DOMAIN events}
LastDown(events) ==
  {events[i].code: i \in {j \in DOMAIN events: /\ events[j].down
      /\ \A k \in DOMAIN events: k > j => events[k].code # events[j].code}}
Applied(codes, events) == (codes \ Touched(events)) \union LastDown(events)

\* The uinput and portal providers have no keymap: they fold a name to lower
\* case without its separators and look it up in a table of evdev names.
Folded == [Control_L |-> "controll", Shift_L |-> "shiftl", Alt_L |-> "altl",
           Super_L |-> "superl"]
EvdevNames == {"ctrl", "control", "lctrl", "leftctrl", "shift", "lshift", "leftshift",
               "alt", "lalt", "leftalt", "super", "lsuper", "leftsuper"}
Bound(name) ==
  /\ name \in DOMAIN Layout
  /\ (backend \in {"uinput", "portal"} /\ name \in DOMAIN Folded)
       => Folded[name] \in EvdevNames

\* xdotool binds a character without a key to a spare one while it types it.
Binding(name) ==
  IF name \in DOMAIN Layout THEN Layout[name] ELSE [code |-> SpareCode, shifted |-> FALSE]

\* A key at the shifted level brings the shift key along.
KeyEvents(name, pressed) ==
  LET b == Binding(name)
  IN IF pressed
     THEN (IF b.shifted THEN <<Press(ShiftCode)>> ELSE <<>>) \o <<Press(b.code)>>
     ELSE <<Release(b.code)>> \o (IF b.shifted THEN <<Release(ShiftCode)>> ELSE <<>>)

Tap(name) == KeyEvents(name, TRUE) \o KeyEvents(name, FALSE)

Key(name, pressed, onfail) ==
  [op |-> "key", names |-> <<name>>, pressed |-> pressed, onfail |-> onfail]
Text(chars, onfail) ==
  [op |-> "text", names |-> chars, pressed |-> TRUE, onfail |-> onfail]
Button(b, pressed, onfail) ==
  [op |-> "button", names |-> <<b>>, pressed |-> pressed, onfail |-> onfail]
Click(x, b, onfail) ==
  [op |-> "click", at |-> x, names |-> <<b>>, pressed |-> TRUE, onfail |-> onfail]
Move(x, onfail) == [op |-> "move", at |-> x, names |-> <<>>, onfail |-> onfail]

\* Keys and characters are looked up before the first event of an operation,
\* but for a text under X11: one xdotool is given the whole of it as it is.
LooksUp(op) == op = "key" \/ (op = "text" /\ backend # "x11")
Resolves(o) == LooksUp(o.op) => \A i \in DOMAIN o.names: Bound(o.names[i])

Events(o) ==
  CASE o.op = "key" -> KeyEvents(o.names[1], o.pressed)
    [] o.op = "text" -> FlattenSeq([i \in DOMAIN o.names |-> Tap(o.names[i])])
    [] o.op = "button" -> IF o.pressed THEN <<Press(o.names[1])>> ELSE <<Release(o.names[1])>>
    [] o.op = "click" -> <<Press(o.names[1]), Release(o.names[1])>>
    [] o.op = "move" -> <<>>
Codes(o) == IF Resolves(o) THEN Touched(Events(o)) ELSE {}

-----------------------------------------------------------------------------
(* Where a move lands.                                                     *)

Clamp(x, lo, hi) == IF x < lo THEN lo ELSE IF x > hi THEN hi ELSE x
Width(o) == o.w \div o.scale

\* The desktop, in logical coordinates, and what the providers take for its
\* right edge: they add an output's width in pixels to its logical origin.
Left == Min({o.x: o \in outputs})
Right == Max({o.x + Width(o): o \in outputs})
PixelRight == Max({o.x + o.w: o \in outputs})

\* The compositor stretches the range 0..range of a device over its desktop.
Onto(at, range) == Left + ((at * (Right - Left)) \div range)

\* MUTANT of WlrTarget: the origin of the box is not subtracted.
WlrTargetRaw(x) == Onto(Clamp(x, 0, PixelRight - Left), PixelRight - Left)

\* wlr pins to the box it takes for the desktop; uinput to the
\* axis of its device; the portal to the stream under the point, or else to
\* its first one, of those the user granted, and to nothing when it names no
\* stream; xdotool takes any coordinate.
WlrTarget(x) == Onto(Clamp(x - Left, 0, PixelRight - Left), PixelRight - Left)
UinputTarget(x) == Onto(Clamp(x, 0, extent), extent)
Under(x) == {o \in outputs: x >= o.x /\ x < o.x + Width(o)}
PortalTargets(x) ==
  LET p == IF x < 0 THEN 0 ELSE x
  IN {p} \union {o.x + Clamp(p - o.x, 0, Width(o) - 1): o \in outputs}
Targets(x) ==
  CASE backend = "wlr" -> {WlrTarget(x)}
    [] backend = "uinput" -> {UinputTarget(x)}
    [] backend = "portal" -> PortalTargets(x)
    [] backend = "x11" -> {x}

-----------------------------------------------------------------------------
(* The scripts of the tools.                                               *)

\* The portal's click and text are calls of their own, one per button or key.
ProviderOps(o) ==
  IF backend # "portal" \/ ~Resolves(o) THEN <<o>>
  ELSE CASE o.op = "click" ->
              <<Button(o.names[1], TRUE, o.onfail), Button(o.names[1], FALSE, o.onfail)>>
         [] o.op = "text" -> [i \in 1..(2 * Len(o.names)) |->
                               Key(o.names[(i + 1) \div 2], i % 2 = 1, o.onfail)]
         [] o.op \notin {"click", "text"} -> <<o>>

ClickOps(x, b) ==
  IF backend = "portal" THEN <<Move(x, "abort")>> \o ProviderOps(Click(x, b, "abort"))
  ELSE <<Click(x, b, "abort")>>

\* mouse_drag: a failing move still releases the button.
DragOps(c) ==
  <<Move(c.from, "abort"), Button(c.button, TRUE, "abort")>>
    \o [i \in 1..MaxSteps |-> Move(c.from + (((c.to - c.from) * i) \div MaxSteps), "cleanup")]
    \o <<Button(c.button, FALSE, "report")>>

\* key_control: modifiers in canonical order, each once, released in reverse
\* whatever the key did.
OneOf(c, m) == IF m \in c.modifiers THEN <<m>> ELSE <<>>
ModsOf(c) ==
  OneOf(c, "Control_L") \o OneOf(c, "Shift_L") \o OneOf(c, "Alt_L") \o OneOf(c, "Super_L")
KeyOps(c) ==
  [i \in DOMAIN ModsOf(c) |-> Key(ModsOf(c)[i], TRUE, "abort")]
    \o (IF c.action = "press" THEN <<Key(c.key, TRUE, "cleanup"), Key(c.key, FALSE, "cleanup")>>
        ELSE <<Key(c.key, c.action = "down", "cleanup")>>)
    \o Reverse([i \in DOMAIN ModsOf(c) |-> Key(ModsOf(c)[i], FALSE, "ignore")])

TextOps(c) ==
  IF c.delayed THEN [i \in DOMAIN c.text |-> Text(<<c.text[i]>>, "abort")]
  ELSE ProviderOps(Text(c.text, "abort"))

Script(c) ==
  CASE c.tool = "mouse_click" -> ClickOps(c.to, c.button)
    [] c.tool = "mouse_double_click" -> ClickOps(c.to, c.button) \o ClickOps(c.to, c.button)
    [] c.tool = "mouse_move_path" -> <<Move(c.from, "abort")>>
         \o [i \in 1..MaxSteps |-> Move(c.from + (((c.to - c.from) * i) \div MaxSteps), "abort")]
    [] c.tool = "mouse_drag" -> DragOps(c)
    [] c.tool = "mouse_button_control" -> <<Button(c.button, c.action = "down", "abort")>>
    [] c.tool = "key_control" -> KeyOps(c)
    [] c.tool = "type_text" -> TextOps(c)

Safe == {"type_text", "key_control"}     \* the tools with a focus check

-----------------------------------------------------------------------------
NoTurn == [pc |-> "idle", call |-> Unknown, ops |-> <<>>, failed |-> "no",
           before |-> Unknown, sent |-> 0, typed |-> 0, astray |-> 0,
           blind |-> FALSE, result |-> "none"]

InputInit ==
  /\ backend \in InputBackends /\ alive = TRUE
  /\ outputs \in Arrangements
  /\ extent \in IF backend = "uinput" THEN {n \in ScreenSizes \union {PixelRight}: n > 0}
               ELSE {0}
  /\ down = {} /\ pointer = Left /\ wanted = Left
  /\ heldSet = {}
  /\ focus \in Windows
  /\ turn = [c \in Callers |-> NoTurn]
  /\ asked = {} /\ tainted = {}
  /\ calls = 0 /\ faults = 0 /\ moves = 0

screenVars == <<backend, outputs, extent>>
deviceVars == <<alive, down, pointer, wanted, tainted, faults>>

\* What a focus query answers: the window, or nothing.
Answers == {focus, Unknown}

\* A call begins: a button that is already where it should be is a success
\* without an event, a typing tool takes a snapshot of the focus.
BeginTool(n) ==
  /\ turn[n].pc \in {"idle", "done"} /\ calls < MaxToolCalls
  /\ calls' = calls + 1
  /\ \E c \in ToolCalls: \E seen \in (IF c.tool \in Safe THEN Answers ELSE {Unknown}):
       turn' = [turn EXCEPT ![n] =
         IF c.tool = "mouse_button_control" /\ ((c.action = "down") <=> (c.button \in heldSet))
         THEN [NoTurn EXCEPT !.pc = "done", !.call = c, !.result = "noop"]
         ELSE [NoTurn EXCEPT !.pc = "run", !.call = c, !.ops = Script(c), !.before = seen,
                             !.blind = seen = Unknown]]
  /\ UNCHANGED <<screenVars, deviceVars, heldSet, focus, asked, moves>>

\* MUTANT of AfterFailure: the error is returned on the spot.
AfterFailureReturn(ops) ==
  IF Head(ops).onfail = "ignore" THEN Tail(ops) ELSE <<>>

\* The rest of a script after the failure of its first operation; those that release
\* what is held are its last.
Releasing == {"report", "ignore"}
Cleanup(ops) ==
  LET from == {i \in DOMAIN ops: ops[i].onfail \in Releasing}
  IN IF from = {} THEN <<>> ELSE SubSeq(ops, Min(from), Len(ops))
AfterFailure(ops) ==
  CASE Head(ops).onfail = "abort" -> <<>>
    [] Head(ops).onfail = "cleanup" -> Cleanup(Tail(ops))
    [] Head(ops).onfail \in Releasing -> Tail(ops)

\* The modifiers of a chord stay held when one of them fails to go down.
Abandoned(t) ==
  IF t.call.tool = "key_control" /\ Head(t.ops).onfail = "abort"
  THEN UNION {Codes(Key(m, TRUE, "abort")): m \in t.call.modifiers} ELSE {}

\* A ghost: what an explicit down or up asked for, the modifiers around it left out.
Lasting(c) == c.tool \in {"mouse_button_control", "key_control"} /\ c.action # "press"

AskedBy(t, o, events) ==
  IF Lasting(t.call) /\ (o.op = "button" \/ o.onfail = "cleanup")
  THEN Applied(asked, events) ELSE asked

\* The script goes on after its first operation; a delayed text waits.
Proceed(n) ==
  LET t == turn[n]
      o == Head(t.ops)
      strayed == t.before # Unknown /\ focus # t.before
      typing == o.op = "text"
  IN /\ asked' = AskedBy(t, o, Events(o))
     /\ turn' = [turn EXCEPT ![n] = [t EXCEPT
          !.ops = Tail(t.ops),
          !.sent = @ + Len(Events(o)),
          !.typed = IF typing THEN @ + 1 ELSE @,
          !.astray = IF typing /\ strayed THEN @ + 1 ELSE @,
          !.pc = IF typing /\ t.call.delayed /\ Tail(t.ops) # <<>> THEN "gap" ELSE "run"]]

\* A move takes the pointer along, and so does a click before its button.
Lands(o) ==
  IF o.op \in {"move", "click"} THEN pointer' \in Targets(o.at) /\ wanted' = o.at
  ELSE UNCHANGED <<pointer, wanted>>

Succeeds(n) ==
  LET o == Head(turn[n].ops)
  IN /\ Resolves(o) /\ alive
     /\ down' = Applied(down, Events(o))
     /\ Lands(o)
     /\ Proceed(n)
     /\ UNCHANGED <<alive, tainted, faults>>

Fails(n, sent) ==
  LET t == turn[n]
      o == Head(t.ops)
  IN /\ tainted' = tainted \union Codes(o) \union Abandoned(t)
     /\ turn' = [turn EXCEPT ![n] = [t EXCEPT
          !.ops = AfterFailure(t.ops),
          !.sent = @ + sent,
          !.failed = IF @ = "no" /\ o.onfail # "ignore" THEN o.onfail ELSE @]]
     /\ UNCHANGED asked

\* A name or a character the provider has no code for: no event at all.
Unresolved(n) ==
  /\ ~Resolves(Head(turn[n].ops))
  /\ Fails(n, 0)
  /\ UNCHANGED <<alive, down, pointer, wanted, faults>>

\* The device fails between two events of a batch, of which the motion is the
\* first and may have got through.  A lost Wayland connection
\* takes the virtual devices, and what they hold, with it.
Breaks(n) ==
  /\ Resolves(Head(turn[n].ops)) /\ (faults < MaxFaults \/ ~alive)
  /\ faults' = IF alive THEN faults + 1 ELSE faults
  /\ \E k \in 0..Len(Events(Head(turn[n].ops))):
       /\ alive \/ (k = 0 /\ UNCHANGED <<pointer, wanted>>)
       /\ Fails(n, k)
       /\ Lands(Head(turn[n].ops)) \/ (k = 0 /\ UNCHANGED <<pointer, wanted>>)
       /\ IF backend = "wlr"
          THEN down' = {} /\ alive' = FALSE
          ELSE /\ down' = Applied(down, SubSeq(Events(Head(turn[n].ops)), 1, k))
               /\ UNCHANGED alive

\* The portal's first attempt fails half-way, the session is established
\* again and the whole operation repeated in it.
Repeats(n) ==
  /\ backend = "portal" /\ faults < MaxFaults
  /\ LET o == Head(turn[n].ops)
     IN /\ Resolves(o)
        /\ \E k \in 0..Len(Events(o)):
             down' = Applied(Applied(down, SubSeq(Events(o), 1, k)), Events(o))
        /\ Lands(o)
  /\ faults' = faults + 1
  /\ Proceed(n)
  /\ UNCHANGED <<alive, tainted>>

Operate(n) ==
  /\ turn[n].pc = "run" /\ turn[n].ops # <<>>
  /\ Succeeds(n) \/ Unresolved(n) \/ Breaks(n) \/ Repeats(n)
  /\ UNCHANGED <<screenVars, heldSet, focus, calls, moves>>

\* MUTANT of CheckDue: the focus is read after the first character only.
CheckDueOnce(t) ==
  IF t.before = Unknown THEN {FALSE}
  ELSE IF t.typed = 1 THEN {TRUE} ELSE BOOLEAN

\* Between two characters of a delayed text: the focus is read after the
\* first, after every CheckEvery-th, and whenever enough time has passed.
CheckDue(t) ==
  IF t.before = Unknown THEN {FALSE}
  ELSE IF t.typed = 1 \/ t.typed % CheckEvery = 0 THEN {TRUE} ELSE BOOLEAN
Gap(n) ==
  /\ turn[n].pc = "gap"
  /\ \E due \in CheckDue(turn[n]), seen \in Answers:
       LET t == turn[n]
           left == due /\ seen \notin {Unknown, t.before}
       IN turn' = [turn EXCEPT ![n] = [t EXCEPT
            !.pc = IF left THEN "done" ELSE "run",
            !.blind = @ \/ (due /\ seen = Unknown),
            !.astray = IF due /\ seen = t.before THEN 0 ELSE @,
            !.result = IF left THEN "focus_changed" ELSE @]]
  /\ UNCHANGED <<screenVars, deviceVars, heldSet, focus, asked, calls, moves>>

\* The end of a script: a button that was injected is tracked, the typing
\* tools look at the focus once more.
Finish(n) ==
  /\ turn[n].pc = "run" /\ turn[n].ops = <<>>
  /\ LET t == turn[n]
     IN /\ heldSet' = IF t.failed # "no" \/ t.call.tool # "mouse_button_control" THEN heldSet
                      ELSE IF t.call.action = "down" THEN heldSet \union {t.call.button}
                      ELSE heldSet \ {t.call.button}
        /\ \E seen \in (IF t.call.tool \in Safe /\ t.failed = "no" THEN Answers ELSE {Unknown}):
             turn' = [turn EXCEPT ![n] = [t EXCEPT
               !.pc = "done",
               !.result = IF t.failed # "no" THEN "error"
                          ELSE IF t.before # Unknown /\ seen \notin {Unknown, t.before}
                          THEN "focus_changed" ELSE "ok"]]
  /\ UNCHANGED <<screenVars, deviceVars, focus, asked, calls, moves>>

ChangeFocus(w) ==
  /\ moves < MaxFocus /\ w # focus
  /\ focus' = w
  /\ moves' = moves + 1
  /\ UNCHANGED <<screenVars, deviceVars, heldSet, turn, asked, calls>>

InputNext ==
  \/ \E n \in Callers: BeginTool(n) \/ Operate(n) \/ Gap(n) \/ Finish(n)
  \/ \E w \in Windows: ChangeFocus(w)

InputSpec == InputInit /\ [][InputNext]_inputVars
-----------------------------------------------------------------------------
(* Properties.                                                             *)

Quiet == \A n \in Callers: turn[n].pc \in {"idle", "done"}
Ended(n, tool) == turn[n].pc = "done" /\ turn[n].call.tool = tool

\* When every call has come back, nothing is down that no call asked to hold,
\* but for what an operation that failed touched: a drag whose moves fail
\* still releases its button, a chord whose key fails its modifiers.  (A
\* modifier that fails to go down leaves the ones before it held.)
NothingLeftDown == Quiet => down \subseteq asked \union tainted

\* Characters the provider looks up, one of which the layout has no key for.
NoKeyFor(text) == LooksUp("text") /\ \E i \in DOMAIN text: ~Bound(text[i])

\* Text goes where it was meant to go, whole: where a character is looked up that
\* has no key, which is everywhere but under X11, not one event of the text is
\* sent (unless it is typed one character at a time); and a delayed text sends at
\* most CheckEvery characters into another window than the one that had the focus
\* when it began, before a check ends it or finds that window focused again,
\* unless a check got no answer.
TypedWhereMeant ==
  \A n \in Callers:
    /\ (Ended(n, "type_text") /\ ~turn[n].call.delayed /\ NoKeyFor(turn[n].call.text))
         => turn[n].result = "error" /\ turn[n].sent = 0
    /\ turn[n].blind \/ turn[n].astray <= CheckEvery

\* Where a provider takes the desktop for what it is: its right edge is not one
\* of a scaled output, and an axis that starts at the origin is as long as the
\* desktop, which starts there too.  (With the portal it is the user who decides
\* which outputs there are.)
TrueExtent ==
  \/ backend = "x11"
  \/ backend = "wlr" /\ PixelRight = Right
  \/ backend = "uinput" /\ Left = 0 /\ extent = Right

\* There a move to a point of an output lands on that point, whatever the provider
\* does to fit it; and a virtual device never takes the pointer off the desktop.
PointerLands ==
  /\ (TrueExtent /\ Under(wanted) # {}) => pointer = wanted
  /\ backend \in {"wlr", "uinput"} => Left <= pointer /\ pointer <= Right

\* The point of the list of held buttons: a button it lists is down, so that
\* pressing it again may be answered without an event.
HeldIsDown == (Quiet /\ faults = 0) => heldSet \subseteq down

\* A key with modifiers can be pressed: when nothing fails, a call whose key
\* the layout has does not come back with an error.
ChordPressed ==
  \A n \in Callers: (Ended(n, "key_control") /\ turn[n].call.key \in DOMAIN Layout /\ faults = 0)
                      => turn[n].result # "error"
=============================================================================
