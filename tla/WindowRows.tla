----------------------------- MODULE WindowRows -----------------------------
(***************************************************************************)
(* How the window providers make rows of what the desktop tells them:      *)
(* hyprctl, sway, GNOME Shell's extension, kdotool, wayfire, and wmctrl    *)
(* with its helpers.  Some ask once; hyprctl, kdotool and X11 put a row    *)
(* together from several queries, between which windows close, are         *)
(* retitled and pass on the focus.                                         *)
(*                                                                         *)
(* What a compositor replies is external, and made here from the desktop;  *)
(* a reply is kept as far as the rows depend on it.                        *)
(***************************************************************************)
EXTENDS Integers, Sequences, FiniteSets, SequencesExt

CONSTANTS
  Tellers,            \* the providers
  About,              \* window -> [class, ws, output, pid, full, floating, ident, panel]
  Desks,              \* [order, active, last, title]: last had the focus last
  Captions,           \* title -> its lines: "text", or "window" for one that begins so
  None, MaxChanges, MaxFaults

VARIABLES teller, op, desk, past, step, queue, raw, focusedId, rows, changes, faults

rowVars == <<teller, op, desk, past, step, queue, raw, focusedId, rows, changes, faults>>

Init ==
  /\ teller \in Tellers /\ op \in {"list", "active"} /\ desk \in Desks
  /\ past = {} /\ step = "idle" /\ queue = <<>> /\ raw = <<>> /\ focusedId = None
  /\ rows = None /\ changes = 0 /\ faults = 0

-----------------------------------------------------------------------------
(* The desktop, which changes while a call is served.                      *)

Change(d) ==
  /\ step \notin {"idle", "done", "failed"}
  /\ changes < MaxChanges /\ changes' = changes + 1
  /\ desk' = d /\ past' = past \union {d}
  /\ UNCHANGED <<teller, op, step, queue, raw, focusedId, rows, faults>>
Open(d) == ToSet(d.order)
Proper(d) == SelectSeq(d.order, LAMBDA w: ~About[w].panel)
Refocused(d, w) == [d EXCEPT !.active = w, !.last = IF w = None THEN @ ELSE w]
Changes ==
  \/ \E w \in ToSet(Proper(desk)) \union {None}: w # desk.active /\ Change(Refocused(desk, w))
  \/ \E w \in Open(desk):
       LET order == SelectSeq(desk.order, LAMBDA v: v # w)
       IN Change([desk EXCEPT !.order = order,
                    !.active = IF w = @ THEN None ELSE @, !.last = IF w = @ THEN None ELSE @])
  \/ \E w \in Open(desk), t \in DOMAIN Captions:
       t # desk.title[w] /\ Change([desk EXCEPT !.title[w] = t])

-----------------------------------------------------------------------------
(* Rows.  What a provider is not told stays None, or blank.                *)

Blank == [id |-> None, title |-> "", class |-> "", ws |-> -1, focused |-> FALSE,
          floating |-> None, fullscreen |-> None, pid |-> None, monitor |-> None]
Known(pid) == IF pid > 0 THEN pid ELSE None

\* hyprctl: a client without an address is passed over; without the address of the
\* active window, the one that had the focus last counts as focused.
HyprClients(d) ==
  [i \in DOMAIN d.order |->
     LET w == d.order[i]  a == About[w] IN
     [address |-> IF a.panel THEN None ELSE w, title |-> d.title[w], class |-> a.class,
      workspace |-> a.ws, history |-> IF w = d.last THEN 0 ELSE i, full |-> a.full,
      floating |-> a.floating, pid |-> a.pid, monitor |-> a.output]]
HyprRow(c, active) ==
  [id |-> c.address, title |-> c.title, class |-> c.class, ws |-> c.workspace,
   focused |-> IF active # None THEN active = c.address ELSE c.history = 0,
   floating |-> c.floating, fullscreen |-> c.full # 0, pid |-> c.pid, monitor |-> c.monitor]
\* MUTANT of HyprRows: a client without an address is a row.
HyprRowsAll(clients, active) ==
  [i \in DOMAIN clients |-> HyprRow(clients[i], active)]
HyprRows(clients, active) ==
  LET real == SelectSeq(clients, LAMBDA c: c.address # None)
  IN [i \in DOMAIN real |-> HyprRow(real[i], active)]

\* sway: a tree of outputs, workspaces and containers, split ones and windows.
Node(type, nodes, floats) ==
  [type |-> type, num |-> None, name |-> "", nodes |-> nodes, floats |-> floats, id |-> None,
   app |-> None, x11 |-> None, pid |-> None, focused |-> FALSE, full |-> 0]
Leaf(d, w) ==
  LET a == About[w] IN
  [Node(IF a.floating THEN "floating_con" ELSE "con", <<>>, <<>>) EXCEPT
     !.id = w, !.name = d.title[w], !.pid = a.pid, !.focused = d.active = w, !.full = a.full,
     !.app = IF a.ident = "app" THEN a.class ELSE None,
     !.x11 = IF a.ident = "x11" THEN a.class ELSE None]
Workspace(d, output, ws) ==
  LET here == SelectSeq(Proper(d), LAMBDA w: About[w].output = output /\ About[w].ws = ws)
      tiled == SelectSeq(here, LAMBDA w: ~About[w].floating)
      floats == SelectSeq(here, LAMBDA w: About[w].floating)
      split == Node("con", [i \in DOMAIN tiled |-> Leaf(d, tiled[i])], <<>>)
  IN [Node("workspace", <<split>>, [i \in DOMAIN floats |-> Leaf(d, floats[i])])
        EXCEPT !.num = IF ws < 0 THEN None ELSE ws]
SwayTree(d) ==
  [i \in 1..2 |-> Node("output", <<Workspace(d, i - 1, 1), Workspace(d, i - 1, 2),
                                   Workspace(d, i - 1, -1)>>, <<>>)]

IsWindow(node) ==
  \/ node.app # None \/ node.x11 # None
  \/ node.pid # None /\ node.nodes = <<>> /\ node.floats = <<>>
SwayRow(node, ws, monitor) ==
  [id |-> node.id, title |-> node.name,
   class |-> IF node.app # None THEN node.app ELSE IF node.x11 # None THEN node.x11 ELSE "",
   ws |-> ws, focused |-> node.focused, floating |-> node.type = "floating_con",
   fullscreen |-> node.full # 0, pid |-> node.pid, monitor |-> monitor]
RECURSIVE SwayWalk(_, _, _)
SwayWalk(node, enclosing, monitor) ==
  LET ws == IF node.type # "workspace" THEN enclosing
            ELSE IF node.num = None THEN -1 ELSE node.num
      own == IF node.type \in {"con", "floating_con"} /\ IsWindow(node)
             THEN <<SwayRow(node, ws, monitor)>> ELSE <<>>
      kids == node.nodes \o node.floats
  IN own \o FlattenSeq([i \in DOMAIN kids |-> SwayWalk(kids[i], ws, monitor)])
SwayRows(outputs) ==
  FlattenSeq([i \in DOMAIN outputs |-> SwayWalk(outputs[i], -1, i - 1)])

\* GNOME Shell: an entry without an id is passed over.
Entries(d) ==
  [i \in DOMAIN d.order |->
     LET w == d.order[i]  a == About[w] IN
     [id |-> IF a.panel THEN None ELSE w, title |-> d.title[w],
      wmClass |-> IF a.ident = "bare" THEN None ELSE a.class, instance |-> a.class,
      workspace |-> a.ws, focus |-> d.active = w, pid |-> a.pid, monitor |-> a.output]]
GnomeRows(entries) ==
  LET real == SelectSeq(entries, LAMBDA e: e.id # None)
  IN [i \in DOMAIN real |->
        [Blank EXCEPT !.id = real[i].id, !.title = real[i].title,
           !.class = IF real[i].wmClass # None THEN real[i].wmClass ELSE real[i].instance,
           !.ws = real[i].workspace, !.focused = real[i].focus, !.pid = real[i].pid,
           !.monitor = real[i].monitor]]

\* wayfire: only toplevels; the workspace by its set's index, or else its place in
\* the grid.
Views(d) ==
  [i \in DOMAIN d.order |->
     LET w == d.order[i]  a == About[w] IN
     [id |-> w, role |-> IF a.panel THEN "desktop-environment" ELSE "toplevel",
      title |-> d.title[w], app |-> a.class, activated |-> d.active = w,
      wset |-> IF a.floating THEN a.ws ELSE None,
      grid |-> [x |-> a.ws % 2, y |-> a.ws \div 2, width |-> IF a.ws < 0 THEN 0 ELSE 2],
      full |-> a.full # 0, pid |-> a.pid, output |-> a.output]]
Index(view) ==
  IF view.wset # None THEN view.wset
  ELSE IF view.grid.width > 0 THEN view.grid.y * view.grid.width + view.grid.x ELSE -1
WayfireRow(view, focused) ==
  [Blank EXCEPT !.id = view.id, !.title = view.title, !.class = view.app, !.ws = Index(view),
     !.focused = focused, !.fullscreen = view.full, !.pid = Known(view.pid),
     !.monitor = IF view.output >= 0 THEN view.output ELSE None]
WayfireRows(views) ==
  LET tops == SelectSeq(views, LAMBDA v: v.role = "toplevel")
  IN [i \in DOMAIN tops |-> WayfireRow(tops[i], tops[i].activated)]

\* kdotool: a description is lines of text: the caption's, the class, then a line
\* that names the window, where it is, its process and its desktop.
Line(is, value) == [is |-> is, value |-> value]
Describing(d, w) ==
  LET a == About[w]
      caption == Captions[d.title[w]]
  IN IF w \notin Open(d) THEN <<>>
     ELSE [i \in DOMAIN caption |-> Line(caption[i], d.title[w])]
            \o <<Line("text", a.class), Line("window", w), Line("position", 0),
                 Line("geometry", 0), Line("number", a.pid), Line("number", a.ws)>>
\* None where the lines are not in their places.
Describe(lines) ==
  LET at == SelectInSeq(lines, LAMBDA l: l.is = "window") IN
  IF at = 0 \/ lines[at + 1].is # "position" \/ lines[at + 2].is # "geometry" THEN None
  ELSE [title |-> IF at > 2 THEN lines[1].value ELSE "",
        class |-> IF at > 1 THEN lines[at - 1].value ELSE "",
        pid |-> Known(lines[at + 3].value), ws |-> lines[at + 4].value]
KdeRow(w, d, focused) ==
  IF d = None THEN [Blank EXCEPT !.id = w, !.focused = focused]
  ELSE [Blank EXCEPT !.id = w, !.focused = focused, !.title = d.title,
                     !.class = d.class, !.pid = d.pid, !.ws = d.ws]

-----------------------------------------------------------------------------
(* A call.                                                                 *)

Moves(to) == step' = to /\ UNCHANGED <<teller, op, desk, changes>>
Done(answer) == Moves("done") /\ rows' = answer /\ UNCHANGED <<queue, raw, focusedId>>
Failed == Moves("failed") /\ UNCHANGED <<queue, raw, focusedId, rows>>
Faulty == faults < MaxFaults /\ faults' = faults + 1
First(all) == IF \E i \in DOMAIN all: all[i].focused
              THEN <<all[SelectInSeq(all, LAMBDA r: r.focused)]>> ELSE <<>>

Begin ==
  /\ step = "idle" /\ past' = {desk}
  /\ Moves(CASE teller \in {"sway", "gnome"} -> "whole"
             [] teller = "wayfire" -> IF op = "list" THEN "whole" ELSE "active"
             [] teller \in {"hyprctl", "kdotool", "x11"} ->
                  IF op = "list" THEN "list" ELSE "active")
  /\ UNCHANGED <<queue, raw, focusedId, rows, faults>>

\* The providers that are told everything at once.
WholeReply ==
  LET all == CASE teller = "sway" -> SwayRows(SwayTree(desk))
               [] teller = "gnome" -> GnomeRows(Entries(desk))
               [] teller = "wayfire" -> WayfireRows(Views(desk))
  IN
  /\ step = "whole" /\ UNCHANGED <<past, faults>>
  /\ Done(IF op = "list" THEN all ELSE First(all))

\* A query that fails, is not answered in time, or whose reply is not one: of the
\* list it fails the call.
QueryFails ==
  /\ step \in {"whole", "list"} /\ Faulty /\ Failed /\ UNCHANGED past

ListReply ==
  /\ step = "list" /\ UNCHANGED <<past, faults, focusedId, rows>>
  /\ Moves(CASE teller = "hyprctl" -> "focused" [] teller = "kdotool" -> "focused"
             [] teller = "x11" -> "classes")
  /\ CASE teller = "hyprctl" -> raw' = HyprClients(desk) /\ UNCHANGED queue
       [] teller = "kdotool" -> queue' = desk.order /\ UNCHANGED raw
       [] teller = "x11" ->
            /\ raw' = [i \in DOMAIN desk.order |->
                         LET w == desk.order[i] IN
                         [Blank EXCEPT !.id = w, !.ws = About[w].ws, !.title = desk.title[w]]]
            /\ UNCHANGED queue

\* Which window has the focus, as far as that can be found out.
FocusedReply ==
  /\ step = "focused" /\ UNCHANGED past
  /\ \E id \in {desk.active, None}:
       /\ IF id = desk.active THEN UNCHANGED faults ELSE Faulty
       /\ IF teller = "hyprctl"
          THEN Done(HyprRows(raw, id))
          ELSE focusedId' = id /\ Moves("describe") /\ UNCHANGED <<queue, raw, rows>>

\* kdotool: the windows of the list are described in any order; one that cannot be
\* keeps its place.
Described ==
  /\ step = "describe" /\ UNCHANGED past
  /\ \E i \in DOMAIN queue:
       /\ \A j \in DOMAIN raw: raw[j].at # i
       /\ \E d \in {Describe(Describing(desk, queue[i])), None}:
            /\ IF d = Describe(Describing(desk, queue[i])) THEN UNCHANGED faults ELSE Faulty
            /\ raw' = Append(raw, [at |-> i, d |-> d])
  /\ Moves("describe") /\ UNCHANGED <<queue, focusedId, rows>>
\* MUTANT of Zipped: the descriptions are taken in the order they came.
ZippedAsCame(i) == raw[i].d
\* The description of the i-th window of the list.
Zipped(i) == raw[SelectInSeq(raw, LAMBDA r: r.at = i)].d
AllDescribed ==
  /\ step = "describe" /\ Len(raw) = Len(queue) /\ UNCHANGED <<past, faults>>
  /\ Done([i \in DOMAIN queue |-> KdeRow(queue[i], Zipped(i), queue[i] = focusedId)])

\* X11: the helpers add to the rows, by the id; one that fails adds nothing.
Enriched(to, field, value) ==
  /\ Moves(to) /\ UNCHANGED <<past, queue, focusedId, rows>>
  /\ \/ Faulty /\ UNCHANGED raw
     \/ /\ UNCHANGED faults
        /\ raw' = [i \in DOMAIN raw |-> IF raw[i].id \notin Open(desk) THEN raw[i]
                                       ELSE [raw[i] EXCEPT ![field] = value[raw[i].id]]]
AddClasses ==
  step = "classes" /\ Enriched("pids", "class", [w \in DOMAIN About |-> About[w].class])
AddPids ==
  step = "pids" /\ Enriched("mark", "pid", [w \in DOMAIN About |-> Known(About[w].pid)])
\* The active window by xdotool, or else by xprop.
MarkFocused ==
  /\ step = "mark" /\ Moves("states") /\ UNCHANGED <<past, queue, focusedId, rows>>
  /\ \/ Faulty /\ UNCHANGED raw
     \/ /\ UNCHANGED faults
        /\ raw' = IF desk.active = None THEN raw
                  ELSE [i \in DOMAIN raw |-> [raw[i] EXCEPT !.focused = raw[i].id = desk.active]]
AddStates ==
  step = "states" /\ Enriched("listed", "fullscreen", [w \in DOMAIN About |-> About[w].full # 0])
Listed ==
  /\ step = "listed" /\ UNCHANGED <<past, faults>>
  /\ LET mine == SelectSeq(raw, LAMBDA r: r.id = focusedId)
     IN Done(IF op = "list" THEN raw
             ELSE IF mine # <<>> THEN <<[mine[1] EXCEPT !.focused = TRUE]>>
             ELSE <<[Blank EXCEPT !.id = focusedId, !.focused = TRUE]>>)

\* The active window alone.  wayfire takes the event after the last it skips for
\* the reply, which then names no window.
ActiveReply ==
  /\ step = "active" /\ UNCHANGED past
  /\ LET w == desk.active IN
     \/ /\ UNCHANGED faults
        /\ IF w = None THEN Done(<<>>)
           ELSE CASE teller = "hyprctl" ->
                       Done([i \in 1..1 |-> [HyprRow(HyprClients(desk)[SelectInSeq(desk.order,
                                LAMBDA v: v = w)], None) EXCEPT !.focused = TRUE]])
                  [] teller = "wayfire" ->
                       Done(<<WayfireRow(Views(desk)[SelectInSeq(desk.order,
                                LAMBDA v: v = w)], TRUE)>>)
                  [] teller = "kdotool" ->
                       /\ queue' = <<w>> /\ focusedId' = w /\ Moves("describe")
                       /\ UNCHANGED <<raw, rows>>
                  [] teller = "x11" ->
                       focusedId' = w /\ Moves("list") /\ UNCHANGED <<queue, raw, rows>>
     \/ Faulty /\ IF teller = "hyprctl" THEN Failed ELSE Done(<<>>)

Ask == Begin \/ WholeReply \/ QueryFails \/ FocusedReply \/ ActiveReply
Gather == Described \/ AllDescribed \/ AddClasses \/ AddPids \/ MarkFocused \/ AddStates
RowsNext == Changes \/ Ask \/ Gather \/ ListReply \/ Listed
Spec == Init /\ [][RowsNext]_rowVars
-----------------------------------------------------------------------------
(* Properties.                                                             *)

Row(i) == rows[i]
Whole(w) == \A d \in past: w \in Open(d)
\* What a provider lists: kdotool and X11 know no panels from windows.
Lists(w) == teller \in {"kdotool", "x11"} \/ ~About[w].panel

\* A row tells only of its own window, and what it tells held at some time during
\* the call, or is left blank.
Honest(r) ==
  LET a == About[r.id] IN
  /\ \E d \in past: r.id \in Open(d)
  /\ r.title = "" \/ \E d \in past: r.title = d.title[r.id]
  /\ r.class \in {a.class, ""} /\ r.ws \in {a.ws, -1} /\ r.pid \in {a.pid, None}
  /\ r.floating \in {a.floating, None} /\ r.fullscreen \in {a.full # 0, None}
  /\ r.monitor \in {a.output, None}
  /\ r.focused => \E d \in past: r.id \in {d.active, IF teller = "hyprctl" THEN d.last ELSE d.active}

\* Nothing is blank in a row that was put together while nothing changed or failed,
\* of what its provider is told, whatever the title.
Full(r) ==
  LET a == About[r.id]
      plain == teller # "kdotool" \/ \A i \in DOMAIN Captions[desk.title[r.id]]:
                                       Captions[desk.title[r.id]][i] # "window"
  IN plain =>
       /\ r.title = desk.title[r.id] /\ r.ws = a.ws
       /\ (teller = "sway" /\ a.ident = "bare") \/ r.class = a.class
       /\ r.pid = Known(a.pid)
       /\ (desk.active # None \/ teller # "hyprctl") => (r.focused <=> desk.active = r.id)

\* The rows are windows' own, each once, with one focused at most; none that was
\* open all the while is missing; and the active window is one that was.
RowsTrue ==
  step = "done" =>
    /\ \A i \in DOMAIN rows: Honest(Row(i))
    /\ \A i, j \in DOMAIN rows: i # j => /\ Row(i).id # Row(j).id
                                         /\ ~(Row(i).focused /\ Row(j).focused)
    /\ op = "list" => \A w \in {w \in DOMAIN About: Lists(w)}:
         Whole(w) => \E i \in DOMAIN rows: Row(i).id = w
    /\ op = "active" => /\ \A i \in DOMAIN rows: Row(i).focused
                        /\ (rows = <<>> /\ faults = 0) => \E d \in past: d.active = None
    /\ (past = {desk} /\ faults = 0) => \A i \in DOMAIN rows: Full(Row(i))
=============================================================================
