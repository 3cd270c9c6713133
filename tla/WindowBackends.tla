--------------------------- MODULE WindowBackends ---------------------------
(***************************************************************************)
(* window_control, get_windows and get_active_window over the eight window *)
(* providers.  A call reads the windows in the provider's own sequence of  *)
(* queries, resolves its selector among the rows, and dispatches the       *)
(* action by id; between any two of these the desktop goes on changing,    *)
(* by the user's hand or another client's call.                            *)
(*                                                                         *)
(* Geometry has one position and two extents.  A title stands for the text *)
(* a selector matches in title and class.                                  *)
(***************************************************************************)
EXTENDS Integers, Sequences, FiniteSets, SequencesExt, Functions

CONSTANTS
  Backends,      \* the providers explored
  Wins,          \* windows the desktop may show
  Titles,
  Ident,         \* [Wins -> the number ext-foreign-toplevel-list gives it]
  NoWindow,      \* no window
  WindowCalls,   \* [action, by, ref, form, at]: the calls explored
  MaxChanges, MaxCalls, MaxFails  \* bounds: changes from outside, calls, failed queries

\* There are eight providers; a geometry is left out, absolute or relative.
WindowConstants ==
  /\ Backends \subseteq {"hyprctl", "sway", "gnome", "kdotool", "wayfire", "x11",
                         "river", "wlr"}
  /\ IsFiniteSet(Wins) /\ NoWindow \notin Wins
  /\ Ident \in [Wins -> Int]
  /\ \A q \in WindowCalls:
       /\ q.action \in {"list", "focus", "close", "minimize", "move", "resize"}
       /\ q.form \in {"none", "absolute", "relative"} /\ q.at \in Int
ASSUME WindowAssumption == WindowConstants

VARIABLES
  provider,  \* the provider chosen, for river whether it found the toplevel
  toplevel,  \*   protocol, and whether windows have identifiers
  named,
  tiled,     \* the windows that sway or river lays out itself
  order,     \* the open windows, in the compositor's order
  title, rect, hidden,  \* [Wins -> ...]
  active,    \* the focused window
  ask,       \* the call in flight
  rows,      \* what it has read so far
  geometry,  \* wayfire: the rectangle read before configure-view
  handle,    \* the toplevel a request is for, as it was when it was found
  hits,      \* ghost: what the call has done to windows
  changes, begun, failures

windowVars == <<provider, toplevel, named, tiled, order, title, rect, hidden, active, ask,
                rows, geometry, handle, hits, changes, begun, failures>>
desktopVars == <<order, title, rect, hidden, active>>
chosenVars == <<provider, toplevel, named, tiled>>

Open == Range(order)
Unset == [x |-> 0, w |-> 0, h |-> 0]
NoTarget == [id |-> NoWindow, win |-> NoWindow, title |-> NoWindow, focused |-> FALSE]
NoAsk == [pc |-> "idle", req |-> NoWindow, target |-> NoTarget, plan |-> <<>>, result |-> "none"]

WindowInit ==
  /\ provider \in Backends
  /\ toplevel \in (IF provider = "river" THEN BOOLEAN ELSE {provider = "wlr"})
  /\ named \in (IF toplevel THEN BOOLEAN ELSE {FALSE})
  /\ tiled \in SUBSET (IF provider \in {"sway", "river"} THEN Wins ELSE {})
  /\ order = SetToSeq(Wins)
  /\ title \in [Wins -> Titles]
  /\ rect = [w \in Wins |-> [x |-> 0, w |-> 2, h |-> 2]]
  /\ hidden = [w \in Wins |-> FALSE]
  /\ active \in Wins
  /\ ask = NoAsk /\ rows = <<>> /\ geometry = Unset /\ handle = NoTarget /\ hits = <<>>
  /\ changes = 0 /\ begun = 0 /\ failures = 0

-----------------------------------------------------------------------------
(* What the desktop can do to windows; also what another call can do.      *)

\* The handle of a toplevel that closes is inert: it has no id any more.
Inert(h) == [h EXCEPT !.id = NoWindow]

Change(happens) ==
  /\ changes < MaxChanges
  /\ changes' = changes + 1
  /\ happens
  /\ handle' = IF handle.win \in Range(order') THEN handle ELSE Inert(handle)
  /\ UNCHANGED <<chosenVars, ask, rows, geometry, hits, begun, failures>>

IndexIn(w) == CHOOSE i \in DOMAIN order: order[i] = w
Closed(w) ==
  /\ order' = RemoveAt(order, IndexIn(w))
  /\ active' = IF active = w THEN NoWindow ELSE active

WindowCloses(w) ==
  w \in Open /\ Change(Closed(w) /\ UNCHANGED <<title, rect, hidden>>)
WindowOpens(w, t) ==
  w \notin Open /\ Change(/\ order' = Append(order, w)
                          /\ title' = [title EXCEPT ![w] = t]
                          /\ active' = w
                          /\ UNCHANGED <<rect, hidden>>)
Reorders ==
  Len(order) > 1 /\ Change(order' = Tail(order) \o <<Head(order)>>
                           /\ UNCHANGED <<title, rect, hidden, active>>)
FocusMoves(w) ==
  w \in Open \ {active} /\ Change(active' = w /\ UNCHANGED <<order, title, rect, hidden>>)
UserResizes(w) ==
  w \in Open /\ Change(rect' = [rect EXCEPT ![w].w = @ + 1, ![w].h = @ + 1]
                       /\ UNCHANGED <<order, title, hidden, active>>)

-----------------------------------------------------------------------------
(* Rows and ids.                                                           *)

\* correlate: both lists come in the compositor's order, so that an identifier
\* is paired with its own window; without the ext list an id is a place.
ToplevelId(w) == IF named THEN Ident[w] ELSE IndexIn(w) - 1

Row(id, w) == [id |-> id, win |-> w, title |-> title[w], focused |-> active = w]
Listing ==
  [i \in DOMAIN order |-> Row(IF toplevel THEN ToplevelId(order[i]) ELSE order[i], order[i])]

FocusedView == provider \in {"river", "wlr"}

\* The providers that take several queries for one listing: what comes after
\* the first, in order.
Queries ==
  CASE provider = "hyprctl" -> <<"active">>
    [] provider = "kdotool" -> <<"active", "describe">>
    [] provider = "x11" -> <<"active">>
    [] provider \notin {"hyprctl", "kdotool", "x11"} -> <<>>

-----------------------------------------------------------------------------
(* A call.                                                                 *)

Became(pc, result) == ask' = [ask EXCEPT !.pc = pc, !.result = result]
Reply(result) == Became("done", result)

\* The rules on parameters.
WellFormed(q) ==
  CASE q.action = "move" -> q.form # "none"
    [] q.action = "resize" -> q.form = "relative" \/ (q.form = "absolute" /\ q.at >= 1)
    [] q.action \notin {"move", "resize"} -> q.form # "relative"
Accepted(q) == WellFormed(q) /\ (q.form = "relative" => FocusedView)

\* On a backend with a focused view, the view is not looked up.
Direct(q) == q.action # "list" /\ FocusedView /\ q.by \in {"omitted", "focused"}

BeginCall ==
  /\ ask.pc \in {"idle", "done"} /\ begun < MaxCalls
  /\ begun' = begun + 1
  /\ rows' = <<>> /\ geometry' = Unset /\ handle' = NoTarget /\ hits' = <<>>
  /\ \E q \in WindowCalls: ask' = [NoAsk EXCEPT
       !.req = q,
       !.pc = IF ~Accepted(q) THEN "done" ELSE IF Direct(q) THEN "dispatch" ELSE "query",
       !.result = IF Accepted(q) THEN "none" ELSE "invalid"]
  /\ UNCHANGED <<chosenVars, desktopVars, changes, failures>>

CallUnchanged == UNCHANGED <<chosenVars, desktopVars, geometry, handle, hits, changes, begun>>

\* The first query of a listing.  river without the protocol has none.
QueryWindows ==
  /\ ask.pc = "query"
  /\ IF provider = "river" /\ ~toplevel THEN Reply("error") /\ UNCHANGED rows
     ELSE /\ rows' = Listing
          /\ ask' = [ask EXCEPT !.pc = IF Queries = <<>> THEN "resolve" ELSE "more",
                                !.plan = Queries]
  /\ UNCHANGED failures
  /\ CallUnchanged

\* The later ones: which row has the focus, and what each id looks like now; a
\* window that has gone keeps its row with less in it.
QueryMore ==
  /\ ask.pc = "more"
  /\ rows' = [i \in DOMAIN rows |->
       IF Head(ask.plan) = "active"
       THEN [rows[i] EXCEPT !.focused = (active = rows[i].win)]
       ELSE [rows[i] EXCEPT !.title = IF rows[i].win \in Open THEN title[rows[i].win] ELSE NoWindow]]
  /\ ask' = [ask EXCEPT !.plan = Tail(@), !.pc = IF Tail(ask.plan) = <<>> THEN "resolve" ELSE "more"]
  /\ UNCHANGED failures
  /\ CallUnchanged

\* A query that fails: the listing fails with it, but for the ones that only
\* fill in the rows.
QueryFails ==
  /\ ask.pc \in {"query", "more"} /\ failures < MaxFails
  /\ failures' = failures + 1
  /\ IF ask.pc = "query" THEN Reply("error") /\ UNCHANGED rows
     ELSE /\ rows' = [i \in DOMAIN rows |-> IF Head(ask.plan) = "describe"
                        THEN [rows[i] EXCEPT !.title = NoWindow]
                        ELSE [rows[i] EXCEPT !.focused = IF provider = "hyprctl" THEN @ ELSE FALSE]]
          /\ ask' = [ask EXCEPT !.plan = Tail(@),
                                !.pc = IF Tail(ask.plan) = <<>> THEN "resolve" ELSE "more"]
  /\ CallUnchanged

Found(q) ==
  {i \in DOMAIN rows: CASE q.by = "omitted" -> rows[i].focused
                       [] q.by = "id" -> rows[i].id = q.ref
                       [] q.by \in {"title", "focused"} -> rows[i].title = q.ref}

\* The window meant, if one is: an exact id, or the one title that matches.
ResolveWindow ==
  /\ ask.pc = "resolve"
  /\ LET q == ask.req
         found == Found(q)
     IN IF q.action = "list" THEN Reply("ok")
        ELSE IF found = {} THEN Reply("no match")
        ELSE IF q.by = "title" /\ Cardinality(found) > 1 THEN Reply("ambiguous")
        ELSE \E i \in found:
               /\ \A j \in found: i <= j
               /\ ask' = [ask EXCEPT !.pc = "dispatch", !.target = rows[i], !.plan = <<>>]
  /\ UNCHANGED <<rows, failures>>
  /\ CallUnchanged

-----------------------------------------------------------------------------
(* Dispatch.                                                               *)

\* What an action does to a window, as a step of its own; seen is its row when it
\* was chosen.
Effect(seen, action, form, key, at) ==
  LET w == seen.win
  IN /\ rect' =
          CASE action = "move" /\ form = "absolute" -> [rect EXCEPT ![w].x = at]
            [] action = "move" /\ form = "relative" -> [rect EXCEPT ![w].x = @ + at]
            [] action = "resize" /\ form = "absolute" -> [rect EXCEPT ![w].w = at, ![w].h = at]
            [] action = "resize" /\ form = "relative" -> [rect EXCEPT ![w][key] = @ + at]
            [] action = "configure" -> [rect EXCEPT ![w] = at]
            [] action \notin {"move", "resize", "configure"} \/ form = "kept" -> rect
     /\ hidden' = IF action = "minimize" THEN [hidden EXCEPT ![w] = TRUE] ELSE hidden
     /\ IF action = "close" THEN Closed(w)
        ELSE active' = (IF action = "focus" THEN w ELSE active) /\ UNCHANGED order
     /\ hits' = Append(hits, [win |-> w, title |-> seen.title, focus |-> seen.focused,
                              action |-> ask.req.action, before |-> rect[w], after |-> rect'[w]])
     /\ UNCHANGED title

NoEffect == UNCHANGED <<desktopVars, hits>>

\* An answer that does not come, or a process that fails: the rest is not tried.
Lost == failures < MaxFails /\ failures' = failures + 1 /\ Reply("error")
AnswerFor(onward) == (onward /\ UNCHANGED failures) \/ Lost

ByHandle == provider = "wlr" \/ (provider = "river" /\ toplevel)
Geometric(q) == q.action \in {"move", "resize"}
ByRiverctl(q) == provider = "river" /\ (Geometric(q) \/ (q.action = "close" /\ Direct(q)))

\* wmctrl takes -1 for "leave it as it is": a move to that coordinate is not one.
\* Nor is one of a tiled window, which sway and river ignore without a word.
Given(w, q) ==
  IF (provider = "x11" /\ q.action = "move" /\ q.at = -1) \/ (Geometric(q) /\ w \in tiled)
  THEN "kept" ELSE q.form

\* The six providers whose ids belong to a window.  hyprctl, kdotool and wmctrl
\* may report success for a window that has gone.
ById ==
  LET q == ask.req
      w == ask.target.id
  IN /\ provider \notin {"river", "wlr"}
     /\ provider = "wayfire" => ~Geometric(q)
     /\ IF w \in Open THEN Effect(Row(w, w), q.action, Given(w, q), "w", q.at) /\ AnswerFor(Reply("ok"))
        ELSE /\ NoEffect /\ UNCHANGED failures
             /\ \E r \in (IF provider \in {"hyprctl", "kdotool", "x11"} THEN {"ok", "error"}
                          ELSE {"error"}): Reply(r)

\* wayfire sets the whole rectangle: it reads the live one first.
ReadGeometry ==
  LET w == ask.target.id
  IN /\ provider = "wayfire" /\ Geometric(ask.req) /\ ask.plan = <<>>
     /\ IF w \in Open
        THEN geometry' = rect[w] /\ ask' = [ask EXCEPT !.plan = <<"configure">>]
        ELSE Reply("error") /\ UNCHANGED geometry
     /\ NoEffect
Configured(q) ==
  IF q.action = "move" THEN [geometry EXCEPT !.x = q.at]
  ELSE [geometry EXCEPT !.w = q.at, !.h = q.at]
Configure ==
  LET w == ask.target.id
  IN /\ provider = "wayfire" /\ ask.plan = <<"configure">>
     /\ IF w \in Open
        THEN /\ Effect(Row(w, w), "configure", "absolute", "w", Configured(ask.req))
             /\ AnswerFor(Reply("ok"))
        ELSE NoEffect /\ Reply("error") /\ UNCHANGED failures

\* riverctl: geometry of whatever has the focus when it runs, one process for
\* each axis; and the close of the focused view.  With no view focused there is
\* nothing to act on, and it may or may not say so.
Riverctl ==
  LET q == ask.req
      axis == IF ask.plan = <<>> THEN "w" ELSE Head(ask.plan)
  IN /\ ByRiverctl(q)
     /\ IF Geometric(q) /\ (~Direct(q) \/ q.form = "absolute" \/ q.at = 0)
        THEN NoEffect /\ Reply("error") /\ UNCHANGED failures
        ELSE /\ IF active = NoWindow THEN NoEffect
                ELSE Effect(Row(active, active), q.action, Given(active, q), axis, q.at)
             /\ AnswerFor(\/ active = NoWindow /\ Reply("error")
                     \/ IF q.action = "resize" /\ axis = "w"
                        THEN ask' = [ask EXCEPT !.plan = <<"h">>]
                        ELSE Reply("ok"))

\* wlr-foreign-toplevel: a new enumeration, in which the id names a window by
\* its identifier or else by its place; its title must be the resolved one.
Handles ==
  LET s == ask.target.id
      owner == {w \in Open: named /\ Ident[w] = s}
  IN IF Direct(ask.req) THEN Open \intersect {active}
     ELSE IF owner # {} THEN owner
     ELSE IF s + 1 \in DOMAIN order THEN {order[s + 1]} ELSE {}
\* MUTANT of Verified: the title of the handle is not compared.
VerifiedNever(w) == TRUE
Verified(w) == Direct(ask.req) \/ title[w] = ask.target.title

FindHandle ==
  /\ ByHandle /\ ~ByRiverctl(ask.req) /\ ask.plan = <<>>
  /\ LET found == {w \in Handles: Verified(w)}
     IN IF found = {} \/ Geometric(ask.req) THEN Reply("error") /\ UNCHANGED handle
        ELSE \E w \in found: /\ handle' = Row(ToplevelId(w), w)
                             /\ ask' = [ask EXCEPT !.plan = <<"request">>]
  /\ NoEffect

\* The request follows without another look; an inert handle ignores it.
SendRequest ==
  /\ ask.plan = <<"request">>
  /\ IF handle.id = NoWindow THEN NoEffect
     ELSE Effect(handle, ask.req.action, ask.req.form, "w", ask.req.at)
  /\ AnswerFor(Reply("ok"))

\* river without the protocol knows no other verb.
NoVerb ==
  /\ provider = "river" /\ ~toplevel
  /\ ~Geometric(ask.req) /\ ask.req.action # "close"
  /\ NoEffect /\ Reply("error")

DispatchFails == NoEffect /\ Lost

Dispatch ==
  /\ ask.pc = "dispatch"
  /\ \/ /\ ById \/ Configure \/ Riverctl \/ SendRequest \/ DispatchFails
        /\ UNCHANGED <<geometry, handle>>
     \/ NoVerb /\ UNCHANGED <<geometry, handle, failures>>
     \/ ReadGeometry /\ UNCHANGED <<handle, failures>>
     \/ FindHandle /\ UNCHANGED <<geometry, failures>>
  /\ UNCHANGED <<chosenVars, rows, changes, begun>>

WindowNext ==
  \/ BeginCall
  \/ QueryWindows \/ QueryMore \/ QueryFails \/ ResolveWindow \/ Dispatch
  \/ \E w \in Wins: WindowCloses(w) \/ FocusMoves(w) \/ UserResizes(w)
  \/ \E w \in Wins, t \in Titles: WindowOpens(w, t)
  \/ Reorders

WindowSpec == WindowInit /\ [][WindowNext]_windowVars
-----------------------------------------------------------------------------
(* Properties.                                                             *)

Meant(hit) == hit.win = ask.target.win

\* Whatever opens, closes and moves under a call: it touches the window it
\* resolved its selector to, or (a toplevel id that has become a place) one with
\* the title it resolved; the focused view, when that is what was asked for, as
\* the dispatch found it.  And it never touches two.
ActsOnTarget ==
  /\ \A i \in DOMAIN hits:
       IF Direct(ask.req) THEN hits[i].focus
       ELSE Meant(hits[i]) \/ (ByHandle /\ hits[i].title = ask.target.title)
  /\ Len(hits) > 1 => Direct(ask.req)

\* The providers and tools whose success is not the compositor's, and a handle
\* that went inert before its request came.
Unsure == \/ provider \in {"hyprctl", "kdotool", "x11"} \/ ByRiverctl(ask.req)
          \/ handle.win \in Wins /\ handle.id = NoWindow

\* window_control is exact: it acts on its target; its success means that the
\* target was asked, unless its tool cannot tell or a toplevel closed just then;
\* an error after an effect means that an answer was lost, or one axis of two
\* left out; a move goes where it was sent, or as far as it was sent (a tiled
\* window stays, and x11 cannot be sent to -1), and keeps the size; and a resize
\* keeps the place, but for wayfire, which writes back a rectangle it read a
\* moment before.
ControlExact ==
  /\ ActsOnTarget
  /\ ask.pc = "done" =>
       /\ (ask.result = "ok" /\ ask.req.action # "list") => (hits # <<>> \/ Unsure)
       /\ (ask.result # "ok" /\ hits # <<>>) =>
            (failures > 0 \/ (ask.req.action = "resize" /\ provider = "river"))
  /\ \A i \in DOMAIN hits: (hits[i].action = "move" /\ hits[i].win \notin tiled) =>
       /\ ask.req.form = "absolute" =>
            (hits[i].after.x = ask.req.at \/ (provider = "x11" /\ ask.req.at = -1))
       /\ ask.req.form = "relative" => hits[i].after.x = hits[i].before.x + ask.req.at
  /\ \A i \in DOMAIN hits: provider # "wayfire" =>
       /\ hits[i].action = "move" => hits[i].after = [hits[i].before EXCEPT !.x = hits[i].after.x]
       /\ hits[i].action = "resize" => hits[i].after.x = hits[i].before.x

\* tools/admin.rs, of ids of toplevels: "a reordered list can never retarget the
\* op onto a different window".
NeverRetargeted == \A i \in DOMAIN hits: Direct(ask.req) \/ Meant(hits[i])
=============================================================================
