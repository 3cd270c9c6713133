----------------------------- MODULE AccessTree -----------------------------
(***************************************************************************)
(* The accessibility tree (providers/atspi.rs) and the tools that read it  *)
(* and act through it (tools/vision.rs): searches share one scan of the    *)
(* tree for as long as it is fresh, scans run application by application   *)
(* while the desktop changes, and an invocation looks its element up twice *)
(* before it acts on it.                                                   *)
(*                                                                         *)
(* A substring match is equality of labels here; a description matches as  *)
(* a name does and is left out; one application is scanned in one step.    *)
(***************************************************************************)
EXTENDS Integers, Sequences, FiniteSets, SequencesExt

CONSTANTS
  Callers, Asks,      \* who asks, and what: [op, query, action, limit, timeout]
  Desktops, Restless, \* desktops to start with, and the elements that change
  Root, None,
  MaxNodes,           \* nodes a scan or a tree may visit
  Ttl, Poll,          \* how long a scan is fresh; how often a wait looks
  MaxClock, MaxChanges, MaxFaults   \* bounds

VARIABLES
  desk,     \* [kids, name, role, area, actions, active, focused]
  changes,  \* changes of the desktop so far
  clock,
  cache,    \* the last scan stored, with the time of storing it
  caller,   \* [caller -> its call]
  invoked,  \* actions done: [element, verb, asked]
  faults

treeVars == <<desk, changes, clock, cache, caller, invoked, faults>>

NoScan == [rows |-> <<>>, began |-> 0, partial |-> FALSE]
NoAnswer == [how |-> "none", found |-> FALSE, rows |-> <<>>, began |-> 0, whole |-> FALSE,
             age |-> 0]
NoCall == [pc |-> "idle", ask |-> None, second |-> FALSE, start |-> 0, wake |-> 0,
           at |-> None, path |-> <<>>, apps |-> <<>>, scan |-> NoScan,
           rect |-> None, verbs |-> <<>>, answer |-> NoAnswer]

Init ==
  /\ desk \in Desktops /\ changes = 0 /\ clock = 0 /\ faults = 0
  /\ cache = None /\ invoked = {}
  /\ caller = [c \in Callers |-> NoCall]

-----------------------------------------------------------------------------
(* The tree.                                                               *)

RECURSIVE Preorder(_, _)
\* The elements below and with e, a parent before its children.
Preorder(d, e) == <<e>> \o FlattenSeq([i \in DOMAIN d.kids[e] |-> Preorder(d, d.kids[e][i])])

Living(d) == ToSet(Preorder(d, Root))
Without(d, e) ==
  [d EXCEPT !.kids = [p \in DOMAIN @ |-> SelectSeq(@[p], LAMBDA k: k # e)]]

\* The tree below top as one query that fails leaves it: a node that does not tell
\* its children seems to have none, one that cannot be reached is passed over.
Lossy(d, top) ==
  LET nodes == ToSet(Preorder(d, top))
  IN {[d EXCEPT !.kids[e] = <<>>] : e \in nodes} \union {Without(d, e) : e \in nodes}

\* The application with the active window changes places with the first.
Ordered(d) ==
  LET apps == d.kids[Root]
  IN [i \in DOMAIN apps |->
        IF d.active \notin ToSet(apps) THEN apps[i]
        ELSE LET k == CHOOSE k \in DOMAIN apps: apps[k] = d.active
             IN IF i = 1 THEN apps[k] ELSE IF i = k THEN apps[1] ELSE apps[i]]

Up(n, s) == SubSeq(s, 1, IF n < Len(s) THEN n ELSE Len(s))

\* What a scan keeps of an element.
Row(d, e) == [element |-> e, name |-> d.name[e], role |-> d.role[e], area |-> d.area[e],
              focused |-> d.focused = e]
Harvest(d, app, n) == LET taken == Up(n, Preorder(d, app))
                      IN [i \in DOMAIN taken |-> Row(d, taken[i])]

Matches(q, row) ==
  CASE q.kind = "any" -> q.value \in {row.name, row.role}
    [] q.kind = "role" -> row.role = q.value
    [] q.kind = "name" -> row.name = q.value
    [] q.kind = "object" -> row.element = q.value
Hits(q, rows) == SelectSeq(rows, LAMBDA row: Matches(q, row))

-----------------------------------------------------------------------------
(* get_ui_tree: the tree to a depth, under the node budget.                *)

RECURSIVE Build(_, _, _, _), BuildKids(_, _, _, _)
\* [rows: what was built, in preorder, each with whether it is cut; cut: a node
\* was left out], from the budget's state.
BuildKids(d, kids, depth, sofar) ==
  IF kids = <<>> THEN sofar
  ELSE IF Len(sofar.rows) >= MaxNodes THEN [sofar EXCEPT !.cut = TRUE]
  ELSE BuildKids(d, Tail(kids), depth, Build(d, Head(kids), depth, sofar))
Build(d, e, depth, sofar) ==
  LET here == Len(sofar.rows) + 1
      with == [sofar EXCEPT !.rows = Append(@, [element |-> e, cut |-> FALSE])]
      below == IF depth = 0 THEN with ELSE BuildKids(d, d.kids[e], depth - 1, with)
  IN [below EXCEPT !.rows[here].cut = below.cut]
Tree(d, depth) == Build(d, Root, depth, [rows |-> <<>>, cut |-> FALSE]).rows

-----------------------------------------------------------------------------
(* The desktop changes.                                                    *)

ChangeTo(d) ==
  /\ changes < MaxChanges /\ changes' = changes + 1
  /\ desk' = d
  /\ UNCHANGED <<clock, cache, caller, invoked, faults>>

Rename(e, name) == name # desk.name[e] /\ ChangeTo([desk EXCEPT !.name[e] = name])
MoveElement(e) == ChangeTo([desk EXCEPT !.area[e] = 1 - @])
Vanish(e) ==
  e \in Living(desk)
    /\ ChangeTo(Without(desk, e))
Relist(e) == ChangeTo([desk EXCEPT !.actions[e] = Reverse(@)])
Activate(app) == app # desk.active /\ ChangeTo([desk EXCEPT !.active = app])
MoveFocus(e) == e # desk.focused /\ ChangeTo([desk EXCEPT !.focused = e])

Changed(d, labels) ==
  \/ \E e \in Restless: \/ \E name \in labels: Rename(e, name)
                        \/ MoveElement(e) \/ Vanish(e) \/ Relist(e)
  \/ \E app \in ToSet(d.kids[Root]): Activate(app)
  \/ \E e \in Restless \union {None}: MoveFocus(e)

Tick ==
  /\ clock < MaxClock /\ clock' = clock + 1
  /\ UNCHANGED <<desk, changes, cache, caller, invoked, faults>>

-----------------------------------------------------------------------------
(* A call.                                                                 *)

Goto(c, to) == caller' = [caller EXCEPT ![c] = to]
Answered(c, answer) ==
  Goto(c, [NoCall EXCEPT !.pc = "done", !.ask = caller[c].ask, !.answer = answer])
\* With an answer goes what the desktop was when its scan began, and whether the
\* scan reached everything.
Result(how, found, rows, scan, age) ==
  [how |-> how, found |-> found, rows |-> rows, began |-> scan.began, age |-> age,
   whole |-> ~scan.partial /\ Len(scan.rows) < MaxNodes]
Plain(how) == [NoAnswer EXCEPT !.how = how]

Begin(c) ==
  /\ caller[c].pc = "idle"
  /\ \E ask \in Asks[c]:
       Goto(c, [NoCall EXCEPT !.ask = ask, !.start = clock,
                  !.pc = CASE ask.op = "tree" -> "tree" [] ask.op = "focused" -> "apps"
                           [] ask.op \notin {"tree", "focused"} -> "look"])
  /\ UNCHANGED <<desk, changes, clock, cache, invoked, faults>>

\* What a walk of the tree below top gets to see.  No error comes of a failure
\* below the root, and no mark.
Sees(top, d) ==
  \/ d = desk /\ UNCHANGED faults
  \/ d # desk /\ d \in Lossy(desk, top) /\ faults < MaxFaults /\ faults' = faults + 1
Sights(top) == {desk} \union Lossy(desk, top)

GetTree(c) ==
  LET me == caller[c] IN
  /\ me.pc = "tree"
  /\ \E d \in Sights(Root):
       /\ Sees(Root, d)
       /\ Answered(c, Result("ok", TRUE, Tree(d, me.ask.limit),
                             [NoScan EXCEPT !.began = changes, !.partial = d # desk], 0))
  /\ UNCHANGED <<desk, changes, clock, cache, invoked>>

\* What a search does with the rows of a scan: report the first matches, wait on,
\* or turn to the first one.
Report(c, me, hits, scan, age) ==
     CASE me.ask.op = "find" ->
            Answered(c, Result("ok", hits # <<>>, Up(me.ask.limit, hits), scan, age))
       [] me.ask.op = "wait" ->
            IF hits # <<>> \/ clock - me.start >= me.ask.timeout
            THEN Answered(c, Result("ok", hits # <<>>, Up(1, hits), scan, age))
            ELSE LET left == me.start + me.ask.timeout
                 IN Goto(c, [me EXCEPT !.pc = "sleep",
                               !.wake = IF clock + Poll < left THEN clock + Poll ELSE left])
       [] me.ask.op = "invoke" ->
            IF hits # <<>>
            THEN Goto(c, [me EXCEPT !.pc = IF me.second THEN "verbs" ELSE "extents",
                                    !.at = hits[1], !.scan = scan])
            ELSE Answered(c, Result(IF me.second THEN "not supported" ELSE "not found",
                                    FALSE, <<>>, scan, age))

OnScan(c, me, scan, age) == Report(c, me, Hits(me.ask.query, scan.rows), scan, age)

\* MUTANT of Usable: a scan is used however old it is.
UsableAlways(stored) == stored # None
Usable(stored) == stored # None /\ clock - stored.at < Ttl

\* A path of indices is walked from the root; any other query is answered from
\* the stored scan, or from a new one.
Look(c) ==
  LET me == caller[c] IN
  /\ me.pc = "look"
  /\ IF me.ask.query.kind = "index"
     THEN Goto(c, [me EXCEPT !.pc = "walk", !.at = Root, !.path = me.ask.query.value])
     ELSE IF Usable(cache) THEN OnScan(c, me, cache.scan, clock - cache.at)
     ELSE Goto(c, [me EXCEPT !.pc = "apps"])
  /\ UNCHANGED <<desk, changes, clock, cache, invoked, faults>>

Walk(c) ==
  LET me == caller[c]
      kids == IF me.at \in Living(desk) THEN desk.kids[me.at] ELSE <<>>
      scan == [NoScan EXCEPT !.began = changes]
  IN
  /\ me.pc = "walk"
  /\ IF me.path = <<>>
     THEN Report(c, me, <<Row(desk, me.at)>>, scan, 0)
     ELSE IF Head(me.path) + 1 \in DOMAIN kids
     THEN Goto(c, [me EXCEPT !.at = kids[Head(me.path) + 1], !.path = Tail(@)])
     ELSE Report(c, me, <<>>, scan, 0)
  /\ UNCHANGED <<desk, changes, clock, cache, invoked, faults>>

\* The registry's root, the actions or the doing of one fail.
Fault(c) ==
  /\ caller[c].pc \in {"apps", "verbs", "act", "tree"} /\ faults < MaxFaults
  /\ faults' = faults + 1
  /\ Answered(c, Plain(IF caller[c].pc = "verbs" THEN "not supported" ELSE "error"))
  /\ UNCHANGED <<desk, changes, clock, cache, invoked>>

\* A scan begins with the order of the applications.  When the registry does not
\* tell its children there are none, and the scan is no failure.
Apps(c) ==
  LET me == caller[c]
      Scanning(apps, partial) ==
        Goto(c, [me EXCEPT !.pc = "scan", !.apps = apps,
                           !.scan = [NoScan EXCEPT !.began = changes, !.partial = partial]])
  IN
  /\ me.pc = "apps"
  /\ \/ Scanning(Ordered(desk), FALSE) /\ UNCHANGED faults
     \/ faults < MaxFaults /\ faults' = faults + 1 /\ Scanning(<<>>, TRUE)
  /\ UNCHANGED <<desk, changes, clock, cache, invoked>>
\* An application that is gone, or cannot be reached, is passed over, and so is
\* what is below a node that does not answer.
ScanApp(c) ==
  LET me == caller[c]
      app == Head(me.apps)
      room == MaxNodes - Len(me.scan.rows)
  IN
  /\ me.pc = "scan" /\ me.apps # <<>> /\ room > 0
  /\ \E d \in Sights(app):
       LET rows == IF app \in Living(d) THEN Harvest(d, app, room) ELSE <<>>
       IN /\ Sees(app, d)
          /\ Goto(c, [me EXCEPT !.apps = Tail(@), !.scan.rows = @ \o rows,
                                !.scan.partial = @ \/ d # desk])
  /\ UNCHANGED <<desk, changes, clock, cache, invoked>>

ScanDone(me) == me.pc = "scan" /\ (me.apps = <<>> \/ Len(me.scan.rows) >= MaxNodes)

\* The scan replaces whatever is stored, and is fresh from now on.
Store(c) ==
  LET me == caller[c] IN
  /\ ScanDone(me) /\ me.ask.op # "focused"
  /\ cache' = [at |-> clock, scan |-> me.scan]
  /\ OnScan(c, me, me.scan, 0)
  /\ UNCHANGED <<desk, changes, clock, invoked, faults>>

\* The element with the focus.  The tool puts found into the answer, whatever
\* the provider answered.
Focused(c) ==
  LET me == caller[c]
      owners == SelectSeq(me.scan.rows, LAMBDA row: row.focused)
  IN
  /\ ScanDone(me) /\ me.ask.op = "focused"
  /\ Answered(c, IF owners # <<>> /\ owners[1].element \notin Living(desk)
                 THEN Plain("error")
                 ELSE Result("ok", TRUE, Up(1, owners), me.scan, 0))
  /\ UNCHANGED <<desk, changes, clock, cache, invoked, faults>>

Wake(c) ==
  /\ caller[c].pc = "sleep" /\ clock >= caller[c].wake
  /\ Goto(c, [caller[c] EXCEPT !.pc = "look"])
  /\ UNCHANGED <<desk, changes, clock, cache, invoked, faults>>

-----------------------------------------------------------------------------
(* An invocation: the rectangle, and the element again, for its action.    *)

Extents(c) ==
  LET me == caller[c] IN
  /\ me.pc = "extents"
  /\ IF me.at.element \in Living(desk)
     THEN Goto(c, [me EXCEPT !.pc = "look", !.second = TRUE,
                             !.rect = desk.area[me.at.element]])
     ELSE Answered(c, Plain("not found"))
  /\ UNCHANGED <<desk, changes, clock, cache, invoked, faults>>

Verbs(c) ==
  LET me == caller[c]
      alive == me.at.element \in Living(desk)
  IN
  /\ me.pc = "verbs"
  /\ IF alive /\ desk.actions[me.at.element] # <<>>
     THEN Goto(c, [me EXCEPT !.pc = "act", !.verbs = desk.actions[me.at.element]])
     ELSE Answered(c, Plain("not supported"))
  /\ UNCHANGED <<desk, changes, clock, cache, invoked, faults>>

Activation == {"press", "activate", "click", "default", ""}
Aliases == {"press", "activate", "click", "select"}
FirstOf(verbs, wanted) ==
  SelectInSeq(verbs, LAMBDA verb: verb \in wanted)

\* The action of that name; for an activation, one by another of its names, or
\* else the first there is.  0 when there is none.
Index(verbs, action) ==
  LET exact == FirstOf(verbs, {action})
      alias == FirstOf(verbs, Aliases)
  IN IF exact # 0 THEN exact
     ELSE IF action \notin Activation THEN 0
     ELSE IF alias # 0 THEN alias ELSE 1
\* The index goes out; what is done is what the list has there by now.
Act(c) ==
  LET me == caller[c]
      i == Index(me.verbs, me.ask.action)
      e == me.at.element
  IN
  /\ me.pc = "act"
  /\ IF i = 0 THEN Answered(c, Plain("not supported")) /\ UNCHANGED invoked
     ELSE IF e \notin Living(desk) THEN Answered(c, Plain("error")) /\ UNCHANGED invoked
     ELSE /\ invoked' = invoked \union {[row |-> me.at, verb |-> desk.actions[e][i], by |-> c,
                                          relisted |-> desk.actions[e] # me.verbs]}
          /\ Answered(c, Result("ok", TRUE, <<me.at>>, me.scan, 0))
  /\ UNCHANGED <<desk, changes, clock, cache, faults>>

-----------------------------------------------------------------------------
Serve(c) ==
  \/ Begin(c) \/ GetTree(c) \/ Look(c) \/ Walk(c) \/ Fault(c) \/ Apps(c) \/ ScanApp(c)
  \/ Store(c) \/ Focused(c) \/ Wake(c) \/ Extents(c) \/ Verbs(c) \/ Act(c)
Next == Tick \/ Changed(desk, {"ok", "no"}) \/ \E c \in Callers: Serve(c)

Spec == Init /\ [][Next]_treeVars
-----------------------------------------------------------------------------
(* Properties.                                                             *)

\* The rows of the desktop in the order of a search, the active application's
\* first, as far as a scan reaches.
Reference(d) ==
  LET rest == SelectSeq(d.kids[Root], LAMBDA a: a # d.active)
      first == SelectSeq(d.kids[Root], LAMBDA a: a = d.active)
      all == FlattenSeq([i \in DOMAIN (first \o rest) |-> Preorder(d, (first \o rest)[i])])
  IN {Row(d, all[i]) : i \in DOMAIN all}

Depth(d, e) == CHOOSE n \in 0..3: e \in UNION {
  CASE n = 0 -> {Root} [] n = 1 -> ToSet(d.kids[Root])
    [] n = 2 -> UNION {ToSet(d.kids[a]) : a \in ToSet(d.kids[Root])}
    [] n = 3 -> Living(d)}

\* An answer from a scan the desktop has not changed under is the truth about
\* the desktop: what it lists is there and matches, the active application's
\* before any other's, and when it says there is nothing, and the whole tree was
\* within the scan's reach, there is nothing.  No scan older than the time to
\* live is used for it.
Truthful(c) ==
  LET me == caller[c]
      a == me.answer
      q == me.ask.query
      there == {row \in Reference(desk): Matches(q, row)}
      apart == {row \in there: row.element \in ToSet(Preorder(desk, desk.active))}
  IN (me.ask.op \in {"find", "wait"} /\ a.how = "ok") =>
       /\ a.age < Ttl
       /\ (a.began = changes /\ q.kind # "index") =>
            /\ ToSet(a.rows) \subseteq there
            /\ (a.found = FALSE /\ a.whole) => there = {}
            /\ (apart # {} /\ a.rows # <<>> /\ a.whole) => a.rows[1] \in apart

\* What is invoked matched the query when it was seen, and is the action asked
\* for, or one that activates where an activation was asked for, unless the
\* element listed its actions anew since they were read.
InvokedRight ==
  \A i \in invoked:
    LET ask == caller[i.by].ask
    IN /\ ask.query.kind # "index" => Matches(ask.query, i.row)
       /\ i.verb = ask.action \/ ask.action \in Activation \/ i.relisted

\* A node of the tree is marked cut only when something below it, within the
\* depth, was left out, and then always, unless a query failed: what that loses
\* is not marked.
CutMarked(c) ==
  LET a == caller[c].answer
      shown == {a.rows[i].element : i \in DOMAIN a.rows}
      short(e) == \E k \in ToSet(Preorder(desk, e)) \ shown:
                    Depth(desk, k) <= caller[c].ask.limit
  IN (caller[c].ask.op = "tree" /\ a.how = "ok" /\ a.began = changes) =>
       \A i \in DOMAIN a.rows:
         /\ a.rows[i].cut => short(a.rows[i].element)
         /\ (a.whole /\ short(a.rows[i].element)) => a.rows[i].cut

TreeAnswers ==
  /\ \A c \in Callers: caller[c].pc = "done" => Truthful(c) /\ CutMarked(c)
  /\ InvokedRight

\* docs/TOOLS.md:1003, of get_focused_element: "When nothing reports focus:
\* {"found": false}".
FocusedHonest ==
  \A c \in Callers:
    (caller[c].pc = "done" /\ caller[c].ask.op = "focused" /\ caller[c].answer.how = "ok")
      => (caller[c].answer.found <=> caller[c].answer.rows # <<>>)
=============================================================================
