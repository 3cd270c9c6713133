---------------------------- MODULE BrowserBridge ---------------------------
(***************************************************************************)
(* The bridge to the browser: the web_query tool (tools/automation.rs) and *)
(* the DevTools connection it shares with every other call                 *)
(* (providers/cdp_browser.rs).  The connection is made on first use, kept  *)
(* behind one lock, and dropped when a request on it fails.                *)
(*                                                                         *)
(* The browser is external: it answers requests in order, pushes events    *)
(* between the answers, and may close the connection.                      *)
(***************************************************************************)
EXTENDS Integers, Sequences, SequencesExt

CONSTANTS
  Callers,
  Wanted,             \* caller -> the selectors it may ask for
  Pages,              \* selector -> "hit", "miss", "throws", or "refused"
  Endpoints,          \* [list, version]: what the browser offers to attach to
  None, MaxCalls, MaxEvents, MaxFaults

\* What can be attached to, the messages on a socket, and the socket, whose other end
\* may close.
Targets == UNION {Range(e.list) \union {e.version}: e \in Endpoints}
Closed(t) == [t EXCEPT !.url = "closed"]
Messages == [id: Nat, selector: (UNION {Wanted[c]: c \in Callers}) \union {None}]
Sockets == [target: Targets \union {Closed(t): t \in Targets}, next: Nat,
            asked: Seq(Messages), inbox: Seq(Messages)]

\* Targets have a type and an address; "nothing" is none of what there is; a page finds
\* a selector or not, or throws, or the tool refuses it.
BridgeConstants ==
  /\ \A e \in Endpoints: e.list \in Seq(Targets)
  /\ \A t \in Targets: t = [type |-> t.type, url |-> t.url] /\ t.url # "closed"
  /\ None \notin Callers \union Targets \union Sockets \union {"local"}
  /\ \A c \in Callers: \A s \in Wanted[c]: Pages[s] \in {"hit", "miss", "throws", "refused"}
  /\ MaxFaults \in Nat
ASSUME BridgeAssumption == BridgeConstants

VARIABLES endpoint, link, cached, lock, client, queries, events, linkFaults

bridgeVars == <<endpoint, link, cached, lock, client, queries, events, linkFaults>>

\* A socket: the target at its other end, the next id, the requests the browser has
\* yet to answer and the messages that have yet to be read.
Socket(target) == [target |-> target, next |-> 1, asked |-> <<>>, inbox |-> <<>>]
NoCall == [pc |-> "idle", selector |-> None, again |-> FALSE, id |-> 0, answer |-> None]

BridgeInit ==
  /\ endpoint \in Endpoints /\ link = None /\ cached = FALSE /\ lock = None
  /\ client = [c \in Callers |-> NoCall] /\ queries = 0 /\ events = 0 /\ linkFaults = 0

-----------------------------------------------------------------------------
(* The browser.                                                            *)

Serve ==
  /\ link # None /\ link.asked # <<>>
  /\ link' = [link EXCEPT !.asked = Tail(@), !.inbox = Append(@, Head(link.asked))]
  /\ UNCHANGED <<endpoint, cached, lock, client, queries, events, linkFaults>>
Push ==
  /\ link # None /\ events < MaxEvents /\ events' = events + 1
  /\ link' = [link EXCEPT !.inbox = Append(@, [id |-> 0, selector |-> None])]
  /\ UNCHANGED <<endpoint, cached, lock, client, queries, linkFaults>>

-----------------------------------------------------------------------------
Goto(c, to) == client' = [client EXCEPT ![c] = to]
Answered(c, how) ==
  Goto(c, [NoCall EXCEPT !.pc = "done", !.selector = client[c].selector,
             !.answer = [how |-> how, of |-> None, from |-> None]])
Faulty == linkFaults < MaxFaults /\ linkFaults' = linkFaults + 1

\* The tool refuses a selector before it looks for the browser.
Begin(c) ==
  /\ client[c].pc \in {"idle", "done"} /\ queries < MaxCalls /\ queries' = queries + 1
  /\ \E s \in Wanted[c]:
       LET me == [NoCall EXCEPT !.selector = s] IN
       Goto(c, IF Pages[s] = "refused"
               THEN [me EXCEPT !.pc = "done",
                               !.answer = [how |-> "refused", of |-> None, from |-> None]]
               ELSE [me EXCEPT !.pc = "ensure"])
  /\ UNCHANGED <<endpoint, link, cached, lock, events, linkFaults>>

\* ensure_ready, which the tool calls, and then the query again.
Ready(c, me) == Goto(c, IF me.again THEN [me EXCEPT !.pc = "query"]
                        ELSE [me EXCEPT !.pc = "ensure", !.again = TRUE])
Ensure(c) ==
  LET me == client[c] IN
  /\ me.pc = "ensure" /\ lock = None
  /\ IF cached THEN Ready(c, me) /\ UNCHANGED lock
     ELSE lock' = c /\ Goto(c, [me EXCEPT !.pc = "list"])
  /\ UNCHANGED <<endpoint, link, cached, queries, events, linkFaults>>

GiveUp(c, how) == lock' = None /\ Answered(c, how)

\* The first page that can be attached to, or else anything that can.
Attachable(t) == t.url # None
Picked(list) ==
  LET page == SelectInSeq(list, LAMBDA t: t.type = "page")
      any == SelectInSeq(list, Attachable)
  IN IF page # 0 /\ Attachable(list[page]) THEN list[page]
     ELSE IF any # 0 THEN list[any] ELSE None
\* MUTANT of Dialled: whatever address the browser names.
DialledAnywhere(c, target) ==
  Goto(c, [client[c] EXCEPT !.pc = "connect", !.answer = target]) /\ UNCHANGED lock
\* Only an address on this machine is dialled.
Dialled(c, target) ==
  IF target.url = "local"
  THEN Goto(c, [client[c] EXCEPT !.pc = "connect", !.answer = target]) /\ UNCHANGED lock
  ELSE GiveUp(c, "no target")

ListTargets(c) ==
  LET target == Picked(endpoint.list)
      next == [client[c] EXCEPT !.pc = "version"]
  IN
  /\ client[c].pc = "list"
  /\ \/ /\ UNCHANGED linkFaults
        /\ IF target # None THEN Dialled(c, target) ELSE Goto(c, next) /\ UNCHANGED lock
     \/ Faulty /\ Goto(c, next) /\ UNCHANGED lock
  /\ UNCHANGED <<endpoint, link, cached, queries, events>>
Version(c) ==
  /\ client[c].pc = "version"
  /\ \/ /\ UNCHANGED linkFaults
        /\ IF Attachable(endpoint.version) THEN Dialled(c, endpoint.version)
           ELSE GiveUp(c, "no target")
     \/ Faulty /\ GiveUp(c, "error")
  /\ UNCHANGED <<endpoint, link, cached, queries, events>>

\* CdpConn::call, its first half: the request, under the next id.
Sent(socket, selector) ==
  [socket EXCEPT !.next = @ + 1, !.asked = Append(@, [id |-> socket.next, selector |-> selector])]
Connect(c) ==
  LET me == client[c] IN
  /\ me.pc = "connect"
  /\ \/ /\ UNCHANGED <<linkFaults, lock>>
        /\ link' = Sent(Socket(me.answer), None)
        /\ Goto(c, [me EXCEPT !.pc = "enabling", !.id = 1, !.answer = None])
     \/ Faulty /\ GiveUp(c, "error") /\ UNCHANGED link
  /\ UNCHANGED <<endpoint, cached, queries, events>>

\* The query takes the lock anew: the connection may be gone since it was ensured.
Query(c) ==
  LET me == client[c] IN
  /\ me.pc = "query" /\ lock = None
  /\ IF cached
     THEN /\ link' = Sent(link, me.selector) /\ lock' = c
          /\ Goto(c, [me EXCEPT !.pc = "waiting", !.id = link.next])
     ELSE Answered(c, "unavailable") /\ UNCHANGED <<link, lock>>
  /\ UNCHANGED <<endpoint, cached, queries, events, linkFaults>>
\* The other half: messages are read until the reply of that id; what else comes is
\* skipped.
Skip(c) ==
  LET me == client[c] IN
  /\ me.pc \in {"enabling", "waiting"} /\ link # None /\ link.inbox # <<>>
  /\ Head(link.inbox).id # me.id
  /\ link' = [link EXCEPT !.inbox = Tail(@)]
  /\ UNCHANGED <<endpoint, cached, lock, client, queries, events, linkFaults>>
Arrived(c) ==
  /\ client[c].pc \in {"enabling", "waiting"} /\ link # None /\ link.inbox # <<>>
  /\ Head(link.inbox).id = client[c].id
\* Only pages and workers have the domain that is enabled, and then asked.
Runtime(t) == t.type \in {"page", "worker"}
Enabled(c) ==
  LET me == client[c] IN
  /\ Arrived(c) /\ me.pc = "enabling" /\ Runtime(link.target)
  /\ link' = [link EXCEPT !.inbox = Tail(@)] /\ cached' = TRUE /\ lock' = None
  /\ Ready(c, me)
  /\ UNCHANGED <<endpoint, queries, events, linkFaults>>
\* A selector the page cannot make sense of is an error, but not the connection's.
Replied(c) ==
  LET me == client[c]
      reply == Head(link.inbox)
  IN
  /\ Arrived(c) /\ me.pc = "waiting"
  /\ link' = [link EXCEPT !.inbox = Tail(@)] /\ lock' = None
  /\ Goto(c, [NoCall EXCEPT !.pc = "done", !.selector = me.selector,
                !.answer = [how |-> Pages[reply.selector], of |-> reply.selector,
                            from |-> link.target]])
  /\ UNCHANGED <<endpoint, cached, queries, events, linkFaults>>

\* MUTANT of Dropped: a connection that failed is kept.
DroppedNot == UNCHANGED <<link, cached>>
\* The connection goes with its failure.
Dropped == link' = None /\ cached' = FALSE
\* The reply is an error: there is no such domain at the other end, or, to the question
\* itself, for a reason of the page's (a failure).
Refused(c) ==
  /\ Arrived(c)
  /\ IF client[c].pc = "enabling" THEN ~Runtime(link.target) /\ UNCHANGED linkFaults
     ELSE Faulty
  /\ Dropped /\ GiveUp(c, "error")
  /\ UNCHANGED <<endpoint, queries, events>>
\* No reply in time, or the browser went away; in the latter case it stays away from
\* this socket.
WaitFails(c) ==
  /\ client[c].pc \in {"enabling", "waiting"} /\ link # None /\ Faulty
  /\ Dropped /\ GiveUp(c, "error")
  /\ UNCHANGED <<endpoint, queries, events>>
\* The browser closes a connection nobody waits on: the next request finds out.
Hangup ==
  /\ link # None /\ link.target.url # "closed" /\ Faulty
  /\ link' = [link EXCEPT !.target.url = "closed", !.asked = <<>>, !.inbox = <<>>]
  /\ UNCHANGED <<endpoint, cached, lock, client, queries, events>>
FoundClosed(c) ==
  /\ client[c].pc \in {"enabling", "waiting"} /\ link # None /\ link.target.url = "closed"
  /\ Dropped /\ GiveUp(c, "error")
  /\ UNCHANGED <<endpoint, queries, events, linkFaults>>

Attach(c) == Ensure(c) \/ ListTargets(c) \/ Version(c) \/ Connect(c) \/ Enabled(c)
Read(c) == Skip(c) \/ Replied(c) \/ Refused(c) \/ WaitFails(c) \/ FoundClosed(c)
BridgeNext ==
  \/ (Serve /\ link.target.url # "closed") \/ (Push /\ link.target.url # "closed") \/ Hangup
  \/ \E c \in Callers: Begin(c) \/ Attach(c) \/ Query(c) \/ Read(c)
BridgeSpec == BridgeInit /\ [][BridgeNext]_bridgeVars
-----------------------------------------------------------------------------
(* Properties.                                                             *)

\* What a call attaches to while nothing fails.
ToAttach(e) == IF Picked(e.list) # None THEN Picked(e.list) ELSE e.version
\* A call is answered from a page or a worker, on this machine, and by the reply to its
\* own selector.  While nothing fails, what there is to attach to settles its answer: the
\* page's if it is a page or a worker of this machine, an error if it is the browser itself
\* (whose socket has no page to ask), and no target if it is elsewhere.  A connection that
\* failed is in nobody's way: when no call is under way and a connection is kept, it is
\* whole or the browser closed it since.
BrowserTrue ==
  /\ \A c \in Callers: client[c].pc = "done" =>
       LET a == client[c].answer
           t == ToAttach(endpoint)
       IN
       /\ a.of # None => /\ a.of = client[c].selector /\ Runtime(a.from)
                         /\ a.from.url \in {"local", "closed"}
                         /\ linkFaults = 0 => a.from = t
       /\ linkFaults = 0 => /\ a.how # "unavailable"
                            /\ a.how = "error" => t.url = "local" /\ ~Runtime(t)
                            /\ a.how = "no target" => t.url # "local"
  /\ link # None => link.target.url \in {"local", "closed"}
  /\ cached => link # None
  /\ (lock = None /\ link # None) => cached /\ link.asked = <<>>
  \* Nobody waits for a reply that has been read by another.
  /\ \A c \in Callers: (client[c].pc \in {"enabling", "waiting"} /\ link.target.url # "closed") =>
       \E i \in DOMAIN (link.asked \o link.inbox): (link.asked \o link.inbox)[i].id = client[c].id
=============================================================================
