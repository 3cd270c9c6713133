---------------------------- MODULE SensesProofs ----------------------------
(***************************************************************************)
(* Proofs about BrowserBridge, for any number of callers, any browser and  *)
(* any bounds on its events and failures.                                  *)
(***************************************************************************)
EXTENDS BrowserBridge, DataLemmas

-----------------------------------------------------------------------------
(* The browser *)

\* Nothing is asked and nothing but events is to be read.
Quiet(l) == l.asked = <<>> /\ \A i \in DOMAIN l.inbox: l.inbox[i].id = 0

\* One request is under way: the browser has yet to answer it, or its reply
\* is among the messages to be read; the others are events.
Pending(l, m) ==
  \/ l.asked = <<m>> /\ \A i \in DOMAIN l.inbox: l.inbox[i].id = 0
  \/ /\ l.asked = <<>>
     /\ \E i \in DOMAIN l.inbox:
          /\ l.inbox[i] = m
          /\ \A j \in DOMAIN l.inbox \ {i}: l.inbox[j].id = 0

\* While nothing fails, what there is to attach to settles how a call is answered.
Deserved(e, how) ==
  LET t == ToAttach(e) IN
  /\ how # "unavailable"
  /\ how = "error" => t.url = "local" /\ ~Runtime(t)
  /\ how = "no target" => t.url # "local"

\* What a call has been told is true of its page and of what there is to attach to.
Told(k, e, f) ==
  LET a == k.answer IN
  /\ a.of # None => /\ a.of = k.selector /\ Runtime(a.from)
                    /\ a.from.url \in {"local", "closed"}
                    /\ f = 0 => a.from = ToAttach(e)
  /\ f = 0 => Deserved(e, a.how)

\* A call, with the endpoint e, the connection l, cached or not, the lock and
\* the number of failures f.  Who attaches or waits holds the lock, and nobody
\* else; who waits has one request under way, unless the browser closed.
Holding == {"list", "version", "connect", "enabling", "waiting"}
Requested == UNION {Wanted[c]: c \in Callers}
Selectors == Requested \union {None}
Words == {"refused", "no target", "error", "unavailable", "hit", "miss", "throws"}
Answers == [how: Words, of: Selectors,
            from: Targets \union {Closed(t): t \in Targets} \union {None}]
CallRecords == [pc: Holding \union {"idle", "ensure", "query", "done"}, selector: Selectors,
                again: BOOLEAN, id: Nat, answer: Answers \union Targets \union {None}]
CallGood(c, k, e, l, kept, who, f) ==
  /\ k \in CallRecords
  /\ k.pc # "idle" => k.selector \in Wanted[c]
  /\ who = c <=> k.pc \in Holding
  /\ k.pc \in {"list", "version", "connect"} => l = None /\ ~kept
  /\ k.pc = "version" /\ f = 0 => Picked(e.list) = None
  /\ k.pc = "connect" => /\ k.answer \in Targets /\ k.answer.url = "local"
                         /\ f = 0 => k.answer = ToAttach(e)
  /\ k.pc \in {"enabling", "waiting"} =>
       /\ l # None /\ (kept <=> k.pc = "waiting") /\ k.id \in Nat \ {0}
       /\ \/ l.target.url = "closed"
          \/ Pending(l, [id |-> k.id,
                         selector |-> IF k.pc = "waiting" THEN k.selector ELSE None])
  /\ k.pc = "query" \/ (k.pc = "ensure" /\ k.again) => (f = 0 => kept)
  /\ k.pc = "done" => Told(k, e, f)

\* A connection is to a target on this machine; it is closed only by a failure,
\* kept only if there is one to a page or a worker, and quiet when nobody holds the lock.
LinkGood(e, l, kept, who, f) ==
  /\ l # None =>
       /\ l \in Sockets /\ l.next # 0 /\ l.target.url \in {"local", "closed"}
       /\ l.target.url = "closed" => f # 0 /\ l.inbox = <<>>
       /\ f = 0 => l.target = ToAttach(e)
  /\ kept => l # None /\ Runtime(l.target)
  /\ who = None /\ l # None => kept /\ Quiet(l)

BridgeInv ==
  /\ endpoint \in Endpoints /\ linkFaults \in Nat /\ lock \in Callers \union {None}
  /\ cached \in BOOLEAN
  /\ client = [c \in Callers |-> client[c]]
  /\ LinkGood(endpoint, link, cached, lock, linkFaults)
  /\ \A c \in Callers: CallGood(c, client[c], endpoint, link, cached, lock, linkFaults)

\* The page that is picked is one of the list.
LEMMA PickedTyped ==
  ASSUME BridgeConstants, NEW e \in Endpoints
  PROVE  /\ Picked(e.list) \in Targets \union {None}
         /\ e.version \in Targets
<1>1. e.list \in Seq(Targets) /\ e.version \in Targets
  BY DEF BridgeConstants, Targets
<1> DEFINE P == {i \in 1..Len(e.list): e.list[i].type = "page"}
           A == {i \in 1..Len(e.list): Attachable(e.list[i])}
           page == IF P # {} THEN Min(P) ELSE 0
           any == IF A # {} THEN Min(A) ELSE 0
<1>2. P \in SUBSET Nat /\ A \in SUBSET Nat
  OBVIOUS
<1>3. Picked(e.list) = IF page # 0 /\ Attachable(e.list[page]) THEN e.list[page]
                       ELSE IF any # 0 THEN e.list[any] ELSE None
  BY DEF Picked, SelectInSeq
<1>4. (page # 0 => page \in 1..Len(e.list)) /\ (any # 0 => any \in 1..Len(e.list))
  <2>1. (P # {} => Min(P) \in P) /\ (A # {} => Min(A) \in A)
    BY <1>2, MinProperties
  <2> QED BY <2>1
<1> HIDE DEF page, any
<1> QED BY <1>1, <1>3, <1>4

\* A call that does not hold the lock only looks at whether a connection is kept.
LEMMA OthersKeep ==
  ASSUME NEW c, NEW k, NEW e, NEW l, NEW kept, NEW who, NEW f \in Nat,
         CallGood(c, k, e, l, kept, who, f), who # c,
         NEW l2, NEW kept2, NEW who2, NEW f2 \in Nat,
         who2 # c, f <= f2, f2 = 0 /\ kept => kept2
  PROVE  CallGood(c, k, e, l2, kept2, who2, f2)
<1>1. f2 = 0 => f = 0
  OBVIOUS
<1>2. k.pc \notin Holding
  BY DEF CallGood
<1>3. Told(k, e, f) => Told(k, e, f2)
  BY <1>1 DEF Told
<1> QED BY <1>1, <1>2, <1>3 DEF CallGood, Holding

\* One call's step keeps the invariant if it leaves that call and the connection good and
\* takes nothing from the others.
LEMMA OneCaller ==
  ASSUME BridgeConstants, BridgeInv, NEW c \in Callers, NEW k,
         client' = [client EXCEPT ![c] = k], UNCHANGED endpoint,
         linkFaults' \in Nat, linkFaults <= linkFaults', lock' \in Callers \union {None},
         cached' \in BOOLEAN,
         (lock \in {c, None} /\ lock' \in {c, None}) \/ lock' = lock,
         linkFaults' = 0 /\ cached => cached',
         lock # c /\ lock' = lock => UNCHANGED <<link, cached, linkFaults>>,
         CallGood(c, k, endpoint, link', cached', lock', linkFaults'),
         LinkGood(endpoint, link', cached', lock', linkFaults')
  PROVE  BridgeInv'
<1>1. ASSUME NEW d \in Callers, d # c
      PROVE  CallGood(d, client[d], endpoint, link', cached', lock', linkFaults')
  <2>1. CallGood(d, client[d], endpoint, link, cached, lock, linkFaults) /\ linkFaults \in Nat
    BY DEF BridgeInv
  <2>2. CASE UNCHANGED <<link, cached, lock, linkFaults>>
    BY <2>1, <2>2
  <2>3. CASE lock # d /\ lock' # d
    BY <2>1, <2>3, OthersKeep
  <2> QED BY <1>1, <2>2, <2>3 DEF BridgeConstants
<1>2. \A d \in Callers: client'[d] = IF d = c THEN k ELSE client[d]
  BY DEF BridgeInv
<1> QED BY <1>1, <1>2 DEF BridgeInv

\* The browser answers the request that is under way, or closes, or pushes an event: who
\* waits still has one request under way, unless the browser closed.
LEMMA LinkStep ==
  ASSUME BridgeInv, UNCHANGED <<endpoint, cached, lock, client>>,
         linkFaults' \in Nat, linkFaults <= linkFaults', link # None, link' # None,
         link.target.url = "closed" => link'.target.url = "closed",
         link'.target.url # "closed" =>
           \A i \in Nat \ {0}: \A t: LET m == [id |-> i, selector |-> t] IN
             Pending(link, m) => Pending(link', m),
         LinkGood(endpoint, link', cached, lock, linkFaults')
  PROVE  BridgeInv'
<1>1. ASSUME NEW c \in Callers
      PROVE  CallGood(c, client[c], endpoint, link', cached, lock, linkFaults')
  <2> DEFINE k == client[c]
  <2>1. CallGood(c, k, endpoint, link, cached, lock, linkFaults) /\ linkFaults \in Nat
    BY DEF BridgeInv
  <2>2. linkFaults' = 0 => linkFaults = 0
    BY <2>1
  <2>3. Told(k, endpoint, linkFaults) => Told(k, endpoint, linkFaults')
    BY <2>2 DEF Told
  <2>4. ASSUME k.pc \in {"enabling", "waiting"}
        PROVE  /\ link' # None /\ (cached <=> k.pc = "waiting") /\ k.id \in Nat \ {0}
               /\ \/ link'.target.url = "closed"
                  \/ Pending(link', [id |-> k.id, selector |->
                       IF k.pc = "waiting" THEN k.selector ELSE None])
    BY <2>1, <2>4 DEF CallGood
  <2> HIDE DEF k
  <2>5. k.pc \notin {"list", "version", "connect"}
    BY <2>1 DEF CallGood
  <2>6. CallGood(c, k, endpoint, link', cached, lock, linkFaults')
    BY <2>1, <2>2, <2>3, <2>4, <2>5 DEF CallGood
  <2> QED BY <2>6 DEF k
<1> QED BY <1>1 DEF BridgeInv

-----------------------------------------------------------------------------
(* The messages *)

\* What the browser has to answer, and the events it pushes, are messages; a socket is a
\* record of its four parts.
LEMMA SocketTyped ==
  ASSUME NEW l \in Sockets
  PROVE  /\ l = [target |-> l.target, next |-> l.next, asked |-> l.asked, inbox |-> l.inbox]
         /\ l.target \in Targets \union {Closed(t): t \in Targets} /\ l.next \in Nat
         /\ l.asked \in Seq(Messages) /\ l.inbox \in Seq(Messages)
BY DEF Sockets

\* Appending an event leaves a quiet socket quiet and a request under way.
LEMMA EventAppended ==
  ASSUME NEW l \in Sockets, NEW l2 \in Sockets, NEW m, m.id # 0,
         l2.asked = l.asked, l2.inbox = Append(l.inbox, [id |-> 0, selector |-> None])
  PROVE  (Quiet(l) => Quiet(l2)) /\ (Pending(l, m) => Pending(l2, m))
<1>1. l.inbox \in Seq(Messages)
  BY SocketTyped
<1> DEFINE e == [id |-> 0, selector |-> None]
           n == Len(l.inbox)
<1>2. /\ n \in Nat /\ DOMAIN l.inbox = 1..n /\ DOMAIN l2.inbox = 1..(n + 1)
      /\ \A i \in 1..n: l2.inbox[i] = l.inbox[i]
      /\ l2.inbox[n + 1].id = 0
  BY <1>1
<1> HIDE DEF n
<1>3. Quiet(l) => Quiet(l2)
  BY <1>2 DEF Quiet
<1>4. CASE l.asked = <<m>> /\ \A i \in DOMAIN l.inbox: l.inbox[i].id = 0
  <2>1. \A i \in DOMAIN l2.inbox: l2.inbox[i].id = 0
    BY <1>2, <1>4
  <2> QED BY <1>3, <1>4, <2>1 DEF Pending
<1>5. ASSUME l.asked = <<>>, NEW i \in DOMAIN l.inbox, l.inbox[i] = m,
             \A j \in DOMAIN l.inbox \ {i}: l.inbox[j].id = 0
      PROVE  Pending(l2, m)
  <2>1. i \in DOMAIN l2.inbox /\ l2.inbox[i] = m
    BY <1>2, <1>5
  <2>2. \A j \in DOMAIN l2.inbox \ {i}: l2.inbox[j].id = 0
    BY <1>2, <1>5
  <2> QED BY <1>5, <2>1, <2>2 DEF Pending
<1> QED BY <1>3, <1>4, <1>5 DEF Pending

\* The answer to the one request under way is the one message to be read.
LEMMA AnswerAppended ==
  ASSUME NEW l \in Sockets, NEW l2 \in Sockets, NEW m, m.id # 0, Pending(l, m),
         l.asked # <<>>, l2.asked = Tail(l.asked), l2.inbox = Append(l.inbox, Head(l.asked))
  PROVE  Pending(l2, m)
<1>1. l.inbox \in Seq(Messages)
  BY SocketTyped
<1> DEFINE n == Len(l.inbox)
<1>2. l.asked = <<m>> /\ \A i \in DOMAIN l.inbox: l.inbox[i].id = 0
  BY DEF Pending
<1>3. l2.asked = <<>> /\ Head(l.asked) = m
  BY <1>2
<1>4. /\ n \in Nat /\ DOMAIN l.inbox = 1..n /\ DOMAIN l2.inbox = 1..(n + 1)
      /\ \A i \in 1..n: l2.inbox[i] = l.inbox[i]
      /\ l2.inbox[n + 1] = m
  BY <1>1, <1>3
<1> HIDE DEF n
<1>5. n + 1 \in DOMAIN l2.inbox /\ \A j \in DOMAIN l2.inbox \ {n + 1}: l2.inbox[j].id = 0
  BY <1>2, <1>4
<1> QED BY <1>3, <1>4, <1>5 DEF Pending

\* Reading a message: an event leaves the request under way, and its reply leaves the
\* socket quiet.
LEMMA MessageRead ==
  ASSUME NEW l \in Sockets, NEW l2 \in Sockets, NEW m, m.id # 0, Pending(l, m),
         l.inbox # <<>>, l2.asked = l.asked, l2.inbox = Tail(l.inbox)
  PROVE  /\ Head(l.inbox).id # m.id => Pending(l2, m)
         /\ Head(l.inbox).id = m.id => Head(l.inbox) = m /\ Quiet(l2)
<1>1. l.inbox \in Seq(Messages)
  BY SocketTyped
<1> DEFINE n == Len(l.inbox)
<1>2. /\ n \in Nat \ {0} /\ DOMAIN l.inbox = 1..n /\ DOMAIN l2.inbox = 1..(n - 1)
      /\ \A i \in 1..(n - 1): l2.inbox[i] = l.inbox[i + 1]
      /\ Head(l.inbox) = l.inbox[1]
  BY <1>1
<1> HIDE DEF n
<1>3. CASE l.asked = <<m>> /\ \A i \in DOMAIN l.inbox: l.inbox[i].id = 0
  <2>1. \A i \in DOMAIN l2.inbox: l2.inbox[i].id = 0
    BY <1>2, <1>3
  <2>2. Head(l.inbox).id # m.id
    BY <1>2, <1>3
  <2> QED BY <1>3, <2>1, <2>2 DEF Pending
<1>4. ASSUME l.asked = <<>>, NEW i \in DOMAIN l.inbox, l.inbox[i] = m,
             \A j \in DOMAIN l.inbox \ {i}: l.inbox[j].id = 0
      PROVE  /\ Head(l.inbox).id # m.id => Pending(l2, m)
             /\ Head(l.inbox).id = m.id => Head(l.inbox) = m /\ Quiet(l2)
  <2>1. CASE i = 1
    <3>1. \A j \in DOMAIN l2.inbox: l2.inbox[j].id = 0
      BY <1>2, <1>4, <2>1
    <3> QED BY <1>2, <1>4, <2>1, <3>1 DEF Quiet
  <2>2. CASE i # 1
    <3>1. Head(l.inbox).id # m.id
      BY <1>2, <1>4, <2>2
    <3>2. i - 1 \in DOMAIN l2.inbox /\ l2.inbox[i - 1] = m
      BY <1>2, <1>4, <2>2
    <3>3. \A j \in DOMAIN l2.inbox \ {i - 1}: l2.inbox[j].id = 0
      BY <1>2, <1>4, <2>2
    <3> QED BY <1>4, <3>1, <3>2, <3>3 DEF Pending
  <2> QED BY <2>1, <2>2
<1> QED BY <1>3, <1>4 DEF Pending

\* A request on a quiet socket is the one under way.
LEMMA RequestSent ==
  ASSUME NEW l \in Sockets, Quiet(l), NEW t, [id |-> l.next, selector |-> t] \in Messages
  PROVE  /\ Sent(l, t) \in Sockets /\ Sent(l, t).next = l.next + 1
         /\ Sent(l, t).target = l.target /\ Sent(l, t).inbox = l.inbox
         /\ Pending(Sent(l, t), [id |-> l.next, selector |-> t])
<1> DEFINE m == [id |-> l.next, selector |-> t]
           p == l.next + 1
           q == Append(l.asked, m)
<1>1. Sent(l, t) = [l EXCEPT !.next = p, !.asked = q]
  BY DEF Sent
<1>2. /\ l.next \in Nat /\ l.asked = <<>>
      /\ \A i \in DOMAIN l.inbox: l.inbox[i].id = 0
  BY SocketTyped DEF Quiet
<1>3. p \in Nat /\ q = <<m>> /\ q \in Seq(Messages)
  BY <1>2
<1> HIDE DEF m, p, q
<1>4. [l EXCEPT !.next = p, !.asked = q] \in Sockets
  BY <1>3 DEF Sockets
<1>5. LET s == [l EXCEPT !.next = p, !.asked = q]
      IN  s.target = l.target /\ s.next = p /\ s.asked = q /\ s.inbox = l.inbox
  BY DEF Sockets
<1> DEFINE s == Sent(l, t)
<1>6. s \in Sockets /\ s.target = l.target /\ s.next = p /\ s.asked = q /\ s.inbox = l.inbox
  BY <1>1, <1>4, <1>5
<1>7. s.next = l.next + 1
  BY <1>6 DEF p
<1> HIDE DEF s
<1>8. Pending(s, m)
  BY <1>2, <1>3, <1>6 DEF Pending
<1> QED BY <1>6, <1>7, <1>8 DEF m, s

-----------------------------------------------------------------------------
(* The browser's steps *)

\* A message asks for one of the selectors, or for nothing.
LEMMA MessagesAre == /\ Messages = [id: Nat, selector: Selectors]
                     /\ None \in Selectors
                     /\ \A c \in Callers: Wanted[c] \subseteq Selectors
<1>1. Messages = [id: Nat, selector: Selectors]
  BY DEF Messages, Selectors, Requested
<1>2. None \in Selectors
  BY DEF Selectors
<1>3. ASSUME NEW c \in Callers, NEW s \in Wanted[c]
      PROVE  s \in Selectors
  BY DEF Selectors, Requested
<1> QED BY <1>1, <1>2, <1>3

\* The browser answers only what is under way, so somebody holds the lock.
LEMMA ServeKeeps ==
  ASSUME BridgeConstants, BridgeInv, Serve, link.target.url # "closed"
  PROVE  BridgeInv'
<1> DEFINE a == Tail(link.asked)
           b == Append(link.inbox, Head(link.asked))
<1>1. /\ link # None /\ link.asked # <<>> /\ link' = [link EXCEPT !.asked = a, !.inbox = b]
      /\ UNCHANGED <<endpoint, cached, lock, client, linkFaults>>
  BY DEF Serve
<1>2. LinkGood(endpoint, link, cached, lock, linkFaults) /\ linkFaults \in Nat
  BY DEF BridgeInv
<1>3. link \in Sockets
  BY <1>1, <1>2 DEF LinkGood
<1>4. a \in Seq(Messages) /\ b \in Seq(Messages)
  BY <1>1, <1>3, SocketTyped
<1>5. /\ link' \in Sockets /\ link'.target = link.target /\ link'.next = link.next
      /\ link'.asked = a /\ link'.inbox = b
  <2>1. link' = [link EXCEPT !.asked = a, !.inbox = b]
    BY <1>1
  <2> HIDE DEF a, b
  <2> QED BY <2>1, <1>3, <1>4 DEF Sockets
<1>6. link' # None
  BY <1>5 DEF BridgeConstants
<1>7. LinkGood(endpoint, link', cached, lock, linkFaults)
  BY <1>1, <1>2, <1>5, <1>6 DEF LinkGood, Quiet
<1>8. ASSUME NEW i \in Nat \ {0}, NEW t, Pending(link, [id |-> i, selector |-> t])
      PROVE  Pending(link', [id |-> i, selector |-> t])
  BY <1>1, <1>3, <1>5, <1>8, AnswerAppended
<1> QED BY <1>1, <1>2, <1>6, <1>7, <1>8, LinkStep

\* An event is nobody's answer.
LEMMA PushKeeps ==
  ASSUME BridgeConstants, BridgeInv, Push, link.target.url # "closed"
  PROVE  BridgeInv'
<1> DEFINE e == [id |-> 0, selector |-> None]
           b == Append(link.inbox, e)
<1>1. /\ link # None /\ link' = [link EXCEPT !.inbox = b]
      /\ UNCHANGED <<endpoint, cached, lock, client, linkFaults>>
  BY DEF Push
<1>2. LinkGood(endpoint, link, cached, lock, linkFaults) /\ linkFaults \in Nat
  BY DEF BridgeInv
<1>3. link \in Sockets
  BY <1>1, <1>2 DEF LinkGood
<1>4. b \in Seq(Messages)
  <2>1. e \in Messages
    BY MessagesAre
  <2> QED BY <1>3, <2>1, SocketTyped
<1>5. /\ link' \in Sockets /\ link'.target = link.target /\ link'.next = link.next
      /\ link'.asked = link.asked /\ link'.inbox = b
  <2> HIDE DEF b
  <2> QED BY <1>1, <1>3, <1>4 DEF Sockets
<1>6. link' # None
  BY <1>5 DEF BridgeConstants
<1>7. Quiet(link) => Quiet(link')
  <2>1. [id |-> 1, selector |-> None].id # 0
    OBVIOUS
  <2> QED BY <1>3, <1>5, <2>1, EventAppended
<1>8. LinkGood(endpoint, link', cached, lock, linkFaults)
  BY <1>1, <1>2, <1>5, <1>6, <1>7 DEF LinkGood
<1>9. ASSUME NEW i \in Nat \ {0}, NEW t, Pending(link, [id |-> i, selector |-> t])
      PROVE  Pending(link', [id |-> i, selector |-> t])
  BY <1>3, <1>5, <1>9, EventAppended
<1> HIDE DEF b
<1> QED BY <1>1, <1>2, <1>6, <1>8, <1>9, LinkStep

\* The browser closes the connection: that is a failure, and nothing is left on the socket.
LEMMA HangupKeeps ==
  ASSUME BridgeConstants, BridgeInv, Hangup
  PROVE  BridgeInv'
<1>1. /\ link # None /\ link.target.url # "closed" /\ linkFaults' = linkFaults + 1
      /\ link' = [link EXCEPT !.target = [@ EXCEPT !.url = "closed"],
                              !.asked = <<>>, !.inbox = <<>>]
      /\ UNCHANGED <<endpoint, cached, lock, client>>
  BY DEF Hangup, Faulty
<1>2. LinkGood(endpoint, link, cached, lock, linkFaults) /\ linkFaults \in Nat
  BY DEF BridgeInv
<1>3. link \in Sockets
  BY <1>1, <1>2 DEF LinkGood
<1> DEFINE t == Closed(link.target)
<1>4. link.target \in Targets
  BY <1>1, <1>3, SocketTyped DEF Closed, BridgeConstants
<1>5. /\ t \in {Closed(u): u \in Targets} /\ t.url = "closed"
      /\ Runtime(t) = Runtime(link.target)
  BY <1>4 DEF Closed, BridgeConstants, Runtime
<1> DEFINE q == <<>>
<1>6. link' = [link EXCEPT !.target = t, !.asked = q, !.inbox = q]
  BY <1>1 DEF Closed
<1>7. q \in Seq(Messages)
  OBVIOUS
<1> HIDE DEF t, q
<1>8. /\ link' \in Sockets /\ link'.target = t /\ link'.next = link.next
      /\ link'.asked = q /\ link'.inbox = q
  BY <1>3, <1>5, <1>6, <1>7 DEF Sockets
<1> USE DEF q
<1>9. link' # None
  BY <1>8 DEF BridgeConstants
<1>10. LinkGood(endpoint, link', cached, lock, linkFaults')
  BY <1>1, <1>2, <1>5, <1>8, <1>9 DEF LinkGood, Quiet
<1> QED BY <1>1, <1>2, <1>5, <1>8, <1>9, <1>10, LinkStep

-----------------------------------------------------------------------------
(* A call's steps *)

\* What the invariant says of the caller that moves.
LEMMA Mine ==
  ASSUME BridgeConstants, BridgeInv, NEW c \in Callers
  PROVE  /\ CallGood(c, client[c], endpoint, link, cached, lock, linkFaults)
         /\ LinkGood(endpoint, link, cached, lock, linkFaults)
         /\ client[c] \in CallRecords /\ endpoint \in Endpoints /\ linkFaults \in Nat
         /\ cached \in BOOLEAN /\ lock \in Callers \union {None} /\ c # None
         /\ lock = c <=> client[c].pc \in Holding
BY DEF BridgeInv, CallGood, BridgeConstants

\* A call that is answered in words: it is done, and holds the lock no more.
LEMMA AnsweredGood ==
  ASSUME BridgeConstants, NEW c \in Callers, NEW s \in Wanted[c], NEW how \in Words,
         NEW e, NEW l, NEW kept, NEW who, who # c, NEW f \in Nat,
         f = 0 => Deserved(e, how),
         NEW k, k = [NoCall EXCEPT !.pc = "done", !.selector = s,
                                   !.answer = [how |-> how, of |-> None, from |-> None]]
  PROVE  CallGood(c, k, e, l, kept, who, f)
<1> DEFINE a == [how |-> how, of |-> None, from |-> None]
<1>1. s \in Selectors /\ a \in Answers
  <2>1. s \in Selectors /\ None \in Selectors
    BY MessagesAre
  <2> QED BY <2>1 DEF Answers, Words
<1>2. k = [pc |-> "done", selector |-> s, again |-> FALSE, id |-> 0, answer |-> a]
  BY DEF NoCall
<1>3. a.of = None /\ a.how = how
  OBVIOUS
<1> HIDE DEF a
<1>4. k \in CallRecords
  BY ONLY <1>1, <1>2 DEF CallRecords
<1>5. k.pc = "done" /\ k.selector = s /\ k.answer = a
  BY ONLY <1>2
<1>6. Told(k, e, f)
  BY <1>3, <1>5 DEF Told
<1> QED BY <1>4, <1>5, <1>6 DEF CallGood, Holding

\* A call begins, or is refused at once, without the lock.
LEMMA BeginKeeps ==
  ASSUME BridgeConstants, BridgeInv, NEW c \in Callers, Begin(c)
  PROVE  BridgeInv'
<1>1. PICK s \in Wanted[c]:
        client' = [client EXCEPT ![c] =
          LET me == [NoCall EXCEPT !.selector = s] IN
          IF Pages[s] = "refused"
          THEN [me EXCEPT !.pc = "done",
                          !.answer = [how |-> "refused", of |-> None, from |-> None]]
          ELSE [me EXCEPT !.pc = "ensure"]]
  BY DEF Begin, Goto
<1>2. /\ client[c].pc \in {"idle", "done"}
      /\ UNCHANGED <<endpoint, link, cached, lock, linkFaults>>
  BY DEF Begin
<1> DEFINE refused == [NoCall EXCEPT !.pc = "done", !.selector = s,
                          !.answer = [how |-> "refused", of |-> None, from |-> None]]
           ensure == [NoCall EXCEPT !.pc = "ensure", !.selector = s]
           k == IF Pages[s] = "refused" THEN refused ELSE ensure
<1>3. client' = [client EXCEPT ![c] = k]
  <2>1. /\ [[NoCall EXCEPT !.selector = s] EXCEPT !.pc = "done",
              !.answer = [how |-> "refused", of |-> None, from |-> None]] = refused
        /\ [[NoCall EXCEPT !.selector = s] EXCEPT !.pc = "ensure"] = ensure
    BY DEF NoCall
  <2> QED BY <1>1, <2>1
<1>4. lock # c
  BY <1>2, Mine DEF Holding
<1>5. CallGood(c, refused, endpoint, link, cached, lock, linkFaults)
  <2>1. linkFaults \in Nat
    BY Mine
  <2>2. "refused" \in Words /\ Deserved(endpoint, "refused")
    BY DEF Words, Deserved
  <2>3. ASSUME NEW k2, k2 = refused
        PROVE  CallGood(c, k2, endpoint, link, cached, lock, linkFaults)
    BY <1>4, <2>1, <2>2, <2>3, AnsweredGood
  <2> QED BY <2>3
<1>6. CallGood(c, ensure, endpoint, link, cached, lock, linkFaults)
  <2>1. s \in Selectors /\ None \in Selectors
    BY MessagesAre
  <2>2. NoCall \in CallRecords /\ ~NoCall.again
    BY <2>1 DEF NoCall, CallRecords
  <2>3. ensure \in CallRecords
    BY <2>1, <2>2 DEF CallRecords
  <2>4. ensure.pc = "ensure" /\ ensure.again = FALSE /\ ensure.selector = s
    BY <2>2 DEF CallRecords
  <2> QED BY <1>4, <2>3, <2>4 DEF CallGood, Holding
<1> HIDE DEF refused, ensure
<1>7. CallGood(c, k, endpoint, link, cached, lock, linkFaults)
  BY <1>5, <1>6
<1> HIDE DEF k
<1>8. CallGood(c, k, endpoint', link', cached', lock', linkFaults')
  BY <1>2, <1>7
<1>9. LinkGood(endpoint', link', cached', lock', linkFaults')
  BY <1>2, Mine
<1>10. /\ cached' \in BOOLEAN /\ (cached => cached') /\ linkFaults' \in Nat
       /\ linkFaults <= linkFaults' /\ lock' \in Callers \union {None}
  BY <1>2, Mine
<1> QED BY <1>2, <1>3, <1>4, <1>8, <1>9, <1>10, OneCaller

\* A call that takes another turn keeps its record's type.
LEMMA TurnTyped ==
  ASSUME NEW k \in CallRecords, NEW to \in Holding \union {"query"}
  PROVE  LET n == [k EXCEPT !.pc = to] IN
         /\ n \in CallRecords /\ n.pc = to
         /\ n.selector = k.selector /\ n.again = k.again /\ n.id = k.id /\ n.answer = k.answer
BY DEF CallRecords

\* ensure_ready leaves the caller ready to ask, or to make sure again, as long as nothing
\* fails or a connection is kept.
LEMMA ReadyGood ==
  ASSUME NEW c \in Callers, NEW k \in CallRecords, k.selector \in Wanted[c],
         NEW e, NEW l, NEW who, who # c, NEW f,
         NEW n, n = IF k.again THEN [k EXCEPT !.pc = "query"]
                    ELSE [k EXCEPT !.pc = "ensure", !.again = TRUE]
  PROVE  CallGood(c, n, e, l, TRUE, who, f)
<1>1. /\ n \in CallRecords /\ n.pc \in {"query", "ensure"} /\ n.selector = k.selector
  BY DEF CallRecords
<1> QED BY <1>1 DEF CallGood, Holding

\* A caller that finds a connection kept goes on; else it takes the lock to make one.
LEMMA EnsureKeeps ==
  ASSUME BridgeConstants, BridgeInv, NEW c \in Callers, Ensure(c)
  PROVE  BridgeInv'
<1> DEFINE me == client[c]
<1>1. /\ me.pc = "ensure" /\ lock = None
      /\ UNCHANGED <<endpoint, link, cached, linkFaults>>
  BY DEF Ensure
<1>2. /\ CallGood(c, me, endpoint, link, cached, lock, linkFaults)
      /\ LinkGood(endpoint, link, cached, lock, linkFaults)
      /\ me \in CallRecords /\ linkFaults \in Nat /\ c # None /\ cached \in BOOLEAN
  BY Mine
<1>3. me.selector \in Wanted[c]
  BY <1>1, <1>2 DEF CallGood
<1>4. CASE cached
  <2> DEFINE k == IF me.again THEN [me EXCEPT !.pc = "query"]
                  ELSE [me EXCEPT !.pc = "ensure", !.again = TRUE]
  <2>1. client' = [client EXCEPT ![c] = k] /\ UNCHANGED lock
    BY <1>1, <1>4 DEF Ensure, Ready, Goto
  <2> HIDE DEF me
  <2>2. CallGood(c, k, endpoint, link, TRUE, None, linkFaults)
    BY <1>2, <1>3, ReadyGood
  <2>3. cached = TRUE
    BY <1>2, <1>4
  <2> HIDE DEF k
  <2>4. CallGood(c, k, endpoint', link', cached', lock', linkFaults')
    BY <1>1, <2>1, <2>2, <2>3
  <2>5. LinkGood(endpoint', link', cached', lock', linkFaults')
    BY <1>1, <1>2, <2>1
  <2>6. /\ cached' \in BOOLEAN /\ (cached => cached') /\ linkFaults' \in Nat
        /\ linkFaults <= linkFaults' /\ lock' \in Callers \union {None}
    BY <1>1, <1>2, <2>1
  <2> QED BY <1>1, <1>2, <2>1, <2>4, <2>5, <2>6, OneCaller
<1>5. CASE ~cached
  <2> DEFINE k == [me EXCEPT !.pc = "list"]
  <2>1. client' = [client EXCEPT ![c] = k] /\ lock' = c
    BY <1>1, <1>5 DEF Ensure, Goto
  <2> HIDE DEF me
  <2>2. k \in CallRecords /\ k.pc = "list" /\ k.selector = me.selector
    BY <1>2, TurnTyped DEF Holding
  <2>3. link = None
    BY <1>1, <1>2, <1>5 DEF LinkGood
  <2> HIDE DEF k
  <2>4. CallGood(c, k, endpoint, link, cached, c, linkFaults)
    BY <1>3, <1>5, <2>2, <2>3 DEF CallGood, Holding
  <2>5. LinkGood(endpoint, link, cached, c, linkFaults)
    BY <1>5, <2>3 DEF LinkGood
  <2>6. CallGood(c, k, endpoint', link', cached', lock', linkFaults')
    BY <1>1, <2>1, <2>4
  <2>7. LinkGood(endpoint', link', cached', lock', linkFaults')
    BY <1>1, <2>1, <2>5
  <2>8. /\ cached' \in BOOLEAN /\ (cached => cached') /\ linkFaults' \in Nat
        /\ linkFaults <= linkFaults' /\ lock' \in Callers \union {None}
    BY <1>1, <1>2, <2>1
  <2> QED BY <1>1, <1>2, <2>1, <2>6, <2>7, <2>8, OneCaller
<1> QED BY <1>4, <1>5

\* The step of the caller that holds the lock.
LEMMA HolderKeeps ==
  ASSUME BridgeConstants, BridgeInv, NEW c \in Callers, client[c].pc \in Holding,
         NEW k, client' = [client EXCEPT ![c] = k], endpoint' = endpoint,
         linkFaults' \in Nat, linkFaults <= linkFaults', lock' \in {c, None},
         cached' \in BOOLEAN, linkFaults' = 0 /\ cached => cached',
         CallGood(c, k, endpoint, link', cached', lock', linkFaults'),
         LinkGood(endpoint, link', cached', lock', linkFaults')
  PROVE  BridgeInv'
<1>1. lock = c
  BY Mine
<1>2. lock' \in Callers \union {None}
  OBVIOUS
<1> QED BY <1>1, <1>2, OneCaller

\* It gives up: it is answered in words, and the lock is free.
LEMMA GiveUpKeeps ==
  ASSUME BridgeConstants, BridgeInv, NEW c \in Callers, client[c].pc \in Holding,
         NEW how \in Words, GiveUp(c, how), endpoint' = endpoint,
         linkFaults' \in Nat, linkFaults <= linkFaults',
         linkFaults' = 0 => Deserved(endpoint, how),
         cached' = FALSE, linkFaults' = 0 => ~cached, link' = None
  PROVE  BridgeInv'
<1> DEFINE k == [NoCall EXCEPT !.pc = "done", !.selector = client[c].selector,
                   !.answer = [how |-> how, of |-> None, from |-> None]]
<1>1. client' = [client EXCEPT ![c] = k] /\ lock' = None
  BY DEF GiveUp, Answered, Goto
<1>2. client[c].selector \in Wanted[c] /\ c # None
  BY Mine DEF CallGood, Holding
<1>3. ASSUME NEW k2, k2 = k
      PROVE  CallGood(c, k2, endpoint, link', cached', lock', linkFaults')
  BY <1>1, <1>2, <1>3, AnsweredGood
<1> HIDE DEF k
<1>4. LinkGood(endpoint, link', cached', lock', linkFaults')
  BY <1>1 DEF LinkGood
<1>5. lock' \in {c, None} /\ cached' \in BOOLEAN
  BY <1>1
<1>6. linkFaults' = 0 /\ cached => cached'
  OBVIOUS
<1>7. CallGood(c, k, endpoint, link', cached', lock', linkFaults')
  BY <1>3
<1> QED BY <1>1, <1>4, <1>5, <1>6, <1>7, HolderKeeps

\* An address is dialled if it is on this machine; the call then is about to connect.
LEMMA DialledKeeps ==
  ASSUME BridgeConstants, BridgeInv, NEW c \in Callers, client[c].pc \in {"list", "version"},
         NEW target \in Targets, linkFaults = 0 => target = ToAttach(endpoint),
         Dialled(c, target), UNCHANGED <<endpoint, link, cached, linkFaults>>
  PROVE  BridgeInv'
<1> DEFINE me == client[c]
<1>1. /\ CallGood(c, me, endpoint, link, cached, lock, linkFaults)
      /\ me \in CallRecords /\ linkFaults \in Nat /\ me.selector \in Wanted[c]
      /\ link = None /\ ~cached /\ cached = FALSE /\ lock = c /\ me.pc \in Holding
      /\ target # None
  BY Mine DEF CallGood, Holding, BridgeConstants
<1>2. CASE target.url = "local"
  <2> DEFINE k == [me EXCEPT !.pc = "connect", !.answer = target]
  <2>1. client' = [client EXCEPT ![c] = k] /\ UNCHANGED lock
    BY <1>2 DEF Dialled, Goto
  <2> HIDE DEF me
  <2>2. /\ k \in CallRecords /\ k.pc = "connect" /\ k.selector = me.selector
        /\ k.answer = target
    BY <1>1 DEF CallRecords, Holding
  <2> HIDE DEF k
  <2>3. CallGood(c, k, endpoint, link, FALSE, c, linkFaults)
    BY <1>1, <1>2, <2>2 DEF CallGood, Holding
  <2>4. LinkGood(endpoint, link, FALSE, c, linkFaults)
    BY <1>1 DEF LinkGood
  <2>5. /\ link' = link /\ lock' = c /\ linkFaults' = linkFaults
        /\ endpoint' = endpoint /\ linkFaults' \in Nat /\ linkFaults <= linkFaults'
        /\ lock' \in {c, None}
    BY <1>1, <2>1
  <2>6. cached' = FALSE /\ cached' \in BOOLEAN /\ ~cached
    BY <1>1
  <2>7. /\ link' = link /\ cached' = FALSE /\ lock' = c /\ linkFaults' = linkFaults
        /\ endpoint' = endpoint /\ linkFaults' \in Nat /\ linkFaults <= linkFaults'
        /\ cached' \in BOOLEAN /\ lock' \in {c, None} /\ ~cached
    BY <2>5, <2>6
  <2>8. /\ CallGood(c, k, endpoint, link', cached', lock', linkFaults')
        /\ LinkGood(endpoint, link', cached', lock', linkFaults')
    BY <2>3, <2>4, <2>7
  <2>9. client[c].pc \in Holding
    BY <1>1 DEF me
  <2> QED BY <2>1, <2>7, <2>8, <2>9, HolderKeeps
<1>3. CASE target.url # "local"
  <2>1. GiveUp(c, "no target")
    BY <1>3 DEF Dialled
  <2>2. linkFaults' = 0 => Deserved(endpoint, "no target")
    BY <1>1, <1>3 DEF Deserved
  <2>3. "no target" \in Words
    BY DEF Words
  <2>4. /\ link' = None /\ cached' = FALSE /\ ~cached /\ linkFaults' = linkFaults
        /\ endpoint' = endpoint /\ linkFaults' \in Nat /\ linkFaults <= linkFaults'
    BY <1>1
  <2> QED BY <1>1, <2>1, <2>2, <2>3, <2>4, GiveUpKeeps
<1> QED BY <1>2, <1>3

\* A fault is counted.
LEMMA FaultCounted ==
  ASSUME BridgeInv, Faulty
  PROVE  linkFaults' = linkFaults + 1 /\ linkFaults' \in Nat \ {0} /\ linkFaults <= linkFaults'
BY DEF BridgeInv, Faulty

\* There is nothing on the list to attach to, or the list did not come: the version is asked
\* for.
LEMMA VersionNext ==
  ASSUME BridgeConstants, BridgeInv, NEW c \in Callers, client[c].pc = "list",
         client' = [client EXCEPT ![c] = [@ EXCEPT !.pc = "version"]],
         UNCHANGED <<endpoint, link, cached, lock>>,
         linkFaults' \in Nat, linkFaults <= linkFaults',
         linkFaults' = 0 => Picked(endpoint.list) = None
  PROVE  BridgeInv'
<1> DEFINE me == client[c]
           k == [me EXCEPT !.pc = "version"]
<1>1. /\ CallGood(c, me, endpoint, link, cached, lock, linkFaults)
      /\ me \in CallRecords /\ linkFaults \in Nat /\ me.selector \in Wanted[c]
      /\ link = None /\ ~cached /\ cached = FALSE /\ lock = c /\ me.pc \in Holding
  BY Mine DEF CallGood, Holding
<1>2. client' = [client EXCEPT ![c] = k]
  OBVIOUS
<1> HIDE DEF me
<1>3. k \in CallRecords /\ k.pc = "version" /\ k.selector = me.selector
  BY <1>1, TurnTyped DEF Holding
<1> HIDE DEF k
<1>4. CallGood(c, k, endpoint, None, FALSE, c, linkFaults')
  BY <1>1, <1>3 DEF CallGood, Holding
<1>5. LinkGood(endpoint, None, FALSE, c, linkFaults')
  BY DEF LinkGood
<1>6. /\ link' = None /\ cached' = FALSE /\ lock' = c /\ endpoint' = endpoint
      /\ cached' \in BOOLEAN /\ lock' \in {c, None} /\ ~cached
  BY <1>1
<1>7. /\ CallGood(c, k, endpoint, link', cached', lock', linkFaults')
      /\ LinkGood(endpoint, link', cached', lock', linkFaults')
  BY <1>4, <1>5, <1>6
<1>8. client[c].pc \in Holding
  BY <1>1 DEF me
<1> QED BY <1>2, <1>6, <1>7, <1>8, HolderKeeps

\* What the list offers first is dialled, or else the version is asked for.
LEMMA ListTargetsKeeps ==
  ASSUME BridgeConstants, BridgeInv, NEW c \in Callers, ListTargets(c)
  PROVE  BridgeInv'
<1> DEFINE target == Picked(endpoint.list)
<1>1. client[c].pc = "list" /\ UNCHANGED <<endpoint, link, cached>>
  BY DEF ListTargets
<1>2. \/ UNCHANGED linkFaults /\ target # None /\ Dialled(c, target)
      \/ /\ UNCHANGED linkFaults /\ target = None /\ UNCHANGED lock
         /\ client' = [client EXCEPT ![c] = [@ EXCEPT !.pc = "version"]]
      \/ /\ Faulty /\ UNCHANGED lock
         /\ client' = [client EXCEPT ![c] = [@ EXCEPT !.pc = "version"]]
  BY DEF ListTargets, Goto
<1>3. linkFaults \in Nat /\ target \in Targets \union {None}
  BY PickedTyped DEF BridgeInv
<1>4. CASE UNCHANGED linkFaults /\ target # None /\ Dialled(c, target)
  <2>1. target \in Targets /\ target = ToAttach(endpoint)
    BY <1>3, <1>4 DEF ToAttach
  <2> QED BY <1>1, <1>4, <2>1, DialledKeeps
<1>5. CASE /\ UNCHANGED linkFaults /\ target = None /\ UNCHANGED lock
           /\ client' = [client EXCEPT ![c] = [@ EXCEPT !.pc = "version"]]
  <2>1. linkFaults' \in Nat /\ linkFaults <= linkFaults'
    BY <1>3, <1>5
  <2> QED BY <1>1, <1>5, <2>1, VersionNext
<1>6. CASE /\ Faulty /\ UNCHANGED lock
           /\ client' = [client EXCEPT ![c] = [@ EXCEPT !.pc = "version"]]
  <2>1. linkFaults' # 0 /\ linkFaults' \in Nat /\ linkFaults <= linkFaults'
    BY <1>6, FaultCounted
  <2> QED BY <1>1, <1>6, <2>1, VersionNext
<1> QED BY <1>2, <1>4, <1>5, <1>6

\* The browser's own address is dialled, or the call gives up.
LEMMA VersionKeeps ==
  ASSUME BridgeConstants, BridgeInv, NEW c \in Callers, Version(c)
  PROVE  BridgeInv'
<1> DEFINE target == endpoint.version
<1>1. client[c].pc = "version" /\ UNCHANGED <<endpoint, link, cached>>
  BY DEF Version
<1>2. /\ linkFaults \in Nat /\ target \in Targets
      /\ CallGood(c, client[c], endpoint, link, cached, lock, linkFaults)
  BY PickedTyped DEF BridgeInv
<1>3. /\ link = None /\ ~cached /\ client[c].pc \in Holding
      /\ Picked(endpoint.list) = None \/ linkFaults # 0
  BY <1>1, <1>2 DEF CallGood, Holding
<1>4. cached' = FALSE /\ link' = None /\ endpoint' = endpoint
  BY <1>1, <1>3 DEF BridgeInv
<1>5. \/ UNCHANGED linkFaults /\ Attachable(target) /\ Dialled(c, target)
      \/ UNCHANGED linkFaults /\ ~Attachable(target) /\ GiveUp(c, "no target")
      \/ Faulty /\ GiveUp(c, "error")
  BY DEF Version
<1>6. CASE UNCHANGED linkFaults /\ Attachable(target) /\ Dialled(c, target)
  <2>1. linkFaults = 0 => target = ToAttach(endpoint)
    BY <1>3 DEF ToAttach
  <2> QED BY <1>1, <1>2, <1>6, <2>1, DialledKeeps
<1>7. CASE UNCHANGED linkFaults /\ ~Attachable(target) /\ GiveUp(c, "no target")
  <2>1. target.url # "local"
    BY <1>7 DEF Attachable, BridgeConstants
  <2>2. "no target" \in Words
    BY DEF Words
  <2>3. linkFaults' \in Nat /\ linkFaults <= linkFaults'
    <3>1. linkFaults' = linkFaults
      BY <1>7
    <3> QED BY <1>2, <3>1
  <2>4. linkFaults' = 0 => Deserved(endpoint, "no target")
    BY <1>3, <1>7, <2>1 DEF Deserved, ToAttach
  <2>5. linkFaults' = 0 => ~cached
    BY <1>3
  <2> HIDE DEF target
  <2> QED BY <1>3, <1>4, <1>7, <2>2, <2>3, <2>4, <2>5, GiveUpKeeps
<1>8. CASE Faulty /\ GiveUp(c, "error")
  <2>1. linkFaults' # 0 /\ linkFaults' \in Nat /\ linkFaults <= linkFaults'
    BY <1>8, FaultCounted
  <2>2. "error" \in Words
    BY DEF Words
  <2> QED BY <1>3, <1>4, <1>8, <2>1, <2>2, GiveUpKeeps
<1> QED BY <1>5, <1>6, <1>7, <1>8

\* A new socket carries one request, which enables the page's events.
LEMMA ConnectKeeps ==
  ASSUME BridgeConstants, BridgeInv, NEW c \in Callers, Connect(c)
  PROVE  BridgeInv'
<1> DEFINE me == client[c]
           to == me.answer
           socket == Sent(Socket(to), None)
<1>1. me.pc = "connect" /\ UNCHANGED <<endpoint, cached>>
  BY DEF Connect
<1>2. /\ CallGood(c, me, endpoint, link, cached, lock, linkFaults)
      /\ me \in CallRecords /\ linkFaults \in Nat /\ me.selector \in Wanted[c]
      /\ link = None /\ ~cached /\ cached = FALSE /\ lock = c /\ me.pc \in Holding
      /\ to \in Targets /\ (linkFaults = 0 => to = ToAttach(endpoint))
      /\ to.url = "local" /\ c # None
  BY <1>1, Mine DEF CallGood, Holding
<1>3. cached' = FALSE /\ cached' \in BOOLEAN /\ ~cached
  BY <1>1, <1>2
<1>4. CASE /\ UNCHANGED <<linkFaults, lock>> /\ link' = socket
           /\ client' = [client EXCEPT ![c] = [@ EXCEPT !.pc = "enabling", !.id = 1,
                                                        !.answer = None]]
  <2> DEFINE k == [me EXCEPT !.pc = "enabling", !.id = 1, !.answer = None]
             m == [id |-> 1, selector |-> None]
  <2>1. Socket(to) \in Sockets /\ Socket(to).next = 1 /\ Quiet(Socket(to))
        /\ Socket(to).target = to /\ Socket(to).inbox = <<>>
    <3>1. Socket(to) = [target |-> to, next |-> 1, asked |-> <<>>, inbox |-> <<>>]
      BY DEF Socket
    <3> QED BY <1>2, <3>1 DEF Sockets, Quiet
  <2>2. m \in Messages
    BY MessagesAre
  <2>3. /\ socket \in Sockets /\ socket.next = 2 /\ socket.target = to /\ Pending(socket, m)
    <3> HIDE DEF to
    <3>1. [id |-> Socket(to).next, selector |-> None] = m
      BY <2>1
    <3> HIDE DEF m
    <3> QED BY <2>1, <2>2, <3>1, RequestSent
  <2>4. socket # None
    BY <2>3 DEF BridgeConstants
  <2>5. client' = [client EXCEPT ![c] = k]
    BY <1>4
  <2> HIDE DEF me, socket, to
  <2>6. /\ k \in CallRecords /\ k.pc = "enabling" /\ k.selector = me.selector /\ k.id = 1
    BY <1>2 DEF CallRecords, Holding
  <2> HIDE DEF k
  <2>7. CallGood(c, k, endpoint, socket, FALSE, c, linkFaults)
    BY <1>2, <2>3, <2>4, <2>6 DEF CallGood, Holding
  <2>8. LinkGood(endpoint, socket, FALSE, c, linkFaults)
    BY <1>2, <2>3 DEF LinkGood
  <2>9. /\ link' = socket /\ lock' = c /\ linkFaults' = linkFaults /\ endpoint' = endpoint
        /\ linkFaults' \in Nat /\ linkFaults <= linkFaults' /\ lock' \in {c, None}
    BY <1>1, <1>2, <1>4
  <2>10. /\ CallGood(c, k, endpoint, link', cached', lock', linkFaults')
         /\ LinkGood(endpoint, link', cached', lock', linkFaults')
    BY <1>3, <2>7, <2>8, <2>9
  <2>11. client[c].pc \in Holding
    BY <1>2 DEF me
  <2> QED BY <1>3, <2>5, <2>9, <2>10, <2>11, HolderKeeps
<1>5. CASE Faulty /\ GiveUp(c, "error") /\ UNCHANGED link
  <2>1. linkFaults' # 0 /\ linkFaults' \in Nat /\ linkFaults <= linkFaults'
    BY <1>5, FaultCounted
  <2>2. "error" \in Words
    BY DEF Words
  <2> QED BY <1>1, <1>2, <1>3, <1>5, <2>1, <2>2, GiveUpKeeps
<1> QED BY <1>4, <1>5 DEF Connect, Goto

\* What a call that waits has under way, unless the browser closed.
LEMMA Waiting ==
  ASSUME BridgeConstants, BridgeInv, NEW c \in Callers,
         client[c].pc \in {"enabling", "waiting"}
  PROVE  /\ link # None /\ link \in Sockets /\ client[c].id \in Nat \ {0}
         /\ cached = (client[c].pc = "waiting")
         /\ link.target.url = "closed" => linkFaults # 0 /\ link.inbox = <<>>
         /\ link.target.url # "closed" =>
              Pending(link, [id |-> client[c].id,
                selector |-> IF client[c].pc = "waiting" THEN client[c].selector ELSE None])
         /\ lock = c /\ client[c].pc \in Holding /\ client[c].selector \in Wanted[c]
<1>1. /\ CallGood(c, client[c], endpoint, link, cached, lock, linkFaults)
      /\ LinkGood(endpoint, link, cached, lock, linkFaults) /\ cached \in BOOLEAN
  BY Mine
<1>2. link # None /\ link \in Sockets
  BY <1>1 DEF CallGood, LinkGood
<1>3. cached <=> client[c].pc = "waiting"
  BY <1>1 DEF CallGood
<1>4. link.target.url = "closed" => linkFaults # 0 /\ link.inbox = <<>>
  BY <1>1, <1>2 DEF LinkGood
<1> QED BY <1>1, <1>2, <1>3, <1>4 DEF CallGood, Holding

\* Its answer ends the making of the connection, which is kept, and frees the lock.
LEMMA EnabledKeeps ==
  ASSUME BridgeConstants, BridgeInv, NEW c \in Callers, Enabled(c)
  PROVE  BridgeInv'
<1> DEFINE me == client[c]
           m == [id |-> me.id, selector |-> None]
           k == IF me.again THEN [me EXCEPT !.pc = "query"]
                ELSE [me EXCEPT !.pc = "ensure", !.again = TRUE]
           read == Tail(link.inbox)
<1>1. /\ me.pc = "enabling" /\ link.inbox # <<>> /\ Head(link.inbox).id = me.id
      /\ link' = [link EXCEPT !.inbox = read] /\ cached' = TRUE /\ lock' = None
      /\ client' = [client EXCEPT ![c] = k] /\ endpoint' = endpoint
      /\ linkFaults' = linkFaults /\ Runtime(link.target)
  BY DEF Enabled, Arrived, Ready, Goto
<1>2. /\ link \in Sockets /\ me.id \in Nat \ {0} /\ me \in CallRecords
      /\ link.target.url # "closed" /\ Pending(link, m) /\ me.pc \in Holding
      /\ me.selector \in Wanted[c] /\ linkFaults \in Nat /\ c # None
      /\ LinkGood(endpoint, link, cached, lock, linkFaults)
  BY <1>1, Waiting, Mine
<1>3. /\ link' \in Sockets /\ link'.target = link.target /\ link'.next = link.next
      /\ link'.asked = link.asked /\ link'.inbox = read
  <2>1. read \in Seq(Messages)
    BY <1>1, <1>2, SocketTyped
  <2> HIDE DEF read
  <2> QED BY <1>1, <1>2, <2>1 DEF Sockets
<1>4. Quiet(link') /\ link' # None
  <2>1. Quiet(link')
    <3>1. m.id = me.id /\ m.id # 0
      BY <1>2
    <3> HIDE DEF m
    <3> QED BY <1>1, <1>2, <1>3, <3>1, MessageRead
  <2> QED BY <1>3, <2>1 DEF BridgeConstants
<1>5. LinkGood(endpoint, link', TRUE, None, linkFaults)
  BY <1>1, <1>2, <1>3, <1>4 DEF LinkGood, BridgeConstants
<1>6. CallGood(c, k, endpoint, link', TRUE, None, linkFaults)
  <2> HIDE DEF me
  <2> QED BY <1>2, ReadyGood
<1> HIDE DEF k
<1>7. /\ CallGood(c, k, endpoint, link', cached', lock', linkFaults')
      /\ LinkGood(endpoint, link', cached', lock', linkFaults')
  BY <1>1, <1>5, <1>6
<1>8. /\ linkFaults' \in Nat /\ linkFaults <= linkFaults' /\ lock' \in {c, None}
  BY <1>1, <1>2
<1>9. cached' \in BOOLEAN /\ (linkFaults' = 0 /\ cached => cached')
  BY <1>1
<1> QED BY <1>1, <1>2, <1>7, <1>8, <1>9, HolderKeeps

\* The question goes out under the lock, on a socket with nothing under way; without
\* a connection something has failed since it was ensured.
LEMMA QueryKeeps ==
  ASSUME BridgeConstants, BridgeInv, NEW c \in Callers, Query(c)
  PROVE  BridgeInv'
<1> DEFINE me == client[c]
<1>1. me.pc = "query" /\ lock = None /\ UNCHANGED <<endpoint, cached, linkFaults>>
  BY DEF Query
<1>2. /\ CallGood(c, me, endpoint, link, cached, lock, linkFaults)
      /\ LinkGood(endpoint, link, cached, lock, linkFaults)
      /\ me \in CallRecords /\ linkFaults \in Nat /\ cached \in BOOLEAN /\ c # None
  BY Mine
<1>3. me.selector \in Wanted[c] /\ (linkFaults = 0 => cached)
  BY <1>1, <1>2 DEF CallGood
<1>4. /\ linkFaults' \in Nat /\ linkFaults <= linkFaults' /\ cached' \in BOOLEAN
      /\ cached => cached'
  BY <1>1, <1>2
<1>5. CASE cached
  <2> DEFINE k == [me EXCEPT !.pc = "waiting", !.id = link.next]
             socket == Sent(link, me.selector)
             m == [id |-> link.next, selector |-> me.selector]
  <2>1. link' = socket /\ lock' = c /\ client' = [client EXCEPT ![c] = k]
    BY <1>5 DEF Query, Goto
  <2>2. link # None /\ link \in Sockets /\ Quiet(link) /\ link.next \in Nat \ {0}
    <3>1. link # None
      BY <1>2, <1>5 DEF LinkGood
    <3>2. link \in Sockets /\ Quiet(link) /\ link.next # 0
      BY <1>1, <1>2, <3>1 DEF LinkGood
    <3> QED BY <3>1, <3>2, SocketTyped
  <2>3. m \in Messages
    BY <1>3, <2>2, MessagesAre
  <2>4. /\ socket \in Sockets /\ socket.next = link.next + 1 /\ socket.target = link.target
        /\ socket.inbox = link.inbox /\ Pending(socket, m)
    BY <2>2, <2>3, RequestSent
  <2>5. socket # None /\ socket.next # 0
    <3>1. socket.next # 0
      BY <2>2, <2>4
    <3> QED BY <2>4, <3>1 DEF BridgeConstants
  <2> HIDE DEF me, socket
  <2>6. /\ k \in CallRecords /\ k.pc = "waiting" /\ k.selector = me.selector
        /\ k.id = link.next
    BY <1>2, <2>2 DEF CallRecords, Holding
  <2> HIDE DEF k
  <2>7. CallGood(c, k, endpoint, socket, TRUE, c, linkFaults)
    BY <1>3, <2>2, <2>4, <2>5, <2>6 DEF CallGood, Holding
  <2>8. LinkGood(endpoint, socket, TRUE, c, linkFaults)
    BY <1>2, <1>5, <2>2, <2>4, <2>5 DEF LinkGood
  <2>9. cached' = TRUE
    BY <1>1, <1>2, <1>5
  <2>10. /\ CallGood(c, k, endpoint', link', cached', lock', linkFaults')
         /\ LinkGood(endpoint', link', cached', lock', linkFaults')
    BY <1>1, <2>1, <2>7, <2>8, <2>9
  <2>11. lock' \in {c, None} /\ lock' \in Callers \union {None} /\ lock' # lock
    BY <1>1, <1>2, <2>1
  <2> QED BY <1>1, <1>4, <2>1, <2>10, <2>11, OneCaller
<1>6. CASE ~cached
  <2> DEFINE k == [NoCall EXCEPT !.pc = "done", !.selector = me.selector,
                     !.answer = [how |-> "unavailable", of |-> None, from |-> None]]
  <2>1. link' = link /\ lock' = None /\ client' = [client EXCEPT ![c] = k]
    BY <1>1, <1>6 DEF Query, Answered, Goto
  <2>2. "unavailable" \in Words /\ linkFaults # 0
    BY <1>3, <1>6 DEF Words
  <2>3. ASSUME NEW k2, k2 = k
        PROVE  CallGood(c, k2, endpoint, link, FALSE, None, linkFaults)
    BY <1>2, <1>3, <2>2, <2>3, AnsweredGood
  <2>4. CallGood(c, k, endpoint, link, FALSE, None, linkFaults)
    BY <2>3
  <2> HIDE DEF k, me
  <2>5. cached' = FALSE /\ cached = FALSE
    BY <1>1, <1>2, <1>6
  <2>6. CallGood(c, k, endpoint', link', cached', lock', linkFaults')
    BY <1>1, <2>1, <2>4, <2>5
  <2>7. LinkGood(endpoint', link', cached', lock', linkFaults')
    BY <1>1, <1>2, <2>1, <2>5
  <2>8. lock' \in {c, None} /\ lock' \in Callers \union {None}
    BY <2>1
  <2> QED BY <1>1, <1>4, <2>1, <2>6, <2>7, <2>8, OneCaller
<1> QED BY <1>5, <1>6

\* An event is read past; the answer is still to come.
LEMMA SkipKeeps ==
  ASSUME BridgeConstants, BridgeInv, NEW c \in Callers, Skip(c)
  PROVE  BridgeInv'
<1> DEFINE me == client[c]
           m == [id |-> me.id, selector |-> IF me.pc = "waiting" THEN me.selector ELSE None]
           read == Tail(link.inbox)
<1>1. /\ me.pc \in {"enabling", "waiting"} /\ link.inbox # <<>>
      /\ Head(link.inbox).id # me.id /\ link' = [link EXCEPT !.inbox = read]
      /\ UNCHANGED <<endpoint, cached, lock, client, linkFaults>>
  BY DEF Skip
<1>2. /\ link \in Sockets /\ me.id \in Nat \ {0} /\ link.target.url # "closed"
      /\ Pending(link, m) /\ me.pc \in Holding /\ lock = c
      /\ cached = (me.pc = "waiting") /\ link # None
  BY <1>1, Waiting
<1>3. /\ CallGood(c, me, endpoint, link, cached, lock, linkFaults)
      /\ LinkGood(endpoint, link, cached, lock, linkFaults)
      /\ linkFaults \in Nat /\ cached \in BOOLEAN /\ c # None
  BY Mine
<1>4. /\ link' \in Sockets /\ link'.target = link.target /\ link'.next = link.next
      /\ link'.asked = link.asked /\ link'.inbox = read
  <2>1. read \in Seq(Messages)
    BY <1>1, <1>2, SocketTyped
  <2> HIDE DEF read
  <2> QED BY <1>1, <1>2, <2>1 DEF Sockets
<1>5. Pending(link', m)
  <2>1. m.id = me.id /\ m.id # 0
    BY <1>2
  <2> HIDE DEF m
  <2> QED BY <1>1, <1>2, <1>4, <2>1, MessageRead
<1>6. link' # None
  BY <1>4 DEF BridgeConstants
<1>7. LinkGood(endpoint, link', cached, lock, linkFaults)
  BY <1>2, <1>3, <1>4, <1>6 DEF LinkGood
<1>8. CallGood(c, me, endpoint, link', cached, lock, linkFaults)
  <2> HIDE DEF me
  <2> QED BY <1>1, <1>3, <1>4, <1>5, <1>6 DEF CallGood, Holding
<1>9. client' = [client EXCEPT ![c] = me]
  BY <1>1 DEF BridgeInv
<1> HIDE DEF me
<1>10. /\ CallGood(c, me, endpoint, link', cached', lock', linkFaults')
       /\ LinkGood(endpoint, link', cached', lock', linkFaults')
  BY <1>1, <1>7, <1>8
<1>11. /\ linkFaults' \in Nat /\ linkFaults <= linkFaults' /\ lock' \in {c, None}
       /\ endpoint' = endpoint
  BY <1>1, <1>2, <1>3
<1>12. cached' \in BOOLEAN /\ (linkFaults' = 0 /\ cached => cached')
  BY <1>1, <1>3
<1>13. client[c].pc \in Holding
  BY <1>2 DEF me
<1> QED BY <1>9, <1>10, <1>11, <1>12, <1>13, HolderKeeps

\* The reply read is the caller's own, from the target that was attached to.
LEMMA RepliedKeeps ==
  ASSUME BridgeConstants, BridgeInv, NEW c \in Callers, Replied(c)
  PROVE  BridgeInv'
<1> DEFINE me == client[c]
           m == [id |-> me.id, selector |-> me.selector]
           read == Tail(link.inbox)
           reply == Head(link.inbox)
           a == [how |-> Pages[reply.selector], of |-> reply.selector, from |-> link.target]
           k == [NoCall EXCEPT !.pc = "done", !.selector = me.selector, !.answer = a]
<1>1. /\ me.pc = "waiting" /\ link.inbox # <<>> /\ reply.id = me.id
      /\ link' = [link EXCEPT !.inbox = read] /\ lock' = None
      /\ client' = [client EXCEPT ![c] = k]
      /\ UNCHANGED <<endpoint, cached, linkFaults>>
  BY DEF Replied, Arrived, Goto
<1>2. /\ link \in Sockets /\ me.id \in Nat \ {0} /\ link.target.url # "closed"
      /\ Pending(link, m) /\ me.pc \in Holding /\ cached = TRUE
      /\ me.selector \in Wanted[c]
  BY <1>1, Waiting
<1>3. /\ LinkGood(endpoint, link, cached, lock, linkFaults)
      /\ linkFaults \in Nat /\ c # None /\ link # None
  BY <1>1, Mine, Waiting
<1>4. /\ link' \in Sockets /\ link'.target = link.target /\ link'.next = link.next
      /\ link'.asked = link.asked /\ link'.inbox = read
  <2>1. read \in Seq(Messages)
    BY <1>1, <1>2, SocketTyped
  <2> HIDE DEF read
  <2> QED BY <1>1, <1>2, <2>1 DEF Sockets
<1>5. Quiet(link') /\ reply.selector = me.selector
  <2>1. m.id = me.id /\ m.id # 0 /\ m.selector = me.selector
    BY <1>2
  <2>2. link.inbox # <<>> /\ Head(link.inbox).id = m.id /\ link'.inbox = Tail(link.inbox)
    BY <1>1, <1>4, <2>1
  <2> HIDE DEF m, read, reply, k
  <2>3. Head(link.inbox) = m /\ Quiet(link')
    BY <1>2, <1>4, <2>1, <2>2, MessageRead
  <2> QED BY <2>1, <2>3 DEF reply
<1>6. link' # None
  BY <1>4 DEF BridgeConstants
<1>7. LinkGood(endpoint, link', TRUE, None, linkFaults)
  BY <1>2, <1>3, <1>4, <1>5, <1>6 DEF LinkGood
<1>8. /\ a \in Answers /\ a.of = me.selector /\ a.from = link.target
      /\ a.how \in {"hit", "miss", "throws", "refused"}
  <2>1. Pages[reply.selector] \in {"hit", "miss", "throws", "refused"}
    BY <1>2, <1>5 DEF BridgeConstants
  <2>2. me.selector \in Selectors
    BY <1>2, MessagesAre
  <2>3. link.target \in Targets \union {Closed(t): t \in Targets}
    BY <1>2, SocketTyped
  <2> QED BY <1>5, <2>1, <2>2, <2>3 DEF Answers, Words
<1>9. /\ link.target.url \in {"local", "closed"} /\ Runtime(link.target)
      /\ linkFaults = 0 => link.target = ToAttach(endpoint)
  BY <1>2, <1>3 DEF LinkGood
<1>10. CallGood(c, k, endpoint, link', TRUE, None, linkFaults)
  <2> HIDE DEF a, me
  <2>1. me.selector \in Selectors /\ None \in Selectors
    BY <1>2, MessagesAre
  <2>2. NoCall \in CallRecords
    BY <2>1 DEF NoCall, CallRecords
  <2>3. k \in CallRecords /\ k.pc = "done" /\ k.selector = me.selector /\ k.answer = a
    BY <1>8, <2>1, <2>2 DEF CallRecords
  <2> HIDE DEF k
  <2>4. Told(k, endpoint, linkFaults)
    BY <1>8, <1>9, <2>3 DEF Told, Deserved
  <2> QED BY <1>2, <1>3, <2>3, <2>4 DEF CallGood, Holding
<1> HIDE DEF k
<1>11. cached' = TRUE
  BY <1>1, <1>2
<1>12. /\ CallGood(c, k, endpoint, link', cached', lock', linkFaults')
       /\ LinkGood(endpoint, link', cached', lock', linkFaults')
  BY <1>1, <1>7, <1>10, <1>11
<1>13. /\ linkFaults' \in Nat /\ linkFaults <= linkFaults' /\ lock' \in {c, None}
       /\ endpoint' = endpoint
  BY <1>1, <1>3
<1> QED BY <1>1, <1>2, <1>11, <1>12, <1>13, HolderKeeps

\* A wait that fails drops the connection and frees the lock.
LEMMA WaitFailsKeeps ==
  ASSUME BridgeConstants, BridgeInv, NEW c \in Callers, WaitFails(c)
  PROVE  BridgeInv'
<1>1. /\ client[c].pc \in {"enabling", "waiting"} /\ Faulty /\ link' = None /\ cached' = FALSE
      /\ GiveUp(c, "error") /\ endpoint' = endpoint
  BY DEF WaitFails, Dropped
<1>2. linkFaults' # 0 /\ linkFaults' \in Nat /\ linkFaults <= linkFaults'
  BY <1>1, FaultCounted
<1>3. "error" \in Words
  BY DEF Words
<1> QED BY <1>1, <1>2, <1>3, GiveUpKeeps DEF Holding

\* So does a reply that is an error: there is no page at the other end, or the page failed.
LEMMA RefusedKeeps ==
  ASSUME BridgeConstants, BridgeInv, NEW c \in Callers, Refused(c)
  PROVE  BridgeInv'
<1>1. /\ client[c].pc \in {"enabling", "waiting"} /\ link.inbox # <<>>
      /\ link' = None /\ cached' = FALSE
      /\ GiveUp(c, "error") /\ endpoint' = endpoint
  BY DEF Refused, Arrived, Dropped
<1>2. /\ link # None /\ cached = (client[c].pc = "waiting")
      /\ LinkGood(endpoint, link, cached, lock, linkFaults) /\ linkFaults \in Nat
      /\ link.target.url # "closed" /\ client[c].pc \in Holding
  BY <1>1, Waiting, Mine
<1>3. /\ linkFaults' \in Nat /\ linkFaults <= linkFaults'
      /\ linkFaults' = 0 => Deserved(endpoint, "error") /\ ~cached
  <2>1. CASE client[c].pc = "enabling" /\ ~Runtime(link.target) /\ UNCHANGED linkFaults
    <3>1. linkFaults = 0 => link.target = ToAttach(endpoint)
      BY <1>2 DEF LinkGood
    <3>2. link.target.url = "local"
      BY <1>2 DEF LinkGood
    <3>3. linkFaults = 0 => Deserved(endpoint, "error")
      BY <2>1, <3>1, <3>2 DEF Deserved
    <3>4. ~cached
      BY <1>2, <2>1
    <3>5. linkFaults' = linkFaults
      BY <2>1
    <3> QED BY <1>2, <3>3, <3>4, <3>5
  <2>2. CASE Faulty
    BY <2>2, FaultCounted
  <2> QED BY <2>1, <2>2 DEF Refused
<1>4. "error" \in Words
  BY DEF Words
<1> QED BY <1>1, <1>2, <1>3, <1>4, GiveUpKeeps

\* So does one that finds the connection closed.
LEMMA FoundClosedKeeps ==
  ASSUME BridgeConstants, BridgeInv, NEW c \in Callers, FoundClosed(c)
  PROVE  BridgeInv'
<1>1. /\ client[c].pc \in {"enabling", "waiting"} /\ link.target.url = "closed"
      /\ link' = None /\ cached' = FALSE
      /\ GiveUp(c, "error") /\ UNCHANGED <<endpoint, linkFaults>>
  BY DEF FoundClosed, Dropped
<1>2. linkFaults # 0 /\ linkFaults \in Nat
  BY <1>1, Mine, Waiting
<1>3. linkFaults' # 0 /\ linkFaults' \in Nat /\ linkFaults <= linkFaults'
  BY <1>1, <1>2
<1>4. "error" \in Words
  BY DEF Words
<1> QED BY <1>1, <1>3, <1>4, GiveUpKeeps DEF Holding

-----------------------------------------------------------------------------
(* The bridge *)

\* At first there is no connection and no call.
LEMMA BridgeInvInit ==
  ASSUME BridgeConstants, BridgeInit
  PROVE  BridgeInv
<1>1. /\ endpoint \in Endpoints /\ linkFaults = 0 /\ lock = None /\ cached = FALSE
      /\ link = None /\ client = [c \in Callers |-> NoCall]
  BY DEF BridgeInit
<1>2. LinkGood(endpoint, link, cached, lock, linkFaults)
  BY <1>1 DEF LinkGood
<1>3. ASSUME NEW c \in Callers
      PROVE  CallGood(c, client[c], endpoint, link, cached, lock, linkFaults)
  <2>1. client[c] = NoCall /\ c # None
    BY <1>1 DEF BridgeConstants
  <2>2. None \in Selectors
    BY MessagesAre
  <2>3. NoCall \in CallRecords /\ NoCall.pc = "idle"
    BY <2>2 DEF NoCall, CallRecords
  <2> QED BY <1>1, <2>1, <2>3 DEF CallGood, Holding
<1> QED BY <1>1, <1>2, <1>3 DEF BridgeInv

\* Every step of the browser and of the calls keeps the invariant.
LEMMA BridgeInvNext ==
  ASSUME BridgeConstants, BridgeInv, [BridgeNext]_bridgeVars
  PROVE  BridgeInv'
<1>1. CASE Serve /\ link.target.url # "closed"
  BY <1>1, ServeKeeps
<1>2. CASE Push /\ link.target.url # "closed"
  BY <1>2, PushKeeps
<1>3. CASE Hangup
  BY <1>3, HangupKeeps
<1>4. ASSUME NEW c \in Callers, Begin(c) \/ Attach(c) \/ Query(c) \/ Read(c)
      PROVE  BridgeInv'
  <2>1. CASE Begin(c)
    BY <2>1, BeginKeeps
  <2>2. CASE Attach(c)
    BY <2>2, EnsureKeeps, ListTargetsKeeps, VersionKeeps, ConnectKeeps, EnabledKeeps
       DEF Attach
  <2>3. CASE Query(c)
    BY <2>3, QueryKeeps
  <2>4. CASE Read(c)
    BY <2>4, SkipKeeps, RepliedKeeps, RefusedKeeps, WaitFailsKeeps, FoundClosedKeeps DEF Read
  <2> QED BY <1>4, <2>1, <2>2, <2>3, <2>4
<1>5. CASE UNCHANGED bridgeVars
  BY <1>5 DEF bridgeVars, BridgeInv
<1> QED BY <1>1, <1>2, <1>3, <1>4, <1>5 DEF BridgeNext

\* A request under way is among what the browser has yet to answer and what is to be read.
LEMMA PendingFound ==
  ASSUME NEW l \in Sockets, NEW m, Pending(l, m)
  PROVE  \E i \in DOMAIN (l.asked \o l.inbox): (l.asked \o l.inbox)[i].id = m.id
<1> DEFINE a == l.asked
           b == l.inbox
           s == a \o b
<1>1. a \in Seq(Messages) /\ b \in Seq(Messages)
  BY SocketTyped
<1>2. a = <<m>> \/ (a = <<>> /\ \E i \in DOMAIN b: b[i] = m)
  BY DEF Pending
<1> HIDE DEF a, b
<1>3. CASE a = <<m>>
  <2>1. 1 \in DOMAIN s /\ s[1] = m
    BY <1>1, <1>3
  <2> QED BY <2>1 DEF a, b
<1>4. ASSUME a = <<>>, NEW i \in DOMAIN b, b[i] = m
      PROVE  \E j \in DOMAIN s: s[j].id = m.id
  <2>1. s = b
    BY <1>1, <1>4
  <2> HIDE DEF s
  <2> QED BY <1>4, <2>1
<1> QED BY <1>2, <1>3, <1>4 DEF a, b

\* The invariant says what is told to the callers.
LEMMA BridgeInvTrue ==
  ASSUME BridgeConstants, BridgeInv
  PROVE  BrowserTrue
<1>1. ASSUME NEW c \in Callers, client[c].pc = "done"
      PROVE  Told(client[c], endpoint, linkFaults)
  BY <1>1 DEF BridgeInv, CallGood
<1>2. LinkGood(endpoint, link, cached, lock, linkFaults)
  BY DEF BridgeInv
<1>3. ASSUME NEW c \in Callers, client[c].pc \in {"enabling", "waiting"},
             link.target.url # "closed"
      PROVE  \E i \in DOMAIN (link.asked \o link.inbox):
               (link.asked \o link.inbox)[i].id = client[c].id
  <2> DEFINE m == [id |-> client[c].id,
                   selector |-> IF client[c].pc = "waiting" THEN client[c].selector ELSE None]
  <2>1. link \in Sockets /\ Pending(link, m) /\ m.id = client[c].id
    BY <1>3, Waiting
  <2> HIDE DEF m
  <2>2. \E i \in DOMAIN (link.asked \o link.inbox): (link.asked \o link.inbox)[i].id = m.id
    <3> DEFINE l == link
    <3>1. l \in Sockets /\ Pending(l, m)
      BY <2>1
    <3> HIDE DEF l
    <3>2. \E i \in DOMAIN (l.asked \o l.inbox): (l.asked \o l.inbox)[i].id = m.id
      BY <3>1, PendingFound, Zenon
    <3> QED BY <3>2 DEF l
  <2> QED BY <2>1, <2>2, Zenon
<1>4. /\ link # None => link.target.url \in {"local", "closed"}
      /\ cached => link # None
      /\ (lock = None /\ link # None) => cached /\ link.asked = <<>>
  BY <1>2 DEF LinkGood, Quiet
<1>5. ASSUME NEW c \in Callers, client[c].pc = "done"
      PROVE  LET a == client[c].answer
                 t == ToAttach(endpoint)
             IN
             /\ a.of # None => /\ a.of = client[c].selector /\ Runtime(a.from)
                               /\ a.from.url \in {"local", "closed"}
                               /\ linkFaults = 0 => a.from = t
             /\ linkFaults = 0 => /\ a.how # "unavailable"
                                  /\ a.how = "error" => t.url = "local" /\ ~Runtime(t)
                                  /\ a.how = "no target" => t.url # "local"
  BY <1>1, <1>5 DEF Told, Deserved
<1> QED BY <1>3, <1>4, <1>5 DEF BrowserTrue

\* Every answer of web_query is its own question's, from a target on this machine, and a
\* failed connection is dropped before the next call (CdpBrowserProvider,
\* providers/cdp_browser.rs), for any number of callers and any browser.
THEOREM BridgeSound == BridgeSpec => []BrowserTrue
<1>1. BridgeInit => BridgeInv
  BY BridgeAssumption, BridgeInvInit
<1>2. BridgeInv /\ [BridgeNext]_bridgeVars => BridgeInv'
  BY BridgeAssumption, BridgeInvNext
<1>3. BridgeInv => BrowserTrue
  BY BridgeAssumption, BridgeInvTrue
<1> QED BY <1>1, <1>2, <1>3, PTL DEF BridgeSpec
=============================================================================
