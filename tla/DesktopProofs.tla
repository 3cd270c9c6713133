--------------------------- MODULE DesktopProofs ----------------------------
(***************************************************************************)
(* Proofs about PortalSession, for any number of calls of every kind, any  *)
(* number of connections' handshakes at once, and any bounds; about        *)
(* ClipboardHelpers, for any clients, requests and contents; about         *)
(* WindowBackends, for any windows, calls, changes and failures; about     *)
(* InputDevice, for any calls, layout, outputs, changes of the focus and   *)
(* failing operations, over every provider; about DetectionLadder, for any *)
(* environments and back ends; and about HighlightOverlay, for any outputs *)
(* and requests and whatever the compositor takes away.                    *)
(***************************************************************************)
EXTENDS PortalSession, ClipboardHelpers, WindowBackends, InputDevice, DetectionLadder,
        HighlightOverlay, DataLemmas

-----------------------------------------------------------------------------
(* The invariant *)

Kinds == {"input", "capture", "shot", "hold"}
Names == {"CreateSession", "SelectDevices", "SelectSources", "Start",
          "OpenPipeWireRemote", "Screenshot"}
Numbers == Nat \union {None}
Messages == [of: Nat, code: 0..1, session: Numbers]
FlowType ==
  [pc: {"idle", "lock", "step", "await", "use", "close"}, step: 1..4, request: Numbers,
   session: Numbers, inbox: SUBSET Messages, tries: 0..1, dialogs: Nat, unclosed: BOOLEAN,
   result: {"none", "ok", "error"}]
RequestType ==
  [from: Flows, step: Names, of: Numbers, state: {"open", "granted", "refused", "gone"}]
PortalSessions == [from: Flows, request: Nat, consented: BOOLEAN, open: BOOLEAN]

TypeOK ==
  /\ flow \in [Flows -> FlowType]
  /\ owner \in Flows \union {None}
  /\ session \in Numbers
  /\ requests \in Seq(RequestType)
  /\ sessions \in Seq(PortalSessions)
  /\ turns \in [Flows -> Nat]
  /\ breaks \in Nat

\* The n-th step of the handshake of a call.
Nth(f, n) == Steps(f)[n]

\* A request asks for a step of its caller's handshake; a dialog is about a
\* session, which has the user's consent once the dialog is granted.
RequestGood(r, ss) ==
  /\ \E n \in 1..Len(Steps(r.from)): r.step = Nth(r.from, n)
  /\ r.step # "OpenPipeWireRemote"
  /\ r.step = "Start" => r.of \in DOMAIN ss
  /\ r.step = "Start" /\ r.state = "granted" => ss[r.of].consented

\* A session was created by a granted request of its own caller; those of the
\* input provider are never closed.
SessionGood(s, rs) ==
  /\ s.request \in DOMAIN rs
  /\ rs[s.request].from = s.from
  /\ rs[s.request].step = "CreateSession" /\ rs[s.request].state = "granted"
  /\ Kind[s.from] = "input" => s.open

\* What the input provider keeps may be used.
KeptGood(k, ss) ==
  k # None => /\ k \in DOMAIN ss
              /\ ss[k].consented /\ ss[k].open /\ Kind[ss[k].from] = "input"

\* The session a call knows.
KnownGood(f, u, ss) ==
  /\ u.session # None =>
       /\ u.session \in DOMAIN ss
       /\ SameConnection(f, ss[u.session].from)
       /\ Kind[f] # "input" => ss[u.session].from = f
       /\ u.pc \in {"step", "await", "use", "close"} => ss[u.session].open
  /\ u.pc \in {"step", "await"} /\ u.step > 1 => u.session # None
  /\ u.pc = "use" /\ Kind[f] # "shot" => u.session # None
  /\ \/ u.pc = "use" /\ Kind[f] # "shot"
     \/ u.pc = "step" /\ Nth(f, u.step) = "OpenPipeWireRemote"
     => ss[u.session].consented

\* The request a call waits for; its session, if that is what it asks for, is
\* nobody else's to close.
WaitGood(f, u, rs, ss) ==
  u.pc = "await" =>
    /\ u.request \in DOMAIN rs
    /\ rs[u.request].from = f
    /\ rs[u.request].step = Nth(f, u.step)
    /\ rs[u.request].of = u.session
    /\ \A j \in DOMAIN ss: ss[j].request = u.request => ss[j].open

\* An answer a call has seen is what the portal did with the request it names.
AnswerGood(a, rs, ss) ==
  /\ a.of \in DOMAIN rs
  /\ a.code = 0 => rs[a.of].state = "granted"
  /\ a.code = 0 /\ rs[a.of].step = "CreateSession" =>
       a.session \in DOMAIN ss /\ ss[a.session].request = a.of
  /\ a.code = 0 /\ rs[a.of].step # "CreateSession" => a.session = None

\* A call asks for consent once in a handshake, and makes two of them at most.
DialogsGood(f, u) ==
  /\ u.step \in 1..Len(Steps(f))
  /\ u.dialogs <= 1 + u.tries
  /\ u.pc = "lock" => u.step = 1 /\ Kind[f] = "input"
  /\ \/ u.pc \in {"lock", "step"} /\ \A n \in 1..(u.step - 1): Nth(f, n) # "Start"
     \/ u.pc = "await" /\ \A n \in 1..u.step: Nth(f, n) # "Start"
     => u.dialogs <= u.tries
  /\ u.pc = "close" => Kind[f] \in {"capture", "hold"}

\* What a call that is over has left behind.
LeftGood(f, u, rs, ss) ==
  u.pc = "idle" =>
    /\ \A j \in DOMAIN ss: ss[j].from = f /\ ss[j].open =>
         \/ Kind[f] = "input"
         \/ Kind[f] = "capture" /\ (u.session # j \/ u.unclosed)
    /\ Kind[f] = "hold" => \A i \in DOMAIN rs: rs[i].from = f => rs[i].state # "open"

FlowGood(f, u, rs, ss) ==
  /\ KnownGood(f, u, ss)
  /\ WaitGood(f, u, rs, ss)
  /\ \A a \in u.inbox: AnswerGood(a, rs, ss)
  /\ DialogsGood(f, u)
  /\ LeftGood(f, u, rs, ss)

WorldGood(rs, ss) ==
  /\ \A i \in DOMAIN rs: RequestGood(rs[i], ss)
  /\ \A j \in DOMAIN ss: SessionGood(ss[j], rs)

PortalInv ==
  /\ TypeOK
  /\ WorldGood(requests, sessions)
  /\ KeptGood(session, sessions)
  /\ \A f \in Flows: FlowGood(f, flow[f], requests, sessions)

-----------------------------------------------------------------------------
(* The handshakes *)

\* What Steps(f) says of its caller's kind: where a session is made, where the
\* user is asked, and what comes after.
LEMMA StepsKnown ==
  ASSUME PortalConstants, NEW f \in Flows
  PROVE  /\ Kind[f] \in Kinds
         /\ Len(Steps(f)) \in 1..4
         /\ \A n \in 1..Len(Steps(f)): Nth(f, n) \in Names
         /\ \A n \in 1..Len(Steps(f)): Nth(f, n) = "CreateSession" => n = 1
         /\ Kind[f] # "shot" => Len(Steps(f)) = 4 /\ Nth(f, 1) = "CreateSession"
         /\ Kind[f] = "shot" => Len(Steps(f)) = 1 /\ Nth(f, 1) = "Screenshot"
         /\ Kind[f] = "input" => Nth(f, 4) = "Start" /\ Nth(f, 3) = "SelectSources"
                                 /\ Nth(f, 2) = "SelectDevices"
         /\ Kind[f] \in {"capture", "hold"} =>
              Nth(f, 4) = "OpenPipeWireRemote" /\ Nth(f, 3) = "Start"
              /\ Nth(f, 2) = "SelectSources"
<1>1. Kind[f] \in Kinds
  BY DEF PortalConstants, Kinds
<1>2. CASE Kind[f] = "input"
  <2>1. Steps(f) = <<"CreateSession", "SelectDevices", "SelectSources", "Start">>
    BY <1>2 DEF Steps
  <2> QED BY <1>2, <2>1 DEF Nth, Names, Kinds
<1>3. CASE Kind[f] \in {"capture", "hold"}
  <2>1. Steps(f) = <<"CreateSession", "SelectSources", "Start", "OpenPipeWireRemote">>
    BY <1>3 DEF Steps
  <2> QED BY <1>3, <2>1 DEF Nth, Names, Kinds
<1>4. CASE Kind[f] = "shot"
  <2>1. Steps(f) = <<"Screenshot">>
    BY <1>4 DEF Steps
  <2> QED BY <1>4, <2>1 DEF Nth, Names, Kinds
<1> QED BY <1>1, <1>2, <1>3, <1>4 DEF Kinds

-----------------------------------------------------------------------------
(* What a call may do to the requests and sessions of the portal *)

\* A call adds requests of its own, withdraws its open ones and closes its own
\* sessions, never one of the input provider.
Moves(f, rs, ss, rs2, ss2) ==
  /\ DOMAIN ss2 = DOMAIN ss
  /\ \A j \in DOMAIN ss:
       /\ ss2[j].from = ss[j].from /\ ss2[j].request = ss[j].request
       /\ ss2[j].consented = ss[j].consented
       /\ ss2[j].open => ss[j].open
       /\ ss[j].from # f \/ Kind[f] = "input" => ss2[j].open = ss[j].open
  /\ DOMAIN rs \subseteq DOMAIN rs2
  /\ \A i \in DOMAIN rs:
       /\ rs2[i].from = rs[i].from /\ rs2[i].step = rs[i].step /\ rs2[i].of = rs[i].of
       /\ \/ rs2[i].state = rs[i].state
          \/ rs[i].from = f /\ rs[i].state = "open" /\ rs2[i].state = "gone"
  /\ \A i \in DOMAIN rs2 \ DOMAIN rs: RequestGood(rs2[i], ss) /\ rs2[i].from = f

\* Such a step keeps what relates requests and sessions.
LEMMA MovesWorld ==
  ASSUME NEW f \in Flows, NEW rs, NEW ss, NEW rs2, NEW ss2,
         WorldGood(rs, ss), Moves(f, rs, ss, rs2, ss2)
  PROVE  WorldGood(rs2, ss2)
<1>1. ASSUME NEW i \in DOMAIN rs2 PROVE RequestGood(rs2[i], ss2)
  <2>1. CASE i \in DOMAIN rs
    <3>1. RequestGood(rs[i], ss)
      BY <2>1 DEF WorldGood
    <3>2. /\ rs2[i].from = rs[i].from /\ rs2[i].step = rs[i].step /\ rs2[i].of = rs[i].of
          /\ rs2[i].state = "granted" => rs[i].state = "granted"
      BY <2>1 DEF Moves
    <3> QED BY <3>1, <3>2 DEF RequestGood, Moves
  <2>2. CASE i \notin DOMAIN rs
    <3>1. RequestGood(rs2[i], ss)
      BY <2>2, <1>1 DEF Moves
    <3> QED BY <3>1 DEF RequestGood, Moves
  <2> QED BY <2>1, <2>2
<1>2. ASSUME NEW j \in DOMAIN ss2 PROVE SessionGood(ss2[j], rs2)
  <2>1. SessionGood(ss[j], rs) /\ j \in DOMAIN ss
    BY <1>2 DEF WorldGood, Moves
  <2>2. /\ ss2[j].from = ss[j].from /\ ss2[j].request = ss[j].request
        /\ ss[j].from # f \/ Kind[f] = "input" => ss2[j].open = ss[j].open
    BY <2>1 DEF Moves
  <2>3. \A i \in DOMAIN rs:
          /\ i \in DOMAIN rs2
          /\ rs2[i].from = rs[i].from /\ rs2[i].step = rs[i].step
          /\ rs[i].state = "granted" => rs2[i].state = "granted"
    BY DEF Moves
  <2> QED BY <2>1, <2>2, <2>3 DEF SessionGood
<1> QED BY <1>1, <1>2 DEF WorldGood

\* It leaves what the input provider keeps.
LEMMA MovesKept ==
  ASSUME NEW f \in Flows, NEW rs, NEW ss, NEW rs2, NEW ss2, NEW k,
         Moves(f, rs, ss, rs2, ss2), KeptGood(k, ss)
  PROVE  KeptGood(k, ss2)
BY DEF Moves, KeptGood

\* And it leaves every other call as it was.
LEMMA MovesOthers ==
  ASSUME PortalConstants, NEW f \in Flows, NEW g \in Flows, g # f, NEW u \in FlowType,
         NEW rs, NEW ss, NEW rs2, NEW ss2,
         WorldGood(rs, ss), Moves(f, rs, ss, rs2, ss2), FlowGood(g, u, rs, ss)
  PROVE  FlowGood(g, u, rs2, ss2)
<1>1. /\ KnownGood(g, u, ss) /\ WaitGood(g, u, rs, ss) /\ DialogsGood(g, u)
      /\ LeftGood(g, u, rs, ss) /\ \A a \in u.inbox: AnswerGood(a, rs, ss)
  BY DEF FlowGood
<1>2. \A j \in DOMAIN ss:
        /\ j \in DOMAIN ss2
        /\ ss2[j].from = ss[j].from /\ ss2[j].request = ss[j].request
        /\ ss2[j].consented = ss[j].consented
        /\ ss2[j].open => ss[j].open
        /\ ss[j].from # f \/ Kind[f] = "input" => ss2[j].open = ss[j].open
  BY DEF Moves
<1>3. \A i \in DOMAIN rs:
        /\ i \in DOMAIN rs2
        /\ rs2[i].from = rs[i].from /\ rs2[i].step = rs[i].step /\ rs2[i].of = rs[i].of
        /\ rs[i].state = "granted" => rs2[i].state = "granted"
        /\ rs2[i].state = "open" => rs[i].state = "open"
  BY DEF Moves
<1>4. DOMAIN ss2 = DOMAIN ss /\ \A i \in DOMAIN rs2 \ DOMAIN rs: rs2[i].from = f
  BY DEF Moves
<1>5. KnownGood(g, u, ss2)
  <2>1. u.session # None =>
          /\ u.session \in DOMAIN ss
          /\ ss[u.session].from # f \/ Kind[f] = "input"
    BY <1>1 DEF KnownGood, SameConnection
  <2> QED BY <1>1, <1>2, <1>4, <2>1, StepsKnown DEF KnownGood, SameConnection, FlowType
<1>6. WaitGood(g, u, rs2, ss2)
  <2>1. ASSUME u.pc = "await", NEW j \in DOMAIN ss, ss[j].request = u.request
        PROVE  ss2[j].open
    <3>1. SessionGood(ss[j], rs) /\ rs[u.request].from = g
      BY <1>1, <2>1 DEF WorldGood, WaitGood
    <3> QED BY <1>1, <1>2, <2>1, <3>1 DEF SessionGood, WaitGood
  <2> QED BY <1>1, <1>2, <1>3, <1>4, <2>1 DEF WaitGood
<1>7. \A a \in u.inbox: AnswerGood(a, rs2, ss2)
  BY <1>1, <1>2, <1>3 DEF AnswerGood
<1>8. LeftGood(g, u, rs2, ss2)
  BY <1>1, <1>2, <1>3, <1>4 DEF LeftGood
<1> QED BY <1>1, <1>5, <1>6, <1>7, <1>8 DEF FlowGood

\* Withdrawing the requests of a connection with its sessions is such a step, and
\* leaves nothing open of a held stream.
LEMMA DropMoves ==
  ASSUME PortalConstants, TypeOK, WorldGood(requests, sessions), NEW f \in Flows,
         Kind[f] = "hold", DropConnection(f)
  PROVE  /\ Moves(f, requests, sessions, requests', sessions')
         /\ requests' \in Seq(RequestType) /\ sessions' \in Seq(PortalSessions)
         /\ \A j \in DOMAIN sessions': sessions'[j].from = f => ~sessions'[j].open
         /\ \A i \in DOMAIN requests': requests'[i].from = f => requests'[i].state # "open"
<1>1. /\ requests \in Seq(RequestType) /\ sessions \in Seq(PortalSessions)
      /\ Len(requests) \in Nat /\ Len(sessions) \in Nat
  BY DEF TypeOK
<1> DEFINE shut(s) == [s EXCEPT !.open = FALSE]
           gone(r) == [r EXCEPT !.state = "gone"]
<1>2. \A s \in PortalSessions:
        /\ shut(s) \in PortalSessions /\ ~shut(s).open
        /\ shut(s).from = s.from /\ shut(s).request = s.request
        /\ shut(s).consented = s.consented
  BY DEF PortalSessions
<1>3. \A r \in RequestType:
        /\ gone(r) \in RequestType /\ gone(r).state = "gone"
        /\ gone(r).from = r.from /\ gone(r).step = r.step /\ gone(r).of = r.of
  BY DEF RequestType
<1>4. sessions' = [j \in DOMAIN sessions |->
                     IF sessions[j].from = f THEN shut(sessions[j]) ELSE sessions[j]]
  BY DEF DropConnection, Close
<1>5. requests' = [i \in DOMAIN requests |->
                     IF requests[i].from = f /\ requests[i].state = "open"
                     THEN gone(requests[i]) ELSE requests[i]]
  BY DEF DropConnection
<1> HIDE DEF shut, gone
<1>6. /\ \A j \in DOMAIN sessions: sessions[j] \in PortalSessions
      /\ \A i \in DOMAIN requests: requests[i] \in RequestType
      /\ DOMAIN sessions = 1..Len(sessions) /\ DOMAIN requests = 1..Len(requests)
  BY <1>1
<1>7. DOMAIN sessions' = DOMAIN sessions /\ DOMAIN requests' = DOMAIN requests
  BY <1>4, <1>5
<1>8. \A j \in DOMAIN sessions:
        /\ sessions'[j] \in PortalSessions
        /\ sessions'[j].from = sessions[j].from /\ sessions'[j].request = sessions[j].request
        /\ sessions'[j].consented = sessions[j].consented
        /\ sessions[j].from # f => sessions'[j].open = sessions[j].open
        /\ sessions[j].from = f => ~sessions'[j].open
  BY <1>2, <1>4, <1>6
<1>9. \A i \in DOMAIN requests:
        /\ requests'[i] \in RequestType
        /\ requests'[i].from = requests[i].from /\ requests'[i].step = requests[i].step
        /\ requests'[i].of = requests[i].of
        /\ requests[i].from # f \/ requests[i].state # "open" =>
             requests'[i].state = requests[i].state
        /\ requests[i].from = f /\ requests[i].state = "open" => requests'[i].state = "gone"
  BY <1>3, <1>5, <1>6
<1>10. requests' \in Seq(RequestType) /\ sessions' \in Seq(PortalSessions)
  <2>1. sessions' = [j \in 1..Len(sessions) |-> sessions'[j]]
    BY <1>4, <1>6
  <2>2. requests' = [i \in 1..Len(requests) |-> requests'[i]]
    BY <1>5, <1>6
  <2>3. sessions' \in [1..Len(sessions) -> PortalSessions]
    BY <1>6, <1>8, <2>1
  <2>4. requests' \in [1..Len(requests) -> RequestType]
    BY <1>6, <1>9, <2>2
  <2>5. requests' \in Seq(RequestType)
    BY <1>1, <2>4, SeqDef
  <2>6. sessions' \in Seq(PortalSessions)
    BY <1>1, <2>3, SeqDef
  <2> QED BY <2>5, <2>6
<1>11. Moves(f, requests, sessions, requests', sessions')
  <2>1. \A j \in DOMAIN sessions:
          /\ sessions'[j].open => sessions[j].open
          /\ sessions[j].from # f \/ Kind[f] = "input" => sessions'[j].open = sessions[j].open
    BY <1>8
  <2>2. \A i \in DOMAIN requests:
          \/ requests'[i].state = requests[i].state
          \/ /\ requests[i].from = f /\ requests[i].state = "open"
             /\ requests'[i].state = "gone"
    BY <1>9
  <2> QED BY <1>7, <1>8, <1>9, <2>1, <2>2 DEF Moves
<1> QED BY <1>7, <1>8, <1>9, <1>10, <1>11

\* Closing one session of its own is another.
LEMMA CloseMoves ==
  ASSUME PortalConstants, TypeOK, NEW f \in Flows, Kind[f] # "input", NEW k \in Numbers,
         k # None => k \in DOMAIN sessions /\ sessions[k].from = f,
         sessions' = Close([i \in DOMAIN sessions |-> i = k]), requests' = requests
  PROVE  /\ Moves(f, requests, sessions, requests', sessions')
         /\ sessions' \in Seq(PortalSessions)
         /\ k # None => ~sessions'[k].open
<1>1. sessions \in Seq(PortalSessions) /\ Len(sessions) \in Nat /\ None \notin Nat
  BY DEF TypeOK, PortalConstants
<1> DEFINE shut(s) == [s EXCEPT !.open = FALSE]
<1>2. \A s \in PortalSessions:
        /\ shut(s) \in PortalSessions /\ ~shut(s).open
        /\ shut(s).from = s.from /\ shut(s).request = s.request
        /\ shut(s).consented = s.consented
  BY DEF PortalSessions
<1>3. sessions' = [j \in DOMAIN sessions |-> IF j = k THEN shut(sessions[j]) ELSE sessions[j]]
  BY DEF Close
<1> HIDE DEF shut
<1>4. /\ \A j \in DOMAIN sessions: sessions[j] \in PortalSessions
      /\ DOMAIN sessions = 1..Len(sessions) /\ DOMAIN sessions' = DOMAIN sessions
  BY <1>1, <1>3
<1>5. \A j \in DOMAIN sessions:
        /\ sessions'[j] \in PortalSessions
        /\ sessions'[j].from = sessions[j].from /\ sessions'[j].request = sessions[j].request
        /\ sessions'[j].consented = sessions[j].consented
        /\ j # k => sessions'[j].open = sessions[j].open
        /\ j = k => ~sessions'[j].open
  BY <1>2, <1>3, <1>4
<1>6. \A j \in DOMAIN sessions: j = k => sessions[j].from = f
  BY <1>1, <1>4
<1>7. sessions' \in Seq(PortalSessions)
  <2>1. sessions' = [j \in 1..Len(sessions) |-> sessions'[j]]
    BY <1>3, <1>4
  <2>2. sessions' \in [1..Len(sessions) -> PortalSessions]
    BY <1>4, <1>5, <2>1
  <2> QED BY <1>1, <2>2, SeqDef
<1>8. Moves(f, requests, sessions, requests', sessions')
  BY <1>4, <1>5, <1>6 DEF Moves
<1> QED BY <1>5, <1>7, <1>8

\* So is a step that touches neither.
LEMMA StayMoves ==
  ASSUME NEW f, NEW rs, NEW ss
  PROVE  Moves(f, rs, ss, rs, ss)
BY DEF Moves

\* A step of a call: the invariant holds if it does for the call, the portal's
\* state moves as above, and what the input provider keeps is good.
LEMMA ActorStep ==
  ASSUME PortalConstants, PortalInv, NEW f \in Flows, NEW v \in FlowType, Flow(f, v),
         owner' \in Flows \union {None}, session' \in Numbers,
         requests' \in Seq(RequestType), sessions' \in Seq(PortalSessions),
         turns' \in [Flows -> Nat], breaks' \in Nat,
         Moves(f, requests, sessions, requests', sessions'),
         KeptGood(session', sessions), FlowGood(f, v, requests', sessions')
  PROVE  PortalInv'
<1>1. TypeOK /\ WorldGood(requests, sessions)
  BY DEF PortalInv
<1>2. /\ flow' \in [Flows -> FlowType] /\ flow'[f] = v
      /\ \A g \in Flows: g # f => flow'[g] = flow[g]
  BY <1>1 DEF Flow, TypeOK
<1>3. TypeOK'
  BY <1>2 DEF TypeOK
<1>4. WorldGood(requests', sessions')
  BY <1>1, MovesWorld
<1>5. KeptGood(session', sessions')
  BY MovesKept
<1>6. ASSUME NEW g \in Flows PROVE FlowGood(g, flow'[g], requests', sessions')
  <2>1. CASE g = f
    BY <1>2, <2>1
  <2>2. CASE g # f
    <3>1. flow[g] \in FlowType /\ FlowGood(g, flow[g], requests, sessions)
      BY <1>1 DEF PortalInv, TypeOK
    <3>2. FlowGood(g, flow[g], requests', sessions')
      BY <1>1, <2>2, <3>1, MovesOthers
    <3> QED BY <1>2, <2>2, <3>2
  <2> QED BY <2>1, <2>2
<1> QED BY <1>3, <1>4, <1>5, <1>6 DEF PortalInv

-----------------------------------------------------------------------------
(* The steps of a call *)

\* A call starts with nothing and takes the mutex and the session it finds.
LEMMA BeginHolds ==
  ASSUME PortalConstants, PortalInv, NEW f \in Flows, Begin(f)
  PROVE  PortalInv'
<1> DEFINE v == [Idle EXCEPT !.pc = IF Kind[f] = "input" THEN "lock" ELSE "step"]
<1>1. TypeOK /\ KeptGood(session, sessions)
  BY DEF PortalInv
<1>2. /\ v \in FlowType /\ v.pc = (IF Kind[f] = "input" THEN "lock" ELSE "step") /\ v.step = 1 /\ v.session = None
      /\ v.inbox = {} /\ v.dialogs = 0 /\ v.tries = 0
  <2>1. {} \in SUBSET Messages /\ None \in Numbers
    BY DEF Numbers
  <2>2. Idle \in FlowType
    BY <2>1 DEF Idle, FlowType
  <2>3. /\ Idle.step = 1 /\ Idle.session = None /\ Idle.inbox = {} /\ Idle.dialogs = 0
        /\ Idle.tries = 0
    BY DEF Idle
  <2> HIDE DEF Idle
  <2> QED BY <2>2, <2>3 DEF FlowType
<1>3. Flow(f, v) /\ UNCHANGED <<owner, session, requests, sessions, breaks>>
  BY DEF Begin
<1>4. turns' \in [Flows -> Nat]
  BY <1>1 DEF Begin, TypeOK
<1> HIDE DEF v
<1>5. FlowGood(f, v, requests, sessions)
  <2>1. KnownGood(f, v, sessions)
    BY <1>2, StepsKnown DEF KnownGood
  <2>2. DialogsGood(f, v)
    <3>1. 1 \in 1..Len(Steps(f))
      BY StepsKnown
    <3> QED BY <1>2, <3>1 DEF DialogsGood
  <2>3. WaitGood(f, v, requests, sessions) /\ LeftGood(f, v, requests, sessions)
    BY <1>2 DEF WaitGood, LeftGood
  <2> QED BY <1>2, <2>1, <2>2, <2>3 DEF FlowGood
<1>6. Moves(f, requests, sessions, requests', sessions')
  BY <1>3, StayMoves
<1> QED BY <1>1, <1>2, <1>3, <1>4, <1>5, <1>6, ActorStep DEF TypeOK

\* The input provider's session passes to the caller that gets the mutex.
LEMMA LockHolds ==
  ASSUME PortalConstants, PortalInv, NEW f \in Flows, Lock(f)
  PROVE  PortalInv'
<1> DEFINE v == [flow[f] EXCEPT !.pc = IF session = None THEN "step" ELSE "use",
                                !.session = session]
<1>1. /\ TypeOK /\ KeptGood(session, sessions) /\ FlowGood(f, flow[f], requests, sessions)
      /\ flow[f] \in FlowType /\ session \in Numbers
  BY DEF PortalInv, TypeOK
<1>2. flow[f].pc = "lock" /\ flow[f].step = 1 /\ Kind[f] = "input"
  BY <1>1 DEF Lock, FlowGood, DialogsGood
<1>3. /\ v \in FlowType /\ v.pc = (IF session = None THEN "step" ELSE "use")
      /\ v.session = session /\ v.step = 1
      /\ v.inbox = flow[f].inbox /\ v.dialogs = flow[f].dialogs /\ v.tries = flow[f].tries
  BY <1>1, <1>2 DEF FlowType
<1>4. Flow(f, v) /\ owner' = f /\ UNCHANGED <<session, requests, sessions, turns, breaks>>
  BY DEF Lock
<1> HIDE DEF v
<1>5. flow[f].dialogs <= flow[f].tries /\ flow[f].dialogs \in Nat /\ flow[f].tries \in Nat
  BY <1>1, <1>2 DEF FlowGood, DialogsGood, FlowType
<1>6. FlowGood(f, v, requests, sessions)
  <2>1. KnownGood(f, v, sessions)
    BY <1>1, <1>2, <1>3, StepsKnown DEF KnownGood, KeptGood, SameConnection
  <2>2. DialogsGood(f, v)
    <3>1. 1 \in 1..Len(Steps(f))
      BY StepsKnown
    <3> QED BY <1>2, <1>3, <1>5, <3>1 DEF DialogsGood
  <2>3. WaitGood(f, v, requests, sessions) /\ LeftGood(f, v, requests, sessions)
    BY <1>3 DEF WaitGood, LeftGood
  <2>4. \A a \in v.inbox: AnswerGood(a, requests, sessions)
    BY <1>1, <1>3 DEF FlowGood
  <2> QED BY <2>1, <2>2, <2>3, <2>4 DEF FlowGood
<1>7. Moves(f, requests, sessions, requests', sessions')
  BY <1>4, StayMoves
<1> QED BY <1>1, <1>3, <1>4, <1>6, <1>7, ActorStep DEF TypeOK

\* A handshake that goes on: the call is at its next step, or at the use of the
\* session, which its own dialog was about.
LEMMA AdvancedGood ==
  ASSUME PortalConstants, NEW f \in Flows, NEW u \in FlowType, NEW w \in FlowType,
         NEW rs, NEW ss,
         FlowGood(f, u, rs, ss), u.pc \in {"step", "await"},
         w.pc = (IF u.step = Len(Steps(f)) THEN "use" ELSE "step"),
         w.step = (IF u.step = Len(Steps(f)) THEN u.step ELSE u.step + 1),
         w.dialogs = u.dialogs, w.tries = u.tries, w.inbox \subseteq u.inbox,
         w.session # None =>
           /\ w.session \in DOMAIN ss /\ ss[w.session].open
           /\ SameConnection(f, ss[w.session].from)
           /\ Kind[f] # "input" => ss[w.session].from = f,
         Kind[f] # "shot" => w.session # None,
         Nth(f, u.step) \in {"Start", "OpenPipeWireRemote"} => ss[w.session].consented
  PROVE  FlowGood(f, w, rs, ss)
<1>1. /\ u.step \in 1..Len(Steps(f)) /\ Len(Steps(f)) \in 1..4
      /\ u.dialogs \in Nat /\ u.tries \in Nat /\ u.dialogs <= 1 + u.tries
  BY StepsKnown DEF FlowGood, DialogsGood, FlowType
<1>2. Kind[f] # "shot" /\ w.pc = "use" => Nth(f, u.step) \in {"Start", "OpenPipeWireRemote"}
  <2>1. Kind[f] # "shot" => Len(Steps(f)) = 4 /\ Nth(f, 4) \in {"Start", "OpenPipeWireRemote"}
    BY StepsKnown DEF Kinds
  <2>2. w.pc = "use" => u.step = Len(Steps(f))
    OBVIOUS
  <2> QED BY <2>1, <2>2
<1>3. w.pc = "step" /\ Nth(f, w.step) = "OpenPipeWireRemote" => Nth(f, u.step) = "Start"
  <2> SUFFICES ASSUME w.pc = "step", Nth(f, w.step) = "OpenPipeWireRemote"
               PROVE  Nth(f, u.step) = "Start"
    OBVIOUS
  <2>1. w.step = u.step + 1 /\ w.step \in 2..Len(Steps(f))
    BY <1>1
  <2>2. CASE Kind[f] = "input"
    <3>1. /\ Nth(f, 2) = "SelectDevices" /\ Nth(f, 3) = "SelectSources" /\ Nth(f, 4) = "Start"
          /\ Len(Steps(f)) = 4
      BY <2>2, StepsKnown
    <3> QED BY <2>1, <3>1
  <2>3. CASE Kind[f] \in {"capture", "hold"}
    <3>1. /\ Nth(f, 2) = "SelectSources" /\ Nth(f, 3) = "Start"
          /\ Len(Steps(f)) = 4
      BY <2>3, StepsKnown
    <3>2. w.step = 4 /\ u.step = 3
      BY <1>1, <2>1, <3>1
    <3> QED BY <3>1, <3>2
  <2>4. CASE Kind[f] = "shot"
    <3>1. Len(Steps(f)) = 1
      BY <2>4, StepsKnown
    <3> QED BY <2>1, <3>1
  <2>5. Kind[f] \in Kinds
    BY StepsKnown
  <2> QED BY <2>2, <2>3, <2>4, <2>5 DEF Kinds
<1>4. KnownGood(f, w, ss)
  <2>1. w.pc \in {"step", "use"}
    OBVIOUS
  <2>2. w.pc = "step" => Kind[f] # "shot"
    <3>1. Kind[f] = "shot" => Len(Steps(f)) = 1
      BY StepsKnown
    <3>2. w.pc = "step" => u.step # Len(Steps(f))
      OBVIOUS
    <3>3. \A n \in 1..Len(Steps(f)): Len(Steps(f)) = 1 => n = 1
      OBVIOUS
    <3> QED BY <1>1, <3>1, <3>2, <3>3
  <2> QED BY <1>2, <1>3, <2>1, <2>2 DEF KnownGood
<1>5. DialogsGood(f, w)
  <2>1. w.step \in 1..Len(Steps(f)) /\ w.dialogs <= 1 + w.tries
    BY <1>1
  <2>2. ASSUME w.pc = "step", \A n \in 1..(w.step - 1): Nth(f, n) # "Start"
        PROVE  w.dialogs <= w.tries
    <3>1. w.step - 1 = u.step
      BY <1>1, <2>2
    <3>2. \A n \in 1..u.step: Nth(f, n) # "Start"
      BY <2>2, <3>1
    <3>3. \A n \in 1..(u.step - 1): Nth(f, n) # "Start"
      BY <1>1, <3>2
    <3> QED BY <3>2, <3>3 DEF FlowGood, DialogsGood
  <2> QED BY <2>1, <2>2 DEF DialogsGood
<1>6. WaitGood(f, w, rs, ss) /\ LeftGood(f, w, rs, ss)
  BY DEF WaitGood, LeftGood
<1>7. \A a \in w.inbox: AnswerGood(a, rs, ss)
  BY DEF FlowGood
<1> QED BY <1>4, <1>5, <1>6, <1>7 DEF FlowGood

\* A call that comes back keeps what it knew and forgets the answers.
LEMMA ReturnedGood ==
  ASSUME PortalConstants, NEW f \in Flows, NEW u \in FlowType, NEW v \in FlowType,
         NEW rs, NEW ss, NEW rs2, NEW ss2,
         FlowGood(f, u, rs, ss), Moves(f, rs, ss, rs2, ss2),
         v.pc = "idle", v.inbox = {}, v.session = u.session, v.step = u.step,
         v.dialogs = u.dialogs, v.tries = u.tries, LeftGood(f, v, rs2, ss2)
  PROVE  FlowGood(f, v, rs2, ss2)
<1>1. KnownGood(f, v, ss2)
  BY DEF FlowGood, KnownGood, Moves
<1>2. DialogsGood(f, v)
  BY DEF FlowGood, DialogsGood
<1>3. WaitGood(f, v, rs2, ss2)
  BY DEF WaitGood
<1> QED BY <1>1, <1>2, <1>3 DEF FlowGood

\* A request for a picture makes no session.
LEMMA ShotsHaveNone ==
  ASSUME PortalConstants, TypeOK, WorldGood(requests, sessions), NEW j \in DOMAIN sessions
  PROVE  sessions[j].from \in Flows /\ Kind[sessions[j].from] # "shot"
<1>1. sessions[j] \in PortalSessions /\ SessionGood(sessions[j], requests)
  BY DEF TypeOK, WorldGood
<1>2. sessions[j].from \in Flows
  BY <1>1 DEF PortalSessions
<1> DEFINE r == requests[sessions[j].request]
<1>3. r.from = sessions[j].from /\ r.step = "CreateSession" /\ RequestGood(r, sessions)
  BY <1>1 DEF SessionGood, WorldGood
<1>4. PICK n \in 1..Len(Steps(sessions[j].from)): Nth(sessions[j].from, n) = "CreateSession"
  BY <1>3 DEF RequestGood
<1>5. CASE Kind[sessions[j].from] = "shot"
  <2>1. Len(Steps(sessions[j].from)) = 1 /\ Nth(sessions[j].from, 1) = "Screenshot"
    BY <1>2, <1>5, StepsKnown
  <2> QED BY <1>4, <2>1
<1> QED BY <1>2, <1>5

\* A failed step or use, whatever the kind of the call, is cleaned up after.
LEMMA FailHolds ==
  ASSUME PortalConstants, PortalInv, NEW f \in Flows,
         flow[f].pc \in {"step", "await", "use"}, Fail(f),
         session' \in Numbers, KeptGood(session', sessions),
         turns' \in [Flows -> Nat], breaks' \in Nat
  PROVE  PortalInv'
<1> DEFINE u == flow[f]
<1>1. /\ TypeOK /\ WorldGood(requests, sessions) /\ u \in FlowType
      /\ FlowGood(f, u, requests, sessions) /\ owner \in Flows \union {None}
      /\ requests \in Seq(RequestType) /\ sessions \in Seq(PortalSessions)
  BY DEF PortalInv, TypeOK
<1>2. CASE Kind[f] = "capture" /\ u.session # None
  <2> DEFINE v == [u EXCEPT !.pc = "close", !.result = "error"]
  <2>1. Flow(f, v) /\ UNCHANGED <<owner, sessions, requests>>
    BY <1>2 DEF Fail
  <2>2. /\ v \in FlowType /\ v.pc = "close" /\ v.session = u.session /\ v.step = u.step
        /\ v.inbox = u.inbox /\ v.dialogs = u.dialogs /\ v.tries = u.tries
    BY <1>1 DEF FlowType
  <2> HIDE DEF v
  <2>3. FlowGood(f, v, requests, sessions)
    BY <1>1, <1>2, <2>2
    DEF FlowGood, KnownGood, WaitGood, DialogsGood, LeftGood
  <2>4. Moves(f, requests, sessions, requests', sessions')
    BY <2>1, StayMoves
  <2> QED BY <1>1, <2>1, <2>2, <2>3, <2>4, ActorStep
<1> DEFINE w == [u EXCEPT !.pc = "idle", !.inbox = {}, !.result = "error"]
<1>3. /\ w \in FlowType /\ w.pc = "idle" /\ w.session = u.session /\ w.step = u.step
      /\ w.inbox = {} /\ w.dialogs = u.dialogs /\ w.tries = u.tries
  BY <1>1 DEF FlowType
<1>4. CASE Kind[f] = "hold"
  <2>1. DropConnection(f) /\ Return(f, "error")
    BY <1>4 DEF Fail
  <2>2. Flow(f, w) /\ owner' \in Flows \union {None}
    BY <1>1, <2>1 DEF Return
  <2> HIDE DEF w
  <2>3. /\ Moves(f, requests, sessions, requests', sessions')
        /\ requests' \in Seq(RequestType) /\ sessions' \in Seq(PortalSessions)
        /\ LeftGood(f, w, requests', sessions')
    BY <1>1, <1>4, <2>1, DropMoves DEF LeftGood
  <2>4. FlowGood(f, w, requests', sessions')
    BY <1>1, <1>3, <2>3, ReturnedGood
  <2> QED BY <1>3, <2>2, <2>3, <2>4, ActorStep
<1>5. CASE Kind[f] # "hold" /\ ~(Kind[f] = "capture" /\ u.session # None)
  <2>1. Return(f, "error") /\ UNCHANGED <<sessions, requests>>
    BY <1>5 DEF Fail
  <2>2. Flow(f, w) /\ owner' \in Flows \union {None}
    BY <1>1, <2>1 DEF Return
  <2> HIDE DEF w
  <2>3. Moves(f, requests, sessions, requests', sessions')
    BY <2>1, StayMoves
  <2>4. LeftGood(f, w, requests, sessions)
    <3>1. None \notin DOMAIN sessions
      BY <1>1 DEF PortalConstants
    <3>2. \A j \in DOMAIN sessions: Kind[sessions[j].from] # "shot"
      BY <1>1, ShotsHaveNone
    <3> QED BY <1>3, <1>5, <3>1, <3>2, StepsKnown DEF LeftGood, Kinds
  <2>5. FlowGood(f, w, requests', sessions')
    BY <1>1, <1>3, <2>1, <2>3, <2>4, ReturnedGood
  <2> QED BY <1>1, <1>3, <2>1, <2>2, <2>3, <2>5, ActorStep
<1> QED BY <1>2, <1>4, <1>5

\* The dialog is asked for once in a handshake, never first.
LEMMA AsksOnce ==
  ASSUME PortalConstants, NEW f \in Flows, NEW n \in 1..Len(Steps(f)), Nth(f, n) = "Start"
  PROVE  n > 1 /\ \A m \in 1..(n - 1): Nth(f, m) # "Start"
<1>1. CASE Kind[f] = "input"
  <2>1. /\ Len(Steps(f)) = 4
        /\ Nth(f, 1) = "CreateSession" /\ Nth(f, 2) = "SelectDevices"
        /\ Nth(f, 3) = "SelectSources" /\ Nth(f, 4) = "Start"
    BY <1>1, StepsKnown
  <2>2. n \in 1..4
    BY <2>1
  <2>3. n = 4
    BY <2>1, <2>2
  <2>4. \A m \in 1..3: m \in {1, 2, 3}
    OBVIOUS
  <2> QED BY <2>1, <2>3, <2>4
<1>2. CASE Kind[f] \in {"capture", "hold"}
  <2>1. /\ Len(Steps(f)) = 4
        /\ Nth(f, 1) = "CreateSession" /\ Nth(f, 2) = "SelectSources"
        /\ Nth(f, 3) = "Start" /\ Nth(f, 4) = "OpenPipeWireRemote"
    BY <1>2, StepsKnown
  <2>2. n \in 1..4
    BY <2>1
  <2>3. n = 3
    BY <2>1, <2>2
  <2>4. \A m \in 1..2: m \in {1, 2}
    OBVIOUS
  <2> QED BY <2>1, <2>3, <2>4
<1>3. CASE Kind[f] = "shot"
  <2>1. Len(Steps(f)) = 1 /\ Nth(f, 1) = "Screenshot"
    BY <1>3, StepsKnown
  <2>2. n \in 1..1
    BY <2>1
  <2> QED BY <2>1, <2>2
<1> QED BY <1>1, <1>2, <1>3, StepsKnown DEF Kinds

\* What going on to the next step changes.
LEMMA AdvanceFields ==
  ASSUME PortalConstants, NEW f \in Flows, flow[f] \in FlowType,
         flow[f].step \in 1..Len(Steps(f))
  PROVE  /\ Advance(f) \in FlowType
         /\ Advance(f).pc = (IF flow[f].step = Len(Steps(f)) THEN "use" ELSE "step")
         /\ Advance(f).step = (IF flow[f].step = Len(Steps(f)) THEN flow[f].step
                               ELSE flow[f].step + 1)
         /\ Advance(f).dialogs = flow[f].dialogs /\ Advance(f).tries = flow[f].tries
         /\ Advance(f).inbox = flow[f].inbox /\ Advance(f).session = flow[f].session
<1>1. Len(Steps(f)) \in 1..4
  BY StepsKnown
<1> DEFINE at == IF flow[f].step = Len(Steps(f)) THEN flow[f].step ELSE flow[f].step + 1
           to == IF flow[f].step = Len(Steps(f)) THEN "use" ELSE "step"
<1>2. \A k \in 1..4: \A n \in 1..k: n \in 1..4 /\ (n # k => n + 1 \in 1..4)
  OBVIOUS
<1>3. at \in 1..4 /\ to \in {"idle", "lock", "step", "await", "use", "close"}
  BY <1>1, <1>2
<1>4. Advance(f) = [flow[f] EXCEPT !.pc = to, !.step = at]
  BY DEF Advance, FlowType
<1> HIDE DEF at, to
<1>5. /\ Advance(f) \in FlowType /\ Advance(f).pc = to /\ Advance(f).step = at
      /\ Advance(f).dialogs = flow[f].dialogs /\ Advance(f).tries = flow[f].tries
      /\ Advance(f).inbox = flow[f].inbox /\ Advance(f).session = flow[f].session
  BY <1>3, <1>4 DEF FlowType
<1> QED BY <1>5 DEF at, to

\* A failed step of a handshake: input goes on without its sources, and the
\* others end.
LEMMA FailStepHolds ==
  ASSUME PortalConstants, PortalInv, NEW f \in Flows,
         flow[f].pc \in {"step", "await"}, FailStep(f),
         UNCHANGED <<session, turns>>, breaks' \in Nat
  PROVE  PortalInv'
<1> DEFINE u == flow[f]
<1>1. /\ TypeOK /\ u \in FlowType /\ FlowGood(f, u, requests, sessions)
      /\ KeptGood(session, sessions)
      /\ session' \in Numbers /\ turns' \in [Flows -> Nat]
  BY DEF PortalInv, TypeOK
<1>2. CASE BestEffort(f)
  <2> DEFINE w == Advance(f)
  <2>1. Flow(f, w) /\ UNCHANGED <<owner, sessions, requests>>
    BY <1>2 DEF FailStep
  <2>2. Kind[f] = "input" /\ Nth(f, u.step) = "SelectSources" /\ Len(Steps(f)) = 4
    BY <1>2, StepsKnown DEF BestEffort, StepOf, Nth
  <2>3. u.step # 1 /\ u.step \in 1..4
    <3>1. Nth(f, 1) = "CreateSession"
      BY <2>2, StepsKnown
    <3> QED BY <1>1, <2>2, <3>1 DEF FlowGood, DialogsGood
  <2>4. /\ w \in FlowType
        /\ w.pc = (IF u.step = Len(Steps(f)) THEN "use" ELSE "step")
        /\ w.step = (IF u.step = Len(Steps(f)) THEN u.step ELSE u.step + 1)
        /\ w.dialogs = u.dialogs /\ w.tries = u.tries /\ w.inbox = u.inbox
        /\ w.session = u.session
    BY <1>1, <2>2, <2>3, AdvanceFields
  <2> HIDE DEF w
  <2>5. /\ u.session # None
        /\ u.session \in DOMAIN sessions /\ sessions[u.session].open
        /\ SameConnection(f, sessions[u.session].from)
    BY <1>1, <2>3 DEF FlowGood, KnownGood
  <2>6. FlowGood(f, w, requests, sessions)
    BY <1>1, <2>2, <2>4, <2>5, AdvancedGood
  <2>7. Moves(f, requests, sessions, requests', sessions')
    BY <2>1, StayMoves
  <2> QED BY <1>1, <2>1, <2>4, <2>6, <2>7, ActorStep DEF TypeOK
<1>3. CASE ~BestEffort(f)
  <2>1. Fail(f)
    BY <1>3 DEF FailStep
  <2> QED BY <1>1, <2>1, FailHolds
<1> QED BY <1>2, <1>3

\* Placing a request: a dialog is opened for the session the call knows, once.
LEMMA RequestHolds ==
  ASSUME PortalConstants, PortalInv, NEW f \in Flows, Request(f)
  PROVE  PortalInv'
<1> DEFINE u == flow[f]
           n == Len(requests) + 1
           r == [from |-> f, step |-> StepOf(f), of |-> u.session, state |-> "open"]
           v == [u EXCEPT !.pc = "await", !.request = Len(requests'),
                          !.dialogs = IF StepOf(f) = "Start" THEN @ + 1 ELSE @]
<1>1. /\ TypeOK /\ u \in FlowType /\ FlowGood(f, u, requests, sessions)
      /\ WorldGood(requests, sessions) /\ KeptGood(session, sessions)
      /\ requests \in Seq(RequestType) /\ sessions \in Seq(PortalSessions)
  BY DEF PortalInv, TypeOK
<1>2. /\ u.pc = "step" /\ requests' = Append(requests, r) /\ Flow(f, v)
      /\ UNCHANGED <<owner, session, sessions, turns, breaks>>
  BY DEF Request
<1>3. u.step \in 1..Len(Steps(f)) /\ StepOf(f) = Nth(f, u.step) /\ StepOf(f) \in Names
  <2>1. u.step \in 1..Len(Steps(f))
    BY <1>1 DEF FlowGood, DialogsGood
  <2> QED BY <2>1, StepsKnown DEF StepOf, Nth
<1>4. r \in RequestType
  BY <1>1, <1>3 DEF RequestType, FlowType
<1>5. /\ requests' \in Seq(RequestType) /\ Len(requests') = n /\ n \in Nat
      /\ \A i \in 1..Len(requests): requests'[i] = requests[i]
      /\ requests'[n] = r
      /\ DOMAIN requests' = 1..n /\ DOMAIN requests = 1..Len(requests)
  BY <1>1, <1>2, <1>4, AppendProperties
<1>6. /\ v \in FlowType /\ v.pc = "await" /\ v.request = n
      /\ v.dialogs = (IF StepOf(f) = "Start" THEN u.dialogs + 1 ELSE u.dialogs)
      /\ v.session = u.session /\ v.step = u.step /\ v.tries = u.tries /\ v.inbox = u.inbox
  <2>1. u.dialogs + 1 \in Nat /\ n \in Numbers
    BY <1>1, <1>5 DEF FlowType, Numbers
  <2> QED BY <1>1, <1>5, <2>1 DEF FlowType
<1>7. r.from = f /\ r.step = Nth(f, u.step) /\ r.of = u.session /\ r.state = "open"
  BY <1>3
<1> HIDE DEF r, v
<1>8. StepOf(f) = "Start" => u.step > 1 /\ \A m \in 1..(u.step - 1): Nth(f, m) # "Start"
  BY <1>3, AsksOnce
<1>9. Moves(f, requests, sessions, requests', sessions')
  <2>1. RequestGood(r, sessions)
    <3>1. u.session # None => u.session \in DOMAIN sessions
      BY <1>1 DEF FlowGood, KnownGood
    <3>2. u.step > 1 => u.session # None
      BY <1>1, <1>2 DEF FlowGood, KnownGood
    <3>3. StepOf(f) # "OpenPipeWireRemote"
      BY DEF Request
    <3> QED BY <1>3, <1>7, <1>8, <3>1, <3>2, <3>3 DEF RequestGood
  <2>2. \A i \in DOMAIN requests' \ DOMAIN requests: i = n
    BY <1>5
  <2> QED BY <1>2, <1>5, <1>7, <2>1, <2>2 DEF Moves
<1>10. FlowGood(f, v, requests', sessions')
  <2>1. KnownGood(f, v, sessions')
    BY <1>1, <1>2, <1>6 DEF FlowGood, KnownGood
  <2>2. WaitGood(f, v, requests', sessions')
    <3>1. \A j \in DOMAIN sessions: sessions[j].request # n
      <4>1. \A j \in DOMAIN sessions: sessions[j].request \in 1..Len(requests)
        BY <1>1, <1>5 DEF WorldGood, SessionGood
      <4> QED BY <1>1, <4>1
    <3> QED BY <1>2, <1>5, <1>6, <1>7, <3>1 DEF WaitGood
  <2>3. \A a \in v.inbox: AnswerGood(a, requests', sessions')
    <3>1. \A a \in v.inbox: AnswerGood(a, requests, sessions)
      BY <1>1, <1>6 DEF FlowGood
    <3>2. \A i \in DOMAIN requests: i \in DOMAIN requests' /\ requests'[i] = requests[i]
      BY <1>5
    <3> QED BY <1>2, <3>1, <3>2 DEF AnswerGood
  <2>4. DialogsGood(f, v)
    <3>1. u.dialogs \in Nat /\ u.tries \in Nat
      BY <1>1 DEF FlowType
    <3>2. (\A m \in 1..(u.step - 1): Nth(f, m) # "Start") => u.dialogs <= u.tries
      BY <1>1, <1>2 DEF FlowGood, DialogsGood
    <3>3. u.dialogs <= 1 + u.tries
      BY <1>1 DEF FlowGood, DialogsGood
    <3>4. v.dialogs <= 1 + v.tries
      BY <1>6, <1>8, <3>1, <3>2, <3>3
    <3>5. (\A m \in 1..u.step: Nth(f, m) # "Start") => v.dialogs <= v.tries
      <4> SUFFICES ASSUME \A m \in 1..u.step: Nth(f, m) # "Start"
                   PROVE  v.dialogs <= v.tries
        OBVIOUS
      <4>1. StepOf(f) # "Start"
        BY <1>3
      <4>2. \A m \in 1..(u.step - 1): Nth(f, m) # "Start"
        BY <1>3
      <4> QED BY <1>6, <3>2, <4>1, <4>2
    <3> QED BY <1>3, <1>6, <3>4, <3>5 DEF DialogsGood
  <2>5. LeftGood(f, v, requests', sessions')
    BY <1>6 DEF LeftGood
  <2> QED BY <2>1, <2>2, <2>3, <2>4, <2>5 DEF FlowGood
<1> QED BY <1>1, <1>2, <1>5, <1>6, <1>9, <1>10, ActorStep DEF TypeOK

\* OpenPipeWireRemote answers at once.
LEMMA OpenRemoteHolds ==
  ASSUME PortalConstants, PortalInv, NEW f \in Flows, OpenRemote(f)
  PROVE  PortalInv'
<1> DEFINE u == flow[f]
           w == Advance(f)
<1>1. /\ TypeOK /\ u \in FlowType /\ FlowGood(f, u, requests, sessions)
      /\ KeptGood(session, sessions)
  BY DEF PortalInv, TypeOK
<1>2. /\ u.pc = "step" /\ StepOf(f) = "OpenPipeWireRemote" /\ Flow(f, w)
      /\ UNCHANGED <<owner, session, requests, sessions, turns, breaks>>
  BY DEF OpenRemote
<1>3. u.step \in 1..Len(Steps(f)) /\ Nth(f, u.step) = "OpenPipeWireRemote"
  BY <1>1, <1>2 DEF FlowGood, DialogsGood, StepOf, Nth
<1>4. /\ w \in FlowType
      /\ w.pc = (IF u.step = Len(Steps(f)) THEN "use" ELSE "step")
      /\ w.step = (IF u.step = Len(Steps(f)) THEN u.step ELSE u.step + 1)
      /\ w.dialogs = u.dialogs /\ w.tries = u.tries /\ w.inbox = u.inbox
      /\ w.session = u.session
  BY <1>1, <1>3, AdvanceFields
<1> HIDE DEF w
<1>5. Kind[f] # "shot" => u.session # None
  <2>1. Kind[f] # "shot" => Nth(f, 1) = "CreateSession"
    BY StepsKnown
  <2>2. Kind[f] # "shot" => u.step # 1
    BY <1>3, <2>1
  <2> QED BY <1>1, <1>2, <1>3, <2>2 DEF FlowGood, KnownGood, FlowType
<1>6. /\ sessions[u.session].consented
      /\ u.session # None =>
           /\ u.session \in DOMAIN sessions /\ sessions[u.session].open
           /\ SameConnection(f, sessions[u.session].from)
           /\ Kind[f] # "input" => sessions[u.session].from = f
  BY <1>1, <1>2, <1>3 DEF FlowGood, KnownGood
<1>7. FlowGood(f, w, requests, sessions)
  BY <1>1, <1>2, <1>4, <1>5, <1>6, AdvancedGood
<1>8. Moves(f, requests, sessions, requests', sessions')
  BY <1>2, StayMoves
<1> QED BY <1>1, <1>2, <1>4, <1>7, <1>8, ActorStep DEF TypeOK

\* The call fails, or nobody answers in time.
LEMMA FailuresHold ==
  ASSUME PortalConstants, PortalInv, NEW f \in Flows, CallFails(f) \/ Expire(f)
  PROVE  PortalInv'
<1>1. /\ flow[f].pc \in {"step", "await"} /\ FailStep(f) /\ breaks' = breaks + 1
      /\ UNCHANGED <<session, turns>>
  BY DEF CallFails, Expire
<1>2. breaks' \in Nat
  BY <1>1 DEF PortalInv, TypeOK
<1> QED BY <1>1, <1>2, FailStepHolds

\* An answer to the request of a call: the session it made is the call's own, the
\* consent it gives is for the session the call knows.
LEMMA ReceiveHolds ==
  ASSUME PortalConstants, PortalInv, NEW f \in Flows, Receive(f)
  PROVE  PortalInv'
<1> DEFINE u == flow[f]
<1>1. /\ TypeOK /\ u \in FlowType /\ FlowGood(f, u, requests, sessions)
      /\ WorldGood(requests, sessions) /\ KeptGood(session, sessions)
  BY DEF PortalInv, TypeOK
<1>2. PICK a \in u.inbox:
        /\ a.of = u.request
        /\ IF a.code # 0 THEN FailStep(f)
           ELSE /\ Flow(f, [Advance(f) EXCEPT
                             !.session = IF a.session # None THEN a.session ELSE @,
                             !.inbox = {b \in u.inbox: b.of > a.of}])
                /\ UNCHANGED <<owner, sessions, requests>>
  BY DEF Receive
<1>3. u.pc = "await" /\ UNCHANGED <<session, turns, breaks>>
  BY DEF Receive
<1>4. CASE a.code # 0
  <2>1. FailStep(f) /\ breaks' \in Nat
    BY <1>1, <1>2, <1>3, <1>4 DEF TypeOK
  <2> QED BY <1>3, <2>1, FailStepHolds
<1>5. CASE a.code = 0
  <2> DEFINE k == IF a.session # None THEN a.session ELSE u.session
             w == [Advance(f) EXCEPT !.session = k, !.inbox = {b \in u.inbox: b.of > a.of}]
  <2>1. /\ a \in Messages /\ AnswerGood(a, requests, sessions)
        /\ u.inbox \in SUBSET Messages /\ u.session \in Numbers
    BY <1>1 DEF FlowGood, FlowType
  <2>2. u.step \in 1..Len(Steps(f))
    BY <1>1 DEF FlowGood, DialogsGood
  <2>3. /\ Advance(f) \in FlowType
        /\ Advance(f).pc = (IF u.step = Len(Steps(f)) THEN "use" ELSE "step")
        /\ Advance(f).step = (IF u.step = Len(Steps(f)) THEN u.step ELSE u.step + 1)
        /\ Advance(f).dialogs = u.dialogs /\ Advance(f).tries = u.tries
        /\ Advance(f).session = u.session
    BY <1>1, <2>2, AdvanceFields
  <2>4. Flow(f, w) /\ UNCHANGED <<owner, sessions, requests>>
    BY <1>2, <1>5, <2>3 DEF FlowType
  <2>5. k \in Numbers
    BY <2>1 DEF Messages
  <2> HIDE DEF k
  <2>6. /\ w \in FlowType
        /\ w.pc = (IF u.step = Len(Steps(f)) THEN "use" ELSE "step")
        /\ w.step = (IF u.step = Len(Steps(f)) THEN u.step ELSE u.step + 1)
        /\ w.dialogs = u.dialogs /\ w.tries = u.tries /\ w.inbox \subseteq u.inbox
        /\ w.session = k
    BY <2>1, <2>3, <2>5 DEF FlowType
  <2> HIDE DEF w
  <2>7. /\ u.request \in DOMAIN requests /\ requests[u.request].from = f
        /\ requests[u.request].step = Nth(f, u.step)
        /\ requests[u.request].of = u.session
        /\ requests[u.request].state = "granted"
        /\ \A j \in DOMAIN sessions: sessions[j].request = u.request => sessions[j].open
    BY <1>1, <1>2, <1>3, <1>5, <2>1 DEF FlowGood, WaitGood, AnswerGood
  <2>8. CASE Nth(f, u.step) = "CreateSession"
    <3>1. a.session \in DOMAIN sessions /\ sessions[a.session].request = u.request
      BY <1>2, <1>5, <2>1, <2>7, <2>8 DEF AnswerGood
    <3>2. sessions[a.session].open /\ sessions[a.session].from = f
      <4>1. SessionGood(sessions[a.session], requests)
        BY <1>1, <3>1 DEF WorldGood
      <4> QED BY <2>7, <3>1, <4>1 DEF SessionGood
    <3>3. a.session # None /\ k = a.session
      <4>1. DOMAIN sessions \subseteq Nat
        BY <1>1 DEF TypeOK
      <4> QED BY <3>1, <4>1 DEF k, PortalConstants
    <3>4. FlowGood(f, w, requests, sessions)
      BY <1>1, <1>3, <2>6, <2>8, <3>1, <3>2, <3>3, AdvancedGood DEF SameConnection
    <3>5. Moves(f, requests, sessions, requests', sessions')
      BY <2>4, StayMoves
    <3> QED BY <1>1, <1>3, <2>4, <2>6, <3>4, <3>5, ActorStep DEF TypeOK
  <2>9. CASE Nth(f, u.step) # "CreateSession"
    <3>1. k = u.session
      BY <1>2, <1>5, <2>1, <2>7, <2>9 DEF AnswerGood, k
    <3>2. /\ Kind[f] # "shot" => u.session # None
          /\ u.session # None =>
               /\ u.session \in DOMAIN sessions /\ sessions[u.session].open
               /\ SameConnection(f, sessions[u.session].from)
               /\ Kind[f] # "input" => sessions[u.session].from = f
      <4>1. Kind[f] # "shot" => u.step # 1
        BY <2>9, StepsKnown
      <4> QED BY <1>1, <1>3, <2>2, <4>1 DEF FlowGood, KnownGood, FlowType
    <3>3. Nth(f, u.step) = "Start" => sessions[u.session].consented
      BY <1>1, <2>7 DEF WorldGood, RequestGood
    <3>4. Nth(f, u.step) # "OpenPipeWireRemote"
      BY <1>1, <2>7 DEF WorldGood, RequestGood
    <3>5. FlowGood(f, w, requests, sessions)
      BY <1>1, <1>3, <2>6, <3>1, <3>2, <3>3, <3>4, AdvancedGood
    <3>6. Moves(f, requests, sessions, requests', sessions')
      BY <2>4, StayMoves
    <3> QED BY <1>1, <1>3, <2>4, <2>6, <3>5, <3>6, ActorStep DEF TypeOK
  <2> QED BY <2>8, <2>9
<1>6. a.code = 0 \/ a.code # 0
  OBVIOUS
<1> QED BY <1>4, <1>5, <1>6

\* A session is used: the input provider keeps it, the others go on to close it.
LEMMA UseHolds ==
  ASSUME PortalConstants, PortalInv, NEW f \in Flows, Use(f)
  PROVE  PortalInv'
<1> DEFINE u == flow[f]
<1>1. /\ TypeOK /\ u \in FlowType /\ FlowGood(f, u, requests, sessions)
      /\ WorldGood(requests, sessions) /\ KeptGood(session, sessions)
      /\ owner \in Flows \union {None}
  BY DEF PortalInv, TypeOK
<1>2. u.pc = "use" /\ UNCHANGED <<requests, sessions, turns, breaks>>
  BY DEF Use
<1>3. Moves(f, requests, sessions, requests', sessions')
  BY <1>2, StayMoves
<1>4. CASE Kind[f] \in {"input", "shot"}
  <2> DEFINE v == [u EXCEPT !.pc = "idle", !.inbox = {}, !.result = "ok"]
  <2>1. Flow(f, v) /\ owner' \in Flows \union {None}
    BY <1>1, <1>4 DEF Use, Return
  <2>2. /\ v \in FlowType /\ v.pc = "idle" /\ v.session = u.session /\ v.step = u.step
        /\ v.inbox = {} /\ v.dialogs = u.dialogs /\ v.tries = u.tries
    BY <1>1 DEF FlowType
  <2> HIDE DEF v
  <2>3. session' \in Numbers /\ KeptGood(session', sessions)
    <3>1. CASE Kind[f] = "shot"
      BY <1>1, <3>1 DEF Use, TypeOK
    <3>2. CASE Kind[f] = "input"
      <4>1. session' = u.session /\ u.session \in Numbers
        BY <1>1, <3>2 DEF Use, FlowType
      <4>2. /\ u.session \in DOMAIN sessions
            /\ sessions[u.session].consented /\ sessions[u.session].open
            /\ Kind[sessions[u.session].from] = "input"
        BY <1>1, <1>2, <3>2 DEF FlowGood, KnownGood, SameConnection
      <4> QED BY <4>1, <4>2 DEF KeptGood
    <3> QED BY <1>4, <3>1, <3>2
  <2>4. LeftGood(f, v, requests, sessions)
    <3>1. \A j \in DOMAIN sessions: Kind[sessions[j].from] # "shot"
      BY <1>1, ShotsHaveNone
    <3> QED BY <1>4, <3>1 DEF LeftGood
  <2>5. FlowGood(f, v, requests', sessions')
    BY <1>1, <1>2, <1>3, <2>2, <2>4, ReturnedGood
  <2> QED BY <1>1, <1>2, <1>3, <2>1, <2>2, <2>3, <2>5, ActorStep DEF TypeOK
<1>5. CASE Kind[f] \in {"capture", "hold"}
  <2>1. PICK how \in {u.result, "ok"}:
          Flow(f, [u EXCEPT !.pc = "close", !.result = how])
    <3>1. u = [u EXCEPT !.result = u.result]
      BY <1>1 DEF FlowType
    <3>2. [u EXCEPT !.pc = "close"] = [u EXCEPT !.pc = "close", !.result = u.result]
      BY <1>1 DEF FlowType
    <3> QED BY <1>5, <3>2 DEF Use
  <2> DEFINE v == [u EXCEPT !.pc = "close", !.result = how]
  <2>2. UNCHANGED <<owner, session>>
    BY <1>5 DEF Use
  <2>3. /\ v \in FlowType /\ v.pc = "close" /\ v.session = u.session /\ v.step = u.step
        /\ v.inbox = u.inbox /\ v.dialogs = u.dialogs /\ v.tries = u.tries
    BY <1>1, <2>1 DEF FlowType
  <2>4. Flow(f, v)
    BY <2>1
  <2> HIDE DEF v
  <2>5. FlowGood(f, v, requests, sessions)
    BY <1>1, <1>2, <1>5, <2>3
    DEF FlowGood, KnownGood, WaitGood, DialogsGood, LeftGood
  <2> QED BY <1>1, <1>2, <1>3, <2>2, <2>3, <2>4, <2>5, ActorStep DEF TypeOK
<1> QED BY <1>4, <1>5, StepsKnown DEF Kinds

\* A use that fails: the input provider asks again, once.
LEMMA UseFailsHolds ==
  ASSUME PortalConstants, PortalInv, NEW f \in Flows, UseFails(f)
  PROVE  PortalInv'
<1> DEFINE u == flow[f]
<1>1. /\ TypeOK /\ u \in FlowType /\ FlowGood(f, u, requests, sessions)
      /\ WorldGood(requests, sessions) /\ KeptGood(session, sessions)
      /\ owner \in Flows \union {None}
  BY DEF PortalInv, TypeOK
<1>2. u.pc = "use" /\ turns' \in [Flows -> Nat] /\ breaks' \in Nat
  BY <1>1 DEF UseFails, TypeOK
<1>3. CASE Kind[f] # "input"
  <2>1. Fail(f) /\ session' = session
    BY <1>3 DEF UseFails
  <2> QED BY <1>1, <1>2, <2>1, FailHolds DEF TypeOK
<1>4. CASE Kind[f] = "input" /\ u.tries = 0
  <2> DEFINE v == [u EXCEPT !.pc = "step", !.step = 1, !.tries = 1, !.session = None]
  <2>1. Flow(f, v) /\ session' = None /\ UNCHANGED <<owner, sessions, requests>>
    BY <1>4 DEF UseFails
  <2>2. /\ v \in FlowType /\ v.pc = "step" /\ v.session = None /\ v.step = 1
        /\ v.inbox = u.inbox /\ v.dialogs = u.dialogs /\ v.tries = 1
    <3>1. None \in Numbers /\ 1 \in 0..1 /\ 1 \in 1..4
      BY DEF Numbers
    <3> QED BY <1>1, <3>1 DEF FlowType
  <2> HIDE DEF v
  <2>3. u.dialogs <= 1
    BY <1>1, <1>4 DEF FlowGood, DialogsGood
  <2>4. FlowGood(f, v, requests, sessions)
    <3>1. Nth(f, 1) # "OpenPipeWireRemote" /\ 1 \in 1..Len(Steps(f))
      BY <1>4, StepsKnown
    <3>2. KnownGood(f, v, sessions)
      BY <2>2, <3>1 DEF KnownGood
    <3>3. DialogsGood(f, v)
      BY <1>1, <2>2, <2>3, <3>1 DEF DialogsGood, FlowType
    <3>4. WaitGood(f, v, requests, sessions) /\ LeftGood(f, v, requests, sessions)
      BY <2>2 DEF WaitGood, LeftGood
    <3> QED BY <1>1, <2>2, <3>2, <3>3, <3>4 DEF FlowGood
  <2>5. Moves(f, requests, sessions, requests', sessions')
    BY <2>1, StayMoves
  <2>6. session' \in Numbers /\ KeptGood(session', sessions)
    BY <2>1 DEF Numbers, KeptGood
  <2> QED BY <1>1, <1>2, <2>1, <2>2, <2>4, <2>5, <2>6, ActorStep DEF TypeOK
<1>5. CASE Kind[f] = "input" /\ u.tries # 0
  <2> DEFINE v == [u EXCEPT !.pc = "idle", !.inbox = {}, !.result = "error"]
  <2>1. /\ Flow(f, v) /\ owner' \in Flows \union {None}
        /\ session' = u.session /\ UNCHANGED <<sessions, requests>>
    BY <1>1, <1>5 DEF UseFails, Return
  <2>2. /\ v \in FlowType /\ v.pc = "idle" /\ v.session = u.session /\ v.step = u.step
        /\ v.inbox = {} /\ v.dialogs = u.dialogs /\ v.tries = u.tries
    BY <1>1 DEF FlowType
  <2> HIDE DEF v
  <2>3. session' \in Numbers /\ KeptGood(session', sessions)
    <3>1. /\ u.session \in DOMAIN sessions
          /\ sessions[u.session].consented /\ sessions[u.session].open
          /\ Kind[sessions[u.session].from] = "input"
      BY <1>1, <1>2, <1>5 DEF FlowGood, KnownGood, SameConnection
    <3> QED BY <1>1, <2>1, <3>1 DEF KeptGood, FlowType
  <2>4. Moves(f, requests, sessions, requests', sessions')
    BY <2>1, StayMoves
  <2>5. LeftGood(f, v, requests, sessions)
    BY <1>5 DEF LeftGood
  <2>6. FlowGood(f, v, requests', sessions')
    BY <1>1, <2>1, <2>2, <2>4, <2>5, ReturnedGood
  <2> QED BY <1>1, <1>2, <2>1, <2>2, <2>3, <2>4, <2>6, ActorStep DEF TypeOK
<1> QED BY <1>3, <1>4, <1>5

\* A session is given back, with the connection when it is a held stream's.
LEMMA CloseSessionHolds ==
  ASSUME PortalConstants, PortalInv, NEW f \in Flows, CloseSession(f)
  PROVE  PortalInv'
<1> DEFINE u == flow[f]
<1>1. /\ TypeOK /\ u \in FlowType /\ FlowGood(f, u, requests, sessions)
      /\ WorldGood(requests, sessions) /\ KeptGood(session, sessions)
      /\ owner \in Flows \union {None} /\ requests \in Seq(RequestType)
      /\ sessions \in Seq(PortalSessions)
  BY DEF PortalInv, TypeOK
<1>2. u.pc = "close" /\ UNCHANGED <<session, turns>>
  BY DEF CloseSession
<1>3. Kind[f] \in {"capture", "hold"}
  BY <1>1, <1>2 DEF FlowGood, DialogsGood
<1>4. /\ u.session \in Numbers
      /\ u.session # None => u.session \in DOMAIN sessions /\ sessions[u.session].from = f
  BY <1>1, <1>3 DEF FlowGood, KnownGood, FlowType
<1>5. None \notin DOMAIN sessions
  BY <1>1 DEF PortalConstants
<1> DEFINE how == IF Kind[f] = "hold" THEN "ok" ELSE u.result
           v == [u EXCEPT !.pc = "idle", !.inbox = {}, !.result = how]
           w == [u EXCEPT !.pc = "idle", !.inbox = {}, !.unclosed = TRUE]
<1>6. /\ v \in FlowType /\ v.pc = "idle" /\ v.session = u.session /\ v.step = u.step
      /\ v.inbox = {} /\ v.dialogs = u.dialogs /\ v.tries = u.tries
  <2>1. how \in {"none", "ok", "error"}
    BY <1>1 DEF FlowType
  <2> HIDE DEF how
  <2> QED BY <1>1, <2>1 DEF FlowType
<1>7. /\ w \in FlowType /\ w.pc = "idle" /\ w.session = u.session /\ w.step = u.step
      /\ w.inbox = {} /\ w.dialogs = u.dialogs /\ w.tries = u.tries /\ w.unclosed = TRUE
  BY <1>1 DEF FlowType
<1> HIDE DEF v, w
<1>8. CASE /\ IF Kind[f] = "hold" THEN DropConnection(f)
              ELSE /\ sessions' = Close([i \in DOMAIN sessions |-> i = u.session])
                   /\ UNCHANGED requests
           /\ Return(f, how)
           /\ UNCHANGED breaks
  <2>1. Flow(f, v) /\ owner' \in Flows \union {None}
    BY <1>1, <1>8 DEF Return, v
  <2>2. /\ Moves(f, requests, sessions, requests', sessions')
        /\ requests' \in Seq(RequestType) /\ sessions' \in Seq(PortalSessions)
        /\ LeftGood(f, v, requests', sessions')
    <3>1. CASE Kind[f] = "hold"
      <4>1. DropConnection(f)
        BY <1>8, <3>1
      <4> QED BY <1>1, <3>1, <4>1, DropMoves DEF LeftGood
    <3>2. CASE Kind[f] = "capture"
      <4>1. /\ sessions' = Close([i \in DOMAIN sessions |-> i = u.session])
            /\ requests' = requests
        BY <1>8, <3>2
      <4>2. /\ Moves(f, requests, sessions, requests', sessions')
            /\ sessions' \in Seq(PortalSessions)
            /\ u.session # None => ~sessions'[u.session].open
        BY <1>1, <1>4, <3>2, <4>1, CloseMoves
      <4>3. DOMAIN sessions' = DOMAIN sessions
        BY <4>2 DEF Moves
      <4> QED BY <1>1, <1>5, <1>6, <3>2, <4>1, <4>2, <4>3 DEF LeftGood
    <3> QED BY <1>3, <3>1, <3>2
  <2>3. FlowGood(f, v, requests', sessions')
    BY <1>1, <1>6, <2>2, ReturnedGood
  <2>4. breaks' \in Nat /\ session' \in Numbers /\ turns' \in [Flows -> Nat]
    BY <1>1, <1>2, <1>8 DEF TypeOK
  <2> QED BY <1>1, <1>2, <1>6, <2>1, <2>2, <2>3, <2>4, ActorStep
<1>9. CASE /\ Kind[f] = "capture" /\ breaks < MaxBreaks
           /\ breaks' = breaks + 1
           /\ Flow(f, w)
           /\ UNCHANGED <<owner, sessions, requests>>
  <2>1. Moves(f, requests, sessions, requests', sessions')
    BY <1>9, StayMoves
  <2>2. LeftGood(f, w, requests, sessions)
    BY <1>7, <1>9 DEF LeftGood
  <2>3. FlowGood(f, w, requests', sessions')
    BY <1>1, <1>7, <1>9, <2>1, <2>2, ReturnedGood
  <2>4. breaks' \in Nat /\ session' \in Numbers /\ turns' \in [Flows -> Nat]
    BY <1>1, <1>2, <1>9 DEF TypeOK
  <2> QED BY <1>1, <1>2, <1>7, <1>9, <2>1, <2>3, <2>4, ActorStep
<1> QED BY <1>8, <1>9 DEF CloseSession, v, w

-----------------------------------------------------------------------------
(* The portal's answers *)

\* An answer makes at most one session, or gives consent to one, and reaches every
\* call that is listening on the connection.
LEMMA AnswerHolds ==
  ASSUME PortalConstants, PortalInv, NEW i \in DOMAIN requests, NEW code \in 0..1,
         Answer(i, code)
  PROVE  PortalInv'
<1> DEFINE r == requests[i]
           n == Len(sessions) + 1
           x == [r EXCEPT !.state = IF code = 0 THEN "granted" ELSE "refused"]
           s == [from |-> r.from, request |-> i, consented |-> FALSE, open |-> TRUE]
           made == code = 0 /\ r.step = "CreateSession"
           m == [of |-> i, code |-> code, session |-> IF r.step = "CreateSession" THEN n ELSE None]
<1>1. /\ TypeOK /\ WorldGood(requests, sessions) /\ KeptGood(session, sessions)
      /\ requests \in Seq(RequestType) /\ sessions \in Seq(PortalSessions)
      /\ flow \in [Flows -> FlowType] /\ Len(sessions) \in Nat /\ Len(requests) \in Nat
      /\ DOMAIN requests = 1..Len(requests) /\ DOMAIN sessions = 1..Len(sessions)
  BY DEF PortalInv, TypeOK
<1>2. r \in RequestType /\ RequestGood(r, sessions) /\ r.state = "open"
  BY <1>1 DEF WorldGood, Answer
<1>3. /\ x \in RequestType /\ x.state = (IF code = 0 THEN "granted" ELSE "refused")
      /\ x.from = r.from /\ x.step = r.step /\ x.of = r.of
  BY <1>2 DEF RequestType
<1>4. /\ s \in PortalSessions /\ s.from = r.from /\ s.request = i /\ s.open
      /\ s.consented = FALSE
  BY <1>1, <1>2 DEF PortalSessions, RequestType
<1>5. requests' = [requests EXCEPT ![i] = x]
  <2>1. requests' = [requests EXCEPT ![i].state = IF code = 0 THEN "granted" ELSE "refused"]
    BY DEF Answer
  <2> QED BY <2>1
<1>6. m \in Messages /\ m.of = i /\ m.code = code
      /\ m.session = (IF r.step = "CreateSession" THEN n ELSE None)
  BY <1>1 DEF Messages, Numbers
<1>7. flow' = [f \in Flows |->
         IF SameConnection(f, r.from) /\ flow[f].pc \in {"step", "await"}
         THEN [flow[f] EXCEPT !.inbox = flow[f].inbox \union {m}] ELSE flow[f]]
  BY <1>1 DEF Answer, FlowType
<1>8. UNCHANGED <<owner, session, turns, breaks>>
  BY DEF Answer
<1> HIDE DEF x, m
<1>9. /\ DOMAIN requests' = DOMAIN requests /\ requests'[i] = x
      /\ \A k \in DOMAIN requests: k # i => requests'[k] = requests[k]
      /\ requests' \in Seq(RequestType)
  BY <1>1, <1>3, <1>5
<1>10. /\ \A j \in DOMAIN sessions:
            /\ j \in DOMAIN sessions'
            /\ sessions'[j].from = sessions[j].from
            /\ sessions'[j].request = sessions[j].request
            /\ sessions'[j].open = sessions[j].open
            /\ sessions[j].consented => sessions'[j].consented
       /\ \A j \in DOMAIN sessions': j \notin DOMAIN sessions => made /\ j = n /\ sessions'[j] = s
       /\ made => n \in DOMAIN sessions' /\ sessions'[n] = s
       /\ code = 0 /\ r.step = "Start" => sessions'[r.of].consented
       /\ sessions' \in Seq(PortalSessions)
  <2>1. CASE made
    <3>1. sessions' = Append(sessions, s)
      BY <2>1 DEF Answer
    <3> HIDE DEF s
    <3>2. /\ sessions' \in Seq(PortalSessions) /\ Len(sessions') = n
          /\ \A j \in 1..Len(sessions): sessions'[j] = sessions[j]
          /\ sessions'[n] = s
      BY <1>1, <1>4, <3>1, AppendProperties
    <3>3. DOMAIN sessions' = 1..n
      BY <3>2
    <3>4. \A j \in 1..n: j \in 1..Len(sessions) \/ j = n
      BY <1>1
    <3> QED BY <1>1, <2>1, <3>2, <3>3, <3>4
  <2>2. CASE code = 0 /\ r.step = "Start"
    <3> DEFINE yes == [sessions[r.of] EXCEPT !.consented = TRUE]
    <3>1. r.of \in DOMAIN sessions
      BY <1>2, <2>2 DEF RequestGood
    <3>2. sessions' = [sessions EXCEPT ![r.of] = yes]
      BY <2>2 DEF Answer
    <3>3. sessions[r.of] \in PortalSessions
      BY <1>1, <3>1
    <3>4. /\ yes \in PortalSessions /\ yes.from = sessions[r.of].from
          /\ yes.request = sessions[r.of].request /\ yes.open = sessions[r.of].open
          /\ yes.consented = TRUE
      BY <3>3 DEF PortalSessions
    <3> HIDE DEF yes
    <3>5. /\ DOMAIN sessions' = DOMAIN sessions /\ sessions'[r.of] = yes
          /\ \A j \in DOMAIN sessions: j # r.of => sessions'[j] = sessions[j]
          /\ sessions' \in Seq(PortalSessions)
      BY <1>1, <3>1, <3>2, <3>4
    <3> QED BY <2>2, <3>4, <3>5
  <2>3. CASE ~made /\ ~(code = 0 /\ r.step = "Start")
    <3>1. sessions' = sessions
      BY <2>3 DEF Answer
    <3> QED BY <1>1, <2>3, <3>1
  <2> QED BY <2>1, <2>2, <2>3
<1> HIDE DEF s
<1>11. \A j \in DOMAIN sessions: sessions[j].request # i
  BY <1>1, <1>2 DEF WorldGood, SessionGood
<1>12. WorldGood(requests', sessions')
  <2>1. ASSUME NEW k \in DOMAIN requests' PROVE RequestGood(requests'[k], sessions')
    <3>1. RequestGood(requests[k], sessions)
      BY <1>1, <1>9 DEF WorldGood
    <3>2. /\ requests'[k].from = requests[k].from /\ requests'[k].step = requests[k].step
          /\ requests'[k].of = requests[k].of
          /\ k # i => requests'[k].state = requests[k].state
      BY <1>3, <1>9
    <3>3. k = i /\ r.step = "Start" /\ requests'[k].state = "granted" => sessions'[r.of].consented
      BY <1>3, <1>9, <1>10
    <3> QED BY <1>10, <3>1, <3>2, <3>3 DEF RequestGood
  <2>2. ASSUME NEW j \in DOMAIN sessions' PROVE SessionGood(sessions'[j], requests')
    <3>1. CASE j \in DOMAIN sessions
      <4>1. SessionGood(sessions[j], requests)
        BY <1>1, <3>1 DEF WorldGood
      <4> QED BY <1>9, <1>10, <1>11, <3>1, <4>1 DEF SessionGood
    <3>2. CASE j \notin DOMAIN sessions
      <4>1. made /\ sessions'[j] = s
        BY <1>10, <3>2
      <4> QED BY <1>3, <1>4, <1>9, <4>1 DEF SessionGood
    <3> QED BY <3>1, <3>2
  <2> QED BY <2>1, <2>2 DEF WorldGood
<1>13. KeptGood(session', sessions')
  BY <1>1, <1>8, <1>10 DEF KeptGood
<1>14. ASSUME NEW f \in Flows
       PROVE  flow'[f] \in FlowType /\ FlowGood(f, flow'[f], requests', sessions')
  <2> DEFINE u == flow[f]
             v == flow'[f]
  <2>1. u \in FlowType /\ FlowGood(f, u, requests, sessions)
    BY <1>1 DEF PortalInv
  <2>2. /\ v \in FlowType /\ v.pc = u.pc /\ v.step = u.step /\ v.request = u.request
        /\ v.session = u.session /\ v.dialogs = u.dialogs /\ v.tries = u.tries
        /\ v.unclosed = u.unclosed
        /\ \A a \in v.inbox: a \in u.inbox \/ a = m
    BY <1>6, <1>7, <2>1 DEF FlowType
  <2> HIDE DEF u, v
  <2>3. KnownGood(f, v, sessions')
    <3>1. KnownGood(f, u, sessions)
      BY <2>1 DEF FlowGood
    <3>2. Nth(f, 1) # "OpenPipeWireRemote"
      BY StepsKnown DEF Kinds
    <3>3. u.step \in 1..4
      BY <2>1 DEF FlowType
    <3>4. u.pc = "step" /\ Nth(f, u.step) = "OpenPipeWireRemote" => u.session # None
      BY <3>1, <3>2, <3>3 DEF KnownGood
    <3> QED BY <1>10, <2>2, <3>1, <3>4 DEF KnownGood
  <2>4. WaitGood(f, v, requests', sessions')
    <3>1. WaitGood(f, u, requests, sessions)
      BY <2>1 DEF FlowGood
    <3>2. \A k \in DOMAIN requests:
            /\ k \in DOMAIN requests' /\ requests'[k].from = requests[k].from
            /\ requests'[k].step = requests[k].step /\ requests'[k].of = requests[k].of
      BY <1>3, <1>9
    <3>3. \A j \in DOMAIN sessions':
            j \in DOMAIN sessions \/ sessions'[j].open
      BY <1>4, <1>10
    <3> QED BY <1>10, <2>2, <3>1, <3>2, <3>3 DEF WaitGood
  <2>5. ASSUME NEW a \in v.inbox PROVE AnswerGood(a, requests', sessions')
    <3>1. CASE a \in u.inbox
      <4>1. AnswerGood(a, requests, sessions)
        BY <2>1, <3>1 DEF FlowGood
      <4>2. a.code = 0 => a.of # i
        BY <1>2, <4>1 DEF AnswerGood
      <4> QED BY <1>9, <1>10, <4>1, <4>2 DEF AnswerGood
    <3>2. CASE a = m
      <4>1. made => n \in DOMAIN sessions' /\ sessions'[n].request = i
        BY <1>4, <1>10
      <4> QED BY <1>3, <1>6, <1>9, <3>2, <4>1 DEF AnswerGood
    <3> QED BY <2>2, <3>1, <3>2
  <2>6. DialogsGood(f, v)
    BY <2>1, <2>2 DEF FlowGood, DialogsGood
  <2>7. LeftGood(f, v, requests', sessions')
    <3> SUFFICES ASSUME v.pc = "idle" PROVE LeftGood(f, v, requests', sessions')
      BY DEF LeftGood
    <3>1. LeftGood(f, u, requests, sessions)
      BY <2>1 DEF FlowGood
    <3>2. ASSUME NEW j \in DOMAIN sessions', sessions'[j].from = f, sessions'[j].open
          PROVE  \/ Kind[f] = "input"
                 \/ Kind[f] = "capture" /\ (v.session # j \/ v.unclosed)
      <4>1. CASE j \in DOMAIN sessions
        BY <1>10, <2>2, <3>1, <3>2, <4>1 DEF LeftGood
      <4>2. CASE j \notin DOMAIN sessions
        <5>1. made /\ r.from = f
          BY <1>4, <1>10, <3>2, <4>2
        <5>2. Kind[f] # "hold"
          BY <1>2, <2>2, <3>1, <5>1 DEF LeftGood
        <5>3. Kind[f] # "shot"
          <6>1. PICK k \in 1..Len(Steps(f)): Nth(f, k) = "CreateSession"
            BY <1>2, <5>1 DEF RequestGood
          <6>2. Kind[f] = "shot" => Len(Steps(f)) = 1 /\ Nth(f, 1) = "Screenshot"
            BY StepsKnown
          <6>3. Len(Steps(f)) = 1 => k = 1
            OBVIOUS
          <6> QED BY <6>1, <6>2, <6>3
        <5>4. u.session = None \/ u.session \in DOMAIN sessions
          BY <2>1 DEF FlowGood, KnownGood
        <5>5. j \in Nat
          BY <1>1, <1>10, <4>2
        <5>6. v.session # j
          BY <2>2, <4>2, <5>4, <5>5 DEF PortalConstants
        <5> QED BY <5>2, <5>3, <5>6, StepsKnown DEF Kinds
      <4> QED BY <4>1, <4>2
    <3>3. ASSUME Kind[f] = "hold", NEW k \in DOMAIN requests', requests'[k].from = f
          PROVE  requests'[k].state # "open"
      <4>1. k # i => requests'[k] = requests[k]
        BY <1>9
      <4> QED BY <1>3, <1>9, <2>2, <3>1, <3>3, <4>1 DEF LeftGood
    <3> QED BY <3>2, <3>3 DEF LeftGood
  <2> QED BY <2>2, <2>3, <2>4, <2>5, <2>6, <2>7 DEF FlowGood, v
<1>15. TypeOK'
  <2>1. flow' = [f \in Flows |-> flow'[f]]
    BY <1>7
  <2>2. flow' \in [Flows -> FlowType]
    BY <1>14, <2>1
  <2> QED BY <1>1, <1>8, <1>9, <1>10, <2>2 DEF TypeOK
<1> QED BY <1>12, <1>13, <1>14, <1>15 DEF PortalInv

-----------------------------------------------------------------------------
(* The theorem *)

\* Nothing has been asked for at first.
LEMMA PortalStarts ==
  ASSUME PortalConstants, Init
  PROVE  PortalInv
<1>1. /\ flow = [f \in Flows |-> Idle] /\ owner = None /\ session = None
      /\ requests = <<>> /\ sessions = <<>> /\ turns \in Casts /\ breaks = 0
  BY DEF Init
<1>2. /\ Idle \in FlowType /\ Idle.pc = "idle" /\ Idle.step = 1 /\ Idle.session = None
      /\ Idle.inbox = {} /\ Idle.dialogs = 0 /\ Idle.tries = 0
  <2>1. {} \in SUBSET Messages /\ None \in Numbers
    BY DEF Numbers
  <2> QED BY <2>1 DEF Idle, FlowType
<1>3. TypeOK
  <2>1. /\ flow \in [Flows -> FlowType] /\ owner \in Flows \union {None}
        /\ session \in Numbers
    BY <1>1, <1>2 DEF Numbers
  <2>2. turns \in [Flows -> Nat] /\ breaks \in Nat
    BY <1>1 DEF PortalConstants
  <2>3. requests \in Seq(RequestType) /\ sessions \in Seq(PortalSessions)
    BY <1>1
  <2> QED BY <2>1, <2>2, <2>3 DEF TypeOK
<1>4. DOMAIN requests = {} /\ DOMAIN sessions = {}
  BY <1>1
<1>5. ASSUME NEW f \in Flows PROVE FlowGood(f, flow[f], requests, sessions)
  <2>1. 1 \in 1..Len(Steps(f))
    BY StepsKnown
  <2>2. flow[f] = Idle
    BY <1>1
  <2>3. KnownGood(f, Idle, sessions)
    BY <1>2 DEF KnownGood
  <2>4. DialogsGood(f, Idle)
    BY <1>2, <2>1 DEF DialogsGood
  <2>5. WaitGood(f, Idle, requests, sessions) /\ LeftGood(f, Idle, requests, sessions)
    BY <1>2, <1>4 DEF WaitGood, LeftGood
  <2> QED BY <1>2, <2>2, <2>3, <2>4, <2>5 DEF FlowGood
<1>6. WorldGood(requests, sessions) /\ KeptGood(session, sessions)
  BY <1>1, <1>4 DEF WorldGood, KeptGood
<1> QED BY <1>3, <1>5, <1>6 DEF PortalInv

\* The invariant gives the property: what a call uses has been consented to and is
\* its own, and what it leaves behind is closed.
LEMMA PortalEnough ==
  ASSUME PortalConstants, PortalInv
  PROVE  SessionsConsented
<1>1. /\ TypeOK /\ WorldGood(requests, sessions)
      /\ \A f \in Flows: flow[f] \in FlowType /\ FlowGood(f, flow[f], requests, sessions)
  BY DEF PortalInv, TypeOK
<1>2. \A j \in DOMAIN sessions: requests[sessions[j].request].from = sessions[j].from
  BY <1>1 DEF WorldGood, SessionGood
<1>3. ConsentedUse
  <2> SUFFICES ASSUME NEW f \in Flows
               PROVE  /\ (flow[f].pc = "use" /\ Kind[f] # "shot") =>
                           /\ flow[f].session # None
                           /\ sessions[flow[f].session].consented
                           /\ sessions[flow[f].session].open
                      /\ flow[f].session # None =>
                           LET r == requests[sessions[flow[f].session].request]
                           IN /\ SameConnection(f, r.from)
                              /\ Kind[f] # "input" => r.from = f
                      /\ flow[f].dialogs <= 1 + flow[f].tries /\ flow[f].tries <= 1
    BY DEF ConsentedUse
  <2>1. KnownGood(f, flow[f], sessions) /\ DialogsGood(f, flow[f]) /\ flow[f] \in FlowType
    BY <1>1 DEF FlowGood
  <2>2. flow[f].dialogs <= 1 + flow[f].tries /\ flow[f].tries <= 1
    BY <2>1 DEF DialogsGood, FlowType
  <2> QED BY <1>2, <2>1, <2>2 DEF KnownGood
<1>4. SessionsClosed
  BY <1>1 DEF SessionsClosed, FlowGood, LeftGood
<1> QED BY <1>3, <1>4 DEF SessionsConsented

\* Every step keeps the invariant.
LEMMA PortalSteps ==
  ASSUME PortalConstants, PortalInv, [Next]_portalVars
  PROVE  PortalInv'
<1>1. CASE UNCHANGED portalVars
  BY <1>1 DEF portalVars, PortalInv, TypeOK
<1>2. CASE PortalAnswers
  BY <1>2, AnswerHolds DEF PortalAnswers
<1>3. ASSUME NEW f \in Flows,
             \/ Begin(f) \/ Lock(f) \/ Request(f) \/ OpenRemote(f) \/ CallFails(f)
             \/ Receive(f) \/ Expire(f) \/ Use(f) \/ UseFails(f) \/ CloseSession(f)
      PROVE  PortalInv'
  BY <1>3, BeginHolds, LockHolds, RequestHolds, OpenRemoteHolds, FailuresHold, ReceiveHolds,
     UseHolds, UseFailsHolds, CloseSessionHolds
<1> QED BY <1>1, <1>2, <1>3 DEF Next

\* For any calls of any kinds on the portal's connections, however late or refused
\* its answers are and whatever fails: no session is used that the user has not
\* consented to in a dialog of its own or that belongs to another handshake, no
\* call asks more than twice, and a capture or a held stream leaves no session open
\* (portal_input.rs, portal_capture.rs, portal_stream.rs).
THEOREM PortalSound == Spec => []SessionsConsented
<1>1. Init => PortalInv
  BY PortalAssumption, PortalStarts
<1>2. PortalInv /\ [Next]_portalVars => PortalInv'
  BY PortalAssumption, PortalSteps
<1>3. PortalInv => SessionsConsented
  BY PortalAssumption, PortalEnough
<1> QED BY <1>1, <1>2, <1>3, PTL DEF Spec

-----------------------------------------------------------------------------
(* The clipboard *)

Texts == {r.text: r \in Requests} \union {NoText}
Contents == {Nobody, Blank} \union Copied \union Texts
CopyRecord ==
  [op: {"none", "get", "list", "set", "clear"}, mime: {r.mime: r \in Requests} \union {""},
   text: Texts, stage: {"idle", "spawn", "running", "exited", "over"}, alive: BOOLEAN,
   out: SUBSET ({"image", "text"} \union {TextOf(s): s \in Contents}),
   seen: SUBSET Contents,
   answer: {NoText, "invalid", "unavailable", "failed", "nothing", "done"}]

\* What a helper has done was so of a content its call has seen.
Borne(k) ==
  /\ k.op \in {"get", "list"} => \E s \in k.seen: Printed(k, s) = k.out
  /\ k.op = "set" => k.text \in k.seen
  /\ k.op = "clear" => \E s \in k.seen: TextOf(s) \in {NoText, Blank}

\* A helper is alive only while its call waits for it, and the call has seen
\* every content since it runs, the present one among them.
CopyGood(k, s) ==
  /\ k \in CopyRecord
  /\ k.alive => k.stage = "running"
  /\ k.answer = "done" => k.stage = "over"
  /\ k.stage \in {"running", "exited"} => s \in k.seen
  /\ k.stage \in {"spawn", "running"} => k.op # "none"
  /\ (k.stage = "exited" \/ k.answer = "done") => k.op # "none" /\ Borne(k)

ClipboardInv ==
  /\ ~late
  /\ selection \in Contents
  /\ copies = [c \in Clients |-> copies[c]]
  /\ \A c \in Clients: CopyGood(copies[c], selection)

\* What a helper prints is one of the things there are to see.
LEMMA PrintedTyped ==
  ASSUME NEW k \in CopyRecord, NEW s \in Contents
  PROVE  Printed(k, s) \in SUBSET ({"image", "text"} \union {TextOf(t): t \in Contents})
  BY DEF Printed, Types

\* A call stays good when it sees one content more, which is then the present one.
LEMMA SeenGrows ==
  ASSUME NEW k, NEW s0, CopyGood(k, s0), NEW s \in Contents
  PROVE  CopyGood([k EXCEPT !.seen = @ \union {s}], s)
<1> DEFINE n == [k EXCEPT !.seen = @ \union {s}]
<1>1. /\ n \in CopyRecord
      /\ n.op = k.op /\ n.text = k.text /\ n.stage = k.stage /\ n.alive = k.alive
      /\ n.out = k.out /\ n.answer = k.answer /\ n.seen = k.seen \union {s}
  BY DEF CopyGood, CopyRecord
<1>2. \A t: Printed(n, t) = Printed(k, t)
  BY <1>1 DEF Printed
<1> HIDE DEF n
<1>3. Borne(k) => Borne(n)
  BY <1>1, <1>2 DEF Borne
<1> QED BY <1>1, <1>3 DEF CopyGood, n

\* A call that has nothing under way does not look at the content.
LEMMA NotLooking ==
  ASSUME NEW k, NEW s0, NEW s, CopyGood(k, s0), k.stage \notin {"running", "exited"}
  PROVE  CopyGood(k, s)
  BY DEF CopyGood

\* The step of one call leaves the others as they are.
LEMMA OneCopies ==
  ASSUME ClipboardInv, NEW c \in Clients, NEW k, CopyGood(k, selection),
         copies' = [copies EXCEPT ![c] = k], UNCHANGED <<late, selection>>
  PROVE  ClipboardInv'
  BY DEF ClipboardInv

\* A call that ends otherwise than by its helper's exit promises nothing.
LEMMA CopyEnds ==
  ASSUME ClipboardConstants, ClipboardInv, NEW c \in Clients,
         NEW a \in {"failed", "nothing"}, Over(c, a), UNCHANGED <<late, selection>>
  PROVE  ClipboardInv'
<1> DEFINE k == [copies[c] EXCEPT !.stage = "over", !.alive = FALSE, !.answer = a]
<1>1. CopyGood(copies[c], selection)
  BY DEF ClipboardInv
<1>2. k \in CopyRecord /\ k.stage = "over" /\ k.alive = FALSE /\ k.answer = a
  BY <1>1 DEF CopyGood, CopyRecord
<1>3. copies' = [copies EXCEPT ![c] = k]
  BY DEF Over, ClipboardInv
<1> HIDE DEF k
<1>4. CopyGood(k, selection)
  BY <1>2 DEF CopyGood
<1> QED BY <1>3, <1>4, OneCopies

\* A request that is refused, or for which there is no helper, is over at once.
LEMMA AskCopyStep ==
  ASSUME ClipboardConstants, ClipboardInv, NEW c \in Clients, NEW r \in Requests, Ask(c, r)
  PROVE  ClipboardInv'
<1> DEFINE k == [IdleCopy EXCEPT !.op = r.op, !.mime = r.mime, !.text = r.text,
          !.stage = IF Refused(r) \/ kit = "none" THEN "over" ELSE "spawn",
          !.answer = IF Refused(r) THEN "invalid"
                     ELSE IF kit = "none" THEN "unavailable" ELSE NoText]
<1>1. /\ k \in CopyRecord /\ k.stage \in {"over", "spawn"} /\ k.alive = FALSE
      /\ k.answer # "done" /\ k.op # "none"
  BY DEF IdleCopy, CopyRecord, Texts, ClipboardConstants
<1>2. copies' = [copies EXCEPT ![c] = k] /\ UNCHANGED <<late, selection>>
  BY DEF Ask
<1> HIDE DEF k
<1>3. CopyGood(k, selection)
  BY <1>1 DEF CopyGood
<1> QED BY <1>2, <1>3, OneCopies

\* A helper that is spawned sees the present content.
LEMMA SpawnCopyStep ==
  ASSUME ClipboardConstants, ClipboardInv, NEW c \in Clients, Spawn(c)
  PROVE  ClipboardInv'
<1> DEFINE k == [copies[c] EXCEPT !.stage = "running", !.alive = TRUE, !.seen = {selection}]
<1>1. CASE Over(c, "failed")
  BY <1>1, CopyEnds DEF Spawn
<1>2. CASE copies' = [copies EXCEPT ![c].stage = "running", ![c].alive = TRUE,
                    ![c].seen = {selection}]
  <2>1. CopyGood(copies[c], selection) /\ selection \in Contents /\ copies[c].stage = "spawn"
    BY DEF ClipboardInv, Spawn
  <2>2. /\ k \in CopyRecord /\ k.stage = "running" /\ k.seen = {selection}
        /\ k.answer = copies[c].answer /\ k.op = copies[c].op
    BY <2>1 DEF CopyGood, CopyRecord
  <2>3. copies' = [copies EXCEPT ![c] = k] /\ UNCHANGED <<late, selection>>
    BY <1>2 DEF ClipboardInv, Spawn
  <2> HIDE DEF k
  <2>4. CopyGood(k, selection)
    BY <2>1, <2>2 DEF CopyGood
  <2> QED BY <2>3, <2>4, OneCopies
<1> QED BY <1>1, <1>2 DEF Spawn

\* A content that comes is seen by the calls under way.
LEMMA InstallGood ==
  ASSUME ClipboardInv, NEW s \in Contents, NEW others,
         \A c \in Clients \cap DOMAIN others:
           CopyGood([others[c] EXCEPT !.seen = @ \union {s}], s),
         Install(s, others), ~late'
  PROVE  ClipboardInv'
<1>1. /\ selection' = s /\ ~late'
      /\ copies' = [c \in Clients |->
           IF copies[c].stage \in {"running", "exited"} \/ c \in DOMAIN others
           THEN [(IF c \in DOMAIN others THEN others[c] ELSE copies[c])
                   EXCEPT !.seen = @ \union {s}]
           ELSE copies[c]]
  BY DEF Install
<1>2. ASSUME NEW c \in Clients
      PROVE  CopyGood(copies'[c], s)
  <2>1. CopyGood(copies[c], selection)
    BY DEF ClipboardInv
  <2>2. CASE c \in DOMAIN others
    BY <1>1, <2>2
  <2>3. CASE c \notin DOMAIN others /\ copies[c].stage \in {"running", "exited"}
    <3>1. copies'[c] = [copies[c] EXCEPT !.seen = @ \union {s}]
      BY <1>1, <2>3
    <3> QED BY <2>1, <3>1, SeenGrows
  <2>4. CASE c \notin DOMAIN others /\ copies[c].stage \notin {"running", "exited"}
    <3>1. copies'[c] = copies[c]
      BY <1>1, <2>4
    <3> QED BY <2>1, <2>4, <3>1, NotLooking
  <2> QED BY <2>2, <2>3, <2>4
<1> QED BY <1>1, <1>2 DEF ClipboardInv

\* A helper that exits has done what it was asked, and what it wrote is there.
LEMMA ServeCopyStep ==
  ASSUME ClipboardInv, NEW c \in Clients, Serve(c)
  PROVE  ClipboardInv'
<1> DEFINE k == copies[c]
           x == [k EXCEPT !.stage = "exited", !.alive = FALSE]
<1>1. CopyGood(k, selection) /\ selection \in Contents /\ ~late
  BY DEF ClipboardInv
<1>2. k.alive /\ Running(c) /\ k.stage = "running" /\ selection \in k.seen /\ k.op # "none"
  BY <1>1 DEF Serve, CopyGood, Running
<1>3. /\ x \in CopyRecord /\ x.stage = "exited" /\ ~x.alive
      /\ x.op = k.op /\ x.text = k.text /\ x.seen = k.seen /\ x.answer = k.answer
      /\ x.answer # "done"
  BY <1>1, <1>2 DEF CopyGood, CopyRecord
<1>4. x = [k EXCEPT !.stage = IF Running(c) THEN "exited" ELSE @, !.alive = FALSE]
  BY <1>2
<1>5. CASE Writes(k)
  <2> DEFINE s == Taken(k)
             n == [x EXCEPT !.seen = @ \union {s}]
  <2>1. Install(s, One(c, x)) /\ late' = (late \/ ~Running(c))
    BY <1>4, <1>5 DEF Serve
  <2>2. /\ s \in Contents
        /\ k.op = "set" => s = k.text
        /\ k.op # "set" => s \in {Blank, Nobody}
    BY <1>3 DEF Taken, Contents, CopyRecord
  <2>3. n \in CopyRecord /\ n.stage = "exited" /\ ~n.alive /\ n.op = k.op /\ n.text = k.text
        /\ n.answer # "done" /\ s \in n.seen
    BY <1>3, <2>2 DEF CopyRecord
  <2>4. TextOf(Nobody) = NoText /\ TextOf(Blank) = Blank
    BY DEF TextOf, Nobody, Blank
  <2> HIDE DEF s
  <2>5. Borne(n)
    BY <1>5, <2>2, <2>3, <2>4 DEF Borne, Writes
  <2>6. CopyGood(n, s)
    BY <1>2, <2>3, <2>5 DEF CopyGood
  <2>7. \A d \in Clients \cap DOMAIN One(c, x):
          CopyGood([One(c, x)[d] EXCEPT !.seen = @ \union {s}], s)
    BY <2>6 DEF One
  <2>8. ~late'
    BY <1>1, <1>2, <2>1
  <2> QED BY <2>1, <2>2, <2>7, <2>8, InstallGood
<1>6. CASE ~Writes(k)
  <2> DEFINE n == [x EXCEPT !.out = Printed(k, selection)]
  <2>1. copies' = [copies EXCEPT ![c] = n] /\ UNCHANGED <<late, selection>>
    BY <1>4, <1>6 DEF Serve
  <2>2. Printed(k, selection) \in SUBSET ({"image", "text"} \union {TextOf(t): t \in Contents})
    BY <1>1, PrintedTyped DEF CopyGood
  <2>3. /\ n \in CopyRecord /\ n.stage = "exited" /\ ~n.alive /\ n.op = k.op
        /\ n.answer # "done" /\ selection \in n.seen /\ n.out = Printed(k, selection)
    BY <1>2, <1>3, <2>2 DEF CopyRecord
  <2>4. Printed(n, selection) = Printed(k, selection)
    BY <2>3 DEF Printed
  <2> HIDE DEF n
  <2>5. Borne(n)
    BY <1>6, <2>3, <2>4 DEF Borne, Writes
  <2>6. CopyGood(n, selection)
    BY <1>2, <2>3, <2>5 DEF CopyGood
  <2> QED BY <2>1, <2>6, OneCopies
<1> QED BY <1>5, <1>6

\* An answer is that of a helper that has exited.
LEMMA AnswerCopyStep ==
  ASSUME ClipboardInv, NEW c \in Clients, AnswerCopy(c)
  PROVE  ClipboardInv'
<1> DEFINE k == [copies[c] EXCEPT !.stage = "over", !.alive = FALSE, !.answer = "done"]
<1>1. CopyGood(copies[c], selection) /\ copies[c].stage = "exited"
  BY DEF ClipboardInv, AnswerCopy
<1>2. /\ k \in CopyRecord /\ k.stage = "over" /\ ~k.alive
      /\ k.op = copies[c].op /\ k.text = copies[c].text /\ k.seen = copies[c].seen
      /\ k.out = copies[c].out
  BY <1>1 DEF CopyGood, CopyRecord
<1>3. copies' = [copies EXCEPT ![c] = k] /\ UNCHANGED <<late, selection>>
  BY DEF AnswerCopy, Over, ClipboardInv
<1>4. \A t: Printed(k, t) = Printed(copies[c], t)
  BY <1>2 DEF Printed
<1> HIDE DEF k
<1>5. CopyGood(k, selection)
  BY <1>1, <1>2, <1>4 DEF CopyGood, Borne
<1> QED BY <1>3, <1>5, OneCopies

\* What the user copies is seen by the calls under way.
LEMMA UserCopiesStep ==
  ASSUME ClipboardInv, UserCopies
  PROVE  ClipboardInv'
<1>1. PICK s \in Copied \union {Nobody}: Install(s, [c \in {} |-> IdleCopy])
  BY DEF UserCopies
<1>2. s \in Contents /\ ~late'
  BY DEF Contents, UserCopies, ClipboardInv
<1> QED BY <1>1, <1>2, InstallGood

\* Whatever the helpers do and the user copies, for any number of calls at once: what a
\* call says of the clipboard was so while its helper ran, and nothing changes after it
\* has answered.
THEOREM ClipboardSound == ClipboardSpec => []ClipboardTrue
<1>1. ClipboardInit => ClipboardInv
  <2> SUFFICES ASSUME ClipboardInit PROVE ClipboardInv
    OBVIOUS
  <2>1. /\ IdleCopy \in CopyRecord /\ IdleCopy.stage = "idle" /\ IdleCopy.alive = FALSE
        /\ IdleCopy.answer = NoText /\ NoText # "done"
    BY ClipboardAssumption DEF ClipboardConstants, IdleCopy, CopyRecord, Texts
  <2>2. CopyGood(IdleCopy, selection)
    BY <2>1 DEF CopyGood
  <2> QED BY <2>2 DEF ClipboardInit, ClipboardInv, Contents
<1>2. ClipboardInv /\ [ClipboardNext]_clipVars => ClipboardInv'
  <2> SUFFICES ASSUME ClipboardInv, [ClipboardNext]_clipVars
               PROVE  ClipboardInv'
    OBVIOUS
  <2>1. CASE UNCHANGED clipVars
    BY <2>1 DEF clipVars, ClipboardInv
  <2>2. ASSUME NEW c \in Clients, ExitsFailed(c) \/ TimesOut(c)
        PROVE  ClipboardInv'
    BY <2>2, ClipboardAssumption, CopyEnds DEF ExitsFailed, TimesOut
  <2>3. CASE ClipboardNext
    BY <2>2, <2>3, ClipboardAssumption, AskCopyStep, SpawnCopyStep, ServeCopyStep,
       AnswerCopyStep, UserCopiesStep DEF ClipboardNext
  <2> QED BY <2>1, <2>3
<1>3. ClipboardInv => ClipboardTrue
  BY DEF ClipboardInv, ClipboardTrue, CopyGood, Borne, CopyRecord
<1> QED BY <1>1, <1>2, <1>3, PTL DEF ClipboardSpec

-----------------------------------------------------------------------------
(* The windows: the invariant *)

Verbs == {"list", "focus", "close", "minimize", "move", "resize"}
Forms == {"none", "absolute", "relative"}
Places == [x: Int, w: Int, h: Int]
RowType ==
  [id: Wins \union Int \union {NoWindow}, win: Wins \union {NoWindow},
   title: Titles \union {NoWindow}, focused: BOOLEAN]
AskType ==
  [pc: {"idle", "query", "more", "resolve", "dispatch", "done"},
   req: WindowCalls \union {NoWindow}, target: RowType,
   plan: Seq({"active", "describe", "configure", "request", "h"}),
   result: {"none", "invalid", "ok", "error", "no match", "ambiguous"}]
HitType ==
  [win: Wins, title: Titles \union {NoWindow}, focus: BOOLEAN, action: Verbs, before: Places, after: Places]

\* The handles of toplevels are used where there are some.
ProviderGood ==
  /\ provider \in Backends
  /\ toplevel \in BOOLEAN /\ named \in BOOLEAN
  /\ toplevel => provider \in {"river", "wlr"}
  /\ provider = "wlr" => toplevel
LayoutGood ==
  /\ order \in Seq(Wins)
  /\ title \in [Wins -> Titles]
  /\ rect \in [Wins -> Places]
  /\ active \in Range(order) \union {NoWindow}
CallTyped ==
  /\ ask \in AskType
  /\ rows \in Seq(RowType)
  /\ geometry \in Places
  /\ hits \in Seq(HitType)
  /\ handle \in RowType /\ failures \in Nat

\* Without toplevels the id of a row is the window.
RowGood(r) == toplevel \/ r.id = r.win

\* What one effect of a call says about the call.
HitGood(h, a) ==
  /\ h.action = a.req.action
  /\ Direct(a.req) => h.focus
  /\ ~Direct(a.req) => (h.win = a.target.win \/ (ByHandle /\ h.title = a.target.title))
  /\ h.action = "move" /\ h.win \notin tiled =>
       /\ a.req.form = "absolute" =>
            (h.after.x = a.req.at \/ (provider = "x11" /\ a.req.at = -1))
       /\ a.req.form = "relative" => h.after.x = h.before.x + a.req.at
  /\ provider # "wayfire" /\ h.action = "move" =>
       h.after = [h.before EXCEPT !.x = h.after.x]
  /\ provider # "wayfire" /\ h.action = "resize" => h.after.x = h.before.x

\* The toplevel that was found for a request is open, or its handle inert; it had
\* the title that was resolved, or the focus that was asked for.
HandleGood(v, a) ==
  /\ v.win \in Wins
  /\ v.id # NoWindow => v.win \in Open
  /\ IF Direct(a.req) THEN v.focused ELSE v.title = a.target.title
  /\ ByHandle /\ ~ByRiverctl(a.req) /\ ~Geometric(a.req)

\* What a call has done by the time it is where it is: nothing before its
\* dispatch, and then no more than the first of the two axes of a resize.
CallGood(a, hs) ==
  /\ a.pc # "idle" => a.req \in WindowCalls
  /\ a.pc \in {"query", "more", "resolve", "dispatch"} => Accepted(a.req)
  /\ a.pc \in {"idle", "query", "more", "resolve"} => hs = <<>>
  /\ a.pc = "dispatch" =>
       \/ hs = <<>> /\ a.plan = <<>>
       \/ hs = <<>> /\ a.plan = <<"configure">> /\ provider = "wayfire"
       \/ hs = <<>> /\ a.plan = <<"request">> /\ HandleGood(handle, a)
       \/ /\ Len(hs) <= 1 /\ a.plan = <<"h">> /\ provider = "river"
          /\ a.req.action = "resize" /\ Direct(a.req)
  /\ a.pc = "more" => a.plan # <<>>
  /\ a.pc = "dispatch" /\ ~Direct(a.req) => RowGood(a.target)
  /\ Len(hs) > 1 => Direct(a.req)

\* What its answer says of what it has done.
ToldGood(a, hs) ==
  a.pc = "done" =>
    /\ (a.result = "ok" /\ a.req.action # "list") => (hs # <<>> \/ Unsure)
    /\ (a.result # "ok" /\ hs # <<>>) =>
         (failures > 0 \/ (a.req.action = "resize" /\ provider = "river"))

WindowInv ==
  /\ ProviderGood
  /\ LayoutGood
  /\ CallTyped
  /\ \A i \in DOMAIN rows: RowGood(rows[i])
  /\ CallGood(ask, hits)
  /\ ToldGood(ask, hits)
  /\ \A i \in DOMAIN hits: HitGood(hits[i], ask)

-----------------------------------------------------------------------------
\* ControlExact, of every window call, follows from the invariant.
LEMMA InvExact == WindowInv => ControlExact
<1> SUFFICES ASSUME WindowInv PROVE ControlExact
  OBVIOUS
<1>1. ActsOnTarget
  BY DEF WindowInv, HitGood, CallGood, ActsOnTarget, Meant
<1>2. ask.pc = "done" =>
       /\ (ask.result = "ok" /\ ask.req.action # "list") => (hits # <<>> \/ Unsure)
       /\ (ask.result # "ok" /\ hits # <<>>) =>
            (failures > 0 \/ (ask.req.action = "resize" /\ provider = "river"))
  BY DEF WindowInv, ToldGood
<1>3. \A i \in DOMAIN hits: (hits[i].action = "move" /\ hits[i].win \notin tiled) =>
       /\ ask.req.form = "absolute" =>
            (hits[i].after.x = ask.req.at \/ (provider = "x11" /\ ask.req.at = -1))
       /\ ask.req.form = "relative" => hits[i].after.x = hits[i].before.x + ask.req.at
  BY DEF WindowInv, HitGood
<1>4. \A i \in DOMAIN hits: provider # "wayfire" =>
       /\ hits[i].action = "move" => hits[i].after = [hits[i].before EXCEPT !.x = hits[i].after.x]
       /\ hits[i].action = "resize" => hits[i].after.x = hits[i].before.x
  BY DEF WindowInv, HitGood
<1> QED BY <1>1, <1>2, <1>3, <1>4 DEF ControlExact

-----------------------------------------------------------------------------
\* A window closes: the others stay, in their order, and one of them is active.
LEMMA ClosedKeeps ==
  ASSUME LayoutGood, NEW w \in Open, Closed(w)
  PROVE  /\ order' \in Seq(Wins)
         /\ active' \in Range(order') \union {NoWindow}
<1> DEFINE n == IndexIn(w)
<1>1. n \in 1..Len(order) /\ order[n] = w
  <2>1. \E i \in DOMAIN order : order[i] = w
    BY DEF Open, Range
  <2> QED BY <2>1 DEF IndexIn, LayoutGood
<1>2. order' = RemoveAt(order, n) /\ active' = IF active = w THEN NoWindow ELSE active
  BY DEF Closed
<1> HIDE DEF n
<1>3. /\ order' \in Seq(Wins)
      /\ Len(order') = Len(order) - 1
      /\ \A i \in 1..(Len(order) - 1) : order'[i] = IF i < n THEN order[i] ELSE order[i + 1]
  BY <1>1, <1>2, RemoveAtProperties DEF LayoutGood
<1>4. ASSUME active # w, active # NoWindow PROVE active \in Range(order')
  <2>1. PICK i \in 1..Len(order) : order[i] = active
    BY <1>4 DEF LayoutGood, Range
  <2>2. CASE i < n
    <3>1. i \in DOMAIN order' /\ order'[i] = active
      BY <1>1, <1>3, <2>1, <2>2 DEF LayoutGood
    <3> QED BY <3>1 DEF Range
  <2>3. CASE i > n
    <3>1. i - 1 \in DOMAIN order' /\ order'[i - 1] = active
      BY <1>1, <1>3, <2>1, <2>3 DEF LayoutGood
    <3> QED BY <3>1 DEF Range
  <2> QED BY <1>1, <1>4, <2>1, <2>2, <2>3 DEF LayoutGood
<1> QED BY <1>2, <1>3, <1>4

\* What is noted of an effect on the window of the row v.
Noted(h, v, action, form, at) ==
  /\ h.win = v.win /\ h.title = v.title /\ h.focus = v.focused
  /\ h.action = ask.req.action
  /\ action = "configure" => h.after = at
  /\ action = "move" /\ form = "absolute" => h.after.x = at
  /\ action = "move" /\ form = "relative" => h.after.x = h.before.x + at
  /\ action = "move" => h.after = [h.before EXCEPT !.x = h.after.x]
  /\ action = "resize" => h.after.x = h.before.x

\* What an effect does to the desktop, and what is noted of it.
LEMMA EffectKeeps ==
  ASSUME LayoutGood, hits \in Seq(HitType), ask.req.action \in Verbs,
         NEW v \in RowType, NEW w \in Open, w = v.win,
         NEW action \in Verbs \union {"configure"},
         NEW form \in Forms \union {"kept"}, NEW key \in {"w", "h"}, NEW at,
         at \in (IF action = "configure" THEN Places ELSE Int),
         action \in {"move", "resize"} => form # "none",
         action = "configure" => form # "kept",
         Effect(v, action, form, key, at)
  PROVE  /\ LayoutGood'
         /\ \E h \in HitType : hits' = Append(hits, h) /\ Noted(h, v, action, form, at)
<1>1. w \in Wins
  BY DEF Open, Range, LayoutGood
<1>2. rect[w] \in Places
  BY <1>1 DEF LayoutGood
<1>3. /\ rect' \in [Wins -> Places]
      /\ action = "configure" => rect'[w] = at
      /\ action = "move" /\ form = "absolute" => rect'[w].x = at
      /\ action = "move" /\ form = "relative" => rect'[w].x = rect[w].x + at
      /\ action = "move" => rect'[w] = [rect[w] EXCEPT !.x = rect'[w].x]
      /\ action = "resize" => rect'[w].x = rect[w].x
  <2>1. CASE action = "move" /\ form = "absolute"
    <3>1. rect' = [rect EXCEPT ![w].x = at]
      BY <2>1 DEF Effect
    <3> QED BY <1>1, <1>2, <2>1, <3>1 DEF LayoutGood, Places
  <2>2. CASE action = "move" /\ form = "relative"
    <3> DEFINE p == [rect[w] EXCEPT !.x = rect[w].x + at]
    <3>1. rect' = [rect EXCEPT ![w] = p]
      BY <2>2 DEF Effect
    <3>2. p \in Places /\ p = [rect[w] EXCEPT !.x = p.x] /\ p.x = rect[w].x + at
      BY <1>2, <2>2 DEF Places
    <3> HIDE DEF p
    <3>3. rect' \in [Wins -> Places] /\ rect'[w] = p
      BY <1>1, <3>1, <3>2 DEF LayoutGood
    <3> QED BY <2>2, <3>2, <3>3
  <2>3. CASE action = "resize" /\ form = "absolute"
    <3>1. rect' = [rect EXCEPT ![w].w = at, ![w].h = at]
      BY <2>3 DEF Effect
    <3> QED BY <1>1, <1>2, <2>3, <3>1 DEF LayoutGood, Places
  <2>4. CASE action = "resize" /\ form = "relative"
    <3>1. rect' = [rect EXCEPT ![w][key] = @ + at]
      BY <2>4 DEF Effect
    <3>2. CASE key = "w"
      <4> DEFINE p == [rect[w] EXCEPT !.w = rect[w].w + at]
      <4>1. rect' = [rect EXCEPT ![w] = p]
        BY <3>1, <3>2
      <4>2. p \in Places /\ p.x = rect[w].x
        BY <1>2, <2>4 DEF Places
      <4> HIDE DEF p
      <4>3. rect' \in [Wins -> Places] /\ rect'[w] = p
        BY <1>1, <4>1, <4>2 DEF LayoutGood
      <4> QED BY <2>4, <4>2, <4>3
    <3>3. CASE key = "h"
      <4> DEFINE p == [rect[w] EXCEPT !.h = rect[w].h + at]
      <4>1. rect' = [rect EXCEPT ![w] = p]
        BY <3>1, <3>3
      <4>2. p \in Places /\ p.x = rect[w].x
        BY <1>2, <2>4 DEF Places
      <4> HIDE DEF p
      <4>3. rect' \in [Wins -> Places] /\ rect'[w] = p
        BY <1>1, <4>1, <4>2 DEF LayoutGood
      <4> QED BY <2>4, <4>2, <4>3
    <3> QED BY <3>2, <3>3
  <2>5. CASE action = "configure"
    <3>1. rect' = [rect EXCEPT ![w] = at]
      BY <2>5 DEF Effect, Verbs
    <3> QED BY <1>1, <1>2, <2>5, <3>1 DEF LayoutGood, Places
  <2>6. CASE action \notin {"move", "resize", "configure"} \/ form = "kept"
    <3>1. CASE action # "configure"
      <4>1. rect' = rect
        BY <2>6, <3>1 DEF Effect
      <4> QED BY <1>1, <1>2, <2>6, <3>1, <4>1 DEF LayoutGood, Places
    <3> QED BY <2>5, <3>1
  <2> QED BY <2>1, <2>2, <2>3, <2>4, <2>5, <2>6 DEF Verbs, Forms
<1>4. /\ title' = title /\ order' \in Seq(Wins)
      /\ active' \in Range(order') \union {NoWindow}
  <2>1. CASE action = "close"
    <3>1. Closed(w) /\ title' = title
      BY <2>1 DEF Effect
    <3> QED BY <3>1, ClosedKeeps
  <2>2. CASE action # "close"
    <3>1. order' = order /\ active' \in {w, active} /\ title' = title
      BY <2>2 DEF Effect
    <3> QED BY <3>1 DEF LayoutGood, Open
  <2> QED BY <2>1, <2>2
<1>5. LayoutGood'
  BY <1>3, <1>4 DEF LayoutGood
<1> DEFINE h == [win |-> w, title |-> v.title, focus |-> v.focused,
                 action |-> ask.req.action, before |-> rect[w], after |-> rect'[w]]
<1>6. hits' = Append(hits, h)
  BY DEF Effect
<1>7. rect'[w] \in Places
  BY <1>1, <1>3
<1>8. h \in HitType
  BY <1>1, <1>2, <1>7 DEF HitType, RowType
<1>9. /\ h.win = v.win /\ h.title = v.title /\ h.focus = v.focused
      /\ h.action = ask.req.action /\ h.before = rect[w] /\ h.after = rect'[w]
  OBVIOUS
<1> HIDE DEF h
<1>10. Noted(h, v, action, form, at)
  BY <1>3, <1>9 DEF Noted
<1> QED BY <1>5, <1>6, <1>8, <1>9, <1>10

-----------------------------------------------------------------------------
(* The windows: what a call is told *)

\* A window's own place in the list is a place of the list.
LEMMA IndexGood ==
  ASSUME LayoutGood, NEW w \in Open
  PROVE  IndexIn(w) \in 1..Len(order) /\ order[IndexIn(w)] = w
<1>1. \E i \in DOMAIN order : order[i] = w
  BY DEF Open, Range
<1> QED BY <1>1 DEF IndexIn, LayoutGood

\* The row of an open window, by its own name.
LEMMA RowIs ==
  ASSUME LayoutGood, NEW w \in Open
  PROVE  /\ Row(w, w) \in RowType
         /\ Row(w, w).win = w /\ Row(w, w).title = title[w]
         /\ Row(w, w).focused <=> (active = w)
<1>1. w \in Wins /\ title[w] \in Titles /\ (active = w) \in BOOLEAN
  BY DEF Open, Range, LayoutGood
<1> QED BY <1>1 DEF Row, RowType

\* The row of an open toplevel, by its id.
LEMMA HandleRow ==
  ASSUME LayoutGood, WindowConstants, NEW w \in Open
  PROVE  LET v == Row(ToplevelId(w), w)
         IN /\ v \in RowType /\ v.win = w /\ v.title = title[w]
            /\ v.focused = (active = w)
<1>1. w \in Wins /\ title[w] \in Titles /\ (active = w) \in BOOLEAN
  BY DEF Open, Range, LayoutGood
<1>2. ToplevelId(w) \in Int
  BY <1>1, IndexGood DEF ToplevelId, WindowConstants, LayoutGood
<1> QED BY <1>1, <1>2 DEF Row, RowType

\* A listing is of rows, each with its window or its toplevel's id.
LEMMA ListingGood ==
  ASSUME LayoutGood, Ident \in [Wins -> Int], toplevel \in BOOLEAN, named \in BOOLEAN
  PROVE  Listing \in Seq(RowType) /\ \A i \in DOMAIN Listing : RowGood(Listing[i])
<1>1. ASSUME NEW i \in DOMAIN order
      PROVE  /\ Listing[i] \in RowType
             /\ RowGood(Listing[i])
  <2> DEFINE w == order[i]
             id == IF toplevel THEN ToplevelId(w) ELSE w
  <2>1. w \in Wins /\ w \in Open
    BY <1>1 DEF LayoutGood, Open, Range
  <2>2. IndexIn(w) \in Int
    BY <2>1, IndexGood DEF LayoutGood
  <2>3. ToplevelId(w) \in Int
    BY <2>1, <2>2 DEF ToplevelId
  <2>4. id \in Wins \union Int \union {NoWindow}
    BY <2>1, <2>3
  <2>5. title[w] \in Titles /\ (active = w) \in BOOLEAN
    BY <2>1 DEF LayoutGood
  <2>6. Listing[i] = Row(id, w)
    BY <1>1 DEF Listing
  <2> HIDE DEF id, w
  <2>7. Row(id, w) \in RowType /\ Row(id, w).id = id /\ Row(id, w).win = w
    BY <2>1, <2>4, <2>5 DEF Row, RowType
  <2> QED BY <2>6, <2>7 DEF RowGood, id
<1>2. DOMAIN Listing = 1..Len(order) /\ Len(order) \in Nat
  BY DEF Listing, LayoutGood
<1>3. \A i \in 1..Len(order) : Listing[i] \in RowType
  BY <1>1 DEF LayoutGood
<1>4. Listing = [i \in 1..Len(order) |-> Listing[i]]
  BY <1>2 DEF Listing
<1>5. Listing \in Seq(RowType)
  BY <1>2, <1>3, <1>4
<1>6. DOMAIN order = 1..Len(order)
  BY DEF LayoutGood
<1>7. \A i \in DOMAIN Listing : RowGood(Listing[i])
  BY <1>1, <1>2, <1>6
<1> QED BY <1>5, <1>7

-----------------------------------------------------------------------------
(* The windows: the dispatch *)

\* An answer leaves everything of a call but its answer.
LEMMA Replies ==
  ASSUME CallTyped, NEW r \in {"invalid", "ok", "error", "no match", "ambiguous"}, Reply(r)
  PROVE  /\ ask' \in AskType /\ ask'.pc = "done" /\ ask'.result = r
         /\ ask'.req = ask.req /\ ask'.target = ask.target
BY DEF CallTyped, Reply, Became, AskType

\* What happened to the call before is as good after a step that keeps what it is
\* about.
LEMMA HitsStay ==
  ASSUME WindowInv, UNCHANGED chosenVars, hits' = hits,
         ask'.req = ask.req, ask'.target = ask.target
  PROVE  (\A i \in DOMAIN hits: HitGood(hits[i], ask))'
BY DEF WindowInv, HitGood, chosenVars, Direct, FocusedView, ByHandle

\* One more effect.
LEMMA HitsGrow ==
  ASSUME WindowInv, UNCHANGED chosenVars, ask'.req = ask.req, ask'.target = ask.target,
         NEW h \in HitType, hits' = Append(hits, h), HitGood(h, ask)
  PROVE  /\ (\A i \in DOMAIN hits: HitGood(hits[i], ask))'
         /\ hits' \in Seq(HitType) /\ Len(hits') = Len(hits) + 1
<1>1. hits \in Seq(HitType)
  BY DEF WindowInv, CallTyped
<1>2. hits' \in Seq(HitType) /\ Len(hits') = Len(hits) + 1
  BY <1>1
<1>3. ASSUME NEW i \in DOMAIN hits' PROVE HitGood(hits'[i], ask)
  <2>1. CASE i \in DOMAIN hits
    BY <1>1, <2>1 DEF WindowInv
  <2>2. CASE i = Len(hits) + 1
    BY <1>1, <2>2
  <2> QED BY <1>1, <1>2, <1>3, <2>1, <2>2
<1> QED BY <1>2, <1>3 DEF HitGood, chosenVars, Direct, FocusedView, ByHandle

\* A call that answers from its dispatch.
LEMMA DoneGood ==
  ASSUME WindowInv, ask.pc = "dispatch", UNCHANGED <<chosenVars, rows>>,
         NEW r \in {"ok", "error"}, Reply(r), geometry' \in Places, LayoutGood',
         hits' \in Seq(HitType), (\A i \in DOMAIN hits: HitGood(hits[i], ask))',
         failures' \in Nat, handle' = handle,
         (r = "ok" /\ ask.req.action # "list") => (hits' # <<>> \/ Unsure),
         (r # "ok" /\ hits' # <<>>) =>
           (failures' > 0 \/ (ask.req.action = "resize" /\ provider = "river")),
         Len(hits') > 1 => Direct(ask.req)
  PROVE  WindowInv'
<1>1. CallTyped /\ ProviderGood
  BY DEF WindowInv
<1>2. /\ ask' \in AskType /\ ask'.pc = "done" /\ ask'.result = r
      /\ ask'.req = ask.req /\ ask'.target = ask.target
  BY <1>1, Replies
<1>3. ProviderGood'
  BY <1>1 DEF ProviderGood, chosenVars
<1>4. CallTyped'
  BY <1>1, <1>2 DEF CallTyped
<1>5. (\A i \in DOMAIN rows: RowGood(rows[i]))'
  BY DEF WindowInv, RowGood, chosenVars
<1>6. ask.req \in WindowCalls
  BY DEF WindowInv, CallGood
<1>7. Direct(ask.req)' <=> Direct(ask.req)
  BY <1>2 DEF Direct, FocusedView, chosenVars
<1>8. CallGood(ask, hits)'
  BY <1>2, <1>6, <1>7 DEF CallGood, chosenVars
<1>9. Unsure' <=> Unsure
  BY <1>2, <1>7 DEF Unsure, ByRiverctl, Geometric, chosenVars
<1>10. ToldGood(ask, hits)'
  BY <1>2, <1>9 DEF ToldGood, chosenVars
<1> QED BY <1>3, <1>4, <1>5, <1>8, <1>10 DEF WindowInv

\* An answer comes, or is lost: that counts as a failure.
LEMMA AnswerIs ==
  ASSUME CallTyped, AnswerFor(Reply("ok"))
  PROVE  \E r \in {"ok", "error"} :
           Reply(r) /\ failures' \in Nat /\ (r = "error" => failures' > 0)
<1>1. CASE Reply("ok") /\ UNCHANGED failures
  BY <1>1 DEF CallTyped
<1>2. CASE Lost
  BY <1>2 DEF Lost, CallTyped
<1> QED BY <1>1, <1>2 DEF AnswerFor

\* A dispatch that does nothing and answers.
LEMMA NothingDone ==
  ASSUME WindowInv, ask.pc = "dispatch", UNCHANGED <<chosenVars, rows>>,
         NEW r \in {"ok", "error"}, Reply(r), geometry' \in Places, NoEffect,
         failures' \in Nat, handle' = handle, r = "ok" => Unsure
  PROVE  WindowInv'
<1>1. CallTyped /\ LayoutGood
  BY DEF WindowInv
<1>2. ask'.req = ask.req /\ ask'.target = ask.target
  BY <1>1, Replies
<1>3. hits' = hits /\ LayoutGood'
  BY <1>1 DEF NoEffect, desktopVars, LayoutGood
<1>4. (\A i \in DOMAIN hits: HitGood(hits[i], ask))'
  BY <1>2, <1>3, HitsStay
<1>5. hits' # <<>> => (ask.req.action = "resize" /\ provider = "river")
  <2>1. hits # <<>> => (ask.req.action = "resize" /\ provider = "river")
    BY DEF WindowInv, CallGood
  <2> QED BY <1>3, <2>1
<1>6. Len(hits') > 1 => Direct(ask.req)
  BY <1>3 DEF WindowInv, CallGood
<1>7. hits' \in Seq(HitType)
  BY <1>1, <1>3 DEF CallTyped
<1> QED BY <1>3, <1>4, <1>5, <1>6, <1>7, DoneGood

\* A dispatch with an effect on the window it is about: what is noted of it is
\* good, whatever the effect is.
LEMMA EffectGood ==
  ASSUME WindowInv, ask.pc = "dispatch", UNCHANGED chosenVars, WindowConstants,
         ask'.req = ask.req, ask'.target = ask.target,
         NEW v \in RowType, v.win \in Open, NEW action \in Verbs \union {"configure"},
         NEW form \in Forms \union {"kept"}, NEW key \in {"w", "h"}, NEW at,
         at \in (IF action = "configure" THEN Places ELSE Int),
         action \in {"move", "resize"} => form # "none",
         action = "configure" => form # "kept",
         Effect(v, action, form, key, at),
         Direct(ask.req) => v.focused,
         ~Direct(ask.req) =>
           (v.win = ask.target.win \/ (ByHandle /\ v.title = ask.target.title)),
         \/ action = ask.req.action
         \/ /\ action = "configure" /\ provider = "wayfire"
            /\ ask.req.action = "move" => at.x = ask.req.at,
         (action = "move" /\ ask.req.form = "absolute") =>
           (\/ form = "absolute" /\ at = ask.req.at
            \/ provider = "x11" /\ ask.req.at = -1
            \/ v.win \in tiled),
         (action = "move" /\ ask.req.form = "relative") =>
           ((form = "relative" /\ at = ask.req.at) \/ v.win \in tiled),
         action = "configure" => ask.req.form # "relative"
  PROVE  /\ LayoutGood'
         /\ (\A i \in DOMAIN hits: HitGood(hits[i], ask))'
         /\ hits' \in Seq(HitType) /\ Len(hits') = Len(hits) + 1
<1>1. LayoutGood /\ hits \in Seq(HitType) /\ ask.req \in WindowCalls
  BY DEF WindowInv, CallTyped, CallGood
<1>2. ask.req.action \in Verbs
  BY <1>1 DEF WindowConstants, Verbs
<1>3. PICK h \in HitType : hits' = Append(hits, h) /\ Noted(h, v, action, form, at)
  BY <1>1, <1>2, EffectKeeps
<1>4. LayoutGood'
  BY <1>1, <1>2, EffectKeeps
<1>5. Direct(ask.req) => h.focus
  BY <1>3 DEF Noted
<1>6. ~Direct(ask.req) => (h.win = ask.target.win \/ (ByHandle /\ h.title = ask.target.title))
  BY <1>3 DEF Noted
<1>7. h.action = "move" /\ ask.req.form = "absolute" /\ h.win \notin tiled =>
        (h.after.x = ask.req.at \/ (provider = "x11" /\ ask.req.at = -1))
  BY <1>3 DEF Noted
<1>8. provider # "wayfire" /\ h.action = "move" => h.after = [h.before EXCEPT !.x = h.after.x]
  BY <1>3 DEF Noted
<1>9. provider # "wayfire" /\ h.action = "resize" => h.after.x = h.before.x
  BY <1>3 DEF Noted
<1>11. h.action = "move" /\ ask.req.form = "relative" /\ h.win \notin tiled =>
        h.after.x = h.before.x + ask.req.at
  BY <1>3 DEF Noted
<1>10. HitGood(h, ask)
  BY <1>3, <1>5, <1>6, <1>7, <1>8, <1>9, <1>11 DEF HitGood, Noted
<1> QED BY <1>3, <1>4, <1>10, HitsGrow

\* What is accepted has a form for its geometry, and without a focused view an
\* absolute one.
LEMMA AcceptedForm ==
  ASSUME WindowInv, WindowConstants, ask.pc = "dispatch"
  PROVE  /\ ask.req \in WindowCalls /\ ask.req.action \in Verbs
         /\ ask.req.form \in Forms /\ ask.req.at \in Int
         /\ ask.req.action \in {"move", "resize"} => ask.req.form # "none"
         /\ ~FocusedView => ask.req.form # "relative"
<1>1. ask.req \in WindowCalls /\ Accepted(ask.req)
  BY DEF WindowInv, CallGood
<1>2. /\ ask.req.action \in Verbs /\ ask.req.form \in Forms /\ ask.req.at \in Int
  BY <1>1 DEF WindowConstants, Verbs, Forms
<1>3. ask.req.action = "move" => ask.req.form # "none"
  BY <1>1 DEF Accepted, WellFormed
<1>4. ask.req.action = "resize" => ask.req.form # "none"
  BY <1>1 DEF Accepted, WellFormed
<1>5. ~FocusedView => ask.req.form # "relative"
  BY <1>1 DEF Accepted
<1> QED BY <1>1, <1>2, <1>3, <1>4, <1>5

\* The six providers that go by a window's own id act on the row that was
\* resolved.
LEMMA ByIdStep ==
  ASSUME WindowInv, WindowConstants, ask.pc = "dispatch", UNCHANGED <<chosenVars, rows>>,
         ById, UNCHANGED <<geometry, handle>>
  PROVE  WindowInv'
<1> DEFINE q == ask.req
           w == ask.target.id
<1>1. provider \notin {"river", "wlr"} /\ ~FocusedView /\ ~Direct(q) /\ ~toplevel
  BY DEF ById, FocusedView, Direct, WindowInv, ProviderGood
<1>2. hits = <<>> /\ w = ask.target.win
  BY <1>1 DEF WindowInv, CallGood, RowGood, HandleGood, ByHandle
<1>3. geometry' = geometry /\ geometry' \in Places /\ handle' = handle
  BY DEF WindowInv, CallTyped
<1>4. CallTyped /\ LayoutGood
  BY DEF WindowInv
<1>5. CASE /\ w \in Open /\ Effect(Row(w, w), q.action, Given(w, q), "w", q.at)
           /\ AnswerFor(Reply("ok"))
  <2>1. PICK r \in {"ok", "error"} :
          Reply(r) /\ failures' \in Nat /\ (r = "error" => failures' > 0)
    BY <1>4, <1>5, AnswerIs
  <2>2. ask'.req = ask.req /\ ask'.target = ask.target
    BY <1>4, <2>1, Replies
  <2>3. /\ q \in WindowCalls /\ q.action \in Verbs /\ q.form \in Forms /\ q.at \in Int
        /\ q.action \in {"move", "resize"} => q.form # "none"
        /\ q.form # "relative"
    BY <1>1, AcceptedForm
  <2>4. /\ Given(w, q) \in Forms \union {"kept"}
        /\ q.action \in {"move", "resize"} => Given(w, q) # "none"
        /\ Given(w, q) = q.form \/ (provider = "x11" /\ q.at = -1) \/ w \in tiled
    BY <2>3 DEF Given
  <2>5. q.action # "configure" /\ UNCHANGED chosenVars
    BY <2>3 DEF Verbs
  <2>6. Row(w, w) \in RowType /\ Row(w, w).win = w
    BY <1>4, <1>5, RowIs
  <2> DEFINE form == Given(w, q)
             action == q.action
             at == q.at
             v == Row(w, w)
  <2>7. /\ action \in Verbs \union {"configure"} /\ form \in Forms \union {"kept"}
        /\ at \in (IF action = "configure" THEN Places ELSE Int)
        /\ action \in {"move", "resize"} => form # "none"
        /\ action # "configure" /\ ask.req.form # "relative"
        /\ Effect(v, action, form, "w", at)
        /\ v \in RowType /\ v.win \in Open /\ v.win = ask.target.win
        /\ ~Direct(ask.req) /\ action = ask.req.action
        /\ (action = "move" /\ ask.req.form = "absolute") =>
             (\/ form = "absolute" /\ at = ask.req.at
              \/ provider = "x11" /\ ask.req.at = -1
              \/ v.win \in tiled)
    BY <1>1, <1>2, <1>5, <2>3, <2>4, <2>5, <2>6
  <2> HIDE DEF w, q, form, action, at, v
  <2>8. /\ LayoutGood' /\ (\A i \in DOMAIN hits: HitGood(hits[i], ask))'
        /\ hits' \in Seq(HitType) /\ Len(hits') = Len(hits) + 1
    BY <2>2, <2>5, <2>7, EffectGood
  <2>9. Len(hits') = 1
    BY <1>2, <2>8
  <2>10. hits' # <<>> /\ ~(Len(hits') > 1)
    BY <2>9
  <2> QED BY <1>1, <1>3, <2>1, <2>10, <2>8, DoneGood DEF q
<1>6. CASE /\ NoEffect /\ UNCHANGED failures
           /\ \E r \in (IF provider \in {"hyprctl", "kdotool", "x11"} THEN {"ok", "error"}
                        ELSE {"error"}): Reply(r)
  <2>1. PICK r \in {"ok", "error"} :
          Reply(r) /\ (r = "ok" => provider \in {"hyprctl", "kdotool", "x11"})
    BY <1>6
  <2>2. (r = "ok" => Unsure) /\ failures' \in Nat
    BY <1>4, <1>6, <2>1 DEF Unsure, CallTyped
  <2> QED BY <1>3, <1>6, <2>1, <2>2, NothingDone
<1> QED BY <1>5, <1>6 DEF ById

\* wayfire reads the rectangle that is there, then sets it.
LEMMA ReadGeometryStep ==
  ASSUME WindowInv, WindowConstants, ask.pc = "dispatch", UNCHANGED <<chosenVars, rows>>,
         ReadGeometry, UNCHANGED <<handle, failures>>
  PROVE  WindowInv'
<1> DEFINE w == ask.target.id
<1>1. provider = "wayfire" /\ ask.plan = <<>> /\ NoEffect /\ CallTyped /\ LayoutGood
  BY DEF ReadGeometry, WindowInv
<1>2. CASE w \in Open
  <2>1. geometry' = rect[w] /\ ask' = [ask EXCEPT !.plan = <<"configure">>]
    BY <1>2 DEF ReadGeometry
  <2>2. geometry' \in Places
    BY <1>1, <1>2, <2>1 DEF LayoutGood, Open, Range
  <2>3. <<"configure">> \in Seq({"active", "describe", "configure", "request", "h"})
    OBVIOUS
  <2>4. /\ ask' \in AskType /\ ask'.pc = "dispatch" /\ ask'.plan = <<"configure">>
        /\ ask'.req = ask.req /\ ask'.target = ask.target
    BY <1>1, <2>1, <2>3 DEF CallTyped, AskType
  <2>5. hits = <<>> /\ hits' = <<>>
    BY <1>1 DEF WindowInv, CallGood, HandleGood, ByHandle, NoEffect
  <2>6. LayoutGood' /\ hits' = hits
    BY <1>1 DEF NoEffect, desktopVars, LayoutGood
  <2>7. CallTyped'
    BY <1>1, <2>2, <2>4, <2>6 DEF CallTyped
  <2>8. ProviderGood'
    BY DEF WindowInv, ProviderGood, chosenVars
  <2>9. (\A i \in DOMAIN rows: RowGood(rows[i]))'
    BY DEF WindowInv, RowGood, chosenVars
  <2>10. (\A i \in DOMAIN hits: HitGood(hits[i], ask))'
    BY <2>5
  <2>11. Direct(ask.req)' <=> Direct(ask.req)
    BY <2>4 DEF Direct, FocusedView, chosenVars
  <2>12. Accepted(ask.req)' <=> Accepted(ask.req)
    BY <2>4 DEF Accepted, WellFormed, FocusedView, chosenVars
  <2>13. RowGood(ask.target)' <=> RowGood(ask.target)
    BY <2>4 DEF RowGood, chosenVars
  <2>14. provider' = provider
    BY DEF chosenVars
  <2>15. CallGood(ask, hits)'
    BY <1>1, <2>4, <2>5, <2>11, <2>12, <2>13, <2>14 DEF WindowInv, CallGood
  <2>16. ToldGood(ask, hits)'
    BY <2>4 DEF ToldGood
  <2> QED BY <2>6, <2>7, <2>8, <2>9, <2>10, <2>15, <2>16 DEF WindowInv
<1>3. CASE w \notin Open
  <2>1. Reply("error") /\ geometry' \in Places /\ failures' \in Nat /\ handle' = handle
    BY <1>1, <1>3 DEF ReadGeometry, CallTyped
  <2> QED BY <1>1, <2>1, NothingDone
<1> QED BY <1>2, <1>3

\* What it sets is what it read, but for what was asked for.
LEMMA ConfigureStep ==
  ASSUME WindowInv, WindowConstants, ask.pc = "dispatch", UNCHANGED <<chosenVars, rows>>,
         Configure, UNCHANGED <<geometry, handle>>
  PROVE  WindowInv'
<1> DEFINE q == ask.req
           w == ask.target.id
           at == Configured(q)
           v == Row(w, w)
<1>1. provider = "wayfire" /\ ~FocusedView /\ ~Direct(q) /\ ~toplevel
  BY DEF Configure, FocusedView, Direct, WindowInv, ProviderGood
<1>2. hits = <<>> /\ w = ask.target.win
  BY <1>1 DEF WindowInv, CallGood, RowGood, HandleGood, ByHandle
<1>3. /\ geometry \in Places /\ geometry' = geometry /\ geometry' \in Places
      /\ handle' = handle
  BY DEF WindowInv, CallTyped
<1>4. CallTyped /\ LayoutGood
  BY DEF WindowInv
<1>5. CASE w \in Open
  <2>1. Effect(v, "configure", "absolute", "w", at) /\ AnswerFor(Reply("ok"))
    BY <1>5 DEF Configure
  <2>2. PICK r \in {"ok", "error"} :
          Reply(r) /\ failures' \in Nat /\ (r = "error" => failures' > 0)
    BY <1>4, <2>1, AnswerIs
  <2>3. ask'.req = ask.req /\ ask'.target = ask.target
    BY <1>4, <2>2, Replies
  <2>4. q \in WindowCalls /\ q.action \in Verbs /\ q.at \in Int /\ q.form # "relative"
    BY <1>1, AcceptedForm
  <2>5. at \in Places /\ (q.action = "move" => at.x = q.at)
    BY <1>3, <2>4 DEF Configured, Places
  <2>6. "absolute" \in Forms \union {"kept"} /\ UNCHANGED chosenVars
    BY DEF Forms
  <2>7. v \in RowType /\ v.win = w
    BY <1>4, <1>5, RowIs
  <2> HIDE DEF w, q, at, v
  <2>8. v.win \in Open /\ v.win = ask.target.win /\ ~Direct(ask.req)
        /\ ask.req.form # "relative" /\ (ask.req.action = "move" => at.x = ask.req.at)
    BY <1>1, <1>2, <1>5, <2>4, <2>5, <2>7 DEF q
  <2>9. /\ LayoutGood' /\ (\A i \in DOMAIN hits: HitGood(hits[i], ask))'
        /\ hits' \in Seq(HitType) /\ Len(hits') = Len(hits) + 1
    BY <1>1, <2>1, <2>3, <2>5, <2>6, <2>7, <2>8, EffectGood
  <2>10. Len(hits') = 1
    BY <1>2, <2>9
  <2>11. hits' # <<>> /\ ~(Len(hits') > 1)
    BY <2>10
  <2> QED BY <1>3, <2>2, <2>9, <2>11, DoneGood
<1>6. CASE w \notin Open
  <2>1. NoEffect /\ Reply("error") /\ failures' \in Nat
    BY <1>4, <1>6 DEF Configure, CallTyped
  <2> QED BY <1>3, <2>1, NothingDone
<1> QED BY <1>5, <1>6

\* riverctl acts on the focused view, for a call that asked for it; a resize of
\* both axes takes two of its processes.
LEMMA RiverctlStep ==
  ASSUME WindowInv, WindowConstants, ask.pc = "dispatch", UNCHANGED <<chosenVars, rows>>,
         Riverctl, UNCHANGED <<geometry, handle>>
  PROVE  WindowInv'
<1> DEFINE q == ask.req
           axis == IF ask.plan = <<>> THEN "w" ELSE Head(ask.plan)
           v == Row(active, active)
           onward == \/ active = NoWindow /\ Reply("error")
                     \/ IF q.action = "resize" /\ axis = "w"
                        THEN ask' = [ask EXCEPT !.plan = <<"h">>]
                        ELSE Reply("ok")
<1>1. /\ provider = "river" /\ FocusedView /\ CallTyped /\ LayoutGood /\ Unsure
      /\ ByRiverctl(q)
  BY DEF Riverctl, FocusedView, WindowInv, ByRiverctl, Unsure
<1>2. geometry' = geometry /\ geometry' \in Places /\ handle' = handle
  BY <1>1 DEF CallTyped
<1>3. \/ hits = <<>> /\ ask.plan = <<>>
      \/ /\ Len(hits) <= 1 /\ ask.plan = <<"h">> /\ q.action = "resize" /\ Direct(q)
  BY <1>1 DEF WindowInv, CallGood, HandleGood
<1>4. /\ q \in WindowCalls /\ q.action \in Verbs /\ q.form \in Forms /\ q.at \in Int
      /\ q.action \in {"move", "resize"} => q.form # "none"
  BY AcceptedForm
<1>5. axis \in {"w", "h"} /\ (axis = "w" <=> ask.plan = <<>>)
  BY <1>3
<1>6. CASE Geometric(q) /\ (~Direct(q) \/ q.form = "absolute" \/ q.at = 0)
  <2>1. NoEffect /\ Reply("error") /\ failures' \in Nat
    BY <1>1, <1>6 DEF Riverctl, CallTyped
  <2> QED BY <1>2, <2>1, NothingDone
<1>7. CASE ~(Geometric(q) /\ (~Direct(q) \/ q.form = "absolute" \/ q.at = 0))
  <2>1. Direct(q) /\ (active = NoWindow \/ active \in Open)
    BY <1>1, <1>7 DEF LayoutGood, Open, ByRiverctl
  <2>2. IF active = NoWindow THEN NoEffect
        ELSE Effect(v, q.action, Given(active, q), axis, q.at)
    BY <1>7 DEF Riverctl
  <2>3. AnswerFor(onward)
    BY <1>7 DEF Riverctl
  <2>4. /\ failures' \in Nat
        /\ \/ Reply("ok")
           \/ Reply("error") /\ (failures' > 0 \/ active = NoWindow)
           \/ /\ q.action = "resize" /\ axis = "w" /\ ask' = [ask EXCEPT !.plan = <<"h">>]
    <3>1. CASE onward /\ UNCHANGED failures
      BY <1>1, <3>1 DEF CallTyped
    <3>2. CASE Lost
      BY <1>1, <3>2 DEF Lost, CallTyped
    <3> QED BY <2>3, <3>1, <3>2 DEF AnswerFor
  <2>5. <<"h">> \in Seq({"active", "describe", "configure", "request", "h"})
    OBVIOUS
  <2>6. ask'.req = ask.req /\ ask'.target = ask.target
    <3>1. CASE Reply("ok") \/ Reply("error")
      BY <1>1, <3>1, Replies
    <3>2. CASE ask' = [ask EXCEPT !.plan = <<"h">>]
      BY <1>1, <3>2 DEF CallTyped, AskType
    <3> QED BY <2>4, <3>1, <3>2
  <2>7. /\ q.action # "configure" /\ UNCHANGED chosenVars
        /\ q.action = "move" => q.form # "absolute"
        /\ q.action # "list"
    BY <1>1, <1>4, <1>7 DEF Verbs, Geometric, ByRiverctl
  <2> HIDE DEF onward
  <2>8. /\ LayoutGood' /\ (\A i \in DOMAIN hits: HitGood(hits[i], ask))'
        /\ hits' \in Seq(HitType)
        /\ IF active = NoWindow THEN hits' = hits ELSE Len(hits') = Len(hits) + 1
    <3>1. CASE active = NoWindow
      <4>1. hits' = hits /\ LayoutGood'
        BY <1>1, <2>2, <3>1 DEF NoEffect, desktopVars, LayoutGood
      <4>2. (\A i \in DOMAIN hits: HitGood(hits[i], ask))'
        BY <2>6, <4>1, HitsStay
      <4> QED BY <1>1, <3>1, <4>1, <4>2 DEF CallTyped
    <3>2. CASE active # NoWindow
      <4>1. /\ Given(active, q) \in Forms \union {"kept"}
            /\ q.action \in {"move", "resize"} => Given(active, q) # "none"
            /\ Given(active, q) = q.form \/ active \in tiled
        BY <1>1, <1>4 DEF Given
      <4>2. v \in RowType /\ v.win = active /\ v.focused
        BY <1>1, <2>1, <3>2, RowIs
      <4> DEFINE form == Given(active, q)
                 action == q.action
                 at == q.at
      <4>3. /\ action \in Verbs \union {"configure"} /\ form \in Forms \union {"kept"}
            /\ at \in (IF action = "configure" THEN Places ELSE Int)
            /\ action \in {"move", "resize"} => form # "none"
            /\ action # "configure" /\ action = ask.req.action
            /\ Effect(v, action, form, axis, at)
            /\ v.win \in Open /\ Direct(ask.req)
            /\ action = "move" => ask.req.form # "absolute"
            /\ (action = "move" /\ ask.req.form = "relative") =>
                 ((form = "relative" /\ at = ask.req.at) \/ v.win \in tiled)
        BY <1>4, <2>1, <2>2, <2>7, <3>2, <4>1, <4>2
      <4> HIDE DEF q, axis, v, form, action, at
      <4>4. /\ LayoutGood' /\ (\A i \in DOMAIN hits: HitGood(hits[i], ask))'
            /\ hits' \in Seq(HitType) /\ Len(hits') = Len(hits) + 1
        BY <1>5, <2>6, <2>7, <4>2, <4>3, EffectGood
      <4> QED BY <3>2, <4>4
    <3> QED BY <3>1, <3>2
  <2>9. (\A r \in {"ok", "error"} : Reply(r) /\ (r = "error" => failures' > 0 \/ active = NoWindow)
           => WindowInv')
    <3>1. SUFFICES ASSUME NEW r \in {"ok", "error"}, Reply(r),
                          r = "error" => failures' > 0 \/ active = NoWindow
                   PROVE  WindowInv'
      OBVIOUS
    <3>2. (r # "ok" /\ hits' # <<>>) =>
            (failures' > 0 \/ (ask.req.action = "resize" /\ provider = "river"))
      BY <1>1, <1>3, <2>8, <3>1
    <3> QED BY <1>1, <1>2, <2>1, <2>4, <2>8, <3>1, <3>2, DoneGood
  <2>10. CASE q.action = "resize" /\ axis = "w" /\ ask' = [ask EXCEPT !.plan = <<"h">>]
    <3>1. /\ ask' \in AskType /\ ask'.pc = "dispatch" /\ ask'.plan = <<"h">>
          /\ ask'.req = ask.req /\ ask'.target = ask.target
      BY <1>1, <2>5, <2>10 DEF CallTyped, AskType
    <3>2. Len(hits') <= 1
      <4>1. hits = <<>>
        BY <1>3, <1>5, <2>10
      <4> QED BY <2>8, <4>1
    <3>3. CallTyped'
      BY <1>1, <1>2, <2>4, <2>8, <3>1 DEF CallTyped
    <3>4. ProviderGood'
      BY DEF WindowInv, ProviderGood, chosenVars
    <3>5. (\A i \in DOMAIN rows: RowGood(rows[i]))'
      BY DEF WindowInv, RowGood, chosenVars
    <3>6. Direct(ask.req)'
      BY <2>1, <3>1 DEF Direct, FocusedView, chosenVars, q
    <3>7. Accepted(ask.req)'
      BY <3>1 DEF Accepted, WellFormed, FocusedView, chosenVars, WindowInv, CallGood
    <3>8. provider' = "river" /\ ask'.req.action = "resize" /\ ask'.req \in WindowCalls
      BY <1>1, <1>4, <2>10, <3>1 DEF chosenVars, q
    <3>9. CallGood(ask, hits)'
      BY <3>1, <3>2, <3>6, <3>7, <3>8 DEF CallGood
    <3>10. ToldGood(ask, hits)'
      BY <3>1 DEF ToldGood
    <3> QED BY <2>8, <3>3, <3>4, <3>5, <3>9, <3>10 DEF WindowInv
  <2> QED BY <2>4, <2>9, <2>10
<1> QED BY <1>6, <1>7

\* The toplevel handle an id stands for at the dispatch has the title that was
\* resolved, or is the focused view that was asked for.
LEMMA FindHandleStep ==
  ASSUME WindowInv, WindowConstants, ask.pc = "dispatch", UNCHANGED <<chosenVars, rows>>,
         FindHandle, UNCHANGED <<geometry, failures>>
  PROVE  WindowInv'
<1> DEFINE q == ask.req
           found == {w \in Handles: Verified(w)}
<1>1. /\ ByHandle /\ CallTyped /\ LayoutGood /\ UNCHANGED chosenVars /\ NoEffect
      /\ ~ByRiverctl(q) /\ ask.plan = <<>>
  BY DEF FindHandle, WindowInv
<1>2. hits' = hits /\ LayoutGood' /\ CallTyped /\ order' = order
  BY <1>1 DEF NoEffect, desktopVars, LayoutGood
<1>3. CASE found = {} \/ Geometric(q)
  <2>1. Reply("error") /\ handle' = handle /\ geometry' \in Places /\ failures' \in Nat
    BY <1>1, <1>3 DEF FindHandle, CallTyped
  <2> QED BY <1>1, <2>1, NothingDone
<1>4. CASE ~(found = {} \/ Geometric(q))
  <2>1. PICK w \in found : /\ handle' = Row(ToplevelId(w), w)
                           /\ ask' = [ask EXCEPT !.plan = <<"request">>]
    BY <1>4 DEF FindHandle
  <2>2. w \in Open
    BY <2>1 DEF Handles, Open, Range
  <2>3. Direct(q) => active = w
    BY <2>1 DEF Handles
  <2>4. ~Direct(q) => title[w] = ask.target.title
    BY <2>1 DEF Verified
  <2>5. handle' \in RowType /\ handle'.win = w /\ handle'.title = title[w]
        /\ handle'.focused = (active = w)
    BY <1>1, <2>1, <2>2, HandleRow
  <2>6. <<"request">> \in Seq({"active", "describe", "configure", "request", "h"})
    OBVIOUS
  <2>7. /\ ask' \in AskType /\ ask'.pc = "dispatch" /\ ask'.plan = <<"request">>
        /\ ask'.req = ask.req /\ ask'.target = ask.target
    BY <1>1, <2>1, <2>6 DEF CallTyped, AskType
  <2>8. hits = <<>>
    BY <1>1 DEF WindowInv, CallGood
  <2> HIDE DEF q, found
  <2>9. CallTyped'
    BY <1>1, <1>2, <2>5, <2>7 DEF CallTyped
  <2>10. ProviderGood'
    BY DEF WindowInv, ProviderGood, chosenVars
  <2>11. (\A i \in DOMAIN rows: RowGood(rows[i]))'
    BY DEF WindowInv, RowGood, chosenVars
  <2>12. (\A i \in DOMAIN hits: HitGood(hits[i], ask))'
    BY <1>2, <2>8
  <2>13. Direct(ask.req)' <=> Direct(ask.req)
    BY <2>7 DEF Direct, FocusedView, chosenVars
  <2>14. Accepted(ask.req)' <=> Accepted(ask.req)
    BY <2>7 DEF Accepted, WellFormed, FocusedView, chosenVars
  <2>15. RowGood(ask.target)' <=> RowGood(ask.target)
    BY <2>7 DEF RowGood, chosenVars
  <2>16. ByHandle' /\ ~ByRiverctl(ask.req)' /\ ~Geometric(ask.req)'
    BY <1>1, <1>4, <2>7, <2>13 DEF ByHandle, ByRiverctl, Geometric, chosenVars, q
  <2>17. w \in Open' /\ w \in Wins
    BY <1>1, <1>2, <2>2 DEF Open, LayoutGood, Range
  <2>18. HandleGood(handle, ask)'
    BY <2>3, <2>4, <2>5, <2>7, <2>13, <2>16, <2>17 DEF HandleGood, q
  <2>19. CallGood(ask, hits)'
    BY <1>2, <2>7, <2>8, <2>13, <2>14, <2>15, <2>18 DEF WindowInv, CallGood
  <2>20. ToldGood(ask, hits)'
    BY <2>7 DEF ToldGood
  <2> QED BY <1>2, <2>9, <2>10, <2>11, <2>12, <2>19, <2>20 DEF WindowInv
<1> QED BY <1>3, <1>4

\* The request reaches the toplevel that was found, or one that has closed since.
LEMMA SendRequestStep ==
  ASSUME WindowInv, WindowConstants, ask.pc = "dispatch", UNCHANGED <<chosenVars, rows>>,
         SendRequest, UNCHANGED <<geometry, handle>>
  PROVE  WindowInv'
<1> DEFINE q == ask.req
<1>1. CallTyped /\ LayoutGood /\ UNCHANGED chosenVars
  BY DEF WindowInv
<1>2. geometry' = geometry /\ geometry' \in Places /\ handle' = handle
  BY <1>1 DEF CallTyped
<1>3. hits = <<>> /\ HandleGood(handle, ask)
  BY DEF SendRequest, WindowInv, CallGood
<1>4. /\ q \in WindowCalls /\ q.action \in Verbs /\ q.form \in Forms /\ q.at \in Int
  BY AcceptedForm
<1>5. PICK r \in {"ok", "error"} :
        Reply(r) /\ failures' \in Nat /\ (r = "error" => failures' > 0)
  BY <1>1, AnswerIs DEF SendRequest
<1>6. ask'.req = ask.req /\ ask'.target = ask.target
  BY <1>1, <1>5, Replies
<1>7. q.action \notin {"configure", "move", "resize"}
  <2>1. ~Geometric(q)
    BY <1>3 DEF HandleGood
  <2> QED BY <1>4, <2>1 DEF Verbs, Geometric
<1>8. CASE handle.id = NoWindow
  <2>1. NoEffect /\ Unsure
    BY <1>3, <1>8 DEF SendRequest, HandleGood, Unsure
  <2> QED BY <1>2, <1>5, <2>1, NothingDone
<1>9. CASE handle.id # NoWindow
  <2>1. Effect(handle, q.action, q.form, "w", q.at)
    BY <1>9 DEF SendRequest
  <2>2. handle \in RowType /\ handle.win \in Open
    BY <1>1, <1>3, <1>9 DEF HandleGood, CallTyped
  <2>3. /\ Direct(ask.req) => handle.focused
        /\ ~Direct(ask.req) => ByHandle /\ handle.title = ask.target.title
    BY <1>3 DEF HandleGood
  <2> HIDE DEF q
  <2>4. /\ LayoutGood' /\ (\A i \in DOMAIN hits: HitGood(hits[i], ask))'
        /\ hits' \in Seq(HitType) /\ Len(hits') = Len(hits) + 1
    BY <1>1, <1>4, <1>6, <1>7, <2>1, <2>2, <2>3, EffectGood DEF q
  <2>5. Len(hits') = 1
    BY <1>3, <2>4
  <2>6. hits' # <<>> /\ ~(Len(hits') > 1)
    BY <2>5
  <2> QED BY <1>2, <1>5, <2>4, <2>6, DoneGood
<1> QED BY <1>8, <1>9

\* A dispatch.
LEMMA DispatchStep ==
  ASSUME WindowInv, WindowConstants, Dispatch
  PROVE  WindowInv'
<1>1. ask.pc = "dispatch" /\ UNCHANGED <<chosenVars, rows>>
  BY DEF Dispatch
<1>2. CASE NoVerb /\ UNCHANGED <<geometry, handle, failures>>
  <2>1. /\ NoEffect /\ Reply("error") /\ geometry' \in Places
        /\ failures' \in Nat /\ handle' = handle
    BY <1>2 DEF NoVerb, WindowInv, CallTyped
  <2> QED BY <1>1, <2>1, NothingDone
<1>3. CASE DispatchFails /\ UNCHANGED <<geometry, handle>>
  <2>1. /\ NoEffect /\ Reply("error") /\ geometry' \in Places
        /\ failures' \in Nat /\ handle' = handle
    BY <1>3 DEF DispatchFails, Lost, WindowInv, CallTyped
  <2> QED BY <1>1, <2>1, NothingDone
<1>4. CASE (ById \/ Configure \/ Riverctl \/ SendRequest) /\ UNCHANGED <<geometry, handle>>
  BY <1>1, <1>4, ByIdStep, ConfigureStep, RiverctlStep, SendRequestStep
<1>5. CASE ReadGeometry /\ UNCHANGED <<handle, failures>>
  BY <1>1, <1>5, ReadGeometryStep
<1>6. CASE FindHandle /\ UNCHANGED <<geometry, failures>>
  BY <1>1, <1>6, FindHandleStep
<1> QED BY <1>2, <1>3, <1>4, <1>5, <1>6 DEF Dispatch

-----------------------------------------------------------------------------
(* The windows: a call up to its dispatch *)

\* A call that has not come to its dispatch has done nothing.
LEMMA QueryGood ==
  ASSUME WindowInv, ask.pc \in {"query", "more", "resolve"}, CallUnchanged,
         ask' \in AskType, ask'.req = ask.req, rows' \in Seq(RowType), failures' \in Nat,
         (\A i \in DOMAIN rows: RowGood(rows[i]))',
         \/ ask'.pc \in {"query", "resolve"}
         \/ ask'.pc = "more" /\ ask'.plan # <<>>
         \/ /\ ask'.pc = "done"
            /\ ask'.result = "ok" => ask.req.action = "list"
         \/ ask'.pc = "dispatch" /\ ask'.plan = <<>> /\ RowGood(ask'.target)
  PROVE  WindowInv'
<1>1. UNCHANGED <<chosenVars, desktopVars, geometry, handle, hits>>
  BY DEF CallUnchanged
<1>2. hits = <<>> /\ hits' = <<>> /\ ask.req \in WindowCalls /\ Accepted(ask.req)
  BY <1>1 DEF WindowInv, CallGood
<1>3. ProviderGood' /\ LayoutGood' /\ CallTyped'
  BY <1>1 DEF WindowInv, ProviderGood, LayoutGood, CallTyped, chosenVars, desktopVars
<1>4. Accepted(ask.req)'
  BY <1>1, <1>2 DEF Accepted, WellFormed, FocusedView, chosenVars
<1>5. (ask'.pc = "dispatch" => RowGood(ask.target)')
  BY <1>1 DEF RowGood, chosenVars
<1>6. (\A i \in DOMAIN hits: HitGood(hits[i], ask))'
  BY <1>2
<1>7. CallGood(ask, hits)'
  BY <1>2, <1>4, <1>5 DEF CallGood
<1>8. ToldGood(ask, hits)'
  BY <1>2 DEF ToldGood
<1> QED BY <1>3, <1>6, <1>7, <1>8 DEF WindowInv

\* A call begins: with its queries, or for the focused view with its dispatch.
LEMMA BeginStep ==
  ASSUME WindowInv, WindowConstants, BeginCall
  PROVE  WindowInv'
<1>1. PICK q \in WindowCalls : ask' = [NoAsk EXCEPT
        !.req = q,
        !.pc = IF ~Accepted(q) THEN "done" ELSE IF Direct(q) THEN "dispatch" ELSE "query",
        !.result = IF Accepted(q) THEN "none" ELSE "invalid"]
  BY DEF BeginCall
<1>2. /\ UNCHANGED <<chosenVars, desktopVars, failures>>
      /\ rows' = <<>> /\ geometry' = Unset /\ hits' = <<>>
      /\ handle' = NoTarget /\ NoTarget \in RowType
  BY DEF BeginCall, NoTarget, RowType
<1>3. /\ ask'.req = q /\ ask'.plan = <<>> /\ ask'.target = NoTarget
      /\ ask'.pc = IF ~Accepted(q) THEN "done" ELSE IF Direct(q) THEN "dispatch" ELSE "query"
      /\ ask'.result = IF Accepted(q) THEN "none" ELSE "invalid"
  BY <1>1 DEF NoAsk
<1>4. ask' \in AskType
  <2>1. NoTarget \in RowType
    BY DEF NoTarget, RowType
  <2>2. <<>> \in Seq({"active", "describe", "configure", "request", "h"})
    OBVIOUS
  <2>3. NoAsk.plan = <<>> /\ NoAsk.target = NoTarget /\ NoAsk \in AskType
    BY <2>1, <2>2 DEF NoAsk, AskType
  <2> QED BY <1>1, <2>3 DEF AskType
<1>5. Unset \in Places
  BY DEF Unset, Places
<1>6. ProviderGood' /\ LayoutGood' /\ CallTyped'
  BY <1>2, <1>4, <1>5
     DEF WindowInv, ProviderGood, LayoutGood, CallTyped, chosenVars, desktopVars
<1>7. Direct(ask.req)' = Direct(q) /\ Accepted(ask.req)' = Accepted(q)
  BY <1>2, <1>3 DEF Accepted, WellFormed, Direct, FocusedView, chosenVars
<1>8. /\ (\A i \in DOMAIN hits: HitGood(hits[i], ask))'
      /\ (\A i \in DOMAIN rows: RowGood(rows[i]))'
  BY <1>2
<1>9. CallGood(ask, hits)'
  BY <1>2, <1>3, <1>7 DEF CallGood
<1>10. ToldGood(ask, hits)'
  BY <1>2, <1>3 DEF ToldGood
<1> QED BY <1>6, <1>8, <1>9, <1>10 DEF WindowInv

\* The queries.
LEMMA QueryStep ==
  ASSUME WindowInv, WindowConstants, QueryWindows \/ QueryMore \/ QueryFails
  PROVE  WindowInv'
<1> DEFINE Plans == Seq({"active", "describe", "configure", "request", "h"})
<1>1. /\ CallTyped /\ LayoutGood /\ CallUnchanged /\ UNCHANGED chosenVars
      /\ failures' \in Nat
  <2>1. CallUnchanged /\ failures' \in {failures, failures + 1} /\ failures \in Nat
    BY DEF WindowInv, CallTyped, QueryWindows, QueryMore, QueryFails
  <2> QED BY <2>1 DEF WindowInv, CallUnchanged
<1>2. Queries \in Plans
  <2>1. <<>> \in Plans /\ <<"active">> \in Plans
    OBVIOUS
  <2>2. <<"active", "describe">> \in Plans
    OBVIOUS
  <2> HIDE DEF Plans
  <2> QED BY <2>1, <2>2 DEF Queries
<1>3. CASE QueryWindows
  <2>1. ask.pc = "query"
    BY <1>3 DEF QueryWindows
  <2>2. CASE provider = "river" /\ ~toplevel
    <3>1. Reply("error") /\ rows' = rows
      BY <1>3, <2>2 DEF QueryWindows
    <3>2. /\ ask' \in AskType /\ ask'.pc = "done" /\ ask'.result = "error"
          /\ ask'.req = ask.req
      BY <1>1, <3>1, Replies
    <3>3. (\A i \in DOMAIN rows: RowGood(rows[i]))' /\ rows' \in Seq(RowType)
      BY <1>1, <3>1 DEF WindowInv, RowGood, chosenVars, CallTyped
    <3> QED BY <1>1, <2>1, <3>2, <3>3, QueryGood
  <2>3. CASE ~(provider = "river" /\ ~toplevel)
    <3>1. /\ rows' = Listing
          /\ ask' = [ask EXCEPT !.pc = IF Queries = <<>> THEN "resolve" ELSE "more",
                                !.plan = Queries]
      BY <1>3, <2>3 DEF QueryWindows
    <3>2. /\ ask' \in AskType /\ ask'.req = ask.req /\ ask'.plan = Queries
          /\ ask'.pc = IF Queries = <<>> THEN "resolve" ELSE "more"
      BY <1>1, <1>2, <3>1 DEF CallTyped, AskType
    <3>3. Listing \in Seq(RowType) /\ \A i \in DOMAIN Listing : RowGood(Listing[i])
      BY <1>1, ListingGood DEF WindowConstants, WindowInv, ProviderGood
    <3>4. (\A i \in DOMAIN rows: RowGood(rows[i]))' /\ rows' \in Seq(RowType)
      BY <1>1, <3>1, <3>3 DEF RowGood, chosenVars
    <3> QED BY <1>1, <2>1, <3>2, <3>4, QueryGood
  <2> QED BY <2>2, <2>3
<1>4. CASE ask.pc = "more" /\ (QueryMore \/ QueryFails)
  <2>1. ask' = [ask EXCEPT !.plan = Tail(@),
                           !.pc = IF Tail(ask.plan) = <<>> THEN "resolve" ELSE "more"]
    BY <1>4 DEF QueryMore, QueryFails
  <2>2. ask.plan \in Plans /\ ask.plan # <<>>
    BY <1>1, <1>4 DEF WindowInv, CallGood, CallTyped, AskType
  <2>3. Tail(ask.plan) \in Plans
    BY <2>2
  <2>4. /\ ask' \in AskType /\ ask'.req = ask.req /\ ask'.plan = Tail(ask.plan)
        /\ ask'.pc = IF Tail(ask.plan) = <<>> THEN "resolve" ELSE "more"
    BY <1>1, <2>1, <2>3 DEF CallTyped, AskType
  <2>5. /\ DOMAIN rows' = DOMAIN rows /\ rows' = [i \in DOMAIN rows |-> rows'[i]]
        /\ \A i \in DOMAIN rows:
             \/ rows'[i] = rows[i]
             \/ \E t \in Titles \union {NoWindow} : rows'[i] = [rows[i] EXCEPT !.title = t]
             \/ \E f \in BOOLEAN : rows'[i] = [rows[i] EXCEPT !.focused = f]
    <3>1. CASE QueryMore
      <4>1. rows' = [i \in DOMAIN rows |->
              IF Head(ask.plan) = "active"
              THEN [rows[i] EXCEPT !.focused = (active = rows[i].win)]
              ELSE [rows[i] EXCEPT !.title =
                      IF rows[i].win \in Open THEN title[rows[i].win] ELSE NoWindow]]
        BY <3>1 DEF QueryMore
      <4>2. \A v \in Open : title[v] \in Titles
        BY <1>1 DEF LayoutGood, Open, Range
      <4> QED BY <4>1, <4>2
    <3>2. CASE QueryFails
      <4>1. rows' = [i \in DOMAIN rows |-> IF Head(ask.plan) = "describe"
              THEN [rows[i] EXCEPT !.title = NoWindow]
              ELSE [rows[i] EXCEPT !.focused = IF provider = "hyprctl" THEN @ ELSE FALSE]]
        BY <1>4, <3>2 DEF QueryFails
      <4>2. \A i \in DOMAIN rows : rows[i].focused \in BOOLEAN
        <5>1. \A i \in DOMAIN rows : rows[i] \in RowType
          BY <1>1 DEF CallTyped
        <5> QED BY <5>1 DEF RowType
      <4> QED BY <4>1, <4>2
    <3> QED BY <1>4, <3>1, <3>2
  <2>6. \A i \in DOMAIN rows :
          rows'[i] \in RowType /\ rows'[i].id = rows[i].id /\ rows'[i].win = rows[i].win
    <3>1. \A i \in DOMAIN rows : rows[i] \in RowType
      BY <1>1 DEF CallTyped
    <3> QED BY <2>5, <3>1 DEF RowType
  <2>7. rows' \in Seq(RowType)
    <3>1. DOMAIN rows = 1..Len(rows) /\ Len(rows) \in Nat
      BY <1>1 DEF CallTyped
    <3> QED BY <2>5, <2>6, <3>1
  <2>8. (\A i \in DOMAIN rows: RowGood(rows[i]))'
    BY <1>1, <2>5, <2>6 DEF WindowInv, RowGood, chosenVars
  <2> QED BY <1>1, <1>4, <2>4, <2>7, <2>8, QueryGood
<1>5. CASE ask.pc = "query" /\ QueryFails
  <2>1. Reply("error") /\ rows' = rows
    BY <1>5 DEF QueryFails
  <2>2. /\ ask' \in AskType /\ ask'.pc = "done" /\ ask'.result = "error"
        /\ ask'.req = ask.req
    BY <1>1, <2>1, Replies
  <2>3. (\A i \in DOMAIN rows: RowGood(rows[i]))' /\ rows' \in Seq(RowType)
    BY <1>1, <2>1 DEF WindowInv, RowGood, chosenVars, CallTyped
  <2> QED BY <1>1, <1>5, <2>2, <2>3, QueryGood
<1> QED BY <1>3, <1>4, <1>5 DEF QueryMore, QueryFails

\* The selector: the row it comes to, or an answer.
LEMMA ResolveStep ==
  ASSUME WindowInv, WindowConstants, ResolveWindow
  PROVE  WindowInv'
<1>1. /\ CallTyped /\ CallUnchanged /\ UNCHANGED chosenVars /\ rows' = rows
      /\ failures' \in Nat
  BY DEF WindowInv, CallTyped, ResolveWindow, CallUnchanged
<1>2. ask.pc = "resolve"
  BY DEF ResolveWindow
<1>3. (\A i \in DOMAIN rows: RowGood(rows[i]))' /\ rows' \in Seq(RowType)
  BY <1>1 DEF WindowInv, RowGood, chosenVars, CallTyped
<1>4. CASE \E r \in {"ok", "no match", "ambiguous"} :
             Reply(r) /\ (r = "ok" => ask.req.action = "list")
  <2>1. PICK r \in {"ok", "no match", "ambiguous"} :
          Reply(r) /\ (r = "ok" => ask.req.action = "list")
    BY <1>4
  <2>2. /\ ask' \in AskType /\ ask'.pc = "done" /\ ask'.result = r
        /\ ask'.req = ask.req
    BY <1>1, <2>1, Replies
  <2> QED BY <1>1, <1>2, <1>3, <2>1, <2>2, QueryGood
<1>5. CASE \E i \in DOMAIN rows :
             ask' = [ask EXCEPT !.pc = "dispatch", !.target = rows[i], !.plan = <<>>]
  <2>1. PICK i \in DOMAIN rows :
          ask' = [ask EXCEPT !.pc = "dispatch", !.target = rows[i], !.plan = <<>>]
    BY <1>5
  <2>2. rows[i] \in RowType /\ RowGood(rows[i])
    BY <1>1 DEF CallTyped, WindowInv
  <2>3. /\ ask' \in AskType /\ ask'.pc = "dispatch" /\ ask'.target = rows[i]
        /\ ask'.plan = <<>> /\ ask'.req = ask.req
    <3>1. <<>> \in Seq({"active", "describe", "configure", "request", "h"})
      OBVIOUS
    <3>2. ask \in AskType
      BY <1>1 DEF CallTyped
    <3> DEFINE row == rows[i]
    <3> HIDE DEF row
    <3> QED BY <2>1, <2>2, <3>1, <3>2 DEF AskType, row
  <2> QED BY <1>1, <1>2, <1>3, <2>2, <2>3, QueryGood
<1> QED BY <1>4, <1>5 DEF ResolveWindow, Found

-----------------------------------------------------------------------------
(* The windows: the desktop, and the specification *)

\* What the desktop does is not the call's.
LEMMA ChangeGood ==
  ASSUME WindowInv, LayoutGood', UNCHANGED <<chosenVars, ask, rows, geometry, hits, failures>>,
         \/ handle' = handle /\ (handle.win \in Open => handle.win \in Open')
         \/ handle' = Inert(handle)
  PROVE  WindowInv'
<1> DEFINE inert == Inert(handle)
<1>10. /\ handle \in RowType /\ inert \in RowType /\ inert.id = NoWindow
       /\ inert.win = handle.win /\ inert.title = handle.title
       /\ inert.focused = handle.focused
  BY DEF WindowInv, CallTyped, RowType, Inert
<1> HIDE DEF inert
<1>11. \/ handle' = handle /\ (handle.win \in Open => handle.win \in Open')
       \/ handle' = inert
  BY DEF inert
<1>1. ProviderGood' /\ CallTyped'
  BY <1>10, <1>11 DEF WindowInv, ProviderGood, CallTyped, chosenVars
<1>2. (\A i \in DOMAIN rows: RowGood(rows[i]))'
  BY DEF WindowInv, RowGood, chosenVars
<1>3. (\A i \in DOMAIN hits: HitGood(hits[i], ask))'
  BY HitsStay DEF chosenVars
<1>4. Direct(ask.req)' = Direct(ask.req) /\ Accepted(ask.req)' = Accepted(ask.req)
  BY DEF Accepted, WellFormed, Direct, FocusedView, chosenVars
<1>5. ASSUME HandleGood(handle, ask) PROVE HandleGood(handle, ask)'
  <2>1. handle.win \in Wins /\ (handle.id # NoWindow => handle.win \in Open)
    BY <1>5 DEF HandleGood
  <2>2. /\ handle'.win = handle.win
        /\ handle'.title = handle.title /\ handle'.focused = handle.focused
    BY <1>10, <1>11
  <2>3. handle'.id # NoWindow => handle'.win \in Open'
    BY <1>10, <1>11, <2>1
  <2>4. ByHandle' /\ ~ByRiverctl(ask.req)' /\ ~Geometric(ask.req)'
    BY <1>4, <1>5 DEF HandleGood, ByHandle, ByRiverctl, Geometric, chosenVars
  <2> QED BY <1>4, <1>5, <2>1, <2>2, <2>3, <2>4 DEF HandleGood
<1>6. CallGood(ask, hits)'
  BY <1>4, <1>5 DEF WindowInv, CallGood, RowGood, chosenVars
<1>7. ASSUME handle.win \in Wins, handle.id = NoWindow
      PROVE  handle'.win = handle.win /\ handle'.id = NoWindow
  BY <1>7, <1>10, <1>11
<1>8. Unsure => Unsure'
  BY <1>4, <1>7 DEF Unsure, ByRiverctl, Geometric, chosenVars
<1>9. ToldGood(ask, hits)'
  BY <1>8 DEF WindowInv, ToldGood, chosenVars
<1> QED BY <1>1, <1>2, <1>3, <1>6, <1>9 DEF WindowInv

\* Windows come, go, change places and take the focus.
LEMMA DesktopStep ==
  ASSUME WindowInv, NEW w \in Wins, NEW t \in Titles,
         \/ WindowCloses(w) \/ FocusMoves(w) \/ UserResizes(w) \/ WindowOpens(w, t)
         \/ Reorders
  PROVE  WindowInv'
<1>1. /\ UNCHANGED <<chosenVars, ask, rows, geometry, hits, failures>>
      /\ \/ handle' = handle /\ (handle.win \in Open => handle.win \in Open')
         \/ handle' = Inert(handle)
  BY DEF WindowCloses, FocusMoves, UserResizes, WindowOpens, Reorders, Change, Open
<1>2. LayoutGood
  BY DEF WindowInv
<1>3. CASE WindowCloses(w)
  <2>1. w \in Open /\ Closed(w) /\ title' = title /\ rect' = rect
    BY <1>3 DEF WindowCloses, Change
  <2>2. order' \in Seq(Wins) /\ active' \in Range(order') \union {NoWindow}
    BY <1>2, <2>1, ClosedKeeps
  <2>3. LayoutGood'
    BY <1>2, <2>1, <2>2 DEF LayoutGood
  <2> QED BY <1>1, <2>3, ChangeGood
<1>4. CASE FocusMoves(w)
  <2>1. LayoutGood'
    BY <1>2, <1>4 DEF FocusMoves, Change, LayoutGood, Open
  <2> QED BY <1>1, <2>1, ChangeGood
<1>5. CASE UserResizes(w)
  <2>1. /\ rect' = [rect EXCEPT ![w].w = @ + 1, ![w].h = @ + 1]
        /\ order' = order /\ title' = title /\ active' = active
    BY <1>5 DEF UserResizes, Change
  <2>2. rect' \in [Wins -> Places]
    <3> DEFINE wider == [rect[w] EXCEPT !.w = rect[w].w + 1]
               p == [wider EXCEPT !.h = rect[w].h + 1]
    <3>1. rect[w] \in Places
      BY <1>2 DEF LayoutGood
    <3>2. wider \in Places
      BY <3>1 DEF Places
    <3>3. rect' = [rect EXCEPT ![w] = p]
      BY <1>2, <2>1 DEF LayoutGood, Places
    <3> HIDE DEF wider
    <3>4. p \in Places
      BY <3>1, <3>2 DEF Places
    <3> HIDE DEF p
    <3> QED BY <1>2, <3>3, <3>4 DEF LayoutGood
  <2>3. LayoutGood'
    BY <1>2, <2>1, <2>2 DEF LayoutGood
  <2> QED BY <1>1, <2>3, ChangeGood
<1>6. CASE WindowOpens(w, t)
  <2>1. /\ order' = Append(order, w) /\ title' = [title EXCEPT ![w] = t]
        /\ active' = w /\ rect' = rect
    BY <1>6 DEF WindowOpens, Change
  <2>2. order' \in Seq(Wins) /\ order'[Len(order) + 1] = w /\ Len(order) + 1 \in DOMAIN order'
    BY <1>2, <2>1 DEF LayoutGood
  <2>3. w \in Range(order')
    BY <2>2 DEF Range
  <2>4. LayoutGood'
    BY <1>2, <2>1, <2>2, <2>3 DEF LayoutGood
  <2> QED BY <1>1, <2>4, ChangeGood
<1>7. CASE Reorders
  <2>1. /\ Len(order) > 1 /\ order' = Tail(order) \o <<Head(order)>>
        /\ title' = title /\ rect' = rect /\ active' = active
    BY <1>7 DEF Reorders, Change
  <2>2. /\ order' \in Seq(Wins) /\ Len(order') = Len(order)
        /\ \A i \in 1..(Len(order) - 1) : order'[i] = order[i + 1]
        /\ order'[Len(order)] = order[1]
    BY <1>2, <2>1 DEF LayoutGood
  <2>3. ASSUME active # NoWindow PROVE active \in Range(order')
    <3> DEFINE l == Len(order)
    <3>1. PICK i \in 1..l : order[i] = active
      BY <1>2, <2>3 DEF LayoutGood, Range
    <3>2. l \in Nat /\ DOMAIN order' = 1..l
      BY <1>2, <2>2 DEF LayoutGood
    <3>3. (\A j \in 1..(l - 1) : order'[j] = order[j + 1]) /\ order'[l] = order[1] /\ l > 1
      BY <2>1, <2>2
    <3> HIDE DEF l
    <3>4. CASE i = 1
      <4>1. l \in DOMAIN order' /\ order'[l] = active
        BY <3>1, <3>4, <3>2, <3>3
      <4> QED BY <4>1 DEF Range
    <3>5. CASE i > 1
      <4>1. i - 1 \in DOMAIN order' /\ order'[i - 1] = active
        <5>1. i - 1 \in 1..(l - 1) /\ i - 1 \in 1..l /\ (i - 1) + 1 = i
          BY <3>1, <3>5, <3>2
        <5>2. order'[i - 1] = order[(i - 1) + 1]
          BY <3>3, <5>1
        <5> QED BY <3>1, <3>2, <5>1, <5>2
      <4> QED BY <4>1 DEF Range
    <3> QED BY <3>1, <3>4, <3>5
  <2>4. LayoutGood'
    BY <1>2, <2>1, <2>2, <2>3 DEF LayoutGood
  <2> QED BY <1>1, <2>4, ChangeGood
<1> QED BY <1>3, <1>4, <1>5, <1>6, <1>7

\* At startup every window there is is open.
LEMMA WindowStart ==
  ASSUME WindowConstants, WindowInit
  PROVE  WindowInv
<1>1. order \in Seq(Wins) /\ Range(order) = Wins
  BY SetToSeqProperties DEF WindowConstants, WindowInit, Range
<1>2. rect \in [Wins -> Places] /\ Unset \in Places
  BY DEF WindowInit, Places, Unset
<1>3. LayoutGood
  BY <1>1, <1>2 DEF LayoutGood, WindowInit
<1>4. ProviderGood
  BY DEF ProviderGood, WindowInit
<1>5. NoAsk \in AskType /\ NoTarget \in RowType
  BY DEF NoAsk, NoTarget, AskType, RowType
<1>6. CallTyped
  BY <1>2, <1>5 DEF CallTyped, WindowInit
<1>7. CallGood(ask, hits) /\ ToldGood(ask, hits)
  BY DEF CallGood, ToldGood, WindowInit, NoAsk
<1> QED BY <1>3, <1>4, <1>6, <1>7 DEF WindowInv, WindowInit

\* Every step of the desktop and of a window call keeps the invariant.
LEMMA WindowStep ==
  ASSUME WindowInv, WindowConstants, [WindowNext]_windowVars
  PROVE  WindowInv'
<1>1. CASE UNCHANGED windowVars
  <2>1. /\ UNCHANGED <<chosenVars, ask, rows, geometry, hits, failures>> /\ LayoutGood'
        /\ handle' = handle /\ (handle.win \in Open => handle.win \in Open')
    BY <1>1 DEF windowVars, chosenVars, WindowInv, LayoutGood, Open
  <2> QED BY <2>1, ChangeGood
<1>2. ASSUME NEW w \in Wins, WindowCloses(w) \/ FocusMoves(w) \/ UserResizes(w)
      PROVE  WindowInv'
  <2>1. title[w] \in Titles
    BY DEF WindowInv, LayoutGood
  <2> QED BY <1>2, <2>1, DesktopStep
<1>3. ASSUME NEW w \in Wins, NEW t \in Titles, WindowOpens(w, t) PROVE WindowInv'
  BY <1>3, DesktopStep
<1>4. CASE Reorders
  <2>1. PICK w \in Wins : TRUE
    BY <1>4 DEF Reorders, WindowInv, LayoutGood
  <2>2. title[w] \in Titles
    BY DEF WindowInv, LayoutGood
  <2> QED BY <1>4, <2>2, DesktopStep
<1> QED BY <1>1, <1>2, <1>3, <1>4, BeginStep, QueryStep, ResolveStep, DispatchStep
           DEF WindowNext

\* What holds of every reachable state of the windows.
THEOREM WindowsSound == WindowSpec => []WindowInv
<1>1. WindowInit => WindowInv
  BY WindowStart, WindowAssumption
<1>2. WindowInv /\ [WindowNext]_windowVars => WindowInv'
  BY WindowStep, WindowAssumption
<1> QED BY <1>1, <1>2, PTL DEF WindowSpec

\* window_control is exact: it acts on the window it resolved its selector to,
\* whatever the desktop does meanwhile, and its answer says what it did.
THEOREM WindowsExact == WindowSpec => []ControlExact
<1>1. WindowInv => ControlExact
  BY InvExact
<1> QED BY <1>1, WindowsSound, PTL

-----------------------------------------------------------------------------
(* The input devices: types and pointer *)

\* The names of keys, characters and buttons that a call may bring.
InputNames ==
  Modifiers \union {c.button : c \in ToolCalls} \union {c.key : c \in ToolCalls}
    \union UNION {Range(c.text) : c \in ToolCalls}
Fates == {"abort", "cleanup", "report", "ignore"}
InputOps ==
  [op : {"key", "button"}, names : {<<x>> : x \in InputNames},
   pressed : BOOLEAN, onfail : Fates]
  \union [op : {"click"}, at : Int, names : {<<x>> : x \in InputNames},
          pressed : {TRUE}, onfail : Fates]
  \union [op : {"text"}, names : Seq(InputNames), pressed : {TRUE}, onfail : Fates]
  \union [op : {"move"}, at : Int, names : {<<>>}, onfail : Fates]
InputTurns ==
  [pc : {"idle", "run", "gap", "done"}, call : ToolCalls \union {Unknown},
   ops : Seq(InputOps), failed : {"no"} \union Fates, before : Windows \union {Unknown},
   sent : Int, typed : Nat, astray : Nat, blind : BOOLEAN,
   result : {"none", "noop", "error", "focus_changed", "ok"}]

InputType ==
  /\ backend \in {"wlr", "uinput", "x11", "portal"}
  /\ outputs \in Arrangements
  /\ backend = "uinput" => extent \in Nat \ {0}
  /\ wanted \in Int
  /\ focus \in Windows
  /\ turn \in [Callers -> InputTurns]
  /\ \A n \in Callers : turn[n].pc \in {"run", "gap"} => turn[n].call \in ToolCalls

InputEvents ==
  [code : {ShiftCode, SpareCode} \union {Layout[x].code : x \in DOMAIN Layout} \union InputNames,
   down : BOOLEAN]

\* What a name is bound to: a key of the layout, or the spare one.
LEMMA BindingIs ==
  ASSUME InputConstants, NEW name
  PROVE  /\ Binding(name).shifted \in BOOLEAN
         /\ Binding(name).code \in {SpareCode} \union {Layout[x].code : x \in DOMAIN Layout}
BY DEF Binding, InputConstants

\* The events of a key.
LEMMA KeyEventsAre ==
  ASSUME InputConstants, NEW name, NEW pressed \in BOOLEAN
  PROVE  LET b == Binding(name)
         IN  KeyEvents(name, pressed) =
               IF pressed THEN IF b.shifted THEN <<Press(ShiftCode), Press(b.code)>>
                               ELSE <<Press(b.code)>>
               ELSE IF b.shifted THEN <<Release(b.code), Release(ShiftCode)>>
                    ELSE <<Release(b.code)>>
<1> DEFINE b == Binding(name)
<1>1. /\ <<Press(ShiftCode)>> \o <<Press(b.code)>> = <<Press(ShiftCode), Press(b.code)>>
      /\ <<Release(b.code)>> \o <<Release(ShiftCode)>>
           = <<Release(b.code), Release(ShiftCode)>>
  BY PairUp
<1>2. /\ <<>> \o <<Press(b.code)>> = <<Press(b.code)>>
      /\ <<Release(b.code)>> \o <<>> = <<Release(b.code)>>
  OBVIOUS
<1>3. b.shifted \in BOOLEAN
  BY BindingIs
<1>4. CASE b.shifted
  BY <1>1, <1>4 DEF KeyEvents
<1>5. CASE ~b.shifted
  BY <1>2, <1>5 DEF KeyEvents
<1> QED BY <1>3, <1>4, <1>5

\* They are presses or releases of codes.
LEMMA KeyEventsTyped ==
  ASSUME InputConstants, NEW name, NEW pressed \in BOOLEAN
  PROVE  KeyEvents(name, pressed) \in Seq(InputEvents)
<1> DEFINE b == Binding(name)
<1>1. /\ Press(b.code) \in InputEvents /\ Release(b.code) \in InputEvents
      /\ Press(ShiftCode) \in InputEvents /\ Release(ShiftCode) \in InputEvents
  BY BindingIs DEF InputEvents, Press, Release
<1>2. b.shifted \in BOOLEAN
  BY BindingIs
<1> HIDE DEF b
<1>3. KeyEvents(name, pressed) =
        IF pressed THEN IF b.shifted THEN <<Press(ShiftCode), Press(b.code)>>
                        ELSE <<Press(b.code)>>
        ELSE IF b.shifted THEN <<Release(b.code), Release(ShiftCode)>>
             ELSE <<Release(b.code)>>
  BY KeyEventsAre DEF b
<1> QED BY <1>1, <1>2, <1>3

\* So are those of a key pressed and released, after which none of them is down.
LEMMA TapEvents ==
  ASSUME InputConstants, NEW name
  PROVE  Tap(name) \in Seq(InputEvents) /\ LastDown(Tap(name)) = {}
<1> DEFINE b == Binding(name)
<1>1. /\ Press(b.code) \in InputEvents /\ Release(b.code) \in InputEvents
      /\ Press(ShiftCode) \in InputEvents /\ Release(ShiftCode) \in InputEvents
  BY BindingIs DEF InputEvents, Press, Release
<1>2. b.shifted \in BOOLEAN
  BY BindingIs
<1> HIDE DEF b
<1>3. CASE b.shifted
  <2>1. /\ KeyEvents(name, TRUE) = <<Press(ShiftCode), Press(b.code)>>
        /\ KeyEvents(name, FALSE) = <<Release(b.code), Release(ShiftCode)>>
    BY <1>3, KeyEventsAre DEF b
  <2> DEFINE s == <<Press(ShiftCode), Press(b.code), Release(b.code), Release(ShiftCode)>>
  <2>2. Tap(name) = s
    BY <2>1, PairsUp DEF Tap
  <2>3. s \in Seq(InputEvents)
    BY <1>1
  <2>4. LastDown(s) = {}
    BY DEF LastDown, Press, Release
  <2> HIDE DEF s
  <2> QED BY <2>2, <2>3, <2>4
<1>4. CASE ~b.shifted
  <2>1. /\ KeyEvents(name, TRUE) = <<Press(b.code)>>
        /\ KeyEvents(name, FALSE) = <<Release(b.code)>>
    BY <1>4, KeyEventsAre DEF b
  <2> DEFINE s == <<Press(b.code), Release(b.code)>>
  <2>2. Tap(name) = s
    BY <2>1, PairUp DEF Tap
  <2>3. s \in Seq(InputEvents)
    BY <1>1
  <2>4. LastDown(s) = {}
    BY DEF LastDown, Press, Release
  <2> HIDE DEF s
  <2> QED BY <2>2, <2>3, <2>4
<1> QED BY <1>2, <1>3, <1>4

\* A batch leaves nothing down when every press of it is followed by the same code.
LEMMA LeavesNothing ==
  ASSUME NEW s
  PROVE  LastDown(s) = {} <=>
           \A i \in DOMAIN s : s[i].down => \E k \in DOMAIN s : k > i /\ s[k].code = s[i].code
BY DEF LastDown

\* Of two batches that leave nothing down, one after the other leaves nothing down.
LEMMA LiftedTogether ==
  ASSUME NEW a \in Seq(InputEvents), NEW b \in Seq(InputEvents),
         LastDown(a) = {}, LastDown(b) = {}
  PROVE  LastDown(a \o b) = {}
<1>1. /\ \A i \in DOMAIN a : a[i].down => \E k \in DOMAIN a : k > i /\ a[k].code = a[i].code
      /\ \A i \in DOMAIN b : b[i].down => \E k \in DOMAIN b : k > i /\ b[k].code = b[i].code
  BY LeavesNothing
<1>2. /\ a \o b \in Seq(InputEvents) /\ Len(a) \in Nat /\ Len(b) \in Nat
      /\ Len(a \o b) = Len(a) + Len(b)
      /\ \A i \in 1..(Len(a) + Len(b)) :
           (a \o b)[i] = IF i <= Len(a) THEN a[i] ELSE b[i - Len(a)]
  BY ConcatProperties
<1> DEFINE s == a \o b
<1>3. ASSUME NEW i \in DOMAIN s, s[i].down
      PROVE  \E k \in DOMAIN s : k > i /\ s[k].code = s[i].code
  <2>1. CASE i <= Len(a)
    <3>1. i \in DOMAIN a /\ s[i] = a[i]
      BY <1>2, <2>1
    <3>2. PICK k \in DOMAIN a : k > i /\ a[k].code = a[i].code
      BY <1>1, <1>3, <3>1
    <3>3. k \in DOMAIN s /\ s[k] = a[k]
      BY <1>2, <3>2
    <3> QED BY <3>1, <3>2, <3>3
  <2>2. CASE i > Len(a)
    <3>1. i - Len(a) \in DOMAIN b /\ s[i] = b[i - Len(a)]
      BY <1>2, <2>2
    <3>2. PICK k \in DOMAIN b : k > i - Len(a) /\ b[k].code = b[i - Len(a)].code
      BY <1>1, <1>3, <3>1
    <3>3. k + Len(a) \in DOMAIN s /\ k + Len(a) > i /\ s[k + Len(a)] = b[k]
      BY <1>2, <2>2, <3>2
    <3> QED BY <3>1, <3>2, <3>3
  <2> QED BY <1>2, <2>1, <2>2
<1> HIDE DEF s
<1>4. LastDown(s) = {}
  BY <1>3, LeavesNothing
<1> QED BY <1>4 DEF s

\* A text is typed key by key, and leaves nothing down.
LEMMA TextEvents ==
  ASSUME InputConstants, NEW keys \in Seq(InputNames)
  PROVE  LET s == FlattenSeq([i \in DOMAIN keys |-> Tap(keys[i])])
         IN  s \in Seq(InputEvents) /\ LastDown(s) = {}
<1> DEFINE taps == [i \in DOMAIN keys |-> Tap(keys[i])]
<1>1. /\ \A i \in DOMAIN keys : Tap(keys[i]) \in Seq(InputEvents) /\ LastDown(Tap(keys[i])) = {}
  BY TapEvents
<1>2. /\ DOMAIN keys = 1..Len(keys) /\ Len(keys) \in Nat
      /\ taps \in Seq(Seq(InputEvents)) /\ Len(taps) = Len(keys)
  BY <1>1
<1>3. \A i \in 1..Len(taps) : LastDown(taps[i]) = {} /\ taps[i] \in Seq(InputEvents)
  BY <1>1, <1>2
<1>4. CASE keys = <<>>
  <2>1. taps = <<>> /\ Len(taps) = 0
    BY <1>4
  <2>2. FlattenSeq(taps) = <<>>
    <3> HIDE DEF taps
    <3> QED BY <2>1 DEF FlattenSeq
  <2>3. LastDown(<<>>) = {} /\ <<>> \in Seq(InputEvents)
    BY DEF LastDown
  <2> QED BY <2>2, <2>3
<1>5. CASE keys # <<>>
  <2>1. taps # <<>> /\ Len(taps) \in Nat \ {0}
    BY <1>2, <1>5
  <2> HIDE DEF taps
  <2>2. PICK f \in [1..Len(taps) -> Seq(InputEvents)] :
           /\ FlattenSeq(taps) = f[Len(taps)]
           /\ f[1] = taps[1]
           /\ \A i \in 2..Len(taps) : f[i] = f[i - 1] \o taps[i]
    BY <1>2, <2>1, FlattenSteps
  <2> DEFINE M == {i \in Nat : i = 0 \/ LastDown(f[i]) = {}}
  <2>3. 0 \in M
    OBVIOUS
  <2>4. ASSUME NEW k \in 0..(Len(taps) - 1), k \in M PROVE k + 1 \in M
    <3>1. CASE k = 0
      <4>1. 1 \in 1..Len(taps)
        BY <2>1
      <4>2. LastDown(taps[1]) = {}
        BY <1>3, <4>1
      <4>3. LastDown(f[1]) = {}
        BY <2>2, <4>2
      <4> QED BY <3>1, <4>3
    <3>2. CASE k # 0
      <4> DEFINE more == k + 1
      <4>1. more \in 2..Len(taps) /\ more - 1 = k /\ k \in 1..Len(taps)
        BY <2>1, <3>2
      <4> HIDE DEF more
      <4>2. f[more] = f[more - 1] \o taps[more]
        BY <2>2, <4>1
      <4>3. /\ f[k] \in Seq(InputEvents) /\ taps[more] \in Seq(InputEvents)
            /\ LastDown(f[k]) = {} /\ LastDown(taps[more]) = {}
        <5>1. more \in 1..Len(taps)
          BY <4>1
        <5>2. LastDown(f[k]) = {}
          BY <2>4, <3>2
        <5> QED BY <1>3, <2>2, <4>1, <5>1, <5>2
      <4>4. LastDown(f[k] \o taps[more]) = {}
        BY <4>3, LiftedTogether
      <4>5. LastDown(f[more]) = {} /\ more \in Nat
        BY <4>1, <4>2, <4>4
      <4> QED BY <4>5 DEF more
    <3> QED BY <3>1, <3>2
  <2>5. \A k \in 0..Len(taps) : k \in M
    <3> HIDE DEF M
    <3> QED BY <2>1, <2>3, <2>4, UpTo
  <2>6. Len(taps) \in M /\ Len(taps) # 0 /\ f[Len(taps)] \in Seq(InputEvents)
    <3> HIDE DEF M
    <3> QED BY <2>1, <2>5
  <2>7. FlattenSeq(taps) \in Seq(InputEvents) /\ LastDown(FlattenSeq(taps)) = {}
    BY <2>2, <2>6
  <2> QED BY <2>7 DEF taps
<1> QED BY <1>4, <1>5

\* What an operation sends is a batch of events.
LEMMA EventsTyped ==
  ASSUME InputConstants, NEW o \in InputOps
  PROVE  Events(o) \in Seq(InputEvents)
<1>2. CASE o.op = "key"
  <2>1. PICK x \in InputNames : o.names = <<x>>
    BY <1>2 DEF InputOps
  <2>2. o.names[1] = x
    BY <2>1
  <2>3. o.pressed \in BOOLEAN
    BY <1>2 DEF InputOps
  <2>4. KeyEvents(x, o.pressed) \in Seq(InputEvents)
    BY <2>3, KeyEventsTyped
  <2> QED BY <1>2, <2>2, <2>4 DEF Events
<1>3. CASE o.op = "text"
  <2>1. o.names \in Seq(InputNames)
    BY <1>3 DEF InputOps
  <2>2. FlattenSeq([i \in DOMAIN o.names |-> Tap(o.names[i])]) \in Seq(InputEvents)
    BY <2>1, TextEvents
  <2> QED BY <1>3, <2>2 DEF Events
<1>4. CASE o.op \in {"button", "click"}
  <2>1. PICK x \in InputNames : o.names = <<x>>
    BY <1>4 DEF InputOps
  <2>2. Press(x) \in InputEvents /\ Release(x) \in InputEvents /\ o.names[1] = x
    BY <2>1 DEF InputEvents, Press, Release
  <2> QED BY <1>4, <2>2 DEF Events
<1>5. CASE o.op = "move"
  BY <1>5 DEF Events
<1> QED BY <1>2, <1>3, <1>4, <1>5 DEF InputOps

\* What the scripts are made of.
LEMMA OpsTyped ==
  ASSUME NEW x \in InputNames, NEW f \in Fates, NEW p \in BOOLEAN,
         NEW s \in Seq(InputNames), NEW at \in Int
  PROVE  /\ Key(x, p, f) \in InputOps /\ Button(x, p, f) \in InputOps
         /\ Click(at, x, f) \in InputOps /\ Text(s, f) \in InputOps /\ Move(at, f) \in InputOps
BY DEF Key, Button, Click, Text, Move, InputOps

\* The names in a call of the tools.
LEMMA CallNames ==
  ASSUME InputConstants, NEW c \in ToolCalls
  PROVE  /\ c.button \in InputNames /\ c.key \in InputNames
         /\ c.text \in Seq(InputNames) /\ Modifiers \subseteq InputNames
         /\ c.from \in Int /\ c.to \in Int
<1>1. c.button \in InputNames /\ c.key \in InputNames /\ Modifiers \subseteq InputNames
  BY DEF InputNames
<1>2. c.text \in Seq(Range(c.text)) /\ c.from \in Int /\ c.to \in Int
  BY DEF InputConstants
<1>3. Range(c.text) \subseteq InputNames
  BY DEF InputNames
<1>4. c.text \in Seq(InputNames)
  BY <1>2, <1>3
<1> QED BY <1>1, <1>2, <1>4

\* The modifiers of a chord are those the call names.
LEMMA ModsTyped ==
  ASSUME NEW c
  PROVE  ModsOf(c) \in Seq(c.modifiers \intersect Modifiers)
<1> DEFINE M == c.modifiers \intersect Modifiers
<1>1. ASSUME NEW m \in Modifiers PROVE OneOf(c, m) \in Seq(M)
  <2>1. m \in c.modifiers => m \in M
    OBVIOUS
  <2> HIDE DEF M
  <2>2. m \in c.modifiers => <<m>> \in Seq(M)
    BY <2>1, ShortSeq
  <2>3. <<>> \in Seq(M)
    OBVIOUS
  <2> QED BY <2>2, <2>3 DEF OneOf
<1>2. /\ OneOf(c, "Control_L") \in Seq(M) /\ OneOf(c, "Shift_L") \in Seq(M)
      /\ OneOf(c, "Alt_L") \in Seq(M) /\ OneOf(c, "Super_L") \in Seq(M)
  BY <1>1 DEF Modifiers
<1> HIDE DEF M
<1>3. OneOf(c, "Control_L") \o OneOf(c, "Shift_L") \in Seq(M)
  BY <1>2, ConcatProperties
<1>4. OneOf(c, "Control_L") \o OneOf(c, "Shift_L") \o OneOf(c, "Alt_L") \in Seq(M)
  BY <1>2, <1>3, ConcatProperties
<1>5. ModsOf(c) \in Seq(M)
  BY <1>2, <1>4, ConcatProperties DEF ModsOf
<1> QED BY <1>5 DEF M

\* A chord: its modifiers, its key, and its modifiers the other way round.
LEMMA KeyOpsAre ==
  ASSUME InputConstants, NEW c \in ToolCalls
  PROVE  LET s == ModsOf(c)
             g == IF c.action = "press" THEN 2 ELSE 1
             ops == KeyOps(c)
         IN  /\ ops \in Seq(InputOps) /\ Len(s) \in Nat /\ Len(ops) = Len(s) + g + Len(s)
             /\ \A i \in 1..Len(s) :
                  /\ s[i] \in c.modifiers
                  /\ ops[i] = Key(s[i], TRUE, "abort")
                  /\ ops[Len(s) + g + i] = Key(s[Len(s) - i + 1], FALSE, "ignore")
             /\ ops[Len(s) + 1] = Key(c.key, c.action \in {"press", "down"}, "cleanup")
             /\ c.action = "press" => ops[Len(s) + 2] = Key(c.key, FALSE, "cleanup")
<1> DEFINE s == ModsOf(c)
           g == IF c.action = "press" THEN 2 ELSE 1
           a == [i \in DOMAIN s |-> Key(s[i], TRUE, "abort")]
           b == IF c.action = "press"
                THEN <<Key(c.key, TRUE, "cleanup"), Key(c.key, FALSE, "cleanup")>>
                ELSE <<Key(c.key, c.action = "down", "cleanup")>>
           d == [i \in DOMAIN s |-> Key(s[i], FALSE, "ignore")]
           e == Reverse(d)
<1>1. /\ Len(s) \in Nat /\ DOMAIN s = 1..Len(s) /\ \A i \in 1..Len(s) : s[i] \in c.modifiers
      /\ \A i \in 1..Len(s) : s[i] \in InputNames
  <2>1. s \in Seq(c.modifiers \intersect Modifiers)
    BY ModsTyped
  <2>2. Modifiers \subseteq InputNames
    BY CallNames
  <2> HIDE DEF s
  <2> QED BY <2>1, <2>2
<1>2. c.key \in InputNames /\ {"abort", "cleanup", "ignore"} \subseteq Fates
  BY CallNames DEF Fates
<1> HIDE DEF s
<1>3. \A p \in BOOLEAN, f \in Fates, x \in InputNames : Key(x, p, f) \in InputOps
  BY DEF Key, InputOps
<1>4. \A i \in 1..Len(s) : a[i] = Key(s[i], TRUE, "abort") /\ d[i] = Key(s[i], FALSE, "ignore")
  BY <1>1
<1>5. /\ a \in [1..Len(s) -> InputOps] /\ d \in [1..Len(s) -> InputOps]
  <2>1. /\ \A i \in 1..Len(s) : Key(s[i], TRUE, "abort") \in InputOps
        /\ \A i \in 1..Len(s) : Key(s[i], FALSE, "ignore") \in InputOps
    BY <1>1, <1>2, <1>3
  <2> QED BY <1>1, <2>1
<1>6. /\ a \in Seq(InputOps) /\ Len(a) = Len(s)
      /\ d \in Seq(InputOps) /\ Len(d) = Len(s)
  <2> HIDE DEF a, d
  <2> QED BY <1>1, <1>5, FunctionSeq
<1>7. e \in Seq(InputOps) /\ Len(e) = Len(s)
      /\ \A i \in 1..Len(s) : e[i] = Key(s[Len(s) - i + 1], FALSE, "ignore")
  <2>1. \A i \in 1..Len(s) : Len(s) - i + 1 \in 1..Len(s)
    BY <1>1
  <2>2. e = [i \in 1..Len(s) |-> d[Len(s) - i + 1]]
    <3> HIDE DEF d
    <3> QED BY <1>6 DEF Reverse
  <2>3. \A i \in 1..Len(s) : e[i] = d[Len(s) - i + 1]
    <3> HIDE DEF d
    <3> QED BY <2>2
  <2>4. e \in [1..Len(s) -> InputOps]
    <3> HIDE DEF d, e
    <3> QED BY <1>5, <2>1, <2>2
  <2>5. \A i \in 1..Len(s) : e[i] = Key(s[Len(s) - i + 1], FALSE, "ignore")
    <3> HIDE DEF d, e
    <3> QED BY <1>4, <2>1, <2>3
  <2> HIDE DEF d, e
  <2> QED BY <1>1, <2>4, <2>5, FunctionSeq
<1>8. /\ b \in Seq(InputOps) /\ Len(b) = g /\ g \in {1, 2}
      /\ b[1] = Key(c.key, c.action \in {"press", "down"}, "cleanup")
      /\ c.action = "press" => b[2] = Key(c.key, FALSE, "cleanup")
  <2> DEFINE x == Key(c.key, TRUE, "cleanup")
             y == Key(c.key, FALSE, "cleanup")
  <2>1. x \in InputOps /\ y \in InputOps
    BY <1>2, <1>3
  <2>2. CASE c.action = "press"
    <3>1. b = <<x, y>> /\ g = 2 /\ x = Key(c.key, c.action \in {"press", "down"}, "cleanup")
      BY <2>2 DEF Key
    <3> HIDE DEF b, g, x, y
    <3>2. b \in Seq(InputOps) /\ Len(b) = 2 /\ b[1] = x /\ b[2] = y
      BY <2>1, <3>1, ShortSeq
    <3> QED BY <3>1, <3>2 DEF y
  <2>3. CASE c.action = "down"
    <3>1. b = <<x>> /\ g = 1 /\ x = Key(c.key, c.action \in {"press", "down"}, "cleanup")
      BY <2>3 DEF Key
    <3> HIDE DEF b, g, x, y
    <3>2. b \in Seq(InputOps) /\ Len(b) = 1 /\ b[1] = x
      BY <2>1, <3>1, ShortSeq
    <3> QED BY <2>3, <3>1, <3>2
  <2>4. CASE c.action \notin {"press", "down"}
    <3>1. b = <<y>> /\ g = 1 /\ y = Key(c.key, c.action \in {"press", "down"}, "cleanup")
      <4>1. (c.action \in {"press", "down"}) = FALSE /\ (c.action = "down") = FALSE
        BY <2>4
      <4>2. c.action # "press"
        BY <2>4
      <4> QED BY <4>1, <4>2
    <3> HIDE DEF b, g, x, y
    <3>2. b \in Seq(InputOps) /\ Len(b) = 1 /\ b[1] = y
      BY <2>1, <3>1, ShortSeq
    <3> QED BY <2>4, <3>1, <3>2
  <2> QED BY <2>2, <2>3, <2>4
<1>9. KeyOps(c) = (a \o b) \o e
  BY DEF KeyOps, s
<1>10. c.action = "press" => g = 2
  OBVIOUS
<1> HIDE DEF a, b, d, e, g
<1> DEFINE ab == a \o b
<1>11. /\ ab \in Seq(InputOps) /\ Len(ab) = Len(s) + g
       /\ \A i \in 1..Len(s) : ab[i] = a[i]
       /\ \A i \in 1..g : ab[Len(s) + i] = b[i]
  BY <1>1, <1>6, <1>8, ConcatAt
<1> HIDE DEF ab
<1> DEFINE ops == ab \o e
<1>12. /\ ops \in Seq(InputOps) /\ Len(ops) = (Len(s) + g) + Len(s)
       /\ \A i \in 1..(Len(s) + g) : ops[i] = ab[i]
       /\ \A i \in 1..Len(s) : ops[(Len(s) + g) + i] = e[i]
  <2>1. /\ ops \in Seq(InputOps) /\ Len(ops) = Len(ab) + Len(e)
        /\ \A i \in 1..Len(ab) : ops[i] = ab[i]
        /\ \A i \in 1..Len(e) : ops[Len(ab) + i] = e[i]
    <3>1. ab \in Seq(InputOps) /\ e \in Seq(InputOps)
      BY <1>7, <1>11
    <3> QED BY <3>1, ConcatAt
  <2>2. Len(ab) = Len(s) + g /\ Len(e) = Len(s)
    BY <1>7, <1>11
  <2> HIDE DEF ops
  <2> QED BY <2>1, <2>2
<1> HIDE DEF ops
<1>13. ASSUME NEW i \in 1..Len(s) PROVE ops[i] = Key(s[i], TRUE, "abort")
  <2>1. i \in 1..(Len(s) + g)
    BY <1>1, <1>8
  <2> QED BY <1>4, <1>11, <1>12, <2>1
<1>14. ops[Len(s) + 1] = b[1] /\ (g = 2 => ops[Len(s) + 2] = b[2])
  <2>1. 1 \in 1..g /\ Len(s) + 1 \in 1..(Len(s) + g)
        /\ (g = 2 => 2 \in 1..g /\ Len(s) + 2 \in 1..(Len(s) + g))
    BY <1>1, <1>8
  <2> QED BY <1>11, <1>12, <2>1
<1>15. KeyOps(c) = ops
  BY <1>9 DEF ops, ab
<1>16. \A i \in 1..Len(s) : ops[(Len(s) + g) + i] = Key(s[Len(s) - i + 1], FALSE, "ignore")
  BY <1>7, <1>12
<1> QED BY <1>1, <1>8, <1>10, <1>12, <1>13, <1>14, <1>15, <1>16 DEF g, s

\* A drag: to its start, the button down, its steps, the button up.
LEMMA DragOpsAre ==
  ASSUME InputConstants, NEW c \in ToolCalls
  PROVE  LET ops == DragOps(c)
         IN  /\ ops \in Seq(InputOps) /\ Len(ops) = MaxSteps + 3
             /\ ops[1] = Move(c.from, "abort")
             /\ ops[2] = Button(c.button, TRUE, "abort")
             /\ \A i \in 3..(MaxSteps + 2) : ops[i].op = "move" /\ ops[i].onfail = "cleanup"
             /\ ops[MaxSteps + 3] = Button(c.button, FALSE, "report")
<1> DEFINE to(i) == c.from + (((c.to - c.from) * i) \div MaxSteps)
           a == <<Move(c.from, "abort"), Button(c.button, TRUE, "abort")>>
           b == [i \in 1..MaxSteps |-> Move(to(i), "cleanup")]
           e == <<Button(c.button, FALSE, "report")>>
<1>1. MaxSteps \in Nat \ {0} /\ c.from \in Int /\ c.to \in Int /\ c.button \in InputNames
  BY CallNames DEF InputConstants
<1>2. \A i \in 1..MaxSteps : to(i) \in Int
  <2>1. ASSUME NEW i \in Int PROVE (c.to - c.from) * i \in Int
    BY <1>1
  <2>2. \A x \in Int : x \div MaxSteps \in Int
    BY <1>1
  <2> QED BY <1>1, <2>1, <2>2
<1> HIDE DEF to
<1>3. /\ {"abort", "cleanup", "report"} \subseteq Fates /\ <<>> \in Seq(InputNames)
      /\ \A p \in BOOLEAN, f \in Fates : Button(c.button, p, f) \in InputOps
      /\ \A x \in Int, f \in Fates : Move(x, f) \in InputOps
  <2>1. {"abort", "cleanup", "report"} \subseteq Fates /\ <<>> \in Seq(InputNames)
    BY DEF Fates
  <2>2. \A p \in BOOLEAN, f \in Fates : Button(c.button, p, f) \in InputOps
    BY <1>1, OpsTyped, <2>1
  <2>3. \A x \in Int, f \in Fates : Move(x, f) \in InputOps
    BY <1>1, OpsTyped, <2>1
  <2> QED BY <2>1, <2>2, <2>3
<1>4. /\ a \in Seq(InputOps) /\ Len(a) = 2
      /\ a[1] = Move(c.from, "abort") /\ a[2] = Button(c.button, TRUE, "abort")
      /\ e \in Seq(InputOps) /\ Len(e) = 1 /\ e[1] = Button(c.button, FALSE, "report")
  <2> DEFINE x == Move(c.from, "abort")
             y == Button(c.button, TRUE, "abort")
             z == Button(c.button, FALSE, "report")
  <2>1. x \in InputOps /\ y \in InputOps /\ z \in InputOps
    BY <1>1, <1>3
  <2> HIDE DEF x, y, z
  <2>2. <<x, y>> \in Seq(InputOps) /\ Len(<<x, y>>) = 2 /\ <<x, y>>[1] = x /\ <<x, y>>[2] = y
        /\ <<z>> \in Seq(InputOps) /\ Len(<<z>>) = 1 /\ <<z>>[1] = z
    BY <2>1, ShortSeq
  <2> QED BY <2>2 DEF x, y, z
<1>5. b \in Seq(InputOps) /\ Len(b) = MaxSteps
      /\ \A i \in 1..MaxSteps : b[i].op = "move" /\ b[i].onfail = "cleanup"
  <2>1. \A i \in 1..MaxSteps : b[i] = Move(to(i), "cleanup") /\ b[i] \in InputOps
    BY <1>2, <1>3
  <2>2. b \in [1..MaxSteps -> InputOps]
    BY <1>2, <1>3
  <2>3. b \in Seq(InputOps) /\ Len(b) = MaxSteps
    <3> HIDE DEF b
    <3> QED BY <1>1, <2>2, FunctionSeq
  <2> QED BY <2>1, <2>3 DEF Move
<1>6. DragOps(c) = (a \o b) \o e
  BY DEF DragOps, to
<1> DEFINE ab == a \o b
<1> HIDE DEF a, b, e
<1>7. /\ ab \in Seq(InputOps) /\ Len(ab) = 2 + MaxSteps
      /\ \A i \in 1..2 : ab[i] = a[i]
      /\ \A i \in 1..MaxSteps : ab[2 + i] = b[i]
  <2>1. /\ ab \in Seq(InputOps) /\ Len(ab) = Len(a) + Len(b)
        /\ \A i \in 1..Len(a) : ab[i] = a[i]
        /\ \A i \in 1..Len(b) : ab[Len(a) + i] = b[i]
    <3>1. a \in Seq(InputOps) /\ b \in Seq(InputOps)
      BY <1>4, <1>5
    <3> QED BY <3>1, ConcatAt
  <2>2. Len(a) = 2 /\ Len(b) = MaxSteps
    BY <1>4, <1>5
  <2> HIDE DEF ab
  <2> QED BY <2>1, <2>2
<1> HIDE DEF ab
<1> DEFINE ops == ab \o e
<1>8. /\ ops \in Seq(InputOps) /\ Len(ops) = (2 + MaxSteps) + 1
      /\ \A i \in 1..(2 + MaxSteps) : ops[i] = ab[i]
      /\ \A i \in 1..1 : ops[(2 + MaxSteps) + i] = e[i]
  <2>1. /\ ops \in Seq(InputOps) /\ Len(ops) = Len(ab) + Len(e)
        /\ \A i \in 1..Len(ab) : ops[i] = ab[i]
        /\ \A i \in 1..Len(e) : ops[Len(ab) + i] = e[i]
    <3>1. ab \in Seq(InputOps) /\ e \in Seq(InputOps)
      BY <1>4, <1>7
    <3> QED BY <3>1, ConcatAt
  <2>2. Len(ab) = 2 + MaxSteps /\ Len(e) = 1
    BY <1>4, <1>7
  <2> HIDE DEF ops
  <2> QED BY <2>1, <2>2
<1> HIDE DEF ops
<1>9. ops[1] = a[1] /\ ops[2] = a[2]
  BY <1>1, <1>7, <1>8
<1>10. ops[MaxSteps + 3] = e[1]
  <2>1. MaxSteps + 3 = (2 + MaxSteps) + 1 /\ 1 \in 1..1
    BY <1>1
  <2> QED BY <1>8, <2>1
<1>11. ASSUME NEW i \in 3..(MaxSteps + 2)
       PROVE  ops[i].op = "move" /\ ops[i].onfail = "cleanup"
  <2> DEFINE k == i - 2
  <2>1. k \in 1..MaxSteps /\ 2 + k = i /\ i \in 1..(2 + MaxSteps)
    BY <1>1
  <2> HIDE DEF k
  <2>2. ops[i] = b[k]
    BY <1>7, <1>8, <2>1
  <2> QED BY <1>5, <2>1, <2>2
<1>12. DragOps(c) = ops /\ Len(ops) = MaxSteps + 3
  BY <1>1, <1>6, <1>8 DEF ops, ab
<1> QED BY <1>4, <1>8, <1>9, <1>10, <1>11, <1>12

-----------------------------------------------------------------------------
(* The input devices: what is pressed is released *)

\* An operation that releases a code; the codes of a chord's modifiers.
Frees(o, k) ==
  /\ o.op \in {"key", "button"} /\ ~o.pressed
  /\ Resolves(o) /\ k \in Touched(Events(o))
Chord(c) ==
  IF c.tool = "key_control" THEN UNION {Codes(Key(m, TRUE, "abort")) : m \in c.modifiers} ELSE {}

\* From position i on, the script releases the code, whatever fails before it does.
Freed(ops, c, i, k) ==
  \E j \in DOMAIN ops :
    /\ i <= j /\ Frees(ops[j], k)
    /\ j = i \/ ops[j].onfail \in Releasing
    /\ \A l \in DOMAIN ops : i <= l /\ l < j => ops[l].onfail # "abort" \/ k \in Chord(c)

\* A down that is meant to last.
MeantToLast(c, o) == Lasting(c) /\ (o.op = "button" \/ o.onfail = "cleanup")

\* Whatever a script presses, it is meant to last or released after it.
Pressed(o) == IF Resolves(o) THEN LastDown(Events(o)) ELSE {}
Kept(ops, c) ==
  \A i \in DOMAIN ops : \A k \in Pressed(ops[i]) : MeantToLast(c, ops[i]) \/ Freed(ops, c, i + 1, k)

\* Texts are the calls of the typing tool: alone, or one after the other.
Typing(ops, c) ==
  \A i \in DOMAIN ops :
    /\ ops[i].op = "text" => c.tool = "type_text" /\ (c.delayed \/ Len(ops) = 1)
    /\ c.tool = "type_text" /\ c.delayed => ops[i].op = "text"

\* Of a key, a press and a release touch the same codes; a release leaves none down.
LEMMA KeyCodes ==
  ASSUME InputConstants, NEW x
  PROVE  /\ Touched(KeyEvents(x, TRUE)) = Touched(KeyEvents(x, FALSE))
         /\ LastDown(KeyEvents(x, FALSE)) = {}
         /\ LastDown(KeyEvents(x, TRUE)) \subseteq Touched(KeyEvents(x, TRUE))
<1> DEFINE b == Binding(x)
           p == Press(b.code)
           r == Release(b.code)
           ps == Press(ShiftCode)
           rs == Release(ShiftCode)
<1>1. \A t : LastDown(t) \subseteq Touched(t)
  BY DEF LastDown, Touched
<1>2. b.shifted \in BOOLEAN
  BY BindingIs
<1>3. p.code = r.code /\ ps.code = rs.code /\ r.down = FALSE /\ rs.down = FALSE
  BY DEF Press, Release
<1>4. CASE b.shifted
  <2>1. KeyEvents(x, TRUE) = <<ps, p>> /\ KeyEvents(x, FALSE) = <<r, rs>>
    BY <1>4, KeyEventsAre
  <2> HIDE DEF p, r, ps, rs
  <2>2. /\ Touched(<<ps, p>>) = {ps.code, p.code} /\ Touched(<<r, rs>>) = {r.code, rs.code}
        /\ LastDown(<<r, rs>>) = {}
    BY <1>3 DEF Touched, LastDown
  <2>3. Touched(KeyEvents(x, TRUE)) = Touched(KeyEvents(x, FALSE))
    BY <1>3, <2>1, <2>2
  <2> QED BY <1>1, <2>1, <2>2, <2>3
<1>5. CASE ~b.shifted
  <2>1. KeyEvents(x, TRUE) = <<p>> /\ KeyEvents(x, FALSE) = <<r>>
    BY <1>5, KeyEventsAre
  <2> HIDE DEF p, r
  <2>2. /\ Touched(<<p>>) = {p.code} /\ Touched(<<r>>) = {r.code}
        /\ LastDown(<<r>>) = {}
    BY <1>3 DEF Touched, LastDown
  <2>3. Touched(KeyEvents(x, TRUE)) = Touched(KeyEvents(x, FALSE))
    BY <1>3, <2>1, <2>2
  <2> QED BY <1>1, <2>1, <2>2, <2>3
<1> QED BY <1>2, <1>4, <1>5

\* Only a key or a button that goes down leaves a code down.
LEMMA PressingOps ==
  ASSUME InputConstants, NEW o \in InputOps, Pressed(o) # {}
  PROVE  o.op \in {"key", "button"} /\ o.pressed /\ Resolves(o)
<1>1. Resolves(o) /\ LastDown(Events(o)) # {}
  BY DEF Pressed
<1>2. CASE o.op = "key"
  <2>1. PICK x \in InputNames : o.names = <<x>> /\ o.pressed \in BOOLEAN
    BY <1>2 DEF InputOps
  <2>3. Events(o) = KeyEvents(x, o.pressed)
    BY <1>2, <2>1 DEF Events
  <2>4. ~o.pressed => Events(o) = KeyEvents(x, FALSE)
    BY <2>1, <2>3
  <2> QED BY <1>1, <1>2, <2>1, <2>4, KeyCodes
<1>3. CASE o.op = "text"
  <2>1. o.names \in Seq(InputNames)
    BY <1>3 DEF InputOps
  <2>3. LastDown(FlattenSeq([i \in DOMAIN o.names |-> Tap(o.names[i])])) = {}
    BY <2>1, TextEvents
  <2> QED BY <1>1, <1>3, <2>3 DEF Events
<1>4. CASE o.op = "click"
  <2> DEFINE p == Press(o.names[1])
             r == Release(o.names[1])
  <2>1. Events(o) = <<p, r>>
    BY <1>4 DEF Events
  <2>2. p.code = r.code /\ ~r.down
    BY DEF Press, Release
  <2> HIDE DEF p, r
  <2>3. LastDown(<<p, r>>) = {}
    BY <2>2 DEF LastDown
  <2> QED BY <1>1, <2>1, <2>3
<1>5. CASE o.op = "button"
  <2>1. o.pressed \in BOOLEAN
    BY <1>5 DEF InputOps
  <2> DEFINE r == Release(o.names[1])
  <2>2. ~o.pressed => Events(o) = <<r>>
    BY <1>5 DEF Events
  <2>3. ~r.down
    BY DEF Release
  <2> HIDE DEF r
  <2>4. LastDown(<<r>>) = {}
    BY <2>3 DEF LastDown
  <2> QED BY <1>1, <1>5, <2>1, <2>2, <2>4
<1>6. CASE o.op = "move"
  <2>1. Events(o) = <<>>
    BY <1>6 DEF Events
  <2>2. LastDown(<<>>) = {}
    BY DEF LastDown
  <2> QED BY <1>1, <2>1, <2>2
<1> QED BY <1>2, <1>3, <1>4, <1>5, <1>6 DEF InputOps

\* What a key or a button presses, letting go of it releases.
LEMMA LettingGo ==
  ASSUME InputConstants, NEW x \in InputNames, NEW f, NEW g, NEW k
  PROVE  /\ k \in Pressed(Key(x, TRUE, f)) =>
              Frees(Key(x, FALSE, g), k) /\ k \in Codes(Key(x, TRUE, "abort"))
         /\ k \in Pressed(Button(x, TRUE, f)) => Frees(Button(x, FALSE, g), k)
<1>1. ASSUME k \in Pressed(Key(x, TRUE, f))
      PROVE  Frees(Key(x, FALSE, g), k) /\ k \in Codes(Key(x, TRUE, "abort"))
  <2>1. \A p, h : Resolves(Key(x, p, h)) <=> Bound(x)
    BY DEF Resolves, LooksUp, Key
  <2>2. \A p, h : Events(Key(x, p, h)) = KeyEvents(x, p)
    BY DEF Events, Key
  <2>3. Bound(x) /\ k \in LastDown(KeyEvents(x, TRUE))
    BY <1>1, <2>1, <2>2 DEF Pressed
  <2>5. k \in Touched(KeyEvents(x, TRUE)) /\ k \in Touched(KeyEvents(x, FALSE))
    BY <2>3, KeyCodes
  <2>6. k \in Codes(Key(x, TRUE, "abort"))
    BY <2>1, <2>2, <2>3, <2>5 DEF Codes
  <2>7. Key(x, FALSE, g).op = "key" /\ Key(x, FALSE, g).pressed = FALSE
    BY DEF Key
  <2> QED BY <2>1, <2>2, <2>3, <2>5, <2>6, <2>7 DEF Frees
<1>2. ASSUME k \in Pressed(Button(x, TRUE, f))
      PROVE  Frees(Button(x, FALSE, g), k)
  <2> DEFINE p == Press(x)
             r == Release(x)
  <2>1. Events(Button(x, TRUE, f)) = <<p>> /\ Events(Button(x, FALSE, g)) = <<r>>
    BY DEF Events, Button
  <2>2. p.code = r.code
    BY DEF Press, Release
  <2>3. k \in LastDown(<<p>>)
    BY <1>2, <2>1 DEF Pressed
  <2> HIDE DEF p, r
  <2>4. k \in Touched(<<r>>)
    BY <2>2, <2>3 DEF LastDown, Touched
  <2>5. /\ Button(x, FALSE, g).op = "button" /\ Button(x, FALSE, g).pressed = FALSE
        /\ Resolves(Button(x, FALSE, g))
    BY DEF Button, Resolves, LooksUp
  <2> QED BY <2>1, <2>4, <2>5 DEF Frees
<1> QED BY <1>1, <1>2

\* A chord releases what it presses, or was asked to hold it.
LEMMA KeyOpsKept ==
  ASSUME InputConstants, NEW c \in ToolCalls, c.tool = "key_control"
  PROVE  Kept(KeyOps(c), c) /\ Typing(KeyOps(c), c)
<1> DEFINE s == ModsOf(c)
           m == Len(s)
           g == IF c.action = "press" THEN 2 ELSE 1
           ops == KeyOps(c)
<1>1. /\ ops \in Seq(InputOps) /\ m \in Nat /\ Len(ops) = m + g + m
      /\ \A i \in 1..m :
           /\ s[i] \in c.modifiers
           /\ ops[i] = Key(s[i], TRUE, "abort")
           /\ ops[m + g + i] = Key(s[m - i + 1], FALSE, "ignore")
      /\ ops[m + 1] = Key(c.key, c.action \in {"press", "down"}, "cleanup")
      /\ c.action = "press" => ops[m + 2] = Key(c.key, FALSE, "cleanup")
  BY KeyOpsAre
<1>2. DOMAIN ops = 1..(m + g + m) /\ g \in {1, 2} /\ (g = 2 <=> c.action = "press")
  BY <1>1
<1>3. \A i \in 1..m : s[i] \in InputNames
  <2>1. s \in Seq(c.modifiers \intersect Modifiers)
    BY ModsTyped
  <2>2. Modifiers \subseteq InputNames
    BY CallNames
  <2> HIDE DEF s
  <2> QED BY <2>1, <2>2
<1>4. c.key \in InputNames
  BY CallNames
<1> HIDE DEF s, m, ops, g
<1>5. ASSUME NEW i \in 1..m, NEW k \in Pressed(ops[i])
      PROVE  Freed(ops, c, i + 1, k)
  <2> DEFINE d == m - i + 1
             j == m + g + d
  <2>1. d \in 1..m /\ m - d + 1 = i /\ j \in DOMAIN ops /\ i + 1 <= j
    BY <1>1, <1>2
  <2>2. ops[j] = Key(s[i], FALSE, "ignore")
    <3> HIDE DEF d
    <3> QED BY <1>1, <2>1
  <2>3. Frees(ops[j], k) /\ k \in Codes(Key(s[i], TRUE, "abort"))
    <3>1. k \in Pressed(Key(s[i], TRUE, "abort"))
      BY <1>1, <1>5
    <3> HIDE DEF j
    <3> QED BY <1>3, <2>2, <3>1, LettingGo
  <2>4. k \in Chord(c)
    BY <1>1, <2>3 DEF Chord
  <2>5. ops[j].onfail \in Releasing
    BY <2>2 DEF Key, Releasing
  <2> HIDE DEF j
  <2> QED BY <2>1, <2>3, <2>4, <2>5 DEF Freed
<1>6. ASSUME NEW k \in Pressed(ops[m + 1])
      PROVE  MeantToLast(c, ops[m + 1]) \/ Freed(ops, c, m + 1 + 1, k)
  <2> DEFINE o == Key(c.key, c.action \in {"press", "down"}, "cleanup")
  <2>1. ops[m + 1] = o
    BY <1>1
  <2>2. o.onfail = "cleanup" /\ o.pressed = (c.action \in {"press", "down"})
    BY DEF Key
  <2>3. o \in InputOps /\ Pressed(o) # {}
    <3>1. (c.action \in {"press", "down"}) \in BOOLEAN /\ "cleanup" \in Fates
      BY DEF Fates
    <3>2. \A p \in BOOLEAN, f \in Fates : Key(c.key, p, f) \in InputOps
      BY <1>4 DEF Key, InputOps
    <3> QED BY <1>6, <2>1, <3>1, <3>2
  <2>4. c.action \in {"press", "down"}
    <3> HIDE DEF o
    <3> QED BY <2>2, <2>3, PressingOps
  <2>5. CASE c.action = "down"
    <3>1. Lasting(c)
      BY <2>5 DEF Lasting
    <3> HIDE DEF o
    <3> QED BY <2>1, <2>2, <3>1 DEF MeantToLast
  <2>6. CASE c.action = "press"
    <3>1. o = Key(c.key, TRUE, "cleanup")
      <4>1. (c.action \in {"press", "down"}) = TRUE
        BY <2>6
      <4> QED BY <4>1
    <3>2. ops[m + 2] = Key(c.key, FALSE, "cleanup")
      BY <1>1, <2>6
    <3>3. Frees(ops[m + 2], k)
      BY <1>4, <1>6, <2>1, <3>1, <3>2, LettingGo
    <3>4. m + 2 \in DOMAIN ops /\ m + 2 = m + 1 + 1 /\ m + 1 + 1 <= m + 2
          /\ DOMAIN ops \subseteq Int
      BY <1>1, <1>2, <2>6
    <3> QED BY <3>3, <3>4 DEF Freed
  <2> QED BY <2>4, <2>5, <2>6
<1>7. ASSUME NEW i \in DOMAIN ops, i > m + 1, NEW k \in Pressed(ops[i])
      PROVE  FALSE
  <2>1. \A x \in InputNames, f \in Fates : /\ Key(x, FALSE, f) \in InputOps
                                           /\ Key(x, FALSE, f).pressed = FALSE
    BY DEF Key, InputOps
  <2>2. \A x \in InputNames, f \in Fates : Pressed(Key(x, FALSE, f)) = {}
    BY <2>1, PressingOps
  <2>3. "ignore" \in Fates /\ "cleanup" \in Fates
    BY DEF Fates
  <2>4. CASE i <= m + g
    <3>1. g = 2 /\ i = m + 2
      BY <1>1, <1>2, <1>7, <2>4
    <3>2. ops[i] = Key(c.key, FALSE, "cleanup")
      BY <1>1, <1>2, <3>1
    <3> QED BY <1>4, <1>7, <2>2, <2>3, <3>2
  <2>5. CASE i > m + g
    <3> DEFINE d == i - (m + g)
               e == m - d + 1
    <3>1. d \in 1..m /\ i = m + g + d /\ e \in 1..m
      <4>1. m \in Nat /\ g \in Nat /\ i \in 1..(m + g + m) /\ i > m + g
        BY <1>1, <1>2, <2>5
      <4> HIDE DEF m
      <4> QED BY <4>1
    <3>2. ops[m + g + d] = Key(s[e], FALSE, "ignore")
      <4> HIDE DEF d
      <4> QED BY <1>1, <3>1
    <3>3. ops[i] = Key(s[e], FALSE, "ignore") /\ s[e] \in InputNames
      <4> HIDE DEF d, e
      <4> QED BY <1>3, <3>1, <3>2
    <3> QED BY <1>7, <2>2, <2>3, <3>3
  <2> QED BY <1>1, <1>2, <2>4, <2>5
<1>8. Kept(ops, c)
  <2> SUFFICES ASSUME NEW i \in DOMAIN ops, NEW k \in Pressed(ops[i])
               PROVE  MeantToLast(c, ops[i]) \/ Freed(ops, c, i + 1, k)
    BY DEF Kept
  <2>1. i \in 1..m \/ i = m + 1 \/ i > m + 1
    BY <1>1, <1>2
  <2> QED BY <1>5, <1>6, <1>7, <2>1
<1>9. \A i \in DOMAIN ops : ops[i].op = "key"
  <2> SUFFICES ASSUME NEW i \in DOMAIN ops PROVE ops[i].op = "key"
    OBVIOUS
  <2>1. CASE i \in 1..m
    <3>1. ops[i] = Key(s[i], TRUE, "abort")
      BY <1>1, <2>1
    <3> QED BY <3>1 DEF Key
  <2>2. CASE i = m + 1
    <3>1. ops[i] = Key(c.key, c.action \in {"press", "down"}, "cleanup")
      BY <1>1, <2>2
    <3> QED BY <3>1 DEF Key
  <2>3. CASE i = m + 2 /\ c.action = "press"
    <3>1. ops[i] = Key(c.key, FALSE, "cleanup")
      BY <1>1, <2>3
    <3> QED BY <3>1 DEF Key
  <2>4. CASE i > m + g
    <3> DEFINE d == i - (m + g)
    <3>1. d \in 1..m /\ i = m + g + d
      BY <1>1, <1>2, <2>4
    <3> HIDE DEF d
    <3>2. ops[i] = Key(s[m - d + 1], FALSE, "ignore")
      BY <1>1, <3>1
    <3> QED BY <3>2 DEF Key
  <2> QED BY <1>1, <1>2, <2>1, <2>2, <2>3, <2>4
<1>10. Typing(ops, c)
  BY <1>9 DEF Typing
<1> QED BY <1>8, <1>10 DEF ops

\* One kept script after another is kept.
LEMMA KeptConcat ==
  ASSUME NEW a \in Seq(InputOps), NEW b \in Seq(InputOps), NEW c, Kept(a, c), Kept(b, c)
  PROVE  Kept(a \o b, c)
<1> DEFINE m == Len(a)
           n == Len(b)
           s == a \o b
<1>1. /\ DOMAIN s = 1..(m + n) /\ m \in Nat /\ n \in Nat /\ DOMAIN a = 1..m /\ DOMAIN b = 1..n
      /\ \A i \in 1..m : s[i] = a[i]
      /\ \A i \in 1..n : s[m + i] = b[i]
  BY ConcatAt
<1> HIDE DEF s, m, n
<1>2. ASSUME NEW i \in 1..m, NEW k \in Pressed(s[i])
      PROVE  MeantToLast(c, s[i]) \/ Freed(s, c, i + 1, k)
  <2>1. s[i] = a[i] /\ i \in DOMAIN a
    BY <1>1
  <2>2. MeantToLast(c, a[i]) \/ Freed(a, c, i + 1, k)
    BY <1>2, <2>1 DEF Kept
  <2>3. ASSUME Freed(a, c, i + 1, k) PROVE Freed(s, c, i + 1, k)
    <3>1. PICK j \in DOMAIN a :
             /\ i + 1 <= j /\ Frees(a[j], k)
             /\ j = i + 1 \/ a[j].onfail \in Releasing
             /\ \A l \in DOMAIN a : i + 1 <= l /\ l < j => a[l].onfail # "abort" \/ k \in Chord(c)
      BY <2>3 DEF Freed
    <3>2. j \in DOMAIN s /\ s[j] = a[j]
      BY <1>1
    <3>3. ASSUME NEW l \in DOMAIN s, i + 1 <= l, l < j
          PROVE  s[l].onfail # "abort" \/ k \in Chord(c)
      <4>1. l \in DOMAIN a /\ s[l] = a[l]
        BY <1>1, <3>3
      <4> QED BY <3>1, <3>3, <4>1
    <3> QED BY <3>1, <3>2, <3>3 DEF Freed
  <2> QED BY <2>1, <2>2, <2>3
<1>3. ASSUME NEW h \in 1..n, NEW k \in Pressed(s[m + h])
      PROVE  MeantToLast(c, s[m + h]) \/ Freed(s, c, (m + h) + 1, k)
  <2>1. s[m + h] = b[h] /\ h \in DOMAIN b
    BY <1>1
  <2>2. MeantToLast(c, b[h]) \/ Freed(b, c, h + 1, k)
    BY <1>3, <2>1 DEF Kept
  <2>3. ASSUME Freed(b, c, h + 1, k) PROVE Freed(s, c, (m + h) + 1, k)
    <3>1. PICK j \in DOMAIN b :
             /\ h + 1 <= j /\ Frees(b[j], k)
             /\ j = h + 1 \/ b[j].onfail \in Releasing
             /\ \A l \in DOMAIN b : h + 1 <= l /\ l < j => b[l].onfail # "abort" \/ k \in Chord(c)
      BY <2>3 DEF Freed
    <3> DEFINE jj == m + j
    <3>2. jj \in DOMAIN s /\ s[jj] = b[j] /\ (m + h) + 1 <= jj
          /\ (j = h + 1 => jj = (m + h) + 1)
      BY <1>1, <3>1
    <3>3. ASSUME NEW l \in DOMAIN s, (m + h) + 1 <= l, l < jj
          PROVE  s[l].onfail # "abort" \/ k \in Chord(c)
      <4> DEFINE e == l - m
      <4>1. e \in DOMAIN b /\ h + 1 <= e /\ e < j /\ m + e = l
        BY <1>1, <3>3
      <4> HIDE DEF e
      <4>2. s[l] = b[e]
        BY <1>1, <4>1
      <4> QED BY <3>1, <4>1, <4>2
    <3> HIDE DEF jj
    <3> QED BY <3>1, <3>2, <3>3 DEF Freed
  <2> QED BY <2>1, <2>2, <2>3
<1>4. Kept(s, c)
  <2> SUFFICES ASSUME NEW i \in DOMAIN s, NEW k \in Pressed(s[i])
               PROVE  MeantToLast(c, s[i]) \/ Freed(s, c, i + 1, k)
    BY DEF Kept
  <2>1. CASE i \in 1..m
    BY <1>2, <2>1
  <2>2. CASE i \notin 1..m
    <3> DEFINE h == i - m
    <3>1. h \in 1..n /\ m + h = i
      BY <1>1, <2>2
    <3> HIDE DEF h
    <3> QED BY <1>3, <3>1
  <2> QED BY <2>1, <2>2
<1> QED BY <1>4 DEF s

\* A script without a press is kept.
LEMMA NothingPressed ==
  ASSUME InputConstants, NEW ops \in Seq(InputOps), NEW c,
         \A i \in DOMAIN ops : ops[i].op \notin {"key", "button"}
  PROVE  Kept(ops, c)
<1>1. \A i \in DOMAIN ops : ops[i] \in InputOps
  OBVIOUS
<1>2. \A i \in DOMAIN ops : Pressed(ops[i]) = {}
  BY <1>1, PressingOps
<1> QED BY <1>2 DEF Kept

\* A press and the release after it are kept.
LEMMA PressAndRelease ==
  ASSUME InputConstants, NEW x \in InputNames, NEW c
  PROVE  LET ops == <<Button(x, TRUE, "abort"), Button(x, FALSE, "abort")>>
         IN  ops \in Seq(InputOps) /\ Kept(ops, c)
<1> DEFINE p == Button(x, TRUE, "abort")
           r == Button(x, FALSE, "abort")
           ops == <<p, r>>
<1>1. p \in InputOps /\ r \in InputOps /\ r.pressed = FALSE
  BY DEF InputOps, Button, Fates
<1>2. \A k : k \in Pressed(p) => Frees(r, k)
  BY LettingGo
<1>3. Pressed(r) = {}
  <2> HIDE DEF r
  <2> QED BY <1>1, PressingOps
<1> HIDE DEF p, r
<1>4. ops \in Seq(InputOps) /\ Len(ops) = 2 /\ ops[1] = p /\ ops[2] = r
  BY <1>1, ShortSeq
<1>5. DOMAIN ops = {1, 2}
  OBVIOUS
<1> HIDE DEF ops
<1>6. ASSUME NEW k \in Pressed(ops[1]) PROVE Freed(ops, c, 2, k)
  <2>1. Frees(ops[2], k) /\ 2 \in DOMAIN ops
    BY <1>2, <1>4, <1>5, <1>6
  <2>2. \A l \in DOMAIN ops : ~(2 <= l /\ l < 2)
    BY <1>5
  <2> QED BY <2>1, <2>2 DEF Freed
<1>7. Kept(ops, c)
  <2> SUFFICES ASSUME NEW i \in DOMAIN ops, NEW k \in Pressed(ops[i])
               PROVE  Freed(ops, c, i + 1, k)
    BY DEF Kept
  <2>1. i = 1
    BY <1>3, <1>4, <1>5
  <2> QED BY <1>6, <2>1
<1> QED BY <1>4, <1>7 DEF ops, p, r

\* A click.
LEMMA ClickKept ==
  ASSUME InputConstants, NEW c \in ToolCalls
  PROVE  LET ops == ClickOps(c.to, c.button)
         IN  /\ ops \in Seq(InputOps) /\ Kept(ops, c)
             /\ \A i \in DOMAIN ops : ops[i].op # "text"
<1> DEFINE x == c.button
           ops == ClickOps(c.to, x)
<1>1. x \in InputNames /\ c.to \in Int /\ "abort" \in Fates
  BY CallNames DEF Fates
<1> HIDE DEF x
<1>2. Click(c.to, x, "abort") \in InputOps /\ Move(c.to, "abort") \in InputOps
      /\ Click(c.to, x, "abort").op = "click" /\ Move(c.to, "abort").op = "move"
  BY <1>1 DEF InputOps, Click, Move
<1>3. CASE backend = "portal"
  <2> DEFINE a == <<Move(c.to, "abort")>>
             b == <<Button(x, TRUE, "abort"), Button(x, FALSE, "abort")>>
  <2>1. Resolves(Click(c.to, x, "abort"))
    BY <1>2 DEF Resolves, LooksUp
  <2>2. ProviderOps(Click(c.to, x, "abort")) = b
    BY <1>3, <2>1 DEF ProviderOps, Click
  <2>3. ops = a \o b
    BY <1>3, <2>2 DEF ClickOps
  <2>4. b \in Seq(InputOps) /\ Kept(b, c)
    BY <1>1, PressAndRelease
  <2>5. a \in Seq(InputOps) /\ Len(a) = 1 /\ a[1].op = "move"
    BY <1>2, ShortSeq
  <2>6. Len(b) = 2 /\ b[1].op = "button" /\ b[2].op = "button"
    BY DEF Button
  <2> HIDE DEF a, b, ops
  <2>7. \A i \in DOMAIN a : a[i].op = "move"
    BY <2>5
  <2>8. Kept(a, c)
    BY <2>5, <2>7, NothingPressed
  <2>9. a \o b \in Seq(InputOps) /\ Kept(a \o b, c)
    BY <2>4, <2>5, <2>8, KeptConcat, ConcatAt
  <2>10. \A i \in DOMAIN (a \o b) : (a \o b)[i].op # "text"
    <3>1. /\ DOMAIN (a \o b) = 1..(Len(a) + Len(b))
          /\ \A i \in 1..Len(a) : (a \o b)[i] = a[i]
          /\ \A i \in 1..Len(b) : (a \o b)[Len(a) + i] = b[i]
      <4>1. a \in Seq(InputOps) /\ b \in Seq(InputOps)
        BY <2>4, <2>5
      <4> QED BY <4>1, ConcatAt
    <3>2. /\ DOMAIN (a \o b) = {1, 2, 3} /\ (a \o b)[1] = a[1]
          /\ (a \o b)[2] = b[1] /\ (a \o b)[3] = b[2]
      BY <2>5, <2>6, <3>1
    <3> QED BY <2>5, <2>6, <3>2
  <2>11. ops \in Seq(InputOps) /\ Kept(ops, c) /\ \A i \in DOMAIN ops : ops[i].op # "text"
    BY <2>3, <2>9, <2>10
  <2> QED BY <2>11 DEF ops, x
<1>4. CASE backend # "portal"
  <2> DEFINE y == Click(c.to, x, "abort")
  <2>1. ops = <<y>>
    BY <1>4 DEF ClickOps
  <2>2. y \in InputOps /\ y.op = "click"
    BY <1>2
  <2> HIDE DEF y, ops
  <2>3. ops \in Seq(InputOps) /\ DOMAIN ops = {1} /\ ops[1] = y
    BY <2>1, <2>2
  <2>4. Kept(ops, c)
    BY <2>2, <2>3, NothingPressed
  <2>5. ops \in Seq(InputOps) /\ Kept(ops, c) /\ \A i \in DOMAIN ops : ops[i].op # "text"
    BY <2>2, <2>3, <2>4
  <2> QED BY <2>5 DEF ops, x
<1> QED BY <1>3, <1>4 DEF x

\* A drag.
LEMMA DragKept ==
  ASSUME InputConstants, NEW c \in ToolCalls
  PROVE  Kept(DragOps(c), c) /\ \A i \in DOMAIN DragOps(c) : DragOps(c)[i].op # "text"
<1> DEFINE ops == DragOps(c)
           last == MaxSteps + 3
<1>1. /\ ops \in Seq(InputOps) /\ Len(ops) = last
      /\ ops[1] = Move(c.from, "abort")
      /\ ops[2] = Button(c.button, TRUE, "abort")
      /\ \A i \in 3..(MaxSteps + 2) : ops[i].op = "move" /\ ops[i].onfail = "cleanup"
      /\ ops[last] = Button(c.button, FALSE, "report")
  BY DragOpsAre
<1>2. MaxSteps \in Nat \ {0} /\ c.button \in InputNames
  BY CallNames DEF InputConstants
<1>3. DOMAIN ops = 1..last /\ last \in Nat /\ last >= 4
  BY <1>1, <1>2
<1> HIDE DEF ops
<1>4. \A i \in DOMAIN ops : i = 1 \/ i = 2 \/ i \in 3..(MaxSteps + 2) \/ i = last
  BY <1>2, <1>3
<1>5. /\ ops[1].op = "move" /\ ops[2].op = "button"
      /\ ops[last].op = "button" /\ ops[last].pressed = FALSE /\ ops[last].onfail = "report"
  <2>1. /\ Move(c.from, "abort").op = "move" /\ Button(c.button, TRUE, "abort").op = "button"
        /\ Button(c.button, FALSE, "report").op = "button"
        /\ Button(c.button, FALSE, "report").pressed = FALSE
        /\ Button(c.button, FALSE, "report").onfail = "report"
    BY DEF Move, Button
  <2>2. /\ ops[1] = Move(c.from, "abort") /\ ops[2] = Button(c.button, TRUE, "abort")
        /\ ops[last] = Button(c.button, FALSE, "report")
    BY <1>1
  <2> HIDE DEF last
  <2> QED BY <2>1, <2>2
<1> HIDE DEF last
<1>6. \A i \in DOMAIN ops : ops[i] \in InputOps
  BY <1>1
<1>7. ASSUME NEW i \in DOMAIN ops, NEW k \in Pressed(ops[i])
      PROVE  Freed(ops, c, i + 1, k)
  <2>1. ops[i].op \in {"key", "button"} /\ ops[i].pressed
    BY <1>6, <1>7, PressingOps
  <2>2. i = 2
    BY <1>1, <1>4, <1>5, <2>1
  <2>3. Frees(ops[last], k)
    BY <1>1, <1>2, <1>7, <2>2, LettingGo
  <2>4. last \in DOMAIN ops /\ i + 1 <= last
    BY <1>3, <2>2
  <2>5. ops[last].onfail \in Releasing
    BY <1>5 DEF Releasing
  <2>6. ASSUME NEW l \in DOMAIN ops, i + 1 <= l, l < last
        PROVE  ops[l].onfail # "abort"
    <3>1. l \in 3..(MaxSteps + 2)
      BY <1>3, <1>4, <2>2, <2>6
    <3> QED BY <1>1, <3>1
  <2> QED BY <2>3, <2>4, <2>5, <2>6 DEF Freed
<1>8. Kept(ops, c)
  BY <1>7 DEF Kept
<1>9. \A i \in DOMAIN ops : ops[i].op # "text"
  BY <1>1, <1>4, <1>5
<1> QED BY <1>8, <1>9 DEF ops

\* A text: typed by the provider, key by key with the portal, or with delays.
LEMMA TextKept ==
  ASSUME InputConstants, NEW c \in ToolCalls, c.tool = "type_text"
  PROVE  LET ops == TextOps(c)
         IN  ops \in Seq(InputOps) /\ Kept(ops, c) /\ Typing(ops, c)
<1> DEFINE keys == c.text
           ops == TextOps(c)
<1>1. /\ keys \in Seq(InputNames) /\ Len(keys) \in Nat /\ DOMAIN keys = 1..Len(keys)
      /\ \A i \in 1..Len(keys) : keys[i] \in InputNames
      /\ "abort" \in Fates
  <2>1. keys \in Seq(InputNames)
    BY CallNames
  <2> HIDE DEF keys
  <2> QED BY <2>1 DEF Fates
<1> HIDE DEF keys
<1>2. CASE c.delayed
  <2> DEFINE f == [i \in 1..Len(keys) |-> Text(<<keys[i]>>, "abort")]
  <2>1. ops = f
    BY <1>1, <1>2 DEF TextOps, keys
  <2>2. ASSUME NEW i \in 1..Len(keys)
        PROVE  Text(<<keys[i]>>, "abort") \in InputOps /\ Text(<<keys[i]>>, "abort").op = "text"
    <3> DEFINE one == <<keys[i]>>
    <3>1. one \in Seq(InputNames)
      BY <1>1, ShortSeq
    <3> HIDE DEF one
    <3>2. Text(one, "abort") \in InputOps /\ Text(one, "abort").op = "text"
      BY <1>1, <3>1 DEF Text, InputOps
    <3> QED BY <3>2 DEF one
  <2>3. f \in [1..Len(keys) -> InputOps] /\ \A i \in 1..Len(keys) : f[i].op = "text"
    BY <2>2
  <2> HIDE DEF f, ops
  <2>4. f \in Seq(InputOps) /\ DOMAIN f = 1..Len(keys)
    BY <1>1, <2>3, FunctionSeq
  <2>5. Kept(f, c)
    BY <2>3, <2>4, NothingPressed
  <2>6. Typing(f, c)
    BY <1>2, <2>3, <2>4 DEF Typing
  <2>7. ops \in Seq(InputOps) /\ Kept(ops, c) /\ Typing(ops, c)
    BY <2>1, <2>4, <2>5, <2>6
  <2> QED BY <2>7 DEF ops
<1>3. CASE ~c.delayed /\ (backend # "portal" \/ ~Resolves(Text(keys, "abort")))
  <2> DEFINE t == Text(keys, "abort")
  <2>1. ops = <<t>>
    BY <1>3 DEF TextOps, ProviderOps, keys
  <2>2. t \in InputOps /\ t.op = "text"
    BY <1>1 DEF Text, InputOps
  <2> HIDE DEF t, ops
  <2>3. ops \in Seq(InputOps) /\ DOMAIN ops = {1} /\ ops[1] = t /\ Len(ops) = 1
    BY <2>1, <2>2
  <2>4. Kept(ops, c)
    BY <2>2, <2>3, NothingPressed
  <2>5. Typing(ops, c)
    BY <1>3, <2>2, <2>3 DEF Typing
  <2>6. ops \in Seq(InputOps) /\ Kept(ops, c) /\ Typing(ops, c)
    BY <2>3, <2>4, <2>5
  <2> QED BY <2>6 DEF ops
<1>4. CASE ~c.delayed /\ backend = "portal" /\ Resolves(Text(keys, "abort"))
  <2> DEFINE n == Len(keys)
             f == [i \in 1..(2 * n) |-> Key(keys[(i + 1) \div 2], i % 2 = 1, "abort")]
  <2>1. ops = f
    <3>1. /\ Text(keys, "abort").op = "text" /\ Text(keys, "abort").names = keys
          /\ Text(keys, "abort").onfail = "abort"
      BY DEF Text
    <3> QED BY <1>4, <3>1 DEF TextOps, ProviderOps, keys
  <2> HIDE DEF ops
  <2>2. ASSUME NEW i \in 1..(2 * n)
        PROVE  /\ keys[(i + 1) \div 2] \in InputNames
               /\ Key(keys[(i + 1) \div 2], i % 2 = 1, "abort") \in InputOps
               /\ Key(keys[(i + 1) \div 2], i % 2 = 1, "abort").op = "key"
    <3>1. (i + 1) \div 2 \in 1..n
      BY <1>1
    <3>2. keys[(i + 1) \div 2] \in InputNames /\ (i % 2 = 1) \in BOOLEAN
      BY <1>1, <3>1
    <3> QED BY <1>1, <3>2 DEF Key, InputOps
  <2>3. f \in [1..(2 * n) -> InputOps] /\ 2 * n \in Nat
    BY <1>1, <2>2
  <2>4. \A i \in 1..(2 * n) : f[i] = Key(keys[(i + 1) \div 2], i % 2 = 1, "abort")
    OBVIOUS
  <2> HIDE DEF f
  <2>5. f \in Seq(InputOps) /\ DOMAIN f = 1..(2 * n)
    BY <2>3, FunctionSeq
  <2>6. ASSUME NEW i \in DOMAIN f, NEW k \in Pressed(f[i])
        PROVE  Freed(f, c, i + 1, k)
    <3> DEFINE x == keys[(i + 1) \div 2]
               j == i + 1
    <3>1. f[i] = Key(x, i % 2 = 1, "abort") /\ x \in InputNames /\ f[i] \in InputOps
      BY <2>2, <2>3, <2>4, <2>5
    <3>2. i % 2 = 1
      <4>1. f[i].pressed
        BY <2>6, <3>1, PressingOps
      <4>2. Key(x, i % 2 = 1, "abort").pressed = (i % 2 = 1)
        BY DEF Key
      <4> HIDE DEF x
      <4> QED BY <3>1, <4>1, <4>2
    <3>3. j \in 1..(2 * n) /\ (j + 1) \div 2 = (i + 1) \div 2 /\ j % 2 = 0
      <4>1. i \in 1..(2 * n) /\ n \in Nat
        BY <1>1, <2>5
      <4> DEFINE q == i \div 2
      <4>2. q \in Nat /\ i = 2 * q + 1
        BY <3>2, <4>1
      <4> HIDE DEF q
      <4>3. j = 2 * q + 2 /\ j \in 1..(2 * n)
        BY <4>1, <4>2
      <4>4. (i + 1) \div 2 = q + 1 /\ (j + 1) \div 2 = q + 1 /\ j % 2 = 0
        BY <4>2, <4>3
      <4> QED BY <4>3, <4>4
    <3>4. f[i] = Key(x, TRUE, "abort")
      <4>1. (i % 2 = 1) = TRUE
        BY <3>2
      <4> QED BY <3>1, <4>1
    <3>5. f[j] = Key(x, FALSE, "abort")
      <4>1. (j % 2 = 1) = FALSE
        BY <3>3
      <4>2. f[j] = Key(keys[(j + 1) \div 2], j % 2 = 1, "abort")
        <5> HIDE DEF j
        <5> QED BY <2>4, <3>3
      <4> QED BY <3>3, <4>1, <4>2
    <3>6. Frees(f[j], k)
      <4>1. k \in Pressed(Key(x, TRUE, "abort"))
        BY <2>6, <3>4
      <4> HIDE DEF x, j
      <4> QED BY <3>1, <3>5, <4>1, LettingGo
    <3>7. j \in DOMAIN f /\ j <= j /\ \A l \in DOMAIN f : ~(j <= l /\ l < j)
      <4>1. j \in DOMAIN f
        BY <2>5, <3>3
      <4>2. j \in Int /\ DOMAIN f \subseteq Int
        BY <1>1, <2>5, <3>3
      <4> HIDE DEF j
      <4> QED BY <4>1, <4>2
    <3> HIDE DEF x, j
    <3>8. Freed(f, c, j, k)
      BY <3>6, <3>7 DEF Freed
    <3> QED BY <3>8 DEF j
  <2>7. Kept(f, c)
    BY <2>6 DEF Kept
  <2>8. \A i \in DOMAIN f : f[i].op # "text"
    BY <2>2, <2>4, <2>5
  <2>9. Typing(f, c)
    BY <1>4, <2>8 DEF Typing
  <2>10. ops \in Seq(InputOps) /\ Kept(ops, c) /\ Typing(ops, c)
    BY <2>1, <2>5, <2>7, <2>9
  <2> QED BY <2>10 DEF ops
<1> QED BY <1>2, <1>3, <1>4

\* The script of every call: typed, keeping what it presses, and typing as it is asked.
LEMMA ScriptKept ==
  ASSUME InputConstants, NEW c \in ToolCalls
  PROVE  Script(c) \in Seq(InputOps) /\ Kept(Script(c), c) /\ Typing(Script(c), c)
<1>1. CASE c.tool = "mouse_click"
  <2> DEFINE ops == ClickOps(c.to, c.button)
  <2>1. Script(c) = ops
    BY <1>1 DEF Script
  <2>2. ops \in Seq(InputOps) /\ Kept(ops, c) /\ \A i \in DOMAIN ops : ops[i].op # "text"
    BY ClickKept
  <2> HIDE DEF ops
  <2> QED BY <1>1, <2>1, <2>2 DEF Typing
<1>2. CASE c.tool = "mouse_double_click"
  <2> DEFINE a == ClickOps(c.to, c.button)
             ops == a \o a
  <2>1. Script(c) = ops
    BY <1>2 DEF Script
  <2>2. a \in Seq(InputOps) /\ Kept(a, c) /\ \A i \in DOMAIN a : a[i].op # "text"
    BY ClickKept
  <2> HIDE DEF a
  <2>3. ops \in Seq(InputOps) /\ Kept(ops, c)
    BY <2>2, KeptConcat, ConcatAt
  <2>4. \A i \in DOMAIN ops : ops[i].op # "text"
    <3>1. /\ DOMAIN ops = 1..(Len(a) + Len(a)) /\ Len(a) \in Nat /\ DOMAIN a = 1..Len(a)
          /\ \A i \in 1..Len(a) : ops[i] = a[i]
          /\ \A i \in 1..Len(a) : ops[Len(a) + i] = a[i]
      BY <2>2, ConcatAt
    <3> HIDE DEF ops
    <3> SUFFICES ASSUME NEW i \in DOMAIN ops PROVE ops[i].op # "text"
      OBVIOUS
    <3>2. CASE i <= Len(a)
      BY <2>2, <3>1, <3>2
    <3>3. CASE i > Len(a)
      <4> DEFINE e == i - Len(a)
      <4>1. e \in 1..Len(a) /\ Len(a) + e = i
        BY <3>1, <3>3
      <4> HIDE DEF e
      <4>2. ops[i] = a[e]
        BY <3>1, <4>1
      <4> QED BY <2>2, <3>1, <4>1, <4>2
    <3> QED BY <3>1, <3>2, <3>3
  <2> HIDE DEF ops
  <2> QED BY <1>2, <2>1, <2>3, <2>4 DEF Typing
<1>3. CASE c.tool = "mouse_move_path"
  <2> DEFINE to(i) == c.from + (((c.to - c.from) * i) \div MaxSteps)
             a == <<Move(c.from, "abort")>>
             b == [i \in 1..MaxSteps |-> Move(to(i), "abort")]
             ops == a \o b
  <2>1. Script(c) = ops
    BY <1>3 DEF Script
  <2>2. MaxSteps \in Nat \ {0} /\ c.from \in Int /\ c.to \in Int
    BY CallNames DEF InputConstants
  <2>3. \A i \in 1..MaxSteps : to(i) \in Int
    <3>1. ASSUME NEW i \in Int PROVE (c.to - c.from) * i \in Int
      BY <2>2
    <3>2. \A x \in Int : x \div MaxSteps \in Int
      BY <2>2
    <3> QED BY <2>2, <3>1, <3>2
  <2> HIDE DEF to
  <2>4. \A x \in Int : Move(x, "abort") \in InputOps /\ Move(x, "abort").op = "move"
    BY DEF Fates, InputOps, Move
  <2>5. a \in Seq(InputOps) /\ Len(a) = 1 /\ a[1].op = "move"
    <3> DEFINE y == Move(c.from, "abort")
    <3>1. y \in InputOps /\ y.op = "move"
      BY <2>2, <2>4
    <3> HIDE DEF y
    <3>2. <<y>> \in Seq(InputOps) /\ Len(<<y>>) = 1 /\ <<y>>[1] = y
      BY <3>1, ShortSeq
    <3>3. <<y>>[1].op = "move"
      BY <3>1, <3>2
    <3> QED BY <3>2, <3>3 DEF y
  <2>6. b \in [1..MaxSteps -> InputOps] /\ \A i \in 1..MaxSteps : b[i].op = "move"
    BY <2>3, <2>4
  <2> HIDE DEF a, b
  <2>7. b \in Seq(InputOps) /\ Len(b) = MaxSteps /\ MaxSteps \in Nat
    BY <2>2, <2>6, FunctionSeq
  <2>8. /\ ops \in Seq(InputOps)
        /\ DOMAIN ops = 1..(Len(a) + Len(b))
        /\ \A i \in 1..Len(a) : ops[i] = a[i]
        /\ \A i \in 1..Len(b) : ops[Len(a) + i] = b[i]
    <3>1. a \in Seq(InputOps) /\ b \in Seq(InputOps)
      BY <2>5, <2>7
    <3> QED BY <3>1, ConcatAt
  <2> HIDE DEF ops
  <2>9. \A i \in DOMAIN ops : ops[i].op = "move"
    <3> SUFFICES ASSUME NEW i \in DOMAIN ops PROVE ops[i].op = "move"
      OBVIOUS
    <3>1. CASE i = 1
      BY <2>5, <2>8, <3>1
    <3>2. CASE i # 1
      <4> DEFINE e == i - 1
      <4>1. e \in 1..MaxSteps /\ e \in 1..Len(b) /\ Len(a) + e = i
        BY <2>5, <2>7, <2>8, <3>2
      <4> HIDE DEF e
      <4>2. ops[i] = b[e]
        BY <2>8, <4>1
      <4> QED BY <2>6, <4>1, <4>2
    <3> QED BY <3>1, <3>2
  <2>10. \A i \in DOMAIN ops : ops[i].op \notin {"key", "button"} /\ ops[i].op # "text"
    BY <2>9
  <2>11. Kept(ops, c)
    BY <2>8, <2>10, NothingPressed
  <2>12. Typing(ops, c)
    BY <1>3, <2>10 DEF Typing
  <2> QED BY <2>1, <2>8, <2>11, <2>12
<1>4. CASE c.tool = "mouse_drag"
  <2>1. Script(c) = DragOps(c)
    BY <1>4 DEF Script
  <2>2. DragOps(c) \in Seq(InputOps)
    BY DragOpsAre
  <2> QED BY <1>4, <2>1, <2>2, DragKept DEF Typing
<1>5. CASE c.tool = "mouse_button_control"
  <2> DEFINE o == Button(c.button, c.action = "down", "abort")
             ops == <<o>>
  <2>1. Script(c) = ops
    BY <1>5 DEF Script
  <2>2. o \in InputOps /\ o.op = "button" /\ o.pressed = (c.action = "down")
    <3>1. c.button \in InputNames /\ (c.action = "down") \in BOOLEAN /\ "abort" \in Fates
      BY CallNames DEF Fates
    <3> QED BY <3>1 DEF Button, InputOps
  <2> HIDE DEF o
  <2>3. ops \in Seq(InputOps) /\ DOMAIN ops = {1} /\ ops[1] = o
    BY <2>2
  <2> HIDE DEF ops
  <2>4. ASSUME NEW k \in Pressed(o) PROVE MeantToLast(c, o)
    <3>1. c.action = "down"
      BY <2>2, <2>4, PressingOps
    <3>2. c.action # "press"
      BY <3>1
    <3> QED BY <1>5, <2>2, <3>2 DEF MeantToLast, Lasting
  <2>5. Kept(ops, c) /\ Typing(ops, c)
    BY <1>5, <2>2, <2>3, <2>4 DEF Kept, Typing
  <2> QED BY <2>1, <2>3, <2>5
<1>6. CASE c.tool = "key_control"
  <2>1. Script(c) = KeyOps(c)
    BY <1>6 DEF Script
  <2>2. KeyOps(c) \in Seq(InputOps)
    BY KeyOpsAre
  <2> QED BY <1>6, <2>1, <2>2, KeyOpsKept
<1>7. CASE c.tool = "type_text"
  <2>1. Script(c) = TextOps(c)
    BY <1>7 DEF Script
  <2> QED BY <1>7, <2>1, TextKept
<1> QED BY <1>1, <1>2, <1>3, <1>4, <1>5, <1>6, <1>7 DEF InputConstants

\* Which keys a provider knows is a matter of the provider alone, and that stays.
LEMMA SameScripts ==
  ASSUME backend' = backend
  PROVE  /\ \A text : NoKeyFor(text)' <=> NoKeyFor(text)
         /\ \A ops, c, i, k : Freed(ops, c, i, k)' <=> Freed(ops, c, i, k)
         /\ \A ops, c : Kept(ops, c)' <=> Kept(ops, c)
<1>1. \A name : Bound(name)' <=> Bound(name)
  BY DEF Bound
<1>2. \A o : Resolves(o)' <=> Resolves(o)
  BY <1>1 DEF Resolves, LooksUp
<1>3. /\ \A o : Codes(o)' = Codes(o)
      /\ \A o : Pressed(o)' = Pressed(o)
      /\ \A o, k : Frees(o, k)' <=> Frees(o, k)
  BY <1>2 DEF Codes, Pressed, Frees
<1>4. \A c : Chord(c)' = Chord(c)
  BY <1>3 DEF Chord
<1>5. \A ops, c, i, k : Freed(ops, c, i, k)' <=> Freed(ops, c, i, k)
  BY <1>3, <1>4 DEF Freed
<1>6. \A ops, c : Kept(ops, c)' <=> Kept(ops, c)
  BY <1>3, <1>5 DEF Kept
<1>7. \A text : NoKeyFor(text)' <=> NoKeyFor(text)
  BY <1>1 DEF NoKeyFor, LooksUp
<1> QED BY <1>5, <1>6, <1>7

\* What is left of a script without its first d operations.
IsRest(r, ops, d) ==
  /\ r \in Seq(InputOps) /\ d \in 0..Len(ops) /\ Len(r) = Len(ops) - d
  /\ \A i \in 1..Len(r) : r[i] = ops[d + i]

\* What a script releases from some position on, its rest releases.
LEMMA RestFreed ==
  ASSUME NEW ops \in Seq(InputOps), NEW r, NEW d, IsRest(r, ops, d), NEW c, NEW k,
         NEW i \in Nat \ {0}, Freed(ops, c, d + i, k)
  PROVE  Freed(r, c, i, k)
<1>1. PICK j \in DOMAIN ops :
         /\ d + i <= j /\ Frees(ops[j], k)
         /\ j = d + i \/ ops[j].onfail \in Releasing
         /\ \A l \in DOMAIN ops : d + i <= l /\ l < j => ops[l].onfail # "abort" \/ k \in Chord(c)
  BY DEF Freed
<1>2. /\ DOMAIN r = 1..Len(r) /\ DOMAIN ops = 1..Len(ops) /\ Len(ops) \in Nat
      /\ Len(r) = Len(ops) - d /\ d \in 0..Len(ops)
      /\ \A x \in 1..Len(r) : r[x] = ops[d + x]
  BY DEF IsRest
<1> DEFINE e == j - d
<1>3. e \in DOMAIN r /\ d + e = j /\ i <= e /\ (j = d + i => e = i)
  BY <1>1, <1>2
<1> HIDE DEF e
<1>4. r[e] = ops[j]
  BY <1>2, <1>3
<1>5. ASSUME NEW l \in DOMAIN r, i <= l, l < e
      PROVE  r[l].onfail # "abort" \/ k \in Chord(c)
  <2> DEFINE y == d + l
  <2>1. y \in DOMAIN ops /\ d + i <= y /\ y < j
    BY <1>2, <1>3, <1>5
  <2>2. r[l] = ops[y]
    BY <1>2
  <2> HIDE DEF y
  <2> QED BY <1>1, <2>1, <2>2
<1> QED BY <1>1, <1>3, <1>4, <1>5 DEF Freed

\* The rest of a script is kept, and types as the script does.
LEMMA RestKept ==
  ASSUME NEW ops \in Seq(InputOps), NEW r, NEW d, IsRest(r, ops, d), NEW c,
         Kept(ops, c), Typing(ops, c)
  PROVE  Kept(r, c) /\ Typing(r, c)
<1>1. /\ DOMAIN r = 1..Len(r) /\ DOMAIN ops = 1..Len(ops) /\ Len(ops) \in Nat
      /\ Len(r) = Len(ops) - d /\ d \in 0..Len(ops)
      /\ \A x \in 1..Len(r) : r[x] = ops[d + x]
  BY DEF IsRest
<1>2. ASSUME NEW i \in DOMAIN r
      PROVE  d + i \in DOMAIN ops /\ r[i] = ops[d + i] /\ (Len(ops) = 1 => Len(r) = 1)
  <2>1. i \in 1..Len(r) /\ d \in 0..Len(ops) /\ Len(ops) \in Nat /\ Len(r) = Len(ops) - d
    BY <1>1
  <2>2. d + i \in 1..Len(ops) /\ (Len(ops) = 1 => Len(r) = 1)
    BY <2>1
  <2> QED BY <1>1, <2>1, <2>2
<1>3. Kept(r, c)
  <2> SUFFICES ASSUME NEW i \in DOMAIN r, NEW k \in Pressed(r[i])
               PROVE  MeantToLast(c, r[i]) \/ Freed(r, c, i + 1, k)
    BY DEF Kept
  <2> DEFINE y == d + i
  <2>1. y \in DOMAIN ops /\ r[i] = ops[y] /\ k \in Pressed(ops[y])
    BY <1>2
  <2>2. y + 1 = d + (i + 1) /\ i + 1 \in Nat \ {0}
    <3>1. d \in Nat /\ i \in Nat
      BY <1>1
    <3> QED BY <3>1
  <2> HIDE DEF y
  <2>3. MeantToLast(c, ops[y]) \/ Freed(ops, c, y + 1, k)
    BY <2>1 DEF Kept
  <2>4. Freed(ops, c, d + (i + 1), k) => Freed(r, c, i + 1, k)
    BY <2>2, RestFreed
  <2> QED BY <2>1, <2>2, <2>3, <2>4
<1>4. Typing(r, c)
  BY <1>2 DEF Typing
<1> QED BY <1>3, <1>4

\* The first operation of a script releases a code, or what comes after it does.
LEMMA FreedLater ==
  ASSUME NEW ops \in Seq(InputOps), NEW c, NEW k, Freed(ops, c, 1, k)
  PROVE  \/ Frees(ops[1], k)
         \/ /\ Freed(ops, c, 2, k)
            /\ \E j \in DOMAIN ops :
                 /\ 2 <= j /\ Frees(ops[j], k) /\ ops[j].onfail \in Releasing
                 /\ \A l \in DOMAIN ops : 1 <= l /\ l < j => ops[l].onfail # "abort" \/ k \in Chord(c)
<1>1. PICK j \in DOMAIN ops :
         /\ 1 <= j /\ Frees(ops[j], k)
         /\ j = 1 \/ ops[j].onfail \in Releasing
         /\ \A l \in DOMAIN ops : 1 <= l /\ l < j => ops[l].onfail # "abort" \/ k \in Chord(c)
  BY DEF Freed
<1>2. DOMAIN ops \subseteq Nat
  OBVIOUS
<1>3. CASE j = 1
  BY <1>1, <1>3
<1>4. CASE j # 1
  <2>1. 2 <= j /\ ops[j].onfail \in Releasing
    BY <1>1, <1>2, <1>4
  <2>2. \A l \in DOMAIN ops : 2 <= l /\ l < j => ops[l].onfail # "abort" \/ k \in Chord(c)
    BY <1>1, <1>2
  <2> QED BY <1>1, <2>1, <2>2 DEF Freed
<1> QED BY <1>3, <1>4

\* After its first operation, the rest of a script is its tail.
LEMMA TailRest ==
  ASSUME NEW ops \in Seq(InputOps), ops # <<>>
  PROVE  IsRest(Tail(ops), ops, 1) /\ Head(ops) = ops[1] /\ Head(ops) \in InputOps
<1>1. Len(ops) \in Nat \ {0}
  OBVIOUS
<1>2. /\ Tail(ops) \in Seq(InputOps) /\ Len(Tail(ops)) = Len(ops) - 1
      /\ \A i \in 1..(Len(ops) - 1) : Tail(ops)[i] = ops[i + 1]
  BY HeadTailProperties
<1>3. \A i \in 1..Len(Tail(ops)) : Tail(ops)[i] = ops[1 + i]
  BY <1>1, <1>2
<1> QED BY <1>1, <1>2, <1>3 DEF IsRest

\* After a failure that does not end the call, what releases is still to come.
LEMMA AfterFailureRest ==
  ASSUME NEW ops \in Seq(InputOps), ops # <<>>
  PROVE  \E d \in 1..Len(ops) :
           /\ IsRest(AfterFailure(ops), ops, d)
           /\ \A j \in DOMAIN ops :
                2 <= j /\ ops[j].onfail \in Releasing /\ ops[1].onfail # "abort" => d < j
<1> DEFINE n == Len(ops)
           t == Tail(ops)
           from == {i \in DOMAIN t : t[i].onfail \in Releasing}
<1>1. n \in Nat \ {0} /\ DOMAIN ops = 1..n
  OBVIOUS
<1>2. /\ t \in Seq(InputOps) /\ Len(t) = n - 1 /\ DOMAIN t = 1..(n - 1)
      /\ \A i \in 1..(n - 1) : t[i] = ops[1 + i]
  BY <1>1, TailRest DEF IsRest
<1>3. Head(ops) = ops[1] /\ ops[1].onfail \in Fates
  <2>1. Head(ops) = ops[1] /\ ops[1] \in InputOps
    BY TailRest
  <2>2. \A o \in InputOps : o.onfail \in Fates
    BY DEF InputOps
  <2> QED BY <2>1, <2>2
<1>4. IsRest(<<>>, ops, n)
  BY <1>1 DEF IsRest
<1> HIDE DEF t
<1>5. CASE ops[1].onfail = "abort"
  <2>1. AfterFailure(ops) = <<>>
    BY <1>3, <1>5 DEF AfterFailure, Releasing
  <2> QED BY <1>1, <1>4, <1>5, <2>1
<1>6. CASE ops[1].onfail \in Releasing
  <2>1. AfterFailure(ops) = t
    BY <1>3, <1>6 DEF AfterFailure, Releasing, t
  <2>2. IsRest(t, ops, 1)
    BY <1>1, TailRest DEF t
  <2> QED BY <1>1, <2>1, <2>2
<1>7. CASE ops[1].onfail = "cleanup"
  <2>1. AfterFailure(ops) = Cleanup(t)
    BY <1>3, <1>7 DEF AfterFailure, Releasing, t
  <2>2. CASE from = {}
    <3>1. AfterFailure(ops) = <<>>
      BY <2>1, <2>2 DEF Cleanup
    <3>2. ASSUME NEW j \in DOMAIN ops, 2 <= j PROVE ops[j].onfail \notin Releasing
      <4> DEFINE i == j - 1
      <4>1. i \in DOMAIN t /\ 1 + i = j
        BY <1>1, <1>2, <3>2
      <4> HIDE DEF i
      <4>2. t[i] = ops[j]
        BY <1>2, <4>1
      <4> QED BY <2>2, <4>1, <4>2
    <3> QED BY <1>1, <1>4, <3>1, <3>2
  <2>3. CASE from # {}
    <3> DEFINE m == Min(from)
               r == SubSeq(t, m, Len(t))
    <3>1. m \in from /\ \A i \in from : m <= i
      <4>1. from \in SUBSET Nat
        BY <1>1, <1>2
      <4> HIDE DEF from
      <4> QED BY <2>3, <4>1, MinProperties
    <3>2. AfterFailure(ops) = r
      BY <2>1, <2>3 DEF Cleanup
    <3>3. m \in 1..(n - 1)
      BY <1>2, <3>1
    <3> HIDE DEF m, from
    <3>4. /\ r \in Seq(InputOps) /\ Len(r) = n - m
          /\ \A i \in 1..(n - m) : r[i] = t[m + i - 1]
      <4>1. \A i \in m..Len(t) : t[i] \in InputOps
        BY <1>2, <3>3
      <4>2. /\ r \in Seq(InputOps)
            /\ Len(r) = IF m <= Len(t) THEN Len(t) - m + 1 ELSE 0
            /\ \A i \in 1..(Len(t) - m + 1) : r[i] = t[m + i - 1]
        <5>1. m \in Int /\ Len(t) \in Int
          BY <1>1, <1>2, <3>3
        <5> HIDE DEF r
        <5> QED BY <4>1, <5>1, SubSeqProperties DEF r
      <4> HIDE DEF r
      <4> QED BY <1>1, <1>2, <3>3, <4>2
    <3> HIDE DEF r
    <3>5. ASSUME NEW i \in 1..Len(r) PROVE r[i] = ops[m + i]
      <4> DEFINE y == m + i - 1
      <4>1. y \in 1..(n - 1) /\ 1 + y = m + i /\ r[i] = t[y]
        BY <1>1, <3>3, <3>4, <3>5
      <4> HIDE DEF y
      <4> QED BY <1>2, <4>1
    <3>6. IsRest(r, ops, m) /\ m \in 1..n
      BY <1>1, <3>3, <3>4, <3>5 DEF IsRest
    <3>7. ASSUME NEW j \in DOMAIN ops, 2 <= j, ops[j].onfail \in Releasing PROVE m < j
      <4> DEFINE i == j - 1
      <4>1. i \in DOMAIN t /\ 1 + i = j
        BY <1>1, <1>2, <3>7
      <4> HIDE DEF i
      <4>2. t[i] = ops[j]
        BY <1>2, <4>1
      <4>3. i \in from
        BY <3>7, <4>1, <4>2 DEF from
      <4>4. m <= i
        BY <3>1, <4>3
      <4> QED BY <1>1, <1>2, <3>3, <4>1, <4>4
    <3> QED BY <3>2, <3>6, <3>7
  <2> QED BY <2>2, <2>3
<1> QED BY <1>3, <1>5, <1>6, <1>7 DEF Fates, Releasing

-----------------------------------------------------------------------------
(* The input devices: the invariant *)

\* A text with a character that is looked up and has no key has sent nothing.
TextRefused(t) ==
  (/\ t.pc # "idle" /\ t.call.tool = "type_text" /\ ~t.call.delayed
   /\ NoKeyFor(t.call.text))
     => /\ t.sent = 0 /\ t.pc # "gap"
        /\ t.pc = "run" => \/ t.ops = <<Text(t.call.text, "abort")>> /\ t.failed = "no"
                           \/ t.ops = <<>> /\ t.failed # "no"
        /\ t.pc = "done" => t.result = "error"

\* How many characters may have gone astray: none since the last check that found
\* the window focused, and there is one after every CheckEvery-th.
Astray(t) ==
  \/ t.blind
  \/ /\ t.pc \in {"run", "gap"} => t.before # Unknown
     /\ t.astray <= CheckEvery
     /\ t.pc = "run" /\ t.ops # <<>> => t.astray <= t.typed % CheckEvery
     /\ t.pc = "gap" => 1 <= t.typed /\ t.astray <= ((t.typed - 1) % CheckEvery) + 1

TurnGood(t) ==
  /\ Kept(t.ops, t.call) /\ Typing(t.ops, t.call)
  /\ t.pc = "gap" => t.call.tool = "type_text" /\ t.call.delayed
  /\ TextRefused(t) /\ Astray(t)

\* What is down was asked for, is tainted, or is released by a call in flight.
Held ==
  \A k \in down : \/ k \in asked \union tainted
                  \/ \E n \in Callers : turn[n].pc = "run" /\ Freed(turn[n].ops, turn[n].call, 1, k)

InputInv ==
  /\ InputType /\ PointerLands
  /\ \A n \in Callers : TurnGood(turn[n])
  /\ Held

\* A call that goes on after an operation stays good.
LEMMA ProceedGood ==
  ASSUME InputConstants, NEW t \in InputTurns, NEW u \in InputTurns,
         TurnGood(t), t.pc = "run", t.call \in ToolCalls, t.ops # <<>>, Resolves(Head(t.ops)),
         u.ops = Tail(t.ops), u.call = t.call, u.before = t.before, u.blind = t.blind,
         u.typed = IF Head(t.ops).op = "text" THEN t.typed + 1 ELSE t.typed,
         u.astray = t.astray \/ (Head(t.ops).op = "text" /\ u.astray = t.astray + 1),
         u.pc = IF Head(t.ops).op = "text" /\ t.call.delayed /\ Tail(t.ops) # <<>>
                THEN "gap" ELSE "run"
  PROVE  TurnGood(u)
<1> DEFINE o == Head(t.ops)
<1>1. /\ t.ops \in Seq(InputOps) /\ IsRest(Tail(t.ops), t.ops, 1)
      /\ o = t.ops[1] /\ o \in InputOps /\ 1 \in DOMAIN t.ops
  <2>1. t.ops \in Seq(InputOps)
    BY DEF InputTurns
  <2> HIDE DEF o
  <2> QED BY <2>1, TailRest DEF o
<1>2. Kept(u.ops, u.call) /\ Typing(u.ops, u.call)
  BY <1>1, RestKept DEF TurnGood
<1>3. o.op = "text" => /\ t.call.tool = "type_text"
                       /\ t.call.delayed \/ Len(t.ops) = 1
  BY <1>1 DEF TurnGood, Typing
<1>4. u.pc = "gap" => u.call.tool = "type_text" /\ u.call.delayed
  BY <1>3
<1>5. TextRefused(u)
  <2> SUFFICES ASSUME t.call.tool = "type_text", ~t.call.delayed,
                      NoKeyFor(t.call.text)
               PROVE  FALSE
    BY DEF TextRefused
  <2>1. t.ops = <<Text(t.call.text, "abort")>>
    BY DEF TurnGood, TextRefused
  <2>2. o = Text(t.call.text, "abort")
    BY <2>1
  <2>3. o.op = "text" /\ o.names = t.call.text
    BY <2>2 DEF Text
  <2> QED BY <2>3 DEF Resolves, NoKeyFor
<1>6. Astray(u)
  <2>1. CheckEvery \in Nat \ {0} /\ t.typed \in Nat /\ t.astray \in Nat /\ t.blind \in BOOLEAN
        /\ u.typed \in Nat /\ u.astray \in Nat
    BY DEF InputConstants, InputTurns
  <2>2. CASE t.blind
    BY <2>2 DEF Astray
  <2>3. CASE ~t.blind
    <3>1. t.before # Unknown /\ t.astray <= t.typed % CheckEvery
      BY <2>3 DEF TurnGood, Astray
    <3>2. t.typed % CheckEvery \in 0..(CheckEvery - 1)
      BY <2>1
    <3>3. CASE o.op # "text"
      <4>1. u.typed = t.typed /\ u.astray = t.astray /\ u.pc = "run"
        BY <3>3
      <4>2. u.astray <= CheckEvery /\ u.astray <= u.typed % CheckEvery
        BY <2>1, <3>1, <3>2, <4>1
      <4> QED BY <3>1, <4>1, <4>2 DEF Astray
    <3>4. CASE o.op = "text"
      <4>1. u.typed = t.typed + 1 /\ u.typed - 1 = t.typed
            /\ (u.astray = t.astray \/ u.astray = t.astray + 1)
        BY <2>1, <3>4
      <4>2. 1 <= u.typed /\ u.astray <= (t.typed % CheckEvery) + 1 /\ u.astray <= CheckEvery
        <5> DEFINE r == t.typed % CheckEvery
        <5>1. r \in 0..(CheckEvery - 1) /\ t.astray <= r
          BY <3>1, <3>2
        <5> HIDE DEF r
        <5>2. 1 <= u.typed
          BY <2>1, <4>1
        <5>3. r \in Nat /\ r + 1 <= CheckEvery /\ u.astray <= t.astray + 1
          BY <2>1, <4>1, <5>1
        <5>4. u.astray <= r + 1
          BY <2>1, <5>1, <5>3
        <5>5. u.astray <= CheckEvery
          BY <2>1, <5>3, <5>4
        <5> QED BY <5>2, <5>4, <5>5 DEF r
      <4>3. u.astray <= ((u.typed - 1) % CheckEvery) + 1
        BY <4>1, <4>2
      <4>4. u.pc = "run" => u.ops = <<>>
        <5>1. ~t.call.delayed => Tail(t.ops) = <<>>
          <6> DEFINE r == Tail(t.ops)
          <6>1. ~t.call.delayed => Len(r) = 0 /\ r \in Seq(InputOps)
            BY <1>1, <1>3, <3>4 DEF IsRest
          <6> HIDE DEF r
          <6>2. ~t.call.delayed => r = <<>>
            BY <6>1
          <6> QED BY <6>2 DEF r
        <5> QED BY <3>4, <5>1
      <4> QED BY <3>1, <4>2, <4>3, <4>4 DEF Astray
    <3> QED BY <3>3, <3>4
  <2> QED BY <2>1, <2>2, <2>3
<1> QED BY <1>2, <1>4, <1>5, <1>6 DEF TurnGood

\* A call one of whose operations fails stays good.
LEMMA FailsGood ==
  ASSUME InputConstants, NEW t \in InputTurns, NEW u \in InputTurns, NEW sent \in Int,
         TurnGood(t), t.pc = "run", t.call \in ToolCalls, t.ops # <<>>,
         Resolves(Head(t.ops)) \/ sent = 0,
         u.ops = AfterFailure(t.ops), u.call = t.call, u.before = t.before,
         u.blind = t.blind, u.typed = t.typed, u.astray = t.astray, u.pc = t.pc,
         u.sent = t.sent + sent,
         u.failed = IF t.failed = "no" /\ Head(t.ops).onfail # "ignore"
                    THEN Head(t.ops).onfail ELSE t.failed
  PROVE  TurnGood(u)
<1> DEFINE o == Head(t.ops)
<1>1. t.ops \in Seq(InputOps) /\ o = t.ops[1] /\ o \in InputOps
  <2>1. t.ops \in Seq(InputOps)
    BY DEF InputTurns
  <2> HIDE DEF o
  <2> QED BY <2>1, TailRest DEF o
<1>2. Kept(u.ops, u.call) /\ Typing(u.ops, u.call)
  <2>1. PICK d \in 1..Len(t.ops) : IsRest(AfterFailure(t.ops), t.ops, d)
    BY <1>1, AfterFailureRest
  <2> QED BY <1>1, <2>1, RestKept DEF TurnGood
<1>3. TextRefused(u)
  <2> SUFFICES ASSUME t.call.tool = "type_text", ~t.call.delayed,
                      NoKeyFor(t.call.text)
               PROVE  u.sent = 0 /\ u.ops = <<>> /\ u.failed # "no"
    BY DEF TextRefused
  <2>1. t.ops = <<Text(t.call.text, "abort")>> /\ t.sent = 0 /\ t.failed = "no"
    BY DEF TurnGood, TextRefused
  <2>2. o = Text(t.call.text, "abort")
    BY <2>1
  <2>3. o.op = "text" /\ o.names = t.call.text /\ o.onfail = "abort"
    BY <2>2 DEF Text
  <2>4. sent = 0
    BY <2>3 DEF Resolves, NoKeyFor
  <2>5. AfterFailure(t.ops) = <<>>
    BY <2>3 DEF AfterFailure, Releasing
  <2> QED BY <2>1, <2>3, <2>4, <2>5
<1>4. Astray(u)
  <2>1. CheckEvery \in Nat \ {0} /\ t.typed \in Nat /\ t.astray \in Nat
    BY DEF InputConstants, InputTurns
  <2>2. CASE t.blind
    BY <2>2 DEF Astray
  <2>3. CASE ~t.blind
    <3>1. t.before # Unknown /\ t.astray <= CheckEvery /\ t.astray <= t.typed % CheckEvery
      BY <2>3 DEF TurnGood, Astray
    <3> QED BY <3>1 DEF Astray
  <2> QED BY <2>2, <2>3 DEF InputTurns
<1> QED BY <1>2, <1>3, <1>4 DEF TurnGood

\* A delayed text that waits stays good, however its check turns out.
LEMMA GapGood ==
  ASSUME InputConstants, NEW t \in InputTurns, NEW u \in InputTurns,
         NEW due \in CheckDue(t), NEW seen,
         TurnGood(t), t.pc = "gap",
         u.ops = t.ops, u.call = t.call, u.before = t.before, u.typed = t.typed,
         u.pc = IF due /\ seen \notin {Unknown, t.before} THEN "done" ELSE "run",
         u.blind <=> (t.blind \/ (due /\ seen = Unknown)),
         u.astray = IF due /\ seen = t.before THEN 0 ELSE t.astray
  PROVE  TurnGood(u)
<1>1. Kept(u.ops, u.call) /\ Typing(u.ops, u.call) /\ u.pc # "gap"
  BY DEF TurnGood
<1>2. TextRefused(u)
  BY DEF TurnGood, TextRefused
<1>3. Astray(u)
  <2>1. CheckEvery \in Nat \ {0} /\ t.typed \in Nat /\ t.astray \in Nat
        /\ due \in BOOLEAN
    BY DEF InputConstants, InputTurns, CheckDue
  <2>2. CASE u.blind
    BY <2>2 DEF Astray
  <2>3. CASE ~u.blind
    <3>1. /\ ~t.blind /\ t.before # Unknown /\ t.astray <= CheckEvery
          /\ 1 <= t.typed /\ t.astray <= ((t.typed - 1) % CheckEvery) + 1
      BY <2>3 DEF TurnGood, Astray
    <3>2. CASE u.pc = "done"
      <4>1. u.astray <= CheckEvery
        BY <2>1, <3>1
      <4> QED BY <3>2, <4>1 DEF Astray
    <3>3. CASE u.pc = "run" /\ due
      <4>1. seen = t.before /\ u.astray = 0
        BY <2>3, <3>3
      <4>2. 0 <= CheckEvery /\ 0 <= t.typed % CheckEvery
        BY <2>1
      <4>3. u.astray <= CheckEvery /\ u.astray <= u.typed % CheckEvery
        BY <4>1, <4>2
      <4> QED BY <3>1, <3>3, <4>3 DEF Astray
    <3>4. CASE u.pc = "run" /\ ~due
      <4>1. t.typed % CheckEvery # 0 /\ u.astray = t.astray
        BY <3>1, <3>4 DEF CheckDue
      <4> DEFINE y == t.typed - 1
      <4>2. y \in Nat /\ y + 1 = t.typed
        BY <2>1, <3>1
      <4>3. t.typed % CheckEvery = (y % CheckEvery) + 1
        <5> HIDE DEF y
        <5>1. (y + 1) % CheckEvery # 0
          BY <4>1, <4>2
        <5>2. (y + 1) % CheckEvery = (y % CheckEvery) + 1
          BY <2>1, <4>2, <5>1, NextRemainder
        <5> QED BY <4>2, <5>2
      <4>4. u.astray <= u.typed % CheckEvery /\ u.astray <= CheckEvery
        BY <3>1, <4>1, <4>3
      <4> QED BY <3>1, <3>4, <4>4 DEF Astray
    <3> QED BY <3>2, <3>3, <3>4
  <2> QED BY <2>2, <2>3 DEF InputTurns
<1> QED BY <1>1, <1>2, <1>3 DEF TurnGood

\* What a turn becomes when its first operation is done, and when it fails.
Proceeded(t, u) ==
  /\ u.ops = Tail(t.ops) /\ u.call = t.call /\ u.before = t.before /\ u.blind = t.blind
  /\ u.typed = IF Head(t.ops).op = "text" THEN t.typed + 1 ELSE t.typed
  /\ u.astray = t.astray \/ (Head(t.ops).op = "text" /\ u.astray = t.astray + 1)
  /\ u.pc = IF Head(t.ops).op = "text" /\ t.call.delayed /\ Tail(t.ops) # <<>>
            THEN "gap" ELSE "run"
Failed(t, u, sent) ==
  /\ u.ops = AfterFailure(t.ops) /\ u.call = t.call /\ u.before = t.before
  /\ u.blind = t.blind /\ u.typed = t.typed /\ u.astray = t.astray /\ u.pc = t.pc
  /\ u.sent = t.sent + sent
  /\ u.failed = IF t.failed = "no" /\ Head(t.ops).onfail # "ignore"
                THEN Head(t.ops).onfail ELSE t.failed

\* The fields of a turn, and what changing some of them gives.
LEMMA TurnFields ==
  ASSUME NEW t \in InputTurns
  PROVE  /\ t.pc \in {"idle", "run", "gap", "done"} /\ t.call \in ToolCalls \union {Unknown}
         /\ t.ops \in Seq(InputOps) /\ t.failed \in {"no"} \union Fates
         /\ t.before \in Windows \union {Unknown} /\ t.sent \in Int /\ t.typed \in Nat
         /\ t.astray \in Nat /\ t.blind \in BOOLEAN
         /\ t.result \in {"none", "noop", "error", "focus_changed", "ok"}
BY DEF InputTurns

\* An operation that is done.
LEMMA ProceedEffect ==
  ASSUME InputConstants, InputType, NEW n \in Callers, turn[n].pc = "run",
         turn[n].ops # <<>>, Resolves(Head(turn[n].ops)), Proceed(n)
  PROVE  /\ \E u \in InputTurns : turn' = [turn EXCEPT ![n] = u] /\ Proceeded(turn[n], u)
         /\ asked' = AskedBy(turn[n], Head(turn[n].ops), Events(Head(turn[n].ops)))
<1> DEFINE t == turn[n]
           o == Head(t.ops)
           typing == o.op = "text"
           strayed == t.before # Unknown /\ focus # t.before
           rest == Tail(t.ops)
           sent == t.sent + Len(Events(o))
           typed == IF typing THEN t.typed + 1 ELSE t.typed
           astray == IF typing /\ strayed THEN t.astray + 1 ELSE t.astray
           pc == IF typing /\ t.call.delayed /\ rest # <<>> THEN "gap" ELSE "run"
           u == [t EXCEPT !.ops = rest, !.sent = sent, !.typed = typed,
                          !.astray = astray, !.pc = pc]
<1>1. t \in InputTurns
  BY DEF InputType
<1>2. turn' = [turn EXCEPT ![n] = u]
  BY DEF Proceed
<1>3. asked' = AskedBy(t, o, Events(o))
  BY DEF Proceed
<1>4. o \in InputOps /\ rest \in Seq(InputOps)
  <2>1. t.ops \in Seq(InputOps)
    BY <1>1, TurnFields
  <2> QED BY <2>1, TailRest DEF IsRest
<1>5. sent \in Int
  <2>1. Events(o) \in Seq(InputEvents)
    BY <1>4, EventsTyped
  <2>2. Len(Events(o)) \in Nat /\ t.sent \in Int
    <3> HIDE DEF o, t
    <3> QED BY <1>1, <2>1, TurnFields
  <2> HIDE DEF t, o
  <2> QED BY <2>2
<1>6. typed \in Nat /\ astray \in Nat /\ pc \in {"run", "gap"}
  <2>1. t.typed \in Nat /\ t.astray \in Nat
    BY <1>1, TurnFields
  <2> QED BY <2>1
<1>7. astray = t.astray \/ (typing /\ astray = t.astray + 1)
  OBVIOUS
<1>8. /\ u \in InputTurns
      /\ u.ops = rest /\ u.call = t.call /\ u.before = t.before /\ u.blind = t.blind
      /\ u.typed = typed /\ u.astray = astray /\ u.pc = pc
  <2> HIDE DEF t, o, rest, sent, typed, astray, pc, typing, strayed
  <2> QED BY <1>1, <1>4, <1>5, <1>6 DEF InputTurns
<1>9. Proceeded(t, u)
  <2> HIDE DEF u
  <2> QED BY <1>7, <1>8 DEF Proceeded
<1> HIDE DEF u
<1> QED BY <1>2, <1>3, <1>8, <1>9

\* An operation that fails.
LEMMA FailsEffect ==
  ASSUME InputConstants, InputType, NEW n \in Callers, turn[n].ops # <<>>,
         NEW sent \in Int, Fails(n, sent)
  PROVE  /\ \E u \in InputTurns : turn' = [turn EXCEPT ![n] = u] /\ Failed(turn[n], u, sent)
         /\ tainted' = tainted \union Codes(Head(turn[n].ops)) \union Abandoned(turn[n])
         /\ asked' = asked
<1> DEFINE t == turn[n]
           o == Head(t.ops)
           rest == AfterFailure(t.ops)
           total == t.sent + sent
           failed == IF t.failed = "no" /\ o.onfail # "ignore" THEN o.onfail ELSE t.failed
           u == [t EXCEPT !.ops = rest, !.sent = total, !.failed = failed]
<1>1. t \in InputTurns
  BY DEF InputType
<1>2. turn' = [turn EXCEPT ![n] = u]
  BY DEF Fails
<1>3. tainted' = tainted \union Codes(o) \union Abandoned(t) /\ asked' = asked
  BY DEF Fails
<1>4. o \in InputOps /\ rest \in Seq(InputOps)
  <2>1. t.ops \in Seq(InputOps)
    BY <1>1, TurnFields
  <2> QED BY <2>1, TailRest, AfterFailureRest DEF IsRest
<1>5. o.onfail \in Fates
  <2> HIDE DEF o
  <2> QED BY <1>4 DEF InputOps
<1>6. total \in Int /\ failed \in {"no"} \union Fates
  <2>1. t.sent \in Int /\ t.failed \in {"no"} \union Fates
    BY <1>1, TurnFields
  <2> HIDE DEF t, o
  <2> QED BY <1>5, <2>1
<1>7. /\ u \in InputTurns
      /\ u.ops = rest /\ u.call = t.call /\ u.before = t.before /\ u.blind = t.blind
      /\ u.typed = t.typed /\ u.astray = t.astray /\ u.pc = t.pc /\ u.sent = total
      /\ u.failed = failed
  <2> HIDE DEF t, o, rest, total, failed
  <2> QED BY <1>1, <1>4, <1>6 DEF InputTurns
<1>8. Failed(t, u, sent)
  <2> HIDE DEF u
  <2> QED BY <1>7 DEF Failed
<1> HIDE DEF u
<1> QED BY <1>2, <1>3, <1>7, <1>8

\* What is good of a turn stays so while the provider stays.
LEMMA SameTurns ==
  ASSUME backend' = backend
  PROVE  \A t : TurnGood(t)' <=> TurnGood(t)
<1>1. \A t : TextRefused(t)' <=> TextRefused(t)
  BY SameScripts DEF TextRefused
<1>2. \A t : /\ Kept(t.ops, t.call)' <=> Kept(t.ops, t.call)
  BY SameScripts
<1>3. \A t : Typing(t.ops, t.call)' <=> Typing(t.ops, t.call)
  BY DEF Typing
<1>4. \A t : Astray(t)' <=> Astray(t)
  BY DEF Astray
<1> QED BY <1>1, <1>2, <1>3, <1>4 DEF TurnGood

\* While only one turn changes, and releases what it was to release or had nothing to
\* release, what is down stays held.
LEMMA OthersHold ==
  ASSUME InputType, Held, backend' = backend, NEW n \in Callers, NEW u,
         turn' = [turn EXCEPT ![n] = u],
         NEW k \in down, k \notin asked \union tainted,
         ~(turn[n].pc = "run" /\ Freed(turn[n].ops, turn[n].call, 1, k))
  PROVE  \E m \in Callers : (turn[m].pc = "run" /\ Freed(turn[m].ops, turn[m].call, 1, k))'
<1>1. PICK m \in Callers : turn[m].pc = "run" /\ Freed(turn[m].ops, turn[m].call, 1, k)
  BY DEF Held
<1>2. m # n
  BY <1>1
<1>3. turn'[m] = turn[m]
  BY <1>2 DEF InputType
<1>4. \A ops, c, i, x : Freed(ops, c, i, x)' <=> Freed(ops, c, i, x)
  BY SameScripts
<1>5. (turn[m].pc = "run" /\ Freed(turn[m].ops, turn[m].call, 1, k))'
  BY <1>1, <1>3, <1>4
<1> QED BY <1>5

\* An operation that is done leaves down what it was asked to, or will release.
LEMMA ProceedHeld ==
  ASSUME InputConstants, InputType, Held, backend' = backend, NEW n \in Callers,
         TurnGood(turn[n]), turn[n].pc = "run", turn[n].ops # <<>>,
         Resolves(Head(turn[n].ops)),
         NEW u \in InputTurns, turn' = [turn EXCEPT ![n] = u], Proceeded(turn[n], u),
         asked' = AskedBy(turn[n], Head(turn[n].ops), Events(Head(turn[n].ops))),
         tainted' = tainted, down' \subseteq Applied(down, Events(Head(turn[n].ops)))
  PROVE  Held'
<1> DEFINE t == turn[n]
           o == Head(t.ops)
           e == Events(o)
<1>1. t \in InputTurns /\ t.ops \in Seq(InputOps)
  BY TurnFields DEF InputType
<1>2. IsRest(Tail(t.ops), t.ops, 1) /\ o = t.ops[1] /\ o \in InputOps /\ 1 \in DOMAIN t.ops
  BY <1>1, TailRest
<1>3. asked' = AskedBy(t, o, e) /\ Kept(t.ops, t.call) /\ Typing(t.ops, t.call) /\ Resolves(o)
  BY DEF TurnGood
<1>4. u.ops = Tail(t.ops) /\ u.call = t.call /\ turn'[n] = u
      /\ u.pc = IF o.op = "text" /\ t.call.delayed /\ Tail(t.ops) # <<>> THEN "gap" ELSE "run"
  BY DEF Proceeded, InputType
<1>5. down' \subseteq (down \ Touched(e)) \union LastDown(e)
  BY DEF Applied
<1> HIDE DEF t, o, e
<1>6. ASSUME NEW k, Freed(t.ops, t.call, 2, k)
      PROVE  (turn[n].pc = "run" /\ Freed(turn[n].ops, turn[n].call, 1, k))'
  <2>1. Freed(u.ops, u.call, 1, k)
    BY <1>1, <1>2, <1>4, <1>6, RestFreed
  <2>2. u.pc = "run"
    <3>1. ASSUME o.op = "text", t.call.delayed PROVE FALSE
      <4>1. t.call.tool = "type_text"
        BY <1>2, <1>3, <3>1 DEF Typing
      <4>2. \A j \in DOMAIN t.ops : t.ops[j].op = "text"
        BY <1>3, <3>1, <4>1 DEF Typing
      <4>3. PICK j \in DOMAIN t.ops : t.ops[j].op \in {"key", "button"}
        BY <1>6 DEF Freed, Frees
      <4> QED BY <4>2, <4>3
    <3> QED BY <1>4, <3>1
  <2>3. \A ops, c, i, x : Freed(ops, c, i, x)' <=> Freed(ops, c, i, x)
    BY SameScripts
  <2> QED BY <1>4, <2>1, <2>2, <2>3
<1>7. SUFFICES ASSUME NEW k \in down'
               PROVE  \/ k \in asked' \union tainted'
                      \/ \E m \in Callers :
                           (turn[m].pc = "run" /\ Freed(turn[m].ops, turn[m].call, 1, k))'
  BY DEF Held
<1>8. CASE k \in LastDown(e)
  <2>1. k \in Pressed(t.ops[1])
    BY <1>2, <1>3, <1>8 DEF Pressed, e
  <2>2. MeantToLast(t.call, o) \/ Freed(t.ops, t.call, 1 + 1, k)
    BY <1>2, <1>3, <2>1 DEF Kept
  <2>3. CASE MeantToLast(t.call, o)
    <3>1. asked' = Applied(asked, e)
      BY <1>3, <2>3 DEF AskedBy, MeantToLast
    <3> QED BY <1>8, <3>1 DEF Applied
  <2>4. CASE Freed(t.ops, t.call, 2, k)
    BY <1>6, <2>4
  <2> QED BY <2>2, <2>3, <2>4
<1>9. CASE k \in down /\ k \notin Touched(e)
  <2>1. CASE k \in asked \union tainted
    <3>1. k \in asked => k \in asked'
      BY <1>3, <1>9 DEF AskedBy, Applied
    <3> QED BY <2>1, <3>1
  <2>2. CASE k \notin asked \union tainted /\ turn[n].pc = "run"
               /\ Freed(turn[n].ops, turn[n].call, 1, k)
    <3>1. Freed(t.ops, t.call, 1, k)
      BY <2>2 DEF t
    <3>2. ~Frees(t.ops[1], k)
      BY <1>2, <1>9 DEF Frees, e
    <3>3. Freed(t.ops, t.call, 2, k)
      BY <1>1, <3>1, <3>2, FreedLater
    <3> QED BY <1>6, <3>3
  <2>3. CASE k \notin asked \union tainted
               /\ ~(turn[n].pc = "run" /\ Freed(turn[n].ops, turn[n].call, 1, k))
    BY <1>9, <2>3, OthersHold
  <2> QED BY <2>1, <2>2, <2>3
<1> QED BY <1>5, <1>7, <1>8, <1>9

\* An operation that fails taints what it touched; what else is down is held.
LEMMA FailsHeld ==
  ASSUME InputConstants, InputType, Held, backend' = backend, NEW n \in Callers,
         turn[n].pc = "run", turn[n].ops # <<>>,
         NEW u \in InputTurns, turn' = [turn EXCEPT ![n] = u],
         NEW sent, Failed(turn[n], u, sent), asked' = asked,
         tainted' = tainted \union Codes(Head(turn[n].ops)) \union Abandoned(turn[n]),
         down' \subseteq down \union Codes(Head(turn[n].ops))
  PROVE  Held'
<1> DEFINE t == turn[n]
           o == Head(t.ops)
<1>1. t \in InputTurns /\ t.ops \in Seq(InputOps)
  BY TurnFields DEF InputType
<1>2. IsRest(Tail(t.ops), t.ops, 1) /\ o = t.ops[1] /\ o \in InputOps /\ 1 \in DOMAIN t.ops
  BY <1>1, TailRest
<1>3. tainted' = tainted \union Codes(o) \union Abandoned(t) /\ down' \subseteq down \union Codes(o)
  OBVIOUS
<1>4. u.ops = AfterFailure(t.ops) /\ u.call = t.call /\ turn'[n] = u /\ u.pc = "run"
      /\ t.pc = "run"
  BY DEF Failed, InputType
<1>5. o.onfail = "abort" => Abandoned(t) = Chord(t.call)
  BY DEF Abandoned, Chord
<1> HIDE DEF t, o
<1>6. SUFFICES ASSUME NEW k \in down'
               PROVE  \/ k \in asked' \union tainted'
                      \/ \E m \in Callers :
                           (turn[m].pc = "run" /\ Freed(turn[m].ops, turn[m].call, 1, k))'
  BY DEF Held
<1>7. CASE k \in Codes(o) \/ k \in asked \union tainted
  BY <1>3, <1>7
<1>8. CASE k \in down /\ k \notin Codes(o) /\ k \notin asked \union tainted
             /\ Freed(t.ops, t.call, 1, k)
  <2>1. ~Frees(t.ops[1], k)
    BY <1>2, <1>8 DEF Frees, Codes
  <2>2. PICK j \in DOMAIN t.ops :
          /\ 2 <= j /\ Frees(t.ops[j], k) /\ t.ops[j].onfail \in Releasing
          /\ \A l \in DOMAIN t.ops :
               1 <= l /\ l < j => t.ops[l].onfail # "abort" \/ k \in Chord(t.call)
    BY <1>1, <1>8, <2>1, FreedLater
  <2>3. DOMAIN t.ops \subseteq Nat
    BY <1>1
  <2>4. CASE o.onfail = "abort"
    <3>1. k \in Chord(t.call)
      <4>1. t.ops[1].onfail = "abort" /\ 1 <= 1 /\ 1 < j
        BY <1>2, <2>2, <2>3, <2>4
      <4> QED BY <1>2, <2>2, <4>1
    <3> QED BY <1>3, <1>5, <2>4, <3>1
  <2>5. CASE o.onfail # "abort"
    <3>1. PICK d \in 1..Len(t.ops) :
            /\ IsRest(AfterFailure(t.ops), t.ops, d)
            /\ \A i \in DOMAIN t.ops :
                 2 <= i /\ t.ops[i].onfail \in Releasing /\ t.ops[1].onfail # "abort" => d < i
      BY <1>1, <1>2, AfterFailureRest
    <3>2. d < j
      BY <1>2, <2>2, <2>5, <3>1
    <3>3. d + 1 <= j /\ 1 \in Nat \ {0}
      BY <1>1, <2>3, <3>2
    <3>4. \A l \in DOMAIN t.ops :
            d + 1 <= l /\ l < j => t.ops[l].onfail # "abort" \/ k \in Chord(t.call)
      BY <2>2, <2>3
    <3>5. Freed(t.ops, t.call, d + 1, k)
      BY <2>2, <3>3, <3>4 DEF Freed
    <3>6. Freed(u.ops, u.call, 1, k)
      BY <1>1, <1>4, <3>1, <3>3, <3>5, RestFreed
    <3>7. \A ops, c, i, x : Freed(ops, c, i, x)' <=> Freed(ops, c, i, x)
      BY SameScripts
    <3> QED BY <1>4, <3>6, <3>7
  <2> QED BY <2>4, <2>5
<1>9. CASE k \in down /\ k \notin asked \union tainted /\ ~Freed(t.ops, t.call, 1, k)
  <2>1. ~(turn[n].pc = "run" /\ Freed(turn[n].ops, turn[n].call, 1, k))
    BY <1>9 DEF t
  <2> QED BY <1>9, <2>1, OthersHold
<1> QED BY <1>3, <1>6, <1>7, <1>8, <1>9

\* A turn that had nothing to release may change, if nothing is pressed.
LEMMA StillHeld ==
  ASSUME InputType, Held, backend' = backend, NEW n \in Callers, NEW u,
         turn' = [turn EXCEPT ![n] = u], down' = down, asked' = asked, tainted' = tainted,
         turn[n].pc # "run" \/ turn[n].ops = <<>>
  PROVE  Held'
<1>1. \A k : ~(turn[n].pc = "run" /\ Freed(turn[n].ops, turn[n].call, 1, k))
  BY DEF Freed
<1>2. SUFFICES ASSUME NEW k \in down'
               PROVE  \/ k \in asked' \union tainted'
                      \/ \E m \in Callers :
                           (turn[m].pc = "run" /\ Freed(turn[m].ops, turn[m].call, 1, k))'
  BY DEF Held
<1>3. CASE k \in asked \union tainted
  BY <1>3
<1>4. CASE k \notin asked \union tainted
  BY <1>1, <1>4, OthersHold
<1> QED BY <1>3, <1>4

-----------------------------------------------------------------------------
(* The input devices: the steps *)

\* What integer division gives.
LEMMA DivisionBounds ==
  ASSUME NEW a \in Int, NEW e \in Nat \ {0}
  PROVE  a \div e \in Int /\ e * (a \div e) <= a /\ a < e * (a \div e) + e
OBVIOUS

\* A product grows with its factor.
LEMMA ProductOrder ==
  ASSUME NEW a \in Int, NEW b \in Int, NEW e \in Nat
  PROVE  a <= b => e * a <= e * b
OBVIOUS

\* Stretching a range over one of its own length moves nothing.
LEMMA WholeShare ==
  ASSUME NEW v \in Int, NEW w \in Nat \ {0}
  PROVE  (v * w) \div w = v
<1> DEFINE q == (v * w) \div w
<1>1. q \in Int /\ w * q <= v * w /\ v * w < w * q + w
  BY DivisionBounds
<1> HIDE DEF q
<1>2. v * w = w * v
  OBVIOUS
<1>3. ~(v <= q - 1)
  <2>1. v <= q - 1 => w * v <= w * (q - 1)
    BY <1>1, ProductOrder
  <2>2. w * (q - 1) = w * q - w
    BY <1>1
  <2>3. ~(w * q <= w * q - w)
    BY <1>1
  <2> QED BY <1>1, <1>2, <2>1, <2>2, <2>3
<1>4. ~(q + 1 <= v)
  <2>1. q + 1 <= v => w * (q + 1) <= w * v
    BY <1>1, ProductOrder
  <2>2. w * (q + 1) = w * q + w
    BY <1>1
  <2> QED BY <1>1, <1>2, <2>1, <2>2
<1>5. q = v
  BY <1>1, <1>3, <1>4
<1> QED BY <1>5 DEF q

\* Stretching a range over another one does not lead out of it.
LEMMA PartShare ==
  ASSUME NEW v \in Nat, NEW w \in Nat, NEW e \in Nat \ {0}, v <= e
  PROVE  0 <= (v * w) \div e /\ (v * w) \div e <= w /\ (v * w) \div e \in Int
<1> DEFINE q == (v * w) \div e
<1>1. q \in Int /\ e * q <= v * w /\ v * w < e * q + e
  BY DivisionBounds
<1> HIDE DEF q
<1>2. 0 <= v * w /\ v * w = w * v /\ w * v <= w * e /\ w * e = e * w
  BY ProductOrder
<1>3. ~(q <= -1)
  <2>1. q <= -1 => e * q <= e * (-1)
    BY <1>1, ProductOrder
  <2>2. e * (-1) = 0 - e
    OBVIOUS
  <2> QED BY <1>1, <1>2, <2>1, <2>2
<1>4. ~(w + 1 <= q)
  <2>1. w + 1 <= q => e * (w + 1) <= e * q
    BY <1>1, ProductOrder
  <2>2. e * (w + 1) = e * w + e
    OBVIOUS
  <2> QED BY <1>1, <1>2, <2>1, <2>2
<1>5. 0 <= q /\ q <= w
  BY <1>1, <1>3, <1>4
<1> QED BY <1>1, <1>5 DEF q

\* An output: its width, which its scale does not enlarge.
LEMMA OutputIs ==
  ASSUME InputConstants, NEW outs \in Arrangements, NEW p \in outs
  PROVE  /\ p.x \in Int /\ p.w \in Nat \ {0} /\ p.scale \in Nat \ {0}
         /\ Width(p) \in Nat /\ Width(p) <= p.w
<1>1. p.x \in Int /\ p.w \in Nat \ {0} /\ p.scale \in Nat \ {0}
  BY DEF InputConstants
<1> DEFINE a == p.w
           e == p.scale
           q == a \div e
<1>2. q \in Int /\ p.scale * q <= p.w /\ p.w < p.scale * q + p.scale
  <2>1. a \in Int /\ e \in Nat \ {0}
    BY <1>1
  <2> HIDE DEF a, e
  <2>2. q \in Int /\ e * q <= a /\ a < e * q + e
    BY <2>1, DivisionBounds
  <2> QED BY <2>2 DEF a, e
<1> HIDE DEF q
<1>3. ~(q <= -1)
  <2>1. q <= -1 => p.scale * q <= p.scale * (-1)
    BY <1>1, <1>2, ProductOrder
  <2>2. p.scale * (-1) = 0 - p.scale
    BY <1>1
  <2> QED BY <1>1, <1>2, <2>1, <2>2
<1>4. q <= p.w
  <2>1. q \in Nat /\ 1 <= p.scale
    BY <1>1, <1>2, <1>3
  <2>2. q * 1 <= q * p.scale /\ q * p.scale = p.scale * q /\ q * 1 = q
    BY <1>1, <2>1, ProductOrder
  <2> QED BY <1>1, <1>2, <2>1, <2>2
<1>5. q \in Nat
  BY <1>2, <1>3
<1> QED BY <1>1, <1>4, <1>5 DEF Width, q

\* The edges of the desktop are those of some output, with every output between them.
LEMMA Edges ==
  ASSUME InputConstants, outputs \in Arrangements, NEW p \in outputs
  PROVE  /\ Left \in Int /\ Right \in Int /\ PixelRight \in Int
         /\ Left <= p.x /\ p.x + Width(p) <= Right
         /\ Left < PixelRight /\ Left <= Right
<1> DEFINE L == {o.x : o \in outputs}
           R == {o.x + Width(o) : o \in outputs}
           P == {o.x + o.w : o \in outputs}
           f == [o \in outputs |-> o.x]
           g == [o \in outputs |-> o.x + Width(o)]
           h == [o \in outputs |-> o.x + o.w]
<1>1. IsFiniteSet(outputs)
  BY DEF InputConstants
<1>2. \A o \in outputs : o.x \in Int /\ o.w \in Nat \ {0} /\ Width(o) \in Nat
  BY OutputIs
<1>3. /\ L \in SUBSET Int /\ L # {} /\ p.x \in L
      /\ R \in SUBSET Int /\ R # {} /\ p.x + Width(p) \in R
      /\ P \in SUBSET Int /\ P # {} /\ p.x + p.w \in P
  <2>1. \A o \in outputs : o.x + Width(o) \in Int /\ o.x + o.w \in Int
    BY <1>2
  <2> QED BY <1>2, <2>1
<1>4. /\ f \in Surjection(outputs, L) /\ g \in Surjection(outputs, R)
      /\ h \in Surjection(outputs, P)
  BY DEF Surjection
<1>5. IsFiniteSet(L) /\ IsFiniteSet(R) /\ IsFiniteSet(P)
  <2> HIDE DEF L, R, P, f, g, h
  <2> QED BY <1>1, <1>4, FS_Surjection
<1> HIDE DEF L, R, P
<1>6. /\ Min(L) \in L /\ Min(L) <= p.x /\ Max(R) \in R /\ p.x + Width(p) <= Max(R)
      /\ Max(P) \in P /\ p.x + p.w <= Max(P)
  BY <1>3, <1>5, ExtremesProperties
<1>7. Min(L) \in Int /\ Max(R) \in Int /\ Max(P) \in Int
  BY <1>3, <1>6
<1>8. Min(L) < Max(P) /\ Min(L) <= Max(R)
  BY <1>2, <1>6, <1>7
<1> QED BY <1>6, <1>7, <1>8 DEF Left, Right, PixelRight, L, R, P

\* A move lands where it was asked to, if the provider knows the desktop for what it
\* is and there is an output, and on the desktop in any case.
LEMMA LandsThere ==
  ASSUME InputConstants, InputType, UNCHANGED screenVars,
         NEW x \in Int, pointer' \in Targets(x), wanted' = x
  PROVE  PointerLands'
<1> DEFINE W == Right - Left
           R == PixelRight - Left
<1>1. /\ backend \in {"wlr", "uinput", "x11", "portal"} /\ outputs \in Arrangements
      /\ backend = "uinput" => extent \in Nat \ {0}
      /\ backend' = backend /\ outputs' = outputs /\ extent' = extent
  BY DEF InputType, screenVars
<1>2. outputs # {}
  BY <1>1 DEF InputConstants
<1>3. Left \in Int /\ Right \in Int /\ PixelRight \in Int /\ W \in Nat /\ R \in Nat \ {0}
  <2>1. PICK p \in outputs : TRUE
    BY <1>2
  <2>2. Left \in Int /\ Right \in Int /\ PixelRight \in Int /\ Left < PixelRight /\ Left <= Right
    BY <1>1, Edges
  <2> QED BY <2>2
<1> HIDE DEF W, R
<1>4. /\ Left' = Left /\ Right' = Right /\ PixelRight' = PixelRight
      /\ TrueExtent' <=> TrueExtent /\ Under(wanted)' = Under(x)
  BY <1>1 DEF Left, Right, PixelRight, TrueExtent, Under
<1>5. ASSUME TrueExtent, Under(x) # {} PROVE pointer' = x
  <2>1. PICK p \in outputs : x >= p.x /\ x < p.x + Width(p)
    BY <1>5 DEF Under
  <2>2. Left <= p.x /\ p.x + Width(p) <= Right /\ p.x \in Int /\ Width(p) \in Nat
    BY <1>1, Edges, OutputIs
  <2>3. Left <= x /\ x < Right /\ W \in Nat \ {0} /\ W = Right - Left
    BY <1>3, <2>1, <2>2 DEF W
  <2>4. CASE backend = "wlr"
    <3>1. R = W
      BY <1>5, <2>4 DEF TrueExtent, R, W
    <3>2. pointer' = WlrTarget(x)
      BY <2>4 DEF Targets
    <3> DEFINE v == x - Left
    <3>3. v \in Nat /\ v <= R /\ Clamp(v, 0, R) = v
      BY <1>3, <2>3, <3>1 DEF Clamp
    <3>4. WlrTarget(x) = Left + ((v * W) \div W)
      <4> HIDE DEF v
      <4>1. WlrTarget(x) = Onto(Clamp(v, 0, R), R)
        BY DEF WlrTarget, R, v
      <4>2. \A a, b : Onto(a, b) = Left + ((a * W) \div b)
        BY DEF Onto, W
      <4> QED BY <3>1, <3>3, <4>1, <4>2
    <3>5. (v * W) \div W = v
      <4> HIDE DEF v
      <4> QED BY <2>3, <3>3, WholeShare
    <3> QED BY <1>3, <3>2, <3>4, <3>5
  <2>5. CASE backend = "uinput"
    <3>1. Left = 0 /\ extent = Right /\ extent = W
      BY <1>3, <1>5, <2>3, <2>5 DEF TrueExtent
    <3>2. pointer' = UinputTarget(x)
      BY <2>5 DEF Targets
    <3>3. x \in Nat /\ Clamp(x, 0, extent) = x
      BY <1>3, <2>3, <3>1 DEF Clamp
    <3>4. UinputTarget(x) = 0 + ((x * W) \div W)
      <4>1. \A a, b : Onto(a, b) = Left + ((a * W) \div b)
        BY DEF Onto, W
      <4> QED BY <3>1, <3>3, <4>1 DEF UinputTarget
    <3>5. (x * W) \div W = x
      BY <2>3, WholeShare
    <3> QED BY <3>2, <3>4, <3>5
  <2>6. CASE backend = "x11"
    BY <2>6 DEF Targets
  <2>7. backend # "portal"
    BY <1>5 DEF TrueExtent
  <2> QED BY <1>1, <2>4, <2>5, <2>6, <2>7
<1>6. ASSUME NEW v \in Nat, NEW e \in Nat \ {0}, v <= e
      PROVE  Left <= Onto(v, e) /\ Onto(v, e) <= Right
  <2> DEFINE q == (v * W) \div e
  <2>1. 0 <= q /\ q <= W /\ q \in Int
    BY <1>3, <1>6, PartShare
  <2>2. Onto(v, e) = Left + q
    BY DEF Onto, W
  <2> HIDE DEF q
  <2> QED BY <1>3, <2>1, <2>2 DEF W
<1>7. ASSUME backend \in {"wlr", "uinput"} PROVE Left <= pointer' /\ pointer' <= Right
  <2>1. CASE backend = "wlr"
    <3> DEFINE v == Clamp(x - Left, 0, R)
    <3>1. v \in Nat /\ v <= R
      BY <1>3 DEF Clamp
    <3>2. pointer' = Onto(v, R)
      BY <2>1 DEF Targets, WlrTarget, R
    <3> HIDE DEF v
    <3> QED BY <1>3, <1>6, <3>1, <3>2
  <2>2. CASE backend = "uinput"
    <3> DEFINE v == Clamp(x, 0, extent)
    <3>1. v \in Nat /\ v <= extent /\ extent \in Nat \ {0}
      BY <1>1, <2>2 DEF Clamp
    <3>2. pointer' = Onto(v, extent)
      BY <2>2 DEF Targets, UinputTarget
    <3> HIDE DEF v
    <3> QED BY <1>6, <3>1, <3>2
  <2> QED BY <1>7, <2>1, <2>2
<1> QED BY <1>1, <1>4, <1>5, <1>7 DEF PointerLands

\* A pointer that stays is where it was.
LEMMA PointerStays ==
  ASSUME PointerLands, UNCHANGED screenVars, pointer' = pointer, wanted' = wanted
  PROVE  PointerLands'
<1>1. backend' = backend /\ outputs' = outputs /\ extent' = extent
  BY DEF screenVars
<1>2. /\ Left' = Left /\ Right' = Right /\ PixelRight' = PixelRight
      /\ TrueExtent' <=> TrueExtent /\ Under(wanted)' = Under(wanted)
  BY <1>1 DEF Left, Right, PixelRight, TrueExtent, Under
<1> QED BY <1>1, <1>2 DEF PointerLands

\* Whatever an operation does to the pointer, it is where it was asked to be.
LEMMA LandsStep ==
  ASSUME InputConstants, InputType, PointerLands, UNCHANGED screenVars,
         NEW o \in InputOps, Lands(o) \/ UNCHANGED <<pointer, wanted>>
  PROVE  PointerLands' /\ wanted' \in Int
<1>1. wanted \in Int
  BY DEF InputType
<1>2. CASE o.op \in {"move", "click"} /\ Lands(o)
  <2>1. pointer' \in Targets(o.at) /\ wanted' = o.at
    BY <1>2 DEF Lands
  <2>2. o.at \in Int
    BY <1>2 DEF InputOps
  <2> QED BY <2>1, <2>2, LandsThere
<1>3. CASE UNCHANGED <<pointer, wanted>>
  BY <1>1, <1>3, PointerStays
<1> QED BY <1>2, <1>3 DEF Lands

\* A call that has not begun, or had nothing to do, is good.
LEMMA NoTurnGood ==
  ASSUME InputConstants
  PROVE  /\ NoTurn \in InputTurns /\ TurnGood(NoTurn)
         /\ \A c \in ToolCalls : c.tool = "mouse_button_control" =>
              LET u == [NoTurn EXCEPT !.pc = "done", !.call = c, !.result = "noop"]
              IN  u \in InputTurns /\ TurnGood(u)
<1>1. NoTurn \in InputTurns
  BY DEF NoTurn, InputTurns
<1>2. \A c : Kept(<<>>, c) /\ Typing(<<>>, c)
  BY DEF Kept, Typing
<1>3. CheckEvery \in Nat
  BY DEF InputConstants
<1>4. TurnGood(NoTurn)
  BY <1>2, <1>3 DEF NoTurn, TurnGood, TextRefused, Astray
<1>5. ASSUME NEW c \in ToolCalls, c.tool = "mouse_button_control"
      PROVE  LET u == [NoTurn EXCEPT !.pc = "done", !.call = c, !.result = "noop"]
             IN  u \in InputTurns /\ TurnGood(u)
  <2> DEFINE u == [NoTurn EXCEPT !.pc = "done", !.call = c, !.result = "noop"]
  <2>1. u \in InputTurns
    BY <1>1 DEF InputTurns
  <2>2. u.pc = "done" /\ u.call = c /\ u.ops = <<>> /\ u.astray = 0
    BY DEF NoTurn
  <2> HIDE DEF u
  <2>3. TurnGood(u)
    BY <1>2, <1>3, <1>5, <2>2 DEF TurnGood, TextRefused, Astray
  <2>4. u \in InputTurns /\ TurnGood(u)
    BY <2>1, <2>3
  <2> QED BY <2>4 DEF u
<1> QED BY <1>1, <1>4, <1>5

\* The invariant holds at first.
LEMMA InputStarts ==
  ASSUME InputConstants, InputInit
  PROVE  InputInv
<1>1. NoTurn \in InputTurns /\ TurnGood(NoTurn)
  BY NoTurnGood
<1>2. turn = [n \in Callers |-> NoTurn] /\ down = {} /\ pointer = Left /\ wanted = Left
      /\ backend \in InputBackends /\ focus \in Windows /\ outputs \in Arrangements
  BY DEF InputInit
<1>3. \A n \in Callers : turn[n] = NoTurn /\ turn[n].pc = "idle"
  BY <1>2 DEF NoTurn
<1>4. Left \in Int /\ Left <= Right /\ PixelRight \in Int
  <2>1. PICK p \in outputs : TRUE
    BY <1>2 DEF InputConstants
  <2> QED BY <1>2, Edges
<1>5. backend = "uinput" => extent \in Nat \ {0}
  <2>1. ASSUME backend = "uinput" PROVE extent \in ScreenSizes \union {PixelRight} /\ extent > 0
    BY <2>1 DEF InputInit
  <2>2. ScreenSizes \subseteq Nat
    BY DEF InputConstants
  <2>3. \A e : e \in ScreenSizes \union {PixelRight} /\ e > 0 => e \in Nat \ {0}
    BY <1>4, <2>2
  <2> QED BY <2>1, <2>3
<1>6. InputType
  BY <1>1, <1>2, <1>3, <1>4, <1>5 DEF InputType, InputConstants
<1>7. PointerLands
  BY <1>2, <1>4 DEF PointerLands
<1>8. Held
  BY <1>2 DEF Held
<1> QED BY <1>1, <1>3, <1>6, <1>7, <1>8 DEF InputInv

\* A call whose text has a character without a key is one operation, which sends nothing.
LEMMA RefusedScript ==
  ASSUME NEW c, c.tool = "type_text", ~c.delayed, NoKeyFor(c.text)
  PROVE  Script(c) = <<Text(c.text, "abort")>>
<1> DEFINE o == Text(c.text, "abort")
<1>1. o.op = "text" /\ o.names = c.text
  BY DEF Text
<1> HIDE DEF o
<1>2. ~Resolves(o)
  BY <1>1 DEF Resolves, NoKeyFor
<1>3. ProviderOps(o) = <<o>>
  BY <1>2 DEF ProviderOps
<1>4. TextOps(c) = ProviderOps(o)
  BY DEF TextOps, o
<1>5. Script(c) = TextOps(c)
  BY DEF Script
<1> QED BY <1>3, <1>4, <1>5 DEF o

\* A call that begins is good.
LEMMA BegunGood ==
  ASSUME InputConstants, NEW c \in ToolCalls, NEW seen \in Windows \union {Unknown}
  PROVE  LET u == [NoTurn EXCEPT !.pc = "run", !.call = c, !.ops = Script(c),
                                 !.before = seen, !.blind = seen = Unknown]
         IN  u \in InputTurns /\ TurnGood(u)
<1> DEFINE ops == Script(c)
           blind == seen = Unknown
           u == [NoTurn EXCEPT !.pc = "run", !.call = c, !.ops = ops,
                               !.before = seen, !.blind = blind]
<1>1. ops \in Seq(InputOps) /\ Kept(ops, c) /\ Typing(ops, c)
  BY ScriptKept
<1>2. (c.tool = "type_text" /\ ~c.delayed /\ NoKeyFor(c.text))
        => ops = <<Text(c.text, "abort")>>
  BY RefusedScript
<1>3. blind \in BOOLEAN /\ (~blind => seen # Unknown)
  OBVIOUS
<1> HIDE DEF ops, blind
<1>4. NoTurn \in InputTurns
  BY NoTurnGood
<1>5. u \in InputTurns
  BY <1>1, <1>3, <1>4 DEF InputTurns
<1>6. /\ u.pc = "run" /\ u.call = c /\ u.ops = ops /\ u.before = seen /\ u.blind = blind
      /\ u.sent = 0 /\ u.typed = 0 /\ u.astray = 0 /\ u.failed = "no"
  BY DEF NoTurn
<1> HIDE DEF u
<1>7. TextRefused(u)
  BY <1>2, <1>6 DEF TextRefused
<1>8. Astray(u)
  <2>1. CheckEvery \in Nat \ {0}
    BY DEF InputConstants
  <2>2. 0 <= CheckEvery /\ 0 <= 0 % CheckEvery
    BY <2>1
  <2> QED BY <1>3, <1>6, <2>2 DEF Astray
<1>9. u \in InputTurns /\ TurnGood(u)
  BY <1>1, <1>5, <1>6, <1>7, <1>8 DEF TurnGood
<1> QED BY <1>9 DEF u, ops, blind

\* The invariant goes on when one turn becomes a good one, and the rest of it holds.
LEMMA OneTurn ==
  ASSUME InputConstants, InputInv, UNCHANGED screenVars, focus' = focus, wanted' \in Int,
         NEW n \in Callers, NEW u \in InputTurns, turn' = [turn EXCEPT ![n] = u],
         TurnGood(u), u.pc \in {"run", "gap"} => u.call \in ToolCalls,
         PointerLands', Held'
  PROVE  InputInv'
<1>1. /\ turn \in [Callers -> InputTurns] /\ backend \in {"wlr", "uinput", "x11", "portal"}
      /\ focus \in Windows
      /\ \A m \in Callers : turn[m].pc \in {"run", "gap"} => turn[m].call \in ToolCalls
      /\ outputs \in Arrangements /\ (backend = "uinput" => extent \in Nat \ {0})
      /\ backend' = backend /\ outputs' = outputs /\ extent' = extent
  BY DEF InputInv, InputType, screenVars
<1>2. /\ turn' \in [Callers -> InputTurns] /\ turn'[n] = u
      /\ \A m \in Callers : m # n => turn'[m] = turn[m]
  BY <1>1
<1>3. \A m \in Callers : turn'[m].pc \in {"run", "gap"} => turn'[m].call \in ToolCalls
  BY <1>1, <1>2
<1>4. InputType'
  <2>1. /\ backend' \in {"wlr", "uinput", "x11", "portal"} /\ outputs' \in Arrangements
        /\ focus' \in Windows /\ (backend' = "uinput" => extent' \in Nat \ {0})
    BY <1>1
  <2> QED BY <1>2, <1>3, <2>1 DEF InputType
<1>5. ASSUME NEW m \in Callers PROVE TurnGood(turn[m])'
  <2>1. \A t : TurnGood(t)' <=> TurnGood(t)
    BY <1>1, SameTurns
  <2>2. TurnGood(turn[m])
    BY DEF InputInv
  <2>3. TurnGood(turn'[m])
    BY <1>2, <2>2
  <2> QED BY <2>1, <2>3
<1> QED BY <1>4, <1>5 DEF InputInv

\* A call begins.
LEMMA InputBeginStep ==
  ASSUME InputConstants, InputInv, NEW n \in Callers, BeginTool(n)
  PROVE  InputInv'
<1>1. /\ backend' = backend /\ focus' = focus /\ pointer' = pointer /\ wanted' = wanted
      /\ down' = down /\ asked' = asked /\ tainted' = tainted
      /\ turn[n].pc # "run" /\ UNCHANGED screenVars
  BY DEF BeginTool, deviceVars, screenVars
<1>2. InputType /\ PointerLands /\ Held /\ wanted \in Int /\ focus \in Windows
  BY DEF InputInv, InputType
<1>3. PICK c \in ToolCalls : \E seen \in (IF c.tool \in Safe THEN Answers ELSE {Unknown}) :
        turn' = [turn EXCEPT ![n] =
          IF c.tool = "mouse_button_control" /\ ((c.action = "down") <=> (c.button \in heldSet))
          THEN [NoTurn EXCEPT !.pc = "done", !.call = c, !.result = "noop"]
          ELSE [NoTurn EXCEPT !.pc = "run", !.call = c, !.ops = Script(c), !.before = seen,
                              !.blind = seen = Unknown]]
  BY DEF BeginTool
<1>4. PICK seen \in (IF c.tool \in Safe THEN Answers ELSE {Unknown}) :
       turn' = [turn EXCEPT ![n] =
         IF c.tool = "mouse_button_control" /\ ((c.action = "down") <=> (c.button \in heldSet))
         THEN [NoTurn EXCEPT !.pc = "done", !.call = c, !.result = "noop"]
         ELSE [NoTurn EXCEPT !.pc = "run", !.call = c, !.ops = Script(c), !.before = seen,
                             !.blind = seen = Unknown]]
  BY <1>3
<1>5. seen \in Windows \union {Unknown}
  BY <1>2 DEF Answers
<1> DEFINE a == [NoTurn EXCEPT !.pc = "done", !.call = c, !.result = "noop"]
           b == [NoTurn EXCEPT !.pc = "run", !.call = c, !.ops = Script(c), !.before = seen,
                               !.blind = seen = Unknown]
<1>6. c.tool = "mouse_button_control" => a \in InputTurns /\ TurnGood(a)
  BY NoTurnGood
<1>7. b \in InputTurns /\ TurnGood(b)
  BY <1>5, BegunGood
<1>8. a.pc = "done" /\ b.call = c
  BY DEF NoTurn
<1>9. turn' = [turn EXCEPT ![n] =
        IF c.tool = "mouse_button_control" /\ ((c.action = "down") <=> (c.button \in heldSet))
        THEN a ELSE b]
  BY <1>4
<1> HIDE DEF a, b
<1>10. PICK u \in InputTurns :
         /\ turn' = [turn EXCEPT ![n] = u] /\ TurnGood(u)
         /\ u.pc \in {"run", "gap"} => u.call \in ToolCalls
  <2>1. CASE c.tool = "mouse_button_control" /\ ((c.action = "down") <=> (c.button \in heldSet))
    BY <1>6, <1>8, <1>9, <2>1
  <2>2. CASE ~(c.tool = "mouse_button_control" /\ ((c.action = "down") <=> (c.button \in heldSet)))
    BY <1>7, <1>8, <1>9, <2>2
  <2> QED BY <2>1, <2>2
<1>11. Held'
  BY <1>1, <1>2, <1>10, StillHeld
<1>12. PointerLands'
  BY <1>1, <1>2, PointerStays
<1> QED BY <1>1, <1>2, <1>10, <1>11, <1>12, OneTurn

\* What is down after some of the events of a batch, and then all of them.
LEMMA AppliedAgain ==
  ASSUME NEW codes, NEW e, NEW k \in 0..Len(e), e \in Seq(InputEvents)
  PROVE  /\ Touched(SubSeq(e, 1, k)) \subseteq Touched(e)
         /\ Applied(codes, SubSeq(e, 1, k)) \subseteq codes \union Touched(e)
         /\ Applied(Applied(codes, SubSeq(e, 1, k)), e) \subseteq Applied(codes, e)
<1> DEFINE p == SubSeq(e, 1, k)
<1>1. /\ Len(e) \in Nat /\ DOMAIN e = 1..Len(e) /\ \A i \in 1..Len(e) : e[i] \in InputEvents
  OBVIOUS
<1>2. p \in Seq(InputEvents) /\ Len(p) = k /\ DOMAIN p = 1..k /\ \A i \in 1..k : p[i] = e[i]
  <2>1. /\ p \in Seq(InputEvents)
        /\ Len(p) = IF 1 <= k THEN k - 1 + 1 ELSE 0
        /\ \A i \in 1..(k - 1 + 1) : p[i] = e[1 + i - 1]
    <3>1. k \in Int /\ 1 \in Int /\ \A i \in 1..k : e[i] \in InputEvents
      BY <1>1
    <3> HIDE DEF p
    <3> QED BY <3>1, SubSeqProperties DEF p
  <2> HIDE DEF p
  <2> QED BY <1>1, <2>1
<1> HIDE DEF p
<1>3. Touched(p) \subseteq Touched(e)
  BY <1>1, <1>2 DEF Touched
<1>4. LastDown(p) \subseteq Touched(p) /\ LastDown(e) \subseteq Touched(e)
  BY DEF LastDown, Touched
<1>5. Applied(codes, p) \subseteq codes \union Touched(e)
  BY <1>3, <1>4 DEF Applied
<1>6. Applied(Applied(codes, p), e) \subseteq Applied(codes, e)
  BY <1>3, <1>4 DEF Applied
<1> QED BY <1>3, <1>5, <1>6 DEF p

\* An operation is done, at once or repeated in a new session.
LEMMA DoneStep ==
  ASSUME InputConstants, InputInv, NEW n \in Callers, turn[n].pc = "run",
         turn[n].ops # <<>>, Resolves(Head(turn[n].ops)), Proceed(n),
         UNCHANGED screenVars, focus' = focus, tainted' = tainted,
         down' \subseteq Applied(down, Events(Head(turn[n].ops))),
         Lands(Head(turn[n].ops))
  PROVE  InputInv'
<1> DEFINE t == turn[n]
           o == Head(t.ops)
<1>1. InputType /\ PointerLands /\ Held /\ wanted \in Int /\ TurnGood(t) /\ t \in InputTurns
      /\ t.call \in ToolCalls /\ backend' = backend
  BY DEF InputInv, InputType, screenVars
<1>2. asked' = AskedBy(t, o, Events(o))
  BY <1>1, ProceedEffect
<1>3. PICK u \in InputTurns : turn' = [turn EXCEPT ![n] = u] /\ Proceeded(t, u)
  BY <1>1, ProceedEffect
<1>4. TurnGood(u)
  <2>1. t.pc = "run" /\ t.ops # <<>> /\ Resolves(Head(t.ops))
    OBVIOUS
  <2> HIDE DEF t, o
  <2> QED BY <1>1, <1>3, <2>1, ProceedGood DEF Proceeded
<1>5. Held'
  BY <1>1, <1>2, <1>3, ProceedHeld
<1>6. o \in InputOps /\ u.call \in ToolCalls
  <2>1. t.ops \in Seq(InputOps) /\ t.ops # <<>>
    BY <1>1, TurnFields
  <2>2. u.call = t.call
    BY <1>3 DEF Proceeded
  <2> HIDE DEF t
  <2> QED BY <1>1, <2>1, <2>2, TailRest
<1>7. PointerLands' /\ wanted' \in Int
  <2>1. Lands(o)
    OBVIOUS
  <2> HIDE DEF o
  <2> QED BY <1>1, <1>6, <2>1, LandsStep
<1> HIDE DEF t, o
<1> QED BY <1>3, <1>4, <1>5, <1>6, <1>7, OneTurn

\* An operation fails, after some of its events.
LEMMA FailedStep ==
  ASSUME InputConstants, InputInv, NEW n \in Callers, turn[n].pc = "run",
         turn[n].ops # <<>>, NEW sent \in Int, Fails(n, sent),
         Resolves(Head(turn[n].ops)) \/ sent = 0,
         UNCHANGED screenVars, focus' = focus,
         down' \subseteq down \union Codes(Head(turn[n].ops)),
         Lands(Head(turn[n].ops)) \/ UNCHANGED <<pointer, wanted>>
  PROVE  InputInv'
<1> DEFINE t == turn[n]
           o == Head(t.ops)
<1>1. InputType /\ PointerLands /\ Held /\ wanted \in Int /\ TurnGood(t) /\ t \in InputTurns
      /\ t.call \in ToolCalls /\ backend' = backend
  BY DEF InputInv, InputType, screenVars
<1>2. tainted' = tainted \union Codes(o) \union Abandoned(t) /\ asked' = asked
  BY <1>1, FailsEffect
<1>3. PICK u \in InputTurns : turn' = [turn EXCEPT ![n] = u] /\ Failed(t, u, sent)
  BY <1>1, FailsEffect
<1>4. TurnGood(u)
  <2>1. t.pc = "run" /\ t.ops # <<>> /\ (Resolves(Head(t.ops)) \/ sent = 0)
    OBVIOUS
  <2> HIDE DEF t, o
  <2> QED BY <1>1, <1>3, <2>1, FailsGood DEF Failed
<1>5. Held'
  BY <1>1, <1>2, <1>3, FailsHeld
<1>6. o \in InputOps /\ u.call \in ToolCalls
  <2>1. t.ops \in Seq(InputOps) /\ t.ops # <<>>
    BY <1>1, TurnFields
  <2>2. u.call = t.call
    BY <1>3 DEF Failed
  <2> HIDE DEF t
  <2> QED BY <1>1, <2>1, <2>2, TailRest
<1>7. PointerLands' /\ wanted' \in Int
  <2>1. Lands(o) \/ UNCHANGED <<pointer, wanted>>
    OBVIOUS
  <2> HIDE DEF o
  <2> QED BY <1>1, <1>6, <2>1, LandsStep
<1> HIDE DEF t, o
<1> QED BY <1>3, <1>4, <1>5, <1>6, <1>7, OneTurn

\* An operation of a call in flight: done, refused for want of a key, broken or repeated.
LEMMA OperateStep ==
  ASSUME InputConstants, InputInv, NEW n \in Callers, Operate(n)
  PROVE  InputInv'
<1> DEFINE o == Head(turn[n].ops)
           e == Events(o)
<1>1. turn[n].pc = "run" /\ turn[n].ops # <<>> /\ UNCHANGED screenVars /\ focus' = focus
  BY DEF Operate
<1>2. o \in InputOps
  <2>1. turn[n] \in InputTurns
    BY DEF InputInv, InputType
  <2>2. turn[n].ops \in Seq(InputOps)
    BY <2>1, TurnFields
  <2> QED BY <1>1, <2>2, TailRest
<1>3. Resolves(o) => e \in Seq(InputEvents) /\ Len(e) \in Nat /\ Codes(o) = Touched(e)
  <2>1. ASSUME Resolves(o) PROVE e \in Seq(InputEvents)
    <3> HIDE DEF o
    <3> QED BY <1>2, <2>1, EventsTyped
  <2>2. e \in Seq(InputEvents) => Len(e) \in Nat
    <3> HIDE DEF e
    <3> QED OBVIOUS
  <2> QED BY <2>1, <2>2 DEF Codes
<1>4. CASE Succeeds(n)
  <2>1. /\ Resolves(o) /\ Proceed(n) /\ tainted' = tainted /\ down' = Applied(down, e)
        /\ Lands(o)
    BY <1>4 DEF Succeeds
  <2> QED BY <1>1, <2>1, DoneStep
<1>5. CASE Unresolved(n)
  <2>1. Fails(n, 0) /\ down' = down /\ UNCHANGED <<pointer, wanted>>
    BY <1>5 DEF Unresolved
  <2> QED BY <1>1, <2>1, FailedStep
<1>6. CASE Breaks(n)
  <2>1. Resolves(o)
    BY <1>6 DEF Breaks
  <2>2. PICK k \in 0..Len(e) :
          /\ Fails(n, k)
          /\ Lands(o) \/ UNCHANGED <<pointer, wanted>>
          /\ down' = {} \/ down' = Applied(down, SubSeq(e, 1, k))
    BY <1>6 DEF Breaks
  <2>3. k \in Int
    BY <1>3, <2>1
  <2>4. down' \subseteq down \union Codes(o)
    <3> HIDE DEF o, e
    <3> QED BY <1>3, <2>1, <2>2, AppliedAgain
  <2> QED BY <1>1, <2>1, <2>2, <2>3, <2>4, FailedStep
<1>7. CASE Repeats(n)
  <2>1. Resolves(o) /\ Proceed(n) /\ tainted' = tainted /\ Lands(o)
    BY <1>7 DEF Repeats
  <2>2. PICK k \in 0..Len(e) : down' = Applied(Applied(down, SubSeq(e, 1, k)), e)
    BY <1>7 DEF Repeats
  <2>3. down' \subseteq Applied(down, e)
    <3> HIDE DEF o, e
    <3> QED BY <1>3, <2>1, <2>2, AppliedAgain
  <2> QED BY <1>1, <2>1, <2>3, DoneStep
<1> QED BY <1>4, <1>5, <1>6, <1>7 DEF Operate

\* A delayed text looks at the focus, or goes on without.
LEMMA GapStep ==
  ASSUME InputConstants, InputInv, NEW n \in Callers, Gap(n)
  PROVE  InputInv'
<1> DEFINE t == turn[n]
<1>1. InputType /\ PointerLands /\ Held /\ wanted \in Int /\ TurnGood(t) /\ t \in InputTurns
      /\ t.pc = "gap" /\ t.call \in ToolCalls
  BY DEF InputInv, InputType, Gap
<1>2. /\ backend' = backend /\ focus' = focus /\ pointer' = pointer /\ wanted' = wanted
      /\ down' = down /\ asked' = asked /\ tainted' = tainted /\ UNCHANGED screenVars
  BY DEF Gap, deviceVars, screenVars
<1>3. PICK due \in CheckDue(t), seen \in Answers :
        turn' = [turn EXCEPT ![n] = [t EXCEPT
            !.pc = IF due /\ seen \notin {Unknown, t.before} THEN "done" ELSE "run",
            !.blind = @ \/ (due /\ seen = Unknown),
            !.astray = IF due /\ seen = t.before THEN 0 ELSE @,
            !.result = IF due /\ seen \notin {Unknown, t.before} THEN "focus_changed" ELSE @]]
  BY DEF Gap
<1> DEFINE moved == due /\ seen \notin {Unknown, t.before}
           pc == IF moved THEN "done" ELSE "run"
           blind == t.blind \/ (due /\ seen = Unknown)
           astray == IF due /\ seen = t.before THEN 0 ELSE t.astray
           result == IF moved THEN "focus_changed" ELSE t.result
           u == [t EXCEPT !.pc = pc, !.blind = blind, !.astray = astray, !.result = result]
<1>4. turn' = [turn EXCEPT ![n] = u]
  BY <1>3
<1>5. pc \in {"done", "run"} /\ blind \in BOOLEAN
  BY <1>1, TurnFields
<1>6. astray \in Nat
  BY <1>1, TurnFields
<1>7. result \in {"none", "noop", "error", "focus_changed", "ok"}
  BY <1>1, TurnFields
<1>8. /\ u \in InputTurns /\ u.ops = t.ops /\ u.call = t.call /\ u.before = t.before
      /\ u.typed = t.typed /\ u.pc = pc /\ u.blind = blind /\ u.astray = astray
  <2> HIDE DEF t, pc, blind, astray, result
  <2> QED BY <1>1, <1>5, <1>6, <1>7 DEF InputTurns
<1> HIDE DEF u
<1>9. TurnGood(u)
  <2>1. u.pc = IF due /\ seen \notin {Unknown, t.before} THEN "done" ELSE "run"
    BY <1>8
  <2>2. u.blind <=> (t.blind \/ (due /\ seen = Unknown))
    BY <1>8
  <2>3. u.astray = IF due /\ seen = t.before THEN 0 ELSE t.astray
    BY <1>8
  <2> HIDE DEF t, pc, blind, astray
  <2> QED BY <1>1, <1>8, <2>1, <2>2, <2>3, GapGood
<1>10. Held'
  BY <1>1, <1>2, <1>4, StillHeld
<1>11. PointerLands'
  BY <1>1, <1>2, PointerStays
<1>12. u.call \in ToolCalls
  BY <1>1, <1>8
<1> HIDE DEF t
<1> QED BY <1>1, <1>2, <1>4, <1>8, <1>9, <1>10, <1>11, <1>12, OneTurn

\* A call whose script has ended comes back.
LEMMA FinishStep ==
  ASSUME InputConstants, InputInv, NEW n \in Callers, Finish(n)
  PROVE  InputInv'
<1> DEFINE t == turn[n]
<1>1. InputType /\ PointerLands /\ Held /\ wanted \in Int /\ TurnGood(t) /\ t \in InputTurns
      /\ t.pc = "run" /\ t.ops = <<>>
  BY DEF InputInv, InputType, Finish
<1>2. /\ backend' = backend /\ focus' = focus /\ pointer' = pointer /\ wanted' = wanted
      /\ down' = down /\ asked' = asked /\ tainted' = tainted /\ UNCHANGED screenVars
  BY DEF Finish, deviceVars, screenVars
<1>3. PICK seen \in (IF t.call.tool \in Safe /\ t.failed = "no" THEN Answers ELSE {Unknown}) :
        turn' = [turn EXCEPT ![n] = [t EXCEPT
           !.pc = "done",
           !.result = IF t.failed # "no" THEN "error"
                      ELSE IF t.before # Unknown /\ seen \notin {Unknown, t.before}
                      THEN "focus_changed" ELSE "ok"]]
  BY DEF Finish
<1> DEFINE result == IF t.failed # "no" THEN "error"
                     ELSE IF t.before # Unknown /\ seen \notin {Unknown, t.before}
                     THEN "focus_changed" ELSE "ok"
           u == [t EXCEPT !.pc = "done", !.result = result]
<1>4. turn' = [turn EXCEPT ![n] = u]
  BY <1>3
<1>5. result \in {"error", "focus_changed", "ok"} /\ (t.failed # "no" => result = "error")
  OBVIOUS
<1>6. /\ u \in InputTurns /\ u.ops = t.ops /\ u.call = t.call /\ u.before = t.before
      /\ u.typed = t.typed /\ u.pc = "done" /\ u.blind = t.blind /\ u.astray = t.astray
      /\ u.sent = t.sent /\ u.failed = t.failed /\ u.result = result
  <2> HIDE DEF t, result
  <2> QED BY <1>1, <1>5 DEF InputTurns
<1> HIDE DEF u, result
<1>7. Kept(u.ops, u.call) /\ Typing(u.ops, u.call)
  BY <1>1, <1>6 DEF TurnGood
<1>8. TextRefused(u)
  <2> DEFINE one == <<Text(t.call.text, "abort")>>
  <2>1. one # <<>>
    OBVIOUS
  <2>2. TextRefused(t)
    BY <1>1 DEF TurnGood
  <2> QED BY <1>1, <1>5, <1>6, <2>1, <2>2 DEF TextRefused
<1>9. Astray(u)
  BY <1>1, <1>6 DEF TurnGood, Astray
<1>10. TurnGood(u)
  BY <1>6, <1>7, <1>8, <1>9 DEF TurnGood
<1>11. Held'
  BY <1>1, <1>2, <1>4, StillHeld
<1>12. PointerLands'
  BY <1>1, <1>2, PointerStays
<1> HIDE DEF t
<1> QED BY <1>1, <1>2, <1>4, <1>6, <1>10, <1>11, <1>12, OneTurn

\* The focus changes, or nothing does.
LEMMA NoTurnChanges ==
  ASSUME InputInv, UNCHANGED screenVars, turn' = turn, focus' \in Windows,
         down' = down, asked' = asked, tainted' = tainted,
         pointer' = pointer, wanted' = wanted
  PROVE  InputInv'
<1>1. InputType /\ PointerLands /\ Held /\ backend' = backend
  BY DEF InputInv, screenVars
<1>2. InputType'
  BY <1>1 DEF InputType, screenVars
<1>3. \A n \in Callers : TurnGood(turn[n])'
  <2>1. \A t : TurnGood(t)' <=> TurnGood(t)
    BY <1>1, SameTurns
  <2> QED BY <2>1 DEF InputInv
<1>4. PointerLands'
  BY <1>1, PointerStays
<1>5. \A ops, c, i, x : Freed(ops, c, i, x)' <=> Freed(ops, c, i, x)
  BY <1>1, SameScripts
<1>6. Held'
  BY <1>1, <1>5 DEF Held
<1> QED BY <1>2, <1>3, <1>4, <1>6 DEF InputInv

\* Every step keeps the invariant.
LEMMA InputSteps ==
  ASSUME InputConstants, InputInv, [InputNext]_inputVars
  PROVE  InputInv'
<1>1. ASSUME NEW n \in Callers, BeginTool(n) PROVE InputInv'
  BY <1>1, InputBeginStep
<1>2. ASSUME NEW n \in Callers, Operate(n) PROVE InputInv'
  BY <1>2, OperateStep
<1>3. ASSUME NEW n \in Callers, Gap(n) PROVE InputInv'
  BY <1>3, GapStep
<1>4. ASSUME NEW n \in Callers, Finish(n) PROVE InputInv'
  BY <1>4, FinishStep
<1>5. ASSUME NEW w \in Windows, ChangeFocus(w) PROVE InputInv'
  <2>1. /\ UNCHANGED screenVars /\ turn' = turn /\ focus' \in Windows /\ down' = down
        /\ asked' = asked /\ tainted' = tainted /\ pointer' = pointer /\ wanted' = wanted
    BY <1>5 DEF ChangeFocus, deviceVars
  <2> QED BY <2>1, NoTurnChanges
<1>6. CASE UNCHANGED inputVars
  <2>1. /\ UNCHANGED screenVars /\ turn' = turn /\ focus' = focus /\ down' = down
        /\ asked' = asked /\ tainted' = tainted /\ pointer' = pointer /\ wanted' = wanted
    BY <1>6 DEF inputVars, screenVars
  <2>2. focus' \in Windows
    BY <2>1 DEF InputInv, InputType
  <2> QED BY <2>1, <2>2, NoTurnChanges
<1> QED BY <1>1, <1>2, <1>3, <1>4, <1>5, <1>6 DEF InputNext

\* What the invariant says of calls that have come back.
LEMMA InputPromises ==
  ASSUME InputConstants, InputInv
  PROVE  NothingLeftDown /\ TypedWhereMeant /\ PointerLands
<1>1. NothingLeftDown
  <2> SUFFICES ASSUME Quiet PROVE down \subseteq asked \union tainted
    BY DEF NothingLeftDown
  <2>1. \A n \in Callers : turn[n].pc # "run"
    BY DEF Quiet
  <2> QED BY <2>1 DEF InputInv, Held
<1>2. TypedWhereMeant
  <2> SUFFICES ASSUME NEW n \in Callers
               PROVE  /\ (Ended(n, "type_text") /\ ~turn[n].call.delayed
                          /\ NoKeyFor(turn[n].call.text))
                            => turn[n].result = "error" /\ turn[n].sent = 0
                      /\ turn[n].blind \/ turn[n].astray <= CheckEvery
    BY DEF TypedWhereMeant
  <2>1. TextRefused(turn[n]) /\ Astray(turn[n])
    BY DEF InputInv, TurnGood
  <2> QED BY <2>1 DEF TextRefused, Astray, Ended
<1> QED BY <1>1, <1>2 DEF InputInv

\* The invariant of the input tools: every code that is down was asked to stay down, is
\* one of an operation that failed, or is released by a call in flight whatever fails
\* before; every call keeps to its script; the pointer is where a move put it.
THEOREM InputInvariant == InputSpec => []InputInv
<1>1. InputInit => InputInv
  BY InputAssumption, InputStarts
<1>2. InputInv /\ [InputNext]_inputVars => InputInv'
  BY InputAssumption, InputSteps
<1> QED BY <1>1, <1>2, PTL DEF InputSpec

\* No key and no button is left down that no call asked to hold, but for what an
\* operation that failed touched: a drag whose moves fail still lets go of its button,
\* a chord whose key fails of its modifiers.
THEOREM NothingIsLeftDown == InputSpec => []NothingLeftDown
<1>1. InputInv => NothingLeftDown
  BY InputAssumption, InputPromises
<1> QED BY <1>1, InputInvariant, PTL

\* Where characters are looked up, a text with one that has no key sends not one event;
\* and a delayed text sends no more than CheckEvery characters into another window
\* before a check ends it.
THEOREM TextGoesWhereMeant == InputSpec => []TypedWhereMeant
<1>1. InputInv => TypedWhereMeant
  BY InputAssumption, InputPromises
<1> QED BY <1>1, InputInvariant, PTL

\* Where a provider takes the desktop for what it is, a move to a point of an output
\* puts the pointer on that point; no virtual device takes it off the desktop.
THEOREM PointerIsThere == InputSpec => []PointerLands
<1>1. InputInv => PointerLands
  BY InputAssumption, InputPromises
<1> QED BY <1>1, InputInvariant, PTL

-----------------------------------------------------------------------------
(* DetectionLadder: the ladders                                            *)

BackEnds == {"portal-screenshot", "scrot", "wlr-screencopy", "grim",
             "portal-remote-desktop", "xdotool", "wlr-virtual-input", "uinput",
             "hyprctl", "sway-ipc", "wayfire-ipc", "riverctl", "kdotool", "gnome-shell",
             "wlr-toplevel", "wmctrl", "atspi2", "onnx", "cdp", "wlr-layer-shell",
             "xclip", "wl-clipboard"}
SlotNames == {"capture", "input", "window", "ui_automation", "vision", "browser",
              "overlay", "clipboard"}

\* The slots are filled in a fixed order, each once.
LEMMA SlotsInOrder ==
  /\ Slots = SlotNames /\ Len(SlotOrder) = 8 /\ DOMAIN SlotOrder = 1..8
  /\ SlotOrder[1] = "capture" /\ SlotOrder[2] = "input"
  /\ \A i \in 1..8 : SlotOrder[i] \in SlotNames
  /\ \A i, j \in 1..8 : SlotOrder[i] = SlotOrder[j] => i = j
<1>1. Len(SlotOrder) = 8 /\ DOMAIN SlotOrder = 1..8
  BY DEF SlotOrder
<1>2. /\ SlotOrder[1] = "capture" /\ SlotOrder[2] = "input" /\ SlotOrder[3] = "window"
      /\ SlotOrder[4] = "ui_automation" /\ SlotOrder[5] = "vision"
      /\ SlotOrder[6] = "browser" /\ SlotOrder[7] = "overlay" /\ SlotOrder[8] = "clipboard"
  BY DEF SlotOrder
<1>3. \A i \in 1..8 : i = 1 \/ i = 2 \/ i = 3 \/ i = 4 \/ i = 5 \/ i = 6 \/ i = 7 \/ i = 8
  OBVIOUS
<1>4. Slots = {SlotOrder[i] : i \in 1..8}
  BY <1>1 DEF Slots, Range
<1>5. \A i \in 1..8 : SlotOrder[i] \in SlotNames
  BY <1>2, <1>3 DEF SlotNames
<1>6. \A s \in SlotNames : \E i \in 1..8 : SlotOrder[i] = s
  BY <1>2 DEF SlotNames
<1>7. \A i, j \in 1..8 : SlotOrder[i] = SlotOrder[j] => i = j
  BY <1>2, <1>3
<1> QED BY <1>1, <1>2, <1>4, <1>5, <1>6, <1>7

\* Every ladder is a sequence of back ends.
LEMMA LaddersKnown ==
  ASSUME NEW e, NEW s \in SlotNames
  PROVE  Plan(e)[s] \in Seq(BackEnds)
<1>1. /\ <<>> \in Seq(BackEnds)
      /\ \A a \in BackEnds : <<a>> \in Seq(BackEnds)
      /\ \A a, b \in BackEnds : <<a, b>> \in Seq(BackEnds)
      /\ \A a, b, c \in BackEnds : <<a, b, c>> \in Seq(BackEnds)
  OBVIOUS
<1>2. \A rungs \in Seq(BackEnds) : OnDisplay(e, rungs) \in Seq(BackEnds)
  BY <1>1 DEF OnDisplay
<1>3. /\ SessionKind(e) \in {"hyprland", "sway", "wayfire", "river", "kde", "gnome", "other"}
      /\ SessionType(e) \in {"wayland", "x11", "headless"}
  BY DEF SessionKind, SessionType
<1>4. WindowPlan(e) \in Seq(BackEnds)
  <2> DEFINE kind == SessionKind(e)
             type == SessionType(e)
             native == [hyprland |-> "hyprctl", sway |-> "sway-ipc",
                        wayfire |-> "wayfire-ipc", river |-> "riverctl",
                        kde |-> "kdotool", gnome |-> "gnome-shell"]
  <2>1. kind # "other" => native[kind] \in BackEnds
    BY <1>3 DEF BackEnds
  <2>2. "wlr-toplevel" \in BackEnds /\ "wmctrl" \in BackEnds
    BY DEF BackEnds
  <2>3. WindowPlan(e) \in
          {<<native[kind], "wlr-toplevel">>, <<native[kind]>>, <<native[kind], "wmctrl">>,
           <<"wmctrl">>, <<"wlr-toplevel">>, <<>>}
        /\ (kind = "other" => WindowPlan(e) \in {<<"wmctrl">>, <<"wlr-toplevel">>, <<>>})
    BY <1>3 DEF WindowPlan
  <2> HIDE DEF kind, type, native
  <2> QED BY <1>1, <2>1, <2>2, <2>3
<1> DEFINE x11 == SessionType(e) = "x11"
           capture == IF PortalDesktop(e) THEN <<"portal-screenshot">>
                      ELSE IF x11 THEN <<"scrot", "portal-screenshot">>
                      ELSE <<"wlr-screencopy", "grim", "portal-screenshot">>
           input == IF PortalDesktop(e) THEN <<"portal-remote-desktop">>
                    ELSE <<IF x11 THEN "xdotool" ELSE "wlr-virtual-input",
                           "uinput", "portal-remote-desktop">>
           overlay == IF x11 \/ PortalDesktop(e) THEN <<>> ELSE <<"wlr-layer-shell">>
           clipboard == IF x11 THEN <<"xclip">> ELSE <<"wl-clipboard", "xclip">>
<1>5. /\ capture \in Seq(BackEnds) /\ input \in Seq(BackEnds)
      /\ overlay \in Seq(BackEnds) /\ clipboard \in Seq(BackEnds)
      /\ <<"atspi2">> \in Seq(BackEnds) /\ <<"onnx">> \in Seq(BackEnds)
      /\ <<"cdp">> \in Seq(BackEnds)
  <2>1. capture \in {<<"portal-screenshot">>, <<"scrot", "portal-screenshot">>,
                    <<"wlr-screencopy", "grim", "portal-screenshot">>}
    OBVIOUS
  <2>2. input \in {<<"portal-remote-desktop">>,
                  <<"xdotool", "uinput", "portal-remote-desktop">>,
                  <<"wlr-virtual-input", "uinput", "portal-remote-desktop">>}
    OBVIOUS
  <2>3. overlay \in {<<>>, <<"wlr-layer-shell">>}
        /\ clipboard \in {<<"xclip">>, <<"wl-clipboard", "xclip">>}
    OBVIOUS
  <2> HIDE DEF capture, input, overlay, clipboard
  <2>4. /\ "portal-screenshot" \in BackEnds /\ "scrot" \in BackEnds
        /\ "wlr-screencopy" \in BackEnds /\ "grim" \in BackEnds
        /\ "portal-remote-desktop" \in BackEnds /\ "xdotool" \in BackEnds
        /\ "uinput" \in BackEnds /\ "wlr-virtual-input" \in BackEnds
        /\ "wlr-layer-shell" \in BackEnds /\ "xclip" \in BackEnds
        /\ "wl-clipboard" \in BackEnds /\ "atspi2" \in BackEnds
        /\ "onnx" \in BackEnds /\ "cdp" \in BackEnds
    BY DEF BackEnds
  <2>5. capture \in Seq(BackEnds)
    <3>1. <<"portal-screenshot">> \in Seq(BackEnds)
      BY <1>1, <2>4
    <3>2. <<"scrot", "portal-screenshot">> \in Seq(BackEnds)
      BY <1>1, <2>4
    <3>3. <<"wlr-screencopy", "grim", "portal-screenshot">> \in Seq(BackEnds)
      BY <1>1, <2>4
    <3> QED BY <2>1, <3>1, <3>2, <3>3
  <2>6. input \in Seq(BackEnds)
    <3>1. <<"portal-remote-desktop">> \in Seq(BackEnds)
      BY <1>1, <2>4
    <3>2. <<"xdotool", "uinput", "portal-remote-desktop">> \in Seq(BackEnds)
      BY <1>1, <2>4
    <3>3. <<"wlr-virtual-input", "uinput", "portal-remote-desktop">> \in Seq(BackEnds)
      BY <1>1, <2>4
    <3> QED BY <2>2, <3>1, <3>2, <3>3
  <2>7. overlay \in Seq(BackEnds) /\ clipboard \in Seq(BackEnds)
    BY <1>1, <2>3, <2>4
  <2> QED BY <1>1, <2>4, <2>5, <2>6, <2>7
<1>6. /\ Plan(e)["capture"] = OnDisplay(e, capture)
      /\ Plan(e)["input"] = OnDisplay(e, input)
      /\ Plan(e)["window"] = WindowPlan(e)
      /\ Plan(e)["ui_automation"] = OnDisplay(e, <<"atspi2">>)
      /\ Plan(e)["vision"] = OnDisplay(e, <<"onnx">>)
      /\ Plan(e)["browser"] = OnDisplay(e, <<"cdp">>)
      /\ Plan(e)["overlay"] = OnDisplay(e, overlay)
      /\ Plan(e)["clipboard"] = OnDisplay(e, clipboard)
  BY DEF Plan
<1> HIDE DEF capture, input, overlay, clipboard
<1> QED BY <1>2, <1>4, <1>5, <1>6 DEF SlotNames

\* With a display, the portal is the last rung for seeing and for acting.
LEMMA PortalIsARung ==
  ASSUME NEW e, SessionType(e) # "headless"
  PROVE  /\ \E j \in 1..Len(Plan(e)["capture"]) : Plan(e)["capture"][j] = "portal-screenshot"
         /\ \E j \in 1..Len(Plan(e)["input"]) : Plan(e)["input"][j] = "portal-remote-desktop"
<1> DEFINE x11 == SessionType(e) = "x11"
           first == IF x11 THEN "xdotool" ELSE "wlr-virtual-input"
<1>1. /\ Plan(e)["capture"] \in {<<"portal-screenshot">>, <<"scrot", "portal-screenshot">>,
                                 <<"wlr-screencopy", "grim", "portal-screenshot">>}
      /\ Plan(e)["input"] \in {<<"portal-remote-desktop">>,
                               <<first, "uinput", "portal-remote-desktop">>}
  BY DEF Plan, OnDisplay
<1> HIDE DEF first
<1> DEFINE seen == Plan(e)["capture"]
           acted == Plan(e)["input"]
<1> HIDE DEF seen, acted
<1>2. seen \in {<<"portal-screenshot">>, <<"scrot", "portal-screenshot">>,
               <<"wlr-screencopy", "grim", "portal-screenshot">>}
      /\ acted \in {<<"portal-remote-desktop">>, <<first, "uinput", "portal-remote-desktop">>}
  BY <1>1 DEF seen, acted
<1>3. \E j \in 1..Len(seen) : seen[j] = "portal-screenshot"
  <2>1. CASE seen = <<"portal-screenshot">>
    BY <2>1
  <2>2. CASE seen = <<"scrot", "portal-screenshot">>
    <3>1. 2 \in 1..Len(seen) /\ seen[2] = "portal-screenshot"
      BY <2>2
    <3> QED BY <3>1
  <2>3. CASE seen = <<"wlr-screencopy", "grim", "portal-screenshot">>
    <3>1. 3 \in 1..Len(seen) /\ seen[3] = "portal-screenshot"
      BY <2>3
    <3> QED BY <3>1
  <2> QED BY <1>2, <2>1, <2>2, <2>3
<1>4. \E j \in 1..Len(acted) : acted[j] = "portal-remote-desktop"
  <2>1. CASE acted = <<"portal-remote-desktop">>
    BY <2>1
  <2>2. CASE acted = <<first, "uinput", "portal-remote-desktop">>
    <3>1. 3 \in 1..Len(acted) /\ acted[3] = "portal-remote-desktop"
      BY <2>2
    <3> QED BY <3>1
  <2> QED BY <1>2, <2>1, <2>2
<1> QED BY <1>3, <1>4 DEF seen, acted

-----------------------------------------------------------------------------
(* The invariant of the walk                                               *)

\* What is known of the walk's variables.
LadderTyped ==
  /\ slots \in Seq(BackEnds \union {"none"}) /\ Len(slots) <= 8
  /\ names \in Seq(BackEnds) /\ stepped \in Nat
  /\ Detecting => stepped <= Len(Rungs)
  /\ probed \in [SlotNames -> SUBSET BackEnds]
\* The back ends that were tried in vain for a slot that is settled are all those
\* before the one it holds.
Settled ==
  \A i \in 1..Len(slots) :
    FirstOf(Plan(env)[SlotOrder[i]], probed[SlotOrder[i]], slots[i])
\* So it goes for the slot the walk is at; the slots after it wait.
Walking ==
  /\ Detecting => probed[Slot] = {Rungs[j] : j \in 1..stepped}
  /\ \A i \in 1..8 : i > Len(slots) + 1 => probed[SlotOrder[i]] = {}
\* A back end that failed cannot be used, unless it appeared late.
FailedRightly == \A s \in SlotNames : probed[s] \intersect (usable \ Late) = {}
\* The names are those of the filled slots in their order.
Named ==
  /\ Len(names) = Filled(slots, Len(slots))
  /\ \A i \in 1..Len(slots) : slots[i] # "none" => names[Filled(slots, i)] = slots[i]
LadderInv == LadderTyped /\ Settled /\ Walking /\ FailedRightly /\ Named

\* The slots filled among the first ones are counted by a natural number, at most
\* that of all, and at least one where a slot is filled.
LEMMA FilledCounts ==
  ASSUME NEW held, NEW i \in Nat, NEW n \in Nat, i <= n
  PROVE  /\ Filled(held, i) \in Nat /\ Filled(held, i) <= Filled(held, n)
         /\ (i > 0 /\ held[i] # "none") => Filled(held, i) > 0
<1> DEFINE F(k) == {j \in 1..k : held[j] # "none"}
<1>1. F(i) \subseteq F(n) /\ F(n) \subseteq 1..n
  OBVIOUS
<1>2. IsFiniteSet(1..n)
  BY FS_Interval
<1>3. IsFiniteSet(F(n))
  <2> HIDE DEF F
  <2> QED BY <1>1, <1>2, FS_Subset
<1>4. IsFiniteSet(F(i)) /\ Cardinality(F(i)) <= Cardinality(F(n))
  <2> HIDE DEF F
  <2> QED BY <1>1, <1>3, FS_Subset
<1>5. Cardinality(F(i)) \in Nat
  <2> HIDE DEF F
  <2> QED BY <1>4, FS_CardinalityType
<1>6. ASSUME i > 0, held[i] # "none" PROVE Cardinality(F(i)) > 0
  <2>1. i \in F(i)
    BY <1>6
  <2> HIDE DEF F
  <2>2. Cardinality(F(i)) # 0
    BY <1>4, <2>1, FS_EmptySet
  <2> QED BY <1>5, <2>2
<1> QED BY <1>4, <1>5, <1>6 DEF Filled

\* Appending a slot leaves the counts as they were, and adds one if it is filled.
LEMMA FilledGrows ==
  ASSUME NEW held, NEW longer, NEW n \in Nat, NEW m, m = n + 1, NEW b,
         longer[m] = b, \A j \in 1..n : longer[j] = held[j]
  PROVE  /\ \A i \in 0..n : Filled(longer, i) = Filled(held, i)
         /\ Filled(longer, m) = Filled(held, n) + (IF b = "none" THEN 0 ELSE 1)
<1> DEFINE F == {j \in 1..n : held[j] # "none"}
           G == {j \in 1..(n + 1) : longer[j] # "none"}
<1>2. \A i \in 0..n : Filled(longer, i) = Filled(held, i)
  <2>1. ASSUME NEW i \in 0..n
        PROVE  {j \in 1..i : longer[j] # "none"} = {j \in 1..i : held[j] # "none"}
    OBVIOUS
  <2> QED BY <2>1 DEF Filled
<1>3. G = (IF b = "none" THEN F ELSE F \union {n + 1}) /\ n + 1 \notin F
  <2>1. 1..(n + 1) = 1..n \union {n + 1} /\ n + 1 \notin 1..n
    OBVIOUS
  <2> QED BY <2>1
<1>4. IsFiniteSet(F)
  <2>1. IsFiniteSet(1..n) /\ F \subseteq 1..n
    BY FS_Interval
  <2> HIDE DEF F
  <2> QED BY <2>1, FS_Subset
<1>5. Cardinality(G) = Cardinality(F) + (IF b = "none" THEN 0 ELSE 1)
  <2> HIDE DEF F, G
  <2>1. Cardinality(F) \in Nat
    BY <1>4, FS_CardinalityType
  <2>2. Cardinality(F \union {n + 1}) = Cardinality(F) + 1
    BY <1>3, <1>4, FS_AddElement
  <2> QED BY <1>3, <2>1, <2>2
<1> QED BY <1>2, <1>5 DEF Filled

\* The invariant is what the ladders' service needs.
LEMMA LadderEnough == LadderInv => LadderServes
<1> SUFFICES ASSUME LadderInv, ~Detecting PROVE LadderServes
  BY DEF LadderServes
<1>1. Len(slots) = 8 /\ DOMAIN slots = 1..8
  <2>1. Len(slots) \in Nat /\ Len(slots) <= 8 /\ DOMAIN slots = 1..Len(slots)
    BY DEF LadderInv, LadderTyped
  <2>2. ~(Len(slots) < 8)
    BY SlotsInOrder DEF Detecting
  <2> QED BY <2>1, <2>2
<1>2. \A i \in DOMAIN SlotOrder :
        FirstOf(Plan(env)[SlotOrder[i]], probed[SlotOrder[i]], slots[i])
  BY <1>1, SlotsInOrder DEF LadderInv, Settled
<1>3. Chosen("capture") = slots[1] /\ Chosen("input") = slots[2]
  BY SlotsInOrder DEF Chosen
<1>4. ASSUME SessionType(env) # "headless",
             {"portal-screenshot", "portal-remote-desktop"} \subseteq usable \ Late
      PROVE  slots[1] # "none" /\ slots[2] # "none"
  <2>1. ASSUME NEW i \in 1..8, slots[i] = "none",
               NEW b \in usable \ Late,
               \E j \in 1..Len(Plan(env)[SlotOrder[i]]) : Plan(env)[SlotOrder[i]][j] = b
        PROVE  FALSE
    <3> DEFINE rungs == Plan(env)[SlotOrder[i]]
    <3>1. probed[SlotOrder[i]] = {rungs[j] : j \in 1..Len(rungs)}
      BY <1>2, <2>1, SlotsInOrder DEF FirstOf
    <3>2. b \in probed[SlotOrder[i]]
      BY <2>1, <3>1
    <3>3. SlotOrder[i] \in SlotNames
      BY SlotsInOrder
    <3> QED BY <3>2, <3>3 DEF LadderInv, FailedRightly
  <2>2. 1 \in 1..8 /\ 2 \in 1..8
    OBVIOUS
  <2>3. slots[1] # "none"
    BY <1>4, <2>1, <2>2, PortalIsARung, SlotsInOrder
  <2>4. slots[2] # "none"
    BY <1>4, <2>1, <2>2, PortalIsARung, SlotsInOrder
  <2> QED BY <2>3, <2>4
<1>5. Len(names) = Filled(slots, Len(slots))
      /\ \A i \in DOMAIN slots : slots[i] # "none" => names[Filled(slots, i)] = slots[i]
  BY <1>1 DEF LadderInv, Named
<1> QED BY <1>2, <1>3, <1>4, <1>5 DEF LadderServes

\* The walk begins well.
LEMMA LadderStarts == LadderInit => LadderInv
<1> SUFFICES ASSUME LadderInit PROVE LadderInv
  OBVIOUS
<1>1. /\ slots = <<>> /\ names = <<>> /\ stepped = 0 /\ Len(slots) = 0 /\ Len(names) = 0
      /\ probed = [s \in SlotNames |-> {}]
  BY SlotsInOrder DEF LadderInit
<1>2. LadderTyped
  <2>1. Detecting => Slot \in SlotNames
    BY <1>1, SlotsInOrder DEF Slot
  <2>2. Detecting => Rungs \in Seq(BackEnds)
    BY <2>1, LaddersKnown DEF Rungs
  <2> QED BY <1>1, <2>2 DEF LadderTyped
<1>3. Settled
  BY <1>1 DEF Settled
<1>4. Walking
  BY <1>1, SlotsInOrder DEF Walking, Slot
<1>5. FailedRightly
  BY <1>1 DEF FailedRightly
<1>6. Named
  <2>1. {j \in 1..0 : slots[j] # "none"} = {}
    OBVIOUS
  <2>2. Filled(slots, 0) = 0
    BY <2>1, FS_EmptySet DEF Filled
  <2> QED BY <1>1, <2>2 DEF Named
<1> QED BY <1>2, <1>3, <1>4, <1>5, <1>6 DEF LadderInv

-----------------------------------------------------------------------------
(* The steps of the walk                                                   *)

\* Where the walk is, and what its ladder is.
LEMMA WalkAt ==
  ASSUME LadderInv, Detecting
  PROVE  /\ Len(slots) \in 0..7 /\ Len(slots) + 1 \in 1..8
         /\ Slot = SlotOrder[Len(slots) + 1] /\ Slot \in SlotNames
         /\ Rungs = Plan(env)[Slot] /\ Rungs \in Seq(BackEnds)
         /\ stepped \in 0..Len(Rungs)
<1>1. Len(slots) \in 0..7 /\ Len(slots) + 1 \in 1..8
  <2>1. Len(slots) \in Nat
    BY DEF LadderInv, LadderTyped
  <2>2. Len(slots) < 8
    BY SlotsInOrder DEF Detecting
  <2>3. PICK m \in Nat : m = Len(slots)
    BY <2>1
  <2>4. m < 8
    BY <2>2, <2>3
  <2>5. m \in 0..7 /\ m + 1 \in 1..8
    BY <2>4
  <2> QED BY <2>3, <2>5
<1>2. Slot = SlotOrder[Len(slots) + 1] /\ Slot \in SlotNames
  BY <1>1, SlotsInOrder DEF Slot
<1>3. Rungs = Plan(env)[Slot] /\ Rungs \in Seq(BackEnds)
  BY <1>2, LaddersKnown DEF Rungs
<1>4. stepped \in 0..Len(Rungs)
  BY <1>3 DEF LadderInv, LadderTyped
<1> QED BY <1>1, <1>2, <1>3, <1>4

\* A slot is settled: with the rung that answered, or with none at the ladder's end.
LEMMA SlotSettles ==
  ASSUME LadderInv, Detecting, NEW b, NEW n \in Nat, n = Len(slots),
         IF b = "none" THEN stepped = Len(Rungs)
         ELSE stepped < Len(Rungs) /\ b = Rungs[stepped + 1],
         slots' = Append(slots, b),
         names' = IF b = "none" THEN names ELSE Append(names, b),
         stepped' = 0, UNCHANGED <<probed, env, usable>>
  PROVE  LadderInv'
<1>1. /\ n \in 0..7 /\ n + 1 \in 1..8 /\ Slot = SlotOrder[n + 1] /\ Slot \in SlotNames
      /\ Rungs = Plan(env)[Slot] /\ Rungs \in Seq(BackEnds) /\ stepped \in 0..Len(Rungs)
  BY WalkAt
<1>2. b \in BackEnds \union {"none"} /\ (b # "none" => b \in BackEnds)
  BY <1>1
<1>3. /\ slots \in Seq(BackEnds \union {"none"}) /\ Len(slots') = n + 1
      /\ slots' \in Seq(BackEnds \union {"none"})
      /\ slots'[n + 1] = b /\ \A i \in 1..n : slots'[i] = slots[i]
  BY <1>2 DEF LadderInv, LadderTyped
<1>4. LadderTyped'
  <2>1. Detecting' => Rungs' \in Seq(BackEnds)
    <3>1. Detecting' => Slot' \in SlotNames
      <4>1. Detecting' => n + 2 \in 1..8
        BY <1>1, <1>3, SlotsInOrder DEF Detecting
      <4>2. Slot' = SlotOrder[n + 2]
        BY <1>1, <1>3 DEF Slot
      <4> QED BY <4>1, <4>2, SlotsInOrder
    <3>2. Rungs' = Plan(env')[Slot']
      BY DEF Rungs
    <3> QED BY <3>1, <3>2, LaddersKnown
  <2>2. names' \in Seq(BackEnds)
    BY <1>2 DEF LadderInv, LadderTyped
  <2>3. probed' \in [SlotNames -> SUBSET BackEnds] /\ stepped' \in Nat
    BY DEF LadderInv, LadderTyped
  <2>4. Detecting' => stepped' <= Len(Rungs')
    BY <2>1
  <2>5. Len(slots') <= 8
    BY <1>1, <1>3
  <2> HIDE DEF Detecting, Rungs
  <2> QED BY <1>3, <2>2, <2>3, <2>4, <2>5 DEF LadderTyped
<1>5. Settled'
  <2>1. \A i \in 1..n : FirstOf(Plan(env)[SlotOrder[i]], probed[SlotOrder[i]], slots[i])
    BY DEF LadderInv, Settled
  <2>2. FirstOf(Rungs, probed[Slot], b)
    <3>1. probed[Slot] = {Rungs[j] : j \in 1..stepped}
      BY DEF LadderInv, Walking
    <3> QED BY <1>1, <3>1 DEF FirstOf
  <2>3. \A i \in 1..(n + 1) :
          FirstOf(Plan(env)[SlotOrder[i]], probed[SlotOrder[i]], slots'[i])
    <3>1. ASSUME NEW i \in 1..(n + 1)
          PROVE  FirstOf(Plan(env)[SlotOrder[i]], probed[SlotOrder[i]], slots'[i])
      <4>1. CASE i \in 1..n
        BY <1>3, <2>1, <4>1
      <4>2. CASE i = n + 1
        BY <1>1, <1>3, <2>2, <4>2
      <4> QED BY <4>1, <4>2
    <3> QED BY <3>1
  <2>4. Len(slots)' = n + 1
    BY <1>3
  <2> QED BY <2>3, <2>4 DEF Settled
<1>6. Walking'
  <2>1. \A i \in 1..8 : i > n + 1 => probed'[SlotOrder[i]] = {}
    BY <1>1 DEF LadderInv, Walking
  <2>2. Detecting' => n + 2 \in 1..8 /\ Slot' = SlotOrder[n + 2]
    BY <1>1, <1>3, SlotsInOrder DEF Detecting, Slot
  <2>3. {Rungs'[j] : j \in 1..stepped'} = {}
    OBVIOUS
  <2>4. Detecting' => probed'[Slot'] = {}
    <3>1. n + 2 > n + 1
      OBVIOUS
    <3> HIDE DEF Slot, Detecting
    <3> QED BY <2>1, <2>2, <3>1
  <2>5. Len(slots)' = n + 1
    BY <1>3
  <2> QED BY <2>1, <2>3, <2>4, <2>5 DEF Walking
<1>7. FailedRightly'
  BY DEF LadderInv, FailedRightly
<1>8. Named'
  <2>1. PICK held, told : held = slots' /\ told = names'
    OBVIOUS
  <2>2. /\ Len(names) = Filled(slots, n) /\ names \in Seq(BackEnds)
        /\ \A i \in 1..n : slots[i] # "none" => names[Filled(slots, i)] = slots[i]
    BY DEF LadderInv, LadderTyped, Named
  <2>3. /\ Len(told) = Filled(slots, n) + (IF b = "none" THEN 0 ELSE 1)
        /\ \A c \in 1..Len(names) : told[c] = names[c]
        /\ b # "none" => told[Filled(slots, n) + 1] = b
    BY <1>2, <2>1, <2>2
  <2>4. held[n + 1] = b /\ (\A i \in 1..n : held[i] = slots[i]) /\ Len(held) = n + 1
    BY <1>3, <2>1
  <2>5. SUFFICES /\ Len(told) = Filled(held, n + 1)
                 /\ \A i \in 1..(n + 1) : held[i] # "none" => told[Filled(held, i)] = held[i]
    BY <2>1, <2>4 DEF Named
  <2>6. /\ \A i \in 0..n : Filled(held, i) = Filled(slots, i)
        /\ Filled(held, n + 1) = Filled(slots, n) + (IF b = "none" THEN 0 ELSE 1)
    <3>1. PICK m : m = n + 1
      OBVIOUS
    <3>2. held[m] = b /\ \A j \in 1..n : held[j] = slots[j]
      BY <2>4, <3>1
    <3>3. /\ \A i \in 0..n : Filled(held, i) = Filled(slots, i)
          /\ Filled(held, m) = Filled(slots, n) + (IF b = "none" THEN 0 ELSE 1)
      BY <3>1, <3>2, FilledGrows
    <3> QED BY <3>1, <3>3
  <2>7. ASSUME NEW i \in 1..n, slots[i] # "none" PROVE told[Filled(slots, i)] = slots[i]
    <3>1. i \in Nat /\ i <= n /\ i > 0
      OBVIOUS
    <3>2. /\ Filled(slots, i) \in Nat /\ Filled(slots, i) <= Filled(slots, n)
          /\ Filled(slots, i) > 0
      BY <2>7, <3>1, FilledCounts
    <3>3. Filled(slots, i) \in 1..Len(names)
      BY <2>2, <3>2
    <3> QED BY <2>2, <2>3, <2>7, <3>3
  <2>8. ASSUME NEW i \in 1..(n + 1), held[i] # "none" PROVE told[Filled(held, i)] = held[i]
    <3>1. CASE i \in 1..n
      <4>1. held[i] = slots[i] /\ Filled(held, i) = Filled(slots, i)
        BY <2>4, <2>6, <3>1
      <4> QED BY <2>7, <2>8, <3>1, <4>1
    <3>2. CASE i = n + 1
      <4>1. held[i] = b /\ b # "none"
        BY <2>4, <2>8, <3>2
      <4>2. Filled(held, i) = Filled(slots, n) + 1
        BY <2>6, <3>2, <4>1
      <4> QED BY <2>3, <4>1, <4>2
    <3> QED BY <3>1, <3>2
  <2> QED BY <2>3, <2>6, <2>8
<1> QED BY <1>4, <1>5, <1>6, <1>7, <1>8 DEF LadderInv

\* A rung fails its probe.
LEMMA RungFails ==
  ASSUME LadderInv, Detecting, stepped < Len(Rungs), NEW b, b = Rungs[stepped + 1],
         b \notin usable, stepped' = stepped + 1,
         probed' = [probed EXCEPT ![Slot] = @ \union {b}],
         UNCHANGED <<slots, names, env, usable>>
  PROVE  LadderInv'
<1>1. /\ Len(slots) \in 0..7 /\ Len(slots) + 1 \in 1..8 /\ Slot = SlotOrder[Len(slots) + 1]
      /\ Slot \in SlotNames /\ Rungs \in Seq(BackEnds) /\ stepped \in 0..Len(Rungs)
      /\ b \in BackEnds
  <2>1. /\ Len(slots) \in 0..7 /\ Len(slots) + 1 \in 1..8
        /\ Slot = SlotOrder[Len(slots) + 1] /\ Slot \in SlotNames
        /\ Rungs \in Seq(BackEnds) /\ stepped \in 0..Len(Rungs)
    BY WalkAt
  <2> QED BY <2>1
<1>2. /\ Slot' = Slot /\ Rungs' = Rungs /\ Detecting'
      /\ probed \in [SlotNames -> SUBSET BackEnds]
  BY DEF Slot, Rungs, Detecting, LadderInv, LadderTyped
<1>3. /\ probed' \in [SlotNames -> SUBSET BackEnds] /\ probed'[Slot] = probed[Slot] \union {b}
      /\ \A s \in SlotNames : s # Slot => probed'[s] = probed[s]
  BY <1>1, <1>2
<1>4. \A i \in 1..8 : i # Len(slots) + 1 => probed'[SlotOrder[i]] = probed[SlotOrder[i]]
  <2>1. \A i \in 1..8 : i # Len(slots) + 1 => SlotOrder[i] # Slot /\ SlotOrder[i] \in SlotNames
    BY <1>1, SlotsInOrder
  <2> QED BY <1>3, <2>1
<1>5. LadderTyped'
  BY <1>1, <1>2, <1>3 DEF LadderInv, LadderTyped
<1>6. Settled'
  <2>1. \A i \in 1..Len(slots) : i \in 1..8 /\ i # Len(slots) + 1
    BY <1>1
  <2>2. \A i \in 1..Len(slots) : probed'[SlotOrder[i]] = probed[SlotOrder[i]]
    BY <1>4, <2>1
  <2> QED BY <2>2 DEF LadderInv, Settled
<1>7. Walking'
  <2>1. \A i \in 1..8 : i > Len(slots) + 1 => probed'[SlotOrder[i]] = {}
    <3>1. \A i \in 1..8 : i > Len(slots) + 1 => i # Len(slots) + 1
      BY <1>1
    <3> QED BY <1>4, <3>1 DEF LadderInv, Walking
  <2>2. probed[Slot] = {Rungs[j] : j \in 1..stepped}
    BY DEF LadderInv, Walking
  <2>3. {Rungs[j] : j \in 1..(stepped + 1)} = {Rungs[j] : j \in 1..stepped} \union {b}
    <3>1. 1..(stepped + 1) = 1..stepped \union {stepped + 1}
      BY <1>1
    <3> QED BY <3>1
  <2>4. probed'[Slot'] = {Rungs'[j] : j \in 1..stepped'}
    BY <1>2, <1>3, <2>2, <2>3
  <2> QED BY <2>1, <2>4 DEF Walking
<1>8. FailedRightly'
  BY <1>1, <1>3 DEF LadderInv, FailedRightly
<1>9. Named'
  BY DEF LadderInv, Named, Filled
<1> QED BY <1>5, <1>6, <1>7, <1>8, <1>9 DEF LadderInv

\* A service appears.
LEMMA AppearsHolds ==
  ASSUME LadderInv, NEW b \in Late, usable' = usable \union {b},
         UNCHANGED <<env, stepped, slots, names, probed>>
  PROVE  LadderInv'
<1>1. LadderTyped' /\ Settled' /\ Walking'
  <2>1. Detecting' = Detecting /\ Rungs' = Rungs /\ Slot' = Slot
    BY DEF Detecting, Rungs, Slot
  <2>2. LadderTyped'
    BY <2>1 DEF LadderInv, LadderTyped
  <2>3. Settled'
    BY DEF LadderInv, Settled
  <2>4. Walking'
    BY <2>1 DEF LadderInv, Walking
  <2> QED BY <2>2, <2>3, <2>4
<1>2. FailedRightly'
  BY DEF LadderInv, FailedRightly
<1>3. Named'
  BY DEF LadderInv, Named, Filled
<1> QED BY <1>1, <1>2, <1>3 DEF LadderInv

\* Every step of the walk keeps the invariant.
LEMMA LadderSteps ==
  ASSUME LadderInv, [LadderNext]_ladderVars
  PROVE  LadderInv'
<1>1. CASE ProbeRung
  <2> DEFINE rung == Rungs[stepped + 1]
  <2>1. /\ Detecting /\ stepped < Len(Rungs) /\ UNCHANGED <<env, usable>>
        /\ IF rung \in usable
           THEN /\ slots' = Append(slots, rung) /\ names' = Append(names, rung)
                /\ stepped' = 0 /\ UNCHANGED probed
           ELSE /\ stepped' = stepped + 1 /\ UNCHANGED <<slots, names>>
                /\ probed' = [probed EXCEPT ![Slot] = @ \union {rung}]
    BY <1>1 DEF ProbeRung
  <2>2. Len(slots) \in Nat /\ rung \in BackEnds
    BY <2>1, WalkAt
  <2>3. rung # "none"
    BY <2>2 DEF BackEnds
  <2> HIDE DEF rung
  <2>4. PICK n \in Nat : n = Len(slots)
    BY <2>2
  <2>5. PICK b : b = rung
    OBVIOUS
  <2>6. CASE rung \in usable
    BY <2>1, <2>3, <2>4, <2>5, <2>6, SlotSettles DEF rung
  <2>7. CASE rung \notin usable
    BY <2>1, <2>5, <2>7, RungFails DEF rung
  <2> QED BY <2>6, <2>7
<1>2. CASE LeaveSlotEmpty
  <2>1. /\ Detecting /\ stepped = Len(Rungs) /\ slots' = Append(slots, "none")
        /\ stepped' = 0 /\ UNCHANGED <<env, usable, names, probed>>
    BY <1>2 DEF LeaveSlotEmpty
  <2>2. PICK n \in Nat : n = Len(slots)
    BY <2>1, WalkAt
  <2> QED BY <2>1, <2>2, SlotSettles
<1>3. ASSUME NEW b \in Late, BackendAppears(b) PROVE LadderInv'
  BY <1>3, AppearsHolds DEF BackendAppears
<1>4. CASE UNCHANGED ladderVars
  <2>1. UNCHANGED <<env, usable, stepped, slots, names, probed>>
    BY <1>4 DEF ladderVars
  <2>2. LadderTyped'
    BY <2>1 DEF LadderInv, LadderTyped, Detecting, Rungs, Slot
  <2>3. Settled'
    BY <2>1 DEF LadderInv, Settled
  <2>4. Walking'
    BY <2>1 DEF LadderInv, Walking, Detecting, Rungs, Slot
  <2>5. FailedRightly' /\ Named'
    BY <2>1 DEF LadderInv, FailedRightly, Named
  <2> QED BY <2>2, <2>3, <2>4, <2>5 DEF LadderInv
<1> QED BY <1>1, <1>2, <1>3, <1>4 DEF LadderNext

\* For any environments, any back ends that answer and any that appear meanwhile:
\* every slot gets the first back end of its ladder that answered when it was asked,
\* and the names shown are those of the back ends in the slots.
THEOREM LaddersServe == LadderSpec => []LadderServes
<1>1. LadderInit => LadderInv
  BY LadderStarts
<1>2. LadderInv /\ [LadderNext]_ladderVars => LadderInv'
  BY LadderSteps
<1>3. LadderInv => LadderServes
  BY LadderEnough
<1> QED BY <1>1, <1>2, <1>3, PTL DEF LadderSpec

-----------------------------------------------------------------------------
(* HighlightOverlay: what the client makes of the outputs                  *)

OutputModes == [width: Nat \ {0}, current: BOOLEAN]
RealOutputs == [x: Int, modes: Seq(OutputModes), scale: Nat \ {0}, logical: Nat]
OutputInfos == [x: {0}, width: Nat, scale: {1}]

\* Hearing of the modes of an output goes from mode to mode.
LEMMA ModesTold ==
  ASSUME NEW modes \in Seq(OutputModes)
  PROVE  \E f : /\ f[0] = Unheard
                /\ FoldLeft(ModeTold, Unheard, modes) = f[Len(modes)]
                /\ \A k \in 1..Len(modes) : f[k] = ModeTold(f[k - 1], modes[k])
<1> DEFINE A == OutputInfos
           C == OutputModes
           n == Len(modes)
           D == 1..n
           step == [x \in A \X C |-> ModeTold(x[1], x[2])]
           Iter(g) == [T \in SUBSET DOMAIN modes |->
                         IF T = {} THEN Unheard
                         ELSE LET x == Max(T) IN ModeTold(g[T \ {x}], modes[x])]
           iter == CHOOSE g : g = Iter(g)
<1>1. n \in Nat /\ DOMAIN modes = D /\ \A i \in D : modes[i] \in C
  OBVIOUS
<1>2. Unheard \in A
  BY DEF Unheard, OutputInfos
<1>3. step \in [A \X C -> A]
  <2>1. \A a \in A, c \in C : ModeTold(a, c) \in A
    BY DEF ModeTold, OutputInfos, OutputModes
  <2> QED BY <2>1
<1>4. \A a \in A, c \in C : step[<<a, c>>] = ModeTold(a, c)
  OBVIOUS
<1> HIDE DEF step, A, C
<1>5. PICK g \in [SUBSET D -> A] : FoldsBy(g, step, Unheard, modes)
  <2>1. modes \in Seq(C)
    BY DEF C
  <2> QED BY <1>2, <1>3, <2>1, FoldsExist
<1>6. ASSUME NEW T \in SUBSET D, T # {} PROVE Max(T) \in T
  <2>1. IsFiniteSet(T) /\ T \in SUBSET Int
    <3>1. IsFiniteSet(D)
      BY <1>1, FS_Interval
    <3>2. IsFiniteSet(T)
      BY <3>1, FS_Subset
    <3> QED BY <3>2
  <2> QED BY <1>6, <2>1, ExtremesProperties
<1>7. g = Iter(g)
  <2>1. ASSUME NEW T \in SUBSET D
        PROVE  g[T] = IF T = {} THEN Unheard ELSE ModeTold(g[T \ {Max(T)}], modes[Max(T)])
    <3>1. g[T] = IF T = {} THEN Unheard ELSE step[<<g[T \ {Max(T)}], modes[Max(T)]>>]
      BY <1>5 DEF FoldsBy
    <3>2. T # {} => g[T \ {Max(T)}] \in A /\ modes[Max(T)] \in C
      BY <1>1, <1>5, <1>6
    <3> QED BY <1>4, <3>1, <3>2
  <2> QED BY <1>1, <1>5, <2>1
<1>8. iter = Iter(iter)
  <2> HIDE DEF Iter
  <2> QED BY <1>7
<1>9. FoldLeft(ModeTold, Unheard, modes) = iter[D]
  BY <1>1 DEF FoldLeft, MapThenFoldSet
<1> HIDE DEF iter
<1> DEFINE f == [k \in 0..n |-> iter[1..k]]
<1>10. f[0] = Unheard /\ f[n] = iter[D]
  <2>1. 1..0 = {} /\ 1..0 \in SUBSET D
    OBVIOUS
  <2> QED BY <1>1, <1>8, <2>1
<1>11. ASSUME NEW k \in 1..n PROVE f[k] = ModeTold(f[k - 1], modes[k])
  <2>1. /\ 1..k \in SUBSET (1..n) /\ 1..k # {}
        /\ Max(1..k) = k /\ (1..k) \ {k} = 1..(k - 1)
    BY <1>1, LastPlace
  <2>2. iter[1..k] = ModeTold(iter[1..(k - 1)], modes[k])
    <3> DEFINE T == 1..k
    <3> HIDE DEF T
    <3>1. T \in SUBSET DOMAIN modes /\ T # {}
      BY <1>1, <2>1 DEF T
    <3>2. iter[T] = ModeTold(iter[T \ {Max(T)}], modes[Max(T)])
      BY <1>8, <3>1
    <3> QED BY <2>1, <3>2 DEF T
  <2> QED BY <1>1, <2>2
<1> HIDE DEF f
<1> QED BY <1>9, <1>10, <1>11

\* An output whose current modes agree with what it shows is heard of as wide as it is.
LEMMA SpanTold ==
  ASSUME NEW out \in RealOutputs, ToldAsShown(out)
  PROVE  Span(Told(out)) = out.logical /\ Told(out).x = out.x
<1> DEFINE modes == out.modes
           n == Len(modes)
<1>1. modes \in Seq(OutputModes) /\ n \in Nat /\ \A i \in 1..n : modes[i] \in OutputModes
  BY DEF RealOutputs
<1>2. PICK f : /\ f[0] = Unheard /\ FoldLeft(ModeTold, Unheard, modes) = f[n]
               /\ \A k \in 1..n : f[k] = ModeTold(f[k - 1], modes[k])
  BY <1>1, ModesTold
<1> DEFINE Good(k) ==
             /\ f[k] \in OutputInfos
             /\ k > 0 => f[k].width # 0
             /\ \A j \in 1..k : modes[j].current =>
                  \E i \in 1..k : modes[i].current /\ f[k].width = modes[i].width
           K == {k \in 0..n : Good(k)}
<1>3. 0 \in K
  BY <1>1, <1>2 DEF Unheard, OutputInfos
<1>4. ASSUME NEW k \in 0..(n - 1), k \in K PROVE k + 1 \in K
  <2> DEFINE m == k + 1
  <2>1. m \in 1..n /\ m - 1 = k /\ m > 0 /\ 1..m = (1..k) \union {m} /\ Good(k) /\ k \in 0..n
    BY <1>1, <1>4
  <2>2. f[m] = ModeTold(f[k], modes[m]) /\ modes[m] \in OutputModes
    BY <1>1, <1>2, <2>1
  <2> HIDE DEF m, modes, n
  <2>3. f[m] \in OutputInfos /\ f[m].width # 0
    BY <2>1, <2>2 DEF ModeTold, OutputInfos, OutputModes
  <2>4. CASE modes[m].current
    <3>1. f[m].width = modes[m].width
      BY <2>1, <2>2, <2>4 DEF ModeTold, OutputInfos
    <3> QED BY <2>1, <2>3, <2>4, <3>1 DEF m
  <2>5. CASE ~modes[m].current
    <3>1. ASSUME NEW j \in 1..m, modes[j].current
          PROVE  \E i \in 1..m : modes[i].current /\ f[m].width = modes[i].width
      <4>1. j \in 1..k /\ k > 0
        BY <2>1, <2>5, <3>1
      <4>2. f[k].width # 0
        BY <2>1, <4>1
      <4>3. f[m].width = f[k].width
        BY <2>2, <2>5, <4>2 DEF ModeTold
      <4>4. PICK i \in 1..k : modes[i].current /\ f[k].width = modes[i].width
        BY <2>1, <3>1, <4>1
      <4> QED BY <2>1, <4>3, <4>4
    <3> QED BY <2>1, <2>3, <3>1 DEF m
  <2> QED BY <2>4, <2>5
<1>5. Good(n)
  <2>1. \A k \in 0..n : k \in K
    <3> HIDE DEF K, n
    <3> QED BY <1>1, <1>3, <1>4, UpTo
  <2> QED BY <1>1, <2>1
<1>6. f[n] \in OutputInfos /\ f[n].width \div out.scale = out.logical
  <2>1. PICK j \in 1..n : modes[j].current
    BY <1>1 DEF ToldAsShown
  <2>2. PICK i \in 1..n : modes[i].current /\ f[n].width = modes[i].width
    BY <1>5, <2>1
  <2>3. modes[i].width \div out.scale = out.logical
    BY <1>1, <2>2 DEF ToldAsShown
  <2> QED BY <1>5, <2>2, <2>3
<1> HIDE DEF Good, K
<1>7. Told(out) = [f[n] EXCEPT !.x = out.x, !.scale = out.scale]
  BY <1>2 DEF Told
<1>8. Told(out).width = f[n].width /\ Told(out).scale = out.scale /\ Told(out).x = out.x
  BY <1>6, <1>7 DEF OutputInfos
<1>9. AtLeast(out.scale, 1) = out.scale
  BY DEF AtLeast, RealOutputs
<1> QED BY <1>6, <1>8, <1>9 DEF Span

\* An output that was not heard of holds no place.
LEMMA UnheardHolds == ASSUME NEW at PROVE ~Holds(Unheard, at)
<1>1. Span(Unheard) = 0
  BY DEF Span, Unheard, AtLeast
<1> QED BY <1>1 DEF Holds

\* One that tells the truth holds the places that lie within it.
LEMMA TrueHolds ==
  ASSUME NEW out \in RealOutputs, ToldAsShown(out), NEW at \in Int
  PROVE  Holds(Told(out), at) <=> (out.x <= at /\ at < out.x + out.logical)
<1>1. Span(Told(out)) = out.logical /\ Told(out).x = out.x
  BY SpanTold
<1>2. out.x \in Int /\ out.logical \in Nat
  BY DEF RealOutputs
<1> QED BY <1>1, <1>2 DEF Holds

-----------------------------------------------------------------------------
(* The invariant of a highlight                                            *)

\* The steps of a call between its request and its end.
Underway == {"connect", "outputs", "create", "configure", "hold"}

HighlightTyped ==
  /\ display \in Displays /\ plugged \subseteq DOMAIN display
  /\ phase \in Underway \union {"idle", "over"}
  /\ request.x \in Int
  /\ phase \in Underway => request.w \in Int /\ request.duration \in Int
  /\ left \in Int /\ shown \in Int
\* What is known of an output is what it told of itself, unless it had gone by then.
Heard ==
  /\ phase \in {"outputs", "create", "configure", "hold"} => DOMAIN infos = DOMAIN display
  /\ phase = "outputs" => \A i \in DOMAIN display: infos[i] = Unheard
  /\ phase \in {"create", "configure", "hold"} =>
       \A i \in DOMAIN display:
         infos[i] = Told(display[i]) \/ (infos[i] = Unheard /\ i \notin plugged)
\* The surface is where the outputs that are known put it, and what is on the
\* screen is drawn on it.
Placed ==
  /\ phase \in {"configure", "hold"} => surface = Place(infos, request)
  /\ phase = "hold" => acked
  /\ screen # Nowhere => phase = "hold" /\ screen = Draw(surface)
\* What is left of the time and what has passed make the time asked for.
Timed ==
  /\ phase \in {"idle", "connect", "outputs", "create", "configure"} => shown = 0
  /\ phase = "hold" => shown + left = request.duration
  /\ answer = "highlighted" => phase = "over" /\ (closed \/ shown = request.duration)
HighlightInv == HighlightTyped /\ Heard /\ Placed /\ Timed

\* The invariant is what a highlight's honesty needs.
LEMMA HighlightEnough ==
  ASSUME OutputsAreReal, NowhereIsApart, HighlightInv
  PROVE  HighlightHonest
<1>1. screen # Nowhere => (phase = "hold" /\ acked)
  BY DEF HighlightInv, Placed
<1>2. (answer = "highlighted" /\ ~closed) => shown = request.duration
  BY DEF HighlightInv, Timed
<1>3. ASSUME screen # Nowhere, PlainOutputs
      PROVE  IF screen.output = Nowhere
             THEN \A i \in plugged: ~Within(i, Centre(request))
             ELSE /\ Within(screen.output, Centre(request))
                  /\ display[screen.output].x + screen.margin
                       = AtLeast(request.x, display[screen.output].x)
                  /\ screen.width = request.w
  <2> DEFINE at == Centre(request)
             fit == {i \in DOMAIN infos: Holds(infos[i], at)}
             least == CHOOSE j \in fit: \A k \in fit: j <= k
  <2>1. /\ phase = "hold" /\ screen = Draw(surface) /\ surface = Place(infos, request)
        /\ DOMAIN infos = DOMAIN display /\ plugged \subseteq DOMAIN display
        /\ \A i \in DOMAIN display:
             infos[i] = Told(display[i]) \/ (infos[i] = Unheard /\ i \notin plugged)
    BY <1>3 DEF HighlightInv, HighlightTyped, Heard, Placed
  <2>2. at \in Int /\ request.x \in Int
    BY <2>1 DEF HighlightInv, HighlightTyped, Underway, Centre
  <2>3. /\ display \in Seq(RealOutputs) /\ DOMAIN display \subseteq Nat
        /\ \A i \in DOMAIN display: display[i] \in RealOutputs /\ ToldAsShown(display[i])
    <3>1. display \in Seq(RealOutputs)
      BY DEF HighlightInv, HighlightTyped, OutputsAreReal, RealOutputs, OutputModes
    <3>2. \A i \in DOMAIN display: ToldAsShown(display[i])
      BY <1>3 DEF PlainOutputs
    <3> QED BY <3>1, <3>2
  <2> HIDE DEF at
  <2>4. \A i \in DOMAIN display:
          Holds(Told(display[i]), at) <=> Within(i, at)
    BY <2>2, <2>3, TrueHolds DEF Within
  <2>5. screen.output = surface.output /\ screen.margin = surface.margin
        /\ screen.width = request.w
    BY <2>1 DEF Draw
  <2>6. surface = IF fit = {} THEN [output |-> Nowhere, margin |-> AtLeast(request.x, 0)]
                  ELSE [output |-> least, margin |-> AtLeast(request.x - infos[least].x, 0)]
    BY <2>1 DEF Place, at
  <2>7. CASE fit = {}
    <3>1. screen.output = Nowhere
      BY <2>5, <2>6, <2>7
    <3>2. ASSUME NEW i \in plugged PROVE ~Within(i, at)
      <4>1. i \in DOMAIN display /\ infos[i] = Told(display[i]) /\ ~Holds(infos[i], at)
        BY <2>1, <2>7
      <4> QED BY <2>4, <4>1
    <3> QED BY <3>1, <3>2 DEF at
  <2>8. CASE fit # {}
    <3>1. least \in fit
      <4>1. fit \in SUBSET Nat
        BY <2>1, <2>3
      <4> HIDE DEF fit
      <4>2. \E j \in fit: \A k \in fit: j <= k
        BY <2>8, <4>1, LeastExists
      <4> QED BY <4>2
    <3> HIDE DEF least
    <3>2. screen.output = least /\ screen.margin = AtLeast(request.x - infos[least].x, 0)
      BY <2>5, <2>6, <2>8
    <3>3. least \in DOMAIN display /\ Holds(infos[least], at) /\ least # Nowhere
      BY <2>1, <2>3, <3>1 DEF NowhereIsApart
    <3>4. infos[least] = Told(display[least])
      BY <2>1, <3>3, UnheardHolds
    <3>5. Within(least, at)
      BY <2>4, <3>3, <3>4
    <3>6. infos[least].x = display[least].x /\ display[least].x \in Int
      BY <2>3, <3>3, <3>4, SpanTold DEF RealOutputs
    <3>7. display[least].x + screen.margin = AtLeast(request.x, display[least].x)
      BY <2>2, <3>2, <3>6 DEF AtLeast
    <3> QED BY <2>5, <3>2, <3>3, <3>5, <3>7 DEF at
  <2> QED BY <2>7, <2>8
<1> QED BY <1>1, <1>2, <1>3 DEF HighlightHonest

\* A highlight begins well.
LEMMA HighlightStarts == HighlightInit /\ NowhereIsApart => HighlightInv
BY DEF HighlightInit, NowhereIsApart, HighlightInv, HighlightTyped, Heard, Placed, Timed,
       NoRequest, Underway

-----------------------------------------------------------------------------
(* The steps of a highlight                                                *)

\* The request.
LEMMA AskStep ==
  ASSUME HighlightInv, RectsArePlaced, NEW r \in Rects, AskHighlight(r)
  PROVE  HighlightInv'
<1>1. /\ phase = "idle" /\ request' = r /\ r.x \in Int
      /\ \/ phase' = "over" /\ answer' \in {"invalid", "unavailable"}
         \/ phase' = "connect" /\ Wellformed(r) /\ UNCHANGED answer
      /\ UNCHANGED <<Compositor, infos, surface, acked, closed, left, screen, shown>>
  BY DEF AskHighlight, EndWith, RectsArePlaced
<1>2. HighlightTyped'
  BY <1>1 DEF HighlightInv, HighlightTyped, Wellformed, Underway, Compositor
<1>3. Heard'
  BY <1>1 DEF Heard
<1>4. Placed'
  BY <1>1 DEF HighlightInv, Placed
<1>5. Timed'
  BY <1>1 DEF HighlightInv, Timed
<1> QED BY <1>2, <1>3, <1>4, <1>5 DEF HighlightInv

\* The registry is read, or lacks what is needed.
LEMMA ConnectStep == ASSUME HighlightInv, Connect PROVE HighlightInv'
<1>1. /\ phase = "connect"
      /\ \/ /\ phase' = "outputs" /\ infos' = [i \in DOMAIN display |-> Unheard]
            /\ UNCHANGED answer
         \/ phase' = "over" /\ answer' = "failed" /\ UNCHANGED infos
      /\ UNCHANGED <<Compositor, request, surface, acked, closed, left, screen, shown>>
  BY DEF Connect, EndWith
<1>2. HighlightTyped'
  BY <1>1 DEF HighlightInv, HighlightTyped, Underway, Compositor
<1>3. Heard'
  BY <1>1 DEF Heard, Compositor
<1>4. Placed'
  BY <1>1 DEF HighlightInv, Placed
<1>5. Timed'
  BY <1>1 DEF HighlightInv, Timed
<1> QED BY <1>2, <1>3, <1>4, <1>5 DEF HighlightInv

\* The outputs tell of themselves.
LEMMA HearStep == ASSUME HighlightInv, HearOutputs PROVE HighlightInv'
<1>1. /\ phase = "outputs" /\ phase' = "create"
      /\ infos' = [i \in DOMAIN infos |-> IF i \in plugged THEN Told(display[i])
                                          ELSE infos[i]]
      /\ UNCHANGED <<Compositor, request, surface, acked, closed, left, screen, shown, answer>>
  BY DEF HearOutputs
<1>2. HighlightTyped'
  BY <1>1 DEF HighlightInv, HighlightTyped, Underway, Compositor
<1>3. Heard'
  BY <1>1 DEF HighlightInv, Heard, Compositor
<1>4. Placed'
  BY <1>1 DEF HighlightInv, Placed
<1>5. Timed'
  BY <1>1 DEF HighlightInv, Timed
<1> QED BY <1>2, <1>3, <1>4, <1>5 DEF HighlightInv

\* The surface is made.
LEMMA CreateStep == ASSUME HighlightInv, CreateSurface PROVE HighlightInv'
<1>1. /\ phase = "create" /\ phase' = "configure" /\ surface' = Place(infos, request)
      /\ UNCHANGED <<Compositor, request, infos, acked, left, screen, shown, answer>>
  BY DEF CreateSurface
<1>2. HighlightTyped'
  BY <1>1 DEF HighlightInv, HighlightTyped, Underway, Compositor
<1>3. Heard'
  BY <1>1 DEF HighlightInv, Heard, Compositor
<1>4. Placed'
  BY <1>1 DEF HighlightInv, Placed, Place
<1>5. Timed'
  BY <1>1 DEF HighlightInv, Timed
<1> QED BY <1>2, <1>3, <1>4, <1>5 DEF HighlightInv

\* The wait for the configure ends with a drawing.
LEMMA DrawStep ==
  ASSUME HighlightInv, phase = "configure", acked, phase' = "hold", screen' = Draw(surface),
         left' = request.duration,
         UNCHANGED <<Compositor, request, infos, surface, acked, closed, answer, shown>>
  PROVE  HighlightInv'
<1>1. HighlightTyped'
  BY DEF HighlightInv, HighlightTyped, Underway, Compositor
<1>2. Heard'
  BY DEF HighlightInv, Heard, Compositor
<1>3. Placed'
  BY DEF HighlightInv, Placed, Place, Draw
<1>4. Timed'
  BY DEF HighlightInv, HighlightTyped, Timed, Underway
<1> QED BY <1>1, <1>2, <1>3, <1>4 DEF HighlightInv

\* A call that ends takes what it had drawn with it; one that says it highlighted
\* had the surface taken away or its time spent.
LEMMA EndStep ==
  ASSUME HighlightInv, NEW text, EndWith(text), Reaped, phase \in Underway,
         text = "highlighted" => closed \/ shown = request.duration,
         UNCHANGED <<Compositor, request, infos, surface, acked, closed, left, shown>>
  PROVE  HighlightInv'
<1>1. phase' = "over" /\ answer' = text /\ screen' = Nowhere
  BY DEF EndWith, Reaped
<1>2. HighlightTyped'
  BY <1>1 DEF HighlightInv, HighlightTyped, Underway, Compositor
<1>3. Heard'
  BY <1>1 DEF Heard
<1>4. Placed'
  BY <1>1 DEF Placed
<1>5. Timed'
  BY <1>1 DEF Timed
<1> QED BY <1>2, <1>3, <1>4, <1>5 DEF HighlightInv

\* A slice of the time passes.
LEMMA HoldStep == ASSUME HighlightInv, HoldOn PROVE HighlightInv'
<1>1. /\ phase = "hold" /\ left' = left - 1 /\ shown' = shown + 1
      /\ UNCHANGED <<Compositor, request, phase, infos, surface, acked, closed, screen, answer>>
  BY DEF HoldOn
<1>2. HighlightTyped'
  BY <1>1 DEF HighlightInv, HighlightTyped, Compositor
<1>3. Heard'
  BY <1>1 DEF HighlightInv, Heard, Compositor
<1>4. Placed'
  BY <1>1 DEF HighlightInv, Placed, Place, Draw
<1>5. Timed'
  BY <1>1 DEF HighlightInv, HighlightTyped, Timed
<1> QED BY <1>2, <1>3, <1>4, <1>5 DEF HighlightInv

\* The compositor acknowledges, dismisses the surface, or loses an output.
LEMMA CompositorStep ==
  ASSUME HighlightInv, phase \notin {"idle", "over"}, UNCHANGED Unmoved,
         plugged' \subseteq plugged, acked => acked', closed => closed',
         screen' \in {screen, Nowhere}
  PROVE  HighlightInv'
<1>1. HighlightTyped'
  BY DEF HighlightInv, HighlightTyped, Unmoved
<1>2. Heard'
  BY DEF HighlightInv, Heard, Unmoved
<1>3. Placed'
  BY DEF HighlightInv, Placed, Place, Draw, Unmoved
<1>4. Timed'
  BY DEF HighlightInv, Timed, Unmoved
<1> QED BY <1>1, <1>2, <1>3, <1>4 DEF HighlightInv

\* Every step of a highlight keeps the invariant.
LEMMA HighlightSteps ==
  ASSUME HighlightInv, RectsArePlaced, [HighlightNext]_highlightVars
  PROVE  HighlightInv'
<1>1. ASSUME NEW r \in Rects, AskHighlight(r) PROVE HighlightInv'
  BY <1>1, AskStep
<1>2. CASE Connect
  BY <1>2, ConnectStep
<1>3. CASE HearOutputs
  BY <1>3, HearStep
<1>4. CASE CreateSurface
  BY <1>4, CreateStep
<1>5. CASE AwaitConfigure
  <2>1. /\ phase = "configure" /\ phase \in Underway
        /\ UNCHANGED <<Compositor, request, infos, surface, acked, closed>>
        /\ \/ closed /\ EndWith("highlighted") /\ Reaped /\ UNCHANGED <<left, shown>>
           \/ /\ acked /\ phase' = "hold" /\ screen' = Draw(surface)
              /\ left' = request.duration /\ UNCHANGED <<answer, shown>>
    BY <1>5 DEF AwaitConfigure, Underway
  <2>2. CASE closed /\ EndWith("highlighted") /\ Reaped /\ UNCHANGED <<left, shown>>
    BY <2>1, <2>2, EndStep
  <2>3. CASE /\ acked /\ phase' = "hold" /\ screen' = Draw(surface)
             /\ left' = request.duration /\ UNCHANGED <<answer, shown>>
    BY <2>1, <2>3, DrawStep
  <2> QED BY <2>1, <2>2, <2>3
<1>6. CASE ConfigureTimesOut
  <2>1. phase \in Underway /\ EndWith("failed") /\ Reaped
        /\ UNCHANGED <<Compositor, request, infos, surface, acked, closed, left, shown>>
    BY <1>6 DEF ConfigureTimesOut, Underway
  <2> QED BY <2>1, EndStep
<1>7. CASE HoldOn
  BY <1>7, HoldStep
<1>8. CASE TearDown
  <2>1. phase = "hold" /\ (closed \/ left = 0) /\ EndWith("highlighted") /\ Reaped
        /\ UNCHANGED <<Compositor, request, infos, surface, acked, closed, left, shown>>
    BY <1>8 DEF TearDown
  <2>2. phase \in Underway /\ (closed \/ shown = request.duration)
    BY <2>1 DEF HighlightInv, HighlightTyped, Timed, Underway
  <2> QED BY <2>1, <2>2, EndStep
<1>9. CASE SocketBreaks
  <2>1. phase \in Underway /\ EndWith("failed") /\ Reaped
        /\ UNCHANGED <<Compositor, request, infos, surface, acked, closed, left, shown>>
    BY <1>9 DEF SocketBreaks, Underway
  <2> QED BY <2>1, EndStep
<1>10. CASE SendConfigure
  BY <1>10, CompositorStep DEF SendConfigure
<1>11. CASE Dismiss
  BY <1>11, CompositorStep DEF Dismiss
<1>12. ASSUME NEW i \in DOMAIN display, Unplug(i) PROVE HighlightInv'
  <2>1. /\ phase \notin {"idle", "over"} /\ UNCHANGED Unmoved /\ UNCHANGED acked
        /\ plugged' \subseteq plugged /\ (closed => closed')
        /\ screen' \in {screen, Nowhere}
    BY <1>12 DEF Unplug
  <2> QED BY <2>1, CompositorStep
<1>13. CASE UNCHANGED highlightVars
  BY <1>13 DEF highlightVars, Compositor, HighlightInv, HighlightTyped, Heard, Placed, Timed,
     Place, Draw
<1> QED BY <1>1, <1>2, <1>3, <1>4, <1>5, <1>6, <1>7, <1>8, <1>9, <1>10, <1>11, <1>12, <1>13
        DEF HighlightNext, Call

\* For any outputs with any modes and scales, any requests and bounds, and whatever
\* the compositor unplugs, dismisses or breaks, and when: what screen_highlight says
\* it drew was on the output its centre lies on, at the place asked for, for its time.
THEOREM HighlightSound == HighlightSpec => []HighlightHonest
<1>1. HighlightInit => HighlightInv
  BY HighlightStarts, NowhereIsApart
<1>2. HighlightInv /\ [HighlightNext]_highlightVars => HighlightInv'
  BY HighlightSteps, RectsArePlaced
<1>3. HighlightInv => HighlightHonest
  BY HighlightEnough, OutputsAreReal, NowhereIsApart
<1> QED BY <1>1, <1>2, <1>3, PTL DEF HighlightSpec
=============================================================================
