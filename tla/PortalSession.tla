--------------------------- MODULE PortalSession ----------------------------
(***************************************************************************)
(* The desktop portal's sessions: the handshakes of the input provider     *)
(* (one session kept under a mutex and rebuilt once when a call fails), of *)
(* a portal capture (a session of its own for one frame, or a single       *)
(* Screenshot request), and of a held stream.                              *)
(*                                                                         *)
(* A request is a call whose answer comes later, as a Response signal that *)
(* names the request; every waiter on the same connection sees it.         *)
(***************************************************************************)
EXTENDS Integers, Sequences, FiniteSets, SequencesExt

CONSTANTS
  Flows,       \* the tool calls in flight
  Kind,        \* [Flows -> "input", "capture", "shot" or "hold"]
  Casts,       \* how many calls each of them makes, one choice per behaviour
  None,        \* no session, no request
  MaxRequests, MaxBreaks  \* bounds: requests, calls that fail

\* What the constants are assumed to be.
PortalConstants ==
  /\ Kind \in [Flows -> {"input", "capture", "shot", "hold"}]
  /\ Casts \subseteq [Flows -> Nat]
  /\ None \notin Flows \union Nat

ASSUME PortalAssumption == PortalConstants

VARIABLES
  flow,      \* [Flows -> where the call is]
  owner,     \* the flow that holds the session mutex of the input provider
  session,   \* its session
  requests,  \* every request placed: [from, step, of, state]
  sessions,  \* every session of the portal: [from, request, consented, open]
  turns,     \* the calls each flow has left to make
  breaks

portalVars == <<flow, owner, session, requests, sessions, turns, breaks>>

Idle == [pc |-> "idle", step |-> 1, request |-> None, session |-> None, inbox |-> {},
         tries |-> 0, dialogs |-> 0, unclosed |-> FALSE, result |-> "none"]

Init ==
  /\ flow = [f \in Flows |-> Idle]
  /\ owner = None /\ session = None
  /\ requests = <<>> /\ sessions = <<>>
  /\ turns \in Casts /\ breaks = 0

\* The handshake of each kind.  SelectSources is best-effort for input alone.
Steps(f) ==
  CASE Kind[f] = "input" -> <<"CreateSession", "SelectDevices", "SelectSources", "Start">>
    [] Kind[f] \in {"capture", "hold"} ->
         <<"CreateSession", "SelectSources", "Start", "OpenPipeWireRemote">>
    [] Kind[f] = "shot" -> <<"Screenshot">>
StepOf(f) == Steps(f)[flow[f].step]
BestEffort(f) == Kind[f] = "input" /\ StepOf(f) = "SelectSources"

\* Flows of one provider share its connection; a held stream has its own.
SameConnection(f, g) == f = g \/ (Kind[f] = Kind[g] /\ Kind[f] # "hold")

Flow(f, to) == flow' = [flow EXCEPT ![f] = to]

Return(f, how) ==
  /\ Flow(f, [flow[f] EXCEPT !.pc = "idle", !.inbox = {}, !.result = how])
  /\ owner' = IF owner = f THEN None ELSE owner

-----------------------------------------------------------------------------
(* A call starts, takes the mutex, and goes to the session it finds.       *)

Begin(f) ==
  /\ flow[f].pc = "idle" /\ turns[f] > 0
  /\ turns' = [turns EXCEPT ![f] = @ - 1]
  /\ Flow(f, [Idle EXCEPT !.pc = IF Kind[f] = "input" THEN "lock" ELSE "step"])
  /\ UNCHANGED <<owner, session, requests, sessions, breaks>>

Lock(f) ==
  /\ flow[f].pc = "lock" /\ owner = None
  /\ owner' = f
  /\ Flow(f, [flow[f] EXCEPT !.pc = IF session = None THEN "step" ELSE "use",
                             !.session = session])
  /\ UNCHANGED <<session, requests, sessions, turns, breaks>>

-----------------------------------------------------------------------------
(* One step of a handshake.                                                *)

Advance(f) ==
  [flow[f] EXCEPT !.pc = IF flow[f].step = Len(Steps(f)) THEN "use" ELSE "step",
                  !.step = IF @ = Len(Steps(f)) THEN @ ELSE @ + 1]

\* A failing step ends the handshake.  A capture that knows its session closes
\* it; a held stream's connection goes, and its sessions with it; the input
\* provider just leaves the session behind.
Close(which) ==
  [i \in DOMAIN sessions |->
     IF which[i] THEN [sessions[i] EXCEPT !.open = FALSE] ELSE sessions[i]]
DropConnection(f) ==
  /\ sessions' = Close([i \in DOMAIN sessions |-> sessions[i].from = f])
  /\ requests' = [i \in DOMAIN requests |->
       IF requests[i].from = f /\ requests[i].state = "open"
       THEN [requests[i] EXCEPT !.state = "gone"] ELSE requests[i]]

Fail(f) ==
  CASE Kind[f] = "capture" /\ flow[f].session # None ->
         /\ Flow(f, [flow[f] EXCEPT !.pc = "close", !.result = "error"])
         /\ UNCHANGED <<owner, sessions, requests>>
    [] Kind[f] = "hold" -> DropConnection(f) /\ Return(f, "error")
    [] OTHER -> Return(f, "error") /\ UNCHANGED <<sessions, requests>>
FailStep(f) ==
  IF BestEffort(f) THEN Flow(f, Advance(f)) /\ UNCHANGED <<owner, sessions, requests>>
  ELSE Fail(f)

\* The subscription is made before the call, so that the inbox of a flow holds
\* every answer since.  The last call of a capture answers at once.
Request(f) ==
  /\ flow[f].pc = "step" /\ StepOf(f) # "OpenPipeWireRemote"
  /\ Len(requests) < MaxRequests
  /\ requests' = Append(requests, [from |-> f, step |-> StepOf(f),
                                   of |-> flow[f].session, state |-> "open"])
  /\ Flow(f, [flow[f] EXCEPT !.pc = "await", !.request = Len(requests'),
                             !.dialogs = IF StepOf(f) = "Start" THEN @ + 1 ELSE @])
  /\ UNCHANGED <<owner, session, sessions, turns, breaks>>

OpenRemote(f) ==
  /\ flow[f].pc = "step" /\ StepOf(f) = "OpenPipeWireRemote"
  /\ Flow(f, Advance(f))
  /\ UNCHANGED <<owner, session, requests, sessions, turns, breaks>>

\* The call itself fails or takes longer than CALL_TIMEOUT.
CallFails(f) ==
  /\ flow[f].pc = "step" /\ breaks < MaxBreaks
  /\ breaks' = breaks + 1
  /\ FailStep(f)
  /\ UNCHANGED <<session, turns>>

\* The portal, or the human, answers a request, whether anybody still waits.
Answer(i, code) ==
  /\ requests[i].state = "open"
  /\ requests' = [requests EXCEPT ![i].state = IF code = 0 THEN "granted" ELSE "refused"]
  /\ flow' = [f \in Flows |->
       IF SameConnection(f, requests[i].from) /\ flow[f].pc \in {"step", "await"}
       THEN [flow[f] EXCEPT !.inbox = @ \union
              {[of |-> i, code |-> code,
                session |-> IF requests[i].step = "CreateSession" THEN Len(sessions) + 1 ELSE None]}]
       ELSE flow[f]]
  /\ sessions' =
       CASE code = 0 /\ requests[i].step = "CreateSession" ->
              Append(sessions, [from |-> requests[i].from, request |-> i,
                                consented |-> FALSE, open |-> TRUE])
         [] code = 0 /\ requests[i].step = "Start" ->
              [sessions EXCEPT ![requests[i].of].consented = TRUE]
         [] OTHER -> sessions
  /\ UNCHANGED <<owner, session, turns, breaks>>

\* MUTANT of Receive: any answer on the connection is taken.
ReceiveAny(f) ==
  /\ flow[f].pc = "await"
  /\ \E a \in flow[f].inbox:
       IF a.code # 0 THEN FailStep(f)
       ELSE /\ Flow(f, [Advance(f) EXCEPT
                         !.session = IF a.session # None THEN a.session ELSE @,
                         !.inbox = {b \in flow[f].inbox: b.of > a.of}])
            /\ UNCHANGED <<owner, sessions, requests>>
  /\ UNCHANGED <<session, turns, breaks>>

\* await_response skips the answers to other requests.
Receive(f) ==
  /\ flow[f].pc = "await"
  /\ \E a \in flow[f].inbox:
       /\ a.of = flow[f].request
       /\ IF a.code # 0 THEN FailStep(f)
          ELSE /\ Flow(f, [Advance(f) EXCEPT
                            !.session = IF a.session # None THEN a.session ELSE @,
                            !.inbox = {b \in flow[f].inbox: b.of > a.of}])
               /\ UNCHANGED <<owner, sessions, requests>>
  /\ UNCHANGED <<session, turns, breaks>>

\* RESPONSE_TIMEOUT passes: nobody tells the portal, so its dialog stays up.
Expire(f) ==
  /\ flow[f].pc = "await" /\ breaks < MaxBreaks
  /\ requests[flow[f].request].state = "open"
  /\ breaks' = breaks + 1
  /\ FailStep(f)
  /\ UNCHANGED <<session, turns>>

-----------------------------------------------------------------------------
(* Using a session.                                                        *)

\* The operation under the session: the input provider keeps its session when
\* it succeeds, and the one it has just rebuilt in either case.
Use(f) ==
  /\ flow[f].pc = "use"
  /\ CASE Kind[f] = "input" ->
            /\ Return(f, "ok")
            /\ session' = flow[f].session
       [] Kind[f] = "capture" ->
            /\ Flow(f, [flow[f] EXCEPT !.pc = "close", !.result = "ok"])
            /\ UNCHANGED <<owner, session>>
       [] Kind[f] = "shot" -> Return(f, "ok") /\ UNCHANGED session
       [] Kind[f] = "hold" ->
            /\ Flow(f, [flow[f] EXCEPT !.pc = "close"])
            /\ UNCHANGED <<owner, session>>
  /\ UNCHANGED <<requests, sessions, turns, breaks>>

UseFails(f) ==
  /\ flow[f].pc = "use" /\ breaks < MaxBreaks
  /\ breaks' = breaks + 1
  /\ IF Kind[f] = "input"
     THEN IF flow[f].tries = 0
          THEN /\ Flow(f, [flow[f] EXCEPT !.pc = "step", !.step = 1, !.tries = 1, !.session = None])
               /\ session' = None
               /\ UNCHANGED <<owner, sessions, requests>>
          ELSE /\ Return(f, "error")
               /\ session' = flow[f].session
               /\ UNCHANGED <<sessions, requests>>
     ELSE Fail(f) /\ UNCHANGED session
  /\ UNCHANGED turns

\* Session.Close, whose failure is ignored; the end of a held stream's worker
\* drops its connection as well.
CloseSession(f) ==
  /\ flow[f].pc = "close"
  /\ \/ /\ IF Kind[f] = "hold" THEN DropConnection(f)
           ELSE /\ sessions' = Close([i \in DOMAIN sessions |-> i = flow[f].session])
                /\ UNCHANGED requests
        /\ Return(f, IF Kind[f] = "hold" THEN "ok" ELSE flow[f].result)
        /\ UNCHANGED breaks
     \/ /\ Kind[f] = "capture" /\ breaks < MaxBreaks
        /\ breaks' = breaks + 1
        /\ Flow(f, [flow[f] EXCEPT !.pc = "idle", !.inbox = {}, !.unclosed = TRUE])
        /\ UNCHANGED <<owner, sessions, requests>>
  /\ UNCHANGED <<session, turns>>

PortalAnswers == \E i \in DOMAIN requests, code \in 0..1: Answer(i, code)
Next ==
  \/ \E f \in Flows: \/ Begin(f) \/ Lock(f) \/ Request(f) \/ OpenRemote(f) \/ CallFails(f)
                     \/ Receive(f) \/ Expire(f) \/ Use(f) \/ UseFails(f) \/ CloseSession(f)
  \/ PortalAnswers

Spec == Init /\ [][Next]_portalVars
-----------------------------------------------------------------------------
(* Properties.                                                             *)

Dialogs(kind) ==
  {i \in DOMAIN requests: /\ requests[i].step = "Start" /\ requests[i].state = "open"
                          /\ Kind[requests[i].from] = kind}

\* Nothing is injected or recorded under a session the user has not consented
\* to, each session having been asked about by a dialog of its own.  A flow goes
\* on in the session its own request created, however many other handshakes run
\* on the connection and however late their answers are.  A call that finds its
\* session dead asks for consent once more, not again and again.
ConsentedUse ==
  \A f \in Flows:
    /\ (flow[f].pc = "use" /\ Kind[f] # "shot") =>
         /\ flow[f].session # None
         /\ sessions[flow[f].session].consented /\ sessions[flow[f].session].open
    /\ flow[f].session # None =>
         LET r == requests[sessions[flow[f].session].request]
         IN SameConnection(f, r.from) /\ (Kind[f] # "input" => r.from = f)
    /\ flow[f].dialogs <= 1 + flow[f].tries /\ flow[f].tries <= 1

\* A capture that has come back leaves no session open that it got to know,
\* unless Close itself failed; a held stream never leaves one.
SessionsClosed ==
  \A f \in Flows, i \in DOMAIN sessions:
    (flow[f].pc = "idle" /\ sessions[i].from = f /\ sessions[i].open) =>
      \/ Kind[f] = "input"
      \/ Kind[f] = "capture" /\ (flow[f].session # i \/ flow[f].unclosed)

\* The sessions of the portal are asked for, used and given back properly.
SessionsConsented == ConsentedUse /\ SessionsClosed

\* The input provider asks for consent one dialog at a time.
OneConsentFlow == Cardinality(Dialogs("input")) <= 1
=============================================================================
