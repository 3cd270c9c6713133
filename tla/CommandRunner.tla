--------------------------- MODULE CommandRunner ---------------------------
(***************************************************************************)
(* Running a pinned helper binary: the argument whitelist, the scratch     *)
(* directory of a capture, the spawn with its bounded wait, and what the   *)
(* tool answers.  One call is followed from its arguments to its answer    *)
(* while the child, a process the child may leave behind, the drainers of  *)
(* the pipes and the timers interleave.                                    *)
(*                                                                         *)
(* Four ways to run a helper share the machinery: "exec" is system_command *)
(* under its own outer timeout, "helper" is output_within as the providers *)
(* call it, "probe" the blocking std_output_within of the constructors and *)
(* "feed" the clipboard's run_stdin.  Time is counted in units of the      *)
(* drain's join timeout; output is counted in pipe buffers.                *)
(***************************************************************************)
EXTENDS Naturals, Sequences, FiniteSets, SequencesExt

CONSTANTS
  Calls,        \* the calls explored: kind, cmd, args, x11, ...
  Pinned,       \* the binaries resolved at startup
  NoVerb,       \* no verb seen yet
  Bad,          \* an argument sanitize_arg rejects
  Flags,        \* [command -> [value |-> flags with a value, bare |-> without]]
  Numbers,      \* arguments that are numbers of seconds
  Repeatable,   \* the commands whose flags may be given twice
  Reads, Dispatchers, Verbs, ValueFlags, \* the lists of hyprctl and xdotool
  MaxArgs,
  Budget,       \* [kind -> time-out of the wait]
  Outer, Join,  \* system_command's own time-out, the join's
  MaxStdout, TruncateAt,
  MaxOutput,    \* bound: output explored per stream
  Input         \* what a fed child is sent

VARIABLES
  call,       \* the call, one of Calls
  pc,         \* where its handler is
  attempt,    \* spawn attempts
  now, since, \* the clock, and when the current timer was started
  child,      \* "none", "running", "exited" or "killed"
  code,       \* its exit code
  orphan,     \* the pipes a process left behind by the child holds
  unread, kept, written, \* per stream: in the pipe, in the drainer, produced
  feed,       \* input still to be written to the child
  dir,        \* the capture's scratch directory exists
  result      \* what the handler returned

Kinds == {"exec", "helper", "probe", "feed"}

\* Time-outs, caps and sizes are whole numbers of their units, and the join of
\* a drainer is given some time: DRAIN_JOIN_TIMEOUT is not zero.
RunnerConstants ==
  /\ \A l \in Calls: l.kind \in Kinds /\ l.daemon \in BOOLEAN
  /\ Budget \in [Kinds -> Nat] /\ Outer \in Nat /\ Join \in Nat \ {0}
  /\ MaxStdout \in Nat /\ MaxOutput \in Nat /\ Input \in Nat
ASSUME RunnerAssumption == RunnerConstants

procVars == <<child, code, orphan>>
pipeVars == <<unread, kept, written>>
runnerVars == <<call, pc, attempt, now, since, procVars, pipeVars, feed, dir, result>>

Streams == {"out", "err"}

-----------------------------------------------------------------------------
(* The whitelist.  Arguments are folded over the state of the parser.      *)

Sanitized(l) == l.cmd # Bad /\ \A i \in DOMAIN l.args: l.args[i] # Bad

\* MUTANT of ParseFlag: a repeated flag is let through.
ParseFlagTwice(cmd, state, arg) ==
  IF state.due
  THEN [state EXCEPT !.due = FALSE, !.ok = @ /\ (cmd = "scrot" => arg \in Numbers)]
  ELSE [ok |-> state.ok /\ arg \in Flags[cmd].value \union Flags[cmd].bare,
        due |-> arg \in Flags[cmd].value,
        seen |-> state.seen \union {arg}]

\* validate_grim, validate_scrot and validate_slurp: known flags only, values
\* where they are due, and no flag twice unless the command allows it.
ParseFlag(cmd, state, arg) ==
  CASE state.due ->
         [state EXCEPT !.due = FALSE, !.ok = @ /\ (cmd = "scrot" => arg \in Numbers)]
    [] ~state.due /\ arg \in state.seen /\ cmd \notin Repeatable ->
         [state EXCEPT !.ok = FALSE]
    [] ~state.due /\ ~(arg \in state.seen /\ cmd \notin Repeatable) ->
         [ok |-> state.ok /\ arg \in Flags[cmd].value \union Flags[cmd].bare,
          due |-> arg \in Flags[cmd].value,
          seen |-> state.seen \union {arg}]

ValidateFlags(cmd, args) ==
  LET end == FoldLeft(LAMBDA s, a: ParseFlag(cmd, s, a),
                      [ok |-> TRUE, due |-> FALSE, seen |-> {}], args)
  IN end.ok /\ ~end.due

\* hyprctl [-j] <read>, or hyprctl [-j] dispatch <dispatcher> and 1..4 more.
ValidateHyprctl(args) ==
  LET rest == IF args # <<>> /\ args[1] = "-j" THEN Tail(args) ELSE args
  IN /\ rest # <<>>
     /\ \/ rest[1] \in Reads /\ Len(rest) = 1
        \/ rest[1] = "dispatch" /\ Len(rest) \in 3..6 /\ rest[2] \in Dispatchers

\* xdotool: the first argument that is neither a flag nor the operand of a
\* flag that takes one is the verb.
ValidateXdotool(args) ==
  LET Step(s, a) ==
        CASE s.verb # NoVerb -> s
          [] s.verb = NoVerb /\ s.skip -> [s EXCEPT !.skip = FALSE]
          [] s.verb = NoVerb /\ ~s.skip ->
               IF a \in ValueFlags THEN [s EXCEPT !.skip = TRUE] ELSE [s EXCEPT !.verb = a]
  IN FoldLeft(Step, [verb |-> NoVerb, skip |-> FALSE], args).verb \in Verbs

\* validate_command: "ok" or the class of the refusal.  grim and scrot need
\* the server's capture path, the others must not have one.
ValidateCommand(l, out) ==
  CASE Len(l.args) > MaxArgs -> "ArgConstraint"
    [] Len(l.args) <= MaxArgs /\ ~Sanitized(l) -> "Sanitize"
    [] Len(l.args) <= MaxArgs /\ Sanitized(l) /\ l.cmd \notin Pinned -> "NotWhitelisted"
    [] OTHER ->
       CASE l.cmd \in {"grim", "scrot"} ->
              IF ~ValidateFlags(l.cmd, l.args) \/ ~out THEN "ArgConstraint"
              ELSE IF l.rooted THEN "ok" ELSE "Path"
         [] l.cmd = "slurp" -> IF ~out /\ ValidateFlags(l.cmd, l.args)
                               THEN "ok" ELSE "ArgConstraint"
         [] l.cmd = "hyprctl" -> IF ~out /\ ValidateHyprctl(l.args)
                                 THEN "ok" ELSE "ArgConstraint"
         [] l.cmd = "xdotool" -> IF ~out /\ l.x11 /\ ValidateXdotool(l.args)
                                 THEN "ok" ELSE "ArgConstraint"
         [] l.cmd = "wmctrl" -> IF ~out /\ l.x11 THEN "ok" ELSE "ArgConstraint"
         [] OTHER -> "NotWhitelisted"

-----------------------------------------------------------------------------
Kind == call.kind
NoResult == [outcome |-> "none", out |-> 0, err |-> 0]
Outcome(o) == [NoResult EXCEPT !.outcome = o]

RunnerInit ==
  /\ call \in Calls
  /\ pc = "start" /\ attempt = 0
  /\ now = 0 /\ since = 0
  /\ child = "none" /\ code = 0 /\ orphan = {}
  /\ unread = [s \in Streams |-> 0] /\ kept = unread /\ written = unread
  /\ feed = 0
  /\ dir = FALSE
  /\ result = NoResult

AnswerCall(r) == pc' = "done" /\ result' = r

\* exec_system_command up to the spawn: the scratch directory is made before
\* the arguments are validated, and a refusal returns past its removal.
Start ==
  /\ pc = "start"
  /\ \/ /\ Kind # "exec"
        /\ pc' = "spawn"
        /\ UNCHANGED <<dir, result>>
     \/ /\ Kind = "exec"
        /\ LET out == call.cmd \in {"grim", "scrot"}
               verdict == ValidateCommand(call, out)
           IN /\ dir' = out
              /\ IF verdict = "ok"
                 THEN pc' = "spawn" /\ UNCHANGED result
                 ELSE AnswerCall(Outcome(verdict))
  /\ UNCHANGED <<call, attempt, now, since, procVars, pipeVars, feed>>

\* exec_system_command after the wait: the scratch directory goes, and output
\* longer than the limit is cut at a byte, which must begin a character.
Finish(r, aligned) ==
  /\ dir' = FALSE
  /\ IF Kind = "exec" /\ r.outcome = "output" /\ ~aligned
          /\ (r.out > TruncateAt \/ r.err > TruncateAt)
     THEN pc' = "panicked" /\ UNCHANGED result
     ELSE AnswerCall(r)

\* spawn_retried: a text file busy is tried four times, then reported.
Spawn ==
  /\ pc = "spawn"
  /\ \/ /\ child' = "running"
        /\ pc' = "wait" /\ since' = now
        /\ feed' = IF Kind = "feed" THEN Input ELSE 0
        /\ UNCHANGED <<attempt, dir, result>>
     \/ /\ attempt < 3
        /\ attempt' = attempt + 1
        /\ UNCHANGED <<pc, child, since, feed, dir, result>>
     \/ /\ Finish(Outcome("spawn_failed"), TRUE)
        /\ UNCHANGED <<attempt, child, since, feed>>
  /\ UNCHANGED <<call, now, code, orphan, pipeVars>>

-----------------------------------------------------------------------------
(* The child, what it leaves behind, and the pipes.                        *)

\* stderr is captured by output_within only, stdout by all but run_stdin.
Piped == CASE Kind = "feed" -> {}
           [] Kind = "probe" -> {"out"}
           [] Kind \notin {"feed", "probe"} -> Streams

Write(s) ==
  /\ child = "running" \/ s \in orphan
  /\ s \in Piped /\ written[s] < MaxOutput
  /\ unread[s] = 0                       \* a full pipe blocks the writer
  /\ unread' = [unread EXCEPT ![s] = 1]
  /\ written' = [written EXCEPT ![s] = @ + 1]
  /\ UNCHANGED <<call, pc, attempt, now, since, procVars, kept, feed, dir, result>>

ChildReads ==
  /\ child = "running" \/ "in" \in orphan
  /\ feed > 0
  /\ feed' = feed - 1
  /\ UNCHANGED <<call, pc, attempt, now, since, procVars, pipeVars, dir, result>>

\* The helper puts a process in the background that inherits its pipes.
Daemonize ==
  /\ child = "running" /\ call.daemon /\ orphan = {}
  /\ \E pipes \in SUBSET (Piped \union (IF Kind = "feed" THEN {"in"} ELSE {})):
       orphan' = pipes
  /\ UNCHANGED <<call, pc, attempt, now, since, child, code, pipeVars, feed, dir, result>>

ChildExits ==
  /\ child = "running"
  /\ child' = "exited"
  /\ code' \in {0, 1}
  /\ UNCHANGED <<call, pc, attempt, now, since, orphan, pipeVars, feed, dir, result>>

OrphanExits ==
  /\ orphan # {}
  /\ orphan' = {}
  /\ UNCHANGED <<call, pc, attempt, now, since, child, code, pipeVars, feed, dir, result>>

\* drain_capped: it reads to the end of the stream and keeps up to the cap.
Drain(s) ==
  /\ unread[s] > 0
  /\ unread' = [unread EXCEPT ![s] = 0]
  /\ kept' = [kept EXCEPT ![s] = IF @ < MaxStdout THEN @ + 1 ELSE @]
  /\ UNCHANGED <<call, pc, attempt, now, since, procVars, written, feed, dir, result>>

\* The drainer has seen the end of its stream: no writer is left.
AtEnd(s) == child # "running" /\ s \notin orphan /\ unread[s] = 0

\* The writer of run_stdin is through, or its pipe has no reader.
Fed == feed = 0 \/ (child # "running" /\ "in" \notin orphan)

-----------------------------------------------------------------------------
(* The wait.                                                               *)

Due(limit) == now - since >= limit
OuterDue == Kind = "exec" /\ now >= Outer

\* MUTANT of Kill: giving up on the wait leaves the child alone.
KillNothing == child' = child

Kill == child' = IF child = "running" THEN "killed" ELSE child

\* child.wait() returns: the streams are joined next, or the writer.
WaitReturns ==
  /\ pc = "wait" /\ child = "exited"
  /\ pc' = IF Kind = "feed" THEN "writer" ELSE "join"
  /\ since' = now
  /\ UNCHANGED <<call, attempt, now, procVars, pipeVars, feed, dir, result>>

\* The wait's own time-out: the child is killed and reaped; output_within and
\* std_output_within give up, run_stdin first waits for its writer.
WaitExpires ==
  /\ pc = "wait" /\ Due(Budget[Kind])
  /\ Kill
  /\ IF Kind = "feed" THEN pc' = "writer" /\ UNCHANGED <<dir, result>>
     ELSE Finish(Outcome("timed_out"), TRUE)
  /\ since' = now
  /\ UNCHANGED <<call, attempt, now, code, orphan, pipeVars, feed>>

\* What a join yields: the drainer's buffer once its stream has ended, or
\* nothing when something still holds the pipe at the end of the join.
Joined(s) == IF AtEnd(s) THEN {kept[s]} ELSE IF Due(Join) THEN {0} ELSE {}

\* stdout is joined first, then, under a time-out of its own, stderr.
JoinStdout ==
  /\ pc = "join" /\ "out" \in Piped
  /\ \E n \in Joined("out"):
       IF "err" \in Piped
       THEN pc' = "join_err" /\ result' = [result EXCEPT !.out = n] /\ UNCHANGED dir
       ELSE Finish([outcome |-> "output", out |-> n, err |-> 0], TRUE)
  /\ since' = now
  /\ UNCHANGED <<call, attempt, now, procVars, pipeVars, feed>>

JoinStderr ==
  /\ pc = "join_err"
  /\ \E n \in Joined("err"), aligned \in BOOLEAN:
       Finish([result EXCEPT !.outcome = "output", !.err = n], aligned)
  /\ since' = now
  /\ UNCHANGED <<call, attempt, now, procVars, pipeVars, feed>>

\* run_stdin awaits its writer without a time-out, then looks at the status.
WriterJoined ==
  /\ pc = "writer" /\ Fed
  /\ AnswerCall(Outcome(CASE child = "killed" -> "timed_out"
                      [] child # "killed" /\ code = 0 -> "output"
                      [] child # "killed" /\ code # 0 -> "failed"))
  /\ UNCHANGED <<call, attempt, now, since, procVars, pipeVars, feed, dir>>

\* system_command's time-out drops the whole wait; dropping the child kills it.
OuterExpires ==
  /\ Kind = "exec" /\ OuterDue
  /\ pc \in {"wait", "join", "join_err"}
  /\ Kill
  /\ Finish(Outcome("timed_out"), TRUE)
  /\ UNCHANGED <<call, attempt, now, since, code, orphan, pipeVars, feed>>

\* Timers and drainers are on time: the clock passes neither a timer that is
\* due nor output that waits in a pipe.
TimerDue ==
  \/ pc \in {"wait", "join", "join_err"} /\ OuterDue
  \/ pc = "wait" /\ Due(Budget[Kind])
  \/ pc = "join" /\ Due(Join)
  \/ pc = "join_err" /\ Due(Join)
  \/ pc = "writer" /\ Fed
  \/ pc # "done" /\ \E s \in Streams: unread[s] > 0

RunnerTick ==
  /\ pc \in {"wait", "join", "join_err", "writer"}
  /\ ~TimerDue
  /\ now <= Outer + Join                  \* bound: time explored
  /\ now' = now + 1
  /\ UNCHANGED <<call, pc, attempt, since, procVars, pipeVars, feed, dir, result>>

RunnerNext ==
  \/ Start \/ Spawn
  \/ \E s \in Streams: Write(s) \/ Drain(s)
  \/ ChildReads \/ Daemonize \/ ChildExits \/ OrphanExits
  \/ WaitReturns \/ WaitExpires \/ JoinStdout \/ JoinStderr \/ WriterJoined
  \/ OuterExpires
  \/ RunnerTick

RunnerSpec == RunnerInit /\ [][RunnerNext]_runnerVars
-----------------------------------------------------------------------------
(* Properties.                                                             *)

Over == pc \in {"done", "panicked"}
Refused == result.outcome \in {"ArgConstraint", "Sanitize", "NotWhitelisted", "Path"}

\* Output is a result only when its child exited by itself, and a child that
\* leaves nobody behind gets all of it reported, up to the cap, however much it
\* writes: the drain outlasts the cap.
OutputWhole ==
  (Over /\ result.outcome = "output") =>
    /\ child = "exited"
    /\ (Kind # "feed" /\ ~call.daemon) =>
         /\ result.out = IF written["out"] > MaxStdout THEN MaxStdout ELSE written["out"]
         /\ result.err = IF written["err"] > MaxStdout THEN MaxStdout ELSE written["err"]

\* When a call must be over, whatever the child and its offspring do.
Deadline ==
  CASE Kind = "exec" -> Outer
    [] Kind = "helper" -> Budget[Kind] + 2 * Join
    [] Kind = "probe" -> Budget[Kind] + Join
    [] Kind = "feed" -> Budget[Kind]

\* The wait is bounded, also when a process left behind holds a pipe, but for
\* a fed child, whose input such a process may hold.
WaitBounded == now > Deadline => Over \/ (Kind = "feed" /\ call.daemon)

\* The same for every call: "a wedged child cannot hang a call".
NeverHangs == now > Deadline => Over

\* A call that is over leaves nothing behind on any way out: no running child
\* (an expired wait kills it) and no scratch directory, but for the empty one
\* of a command the whitelist refuses.
NothingLeftBehind == Over => child # "running" /\ (~dir \/ Refused)

\* What a caller of the runner relies on, whatever the child does.
HelpersContained == OutputWhole /\ WaitBounded /\ NothingLeftBehind

\* The argument parser accepts exactly the sequences of complete, known flags
\* of the command, each at most once unless it may be repeated.
Items(cmd, args) ==
  {<<f>>: f \in Flags[cmd].bare}
    \union {<<f, v>>: f \in Flags[cmd].value,
                    v \in IF cmd = "scrot" THEN Numbers ELSE Range(args)}
Conforms(cmd, args) ==
  \E items \in BoundedSeq(Items(cmd, args), Len(args)):
    /\ FlattenSeq(items) = args
    /\ \/ cmd \in Repeatable
       \/ \A i, j \in DOMAIN items: items[i][1] = items[j][1] => i = j
WhitelistExact ==
  (Over /\ call.cmd \in DOMAIN Flags /\ Sanitized(call) /\ call.cmd \in Pinned) =>
    (result.outcome # "ArgConstraint" <=> Conforms(call.cmd, call.args))

\* stdout and stderr are "truncated to 64 KiB each": a long output is cut, and
\* the call answered.
CallAnswered == pc # "panicked"
=============================================================================
