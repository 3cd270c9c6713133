-------------------------- MODULE SecuredDispatch --------------------------
(***************************************************************************)
(* The secured tool-call pipeline of ultranix-mcp:                         *)
(* tools/mod.rs call_tool_secured_with_peer with the consent gate it       *)
(* consults (security/consent.rs), the admin leg it dispatches into        *)
(* (tools/admin.rs) and the plugin executor (tools/plugin.rs).             *)
(*                                                                         *)
(* Several requests are in flight at once.  Every await point of the       *)
(* pipeline at which another task, the compositor or the clock can         *)
(* intervene is a step of its own.  replay_action and plugin_run re-enter  *)
(* the pipeline: the invocation <<s, d+1>> is the one that <<s, d>> is     *)
(* waiting for.                                                            *)
(***************************************************************************)
EXTENDS Naturals, Sequences, FiniteSets

CONSTANTS
  Slots,            \* requests the server may have in flight at once
  Callers,          \* caller identities: key ids on HTTP, session id on stdio
  Windows,          \* ids of windows; the id of one that closed may come again
  FocusedView,      \* the selector "focused" where the back end has one, or None
  Titles,           \* title/class fragments a selector can name
  WindowTexts,      \* what a window's title and class can contain
  Commands,         \* arguments of system_command and the clipboard writes
  Plugins,          \* names of the installed manifests
  Manifest,         \* [Plugins -> Seq(Step)]: what each manifest runs
  Tokens,           \* consent tokens, drawn from a CSPRNG: never twice
  AllowedTools,     \* [Callers -> SUBSET Tools]: the role of every caller
  EnabledTools,     \* tools whose category is enabled
  AllowDestructive, \* --allow-destructive
  Ttl,              \* lifetime of a token in clock ticks
  HistoryCap,       \* records the action history retains
  ClientTools,      \* bound: the tools clients call in this instance
  MaxClock,         \* bound: ticks of the clock
  MaxIndex,         \* bound: history indices handed out
  None              \* Option::None

Destructive == {"system_command", "window_control", "replay_action",
                "clear_action_history"}

\* "window_control" is window_control{close}, the one destructive action of
\* that tool; "get_windows" stands for every tool without a consent class.
Tools == Destructive \cup {"plugin_run", "get_windows"}

Selectors == Windows \cup Titles \cup {FocusedView}
Targets == Windows \cup {FocusedView, None}
Args == Selectors \cup Commands \cup Plugins \cup (0..MaxIndex) \cup {None}

Depths == 1..3                      \* replay_action > plugin_run > step
Calls == Slots \X Depths
Child(c) == <<c[1], c[2] + 1>>

\* plugins.rs validate: a step never re-enters the plugin executor or replay.
Steps == [tool : Tools \ {"plugin_run", "replay_action"},
          arg : Args, threads : BOOLEAN]

ASSUME ConstantsAssumption ==
  /\ Ttl \in Nat /\ MaxClock \in Nat /\ MaxIndex \in Nat
  /\ HistoryCap \in Nat \ {0}
  /\ AllowDestructive \in BOOLEAN
  /\ EnabledTools \subseteq Tools /\ ClientTools \subseteq Tools
  /\ WindowTexts \subseteq SUBSET Selectors
  /\ AllowedTools \in [Callers -> SUBSET Tools]
  /\ Manifest \in [Plugins -> Seq(Steps)]
  /\ None \notin Tokens /\ FocusedView \notin Windows

VARIABLES
  now,       \* the monotonic clock
  tokens,    \* ConsentGate.tokens: token -> scope record
  issued,    \* the tokens drawn so far
  win,       \* the open windows: id -> selectors its title or class contains
  active,    \* the focused window
  hist,      \* the retained action records, oldest first
  nextIndex, \* index of the next action record
  call,      \* invocation -> its frame
  grant,     \* history variable: token -> the scope it was issued for
  effects,   \* history variable: the destructive effects so far
  uses       \* history variable: token -> effects it has authorised

consentVars == <<tokens, issued, grant>>
screenVars == <<win, active>>
histVars == <<hist, nextIndex>>
ghostVars == <<effects, uses>>
vars == <<now, consentVars, screenVars, histVars, call, ghostVars>>

-----------------------------------------------------------------------------
(* Invocations *)

\* "via" tells a call a client sent from one replay_action or plugin_run made.
NewCall(caller, tool, arg, tok, via) ==
  [pc |-> "gate", caller |-> caller, tool |-> tool, arg |-> arg, tok |-> tok,
   via |-> via, target |-> None, window |-> None, seen |-> None, gone |-> FALSE,
   stamp |-> None, at |-> 0, step |-> 1, outcome |-> None, audits |-> 0,
   acted |-> FALSE]

Idle == [NewCall(None, None, None, None, "client") EXCEPT !.pc = "idle"]

\* How a frame changes: it moves on; gets a result; gets the result of having
\* acted; dies having acted; is refused; is audited; is given a target, a stamp
\* and a window argument, the window to close (with what its title and class
\* contained, and, for the properties, whether the target had left the list);
\* goes to its next step.
Moved(f, pc) == [f EXCEPT !.pc = pc]
Produced(f, o) == [f EXCEPT !.pc = "audit", !.outcome = o]
Acted(f) == [f EXCEPT !.pc = "audit", !.outcome = "ok", !.acted = TRUE]
Died(f) == [f EXCEPT !.pc = "panicked", !.outcome = "panicked", !.acted = TRUE]
Rejected(f, pc, o) == [f EXCEPT !.pc = pc, !.outcome = o, !.audits = @ + 1]
Audited(f) == [f EXCEPT !.pc = "record", !.audits = @ + 1]
Targeted(f, t) == [f EXCEPT !.pc = "consent", !.target = t]
Admitted(f, stamp, at, w) ==
  [f EXCEPT !.pc = "dispatch", !.stamp = stamp, !.at = at, !.window = w]
Aimed(f, w, seen, gone) ==
  [f EXCEPT !.pc = "close", !.window = w, !.seen = seen, !.gone = gone]
Stepped(f) == [f EXCEPT !.pc = "dispatch", !.step = @ + 1]

Become(c, frame) == call' = [call EXCEPT ![c] = frame]

\* A frame moves on; nothing else of the invocation changes.
Goto(c, pc) == Become(c, Moved(call[c], pc))

\* Dispatch produced a result, which is audited next.
Produce(c, outcome) == Become(c, Produced(call[c], outcome))

\* Dispatch did the destructive thing and reports success.
Succeed(c) == Become(c, Acted(call[c]))

\* Dispatch did it, and its task panics before there is a result.
Panic(c) == Become(c, Died(call[c]))

\* MUTANT of RejectTo: the refusal is never audited.
RejectSilently(c, pc, outcome) ==
  Become(c, [call[c] EXCEPT !.pc = pc, !.outcome = outcome])

\* An early return that emits its audit record on the way out.
RejectTo(c, pc, outcome) ==
  Become(c, Rejected(call[c], pc, outcome))

\* The destructive thing happens in the world.
Effect(c, hit) ==
  /\ effects' = effects \cup
       {[tok |-> call[c].tok, caller |-> call[c].caller, tool |-> call[c].tool,
         arg |-> call[c].arg, target |-> call[c].target, hit |-> hit,
         at |-> call[c].at, via |-> call[c].via, gone |-> call[c].gone]}
  /\ uses' = IF call[c].tok \in Tokens
             THEN [uses EXCEPT ![call[c].tok] = @ + 1] ELSE uses

\* One challenge at most comes out of a request, so this many tokens suffice.
Busy == {s \in Slots : call[<<s, 1>>].pc # "idle"}
TokensSuffice == Cardinality(issued) + Cardinality(Busy) < Cardinality(Tokens)

Requests == {r \in [tool : ClientTools, arg : Args] :
               CASE r.tool = "system_command" -> r.arg \in Commands
                 [] r.tool = "window_control" -> r.arg \in Selectors \cup {None}
                 [] r.tool = "replay_action" -> r.arg \in 0..MaxIndex
                 [] r.tool = "plugin_run" -> r.arg \in Plugins
                 [] OTHER -> r.arg = None}

\* tools/call: the client may present any token the server ever sent anyone.
Submit(s, caller) ==
  /\ call[<<s, 1>>].pc = "idle"
  /\ TokensSuffice /\ nextIndex < MaxIndex
  /\ \E r \in Requests, t \in issued \cup {None} :
       Become(<<s, 1>>, NewCall(caller, r.tool, r.arg, t, "client"))
  /\ UNCHANGED <<now, consentVars, screenVars, histVars, ghostVars>>

\* The result reaches the client.
Return(s) ==
  /\ call[<<s, 1>>].pc = "returned"
  /\ Become(<<s, 1>>, Idle)
  /\ UNCHANGED <<now, consentVars, screenVars, histVars, ghostVars>>

-----------------------------------------------------------------------------
(* The gates *)

CategoryGate(c) == call[c].tool \in EnabledTools

\* MUTANT of PolicyGate: nested invocations inherit the verdict of their parent.
PolicyGateClientOnly(c) ==
  call[c].via # "client" \/ call[c].tool \in AllowedTools[call[c].caller]

PolicyGate(c) == call[c].tool \in AllowedTools[call[c].caller]

Gate(c) ==
  /\ call[c].pc = "gate"
  /\ \/ ~CategoryGate(c) /\ RejectTo(c, "returned", "error")
     \/ CategoryGate(c) /\ ~PolicyGate(c) /\ RejectTo(c, "returned", "denied")
     \/ CategoryGate(c) /\ PolicyGate(c) /\ Goto(c, "resolve")
  /\ UNCHANGED <<now, consentVars, screenVars, histVars, ghostVars>>

Open == {w \in Windows : win[w] # None}

\* Exact id first, else the one window whose title or class contains it.
Candidates(sel) ==
  IF sel \in Open THEN {sel} ELSE {w \in Open : sel \in win[w]}

\* What the window list says a selector means; None is the focused window.
\* None as a result: nothing matches, or more than one window does.
Lookup(sel) ==
  IF sel = None THEN active
  ELSE IF \E w \in Open : Candidates(sel) = {w}
       THEN CHOOSE w \in Open : Candidates(sel) = {w} ELSE None

\* Where the back end has a focused-view selector, it and no selector at all
\* mean whatever view has the focus when the request is made.
MeansFocus(sel) == FocusedView # None /\ sel \in {FocusedView, None}

\* MUTANT of ResolveCloseTarget: the selector is bound instead of the window.
BindSelector(c) ==
  /\ call[c].pc = "resolve"
  /\ Become(c, Targeted(call[c], call[c].arg))
  /\ UNCHANGED <<now, consentVars, screenVars, histVars, ghostVars>>

\* What a close can be bound to: the focused view as such and no other window
\* where there is a selector for it, else the id the list gives; a back end
\* fault resolves to nothing.
CloseTargets(sel) ==
  IF FocusedView = None THEN {Lookup(sel), None}
  ELSE {IF MeansFocus(sel) THEN FocusedView ELSE None}

\* The identity a close is bound to.
ResolveCloseTarget(c) ==
  /\ call[c].pc = "resolve"
  /\ \E target \in IF call[c].tool = "window_control"
                   THEN CloseTargets(call[c].arg) ELSE {None} :
       Become(c, Targeted(call[c], target))
  /\ UNCHANGED <<now, consentVars, screenVars, histVars, ghostVars>>

\* A scope record still within its lifetime.
Fresh(rec) == now - rec.issued <= Ttl

\* MUTANT of Verifies: the caller is not compared.
VerifiesAnyCaller(c) ==
  LET rec == tokens[call[c].tok] IN
  /\ rec # None /\ Fresh(rec)
  /\ rec.tool = call[c].tool /\ rec.arg = call[c].arg
  /\ rec.target = call[c].target

\* MUTANT of Verifies: the resolved target is not compared.
VerifiesAnyTarget(c) ==
  LET rec == tokens[call[c].tok] IN
  /\ rec # None /\ Fresh(rec)
  /\ rec.caller = call[c].caller
  /\ rec.tool = call[c].tool /\ rec.arg = call[c].arg

\* ConsentGate::verify on the record the presented token maps to.
Verifies(c) ==
  LET rec == tokens[call[c].tok] IN
  /\ rec # None
  /\ Fresh(rec)
  /\ rec.caller = call[c].caller
  /\ rec.tool = call[c].tool
  /\ rec.arg = call[c].arg
  /\ rec.target = call[c].target

\* MUTANT of Admit: the close keeps the selector the client sent.
AdmitUnbound(c, stamp) == Become(c, Admitted(call[c], stamp, now, call[c].arg))

\* Past the gate: stamp the audit record, and bind a close to the resolved
\* id by putting it in place of the selector.
Admit(c, stamp) ==
  Become(c, Admitted(call[c], stamp, now,
                     IF call[c].target = None THEN call[c].arg
                     ELSE call[c].target))

\* MUTANT of Consume: a token that verifies stays in the map.
ConsumeRejected(c) ==
  tokens' = IF Verifies(c) THEN tokens
            ELSE [tokens EXCEPT ![call[c].tok] = None]

\* The token leaves the map on any attempt, whatever the verdict.
Consume(c) == tokens' = [tokens EXCEPT ![call[c].tok] = None]

ConsentCheck(c) ==
  /\ call[c].pc = "consent"
  /\ \/ /\ call[c].tool \notin Destructive
        /\ Admit(c, None) /\ UNCHANGED tokens
     \/ /\ call[c].tool \in Destructive /\ AllowDestructive
        /\ Admit(c, "bypassed") /\ UNCHANGED tokens
     \/ /\ call[c].tool \in Destructive /\ ~AllowDestructive
        /\ call[c].tok = None
        /\ RejectTo(c, "challenge", "consent_required") /\ UNCHANGED tokens
     \/ /\ call[c].tool \in Destructive /\ ~AllowDestructive
        /\ call[c].tok \in Tokens
        /\ Consume(c)
        /\ IF Verifies(c) THEN Admit(c, "verified")
           ELSE RejectTo(c, "challenge", "consent_required")
  /\ UNCHANGED <<now, issued, grant, screenVars, histVars, ghostVars>>

\* A fresh token for the refused call, bound to all it was checked against;
\* stale records are dropped from the map on the way.
Challenge(c) ==
  /\ call[c].pc = "challenge"
  /\ \E t \in Tokens \ issued :
       LET rec == [caller |-> call[c].caller, tool |-> call[c].tool,
                   arg |-> call[c].arg, target |-> call[c].target,
                   issued |-> now]
       IN /\ issued' = issued \cup {t}
          /\ grant' = [grant EXCEPT ![t] = rec]
          /\ tokens' = [u \in Tokens |->
                          IF u = t THEN rec
                          ELSE IF tokens[u] # None /\ Fresh(tokens[u])
                               THEN tokens[u] ELSE None]
  /\ Goto(c, "returned")
  /\ UNCHANGED <<now, screenVars, histVars, ghostVars>>

-----------------------------------------------------------------------------
(* Dispatch *)

At(c, tool) == call[c].pc = "dispatch" /\ call[c].tool = tool

\* exec_system_command: refused by the whitelist, failed to spawn, or run (a
\* timed-out command did run and counts as ok); cutting its output to 64 KiB
\* panics where the cut falls inside a character.
ExecSystemCommand(c) ==
  /\ At(c, "system_command")
  /\ \/ \E o \in {"error", "tool_error"} :
          Produce(c, o) /\ UNCHANGED ghostVars
     \/ /\ Effect(c, None)
        /\ Succeed(c) \/ Panic(c)
  /\ UNCHANGED <<now, consentVars, screenVars, histVars>>

\* A tool outside the consent class.
RunUngated(c) ==
  /\ At(c, "get_windows")
  /\ \E o \in {"ok", "tool_error", "error"} : Produce(c, o)
  /\ UNCHANGED <<now, consentVars, screenVars, histVars, ghostVars>>

\* The request to close goes to w; where a back end has a focused-view selector
\* the ids are of one snapshot, and the title and class go with the request.
Aim(c, w) ==
  LET seen == IF w \in Open /\ FocusedView # None THEN win[w] ELSE None IN
  Become(c, Aimed(call[c], w, seen, call[c].target \notin Open))

\* admin.rs window_control, first half: the focused view is addressed as such;
\* any other window argument is looked up in the list reported now.
ResolveWindow(c) ==
  LET sel == call[c].window
      w   == Lookup(sel)
  IN
  /\ At(c, "window_control")
  /\ \/ MeansFocus(sel) /\ Aim(c, FocusedView)
     \/ ~MeansFocus(sel) /\ Produce(c, "tool_error")
     \/ ~MeansFocus(sel) /\ w = None /\ sel # None /\ Produce(c, "error")
     \/ ~MeansFocus(sel) /\ w \in Open /\ Aim(c, w)
  /\ UNCHANGED <<now, consentVars, screenVars, histVars, ghostVars>>

\* A window that disappears takes the focus with it.
CloseWindow(w) ==
  /\ win' = [win EXCEPT ![w] = None]
  /\ active' = IF active = w THEN None ELSE active

\* The window a request to close meets: the one in focus, or the one that has
\* the id now.  A back end with a focused-view selector checks that the title
\* and class are still those of the lookup (expect_title, expect_class).
Met(c) == IF call[c].window = FocusedView THEN active ELSE call[c].window
Expected(c) ==
  FocusedView \notin {None, call[c].window} => win[Met(c)] = call[c].seen

\* Second half: the compositor is told to close it.  A request that meets no
\* window may be reported as applied.
DispatchClose(c) ==
  /\ call[c].pc = "close"
  /\ \/ /\ Produce(c, "tool_error")
        /\ UNCHANGED <<screenVars, ghostVars>>
     \/ /\ Met(c) \notin Open /\ Produce(c, "ok")
        /\ UNCHANGED <<screenVars, ghostVars>>
     \/ /\ Met(c) \in Open /\ Expected(c)
        /\ CloseWindow(Met(c))
        /\ Effect(c, Met(c))
        /\ Succeed(c)
  /\ UNCHANGED <<now, consentVars, histVars>>

\* HistoryStore::clear: the records go and indices start again at 0.
ClearActionHistory(c) ==
  /\ At(c, "clear_action_history")
  /\ \/ Produce(c, "error") /\ UNCHANGED <<histVars, ghostVars>>
     \/ /\ hist' = <<>> /\ nextIndex' = 0
        /\ Effect(c, None)
        /\ Succeed(c)
  /\ UNCHANGED <<now, consentVars, screenVars>>

Records(i) == {k \in DOMAIN hist : hist[k].index = i}

\* An invocation made on behalf of c, by replay or by a plugin.
Enter(c, tool, arg, tok) ==
  call' = [call EXCEPT
    ![c] = Moved(@, "nested"),
    ![Child(c)] = NewCall(call[c].caller, tool, arg, tok,
                          IF call[c].tool = "replay_action"
                          THEN "replay" ELSE IF call[c].via = "replay"
                          THEN "replay" ELSE "plugin")]

\* The recorded call goes back through the whole pipeline, with the arguments
\* the record holds: the token was stripped when it was recorded.
ReplayAction(c) ==
  /\ At(c, "replay_action")
  /\ \/ /\ \A k \in Records(call[c].arg) : hist[k].redacted
        /\ Produce(c, "error")
     \/ \E k \in Records(call[c].arg) :
          /\ ~hist[k].redacted
          /\ Enter(c, hist[k].tool, hist[k].arg, hist[k].tok)
  /\ UNCHANGED <<now, consentVars, screenVars, histVars, ghostVars>>

\* run_manifest: the next step, with the caller's token where the step's
\* arguments reference it; a run past the last step has succeeded.  The
\* manifest may be gone, or the caller denied it by name.
RunManifest(c) ==
  /\ At(c, "plugin_run")
  /\ LET steps == Manifest[call[c].arg] IN
     \/ call[c].step = 1 /\ Produce(c, "error")
     \/ /\ call[c].arg \in Plugins /\ call[c].step <= Len(steps)
        /\ LET st == steps[call[c].step] IN
           Enter(c, st.tool, st.arg, IF st.threads THEN call[c].tok ELSE None)
     \/ call[c].arg \in Plugins /\ call[c].step > Len(steps)
        /\ Produce(c, "ok")
  /\ UNCHANGED <<now, consentVars, screenVars, histVars, ghostVars>>

\* outcome_of the parent: a policy refusal surfaces as a plain JSON-RPC error,
\* and a step's isError result becomes a PluginStepError.
OuterOutcome(tool, o) ==
  IF o = "denied" \/ (tool = "plugin_run" /\ o = "tool_error")
  THEN "error" ELSE o

\* The nested invocation is over: replay passes its result on, a plugin goes
\* to its next step or stops at the first failure.
ResumeParent(c) ==
  /\ call[c].pc = "nested"
  /\ Child(c) \in Calls /\ call[Child(c)].pc = "returned"
  /\ LET o == call[Child(c)].outcome
         more == call[c].tool = "plugin_run" /\ o = "ok"
         next == IF more
                 THEN Stepped(call[c])
                 ELSE Produced(call[c], OuterOutcome(call[c].tool, o))
     IN call' = [call EXCEPT ![Child(c)] = Idle, ![c] = next]
  /\ UNCHANGED <<now, consentVars, screenVars, histVars, ghostVars>>

-----------------------------------------------------------------------------
(* Audit and history *)

\* Every invocation that passed the gates emits one record, ok or not.
AuditRecord(c) ==
  /\ call[c].pc = "audit"
  /\ Become(c, Audited(call[c]))
  /\ UNCHANGED <<now, consentVars, screenVars, histVars, ghostVars>>

IsUnrecorded(tool) == tool \in {"replay_action", "clear_action_history"}

\* MUTANT of RecordOf: the arguments are stored as they came.
RecordVerbatim(c) ==
  [index |-> nextIndex, tool |-> call[c].tool, arg |-> call[c].arg,
   tok |-> call[c].tok, redacted |-> FALSE]

\* What the store keeps of a call: the top-level token is stripped, and a
\* plugin's parameters (where a threaded token travels) are redacted.
RecordOf(c) ==
  [index |-> nextIndex, tool |-> call[c].tool, arg |-> call[c].arg,
   tok |-> None, redacted |-> call[c].tool = "plugin_run" /\ call[c].tok # None]

\* MUTANT of HistoryRecord: the result waits for the record to be stored.
HistoryRecordOrHang(c) ==
  /\ call[c].pc = "record"
  /\ ~IsUnrecorded(call[c].tool)
  /\ hist' = Append(IF Len(hist) >= HistoryCap THEN Tail(hist) ELSE hist,
                    RecordOf(c))
  /\ nextIndex' = nextIndex + 1
  /\ Goto(c, "returned")
  /\ UNCHANGED <<now, consentVars, screenVars, ghostVars>>

\* The oldest record makes room at the cap; a store fault loses the record
\* and never the call.
HistoryRecord(c) ==
  /\ call[c].pc = "record"
  /\ \/ UNCHANGED histVars
     \/ /\ ~IsUnrecorded(call[c].tool)
        /\ hist' = Append(IF Len(hist) >= HistoryCap THEN Tail(hist) ELSE hist,
                          RecordOf(c))
        /\ nextIndex' = nextIndex + 1
  /\ Goto(c, "returned")
  /\ UNCHANGED <<now, consentVars, screenVars, ghostVars>>

-----------------------------------------------------------------------------
(* The world outside: the clock and the compositor *)

Tick ==
  /\ now < MaxClock
  /\ now' = now + 1
  /\ UNCHANGED <<consentVars, screenVars, histVars, call, ghostVars>>

\* A window opens, or changes its title; a new window may take the focus.
OpenWindow(w) ==
  /\ \E names \in WindowTexts : win' = [win EXCEPT ![w] = names]
  /\ UNCHANGED <<now, consentVars, active, histVars, call, ghostVars>>

FocusWindow(w) ==
  /\ w \in Open /\ active' = w
  /\ UNCHANGED <<now, consentVars, win, histVars, call, ghostVars>>

UserCloses(w) ==
  /\ w \in Open /\ CloseWindow(w)
  /\ UNCHANGED <<now, consentVars, histVars, call, ghostVars>>

-----------------------------------------------------------------------------
Init ==
  /\ now = 0
  /\ tokens = [t \in Tokens |-> None] /\ grant = [t \in Tokens |-> None]
  /\ issued = {}
  /\ win = [w \in Windows |-> None] /\ active = None
  /\ hist = <<>> /\ nextIndex = 0
  /\ call = [c \in Calls |-> Idle]
  /\ effects = {} /\ uses = [t \in Tokens |-> 0]

\* One step of the task that runs an invocation.
Step(c) ==
  \/ Gate(c) \/ ResolveCloseTarget(c) \/ ConsentCheck(c) \/ Challenge(c)
  \/ ExecSystemCommand(c) \/ RunUngated(c)
  \/ ResolveWindow(c) \/ DispatchClose(c)
  \/ ClearActionHistory(c) \/ ReplayAction(c) \/ RunManifest(c)
  \/ ResumeParent(c) \/ AuditRecord(c) \/ HistoryRecord(c)

World ==
  \/ Tick
  \/ \E w \in Windows : OpenWindow(w) \/ FocusWindow(w) \/ UserCloses(w)

Next ==
  \/ \E s \in Slots, caller \in Callers : Submit(s, caller)
  \/ \E s \in Slots : Return(s)
  \/ \E c \in Calls : Step(c)
  \/ World

Spec == Init /\ [][Next]_vars

\* An invocation waits for a provider, and nothing bounds that wait: the
\* pipeline has no time-out of its own, and some providers have none (the
\* clipboard's write to its helper, roundtrips on a Wayland connection).
AtProvider(c) ==
  \/ /\ call[c].pc = "resolve" /\ call[c].tool = "window_control"
     /\ FocusedView = None
  \/ call[c].pc = "dispatch" /\ call[c].tool = "get_windows"
  \/ /\ call[c].pc = "dispatch" /\ call[c].tool = "window_control"
     /\ ~MeansFocus(call[c].window)
  \/ call[c].pc = "close"

\* A runtime worker keeps polling the task of every request, and the awaits
\* outside the providers end: a spawned command is waited for 15 s and
\* file work on a blocking thread returns.  Providers, clients, the clock and
\* the compositor owe nothing.
Fairness == \A c \in Calls : WF_vars(~AtProvider(c) /\ Step(c))

FairSpec == Spec /\ Fairness

-----------------------------------------------------------------------------
(* Types *)

Outcomes == {None, "ok", "tool_error", "error", "denied", "consent_required",
             "panicked"}

Scopes == [caller : Callers, tool : Tools, arg : Args,
           target : Targets, issued : 0..MaxClock]

Pcs == {"idle", "gate", "resolve", "consent", "challenge", "dispatch",
        "nested", "close", "audit", "record", "returned", "panicked"}

Frames ==
  [pc : Pcs, caller : Callers \cup {None}, tool : Tools \cup {None}, arg : Args,
   tok : Tokens \cup {None}, via : {"client", "replay", "plugin"},
   target : Targets, window : Args, seen : WindowTexts \cup {None},
   gone : BOOLEAN, stamp : {None, "verified", "bypassed"}, at : 0..MaxClock, step : Nat \ {0},
   outcome : Outcomes, audits : Nat, acted : BOOLEAN]

\* A frame in use belongs to a caller and a tool, and only
\* window_control is ever about to close a window.
FrameOK(f) ==
  /\ f \in Frames
  /\ f.pc = "close" => f.tool = "window_control"
  /\ f.pc # "idle" => f.caller \in Callers /\ f.tool \in Tools

HistRecords == [index : Nat, tool : Tools, arg : Args,
                tok : Tokens \cup {None}, redacted : BOOLEAN]

Effects == [tok : Tokens \cup {None}, caller : Callers, tool : Tools,
            arg : Args, target : Targets, hit : Windows \cup {None},
            at : 0..MaxClock, via : {"client", "replay", "plugin"},
            gone : BOOLEAN]

\* Every variable keeps its type.
TypeOK ==
  /\ now \in 0..MaxClock
  /\ tokens \in [Tokens -> Scopes \cup {None}]
  /\ grant \in [Tokens -> Scopes \cup {None}]
  /\ issued \subseteq Tokens
  /\ win \in [Windows -> WindowTexts \cup {None}]
  /\ active \in Windows \cup {None}
  /\ hist \in Seq(HistRecords) /\ nextIndex \in Nat
  /\ call \in [Calls -> Frames] /\ \A c \in Calls : FrameOK(call[c])
  /\ effects \subseteq Effects
  /\ uses \in [Tokens -> Nat]

-----------------------------------------------------------------------------
(* Safety *)

\* An invocation that is past the consent check and has not acted yet.
Holding(f) == f.tool \in Destructive /\ f.pc \in {"dispatch", "close"}

\* A token that can no longer be presented and has authorised nothing yet.
Unspent(t) == tokens[t] = None /\ uses[t] = 0

\* f acts under a token of its own, issued for all it was checked against.
Authorised(f) ==
  /\ f.tok \in Tokens /\ grant[f.tok] # None
  /\ grant[f.tok].caller = f.caller /\ grant[f.tok].tool = f.tool
  /\ grant[f.tok].arg = f.arg /\ grant[f.tok].target = f.target
  /\ f.at <= grant[f.tok].issued + Ttl
  /\ Unspent(f.tok)

\* The ledger behind the gate: what can be presented was issued with that very
\* scope and never used; an invocation past the check owns a token nobody
\* else holds or can present (consent.rs verify, under one lock).
ConsentLedger ==
  ~AllowDestructive =>
    /\ \A t \in Tokens : tokens[t] # None =>
         t \in issued /\ tokens[t] = grant[t] /\ uses[t] = 0
    /\ \A t \in Tokens \ issued : grant[t] = None /\ uses[t] = 0
    /\ \A c \in Calls : Holding(call[c]) => Authorised(call[c])
    /\ \A c, d \in Calls :
         (Holding(call[c]) /\ Holding(call[d]) /\ call[c].tok = call[d].tok)
           => c = d

\* No destructive effect without consent (SECURITY: "destructive tools are
\* gated"): the token behind every effect was issued for that very caller,
\* tool, arguments and resolved target, and was redeemed within its lifetime,
\* however requests, the clock and nested invocations interleave.
ConsentSound ==
  ~AllowDestructive =>
    \A e \in effects :
      /\ e.tok \in Tokens
      /\ grant[e.tok] # None
      /\ grant[e.tok].caller = e.caller
      /\ grant[e.tok].tool = e.tool
      /\ grant[e.tok].arg = e.arg
      /\ grant[e.tok].target = e.target
      /\ e.at <= grant[e.tok].issued + Ttl

\* A token authorises at most one effect, even when two requests present it
\* at the same time (consent.rs verify removes it before comparing).
TokenSingleUse == ~AllowDestructive => \A t \in Tokens : uses[t] <= 1

\* Replaying a record never performs a destructive action, directly or
\* through a recorded plugin run: the consent of the recorded call, and the
\* consent given to replay_action, authorise nothing else (admin.rs
\* replay_action, history.rs redact_args).
ReplayInheritsNothing ==
  ~AllowDestructive => \A e \in effects : e.via # "replay"

\* Neither replay nor a plugin launders a tool its caller may not use: every
\* effect is of an enabled category and within the caller's role.
PolicyNotLaundered ==
  \A e \in effects : e.tool \in EnabledTools \cap AllowedTools[e.caller]

\* "Every tool call, accepted or rejected, appends exactly one record"
\* (security/mod.rs): an invocation that has returned, nested ones included,
\* has called audit_record once (whether the line reaches the file is
\* AuditLog's question: the pipeline only warns of an append that fails); one
\* audited as refused did nothing, and one that did something carries the
\* stamp of how it got past the gate.
AuditedOnce ==
  \A c \in Calls :
    /\ call[c].pc \in {"challenge", "record", "returned"} => call[c].audits = 1
    /\ call[c].acted => call[c].stamp = IF AllowDestructive THEN "bypassed"
                                        ELSE "verified"
    /\ call[c].outcome \in {"denied", "consent_required", "error"}
         => ~call[c].acted

\* A close bound at challenge time to the id of a window goes to the window of
\* that id or to none, as long as the id is in the list when the close is
\* dispatched: no change of focus or of titles between the challenge, the retry
\* and the dispatch sends it elsewhere (tools/mod.rs 730-735, admin.rs
\* resolve_window).  A close bound to the focused view goes where the focus is.
BoundCloseHitsTarget ==
  \A e \in effects :
    (e.tool = "window_control" /\ e.target \in Windows /\ e.target # None)
      => e.hit = e.target \/ e.gone

\* "a selector that would now match a different window - or a focus change
\* since the challenge - cannot redirect the close" (tools/mod.rs 730-734).
CloseNeverRedirected ==
  \A e \in effects :
    (e.tool = "window_control" /\ e.target # None) => e.hit = e.target

-----------------------------------------------------------------------------
(* Liveness *)

\* A request is unanswered for good only in one of two ways: an invocation it
\* made waits for a provider that never answers, or a panic ended its task.
Lost(s) ==
  \E d \in Depths : AtProvider(<<s, d>>) \/ call[<<s, d>>].pc = "panicked"

\* Every request is answered unless it is lost in that way: no nesting of
\* replay and plugins, no refusal and no fault of the gates, the audit or the
\* history leaves it without a result.
RequestsReturn ==
  \A s \in Slots :
    call[<<s, 1>>].pc # "idle" ~> (call[<<s, 1>>].pc = "returned" \/ []Lost(s))

-----------------------------------------------------------------------------
(* Refinement *)

\* An offer stands while its token can be presented, and while an invocation
\* that presented it is past the check and has yet to act.
Standing ==
  {t \in Tokens : \/ tokens[t] # None
                  \/ \E c \in Calls : Holding(call[c]) /\ call[c].tok = t}

\* What can still be done under each token.
Offers == [t \in Tokens |-> IF t \in Standing THEN grant[t] ELSE None]

Promise == INSTANCE ConsentPromise WITH
  drawn <- issued, deeds <- effects, offers <- Offers

\* The pipeline keeps the gate's promise: it implements ConsentPromise.
KeepsPromise == Promise!Spec
=============================================================================
