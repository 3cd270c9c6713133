------------------------- MODULE MCSecuredDispatch -------------------------
(***************************************************************************)
(* Small instances of SecuredDispatch for TLC.  Three of them share a run: *)
(* what clients do and what changes around them is picked at the start,    *)
(* and the whole pipeline is explored under it.                            *)
(***************************************************************************)
EXTENDS SecuredDispatch, TLC

CONSTANTS Workloads,  \* the instances explored
          c1, c2, c3, w1, w2, title, cmd, macro, focused

VARIABLE workload

\* A macro that first runs an ungated step (which may fail) and then two
\* destructive ones: the first gets the caller's token, the second none.
MCManifest ==
  (macro :> << [tool |-> "get_windows", arg |-> None, threads |-> FALSE],
               [tool |-> "system_command", arg |-> cmd, threads |-> TRUE],
               [tool |-> "system_command", arg |-> cmd, threads |-> FALSE] >>)

\* The third caller may run macros and replay, but no command.
Roles == [c \in Callers |-> IF c = c3 THEN Tools \ {"system_command"} ELSE Tools]

AllTools == Tools
BypassTools == {"replay_action", "clear_action_history", "plugin_run",
                "window_control"}

\* Titles that may contain the id of a window, and titles that do not.
IdTexts == {{}, {title}, {w1}, {title, w1}}
PlainTexts == {{title}}

-----------------------------------------------------------------------------
\* "race": two requests of two callers and a clock that lets tokens expire;
\* "close": one request, and windows that open, change, move focus and go;
\* "reentry": one request at a time that replays and runs the macro;
\* "bypass": two requests that replay, run the macro and clear the history;
\* "focus": one request, for a window or for the view in focus.
Load(w) ==
  CASE w = "race" -> [clients |-> {c1, c2}, slots |-> Slots,
                      tools |-> {"system_command"}, tokens |-> 3,
                      clock |-> TRUE, screen |-> FALSE]
    [] w = "close" -> [clients |-> {c1}, slots |-> {CHOOSE s \in Slots : TRUE},
                       tools |-> {"window_control"}, tokens |-> 2,
                       clock |-> FALSE, screen |-> TRUE]
    [] w = "reentry" -> [clients |-> {c1, c3}, slots |-> {CHOOSE s \in Slots : TRUE},
                         tools |-> {"replay_action", "plugin_run", "system_command"},
                         tokens |-> 3, clock |-> FALSE, screen |-> FALSE]
    [] w = "bypass" -> [clients |-> {c3}, slots |-> Slots,
                        tools |-> {"replay_action", "clear_action_history", "plugin_run"},
                        tokens |-> 3, clock |-> FALSE, screen |-> FALSE]
    [] w = "focus" -> [clients |-> {c3}, slots |-> {CHOOSE s \in Slots : TRUE},
                       tools |-> {"window_control", "replay_action"},
                       tokens |-> 3, clock |-> FALSE, screen |-> TRUE]

\* Next, as far as the workload goes.
WorkloadNext ==
  LET l == Load(workload) IN
  \/ \E s \in l.slots, caller \in l.clients :
       /\ Cardinality(issued) + Cardinality(Busy) < l.tokens
       /\ Submit(s, caller) /\ call'[<<s, 1>>].tool \in l.tools
  \/ \E s \in Slots : Return(s)
  \/ \E c \in Calls : Step(c)
  \/ l.clock /\ Tick
  \/ l.screen /\ \E w \in Windows : OpenWindow(w) \/ FocusWindow(w) \/ UserCloses(w)

WorkloadInit == Init /\ workload \in Workloads

WorkloadSpec ==
  WorkloadInit /\ [][WorkloadNext /\ UNCHANGED workload]_<<vars, workload>>

\* The same with the fairness the runtime owes.
BypassSpec ==
  /\ WorkloadInit
  /\ [][WorkloadNext /\ UNCHANGED workload]_<<vars, workload>>
  /\ Fairness

-----------------------------------------------------------------------------
TokenSymmetry == Permutations(Tokens)
=============================================================================
