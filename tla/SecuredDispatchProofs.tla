----------------------- MODULE SecuredDispatchProofs -----------------------
(***************************************************************************)
(* Proofs about SecuredDispatch, for any number of concurrent requests,    *)
(* callers, windows, tokens and manifests.                                 *)
(***************************************************************************)
EXTENDS SecuredDispatch, TLAPS

\* A selector means an open window or nothing (admin.rs resolve_window).
LEMMA LookupType ==
  ASSUME TypeOK, NEW sel
  PROVE  Lookup(sel) \in Windows \cup {None}
BY DEF TypeOK, Lookup, Open

\* A fresh frame is well typed (call_tool_secured_with_peer).
LEMMA NewCallType ==
  ASSUME NEW caller \in Callers, NEW tool \in Tools, NEW arg \in Args,
         NEW tok \in Tokens \cup {None}, NEW via \in {"client", "replay", "plugin"}
  PROVE  /\ NewCall(caller, tool, arg, tok, via) \in Frames
         /\ NewCall(caller, tool, arg, tok, via).caller = caller
         /\ NewCall(caller, tool, arg, tok, via).tool = tool
         /\ NewCall(caller, tool, arg, tok, via).via = via
BY ConstantsAssumption DEF ConstantsAssumption, NewCall, Frames, Pcs, Outcomes, Args,
         Targets

\* The empty slot is a well-typed frame.
LEMMA IdleType == Idle \in Frames /\ Idle.pc = "idle"
<1> DEFINE blank == NewCall(None, None, None, None, "client")
<1>1. blank \in Frames
  BY ConstantsAssumption
     DEF ConstantsAssumption, NewCall, Frames, Pcs, Outcomes, Args,
         Targets
<1> HIDE DEF blank
<1>2. [blank EXCEPT !.pc = "idle"] \in Frames
  BY <1>1 DEF Frames, Pcs
<1>3. [blank EXCEPT !.pc = "idle"].pc = "idle"
  BY <1>1 DEF Frames
<1> QED BY <1>2, <1>3 DEF Idle, blank

-----------------------------------------------------------------------------
(* How the pipeline changes a frame *)

\* The scope of an invocation: what its consent is compared with.
SameScope(f, g) ==
  /\ g.caller = f.caller /\ g.tool = f.tool /\ g.arg = f.arg /\ g.tok = f.tok
  /\ g.target = f.target /\ g.at = f.at /\ g.via = f.via

\* Moving on keeps a frame good and its scope as it was.
LEMMA MovedOK ==
  ASSUME NEW f, FrameOK(f), NEW pc \in Pcs \ {"close"}, f.pc # "idle"
  PROVE  /\ FrameOK(Moved(f, pc)) /\ Moved(f, pc).pc = pc
         /\ SameScope(f, Moved(f, pc))
BY DEF FrameOK, Frames, Pcs, SameScope, Moved

\* So does getting a result.
LEMMA ProducedOK ==
  ASSUME NEW f, FrameOK(f), f.pc # "idle", NEW o \in Outcomes
  PROVE  /\ FrameOK(Produced(f, o)) /\ Produced(f, o).pc = "audit"
         /\ SameScope(f, Produced(f, o))
BY DEF FrameOK, Frames, Pcs, SameScope, Produced

\* So does having acted.
LEMMA ActedOK ==
  ASSUME NEW f, FrameOK(f), f.pc # "idle"
  PROVE  /\ FrameOK(Acted(f)) /\ Acted(f).pc = "audit"
         /\ SameScope(f, Acted(f))
BY DEF FrameOK, Frames, Pcs, SameScope, Acted, Outcomes

\* So does having died of it.
LEMMA DiedOK ==
  ASSUME NEW f, FrameOK(f), f.pc # "idle"
  PROVE  /\ FrameOK(Died(f)) /\ Died(f).pc = "panicked"
         /\ SameScope(f, Died(f))
BY DEF FrameOK, Frames, Pcs, SameScope, Died, Outcomes

\* So does a refusal, which counts its audit record.
LEMMA RejectedOK ==
  ASSUME NEW f, FrameOK(f), NEW pc \in Pcs \ {"close"}, f.pc # "idle",
         NEW o \in Outcomes
  PROVE  /\ FrameOK(Rejected(f, pc, o)) /\ Rejected(f, pc, o).pc = pc
         /\ SameScope(f, Rejected(f, pc, o))
<1>1. PICK n \in Nat : n = f.audits + 1
  BY DEF FrameOK, Frames
<1>2. PICK g : g = [f EXCEPT !.pc = pc, !.outcome = o, !.audits = n]
  OBVIOUS
<1>3. g = Rejected(f, pc, o)
  BY <1>1, <1>2 DEF Rejected
<1>4. g \in Frames
  BY <1>2 DEF FrameOK, Frames, Pcs
<1>5. g.pc = pc /\ SameScope(f, g)
  BY <1>2 DEF FrameOK, Frames, SameScope
<1> QED BY <1>3, <1>4, <1>5 DEF FrameOK, SameScope

\* So does the audit record of a dispatched call.
LEMMA AuditedOK ==
  ASSUME NEW f, FrameOK(f), f.pc # "idle"
  PROVE  /\ FrameOK(Audited(f)) /\ Audited(f).pc = "record"
         /\ SameScope(f, Audited(f))
<1>1. PICK n \in Nat : n = f.audits + 1
  BY DEF FrameOK, Frames
<1>2. PICK g : g = [f EXCEPT !.pc = "record", !.audits = n]
  OBVIOUS
<1>3. g = Audited(f)
  BY <1>1, <1>2 DEF Audited
<1>4. g \in Frames
  BY <1>2 DEF FrameOK, Frames, Pcs
<1>5. g.pc = "record" /\ SameScope(f, g)
  BY <1>2 DEF FrameOK, Frames, SameScope
<1> QED BY <1>3, <1>4, <1>5 DEF FrameOK, SameScope

\* So does a plugin's move to its next step.
LEMMA SteppedOK ==
  ASSUME NEW f, FrameOK(f), f.pc # "idle"
  PROVE  /\ FrameOK(Stepped(f)) /\ Stepped(f).pc = "dispatch"
         /\ SameScope(f, Stepped(f))
<1>1. PICK n \in Nat \ {0} : n = f.step + 1
  BY DEF FrameOK, Frames
<1>2. PICK g : g = [f EXCEPT !.pc = "dispatch", !.step = n]
  OBVIOUS
<1>3. g = Stepped(f)
  BY <1>1, <1>2 DEF Stepped
<1>4. g \in Frames
  BY <1>2 DEF FrameOK, Frames, Pcs
<1>5. g.pc = "dispatch" /\ SameScope(f, g)
  BY <1>2 DEF FrameOK, Frames, SameScope
<1> QED BY <1>3, <1>4, <1>5 DEF FrameOK, SameScope

\* A resolved target makes a good frame that is due for the consent check.
LEMMA TargetedOK ==
  ASSUME NEW f, FrameOK(f), f.pc # "idle", NEW t \in Targets
  PROVE  FrameOK(Targeted(f, t)) /\ Targeted(f, t).pc = "consent"
BY DEF FrameOK, Frames, Pcs, Targeted

\* Admission keeps what the consent was compared with.
LEMMA AdmittedOK ==
  ASSUME NEW f, FrameOK(f), f.pc # "idle",
         NEW stamp \in {None, "verified", "bypassed"}, NEW at \in 0..MaxClock,
         NEW w \in Args
  PROVE  LET g == Admitted(f, stamp, at, w) IN
         /\ FrameOK(g) /\ g.pc = "dispatch" /\ g.at = at
         /\ g.caller = f.caller /\ g.tool = f.tool /\ g.arg = f.arg
         /\ g.tok = f.tok /\ g.target = f.target /\ g.via = f.via
<1> DEFINE g == Admitted(f, stamp, at, w)
<1>1. g \in Frames
  BY DEF FrameOK, Frames, Pcs, Admitted
<1>2. /\ g.pc = "dispatch" /\ g.at = at
      /\ g.caller = f.caller /\ g.tool = f.tool /\ g.arg = f.arg
      /\ g.tok = f.tok /\ g.target = f.target /\ g.via = f.via
  BY DEF FrameOK, Frames, Admitted
<1> HIDE DEF g
<1>3. FrameOK(g)
  BY <1>1, <1>2 DEF FrameOK
<1> QED BY <1>2, <1>3 DEF g

\* Aiming a close changes the window to close, not the scope.
LEMMA AimedOK ==
  ASSUME NEW f, FrameOK(f), f.tool = "window_control", NEW w \in Args,
         f.pc # "idle", NEW seen \in WindowTexts \cup {None}, NEW gone \in BOOLEAN
  PROVE  LET g == Aimed(f, w, seen, gone) IN
         /\ FrameOK(g) /\ g.pc = "close" /\ g.window = w /\ SameScope(f, g)
BY DEF FrameOK, Frames, Pcs, SameScope, Aimed

\* Replacing one frame by a good one keeps all frames good.
LEMMA BecomeType ==
  ASSUME TypeOK, NEW c \in Calls, NEW f, FrameOK(f), Become(c, f)
  PROVE  /\ call' \in [Calls -> Frames] /\ \A d \in Calls : FrameOK(call'[d])
         /\ call'[c] = f /\ \A d \in Calls : d # c => call'[d] = call[d]
BY DEF TypeOK, FrameOK, Become

-----------------------------------------------------------------------------
(* What each step of the pipeline does to the frames *)

FramesNext == call' \in [Calls -> Frames] /\ \A d \in Calls : FrameOK(call'[d])

\* No invocation gets past the consent check, and none changes its scope.
QuietNext == \A d \in Calls : Holding(call'[d]) =>
               Holding(call[d]) /\ SameScope(call[d], call'[d])

\* The common shape: one frame changes, and if it is past the check now it
\* already was, with the same scope.
LEMMA QuietBecome ==
  ASSUME TypeOK, NEW c \in Calls, NEW f, FrameOK(f), Become(c, f),
         Holding(f) => Holding(call[c]) /\ SameScope(call[c], f)
  PROVE  FramesNext /\ QuietNext
<1>1. FramesNext /\ call'[c] = f /\ \A d \in Calls : d # c => call'[d] = call[d]
  BY BecomeType DEF FramesNext
<1>2. \A d \in Calls : SameScope(call[d], call[d])
  BY DEF SameScope
<1> QED BY <1>1, <1>2 DEF QuietNext

\* A frame that moves on, except to dispatch or close, is past no check.
LEMMA GotoQuiet ==
  ASSUME TypeOK, NEW c \in Calls, call[c].pc # "idle",
         NEW pc \in Pcs \ {"close", "dispatch"}, Goto(c, pc)
  PROVE  FramesNext /\ QuietNext
<1>1. FrameOK(Moved(call[c], pc)) /\ Moved(call[c], pc).pc = pc
  BY MovedOK DEF TypeOK
<1> QED BY <1>1, QuietBecome DEF Holding, Goto

\* Nor is one that has its result.
LEMMA ProduceQuiet ==
  ASSUME TypeOK, NEW c \in Calls, call[c].pc # "idle", NEW o \in Outcomes,
         Produce(c, o)
  PROVE  FramesNext /\ QuietNext
<1>1. FrameOK(Produced(call[c], o)) /\ Produced(call[c], o).pc = "audit"
  BY ProducedOK DEF TypeOK
<1> QED BY <1>1, QuietBecome DEF Holding, Produce

\* Nor is one that was refused.
LEMMA RejectQuiet ==
  ASSUME TypeOK, NEW c \in Calls, call[c].pc # "idle", NEW o \in Outcomes,
         NEW pc \in Pcs \ {"close", "dispatch"}, RejectTo(c, pc, o)
  PROVE  FramesNext /\ QuietNext
<1>1. FrameOK(Rejected(call[c], pc, o)) /\ Rejected(call[c], pc, o).pc = pc
  BY RejectedOK DEF TypeOK
<1> QED BY <1>1, QuietBecome DEF Holding, RejectTo

\* An invocation that has acted, and lives or dies.
Done(c) == Succeed(c) \/ Panic(c)

\* It is no longer about to act.
LEMMA DoneQuiet ==
  ASSUME TypeOK, NEW c \in Calls, call[c].pc # "idle", Done(c)
  PROVE  FramesNext /\ QuietNext /\ ~Holding(call'[c])
<1>1. PICK f \in {Acted(call[c]), Died(call[c])} : Become(c, f)
  BY DEF Done, Succeed, Panic
<1>2. FrameOK(f) /\ f.pc \in {"audit", "panicked"}
  BY ActedOK, DiedOK DEF TypeOK
<1>3. call'[c] = f
  BY <1>1, <1>2, BecomeType
<1> QED BY <1>1, <1>2, <1>3, QuietBecome DEF Holding

\* Submit puts a fresh frame into an idle slot.
LEMMA SubmitQuiet ==
  ASSUME TypeOK, NEW s \in Slots, NEW caller \in Callers, Submit(s, caller)
  PROVE  FramesNext /\ QuietNext
<1>1. PICK r \in Requests, t \in issued \cup {None} :
        Become(<<s, 1>>, NewCall(caller, r.tool, r.arg, t, "client"))
  BY DEF Submit
<1> DEFINE g == NewCall(caller, r.tool, r.arg, t, "client")
<1>2. r.tool \in Tools /\ r.arg \in Args /\ t \in Tokens \cup {None}
  BY ConstantsAssumption DEF ConstantsAssumption, Requests, TypeOK
<1>3. g \in Frames /\ g.caller = caller /\ g.tool = r.tool /\ g.via = "client"
      /\ g.pc = "gate"
  BY <1>2, NewCallType DEF NewCall
<1> HIDE DEF g
<1>4. FrameOK(g) /\ ~Holding(g)
  BY <1>2, <1>3, ConstantsAssumption DEF FrameOK, Holding, ConstantsAssumption
<1>5. <<s, 1>> \in Calls
  BY DEF Calls, Depths
<1> QED BY <1>1, <1>4, <1>5, QuietBecome DEF g

\* Return empties a slot.
LEMMA ReturnQuiet ==
  ASSUME TypeOK, NEW s \in Slots, Return(s)
  PROVE  FramesNext /\ QuietNext
<1>1. FrameOK(Idle) /\ ~Holding(Idle)
  BY IdleType DEF FrameOK, Holding
<1>2. <<s, 1>> \in Calls
  BY DEF Calls, Depths
<1> QED BY <1>1, <1>2, QuietBecome DEF Return

\* Category and policy gates.
LEMMA GateQuiet ==
  ASSUME TypeOK, NEW c \in Calls, Gate(c)
  PROVE  FramesNext /\ QuietNext
<1> FrameOK(call[c]) /\ call[c].pc # "idle"
  BY DEF TypeOK, Gate
<1> QED BY GotoQuiet, RejectQuiet DEF Gate, Outcomes, Pcs

\* The target of a close is resolved before the check, never after it.
LEMMA ResolveTargetQuiet ==
  ASSUME TypeOK, NEW c \in Calls, ResolveCloseTarget(c)
  PROVE  FramesNext /\ QuietNext
<1>1. PICK t \in Targets : Become(c, Targeted(call[c], t))
  BY LookupType DEF ResolveCloseTarget, CloseTargets, Targets
<1>2. FrameOK(Targeted(call[c], t)) /\ Targeted(call[c], t).pc = "consent"
  BY TargetedOK DEF TypeOK, ResolveCloseTarget
<1> QED BY <1>1, <1>2, QuietBecome DEF Holding

\* Tools without a consent class produce a result and nothing more.
LEMMA RunUngatedQuiet ==
  ASSUME TypeOK, NEW c \in Calls, RunUngated(c)
  PROVE  FramesNext /\ QuietNext
BY ProduceQuiet DEF RunUngated, At, Outcomes

\* The second lookup changes the window to close, not the scope.
LEMMA ResolveWindowQuiet ==
  ASSUME TypeOK, NEW c \in Calls, ResolveWindow(c)
  PROVE  FramesNext /\ QuietNext
<1>1. ASSUME NEW o \in Outcomes, Produce(c, o) PROVE FramesNext /\ QuietNext
  BY <1>1, ProduceQuiet DEF ResolveWindow, At
<1>2. ASSUME NEW w, w \in Open \/ w = FocusedView, Aim(c, w)
      PROVE  FramesNext /\ QuietNext
  <2>1. w \in Args
    BY <1>2 DEF Args, Selectors, Open
  <2>2. PICK seen \in WindowTexts \cup {None}, gone \in BOOLEAN :
          Become(c, Aimed(call[c], w, seen, gone))
    <3>1. w \in Open => win[w] \in WindowTexts \cup {None}
      BY DEF Open, TypeOK
    <3> QED BY <1>2, <3>1 DEF Aim
  <2> DEFINE f == Aimed(call[c], w, seen, gone)
  <2>3. FrameOK(f) /\ SameScope(call[c], f)
    BY <2>1, AimedOK DEF TypeOK, ResolveWindow, At
  <2>4. Holding(call[c])
    BY DEF ResolveWindow, At, Holding, Destructive
  <2> HIDE DEF f
  <2> QED BY <2>2, <2>3, <2>4, QuietBecome DEF f
<1> QED BY <1>1, <1>2 DEF ResolveWindow, Outcomes

\* What admin.rs and plugin.rs start on behalf of an invocation is a fresh
\* frame, and the invocation itself now waits.
LEMMA EnterQuiet ==
  ASSUME TypeOK, NEW c \in Calls, call[c].pc # "idle", NEW tool \in Tools,
         NEW arg \in Args, NEW tok \in Tokens \cup {None},
         Enter(c, tool, arg, tok)
  PROVE  FramesNext /\ QuietNext
<1>1. FrameOK(Moved(call[c], "nested")) /\ ~Holding(Moved(call[c], "nested"))
  BY MovedOK DEF TypeOK, Pcs, Holding
<1>2. PICK via \in {"client", "replay", "plugin"} :
        call' = [call EXCEPT ![c] = Moved(call[c], "nested"),
                   ![Child(c)] = NewCall(call[c].caller, tool, arg, tok, via)]
  BY DEF Enter
<1>3. call[c].caller \in Callers
  BY DEF TypeOK, FrameOK
<1> DEFINE g == NewCall(call[c].caller, tool, arg, tok, via)
<1>4. g \in Frames /\ g.caller \in Callers /\ g.tool \in Tools
  BY <1>3, NewCallType
<1>5. g.pc = "gate"
  BY DEF NewCall
<1>6. FrameOK(g) /\ ~Holding(g)
  BY <1>4, <1>5 DEF FrameOK, Holding
<1> HIDE DEF g
<1>7. call' = [call EXCEPT ![c] = Moved(call[c], "nested"), ![Child(c)] = g]
  BY <1>2 DEF g
<1>8. \A d \in Calls : \/ call'[d] = call[d]
                       \/ call'[d] = Moved(call[c], "nested") \/ call'[d] = g
  BY <1>7 DEF TypeOK
<1>9. \A d \in Calls : SameScope(call[d], call[d])
  BY DEF SameScope
<1>10. call' \in [Calls -> Frames]
  BY <1>1, <1>6, <1>7 DEF TypeOK, FrameOK
<1> QED BY <1>1, <1>6, <1>8, <1>9, <1>10 DEF TypeOK, FramesNext, QuietNext

\* A replayed call starts with what the record holds.
LEMMA ReplayQuiet ==
  ASSUME TypeOK, NEW c \in Calls, ReplayAction(c)
  PROVE  FramesNext /\ QuietNext
<1>1. CASE Produce(c, "error")
  BY <1>1, ProduceQuiet DEF ReplayAction, At, Outcomes
<1>2. ASSUME NEW k \in Records(call[c].arg),
             Enter(c, hist[k].tool, hist[k].arg, hist[k].tok)
      PROVE  FramesNext /\ QuietNext
  <2>1. hist[k] \in HistRecords
    BY DEF Records, TypeOK
  <2> QED BY <1>2, <2>1, EnterQuiet DEF HistRecords, ReplayAction, At
<1> QED BY <1>1, <1>2 DEF ReplayAction

\* A plugin step starts with what the manifest holds.
LEMMA ManifestQuiet ==
  ASSUME TypeOK, NEW c \in Calls, RunManifest(c)
  PROVE  FramesNext /\ QuietNext
<1>1. ASSUME NEW o \in Outcomes, Produce(c, o) PROVE FramesNext /\ QuietNext
  BY <1>1, ProduceQuiet DEF RunManifest, At
<1> DEFINE steps == Manifest[call[c].arg]
           st == steps[call[c].step]
           tok == IF st.threads THEN call[c].tok ELSE None
<1>2. CASE /\ call[c].arg \in Plugins /\ call[c].step <= Len(steps)
           /\ Enter(c, st.tool, st.arg, tok)
  <2>1. call[c].step \in Nat \ {0} /\ call[c].tok \in Tokens \cup {None}
    BY DEF TypeOK, FrameOK, Frames
  <2>2. st \in Steps
    BY <1>2, <2>1, ConstantsAssumption DEF ConstantsAssumption
  <2>3. st.tool \in Tools /\ st.arg \in Args
    BY <2>2 DEF Steps
  <2>4. tok \in Tokens \cup {None}
    BY <2>1
  <2> QED BY <1>2, <2>3, <2>4, EnterQuiet DEF RunManifest, At
<1> QED BY <1>1, <1>2 DEF RunManifest, Outcomes

\* When the nested call is over its slot is emptied and the parent goes on.
LEMMA ResumeQuiet ==
  ASSUME TypeOK, NEW c \in Calls, ResumeParent(c)
  PROVE  FramesNext /\ QuietNext
<1> DEFINE o == call[Child(c)].outcome
<1>1. o \in Outcomes /\ OuterOutcome(call[c].tool, o) \in Outcomes
  <2>1. Child(c) \in Calls
    BY DEF ResumeParent
  <2>2. o \in Outcomes
    BY <2>1 DEF TypeOK, FrameOK, Frames
  <2>3. "error" \in Outcomes
    BY DEF Outcomes
  <2> HIDE DEF o
  <2> QED BY <2>2, <2>3 DEF OuterOutcome
<1>2. PICK g : /\ call' = [call EXCEPT ![Child(c)] = Idle, ![c] = g]
               /\ \/ g = Stepped(call[c]) /\ call[c].tool = "plugin_run"
                  \/ g = Produced(call[c], OuterOutcome(call[c].tool, o))
  BY DEF ResumeParent
<1>3. FrameOK(call[c]) /\ call[c].pc # "idle"
  BY DEF TypeOK, ResumeParent
<1>4. FrameOK(g) /\ ~Holding(g)
  BY <1>1, <1>2, <1>3, SteppedOK, ProducedOK DEF Holding, SameScope, Destructive
<1>5. FrameOK(Idle) /\ ~Holding(Idle)
  BY IdleType DEF FrameOK, Holding
<1>6. \A d \in Calls : call'[d] = call[d] \/ call'[d] = Idle \/ call'[d] = g
  BY <1>2 DEF TypeOK
<1>7. \A d \in Calls : SameScope(call[d], call[d])
  BY DEF SameScope
<1>8. call' \in [Calls -> Frames]
  BY <1>2, <1>4, <1>5 DEF TypeOK, FrameOK
<1> QED BY <1>4, <1>5, <1>6, <1>7, <1>8 DEF TypeOK, FramesNext, QuietNext

\* The audit record of a finished dispatch.
LEMMA AuditQuiet ==
  ASSUME TypeOK, NEW c \in Calls, AuditRecord(c)
  PROVE  FramesNext /\ QuietNext
<1>1. FrameOK(Audited(call[c])) /\ Audited(call[c]).pc = "record"
  BY AuditedOK DEF TypeOK, AuditRecord
<1> QED BY <1>1, QuietBecome DEF Holding, AuditRecord

\* The history record of a finished dispatch.
LEMMA HistoryQuiet ==
  ASSUME TypeOK, NEW c \in Calls, HistoryRecord(c)
  PROVE  FramesNext /\ QuietNext
BY GotoQuiet DEF HistoryRecord, Pcs

\* Admit is the one way past the check.
LEMMA AdmitFrames ==
  ASSUME TypeOK, NEW c \in Calls, call[c].pc # "idle",
         NEW stamp \in {None, "verified", "bypassed"}, Admit(c, stamp)
  PROVE  /\ FramesNext
         /\ \A d \in Calls : d # c => call'[d] = call[d]
         /\ call'[c].pc = "dispatch" /\ call'[c].at = now
         /\ call'[c].caller = call[c].caller /\ call'[c].tool = call[c].tool
         /\ call'[c].arg = call[c].arg /\ call'[c].tok = call[c].tok
         /\ call'[c].target = call[c].target
<1> DEFINE w == IF call[c].target = None THEN call[c].arg ELSE call[c].target
<1>1. w \in Args
  BY DEF TypeOK, FrameOK, Frames, Args, Selectors, Targets
<1>2. now \in 0..MaxClock /\ FrameOK(call[c])
  BY DEF TypeOK
<1>3. Become(c, Admitted(call[c], stamp, now, w))
  BY DEF Admit
<1> HIDE DEF w
<1> DEFINE g == Admitted(call[c], stamp, now, w)
<1>4. /\ FrameOK(g) /\ g.pc = "dispatch" /\ g.at = now
      /\ g.caller = call[c].caller /\ g.tool = call[c].tool
      /\ g.arg = call[c].arg /\ g.tok = call[c].tok /\ g.target = call[c].target
  BY <1>1, <1>2, AdmittedOK
<1> HIDE DEF g
<1>5. Become(c, g)
  BY <1>3 DEF g
<1> QED BY <1>4, <1>5, BecomeType DEF FramesNext

\* Nothing but a successful check takes an invocation past it.
LEMMA ConsentFrames ==
  ASSUME TypeOK, NEW c \in Calls, ConsentCheck(c)
  PROVE  FramesNext
<1>1. ASSUME NEW stamp \in {None, "verified", "bypassed"}, Admit(c, stamp)
      PROVE  FramesNext
  BY <1>1, AdmitFrames DEF ConsentCheck
<1>2. CASE RejectTo(c, "challenge", "consent_required")
  BY <1>2, RejectQuiet DEF ConsentCheck, Pcs, Outcomes
<1> QED BY <1>1, <1>2 DEF ConsentCheck

-----------------------------------------------------------------------------
(* Types *)

\* What the quiet steps of the pipeline leave alone.
LEMMA ScopeTypes ==
  ASSUME TypeOK, FramesNext, UNCHANGED <<now, consentVars, screenVars, histVars,
                                         ghostVars>>
  PROVE  TypeOK'
BY DEF TypeOK, FramesNext, consentVars, screenVars, histVars, ghostVars

\* An effect record is made of the fields of a good frame.
LEMMA EffectTypes ==
  ASSUME TypeOK, NEW c \in Calls, call[c].pc # "idle",
         NEW hit \in Windows \cup {None}, Effect(c, hit)
  PROVE  effects' \subseteq Effects /\ uses' \in [Tokens -> Nat]
<1>1. FrameOK(call[c])
  BY DEF TypeOK
<1>2. [tok |-> call[c].tok, caller |-> call[c].caller, tool |-> call[c].tool,
       arg |-> call[c].arg, target |-> call[c].target, hit |-> hit,
       at |-> call[c].at, via |-> call[c].via, gone |-> call[c].gone] \in Effects
  BY <1>1 DEF FrameOK, Frames, Effects
<1>3. effects' \subseteq Effects
  BY <1>2 DEF Effect, TypeOK
<1>4. uses' \in [Tokens -> Nat]
  BY DEF Effect, TypeOK
<1> QED BY <1>3, <1>4

\* The server starts with every variable of its type.
LEMMA InitTypes == Init => TypeOK
<1> SUFFICES ASSUME Init PROVE TypeOK
  OBVIOUS
<1>1. FrameOK(Idle)
  BY IdleType DEF FrameOK
<1>2. call \in [Calls -> Frames] /\ \A c \in Calls : FrameOK(call[c])
  BY <1>1, IdleType DEF Init
<1>3. now \in 0..MaxClock /\ nextIndex \in Nat /\ hist \in Seq(HistRecords)
  BY ConstantsAssumption DEF ConstantsAssumption, Init
<1> QED BY <1>2, <1>3 DEF Init, TypeOK

\* Every step of the pipeline keeps the types.
LEMMA StepTypes ==
  ASSUME TypeOK, NEW c \in Calls, Step(c)
  PROVE  TypeOK'
<1>1. CASE Gate(c)
  BY <1>1, GateQuiet, ScopeTypes DEF Gate
<1>2. CASE ResolveCloseTarget(c)
  BY <1>2, ResolveTargetQuiet, ScopeTypes DEF ResolveCloseTarget
<1>3. CASE ConsentCheck(c)
  <2>1. FramesNext
    BY <1>3, ConsentFrames
  <2>2. tokens' \in [Tokens -> Scopes \cup {None}]
    BY <1>3 DEF ConsentCheck, Consume, TypeOK
  <2> QED BY <1>3, <2>1, <2>2
          DEF ConsentCheck, TypeOK, FramesNext, screenVars, histVars, ghostVars
<1>4. CASE Challenge(c)
  <2>1. FramesNext
    BY <1>4, GotoQuiet DEF Challenge, Pcs
  <2>2. PICK t \in Tokens \ issued :
          LET rec == [caller |-> call[c].caller, tool |-> call[c].tool,
                      arg |-> call[c].arg, target |-> call[c].target,
                      issued |-> now]
          IN /\ issued' = issued \cup {t}
             /\ grant' = [grant EXCEPT ![t] = rec]
             /\ tokens' = [u \in Tokens |->
                             IF u = t THEN rec
                             ELSE IF tokens[u] # None /\ Fresh(tokens[u])
                                  THEN tokens[u] ELSE None]
    BY <1>4 DEF Challenge
  <2>3. [caller |-> call[c].caller, tool |-> call[c].tool, arg |-> call[c].arg,
         target |-> call[c].target, issued |-> now] \in Scopes
    BY <1>4 DEF Challenge, TypeOK, FrameOK, Frames, Scopes
  <2>4. /\ issued' \subseteq Tokens /\ grant' \in [Tokens -> Scopes \cup {None}]
        /\ tokens' \in [Tokens -> Scopes \cup {None}]
    BY <2>2, <2>3 DEF TypeOK
  <2> QED BY <1>4, <2>1, <2>4
          DEF Challenge, TypeOK, FramesNext, screenVars, histVars, ghostVars
<1>5. CASE ExecSystemCommand(c)
  <2>1. ASSUME NEW o \in Outcomes, Produce(c, o), UNCHANGED ghostVars
        PROVE  TypeOK'
    BY <1>5, <2>1, ProduceQuiet, ScopeTypes DEF ExecSystemCommand, At
  <2>2. CASE Effect(c, None) /\ Done(c)
    BY <1>5, <2>2, DoneQuiet, EffectTypes
       DEF ExecSystemCommand, At, TypeOK, FramesNext, consentVars, screenVars,
           histVars
  <2> QED BY <1>5, <2>1, <2>2 DEF ExecSystemCommand, Outcomes, Done
<1>6. CASE RunUngated(c)
  BY <1>6, RunUngatedQuiet, ScopeTypes DEF RunUngated
<1>7. CASE ResolveWindow(c)
  BY <1>7, ResolveWindowQuiet, ScopeTypes DEF ResolveWindow
<1>8. CASE DispatchClose(c)
  <2>1. ASSUME NEW o \in Outcomes, Produce(c, o), UNCHANGED <<screenVars, ghostVars>>
        PROVE  TypeOK'
    BY <1>8, <2>1, ProduceQuiet, ScopeTypes DEF DispatchClose
  <2>2. CASE /\ Met(c) \in Open /\ CloseWindow(Met(c))
             /\ Effect(c, Met(c)) /\ Succeed(c)
    <3>1. Met(c) \in Windows /\ call[c].pc # "idle"
      BY <1>8, <2>2 DEF Open, DispatchClose
    <3>2. FramesNext /\ effects' \subseteq Effects /\ uses' \in [Tokens -> Nat]
      BY <2>2, <3>1, DoneQuiet, EffectTypes DEF Done
    <3>3. win' \in [Windows -> WindowTexts \cup {None}]
          /\ active' \in Windows \cup {None}
      BY <2>2, <3>1 DEF CloseWindow, TypeOK
    <3> QED BY <1>8, <3>2, <3>3
            DEF DispatchClose, TypeOK, FramesNext, consentVars, histVars
  <2> QED BY <1>8, <2>1, <2>2 DEF DispatchClose, Outcomes
<1>9. CASE ClearActionHistory(c)
  <2>1. CASE Produce(c, "error") /\ UNCHANGED <<histVars, ghostVars>>
    BY <1>9, <2>1, ProduceQuiet, ScopeTypes
       DEF ClearActionHistory, At, Outcomes
  <2>2. CASE hist' = <<>> /\ nextIndex' = 0 /\ Effect(c, None) /\ Succeed(c)
    <3>1. call[c].pc # "idle"
      BY <1>9 DEF ClearActionHistory, At
    <3>2. FramesNext /\ effects' \subseteq Effects /\ uses' \in [Tokens -> Nat]
      BY <2>2, <3>1, DoneQuiet, EffectTypes DEF Done
    <3>3. hist' \in Seq(HistRecords) /\ nextIndex' \in Nat
      BY <2>2
    <3> QED BY <1>9, <3>2, <3>3
            DEF ClearActionHistory, TypeOK, FramesNext, consentVars, screenVars
  <2> QED BY <1>9, <2>1, <2>2 DEF ClearActionHistory
<1>10. CASE ReplayAction(c)
  BY <1>10, ReplayQuiet, ScopeTypes DEF ReplayAction
<1>11. CASE RunManifest(c)
  BY <1>11, ManifestQuiet, ScopeTypes DEF RunManifest
<1>12. CASE ResumeParent(c)
  BY <1>12, ResumeQuiet, ScopeTypes DEF ResumeParent
<1>13. CASE AuditRecord(c)
  BY <1>13, AuditQuiet, ScopeTypes DEF AuditRecord
<1>14. CASE HistoryRecord(c)
  <2>1. FramesNext
    BY <1>14, HistoryQuiet
  <2>2. RecordOf(c) \in HistRecords
    BY <1>14 DEF HistoryRecord, RecordOf, TypeOK, FrameOK, Frames, HistRecords
  <2>3. hist' \in Seq(HistRecords) /\ nextIndex' \in Nat
    <3>1. Len(hist) >= HistoryCap => Tail(hist) \in Seq(HistRecords)
      BY ConstantsAssumption DEF ConstantsAssumption, TypeOK
    <3>2. CASE UNCHANGED histVars
      BY <3>2 DEF histVars, TypeOK
    <3>3. CASE /\ hist' = Append(IF Len(hist) >= HistoryCap THEN Tail(hist)
                                 ELSE hist, RecordOf(c))
               /\ nextIndex' = nextIndex + 1
      <4>1. PICK h : h = IF Len(hist) >= HistoryCap THEN Tail(hist) ELSE hist
        OBVIOUS
      <4>2. h \in Seq(HistRecords)
        BY <3>1, <4>1 DEF TypeOK
      <4>3. PICK rec \in HistRecords : rec = RecordOf(c)
        BY <2>2
      <4>4. hist' = Append(h, rec)
        BY <3>3, <4>1, <4>3
      <4>5. hist' \in Seq(HistRecords)
        BY <4>2, <4>3, <4>4
      <4> QED BY <3>3, <4>5 DEF TypeOK
    <3> QED BY <1>14, <3>2, <3>3 DEF HistoryRecord
  <2> QED BY <1>14, <2>1, <2>3
          DEF HistoryRecord, TypeOK, FramesNext, consentVars, screenVars, ghostVars
<1> QED BY <1>1, <1>2, <1>3, <1>4, <1>5, <1>6, <1>7, <1>8, <1>9, <1>10, <1>11,
           <1>12, <1>13, <1>14 DEF Step

\* So do the clock and the compositor.
LEMMA WorldTypes == ASSUME TypeOK, World PROVE TypeOK'
<1>1. CASE Tick
  BY <1>1, ConstantsAssumption
     DEF ConstantsAssumption, Tick, TypeOK, consentVars, screenVars, histVars,
         ghostVars
<1>2. ASSUME NEW w \in Windows, OpenWindow(w) \/ FocusWindow(w) \/ UserCloses(w)
      PROVE  TypeOK'
  BY <1>2 DEF OpenWindow, FocusWindow, UserCloses, CloseWindow, Open, TypeOK,
              consentVars, screenVars, histVars, ghostVars
<1> QED BY <1>1, <1>2 DEF World

\* Every variable keeps its type, for any instance of the pipeline.
THEOREM TypeCorrect == Spec => []TypeOK
<1>1. Init => TypeOK
  BY InitTypes
<1>2. TypeOK /\ [Next]_vars => TypeOK'
  <2> SUFFICES ASSUME TypeOK, [Next]_vars PROVE TypeOK'
    OBVIOUS
  <2>1. ASSUME NEW s \in Slots, NEW caller \in Callers, Submit(s, caller)
        PROVE  TypeOK'
    BY <2>1, SubmitQuiet, ScopeTypes DEF Submit
  <2>2. ASSUME NEW s \in Slots, Return(s) PROVE TypeOK'
    BY <2>2, ReturnQuiet, ScopeTypes DEF Return
  <2>3. CASE UNCHANGED vars
    BY <2>3 DEF vars, TypeOK, consentVars, screenVars, histVars, ghostVars
  <2> QED BY <2>1, <2>2, <2>3, StepTypes, WorldTypes DEF Next
<1> QED BY <1>1, <1>2, PTL DEF Spec

-----------------------------------------------------------------------------
(* Consent.  ConsentSound and TokenSingleUse are not inductive: nothing in   *)
(* them says that an invocation past the check holds a spent, unused token   *)
(* of its own.  ConsentLedger does.                                          *)

ConsentInv == ConsentLedger /\ ConsentSound /\ TokenSingleUse

\* A step that leaves tokens and effects alone keeps the ledger when it takes
\* no invocation past the check.
LEMMA QuietLedger ==
  ASSUME TypeOK, ConsentInv, QuietNext, UNCHANGED <<consentVars, ghostVars>>
  PROVE  ConsentInv'
<1> SUFFICES ASSUME ~AllowDestructive PROVE ConsentInv'
  BY DEF ConsentInv, ConsentLedger, ConsentSound, TokenSingleUse
<1>1. ASSUME NEW c \in Calls, Holding(call'[c])
      PROVE  Authorised(call[c]) /\ SameScope(call[c], call'[c])
             /\ Holding(call[c])
  BY <1>1 DEF QuietNext, ConsentInv, ConsentLedger
<1>2. \A c \in Calls : Holding(call'[c]) => Authorised(call[c])'
  BY <1>1 DEF Authorised, Unspent, SameScope, consentVars, ghostVars
<1>3. \A c, d \in Calls :
        (Holding(call'[c]) /\ Holding(call'[d]) /\ call'[c].tok = call'[d].tok)
          => c = d
  BY <1>1 DEF SameScope, ConsentInv, ConsentLedger
<1>4. ConsentLedger'
  BY <1>2, <1>3 DEF ConsentInv, ConsentLedger, Unspent, consentVars, ghostVars
<1>5. ConsentSound' /\ TokenSingleUse'
  BY DEF ConsentInv, ConsentSound, TokenSingleUse, consentVars, ghostVars
<1> QED BY <1>4, <1>5 DEF ConsentInv

\* An invocation past the check that acts spends the one use of its token.
LEMMA EffectLedger ==
  ASSUME TypeOK, ConsentInv, NEW c \in Calls, Holding(call[c]),
         NEW hit, Effect(c, hit), Done(c), UNCHANGED consentVars
  PROVE  ConsentInv'
<1> SUFFICES ASSUME ~AllowDestructive PROVE ConsentInv'
  BY DEF ConsentInv, ConsentLedger, ConsentSound, TokenSingleUse
<1> DEFINE tok == call[c].tok
<1>1. Authorised(call[c])
  BY DEF ConsentInv, ConsentLedger
<1>2. QuietNext /\ ~Holding(call'[c])
  BY DoneQuiet DEF Holding
<1>3. tok \in Tokens /\ uses' = [uses EXCEPT ![tok] = uses[tok] + 1]
  BY <1>1 DEF Authorised, Effect
<1>4. /\ uses \in [Tokens -> Nat] /\ uses[tok] = 0 /\ tokens[tok] = None
      /\ grant[tok] # None
  BY <1>1 DEF TypeOK, Authorised, Unspent
<1>5. uses'[tok] = 1 /\ \A t \in Tokens : t # tok => uses'[t] = uses[t]
  BY <1>3, <1>4
<1>6. tokens' = tokens /\ issued' = issued /\ grant' = grant
  BY DEF consentVars
<1>7. ASSUME NEW d \in Calls, Holding(call'[d])
      PROVE  /\ Holding(call[d]) /\ Authorised(call[d])
             /\ SameScope(call[d], call'[d]) /\ call[d].tok # tok
  <2>1. d # c /\ Holding(call[d]) /\ SameScope(call[d], call'[d])
    BY <1>2, <1>7 DEF QuietNext
  <2> QED BY <2>1 DEF ConsentInv, ConsentLedger
<1>8. \A d \in Calls : Holding(call'[d]) => Authorised(call[d])'
  BY <1>5, <1>6, <1>7 DEF Authorised, Unspent, SameScope
<1>9. \A d, e \in Calls :
        (Holding(call'[d]) /\ Holding(call'[e]) /\ call'[d].tok = call'[e].tok)
          => d = e
  BY <1>7 DEF SameScope, ConsentInv, ConsentLedger
<1>10. ConsentLedger'
  BY <1>4, <1>5, <1>6, <1>8, <1>9 DEF ConsentInv, ConsentLedger, Unspent
<1>11. TokenSingleUse'
  BY <1>5 DEF ConsentInv, TokenSingleUse
<1>12. ConsentSound'
  <2> DEFINE eff == [tok |-> call[c].tok, caller |-> call[c].caller,
                     tool |-> call[c].tool, arg |-> call[c].arg,
                     target |-> call[c].target, hit |-> hit,
                     at |-> call[c].at, via |-> call[c].via, gone |-> call[c].gone]
  <2>1. effects' = effects \cup {eff}
    BY DEF Effect
  <2>2. /\ eff.tok = call[c].tok /\ eff.caller = call[c].caller
        /\ eff.tool = call[c].tool /\ eff.arg = call[c].arg
        /\ eff.target = call[c].target /\ eff.at = call[c].at
    OBVIOUS
  <2> HIDE DEF eff
  <2> QED BY <1>1, <1>6, <2>1, <2>2 DEF Authorised, ConsentInv, ConsentSound
<1> QED BY <1>10, <1>11, <1>12 DEF ConsentInv

\* The check spends the presented token, whatever the verdict; only the
\* verdict it is issued for this very call lets the invocation past.
LEMMA CheckLedger ==
  ASSUME TypeOK, ConsentInv, NEW c \in Calls, ConsentCheck(c)
  PROVE  ConsentInv'
<1> SUFFICES ASSUME ~AllowDestructive PROVE ConsentInv'
  BY DEF ConsentInv, ConsentLedger, ConsentSound, TokenSingleUse
<1>1. /\ issued' = issued /\ grant' = grant /\ effects' = effects
      /\ uses' = uses /\ FrameOK(call[c]) /\ call[c].pc = "consent"
  BY DEF ConsentCheck, ghostVars, TypeOK
<1>2. CASE call[c].tool \notin Destructive /\ Admit(c, None) /\ UNCHANGED tokens
  <2>1. \A d \in Calls : Holding(call'[d]) => d # c /\ call'[d] = call[d]
    BY <1>1, <1>2, AdmitFrames DEF Holding
  <2>2. QuietNext
    BY <2>1 DEF QuietNext, SameScope
  <2> QED BY <1>1, <1>2, <2>2, QuietLedger DEF consentVars, ghostVars
<1>3. ASSUME RejectTo(c, "challenge", "consent_required"),
             (call[c].tok = None /\ UNCHANGED tokens) \/ Consume(c)
      PROVE  ConsentInv'
  <2>1. QuietNext
    BY <1>1, <1>3, RejectQuiet DEF Pcs, Outcomes
  <2>2. \A t \in Tokens : tokens'[t] = tokens[t] \/ tokens'[t] = None
    BY <1>3 DEF Consume, TypeOK
  <2>3. \A d \in Calls : Holding(call'[d]) =>
          Holding(call[d]) /\ SameScope(call[d], call'[d]) /\ Authorised(call[d])
    BY <2>1 DEF QuietNext, ConsentInv, ConsentLedger
  <2>4. \A d \in Calls : Holding(call'[d]) => Authorised(call[d])'
    BY <1>1, <2>2, <2>3 DEF Authorised, Unspent, SameScope
  <2>5. \A d, e \in Calls :
          (Holding(call'[d]) /\ Holding(call'[e]) /\ call'[d].tok = call'[e].tok)
            => d = e
    BY <2>3 DEF SameScope, ConsentInv, ConsentLedger
  <2>6. ConsentLedger'
    BY <1>1, <2>2, <2>4, <2>5 DEF ConsentInv, ConsentLedger
  <2> QED BY <1>1, <2>6 DEF ConsentInv, ConsentSound, TokenSingleUse
<1>4. CASE call[c].tok \in Tokens /\ Consume(c) /\ Verifies(c)
           /\ Admit(c, "verified")
  <2> DEFINE tok == call[c].tok
             rec == tokens[tok]
  <2>1. /\ tok \in Tokens /\ rec # None /\ now - rec.issued <= Ttl
        /\ rec.caller = call[c].caller /\ rec.tool = call[c].tool
        /\ rec.arg = call[c].arg /\ rec.target = call[c].target
    BY <1>4 DEF Verifies, Fresh
  <2>2. tok \in issued /\ grant[tok] = rec /\ uses[tok] = 0
    BY <2>1 DEF ConsentInv, ConsentLedger
  <2>3. /\ tokens' = [tokens EXCEPT ![tok] = None] /\ tokens'[tok] = None
        /\ \A t \in Tokens : t # tok => tokens'[t] = tokens[t]
    BY <1>4, <2>1 DEF Consume, TypeOK
  <2>4. now \in Nat /\ rec.issued \in Nat /\ Ttl \in Nat
    BY <2>1, ConstantsAssumption DEF ConstantsAssumption, TypeOK, Scopes
  <2>5. now <= grant[tok].issued + Ttl
    BY <2>1, <2>2, <2>4
  <2>6. /\ \A d \in Calls : d # c => call'[d] = call[d]
        /\ call'[c].at = now
        /\ call'[c].caller = call[c].caller /\ call'[c].tool = call[c].tool
        /\ call'[c].arg = call[c].arg /\ call'[c].tok = tok
        /\ call'[c].target = call[c].target
    BY <1>1, <1>4, AdmitFrames
  <2>7. Authorised(call[c])'
    BY <1>1, <2>1, <2>2, <2>3, <2>5, <2>6 DEF Authorised, Unspent
  <2>8. ASSUME NEW d \in Calls, d # c, Holding(call'[d])
        PROVE  /\ Holding(call[d]) /\ call'[d] = call[d] /\ call[d].tok # tok
               /\ Authorised(call[d])'
    <3>1. Holding(call[d]) /\ call'[d] = call[d] /\ Authorised(call[d])
      BY <2>6, <2>8 DEF ConsentInv, ConsentLedger
    <3>2. call[d].tok # tok
      BY <2>1, <3>1 DEF Authorised, Unspent
    <3> QED BY <1>1, <2>3, <3>1, <3>2 DEF Authorised, Unspent
  <2>9. \A d \in Calls : Holding(call'[d]) => Authorised(call[d])'
    BY <2>7, <2>8
  <2>10. \A d, e \in Calls :
          (Holding(call'[d]) /\ Holding(call'[e]) /\ call'[d].tok = call'[e].tok)
            => d = e
    BY <2>6, <2>8 DEF ConsentInv, ConsentLedger
  <2>11. ConsentLedger'
    BY <1>1, <2>3, <2>9, <2>10 DEF ConsentInv, ConsentLedger
  <2> QED BY <1>1, <2>11 DEF ConsentInv, ConsentSound, TokenSingleUse
<1> QED BY <1>2, <1>3, <1>4 DEF ConsentCheck

\* A challenge adds one token, never drawn before, and drops stale ones.
LEMMA ChallengeLedger ==
  ASSUME TypeOK, ConsentInv, NEW c \in Calls, Challenge(c)
  PROVE  ConsentInv'
<1> SUFFICES ASSUME ~AllowDestructive PROVE ConsentInv'
  BY DEF ConsentInv, ConsentLedger, ConsentSound, TokenSingleUse
<1>1. QuietNext
  BY GotoQuiet DEF Challenge, Pcs
<1> DEFINE scope == [caller |-> call[c].caller, tool |-> call[c].tool,
                     arg |-> call[c].arg, target |-> call[c].target,
                     issued |-> now]
<1>2. scope \in Scopes
  BY DEF Challenge, TypeOK, FrameOK, Frames, Scopes
<1>3. PICK rec \in Scopes : rec = scope
  BY <1>2
<1>4. PICK t \in Tokens \ issued :
        /\ issued' = issued \cup {t}
        /\ grant' = [grant EXCEPT ![t] = rec]
        /\ tokens' = [u \in Tokens |->
                        IF u = t THEN rec
                        ELSE IF tokens[u] # None /\ Fresh(tokens[u])
                             THEN tokens[u] ELSE None]
  BY <1>3 DEF Challenge
<1>5. effects' = effects /\ uses' = uses
  BY DEF Challenge, ghostVars
<1>6. grant[t] = None /\ uses[t] = 0 /\ tokens[t] = None
  BY DEF ConsentInv, ConsentLedger
<1>7. /\ grant'[t] = rec /\ tokens'[t] = rec
      /\ \A u \in Tokens : u # t =>
           grant'[u] = grant[u] /\ (tokens'[u] = tokens[u] \/ tokens'[u] = None)
  BY <1>4 DEF TypeOK
<1>8. ASSUME NEW d \in Calls, Holding(call'[d])
      PROVE  /\ Holding(call[d]) /\ SameScope(call[d], call'[d])
             /\ Authorised(call[d]) /\ call[d].tok # t
  BY <1>1, <1>6, <1>8 DEF QuietNext, ConsentInv, ConsentLedger, Authorised
<1>9. \A d \in Calls : Holding(call'[d]) => Authorised(call[d])'
  BY <1>5, <1>7, <1>8 DEF Authorised, Unspent, SameScope
<1>10. \A d, e \in Calls :
        (Holding(call'[d]) /\ Holding(call'[e]) /\ call'[d].tok = call'[e].tok)
          => d = e
  BY <1>8 DEF SameScope, ConsentInv, ConsentLedger
<1>11. \A u \in Tokens : tokens'[u] # None =>
        u \in issued' /\ tokens'[u] = grant'[u] /\ uses'[u] = 0
  BY <1>4, <1>5, <1>6, <1>7 DEF ConsentInv, ConsentLedger
<1>12. \A u \in Tokens \ issued' : grant'[u] = None /\ uses'[u] = 0
  BY <1>4, <1>5, <1>7 DEF ConsentInv, ConsentLedger
<1>13. ConsentLedger'
  BY <1>9, <1>10, <1>11, <1>12 DEF ConsentLedger
<1>14. ConsentSound'
  BY <1>5, <1>6, <1>7 DEF ConsentInv, ConsentSound
<1> QED BY <1>5, <1>13, <1>14 DEF ConsentInv, TokenSingleUse

\* Every step of the pipeline keeps the ledger.
LEMMA StepLedger ==
  ASSUME TypeOK, ConsentInv, NEW c \in Calls, Step(c)
  PROVE  ConsentInv'
<1>1. CASE Gate(c)
  BY <1>1, GateQuiet, QuietLedger DEF Gate
<1>2. CASE ResolveCloseTarget(c)
  BY <1>2, ResolveTargetQuiet, QuietLedger DEF ResolveCloseTarget
<1>3. CASE ConsentCheck(c)
  BY <1>3, CheckLedger
<1>4. CASE Challenge(c)
  BY <1>4, ChallengeLedger
<1>5. CASE ExecSystemCommand(c)
  <2>1. ASSUME NEW o \in Outcomes, Produce(c, o), UNCHANGED ghostVars
        PROVE  ConsentInv'
    BY <1>5, <2>1, ProduceQuiet, QuietLedger DEF ExecSystemCommand, At
  <2>2. CASE Effect(c, None) /\ Done(c)
    BY <1>5, <2>2, EffectLedger DEF ExecSystemCommand, At, Holding, Destructive
  <2> QED BY <1>5, <2>1, <2>2 DEF ExecSystemCommand, Outcomes, Done
<1>6. CASE RunUngated(c)
  BY <1>6, RunUngatedQuiet, QuietLedger DEF RunUngated
<1>7. CASE ResolveWindow(c)
  BY <1>7, ResolveWindowQuiet, QuietLedger DEF ResolveWindow
<1>8. CASE DispatchClose(c)
  <2>1. ASSUME NEW o \in Outcomes, Produce(c, o), UNCHANGED ghostVars
        PROVE  ConsentInv'
    BY <1>8, <2>1, ProduceQuiet, QuietLedger DEF DispatchClose
  <2>2. CASE Effect(c, Met(c)) /\ Succeed(c)
    <3>1. Holding(call[c])
      BY <1>8 DEF DispatchClose, TypeOK, FrameOK, Holding, Destructive
    <3> QED BY <1>8, <2>2, <3>1, EffectLedger DEF DispatchClose, Done
  <2> QED BY <1>8, <2>1, <2>2 DEF DispatchClose, Outcomes
<1>9. CASE ClearActionHistory(c)
  <2>1. CASE Produce(c, "error") /\ UNCHANGED ghostVars
    BY <1>9, <2>1, ProduceQuiet, QuietLedger DEF ClearActionHistory, At, Outcomes
  <2>2. CASE Effect(c, None) /\ Succeed(c)
    BY <1>9, <2>2, EffectLedger DEF ClearActionHistory, At, Holding, Destructive, Done
  <2> QED BY <1>9, <2>1, <2>2 DEF ClearActionHistory
<1>10. CASE ReplayAction(c)
  BY <1>10, ReplayQuiet, QuietLedger DEF ReplayAction
<1>11. CASE RunManifest(c)
  BY <1>11, ManifestQuiet, QuietLedger DEF RunManifest
<1>12. CASE ResumeParent(c)
  BY <1>12, ResumeQuiet, QuietLedger DEF ResumeParent
<1>13. CASE AuditRecord(c)
  BY <1>13, AuditQuiet, QuietLedger DEF AuditRecord
<1>14. CASE HistoryRecord(c)
  BY <1>14, HistoryQuiet, QuietLedger DEF HistoryRecord
<1> QED BY <1>1, <1>2, <1>3, <1>4, <1>5, <1>6, <1>7, <1>8, <1>9, <1>10, <1>11,
           <1>12, <1>13, <1>14 DEF Step

\* The ledger holds in every state, for any number of concurrent requests,
\* callers and tokens and any lifetime.
LEMMA ConsentInvariant == Spec => []ConsentInv
<1>1. Init => ConsentInv
  BY IdleType DEF Init, ConsentInv, ConsentLedger, ConsentSound, TokenSingleUse,
                  Holding
<1>2. TypeOK /\ ConsentInv /\ [Next]_vars => ConsentInv'
  <2> SUFFICES ASSUME TypeOK, ConsentInv, [Next]_vars PROVE ConsentInv'
    OBVIOUS
  <2>1. ASSUME NEW s \in Slots, NEW caller \in Callers, Submit(s, caller)
        PROVE  ConsentInv'
    BY <2>1, SubmitQuiet, QuietLedger DEF Submit
  <2>2. ASSUME NEW s \in Slots, Return(s) PROVE ConsentInv'
    BY <2>2, ReturnQuiet, QuietLedger DEF Return
  <2>3. ASSUME UNCHANGED call, UNCHANGED <<consentVars, ghostVars>>
        PROVE  ConsentInv'
    <3>1. QuietNext
      BY <2>3 DEF QuietNext, SameScope
    <3> QED BY <2>3, <3>1, QuietLedger
  <2>4. CASE World
    BY <2>3, <2>4 DEF World, Tick, OpenWindow, FocusWindow, UserCloses
  <2>5. CASE UNCHANGED vars
    BY <2>3, <2>5 DEF vars
  <2> QED BY <2>1, <2>2, <2>4, <2>5, StepLedger DEF Next
<1> QED BY <1>1, <1>2, TypeCorrect, PTL DEF Spec

\* What can still be presented was never used, and what is past the check owns
\* its token (consent.rs verify under one lock).
THEOREM LedgerInvariant == Spec => []ConsentLedger
<1>1. ConsentInv => ConsentLedger
  BY DEF ConsentInv
<1> QED BY <1>1, ConsentInvariant, PTL

\* No destructive effect without a consent issued for that caller, tool,
\* arguments and resolved target and redeemed in time.
THEOREM ConsentSafety == Spec => []ConsentSound
<1>1. ConsentInv => ConsentSound
  BY DEF ConsentInv
<1> QED BY <1>1, ConsentInvariant, PTL

\* One token authorises one effect at most.
THEOREM SingleUse == Spec => []TokenSingleUse
<1>1. ConsentInv => TokenSingleUse
  BY DEF ConsentInv
<1> QED BY <1>1, ConsentInvariant, PTL

-----------------------------------------------------------------------------
(* Roles, replay and the audit log.  Each of the three properties speaks of  *)
(* effects or of finished invocations; what makes them inductive is said of  *)
(* every frame on its way there.                                             *)

\* The gates have let it through, and it has not been refused or answered.
Passed == {"resolve", "consent", "dispatch", "nested", "close"}
Unaudited == Passed \cup {"gate", "audit"}
Stamp == IF AllowDestructive THEN "bypassed" ELSE "verified"

\* What is past the gates is within its caller's role.
Entitled(f) == f.pc \in Passed => f.tool \in EnabledTools \cap AllowedTools[f.caller]

\* What replay started, directly or through a macro, carries no token.
Tokenless(f) == f.via = "replay" => f.tok = None

\* One audit record on every way out; what is about to act or has acted carries
\* the stamp of the gate, and nothing that has acted ends in a refusal.
Accounted(f) ==
  /\ f.pc \in Unaudited => f.audits = 0
  /\ f.pc \in {"challenge", "record", "returned"} => f.audits = 1
  /\ (f.tool \in Destructive /\ f.pc \in {"dispatch", "nested", "close"}) => f.stamp = Stamp
  /\ f.acted => /\ f.stamp = Stamp /\ f.outcome \in {"ok", "panicked"}
                /\ f.pc \in {"audit", "record", "returned", "panicked"}

Good(f) == Entitled(f) /\ Tokenless(f) /\ Accounted(f)

\* The same of all frames, and no recorded call holds a token.
FramesGood ==
  /\ \A c \in Calls : Good(call[c])
  /\ \A k \in DOMAIN hist : hist[k].tok = None

\* A frame on its way stays good.
LEMMA MovedGood ==
  ASSUME NEW f, FrameOK(f), Good(f), NEW pc \in Pcs,
         \/ f.pc \in {"dispatch"} /\ pc = "nested"
         \/ f.pc \in {"challenge", "record"} /\ pc = "returned"
         \/ /\ f.pc = "gate" /\ pc = "resolve"
            /\ f.tool \in EnabledTools \cap AllowedTools[f.caller]
  PROVE  Good(Moved(f, pc))
BY DEF FrameOK, Frames, Good, Entitled, Tokenless, Accounted, Moved, Passed, Unaudited

\* So does one that has its result.
LEMMA ProducedGood ==
  ASSUME NEW f, FrameOK(f), Good(f), f.pc \in {"dispatch", "nested", "close"}, NEW o
  PROVE  Good(Produced(f, o))
BY DEF FrameOK, Frames, Good, Entitled, Tokenless, Accounted, Produced, Passed, Unaudited

\* So does one that has acted, which only a stamped one does.
LEMMA ActedGood ==
  ASSUME NEW f, FrameOK(f), Good(f), f.pc \in {"dispatch", "close"}, f.tool \in Destructive
  PROVE  Good(Acted(f)) /\ Good(Died(f))
<1>1. Good(Acted(f))
  BY DEF FrameOK, Frames, Good, Entitled, Tokenless, Accounted, Acted, Passed, Unaudited
<1>2. Good(Died(f))
  BY DEF FrameOK, Frames, Good, Entitled, Tokenless, Accounted, Died, Passed, Unaudited
<1> QED BY <1>1, <1>2

\* A refusal emits its one record.
LEMMA RejectedGood ==
  ASSUME NEW f, FrameOK(f), Good(f), f.pc \in {"gate", "consent"},
         NEW pc \in {"returned", "challenge"}, NEW o
  PROVE  Good(Rejected(f, pc, o))
BY DEF FrameOK, Frames, Good, Entitled, Tokenless, Accounted, Rejected, Passed, Unaudited

\* So does the audit of a dispatched call.
LEMMA AuditedGood ==
  ASSUME NEW f, FrameOK(f), Good(f), f.pc = "audit"
  PROVE  Good(Audited(f))
BY DEF FrameOK, Frames, Good, Entitled, Tokenless, Accounted, Audited, Passed, Unaudited

\* A resolved target changes nothing of that.
LEMMA TargetedGood ==
  ASSUME NEW f, FrameOK(f), Good(f), f.pc = "resolve", NEW t
  PROVE  Good(Targeted(f, t))
BY DEF FrameOK, Frames, Good, Entitled, Tokenless, Accounted, Targeted, Passed, Unaudited

\* Admission stamps a destructive call.
LEMMA AdmittedGood ==
  ASSUME NEW f, FrameOK(f), Good(f), f.pc = "consent", NEW stamp, NEW at, NEW w,
         f.tool \in Destructive => stamp = Stamp
  PROVE  Good(Admitted(f, stamp, at, w))
BY DEF FrameOK, Frames, Good, Entitled, Tokenless, Accounted, Admitted, Passed, Unaudited

\* Aiming a close changes nothing of that.
LEMMA AimedGood ==
  ASSUME NEW f, FrameOK(f), Good(f), f.pc = "dispatch", NEW w, NEW seen, NEW gone
  PROVE  Good(Aimed(f, w, seen, gone))
BY DEF FrameOK, Frames, Good, Entitled, Tokenless, Accounted, Aimed, Passed, Unaudited

\* Nor does a plugin's next step.
LEMMA SteppedGood ==
  ASSUME NEW f, FrameOK(f), Good(f), f.pc = "nested"
  PROVE  Good(Stepped(f))
BY DEF FrameOK, Frames, Good, Entitled, Tokenless, Accounted, Stepped, Passed, Unaudited

\* A fresh frame is good, when replay gives it no token; so is the empty slot.
LEMMA NewCallGood ==
  ASSUME NEW caller, NEW tool, NEW arg, NEW tok, NEW via, via = "replay" => tok = None
  PROVE  Good(NewCall(caller, tool, arg, tok, via))
BY DEF Good, Entitled, Tokenless, Accounted, NewCall, Passed, Unaudited

\* The empty slot is good.
LEMMA IdleGood == Good(Idle)
<1>1. /\ Idle.pc = "idle" /\ Idle.via = "client" /\ Idle.acted = FALSE
  BY DEF Idle, NewCall
<1> QED BY <1>1 DEF Good, Entitled, Tokenless, Accounted, Passed, Unaudited

\* Replacing one frame by a good one keeps all frames good.
LEMMA BecomeGood ==
  ASSUME TypeOK, FramesGood, NEW c \in Calls, NEW f, Good(f), Become(c, f), UNCHANGED hist
  PROVE  FramesGood'
BY DEF TypeOK, FramesGood, Become


\* A call that replay or a plugin starts is good when it brings no token into a
\* replay.
LEMMA EnterGood ==
  ASSUME TypeOK, FramesGood, NEW c \in Calls, call[c].pc = "dispatch",
         NEW tool, NEW arg, NEW tok, Enter(c, tool, arg, tok), UNCHANGED hist,
         (call[c].tool = "replay_action" \/ call[c].via = "replay") => tok = None
  PROVE  FramesGood'
<1>1. Good(Moved(call[c], "nested"))
  BY MovedGood DEF TypeOK, FramesGood, Pcs
<1>2. PICK via : /\ call' = [call EXCEPT ![c] = Moved(call[c], "nested"),
                       ![Child(c)] = NewCall(call[c].caller, tool, arg, tok, via)]
                 /\ via = "replay" => tok = None
  BY DEF Enter
<1>3. Good(NewCall(call[c].caller, tool, arg, tok, via))
  BY <1>2, NewCallGood
<1> DEFINE f == Moved(call[c], "nested")
           g == NewCall(call[c].caller, tool, arg, tok, via)
<1> HIDE DEF f, g
<1>4. \A d \in Calls : call'[d] = call[d] \/ call'[d] = f \/ call'[d] = g
  BY <1>2 DEF TypeOK, f, g
<1> QED BY <1>1, <1>3, <1>4 DEF FramesGood, f, g

\* Every step of the pipeline keeps the frames good.
LEMMA StepGood ==
  ASSUME TypeOK, FramesGood, NEW c \in Calls, Step(c)
  PROVE  FramesGood'
<1> USE DEF FramesGood
<1>0. FrameOK(call[c]) /\ Good(call[c])
  BY DEF TypeOK
<1>1. CASE Gate(c)
  <2>1. ASSUME NEW o, RejectTo(c, "returned", o) PROVE FramesGood'
    BY <1>0, <1>1, <2>1, RejectedGood, BecomeGood DEF Gate, RejectTo, histVars
  <2>2. CASE CategoryGate(c) /\ PolicyGate(c) /\ Goto(c, "resolve")
    BY <1>0, <1>1, <2>2, MovedGood, BecomeGood
       DEF Gate, CategoryGate, PolicyGate, Goto, histVars, Pcs
  <2> QED BY <1>1, <2>1, <2>2 DEF Gate
<1>2. CASE ResolveCloseTarget(c)
  <2>1. PICK t : Become(c, Targeted(call[c], t))
    BY <1>2 DEF ResolveCloseTarget
  <2> QED BY <1>0, <1>2, <2>1, TargetedGood, BecomeGood DEF ResolveCloseTarget, histVars
<1>3. CASE ConsentCheck(c)
  <2>1. ASSUME NEW stamp, Admit(c, stamp), call[c].tool \in Destructive => stamp = Stamp
        PROVE  FramesGood'
    BY <1>0, <1>3, <2>1, AdmittedGood, BecomeGood DEF ConsentCheck, Admit, histVars
  <2>2. CASE RejectTo(c, "challenge", "consent_required")
    BY <1>0, <1>3, <2>2, RejectedGood, BecomeGood DEF ConsentCheck, RejectTo, histVars
  <2> QED BY <1>3, <2>1, <2>2 DEF ConsentCheck, Stamp
<1>4. CASE Challenge(c)
  BY <1>0, <1>4, MovedGood, BecomeGood DEF Challenge, Goto, histVars, Pcs
<1>5. CASE ExecSystemCommand(c)
  <2>1. call[c].tool \in Destructive /\ call[c].pc = "dispatch"
    BY <1>5 DEF ExecSystemCommand, At, Destructive
  <2> QED BY <1>0, <1>5, <2>1, ProducedGood, ActedGood, BecomeGood
          DEF ExecSystemCommand, Produce, Succeed, Panic, histVars
<1>6. CASE RunUngated(c)
  BY <1>0, <1>6, ProducedGood, BecomeGood DEF RunUngated, At, Produce, histVars
<1>7. CASE ResolveWindow(c)
  BY <1>0, <1>7, ProducedGood, AimedGood, BecomeGood
     DEF ResolveWindow, At, Produce, Aim, histVars
<1>8. CASE DispatchClose(c)
  <2>1. call[c].tool \in Destructive /\ call[c].pc = "close"
    BY <1>0, <1>8 DEF DispatchClose, FrameOK, Destructive
  <2> QED BY <1>0, <1>8, <2>1, ProducedGood, ActedGood, BecomeGood
          DEF DispatchClose, Produce, Succeed, histVars
<1>9. CASE ClearActionHistory(c)
  <2>1. call[c].tool \in Destructive /\ call[c].pc = "dispatch"
    BY <1>9 DEF ClearActionHistory, At, Destructive
  <2>2. CASE Produce(c, "error") /\ UNCHANGED histVars
    BY <1>0, <2>1, <2>2, ProducedGood, BecomeGood DEF Produce, histVars
  <2>3. CASE hist' = <<>> /\ Succeed(c)
    <3>1. Good(Acted(call[c]))
      BY <1>0, <2>1, ActedGood
    <3>2. \A d \in Calls : Good(call'[d])
      BY <2>3, <3>1 DEF Succeed, Become, TypeOK
    <3> QED BY <2>3, <3>2
  <2> QED BY <1>9, <2>2, <2>3 DEF ClearActionHistory
<1>10. CASE ReplayAction(c)
  <2>1. ASSUME NEW k \in Records(call[c].arg),
               Enter(c, hist[k].tool, hist[k].arg, hist[k].tok)
        PROVE  FramesGood'
    <3>1. hist[k].tok = None
      BY DEF Records
    <3> QED BY <1>10, <2>1, <3>1, EnterGood DEF ReplayAction, At, histVars
  <2>2. CASE Produce(c, "error")
    BY <1>0, <1>10, <2>2, ProducedGood, BecomeGood DEF ReplayAction, At, Produce, histVars
  <2> QED BY <1>10, <2>1, <2>2 DEF ReplayAction
<1>11. CASE RunManifest(c)
  <2> DEFINE st == Manifest[call[c].arg][call[c].step]
             tok == IF st.threads THEN call[c].tok ELSE None
  <2>1. call[c].pc = "dispatch" /\ call[c].tool = "plugin_run" /\ UNCHANGED hist
    BY <1>11 DEF RunManifest, At, histVars
  <2>2. CASE Enter(c, st.tool, st.arg, tok)
    <3>1. call[c].via = "replay" => tok = None
      BY <1>0 DEF Good, Tokenless
    <3> HIDE DEF tok, st
    <3> QED BY <2>1, <2>2, <3>1, EnterGood
  <2>3. ASSUME NEW o, Produce(c, o) PROVE FramesGood'
    BY <1>0, <2>1, <2>3, ProducedGood, BecomeGood DEF Produce
  <2> QED BY <1>11, <2>2, <2>3 DEF RunManifest
<1>12. CASE ResumeParent(c)
  <2>1. PICK g, o : /\ call' = [call EXCEPT ![Child(c)] = Idle, ![c] = g]
                    /\ g = Stepped(call[c]) \/ g = Produced(call[c], o)
    BY <1>12 DEF ResumeParent
  <2>2. Good(g)
    BY <1>0, <1>12, <2>1, SteppedGood, ProducedGood DEF ResumeParent
  <2>3. \A d \in Calls : call'[d] = call[d] \/ call'[d] = Idle \/ call'[d] = g
    BY <2>1 DEF TypeOK
  <2> QED BY <1>12, <2>2, <2>3, IdleGood DEF ResumeParent, histVars
<1>13. CASE AuditRecord(c)
  BY <1>0, <1>13, AuditedGood, BecomeGood DEF AuditRecord, histVars
<1>14. CASE HistoryRecord(c)
  <2>1. Good(Moved(call[c], "returned"))
    BY <1>0, <1>14, MovedGood DEF HistoryRecord, Pcs
  <2>2. \A d \in Calls : Good(call'[d])
    BY <1>14, <2>1 DEF HistoryRecord, Goto, Become, TypeOK
  <2>3. \A k \in DOMAIN hist' : hist'[k].tok = None
    <3>1. PICK h \in Seq(HistRecords), r \in HistRecords :
            /\ h = IF Len(hist) >= HistoryCap THEN Tail(hist) ELSE hist
            /\ r = RecordOf(c)
      <4>1. RecordOf(c) \in HistRecords
        BY <1>14 DEF HistoryRecord, RecordOf, TypeOK, FrameOK, Frames, HistRecords
      <4>2. Len(hist) >= HistoryCap => Tail(hist) \in Seq(HistRecords)
        BY ConstantsAssumption DEF ConstantsAssumption, TypeOK
      <4> QED BY <4>1, <4>2 DEF TypeOK
    <3>2. r.tok = None
      BY <3>1 DEF RecordOf
    <3>3. \A k \in DOMAIN h : h[k].tok = None
      BY <3>1, ConstantsAssumption DEF ConstantsAssumption, TypeOK
    <3>4. \A k \in DOMAIN Append(h, r) : Append(h, r)[k].tok = None
      BY <3>2, <3>3
    <3> QED BY <1>14, <3>1, <3>4 DEF HistoryRecord, histVars
  <2> QED BY <2>2, <2>3
<1> QED BY <1>1, <1>2, <1>3, <1>4, <1>5, <1>6, <1>7, <1>8, <1>9, <1>10, <1>11,
           <1>12, <1>13, <1>14 DEF Step

\* The frames are good in every state.
LEMMA FramesInvariant == Spec => []FramesGood
<1>1. Init => FramesGood
  BY IdleGood DEF Init, FramesGood
<1>2. TypeOK /\ FramesGood /\ [Next]_vars => FramesGood'
  <2> SUFFICES ASSUME TypeOK, FramesGood, [Next]_vars PROVE FramesGood'
    OBVIOUS
  <2>1. ASSUME NEW s \in Slots, NEW caller \in Callers, Submit(s, caller)
        PROVE  FramesGood'
    <3>1. PICK tool, arg, tok :
            Become(<<s, 1>>, NewCall(caller, tool, arg, tok, "client"))
      BY <2>1 DEF Submit
    <3>2. Good(NewCall(caller, tool, arg, tok, "client")) /\ <<s, 1>> \in Calls
      BY NewCallGood DEF Calls, Depths
    <3> QED BY <2>1, <3>1, <3>2, BecomeGood DEF Submit, histVars
  <2>2. ASSUME NEW s \in Slots, Return(s) PROVE FramesGood'
    <3>1. <<s, 1>> \in Calls
      BY DEF Calls, Depths
    <3> QED BY <2>2, <3>1, IdleGood, BecomeGood DEF Return, histVars
  <2>3. CASE World
    BY <2>3 DEF World, Tick, OpenWindow, FocusWindow, UserCloses, FramesGood, histVars
  <2>4. CASE UNCHANGED vars
    BY <2>4 DEF vars, histVars, FramesGood
  <2> QED BY <2>1, <2>2, <2>3, <2>4, StepGood DEF Next
<1> QED BY <1>1, <1>2, TypeCorrect, PTL DEF Spec

\* Effects come from an invocation that is past the check, and from no other
\* step; they carry its fields.
LEMMA EffectSource ==
  ASSUME TypeOK, [Next]_vars, NEW e \in effects', e \notin effects
  PROVE  \E c \in Calls :
           /\ Holding(call[c]) /\ call[c].pc \in Passed
           /\ e.tok = call[c].tok /\ e.caller = call[c].caller
           /\ e.tool = call[c].tool /\ e.via = call[c].via
           /\ e.target = call[c].target
           /\ e.gone = call[c].gone
           /\ e.tool = "window_control" => call[c].pc = "close" /\ e.hit = Met(c)
<1>1. ASSUME NEW c \in Calls, NEW hit, Effect(c, hit)
      PROVE  /\ e.tok = call[c].tok /\ e.caller = call[c].caller
             /\ e.tool = call[c].tool /\ e.via = call[c].via
             /\ e.target = call[c].target /\ e.hit = hit /\ e.gone = call[c].gone
  BY <1>1 DEF Effect
<1>2. ASSUME NEW c \in Calls, Step(c)
      PROVE  \/ Effect(c, None) /\ call[c].pc = "dispatch"
                  /\ call[c].tool \in {"system_command", "clear_action_history"}
             \/ Effect(c, Met(c)) /\ call[c].pc = "close"
                  /\ call[c].tool = "window_control"
  BY <1>2 DEF Step, Gate, ResolveCloseTarget, ConsentCheck, Challenge, ExecSystemCommand,
       RunUngated, ResolveWindow, DispatchClose, ClearActionHistory, ReplayAction,
       RunManifest, ResumeParent, AuditRecord, HistoryRecord, At, ghostVars, TypeOK, FrameOK
<1>3. PICK c \in Calls : Step(c)
  BY DEF Next, World, Submit, Return, Tick, OpenWindow, FocusWindow, UserCloses,
         vars, ghostVars
<1> QED BY <1>1, <1>2, <1>3 DEF Holding, Destructive, Passed

\* No way round a role: no effect of a category that is switched off or a tool
\* the caller's role denies, nested calls included (tools/mod.rs policy gate).
THEOREM RolesHold == Spec => []PolicyNotLaundered
<1>1. Init => PolicyNotLaundered
  BY DEF Init, PolicyNotLaundered
<1>2. TypeOK /\ FramesGood /\ PolicyNotLaundered /\ [Next]_vars => PolicyNotLaundered'
  <2> SUFFICES ASSUME TypeOK, FramesGood, PolicyNotLaundered, [Next]_vars,
                      NEW e \in effects', e \notin effects
               PROVE  e.tool \in EnabledTools \cap AllowedTools[e.caller]
    BY DEF PolicyNotLaundered
  <2> QED BY EffectSource DEF FramesGood, Good, Entitled
<1> QED BY <1>1, <1>2, TypeCorrect, FramesInvariant, PTL DEF Spec

\* Replay acts on nobody's consent: no destructive effect comes out of a
\* replayed record, whatever it holds (admin.rs replay_action).
THEOREM ReplayHarmless == Spec => []ReplayInheritsNothing
<1>1. Init => ReplayInheritsNothing
  BY DEF Init, ReplayInheritsNothing
<1>2. TypeOK /\ ConsentInv /\ FramesGood /\ ReplayInheritsNothing /\ [Next]_vars
        => ReplayInheritsNothing'
  <2> SUFFICES ASSUME TypeOK, ConsentInv, FramesGood, ReplayInheritsNothing, [Next]_vars,
                      ~AllowDestructive, NEW e \in effects', e \notin effects
               PROVE  e.via # "replay"
    BY DEF ReplayInheritsNothing
  <2>1. PICK c \in Calls : Holding(call[c]) /\ e.via = call[c].via
    BY EffectSource
  <2>2. call[c].tok \in Tokens
    BY <2>1 DEF ConsentInv, ConsentLedger, Authorised
  <2>3. Tokenless(call[c])
    BY DEF FramesGood, Good
  <2> QED BY <2>1, <2>2, <2>3, ConstantsAssumption DEF Tokenless, ConstantsAssumption
<1> QED BY <1>1, <1>2, TypeCorrect, ConsentInvariant, FramesInvariant, PTL DEF Spec

\* Whatever has returned has one audit record; what acted is stamped, and none
\* that is reported refused has acted (tools/mod.rs, every way out).
THEOREM AuditComplete == Spec => []AuditedOnce
<1>1. FramesGood => AuditedOnce
  BY DEF FramesGood, Good, Accounted, AuditedOnce, Stamp
<1> QED BY <1>1, FramesInvariant, PTL

-----------------------------------------------------------------------------
(* Closing what was consented to.                                           *)

\* From admission to the close the target of a close bound to an id stays the
\* argument, unless the lookup did not find it in the list.
Kept(f) ==
  (/\ f.tool = "window_control" /\ f.pc \in {"dispatch", "close"}
   /\ f.target \in Windows /\ f.target # None)
    => f.window = f.target \/ (f.pc = "close" /\ f.gone)
TargetBound == \A c \in Calls : Kept(call[c])

\* An id in the list means its own window, whatever the titles contain.
LEMMA IdLookup ==
  ASSUME NEW w \in Open, w # None
  PROVE  Lookup(w) = w
BY DEF Lookup, Candidates

\* Every step keeps targets bound.
LEMMA StepBound ==
  ASSUME TypeOK, TargetBound, NEW c \in Calls, Step(c)
  PROVE  TargetBound'
<1>0. FrameOK(call[c]) /\ Kept(call[c])
  BY DEF TypeOK, TargetBound
<1>1. ASSUME NEW f, Become(c, f), Kept(f) PROVE TargetBound'
  BY <1>1 DEF Become, TypeOK, TargetBound
<1>2. ASSUME NEW pc \in Pcs \ {"dispatch", "close"}, Goto(c, pc) PROVE TargetBound'
  <2>1. Kept(Moved(call[c], pc))
    BY <1>0 DEF Kept, FrameOK, Frames, Moved
  <2> QED BY <1>1, <1>2, <2>1 DEF Goto
<1>3. ASSUME NEW o, Produce(c, o) PROVE TargetBound'
  <2>1. Kept(Produced(call[c], o))
    BY <1>0 DEF Kept, FrameOK, Frames, Produced
  <2> QED BY <1>1, <1>3, <2>1 DEF Produce
<1>4. ASSUME Done(c) PROVE TargetBound'
  <2>1. Kept(Acted(call[c])) /\ Kept(Died(call[c]))
    BY <1>0 DEF Kept, FrameOK, Frames, Acted, Died
  <2> QED BY <1>1, <1>4, <2>1 DEF Done, Succeed, Panic
<1>5. ASSUME NEW pc \in {"returned", "challenge"}, NEW o, RejectTo(c, pc, o)
      PROVE  TargetBound'
  <2>1. Kept(Rejected(call[c], pc, o))
    BY <1>0 DEF Kept, FrameOK, Frames, Rejected
  <2> QED BY <1>1, <1>5, <2>1 DEF RejectTo
<1>6. ASSUME NEW stamp, Admit(c, stamp) PROVE TargetBound'
  <2> DEFINE w == IF call[c].target = None THEN call[c].arg ELSE call[c].target
  <2>1. call[c].target # None => w = call[c].target
    OBVIOUS
  <2> HIDE DEF w
  <2>2. Kept(Admitted(call[c], stamp, now, w))
    BY <1>0, <2>1 DEF Kept, FrameOK, Frames, Admitted
  <2> QED BY <1>1, <1>6, <2>2 DEF Admit, w
<1>7. ASSUME NEW t, Become(c, Targeted(call[c], t)) PROVE TargetBound'
  <2>1. Kept(Targeted(call[c], t))
    BY <1>0 DEF Kept, FrameOK, Frames, Targeted
  <2> QED BY <1>1, <1>7, <2>1
<1>8. ASSUME ResolveWindow(c), NEW w, Aim(c, w),
             (w = FocusedView /\ MeansFocus(call[c].window)) \/ w = Lookup(call[c].window)
      PROVE  TargetBound'
  <2> DEFINE gone == call[c].target \notin Open
  <2>1. PICK seen : Become(c, Aimed(call[c], w, seen, gone))
    BY <1>8 DEF Aim
  <2>2. (call[c].target \in Windows /\ call[c].target # None) => w = call[c].target \/ gone
    <3>1. SUFFICES ASSUME call[c].target \in Windows, call[c].target # None,
                          call[c].target \in Open
                   PROVE  w = call[c].target
      OBVIOUS
    <3>2. call[c].window = call[c].target
      BY <1>0, <1>8, <3>1 DEF Kept, ResolveWindow, At
    <3>3. ~MeansFocus(call[c].window)
      BY <3>1, <3>2, ConstantsAssumption DEF MeansFocus, ConstantsAssumption
    <3> QED BY <1>8, <3>1, <3>2, <3>3, IdLookup
  <2> HIDE DEF gone
  <2>3. Kept(Aimed(call[c], w, seen, gone))
    BY <1>0, <2>2 DEF Kept, FrameOK, Frames, Aimed
  <2> QED BY <1>1, <2>1, <2>3
<1>9. ASSUME NEW tool, NEW arg, NEW tok, Enter(c, tool, arg, tok) PROVE TargetBound'
  <2>1. PICK via : call' = [call EXCEPT ![c] = Moved(call[c], "nested"),
                      ![Child(c)] = NewCall(call[c].caller, tool, arg, tok, via)]
    BY <1>9 DEF Enter
  <2>2. Moved(call[c], "nested").pc = "nested"
    BY <1>0 DEF FrameOK, Frames, Moved
  <2>3. NewCall(call[c].caller, tool, arg, tok, via).pc = "gate"
    BY DEF NewCall
  <2> DEFINE f == Moved(call[c], "nested")
             g == NewCall(call[c].caller, tool, arg, tok, via)
  <2> HIDE DEF f, g
  <2>4. \A d \in Calls : call'[d] = call[d] \/ call'[d] = f \/ call'[d] = g
    BY <2>1 DEF TypeOK, f, g
  <2> QED BY <2>2, <2>3, <2>4 DEF TargetBound, Kept, f, g
<1>10. CASE ResumeParent(c)
  <2>1. PICK g, o : /\ call' = [call EXCEPT ![Child(c)] = Idle, ![c] = g]
                    /\ \/ g = Stepped(call[c]) /\ call[c].tool = "plugin_run"
                       \/ g = Produced(call[c], o)
    BY <1>10 DEF ResumeParent
  <2>2. Kept(g)
    <3>1. Produced(call[c], o).pc = "audit"
      BY <1>0 DEF FrameOK, Frames, Produced
    <3>2. Stepped(call[c]).tool = call[c].tool
      BY <1>0 DEF FrameOK, Frames, Stepped
    <3> QED BY <2>1, <3>1, <3>2 DEF Kept
  <2>3. Idle.pc = "idle"
    BY IdleType
  <2>4. \A d \in Calls : call'[d] = call[d] \/ call'[d] = Idle \/ call'[d] = g
    BY <2>1 DEF TypeOK
  <2> QED BY <2>2, <2>3, <2>4 DEF TargetBound, Kept
<1>11. CASE AuditRecord(c)
  <2>1. Audited(call[c]).pc = "record"
    BY <1>0 DEF FrameOK, Frames, Audited
  <2> QED BY <1>1, <1>11, <2>1 DEF AuditRecord, Kept
<1> QED BY <1>2, <1>3, <1>4, <1>5, <1>6, <1>7, <1>8, <1>9, <1>10, <1>11
        DEF Step, Gate, ResolveCloseTarget, ConsentCheck, Challenge, ExecSystemCommand,
            RunUngated, ResolveWindow, DispatchClose, Done, ClearActionHistory,
            ReplayAction, RunManifest, HistoryRecord, Pcs

\* A close bound to an id at its challenge goes to the window of that id or to
\* none, unless the id had left the list when the close was dispatched; the
\* run close_id_in_title shows what happens then (tools/mod.rs:730-735).
THEOREM CloseHitsTarget == Spec => []BoundCloseHitsTarget
<1>1. Init => TargetBound /\ BoundCloseHitsTarget
  BY IdleType DEF Init, TargetBound, Kept, BoundCloseHitsTarget
<1>2. TypeOK /\ TargetBound /\ BoundCloseHitsTarget /\ [Next]_vars
        => (TargetBound /\ BoundCloseHitsTarget)'
  <2> SUFFICES ASSUME TypeOK, TargetBound, BoundCloseHitsTarget, [Next]_vars
               PROVE  (TargetBound /\ BoundCloseHitsTarget)'
    OBVIOUS
  <2>1. TargetBound'
    <3>1. ASSUME NEW s \in Slots, NEW f, f.pc \in {"idle", "gate"}, Become(<<s, 1>>, f)
          PROVE  TargetBound'
      BY <3>1 DEF Become, TypeOK, TargetBound, Kept, Calls
    <3>2. ASSUME NEW s \in Slots, NEW caller \in Callers, Submit(s, caller)
          PROVE  TargetBound'
      BY <3>1, <3>2 DEF Submit, NewCall
    <3>3. ASSUME NEW s \in Slots, Return(s) PROVE TargetBound'
      BY <3>1, <3>3, IdleType DEF Return
    <3>4. CASE UNCHANGED call
      BY <3>4 DEF TargetBound
    <3> QED BY <3>2, <3>3, <3>4, StepBound
            DEF Next, World, Tick, OpenWindow, FocusWindow, UserCloses, vars
  <2>2. BoundCloseHitsTarget'
    <3> SUFFICES ASSUME NEW e \in effects', e \notin effects,
                        e.tool = "window_control", e.target \in Windows, e.target # None
                 PROVE  e.hit = e.target \/ e.gone
      BY DEF BoundCloseHitsTarget
    <3>1. PICK c \in Calls : /\ e.target = call[c].target /\ e.tool = call[c].tool
                             /\ call[c].pc = "close" /\ e.gone = call[c].gone
                             /\ e.hit = Met(c)
      BY EffectSource
    <3>2. call[c].window = call[c].target => Met(c) = call[c].target
      BY <3>1, ConstantsAssumption DEF Met, ConstantsAssumption
    <3> QED BY <3>1, <3>2 DEF TargetBound, Kept
  <2> QED BY <2>1, <2>2
<1> QED BY <1>1, <1>2, TypeCorrect, PTL DEF Spec

-----------------------------------------------------------------------------
(* Refinement.  The pipeline implements ConsentPromise: the init state maps  *)
(* to an initial state; a challenge maps to Offer, an effect to Do, and      *)
(* every other step takes offers away or changes nothing.  That the deed of  *)
(* a Do step is a new one needs every effect so far to have used its token.  *)

Spent == \A e \in effects : e.tok \in Tokens => uses[e.tok] > 0

\* A step without an effect keeps Spent.
LEMMA QuietSpent ==
  ASSUME Spent, UNCHANGED ghostVars
  PROVE  Spent'
BY DEF Spent, ghostVars

\* The effect of an invocation uses the token it ran under.
LEMMA EffectSpent ==
  ASSUME TypeOK, Spent, NEW c \in Calls, NEW hit, Effect(c, hit)
  PROVE  Spent'
<1> DEFINE eff == [tok |-> call[c].tok, caller |-> call[c].caller,
                   tool |-> call[c].tool, arg |-> call[c].arg,
                   target |-> call[c].target, hit |-> hit,
                   at |-> call[c].at, via |-> call[c].via, gone |-> call[c].gone]
<1>1. effects' = effects \cup {eff} /\ eff.tok = call[c].tok
  BY DEF Effect
<1>2. /\ \A t \in Tokens : uses'[t] >= uses[t] /\ uses[t] \in Nat
                           /\ uses'[t] \in Nat
      /\ call[c].tok \in Tokens => uses'[call[c].tok] > 0
  BY DEF Effect, TypeOK
<1> HIDE DEF eff
<1> QED BY <1>1, <1>2 DEF Spent

\* Only an invocation that acts adds an effect, and it uses up its token.
LEMMA StepSpent ==
  ASSUME TypeOK, Spent, NEW c \in Calls, Step(c)
  PROVE  Spent'
<1>1. UNCHANGED ghostVars \/ \E hit : Effect(c, hit)
  BY DEF Step, Gate, ResolveCloseTarget, ConsentCheck, Challenge, ExecSystemCommand,
         RunUngated, ResolveWindow, DispatchClose, ClearActionHistory, ReplayAction,
         RunManifest, ResumeParent, AuditRecord, HistoryRecord
<1> QED BY <1>1, QuietSpent, EffectSpent

\* Every effect has used its token, in every state.
LEMMA SpentInvariant == Spec => []Spent
<1>1. Init => Spent
  BY DEF Init, Spent
<1>2. TypeOK /\ Spent /\ [Next]_vars => Spent'
  <2> SUFFICES ASSUME TypeOK, Spent, [Next]_vars PROVE Spent'
    OBVIOUS
  <2>1. CASE \E c \in Calls : Step(c)
    BY <2>1, StepSpent
  <2>2. CASE UNCHANGED ghostVars
    BY <2>2, QuietSpent
  <2> QED BY <2>1, <2>2
          DEF Next, Submit, Return, World, Tick, OpenWindow, FocusWindow, UserCloses, vars
<1> QED BY <1>1, <1>2, TypeCorrect, PTL DEF Spec

\* A step after which no more stands than before takes offers away at most.
LEMMA LapseWithdraws ==
  ASSUME Standing' \subseteq Standing,
         grant' = grant, issued' = issued, effects' = effects
  PROVE  Promise!Withdraw
<1>1. \A t \in Tokens : Offers'[t] \in {Offers[t], None}
  BY DEF Offers
<1> QED BY <1>1 DEF Promise!Withdraw, Offers

\* The quiet steps of the pipeline are such steps.
LEMMA QuietWithdraws ==
  ASSUME QuietNext, UNCHANGED <<consentVars, ghostVars>>
  PROVE  Promise!Withdraw
<1>1. Standing' \subseteq Standing
  BY DEF QuietNext, Standing, SameScope, consentVars
<1> QED BY <1>1, LapseWithdraws DEF consentVars, ghostVars

\* A consent check takes its token out of the map; if it lets the invocation
\* past, the invocation is what the offer stands for now.
LEMMA CheckWithdraws ==
  ASSUME ~AllowDestructive, TypeOK, ConsentInv, NEW c \in Calls, ConsentCheck(c)
  PROVE  Promise!Withdraw
<1>1. /\ issued' = issued /\ grant' = grant /\ effects' = effects
      /\ uses' = uses /\ FrameOK(call[c]) /\ call[c].pc = "consent"
  BY DEF ConsentCheck, ghostVars, TypeOK
<1>2. CASE call[c].tool \notin Destructive /\ Admit(c, None) /\ UNCHANGED tokens
  <2>1. \A d \in Calls : Holding(call'[d]) => d # c /\ call'[d] = call[d]
    BY <1>1, <1>2, AdmitFrames DEF Holding
  <2>2. Standing' \subseteq Standing
    BY <1>2, <2>1 DEF Standing
  <2> QED BY <1>1, <2>2, LapseWithdraws
<1>3. ASSUME RejectTo(c, "challenge", "consent_required"),
             (call[c].tok = None /\ UNCHANGED tokens) \/ Consume(c)
      PROVE  Promise!Withdraw
  <2>1. QuietNext
    BY <1>1, <1>3, RejectQuiet DEF Pcs, Outcomes
  <2>2. \A t \in Tokens : tokens'[t] = tokens[t] \/ tokens'[t] = None
    BY <1>3 DEF Consume, TypeOK
  <2>3. Standing' \subseteq Standing
    BY <2>1, <2>2 DEF QuietNext, SameScope, Standing
  <2> QED BY <1>1, <2>3, LapseWithdraws
<1>4. CASE call[c].tok \in Tokens /\ Consume(c) /\ Verifies(c)
           /\ Admit(c, "verified")
  <2> DEFINE tok == call[c].tok
  <2>1. tok \in Tokens /\ tokens[tok] # None
    BY <1>4 DEF Verifies
  <2>2. \A t \in Tokens : t # tok => tokens'[t] = tokens[t]
    BY <1>4 DEF Consume, TypeOK
  <2>3. /\ \A d \in Calls : d # c => call'[d] = call[d]
        /\ call'[c].tok = tok
    BY <1>1, <1>4, AdmitFrames
  <2>4. tok \in Standing
    BY <2>1 DEF Standing
  <2> HIDE DEF tok
  <2>5. Standing' \subseteq Standing
    BY <2>2, <2>3, <2>4 DEF Standing
  <2> QED BY <1>1, <2>5, LapseWithdraws
<1> QED BY <1>2, <1>3, <1>4 DEF ConsentCheck

\* A challenge makes one new offer and drops the stale ones.
LEMMA ChallengeOffers ==
  ASSUME ~AllowDestructive, TypeOK, ConsentInv, NEW c \in Calls, Challenge(c)
  PROVE  \E t \in Tokens : Promise!Offer(t, Offers'[t])
<1>1. QuietNext
  BY GotoQuiet DEF Challenge, Pcs
<1>2. PICK t \in Tokens \ issued :
        /\ issued' = issued \cup {t}
        /\ \A u \in Tokens : u # t => /\ grant'[u] = grant[u]
                                      /\ tokens'[u] \in {tokens[u], None}
  BY DEF Challenge, TypeOK
<1>3. effects' = effects
  BY DEF Challenge, ghostVars
<1>4. \A u \in Tokens \ {t} : u \in Standing' => u \in Standing
  BY <1>1, <1>2 DEF QuietNext, SameScope, Standing
<1>5. \A u \in Tokens \ {t} : Offers'[u] \in {Offers[u], None}
  BY <1>2, <1>4 DEF Offers
<1> QED BY <1>2, <1>3, <1>5 DEF Promise!Offer

\* An effect is a deed that its offer covers, and it uses the offer up.
LEMMA EffectDoes ==
  ASSUME ~AllowDestructive, TypeOK, ConsentInv, Spent, NEW c \in Calls,
         Holding(call[c]), NEW hit, Effect(c, hit), Done(c),
         UNCHANGED consentVars
  PROVE  \E t \in Tokens : Promise!Do(t)
<1> DEFINE tok == call[c].tok
           deed == [tok |-> call[c].tok, caller |-> call[c].caller,
                    tool |-> call[c].tool, arg |-> call[c].arg,
                    target |-> call[c].target, hit |-> hit,
                    at |-> call[c].at, via |-> call[c].via, gone |-> call[c].gone]
<1>1. Authorised(call[c])
  BY DEF ConsentInv, ConsentLedger
<1>2. QuietNext /\ ~Holding(call'[c])
  BY DoneQuiet DEF Holding
<1>3. tokens' = tokens /\ issued' = issued /\ grant' = grant
  BY DEF consentVars
<1>4. tok \in Tokens /\ tokens[tok] = None /\ uses[tok] = 0 /\ grant[tok] # None
  BY <1>1 DEF Authorised, Unspent
<1>5. tok \in Standing /\ Offers[tok] = grant[tok]
  BY <1>4 DEF Standing, Offers
<1>6. deed.tok = tok /\ deed \notin effects
  BY <1>4 DEF Spent
<1>7. Promise!Covers(grant[tok], deed)
  BY <1>1 DEF Authorised, Promise!Covers
<1>8. effects' = effects \cup {deed}
  BY DEF Effect
<1> HIDE DEF deed
<1>9. tok \notin Standing'
  <2>1. ASSUME NEW d \in Calls, Holding(call'[d]) PROVE call'[d].tok # tok
    <3>1. d # c /\ Holding(call[d]) /\ SameScope(call[d], call'[d])
      BY <1>2, <2>1 DEF QuietNext
    <3> QED BY <3>1 DEF SameScope, ConsentInv, ConsentLedger
  <2> QED BY <1>3, <1>4, <2>1 DEF Standing
<1>10. \A u \in Tokens : u # tok => (u \in Standing' <=> u \in Standing)
  <2>1. ASSUME NEW u \in Tokens, u # tok, u \in Standing PROVE u \in Standing'
    <3>1. CASE tokens[u] # None
      BY <1>3, <3>1 DEF Standing
    <3>2. ASSUME NEW d \in Calls, Holding(call[d]), call[d].tok = u
          PROVE  u \in Standing'
      <4>1. call'[d] = call[d]
        BY <2>1, <3>2 DEF Done, Succeed, Panic, Become, TypeOK
      <4> QED BY <3>2, <4>1 DEF Standing
    <3> QED BY <2>1, <3>1, <3>2 DEF Standing
  <2>2. ASSUME NEW u \in Tokens, u \in Standing' PROVE u \in Standing
    BY <1>2, <1>3, <2>2 DEF QuietNext, SameScope, Standing
  <2> QED BY <2>1, <2>2
<1>11. Offers' = [Offers EXCEPT ![tok] = None]
  BY <1>3, <1>9, <1>10 DEF Offers
<1>12. Promise!Do(tok)
  BY <1>3, <1>4, <1>5, <1>6, <1>7, <1>8, <1>11 DEF Promise!Do
<1> QED BY <1>4, <1>12

\* A step of the pipeline is a step of the promise.
LEMMA StepPromised ==
  ASSUME ~AllowDestructive, TypeOK, ConsentInv, Spent, NEW c \in Calls, Step(c)
  PROVE  Promise!Next
<1>1. ASSUME QuietNext, UNCHANGED <<consentVars, ghostVars>> PROVE Promise!Next
  BY <1>1, QuietWithdraws DEF Promise!Next
<1>2. ASSUME NEW hit, Holding(call[c]), Effect(c, hit), Done(c),
             UNCHANGED consentVars
      PROVE  Promise!Next
  BY <1>2, EffectDoes DEF Promise!Next
<1>3. CASE Gate(c)
  BY <1>1, <1>3, GateQuiet DEF Gate
<1>4. CASE ResolveCloseTarget(c)
  BY <1>1, <1>4, ResolveTargetQuiet DEF ResolveCloseTarget
<1>5. CASE ConsentCheck(c)
  BY <1>5, CheckWithdraws DEF Promise!Next
<1>6. CASE Challenge(c)
  BY <1>6, ChallengeOffers DEF Promise!Next
<1>7. CASE ExecSystemCommand(c)
  <2>1. ASSUME NEW o \in Outcomes, Produce(c, o), UNCHANGED ghostVars
        PROVE  Promise!Next
    BY <1>1, <1>7, <2>1, ProduceQuiet DEF ExecSystemCommand, At
  <2>2. CASE Effect(c, None) /\ Done(c)
    BY <1>2, <1>7, <2>2 DEF ExecSystemCommand, At, Holding, Destructive
  <2> QED BY <1>7, <2>1, <2>2 DEF ExecSystemCommand, Outcomes, Done
<1>8. CASE RunUngated(c)
  BY <1>1, <1>8, RunUngatedQuiet DEF RunUngated
<1>9. CASE ResolveWindow(c)
  BY <1>1, <1>9, ResolveWindowQuiet DEF ResolveWindow
<1>10. CASE DispatchClose(c)
  <2>1. ASSUME NEW o \in Outcomes, Produce(c, o), UNCHANGED ghostVars
        PROVE  Promise!Next
    BY <1>1, <1>10, <2>1, ProduceQuiet DEF DispatchClose
  <2>2. CASE Effect(c, Met(c)) /\ Succeed(c)
    <3>1. Holding(call[c])
      BY <1>10 DEF DispatchClose, TypeOK, FrameOK, Holding, Destructive
    <3> QED BY <1>2, <1>10, <2>2, <3>1 DEF DispatchClose, Done
  <2> QED BY <1>10, <2>1, <2>2 DEF DispatchClose, Outcomes
<1>11. CASE ClearActionHistory(c)
  <2>1. CASE Produce(c, "error") /\ UNCHANGED ghostVars
    BY <1>1, <1>11, <2>1, ProduceQuiet DEF ClearActionHistory, At, Outcomes
  <2>2. CASE Effect(c, None) /\ Succeed(c)
    BY <1>2, <1>11, <2>2 DEF ClearActionHistory, At, Holding, Destructive, Done
  <2> QED BY <1>11, <2>1, <2>2 DEF ClearActionHistory
<1>12. CASE ReplayAction(c)
  BY <1>1, <1>12, ReplayQuiet DEF ReplayAction
<1>13. CASE RunManifest(c)
  BY <1>1, <1>13, ManifestQuiet DEF RunManifest
<1>14. CASE ResumeParent(c)
  BY <1>1, <1>14, ResumeQuiet DEF ResumeParent
<1>15. CASE AuditRecord(c)
  BY <1>1, <1>15, AuditQuiet DEF AuditRecord
<1>16. CASE HistoryRecord(c)
  BY <1>1, <1>16, HistoryQuiet DEF HistoryRecord
<1> QED BY <1>3, <1>4, <1>5, <1>6, <1>7, <1>8, <1>9, <1>10, <1>11, <1>12, <1>13,
           <1>14, <1>15, <1>16 DEF Step

\* Without --allow-destructive the whole pipeline, with its re-entry through
\* replay and plugins, implements the promise of the consent gate.
THEOREM PromiseKept ==
  ASSUME ~AllowDestructive
  PROVE  Spec => KeepsPromise
<1>1. Init => Promise!Init
  <2> SUFFICES ASSUME Init PROVE Promise!Init
    OBVIOUS
  <2>1. \A t \in Tokens : grant[t] = None
    BY DEF Init
  <2> QED BY <2>1 DEF Init, Promise!Init, Offers
<1>2. TypeOK /\ ConsentInv /\ Spent /\ [Next]_vars
        => [Promise!Next]_(Promise!promiseVars)
  <2> SUFFICES ASSUME TypeOK, ConsentInv, Spent, [Next]_vars
               PROVE  Promise!Next
    OBVIOUS
  <2>1. ASSUME NEW s \in Slots, NEW caller \in Callers, Submit(s, caller)
        PROVE  Promise!Next
    BY <2>1, SubmitQuiet, QuietWithdraws DEF Submit, Promise!Next
  <2>2. ASSUME NEW s \in Slots, Return(s) PROVE Promise!Next
    BY <2>2, ReturnQuiet, QuietWithdraws DEF Return, Promise!Next
  <2>3. ASSUME UNCHANGED call, UNCHANGED <<consentVars, ghostVars>>
        PROVE  Promise!Next
    <3>1. QuietNext
      BY <2>3 DEF QuietNext, SameScope
    <3> QED BY <2>3, <3>1, QuietWithdraws DEF Promise!Next
  <2>4. CASE World
    BY <2>3, <2>4 DEF World, Tick, OpenWindow, FocusWindow, UserCloses
  <2>5. CASE UNCHANGED vars
    BY <2>3, <2>5 DEF vars
  <2> QED BY <2>1, <2>2, <2>4, <2>5, StepPromised DEF Next
<1> QED BY <1>1, <1>2, TypeCorrect, ConsentInvariant, SpentInvariant, PTL
        DEF Spec, KeepsPromise, Promise!Spec
=============================================================================
