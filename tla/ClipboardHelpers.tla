-------------------------- MODULE ClipboardHelpers --------------------------
(***************************************************************************)
(* The clipboard tools, each call one run of a helper: wl-copy, wl-paste,  *)
(* xclip or xsel.  Several calls are under way at once, the user copies    *)
(* between their steps, and a helper fails, or does nothing until it is    *)
(* killed at the time-out.                                                 *)
(*                                                                         *)
(* A content is a member of a small set; Reads tells the text a helper     *)
(* makes of it (invalid UTF-8 replaced), None for one that is not text.    *)
(***************************************************************************)
EXTENDS Integers, FiniteSets

CONSTANTS Clients, Requests, Copied, Reads, TooLong, NoText

\* The tools are clipboard_get, _list, _set and _clear; no text is none of their answers.
ClipboardConstants ==
  /\ \A r \in Requests: r.op \in {"get", "list", "set", "clear"}
  /\ NoText # "done"
ASSUME ClipboardAssumption == ClipboardConstants

VARIABLES kit, selection, copies, late

clipVars == <<kit, selection, copies, late>>

Nobody == "nobody"          \* nobody owns the selection
Blank == ""                 \* an owner of the empty text
IdleCopy == [op |-> "none", mime |-> "", text |-> NoText, stage |-> "idle", alive |-> FALSE,
         out |-> {}, seen |-> {}, answer |-> NoText]

\* kit: which helpers were pinned at start-up.
ClipboardInit ==
  /\ kit \in {"wl-clipboard", "xclip", "xclip and xsel", "none"}
  /\ selection \in {Nobody} \union Copied
  /\ copies = [c \in Clients |-> IdleCopy] /\ late = FALSE

-----------------------------------------------------------------------------
(* The selection, and what the helpers print of it.                        *)

TextOf(s) == IF s = Nobody THEN NoText ELSE IF s = Blank THEN Blank ELSE Reads[s]
Types(s) == IF s = Nobody THEN {} ELSE IF TextOf(s) = NoText THEN {"image"} ELSE {"text"}
Running(c) == copies[c].stage = "running"

\* The calls under way see the content, whoever put it there.
Install(s, others) ==
  /\ selection' = s
  /\ copies' = [c \in Clients |->
       IF copies[c].stage \in {"running", "exited"} \/ c \in DOMAIN others
       THEN [(IF c \in DOMAIN others THEN others[c] ELSE copies[c])
               EXCEPT !.seen = @ \union {s}]
       ELSE copies[c]]
One(c, call) == [d \in {c} |-> call]

-----------------------------------------------------------------------------
(* The tool layer.                                                         *)

TextMimes == {"text/plain", "UTF8_STRING"}
Refused(r) == \/ r.op = "get" /\ r.mime \notin TextMimes
              \/ r.op = "set" /\ r.text \in TooLong
Ask(c, r) ==
  /\ copies[c].stage = "idle"
  /\ copies' = [copies EXCEPT ![c] =
       [IdleCopy EXCEPT !.op = r.op, !.mime = r.mime, !.text = r.text,
          !.stage = IF Refused(r) \/ kit = "none" THEN "over" ELSE "spawn",
          !.answer = IF Refused(r) THEN "invalid"
                     ELSE IF kit = "none" THEN "unavailable" ELSE NoText]]
  /\ UNCHANGED <<kit, selection, late>>

\* What the selection becomes when a writing helper has taken it: xclip alone can
\* only put the empty text in the place of what it clears.
Taken(call) ==
  IF call.op = "set" THEN call.text
  ELSE IF kit = "xclip" THEN Blank ELSE Nobody
Writes(call) == call.op \in {"set", "clear"}

-----------------------------------------------------------------------------
(* The helper.                                                             *)

Over(c, answer) ==
  copies' = [copies EXCEPT ![c].stage = "over", ![c].alive = FALSE, ![c].answer = answer]
Spawn(c) ==
  /\ copies[c].stage = "spawn"
  /\ \/ copies' = [copies EXCEPT ![c].stage = "running", ![c].alive = TRUE,
                    ![c].seen = {selection}]
     \/ Over(c, "failed")
  /\ UNCHANGED <<kit, selection, late>>

\* It serves its request and exits; the copy it serves from then on is not waited for.
Printed(call, s) ==
  IF call.op = "list" THEN Types(s) ELSE {TextOf(s)} \ {NoText, Blank}
Serve(c) ==
  /\ copies[c].alive
  /\ LET exited == [copies[c] EXCEPT !.stage = IF Running(c) THEN "exited" ELSE @,
                      !.alive = FALSE]
     IN IF Writes(copies[c])
        THEN /\ Install(Taken(copies[c]), One(c, exited))
             /\ late' = (late \/ ~Running(c))
        ELSE /\ copies' = [copies EXCEPT ![c] =
                            [exited EXCEPT !.out = Printed(copies[c], selection)]]
             /\ UNCHANGED <<selection, late>>
  /\ UNCHANGED kit

\* A failed read is an empty clipboard, a failed write an error.
ExitsFailed(c) ==
  /\ Running(c)
  /\ Over(c, IF Writes(copies[c]) THEN "failed" ELSE "nothing")
  /\ UNCHANGED <<kit, selection, late>>
TimesOutUnkilled(c) ==
  /\ Running(c)
  /\ copies' = [copies EXCEPT ![c].stage = "over", ![c].answer = "failed"]
  /\ UNCHANGED <<kit, selection, late>>
TimesOut(c) ==
  /\ Running(c) /\ Over(c, "failed") /\ UNCHANGED <<kit, selection, late>>

AnswerCopy(c) ==
  /\ copies[c].stage = "exited" /\ Over(c, "done")
  /\ UNCHANGED <<kit, selection, late>>

-----------------------------------------------------------------------------
\* The user copies, or the owner of the selection goes away.
UserCopies ==
  /\ \E c \in Clients: copies[c].stage \in {"running", "exited"}
  /\ \E s \in Copied \union {Nobody}: s # selection /\ Install(s, [c \in {} |-> IdleCopy])
  /\ UNCHANGED <<kit, late>>

ClipboardNext ==
  \/ \E c \in Clients:
       \/ \E r \in Requests: Ask(c, r)
       \/ Spawn(c) \/ Serve(c) \/ ExitsFailed(c) \/ TimesOut(c) \/ AnswerCopy(c)
  \/ UserCopies

ClipboardSpec == ClipboardInit /\ [][ClipboardNext]_clipVars
-----------------------------------------------------------------------------
\* What a call says of the clipboard was so at some moment while its helper ran: the
\* text or the types it read, the text it set, that it was cleared; and a call that
\* failed, was refused or timed out changes nothing after it has answered.
ClipboardTrue ==
  /\ ~late
  /\ \A c \in Clients: LET k == copies[c] IN
       k.answer = "done" =>
         CASE k.op \in {"get", "list"} -> \E s \in k.seen: Printed(k, s) = k.out
           [] k.op = "set" -> k.text \in k.seen
           [] k.op = "clear" -> \E s \in k.seen: TextOf(s) \in {NoText, Blank}
=============================================================================
