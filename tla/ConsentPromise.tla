--------------------------- MODULE ConsentPromise ---------------------------
(***************************************************************************)
(* What the consent gate promises a user, with no pipeline in sight: every *)
(* destructive deed uses up one offer that was made for that very call,    *)
(* and an offer that lapsed, was refused or was used is gone for good.     *)
(***************************************************************************)
EXTENDS Naturals

CONSTANTS Tokens,   \* names of offers, each used once
          Ttl,      \* how long an offer may be redeemed
          None

VARIABLES
  drawn,   \* the tokens handed out so far
  offers,  \* what can still be done: token -> scope or None
  deeds    \* what has been done

promiseVars == <<drawn, offers, deeds>>

Init == drawn = {} /\ offers = [t \in Tokens |-> None] /\ deeds = {}

\* The deed is the one that was offered, redeemed in time.
Covers(scope, deed) ==
  /\ scope.caller = deed.caller /\ scope.tool = deed.tool
  /\ scope.arg = deed.arg /\ scope.target = deed.target
  /\ deed.at <= scope.issued + Ttl

\* Offers lapse or are withdrawn at any time; a new one has a fresh name.
Offer(t, scope) ==
  /\ t \notin drawn
  /\ drawn' = drawn \cup {t}
  /\ \A u \in Tokens \ {t} : offers'[u] \in {offers[u], None}
  /\ offers'[t] = scope
  /\ UNCHANGED deeds

Withdraw ==
  /\ \A t \in Tokens : offers'[t] \in {offers[t], None}
  /\ UNCHANGED <<drawn, deeds>>

\* The one way anything destructive is done.
Do(t) ==
  /\ offers[t] # None
  /\ \E deed \in deeds' \ deeds :
       /\ deed.tok = t /\ Covers(offers[t], deed)
       /\ deeds' = deeds \cup {deed}
  /\ offers' = [offers EXCEPT ![t] = None]
  /\ UNCHANGED drawn

Next ==
  \/ \E t \in Tokens : Offer(t, offers'[t]) \/ Do(t)
  \/ Withdraw

Spec == Init /\ [][Next]_promiseVars
=============================================================================
