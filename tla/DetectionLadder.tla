--------------------------- MODULE DetectionLadder --------------------------
(***************************************************************************)
(* Startup: a snapshot of the session's environment, the ladder of back    *)
(* ends it gives each slot, and the walk that registers the first back end *)
(* of each ladder whose probe succeeds.  Probes take place one after the   *)
(* other while the session is still coming up.                             *)
(***************************************************************************)
EXTENDS Integers, Sequences, FiniteSets, SequencesExt

CONSTANTS
  Environments,  \* [type, wayland, display, hyprland, swaysock, wayfire, kde, desktop]
  Sessions,      \* sets of back ends that answer their probe, one per behaviour
  Late           \* back ends that start answering while the ladders are walked

VARIABLES
  env,
  usable,      \* the back ends whose probe would succeed now
  stepped,     \* how many rungs the walk of the current slot has tried
  slots,       \* [slot |-> the back end registered, or "none"]
  names,       \* backend_names
  probed       \* ghost: [slot |-> the back ends that failed their probe]

ladderVars == <<env, usable, stepped, slots, names, probed>>

SlotOrder == <<"capture", "input", "window", "ui_automation", "vision", "browser",
               "overlay", "clipboard">>
Slots == Range(SlotOrder)

-----------------------------------------------------------------------------
(* SessionInfo.  An exported but empty variable counts as unset.           *)

SessionType(e) ==
  IF e.type \in {"wayland", "x11"} THEN e.type
  ELSE IF e.wayland THEN "wayland" ELSE IF e.display THEN "x11" ELSE "headless"

\* Signature first: a variable that outlived its compositor decides as well.
SessionKind(e) ==
  IF e.hyprland THEN "hyprland"
  ELSE IF e.swaysock \/ e.desktop = "sway" THEN "sway"
  ELSE IF e.wayfire \/ e.desktop = "wayfire" THEN "wayfire"
  ELSE IF e.desktop = "river" THEN "river"
  ELSE IF e.kde \/ e.desktop = "kde" THEN "kde"
  ELSE IF e.desktop = "gnome" THEN "gnome" ELSE "other"

PortalDesktop(e) == SessionType(e) = "wayland" /\ SessionKind(e) \in {"kde", "gnome"}

\* plan_backends.
OnDisplay(e, rungs) == IF SessionType(e) = "headless" THEN <<>> ELSE rungs
WindowPlan(e) ==
  LET kind == SessionKind(e)
      type == SessionType(e)
      native == [hyprland |-> "hyprctl", sway |-> "sway-ipc", wayfire |-> "wayfire-ipc",
                 river |-> "riverctl", kde |-> "kdotool", gnome |-> "gnome-shell"]
  IN CASE kind \in {"hyprland", "sway", "wayfire", "river"} -> <<native[kind], "wlr-toplevel">>
       [] kind \in {"kde", "gnome"} /\ type = "wayland" -> <<native[kind]>>
       [] kind \in {"kde", "gnome"} /\ type = "x11" -> <<native[kind], "wmctrl">>
       [] kind = "other" /\ type = "x11" -> <<"wmctrl">>
       [] kind = "other" /\ type = "wayland" -> <<"wlr-toplevel">>
       [] kind \in {"kde", "gnome", "other"} /\ type = "headless" -> <<>>

Plan(e) ==
  LET x11 == SessionType(e) = "x11"
  IN [capture |-> OnDisplay(e, IF PortalDesktop(e) THEN <<"portal-screenshot">>
                               ELSE IF x11 THEN <<"scrot", "portal-screenshot">>
                               ELSE <<"wlr-screencopy", "grim", "portal-screenshot">>),
      input |-> OnDisplay(e, IF PortalDesktop(e) THEN <<"portal-remote-desktop">>
                             ELSE <<IF x11 THEN "xdotool" ELSE "wlr-virtual-input",
                                    "uinput", "portal-remote-desktop">>),
      window |-> WindowPlan(e),
      ui_automation |-> OnDisplay(e, <<"atspi2">>),
      vision |-> OnDisplay(e, <<"onnx">>),
      browser |-> OnDisplay(e, <<"cdp">>),
      overlay |-> OnDisplay(e, IF x11 \/ PortalDesktop(e) THEN <<>> ELSE <<"wlr-layer-shell">>),
      clipboard |-> OnDisplay(e, IF x11 THEN <<"xclip">> ELSE <<"wl-clipboard", "xclip">>)]

-----------------------------------------------------------------------------
LadderInit ==
  /\ env \in Environments
  /\ usable \in Sessions
  /\ stepped = 0
  /\ slots = <<>> /\ names = <<>>
  /\ probed = [s \in Slots |-> {}]

Detecting == Len(slots) < Len(SlotOrder)
Slot == SlotOrder[Len(slots) + 1]
Rungs == Plan(env)[Slot]

\* MUTANT of ProbeRung: a failed probe gives the whole ladder up.
ProbeRungOnce ==
  /\ Detecting /\ stepped < Len(Rungs)
  /\ LET rung == Rungs[stepped + 1]
     IN IF rung \in usable
        THEN /\ slots' = Append(slots, rung)
             /\ names' = Append(names, rung)
             /\ stepped' = 0
             /\ UNCHANGED probed
        ELSE /\ stepped' = Len(Rungs)
             /\ probed' = [probed EXCEPT ![Slot] = @ \union {rung}]
             /\ UNCHANGED <<slots, names>>
  /\ UNCHANGED <<env, usable>>

\* One rung of the current ladder: its constructor probes.
ProbeRung ==
  /\ Detecting /\ stepped < Len(Rungs)
  /\ LET rung == Rungs[stepped + 1]
     IN IF rung \in usable
        THEN /\ slots' = Append(slots, rung)
             /\ names' = Append(names, rung)
             /\ stepped' = 0
             /\ UNCHANGED probed
        ELSE /\ stepped' = stepped + 1
             /\ probed' = [probed EXCEPT ![Slot] = @ \union {rung}]
             /\ UNCHANGED <<slots, names>>
  /\ UNCHANGED <<env, usable>>

\* The end of a ladder: the slot stays empty.
LeaveSlotEmpty ==
  /\ Detecting /\ stepped = Len(Rungs)
  /\ slots' = Append(slots, "none")
  /\ stepped' = 0
  /\ UNCHANGED <<env, usable, names, probed>>

\* The session is still starting.
BackendAppears(b) ==
  /\ b \in Late \ usable
  /\ usable' = usable \union {b}
  /\ UNCHANGED <<env, stepped, slots, names, probed>>

LadderNext == ProbeRung \/ LeaveSlotEmpty \/ \E b \in Late: BackendAppears(b)

LadderSpec == LadderInit /\ [][LadderNext]_ladderVars
-----------------------------------------------------------------------------
(* Properties.                                                             *)

Chosen(slot) == slots[CHOOSE i \in DOMAIN SlotOrder: SlotOrder[i] = slot]
\* How many of the first slots have a provider.
Filled(held, i) == Cardinality({j \in 1..i: held[j] # "none"})
\* The one held is the first of the rungs whose probe did not fail.
FirstOf(rungs, failed, held) ==
  \E k \in 0..Len(rungs):
    /\ failed = {rungs[j]: j \in 1..k}
    /\ IF held = "none" THEN k = Len(rungs) ELSE k < Len(rungs) /\ held = rungs[k + 1]

\* When detection is over: no slot is left empty that had a rung which answered
\* when it was asked, a slot holds a back end only after each one before it, and no
\* other, was tried and failed, the portal being there means that a session with a
\* display can see and act, and the names that /healthz and the metrics show are
\* those of the providers in their order.
LadderServes ==
  ~Detecting =>
    /\ \A i \in DOMAIN SlotOrder:
         FirstOf(Plan(env)[SlotOrder[i]], probed[SlotOrder[i]], slots[i])
    /\ (SessionType(env) # "headless"
          /\ {"portal-screenshot", "portal-remote-desktop"} \subseteq usable \ Late)
         => Chosen("capture") # "none" /\ Chosen("input") # "none"
    /\ Len(names) = Filled(slots, Len(slots))
    /\ \A i \in DOMAIN slots: slots[i] # "none" => names[Filled(slots, i)] = slots[i]

\* backend/detect.rs: "headless: every ladder is empty - there is no display to
\* automate".
HeadlessEmpty == (~Detecting /\ SessionType(env) = "headless") => names = <<>>
=============================================================================
