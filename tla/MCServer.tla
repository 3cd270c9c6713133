------------------------------ MODULE MCServer ------------------------------
(***************************************************************************)
(* Small instances of the parts around a tool call on the server: the      *)
(* front door (HttpGate), the helper processes (CommandRunner), the plugin *)
(* manifests (PluginCatalog) and the metrics (Metrics).  They share no     *)
(* state, so a behaviour follows one of them, picked at the start, and the *)
(* others stand still.                                                     *)
(***************************************************************************)
EXTENDS HttpGate, CommandRunner, PluginCatalog, Metrics, TLC

CONSTANTS Parts,                              \* the components explored
          r1, r2, a1, k1, k2, kn, v

VARIABLE part

-----------------------------------------------------------------------------
(* The front door: one identity fits the limiter's map, so two callers     *)
(* already evict each other; a bucket of one token, refilled every tick.   *)

GateCatalog == {"plugin_run", "get_windows", "mouse_move"}
GateTools == {"deploy_notes"}
GatePlugin == [t \in GateTools |-> "deploy-notes"]
GateCategory == [t \in GateCatalog |-> IF t = "mouse_move" THEN "mouse" ELSE "admin"]

Entry(k, e) == [key |-> k, expires |-> e]
KeyFile(private, form, records) ==
  [private |-> private, form |-> form, records |-> records]
RoleOf(readonly, allow, deny) ==
  [readonly |-> readonly, allow |-> allow, deny |-> deny]
NamedRoles == [default |-> RoleOf(TRUE, Absent, {}),
               roles |-> ("ops" :> RoleOf(FALSE, Absent, {"deploy-notes"})),
               keys |-> (k1 :> "ops")]
PlainLaunch ==
  [stdio |-> FALSE, disabled |-> FALSE, secured |-> TRUE, env |-> Absent, file |-> Absent, dir |-> <<>>,
   policy |-> Absent, readonly |-> FALSE, allow |-> {}, deny |-> {},
   categories |-> Absent]

\* Every key source, with a malformed entry, an unreadable expiry, a loose
\* file mode and a duplicate; policies by file and by flag; stdio; no auth; no
\* security context.
MCLaunches ==
  {[PlainLaunch EXCEPT !.env = <<Entry(k1, 1), Entry(Garbage, Never), Entry(k2, Never)>>,
                       !.dir = <<KeyFile(TRUE, "json", <<Entry(kn, Never)>>)>>],
   [PlainLaunch EXCEPT !.file = KeyFile(TRUE, "line", <<Entry(k1, BadStamp), Entry(k1, 1)>>),
                       !.policy = NamedRoles,
                       !.allow = {"mouse_move", "plugin_run", "deploy_notes"}],
   [PlainLaunch EXCEPT !.file = KeyFile(TRUE, "json", <<Entry(k1, BadStamp)>>)],
   [PlainLaunch EXCEPT !.dir = <<KeyFile(TRUE, "json", <<Entry(k1, 3)>>),
                                 KeyFile(FALSE, "json", <<Entry(k2, Never)>>)>>],
   [PlainLaunch EXCEPT !.env = <<Entry(k1, 1)>>, !.policy = Refusal],
   [PlainLaunch EXCEPT !.env = <<Entry(Garbage, Never)>>],
   [PlainLaunch EXCEPT !.env = <<Entry(k1, Never)>>, !.secured = FALSE],
   [PlainLaunch EXCEPT !.stdio = TRUE, !.readonly = TRUE, !.deny = {"get_windows"},
                       !.categories = {"mouse"},
                       !.allow = {"plugin_run", "mouse_move", "deploy_notes"}],
   [PlainLaunch EXCEPT !.stdio = TRUE, !.deny = {"deploy-notes"}],
   [PlainLaunch EXCEPT !.disabled = TRUE, !.allow = {"plugin_run"}]}

-----------------------------------------------------------------------------
(* The helper processes: every short argument list of the three capture    *)
(* commands, and the shapes of hyprctl and xdotool; streams of up to three *)
(* pipe buffers, of which two are kept and one is reported.                *)

MCFlags == [c \in {"grim", "scrot", "slurp"} |->
  CASE c = "grim" -> [value |-> {"-o", "-g"}, bare |-> {}]
    [] c = "scrot" -> [value |-> {"-d"}, bare |-> {"-s"}]
    [] c = "slurp" -> [value |-> {"-f"}, bare |-> {"-d"}]]
Cmd(kind, cmd, args, daemon) ==
  [kind |-> kind, cmd |-> cmd, args |-> args, x11 |-> FALSE, rooted |-> TRUE,
   daemon |-> daemon]
MCCalls ==
  {Cmd("exec", c, a, FALSE): c \in {"grim", "scrot", "slurp"},
                             a \in BoundedSeq({"-o", "-g", "-d", "-s", "1"}, 3)}
  \union {Cmd(k, "hyprctl", <<"clients">>, TRUE): k \in Kinds}
  \union {Cmd("exec", "hyprctl", a, FALSE):
            a \in {<<>>, <<"-j">>, <<"-j", "clients">>, <<"clients", v>>,
                   <<"dispatch", "exec", v>>, <<"dispatch", "workspace", v>>, <<Bad>>}}
  \union {[Cmd("exec", "xdotool", a, FALSE) EXCEPT !.x11 = TRUE]:
            a \in {<<"key", v>>, <<"--window", "key">>, <<"--window", v, "key">>, <<v>>}}
  \union {[Cmd("exec", "grim", <<>>, FALSE) EXCEPT !.rooted = FALSE]}
  \union {Cmd("exec", c, <<>>, FALSE): c \in {"wmctrl", "xclip", v}}

MCBudget == [k \in Kinds |-> IF k = "exec" THEN 3 ELSE 1]

-----------------------------------------------------------------------------
(* The plugins: three files with every mix of a macro and a rival for its  *)
(* tool name, some with a namesake or an unsound manifest; one edit.       *)

Param(ty, required) == [ty |-> ty, required |-> required]
Manifest(name, tool, params, toolParams, steps) ==
  [version |-> 1, name |-> name, tool |-> tool, params |-> params,
   toolParams |-> toolParams, steps |-> steps]
Do(tool, args) == [tool |-> tool, args |-> args]
x == <<"x">>
RefX == <<Dollar, Open, "x", Close>>
Macro == Manifest("deploy", "run_it", x :> Param("number", TRUE), <<>>,
  <<Do("sleep", <<RefX>>), Do("type", <<x \o RefX, <<Dollar>> \o RefX>>)>>)
Rival == Manifest("notes", "run_it", <<>>, x :> Param("string", FALSE),
  <<Do("type", <<RefX, <<Dollar, "x", Dollar>>>>)>>)
Namesake == Manifest("deploy", Missing, <<>>, <<>>, <<Do("type", <<<<Dollar, Dollar>>>>)>>)
Looping == [Namesake EXCEPT !.steps = <<Do("plugin_run", <<>>)>>]
Unsound ==
  {Looping,
   [Namesake EXCEPT !.version = 2],
   [Namesake EXCEPT !.tool = "sleep"],
   [Namesake EXCEPT !.steps = <<Do("type", <<RefX>>)>>],
   [Namesake EXCEPT !.params = x :> Param("number", FALSE), !.tool = "run_it",
                    !.toolParams = x :> Param("string", FALSE)],
   [Namesake EXCEPT !.steps = <<Do("type", <<<<Dollar, Open, "x">>>>)>>],
   [Namesake EXCEPT !.steps = <<>>]}
MCDirectories == [1..3 -> {Macro, Rival, Missing}]
  \union {<<Macro, Namesake, Rival>>, <<Namesake, Rival, Macro>>, <<Rival, Macro, Namesake>>}
  \union {<<Macro, u, Missing>>: u \in Unsound}
  \union {<<u, Macro, Missing>>: u \in Unsound}
Supplies == {<<>>, x :> [ty |-> "number", text |-> x], x :> [ty |-> "string", text |-> RefX]}
MCOrders ==
  {[op |-> "plugin_reload", name |-> Missing, params |-> <<>>]}
  \union {[op |-> "plugin_run", name |-> n, params |-> s]:
            n \in {"deploy", "notes"}, s \in Supplies}
  \union {[op |-> "exposed", name |-> "run_it", params |-> s]: s \in Supplies}

MCManifests == {Macro, Rival, Namesake, Looping}
MCParamNames == {x}
MCDenials == {{}, {"deploy"}, {"run_it"}, {"plugin_run"}}

-----------------------------------------------------------------------------
(* The metrics: two callers, one tool, durations at a bound and above all. *)

MCBounds == <<1, 2>>

-----------------------------------------------------------------------------
\* A component that is not explored starts in one fixed state.
Still(p, choice) == part = p \/ choice

ServerInit ==
  /\ part \in Parts
  /\ Still("gate", launch = CHOOSE l \in MCLaunches: TRUE) /\ Init
  /\ Still("runner", call = Cmd("feed", "hyprctl", <<"clients">>, TRUE)) /\ RunnerInit
  /\ Still("plugins", files = <<Missing, Missing, Missing>> /\ denied = {})
  /\ CatalogInit
  /\ MetricsInit

ServerNext ==
  \/ part = "gate" /\ Next /\ UNCHANGED <<part, runnerVars, catalogVars, metricsVars>>
  \/ part = "runner" /\ RunnerNext /\ UNCHANGED <<part, vars, catalogVars, metricsVars>>
  \/ part = "plugins" /\ CatalogNext /\ UNCHANGED <<part, vars, runnerVars, metricsVars>>
  \/ part = "metrics" /\ MetricsNext /\ UNCHANGED <<part, vars, runnerVars, catalogVars>>

ServerSpec == ServerInit /\ [][ServerNext]_<<part, vars, runnerVars, catalogVars, metricsVars>>
=============================================================================
