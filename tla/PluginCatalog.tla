---------------------------- MODULE PluginCatalog ---------------------------
(***************************************************************************)
(* Plugin manifests: what a scan of <state>/plugins loads while files are  *)
(* edited under it, how a call is bound to a manifest's parameters, and    *)
(* how run_manifest substitutes and dispatches the steps.                  *)
(*                                                                         *)
(* The files are numbered in lexical order.  Text is a sequence over a few *)
(* symbols, enough for the template grammar; the string leaves of a step's *)
(* argument object, at any depth, are one sequence.                        *)
(***************************************************************************)
EXTENDS Naturals, Sequences, FiniteSets, SequencesExt

CONSTANTS
  Files,          \* 1..n, the manifest files in lexical order
  Directories,    \* contents of the directory to start from
  Manifests,      \* contents a file may have
  Broken,         \* contents that are unreadable, oversized or not a manifest
  Missing,        \* no file, no tool section, no version, nothing
  StaticTools,    \* the static tools
  PluginNames, ToolNames, \* names in the two grammars
  ParamNames,     \* texts in the grammar of parameter names
  Recursive,      \* catalog tools that reach the plugin executor again
  Orders,         \* calls: op, name, params
  Denials,        \* deny lists of the caller's role
  MaxFiles, MaxParams, MaxSteps,
  MaxEdits        \* bound: edits explored

\* The symbols of the template grammar: $, { and }.
Dollar == "dollar"
Open == "open"
Close == "close"
Symbols == {Dollar, Open, Close}

Contents == (UNION {Range(d): d \in Directories}) \union Manifests \union {Broken, Missing}
\* The files are numbered; a manifest without a tool section has none of its parameters;
\* the names of parameters have none of the template's symbols; nothing is not a name.
ASSUME PluginAssumption ==
  /\ Files \in SUBSET Nat /\ Directories \subseteq [Files -> Contents]
  /\ \A m \in Contents \ {Missing, Broken}: m.tool = Missing => m.toolParams = <<>>
  /\ \A p \in ParamNames: p \in Seq(Range(p)) /\ Range(p) \intersect Symbols = {}
  /\ Missing \notin StaticTools
  /\ \A o \in Orders: o.op \in {"plugin_reload", "plugin_run", "exposed"}

VARIABLES
  files,    \* the directory, [Files -> contents or Missing]
  edits,
  denied,   \* the deny list of the caller's role
  order,    \* the call
  stage,    \* "idle", "load", "steps" or "over"
  paths,    \* files listed and not yet read; they are read in their order
  loaded,   \* Scan.plugins, as <<file, manifest>> in file order (their final
            \* sort by name, which is unique, shows in reports only)
  skipped,  \* Scan.skipped, as <<file, contents>>
  claimed,  \* names and tool names seen by this scan
  running,  \* the manifest being run
  bound,    \* its parameters' values
  sent,     \* arguments of the steps dispatched so far
  reply

dirVars == <<files, edits>>
scanVars == <<paths, loaded, skipped, claimed>>
runVars == <<running, bound, sent>>
catalogVars == <<dirVars, denied, order, stage, scanVars, runVars, reply>>

-----------------------------------------------------------------------------
(* Templates.                                                              *)

Lit(text) == [ref |-> FALSE, text |-> text]
Ref(name) == [ref |-> TRUE, text |-> name]
WithLit(segs, lit) == IF lit = <<>> THEN segs ELSE Append(segs, Lit(lit))

\* parse_template: "$$" is a dollar, "${name}" a reference, a lone dollar
\* itself; a placeholder must close and hold a parameter name.
Scanned(s, c) ==
  CASE s.mode = "text" ->
         IF c = Dollar THEN [s EXCEPT !.mode = "dollar"] ELSE [s EXCEPT !.lit = Append(@, c)]
    [] s.mode = "dollar" ->
         CASE c = Dollar -> [s EXCEPT !.mode = "text", !.lit = Append(@, Dollar)]
           [] c = Open -> [s EXCEPT !.mode = "name", !.name = <<>>]
           [] OTHER -> [s EXCEPT !.mode = "text", !.lit = @ \o <<Dollar, c>>]
    [] s.mode = "name" ->
         IF c # Close THEN [s EXCEPT !.name = Append(@, c)]
         ELSE IF s.name \notin ParamNames THEN [s EXCEPT !.mode = "bad"]
         ELSE [mode |-> "text", lit |-> <<>>, name |-> <<>>,
               segs |-> Append(WithLit(s.segs, s.lit), Ref(s.name))]
    [] s.mode = "bad" -> s

Scan(text) ==
  FoldLeft(Scanned, [mode |-> "text", lit |-> <<>>, name |-> <<>>, segs |-> <<>>], text)
Malformed(text) == Scan(text).mode \in {"name", "bad"}
Segments(text) ==
  LET s == Scan(text)
  IN WithLit(s.segs, IF s.mode = "dollar" THEN Append(s.lit, Dollar) ELSE s.lit)

\* collect_refs over the leaves of a step.
Refs(step) ==
  UNION {{Segments(a)[i].text: i \in {j \in DOMAIN Segments(a): Segments(a)[j].ref}}:
         a \in Range(step.args)}

-----------------------------------------------------------------------------
(* Validation.                                                             *)

Params(m) == [p \in DOMAIN m.params \union DOMAIN m.toolParams |->
                IF p \in DOMAIN m.params THEN m.params[p] ELSE m.toolParams[p]]

\* validate_tool: the section's parameters join the manifest's own, and may
\* repeat none of them.
ToolValid(m) ==
  /\ m.tool \in ToolNames \ StaticTools
  /\ Cardinality(DOMAIN m.toolParams) <= MaxParams
  /\ DOMAIN m.toolParams \subseteq ParamNames
  /\ DOMAIN m.toolParams \intersect DOMAIN m.params = {}

\* Steps call catalog tools that cannot come back to the plugin executor, and
\* refer to declared parameters only.
StepValid(m, step) ==
  /\ step.tool \in StaticTools \ Recursive
  /\ \A a \in Range(step.args): ~Malformed(a)
  /\ Refs(step) \subseteq DOMAIN Params(m)

Valid(m) ==
  /\ m \notin {Missing, Broken}
  /\ m.version \in {Missing, 1}
  /\ m.name \in PluginNames \ StaticTools
  /\ Cardinality(DOMAIN m.params) <= MaxParams /\ DOMAIN m.params \subseteq ParamNames
  /\ m.tool # Missing => ToolValid(m)
  /\ Cardinality(DOMAIN Params(m)) <= MaxParams
  /\ Len(m.steps) \in 1..MaxSteps
  /\ \A i \in DOMAIN m.steps: StepValid(m, m.steps[i])

-----------------------------------------------------------------------------
(* Binding and substitution.                                               *)

\* bind_params: what is supplied is declared and of its type, what is
\* required is supplied.
BindError(m, supplied) ==
  \/ \E p \in DOMAIN supplied: \/ p \notin DOMAIN Params(m)
                               \/ supplied[p].ty # Params(m)[p].ty
  \/ \E p \in DOMAIN Params(m): Params(m)[p].required /\ p \notin DOMAIN supplied

\* substitute_value: a text that is one reference keeps the type of the value,
\* any other text is a string with the values spelled out in it.
Substituted(text, values) ==
  LET segs == Segments(text)
  IN IF Len(segs) = 1 /\ segs[1].ref
     THEN values[segs[1].text]
     ELSE [ty |-> "string",
           text |-> FlattenSeq([i \in DOMAIN segs |->
                      IF segs[i].ref THEN values[segs[i].text].text ELSE segs[i].text])]

StepArgs(step, values) == [i \in DOMAIN step.args |-> Substituted(step.args[i], values)]

-----------------------------------------------------------------------------
CatalogInit ==
  /\ files \in Directories
  /\ edits = 0
  /\ denied \in Denials
  /\ order = Missing /\ stage = "idle"
  /\ paths = {} /\ loaded = <<>> /\ skipped = <<>> /\ claimed = {}
  /\ running = Missing /\ bound = <<>> /\ sent = <<>>
  /\ reply = "none"

\* Someone writes or removes a manifest file, also in the middle of a scan.
Edit(f, content) ==
  /\ edits < MaxEdits /\ stage # "over"
  /\ files' = [files EXCEPT ![f] = content]
  /\ edits' = edits + 1
  /\ UNCHANGED <<denied, order, stage, scanVars, runVars, reply>>

\* The manifest files there are, the first of them if they are too many.
There == {f \in Files: files[f] # Missing}
Listed == {f \in There: Cardinality({g \in There: g < f}) < MaxFiles}

\* A call of plugin_run, plugin_reload or an exposed tool that has passed the
\* policy gate for the name it was made under; the scan lists the directory.
Begin(o) ==
  /\ stage = "idle"
  /\ (IF o.op = "exposed" THEN o.name ELSE o.op) \notin denied
  /\ order' = o
  /\ paths' = Listed
  /\ stage' = "load"
  /\ UNCHANGED <<dirVars, denied, loaded, skipped, claimed, runVars, reply>>

\* load_one and the deduplication: a name or a tool name that was seen before
\* in this scan, loaded or not, keeps the file out.
NameSeen(m) == <<"name", m.name>> \in claimed
ToolSeen(m) == m.tool # Missing /\ <<"tool", m.tool>> \in claimed
First(listed) == CHOOSE f \in listed: \A g \in listed: f <= g

Load ==
  /\ stage = "load" /\ paths # {}
  /\ LET f == First(paths)
         m == files[f]
     IN \/ /\ ~Valid(m)
           /\ skipped' = Append(skipped, <<f, m>>)
           /\ UNCHANGED <<loaded, claimed>>
        \/ /\ Valid(m) /\ NameSeen(m)
           /\ skipped' = Append(skipped, <<f, m>>)
           /\ UNCHANGED <<loaded, claimed>>
        \/ /\ Valid(m) /\ ~NameSeen(m) /\ ToolSeen(m)
           /\ skipped' = Append(skipped, <<f, m>>)
           /\ claimed' = claimed \union {<<"name", m.name>>}
           /\ UNCHANGED loaded
        \/ /\ Valid(m) /\ ~NameSeen(m) /\ ~ToolSeen(m)
           /\ loaded' = Append(loaded, <<f, m>>)
           /\ claimed' = claimed \union {<<"name", m.name>>, <<"tool", m.tool>>}
           /\ UNCHANGED skipped
  /\ paths' = paths \ {First(paths)}
  /\ UNCHANGED <<dirVars, denied, order, stage, runVars, reply>>

Answer(r) == stage' = "over" /\ reply' = r

Named(name) == {l \in Range(loaded): l[2].name = name}
Exposing(name) == {l \in Range(loaded): l[2].tool = name}

\* MUTANT of PluginDenied: only the name the call did not use is checked.
PluginDeniedByPlugin(m) ==
  CASE order.op = "plugin_run" -> m.name \in denied
    [] order.op = "exposed" -> denied \intersect {m.name, "plugin_run"} # {}

\* run_by_name denies a manifest under both its names; run_exposed_tool, whose
\* tool name the policy gate has passed, under the plugin's name and plugin_run's.
PluginDenied(m) ==
  CASE order.op = "plugin_run" -> denied \intersect {m.name, m.tool} # {}
    [] order.op = "exposed" -> denied \intersect {m.name, "plugin_run"} # {}

\* The end of the scan: plugin_reload reports it, a run looks its plugin up,
\* checks the deny list and binds the parameters.
LookUp ==
  /\ stage = "load" /\ paths = {}
  /\ LET found == IF order.op = "exposed" THEN Exposing(order.name) ELSE Named(order.name)
     IN CASE order.op = "plugin_reload" -> Answer("listed") /\ UNCHANGED <<running, bound>>
          [] order.op # "plugin_reload" /\ found = {} ->
               Answer("unknown") /\ UNCHANGED <<running, bound>>
          [] order.op # "plugin_reload" /\ found # {} ->
               LET m == (CHOOSE l \in found: TRUE)[2]
               IN IF PluginDenied(m)
                  THEN Answer("denied") /\ UNCHANGED <<running, bound>>
                  ELSE IF BindError(m, order.params)
                  THEN Answer("params") /\ UNCHANGED <<running, bound>>
                  ELSE /\ running' = m /\ bound' = order.params
                       /\ stage' = "steps" /\ UNCHANGED reply
  /\ UNCHANGED <<dirVars, denied, order, scanVars, sent>>

\* run_manifest: substitute and dispatch one step; the first that fails, by
\* itself or for a parameter nobody supplied, ends the run.
Step ==
  /\ stage = "steps" /\ Len(sent) < Len(running.steps)
  /\ LET step == running.steps[Len(sent) + 1]
     IN \/ /\ ~(Refs(step) \subseteq DOMAIN bound)
           /\ Answer("unsupplied") /\ UNCHANGED sent
        \/ /\ Refs(step) \subseteq DOMAIN bound
           /\ sent' = Append(sent, [tool |-> step.tool, args |-> StepArgs(step, bound)])
           /\ UNCHANGED <<stage, reply>> \/ Answer("step_failed")
  /\ UNCHANGED <<dirVars, denied, order, scanVars, running, bound>>

Complete ==
  /\ stage = "steps" /\ Len(sent) = Len(running.steps)
  /\ Answer("completed")
  /\ UNCHANGED <<dirVars, denied, order, scanVars, runVars>>

CatalogNext ==
  \/ \E f \in Files, c \in Manifests \union {Broken, Missing}: Edit(f, c)
  \/ \E o \in Orders: Begin(o)
  \/ Load \/ LookUp \/ Step \/ Complete

CatalogSpec == CatalogInit /\ [][CatalogNext]_catalogVars
-----------------------------------------------------------------------------
(* Properties.                                                             *)

\* The first file in lexical order wins, however the files change under a scan:
\* no two plugins loaded answer to one name, no exposed tool has the name of a
\* catalog tool, and a sound manifest is only kept out by an earlier sound one
\* that claims one of its names.
FirstFileWins ==
  /\ \A i, j \in DOMAIN loaded: i # j =>
       /\ loaded[i][2].name # loaded[j][2].name
       /\ loaded[i][2].tool # Missing => loaded[i][2].tool # loaded[j][2].tool
  /\ \A i \in DOMAIN loaded: {loaded[i][2].name, loaded[i][2].tool} \intersect StaticTools = {}
  /\ \A s \in Range(skipped): Valid(s[2]) =>
       \E e \in Range(loaded) \union Range(skipped):
         /\ e[1] < s[1] /\ Valid(e[2])
         /\ e[2].name = s[2].name \/ (s[2].tool # Missing /\ e[2].tool = s[2].tool)

\* Substitution is one pass: a lone reference keeps its declared type, a doubled
\* dollar is one, and neither "$${x}" nor a value that reads "${x}" is expanded.
Reference(p) == <<Dollar, Open>> \o p \o <<Close>>
SubstitutedOnce ==
  \A i \in DOMAIN sent: \A j \in DOMAIN sent[i].args:
    LET source == running.steps[i].args[j]
        leaf == sent[i].args[j]
    IN /\ source = <<Dollar, Dollar>> => leaf.text = <<Dollar>>
       /\ \A p \in DOMAIN Params(running):
            /\ source = Reference(p) => leaf = bound[p] /\ leaf.ty = Params(running)[p].ty
            /\ source = <<Dollar>> \o Reference(p) => leaf.text = Reference(p)

\* A plugin denied by either of its names never runs a step, whichever name
\* the call used and however its file changed since the gate.
DeniedEitherName ==
  sent # <<>> =>
    /\ running.name \notin denied
    /\ running.tool # Missing => running.tool \notin denied

\* The manifests a scan keeps are the ones that run, as their authors wrote them
\* and the operator allows.
PluginsSound == FirstFileWins /\ SubstitutedOnce /\ DeniedEitherName
=============================================================================
