----------------------------- MODULE Observation -----------------------------
(***************************************************************************)
(* What an agent's tools do on the network: observation.py and the          *)
(* instrumentors of corroboration.py.  A span an instrumentor starts is      *)
(* tagged if its task is inside a governed call of some framework and the    *)
(* control plane has not said that its bucket is full; MCP calls are         *)
(* reported by the patched client, governed or not.  The list of full        *)
(* buckets comes with new bundles, in the poll thread.  One agent, whose     *)
(* buckets are those of the spans at hand.                                   *)
(***************************************************************************)
EXTENDS ScopedIdentity

CONSTANTS Buckets

\* The frameworks a scope can be of.
Frameworks == {"maf", "adk", "langgraph", "governor"}
ASSUME FrameworksAssumption == None \notin Frameworks

VARIABLES
    capturing,  \* the span processor is registered
    mcp,        \* the MCP client is patched
    saturated,  \* _saturated
    listed,     \* auxiliary: the last list the control plane sent
    sighting    \* auxiliary: the last span, [kind, inside, full, tagged]: the framework
                \* whose call it belongs to and the one it is tagged with

observationVars == <<capturing, mcp, saturated, listed, sighting>>

ObservationInit ==
    /\ capturing = FALSE /\ mcp = FALSE
    /\ saturated = {} /\ listed = {}
    /\ sighting = None

\* enable_observation_capture: without an OpenTelemetry SDK provider nothing is
\* registered.
EnableCapture(provider) == capturing' = provider
\* enable_mcp_observation: without the mcp package nothing is patched.
EnableMcp(package) == mcp' = package
\* enable_automatic_detection.
EnableDetection(provider, package) ==
    /\ ~capturing /\ ~mcp
    /\ EnableCapture(provider) /\ EnableMcp(package)
    /\ UNCHANGED <<saturated, listed, sighting>>

\* disable_mcp_observation.
DisableMcp ==
    /\ mcp /\ mcp' = FALSE
    /\ UNCHANGED <<capturing, saturated, listed, sighting>>

\* set_current_framework: the variable is set, and what it was is kept.
WithFramework(context, name) == [context EXCEPT !.framework = name]
\* Fault: the end of a scope clears the variable.
FrameworkCleared(context, found) == [context EXCEPT !.framework = None]
\* FrameworkScope.reset: it is what it was.
FrameworkRestored(context, found) == [context EXCEPT !.framework = found]

\* update_from_bundle_meta: a list replaces the last one, anything else
\* (None) leaves it.
UpdateFromBundleMeta(list) ==
    /\ list \in SUBSET Buckets \cup {None}
    /\ listed' = IF list = None THEN listed ELSE list
    /\ saturated' = IF list = None THEN saturated ELSE list
    /\ UNCHANGED <<capturing, mcp, sighting>>

\* on_start: a span of an instrumented client starts in a task, inside a call
\* of this framework, if any; shaped says that it looks like a call (_classify).
SpanStarts(t, bucket, shaped, inside) ==
    /\ capturing
    /\ sighting' = [kind |-> "span", inside |-> inside, full |-> ~shaped \/ bucket \in listed,
                    tagged |-> IF shaped /\ bucket \notin saturated THEN ctx[t].framework ELSE None]
    /\ UNCHANGED <<capturing, mcp, saturated, listed>>

\* The patched call_tool, before the call it wraps: reported under the
\* framework of the task, or under none.
McpCallTool(t, bucket, inside) ==
    /\ mcp /\ bucket \notin saturated
    /\ sighting' = [kind |-> "mcp", inside |-> inside, full |-> bucket \in listed,
                    tagged |-> ctx[t].framework]
    /\ UNCHANGED <<capturing, mcp, saturated, listed>>
=============================================================================
