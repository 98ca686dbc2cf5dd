---------------------------- MODULE AgentProcess ----------------------------
(***************************************************************************)
(* What the SDK does in the process it is embedded in, apart from deciding:  *)
(* the framework adapters and the Governor over the identities, the calls and the network     *)
(* they observe (MafAdapter, AdkAdapter, LangGraphAdapter, GovernorSpans over GovernedCalls,*)
(* Observation and ScopedIdentity), the resolver of opaque tokens            *)
(* (TokenResolver), the signing keys (KeyRotation), the registry of what was *)
(* built (AdapterRegistry); and, beside it, the code audit of the MCP server *)
(* (CodeAudit).  A program embeds one framework, and either asserts          *)
(* identities or is observed; a program without a framework is one of the    *)
(* other parts at work.  Handlers run between two awaits in one step.        *)
(***************************************************************************)
EXTENDS MafAdapter, AdkAdapter, LangGraphAdapter, GovernorSpans, TokenResolver, KeyRotation, AdapterRegistry,
        CodeAudit

CONSTANTS
    Programs,   \* records [does, framework, calls, asserts, observed]: how many
                \* calls it makes, and what its identity blocks are made from
    Dependencies, Projects  \* what is audited

ASSUME ProgramsAssumption == \A p \in Programs :
    /\ p.asserts \subseteq {"claims", "agents", "tokens", "stored"}
    /\ p.calls \in 0 .. MaxSpans
    /\ p.framework = "governor" => ~p.observed

VARIABLES program   \* never changes

vars == <<program, identityVars, observationVars, callVars, mafVars, adkVars, governorVars,
          resolverVars, keyVars, registryVars, auditVars>>

Init ==
    /\ program \in Programs
    /\ IdentityInit /\ ObservationInit /\ CallsInit /\ MafInit /\ AdkInit /\ GovernorInit
    /\ ResolverInit /\ KeyInit /\ RegistryInit /\ AuditInit

\* The parts a program without a framework is made of.
NoFramework == <<identityVars, observationVars, callVars, mafVars, adkVars, governorVars>>
NoParts == <<resolverVars, keyVars, registryVars, auditVars>>

Runs(framework) == program.framework = framework
MoreCalls == spans < program.calls

\* What a call can be given of an identity, besides the blocks around it.
Explicit == IF program.asserts # {} THEN Given ELSE {NothingGiven}

-----------------------------------------------------------------------------
MafStep ==
    /\ Runs("maf")
    /\ UNCHANGED <<program, observationVars, adkVars, governorVars, NoParts>>
    /\ \/ MoreCalls /\ \E t \in Tasks, e \in Explicit, v \in Verdicts :
            \/ \E clean \in BOOLEAN : MafModelStart(t, e, clean, v)
            \/ \E tool \in Tools : MafToolStart(t, tool, e, v)
       \/ \E t \in Tasks, v \in Verdicts :
            \/ \E g \in Scores, j \in Scores : MafModelFinish(t, g, j, v)
            \/ MafToolFinish(t, v)
       \/ \E t \in Tasks : MafModelFails(t) \/ MafStreamReturns(t) \/ MafToolRaises(t)
       \/ \E c \in streams : MafStreamDropped(c) \/ \E t \in Tasks : MafStreamFinalizes(t, c)

AdkStep ==
    /\ Runs("adk")
    /\ UNCHANGED <<program, observationVars, mafVars, governorVars, NoParts>>
    /\ \/ MoreCalls /\ \E t \in Tasks, i \in Invocations, v \in Verdicts :
            \/ \E clean \in BOOLEAN : AdkModelStart(t, i, clean, v)
            \/ \E tool \in Tools : AdkToolStart(t, i, tool, v)
       \/ \E t \in Tasks, v \in Verdicts : AdkModelFinish(t, v) \/ AdkToolFinish(t, v)
       \/ \E t \in Tasks : AdkModelFails(t) \/ AdkToolRaises(t)
       \/ \E i \in Invocations : AdkAfterRun(i)

LangGraphStep ==
    /\ Runs("langgraph")
    /\ UNCHANGED <<program, observationVars, mafVars, adkVars, governorVars, NoParts>>
    /\ \/ MoreCalls /\ \E t \in Tasks, v \in Verdicts :
            LgModelStart(t, v) \/ \E tool \in Tools : LgToolStart(t, tool, v)
       \/ \E t \in Tasks, v \in Verdicts, usage \in BOOLEAN : LgModelFinish(t, usage, v)
       \/ \E t \in Tasks : LgReturns(t) \/ LgAfterAgent(t)

GovernorStep ==
    /\ Runs("governor")
    /\ UNCHANGED <<program, mafVars, adkVars, NoParts>>
    /\ \/ /\ FromPolicyDir \/ StopSync \/ \E provider, package \in BOOLEAN : FromControlPlane(provider, package)
          /\ UNCHANGED <<identityVars, callVars>>
       \/ /\ \E t \in Tasks : \/ MoreCalls /\ (CheckInput(t) \/ AuthorizeTool(t))
                            \/ EnterTrace(t) \/ ExitTrace(t)
          /\ UNCHANGED observationVars

\* The program's own code, and the framework's, between the calls.
TaskStep ==
    /\ ~Runs("none")
    /\ UNCHANGED <<program, observationVars, mafVars, adkVars, NoParts>>
    /\ \E t \in Tasks : \/ EndOfTask(t) /\ TaskLeavesSpans(t)
                       \/ \E c \in Tasks : ForkTask(t, c) /\ TaskSharesSpans(t, c)

IdentityStep ==
    /\ UNCHANGED <<program, observationVars, callVars, mafVars, adkVars, governorVars, NoParts>>
    /\ \/ \E t \in live : \/ ExitInnerBlock(t)
                        \/ \E from \in program.asserts : \E a \in Assertions[from] : EnterBlock(t, a)
       \/ "stored" \in program.asserts /\ \E k \in Keys, u \in EndUsers \cup {None} : SetIdentity(k, u)

ObservationStep ==
    /\ program.observed
    /\ UNCHANGED <<program, identityVars, callVars, mafVars, adkVars, governorVars, NoParts>>
    /\ \/ DisableMcp
       \/ \E provider, package \in BOOLEAN : EnableDetection(provider, package)
       \/ \E list \in SUBSET Buckets \cup {None} : UpdateFromBundleMeta(list)
       \/ \E t \in live, b \in Buckets :
            \/ McpCallTool(t, b, InsideOf(t))
            \/ \E shaped \in BOOLEAN : SpanStarts(t, b, shaped, InsideOf(t))

\* A bundle with response checks, before the calls.
ScorerStep ==
    /\ Runs("maf") /\ program.observed /\ spans = 0
    /\ \E usable \in SUBSET Scorers : LoadScorers(usable)
    /\ UNCHANGED <<program, identityVars, observationVars, mafVars, adkVars, governorVars, NoParts>>

-----------------------------------------------------------------------------
ResolverWorker ==
    /\ program.does = "tokens" /\ WorkerStep
    /\ UNCHANGED <<program, NoFramework, keyVars, registryVars, auditVars>>
ResolverEnqueues(r) ==
    /\ program.does = "tokens" /\ Enqueue(r)
    /\ UNCHANGED <<program, NoFramework, keyVars, registryVars, auditVars>>
ResolverStep ==
    /\ program.does = "tokens" /\ ResolverNext
    /\ UNCHANGED <<program, NoFramework, keyVars, registryVars, auditVars>>

KeyStep ==
    /\ program.does = "keys" /\ KeyNext
    /\ UNCHANGED <<program, NoFramework, resolverVars, registryVars, auditVars>>

RegistryStep ==
    /\ program.does = "registry" /\ RegistryNext
    /\ UNCHANGED <<program, NoFramework, resolverVars, keyVars, auditVars>>

AuditStep ==
    /\ program.does = "audit"
    /\ \/ \E p \in Projects, d \in Dependencies : BeginAudit(p, d)
       \/ ScanFile \/ Report
       \/ \E x \in findings : Fix(x)
    /\ UNCHANGED <<program, NoFramework, resolverVars, keyVars, registryVars>>

Next == \/ MafStep \/ AdkStep \/ LangGraphStep \/ GovernorStep
        \/ TaskStep \/ IdentityStep \/ ObservationStep \/ ScorerStep
        \/ ResolverStep \/ KeyStep \/ RegistryStep \/ AuditStep

\* The worker is a thread in a loop, whose requests time out, and the readers
\* go on once they have the lock.
Spec == /\ Init /\ [][Next]_vars
        /\ WF_vars(ResolverWorker)
        /\ \A r \in Readers : WF_vars(ResolverEnqueues(r))

-----------------------------------------------------------------------------
\* Every running call was judged for the very end user, agent and credential
\* the program asserted where it started, half by half: the claims, the roles
\* and the agent are each the call's own where it was given them, and else the
\* innermost block's that asserts them.  So claims and roles belong together
\* unless a call is given one of the two ("falling back, not merging").  And
\* every whole result that a framework was given passed the second stage, for
\* the same identity.  In ADK this leaves out the calls that met the entry of
\* another of their invocation; a stream, a LangGraph tool's result and one
\* that another middleware put in the place of a response are not judged.
NothingRunsUngoverned ==
    /\ \A c \in OpenCalls : c.span \notin disputed => c.who = c.asserted
    /\ ungoverned \subseteq disputed

\* Each model call whose usage came back is charged once, to the turn it is,
\* and nothing else is charged, however calls nest, overlap, fail or stream.
ChargedToItsTurn ==
    \A s \in Spans \ disputed : charges[s] = IF s \in answered THEN 1 ELSE 0

\* What is tagged as an agent's doing happened inside a governed call of the
\* framework it is tagged with, in its task or one created there, and all that
\* happens there is, but for the buckets the control plane has enough of.  A
\* Governor's tasks are in its scope as long as a span is left open around them,
\* until they close their scopes out of order; and the spans it left open in a
\* trace are closed when that ends.
ObservedInside ==
    /\ sighting # None => sighting.tagged = IF sighting.full THEN None ELSE sighting.inside
    /\ Runs("governor") => \A t \in live \ disordered :
           (ctx[t].framework = "governor") <=> (current[t] # NoSpan)
    /\ \A s \in Spans : held[s].traced /\ held[s].owner # None /\ ~held[s].ended => traces[held[s].owner] > 0

\* The turn a tool call of an ADK invocation belongs to is the model call that
\* asked for it (the comment in before_tool_callback, and _tool_call_cost_ids).
ToolsShareTheTurn ==
    \A c \in OpenCalls :
        Runs("adk") /\ c.kind = "tool" /\ turns[c.invocation] # None => c.scope = turns[c.invocation]
=============================================================================
