# Verification of the Parapet agent-governance SDK

TLA+ modules, model-checking configurations and machine-checked proofs about
the program under `src/`: the in-process SDK (`src/src/parapetai_agent`), the
gateway (`src/gateway/src/parapetai_gateway`) and the code audit of the MCP
server (`src/mcp-server/src/parapetai_mcp`).  Paths below are relative to these
directories where they are unambiguous.

## 1. The system

An agent's calls are decided locally by a Cedar policy set.  A *PEP* (the SDK
in a process, or the gateway in front of one) pulls that set from a control
plane, evaluates each model call, tool call and response against it, and may
hold a call for a human.

| component | state | operations | talks to |
|---|---|---|---|
| Policy engine (`policy/engine.py`) | policy text and annotations in three variants (full, pre, post), entities, digest, generation, one lock | `reload`, `load_from_bundle`, `evaluate`, `status` | hook and gateway evaluate; poll thread and watcher load; heartbeats read the status |
| Governance hook (`policy/hooks.py`) | none | `evaluate` | engine |
| Bundle sync (`control_plane.py`, `server/main.py`) | policy directory, last digest, poll thread, watcher thread | `bootstrap_engine`, `poll_once`, `run_bundle_poller`, `send_heartbeat`, `_watch` | control plane over HTTP; engine and content checks by calls |
| Content checks (`content_checks.py`) | scanner list | `load_from_bundle`, `evaluate` | callback of the poll thread |
| Approvals (`govern.py`, `control_plane.py`, `server/app.py`) | a review ticket per held call; the queue itself is at the control plane | `request_approval`, `wait_for_approval`, `_resolve_review` | control plane over HTTP |
| Cost tracking (`policy/cost_tracker.py`, `govern.py`) | totals per trace and scope, LRU order, one lock | `record`, `context_for`, `end_trace` | every governed call |
| Governor spans (`govern.py`) | the open model and tool spans, in context variables | `trace`, `check_input`, `authorize_tool`, `_supersede`, `_OpenSpan.close` | OpenTelemetry, observation |
| PEP identity (`pep_identity.py`, `govern.py`) | the key file, by default one per user; the keys of the poller and of the review client in memory | `ensure_pep_identity`, `rotate_keypair`, `register_public_key` | control plane, which keeps two keys per agent |
| Gateway requests (`server/app.py`) | none of its own | `proxy` | everything below, the approvals queue, the upstream |
| Gateway identity (`identity/*`) | JWKS cache, bindings | `resolve`, `get_key` | identity provider |
| TLS reload (`tls_reload.py`, `server/serve.py`) | the context that is served, two digests | `check`, `watch_tls` | three files somebody else replaces; the listener |
| MCP login (`mcp_oauth.py`) | clients, codes, tokens | `register_client`, `issue_code`, `exchange_token`, `validate` | browsers and MCP clients |
| Gateway status (`status.py`) | identities seen, refusals, events | `seen`, `refused`, `event`, `snapshot` | request threads, the reload thread, heartbeats |
| Observation (`observation.py`, `governance_runtime.py`, `corroboration.py`) | framework scope, list of full buckets, patches | `set_current_framework`, `on_start`, `update_from_bundle_meta` | instrumented HTTP clients, MCP client, poll thread |
| Identities (`scoped_data.py`, `identity_store.py`, `identity_middleware.py`, `access_identity.py`) | end user, agent and credential of the current task; identities stored by key | the `with` blocks, `set_identity`, `bind` | adapters |
| Opaque tokens (`token_identity.py`) | cache, set in flight, bounded queue, a worker | `request_resolution`, `_run`, `get_cached` | authorization server |
| Adapters (`maf.py`, `adk.py`, `langgraph.py`) | correlation and cost scope of each call; a registry of engines and pollers | middleware and plugin callbacks, `build_middleware`, `reset_middleware_registry` | hook, cost tracker, identities, observation |
| Response checks (`groundedness.py`, `response_judge.py`) | scorers | `load_from_bundle`, `evaluate` | adapters |
| Code audit (`mcp-server`, `audit.py`) | findings of a scan | `parapet_audit_codebase` | files |

What is hard: loads, evaluations and status reads run in different threads;
the poll thread and the gateway's watcher load the same engine from two
sources; bundles may be bad, requests and responses are lost, and processes
die between two writes; approvals race a deadline and are retried by clients
that saw no answer; concurrent calls share a budget that is read long before
it is charged.  At the gateway a request is suspended four times, while
certificates, keys and tokens change under it.  In the SDK, calls
nest, overlap, stream and fail in tasks that inherit each other's context, and
an identity, a cost scope and a framework scope must each stay with the call
they belong to.  Processes of one user share a key file, and all of an agent's
share two places at the control plane.  `PROJECT.json` lists every such hazard at its line, with the
properties that would catch it.

## 2. Modules

| module | models | lines of the code |
|---|---|---|
| `CedarDecision` | one engine load and one answer: split by `@stage`, probe, positional ids, review, transforms | `engine.py` `_split_policies_by_stage`, `_is_reviewable`, `evaluate`; `hooks.py` `evaluate` |
| `Subsequences` | the elements of a sequence at some of its places, by counting; sums | the comprehension of `_variant` |
| `PolicyRegister` | the abstract engine: an atomic register of policy sets | none, it is the promise |
| `PolicyEngine` | the engine's threads, statement by statement where others can observe | `engine.py` `_build` to `status` |
| `BundleSync` | the pull loop in its three deployments, disk, watcher, heartbeat, crash | `control_plane.py`, `server/main.py`, `content_checks.py` |
| `ApprovalLoop` | the held call, in process and at the gateway | `govern.py`, `app.py`, `control_plane.py` |
| `CostTracker` | the tracker and the governed calls that use it | `cost_tracker.py`, `govern.py` |
| `Gateway` | the life of a request, suspended between steps, over the four modules below it | `app.py` `proxy`, `main.py` |
| `GatewayIdentity` | JWKS cache, bindings, resolver | `identity/*` |
| `McpOAuth` | dynamic registration, codes, PKCE exchange, tokens | `mcp_oauth.py`, its routes in `app.py` |
| `TlsReload` | replaced files, digests, contexts, read by read | `tls_reload.py`, `serve.py` |
| `GatewayStatus` | the bounded tables a heartbeat reports | `status.py` |
| `Clock` | `time.monotonic()`, shared by the gateway's modules | |
| `AgentProcess` | a program that embeds one framework, or one of the other parts at work | composes all of the below |
| `ScopedIdentity` | the contexts of tasks, blocks around calls, stored identities, credentials | `scoped_data.py`, `identity_store.py`, `identity_middleware.py`, `access_identity.py` |
| `Observation` | what is tagged as an agent's doing | `observation.py`, `governance_runtime.py`, `corroboration.py` |
| `GovernedCalls` | a call judged before and after, charged, scored | `hooks.py`, `groundedness.py`, `response_judge.py`, what the adapters share |
| `MafAdapter`, `AdkAdapter`, `LangGraphAdapter` | each adapter's callbacks | `maf.py`, `adk.py`, `langgraph.py` |
| `GovernorSpans` | spans left open around the caller's work, trace blocks, tasks that share them | `govern.py` |
| `TokenResolver` | the worker, its queue and those who ask | `token_identity.py` |
| `KeyRotation` | shared key files, the clients that sign, registrations, rotations and crashes of several processes | `pep_identity.py`, `control_plane.py`, `govern.py` |
| `AdapterRegistry` | threads that construct and reset agents | `maf.py`, `adk.py`, `langgraph.py` |
| `CodeAudit` | which constructions the audit reports, and what acting on a finding does to the next report | `audit.py` |
| `SubsequencesProofs`, `CedarDecisionProofs`, `PolicyEngineProofs`, `BundleSyncProofs`, `ApprovalLoopProofs`, `CostTrackerProofs`, `GatewayProofs`, `AgentProcessProofs` | theorems | |
| `MC...` | instances for TLC | |

A definition whose comment starts with *Fault:* is the form of the definition
after it that a plausible bug would have.  No specification uses one; replacing
the right definition by it must make TLC refute a named property, which shows
that the property depends on that piece of code (`mutants` in `PROJECT.json`).

How state and actions correspond:

* **PolicyEngine.** Fields have the names of the attributes without the
  underscore; the three texts move together as `policies` and the three
  annotation maps as `annotations` (the text they were built from).  `_build`
  is two actions, `ReadPolicies` and `ReadEntities`, because the directory may
  change in between; `Probe` is `_apply` up to the lock; the assignments under
  the lock are one action each, since a reader without the lock could see any
  of them.  `EvalEnter`, `EvalLeave` and `EvalDecide` are the locked copy and
  the Cedar call after it.  A rejected load returns without a trace.
* **CedarDecision.** A policy is its effect, annotations, and whether its
  condition matches, misses or errors for the call at hand.  Cedar's
  authorizer is external and modelled by its documented rule: an erroring
  policy is skipped and reported.  Two readers see a bundle: cedarpy's parse
  (`Parsed`, without templates) and the statement splitter (`Statements`, which
  knows no template and misses a policy whose keyword comes after a `//` on its
  line, though in a string: `cut`).  The load compares their counts
  (`CountsMatch`) and pairs them by position, whatever they are.
* **BundleSync.** `deployment` chooses between the three ways the code is put
  together.  The poll thread is `FetchNew` / `FetchUnchanged` / `FetchFails`,
  `WriteFile` per file, `Apply`, `Callback`, `Heartbeat`; start-up is the same
  `poll_once` with a different place to return to (`AfterPoll`), then
  `Construct`.  `WatchBuild` and `WatchApply` are the gateway's watcher.  A
  digest identifies its bundle, so bundles are compared.
* **ApprovalLoop.** One process per held call; a label per place where another
  process, the queue or the clock can come in between.  A lost exchange either
  did or did not reach the queue.  An error response and no response read the
  same, as in `_post_review`.
* **CostTracker.** `lru` is the key order of the `OrderedDict`.  `CheckInput`
  reads the total, `CheckOutput` records at some later time; `EndTrace` may
  come in between, since tasks can outlive the block.  `peak` and `log` are
  auxiliary: nothing but properties reads them.

* **Gateway.** `proxy` is cut where it awaits: identity is resolved in a
  thread pool, the body is read, the approvals queue answers, the upstream
  answers.  Each is a stage of `req` (`"identify"`, `"read"`, `"review"`,
  `"sending"`; `"forward"` is `_forward` before it sends), and everything
  between two awaits is one step.  One request is under way at a time: requests
  share nothing but the tables of the modules below, which change between any
  two of its stages.  `settings` is one configuration, chosen once; what it
  cannot do (a gateway without mTLS has no certificate) is excluded by
  `Configured`.
* **TlsReload.** Every read of one of the three files is a step, at start-up
  (digest, then the listener's own read, then the report) and in the thread
  (digest, then build, then swap).  A digest stands for what it was taken of.
  A file may come back to what it held before, a torn or absent one included,
  and a read may fail though the file is there: both are an `Upset`, whose
  consequences `spoilt` remembers.
* **GatewayIdentity.** `get_key` holds its lock over the fetch and dates it by
  the time before, so a call is a step; a fetch answers with the provider's
  keys or fails.
* **McpOAuth.** No function awaits, so each is a step.  `consents` and
  `minted` are auxiliary and survive a restart, the three maps do not.
* **ScopedIdentity.** `ctx` is what Python copies when a task is created: end
  user, agent, framework and turn.  Entering a block remembers what to restore
  (`blocks`), and only the task that entered it leaves it.  An end user is two
  halves, claims and roles, which a block asserts together and a MAF call may be
  given one by one (`Given`, with the agent's claims): each falls back to the
  task's on its own (`Fallback`), so a call that is given claims alone keeps the
  task's roles.  What a call is given of an agent is judged, and does not change
  the principal.
* **KeyRotation.** `FileOf` says which processes share a file.  A process finds
  no file and makes one in two steps, truncates and writes in two, and registers
  in a third; a sharer may start or rotate between any of them.  `signs` has the
  key of each client: a rotation replaces the poller's, and the ReviewClient
  keeps the one it was built with.  `lost`, `since` and `displaced` are
  auxiliary.
* **CodeAudit.** `Fix` is the developer who does what one high finding
  recommends, in one file, after which the audit is run again.
* **Adapters.** One `Start`, `Finish` and failure action per handler, cut only
  where the handler awaits the call it wraps.  `open` holds the running calls,
  each with the identity it was judged for and, auxiliary, the one the program
  had asserted.  ADK hands state from callback to callback through tables
  keyed by the invocation, which is modelled as the table it is: calls that
  meet the entry of another of their invocation are remembered in `disputed`.
* **GovernorSpans.** `held` is the `_OpenSpan` objects, `current` the two
  context variables.  A task that closes a span another task opened cannot
  reset that scope: Python refuses, and the code swallows it.
* **AgentProcess.** The parts that share nothing run in programs of their own,
  so that their states add up instead of multiplying; parts that do share
  (adapters, identities, observation, Governor) run together.

## 3. Runs

| run | question | size |
|---|---|---|
| `cedar_decision` | is the decision what the source bundle means? | every bundle of up to 3 policies of 30 kinds, 4 stages; 223,300 states |
| `policy_engine` | can anyone see half a swap, or an older one? | 2 texts, 2 entity lists, one incompatible pair, 4 threads, 3 generations; 736k states |
| `bundle_sync` | does an engine serve one bundle, and settle on the right one? | 3 deployments, 2 to 4 bundles each, 1 crash; 59k states |
| `approval_loop` | is a grant single-use, is nothing run without authority, does the wait end well? | 1 caller, 1 request, 2 calls, 1 ticket, timeout 2, poll 3; 447k states |
| `cost_tracker` | are totals exact, memory and overshoot bounded, the idlest evicted? | 2 tasks, 3 traces of which 2 fit; 72k states |
| `gateway` | is each request judged as whoever it proved to be, is nothing forwarded unjudged, are codes single-use, certificates whole, keys fresh, reports true? | 5 configurations; 1,015,527 states |
| `agent_process` | is each call governed and charged as what it is, is what it does observed as its own; do tokens, keys, pollers and the audit keep their promises? | 13 programs; 717k states |
| `evaluation_errors` | does an evaluation error deny? | violated |
| `restart_outage` | can a persisting process always restart from its directory? | violated |
| `misaligned_variant` | is a bundle that cannot be split as it is parsed rejected? | violated |
| `gateway_entities` | does the gateway settle on a bundle with entities? | violated |
| `adk_turn` | does an ADK tool call share its model call's turn? | violated |

Bounds, and why they are enough.  `MaxPolicies` 3: a permit, a forbid and one
more policy of any kind, so filtered variants renumber, and a template stands in for a lost statement beside a permit.  `MaxGeneration` 3: a
swap during and one after any evaluation.  Two loaders, because the lock only
matters from two on; the proofs cover any number.  `MaxCrashes` 1: a crash at
every step, and a full recovery after it.  In `approval_loop`, one ticket makes
both processes contend for it (the request may present the caller's); `Poll` greater than `Timeout`
makes the shortened last sleep matter; `MaxTime` 2 is a deadline at the last
instant of the clock, or beyond it.  In `cost_tracker`, `MaxRecords` bounds the
usages remembered for live traces; four let a trace be recorded, others come,
and the first be used again before an eviction.  Tasks and traces are
symmetric, and the run has no liveness property.  Deadlock is checked except
where the model really stops: after the one answer of `CedarDecision`, at the
end of the clock and of the calls in `ApprovalLoop`, at the record bound of
`CostTracker`, when a gateway has used up its requests and restarts, and when a
program has made its calls.

`gateway` gives every configuration its own bounds (`MCBounds`), so that each
has the actors its question needs: the listener's three files are replaced three
times (`MaxWrites`) by up to two newer versions, one of which does not load, by
half-written or absent ones, and once (`MaxUpsets`) by what was there before, or
a read of a good file fails once, each between any two reads; `both`
sends every pairing of a certificate and a token, keys rotating once while it is
identified, judged and reviewed; `ingress` lets keys rotate while two requests
and the clock (`MaxTime` 4, a cache that lives 2, is trusted to 3 and refreshed
every 2) go on; `oauth` has two codes, two tokens and a restart, with lifetimes
of 1, so that each can expire between any two steps;
`monitor` has four requests of three agents for a table of two identities.

`agent_process` runs two tasks, of which one is created by the other at any
point, with at most two nested blocks.  Two calls nest, overlap or follow each
other; LangGraph, whose steps are fewer, has three when it is observed.  Two invocations share or do
not share an ADK plugin.  A queue of one with three tokens and two readers is
full, empty and contended; of three processes two share a key file and one has
none, and three keys and two crashes cover two that start at once, a rotation of
one under the other, a file torn by a crash and a start from it, and a second
registration after that of the review client's key; three pollers are a construction, a reset and a
construction again in the middle of it.  Two end users and three ways to be given
an identity (nothing; another's claims alone; another's roles and an agent
without claims) let the halves of one judgement come from two sources; the ADK
and LangGraph programs assert by stored identities, agents' claims and tokens.
The audit reads fifteen files beside three others, in every state of the
project's dependencies, and again after each fix.

`bundle_sync` gives each deployment the bundles for which its promise holds:
everything for the memory-only SDK, bad pushes included; good bundles of one
layout for the persisting SDK; bundles without entities for the gateway.  The
two violation runs about bundles on disk show what happens with the rest.

**Fairness.**  `BundleSync`: the poll loop is a `while` loop in a daemon thread
and every blocking call in it has a timeout, so its steps and the watcher's are
weakly fair; a dead process is started again; a request repeated for ever is
answered infinitely often (strong fairness of `FetchNew`, `FetchUnchanged` and
`Heartbeat`), without which nothing can be said of a pull protocol.  The crash
itself is never required.  `ApprovalLoop`: time passes, straight-line code runs
and each exchange ends by an answer or its 10-second timeout; no fairness for
the human, the queue's answers or the delivery of any message.  `Gateway`: the
reload thread is a loop around a timed wait that catches what a check raises,
so `ReloadStep` is weakly fair; files, requests, time and restarts are not.
`AgentProcess`: the resolver's worker is a loop whose requests time out, and a
reader that has the lock goes on (`ResolverWorker`, `ResolverEnqueues`); no
fairness for calls, tasks or any other part.

**What the runs assume.**  OpenTelemetry is configured, so that every span has
a trace.  The policy sets of LangGraph programs do not alter a call, which that
adapter does not support.  Overlapping ADK calls of one invocation share one
table entry; the calls that met another's entry are `disputed`, and the
promises about identity and charge are stated for the others.  A Governor's
task is left out of the promise about scopes once it closed scopes out of
order (`disordered`), for the reason given below.

**Findings.**  Five statements of the documentation are refuted by what the
code does; each has a violation run, and `PROJECT.json` quotes the statement.
(1) An erroring forbid is skipped by Cedar, so the evaluation error does not
deny.  (2) The persisted directory is written before it is validated, so it is
not always last-known-good.  (3) A bundle whose statements are not the parsed
policies, but as many, is not rejected: where a template makes up for a policy
the splitter loses, the variants are without that policy, and pair the others'
texts with each other's annotations.  (4) The gateway's watcher reloads the poller's own writes without
their entities.  (5) An ADK tool call is judged by the totals of a span of its
own, which are zero, since its model call's correlation is gone when it starts.

**Divergences without a run.**  Met while modelling; the models follow the code.

* `_OpenSpan` (`govern.py:139-147`) says that nothing leaks past the trace
  boundary.  `_supersede` sets the new framework scope before it closes the old
  one, so the old reset undoes the new: after a second `check_input` of a trace
  the scope is empty while its span is open, and the end of the trace restores
  `"governor"`, which then stays.  An inner trace closes the outer's spans, a
  tool span closed before the model span within it has the same effect, and a
  task that inherits a span and supersedes it leaves its creator's open scope
  behind.  `GovernorSpans` models all of these (`disordered`).
* `identity_from_bearer_token` (`scoped_data.py:211-217`) says it sets both
  halves regardless; the agent half is set only if the token has one.
* `load_or_create_keypair` (`pep_identity.py:74-77`) says the worst case of a
  race is another valid key, "not corruption".  The write truncates first: a
  reader, or a process that dies there, finds a file that does not load, and
  every start fails until somebody removes it (`RemoveTorn`).
* `adk.py:220-226` says the adapter calls `end_trace` when an invocation ends.
  It never does: the tracker's LRU bound is all that removes an invocation.
* `sync_bundle_to_disk` (`control_plane.py:241-243`) says the control plane is
  the source of truth for the directory.  It removes nothing: a file a new
  bundle no longer names stays, and an engine built from the directory enforces
  it.  `BundleSync` has it (`Persist` adds and overwrites); its run therefore
  gives the persisting SDK bundles of one layout.
* `TlsReloader.check` remembers a digest as failed also when the read of a good
  file failed for the moment (`tls_reload.py:153-155`), and then does not retry
  it (`:147-151`: "A bad file that is later fixed changes the digest").
  Contents that come back during a build may stay unserved too, under a digest
  that is already in force, and the report of a reload that could not read
  stays the one before (`status.py:170-171`).  `CertificatesSettle` is
  therefore about versions newer than all there was at such a moment
  (`spoilt`): the next rotation always comes through.
* `effective_identity_claims` says of an explicit value "falling back, not
  merging" (`scoped_data.py:312-318`).  Claims and roles fall back one by one: a
  MAF call that is given claims alone is judged with them and the task's roles,
  a pair no one source asserted.  `NothingRunsUngoverned` says it half by half.
* The ReviewClient of a Governor signs with the start-up key for ever
  (`govern.py:457-463`): the second registration after that one, its own
  process's rotations included, leaves it refused, and so a refused poller gets
  no answer that could make it rotate.  `KeysStayUsable` states when keys are
  verified, and that is all the code gives.
* The audit advises passing built middleware to `Agent(middleware=[...])`
  (`audit.py:11-17`, `:451`), and reports that `Agent`, if it has tools, as
  ungoverned all the same.  `FixesShow` is about the other direction: what a
  high finding recommends settles that finding.  Its swapped import does so; the
  registration settles the one about the middleware.  `raw-model-client` speaks
  of missing `Governor` usage, for which the scanner does not look.
* With two agents in a process, each agent's span processor tags the spans of
  the other; `Observation` has one agent.

## 4. Proofs

All theorems hold for every value of the constants that satisfies the module's
`ASSUME`, are checked by TLAPS to the last leaf, and rest on an inductive
invariant whose step lemma is split by action.

* `SubsequencesProofs` holds the lemmas the next two need about positions and
  sums.  The places that pass a filter are counted up, each once and in order
  (`Enumeration`, from the cardinality of the places up to one).  So any places
  have a first one (`FirstAndLast`), which stands in for induction over data: a
  statement that failed somewhere would fail at a first place.  That is how a sum
  is shown to exist, to be the sum of a subsequence when the rest is nothing
  (`SumOfPlaces`), and to grow by its last value (`SumToSteps`).
* `CedarDecisionProofs`: `DecidesByTheBundle`, `AltersByAPermit`, for bundles of
  any length and transforms of any name.  The text and the annotations of a
  variant agree position by position on one policy of the source, and every
  policy in force has a position (`Mirrors`).  Cedar's hits in the text are then
  exactly the matching policies of the source.  This needs the statements to be
  the parsed policies.  In a bundle without templates the count alone says so:
  as many elements as there are places are all of them.  In one with templates
  it does not (finding 3), and the theorems ask that the splitter see what
  cedarpy sees (`Aligned`), or that the call have no stage.
* `PolicyEngineProofs`: `TypeCorrect`, `SnapshotsCoherent`, `ReportsCoherent`,
  `OnlyCompilableServed`, `EngineImplementsRegister`, `GenerationsMonotone`.
  None of the safety properties is inductive: the strengthening says who can be
  inside the locked block, how far the assignments have come there, and that
  outside it all fields are those of the last entry of `history`.  The
  refinement then maps `Publish` to `Install`, `EvalLeave` to `Read` and every
  other step to a stutter.
* `BundleSyncProofs`: `TypeCorrect`, `ServesOne`, `SettledArtifactsAgree`,
  `EngineNeverEmptied`.  `Stages` says where the poll thread can be with an
  engine, a bundle in hand, a digest or a watcher.  That engine and checks agree
  once a digest is kept needs `Handover`: in the loop of an SDK process, a good
  bundle is in force by the time its callback runs, and only the callback's
  step keeps the digest.  A bad push therefore leaves a digest behind only with
  the engine untouched, which is what the property excepts.
* `ApprovalLoopProofs`: `TypeCorrect`, `GrantsAreSingleUse`,
  `RunsHaveAuthority`, `WaitsOverlookNothing`.  A collected ticket is consumed,
  a consumed row never changes, and only the step that consumes a row writes its
  ticket into `via` (`Spent`); what was seen and held is tied to the label
  reached (`Stages`).  That nothing is overlooked needs to know, for each wait,
  when the queue was last asked and what has been approved since (`OnTime`).
* `CostTrackerProofs`: `TypeCorrect`, `MemoryIsBounded`, `OvershootIsBounded`,
  `TotalsAreSums`, `LeastRecentIsEvicted`.
  The bound on memory needs the keys to be distinct, so that touching a trace
  removes exactly its old place; the overshoot needs the total *plus what the
  calls in flight may still add* to be within the bound (`Committed`), which
  starting a call preserves by raising the peak and ending one by trading its
  reservation for at most as much usage.  Eviction follows
  recency because the keys are in the order of their traces' last records
  (`InOrder`), which dropping the records of other traces leaves as it is
  (`BeforeStays`); and a total is the sum it should be because dropping a trace
  takes exactly its own usages out of the log (`LoggedSince`).
* `GatewayProofs`: `CodesAreSingleUse`, `TokensHaveConsent`,
  `NothingForwardedUnjudged`.  That a code mints once needs that a code still
  in the map is there once and has minted nothing (`Unspent`), that it stands
  there as it was consented to (`Issued`) and that its token came from a
  consent (`Consented`); restarts, deletions and the clock only shrink the maps
  (`MapsShrink`).  Complete mediation needs what is known of a request at each
  stage after its judgement (`Mediated`): no rotation, expiry or restart between
  judging and sending undoes it, because what was minted is never unminted.
  What the gateway trusts: `GatewayTypes`, `JudgedAsProven`, `TrustedKeysAreFresh`,
  `KeyRefusalsAreExcused`, `MaterialIsWhole`, `LatestAreReported`.  One invariant
  per table.  A context is whole because of what its build has read so far: the
  loader refuses a key that is not the certificate's, so once the key is read
  both are of one version (`BuildsWhole`).  A cached key was published when the
  cache was filled (`CacheHeld`), and an attempt to fill it that is still in
  force has failed or is younger than the cache (`RefreshHeld`).  A request keeps
  what identified it at every later stage (`Identity`): `lastPublished` only
  grows, so what proved it is still proof when keys have rotated and the gateway
  has restarted.  The report needs no invariant about the requests to come, but
  the exact position of every identity in the table: it is the number of those
  seen since its last request.
* `AgentProcessProofs`: `CallsStayGoverned`, `NothingUngoverned`, `ChargedOnce`,
  `SightingsAreInside`.  One inductive invariant for the three properties of
  calls, for all three adapters and the Governor, since they run in the same
  tasks, blocks and scopes.  `CoreInv` holds in every program: a task's context
  says what its blocks say, and so did the context each block found
  (`SaysWhatBlocksSay`), which is why leaving a block restores the right
  identity; a call is within the blocks it started in (`Nested`), calls have
  numbers of their own (`Numbered`), and one that is running or streaming was
  not answered (`Unanswered`), so its charge is still to come.  Scopes nest: a
  task is in the scope of the innermost of its calls that has one, and a call
  remembers the scope within which it started (`ScopesNest`).  `AdkInv` is about
  ADK's table: a running model call finds its own entry, or both it and the one
  it finds are disputed, and two model calls of one invocation are disputed once
  both run.  Without that, `NothingRunsUngoverned` is not inductive: the tool
  call started next takes its identity from the entry.  `GovernorInv` says which
  spans are whose and that, in a task that closed none out of order, the later
  of its two spans found the scope of the earlier (`InOrder`).
  That claims and roles each say what the blocks say needs no more than that
  the user does: the innermost block that asserts a user asserts both halves
  (`HalvesAgree`).
  Beside the calls: `AgentsHaveOnePoller`, `KeysVerify`.  No other part of the
  process touches the registry or the keys (`RegistryAlone`, `KeysAlone`), so
  each has an invariant of its own.  A thread that builds is alone with the
  lock, for a key without an entry, and only a reset has pollers to tell
  (`Alone`).  The number of registrations since that of a client's key says
  which of the control plane's two keys it is (`Placed`), through a rotation
  too, which leaves the ReviewClient's where it was; a process that has its key
  has it from its file or wrote it there (`FileHolds`), and a torn file has a
  writer or had one (`TornWhileWritten`), whichever processes share it.

Assumed of the constants, and why the code justifies it.  Markers differ from
what they mark: `None` from effects, numbers, tasks, frameworks, agents and
captured calls, `NoPolicy` from policies, `Free` from threads and numbers,
`NoKey` and `Torn` from keys, `NoFile` from files (the code has `None` or an
absent key there).  Which processes share which file is any function
(`KeysAssumption`), end users are any pairs of claims and roles
(`EndUsersAssumption`), and what a call is given is any of them or nothing
(`GivenAssumption`).  Lifetimes and bounds are numbers.  A
configuration is one the settings can express (`SettingsAssumption`), and a URL
names an agent or nobody (`TrafficAssumption`).  The gateway refreshes its keys
more often than it drops them (`RefreshAssumption`: 30 s, an hour and a day are
`jwks.py`'s defaults, which nothing overrides).  A program's calls fit the bound
on spans, and a Governor's program has no observation of another framework
(`ProgramsAssumption`).  A bundle is a sequence of policies, and the engine
starts from one it accepts (`BundlesAssumption`, `ServingAccepted`: without one
`__init__` raises).  TLC evaluates all of them.

Only model-checked, and why:

* Liveness (`Converges`, `WaitEnds`, `CertificatesSettle`, `TokensSettle`): the
  prover has no rules for fairness and `ENABLED`.
* `FixesShow`: a statement about one file, its findings before and after; its
  proof would be the case split TLC makes over the kinds of files.

## 5. Left out

Formatting, logging, audit records, span attributes; the conversion of context
values to Cedar's types; signing of requests; how claims are spelt; what a
content check or a scorer computes, apart from whether it could run; header
brokering and the chunks of a relayed response; the gateway's admin routes,
`describe_config` and the window of "connected"; the configuration of
OpenTelemetry and of audit logging; `start_poller=False` and a gateway without
a control plane; the login and the pass-through tools of the MCP server; vendor
calls, pricing and parsers, which keep no state.  Agents of several secrets that share one
key file, and the chunks a 32-byte key is written in.  What a Governor's
`check_output` charges is in `CostTracker`, and what its calls wait for in
`ApprovalLoop`.  Cedar, the frameworks, the control plane's queue and
bundle endpoint, the identity provider, the human and the clock are external
and modelled from how the code uses them.  `PROJECT.json` names every
component, and what of it is left out.

## 6. Plan

1. Done: `CedarDecision`, `PolicyEngine` with `PolicyRegister`, `BundleSync`,
   `ApprovalLoop`, `CostTracker`; `Gateway` and `AgentProcess` with their
   modules; eight proof modules, whose theorems state every safety invariant and
   every action property of the passing runs but `FixesShow`, for every value
   of the constants.
2. Next: abstract specifications of `BundleSync` (which bundle is in force) and
   of `ApprovalLoop` (one run per grant), implemented by a refinement as
   `PolicyEngine` implements `PolicyRegister`; and the safety part of the four
   liveness properties, that nobody can get where the awaited step is disabled.
3. Then: a Governor run that shows the leak of scopes listed in section 3, in
   the place of a finding that has been fixed by then.
