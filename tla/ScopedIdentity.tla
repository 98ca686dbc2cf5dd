--------------------------- MODULE ScopedIdentity ---------------------------
(***************************************************************************)
(* Who a governed call is made for: scoped_data.py (the end user and the    *)
(* agent of the current task, set for the length of a block and restored    *)
(* after it), identity_store.py (identities kept under a key, for code that *)
(* only knows the key), identity_middleware.py (a block around each web     *)
(* request) and access_identity.py (the credential behind a vendor call).   *)
(* Tasks are asyncio tasks: a task created from another starts with a copy  *)
(* of its context variables.  ctx holds them all, since they are copied     *)
(* together: user and agent here, framework (observation.py) and turn       *)
(* (_current_chat of maf.py, _current_span_id of langgraph.py).             *)
(***************************************************************************)
EXTENDS Naturals, Sequences, SequencesExt

CONSTANTS
    Tasks, Root,    \* asyncio tasks, and the one that is there from the start
    Users, Nobody,  \* whose claims and whose roles there are; Nobody: none at all
    EndUsers,       \* the identities a program asserts: claims and roles are set
                    \* together, and either may be empty or another user's
    Agents, Caller, \* agents a token can name; the agent_id of the adapter
    Keys,           \* keys of the identity store
    MaxBlocks,      \* how many blocks there are at once
    None

ASSUME TasksAssumption == Root \in Tasks /\ None \notin Tasks
Identities == [claims: Users \cup {Nobody}, roles: Users \cup {Nobody}]
ASSUME EndUsersAssumption == EndUsers \subseteq Identities /\ None \notin Users \cup {Nobody} \cup EndUsers

VARIABLES
    live,       \* the tasks there are
    ctx,        \* per task, its context variables
    blocks,     \* per task, the identity blocks it is in, outermost first:
                \* what each asserts, and what it found
    inherited,  \* per task, how many of those its parent had entered
    store       \* _data of the identity store

identityVars == <<live, ctx, blocks, inherited, store>>

\* An identity without claims or roles.
Unknown == [claims |-> Nobody, roles |-> Nobody]

NoContext == [user |-> None, agent |-> None, framework |-> None, turn |-> None]

\* What a block asserts: a half it says nothing about is None.
Assertion(user, agent) == [user |-> user, agent |-> agent]

IdentityInit ==
    /\ live = {Root}
    /\ ctx = [t \in Tasks |-> NoContext]
    /\ blocks = [t \in Tasks |-> <<>>]
    /\ inherited = [t \in Tasks |-> 0]
    /\ store = [k \in Keys |-> None]

-----------------------------------------------------------------------------
Bind(context, half, value) == IF value = None THEN context ELSE [context EXCEPT ![half] = value]

\* current_identity(), agent_identity() and identity_from_bearer_token(): a
\* token without a delegated agent leaves the agent half alone.
EnterBlock(t, a) ==
    /\ FoldFunction(LAMBDA entered, sum : Len(entered) + sum, 0, blocks) < MaxBlocks
    /\ ctx' = [ctx EXCEPT ![t] = Bind(Bind(@, "user", a.user), "agent", a.agent)]
    /\ blocks' = [blocks EXCEPT ![t] = Append(@, [asserts |-> a, found |-> ctx[t]])]
    /\ UNCHANGED <<live, inherited, store>>

\* The sources of a block: claims in hand, a token with what its extractor
\* made of it, a stored identity, a request with what its extractor found.
\* Nothing found means no block at all for the last two, and an empty identity
\* for a token.
FromClaims(user) == Assertion(user, None)
FromAgentClaims(agent) == Assertion(None, agent)
FromToken(user, agent) == Assertion(IF user = None THEN Unknown ELSE user, agent)
FromStore(k) == Assertion(store[k], None)
Anything == (EndUsers \cup {None}) \X (Agents \cup {None})
Assertions == [
    claims |-> {FromClaims(u) : u \in EndUsers},
    agents |-> {FromAgentClaims(a) : a \in Agents},
    tokens |-> {FromToken(h[1], h[2]) : h \in Anything},
    stored |-> {FromStore(k) : k \in {key \in Keys : store[key] # None}}]

\* Fault: a block ends by clearing what it had set.
ClearHalf(context, half, block) ==
    IF block.asserts[half] = None THEN context ELSE [context EXCEPT ![half] = None]
\* A block ends, also by an exception: each variable it had set is reset to
\* what it found.
RestoreHalf(context, half, block) ==
    IF block.asserts[half] = None THEN context
    ELSE [context EXCEPT ![half] = block.found[half]]

ExitBlock(t) ==
    /\ Len(blocks[t]) > inherited[t]
    /\ LET b == Last(blocks[t]) IN
       ctx' = [ctx EXCEPT ![t] = RestoreHalf(RestoreHalf(@, "user", b), "agent", b)]
    /\ blocks' = [blocks EXCEPT ![t] = Front(@)]
    /\ UNCHANGED <<live, inherited, store>>

\* set_identity and clear_identity, by whoever knows the key.
SetIdentity(k, user) ==
    /\ store[k] # user
    /\ store' = [store EXCEPT ![k] = user]
    /\ UNCHANGED <<live, ctx, blocks, inherited>>

\* A task is created with a copy of its creator's context, and ends.
Fork(t, c) ==
    /\ c \notin live
    /\ live' = live \cup {c}
    /\ ctx' = [ctx EXCEPT ![c] = ctx[t]]
    /\ blocks' = [blocks EXCEPT ![c] = blocks[t]]
    /\ inherited' = [inherited EXCEPT ![c] = Len(blocks[t])]
    /\ UNCHANGED store

EndTask(c) ==
    /\ c \in live \ {Root}
    /\ Len(blocks[c]) = inherited[c]
    /\ live' = live \ {c}
    /\ ctx' = [ctx EXCEPT ![c] = NoContext]
    /\ blocks' = [blocks EXCEPT ![c] = <<>>]
    /\ inherited' = [inherited EXCEPT ![c] = 0]
    /\ UNCHANGED store

-----------------------------------------------------------------------------
\* What a call itself is given, None where it is given nothing.
NothingGiven == [claims |-> None, roles |-> None, agent |-> None]

\* effective_identity_claims, effective_identity_roles: what the call itself
\* is given wins, the task's is the fallback, for the claims and for the roles
\* separately: a call that is given claims alone keeps the task's roles.
Fallback(user, given) ==
    [claims |-> IF given.claims # None THEN given.claims ELSE user.claims,
     roles |-> IF given.roles # None THEN given.roles ELSE user.roles]
OfUser(user) == IF user = None THEN Unknown ELSE user
EffectiveUser(t, given) == Fallback(OfUser(ctx[t].user), given)

\* effective_agent_identity_claims, likewise.
FallbackAgent(agent, given) ==
    IF given.agent # None THEN given.agent ELSE IF agent # None THEN agent ELSE Nobody
EffectiveAgent(t, given) == FallbackAgent(ctx[t].agent, given)

\* effective_principal: the agent a token named, else the configured one; what
\* a call is given has no say in it.
EffectivePrincipal(t) == IF ctx[t].agent # None THEN ctx[t].agent ELSE Caller

\* infer_access_identity: for a vendor call, the agent's id or else the user's.
InferAccess(user, agent, vendor) ==
    IF ~vendor THEN None
    ELSE IF agent # Nobody THEN agent
    ELSE IF user.claims # Nobody THEN user.claims ELSE None

\* resolve_access_identity: what the tool declares comes before the inference;
\* a model call has none.
AccessIdentity(user, agent, tool) ==
    IF tool = None THEN None
    ELSE IF tool.declared # None THEN tool.declared
    ELSE InferAccess(user, agent, tool.vendor)

\* For whom a call of a task is judged.
Who(user, agent, principal, tool) ==
    [user |-> user, agent |-> agent, principal |-> principal,
     access |-> AccessIdentity(user, agent, tool)]
Judged(t, user, agent, tool) == Who(user, agent, EffectivePrincipal(t), tool)

\* The last of the first n that says something, or else the other.
LastSaid(says, n, otherwise) ==
    LET last == {i \in 1..n : says[i] # None /\ \A j \in i+1..n : says[j] = None}
    IN IF last = {} THEN otherwise ELSE says[CHOOSE i \in last : TRUE]

\* For whom the program says it is: the innermost block that says, and then the
\* call itself, of the claims, of the roles and of the agent.
Said(bs, n, half) == LastSaid([i \in 1..n |-> bs[i].asserts[half]], n, None)
SaidBy(t, half) == Said(blocks[t], Len(blocks[t]), half)
SaysOfUser(asserts, half) == IF asserts.user = None THEN None ELSE asserts.user[half]
SaidOfUser(bs, half) == LastSaid([i \in 1..Len(bs) |-> SaysOfUser(bs[i].asserts, half)], Len(bs), Nobody)
SaidUser(t, given) == [
    claims |-> LastSaid(<<SaidOfUser(blocks[t], "claims"), given.claims>>, 2, Nobody),
    roles |-> LastSaid(<<SaidOfUser(blocks[t], "roles"), given.roles>>, 2, Nobody)]
SaidAgent(t, given) == LastSaid(<<SaidBy(t, "agent"), given.agent>>, 2, Nobody)
Asserted(t, user, agent, tool) ==
    Who(user, agent, IF SaidBy(t, "agent") # None THEN SaidBy(t, "agent") ELSE Caller, tool)
=============================================================================
