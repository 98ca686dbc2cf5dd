--------------------------- MODULE AgentProcessProofs ---------------------------
(***************************************************************************)
(* Theorems of an agent's process, for any tasks, identities, tools,       *)
(* invocations and programs, and however many calls are made.              *)
(*                                                                         *)
(* First, its calls.  Their inductive invariant, CallsAreGoverned, has     *)
(* three parts.  CoreInv is about every program: a task's context says     *)
(* what its blocks say; calls are nested in blocks, numbered apart and     *)
(* answered once; what runs is judged for whom the program asserts; a task *)
(* is in the scope of the innermost call that has one.  AdkInv is about    *)
(* the table ADK keeps by invocation: a running model call finds its own   *)
(* entry, or it and the one it finds are disputed.  GovernorInv is about   *)
(* the spans a Governor leaves open: those a task works in, and the order  *)
(* in which their scopes nest.                                             *)
(*                                                                         *)
(* Then the parts that work beside the calls.  The registry: a thread that *)
(* builds an engine has the lock, and its key has no entry and no poller   *)
(* that counts (Alone).  The keys: how many registrations of others came   *)
(* after that of a client's key says where among the two keys of the       *)
(* control plane it is (Placed); a process that has its key has it from    *)
(* its file (FileHolds), which is torn only by a writer.                   *)
(***************************************************************************)
EXTENDS AgentProcess, SequenceTheorems, TLAPS

\* What tasks, blocks and contexts are.
Contexts == [user: Identities \cup {None}, agent: Agents \cup {None},
             framework: Frameworks \cup {None}, turn: Nat \cup {None}]
Asserting == [user: Identities \cup {None}, agent: Agents \cup {None}]
Blocks == [asserts: Asserting, found: Contexts]

IdentityTypeOK ==
    /\ program \in Programs
    /\ live \subseteq Tasks
    /\ ctx \in [Tasks -> Contexts]
    /\ blocks \in [Tasks -> Seq(Blocks)]
    /\ store \in [Keys -> EndUsers \cup {None}]

\* The context of a task says what its blocks say, and so did the one each block found.
SaysWhatBlocksSay == \A t \in Tasks :
    /\ ctx[t].user = SaidBy(t, "user") /\ ctx[t].agent = SaidBy(t, "agent")
    /\ \A n \in 1 .. Len(blocks[t]) :
         /\ blocks[t][n].found.user = Said(blocks[t], n - 1, "user")
         /\ blocks[t][n].found.agent = Said(blocks[t], n - 1, "agent")
    /\ t \notin live => blocks[t] = <<>>

IdentityInv == IdentityTypeOK /\ SaysWhatBlocksSay

CallsTypeOK ==
    /\ spans \in Nat
    /\ open \in [Tasks -> Seq(Captured)]
    /\ charges \in [Spans -> Nat]
    /\ streams \subseteq Captured
    /\ correlations \in [Invocations -> Captured \cup {None}]
    /\ \A t \in Tasks \ live : open[t] = <<>>

\* Calls are in the blocks they started in.
Nested == \A t \in Tasks : \A n \in 1 .. Len(open[t]) :
    /\ open[t][n].depth <= Len(blocks[t])
    /\ \A m \in n .. Len(open[t]) : open[t][n].depth <= open[t][m].depth

Numbered ==
    /\ \A t \in Tasks : \A n \in 1 .. Len(open[t]) :
         /\ open[t][n].span \in 1 .. spans
         /\ open[t][n].kind = "model" => open[t][n].scope = open[t][n].span
    /\ \A t, u \in Tasks : \A n \in 1 .. Len(open[t]), m \in 1 .. Len(open[u]) :
         open[t][n].span = open[u][m].span => t = u /\ n = m

\* A model call that is running or streaming was not answered.
Unanswered ==
    /\ answered \subseteq 1 .. spans
    /\ \A t \in Tasks : \A n \in 1 .. Len(open[t]) : open[t][n].kind = "model" => open[t][n].span \notin answered
    /\ \A c \in streams :
         /\ c.scope = c.span /\ c.span \in (1 .. spans) \ answered
         /\ \A t \in Tasks : \A n \in 1 .. Len(open[t]) : open[t][n].span # c.span
         /\ \A d \in streams : c.span = d.span => c = d

CallsInv == CallsTypeOK /\ Nested /\ Numbered /\ Unanswered

\* For whom a call of ADK is judged, by the first n blocks of a task.
JudgedAt(bs, n, tool) ==
    Who(OrSessionUser(OfUser(Said(bs, n, "user"))), FallbackAgent(Said(bs, n, "agent"), NothingGiven),
        IF Said(bs, n, "agent") # None THEN Said(bs, n, "agent") ELSE Caller, tool)

\* Call c, the n-th of a task in these blocks: a model call has its own entry, or that and
\* the one it has are disputed; a tool call is alone in its task.
AsStarted(c, n, bs, entries, met) ==
    /\ c.invocation \in Invocations
    /\ c.kind = "model" =>
         \/ entries[c.invocation] = c
         \/ /\ c.span \in met
            /\ entries[c.invocation] # None => entries[c.invocation].span \in met
    /\ c.kind = "tool" => n = 1 /\ (c.span \notin met => c.who = JudgedAt(bs, c.depth, c.tool))

\* The two properties of the calls, call by call.
Sound ==
    /\ \A t \in Tasks : \A n \in 1 .. Len(open[t]) :
         open[t][n].span \notin disputed => open[t][n].who = open[t][n].asserted
    /\ ungoverned \subseteq disputed
    /\ ChargedToItsTurn

AdkInv == Runs("adk") =>
    /\ \A i \in Invocations : correlations[i] # None => correlations[i].scope = correlations[i].span
    /\ \A t \in Tasks : \A n \in 1 .. Len(open[t]) :
         AsStarted(open[t][n], n, blocks[t], correlations, disputed)
    /\ \A t, u \in Tasks : \A n \in 1 .. Len(open[t]), m \in 1 .. Len(open[u]) :
         /\ open[t][n].kind = "model" /\ open[u][m].kind = "model"
         /\ open[t][n].invocation = open[u][m].invocation
         /\ t # u \/ n # m
         => open[t][n].span \in disputed

\* A task is in the scope of the innermost of its calls that has one.
ScopesNest == ~Runs("governor") => \A t \in Tasks :
    /\ ctx[t].framework = InsideOf(t)
    /\ t \notin live => within[t] = None
    /\ \A n \in 1 .. Len(open[t]) :
         /\ open[t][n].framework # None => open[t][n].found = Inside(open[t], n - 1, within[t])
         /\ ~Runs("langgraph") /\ open[t][n].kind = "model" => open[t][n].framework = None

ListsAreKept == saturated = listed

ScopeInv == within \in [Tasks -> Frameworks \cup {None}] /\ ScopesNest /\ ListsAreKept

OpenSpans == [owner: Tasks \cup {None}, found: Frameworks \cup {None}, traced: BOOLEAN, ended: BOOLEAN]

GovernorTypeOK ==
    /\ traces \in [Tasks -> Nat]
    /\ current \in [Tasks -> [model: Spans \cup {None}, tool: Spans \cup {None}]]
    /\ held \in [Spans -> OpenSpans]
    /\ disordered \subseteq Tasks

\* The spans a task works in.
Works(works) == {works.model, works.tool}

\* The spans of a task that did not end are those it works in.
Owned ==
    /\ ~Runs("governor") =>
        (\A s \in Spans : held[s].owner = None) /\ \A t \in Tasks : current[t] = NoSpan
    /\ \A s \in Spans : held[s].owner # None =>
        /\ held[s].owner \in live /\ s <= spans
        /\ ~held[s].ended => s \in Works(current[held[s].owner])
    /\ \A t \in Tasks :
        /\ \A s \in Works(current[t]) : s # None => s <= spans
        /\ current[t].model # None => current[t].model # current[t].tool

\* Span s of a task t, where o is the other it works in: it did not end, and found
\* the scope of the other if that was opened before.
Ordered(spansHeld, t, s, o) ==
    s # None /\ spansHeld[s].owner = t =>
        /\ ~spansHeld[s].ended
        /\ (spansHeld[s].found = "governor") <=> (o # None /\ o < s)

\* A task closed its scopes in order.
OrderlyIn(context, works, spansHeld, t) ==
    /\ (context.framework = "governor") <=> (works # NoSpan)
    /\ Ordered(spansHeld, t, works.model, works.tool)
    /\ Ordered(spansHeld, t, works.tool, works.model)

InOrder == Runs("governor") => \A t \in live \ disordered : OrderlyIn(ctx[t], current[t], held, t)

TracesHold == \A s \in Spans :
    held[s].traced /\ held[s].owner # None /\ ~held[s].ended => traces[held[s].owner] > 0

GovernorInv == GovernorTypeOK /\ Owned /\ InOrder /\ TracesHold

-----------------------------------------------------------------------------
\* What the last to say something says does not depend on what comes after.
LEMMA LastSaidStep ==
    ASSUME NEW f, NEW g, NEW n \in Nat, NEW otherwise, \A i \in 1 .. n : f[i] = g[i]
    PROVE  LastSaid(f, n + 1, otherwise) =
             IF f[n + 1] # None THEN f[n + 1] ELSE LastSaid(g, n, otherwise)
  <1> DEFINE Lasts(h, k) == {i \in 1 .. k : h[i] # None /\ \A j \in i + 1 .. k : h[j] = None}
  <1>1. LastSaid(f, n + 1, otherwise) =
          IF Lasts(f, n + 1) = {} THEN otherwise ELSE f[CHOOSE i \in Lasts(f, n + 1) : TRUE]
      BY DEF LastSaid
  <1>2. LastSaid(g, n, otherwise) =
          IF Lasts(g, n) = {} THEN otherwise ELSE g[CHOOSE i \in Lasts(g, n) : TRUE]
      BY DEF LastSaid
  <1>3. CASE f[n + 1] # None
    <2>1. Lasts(f, n + 1) = {n + 1}
      <3>1. n + 1 \in Lasts(f, n + 1)
          BY <1>3
      <3>2. ASSUME NEW i \in Lasts(f, n + 1) PROVE i = n + 1
        <4>1. i = n + 1 \/ n + 1 \in i + 1 .. n + 1
            OBVIOUS
        <4> QED BY <1>3, <4>1
      <3> QED BY <3>1, <3>2
    <2> HIDE DEF Lasts
    <2> QED BY <1>1, <1>3, <2>1
  <1>4. CASE f[n + 1] = None
    <2>1. Lasts(f, n + 1) = Lasts(g, n)
      <3>1. ASSUME NEW i \in Lasts(f, n + 1) PROVE i \in Lasts(g, n)
          BY <1>4
      <3>2. ASSUME NEW i \in Lasts(g, n) PROVE i \in Lasts(f, n + 1)
        <4>1. \A j \in i + 1 .. n + 1 : j = n + 1 \/ j \in i + 1 .. n
            OBVIOUS
        <4> QED BY <1>4, <4>1
      <3> QED BY <3>1, <3>2
    <2>2. Lasts(g, n) # {} => (CHOOSE i \in Lasts(g, n) : TRUE) \in 1 .. n
        OBVIOUS
    <2> HIDE DEF Lasts
    <2> QED BY <1>1, <1>2, <1>4, <2>1, <2>2
  <1> QED BY <1>3, <1>4

LEMMA LastSaidOfNone == ASSUME NEW f, NEW otherwise PROVE LastSaid(f, 0, otherwise) = otherwise
  <1> QED BY DEF LastSaid

\* The same of what blocks say ...
LEMMA SaidStep ==
    ASSUME NEW bs, NEW n \in Nat, NEW half
    PROVE  Said(bs, n + 1, half) =
             IF bs[n + 1].asserts[half] # None THEN bs[n + 1].asserts[half] ELSE Said(bs, n, half)
  <1> DEFINE f == [i \in 1 .. n + 1 |-> bs[i].asserts[half]]
             g == [i \in 1 .. n |-> bs[i].asserts[half]]
  <1>1. \A i \in 1 .. n : f[i] = g[i]
      OBVIOUS
  <1>2. f[n + 1] = bs[n + 1].asserts[half]
      OBVIOUS
  <1>3. Said(bs, n + 1, half) = LastSaid(f, n + 1, None) /\ Said(bs, n, half) = LastSaid(g, n, None)
      BY DEF Said
  <1> HIDE DEF f, g
  <1>4. LastSaid(f, n + 1, None) = IF f[n + 1] # None THEN f[n + 1] ELSE LastSaid(g, n, None)
      BY <1>1, LastSaidStep
  <1> QED BY <1>2, <1>3, <1>4

LEMMA SaidOfSame ==
    ASSUME NEW a, NEW b, NEW n \in Nat, NEW half, \A i \in 1 .. n : a[i] = b[i]
    PROVE  Said(a, n, half) = Said(b, n, half)
  <1>1. [i \in 1 .. n |-> a[i].asserts[half]] = [i \in 1 .. n |-> b[i].asserts[half]]
      OBVIOUS
  <1> QED BY <1>1 DEF Said

LEMMA SaidOfNone == ASSUME NEW bs, NEW half PROVE Said(bs, 0, half) = None
  <1> QED BY LastSaidOfNone DEF Said

\* ... and of the scopes calls are in.
LEMMA InsideStep ==
    ASSUME NEW calls, NEW n \in Nat, NEW outside
    PROVE  Inside(calls, n + 1, outside) =
             IF calls[n + 1].framework # None THEN calls[n + 1].framework ELSE Inside(calls, n, outside)
  <1> DEFINE f == [i \in 1 .. n + 1 |-> calls[i].framework]
             g == [i \in 1 .. n |-> calls[i].framework]
  <1>1. \A i \in 1 .. n : f[i] = g[i]
      OBVIOUS
  <1>2. f[n + 1] = calls[n + 1].framework
      OBVIOUS
  <1>3. /\ Inside(calls, n + 1, outside) = LastSaid(f, n + 1, outside)
        /\ Inside(calls, n, outside) = LastSaid(g, n, outside)
      BY DEF Inside
  <1> HIDE DEF f, g
  <1>4. LastSaid(f, n + 1, outside) = IF f[n + 1] # None THEN f[n + 1] ELSE LastSaid(g, n, outside)
      BY <1>1, LastSaidStep
  <1> QED BY <1>2, <1>3, <1>4

LEMMA InsideOfSame ==
    ASSUME NEW a, NEW b, NEW n \in Nat, NEW outside, \A i \in 1 .. n : a[i] = b[i]
    PROVE  Inside(a, n, outside) = Inside(b, n, outside)
  <1>1. [i \in 1 .. n |-> a[i].framework] = [i \in 1 .. n |-> b[i].framework]
      OBVIOUS
  <1> QED BY <1>1 DEF Inside

LEMMA InsideOfNone == ASSUME NEW calls, NEW outside PROVE Inside(calls, 0, outside) = outside
  <1> QED BY LastSaidOfNone DEF Inside

\* The two ends of a sequence that the actions touch.
LEMMA FrontProperties ==
    ASSUME NEW S, NEW s \in Seq(S), s # <<>>
    PROVE  /\ Front(s) \in Seq(S) /\ Len(Front(s)) = Len(s) - 1 /\ Len(s) \in Nat \ {0}
           /\ \A i \in 1 .. Len(s) - 1 : Front(s)[i] = s[i]
           /\ Last(s) = s[Len(s)] /\ Last(s) \in S
  <1>1. Len(s) \in Nat \ {0} /\ \A i \in 1 .. Len(s) : s[i] \in S
      BY EmptySeq, ElementOfSeq
  <1>2. Front(s) = SubSeq(s, 1, Len(s) - 1)
      BY DEF Front
  <1>3. /\ Front(s) \in Seq(S) /\ Len(Front(s)) = Len(s) - 1
        /\ \A i \in 1 .. Len(s) - 1 : Front(s)[i] = s[i]
    <2> DEFINE l == Len(s) - 1
    <2>1. l \in Nat /\ \A i \in 1 .. l : s[i] \in S
        BY <1>1
    <2> HIDE DEF l
    <2>2. /\ SubSeq(s, 1, l) \in Seq(S)
          /\ Len(SubSeq(s, 1, l)) = IF 1 <= l THEN l - 1 + 1 ELSE 0
          /\ \A i \in 1 .. l - 1 + 1 : SubSeq(s, 1, l)[i] = s[1 + i - 1]
        BY <2>1, SubSeqProperties
    <2>3. Len(SubSeq(s, 1, l)) = l /\ \A i \in 1 .. l : SubSeq(s, 1, l)[i] = s[i]
        BY <2>1, <2>2
    <2> QED BY <1>2, <2>2, <2>3 DEF l
  <1> QED BY <1>1, <1>3 DEF Last

-----------------------------------------------------------------------------
\* An action that leaves the blocks alone, and of a context changes the scope
\* and the turn at most.
KeepsIdentity ==
    /\ UNCHANGED <<program, live, blocks, store>>
    /\ ctx' \in [Tasks -> Contexts]
    /\ \A t \in Tasks : ctx'[t].user = ctx[t].user /\ ctx'[t].agent = ctx[t].agent

LEMMA IdentityKept == IdentityInv /\ KeepsIdentity => IdentityInv'
  <1> SUFFICES ASSUME IdentityInv, KeepsIdentity PROVE IdentityInv'
      OBVIOUS
  <1>1. IdentityTypeOK'
      BY DEF IdentityInv, IdentityTypeOK, KeepsIdentity
  <1>2. SaysWhatBlocksSay'
      BY DEF IdentityInv, SaysWhatBlocksSay, KeepsIdentity, SaidBy
  <1> QED BY <1>1, <1>2 DEF IdentityInv

LEMMA IdentityUntouched == IdentityInv /\ UNCHANGED <<program, identityVars>> => IdentityInv'
  <1> QED BY IdentityKept DEF identityVars, KeepsIdentity, IdentityInv, IdentityTypeOK

LEMMA BlockEnters ==
    ASSUME IdentityInv, NEW t \in live, NEW a \in Asserting, EnterBlock(t, a), UNCHANGED program
    PROVE  IdentityInv'
  <1> DEFINE b == [asserts |-> a, found |-> ctx[t]]
             k == Len(blocks[t])
             c == [ctx[t] EXCEPT !.user = IF a.user = None THEN @ ELSE a.user,
                                 !.agent = IF a.agent = None THEN @ ELSE a.agent]
  <1>1. t \in Tasks /\ ctx[t] \in Contexts /\ blocks[t] \in Seq(Blocks)
      BY DEF IdentityInv, IdentityTypeOK
  <1>2. b \in Blocks /\ k \in Nat /\ c \in Contexts
      BY <1>1, LenProperties DEF Blocks, Contexts, Asserting
  <1>3. /\ ctx' = [ctx EXCEPT ![t] = c] /\ blocks' = [blocks EXCEPT ![t] = Append(@, b)]
        /\ UNCHANGED <<program, live, store>>
    <2>1. Bind(Bind(ctx[t], "user", a.user), "agent", a.agent) = c
        BY <1>1 DEF Bind, Contexts
    <2> QED BY <2>1 DEF EnterBlock
  <1>4. c.user = (IF a.user = None THEN ctx[t].user ELSE a.user)
        /\ c.agent = (IF a.agent = None THEN ctx[t].agent ELSE a.agent)
      BY <1>1 DEF Contexts
  <1>5. b.asserts = a /\ b.found = ctx[t]
      OBVIOUS
  <1> HIDE DEF b, c
  <1>6. /\ blocks'[t] \in Seq(Blocks) /\ Len(blocks'[t]) = k + 1
        /\ \A i \in 1 .. k : blocks'[t][i] = blocks[t][i]
        /\ blocks'[t][k + 1] = b
      BY <1>1, <1>2, <1>3, AppendProperties DEF IdentityInv, IdentityTypeOK
  <1>7. IdentityTypeOK'
    <2>1. ctx' \in [Tasks -> Contexts] /\ blocks' \in [Tasks -> Seq(Blocks)]
        BY <1>1, <1>2, <1>3, <1>6 DEF IdentityInv, IdentityTypeOK
    <2> QED BY <1>3, <2>1 DEF IdentityInv, IdentityTypeOK
  <1>8. ASSUME NEW n \in 0 .. k, NEW half PROVE Said(blocks'[t], n, half) = Said(blocks[t], n, half)
    <2>1. n \in Nat /\ \A i \in 1 .. n : blocks'[t][i] = blocks[t][i]
        BY <1>2, <1>6
    <2> DEFINE before == blocks[t]
               after == blocks'[t]
    <2>2. \A i \in 1 .. n : after[i] = before[i]
        BY <2>1
    <2> HIDE DEF before, after
    <2>3. Said(after, n, half) = Said(before, n, half)
        BY <2>1, <2>2, SaidOfSame
    <2> QED BY <2>3 DEF before, after
  <1>9. /\ ctx'[t].user = SaidBy(t, "user")' /\ ctx'[t].agent = SaidBy(t, "agent")'
        /\ \A n \in 1 .. Len(blocks'[t]) :
              /\ blocks'[t][n].found.user = Said(blocks'[t], n - 1, "user")
              /\ blocks'[t][n].found.agent = Said(blocks'[t], n - 1, "agent")
    <2>1. ctx[t].user = Said(blocks[t], k, "user") /\ ctx[t].agent = Said(blocks[t], k, "agent")
        BY <1>1 DEF IdentityInv, SaysWhatBlocksSay, SaidBy
    <2>2. /\ Said(blocks'[t], k + 1, "user") = IF a.user # None THEN a.user ELSE ctx[t].user
          /\ Said(blocks'[t], k + 1, "agent") = IF a.agent # None THEN a.agent ELSE ctx[t].agent
      <3>1. Said(blocks'[t], k, "user") = ctx[t].user /\ Said(blocks'[t], k, "agent") = ctx[t].agent
          BY <1>2, <1>8, <2>1
      <3>2. \A half : Said(blocks'[t], k + 1, half) =
              IF blocks'[t][k + 1].asserts[half] # None THEN blocks'[t][k + 1].asserts[half]
              ELSE Said(blocks'[t], k, half)
          BY <1>2, SaidStep
      <3>3. blocks'[t][k + 1].asserts = a
          BY <1>5, <1>6
      <3> QED BY <3>1, <3>2, <3>3
    <2>3. ctx'[t] = c
        BY <1>1, <1>3 DEF IdentityInv, IdentityTypeOK
    <2>4. ASSUME NEW n \in 1 .. k + 1
          PROVE  /\ blocks'[t][n].found.user = Said(blocks'[t], n - 1, "user")
                 /\ blocks'[t][n].found.agent = Said(blocks'[t], n - 1, "agent")
      <3>1. CASE n = k + 1
          BY <1>2, <1>5, <1>6, <1>8, <2>1, <3>1
      <3>2. CASE n \in 1 .. k
          BY <1>1, <1>2, <1>6, <1>8, <3>2 DEF IdentityInv, SaysWhatBlocksSay
      <3> QED BY <1>2, <3>1, <3>2
    <2> QED BY <1>4, <1>6, <2>2, <2>3, <2>4 DEF SaidBy
  <1>10. SaysWhatBlocksSay'
      BY <1>1, <1>3, <1>9 DEF IdentityInv, IdentityTypeOK, SaysWhatBlocksSay, SaidBy
  <1> QED BY <1>7, <1>10 DEF IdentityInv

LEMMA BlockExits ==
    ASSUME IdentityInv, NEW t \in live, ExitBlock(t), UNCHANGED program, inherited[t] \in Nat
    PROVE  /\ IdentityInv'
           /\ blocks'[t] \in Seq(Blocks) /\ Len(blocks'[t]) = Len(blocks[t]) - 1
           /\ \A i \in 1 .. Len(blocks[t]) - 1 : blocks'[t][i] = blocks[t][i]
  <1> DEFINE k == Len(blocks[t])
             b == Last(blocks[t])
             c == [ctx[t] EXCEPT !.user = IF b.asserts.user = None THEN @ ELSE b.found.user,
                                 !.agent = IF b.asserts.agent = None THEN @ ELSE b.found.agent]
  <1>1. t \in Tasks /\ ctx[t] \in Contexts /\ blocks[t] \in Seq(Blocks) /\ k \in Nat
      BY LenProperties DEF IdentityInv, IdentityTypeOK
  <1>2. k > 0 /\ blocks[t] # <<>>
      BY <1>1 DEF ExitBlock
  <1>3. /\ Front(blocks[t]) \in Seq(Blocks) /\ Len(Front(blocks[t])) = k - 1
        /\ \A i \in 1 .. k - 1 : Front(blocks[t])[i] = blocks[t][i]
        /\ b = blocks[t][k] /\ b \in Blocks
      BY <1>1, <1>2, FrontProperties
  <1>4. c \in Contexts
        /\ c.user = (IF b.asserts.user = None THEN ctx[t].user ELSE b.found.user)
        /\ c.agent = (IF b.asserts.agent = None THEN ctx[t].agent ELSE b.found.agent)
      BY <1>1, <1>3 DEF Contexts, Blocks, Asserting
  <1>5. /\ ctx' = [ctx EXCEPT ![t] = c] /\ blocks' = [blocks EXCEPT ![t] = Front(@)]
        /\ UNCHANGED <<program, live, store>>
    <2>1. RestoreHalf(RestoreHalf(ctx[t], "user", b), "agent", b) = c
        BY <1>1, <1>3 DEF RestoreHalf, Contexts, Blocks, Asserting
    <2> QED BY <2>1 DEF ExitBlock
  <1> HIDE DEF b, c
  <1>6. /\ blocks'[t] \in Seq(Blocks) /\ Len(blocks'[t]) = k - 1
        /\ \A i \in 1 .. k - 1 : blocks'[t][i] = blocks[t][i]
      BY <1>1, <1>3, <1>5 DEF IdentityInv, IdentityTypeOK
  <1>7. IdentityTypeOK'
    <2>1. ctx' \in [Tasks -> Contexts] /\ blocks' \in [Tasks -> Seq(Blocks)]
        BY <1>1, <1>4, <1>5, <1>6 DEF IdentityInv, IdentityTypeOK
    <2> QED BY <1>5, <2>1 DEF IdentityInv, IdentityTypeOK
  <1>8. ASSUME NEW n \in 0 .. k - 1, NEW half PROVE Said(blocks'[t], n, half) = Said(blocks[t], n, half)
    <2>1. n \in Nat /\ \A i \in 1 .. n : blocks'[t][i] = blocks[t][i]
        BY <1>1, <1>6
    <2> DEFINE before == blocks[t]
               after == blocks'[t]
    <2>2. \A i \in 1 .. n : after[i] = before[i]
        BY <2>1
    <2> HIDE DEF before, after
    <2>3. Said(after, n, half) = Said(before, n, half)
        BY <2>1, <2>2, SaidOfSame
    <2> QED BY <2>3 DEF before, after
  <1>9. /\ ctx'[t].user = SaidBy(t, "user")' /\ ctx'[t].agent = SaidBy(t, "agent")'
        /\ \A n \in 1 .. Len(blocks'[t]) :
              /\ blocks'[t][n].found.user = Said(blocks'[t], n - 1, "user")
              /\ blocks'[t][n].found.agent = Said(blocks'[t], n - 1, "agent")
    <2>1. ctx[t].user = Said(blocks[t], k, "user") /\ ctx[t].agent = Said(blocks[t], k, "agent")
        BY <1>1 DEF IdentityInv, SaysWhatBlocksSay, SaidBy
    <2>2. b.found.user = Said(blocks[t], k - 1, "user") /\ b.found.agent = Said(blocks[t], k - 1, "agent")
      <3>1. k \in 1 .. Len(blocks[t])
          BY <1>1, <1>2
      <3> QED BY <1>1, <1>3, <3>1 DEF IdentityInv, SaysWhatBlocksSay
    <2>3. k - 1 \in Nat /\ (k - 1) + 1 = k
        BY <1>1, <1>2
    <2>4. /\ ctx[t].user = IF b.asserts.user # None THEN b.asserts.user ELSE b.found.user
          /\ ctx[t].agent = IF b.asserts.agent # None THEN b.asserts.agent ELSE b.found.agent
        BY <1>3, <2>1, <2>2, <2>3, SaidStep
    <2>5. ctx'[t] = c
        BY <1>1, <1>5 DEF IdentityInv, IdentityTypeOK
    <2>6. /\ ctx'[t].user = Said(blocks[t], k - 1, "user")
          /\ ctx'[t].agent = Said(blocks[t], k - 1, "agent")
        BY <1>4, <2>2, <2>4, <2>5
    <2>7. ASSUME NEW n \in 1 .. k - 1
          PROVE  /\ blocks'[t][n].found.user = Said(blocks'[t], n - 1, "user")
                 /\ blocks'[t][n].found.agent = Said(blocks'[t], n - 1, "agent")
      <3>1. n \in 1 .. Len(blocks[t]) /\ n - 1 \in 0 .. k - 1
          BY <1>1
      <3>2. /\ blocks[t][n].found.user = Said(blocks[t], n - 1, "user")
            /\ blocks[t][n].found.agent = Said(blocks[t], n - 1, "agent")
          BY <1>1, <3>1 DEF IdentityInv, SaysWhatBlocksSay
      <3> QED BY <1>6, <1>8, <3>1, <3>2
    <2>8. ASSUME NEW half PROVE SaidBy(t, half)' = Said(blocks[t], k - 1, half)
      <3>1. SaidBy(t, half)' = Said(blocks'[t], Len(blocks'[t]), half)
          BY DEF SaidBy
      <3>2. Len(blocks'[t]) = k - 1 /\ k - 1 \in 0 .. k - 1
          BY <1>1, <1>2, <1>6
      <3>3. Said(blocks'[t], k - 1, half) = Said(blocks[t], k - 1, half)
          BY <1>8, <3>2
      <3> QED BY <3>1, <3>2, <3>3
    <2> QED BY <1>6, <2>6, <2>7, <2>8
  <1>10. SaysWhatBlocksSay'
      BY <1>1, <1>5, <1>9 DEF IdentityInv, IdentityTypeOK, SaysWhatBlocksSay, SaidBy
  <1> QED BY <1>6, <1>7, <1>10 DEF IdentityInv

\* A task that is created says what its creator does; one that ended says nothing.
LEMMA TaskForks ==
    ASSUME IdentityInv, NEW t \in live, NEW c \in Tasks, Fork(t, c), UNCHANGED program
    PROVE  IdentityInv'
  <1>1. t \in Tasks
      BY DEF IdentityInv, IdentityTypeOK
  <1> QED BY <1>1 DEF IdentityInv, IdentityTypeOK, SaysWhatBlocksSay, SaidBy, Fork

LEMMA TaskEnds ==
    ASSUME IdentityInv, NEW c \in Tasks, EndTask(c), UNCHANGED program
    PROVE  IdentityInv'
  <1>1. NoContext \in Contexts /\ <<>> \in Seq(Blocks) /\ Len(<<>>) = 0
      BY EmptySeq DEF NoContext, Contexts
  <1>2. IdentityTypeOK'
      BY <1>1 DEF IdentityInv, IdentityTypeOK, EndTask
  <1>3. SaysWhatBlocksSay'
      BY <1>1, SaidOfNone DEF IdentityInv, IdentityTypeOK, SaysWhatBlocksSay, SaidBy, EndTask, NoContext
  <1> QED BY <1>2, <1>3 DEF IdentityInv

-----------------------------------------------------------------------------
\* Who a call is judged for, and for whom the program says it is.
JudgedUsers == [claims: Users \cup {Nobody, SessionUser}, roles: Users \cup {Nobody}]
Giving == [claims: Users \cup {Nobody, None}, roles: Users \cup {Nobody, None}, agent: Agents \cup {Nobody, None}]

LEMMA IdentitiesOf ==
    ASSUME NEW user \in JudgedUsers, NEW agent \in Agents \cup {Nobody},
           NEW principal \in Agents \cup {Caller}, NEW tool \in Tools \cup {None}
    PROVE  Who(user, agent, principal, tool) \in Judgements
  <1>1. user.claims \in Users \cup {Nobody, SessionUser}
      BY DEF JudgedUsers
  <1>2. AccessIdentity(user, agent, tool) \in
          {k.declared : k \in Tools} \cup Agents \cup Users \cup {None, SessionUser}
      BY <1>1 DEF AccessIdentity, InferAccess
  <1> QED BY <1>2 DEF Who, Judgements, JudgedUsers

\* What a half of the end user is said to be is that half of whom it is said to be.
LEMMA HalvesAgree ==
    ASSUME NEW bs \in Seq(Blocks), NEW half \in {"claims", "roles"}
    PROVE  /\ SaidOfUser(bs, half) = OfUser(Said(bs, Len(bs), "user"))[half]
           /\ Said(bs, Len(bs), "user") \in Identities \cup {None}
  <1> DEFINE n == Len(bs)
             f == [i \in 1 .. n |-> SaysOfUser(bs[i].asserts, half)]
             g == [i \in 1 .. n |-> bs[i].asserts["user"]]
             Lasts(h) == {i \in 1 .. n : h[i] # None /\ \A j \in i + 1 .. n : h[j] = None}
  <1>1. n \in Nat /\ \A i \in 1 .. n : bs[i].asserts.user \in Identities \cup {None}
    <2>1. n \in Nat /\ \A i \in 1 .. n : bs[i] \in Blocks
        BY LenProperties, ElementOfSeq
    <2> QED BY <2>1 DEF Blocks, Asserting
  <1>2. ASSUME NEW i \in 1 .. n
        PROVE  /\ f[i] = (IF g[i] = None THEN None ELSE g[i][half])
               /\ g[i] \in Identities \cup {None} /\ (f[i] = None <=> g[i] = None)
    <2>1. f[i] = (IF g[i] = None THEN None ELSE g[i][half]) /\ g[i] \in Identities \cup {None}
        BY <1>1 DEF SaysOfUser
    <2>2. g[i] \in Identities => g[i][half] \in Users \cup {Nobody}
        BY DEF Identities
    <2> HIDE DEF f, g
    <2> QED BY <2>1, <2>2, EndUsersAssumption
  <1>3. SaidOfUser(bs, half) = IF Lasts(f) = {} THEN Nobody ELSE f[CHOOSE i \in Lasts(f) : TRUE]
      BY DEF SaidOfUser, LastSaid
  <1>4. Said(bs, n, "user") = IF Lasts(g) = {} THEN None ELSE g[CHOOSE i \in Lasts(g) : TRUE]
      BY DEF Said, LastSaid
  <1> HIDE DEF f, g
  <1>5. Lasts(f) = Lasts(g)
      BY <1>1, <1>2
  <1>6. CASE Lasts(g) = {}
    <2>1. Said(bs, n, "user") = None /\ SaidOfUser(bs, half) = Nobody
        BY <1>3, <1>4, <1>5, <1>6
    <2> QED BY <2>1 DEF OfUser, Unknown
  <1>7. CASE Lasts(g) # {}
    <2> DEFINE last == CHOOSE i \in Lasts(g) : TRUE
    <2>1. last \in 1 .. n /\ g[last] # None
        BY <1>7
    <2>2. Said(bs, n, "user") = g[last] /\ SaidOfUser(bs, half) = f[last]
        BY <1>3, <1>4, <1>5, <1>7
    <2> HIDE DEF last, Lasts
    <2>3. f[last] = g[last][half] /\ g[last] \in Identities \cup {None}
        BY <1>2, <2>1
    <2> QED BY <2>1, <2>2, <2>3 DEF OfUser
  <1> QED BY <1>6, <1>7

LEMMA LastOfTwo ==
    ASSUME NEW a, NEW b, NEW otherwise
    PROVE  LastSaid(<<a, b>>, 2, otherwise) =
             IF b # None THEN b ELSE IF a # None THEN a ELSE otherwise
  <1> DEFINE f == <<a, b>>
  <1>1. f[1] = a /\ f[2] = b
      OBVIOUS
  <1> HIDE DEF f
  <1>2. LastSaid(f, 2, otherwise) = IF f[2] # None THEN f[2] ELSE LastSaid(f, 1, otherwise)
    <2>1. LastSaid(f, 1 + 1, otherwise) = IF f[1 + 1] # None THEN f[1 + 1] ELSE LastSaid(f, 1, otherwise)
        BY LastSaidStep
    <2>2. 1 + 1 = 2
        OBVIOUS
    <2> QED BY <2>1, <2>2
  <1>3. LastSaid(f, 1, otherwise) = IF f[1] # None THEN f[1] ELSE otherwise
    <2>1. LastSaid(f, 0 + 1, otherwise) = IF f[0 + 1] # None THEN f[0 + 1] ELSE LastSaid(f, 0, otherwise)
        BY LastSaidStep
    <2>2. 0 + 1 = 1
        OBVIOUS
    <2> QED BY <2>1, <2>2, LastSaidOfNone
  <1> QED BY <1>1, <1>2, <1>3 DEF f

LEMMA JudgedIsAsserted ==
    ASSUME IdentityInv, NEW t \in Tasks, NEW user, NEW agent, NEW tool
    PROVE  /\ Judged(t, user, agent, tool) = Asserted(t, user, agent, tool)
           /\ \A given : EffectiveUser(t, given) = SaidUser(t, given)
           /\ \A given : EffectiveAgent(t, given) = SaidAgent(t, given)
  <1>1. ctx[t].user = SaidBy(t, "user") /\ ctx[t].agent = SaidBy(t, "agent")
      BY DEF IdentityInv, SaysWhatBlocksSay
  <1>2. blocks[t] \in Seq(Blocks)
      BY DEF IdentityInv, IdentityTypeOK
  <1>3. ASSUME NEW half \in {"claims", "roles"}
        PROVE  SaidOfUser(blocks[t], half) = OfUser(ctx[t].user)[half] /\ SaidOfUser(blocks[t], half) # None
    <2>1. SaidOfUser(blocks[t], half) = OfUser(ctx[t].user)[half] /\ ctx[t].user \in Identities \cup {None}
        BY <1>1, <1>2, HalvesAgree DEF SaidBy
    <2>2. OfUser(ctx[t].user) \in Identities
        BY <2>1 DEF OfUser, Unknown, Identities
    <2>3. OfUser(ctx[t].user)[half] \in Users \cup {Nobody}
        BY <2>2 DEF Identities
    <2> QED BY <2>1, <2>3, EndUsersAssumption
  <1>4. ASSUME NEW given PROVE EffectiveUser(t, given) = SaidUser(t, given)
    <2>1. /\ LastSaid(<<SaidOfUser(blocks[t], "claims"), given.claims>>, 2, Nobody) =
               IF given.claims # None THEN given.claims ELSE OfUser(ctx[t].user).claims
          /\ LastSaid(<<SaidOfUser(blocks[t], "roles"), given.roles>>, 2, Nobody) =
               IF given.roles # None THEN given.roles ELSE OfUser(ctx[t].user).roles
        BY <1>3, LastOfTwo
    <2> QED BY <2>1 DEF EffectiveUser, Fallback, SaidUser
  <1>5. ASSUME NEW given PROVE EffectiveAgent(t, given) = SaidAgent(t, given)
      BY <1>1, LastOfTwo DEF EffectiveAgent, FallbackAgent, SaidAgent
  <1>6. Judged(t, user, agent, tool) = Asserted(t, user, agent, tool)
      BY <1>1 DEF Judged, Asserted, EffectivePrincipal
  <1> QED BY <1>4, <1>5, <1>6

\* What a task's calls are judged for, with or without anything given to them.
LEMMA EffectiveTypes ==
    ASSUME IdentityInv, NEW t \in Tasks, NEW given \in Giving
    PROVE  EffectiveUser(t, given) \in Identities /\ EffectiveAgent(t, given) \in Agents \cup {Nobody}
  <1>1. ctx[t].user \in Identities \cup {None} /\ ctx[t].agent \in Agents \cup {None}
      BY DEF IdentityInv, IdentityTypeOK, Contexts
  <1>2. OfUser(ctx[t].user) \in Identities
      BY <1>1 DEF OfUser, Unknown, Identities
  <1>3. /\ given.claims \in Users \cup {Nobody, None} /\ given.roles \in Users \cup {Nobody, None}
        /\ given.agent \in Agents \cup {Nobody, None}
      BY DEF Giving
  <1>4. EffectiveUser(t, given) \in Identities
      BY <1>2, <1>3 DEF EffectiveUser, Fallback, Identities
  <1>5. EffectiveAgent(t, given) \in Agents \cup {Nobody}
      BY <1>1, <1>3 DEF EffectiveAgent, FallbackAgent
  <1> QED BY <1>4, <1>5

LEMMA NothingIsGiven == NothingGiven \in Giving /\ Given \subseteq Giving
  <1> QED BY GivenAssumption DEF NothingGiven, Giving

LEMMA JudgedIdentities ==
    ASSUME IdentityInv, NEW t \in Tasks, NEW user \in JudgedUsers, NEW agent \in Agents \cup {Nobody},
           NEW tool \in Tools \cup {None}
    PROVE  Judged(t, user, agent, tool) \in Judgements
  <1>1. EffectivePrincipal(t) \in Agents \cup {Caller}
      BY DEF IdentityInv, IdentityTypeOK, Contexts, EffectivePrincipal
  <1> QED BY <1>1, IdentitiesOf DEF Judged

LEMMA IdentitiesAreJudged == Identities \subseteq JudgedUsers
  <1> QED BY DEF Identities, JudgedUsers

LEMMA CallIsCaptured ==
    ASSUME IdentityInv, spans \in Nat,
           NEW t \in Tasks, NEW kind \in {"model", "tool"}, NEW who \in Judgements, NEW asserted \in Judgements,
           NEW tool \in Tools \cup {None}, NEW scope \in Nat, NEW framework \in Frameworks \cup {None}
    PROVE  LET c == Call(t, kind, who, asserted, tool, scope, framework) IN
           /\ c \in Captured
           /\ \A i \in Invocations : [c EXCEPT !.invocation = i] \in Captured
  <1>1. ctx[t].framework \in Frameworks \cup {None} /\ Len(blocks[t]) \in Nat
      BY LenProperties DEF IdentityInv, IdentityTypeOK, Contexts
  <1> QED BY <1>1 DEF Call, Captured

-----------------------------------------------------------------------------
\* Task t starts call c, which runs if the first stage allows it.
Opens(t, c, allowed) ==
    /\ spans' = spans + 1
    /\ open' = IF allowed THEN [open EXCEPT ![t] = Append(@, c)] ELSE open
    /\ UNCHANGED <<program, live, blocks, charges, answered, ungoverned, streams>>

\* c is the next call of task t.
IsNext(t, c) ==
    /\ c \in Captured
    /\ c.span = spans + 1 /\ c.depth = Len(blocks[t])
    /\ c.kind = "model" => c.scope = c.span

\* The calls there are after it.
LEMMA OpenedCalls ==
    ASSUME IdentityInv, CallsInv, NEW t \in live, NEW c, IsNext(t, c), NEW allowed, Opens(t, c, allowed)
    PROVE  /\ open' \in [Tasks -> Seq(Captured)]
           /\ \A u \in Tasks :
                /\ Len(open[u]) \in Nat /\ Len(open'[u]) \in Len(open[u]) .. Len(open[u]) + 1
                /\ \A n \in 1 .. Len(open[u]) : open'[u][n] = open[u][n]
                /\ Len(open'[u]) # Len(open[u]) =>
                     /\ u = t /\ allowed /\ Len(open'[u]) = Len(open[u]) + 1
                     /\ open'[u][Len(open[u]) + 1] = c
                     /\ \A n \in 1 .. Len(open'[u]) : n # Len(open[u]) + 1 => n \in 1 .. Len(open[u])
  <1>1. t \in Tasks /\ open \in [Tasks -> Seq(Captured)] /\ c \in Captured
      BY DEF IdentityInv, IdentityTypeOK, CallsInv, CallsTypeOK, IsNext
  <1>2. \A u \in Tasks : open[u] \in Seq(Captured) /\ Len(open[u]) \in Nat
      BY <1>1, LenProperties
  <1>3. CASE allowed
    <2>1. open' = [open EXCEPT ![t] = Append(open[t], c)]
        BY <1>3 DEF Opens
    <2>2. /\ Append(open[t], c) \in Seq(Captured) /\ Len(Append(open[t], c)) = Len(open[t]) + 1
          /\ \A n \in 1 .. Len(open[t]) : Append(open[t], c)[n] = open[t][n]
          /\ Append(open[t], c)[Len(open[t]) + 1] = c
        BY <1>1, AppendProperties
    <2> DEFINE more == Append(open[t], c)
    <2> HIDE DEF more
    <2>3. open' \in [Tasks -> Seq(Captured)] /\ open'[t] = more /\ \A u \in Tasks \ {t} : open'[u] = open[u]
        BY <1>1, <2>1, <2>2 DEF more
    <2>4. /\ Len(more) = Len(open[t]) + 1 /\ more[Len(open[t]) + 1] = c
          /\ \A n \in 1 .. Len(open[t]) : more[n] = open[t][n]
        BY <2>2 DEF more
    <2>5. ASSUME NEW u \in Tasks
          PROVE  /\ Len(open[u]) \in Nat /\ Len(open'[u]) \in Len(open[u]) .. Len(open[u]) + 1
                 /\ \A n \in 1 .. Len(open[u]) : open'[u][n] = open[u][n]
                 /\ Len(open'[u]) # Len(open[u]) =>
                      /\ u = t /\ allowed /\ Len(open'[u]) = Len(open[u]) + 1
                      /\ open'[u][Len(open[u]) + 1] = c
                      /\ \A n \in 1 .. Len(open'[u]) : n # Len(open[u]) + 1 => n \in 1 .. Len(open[u])
      <3>1. CASE u = t
          BY <1>2, <1>3, <2>3, <2>4, <3>1
      <3>2. CASE u # t
          BY <1>2, <2>3, <3>2
      <3> QED BY <3>1, <3>2
    <2> QED BY <2>3, <2>5
  <1>4. CASE ~allowed
      BY <1>1, <1>2, <1>4 DEF Opens
  <1> QED BY <1>3, <1>4

LEMMA CallOpens ==
    ASSUME IdentityInv, CallsInv, NEW t \in live, NEW c, IsNext(t, c), NEW allowed, Opens(t, c, allowed),
           correlations' \in [Invocations -> Captured \cup {None}]
    PROVE  CallsInv'
  <1> DEFINE is(u) == Len(open[u])
             be(u) == Len(open'[u])
  <1>1. /\ spans \in Nat /\ spans' = spans + 1 /\ t \in Tasks /\ live \subseteq Tasks
        /\ UNCHANGED <<live, blocks, charges, answered, streams>>
        /\ c.span = spans + 1 /\ c.depth = Len(blocks[t]) /\ (c.kind = "model" => c.scope = c.span)
        /\ Len(blocks[t]) \in Nat
      BY LenProperties DEF IdentityInv, IdentityTypeOK, CallsInv, CallsTypeOK, IsNext, Opens
  <1>2. open' \in [Tasks -> Seq(Captured)]
      BY OpenedCalls
  <1>3. ASSUME NEW u \in Tasks, NEW n \in 1 .. be(u)
        PROVE  \/ n \in 1 .. is(u) /\ open'[u][n] = open[u][n]
               \/ u = t /\ n = is(t) + 1 /\ be(t) = is(t) + 1 /\ open'[u][n] = c
    <2>1. is(u) \in Nat /\ be(u) \in is(u) .. is(u) + 1
        BY OpenedCalls
    <2>2. CASE be(u) = is(u)
        BY <2>2, OpenedCalls
    <2>3. CASE be(u) # is(u)
        BY <2>3, OpenedCalls
    <2> QED BY <2>2, <2>3
  <1>4. \A u \in Tasks : is(u) \in Nat /\ be(u) \in is(u) .. is(u) + 1
      BY OpenedCalls
  <1>5. CallsTypeOK'
    <2>1. ASSUME NEW u \in Tasks \ live PROVE open'[u] = <<>>
      <3>1. open[u] = <<>> /\ u # t
          BY <1>1 DEF CallsInv, CallsTypeOK
      <3>2. open'[u] = open[u]
          BY <3>1 DEF Opens, CallsInv, CallsTypeOK
      <3> QED BY <3>1, <3>2
    <2> QED BY <1>1, <1>2, <2>1 DEF CallsInv, CallsTypeOK
  <1> HIDE DEF is, be
  <1>6. Nested'
    <2>1. \A u \in Tasks : \A n \in 1 .. is(u) : open[u][n].depth <= Len(blocks[u])
        BY DEF CallsInv, Nested, is
    <2>2. ASSUME NEW u \in Tasks, NEW n \in 1 .. be(u)
          PROVE  open'[u][n].depth <= Len(blocks[u])
        BY <1>1, <1>3, <2>1
    <2>3. ASSUME NEW u \in Tasks, NEW n \in 1 .. be(u), NEW m \in n .. be(u)
          PROVE  open'[u][n].depth <= open'[u][m].depth
      <3>1. m \in 1 .. be(u)
          BY <1>4
      <3>2. CASE m \in 1 .. is(u) /\ open'[u][m] = open[u][m]
        <4>1. n \in 1 .. is(u) /\ open'[u][n] = open[u][n]
            BY <1>3, <1>4, <3>2
        <4>2. m \in n .. Len(open[u])
            BY <1>4, <3>2 DEF is
        <4> QED BY <3>2, <4>1, <4>2 DEF CallsInv, Nested, is
      <3>3. CASE u = t /\ open'[u][m] = c
          BY <1>1, <2>2, <3>3
      <3> QED BY <1>3, <3>1, <3>2, <3>3
    <2>4. UNCHANGED blocks
        BY <1>1
    <2> QED BY <2>2, <2>3, <2>4 DEF Nested, be
  <1>7. Numbered'
    <2>1. ASSUME NEW u \in Tasks, NEW n \in 1 .. is(u)
          PROVE  open[u][n].span \in 1 .. spans /\ (open[u][n].kind = "model" => open[u][n].scope = open[u][n].span)
        BY DEF CallsInv, Numbered, is
    <2>2. ASSUME NEW u \in Tasks, NEW n \in 1 .. be(u)
          PROVE  /\ open'[u][n].span \in 1 .. spans'
                 /\ open'[u][n].kind = "model" => open'[u][n].scope = open'[u][n].span
        BY <1>1, <1>3, <2>1
    <2>3. ASSUME NEW u \in Tasks, NEW v \in Tasks, NEW n \in 1 .. be(u), NEW m \in 1 .. be(v),
                 open'[u][n].span = open'[v][m].span
          PROVE  u = v /\ n = m
      <3>1. CASE open'[u][n].span = spans + 1
        <4>1. ASSUME NEW w \in Tasks, NEW k \in 1 .. be(w), open'[w][k].span = spans + 1
              PROVE  w = t /\ k = is(t) + 1
            BY <1>1, <1>3, <2>1, <4>1
        <4> QED BY <2>3, <3>1, <4>1
      <3>2. CASE open'[u][n].span # spans + 1
        <4>1. n \in 1 .. is(u) /\ open'[u][n] = open[u][n] /\ m \in 1 .. is(v) /\ open'[v][m] = open[v][m]
            BY <1>1, <1>3, <2>3, <3>2
        <4> QED BY <2>3, <4>1 DEF CallsInv, Numbered, is
      <3> QED BY <3>1, <3>2
    <2> QED BY <2>2, <2>3 DEF Numbered, be
  <1>8. Unanswered'
    <2>1. answered' \subseteq 1 .. spans'
        BY <1>1 DEF CallsInv, Unanswered
    <2>2. ASSUME NEW u \in Tasks, NEW n \in 1 .. be(u)
          PROVE  /\ open'[u][n].kind = "model" => open'[u][n].span \notin answered
                 /\ \A d \in streams : open'[u][n].span # d.span
      <3>1. CASE n \in 1 .. is(u) /\ open'[u][n] = open[u][n]
          BY <3>1 DEF CallsInv, Unanswered, is
      <3>2. CASE open'[u][n] = c
          BY <1>1, <3>2 DEF CallsInv, Unanswered
      <3> QED BY <1>3, <3>1, <3>2
    <2>3. \A d \in streams : /\ d.scope = d.span /\ d.span \in (1 .. spans') \ answered
                             /\ \A e \in streams : d.span = e.span => d = e
        BY <1>1 DEF CallsInv, Unanswered
    <2> QED BY <1>1, <2>1, <2>2, <2>3 DEF Unanswered, be
  <1> QED BY <1>5, <1>6, <1>7, <1>8 DEF CallsInv

\* It is judged for whom the program says it is, or it met another's entry.
LEMMA OpensSoundly ==
    ASSUME IdentityInv, CallsInv, Sound, NEW t \in live, NEW c, IsNext(t, c), NEW allowed, Opens(t, c, allowed),
           disputed \subseteq disputed', c.span \notin disputed' => c.who = c.asserted
    PROVE  Sound'
  <1>1. ASSUME NEW u \in Tasks, NEW n \in 1 .. Len(open'[u]), open'[u][n].span \notin disputed'
        PROVE  open'[u][n].who = open'[u][n].asserted
    <2>1. Len(open[u]) \in Nat /\ Len(open'[u]) \in Len(open[u]) .. Len(open[u]) + 1
        BY OpenedCalls
    <2>2. CASE n \in 1 .. Len(open[u])
      <3>1. open'[u][n] = open[u][n]
          BY <2>2, OpenedCalls
      <3> QED BY <1>1, <2>2, <3>1 DEF Sound
    <2>3. CASE n \notin 1 .. Len(open[u])
      <3>1. open'[u][n] = c
          BY <2>1, <2>3, OpenedCalls
      <3> QED BY <1>1, <3>1
    <2> QED BY <2>2, <2>3
  <1>2. ungoverned' \subseteq disputed' /\ ChargedToItsTurn'
      BY DEF Sound, ChargedToItsTurn, Opens
  <1> QED BY <1>1, <1>2 DEF Sound

-----------------------------------------------------------------------------
\* Calls return, and none starts; those that run on have the blocks they had.
Fewer ==
    /\ open' \in [Tasks -> Seq(Captured)]
    /\ \A u \in Tasks :
         /\ Len(open'[u]) \in 0 .. Len(open[u])
         /\ \A n \in 1 .. Len(open'[u]) : open'[u][n] = open[u][n]
         /\ u \notin live' => open'[u] = <<>>
         /\ open'[u] # <<>> => \E more \in Nat :
              Len(blocks'[u]) = open[u][Len(open'[u])].depth + more
    /\ spans' = spans /\ charges' \in [Spans -> Nat] /\ streams' \subseteq Captured
    /\ correlations' \in [Invocations -> Captured \cup {None}]

LEMMA FewerCalls ==
    ASSUME CallsInv, Fewer PROVE CallsTypeOK' /\ Nested' /\ Numbered'
  <1>1. \A u \in Tasks : Len(open'[u]) \in Nat /\ Len(open[u]) \in Nat /\ Len(open'[u]) <= Len(open[u])
      BY LenProperties DEF CallsInv, CallsTypeOK, Fewer
  <1>2. CallsTypeOK'
      BY DEF CallsInv, CallsTypeOK, Fewer
  <1>3. Nested'
    <2>1. ASSUME NEW u \in Tasks, NEW n \in 1 .. Len(open'[u]), NEW m \in n .. Len(open'[u])
          PROVE  open'[u][n].depth <= open'[u][m].depth
      <3>1. m \in 1 .. Len(open'[u]) /\ n \in 1 .. Len(open[u]) /\ m \in n .. Len(open[u])
          BY <1>1
      <3>2. open'[u][n] = open[u][n] /\ open'[u][m] = open[u][m]
          BY <3>1 DEF Fewer
      <3> QED BY <3>1, <3>2 DEF CallsInv, Nested
    <2>2. ASSUME NEW u \in Tasks, NEW n \in 1 .. Len(open'[u])
          PROVE  open'[u][n].depth <= Len(blocks'[u])
      <3> DEFINE last == Len(open'[u])
      <3>1. last \in 1 .. last /\ last \in n .. last /\ open'[u] # <<>> /\ last \in Nat
          BY <1>1, EmptySeq
      <3>2. open'[u] \in Seq(Captured)
          BY DEF Fewer
      <3>3. open'[u][last] \in Captured /\ open'[u][n] \in Captured
          BY <3>1, <3>2, ElementOfSeq
      <3>4. open'[u][n].depth <= open'[u][last].depth
          BY <2>1, <3>1
      <3>5. open'[u][last].depth <= Len(blocks'[u])
        <4>1. PICK more \in Nat : Len(blocks'[u]) = open[u][last].depth + more
            BY <3>1 DEF Fewer
        <4>2. open'[u][last] = open[u][last]
            BY <3>1 DEF Fewer
        <4> QED BY <3>3, <4>1, <4>2 DEF Captured
      <3>6. Len(blocks'[u]) \in Int
        <4>1. PICK more \in Nat : Len(blocks'[u]) = open[u][last].depth + more
            BY <3>1 DEF Fewer
        <4>2. open'[u][last] = open[u][last]
            BY <3>1 DEF Fewer
        <4> QED BY <3>3, <4>1, <4>2 DEF Captured
      <3>7. open'[u][n].depth \in Nat /\ open'[u][last].depth \in Nat
          BY <3>3 DEF Captured
      <3> HIDE DEF last
      <3> QED BY <3>4, <3>5, <3>6, <3>7
    <2> QED BY <2>1, <2>2 DEF Nested
  <1>4. Numbered'
    <2>1. \A u \in Tasks : \A n \in 1 .. Len(open'[u]) : n \in 1 .. Len(open[u]) /\ open'[u][n] = open[u][n]
        BY <1>1 DEF Fewer
    <2>2. spans' = spans
        BY DEF Fewer
    <2>3. ASSUME NEW u \in Tasks, NEW n \in 1 .. Len(open'[u])
          PROVE  /\ open'[u][n].span \in 1 .. spans
                 /\ open'[u][n].kind = "model" => open'[u][n].scope = open'[u][n].span
        BY <2>1 DEF CallsInv, Numbered
    <2>4. ASSUME NEW u \in Tasks, NEW v \in Tasks, NEW n \in 1 .. Len(open'[u]), NEW m \in 1 .. Len(open'[v]),
                 open'[u][n].span = open'[v][m].span
          PROVE  u = v /\ n = m
      <3>1. n \in 1 .. Len(open[u]) /\ m \in 1 .. Len(open[v]) /\ open[u][n].span = open[v][m].span
          BY <2>1, <2>4
      <3> QED BY <3>1 DEF CallsInv, Numbered
    <2> QED BY <2>2, <2>3, <2>4 DEF Numbered
  <1> QED BY <1>2, <1>3, <1>4

\* Task t's innermost call returns; it is in the blocks it started in.
Returns(t) ==
    /\ t \in live /\ open[t] # <<>> /\ Len(blocks[t]) = Current(t).depth
    /\ open' = Closed(t) /\ spans' = spans
    /\ UNCHANGED <<live, blocks>>

LEMMA ReturnedCalls ==
    ASSUME IdentityInv, CallsInv, NEW t \in live, open[t] # <<>>, open' = Closed(t)
    PROVE  /\ open' \in [Tasks -> Seq(Captured)]
           /\ t \in Tasks /\ Len(open[t]) \in Nat \ {0} /\ Len(open'[t]) = Len(open[t]) - 1
           /\ Current(t) = open[t][Len(open[t])] /\ Current(t) \in Captured
           /\ \A n \in 1 .. Len(open'[t]) : open'[t][n] = open[t][n]
           /\ \A u \in Tasks \ {t} : open'[u] = open[u]
           /\ \A u \in Tasks : Len(open'[u]) \in 0 .. Len(open[u]) /\ Len(open[u]) \in Nat
           /\ \A u \in Tasks : \A n \in 1 .. Len(open'[u]) :
                /\ n \in 1 .. Len(open[u]) /\ open'[u][n] = open[u][n]
                /\ open[u][n].span # Current(t).span
  <1>1. t \in Tasks /\ open \in [Tasks -> Seq(Captured)]
      BY DEF IdentityInv, IdentityTypeOK, CallsInv, CallsTypeOK
  <1> DEFINE f == Front(open[t])
             k == Len(open[t])
  <1>2. /\ f \in Seq(Captured) /\ Len(f) = k - 1 /\ k \in Nat \ {0}
        /\ \A i \in 1 .. k - 1 : f[i] = open[t][i]
        /\ Current(t) = open[t][k] /\ Current(t) \in Captured
      BY <1>1, FrontProperties DEF Current
  <1>3. open' = [open EXCEPT ![t] = f]
      BY DEF Closed
  <1> HIDE DEF f
  <1>4. open' \in [Tasks -> Seq(Captured)] /\ open'[t] = f /\ \A u \in Tasks \ {t} : open'[u] = open[u]
      BY <1>1, <1>2, <1>3
  <1>5. \A u \in Tasks : Len(open[u]) \in Nat
      BY <1>1, LenProperties
  <1>6. ASSUME NEW u \in Tasks
        PROVE  /\ Len(open'[u]) \in 0 .. Len(open[u])
               /\ \A n \in 1 .. Len(open'[u]) :
                    n \in 1 .. Len(open[u]) /\ open'[u][n] = open[u][n] /\ (u # t \/ n # k)
    <2>1. CASE u = t
        BY <1>2, <1>4, <2>1
    <2>2. CASE u # t
        BY <1>4, <1>5, <2>2
    <2> QED BY <2>1, <2>2
  <1>7. ASSUME NEW u \in Tasks, NEW n \in 1 .. Len(open'[u])
        PROVE  open[u][n].span # Current(t).span
    <2>1. k \in 1 .. Len(open[t])
        BY <1>2
    <2> QED BY <1>1, <1>2, <1>6, <2>1 DEF CallsInv, Numbered
  <1>8. Len(open'[t]) = k - 1 /\ \A n \in 1 .. Len(open'[t]) : open'[t][n] = open[t][n]
      BY <1>2, <1>4
  <1>9. \A u \in Tasks : \A n \in 1 .. Len(open'[u]) :
          /\ n \in 1 .. Len(open[u]) /\ open'[u][n] = open[u][n]
          /\ open[u][n].span # Current(t).span
      BY <1>6, <1>7
  <1> QED BY <1>1, <1>2, <1>4, <1>5, <1>6, <1>8, <1>9

LEMMA ReturnsAreFewer ==
    ASSUME IdentityInv, CallsInv, NEW t \in live, Returns(t), charges' \in [Spans -> Nat], streams' \subseteq Captured,
           correlations' \in [Invocations -> Captured \cup {None}]
    PROVE  Fewer
  <1>1. /\ open[t] # <<>> /\ open' = Closed(t) /\ spans' = spans /\ UNCHANGED <<live, blocks>>
      BY DEF Returns
  <1>2. ASSUME NEW u \in Tasks, open'[u] # <<>>
        PROVE  \E more \in Nat : Len(blocks'[u]) = open[u][Len(open'[u])].depth + more
    <2> DEFINE last == Len(open'[u])
               d == open[u][last].depth
               b == Len(blocks[u])
    <2>1. open'[u] \in Seq(Captured)
        BY <1>1, ReturnedCalls
    <2>2. last \in 1 .. last /\ last \in Nat
        BY <1>2, <2>1, EmptySeq
    <2>3. last \in 1 .. Len(open[u]) /\ open'[u][last] = open[u][last]
        BY <1>1, <2>2, ReturnedCalls
    <2>4. d \in Nat
      <3>1. open'[u][last] \in Captured
          BY <2>1, <2>2, ElementOfSeq
      <3> QED BY <2>3, <3>1 DEF Captured
    <2>5. b \in Nat /\ d <= b
        BY <2>3, LenProperties DEF CallsInv, Nested, IdentityInv, IdentityTypeOK
    <2> HIDE DEF d, b
    <2>6. b - d \in Nat /\ b = d + (b - d)
        BY <2>4, <2>5
    <2>7. Len(blocks'[u]) = d + (b - d)
        BY <1>1, <2>6 DEF b
    <2> QED BY <2>6, <2>7 DEF d
  <1>3. \A u \in Tasks : u \notin live' => open'[u] = <<>>
    <2> SUFFICES ASSUME NEW u \in Tasks, u \notin live PROVE open'[u] = <<>>
        BY <1>1
    <2>1. u # t /\ open[u] = <<>>
        BY DEF CallsInv, CallsTypeOK
    <2> QED BY <1>1, <2>1, ReturnedCalls
  <1> QED BY <1>1, <1>2, <1>3, ReturnedCalls DEF Fewer

LEMMA UnansweredReturns ==
    ASSUME IdentityInv, CallsInv, NEW t \in live, open[t] # <<>>, open' = Closed(t), spans' = spans,
           \/ answered' = answered /\ streams' = streams
           \/ answered' = answered \cup {Current(t).span} /\ streams' = streams
           \/ answered' = answered /\ streams' = streams \cup {Current(t)} /\ Current(t).kind = "model"
    PROVE  Unanswered'
  <1> DEFINE c == Current(t)
             k == Len(open[t])
  <1>1. t \in Tasks /\ k \in 1 .. Len(open[t]) /\ c = open[t][k]
    <2>1. k \in Nat \ {0}
        BY ReturnedCalls
    <2> QED BY <2>1, ReturnedCalls
  <1>2. c.span \in 1 .. spans /\ (c.kind = "model" => c.scope = c.span /\ c.span \notin answered)
        /\ \A d \in streams : d.span # c.span
      BY <1>1 DEF CallsInv, Numbered, Unanswered
  <1>3. \A u \in Tasks : \A n \in 1 .. Len(open'[u]) :
          n \in 1 .. Len(open[u]) /\ open'[u][n] = open[u][n] /\ open[u][n].span # c.span
      BY ReturnedCalls
  <1> HIDE DEF c
  <1>4. answered' \subseteq 1 .. spans
      BY <1>2 DEF CallsInv, Unanswered, c
  <1>5. ASSUME NEW u \in Tasks, NEW n \in 1 .. Len(open'[u])
        PROVE  /\ open'[u][n].kind = "model" => open'[u][n].span \notin answered'
               /\ \A d \in streams' : open'[u][n].span # d.span
    <2>1. n \in 1 .. Len(open[u]) /\ open'[u][n] = open[u][n] /\ open[u][n].span # c.span
        BY <1>3
    <2>2. open[u][n].kind = "model" => open[u][n].span \notin answered
        BY <2>1 DEF CallsInv, Unanswered
    <2>3. \A d \in streams : open[u][n].span # d.span
        BY <2>1 DEF CallsInv, Unanswered
    <2> QED BY <2>1, <2>2, <2>3 DEF c
  <1>6. ASSUME NEW d \in streams'
        PROVE  d.scope = d.span /\ d.span \in (1 .. spans) \ answered' /\ \A e \in streams' : d.span = e.span => d = e
    <2>1. \A e \in streams : /\ e.scope = e.span /\ e.span \in (1 .. spans) \ answered
                             /\ \A g \in streams : e.span = g.span => e = g
        BY DEF CallsInv, Unanswered
    <2> QED BY <1>2, <2>1 DEF c
  <1> QED BY <1>4, <1>5, <1>6 DEF Unanswered

\* What it was charged is its own, or its entry is another's.
LEMMA ReturnsSoundly ==
    ASSUME IdentityInv, CallsInv, Sound, NEW t \in live, open[t] # <<>>, open' = Closed(t),
           disputed \subseteq disputed', ungoverned' \subseteq disputed',
           \/ UNCHANGED <<charges, answered>>
           \/ /\ Current(t).kind = "model" /\ answered' = answered \cup {Current(t).span}
              /\ \E s : /\ charges' = [charges EXCEPT ![s] = @ + 1]
                        /\ s = Current(t).span \/ {s, Current(t).span} \subseteq disputed'
           \/ /\ UNCHANGED charges /\ answered' = answered \cup {Current(t).span}
              /\ Current(t).span \in disputed'
    PROVE  Sound'
  <1> DEFINE c == Current(t)
             k == Len(open[t])
  <1>1. t \in Tasks /\ k \in 1 .. Len(open[t]) /\ c = open[t][k]
    <2>1. k \in Nat \ {0}
        BY ReturnedCalls
    <2> QED BY <2>1, ReturnedCalls
  <1>2. c.kind = "model" => c.span \notin answered
      BY <1>1 DEF CallsInv, Unanswered
  <1>3. charges \in [Spans -> Nat]
      BY DEF CallsInv, CallsTypeOK
  <1>4. \A u \in Tasks : \A n \in 1 .. Len(open'[u]) : n \in 1 .. Len(open[u]) /\ open'[u][n] = open[u][n]
      BY ReturnedCalls
  <1>5. ASSUME NEW u \in Tasks, NEW n \in 1 .. Len(open'[u]), open'[u][n].span \notin disputed'
        PROVE  open'[u][n].who = open'[u][n].asserted
      BY <1>4, <1>5 DEF Sound
  <1> HIDE DEF c
  <1>6. ASSUME NEW s \in Spans \ disputed'
        PROVE  charges'[s] = IF s \in answered' THEN 1 ELSE 0
    <2>1. s \in Spans \ disputed /\ charges[s] = IF s \in answered THEN 1 ELSE 0
        BY DEF Sound, ChargedToItsTurn
    <2>2. CASE UNCHANGED <<charges, answered>>
        BY <2>1, <2>2
    <2>3. CASE UNCHANGED charges /\ answered' = answered \cup {c.span} /\ c.span \in disputed'
        BY <2>1, <2>3
    <2>4. ASSUME NEW r, charges' = [charges EXCEPT ![r] = @ + 1], answered' = answered \cup {c.span},
                 c.kind = "model", r = c.span \/ {r, c.span} \subseteq disputed'
          PROVE  charges'[s] = IF s \in answered' THEN 1 ELSE 0
      <3>1. CASE s = r
          BY <1>2, <1>3, <2>1, <2>4, <3>1
      <3>2. CASE s # r
          BY <1>3, <2>1, <2>4, <3>2
      <3> QED BY <3>1, <3>2
    <2> QED BY <2>2, <2>3, <2>4 DEF c
  <1> QED BY <1>5, <1>6 DEF Sound, ChargedToItsTurn

-----------------------------------------------------------------------------
\* The scopes of the calls.
LEMMA ScopesOpen ==
    ASSUME IdentityInv, CallsInv, ScopeInv, NEW t \in live, NEW c, IsNext(t, c), NEW allowed,
           Opens(t, c, allowed), UNCHANGED <<within, saturated, listed>>,
           c.found = ctx[t].framework, ~Runs("langgraph") /\ c.kind = "model" => c.framework = None,
           \A u \in Tasks : ctx'[u].framework =
              IF u = t /\ allowed /\ c.framework # None THEN c.framework ELSE ctx[u].framework
    PROVE  ScopeInv'
  <1>1. t \in Tasks /\ open \in [Tasks -> Seq(Captured)] /\ program' = program /\ live' = live
      BY DEF IdentityInv, IdentityTypeOK, CallsInv, CallsTypeOK, Opens
  <1>2. ASSUME ~Runs("governor"), NEW u \in Tasks
        PROVE  /\ ctx'[u].framework = InsideOf(u)'
               /\ u \notin live => within'[u] = None
               /\ \A n \in 1 .. Len(open'[u]) :
                    /\ open'[u][n].framework # None => open'[u][n].found = Inside(open'[u], n - 1, within'[u])
                    /\ ~Runs("langgraph") /\ open'[u][n].kind = "model" => open'[u][n].framework = None
    <2> DEFINE calls == open[u]
               after == open'[u]
               k == Len(calls)
               out == within[u]
    <2>1. /\ ctx[u].framework = Inside(calls, k, out) /\ (u \notin live => out = None) /\ within' = within
          /\ \A n \in 1 .. k :
               /\ calls[n].framework # None => calls[n].found = Inside(calls, n - 1, out)
               /\ ~Runs("langgraph") /\ calls[n].kind = "model" => calls[n].framework = None
        BY <1>2 DEF ScopeInv, ScopesNest, InsideOf
    <2>2. /\ k \in Nat /\ Len(after) \in k .. k + 1
          /\ \A n \in 1 .. k : after[n] = calls[n]
          /\ Len(after) # k => u = t /\ allowed /\ Len(after) = k + 1 /\ after[k + 1] = c
        BY OpenedCalls
    <2>4. u = t /\ allowed => Len(after) = k + 1
      <3> SUFFICES ASSUME u = t, allowed PROVE Len(after) = k + 1
          OBVIOUS
      <3>1. open' = [open EXCEPT ![t] = Append(@, c)] /\ c \in Captured
          BY DEF Opens, IsNext
      <3>2. after = Append(calls, c)
          BY <1>1, <3>1
      <3> QED BY <1>1, <3>1, <3>2, AppendProperties
    <2>5. InsideOf(u)' = Inside(after, Len(after), out)
        BY <2>1 DEF InsideOf
    <2> HIDE DEF calls, after, k, out
    <2>3. \/ Len(after) = k
          \/ u = t /\ allowed /\ Len(after) = k + 1 /\ after[k + 1] = c
        BY <2>2
    <2>6. ASSUME NEW n \in 0 .. k PROVE Inside(after, n, out) = Inside(calls, n, out)
      <3>1. n \in Nat /\ \A i \in 1 .. n : after[i] = calls[i]
          BY <2>2
      <3> QED BY <3>1, InsideOfSame
    <2>7. ctx'[u].framework = Inside(after, Len(after), out)
      <3>1. CASE u = t /\ allowed
        <4>1. Len(after) = k + 1 /\ after[k + 1] = c
            BY <2>2, <2>4, <3>1
        <4>2. Inside(after, k + 1, out) =
                IF after[k + 1].framework # None THEN after[k + 1].framework ELSE Inside(after, k, out)
            BY <2>2, InsideStep
        <4>3. Inside(after, k, out) = ctx[u].framework
            BY <2>1, <2>2, <2>6
        <4> QED BY <3>1, <4>1, <4>2, <4>3
      <3>2. CASE ~(u = t /\ allowed)
        <4>1. Len(after) = k
            BY <2>3, <3>2
        <4> QED BY <2>1, <2>2, <2>6, <3>2, <4>1
      <3> QED BY <3>1, <3>2
    <2>8. ASSUME NEW n \in 1 .. Len(after)
          PROVE  /\ after[n].framework # None => after[n].found = Inside(after, n - 1, out)
                 /\ ~Runs("langgraph") /\ after[n].kind = "model" => after[n].framework = None
      <3>1. CASE n \in 1 .. k
        <4>1. n - 1 \in 0 .. k
            BY <2>2, <3>1
        <4> QED BY <2>1, <2>2, <2>6, <3>1, <4>1
      <3>2. CASE n \notin 1 .. k
        <4>1. u = t /\ n = k + 1 /\ after[n] = c /\ n - 1 = k /\ k \in 0 .. k
            BY <2>2, <2>3, <3>2
        <4>2. Inside(after, n - 1, out) = ctx[u].framework
            BY <2>1, <2>6, <4>1
        <4> QED BY <4>1, <4>2
      <3> QED BY <3>1, <3>2
    <2> QED BY <2>1, <2>5, <2>7, <2>8 DEF after, out
  <1>3. within' \in [Tasks -> Frameworks \cup {None}] /\ ListsAreKept'
      BY DEF ScopeInv, ListsAreKept
  <1>4. ScopesNest'
      BY <1>1, <1>2 DEF ScopesNest, Runs
  <1> QED BY <1>3, <1>4 DEF ScopeInv

LEMMA ScopesClose ==
    ASSUME IdentityInv, CallsInv, ScopeInv, NEW t \in live, open[t] # <<>>, open' = Closed(t),
           UNCHANGED <<program, live, within, saturated, listed>>,
           \A u \in Tasks : ctx'[u].framework =
              IF u = t /\ Current(t).framework # None THEN Current(t).found ELSE ctx[u].framework
    PROVE  ScopeInv'
  <1>1. ASSUME ~Runs("governor"), NEW u \in Tasks
        PROVE  /\ ctx'[u].framework = InsideOf(u)'
               /\ u \notin live => within'[u] = None
               /\ \A n \in 1 .. Len(open'[u]) :
                    /\ open'[u][n].framework # None => open'[u][n].found = Inside(open'[u], n - 1, within'[u])
                    /\ ~Runs("langgraph") /\ open'[u][n].kind = "model" => open'[u][n].framework = None
    <2> DEFINE calls == open[u]
               after == open'[u]
               k == Len(calls)
               out == within[u]
    <2>1. /\ ctx[u].framework = Inside(calls, k, out) /\ (u \notin live => out = None) /\ within' = within
          /\ \A n \in 1 .. k :
               /\ calls[n].framework # None => calls[n].found = Inside(calls, n - 1, out)
               /\ ~Runs("langgraph") /\ calls[n].kind = "model" => calls[n].framework = None
        BY <1>1 DEF ScopeInv, ScopesNest, InsideOf
    <2>2. /\ k \in Nat /\ Len(after) \in 0 .. k
          /\ \A n \in 1 .. Len(after) : after[n] = calls[n]
        BY ReturnedCalls
    <2>3. \/ u # t /\ after = calls
          \/ u = t /\ k > 0 /\ Len(after) = k - 1 /\ Current(t) = calls[k]
        BY ReturnedCalls
    <2>4. InsideOf(u)' = Inside(after, Len(after), out)
        BY <2>1 DEF InsideOf
    <2> HIDE DEF calls, after, k, out
    <2>5. ASSUME NEW n \in 0 .. Len(after) PROVE Inside(after, n, out) = Inside(calls, n, out)
      <3>1. n \in Nat /\ \A i \in 1 .. n : after[i] = calls[i]
          BY <2>2
      <3> QED BY <3>1, InsideOfSame
    <2>6. ctx'[u].framework = Inside(after, Len(after), out)
      <3>1. CASE u = t
        <4>1. k - 1 \in Nat /\ k - 1 + 1 = k /\ Len(after) = k - 1 /\ Current(t) = calls[k] /\ k \in 1 .. k
            BY <2>2, <2>3, <3>1
        <4>2. Inside(calls, k - 1 + 1, out) =
                IF calls[k - 1 + 1].framework # None THEN calls[k - 1 + 1].framework ELSE Inside(calls, k - 1, out)
            BY <4>1, InsideStep
        <4>3. Inside(after, k - 1, out) = Inside(calls, k - 1, out)
            BY <2>5, <4>1
        <4> QED BY <2>1, <3>1, <4>1, <4>2, <4>3
      <3>2. CASE u # t
          BY <2>1, <2>2, <2>3, <3>2 DEF k
      <3> QED BY <3>1, <3>2
    <2>7. ASSUME NEW n \in 1 .. Len(after)
          PROVE  /\ after[n].framework # None => after[n].found = Inside(after, n - 1, out)
                 /\ ~Runs("langgraph") /\ after[n].kind = "model" => after[n].framework = None
      <3>1. n - 1 \in 0 .. Len(after) /\ n \in 1 .. k
          BY <2>2
      <3> QED BY <2>1, <2>2, <2>5, <3>1
    <2> QED BY <2>1, <2>4, <2>6, <2>7 DEF after, out
  <1>2. within' \in [Tasks -> Frameworks \cup {None}] /\ ListsAreKept'
      BY DEF ScopeInv, ListsAreKept
  <1>3. ScopesNest'
      BY <1>1 DEF ScopesNest, Runs
  <1> QED BY <1>2, <1>3 DEF ScopeInv

-----------------------------------------------------------------------------
CoreInv == IdentityInv /\ CallsInv /\ Sound /\ ScopeInv

\* Task t's context becomes x, which has another scope or turn at most.
Rebinds(t, x) ==
    /\ ctx' = [ctx EXCEPT ![t] = x]
    /\ x \in Contexts /\ x.user = ctx[t].user /\ x.agent = ctx[t].agent

LEMMA RebindsKeep ==
    ASSUME IdentityInv, NEW t \in live, NEW x, Rebinds(t, x), UNCHANGED <<program, live, blocks, store>>
    PROVE  IdentityInv' /\ \A u \in Tasks : ctx'[u].framework = IF u = t THEN x.framework ELSE ctx[u].framework
  <1>1. t \in Tasks /\ ctx \in [Tasks -> Contexts]
      BY DEF IdentityInv, IdentityTypeOK
  <1>2. ctx' \in [Tasks -> Contexts] /\ ctx'[t] = x /\ \A u \in Tasks \ {t} : ctx'[u] = ctx[u]
      BY <1>1 DEF Rebinds
  <1>3. KeepsIdentity
      BY <1>2 DEF KeepsIdentity, Rebinds
  <1> QED BY <1>2, <1>3, IdentityKept

LEMMA CallStarts ==
    ASSUME CoreInv, NEW t \in live, NEW c, IsNext(t, c), NEW allowed, Opens(t, c, allowed),
           UNCHANGED <<store, within, saturated, listed>>,
           c.found = ctx[t].framework, ~Runs("langgraph") /\ c.kind = "model" => c.framework = None,
           NEW x, Rebinds(t, x),
           x.framework = IF allowed /\ c.framework # None THEN c.framework ELSE ctx[t].framework,
           correlations' \in [Invocations -> Captured \cup {None}],
           disputed \subseteq disputed', c.span \notin disputed' => c.who = c.asserted
    PROVE  CoreInv'
  <1>1. IdentityInv /\ CallsInv /\ Sound /\ ScopeInv
      BY DEF CoreInv
  <1>2. UNCHANGED <<program, live, blocks>>
      BY DEF Opens
  <1>3. IdentityInv' /\ \A u \in Tasks : ctx'[u].framework = IF u = t THEN x.framework ELSE ctx[u].framework
      BY <1>1, <1>2, RebindsKeep
  <1>4. CallsInv'
      BY <1>1, CallOpens
  <1>5. Sound'
      BY <1>1, OpensSoundly
  <1>6. ScopeInv'
      BY <1>1, <1>3, ScopesOpen
  <1> QED BY <1>3, <1>4, <1>5, <1>6 DEF CoreInv

\* What becomes of the usage of task t's innermost call: none, left to the
\* reader of its stream, charged, or lost with another's entry.
Accounts(t) ==
    \/ UNCHANGED <<charges, answered, streams>>
    \/ UNCHANGED <<charges, answered>> /\ streams' = streams \cup {Current(t)} /\ Current(t).kind = "model"
    \/ /\ UNCHANGED streams /\ answered' = answered \cup {Current(t).span} /\ Current(t).kind = "model"
       /\ \E s : /\ charges' = [charges EXCEPT ![s] = @ + 1]
                 /\ s = Current(t).span \/ {s, Current(t).span} \subseteq disputed'
    \/ /\ UNCHANGED <<streams, charges>> /\ answered' = answered \cup {Current(t).span}
       /\ Current(t).span \in disputed'

LEMMA CallEnds ==
    ASSUME CoreInv, NEW t \in live, Returns(t), Accounts(t),
           UNCHANGED <<program, store, within, saturated, listed>>,
           NEW x, Rebinds(t, x),
           x.framework = IF Current(t).framework # None THEN Current(t).found ELSE ctx[t].framework,
           correlations' \in [Invocations -> Captured \cup {None}],
           disputed \subseteq disputed', ungoverned' \subseteq disputed'
    PROVE  CoreInv'
  <1>1. IdentityInv /\ CallsInv /\ Sound /\ ScopeInv
      BY DEF CoreInv
  <1>2. UNCHANGED <<live, blocks, spans>> /\ open' = Closed(t) /\ open[t] # <<>>
      BY DEF Returns
  <1>3. IdentityInv' /\ \A u \in Tasks : ctx'[u].framework = IF u = t THEN x.framework ELSE ctx[u].framework
      BY <1>1, <1>2, RebindsKeep
  <1>4. charges' \in [Spans -> Nat] /\ streams' \subseteq Captured
    <2>1. charges \in [Spans -> Nat] /\ streams \subseteq Captured /\ Current(t) \in Captured
        BY <1>1, <1>2, ReturnedCalls DEF CallsInv, CallsTypeOK
    <2>2. ASSUME NEW s, charges' = [charges EXCEPT ![s] = @ + 1] PROVE charges' \in [Spans -> Nat]
      <3>1. \A r \in Spans : charges[r] + 1 \in Nat
          BY <2>1
      <3> QED BY <2>1, <2>2, <3>1
    <2> QED BY <2>1, <2>2 DEF Accounts
  <1>5. Unanswered'
      BY <1>1, <1>2, UnansweredReturns DEF Accounts
  <1>6. CallsInv'
      BY <1>1, <1>4, <1>5, ReturnsAreFewer, FewerCalls DEF CallsInv
  <1>7. Sound'
      BY <1>1, <1>2, ReturnsSoundly DEF Accounts
  <1>8. ScopeInv'
      BY <1>1, <1>2, <1>3, ScopesClose
  <1> QED BY <1>3, <1>6, <1>7, <1>8 DEF CoreInv

-----------------------------------------------------------------------------
\* A call as its start captures it.
LEMMA CallIsNext ==
    ASSUME CoreInv,
           NEW t \in live, NEW kind \in {"model", "tool"}, NEW who \in Judgements, NEW asserted \in Judgements,
           NEW tool \in Tools \cup {None}, NEW scope \in Nat, NEW framework \in Frameworks \cup {None},
           kind = "model" => scope = spans + 1
    PROVE  LET c == Call(t, kind, who, asserted, tool, scope, framework) IN
           /\ IsNext(t, c) /\ \A i \in Invocations : IsNext(t, [c EXCEPT !.invocation = i])
           /\ c.who = who /\ c.asserted = asserted /\ c.found = ctx[t].framework
           /\ c.kind = kind /\ c.framework = framework /\ c.tool = tool /\ c.scope = scope
           /\ c.span = spans + 1 /\ c.depth = Len(blocks[t])
  <1>1. IdentityInv /\ spans \in Nat /\ t \in Tasks
      BY DEF CoreInv, IdentityInv, IdentityTypeOK, CallsInv, CallsTypeOK
  <1>2. LET c == Call(t, kind, who, asserted, tool, scope, framework) IN
        c \in Captured /\ \A i \in Invocations : [c EXCEPT !.invocation = i] \in Captured
      BY <1>1, CallIsCaptured
  <1> QED BY <1>2 DEF Call, IsNext

\* Of a context, only the scope and the turn are ever changed by a call.
LEMMA ContextInScope ==
    ASSUME NEW x \in Contexts, NEW c \in Captured, NEW verdict
    PROVE  LET y == InScope(x, c, verdict) IN
           /\ y \in Contexts /\ y.user = x.user /\ y.agent = x.agent
           /\ y.framework = IF Allowed(verdict) /\ c.framework # None THEN c.framework ELSE x.framework
  <1> QED BY DEF InScope, WithFramework, Contexts, Captured

LEMMA ContextOutOfScope ==
    ASSUME NEW x \in Contexts, NEW c \in Captured
    PROVE  LET y == OutOfScope(x, c) IN
           /\ y \in Contexts /\ y.user = x.user /\ y.agent = x.agent
           /\ y.framework = IF c.framework # None THEN c.found ELSE x.framework
  <1> QED BY DEF OutOfScope, FrameworkRestored, Contexts, Captured

LEMMA ContextWithTurn ==
    ASSUME NEW x \in Contexts, NEW n \in Nat \cup {None}
    PROVE  LET y == [x EXCEPT !.turn = n] IN
           y \in Contexts /\ y.user = x.user /\ y.agent = x.agent /\ y.framework = x.framework
  <1> QED BY DEF Contexts

LEMMA CoreTypes ==
    ASSUME CoreInv, NEW t \in Tasks
    PROVE  /\ ctx[t] \in Contexts /\ ctx[t].turn \in Nat \cup {None} /\ spans \in Nat
           /\ live \subseteq Tasks
           /\ ctx[t].framework \in Frameworks \cup {None}
           /\ correlations \in [Invocations -> Captured \cup {None}]
           /\ ctx \in [Tasks -> Contexts] /\ ungoverned \subseteq disputed
  <1> QED BY DEF CoreInv, IdentityInv, IdentityTypeOK, CallsInv, CallsTypeOK, Contexts, Sound

\* A call that returns without a scope of its own leaves the context alone.
LEMMA CallsWithoutScope ==
    ASSUME CoreInv, ~Runs("langgraph"), ~Runs("governor"), NEW t \in live, Innermost(t, "model")
    PROVE  Current(t).framework = None
  <1>1. t \in Tasks /\ open[t] \in Seq(Captured) /\ open[t] # <<>>
      BY DEF CoreInv, IdentityInv, IdentityTypeOK, CallsInv, CallsTypeOK, Innermost
  <1>2. Len(open[t]) \in 1 .. Len(open[t]) /\ Current(t) = open[t][Len(open[t])]
    <2>1. Len(open[t]) \in Nat \ {0} /\ Last(open[t]) = open[t][Len(open[t])]
        BY <1>1, FrontProperties
    <2> QED BY <2>1 DEF Current
  <1> QED BY <1>1, <1>2 DEF CoreInv, ScopeInv, ScopesNest, Innermost

LEMMA CurrentIsCaptured ==
    ASSUME CoreInv, NEW t \in live, open[t] # <<>> PROVE Current(t) \in Captured
  <1>1. open[t] \in Seq(Captured)
      BY DEF CoreInv, IdentityInv, IdentityTypeOK, CallsInv, CallsTypeOK
  <1> QED BY <1>1, FrontProperties DEF Current

-----------------------------------------------------------------------------
\* The Microsoft Agent Framework.
LEMMA MafCallIsNext ==
    ASSUME CoreInv, NEW t \in live, NEW kind \in {"model", "tool"}, NEW given \in Given,
           NEW tool \in Tools \cup {None}, NEW scope \in Nat, NEW framework \in Frameworks \cup {None},
           kind = "model" => scope = spans + 1
    PROVE  LET c == MafCall(t, kind, given, tool, scope, framework) IN
           /\ IsNext(t, c) /\ c.who = c.asserted /\ c.found = ctx[t].framework
           /\ c.kind = kind /\ c.framework = framework
  <1>1. t \in Tasks /\ IdentityInv
      BY DEF CoreInv, IdentityInv, IdentityTypeOK
  <1> DEFINE who == Judged(t, EffectiveUser(t, given), EffectiveAgent(t, given), tool)
  <1>2. EffectiveUser(t, given) \in JudgedUsers /\ EffectiveAgent(t, given) \in Agents \cup {Nobody}
      BY <1>1, EffectiveTypes, NothingIsGiven, IdentitiesAreJudged
  <1>3. who \in Judgements
      BY <1>1, <1>2, JudgedIdentities
  <1>4. who = Asserted(t, SaidUser(t, given), SaidAgent(t, given), tool)
      BY <1>1, JudgedIsAsserted
  <1> HIDE DEF who
  <1>5. MafCall(t, kind, given, tool, scope, framework) = Call(t, kind, who, who, tool, scope, framework)
      BY <1>4 DEF MafCall, who
  <1> QED BY <1>3, <1>5, CallIsNext

LEMMA MafStarts ==
    ASSUME CoreInv, MafStep, NEW t \in Tasks, NEW given \in Given, NEW verdict,
           \/ \E clean \in BOOLEAN : MafModelStart(t, given, clean, verdict)
           \/ \E tool \in Tools : MafToolStart(t, tool, given, verdict)
    PROVE  CoreInv'
  <1>1. UNCHANGED <<program, saturated, listed, correlations, disputed>> /\ t \in live
      BY DEF MafStep, observationVars, adkVars, MafModelStart, MafToolStart, MayCall
  <1>2. ASSUME NEW clean \in BOOLEAN, MafModelStart(t, given, clean, verdict) PROVE CoreInv'
    <2> DEFINE c == MafCall(t, "model", given, None, spans + 1, None)
               x == [ctx[t] EXCEPT !.turn = spans + 1]
               allowed == Allowed(Scanned(clean, verdict))
    <2>1. spans + 1 \in Nat
        BY CoreTypes
    <2>2. /\ IsNext(t, c) /\ c.who = c.asserted /\ c.found = ctx[t].framework /\ c.framework = None
        BY <1>1, <2>1, MafCallIsNext
    <2>3. Rebinds(t, x) /\ x.framework = ctx[t].framework
      <3>1. ctx' = [ctx EXCEPT ![t] = x]
          BY <1>2 DEF MafModelStart
      <3> QED BY <2>1, <3>1, CoreTypes, ContextWithTurn DEF Rebinds
    <2>4. Opens(t, c, allowed) /\ UNCHANGED <<store, within>>
        BY <1>1, <1>2 DEF MafModelStart, Opens, Opened
    <2> HIDE DEF c, x, allowed
    <2> QED BY <1>1, <2>2, <2>3, <2>4, CallStarts, CoreTypes
  <1>3. ASSUME NEW tool \in Tools, MafToolStart(t, tool, given, verdict) PROVE CoreInv'
    <2> DEFINE c == MafCall(t, "tool", given, tool, MafScope(t), "maf")
               x == InScope(ctx[t], c, verdict)
               allowed == Allowed(verdict)
    <2>1. MafScope(t) \in Nat /\ "maf" \in Frameworks \cup {None} /\ tool \in Tools \cup {None} /\ "tool" # "model"
        BY CoreTypes DEF MafScope, Frameworks
    <2>2. /\ IsNext(t, c) /\ c.who = c.asserted /\ c.found = ctx[t].framework /\ c.kind = "tool"
        BY <1>1, <2>1, MafCallIsNext
    <2>3. Rebinds(t, x) /\ x.framework = IF allowed /\ c.framework # None THEN c.framework ELSE ctx[t].framework
      <3>1. ctx' = [ctx EXCEPT ![t] = x]
          BY <1>3 DEF MafToolStart
      <3>2. c \in Captured
          BY <2>2 DEF IsNext
      <3> HIDE DEF c
      <3> QED BY <3>1, <3>2, CoreTypes, ContextInScope DEF Rebinds
    <2>4. Opens(t, c, allowed) /\ UNCHANGED <<store, within>>
        BY <1>1, <1>3 DEF MafToolStart, Opens, Opened
    <2> HIDE DEF c, x, allowed
    <2> QED BY <1>1, <2>2, <2>3, <2>4, CallStarts, CoreTypes
  <1> QED BY <1>2, <1>3

LEMMA MafEnds ==
    ASSUME CoreInv, MafStep, NEW t \in Tasks,
           \/ MafModelFails(t) \/ MafStreamReturns(t) \/ MafToolRaises(t)
           \/ \E v \in Verdicts : \/ MafToolFinish(t, v)
                                  \/ \E g \in Scores, j \in Scores : MafModelFinish(t, g, j, v)
    PROVE  CoreInv'
  <1> DEFINE c == Current(t)
  <1>1. UNCHANGED <<program, saturated, listed, correlations, disputed>> /\ Runs("maf")
      BY DEF MafStep, observationVars, adkVars
  <1>2. ~Runs("langgraph") /\ ~Runs("governor")
      BY <1>1 DEF Runs
  <1>3. ASSUME NEW k \in {"model", "tool"}, Innermost(t, k) PROVE t \in live /\ c \in Captured /\ open[t] # <<>> /\ c.kind = k
      BY <1>3, CurrentIsCaptured DEF Innermost
  <1>4. ASSUME NEW v \in Verdicts, Deliver(c, v, c.who) PROVE ungoverned' = ungoverned
      BY <1>4 DEF Deliver, Passes
  <1>5. ASSUME MafModelFails(t) \/ MafStreamReturns(t)
                 \/ \E v \in Verdicts, g \in Scores, j \in Scores : MafModelFinish(t, g, j, v)
        PROVE  CoreInv'
    <2>1. Innermost(t, "model")
        BY <1>5 DEF MafModelFails, MafStreamReturns, MafModelFinish
    <2>2. /\ open' = Closed(t) /\ UNCHANGED <<identityVars, spans, within>>
        BY <1>5 DEF MafModelFails, MafStreamReturns, MafModelFinish
    <2>3. c.scope = c.span
      <3>1. t \in Tasks /\ Len(open[t]) \in 1 .. Len(open[t]) /\ c = open[t][Len(open[t])]
          BY <1>3, <2>1, <2>2, ReturnedCalls DEF CoreInv
      <3> QED BY <1>3, <2>1, <3>1 DEF CoreInv, CallsInv, Numbered
    <2>4. Accounts(t) /\ ungoverned' = ungoverned
      <3>1. CASE MafModelFails(t) \/ MafStreamReturns(t)
          BY <1>3, <2>1, <3>1 DEF MafModelFails, MafStreamReturns, Accounts
      <3>2. ASSUME NEW v \in Verdicts, NEW g \in Scores, NEW j \in Scores, MafModelFinish(t, g, j, v)
            PROVE  Accounts(t) /\ ungoverned' = ungoverned
        <4>1. (IF Scored(g, j) THEN v ELSE "deny") \in Verdicts
            BY DEF Verdicts
        <4>2. ungoverned' = ungoverned
            BY <1>4, <3>2, <4>1 DEF MafModelFinish
        <4>3. charges' = [charges EXCEPT ![c.scope] = @ + 1] /\ answered' = answered \cup {c.span} /\ UNCHANGED streams
            BY <3>2 DEF MafModelFinish, Charge
        <4> QED BY <1>3, <2>1, <2>3, <4>2, <4>3 DEF Accounts
      <3> QED BY <1>5, <3>1, <3>2
    <2>5. Returns(t) /\ UNCHANGED store
        BY <1>3, <2>1, <2>2 DEF Returns, Innermost, identityVars
    <2>6. Rebinds(t, ctx[t]) /\ c.framework = None
        BY <1>2, <1>3, <2>1, <2>2, CoreTypes, CallsWithoutScope DEF Rebinds, identityVars
    <2> QED BY <1>1, <1>3, <2>1, <2>2, <2>4, <2>5, <2>6, CallEnds, CoreTypes
  <1>6. ASSUME MafToolRaises(t) \/ \E v \in Verdicts : MafToolFinish(t, v)
        PROVE  CoreInv'
    <2> DEFINE x == OutOfScope(ctx[t], c)
    <2>1. Innermost(t, "tool") /\ open' = Closed(t) /\ ctx' = [ctx EXCEPT ![t] = x]
          /\ UNCHANGED <<live, blocks, store, spans, within, charges, answered, streams>>
        BY <1>6 DEF MafToolRaises, MafToolFinish
    <2>2. ungoverned' = ungoverned
        BY <1>4, <1>6 DEF MafToolRaises, MafToolFinish
    <2>3. Rebinds(t, x) /\ x.framework = IF c.framework # None THEN c.found ELSE ctx[t].framework
        BY <1>3, <2>1, CoreTypes, ContextOutOfScope DEF Rebinds
    <2>4. Returns(t) /\ Accounts(t)
        BY <1>3, <2>1 DEF Returns, Innermost, Accounts
    <2> HIDE DEF x
    <2> QED BY <1>1, <1>3, <2>1, <2>2, <2>3, <2>4, CallEnds, CoreTypes
  <1> QED BY <1>5, <1>6

\* A stream is charged to its own turn, in whatever task it is read.
LEMMA MafStreams ==
    ASSUME CoreInv, MafStep, NEW c \in streams, MafStreamDropped(c) \/ \E t \in Tasks : MafStreamFinalizes(t, c)
    PROVE  CoreInv'
  <1>1. UNCHANGED <<program, saturated, listed, correlations, disputed>>
      BY DEF MafStep, observationVars, adkVars
  <1>2. /\ UNCHANGED <<identityVars, spans, open, within, ungoverned>> /\ streams' = streams \ {c}
        /\ \/ UNCHANGED <<charges, answered>>
           \/ charges' = [charges EXCEPT ![c.scope] = @ + 1] /\ answered' = answered \cup {c.span}
      BY DEF MafStreamDropped, MafStreamFinalizes, StreamScope, Charge
  <1>3. /\ answered \subseteq 1 .. spans
        /\ \A t \in Tasks : \A n \in 1 .. Len(open[t]) :
             /\ open[t][n].kind = "model" => open[t][n].span \notin answered
             /\ open[t][n].span # c.span
        /\ \A d \in streams :
             /\ d.scope = d.span /\ d.span \in (1 .. spans) \ answered
             /\ \A t \in Tasks : \A n \in 1 .. Len(open[t]) : open[t][n].span # d.span
             /\ \A e \in streams : d.span = e.span => d = e
      BY DEF CoreInv, CallsInv, Unanswered
  <1>4. Unanswered'
    <2>1. UNCHANGED <<open, spans>> /\ c.span \in 1 .. spans
        BY <1>2, <1>3
    <2>2. answered' = answered \/ answered' = answered \cup {c.span}
        BY <1>2
    <2>3. answered' \subseteq 1 .. spans
        BY <1>3, <2>1, <2>2
    <2>4. \A t \in Tasks : \A n \in 1 .. Len(open[t]) : open[t][n].kind = "model" => open[t][n].span \notin answered'
        BY <1>3, <2>2
    <2>5. ASSUME NEW d \in streams'
          PROVE  /\ d.scope = d.span /\ d.span \in (1 .. spans) \ answered'
                 /\ \A t \in Tasks : \A n \in 1 .. Len(open[t]) : open[t][n].span # d.span
                 /\ \A e \in streams' : d.span = e.span => d = e
      <3>1. d \in streams /\ d # c /\ streams' \subseteq streams
          BY <1>2
      <3>2. d.span # c.span
          BY <1>3, <3>1
      <3> QED BY <1>3, <2>2, <3>1, <3>2
    <2> QED BY <2>1, <2>3, <2>4, <2>5 DEF Unanswered
  <1>5. charges' \in [Spans -> Nat]
    <2>1. charges \in [Spans -> Nat]
        BY DEF CoreInv, CallsInv, CallsTypeOK
    <2>2. \A r \in Spans : charges[r] + 1 \in Nat
        BY <2>1
    <2> QED BY <1>2, <2>1, <2>2
  <1>6. CallsInv'
    <2>1. CallsTypeOK'
        BY <1>1, <1>2, <1>5 DEF CoreInv, CallsInv, CallsTypeOK, identityVars
    <2>2. Nested' /\ Numbered'
        BY <1>2 DEF CoreInv, CallsInv, Nested, Numbered, identityVars
    <2> QED BY <1>4, <2>1, <2>2 DEF CallsInv
  <1>7. Sound'
    <2>1. ASSUME NEW s \in Spans \ disputed PROVE charges'[s] = IF s \in answered' THEN 1 ELSE 0
      <3>1. charges[s] = (IF s \in answered THEN 1 ELSE 0) /\ charges \in [Spans -> Nat]
          BY DEF CoreInv, CallsInv, CallsTypeOK, Sound, ChargedToItsTurn
      <3>2. c.scope = c.span /\ c.span \notin answered
          BY <1>3
      <3>3. CASE s = c.span
          BY <1>2, <3>1, <3>2, <3>3
      <3>4. CASE s # c.span
          BY <1>2, <3>1, <3>2, <3>4
      <3> QED BY <3>3, <3>4
    <2> QED BY <1>1, <1>2, <2>1 DEF CoreInv, Sound, ChargedToItsTurn
  <1>8. IdentityInv' /\ ScopeInv'
    <2>1. IdentityInv'
        BY <1>1, <1>2, IdentityUntouched DEF CoreInv
    <2>2. ScopeInv'
        BY <1>1, <1>2 DEF CoreInv, ScopeInv, ScopesNest, ListsAreKept, InsideOf, Runs, identityVars
    <2> QED BY <2>1, <2>2
  <1> QED BY <1>6, <1>7, <1>8 DEF CoreInv

LEMMA MafSteps == ASSUME CoreInv, MafStep PROVE CoreInv'
  <1>1. Explicit \subseteq Given
      BY GivenAssumption DEF Explicit
  <1>2. \/ \E t \in Tasks, e \in Given, v \in Verdicts :
             \/ \E clean \in BOOLEAN : MafModelStart(t, e, clean, v)
             \/ \E tool \in Tools : MafToolStart(t, tool, e, v)
        \/ \E t \in Tasks : \/ MafModelFails(t) \/ MafStreamReturns(t) \/ MafToolRaises(t)
                            \/ \E v \in Verdicts : \/ MafToolFinish(t, v)
                                                   \/ \E g \in Scores, j \in Scores : MafModelFinish(t, g, j, v)
        \/ \E c \in streams : MafStreamDropped(c) \/ \E t \in Tasks : MafStreamFinalizes(t, c)
      BY <1>1 DEF MafStep
  <1> QED BY <1>2, MafStarts, MafEnds, MafStreams

-----------------------------------------------------------------------------
\* LangGraph.
LEMMA LgCallIsNext ==
    ASSUME CoreInv, NEW t \in live, NEW kind \in {"model", "tool"}, NEW tool \in Tools \cup {None}, NEW scope \in Nat,
           kind = "model" => scope = spans + 1
    PROVE  LET c == LgCall(t, kind, tool, scope) IN
           /\ IsNext(t, c) /\ c.who = c.asserted /\ c.found = ctx[t].framework /\ c.kind = kind
  <1>1. t \in Tasks /\ IdentityInv /\ "langgraph" \in Frameworks \cup {None}
      BY DEF CoreInv, IdentityInv, IdentityTypeOK, Frameworks
  <1> DEFINE who == Judged(t, EffectiveUser(t, NothingGiven), EffectiveAgent(t, NothingGiven), tool)
  <1>2. /\ EffectiveUser(t, NothingGiven) \in JudgedUsers
        /\ EffectiveAgent(t, NothingGiven) \in Agents \cup {Nobody}
      BY <1>1, EffectiveTypes, NothingIsGiven, IdentitiesAreJudged
  <1>3. who \in Judgements
      BY <1>1, <1>2, JudgedIdentities
  <1>4. who = Asserted(t, SaidUser(t, NothingGiven), SaidAgent(t, NothingGiven), tool)
      BY <1>1, JudgedIsAsserted
  <1> HIDE DEF who
  <1>5. LgCall(t, kind, tool, scope) = Call(t, kind, who, who, tool, scope, "langgraph")
      BY <1>4 DEF LgCall, who
  <1> QED BY <1>1, <1>3, <1>5, CallIsNext

LEMMA LgStarts ==
    ASSUME CoreInv, LangGraphStep, NEW t \in Tasks, NEW verdict,
           LgModelStart(t, verdict) \/ \E tool \in Tools : LgToolStart(t, tool, verdict)
    PROVE  CoreInv'
  <1>1. UNCHANGED <<program, saturated, listed, correlations, disputed, streams>> /\ t \in live /\ Runs("langgraph")
      BY DEF LangGraphStep, observationVars, adkVars, mafVars, LgModelStart, LgToolStart, MayCall
  <1> DEFINE allowed == Allowed(verdict)
  <1>2. ASSUME LgModelStart(t, verdict) PROVE CoreInv'
    <2> DEFINE c == LgCall(t, "model", None, spans + 1)
               y == InScope(ctx[t], c, verdict)
               x == [y EXCEPT !.turn = spans + 1]
    <2>1. spans + 1 \in Nat
        BY CoreTypes
    <2>2. /\ IsNext(t, c) /\ c.who = c.asserted /\ c.found = ctx[t].framework /\ c.kind = "model"
        BY <1>1, <2>1, LgCallIsNext
    <2>3. c \in Captured
        BY <2>2 DEF IsNext
    <2>4. ctx' = [ctx EXCEPT ![t] = x] /\ Opens(t, c, allowed) /\ UNCHANGED <<store, within>>
        BY <1>1, <1>2 DEF LgModelStart, Opens, Opened
    <2> HIDE DEF c
    <2>5. /\ y \in Contexts /\ y.user = ctx[t].user /\ y.agent = ctx[t].agent
          /\ y.framework = IF allowed /\ c.framework # None THEN c.framework ELSE ctx[t].framework
        BY <2>3, CoreTypes, ContextInScope
    <2> HIDE DEF y
    <2>6. x \in Contexts /\ x.user = y.user /\ x.agent = y.agent /\ x.framework = y.framework
        BY <2>1, <2>5, ContextWithTurn
    <2> HIDE DEF x
    <2>7. Rebinds(t, x)
        BY <2>4, <2>5, <2>6 DEF Rebinds
    <2> HIDE DEF allowed
    <2> QED BY <1>1, <2>2, <2>4, <2>5, <2>6, <2>7, CallStarts, CoreTypes
  <1>3. ASSUME NEW tool \in Tools, LgToolStart(t, tool, verdict) PROVE CoreInv'
    <2> DEFINE scope == IF ctx[t].turn # None THEN ctx[t].turn ELSE spans + 1
               c == LgCall(t, "tool", tool, scope)
               x == InScope(ctx[t], c, verdict)
    <2>1. scope \in Nat /\ tool \in Tools \cup {None} /\ "tool" # "model"
        BY CoreTypes
    <2>2. ctx' = [ctx EXCEPT ![t] = x] /\ Opens(t, c, allowed) /\ UNCHANGED <<store, within>>
        BY <1>1, <1>3 DEF LgToolStart, Opens, Opened
    <2> HIDE DEF scope
    <2>3. /\ IsNext(t, c) /\ c.who = c.asserted /\ c.found = ctx[t].framework /\ c.kind = "tool"
        BY <1>1, <2>1, LgCallIsNext
    <2>4. c \in Captured
        BY <2>3 DEF IsNext
    <2> HIDE DEF c
    <2>5. Rebinds(t, x) /\ x.framework = IF allowed /\ c.framework # None THEN c.framework ELSE ctx[t].framework
        BY <2>2, <2>4, CoreTypes, ContextInScope DEF Rebinds
    <2> HIDE DEF x, allowed
    <2> QED BY <1>1, <2>2, <2>3, <2>5, CallStarts, CoreTypes
  <1> QED BY <1>2, <1>3

LEMMA LgEnds ==
    ASSUME CoreInv, LangGraphStep, NEW t \in Tasks,
           LgReturns(t) \/ \E v \in Verdicts, usage \in BOOLEAN : LgModelFinish(t, usage, v)
    PROVE  CoreInv'
  <1> DEFINE c == Current(t)
             x == OutOfScope(ctx[t], c)
  <1>1. UNCHANGED <<program, saturated, listed, correlations, disputed, streams>> /\ Runs("langgraph")
      BY DEF LangGraphStep, observationVars, adkVars, mafVars
  <1>2. t \in live /\ open[t] # <<>> /\ Len(blocks[t]) = c.depth
      BY DEF LgReturns, LgModelFinish, Innermost
  <1>3. open' = Closed(t) /\ ctx' = [ctx EXCEPT ![t] = x] /\ UNCHANGED <<live, blocks, store, spans, within>>
      BY DEF LgReturns, LgModelFinish
  <1>4. c \in Captured
      BY <1>2, CurrentIsCaptured
  <1>5. Accounts(t) /\ ungoverned' = ungoverned
    <2>1. CASE LgReturns(t)
        BY <1>1, <2>1 DEF LgReturns, Accounts
    <2>2. ASSUME NEW v \in Verdicts, NEW usage \in BOOLEAN, LgModelFinish(t, usage, v)
          PROVE  Accounts(t) /\ ungoverned' = ungoverned
      <3>1. c.kind = "model"
          BY <2>2 DEF LgModelFinish, Innermost
      <3>2. c.scope = c.span
        <4>1. t \in Tasks /\ Len(open[t]) \in Nat \ {0} /\ c = open[t][Len(open[t])]
            BY <1>2, <1>3, ReturnedCalls DEF CoreInv
        <4>2. Len(open[t]) \in 1 .. Len(open[t])
            BY <4>1
        <4> QED BY <3>1, <4>1, <4>2 DEF CoreInv, CallsInv, Numbered
      <3>3. ungoverned' = ungoverned
          BY <2>2 DEF LgModelFinish, Deliver, LgVerdict, Passes
      <3>4. \/ charges' = [charges EXCEPT ![c.scope] = @ + 1] /\ answered' = answered \cup {c.span}
            \/ UNCHANGED <<charges, answered>>
          BY <2>2 DEF LgModelFinish, Charge
      <3> QED BY <1>1, <3>1, <3>2, <3>3, <3>4 DEF Accounts
    <2> QED BY <2>1, <2>2
  <1>6. Returns(t)
      BY <1>2, <1>3 DEF Returns
  <1> HIDE DEF c
  <1>7. Rebinds(t, x) /\ x.framework = IF c.framework # None THEN c.found ELSE ctx[t].framework
      BY <1>3, <1>4, CoreTypes, ContextOutOfScope DEF Rebinds
  <1> HIDE DEF x
  <1>8. ungoverned' \subseteq disputed' /\ correlations' \in [Invocations -> Captured \cup {None}]
      BY <1>1, <1>5, CoreTypes
  <1> QED BY <1>1, <1>2, <1>3, <1>5, <1>6, <1>7, <1>8, CallEnds DEF c

\* Calls, blocks and lists are as they were, and so is every scope.
LEMMA CoreKept ==
    ASSUME CoreInv, KeepsIdentity, UNCHANGED <<callVars, streams, correlations, disputed, saturated, listed>>,
           \A t \in Tasks : ctx'[t].framework = ctx[t].framework
    PROVE  CoreInv'
  <1>1. UNCHANGED <<program, live, blocks, spans, open, within, charges, answered, ungoverned>>
      BY DEF callVars, KeepsIdentity
  <1>2. IdentityInv'
      BY IdentityKept DEF CoreInv
  <1>3. CallsInv'
      BY <1>1 DEF CoreInv, CallsInv, CallsTypeOK, Nested, Numbered, Unanswered
  <1>4. Sound'
      BY <1>1 DEF CoreInv, Sound, ChargedToItsTurn
  <1>5. ScopeInv'
      BY <1>1 DEF CoreInv, ScopeInv, ScopesNest, ListsAreKept, InsideOf, Runs
  <1> QED BY <1>2, <1>3, <1>4, <1>5 DEF CoreInv

LEMMA LgSteps == ASSUME CoreInv, LangGraphStep PROVE CoreInv'
  <1>1. ASSUME NEW t \in Tasks, LgAfterAgent(t) PROVE CoreInv'
    <2> DEFINE x == [ctx[t] EXCEPT !.turn = None]
    <2>1. ctx' = [ctx EXCEPT ![t] = x] /\ UNCHANGED <<live, blocks, store, callVars>>
        BY <1>1 DEF LgAfterAgent
    <2>2. UNCHANGED <<program, saturated, listed, correlations, disputed, streams>>
        BY DEF LangGraphStep, observationVars, adkVars, mafVars
    <2>3. x \in Contexts /\ x.user = ctx[t].user /\ x.agent = ctx[t].agent /\ x.framework = ctx[t].framework
        BY CoreTypes, ContextWithTurn
    <2> HIDE DEF x
    <2>4. /\ ctx' \in [Tasks -> Contexts]
          /\ \A u \in Tasks : /\ ctx'[u].user = ctx[u].user /\ ctx'[u].agent = ctx[u].agent
                              /\ ctx'[u].framework = ctx[u].framework
        BY <2>1, <2>3, CoreTypes
    <2> QED BY <2>1, <2>2, <2>4, CoreKept DEF KeepsIdentity
  <1> QED BY <1>1, LgStarts, LgEnds DEF LangGraphStep

-----------------------------------------------------------------------------
\* ADK.  No call starts, no block that a call started in ends, and an entry
\* is only taken out where the calls left of its invocation are disputed.
LEMMA AdkKeeps ==
    ASSUME AdkInv, UNCHANGED program, disputed \subseteq disputed',
           \A u \in Tasks : \A n \in 1 .. Len(open'[u]) :
             /\ n \in 1 .. Len(open[u]) /\ open'[u][n] = open[u][n]
             /\ \A half \in {"user", "agent"} :
                  Said(blocks'[u], open[u][n].depth, half) = Said(blocks[u], open[u][n].depth, half),
           Runs("adk") => \A i \in Invocations :
             \/ correlations'[i] = correlations[i]
             \/ /\ correlations'[i] = None
                /\ \A u \in Tasks : \A n \in 1 .. Len(open'[u]) :
                     open'[u][n].kind = "model" /\ open'[u][n].invocation = i => open'[u][n].span \in disputed'
    PROVE  AdkInv'
  <1> SUFFICES ASSUME Runs("adk") PROVE AdkInv'
      BY DEF AdkInv, Runs
  <1>1. ASSUME NEW i \in Invocations, correlations'[i] # None
        PROVE  correlations'[i].scope = correlations'[i].span
      BY <1>1 DEF AdkInv
  <1>2. ASSUME NEW u \in Tasks, NEW n \in 1 .. Len(open'[u])
        PROVE  AsStarted(open'[u][n], n, blocks'[u], correlations', disputed')
    <2> DEFINE c == open[u][n]
    <2>1. n \in 1 .. Len(open[u]) /\ open'[u][n] = c
        BY <1>2
    <2>2. AsStarted(c, n, blocks[u], correlations, disputed)
        BY <2>1 DEF AdkInv
    <2>3. \/ correlations'[c.invocation] = correlations[c.invocation]
          \/ correlations'[c.invocation] = None /\ (c.kind = "model" => c.span \in disputed')
        BY <1>2, <2>1, <2>2 DEF AsStarted
    <2>4. JudgedAt(blocks'[u], c.depth, c.tool) = JudgedAt(blocks[u], c.depth, c.tool)
        BY <1>2 DEF JudgedAt
    <2> HIDE DEF c
    <2>5. AsStarted(c, n, blocks'[u], correlations', disputed')
      <3>1. c.kind = "model" =>
              \/ correlations'[c.invocation] = c
              \/ /\ c.span \in disputed'
                 /\ correlations'[c.invocation] # None => correlations'[c.invocation].span \in disputed'
        <4>1. CASE correlations'[c.invocation] = correlations[c.invocation]
            BY <2>2, <4>1 DEF AsStarted
        <4>2. CASE correlations'[c.invocation] = None /\ (c.kind = "model" => c.span \in disputed')
            BY <4>2
        <4> QED BY <2>3, <4>1, <4>2
      <3>2. c.kind = "tool" => n = 1 /\ (c.span \notin disputed' => c.who = JudgedAt(blocks'[u], c.depth, c.tool))
          BY <2>2, <2>4 DEF AsStarted
      <3> QED BY <2>2, <3>1, <3>2 DEF AsStarted
    <2> QED BY <2>1, <2>5
  <1>3. ASSUME NEW u \in Tasks, NEW v \in Tasks, NEW n \in 1 .. Len(open'[u]), NEW m \in 1 .. Len(open'[v]),
               open'[u][n].kind = "model", open'[v][m].kind = "model",
               open'[u][n].invocation = open'[v][m].invocation, u # v \/ n # m
        PROVE  open'[u][n].span \in disputed'
    <2>1. /\ n \in 1 .. Len(open[u]) /\ open'[u][n] = open[u][n]
          /\ m \in 1 .. Len(open[v]) /\ open'[v][m] = open[v][m]
        OBVIOUS
    <2>2. open[u][n].span \in disputed
        BY <1>3, <2>1 DEF AdkInv
    <2> QED BY <2>1, <2>2
  <1> QED BY <1>1, <1>2, <1>3 DEF AdkInv

LEMMA AdkReturns ==
    ASSUME CoreInv, AdkInv, NEW t \in live, Returns(t), UNCHANGED program, disputed \subseteq disputed',
           Runs("adk") => \A i \in Invocations :
             \/ correlations'[i] = correlations[i]
             \/ /\ correlations'[i] = None
                /\ \A u \in Tasks : \A n \in 1 .. Len(open'[u]) :
                     open'[u][n].kind = "model" /\ open'[u][n].invocation = i => open'[u][n].span \in disputed'
    PROVE  AdkInv'
  <1>1. /\ UNCHANGED blocks
        /\ \A u \in Tasks : \A n \in 1 .. Len(open'[u]) : n \in 1 .. Len(open[u]) /\ open'[u][n] = open[u][n]
      BY ReturnedCalls DEF Returns, CoreInv
  <1> QED BY <1>1, AdkKeeps

\* What ADK judges by the context is what the blocks say.
LEMMA AdkJudgedIsAsserted ==
    ASSUME CoreInv, NEW t \in live, NEW tool \in Tools \cup {None}
    PROVE  /\ AdkJudged(t, tool) \in Judgements
           /\ AdkJudged(t, tool) =
                Asserted(t, OrSessionUser(SaidUser(t, NothingGiven)), SaidAgent(t, NothingGiven), tool)
           /\ AdkJudged(t, tool) = JudgedAt(blocks[t], Len(blocks[t]), tool)
  <1> DEFINE user == EffectiveUser(t, NothingGiven)
             agent == EffectiveAgent(t, NothingGiven)
  <1>1. t \in Tasks /\ IdentityInv
      BY DEF CoreInv, IdentityInv, IdentityTypeOK
  <1>2. ctx[t].user = SaidBy(t, "user") /\ ctx[t].agent = SaidBy(t, "agent")
      BY <1>1 DEF IdentityInv, SaysWhatBlocksSay
  <1>3. user \in Identities /\ agent \in Agents \cup {Nobody}
      BY <1>1, EffectiveTypes, NothingIsGiven
  <1>4. user = SaidUser(t, NothingGiven) /\ agent = SaidAgent(t, NothingGiven)
      BY <1>1, JudgedIsAsserted
  <1>5. user = OfUser(ctx[t].user)
    <2>1. user = [claims |-> OfUser(ctx[t].user).claims, roles |-> OfUser(ctx[t].user).roles]
        BY DEF EffectiveUser, Fallback, NothingGiven
    <2>2. OfUser(ctx[t].user) \in Identities
        BY <1>1 DEF IdentityInv, IdentityTypeOK, Contexts, OfUser, Unknown, Identities
    <2> QED BY <2>1, <2>2 DEF Identities
  <1>6. agent = FallbackAgent(ctx[t].agent, NothingGiven)
      BY DEF EffectiveAgent
  <1> HIDE DEF user, agent
  <1>7. OrSessionUser(user) \in JudgedUsers
      BY <1>3 DEF OrSessionUser, Identities, JudgedUsers
  <1>8. AdkJudged(t, tool) = Judged(t, OrSessionUser(user), agent, tool)
      BY DEF AdkJudged, user, agent
  <1>9. AdkJudged(t, tool) \in Judgements
      BY <1>1, <1>3, <1>7, <1>8, JudgedIdentities
  <1>10. AdkJudged(t, tool) =
           Asserted(t, OrSessionUser(SaidUser(t, NothingGiven)), SaidAgent(t, NothingGiven), tool)
      BY <1>1, <1>4, <1>8, JudgedIsAsserted
  <1>11. AdkJudged(t, tool) = JudgedAt(blocks[t], Len(blocks[t]), tool)
      BY <1>2, <1>5, <1>6, <1>8 DEF Judged, JudgedAt, EffectivePrincipal, SaidBy
  <1> QED BY <1>9, <1>10, <1>11

LEMMA AdkCallIsNext ==
    ASSUME CoreInv, NEW t \in live, NEW i \in Invocations, NEW kind \in {"model", "tool"}, NEW who \in Judgements,
           NEW tool \in Tools \cup {None}, NEW scope \in Nat, NEW framework \in Frameworks \cup {None},
           kind = "model" => scope = spans + 1
    PROVE  LET c == AdkCall(t, i, kind, who, tool, scope, framework) IN
           /\ IsNext(t, c) /\ c.who = who /\ c.asserted = AdkJudged(t, tool) /\ c.found = ctx[t].framework
           /\ c.kind = kind /\ c.framework = framework /\ c.tool = tool /\ c.scope = scope /\ c.invocation = i
           /\ c.span = spans + 1 /\ c.depth = Len(blocks[t])
  <1> DEFINE asserted == AdkJudged(t, tool)
             call == Call(t, kind, who, asserted, tool, scope, framework)
             c == AdkCall(t, i, kind, who, tool, scope, framework)
  <1>1. asserted \in Judgements /\ c = [call EXCEPT !.invocation = i]
      BY AdkJudgedIsAsserted DEF AdkCall
  <1> HIDE DEF asserted
  <1>2. /\ IsNext(t, [call EXCEPT !.invocation = i]) /\ IsNext(t, call)
        /\ call.who = who /\ call.asserted = asserted /\ call.found = ctx[t].framework
        /\ call.kind = kind /\ call.framework = framework /\ call.tool = tool /\ call.scope = scope
        /\ call.span = spans + 1 /\ call.depth = Len(blocks[t])
      BY <1>1, CallIsNext
  <1> HIDE DEF call
  <1>3. call \in Captured
      BY <1>2 DEF IsNext
  <1> QED BY <1>1, <1>2, <1>3 DEF Captured, asserted

-----------------------------------------------------------------------------
LEMMA AdkModelStarts ==
    ASSUME CoreInv, AdkInv, AdkStep, NEW t \in Tasks, NEW i \in Invocations, NEW clean \in BOOLEAN, NEW verdict,
           AdkModelStart(t, i, clean, verdict)
    PROVE  CoreInv' /\ AdkInv'
  <1> DEFINE c == AdkCall(t, i, "model", AdkJudged(t, None), None, spans + 1, None)
             allowed == Allowed(Scanned(clean, verdict))
  <1>1. /\ UNCHANGED <<program, saturated, listed, streams, identityVars, within>> /\ t \in live /\ Runs("adk")
        /\ correlations' = [correlations EXCEPT ![i] = IF allowed THEN c ELSE None]
        /\ disputed' = IF Running(i) = {} THEN disputed
                       ELSE disputed \cup {d.span : d \in Running(i) \cup {c}}
      BY DEF AdkStep, observationVars, mafVars, AdkModelStart, MayCall
  <1>2. Opens(t, c, allowed)
      BY <1>1 DEF AdkModelStart, Opens, Opened, identityVars
  <1>3. /\ IsNext(t, c) /\ c.who = c.asserted /\ c.found = ctx[t].framework /\ c.framework = None
        /\ c.scope = c.span /\ c.invocation = i /\ c.kind = "model" /\ c \in Captured
    <2>1. spans + 1 \in Nat /\ None \in Tools \cup {None} /\ None \in Frameworks \cup {None} /\ AdkJudged(t, None) \in Judgements
        BY <1>1, CoreTypes, AdkJudgedIsAsserted
    <2> DEFINE who == AdkJudged(t, None)
    <2> HIDE DEF who
    <2>2. LET d == AdkCall(t, i, "model", who, None, spans + 1, None) IN
          /\ IsNext(t, d) /\ d.who = who /\ d.asserted = AdkJudged(t, None) /\ d.found = ctx[t].framework
          /\ d.kind = "model" /\ d.framework = None /\ d.scope = spans + 1 /\ d.invocation = i /\ d.span = spans + 1
        BY <1>1, <2>1, AdkCallIsNext DEF who
    <2> QED BY <2>2 DEF who, IsNext
  <1> HIDE DEF c, allowed
  <1>4. disputed \subseteq disputed' /\ correlations' \in [Invocations -> Captured \cup {None}]
        /\ correlations \in [Invocations -> Captured \cup {None}]
      BY <1>1, <1>3, CoreTypes
  <1>5. CoreInv'
    <2>1. Rebinds(t, ctx[t]) /\ UNCHANGED store
        BY <1>1, CoreTypes DEF Rebinds, identityVars
    <2> QED BY <1>1, <1>2, <1>3, <1>4, <2>1, CallStarts
  <1>6. ASSUME NEW u \in Tasks, NEW n \in 1 .. Len(open'[u])
        PROVE  \/ n \in 1 .. Len(open[u]) /\ open'[u][n] = open[u][n]
               \/ u = t /\ allowed /\ n = Len(open[u]) + 1 /\ open'[u][n] = c
    <2>1. IdentityInv /\ CallsInv
        BY DEF CoreInv
    <2>2. /\ Len(open[u]) \in Nat /\ Len(open'[u]) \in Len(open[u]) .. Len(open[u]) + 1
          /\ \A k \in 1 .. Len(open[u]) : open'[u][k] = open[u][k]
          /\ Len(open'[u]) # Len(open[u]) =>
               u = t /\ allowed /\ Len(open'[u]) = Len(open[u]) + 1 /\ open'[u][Len(open[u]) + 1] = c
        BY <1>1, <1>2, <1>3, <2>1, OpenedCalls
    <2> QED BY <2>2
  \* The calls of the invocation that were running are disputed from now on, and this one too.
  <1>7. ASSUME NEW u \in Tasks, NEW n \in 1 .. Len(open[u]), open[u][n].kind = "model", open[u][n].invocation = i
        PROVE  open[u][n].span \in disputed' /\ c.span \in disputed'
    <2>1. open[u][n] \in OpenCalls
      <3>1. DOMAIN open[u] = 1 .. Len(open[u])
          BY LenProperties DEF CoreInv, CallsInv, CallsTypeOK
      <3> QED BY <3>1 DEF OpenCalls, ToSet
    <2>2. open[u][n] \in Running(i)
        BY <1>7, <2>1 DEF Running
    <2> QED BY <1>1, <2>2
  <1>8. AdkInv'
    <2>1. ASSUME NEW j \in Invocations, correlations'[j] # None
          PROVE  correlations'[j].scope = correlations'[j].span
      <3>1. CASE j = i
          BY <1>1, <1>3, <1>4, <2>1, <3>1
      <3>2. CASE j # i
          BY <1>1, <1>4, <2>1, <3>2 DEF AdkInv
      <3> QED BY <3>1, <3>2
    <2>2. ASSUME NEW u \in Tasks, NEW n \in 1 .. Len(open'[u])
          PROVE  AsStarted(open'[u][n], n, blocks'[u], correlations', disputed')
      <3>1. CASE n \in 1 .. Len(open[u]) /\ open'[u][n] = open[u][n]
        <4> DEFINE d == open[u][n]
        <4>1. AsStarted(d, n, blocks[u], correlations, disputed) /\ blocks' = blocks
            BY <1>1, <3>1 DEF AdkInv, identityVars
        <4>2. d.kind = "model" /\ d.invocation = i =>
                /\ d.span \in disputed' /\ c.span \in disputed'
                /\ correlations'[i] = None \/ correlations'[i] = c
            BY <1>1, <1>4, <1>7, <3>1
        <4>3. d.invocation # i => correlations'[d.invocation] = correlations[d.invocation]
            BY <1>1, <1>4, <4>1 DEF AsStarted
        <4> HIDE DEF d
        <4>4. d.kind = "model" =>
                \/ correlations'[d.invocation] = d
                \/ /\ d.span \in disputed'
                   /\ correlations'[d.invocation] # None => correlations'[d.invocation].span \in disputed'
          <5>1. CASE d.invocation = i
              BY <4>2, <5>1
          <5>2. CASE d.invocation # i
              BY <1>4, <4>1, <4>3, <5>2 DEF AsStarted
          <5> QED BY <5>1, <5>2
        <4>5. AsStarted(d, n, blocks'[u], correlations', disputed')
            BY <1>4, <4>1, <4>4 DEF AsStarted
        <4> QED BY <3>1, <4>5 DEF d
      <3>2. CASE open'[u][n] = c /\ allowed
        <4>1. correlations'[i] = c
            BY <1>1, <1>4, <3>2
        <4> QED BY <1>3, <3>2, <4>1 DEF AsStarted
      <3> QED BY <1>6, <3>1, <3>2
    <2>3. ASSUME NEW u \in Tasks, NEW v \in Tasks, NEW n \in 1 .. Len(open'[u]), NEW m \in 1 .. Len(open'[v]),
                 open'[u][n].kind = "model", open'[v][m].kind = "model",
                 open'[u][n].invocation = open'[v][m].invocation, u # v \/ n # m
          PROVE  open'[u][n].span \in disputed'
      <3>1. CASE n \in 1 .. Len(open[u]) /\ open'[u][n] = open[u][n]
        <4>1. CASE m \in 1 .. Len(open[v]) /\ open'[v][m] = open[v][m]
            BY <1>1, <1>4, <2>3, <3>1, <4>1 DEF AdkInv
        <4>2. CASE open'[v][m] = c
            BY <1>3, <1>7, <2>3, <3>1, <4>2
        <4> QED BY <1>6, <4>1, <4>2
      <3>2. CASE u = t /\ n = Len(open[u]) + 1 /\ open'[u][n] = c
        <4>1. CASE m \in 1 .. Len(open[v]) /\ open'[v][m] = open[v][m]
            BY <1>3, <1>7, <2>3, <3>2, <4>1
        <4>2. CASE v = t /\ m = Len(open[v]) + 1
            BY <2>3, <3>2, <4>2
        <4> QED BY <1>6, <4>1, <4>2
      <3> QED BY <1>6, <3>1, <3>2
    <2> QED BY <2>1, <2>2, <2>3 DEF AdkInv
  <1> QED BY <1>5, <1>8

LEMMA CurrentCall ==
    ASSUME CoreInv, NEW t \in live, open[t] # <<>>
    PROVE  /\ t \in Tasks /\ Len(open[t]) \in 1 .. Len(open[t]) /\ Current(t) = open[t][Len(open[t])]
           /\ Current(t) \in Captured
           /\ Current(t).kind = "model" => Current(t).scope = Current(t).span
  <1>1. t \in Tasks /\ open[t] \in Seq(Captured)
      BY DEF CoreInv, IdentityInv, IdentityTypeOK, CallsInv, CallsTypeOK
  <1>2. Len(open[t]) \in Nat \ {0} /\ Last(open[t]) = open[t][Len(open[t])] /\ Last(open[t]) \in Captured
      BY <1>1, FrontProperties
  <1>3. Len(open[t]) \in 1 .. Len(open[t]) /\ Current(t) = open[t][Len(open[t])] /\ Current(t) \in Captured
      BY <1>2 DEF Current
  <1> QED BY <1>1, <1>3 DEF CoreInv, CallsInv, Numbered

\* What the entry a model call finds at its end says is its own, or both are disputed.
LEMMA AdkModelEnds ==
    ASSUME CoreInv, AdkInv, AdkStep, NEW t \in Tasks,
           AdkModelFails(t) \/ \E v \in Verdicts : AdkModelFinish(t, v)
    PROVE  CoreInv' /\ AdkInv'
  <1> DEFINE c == Current(t)
             entry == correlations[c.invocation]
  <1>1. /\ UNCHANGED <<program, saturated, listed, streams, identityVars, spans, within, disputed>>
        /\ Runs("adk") /\ open' = Closed(t)
        /\ t \in live /\ open[t] # <<>> /\ c.kind = "model" /\ Len(blocks[t]) = c.depth /\ Innermost(t, "model")
      BY DEF AdkStep, observationVars, mafVars, adkVars, AdkModelFails, AdkModelFinish, Innermost
  <1>2. ~Runs("langgraph") /\ ~Runs("governor")
      BY <1>1 DEF Runs
  <1>3. c \in Captured /\ c.scope = c.span /\ AsStarted(c, Len(open[t]), blocks[t], correlations, disputed)
      BY <1>1, CurrentCall DEF AdkInv
  <1>4. correlations \in [Invocations -> Captured \cup {None}] /\ c.invocation \in Invocations /\ ungoverned \subseteq disputed
      BY <1>1, <1>3, CoreTypes DEF AsStarted
  <1>5. /\ c # None
        /\ \/ entry = c
           \/ c.span \in disputed /\ (entry # None => entry.scope \in disputed)
    <2>1. entry # None => entry.scope = entry.span
        BY <1>1, <1>4 DEF AdkInv
    <2> QED BY <1>1, <1>3, <2>1, CapturedAssumption DEF AsStarted
  <1>6. Returns(t) /\ UNCHANGED store
      BY <1>1 DEF Returns, identityVars
  <1>7. Rebinds(t, ctx[t]) /\ c.framework = None
      BY <1>1, <1>2, CoreTypes, CallsWithoutScope DEF Rebinds, identityVars
  <1>8. /\ Accounts(t) /\ ungoverned' \subseteq disputed
        /\ correlations' = correlations \/ correlations' = [correlations EXCEPT ![c.invocation] = None]
    <2>1. CASE AdkModelFails(t)
        BY <1>1, <1>4, <2>1 DEF AdkModelFails, Accounts, adkVars
    <2>2. ASSUME NEW v \in Verdicts, AdkModelFinish(t, v)
          PROVE  /\ Accounts(t) /\ ungoverned' \subseteq disputed
                 /\ correlations' = [correlations EXCEPT ![c.invocation] = None]
      <3>1. /\ answered' = answered \cup {c.span} /\ correlations' = [correlations EXCEPT ![c.invocation] = None]
            /\ \/ entry # None /\ charges' = [charges EXCEPT ![entry.scope] = @ + 1] /\ Deliver(c, v, entry.who)
               \/ entry = None /\ ungoverned' = ungoverned \cup {c.span} /\ UNCHANGED charges
          BY <2>2 DEF AdkModelFinish, Charge, Unjudged
      <3>2. entry = c => (Deliver(c, v, entry.who) => ungoverned' = ungoverned)
          BY DEF Deliver, Passes
      <3>3. Deliver(c, v, entry.who) => ungoverned' \subseteq ungoverned \cup {c.span}
          BY DEF Deliver
      <3>4. ungoverned' \subseteq disputed
          BY <1>4, <1>5, <3>1, <3>2, <3>3
      <3>5. Accounts(t)
        <4>1. CASE entry = None
            BY <1>1, <1>5, <3>1, <4>1 DEF Accounts
        <4>2. CASE entry # None
          <5>1. \/ entry.scope = c.span
                \/ {entry.scope, c.span} \subseteq disputed'
              BY <1>1, <1>3, <1>5, <4>2
          <5>2. charges' = [charges EXCEPT ![entry.scope] = @ + 1]
              BY <3>1, <4>2
          <5> QED BY <1>1, <3>1, <5>1, <5>2 DEF Accounts
        <4> QED BY <4>1, <4>2
      <3> QED BY <3>1, <3>4, <3>5
    <2> QED BY <2>1, <2>2
  <1>9. correlations' \in [Invocations -> Captured \cup {None}]
      BY <1>4, <1>8
  <1>10. CoreInv'
      BY <1>1, <1>6, <1>7, <1>8, <1>9, CallEnds
  <1>11. AdkInv'
    <2>1. ASSUME NEW i \in Invocations, correlations'[i] # correlations[i]
          PROVE  /\ correlations'[i] = None
                 /\ \A u \in Tasks : \A n \in 1 .. Len(open'[u]) :
                      open'[u][n].kind = "model" /\ open'[u][n].invocation = i => open'[u][n].span \in disputed'
      <3>1. i = c.invocation /\ correlations'[i] = None
          BY <1>4, <1>8, <2>1
      <3>2. ASSUME NEW u \in Tasks, NEW n \in 1 .. Len(open'[u]),
                   open'[u][n].kind = "model", open'[u][n].invocation = i
            PROVE  open'[u][n].span \in disputed'
        <4>1. n \in 1 .. Len(open[u]) /\ open'[u][n] = open[u][n] /\ open[u][n].span # c.span
            BY <1>1, ReturnedCalls DEF CoreInv
        <4>2. /\ Len(open[t]) \in 1 .. Len(open[t]) /\ c = open[t][Len(open[t])]
            BY <1>1, CurrentCall
        <4>3. u # t \/ n # Len(open[t])
            BY <4>1, <4>2
        <4> QED BY <1>1, <3>1, <3>2, <4>1, <4>2, <4>3 DEF AdkInv
      <3> QED BY <3>1, <3>2
    <2> QED BY <1>1, <1>6, <2>1, AdkReturns
  <1> QED BY <1>10, <1>11

-----------------------------------------------------------------------------
LEMMA AdkToolStarts ==
    ASSUME CoreInv, AdkInv, AdkStep, NEW t \in Tasks, NEW i \in Invocations, NEW tool \in Tools, NEW verdict,
           AdkToolStart(t, i, tool, verdict)
    PROVE  CoreInv' /\ AdkInv'
  <1> DEFINE who == WhoOfTool(t, i, tool)
             scope == ScopeOfTool(i)
             c == AdkCall(t, i, "tool", who, tool, scope, "adk")
             x == InScope(ctx[t], c, verdict)
             allowed == Allowed(verdict)
  <1>1. /\ UNCHANGED <<program, saturated, listed, streams, blocks, live, store, within, correlations>>
        /\ t \in live /\ Runs("adk") /\ open[t] = <<>> /\ ctx' = [ctx EXCEPT ![t] = x]
        /\ disputed' = IF correlations[i] = None THEN disputed ELSE disputed \cup {spans + 1}
      BY DEF AdkStep, observationVars, mafVars, AdkToolStart, MayCall, Disputes
  <1>2. Opens(t, c, allowed)
      BY <1>1 DEF AdkToolStart, Opens, Opened
  <1>3. /\ correlations \in [Invocations -> Captured \cup {None}] /\ spans + 1 \in Nat
        /\ tool \in Tools \cup {None} /\ "adk" \in Frameworks \cup {None} /\ "tool" # "model"
      BY CoreTypes DEF Frameworks
  <1>4. who \in Judgements /\ scope \in Nat
    <2>1. CASE correlations[i] = None
        BY <1>1, <1>3, <2>1, AdkJudgedIsAsserted DEF WhoOfTool, ScopeOfTool
    <2>2. CASE correlations[i] # None
      <3>1. correlations[i] \in Captured
          BY <1>3, <2>2
      <3>2. correlations[i].who \in Judgements /\ correlations[i].scope \in Nat
          BY <3>1 DEF Captured
      <3>3. /\ correlations[i].who.user \in JudgedUsers
            /\ correlations[i].who.agent \in Agents \cup {Nobody}
            /\ correlations[i].who.principal \in Agents \cup {Caller}
          BY <3>2 DEF Judgements, JudgedUsers
      <3> QED BY <1>3, <2>2, <3>2, <3>3, IdentitiesOf DEF WhoOfTool, ScopeOfTool
    <2> QED BY <2>1, <2>2
  <1>5. correlations[i] = None =>
          who = AdkJudged(t, tool) /\ who = JudgedAt(blocks[t], Len(blocks[t]), tool)
      BY <1>1, <1>3, AdkJudgedIsAsserted DEF WhoOfTool
  <1> HIDE DEF who, scope
  <1>6. /\ IsNext(t, c) /\ c.who = who /\ c.asserted = AdkJudged(t, tool) /\ c.found = ctx[t].framework
        /\ c.kind = "tool" /\ c.tool = tool /\ c.invocation = i /\ c.span = spans + 1 /\ c.depth = Len(blocks[t])
        /\ c \in Captured
      BY <1>1, <1>3, <1>4, AdkCallIsNext DEF IsNext
  <1> HIDE DEF c
  <1>7. Rebinds(t, x) /\ x.framework = IF allowed /\ c.framework # None THEN c.framework ELSE ctx[t].framework
      BY <1>1, <1>6, CoreTypes, ContextInScope DEF Rebinds
  <1> HIDE DEF x, allowed
  <1>8. /\ disputed \subseteq disputed'
        /\ c.span \notin disputed' => correlations[i] = None
      BY <1>1, <1>6
  <1>9. CoreInv'
    <2>1. c.span \notin disputed' => c.who = c.asserted
        BY <1>5, <1>6, <1>8
    <2>2. correlations' \in [Invocations -> Captured \cup {None}]
        BY <1>1, <1>3
    <2>3. ~Runs("langgraph") /\ c.kind = "model" => c.framework = None
        BY <1>6
    <2> QED BY <1>1, <1>2, <1>6, <1>7, <1>8, <2>1, <2>2, <2>3, CallStarts
  <1>10. ASSUME NEW u \in Tasks, NEW n \in 1 .. Len(open'[u])
         PROVE  \/ n \in 1 .. Len(open[u]) /\ open'[u][n] = open[u][n]
                \/ u = t /\ n = 1 /\ open'[u][n] = c
    <2>1. IdentityInv /\ CallsInv
        BY DEF CoreInv
    <2>2. /\ Len(open[u]) \in Nat /\ Len(open'[u]) \in Len(open[u]) .. Len(open[u]) + 1
          /\ \A k \in 1 .. Len(open[u]) : open'[u][k] = open[u][k]
          /\ Len(open'[u]) # Len(open[u]) =>
               u = t /\ Len(open'[u]) = Len(open[u]) + 1 /\ open'[u][Len(open[u]) + 1] = c
        BY <1>1, <1>2, <1>6, <2>1, OpenedCalls
    <2>3. Len(open[t]) = 0
        BY <1>1
    <2> QED BY <2>2, <2>3
  <1>11. AdkInv'
    <2>1. \A j \in Invocations : correlations'[j] # None => correlations'[j].scope = correlations'[j].span
        BY <1>1 DEF AdkInv
    <2>2. ASSUME NEW u \in Tasks, NEW n \in 1 .. Len(open'[u])
          PROVE  AsStarted(open'[u][n], n, blocks'[u], correlations', disputed')
      <3>1. CASE n \in 1 .. Len(open[u]) /\ open'[u][n] = open[u][n]
        <4>1. AsStarted(open[u][n], n, blocks[u], correlations, disputed)
            BY <1>1, <3>1 DEF AdkInv
        <4> QED BY <1>1, <1>8, <3>1, <4>1 DEF AsStarted
      <3>2. CASE u = t /\ n = 1 /\ open'[u][n] = c
        <4>1. c.span \notin disputed' => c.who = JudgedAt(blocks'[u], c.depth, c.tool)
            BY <1>1, <1>5, <1>6, <1>8, <3>2
        <4> QED BY <1>6, <3>2, <4>1 DEF AsStarted
      <3> QED BY <1>10, <3>1, <3>2
    <2>3. ASSUME NEW u \in Tasks, NEW v \in Tasks, NEW n \in 1 .. Len(open'[u]), NEW m \in 1 .. Len(open'[v]),
                 open'[u][n].kind = "model", open'[v][m].kind = "model",
                 open'[u][n].invocation = open'[v][m].invocation, u # v \/ n # m
          PROVE  open'[u][n].span \in disputed'
      <3>1. /\ n \in 1 .. Len(open[u]) /\ open'[u][n] = open[u][n]
            /\ m \in 1 .. Len(open[v]) /\ open'[v][m] = open[v][m]
          BY <1>6, <1>10, <2>3
      <3>2. open[u][n].span \in disputed
          BY <1>1, <2>3, <3>1 DEF AdkInv
      <3> QED BY <1>8, <3>1, <3>2
    <2> QED BY <2>1, <2>2, <2>3 DEF AdkInv
  <1> QED BY <1>9, <1>11

LEMMA AdkToolFinishes ==
    ASSUME CoreInv, AdkInv, AdkStep, NEW t \in Tasks, NEW v \in Verdicts, AdkToolFinish(t, v)
    PROVE  CoreInv' /\ AdkInv'
  <1> DEFINE c == Current(t)
             i == c.invocation
             x == OutOfScope(ctx[t], c)
  <1>1. /\ UNCHANGED <<program, saturated, listed, streams, blocks, live, store, spans, within, correlations,
                       charges, answered>>
        /\ Runs("adk") /\ open' = Closed(t) /\ ctx' = [ctx EXCEPT ![t] = x]
        /\ t \in live /\ open[t] # <<>> /\ c.kind = "tool" /\ Len(blocks[t]) = c.depth
        /\ disputed' = IF correlations[i] = None THEN disputed ELSE disputed \cup {c.span}
        /\ Deliver(c, v, WhoOfTool(t, i, c.tool))
      BY DEF AdkStep, observationVars, mafVars, AdkToolFinish, Innermost, Disputes
  <1>2. c \in Captured /\ AsStarted(c, Len(open[t]), blocks[t], correlations, disputed)
      BY <1>1, CurrentCall DEF AdkInv
  <1>3. correlations \in [Invocations -> Captured \cup {None}] /\ ungoverned \subseteq disputed /\ disputed \subseteq disputed'
      BY <1>1, CoreTypes
  <1>4. ungoverned' \subseteq disputed'
    <2>1. CASE c.span \in disputed'
        BY <1>1, <1>3, <2>1 DEF Deliver
    <2>2. CASE c.span \notin disputed'
      <3>1. correlations[i] = None /\ c.span \notin disputed
          BY <1>1, <1>3, <2>2
      <3>2. c.who = JudgedAt(blocks[t], c.depth, c.tool) /\ c.tool \in Tools \cup {None}
          BY <1>1, <1>2, <3>1 DEF AsStarted, Captured
      <3>3. WhoOfTool(t, i, c.tool) = c.who
          BY <1>1, <3>1, <3>2, AdkJudgedIsAsserted DEF WhoOfTool
      <3>4. ungoverned' = ungoverned
          BY <1>1, <3>3 DEF Deliver, Passes
      <3> QED BY <1>3, <3>4
    <2> QED BY <2>1, <2>2
  <1>5. Returns(t) /\ Accounts(t)
      BY <1>1 DEF Returns, Accounts
  <1>6. AdkInv'
      BY <1>1, <1>3, <1>5, AdkReturns
  <1> HIDE DEF c
  <1>7. Rebinds(t, x) /\ x.framework = IF c.framework # None THEN c.found ELSE ctx[t].framework
      BY <1>1, <1>2, CoreTypes, ContextOutOfScope DEF Rebinds
  <1> HIDE DEF x
  <1>8. CoreInv'
      BY <1>1, <1>3, <1>4, <1>5, <1>7, CallEnds DEF c
  <1> QED BY <1>6, <1>8

\* The task of a tool call that raises ends with it.
LEMMA AdkToolRaisesEnd ==
    ASSUME CoreInv, AdkInv, AdkStep, NEW t \in Tasks, AdkToolRaises(t)
    PROVE  CoreInv' /\ AdkInv'
  <1> DEFINE c == Current(t)
  <1>1. /\ UNCHANGED <<program, saturated, listed, streams, store, spans, correlations, disputed,
                       charges, answered, ungoverned>>
        /\ Runs("adk") /\ open' = Closed(t) /\ EndTask(t) /\ within' = [within EXCEPT ![t] = None]
        /\ t \in live /\ open[t] # <<>> /\ c.kind = "tool"
      BY DEF AdkStep, observationVars, mafVars, adkVars, AdkToolRaises, Innermost, EndTask
  <1>2. AsStarted(c, Len(open[t]), blocks[t], correlations, disputed)
      BY <1>1, CurrentCall DEF AdkInv
  <1>3. /\ open' \in [Tasks -> Seq(Captured)] /\ open'[t] = <<>>
        /\ \A u \in Tasks \ {t} : open'[u] = open[u]
        /\ \A u \in Tasks : /\ Len(open'[u]) \in 0 .. Len(open[u])
                            /\ \A n \in 1 .. Len(open'[u]) : n \in 1 .. Len(open[u]) /\ open'[u][n] = open[u][n]
    <2>1. /\ open' \in [Tasks -> Seq(Captured)] /\ Len(open'[t]) = Len(open[t]) - 1
          /\ \A u \in Tasks \ {t} : open'[u] = open[u]
          /\ \A u \in Tasks : /\ Len(open'[u]) \in 0 .. Len(open[u])
                              /\ \A n \in 1 .. Len(open'[u]) : n \in 1 .. Len(open[u]) /\ open'[u][n] = open[u][n]
        BY <1>1, ReturnedCalls DEF CoreInv
    <2>2. Len(open[t]) = 1
        BY <1>1, <1>2 DEF AsStarted
    <2>3. open'[t] = <<>>
        BY <2>1, <2>2, EmptySeq
    <2> QED BY <2>1, <2>3
  <1>4. /\ ctx' = [ctx EXCEPT ![t] = NoContext] /\ blocks' = [blocks EXCEPT ![t] = <<>>] /\ live' = live \ {t}
        /\ \A u \in Tasks \ {t} : blocks'[u] = blocks[u]
      BY <1>1 DEF EndTask, CoreInv, IdentityInv, IdentityTypeOK
  <1>5. IdentityInv'
      BY <1>1, TaskEnds DEF CoreInv
  <1>6. CallsInv'
    <2>1. ASSUME NEW u \in Tasks, open'[u] # <<>>
          PROVE  \E more \in Nat : Len(blocks'[u]) = open[u][Len(open'[u])].depth + more
      <3> DEFINE d == open[u][Len(open[u])].depth
                 b == Len(blocks[u])
      <3>1. u # t /\ open'[u] = open[u] /\ open[u] \in Seq(Captured) /\ blocks'[u] = blocks[u] /\ open[u] # <<>>
          BY <1>3, <1>4, <2>1
      <3>2. Len(open[u]) \in 1 .. Len(open[u]) /\ open[u][Len(open[u])] \in Captured
        <4>1. Len(open[u]) \in Nat \ {0}
            BY <3>1, EmptySeq
        <4> QED BY <3>1, <4>1, ElementOfSeq
      <3>3. b \in Nat /\ d \in Nat /\ d <= b
          BY <3>2, LenProperties DEF CoreInv, CallsInv, Nested, IdentityInv, IdentityTypeOK, Captured
      <3> HIDE DEF d, b
      <3>4. b - d \in Nat /\ b = d + (b - d)
          BY <3>3
      <3>5. Len(blocks'[u]) = d + (b - d) /\ open[u][Len(open'[u])].depth = d
          BY <3>1, <3>4 DEF b, d
      <3> QED BY <3>4, <3>5
    <2>2. \A u \in Tasks : u \notin live' => open'[u] = <<>>
        BY <1>3, <1>4 DEF CoreInv, CallsInv, CallsTypeOK
    <2>3. Fewer
        BY <1>1, <1>3, <2>1, <2>2 DEF Fewer, CoreInv, CallsInv, CallsTypeOK
    <2>4. Unanswered'
      <3>1. \A u \in Tasks : \A n \in 1 .. Len(open'[u]) : n \in 1 .. Len(open[u]) /\ open'[u][n] = open[u][n]
          BY <1>3
      <3> QED BY <1>1, <3>1 DEF CoreInv, CallsInv, Unanswered
    <2> QED BY <2>3, <2>4, FewerCalls DEF CallsInv, CoreInv
  <1>7. Sound'
    <2>1. \A u \in Tasks : \A n \in 1 .. Len(open'[u]) : n \in 1 .. Len(open[u]) /\ open'[u][n] = open[u][n]
        BY <1>3
    <2> QED BY <1>1, <2>1 DEF CoreInv, Sound, ChargedToItsTurn
  <1>8. ScopeInv'
    <2>1. within \in [Tasks -> Frameworks \cup {None}] /\ ScopesNest /\ ListsAreKept
        BY DEF CoreInv, ScopeInv
    <2>2. within' \in [Tasks -> Frameworks \cup {None}] /\ ListsAreKept'
        BY <1>1, <2>1 DEF ListsAreKept
    <2>3. within'[t] = None /\ \A u \in Tasks \ {t} : within'[u] = within[u]
        BY <1>1, <2>1
    <2>4. /\ ctx'[t].framework = None
          /\ \A u \in Tasks \ {t} : ctx'[u] = ctx[u]
        BY <1>4, CoreTypes DEF NoContext
    <2>5. InsideOf(t)' = None
        BY <1>3, <2>3, InsideOfNone DEF InsideOf
    <2>6. \A u \in Tasks \ {t} : InsideOf(u)' = InsideOf(u)
        BY <1>3, <2>3 DEF InsideOf
    <2>7. ScopesNest'
      <3> SUFFICES ASSUME ~Runs("governor"), NEW u \in Tasks
                   PROVE  /\ ctx'[u].framework = InsideOf(u)'
                          /\ u \notin live' => within'[u] = None
                          /\ \A n \in 1 .. Len(open'[u]) :
                               /\ open'[u][n].framework # None => open'[u][n].found = Inside(open'[u], n - 1, within'[u])
                               /\ ~Runs("langgraph") /\ open'[u][n].kind = "model" => open'[u][n].framework = None
          BY <1>1 DEF ScopesNest, Runs
      <3>1. CASE u = t
          BY <1>3, <2>3, <2>4, <2>5, <3>1
      <3>2. CASE u # t
        <4>1. open'[u] = open[u] /\ within'[u] = within[u] /\ ctx'[u] = ctx[u] /\ InsideOf(u)' = InsideOf(u)
              /\ (u \notin live' => u \notin live)
            BY <1>3, <1>4, <2>3, <2>4, <2>6, <3>2
        <4> QED BY <2>1, <4>1 DEF ScopesNest
      <3> QED BY <3>1, <3>2
    <2> QED BY <2>2, <2>7 DEF ScopeInv
  <1>9. AdkInv'
    <2>1. ASSUME NEW u \in Tasks, NEW n \in 1 .. Len(open'[u]), NEW half
          PROVE  Said(blocks'[u], open[u][n].depth, half) = Said(blocks[u], open[u][n].depth, half)
        BY <1>3, <1>4
    <2> QED BY <1>1, <1>3, <2>1, AdkKeeps
  <1> QED BY <1>5, <1>6, <1>7, <1>8, <1>9 DEF CoreInv

LEMMA AdkSteps == ASSUME CoreInv, AdkInv, AdkStep PROVE CoreInv' /\ AdkInv'
  <1>1. ASSUME NEW i \in Invocations, AdkAfterRun(i) PROVE CoreInv' /\ AdkInv'
    <2>1. /\ UNCHANGED <<program, saturated, listed, streams, identityVars, callVars, disputed>> /\ Runs("adk")
          /\ correlations' = [correlations EXCEPT ![i] = None]
        BY <1>1 DEF AdkStep, AdkAfterRun, observationVars, mafVars
    <2>2. correlations \in [Invocations -> Captured \cup {None}]
        BY DEF CoreInv, CallsInv, CallsTypeOK
    <2>3. UNCHANGED <<live, blocks, ctx, store, spans, open, within, charges, answered, ungoverned>>
        BY <2>1 DEF identityVars, callVars
    <2>4. CoreInv'
      <3>1. IdentityInv'
          BY <2>1, IdentityUntouched DEF CoreInv
      <3>2. CallsInv'
          BY <2>1, <2>2, <2>3 DEF CoreInv, CallsInv, CallsTypeOK, Nested, Numbered, Unanswered
      <3>3. Sound'
          BY <2>1, <2>3 DEF CoreInv, Sound, ChargedToItsTurn
      <3>4. ScopeInv'
          BY <2>1, <2>3 DEF CoreInv, ScopeInv, ScopesNest, ListsAreKept, InsideOf, Runs
      <3> QED BY <3>1, <3>2, <3>3, <3>4 DEF CoreInv
    <2>5. \A u \in Tasks : \A n \in 1 .. Len(open[u]) : open[u][n].invocation # i
      <3> SUFFICES ASSUME NEW u \in Tasks, NEW n \in 1 .. Len(open[u]) PROVE open[u][n] \in OpenCalls
          BY <1>1 DEF AdkAfterRun
      <3>1. DOMAIN open[u] = 1 .. Len(open[u])
          BY LenProperties DEF CoreInv, CallsInv, CallsTypeOK
      <3> QED BY <3>1 DEF OpenCalls, ToSet
    <2>6. ASSUME NEW j \in Invocations
          PROVE  \/ correlations'[j] = correlations[j]
                 \/ /\ correlations'[j] = None
                    /\ \A u \in Tasks : \A n \in 1 .. Len(open'[u]) :
                         open'[u][n].kind = "model" /\ open'[u][n].invocation = j => open'[u][n].span \in disputed'
        BY <2>1, <2>2, <2>3, <2>5
    <2>7. AdkInv'
        BY <2>1, <2>3, <2>6, AdkKeeps
    <2> QED BY <2>4, <2>7
  <1> QED BY <1>1, AdkModelStarts, AdkModelEnds, AdkToolStarts, AdkToolFinishes, AdkToolRaisesEnd DEF AdkStep

-----------------------------------------------------------------------------
\* Tasks.
Inherits == inherited \in [Tasks -> Nat]

LEMMA InsideIsFramework ==
    ASSUME IdentityInv, CallsInv, ScopeInv, NEW t \in Tasks PROVE InsideOf(t) \in Frameworks \cup {None}
  <1> DEFINE k == Len(open[t])
             f == [i \in 1 .. k |-> open[t][i].framework]
             last == {i \in 1 .. k : f[i] # None /\ \A j \in i + 1 .. k : f[j] = None}
  <1>1. open[t] \in Seq(Captured) /\ within[t] \in Frameworks \cup {None}
      BY DEF CallsInv, CallsTypeOK, ScopeInv
  <1>2. \A i \in 1 .. k : f[i] \in Frameworks \cup {None}
    <2>1. \A i \in 1 .. k : open[t][i] \in Captured
        BY <1>1, ElementOfSeq
    <2> QED BY <2>1 DEF Captured
  <1>3. InsideOf(t) = IF last = {} THEN within[t] ELSE f[CHOOSE i \in last : TRUE]
      BY DEF InsideOf, Inside, LastSaid
  <1>4. last # {} => (CHOOSE i \in last : TRUE) \in 1 .. k
      OBVIOUS
  <1> HIDE DEF f, last, k
  <1> QED BY <1>1, <1>2, <1>3, <1>4

LEMMA TasksFork ==
    ASSUME CoreInv, AdkInv, NEW t \in live, NEW c \in Tasks, ForkTask(t, c),
           UNCHANGED <<program, saturated, listed, streams, correlations, disputed>>
    PROVE  CoreInv' /\ AdkInv'
  <1>1. /\ c \notin live /\ Fork(t, c) /\ within' = [within EXCEPT ![c] = InsideOf(t)] /\ t \in Tasks
        /\ UNCHANGED <<spans, open, charges, answered, ungoverned, store>> /\ live' = live \cup {c}
        /\ open[c] = <<>> /\ Len(open[c]) = 0 /\ c # t
      BY EmptySeq DEF ForkTask, Fork, CoreInv, CallsInv, CallsTypeOK, IdentityInv, IdentityTypeOK
  <1>2. /\ blocks' = [blocks EXCEPT ![c] = blocks[t]] /\ ctx' = [ctx EXCEPT ![c] = ctx[t]]
        /\ blocks \in [Tasks -> Seq(Blocks)] /\ ctx \in [Tasks -> Contexts] /\ within \in [Tasks -> Frameworks \cup {None}]
      BY <1>1 DEF Fork, CoreInv, IdentityInv, IdentityTypeOK, ScopeInv
  <1>3. IdentityInv'
      BY <1>1, TaskForks DEF CoreInv
  <1>4. \A u \in Tasks \ {c} : blocks'[u] = blocks[u] /\ ctx'[u] = ctx[u]
      BY <1>2
  <1>5. CallsInv'
    <2>1. CallsTypeOK'
        BY <1>1 DEF CoreInv, CallsInv, CallsTypeOK
    <2>2. Nested'
      <3> SUFFICES ASSUME NEW u \in Tasks, NEW n \in 1 .. Len(open[u])
                   PROVE  /\ open[u][n].depth <= Len(blocks'[u])
                          /\ \A m \in n .. Len(open[u]) : open[u][n].depth <= open[u][m].depth
          BY <1>1 DEF Nested
      <3>1. u # c
          BY <1>1
      <3> QED BY <1>4, <3>1 DEF CoreInv, CallsInv, Nested
    <2>3. Numbered' /\ Unanswered'
        BY <1>1 DEF CoreInv, CallsInv, Numbered, Unanswered
    <2> QED BY <2>1, <2>2, <2>3 DEF CallsInv
  <1>6. Sound'
      BY <1>1 DEF CoreInv, Sound, ChargedToItsTurn
  <1>7. ScopeInv'
    <2>1. InsideOf(t) \in Frameworks \cup {None}
        BY <1>1, InsideIsFramework DEF CoreInv
    <2>2. within' \in [Tasks -> Frameworks \cup {None}] /\ ListsAreKept'
        BY <1>1, <1>2, <2>1 DEF CoreInv, ScopeInv, ListsAreKept
    <2>3. within'[c] = InsideOf(t) /\ \A u \in Tasks \ {c} : within'[u] = within[u]
        BY <1>1, <1>2
    <2>4. ScopesNest'
      <3> SUFFICES ASSUME ~Runs("governor"), NEW u \in Tasks
                   PROVE  /\ ctx'[u].framework = InsideOf(u)'
                          /\ u \notin live' => within'[u] = None
                          /\ \A n \in 1 .. Len(open[u]) :
                               /\ open[u][n].framework # None => open[u][n].found = Inside(open[u], n - 1, within'[u])
                               /\ ~Runs("langgraph") /\ open[u][n].kind = "model" => open[u][n].framework = None
          BY <1>1 DEF ScopesNest, Runs
      <3>1. CASE u = c
        <4>1. InsideOf(c)' = within'[c]
            BY <1>1, InsideOfNone DEF InsideOf
        <4>2. ctx'[c] = ctx[t] /\ ctx[t].framework = InsideOf(t)
            BY <1>1, <1>2 DEF CoreInv, ScopeInv, ScopesNest
        <4> QED BY <1>1, <2>3, <3>1, <4>1, <4>2
      <3>2. CASE u # c
        <4>1. within'[u] = within[u] /\ ctx'[u] = ctx[u] /\ InsideOf(u)' = InsideOf(u) /\ (u \notin live' => u \notin live)
            BY <1>1, <1>4, <2>3, <3>2 DEF InsideOf
        <4> QED BY <4>1 DEF CoreInv, ScopeInv, ScopesNest
      <3> QED BY <3>1, <3>2
    <2> QED BY <2>2, <2>4 DEF ScopeInv
  <1>8. AdkInv'
    <2>1. ASSUME NEW u \in Tasks, NEW n \in 1 .. Len(open'[u])
          PROVE  /\ n \in 1 .. Len(open[u]) /\ open'[u][n] = open[u][n]
                 /\ \A half \in {"user", "agent"} :
                      Said(blocks'[u], open[u][n].depth, half) = Said(blocks[u], open[u][n].depth, half)
      <3>1. u # c
          BY <1>1, <2>1
      <3> QED BY <1>1, <1>4, <3>1
    <2> QED BY <1>1, <2>1, AdkKeeps
  <1> QED BY <1>3, <1>5, <1>6, <1>7, <1>8 DEF CoreInv

LEMMA TasksEnd ==
    ASSUME CoreInv, AdkInv, NEW c \in Tasks, EndOfTask(c),
           UNCHANGED <<program, saturated, listed, streams, correlations, disputed>>
    PROVE  CoreInv' /\ AdkInv'
  <1>1. /\ EndTask(c) /\ within' = [within EXCEPT ![c] = None] /\ live' = live \ {c}
        /\ UNCHANGED <<spans, open, charges, answered, ungoverned, store>>
        /\ open[c] = <<>> /\ Len(open[c]) = 0
      BY EmptySeq DEF EndOfTask, EndTask
  <1>2. /\ blocks' = [blocks EXCEPT ![c] = <<>>] /\ ctx' = [ctx EXCEPT ![c] = NoContext]
        /\ blocks \in [Tasks -> Seq(Blocks)] /\ ctx \in [Tasks -> Contexts] /\ within \in [Tasks -> Frameworks \cup {None}]
      BY <1>1 DEF EndTask, CoreInv, IdentityInv, IdentityTypeOK, ScopeInv
  <1>3. IdentityInv'
      BY <1>1, TaskEnds DEF CoreInv
  <1>4. \A u \in Tasks \ {c} : blocks'[u] = blocks[u] /\ ctx'[u] = ctx[u]
      BY <1>2
  <1>5. CallsInv'
    <2>1. CallsTypeOK'
        BY <1>1 DEF CoreInv, CallsInv, CallsTypeOK
    <2>2. Nested'
      <3> SUFFICES ASSUME NEW u \in Tasks, NEW n \in 1 .. Len(open[u])
                   PROVE  /\ open[u][n].depth <= Len(blocks'[u])
                          /\ \A m \in n .. Len(open[u]) : open[u][n].depth <= open[u][m].depth
          BY <1>1 DEF Nested
      <3>1. u # c
          BY <1>1
      <3> QED BY <1>4, <3>1 DEF CoreInv, CallsInv, Nested
    <2>3. Numbered' /\ Unanswered'
        BY <1>1 DEF CoreInv, CallsInv, Numbered, Unanswered
    <2> QED BY <2>1, <2>2, <2>3 DEF CallsInv
  <1>6. Sound'
      BY <1>1 DEF CoreInv, Sound, ChargedToItsTurn
  <1>7. ScopeInv'
    <2>1. within' \in [Tasks -> Frameworks \cup {None}] /\ ListsAreKept'
        BY <1>1, <1>2 DEF CoreInv, ScopeInv, ListsAreKept
    <2>2. within'[c] = None /\ \A u \in Tasks \ {c} : within'[u] = within[u]
        BY <1>1, <1>2
    <2>3. ScopesNest'
      <3> SUFFICES ASSUME ~Runs("governor"), NEW u \in Tasks
                   PROVE  /\ ctx'[u].framework = InsideOf(u)'
                          /\ u \notin live' => within'[u] = None
                          /\ \A n \in 1 .. Len(open[u]) :
                               /\ open[u][n].framework # None => open[u][n].found = Inside(open[u], n - 1, within'[u])
                               /\ ~Runs("langgraph") /\ open[u][n].kind = "model" => open[u][n].framework = None
          BY <1>1 DEF ScopesNest, Runs
      <3>1. CASE u = c
        <4>1. InsideOf(c)' = within'[c]
            BY <1>1, InsideOfNone DEF InsideOf
        <4>2. ctx'[c].framework = None
            BY <1>1, <1>2 DEF NoContext
        <4> QED BY <1>1, <2>2, <3>1, <4>1, <4>2
      <3>2. CASE u # c
        <4>1. within'[u] = within[u] /\ ctx'[u] = ctx[u] /\ InsideOf(u)' = InsideOf(u) /\ (u \notin live' => u \notin live)
            BY <1>1, <1>4, <2>2, <3>2 DEF InsideOf
        <4> QED BY <4>1 DEF CoreInv, ScopeInv, ScopesNest
      <3> QED BY <3>1, <3>2
    <2> QED BY <2>1, <2>3 DEF ScopeInv
  <1>8. AdkInv'
    <2>1. ASSUME NEW u \in Tasks, NEW n \in 1 .. Len(open'[u])
          PROVE  /\ n \in 1 .. Len(open[u]) /\ open'[u][n] = open[u][n]
                 /\ \A half \in {"user", "agent"} :
                      Said(blocks'[u], open[u][n].depth, half) = Said(blocks[u], open[u][n].depth, half)
      <3>1. u # c
          BY <1>1, <2>1
      <3> QED BY <1>1, <1>4, <3>1
    <2> QED BY <1>1, <2>1, AdkKeeps
  <1> QED BY <1>3, <1>5, <1>6, <1>7, <1>8 DEF CoreInv

LEMMA TaskSteps == ASSUME CoreInv, AdkInv, TaskStep PROVE CoreInv' /\ AdkInv'
  <1>1. UNCHANGED <<program, saturated, listed, streams, correlations, disputed>>
      BY DEF TaskStep, observationVars, mafVars, adkVars
  <1>2. ASSUME NEW t \in Tasks, EndOfTask(t) PROVE CoreInv' /\ AdkInv'
      BY <1>1, <1>2, TasksEnd
  <1>3. ASSUME NEW t \in Tasks, NEW c \in Tasks, ForkTask(t, c) PROVE CoreInv' /\ AdkInv'
    <2>1. t \in live
        BY <1>3 DEF ForkTask
    <2> QED BY <1>1, <1>3, <2>1, TasksFork
  <1> QED BY <1>2, <1>3 DEF TaskStep

-----------------------------------------------------------------------------
\* Blocks: those that calls are in do not end before them.
BlocksChange(t) ==
    /\ \A u \in Tasks \ {t} : blocks'[u] = blocks[u]
    /\ \A n \in 1 .. Len(open[t]) :
         /\ open[t][n].depth <= Len(blocks'[t])
         /\ \A i \in 1 .. open[t][n].depth : blocks'[t][i] = blocks[t][i]

LEMMA CoreInBlocks ==
    ASSUME CoreInv, AdkInv, NEW t \in Tasks, BlocksChange(t), IdentityInv',
           UNCHANGED <<program, live, callVars, streams, correlations, disputed, saturated, listed>>,
           \A u \in Tasks : ctx'[u].framework = ctx[u].framework
    PROVE  CoreInv' /\ AdkInv'
  <1>1. UNCHANGED <<spans, open, within, charges, answered, ungoverned>>
      BY DEF callVars
  <1>2. CallsInv'
    <2>1. Nested'
      <3> SUFFICES ASSUME NEW u \in Tasks, NEW n \in 1 .. Len(open[u])
                   PROVE  /\ open[u][n].depth <= Len(blocks'[u])
                          /\ \A m \in n .. Len(open[u]) : open[u][n].depth <= open[u][m].depth
          BY <1>1 DEF Nested
      <3>1. CASE u = t
          BY <3>1 DEF CoreInv, CallsInv, Nested, BlocksChange
      <3>2. CASE u # t
          BY <3>2 DEF CoreInv, CallsInv, Nested, BlocksChange
      <3> QED BY <3>1, <3>2
    <2>2. CallsTypeOK' /\ Numbered' /\ Unanswered'
        BY <1>1 DEF CoreInv, CallsInv, CallsTypeOK, Numbered, Unanswered
    <2> QED BY <2>1, <2>2 DEF CallsInv
  <1>3. Sound'
      BY <1>1 DEF CoreInv, Sound, ChargedToItsTurn
  <1>4. ScopeInv'
      BY <1>1 DEF CoreInv, ScopeInv, ScopesNest, ListsAreKept, InsideOf, Runs
  <1>5. AdkInv'
    <2>1. ASSUME NEW u \in Tasks, NEW n \in 1 .. Len(open[u]), NEW half
          PROVE  Said(blocks'[u], open[u][n].depth, half) = Said(blocks[u], open[u][n].depth, half)
      <3>1. CASE u = t
        <4> DEFINE d == open[u][n].depth
                   before == blocks[u]
                   after == blocks'[u]
        <4>1. d \in Nat
          <5>1. open[u] \in Seq(Captured)
              BY DEF CoreInv, CallsInv, CallsTypeOK
          <5>2. open[u][n] \in Captured
              BY <5>1, ElementOfSeq
          <5> QED BY <5>2 DEF Captured
        <4>2. \A i \in 1 .. d : after[i] = before[i]
            BY <3>1 DEF BlocksChange
        <4> HIDE DEF d, before, after
        <4>3. Said(after, d, half) = Said(before, d, half)
            BY <4>1, <4>2, SaidOfSame
        <4> QED BY <4>3 DEF d, before, after
      <3>2. CASE u # t
          BY <3>2 DEF BlocksChange
      <3> QED BY <3>1, <3>2
    <2> QED BY <1>1, <2>1, AdkKeeps
  <1> QED BY <1>2, <1>3, <1>4, <1>5 DEF CoreInv

\* Nothing a block is made from is anything but a user, an agent or both.
LEMMA AssertionsAssert ==
    ASSUME CoreInv, NEW from \in program.asserts, NEW a \in Assertions[from] PROVE a \in Asserting
  <1>1. store \in [Keys -> EndUsers \cup {None}] /\ program \in Programs
      BY DEF CoreInv, IdentityInv, IdentityTypeOK
  <1>2. from \in {"claims", "agents", "tokens", "stored"}
      BY <1>1, ProgramsAssumption
  <1>3. CASE from = "claims"
      BY <1>3, EndUsersAssumption DEF Assertions, FromClaims, Assertion, Asserting
  <1>4. CASE from = "agents"
      BY <1>4 DEF Assertions, FromAgentClaims, Assertion, Asserting
  <1>5. CASE from = "tokens"
    <2>1. PICK h \in Anything : a = FromToken(h[1], h[2])
        BY <1>5 DEF Assertions
    <2>2. h[1] \in EndUsers \cup {None} /\ h[2] \in Agents \cup {None}
        BY DEF Anything
    <2>3. Unknown \in Identities
        BY DEF Unknown, Identities
    <2> QED BY <2>1, <2>2, <2>3, EndUsersAssumption DEF FromToken, Assertion, Asserting
  <1>6. CASE from = "stored"
    <2>1. PICK k \in Keys : a = FromStore(k)
        BY <1>6 DEF Assertions
    <2> QED BY <1>1, <2>1, EndUsersAssumption DEF FromStore, Assertion, Asserting
  <1> QED BY <1>2, <1>3, <1>4, <1>5, <1>6

LEMMA BlocksEnter ==
    ASSUME CoreInv, AdkInv, IdentityStep, NEW t \in live, NEW from \in program.asserts, NEW a \in Assertions[from],
           EnterBlock(t, a)
    PROVE  CoreInv' /\ AdkInv'
  <1>1. /\ UNCHANGED <<program, callVars, streams, correlations, disputed, saturated, listed>>
        /\ t \in Tasks /\ IdentityInv /\ a \in Asserting /\ UNCHANGED live
        /\ ctx \in [Tasks -> Contexts] /\ blocks \in [Tasks -> Seq(Blocks)]
      BY AssertionsAssert DEF IdentityStep, observationVars, mafVars, adkVars, CoreInv, IdentityInv, IdentityTypeOK,
                              EnterBlock
  <1>2. IdentityInv'
      BY <1>1, BlockEnters
  <1> DEFINE x == Bind(Bind(ctx[t], "user", a.user), "agent", a.agent)
             b == [asserts |-> a, found |-> ctx[t]]
             k == Len(blocks[t])
  <1>3. ctx' = [ctx EXCEPT ![t] = x] /\ blocks' = [blocks EXCEPT ![t] = Append(@, b)]
      BY DEF EnterBlock
  <1>4. x.framework = ctx[t].framework
      BY <1>1 DEF Bind, Contexts
  <1>5. \A u \in Tasks : ctx'[u].framework = ctx[u].framework
    <2> HIDE DEF x
    <2> QED BY <1>1, <1>3, <1>4
  <1>6. b \in Blocks
      BY <1>1 DEF Blocks
  <1> HIDE DEF b
  <1>7. BlocksChange(t)
    <2>1. blocks'[t] = Append(blocks[t], b) /\ \A u \in Tasks \ {t} : blocks'[u] = blocks[u]
        BY <1>1, <1>3
    <2>2. k \in Nat /\ Len(blocks'[t]) = k + 1 /\ \A i \in 1 .. k : blocks'[t][i] = blocks[t][i]
        BY <1>1, <1>6, <2>1, AppendProperties, LenProperties
    <2>3. ASSUME NEW n \in 1 .. Len(open[t])
          PROVE  open[t][n].depth \in Nat /\ open[t][n].depth <= k
      <3>1. open[t] \in Seq(Captured)
          BY <1>1 DEF CoreInv, CallsInv, CallsTypeOK
      <3>2. open[t][n] \in Captured
          BY <3>1, ElementOfSeq
      <3> QED BY <1>1, <3>2 DEF CoreInv, CallsInv, Nested, Captured
    <2> HIDE DEF k
    <2> QED BY <2>1, <2>2, <2>3 DEF BlocksChange
  <1> QED BY <1>1, <1>2, <1>5, <1>7, CoreInBlocks

LEMMA BlocksExit ==
    ASSUME CoreInv, AdkInv, Inherits, IdentityStep, NEW t \in live, ExitInnerBlock(t)
    PROVE  CoreInv' /\ AdkInv'
  <1>1. /\ UNCHANGED <<program, callVars, streams, correlations, disputed, saturated, listed>>
        /\ t \in Tasks /\ IdentityInv /\ UNCHANGED live /\ ExitBlock(t) /\ inherited[t] \in Nat
        /\ ctx \in [Tasks -> Contexts] /\ blocks \in [Tasks -> Seq(Blocks)]
      BY DEF IdentityStep, observationVars, mafVars, adkVars, CoreInv, IdentityInv, IdentityTypeOK, ExitInnerBlock,
             ExitBlock, Inherits
  <1> DEFINE k == Len(blocks[t])
             b == Last(blocks[t])
             x == RestoreHalf(RestoreHalf(ctx[t], "user", b), "agent", b)
  <1>2. /\ IdentityInv' /\ Len(blocks'[t]) = k - 1 /\ k \in Nat
        /\ \A i \in 1 .. k - 1 : blocks'[t][i] = blocks[t][i]
      BY <1>1, BlockExits, LenProperties
  <1>3. ctx' = [ctx EXCEPT ![t] = x] /\ blocks' = [blocks EXCEPT ![t] = Front(@)]
      BY <1>1 DEF ExitBlock
  <1>4. x.framework = ctx[t].framework
      BY <1>1 DEF RestoreHalf, Contexts
  <1>5. \A u \in Tasks : ctx'[u].framework = ctx[u].framework
    <2> HIDE DEF x
    <2> QED BY <1>1, <1>3, <1>4
  <1>6. BlocksChange(t)
    <2>1. ASSUME NEW n \in 1 .. Len(open[t])
          PROVE  open[t][n].depth \in Nat /\ open[t][n].depth <= k - 1
      <3>1. open[t] # <<>> /\ Len(open[t]) \in Nat /\ open[t] \in Seq(Captured)
          BY <1>1, EmptySeq, LenProperties DEF CoreInv, CallsInv, CallsTypeOK
      <3>2. open[t][n] \in Captured /\ Current(t) \in Captured
          BY <3>1, CurrentCall, ElementOfSeq
      <3>3. Current(t).depth < k
          BY <3>1 DEF ExitInnerBlock
      <3>4. Len(open[t]) \in n .. Len(open[t]) /\ Current(t) = open[t][Len(open[t])]
          BY <3>1, CurrentCall
      <3>5. open[t][n].depth <= Current(t).depth
          BY <1>1, <3>4 DEF CoreInv, CallsInv, Nested
      <3>6. open[t][n].depth \in Nat /\ Current(t).depth \in Nat
          BY <3>2 DEF Captured
      <3> HIDE DEF k
      <3> QED BY <1>2, <3>3, <3>5, <3>6
    <2>2. \A u \in Tasks \ {t} : blocks'[u] = blocks[u]
        BY <1>1, <1>3
    <2> HIDE DEF k
    <2> QED BY <1>2, <2>1, <2>2 DEF BlocksChange
  <1> QED BY <1>1, <1>2, <1>5, <1>6, CoreInBlocks

LEMMA IdentitySteps == ASSUME CoreInv, AdkInv, Inherits, IdentityStep PROVE CoreInv' /\ AdkInv'
  <1>1. ASSUME NEW k \in Keys, NEW u \in EndUsers \cup {None}, SetIdentity(k, u) PROVE CoreInv' /\ AdkInv'
    <2>1. UNCHANGED <<program, live, ctx, blocks, callVars, streams, correlations, disputed, saturated, listed>>
        BY <1>1 DEF IdentityStep, observationVars, mafVars, adkVars, SetIdentity
    <2>2. IdentityInv'
      <3>1. IdentityTypeOK'
          BY <1>1, <2>1 DEF CoreInv, IdentityInv, IdentityTypeOK, SetIdentity
      <3>2. SaysWhatBlocksSay'
          BY <2>1 DEF CoreInv, IdentityInv, SaysWhatBlocksSay, SaidBy
      <3> QED BY <3>1, <3>2 DEF IdentityInv
    <2>3. Root \in Tasks
        BY TasksAssumption
    <2>4. BlocksChange(Root)
        BY <2>1, <2>3 DEF BlocksChange, CoreInv, CallsInv, Nested
    <2> QED BY <2>1, <2>2, <2>3, <2>4, CoreInBlocks
  <1> QED BY <1>1, BlocksEnter, BlocksExit DEF IdentityStep

-----------------------------------------------------------------------------
\* Closing a span ends it and gives back what it found, if it is the task's own;
\* what is out of order is remembered.
LEMMA Closing ==
    ASSUME NEW context \in Contexts, NEW h \in [Spans -> OpenSpans], NEW d \in SUBSET Tasks,
           NEW t \in Tasks, NEW s \in Spans \cup {None},
           NEW r, r = Close([context |-> context, held |-> h, disordered |-> d], t, s)
    PROVE  /\ r = [context |-> r.context, held |-> r.held, disordered |-> r.disordered]
           /\ r.context \in Contexts /\ r.context.user = context.user /\ r.context.agent = context.agent
           /\ r.context.framework = IF s # None /\ h[s].owner = t /\ ~h[s].ended THEN h[s].found
                                    ELSE context.framework
           /\ r.held \in [Spans -> OpenSpans]
           /\ \A q \in Spans :
                /\ r.held[q].owner = h[q].owner /\ r.held[q].found = h[q].found /\ r.held[q].traced = h[q].traced
                /\ r.held[q].ended <=> (h[q].ended \/ q = s)
           /\ d \subseteq r.disordered /\ r.disordered \subseteq Tasks
           /\ s # None =>
                /\ h[s].owner # t => t \in r.disordered
                /\ \A l \in Spans : l > s /\ h[l].owner = t /\ ~h[l].ended => t \in r.disordered
                /\ ~h[s].ended /\ h[s].owner # t /\ h[s].owner # None => h[s].owner \in r.disordered
  <1>1. None \notin Spans
      BY SpansAssumption DEF Spans
  <1> DEFINE before == [context |-> context, held |-> h, disordered |-> d]
  <1>2. CASE s = None
    <2>1. Close(before, t, s) = before
        BY <1>2 DEF Close
    <2> QED BY <1>1, <1>2, <2>1
  <1>3. CASE s \in Spans
    <2> DEFINE span == h[s]
               later == {l \in Spans : l > s /\ h[l].owner = t /\ ~h[l].ended}
               c == IF span.owner = t /\ ~span.ended THEN FrameworkRestored(context, span.found) ELSE context
               more == [h EXCEPT ![s].ended = TRUE]
               out == d \cup (IF span.owner # t \/ later # {} THEN {t} ELSE {})
                        \cup (IF span.ended THEN {} ELSE {span.owner} \ {t, None})
    <2>1. Close(before, t, s) = [context |-> c, held |-> more, disordered |-> out]
        BY <1>1, <1>3 DEF Close
    <2>2. span \in OpenSpans
        BY <1>3
    <2>3. c \in Contexts /\ c.user = context.user /\ c.agent = context.agent
          /\ c.framework = IF span.owner = t /\ ~span.ended THEN span.found ELSE context.framework
        BY <2>2 DEF FrameworkRestored, Contexts, OpenSpans
    <2>4. more \in [Spans -> OpenSpans]
      <3>1. [span EXCEPT !.ended = TRUE] \in OpenSpans
          BY <2>2 DEF OpenSpans
      <3> QED BY <1>3, <3>1
    <2>5. ASSUME NEW q \in Spans
          PROVE  /\ more[q].owner = h[q].owner /\ more[q].found = h[q].found /\ more[q].traced = h[q].traced
                 /\ more[q].ended <=> (h[q].ended \/ q = s)
      <3>1. CASE q = s
        <4>1. more[q] = [span EXCEPT !.ended = TRUE]
            BY <1>3, <3>1
        <4> QED BY <2>2, <3>1, <4>1 DEF OpenSpans
      <3>2. CASE q # s
        <4>1. more[q] = h[q]
            BY <1>3, <3>2
        <4> QED BY <3>2, <4>1
      <3> QED BY <3>1, <3>2
    <2>6. /\ d \subseteq out /\ out \subseteq Tasks
          /\ span.owner # t => t \in out
          /\ \A l \in Spans : l > s /\ h[l].owner = t /\ ~h[l].ended => t \in out
          /\ ~span.ended /\ span.owner # t /\ span.owner # None => span.owner \in out
      <3>1. span.owner \in Tasks \cup {None}
          BY <2>2 DEF OpenSpans
      <3> QED BY <3>1
    <2> HIDE DEF c, more, out
    <2> QED BY <1>1, <1>3, <2>1, <2>3, <2>4, <2>5, <2>6 DEF span
  <1> QED BY <1>2, <1>3

\* Nothing of the Governor's changes.
LEMMA GovernorIdle ==
    ASSUME GovernorInv, UNCHANGED <<program, governorVars>>, ~Runs("governor") PROVE GovernorInv'
  <1>1. UNCHANGED <<traces, current, held, disordered>>
      BY DEF governorVars
  <1>2. NoSpan.model = None /\ NoSpan.tool = None
      BY DEF NoSpan
  <1>3. (\A s \in Spans : held[s].owner = None) /\ \A t \in Tasks : current[t] = NoSpan
      BY DEF GovernorInv, Owned
  <1>4. GovernorTypeOK'
      BY <1>1 DEF GovernorInv, GovernorTypeOK
  <1>5. Owned'
      BY <1>1, <1>2, <1>3 DEF Owned, Works, Runs
  <1>6. InOrder' /\ TracesHold'
      BY <1>1, <1>3 DEF InOrder, TracesHold, Runs
  <1> QED BY <1>4, <1>5, <1>6 DEF GovernorInv

LEMMA GovernorKept ==
    ASSUME GovernorInv, UNCHANGED <<program, live, spans, current, held, disordered>>, traces' \in [Tasks -> Nat],
           \A t \in Tasks : ctx'[t].framework = ctx[t].framework /\ traces'[t] >= traces[t], live \subseteq Tasks
    PROVE  GovernorInv'
  <1>1. GovernorTypeOK' /\ Owned'
      BY DEF GovernorInv, GovernorTypeOK, Owned, Runs
  <1>2. InOrder'
      BY DEF GovernorInv, InOrder, OrderlyIn, Runs
  <1>3. TracesHold'
    <2> SUFFICES ASSUME NEW s \in Spans, held[s].traced, held[s].owner # None, ~held[s].ended
                 PROVE  traces'[held[s].owner] > 0
        BY DEF TracesHold
    <2>1. held[s].owner \in Tasks /\ traces[held[s].owner] > 0
        BY DEF GovernorInv, GovernorTypeOK, TracesHold, OpenSpans
    <2>2. traces[held[s].owner] \in Nat /\ traces'[held[s].owner] \in Nat
        BY <2>1 DEF GovernorInv, GovernorTypeOK
    <2> HIDE DEF GovernorInv
    <2> QED BY <2>1, <2>2
  <1> QED BY <1>1, <1>2, <1>3 DEF GovernorInv

\* A task's spans when it is created, and when it ends.
LEMMA SpansShared ==
    ASSUME GovernorInv, live \subseteq Tasks, ctx \in [Tasks -> Contexts], NEW t \in live, NEW c \in Tasks \ live,
           TaskSharesSpans(t, c),
           UNCHANGED <<program, spans>>, live' = live \cup {c}, ctx' = [ctx EXCEPT ![c] = ctx[t]]
    PROVE  GovernorInv'
  <1>1. /\ t \in Tasks /\ t # c /\ UNCHANGED <<traces, held>> /\ current' = [current EXCEPT ![c] = current[t]]
        /\ disordered' = IF t \in disordered THEN disordered \cup {c} ELSE disordered
        /\ current \in [Tasks -> [model: Spans \cup {None}, tool: Spans \cup {None}]]
      BY DEF TaskSharesSpans, GovernorInv, GovernorTypeOK
  <1>2. current'[c] = current[t] /\ ctx'[c] = ctx[t] /\ \A u \in Tasks \ {c} : current'[u] = current[u] /\ ctx'[u] = ctx[u]
      BY <1>1
  <1>3. GovernorTypeOK'
      BY <1>1 DEF GovernorInv, GovernorTypeOK
  <1>4. \A s \in Spans : held[s].owner # c
      BY TasksAssumption DEF GovernorInv, Owned
  <1>5. Owned'
    <2>1. ~Runs("governor") => \A u \in Tasks : current'[u] = NoSpan
        BY <1>1, <1>2 DEF GovernorInv, Owned
    <2>2. \A s \in Spans : held[s].owner # None =>
              /\ held[s].owner \in live' /\ s <= spans
              /\ ~held[s].ended => s \in Works(current'[held[s].owner])
        BY <1>2, <1>4 DEF GovernorInv, Owned
    <2>3. ASSUME NEW u \in Tasks
          PROVE  /\ \A s \in Works(current'[u]) : s # None => s <= spans
                 /\ current'[u].model # None => current'[u].model # current'[u].tool
      <3>1. CASE u = c
          BY <1>1, <1>2, <3>1 DEF GovernorInv, Owned
      <3>2. CASE u # c
          BY <1>2, <3>2 DEF GovernorInv, Owned
      <3> QED BY <3>1, <3>2
    <2> QED BY <1>1, <2>1, <2>2, <2>3 DEF GovernorInv, Owned, Runs
  <1>6. InOrder'
    <2> SUFFICES ASSUME Runs("governor"), NEW u \in live' \ disordered'
                 PROVE  OrderlyIn(ctx'[u], current'[u], held, u)
        BY <1>1 DEF InOrder, Runs
    <2>1. CASE u = c
      <3>1. t \notin disordered
          BY <1>1, <2>1
      <3>2. (ctx[t].framework = "governor") <=> (current[t] # NoSpan)
          BY <3>1 DEF GovernorInv, InOrder, OrderlyIn
      <3>3. current[t].model \in Spans \cup {None} /\ current[t].tool \in Spans \cup {None}
          BY <1>1
      <3> QED BY <1>2, <1>4, <2>1, <3>2, <3>3 DEF OrderlyIn, Ordered
    <2>2. CASE u # c
        BY <1>1, <1>2, <2>2 DEF GovernorInv, InOrder
    <2> QED BY <2>1, <2>2
  <1>7. TracesHold'
      BY <1>1 DEF GovernorInv, TracesHold
  <1> QED BY <1>3, <1>5, <1>6, <1>7 DEF GovernorInv

LEMMA SpansLeft ==
    ASSUME GovernorInv, live \subseteq Tasks, ctx \in [Tasks -> Contexts], NEW c \in live, TaskLeavesSpans(c),
           UNCHANGED <<program, spans>>, live' = live \ {c}, ctx' = [ctx EXCEPT ![c] = NoContext]
    PROVE  GovernorInv'
  <1>1. /\ c \in Tasks /\ UNCHANGED traces /\ current' = [current EXCEPT ![c] = NoSpan]
        /\ disordered' = disordered \ {c} /\ held \in [Spans -> OpenSpans]
        /\ current \in [Tasks -> [model: Spans \cup {None}, tool: Spans \cup {None}]]
      BY DEF TaskLeavesSpans, GovernorInv, GovernorTypeOK
  <1>2. \A u \in Tasks \ {c} : current'[u] = current[u] /\ ctx'[u] = ctx[u]
      BY <1>1
  <1>3. NoSpan \in [model: Spans \cup {None}, tool: Spans \cup {None}] /\ NoSpan.model = None /\ NoSpan.tool = None
        /\ current'[c] = NoSpan
      BY <1>1 DEF NoSpan
  <1>4. ASSUME NEW s \in Spans
        PROVE  /\ held'[s] \in OpenSpans /\ held'[s].owner # c
               /\ held'[s].owner # None => held'[s] = held[s]
    <2>1. CASE held[s].owner = c
      <3>1. held'[s] = [held[s] EXCEPT !.owner = None]
          BY <2>1 DEF TaskLeavesSpans
      <3> QED BY <1>1, <3>1, TasksAssumption DEF OpenSpans
    <2>2. CASE held[s].owner # c
      <3>1. held'[s] = held[s]
          BY <2>2 DEF TaskLeavesSpans
      <3> QED BY <1>1, <2>2, <3>1
    <2> QED BY <2>1, <2>2
  <1>5. GovernorTypeOK'
    <2>1. held' \in [Spans -> OpenSpans]
      <3>1. held' = [s \in Spans |-> held'[s]]
          BY DEF TaskLeavesSpans
      <3> QED BY <1>4, <3>1
    <2> QED BY <1>1, <1>3, <2>1 DEF GovernorInv, GovernorTypeOK
  <1>6. Owned'
    <2>1. ~Runs("governor") => (\A s \in Spans : held'[s].owner = None) /\ \A u \in Tasks : current'[u] = NoSpan
        BY <1>2, <1>3, <1>4 DEF GovernorInv, Owned
    <2>2. \A s \in Spans : held'[s].owner # None =>
              /\ held'[s].owner \in live' /\ s <= spans
              /\ ~held'[s].ended => s \in Works(current'[held'[s].owner])
        BY <1>2, <1>4 DEF GovernorInv, Owned
    <2>3. ASSUME NEW u \in Tasks
          PROVE  /\ \A s \in Works(current'[u]) : s # None => s <= spans
                 /\ current'[u].model # None => current'[u].model # current'[u].tool
      <3>1. CASE u = c
          BY <1>3, <3>1 DEF Works
      <3>2. CASE u # c
          BY <1>2, <3>2 DEF GovernorInv, Owned
      <3> QED BY <3>1, <3>2
    <2> QED BY <2>1, <2>2, <2>3 DEF Owned, Runs
  <1>7. InOrder'
    <2> SUFFICES ASSUME Runs("governor"), NEW u \in live \ {c}, u \notin disordered
                 PROVE  OrderlyIn(ctx'[u], current'[u], held', u)
        BY <1>1 DEF InOrder, Runs
    <2>1. OrderlyIn(ctx[u], current[u], held, u)
        BY DEF GovernorInv, InOrder
    <2>2. current[u].model \in Spans \cup {None} /\ current[u].tool \in Spans \cup {None} /\ u # None
        BY <1>1, TasksAssumption
    <2>3. ctx'[u] = ctx[u] /\ current'[u] = current[u]
        BY <1>2
    <2> QED BY <1>4, <2>1, <2>2, <2>3 DEF OrderlyIn, Ordered
  <1>8. TracesHold'
      BY <1>1, <1>4 DEF GovernorInv, TracesHold
  <1> QED BY <1>5, <1>6, <1>7, <1>8 DEF GovernorInv

-----------------------------------------------------------------------------
\* Another task's order is not disturbed by a span that is closed, unless that
\* is remembered.
LEMMA OthersInOrder ==
    ASSUME NEW t \in Tasks, NEW u \in Tasks \ {t}, NEW works \in [model: Spans \cup {None}, tool: Spans \cup {None}],
           NEW context, NEW h \in [Spans -> OpenSpans], NEW after \in [Spans -> OpenSpans],
           OrderlyIn(context, works, h, u),
           \A q \in Spans : h[q].owner = u \/ after[q].owner = u =>
              /\ after[q].owner = h[q].owner /\ after[q].found = h[q].found
              /\ after[q].ended => h[q].ended
    PROVE  OrderlyIn(context, works, after, u)
  <1> QED BY DEF OrderlyIn, Ordered

\* A span is opened and the one of its kind before it closed: p is that one, q the other.
LEMMA Supersedes ==
    ASSUME GovernorInv, live \subseteq Tasks, ctx \in [Tasks -> Contexts], spans \in Nat, spans + 1 \in Spans,
           Runs("governor"), UNCHANGED program, NEW t \in live, NEW kind \in {"model", "tool"},
           NEW context \in Contexts, context.framework = ctx[t].framework,
           Supersede(t, kind, context)
    PROVE  /\ GovernorInv'
           /\ \E x \in Contexts : ctx' = [ctx EXCEPT ![t] = x] /\ x.user = context.user /\ x.agent = context.agent
  <1> DEFINE n == spans + 1
             p == current[t][kind]
             q == IF kind = "model" THEN current[t].tool ELSE current[t].model
             new == OpenSpan(t, context.framework, traces[t] > 0)
             h == [held EXCEPT ![n] = new]
             y == WithFramework(context, "governor")
             r == Close([context |-> y, held |-> h, disordered |-> disordered], t, p)
  <1>1. /\ t \in Tasks /\ n \in Spans /\ None \notin Spans /\ \A s \in Spans : s \in Nat
        /\ current \in [Tasks -> [model: Spans \cup {None}, tool: Spans \cup {None}]]
        /\ held \in [Spans -> OpenSpans] /\ disordered \in SUBSET Tasks /\ traces \in [Tasks -> Nat]
      BY SpansAssumption DEF Spans, GovernorInv, GovernorTypeOK
  <1>2. /\ p \in Spans \cup {None} /\ q \in Spans \cup {None} /\ Works(current[t]) = {p, q}
        /\ p # None => p # q
        /\ (current[t] # NoSpan) <=> (p # None \/ q # None)
        /\ \A hh : OrderlyIn(ctx[t], current[t], hh, t) =>
             /\ (context.framework = "governor") <=> (p # None \/ q # None)
             /\ Ordered(hh, t, p, q) /\ Ordered(hh, t, q, p)
        /\ p # None => p <= spans
        /\ q # None => q <= spans
    <2>1. /\ current[t] \in [model: Spans \cup {None}, tool: Spans \cup {None}]
          /\ \A s \in Works(current[t]) : s # None => s <= spans
          /\ current[t].model # None => current[t].model # current[t].tool
        BY <1>1 DEF GovernorInv, Owned
    <2>2. (current[t] # NoSpan) <=> (current[t].model # None \/ current[t].tool # None)
        BY <2>1 DEF NoSpan
    <2>3. CASE kind = "model"
        BY <2>1, <2>2, <2>3 DEF Works, OrderlyIn
    <2>4. CASE kind = "tool"
        BY <2>1, <2>2, <2>4 DEF Works, OrderlyIn
    <2> QED BY <2>3, <2>4
  <1>3. /\ current' \in [Tasks -> [model: Spans \cup {None}, tool: Spans \cup {None}]]
        /\ \A u \in Tasks \ {t} : current'[u] = current[u]
        /\ current'[t].model \in {n, q} /\ current'[t].tool \in {n, q} /\ Works(current'[t]) = {n, q}
        /\ current'[t].model # current'[t].tool \/ n = q
        /\ current'[t] # NoSpan
        /\ \A hh, cc : /\ cc.framework = "governor" /\ Ordered(hh, t, n, q) /\ Ordered(hh, t, q, n)
                       => OrderlyIn(cc, current'[t], hh, t)
    <2>1. current' = [current EXCEPT ![t][kind] = n] /\ current[t] \in [model: Spans \cup {None}, tool: Spans \cup {None}]
        BY <1>1 DEF Supersede
    <2> DEFINE w == [current[t] EXCEPT ![kind] = n]
    <2>2. w \in [model: Spans \cup {None}, tool: Spans \cup {None}]
          /\ w.model \in {n, q} /\ w.tool \in {n, q} /\ Works(w) = {n, q} /\ (w.model # w.tool \/ n = q)
          /\ (kind = "model" => w.model = n /\ w.tool = q) /\ (kind = "tool" => w.tool = n /\ w.model = q)
      <3>1. CASE kind = "model"
          BY <1>1, <2>1, <3>1 DEF Works
      <3>2. CASE kind = "tool"
          BY <1>1, <2>1, <3>2 DEF Works
      <3> QED BY <3>1, <3>2
    <2> HIDE DEF w, q
    <2>3. w # NoSpan
      <3>1. NoSpan.model = None /\ NoSpan.tool = None
          BY DEF NoSpan
      <3> QED BY <1>1, <2>2, <3>1
    <2>4. current' = [current EXCEPT ![t] = w]
        BY <2>1 DEF w
    <2>5. \A hh, cc : /\ cc.framework = "governor" /\ Ordered(hh, t, n, q) /\ Ordered(hh, t, q, n)
                      => OrderlyIn(cc, w, hh, t)
        BY <2>2, <2>3 DEF OrderlyIn
    <2> QED BY <1>1, <2>2, <2>3, <2>4, <2>5
  <1>4. /\ new \in OpenSpans /\ h \in [Spans -> OpenSpans] /\ h[n] = new
        /\ new.owner = t /\ new.found = context.framework /\ new.traced = (traces[t] > 0) /\ ~new.ended
        /\ \A s \in Spans \ {n} : h[s] = held[s]
      BY <1>1 DEF OpenSpan, OpenSpans, Contexts
  <1>5. y \in Contexts /\ y.user = context.user /\ y.agent = context.agent /\ y.framework = "governor"
      BY DEF WithFramework, Contexts, Frameworks
  <1>6. /\ ctx' = [ctx EXCEPT ![t] = r.context] /\ held' = r.held /\ disordered' = r.disordered
        /\ spans' = n /\ UNCHANGED <<live, traces>>
      BY DEF Supersede, Leaves, At
  <1> HIDE DEF new, h, y, p, q, n
  <1>7. /\ r.context \in Contexts /\ r.context.user = y.user /\ r.context.agent = y.agent
        /\ r.context.framework = IF p # None /\ h[p].owner = t /\ ~h[p].ended THEN h[p].found ELSE y.framework
        /\ r.held \in [Spans -> OpenSpans]
        /\ \A s \in Spans :
             /\ r.held[s].owner = h[s].owner /\ r.held[s].found = h[s].found /\ r.held[s].traced = h[s].traced
             /\ r.held[s].ended <=> (h[s].ended \/ s = p)
        /\ disordered \subseteq r.disordered /\ r.disordered \subseteq Tasks
        /\ p # None =>
             /\ h[p].owner # t => t \in r.disordered
             /\ \A l \in Spans : l > p /\ h[l].owner = t /\ ~h[l].ended => t \in r.disordered
             /\ ~h[p].ended /\ h[p].owner # t /\ h[p].owner # None => h[p].owner \in r.disordered
    <2>1. r = Close([context |-> y, held |-> h, disordered |-> disordered], t, p)
        OBVIOUS
    <2> HIDE DEF r
    <2>2. /\ y \in Contexts /\ h \in [Spans -> OpenSpans] /\ disordered \in SUBSET Tasks /\ t \in Tasks
          /\ p \in Spans \cup {None}
        BY <1>1, <1>2, <1>4, <1>5
    <2> QED BY <2>1, <2>2, Closing
  <1> HIDE DEF r
  <1>8. spans' = n /\ n > spans /\ n \in Nat /\ p # n /\ q # n /\ (p # None => p < n) /\ (q # None => q < n)
      BY <1>1, <1>2, <1>6 DEF n
  <1>9. p # None => t \in disordered'
      BY <1>1, <1>2, <1>4, <1>6, <1>7, <1>8
  <1>10. GovernorTypeOK'
      BY <1>1, <1>3, <1>6, <1>7 DEF GovernorTypeOK
  <1>11. Owned'
    <2>1. ASSUME NEW s \in Spans, held'[s].owner # None
          PROVE  /\ held'[s].owner \in live' /\ s <= spans'
                 /\ ~held'[s].ended => s \in Works(current'[held'[s].owner])
      <3>1. CASE s = n
          BY <1>1, <1>3, <1>4, <1>6, <1>7, <1>8, <3>1
      <3>2. CASE s # n
        <4>1. held'[s].owner = held[s].owner /\ (held'[s].ended <=> (held[s].ended \/ s = p))
            BY <1>4, <1>6, <1>7, <3>2
        <4>2. /\ held[s].owner \in live /\ s <= spans
              /\ ~held[s].ended => s \in Works(current[held[s].owner])
            BY <2>1, <4>1 DEF GovernorInv, Owned
        <4>3. s <= spans'
            BY <1>1, <1>8, <4>2
        <4>4. CASE held[s].owner = t
            BY <1>2, <1>3, <1>6, <4>1, <4>2, <4>3, <4>4
        <4>5. CASE held[s].owner # t
            BY <1>3, <1>6, <4>1, <4>2, <4>3, <4>5
        <4> QED BY <4>4, <4>5
      <3> QED BY <3>1, <3>2
    <2>2. ASSUME NEW u \in Tasks
          PROVE  /\ \A s \in Works(current'[u]) : s # None => s <= spans'
                 /\ current'[u].model # None => current'[u].model # current'[u].tool
      <3>1. CASE u = t
          BY <1>1, <1>2, <1>3, <1>8, <3>1
      <3>2. CASE u # t
        <4>1. \A s \in Works(current[u]) : s \in Spans \cup {None}
            BY <1>1 DEF Works
        <4>2. current'[u] = current[u]
            BY <1>3, <3>2
        <4>3. /\ \A s \in Works(current[u]) : s # None => s <= spans
              /\ current[u].model # None => current[u].model # current[u].tool
            BY DEF GovernorInv, Owned
        <4>4. ASSUME NEW s \in Works(current[u]), s # None PROVE s <= spans'
          <5>1. s \in Nat /\ s <= spans
              BY <1>1, <4>1, <4>3, <4>4
          <5> QED BY <1>8, <5>1
        <4> QED BY <4>2, <4>3, <4>4
      <3> QED BY <3>1, <3>2
    <2> QED BY <2>1, <2>2 DEF Owned, Runs
  <1>12. InOrder'
    <2> SUFFICES ASSUME NEW u \in live, u \notin disordered' PROVE OrderlyIn(ctx'[u], current'[u], held', u)
        BY <1>6 DEF InOrder
    <2>1. u \in Tasks /\ u \notin disordered
        BY <1>6, <1>7
    <2>2. OrderlyIn(ctx[u], current[u], held, u)
        BY <2>1 DEF GovernorInv, InOrder
    <2>3. CASE u = t
      <3>1. p = None
          BY <1>9, <2>3
      <3>2. /\ (context.framework = "governor") <=> (q # None)
            /\ Ordered(held, t, q, p)
          BY <1>2, <2>2, <2>3, <3>1
      <3>3. ctx'[u].framework = "governor"
          BY <1>1, <1>5, <1>6, <1>7, <2>3, <3>1
      <3>4. Ordered(held', t, n, q)
        <4>1. ~held'[n].ended /\ held'[n].found = context.framework
            BY <1>1, <1>4, <1>6, <1>7, <1>8
        <4> QED BY <1>8, <3>2, <4>1 DEF Ordered
      <3>5. Ordered(held', t, q, n)
        <4> SUFFICES ASSUME q # None, held'[q].owner = t PROVE ~held'[q].ended /\ held'[q].found # "governor"
            BY <1>2, <1>1, <1>8 DEF Ordered
        <4>1. q \in Spans \ {n} /\ q # p
            BY <1>2, <1>8, <3>1
        <4>2. held[q].owner = t /\ held'[q].found = held[q].found /\ (held'[q].ended <=> held[q].ended)
            BY <1>4, <1>6, <1>7, <4>1
        <4> QED BY <3>1, <3>2, <4>2 DEF Ordered
      <3> QED BY <1>3, <2>3, <3>3, <3>4, <3>5
    <2>4. CASE u # t
      <3>1. ctx'[u] = ctx[u] /\ current'[u] = current[u] /\ current[u] \in [model: Spans \cup {None}, tool: Spans \cup {None}]
          BY <1>1, <1>3, <1>6, <2>1, <2>4
      <3>2. ASSUME NEW s \in Spans, held[s].owner = u \/ held'[s].owner = u
            PROVE  /\ held'[s].owner = held[s].owner /\ held'[s].found = held[s].found
                   /\ held'[s].ended => held[s].ended
        <4>1. s # n
          <5>1. held[s].owner # None => s <= spans
              BY DEF GovernorInv, Owned
          <5>2. held'[n].owner = t
              BY <1>1, <1>4, <1>6, <1>7
          <5> QED BY <1>1, <1>8, <2>1, <2>4, <3>2, <5>1, <5>2, TasksAssumption, SpansAssumption
        <4>2. /\ held'[s].owner = held[s].owner /\ held'[s].found = held[s].found
              /\ held'[s].ended <=> (held[s].ended \/ s = p)
            BY <1>4, <1>6, <1>7, <4>1
        <4>3. s = p => held[s].ended
            BY <1>1, <1>4, <1>6, <1>7, <2>1, <2>4, <3>2, <4>1, <4>2, TasksAssumption
        <4> QED BY <4>2, <4>3
      <3>3. held' \in [Spans -> OpenSpans]
          BY <1>6, <1>7
      <3> DEFINE after == held'
                 works == current[u]
                 own == ctx[u]
      <3>4. /\ OrderlyIn(own, works, held, u) /\ works \in [model: Spans \cup {None}, tool: Spans \cup {None}]
            /\ u \in Tasks \ {t} /\ after \in [Spans -> OpenSpans]
            /\ \A s \in Spans : held[s].owner = u \/ after[s].owner = u =>
                  /\ after[s].owner = held[s].owner /\ after[s].found = held[s].found
                  /\ after[s].ended => held[s].ended
          BY <2>1, <2>2, <2>4, <3>1, <3>2, <3>3
      <3> HIDE DEF after, works, own
      <3>5. OrderlyIn(own, works, after, u)
          BY <1>1, <3>4, OthersInOrder
      <3> QED BY <3>1, <3>5 DEF after, works, own
    <2> QED BY <2>3, <2>4
  <1>13. TracesHold'
    <2> SUFFICES ASSUME NEW s \in Spans, held'[s].traced, held'[s].owner # None, ~held'[s].ended
                 PROVE  traces[held'[s].owner] > 0
        BY <1>6 DEF TracesHold
    <2>1. CASE s = n
        BY <1>4, <1>6, <1>7, <2>1
    <2>2. CASE s # n
        BY <1>4, <1>6, <1>7, <2>2 DEF GovernorInv, TracesHold
    <2> QED BY <2>1, <2>2
  <1> QED BY <1>5, <1>6, <1>7, <1>10, <1>11, <1>12, <1>13 DEF GovernorInv

\* A trace ends: the spans of the task are closed, the tool's first; m is the model's.
LEMMA TraceEnds ==
    ASSUME GovernorInv, live \subseteq Tasks, ctx \in [Tasks -> Contexts], spans \in Nat,
           Runs("governor"), UNCHANGED program, NEW t \in Tasks, ExitTrace(t)
    PROVE  /\ GovernorInv'
           /\ \E x \in Contexts : ctx' = [ctx EXCEPT ![t] = x] /\ x.user = ctx[t].user /\ x.agent = ctx[t].agent
  <1> DEFINE m == current[t].model
             s == current[t].tool
             r == Close([context |-> ctx[t], held |-> held, disordered |-> disordered], t, s)
             e == Close(r, t, m)
  <1>1. /\ None \notin Spans /\ (\A l \in Spans : l \in Nat) /\ ctx[t] \in Contexts
        /\ current \in [Tasks -> [model: Spans \cup {None}, tool: Spans \cup {None}]]
        /\ held \in [Spans -> OpenSpans] /\ disordered \in SUBSET Tasks /\ traces \in [Tasks -> Nat]
        /\ t # None
      BY SpansAssumption, TasksAssumption DEF Spans, GovernorInv, GovernorTypeOK
  <1>2. /\ m \in Spans \cup {None} /\ s \in Spans \cup {None} /\ Works(current[t]) = {m, s}
        /\ m # None => m # s
        /\ (current[t] # NoSpan) <=> (m # None \/ s # None)
    <2>1. /\ current[t] \in [model: Spans \cup {None}, tool: Spans \cup {None}]
          /\ current[t].model # None => current[t].model # current[t].tool
        BY <1>1 DEF GovernorInv, Owned
    <2> QED BY <2>1 DEF NoSpan, Works
  <1>3. /\ ctx' = [ctx EXCEPT ![t] = e.context] /\ held' = e.held /\ disordered' = e.disordered
        /\ traces' = [traces EXCEPT ![t] = @ - 1] /\ current' = [current EXCEPT ![t] = NoSpan]
        /\ UNCHANGED <<live, spans>> /\ traces[t] > 0
      BY DEF ExitTrace, Leaves, At, callVars
  <1>4. r = Close([context |-> ctx[t], held |-> held, disordered |-> disordered], t, s)
      OBVIOUS
  <1> HIDE DEF m, s, r
  <1>5. /\ r = [context |-> r.context, held |-> r.held, disordered |-> r.disordered]
        /\ r.context \in Contexts /\ r.context.user = ctx[t].user /\ r.context.agent = ctx[t].agent
        /\ r.context.framework = IF s # None /\ held[s].owner = t /\ ~held[s].ended THEN held[s].found
                                 ELSE ctx[t].framework
        /\ r.held \in [Spans -> OpenSpans]
        /\ \A q \in Spans :
             /\ r.held[q].owner = held[q].owner /\ r.held[q].found = held[q].found /\ r.held[q].traced = held[q].traced
             /\ r.held[q].ended <=> (held[q].ended \/ q = s)
        /\ disordered \subseteq r.disordered /\ r.disordered \subseteq Tasks
        /\ s # None =>
             /\ held[s].owner # t => t \in r.disordered
             /\ \A l \in Spans : l > s /\ held[l].owner = t /\ ~held[l].ended => t \in r.disordered
             /\ ~held[s].ended /\ held[s].owner # t /\ held[s].owner # None => held[s].owner \in r.disordered
    <2>1. /\ ctx[t] \in Contexts /\ held \in [Spans -> OpenSpans] /\ disordered \in SUBSET Tasks /\ t \in Tasks
          /\ s \in Spans \cup {None}
        BY <1>1, <1>2
    <2> QED BY <1>4, <2>1, Closing
  <1>6. /\ e = Close([context |-> r.context, held |-> r.held, disordered |-> r.disordered], t, m)
        /\ r.disordered \in SUBSET Tasks
      BY <1>5
  <1> DEFINE rc == r.context
             rh == r.held
             rd == r.disordered
  <1>7. /\ e = Close([context |-> rc, held |-> rh, disordered |-> rd], t, m)
        /\ rc \in Contexts /\ rh \in [Spans -> OpenSpans] /\ rd \in SUBSET Tasks
      BY <1>5, <1>6
  <1> HIDE DEF e, rc, rh, rd
  <1>8. /\ e.context \in Contexts /\ e.context.user = rc.user /\ e.context.agent = rc.agent
        /\ e.context.framework = IF m # None /\ rh[m].owner = t /\ ~rh[m].ended THEN rh[m].found
                                 ELSE rc.framework
        /\ e.held \in [Spans -> OpenSpans]
        /\ \A q \in Spans :
             /\ e.held[q].owner = rh[q].owner /\ e.held[q].found = rh[q].found /\ e.held[q].traced = rh[q].traced
             /\ e.held[q].ended <=> (rh[q].ended \/ q = m)
        /\ rd \subseteq e.disordered /\ e.disordered \subseteq Tasks
        /\ m # None =>
             /\ rh[m].owner # t => t \in e.disordered
             /\ \A l \in Spans : l > m /\ rh[l].owner = t /\ ~rh[l].ended => t \in e.disordered
             /\ ~rh[m].ended /\ rh[m].owner # t /\ rh[m].owner # None => rh[m].owner \in e.disordered
    <2>1. t \in Tasks /\ m \in Spans \cup {None}
        BY <1>2
    <2> QED BY <1>7, <2>1, Closing
  <1>9. /\ \A q \in Spans :
             /\ held'[q].owner = held[q].owner /\ held'[q].found = held[q].found /\ held'[q].traced = held[q].traced
             /\ held'[q].ended <=> (held[q].ended \/ q \in {m, s})
             /\ q \in {m, s} /\ ~held[q].ended /\ held[q].owner # t /\ held[q].owner # None =>
                  held[q].owner \in disordered'
        /\ disordered \subseteq disordered' /\ disordered' \subseteq Tasks
        /\ held' \in [Spans -> OpenSpans]
    <2>1. rd = r.disordered /\ rh = r.held
        BY DEF rd, rh
    <2>2. ASSUME NEW q \in Spans
          PROVE  /\ held'[q].owner = held[q].owner /\ held'[q].found = held[q].found
                 /\ held'[q].traced = held[q].traced
                 /\ held'[q].ended <=> (held[q].ended \/ q \in {m, s})
        BY <1>3, <1>5, <1>8, <2>1
    <2>3. disordered \subseteq disordered' /\ disordered' \subseteq Tasks /\ held' \in [Spans -> OpenSpans]
        BY <1>3, <1>5, <1>8, <2>1
    <2>4. ASSUME NEW q \in Spans, q \in {m, s}, ~held[q].ended, held[q].owner # t, held[q].owner # None
          PROVE  held[q].owner \in disordered'
      <3>1. CASE q = s
          BY <1>1, <1>3, <1>5, <1>8, <2>1, <2>4, <3>1
      <3>2. CASE q = m /\ q # s
          BY <1>1, <1>3, <1>5, <1>8, <2>1, <2>4, <3>2
      <3> QED BY <2>4, <3>1, <3>2
    <2> QED BY <2>2, <2>3, <2>4
  <1>10. /\ \A u \in Tasks \ {t} : current'[u] = current[u] /\ ctx'[u] = ctx[u] /\ traces'[u] = traces[u]
         /\ current'[t] = NoSpan /\ ctx'[t] = e.context
         /\ current' \in [Tasks -> [model: Spans \cup {None}, tool: Spans \cup {None}]] /\ traces' \in [Tasks -> Nat]
    <2>1. NoSpan \in [model: Spans \cup {None}, tool: Spans \cup {None}]
        BY DEF NoSpan
    <2>2. traces[t] - 1 \in Nat
        BY <1>1, <1>3
    <2> QED BY <1>1, <1>3, <2>1, <2>2
  <1>11. GovernorTypeOK'
      BY <1>9, <1>10 DEF GovernorTypeOK
  <1>12. Owned'
    <2>1. ASSUME NEW q \in Spans, held'[q].owner # None
          PROVE  /\ held'[q].owner \in live' /\ q <= spans'
                 /\ ~held'[q].ended => held'[q].owner # t /\ q \in Works(current'[held'[q].owner])
      <3>1. /\ held[q].owner \in live /\ q <= spans /\ held'[q].owner = held[q].owner
            /\ ~held[q].ended => q \in Works(current[held[q].owner])
          BY <1>9, <2>1 DEF GovernorInv, Owned
      <3>2. CASE held[q].owner = t
        <4>1. ~held[q].ended => q \in {m, s}
            BY <1>2, <3>1, <3>2
        <4> QED BY <1>3, <1>9, <3>1, <4>1
      <3>3. CASE held[q].owner # t
          BY <1>3, <1>9, <1>10, <3>1, <3>3
      <3> QED BY <3>2, <3>3
    <2>2. ASSUME NEW u \in Tasks
          PROVE  /\ \A q \in Works(current'[u]) : q # None => q <= spans
                 /\ current'[u].model # None => current'[u].model # current'[u].tool
      <3>1. CASE u = t
          BY <1>10, <3>1 DEF Works, NoSpan
      <3>2. CASE u # t
          BY <1>10, <3>2 DEF GovernorInv, Owned
      <3> QED BY <3>1, <3>2
    <2> QED BY <1>3, <2>1, <2>2 DEF Owned, Runs
  <1>13. TracesHold'
    <2> SUFFICES ASSUME NEW q \in Spans, held'[q].traced, held'[q].owner # None, ~held'[q].ended
                 PROVE  traces'[held'[q].owner] > 0
        BY DEF TracesHold
    <2>1. held'[q].owner = held[q].owner /\ held[q].traced /\ ~held[q].ended /\ q \notin {m, s}
        BY <1>9
    <2>2. held[q].owner \in live /\ q \in Works(current[held[q].owner]) /\ traces[held[q].owner] > 0
        BY <2>1 DEF GovernorInv, Owned, TracesHold
    <2>3. held[q].owner # t
        BY <1>2, <2>1, <2>2
    <2> QED BY <1>10, <2>1, <2>2, <2>3
  <1>14. InOrder'
    <2> SUFFICES ASSUME NEW u \in live, u \notin disordered' PROVE OrderlyIn(ctx'[u], current'[u], held', u)
        BY <1>3 DEF InOrder
    <2>1. u \in Tasks /\ u \notin disordered /\ OrderlyIn(ctx[u], current[u], held, u)
        BY <1>9 DEF GovernorInv, InOrder
    <2>2. CASE u = t
      <3>1. /\ (ctx[t].framework = "governor") <=> (m # None \/ s # None)
            /\ Ordered(held, t, m, s) /\ Ordered(held, t, s, m)
          BY <1>2, <2>1, <2>2 DEF OrderlyIn, m, s
      <3>2. t \notin rd /\ t \notin e.disordered /\ rd = r.disordered /\ rh = r.held /\ rc = r.context
          BY <1>3, <1>8, <2>2 DEF rd, rh, rc
      <3>3. s # None => held[s].owner = t /\ ~held[s].ended /\ rc.framework = held[s].found
          BY <1>5, <3>1, <3>2 DEF Ordered
      <3>4. s = None => rc.framework = ctx[t].framework
          BY <1>5, <3>2
      <3>5. ctx'[t].framework # "governor"
        <4>1. CASE m = None
            BY <1>8, <1>10, <3>1, <3>2, <3>3, <3>4, <4>1 DEF Ordered
        <4>2. CASE m # None
          <5>1. m \in Spans /\ m # s
              BY <1>2, <4>2
          <5>2. rh[m].owner = t /\ held[m].owner = t
              BY <1>5, <1>8, <3>2, <4>2, <5>1
          <5>3. ~held[m].ended /\ ((held[m].found = "governor") <=> (s # None /\ s < m))
              BY <3>1, <4>2, <5>2 DEF Ordered
          <5>4. ~rh[m].ended /\ rh[m].found = held[m].found
              BY <1>5, <3>2, <5>1, <5>3
          <5>5. ~(s # None /\ s < m)
            <6> SUFFICES ASSUME s # None, s < m PROVE t \in r.disordered
                BY <3>2
            <6>1. m > s
                BY <1>1, <1>2, <5>1
            <6> QED BY <1>5, <5>1, <5>2, <5>3, <6>1
          <5> QED BY <1>8, <1>10, <4>2, <5>2, <5>3, <5>4, <5>5
        <4> QED BY <4>1, <4>2
      <3>8. NoSpan.model = None /\ NoSpan.tool = None
          BY DEF NoSpan
      <3> QED BY <1>10, <2>2, <3>5, <3>8 DEF OrderlyIn, Ordered
    <2>3. CASE u # t
      <3> DEFINE after == held'
                 works == current[u]
                 own == ctx[u]
      <3>1. own = ctx'[u] /\ works = current'[u] /\ works \in [model: Spans \cup {None}, tool: Spans \cup {None}]
            /\ u # None
          BY <1>1, <1>10, <2>1, <2>3, TasksAssumption
      <3>2. /\ OrderlyIn(own, works, held, u) /\ u \in Tasks \ {t} /\ after \in [Spans -> OpenSpans]
            /\ \A q \in Spans : held[q].owner = u \/ after[q].owner = u =>
                  /\ after[q].owner = held[q].owner /\ after[q].found = held[q].found
                  /\ after[q].ended => held[q].ended
          BY <1>9, <2>1, <2>3, <3>1
      <3> HIDE DEF after, works, own
      <3>3. OrderlyIn(own, works, after, u)
          BY <1>1, <3>1, <3>2, OthersInOrder
      <3> QED BY <3>1, <3>3 DEF after, works, own
    <2> QED BY <2>2, <2>3
  <1>15. e.context \in Contexts /\ e.context.user = ctx[t].user /\ e.context.agent = ctx[t].agent
      BY <1>5, <1>8 DEF rc
  <1> QED BY <1>3, <1>11, <1>12, <1>13, <1>14, <1>15 DEF GovernorInv

-----------------------------------------------------------------------------
\* The Governor has no calls of its own, and keeps to scopes and turns.
LEMMA GovernorKeepsCore ==
    ASSUME CoreInv, Runs("governor"), KeepsIdentity, spans' \in Nat, spans <= spans',
           UNCHANGED <<open, within, charges, answered, ungoverned, streams, correlations, disputed, saturated, listed>>
    PROVE  CoreInv' /\ AdkInv'
  <1>1. UNCHANGED <<program, live, blocks>> /\ spans \in Nat
      BY DEF KeepsIdentity, CoreInv, CallsInv, CallsTypeOK
  <1>2. IdentityInv'
      BY IdentityKept DEF CoreInv
  <1>3. CallsInv'
    <2>1. \A n : n \in 1 .. spans => n \in 1 .. spans'
        BY <1>1
    <2>2. CallsTypeOK' /\ Nested'
        BY <1>1 DEF CoreInv, CallsInv, CallsTypeOK, Nested
    <2>3. Numbered'
        BY <2>1 DEF CoreInv, CallsInv, Numbered
    <2>4. Unanswered'
        BY <2>1 DEF CoreInv, CallsInv, Unanswered
    <2> QED BY <2>2, <2>3, <2>4 DEF CallsInv
  <1>4. Sound'
      BY DEF CoreInv, Sound, ChargedToItsTurn
  <1>5. ScopeInv'
      BY <1>1 DEF CoreInv, ScopeInv, ScopesNest, ListsAreKept, Runs
  <1>6. AdkInv'
      BY <1>1 DEF AdkInv, Runs
  <1> QED BY <1>2, <1>3, <1>4, <1>5, <1>6 DEF CoreInv

LEMMA ContextsKept ==
    ASSUME CoreInv, NEW t \in Tasks, NEW x \in Contexts, ctx' = [ctx EXCEPT ![t] = x],
           x.user = ctx[t].user, x.agent = ctx[t].agent, UNCHANGED <<program, live, blocks, store>>
    PROVE  KeepsIdentity
  <1>1. ctx \in [Tasks -> Contexts]
      BY DEF CoreInv, IdentityInv, IdentityTypeOK
  <1>2. ctx' \in [Tasks -> Contexts] /\ ctx'[t] = x /\ \A u \in Tasks \ {t} : ctx'[u] = ctx[u]
      BY <1>1
  <1> QED BY <1>2 DEF KeepsIdentity

LEMMA GovernorSteps ==
    ASSUME CoreInv, GovernorInv, GovernorStep PROVE CoreInv' /\ AdkInv' /\ GovernorInv'
  <1>1. /\ Runs("governor") /\ UNCHANGED <<program, streams, correlations, disputed>>
        /\ live \subseteq Tasks /\ ctx \in [Tasks -> Contexts] /\ spans \in Nat
      BY CoreTypes, TasksAssumption DEF GovernorStep, mafVars, adkVars
  <1>2. ASSUME UNCHANGED <<identityVars, callVars, saturated, listed, current, held, disordered>>,
               traces' \in [Tasks -> Nat], \A t \in Tasks : traces'[t] >= traces[t]
        PROVE  CoreInv' /\ AdkInv' /\ GovernorInv'
    <2>1. UNCHANGED <<live, ctx, blocks, store, spans, open, within, charges, answered, ungoverned>>
        BY <1>2 DEF identityVars, callVars
    <2>2. KeepsIdentity
        BY <1>1, <2>1 DEF KeepsIdentity
    <2>3. CoreInv' /\ AdkInv'
        BY <1>1, <1>2, <2>1, <2>2, GovernorKeepsCore
    <2>4. GovernorInv'
        BY <1>1, <1>2, <2>1, GovernorKept
    <2> QED BY <2>3, <2>4
  <1>3. ASSUME FromPolicyDir \/ StopSync \/ \E provider, package \in BOOLEAN : FromControlPlane(provider, package),
               UNCHANGED <<identityVars, callVars>>
        PROVE  CoreInv' /\ AdkInv' /\ GovernorInv'
    <2>1. UNCHANGED <<saturated, listed, traces, current, held, disordered>>
        BY <1>3 DEF FromPolicyDir, StopSync, FromControlPlane, EnableDetection, observationVars
    <2>2. traces' \in [Tasks -> Nat] /\ \A t \in Tasks : traces'[t] >= traces[t]
        BY <2>1 DEF GovernorInv, GovernorTypeOK
    <2> QED BY <1>2, <1>3, <2>1, <2>2
  <1>4. ASSUME NEW t \in Tasks, EnterTrace(t), UNCHANGED observationVars
        PROVE  CoreInv' /\ AdkInv' /\ GovernorInv'
    <2>1. UNCHANGED <<identityVars, callVars, saturated, listed, current, held, disordered>>
          /\ traces' = [traces EXCEPT ![t] = @ + 1] /\ traces \in [Tasks -> Nat]
        BY <1>4 DEF EnterTrace, observationVars, GovernorInv, GovernorTypeOK
    <2>2. traces' \in [Tasks -> Nat] /\ \A u \in Tasks : traces'[u] >= traces[u]
      <3>1. \A u \in Tasks : traces[u] + 1 \in Nat /\ traces[u] \in Nat
          BY <2>1
      <3>2. traces' \in [Tasks -> Nat]
          BY <2>1, <3>1
      <3>3. ASSUME NEW u \in Tasks PROVE traces'[u] >= traces[u]
          BY <2>1, <3>1
      <3> QED BY <3>2, <3>3
    <2> QED BY <1>2, <2>1, <2>2
  <1>5. ASSUME NEW t \in live, NEW kind \in {"model", "tool"}, NEW context \in Contexts,
               context.framework = ctx[t].framework, context.user = ctx[t].user, context.agent = ctx[t].agent,
               MoreCalls, Supersede(t, kind, context), UNCHANGED observationVars
        PROVE  CoreInv' /\ AdkInv' /\ GovernorInv'
    <2>1. spans + 1 \in Spans
      <3>1. program.calls \in 0 .. MaxSpans /\ MaxSpans \in Nat
          BY ProgramsAssumption, SpansAssumption DEF CoreInv, IdentityInv, IdentityTypeOK
      <3> QED BY <1>1, <1>5, <3>1 DEF MoreCalls, Spans
    <2>2. /\ GovernorInv'
          /\ \E x \in Contexts : ctx' = [ctx EXCEPT ![t] = x] /\ x.user = context.user /\ x.agent = context.agent
        BY <1>1, <1>5, <2>1, Supersedes
    <2>3. /\ UNCHANGED <<live, blocks, store, open, within, charges, answered, ungoverned, saturated, listed>>
          /\ spans' = spans + 1 /\ t \in Tasks
        BY <1>1, <1>5 DEF Supersede, observationVars
    <2>4. KeepsIdentity
        BY <1>1, <1>5, <2>2, <2>3, ContextsKept
    <2>5. CoreInv' /\ AdkInv'
        BY <1>1, <2>3, <2>4, GovernorKeepsCore
    <2> QED BY <2>2, <2>5
  <1>6. ASSUME NEW t \in Tasks, MoreCalls, CheckInput(t) \/ AuthorizeTool(t), UNCHANGED observationVars
        PROVE  CoreInv' /\ AdkInv' /\ GovernorInv'
    <2>1. t \in live /\ ctx[t] \in Contexts
        BY <1>1, <1>6 DEF CheckInput, AuthorizeTool
    <2>2. CASE AuthorizeTool(t)
        BY <1>5, <1>6, <2>1, <2>2 DEF AuthorizeTool
    <2>3. CASE CheckInput(t)
      <3> DEFINE x == [ctx[t] EXCEPT !.turn = spans + 1]
      <3>1. x \in Contexts /\ x.user = ctx[t].user /\ x.agent = ctx[t].agent /\ x.framework = ctx[t].framework
          BY <1>1, <2>1, ContextWithTurn
      <3>2. Supersede(t, "model", x)
          BY <2>3 DEF CheckInput
      <3> HIDE DEF x
      <3> QED BY <1>5, <1>6, <2>1, <3>1, <3>2
    <2> QED BY <1>6, <2>2, <2>3
  <1>7. ASSUME NEW t \in Tasks, ExitTrace(t), UNCHANGED observationVars
        PROVE  CoreInv' /\ AdkInv' /\ GovernorInv'
    <2>1. /\ GovernorInv'
          /\ \E x \in Contexts : ctx' = [ctx EXCEPT ![t] = x] /\ x.user = ctx[t].user /\ x.agent = ctx[t].agent
        BY <1>1, <1>7, TraceEnds
    <2>2. UNCHANGED <<live, blocks, store, spans, open, within, charges, answered, ungoverned, saturated, listed>>
        BY <1>7 DEF ExitTrace, callVars, observationVars
    <2>3. KeepsIdentity
        BY <1>1, <2>1, <2>2, ContextsKept
    <2>4. CoreInv' /\ AdkInv'
        BY <1>1, <2>2, <2>3, GovernorKeepsCore
    <2> QED BY <2>1, <2>4
  <1> QED BY <1>3, <1>4, <1>6, <1>7 DEF GovernorStep

-----------------------------------------------------------------------------
\* Tasks and blocks of a program with a Governor, and of one without.
LEMMA GovernorInTasks == ASSUME CoreInv, GovernorInv, TaskStep PROVE GovernorInv'
  <1>1. UNCHANGED program /\ live \subseteq Tasks /\ ctx \in [Tasks -> Contexts]
      BY CoreTypes, TasksAssumption DEF TaskStep
  <1>2. ASSUME NEW t \in Tasks, EndOfTask(t), TaskLeavesSpans(t) PROVE GovernorInv'
    <2>1. t \in live /\ live' = live \ {t} /\ ctx' = [ctx EXCEPT ![t] = NoContext] /\ UNCHANGED spans
        BY <1>2 DEF EndOfTask, EndTask
    <2> QED BY <1>1, <1>2, <2>1, SpansLeft
  <1>3. ASSUME NEW t \in Tasks, NEW c \in Tasks, ForkTask(t, c), TaskSharesSpans(t, c) PROVE GovernorInv'
    <2>1. /\ t \in live /\ c \in Tasks \ live /\ live' = live \cup {c} /\ ctx' = [ctx EXCEPT ![c] = ctx[t]]
          /\ UNCHANGED spans
        BY <1>3 DEF ForkTask, Fork
    <2> QED BY <1>1, <1>3, <2>1, SpansShared
  <1> QED BY <1>2, <1>3 DEF TaskStep

LEMMA GovernorInBlocks == ASSUME CoreInv, GovernorInv, IdentityStep PROVE GovernorInv'
  <1>1. /\ UNCHANGED <<program, live, spans, traces, current, held, disordered>> /\ live \subseteq Tasks
        /\ ctx \in [Tasks -> Contexts] /\ traces \in [Tasks -> Nat]
      BY CoreTypes, TasksAssumption DEF IdentityStep, callVars, governorVars, ExitInnerBlock, ExitBlock, EnterBlock,
                                        SetIdentity, GovernorInv, GovernorTypeOK
  <1>2. \A t \in Tasks : ctx'[t].framework = ctx[t].framework
    <2>1. ASSUME NEW t \in live, NEW x, ctx' = [ctx EXCEPT ![t] = x], x.framework = ctx[t].framework
          PROVE  \A u \in Tasks : ctx'[u].framework = ctx[u].framework
        BY <1>1, <2>1
    <2>2. ASSUME NEW t \in live, ExitInnerBlock(t) PROVE \A u \in Tasks : ctx'[u].framework = ctx[u].framework
      <3> DEFINE b == Last(blocks[t])
                 x == RestoreHalf(RestoreHalf(ctx[t], "user", b), "agent", b)
      <3>1. x.framework = ctx[t].framework
          BY <1>1 DEF RestoreHalf, Contexts
      <3>2. ctx' = [ctx EXCEPT ![t] = x]
          BY <2>2 DEF ExitInnerBlock, ExitBlock
      <3> HIDE DEF x
      <3> QED BY <2>1, <3>1, <3>2
    <2>3. ASSUME NEW t \in live, NEW a, EnterBlock(t, a) PROVE \A u \in Tasks : ctx'[u].framework = ctx[u].framework
      <3> DEFINE x == Bind(Bind(ctx[t], "user", a.user), "agent", a.agent)
      <3>1. x.framework = ctx[t].framework
          BY <1>1 DEF Bind, Contexts
      <3>2. ctx' = [ctx EXCEPT ![t] = x]
          BY <2>3 DEF EnterBlock
      <3> HIDE DEF x
      <3> QED BY <2>1, <3>1, <3>2
    <2>4. ASSUME NEW k, NEW u, SetIdentity(k, u) PROVE UNCHANGED ctx
        BY <2>4 DEF SetIdentity
    <2> QED BY <2>2, <2>3, <2>4 DEF IdentityStep
  <1>3. \A t \in Tasks : traces'[t] >= traces[t]
      BY <1>1
  <1> QED BY <1>1, <1>2, <1>3, GovernorKept

-----------------------------------------------------------------------------
\* What is seen of the network changes nothing of the calls.
LEMMA CoreUntouched ==
    ASSUME CoreInv, AdkInv,
           UNCHANGED <<program, identityVars, spans, open, within, charges, answered, ungoverned,
                       streams, correlations, disputed>>,
           saturated' = listed'
    PROVE  CoreInv' /\ AdkInv'
  <1>1. UNCHANGED <<live, ctx, blocks, store>>
      BY DEF identityVars
  <1>2. IdentityInv'
      BY IdentityUntouched DEF CoreInv
  <1>3. CallsInv'
    <2>1. CallsTypeOK'
        BY <1>1 DEF CoreInv, CallsInv, CallsTypeOK
    <2>2. Nested' /\ Numbered'
        BY <1>1 DEF CoreInv, CallsInv, Nested, Numbered
    <2>3. Unanswered'
        BY DEF CoreInv, CallsInv, Unanswered
    <2> QED BY <2>1, <2>2, <2>3 DEF CallsInv
  <1>4. Sound'
      BY DEF CoreInv, Sound, ChargedToItsTurn
  <1>5. ScopeInv'
      BY <1>1 DEF CoreInv, ScopeInv, ScopesNest, ListsAreKept, InsideOf, Runs
  <1>6. AdkInv'
      BY <1>1 DEF AdkInv, Runs
  <1> QED BY <1>2, <1>3, <1>4, <1>5, <1>6 DEF CoreInv

SightingsAreTrue == sighting # None => sighting.tagged = IF sighting.full THEN None ELSE sighting.inside

LEMMA ObservationSteps ==
    ASSUME CoreInv, AdkInv, GovernorInv, ObservationStep, SightingsAreTrue
    PROVE  CoreInv' /\ AdkInv' /\ GovernorInv' /\ SightingsAreTrue'
  <1>1. /\ UNCHANGED <<program, identityVars, spans, open, within, charges, answered, ungoverned,
                       streams, correlations, disputed, governorVars>>
        /\ saturated = listed /\ ~Runs("governor")
    <2>1. program \in Programs
        BY DEF CoreInv, IdentityInv, IdentityTypeOK
    <2> QED BY <2>1, ProgramsAssumption DEF ObservationStep, callVars, mafVars, adkVars, CoreInv, ScopeInv,
                                            ListsAreKept, Runs
  <1>2. \A t \in live : ctx[t].framework = InsideOf(t)
      BY <1>1, CoreTypes, TasksAssumption DEF CoreInv, ScopeInv, ScopesNest
  <1>3. saturated' = listed' /\ SightingsAreTrue'
    <2>1. ASSUME DisableMcp \/ (\E provider, package \in BOOLEAN : EnableDetection(provider, package))
                   \/ \E list \in SUBSET Buckets \cup {None} : UpdateFromBundleMeta(list)
          PROVE  saturated' = listed' /\ SightingsAreTrue'
      <3>1. UNCHANGED sighting /\ saturated' = listed'
          BY <1>1, <2>1 DEF DisableMcp, EnableDetection, UpdateFromBundleMeta
      <3> QED BY <3>1 DEF SightingsAreTrue
    <2>2. ASSUME NEW t \in live, NEW b \in Buckets, McpCallTool(t, b, InsideOf(t))
          PROVE  saturated' = listed' /\ SightingsAreTrue'
        BY <1>1, <1>2, <2>2 DEF McpCallTool, SightingsAreTrue
    <2>3. ASSUME NEW t \in live, NEW b \in Buckets, NEW shaped \in BOOLEAN, SpanStarts(t, b, shaped, InsideOf(t))
          PROVE  saturated' = listed' /\ SightingsAreTrue'
        BY <1>1, <1>2, <2>3 DEF SpanStarts, SightingsAreTrue
    <2> QED BY <2>1, <2>2, <2>3 DEF ObservationStep
  <1>4. CoreInv' /\ AdkInv'
      BY <1>1, <1>3, CoreUntouched
  <1>5. GovernorInv'
      BY <1>1, GovernorIdle
  <1> QED BY <1>3, <1>4, <1>5

\* The parts without a framework, the response checks, and what is not seen.
LEMMA OtherSteps ==
    ASSUME CoreInv, AdkInv, GovernorInv,
           \/ ScorerStep \/ ResolverStep \/ KeyStep \/ RegistryStep \/ AuditStep \/ UNCHANGED vars
    PROVE  CoreInv' /\ AdkInv' /\ GovernorInv' /\ sighting' = sighting /\ inherited' = inherited
  <1>1. UNCHANGED <<program, identityVars, spans, open, within, charges, answered, ungoverned,
                    mafVars, adkVars, governorVars, observationVars>>
      BY DEF ScorerStep, LoadScorers, ResolverStep, KeyStep, RegistryStep, AuditStep, NoFramework, callVars, vars
  <1>2. UNCHANGED <<live, ctx, inherited, streams, correlations, disputed, saturated, listed, sighting,
                    traces, current, held, disordered>>
      BY <1>1 DEF identityVars, mafVars, adkVars, governorVars, observationVars
  <1>3. CoreInv' /\ AdkInv'
    <2>1. saturated' = listed'
        BY <1>2 DEF CoreInv, ScopeInv, ListsAreKept
    <2> QED BY <1>1, <1>2, <2>1, CoreUntouched
  <1>4. GovernorInv'
    <2>1. traces' \in [Tasks -> Nat] /\ (\A t \in Tasks : traces'[t] >= traces[t]) /\ live \subseteq Tasks
        BY <1>2, CoreTypes, TasksAssumption DEF GovernorInv, GovernorTypeOK
    <2> QED BY <1>1, <1>2, <2>1, GovernorKept
  <1> QED BY <1>2, <1>3, <1>4

LEMMA Inheritance == ASSUME CoreInv, Inherits, Next PROVE Inherits'
  <1>1. ASSUME MafStep \/ AdkStep \/ LangGraphStep
        PROVE  inherited' = inherited \/ \E t \in Tasks : EndTask(t)
    <2>1. ASSUME MafStep PROVE inherited' = inherited
        BY <2>1 DEF MafStep, MafModelStart, MafToolStart, MafModelFinish, MafToolFinish, MafModelFails, MafStreamReturns,
                    MafToolRaises, MafStreamDropped, MafStreamFinalizes, identityVars
    <2>2. ASSUME LangGraphStep PROVE inherited' = inherited
        BY <2>2 DEF LangGraphStep, LgModelStart, LgToolStart, LgModelFinish, LgReturns, LgAfterAgent
    <2>3. ASSUME AdkStep PROVE inherited' = inherited \/ \E t \in Tasks : EndTask(t)
        BY <2>3 DEF AdkStep, AdkModelStart, AdkToolStart, AdkModelFinish, AdkToolFinish, AdkModelFails, AdkToolRaises,
                    AdkAfterRun, identityVars
    <2> QED BY <1>1, <2>1, <2>2, <2>3
  <1>2. ASSUME GovernorStep PROVE inherited' = inherited
      BY <1>2 DEF GovernorStep, CheckInput, AuthorizeTool, Supersede, EnterTrace, ExitTrace, identityVars
  <1>3. ASSUME TaskStep
        PROVE  (\E t \in Tasks : EndTask(t)) \/ \E t \in live, c \in Tasks : Fork(t, c)
      BY <1>3 DEF TaskStep, EndOfTask, ForkTask
  <1>4. ASSUME IdentityStep \/ ObservationStep PROVE inherited' = inherited
      BY <1>4 DEF IdentityStep, ObservationStep, ExitInnerBlock, ExitBlock, EnterBlock, SetIdentity, identityVars
  <1>5. ASSUME ScorerStep \/ ResolverStep \/ KeyStep \/ RegistryStep \/ AuditStep PROVE inherited' = inherited
      BY <1>5 DEF ScorerStep, ResolverStep, KeyStep, RegistryStep, AuditStep, NoFramework, identityVars
  <1>6. ASSUME NEW t \in Tasks, EndTask(t) PROVE Inherits'
      BY <1>6 DEF EndTask, Inherits
  <1>7. ASSUME NEW t \in live, NEW c \in Tasks, Fork(t, c) PROVE Inherits'
    <2>1. Len(blocks[t]) \in Nat
        BY LenProperties DEF CoreInv, IdentityInv, IdentityTypeOK
    <2> DEFINE k == Len(blocks[t])
    <2> HIDE DEF k
    <2>2. inherited' = [inherited EXCEPT ![c] = k] /\ k \in Nat
        BY <1>7, <2>1 DEF Fork, k
    <2> QED BY <2>2 DEF Inherits
  <1> QED BY <1>1, <1>2, <1>3, <1>4, <1>5, <1>6, <1>7 DEF Next, Inherits

-----------------------------------------------------------------------------
\* The inductive invariant.
CallsAreGoverned == CoreInv /\ AdkInv /\ Inherits /\ GovernorInv /\ SightingsAreTrue

LEMMA FirstCalls == ASSUME Init PROVE CallsAreGoverned
  <1>1. /\ program \in Programs /\ live = {Root} /\ ctx = [t \in Tasks |-> NoContext]
        /\ blocks = [t \in Tasks |-> <<>>] /\ inherited = [t \in Tasks |-> 0] /\ store = [k \in Keys |-> None]
        /\ spans = 0 /\ answered = {} /\ within = [t \in Tasks |-> None] /\ open = [t \in Tasks |-> <<>>]
        /\ charges = [s \in Spans |-> 0] /\ ungoverned = {} /\ streams = {}
        /\ correlations = [i \in Invocations |-> None] /\ disputed = {}
        /\ saturated = {} /\ listed = {} /\ sighting = None
      BY DEF Init, IdentityInit, CallsInit, MafInit, AdkInit, ObservationInit
  <1>2. /\ traces = [t \in Tasks |-> 0] /\ current = [t \in Tasks |-> NoSpan] /\ held = [s \in Spans |-> Unheld]
        /\ disordered = {}
      BY DEF Init, GovernorInit
  <1>3. NoContext \in Contexts /\ <<>> \in Seq(Blocks) /\ <<>> \in Seq(Captured) /\ Len(<<>>) = 0
      BY EmptySeq DEF NoContext, Contexts
  <1>4. IdentityInv
    <2>1. IdentityTypeOK
        BY <1>1, <1>3, TasksAssumption DEF IdentityTypeOK
    <2>2. SaysWhatBlocksSay
        BY <1>1, <1>3, SaidOfNone DEF SaysWhatBlocksSay, SaidBy, NoContext
    <2> QED BY <2>1, <2>2 DEF IdentityInv
  <1>5. CallsInv
    <2>1. CallsTypeOK
        BY <1>1, <1>3 DEF CallsTypeOK
    <2>2. Nested /\ Numbered /\ Unanswered
        BY <1>1, <1>3 DEF Nested, Numbered, Unanswered
    <2> QED BY <2>1, <2>2 DEF CallsInv
  <1>6. Sound
      BY <1>1, <1>3 DEF Sound, ChargedToItsTurn
  <1>7. ScopeInv
    <2>1. \A t \in Tasks : InsideOf(t) = None
        BY <1>1, <1>3, InsideOfNone DEF InsideOf
    <2>2. \A t \in Tasks : ctx[t].framework = None
        BY <1>1 DEF NoContext
    <2> QED BY <1>1, <1>3, <2>1, <2>2 DEF ScopeInv, ScopesNest, ListsAreKept
  <1>8. AdkInv
      BY <1>1, <1>3 DEF AdkInv
  <1>9. Inherits /\ SightingsAreTrue
      BY <1>1 DEF Inherits, SightingsAreTrue
  <1>10. GovernorInv
    <2>1. /\ NoSpan \in [model: Spans \cup {None}, tool: Spans \cup {None}] /\ NoSpan.model = None /\ NoSpan.tool = None
          /\ Unheld \in OpenSpans /\ Unheld.owner = None /\ Unheld.ended
        BY DEF NoSpan, Unheld, OpenSpan, OpenSpans
    <2>2. GovernorTypeOK
        BY <1>2, <2>1 DEF GovernorTypeOK
    <2>3. Owned
        BY <1>2, <2>1 DEF Owned, Works
    <2>4. InOrder
      <3> SUFFICES ASSUME NEW t \in live PROVE OrderlyIn(ctx[t], current[t], held, t)
          BY DEF InOrder
      <3>1. t \in Tasks
          BY <1>1, TasksAssumption
      <3>2. current[t] = NoSpan /\ ctx[t].framework = None
          BY <1>1, <1>2, <3>1 DEF NoContext
      <3>3. None # "governor"
          BY FrameworksAssumption DEF Frameworks
      <3> QED BY <2>1, <3>2, <3>3 DEF OrderlyIn, Ordered
    <2>5. TracesHold
        BY <1>2, <2>1 DEF TracesHold
    <2> QED BY <2>2, <2>3, <2>4, <2>5 DEF GovernorInv
  <1> QED BY <1>4, <1>5, <1>6, <1>7, <1>8, <1>9, <1>10 DEF CallsAreGoverned, CoreInv

LEMMA AllSteps == ASSUME CallsAreGoverned, [Next]_vars PROVE CallsAreGoverned'
  <1>1. CoreInv /\ AdkInv /\ Inherits /\ GovernorInv /\ SightingsAreTrue
      BY DEF CallsAreGoverned
  <1>2. ASSUME MafStep \/ LangGraphStep
        PROVE  CoreInv' /\ AdkInv' /\ GovernorInv' /\ SightingsAreTrue'
    <2>1. CoreInv'
        BY <1>1, <1>2, MafSteps, LgSteps
    <2>2. /\ ~Runs("adk") /\ ~Runs("governor")
          /\ UNCHANGED <<program, sighting, governorVars>>
        BY <1>2 DEF MafStep, LangGraphStep, Runs, observationVars
    <2>3. AdkInv' /\ SightingsAreTrue'
        BY <1>1, <2>2 DEF AdkInv, SightingsAreTrue, Runs
    <2>4. GovernorInv'
        BY <1>1, <2>2, GovernorIdle
    <2> QED BY <2>1, <2>3, <2>4
  <1>3. ASSUME AdkStep
        PROVE  CoreInv' /\ AdkInv' /\ GovernorInv' /\ SightingsAreTrue'
    <2>1. CoreInv' /\ AdkInv'
        BY <1>1, <1>3, AdkSteps
    <2>2. ~Runs("governor") /\ UNCHANGED <<program, sighting, governorVars>>
        BY <1>3 DEF AdkStep, Runs, observationVars
    <2>3. SightingsAreTrue'
        BY <1>1, <2>2 DEF SightingsAreTrue
    <2>4. GovernorInv'
        BY <1>1, <2>2, GovernorIdle
    <2> QED BY <2>1, <2>3, <2>4
  <1>4. ASSUME GovernorStep
        PROVE  CoreInv' /\ AdkInv' /\ GovernorInv' /\ SightingsAreTrue'
    <2>1. UNCHANGED sighting
        BY <1>4 DEF GovernorStep, FromPolicyDir, StopSync, FromControlPlane, EnableDetection, observationVars
    <2> QED BY <1>1, <1>4, <2>1, GovernorSteps DEF SightingsAreTrue
  <1>5. ASSUME TaskStep
        PROVE  CoreInv' /\ AdkInv' /\ GovernorInv' /\ SightingsAreTrue'
    <2>1. UNCHANGED sighting
        BY <1>5 DEF TaskStep, observationVars
    <2> QED BY <1>1, <1>5, <2>1, TaskSteps, GovernorInTasks DEF SightingsAreTrue
  <1>6. ASSUME IdentityStep
        PROVE  CoreInv' /\ AdkInv' /\ GovernorInv' /\ SightingsAreTrue'
    <2>1. UNCHANGED sighting
        BY <1>6 DEF IdentityStep, observationVars
    <2> QED BY <1>1, <1>6, <2>1, IdentitySteps, GovernorInBlocks DEF SightingsAreTrue
  <1>7. ASSUME ObservationStep
        PROVE  CoreInv' /\ AdkInv' /\ GovernorInv' /\ SightingsAreTrue'
      BY <1>1, <1>7, ObservationSteps
  <1>8. ASSUME ScorerStep \/ ResolverStep \/ KeyStep \/ RegistryStep \/ AuditStep \/ UNCHANGED vars
        PROVE  CoreInv' /\ AdkInv' /\ GovernorInv' /\ SightingsAreTrue'
      BY <1>1, <1>8, OtherSteps DEF SightingsAreTrue
  <1>9. Inherits'
    <2>1. CASE Next
        BY <1>1, <2>1, Inheritance
    <2>2. CASE UNCHANGED vars
        BY <1>1, <2>2 DEF vars, identityVars, Inherits
    <2> QED BY <2>1, <2>2
  <1>10. CoreInv' /\ AdkInv' /\ GovernorInv' /\ SightingsAreTrue'
      BY <1>2, <1>3, <1>4, <1>5, <1>6, <1>7, <1>8 DEF Next
  <1> QED BY <1>9, <1>10 DEF CallsAreGoverned

\* In every state a call that runs was started, and is judged, as the blocks around
\* it say, its usage is accounted for once, and scopes are in the order they were
\* opened, whatever framework the program embeds (maf.py, adk.py, langgraph.py, govern.py).
THEOREM CallsStayGoverned == Spec => []CallsAreGoverned
  <1> QED BY FirstCalls, AllSteps, PTL DEF Spec

\* No call runs, and no result goes on, under another identity than the one the
\* program asserted where the call started: the handlers of the adapters and the
\* identity blocks of scoped_data.py.
THEOREM NothingUngoverned == Spec => []NothingRunsUngoverned
  <1>1. ASSUME CallsAreGoverned PROVE NothingRunsUngoverned
    <2>1. CoreInv
        BY <1>1 DEF CallsAreGoverned
    <2>2. ASSUME NEW c \in OpenCalls, c.span \notin disputed PROVE c.who = c.asserted
      <3>1. PICK t \in Tasks : c \in ToSet(open[t])
          BY DEF OpenCalls
      <3>2. PICK n \in DOMAIN open[t] : c = open[t][n]
          BY <3>1 DEF ToSet
      <3>3. DOMAIN open[t] = 1 .. Len(open[t])
          BY <2>1, LenProperties DEF CoreInv, CallsInv, CallsTypeOK
      <3> QED BY <2>1, <2>2, <3>2, <3>3 DEF CoreInv, Sound
    <2> QED BY <2>1, <2>2 DEF NothingRunsUngoverned, CoreInv, Sound
  <1> QED BY <1>1, CallsStayGoverned, PTL

\* The usage that comes back of a model call is charged once, under its own turn: the
\* accounting of the adapters in CostTracker's ids, streams included.
THEOREM ChargedOnce == Spec => []ChargedToItsTurn
  <1>1. CallsAreGoverned => ChargedToItsTurn
      BY DEF CallsAreGoverned, CoreInv, Sound
  <1> QED BY <1>1, CallsStayGoverned, PTL

\* What is observed is tagged with the framework whose governed call it happens in,
\* and a Governor's scopes and spans end as they should: FrameworkScope.reset of
\* observation.py, _supersede and _OpenSpan.close of govern.py.
THEOREM SightingsAreInside == Spec => []ObservedInside
  <1>1. ASSUME CallsAreGoverned PROVE ObservedInside
    <2>1. SightingsAreTrue /\ InOrder /\ TracesHold
        BY <1>1 DEF CallsAreGoverned, GovernorInv
    <2>2. Runs("governor") => \A t \in live \ disordered : (ctx[t].framework = "governor") <=> (current[t] # NoSpan)
        BY <2>1 DEF InOrder, OrderlyIn
    <2> QED BY <2>1, <2>2 DEF ObservedInside, SightingsAreTrue, TracesHold
  <1> QED BY <1>1, CallsStayGoverned, PTL

-----------------------------------------------------------------------------
(* The registry and the keys.                                               *)


\* No other part of the process touches the registry or the keys.
LEMMA RegistryAlone == ASSUME [Next]_vars PROVE RegistryNext \/ UNCHANGED registryVars
  <1>1. CASE RegistryStep
      BY <1>1 DEF RegistryStep
  <1>2. CASE MafStep \/ AdkStep \/ LangGraphStep \/ GovernorStep \/ TaskStep \/ IdentityStep
             \/ ObservationStep \/ ScorerStep
      BY <1>2 DEF MafStep, AdkStep, LangGraphStep, GovernorStep, TaskStep, IdentityStep,
                  ObservationStep, ScorerStep, NoParts
  <1>3. CASE ResolverStep \/ KeyStep \/ AuditStep \/ UNCHANGED vars
      BY <1>3 DEF ResolverStep, KeyStep, AuditStep, vars
  <1> QED BY <1>1, <1>2, <1>3 DEF Next

LEMMA KeysAlone == ASSUME [Next]_vars PROVE KeyNext \/ UNCHANGED keyVars
  <1>1. CASE KeyStep
      BY <1>1 DEF KeyStep
  <1>2. CASE MafStep \/ AdkStep \/ LangGraphStep \/ GovernorStep \/ TaskStep \/ IdentityStep
             \/ ObservationStep \/ ScorerStep
      BY <1>2 DEF MafStep, AdkStep, LangGraphStep, GovernorStep, TaskStep, IdentityStep,
                  ObservationStep, ScorerStep, NoParts
  <1>3. CASE ResolverStep \/ RegistryStep \/ AuditStep \/ UNCHANGED vars
      BY <1>3 DEF ResolverStep, RegistryStep, AuditStep, vars
  <1> QED BY <1>1, <1>2, <1>3 DEF Next

-----------------------------------------------------------------------------
RegistryTypeOK ==
    /\ started \in Nat
    /\ builder \in [Threads -> [at: {"rest", "boot", "reset"}, source: Sources \cup {Free},
                                stops: SUBSET (Nat \cup {Free})]]
    /\ holder \in Threads \cup {Free}
    /\ registry \in [Sources -> Nat \cup {Free}]
    /\ pollers \in SUBSET [id: Nat \ {0}, source: Sources, told: BOOLEAN]

\* A thread that builds is the only one, for a key without an entry; and only
\* a reset has pollers to tell.
Alone == \A b \in Threads :
            /\ builder[b].at = "boot" => /\ holder = b /\ builder[b].source \in Sources
                                         /\ registry[builder[b].source] = Free
            /\ builder[b].at # "reset" => builder[b].stops = {}

RegistryInv == RegistryTypeOK /\ Alone /\ OnePollerPerAgent

USE FreeAssumption

LEMMA RegistryEnters ==
    ASSUME RegistryInv, NEW b \in Threads, NEW k \in Sources, Enter(b, k)
    PROVE  RegistryInv'
  <1> USE DEF RegistryInv, RegistryTypeOK, Enter, Admits, AtRest
  <1>1. RegistryTypeOK'
      OBVIOUS
  <1>2. Alone'
      BY DEF Alone
  <1>3. OnePollerPerAgent'
      BY DEF OnePollerPerAgent
  <1> QED BY <1>1, <1>2, <1>3

LEMMA RegistryBootFails ==
    ASSUME RegistryInv, NEW b \in Threads, BootFails(b)
    PROVE  RegistryInv'
  <1> USE DEF RegistryInv, RegistryTypeOK, BootFails, AtRest
  <1>1. RegistryTypeOK'
      OBVIOUS
  <1>2. Alone'
      BY DEF Alone
  <1>3. OnePollerPerAgent'
      BY DEF OnePollerPerAgent, Alone
  <1> QED BY <1>1, <1>2, <1>3

\* No poller that counts is left of the key an engine is built for.
LEMMA RegistryBuilds ==
    ASSUME RegistryInv, NEW b \in Threads, NEW remote \in BOOLEAN, Built(b, remote)
    PROVE  RegistryInv'
  <1> USE DEF RegistryInv, RegistryTypeOK
  <1> DEFINE k == builder[b].source
             id == IF remote THEN started + 1 ELSE 0
  <1>1. /\ k \in Sources /\ registry[k] = Free /\ builder[b].stops = {} /\ holder = b
        /\ \A c \in Threads : builder[c].at = "boot" => c = b
      BY DEF Built, Alone
  <1>2. /\ registry' = [registry EXCEPT ![k] = id] /\ id \in Nat
        /\ holder' = Free /\ builder' = [builder EXCEPT ![b] = AtRest]
        /\ started' \in Nat
        /\ \/ pollers' = pollers \cup {[id |-> id, source |-> k, told |-> FALSE]} /\ id # 0
           \/ pollers' = pollers
      BY DEF Built
  <1> HIDE DEF id
  <1>3. RegistryTypeOK'
    <2>1. builder' \in [Threads -> [at: {"rest", "boot", "reset"}, source: Sources \cup {Free},
                                    stops: SUBSET (Nat \cup {Free})]]
        BY <1>2 DEF AtRest
    <2>2. registry' \in [Sources -> Nat \cup {Free}]
        BY <1>1, <1>2
    <2>3. pollers' \in SUBSET [id: Nat \ {0}, source: Sources, told: BOOLEAN]
      <3>1. CASE id # 0 /\ pollers' = pollers \cup {[id |-> id, source |-> k, told |-> FALSE]}
        <4>1. [id |-> id, source |-> k, told |-> FALSE] \in [id: Nat \ {0}, source: Sources, told: BOOLEAN]
            BY <1>1, <1>2, <3>1
        <4> QED BY <3>1, <4>1
      <3>2. CASE pollers' = pollers
          BY <3>2
      <3> QED BY <1>2, <3>1, <3>2
    <2>4. holder' \in Threads \cup {Free} /\ started' \in Nat
        BY <1>2
    <2> QED BY <2>1, <2>2, <2>3, <2>4
  <1>4. Alone'
      BY <1>1, <1>2 DEF Alone, AtRest
  <1>5. OnePollerPerAgent'
    <2>1. ASSUME NEW x \in pollers
          PROVE  \/ x.told
                 \/ \E c \in Threads : x.id \in builder'[c].stops
                 \/ registry'[x.source] = x.id
      <3>1. CASE x.told \/ registry[x.source] = x.id
          BY <1>1, <1>2, <3>1
      <3>2. CASE \E c \in Threads : x.id \in builder[c].stops
          BY <1>1, <1>2, <3>2
      <3> QED BY <3>1, <3>2 DEF OnePollerPerAgent
    <2>2. registry'[k] = id
        BY <1>1, <1>2
    <2> QED BY <1>2, <2>1, <2>2 DEF OnePollerPerAgent
  <1> QED BY <1>3, <1>4, <1>5

\* What a reset takes out of the registry is what it will tell.
LEMMA RegistryClears ==
    ASSUME RegistryInv, NEW b \in Threads, ResetClears(b)
    PROVE  RegistryInv'
  <1> USE DEF RegistryInv, RegistryTypeOK
  <1> DEFINE stops == {registry[k] : k \in Sources} \ {Free, 0}
  <1>1. /\ builder[b].stops = {} /\ builder[b].at = "rest" /\ builder[b].source = Free
        /\ holder = Free /\ registry' = [k \in Sources |-> Free]
        /\ builder' = [builder EXCEPT ![b].at = "reset", ![b].stops = stops]
        /\ UNCHANGED <<holder, pollers, started>>
      BY DEF ResetClears, AtRest
  <1>2. stops \in SUBSET (Nat \cup {Free})
      OBVIOUS
  <1>3. RegistryTypeOK'
    <2> HIDE DEF stops
    <2>1. builder' \in [Threads -> [at: {"rest", "boot", "reset"}, source: Sources \cup {Free},
                                    stops: SUBSET (Nat \cup {Free})]]
      <3>1. builder'[b] = [at |-> "reset", source |-> Free, stops |-> stops]
          BY <1>1
      <3>2. \A c \in Threads : c # b => builder'[c] = builder[c]
          BY <1>1
      <3>3. builder' = [c \in Threads |-> builder'[c]]
          BY <1>1
      <3> QED BY <1>2, <3>1, <3>2, <3>3
    <2>2. registry' \in [Sources -> Nat \cup {Free}]
        BY <1>1
    <2> QED BY <1>1, <2>1, <2>2
  <1>4. Alone'
      BY <1>1 DEF Alone
  <1>5. OnePollerPerAgent'
    <2> SUFFICES ASSUME NEW x \in pollers, ~x.told
                 PROVE  \E c \in Threads : x.id \in builder'[c].stops
        BY <1>1 DEF OnePollerPerAgent
    <2>1. CASE registry[x.source] = x.id
      <3>1. x.id \in stops
          BY <2>1
      <3> QED BY <1>1, <3>1
    <2>2. CASE \E c \in Threads : x.id \in builder[c].stops
        BY <1>1, <2>2
    <2> QED BY <2>1, <2>2 DEF OnePollerPerAgent
  <1> QED BY <1>3, <1>4, <1>5

LEMMA RegistryTells ==
    ASSUME RegistryInv, NEW b \in Threads, ResetTells(b)
    PROVE  RegistryInv'
  <1> USE DEF RegistryInv, RegistryTypeOK
  <1>1. /\ pollers' = {[x EXCEPT !.told = @ \/ x.id \in builder[b].stops] : x \in pollers}
        /\ builder' = [builder EXCEPT ![b] = AtRest] /\ builder[b].at = "reset"
        /\ UNCHANGED <<holder, registry, started>>
      BY DEF ResetTells
  <1>2. ASSUME NEW y \in pollers'
        PROVE  \E x \in pollers : /\ y.id = x.id /\ y.source = x.source
                                  /\ y.told <=> (x.told \/ x.id \in builder[b].stops)
                                  /\ y \in [id: Nat \ {0}, source: Sources, told: BOOLEAN]
    <2>1. PICK x \in pollers : y = [x EXCEPT !.told = @ \/ x.id \in builder[b].stops]
        BY <1>1, <1>2
    <2> QED BY <2>1
  <1>3. RegistryTypeOK'
      BY <1>1, <1>2 DEF AtRest
  <1>4. Alone'
      BY <1>1 DEF Alone, AtRest
  <1>5. OnePollerPerAgent'
    <2> SUFFICES ASSUME NEW y \in pollers', ~y.told
                 PROVE  \/ \E c \in Threads : y.id \in builder'[c].stops
                        \/ registry'[y.source] = y.id
        BY DEF OnePollerPerAgent
    <2>1. PICK x \in pollers : /\ y.id = x.id /\ y.source = x.source
                               /\ ~x.told /\ x.id \notin builder[b].stops
        BY <1>2
    <2> QED BY <1>1, <2>1 DEF OnePollerPerAgent
  <1> QED BY <1>3, <1>4, <1>5

LEMMA RegistrySteps == ASSUME RegistryInv, RegistryNext PROVE RegistryInv'
  <1>1. CASE \E x \in pollers : PollerEnds(x)
      BY <1>1 DEF PollerEnds, RegistryInv, RegistryTypeOK, Alone, OnePollerPerAgent
  <1> QED BY <1>1, RegistryEnters, RegistryBootFails, RegistryBuilds, RegistryClears, RegistryTells
          DEF RegistryNext

LEMMA RegistryUntouched == RegistryInv /\ UNCHANGED registryVars => RegistryInv'
  <1> QED BY DEF RegistryInv, RegistryTypeOK, Alone, OnePollerPerAgent, registryVars

\* An agent that is constructed again has the poller it already had: at most
\* one was not told to end (build_middleware, reset_middleware_registry).
THEOREM AgentsHaveOnePoller == Spec => []OnePollerPerAgent
  <1>1. Init => RegistryInv
      BY DEF Init, RegistryInit, RegistryInv, RegistryTypeOK, Alone, OnePollerPerAgent, AtRest
  <1>2. RegistryInv /\ [Next]_vars => RegistryInv'
      BY RegistryAlone, RegistrySteps, RegistryUntouched
  <1>3. RegistryInv => OnePollerPerAgent
      BY DEF RegistryInv
  <1> QED BY <1>1, <1>2, <1>3, PTL DEF Spec

-----------------------------------------------------------------------------
Places == {"down", "missing", "write", "register", "poll"}
KeyTypeOK ==
    /\ keyfile \in [Files -> Nat \cup {NoKey, Torn}]
    /\ signs \in [Peps -> [Signers -> Nat \cup {NoKey}]]
    /\ at \in [Peps -> Places]
    /\ verifiers \in [current: Nat \cup {NoKey}, previous: Nat \cup {NoKey}]
    /\ made \in Nat /\ crashes \in Nat
    /\ lost \in SUBSET Clients
    /\ since \in [Clients -> 0 .. 2]
    /\ displaced \in SUBSET Peps

\* The key a client signs with is where the registrations that came since its
\* own have moved it, unless its own was lost.
Placed == \A p \in Peps, c \in Signers :
    InUse(p, c) /\ <<p, c>> \notin lost =>
        /\ since[<<p, c>>] = 0 => verifiers.current = signs[p][c]
        /\ since[<<p, c>>] = 1 => verifiers.previous = signs[p][c]

\* A process that has its key has it from its file, or has written it there.
FileHolds == \A p \in Peps \ displaced :
    at[p] \in {"register", "poll"} /\ Persistent(p) => keyfile[FileOf[p]] = signs[p]["poll"]

TornWhileWritten == \A f \in Files : keyfile[f] = Torn =>
    crashes > 0 \/ \E p \in Peps : FileOf[p] = f /\ at[p] = "write"

KeyInv == KeyTypeOK /\ Placed /\ FileHolds /\ TornWhileWritten

\* A step of a process that puts no key of another's in use and registers none.
LEMMA KeyStaysPlaced ==
    ASSUME KeyInv, NEW p \in Peps, UNCHANGED verifiers,
           \A q \in Peps, c \in Signers :
               /\ InUse(q, c)' => InUse(q, c) /\ signs'[q][c] = signs[q][c]
               /\ InUse(q, c)' => since'[<<q, c>>] = since[<<q, c>>]
               /\ InUse(q, c)' /\ <<q, c>> \notin lost' => <<q, c>> \notin lost
    PROVE  Placed'
  <1> SUFFICES ASSUME NEW q \in Peps, NEW c \in Signers, InUse(q, c)', <<q, c>> \notin lost'
               PROVE  /\ since'[<<q, c>>] = 0 => verifiers'.current = signs'[q][c]
                      /\ since'[<<q, c>>] = 1 => verifiers'.previous = signs'[q][c]
      BY DEF Placed
  <1> QED BY DEF KeyInv, Placed

LEMMA KeyLoads ==
    ASSUME KeyInv, NEW p \in Peps, Load(p)
    PROVE  KeyInv'
  <1> USE KeysAssumption
  <1>1. /\ at[p] = "down" /\ FileOf[p] \in Files /\ keyfile[FileOf[p]] \in Nat
        /\ signs' = [signs EXCEPT ![p] = [c \in Signers |-> keyfile[FileOf[p]]]]
        /\ at' = [at EXCEPT ![p] = "register"]
        /\ displaced' = displaced \ {p}
        /\ UNCHANGED <<keyfile, verifiers, made, crashes, lost, since>>
      BY DEF KeyInv, KeyTypeOK, Load, Persistent
  <1>2. KeyTypeOK'
      BY <1>1 DEF KeyInv, KeyTypeOK, Places
  <1>3. Placed'
    <2>1. \A c \in Signers : ~InUse(p, c)'
        BY <1>1 DEF KeyInv, KeyTypeOK, InUse, Signers
    <2>2. \A q \in Peps \ {p} : signs'[q] = signs[q] /\ at'[q] = at[q]
        BY <1>1 DEF KeyInv, KeyTypeOK
    <2> QED BY <1>1, <2>1, <2>2, KeyStaysPlaced DEF InUse
  <1>4. FileHolds'
      BY <1>1 DEF KeyInv, KeyTypeOK, FileHolds, Persistent, Signers
  <1>5. TornWhileWritten'
      BY <1>1 DEF KeyInv, KeyTypeOK, TornWhileWritten
  <1> QED BY <1>2, <1>3, <1>4, <1>5 DEF KeyInv

\* A process that finds no file, or clears a torn one away.
LEMMA KeyFinds ==
    ASSUME KeyInv, NEW p \in Peps, FindNone(p) \/ RemoveTorn(p)
    PROVE  KeyInv'
  <1> USE KeysAssumption
  <1>1. /\ at[p] = "down" /\ FileOf[p] \in Files
        /\ UNCHANGED <<signs, verifiers, made, crashes, lost, since, displaced>>
        /\ \/ at' = [at EXCEPT ![p] = "missing"] /\ UNCHANGED keyfile
           \/ /\ keyfile[FileOf[p]] = Torn /\ UNCHANGED at
              /\ keyfile' = [keyfile EXCEPT ![FileOf[p]] = NoKey]
      BY DEF FindNone, RemoveTorn, Persistent
  <1>2. \A q \in Peps : at'[q] \in {"register", "poll", "write"} \/ at[q] \in {"register", "poll", "write"}
                            => at'[q] = at[q]
      BY <1>1 DEF KeyInv, KeyTypeOK
  <1>3. KeyTypeOK'
      BY <1>1 DEF KeyInv, KeyTypeOK, Places
  <1>4. Placed'
      BY <1>1, <1>2, KeyStaysPlaced DEF InUse
  <1>5. \A q \in Peps : signs[q]["poll"] # Torn
      BY DEF KeyInv, KeyTypeOK, Signers
  <1>6. FileHolds'
    <2> SUFFICES ASSUME NEW q \in Peps \ displaced, at[q] \in {"register", "poll"}, Persistent(q)
                 PROVE  keyfile'[FileOf[q]] = signs[q]["poll"]
        BY <1>1, <1>2 DEF FileHolds, Persistent
    <2>1. keyfile[FileOf[q]] = signs[q]["poll"] /\ FileOf[q] \in Files
        BY DEF KeyInv, FileHolds, Persistent
    <2> QED BY <1>1, <1>5, <2>1 DEF KeyInv, KeyTypeOK
  <1>7. TornWhileWritten'
    <2> SUFFICES ASSUME NEW f \in Files, keyfile'[f] = Torn
                 PROVE  crashes > 0 \/ \E q \in Peps : FileOf[q] = f /\ at'[q] = "write"
        BY <1>1 DEF TornWhileWritten
    <2>1. keyfile[f] = Torn
        BY <1>1 DEF KeyInv, KeyTypeOK
    <2> QED BY <1>2, <2>1 DEF KeyInv, TornWhileWritten
  <1> QED BY <1>3, <1>4, <1>6, <1>7 DEF KeyInv

\* A key made for both clients of a process that starts, or for the poller of
\* one that rotates.
LEMMA KeyMakes ==
    ASSUME KeyInv, NEW p \in Peps, Create(p) \/ Rotate(p)
    PROVE  KeyInv'
  <1> USE KeysAssumption
  <1>1. PICK clients \in SUBSET Signers :
            /\ Make(p, clients)
            /\ "poll" \in clients
            /\ at[p] # "write"
            /\ clients = Signers \/ at[p] = "poll"
      BY DEF Create, Rotate, Signers
  <1>2. /\ made' = made + 1 /\ made + 1 \in Nat
        /\ signs' = [signs EXCEPT ![p] = [c \in Signers |-> IF c \in clients THEN made + 1 ELSE @[c]]]
        /\ at' = [at EXCEPT ![p] = IF Persistent(p) THEN "write" ELSE "register"]
        /\ keyfile' = [f \in Files |-> IF f = FileOf[p] THEN Torn ELSE keyfile[f]]
        /\ displaced' = (displaced \cup Sharers(p)) \ {p}
        /\ UNCHANGED <<verifiers, crashes, lost, since>>
      BY <1>1 DEF Make, Displaces, KeyInv, KeyTypeOK
  <1>3. at'[p] = (IF Persistent(p) THEN "write" ELSE "register")
      BY <1>2 DEF KeyInv, KeyTypeOK
  <1>4. \A q \in Peps \ {p} : signs'[q] = signs[q] /\ at'[q] = at[q]
      BY <1>2 DEF KeyInv, KeyTypeOK
  <1>5. \A c \in Signers : signs'[p][c] = IF c \in clients THEN made + 1 ELSE signs[p][c]
      BY <1>2 DEF KeyInv, KeyTypeOK
  <1>6. KeyTypeOK'
      BY <1>2 DEF KeyInv, KeyTypeOK, Places, Sharers
  <1>7. Placed'
    <2>1. ASSUME NEW c \in Signers, InUse(p, c)'
          PROVE  InUse(p, c) /\ signs'[p][c] = signs[p][c]
        BY <1>1, <1>3, <1>5, <2>1 DEF InUse, Signers
    <2> QED BY <1>2, <1>4, <2>1, KeyStaysPlaced DEF InUse
  <1>8. FileHolds'
    <2> SUFFICES ASSUME NEW q \in Peps \ displaced', at'[q] \in {"register", "poll"}, Persistent(q)
                 PROVE  keyfile'[FileOf[q]] = signs'[q]["poll"]
        BY DEF FileHolds, Persistent
    <2>1. q # p
        BY <1>3
    <2>2. q \notin displaced /\ q \notin Sharers(p)
        BY <1>2, <2>1
    <2>3. FileOf[q] # FileOf[p] /\ FileOf[q] \in Files
        BY <2>2 DEF Sharers, Persistent
    <2> QED BY <1>2, <1>4, <2>1, <2>2, <2>3 DEF KeyInv, FileHolds
  <1>9. TornWhileWritten'
    <2> SUFFICES ASSUME NEW f \in Files, keyfile'[f] = Torn
                 PROVE  crashes > 0 \/ \E q \in Peps : FileOf[q] = f /\ at'[q] = "write"
        BY <1>2 DEF TornWhileWritten
    <2>1. CASE f = FileOf[p]
        BY <1>3, <2>1 DEF Persistent
    <2>2. CASE f # FileOf[p]
        BY <1>1, <1>2, <1>4, <2>2 DEF KeyInv, TornWhileWritten
    <2> QED BY <2>1, <2>2
  <1> QED BY <1>6, <1>7, <1>8, <1>9 DEF KeyInv

LEMMA KeyWrites ==
    ASSUME KeyInv, NEW p \in Peps, WriteFile(p)
    PROVE  KeyInv'
  <1> USE KeysAssumption
  <1>1. /\ at[p] = "write"
        /\ keyfile' = [keyfile EXCEPT ![FileOf[p]] = signs[p]["poll"]]
        /\ at' = [at EXCEPT ![p] = "register"]
        /\ displaced' = (displaced \cup Sharers(p)) \ {p}
        /\ UNCHANGED <<signs, verifiers, made, crashes, lost, since>>
      BY DEF WriteFile, Displaces, AfterWrite
  <1>2. at'[p] = "register" /\ \A q \in Peps \ {p} : at'[q] = at[q]
      BY <1>1 DEF KeyInv, KeyTypeOK
  <1>3. KeyTypeOK'
    <2>1. signs[p]["poll"] \in Nat \cup {NoKey, Torn}
        BY DEF KeyInv, KeyTypeOK, Signers
    <2>2. keyfile' \in [Files -> Nat \cup {NoKey, Torn}]
        BY <1>1, <2>1 DEF KeyInv, KeyTypeOK
    <2> QED BY <1>1, <2>2 DEF KeyInv, KeyTypeOK, Places, Sharers
  <1>4. Placed'
    <2>1. \A q \in Peps, c \in Signers : InUse(q, c)' => InUse(q, c)
        BY <1>1, <1>2 DEF InUse
    <2> QED BY <1>1, <2>1, KeyStaysPlaced
  <1>5. FileHolds'
    <2> SUFFICES ASSUME NEW q \in Peps \ displaced', at'[q] \in {"register", "poll"}, Persistent(q)
                 PROVE  keyfile'[FileOf[q]] = signs[q]["poll"]
        BY <1>1 DEF FileHolds, Persistent
    <2>1. FileOf[q] \in Files
        BY DEF Persistent
    <2>2. CASE q = p
        BY <1>1, <2>1, <2>2 DEF KeyInv, KeyTypeOK
    <2>3. CASE q # p
      <3>1. q \notin displaced /\ q \notin Sharers(p)
          BY <1>1, <2>3
      <3>2. FileOf[q] # FileOf[p]
          BY <2>1, <3>1 DEF Sharers, Persistent
      <3> QED BY <1>1, <1>2, <2>1, <2>3, <3>1, <3>2 DEF KeyInv, KeyTypeOK, FileHolds
    <2> QED BY <2>2, <2>3
  <1>6. TornWhileWritten'
    <2> SUFFICES ASSUME NEW f \in Files, keyfile'[f] = Torn
                 PROVE  crashes > 0 \/ \E q \in Peps : FileOf[q] = f /\ at'[q] = "write"
        BY <1>1 DEF TornWhileWritten
    <2>1. signs[p]["poll"] # Torn
        BY DEF KeyInv, KeyTypeOK, Signers
    <2>2. f # FileOf[p] /\ keyfile[f] = Torn
        BY <1>1, <2>1 DEF KeyInv, KeyTypeOK
    <2> QED BY <1>2, <2>2 DEF KeyInv, TornWhileWritten
  <1> QED BY <1>3, <1>4, <1>5, <1>6 DEF KeyInv

\* A registration that lands moves the key before it to the second place.
LEMMA KeyRegisters ==
    ASSUME KeyInv, NEW p \in Peps, NEW landed \in BOOLEAN, Register(p, landed)
    PROVE  KeyInv'
  <1> USE KeysAssumption
  <1>1. /\ at[p] = "register" /\ at' = [at EXCEPT ![p] = "poll"]
        /\ UNCHANGED <<keyfile, signs, made, crashes, displaced>>
      BY DEF Register
  <1>2. at'[p] = "poll" /\ \A q \in Peps \ {p} : at'[q] = at[q]
      BY <1>1 DEF KeyInv, KeyTypeOK
  <1>3. ASSUME NEW q \in Peps, NEW c \in Signers, InUse(q, c)', <<q, c>> \notin Renewed(p)
        PROVE  InUse(q, c)
      BY <1>1, <1>2, <1>3 DEF InUse, Renewed, Clients
  <1>4. KeyTypeOK' /\ Placed'
    <2>1. CASE landed
      <3>1. /\ verifiers' = [current |-> signs[p]["poll"], previous |-> verifiers.current]
            /\ lost' = lost \ Renewed(p)
            /\ since' = [c \in Clients |->
                   IF c \in Renewed(p) THEN 0 ELSE IF since[c] = 2 THEN 2 ELSE since[c] + 1]
          BY <2>1 DEF Register
      <3>2. KeyTypeOK'
        <4>1. since' \in [Clients -> 0 .. 2]
            BY <3>1 DEF KeyInv, KeyTypeOK
        <4>2. verifiers' \in [current: Nat \cup {NoKey}, previous: Nat \cup {NoKey}]
            BY <3>1 DEF KeyInv, KeyTypeOK, Signers
        <4> QED BY <1>1, <3>1, <4>1, <4>2 DEF KeyInv, KeyTypeOK, Places
      <3>3. Placed'
        <4> SUFFICES ASSUME NEW q \in Peps, NEW c \in Signers, InUse(q, c)', <<q, c>> \notin lost'
                     PROVE  /\ since'[<<q, c>>] = 0 => verifiers'.current = signs'[q][c]
                            /\ since'[<<q, c>>] = 1 => verifiers'.previous = signs'[q][c]
            BY DEF Placed
        <4>1. <<q, c>> \in Clients
            BY DEF Clients
        <4>2. CASE <<q, c>> \in Renewed(p)
          <5>1. signs[q][c] = signs[p]["poll"]
              BY <4>2 DEF Renewed
          <5>2. since'[<<q, c>>] = 0
              BY <3>1, <4>1, <4>2
          <5> QED BY <1>1, <3>1, <5>1, <5>2
        <4>3. CASE <<q, c>> \notin Renewed(p)
          <5>1. InUse(q, c) /\ <<q, c>> \notin lost
              BY <1>3, <3>1, <4>3
          <5>2. since[<<q, c>>] \in 0 .. 2
              BY <4>1 DEF KeyInv, KeyTypeOK
          <5>3. since'[<<q, c>>] = IF since[<<q, c>>] = 2 THEN 2 ELSE since[<<q, c>>] + 1
              BY <3>1, <4>1, <4>3
          <5>4. since[<<q, c>>] = 0 => verifiers.current = signs[q][c]
              BY <5>1 DEF KeyInv, Placed
          <5> QED BY <1>1, <3>1, <5>2, <5>3, <5>4
        <4> QED BY <4>2, <4>3
      <3> QED BY <3>2, <3>3
    <2>2. CASE ~landed
      <3>1. lost' = lost \cup Renewed(p) /\ UNCHANGED <<verifiers, since>>
          BY <2>2 DEF Register
      <3>2. KeyTypeOK'
          BY <1>1, <3>1 DEF KeyInv, KeyTypeOK, Places, Renewed
      <3>3. Placed'
          BY <1>1, <1>3, <3>1 DEF KeyInv, Placed
      <3> QED BY <3>2, <3>3
    <2> QED BY <2>1, <2>2
  <1>5. FileHolds'
      BY <1>1, <1>2 DEF KeyInv, FileHolds, Persistent
  <1>6. TornWhileWritten'
      BY <1>1, <1>2 DEF KeyInv, TornWhileWritten
  <1> QED BY <1>4, <1>5, <1>6 DEF KeyInv

LEMMA KeyDies ==
    ASSUME KeyInv, NEW p \in Peps, Die(p)
    PROVE  KeyInv'
  <1>1. /\ crashes' = crashes + 1
        /\ at' = [at EXCEPT ![p] = "down"]
        /\ signs' = [signs EXCEPT ![p] = NotRunning]
        /\ lost' = {c \in lost : c[1] # p}
        /\ since' = [c \in Clients |-> IF c[1] = p THEN 0 ELSE since[c]]
        /\ displaced' = displaced \ {p}
        /\ UNCHANGED <<keyfile, verifiers, made>>
      BY DEF Die
  <1>2. /\ at'[p] = "down" /\ signs'[p] = NotRunning
        /\ \A q \in Peps \ {p} : signs'[q] = signs[q] /\ at'[q] = at[q]
      BY <1>1 DEF KeyInv, KeyTypeOK
  <1>3. KeyTypeOK'
    <2>1. since' \in [Clients -> 0 .. 2]
        BY <1>1 DEF KeyInv, KeyTypeOK
    <2> QED BY <1>1, <2>1 DEF KeyInv, KeyTypeOK, Places, NotRunning
  <1>4. Placed'
    <2>1. \A c \in Signers : ~InUse(p, c)'
        BY <1>2 DEF InUse, NotRunning, Signers
    <2>2. \A q \in Peps \ {p}, c \in Signers :
              since'[<<q, c>>] = since[<<q, c>>] /\ (<<q, c>> \notin lost' => <<q, c>> \notin lost)
        BY <1>1 DEF Clients
    <2> QED BY <1>1, <1>2, <2>1, <2>2, KeyStaysPlaced DEF InUse
  <1>5. FileHolds'
      BY <1>1, <1>2 DEF KeyInv, FileHolds, Persistent
  <1>6. TornWhileWritten'
      BY <1>1 DEF KeyInv, KeyTypeOK, TornWhileWritten
  <1> QED BY <1>3, <1>4, <1>5, <1>6 DEF KeyInv

LEMMA KeySteps == ASSUME KeyInv, KeyNext PROVE KeyInv'
  <1> PICK p \in Peps :
          \/ Load(p) \/ FindNone(p) \/ Create(p) \/ Rotate(p) \/ WriteFile(p) \/ Die(p) \/ RemoveTorn(p)
          \/ \E landed \in BOOLEAN : Register(p, landed)
      BY DEF KeyNext
  <1> QED BY KeyLoads, KeyFinds, KeyMakes, KeyWrites, KeyRegisters, KeyDies

LEMMA KeysUntouched == KeyInv /\ UNCHANGED keyVars => KeyInv'
  <1> QED BY DEF KeyInv, KeyTypeOK, Placed, FileHolds, TornWhileWritten, InUse, keyVars

\* The poller and the ReviewClient of a process sign with keys the control
\* plane verifies, unless a registration was lost or two others came; the file
\* a process starts from has the key it polls with, unless another shares it;
\* and it is torn only by a writer (pep_identity.py, control_plane.py, govern.py).
THEOREM KeysVerify == Spec => []KeysStayUsable
  <1>1. Init => KeyInv
    <2> SUFFICES ASSUME KeyInit PROVE KeyInv
        BY DEF Init
    <2> USE KeysAssumption DEF KeyInit
    <2>1. KeyTypeOK
        BY DEF KeyTypeOK, Places, NotRunning
    <2>2. Placed
        BY DEF Placed, InUse, NotRunning, Signers
    <2>3. FileHolds /\ TornWhileWritten
        BY DEF FileHolds, TornWhileWritten
    <2> QED BY <2>1, <2>2, <2>3 DEF KeyInv
  <1>2. KeyInv /\ [Next]_vars => KeyInv'
      BY KeysAlone, KeySteps, KeysUntouched
  <1>3. KeyInv => KeysStayUsable
    <2> SUFFICES ASSUME KeyInv PROVE KeysStayUsable
        OBVIOUS
    <2>1. ASSUME NEW p \in Peps, NEW c \in Signers, InUse(p, c), <<p, c>> \notin lost, since[<<p, c>>] # 2
          PROVE  Verifies(signs[p][c])
      <3>1. since[<<p, c>>] = 0 \/ since[<<p, c>>] = 1
          BY <2>1 DEF KeyInv, KeyTypeOK, Clients
      <3> QED BY <2>1, <3>1 DEF KeyInv, Placed, Verifies
    <2> QED BY <2>1 DEF KeyInv, FileHolds, TornWhileWritten, KeysStayUsable
  <1> QED BY <1>1, <1>2, <1>3, PTL DEF Spec

=============================================================================
