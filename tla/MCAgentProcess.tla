--------------------------- MODULE MCAgentProcess ---------------------------
(***************************************************************************)
(* Thirteen programs: each framework with identities, each framework      *)
(* observed, the Governor, and the four parts that run without one.       *)
(***************************************************************************)
EXTENDS AgentProcess

CONSTANTS alice, bob, robot, key1, signed, mail, sessionUser, p1, p2, p3, default

Embeds(framework, calls, asserts) ==
    [does |-> "agents", framework |-> framework, calls |-> calls, asserts |-> asserts,
     observed |-> asserts = {}]
Without(part) == [does |-> part, framework |-> "none", calls |-> 0, asserts |-> {}, observed |-> FALSE]

MCPrograms == {
    Embeds("maf", 2, {"claims"}), Embeds("maf", 1, {"claims", "agents"}), Embeds("maf", 2, {}),
    Embeds("adk", 2, {"stored"}), Embeds("adk", 1, {"agents"}), Embeds("adk", 2, {}),
    Embeds("langgraph", 1, {"tokens"}), Embeds("langgraph", 3, {}),
    [Embeds("governor", 2, {}) EXCEPT !.observed = FALSE],
    Without("tokens"), Without("keys"), Without("registry"), Without("audit")}

\* One ADK agent, observed.
MCAdkPrograms == {Embeds("adk", 2, {})}

\* Alice with her roles, Bob who has none; a call may be given nothing, Bob's
\* claims alone, or no claims with Bob's roles and an agent.
MCEndUsers == {[claims |-> alice, roles |-> alice], [claims |-> bob, roles |-> Nobody]}
MCGiven == {NothingGiven, [NothingGiven EXCEPT !.claims = bob],
            [claims |-> Nobody, roles |-> bob, agent |-> robot]}

\* A vendor's tool that declares no credential, and a local one that does.
MCTools == {[declared |-> None, vendor |-> TRUE], [declared |-> signed, vendor |-> FALSE]}

\* Two processes of one user, and one that keeps no file.
MCFileOf == [p \in {p1, p2, p3} |-> IF p = p3 THEN NoFile ELSE default]

Import(name, asname, construct) == [name |-> name, asname |-> asname, construct |-> construct]
Construction(line, callee, tools, sourced, use, names, passed) ==
    [line |-> line, callee |-> callee, tools |-> tools, sourced |-> sourced, use |-> use,
     names |-> names, passed |-> passed]
File(imports, calls) == [parses |-> TRUE, imports |-> imports, calls |-> calls]

Agent == Import("Agent", "", "raw")
Builder == Import("build_middleware", "", "builder")
RawAgent(tools, passed) == Construction(2, "Agent", tools, FALSE, "used", {}, passed)
Build(use, names) == Construction(1, "build_middleware", FALSE, TRUE, use, names, {})

Governor == File(<<Import("Client", "", "client"), Import("Governor", "", "sdk")>>,
                 {Construction(1, "Client", FALSE, FALSE, "used", {}, {})})
Unreadable == [parses |-> FALSE, imports |-> <<>>, calls |-> {}]

MCFiles == {
    File(<<Agent>>, {RawAgent(TRUE, {})}),
    File(<<Agent>>, {RawAgent(FALSE, {})}),
    File(<<Import("Agent", "Bot", "raw")>>, {Construction(1, "Bot", TRUE, FALSE, "used", {}, {})}),
    File(<<Import("Agent", "Raw", "raw"), Import("GovernedAgent", "Agent", "governed")>>,
         {Construction(1, "Agent", TRUE, TRUE, "used", {}, {})}),
    File(<<Import("GovernedAgent", "", "governed")>>,
         {Construction(1, "GovernedAgent", TRUE, FALSE, "used", {}, {})}),
    File(<<Agent, Builder>>, {Build("dropped", {}), RawAgent(FALSE, {})}),
    File(<<Agent, Builder>>, {Build("bound", {"mw"}), RawAgent(FALSE, {"mw"})}),
    File(<<Agent, Builder>>, {Build("bound", {"mw"}), RawAgent(FALSE, {"other"})}),
    File(<<Builder>>, {Build("used", {})}),
    File(<<Import("Client", "", "client")>>, {Construction(1, "Client", FALSE, FALSE, "used", {}, {})}),
    File(<<Agent, Import("GovernedAgent", "Agent", "governed")>>,
         {Construction(1, "Agent", TRUE, FALSE, "used", {}, {})}),
    Governor,
    File(<<Agent, Builder>>, {Build("bound", {"mw"}), RawAgent(TRUE, {"mw"})}),
    File(<<>>, {}),
    Unreadable}
MCOthers == {File(<<Agent, Builder>>, {Build("dropped", {}), RawAgent(TRUE, {})}), Governor, Unreadable}
MCProjects == {<<f, g>> : f \in MCFiles, g \in MCOthers}
MCDependencies == [framework : BOOLEAN, sdk : BOOLEAN]
=============================================================================
