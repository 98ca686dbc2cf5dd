------------------------------ MODULE CodeAudit ------------------------------
(***************************************************************************)
(* parapet_audit_codebase (mcp-server audit.py): which sites of a Python     *)
(* project construct agents, runners and model clients that nothing governs. *)
(* The files are scanned one after the other; one that cannot be read or     *)
(* parsed is reported as skipped.  The findings are acted on one by one, each *)
(* as it recommends, and the audit is run again (the report's "Next step", the *)
(* skill audit-fix).                                                         *)
(*                                                                         *)
(* A file is [parses, imports, calls], what its syntax tree shows: imports a *)
(* sequence of [name, asname, construct], calls a set of [line, callee,      *)
(* tools, sourced, use, names, passed]: is tools= there, is a policy source  *)
(* given, is the result "dropped", "bound" to names or "used" on the spot,   *)
(* and which names are in its middleware=[...] or plugins=[...].             *)
(***************************************************************************)
EXTENDS Naturals, Sequences, SequencesExt

CONSTANTS
    MaxFiles    \* _MAX_FILES_SCANNED

ASSUME MaxFilesAssumption == MaxFiles \in Nat

VARIABLES
    scanning,   \* the files still to be scanned
    scanned,    \* those that were, in order
    depends,    \* _scan_dependencies: [framework, sdk], are they listed
    findings,   \* [file, line, severity, category], file by its place in scanned
    skipped,    \* the places of those that cannot be read or parsed
    reported,   \* the report is written
    followed,   \* the finding acted on since the audit before, NoFinding at first
    earlier     \* the high findings of that audit

auditVars == <<scanning, scanned, depends, findings, skipped, reported, followed, earlier>>

Finding(file, line, severity, category) ==
    [file |-> file, line |-> line, severity |-> severity, category |-> category]
NoFinding == Finding(0, 0, "", "")

AuditInit ==
    /\ scanning = <<>> /\ scanned = <<>>
    /\ depends = [framework |-> FALSE, sdk |-> FALSE]
    /\ findings = {} /\ skipped = {} /\ reported = TRUE
    /\ followed = NoFinding /\ earlier = {}

\* audit_codebase is called for a project, of which no more than MaxFiles are
\* looked at (_iter_python_files).
BeginAudit(project, dependencies) ==
    /\ reported
    /\ scanning' = SubSeq(project, 1, IF Len(project) < MaxFiles THEN Len(project) ELSE MaxFiles)
    /\ depends' = dependencies
    /\ scanned' = <<>> /\ findings' = {} /\ skipped' = {} /\ reported' = FALSE
    /\ followed' = NoFinding /\ earlier' = {}

-----------------------------------------------------------------------------
\* visit_Import, visit_ImportFrom: the name an import binds.
Bound(import) == IF import.asname # "" THEN import.asname ELSE import.name
Binding(f, callee) == {i \in DOMAIN f.imports : Bound(f.imports[i]) = callee}

\* Fault: what is called by the framework's name is taken for the framework's.
ResolveByConvention(f, callee) ==
    IF callee = "Agent" THEN "raw"
    ELSE IF Binding(f, callee) = {} THEN "other" ELSE f.imports[Max(Binding(f, callee))].construct
\* _ImportVisitor and _resolve: what a callee is, by the last import that binds
\* its name; a name no import binds is nothing the scanner knows.
Resolve(f, callee) ==
    IF Binding(f, callee) = {} THEN "other" ELSE f.imports[Max(Binding(f, callee))].construct

CallsOf(f, construct) == {c \in f.calls : Resolve(f, c.callee) = construct}
Governs(f) == CallsOf(f, "governed") \cup CallsOf(f, "builder") # {}
Registered(f) == UNION {c.passed : c \in f.calls}

\* _emit_ungoverned_construction, _emit_governed_construction, the dropped
\* builders of _visit_call, _reconcile_registrations and the clients of
\* _scan_file.
FindingsOf(f, n) ==
    {Finding(n, c.line, IF c.tools THEN "high" ELSE "medium",
             IF c.tools THEN "ungoverned-tool-call" ELSE "ungoverned-model-call") : c \in CallsOf(f, "raw")}
    \cup {Finding(n, c.line, IF c.sourced THEN "low" ELSE "medium",
                  IF c.sourced THEN "governed" ELSE "generic-policy-only") : c \in CallsOf(f, "governed")}
    \cup {Finding(n, c.line, "high", "ungoverned-registration") :
            c \in {b \in CallsOf(f, "builder") :
                    \/ b.use = "dropped"
                    \/ b.use = "bound" /\ b.names # {} /\ b.names \cap Registered(f) = {}}}
    \cup {Finding(n, c.line, "medium", "raw-model-client") :
            c \in IF Governs(f) THEN {} ELSE CallsOf(f, "client")}

\* _scan_file.
ScanFile ==
    /\ scanning # <<>>
    /\ LET f == Head(scanning) n == Len(scanned) + 1 IN
       /\ scanned' = Append(scanned, f)
       /\ IF f.parses
          THEN findings' = findings \cup FindingsOf(f, n) /\ UNCHANGED skipped
          ELSE skipped' = skipped \cup {n} /\ UNCHANGED findings
    /\ scanning' = Tail(scanning)
    /\ UNCHANGED <<depends, reported, followed, earlier>>

\* Some scanned file imports parapetai_agent, whatever of it: "sdk" is what the
\* scanner gives no other meaning to, a Governor for one.
ImportsSdk ==
    \E n \in DOMAIN scanned \ skipped :
        \E i \in DOMAIN scanned[n].imports : scanned[n].imports[i].construct \in {"governed", "builder", "sdk"}

\* The rest of audit_codebase: a project with a framework and no way to govern.
Report ==
    /\ scanning = <<>> /\ ~reported
    /\ findings' = IF depends.framework /\ ~depends.sdk /\ ~ImportsSdk
                   THEN findings \cup {Finding(0, 0, "high", "framework-present-no-governance")}
                   ELSE findings
    /\ reported' = TRUE
    /\ UNCHANGED <<scanning, scanned, depends, skipped, followed, earlier>>

-----------------------------------------------------------------------------
High(found) == {x \in found : x.severity = "high"}

\* "Swap the import for parapetai_agent's GovernedAgent", under the name the
\* other had: the import that is in force at the site.
Swapped(f, callee) ==
    [f EXCEPT !.imports[Max(Binding(f, callee))] =
        [name |-> "GovernedAgent", asname |-> callee, construct |-> "governed"]]

\* "Assign the result and pass it into middleware=[...]", where an agent or a
\* runner is constructed in the same file.
Registering(f, build, site) ==
    LET names == IF build.names = {} THEN {"mw"} ELSE build.names IN
    [f EXCEPT !.calls = (@ \ {build, site}) \cup
        {[build EXCEPT !.use = "bound", !.names = names], [site EXCEPT !.passed = @ \cup names]}]

\* The ways to do in a file what one of its findings recommends.
Fixes(f, x) ==
    {Swapped(f, c.callee) : c \in {d \in f.calls : x.category = "ungoverned-tool-call" /\ d.line = x.line}}
    \cup {Registering(f, b[1], b[2]) : b \in {pair \in f.calls \X f.calls :
            /\ x.category = "ungoverned-registration"
            /\ pair[1].line = x.line
            /\ Resolve(f, pair[2].callee) \in {"raw", "governed"}}}

\* A high finding is acted on, and the audit starts again.
Fix(x) ==
    /\ reported /\ x \in High(findings)
    /\ \/ /\ x.category = "framework-present-no-governance"
          /\ depends' = [depends EXCEPT !.sdk = TRUE] /\ scanning' = scanned
       \/ /\ x.file \in DOMAIN scanned
          /\ \E f \in Fixes(scanned[x.file], x) : scanning' = [scanned EXCEPT ![x.file] = f]
          /\ UNCHANGED depends
    /\ followed' = x /\ earlier' = High(findings)
    /\ scanned' = <<>> /\ findings' = {} /\ skipped' = {} /\ reported' = FALSE

-----------------------------------------------------------------------------
\* What a finding recommends settles it ("re-run this audit to confirm the
\* count went down"): the audit after it no longer has that high finding, and
\* no high one that the audit before it had not; so as many fixes as there are
\* high findings leave none, whatever names the classes go by.
FixesShow == reported /\ followed # NoFinding => High(findings) \subseteq earlier \ {followed}
=============================================================================
