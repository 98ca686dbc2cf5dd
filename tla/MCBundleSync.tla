------------------------------ MODULE MCBundleSync ------------------------------
(* Two policy files, the entities file and the content-check file.          *)
EXTENDS BundleSync

CONSTANTS base, extra, v1, v2, cut, bad, absent

MCContents == {v1, v2, cut, bad}

Bundle(b, x, e, c) ==
    [n \in {base, extra, EntitiesName, ChecksName} |->
        CASE n = base -> b [] n = extra -> x [] n = EntitiesName -> e [] OTHER -> c]

\* The layout changes: files, entities and checks come and go.
Full     == Bundle(v1, v1, v1, v1)
Reduced  == Bundle(v2, absent, absent, absent)
\* A push whose policy does not compile and that carries no checks.
BadPush  == Bundle(bad, v1, absent, absent)
\* A push with malformed checks.
BadCheck == Bundle(v2, v2, v1, bad)

\* Whatever is published, when nothing is persisted; bundles of one layout
\* where files are never removed from the directory; and for the gateway
\* bundles without entities, whose engine and watcher then read the same.
MCBundles ==
    [memory  |-> {Full, Reduced, BadPush, BadCheck},
     persist |-> {Full, Bundle(v2, v2, v2, v2), Bundle(v1, v2, v1, v2)},
     gateway |-> {Bundle(v1, v1, absent, absent), Bundle(v2, v2, absent, absent)}]

\* The same with bad pushes to a persisting SDK, and with entities for the
\* gateway.
MCHarsherBundles ==
    [MCBundles EXCEPT !.persist = {Full, Reduced, BadPush, BadCheck},
                      !.gateway = {Bundle(v1, v1, v1, absent), Bundle(v2, v2, v2, absent)}]

Nothing  == [n \in {base, extra, EntitiesName} |-> absent]
LocalV1  == [Nothing EXCEPT ![base] = v1]
================================================================================
