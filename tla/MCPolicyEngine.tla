----------------------------- MODULE MCPolicyEngine -----------------------------
(* Two policy texts; the post variant of one of them does not compile with  *)
(* the second entities list, so one build in four is rejected.              *)
EXTENDS PolicyEngine

CONSTANTS t1, t2, e1, e2

MCCompiles == ({t1, t2} \X {e1, e2} \X Variants) \ {<<t2, e2, "post">>}
================================================================================
