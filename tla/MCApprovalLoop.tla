----------------------------- MODULE MCApprovalLoop -----------------------------
(* One waiting caller and one gateway request that may present the caller's *)
(* ticket, for the same call or for another.                                *)
EXTENDS ApprovalLoop
================================================================================
