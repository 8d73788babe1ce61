---------------------------- MODULE MCProvingJobs ----------------------------
(* Two clients; two bundles that spend one nullifier and one that does not. *)
EXTENDS ProvingJobs, TLC

CONSTANTS p, q, r, x, y

Spends == (p :> {"n"}) @@ (q :> {"n", "m"}) @@ (r :> {"k"})
=============================================================================
