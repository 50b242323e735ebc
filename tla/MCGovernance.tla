----------------------------- MODULE MCGovernance -----------------------------
(* Instances of Governance for TLC. *)
EXTENDS Governance, TLC

CallSymmetry == Permutations(Calls)

MCAccesses ==
  {[status |-> "APPROVED", tier |-> "FREE"], [status |-> "BLOCKED", tier |-> "FREE"],
   [status |-> "APPROVED", tier |-> "PRO"]}

\* Nothing set; the user's tools allowed, or their use denied; a bundle that
\* holds the capability given to the user; a flag set against it.
MCPolicies ==
  {DefaultPolicy,
   [DefaultPolicy EXCEPT !.override["user"] = "allow"],
   [DefaultPolicy EXCEPT !.override["user"] = "deny"],
   [DefaultPolicy EXCEPT !.bundles = {"user"}],
   [DefaultPolicy EXCEPT !.closed = TRUE]}

=============================================================================
