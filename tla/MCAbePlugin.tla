----------------------------- MODULE MCAbePlugin -----------------------------
(***************************************************************************)
(* AbePlugin with policies that are single attributes.                     *)
(***************************************************************************)
EXTENDS AbePlugin

MCPolicies == {<<"role", "manager">>}
MCSatisfies(scheme, attrs, policy) == policy \in attrs
MCParses(scheme, policy) == TRUE
===============================================================================
