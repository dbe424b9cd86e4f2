------------------------------ MODULE Permission ------------------------------
(***************************************************************************)
(* agentwright/runtime/policy.py: what an action policy decides about an   *)
(* action.  A policy is a default and a sequence of overrides; the glob    *)
(* pattern of an override is the set of actions it matches.                *)
(***************************************************************************)
EXTENDS Naturals, Sequences

Policies == {"allow", "deny", "require_approval"}

Override(actions) == [matches : SUBSET actions, policy : Policies]

Matching(overrides, a) == {i \in DOMAIN overrides : a \in overrides[i].matches}

\* The first override that matches decides, else the default.
Decision(default, overrides, a) ==
  IF Matching(overrides, a) = {} THEN default
  ELSE overrides[CHOOSE i \in Matching(overrides, a) :
                   \A j \in Matching(overrides, a) : i <= j].policy
=============================================================================
