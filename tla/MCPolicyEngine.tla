--------------------------- MODULE MCPolicyEngine ---------------------------
(* Instances of PolicyEngine for TLC: three rule ids, rules of two         *)
(* priorities, one of them temporary, one with a geo list; a flow from the *)
(* listed country and one from elsewhere.  Nothing tells rule ids apart:   *)
(* both runs check safety only, so the symmetry is sound.                  *)
EXTENDS PolicyEngine, TLC
CONSTANTS a, b, c, home, away, here, there

MCIds == {a, b, c}
IdSymmetry == Permutations(MCIds)
MCContexts == {home, away}
MCCountry == [x \in MCContexts |-> IF x = home THEN here ELSE there]
Rule(p, e, s, g, i, x) ==
  [priority |-> p, effect |-> e, scope |-> s, geo |-> g, intel |-> i, expires |-> x]
MCRules == {Rule(1, "block", MCContexts, {}, FALSE, FALSE),
            Rule(2, "allow", {home}, {}, FALSE, FALSE),
            Rule(2, "block", MCContexts, {there}, TRUE, TRUE)}
=============================================================================
