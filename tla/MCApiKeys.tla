------------------------------ MODULE MCApiKeys ------------------------------
(* Small instances of ApiKeys for TLC.                                      *)
EXTENDS ApiKeys, TLC

(* One key at a time, valid for two days; a rotation ends the old one at    *)
(* once, or leaves it a day.                                                *)
Strict == [max |-> 1, expiry |-> 2, grace |-> 0]
Lenient == [max |-> 1, expiry |-> 2, grace |-> 1]

MCPolicies == {Strict, Lenient}
MCSymmetry == Permutations(KeyIds) \cup Permutations(Requests)
=============================================================================
