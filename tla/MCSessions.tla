----------------------------- MODULE MCSessions -----------------------------
(***************************************************************************)
(* Two tabs and two Google accounts, one of which changes its address      *)
(* to that of the other; both addresses are invited, or only one.          *)
(***************************************************************************)
EXTENDS Sessions

MCAccounts == {[subject |-> "ann", email |-> "a"], [subject |-> "ann", email |-> "b"],
               [subject |-> "bob", email |-> "b"]}

MCPolicies == {{"a", "b"}, {"b"}}

=============================================================================
