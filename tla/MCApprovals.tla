----------------------------- MODULE MCApprovals ------------------------------
(* Instances of Approvals for TLC: two sessions, one of them asking twice. *)
EXTENDS Approvals

CONSTANTS here, there, tab, r1, r2, r3

MCSession == {here, there}
MCClient == {tab}
MCRequest == {r1, r2, r3}
MCHomeOf == [r \in MCRequest |-> IF r = r3 THEN there ELSE here]
===============================================================================
