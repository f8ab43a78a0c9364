---------------------------- MODULE MCQuotaLedger ----------------------------
(* Two units to a message; replies of 1, 2 and 5 units stand for 1, 5 and 15. *)
EXTENDS QuotaLedger
CONSTANTS u1, u2
MCCosts == {1, 2, 5}
MCGrants == {1, 2}
MCRevocations == {1, 3}
=============================================================================
