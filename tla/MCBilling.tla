------------------------------ MODULE MCBilling ------------------------------
(* Card 1 and the Stars invoice s are ann's, card 2 is bob's. *)
EXTENDS Billing, TLC
CONSTANTS ann, bob, s, p1, p2
MCSymmetry == Permutations({p1, p2})
MCOwner == (s :> ann) @@ (1 :> ann) @@ (2 :> bob)
=============================================================================
