------------------------------ MODULE MCPayouts ------------------------------
(* A small instance of Payouts: three months, of which one may bring a        *)
(* recipient nothing.                                                         *)
EXTENDS Payouts, TLC

CONSTANTS ann, bob, split, rates

McCovers == (split :> {1, 3}) @@ (rates :> {2, 3})
McPercent == (split :> (ann :> 50 @@ bob :> 50)) @@ (rates :> (ann :> 100))
McSortOrder == (ann :> 1) @@ (bob :> 2)
McCorrections == {-4}
=============================================================================
