------------------------------ MODULE MCSixtop ------------------------------
(* Small networks for Sixtop. *)
EXTENDS Sixtop, TLC

CONSTANTS m1, m2, root

\* m1's parent is m2, whose parent is the root.
Chain == m1 :> m2 @@ m2 :> root @@ root :> NoMote

\* m1 and m2 are children of the root.
Star == m1 :> root @@ m2 :> root @@ root :> NoMote

\* m1 is the only child of the root.
Pair == m1 :> root @@ root :> NoMote

ChainOrStar == {Chain, Star}
PairOnly == {Pair}
=============================================================================
