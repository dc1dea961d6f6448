-------------------------- MODULE MCNetworkEditor --------------------------
(* One road that lies in the first network and near the second one; and one *)
(* network of two roads.                                                    *)
EXTENDS NetworkEditor, TLC

CONSTANTS n1, n2, w1, w2

MCNetwork == {n1, n2}
MCWay == {w1}
MCInitialFile == (n1 :> {w1}) @@ (n2 :> {})

MCOneNetwork == {n1}
MCTwoWays == {w1, w2}
MCBothIncluded == (n1 :> {w1, w2})
=============================================================================
