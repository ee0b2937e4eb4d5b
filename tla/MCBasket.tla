------------------------------ MODULE MCBasket ------------------------------
(***************************************************************************)
(* A small instance of Basket: four stocks of which a basket holds three,  *)
(* a shorter list that lacks two of them, and an empty one.                *)
(***************************************************************************)
EXTENDS Basket

MCTops == {<<1, 2, 3, 4>>, <<4, 1>>, <<>>}
=============================================================================
