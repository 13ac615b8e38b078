------------------------------ MODULE MCDelivery ------------------------------
(***************************************************************************)
(* A pack for the run of Delivery: two deals of one card each to two       *)
(* seats.  An ace that finds the other ace and a ten offers two captures;  *)
(* a round in which both seats capture does not reach eight points, one in *)
(* which one seat gets everything does.                                    *)
(***************************************************************************)
EXTENDS Delivery

C(r, s) == [rank |-> r, suit |-> s]

DeliveryPack == {C("A", "spades"), C("A", "hearts"), C("10", "diamonds"), C("10", "clubs")}
===============================================================================
