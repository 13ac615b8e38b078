----------------------------- MODULE MCTurnFlow -----------------------------
(***************************************************************************)
(* Packs for the runs of TurnFlow.  A small pack keeps the cards that make *)
(* the rules interesting: an ace with two values, a pair, cards that add   *)
(* up to others, and all three kinds of scoring card.                      *)
(***************************************************************************)
EXTENDS TurnFlow

C(r, s) == [rank |-> r, suit |-> s]

\* Two players: two deals of two cards each, none face up (hands and deals).
TwoPlayerPack == {C("2", "clubs"), C("3", "hearts"), C("5", "clubs"), C("5", "hearts"),
                  C("10", "diamonds"), C("A", "spades"), C("A", "hearts"), C("4", "clubs")}
=============================================================================
