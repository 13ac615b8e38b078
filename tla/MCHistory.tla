------------------------------- MODULE MCHistory -------------------------------
(***************************************************************************)
(* A pack for the run of History, with teams: four players, none face up,  *)
(* one deal of one card each, round after round.  A ten that finds the two *)
(* fives and the other ten, which skips may leave on the table, offers     *)
(* several captures, so that a choice may be pending when the game is      *)
(* started again.  Rounds end with and without a winner, and with Spil and *)
(* with a tie.                                                             *)
(***************************************************************************)
EXTENDS History

C(r, s) == [rank |-> r, suit |-> s]

TeamPack == {C("5", "clubs"), C("5", "hearts"), C("10", "clubs"), C("10", "diamonds")}
===============================================================================
