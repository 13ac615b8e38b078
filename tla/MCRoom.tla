-------------------------------- MODULE MCRoom --------------------------------
(***************************************************************************)
(* A pack for the runs of Room: so small that a card has no capture, one   *)
(* or several, that a round is over after two moves, and that a round may  *)
(* or may not end the game.                                                *)
(***************************************************************************)
EXTENDS Room

C(r, s) == [rank |-> r, suit |-> s]

\* Two face up and a deal of one card each, round after round.
RoomPack == {C("5", "clubs"), C("5", "hearts"), C("5", "spades"), C("K", "spades")}

NoSeatOnly == {NoSeat}
MaybeSecondSeat == {NoSeat, 1}
===============================================================================
