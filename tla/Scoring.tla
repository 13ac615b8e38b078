------------------------------- MODULE Scoring -------------------------------
(***************************************************************************)
(* The score of a round (server/internal/game/scoring.go).  captured and   *)
(* tablas are functions of the seat; so is the result.                     *)
(***************************************************************************)
EXTENDS Cards

CONSTANT NumPlayers

Seats == 0 .. NumPlayers - 1

\* Mutant of SpilPoints: a tie pays too.
SpilPointsOnTie(pile, others) ==
    IF \A other \in others : Cardinality(other) <= Cardinality(pile) THEN 3 ELSE 0

\* Spil: three points for strictly the most captured cards, none on a tie.
SpilPoints(pile, others) ==
    IF \A other \in others : Cardinality(other) < Cardinality(pile) THEN 3 ELSE 0

IndividualRoundScores(captured, tablas) ==
    [i \in Seats |->
        [cardPoints  |-> CardPoints(captured[i]),
         spilPoints  |-> SpilPoints(captured[i], {captured[j] : j \in Seats \ {i}}),
         tablaPoints |-> tablas[i]]]

\* Mutant of ComputeTeamRoundScores: tablas stay with the seat that made them.
TeamScoresOwnTablas(captured, tablas) ==
    LET teamPile(t) == captured[t] \cup captured[t + 2]
    IN [i \in Seats |->
           [cardPoints  |-> CardPoints(teamPile(i % 2)),
            spilPoints  |-> SpilPoints(teamPile(i % 2), {teamPile((i + 1) % 2)}),
            tablaPoints |-> tablas[i]]]

\* Seats 0 and 2 play against seats 1 and 3; partners pool what they captured
\* and both get the pooled score.
ComputeTeamRoundScores(captured, tablas) ==
    LET teamPile(t)   == captured[t] \cup captured[t + 2]
        teamTablas(t) == tablas[t] + tablas[t + 2]
    IN [i \in Seats |->
           [cardPoints  |-> CardPoints(teamPile(i % 2)),
            spilPoints  |-> SpilPoints(teamPile(i % 2), {teamPile((i + 1) % 2)}),
            tablaPoints |-> teamTablas(i % 2)]]

Total(score) == score.cardPoints + score.spilPoints + score.tablaPoints
===============================================================================
