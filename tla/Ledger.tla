-------------------------------- MODULE Ledger --------------------------------
(***************************************************************************)
(* What the history of one game promises, whatever statements fail and     *)
(* wherever the process stops: it is a ledger.  Rounds are entered in      *)
(* order and seat by seat, nothing entered is ever changed, nothing is     *)
(* entered once the game is closed or anybody's score is final, and a      *)
(* final score is set once, to no less than the entries of that seat.      *)
(*                                                                         *)
(* The promise ends when the ledger is void, which happens when the game   *)
(* is started anew after a round of it has been scored: then anything may  *)
(* be written over, and all that is left is that nothing is taken out.     *)
(***************************************************************************)
EXTENDS Sums

CONSTANTS Players,   \* seats
          Rounds     \* numbers of rounds

VARIABLES
    status,   \* "none", "open", "closed" or "void"
    book,     \* round and seat |-> what the round paid; only those entered
    score     \* seat |-> the final score, 0 as long as it is not set; only
              \* seats that are listed

ledgerVars == <<status, book, score>>

LedgerInit ==
    /\ status = "none"
    /\ book = << >>
    /\ score = << >>

\* Entries are made in the order of rounds and, within a round, of seats.
Precedes(d, e) == d[1] < e[1] \/ (d[1] = e[1] /\ d[2] < e[2])

\* The sum of the entries of seat i.
Recorded(i) == SumOver(book, {e \in DOMAIN book : e[2] = i})

Open ==
    /\ status = "none"
    /\ status' = "open"
    /\ UNCHANGED <<book, score>>

ListPlayer(i) ==
    /\ status # "void"
    /\ i \notin DOMAIN score
    /\ score' = [j \in DOMAIN score \cup {i} |-> IF j = i THEN 0 ELSE score[j]]
    /\ UNCHANGED <<status, book>>

\* Any natural number may be entered.
Enter(e) ==
    /\ e \in DOMAIN book'
    /\ \A d \in DOMAIN book : Precedes(d, e)
    /\ status \in {"none", "open"}
    /\ \A i \in DOMAIN score : score[i] = 0
    /\ book'[e] \in Nat
    /\ book' = [d \in DOMAIN book \cup {e} |-> IF d = e THEN book'[e] ELSE book[d]]
    /\ UNCHANGED <<status, score>>

Close ==
    /\ status = "open"
    /\ status' = "closed"
    /\ UNCHANGED <<book, score>>

Settle(i) ==
    /\ status # "void"
    /\ i \in DOMAIN score
    /\ score[i] = 0
    /\ score'[i] # 0
    /\ score'[i] >= Recorded(i)
    /\ score' = [score EXCEPT ![i] = score'[i]]
    /\ UNCHANGED <<status, book>>

\* What is entered from now on is of another game.
Void ==
    /\ status # "void"
    /\ status' = "void"
    /\ UNCHANGED <<book, score>>

Overwrite ==
    /\ status = "void" /\ status' = "void"
    /\ DOMAIN book \subseteq DOMAIN book'
    /\ DOMAIN score \subseteq DOMAIN score'

LedgerNext ==
    \/ Open
    \/ Close
    \/ Void
    \/ Overwrite
    \/ \E i \in Players : ListPlayer(i) \/ Settle(i)
    \/ \E e \in Rounds \X Players : Enter(e)

LedgerSpec == LedgerInit /\ [][LedgerNext]_ledgerVars
===============================================================================
