---------------------------- MODULE Delivery_proofs ----------------------------
(***************************************************************************)
(* That what the handlers send carries the whole game, and that a snapshot *)
(* settles, for any pack, number of players, capacity of the write channel *)
(* and number of connections.                                              *)
(*                                                                         *)
(* The reducer is folded over the messages under way.  The first part says *)
(* how such a fold goes (Shows); the second what each kind of message does *)
(* to a page; the third that each handler of the room sends what takes the *)
(* page of the game before it to the page of the game after it (Carries).  *)
(* MessagesCarryTheGame is then an induction over the steps of the system, *)
(* which only append to the channel and take from its head.  The last part *)
(* is about reconnects.  Older messages come after a newer snapshot there, *)
(* so the argument goes by the facets of a page: a message sets a facet or *)
(* leaves it alone, whatever the page, and the last message under way that *)
(* sets it sets it to what the game is (Fits).                             *)
(***************************************************************************)
EXTENDS Delivery, TurnFlow_proofs, SequenceTheorems

-------------------------------------------------------------------------------
(***************************************************************************)
(* The reducer, folded over a sequence of messages.                        *)
(***************************************************************************)
\* The page v once it has got the messages of q.
Shows(v, q) == FoldLeft(applyServerMessage, v, q)

\* What the fold of the library is to satisfy on the sets in D.
ReadsUp(g, v, q, D) ==
    g = [s \in D |-> IF s = {} THEN v
                     ELSE applyServerMessage(g[s \ {Max(s)}], q[Max(s)])]

\* The fold of the library is a function chosen for a recursive equation.
LEMMA ShowsIsChosen ==
    ASSUME NEW v, NEW q
    PROVE  Shows(v, q) = (CHOOSE g : ReadsUp(g, v, q, SUBSET (DOMAIN q)))[DOMAIN q]
  BY DEF Shows, FoldLeft, MapThenFoldSet, ReadsUp

\* A set of places in a sequence has a last one.
LEMMA LastPlace ==
    ASSUME NEW n \in Nat, NEW s \in SUBSET (1 .. n), s # {}
    PROVE  Max(s) \in s /\ \A y \in s : Max(s) >= y
<1> DEFINE Good == {k \in Nat : \A t \in SUBSET (1 .. k) :
                                    t # {} => \E x \in t : \A y \in t : x >= y}
<1>1. 0 \in Good
  <2>1. 1 .. 0 = {}
    OBVIOUS
  <2> QED BY <2>1
<1>2. ASSUME NEW k \in Nat, k \in Good PROVE k + 1 \in Good
  <2>1. ASSUME NEW t \in SUBSET (1 .. k + 1), t # {}
        PROVE  \E x \in t : \A y \in t : x >= y
    <3>1. CASE k + 1 \in t
      BY <3>1
    <3>2. CASE k + 1 \notin t
      <4>1. t \in SUBSET (1 .. k)
        BY <3>2
      <4> QED BY <1>2, <2>1, <4>1
    <3> QED BY <3>1, <3>2
  <2> QED BY <2>1
<1> HIDE DEF Good
<1>3. n \in Good
  BY <1>1, <1>2, NatInduct
<1>4. \E x \in s : \A y \in s : x >= y
  BY <1>3 DEF Good
<1> QED BY <1>4 DEF Max

\* The last of the first k places.
LEMMA LastOfFirst ==
    ASSUME NEW k \in Nat \ {0}
    PROVE  Max(1 .. k) = k /\ (1 .. k) \ {k} = 1 .. k - 1
<1>1. 1 .. k # {} /\ 1 .. k \in SUBSET (1 .. k)
  OBVIOUS
<1>2. Max(1 .. k) \in 1 .. k /\ \A y \in 1 .. k : Max(1 .. k) >= y
  BY <1>1, LastPlace
<1>3. k \in 1 .. k
  OBVIOUS
<1>4. Max(1 .. k) = k
  BY <1>2, <1>3
<1> QED BY <1>4

\* The equation at one set of places.
LEMMA ReadsUpAt ==
    ASSUME NEW g, NEW v, NEW q, NEW D, ReadsUp(g, v, q, D), NEW s \in D
    PROVE  g[s] = IF s = {} THEN v
                  ELSE applyServerMessage(g[s \ {Max(s)}], q[Max(s)])
  BY DEF ReadsUp

\* There is such a function, so the choice is one.
LEMMA ReadingExists ==
    ASSUME NEW v, NEW q, NEW N \in Nat
    PROVE  \E g : ReadsUp(g, v, q, SUBSET (1 .. N))
<1> DEFINE S == 1 .. N
           Small(n) == {s \in SUBSET S : Cardinality(s) <= n}
           Good == {n \in Nat : \E g : ReadsUp(g, v, q, Small(n))}
<1>0. IsFiniteSet(S)
  <2>1. 1 \in Int /\ N \in Int
    OBVIOUS
  <2> QED BY <2>1, FS_Interval
<1>1. \A s \in SUBSET S : IsFiniteSet(s) /\ Cardinality(s) \in Nat
  BY <1>0, FS_Subset, FS_CardinalityType
<1>2. 0 \in Good
  <2>1. \A s \in Small(0) : s = {}
    BY <1>1, FS_EmptySet
  <2>2. ReadsUp([s \in Small(0) |-> v], v, q, Small(0))
    BY <2>1 DEF ReadsUp
  <2> QED BY <2>2
<1>3. ASSUME NEW n \in Nat, n \in Good PROVE n + 1 \in Good
  <2>1. PICK g : ReadsUp(g, v, q, Small(n))
    BY <1>3
  <2> DEFINE step(s) == IF s = {} THEN v
                        ELSE applyServerMessage(g[s \ {Max(s)}], q[Max(s)])
             h == [s \in Small(n + 1) |-> step(s)]
  <2>2. ASSUME NEW s \in Small(n + 1), s # {}
        PROVE  s \ {Max(s)} \in Small(n)
    <3>1. Max(s) \in s
      BY <2>2, LastPlace
    <3>2. Cardinality(s \ {Max(s)}) = Cardinality(s) - 1
      BY <1>1, <2>2, <3>1, FS_RemoveElement
    <3>3. Cardinality(s) <= n + 1 /\ s \in SUBSET S /\ Cardinality(s) \in Nat
      BY <1>1
    <3>4. Cardinality(s \ {Max(s)}) <= n
      BY <3>2, <3>3
    <3> QED BY <3>3, <3>4
  <2>3. ASSUME NEW s \in Small(n) PROVE s \in Small(n + 1) /\ h[s] = g[s]
    <3>1. Cardinality(s) \in Nat /\ Cardinality(s) <= n
      BY <1>1
    <3>2. s \in Small(n + 1)
      BY <3>1
    <3>3. g[s] = step(s)
      <4> HIDE DEF Small
      <4>1. ReadsUp(g, v, q, Small(n)) /\ s \in Small(n)
        BY <2>1
      <4> QED BY <4>1 DEF ReadsUp
    <3>4. h[s] = step(s)
      <4> HIDE DEF step, Small
      <4> QED BY <3>2
    <3> QED BY <3>2, <3>3, <3>4
  <2>4. \A s \in Small(n) : h[s] = g[s]
    BY <2>3
  <2>5. \A s \in Small(n + 1) :
           step(s) = IF s = {} THEN v
                     ELSE applyServerMessage(h[s \ {Max(s)}], q[Max(s)])
    <3> HIDE DEF h, Small
    <3> QED BY <2>2, <2>4
  <2>6. ReadsUp(h, v, q, Small(n + 1))
    BY <2>5 DEF ReadsUp
  <2>7. \E k : ReadsUp(k, v, q, Small(n + 1))
    <3> HIDE DEF h, Small
    <3> QED BY <2>6
  <2> HIDE DEF Small
  <2> QED BY <2>7
<1>4. Nat \subseteq Good
  <2> HIDE DEF Good
  <2> QED BY <1>2, <1>3, NatInduct
<1>5. Cardinality(S) \in Good
  BY <1>1, <1>4
<1>6. Small(Cardinality(S)) = SUBSET S
  <2> HIDE DEF S
  <2> QED BY <1>0, <1>1, FS_Subset
<1> QED BY <1>5, <1>6

\* The page after each message of q, from v on.
Pages(p, v, q) ==
    /\ p[0] = v
    /\ \A k \in 1 .. Len(q) : p[k] = applyServerMessage(p[k - 1], q[k])

\* The fold of the library goes through such pages.
LEMMA ShowsLastPage ==
    ASSUME NEW S, NEW v, NEW q \in Seq(S)
    PROVE  \E p : Pages(p, v, q) /\ Shows(v, q) = p[Len(q)]
<1>1. PICK N \in Nat : N = Len(q) /\ DOMAIN q = 1 .. N
  BY LenProperties
<1>2. PICK g : ReadsUp(g, v, q, SUBSET (1 .. N)) /\ Shows(v, q) = g[1 .. N]
  <2>1. \E g : ReadsUp(g, v, q, SUBSET (1 .. N))
    BY ReadingExists
  <2>2. Shows(v, q) = (CHOOSE g : ReadsUp(g, v, q, SUBSET (1 .. N)))[1 .. N]
    BY <1>1, ShowsIsChosen
  <2> QED BY <2>1, <2>2
<1>3. \A s \in SUBSET (1 .. N) :
         g[s] = IF s = {} THEN v ELSE applyServerMessage(g[s \ {Max(s)}], q[Max(s)])
  BY <1>2 DEF ReadsUp
<1>4. g[1 .. 0] = v
  <2>1. 1 .. 0 = {} /\ 1 .. 0 \in SUBSET (1 .. N)
    OBVIOUS
  <2> QED BY <1>3, <2>1
<1>5. ASSUME NEW k \in 1 .. N
      PROVE  g[1 .. k] = applyServerMessage(g[1 .. k - 1], q[k])
  <2>1. 1 .. k \in SUBSET (1 .. N) /\ 1 .. k # {} /\ k \in Nat \ {0}
    <3>1. k \in Nat /\ 1 <= k /\ k <= N
      BY <1>1
    <3>2. k \in 1 .. k /\ 1 .. k \subseteq 1 .. N
      BY <1>1, <3>1
    <3>3. 1 .. k # {}
      BY <3>2
    <3>4. k \in Nat \ {0}
      BY <3>1
    <3> QED BY <3>2, <3>3, <3>4
  <2>2. Max(1 .. k) = k /\ (1 .. k) \ {k} = 1 .. k - 1
    BY <2>1, LastOfFirst
  <2> QED BY <1>3, <2>1, <2>2
<1> DEFINE p == [k \in 0 .. N |-> g[1 .. k]]
<1>6. p[0] = v /\ p[N] = g[1 .. N]
  BY <1>1, <1>4
<1>7. \A k \in 1 .. N : p[k] = applyServerMessage(p[k - 1], q[k])
  <2>1. \A k \in 1 .. N : p[k] = g[1 .. k] /\ p[k - 1] = g[1 .. k - 1]
    BY <1>1
  <2> HIDE DEF p
  <2> QED BY <1>5, <2>1
<1>8. Pages(p, v, q) /\ Shows(v, q) = p[Len(q)]
  BY <1>1, <1>2, <1>6, <1>7 DEF Pages
<1> HIDE DEF p
<1> QED BY <1>8

\* There is only one way through.
LEMMA OneWay ==
    ASSUME NEW S, NEW v, NEW q \in Seq(S), NEW p, Pages(p, v, q)
    PROVE  Shows(v, q) = p[Len(q)]
<1>1. PICK r : Pages(r, v, q) /\ Shows(v, q) = r[Len(q)]
  BY ShowsLastPage
<1>2. Len(q) \in Nat
  BY LenProperties
<1> DEFINE Good == {k \in Nat : k <= Len(q) => p[k] = r[k]}
<1>3. 0 \in Good
  BY <1>1 DEF Pages
<1>4. ASSUME NEW k \in Nat, k \in Good PROVE k + 1 \in Good
  <2>1. SUFFICES ASSUME k + 1 <= Len(q) PROVE p[k + 1] = r[k + 1]
    OBVIOUS
  <2>2. k + 1 \in 1 .. Len(q) /\ k + 1 - 1 = k /\ k <= Len(q)
    BY <1>2, <2>1
  <2>3. p[k] = r[k]
    BY <1>4, <2>2
  <2>4. /\ p[k + 1] = applyServerMessage(p[k + 1 - 1], q[k + 1])
        /\ r[k + 1] = applyServerMessage(r[k + 1 - 1], q[k + 1])
    BY <1>1, <2>2 DEF Pages
  <2> QED BY <2>2, <2>3, <2>4
<1> HIDE DEF Good
<1>5. Nat \subseteq Good
  BY <1>3, <1>4, NatInduct
<1>6. p[Len(q)] = r[Len(q)]
  BY <1>2, <1>5 DEF Good
<1> QED BY <1>1, <1>6
-------------------------------------------------------------------------------
\* No message, no change.
LEMMA ShowsNothing == ASSUME NEW v PROVE Shows(v, << >>) = v
<1>1. << >> \in Seq({}) /\ Len(<< >>) = 0
  BY EmptySeq
<1>2. PICK p : Pages(p, v, << >>) /\ Shows(v, << >>) = p[Len(<< >>)]
  BY <1>1, ShowsLastPage
<1> QED BY <1>1, <1>2 DEF Pages

\* A message at the end is applied last.
LEMMA ShowsOneMore ==
    ASSUME NEW S, NEW v, NEW q \in Seq(S), NEW m \in S
    PROVE  Shows(v, Append(q, m)) = applyServerMessage(Shows(v, q), m)
<1> DEFINE r == Append(q, m)
           N == Len(q)
<1>1. /\ r \in Seq(S) /\ Len(r) = N + 1 /\ N \in Nat
      /\ \A i \in 1 .. N : r[i] = q[i]
      /\ r[N + 1] = m
  BY AppendProperties, LenProperties
<1> HIDE DEF r
<1>2. PICK p : Pages(p, v, r) /\ Shows(v, r) = p[N + 1]
  BY <1>1, ShowsLastPage
<1> HIDE DEF N
<1>3. \A i \in 1 .. N : i \in 1 .. N + 1
  BY <1>1
<1>4. p[N + 1] = applyServerMessage(p[N], m)
  <2>1. N + 1 \in 1 .. N + 1 /\ N + 1 - 1 = N
    BY <1>1
  <2> QED BY <1>1, <1>2, <2>1 DEF Pages
<1>5. Pages(p, v, q)
  BY <1>1, <1>2, <1>3 DEF Pages, N
<1>6. Shows(v, q) = p[N]
  BY <1>5, OneWay DEF N
<1> QED BY <1>2, <1>4, <1>6 DEF r

\* A message at the head is applied first.
LEMMA ShowsNext ==
    ASSUME NEW S, NEW v, NEW q \in Seq(S), q # << >>
    PROVE  Shows(v, q) = Shows(applyServerMessage(v, Head(q)), Tail(q))
<1> DEFINE N == Len(q)
           w == applyServerMessage(v, Head(q))
<1>1. /\ N \in Nat \ {0} /\ Tail(q) \in Seq(S) /\ Len(Tail(q)) = N - 1
      /\ \A i \in 1 .. N - 1 : Tail(q)[i] = q[i + 1]
      /\ Head(q) = q[1]
  BY HeadTailProperties, EmptySeq
<1>2. PICK p : Pages(p, v, q) /\ Shows(v, q) = p[N]
  BY ShowsLastPage
<1> HIDE DEF N
<1> DEFINE r == [k \in 0 .. N - 1 |-> p[k + 1]]
<1>3. r[0] = w
  <2>1. r[0] = p[1] /\ 1 \in 1 .. N /\ 1 - 1 = 0
    BY <1>1
  <2> QED BY <1>1, <1>2, <2>1 DEF Pages, N
<1>4. ASSUME NEW k \in 1 .. N - 1
      PROVE  r[k] = applyServerMessage(r[k - 1], Tail(q)[k])
  <2>1. k + 1 \in 1 .. N /\ k + 1 - 1 = k
    BY <1>1
  <2>2. r[k] = p[k + 1] /\ r[k - 1] = p[k]
    BY <1>1
  <2>3. p[k + 1] = applyServerMessage(p[k], q[k + 1])
    BY <1>2, <2>1 DEF Pages, N
  <2> QED BY <1>1, <2>2, <2>3
<1>5. r[N - 1] = p[N]
  BY <1>1
<1> HIDE DEF r
<1>6. Pages(r, w, Tail(q))
  BY <1>1, <1>3, <1>4 DEF Pages
<1>7. Shows(w, Tail(q)) = r[Len(Tail(q))]
  <2> DEFINE t == Tail(q)
  <2>1. t \in Seq(S) /\ Pages(r, w, t)
    BY <1>1, <1>6
  <2> HIDE DEF w, t
  <2>2. Shows(w, t) = r[Len(t)]
    BY <2>1, OneWay
  <2> QED BY <2>2 DEF t
<1> QED BY <1>1, <1>2, <1>5, <1>7

\* A single message is left to the reducer.
LEMMA ShowsOne == ASSUME NEW v, NEW m PROVE Shows(v, <<m>>) = applyServerMessage(v, m)
<1>0. << >> \in Seq({m}) /\ Append(<< >>, m) = <<m>>
  OBVIOUS
<1>1. PICK e \in Seq({m}) : e = << >>
  BY <1>0
<1>2. m \in {m}
  OBVIOUS
<1>3. Shows(v, Append(e, m)) = applyServerMessage(Shows(v, e), m)
  BY <1>2, ShowsOneMore
<1>4. Shows(v, e) = v
  BY <1>1, ShowsNothing
<1> QED BY <1>0, <1>1, <1>3, <1>4

\* First the messages of q, then those of r.
LEMMA ShowsInTurn ==
    ASSUME NEW S, NEW v, NEW q \in Seq(S), NEW r \in Seq(S)
    PROVE  Shows(v, q \o r) = Shows(Shows(v, q), r)
<1> DEFINE Good == {n \in Nat : \A s \in Seq(S) :
                        Len(s) = n => Shows(v, q \o s) = Shows(Shows(v, q), s)}
<1>1. 0 \in Good
  <2>1. ASSUME NEW s \in Seq(S), Len(s) = 0
        PROVE  Shows(v, q \o s) = Shows(Shows(v, q), s)
    <3>1. s = << >>
      BY <2>1, EmptySeq
    <3>2. q \o << >> = q
      BY ConcatEmptySeq
    <3> QED BY <3>1, <3>2, ShowsNothing
  <2> QED BY <2>1
<1>2. ASSUME NEW n \in Nat, n \in Good PROVE n + 1 \in Good
  <2>1. ASSUME NEW s \in Seq(S), Len(s) = n + 1
        PROVE  Shows(v, q \o s) = Shows(Shows(v, q), s)
    <3>1. s # << >>
      BY <2>1, EmptySeq
    <3>2. PICK u \in Seq(S), m \in S : s = Append(u, m)
      BY <3>1, SequenceEmptyOrAppend
    <3>3. Len(u) = n
      BY <2>1, <3>2, AppendProperties, LenProperties
    <3>4. Shows(v, q \o u) = Shows(Shows(v, q), u)
      BY <1>2, <3>3
    <3>5. q \o s = Append(q \o u, m) /\ q \o u \in Seq(S)
      <4>1. s = u \o <<m>> /\ <<m>> \in Seq(S)
        BY <3>2, AppendIsConcat
      <4>2. q \o u \in Seq(S)
        BY ConcatProperties
      <4>3. (q \o u) \o <<m>> = q \o (u \o <<m>>)
        BY <4>1, ConcatAssociative
      <4>4. Append(q \o u, m) = (q \o u) \o <<m>>
        BY <4>2, AppendIsConcat
      <4> QED BY <4>1, <4>2, <4>3, <4>4
    <3>6. PICK w \in Seq(S) : w = q \o u
      BY <3>5
    <3>7. Shows(v, Append(w, m)) = applyServerMessage(Shows(v, w), m)
      BY ShowsOneMore
    <3>8. Shows(Shows(v, q), Append(u, m)) = applyServerMessage(Shows(Shows(v, q), u), m)
      BY ShowsOneMore
    <3> QED BY <3>2, <3>4, <3>5, <3>6, <3>7, <3>8
  <2> QED BY <2>1
<1> HIDE DEF Good
<1>3. Nat \subseteq Good
  BY <1>1, <1>2, NatInduct
<1>4. Len(r) \in Good
  BY <1>3, LenProperties
<1> QED BY <1>4 DEF Good
-------------------------------------------------------------------------------
(***************************************************************************)
(* What is sent and what is shown.                                         *)
(***************************************************************************)
Options == SUBSET (SUBSET (SUBSET Pack))

PublicGames ==
    [phase          : Phases,
     table          : SUBSET Pack,
     current        : Seats,
     dealsRemaining : Int,
     totalScore     : [Seats -> Nat],
     capturedCount  : [Seats -> Nat]]

Starts   == [type : {"GAME_STARTED"}, state : PublicGames]
Hands    == [type : {"HAND_DEALT"}, cards : SUBSET Pack, dealsRemaining : Int]
Turns    == [type : {"TURN_START"}, playerIndex : Seats]
Plays    == [type : {"CARD_PLAYED"}, player : Seats, card : Pack]
Discards == [type : {"CARD_DISCARDED"}, card : Pack]
Offers  == [type : {"CAPTURE_OPTIONS"}, options : Options]
Captures == [type : {"CAPTURE_MADE"}, player : Seats, cards : SUBSET Pack,
             wasTabla : BOOLEAN, capturedCount : Nat]
Overs    == [type : {"GAME_OVER"}, totalScore : [Seats -> Nat],
             capturedCount : [Seats -> Nat]]

Messages ==
    Starts \cup Hands \cup Turns \cup Plays \cup Discards \cup Offers
        \cup Captures \cup Overs

Tables == UNION {[S -> Nat] : S \in SUBSET Pack}

PageType ==
    [started        : BOOLEAN,
     over           : BOOLEAN,
     table          : Tables,
     current        : Seats,
     dealsRemaining : Int,
     totalScore     : [Seats -> Nat],
     capturedCount  : [Seats -> Nat],
     playerTablas   : [Seats -> Nat],
     myHand         : SUBSET Pack,
     captureOptions : Options,
     handEnabled    : BOOLEAN]

\* The reducer goes by the type.
LEMMA ReducerCases ==
    ASSUME NEW v, NEW m
    PROVE  /\ m \in Starts => applyServerMessage(v, m) = OnGameStarted(v, m)
           /\ m \in Hands => applyServerMessage(v, m) = OnHandDealt(v, m)
           /\ m \in Turns => applyServerMessage(v, m) = OnTurnStart(v, m)
           /\ m \in Plays => applyServerMessage(v, m) = OnCardPlayed(v, m)
           /\ m \in Discards => applyServerMessage(v, m) = OnCardDiscarded(v, m)
           /\ m \in Offers => applyServerMessage(v, m) = OnCaptureOptions(v, m)
           /\ m \in Captures => applyServerMessage(v, m) = OnCaptureMade(v, m)
           /\ m \in Overs => applyServerMessage(v, m) = OnGameOver(v, m)
<1>1. m \in Starts => m.type = "GAME_STARTED"
  BY DEF Starts
<1>2. m \in Hands => m.type = "HAND_DEALT"
  BY DEF Hands
<1>3. m \in Turns => m.type = "TURN_START"
  BY DEF Turns
<1>4. m \in Plays => m.type = "CARD_PLAYED"
  BY DEF Plays
<1>5. m \in Discards => m.type = "CARD_DISCARDED"
  BY DEF Discards
<1>6. m \in Offers => m.type = "CAPTURE_OPTIONS"
  BY DEF Offers
<1>7. m \in Captures => m.type = "CAPTURE_MADE"
  BY DEF Captures
<1>8. m \in Overs => m.type = "GAME_OVER"
  BY DEF Overs
<1> QED BY <1>1, <1>2, <1>3, <1>4, <1>5, <1>6, <1>7, <1>8 DEF applyServerMessage

\* A table with every card once.
LEMMA TableOfSet == ASSUME NEW S \in SUBSET Pack
                    PROVE  SetToBag(S) \in Tables /\ DOMAIN SetToBag(S) = S
  BY DEF SetToBag, Tables

\* What discards and captures do to the cards of a table.
LEMMA TablesStay ==
    ASSUME NEW T \in Tables
    PROVE  /\ DOMAIN T \subseteq Pack
           /\ \A c \in Pack : /\ T (+) SetToBag({c}) \in Tables
                              /\ DOMAIN (T (+) SetToBag({c})) = DOMAIN T \cup {c}
           /\ \A cards : /\ WithoutCards(T, cards) \in Tables
                         /\ DOMAIN WithoutCards(T, cards) = DOMAIN T \ cards
<1>1. PICK S \in SUBSET Pack : T \in [S -> Nat]
  BY DEF Tables
<1>2. DOMAIN T = S
  BY <1>1
<1>3. ASSUME NEW c \in Pack
      PROVE  /\ T (+) SetToBag({c}) \in Tables
             /\ DOMAIN (T (+) SetToBag({c})) = DOMAIN T \cup {c}
  <2>1. T (+) SetToBag({c}) = [e \in S \cup {c} |->
             (IF e \in S THEN T[e] ELSE 0) + (IF e \in {c} THEN 1 ELSE 0)]
    BY <1>2 DEF (+), SetToBag
  <2>2. \A e \in S \cup {c} : (IF e \in S THEN T[e] ELSE 0)
                                  + (IF e \in {c} THEN 1 ELSE 0) \in Nat
    BY <1>1
  <2>3. T (+) SetToBag({c}) \in [S \cup {c} -> Nat] /\ S \cup {c} \in SUBSET Pack
    BY <2>1, <2>2
  <2> QED BY <1>2, <2>1, <2>3 DEF Tables
<1>4. ASSUME NEW cards
      PROVE  /\ WithoutCards(T, cards) \in Tables
             /\ DOMAIN WithoutCards(T, cards) = DOMAIN T \ cards
  <2>1. WithoutCards(T, cards) \in [S \ cards -> Nat] /\ S \ cards \in SUBSET Pack
    BY <1>1, <1>2 DEF WithoutCards
  <2> QED BY <1>2, <2>1 DEF Tables, WithoutCards
<1> QED BY <1>1, <1>2, <1>3, <1>4

\* A page is a page after each message.
LEMMA PageStays ==
    ASSUME NEW v \in PageType, NEW m \in Messages
    PROVE  applyServerMessage(v, m) \in PageType
<1>1. CASE m \in Starts
  <2>1. m.state \in PublicGames
    BY <1>1 DEF Starts
  <2>2. SetToBag(m.state.table) \in Tables
    BY <2>1, TableOfSet DEF PublicGames
  <2>3. [i \in Seats |-> 0] \in [Seats -> Nat] /\ {} \in Options
    BY DEF Options
  <2>4. OnGameStarted(v, m) \in PageType
    BY <2>1, <2>2, <2>3 DEF OnGameStarted, PageType, PublicGames
  <2> QED BY <1>1, <2>4, ReducerCases
<1>2. CASE m \in Hands
  <2>1. OnHandDealt(v, m) \in PageType
    BY <1>2 DEF OnHandDealt, PageType, Hands, isMyTurn
  <2> QED BY <1>2, <2>1, ReducerCases
<1>3. CASE m \in Turns
  <2>1. {} \in Options
    BY DEF Options
  <2>2. OnTurnStart(v, m) \in PageType
    BY <1>3, <2>1 DEF OnTurnStart, PageType, Turns
  <2> QED BY <1>3, <2>2, ReducerCases
<1>4. CASE m \in Plays
  <2>1. OnCardPlayed(v, m) \in PageType
    BY <1>4 DEF OnCardPlayed, PageType, Plays
  <2> QED BY <1>4, <2>1, ReducerCases
<1>5. CASE m \in Discards
  <2>1. v.table (+) SetToBag({m.card}) \in Tables
    BY <1>5, TablesStay DEF PageType, Discards
  <2>2. OnCardDiscarded(v, m) \in PageType
    BY <1>5, <2>1 DEF OnCardDiscarded, PageType
  <2> QED BY <1>5, <2>2, ReducerCases
<1>6. CASE m \in Offers
  <2>1. OnCaptureOptions(v, m) \in PageType
    BY <1>6 DEF OnCaptureOptions, PageType, Offers
  <2> QED BY <1>6, <2>1, ReducerCases
<1>7. CASE m \in Captures
  <2>1. WithoutCards(v.table, m.cards) \in Tables /\ {} \in Options
    BY TablesStay DEF PageType, Options
  <2>2. /\ m.player \in Seats /\ m.capturedCount \in Nat
        /\ v.playerTablas \in [Seats -> Nat] /\ v.capturedCount \in [Seats -> Nat]
    BY <1>7 DEF Captures, PageType
  <2>3. /\ [v.playerTablas EXCEPT ![m.player] = IF m.wasTabla THEN @ + 1 ELSE @]
             \in [Seats -> Nat]
        /\ [v.capturedCount EXCEPT ![m.player] = m.capturedCount] \in [Seats -> Nat]
    BY <2>2
  <2>4. OnCaptureMade(v, m) \in PageType
    BY <2>1, <2>3 DEF OnCaptureMade, PageType
  <2> QED BY <1>7, <2>4, ReducerCases
<1>8. CASE m \in Overs
  <2>1. OnGameOver(v, m) \in PageType
    BY <1>8 DEF OnGameOver, PageType, Overs
  <2> QED BY <1>8, <2>1, ReducerCases
<1> QED BY <1>1, <1>2, <1>3, <1>4, <1>5, <1>6, <1>7, <1>8 DEF Messages

\* A page is a page after any number of messages.
LEMMA PagesStay ==
    ASSUME NEW v \in PageType, NEW q \in Seq(Messages)
    PROVE  Shows(v, q) \in PageType
<1>1. PICK p : Pages(p, v, q) /\ Shows(v, q) = p[Len(q)]
  BY ShowsLastPage
<1>2. Len(q) \in Nat
  BY LenProperties
<1> DEFINE Good == {k \in Nat : k <= Len(q) => p[k] \in PageType}
<1>3. 0 \in Good
  BY <1>1 DEF Pages
<1>4. ASSUME NEW k \in Nat, k \in Good PROVE k + 1 \in Good
  <2>1. SUFFICES ASSUME k + 1 <= Len(q) PROVE p[k + 1] \in PageType
    OBVIOUS
  <2>2. k + 1 \in 1 .. Len(q) /\ k + 1 - 1 = k /\ k <= Len(q)
    BY <1>2, <2>1
  <2>3. p[k] \in PageType
    BY <1>4, <2>2
  <2>4. p[k + 1] = applyServerMessage(p[k], q[k + 1])
    BY <1>1, <2>2 DEF Pages
  <2>5. q[k + 1] \in Messages
    BY <2>2, ElementOfSeq
  <2> QED BY <2>3, <2>4, <2>5, PageStays
<1> HIDE DEF Good
<1>5. Nat \subseteq Good
  BY <1>3, <1>4, NatInduct
<1> QED BY <1>1, <1>2, <1>5 DEF Good
-------------------------------------------------------------------------------
(***************************************************************************)
(* What a move of the game sends, and what it does to a page.              *)
(***************************************************************************)
\* The page that shows g, with these options to choose from for card c.
PageOf(g, options, c) ==
    [started        |-> TRUE,
     over           |-> FALSE,
     table          |-> SetToBag(g.tableCards),
     current        |-> g.currentPlayerIndex,
     dealsRemaining |-> dealsRemaining(g),
     totalScore     |-> g.totalScore,
     capturedCount  |-> CapturedCounts(g),
     playerTablas   |-> g.tablas,
     myHand         |-> IF g.currentPlayerIndex = Me /\ options # {}
                        THEN g.hand[Me] \ {c} ELSE g.hand[Me],
     captureOptions |-> IF g.currentPlayerIndex = Me THEN options ELSE {},
     handEnabled    |-> g.currentPlayerIndex = Me /\ options = {}]

\* The page that shows a game between a move and the passing of the turn.
MovedPage(g, enabled) ==
    [started        |-> TRUE,
     over           |-> FALSE,
     table          |-> SetToBag(g.tableCards),
     current        |-> g.currentPlayerIndex,
     dealsRemaining |-> dealsRemaining(g),
     totalScore     |-> g.totalScore,
     capturedCount  |-> CapturedCounts(g),
     playerTablas   |-> g.tablas,
     myHand         |-> g.hand[Me],
     captureOptions |-> {},
     handEnabled    |-> enabled]

\* The page after the mover's card was played and before anything came of it.
PlayedPage(g, c, options, enabled) ==
    [started        |-> TRUE,
     over           |-> FALSE,
     table          |-> SetToBag(g.tableCards),
     current        |-> g.currentPlayerIndex,
     dealsRemaining |-> dealsRemaining(g),
     totalScore     |-> g.totalScore,
     capturedCount  |-> CapturedCounts(g),
     playerTablas   |-> g.tablas,
     myHand         |-> IF g.currentPlayerIndex = Me THEN g.hand[Me] \ {c} ELSE g.hand[Me],
     captureOptions |-> options,
     handEnabled    |-> enabled]

\* The page of the model is the page of its game, before a step and after it.
LEMMA ProjectionIsPage ==
    /\ Projection = PageOf(state, pendingCapture, pendingCardID)
    /\ Projection' = PageOf(state', pendingCapture', pendingCardID')
  BY DEF Projection, PageOf, HandOnPage, CurrentPlayer

\* The numbers of a well-formed game are numbers.
LEMMA CountsAreNatural ==
    ASSUME NEW g \in GameType
    PROVE  /\ CapturedCounts(g) \in [Seats -> Nat]
           /\ dealsRemaining(g) \in Int
<1>1. \A i \in Seats : Cardinality(g.captured[i]) \in Nat
  BY CardsFinite DEF GameType
<1>2. Cardinality(g.deck) \in Nat
  BY CardsFinite DEF GameType
<1>3. HandSize * NumPlayers \in Nat \ {0}
  BY SizeAssumption
<1>4. dealsRemaining(g) \in Int
  BY <1>2, <1>3 DEF dealsRemaining
<1> QED BY <1>1, <1>4 DEF CapturedCounts

\* The page between a move and the passing of the turn is a page.
LEMMA MovedIsAPage ==
    ASSUME NEW g \in GameType, NEW enabled \in BOOLEAN
    PROVE  MovedPage(g, enabled) \in PageType
<1>1. CapturedCounts(g) \in [Seats -> Nat] /\ dealsRemaining(g) \in Int
  BY CountsAreNatural
<1>2. SetToBag(g.tableCards) \in Tables /\ {} \in Options
  BY TableOfSet DEF GameType, Options
<1> QED BY <1>1, <1>2, MeAssumption DEF MovedPage, PageType, GameType

\* The page of a well-formed game is a page.
LEMMA PageOfIsAPage ==
    ASSUME NEW g \in GameType, NEW options \in Options, NEW c
    PROVE  PageOf(g, options, c) \in PageType
<1>1. CapturedCounts(g) \in [Seats -> Nat] /\ dealsRemaining(g) \in Int
  BY CountsAreNatural
<1>2. SetToBag(g.tableCards) \in Tables /\ {} \in Options
  BY TableOfSet DEF GameType, Options
<1>3. g.hand[Me] \in SUBSET Pack
  BY MeAssumption DEF GameType
<1> QED BY <1>1, <1>2, <1>3 DEF PageOf, PageType, GameType

\* What is built of a well-formed game is a well-formed message.
LEMMA StartIsAMessage ==
    ASSUME NEW g \in GameType PROVE GameStarted(g) \in Starts
<1>1. CapturedCounts(g) \in [Seats -> Nat] /\ dealsRemaining(g) \in Int
  BY CountsAreNatural
<1>2. ToClientState(g) \in PublicGames
  BY <1>1 DEF ToClientState, PublicGames, GameType
<1> QED BY <1>2 DEF GameStarted, Starts

\* The message of a deal is well formed.
LEMMA HandIsAMessage ==
    ASSUME NEW cards \in SUBSET Pack, NEW n \in Int PROVE HandDealt(cards, n) \in Hands
  BY DEF HandDealt, Hands

\* The message of a turn is well formed.
LEMMA TurnIsAMessage == ASSUME NEW i \in Seats PROVE TurnStart(i) \in Turns
  BY DEF TurnStart, Turns

\* The messages of a discard are well formed.
LEMMA PlayIsAMessage ==
    ASSUME NEW i \in Seats, NEW c \in Pack
    PROVE  CardPlayed(i, c) \in Plays /\ CardDiscarded(c) \in Discards
  BY DEF CardPlayed, CardDiscarded, Plays, Discards

\* A deal that did not fail.
LEMMA DealComesOut ==
    ASSUME NEW g \in GameType, AllHandsEmpty(g), g.phase = "playing",
           NEW h \in DealNextHand(g), Settled(h)
    PROVE  /\ h.phase = "playing"
           /\ h.roundNumber = g.roundNumber /\ h.dealNumber = g.dealNumber + 1
           /\ h.tablas = g.tablas /\ h.totalScore = g.totalScore
           /\ h.captured = g.captured
           /\ g.dealNumber # 0 => h.tableCards = g.tableCards
<1>1. CASE ~CanDeal(g)
  <2>1. h = g
    BY <1>1 DEF DealNextHand
  <2>2. DealFailed(h)
    BY <2>1 DEF DealFailed
  <2> QED BY <2>2, NoDealHasFailed
<1>2. CASE CanDeal(g)
  <2>1. PICK taken \in kSubset(Needed(g), g.deck) :
           \E split \in Splits(taken, FaceUp(g)) : h = AfterDeal(g, taken, split)
    BY <1>2 DEF DealNextHand
  <2>2. PICK split \in Splits(taken, FaceUp(g)) : h = AfterDeal(g, taken, split)
    BY <2>1
  <2>3. /\ h.phase = "playing"
        /\ h.roundNumber = g.roundNumber /\ h.dealNumber = g.dealNumber + 1
        /\ h.tablas = g.tablas /\ h.totalScore = g.totalScore
        /\ h.captured = g.captured
        /\ h.tableCards = g.tableCards \cup split.table
    BY <2>2 DEF AfterDeal, GameType
  <2>4. ASSUME g.dealNumber # 0 PROVE split.table = {}
    <3>1. split.table \in SUBSET taken /\ Cardinality(split.table) = 0
      BY <2>2, <2>4 DEF Splits, kSubset, FaceUp
    <3>2. taken \in SUBSET Pack
      BY <2>1 DEF kSubset, GameType
    <3> QED BY <3>1, <3>2, NoneLeft
  <2> QED BY <2>3, <2>4
<1> QED BY <1>1, <1>2

\* What can come of the passing of the turn, by the numbers of round and deal.
OnlyPassed(g, h) == h = AdvanceTurn(g)

HandsDealt(g, h) ==
    /\ h.phase = "playing"
    /\ h.roundNumber = g.roundNumber /\ h.dealNumber = g.dealNumber + 1
    /\ h.tablas = g.tablas /\ h.totalScore = g.totalScore
    /\ h.captured = g.captured /\ h.tableCards = g.tableCards

RoundDealt(g, h) ==
    /\ h.phase = "playing"
    /\ h.roundNumber = g.roundNumber + 1
    /\ h.tablas = [i \in Seats |-> 0]

\* There are no other ways on.
LEMMA WaysOn ==
    ASSUME NEW g, Moved(g), NEW h \in AdvanceTurnOrDeal(g)
    PROVE  \/ OnlyPassed(g, h)
           \/ HandsDealt(g, h)
           \/ RoundDealt(g, h)
           \/ h.phase = "game_over"
<1> DEFINE next == AdvanceTurn(g)
           last == ApplyLastHandRule(next)
           scores == ComputeRoundScores(last)
           fresh == ApplyRoundScores(last, scores)
<1>1. Settled(h)
  BY AdvanceSettles
<1>2. g \in GameType /\ g.phase = "playing" /\ g.dealNumber # 0
  BY DEF Moved, Sound
<1>3. /\ next \in GameType /\ next.phase = "playing"
      /\ next.tablas = g.tablas /\ next.totalScore = g.totalScore
      /\ next.captured = g.captured /\ next.tableCards = g.tableCards
      /\ next.roundNumber = g.roundNumber /\ next.dealNumber = g.dealNumber
  BY <1>2, PassingTheTurn
<1> HIDE DEF next
<1>4. CASE ~AllHandsEmpty(next)
  BY <1>4 DEF AdvanceTurnOrDeal, OnlyPassed, next
<1>5. CASE AllHandsEmpty(next) /\ ~DeckEmpty(next)
  <2>1. h \in DealNextHand(next)
    BY <1>5 DEF AdvanceTurnOrDeal, next
  <2>2. /\ h.phase = "playing"
        /\ h.roundNumber = next.roundNumber /\ h.dealNumber = next.dealNumber + 1
        /\ h.tablas = next.tablas /\ h.totalScore = next.totalScore
        /\ h.captured = next.captured
        /\ next.dealNumber # 0 => h.tableCards = next.tableCards
    BY <1>1, <1>3, <1>5, <2>1, DealComesOut
  <2> QED BY <1>2, <1>3, <2>2 DEF HandsDealt
<1>6. CASE AllHandsEmpty(next) /\ DeckEmpty(next)
  <2>1. h \in EndRound(next)
    BY <1>6 DEF AdvanceTurnOrDeal, next
  <2>2. /\ last \in GameType /\ last.phase = next.phase
        /\ last.roundNumber = next.roundNumber
    BY <1>3, AwardingTheLastCards
  <2> HIDE DEF last
  <2>3. /\ fresh \in GameType /\ fresh.roundNumber = last.roundNumber + 1
        /\ fresh.phase = last.phase
    BY <2>2, AddingUp
  <2>4. fresh.hand = [i \in Seats |-> {}] /\ fresh.tablas = [i \in Seats |-> 0]
    BY <2>2 DEF ApplyRoundScores, GameType
  <2> HIDE DEF scores
  <2>5. h \in IF SomeoneWins(last, scores)
              THEN {[last EXCEPT !.phase = "game_over"]}
              ELSE DealNextHand(fresh)
    BY <2>1 DEF EndRound, last, scores
  <2>6. CASE SomeoneWins(last, scores)
    <3>1. h = [last EXCEPT !.phase = "game_over"]
      BY <2>5, <2>6
    <3> QED BY <2>2, <3>1 DEF GameType
  <2>7. CASE ~SomeoneWins(last, scores)
    <3>1. h \in DealNextHand(fresh)
      BY <2>5, <2>7
    <3> HIDE DEF fresh
    <3>2. AllHandsEmpty(fresh) /\ fresh.phase = "playing"
      BY <1>3, <2>2, <2>3, <2>4 DEF AllHandsEmpty
    <3>3. /\ h.phase = "playing" /\ h.roundNumber = fresh.roundNumber
          /\ h.tablas = fresh.tablas
      BY <1>1, <2>3, <3>1, <3>2, DealComesOut
    <3> QED BY <1>3, <2>2, <2>3, <2>4, <3>3 DEF RoundDealt
  <2> QED BY <2>6, <2>7
<1> QED BY <1>4, <1>5, <1>6

\* One, two and three messages in a row.
LEMMA TwoInARow ==
    ASSUME NEW a, NEW b, NEW S, a \in S, b \in S
    PROVE  /\ <<a>> \in Seq(S) /\ <<a, b>> \in Seq(S)
           /\ Append(<<a>>, b) = <<a, b>> /\ <<a>> \o <<b>> = <<a, b>>
<1>1. <<a>> \in Seq(S) /\ <<a, b>> \in Seq(S)
  OBVIOUS
<1>2. Append(<<a>>, b) = [i \in 1 .. 2 |-> IF i = 1 THEN a ELSE b]
  BY <1>1
<1>3. <<a, b>> = [i \in 1 .. 2 |-> IF i = 1 THEN a ELSE b]
  OBVIOUS
<1>4. Append(<<a>>, b) = <<a>> \o <<b>>
  BY <1>1, AppendIsConcat
<1> QED BY <1>1, <1>2, <1>3, <1>4

\* The same of three.
LEMMA ThreeInARow ==
    ASSUME NEW a, NEW b, NEW c, NEW S, a \in S, b \in S, c \in S
    PROVE  /\ <<a, b, c>> \in Seq(S)
           /\ Append(<<a, b>>, c) = <<a, b, c>>
           /\ <<a>> \o <<b, c>> = <<a, b, c>>
<1>1. /\ <<a, b>> \in Seq(S) /\ <<a, b, c>> \in Seq(S)
      /\ <<a>> \in Seq(S) /\ <<b>> \in Seq(S) /\ <<c>> \in Seq(S)
  OBVIOUS
<1>2. Append(<<a, b>>, c) = [i \in 1 .. 3 |-> IF i = 1 THEN a ELSE IF i = 2 THEN b ELSE c]
  <2>1. Len(<<a, b>>) = 2 /\ <<a, b>>[1] = a /\ <<a, b>>[2] = b
    OBVIOUS
  <2> QED BY <1>1, <2>1
<1>3. <<a, b, c>> = [i \in 1 .. 3 |-> IF i = 1 THEN a ELSE IF i = 2 THEN b ELSE c]
  OBVIOUS
<1>4. Append(<<a, b>>, c) = <<a, b>> \o <<c>>
  BY <1>1, AppendIsConcat
<1>5. <<a, b>> = <<a>> \o <<b>> /\ <<b, c>> = <<b>> \o <<c>>
  BY TwoInARow
<1>6. (<<a>> \o <<b>>) \o <<c>> = <<a>> \o (<<b>> \o <<c>>)
  BY <1>1, ConcatAssociative
<1> QED BY <1>1, <1>2, <1>3, <1>4, <1>5, <1>6

\* Two messages, one after the other.
LEMMA ShowsTwo ==
    ASSUME NEW v, NEW a, NEW b
    PROVE  Shows(v, <<a, b>>) = applyServerMessage(applyServerMessage(v, a), b)
<1>1. PICK S : a \in S /\ b \in S
  <2>1. a \in {a, b} /\ b \in {a, b}
    OBVIOUS
  <2> QED BY <2>1
<1>2. PICK q \in Seq(S) : q = <<a>> /\ Append(q, b) = <<a, b>>
  BY <1>1, TwoInARow
<1>3. Shows(v, Append(q, b)) = applyServerMessage(Shows(v, q), b)
  BY <1>1, ShowsOneMore
<1> QED BY <1>2, <1>3, ShowsOne

\* Three messages, one after the other.
LEMMA ShowsThree ==
    ASSUME NEW v, NEW a, NEW b, NEW c
    PROVE  Shows(v, <<a, b, c>>)
               = applyServerMessage(applyServerMessage(applyServerMessage(v, a), b), c)
<1>1. PICK S : a \in S /\ b \in S /\ c \in S
  <2>1. a \in {a, b, c} /\ b \in {a, b, c} /\ c \in {a, b, c}
    OBVIOUS
  <2> QED BY <2>1
<1>2. PICK q \in Seq(S) : q = <<a, b>> /\ Append(q, c) = <<a, b, c>>
  BY <1>1, TwoInARow, ThreeInARow
<1>3. Shows(v, Append(q, c)) = applyServerMessage(Shows(v, q), c)
  BY <1>1, ShowsOneMore
<1>4. Shows(v, <<a, b>>) = applyServerMessage(applyServerMessage(v, a), b)
  BY ShowsTwo
<1> QED BY <1>2, <1>3, <1>4

\* The next player's turn.
LEMMA PassingIsShown ==
    ASSUME NEW g \in GameType, NEW enabled \in BOOLEAN, NEW c,
           NEW h, OnlyPassed(g, h)
    PROVE  applyServerMessage(MovedPage(g, enabled), TurnStart(h.currentPlayerIndex))
               = PageOf(h, {}, c)
<1> DEFINE m == TurnStart(h.currentPlayerIndex)
<1>1. /\ h \in GameType /\ h.hand = g.hand /\ h.captured = g.captured
      /\ h.tablas = g.tablas /\ h.totalScore = g.totalScore /\ h.deck = g.deck
      /\ h.tableCards = g.tableCards
  BY PassingTheTurn DEF OnlyPassed
<1>2. h.currentPlayerIndex \in Seats
  BY <1>1 DEF GameType
<1>3. m \in Turns /\ m.playerIndex = h.currentPlayerIndex
  BY <1>2, TurnIsAMessage DEF TurnStart
<1>4. dealsRemaining(h) = dealsRemaining(g) /\ CapturedCounts(h) = CapturedCounts(g)
  BY <1>1 DEF dealsRemaining, CapturedCounts
<1>5. OnTurnStart(MovedPage(g, enabled), m) = PageOf(h, {}, c)
  <2> HIDE DEF m
  <2> QED BY <1>1, <1>3, <1>4 DEF OnTurnStart, MovedPage, PageOf
<1> QED BY <1>3, <1>5, ReducerCases

\* A deal within a round.
LEMMA DealIsShown ==
    ASSUME NEW g \in GameType, NEW enabled \in BOOLEAN, NEW c,
           NEW h \in GameType, HandsDealt(g, h)
    PROVE  Shows(MovedPage(g, enabled), DealMessages(h)) = PageOf(h, {}, c)
<1> DEFINE a == HandDealt(h.hand[Me], dealsRemaining(h))
           b == TurnStart(h.currentPlayerIndex)
           v == MovedPage(g, enabled)
<1>1. /\ h.hand[Me] \in SUBSET Pack /\ h.currentPlayerIndex \in Seats
      /\ dealsRemaining(h) \in Int
  BY MeAssumption, CountsAreNatural DEF GameType
<1>2. /\ a \in Hands /\ a.cards = h.hand[Me] /\ a.dealsRemaining = dealsRemaining(h)
      /\ b \in Turns /\ b.playerIndex = h.currentPlayerIndex
  BY <1>1, HandIsAMessage, TurnIsAMessage DEF HandDealt, TurnStart
<1>3. Shows(v, <<a, b>>) = applyServerMessage(applyServerMessage(v, a), b)
  BY ShowsTwo
<1>4. CapturedCounts(h) = CapturedCounts(g)
  BY DEF CapturedCounts, HandsDealt
<1> HIDE DEF a, b
<1>5. OnTurnStart(OnHandDealt(v, a), b) = PageOf(h, {}, c)
  BY <1>2, <1>4, ZenonT(60) DEF OnTurnStart, OnHandDealt, MovedPage, PageOf, HandsDealt, isMyTurn
<1>6. Shows(v, <<a, b>>) = PageOf(h, {}, c)
  BY <1>2, <1>3, <1>5, ReducerCases
<1> QED BY <1>6 DEF DealMessages, a, b

\* What BroadcastGameStart sends, written out.
LEMMA StartMessagesAre ==
    ASSUME NEW h
    PROVE  StartMessages(h) = <<GameStarted(h), HandDealt(h.hand[Me], dealsRemaining(h)),
                                TurnStart(h.currentPlayerIndex)>>
<1>1. ASSUME NEW a, NEW b, NEW c PROVE <<a>> \o <<b, c>> = <<a, b, c>>
  <2>1. a \in {a, b, c} /\ b \in {a, b, c} /\ c \in {a, b, c}
    OBVIOUS
  <2> QED BY <2>1, ThreeInARow
<1> QED BY <1>1 DEF StartMessages, DealMessages

\* A new round, on any page.
LEMMA RoundIsShown ==
    ASSUME NEW h \in GameType, h.phase = "playing", h.tablas = [i \in Seats |-> 0],
           NEW v \in PageType, NEW c
    PROVE  Shows(v, StartMessages(h)) = PageOf(h, {}, c)
<1> DEFINE s == GameStarted(h)
           a == HandDealt(h.hand[Me], dealsRemaining(h))
           b == TurnStart(h.currentPlayerIndex)
<1>1. /\ h.hand[Me] \in SUBSET Pack /\ h.currentPlayerIndex \in Seats
      /\ dealsRemaining(h) \in Int
  BY MeAssumption, CountsAreNatural DEF GameType
<1>2. /\ a \in Hands /\ a.cards = h.hand[Me] /\ a.dealsRemaining = dealsRemaining(h)
      /\ b \in Turns /\ b.playerIndex = h.currentPlayerIndex
  BY <1>1, HandIsAMessage, TurnIsAMessage DEF HandDealt, TurnStart
<1>3. /\ s \in Starts /\ s.state.phase = "playing" /\ s.state.table = h.tableCards
      /\ s.state.current = h.currentPlayerIndex
      /\ s.state.dealsRemaining = dealsRemaining(h)
      /\ s.state.totalScore = h.totalScore
      /\ s.state.capturedCount = CapturedCounts(h)
  BY StartIsAMessage DEF GameStarted, ToClientState
<1>4. Shows(v, <<s, a, b>>)
         = applyServerMessage(applyServerMessage(applyServerMessage(v, s), a), b)
  BY ShowsThree
<1> HIDE DEF s, a, b
<1>5. OnTurnStart(OnHandDealt(OnGameStarted(v, s), a), b) = PageOf(h, {}, c)
  BY <1>2, <1>3, ZenonT(60) DEF OnTurnStart, OnHandDealt, OnGameStarted, PageOf, PageType, isMyTurn
<1>6. Shows(v, <<s, a, b>>) = PageOf(h, {}, c)
  BY <1>2, <1>3, <1>4, <1>5, ReducerCases
<1> QED BY <1>6, StartMessagesAre DEF s, a, b

\* What the passing of the turn does to a page, and of which messages.
LEMMA TurnIsShown ==
    ASSUME NEW g, Moved(g), NEW h \in AdvanceTurnOrDeal(g), NEW enabled \in BOOLEAN,
           NEW before, before.roundNumber = g.roundNumber,
           before.dealNumber = g.dealNumber
    PROVE  LET messages == TurnMessages(before, h)
               shown == Shows(MovedPage(g, enabled), messages)
           IN /\ messages \in Seq(Messages) /\ Len(messages) <= 3
              /\ h.phase = "playing" => \A c : shown = PageOf(h, {}, c)
              /\ h.phase # "playing" =>
                     h.phase = "game_over" /\ shown.over
                         /\ CountsAndScores(shown) = Standings(h)
<1> DEFINE messages == TurnMessages(before, h)
           v == MovedPage(g, enabled)
<1>1. /\ Settled(h) /\ h \in GameType /\ g \in GameType
      /\ g.phase = "playing" /\ g.roundNumber \in Nat /\ g.dealNumber \in Nat
      /\ ~DealFailed(h)
  BY AdvanceSettles, NoDealHasFailed DEF Settled, Sound, Moved, GameType
<1>2. /\ h.hand[Me] \in SUBSET Pack /\ h.currentPlayerIndex \in Seats
      /\ dealsRemaining(h) \in Int
  BY <1>1, MeAssumption, CountsAreNatural DEF GameType
<1>3. /\ TurnStart(h.currentPlayerIndex) \in Messages
      /\ HandDealt(h.hand[Me], dealsRemaining(h)) \in Messages
      /\ GameStarted(h) \in Messages
  BY <1>1, <1>2, TurnIsAMessage, HandIsAMessage, StartIsAMessage DEF Messages
<1>4. CASE OnlyPassed(g, h)
  <2>1. /\ h.phase = "playing" /\ h.roundNumber = before.roundNumber
        /\ h.dealNumber = before.dealNumber
    BY <1>1, <1>4, PassingTheTurn DEF OnlyPassed
  <2>2. messages = <<TurnStart(h.currentPlayerIndex)>>
    BY <1>1, <2>1 DEF TurnMessages
  <2>3. messages \in Seq(Messages) /\ Len(messages) <= 3
    BY <1>3, <2>2
  <2>4. \A c : Shows(v, messages) = PageOf(h, {}, c)
    BY <1>1, <1>4, <2>2, ShowsOne, PassingIsShown
  <2> QED BY <2>1, <2>3, <2>4
<1>5. CASE HandsDealt(g, h)
  <2>1. /\ h.phase = "playing" /\ h.roundNumber = before.roundNumber
        /\ h.dealNumber # before.dealNumber
    BY <1>1, <1>5 DEF HandsDealt
  <2>2. messages = DealMessages(h)
    BY <1>1, <2>1 DEF TurnMessages
  <2>3. messages \in Seq(Messages) /\ Len(messages) <= 3
    BY <1>3, <2>2 DEF DealMessages
  <2>4. \A c : Shows(v, messages) = PageOf(h, {}, c)
    BY <1>1, <1>5, <2>2, DealIsShown
  <2> QED BY <2>1, <2>3, <2>4
<1>6. CASE RoundDealt(g, h)
  <2>1. h.phase = "playing" /\ h.roundNumber # before.roundNumber
    BY <1>1, <1>6 DEF RoundDealt
  <2>2. messages = StartMessages(h)
    BY <1>1, <2>1 DEF TurnMessages
  <2>3. messages \in Seq(Messages) /\ Len(messages) <= 3
    <3>1. ASSUME NEW s \in Messages, NEW a \in Messages, NEW b \in Messages
          PROVE  <<s, a, b>> \in Seq(Messages) /\ Len(<<s, a, b>>) = 3
      BY ThreeInARow
    <3>2. StartMessages(h) \in Seq(Messages) /\ Len(StartMessages(h)) = 3
      BY <1>3, <3>1, StartMessagesAre
    <3>3. 3 <= 3
      OBVIOUS
    <3> HIDE DEF messages
    <3> QED BY <2>2, <3>2, <3>3
  <2>4. v \in PageType
    BY <1>1, MovedIsAPage
  <2>5. \A c : Shows(v, messages) = PageOf(h, {}, c)
    BY <1>1, <1>6, <2>2, <2>4, RoundIsShown DEF RoundDealt
  <2> QED BY <2>1, <2>3, <2>5
<1>7. CASE h.phase = "game_over"
  <2> DEFINE m == GameOver(TotalsAfterRound(h), CapturedCounts(h))
  <2>1. messages = <<m>>
    BY <1>7 DEF TurnMessages
  <2>2. m \in Overs /\ m.totalScore = TotalsAfterRound(h)
        /\ m.capturedCount = CapturedCounts(h)
    <3>1. TotalsAfterRound(h) \in [Seats -> Nat]
      <4>1. ASSUME NEW i \in Seats PROVE Standing(h, ComputeRoundScores(h), i) \in Nat
        BY <1>1, ScoresNat DEF Standing, GameType
      <4> QED BY <1>7, <4>1 DEF TotalsAfterRound
    <3>2. CapturedCounts(h) \in [Seats -> Nat]
      BY <1>1, CountsAreNatural
    <3> QED BY <3>1, <3>2 DEF GameOver, Overs
  <2> HIDE DEF m
  <2>3. messages \in Seq(Messages) /\ Len(messages) <= 3
    <3>1. m \in Messages
      BY <2>2 DEF Messages
    <3>2. <<m>> \in Seq(Messages) /\ Len(<<m>>) = 1
      BY <3>1
    <3>3. 1 <= 3
      OBVIOUS
    <3> HIDE DEF messages
    <3> QED BY <2>1, <3>2, <3>3
  <2>4. Shows(v, messages) = OnGameOver(v, m)
    BY <2>1, <2>2, ShowsOne, ReducerCases
  <2>5. OnGameOver(v, m).over /\ CountsAndScores(OnGameOver(v, m)) = Standings(h)
    BY <2>2 DEF OnGameOver, MovedPage, CountsAndScores, Standings
  <2> QED BY <1>7, <2>3, <2>4, <2>5
<1> QED BY <1>4, <1>5, <1>6, <1>7, WaysOn

\* The last of these messages is m.
EndsWith(q, m) == Len(q) \in Nat \ {0} /\ q[Len(q)] = m

\* Whatever went before.
LEMMA EndStays ==
    ASSUME NEW S, NEW q \in Seq(S), NEW r \in Seq(S), NEW m, EndsWith(r, m)
    PROVE  EndsWith(q \o r, m)
<1>1. PICK j \in Nat, k \in Nat \ {0} : j = Len(q) /\ k = Len(r) /\ r[k] = m
  BY LenProperties DEF EndsWith
<1>2. /\ Len(q \o r) = j + k
      /\ \A i \in 1 .. j + k : (q \o r)[i] = IF i <= j THEN q[i] ELSE r[i - j]
  BY <1>1, ConcatProperties
<1>3. j + k \in 1 .. j + k /\ ~(j + k <= j) /\ j + k - j = k /\ j + k \in Nat \ {0}
  OBVIOUS
<1>4. (q \o r)[j + k] = m
  BY <1>1, <1>2, <1>3
<1> QED BY <1>2, <1>3, <1>4 DEF EndsWith

\* What is left when the first one is taken.
LEMMA EndIsLeft ==
    ASSUME NEW S, NEW q \in Seq(S), NEW m, EndsWith(q, m)
    PROVE  (Tail(q) = << >> /\ Head(q) = m) \/ EndsWith(Tail(q), m)
<1>1. PICK n \in Nat \ {0} : n = Len(q) /\ q[n] = m
  BY DEF EndsWith
<1>2. q # << >>
  BY <1>1, EmptySeq
<1>3. /\ Tail(q) \in Seq(S) /\ Len(Tail(q)) = n - 1 /\ Head(q) = q[1]
      /\ \A i \in 1 .. n - 1 : Tail(q)[i] = q[i + 1]
  BY <1>1, <1>2, HeadTailProperties
<1>4. CASE n = 1
  <2>1. Len(Tail(q)) = 0
    BY <1>3, <1>4
  <2>2. Tail(q) = << >>
    BY <1>3, <2>1, EmptySeq
  <2> QED BY <1>1, <1>3, <1>4, <2>2
<1>5. CASE n # 1
  <2>1. n - 1 \in 1 .. n - 1 /\ n - 1 + 1 = n /\ n - 1 \in Nat \ {0}
    BY <1>5
  <2> QED BY <1>1, <1>3, <2>1 DEF EndsWith
<1> QED BY <1>4, <1>5

\* The announcement of a round tells the turn last.
LEMMA StartEndsInATurn ==
    ASSUME NEW h PROVE EndsWith(StartMessages(h), TurnStart(h.currentPlayerIndex))
<1>1. PICK a, b, m : StartMessages(h) = <<a, b, m>> /\ m = TurnStart(h.currentPlayerIndex)
  BY StartMessagesAre
<1>2. Len(<<a, b, m>>) = 3 /\ <<a, b, m>>[3] = m
  OBVIOUS
<1> QED BY <1>1, <1>2 DEF EndsWith

\* As long as the game goes on, the passing of the turn is told last.
LEMMA TurnComesLast ==
    ASSUME NEW g, Moved(g), NEW h \in AdvanceTurnOrDeal(g), h.phase = "playing",
           NEW before, before.roundNumber = g.roundNumber,
           before.dealNumber = g.dealNumber
    PROVE  EndsWith(TurnMessages(before, h), TurnStart(h.currentPlayerIndex))
<1> DEFINE m == TurnStart(h.currentPlayerIndex)
<1>1. ~DealFailed(h)
  BY AdvanceSettles, NoDealHasFailed
<1> HIDE DEF m
<1>2. EndsWith(<<m>>, m)
  BY DEF EndsWith
<1>3. EndsWith(DealMessages(h), m)
  <2>1. PICK a : DealMessages(h) = <<a, m>>
    BY DEF DealMessages, m
  <2>2. Len(<<a, m>>) = 2 /\ <<a, m>>[2] = m
    OBVIOUS
  <2> QED BY <2>1, <2>2 DEF EndsWith
<1>4. EndsWith(StartMessages(h), m)
  BY StartEndsInATurn DEF m
<1>5. TurnMessages(before, h) \in {<<m>>, DealMessages(h), StartMessages(h)}
  BY <1>1 DEF TurnMessages, m
<1> QED BY <1>2, <1>3, <1>4, <1>5 DEF m

\* The announcement of a game is the beginning of a round.
LEMMA AnnouncedRound ==
    ASSUME NEW g, Moved(g), NEW h \in AdvanceTurnOrDeal(g),
           NEW before, before.roundNumber = g.roundNumber,
           before.dealNumber = g.dealNumber,
           NEW n \in DOMAIN TurnMessages(before, h),
           TurnMessages(before, h)[n].type = "GAME_STARTED"
    PROVE  h \in GameType /\ RoundDealt(g, h) /\ TurnMessages(before, h) = StartMessages(h)
<1> DEFINE messages == TurnMessages(before, h)
<1>1. /\ h \in GameType /\ g \in GameType
      /\ g.phase = "playing" /\ g.roundNumber \in Nat /\ g.dealNumber \in Nat
      /\ ~DealFailed(h)
  BY AdvanceSettles, NoDealHasFailed DEF Settled, Sound, Moved, GameType
<1>2. ASSUME NEW m, messages = <<m>> PROVE m.type = "GAME_STARTED"
  BY <1>2
<1>3. CASE OnlyPassed(g, h)
  <2>1. /\ h.phase = "playing" /\ h.roundNumber = before.roundNumber
        /\ h.dealNumber = before.dealNumber
    BY <1>1, <1>3, PassingTheTurn DEF OnlyPassed
  <2>2. messages = <<TurnStart(h.currentPlayerIndex)>>
    BY <1>1, <2>1 DEF TurnMessages
  <2>3. TurnStart(h.currentPlayerIndex).type = "GAME_STARTED"
    BY <1>2, <2>2
  <2> QED BY <2>3 DEF TurnStart
<1>4. CASE HandsDealt(g, h)
  <2> DEFINE a == HandDealt(h.hand[Me], dealsRemaining(h))
             b == TurnStart(h.currentPlayerIndex)
  <2>1. /\ h.phase = "playing" /\ h.roundNumber = before.roundNumber
        /\ h.dealNumber # before.dealNumber
    BY <1>1, <1>4 DEF HandsDealt
  <2>2. messages = <<a, b>>
    BY <1>1, <2>1 DEF TurnMessages, DealMessages
  <2>3. a.type = "HAND_DEALT" /\ b.type = "TURN_START"
    BY DEF HandDealt, TurnStart
  <2> HIDE DEF a, b
  <2>4. DOMAIN <<a, b>> = {1, 2} /\ <<a, b>>[1] = a /\ <<a, b>>[2] = b
    OBVIOUS
  <2>5. \A k \in DOMAIN <<a, b>> : <<a, b>>[k].type # "GAME_STARTED"
    BY <2>3, <2>4
  <2> QED BY <2>2, <2>5
<1>5. CASE RoundDealt(g, h)
  <2>1. h.phase = "playing" /\ h.roundNumber # before.roundNumber
    BY <1>1, <1>5 DEF RoundDealt
  <2> QED BY <1>1, <1>5, <2>1 DEF TurnMessages
<1>6. CASE h.phase = "game_over"
  <2>1. messages = <<GameOver(TotalsAfterRound(h), CapturedCounts(h))>>
    BY <1>6 DEF TurnMessages
  <2>2. GameOver(TotalsAfterRound(h), CapturedCounts(h)).type = "GAME_STARTED"
    BY <1>2, <2>1
  <2> QED BY <2>2 DEF GameOver
<1> QED BY <1>3, <1>4, <1>5, <1>6, WaysOn

\* The card that is played leaves the player's hand, on the table, ...
LEMMA DiscardIsShown ==
    ASSUME NEW g, Settled(g), g.phase = "playing",
           NEW c \in g.hand[g.currentPlayerIndex], NEW x
    PROVE  LET i == g.currentPlayerIndex
               messages == <<CardPlayed(i, c), CardDiscarded(c)>>
           IN /\ messages \in Seq(Messages)
              /\ Shows(PageOf(g, {}, x), messages)
                     = MovedPage(ApplyDiscard(g, i, c), i = Me)
<1> DEFINE i == g.currentPlayerIndex
           h == ApplyDiscard(g, i, c)
           a == CardPlayed(i, c)
           b == CardDiscarded(c)
<1>1. g \in GameType /\ i \in Seats /\ c \in Pack
  BY MoverIsPlaying DEF Settled, Sound, GameType
<1>2. /\ a \in Plays /\ a.player = i /\ a.card = c
      /\ b \in Discards /\ b.card = c
  BY <1>1, PlayIsAMessage DEF CardPlayed, CardDiscarded
<1>3. c \notin g.tableCards
  BY <1>1 DEF Settled, Sound, NoDuplication
<1>4. /\ h.hand = [g.hand EXCEPT ![i] = @ \ {c}] /\ h.tableCards = g.tableCards \cup {c}
      /\ h.currentPlayerIndex = i /\ h.deck = g.deck /\ h.totalScore = g.totalScore
      /\ h.captured = g.captured /\ h.tablas = g.tablas
  BY <1>1 DEF ApplyDiscard, GameType
<1>5. /\ dealsRemaining(h) = dealsRemaining(g) /\ CapturedCounts(h) = CapturedCounts(g)
      /\ h.hand[Me] = IF i = Me THEN g.hand[Me] \ {c} ELSE g.hand[Me]
  BY <1>1, <1>4, MeAssumption DEF dealsRemaining, CapturedCounts, GameType
<1>6. SetToBag(g.tableCards) (+) SetToBag({c}) = SetToBag(h.tableCards)
  BY <1>3, <1>4 DEF SetToBag, (+)
<1>7. Shows(PageOf(g, {}, x), <<a, b>>)
         = applyServerMessage(applyServerMessage(PageOf(g, {}, x), a), b)
  BY ShowsTwo
<1>8. <<a, b>> \in Seq(Messages)
  BY <1>2 DEF Messages
<1> HIDE DEF a, b, h
<1>9. OnCardDiscarded(OnCardPlayed(PageOf(g, {}, x), a), b) = MovedPage(h, i = Me)
  BY <1>2, <1>4, <1>5, <1>6, ZenonT(60) DEF OnCardDiscarded, OnCardPlayed, PageOf, MovedPage
<1>10. Shows(PageOf(g, {}, x), <<a, b>>) = MovedPage(h, i = Me)
  BY <1>2, <1>7, <1>9, ReducerCases
<1> QED BY <1>8, <1>10 DEF a, b, h

\* ... or until it is known what it captures ...
LEMMA PlayIsShown ==
    ASSUME NEW g \in GameType, NEW c \in Pack, NEW x
    PROVE  LET i == g.currentPlayerIndex
           IN /\ CardPlayed(i, c) \in Messages
              /\ applyServerMessage(PageOf(g, {}, x), CardPlayed(i, c))
                     = PlayedPage(g, c, {}, i = Me)
<1> DEFINE i == g.currentPlayerIndex
           a == CardPlayed(i, c)
<1>1. a \in Plays /\ a.player = i /\ a.card = c
  BY PlayIsAMessage DEF CardPlayed, GameType
<1> HIDE DEF a
<1>2. OnCardPlayed(PageOf(g, {}, x), a) = PlayedPage(g, c, {}, i = Me)
  BY <1>1 DEF OnCardPlayed, PageOf, PlayedPage
<1>3. a \in Messages /\ applyServerMessage(PageOf(g, {}, x), a) = PlayedPage(g, c, {}, i = Me)
  BY <1>1, <1>2, ReducerCases DEF Messages
<1> QED BY <1>3 DEF a

\* ... and what it captures leaves the table.
LEMMA CaptureIsShown ==
    ASSUME NEW g, Settled(g), g.phase = "playing", NEW c, NEW option,
           CaptureFits(g, g.currentPlayerIndex, c, option),
           NEW options, NEW enabled \in BOOLEAN
    PROVE  LET i == g.currentPlayerIndex
               h == ApplyCapture(g, i, c, option)
               m == CaptureMade(i, UNION option, h.tableCards = {},
                                Cardinality(h.captured[i]))
           IN /\ m \in Messages
              /\ applyServerMessage(PlayedPage(g, c, options, enabled), m)
                     = MovedPage(h, enabled)
<1> DEFINE i == g.currentPlayerIndex
           won == UNION option
           h == ApplyCapture(g, i, c, option)
           m == CaptureMade(i, won, h.tableCards = {}, Cardinality(h.captured[i]))
<1>1. /\ g \in GameType /\ i \in Seats /\ c \in g.hand[i] /\ c \in Pack
      /\ won \subseteq g.tableCards /\ g.tableCards \in SUBSET Pack
  BY DEF Settled, Sound, GameType, CaptureFits
<1> HIDE DEF won
<1>2. h \in GameType
  BY CaptureMoves DEF Moved, Sound
<1>3. /\ h.hand = [g.hand EXCEPT ![i] = @ \ {c}] /\ h.tableCards = g.tableCards \ won
      /\ h.currentPlayerIndex = i /\ h.deck = g.deck /\ h.totalScore = g.totalScore
      /\ h.captured = [g.captured EXCEPT ![i] = @ \cup {c} \cup won]
      /\ h.tablas = [g.tablas EXCEPT ![i] = IF h.tableCards = {} THEN @ + 1 ELSE @]
  BY <1>1 DEF ApplyCapture, GameType, won
<1> HIDE DEF h
<1>4. Cardinality(h.captured[i]) \in Nat
  BY <1>1, <1>2, CardsFinite DEF GameType
<1>5. /\ m \in Captures /\ m.player = i /\ m.cards = won
      /\ m.wasTabla = (h.tableCards = {})
      /\ m.capturedCount = Cardinality(h.captured[i])
  BY <1>1, <1>4 DEF CaptureMade, Captures
<1> HIDE DEF m
<1>6. dealsRemaining(h) = dealsRemaining(g)
  BY <1>3 DEF dealsRemaining
<1>7. h.hand[Me] = IF i = Me THEN g.hand[Me] \ {c} ELSE g.hand[Me]
  BY <1>1, <1>3, MeAssumption DEF GameType
<1>8. CapturedCounts(h) = [CapturedCounts(g) EXCEPT ![i] = Cardinality(h.captured[i])]
  <2>1. \A j \in Seats : j # i => h.captured[j] = g.captured[j]
    BY <1>1, <1>3 DEF GameType
  <2> QED BY <1>1, <2>1 DEF CapturedCounts
<1>9. WithoutCards(SetToBag(g.tableCards), won) = SetToBag(h.tableCards)
  BY <1>3 DEF WithoutCards, SetToBag
<1>10. OnCaptureMade(PlayedPage(g, c, options, enabled), m) = MovedPage(h, enabled)
  BY <1>3, <1>5, <1>6, <1>7, <1>8, <1>9, ZenonT(60) DEF OnCaptureMade, PlayedPage, MovedPage
<1>11. m \in Messages /\ applyServerMessage(PlayedPage(g, c, options, enabled), m)
                             = MovedPage(h, enabled)
  BY <1>5, <1>10, ReducerCases DEF Messages
<1> QED BY <1>11 DEF m, h, won

\* The options that a card offers disable the hand until one is chosen.
LEMMA OptionsAreShown ==
    ASSUME NEW g \in GameType, g.currentPlayerIndex = Me, NEW c,
           NEW options \in Options, options # {}
    PROVE  /\ CaptureOptions(options) \in Messages
           /\ applyServerMessage(PlayedPage(g, c, {}, TRUE), CaptureOptions(options))
                  = PageOf(g, options, c)
<1> DEFINE m == CaptureOptions(options)
<1>1. m \in Offers /\ m.options = options
  BY DEF CaptureOptions, Offers
<1> HIDE DEF m
<1> DEFINE v == PlayedPage(g, c, {}, TRUE)
<1>2. OnCaptureOptions(v, m) = PageOf(g, options, c)
  <2>1. v.started = TRUE /\ v.handEnabled = TRUE
    BY DEF PlayedPage
  <2>2. OnCaptureOptions(v, m) = [v EXCEPT !.captureOptions = options,
                                           !.handEnabled    = FALSE]
    BY <1>1, <2>1 DEF OnCaptureOptions, PlayedPage
  <2>3. PageOf(g, options, c) =
            [started        |-> TRUE,
             over           |-> FALSE,
             table          |-> SetToBag(g.tableCards),
             current        |-> g.currentPlayerIndex,
             dealsRemaining |-> dealsRemaining(g),
             totalScore     |-> g.totalScore,
             capturedCount  |-> CapturedCounts(g),
             playerTablas   |-> g.tablas,
             myHand         |-> g.hand[Me] \ {c},
             captureOptions |-> options,
             handEnabled    |-> FALSE]
    BY DEF PageOf
  <2> QED BY <2>2, <2>3, ZenonT(60) DEF PlayedPage
<1>3. m \in Messages /\ applyServerMessage(PlayedPage(g, c, {}, TRUE), m) = PageOf(g, options, c)
  BY <1>1, <1>2, ReducerCases DEF Messages
<1> QED BY <1>3 DEF m

\* What the passing of the turn does to the hand on any page.
LEMMA HandAfterTurn ==
    ASSUME NEW g, Moved(g), NEW h \in AdvanceTurnOrDeal(g), h.phase = "playing",
           NEW before, before.roundNumber = g.roundNumber,
           before.dealNumber = g.dealNumber
    PROVE  \/ /\ OnlyPassed(g, h)
              /\ \A v \in PageType : Shows(v, TurnMessages(before, h)).myHand = v.myHand
           \/ \A v \in PageType : Shows(v, TurnMessages(before, h)).myHand = h.hand[Me]
<1> DEFINE messages == TurnMessages(before, h)
           a == HandDealt(h.hand[Me], dealsRemaining(h))
           b == TurnStart(h.currentPlayerIndex)
<1>1. /\ h \in GameType /\ g \in GameType
      /\ g.phase = "playing" /\ g.roundNumber \in Nat /\ g.dealNumber \in Nat
      /\ ~DealFailed(h)
  BY AdvanceSettles, NoDealHasFailed DEF Settled, Sound, Moved, GameType
<1>2. /\ h.hand[Me] \in SUBSET Pack /\ h.currentPlayerIndex \in Seats
      /\ dealsRemaining(h) \in Int
  BY <1>1, MeAssumption, CountsAreNatural DEF GameType
<1>3. a \in Hands /\ a.cards = h.hand[Me] /\ b \in Turns
  BY <1>2, HandIsAMessage, TurnIsAMessage DEF HandDealt
<1>4. CASE OnlyPassed(g, h)
  <2>1. /\ h.roundNumber = before.roundNumber /\ h.dealNumber = before.dealNumber
    BY <1>1, <1>4, PassingTheTurn DEF OnlyPassed
  <2>2. messages = <<b>>
    BY <1>1, <2>1 DEF TurnMessages
  <2> HIDE DEF a, b, messages
  <2>3. ASSUME NEW v \in PageType PROVE Shows(v, messages).myHand = v.myHand
    <3>1. Shows(v, messages) = OnTurnStart(v, b)
      BY <1>3, <2>2, ShowsOne, ReducerCases
    <3>2. OnTurnStart(v, b).myHand = v.myHand
      BY DEF OnTurnStart, PageType
    <3> QED BY <3>1, <3>2
  <2> QED BY <1>4, <2>3 DEF messages
<1>5. CASE HandsDealt(g, h)
  <2>1. h.roundNumber = before.roundNumber /\ h.dealNumber # before.dealNumber
    BY <1>1, <1>5 DEF HandsDealt
  <2>2. messages = <<a, b>>
    BY <1>1, <2>1 DEF TurnMessages, DealMessages
  <2> HIDE DEF a, b, messages
  <2>3. ASSUME NEW v \in PageType PROVE Shows(v, messages).myHand = h.hand[Me]
    <3>1. Shows(v, messages) = applyServerMessage(applyServerMessage(v, a), b)
      BY <2>2, ShowsTwo
    <3>2. Shows(v, messages) = OnTurnStart(OnHandDealt(v, a), b)
      BY <1>3, <3>1, ReducerCases
    <3>3. OnTurnStart(OnHandDealt(v, a), b).myHand = a.cards
      BY DEF OnTurnStart, OnHandDealt, PageType
    <3> QED BY <1>3, <3>2, <3>3
  <2> QED BY <2>3 DEF messages
<1>6. CASE RoundDealt(g, h)
  <2>1. h.roundNumber # before.roundNumber
    BY <1>1, <1>6 DEF RoundDealt
  <2>2. messages = StartMessages(h)
    BY <1>1, <2>1 DEF TurnMessages
  <2>3. ASSUME NEW v \in PageType PROVE Shows(v, messages).myHand = h.hand[Me]
    <3>1. Shows(v, StartMessages(h)) = PageOf(h, {}, 0)
      BY <1>1, <1>6, RoundIsShown DEF RoundDealt
    <3>2. PageOf(h, {}, 0).myHand = h.hand[Me]
      BY DEF PageOf
    <3> QED BY <2>2, <3>1, <3>2
  <2> QED BY <2>3
<1> QED BY <1>4, <1>5, <1>6, WaysOn

\* A step of the game whose messages carry it to the page.
KeepsTrack(messages) ==
    \A e \in state.hand[Me] \cup state.captured[Me] :
        \/ e \in state'.hand[Me] \cup state'.captured[Me]
        \/ \A v \in PageType :
               e \in Shows(v, messages).myHand => e \in state'.hand[Me]

Announces(messages) == \E n \in DOMAIN messages : messages[n].type = "GAME_STARTED"

Carries(messages) ==
    /\ messages \in Seq(Messages) /\ Len(messages) <= 5
    /\ state.phase = "playing"
    /\ state'.phase = "playing" =>
           Shows(Projection, messages) = Projection' /\ KeepsTrack(messages)
    /\ state'.phase # "playing" =>
           /\ state'.phase = "game_over"
           /\ Shows(Projection, messages).over
           /\ CountsAndScores(Shows(Projection, messages)) = Standings(state')
    /\ Announces(messages) =>
           /\ state'.phase = "playing"
           /\ \A v \in PageType : Shows(v, messages) = Projection'
    /\ state'.phase = "playing" /\ pendingCapture' = {} =>
           EndsWith(messages, TurnStart(CurrentPlayer'))

\* A move and the passing of the turn, given what the move alone does.
LEMMA MoveIsCarried ==
    ASSUME FlowInv, state.phase = "playing", NEW g, Moved(g),
           state' \in AdvanceTurnOrDeal(g),
           g.roundNumber = state.roundNumber, g.dealNumber = state.dealNumber,
           pendingCapture' = {},
           NEW first \in Seq(Messages), Len(first) <= 2, ~Announces(first),
           NEW enabled \in BOOLEAN, Shows(Projection, first) = MovedPage(g, enabled),
           \A e \in state.hand[Me] \cup state.captured[Me] :
               \/ e \in g.hand[Me] \cup g.captured[Me]
               \/ \A v \in PageType : e \notin Shows(v, first).myHand
    PROVE  Carries(first \o TurnMessages(state, state'))
<1> DEFINE next == TurnMessages(state, state')
           messages == first \o next
           shown == Shows(MovedPage(g, enabled), next)
<1>1. /\ next \in Seq(Messages) /\ Len(next) <= 3
      /\ state'.phase = "playing" => \A c : shown = PageOf(state', {}, c)
      /\ state'.phase # "playing" =>
             state'.phase = "game_over" /\ shown.over
                 /\ CountsAndScores(shown) = Standings(state')
  BY TurnIsShown
<1>2. \A v : Shows(v, messages) = Shows(Shows(v, first), next)
  BY <1>1, ShowsInTurn
<1>3. Shows(Projection, messages) = shown
  BY <1>2
<1>4. /\ messages \in Seq(Messages) /\ Len(messages) <= 5
      /\ \A n \in DOMAIN messages : n \in DOMAIN first \/ (\E k \in DOMAIN next : n = Len(first) + k)
      /\ \A n \in DOMAIN first : messages[n] = first[n]
      /\ \A k \in DOMAIN next : messages[Len(first) + k] = next[k]
  <2>1. /\ Len(first) \in Nat /\ DOMAIN first = 1 .. Len(first)
        /\ Len(next) \in Nat /\ DOMAIN next = 1 .. Len(next)
    BY <1>1, LenProperties
  <2>2. /\ messages \in Seq(Messages) /\ Len(messages) = Len(first) + Len(next)
        /\ \A i \in 1 .. Len(first) + Len(next) : messages[i] =
               IF i <= Len(first) THEN first[i] ELSE next[i - Len(first)]
    BY <1>1, ConcatProperties
  <2>3. DOMAIN messages = 1 .. Len(first) + Len(next)
    BY <2>2, LenProperties
  <2> HIDE DEF messages, next
  <2>4. ASSUME NEW n \in DOMAIN messages, n \notin DOMAIN first
        PROVE  \E k \in DOMAIN next : n = Len(first) + k
    <3>1. n - Len(first) \in DOMAIN next /\ n = Len(first) + (n - Len(first))
      BY <2>1, <2>3, <2>4
    <3> QED BY <3>1
  <2>5. ASSUME NEW n \in DOMAIN first PROVE messages[n] = first[n]
    BY <2>1, <2>2
  <2>6. ASSUME NEW k \in DOMAIN next PROVE messages[Len(first) + k] = next[k]
    <3>1. /\ Len(first) + k \in 1 .. Len(first) + Len(next)
          /\ ~(Len(first) + k <= Len(first))
          /\ Len(first) + k - Len(first) = k
      BY <2>1
    <3> QED BY <2>2, <3>1
  <2> QED BY <1>1, <2>1, <2>2, <2>4, <2>5, <2>6
<1>5. Projection' = PageOf(state', {}, pendingCardID')
  BY ProjectionIsPage
<1>6. ASSUME Announces(messages)
      PROVE  state'.phase = "playing" /\ \A v \in PageType : Shows(v, messages) = Projection'
  <2>1. PICK k \in DOMAIN next : next[k].type = "GAME_STARTED"
    <3> HIDE DEF messages, next
    <3> QED BY <1>4, <1>6 DEF Announces
  <2>2. state' \in GameType /\ RoundDealt(g, state') /\ next = StartMessages(state')
    BY <2>1, AnnouncedRound
  <2> HIDE DEF next
  <2>3. ASSUME NEW v \in PageType PROVE Shows(v, messages) = Projection'
    <3>1. Shows(v, first) \in PageType
      BY PagesStay
    <3>2. Shows(Shows(v, first), StartMessages(state')) = PageOf(state', {}, pendingCardID')
      BY <2>2, <3>1, RoundIsShown DEF RoundDealt
    <3> QED BY <1>2, <1>5, <2>2, <3>2
  <2> QED BY <2>2, <2>3 DEF RoundDealt
<1>7. ASSUME state'.phase = "playing" PROVE KeepsTrack(messages)
  <2> SUFFICES ASSUME NEW e \in state.hand[Me] \cup state.captured[Me],
                      e \notin state'.hand[Me] \cup state'.captured[Me],
                      NEW v \in PageType, e \in Shows(v, messages).myHand
               PROVE  e \in state'.hand[Me]
    BY DEF KeepsTrack
  <2>1. Shows(v, first) \in PageType
    BY PagesStay
  <2>2. \/ /\ OnlyPassed(g, state')
           /\ \A w \in PageType : Shows(w, next).myHand = w.myHand
        \/ \A w \in PageType : Shows(w, next).myHand = state'.hand[Me]
    BY <1>7, HandAfterTurn
  <2>3. CASE \A w \in PageType : Shows(w, next).myHand = state'.hand[Me]
    BY <1>2, <2>1, <2>3
  <2>4. CASE OnlyPassed(g, state') /\ \A w \in PageType : Shows(w, next).myHand = w.myHand
    <3>1. state'.hand = g.hand /\ state'.captured = g.captured
      <4>1. g \in GameType
        BY DEF Moved, Sound
      <4> QED BY <2>4, <4>1, PassingTheTurn DEF OnlyPassed
    <3>2. e \notin Shows(v, first).myHand
      BY <3>1
    <3>3. Shows(v, messages).myHand = Shows(v, first).myHand
      BY <1>2, <2>1, <2>4
    <3> QED BY <3>2, <3>3
  <2> QED BY <2>2, <2>3, <2>4
<1>8. ASSUME state'.phase = "playing" PROVE EndsWith(messages, TurnStart(CurrentPlayer'))
  <2>1. EndsWith(next, TurnStart(state'.currentPlayerIndex))
    BY <1>8, TurnComesLast
  <2> HIDE DEF next
  <2> QED BY <1>1, <2>1, EndStays DEF CurrentPlayer
<1> HIDE DEF messages, next
<1>9. Carries(messages)
  BY <1>1, <1>3, <1>4, <1>5, <1>6, <1>7, <1>8 DEF Carries
<1> QED BY <1>9 DEF messages, next

\* A pair of messages announces a round only if one of the two does.
LEMMA PairAnnounces ==
    ASSUME NEW a, NEW b, a.type # "GAME_STARTED", b.type # "GAME_STARTED"
    PROVE  ~Announces(<<a>>) /\ ~Announces(<<a, b>>)
<1>1. DOMAIN <<a>> = {1} /\ DOMAIN <<a, b>> = {1, 2}
  OBVIOUS
<1>2. <<a>>[1] = a /\ <<a, b>>[1] = a /\ <<a, b>>[2] = b
  OBVIOUS
<1> QED BY <1>1, <1>2 DEF Announces

\* A discard, by the player or by the room.
LEMMA DiscardIsCarried ==
    ASSUME FlowInv, pendingCapture = {}, pendingCapture' = {},
           NEW c \in state.hand[CurrentPlayer],
           state' \in AdvanceTurnOrDeal(ApplyDiscard(state, CurrentPlayer, c))
    PROVE  Carries(DiscardMessages(c) \o TurnMessages(state, state'))
<1> DEFINE i == state.currentPlayerIndex
           g == ApplyDiscard(state, i, c)
           a == CardPlayed(i, c)
           b == CardDiscarded(c)
<1>1. Settled(state) /\ CurrentPlayer = i /\ state \in GameType /\ i \in Seats
  BY DEF FlowInv, CurrentPlayer, FlowTypeOK, GameType
<1>2. state.phase = "playing" /\ c \in Pack
  BY <1>1, MoverIsPlaying
<1>3. /\ Moved(g) /\ g.roundNumber = state.roundNumber /\ g.dealNumber = state.dealNumber
      /\ g.hand = [state.hand EXCEPT ![i] = @ \ {c}] /\ g.captured = state.captured
  <2>1. Moved(g)
    BY <1>1, <1>2, DiscardMoves
  <2> QED BY <1>1, <2>1 DEF ApplyDiscard, GameType
<1>4. /\ <<a, b>> \in Seq(Messages) /\ Len(<<a, b>>) <= 2
      /\ DiscardMessages(c) = <<a, b>>
      /\ Shows(Projection, <<a, b>>) = MovedPage(g, i = Me)
  <2>1. Projection = PageOf(state, {}, pendingCardID)
    BY ProjectionIsPage
  <2>2. /\ <<a, b>> \in Seq(Messages)
        /\ Shows(PageOf(state, {}, pendingCardID), <<a, b>>) = MovedPage(g, i = Me)
    BY <1>1, <1>2, DiscardIsShown
  <2> QED BY <1>1, <2>1, <2>2 DEF DiscardMessages
<1>5. /\ a \in Plays /\ a.player = i /\ a.card = c /\ a.type = "CARD_PLAYED"
      /\ b \in Discards /\ b.card = c /\ b.type = "CARD_DISCARDED"
  BY <1>1, <1>2 DEF CardPlayed, CardDiscarded, Plays, Discards
<1>6. ~Announces(<<a, b>>)
  <2>1. a.type # "GAME_STARTED" /\ b.type # "GAME_STARTED"
    BY <1>5
  <2> QED BY <2>1, PairAnnounces
<1>7. \A e \in state.hand[Me] \cup state.captured[Me] :
          \/ e \in g.hand[Me] \cup g.captured[Me]
          \/ \A v \in PageType : e \notin Shows(v, <<a, b>>).myHand
  <2> HIDE DEF a, b
  <2>1. ASSUME NEW v \in PageType, i = Me PROVE c \notin Shows(v, <<a, b>>).myHand
    <3>1. Shows(v, <<a, b>>) = OnCardDiscarded(OnCardPlayed(v, a), b)
      BY <1>5, ShowsTwo, ReducerCases
    <3>2. OnCardPlayed(v, a) = [v EXCEPT !.myHand = @ \ {c}]
      BY <1>5, <2>1 DEF OnCardPlayed
    <3>3. OnCardPlayed(v, a).myHand = v.myHand \ {c}
      BY <3>2 DEF PageType
    <3>4. OnCardPlayed(v, a) \in PageType
      BY <3>2 DEF PageType
    <3>5. OnCardDiscarded(OnCardPlayed(v, a), b).myHand = OnCardPlayed(v, a).myHand
      BY <3>4 DEF OnCardDiscarded, PageType
    <3> QED BY <3>1, <3>3, <3>5
  <2>2. Me \in Seats /\ state.hand \in [Seats -> SUBSET Pack]
    BY <1>1, MeAssumption DEF GameType
  <2> QED BY <1>3, <2>1, <2>2
<1> HIDE DEF a, b, g
<1> DEFINE first == <<a, b>>
<1> HIDE DEF first
<1>8. /\ first \in Seq(Messages) /\ Len(first) <= 2 /\ ~Announces(first)
      /\ Shows(Projection, first) = MovedPage(g, i = Me)
      /\ \A e \in state.hand[Me] \cup state.captured[Me] :
             \/ e \in g.hand[Me] \cup g.captured[Me]
             \/ \A v \in PageType : e \notin Shows(v, first).myHand
  BY <1>4, <1>6, <1>7 DEF first
<1>9. state' \in AdvanceTurnOrDeal(g) /\ (i = Me) \in BOOLEAN
  BY <1>1 DEF g
<1>10. Carries(first \o TurnMessages(state, state'))
  BY <1>2, <1>3, <1>8, <1>9, MoveIsCarried
<1> QED BY <1>4, <1>10 DEF first

\* What a capture does to a game.
LEMMA CaptureMoved ==
    ASSUME FlowInv, NEW c, NEW option, CaptureFits(state, CurrentPlayer, c, option)
    PROVE  LET g == ApplyCapture(state, CurrentPlayer, c, option)
           IN /\ state.phase = "playing" /\ c \in Pack /\ Moved(g)
              /\ g.roundNumber = state.roundNumber /\ g.dealNumber = state.dealNumber
              /\ state.hand[Me] \cup state.captured[Me] \subseteq g.hand[Me] \cup g.captured[Me]
<1> DEFINE i == state.currentPlayerIndex
           g == ApplyCapture(state, i, c, option)
<1>1. Settled(state) /\ CurrentPlayer = i /\ state \in GameType /\ i \in Seats
  BY DEF FlowInv, CurrentPlayer, FlowTypeOK, GameType
<1>2. c \in state.hand[i] /\ CaptureFits(state, i, c, option)
  BY <1>1 DEF CaptureFits
<1>3. state.phase = "playing" /\ c \in Pack
  BY <1>1, <1>2, MoverIsPlaying
<1>4. Moved(g)
  BY <1>1, <1>2, <1>3, CaptureMoves
<1>5. /\ g.roundNumber = state.roundNumber /\ g.dealNumber = state.dealNumber
      /\ g.hand = [state.hand EXCEPT ![i] = @ \ {c}]
      /\ g.captured = [state.captured EXCEPT ![i] = @ \cup {c} \cup UNION option]
  BY <1>1, <1>2 DEF ApplyCapture, GameType
<1>6. /\ Me \in Seats /\ state.hand \in [Seats -> SUBSET Pack]
      /\ state.captured \in [Seats -> SUBSET Pack]
  BY <1>1, MeAssumption DEF GameType
<1>7. state.hand[Me] \cup state.captured[Me] \subseteq g.hand[Me] \cup g.captured[Me]
  BY <1>5, <1>6
<1> HIDE DEF g
<1> QED BY <1>1, <1>3, <1>4, <1>5, <1>7 DEF g

\* The message of a capture, on a page that shows the card played.
LEMMA CaptureMessagesShow ==
    ASSUME FlowInv, NEW c, NEW option, CaptureFits(state, CurrentPlayer, c, option),
           NEW options, NEW enabled \in BOOLEAN
    PROVE  \E m \in Messages :
               /\ CaptureMessages(c, option) = <<m>> /\ m.type = "CAPTURE_MADE"
               /\ applyServerMessage(PlayedPage(state, c, options, enabled), m)
                      = MovedPage(ApplyCapture(state, CurrentPlayer, c, option), enabled)
<1> DEFINE i == state.currentPlayerIndex
           g == ApplyCapture(state, i, c, option)
           m == CaptureMade(i, UNION option, g.tableCards = {}, Cardinality(g.captured[i]))
<1>1. Settled(state) /\ state.phase = "playing" /\ CurrentPlayer = i
  BY CaptureMoved DEF FlowInv, CurrentPlayer
<1>2. CaptureFits(state, state.currentPlayerIndex, c, option)
  BY <1>1
<1>3. /\ m \in Messages
      /\ applyServerMessage(PlayedPage(state, c, options, enabled), m) = MovedPage(g, enabled)
  BY <1>1, <1>2, CaptureIsShown
<1>4. m.type = "CAPTURE_MADE"
  BY DEF CaptureMade
<1>5. CaptureMessages(c, option) = <<m>>
  BY <1>1 DEF CaptureMessages
<1> HIDE DEF m
<1> QED BY <1>1, <1>3, <1>4, <1>5

\* A capture with the one option there is, or the choice of the computer player.
LEMMA CaptureIsCarried ==
    ASSUME FlowInv, pendingCapture = {}, pendingCapture' = {},
           NEW c, NEW option, CaptureFits(state, CurrentPlayer, c, option),
           state' \in AdvanceTurnOrDeal(ApplyCapture(state, CurrentPlayer, c, option))
    PROVE  Carries(<<CardPlayed(CurrentPlayer, c)>> \o CaptureMessages(c, option)
                       \o TurnMessages(state, state'))
<1> DEFINE i == CurrentPlayer
           g == ApplyCapture(state, i, c, option)
           a == CardPlayed(i, c)
           mine == i = Me
<1>0. mine \in BOOLEAN
  OBVIOUS
<1>1. /\ state.phase = "playing" /\ c \in Pack /\ Moved(g)
      /\ g.roundNumber = state.roundNumber /\ g.dealNumber = state.dealNumber
      /\ state.hand[Me] \cup state.captured[Me] \subseteq g.hand[Me] \cup g.captured[Me]
  BY CaptureMoved
<1>2. /\ a \in Messages /\ a.type # "GAME_STARTED"
      /\ applyServerMessage(PageOf(state, {}, pendingCardID), a)
             = PlayedPage(state, c, {}, mine)
  <2>1. state \in GameType /\ i = state.currentPlayerIndex
    BY DEF FlowInv, FlowTypeOK, CurrentPlayer
  <2> QED BY <1>1, <2>1, PlayIsShown DEF CardPlayed
<1> HIDE DEF a, mine
<1>3. PICK b \in Messages :
          /\ CaptureMessages(c, option) = <<b>> /\ b.type = "CAPTURE_MADE"
          /\ applyServerMessage(PlayedPage(state, c, {}, mine), b) = MovedPage(g, mine)
  BY <1>0, CaptureMessagesShow
<1> DEFINE first == <<a>> \o CaptureMessages(c, option)
<1>4. first = <<a, b>> /\ first \in Seq(Messages) /\ Len(first) <= 2
  <2>1. <<a>> \o <<b>> = <<a, b>> /\ <<a, b>> \in Seq(Messages)
    BY <1>2, TwoInARow
  <2>2. Len(<<a, b>>) <= 2
    OBVIOUS
  <2> QED BY <1>3, <2>1, <2>2
<1>5. ~Announces(first)
  BY <1>2, <1>3, <1>4, PairAnnounces
<1>6. Shows(Projection, first) = MovedPage(g, mine)
  <2>1. Projection = PageOf(state, {}, pendingCardID)
    BY ProjectionIsPage
  <2>2. Shows(Projection, <<a, b>>)
            = applyServerMessage(applyServerMessage(Projection, a), b)
    BY ShowsTwo
  <2>3. applyServerMessage(Projection, a) = PlayedPage(state, c, {}, mine)
    BY <1>2, <2>1
  <2>4. Shows(Projection, <<a, b>>) = MovedPage(g, mine)
    BY <1>3, <2>2, <2>3
  <2> QED BY <1>4, <2>4
<1> HIDE DEF g, first
<1>7. /\ state' \in AdvanceTurnOrDeal(g) /\ mine \in BOOLEAN
      /\ \A e \in state.hand[Me] \cup state.captured[Me] :
             \/ e \in g.hand[Me] \cup g.captured[Me]
             \/ \A v \in PageType : e \notin Shows(v, first).myHand
  BY <1>0, <1>1 DEF g
<1>8. Carries(first \o TurnMessages(state, state'))
  BY <1>1, <1>4, <1>5, <1>6, <1>7, MoveIsCarried
<1> QED BY <1>8 DEF first, a

\* A capture that was chosen among the options of a card played before.
LEMMA ChoiceIsCarried ==
    ASSUME FlowInv, NEW option \in pendingCapture, pendingCapture' = {},
           state' \in AdvanceTurnOrDeal(
                          ApplyCapture(state, CurrentPlayer, pendingCardID, option))
    PROVE  Carries(CaptureMessages(pendingCardID, option) \o TurnMessages(state, state'))
<1> DEFINE i == CurrentPlayer
           c == pendingCardID
           g == ApplyCapture(state, i, c, option)
           options == IF i = Me THEN pendingCapture ELSE {}
<1>1. CaptureFits(state, CurrentPlayer, c, option)
  BY PendingCanBeTaken
<1>2. /\ state.phase = "playing" /\ c \in Pack /\ Moved(g)
      /\ g.roundNumber = state.roundNumber /\ g.dealNumber = state.dealNumber
      /\ state.hand[Me] \cup state.captured[Me] \subseteq g.hand[Me] \cup g.captured[Me]
  BY <1>1, CaptureMoved
<1>3. PICK b \in Messages :
          /\ CaptureMessages(c, option) = <<b>> /\ b.type = "CAPTURE_MADE"
          /\ applyServerMessage(PlayedPage(state, c, options, FALSE), b) = MovedPage(g, FALSE)
  BY <1>1, CaptureMessagesShow
<1>4. Projection = PlayedPage(state, c, options, FALSE)
  <2>1. Projection = PageOf(state, pendingCapture, c)
    BY ProjectionIsPage
  <2>2. pendingCapture # {}
    OBVIOUS
  <2> QED BY <2>1, <2>2 DEF PageOf, PlayedPage, CurrentPlayer
<1> DEFINE first == CaptureMessages(c, option)
<1>5. first = <<b>> /\ first \in Seq(Messages) /\ Len(first) <= 2
  <2>1. <<b>> \in Seq(Messages) /\ Len(<<b>>) <= 2
    OBVIOUS
  <2> QED BY <1>3, <2>1
<1>6. ~Announces(first)
  BY <1>3, <1>5, PairAnnounces
<1>7. Shows(Projection, first) = MovedPage(g, FALSE)
  BY <1>3, <1>4, <1>5, ShowsOne
<1> HIDE DEF g, first
<1>8. /\ state' \in AdvanceTurnOrDeal(g) /\ FALSE \in BOOLEAN
      /\ \A e \in state.hand[Me] \cup state.captured[Me] :
             \/ e \in g.hand[Me] \cup g.captured[Me]
             \/ \A v \in PageType : e \notin Shows(v, first).myHand
  BY <1>2 DEF g
<1>9. Carries(first \o TurnMessages(state, state'))
  BY <1>2, <1>5, <1>6, <1>7, <1>8, MoveIsCarried
<1> QED BY <1>9 DEF first

\* A card that offers several captures: the game stays as it is.
LEMMA OfferIsCarried ==
    ASSUME FlowInv, NEW c \in Pack, OfferCaptures(c)
    PROVE  Carries(<<CardPlayed(CurrentPlayer, c)>> \o OptionMessages(pendingCapture'))
<1> DEFINE i == CurrentPlayer
           a == CardPlayed(i, c)
           options == ComputeCaptures(c, state.tableCards)
           messages == <<a>> \o OptionMessages(pendingCapture')
<1>1. /\ state' = state /\ pendingCapture = {} /\ pendingCapture' = options
      /\ pendingCardID' = c /\ c \in state.hand[i] /\ Cardinality(options) >= 2
  BY DEF OfferCaptures
<1>2. /\ Settled(state) /\ state \in GameType /\ i = state.currentPlayerIndex
      /\ i \in Seats /\ state.phase = "playing"
  <2>1. Settled(state) /\ state \in GameType /\ i = state.currentPlayerIndex
    BY DEF FlowInv, FlowTypeOK, CurrentPlayer
  <2> QED BY <1>1, <2>1, MoverIsPlaying DEF GameType
<1>3. options # {} /\ options \in Options
  <2>1. options # {}
    BY <1>1, FS_EmptySet
  <2>2. FlowInv'
    BY StepSettles DEF FlowNext
  <2> QED BY <1>1, <2>1, <2>2 DEF FlowInv, FlowTypeOK, Options
<1>4. /\ a \in Messages /\ a.type # "GAME_STARTED"
      /\ applyServerMessage(PageOf(state, {}, pendingCardID), a)
             = PlayedPage(state, c, {}, i = Me)
  BY <1>2, PlayIsShown DEF CardPlayed
<1>5. /\ Projection = PageOf(state, {}, pendingCardID)
      /\ Projection' = PageOf(state, options, c)
  BY <1>1, ProjectionIsPage
<1> HIDE DEF a, options
<1>6. /\ messages \in Seq(Messages) /\ Len(messages) <= 5 /\ ~Announces(messages)
      /\ Shows(Projection, messages) = Projection'
  <2>1. CASE i = Me
    <3> DEFINE b == CaptureOptions(options)
    <3>1. /\ b \in Messages /\ b.type # "GAME_STARTED"
          /\ applyServerMessage(PlayedPage(state, c, {}, TRUE), b) = PageOf(state, options, c)
      BY <1>2, <1>3, <2>1, OptionsAreShown DEF CaptureOptions
    <3>2. messages = <<a>> \o <<b>>
      BY <1>1, <2>1 DEF OptionMessages
    <3> HIDE DEF b
    <3>3. <<a>> \o <<b>> = <<a, b>> /\ <<a, b>> \in Seq(Messages)
      BY <1>4, <3>1, TwoInARow
    <3>4. Len(<<a, b>>) = 2
      OBVIOUS
    <3>5. ~Announces(<<a, b>>)
      BY <1>4, <3>1, PairAnnounces
    <3>6. applyServerMessage(Projection, a) = PlayedPage(state, c, {}, TRUE)
      <4>1. (i = Me) = TRUE
        BY <2>1
      <4> QED BY <1>4, <1>5, <4>1
    <3>7. Shows(Projection, <<a, b>>) = Projection'
      <4>1. Shows(Projection, <<a, b>>)
                = applyServerMessage(applyServerMessage(Projection, a), b)
        BY ShowsTwo
      <4>2. applyServerMessage(applyServerMessage(Projection, a), b) = Projection'
        BY <1>5, <3>1, <3>6
      <4> QED BY <4>1, <4>2
    <3>8. Len(<<a, b>>) <= 5
      BY <3>4
    <3>9. messages = <<a, b>>
      BY <3>2, <3>3
    <3> HIDE DEF messages
    <3> QED BY <3>3, <3>5, <3>7, <3>8, <3>9
  <2>2. CASE i # Me
    <3>1. messages = <<a>> \o << >>
      BY <2>2 DEF OptionMessages
    <3>2. <<a>> \in Seq(Messages) /\ Len(<<a>>) <= 5
      BY <1>4
    <3>3. <<a>> \o << >> = <<a>>
      BY <3>2, ConcatEmptySeq
    <3>4. ~Announces(<<a>>)
      BY <1>4, PairAnnounces
    <3>5. PlayedPage(state, c, {}, i = Me) = PageOf(state, options, c)
      <4>1. i # Me /\ options # {} /\ i = state.currentPlayerIndex
        BY <1>2, <1>3, <2>2
      <4> QED BY <4>1 DEF PlayedPage, PageOf
    <3>6. Shows(Projection, <<a>>) = Projection'
      BY <1>4, <1>5, <3>5, ShowsOne
    <3> QED BY <3>1, <3>2, <3>3, <3>4, <3>6
  <2> QED BY <2>1, <2>2
<1> HIDE DEF messages
<1>7. KeepsTrack(messages)
  BY <1>1 DEF KeepsTrack
<1>8. Carries(messages)
  BY <1>1, <1>2, <1>3, <1>6, <1>7 DEF Carries
<1> QED BY <1>8 DEF messages, a
-------------------------------------------------------------------------------
(***************************************************************************)
(* The steps of the whole: a handler sends what carries its move, any      *)
(* other step leaves the game alone.                                       *)
(***************************************************************************)
Handles(messages) ==
    Carries(messages) /\ sendTo(messages) /\ UNCHANGED <<view, connVars, loop>>

\* An option that a card of the mover offers can be taken.
LEMMA OptionFits ==
    ASSUME FlowInv, NEW c \in state.hand[CurrentPlayer],
           NEW option \in ComputeCaptures(c, state.tableCards)
    PROVE  CaptureFits(state, CurrentPlayer, c, option)
  BY OptionsOnTable DEF CaptureFits

\* A card played is a step of the game and sends what carries it.
LEMMA PlayIsHandled ==
    ASSUME FlowInv, NEW c \in Pack, PlayCard(c)
    PROVE  FlowNext /\ \E messages : Handles(messages)
<1>1. CASE Discard(c) /\ sendTo(DiscardMessages(c) \o TurnMessages(state, state'))
  <2>1. FlowNext
    BY <1>1 DEF FlowNext
  <2>2. Carries(DiscardMessages(c) \o TurnMessages(state, state'))
    BY <1>1, DiscardIsCarried DEF Discard
  <2> QED BY <1>1, <2>1, <2>2 DEF PlayCard, Handles
<1>2. CASE /\ OfferCaptures(c)
           /\ sendTo(<<CardPlayed(CurrentPlayer, c)>> \o OptionMessages(pendingCapture'))
  <2>1. FlowNext
    BY <1>2 DEF FlowNext
  <2>2. Carries(<<CardPlayed(CurrentPlayer, c)>> \o OptionMessages(pendingCapture'))
    BY <1>2, OfferIsCarried
  <2> QED BY <1>2, <2>1, <2>2 DEF PlayCard, Handles
<1>3. ASSUME NEW option \in ComputeCaptures(c, state.tableCards),
             AutoCapture(c) \/ (CurrentPlayer # Me /\ CaptureAtOnce(c, option)),
             sendTo(<<CardPlayed(CurrentPlayer, c)>> \o CaptureMessages(c, option)
                        \o TurnMessages(state, state'))
      PROVE  FlowNext /\ \E messages : Handles(messages)
  <2>1. FlowNext
    BY <1>3 DEF FlowNext
  <2>2. /\ pendingCapture = {} /\ pendingCapture' = {}
        /\ c \in state.hand[CurrentPlayer]
        /\ state' \in AdvanceTurnOrDeal(ApplyCapture(state, CurrentPlayer, c, option))
    <3>1. CASE AutoCapture(c)
      <4>1. PICK only \in ComputeCaptures(c, state.tableCards) :
                /\ ComputeCaptures(c, state.tableCards) = {only}
                /\ state' \in AdvanceTurnOrDeal(ApplyCapture(state, CurrentPlayer, c, only))
        BY <3>1 DEF AutoCapture
      <4>2. only = option
        BY <4>1
      <4> QED BY <3>1, <4>1, <4>2 DEF AutoCapture
    <3>2. CASE CaptureAtOnce(c, option)
      BY <3>2 DEF CaptureAtOnce
    <3> QED BY <1>3, <3>1, <3>2
  <2>3. CaptureFits(state, CurrentPlayer, c, option)
    BY <2>2, OptionFits
  <2>4. Carries(<<CardPlayed(CurrentPlayer, c)>> \o CaptureMessages(c, option)
                    \o TurnMessages(state, state'))
    BY <2>2, <2>3, CaptureIsCarried
  <2> QED BY <1>3, <2>1, <2>4 DEF PlayCard, Handles
<1> QED BY <1>1, <1>2, <1>3 DEF PlayCard

\* So is a choice made.
LEMMA ChoiceIsHandled ==
    ASSUME FlowInv, NEW option \in pendingCapture, ChooseOption(option)
    PROVE  FlowNext /\ \E messages : Handles(messages)
<1>1. FlowNext
  BY DEF ChooseOption, FlowNext
<1>2. Carries(CaptureMessages(pendingCardID, option) \o TurnMessages(state, state'))
  BY ChoiceIsCarried DEF ChooseOption, ChooseCapture
<1> QED BY <1>1, <1>2 DEF ChooseOption, Handles

\* So is a turn skipped.
LEMMA SkipIsHandled ==
    ASSUME FlowInv, NEW c \in Pack, autoSkipTurn(c)
    PROVE  FlowNext /\ \E messages : Handles(messages)
<1>1. FlowNext
  BY DEF autoSkipTurn, FlowNext
<1>2. Carries(DiscardMessages(c) \o TurnMessages(state, state'))
  BY DiscardIsCarried DEF autoSkipTurn, Skip
<1> QED BY <1>1, <1>2 DEF autoSkipTurn, Handles

\* The steps that are not a handler's.
Elsewhere ==
    \/ \E k \in Conns : Write(k) \/ Stop(k) \/ Disconnect(k)
    \/ Cut
    \/ AttachConn
    \/ Reconnecting
    \/ UNCHANGED deliveryVars

\* There are no other steps.
LEMMA TwoKindsOfSteps ==
    ASSUME FlowInv, [DeliveryNext]_deliveryVars
    PROVE  \/ FlowNext /\ \E messages : Handles(messages)
           \/ Elsewhere /\ UNCHANGED flowVars
<1>1. ASSUME NEW c \in Pack, PlayCard(c) \/ autoSkipTurn(c)
      PROVE  FlowNext /\ \E messages : Handles(messages)
  BY <1>1, PlayIsHandled, SkipIsHandled
<1>2. ASSUME NEW option \in pendingCapture, ChooseOption(option)
      PROVE  FlowNext /\ \E messages : Handles(messages)
  BY <1>2, ChoiceIsHandled
<1>3. ASSUME Elsewhere PROVE UNCHANGED flowVars
  BY <1>3 DEF Elsewhere, Write, Stop, Disconnect, Cut, AttachConn, Reconnecting,
              ClientStateRead, ClientStateWritten, PlayerHandRead, PlayerHandWritten,
              deliveryVars
<1>4. CASE UNCHANGED deliveryVars
  BY <1>3, <1>4 DEF Elsewhere
<1>5. CASE DeliveryNext
  BY <1>1, <1>2, <1>3, <1>5 DEF DeliveryNext, Elsewhere, GameEnded
<1> QED BY <1>4, <1>5

\* The game stays settled whatever happens to its messages.
LEMMA GameStaysSettled == FlowInv /\ [DeliveryNext]_deliveryVars => FlowInv'
  BY TwoKindsOfSteps, StepSettles
-------------------------------------------------------------------------------
\* The inductive type invariant of the connection side.
Handshakes ==
    {NotReconnecting, [at |-> "attached"], [at |-> "between"]}
        \cup [at : {"state"}, msg : Starts]
        \cup [at : {"hand"}, cards : SUBSET Pack]

LinkInv ==
    /\ queue \in Seq(Messages) /\ Len(queue) <= QueueSize
    /\ view \in PageType
    /\ cur \in Conns
    /\ link \in {"up", "cut"}
    /\ readers \subseteq 1 .. cur
    /\ closed \subseteq 1 .. cur
    /\ loop \in [Conns -> {NoLoop} \cup Conns]
    /\ WriteLoops \subseteq 1 .. cur
    /\ handshake \in Handshakes
    /\ trust \in {"all", "shown", "none"}
    /\ trust = "all" => link = "up" /\ handshake = NotReconnecting

\* The page before the game.
LEMMA BlankPage == createLocalState \in PageType
<1>1. [i \in Seats |-> 0] \in [Seats -> Nat] /\ {} \in Options /\ 0 \in Seats
  BY SeatsFacts DEF Options
<1>2. EmptyBag = SetToBag({})
  BY DEF EmptyBag, SetToBag
<1>3. SetToBag({}) \in Tables
  BY TableOfSet
<1>4. EmptyBag \in Tables
  BY <1>2, <1>3
<1> HIDE DEF EmptyBag
<1> QED BY <1>1, <1>4 DEF createLocalState, PageType

\* What becomes of the channel.
LEMMA SendingKeeps ==
    ASSUME LinkInv, NEW messages, messages \in Seq(Messages), sendTo(messages)
    PROVE  /\ queue' \in Seq(Messages) /\ Len(queue') <= QueueSize
           /\ trust' \in {"all", "shown", "none"}
           /\ trust' # "none" => queue' = queue \o messages /\ trust # "none"
           /\ trust' = "all" => \/ trust = "all"
                                \/ /\ Announces(messages) /\ link = "up"
                                   /\ handshake = NotReconnecting
           /\ trust' = "shown" => trust = "shown"
<1> DEFINE all == queue \o messages
           fits == Len(all) <= QueueSize
<1>1. all \in Seq(Messages) /\ Len(all) \in Nat /\ QueueSize \in Nat
  BY DeliveryAssumption, ConcatProperties, LenProperties DEF LinkInv
<1>2. ~fits => SubSeq(all, 1, QueueSize) \in Seq(Messages) /\ Len(SubSeq(all, 1, QueueSize)) = QueueSize
  <2> SUFFICES ASSUME ~fits
               PROVE  SubSeq(all, 1, QueueSize) \in Seq(Messages)
                      /\ Len(SubSeq(all, 1, QueueSize)) = QueueSize
    OBVIOUS
  <2>1. PICK N \in Nat, u \in Seq(Messages) : N = QueueSize /\ u = all
    BY <1>1
  <2>2. N <= Len(u) /\ Len(u) \in Nat /\ DOMAIN u = 1 .. Len(u)
    BY <1>1, <2>1, LenProperties
  <2>3. SubSeq(u, 1, N) = [i \in 1 .. N |-> u[i]]
    BY <2>2
  <2>4. SubSeq(u, 1, N) \in Seq(Messages) /\ Len(SubSeq(u, 1, N)) = N
    BY <2>2, <2>3
  <2> QED BY <2>1, <2>4
<1> HIDE DEF all
<1>3. /\ queue' = IF fits THEN all ELSE SubSeq(all, 1, QueueSize)
      /\ trust # "none"
      /\ trust' = IF ~fits THEN "none" ELSE IF Restarts(messages) THEN "all" ELSE trust
  BY DEF sendTo, Followed, all
<1>4. Restarts(messages) <=> Announces(messages) /\ link = "up" /\ handshake = NotReconnecting
  BY DEF Restarts, Announces
<1>5. queue' \in Seq(Messages) /\ Len(queue') <= QueueSize
  BY <1>1, <1>2, <1>3
<1> QED BY <1>3, <1>4, <1>5 DEF LinkInv, all

\* The invariant holds when the game is announced.
LEMMA LinkInit == FlowInv /\ DeliveryInit => LinkInv
<1> SUFFICES ASSUME FlowInv, DeliveryInit PROVE LinkInv
  OBVIOUS
<1>1. queue \in Seq(Messages) /\ Len(queue) <= QueueSize
  <2>1. state \in GameType /\ QueueSize \in Nat /\ QueueSize >= 5
    BY DeliveryAssumption DEF FlowInv, FlowTypeOK
  <2> DEFINE a == GameStarted(state)
             b == HandDealt(state.hand[Me], dealsRemaining(state))
             c == TurnStart(state.currentPlayerIndex)
  <2>2. state.hand[Me] \in SUBSET Pack /\ dealsRemaining(state) \in Int
        /\ state.currentPlayerIndex \in Seats
    BY <2>1, MeAssumption, CountsAreNatural DEF GameType
  <2>3. a \in Messages /\ b \in Messages /\ c \in Messages
    <3>1. a \in Starts /\ b \in Hands /\ c \in Turns
      BY <2>1, <2>2, StartIsAMessage, HandIsAMessage, TurnIsAMessage
    <3> QED BY <3>1 DEF Messages
  <2>4. queue = <<a, b, c>>
    BY StartMessagesAre DEF DeliveryInit
  <2> HIDE DEF a, b, c
  <2>5. <<a, b, c>> \in Seq(Messages) /\ Len(<<a, b, c>>) = 3
    BY <2>3
  <2> QED BY <2>1, <2>4, <2>5
<1>2. view \in PageType
  BY BlankPage DEF DeliveryInit
<1>3. cur = 1 /\ cur \in Conns /\ 1 \in 1 .. cur
  BY DeliveryAssumption DEF DeliveryInit, Conns
<1>4. loop \in [Conns -> {NoLoop} \cup Conns] /\ WriteLoops \subseteq 1 .. cur
  BY <1>3 DEF DeliveryInit, WriteLoops, Conns, NoLoop
<1>5. handshake \in Handshakes /\ handshake = NotReconnecting
  BY DEF DeliveryInit, Handshakes
<1> QED BY <1>1, <1>2, <1>3, <1>4, <1>5 DEF LinkInv, DeliveryInit

\* Every step keeps it.
LEMMA LinkStep == FlowInv /\ LinkInv /\ [DeliveryNext]_deliveryVars => LinkInv'
<1> SUFFICES ASSUME FlowInv, LinkInv, [DeliveryNext]_deliveryVars PROVE LinkInv'
  OBVIOUS
<1>0. MaxConns \in Nat \ {0} /\ Conns = 1 .. MaxConns /\ NoLoop = 0
  BY DeliveryAssumption DEF Conns, NoLoop
<1>1. ASSUME NEW messages, Handles(messages) PROVE LinkInv'
  <2>1. messages \in Seq(Messages) /\ sendTo(messages)
    BY <1>1 DEF Handles, Carries
  <2>2. /\ queue' \in Seq(Messages) /\ Len(queue') <= QueueSize
        /\ trust' \in {"all", "shown", "none"}
        /\ trust' = "all" => \/ trust = "all"
                             \/ link = "up" /\ handshake = NotReconnecting
    BY <2>1, SendingKeeps
  <2>3. UNCHANGED <<view, cur, link, readers, closed, handshake, loop>>
    BY <1>1 DEF Handles, connVars
  <2>4. WriteLoops' = WriteLoops
    BY <2>3 DEF WriteLoops
  <2> QED BY <2>2, <2>3, <2>4 DEF LinkInv
<1>2. ASSUME NEW k \in Conns, Write(k) PROVE LinkInv'
  <2>1. /\ queue # << >> /\ queue' = Tail(queue) /\ k \in WriteLoops
        /\ UNCHANGED <<cur, link, readers, closed, handshake>>
    BY <1>2 DEF Write, connVars
  <2>2. /\ queue' \in Seq(Messages) /\ Len(queue') <= QueueSize /\ Head(queue) \in Messages
    <3>1. /\ Tail(queue) \in Seq(Messages) /\ Len(Tail(queue)) = Len(queue) - 1
          /\ Head(queue) \in Messages /\ Len(queue) \in Nat
      BY <2>1, HeadTailProperties, LenProperties DEF LinkInv
    <3> QED BY <2>1, <3>1, DeliveryAssumption DEF LinkInv
  <2>3. view' \in PageType
    BY <1>2, <2>2, PageStays DEF Write, LinkInv
  <2>4. PICK next \in {cur, NoLoop} : loop' = [loop EXCEPT ![k] = next]
    BY <1>2 DEF Write
  <2>7. loop' \in [Conns -> {NoLoop} \cup Conns]
    BY <2>4 DEF LinkInv
  <2>5. WriteLoops' \subseteq WriteLoops
    BY <2>1, <2>4 DEF WriteLoops, LinkInv
  <2>6. trust' \in {trust, "none"}
    BY <1>2 DEF Write
  <2> QED BY <2>1, <2>2, <2>3, <2>5, <2>6, <2>7 DEF LinkInv
<1>3. ASSUME NEW k \in Conns, Stop(k) PROVE LinkInv'
  <2>1. /\ loop' = [loop EXCEPT ![k] = NoLoop]
        /\ UNCHANGED <<view, queue, cur, readers, closed, handshake>>
        /\ link' = IF k = cur THEN "cut" ELSE link
        /\ trust' = IF k = cur THEN Shown ELSE trust
    BY <1>3 DEF Stop
  <2>2. loop' \in [Conns -> {NoLoop} \cup Conns] /\ WriteLoops' \subseteq WriteLoops
    BY <2>1 DEF LinkInv, WriteLoops
  <2> QED BY <2>1, <2>2 DEF LinkInv, Shown
<1>4. ASSUME NEW k \in Conns, Disconnect(k) PROVE LinkInv'
  <2>1. /\ readers' = readers \ {k} /\ closed' = closed \cup {cur}
        /\ UNCHANGED <<view, queue, cur, link, loop, handshake, trust>>
    BY <1>4 DEF Disconnect
  <2>2. cur \in 1 .. cur
    BY <1>0 DEF LinkInv
  <2>3. WriteLoops' = WriteLoops
    BY <2>1 DEF WriteLoops
  <2> QED BY <2>1, <2>2, <2>3 DEF LinkInv
<1>5. CASE Cut
  <2>1. /\ link' = "cut" /\ trust' = Shown
        /\ UNCHANGED <<view, queue, cur, readers, closed, loop, handshake>>
    BY <1>5 DEF Cut
  <2>2. WriteLoops' = WriteLoops
    BY <2>1 DEF WriteLoops
  <2> QED BY <2>1, <2>2 DEF LinkInv, Shown
<1>6. CASE AttachConn
  <2>1. /\ cur < MaxConns /\ cur' = cur + 1 /\ link' = "up"
        /\ loop' = [loop EXCEPT ![cur + 1] = cur + 1]
        /\ handshake' = [at |-> "attached"]
        /\ view' \in {view, createLocalState}
        /\ trust' \in {"shown", "none"}
        /\ UNCHANGED <<queue, readers, closed>>
    BY <1>6 DEF AttachConn, Shown
  <2>2. cur' \in Conns /\ 1 .. cur \subseteq 1 .. cur' /\ cur' \in 1 .. cur'
    BY <1>0, <2>1 DEF LinkInv
  <2>3. loop' \in [Conns -> {NoLoop} \cup Conns] /\ WriteLoops' \subseteq WriteLoops \cup {cur'}
    BY <2>1, <2>2 DEF LinkInv, WriteLoops
  <2>4. view' \in PageType /\ handshake' \in Handshakes
    BY <2>1, BlankPage DEF LinkInv, Handshakes
  <2> QED BY <2>1, <2>2, <2>3, <2>4 DEF LinkInv
<1>7. CASE Reconnecting
  <2>1. UNCHANGED <<queue, cur, link, closed, loop, trust>>
    BY <1>7 DEF Reconnecting, ClientStateRead, ClientStateWritten, PlayerHandRead,
                PlayerHandWritten
  <2>2. WriteLoops' = WriteLoops
    BY <2>1 DEF WriteLoops
  <2>3. handshake.at # "idle"
    BY <1>7 DEF Reconnecting, ClientStateRead, ClientStateWritten, PlayerHandRead,
                PlayerHandWritten
  <2>4. trust # "all"
    BY <2>3 DEF LinkInv, NotReconnecting
  <2>5. state \in GameType /\ state.hand[Me] \in SUBSET Pack /\ cur \in 1 .. cur
    BY <1>0, MeAssumption DEF FlowInv, FlowTypeOK, GameType, LinkInv
  <2>6. readers' \subseteq 1 .. cur
    BY <1>7, <2>5 DEF Reconnecting, ClientStateRead, ClientStateWritten, PlayerHandRead,
                PlayerHandWritten, LinkInv
  <2>7. handshake' \in Handshakes /\ view' \in PageType
    <3>1. CASE ClientStateRead
      <4>1. GameStarted(state) \in Starts
        BY <2>5, StartIsAMessage
      <4> QED BY <3>1, <4>1 DEF ClientStateRead, Handshakes, LinkInv
    <3>2. CASE ClientStateWritten
      <4>1. handshake.at = "state"
        BY <3>2 DEF ClientStateWritten
      <4>2. handshake.msg \in Messages
        BY <4>1 DEF LinkInv, Handshakes, NotReconnecting, Messages
      <4> QED BY <3>2, <4>2, PageStays DEF ClientStateWritten, Handshakes, LinkInv
    <3>3. CASE PlayerHandRead
      BY <3>3, <2>5 DEF PlayerHandRead, Handshakes, LinkInv
    <3>4. CASE PlayerHandWritten
      <4>1. handshake.at = "hand"
        BY <3>4 DEF PlayerHandWritten
      <4>2. handshake.cards \in SUBSET Pack
        BY <4>1 DEF LinkInv, Handshakes, NotReconnecting
      <4>3. \A cards \in SUBSET Pack : HandDealt(cards, 0) \in Messages
        BY HandIsAMessage DEF Messages
      <4>4. \A cards \in SUBSET Pack : applyServerMessage(view, HandDealt(cards, 0)) \in PageType
        BY <4>3, PageStays DEF LinkInv
      <4> QED BY <3>4, <2>5, <4>2, <4>4 DEF PlayerHandWritten, Handshakes, LinkInv
    <3> QED BY <1>7, <3>1, <3>2, <3>3, <3>4 DEF Reconnecting
  <2> QED BY <2>1, <2>2, <2>4, <2>6, <2>7 DEF LinkInv
<1>8. CASE UNCHANGED deliveryVars
  <2>1. UNCHANGED <<view, queue, cur, link, readers, closed, loop, handshake, trust>>
    BY <1>8 DEF deliveryVars, connVars
  <2>2. WriteLoops' = WriteLoops
    BY <2>1 DEF WriteLoops
  <2> QED BY <2>1, <2>2 DEF LinkInv
<1> QED BY <1>1, <1>2, <1>3, <1>4, <1>5, <1>6, <1>7, <1>8, TwoKindsOfSteps DEF Elsewhere

\* The game on the server is the one of TurnFlow.
THEOREM GameIsFollowed == DeliverySpec => [](FlowInv /\ LinkInv)
<1>1. DeliveryInit => FlowInv /\ LinkInv
  BY InitSettles, LinkInit DEF DeliveryInit
<1>2. FlowInv /\ LinkInv /\ [DeliveryNext]_deliveryVars => (FlowInv /\ LinkInv)'
  BY GameStaysSettled, LinkStep
<1> QED BY <1>1, <1>2, PTL DEF DeliverySpec

\* What the player is informed of, and moves in, is the game of TurnFlow: write
\* loops, reconnects and lost messages neither make a move nor keep one from being
\* a move of the rules, and what holds of every game holds of this one.
THEOREM DeliveryPlaysTheGame == DeliverySpec => FlowSpec
<1>1. DeliveryInit => FlowInit
  BY DEF DeliveryInit
<1>2. FlowInv /\ [DeliveryNext]_deliveryVars => [FlowNext]_flowVars
  BY TwoKindsOfSteps
<1> QED BY <1>1, <1>2, GameIsFollowed, PTL DEF DeliverySpec, FlowSpec

\* Every state of the connection side is well formed: the channel never holds
\* more than its capacity, no loop runs for a connection that does not exist yet,
\* and nothing but cards of the pack gets onto the page.
THEOREM DeliveryTypeCorrect == DeliverySpec => []DeliveryTypeOK
<1>1. LinkInv => DeliveryTypeOK
  <2>1. ASSUME NEW T \in Tables PROVE BagToSet(T) \subseteq Pack
    BY <2>1 DEF Tables, BagToSet
  <2>2. LinkInv => view.table \in Tables /\ view.myHand \subseteq Pack
    BY DEF LinkInv, PageType
  <2> QED BY <2>1, <2>2 DEF LinkInv, DeliveryTypeOK
<1> QED BY <1>1, GameIsFollowed, PTL

-------------------------------------------------------------------------------
(***************************************************************************)
(* A page that has missed nothing.                                         *)
(***************************************************************************)
LEMMA QueueShows ==
    ASSUME LinkInv, NEW messages \in Seq(Messages)
    PROVE  /\ Awaited = Shows(view, queue) /\ Awaited \in PageType
           /\ Shows(view, queue \o messages) = Shows(Awaited, messages)
<1>1. Awaited = Shows(view, queue)
  BY DEF Awaited, Shows
<1>2. queue \in Seq(Messages) /\ view \in PageType
  BY DEF LinkInv
<1>3. Shows(view, queue) \in PageType
  BY <1>2, PagesStay
<1>4. Shows(view, queue \o messages) = Shows(Shows(view, queue), messages)
  BY <1>2, ShowsInTurn
<1> QED BY <1>1, <1>3, <1>4

\* What the page will show, after a step.
LEMMA AwaitedAfterwards == Awaited' = Shows(view', queue')
  BY DEF Awaited, Shows

\* Writing a message brings the page nearer to what it awaits, but does not
\* change that.
LEMMA WritingShows ==
    ASSUME LinkInv, NEW k \in Conns, Write(k), link = "up"
    PROVE  Awaited' = Awaited
<1>1. /\ queue \in Seq(Messages) /\ queue # << >> /\ queue' = Tail(queue)
      /\ view' = applyServerMessage(view, Head(queue))
  BY DEF Write, LinkInv
<1>2. Shows(view, queue) = Shows(view', queue')
  BY <1>1, ShowsNext
<1> QED BY <1>2, AwaitedAfterwards DEF Awaited, Shows

\* No deal touches the tablas.
LEMMA DealingKeepsTablas ==
    ASSUME NEW g \in GameType, NEW h \in DealNextHand(g)
    PROVE  h.tablas = g.tablas
<1>1. CASE ~CanDeal(g)
  BY <1>1 DEF DealNextHand
<1>2. CASE CanDeal(g)
  <2>1. PICK taken, split : h = AfterDeal(g, taken, split)
    BY <1>2 DEF DealNextHand
  <2> QED BY <2>1 DEF AfterDeal, GameType
<1> QED BY <1>1, <1>2

\* The game at the beginning.
LEMMA FirstGame ==
    ASSUME FlowInit
    PROVE  state \in GameType /\ state.phase = "playing" /\ state.tablas = [i \in Seats |-> 0]
<1>1. NewGame \in GameType
  BY SeatsFacts DEF NewGame, GameType, Phases
<1>2. NoDuplication(NewGame) /\ NoLoss(NewGame) /\ LastCapturerOf(NewGame)
  BY DEF NewGame, NoDuplication, NoLoss, LastCapturerOf
<1>3. Undealt(NewGame)
  BY <1>1, <1>2, SizeAssumption DEF Undealt, Sound, NewGame
<1>4. state \in DealNextHand(NewGame)
  BY DEF FlowInit
<1>5. Settled(state) /\ state.phase = "playing"
  BY <1>3, <1>4, DealSettles
<1>6. state.tablas = NewGame.tablas
  BY <1>1, <1>4, DealingKeepsTablas
<1> QED BY <1>5, <1>6 DEF NewGame, Settled, Sound

\* The announcement of the game carries the game.
LEMMA FirstPage == FlowInv /\ LinkInv /\ DeliveryInit => MessagesCarryTheGame
<1> SUFFICES ASSUME FlowInv, LinkInv, DeliveryInit PROVE MessagesCarryTheGame
  OBVIOUS
<1>1. pendingCapture = {} /\ view \in PageType /\ queue = StartMessages(state)
  BY DEF DeliveryInit, FlowInit, LinkInv
<1>2. state \in GameType /\ state.phase = "playing" /\ state.tablas = [i \in Seats |-> 0]
  BY FirstGame DEF DeliveryInit
<1>3. Projection = PageOf(state, {}, pendingCardID)
  BY <1>1, ProjectionIsPage
<1>4. Awaited = Projection
  BY <1>1, <1>2, <1>3, RoundIsShown DEF Awaited, Shows
<1> QED BY <1>2, <1>4 DEF MessagesCarryTheGame

\* Every step leaves the page with messages that carry the game.
LEMMA PageKeepsUp ==
    FlowInv /\ LinkInv /\ MessagesCarryTheGame /\ [DeliveryNext]_deliveryVars
        => MessagesCarryTheGame'
<1> SUFFICES ASSUME FlowInv, LinkInv, MessagesCarryTheGame, [DeliveryNext]_deliveryVars,
                    trust' = "all"
             PROVE  IF state'.phase = "playing"
                    THEN Awaited' = Projection'
                    ELSE Awaited'.over /\ CountsAndScores(Awaited') = Standings(state')
  BY DEF MessagesCarryTheGame, Standings
<1>1. ASSUME NEW messages, Handles(messages)
      PROVE  IF state'.phase = "playing"
             THEN Awaited' = Projection'
             ELSE Awaited'.over /\ CountsAndScores(Awaited') = Standings(state')
  <2>1. Carries(messages) /\ messages \in Seq(Messages) /\ sendTo(messages) /\ view' = view
    BY <1>1 DEF Handles, Carries
  <2>2. queue' = queue \o messages /\ (trust = "all" \/ Announces(messages))
    BY <2>1, SendingKeeps
  <2>3. Awaited \in PageType /\ Awaited' = Shows(Awaited, messages)
    BY <2>1, <2>2, QueueShows, AwaitedAfterwards
  <2> HIDE DEF Awaited
  <2>4. CASE Announces(messages)
    BY <2>1, <2>3, <2>4 DEF Carries
  <2>5. CASE trust = "all"
    <3>1. Awaited = Projection
      BY <2>1, <2>5 DEF MessagesCarryTheGame, Carries
    <3> QED BY <2>1, <2>3, <3>1 DEF Carries
  <2> QED BY <2>2, <2>4, <2>5
<1>2. ASSUME Elsewhere, UNCHANGED flowVars
      PROVE  trust = "all" /\ Awaited' = Awaited
  <2>1. ASSUME NEW k \in Conns, Write(k) PROVE trust = "all" /\ Awaited' = Awaited
    BY <2>1, WritingShows DEF Write, LinkInv
  <2>2. ASSUME UNCHANGED <<view, queue, trust>> PROVE trust = "all" /\ Awaited' = Awaited
    BY <2>2 DEF Awaited
  <2>3. ASSUME NEW k \in Conns, Stop(k) \/ Disconnect(k)
        PROVE  trust = "all" /\ Awaited' = Awaited
    BY <2>2, <2>3 DEF Stop, Disconnect, Shown
  <2>4. ~Cut /\ ~AttachConn
    BY DEF Cut, AttachConn, Shown
  <2>5. ~Reconnecting
    <3>1. Reconnecting => trust' = trust /\ handshake.at # "idle"
      BY DEF Reconnecting, ClientStateRead, ClientStateWritten, PlayerHandRead,
             PlayerHandWritten
    <3> QED BY <3>1 DEF LinkInv, NotReconnecting
  <2>6. CASE UNCHANGED deliveryVars
    BY <2>2, <2>6 DEF deliveryVars
  <2> QED BY <1>2, <2>1, <2>3, <2>4, <2>5, <2>6 DEF Elsewhere
<1>3. ASSUME Elsewhere, UNCHANGED flowVars
      PROVE  IF state'.phase = "playing"
             THEN Awaited' = Projection'
             ELSE Awaited'.over /\ CountsAndScores(Awaited') = Standings(state')
  <2>1. state' = state /\ Projection' = Projection
    BY <1>3 DEF flowVars, Projection, HandOnPage, CurrentPlayer
  <2>2. trust = "all" /\ Awaited' = Awaited
    BY <1>2, <1>3
  <2> HIDE DEF Awaited, Projection
  <2> QED BY <2>1, <2>2 DEF MessagesCarryTheGame
<1> QED BY <1>1, <1>3, TwoKindsOfSteps

\* Every handler sends what its changes of the game change on a page, in an order
\* the reducer can use: over a whole game a connection that has missed nothing
\* shows exactly the game, once everything has been delivered.
THEOREM MessagesCarry == DeliverySpec => []MessagesCarryTheGame
<1> DEFINE Inv == FlowInv /\ LinkInv /\ MessagesCarryTheGame
<1>1. DeliveryInit => Inv
  BY InitSettles, LinkInit, FirstPage DEF DeliveryInit
<1>2. Inv /\ [DeliveryNext]_deliveryVars => Inv'
  BY GameStaysSettled, LinkStep, PageKeepsUp
<1>3. Inv => MessagesCarryTheGame
  OBVIOUS
<1> QED BY <1>1, <1>2, <1>3, PTL DEF DeliverySpec
-------------------------------------------------------------------------------
(***************************************************************************)
(* What a page shows, facet by facet: whose turn it is, the scores, how    *)
(* many cards a seat has captured, whether a card is on the table, whether *)
(* a card is in the hand.  A message either says what a facet is or leaves *)
(* it alone, whatever the rest of the page: this is why a page can be put  *)
(* right by a snapshot although older messages come after it.              *)
(***************************************************************************)
Started == {v \in PageType : v.started = TRUE}

PublicFacets ==
    {[v \in PageType |-> v.current], [v \in PageType |-> v.totalScore]}
        \cup {[v \in PageType |-> v.capturedCount[j]] : j \in Seats}
        \cup {[v \in PageType |-> DOMAIN v.table \cap {c}] : c \in Pack}

HandFacets == {[v \in PageType |-> v.myHand \cap {c}] : c \in Pack}

Facets == PublicFacets \cup HandFacets


\* What a message does to the fields that are looked at.
LEMMA Effects ==
    ASSUME NEW v \in Started, NEW m \in Messages
    PROVE  LET w == applyServerMessage(v, m)
           IN /\ w \in Started
              /\ m \in Starts => /\ w.current = m.state.current
                                 /\ w.totalScore = m.state.totalScore
                                 /\ w.capturedCount = m.state.capturedCount
                                 /\ DOMAIN w.table = m.state.table
                                 /\ w.myHand = v.myHand
              /\ m \in Hands => /\ w.current = v.current /\ w.totalScore = v.totalScore
                                /\ w.capturedCount = v.capturedCount /\ w.table = v.table
                                /\ w.myHand = m.cards
              /\ m \in Turns => /\ w.current = m.playerIndex /\ w.totalScore = v.totalScore
                                /\ w.capturedCount = v.capturedCount /\ w.table = v.table
                                /\ w.myHand = v.myHand
              /\ m \in Plays => /\ w.current = v.current /\ w.totalScore = v.totalScore
                                /\ w.capturedCount = v.capturedCount /\ w.table = v.table
                                /\ w.myHand = IF m.player = Me THEN v.myHand \ {m.card}
                                              ELSE v.myHand
              /\ m \in Discards => /\ w.current = v.current /\ w.totalScore = v.totalScore
                                   /\ w.capturedCount = v.capturedCount
                                   /\ DOMAIN w.table = DOMAIN v.table \cup {m.card}
                                   /\ w.myHand = v.myHand
              /\ m \in Offers => /\ w.current = v.current /\ w.totalScore = v.totalScore
                                  /\ w.capturedCount = v.capturedCount /\ w.table = v.table
                                  /\ w.myHand = v.myHand
              /\ m \in Captures => /\ w.current = v.current /\ w.totalScore = v.totalScore
                                   /\ w.capturedCount =
                                          [v.capturedCount EXCEPT ![m.player] = m.capturedCount]
                                   /\ DOMAIN w.table = DOMAIN v.table \ m.cards
                                   /\ w.myHand = v.myHand
              /\ m \in Overs => /\ w.current = v.current /\ w.totalScore = m.totalScore
                                /\ w.capturedCount = m.capturedCount /\ w.table = v.table
                                /\ w.myHand = v.myHand
<1> DEFINE w == applyServerMessage(v, m)
<1>0. v \in PageType /\ v.started = TRUE /\ w \in PageType
  BY PageStays DEF Started
<1> HIDE DEF w
<1>1. m \in Starts => /\ w.started = TRUE /\ w.current = m.state.current
                      /\ w.totalScore = m.state.totalScore
                      /\ w.capturedCount = m.state.capturedCount
                      /\ DOMAIN w.table = m.state.table
                      /\ w.myHand = v.myHand
  <2> SUFFICES ASSUME m \in Starts
               PROVE  /\ w.started = TRUE /\ w.current = m.state.current
                      /\ w.totalScore = m.state.totalScore
                      /\ w.capturedCount = m.state.capturedCount
                      /\ DOMAIN w.table = m.state.table
                      /\ w.myHand = v.myHand
    OBVIOUS
  <2>1. w = OnGameStarted(v, m)
    BY ReducerCases DEF w
  <2>2. m.state.table \in SUBSET Pack
    BY DEF Starts, PublicGames
  <2>3. w.table = SetToBag(m.state.table)
    BY <1>0, <2>1 DEF OnGameStarted, PageType
  <2>4. DOMAIN w.table = m.state.table
    BY <2>2, <2>3, TableOfSet
  <2> QED BY <1>0, <2>1, <2>4, ZenonT(60) DEF OnGameStarted, PageType
<1>2. m \in Hands => /\ w.started = TRUE /\ w.current = v.current /\ w.totalScore = v.totalScore
                     /\ w.capturedCount = v.capturedCount /\ w.table = v.table
                     /\ w.myHand = m.cards
  <2> SUFFICES ASSUME m \in Hands
               PROVE  /\ w.started = TRUE /\ w.current = v.current /\ w.totalScore = v.totalScore
                      /\ w.capturedCount = v.capturedCount /\ w.table = v.table
                      /\ w.myHand = m.cards
    OBVIOUS
  <2>1. w = OnHandDealt(v, m)
    BY ReducerCases DEF w
  <2> QED BY <1>0, <2>1 DEF OnHandDealt, PageType
<1>3. m \in Turns => /\ w.started = TRUE /\ w.current = m.playerIndex
                     /\ w.totalScore = v.totalScore
                     /\ w.capturedCount = v.capturedCount /\ w.table = v.table
                     /\ w.myHand = v.myHand
  <2> SUFFICES ASSUME m \in Turns
               PROVE  /\ w.started = TRUE /\ w.current = m.playerIndex
                      /\ w.totalScore = v.totalScore
                      /\ w.capturedCount = v.capturedCount /\ w.table = v.table
                      /\ w.myHand = v.myHand
    OBVIOUS
  <2>1. w = OnTurnStart(v, m)
    BY ReducerCases DEF w
  <2> QED BY <1>0, <2>1 DEF OnTurnStart, PageType
<1>4. m \in Plays => /\ w.started = TRUE /\ w.current = v.current /\ w.totalScore = v.totalScore
                     /\ w.capturedCount = v.capturedCount /\ w.table = v.table
                     /\ w.myHand = IF m.player = Me THEN v.myHand \ {m.card} ELSE v.myHand
  BY <1>0, ReducerCases DEF OnCardPlayed, PageType, w
<1>5. m \in Discards => /\ w.started = TRUE /\ w.current = v.current
                        /\ w.totalScore = v.totalScore
                        /\ w.capturedCount = v.capturedCount
                        /\ DOMAIN w.table = DOMAIN v.table \cup {m.card}
                        /\ w.myHand = v.myHand
  <2> SUFFICES ASSUME m \in Discards
               PROVE  /\ w.started = TRUE /\ w.current = v.current
                      /\ w.totalScore = v.totalScore
                      /\ w.capturedCount = v.capturedCount
                      /\ DOMAIN w.table = DOMAIN v.table \cup {m.card}
                      /\ w.myHand = v.myHand
    OBVIOUS
  <2>1. w = OnCardDiscarded(v, m)
    BY ReducerCases DEF w
  <2>2. w = [v EXCEPT !.table = @ (+) SetToBag({m.card})]
    BY <1>0, <2>1 DEF OnCardDiscarded
  <2>3. DOMAIN (v.table (+) SetToBag({m.card})) = DOMAIN v.table \cup {m.card}
    BY <1>0, TablesStay DEF Discards, PageType
  <2>4. w.table = v.table (+) SetToBag({m.card})
    BY <1>0, <2>2 DEF PageType
  <2> QED BY <1>0, <2>2, <2>3, <2>4 DEF PageType
<1>6. m \in Offers => /\ w.started = TRUE /\ w.current = v.current
                       /\ w.totalScore = v.totalScore
                       /\ w.capturedCount = v.capturedCount /\ w.table = v.table
                       /\ w.myHand = v.myHand
  <2> SUFFICES ASSUME m \in Offers
               PROVE  /\ w.started = TRUE /\ w.current = v.current
                      /\ w.totalScore = v.totalScore
                      /\ w.capturedCount = v.capturedCount /\ w.table = v.table
                      /\ w.myHand = v.myHand
    OBVIOUS
  <2>1. w = OnCaptureOptions(v, m)
    BY ReducerCases DEF w
  <2> QED BY <1>0, <2>1 DEF OnCaptureOptions, PageType
<1>7. m \in Captures => /\ w.started = TRUE /\ w.current = v.current
                        /\ w.totalScore = v.totalScore
                        /\ w.capturedCount =
                               [v.capturedCount EXCEPT ![m.player] = m.capturedCount]
                        /\ DOMAIN w.table = DOMAIN v.table \ m.cards
                        /\ w.myHand = v.myHand
  <2> SUFFICES ASSUME m \in Captures
               PROVE  /\ w.started = TRUE /\ w.current = v.current
                      /\ w.totalScore = v.totalScore
                      /\ w.capturedCount =
                             [v.capturedCount EXCEPT ![m.player] = m.capturedCount]
                      /\ DOMAIN w.table = DOMAIN v.table \ m.cards
                      /\ w.myHand = v.myHand
    OBVIOUS
  <2>1. w = OnCaptureMade(v, m)
    BY ReducerCases DEF w
  <2>2. w.table = WithoutCards(v.table, m.cards)
    BY <1>0, <2>1 DEF OnCaptureMade, PageType
  <2>3. DOMAIN w.table = DOMAIN v.table \ m.cards
    BY <1>0, <2>2, TablesStay DEF PageType
  <2> QED BY <1>0, <2>1, <2>3 DEF OnCaptureMade, PageType
<1>8. m \in Overs => /\ w.started = TRUE /\ w.current = v.current /\ w.totalScore = m.totalScore
                     /\ w.capturedCount = m.capturedCount /\ w.table = v.table
                     /\ w.myHand = v.myHand
  <2> SUFFICES ASSUME m \in Overs
               PROVE  /\ w.started = TRUE /\ w.current = v.current /\ w.totalScore = m.totalScore
                      /\ w.capturedCount = m.capturedCount /\ w.table = v.table
                      /\ w.myHand = v.myHand
    OBVIOUS
  <2>1. w = OnGameOver(v, m)
    BY ReducerCases DEF w
  <2> QED BY <1>0, <2>1 DEF OnGameOver, PageType
<1>9. w \in Started
  BY <1>0, <1>1, <1>2, <1>3, <1>4, <1>5, <1>6, <1>7, <1>8 DEF Messages, Started
<1>10. QED
  BY <1>1, <1>2, <1>3, <1>4, <1>5, <1>6, <1>7, <1>8, <1>9 DEF w

\* A message leaves a facet of every page alone or sets it on every page.
LEMMA FacetKeptOrSet ==
    ASSUME NEW f \in Facets, NEW m \in Messages
    PROVE  \/ \A v \in Started : f[applyServerMessage(v, m)] = f[v]
           \/ \A v, w \in Started :
                  f[applyServerMessage(v, m)] = f[applyServerMessage(w, m)]
<1> DEFINE after(v) == applyServerMessage(v, m)
<1>0. \A v \in Started : v \in PageType /\ after(v) \in PageType /\ after(v) \in Started
  BY Effects DEF Started
<1>1. CASE f = [v \in PageType |-> v.current]
  <2>1. \A v \in PageType : f[v] = v.current
    BY <1>1
  <2>2. CASE m \in Starts
    <3>1. \A v \in Started : after(v).current = m.state.current
      BY <2>2, Effects
    <3> QED BY <1>0, <2>1, <3>1
  <2>5. CASE m \in Turns
    <3>1. \A v \in Started : after(v).current = m.playerIndex
      BY <2>5, Effects
    <3> QED BY <1>0, <2>1, <3>1
  <2>3. CASE m \notin Starts \cup Turns
    <3>1. \A v \in Started : after(v).current = v.current
      BY <2>3, Effects DEF Messages
    <3> QED BY <1>0, <2>1, <3>1
  <2> QED BY <2>2, <2>3, <2>5
<1>2. CASE f = [v \in PageType |-> v.totalScore]
  <2>1. \A v \in PageType : f[v] = v.totalScore
    BY <1>2
  <2>2. CASE m \in Starts
    <3>1. \A v \in Started : after(v).totalScore = m.state.totalScore
      BY <2>2, Effects
    <3> QED BY <1>0, <2>1, <3>1
  <2>5. CASE m \in Overs
    <3>1. \A v \in Started : after(v).totalScore = m.totalScore
      BY <2>5, Effects
    <3> QED BY <1>0, <2>1, <3>1
  <2>3. CASE m \notin Starts \cup Overs
    <3>1. \A v \in Started : after(v).totalScore = v.totalScore
      BY <2>3, Effects DEF Messages
    <3> QED BY <1>0, <2>1, <3>1
  <2> QED BY <2>2, <2>3, <2>5
<1>3. ASSUME NEW j \in Seats, f = [v \in PageType |-> v.capturedCount[j]]
      PROVE  \/ \A v \in Started : f[after(v)] = f[v]
             \/ \A v, w \in Started : f[after(v)] = f[after(w)]
  <2>1. \A v \in PageType : f[v] = v.capturedCount[j]
    BY <1>3
  <2>2. CASE m \in Starts
    <3>1. \A v \in Started : after(v).capturedCount = m.state.capturedCount
      BY <2>2, Effects
    <3> QED BY <1>0, <2>1, <3>1
  <2>5. CASE m \in Overs
    <3>1. \A v \in Started : after(v).capturedCount = m.capturedCount
      BY <2>5, Effects
    <3> QED BY <1>0, <2>1, <3>1
  <2>3. CASE m \in Captures
    <3>1. \A v \in Started : /\ v.capturedCount \in [Seats -> Nat]
                             /\ after(v).capturedCount =
                                    [v.capturedCount EXCEPT ![m.player] = m.capturedCount]
      <4>1. \A v \in Started : v.capturedCount \in [Seats -> Nat]
        BY DEF Started, PageType
      <4>2. \A v \in Started : after(v).capturedCount =
                                    [v.capturedCount EXCEPT ![m.player] = m.capturedCount]
        BY <2>3, Effects
      <4> QED BY <4>1, <4>2
    <3>2. \A v \in Started : after(v).capturedCount[j] =
              IF j = m.player THEN m.capturedCount ELSE v.capturedCount[j]
      BY <3>1
    <3>3. CASE j = m.player
      BY <1>0, <2>1, <3>2, <3>3
    <3>4. CASE j # m.player
      BY <1>0, <2>1, <3>2, <3>4
    <3> QED BY <3>3, <3>4
  <2>4. CASE m \notin Starts \cup Overs \cup Captures
    <3>1. \A v \in Started : after(v).capturedCount = v.capturedCount
      BY <2>4, Effects DEF Messages
    <3> QED BY <1>0, <2>1, <3>1
  <2> QED BY <2>2, <2>3, <2>4, <2>5
<1>4. ASSUME NEW c \in Pack, f = [v \in PageType |-> DOMAIN v.table \cap {c}]
      PROVE  \/ \A v \in Started : f[after(v)] = f[v]
             \/ \A v, w \in Started : f[after(v)] = f[after(w)]
  <2>1. \A v \in PageType : f[v] = DOMAIN v.table \cap {c}
    BY <1>4
  <2>2. CASE m \in Starts
    <3>1. \A v \in Started : DOMAIN after(v).table = m.state.table
      BY <2>2, Effects
    <3>2. \A v \in Started : f[after(v)] = m.state.table \cap {c}
      BY <1>0, <2>1, <3>1
    <3> QED BY <3>2
  <2>3. CASE m \in Discards
    <3>1. \A v \in Started : DOMAIN after(v).table = DOMAIN v.table \cup {m.card}
      BY <2>3, Effects
    <3>2. CASE c = m.card
      <4>1. \A v \in Started : f[after(v)] = {c}
        BY <1>0, <2>1, <3>1, <3>2
      <4> QED BY <4>1
    <3>3. CASE c # m.card
      <4>1. \A v \in Started : DOMAIN after(v).table \cap {c} = DOMAIN v.table \cap {c}
        BY <3>1, <3>3
      <4> QED BY <1>0, <2>1, <4>1
    <3> QED BY <3>2, <3>3
  <2>4. CASE m \in Captures
    <3>1. \A v \in Started : DOMAIN after(v).table = DOMAIN v.table \ m.cards
      BY <2>4, Effects
    <3>2. CASE c \in m.cards
      <4>1. \A v \in Started : f[after(v)] = {}
        BY <1>0, <2>1, <3>1, <3>2
      <4> QED BY <4>1
    <3>3. CASE c \notin m.cards
      <4>1. \A v \in Started : DOMAIN after(v).table \cap {c} = DOMAIN v.table \cap {c}
        BY <3>1, <3>3
      <4> QED BY <1>0, <2>1, <4>1
    <3> QED BY <3>2, <3>3
  <2>5. CASE m \notin Starts \cup Discards \cup Captures
    <3>1. \A v \in Started : after(v).table = v.table
      BY <2>5, Effects DEF Messages
    <3> QED BY <1>0, <2>1, <3>1
  <2> QED BY <2>2, <2>3, <2>4, <2>5
<1>5. ASSUME NEW c \in Pack, f = [v \in PageType |-> v.myHand \cap {c}]
      PROVE  \/ \A v \in Started : f[after(v)] = f[v]
             \/ \A v, w \in Started : f[after(v)] = f[after(w)]
  <2>1. \A v \in PageType : f[v] = v.myHand \cap {c}
    BY <1>5
  <2>2. CASE m \in Hands
    <3>1. \A v \in Started : after(v).myHand = m.cards
      BY <2>2, Effects
    <3>2. \A v \in Started : f[after(v)] = m.cards \cap {c}
      BY <1>0, <2>1, <3>1
    <3> QED BY <3>2
  <2>3. CASE m \in Plays
    <3>1. \A v \in Started : after(v).myHand = IF m.player = Me THEN v.myHand \ {m.card}
                                               ELSE v.myHand
      BY <2>3, Effects
    <3>2. CASE m.player = Me /\ c = m.card
      <4>1. \A v \in Started : f[after(v)] = {}
        BY <1>0, <2>1, <3>1, <3>2
      <4> QED BY <4>1
    <3>3. CASE ~(m.player = Me /\ c = m.card)
      <4>1. \A v \in Started : after(v).myHand \cap {c} = v.myHand \cap {c}
        BY <3>1, <3>3
      <4> QED BY <1>0, <2>1, <4>1
    <3> QED BY <3>2, <3>3
  <2>4. CASE m \notin Hands \cup Plays
    <3>1. \A v \in Started : after(v).myHand = v.myHand
      BY <2>4, Effects DEF Messages
    <3>2. \A v \in Started : after(v).myHand \cap {c} = v.myHand \cap {c}
      BY <3>1
    <3> HIDE DEF after
    <3> QED BY <1>0, <2>1, <3>2
  <2> QED BY <2>2, <2>3, <2>4
<1> HIDE DEF after
<1>6. \/ f = [v \in PageType |-> v.current]
      \/ f = [v \in PageType |-> v.totalScore]
      \/ \E j \in Seats : f = [v \in PageType |-> v.capturedCount[j]]
      \/ \E c \in Pack : f = [v \in PageType |-> DOMAIN v.table \cap {c}]
      \/ \E c \in Pack : f = [v \in PageType |-> v.myHand \cap {c}]
  BY DEF Facets, PublicFacets, HandFacets
<1>7. \/ \A v \in Started : f[after(v)] = f[v]
      \/ \A v, w \in Started : f[after(v)] = f[after(w)]
  BY <1>1, <1>2, <1>3, <1>4, <1>5, <1>6 DEF after
<1> QED BY <1>7 DEF after

\* Sequences are built by appending.
LEMMA SeqInduct ==
    ASSUME NEW S, NEW Good, << >> \in Good,
           \A s \in Seq(S), m \in S : s \in Good => Append(s, m) \in Good
    PROVE  Seq(S) \subseteq Good
<1> DEFINE N == {n \in Nat : \A s \in Seq(S) : Len(s) = n => s \in Good}
<1>1. 0 \in N
  BY EmptySeq
<1>2. ASSUME NEW n \in Nat, n \in N PROVE n + 1 \in N
  <2>1. ASSUME NEW s \in Seq(S), Len(s) = n + 1 PROVE s \in Good
    <3>1. s # << >>
      BY <2>1, EmptySeq
    <3>2. PICK u \in Seq(S), m \in S : s = Append(u, m)
      BY <3>1, SequenceEmptyOrAppend
    <3>3. Len(u) = n
      BY <2>1, <3>2, AppendProperties, LenProperties
    <3> QED BY <1>2, <3>2, <3>3
  <2> QED BY <2>1
<1> HIDE DEF N
<1>3. Nat \subseteq N
  BY <1>1, <1>2, NatInduct
<1>4. ASSUME NEW s \in Seq(S) PROVE s \in Good
  <2>1. Len(s) \in N
    BY <1>3, LenProperties
  <2> QED BY <2>1 DEF N
<1> QED BY <1>4

\* A page that has heard of the game does not forget it.
LEMMA StartedStays ==
    ASSUME NEW v \in Started, NEW q \in Seq(Messages)
    PROVE  Shows(v, q) \in Started
<1> DEFINE Good == {s \in Seq(Messages) : Shows(v, s) \in Started}
<1>1. << >> \in Good
  BY EmptySeq, ShowsNothing
<1>2. ASSUME NEW s \in Seq(Messages), NEW m \in Messages, s \in Good
      PROVE  Append(s, m) \in Good
  <2>1. Shows(v, Append(s, m)) = applyServerMessage(Shows(v, s), m)
    BY ShowsOneMore
  <2>2. Append(s, m) \in Seq(Messages)
    BY AppendProperties
  <2>3. Shows(v, s) \in Started
    BY <1>2
  <2>4. applyServerMessage(Shows(v, s), m) \in Started
    BY <2>3, Effects
  <2> QED BY <2>1, <2>2, <2>4
<1> HIDE DEF Good
<1>3. Seq(Messages) \subseteq Good
  BY <1>1, <1>2, SeqInduct
<1> QED BY <1>3 DEF Good

\* What holds of one message holds of several.
LEMMA FacetShown ==
    ASSUME NEW f \in Facets, NEW q \in Seq(Messages)
    PROVE  \/ \A v \in Started : f[Shows(v, q)] = f[v]
           \/ \A v, w \in Started : f[Shows(v, q)] = f[Shows(w, q)]
<1> DEFINE Good == {s \in Seq(Messages) :
                        \/ \A v \in Started : f[Shows(v, s)] = f[v]
                        \/ \A v, w \in Started : f[Shows(v, s)] = f[Shows(w, s)]}
<1>1. << >> \in Good
  BY EmptySeq, ShowsNothing
<1>2. ASSUME NEW s \in Seq(Messages), NEW m \in Messages, s \in Good
      PROVE  Append(s, m) \in Good
  <2>1. \A v : Shows(v, Append(s, m)) = applyServerMessage(Shows(v, s), m)
    BY ShowsOneMore
  <2>2. Append(s, m) \in Seq(Messages)
    BY AppendProperties
  <2>3. \A v \in Started : Shows(v, s) \in Started
    BY StartedStays
  <2>4. CASE \A v \in Started : f[applyServerMessage(v, m)] = f[v]
    <3>1. \A v \in Started : f[Shows(v, Append(s, m))] = f[Shows(v, s)]
      BY <2>1, <2>3, <2>4
    <3> QED BY <1>2, <2>2, <3>1
  <2>5. CASE \A v, w \in Started :
                 f[applyServerMessage(v, m)] = f[applyServerMessage(w, m)]
    <3>1. \A v, w \in Started : f[Shows(v, Append(s, m))] = f[Shows(w, Append(s, m))]
      BY <2>1, <2>3, <2>5
    <3> QED BY <2>2, <3>1
  <2> QED BY <2>4, <2>5, FacetKeptOrSet
<1> HIDE DEF Good
<1>3. Seq(Messages) \subseteq Good
  BY <1>1, <1>2, SeqInduct
<1> QED BY <1>3 DEF Good

\* Pages alike in a facet stay alike in it.
LEMMA StayAlike ==
    ASSUME NEW f \in Facets, NEW q \in Seq(Messages),
           NEW v \in Started, NEW w \in Started, f[v] = f[w]
    PROVE  f[Shows(v, q)] = f[Shows(w, q)]
  BY FacetShown

\* The messages of q fit a page T: on a page that is already like T in a facet
\* they, and what is left of them once some have been taken, leave it so.  They
\* are what T was made of, so the last that says anything of a facet says what T
\* shows.
Fits(q, T) ==
    \E Q \in SUBSET Seq(Messages) :
        /\ q \in Q
        /\ \A s \in Q : s # << >> => Tail(s) \in Q
        /\ \A s \in Q, f \in Facets, v \in Started :
               f[v] = f[T] => f[Shows(v, s)] = f[T]

\* Where nothing is under way everything fits.
LEMMA NothingFits == ASSUME NEW T PROVE Fits(<< >>, T)
<1> DEFINE Q == {<< >>}
<1>1. Q \in SUBSET Seq(Messages) /\ << >> \in Q
  BY EmptySeq
<1>2. \A s \in Q : s # << >> => Tail(s) \in Q
  OBVIOUS
<1>3. \A s \in Q, f \in Facets, v \in Started : f[v] = f[T] => f[Shows(v, s)] = f[T]
  BY ShowsNothing
<1> HIDE DEF Q
<1> QED BY <1>1, <1>2, <1>3 DEF Fits

\* What is left fits.
LEMMA RestFits ==
    ASSUME NEW q, NEW T, Fits(q, T), q # << >>
    PROVE  Fits(Tail(q), T)
<1>1. PICK Q \in SUBSET Seq(Messages) :
          /\ q \in Q
          /\ \A s \in Q : s # << >> => Tail(s) \in Q
          /\ \A s \in Q, f \in Facets, v \in Started :
                 f[v] = f[T] => f[Shows(v, s)] = f[T]
  BY DEF Fits
<1>2. Tail(q) \in Q
  BY <1>1
<1> QED BY <1>1, <1>2 DEF Fits

\* A message added fits the page after that message.
LEMMA OneMoreFits ==
    ASSUME NEW q, NEW T \in Started, Fits(q, T), NEW m \in Messages
    PROVE  Fits(Append(q, m), applyServerMessage(T, m))
<1>1. PICK Q \in SUBSET Seq(Messages) :
          /\ q \in Q
          /\ \A s \in Q : s # << >> => Tail(s) \in Q
          /\ \A s \in Q, f \in Facets, v \in Started :
                 f[v] = f[T] => f[Shows(v, s)] = f[T]
  BY DEF Fits
<1> DEFINE R == {Append(s, m) : s \in Q} \cup {<< >>}
           U == applyServerMessage(T, m)
<1>2. Append(q, m) \in R
  BY <1>1
<1>3. R \in SUBSET Seq(Messages)
  <2>1. \A s \in Q : Append(s, m) \in Seq(Messages)
    BY <1>1, AppendProperties
  <2>2. << >> \in Seq(Messages)
    BY EmptySeq
  <2> QED BY <2>1, <2>2
<1>4. ASSUME NEW s \in R, s # << >> PROVE Tail(s) \in R
  <2>1. PICK u \in Q : s = Append(u, m)
    BY <1>4
  <2>2. u \in Seq(Messages)
    BY <1>1
  <2>3. Tail(s) = IF u = << >> THEN << >> ELSE Append(Tail(u), m)
    BY <2>1, <2>2, HeadTailAppend
  <2>4. u # << >> => Tail(u) \in Q
    BY <1>1
  <2> QED BY <2>3, <2>4
<1>5. ASSUME NEW s \in R, NEW f \in Facets, NEW v \in Started, f[v] = f[U]
      PROVE  f[Shows(v, s)] = f[U]
  <2>1. CASE s = << >>
    BY <1>5, <2>1, ShowsNothing
  <2>2. ASSUME NEW u \in Q, s = Append(u, m) PROVE f[Shows(v, s)] = f[U]
    <3>1. u \in Seq(Messages)
      BY <1>1
    <3>2. Shows(v, s) = applyServerMessage(Shows(v, u), m)
      BY <2>2, <3>1, ShowsOneMore
    <3>3. Shows(v, u) \in Started
      BY <3>1, StartedStays
    <3>4. CASE \A w \in Started : f[applyServerMessage(w, m)] = f[w]
      <4>1. f[U] = f[T]
        BY <3>4
      <4>2. f[Shows(v, u)] = f[T]
        BY <1>1, <1>5, <4>1
      <4> QED BY <3>2, <3>3, <3>4, <4>1, <4>2
    <3>5. CASE \A w, x \in Started :
                   f[applyServerMessage(w, m)] = f[applyServerMessage(x, m)]
      BY <3>2, <3>3, <3>5
    <3> QED BY <3>4, <3>5, FacetKeptOrSet
  <2> QED BY <2>1, <2>2
<1> HIDE DEF R, U
<1>6. Fits(Append(q, m), U)
  BY <1>2, <1>3, <1>4, <1>5 DEF Fits
<1> QED BY <1>6 DEF U

\* So do several.
LEMMA MoreFit ==
    ASSUME NEW q \in Seq(Messages), NEW T \in Started, Fits(q, T), NEW r \in Seq(Messages)
    PROVE  Fits(q \o r, Shows(T, r))
<1> DEFINE Good == {s \in Seq(Messages) : Fits(q \o s, Shows(T, s))}
<1>1. << >> \in Good
  BY EmptySeq, ConcatEmptySeq, ShowsNothing
<1>2. ASSUME NEW s \in Seq(Messages), NEW m \in Messages, s \in Good
      PROVE  Append(s, m) \in Good
  <2>1. Append(s, m) = s \o <<m>> /\ <<m>> \in Seq(Messages) /\ Append(s, m) \in Seq(Messages)
    BY AppendIsConcat, AppendProperties
  <2>2. PICK u \in Seq(Messages) : u = q \o s
    BY ConcatProperties
  <2>3. u \o <<m>> = q \o (s \o <<m>>)
    BY <2>1, <2>2, ConcatAssociative
  <2>4. Append(u, m) = u \o <<m>>
    BY AppendIsConcat
  <2>5. q \o Append(s, m) = Append(u, m)
    BY <2>1, <2>3, <2>4
  <2>6. Shows(T, Append(s, m)) = applyServerMessage(Shows(T, s), m)
    BY ShowsOneMore
  <2>7. PICK w \in Started : w = Shows(T, s)
    BY StartedStays
  <2>8. Fits(u, w)
    BY <1>2, <2>2, <2>7
  <2>9. Fits(Append(u, m), applyServerMessage(w, m))
    BY <2>8, OneMoreFits
  <2> QED BY <2>1, <2>5, <2>6, <2>7, <2>9
<1> HIDE DEF Good
<1>3. Seq(Messages) \subseteq Good
  BY <1>1, <1>2, SeqInduct
<1> QED BY <1>3 DEF Good

\* What fitting messages do to a facet that is right already.
LEMMA FittingShows ==
    ASSUME NEW q, NEW T, Fits(q, T), NEW f \in Facets, NEW v \in Started, f[v] = f[T]
    PROVE  f[Shows(v, q)] = f[T]
  BY DEF Fits
-------------------------------------------------------------------------------
(***************************************************************************)
(* The page after a reconnect.                                             *)
(***************************************************************************)
\* What everybody may see is the same on w as on page.
Alike(w, page) == w \in Started /\ \A f \in PublicFacets : f[w] = f[page]

Held == state.hand[Me] \cup state.captured[Me]

ButOne(hand, right, held) ==
    right \subseteq hand /\ hand \subseteq held /\ Cardinality(hand \ right) <= 1

\* The hand of a settled page, in these terms.
LEMMA RightIsButOne == \A hand : RightHandButOne(hand) <=> ButOne(hand, HandOnPage, Held)
  BY DEF RightHandButOne, ButOne, Held

\* The page of the game has heard of the game.
LEMMA ProjectionStarted ==
    ASSUME FlowInv
    PROVE  Projection \in Started /\ Projection.myHand = HandOnPage
<1>1. state \in GameType /\ pendingCapture \in Options
  BY DEF FlowInv, FlowTypeOK, Options
<1>2. PageOf(state, pendingCapture, pendingCardID) \in PageType
  BY <1>1, PageOfIsAPage
<1>3. Projection \in PageType
  BY <1>2, ProjectionIsPage
<1>4. Projection.started = TRUE /\ Projection.myHand = HandOnPage
  BY DEF Projection
<1> QED BY <1>3, <1>4 DEF Started

\* Messages that carry a move keep a page alike ...
LEMMA AlikeCarried ==
    ASSUME FlowInv, NEW messages, Carries(messages), state'.phase = "playing",
           NEW w, Alike(w, Projection)
    PROVE  Alike(Shows(w, messages), Projection')
<1>1. messages \in Seq(Messages) /\ Shows(Projection, messages) = Projection'
  BY DEF Carries
<1>2. w \in Started /\ \A f \in PublicFacets : f \in Facets /\ f[w] = f[Projection]
  BY DEF Alike, Facets
<1>3. Projection \in Started
  BY ProjectionStarted
<1> HIDE DEF Projection
<1>4. \A f \in PublicFacets : f[Shows(w, messages)] = f[Shows(Projection, messages)]
  BY <1>1, <1>2, <1>3, StayAlike
<1>5. Shows(w, messages) \in Started
  BY <1>1, <1>2, StartedStays
<1> QED BY <1>1, <1>4, <1>5 DEF Alike

\* ... and a hand right but for one card.
LEMMA HandCarried ==
    ASSUME FlowInv, FlowInv', NEW messages, Carries(messages), state'.phase = "playing",
           NEW w \in Started, ButOne(w.myHand, HandOnPage, Held)
    PROVE  ButOne(Shows(w, messages).myHand, HandOnPage', Held')
<1>1. messages \in Seq(Messages) /\ Shows(Projection, messages) = Projection'
      /\ KeepsTrack(messages)
  BY DEF Carries
<1>2. Projection \in Started /\ Projection.myHand = HandOnPage
  BY ProjectionStarted
<1>3. Projection' \in Started /\ Projection'.myHand = HandOnPage'
  <2>1. (Projection.myHand = HandOnPage)'
    BY DEF Projection
  <2>2. Shows(Projection, messages) \in Started
    BY <1>1, <1>2, StartedStays
  <2> QED BY <1>1, <2>1, <2>2
<1>4. PICK P \in Started : P = Projection
  BY <1>2
<1>5. PICK PP \in Started : PP = Projection'
  BY <1>3
<1>6. PICK shown \in Started : shown = Shows(w, messages)
  BY <1>1, StartedStays
<1>7. P.myHand \subseteq Pack /\ PP.myHand \subseteq Pack
      /\ shown.myHand \subseteq Pack /\ w.myHand \subseteq Pack
  BY DEF Started, PageType
<1>8. ASSUME NEW c \in Pack
      PROVE  \/ (c \in shown.myHand <=> c \in w.myHand) /\ (c \in PP.myHand <=> c \in P.myHand)
             \/ c \in shown.myHand <=> c \in PP.myHand
  <2> DEFINE f == [v \in PageType |-> v.myHand \cap {c}]
  <2>1. f \in Facets
    BY DEF Facets, HandFacets
  <2>2. \A v \in Started : f[v] = v.myHand \cap {c}
    BY DEF Started
  <2>3. \A v \in Started : c \in v.myHand <=> f[v] = {c}
    BY <2>2
  <2> HIDE DEF f
  <2>4. Shows(P, messages) = PP
    BY <1>1, <1>4, <1>5
  <2>5. CASE \A v \in Started : f[Shows(v, messages)] = f[v]
    <3>1. f[shown] = f[w] /\ f[PP] = f[P]
      BY <1>4, <1>6, <2>4, <2>5
    <3> QED BY <2>3, <3>1
  <2>6. CASE \A v, u \in Started : f[Shows(v, messages)] = f[Shows(u, messages)]
    <3>1. f[shown] = f[PP]
      BY <1>4, <1>6, <2>4, <2>6
    <3> QED BY <2>3, <3>1
  <2> QED BY <1>1, <2>1, <2>5, <2>6, FacetShown
<1>9. P.myHand = HandOnPage /\ PP.myHand = HandOnPage'
  BY <1>2, <1>3, <1>4, <1>5
<1>10. P.myHand \subseteq w.myHand /\ w.myHand \subseteq Held
       /\ Cardinality(w.myHand \ P.myHand) <= 1
  BY <1>9 DEF ButOne
<1>11. PP.myHand \subseteq shown.myHand
  BY <1>7, <1>8, <1>10
<1>12. shown.myHand \subseteq Held'
  <2>1. PP.myHand \subseteq Held'
    BY <1>9 DEF HandOnPage, Held
  <2>2. ASSUME NEW c \in shown.myHand, c \notin PP.myHand PROVE c \in Held'
    <3>1. c \in Pack /\ c \in w.myHand /\ c \in Held
      BY <1>7, <1>8, <1>10, <2>2
    <3>2. c \in Held' \/ (\A v \in PageType :
              c \in Shows(v, messages).myHand => c \in state'.hand[Me])
      BY <1>1, <3>1 DEF KeepsTrack, Held
    <3>3. w \in PageType
      BY DEF Started
    <3> QED BY <1>6, <2>2, <3>2, <3>3 DEF Held
  <2> QED BY <2>1, <2>2
<1>13. Cardinality(shown.myHand \ PP.myHand) <= 1
  <2>1. shown.myHand \ PP.myHand \subseteq w.myHand \ P.myHand
    BY <1>7, <1>8
  <2>2. IsFiniteSet(w.myHand \ P.myHand)
    <3>1. w.myHand \ P.myHand \in SUBSET Pack
      BY <1>7
    <3> QED BY <3>1, CardsFinite
  <2>3. Cardinality(shown.myHand \ PP.myHand) <= Cardinality(w.myHand \ P.myHand)
    BY <2>1, <2>2, FS_Subset
  <2>4. /\ Cardinality(w.myHand \ P.myHand) \in Nat
        /\ Cardinality(shown.myHand \ PP.myHand) \in Nat
    BY <2>1, <2>2, FS_Subset, FS_CardinalityType
  <2> QED BY <1>10, <2>3, <2>4
<1> QED BY <1>6, <1>9, <1>11, <1>12, <1>13 DEF ButOne

\* A page that shows the hand of the game shows it still, but for the card of a
\* pending choice, once the messages under way have come.
LEMMA HandOfNow ==
    ASSUME FlowInv, Fits(queue, Projection), queue \in Seq(Messages),
           NEW v \in Started, v.myHand = state.hand[Me]
    PROVE  RightHandButOne(Shows(v, queue).myHand)
<1>1. PICK P \in Started : P = Projection /\ P.myHand = HandOnPage
  BY ProjectionStarted
<1>2. PICK shown \in Started : shown = Shows(v, queue)
  BY StartedStays
<1>3. P.myHand \subseteq Pack /\ shown.myHand \subseteq Pack /\ v.myHand \subseteq Pack
  BY DEF Started, PageType
<1>4. ASSUME NEW c \in Pack, c \in v.myHand <=> c \in P.myHand
      PROVE  c \in shown.myHand <=> c \in P.myHand
  <2> DEFINE f == [u \in PageType |-> u.myHand \cap {c}]
  <2>1. f \in Facets
    BY DEF Facets, HandFacets
  <2>2. \A u \in Started : f[u] = u.myHand \cap {c}
    BY DEF Started
  <2>3. \A u \in Started : c \in u.myHand <=> f[u] = {c}
    BY <2>2
  <2>4. f[v] = f[P]
    BY <1>4, <2>2
  <2> HIDE DEF f
  <2>5. Fits(queue, P)
    BY <1>1
  <2>6. f[Shows(v, queue)] = f[P]
    BY <2>1, <2>4, <2>5, FittingShows
  <2> QED BY <1>2, <2>3, <2>6
<1>5. P.myHand \subseteq v.myHand /\ v.myHand \ P.myHand \subseteq {pendingCardID}
  BY <1>1 DEF HandOnPage
<1>6. P.myHand \subseteq shown.myHand
  BY <1>3, <1>4, <1>5
<1>7. shown.myHand \subseteq v.myHand
  BY <1>3, <1>4, <1>5
<1>8. shown.myHand \ P.myHand \subseteq {pendingCardID}
  BY <1>5, <1>7
<1>9. Cardinality(shown.myHand \ P.myHand) <= 1
  <2>1. IsFiniteSet({pendingCardID}) /\ Cardinality({pendingCardID}) = 1
    BY FS_Singleton
  <2>2. /\ Cardinality(shown.myHand \ P.myHand) <= Cardinality({pendingCardID})
    BY <1>8, <2>1, FS_Subset
  <2> QED BY <2>1, <2>2
<1> QED BY <1>1, <1>2, <1>6, <1>7, <1>9 DEF RightHandButOne

\* Pages with the same public fields are alike.
LEMMA SameFieldsAlike ==
    ASSUME NEW v \in Started, NEW w \in Started,
           v.current = w.current, v.totalScore = w.totalScore,
           v.capturedCount = w.capturedCount, DOMAIN v.table = DOMAIN w.table
    PROVE  Alike(v, w) /\ Alike(w, v)
<1>1. v \in PageType /\ w \in PageType
  BY DEF Started
<1>2. ASSUME NEW f \in PublicFacets PROVE f[v] = f[w]
  <2>1. CASE f = [u \in PageType |-> u.current]
    BY <1>1, <2>1
  <2>2. CASE f = [u \in PageType |-> u.totalScore]
    BY <1>1, <2>2
  <2>3. ASSUME NEW j \in Seats, f = [u \in PageType |-> u.capturedCount[j]]
        PROVE  f[v] = f[w]
    BY <1>1, <2>3
  <2>4. ASSUME NEW c \in Pack, f = [u \in PageType |-> DOMAIN u.table \cap {c}]
        PROVE  f[v] = f[w]
    BY <1>1, <2>4
  <2> QED BY <2>1, <2>2, <2>3, <2>4 DEF PublicFacets
<1> QED BY <1>2 DEF Alike

\* The first half of a snapshot puts everything public right, on any page.
LEMMA SnapshotIsAlike ==
    ASSUME FlowInv, state.phase = "playing", NEW v \in PageType
    PROVE  Alike(applyServerMessage(v, GameStarted(state)), Projection)
<1> DEFINE m == GameStarted(state)
<1>1. state \in GameType
  BY DEF FlowInv, FlowTypeOK
<1>2. /\ m \in Starts /\ m \in Messages
      /\ m.state.current = state.currentPlayerIndex
      /\ m.state.totalScore = state.totalScore
      /\ m.state.capturedCount = CapturedCounts(state)
      /\ m.state.table = state.tableCards
  <2>1. m \in Starts
    BY <1>1, StartIsAMessage
  <2> QED BY <2>1 DEF Messages, GameStarted, ToClientState
<1> HIDE DEF m
<1>3. PICK w \in PageType : w = applyServerMessage(v, m)
  BY <1>2, PageStays
<1>4. w = OnGameStarted(v, m)
  BY <1>2, <1>3, ReducerCases
<1>5. /\ w.started = TRUE /\ w.current = state.currentPlayerIndex
      /\ w.totalScore = state.totalScore
      /\ w.capturedCount = CapturedCounts(state)
      /\ w.table = SetToBag(state.tableCards)
  BY <1>2, <1>4 DEF OnGameStarted, PageType
<1>6. PICK P \in Started : P = Projection
  BY ProjectionStarted
<1>7. /\ P.current = state.currentPlayerIndex
      /\ P.totalScore = state.totalScore
      /\ P.capturedCount = CapturedCounts(state)
      /\ P.table = SetToBag(state.tableCards)
  BY <1>6 DEF Projection, CurrentPlayer
<1>8. w \in Started
  BY <1>3, <1>5 DEF Started
<1>9. Alike(w, P)
  BY <1>5, <1>6, <1>7, <1>8, SameFieldsAlike
<1> QED BY <1>3, <1>6, <1>9 DEF m

\* The second half changes nothing public.
LEMMA HandIsPrivate ==
    ASSUME NEW v \in Started, NEW cards \in SUBSET Pack
    PROVE  LET w == applyServerMessage(v, HandDealt(cards, 0))
           IN w \in Started /\ w.myHand = cards /\ Alike(w, v)
<1> DEFINE m == HandDealt(cards, 0)
           w == applyServerMessage(v, m)
<1>1. m \in Hands /\ m \in Messages /\ m.cards = cards
  <2>1. m \in Hands
    BY HandIsAMessage
  <2> QED BY <2>1 DEF Messages, HandDealt
<1> HIDE DEF m
<1>2. /\ w \in Started /\ w.myHand = cards
      /\ w.current = v.current /\ w.totalScore = v.totalScore
      /\ w.capturedCount = v.capturedCount /\ w.table = v.table
  BY <1>1, Effects
<1> HIDE DEF w
<1>3. Alike(w, v)
  BY <1>2, SameFieldsAlike
<1> QED BY <1>2, <1>3 DEF w, m

\* Alike with messages under way that fit.
LEMMA AlikeFits ==
    ASSUME NEW q \in Seq(Messages), NEW T, Fits(q, T), NEW v, Alike(v, T)
    PROVE  Alike(Shows(v, q), T)
<1>1. v \in Started /\ \A f \in PublicFacets : f \in Facets /\ f[v] = f[T]
  BY DEF Alike, Facets
<1>2. \A f \in PublicFacets : f[Shows(v, q)] = f[T]
  BY <1>1, FittingShows
<1>3. Shows(v, q) \in Started
  BY <1>1, StartedStays
<1> QED BY <1>2, <1>3 DEF Alike

\* A change of the page that nobody else can see changes nothing public later.
LEMMA AlikeStays ==
    ASSUME NEW q \in Seq(Messages), NEW T, NEW v, NEW w \in Started,
           Alike(w, v), v \in Started, Alike(Shows(v, q), T)
    PROVE  Alike(Shows(w, q), T)
<1>1. \A f \in PublicFacets : f \in Facets /\ f[w] = f[v] /\ f[Shows(v, q)] = f[T]
  BY DEF Alike, Facets
<1>2. \A f \in PublicFacets : f[Shows(w, q)] = f[Shows(v, q)]
  BY <1>1, StayAlike
<1>3. Shows(w, q) \in Started
  BY StartedStays
<1> QED BY <1>1, <1>2, <1>3 DEF Alike

-------------------------------------------------------------------------------
\* What is known of the page at each stage of a reconnect, as long as the link is
\* up: what the messages under way will make of it, once the snapshot that has
\* been read is written.
AtRest == Alike(Awaited, Projection) /\ RightHandButOne(Awaited.myHand)

StateUnderWay ==
    \A v \in PageType :
        Alike(Shows(applyServerMessage(v, handshake.msg), queue), Projection)

BetweenTheTwo == view \in Started /\ Alike(Awaited, Projection)

HandUnderWay ==
    \A v \in Started :
        RightHandButOne(
            Shows(applyServerMessage(v, HandDealt(handshake.cards, 0)), queue).myHand)

SnapshotInv ==
    trust # "none" /\ state.phase = "playing" =>
        /\ Fits(queue, Projection)
        /\ link = "up" =>
               /\ handshake.at = "idle" => AtRest
               /\ handshake.at = "state" => StateUnderWay
               /\ handshake.at = "between" => BetweenTheTwo
               /\ handshake.at = "hand" => BetweenTheTwo /\ HandUnderWay

\* A handler's messages are appended.
LEMMA HandlersKeepSnapshots ==
    ASSUME FlowInv, FlowInv', LinkInv, SnapshotInv, NEW messages, Handles(messages)
    PROVE  SnapshotInv'
<1> SUFFICES ASSUME trust' # "none", state'.phase = "playing"
             PROVE  /\ Fits(queue', Projection')
                    /\ link' = "up" =>
                         /\ handshake'.at = "idle" => AtRest'
                         /\ handshake'.at = "state" => StateUnderWay'
                         /\ handshake'.at = "between" => BetweenTheTwo'
                         /\ handshake'.at = "hand" => BetweenTheTwo' /\ HandUnderWay'
  BY DEF SnapshotInv
<1>1. /\ Carries(messages) /\ messages \in Seq(Messages) /\ sendTo(messages)
      /\ UNCHANGED <<view, link, handshake>>
      /\ state.phase = "playing" /\ Shows(Projection, messages) = Projection'
  BY DEF Handles, Carries, connVars
<1>2. queue' = queue \o messages /\ trust # "none"
  BY <1>1, SendingKeeps
<1>3. queue \in Seq(Messages) /\ view \in PageType
  BY DEF LinkInv
<1>4. PICK P \in Started : P = Projection
  BY ProjectionStarted
<1> HIDE DEF Projection
<1>5. Fits(queue', Projection')
  <2>1. Fits(queue, P)
    BY <1>1, <1>2, <1>4 DEF SnapshotInv
  <2>2. Fits(queue \o messages, Shows(P, messages))
    BY <1>1, <1>3, <2>1, MoreFit
  <2> QED BY <1>1, <1>2, <1>4, <2>2
<1>6. \A v : Shows(v, queue') = Shows(Shows(v, queue), messages)
  BY <1>1, <1>2, <1>3, ShowsInTurn
<1>7. Awaited = Shows(view, queue) /\ Awaited' = Shows(Awaited, messages)
  BY <1>1, <1>6 DEF Awaited, Shows
<1> HIDE DEF Awaited
<1>8. ASSUME Alike(Awaited, Projection) PROVE Alike(Awaited', Projection')
  BY <1>1, <1>7, <1>8, AlikeCarried
<1>9. ASSUME NEW w \in Started, RightHandButOne(w.myHand)
      PROVE  ButOne(Shows(w, messages).myHand, HandOnPage', Held')
  <2>1. ButOne(w.myHand, HandOnPage, Held)
    BY <1>9, RightIsButOne
  <2> QED BY <1>1, <2>1, HandCarried
<1>10. ASSUME link' = "up", handshake'.at = "idle" PROVE AtRest'
  <2>1. AtRest
    BY <1>1, <1>2, <1>10 DEF SnapshotInv
  <2>2. Awaited \in Started /\ RightHandButOne(Awaited.myHand)
    BY <2>1 DEF AtRest, Alike
  <2>3. ButOne(Awaited'.myHand, HandOnPage', Held')
    BY <1>7, <1>9, <2>2
  <2>4. RightHandButOne(Awaited.myHand)'
    BY <2>3 DEF RightHandButOne, ButOne, Held
  <2>5. Alike(Awaited', Projection')
    BY <1>8, <2>1 DEF AtRest
  <2> QED BY <2>4, <2>5 DEF AtRest, Alike, Started
<1>11. ASSUME link' = "up", handshake'.at = "state" PROVE StateUnderWay'
  <2>1. StateUnderWay
    BY <1>1, <1>2, <1>11 DEF SnapshotInv
  <2>2. ASSUME NEW v \in PageType
        PROVE  Alike(Shows(applyServerMessage(v, handshake.msg), queue'), Projection')
    <3>1. Alike(Shows(applyServerMessage(v, handshake.msg), queue), Projection)
      BY <2>1 DEF StateUnderWay
    <3>2. Alike(Shows(Shows(applyServerMessage(v, handshake.msg), queue), messages),
                Projection')
      BY <1>1, <3>1, AlikeCarried
    <3> QED BY <1>6, <3>2
  <2> QED BY <1>1, <2>2 DEF StateUnderWay, Alike
<1>12. ASSUME link' = "up", BetweenTheTwo PROVE BetweenTheTwo'
  BY <1>1, <1>8, <1>12 DEF BetweenTheTwo, Alike
<1>13. ASSUME link' = "up", handshake'.at = "hand" PROVE HandUnderWay'
  <2>1. HandUnderWay /\ handshake.cards \in SUBSET Pack
    <3>1. handshake.at = "hand"
      BY <1>1, <1>13
    <3>2. handshake.cards \in SUBSET Pack
      BY <3>1 DEF LinkInv, Handshakes, NotReconnecting
    <3> QED BY <1>1, <1>2, <1>13, <3>2 DEF SnapshotInv
  <2>2. ASSUME NEW v \in Started
        PROVE  ButOne(Shows(applyServerMessage(v, HandDealt(handshake.cards, 0)), queue').myHand,
                      HandOnPage', Held')
    <3>1. PICK w \in Started : w = applyServerMessage(v, HandDealt(handshake.cards, 0))
      BY <2>1, HandIsPrivate
    <3>2. PICK u \in Started : u = Shows(w, queue)
      BY <1>3, StartedStays
    <3>3. RightHandButOne(u.myHand)
      BY <2>1, <3>1, <3>2 DEF HandUnderWay
    <3>4. ButOne(Shows(u, messages).myHand, HandOnPage', Held')
      BY <1>9, <3>3
    <3> QED BY <1>6, <3>1, <3>2, <3>4
  <2> QED BY <1>1, <2>2 DEF HandUnderWay, RightHandButOne, ButOne, Held
<1>14. link' = link /\ handshake' = handshake
  BY <1>1
<1>15. link' = "up" =>
           /\ handshake'.at = "between" => BetweenTheTwo
           /\ handshake'.at = "hand" => BetweenTheTwo
  BY <1>1, <1>2, <1>14 DEF SnapshotInv
<1> QED BY <1>5, <1>10, <1>11, <1>12, <1>13, <1>15

\* A step that changes neither the game nor what is on its way.
LEMMA NothingChanges ==
    ASSUME SnapshotInv, UNCHANGED flowVars, UNCHANGED <<view, queue>>,
           trust' # "none" => trust # "none",
           link' = "up" => link = "up" /\ handshake' = handshake
    PROVE  SnapshotInv'
<1>1. /\ Projection' = Projection /\ state' = state /\ HandOnPage' = HandOnPage
      /\ state'.hand = state.hand /\ state'.captured = state.captured
  BY DEF flowVars, Projection, HandOnPage, CurrentPlayer
<1>2. Awaited' = Awaited
  BY DEF Awaited
<1>3. Fits(queue, Projection) => Fits(queue', Projection')
  BY <1>1
<1>4. AtRest => AtRest'
  <2>1. RightHandButOne(Awaited.myHand) => RightHandButOne(Awaited.myHand)'
    BY <1>1, <1>2 DEF RightHandButOne
  <2>2. Alike(Awaited, Projection) => Alike(Awaited', Projection')
    BY <1>1, <1>2
  <2> HIDE DEF Awaited, Projection
  <2> QED BY <2>1, <2>2 DEF AtRest, Alike
<1>5. BetweenTheTwo => BetweenTheTwo'
  <2>1. Alike(Awaited, Projection) => Alike(Awaited', Projection')
    BY <1>1, <1>2
  <2> QED BY <2>1 DEF BetweenTheTwo, Alike
<1> HIDE DEF Awaited, Projection
<1>6. ASSUME handshake' = handshake
      PROVE  /\ StateUnderWay => StateUnderWay'
             /\ HandUnderWay => HandUnderWay'
  BY <1>1, <1>6 DEF StateUnderWay, HandUnderWay, Alike, RightHandButOne
<1> QED BY <1>1, <1>3, <1>4, <1>5, <1>6 DEF SnapshotInv

\* A message taken from the channel and written, or lost with the link.
LEMMA WritesKeepSnapshots ==
    ASSUME FlowInv, LinkInv, SnapshotInv, UNCHANGED flowVars, NEW k \in Conns, Write(k)
    PROVE  SnapshotInv'
<1> SUFFICES ASSUME trust' # "none", state'.phase = "playing"
             PROVE  /\ Fits(queue', Projection')
                    /\ link' = "up" =>
                         /\ handshake'.at = "idle" => AtRest'
                         /\ handshake'.at = "state" => StateUnderWay'
                         /\ handshake'.at = "between" => BetweenTheTwo'
                         /\ handshake'.at = "hand" => BetweenTheTwo' /\ HandUnderWay'
  BY DEF SnapshotInv
<1>1. /\ Projection' = Projection /\ state' = state /\ HandOnPage' = HandOnPage
  BY DEF flowVars, Projection, HandOnPage, CurrentPlayer
<1>2. /\ trust # "none" /\ queue # << >> /\ queue' = Tail(queue)
      /\ UNCHANGED <<link, handshake>>
  BY DEF Write, Followed, connVars
<1>3. queue \in Seq(Messages) /\ Head(queue) \in Messages
  BY <1>2, HeadTailProperties DEF LinkInv
<1>4. Fits(queue', Projection')
  <2>1. Fits(queue, Projection)
    BY <1>1, <1>2 DEF SnapshotInv
  <2> HIDE DEF Projection
  <2> QED BY <1>1, <1>2, <2>1, RestFits
<1>5. ASSUME link = "up"
      PROVE  /\ handshake.at \notin {"state", "hand"}
             /\ view' = applyServerMessage(view, Head(queue))
             /\ Awaited' = Awaited
  BY <1>5, WritingShows DEF Write
<1>6. ASSUME link = "up", handshake.at = "idle" PROVE AtRest'
  <2>1. AtRest /\ Awaited' = Awaited
    BY <1>1, <1>2, <1>5, <1>6 DEF SnapshotInv
  <2>2. RightHandButOne(Awaited.myHand)'
    BY <1>1, <2>1 DEF RightHandButOne, AtRest
  <2>3. Alike(Awaited', Projection')
    BY <1>1, <2>1 DEF AtRest
  <2> HIDE DEF Awaited, Projection
  <2> QED BY <2>2, <2>3 DEF AtRest, Alike
<1>7. ASSUME link = "up", handshake.at = "between" PROVE BetweenTheTwo'
  <2>1. BetweenTheTwo /\ Awaited' = Awaited
    BY <1>1, <1>2, <1>5, <1>7 DEF SnapshotInv
  <2>2. view' \in Started
    BY <1>3, <1>5, <1>7, <2>1, Effects DEF BetweenTheTwo
  <2>3. Alike(Awaited', Projection')
    BY <1>1, <2>1 DEF BetweenTheTwo
  <2> HIDE DEF Awaited, Projection
  <2> QED BY <2>2, <2>3 DEF BetweenTheTwo, Alike
<1> HIDE DEF Projection
<1> QED BY <1>2, <1>4, <1>5, <1>6, <1>7

\* The handshake, from one stage to the next.
LEMMA ReconnectingKeepsSnapshots ==
    ASSUME FlowInv, LinkInv, SnapshotInv, UNCHANGED flowVars, Reconnecting
    PROVE  SnapshotInv'
<1> SUFFICES ASSUME trust' # "none", state'.phase = "playing"
             PROVE  /\ Fits(queue', Projection')
                    /\ link' = "up" =>
                         /\ handshake'.at = "idle" => AtRest'
                         /\ handshake'.at = "state" => StateUnderWay'
                         /\ handshake'.at = "between" => BetweenTheTwo'
                         /\ handshake'.at = "hand" => BetweenTheTwo' /\ HandUnderWay'
  BY DEF SnapshotInv
<1>1. /\ Projection' = Projection /\ state' = state /\ HandOnPage' = HandOnPage
  BY DEF flowVars, Projection, HandOnPage, CurrentPlayer
<1>2. /\ UNCHANGED <<queue, link, trust>>
      /\ queue \in Seq(Messages) /\ view \in PageType
  BY DEF Reconnecting, ClientStateRead, ClientStateWritten, PlayerHandRead,
         PlayerHandWritten, LinkInv
<1>3. Fits(queue, Projection)
  BY <1>1, <1>2 DEF SnapshotInv
<1>4. Fits(queue', Projection')
  BY <1>1, <1>2, <1>3
<1>5. link = "up" =>
          /\ handshake.at = "state" => StateUnderWay
          /\ handshake.at = "between" => BetweenTheTwo
          /\ handshake.at = "hand" => BetweenTheTwo /\ HandUnderWay
  BY <1>1, <1>2 DEF SnapshotInv
<1>6. Awaited = Shows(view, queue) /\ Awaited' = Shows(view', queue)
  BY <1>2 DEF Awaited, Shows
<1> HIDE DEF Awaited, Projection
<1>7. CASE ClientStateRead
  <2>1. handshake'.at = "state" /\ handshake'.msg = GameStarted(state)
    BY <1>7 DEF ClientStateRead
  <2>2. ASSUME NEW v \in PageType
        PROVE  Alike(Shows(applyServerMessage(v, GameStarted(state)), queue), Projection)
    <3>1. Alike(applyServerMessage(v, GameStarted(state)), Projection)
      BY <1>1, SnapshotIsAlike
    <3> QED BY <1>2, <1>3, <3>1, AlikeFits
  <2>3. StateUnderWay'
    BY <1>1, <1>2, <2>1, <2>2 DEF StateUnderWay, Alike
  <2> QED BY <1>4, <2>1, <2>3
<1>8. CASE ClientStateWritten
  <2>1. handshake.at = "state" /\ handshake'.at = "between"
    BY <1>8 DEF ClientStateWritten
  <2>2. ASSUME link' = "up" PROVE BetweenTheTwo'
    <3>1. StateUnderWay /\ view' = applyServerMessage(view, handshake.msg)
      BY <1>2, <1>5, <1>8, <2>1, <2>2 DEF ClientStateWritten
    <3>2. Alike(Shows(view', queue), Projection)
      BY <1>2, <3>1 DEF StateUnderWay
    <3>3. Alike(Awaited', Projection')
      BY <1>1, <1>6, <3>2
    <3>4. view' \in Started
      <4>1. handshake.msg \in Starts
        BY <2>1 DEF LinkInv, Handshakes, NotReconnecting
      <4>2. view' = OnGameStarted(view, handshake.msg)
        BY <3>1, <4>1, ReducerCases
      <4>3. view'.started = TRUE
        BY <1>2, <4>2 DEF OnGameStarted, PageType
      <4>4. view' \in PageType
        BY <1>2, <3>1, <4>1, PageStays DEF Messages
      <4> QED BY <4>3, <4>4 DEF Started
    <3> QED BY <3>3, <3>4 DEF BetweenTheTwo, Alike
  <2> QED BY <1>4, <2>1, <2>2
<1>9. CASE PlayerHandRead
  <2>1. /\ handshake.at = "between" /\ handshake'.at = "hand"
        /\ handshake'.cards = state.hand[Me] /\ view' = view
    BY <1>9 DEF PlayerHandRead
  <2>2. ASSUME link' = "up" PROVE BetweenTheTwo' /\ HandUnderWay'
    <3>1. BetweenTheTwo
      BY <1>2, <1>5, <2>1, <2>2
    <3>2. BetweenTheTwo'
      BY <1>1, <1>6, <2>1, <3>1 DEF BetweenTheTwo, Alike
    <3>3. state.hand[Me] \in SUBSET Pack
      BY MeAssumption DEF FlowInv, FlowTypeOK, GameType
    <3>4. ASSUME NEW v \in Started
          PROVE  RightHandButOne(
                     Shows(applyServerMessage(v, HandDealt(state.hand[Me], 0)), queue).myHand)
      <4>1. PICK w \in Started : /\ w = applyServerMessage(v, HandDealt(state.hand[Me], 0))
                                 /\ w.myHand = state.hand[Me]
        BY <3>3, HandIsPrivate
      <4>2. RightHandButOne(Shows(w, queue).myHand)
        BY <1>2, <1>3, <4>1, HandOfNow
      <4> QED BY <4>1, <4>2
    <3>5. HandUnderWay'
      BY <1>1, <1>2, <2>1, <3>4 DEF HandUnderWay, RightHandButOne
    <3> QED BY <3>2, <3>5
  <2> QED BY <1>4, <2>1, <2>2
<1>10. CASE PlayerHandWritten
  <2>1. handshake.at = "hand" /\ handshake'.at = "idle"
    BY <1>10 DEF PlayerHandWritten, NotReconnecting
  <2>2. ASSUME link' = "up" PROVE AtRest'
    <3>1. BetweenTheTwo /\ HandUnderWay /\ link = "up"
      BY <1>2, <1>5, <2>1, <2>2
    <3>2. state.hand[Me] \in SUBSET Pack /\ handshake.cards \in SUBSET Pack
      BY <2>1, MeAssumption DEF FlowInv, FlowTypeOK, GameType, LinkInv, Handshakes,
                                NotReconnecting
    <3>3. PICK cards \in {handshake.cards, state.hand[Me]} :
              view' = applyServerMessage(view, HandDealt(cards, 0))
      BY <1>10, <3>1 DEF PlayerHandWritten
    <3>4. view \in Started /\ cards \in SUBSET Pack
      BY <3>1, <3>2 DEF BetweenTheTwo
    <3>5. PICK w \in Started : w = view' /\ w.myHand = cards /\ Alike(w, view)
      BY <3>3, <3>4, HandIsPrivate
    <3>6. Alike(Shows(view, queue), Projection)
      BY <1>6, <3>1 DEF BetweenTheTwo
    <3>7. Alike(Shows(w, queue), Projection)
      BY <1>2, <3>4, <3>5, <3>6, AlikeStays
    <3>8. RightHandButOne(Shows(w, queue).myHand)
      <4>1. CASE cards = handshake.cards
        BY <3>1, <3>3, <3>4, <3>5, <4>1 DEF HandUnderWay
      <4>2. CASE cards = state.hand[Me]
        BY <1>2, <1>3, <3>5, <4>2, HandOfNow
      <4> QED BY <4>1, <4>2
    <3>9. Awaited' = Shows(w, queue)
      BY <1>6, <3>5
    <3>10. RightHandButOne(Awaited.myHand)'
      BY <1>1, <3>8, <3>9 DEF RightHandButOne
    <3>11. Alike(Awaited', Projection')
      BY <1>1, <3>7, <3>9
    <3> QED BY <3>10, <3>11 DEF AtRest, Alike
  <2> QED BY <1>4, <2>1, <2>2
<1> QED BY <1>7, <1>8, <1>9, <1>10 DEF Reconnecting

\* A new connection has shown nothing yet.
LEMMA AttachingKeepsSnapshots ==
    ASSUME SnapshotInv, UNCHANGED flowVars, AttachConn
    PROVE  SnapshotInv'
<1>1. /\ Projection' = Projection /\ state' = state
  BY DEF flowVars, Projection, HandOnPage, CurrentPlayer
<1>2. /\ queue' = queue /\ trust # "none" /\ handshake'.at = "attached"
  BY DEF AttachConn, Followed
<1>3. state.phase = "playing" => Fits(queue', Projection')
  BY <1>1, <1>2 DEF SnapshotInv
<1> HIDE DEF Projection
<1> QED BY <1>1, <1>2, <1>3 DEF SnapshotInv

\* Every step keeps what is known of the page.
LEMMA SnapshotsStay ==
    FlowInv /\ LinkInv /\ SnapshotInv /\ [DeliveryNext]_deliveryVars => SnapshotInv'
<1> SUFFICES ASSUME FlowInv, LinkInv, SnapshotInv, [DeliveryNext]_deliveryVars
             PROVE  SnapshotInv'
  OBVIOUS
<1>1. ASSUME NEW messages, Handles(messages) PROVE SnapshotInv'
  BY <1>1, GameStaysSettled, HandlersKeepSnapshots
<1>2. ASSUME Elsewhere, UNCHANGED flowVars PROVE SnapshotInv'
  <2>1. ASSUME NEW k \in Conns, Write(k) PROVE SnapshotInv'
    BY <1>2, <2>1, WritesKeepSnapshots
  <2>2. ASSUME NEW k \in Conns, Stop(k) PROVE SnapshotInv'
    <3>1. /\ UNCHANGED <<view, queue>> /\ handshake' = handshake
          /\ link' = IF k = cur THEN "cut" ELSE link
          /\ trust # "none"
      BY <2>2 DEF Stop, Followed
    <3> QED BY <1>2, <3>1, NothingChanges
  <2>3. ASSUME NEW k \in Conns, Disconnect(k) PROVE SnapshotInv'
    <3>1. UNCHANGED <<view, queue>> /\ handshake' = handshake /\ link' = link /\ trust # "none"
      BY <2>3 DEF Disconnect, Followed
    <3> QED BY <1>2, <3>1, NothingChanges
  <2>4. CASE Cut
    <3>1. UNCHANGED <<view, queue>> /\ handshake' = handshake /\ link' = "cut" /\ trust # "none"
      BY <2>4 DEF Cut, Followed
    <3> QED BY <1>2, <3>1, NothingChanges
  <2>5. CASE AttachConn
    BY <1>2, <2>5, AttachingKeepsSnapshots
  <2>6. CASE Reconnecting
    BY <1>2, <2>6, ReconnectingKeepsSnapshots
  <2>7. CASE UNCHANGED deliveryVars
    <3>1. UNCHANGED <<view, queue>> /\ handshake' = handshake /\ link' = link /\ trust' = trust
      BY <2>7 DEF deliveryVars, connVars
    <3> QED BY <1>2, <3>1, NothingChanges
  <2> QED BY <1>2, <2>1, <2>2, <2>3, <2>4, <2>5, <2>6, <2>7 DEF Elsewhere
<1> QED BY <1>1, <1>2, TwoKindsOfSteps

\* It is known when the game is announced.
LEMMA FirstSnapshot ==
    FlowInv /\ LinkInv /\ MessagesCarryTheGame /\ DeliveryInit => SnapshotInv
<1> SUFFICES ASSUME FlowInv, LinkInv, MessagesCarryTheGame, DeliveryInit PROVE SnapshotInv
  OBVIOUS
<1>1. /\ pendingCapture = {} /\ queue = StartMessages(state) /\ trust = "all"
      /\ handshake.at = "idle" /\ queue \in Seq(Messages)
  BY DEF DeliveryInit, FlowInit, LinkInv, NotReconnecting
<1>2. state \in GameType /\ state.phase = "playing" /\ state.tablas = [i \in Seats |-> 0]
  BY FirstGame DEF DeliveryInit
<1>3. PICK P \in Started : P = Projection /\ P.myHand = HandOnPage
  BY ProjectionStarted
<1>4. Fits(queue, P)
  <2>1. P = PageOf(state, {}, pendingCardID) /\ P \in PageType
    BY <1>1, <1>3, ProjectionIsPage DEF Started
  <2>2. Shows(P, queue) = P
    BY <1>1, <1>2, <2>1, RoundIsShown
  <2>3. PICK e \in Seq(Messages) : e = << >>
    BY EmptySeq
  <2>4. Fits(e, P)
    BY <2>3, NothingFits
  <2>5. Fits(e \o queue, Shows(P, queue))
    BY <1>1, <2>4, MoreFit
  <2>6. e \o queue = queue
    BY <1>1, <2>3, ConcatEmptySeq
  <2> QED BY <2>2, <2>5, <2>6
<1>5. Awaited = P
  BY <1>1, <1>2, <1>3 DEF MessagesCarryTheGame
<1> HIDE DEF Awaited, Projection
<1>6. Alike(Awaited, Projection)
  BY <1>3, <1>5 DEF Alike
<1>7. RightHandButOne(Awaited.myHand)
  <2>1. HandOnPage \subseteq state.hand[Me] \cup state.captured[Me]
    BY DEF HandOnPage
  <2>2. HandOnPage \ HandOnPage = {}
    OBVIOUS
  <2>3. Cardinality(HandOnPage \ HandOnPage) <= 1
    BY <2>2, FS_EmptySet
  <2> QED BY <1>3, <1>5, <2>1, <2>3 DEF RightHandButOne
<1> QED BY <1>1, <1>3, <1>4, <1>6, <1>7 DEF SnapshotInv, AtRest

\* What is known of a page at rest is what a settled page is to show.
LEMMA AtRestSettles == FlowInv /\ LinkInv /\ SnapshotInv => SnapshotSettles
<1> SUFFICES ASSUME FlowInv, LinkInv, SnapshotInv,
                    trust # "none", link = "up", handshake = NotReconnecting,
                    state.phase = "playing"
             PROVE  /\ Awaited.started
                    /\ RightHandButOne(Awaited.myHand)
                    /\ Awaited.current = CurrentPlayer
                    /\ BagToSet(Awaited.table) = state.tableCards
                    /\ CountsAndScores(Awaited) = Standings(state)
  BY DEF SnapshotSettles
<1>1. Alike(Awaited, Projection) /\ RightHandButOne(Awaited.myHand)
  BY DEF SnapshotInv, AtRest, NotReconnecting
<1>2. PICK w \in Started : w = Awaited
  BY <1>1 DEF Alike
<1>3. PICK P \in Started : P = Projection
  BY ProjectionStarted
<1>4. /\ P.current = CurrentPlayer /\ P.totalScore = state.totalScore
      /\ P.capturedCount = CapturedCounts(state) /\ P.table = SetToBag(state.tableCards)
  BY <1>3 DEF Projection
<1>5. \A f \in PublicFacets : f[w] = f[P]
  BY <1>1, <1>2, <1>3 DEF Alike
<1> HIDE DEF Awaited, Projection
<1>6. w \in PageType /\ P \in PageType /\ w.started = TRUE
  BY DEF Started
<1>7. w.current = P.current
  <2> DEFINE f == [v \in PageType |-> v.current]
  <2>1. f[w] = f[P]
    BY <1>5 DEF PublicFacets
  <2> QED BY <1>6, <2>1
<1>8. w.totalScore = P.totalScore
  <2> DEFINE f == [v \in PageType |-> v.totalScore]
  <2>1. f[w] = f[P]
    BY <1>5 DEF PublicFacets
  <2> QED BY <1>6, <2>1
<1>9. w.capturedCount = P.capturedCount
  <2>1. ASSUME NEW j \in Seats PROVE w.capturedCount[j] = P.capturedCount[j]
    <3> DEFINE f == [v \in PageType |-> v.capturedCount[j]]
    <3>1. f[w] = f[P]
      BY <1>5 DEF PublicFacets
    <3> QED BY <1>6, <3>1
  <2>2. w.capturedCount \in [Seats -> Nat] /\ P.capturedCount \in [Seats -> Nat]
    BY <1>6 DEF PageType
  <2> QED BY <2>1, <2>2
<1>10. DOMAIN w.table = state.tableCards
  <2>1. ASSUME NEW c \in Pack PROVE c \in DOMAIN w.table <=> c \in DOMAIN P.table
    <3> DEFINE f == [v \in PageType |-> DOMAIN v.table \cap {c}]
    <3>1. f[w] = f[P]
      BY <1>5 DEF PublicFacets
    <3>2. DOMAIN w.table \cap {c} = DOMAIN P.table \cap {c}
      BY <1>6, <3>1
    <3> QED BY <3>2
  <2>2. DOMAIN w.table \subseteq Pack /\ DOMAIN P.table \subseteq Pack
    BY <1>6, TablesStay DEF PageType
  <2>3. DOMAIN P.table = state.tableCards
    <3>1. state.tableCards \in SUBSET Pack
      BY DEF FlowInv, FlowTypeOK, GameType
    <3> QED BY <1>4, <3>1, TableOfSet
  <2> QED BY <2>1, <2>2, <2>3
<1>11. Standings(state) = <<CapturedCounts(state), state.totalScore>>
  BY DEF Standings, TotalsAfterRound
<1>12. CountsAndScores(w) = Standings(state)
  BY <1>4, <1>8, <1>9, <1>11 DEF CountsAndScores
<1>13. BagToSet(w.table) = state.tableCards
  BY <1>10 DEF BagToSet
<1> QED BY <1>1, <1>2, <1>4, <1>6, <1>7, <1>12, <1>13

\* After a reconnect the older messages come after the newer snapshot, and still the
\* page settles on the right turn, table, counts and scores, and on the right hand
\* but for the card of a choice that was pending: in every facet the last message
\* under way that says anything says what the game is.
THEOREM SnapshotsSettle == DeliverySpec => []SnapshotSettles
<1> DEFINE Inv == FlowInv /\ LinkInv /\ SnapshotInv
<1>1. DeliveryInit => Inv
  BY InitSettles, LinkInit, FirstPage, FirstSnapshot DEF DeliveryInit
<1>2. Inv /\ [DeliveryNext]_deliveryVars => Inv'
  BY GameStaysSettled, LinkStep, SnapshotsStay
<1>3. Inv => SnapshotSettles
  BY AtRestSettles
<1> QED BY <1>1, <1>2, <1>3, PTL DEF DeliverySpec
-------------------------------------------------------------------------------
(***************************************************************************)
(* That what lets the player move is shown or still on its way.  The       *)
(* newest connection has its write loop as long as it is up; the turn is   *)
(* told last, so with nothing left to write it has been shown; and a       *)
(* snapshot, whose hand does not go with any turn, enables the hand by the *)
(* turn that the page knows.                                               *)
(***************************************************************************)
TurnIsTold ==
    trust # "none" /\ state.phase = "playing" /\ pendingCapture = {} =>
        /\ queue # << >> => EndsWith(queue, TurnStart(CurrentPlayer))
        /\ queue = << >> /\ link = "up" /\ handshake = NotReconnecting =>
               view.handEnabled = (CurrentPlayer = Me)

MoveInv ==
    /\ link = "up" => loop[cur] = cur
    /\ handshake # NotReconnecting => cur \notin readers
    /\ TurnIsTold

\* With nothing under way the page shows what it is to show.
LEMMA NothingUnderWay ==
    /\ queue = << >> => Awaited = view
    /\ queue' = << >> => Awaited' = view'
  BY AwaitedAfterwards, ShowsNothing DEF Awaited, Shows

\* A page at rest knows whose turn it is.
LEMMA TurnIsKnown ==
    ASSUME SnapshotSettles, queue = << >>, trust # "none", link = "up",
           handshake = NotReconnecting, state.phase = "playing"
    PROVE  view.started /\ view.current = CurrentPlayer
  BY NothingUnderWay DEF SnapshotSettles

\* It holds when the game is announced.
LEMMA FirstTurnIsTold == FlowInv /\ LinkInv /\ DeliveryInit => MoveInv
<1> SUFFICES ASSUME FlowInv, LinkInv, DeliveryInit PROVE MoveInv
  OBVIOUS
<1>1. /\ queue = StartMessages(state) /\ cur = 1 /\ handshake = NotReconnecting
      /\ loop = [k \in Conns |-> IF k = 1 THEN 1 ELSE NoLoop]
  BY DEF DeliveryInit
<1>2. loop[cur] = cur
  BY <1>1 DEF LinkInv
<1>3. EndsWith(queue, TurnStart(CurrentPlayer))
  BY <1>1, StartEndsInATurn DEF CurrentPlayer
<1>4. queue # << >>
  BY <1>3, EmptySeq DEF EndsWith
<1> QED BY <1>1, <1>2, <1>3, <1>4 DEF MoveInv, TurnIsTold

\* A handler tells the turn, unless it offers a choice.
LEMMA HandlersTellTheTurn ==
    ASSUME LinkInv, MoveInv, NEW messages, Handles(messages)
    PROVE  MoveInv'
<1>1. /\ messages \in Seq(Messages) /\ sendTo(messages)
      /\ UNCHANGED <<cur, link, readers, handshake, loop>>
      /\ state'.phase = "playing" /\ pendingCapture' = {} =>
             EndsWith(messages, TurnStart(CurrentPlayer'))
  BY DEF Handles, Carries, connVars
<1>2. trust' # "none" => queue' = queue \o messages
  BY <1>1, SendingKeeps
<1>3. ASSUME trust' # "none", state'.phase = "playing", pendingCapture' = {}
      PROVE  EndsWith(queue', TurnStart(CurrentPlayer'))
  <2>1. PICK m : m = TurnStart(CurrentPlayer') /\ EndsWith(messages, m)
    BY <1>1, <1>3
  <2>2. queue \in Seq(Messages)
    BY DEF LinkInv
  <2>3. EndsWith(queue \o messages, m)
    BY <1>1, <2>1, <2>2, EndStays
  <2> QED BY <1>2, <1>3, <2>1, <2>3
<1>4. ASSUME EndsWith(queue', TurnStart(CurrentPlayer')) PROVE queue' # << >>
  BY <1>4, EmptySeq DEF EndsWith
<1>5. TurnIsTold'
  BY <1>3, <1>4 DEF TurnIsTold
<1> QED BY <1>1, <1>5 DEF MoveInv

\* The last message that is written is that of the turn.
LEMMA WritesTellTheTurn ==
    ASSUME LinkInv, MoveInv, SnapshotSettles', UNCHANGED flowVars,
           NEW k \in Conns, Write(k)
    PROVE  MoveInv'
<1>1. /\ queue \in Seq(Messages) /\ queue # << >> /\ queue' = Tail(queue)
      /\ UNCHANGED <<cur, link, readers, handshake>> /\ trust # "none"
      /\ link = "up" => /\ view' = applyServerMessage(view, Head(queue))
                        /\ loop' = [loop EXCEPT ![k] = cur]
  BY DEF Write, Followed, connVars, LinkInv
<1>2. /\ state' = state /\ pendingCapture' = pendingCapture
      /\ CurrentPlayer' = CurrentPlayer
  BY DEF flowVars, CurrentPlayer
<1>3. link' = "up" => loop'[cur'] = cur'
  BY <1>1 DEF LinkInv, MoveInv
<1>4. ASSUME trust' # "none", state'.phase = "playing", pendingCapture' = {}
      PROVE  /\ queue' # << >> => EndsWith(queue', TurnStart(CurrentPlayer'))
             /\ queue' = << >> /\ link' = "up" /\ handshake' = NotReconnecting =>
                    view'.handEnabled = (CurrentPlayer' = Me)
  <2>1. PICK m : m = TurnStart(CurrentPlayer) /\ EndsWith(queue, m)
    BY <1>1, <1>2, <1>4 DEF MoveInv, TurnIsTold
  <2>2. (Tail(queue) = << >> /\ Head(queue) = m) \/ EndsWith(Tail(queue), m)
    BY <1>1, <2>1, EndIsLeft
  <2>3. EndsWith(Tail(queue), m) => Tail(queue) # << >>
    BY EmptySeq DEF EndsWith
  <2>4. ASSUME queue' = << >>, link' = "up", handshake' = NotReconnecting
        PROVE  view'.handEnabled = (CurrentPlayer' = Me)
    <3>1. Head(queue) = m /\ link = "up"
      BY <1>1, <2>2, <2>3, <2>4
    <3>2. view' = applyServerMessage(view, m) /\ m.type = "TURN_START"
          /\ m.playerIndex = CurrentPlayer
      BY <1>1, <2>1, <3>1 DEF TurnStart
    <3>3. view' = OnTurnStart(view, m)
      BY <3>2 DEF applyServerMessage
    <3>4. view'.started
      BY <1>4, <2>4, NothingUnderWay DEF SnapshotSettles
    <3>5. view.started /\ view' = [view EXCEPT !.current        = m.playerIndex,
                                               !.captureOptions = {},
                                               !.handEnabled    = m.playerIndex = Me]
      BY <3>3, <3>4 DEF OnTurnStart
    <3> QED BY <1>2, <3>2, <3>5 DEF LinkInv, PageType
  <2> QED BY <1>1, <1>2, <2>1, <2>2, <2>3, <2>4
<1>5. TurnIsTold'
  BY <1>4 DEF TurnIsTold
<1> QED BY <1>1, <1>3, <1>5 DEF MoveInv

\* The end of a handshake enables the hand by the turn; before it, nobody plays.
LEMMA ReconnectingTellsTheTurn ==
    ASSUME LinkInv, MoveInv, SnapshotSettles', UNCHANGED flowVars, Reconnecting
    PROVE  MoveInv'
<1>1. /\ UNCHANGED <<queue, cur, link, loop, trust>>
      /\ handshake # NotReconnecting
      /\ readers' = readers \/ handshake' = NotReconnecting
      /\ handshake' = NotReconnecting => PlayerHandWritten
  BY DEF Reconnecting, ClientStateRead, ClientStateWritten, PlayerHandRead,
         PlayerHandWritten, NotReconnecting
<1>2. /\ state' = state /\ pendingCapture' = pendingCapture
      /\ CurrentPlayer' = CurrentPlayer
  BY DEF flowVars, CurrentPlayer
<1>3. ASSUME trust' # "none", state'.phase = "playing", queue' = << >>, link' = "up",
             handshake' = NotReconnecting
      PROVE  view'.handEnabled = (CurrentPlayer' = Me)
  <2>1. PICK m : view' = applyServerMessage(view, m) /\ m.type = "HAND_DEALT"
    BY <1>1, <1>3 DEF PlayerHandWritten, HandDealt
  <2>2. view' = OnHandDealt(view, m)
    BY <2>1 DEF applyServerMessage
  <2>3. /\ view'.started = view.started /\ view'.current = view.current
        /\ view'.handEnabled = isMyTurn(view)
    BY <2>2 DEF OnHandDealt, LinkInv, PageType
  <2>4. view'.started /\ view'.current = CurrentPlayer'
    BY <1>3, NothingUnderWay DEF SnapshotSettles
  <2> QED BY <2>3, <2>4 DEF isMyTurn
<1>4. TurnIsTold'
  BY <1>1, <1>2, <1>3 DEF MoveInv, TurnIsTold
<1> QED BY <1>1, <1>4 DEF MoveInv

\* The other steps show nothing and tell nothing.
LEMMA OthersTellNothing ==
    ASSUME LinkInv, MoveInv, UNCHANGED flowVars,
           \/ \E k \in Conns : Stop(k) \/ Disconnect(k)
           \/ Cut
           \/ AttachConn
           \/ UNCHANGED deliveryVars
    PROVE  MoveInv'
<1>0. /\ state' = state /\ pendingCapture' = pendingCapture
      /\ CurrentPlayer' = CurrentPlayer
  BY DEF flowVars, CurrentPlayer
<1>1. ASSUME UNCHANGED <<view, queue>>, trust' # "none" => trust # "none",
             link' = "up" => link = "up" /\ handshake' = handshake
      PROVE  TurnIsTold'
  BY <1>0, <1>1 DEF MoveInv, TurnIsTold
<1>2. ASSUME NEW k \in Conns, Stop(k) PROVE MoveInv'
  <2>1. /\ UNCHANGED <<view, queue, cur, readers, handshake>> /\ trust # "none"
        /\ loop' = [loop EXCEPT ![k] = NoLoop]
        /\ link' = IF k = cur THEN "cut" ELSE link
    BY <1>2 DEF Stop, Followed
  <2>2. link' = "up" => loop'[cur'] = cur'
    BY <2>1 DEF LinkInv, MoveInv
  <2>3. TurnIsTold'
    BY <1>1, <2>1
  <2> QED BY <2>1, <2>2, <2>3 DEF MoveInv
<1>3. ASSUME NEW k \in Conns, Disconnect(k) PROVE MoveInv'
  <2>1. /\ UNCHANGED <<view, queue, cur, link, loop, handshake, trust>>
        /\ readers' = readers \ {k}
    BY <1>3 DEF Disconnect
  <2>2. TurnIsTold'
    BY <1>1, <2>1
  <2> QED BY <2>1, <2>2 DEF MoveInv
<1>4. CASE Cut
  <2>1. /\ UNCHANGED <<view, queue, cur, readers, loop, handshake>> /\ trust # "none"
        /\ link' = "cut"
    BY <1>4 DEF Cut, Followed
  <2>2. TurnIsTold'
    BY <1>1, <2>1
  <2> QED BY <2>1, <2>2 DEF MoveInv
<1>5. CASE AttachConn
  <2>1. /\ UNCHANGED <<queue, readers>> /\ trust # "none"
        /\ cur < MaxConns /\ cur' = cur + 1
        /\ loop' = [loop EXCEPT ![cur + 1] = cur + 1]
        /\ handshake' # NotReconnecting
    BY <1>5 DEF AttachConn, Followed, NotReconnecting
  <2>2. /\ cur' \in Conns /\ cur' \notin 1 .. cur
    BY <2>1, DeliveryAssumption DEF LinkInv, Conns
  <2>3. loop'[cur'] = cur' /\ cur' \notin readers'
    BY <2>1, <2>2 DEF LinkInv
  <2>4. TurnIsTold'
    BY <1>0, <2>1 DEF MoveInv, TurnIsTold
  <2> QED BY <2>3, <2>4 DEF MoveInv
<1>6. CASE UNCHANGED deliveryVars
  <2>1. UNCHANGED <<view, queue, cur, link, readers, loop, handshake, trust>>
    BY <1>6 DEF deliveryVars, connVars
  <2>2. TurnIsTold'
    BY <1>1, <2>1
  <2> QED BY <2>1, <2>2 DEF MoveInv
<1> QED BY <1>2, <1>3, <1>4, <1>5, <1>6

\* Every step keeps it, given that a snapshot settles.
LEMMA TurnStaysTold ==
    ASSUME FlowInv, LinkInv, MoveInv, SnapshotSettles', [DeliveryNext]_deliveryVars
    PROVE  MoveInv'
<1>1. ASSUME NEW messages, Handles(messages) PROVE MoveInv'
  BY <1>1, HandlersTellTheTurn
<1>2. ASSUME Elsewhere, UNCHANGED flowVars PROVE MoveInv'
  BY <1>2, WritesTellTheTurn, ReconnectingTellsTheTurn, OthersTellNothing DEF Elsewhere
<1> QED BY <1>1, <1>2, TwoKindsOfSteps

\* The invariants say that the move is on its way.
LEMMA MoveIsShownOrComes ==
    ASSUME FlowInv, LinkInv, MessagesCarryTheGame, SnapshotSettles, MoveInv
    PROVE  MoveIsOnItsWay
<1> SUFFICES ASSUME DueToMove, ~(queue # << >> /\ cur \in WriteLoops) PROVE ShowsMove
  BY DEF MoveIsOnItsWay
<1>1. /\ link = "up" /\ cur \in readers /\ state.phase = "playing" /\ CurrentPlayer = Me
      /\ trust = "all" \/ (trust = "shown" /\ pendingCapture = {})
  BY DEF DueToMove, Listening
<1>2. handshake = NotReconnecting
  BY <1>1 DEF MoveInv
<1>3. cur \in WriteLoops
  <2>1. cur \in Conns /\ cur # 0 /\ loop[cur] = cur
    BY <1>1, DeliveryAssumption DEF LinkInv, MoveInv, Conns
  <2> QED BY <2>1 DEF WriteLoops, NoLoop
<1>4. queue = << >> /\ Awaited = view
  BY <1>3, NothingUnderWay
<1>5. CASE pendingCapture # {}
  <2>1. view = Projection
    BY <1>1, <1>4, <1>5 DEF MessagesCarryTheGame
  <2>2. view.captureOptions = pendingCapture
    BY <1>1, <2>1 DEF Projection
  <2> QED BY <1>5, <2>2 DEF ShowsMove
<1>6. CASE pendingCapture = {}
  <2>1. view.handEnabled
    BY <1>1, <1>2, <1>4, <1>6 DEF MoveInv, TurnIsTold
  <2>2. HandOnPage \subseteq view.myHand
    BY <1>1, <1>2, <1>4 DEF SnapshotSettles, RightHandButOne
  <2>3. HandOnPage = state.hand[Me]
    BY <1>6 DEF HandOnPage
  <2> QED BY <1>6, <2>1, <2>2, <2>3 DEF ShowsMove
<1> QED BY <1>5, <1>6

\* A player who is to move, on a connection that has missed nothing or after a
\* reconnect, is either shown it, or a message is still to be written and the write
\* loop of the newest connection is there to write it: nothing but that loop's
\* progress stands between the player and the move.
THEOREM MoveComes == DeliverySpec => []MoveIsOnItsWay
<1>1. DeliveryInit => MoveInv
  BY InitSettles, LinkInit, FirstTurnIsTold DEF DeliveryInit
<1>2. FlowInv /\ LinkInv /\ SnapshotSettles' /\ MoveInv /\ [DeliveryNext]_deliveryVars
          => MoveInv'
  BY TurnStaysTold
<1>3. FlowInv /\ LinkInv /\ MessagesCarryTheGame /\ SnapshotSettles /\ MoveInv
          => MoveIsOnItsWay
  BY MoveIsShownOrComes
<1> QED BY <1>1, <1>2, <1>3, GameIsFollowed, MessagesCarry, SnapshotsSettle, PTL
        DEF DeliverySpec
===============================================================================
