-------------------------------- MODULE Hands --------------------------------
(***************************************************************************)
(* Ranking poker hands (src/texas_zchain/src/hand_evaluator.rs, the port   *)
(* of hand_evaluator.move).  A card is a record of a suit and a rank from  *)
(* 2 to 14; a hand's value is its category and the ranks that break ties,  *)
(* the most important first.                                               *)
(***************************************************************************)
EXTENDS Integers, Sequences, FiniteSets, FiniteSetsExt

LOCAL INSTANCE Functions

Ace == 14

HighCard == 0
OnePair == 1
TwoPair == 2
ThreeOfAKind == 3
Straight == 4
Flush == 5
FullHouse == 6
FourOfAKind == 7
StraightFlush == 8
RoyalFlush == 9

Value(category, kickers) == [category |-> category, kickers |-> kickers]

\* cmp_to: the category decides, then the first kicker that differs; lists of
\* different lengths are ordered by their lengths.
Beats(v, w) ==
    \/ v.category > w.category
    \/ /\ v.category = w.category
       /\ \/ Len(v.kickers) > Len(w.kickers)
          \/ /\ Len(v.kickers) = Len(w.kickers)
             /\ \E i \in DOMAIN v.kickers :
                   /\ v.kickers[i] > w.kickers[i]
                   /\ \A j \in 1 .. i - 1 : v.kickers[j] = w.kickers[j]

HighestOf(ranks) == IF ranks = {} THEN 0 ELSE Max(ranks)

RanksOf(cards) == {c.rank : c \in cards}

Times(cards, rank) == Cardinality({c \in cards : c.rank = rank})

\* The highest rank that occurs n times.
FindInCounts(cards, n) == HighestOf({r \in RanksOf(cards) : Times(cards, r) = n})

\* The highest pair other than exclude.
FindPair(cards, exclude) ==
    HighestOf({r \in RanksOf(cards) : Times(cards, r) = 2} \ {exclude})

\* The highest rank not yet used.
FindHighest(cards, excluded) == HighestOf(RanksOf(cards) \ excluded)

\* The elements of S, each after those that come before it.
InOrder(S, Before(_, _)) ==
    [i \in 1 .. Cardinality(S) |->
        CHOOSE x \in S : Cardinality({y \in S : Before(y, x)}) = i - 1]

SortedRanks(cards) == InOrder(RanksOf(cards), >)

\* The high card of the straight five cards make, 0 when they make none.  The
\* ace also stands below the two.
StraightHigh(cards) ==
    LET ranks == RanksOf(cards)
        high == Max(ranks)
    IN  IF Cardinality(ranks) < 5 THEN 0
        ELSE IF ranks = high - 4 .. high THEN high
        ELSE IF ranks = {Ace} \cup 2 .. 5 THEN 5
        ELSE 0

IsFlush(cards) == Cardinality({c.suit : c \in cards}) = 1

\* evaluate_five_impl, with its returns in their order.
EvaluateFive(cards) ==
    LET high == StraightHigh(cards)
        flush == IsFlush(cards)
        four == FindInCounts(cards, 4)
        three == FindInCounts(cards, 3)
        p1 == FindPair(cards, 0)
        p2 == FindPair(cards, p1)
        then(used) == FindHighest(cards, used)
    IN  IF flush /\ high > 0
            THEN Value(IF high = Ace THEN RoyalFlush ELSE StraightFlush, <<high>>)
        ELSE IF four > 0 THEN Value(FourOfAKind, <<four, then({four})>>)
        ELSE IF three > 0 /\ p1 > 0 THEN Value(FullHouse, <<three, p1>>)
        ELSE IF flush THEN Value(Flush, SortedRanks(cards))
        ELSE IF high > 0 THEN Value(Straight, <<high>>)
        ELSE IF three > 0
            THEN LET k == then({three})
                 IN  Value(ThreeOfAKind, <<three, k, then({three, k})>>)
        ELSE IF p1 > 0 /\ p2 > 0
            THEN Value(TwoPair, <<p1, p2, then({p1, p2})>>)
        ELSE IF p1 > 0
            THEN LET k1 == then({p1})
                     k2 == then({p1, k1})
                 IN  Value(OnePair, <<p1, k1, k2, then({p1, k1, k2})>>)
        ELSE Value(HighCard, SortedRanks(cards))

\* best_hand takes seven different cards, a list, and keeps the best of its
\* twenty-one choices of five.
CanEvaluate(cards) == Len(cards) = 7 /\ IsInjective(cards)

BestHand(cards) ==
    LET values == {EvaluateFive(five) : five \in kSubset(5, Range(cards))}
    IN  CHOOSE v \in values : \A w \in values : ~Beats(w, v)

-----------------------------------------------------------------------------
(***************************************************************************)
(* The evaluator of the game server (src/texas/src/pokergame/evaluator.rs) *)
(* is written another way: ranks are taken by how often they occur, then   *)
(* by height, and the shape of the counts names the category.              *)
(***************************************************************************)
ByFrequency(cards) ==
    InOrder(RanksOf(cards),
        LAMBDA r, s : \/ Times(cards, r) > Times(cards, s)
                      \/ Times(cards, r) = Times(cards, s) /\ r > s)

\* is_straight_high and is_wheel, on five ranks in descending order.
IsStraightHigh(ranks) ==
    Len(ranks) = 5 /\ \A i \in 1 .. 4 : ranks[i] = ranks[i + 1] + 1
IsWheel(ranks) == ranks = <<Ace, 5, 4, 3, 2>>

\* evaluate_five, with its returns in their order.
ServerEvaluateFive(cards) ==
    LET ranks == SortedRanks(cards)
        counts == ByFrequency(cards)
        shape == [i \in DOMAIN counts |-> Times(cards, counts[i])]
        flush == IsFlush(cards)
        straight == IsStraightHigh(ranks)
        wheel == IsWheel(ranks)
    IN  IF flush /\ straight
            THEN IF ranks[1] = Ace THEN Value(RoyalFlush, <<>>)
                 ELSE Value(StraightFlush, <<ranks[1]>>)
        ELSE IF flush /\ wheel THEN Value(StraightFlush, <<5>>)
        ELSE IF shape = <<4, 1>> THEN Value(FourOfAKind, counts)
        ELSE IF shape = <<3, 2>> THEN Value(FullHouse, counts)
        ELSE IF flush THEN Value(Flush, ranks)
        ELSE IF straight THEN Value(Straight, <<ranks[1]>>)
        ELSE IF wheel THEN Value(Straight, <<5>>)
        ELSE Value(CASE shape = <<3, 1, 1>> -> ThreeOfAKind
                     [] shape = <<2, 2, 1>> -> TwoPair
                     [] shape = <<2, 1, 1, 1>> -> OnePair
                     [] OTHER -> HighCard, counts)

\* best_hand of the server: at least five cards.
ServerBestHand(cards) ==
    LET values == {ServerEvaluateFive(five) : five \in kSubset(5, cards)}
    IN  CHOOSE v \in values : \A w \in values : ~Beats(w, v)
=============================================================================
