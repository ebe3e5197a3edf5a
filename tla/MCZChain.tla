------------------------------- MODULE MCZChain -------------------------------
(***************************************************************************)
(* Instances of the zchain contract: three players, boards on which every  *)
(* category of hand and the ties within it can be made.                    *)
(***************************************************************************)
EXTENDS ZChain, TLC

Card(suit, rank) == [suit |-> suit, rank |-> rank]

Hand(a, b) == <<a, b>>

Deal(first, second, third, board) ==
    [hole |-> [p \in Players |-> CASE p = 1 -> first [] p = 2 -> second [] p = 3 -> third],
     board |-> board]

Broadway == <<Card("s", 10), Card("s", 11), Card("s", 12), Card("h", 12), Card("d", 3)>>
Wheel == <<Card("h", 2), Card("s", 3), Card("h", 4), Card("h", 5), Card("c", 9)>>
Paired == <<Card("h", 7), Card("s", 7), Card("d", 8), Card("c", 8), Card("h", 13)>>

\* Royal flush, quads, straight flush, full houses, flushes, straights, the
\* wheel, two pairs decided by a kicker, and hands that tie.
SomeDeals == {
    Deal(Hand(Card("d", 12), Card("c", 12)), Hand(Card("s", 13), Card("s", 14)),
         Hand(Card("h", 14), Card("d", 13)), Broadway),
    Deal(Hand(Card("s", 8), Card("s", 9)), Hand(Card("h", 10), Card("d", 10)),
         Hand(Card("d", 9), Card("h", 8)), Broadway),
    Deal(Hand(Card("h", 3), Card("h", 6)), Hand(Card("c", 14), Card("d", 9)),
         Hand(Card("h", 14), Card("h", 9)), Wheel),
    Deal(Hand(Card("c", 14), Card("d", 9)), Hand(Card("d", 14), Card("s", 9)),
         Hand(Card("d", 3), Card("c", 3)), Wheel),
    Deal(Hand(Card("c", 14), Card("d", 6)), Hand(Card("d", 14), Card("d", 2)),
         Hand(Card("d", 13), Card("c", 3)), Paired),
    Deal(Hand(Card("c", 7), Card("d", 2)), Hand(Card("s", 8), Card("s", 2)),
         Hand(Card("c", 13), Card("c", 5)), Paired),
    Deal(<<>>, <<>>, <<>>, Paired)}
=============================================================================
