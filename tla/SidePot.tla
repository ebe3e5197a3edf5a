------------------------------- MODULE SidePot -------------------------------
(***************************************************************************)
(* Side pots (src/texas_poker_move/sources/side_pot.move).  bets is the    *)
(* total each seat put in during the hand; folded and allIn are sets of    *)
(* seats.  The pots are a sequence: the first is the main pot.             *)
(***************************************************************************)
EXTENDS Integers, Sequences, FiniteSets, FiniteSetsExt

Pot(amount, eligible) == [amount |-> amount, eligible |-> eligible]

\* The members of a set of numbers in ascending order.
Ascending(S) ==
    [i \in 1 .. Cardinality(S) |->
        CHOOSE x \in S : Cardinality({y \in S : y < x}) = i - 1]

\* Mutation of AllInLevels: only the largest all-in makes a level.
AllInLevelsLast(bets, allIn) ==
    LET levels == {bets[s] : s \in allIn} \ {0}
    IN  IF levels = {} THEN <<>> ELSE <<Max(levels)>>

\* The distinct non-zero bets of the all-in seats, ascending.
AllInLevels(bets, allIn) ==
    Ascending({bets[s] : s \in allIn} \ {0})

\* The layer of chips between two levels and who may win it.
Layer(bets, folded, low, high) ==
    LET in == {s \in DOMAIN bets : bets[s] > low}
        part(s) == (IF bets[s] < high THEN bets[s] ELSE high) - low
    IN  Pot(MapThenSumSet(part, in), in \ folded)

\* One layer per all-in level, and the outer layer above the last of them.
Layers(bets, folded, allIn) ==
    LET levels == AllInLevels(bets, allIn)
        n == Len(levels)
        low(i) == IF i = 1 THEN 0 ELSE levels[i - 1]
        top == Max({bets[s] : s \in DOMAIN bets} \cup {0})
        all == [i \in 1 .. n + 1 |->
                  Layer(bets, folded, low(i), IF i <= n THEN levels[i] ELSE top)]
        filled == Ascending({i \in DOMAIN all : all[i].amount > 0})
    IN  [k \in DOMAIN filled |-> all[filled[k]]]

\* An outer pot nobody may win goes into the last pot somebody may win, or
\* into the first pot when there is none.
MergeDeadOuterPot(pots) ==
    LET last == pots[Len(pots)]
        rest == SubSeq(pots, 1, Len(pots) - 1)
        winnable == {i \in DOMAIN rest : rest[i].eligible # {}}
        into == IF winnable = {} THEN 1 ELSE Max(winnable)
    IN  IF pots # <<>> /\ last.eligible = {} /\ rest # <<>>
        THEN [rest EXCEPT ![into].amount = @ + last.amount]
        ELSE pots

\* calculate_side_pots.  Without an all-in everything is one main pot.
CalculateSidePots(bets, folded, allIn) ==
    LET pots == MergeDeadOuterPot(Layers(bets, folded, allIn))
        everyone == Pot(MapThenSumSet(LAMBDA s : bets[s], DOMAIN bets),
                        DOMAIN bets \ folded)
    IN  IF AllInLevels(bets, allIn) = <<>> \/ pots = <<>>
        THEN <<everyone>>
        ELSE pots
=============================================================================
