-------------------------------- MODULE ZChain --------------------------------
(***************************************************************************)
(* The poker contract as ported to zchain (src/texas_zchain/src).  The     *)
(* chain keeps one small object per game; who sits where, what each has    *)
(* bet and the cards are the caller's, passed in with every call.  The     *)
(* callers modelled are the ones of the contract's own test: they hand in  *)
(* what the earlier calls returned.                                        *)
(***************************************************************************)
EXTENDS SidePot, Hands

CONSTANTS
    Players,    \* 1 .. n, in the order of the seats
    Stacks,     \* what a player may bring
    Blinds,     \* big blinds a game may be created with
    RakeRates,  \* in hundredths of a percent
    RakeCap,
    MaxTotalBet,  \* 10^18 in the code
    Deals       \* the cards a hand may be played with: each [hole, board] of sequences

ASSUME ZChainAssumption ==
    /\ Players \subseteq Nat /\ IsFiniteSet(Players)
    /\ Stacks \subseteq Nat \ {0} /\ IsFiniteSet(Stacks)
    /\ Blinds \subseteq Nat
    /\ RakeRates \subseteq Nat
    /\ RakeCap \in Nat
    /\ MaxTotalBet \in Nat

VARIABLES
    game,    \* the stored game object, or NoGame
    seats,   \* the callers' record of each player
    result   \* the settlement the contract returned, or NoResult

vars == <<game, seats, result>>

NoGame == [created |-> FALSE, player_count |-> 0, big_blind |-> 0, pot |-> 0, current_bet |-> 0]
NoResult == [settled |-> FALSE, pots |-> <<>>, paid |-> <<>>, deal |-> <<>>]

MaxRakeRate == 1000

Unfolded == {p \in Players : ~seats[p].folded}

-----------------------------------------------------------------------------
(* Betting (betting.rs).  A round is rebuilt for every action: the object  *)
(* keeps the current bet and neither the last raise nor who made it.       *)

NewRound(g) ==
    [current_bet |-> g.current_bet, min_raise |-> g.big_blind]

ChipsToCall(round, bet) ==
    IF round.current_bet > bet THEN round.current_bet - bet ELSE 0

Refused == [ok |-> FALSE, chips |-> 0, current_bet |-> 0]
Accepted(chips, current_bet) == [ok |-> TRUE, chips |-> chips, current_bet |-> current_bet]

ProcessFold(round) == Accepted(0, round.current_bet)

ProcessCheck(round, seat) ==
    IF ChipsToCall(round, seat.bet) # 0 THEN Refused ELSE Accepted(0, round.current_bet)

ProcessCall(round, seat) ==
    LET to_call == ChipsToCall(round, seat.bet)
    IN  IF to_call = 0 THEN Refused
        ELSE Accepted(Min({to_call, seat.stack}), round.current_bet)

\* Mutation of ProcessRaise: the bet to match is only moved by a full raise.
ProcessRaiseShort(round, seat, total_bet) ==
    LET needed == total_bet - seat.bet
    IN  IF total_bet <= round.current_bet \/ needed > seat.stack THEN Refused
        ELSE IF total_bet - round.current_bet < round.min_raise
             THEN IF needed = seat.stack THEN Accepted(needed, round.current_bet) ELSE Refused
             ELSE Accepted(needed, total_bet)

\* A raise below the minimum is refused unless it takes the whole stack.
ProcessRaise(round, seat, total_bet) ==
    LET needed == total_bet - seat.bet
    IN  IF \/ total_bet <= round.current_bet
           \/ total_bet <= seat.bet
           \/ needed > seat.stack
           \/ needed # seat.stack /\ total_bet - round.current_bet < round.min_raise
        THEN Refused
        ELSE Accepted(needed, total_bet)

-----------------------------------------------------------------------------
(* Settlement (side_pot.rs, showdown.rs).                                  *)

TotalBets(bets) == MapThenSumSet(LAMBDA p : bets[p], DOMAIN bets)

BetOverflow(bets) == TotalBets(bets) > MaxTotalBet

\* calculate_side_pots, the algorithm of side_pot.move: main pot first.
MainAndSidePots(bets, folded, all_in) == CalculateSidePots(bets, folded, all_in)

ComputeRake(pot, rate) == Min({(pot * rate) \div 10000, RakeCap, pot})

\* The seven cards of a player who shows them.
Seven(deal, p) == deal.hole[p] \o deal.board

Shown(deal, folded) == {p \in Players \ folded : Len(deal.hole[p]) = 2}

\* Mutation of PotWinners: a tie goes to the first of the best hands.
PotWinnersFirst(eligible, shown, value) ==
    LET best == {p \in eligible \cap shown :
                    \A q \in eligible \cap shown : ~Beats(value[q], value[p])}
    IN  IF best = {} THEN {p \in eligible : p = Min(eligible)} ELSE {Min(best)}

\* The best hands among the eligible; without any hand, the first eligible.
PotWinners(eligible, shown, value) ==
    LET best == {p \in eligible \cap shown :
                    \A q \in eligible \cap shown : ~Beats(value[q], value[p])}
    IN  IF best = {} THEN {p \in eligible : p = Min(eligible)} ELSE best

\* Nobody is looked for to win an empty pot.
NoPayout == [pot_amount |-> 0, rake |-> 0, winners |-> {}, per_winner |-> 0]

\* Mutation of Payout: the winners share the pot with the rake still in it.
PayoutGross(pot, rate, shown, value) ==
    LET rake == ComputeRake(pot.amount, rate)
        winners == PotWinners(pot.eligible, shown, value)
    IN  IF pot.amount = 0 THEN NoPayout
        ELSE [pot_amount |-> pot.amount - rake, rake |-> rake, winners |-> winners,
              per_winner |-> IF winners = {} THEN 0 ELSE pot.amount \div Cardinality(winners)]

Payout(pot, rate, shown, value) ==
    LET rake == ComputeRake(pot.amount, rate)
        winners == PotWinners(pot.eligible, shown, value)
    IN  IF pot.amount = 0 THEN NoPayout
        ELSE [pot_amount |-> pot.amount - rake, rake |-> rake, winners |-> winners,
              per_winner |-> IF winners = {} THEN 0
                             ELSE (pot.amount - rake) \div Cardinality(winners)]

\* settle_showdown.  The main pot is contested by everyone who has not folded.
CanSettle(bets, folded, rate, deal) ==
    /\ rate <= MaxRakeRate
    /\ Len(deal.board) = 5
    /\ Players \ folded # {}
    /\ ~BetOverflow(bets)
    /\ \A p \in Shown(deal, folded) : CanEvaluate(Seven(deal, p))

Settlement(bets, folded, all_in, rate, deal) ==
    LET pots == MainAndSidePots(bets, folded, all_in)
        contested == [pots EXCEPT ![1].eligible = Players \ folded]
        shown == Shown(deal, folded)
        value == [p \in shown |-> BestHand(Seven(deal, p))]
    IN  [i \in DOMAIN contested |-> Payout(contested[i], rate, shown, value)]

-----------------------------------------------------------------------------
(* The contract's entry points (contract.rs).                              *)

Init ==
    /\ game = NoGame
    /\ result = NoResult
    /\ seats \in [Players ->
            {[bet |-> 0, stack |-> k, folded |-> FALSE, all_in |-> FALSE] : k \in Stacks}]

CreateGame(big_blind) ==
    /\ ~game.created
    /\ game' = [created |-> TRUE, player_count |-> Cardinality(Players),
                big_blind |-> big_blind, pot |-> 0, current_bet |-> big_blind]
    /\ UNCHANGED <<seats, result>>

\* apply_action: an error leaves the object as it was; a round with no big
\* blind cannot be built.
ApplyAction(p, done, folds) ==
    /\ game.created /\ ~result.settled /\ ~seats[p].folded
    /\ game.big_blind # 0
    /\ done.ok
    /\ game' = [game EXCEPT !.current_bet = done.current_bet, !.pot = @ + done.chips]
    /\ seats' = [seats EXCEPT ![p] =
                [bet |-> @.bet + done.chips, stack |-> @.stack - done.chips,
                 folded |-> folds, all_in |-> @.stack = done.chips]]
    /\ UNCHANGED result

Fold(p) == ~seats[p].all_in /\ ApplyAction(p, ProcessFold(NewRound(game)), TRUE)
Check(p) == ApplyAction(p, ProcessCheck(NewRound(game), seats[p]), FALSE)
Call(p) == seats[p].stack > 0 /\ ApplyAction(p, ProcessCall(NewRound(game), seats[p]), FALSE)
Raise(p, total_bet) ==
    ApplyAction(p, ProcessRaise(NewRound(game), seats[p], total_bet), FALSE)

\* The callers settle when nobody is left to act, and show the cards of those
\* who are still in.
SettleShowdown(rate, deal) ==
    LET bets == [p \in Players |-> seats[p].bet]
        folded == Players \ Unfolded
        all_in == {p \in Unfolded : seats[p].all_in}
    IN  /\ game.created /\ ~result.settled
        /\ \A p \in Unfolded : seats[p].all_in \/ seats[p].bet = game.current_bet
        /\ Cardinality(Unfolded) > 1 => Shown(deal, folded) = Unfolded
        /\ CanSettle(bets, folded, rate, deal)
        /\ result' = [settled |-> TRUE, deal |-> deal,
                      pots |-> MainAndSidePots(bets, folded, all_in),
                      paid |-> Settlement(bets, folded, all_in, rate, deal)]
        /\ UNCHANGED <<game, seats>>

Next ==
    \/ \E b \in Blinds : CreateGame(b)
    \/ \E p \in Players :
          \/ Fold(p) \/ Check(p) \/ Call(p)
          \/ \E total \in 1 .. Max(Stacks) : Raise(p, total)
    \/ \E rate \in RakeRates, deal \in Deals : SettleShowdown(rate, deal)

Spec == Init /\ [][Next]_vars

-----------------------------------------------------------------------------
\* The object's current bet is never below what some player has put in, and
\* its pot is what all of them have: apply_action, called with what the
\* earlier calls returned, loses and invents nothing.
ObjectCovers ==
    game.created => /\ \A p \in Players : seats[p].bet <= game.current_bet
                    /\ game.pot = TotalBets([p \in Players |-> seats[p].bet])

\* settle_showdown accounts for every chip bet: pots and rake add up to the
\* bets, no pot with chips in it is without a winner, and a pot loses less to
\* rounding than it has winners.
BetsAreAccounted ==
    LET paid == result.paid
        whole == [i \in DOMAIN paid |-> paid[i].pot_amount + paid[i].rake]
    IN  result.settled =>
        /\ MapThenSumSet(LAMBDA i : whole[i], DOMAIN paid) = game.pot
        /\ \A i \in DOMAIN paid :
              LET n == Cardinality(paid[i].winners)
              IN  /\ n = 0 => whole[i] = 0
                  /\ n > 0 => paid[i].pot_amount - n * paid[i].per_winner \in 0 .. n - 1

\* The winners of a pot with chips in it are those of its contenders whose hand
\* the game server's own evaluator finds best: the two evaluators settle alike,
\* ties included, and nobody who folded is paid.
ServerAgreesOnWinners ==
    result.settled =>
        LET hand(p) == Range(Seven(result.deal, p))
            shown == Shown(result.deal, Players \ Unfolded)
            value == [p \in shown |-> ServerBestHand(hand(p))]
        IN  \A i \in DOMAIN result.paid :
                LET in == IF i = 1 THEN shown ELSE shown \cap result.pots[i].eligible
                    won == result.paid[i].winners
                IN  /\ won \subseteq Unfolded
                    /\ in # {} /\ result.pots[i].amount > 0 =>
                          won = {p \in in : \A q \in in : ~Beats(value[q], value[p])}
=============================================================================
