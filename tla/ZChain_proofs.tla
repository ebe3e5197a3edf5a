---------------------------- MODULE ZChain_proofs ----------------------------
(***************************************************************************)
(* The accounts of the zchain contract, for every table, blind, rake and   *)
(* deal: the object knows what has been bet, and a settlement hands out    *)
(* all of it.                                                              *)
(***************************************************************************)
EXTENDS ZChain, SidePot_proofs

\* What the callers keep of each player, and what the chain keeps.
Books ==
    /\ DOMAIN seats = Players
    /\ \A p \in Players :
          /\ DOMAIN seats[p] = {"bet", "stack", "folded", "all_in"}
          /\ seats[p].bet \in Nat /\ seats[p].stack \in Nat
          /\ seats[p].folded \in BOOLEAN
    /\ DOMAIN game = {"created", "player_count", "big_blind", "pot", "current_bet"}
    /\ game.created \in BOOLEAN
    /\ game.big_blind \in Nat /\ game.pot \in Nat /\ game.current_bet \in Nat

\* Nobody bets before the game is created, and nothing is settled before.
Opened ==
    ~game.created => ~result.settled /\ \A p \in Players : seats[p].bet = 0

\* What is handed out of each pot with its rake.
Whole(paid) == [i \in DOMAIN paid |-> paid[i].pot_amount + paid[i].rake]

\* Nobody wins an empty pot only; of another one the shares of the winners are
\* the pot, up to a rest smaller than their number.
SharedOut(pay) ==
    LET n == Cardinality(pay.winners)
    IN  /\ n = 0 => pay.pot_amount + pay.rake = 0
        /\ n > 0 => pay.pot_amount - n * pay.per_winner \in 0 .. n - 1

\* BetsAreAccounted, with the sum the lemmas are about.
Divided ==
    result.settled =>
        /\ IsFiniteSet(DOMAIN result.paid)
        /\ Total(Whole(result.paid), DOMAIN result.paid) = game.pot
        /\ \A i \in DOMAIN result.paid : SharedOut(result.paid[i])

ZInv == Books /\ Opened /\ ObjectCovers /\ Divided

\* What has been bet, by player.
BetsOf(held) == [p \in Players |-> held[p].bet]

-----------------------------------------------------------------------------
(* Betting.                                                                *)

\* What an action that is accepted takes and where it leaves the bet to match.
Takes(seat, current_bet, done) ==
    /\ done.chips \in Nat /\ done.chips <= seat.stack
    /\ done.current_bet \in Nat /\ done.current_bet >= current_bet
    /\ seat.bet + done.chips <= done.current_bet

\* The bets of all, added up.
LEMMA BetsAdded ==
    ASSUME NEW held
    PROVE  TotalBets([p \in Players |-> held[p].bet]) = Total(BetsOf(held), Players)
<1>1. IsFiniteSet(Players)
  BY ZChainAssumption
<1> DEFINE bets == BetsOf(held)
<1>2. DOMAIN bets = Players
  BY DEF BetsOf
<1>3. [p \in Players |-> held[p].bet] = bets
  BY DEF BetsOf
<1> HIDE DEF bets
<1>4. TotalBets(bets) = MapThenSumSet(LAMBDA p : bets[p], DOMAIN bets)
  BY DEF TotalBets
<1>5. TotalBets(bets) = Total(bets, DOMAIN bets)
  BY <1>1, <1>2, <1>4, EveryoneSum
<1> QED
  BY <1>2, <1>3, <1>5 DEF bets

\* One player's chips are added to all.
LEMMA BetsGrow ==
    ASSUME NEW held, NEW later, NEW p \in Players, NEW chips \in Nat,
           \A q \in Players : held[q].bet \in Nat,
           \A q \in Players \ {p} : later[q].bet = held[q].bet,
           later[p].bet = held[p].bet + chips
    PROVE  Total(BetsOf(later), Players) = Total(BetsOf(held), Players) + chips
<1> DEFINE f == BetsOf(held)
           g == BetsOf(later)
<1>1. IsFiniteSet(Players)
  BY ZChainAssumption
<1>2. \A q \in Players : f[q] \in Int
  BY DEF BetsOf
<1>3. \A q \in Players \ {p} : g[q] = f[q]
  BY DEF BetsOf
<1>4. g[p] = f[p] + chips /\ g[p] \in Int /\ f[p] \in Int
  BY DEF BetsOf
<1> HIDE DEF f, g
<1>5. Total(g, Players) = Total(f, Players) - f[p] + g[p]
  BY <1>1, <1>2, <1>3, <1>4, TotalExcept
<1>6. Total(f, Players) \in Int
  BY <1>1, <1>2, TotalInt
<1> QED
  BY <1>4, <1>5, <1>6 DEF f, g

\* apply_action: the pot grows by what the player puts in.
LEMMA ApplyActionKeeps ==
    ASSUME ZInv, NEW p \in Players, NEW done, NEW folds \in BOOLEAN,
           Takes(seats[p], game.current_bet, done), ApplyAction(p, done, folds)
    PROVE  ZInv'
<1>1. /\ game.created /\ ~result.settled
      /\ game' = [game EXCEPT !.current_bet = done.current_bet, !.pot = @ + done.chips]
      /\ seats' = [seats EXCEPT ![p] =
                  [bet |-> @.bet + done.chips, stack |-> @.stack - done.chips,
                   folded |-> folds, all_in |-> @.stack = done.chips]]
      /\ result' = result
  BY DEF ApplyAction
<1>2. /\ done.chips \in Nat /\ done.chips <= seats[p].stack
      /\ done.current_bet \in Nat /\ done.current_bet >= game.current_bet
      /\ seats[p].bet + done.chips <= done.current_bet
  BY DEF Takes
<1>3. Books /\ ObjectCovers
  BY DEF ZInv
<1>4. /\ DOMAIN game' = DOMAIN game /\ game'.created = game.created
      /\ game'.big_blind = game.big_blind
      /\ game'.pot = game.pot + done.chips /\ game'.current_bet = done.current_bet
  BY <1>1, <1>3 DEF Books
<1>5. /\ DOMAIN seats' = Players
      /\ \A q \in Players \ {p} : seats'[q] = seats[q]
      /\ DOMAIN seats'[p] = {"bet", "stack", "folded", "all_in"}
      /\ seats'[p].bet = seats[p].bet + done.chips
      /\ seats'[p].stack = seats[p].stack - done.chips
      /\ seats'[p].folded = folds
  BY <1>1, <1>3 DEF Books
<1>6. Books'
  <2>1. \A q \in Players :
          /\ DOMAIN seats'[q] = {"bet", "stack", "folded", "all_in"}
          /\ seats'[q].bet \in Nat /\ seats'[q].stack \in Nat
          /\ seats'[q].folded \in BOOLEAN
    <3> TAKE q \in Players
    <3>1. CASE q = p
      BY <1>2, <1>3, <1>5, <3>1 DEF Books
    <3>2. CASE q # p
      BY <1>3, <1>5, <3>2 DEF Books
    <3> QED
      BY <3>1, <3>2
  <2> QED
    BY <1>2, <1>3, <1>4, <1>5, <2>1 DEF Books
<1>7. \A q \in Players : seats'[q].bet <= game'.current_bet
  <2> TAKE q \in Players
  <2>1. seats[q].bet <= game.current_bet /\ seats[q].bet \in Nat /\ game.current_bet \in Nat
    BY <1>1, <1>3 DEF ObjectCovers, Books
  <2> QED
    BY <1>2, <1>4, <1>5, <2>1
<1>8. game'.pot = TotalBets([q \in Players |-> seats'[q].bet])
  <2>1. game.pot = Total(BetsOf(seats), Players)
    BY <1>1, <1>3, BetsAdded DEF ObjectCovers
  <2>2. \A q \in Players : seats[q].bet \in Nat
    BY <1>3 DEF Books
  <2>3. \A q \in Players \ {p} : seats'[q].bet = seats[q].bet
    BY <1>5
  <2>4. Total(BetsOf(seats'), Players) = Total(BetsOf(seats), Players) + done.chips
    <3> HIDE DEF ZInv
    <3> QED
      BY <1>2, <1>5, <2>2, <2>3, BetsGrow
  <2>5. TotalBets([q \in Players |-> seats'[q].bet]) = Total(BetsOf(seats'), Players)
    BY BetsAdded
  <2> QED
    BY <1>4, <2>1, <2>4, <2>5
<1>9. ObjectCovers'
  BY <1>7, <1>8 DEF ObjectCovers
<1>10. Opened' /\ Divided'
  BY <1>1, <1>4 DEF Opened, Divided
<1> QED
  BY <1>6, <1>9, <1>10 DEF ZInv

\* Fold, check, call and raise: each takes chips the player has, and leaves a
\* bet to match that covers what the player has put in.
LEMMA ActionsTake ==
    ASSUME ZInv, NEW p \in Players, game.created
    PROVE  /\ Takes(seats[p], game.current_bet, ProcessFold(NewRound(game)))
           /\ LET done == ProcessCheck(NewRound(game), seats[p])
              IN  done.ok => Takes(seats[p], game.current_bet, done)
           /\ LET done == ProcessCall(NewRound(game), seats[p])
              IN  done.ok => Takes(seats[p], game.current_bet, done)
           /\ \A total \in Int :
                 LET done == ProcessRaise(NewRound(game), seats[p], total)
                 IN  done.ok => Takes(seats[p], game.current_bet, done)
<1> DEFINE seat == seats[p]
           bet == seat.bet
           stack == seat.stack
           current == game.current_bet
           round == NewRound(game)
<1>1. bet \in Nat /\ stack \in Nat /\ current \in Nat /\ bet <= current
  BY DEF ZInv, Books, ObjectCovers
<1>2. round.current_bet = current
  BY DEF NewRound
<1> HIDE DEF round
<1>3. Takes(seat, current, ProcessFold(round))
  <2>1. ProcessFold(round).chips = 0 /\ ProcessFold(round).current_bet = current
    BY <1>2 DEF ProcessFold, Accepted
  <2> QED
    BY <1>1, <2>1 DEF Takes
<1>4. ASSUME ProcessCheck(round, seat).ok
      PROVE  Takes(seat, current, ProcessCheck(round, seat))
  <2>1. /\ ProcessCheck(round, seat).chips = 0
        /\ ProcessCheck(round, seat).current_bet = current
    BY <1>2, <1>4 DEF ProcessCheck, Accepted, Refused
  <2> QED
    BY <1>1, <2>1 DEF Takes
<1>5. ASSUME ProcessCall(round, seat).ok
      PROVE  Takes(seat, current, ProcessCall(round, seat))
  <2> DEFINE to_call == ChipsToCall(round, bet)
             least == Min({to_call, stack})
  <2>1. to_call \in Nat /\ bet + to_call = current
    BY <1>1, <1>2 DEF ChipsToCall
  <2>2. /\ ProcessCall(round, seat).chips = least
        /\ ProcessCall(round, seat).current_bet = current
    BY <1>2, <1>5 DEF ProcessCall, Accepted, Refused
  <2> HIDE DEF to_call
  <2>3. least \in Nat /\ least <= stack /\ least <= to_call
    <3>1. {to_call, stack} \in SUBSET Nat /\ {to_call, stack} # {}
      BY <1>1, <2>1
    <3> QED
      BY <3>1, LeastIsMin
  <2> HIDE DEF least
  <2>4. bet + least <= current
    BY <1>1, <2>1, <2>3
  <2> QED
    BY <1>1, <2>2, <2>3, <2>4 DEF Takes
<1>6. ASSUME NEW total \in Int, ProcessRaise(round, seat, total).ok
      PROVE  Takes(seat, current, ProcessRaise(round, seat, total))
  <2>1. /\ total > current /\ total > bet /\ total - bet <= stack
        /\ ProcessRaise(round, seat, total).chips = total - bet
        /\ ProcessRaise(round, seat, total).current_bet = total
    BY <1>1, <1>2, <1>6 DEF ProcessRaise, Accepted, Refused
  <2> QED
    BY <1>1, <2>1 DEF Takes
<1> QED
  BY <1>3, <1>4, <1>5, <1>6 DEF round

-----------------------------------------------------------------------------
(* Settlement.                                                             *)

\* The rake is part of the pot.
LEMMA RakeIsPart ==
    ASSUME NEW amount \in Nat, NEW rate \in Nat
    PROVE  ComputeRake(amount, rate) \in 0 .. amount
<1> DEFINE three == {(amount * rate) \div 10000, RakeCap, amount}
<1>1. (amount * rate) \div 10000 \in Nat
  <2>1. amount * rate \in Nat
    OBVIOUS
  <2> DEFINE x == amount * rate
  <2> HIDE DEF x
  <2>2. x \in Nat => x \div 10000 \in Nat
    OBVIOUS
  <2> QED
    BY <2>1, <2>2 DEF x
<1>2. three \in SUBSET Nat /\ three # {} /\ amount \in three
  BY <1>1, ZChainAssumption
<1>3. ComputeRake(amount, rate) = Min(three)
  BY DEF ComputeRake
<1> HIDE DEF three
<1> DEFINE least == Min(three)
<1>4. least \in three /\ least <= amount
  BY <1>2, LeastIsMin
<1>5. least \in Nat
  BY <1>2, <1>4
<1> HIDE DEF least
<1>6. least \in 0 .. amount
  BY <1>4, <1>5
<1> QED
  BY <1>3, <1>6 DEF least

\* Somebody who contests a pot is found to win it, and is a contender of it.
LEMMA WinnersExist ==
    ASSUME NEW eligible \in SUBSET Players, eligible # {}, NEW shown, NEW value
    PROVE  LET winners == PotWinners(eligible, shown, value)
           IN  winners \subseteq eligible /\ winners # {}
<1>1. eligible \in SUBSET Nat
  BY ZChainAssumption
<1>2. Min(eligible) \in eligible
  BY <1>1, LeastIsMin
<1> QED
  BY <1>2 DEF PotWinners

\* Rake and shares of a pot are the pot, up to a rest smaller than the number
\* of winners.
LEMMA PayoutAccounts ==
    ASSUME NEW pot, NEW rate \in Nat, NEW shown, NEW value,
           pot.amount \in Nat, pot.eligible \in SUBSET Players, pot.eligible # {}
    PROVE  LET pay == Payout(pot, rate, shown, value)
           IN  SharedOut(pay) /\ pay.pot_amount + pay.rake = pot.amount
<1> DEFINE rake == ComputeRake(pot.amount, rate)
           winners == PotWinners(pot.eligible, shown, value)
           n == Cardinality(winners)
           net == pot.amount - rake
           pay == Payout(pot, rate, shown, value)
<1>1. rake \in Nat /\ net \in Nat /\ net + rake = pot.amount
  <2>1. rake \in 0 .. pot.amount
    BY RakeIsPart
  <2> HIDE DEF rake
  <2> QED
    BY <2>1
<1>2. winners \subseteq Players /\ winners # {}
  BY WinnersExist
<1>3. n \in Nat /\ n > 0
  <2>1. IsFiniteSet(winners)
    BY <1>2, FS_Subset, ZChainAssumption
  <2> HIDE DEF winners
  <2> QED
    BY <1>2, <2>1, FS_CardinalityType, FS_EmptySet
<1>4. CASE pot.amount = 0
  <2>1. pay = NoPayout
    BY <1>4 DEF Payout
  <2> HIDE DEF pay
  <2>2. SharedOut(pay) /\ pay.pot_amount + pay.rake = 0
    BY <2>1, FS_EmptySet DEF NoPayout, SharedOut
  <2> QED
    BY <1>4, <2>2 DEF pay
<1>5. CASE pot.amount # 0
  <2>1. /\ pay.pot_amount = net /\ pay.rake = rake /\ pay.winners = winners
        /\ pay.per_winner = net \div n
    BY <1>2, <1>5 DEF Payout
  <2> HIDE DEF rake, winners, n, net, pay
  <2>2. net - n * (net \div n) \in 0 .. n - 1
    BY <1>1, <1>3
  <2> QED
    BY <1>1, <1>3, <2>1, <2>2 DEF SharedOut, pay, n
<1> QED
  BY <1>4, <1>5

\* settle_showdown divides what was bet: pots and rakes are the bets, and each
\* pot with chips in it is shared out, up to a rest smaller than its winners are.
LEMMA SettlementAccounts ==
    ASSUME NEW bets \in [Players -> Nat], NEW folded, Players \ folded # {},
           NEW allIn \in SUBSET Players, allIn \cap folded = {},
           NEW rate \in Nat, NEW deal
    PROVE  LET paid == Settlement(bets, folded, allIn, rate, deal)
           IN  /\ Total(Whole(paid), DOMAIN paid) = Total(bets, Players)
               /\ IsFiniteSet(DOMAIN paid)
               /\ \A i \in DOMAIN paid : SharedOut(paid[i])
<1> DEFINE pots == CalculateSidePots(bets, folded, allIn)
           contested == [pots EXCEPT ![1].eligible = Players \ folded]
           shown == Shown(deal, folded)
           value == [p \in shown |-> BestHand(Seven(deal, p))]
           paid == Settlement(bets, folded, allIn, rate, deal)
<1>1. IsFiniteSet(Players)
  BY ZChainAssumption
<1>2. PICK n \in Nat : /\ DOMAIN pots = 1 .. n
                       /\ \A i \in 1 .. n : /\ DOMAIN pots[i] = {"amount", "eligible"}
                                            /\ pots[i].amount \in Nat
                       /\ Total(Amounts(pots), 1 .. n) = Total(bets, Players)
  BY <1>1, PotsAddUp
<1>3. \A i \in 1 .. n : /\ pots[i].eligible \subseteq Players \ folded
                        /\ i # 1 => pots[i].eligible # {}
  <2>1. Contested(pots, Players, folded)
    BY <1>1, PotsAreContested
  <2> HIDE DEF pots
  <2> QED
    BY <1>2, <2>1 DEF Contested
<1>4. paid = [i \in DOMAIN contested |-> Payout(contested[i], rate, shown, value)]
  BY DEF Settlement, MainAndSidePots
<1> HIDE DEF pots, shown, value, paid
<1>5. /\ DOMAIN contested = 1 .. n
      /\ \A i \in 1 .. n : /\ contested[i].amount = pots[i].amount
                           /\ contested[i].eligible \in SUBSET Players
                           /\ contested[i].eligible # {}
  <2>1. DOMAIN contested = 1 .. n
    BY <1>2
  <2>2. ASSUME NEW i \in 1 .. n
        PROVE  /\ contested[i].amount = pots[i].amount
               /\ contested[i].eligible \in SUBSET Players
               /\ contested[i].eligible # {}
    <3>1. CASE i = 1
      <4>1. /\ contested[i].amount = pots[i].amount
            /\ contested[i].eligible = Players \ folded
        BY <1>2, <3>1
      <4> QED
        BY <4>1
    <3>2. CASE i # 1
      <4>1. contested[i] = pots[i]
        BY <1>2, <3>2
      <4> QED
        BY <1>3, <3>2, <4>1
    <3> QED
      BY <3>1, <3>2
  <2> QED
    BY <2>1, <2>2
<1> HIDE DEF contested
<1>6. \A i \in 1 .. n : /\ SharedOut(paid[i])
                        /\ paid[i].pot_amount + paid[i].rake = pots[i].amount
  <2> TAKE i \in 1 .. n
  <2>1. paid[i] = Payout(contested[i], rate, shown, value)
    BY <1>4, <1>5
  <2>2. /\ contested[i].amount \in Nat /\ contested[i].amount = pots[i].amount
        /\ contested[i].eligible \in SUBSET Players /\ contested[i].eligible # {}
    BY <1>2, <1>5
  <2> DEFINE pot == contested[i]
  <2> HIDE DEF pot
  <2>3. /\ SharedOut(Payout(pot, rate, shown, value))
        /\ Payout(pot, rate, shown, value).pot_amount + Payout(pot, rate, shown, value).rake
              = pot.amount
    <3>1. pot.amount \in Nat /\ pot.eligible \in SUBSET Players /\ pot.eligible # {}
      BY <2>2 DEF pot
    <3> QED
      BY <3>1, PayoutAccounts
  <2> QED
    BY <2>1, <2>2, <2>3 DEF pot
<1>7. DOMAIN paid = 1 .. n /\ IsFiniteSet(1 .. n)
  <2>1. DOMAIN paid = 1 .. n
    BY <1>4, <1>5
  <2>2. IsFiniteSet(1 .. n)
    BY FS_Interval
  <2> QED
    BY <2>1, <2>2
<1>8. \A i \in 1 .. n : Whole(paid)[i] = Amounts(pots)[i]
  BY <1>2, <1>6, <1>7 DEF Whole, Amounts
<1>9. Total(Whole(paid), 1 .. n) = Total(Amounts(pots), 1 .. n)
  <2> DEFINE e == Whole(paid)
             f == Amounts(pots)
             I == 1 .. n
  <2>1. IsFiniteSet(I) /\ \A i \in I : e[i] = f[i]
    BY <1>7, <1>8
  <2> HIDE DEF e, f, I
  <2>2. Total(e, I) = Total(f, I)
    BY <2>1, TotalEqual
  <2> QED
    BY <2>2 DEF e, f, I
<1> QED
  BY <1>2, <1>6, <1>7, <1>9 DEF paid

\* settle_showdown keeps the invariant.
LEMMA SettleShowdownKeeps ==
    ASSUME ZInv, NEW rate \in RakeRates, NEW deal \in Deals, SettleShowdown(rate, deal)
    PROVE  ZInv'
<1> DEFINE bets == BetsOf(seats)
           folded == Players \ Unfolded
           allIn == {p \in Unfolded : seats[p].all_in}
           paid == Settlement(bets, folded, allIn, rate, deal)
<1>1. /\ game.created /\ Players \ folded # {} /\ UNCHANGED <<game, seats>>
      /\ result'.settled /\ result'.paid = paid
  BY DEF SettleShowdown, CanSettle, BetsOf
<1>2. /\ bets \in [Players -> Nat] /\ allIn \in SUBSET Players /\ allIn \cap folded = {}
      /\ rate \in Nat
  BY ZChainAssumption DEF ZInv, Books, Unfolded, BetsOf
<1>3. game.pot = Total(bets, Players)
  BY <1>1, BetsAdded DEF ZInv, ObjectCovers
<1> HIDE DEF bets, folded, allIn
<1>4. /\ Total(Whole(paid), DOMAIN paid) = Total(bets, Players)
      /\ IsFiniteSet(DOMAIN paid)
      /\ \A i \in DOMAIN paid : SharedOut(paid[i])
  BY <1>1, <1>2, SettlementAccounts
<1> HIDE DEF paid
<1>7. Divided'
  BY <1>1, <1>3, <1>4 DEF Divided
<1>8. Books' /\ Opened' /\ ObjectCovers'
  BY <1>1 DEF ZInv, Books, Opened, ObjectCovers
<1> QED
  BY <1>7, <1>8 DEF ZInv

-----------------------------------------------------------------------------
(* The theorems.                                                           *)

\* Before anything is called the books are in order.
LEMMA Starts == Init => ZInv
<1> SUFFICES ASSUME Init PROVE ZInv
  OBVIOUS
<1>1. Books /\ Opened
  <2>1. /\ DOMAIN seats = Players
        /\ \A p \in Players : \E k \in Stacks :
              seats[p] = [bet |-> 0, stack |-> k, folded |-> FALSE, all_in |-> FALSE]
    BY DEF Init
  <2>2. \A p \in Players :
           /\ DOMAIN seats[p] = {"bet", "stack", "folded", "all_in"}
           /\ seats[p].bet = 0 /\ seats[p].stack \in Nat /\ seats[p].folded \in BOOLEAN
    <3> TAKE p \in Players
    <3>1. PICK k \in Stacks :
             seats[p] = [bet |-> 0, stack |-> k, folded |-> FALSE, all_in |-> FALSE]
      BY <2>1
    <3>2. k \in Nat
      BY ZChainAssumption
    <3> QED
      BY <3>1, <3>2
  <2> QED
    BY <2>1, <2>2 DEF Init, Books, Opened, NoGame, NoResult
<1>2. ObjectCovers /\ Divided
  BY DEF Init, ObjectCovers, Divided, NoGame, NoResult
<1> QED
  BY <1>1, <1>2 DEF ZInv

\* create_game: nobody has bet yet.
LEMMA CreateGameKeeps ==
    ASSUME ZInv, NEW b \in Blinds, CreateGame(b)
    PROVE  ZInv'
<1>1. /\ ~game.created /\ UNCHANGED <<seats, result>>
      /\ game' = [created |-> TRUE, player_count |-> Cardinality(Players),
                  big_blind |-> b, pot |-> 0, current_bet |-> b]
  BY DEF CreateGame
<1>2. b \in Nat /\ IsFiniteSet(Players)
  BY ZChainAssumption
<1>3. Books' /\ Opened' /\ Divided'
  BY <1>1, <1>2 DEF ZInv, Books, Opened, Divided
<1>4. \A p \in Players : seats[p].bet = 0
  BY <1>1 DEF ZInv, Opened
<1>5. TotalBets([p \in Players |-> seats'[p].bet]) = 0
  <2> DEFINE bets == BetsOf(seats)
             n == Cardinality(Players)
  <2>1. \A p \in Players : bets[p] = 0
    BY <1>4 DEF BetsOf
  <2> HIDE DEF bets
  <2>2. Total(bets, Players) = n * 0
    BY <1>2, <2>1, TotalSame
  <2>3. n \in Nat
    BY <1>2, FS_CardinalityType
  <2> HIDE DEF n
  <2>4. n * 0 = 0
    BY <2>3
  <2> QED
    BY <1>1, <2>2, <2>4, BetsAdded DEF bets
<1>6. ObjectCovers'
  BY <1>1, <1>2, <1>4, <1>5 DEF ObjectCovers
<1> QED
  BY <1>3, <1>6 DEF ZInv

\* No call brings them out of order.
LEMMA StepKeeps == ZInv /\ [Next]_vars => ZInv'
<1> SUFFICES ASSUME ZInv, [Next]_vars PROVE ZInv'
  OBVIOUS
<1>1. ASSUME NEW b \in Blinds, CreateGame(b) PROVE ZInv'
  BY <1>1, CreateGameKeeps
<1>2. ASSUME NEW p \in Players, Fold(p) PROVE ZInv'
  <2>1. ApplyAction(p, ProcessFold(NewRound(game)), TRUE)
    BY <1>2 DEF Fold
  <2> QED
    BY <2>1, ActionsTake, ApplyActionKeeps DEF ApplyAction
<1>3. ASSUME NEW p \in Players, Check(p) PROVE ZInv'
  BY <1>3, ActionsTake, ApplyActionKeeps DEF Check, ApplyAction
<1>4. ASSUME NEW p \in Players, Call(p) PROVE ZInv'
  BY <1>4, ActionsTake, ApplyActionKeeps DEF Call, ApplyAction
<1>5. ASSUME NEW p \in Players, NEW total \in 1 .. Max(Stacks), Raise(p, total) PROVE ZInv'
  <2>1. total \in Int
    OBVIOUS
  <2>2. ApplyAction(p, ProcessRaise(NewRound(game), seats[p], total), FALSE)
    BY <1>5 DEF Raise
  <2>3. game.created /\ ProcessRaise(NewRound(game), seats[p], total).ok
    BY <2>2 DEF ApplyAction
  <2>4. Takes(seats[p], game.current_bet, ProcessRaise(NewRound(game), seats[p], total))
    BY <2>1, <2>3, ActionsTake
  <2> QED
    BY <2>2, <2>4, ApplyActionKeeps
<1>6. ASSUME NEW rate \in RakeRates, NEW deal \in Deals, SettleShowdown(rate, deal)
      PROVE  ZInv'
  BY <1>6, SettleShowdownKeeps
<1>7. CASE UNCHANGED vars
  BY <1>7 DEF vars, ZInv, Books, Opened, ObjectCovers, Divided
<1> QED
  BY <1>1, <1>2, <1>3, <1>4, <1>5, <1>6, <1>7 DEF Next

\* Divided says of the settlement what BetsAreAccounted says.
LEMMA DividedIsAccounted == Divided => BetsAreAccounted
<1> SUFFICES ASSUME Divided, result.settled PROVE BetsAreAccounted
  BY DEF BetsAreAccounted
<1>1. /\ IsFiniteSet(DOMAIN result.paid)
      /\ Total(Whole(result.paid), DOMAIN result.paid) = game.pot
      /\ \A i \in DOMAIN result.paid : SharedOut(result.paid[i])
  BY DEF Divided
<1> DEFINE whole == Whole(result.paid)
<1>2. MapThenSumSet(LAMBDA i : whole[i], DOMAIN result.paid) = game.pot
  BY <1>1 DEF Total
<1>3. whole = [i \in DOMAIN result.paid |-> result.paid[i].pot_amount + result.paid[i].rake]
  BY DEF Whole
<1>4. \A i \in DOMAIN result.paid : whole[i] = result.paid[i].pot_amount + result.paid[i].rake
  BY <1>3
<1> QED
  BY <1>1, <1>2, <1>3, <1>4 DEF BetsAreAccounted, SharedOut

\* Whatever is played, at any table and with any rake: the invariant holds.
THEOREM AccountsAreSound == Spec => []ZInv
<1> QED
  BY Starts, StepKeeps, PTL DEF Spec

\* The object of a game never knows less than the callers: the bet to match
\* covers every bet (apply_action), and its pot is what all have put in.
THEOREM ObjectAlwaysCovers == Spec => []ObjectCovers
<1>1. ZInv => ObjectCovers
  BY DEF ZInv
<1> QED
  BY <1>1, AccountsAreSound, PTL

\* settle_showdown pays out what was bet, whoever folded, whoever is all-in and
\* whichever hands tie: pots and rakes are the bets, every pot with chips in it
\* has a winner, and the chips lost to rounding are fewer than its winners.  (A
\* game whose big blind is 0 settles an empty pot, which nobody wins.)
THEOREM SettlementsAccount == Spec => []BetsAreAccounted
<1>1. ZInv => BetsAreAccounted
  BY DividedIsAccounted DEF ZInv
<1> QED
  BY <1>1, AccountsAreSound, PTL
=============================================================================
