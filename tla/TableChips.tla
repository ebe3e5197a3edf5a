----------------------------- MODULE TableChips -----------------------------
(***************************************************************************)
(* The chips of a table: whatever is called in whatever order, the balance *)
(* covers what the seats and the pot hold, no handler mints a chip, and a  *)
(* settlement divides no more than was put in.                             *)
(***************************************************************************)
EXTENDS Table_proofs

\* What the seats hold, as functions that are summed up.
Stacks(t) == [s \in Seats |-> t.seats[s].stack]
Bets(t) == [s \in Seats |-> t.seats[s].bet]
Contributions(t) == [s \in Seats |-> t.seats[s].total_bet]

\* The seats and the pot hold whole chips; a bet is part of what the seat put
\* in during the hand, an empty seat has put in nothing, and only a seat that is
\* occupied has a stack.
Booked(t) ==
    /\ DOMAIN t = TableFields
    /\ DOMAIN t.seats = Seats
    /\ DOMAIN t.betting = {"open", "current_bet", "min_raise"}
    /\ t.betting.current_bet \in Int
    /\ t.pot \in Nat /\ t.balance \in Int
    /\ \A s \in Seats :
          /\ DOMAIN t.seats[s] = SeatFields
          /\ t.seats[s].stack \in Nat
          /\ t.seats[s].bet \in Nat /\ t.seats[s].total_bet \in Nat
          /\ t.seats[s].bet <= t.seats[s].total_bet
          /\ t.seats[s].player = NoPlayer => t.seats[s].total_bet = 0
          /\ t.seats[s].player = NoPlayer \/ t.seats[s].left => t.seats[s].stack = 0

\* What the hand's players put in is in the pot or still in front of them.
Ledger(t) ==
    /\ Booked(t)
    /\ Total(Contributions(t), Seats) <= t.pot + Total(Bets(t), Seats)

\* No chips are in front of the seats.
Even(t) == \A s \in Seats : t.seats[s].bet = 0

\* Bets lie in front of the seats only while betting is open.
Flat(t) == t.betting.open \/ Even(t)

\* From t to u the books stay in order and no chip is minted.
Kept(t, u) == Ledger(u) /\ Flat(u) /\ Surplus(u) >= Surplus(t)

-----------------------------------------------------------------------------
(* The sums of the contract are sums over the seats.                       *)

\* The sums over all seats are integers, of chips that are not negative.
LEMMA SumsAreNat ==
    ASSUME NEW t, Booked(t)
    PROVE  \A S \in SUBSET Seats :
              /\ Total(Stacks(t), S) \in Nat /\ Total(Bets(t), S) \in Nat
              /\ Total(Contributions(t), S) \in Nat
<1>1. \A s \in Seats : /\ Stacks(t)[s] \in Nat /\ Bets(t)[s] \in Nat
                       /\ Contributions(t)[s] \in Nat
  BY DEF Booked, Stacks, Bets, Contributions
<1> QED
  BY <1>1, SeatsFinite, TotalNat

\* The stacks, added up.
LEMMA StackSum == ASSUME NEW t PROVE TotalStack(t) = Total(Stacks(t), Seats)
<1> DEFINE f == Stacks(t)
           Sum(g) == [T \in SUBSET Seats |->
                        IF T = {} THEN 0
                        ELSE t.seats[Pick(T)].stack + g[T \ {Pick(T)}]]
           g == CHOOSE g : g = Sum(g)
<1>1. \A T \in SUBSET Seats : T # {} => f[Pick(T)] = t.seats[Pick(T)].stack
  BY DEF Pick, Stacks
<1>2. TotalStack(t) = g[Seats]
  BY DEF TotalStack, MapThenSumSet, MapThenFoldSet, Pick
<1> HIDE DEF f
<1>3. \A k : Adds(k, f, Seats) <=> k = Sum(k)
  BY <1>1 DEF Adds
<1>4. Adds(g, f, Seats)
  BY <1>3, SeatsFinite, AddsExist
<1> HIDE DEF g
<1> QED
  BY <1>2, <1>4, SeatsFinite, AddsTotal DEF f

\* The bets, added up.
LEMMA BetSum == ASSUME NEW t PROVE TotalBet(t) = Total(Bets(t), Seats)
<1> DEFINE f == Bets(t)
           Sum(g) == [T \in SUBSET Seats |->
                        IF T = {} THEN 0
                        ELSE t.seats[Pick(T)].bet + g[T \ {Pick(T)}]]
           g == CHOOSE g : g = Sum(g)
<1>1. \A T \in SUBSET Seats : T # {} => f[Pick(T)] = t.seats[Pick(T)].bet
  BY DEF Pick, Bets
<1>2. TotalBet(t) = g[Seats]
  BY DEF TotalBet, MapThenSumSet, MapThenFoldSet, Pick
<1> HIDE DEF f
<1>3. \A k : Adds(k, f, Seats) <=> k = Sum(k)
  BY <1>1 DEF Adds
<1>4. Adds(g, f, Seats)
  BY <1>3, SeatsFinite, AddsExist
<1> HIDE DEF g
<1> QED
  BY <1>2, <1>4, SeatsFinite, AddsTotal DEF f

\* The contributions of some seats, added up.
LEMMA ContributionSum ==
    ASSUME NEW t, NEW S \in SUBSET Seats
    PROVE  MapThenSumSet(LAMBDA s : t.seats[s].total_bet, S) = Total(Contributions(t), S)
<1> DEFINE f == Contributions(t)
           Sum(g) == [T \in SUBSET S |->
                        IF T = {} THEN 0
                        ELSE t.seats[Pick(T)].total_bet + g[T \ {Pick(T)}]]
           g == CHOOSE g : g = Sum(g)
<1>1. \A T \in SUBSET S : T # {} => f[Pick(T)] = t.seats[Pick(T)].total_bet
  <2> TAKE T \in SUBSET S
  <2> HAVE T # {}
  <2>1. Pick(T) \in Seats
    BY DEF Pick
  <2> QED
    BY <2>1 DEF Contributions
<1>2. MapThenSumSet(LAMBDA s : t.seats[s].total_bet, S) = g[S]
  BY DEF MapThenSumSet, MapThenFoldSet, Pick
<1>3. IsFiniteSet(S)
  BY SeatsFinite, FS_Subset
<1> HIDE DEF f
<1>4. \A k : Adds(k, f, S) <=> k = Sum(k)
  BY <1>1 DEF Adds
<1>5. Adds(g, f, S)
  BY <1>3, <1>4, AddsExist
<1> HIDE DEF g
<1> QED
  BY <1>2, <1>3, <1>5, AddsTotal DEF f

\* Nobody has put in what no seat accounts for.
LEMMA AllContributions ==
    ASSUME NEW t, Booked(t)
    PROVE  TotalContribution(t) = Total(Contributions(t), Seats)
<1> DEFINE S == {s \in Seats : t.seats[s].player # NoPlayer}
           f == Contributions(t)
<1>1. TotalContribution(t) = Total(f, S)
  BY ContributionSum DEF TotalContribution
<1>2. \A s \in Seats : f[s] \in Int /\ f[s] = IF s \in S THEN f[s] ELSE 0
  BY DEF Booked, Contributions
<1>3. S \in SUBSET Seats
  OBVIOUS
<1> HIDE DEF S, f
<1>4. Total(f, Seats) = Total(f, S)
  BY <1>2, <1>3, SeatsFinite, TotalPart
<1> QED
  BY <1>1, <1>4 DEF f

\* What a table owes and what it has beyond that.
LEMMA OwedSum ==
    ASSUME NEW t, Booked(t)
    PROVE  /\ Owed(t) = Total(Stacks(t), Seats) + t.pot + Total(Bets(t), Seats)
           /\ Owed(t) \in Nat
           /\ Surplus(t) = t.balance - Ratio * Owed(t)
           /\ Surplus(t) \in Int
<1>1. Owed(t) = Total(Stacks(t), Seats) + t.pot + Total(Bets(t), Seats)
  BY StackSum, BetSum DEF Owed
<1>2. Owed(t) \in Nat
  BY <1>1, SumsAreNat DEF Booked
<1>3. Ratio \in Nat
  BY TableAssumption
<1>4. Ratio * Owed(t) \in Int
  BY <1>2, <1>3
<1> QED
  BY <1>1, <1>2, <1>4 DEF Surplus, Booked

\* When what is owed changes by at most as much as the balance, no chip is
\* minted.
LEMMA Backed ==
    ASSUME NEW t, Booked(t), NEW u, Booked(u), NEW d \in Int,
           Owed(u) <= Owed(t) + d, u.balance >= t.balance + Ratio * d
    PROVE  Surplus(u) >= Surplus(t)
<1> DEFINE a == Owed(t)
           b == Owed(u)
<1>1. a \in Int /\ b \in Int /\ Ratio \in Nat
  BY OwedSum, TableAssumption
<1>2. Surplus(t) = t.balance - Ratio * a /\ Surplus(u) = u.balance - Ratio * b
  BY OwedSum
<1>3. t.balance \in Int /\ u.balance \in Int
  BY DEF Booked
<1> HIDE DEF a, b
<1>4. b <= a + d
  BY DEF a, b
<1>5. Ratio * (a + d - b) >= 0
  BY <1>1, <1>4
<1>6. Ratio * (a + d - b) = Ratio * a + Ratio * d - Ratio * b
  BY <1>1
<1>7. Ratio * a \in Int /\ Ratio * b \in Int /\ Ratio * d \in Int
  BY <1>1
<1> QED
  BY <1>2, <1>3, <1>5, <1>6, <1>7

\* Steps that keep the books add up.
LEMMA KeptTransitive ==
    ASSUME NEW t, NEW u, NEW v, Ledger(t), Kept(t, u), Kept(u, v)
    PROVE  Kept(t, v)
<1>1. Surplus(t) \in Int /\ Surplus(u) \in Int /\ Surplus(v) \in Int
  BY OwedSum DEF Kept, Ledger
<1> QED
  BY <1>1 DEF Kept

\* Doing nothing keeps the books.
LEMMA KeptReflexive ==
    ASSUME NEW t, Ledger(t), Flat(t)
    PROVE  Kept(t, t)
<1>1. Surplus(t) \in Int
  BY OwedSum DEF Ledger
<1> QED
  BY <1>1 DEF Kept

\* A step that moves no chips keeps the books.
LEMMA UnmovedKept ==
    ASSUME NEW t, Ledger(t), NEW u, DOMAIN u = TableFields, u.seats = t.seats,
           u.pot = t.pot, u.balance = t.balance,
           DOMAIN u.betting = {"open", "current_bet", "min_raise"},
           u.betting.current_bet \in Int, u.betting.open \/ Even(t)
    PROVE  Kept(t, u)
<1>1. Stacks(u) = Stacks(t) /\ Bets(u) = Bets(t) /\ Contributions(u) = Contributions(t)
  BY DEF Stacks, Bets, Contributions
<1>2. Booked(u) /\ Booked(t)
  BY DEF Ledger, Booked
<1>3. Ledger(u) /\ Flat(u)
  BY <1>1, <1>2 DEF Ledger, Flat, Even
<1>4. Surplus(u) = Surplus(t) /\ Surplus(t) \in Int
  BY <1>1, <1>2, OwedSum
<1> QED
  BY <1>3, <1>4 DEF Kept

\* A step that leaves betting, chips and seats alone keeps the books.
LEMMA StillKept ==
    ASSUME NEW t, Ledger(t), Flat(t), NEW u, DOMAIN u = TableFields, u.seats = t.seats,
           u.pot = t.pot, u.balance = t.balance, u.betting = t.betting
    PROVE  Kept(t, u)
<1>1. /\ DOMAIN u.betting = {"open", "current_bet", "min_raise"}
      /\ u.betting.current_bet \in Int
  BY DEF Ledger, Booked
<1>2. u.betting.open \/ Even(t)
  BY DEF Flat
<1> QED
  BY <1>1, <1>2, UnmovedKept

\* A failed assert keeps the books.
LEMMA RequireKept ==
    ASSUME NEW t, Ledger(t), Flat(t), NEW cond
    PROVE  Kept(t, Require(t, cond)) /\ Kept(t, Abort(t))
<1>1. Kept(t, Abort(t))
  <2> DEFINE u == Abort(t)
  <2>1. /\ DOMAIN u = TableFields /\ u.seats = t.seats /\ u.pot = t.pot
        /\ u.balance = t.balance /\ u.betting = t.betting
    BY DEF Abort, Ledger, Booked, TableFields
  <2> HIDE DEF u
  <2>2. Kept(t, u)
    BY <2>1, StillKept
  <2> QED
    BY <2>2 DEF u
<1> QED
  BY <1>1, KeptReflexive DEF Require

\* The sums follow the one seat that changes.
LEMMA SeatTotals ==
    ASSUME NEW t, Booked(t), NEW u, Booked(u), NEW s \in Seats, NEW seat,
           u.seats = [t.seats EXCEPT ![s] = seat]
    PROVE  /\ Total(Stacks(u), Seats) = Total(Stacks(t), Seats) - t.seats[s].stack + seat.stack
           /\ Total(Bets(u), Seats) = Total(Bets(t), Seats) - t.seats[s].bet + seat.bet
           /\ Total(Contributions(u), Seats)
                 = Total(Contributions(t), Seats) - t.seats[s].total_bet + seat.total_bet
<1>1. /\ \A y \in Seats : /\ Stacks(t)[y] \in Int /\ Bets(t)[y] \in Int
                          /\ Contributions(t)[y] \in Int
      /\ Stacks(t)[s] = t.seats[s].stack /\ Bets(t)[s] = t.seats[s].bet
      /\ Contributions(t)[s] = t.seats[s].total_bet
  BY DEF Booked, Stacks, Bets, Contributions
<1>2. /\ Stacks(u)[s] = seat.stack /\ Bets(u)[s] = seat.bet
      /\ Contributions(u)[s] = seat.total_bet
      /\ \A y \in Seats \ {s} : /\ Stacks(u)[y] = Stacks(t)[y]
                                /\ Bets(u)[y] = Bets(t)[y]
                                /\ Contributions(u)[y] = Contributions(t)[y]
  BY DEF Booked, Stacks, Bets, Contributions
<1>3. Stacks(u)[s] \in Int /\ Bets(u)[s] \in Int /\ Contributions(u)[s] \in Int
  BY DEF Booked, Stacks, Bets, Contributions
<1>4. Total(Stacks(u), Seats) = Total(Stacks(t), Seats) - Stacks(t)[s] + Stacks(u)[s]
  <2> DEFINE f == Stacks(t)
             g == Stacks(u)
  <2>1. \A y \in Seats : f[y] \in Int
    BY <1>1
  <2>2. g[s] \in Int /\ \A y \in Seats \ {s} : g[y] = f[y]
    BY <1>2, <1>3
  <2> HIDE DEF f, g
  <2>3. Total(g, Seats) = Total(f, Seats) - f[s] + g[s]
    BY <2>1, <2>2, SeatsFinite, TotalExcept
  <2> QED
    BY <2>3 DEF f, g
<1>5. Total(Bets(u), Seats) = Total(Bets(t), Seats) - Bets(t)[s] + Bets(u)[s]
  <2> DEFINE f == Bets(t)
             g == Bets(u)
  <2>1. \A y \in Seats : f[y] \in Int
    BY <1>1
  <2>2. g[s] \in Int /\ \A y \in Seats \ {s} : g[y] = f[y]
    BY <1>2, <1>3
  <2> HIDE DEF f, g
  <2>3. Total(g, Seats) = Total(f, Seats) - f[s] + g[s]
    BY <2>1, <2>2, SeatsFinite, TotalExcept
  <2> QED
    BY <2>3 DEF f, g
<1>6. Total(Contributions(u), Seats)
         = Total(Contributions(t), Seats) - Contributions(t)[s] + Contributions(u)[s]
  <2> DEFINE f == Contributions(t)
             g == Contributions(u)
  <2>1. \A y \in Seats : f[y] \in Int
    BY <1>1
  <2>2. g[s] \in Int /\ \A y \in Seats \ {s} : g[y] = f[y]
    BY <1>2, <1>3
  <2> HIDE DEF f, g
  <2>3. Total(g, Seats) = Total(f, Seats) - f[s] + g[s]
    BY <2>1, <2>2, SeatsFinite, TotalExcept
  <2> QED
    BY <2>3 DEF f, g
<1> QED
  BY <1>1, <1>2, <1>4, <1>5, <1>6

\* A step that changes one seat keeps the books when the seat's contribution
\* grows by no more than bets and pot, and what is owed by no more than the
\* balance covers.
LEMMA SeatChangedKept ==
    ASSUME NEW t, Ledger(t), NEW s \in Seats, NEW seat, NEW u, NEW d \in Int,
           DOMAIN u = TableFields, u.seats = [t.seats EXCEPT ![s] = seat],
           DOMAIN u.betting = {"open", "current_bet", "min_raise"},
           u.betting.current_bet \in Int, u.pot \in Nat, u.balance \in Int,
           DOMAIN seat = SeatFields, seat.stack \in Nat,
           seat.bet \in Nat, seat.total_bet \in Nat, seat.bet <= seat.total_bet,
           seat.player = NoPlayer => seat.total_bet = 0,
           seat.player = NoPlayer \/ seat.left => seat.stack = 0,
           seat.total_bet - t.seats[s].total_bet
              <= (u.pot - t.pot) + (seat.bet - t.seats[s].bet),
           seat.stack + seat.bet + u.pot
              <= t.seats[s].stack + t.seats[s].bet + t.pot + d,
           u.balance >= t.balance + Ratio * d
    PROVE  Ledger(u) /\ Surplus(u) >= Surplus(t)
<1>1. Booked(t) /\ Booked(u)
  BY DEF Ledger, Booked
<1>2. /\ Total(Stacks(u), Seats) = Total(Stacks(t), Seats) - t.seats[s].stack + seat.stack
      /\ Total(Bets(u), Seats) = Total(Bets(t), Seats) - t.seats[s].bet + seat.bet
      /\ Total(Contributions(u), Seats)
            = Total(Contributions(t), Seats) - t.seats[s].total_bet + seat.total_bet
  BY <1>1, SeatTotals
<1>3. /\ Total(Stacks(t), Seats) \in Int /\ Total(Bets(t), Seats) \in Int
      /\ Total(Contributions(t), Seats) \in Int
      /\ t.pot \in Int /\ t.seats[s].stack \in Int /\ t.seats[s].bet \in Int
      /\ t.seats[s].total_bet \in Int
  BY <1>1, SumsAreNat DEF Booked
<1>4. Total(Contributions(u), Seats) <= u.pot + Total(Bets(u), Seats)
  BY <1>2, <1>3 DEF Ledger
<1>5. Owed(u) <= Owed(t) + d
  <2>1. /\ Owed(u) = Total(Stacks(u), Seats) + u.pot + Total(Bets(u), Seats)
        /\ Owed(t) = Total(Stacks(t), Seats) + t.pot + Total(Bets(t), Seats)
    BY <1>1, OwedSum
  <2> QED
    BY <1>2, <1>3, <2>1
<1> QED
  BY <1>1, <1>4, <1>5, Backed DEF Ledger

-----------------------------------------------------------------------------
(* Collecting, ending and refunding.                                       *)

\* collect_bets_to_pot keeps the books and leaves no bets in front of the
\* seats.
LEMMA CollectBetsKept ==
    ASSUME NEW t, Ledger(t)
    PROVE  /\ Kept(t, CollectBetsToPot(t)) /\ Even(CollectBetsToPot(t))
           /\ CollectBetsToPot(t).pot = t.pot + Total(Bets(t), Seats)
           /\ Stacks(CollectBetsToPot(t)) = Stacks(t)
<1> DEFINE u == CollectBetsToPot(t)
<1>1. Total(Bets(t), Seats) \in Nat
  BY SumsAreNat DEF Ledger
<1>2. /\ DOMAIN u = TableFields /\ u.pot = t.pot + Total(Bets(t), Seats)
      /\ u.seats = [s \in Seats |-> [t.seats[s] EXCEPT !.bet = 0]]
      /\ u.balance = t.balance /\ u.betting = t.betting
  BY BetSum DEF CollectBetsToPot, Ledger, Booked, TableFields
<1> HIDE DEF u
<1>3. Booked(t) /\ Booked(u)
  BY <1>1, <1>2 DEF Ledger, Booked, SeatFields
<1>4. /\ Stacks(u) = Stacks(t) /\ Contributions(u) = Contributions(t)
      /\ \A s \in Seats : Bets(u)[s] = 0
  BY <1>2 DEF Stacks, Contributions, Bets, Ledger, Booked, SeatFields
<1>5. Total(Bets(u), Seats) = 0
  <2>1. Cardinality(Seats) \in Nat
    BY SeatsFinite, FS_CardinalityType
  <2>2. Total(Bets(u), Seats) = Cardinality(Seats) * 0
    BY <1>4, SeatsFinite, TotalSame
  <2> QED
    BY <2>1, <2>2
<1>6. Ledger(u) /\ Even(u)
  <2>1. Even(u)
    BY <1>2, <1>3 DEF Even, Booked, SeatFields
  <2>2. u.pot + Total(Bets(u), Seats) = t.pot + Total(Bets(t), Seats)
    BY <1>1, <1>2, <1>3, <1>5 DEF Booked
  <2> QED
    BY <1>3, <1>4, <2>1, <2>2 DEF Ledger
<1>7. Owed(u) = Owed(t)
  BY <1>2, <1>3, <1>4, <1>5, <1>1, OwedSum, SumsAreNat DEF Booked
<1>8. Surplus(u) = Surplus(t) /\ Surplus(t) \in Int
  BY <1>2, <1>3, <1>7, OwedSum
<1> QED
  BY <1>2, <1>4, <1>6, <1>8 DEF Kept, Flat, u

\* reset_for_next_hand drops pot and bets, keeps the stacks, and leaves
\* nothing in front of the seats.
LEMMA ResetBooks ==
    ASSUME NEW t, Booked(t)
    PROVE  /\ Ledger(ResetForNextHand(t)) /\ Flat(ResetForNextHand(t))
           /\ ResetForNextHand(t).balance = t.balance
           /\ Owed(ResetForNextHand(t)) = Total(Stacks(t), Seats)
<1> DEFINE u == ResetForNextHand(t)
           broke == {s \in Seats : t.seats[s].player # NoPlayer /\ t.seats[s].stack = 0}
<1>1. /\ DOMAIN u = TableFields /\ u.pot = 0 /\ u.betting = NoRound
      /\ u.balance = t.balance
      /\ u.seats = [s \in Seats |->
                      IF s \in broke THEN EmptySeat
                      ELSE [t.seats[s] EXCEPT
                              !.bet = 0, !.total_bet = 0, !.folded = FALSE,
                              !.all_in = FALSE, !.acted = FALSE,
                              !.is_waiting = FALSE, !.left = FALSE]]
  BY DEF ResetForNextHand, Booked, TableFields
<1>2. \A s \in broke : t.seats[s].stack = 0
  OBVIOUS
<1> HIDE DEF u, broke
<1>3. /\ DOMAIN u.seats = Seats
      /\ \A s \in Seats : /\ DOMAIN u.seats[s] = SeatFields
                          /\ u.seats[s].stack = t.seats[s].stack
                          /\ u.seats[s].bet = 0 /\ u.seats[s].total_bet = 0
                          /\ u.seats[s].player = NoPlayer \/ u.seats[s].left
                                => u.seats[s].stack = 0
  <2>1. ASSUME NEW s \in Seats
        PROVE  /\ DOMAIN u.seats[s] = SeatFields
               /\ u.seats[s].stack = t.seats[s].stack
               /\ u.seats[s].bet = 0 /\ u.seats[s].total_bet = 0
               /\ u.seats[s].player = NoPlayer \/ u.seats[s].left
                     => u.seats[s].stack = 0
    <3>1. CASE s \in broke
      <4>1. u.seats[s] = EmptySeat /\ t.seats[s].stack = 0
        BY <1>1, <1>2, <3>1
      <4> QED
        BY <4>1 DEF EmptySeat, SeatFields
    <3>2. CASE s \notin broke
      <4>1. u.seats[s] = [t.seats[s] EXCEPT
                            !.bet = 0, !.total_bet = 0, !.folded = FALSE,
                            !.all_in = FALSE, !.acted = FALSE,
                            !.is_waiting = FALSE, !.left = FALSE]
        BY <1>1, <3>2
      <4> QED
        BY <4>1 DEF Booked, SeatFields
    <3> QED
      BY <3>1, <3>2
  <2> QED
    BY <1>1, <2>1
<1>4. u.pot = 0 /\ u.balance = t.balance
  BY <1>1
<1>5. Booked(u)
  <2>1. DOMAIN u = TableFields /\ u.betting = NoRound
    BY <1>1
  <2> QED
    BY <1>3, <1>4, <2>1 DEF Booked, NoRound
<1>6. /\ Stacks(u) = Stacks(t)
      /\ \A s \in Seats : Bets(u)[s] = 0 /\ Contributions(u)[s] = 0
  BY <1>3 DEF Stacks, Bets, Contributions
<1>7. Total(Bets(u), Seats) = 0 /\ Total(Contributions(u), Seats) = 0
  <2>1. Cardinality(Seats) \in Nat
    BY SeatsFinite, FS_CardinalityType
  <2>2. Total(Bets(u), Seats) = Cardinality(Seats) * 0
    BY <1>6, SeatsFinite, TotalSame
  <2>3. Total(Contributions(u), Seats) = Cardinality(Seats) * 0
    BY <1>6, SeatsFinite, TotalSame
  <2> QED
    BY <2>1, <2>2, <2>3
<1>8. Total(Stacks(t), Seats) \in Nat
  BY SumsAreNat
<1>9. Ledger(u)
  BY <1>4, <1>5, <1>7 DEF Ledger
<1>10. Owed(u) = Total(Stacks(t), Seats)
  BY <1>4, <1>5, <1>6, <1>7, <1>8, OwedSum
<1>11. Flat(u)
  BY <1>3 DEF Flat, Even
<1> QED
  BY <1>4, <1>9, <1>10, <1>11 DEF u

\* reset_for_next_hand keeps the books: what is in the pot is given up.
LEMMA ResetKept ==
    ASSUME NEW t, Ledger(t)
    PROVE  Kept(t, ResetForNextHand(t))
<1> DEFINE u == ResetForNextHand(t)
<1>1. /\ Ledger(u) /\ Flat(u) /\ u.balance = t.balance
      /\ Owed(u) = Total(Stacks(t), Seats)
  BY ResetBooks DEF Ledger
<1>2. Owed(u) <= Owed(t) + 0
  <2>1. /\ Owed(t) = Total(Stacks(t), Seats) + t.pot + Total(Bets(t), Seats)
        /\ Total(Stacks(t), Seats) \in Nat /\ Total(Bets(t), Seats) \in Nat
        /\ t.pot \in Nat
    BY OwedSum, SumsAreNat DEF Ledger, Booked
  <2> QED
    BY <1>1, <2>1
<1>3. u.balance >= t.balance + Ratio * 0 /\ Booked(t) /\ Booked(u)
  BY <1>1, TableAssumption DEF Ledger, Booked
<1> HIDE DEF u
<1>4. Surplus(u) >= Surplus(t)
  BY <1>2, <1>3, Backed
<1> QED
  BY <1>1, <1>4 DEF Kept, u

\* u is t with at most x chips more in the stacks, nothing else about the
\* chips being different.
Paid(t, u, x) ==
    /\ Booked(u)
    /\ u.pot = t.pot /\ u.balance = t.balance
    /\ Bets(u) = Bets(t) /\ Contributions(u) = Contributions(t)
    /\ OccupiedSeats(u) = OccupiedSeats(t)
    /\ Total(Stacks(u), Seats) <= Total(Stacks(t), Seats) + x

\* A hand that ends after no more than the pot and the bets are paid out
\* keeps the books.
LEMMA PaidThenReset ==
    ASSUME NEW t, Ledger(t), NEW u, NEW x \in Int, Paid(t, u, x),
           x <= t.pot + Total(Bets(t), Seats)
    PROVE  Kept(t, ResetForNextHand(u))
<1> DEFINE v == ResetForNextHand(u)
<1>1. /\ Ledger(v) /\ Flat(v) /\ v.balance = t.balance
      /\ Owed(v) = Total(Stacks(u), Seats)
  BY ResetBooks DEF Paid
<1>2. Owed(v) <= Owed(t) + 0
  <2>1. /\ Owed(t) = Total(Stacks(t), Seats) + t.pot + Total(Bets(t), Seats)
        /\ Total(Stacks(t), Seats) \in Nat /\ Total(Bets(t), Seats) \in Nat
        /\ Total(Stacks(u), Seats) \in Nat /\ t.pot \in Nat
    BY OwedSum, SumsAreNat DEF Ledger, Booked, Paid
  <2> QED
    BY <1>1, <2>1 DEF Paid
<1>3. v.balance >= t.balance + Ratio * 0 /\ Booked(t) /\ Booked(v)
  BY <1>1, TableAssumption DEF Ledger, Booked
<1> HIDE DEF v
<1>4. Surplus(v) >= Surplus(t)
  BY <1>2, <1>3, Backed
<1> QED
  BY <1>1, <1>4 DEF Kept, v

\* Live seats, and those a settlement pays, are seats of the table.
LEMMA PaidAreSeats ==
    ASSUME NEW t
    PROVE  /\ LiveSeats(t) \subseteq Seats /\ UnfoldedSeats(t) \subseteq Seats
           /\ ActiveSeats(t) \subseteq Seats /\ OccupiedSeats(t) \subseteq Seats
           /\ ActionableSeats(t) \subseteq Seats
BY DEF LiveSeats, ActiveSeats, OccupiedSeats, UnfoldedSeats, ActionableSeats

\* end_without_showdown pays what was in the pot and in front of the seats.
LEMMA EndWithoutShowdownKept ==
    ASSUME NEW t, Ledger(t), Flat(t)
    PROVE  Kept(t, EndWithoutShowdown(t))
<1> DEFINE c == CollectBetsToPot(t)
           w == Min(LiveSeats(t))
           paid == [c EXCEPT !.seats[w].stack = @ + c.pot]
<1>1. CASE LiveSeats(t) = {}
  BY <1>1, RequireKept DEF EndWithoutShowdown
<1>2. CASE LiveSeats(t) # {}
  <2>1. EndWithoutShowdown(t) = ResetForNextHand(paid)
    BY <1>2 DEF EndWithoutShowdown
  <2>2. w \in Seats /\ w \in OccupiedSeats(c)
    <3>1. LiveSeats(t) \in SUBSET Nat
      BY PaidAreSeats, TableAssumption DEF Seats
    <3>2. w \in LiveSeats(t)
      BY <1>2, <3>1, LeastIsMin
    <3>3. OccupiedSeats(c) = OccupiedSeats(t)
      BY DEF OccupiedSeats, IsSeatOccupied, CollectBetsToPot, Ledger, Booked,
             SeatFields, TableFields
    <3> QED
      BY <3>2, <3>3, PaidAreSeats, LiveAreOccupied
  <2>3. Ledger(c) /\ Kept(t, c) /\ Even(c)
    BY CollectBetsKept DEF Kept
  <2> HIDE DEF c, w
  <2> DEFINE seat == [c.seats[w] EXCEPT !.stack = @ + c.pot]
  <2>4. /\ DOMAIN paid = TableFields /\ paid.seats = [c.seats EXCEPT ![w] = seat]
        /\ paid.pot = c.pot /\ paid.balance = c.balance /\ paid.betting = c.betting
    BY <2>2, <2>3 DEF Ledger, Booked, TableFields
  <2>5. /\ DOMAIN seat = SeatFields /\ seat.stack = c.seats[w].stack + c.pot
        /\ seat.bet = c.seats[w].bet /\ seat.total_bet = c.seats[w].total_bet
        /\ seat.player = c.seats[w].player /\ seat.left = c.seats[w].left
        /\ seat.player # NoPlayer /\ ~seat.left
    BY <2>2, <2>3 DEF Ledger, Booked, SeatFields, OccupiedSeats, IsSeatOccupied
  <2> HIDE DEF seat, paid
  <2>6. Booked(paid) /\ Booked(c) /\ c.pot \in Nat
    BY <2>2, <2>3, <2>4, <2>5 DEF Ledger, Booked
  <2>12. OccupiedSeats(paid) = OccupiedSeats(c)
    BY <2>2, <2>4, <2>5, <2>6 DEF OccupiedSeats, IsSeatOccupied, Booked
  <2>7. Bets(paid) = Bets(c) /\ Contributions(paid) = Contributions(c)
    BY <2>2, <2>4, <2>5, <2>6 DEF Bets, Contributions, Booked
  <2>8. Total(Stacks(paid), Seats) = Total(Stacks(c), Seats) + c.pot
    <3>1. Total(Stacks(paid), Seats)
             = Total(Stacks(c), Seats) - c.seats[w].stack + seat.stack
      BY <2>2, <2>4, <2>6, SeatTotals
    <3>2. Total(Stacks(c), Seats) \in Nat /\ c.seats[w].stack \in Nat
      BY <2>2, <2>6, SumsAreNat DEF Booked
    <3> QED
      BY <2>5, <2>6, <3>1, <3>2
  <2>9. Paid(c, paid, c.pot)
    <3>1. Total(Stacks(c), Seats) \in Nat
      BY <2>6, SumsAreNat
    <3> QED
      BY <2>4, <2>6, <2>7, <2>8, <2>12, <3>1 DEF Paid
  <2>10. c.pot <= c.pot + Total(Bets(c), Seats)
    BY <2>6, SumsAreNat
  <2>11. Kept(c, ResetForNextHand(paid))
    BY <2>3, <2>6, <2>9, <2>10, PaidThenReset
  <2> QED
    BY <2>1, <2>3, <2>11, KeptTransitive
<1> QED
  BY <1>1, <1>2

\* Two parts of the contributions are no more than all of them.
LEMMA PartsOfContributions ==
    ASSUME NEW t, Booked(t), NEW A \in SUBSET Seats, NEW B \in SUBSET Seats, A \cap B = {}
    PROVE  /\ Total(Contributions(t), A) + Total(Contributions(t), B)
                 <= Total(Contributions(t), Seats)
           /\ Total([s \in Seats |-> IF s \in A THEN Contributions(t)[s] ELSE 0], Seats)
                 = Total(Contributions(t), A)
<1> DEFINE f == Contributions(t)
           a == [s \in Seats |-> IF s \in A THEN f[s] ELSE 0]
           b == [s \in Seats |-> IF s \in B THEN f[s] ELSE 0]
           c == [s \in Seats |-> a[s] + b[s]]
<1>1. \A s \in Seats : f[s] \in Nat
  BY DEF Contributions, Booked
<1> HIDE DEF f
<1>2. \A s \in Seats : /\ a[s] = IF s \in A THEN f[s] ELSE 0
                       /\ b[s] = IF s \in B THEN f[s] ELSE 0
                       /\ a[s] \in Int /\ b[s] \in Int /\ c[s] = a[s] + b[s]
                       /\ f[s] \in Int /\ c[s] \in Int /\ c[s] <= f[s]
  BY <1>1
<1>3. \A s \in Seats : c[s] \in Int /\ f[s] \in Int /\ c[s] <= f[s]
  BY <1>2
<1>4. \A s \in Seats : f[s] \in Int
  BY <1>2
<1>5. \A s \in Seats : a[s] = IF s \in A THEN f[s] ELSE 0
  BY <1>2
<1>6. \A s \in Seats : b[s] = IF s \in B THEN f[s] ELSE 0
  BY <1>2
<1>7. \A s \in Seats : a[s] \in Int /\ b[s] \in Int /\ c[s] = a[s] + b[s]
  BY <1>2
<1> HIDE DEF a, b, c
<1>8. Total(a, Seats) = Total(f, A)
  BY <1>4, <1>5, SeatsFinite, TotalPart
<1>9. Total(b, Seats) = Total(f, B)
  BY <1>4, <1>6, SeatsFinite, TotalPart
<1>10. Total(c, Seats) = Total(a, Seats) + Total(b, Seats)
  BY <1>7, SeatsFinite, TotalPlus
<1>11. Total(c, Seats) <= Total(f, Seats)
  BY <1>3, SeatsFinite, TotalLess
<1>12. Total(f, A) + Total(f, B) <= Total(f, Seats)
  BY <1>8, <1>9, <1>10, <1>11
<1> QED
  BY <1>8, <1>12 DEF f, a

\* refund_sui_to_player takes the chips out of the balance, and nothing else.
LEMMA RefundSuiTakes ==
    ASSUME NEW t, Booked(t), NEW chips \in Int
    PROVE  LET u == RefundSui(t, chips)
           IN  /\ DOMAIN u = TableFields /\ u.seats = t.seats /\ u.pot = t.pot
               /\ u.betting = t.betting /\ u.balance = t.balance - chips * Ratio
               /\ u.balance \in Int
<1>1. chips * Ratio \in Int /\ t.balance - chips * Ratio \in Int
  BY TableAssumption DEF Booked
<1> QED
  BY <1>1 DEF RefundSui, Require, Abort, Booked, TableFields

\* refund_all_bets gives back what was put in, as chips or as SUI.
LEMMA RefundAllBetsKept ==
    ASSUME NEW t, Ledger(t)
    PROVE  Kept(t, RefundAllBets(t))
<1> DEFINE due == {s \in Seats : ~t.seats[s].refunded /\ t.seats[s].total_bet > 0}
           home == due \cap OccupiedSeats(t)
           gone == {s \in due \ home : t.seats[s].left}
           refund(s) ==
               [t.seats[s] EXCEPT
                   !.stack = IF s \in home THEN @ + t.seats[s].total_bet ELSE @,
                   !.refunded = @ \/ s \in home \cup gone,
                   !.player = IF s \in gone THEN NoPlayer ELSE @,
                   !.bet = 0, !.total_bet = 0]
           u == [t EXCEPT !.seats = [s \in Seats |-> refund(s)], !.pot = 0]
           G == Total(Contributions(t), gone)
           H == Total(Contributions(t), home)
           v == RefundSui(u, G)
<1>1. home \in SUBSET Seats /\ gone \in SUBSET Seats /\ home \cap gone = {}
  OBVIOUS
<1>2. RefundAllBets(t) = v
  <2>1. MapThenSumSet(LAMBDA s : t.seats[s].total_bet, gone) = G
    BY <1>1, ContributionSum
  <2> QED
    BY <2>1 DEF RefundAllBets
<1> HIDE DEF home, gone, due
<1>3. G \in Nat /\ H \in Nat /\ Booked(t)
  BY <1>1, SumsAreNat DEF Ledger
<1>4. /\ DOMAIN u = TableFields /\ u.pot = 0 /\ u.balance = t.balance
      /\ u.betting = t.betting /\ u.seats = [s \in Seats |-> refund(s)]
  BY <1>3 DEF Booked, TableFields
<1>5. \A s \in Seats :
         LET seat == refund(s)
         IN  /\ DOMAIN seat = SeatFields
             /\ seat.stack = t.seats[s].stack
                               + IF s \in home THEN t.seats[s].total_bet ELSE 0
             /\ seat.bet = 0 /\ seat.total_bet = 0
             /\ seat.player = NoPlayer \/ seat.left => seat.stack = 0
  <2> TAKE s \in Seats
  <2>1. /\ DOMAIN t.seats[s] = SeatFields
        /\ t.seats[s].stack \in Nat /\ t.seats[s].total_bet \in Nat
        /\ t.seats[s].player = NoPlayer \/ t.seats[s].left => t.seats[s].stack = 0
    BY <1>3 DEF Booked
  <2>2. s \in home => /\ t.seats[s].player # NoPlayer /\ ~t.seats[s].left
                      /\ s \notin gone
    BY <1>1 DEF home, OccupiedSeats, IsSeatOccupied
  <2>3. s \in gone => t.seats[s].left
    BY DEF gone
  <2> QED
    BY <2>1, <2>2, <2>3 DEF SeatFields
<1> HIDE DEF refund, u
<1>6. \A s \in Seats :
         /\ DOMAIN u.seats[s] = SeatFields
         /\ u.seats[s].stack = t.seats[s].stack
                           + IF s \in home THEN t.seats[s].total_bet ELSE 0
         /\ u.seats[s].bet = 0 /\ u.seats[s].total_bet = 0
         /\ u.seats[s].player = NoPlayer \/ u.seats[s].left => u.seats[s].stack = 0
  BY <1>4, <1>5
<1>7. Booked(u)
  <2>1. \A s \in Seats : u.seats[s].stack \in Nat
    BY <1>3, <1>6 DEF Booked
  <2>2. DOMAIN u.seats = Seats
    BY <1>4
  <2>3. /\ DOMAIN u = TableFields /\ u.pot = 0 /\ u.balance = t.balance
        /\ u.betting = t.betting
    BY <1>4
  <2> QED
    BY <1>3, <1>6, <2>1, <2>2, <2>3 DEF Booked
<1>8. /\ DOMAIN v = TableFields /\ v.seats = u.seats /\ v.pot = 0
      /\ v.betting = t.betting /\ v.balance = t.balance - G * Ratio /\ v.balance \in Int
  BY <1>3, <1>4, <1>7, RefundSuiTakes
<1> HIDE DEF v
<1>9. Booked(v)
  BY <1>3, <1>7, <1>8 DEF Booked
<1> DEFINE back == [s \in Seats |-> IF s \in home THEN Contributions(t)[s] ELSE 0]
<1>10. Total(Stacks(v), Seats) = Total(Stacks(t), Seats) + H
  <2> DEFINE f == Stacks(t)
             h == Stacks(v)
  <2>1. \A s \in Seats : f[s] \in Int /\ back[s] \in Int /\ h[s] = f[s] + back[s]
    BY <1>3, <1>6, <1>8 DEF Stacks, Contributions, Booked
  <2>2. Total(back, Seats) = H
    BY <1>1, <1>3, PartsOfContributions
  <2> HIDE DEF f, h, back
  <2>3. Total(h, Seats) = Total(f, Seats) + Total(back, Seats)
    BY <2>1, SeatsFinite, TotalPlus
  <2> QED
    BY <2>2, <2>3 DEF f, h
<1>11. Total(Bets(v), Seats) = 0 /\ Total(Contributions(v), Seats) = 0
  <2>1. Cardinality(Seats) \in Nat
    BY SeatsFinite, FS_CardinalityType
  <2>2. \A s \in Seats : Bets(v)[s] = 0
    BY <1>6, <1>8 DEF Bets
  <2>3. \A s \in Seats : Contributions(v)[s] = 0
    BY <1>6, <1>8 DEF Contributions
  <2>4. Total(Bets(v), Seats) = Cardinality(Seats) * 0
    BY <2>2, SeatsFinite, TotalSame
  <2>5. Total(Contributions(v), Seats) = Cardinality(Seats) * 0
    BY <2>3, SeatsFinite, TotalSame
  <2> QED
    BY <2>1, <2>4, <2>5
<1>12. Ledger(v) /\ Flat(v)
  BY <1>6, <1>8, <1>9, <1>11 DEF Ledger, Flat, Even
<1>13. H + G <= t.pot + Total(Bets(t), Seats)
  <2>1. H + G <= Total(Contributions(t), Seats)
    BY <1>1, <1>3, PartsOfContributions
  <2>2. /\ Total(Contributions(t), Seats) \in Nat /\ Total(Bets(t), Seats) \in Nat
        /\ t.pot \in Nat
    BY <1>3, SumsAreNat DEF Booked
  <2> QED
    BY <1>3, <2>1, <2>2 DEF Ledger
<1>14. Owed(v) <= Owed(t) + (-G)
  <2>1. /\ Owed(t) = Total(Stacks(t), Seats) + t.pot + Total(Bets(t), Seats)
        /\ Owed(v) = Total(Stacks(v), Seats) + v.pot + Total(Bets(v), Seats)
    BY <1>3, <1>9, OwedSum
  <2>2. /\ Total(Stacks(t), Seats) \in Nat /\ Total(Bets(t), Seats) \in Nat
        /\ t.pot \in Nat
    BY <1>3, SumsAreNat DEF Booked
  <2> QED
    BY <1>3, <1>8, <1>10, <1>11, <1>13, <2>1, <2>2
<1>15. v.balance >= t.balance + Ratio * (-G) /\ -G \in Int
  <2>1. t.balance \in Int /\ Ratio \in Nat
    BY <1>3, TableAssumption DEF Booked
  <2>2. v.balance = t.balance - G * Ratio
    BY <1>8
  <2> HIDE DEF G
  <2> QED
    BY <1>3, <2>1, <2>2
<1>16. Surplus(v) >= Surplus(t)
  <2> DEFINE d == -G
  <2>1. d \in Int /\ Owed(v) <= Owed(t) + d /\ v.balance >= t.balance + Ratio * d
    BY <1>14, <1>15
  <2> HIDE DEF d
  <2> QED
    BY <1>3, <1>9, <2>1, Backed
<1> QED
  BY <1>2, <1>12, <1>16 DEF Kept

-----------------------------------------------------------------------------
(* Settling.                                                               *)

\* The share of a winner: the lowest seat also takes the remainder.
ShareOf(S, amount, s) ==
    amount \div Cardinality(S) + (IF s = Min(S) THEN amount % Cardinality(S) ELSE 0)

\* The shares of the winners are the amount.
LEMMA SharesAddUp ==
    ASSUME NEW S \in SUBSET Seats, S # {}, NEW amount \in Nat
    PROVE  LET part == [s \in Seats |-> ShareOf(S, amount, s)]
           IN  /\ \A s \in Seats : part[s] \in Nat
               /\ Total(part, S) = amount
<1> DEFINE n == Cardinality(S)
           share == amount \div n
           rest == amount % n
           w == Min(S)
           part == [s \in Seats |-> ShareOf(S, amount, s)]
           base == [s \in Seats |-> share]
<1>1. IsFiniteSet(S) /\ n \in Nat \ {0}
  BY SeatsFinite, FS_Subset, FS_CardinalityType, FS_EmptySet
<1>2. share \in Nat /\ rest \in Nat /\ n * share + rest = amount
  BY <1>1, SharesAndRest
<1>3. w \in S
  <2>1. S \in SUBSET Nat
    BY TableAssumption DEF Seats
  <2> QED
    BY <2>1, LeastIsMin
<1>4. \A s \in Seats : part[s] = share + IF s = w THEN rest ELSE 0
  BY DEF ShareOf
<1>5. \A s \in Seats : base[s] = share
  OBVIOUS
<1> HIDE DEF n, share, rest, w, part, base
<1>6. \A s \in S : base[s] = share
  BY <1>5
<1>7. \A s \in S : base[s] \in Int
  BY <1>2, <1>6
<1>8. part[w] = share + rest /\ base[w] = share
  BY <1>3, <1>4, <1>6
<1>9. \A s \in S \ {w} : part[s] = base[s]
  BY <1>2, <1>4, <1>6
<1>10. Total(base, S) = n * share
  BY <1>1, <1>2, <1>6, TotalSame DEF n
<1>11. Total(part, S) = Total(base, S) - base[w] + part[w]
  <2>1. part[w] \in Int
    BY <1>2, <1>8
  <2> QED
    BY <1>1, <1>3, <1>7, <1>9, <2>1, TotalExcept
<1>12. n * share \in Int
  BY <1>1, <1>2
<1>13. Total(part, S) = amount
  BY <1>2, <1>8, <1>10, <1>11, <1>12
<1>14. \A s \in Seats : part[s] \in Nat
  BY <1>2, <1>4
<1> QED
  BY <1>13, <1>14 DEF part

\* Splitting an amount pays no more than the amount.
LEMMA SplitAmongPays ==
    ASSUME NEW t, Booked(t), NEW S \in SUBSET OccupiedSeats(t), NEW amount \in Nat
    PROVE  Paid(t, SplitAmong(t, S, amount), amount)
<1> DEFINE u == SplitAmong(t, S, amount)
           part == [s \in Seats |-> ShareOf(S, amount, s)]
           gift == [s \in Seats |-> IF s \in S THEN part[s] ELSE 0]
<1>1. Total(Stacks(t), Seats) \in Nat
  BY SumsAreNat
<1>2. CASE S = {}
  <2>1. u = t
    BY <1>2 DEF SplitAmong
  <2> HIDE DEF u
  <2>2. Paid(t, u, amount)
    BY <1>1, <2>1 DEF Paid
  <2> QED
    BY <2>2 DEF u
<1>3. CASE S # {}
  <2>0. S \in SUBSET Seats
    BY PaidAreSeats
  <2>1. Total(part, S) = amount /\ \A s \in Seats : part[s] \in Nat
    BY <1>3, <2>0, SharesAddUp
  <2>2. /\ DOMAIN u = TableFields /\ u.pot = t.pot /\ u.balance = t.balance
        /\ u.betting = t.betting
        /\ u.seats = [s \in Seats |->
                        IF s \in S
                        THEN [t.seats[s] EXCEPT !.stack = @ + ShareOf(S, amount, s)]
                        ELSE t.seats[s]]
    BY <1>3 DEF SplitAmong, ShareOf, Booked, TableFields
  <2>3. \A s \in Seats : gift[s] = IF s \in S THEN ShareOf(S, amount, s) ELSE 0
    OBVIOUS
  <2>4. \A s \in Seats : gift[s] = IF s \in S THEN part[s] ELSE 0
    OBVIOUS
  <2> HIDE DEF u, part, gift
  <2>5. \A s \in Seats : gift[s] \in Nat
    BY <2>1, <2>4
  <2>6. \A s \in Seats :
           /\ DOMAIN u.seats[s] = SeatFields
           /\ u.seats[s].stack = t.seats[s].stack + gift[s]
           /\ u.seats[s].bet = t.seats[s].bet
           /\ u.seats[s].total_bet = t.seats[s].total_bet
           /\ u.seats[s].player = t.seats[s].player /\ u.seats[s].left = t.seats[s].left
    <3> TAKE s \in Seats
    <3>1. DOMAIN t.seats[s] = SeatFields /\ t.seats[s].stack \in Nat
      BY DEF Booked
    <3>2. CASE s \in S
      BY <2>2, <2>3, <3>1, <3>2 DEF SeatFields
    <3>3. CASE s \notin S
      <4>1. u.seats[s] = t.seats[s] /\ gift[s] = 0
        BY <2>2, <2>3, <3>3
      <4> QED
        BY <3>1, <4>1
    <3> QED
      BY <3>2, <3>3
  <2>7. Booked(u)
    <3>1. \A s \in Seats : u.seats[s].stack \in Nat
      BY <2>5, <2>6 DEF Booked
    <3>2. DOMAIN u.seats = Seats
      BY <2>2
    <3>3. \A s \in Seats : u.seats[s].player = NoPlayer \/ u.seats[s].left
                              => u.seats[s].stack = 0
      <4> TAKE s \in Seats
      <4>1. CASE s \in S
        BY <2>6, <4>1 DEF OccupiedSeats, IsSeatOccupied
      <4>2. CASE s \notin S
        <5>1. gift[s] = 0
          BY <2>4, <4>2
        <5> QED
          BY <2>6, <5>1 DEF Booked
      <4> QED
        BY <4>1, <4>2
    <3> QED
      BY <2>2, <2>6, <3>1, <3>2, <3>3 DEF Booked
  <2>12. OccupiedSeats(u) = OccupiedSeats(t)
    BY <2>6 DEF OccupiedSeats, IsSeatOccupied
  <2>8. Bets(u) = Bets(t) /\ Contributions(u) = Contributions(t)
    BY <2>6 DEF Bets, Contributions
  <2>9. Total(gift, Seats) = amount
    <3>1. \A s \in Seats : part[s] \in Int
      BY <2>1
    <3>2. Total(gift, Seats) = Total(part, S)
      BY <2>0, <2>4, <3>1, SeatsFinite, TotalPart
    <3> QED
      BY <2>1, <3>2
  <2>10. Total(Stacks(u), Seats) = Total(Stacks(t), Seats) + amount
    <3> DEFINE f == Stacks(t)
               h == Stacks(u)
    <3>1. \A s \in Seats : f[s] \in Int /\ gift[s] \in Int /\ h[s] = f[s] + gift[s]
      BY <2>5, <2>6 DEF Stacks, Booked
    <3> HIDE DEF f, h
    <3>2. Total(h, Seats) = Total(f, Seats) + Total(gift, Seats)
      BY <3>1, SeatsFinite, TotalPlus
    <3> QED
      BY <2>9, <3>2 DEF f, h
  <2>11. Paid(t, u, amount)
    BY <1>1, <2>2, <2>7, <2>8, <2>10, <2>12 DEF Paid
  <2> QED
    BY <2>11 DEF u
<1> QED
  BY <1>2, <1>3

\* What is paid one after the other adds up.
LEMMA PaidTwice ==
    ASSUME NEW t, Booked(t), NEW u, NEW v, NEW x \in Int, NEW y \in Int,
           Paid(t, u, x), Paid(u, v, y)
    PROVE  Paid(t, v, x + y)
<1>1. /\ Total(Stacks(t), Seats) \in Nat /\ Total(Stacks(u), Seats) \in Nat
      /\ Total(Stacks(v), Seats) \in Nat
  BY SumsAreNat DEF Paid
<1> QED
  BY <1>1 DEF Paid

\* Whoever wins a pot, no more than the pot is paid.
LEMMA PayPotPays ==
    ASSUME NEW t, Booked(t), NEW pots, NEW i, pots[i].amount \in Nat, NEW ranks
    PROVE  Paid(t, PayPot(t, pots, i, ranks), pots[i].amount)
<1>1. \A S, R : Winners(t, S, R) \subseteq S
  BY DEF Winners
<1>2. CASE i = 1
  <2> DEFINE S == {s \in UnfoldedSeats(t) : t.seats[s].total_bet > 0}
             W == IF Winners(t, S, ranks) # {} THEN Winners(t, S, ranks) ELSE LiveSeats(t)
  <2>1. W \in SUBSET OccupiedSeats(t)
    BY <1>1, LiveAreOccupied DEF UnfoldedSeats
  <2>2. PayPot(t, pots, i, ranks) = SplitAmong(t, W, pots[i].amount)
    BY <1>2 DEF PayPot, DistributePot, Award
  <2> HIDE DEF W
  <2> QED
    BY <2>1, <2>2, SplitAmongPays
<1>3. CASE i # 1
  <2> DEFINE S == pots[i].eligible \cap UnfoldedSeats(t)
             W == IF Winners(t, S, ranks) # {} THEN Winners(t, S, ranks) ELSE S
  <2>1. W \in SUBSET OccupiedSeats(t)
    BY <1>1, LiveAreOccupied DEF UnfoldedSeats
  <2>2. PayPot(t, pots, i, ranks) = SplitAmong(t, W, pots[i].amount)
    BY <1>3 DEF PayPot, DistributeSidePot, Award
  <2> HIDE DEF W
  <2> QED
    BY <2>1, <2>2, SplitAmongPays
<1> QED
  BY <1>2, <1>3

\* Paying every pot of a list, and then what they leave of the pot, pays no
\* more than the pots, or than the pot if that is more.
LEMMA PayPotsPays ==
    ASSUME NEW t, Booked(t), NEW pots, Len(pots) \in Nat, DOMAIN pots = 1 .. Len(pots),
           \A i \in 1 .. Len(pots) : pots[i].amount \in Nat, NEW ranks
    PROVE  Paid(t, PayPots(t, pots, ranks),
                IF PotsTotal(pots) < t.pot THEN t.pot ELSE PotsTotal(pots))
<1>0. PICK paid : PaysInTurn(paid, t, pots, ranks)
  BY PayPotsSteps
<1>1. /\ paid[0] = t
      /\ \A i \in 1 .. Len(pots) : paid[i] = PayPot(paid[i - 1], pots, i, ranks)
      /\ PayPots(t, pots, ranks) =
            IF PotsTotal(pots) < t.pot
            THEN SplitAmong(paid[Len(pots)], LiveSeats(t), t.pot - PotsTotal(pots))
            ELSE paid[Len(pots)]
  BY <1>0 DEF PaysInTurn
<1> DEFINE n == Len(pots)
           f == Amounts(pots)
           I(k) == 1 .. k
           T(k) == Total(f, I(k))
<1>2. \A i \in 1 .. n : f[i] = pots[i].amount /\ f[i] \in Nat
  BY DEF Amounts
<1> HIDE DEF f
<1>3. \A k \in 0 .. n : IsFiniteSet(I(k)) /\ I(k) \in SUBSET I(n)
  <2> TAKE k \in 0 .. n
  <2>1. 1 \in Int /\ k \in Int /\ I(k) \in SUBSET I(n)
    OBVIOUS
  <2> QED
    BY <2>1, FS_Interval
<1>4. \A k \in 0 .. n : T(k) \in Nat
  <2> DEFINE J == I(n)
  <2>1. IsFiniteSet(J) /\ \A k \in 0 .. n : I(k) \in SUBSET J
    BY <1>3
  <2>2. \A i \in J : f[i] \in Nat
    BY <1>2
  <2> HIDE DEF J, I
  <2>3. \A K \in SUBSET J : Total(f, K) \in Nat
    BY <2>1, <2>2, TotalNat
  <2> QED
    BY <2>1, <2>3
<1>5. \A k \in 1 .. n : T(k) = f[k] + T(k - 1)
  <2> TAKE k \in 1 .. n
  <2> DEFINE J == I(k)
  <2>1. k \in J /\ I(k - 1) = J \ {k}
    OBVIOUS
  <2>2. IsFiniteSet(J)
    BY <1>3
  <2>3. \A i \in J : f[i] \in Int
    BY <1>2
  <2>4. J \in SUBSET J
    OBVIOUS
  <2> HIDE DEF J, I
  <2>5. \A x \in J : Total(f, J) = f[x] + Total(f, J \ {x})
    BY <2>2, <2>3, <2>4, TotalRemove
  <2> QED
    BY <2>1, <2>5 DEF J
<1>6. T(0) = 0
  <2>1. I(0) = {}
    OBVIOUS
  <2> HIDE DEF I
  <2> QED
    BY <2>1, TotalEmpty
<1>7. PotsTotal(pots) = T(n)
  <2> DEFINE J == I(n)
  <2>1. IsFiniteSet(J) /\ DOMAIN pots = J
    BY <1>3
  <2> HIDE DEF J
  <2>2. PotsTotal(pots) = Total(Amounts(pots), J)
    BY <2>1, AmountSum
  <2> QED
    BY <2>2 DEF f, J
<1> HIDE DEF T
<1> DEFINE Done == {k \in 0 .. n : Paid(t, paid[k], T(k))}
<1>8. \A k \in 0 .. n : k \in Done
  <2>1. 0 \in Done
    <3>1. Total(Stacks(t), Seats) \in Nat
      BY SumsAreNat
    <3>2. Paid(t, t, 0)
      BY <3>1 DEF Paid
    <3> QED
      BY <1>1, <1>6, <3>2
  <2>2. ASSUME NEW k \in 1 .. n, k - 1 \in Done
        PROVE  k \in Done
    <3> DEFINE u == paid[k - 1]
               v == paid[k]
    <3>1. Paid(t, u, T(k - 1)) /\ Booked(u)
      BY <2>2 DEF Paid
    <3>2. v = PayPot(u, pots, k, ranks) /\ pots[k].amount \in Nat
      BY <1>1
    <3> HIDE DEF u, v
    <3>3. Paid(u, v, pots[k].amount)
      BY <3>1, <3>2, PayPotPays
    <3>4. T(k - 1) \in Int /\ pots[k].amount \in Int
      BY <1>4, <3>2
    <3>5. Paid(t, v, T(k - 1) + pots[k].amount)
      BY <3>1, <3>3, <3>4, PaidTwice
    <3>6. T(k) = T(k - 1) + pots[k].amount
      BY <1>2, <1>5, <3>4
    <3> QED
      BY <3>5, <3>6 DEF v
  <2> HIDE DEF Done
  <2> QED
    BY <2>1, <2>2, UpTo
<1> DEFINE u == paid[n]
<1>9. Paid(t, u, T(n)) /\ Booked(u) /\ T(n) \in Nat /\ t.pot \in Nat
  BY <1>4, <1>8 DEF Paid, Booked
<1> HIDE DEF u, n
<1>10. CASE T(n) < t.pot
  <2> DEFINE S == LiveSeats(t)
             x == t.pot - T(n)
  <2>1. S \in SUBSET OccupiedSeats(u) /\ x \in Nat
    BY <1>9, <1>10, LiveAreOccupied DEF Paid
  <2>2. PayPots(t, pots, ranks) = SplitAmong(u, S, x)
    BY <1>1, <1>7, <1>10 DEF u, n
  <2>3. x \in Int /\ T(n) \in Int /\ T(n) + x = t.pot
    BY <1>9, <2>1
  <2> HIDE DEF S, x
  <2>4. Paid(u, SplitAmong(u, S, x), x)
    BY <1>9, <2>1, SplitAmongPays
  <2>5. Paid(t, SplitAmong(u, S, x), T(n) + x)
    BY <1>9, <2>3, <2>4, PaidTwice
  <2> QED
    BY <1>7, <1>10, <2>2, <2>3, <2>5
<1>11. CASE ~(T(n) < t.pot)
  BY <1>1, <1>7, <1>9, <1>11 DEF u, n
<1> QED
  BY <1>10, <1>11

\* The pots of a hand are a list of amounts, and hold what was put in.
LEMMA PotsOfContributions ==
    ASSUME NEW t, Booked(t)
    PROVE  LET pots == Pots(t)
           IN  /\ Len(pots) \in Nat /\ DOMAIN pots = 1 .. Len(pots)
               /\ \A i \in 1 .. Len(pots) : pots[i].amount \in Nat
               /\ PotsTotal(pots) = Total(Contributions(t), Seats)
<1> DEFINE f == Contributions(t)
           folded == Seats \ UnfoldedSeats(t)
           allIn == {s \in OccupiedSeats(t) : t.seats[s].all_in}
           pots == CalculateSidePots(f, folded, allIn)
<1>1. f = [s \in Seats |-> IF t.seats[s].player # NoPlayer THEN t.seats[s].total_bet ELSE 0]
  BY DEF Contributions, Booked
<1>2. Pots(t) = pots
  BY <1>1 DEF Pots
<1>3. f \in [Seats -> Nat] /\ allIn \in SUBSET Seats
  BY PaidAreSeats DEF Contributions, Booked
<1> HIDE DEF f, folded, allIn
<1>4. PICK n \in Nat :
         /\ Len(pots) = n /\ DOMAIN pots = 1 .. n
         /\ \A i \in 1 .. n : pots[i].amount \in Nat
         /\ PotsTotal(pots) = Total(f, Seats)
  BY <1>3, SeatsFinite, PotsAddUp
<1> HIDE DEF pots
<1> QED
  BY <1>2, <1>4 DEF f

\* settle_hand divides what was put in, which pot and bets cover.
LEMMA SettleHandKept ==
    ASSUME NEW t, Ledger(t), Flat(t), NEW ranks
    PROVE  Kept(t, SettleHand(t, ranks))
<1> DEFINE pots == Pots(t)
           u == PayPots(t, pots, ranks)
           x == IF PotsTotal(pots) < t.pot THEN t.pot ELSE PotsTotal(pots)
           v == ResetForNextHand(u)
<1>1. Booked(t)
  BY DEF Ledger
<1>2. /\ Len(pots) \in Nat /\ DOMAIN pots = 1 .. Len(pots)
      /\ \A i \in 1 .. Len(pots) : pots[i].amount \in Nat
      /\ PotsTotal(pots) = Total(Contributions(t), Seats)
  BY <1>1, PotsOfContributions
<1>3. x \in Int /\ x <= t.pot + Total(Bets(t), Seats)
  <2>1. /\ Total(Contributions(t), Seats) \in Nat /\ Total(Bets(t), Seats) \in Nat
        /\ t.pot \in Nat
    BY <1>1, SumsAreNat DEF Booked
  <2> QED
    BY <1>2, <2>1 DEF Ledger
<1> HIDE DEF pots
<1>4. Paid(t, u, x)
  BY <1>1, <1>2, PayPotsPays
<1> HIDE DEF u, x
<1>5. Kept(t, v)
  BY <1>3, <1>4, PaidThenReset
<1>6. SettleHand(t, ranks) = Require(v, t.round = "showdown" /\ t.reveal.phase = "none")
  BY DEF SettleHand, pots, u
<1> HIDE DEF v
<1>7. Kept(v, SettleHand(t, ranks))
  BY <1>5, <1>6, RequireKept, KeptReflexive DEF Kept
<1> QED
  BY <1>5, <1>7, KeptTransitive

-----------------------------------------------------------------------------
(* Dealing and betting rounds.                                             *)

\* u has the chips and the betting round of t.
SameBooks(t, u) ==
    /\ DOMAIN u = TableFields
    /\ u.seats = t.seats /\ u.pot = t.pot /\ u.balance = t.balance
    /\ u.betting = t.betting

\* Dealing moves no chips.
LEMMA DealingMovesNone ==
    ASSUME NEW t, DOMAIN t = TableFields
    PROVE  /\ SameBooks(t, StartPreflopReveal(t))
           /\ \A n, phase : SameBooks(t, StartCommunityReveal(t, n, phase))
           /\ SameBooks(t, StartShowdownReveal(t))
<1>1. SameBooks(t, StartPreflopReveal(t))
  BY DEF SameBooks, StartPreflopReveal, TableFields
<1>2. \A n, phase : SameBooks(t, StartCommunityReveal(t, n, phase))
  BY DEF SameBooks, StartCommunityReveal, TableFields
<1>3. SameBooks(t, StartShowdownReveal(t))
  BY DEF SameBooks, StartShowdownReveal, TableFields
<1> QED
  BY <1>1, <1>2, <1>3

\* What moves no chips keeps the books.
LEMMA SameBooksKept ==
    ASSUME NEW t, Ledger(t), Flat(t), NEW u, SameBooks(t, u)
    PROVE  Kept(t, u)
BY StillKept DEF SameBooks

\* advance_round closes the betting round; no bets may lie in front of the
\* seats any more.
LEMMA AdvanceRoundKept ==
    ASSUME NEW t, Ledger(t), Even(t)
    PROVE  Kept(t, AdvanceRound(t))
<1> DEFINE u == AdvanceRound(t)
<1>1. DOMAIN t = TableFields
  BY DEF Ledger, Booked
<1>2. \E v : /\ DOMAIN v = TableFields /\ v.seats = t.seats /\ v.pot = t.pot
             /\ v.balance = t.balance /\ v.betting = NoRound
             /\ SameBooks(v, u)
  <2> DEFINE closed == [t EXCEPT !.betting = NoRound, !.turn = NoSeat]
             to(round) == [closed EXCEPT !.round = round]
             fresh(round) == [to(round) EXCEPT !.timers.reveal = FALSE]
             shown == [to("showdown") EXCEPT !.timers.showdown = FALSE]
             Fits(v) == /\ DOMAIN v = TableFields /\ v.seats = t.seats /\ v.pot = t.pot
                        /\ v.balance = t.balance /\ v.betting = NoRound
  <2>1. /\ \A round : Fits(fresh(round))
        /\ Fits(closed) /\ Fits(shown)
    BY <1>1 DEF TableFields
  <2>2. /\ t.round = "preflop" => u = StartCommunityReveal(fresh("flop"), FlopCards, "flop")
        /\ t.round = "flop" => u = StartCommunityReveal(fresh("turn"), 1, "turn")
        /\ t.round = "turn" => u = StartCommunityReveal(fresh("river"), 1, "river")
        /\ t.round = "river" => u = StartShowdownReveal(shown)
        /\ t.round \notin {"preflop", "flop", "turn", "river"} => u = closed
    BY DEF AdvanceRound
  <2> HIDE DEF closed, fresh, shown, u
  <2>3. \/ \E round, n, phase : u = StartCommunityReveal(fresh(round), n, phase)
        \/ u = StartShowdownReveal(shown)
        \/ u = closed
    BY <2>2
  <2>4. SameBooks(closed, closed)
    BY <2>1 DEF SameBooks
  <2> QED
    BY <2>1, <2>3, <2>4, DealingMovesNone
<1> HIDE DEF u
<1>3. /\ DOMAIN u = TableFields /\ u.seats = t.seats /\ u.pot = t.pot
      /\ u.balance = t.balance /\ u.betting = NoRound
  BY <1>2 DEF SameBooks
<1>4. DOMAIN NoRound = {"open", "current_bet", "min_raise"} /\ NoRound.current_bet \in Int
  BY DEF NoRound
<1>5. Kept(t, u)
  BY <1>3, <1>4, UnmovedKept
<1> QED
  BY <1>5 DEF u

\* The round ends with the bets collected.
LEMMA CollectedThenAdvancedKept ==
    ASSUME NEW t, Ledger(t)
    PROVE  Kept(t, AdvanceRound(CollectBetsToPot(t)))
<1> DEFINE c == CollectBetsToPot(t)
<1>1. Kept(t, c) /\ Even(c) /\ Ledger(c)
  BY CollectBetsKept DEF Kept
<1> HIDE DEF c
<1>2. Kept(c, AdvanceRound(c))
  BY <1>1, AdvanceRoundKept
<1>3. Kept(t, AdvanceRound(c))
  BY <1>1, <1>2, KeptTransitive
<1> QED
  BY <1>3 DEF c

\* advance_turn
LEMMA AdvanceTurnKept ==
    ASSUME NEW t, Ledger(t), Flat(t)
    PROVE  Kept(t, AdvanceTurn(t))
<1>1. CASE IsBettingComplete(t)
  BY <1>1, CollectedThenAdvancedKept DEF AdvanceTurn
<1>2. CASE ~IsBettingComplete(t)
  <2> DEFINE next == FindNextActiveSeat(t, t.turn)
             u == [t EXCEPT !.turn = next]
  <2>1. SameBooks(t, u)
    BY DEF SameBooks, Ledger, Booked, TableFields
  <2>2. AdvanceTurn(t) = Require(u, t.turn # NoSeat /\ next # NoSeat)
    BY <1>2 DEF AdvanceTurn
  <2> HIDE DEF u, next
  <2>3. Kept(t, u)
    BY <2>1, SameBooksKept
  <2>4. Kept(u, AdvanceTurn(t))
    BY <2>2, <2>3, RequireKept, KeptReflexive DEF Kept
  <2> QED
    BY <2>3, <2>4, KeptTransitive
<1> QED
  BY <1>1, <1>2

\* A table whose seats hold the same chips has the same books.
LEMMA SameSums ==
    ASSUME NEW t, Ledger(t), NEW u, DOMAIN u = TableFields, DOMAIN u.seats = Seats,
           \A s \in Seats : /\ DOMAIN u.seats[s] = SeatFields
                            /\ u.seats[s].stack = t.seats[s].stack
                            /\ u.seats[s].bet = t.seats[s].bet
                            /\ u.seats[s].total_bet = t.seats[s].total_bet
                            /\ u.seats[s].player = t.seats[s].player
                            /\ u.seats[s].left = t.seats[s].left,
           u.pot = t.pot, u.balance = t.balance,
           DOMAIN u.betting = {"open", "current_bet", "min_raise"},
           u.betting.current_bet \in Int
    PROVE  Ledger(u) /\ Surplus(u) >= Surplus(t) /\ (Even(t) => Even(u))
<1>1. Stacks(u) = Stacks(t) /\ Bets(u) = Bets(t) /\ Contributions(u) = Contributions(t)
  BY DEF Stacks, Bets, Contributions
<1>2. Booked(u) /\ Booked(t)
  BY DEF Ledger, Booked
<1>3. Ledger(u)
  BY <1>1, <1>2 DEF Ledger
<1>4. Surplus(u) = Surplus(t) /\ Surplus(t) \in Int
  BY <1>1, <1>2, OwedSum
<1> QED
  BY <1>3, <1>4 DEF Even

\* A blind goes from a stack to the front of its seat.
LEMMA BlindPosted ==
    ASSUME NEW t, Ledger(t), NEW s, NEW blind \in Nat
    PROVE  LET seat == t.seats[s]
               amount == IF seat.stack < blind THEN seat.stack ELSE blind
               u == [t EXCEPT !.seats[s] =
                       [seat EXCEPT !.stack = @ - amount, !.bet = amount,
                                    !.total_bet = amount,
                                    !.all_in = @ \/ seat.stack = amount]]
           IN  Ledger(u) /\ Surplus(u) >= Surplus(t) /\ u.betting = t.betting
<1> DEFINE seat == t.seats[s]
           amount == IF seat.stack < blind THEN seat.stack ELSE blind
           posted == [seat EXCEPT !.stack = @ - amount, !.bet = amount,
                                  !.total_bet = amount,
                                  !.all_in = @ \/ seat.stack = amount]
           u == [t EXCEPT !.seats[s] = posted]
<1>1. /\ DOMAIN t = TableFields /\ DOMAIN t.seats = Seats
      /\ DOMAIN t.betting = {"open", "current_bet", "min_raise"}
      /\ t.betting.current_bet \in Int /\ t.pot \in Nat /\ t.balance \in Int
  BY DEF Ledger, Booked
<1>2. /\ DOMAIN u = TableFields /\ u.seats = [t.seats EXCEPT ![s] = posted]
      /\ u.pot = t.pot /\ u.balance = t.balance /\ u.betting = t.betting
  BY <1>1 DEF TableFields
<1>3. CASE s \in Seats
  <2>1. /\ DOMAIN seat = SeatFields /\ seat.stack \in Nat /\ seat.bet \in Nat
        /\ seat.total_bet \in Nat /\ seat.bet <= seat.total_bet
        /\ seat.player = NoPlayer => seat.total_bet = 0
        /\ seat.player = NoPlayer \/ seat.left => seat.stack = 0
    BY <1>3 DEF Ledger, Booked
  <2>2. amount \in Nat /\ seat.stack - amount \in Nat
    BY <2>1
  <2>3. /\ DOMAIN posted = SeatFields /\ posted.stack = seat.stack - amount
        /\ posted.bet = amount /\ posted.total_bet = amount
        /\ posted.player = seat.player /\ posted.left = seat.left
    BY <2>1 DEF SeatFields
  <2>4. amount <= seat.stack
    BY <2>1
  <2> HIDE DEF amount, posted, u, seat
  <2>5. /\ posted.stack \in Nat /\ posted.bet \in Nat /\ posted.total_bet \in Nat
        /\ posted.bet <= posted.total_bet
        /\ posted.player = NoPlayer => posted.total_bet = 0
        /\ posted.player = NoPlayer \/ posted.left => posted.stack = 0
    BY <2>1, <2>2, <2>3, <2>4
  <2>6. /\ posted.total_bet - t.seats[s].total_bet
              <= (u.pot - t.pot) + (posted.bet - t.seats[s].bet)
        /\ posted.stack + posted.bet + u.pot
              <= t.seats[s].stack + t.seats[s].bet + t.pot + 0
    <3>1. t.pot \in Int /\ u.pot = t.pot /\ amount \in Int
      BY <1>1, <1>2, <2>2
    <3>2. /\ seat.stack \in Int /\ seat.bet \in Int /\ seat.bet >= 0
          /\ seat.total_bet \in Int /\ seat.bet <= seat.total_bet
      BY <2>1
    <3>3. /\ posted.stack = seat.stack - amount /\ posted.bet = amount
          /\ posted.total_bet = amount
      BY <2>3
    <3>4. posted.total_bet - seat.total_bet <= (u.pot - t.pot) + (posted.bet - seat.bet)
      BY <3>1, <3>2, <3>3
    <3>5. posted.stack + posted.bet + u.pot <= seat.stack + seat.bet + t.pot + 0
      BY <3>1, <3>2, <3>3
    <3> QED
      BY <3>4, <3>5 DEF seat
  <2>7. u.balance >= t.balance + Ratio * 0
    BY <1>1, <1>2, TableAssumption
  <2>8. Ledger(u) /\ Surplus(u) >= Surplus(t)
    BY <1>1, <1>2, <1>3, <2>3, <2>5, <2>6, <2>7, SeatChangedKept
  <2> QED
    BY <1>2, <2>8 DEF u, posted, amount, seat
<1>4. CASE s \notin Seats
  <2> HIDE DEF posted
  <2>1. DOMAIN u.seats = Seats /\ \A x \in Seats : u.seats[x] = t.seats[x]
    BY <1>1, <1>2, <1>4
  <2>2. \A x \in Seats : DOMAIN u.seats[x] = SeatFields
    BY <2>1 DEF Ledger, Booked
  <2> HIDE DEF u
  <2>3. Ledger(u) /\ Surplus(u) >= Surplus(t)
    BY <1>1, <1>2, <2>1, <2>2, SameSums
  <2> QED
    BY <1>2, <2>3 DEF u, posted
<1> QED
  BY <1>3, <1>4

\* post_blinds takes the blinds out of two stacks.
LEMMA PostBlindsBooks ==
    ASSUME NEW t, Ledger(t)
    PROVE  Ledger(PostBlinds(t)) /\ Surplus(PostBlinds(t)) >= Surplus(t)
<1> DEFINE headsUp == CountActiveOccupied(t) = 2
           sb == IF headsUp THEN t.button ELSE FindNextActiveSeat(t, t.button)
           bb == FindNextActiveSeat(t, sb)
           post(seat, blind) ==
               LET amount == IF seat.stack < blind THEN seat.stack ELSE blind
               IN  [seat EXCEPT !.stack = @ - amount, !.bet = amount,
                                !.total_bet = amount,
                                !.all_in = @ \/ seat.stack = amount]
           small == [t EXCEPT !.seats[sb] = post(t.seats[sb], SmallBlind)]
           both == [small EXCEPT !.seats[bb] = post(small.seats[bb], BigBlind)]
           first == IF headsUp THEN sb ELSE FindNextActiveSeat(both, bb)
           u == [both EXCEPT !.turn = first]
<1>1. PostBlinds(t) = Abort(t) \/ PostBlinds(t) = u
  BY DEF PostBlinds
<1> HIDE DEF sb, bb, headsUp
<1>2. Ledger(small) /\ Surplus(small) >= Surplus(t)
  <2>1. SmallBlind \in Nat
    BY TableAssumption
  <2> QED
    BY <2>1, BlindPosted
<1> HIDE DEF small
<1>3. Ledger(both) /\ Surplus(both) >= Surplus(small)
  BY <1>2, BlindPosted, TableAssumption
<1> HIDE DEF both, first
<1>4. Surplus(both) >= Surplus(t)
  <2>1. Surplus(both) \in Int /\ Surplus(small) \in Int /\ Surplus(t) \in Int
    BY <1>2, <1>3, OwedSum DEF Ledger
  <2> QED
    BY <1>2, <1>3, <2>1
<1>5. \A v : v.seats = both.seats /\ v.pot = both.pot /\ v.balance = both.balance
               /\ v.betting = both.betting /\ DOMAIN v = TableFields
             => Ledger(v) /\ Surplus(v) >= Surplus(t)
  <2> TAKE v
  <2> HAVE v.seats = both.seats /\ v.pot = both.pot /\ v.balance = both.balance
             /\ v.betting = both.betting /\ DOMAIN v = TableFields
  <2>1. /\ DOMAIN v.seats = Seats
        /\ DOMAIN v.betting = {"open", "current_bet", "min_raise"}
        /\ v.betting.current_bet \in Int
        /\ \A s \in Seats : DOMAIN v.seats[s] = SeatFields
    BY <1>3 DEF Ledger, Booked
  <2>2. Ledger(v) /\ Surplus(v) >= Surplus(both)
    BY <1>3, <2>1, SameSums
  <2>3. Surplus(both) \in Int /\ Surplus(v) \in Int /\ Surplus(t) \in Int
    BY <1>3, <2>2, OwedSum DEF Ledger
  <2> QED
    BY <1>4, <2>2, <2>3
<1>6. /\ u.seats = both.seats /\ u.pot = both.pot /\ u.balance = both.balance
      /\ u.betting = both.betting /\ DOMAIN u = TableFields
  BY <1>3 DEF Ledger, Booked, TableFields
<1> HIDE DEF u
<1>7. Ledger(u) /\ Surplus(u) >= Surplus(t)
  BY <1>5, <1>6
<1>8. Ledger(Abort(t)) /\ Surplus(Abort(t)) >= Surplus(t)
  <2> DEFINE v == Abort(t)
  <2>1. /\ v.seats = t.seats /\ v.pot = t.pot /\ v.balance = t.balance
        /\ v.betting = t.betting /\ DOMAIN v = TableFields
    BY DEF Abort, Ledger, Booked, TableFields
  <2> HIDE DEF v
  <2>2. /\ DOMAIN v.seats = Seats
        /\ DOMAIN v.betting = {"open", "current_bet", "min_raise"}
        /\ v.betting.current_bet \in Int
        /\ \A s \in Seats : DOMAIN v.seats[s] = SeatFields
    BY <2>1 DEF Ledger, Booked
  <2>3. Ledger(v) /\ Surplus(v) >= Surplus(t)
    BY <2>1, <2>2, SameSums
  <2> QED
    BY <2>3 DEF v
<1> QED
  BY <1>1, <1>7, <1>8

\* start_betting_round opens the round; after the flop no bets lie in front of
\* the seats when it is called.
LEMMA StartBettingRoundBooks ==
    ASSUME NEW t, Ledger(t), NEW preflop \in BOOLEAN, preflop \/ Even(t)
    PROVE  Kept(t, StartBettingRound(t, preflop))
<1> DEFINE seats == [s \in Seats |->
                       [t.seats[s] EXCEPT !.acted = FALSE,
                                          !.bet = IF preflop THEN @ ELSE 0]]
           round == IF preflop THEN NewPreflop(BigBlind) ELSE NewPostflop(BigBlind)
           opened == [t EXCEPT !.betting = round, !.seats = seats]
           next == FindNextActiveSeat(t, t.button)
           turned == [opened EXCEPT !.turn = next]
<1>1. /\ DOMAIN round = {"open", "current_bet", "min_raise"} /\ round.open
      /\ round.current_bet \in Int
  BY TableAssumption DEF NewPreflop, NewPostflop
<1>2. DOMAIN t = TableFields
  BY DEF Ledger, Booked
<1>3. \A v \in {opened, turned} :
         /\ DOMAIN v = TableFields /\ v.seats = seats /\ v.pot = t.pot
         /\ v.balance = t.balance /\ v.betting = round
  <2>1. /\ DOMAIN opened = TableFields /\ opened.seats = seats /\ opened.pot = t.pot
        /\ opened.balance = t.balance /\ opened.betting = round
    <3> HIDE DEF seats, round
    <3> QED
      BY <1>2 DEF TableFields
  <2> HIDE DEF opened, seats, round, next
  <2>2. /\ DOMAIN turned = TableFields /\ turned.seats = seats /\ turned.pot = t.pot
        /\ turned.balance = t.balance /\ turned.betting = round
    BY <2>1 DEF TableFields
  <2> QED
    BY <2>1, <2>2
<1>4. /\ DOMAIN seats = Seats
      /\ \A s \in Seats : /\ DOMAIN seats[s] = SeatFields
                          /\ seats[s].stack = t.seats[s].stack
                          /\ seats[s].bet = t.seats[s].bet
                          /\ seats[s].total_bet = t.seats[s].total_bet
                          /\ seats[s].player = t.seats[s].player
                          /\ seats[s].left = t.seats[s].left
  BY DEF Ledger, Booked, SeatFields, Even
<1> HIDE DEF seats, round, opened, turned, next
<1>5. \A v \in {opened, turned} : Kept(t, v)
  <2> TAKE v \in {opened, turned}
  <2>1. /\ DOMAIN v = TableFields /\ v.seats = seats /\ v.pot = t.pot
        /\ v.balance = t.balance /\ v.betting = round
    BY <1>3
  <2>2. /\ DOMAIN v.seats = Seats
        /\ \A s \in Seats : /\ DOMAIN v.seats[s] = SeatFields
                            /\ v.seats[s].stack = t.seats[s].stack
                            /\ v.seats[s].bet = t.seats[s].bet
                            /\ v.seats[s].total_bet = t.seats[s].total_bet
                            /\ v.seats[s].player = t.seats[s].player
                            /\ v.seats[s].left = t.seats[s].left
    BY <1>4, <2>1
  <2>3. /\ DOMAIN v.betting = {"open", "current_bet", "min_raise"} /\ v.betting.open
        /\ v.betting.current_bet \in Int
    BY <1>1, <2>1
  <2>4. Ledger(v) /\ Surplus(v) >= Surplus(t)
    BY <2>1, <2>2, <2>3, SameSums
  <2> QED
    BY <2>3, <2>4 DEF Kept, Flat
<1>6. Kept(t, AdvanceRound(CollectBetsToPot(opened)))
  <2>1. Kept(t, opened) /\ Ledger(opened)
    BY <1>5 DEF Kept
  <2>2. Kept(opened, AdvanceRound(CollectBetsToPot(opened)))
    BY <2>1, CollectedThenAdvancedKept
  <2> QED
    BY <2>1, <2>2, KeptTransitive
<1>7. \/ StartBettingRound(t, preflop) = AdvanceRound(CollectBetsToPot(opened))
      \/ StartBettingRound(t, preflop) = opened
      \/ StartBettingRound(t, preflop) = turned
  BY DEF StartBettingRound, opened, turned, seats, round, next
<1> QED
  BY <1>5, <1>6, <1>7

\* A reveal phase that is over leads to the blinds, to a betting round, or to
\* the settlement.
LEMMA CheckRevealKept ==
    ASSUME NEW t, Ledger(t), Flat(t), NEW ranks, t.reveal.phase # "none" => Even(t)
    PROVE  Kept(t, CheckRevealPhaseComplete(t, ranks))
<1> DEFINE cleared == [t EXCEPT !.reveal = EmptyReveal]
           untimed == [cleared EXCEPT !.timers.betting = FALSE]
           shown == [cleared EXCEPT !.timers.showdown = FALSE]
           written == WriteCommunity(untimed)
           blinds == PostBlinds(untimed)
           u == CheckRevealPhaseComplete(t, ranks)
<1>1. DOMAIN t = TableFields
  BY DEF Ledger, Booked
<1>2. \A v \in {cleared, untimed, shown, written} : SameBooks(t, v)
  BY <1>1 DEF SameBooks, TableFields, WriteCommunity
<1>3. \/ u = t
      \/ u = cleared
      \/ u = SettleHand(shown, ranks)
      \/ t.reveal.phase # "none" /\ u = StartBettingRound(blinds, TRUE)
      \/ t.reveal.phase # "none" /\ u = StartBettingRound(written, FALSE)
  BY DEF CheckRevealPhaseComplete
<1> HIDE DEF cleared, untimed, shown, written, u
<1>4. \A v \in {cleared, untimed, shown, written} :
         Kept(t, v) /\ Ledger(v) /\ Flat(v) /\ (Even(t) => Even(v))
  BY <1>2, SameBooksKept DEF SameBooks, Kept, Even
<1>5. Kept(t, SettleHand(shown, ranks))
  BY <1>4, SettleHandKept, KeptTransitive
<1>6. ASSUME Even(t) PROVE Kept(t, StartBettingRound(written, FALSE))
  <2>1. Kept(written, StartBettingRound(written, FALSE))
    BY <1>4, <1>6, StartBettingRoundBooks
  <2> QED
    BY <1>4, <2>1, KeptTransitive
<1>7. Kept(t, StartBettingRound(blinds, TRUE))
  <2>1. Ledger(blinds) /\ Surplus(blinds) >= Surplus(untimed)
    BY <1>4, PostBlindsBooks
  <2> HIDE DEF blinds
  <2> DEFINE w == StartBettingRound(blinds, TRUE)
  <2>2. Kept(blinds, w)
    BY <2>1, StartBettingRoundBooks
  <2> HIDE DEF w
  <2>3. Ledger(w) /\ Flat(w) /\ Surplus(w) >= Surplus(blinds)
    BY <2>2 DEF Kept
  <2>4. /\ Surplus(t) \in Int /\ Surplus(untimed) \in Int /\ Surplus(blinds) \in Int
        /\ Surplus(w) \in Int
    BY <1>4, <2>1, <2>3, OwedSum DEF Ledger
  <2>5. Surplus(untimed) >= Surplus(t)
    BY <1>4 DEF Kept
  <2>6. Surplus(w) >= Surplus(t)
    BY <2>1, <2>3, <2>4, <2>5
  <2> QED
    BY <2>3, <2>6 DEF Kept, w
<1>8. Kept(t, t)
  BY KeptReflexive
<1>9. Kept(t, u)
  BY <1>3, <1>4, <1>5, <1>6, <1>7, <1>8
<1> QED
  BY <1>9 DEF u

\* A reveal dealt again after a reconstruction, or an abort.
LEMMA ResumeRevealKept ==
    ASSUME NEW t, Ledger(t), Flat(t)
    PROVE  Kept(t, ResumeReveal(t))
<1> DEFINE lacking(n, phase) ==
               Require(StartCommunityReveal(t, n - t.ready, phase), t.ready <= n)
           shown == [t EXCEPT !.timers.showdown = FALSE]
           u == ResumeReveal(t)
<1>1. DOMAIN t = TableFields
  BY DEF Ledger, Booked
<1>2. \A n, phase : Kept(t, lacking(n, phase))
  <2> TAKE n, phase
  <2> DEFINE v == StartCommunityReveal(t, n - t.ready, phase)
             w == Require(v, t.ready <= n)
  <2>1. Kept(t, v)
    BY <1>1, DealingMovesNone, SameBooksKept
  <2> HIDE DEF v
  <2>2. Kept(v, w)
    BY <2>1, RequireKept, KeptReflexive DEF Kept
  <2>3. Kept(t, w)
    BY <2>1, <2>2, KeptTransitive
  <2> QED
    BY <2>3 DEF v
<1>3. SameBooks(t, shown) /\ DOMAIN shown = TableFields
  BY <1>1 DEF SameBooks, TableFields
<1>4. \/ u = StartPreflopReveal(t)
      \/ \E n, phase : u = lacking(n, phase)
      \/ u = StartShowdownReveal(shown)
      \/ u = t
  BY DEF ResumeReveal
<1> HIDE DEF lacking, shown, u
<1>5. Kept(t, StartPreflopReveal(t))
  BY <1>1, DealingMovesNone, SameBooksKept
<1>6. Kept(t, StartShowdownReveal(shown))
  <2>1. Kept(t, shown)
    BY <1>3, SameBooksKept
  <2>2. Kept(shown, StartShowdownReveal(shown))
    BY <1>3, <2>1, DealingMovesNone, SameBooksKept DEF Kept
  <2> QED
    BY <2>1, <2>2, KeptTransitive
<1>7. Kept(t, u)
  BY <1>2, <1>4, <1>5, <1>6, KeptReflexive
<1> QED
  BY <1>7 DEF u

\* advance_shuffle moves no chips.
LEMMA AdvanceShuffleKept ==
    ASSUME NEW t, Ledger(t), Flat(t)
    PROVE  Kept(t, AdvanceShuffle(t))
<1> DEFINE untimed == [t EXCEPT !.timers.reveal = FALSE, !.shuffle = EmptyShuffle]
           next == [t EXCEPT !.shuffle.current = Min(t.shuffle.pending),
                             !.timers.shuffle = FALSE]
           dealing == [untimed EXCEPT !.round = "preflop"]
           rebuilt == [untimed EXCEPT !.reconstruct = EmptyReconstruct,
                                      !.reveal = EmptyReveal]
           u == AdvanceShuffle(t)
<1>1. DOMAIN t = TableFields
  BY DEF Ledger, Booked
<1>2. \A v \in {next, dealing, rebuilt} : SameBooks(t, v) /\ DOMAIN v = TableFields
  <2>1. SameBooks(t, next)
    BY <1>1 DEF SameBooks, TableFields
  <2>2. SameBooks(t, untimed)
    BY <1>1 DEF SameBooks, TableFields
  <2> HIDE DEF next, untimed
  <2>3. SameBooks(t, dealing)
    BY <2>2 DEF SameBooks, TableFields
  <2>4. SameBooks(t, rebuilt)
    BY <2>2 DEF SameBooks, TableFields
  <2> HIDE DEF dealing, rebuilt
  <2> QED
    BY <2>1, <2>3, <2>4 DEF SameBooks
<1>3. \/ u = t
      \/ u = next
      \/ u = StartPreflopReveal(dealing)
      \/ u = ResumeReveal(rebuilt)
  BY DEF AdvanceShuffle
<1> HIDE DEF next, dealing, rebuilt, u
<1>4. \A v \in {next, dealing, rebuilt} : Kept(t, v) /\ Ledger(v) /\ Flat(v)
  BY <1>2, SameBooksKept DEF Kept
<1>5. Kept(t, StartPreflopReveal(dealing))
  <2>1. Kept(dealing, StartPreflopReveal(dealing))
    BY <1>2, <1>4, DealingMovesNone, SameBooksKept
  <2> QED
    BY <1>4, <2>1, KeptTransitive
<1>6. Kept(t, ResumeReveal(rebuilt))
  BY <1>4, ResumeRevealKept, KeptTransitive
<1>7. Kept(t, u)
  BY <1>3, <1>4, <1>5, <1>6, KeptReflexive
<1> QED
  BY <1>7 DEF u

-----------------------------------------------------------------------------
(* Folding, kicking and timeouts.                                          *)

\* One step that keeps the books after another does.
LEMMA KeptThen ==
    ASSUME NEW t, NEW u, NEW v, Ledger(t), Kept(t, u),
           Ledger(u) /\ Flat(u) => Kept(u, v)
    PROVE  Kept(t, v)
<1>1. Kept(u, v)
  BY DEF Kept
<1> QED
  BY <1>1, KeptTransitive

\* assert! after a step that keeps the books.
LEMMA RequiredKept ==
    ASSUME NEW t, NEW u, Ledger(t), Kept(t, u), NEW cond
    PROVE  Kept(t, Require(u, cond))
BY KeptThen, RequireKept

\* do_fold
LEMMA DoFoldKept ==
    ASSUME NEW t, Ledger(t), Flat(t), NEW s
    PROVE  Kept(t, DoFold(t, s))
<1> DEFINE seat == t.seats[s]
           folded == [t EXCEPT !.seats[s] = [seat EXCEPT !.folded = TRUE, !.acted = TRUE],
                               !.timers.betting = FALSE]
           next == IF CountActivePlayers(folded) <= 1 THEN EndWithoutShowdown(folded)
                   ELSE AdvanceTurn(folded)
<1>1. /\ DOMAIN folded = TableFields /\ DOMAIN folded.seats = Seats
      /\ \A x \in Seats : /\ DOMAIN folded.seats[x] = SeatFields
                          /\ folded.seats[x].stack = t.seats[x].stack
                          /\ folded.seats[x].bet = t.seats[x].bet
                          /\ folded.seats[x].total_bet = t.seats[x].total_bet
                          /\ folded.seats[x].player = t.seats[x].player
                          /\ folded.seats[x].left = t.seats[x].left
      /\ folded.pot = t.pot /\ folded.balance = t.balance /\ folded.betting = t.betting
  BY DEF Ledger, Booked, TableFields, SeatFields
<1>2. /\ DOMAIN t.betting = {"open", "current_bet", "min_raise"}
      /\ t.betting.current_bet \in Int
  BY DEF Ledger, Booked
<1>3. DoFold(t, s) = Require(next, IsSeatOccupied(seat) /\ ~seat.folded)
  BY DEF DoFold
<1> HIDE DEF folded
<1>4. Kept(t, folded)
  <2>1. Ledger(folded) /\ Surplus(folded) >= Surplus(t) /\ (Even(t) => Even(folded))
    BY <1>1, <1>2, SameSums
  <2> QED
    BY <1>1, <2>1 DEF Kept, Flat
<1>5. Kept(t, EndWithoutShowdown(folded)) /\ Kept(t, AdvanceTurn(folded))
  BY <1>4, KeptThen, EndWithoutShowdownKept, AdvanceTurnKept
<1>6. Kept(t, next)
  BY <1>5
<1> HIDE DEF next
<1> QED
  BY <1>3, <1>6, RequiredKept

\* A kick pays the stack out and puts the bet into the pot; what was put in
\* before stays there.
LEMMA UnseatedKept ==
    ASSUME NEW t, Ledger(t), Flat(t), NEW s \in Seats
    PROVE  Kept(t, Unseated(t, s))
<1> DEFINE seat == t.seats[s]
           kicked == KickedSeat(seat)
           marked == [t EXCEPT !.seats[s] = kicked, !.pot = @ + seat.bet]
           keyed == IF seat.is_waiting THEN marked ELSE RemovePk(marked, seat.player)
           paid == RefundSui(keyed, seat.stack)
           u == DropFromPhases(paid, s)
<1>1. /\ DOMAIN t = TableFields /\ DOMAIN t.seats = Seats
      /\ DOMAIN t.betting = {"open", "current_bet", "min_raise"}
      /\ t.betting.current_bet \in Int /\ t.pot \in Nat /\ t.balance \in Int
  BY DEF Ledger, Booked
<1>2. /\ DOMAIN seat = SeatFields /\ seat.stack \in Nat /\ seat.bet \in Nat
      /\ seat.total_bet \in Nat /\ seat.bet <= seat.total_bet
      /\ seat.player = NoPlayer => seat.total_bet = 0
  BY DEF Ledger, Booked
<1>3. /\ DOMAIN kicked = SeatFields /\ kicked.stack = 0 /\ kicked.bet = 0
      /\ kicked.total_bet = seat.total_bet /\ kicked.player = seat.player
  BY <1>2 DEF KickedSeat, SeatFields
<1>4. Unseated(t, s) = u
  BY DEF Unseated
<1> HIDE DEF seat, kicked
<1>5. /\ DOMAIN marked = TableFields /\ marked.seats = [t.seats EXCEPT ![s] = kicked]
      /\ marked.pot = t.pot + seat.bet /\ marked.balance = t.balance
      /\ marked.betting = t.betting
  BY <1>1 DEF TableFields
<1> HIDE DEF marked
<1>6. /\ DOMAIN keyed = TableFields /\ keyed.seats = marked.seats
      /\ keyed.pot = marked.pot /\ keyed.balance = marked.balance
      /\ keyed.betting = marked.betting
  BY <1>5 DEF RemovePk, TableFields
<1> HIDE DEF keyed
<1>7. seat.stack * Ratio \in Int /\ keyed.balance \in Int
  BY <1>1, <1>2, <1>5, <1>6, TableAssumption
<1>8. /\ DOMAIN paid = TableFields /\ paid.seats = keyed.seats
      /\ paid.pot = keyed.pot /\ paid.balance = keyed.balance - seat.stack * Ratio
      /\ paid.betting = keyed.betting
  BY <1>6, <1>7 DEF RefundSui, Require, Abort, TableFields
<1> HIDE DEF paid
<1>9. /\ DOMAIN u = TableFields /\ u.seats = paid.seats /\ u.pot = paid.pot
      /\ u.balance = paid.balance /\ u.betting = paid.betting
  BY <1>8 DEF DropFromPhases, TableFields
<1> HIDE DEF u
<1>10. /\ DOMAIN u = TableFields /\ u.seats = [t.seats EXCEPT ![s] = kicked]
       /\ u.pot = t.pot + seat.bet /\ u.balance = t.balance - seat.stack * Ratio
       /\ u.betting = t.betting
  BY <1>5, <1>6, <1>8, <1>9
<1> DEFINE d == -seat.stack
<1>11. /\ d \in Int /\ u.pot \in Nat /\ u.balance \in Int
       /\ kicked.total_bet - t.seats[s].total_bet
             <= (u.pot - t.pot) + (kicked.bet - t.seats[s].bet)
       /\ kicked.stack + kicked.bet + u.pot
             <= t.seats[s].stack + t.seats[s].bet + t.pot + d
       /\ u.balance >= t.balance + Ratio * d
  <2>1. d \in Int /\ u.pot \in Nat /\ u.balance \in Int
    BY <1>1, <1>2, <1>7, <1>10
  <2>2. kicked.total_bet - seat.total_bet <= (u.pot - t.pot) + (kicked.bet - seat.bet)
    BY <1>1, <1>2, <1>3, <1>10
  <2>3. kicked.stack + kicked.bet + u.pot <= seat.stack + seat.bet + t.pot + d
    BY <1>1, <1>2, <1>3, <1>10
  <2>4. u.balance >= t.balance + Ratio * d
    <3>1. Ratio \in Int
      BY TableAssumption
    <3> QED
      BY <1>1, <1>2, <1>10, <3>1
  <2> QED
    BY <2>1, <2>2, <2>3, <2>4 DEF seat
<1>12. /\ kicked.stack \in Nat /\ kicked.bet \in Nat /\ kicked.total_bet \in Nat
       /\ kicked.bet <= kicked.total_bet
       /\ kicked.player = NoPlayer => kicked.total_bet = 0
       /\ kicked.player = NoPlayer \/ kicked.left => kicked.stack = 0
  BY <1>2, <1>3
<1> HIDE DEF d
<1>13. Ledger(u) /\ Surplus(u) >= Surplus(t)
  BY <1>1, <1>3, <1>10, <1>11, <1>12, SeatChangedKept
<1>14. Flat(u)
  BY <1>1, <1>3, <1>10 DEF Flat, Even
<1> QED
  BY <1>4, <1>13, <1>14 DEF Kept

\* kick_player_internal
LEMMA KickPlayerInternalKept ==
    ASSUME NEW t, Ledger(t), Flat(t), NEW s \in Seats
    PROVE  /\ Kept(t, KickPlayerInternal(t, s))
           /\ Kept(t, KickIfSeated(t, s))
<1> DEFINE a == Unseated(t, s)
           b == ShufflePassed(a, s)
           c == TurnPassed(b, s)
           d == ResetIfTooFew(c)
<1>1. Kept(t, a)
  BY UnseatedKept
<1> HIDE DEF a
<1>2. Ledger(a) /\ Flat(a) => Kept(a, b)
  <2> DEFINE v == [a EXCEPT !.shuffle.current = NoSeat]
  <2> HAVE Ledger(a) /\ Flat(a)
  <2>1. SameBooks(a, v)
    BY DEF SameBooks, Ledger, Booked, TableFields
  <2>2. b = a \/ b = AdvanceShuffle(v)
    BY DEF ShufflePassed
  <2> HIDE DEF v, b
  <2>3. Kept(a, v)
    BY <2>1, SameBooksKept
  <2>4. Kept(a, AdvanceShuffle(v))
    BY <2>3, KeptThen, AdvanceShuffleKept
  <2> QED
    BY <2>2, <2>4, KeptReflexive
<1> HIDE DEF b
<1>3. Ledger(b) /\ Flat(b) => Kept(b, c)
  BY KeptReflexive, EndWithoutShowdownKept, AdvanceTurnKept DEF TurnPassed
<1> HIDE DEF c
<1>4. Ledger(c) /\ Flat(c) => Kept(c, d)
  BY KeptReflexive, ResetKept DEF ResetIfTooFew
<1>5. Kept(t, d)
  BY <1>1, <1>2, <1>3, <1>4, KeptThen
<1>6. KickPlayerInternal(t, s) = Abort(t) \/ KickPlayerInternal(t, s) = d
  BY DEF KickPlayerInternal, a, b, c
<1> HIDE DEF d
<1>7. Kept(t, KickPlayerInternal(t, s))
  BY <1>5, <1>6, RequireKept
<1> QED
  BY <1>7, KeptReflexive DEF KickIfSeated

\* However many seats are kicked in a row, the books are kept.
LEMMA KickAllKept ==
    ASSUME NEW t, Ledger(t), Flat(t), NEW order, Len(order) \in Nat,
           \A i \in 1 .. Len(order) : order[i] \in Seats
    PROVE  Kept(t, KickAll(t, order))
<1> DEFINE n == Len(order)
<1>1. PICK after : /\ after[0] = t
                   /\ \A i \in 1 .. n : after[i] = KickIfSeated(after[i - 1], order[i])
                   /\ KickAll(t, order) = after[n]
  BY KickAllSteps
<1> DEFINE Right == {k \in 0 .. n : Kept(t, after[k])}
<1>2. \A k \in 0 .. n : k \in Right
  <2>1. 0 \in Right
    BY <1>1, KeptReflexive
  <2>2. ASSUME NEW k \in 1 .. n, k - 1 \in Right
        PROVE  k \in Right
    <3> DEFINE u == after[k - 1]
               v == after[k]
    <3>1. Kept(t, u)
      BY <2>2
    <3>2. v = KickIfSeated(u, order[k]) /\ order[k] \in Seats
      BY <1>1
    <3> HIDE DEF u, v
    <3>3. Kept(t, v)
      BY <3>1, <3>2, KeptThen, KickPlayerInternalKept
    <3> QED
      BY <3>3 DEF v
  <2> HIDE DEF Right
  <2> QED
    BY <2>1, <2>2, UpTo
<1>3. n \in Right
  BY <1>2
<1> QED
  BY <1>1, <1>3

-----------------------------------------------------------------------------
(* Starting a hand, reconstructions and timeouts.                          *)

\* A shuffle that starts after the books are left alone.
LEMMA ShuffleAfter ==
    ASSUME NEW t, Ledger(t), Flat(t), NEW u, SameBooks(t, u)
    PROVE  Kept(t, AdvanceShuffle(u))
BY SameBooksKept, KeptThen, AdvanceShuffleKept

\* do_start_hand
LEMMA DoStartHandKept ==
    ASSUME NEW t, Ledger(t), Flat(t)
    PROVE  Kept(t, DoStartHand(t))
<1> DEFINE moved == [MoveButton(t) EXCEPT !.timers.shuffle = FALSE]
           u == [moved EXCEPT !.shuffle.pending = PendingSeats(t),
                              !.shuffle.phase = "before_preflop"]
           cond == t.round = "waiting" /\ CountActiveOccupied(t) >= MinPlayers
<1>1. SameBooks(t, MoveButton(t))
  BY DEF MoveButton, SameBooks, Ledger, Booked, TableFields
<1>2. SameBooks(t, u)
  BY <1>1 DEF SameBooks, TableFields
<1>3. DoStartHand(t) = Require(AdvanceShuffle(u), cond)
  BY DEF DoStartHand
<1> HIDE DEF u, cond
<1> QED
  BY <1>2, <1>3, ShuffleAfter, RequiredKept

\* on_complete_reconstruct
LEMMA OnCompleteReconstructKept ==
    ASSUME NEW t, Ledger(t), Flat(t)
    PROVE  Kept(t, OnCompleteReconstruct(t))
<1> DEFINE u == ShuffleAmongActive(
                   [RebuildDeck(t) EXCEPT !.reconstruct.phase = "none"], "reconstruct")
<1>1. SameBooks(t, u)
  BY DEF ShuffleAmongActive, RebuildDeck, SameBooks, Ledger, Booked, TableFields
<1>2. OnCompleteReconstruct(t) = AdvanceShuffle(u)
  BY DEF OnCompleteReconstruct
<1> HIDE DEF u
<1> QED
  BY <1>1, <1>2, ShuffleAfter

\* A hand that is refunded and reset leaves no books to carry on.
LEMMA RefundThenResetKept ==
    ASSUME NEW t, Ledger(t), Flat(t)
    PROVE  Kept(t, ResetForNextHand(RefundAllBets(t)))
BY RefundAllBetsKept, ResetKept, KeptThen

\* After the kicks of a timeout the hand is refunded, ends, or goes on.
LEMMA AfterKicksKept ==
    ASSUME NEW t, NEW u, Ledger(t), Kept(t, u), NEW goOn,
           Ledger(u) /\ Flat(u) => Kept(u, goOn)
    PROVE  Kept(t, AfterKicks(u, goOn))
<1>1. Ledger(u) /\ Flat(u)
  BY DEF Kept
<1>2. /\ Kept(u, ResetForNextHand(RefundAllBets(u)))
      /\ Kept(u, EndWithoutShowdown(u))
  BY <1>1, RefundThenResetKept, EndWithoutShowdownKept
<1>3. \/ AfterKicks(u, goOn) = ResetForNextHand(RefundAllBets(u))
      \/ AfterKicks(u, goOn) = EndWithoutShowdown(u)
      \/ AfterKicks(u, goOn) = goOn
  BY DEF AfterKicks
<1>4. Kept(u, AfterKicks(u, goOn))
  BY <1>1, <1>2, <1>3
<1> QED
  BY <1>4, KeptTransitive

\* on_reconstruct_timeout
LEMMA OnReconstructTimeoutKept ==
    ASSUME NEW t, Ledger(t), Flat(t), Good(t)
    PROVE  Kept(t, OnReconstructTimeout(t))
<1> DEFINE missing == t.reconstruct.pending
           order == Ascending(missing)
           u == KickAll(t, order)
<1>1. missing \in SUBSET Seats /\ missing \in SUBSET Int /\ IsFiniteSet(missing)
  BY SomeSeatsFinite, TableAssumption DEF Good, Sound, Shaped, Seats
<1> HIDE DEF missing
<1>2. Len(order) \in Nat /\ \A i \in 1 .. Len(order) : order[i] \in Seats
  <2>1. Cardinality(missing) \in Nat /\ Len(order) = Cardinality(missing)
    BY <1>1, AscendingLists
  <2>2. \A i \in 1 .. Cardinality(missing) : order[i] \in missing
    BY <1>1, AscendingMembers
  <2> HIDE DEF order
  <2>3. 1 .. Len(order) = 1 .. Cardinality(missing)
    BY <2>1, Zenon
  <2> QED
    BY <1>1, <2>1, <2>2, <2>3
<1> HIDE DEF order
<1>3. Kept(t, u)
  BY <1>2, KickAllKept
<1>4. OnReconstructTimeout(t) = AfterReconstructKicks(u)
  BY DEF OnReconstructTimeout, order, missing
<1> HIDE DEF u
<1>5. Ledger(u) /\ Flat(u)
  BY <1>3 DEF Kept
<1>6. Kept(u, AfterReconstructKicks(u))
  <2>1. /\ Kept(u, ResetForNextHand(RefundAllBets(u))) /\ Kept(u, EndWithoutShowdown(u))
        /\ Kept(u, u) /\ Kept(u, OnCompleteReconstruct(u))
    BY <1>5, RefundThenResetKept, EndWithoutShowdownKept, KeptReflexive,
       OnCompleteReconstructKept
  <2> QED
    BY <2>1 DEF AfterReconstructKicks
<1> QED
  BY <1>3, <1>4, <1>6, KeptTransitive

\* on_reveal_timeout
LEMMA OnRevealTimeoutKept ==
    ASSUME NEW t, Ledger(t), Flat(t), Good(t), t.reveal.phase # "none"
    PROVE  Kept(t, OnRevealTimeout(t))
<1> DEFINE order == RevealDebtors(t)
           u == KickAll(t, order)
<1>1. DOMAIN t.reveal.asg \subseteq Nat
  BY DEF Good, Sound, Asking
<1>2. Len(order) \in Nat /\ \A i \in 1 .. Len(order) : order[i] \in Seats
  BY <1>1, DebtorsListed
<1> HIDE DEF order
<1>3. Kept(t, u)
  BY <1>2, KickAllKept
<1>4. \/ OnRevealTimeout(t) = RestartAfterKicks(u)
      \/ OnRevealTimeout(t) = ReconstructAfterKicks(u)
  BY DEF OnRevealTimeout, order
<1> HIDE DEF u
<1>5. Kept(t, RestartAfterKicks(u))
  BY <1>3, AfterKicksKept, RefundThenResetKept DEF RestartAfterKicks
<1>6. Kept(t, ReconstructAfterKicks(u))
  <2>1. Ledger(u) /\ Flat(u) => Kept(u, StartReconstruct(u))
    <3> HAVE Ledger(u) /\ Flat(u)
    <3>1. SameBooks(u, StartReconstruct(u))
      BY DEF StartReconstruct, SameBooks, Ledger, Booked, TableFields
    <3> QED
      BY <3>1, SameBooksKept
  <2>2. Kept(t, AfterKicks(u, StartReconstruct(u)))
    BY <1>3, <2>1, AfterKicksKept
  <2> QED
    BY <1>3, <2>2 DEF ReconstructAfterKicks
<1> QED
  BY <1>4, <1>5, <1>6

\* on_shuffle_timeout
LEMMA OnShuffleTimeoutKept ==
    ASSUME NEW t, Ledger(t), Flat(t), t.shuffle.current = NoSeat \/ t.shuffle.current \in Seats
    PROVE  Kept(t, OnShuffleTimeout(t))
<1> DEFINE s == t.shuffle.current
           u == KickPlayerInternal(t, s)
           again == IF u.shuffle.phase = "none" THEN u
                    ELSE AdvanceShuffle(ShuffleAmongActive(u, "before_preflop"))
           without == ShuffleAmongActive(
                         RebuildDeck([u EXCEPT !.reconstruct.decks = @ \ {s}]), "reconstruct")
           rebuilt == IF u.shuffle.phase # "reconstruct" THEN u ELSE AdvanceShuffle(without)
<1>1. CASE s = NoSeat
  BY <1>1, KeptReflexive DEF OnShuffleTimeout
<1>2. CASE s # NoSeat
  <2>1. Kept(t, u)
    BY <1>2, KickPlayerInternalKept
  <2>2. OnShuffleTimeout(t) = AfterKicks(u, again) \/ OnShuffleTimeout(t) = AfterKicks(u, rebuilt)
    BY <1>2 DEF OnShuffleTimeout, ReshuffleAfterKick, RebuildAfterKick
  <2> HIDE DEF u
  <2>3. ASSUME Ledger(u), Flat(u)
        PROVE  Kept(u, again) /\ Kept(u, rebuilt)
    <3>1. SameBooks(u, ShuffleAmongActive(u, "before_preflop"))
      BY <2>3 DEF ShuffleAmongActive, SameBooks, Ledger, Booked, TableFields
    <3>2. SameBooks(u, without)
      BY <2>3 DEF ShuffleAmongActive, RebuildDeck, SameBooks, Ledger, Booked, TableFields
    <3> HIDE DEF without
    <3>3. Kept(u, u)
      BY <2>3, KeptReflexive
    <3>4. Kept(u, AdvanceShuffle(without))
      BY <2>3, <3>2, ShuffleAfter
    <3>5. Kept(u, AdvanceShuffle(ShuffleAmongActive(u, "before_preflop")))
      BY <2>3, <3>1, ShuffleAfter
    <3> QED
      BY <3>3, <3>4, <3>5
  <2> HIDE DEF again, rebuilt
  <2> QED
    BY <2>1, <2>2, <2>3, AfterKicksKept
<1> QED
  BY <1>1, <1>2

-----------------------------------------------------------------------------
(* The tick.                                                               *)

\* No bets lie in front of the seats while cards are opened.
LEMMA EvenWhileRevealing ==
    ASSUME NEW t, Good(t), Flat(t)
    PROVE  t.reveal.phase # "none" => Even(t)
BY DEF Good, Sound, Exclusive, Flat

\* A timer that is started or stopped moves no chips.
LEMMA TimersKept ==
    ASSUME NEW t, Ledger(t), Flat(t), NEW timers
    PROVE  Kept(t, [t EXCEPT !.timers = timers])
<1> DEFINE u == [t EXCEPT !.timers = timers]
<1>1. SameBooks(t, u)
  BY DEF SameBooks, Ledger, Booked, TableFields
<1> HIDE DEF u
<1>2. Kept(t, u)
  BY <1>1, SameBooksKept
<1> QED
  BY <1>2 DEF u

\* The shuffle in the tick.
LEMMA TickShuffleKept ==
    ASSUME NEW t, Ledger(t), Flat(t), Good(t), t.shuffle.phase # "none", NEW expired
    PROVE  Kept(t, TickShuffle(t, expired))
<1> DEFINE timers == [t.timers EXCEPT !.shuffle = TRUE]
<1>1. \/ TickShuffle(t, expired) = AdvanceShuffle(t)
      \/ TickShuffle(t, expired) = OnShuffleTimeout(t)
      \/ TickShuffle(t, expired) = [t EXCEPT !.timers = timers]
  BY DEF TickShuffle
<1> HIDE DEF timers
<1>2. t.shuffle.current \in Seats
  <2>1. ActiveSeats(t) \subseteq Seats
    BY ActiveAreSeats
  <2> QED
    BY <2>1 DEF Good, Sound, Covers, Led
<1> QED
  BY <1>1, <1>2, AdvanceShuffleKept, OnShuffleTimeoutKept, TimersKept

\* The reveal in the tick, and the timer of what follows it.
LEMMA TickRevealKept ==
    ASSUME NEW t, Ledger(t), Flat(t), Good(t), Calm(t), NEW expired, NEW ranks
    PROVE  Kept(t, TickReveal(t, expired, ranks))
<1> DEFINE u == Answered(t, ranks)
           timers == [u.timers EXCEPT !.reveal = TRUE]
<1>1. Good(u)
  BY AnsweredOnward DEF Onward
<1>2. Kept(t, u)
  BY EvenWhileRevealing, CheckRevealKept, KeptReflexive DEF Answered
<1>3. \/ TickReveal(t, expired, ranks) = u
      \/ u.reveal.phase # "none" /\ TickReveal(t, expired, ranks) = OnRevealTimeout(u)
      \/ TickReveal(t, expired, ranks) = [u EXCEPT !.timers = timers]
  BY DEF TickReveal, RevealTimed
<1> HIDE DEF u, timers
<1>4. Kept(u, TickReveal(t, expired, ranks))
  BY <1>1, <1>2, <1>3, KeptReflexive, OnRevealTimeoutKept, TimersKept DEF Kept
<1> QED
  BY <1>2, <1>4, KeptTransitive

\* Betting in the tick.
LEMMA TickBettingKept ==
    ASSUME NEW t, Ledger(t), Flat(t), NEW expired
    PROVE  Kept(t, TickBetting(t, expired))
<1> DEFINE timers == [t.timers EXCEPT !.betting = TRUE]
<1>1. \/ TickBetting(t, expired) = AdvanceRound(CollectBetsToPot(t))
      \/ TickBetting(t, expired) = DoFold(t, t.turn)
      \/ TickBetting(t, expired) = [t EXCEPT !.timers = timers]
  BY DEF TickBetting
<1> HIDE DEF timers
<1> QED
  BY <1>1, CollectedThenAdvancedKept, DoFoldKept, TimersKept

\* The showdown in the tick.
LEMMA TickShowdownKept ==
    ASSUME NEW t, Ledger(t), Flat(t), NEW expired, NEW ranks
    PROVE  Kept(t, TickShowdown(t, expired, ranks))
<1> DEFINE timers == [t.timers EXCEPT !.showdown = TRUE]
           started == [t EXCEPT !.timers = timers]
<1>1. \/ TickShowdown(t, expired, ranks) = SettleHand(started, ranks)
      \/ TickShowdown(t, expired, ranks) = started
  BY DEF TickShowdown
<1> HIDE DEF timers
<1>2. Kept(t, started)
  BY TimersKept
<1> HIDE DEF started
<1> QED
  BY <1>1, <1>2, SettleHandKept, KeptThen

\* tick, whatever it finds and whichever timers have run out.
LEMMA TickedKept ==
    ASSUME NEW t, Ledger(t), Flat(t), Good(t), NEW expired, NEW ranks
    PROVE  Kept(t, Ticked(t, expired, ranks))
<1>1. CASE t.reconstruct.phase # "none"
  <2>1. Ticked(t, expired, ranks) = TickReconstruct(t, expired)
    BY <1>1 DEF Ticked, IsPlaying
  <2> QED
    BY <2>1, OnReconstructTimeoutKept, KeptReflexive DEF TickReconstruct
<1>2. CASE t.reconstruct.phase = "none" /\ t.shuffle.phase # "none"
  <2>1. Ticked(t, expired, ranks) = TickShuffle(t, expired)
    BY <1>2 DEF Ticked, IsPlaying
  <2> QED
    BY <1>2, <2>1, TickShuffleKept
<1>3. CASE /\ t.reconstruct.phase = "none" /\ t.shuffle.phase = "none"
           /\ t.reveal.phase # "none"
  <2>1. Ticked(t, expired, ranks) = TickReveal(t, expired, ranks)
    BY <1>3 DEF Ticked, IsPlaying
  <2> QED
    BY <1>3, <2>1, TickRevealKept DEF Calm
<1>4. CASE Still(t)
  <2>1. CASE ~IsPlaying(t)
    <3>1. Ticked(t, expired, ranks) = TickWaiting(t)
      BY <1>4, <2>1 DEF Ticked, Still
    <3> QED
      BY <3>1, DoStartHandKept, KeptReflexive DEF TickWaiting
  <2>2. CASE IsPlaying(t)
    <3>1. \/ Ticked(t, expired, ranks) = TickBetting(t, expired)
          \/ Ticked(t, expired, ranks) = TickShowdown(t, expired, ranks)
          \/ Ticked(t, expired, ranks) = ResetForNextHand(RefundAllBets(t))
      BY <1>4, <2>2 DEF Ticked, Still
    <3> QED
      BY <3>1, TickBettingKept, TickShowdownKept, RefundThenResetKept
  <2> QED
    BY <2>1, <2>2
<1> QED
  BY <1>1, <1>2, <1>3, <1>4 DEF Still

-----------------------------------------------------------------------------
(* Joining and leaving.                                                    *)

\* A seat that is handed over with whole chips for whole coins: the stack of
\* the new player is covered by the coin, the old one is paid out.
LEMMA HandOverKept ==
    ASSUME NEW t, Ledger(t), Flat(t), NEW s \in Seats, NEW seat, NEW u, NEW d \in Int,
           DOMAIN u = TableFields, u.seats = [t.seats EXCEPT ![s] = seat],
           u.betting = t.betting, u.pot = t.pot,
           u.balance \in Int, u.balance >= t.balance + Ratio * d,
           DOMAIN seat = SeatFields, seat.stack \in Nat,
           seat.bet = 0, seat.total_bet = 0,
           seat.player = NoPlayer \/ seat.left => seat.stack = 0,
           seat.stack <= t.seats[s].stack + d
    PROVE  Kept(t, u)
<1>1. /\ DOMAIN t.seats = Seats /\ DOMAIN t.betting = {"open", "current_bet", "min_raise"}
      /\ t.betting.current_bet \in Int /\ t.pot \in Nat
      /\ t.seats[s].stack \in Nat /\ t.seats[s].bet \in Nat
      /\ t.seats[s].total_bet \in Nat /\ t.seats[s].bet <= t.seats[s].total_bet
  BY DEF Ledger, Booked
<1>2. seat.total_bet - t.seats[s].total_bet <= (u.pot - t.pot) + (seat.bet - t.seats[s].bet)
  BY <1>1
<1>3. seat.stack + seat.bet + u.pot <= t.seats[s].stack + t.seats[s].bet + t.pot + d
  BY <1>1
<1>4. Ledger(u) /\ Surplus(u) >= Surplus(t)
  BY <1>1, <1>2, <1>3, SeatChangedKept
<1>5. Flat(u)
  BY <1>1 DEF Flat, Even
<1> QED
  BY <1>4, <1>5 DEF Kept

\* join_table and join_and_shuffle: the coin covers the stack it buys, and
\* what does not make a whole chip besides.
LEMMA SeatedKept ==
    ASSUME NEW t, Ledger(t), Flat(t), NEW p \in Players, NEW s \in Seats,
           NEW coin \in Coins, NEW isWaiting, ~IsSeatOccupied(t.seats[s])
    PROVE  Kept(t, Seated(t, p, s, coin, isWaiting))
<1> DEFINE d == coin \div Ratio
           seat == InitSeat(p, d, isWaiting)
           u == Seated(t, p, s, coin, isWaiting)
<1>1. coin \in Nat /\ Ratio \in Nat /\ Ratio > 0 /\ p # NoPlayer
  BY EnvironmentAssumption, TableAssumption
<1>2. d \in Nat /\ Ratio * d <= coin
  BY <1>1, Z3
<1>3. /\ DOMAIN u = TableFields /\ u.seats = [t.seats EXCEPT ![s] = seat]
      /\ u.betting = t.betting /\ u.pot = t.pot /\ u.balance = t.balance + coin
  BY DEF Seated, Ledger, Booked, TableFields
<1>4. /\ DOMAIN seat = SeatFields /\ seat.stack = d /\ seat.bet = 0 /\ seat.total_bet = 0
      /\ seat.player = p /\ ~seat.left
  BY DEF InitSeat, EmptySeat, SeatFields
<1>5. t.seats[s].stack = 0 /\ t.balance \in Int
  BY DEF IsSeatOccupied, Ledger, Booked
<1> HIDE DEF d, seat, u
<1>6. u.balance \in Int /\ u.balance >= t.balance + Ratio * d
  <2>1. Ratio * d \in Int
    BY <1>1, <1>2
  <2> QED
    BY <1>1, <1>2, <1>3, <1>5, <2>1
<1>7. seat.stack <= t.seats[s].stack + d
  BY <1>2, <1>4, <1>5
<1>8. Kept(t, u)
  BY <1>1, <1>2, <1>3, <1>4, <1>6, <1>7, HandOverKept
<1> QED
  BY <1>8 DEF u

\* The stack goes out as SUI, and the seat is reset.
LEMMA DepartedKept ==
    ASSUME NEW t, Ledger(t), Flat(t), NEW s \in Seats
    PROVE  Kept(t, Departed(t, s))
<1> DEFINE stack == t.seats[s].stack
           paid == RefundSui(t, stack)
           none == EmptySeat
           u == [paid EXCEPT !.seats[s] = none]
           d == -stack
<1>1. stack \in Nat /\ t.balance \in Int /\ Booked(t)
  BY DEF Ledger, Booked
<1>2. stack * Ratio \in Int
  BY <1>1, TableAssumption
<1>3. /\ DOMAIN paid = TableFields /\ paid.seats = t.seats /\ paid.pot = t.pot
      /\ paid.betting = t.betting /\ paid.balance = t.balance - stack * Ratio
  BY <1>1, <1>2, RefundSuiTakes DEF RefundSui, Require, Abort, Booked, TableFields
<1>4. Departed(t, s) = u
  BY DEF Departed
<1>5. /\ DOMAIN none = SeatFields /\ none.stack = 0 /\ none.bet = 0 /\ none.total_bet = 0
  BY DEF EmptySeat, SeatFields
<1> HIDE DEF paid, none
<1>6. /\ DOMAIN u = TableFields /\ u.seats = [t.seats EXCEPT ![s] = none]
      /\ u.betting = t.betting /\ u.pot = t.pot /\ u.balance = t.balance - stack * Ratio
  BY <1>3 DEF TableFields
<1> HIDE DEF u, stack
<1>7. d \in Int /\ u.balance \in Int /\ u.balance >= t.balance + Ratio * d
  <2>1. Ratio \in Int
    BY TableAssumption
  <2> QED
    BY <1>1, <1>2, <1>6, <2>1
<1>8. none.stack \in Nat /\ none.stack <= t.seats[s].stack + d
  BY <1>1, <1>5 DEF stack
<1> HIDE DEF d
<1> QED
  BY <1>4, <1>5, <1>6, <1>7, <1>8, HandOverKept

\* join_table, join_and_shuffle, leave_with_proof and leave_table.
LEMMA JoinLeaveKept ==
    ASSUME Ledger(table), Flat(table), Join \/ Leave
    PROVE  Kept(table, table')
<1>1. ASSUME NEW p \in Players, NEW s \in Seats, NEW coin \in Coins,
             JoinTable(p, s, coin) \/ JoinAndShuffle(p, s, coin)
      PROVE  Kept(table, table')
  <2>1. \E isWaiting :
           LET u == Seated(table, p, s, coin, isWaiting)
           IN  SameBooks(u, table') \/ table' = u
    <3> DEFINE v(w) == Seated(table, p, s, coin, w)
    <3>1. \A w : DOMAIN v(w) = TableFields
      BY DEF Seated, Ledger, Booked, TableFields
    <3> HIDE DEF v
    <3>2. PICK w : \/ table' = v(w)
                   \/ table' = AddPk(v(w), p)
                   \/ table' = [AddPk(v(w), p) EXCEPT !.shuffle.completed = @ \cup {s},
                                                      !.shuffle.pending = @ \ {s}]
      BY <1>1 DEF JoinTable, JoinAndShuffle, Commit, v
    <3> DEFINE x == v(w)
               y == AddPk(x, p)
               z == [y EXCEPT !.shuffle.completed = @ \cup {s}, !.shuffle.pending = @ \ {s}]
    <3>3. DOMAIN x = TableFields
      BY <3>1
    <3> HIDE DEF x
    <3>4. SameBooks(x, y) /\ SameBooks(x, z)
      BY <3>3 DEF AddPk, SameBooks, TableFields
    <3> HIDE DEF y, z
    <3>5. table' = x \/ table' = y \/ table' = z
      BY <3>2 DEF x, y, z
    <3>6. SameBooks(x, table') \/ table' = x
      BY <3>4, <3>5
    <3> QED
      BY <3>6 DEF x, v
  <2>2. ~IsSeatOccupied(table.seats[s])
    BY <1>1 DEF JoinTable, JoinAndShuffle, CanSit
  <2> QED
    BY <2>1, <2>2, SeatedKept, KeptThen, SameBooksKept, KeptReflexive
<1>2. ASSUME NEW s \in Seats, LeaveWithProof(s) \/ LeaveTable(s)
      PROVE  Kept(table, table')
  <2>1. \E u : SameBooks(table, u) /\ table' = Departed(u, s)
    <3>1. DOMAIN table = TableFields
      BY DEF Ledger, Booked
    <3> DEFINE unkeyed == RemovePk(table, table.seats[s].player)
               unshuffled == [unkeyed EXCEPT !.shuffle.pending = @ \ {s},
                                             !.shuffle.completed = @ \ {s}]
    <3>2. /\ SameBooks(table, table) /\ SameBooks(table, unkeyed)
          /\ SameBooks(table, unshuffled)
      BY <3>1 DEF SameBooks, RemovePk, TableFields
    <3>3. \/ table' = Departed(table, s) \/ table' = Departed(unkeyed, s)
          \/ table' = Departed(unshuffled, s)
      BY <1>2 DEF LeaveWithProof, LeaveTable, Commit
    <3> HIDE DEF unkeyed, unshuffled
    <3> QED
      BY <3>2, <3>3
  <2> QED
    BY <2>1, SameBooksKept, KeptThen, DepartedKept
<1> QED
  BY <1>1, <1>2 DEF Join, Leave

-----------------------------------------------------------------------------
(* The card protocol.                                                      *)

\* submit_shuffle
LEMMA SubmitShuffleKept ==
    ASSUME Ledger(table), Flat(table), NEW s \in Seats, SubmitShuffle(s)
    PROVE  Kept(table, table')
<1> DEFINE u == [table EXCEPT !.shuffle.completed = @ \cup {s},
                              !.shuffle.pending = @ \ {s}]
<1>1. table' = AdvanceShuffle(u)
  BY DEF SubmitShuffle, Commit
<1>2. SameBooks(table, u)
  BY DEF SameBooks, Ledger, Booked, TableFields
<1> HIDE DEF u
<1> QED
  BY <1>1, <1>2, ShuffleAfter

\* submit_reconstruct_deck
LEMMA SubmitReconstructDeckKept ==
    ASSUME Ledger(table), Flat(table), NEW s \in Seats, SubmitReconstructDeck(s)
    PROVE  Kept(table, table')
<1> DEFINE u == [table EXCEPT !.reconstruct.pending = @ \ {s},
                              !.reconstruct.decks = @ \cup {s}]
<1>1. table' = OnCompleteReconstruct(u) \/ table' = u
  BY DEF SubmitReconstructDeck, Commit
<1>2. SameBooks(table, u)
  BY DEF SameBooks, Ledger, Booked, TableFields
<1> HIDE DEF u
<1> QED
  BY <1>1, <1>2, SameBooksKept, KeptThen, OnCompleteReconstructKept

\* Cards that are opened or dealt again are no chips.
LEMMA CardsMoveNone ==
    ASSUME NEW t, DOMAIN t = TableFields, NEW s, NEW S, NEW done, NEW blank
    PROVE  /\ SameBooks(t, TokensTaken(t, s, S))
           /\ SameBooks(t, HoleCardsOpened(t, done))
           /\ SameBooks(t, HoleCardsShown(t, done))
           /\ SameBooks(t, CommunityOpened(t, done, blank))
<1>1. SameBooks(t, TokensTaken(t, s, S))
  BY DEF TokensTaken, SameBooks, TableFields
<1>2. SameBooks(t, HoleCardsOpened(t, done))
  BY DEF HoleCardsOpened, SameBooks, TableFields
<1>3. SameBooks(t, HoleCardsShown(t, done))
  BY DEF HoleCardsShown, SameBooks, TableFields
<1>4. SameBooks(t, CommunityOpened(t, done, blank))
  <2> DEFINE n == Cardinality(blank)
             dealt == [t EXCEPT !.ready = @ + Cardinality(done \ blank), !.blanks = @ - n]
  <2>1. SameBooks(t, dealt)
    BY DEF SameBooks, TableFields
  <2>2. \/ CommunityOpened(t, done, blank) = dealt
        \/ \E asg, cond : CommunityOpened(t, done, blank) =
              Require([dealt EXCEPT !.dealt = @ + n, !.reveal.asg = asg], cond)
    BY DEF CommunityOpened
  <2> HIDE DEF dealt, n
  <2>3. \A asg : SameBooks(t, [dealt EXCEPT !.dealt = @ + n, !.reveal.asg = asg])
    BY <2>1 DEF SameBooks, TableFields
  <2>4. ASSUME NEW v, SameBooks(t, v), NEW cond
        PROVE  SameBooks(t, Require(v, cond))
    BY <2>4 DEF SameBooks, TableFields, Require, Abort
  <2> QED
    BY <2>1, <2>2, <2>3, <2>4
<1> QED
  BY <1>1, <1>2, <1>3, <1>4

\* submit_player_reveal_tokens: with the last token the next phase begins, or
\* the hand is settled.
LEMMA SubmitRevealTokensKept ==
    ASSUME Ledger(table), Flat(table), Good(table), NEW s \in Seats, NEW S, NEW blank,
           NEW ranks, SubmitRevealTokens(s, S, blank, ranks)
    PROVE  Kept(table, table')
<1> DEFINE done == {a \in S : table.reveal.asg[a].pending = {s}}
           taken == TokensTaken(table, s, S)
           u == TokensOpened(s, S, blank)
<1>1. table' = CheckRevealPhaseComplete(u, ranks)
  BY DEF SubmitRevealTokens, Commit, TokensOpened
<1>2. Good(u)
  BY TokensOpenedGood
<1>3. SameBooks(table, taken)
  BY CardsMoveNone DEF Ledger, Booked
<1>4. \/ u = HoleCardsOpened(taken, done)
      \/ u = HoleCardsShown(taken, done)
      \/ u = CommunityOpened(taken, done, blank)
  BY DEF TokensOpened
<1> HIDE DEF done, taken, u
<1>5. SameBooks(taken, u)
  BY <1>3, <1>4, CardsMoveNone DEF SameBooks
<1>6. SameBooks(table, u)
  BY <1>3, <1>5 DEF SameBooks
<1>7. Kept(table, u)
  BY <1>6, SameBooksKept
<1>8. Kept(u, CheckRevealPhaseComplete(u, ranks))
  BY <1>2, <1>7, EvenWhileRevealing, CheckRevealKept DEF Kept
<1> QED
  BY <1>1, <1>7, <1>8, KeptTransitive

-----------------------------------------------------------------------------
(* Betting.                                                                *)

\* The flags of who has acted are no chips.
LEMMA ActedKept ==
    ASSUME NEW t, Ledger(t), Flat(t), NEW s
    PROVE  /\ Kept(t, Acted(t, s))
           /\ Kept(t, ResetOtherPlayersActed(t, s))
<1> DEFINE Like(u) ==
               /\ DOMAIN u = TableFields /\ DOMAIN u.seats = Seats
               /\ \A x \in Seats : /\ DOMAIN u.seats[x] = SeatFields
                                   /\ u.seats[x].stack = t.seats[x].stack
                                   /\ u.seats[x].bet = t.seats[x].bet
                                   /\ u.seats[x].total_bet = t.seats[x].total_bet
                                   /\ u.seats[x].player = t.seats[x].player
                                   /\ u.seats[x].left = t.seats[x].left
               /\ u.pot = t.pot /\ u.balance = t.balance /\ u.betting = t.betting
<1>1. Like(Acted(t, s))
  BY DEF Acted, Ledger, Booked, TableFields, SeatFields
<1>2. Like(ResetOtherPlayersActed(t, s))
  BY DEF ResetOtherPlayersActed, Ledger, Booked, TableFields, SeatFields
<1>3. ASSUME NEW u, Like(u)
      PROVE  Kept(t, u)
  <2>1. /\ DOMAIN t.betting = {"open", "current_bet", "min_raise"}
        /\ t.betting.current_bet \in Int
    BY DEF Ledger, Booked
  <2>2. Ledger(u) /\ Surplus(u) >= Surplus(t) /\ (Even(t) => Even(u))
    BY <1>3, <2>1, SameSums
  <2> QED
    BY <1>3, <2>2 DEF Kept, Flat
<1> HIDE DEF Like
<1> QED
  BY <1>1, <1>2, <1>3

\* Chips go from a stack to the front of its seat, no more than it holds.
LEMMA PutInKept ==
    ASSUME NEW t, Ledger(t), t.betting.open, NEW s \in OccupiedSeats(t), NEW amount \in Nat,
           amount <= t.seats[s].stack, NEW betting, betting.open,
           DOMAIN betting = {"open", "current_bet", "min_raise"},
           betting.current_bet \in Int
    PROVE  /\ Kept(t, [t EXCEPT !.seats[s] = PutIn(@, amount)])
           /\ Kept(t, [t EXCEPT !.betting = betting, !.seats[s] = PutIn(@, amount)])
<1> DEFINE seat == PutIn(t.seats[s], amount)
           u == [t EXCEPT !.seats[s] = PutIn(@, amount)]
           v == [t EXCEPT !.betting = betting, !.seats[s] = PutIn(@, amount)]
<1>1. /\ s \in Seats /\ DOMAIN t = TableFields /\ DOMAIN t.seats = Seats
      /\ DOMAIN t.betting = {"open", "current_bet", "min_raise"}
      /\ t.betting.current_bet \in Int /\ t.pot \in Nat /\ t.balance \in Int
      /\ DOMAIN t.seats[s] = SeatFields
      /\ t.seats[s].stack \in Nat /\ t.seats[s].bet \in Nat
      /\ t.seats[s].total_bet \in Nat /\ t.seats[s].bet <= t.seats[s].total_bet
      /\ t.seats[s].player # NoPlayer /\ ~t.seats[s].left
  BY DEF Ledger, Booked, OccupiedSeats, IsSeatOccupied
<1>2. /\ DOMAIN seat = SeatFields /\ seat.stack = t.seats[s].stack - amount
      /\ seat.bet = t.seats[s].bet + amount
      /\ seat.total_bet = t.seats[s].total_bet + amount
      /\ seat.player = t.seats[s].player /\ seat.left = t.seats[s].left
  BY <1>1 DEF PutIn, SeatFields
<1>3. /\ DOMAIN u = TableFields /\ u.seats = [t.seats EXCEPT ![s] = seat]
      /\ u.betting = t.betting /\ u.pot = t.pot /\ u.balance = t.balance
  BY <1>1 DEF TableFields
<1>4. /\ DOMAIN v = TableFields /\ v.seats = [t.seats EXCEPT ![s] = seat]
      /\ v.betting = betting /\ v.pot = t.pot /\ v.balance = t.balance
  BY <1>1 DEF TableFields
<1> HIDE DEF seat, u, v
<1>5. /\ seat.stack \in Nat /\ seat.bet \in Nat /\ seat.total_bet \in Nat
      /\ seat.bet <= seat.total_bet
      /\ seat.total_bet - t.seats[s].total_bet <= (t.pot - t.pot) + (seat.bet - t.seats[s].bet)
      /\ seat.stack + seat.bet + t.pot <= t.seats[s].stack + t.seats[s].bet + t.pot + 0
      /\ t.balance >= t.balance + Ratio * 0
  BY <1>1, <1>2, TableAssumption
<1>6. /\ seat.player = NoPlayer => seat.total_bet = 0
      /\ seat.player = NoPlayer \/ seat.left => seat.stack = 0
  BY <1>1, <1>2
<1>7. ASSUME NEW w, DOMAIN w = TableFields, w.seats = [t.seats EXCEPT ![s] = seat],
             w.pot = t.pot, w.balance = t.balance, w.betting.open,
             DOMAIN w.betting = {"open", "current_bet", "min_raise"},
             w.betting.current_bet \in Int
      PROVE  Kept(t, w)
  <2>1. /\ seat.total_bet - t.seats[s].total_bet
              <= (w.pot - t.pot) + (seat.bet - t.seats[s].bet)
        /\ seat.stack + seat.bet + w.pot <= t.seats[s].stack + t.seats[s].bet + t.pot + 0
        /\ w.balance >= t.balance + Ratio * 0
    BY <1>5, <1>7
  <2>2. w.pot \in Nat /\ w.balance \in Int /\ 0 \in Int
    BY <1>1, <1>7
  <2>3. Ledger(w) /\ Surplus(w) >= Surplus(t)
    BY <1>1, <1>2, <1>5, <1>6, <1>7, <2>1, <2>2, SeatChangedKept
  <2> QED
    BY <1>7, <2>3 DEF Kept, Flat
<1>8. Kept(t, u) /\ Kept(t, v)
  BY <1>1, <1>3, <1>4, <1>7
<1> QED
  BY <1>8 DEF u, v

\* fold, auto_fold and force_fold
LEMMA FoldsKept ==
    ASSUME Ledger(table), Flat(table), NEW s, Fold(s) \/ AutoFold(s) \/ ForceFold(s)
    PROVE  Kept(table, table')
<1>1. table' = DoFold(table, s)
  BY DEF Fold, AutoFold, ForceFold, Commit
<1> QED
  BY <1>1, DoFoldKept

\* check and call: a call takes what is owed, or the whole stack.
LEMMA CheckCallKept ==
    ASSUME Ledger(table), Flat(table), NEW s, Check(s) \/ Call(s)
    PROVE  Kept(table, table')
<1> DEFINE seat == table.seats[s]
           amount == CallAmount(table.betting, seat)
           paid == [table EXCEPT !.seats[s] = PutIn(@, amount)]
<1>1. /\ IsBettingRound(table) /\ s \in OccupiedSeats(table)
      /\ \/ table' = AdvanceTurn(Acted(table, s))
         \/ table' = AdvanceTurn(Acted(paid, s))
  BY DEF Check, Call, OnTurn, Commit
<1>2. /\ table.betting.open /\ seat.stack \in Nat /\ seat.bet \in Nat
      /\ table.betting.current_bet \in Int
      /\ DOMAIN table.betting = {"open", "current_bet", "min_raise"}
  BY <1>1 DEF IsBettingRound, OccupiedSeats, Ledger, Booked
<1>3. amount \in Nat /\ amount <= seat.stack
  BY <1>2 DEF CallAmount, ChipsToCall
<1> HIDE DEF amount
<1>4. Kept(table, paid)
  BY <1>1, <1>2, <1>3, PutInKept
<1> HIDE DEF paid
<1>5. Kept(table, Acted(table, s)) /\ Kept(table, Acted(paid, s))
  BY <1>4, ActedKept, KeptThen
<1> QED
  BY <1>1, <1>5, AdvanceTurnKept, KeptThen

\* raise: up to the whole stack.
LEMMA RaiseKept ==
    ASSUME Ledger(table), Flat(table), NEW s, NEW total \in Int, Raise(s, total)
    PROVE  Kept(table, table')
<1> DEFINE seat == table.seats[s]
           amount == total - seat.bet
           betting == RaisedRound(table.betting, total)
           raised == [table EXCEPT !.betting = betting, !.seats[s] = PutIn(@, amount)]
           acted == Acted(raised, s)
           u == ResetOtherPlayersActed(acted, s)
<1>1. /\ IsBettingRound(table) /\ s \in OccupiedSeats(table)
      /\ CanRaiseTo(table.betting, seat, total)
      /\ table' = AdvanceTurn(u)
  BY DEF Raise, OnTurn, Commit
<1>2. /\ table.betting.open /\ seat.stack \in Nat /\ seat.bet \in Nat
      /\ DOMAIN table.betting = {"open", "current_bet", "min_raise"}
  BY <1>1 DEF IsBettingRound, OccupiedSeats, Ledger, Booked
<1>3. amount \in Nat /\ amount <= seat.stack
  BY <1>1, <1>2 DEF CanRaiseTo
<1>4. /\ betting.open /\ DOMAIN betting = {"open", "current_bet", "min_raise"}
      /\ betting.current_bet \in Int
  BY <1>2 DEF RaisedRound
<1> HIDE DEF amount, betting
<1>5. Kept(table, raised)
  BY <1>1, <1>2, <1>3, <1>4, PutInKept
<1> HIDE DEF raised
<1>6. Kept(table, acted)
  BY <1>5, ActedKept, KeptThen
<1> HIDE DEF acted
<1>7. Kept(table, u)
  BY <1>6, ActedKept, KeptThen
<1> HIDE DEF u
<1> QED
  BY <1>1, <1>7, AdvanceTurnKept, KeptThen

-----------------------------------------------------------------------------
(* The invariant and what it implies.                                      *)

\* Whatever is called, in any state the invariant allows, keeps the books.
LEMMA NextKept ==
    ASSUME Ledger(table), Flat(table), Good(table), [Next]_vars
    PROVE  Kept(table, table')
<1>1. CASE Join \/ Leave
  BY <1>1, JoinLeaveKept
<1>2. CASE StartHand
  BY <1>2, DoStartHandKept DEF StartHand, Commit
<1>3. CASE Protocol
  BY <1>3, SubmitShuffleKept, SubmitRevealTokensKept, SubmitReconstructDeckKept
     DEF Protocol
<1>4. CASE Bet
  <2>1. PICK s \in Seats : \/ Fold(s) \/ Check(s) \/ Call(s) \/ AutoFold(s)
                           \/ \E total \in 1 .. table.seats[s].bet + table.seats[s].stack :
                                 Raise(s, total)
    BY <1>4 DEF Bet
  <2>2. table.seats[s].bet + table.seats[s].stack \in Int
    BY <2>1 DEF Ledger, Booked
  <2> QED
    BY <2>1, <2>2, FoldsKept, CheckCallKept, RaiseKept
<1>5. CASE Relay
  BY <1>5, TickedKept DEF Relay, Tick, Commit
<1>6. CASE Admin
  BY <1>6, FoldsKept, KickPlayerInternalKept DEF Admin, KickPlayer, Commit
<1>7. CASE UNCHANGED vars
  BY <1>7, KeptReflexive DEF vars
<1> QED
  BY <1>1, <1>2, <1>3, <1>4, <1>5, <1>6, <1>7 DEF Next

\* The books of an empty table.
LEMMA NewTableKept == Ledger(NewTable) /\ Flat(NewTable) /\ Surplus(NewTable) >= 0
<1> DEFINE t == NewTable
           Zero(f) == \A s \in Seats : f[s] = 0
<1>1. /\ DOMAIN t = TableFields /\ DOMAIN t.seats = Seats
      /\ DOMAIN t.betting = {"open", "current_bet", "min_raise"}
      /\ t.betting.current_bet = 0 /\ t.pot = 0 /\ t.balance = 0
      /\ \A s \in Seats : /\ DOMAIN t.seats[s] = SeatFields
                          /\ t.seats[s].stack = 0 /\ t.seats[s].bet = 0
                          /\ t.seats[s].total_bet = 0
  BY DEF NewTable, NoRound, EmptySeat, TableFields, SeatFields
<1> HIDE DEF t
<1>2. Booked(t) /\ Flat(t)
  BY <1>1 DEF Booked, Flat, Even
<1>3. Zero(Stacks(t)) /\ Zero(Bets(t)) /\ Zero(Contributions(t))
  BY <1>1 DEF Stacks, Bets, Contributions
<1>4. ASSUME NEW f, Zero(f)
      PROVE  Total(f, Seats) = 0
  <2>1. Total(f, Seats) = Cardinality(Seats) * 0
    BY <1>4, SeatsFinite, TotalSame
  <2>2. Cardinality(Seats) \in Nat
    BY SeatsFinite, FS_CardinalityType
  <2> QED
    BY <2>1, <2>2
<1> HIDE DEF Zero
<1>5. /\ Total(Stacks(t), Seats) = 0 /\ Total(Bets(t), Seats) = 0
      /\ Total(Contributions(t), Seats) = 0
  BY <1>3, <1>4
<1>6. Ledger(t)
  BY <1>1, <1>2, <1>5 DEF Ledger
<1>7. Owed(t) = 0 /\ Surplus(t) = t.balance - Ratio * Owed(t)
  BY <1>1, <1>2, <1>5, OwedSum
<1>8. Surplus(t) = 0
  BY <1>1, <1>7, TableAssumption
<1>9. Ledger(t) /\ Flat(t) /\ Surplus(t) >= 0
  BY <1>2, <1>6, <1>8
<1> QED
  BY <1>9 DEF t

\* What is counted is in the pot or in front of a seat, bets lie there only
\* while betting is open, and the balance covers what is owed.
BooksInv == Ledger(table) /\ Flat(table) /\ Surplus(table) >= 0

\* The books are in order along every sequence of transactions.
THEOREM BooksInOrder == Spec => []BooksInv
<1>1. Init => BooksInv
  BY NewTableKept DEF Init, BooksInv
<1>2. BooksInv /\ IInv /\ [Next]_vars => BooksInv'
  <2> SUFFICES ASSUME BooksInv, IInv, [Next]_vars PROVE BooksInv'
    OBVIOUS
  <2>1. Kept(table, table')
    BY NextKept DEF BooksInv, IInv
  <2>2. Surplus(table) \in Int
    BY OwedSum DEF BooksInv, Ledger
  <2>3. Ledger(table') /\ Flat(table') /\ Surplus(table') >= Surplus(table)
    BY <2>1 DEF Kept
  <2>4. Surplus(table') \in Int
    BY <2>3, OwedSum DEF Ledger
  <2>5. Surplus(table') >= 0
    BY <2>2, <2>3, <2>4 DEF BooksInv
  <2> QED
    BY <2>3, <2>5 DEF BooksInv
<1> QED
  BY <1>1, <1>2, PhasesAreSound, PTL DEF Spec

\* The SUI a table holds covers every stack, bet and pot, whoever joins, leaves,
\* is kicked or times out: no refund fails for want of balance.
THEOREM SolventHolds == Spec => []Solvent
<1>1. BooksInv => Solvent
  BY DEF BooksInv, Solvent
<1> QED
  BY <1>1, BooksInOrder, PTL

\* settle_hand never divides more than pot and bets hold: what is counted as put
\* in is there, through kicks, refunds and hands cut short.
THEOREM NeverOverpaysHolds == Spec => []NeverOverpays
<1>1. BooksInv => NeverOverpays
  <2> HAVE BooksInv
  <2>1. TotalContribution(table) = Total(Contributions(table), Seats)
    BY AllContributions DEF BooksInv, Ledger
  <2> QED
    BY <2>1, BetSum DEF BooksInv, Ledger, NeverOverpays
<1> QED
  BY <1>1, BooksInOrder, PTL

\* No step mints a chip: what the balance holds beyond what the table owes never
\* shrinks, for every number of seats, every coin and every hand ranking.
THEOREM NothingMinted == Spec => [][Surplus(table') >= Surplus(table)]_vars
<1>1. BooksInv /\ IInv /\ [Next]_vars => [Surplus(table') >= Surplus(table)]_vars
  BY NextKept DEF BooksInv, IInv, Kept
<1> QED
  BY <1>1, BooksInOrder, PhasesAreSound, PTL DEF Spec
=============================================================================
