----------------------------- MODULE TableHands -----------------------------
(***************************************************************************)
(* The players of a hand: a street never closes on a player who has not    *)
(* matched the bet, and no player takes the mark of a refund into a hand.  *)
(* What a table holds: every field has its type.  And what a player has:   *)
(* nobody's chips go to another before the hand is paid.                   *)
(***************************************************************************)
EXTENDS TableTurns, TableChips

\* The bets are counted, seat by seat.
Counted(t) ==
    /\ DOMAIN t = TableFields
    /\ DOMAIN t.seats = Seats
    /\ \A s \in Seats : /\ DOMAIN t.seats[s] = SeatFields
                        /\ t.seats[s].bet \in Nat /\ t.seats[s].total_bet \in Nat
    /\ DOMAIN t.betting = {"open", "current_bet", "min_raise"}
    /\ t.betting.current_bet \in Int

\* Nobody has put anything into the hand.
Betless(t) == \A s \in Seats : t.seats[s].bet = 0 /\ t.seats[s].total_bet = 0

\* The blinds of the hand have not been posted.
Dealing(t) ==
    \/ t.round = "waiting"
    \/ t.round = "preflop" /\ ~t.betting.open

\* What a seat had put in before this street.
Prior(seat) == seat.total_bet - seat.bet

\* Everybody who can still act put in the same before this street, and nobody
\* in the hand put in more.
Level(t) ==
    \E base \in Int : \A s \in LiveSeats(t) :
        /\ Prior(t.seats[s]) <= base
        /\ ~t.seats[s].all_in => Prior(t.seats[s]) = base

\* No bet is above the one to be called.
Capped(t) ==
    t.betting.open => \A s \in LiveSeats(t) : t.seats[s].bet <= t.betting.current_bet

\* Only an empty seat is marked as refunded.
Clean(t) == \A s \in Seats : t.seats[s].player = NoPlayer \/ t.seats[s].refunded = FALSE

\* The button is at a seat, and somebody is on turn while bets are made.
Placed(t) ==
    /\ t.button \in Seats /\ t.turn \in Int
    /\ t.ok /\ t.betting.open => t.turn \in Seats

Tallied(t) ==
    /\ Counted(t) /\ Flat(t) /\ t.round \in Rounds
    /\ Dealing(t) => Betless(t)
    /\ Level(t) /\ Capped(t) /\ Clean(t) /\ Placed(t)

\* Bets are taken.
Open(t) == t.ok /\ t.betting.open

\* Chips that have been put in are played for, and so are those to be bet.
PlayedFor(t) == LiveSeats(t) = {} => Betless(t) /\ ~Open(t)

Staked(t) == Tallied(t) /\ PlayedFor(t)

-----------------------------------------------------------------------------
(* Steps that do not touch the bets.                                       *)

\* u has the players, the bets and the turn of t.
SamePlay(t, u) ==
    /\ DOMAIN u = TableFields /\ u.round = t.round /\ u.betting = t.betting
    /\ u.button = t.button /\ u.turn = t.turn /\ (u.ok => t.ok)
    /\ DOMAIN u.seats = Seats
    /\ \A s \in Seats :
          /\ DOMAIN u.seats[s] = SeatFields
          /\ u.seats[s].player = t.seats[s].player /\ u.seats[s].left = t.seats[s].left
          /\ u.seats[s].is_waiting = t.seats[s].is_waiting
          /\ u.seats[s].folded = t.seats[s].folded
          /\ u.seats[s].all_in = t.seats[s].all_in
          /\ u.seats[s].refunded = t.seats[s].refunded
          /\ u.seats[s].bet = t.seats[s].bet /\ u.seats[s].total_bet = t.seats[s].total_bet

\* The players of a hand are told by their seats.
LEMMA LiveAre ==
    ASSUME NEW t
    PROVE  /\ LiveSeats(t) = {s \in Seats : /\ t.seats[s].player # NoPlayer
                                            /\ ~t.seats[s].left /\ ~t.seats[s].is_waiting
                                            /\ ~t.seats[s].folded}
           /\ ActionableSeats(t) = {s \in LiveSeats(t) : ~t.seats[s].all_in}
           /\ LiveSeats(t) \subseteq ActiveSeats(t)
           /\ ActionableSeats(t) \subseteq LiveSeats(t)
           /\ LiveSeats(t) \subseteq Seats /\ ActionableSeats(t) \subseteq Seats
BY DEF LiveSeats, ActionableSeats, ActiveSeats, OccupiedSeats, IsSeatOccupied

\* Seats are numbered.
LEMMA SeatsAreInt == \A s \in Seats : s \in Int
BY TableAssumption DEF Seats

\* Tables with the same players in their seats have the same players in hand.
LEMMA SameLive ==
    ASSUME NEW t, NEW u,
           \A s \in Seats : /\ u.seats[s].player = t.seats[s].player
                            /\ u.seats[s].left = t.seats[s].left
                            /\ u.seats[s].is_waiting = t.seats[s].is_waiting
                            /\ u.seats[s].folded = t.seats[s].folded
                            /\ u.seats[s].all_in = t.seats[s].all_in
    PROVE  LiveSeats(u) = LiveSeats(t) /\ ActionableSeats(u) = ActionableSeats(t)
<1>1. LiveSeats(u) = LiveSeats(t)
  BY DEF LiveSeats, ActiveSeats, OccupiedSeats, IsSeatOccupied
<1>2. \A s \in LiveSeats(t) : s \in Seats
  BY LiveAre
<1> QED
  BY <1>1, <1>2 DEF ActionableSeats

\* The same play has the same players, and everything about it is kept.
LEMMA SamePlayTallied ==
    ASSUME NEW t, NEW u, SamePlay(t, u)
    PROVE  /\ Tallied(t) => Tallied(u)
           /\ Staked(t) => Staked(u)
           /\ LiveSeats(u) = LiveSeats(t)
           /\ ActionableSeats(u) = ActionableSeats(t)
           /\ Betless(t) => Betless(u)
<1>1. LiveSeats(u) = LiveSeats(t) /\ ActionableSeats(u) = ActionableSeats(t)
  <2>1. \A s \in Seats : /\ u.seats[s].player = t.seats[s].player
                         /\ u.seats[s].left = t.seats[s].left
                         /\ u.seats[s].is_waiting = t.seats[s].is_waiting
                         /\ u.seats[s].folded = t.seats[s].folded
                         /\ u.seats[s].all_in = t.seats[s].all_in
    BY DEF SamePlay
  <2> QED
    BY <2>1, SameLive
<1>2. Betless(t) <=> Betless(u)
  BY DEF SamePlay, Betless
<1>3. ASSUME Tallied(t)
      PROVE  Tallied(u)
  <2>1. Counted(u)
    BY <1>3 DEF Tallied, Counted, SamePlay
  <2>2. Flat(u) /\ u.round \in Rounds /\ Clean(u) /\ Placed(u)
    BY <1>3 DEF Tallied, SamePlay, Flat, Even, Clean, Placed
  <2>3. Dealing(u) => Betless(u)
    BY <1>2, <1>3 DEF Tallied, SamePlay, Dealing
  <2>4. \A s \in LiveSeats(t) : /\ Prior(u.seats[s]) = Prior(t.seats[s])
                                /\ u.seats[s].all_in = t.seats[s].all_in
                                /\ u.seats[s].bet = t.seats[s].bet
    BY LiveAre DEF SamePlay, Prior
  <2>5. Level(u) /\ Capped(u)
    BY <1>1, <1>3, <2>4 DEF Tallied, SamePlay, Level, Capped
  <2> QED
    BY <2>1, <2>2, <2>3, <2>5 DEF Tallied
<1> QED
  BY <1>1, <1>2, <1>3 DEF Staked, PlayedFor, SamePlay, Open

\* A step that leaves the seats and the round as they are is the same play.
LEMMA SeatsKept ==
    ASSUME NEW t, Counted(t), NEW u, DOMAIN u = TableFields, u.seats = t.seats,
           u.round = t.round, u.betting = t.betting, u.button = t.button,
           u.turn = t.turn, u.ok => t.ok
    PROVE  SamePlay(t, u)
BY DEF Counted, SamePlay

\* The same play twice is the same play.
LEMMA SamePlayTwice ==
    ASSUME NEW t, NEW u, NEW v, SamePlay(t, u), SamePlay(u, v)
    PROVE  SamePlay(t, v)
BY DEF SamePlay

\* A failed assert leaves the play as it is.
LEMMA RequirePlay ==
    ASSUME NEW t, Counted(t), NEW cond
    PROVE  SamePlay(t, Require(t, cond)) /\ SamePlay(t, Abort(t))
<1>1. SamePlay(t, Abort(t))
  <2> DEFINE u == Abort(t)
  <2>1. /\ DOMAIN u = TableFields /\ u.seats = t.seats /\ u.round = t.round
        /\ u.betting = t.betting /\ u.button = t.button /\ u.turn = t.turn /\ ~u.ok
    BY DEF Abort, Counted, TableFields
  <2> HIDE DEF u
  <2>2. SamePlay(t, u)
    BY <2>1, SeatsKept
  <2> QED
    BY <2>2 DEF u
<1>2. SamePlay(t, t)
  BY SeatsKept DEF Counted
<1> QED
  BY <1>1, <1>2 DEF Require

\* assert! keeps the tally.
LEMMA RequireTallied ==
    ASSUME NEW t, Tallied(t), NEW cond
    PROVE  /\ Tallied(Require(t, cond)) /\ Tallied(Abort(t))
           /\ Staked(t) => Staked(Require(t, cond)) /\ Staked(Abort(t))
BY RequirePlay, SamePlayTallied DEF Tallied

\* Where nothing has been put in and no bets are made, everything is level.
LEMMA BetlessStaked ==
    ASSUME NEW t, Counted(t), Betless(t), ~t.betting.open, t.round \in Rounds,
           Clean(t), t.button \in Seats, t.turn \in Int
    PROVE  Staked(t)
<1>1. \A s \in LiveSeats(t) : Prior(t.seats[s]) = 0
  BY LiveAre DEF Betless, Prior
<1>2. Level(t)
  BY <1>1 DEF Level
<1> QED
  BY <1>2 DEF Staked, Tallied, PlayedFor, Open, Flat, Even, Betless, Capped, Placed

\* A closed round: what was put in is level when all who can act have put in
\* the same and nobody in the hand more.
LEMMA ClosedTallied ==
    ASSUME NEW t, Counted(t), Even(t), ~t.betting.open, t.round \in Rounds, ~Dealing(t),
           Clean(t), t.button \in Seats, t.turn \in Int, NEW base \in Int,
           \A s \in LiveSeats(t) : /\ t.seats[s].total_bet <= base
                                   /\ ~t.seats[s].all_in => t.seats[s].total_bet = base
    PROVE  Tallied(t)
<1>1. \A s \in LiveSeats(t) : Prior(t.seats[s]) = t.seats[s].total_bet
  BY LiveAre DEF Even, Prior, Counted
<1>2. Level(t)
  BY <1>1 DEF Level
<1> QED
  BY <1>2 DEF Tallied, Flat, Capped, Placed

\* u is still level, with the players of t.
Carries(t, u) ==
    /\ Tallied(u) /\ LiveSeats(u) = LiveSeats(t)
    /\ Betless(t) => Betless(u)
    /\ Open(u) => Open(t)

\* What carries the play over leaves the chips contested.
LEMMA CarriesStaked ==
    ASSUME NEW t, NEW u, Staked(t), Carries(t, u)
    PROVE  Staked(u)
BY DEF Staked, PlayedFor, Carries

\* The same play is carried over.
LEMMA SamePlayCarries ==
    ASSUME NEW t, Tallied(t), NEW u, SamePlay(t, u)
    PROVE  Carries(t, u)
BY SamePlayTallied DEF Carries, SamePlay, Open

\* reset_for_next_hand: nobody has put in anything, nobody is marked.
LEMMA ResetStaked ==
    ASSUME NEW t, DOMAIN t = TableFields, \A s \in Seats : DOMAIN t.seats[s] = SeatFields,
           Clean(t), t.button \in Seats
    PROVE  Staked(ResetForNextHand(t))
<1> DEFINE u == ResetForNextHand(t)
           broke == {s \in Seats : t.seats[s].player # NoPlayer /\ t.seats[s].stack = 0}
           kept == [s \in Seats |->
                      IF s \in broke THEN EmptySeat
                      ELSE [t.seats[s] EXCEPT
                              !.bet = 0, !.total_bet = 0, !.folded = FALSE,
                              !.all_in = FALSE, !.acted = FALSE,
                              !.is_waiting = FALSE, !.left = FALSE]]
<1>1. /\ DOMAIN u = TableFields /\ u.seats = kept /\ u.betting = NoRound
      /\ u.turn = NoSeat /\ u.button = t.button /\ u.round = "waiting"
  BY DEF ResetForNextHand, TableFields
<1>2. /\ DOMAIN kept = Seats
      /\ \A s \in Seats : /\ DOMAIN kept[s] = SeatFields
                          /\ kept[s].bet = 0 /\ kept[s].total_bet = 0
                          /\ kept[s].player = NoPlayer \/ kept[s].refunded = FALSE
  BY DEF EmptySeat, SeatFields, Clean
<1> HIDE DEF u, kept
<1>3. Counted(u)
  BY <1>1, <1>2 DEF Counted, NoRound
<1>4. Betless(u) /\ Clean(u) /\ ~u.betting.open /\ u.round \in Rounds
      /\ u.button \in Seats /\ u.turn \in Int
  BY <1>1, <1>2 DEF Betless, Clean, NoRound, Rounds, NoSeat
<1>5. Staked(u)
  BY <1>3, <1>4, BetlessStaked
<1> QED
  BY <1>5 DEF u

-----------------------------------------------------------------------------
(* The end of a street.                                                    *)

\* advance_round ends the street and leaves the seats alone.
LEMMA AdvanceRoundSeats ==
    ASSUME NEW t, DOMAIN t = TableFields, t.round \in Asked
    PROVE  LET u == AdvanceRound(t)
           IN  /\ DOMAIN u = TableFields /\ u.seats = t.seats /\ u.betting = NoRound
               /\ u.round \in {"flop", "turn", "river", "showdown"}
               /\ u.button = t.button /\ u.turn = NoSeat
<1> DEFINE u == AdvanceRound(t)
           Closed(r) == /\ DOMAIN u = TableFields /\ u.seats = t.seats
                        /\ u.betting = NoRound /\ u.button = t.button /\ u.turn = NoSeat
                        /\ u.round = r
<1>1. CASE t.round = "preflop"
  <2>1. Closed("flop")
    BY <1>1 DEF AdvanceRound, StartCommunityReveal, TableFields
  <2> QED
    BY <2>1
<1>2. CASE t.round = "flop"
  <2>1. Closed("turn")
    BY <1>2 DEF AdvanceRound, StartCommunityReveal, TableFields
  <2> QED
    BY <2>1
<1>3. CASE t.round = "turn"
  <2>1. Closed("river")
    BY <1>3 DEF AdvanceRound, StartCommunityReveal, TableFields
  <2> QED
    BY <2>1
<1>4. CASE t.round = "river"
  <2>1. Closed("showdown")
    BY <1>4 DEF AdvanceRound, StartShowdownReveal, TableFields
  <2> QED
    BY <2>1
<1> QED
  BY <1>1, <1>2, <1>3, <1>4 DEF Asked

\* Once a street on which everybody has matched the bet is over, all who can
\* still act have put in the same, and nobody in the hand more.
LEMMA StreetOver ==
    ASSUME NEW t, Counted(t), Level(t), Capped(t), Clean(t), t.button \in Seats,
           t.betting.open, t.round \in Asked,
           \A s \in ActionableSeats(t) : t.seats[s].bet >= t.betting.current_bet
    PROVE  /\ Carries(t, AdvanceRound(CollectBetsToPot(t)))
           /\ ~AdvanceRound(CollectBetsToPot(t)).betting.open
<1> DEFINE c == CollectBetsToPot(t)
           u == AdvanceRound(c)
<1>1. /\ DOMAIN c = TableFields /\ c.round = t.round /\ c.button = t.button
      /\ c.seats = [s \in Seats |-> [t.seats[s] EXCEPT !.bet = 0]]
  BY DEF CollectBetsToPot, Counted, TableFields
<1> HIDE DEF c
<1>2. /\ DOMAIN u = TableFields /\ u.seats = c.seats /\ u.betting = NoRound
      /\ u.round \in {"flop", "turn", "river", "showdown"}
      /\ u.button = t.button /\ u.turn = NoSeat
  BY <1>1, AdvanceRoundSeats
<1> HIDE DEF u
<1>3. \A s \in Seats : /\ DOMAIN u.seats[s] = SeatFields
                       /\ u.seats[s].bet = 0 /\ u.seats[s].total_bet = t.seats[s].total_bet
                       /\ u.seats[s].player = t.seats[s].player
                       /\ u.seats[s].left = t.seats[s].left
                       /\ u.seats[s].is_waiting = t.seats[s].is_waiting
                       /\ u.seats[s].folded = t.seats[s].folded
                       /\ u.seats[s].all_in = t.seats[s].all_in
                       /\ u.seats[s].refunded = t.seats[s].refunded
  BY <1>1, <1>2 DEF Counted, SeatFields
<1>4. Counted(u)
  BY <1>1, <1>2, <1>3 DEF Counted, NoRound
<1>5. LiveSeats(u) = LiveSeats(t) /\ ActionableSeats(u) = ActionableSeats(t)
  BY <1>3, SameLive
<1>6. PICK base \in Int : \A s \in LiveSeats(t) :
          /\ Prior(t.seats[s]) <= base
          /\ ~t.seats[s].all_in => Prior(t.seats[s]) = base
  BY DEF Level
<1> DEFINE raised == base + t.betting.current_bet
<1>7. raised \in Int /\ t.betting.current_bet \in Int
  BY <1>6 DEF Counted
<1>8. ASSUME NEW s \in LiveSeats(t)
      PROVE  /\ t.seats[s].total_bet <= raised
             /\ ~t.seats[s].all_in => t.seats[s].total_bet = raised
  <2>1. /\ s \in Seats /\ t.seats[s].bet \in Int /\ t.seats[s].total_bet \in Int
        /\ t.seats[s].bet <= t.betting.current_bet
        /\ ~t.seats[s].all_in => s \in ActionableSeats(t)
    BY <1>8, LiveAre DEF Counted, Capped
  <2> QED
    BY <1>6, <1>7, <1>8, <2>1 DEF Prior
<1> HIDE DEF raised
<1>9. \A s \in LiveSeats(u) : /\ u.seats[s].total_bet <= raised
                              /\ ~u.seats[s].all_in => u.seats[s].total_bet = raised
  <2>1. \A s \in LiveSeats(t) : s \in Seats
    BY LiveAre
  <2> QED
    BY <1>3, <1>5, <1>8, <2>1
<1>10. /\ Even(u) /\ ~u.betting.open /\ u.round \in Rounds /\ ~Dealing(u)
       /\ Clean(u) /\ u.button \in Seats /\ u.turn \in Int
  BY <1>2, <1>3 DEF Even, NoRound, Rounds, Dealing, Clean, NoSeat
<1>11. Tallied(u)
  BY <1>4, <1>7, <1>9, <1>10, ClosedTallied
<1>12. Betless(t) => Betless(u)
  BY <1>3 DEF Betless
<1> QED
  BY <1>5, <1>10, <1>11, <1>12 DEF Carries, Open, u, c

\* The next player acts, or the street is over.
LEMMA AdvanceTurnCarries ==
    ASSUME NEW t, Tallied(t), t.betting.open, t.round \in Asked
    PROVE  Carries(t, AdvanceTurn(t))
<1> DEFINE next == FindNextActiveSeat(t, t.turn)
           v == [t EXCEPT !.turn = next]
           found == t.turn # NoSeat /\ next # NoSeat
<1>1. CASE IsBettingComplete(t)
  <2>1. \A s \in ActionableSeats(t) : t.seats[s].bet >= t.betting.current_bet
    BY <1>1 DEF IsBettingComplete
  <2> QED
    BY <1>1, <2>1, StreetOver DEF AdvanceTurn, Tallied, Placed
<1>2. CASE ~IsBettingComplete(t)
  <2>1. AdvanceTurn(t) = Require(v, found)
    BY <1>2 DEF AdvanceTurn
  <2>2. next \in Int /\ (next \in Seats \/ next = NoSeat)
    BY NextActive, LiveAre DEF Tallied, Placed
  <2> DEFINE u == AdvanceTurn(t)
  <2>3. /\ DOMAIN u = TableFields /\ u.seats = t.seats /\ u.round = t.round
        /\ u.betting = t.betting /\ u.button = t.button /\ u.turn = next
        /\ u.ok => t.ok /\ next # NoSeat
    BY <2>1 DEF Require, Abort, Tallied, Counted, TableFields
  <2> HIDE DEF u, next
  <2>4. LiveSeats(u) = LiveSeats(t)
    BY <2>3, SameLive
  <2>5. Counted(u) /\ Flat(u) /\ u.round \in Rounds /\ (Dealing(u) => Betless(u))
    BY <2>3 DEF Tallied, Counted, Flat, Even, Dealing, Betless
  <2>6. Level(u) /\ Capped(u) /\ Clean(u) /\ Placed(u)
    BY <2>2, <2>3, <2>4 DEF Tallied, Level, Capped, Clean, Placed
  <2>7. Betless(t) => Betless(u)
    BY <2>3 DEF Betless
  <2> QED
    BY <2>3, <2>4, <2>5, <2>6, <2>7 DEF Carries, Tallied, Open, u
<1> QED
  BY <1>1, <1>2

-----------------------------------------------------------------------------
(* The end of a hand.                                                      *)

\* u has the players and the marks of t in its seats.
SameMarks(t, u) ==
    /\ DOMAIN u = TableFields /\ DOMAIN u.seats = Seats /\ u.button = t.button
    /\ \A s \in Seats : /\ DOMAIN u.seats[s] = SeatFields
                        /\ u.seats[s].player = t.seats[s].player
                        /\ u.seats[s].refunded = t.seats[s].refunded

\* With the same marks the reset table is staked.
LEMMA MarkedThenReset ==
    ASSUME NEW t, Clean(t), t.button \in Seats, NEW u, SameMarks(t, u)
    PROVE  Staked(ResetForNextHand(u))
<1>1. Clean(u) /\ u.button \in Seats
  BY DEF SameMarks, Clean
<1> QED
  BY <1>1, ResetStaked DEF SameMarks

\* A counted table has its own marks.
LEMMA SameMarksReflexive ==
    ASSUME NEW t, Counted(t)
    PROVE  SameMarks(t, t)
BY DEF SameMarks, Counted

\* end_without_showdown: the first player left takes the pot; without one the
\* transaction aborts.
LEMMA EndWithoutShowdownStaked ==
    ASSUME NEW t, Tallied(t)
    PROVE  /\ Tallied(EndWithoutShowdown(t))
           /\ LiveSeats(t) # {} \/ Staked(t) => Staked(EndWithoutShowdown(t))
<1> DEFINE c == CollectBetsToPot(t)
           first == Min(LiveSeats(t))
           u == [c EXCEPT !.seats[first].stack = @ + c.pot]
<1>1. CASE LiveSeats(t) = {}
  <2>1. EndWithoutShowdown(t) = Abort(t)
    BY <1>1 DEF EndWithoutShowdown
  <2> QED
    BY <1>1, <2>1, RequireTallied
<1>2. CASE LiveSeats(t) # {}
  <2>1. EndWithoutShowdown(t) = ResetForNextHand(u)
    BY <1>2 DEF EndWithoutShowdown
  <2>2. SameMarks(t, c)
    BY DEF CollectBetsToPot, Tallied, Counted, SameMarks, TableFields, SeatFields
  <2> HIDE DEF c, first
  <2>3. SameMarks(t, u)
    BY <2>2 DEF SameMarks, TableFields, SeatFields
  <2> HIDE DEF u
  <2> QED
    BY <2>1, <2>3, MarkedThenReset DEF Tallied, Placed, Staked
<1> QED
  BY <1>1, <1>2

\* A pot that is split changes no mark.
LEMMA SplitAmongMarks ==
    ASSUME NEW t, NEW u, SameMarks(t, u), NEW S, NEW amount
    PROVE  SameMarks(t, SplitAmong(u, S, amount))
<1>1. CASE S = {}
  BY <1>1 DEF SplitAmong
<1>2. CASE S # {}
  <2> DEFINE share == amount \div Cardinality(S)
             part(s) == share + (IF s = Min(S) THEN amount % Cardinality(S) ELSE 0)
             seats == [s \in Seats |->
                         IF s \in S THEN [u.seats[s] EXCEPT !.stack = @ + part(s)]
                         ELSE u.seats[s]]
  <2>1. SplitAmong(u, S, amount) = [u EXCEPT !.seats = seats]
    BY <1>2 DEF SplitAmong
  <2> HIDE DEF part
  <2>2. \A s \in Seats : /\ DOMAIN seats[s] = SeatFields
                         /\ seats[s].player = u.seats[s].player
                         /\ seats[s].refunded = u.seats[s].refunded
    BY DEF SameMarks, SeatFields
  <2>3. DOMAIN seats = Seats
    OBVIOUS
  <2> HIDE DEF seats
  <2> QED
    BY <2>1, <2>2, <2>3 DEF SameMarks, TableFields
<1> QED
  BY <1>1, <1>2

\* settle_hand pays every pot and changes no mark.
LEMMA PayPotsMarks ==
    ASSUME NEW t, Counted(t), NEW pots, Len(pots) \in Nat, NEW ranks
    PROVE  SameMarks(t, PayPots(t, pots, ranks))
<1>0. PICK paid : PaysInTurn(paid, t, pots, ranks)
  BY PayPotsSteps
<1> DEFINE n == Len(pots)
           Marked == {i \in 0 .. n : SameMarks(t, paid[i])}
<1>1. /\ paid[0] = t
      /\ \A i \in 1 .. n : paid[i] = PayPot(paid[i - 1], pots, i, ranks)
  BY <1>0 DEF PaysInTurn
<1>2. \A i \in 0 .. n : i \in Marked
  <2>1. 0 \in Marked
    BY <1>1, SameMarksReflexive
  <2>2. ASSUME NEW i \in 1 .. n, i - 1 \in Marked
        PROVE  i \in Marked
    <3>1. paid[i] = PayPot(paid[i - 1], pots, i, ranks) /\ SameMarks(t, paid[i - 1])
      BY <1>1, <2>2
    <3>2. \A u : SameMarks(t, u) => SameMarks(t, PayPot(u, pots, i, ranks))
      BY SplitAmongMarks DEF PayPot, DistributePot, DistributeSidePot, Award
    <3> QED
      BY <3>1, <3>2
  <2> HIDE DEF Marked
  <2> QED
    BY <2>1, <2>2, UpTo
<1>3. SameMarks(t, paid[n])
  BY <1>2
<1> QED
  BY <1>0, <1>3, SplitAmongMarks DEF PaysInTurn

\* settle_hand pays the pots and resets the table.
LEMMA SettleHandStaked ==
    ASSUME NEW t, Tallied(t), NEW ranks
    PROVE  Staked(SettleHand(t, ranks))
<1> DEFINE u == PayPots(t, Pots(t), ranks)
           allowed == t.round = "showdown" /\ t.reveal.phase = "none"
<1>1. SameMarks(t, u)
  BY PotsAreASequence, PayPotsMarks DEF Tallied
<1> HIDE DEF u
<1>2. Staked(ResetForNextHand(u))
  BY <1>1, MarkedThenReset DEF Tallied, Placed
<1>3. SettleHand(t, ranks) = Require(ResetForNextHand(u), allowed)
  BY DEF SettleHand, u
<1> QED
  BY <1>2, <1>3, RequireTallied DEF Staked

\* refund_all_bets marks nobody when nobody has put in anything: every place
\* it is called from makes sure of that.
LEMMA RefundThenResetStaked ==
    ASSUME NEW t, Tallied(t), Betless(t)
    PROVE  Staked(ResetForNextHand(RefundAllBets(t)))
<1> DEFINE due == {s \in Seats : ~t.seats[s].refunded /\ t.seats[s].total_bet > 0}
           home == due \cap OccupiedSeats(t)
           gone == {s \in due \ home : t.seats[s].left}
           refund(s) ==
               [t.seats[s] EXCEPT
                   !.stack = IF s \in home THEN @ + t.seats[s].total_bet ELSE @,
                   !.refunded = @ \/ s \in home \cup gone,
                   !.player = IF s \in gone THEN NoPlayer ELSE @,
                   !.bet = 0, !.total_bet = 0]
           seats == [s \in Seats |-> refund(s)]
           chips == MapThenSumSet(LAMBDA s : t.seats[s].total_bet, gone)
           u == RefundSui([t EXCEPT !.seats = seats, !.pot = 0], chips)
<1>1. due = {}
  BY DEF Betless
<1>2. home = {} /\ gone = {}
  BY <1>1
<1> HIDE DEF home, gone
<1>3. \A s \in Seats : /\ DOMAIN seats[s] = SeatFields
                       /\ seats[s].player = t.seats[s].player
                       /\ seats[s].refunded = (t.seats[s].refunded \/ FALSE)
  BY <1>2 DEF Tallied, Counted, SeatFields
<1>4. RefundAllBets(t) = u
  BY DEF RefundAllBets, home, gone
<1>5. DOMAIN seats = Seats
  OBVIOUS
<1> HIDE DEF seats, chips
<1>6. DOMAIN u = TableFields /\ u.seats = seats /\ u.button = t.button
  BY DEF RefundSui, Require, Abort, Tallied, Counted, TableFields
<1> HIDE DEF u
<1>7. Clean(u) /\ u.button \in Seats
  BY <1>3, <1>6 DEF Clean, Tallied, Placed
<1> QED
  BY <1>3, <1>4, <1>6, <1>7, ResetStaked

-----------------------------------------------------------------------------
(* A street begins.                                                        *)

\* The blinds are in front of the seats: no bet is above the big blind, and
\* nothing was put in before.
Blinded(t) ==
    /\ Counted(t) /\ t.round = "preflop" /\ Clean(t)
    /\ t.button \in Seats /\ t.turn \in Int /\ (t.ok => t.turn \in Seats)
    /\ \A s \in Seats : Prior(t.seats[s]) = 0 /\ t.seats[s].bet <= BigBlind
    /\ LiveSeats(t) = {} => Betless(t) /\ ~t.ok

\* A seat that has posted a blind, or the rest of its stack.
Posted(seat, blind) ==
    LET amount == IF seat.stack < blind THEN seat.stack ELSE blind
    IN  [seat EXCEPT !.stack = @ - amount, !.bet = amount, !.total_bet = amount,
                     !.all_in = @ \/ seat.stack = amount]

\* A blind taken from one seat leaves the other seats and every player as they
\* are.
LEMMA BlindTaken ==
    ASSUME NEW t, Counted(t), NEW s \in Seats, t.seats[s].stack \in Nat,
           NEW blind \in Nat, blind <= BigBlind,
           \A r \in Seats : Prior(t.seats[r]) = 0 /\ t.seats[r].bet <= BigBlind
    PROVE  LET u == [t EXCEPT !.seats[s] = Posted(t.seats[s], blind)]
           IN  /\ Counted(u) /\ SameMarks(t, u) /\ LiveSeats(u) = LiveSeats(t)
               /\ u.round = t.round /\ u.betting = t.betting /\ u.turn = t.turn
               /\ u.ok = t.ok
               /\ \A r \in Seats : Prior(u.seats[r]) = 0 /\ u.seats[r].bet <= BigBlind
               /\ \A r \in Seats : t.seats[r].stack \in Nat => u.seats[r].stack \in Nat
<1> DEFINE seat == t.seats[s]
           amount == IF seat.stack < blind THEN seat.stack ELSE blind
           posted == Posted(seat, blind)
           u == [t EXCEPT !.seats[s] = posted]
<1>1. amount \in Nat /\ amount <= blind /\ amount <= seat.stack
  OBVIOUS
<1>2. /\ DOMAIN posted = SeatFields /\ posted.bet = amount /\ posted.total_bet = amount
      /\ posted.player = seat.player /\ posted.left = seat.left
      /\ posted.is_waiting = seat.is_waiting /\ posted.folded = seat.folded
      /\ posted.refunded = seat.refunded /\ posted.stack = seat.stack - amount
  BY DEF Counted, SeatFields, Posted
<1> HIDE DEF posted, amount
<1>3. /\ DOMAIN u = TableFields /\ u.seats = [t.seats EXCEPT ![s] = posted]
      /\ u.round = t.round /\ u.betting = t.betting /\ u.turn = t.turn
      /\ u.button = t.button /\ u.ok = t.ok
  BY DEF Counted, TableFields
<1> HIDE DEF u
<1>4. /\ u.seats[s] = posted
      /\ \A r \in Seats \ {s} : u.seats[r] = t.seats[r]
      /\ DOMAIN u.seats = Seats
  BY <1>3 DEF Counted
<1>5. posted.stack \in Nat /\ Prior(posted) = 0 /\ posted.bet <= BigBlind
  BY <1>1, <1>2, TableAssumption DEF Prior
<1>6. \A r \in Seats : /\ DOMAIN u.seats[r] = SeatFields
                       /\ u.seats[r].bet \in Nat /\ u.seats[r].total_bet \in Nat
                       /\ u.seats[r].player = t.seats[r].player
                       /\ u.seats[r].refunded = t.seats[r].refunded
  BY <1>1, <1>2, <1>4 DEF Counted
<1>7. Counted(u) /\ SameMarks(t, u)
  BY <1>3, <1>4, <1>6 DEF Counted, SameMarks
<1>8. LiveSeats(u) = LiveSeats(t)
  BY <1>2, <1>4 DEF LiveSeats, ActiveSeats, OccupiedSeats, IsSeatOccupied
<1> QED
  BY <1>3, <1>4, <1>5, <1>7, <1>8 DEF u, posted

\* post_blinds puts the blinds in front of two seats and one player on turn,
\* or aborts.
LEMMA PostBlindsBlinded ==
    ASSUME NEW t, Tallied(t), Betless(t), t.round = "preflop",
           \A s \in Seats : t.seats[s].stack \in Nat
    PROVE  Blinded(PostBlinds(t))
<1> DEFINE headsUp == CountActiveOccupied(t) = 2
           sb == IF headsUp THEN t.button ELSE FindNextActiveSeat(t, t.button)
           bb == FindNextActiveSeat(t, sb)
           small == [t EXCEPT !.seats[sb] = Posted(t.seats[sb], SmallBlind)]
           both == [small EXCEPT !.seats[bb] = Posted(small.seats[bb], BigBlind)]
           first == IF headsUp THEN sb ELSE FindNextActiveSeat(both, bb)
           u == [both EXCEPT !.turn = first]
<1>1. \/ PostBlinds(t) = Abort(t)
      \/ ActionableSeats(t) # {} /\ first # NoSeat /\ PostBlinds(t) = u
  BY DEF PostBlinds, Posted
<1>2. SmallBlind \in Nat /\ BigBlind \in Nat /\ SmallBlind <= BigBlind
  BY TableAssumption
<1>3. \A s \in Seats : /\ Prior(t.seats[s]) = 0 /\ t.seats[s].bet <= BigBlind
                       /\ t.seats[s].stack \in Nat
  BY <1>2 DEF Betless, Prior
<1>4. CASE PostBlinds(t) = Abort(t)
  <2> DEFINE v == Abort(t)
  <2>1. /\ DOMAIN v = TableFields /\ v.seats = t.seats /\ v.round = t.round
        /\ v.betting = t.betting /\ v.button = t.button /\ v.turn = t.turn /\ ~v.ok
    BY DEF Abort, Tallied, Counted, TableFields
  <2> HIDE DEF v
  <2>2. Blinded(v)
    BY <1>3, <2>1 DEF Blinded, Tallied, Counted, Clean, Placed, PlayedFor, Open, Betless
  <2> QED
    BY <1>4, <2>2 DEF v
<1>5. CASE ActionableSeats(t) # {} /\ first # NoSeat /\ PostBlinds(t) = u
  <2>1. ActionableSeats(t) # {} /\ first # NoSeat /\ PostBlinds(t) = u
    BY <1>5
  <2>2. sb \in Seats
    BY <2>1, SeatsAreInt, NextActive, LiveAre DEF Tallied, Placed
  <2> HIDE DEF sb, bb, small, both, first, u
  <2>3. bb \in Seats
    BY <2>1, <2>2, SeatsAreInt, NextActive, LiveAre DEF bb
  <2>4. /\ Counted(small) /\ SameMarks(t, small) /\ LiveSeats(small) = LiveSeats(t)
        /\ small.round = t.round
        /\ \A r \in Seats : /\ Prior(small.seats[r]) = 0
                            /\ small.seats[r].bet <= BigBlind
                            /\ small.seats[r].stack \in Nat
    BY <1>2, <1>3, <2>2, BlindTaken DEF Tallied, small
  <2>5. /\ Counted(both) /\ SameMarks(small, both) /\ LiveSeats(both) = LiveSeats(small)
        /\ both.round = small.round
        /\ \A r \in Seats : /\ Prior(both.seats[r]) = 0
                            /\ both.seats[r].bet <= BigBlind
                            /\ both.seats[r].stack \in Nat
    BY <1>2, <2>4, <2>3, BlindTaken DEF both
  <2>6. first \in Seats /\ first \in Int
    BY <2>1, <2>2, <2>3, SeatsAreInt, NextActive, LiveAre DEF first
  <2>7. /\ DOMAIN u = TableFields /\ u.seats = both.seats /\ u.round = both.round
        /\ u.betting = both.betting /\ u.button = both.button /\ u.turn = first
    BY <2>5 DEF u, Counted, TableFields
  <2>8. LiveSeats(u) # {}
    <3>1. LiveSeats(u) = LiveSeats(both)
      BY <2>7, SameLive
    <3> QED
      BY <2>1, <2>4, <2>5, <3>1, LiveAre
  <2>9. Counted(u) /\ Clean(u) /\ u.button \in Seats /\ u.round = "preflop"
    BY <2>4, <2>5, <2>7 DEF Counted, Tallied, Placed, SameMarks, Clean
  <2> QED
    BY <2>1, <2>5, <2>6, <2>7, <2>8, <2>9 DEF Blinded
<1> QED
  BY <1>1, <1>4, <1>5, SMTT(60)

\* start_betting_round before the flop: the blinds are the bets to match, or
\* the round is skipped.
LEMMA PreflopBettingStaked ==
    ASSUME NEW t, Blinded(t)
    PROVE  Staked(StartBettingRound(t, TRUE))
<1> DEFINE seats == [s \in Seats |-> [t.seats[s] EXCEPT !.acted = FALSE, !.bet = @]]
           opened == [t EXCEPT !.betting = NewPreflop(BigBlind), !.seats = seats]
<1>1. StartBettingRound(t, TRUE) =
         IF ActionableSeats(t) = {} THEN AdvanceRound(CollectBetsToPot(opened)) ELSE opened
  BY DEF StartBettingRound
<1>2. /\ DOMAIN seats = Seats
      /\ \A s \in Seats : /\ DOMAIN seats[s] = SeatFields
                          /\ seats[s].player = t.seats[s].player
                          /\ seats[s].left = t.seats[s].left
                          /\ seats[s].is_waiting = t.seats[s].is_waiting
                          /\ seats[s].folded = t.seats[s].folded
                          /\ seats[s].all_in = t.seats[s].all_in
                          /\ seats[s].refunded = t.seats[s].refunded
                          /\ seats[s].bet = t.seats[s].bet
                          /\ seats[s].total_bet = t.seats[s].total_bet
  BY DEF Blinded, Counted, SeatFields
<1> HIDE DEF seats
<1>3. /\ DOMAIN opened = TableFields /\ opened.seats = seats /\ opened.round = "preflop"
      /\ opened.betting = NewPreflop(BigBlind) /\ opened.button = t.button
      /\ opened.turn = t.turn /\ opened.ok = t.ok
  BY DEF Blinded, Counted, TableFields
<1> HIDE DEF opened
<1>4. /\ opened.betting.open /\ opened.betting.current_bet = BigBlind
      /\ DOMAIN opened.betting = {"open", "current_bet", "min_raise"}
  BY <1>3 DEF NewPreflop
<1>5. LiveSeats(opened) = LiveSeats(t) /\ ActionableSeats(opened) = ActionableSeats(t)
  BY <1>2, <1>3, SameLive
<1>6. Counted(opened)
  BY <1>2, <1>3, <1>4, TableAssumption DEF Blinded, Counted
<1>7. \A s \in Seats : Prior(opened.seats[s]) = 0 /\ opened.seats[s].bet <= BigBlind
  BY <1>2, <1>3 DEF Blinded, Prior
<1>8. Level(opened) /\ Capped(opened)
  BY <1>4, <1>7, LiveAre DEF Level, Capped
<1>9. /\ Flat(opened) /\ opened.round \in Rounds /\ ~Dealing(opened)
      /\ Clean(opened) /\ Placed(opened)
  BY <1>2, <1>3, <1>4 DEF Flat, Rounds, Dealing, Clean, Placed, Blinded
<1>10. Staked(opened)
  <2>1. Betless(t) => Betless(opened)
    BY <1>2, <1>3 DEF Betless
  <2> QED
    BY <1>3, <1>5, <1>6, <1>8, <1>9, <2>1 DEF Staked, Tallied, PlayedFor, Open, Blinded
<1>11. ActionableSeats(t) = {} => Staked(AdvanceRound(CollectBetsToPot(opened)))
  BY <1>3, <1>4, <1>5, <1>10, StreetOver, CarriesStaked DEF Staked, Tallied, Placed, Asked
<1> QED
  BY <1>1, <1>10, <1>11

\* start_betting_round after the flop: no bets to match, or the round is
\* skipped.
LEMMA PostflopBettingStaked ==
    ASSUME NEW t, Staked(t), ~t.betting.open, t.round \in {"flop", "turn", "river"}
    PROVE  Staked(StartBettingRound(t, FALSE))
<1> DEFINE seats == [s \in Seats |-> [t.seats[s] EXCEPT !.acted = FALSE, !.bet = 0]]
           next == FindNextActiveSeat(t, t.button)
           opened == [t EXCEPT !.betting = NewPostflop(BigBlind), !.seats = seats]
           u == [opened EXCEPT !.turn = next]
           Opened(v) ==
               /\ DOMAIN v = TableFields /\ v.seats = seats /\ v.round = t.round
               /\ v.betting = NewPostflop(BigBlind) /\ v.button = t.button
<1>1. StartBettingRound(t, FALSE) =
         IF ActionableSeats(t) = {} THEN AdvanceRound(CollectBetsToPot(opened)) ELSE u
  BY DEF StartBettingRound
<1>2. /\ DOMAIN seats = Seats
      /\ \A s \in Seats : /\ DOMAIN seats[s] = SeatFields
                          /\ seats[s].player = t.seats[s].player
                          /\ seats[s].left = t.seats[s].left
                          /\ seats[s].is_waiting = t.seats[s].is_waiting
                          /\ seats[s].folded = t.seats[s].folded
                          /\ seats[s].all_in = t.seats[s].all_in
                          /\ seats[s].refunded = t.seats[s].refunded
                          /\ seats[s].bet = 0 /\ t.seats[s].bet = 0
                          /\ seats[s].total_bet = t.seats[s].total_bet
                          /\ t.seats[s].total_bet \in Nat
  BY DEF Staked, Tallied, Counted, SeatFields, Flat, Even
<1>3. next \in Int /\ (ActionableSeats(t) # {} => next \in Seats)
  BY SeatsAreInt, NextActive, LiveAre DEF Staked, Tallied, Placed
<1> HIDE DEF seats, next
<1>4. Opened(opened) /\ Opened(u) /\ u.turn = next
  BY DEF Staked, Tallied, Counted, TableFields
<1>5. ASSUME NEW v, Opened(v)
      PROVE  /\ Counted(v) /\ Level(v) /\ Capped(v) /\ Clean(v) /\ v.button \in Seats
             /\ v.betting.open /\ v.round \in Rounds /\ ~Dealing(v)
             /\ LiveSeats(v) = LiveSeats(t) /\ ActionableSeats(v) = ActionableSeats(t)
             /\ Betless(t) => Betless(v)
  <2>1. /\ v.betting.open /\ v.betting.current_bet = 0
        /\ DOMAIN v.betting = {"open", "current_bet", "min_raise"}
    BY <1>5 DEF NewPostflop
  <2>2. LiveSeats(v) = LiveSeats(t) /\ ActionableSeats(v) = ActionableSeats(t)
    BY <1>2, <1>5, SameLive
  <2>3. Counted(v)
    BY <1>2, <1>5, <2>1 DEF Staked, Tallied, Counted
  <2>4. \A s \in Seats : /\ Prior(v.seats[s]) = Prior(t.seats[s]) /\ v.seats[s].bet = 0
                         /\ v.seats[s].all_in = t.seats[s].all_in
    BY <1>2, <1>5 DEF Prior
  <2>5. \A s \in LiveSeats(t) : s \in Seats
    BY LiveAre
  <2>6. Level(v) /\ Capped(v)
    BY <2>1, <2>2, <2>4, <2>5 DEF Staked, Tallied, Level, Capped
  <2>7. Clean(v) /\ v.button \in Seats /\ v.round \in Rounds /\ ~Dealing(v)
    BY <1>2, <1>5, <2>1 DEF Staked, Tallied, Clean, Placed, Dealing
  <2>8. Betless(t) => Betless(v)
    BY <1>2, <1>5 DEF Betless
  <2> QED
    BY <2>1, <2>2, <2>3, <2>6, <2>7, <2>8
<1> HIDE DEF opened, u, Opened
<1>6. CASE ActionableSeats(t) = {}
  <2>1. /\ Counted(opened) /\ Level(opened) /\ Capped(opened) /\ Clean(opened)
        /\ opened.button \in Seats /\ opened.betting.open
        /\ LiveSeats(opened) = LiveSeats(t) /\ ActionableSeats(opened) = {}
        /\ Betless(t) => Betless(opened)
    BY <1>4, <1>5, <1>6
  <2>2. opened.round \in Asked
    BY <1>4 DEF Opened, Asked
  <2>3. /\ Carries(opened, AdvanceRound(CollectBetsToPot(opened)))
        /\ ~AdvanceRound(CollectBetsToPot(opened)).betting.open
    BY <2>1, <2>2, StreetOver
  <2> QED
    BY <1>1, <1>6, <2>1, <2>3 DEF Carries, Staked, PlayedFor, Open
<1>7. CASE ActionableSeats(t) # {}
  <2>1. LiveSeats(u) # {}
    BY <1>4, <1>5, <1>7, LiveAre
  <2>2. Tallied(u)
    BY <1>3, <1>4, <1>5, <1>7 DEF Tallied, Flat, Placed
  <2> QED
    BY <1>1, <1>7, <2>1, <2>2 DEF Staked, PlayedFor
<1> QED
  BY <1>6, <1>7

\* check_reveal_phase_complete: the blinds are posted, the next street begins,
\* or the hand is settled.
LEMMA CheckRevealStaked ==
    ASSUME NEW t, Steady(t), Staked(t), \A s \in Seats : t.seats[s].stack \in Nat, NEW ranks
    PROVE  Staked(CheckRevealPhaseComplete(t, ranks))
<1> DEFINE phase == t.reveal.phase
           cleared == [t EXCEPT !.reveal = EmptyReveal]
           untimed == [cleared EXCEPT !.timers.betting = FALSE]
           closed == [cleared EXCEPT !.timers.showdown = FALSE]
           written == WriteCommunity(untimed)
           u == CheckRevealPhaseComplete(t, ranks)
           Same(v) == /\ DOMAIN v = TableFields /\ v.seats = t.seats /\ v.round = t.round
                      /\ v.betting = t.betting /\ v.button = t.button
                      /\ v.turn = t.turn /\ v.ok = t.ok
<1>1. \/ u = t \/ u = cleared
      \/ phase = "preflop" /\ u = StartBettingRound(PostBlinds(untimed), TRUE)
      \/ phase \in {"flop", "turn", "river"} /\ u = StartBettingRound(written, FALSE)
      \/ u = SettleHand(closed, ranks)
  BY DEF CheckRevealPhaseComplete
<1>2. DOMAIN t = TableFields /\ Counted(t)
  BY DEF Staked, Tallied, Counted
<1>3. Same(cleared) /\ Same(untimed) /\ Same(closed) /\ Same(written)
  BY <1>2 DEF WriteCommunity, TableFields
<1>4. \A v : Same(v) => SamePlay(t, v)
  BY <1>2, SeatsKept
<1>5. \A v : Same(v) => Staked(v) /\ (Betless(t) => Betless(v))
  BY <1>4, SamePlayTallied
<1> HIDE DEF u, untimed, cleared, closed, written
<1>6. CASE phase = "preflop" /\ u = StartBettingRound(PostBlinds(untimed), TRUE)
  <2>1. t.round = "preflop" /\ ~t.betting.open
    BY <1>6 DEF Steady, Rounded, Asked
  <2>2. Betless(t)
    BY <2>1 DEF Staked, Tallied, Dealing
  <2>3. /\ Tallied(untimed) /\ Betless(untimed) /\ untimed.round = "preflop"
        /\ untimed.seats = t.seats
    BY <1>3, <1>5, <2>1, <2>2 DEF Staked
  <2> QED
    BY <1>6, <2>3, PostBlindsBlinded, PreflopBettingStaked DEF u
<1>7. CASE phase \in {"flop", "turn", "river"} /\ u = StartBettingRound(written, FALSE)
  <2>1. t.round = phase /\ ~t.betting.open
    BY <1>7 DEF Steady, Rounded, Asked
  <2>2. Staked(written) /\ ~written.betting.open /\ written.round \in {"flop", "turn", "river"}
    BY <1>3, <1>5, <1>7, <2>1
  <2> QED
    BY <1>7, <2>2, PostflopBettingStaked DEF u
<1>8. Staked(SettleHand(closed, ranks))
  BY <1>3, <1>5, SettleHandStaked DEF Staked
<1>9. Staked(cleared)
  BY <1>3, <1>5
<1> QED
  BY <1>1, <1>6, <1>7, <1>8, <1>9 DEF u

-----------------------------------------------------------------------------
(* Dealing, shuffling, folding and kicking.                                *)

\* Before the blinds a table whose seats are those of t is staked as t is.
LEMMA DealingStaked ==
    ASSUME NEW t, Tallied(t), Dealing(t), ~t.betting.open, NEW u, DOMAIN u = TableFields,
           u.seats = t.seats, u.betting = t.betting, u.round \in Rounds,
           u.button \in Seats, u.turn = t.turn
    PROVE  Staked(u)
<1>1. Counted(u) /\ Betless(u) /\ Clean(u) /\ ~u.betting.open /\ u.turn \in Int
  BY DEF Tallied, Counted, Betless, Clean, Placed
<1> QED
  BY <1>1, BetlessStaked

\* What dealing and shuffling keep: the seats, the bets, the button and the
\* turn; a deal before the flop begins the hand.
Passed(t, u) ==
    /\ DOMAIN u = TableFields /\ u.seats = t.seats /\ u.betting = t.betting
    /\ u.button = t.button /\ u.turn = t.turn /\ (u.ok => t.ok)
    /\ u.round = t.round

\* The reveals that are started keep all that.
LEMMA RevealsPassed ==
    ASSUME NEW t, NEW u, Passed(t, u)
    PROVE  /\ Passed(t, StartPreflopReveal(u))
           /\ \A n, phase : Passed(t, StartCommunityReveal(u, n, phase))
           /\ Passed(t, StartShowdownReveal(u))
<1>1. Passed(t, StartPreflopReveal(u))
  BY DEF StartPreflopReveal, Passed, TableFields
<1>2. \A n, phase : Passed(t, StartCommunityReveal(u, n, phase))
  BY DEF StartCommunityReveal, Passed, TableFields
<1>3. Passed(t, StartShowdownReveal(u))
  BY DEF StartShowdownReveal, Passed, TableFields
<1> QED
  BY <1>1, <1>2, <1>3

\* The reveal that goes on after a reconstruction does.
LEMMA ResumeRevealPassed ==
    ASSUME NEW t, NEW u, Passed(t, u)
    PROVE  Passed(t, ResumeReveal(u))
<1> DEFINE lacking(n, phase) ==
               Require(StartCommunityReveal(u, n - u.ready, phase), u.ready <= n)
           untimed == [u EXCEPT !.timers.showdown = FALSE]
<1>1. \/ ResumeReveal(u) = StartPreflopReveal(u)
      \/ ResumeReveal(u) = lacking(FlopCards, "flop")
      \/ ResumeReveal(u) = lacking(1, "turn")
      \/ ResumeReveal(u) = lacking(1, "river")
      \/ ResumeReveal(u) = StartShowdownReveal(untimed)
      \/ ResumeReveal(u) = u
  BY DEF ResumeReveal
<1>2. \A v, cond : Passed(t, v) => Passed(t, Require(v, cond))
  BY DEF Require, Abort, Passed, TableFields
<1>3. \A n, phase : Passed(t, lacking(n, phase))
  BY <1>2, RevealsPassed
<1>4. Passed(t, untimed)
  BY DEF Passed, TableFields
<1> HIDE DEF lacking, untimed
<1> QED
  BY <1>1, <1>3, <1>4, RevealsPassed

\* The shuffle before the flop is one between two hands.
Opening(t) ==
    t.shuffle.phase = "before_preflop" => t.round = "waiting" /\ ~t.betting.open

\* It is when the phases are sound.
LEMMA GoodOpening ==
    ASSUME NEW t, Good(t)
    PROVE  Opening(t)
BY DEF Good, Sound, Exclusive, Opening

\* advance_shuffle: the next shuffler, the deal before the flop, or the reveal
\* that was interrupted.
LEMMA AdvanceShuffleCarries ==
    ASSUME NEW t, Tallied(t), Opening(t)
    PROVE  /\ Carries(t, AdvanceShuffle(t))
           /\ Dealing(t) /\ ~t.betting.open =>
                 Dealing(AdvanceShuffle(t)) /\ ~AdvanceShuffle(t).betting.open
           /\ AdvanceShuffle(t).seats = t.seats
<1> DEFINE u == AdvanceShuffle(t)
           untimed == [t EXCEPT !.timers.reveal = FALSE, !.shuffle = EmptyShuffle]
           turned == [t EXCEPT !.shuffle.current = Min(t.shuffle.pending),
                               !.timers.shuffle = FALSE]
           begun == [untimed EXCEPT !.round = "preflop"]
           rebuilt == [untimed EXCEPT !.reconstruct = EmptyReconstruct, !.reveal = EmptyReveal]
<1>1. \/ u = t \/ u = turned
      \/ t.shuffle.phase = "before_preflop" /\ u = StartPreflopReveal(begun)
      \/ u = ResumeReveal(rebuilt)
  BY DEF AdvanceShuffle
<1>2. DOMAIN t = TableFields /\ Passed(t, t)
  BY DEF Tallied, Counted, Passed
<1>3. Passed(t, turned) /\ Passed(t, rebuilt)
  BY <1>2 DEF Passed, TableFields
<1>4. /\ DOMAIN begun = TableFields /\ begun.seats = t.seats /\ begun.betting = t.betting
      /\ begun.button = t.button /\ begun.turn = t.turn /\ begun.round = "preflop"
  BY <1>2 DEF TableFields
<1> HIDE DEF turned, begun, rebuilt, u
<1>5. ASSUME Passed(t, u)
      PROVE  /\ Carries(t, u) /\ u.seats = t.seats
             /\ Dealing(t) /\ ~t.betting.open => Dealing(u) /\ ~u.betting.open
  <2>1. SamePlay(t, u)
    BY <1>5, SeatsKept DEF Passed, Staked, Tallied
  <2> QED
    BY <1>5, <2>1, SamePlayCarries DEF Passed, Dealing
<1>6. CASE t.shuffle.phase = "before_preflop" /\ u = StartPreflopReveal(begun)
  <2>1. Passed(begun, u)
    BY <1>4, <1>6, RevealsPassed DEF Passed
  <2>2. Dealing(t) /\ ~t.betting.open
    BY <1>6 DEF Dealing, Opening
  <2>3. /\ DOMAIN u = TableFields /\ u.seats = t.seats /\ u.betting = t.betting
        /\ u.round = "preflop" /\ u.button \in Seats /\ u.turn = t.turn
    BY <1>4, <2>1 DEF Passed, Tallied, Placed
  <2>4. Tallied(u) /\ LiveSeats(u) = LiveSeats(t) /\ Betless(u)
    <3>1. Staked(u)
      BY <2>2, <2>3, DealingStaked DEF Rounds
    <3>2. LiveSeats(u) = LiveSeats(t)
      BY <2>3, SameLive
    <3> QED
      BY <2>2, <2>3, <3>1, <3>2 DEF Staked, Tallied, Betless, Dealing
  <2> QED
    BY <2>2, <2>3, <2>4 DEF Dealing, Carries, Open, u
<1>7. u = t \/ u = turned \/ u = ResumeReveal(rebuilt) => Passed(t, u)
  BY <1>2, <1>3, ResumeRevealPassed
<1> QED
  BY <1>1, <1>5, <1>6, <1>7 DEF u

\* A seat that is out of the hand, with no more bets than before.
Out(before, seat) ==
    /\ DOMAIN seat = SeatFields
    /\ seat.bet \in {0, before.bet} /\ seat.total_bet \in {0, before.total_bet}
    /\ \/ seat.player = NoPlayer \/ seat.refunded = FALSE
       \/ seat.player = before.player /\ seat.refunded = before.refunded
    /\ seat.player = NoPlayer \/ seat.left \/ seat.is_waiting \/ seat.folded

\* One seat out of the hand: the others stay level.
LEMMA OutTallied ==
    ASSUME NEW t, Tallied(t), NEW s \in Seats, NEW seat, Out(t.seats[s], seat),
           NEW u, DOMAIN u = TableFields, u.seats = [t.seats EXCEPT ![s] = seat],
           u.round = t.round, u.betting = t.betting, u.button = t.button,
           u.turn = t.turn, u.ok => t.ok
    PROVE  /\ Tallied(u) /\ LiveSeats(u) = LiveSeats(t) \ {s}
           /\ Betless(t) => Betless(u)
<1>1. /\ u.seats[s] = seat /\ \A r \in Seats \ {s} : u.seats[r] = t.seats[r]
      /\ DOMAIN u.seats = Seats
  BY DEF Tallied, Counted
<1>2. LiveSeats(u) = LiveSeats(t) \ {s}
  BY <1>1 DEF Out, LiveSeats, ActiveSeats, OccupiedSeats, IsSeatOccupied
<1>3. Betless(t) => Betless(u)
  BY <1>1 DEF Out, Betless
<1>4. Counted(u)
  BY <1>1 DEF Out, Tallied, Counted
<1>5. Flat(u) /\ u.round \in Rounds /\ (Dealing(u) => Betless(u))
  BY <1>1, <1>3 DEF Out, Tallied, Flat, Even, Dealing
<1>6. Clean(u) /\ Placed(u)
  BY <1>1 DEF Out, Tallied, Clean, Placed
<1>7. \A r \in LiveSeats(u) : r \in LiveSeats(t) /\ u.seats[r] = t.seats[r]
  BY <1>1, <1>2, LiveAre
<1>8. Level(u) /\ Capped(u)
  BY <1>7 DEF Tallied, Level, Capped
<1> QED
  BY <1>2, <1>3, <1>4, <1>5, <1>6, <1>8 DEF Tallied

\* The players in the hand can be counted.
LEMMA LiveCount ==
    ASSUME NEW t
    PROVE  /\ CountActivePlayers(t) \in Nat
           /\ CountActivePlayers(t) = 0 <=> LiveSeats(t) = {}
<1>1. IsFiniteSet(LiveSeats(t))
  BY LiveAre, SeatsFinite, FS_Subset
<1> QED
  BY <1>1, FS_CardinalityType, FS_EmptySet DEF CountActivePlayers

\* do_fold: the last player takes the pot, or the next one acts.
LEMMA DoFoldStaked ==
    ASSUME NEW t, Tallied(t), t.betting.open, t.round \in Asked, NEW s \in Seats,
           DoFold(t, s).ok
    PROVE  Staked(DoFold(t, s))
<1> DEFINE seat == t.seats[s]
           seated == [seat EXCEPT !.folded = TRUE, !.acted = TRUE]
           folded == [t EXCEPT !.seats[s] = seated, !.timers.betting = FALSE]
           next == IF CountActivePlayers(folded) <= 1 THEN EndWithoutShowdown(folded)
                   ELSE AdvanceTurn(folded)
           allowed == IsSeatOccupied(seat) /\ ~seat.folded
<1>1. DoFold(t, s) = Require(next, allowed)
  BY DEF DoFold
<1>2. /\ DOMAIN folded = TableFields /\ folded.seats = [t.seats EXCEPT ![s] = seated]
      /\ folded.round = t.round /\ folded.betting = t.betting
      /\ folded.button = t.button /\ folded.turn = t.turn /\ folded.ok = t.ok
  BY DEF Tallied, Counted, TableFields
<1>3. /\ DOMAIN seated = SeatFields /\ seated.bet = seat.bet
      /\ seated.total_bet = seat.total_bet /\ seated.player = seat.player
      /\ seated.refunded = seat.refunded /\ seated.folded
      /\ seated.left = seat.left /\ seated.is_waiting = seat.is_waiting
      /\ seated.all_in = seat.all_in
  BY DEF Tallied, Counted, SeatFields
<1> HIDE DEF seated, folded
<1>4. Tallied(folded) /\ LiveSeats(folded) = LiveSeats(t) \ {s}
  <2>1. Out(t.seats[s], seated)
    BY <1>3 DEF Out
  <2> QED
    BY <1>2, <2>1, OutTallied
<1>5. Tallied(next) /\ (next.ok => Staked(next))
  <2>1. CASE CountActivePlayers(folded) <= 1
    <3>1. next = EndWithoutShowdown(folded)
      BY <2>1
    <3>2. LiveSeats(folded) = {} => ~next.ok
      BY <1>2, <3>1 DEF EndWithoutShowdown, Abort, TableFields
    <3> HIDE DEF next
    <3> QED
      BY <1>4, <3>1, <3>2, EndWithoutShowdownStaked
  <2>2. CASE ~(CountActivePlayers(folded) <= 1)
    <3>1. next = AdvanceTurn(folded)
      BY <2>2
    <3>2. LiveSeats(folded) # {}
      BY <2>2, LiveCount
    <3> HIDE DEF next
    <3>3. Carries(folded, next)
      BY <1>2, <1>4, <3>1, AdvanceTurnCarries
    <3> QED
      BY <3>2, <3>3 DEF Carries, Staked, PlayedFor
  <2> QED
    BY <2>1, <2>2
<1> HIDE DEF next, allowed
<1>6. allowed
  BY <1>1, <1>5 DEF Require, Abort, Tallied, Counted, TableFields
<1> QED
  BY <1>1, <1>5, <1>6 DEF Require

\* A kick takes the stack, the bet and the place in the hand, and leaves what
\* the player has put in.
LEMMA UnseatedTallied ==
    ASSUME NEW t, Tallied(t), Steady(t), NEW s \in Seats
    PROVE  LET u == Unseated(t, s)
           IN  /\ Tallied(u) /\ LiveSeats(u) = LiveSeats(t) \ {s}
               /\ u.round = t.round /\ u.betting = t.betting
               /\ u.shuffle.phase = t.shuffle.phase
<1> DEFINE seat == t.seats[s]
           marked == [t EXCEPT !.seats[s] = KickedSeat(seat), !.pot = @ + seat.bet]
           unkeyed == IF seat.is_waiting THEN marked ELSE RemovePk(marked, seat.player)
           paid == RefundSui(unkeyed, seat.stack)
           Left(u) == /\ DOMAIN u = TableFields
                      /\ u.seats = [t.seats EXCEPT ![s] = KickedSeat(seat)]
                      /\ u.round = t.round /\ u.betting = t.betting
                      /\ u.button = t.button /\ u.turn = t.turn /\ (u.ok => t.ok)
           u == Unseated(t, s)
<1>1. u = DropFromPhases(paid, s)
  BY DEF Unseated
<1> HIDE DEF u
<1>2. Left(marked) /\ marked.shuffle = t.shuffle
  BY DEF Tallied, Counted, TableFields
<1> HIDE DEF marked
<1>3. Left(unkeyed) /\ unkeyed.shuffle = t.shuffle
  BY <1>2 DEF RemovePk, TableFields
<1> HIDE DEF unkeyed
<1>4. Left(paid) /\ paid.shuffle = t.shuffle
  BY <1>3 DEF RefundSui, Require, Abort, TableFields
<1> HIDE DEF paid
<1>5. Left(u) /\ u.shuffle.phase = t.shuffle.phase
  BY <1>1, <1>4 DEF DropFromPhases, Steady, Formed, TableFields
<1>6. Out(seat, KickedSeat(seat))
  BY DEF KickedSeat, Tallied, Counted, SeatFields, Out
<1>7. Tallied(u) /\ LiveSeats(u) = LiveSeats(t) \ {s}
  BY <1>5, <1>6, OutTallied
<1> QED
  BY <1>5, <1>7 DEF u

\* A kick leaves the phases in step with the round.
LEMMA UnseatedSteady ==
    ASSUME NEW t, Steady(t), NEW s \in Seats
    PROVE  Steady(Unseated(t, s))
<1> DEFINE seat == t.seats[s]
           marked == [t EXCEPT !.seats[s] = KickedSeat(seat), !.pot = @ + seat.bet]
           unkeyed == IF seat.is_waiting THEN marked ELSE RemovePk(marked, seat.player)
           paid == RefundSui(unkeyed, seat.stack)
           u == Unseated(t, s)
<1>1. DOMAIN KickedSeat(seat) = SeatFields
  BY DEF KickedSeat, Steady, Formed
<1>2. Alike(t, marked)
  BY <1>1 DEF Alike, Steady, Formed, TableFields
<1> HIDE DEF marked
<1>3. Alike(t, unkeyed)
  BY <1>2 DEF RemovePk, Alike, Formed, TableFields
<1> HIDE DEF unkeyed
<1>4. Alike(t, paid)
  BY <1>3 DEF RefundSui, Require, Abort, Alike, Formed, TableFields
<1> HIDE DEF paid
<1>5. Alike(t, DropFromPhases(paid, s))
  BY <1>4 DEF DropFromPhases, Alike, Formed, TableFields
<1>6. u = DropFromPhases(paid, s)
  BY DEF Unseated, paid, unkeyed, marked
<1> HIDE DEF u
<1>7. Steady(u)
  BY <1>5, <1>6, AlikeSteady
<1> QED
  BY <1>7 DEF u

\* kick_player_internal: the others play on, or the hand is over.
LEMMA KickStaked ==
    ASSUME NEW t, Staked(t), Opening(t), Steady(t), NEW s \in Seats
    PROVE  /\ Staked(KickPlayerInternal(t, s))
           /\ Dealing(t) /\ ~t.betting.open =>
                 /\ Dealing(KickPlayerInternal(t, s))
                 /\ ~KickPlayerInternal(t, s).betting.open
<1> DEFINE gone == Unseated(t, s)
           freed == [gone EXCEPT !.shuffle.current = NoSeat]
           passed == ShufflePassed(gone, s)
           turned == TurnPassed(passed, s)
           u == KickPlayerInternal(t, s)
           Early(v) == Dealing(v) /\ ~v.betting.open
<1>1. CASE u = Abort(t)
  <2>1. SamePlay(t, Abort(t)) /\ Staked(Abort(t))
    BY RequirePlay, RequireTallied DEF Staked, Tallied
  <2> QED
    BY <1>1, <2>1 DEF SamePlay, Dealing
<1>2. /\ Tallied(gone) /\ gone.round = t.round /\ gone.betting = t.betting
      /\ gone.shuffle.phase = t.shuffle.phase
  BY UnseatedTallied DEF Staked
<1>3. Steady(gone)
  BY UnseatedSteady
<1> HIDE DEF gone
<1>4. /\ DOMAIN freed = TableFields /\ freed.seats = gone.seats
      /\ freed.round = gone.round /\ freed.betting = gone.betting
      /\ freed.button = gone.button /\ freed.turn = gone.turn
      /\ freed.ok = gone.ok /\ freed.shuffle.phase = gone.shuffle.phase
  BY <1>3 DEF Steady, Formed, TableFields
<1> HIDE DEF freed
<1>5. Tallied(freed) /\ Opening(freed) /\ (Early(gone) => Early(freed))
  <2>1. SamePlay(gone, freed)
    BY <1>2, <1>4, SeatsKept DEF Tallied
  <2> QED
    BY <1>2, <1>4, <2>1, SamePlayTallied DEF Opening, Dealing
<1>6. passed = gone \/ passed = AdvanceShuffle(freed)
  BY DEF ShufflePassed, freed
<1> HIDE DEF passed
<1>7. Tallied(passed) /\ (Early(gone) => Early(passed))
  <2>1. CASE passed = gone
    BY <1>2, <2>1
  <2>2. CASE passed = AdvanceShuffle(freed)
    BY <1>5, <2>2, AdvanceShuffleCarries DEF Carries
  <2> QED
    BY <1>6, <2>1, <2>2
<1>8. gone.betting.open => passed.betting.open /\ passed.round = gone.round
  <2>1. gone.betting.open => AdvanceShuffle(freed) = freed
    BY <1>3, <1>4 DEF AdvanceShuffle, Steady, Rounded
  <2> QED
    BY <1>4, <1>6, <2>1
<1>9. passed.betting.open /\ IsBettingRound(passed) =>
         turned \in {passed, EndWithoutShowdown(passed), AdvanceTurn(passed)}
  BY DEF TurnPassed
<1>10. ~IsBettingRound(passed) => turned = passed
  BY DEF TurnPassed
<1>11. IsBettingRound(passed) => passed.betting.open /\ passed.round \in Asked
  BY DEF IsBettingRound, Asked
<1> HIDE DEF turned
<1>12. Tallied(turned) /\ (Early(passed) => Early(turned))
  <2>1. CASE ~IsBettingRound(passed)
    BY <1>7, <1>10, <2>1
  <2>2. CASE IsBettingRound(passed)
    <3>1. Tallied(EndWithoutShowdown(passed)) /\ Tallied(AdvanceTurn(passed))
      BY <1>7, <1>11, <2>2, EndWithoutShowdownStaked, AdvanceTurnCarries DEF Carries
    <3> QED
      BY <1>7, <1>9, <1>11, <2>2, <3>1
  <2> QED
    BY <2>1, <2>2
<1>13. /\ Staked(ResetForNextHand(turned))
       /\ Early(ResetForNextHand(turned))
  <2>1. Staked(ResetForNextHand(turned))
    BY <1>12, ResetStaked DEF Tallied, Counted, Placed
  <2> DEFINE v == ResetForNextHand(turned)
  <2>2. v.round = "waiting" /\ v.betting = NoRound
    BY <1>12 DEF ResetForNextHand, Tallied, Counted, TableFields
  <2> QED
    BY <2>1, <2>2 DEF Dealing, NoRound
<1>14. CountActivePlayers(turned) >= MinPlayers => Staked(turned)
  <2>1. CountActivePlayers(turned) >= MinPlayers => LiveSeats(turned) # {}
    BY LiveCount, TableAssumption
  <2> QED
    BY <1>12, <2>1 DEF Staked, PlayedFor
<1>15. /\ Staked(ResetIfTooFew(turned))
       /\ Early(turned) => Early(ResetIfTooFew(turned))
  <2>1. CountActivePlayers(turned) \in Nat /\ MinPlayers \in Nat
    BY LiveCount, TableAssumption
  <2> HIDE DEF Early
  <2>2. CASE CountActivePlayers(turned) < MinPlayers
    BY <1>13, <2>2 DEF ResetIfTooFew
  <2>3. CASE ~(CountActivePlayers(turned) < MinPlayers)
    BY <1>14, <2>1, <2>3 DEF ResetIfTooFew
  <2> QED
    BY <2>2, <2>3
<1>16. CASE u = ResetIfTooFew(turned)
  <2>1. Dealing(t) /\ ~t.betting.open => Early(gone)
    BY <1>2 DEF Dealing
  <2>2. Staked(u) /\ (Dealing(t) /\ ~t.betting.open => Early(u))
    <3> HIDE DEF Early
    <3> QED
      BY <1>7, <1>12, <1>15, <1>16, <2>1
  <2> QED
    BY <2>2
<1>17. u = Abort(t) \/ u = ResetIfTooFew(turned)
  BY DEF KickPlayerInternal, turned, passed, gone
<1> QED
  BY <1>1, <1>16, <1>17

\* Between bets, with its phases and its bets in order.
Ready(t) == Good(t) /\ Resting(t) /\ Staked(t)

\* Kicking one seat after another.
LEMMA KickAllStaked ==
    ASSUME NEW t, Ready(t), NEW order, Len(order) \in Nat,
           \A i \in 1 .. Len(order) : order[i] \in Seats
    PROVE  Ready(KickAll(t, order)) /\ (Dealing(t) => Dealing(KickAll(t, order)))
<1> DEFINE n == Len(order)
<1>1. PICK after : /\ after[0] = t
                   /\ \A i \in 1 .. n : after[i] = KickIfSeated(after[i - 1], order[i])
                   /\ KickAll(t, order) = after[n]
  BY KickAllSteps
<1> DEFINE Right == {k \in 0 .. n : Ready(after[k]) /\ (Dealing(t) => Dealing(after[k]))}
<1>2. \A k \in 0 .. n : k \in Right
  <2>1. 0 \in Right
    <3>1. after[0] = t
      BY <1>1
    <3> QED
      BY <3>1
  <2>2. ASSUME NEW k \in 1 .. n, k - 1 \in Right
        PROVE  k \in Right
    <3> DEFINE u == after[k - 1]
               s == order[k]
    <3>1. after[k] = KickIfSeated(u, s) /\ s \in Seats
      BY <1>1
    <3>2. Ready(u) /\ (Dealing(t) => Dealing(u))
      BY <2>2
    <3> HIDE DEF u, s
    <3>3. Opening(u) /\ Steady(u) /\ Turned(u) /\ ~u.betting.open
      BY <3>2, GoodOpening, RestingTurned DEF Ready, Resting
    <3>4. Staked(KickPlayerInternal(u, s)) /\ (Dealing(u) => Dealing(KickPlayerInternal(u, s)))
      BY <3>1, <3>2, <3>3, KickStaked DEF Ready
    <3>5. Good(KickPlayerInternal(u, s)) /\ Resting(KickPlayerInternal(u, s))
      BY <3>1, <3>2, <3>3, KickGood, KickTurned DEF Ready
    <3>6. Ready(KickIfSeated(u, s)) /\ (Dealing(u) => Dealing(KickIfSeated(u, s)))
      BY <3>2, <3>4, <3>5 DEF Ready, KickIfSeated
    <3> QED
      BY <3>1, <3>2, <3>6
  <2> HIDE DEF Right
  <2> QED
    BY <2>1, <2>2, UpTo
<1>3. n \in Right
  BY <1>2
<1> QED
  BY <1>1, <1>3

\* do_start_hand moves the button and opens the shuffle.
LEMMA DoStartHandStaked ==
    ASSUME NEW t, Staked(t), Steady(t), t.round = "waiting"
    PROVE  Staked(DoStartHand(t))
<1> DEFINE next == NextAround(OccupiedSeats(t), t.button)
           pending == PendingSeats(t)
           v == [[MoveButton(t) EXCEPT !.timers.shuffle = FALSE]
                    EXCEPT !.shuffle.pending = pending,
                           !.shuffle.phase = "before_preflop"]
           allowed == t.round = "waiting" /\ CountActiveOccupied(t) >= MinPlayers
<1>1. ~t.betting.open
  BY DEF Steady, Rounded, Asked
<1>2. OccupiedSeats(t) # {} => next \in Seats
  <2>1. OccupiedSeats(t) \subseteq Seats /\ t.button \in Int
    BY SeatsAreInt DEF OccupiedSeats, Steady
  <2> QED
    BY <2>1, NextAroundMember
<1> HIDE DEF next, pending
<1>3. MoveButton(t) = t \/ (next \in Seats /\ MoveButton(t) = [t EXCEPT !.button = next])
  BY <1>2 DEF MoveButton, next
<1>4. t.button \in Seats /\ DOMAIN t = TableFields /\ Betless(t) /\ Counted(t) /\ Clean(t)
  <2>1. Tallied(t) /\ Dealing(t)
    BY DEF Staked, Dealing
  <2> QED
    BY <2>1 DEF Tallied, Placed, Counted
<1>5. /\ DOMAIN v = TableFields /\ v.seats = t.seats /\ v.betting = t.betting
      /\ v.round = "waiting" /\ v.button \in Seats /\ v.turn = t.turn
  BY <1>3, <1>4 DEF TableFields
<1>6. DoStartHand(t) = Require(AdvanceShuffle(v), allowed)
  BY DEF DoStartHand, pending
<1> HIDE DEF v
<1>7. Counted(v) /\ Betless(v) /\ Clean(v) /\ ~v.betting.open /\ v.turn \in Int
  BY <1>1, <1>4, <1>5 DEF Counted, Betless, Clean, Staked, Tallied, Placed
<1>8. Staked(v) /\ Opening(v)
  BY <1>5, <1>7, BetlessStaked DEF Rounds, Opening
<1>9. Staked(AdvanceShuffle(v))
  BY <1>8, AdvanceShuffleCarries, CarriesStaked DEF Staked
<1> QED
  BY <1>6, <1>9, RequireTallied DEF Staked

\* All active seats shuffle.
LEMMA ReshuffleStaked ==
    ASSUME NEW t, Staked(t), NEW phase,
           phase = "before_preflop" => t.round = "waiting" /\ ~t.betting.open
    PROVE  Staked(AdvanceShuffle(ShuffleAmongActive(t, phase)))
<1> DEFINE v == ShuffleAmongActive(t, phase)
<1>1. /\ DOMAIN v = TableFields /\ v.seats = t.seats /\ v.round = t.round
      /\ v.betting = t.betting /\ v.button = t.button /\ v.turn = t.turn
      /\ v.ok = t.ok /\ v.shuffle.phase = phase
  BY DEF ShuffleAmongActive, Staked, Tallied, Counted, TableFields
<1> HIDE DEF v
<1>2. Staked(v) /\ Opening(v)
  BY <1>1, SeatsKept, SamePlayTallied DEF Staked, Tallied, Opening
<1>3. Staked(AdvanceShuffle(v))
  BY <1>2, AdvanceShuffleCarries, CarriesStaked DEF Staked
<1> QED
  BY <1>3 DEF v

\* A rebuilt deck leaves the play alone.
LEMMA RebuildDeckStaked ==
    ASSUME NEW t, Staked(t)
    PROVE  Staked(RebuildDeck(t))
<1> DEFINE v == RebuildDeck(t)
<1>1. /\ DOMAIN v = TableFields /\ v.seats = t.seats /\ v.round = t.round
      /\ v.betting = t.betting /\ v.button = t.button /\ v.turn = t.turn
      /\ v.ok = t.ok
  BY DEF RebuildDeck, Staked, Tallied, Counted, TableFields
<1> HIDE DEF v
<1>2. Staked(v)
  BY <1>1, SeatsKept, SamePlayTallied DEF Staked, Tallied
<1> QED
  BY <1>2 DEF v

\* on_complete_reconstruct, start_reconstruct, and what has been handed in.
LEMMA ReconstructStaked ==
    ASSUME NEW t, Staked(t)
    PROVE  /\ Staked(OnCompleteReconstruct(t)) /\ Staked(StartReconstruct(t))
           /\ \A r : Staked([t EXCEPT !.reconstruct = r])
<1>1. \A r : Staked([t EXCEPT !.reconstruct = r])
  <2> TAKE r
  <2> DEFINE v == [t EXCEPT !.reconstruct = r]
  <2>1. /\ DOMAIN v = TableFields /\ v.seats = t.seats /\ v.round = t.round
        /\ v.betting = t.betting /\ v.button = t.button /\ v.turn = t.turn
        /\ v.ok = t.ok
    BY DEF Staked, Tallied, Counted, TableFields
  <2> HIDE DEF v
  <2>2. Staked(v)
    BY <2>1, SeatsKept, SamePlayTallied DEF Staked, Tallied
  <2> QED
    BY <2>2 DEF v
<1>2. Staked(StartReconstruct(t))
  <2> DEFINE v == StartReconstruct(t)
  <2>1. /\ DOMAIN v = TableFields /\ v.seats = t.seats /\ v.round = t.round
        /\ v.betting = t.betting /\ v.button = t.button /\ v.turn = t.turn
        /\ v.ok = t.ok
    BY DEF StartReconstruct, Staked, Tallied, Counted, TableFields
  <2> HIDE DEF v
  <2>2. Staked(v)
    BY <2>1, SeatsKept, SamePlayTallied DEF Staked, Tallied
  <2> QED
    BY <2>2 DEF v
<1>3. Staked(OnCompleteReconstruct(t))
  <2> DEFINE u == RebuildDeck(t)
             v == [u EXCEPT !.reconstruct.phase = "none"]
  <2>1. Staked(u)
    BY RebuildDeckStaked
  <2>2. OnCompleteReconstruct(t) = AdvanceShuffle(ShuffleAmongActive(v, "reconstruct"))
    BY DEF OnCompleteReconstruct
  <2> HIDE DEF u
  <2>3. /\ DOMAIN v = TableFields /\ v.seats = u.seats /\ v.round = u.round
        /\ v.betting = u.betting /\ v.button = u.button /\ v.turn = u.turn
        /\ v.ok = u.ok
    BY <2>1 DEF Staked, Tallied, Counted, TableFields
  <2> HIDE DEF v
  <2>4. Staked(v)
    BY <2>1, <2>3, SeatsKept, SamePlayTallied DEF Staked, Tallied
  <2> QED
    BY <2>2, <2>4, ReshuffleStaked
<1> QED
  BY <1>1, <1>2, <1>3

\* What a timeout does after its kicks: nobody left means that nothing was put
\* in.
LEMMA AfterKicksStaked ==
    ASSUME NEW t, Staked(t), NEW goOn, Staked(goOn)
    PROVE  Staked(AfterKicks(t, goOn))
<1>1. CountActivePlayers(t) = 0 => Staked(ResetForNextHand(RefundAllBets(t)))
  BY LiveCount, RefundThenResetStaked DEF Staked, PlayedFor
<1>2. Staked(EndWithoutShowdown(t))
  BY EndWithoutShowdownStaked DEF Staked
<1> QED
  BY <1>1, <1>2 DEF AfterKicks

\* on_reconstruct_timeout
LEMMA OnReconstructTimeoutStaked ==
    ASSUME NEW t, Ready(t), t.reconstruct.pending \subseteq Seats
    PROVE  Staked(OnReconstructTimeout(t))
<1> DEFINE order == Ascending(t.reconstruct.pending)
           u == KickAll(t, order)
<1>1. Len(order) \in Nat /\ \A i \in 1 .. Len(order) : order[i] \in Seats
  <2>1. t.reconstruct.pending \in SUBSET Int /\ IsFiniteSet(t.reconstruct.pending)
    BY SomeSeatsFinite, TableAssumption DEF Seats
  <2>2. Len(order) = Cardinality(t.reconstruct.pending) /\ Len(order) \in Nat
    BY <2>1, AscendingLists
  <2> QED
    BY <2>1, <2>2, AscendingMembers
<1> HIDE DEF order
<1>2. Staked(u)
  BY <1>1, KickAllStaked DEF Ready
<1>3. OnReconstructTimeout(t) = AfterReconstructKicks(u)
  BY DEF OnReconstructTimeout, order
<1> HIDE DEF u
<1>4. ActiveSeats(u) = {} => Staked(ResetForNextHand(RefundAllBets(u)))
  <2>1. ActiveSeats(u) = {} => LiveSeats(u) = {}
    BY LiveAre
  <2> QED
    BY <1>2, <2>1, RefundThenResetStaked DEF Staked, PlayedFor
<1> QED
  BY <1>2, <1>3, <1>4, EndWithoutShowdownStaked, ReconstructStaked
     DEF AfterReconstructKicks, Staked

\* on_reveal_timeout: before the flop no bets have been made yet.
LEMMA OnRevealTimeoutStaked ==
    ASSUME NEW t, Ready(t), DOMAIN t.reveal.asg \subseteq Nat
    PROVE  Staked(OnRevealTimeout(t))
<1> DEFINE order == RevealDebtors(t)
           u == KickAll(t, order)
           again == ResetForNextHand(RefundAllBets(u))
<1>1. Len(order) \in Nat /\ \A i \in 1 .. Len(order) : order[i] \in Seats
  BY DebtorsListed
<1> HIDE DEF order
<1>2. Staked(u) /\ (Dealing(t) => Dealing(u))
  BY <1>1, KickAllStaked DEF Ready
<1>3. \/ t.round = "preflop" /\ OnRevealTimeout(t) = AfterKicks(u, again)
      \/ OnRevealTimeout(t) \in {u, AfterKicks(u, StartReconstruct(u))}
  BY DEF OnRevealTimeout, RestartAfterKicks, ReconstructAfterKicks, order
<1> HIDE DEF u
<1>4. t.round = "preflop" => Staked(again)
  <2>1. t.round = "preflop" => Dealing(t)
    BY DEF Ready, Resting, Dealing
  <2> QED
    BY <1>2, <2>1, RefundThenResetStaked DEF Staked, Tallied
<1> HIDE DEF again
<1> QED
  BY <1>2, <1>3, <1>4, AfterKicksStaked, ReconstructStaked

\* on_shuffle_timeout
LEMMA OnShuffleTimeoutStaked ==
    ASSUME NEW t, Ready(t), t.shuffle.current \in Seats
    PROVE  Staked(OnShuffleTimeout(t))
<1> DEFINE s == t.shuffle.current
           u == KickPlayerInternal(t, s)
           decks == u.reconstruct.decks \ {s}
           v == [u EXCEPT !.reconstruct.decks = decks]
           rebuilt == RebuildDeck(v)
           again == AdvanceShuffle(ShuffleAmongActive(u, "before_preflop"))
           anew == AdvanceShuffle(ShuffleAmongActive(rebuilt, "reconstruct"))
<1>1. Staked(u) /\ Good(u) /\ u.shuffle.phase \in {t.shuffle.phase, "none"}
  BY KickStaked, KickGood, GoodOpening DEF Ready, Resting
<1>2. \/ OnShuffleTimeout(t) \in {t, AfterKicks(u, u), AfterKicks(u, anew)}
      \/ /\ t.shuffle.phase = "before_preflop" /\ u.shuffle.phase # "none"
         /\ OnShuffleTimeout(t) = AfterKicks(u, again)
  BY DEF OnShuffleTimeout, ReshuffleAfterKick, RebuildAfterKick
<1> HIDE DEF u, decks
<1>3. /\ DOMAIN v = TableFields /\ v.seats = u.seats /\ v.round = u.round
      /\ v.betting = u.betting /\ v.button = u.button /\ v.turn = u.turn
      /\ v.ok = u.ok
  BY <1>1 DEF Staked, Tallied, Counted, TableFields
<1> HIDE DEF v
<1>4. Staked(rebuilt)
  BY <1>1, <1>3, SeatsKept, SamePlayTallied, RebuildDeckStaked DEF Staked, Tallied
<1> HIDE DEF rebuilt
<1>5. Staked(anew)
  BY <1>4, ReshuffleStaked
<1>6. t.shuffle.phase = "before_preflop" /\ u.shuffle.phase # "none" => Staked(again)
  <2>1. u.shuffle.phase = "before_preflop" => u.round = "waiting" /\ ~u.betting.open
    BY <1>1, GoodOpening DEF Opening
  <2> QED
    BY <1>1, <2>1, ReshuffleStaked
<1> HIDE DEF again, anew
<1> QED
  BY <1>1, <1>2, <1>5, <1>6, AfterKicksStaked DEF Ready

-----------------------------------------------------------------------------
(* Joining and leaving.                                                    *)

\* A seat is handed over between two hands, or by and to a player who is not in
\* this one.
LEMMA SeatHandedOver ==
    ASSUME NEW t, Staked(t), NEW s \in Seats, NEW seat, DOMAIN seat = SeatFields,
           seat.bet = 0, seat.total_bet = 0,
           seat.player = NoPlayer \/ seat.refunded = FALSE,
           \/ t.round = "waiting" /\ ~t.betting.open
           \/ s \notin LiveSeats(t) /\ (seat.player = NoPlayer \/ seat.is_waiting),
           NEW u, DOMAIN u = TableFields, u.seats = [t.seats EXCEPT ![s] = seat],
           u.round = t.round, u.betting = t.betting, u.button = t.button,
           u.turn = t.turn, u.ok => t.ok
    PROVE  Staked(u)
<1>1. CASE t.round = "waiting" /\ ~t.betting.open
  <2>1. Tallied(t) /\ Dealing(t)
    BY <1>1 DEF Staked, Dealing
  <2>2. Counted(t) /\ Betless(t) /\ Clean(t) /\ t.button \in Seats /\ t.turn \in Int
    BY <2>1 DEF Tallied, Placed
  <2>3. /\ u.seats[s] = seat /\ \A r \in Seats \ {s} : u.seats[r] = t.seats[r]
        /\ DOMAIN u.seats = Seats
    BY <2>2 DEF Counted
  <2>4. Counted(u) /\ Betless(u) /\ Clean(u)
    BY <2>2, <2>3 DEF Counted, Betless, Clean
  <2> QED
    BY <1>1, <2>2, <2>4, BetlessStaked DEF Rounds
<1>2. CASE s \notin LiveSeats(t) /\ (seat.player = NoPlayer \/ seat.is_waiting)
  <2>1. Out(t.seats[s], seat)
    BY <1>2 DEF Out
  <2>2. /\ Tallied(u) /\ LiveSeats(u) = LiveSeats(t) \ {s}
        /\ Betless(t) => Betless(u)
    BY <2>1, OutTallied DEF Staked
  <2> QED
    BY <1>2, <2>2 DEF Staked, PlayedFor, Open
<1> QED
  BY <1>1, <1>2

\* join_table and join_and_shuffle
LEMMA JoinStaked ==
    ASSUME NEW p \in Players, NEW s \in Seats, NEW coin, Steady(table), Staked(table),
           JoinTable(p, s, coin) \/ JoinAndShuffle(p, s, coin)
    PROVE  Staked(table')
<1> DEFINE waits == IsPlaying(table)
           stack == coin \div Ratio
           Taken(u, w) ==
               /\ DOMAIN u = TableFields
               /\ u.seats = [table.seats EXCEPT ![s] = InitSeat(p, stack, w)]
               /\ u.round = table.round /\ u.betting = table.betting
               /\ u.button = table.button /\ u.turn = table.turn /\ u.ok = table.ok
<1>1. s \notin LiveSeats(table)
  BY LiveAre DEF JoinTable, JoinAndShuffle, CanSit, IsSeatOccupied
<1>2. \E w \in {waits, FALSE} : Taken(table', w) /\ (w \/ table.round = "waiting")
  <2>1. CASE JoinTable(p, s, coin)
    <3>1. Taken(table', waits)
      BY <2>1 DEF JoinTable, Commit, Seated, AddPk, Staked, Tallied, Counted, TableFields
    <3>2. waits \/ table.round = "waiting"
      BY DEF IsPlaying
    <3> QED
      BY <3>1, <3>2
  <2>2. CASE JoinAndShuffle(p, s, coin)
    <3>1. Taken(table', FALSE) /\ table.round = "waiting"
      BY <2>2 DEF JoinAndShuffle, Commit, Seated, AddPk, Staked, Tallied, Counted, TableFields
    <3> QED
      BY <3>1
  <2> QED
    BY <2>1, <2>2
<1>3. PICK w \in {waits, FALSE} : Taken(table', w) /\ (w \/ table.round = "waiting")
  BY <1>2
<1> DEFINE seat == InitSeat(p, stack, w)
<1>4. /\ DOMAIN seat = SeatFields /\ seat.bet = 0 /\ seat.total_bet = 0
      /\ seat.refunded = FALSE /\ seat.is_waiting = w
  BY DEF InitSeat, EmptySeat, SeatFields
<1>5. table.round = "waiting" => ~table.betting.open
  BY DEF Steady, Rounded, Asked
<1> DEFINE u == table'
<1>6. Taken(u, w)
  BY <1>3
<1> HIDE DEF seat, u, waits
<1>7. Staked(u)
  <2>1. /\ u.seats = [table.seats EXCEPT ![s] = seat] /\ DOMAIN u = TableFields
        /\ u.round = table.round /\ u.betting = table.betting
        /\ u.button = table.button /\ u.turn = table.turn /\ (u.ok => table.ok)
    BY <1>6 DEF seat
  <2>2. \/ table.round = "waiting" /\ ~table.betting.open
        \/ s \notin LiveSeats(table) /\ (seat.player = NoPlayer \/ seat.is_waiting)
    BY <1>1, <1>3, <1>4, <1>5
  <2> HIDE DEF Taken
  <2> QED
    BY <1>4, <2>1, <2>2, SeatHandedOver
<1> QED
  BY <1>7 DEF u

\* leave_with_proof and leave_table
LEMMA LeaveStaked ==
    ASSUME NEW s \in Seats, Steady(table), Staked(table),
           LeaveWithProof(s) \/ LeaveTable(s)
    PROVE  Staked(table')
<1> DEFINE unkeyed == RemovePk(table, table.seats[s].player)
           dropped == [unkeyed EXCEPT !.shuffle.pending = @ \ {s},
                                      !.shuffle.completed = @ \ {s}]
           Same(u) == /\ DOMAIN u = TableFields /\ u.seats = table.seats
                      /\ u.round = table.round /\ u.betting = table.betting
                      /\ u.button = table.button /\ u.turn = table.turn
                      /\ u.ok = table.ok
           Left(u) == /\ DOMAIN u = TableFields
                      /\ u.seats = [table.seats EXCEPT ![s] = EmptySeat]
                      /\ u.round = table.round /\ u.betting = table.betting
                      /\ u.button = table.button /\ u.turn = table.turn
                      /\ (u.ok => table.ok)
<1>1. \E u \in {table, unkeyed, dropped} : table' = Departed(u, s)
  BY DEF LeaveWithProof, LeaveTable, Commit
<1>2. table.round = "waiting" \/ s \notin LiveSeats(table)
  BY LiveAre DEF LeaveWithProof, LeaveTable, IsPlaying
<1>3. Same(table) /\ Same(unkeyed) /\ Same(dropped)
  BY DEF RemovePk, Staked, Tallied, Counted, TableFields
<1> HIDE DEF unkeyed, dropped
<1>4. ASSUME NEW u, Same(u)
      PROVE  Left(Departed(u, s))
  <2> DEFINE paid == RefundSui(u, u.seats[s].stack)
  <2>1. /\ DOMAIN paid = TableFields /\ paid.seats = table.seats
        /\ paid.round = table.round /\ paid.betting = table.betting
        /\ paid.button = table.button /\ paid.turn = table.turn
        /\ (paid.ok => table.ok)
    BY <1>4 DEF RefundSui, Require, Abort, TableFields
  <2>2. Departed(u, s) = [paid EXCEPT !.seats[s] = EmptySeat]
    BY DEF Departed
  <2> HIDE DEF paid
  <2> QED
    BY <2>1, <2>2 DEF TableFields
<1> DEFINE v == table'
           seat == EmptySeat
<1>5. Left(v)
  BY <1>1, <1>3, <1>4
<1>6. /\ DOMAIN seat = SeatFields /\ seat.bet = 0 /\ seat.total_bet = 0
      /\ seat.player = NoPlayer /\ seat.refunded = FALSE
  BY DEF EmptySeat, SeatFields
<1>7. table.round = "waiting" => ~table.betting.open
  BY DEF Steady, Rounded, Asked
<1>8. v.seats = [table.seats EXCEPT ![s] = seat]
  BY <1>5
<1> HIDE DEF v, seat
<1>9. Staked(v)
  BY <1>2, <1>5, <1>6, <1>7, <1>8, SeatHandedOver
<1> QED
  BY <1>9 DEF v

-----------------------------------------------------------------------------
(* Betting.                                                                *)

\* Who has acted makes no difference to the play.
LEMMA ActedPlay ==
    ASSUME NEW t, Counted(t), NEW s
    PROVE  SamePlay(t, Acted(t, s)) /\ SamePlay(t, ResetOtherPlayersActed(t, s))
<1>1. SamePlay(t, Acted(t, s))
  BY DEF Acted, SamePlay, Counted, TableFields, SeatFields
<1>2. SamePlay(t, ResetOtherPlayersActed(t, s))
  BY DEF ResetOtherPlayersActed, SamePlay, Counted, TableFields, SeatFields
<1> QED
  BY <1>1, <1>2

\* Chips put in up to the bet to be called, which a raise moves up.
LEMMA PutInTallied ==
    ASSUME NEW t, Tallied(t), t.betting.open, t.round \in Asked,
           NEW s \in Seats, ~t.seats[s].all_in, NEW amount \in Nat,
           NEW u, DOMAIN u = TableFields,
           u.seats = [t.seats EXCEPT ![s] = PutIn(t.seats[s], amount)],
           u.round = t.round, u.button = t.button, u.turn = t.turn, u.ok = t.ok,
           u.betting.open, DOMAIN u.betting = {"open", "current_bet", "min_raise"},
           u.betting.current_bet \in Int,
           u.betting.current_bet >= t.betting.current_bet,
           s \in LiveSeats(t) => t.seats[s].bet + amount <= u.betting.current_bet
    PROVE  Tallied(u) /\ LiveSeats(u) = LiveSeats(t)
<1> DEFINE before == t.seats[s]
           seat == PutIn(before, amount)
<1>1. /\ DOMAIN before = SeatFields /\ before.bet \in Nat /\ before.total_bet \in Nat
      /\ DOMAIN t.seats = Seats /\ t.betting.current_bet \in Int
  BY DEF Tallied, Counted
<1>2. /\ DOMAIN seat = SeatFields /\ seat.bet = before.bet + amount
      /\ seat.total_bet = before.total_bet + amount
      /\ seat.player = before.player /\ seat.left = before.left
      /\ seat.is_waiting = before.is_waiting /\ seat.folded = before.folded
      /\ seat.refunded = before.refunded
  BY <1>1 DEF PutIn, SeatFields
<1>3. u.seats = [t.seats EXCEPT ![s] = seat]
  OBVIOUS
<1> HIDE DEF seat
<1>4. /\ u.seats[s] = seat /\ \A r \in Seats \ {s} : u.seats[r] = t.seats[r]
      /\ DOMAIN u.seats = Seats
  BY <1>1, <1>3
<1>5. LiveSeats(u) = LiveSeats(t)
  BY <1>2, <1>4 DEF LiveSeats, ActiveSeats, OccupiedSeats, IsSeatOccupied
<1>6. Counted(u)
  BY <1>1, <1>2, <1>4 DEF Tallied, Counted
<1>7. /\ Prior(seat) = Prior(before)
      /\ s \in LiveSeats(t) => seat.bet <= u.betting.current_bet
  BY <1>1, <1>2 DEF Prior
<1>8. \A r \in Seats : /\ Prior(u.seats[r]) = Prior(t.seats[r])
                       /\ ~u.seats[r].all_in => ~t.seats[r].all_in
  BY <1>4, <1>7
<1>9. Level(u)
  BY <1>5, <1>8, LiveAre DEF Tallied, Level
<1>10. Capped(u)
  <2>1. ASSUME NEW r \in LiveSeats(t)
        PROVE  u.seats[r].bet <= u.betting.current_bet
    <3>1. r \in Seats /\ t.seats[r].bet \in Int /\ t.seats[r].bet <= t.betting.current_bet
      BY <2>1, LiveAre DEF Tallied, Counted, Capped
    <3> QED
      BY <1>1, <1>4, <1>7, <3>1
  <2> QED
    BY <1>5, <2>1 DEF Capped
<1>11. /\ Flat(u) /\ u.round \in Rounds /\ ~Dealing(u) /\ Clean(u) /\ Placed(u)
  BY <1>2, <1>4 DEF Tallied, Flat, Dealing, Clean, Placed, Asked
<1> QED
  BY <1>5, <1>6, <1>9, <1>10, <1>11 DEF Tallied

\* After a bet the next player acts, or the street is over.
LEMMA BetThenTurnStaked ==
    ASSUME NEW t, Tallied(t), LiveSeats(t) # {}, t.betting.open, t.round \in Asked
    PROVE  Staked(AdvanceTurn(t))
BY AdvanceTurnCarries DEF Carries, Staked, PlayedFor

\* fold, auto_fold and force_fold
LEMMA FoldsStaked ==
    ASSUME NEW s \in Seats, Staked(table), Fold(s) \/ AutoFold(s) \/ ForceFold(s)
    PROVE  Staked(table')
<1>1. /\ table.betting.open /\ table.round \in Asked
      /\ table' = DoFold(table, s) /\ DoFold(table, s).ok
  BY DEF Fold, AutoFold, ForceFold, OnTurn, Commit, IsBettingRound, Asked
<1> QED
  BY <1>1, DoFoldStaked DEF Staked

\* check and call: a call takes no more than is owed.
LEMMA CheckCallStaked ==
    ASSUME NEW s \in Seats, table.ok, Ledger(table), Staked(table), Check(s) \/ Call(s)
    PROVE  Staked(table')
<1> DEFINE seat == table.seats[s]
           amount == CallAmount(table.betting, seat)
           paid == PutIn(seat, amount)
           u == [table EXCEPT !.seats[s] = paid]
<1>1. /\ table.betting.open /\ table.round \in Asked /\ ~seat.all_in
      /\ \/ table' = AdvanceTurn(Acted(table, s))
         \/ CanCall(table.betting, seat.bet) /\ table' = AdvanceTurn(Acted(u, s))
  BY DEF Check, Call, OnTurn, Commit, IsBettingRound, Asked
<1>2. Tallied(table) /\ Counted(table) /\ LiveSeats(table) # {}
  BY <1>1 DEF Staked, Tallied, PlayedFor, Open
<1>3. /\ seat.bet \in Nat /\ seat.stack \in Nat /\ table.betting.current_bet \in Int
      /\ DOMAIN table.betting = {"open", "current_bet", "min_raise"}
  BY DEF Ledger, Booked
<1>4. ASSUME CanCall(table.betting, seat.bet)
      PROVE  Tallied(u) /\ LiveSeats(u) = LiveSeats(table) /\ u.betting.open /\ u.round \in Asked
  <2>1. amount \in Nat /\ seat.bet + amount <= table.betting.current_bet
    BY <1>3, <1>4 DEF CanCall, CallAmount, ChipsToCall
  <2> HIDE DEF amount
  <2>2. /\ DOMAIN u = TableFields /\ u.seats = [table.seats EXCEPT ![s] = paid]
        /\ u.round = table.round /\ u.betting = table.betting
        /\ u.button = table.button /\ u.turn = table.turn /\ u.ok = table.ok
    BY <1>2 DEF Counted, TableFields
  <2> HIDE DEF u
  <2>3. /\ u.seats = [table.seats EXCEPT ![s] = PutIn(table.seats[s], amount)]
        /\ u.betting.open /\ DOMAIN u.betting = {"open", "current_bet", "min_raise"}
        /\ u.betting.current_bet \in Int
        /\ u.betting.current_bet >= table.betting.current_bet
        /\ table.seats[s].bet + amount <= u.betting.current_bet
    BY <1>1, <1>3, <2>1, <2>2
  <2>4. Tallied(u) /\ LiveSeats(u) = LiveSeats(table)
    BY <1>1, <1>2, <2>1, <2>2, <2>3, PutInTallied, ZenonT(90)
  <2> QED
    BY <1>1, <2>2, <2>3, <2>4
<1> HIDE DEF u
<1>5. ASSUME NEW v, Tallied(v), LiveSeats(v) # {}, v.betting.open, v.round \in Asked
      PROVE  Staked(AdvanceTurn(Acted(v, s)))
  <2> DEFINE w == Acted(v, s)
  <2>1. SamePlay(v, w)
    BY <1>5, ActedPlay DEF Tallied
  <2> HIDE DEF w
  <2>2. Tallied(w) /\ LiveSeats(w) # {} /\ w.betting.open /\ w.round \in Asked
    BY <1>5, <2>1, SamePlayTallied DEF SamePlay
  <2>3. Staked(AdvanceTurn(w))
    BY <2>2, BetThenTurnStaked
  <2> QED
    BY <2>3 DEF w
<1> QED
  BY <1>1, <1>2, <1>4, <1>5

\* raise: the bet to be called is the one of the player who raises.
LEMMA RaiseStaked ==
    ASSUME NEW s \in Seats, NEW total \in Int, table.ok, Ledger(table), Staked(table),
           Raise(s, total)
    PROVE  Staked(table')
<1> DEFINE seat == table.seats[s]
           amount == total - seat.bet
           betting == RaisedRound(table.betting, total)
           paid == PutIn(seat, amount)
           u == [table EXCEPT !.betting = betting, !.seats[s] = paid]
           v == Acted(u, s)
           w == ResetOtherPlayersActed(v, s)
<1>1. /\ table.betting.open /\ table.round \in Asked /\ ~seat.all_in
      /\ CanRaiseTo(table.betting, seat, total) /\ table' = AdvanceTurn(w)
  BY DEF Raise, OnTurn, Commit, IsBettingRound, Asked
<1>2. Tallied(table) /\ Counted(table) /\ LiveSeats(table) # {}
  BY <1>1 DEF Staked, Tallied, PlayedFor, Open
<1>3. /\ seat.bet \in Nat /\ seat.stack \in Nat /\ table.betting.current_bet \in Int
      /\ DOMAIN table.betting = {"open", "current_bet", "min_raise"}
  BY DEF Ledger, Booked
<1>4. /\ amount \in Nat /\ seat.bet + amount = total
      /\ total >= table.betting.current_bet
  BY <1>1, <1>3 DEF CanRaiseTo
<1>5. /\ betting.open /\ DOMAIN betting = {"open", "current_bet", "min_raise"}
      /\ betting.current_bet = total
  BY <1>1, <1>3 DEF RaisedRound
<1> HIDE DEF amount, betting, paid
<1>6. /\ DOMAIN u = TableFields /\ u.seats = [table.seats EXCEPT ![s] = paid]
      /\ u.round = table.round /\ u.betting = betting
      /\ u.button = table.button /\ u.turn = table.turn /\ u.ok = table.ok
  BY <1>2 DEF Counted, TableFields
<1> HIDE DEF u
<1>7. Tallied(u) /\ LiveSeats(u) # {} /\ u.betting.open /\ u.round \in Asked
  <2>1. /\ u.seats = [table.seats EXCEPT ![s] = PutIn(table.seats[s], amount)]
        /\ u.betting.open /\ DOMAIN u.betting = {"open", "current_bet", "min_raise"}
        /\ u.betting.current_bet \in Int
        /\ u.betting.current_bet >= table.betting.current_bet
        /\ table.seats[s].bet + amount <= u.betting.current_bet
    BY <1>3, <1>4, <1>5, <1>6 DEF paid
  <2>2. /\ table.betting.open /\ table.round \in Asked /\ ~table.seats[s].all_in
        /\ Tallied(table) /\ amount \in Nat /\ DOMAIN u = TableFields
        /\ u.round = table.round /\ u.button = table.button
        /\ u.turn = table.turn /\ u.ok = table.ok
    BY <1>1, <1>2, <1>4, <1>6
  <2> HIDE DEF seat, v, w
  <2>3. Tallied(u) /\ LiveSeats(u) = LiveSeats(table)
    BY <2>1, <2>2, PutInTallied, ZenonT(180)
  <2> QED
    BY <1>2, <2>1, <2>2, <2>3
<1>8. SamePlay(u, v)
  BY <1>7, ActedPlay DEF Tallied
<1> HIDE DEF v
<1>9. Tallied(v) /\ LiveSeats(v) # {} /\ v.betting.open /\ v.round \in Asked
  BY <1>7, <1>8, SamePlayTallied DEF SamePlay
<1>10. SamePlay(v, w)
  BY <1>9, ActedPlay DEF Tallied
<1> HIDE DEF w
<1>11. Tallied(w) /\ LiveSeats(w) # {} /\ w.betting.open /\ w.round \in Asked
  BY <1>9, <1>10, SamePlayTallied DEF SamePlay
<1> QED
  BY <1>1, <1>11, BetThenTurnStaked

-----------------------------------------------------------------------------
(* The card protocol and the tick.                                         *)

\* start_hand
LEMMA StartHandStaked ==
    ASSUME Steady(table), Staked(table), StartHand
    PROVE  Staked(table')
<1>1. table' = DoStartHand(table) /\ table.round = "waiting"
  BY StartHandAllowed DEF Steady, Formed
<1> QED
  BY <1>1, DoStartHandStaked

\* submit_shuffle
LEMMA SubmitShuffleStaked ==
    ASSUME NEW s \in Seats, Good(table), Staked(table), SubmitShuffle(s)
    PROVE  Staked(table')
<1> DEFINE u == [table EXCEPT !.shuffle.completed = @ \cup {s},
                              !.shuffle.pending = @ \ {s}]
<1>1. table' = AdvanceShuffle(u)
  BY DEF SubmitShuffle, Commit
<1>2. /\ DOMAIN u = TableFields /\ u.seats = table.seats /\ u.round = table.round
      /\ u.betting = table.betting /\ u.button = table.button /\ u.turn = table.turn
      /\ u.ok = table.ok /\ u.shuffle.phase = table.shuffle.phase
  BY DEF Staked, Tallied, Counted, Good, Sound, Shaped, TableFields
<1> HIDE DEF u
<1>3. Staked(u) /\ Opening(u)
  BY <1>2, SeatsKept, SamePlayTallied, GoodOpening DEF Staked, Tallied, Opening
<1> QED
  BY <1>1, <1>3, AdvanceShuffleCarries, CarriesStaked DEF Staked

\* submit_reconstruct_deck
LEMMA SubmitReconstructDeckStaked ==
    ASSUME NEW s \in Seats, Steady(table), Staked(table), SubmitReconstructDeck(s)
    PROVE  Staked(table')
<1> DEFINE r == [table.reconstruct EXCEPT !.pending = @ \ {s}, !.decks = @ \cup {s}]
           u == [table EXCEPT !.reconstruct = r]
           v == [table EXCEPT !.reconstruct.pending = @ \ {s},
                              !.reconstruct.decks = @ \cup {s}]
<1>1. v = u
  BY DEF Steady, Formed, TableFields
<1>2. table' = v \/ table' = OnCompleteReconstruct(v)
  BY DEF SubmitReconstructDeck, Commit
<1> HIDE DEF r, v
<1>3. Staked(u)
  BY ReconstructStaked
<1> HIDE DEF u
<1> QED
  BY <1>1, <1>2, <1>3, ReconstructStaked

\* submit_player_reveal_tokens: opened cards change nobody's bet.
LEMMA SubmitRevealTokensStaked ==
    ASSUME NEW s \in Seats, NEW S, NEW blank, NEW ranks, Turned(table), Ledger(table),
           Staked(table), SubmitRevealTokens(s, S, blank, ranks)
    PROVE  Staked(table')
<1> DEFINE done == {a \in S : table.reveal.asg[a].pending = {s}}
           taken == TokensTaken(table, s, S)
           opened == TokensOpened(s, S, blank)
           Same(v) == /\ DOMAIN v = TableFields /\ v.seats = table.seats
                      /\ v.round = table.round /\ v.betting = table.betting
                      /\ v.button = table.button /\ v.turn = table.turn
                      /\ (v.ok => table.ok)
<1>1. table' = CheckRevealPhaseComplete(opened, ranks)
  BY DEF SubmitRevealTokens, Commit, TokensOpened
<1>2. Steady(opened)
  BY TokensOpenedResting DEF Resting
<1>3. Same(taken)
  BY DEF TokensTaken, Turned, Steady, Formed, TableFields
<1>4. \/ opened = HoleCardsOpened(taken, done)
      \/ opened = HoleCardsShown(taken, done)
      \/ opened = CommunityOpened(taken, done, blank)
  BY DEF TokensOpened
<1> HIDE DEF taken, opened, done
<1>5. Same(HoleCardsOpened(taken, done)) /\ Same(HoleCardsShown(taken, done))
  BY <1>3 DEF HoleCardsOpened, HoleCardsShown, TableFields
<1>6. Same(CommunityOpened(taken, done, blank))
  <2> DEFINE n == Cardinality(blank)
             dealt == [taken EXCEPT !.ready = @ + Cardinality(done \ blank),
                                    !.blanks = @ - n]
  <2>1. Same(dealt)
    BY <1>3 DEF TableFields
  <2>2. \/ CommunityOpened(taken, done, blank) = dealt
        \/ \E asg, cond :
              CommunityOpened(taken, done, blank)
                 = Require([dealt EXCEPT !.dealt = @ + n, !.reveal.asg = asg], cond)
    BY DEF CommunityOpened
  <2> HIDE DEF dealt, n
  <2>3. \A asg : Same([dealt EXCEPT !.dealt = @ + n, !.reveal.asg = asg])
    BY <2>1 DEF TableFields
  <2>4. \A v, cond : Same(v) => Same(Require(v, cond))
    BY DEF Require, Abort, TableFields
  <2> HIDE DEF Same
  <2> QED
    BY <2>1, <2>2, <2>3, <2>4
<1>7. Same(opened)
  BY <1>4, <1>5, <1>6
<1>8. Staked(opened) /\ \A r \in Seats : opened.seats[r].stack \in Nat
  <2>1. SamePlay(table, opened)
    BY <1>7, SeatsKept DEF Staked, Tallied
  <2> QED
    BY <1>7, <2>1, SamePlayTallied DEF Ledger, Booked
<1> QED
  BY <1>1, <1>2, <1>8, CheckRevealStaked

\* A started timer leaves the play as it is.
LEMMA TimersStaked ==
    ASSUME NEW t, Staked(t), NEW timers
    PROVE  Staked([t EXCEPT !.timers = timers])
<1> DEFINE u == [t EXCEPT !.timers = timers]
<1>1. SamePlay(t, u)
  BY DEF SamePlay, Staked, Tallied, Counted, TableFields
<1> QED
  BY <1>1, SamePlayTallied

\* tick, while cards are shuffled
LEMMA TickShuffleStaked ==
    ASSUME NEW t, Good(t), Turned(t), Staked(t), t.shuffle.phase # "none", NEW expired
    PROVE  Staked(TickShuffle(t, expired))
<1> DEFINE timers == [t.timers EXCEPT !.shuffle = TRUE]
<1>1. \/ TickShuffle(t, expired) = AdvanceShuffle(t)
      \/ TickShuffle(t, expired) = OnShuffleTimeout(t)
      \/ TickShuffle(t, expired) = [t EXCEPT !.timers = timers]
  BY DEF TickShuffle, Turned, Steady, Formed, TableFields
<1> HIDE DEF timers
<1>2. Ready(t)
  BY DEF Ready, Turned, Resting, Steady, Formed, Rounded
<1>3. t.shuffle.current \in Seats
  BY ActiveAreSeats DEF Good, Sound, Covers, Led
<1>4. Staked(AdvanceShuffle(t))
  BY GoodOpening, AdvanceShuffleCarries, CarriesStaked DEF Staked
<1> QED
  BY <1>1, <1>2, <1>3, <1>4, OnShuffleTimeoutStaked, TimersStaked

\* tick, while cards are opened: the phase may be complete, and the next one
\* may be timed out at once.
LEMMA TickRevealStaked ==
    ASSUME NEW t, Good(t), Turned(t), Staked(t), Calm(t),
           \A s \in Seats : t.seats[s].stack \in Nat, NEW expired, NEW ranks
    PROVE  Staked(TickReveal(t, expired, ranks))
<1> DEFINE u == Answered(t, ranks)
           timers == [u.timers EXCEPT !.reveal = TRUE]
<1>1. Turned(u)
  BY CheckRevealTurned DEF Answered, Good, Sound
<1>2. Good(u)
  BY AnsweredOnward DEF Onward
<1>3. Staked(u)
  BY CheckRevealStaked DEF Answered, Turned
<1> HIDE DEF u
<1>4. \/ TickReveal(t, expired, ranks) = u
      \/ /\ u.reveal.phase # "none"
         /\ \/ TickReveal(t, expired, ranks) = OnRevealTimeout(u)
            \/ TickReveal(t, expired, ranks) = [u EXCEPT !.timers = timers]
  BY <1>1 DEF TickReveal, RevealTimed, u, Turned, Steady, Formed, TableFields
<1> HIDE DEF timers
<1>5. ASSUME u.reveal.phase # "none"
      PROVE  Ready(u) /\ DOMAIN u.reveal.asg \subseteq Nat
  BY <1>1, <1>2, <1>3, <1>5
     DEF Ready, Turned, Resting, Steady, Rounded, Good, Sound, Asking
<1> QED
  BY <1>3, <1>4, <1>5, OnRevealTimeoutStaked, TimersStaked

\* tick, while bets are taken: somebody is on turn.
LEMMA TickBettingStaked ==
    ASSUME NEW t, t.ok, Staked(t), IsBettingRound(t), NEW expired,
           TickBetting(t, expired).ok
    PROVE  Staked(TickBetting(t, expired))
<1> DEFINE timers == [t.timers EXCEPT !.betting = TRUE]
<1>1. t.betting.open /\ t.round \in Asked /\ t.turn \in Seats
  BY DEF IsBettingRound, Asked, Staked, Tallied, Placed
<1>2. t.turn # NoSeat
  BY <1>1, TableAssumption DEF Seats, NoSeat
<1>3. \/ TickBetting(t, expired) = DoFold(t, t.turn)
      \/ TickBetting(t, expired) = [t EXCEPT !.timers = timers]
  BY <1>2 DEF TickBetting, Staked, Tallied, Counted, TableFields
<1> HIDE DEF timers
<1> QED
  BY <1>1, <1>3, DoFoldStaked, TimersStaked DEF Staked

\* tick, while the hands are shown
LEMMA TickShowdownStaked ==
    ASSUME NEW t, Staked(t), NEW expired, NEW ranks
    PROVE  Staked(TickShowdown(t, expired, ranks))
<1> DEFINE timers == [t.timers EXCEPT !.showdown = TRUE]
           u == [t EXCEPT !.timers = timers]
<1>1. TickShowdown(t, expired, ranks) \in {SettleHand(u, ranks), u}
  BY DEF TickShowdown, Staked, Tallied, Counted, TableFields
<1> HIDE DEF timers
<1>2. Staked(u)
  BY TimersStaked
<1> HIDE DEF u
<1> QED
  BY <1>1, <1>2, SettleHandStaked DEF Staked

\* tick, in whatever phase the table is: bets are given back only before the
\* blinds.
LEMMA TickedStaked ==
    ASSUME NEW t, t.ok, Good(t), Turned(t), Laid(t), Ledger(t), Staked(t),
           NEW expired, NEW ranks, Ticked(t, expired, ranks).ok
    PROVE  Staked(Ticked(t, expired, ranks))
<1>1. CASE t.reconstruct.phase # "none"
  <2>1. Ticked(t, expired, ranks) = TickReconstruct(t, expired)
    BY <1>1 DEF Ticked, IsPlaying
  <2>2. Ready(t) /\ t.reconstruct.pending \subseteq Seats
    BY <1>1 DEF Ready, Turned, Resting, Steady, Rounded, Good, Sound, Shaped
  <2> QED
    BY <2>1, <2>2, OnReconstructTimeoutStaked DEF TickReconstruct
<1>2. CASE t.reconstruct.phase = "none" /\ t.shuffle.phase # "none"
  <2>1. Ticked(t, expired, ranks) = TickShuffle(t, expired)
    BY <1>2 DEF Ticked, IsPlaying
  <2> QED
    BY <1>2, <2>1, TickShuffleStaked
<1>3. CASE /\ t.reconstruct.phase = "none" /\ t.shuffle.phase = "none"
           /\ t.reveal.phase # "none"
  <2>1. Ticked(t, expired, ranks) = TickReveal(t, expired, ranks)
    BY <1>3 DEF Ticked, IsPlaying
  <2>2. Calm(t) /\ \A s \in Seats : t.seats[s].stack \in Nat
    BY <1>3 DEF Calm, Ledger, Booked
  <2> QED
    BY <2>1, <2>2, TickRevealStaked
<1>4. CASE Still(t)
  <2>1. CASE ~IsPlaying(t)
    <3>1. Ticked(t, expired, ranks) = TickWaiting(t)
      BY <1>4, <2>1 DEF Ticked, Still
    <3>2. t.round = "waiting" /\ Steady(t)
      BY <2>1 DEF IsPlaying, Turned
    <3> QED
      BY <3>1, <3>2, DoStartHandStaked DEF TickWaiting
  <2>2. CASE IsPlaying(t) /\ IsBettingRound(t)
    <3>1. Ticked(t, expired, ranks) = TickBetting(t, expired)
      BY <1>4, <2>2 DEF Ticked, Still
    <3> QED
      BY <2>2, <3>1, TickBettingStaked
  <2>3. CASE IsPlaying(t) /\ ~IsBettingRound(t) /\ t.round = "showdown"
    <3>1. Ticked(t, expired, ranks) = TickShowdown(t, expired, ranks)
      BY <1>4, <2>3 DEF Ticked, Still
    <3> QED
      BY <3>1, TickShowdownStaked
  <2>4. CASE IsPlaying(t) /\ ~IsBettingRound(t) /\ t.round # "showdown"
    <3>1. Ticked(t, expired, ranks) = ResetForNextHand(RefundAllBets(t))
      BY <1>4, <2>4 DEF Ticked, Still
    <3>2. t.round = "preflop" /\ ~t.betting.open
      BY <1>4, <2>4 DEF IsPlaying, IsBettingRound, Still, Staked, Tallied, Rounds, Laid
    <3>3. Tallied(t) /\ Betless(t)
      BY <3>2 DEF Staked, Tallied, Dealing
    <3> QED
      BY <3>1, <3>3, RefundThenResetStaked
  <2> QED
    BY <2>1, <2>2, <2>3, <2>4
<1> QED
  BY <1>1, <1>2, <1>3, <1>4 DEF Still

-----------------------------------------------------------------------------
(* The invariant and what it implies.                                      *)

\* No entry point lets a player see a card for less than the others, or marks
\* a player as refunded.
LEMMA NextStaked ==
    ASSUME table.ok, Good(table), Turned(table), Laid(table), Ledger(table),
           Staked(table), [Next]_vars
    PROVE  Staked(table')
<1>0. Steady(table)
  BY DEF Turned
<1>1. CASE Join
  BY <1>0, <1>1, JoinStaked DEF Join
<1>2. CASE Leave
  BY <1>0, <1>2, LeaveStaked DEF Leave
<1>3. CASE StartHand
  BY <1>0, <1>3, StartHandStaked
<1>4. CASE Protocol
  BY <1>0, <1>4, SubmitShuffleStaked, SubmitRevealTokensStaked, SubmitReconstructDeckStaked
     DEF Protocol
<1>5. CASE Bet
  <2>1. PICK s \in Seats : \/ Fold(s) \/ Check(s) \/ Call(s) \/ AutoFold(s)
                           \/ \E total \in 1 .. table.seats[s].bet + table.seats[s].stack :
                                 Raise(s, total)
    BY <1>5 DEF Bet
  <2>2. table.seats[s].bet + table.seats[s].stack \in Int
    BY <2>1 DEF Ledger, Booked
  <2> QED
    BY <2>1, <2>2, FoldsStaked, CheckCallStaked, RaiseStaked
<1>6. CASE Relay
  <2>1. PICK expired \in MayExpire(TimerAwaited(table)), ranks \in Outcomes :
           Ticked(table, expired, ranks).ok /\ table' = Ticked(table, expired, ranks)
    BY <1>6 DEF Relay, Tick, Commit
  <2> QED
    BY <2>1, TickedStaked
<1>7. CASE Admin
  <2>1. PICK s \in Seats : ForceFold(s) \/ KickPlayer(s)
    BY <1>7 DEF Admin
  <2>2. CASE ForceFold(s)
    BY <2>2, FoldsStaked
  <2>3. CASE KickPlayer(s)
    BY <1>0, <2>3, GoodOpening, KickStaked DEF KickPlayer, Commit
  <2> QED
    BY <2>1, <2>2, <2>3
<1>8. CASE UNCHANGED vars
  BY <1>8 DEF vars
<1> QED
  BY <1>1, <1>2, <1>3, <1>4, <1>5, <1>6, <1>7, <1>8 DEF Next

\* At a new table nothing has been put in.
LEMMA NewTableStaked == Staked(NewTable)
<1> DEFINE u == NewTable
<1>1. /\ DOMAIN u = TableFields /\ u.round = "waiting" /\ u.betting = NoRound
      /\ u.button = 0 /\ u.turn = NoSeat /\ DOMAIN u.seats = Seats
      /\ \A s \in Seats : /\ DOMAIN u.seats[s] = SeatFields /\ u.seats[s].bet = 0
                          /\ u.seats[s].total_bet = 0 /\ u.seats[s].player = NoPlayer
  BY DEF NewTable, EmptySeat, TableFields, SeatFields
<1> HIDE DEF u
<1>2. /\ Counted(u) /\ Betless(u) /\ Clean(u) /\ ~u.betting.open
      /\ u.round \in Rounds /\ u.turn \in Int
  BY <1>1 DEF Counted, Betless, Clean, NoRound, Rounds, NoSeat
<1>3. u.button \in Seats
  BY <1>1, TableAssumption DEF Seats
<1>4. Staked(u)
  BY <1>2, <1>3, BetlessStaked
<1> QED
  BY <1>4 DEF u

\* The bets of a hand are level, nobody who sits is marked, and chips that were
\* put in are played for.
HandsInv == Staked(table)

\* The bets are level along every sequence of transactions.
THEOREM BetsAreLevel == Spec => []HandsInv
<1>1. Init => BoardInv /\ HandsInv
  BY NewTableResting, RestingTurned, NewTableLaid, NewTableStaked
     DEF Init, BoardInv, TurnInv, HandsInv
<1>2. BoardInv /\ HandsInv /\ BooksInv /\ IInv /\ [Next]_vars => (BoardInv /\ HandsInv)'
  BY NextTurned, NextOk, NextLaid, NextStaked
     DEF BoardInv, TurnInv, HandsInv, BooksInv, IInv
<1> QED
  BY <1>1, <1>2, PhasesAreSound, BooksInOrder, PTL DEF Spec

\* No seated player is marked as refunded: refund_all_bets never passes over the
\* bets of one who still plays.
THEOREM NobodyPassedOver == Spec => []RefundFlagClear
<1>1. HandsInv => RefundFlagClear
  BY DEF HandsInv, Staked, Tallied, Clean, RefundFlagClear, OccupiedSeats, IsSeatOccupied
<1> QED
  BY <1>1, BetsAreLevel, PTL

\* Between two streets everybody who can still act has put in the most.
LEMMA MatchedBetweenStreets ==
    ASSUME NEW t, Tallied(t), ~t.betting.open, NEW s \in ActionableSeats(t)
    PROVE  t.seats[s].total_bet >= Max({t.seats[u].total_bet : u \in LiveSeats(t)})
<1> DEFINE bets == {t.seats[u].total_bet : u \in LiveSeats(t)}
<1>1. PICK base \in Int : \A u \in LiveSeats(t) :
          /\ Prior(t.seats[u]) <= base
          /\ ~t.seats[u].all_in => Prior(t.seats[u]) = base
  BY DEF Tallied, Level
<1>2. \A u \in LiveSeats(t) : /\ t.seats[u].total_bet \in Int
                              /\ Prior(t.seats[u]) = t.seats[u].total_bet
  BY LiveAre DEF Tallied, Counted, Flat, Even, Prior
<1>3. s \in LiveSeats(t) /\ ~t.seats[s].all_in
  BY LiveAre
<1>4. t.seats[s].total_bet = base /\ \A bet \in bets : bet <= base
  BY <1>1, <1>2, <1>3
<1>5. base \in bets /\ \A bet \in bets : bet \in Int
  BY <1>2, <1>3, <1>4
<1> HIDE DEF bets
<1>6. Max(bets) \in bets
  BY <1>4, <1>5 DEF Max
<1>7. Max(bets) <= base
  BY <1>4, <1>6
<1> QED
  BY <1>1, <1>4, <1>5, <1>6, <1>7 DEF bets

\* Nobody sees the next card for less: when a street closes, whoever can still
\* act has put in as much as anybody in the hand, whoever folded, was kicked or
\* went all-in on the way.
THEOREM NobodySeesCardsForLess == Spec => StreetClosesMatched
<1> DEFINE Closed == table.betting.open /\ ~table'.betting.open /\ table'.round # "waiting"
           Matched == \A s \in ActionableSeats(table') :
                         table'.seats[s].total_bet
                            >= Max({table'.seats[u].total_bet : u \in LiveSeats(table')})
<1>1. HandsInv' => [Closed => Matched]_vars
  BY MatchedBetweenStreets DEF HandsInv, Staked
<1> QED
  BY <1>1, BetsAreLevel, PTL DEF StreetClosesMatched

-----------------------------------------------------------------------------
(* The types.                                                              *)

\* r is a function with domain F, whatever its values are.
Over(r, F) == r = [x \in F |-> r[x]]

\* A seat has its fields, a player or none, and flags that are set or not.
SeatTyped(seat) ==
    /\ Over(seat, SeatFields)
    /\ seat.player \in Players \cup {NoPlayer}
    /\ seat.folded \in BOOLEAN /\ seat.all_in \in BOOLEAN /\ seat.acted \in BOOLEAN
    /\ seat.is_waiting \in BOOLEAN /\ seat.left \in BOOLEAN /\ seat.refunded \in BOOLEAN

SeatsTyped(seats) == Over(seats, Seats) /\ \A s \in Seats : SeatTyped(seats[s])

BettingType == [open : BOOLEAN, current_bet : Nat, min_raise : Nat]

ShuffleType ==
    [phase : ShufflePhases, current : Seats \cup {NoSeat},
     pending : SUBSET Seats, completed : SUBSET Seats]

ReconstructType ==
    [phase : ReconstructPhases, pending : SUBSET Seats, decks : SUBSET Seats]

\* The types of all that the other invariants do not speak of.
Typed(t) ==
    /\ Over(t, TableFields)
    /\ SeatsTyped(t.seats)
    /\ t.button \in Seats /\ t.turn \in Seats \cup {NoSeat} /\ t.round \in Rounds
    /\ t.betting \in BettingType /\ t.shuffle \in ShuffleType
    /\ t.reconstruct \in ReconstructType /\ t.timers \in [TimerNames -> BOOLEAN]
    /\ t.board \in Nat /\ t.ready \in Nat /\ t.blanks \in Nat
    /\ Over(t.reveal, {"phase", "asg"}) /\ Over(t.agg, Players)

\* assert! leaves the types alone.
LEMMA RequireTyped ==
    ASSUME NEW t, Typed(t), NEW cond
    PROVE  Typed(Require(t, cond)) /\ Typed(Abort(t))
BY DEF Typed, Require, Abort, Over, TableFields

\* The balance, the pot and what is known of the cards are not spoken of.
LEMMA RefundSuiTyped ==
    ASSUME NEW t, Typed(t), NEW chips
    PROVE  Typed(RefundSui(t, chips))
<1> DEFINE paid == [t EXCEPT !.balance = @ - chips * Ratio]
<1>1. Typed(paid)
  BY DEF Typed, Over, TableFields
<1> HIDE DEF paid
<1> QED
  BY <1>1, RequireTyped DEF RefundSui, paid

\* The chips of a seat are not spoken of either.
LEMMA SeatPaidTyped ==
    ASSUME NEW seat, SeatTyped(seat), NEW stack, NEW bet, NEW total
    PROVE  /\ SeatTyped([seat EXCEPT !.stack = stack])
           /\ SeatTyped([seat EXCEPT !.bet = bet])
           /\ SeatTyped([seat EXCEPT !.stack = stack, !.bet = bet, !.total_bet = total])
BY DEF SeatTyped, Over, SeatFields

\* The table with other seats, or with one seat changed.
LEMMA SeatsChangedTyped ==
    ASSUME NEW t, Typed(t), NEW seats, SeatsTyped(seats)
    PROVE  Typed([t EXCEPT !.seats = seats])
BY DEF Typed, Over, TableFields

LEMMA SeatChangedTyped ==
    ASSUME NEW seats, SeatsTyped(seats), NEW s, NEW seat, s \in Seats => SeatTyped(seat)
    PROVE  SeatsTyped([seats EXCEPT ![s] = seat])
BY DEF SeatsTyped, Over

\* collect_bets_to_pot
LEMMA CollectBetsTyped ==
    ASSUME NEW t, Typed(t)
    PROVE  Typed(CollectBetsToPot(t))
<1> DEFINE seats == [s \in Seats |-> [t.seats[s] EXCEPT !.bet = 0]]
           v == [t EXCEPT !.seats = seats]
<1>1. SeatsTyped(seats)
  BY SeatPaidTyped DEF Typed, SeatsTyped, Over
<1>2. CollectBetsToPot(t) = [v EXCEPT !.pot = @ + TotalBet(t)]
  BY DEF CollectBetsToPot, Typed, Over, TableFields
<1> HIDE DEF seats
<1>3. Typed(v)
  BY <1>1, SeatsChangedTyped
<1> HIDE DEF v
<1> QED
  BY <1>2, <1>3 DEF Typed, Over, TableFields

\* The first member of a set of seats.
LEMMA FirstSeat ==
    ASSUME NEW S, S \subseteq Seats, S # {}
    PROVE  Min(S) \in Seats
<1>1. S \in SUBSET Nat
  BY TableAssumption DEF Seats
<1> QED
  BY <1>1, LeastIsMin

\* Chips that go to some of the seats.
LEMMA SplitAmongTyped ==
    ASSUME NEW t, Typed(t), NEW S, NEW amount
    PROVE  Typed(SplitAmong(t, S, amount))
<1> DEFINE part == [s \in Seats |-> amount \div Cardinality(S)
                       + (IF s = Min(S) THEN amount % Cardinality(S) ELSE 0)]
           seats == [s \in Seats |->
                       IF s \in S THEN [t.seats[s] EXCEPT !.stack = @ + part[s]]
                       ELSE t.seats[s]]
<1>1. SplitAmong(t, S, amount) \in {t, [t EXCEPT !.seats = seats]}
  BY DEF SplitAmong
<1> HIDE DEF part
<1>2. SeatsTyped(seats)
  BY SeatPaidTyped DEF Typed, SeatsTyped, Over
<1> HIDE DEF seats
<1> QED
  BY <1>1, <1>2, SeatsChangedTyped

\* settle_hand pays pot after pot.
LEMMA PayPotsTyped ==
    ASSUME NEW t, Typed(t), NEW pots, Len(pots) \in Nat, NEW ranks
    PROVE  Typed(PayPots(t, pots, ranks))
<1>1. PICK paid : PaysInTurn(paid, t, pots, ranks)
  BY PayPotsSteps
<1> DEFINE n == Len(pots)
           Fine == {i \in 0 .. n : Typed(paid[i])}
<1>2. \A i \in 0 .. n : i \in Fine
  <2>1. 0 \in Fine
    BY <1>1 DEF PaysInTurn
  <2>2. ASSUME NEW i \in 1 .. n, i - 1 \in Fine PROVE i \in Fine
    <3>1. paid[i] = PayPot(paid[i - 1], pots, i, ranks)
      BY <1>1 DEF PaysInTurn
    <3> QED
      BY <2>2, <3>1, SplitAmongTyped DEF PayPot, DistributePot, DistributeSidePot, Award
  <2> HIDE DEF Fine
  <2> QED
    BY <2>1, <2>2, UpTo
<1>3. Typed(paid[n])
  BY <1>2
<1> QED
  BY <1>1, <1>3, SplitAmongTyped DEF PaysInTurn

\* What a table has between two hands is typed.
LEMMA ClosedTyped ==
    /\ NoRound \in BettingType /\ EmptyShuffle \in ShuffleType
    /\ EmptyReconstruct \in ReconstructType /\ NoTimers \in [TimerNames -> BOOLEAN]
    /\ Over(EmptyReveal, {"phase", "asg"}) /\ "waiting" \in Rounds
<1>1. NoRound \in BettingType /\ EmptyShuffle \in ShuffleType
  BY DEF NoRound, BettingType, EmptyShuffle, ShuffleType, ShufflePhases
<1>2. EmptyReconstruct \in ReconstructType /\ "waiting" \in Rounds
  BY DEF EmptyReconstruct, ReconstructType, ReconstructPhases, Rounds
<1>3. NoTimers \in [TimerNames -> BOOLEAN]
  <2>1. \A n \in TimerNames : NoTimers[n] = FALSE
    BY DEF NoTimers, TimerNames
  <2>2. NoTimers = [n \in TimerNames |-> NoTimers[n]]
    BY DEF NoTimers, TimerNames
  <2> QED
    BY <2>1, <2>2
<1>4. Over(EmptyReveal, {"phase", "asg"})
  BY DEF EmptyReveal, Over
<1> QED
  BY <1>1, <1>2, <1>3, <1>4

\* reset_for_next_hand
LEMMA ResetTyped ==
    ASSUME NEW t, Typed(t)
    PROVE  Typed(ResetForNextHand(t))
<1> DEFINE broke == {s \in Seats : t.seats[s].player # NoPlayer /\ t.seats[s].stack = 0}
           kept == [s \in Seats |->
                      IF s \in broke THEN EmptySeat
                      ELSE [t.seats[s] EXCEPT
                              !.bet = 0, !.total_bet = 0, !.folded = FALSE,
                              !.all_in = FALSE, !.acted = FALSE,
                              !.is_waiting = FALSE, !.left = FALSE]]
           added(p) == {s \in Seats : t.seats[s].is_waiting /\ t.seats[s].player = p}
           removed(p) == {s \in broke : t.seats[s].player = p /\ ~t.seats[s].left}
           key(p) == t.agg[p] + Cardinality(added(p)) - Cardinality(removed(p))
           nobody == \A s \in Seats : kept[s].player = NoPlayer
           agg == [p \in Players |-> IF nobody THEN 0 ELSE key(p)]
           u == ResetForNextHand(t)
<1>1. SeatsTyped(kept)
  <2>1. SeatTyped(EmptySeat)
    BY DEF SeatTyped, Over, SeatFields, EmptySeat
  <2>2. ASSUME NEW s \in Seats
        PROVE  SeatTyped([t.seats[s] EXCEPT
                             !.bet = 0, !.total_bet = 0, !.folded = FALSE,
                             !.all_in = FALSE, !.acted = FALSE,
                             !.is_waiting = FALSE, !.left = FALSE])
    <3>1. SeatTyped(t.seats[s])
      BY DEF Typed, SeatsTyped
    <3> QED
      BY <3>1 DEF SeatTyped, Over, SeatFields
  <2> HIDE DEF broke
  <2> QED
    BY <2>1, <2>2 DEF SeatsTyped, Over
<1>2. Over(agg, Players)
  BY DEF Over
<1>3. u = [t EXCEPT !.seats = kept,
                  !.agg = agg,
                  !.pot = 0, !.board = 0, !.betting = NoRound, !.turn = NoSeat,
                  !.round = "waiting", !.dealt = 0, !.decrypted = {},
                  !.ready = 0, !.blanks = 0,
                  !.shuffle = EmptyShuffle, !.reveal = EmptyReveal,
                  !.reconstruct = EmptyReconstruct, !.timers = NoTimers]
  BY DEF ResetForNextHand
<1> HIDE DEF kept, agg, u
<1>4. /\ NoRound \in BettingType /\ EmptyShuffle \in ShuffleType
      /\ EmptyReconstruct \in ReconstructType /\ NoTimers \in [TimerNames -> BOOLEAN]
      /\ Over(EmptyReveal, {"phase", "asg"}) /\ "waiting" \in Rounds
  BY ClosedTyped
<1>5. /\ u.seats = kept /\ u.agg = agg /\ u.board = 0 /\ u.betting = NoRound
      /\ u.turn = NoSeat /\ u.round = "waiting" /\ u.ready = 0 /\ u.blanks = 0
      /\ u.shuffle = EmptyShuffle /\ u.reveal = EmptyReveal
      /\ u.reconstruct = EmptyReconstruct /\ u.timers = NoTimers /\ u.button = t.button
  BY <1>3 DEF Typed, Over, TableFields
<1>6. Over(u, TableFields)
  BY <1>3 DEF Typed, Over
<1> QED
  BY <1>1, <1>2, <1>4, <1>5, <1>6 DEF Typed, u

\* settle_hand
LEMMA SettleHandTyped ==
    ASSUME NEW t, Typed(t), NEW ranks
    PROVE  Typed(SettleHand(t, ranks))
<1>1. Typed(ResetForNextHand(PayPots(t, Pots(t), ranks)))
  BY PotsAreASequence, PayPotsTyped, ResetTyped
<1> QED
  BY <1>1, RequireTyped DEF SettleHand

\* end_without_showdown
LEMMA EndWithoutShowdownTyped ==
    ASSUME NEW t, Typed(t)
    PROVE  Typed(EndWithoutShowdown(t))
<1> DEFINE c == CollectBetsToPot(t)
           s == Min(LiveSeats(t))
           seat == [c.seats[s] EXCEPT !.stack = @ + c.pot]
           seats == [c.seats EXCEPT ![s] = seat]
           paid == [c EXCEPT !.seats[s].stack = @ + c.pot]
<1>1. Typed(c) /\ Typed(Abort(t))
  BY CollectBetsTyped, RequireTyped
<1>2. EndWithoutShowdown(t) \in {Abort(t), ResetForNextHand(paid)}
  BY DEF EndWithoutShowdown
<1> HIDE DEF c
<1>3. s \in Seats => SeatTyped(seat)
  BY <1>1, SeatPaidTyped DEF Typed, SeatsTyped
<1>4. paid = [c EXCEPT !.seats = seats]
  BY <1>1 DEF Typed, Over, TableFields
<1> HIDE DEF s, seat
<1>5. SeatsTyped(seats)
  BY <1>1, <1>3, SeatChangedTyped DEF Typed
<1> HIDE DEF seats, paid
<1>6. Typed(ResetForNextHand(paid))
  BY <1>1, <1>4, <1>5, SeatsChangedTyped, ResetTyped
<1> QED
  BY <1>1, <1>2, <1>6

\* refund_all_bets
LEMMA RefundAllBetsTyped ==
    ASSUME NEW t, Typed(t)
    PROVE  Typed(RefundAllBets(t))
<1> DEFINE due == {s \in Seats : ~t.seats[s].refunded /\ t.seats[s].total_bet > 0}
           home == due \cap OccupiedSeats(t)
           gone == {s \in due \ home : t.seats[s].left}
           refund(s) ==
              [t.seats[s] EXCEPT
                  !.stack = IF s \in home THEN @ + t.seats[s].total_bet ELSE @,
                  !.refunded = @ \/ s \in home \cup gone,
                  !.player = IF s \in gone THEN NoPlayer ELSE @,
                  !.bet = 0, !.total_bet = 0]
           seats == [s \in Seats |-> refund(s)]
           v == [t EXCEPT !.seats = seats]
           w == [t EXCEPT !.seats = seats, !.pot = 0]
<1>1. \E chips : RefundAllBets(t) = RefundSui(w, chips)
  BY DEF RefundAllBets
<1> HIDE DEF home, gone
<1>2. ASSUME NEW s \in Seats PROVE SeatTyped(refund(s))
  <2>1. SeatTyped(t.seats[s])
    BY DEF Typed, SeatsTyped
  <2> DEFINE old == t.seats[s]
             flag == old.refunded \/ s \in home \cup gone
             stack == IF s \in home THEN old.stack + old.total_bet ELSE old.stack
             player == IF s \in gone THEN NoPlayer ELSE old.player
  <2>2. flag \in BOOLEAN /\ player \in Players \cup {NoPlayer}
    <3>1. flag \in BOOLEAN
      BY Zenon
    <3>2. player \in Players \cup {NoPlayer}
      BY <2>1 DEF SeatTyped
    <3> QED
      BY <3>1, <3>2
  <2>3. refund(s) = [old EXCEPT !.stack = stack, !.refunded = flag, !.player = player,
                                !.bet = 0, !.total_bet = 0]
    BY <2>1 DEF SeatTyped, Over, SeatFields
  <2> HIDE DEF old, flag, stack, player, refund
  <2>4. SeatTyped(old)
    BY <2>1 DEF old
  <2> QED
    BY <2>2, <2>3, <2>4 DEF SeatTyped, Over, SeatFields
<1> HIDE DEF refund
<1>3. SeatsTyped(seats)
  BY <1>2 DEF SeatsTyped, Over
<1>4. w = [v EXCEPT !.pot = 0]
  BY DEF Typed, Over, TableFields
<1> HIDE DEF seats
<1>5. Typed(v)
  BY <1>3, SeatsChangedTyped
<1> HIDE DEF v, w
<1>6. Typed(w)
  BY <1>4, <1>5 DEF Typed, Over, TableFields
<1> QED
  BY <1>1, <1>6, RefundSuiTyped, SMTT(60)

-----------------------------------------------------------------------------
(* Reveals and betting rounds.                                             *)

\* The cards that are asked for are not spoken of.
LEMMA AskedTyped ==
    ASSUME NEW t, Typed(t), NEW dealt, NEW phase, NEW asg
    PROVE  /\ Typed([t EXCEPT !.dealt = dealt, !.reveal = [phase |-> phase, asg |-> asg]])
           /\ Typed([t EXCEPT !.reveal = [phase |-> phase, asg |-> asg]])
<1> DEFINE reveal == [phase |-> phase, asg |-> asg]
<1>1. Over(reveal, {"phase", "asg"})
  BY DEF Over
<1> HIDE DEF reveal
<1>2. /\ Typed([t EXCEPT !.dealt = dealt, !.reveal = reveal])
      /\ Typed([t EXCEPT !.reveal = reveal])
  BY <1>1 DEF Typed, Over, TableFields
<1> QED
  BY <1>2 DEF reveal

\* start_preflop_reveal, start_community_reveal, start_showdown_reveal
LEMMA RevealsTyped ==
    ASSUME NEW t, Typed(t), NEW count, NEW phase
    PROVE  /\ Typed(StartPreflopReveal(t)) /\ Typed(StartShowdownReveal(t))
           /\ Typed(StartCommunityReveal(t, count, phase))
<1>1. Typed(StartPreflopReveal(t))
  BY AskedTyped DEF StartPreflopReveal
<1>2. Typed(StartShowdownReveal(t))
  BY AskedTyped DEF StartShowdownReveal
<1>3. Typed(StartCommunityReveal(t, count, phase))
  BY AskedTyped DEF StartCommunityReveal
<1> QED
  BY <1>1, <1>2, <1>3

\* A timer starts or stops.
LEMMA TimerTyped ==
    ASSUME NEW t, Typed(t), NEW name, NEW b \in BOOLEAN
    PROVE  Typed([t EXCEPT !.timers[name] = b])
<1> DEFINE timers == [t.timers EXCEPT ![name] = b]
<1>1. timers \in [TimerNames -> BOOLEAN]
  BY DEF Typed
<1>2. [t EXCEPT !.timers[name] = b] = [t EXCEPT !.timers = timers]
  BY DEF Typed, Over, TableFields
<1> HIDE DEF timers
<1> QED
  BY <1>1, <1>2 DEF Typed, Over, TableFields

\* advance_round
LEMMA AdvanceRoundTyped ==
    ASSUME NEW t, Typed(t)
    PROVE  Typed(AdvanceRound(t))
<1> DEFINE closed == [t EXCEPT !.betting = NoRound, !.turn = NoSeat]
           to == [round \in Rounds |-> [closed EXCEPT !.round = round]]
           fresh == [round \in Rounds |-> [to[round] EXCEPT !.timers["reveal"] = FALSE]]
           shown == [to["showdown"] EXCEPT !.timers["showdown"] = FALSE]
<1>1. NoRound \in BettingType /\ {"flop", "turn", "river", "showdown"} \subseteq Rounds
  BY DEF NoRound, BettingType, Rounds
<1>2. Typed(closed)
  BY <1>1 DEF Typed, Over, TableFields
<1>3. \/ AdvanceRound(t) = StartCommunityReveal(fresh["flop"], FlopCards, "flop")
      \/ AdvanceRound(t) = StartCommunityReveal(fresh["turn"], 1, "turn")
      \/ AdvanceRound(t) = StartCommunityReveal(fresh["river"], 1, "river")
      \/ AdvanceRound(t) = StartShowdownReveal(shown)
      \/ AdvanceRound(t) = closed
  BY <1>1 DEF AdvanceRound
<1> HIDE DEF closed
<1>4. \A round \in Rounds : Typed(to[round])
  BY <1>2 DEF Typed, Over, TableFields
<1> HIDE DEF to
<1>5. Typed(shown) /\ \A round \in Rounds : Typed(fresh[round])
  BY <1>1, <1>4, TimerTyped
<1> HIDE DEF fresh, shown
<1> QED
  BY <1>1, <1>2, <1>3, <1>5, RevealsTyped

\* Who can act sits at the table.
LEMMA ActionableAreSeats ==
    ASSUME NEW t
    PROVE  /\ ActionableSeats(t) \subseteq Seats
           /\ \A from \in Int : FindNextActiveSeat(t, from) \in Seats \cup {NoSeat}
BY NextActive DEF ActionableSeats, LiveSeats, ActiveSeats, OccupiedSeats

\* Seats and the turn are integers.
LEMMA SeatNumbers == Seats \subseteq Int /\ NoSeat \in Int
BY TableAssumption DEF Seats, NoSeat

\* advance_turn
LEMMA AdvanceTurnTyped ==
    ASSUME NEW t, Typed(t)
    PROVE  Typed(AdvanceTurn(t))
<1> DEFINE next == FindNextActiveSeat(t, t.turn)
           moved == [t EXCEPT !.turn = next]
<1>1. next \in Seats \cup {NoSeat}
  BY ActionableAreSeats, SeatNumbers DEF Typed
<1>2. \/ AdvanceTurn(t) = AdvanceRound(CollectBetsToPot(t))
      \/ \E cond : AdvanceTurn(t) = Require(moved, cond)
  BY DEF AdvanceTurn
<1> HIDE DEF next
<1>3. Typed(moved)
  BY <1>1 DEF Typed, Over, TableFields
<1> HIDE DEF moved
<1> QED
  BY <1>2, <1>3, RequireTyped, CollectBetsTyped, AdvanceRoundTyped

\* post_blinds takes the blind from one seat after the other.
LEMMA PostBlindsTyped ==
    ASSUME NEW t, Typed(t)
    PROVE  Typed(PostBlinds(t))
<1> DEFINE headsUp == CountActiveOccupied(t) = 2
           sb == IF headsUp THEN t.button ELSE FindNextActiveSeat(t, t.button)
           bb == FindNextActiveSeat(t, sb)
           amount(seat, blind) == IF seat.stack < blind THEN seat.stack ELSE blind
           post(seat, blind) ==
               [seat EXCEPT !.stack = @ - amount(seat, blind),
                            !.bet = amount(seat, blind),
                            !.total_bet = amount(seat, blind),
                            !.all_in = @ \/ seat.stack = amount(seat, blind)]
           small == [t EXCEPT !.seats[sb] = post(t.seats[sb], SmallBlind)]
           both == [small EXCEPT !.seats[bb] = post(small.seats[bb], BigBlind)]
           first == IF headsUp THEN sb ELSE FindNextActiveSeat(both, bb)
           posted == [both EXCEPT !.turn = first]
<1>1. PostBlinds(t) \in {Abort(t), posted}
  BY DEF PostBlinds
<1>2. sb \in Seats \cup {NoSeat} /\ bb \in Seats \cup {NoSeat}
  BY ActionableAreSeats, SeatNumbers DEF Typed
<1> HIDE DEF sb, bb
<1>3. first \in Seats \cup {NoSeat}
  BY <1>2, ActionableAreSeats, SeatNumbers
<1> HIDE DEF first
<1>4. ASSUME NEW seat, SeatTyped(seat), NEW blind PROVE SeatTyped(post(seat, blind))
  <2> DEFINE a == amount(seat, blind)
             flag == seat.all_in \/ seat.stack = a
  <2>1. flag \in BOOLEAN
    BY Zenon
  <2>2. post(seat, blind) = [seat EXCEPT !.stack = seat.stack - a, !.bet = a,
                                         !.total_bet = a, !.all_in = flag]
    BY <1>4 DEF SeatTyped, Over, SeatFields
  <2> HIDE DEF a, flag, post
  <2> QED
    BY <1>4, <2>1, <2>2 DEF SeatTyped, Over, SeatFields
<1> HIDE DEF post
<1>5. ASSUME NEW v, Typed(v), NEW s, NEW blind
      PROVE  Typed([v EXCEPT !.seats[s] = post(v.seats[s], blind)])
  <2> DEFINE seat == post(v.seats[s], blind)
             seats == [v.seats EXCEPT ![s] = seat]
  <2>1. s \in Seats => SeatTyped(seat)
    BY <1>4, <1>5 DEF Typed, SeatsTyped
  <2>2. [v EXCEPT !.seats[s] = post(v.seats[s], blind)] = [v EXCEPT !.seats = seats]
    BY <1>5 DEF Typed, Over, TableFields
  <2> HIDE DEF seat
  <2>3. SeatsTyped(seats)
    BY <1>5, <2>1, SeatChangedTyped DEF Typed
  <2> HIDE DEF seats
  <2> QED
    BY <1>5, <2>2, <2>3, SeatsChangedTyped
<1>6. Typed(small)
  BY <1>5
<1> HIDE DEF small
<1>7. Typed(both)
  BY <1>5, <1>6
<1> HIDE DEF both
<1>8. Typed(posted)
  BY <1>3, <1>7 DEF Typed, Over, TableFields
<1> HIDE DEF posted
<1> QED
  BY <1>1, <1>8, RequireTyped, SMTT(60)

\* start_betting_round
LEMMA StartBettingRoundTyped ==
    ASSUME NEW t, Typed(t), NEW preflop
    PROVE  Typed(StartBettingRound(t, preflop))
<1> DEFINE seats == [s \in Seats |->
                       [t.seats[s] EXCEPT !.acted = FALSE,
                                          !.bet = IF preflop THEN @ ELSE 0]]
           round == IF preflop THEN NewPreflop(BigBlind) ELSE NewPostflop(BigBlind)
           opened == [t EXCEPT !.betting = round, !.seats = seats]
           next == FindNextActiveSeat(t, t.button)
           turned == [opened EXCEPT !.turn = next]
<1>1. StartBettingRound(t, preflop) \in {AdvanceRound(CollectBetsToPot(opened)), opened, turned}
  BY DEF StartBettingRound
<1>2. SeatsTyped(seats)
  <2>1. ASSUME NEW s \in Seats, NEW bet
        PROVE  SeatTyped([t.seats[s] EXCEPT !.acted = FALSE, !.bet = bet])
    <3>1. SeatTyped(t.seats[s])
      BY DEF Typed, SeatsTyped
    <3> QED
      BY <3>1 DEF SeatTyped, Over, SeatFields
  <2> QED
    BY <2>1 DEF SeatsTyped, Over
<1>3. round \in BettingType
  BY TableAssumption DEF NewPreflop, NewPostflop, BettingType
<1>4. next \in Seats \cup {NoSeat}
  BY ActionableAreSeats, SeatNumbers DEF Typed
<1> HIDE DEF seats, round, next
<1>5. Typed(opened)
  BY <1>2, <1>3 DEF Typed, Over, TableFields
<1> HIDE DEF opened
<1>6. Typed(turned)
  BY <1>4, <1>5 DEF Typed, Over, TableFields
<1> HIDE DEF turned
<1> QED
  BY <1>1, <1>5, <1>6, CollectBetsTyped, AdvanceRoundTyped

\* write_decrypted_cards_to_community
LEMMA WriteCommunityTyped ==
    ASSUME NEW t, Typed(t)
    PROVE  Typed(WriteCommunity(t))
<1> DEFINE board == t.board + t.ready
           u == [t EXCEPT !.board = board, !.ready = 0]
<1>1. board \in Nat
  BY DEF Typed
<1>2. WriteCommunity(t) = u
  BY DEF WriteCommunity
<1> HIDE DEF board
<1>3. Typed(u)
  BY <1>1 DEF Typed, Over, TableFields
<1> QED
  BY <1>2, <1>3

\* check_reveal_phase_complete
LEMMA CheckRevealTyped ==
    ASSUME NEW t, Typed(t), NEW ranks
    PROVE  Typed(CheckRevealPhaseComplete(t, ranks))
<1> DEFINE cleared == [t EXCEPT !.reveal = EmptyReveal]
           untimed == [cleared EXCEPT !.timers["betting"] = FALSE]
           shown == [cleared EXCEPT !.timers["showdown"] = FALSE]
           written == WriteCommunity(untimed)
<1>1. \/ CheckRevealPhaseComplete(t, ranks) \in {t, cleared}
      \/ CheckRevealPhaseComplete(t, ranks) = StartBettingRound(PostBlinds(untimed), TRUE)
      \/ CheckRevealPhaseComplete(t, ranks) = StartBettingRound(written, FALSE)
      \/ CheckRevealPhaseComplete(t, ranks) = SettleHand(shown, ranks)
  BY DEF CheckRevealPhaseComplete
<1>2. Typed(cleared)
  BY AskedTyped DEF EmptyReveal
<1> HIDE DEF cleared
<1>3. Typed(untimed) /\ Typed(shown)
  BY <1>2, TimerTyped
<1> HIDE DEF untimed, shown
<1>4. Typed(written)
  BY <1>3, WriteCommunityTyped
<1> HIDE DEF written
<1>5. Typed(StartBettingRound(PostBlinds(untimed), TRUE))
  BY <1>3, PostBlindsTyped, StartBettingRoundTyped
<1>6. Typed(StartBettingRound(written, FALSE))
  BY <1>4, StartBettingRoundTyped
<1>7. Typed(SettleHand(shown, ranks))
  BY <1>3, SettleHandTyped
<1> QED
  BY <1>1, <1>2, <1>5, <1>6, <1>7

\* What an interrupted phase lacks is dealt.
LEMMA ResumeRevealTyped ==
    ASSUME NEW t, Typed(t)
    PROVE  Typed(ResumeReveal(t))
<1> DEFINE shown == [t EXCEPT !.timers["showdown"] = FALSE]
<1>1. \/ ResumeReveal(t) \in {t, StartPreflopReveal(t), StartShowdownReveal(shown)}
      \/ \E n, phase, cond :
            ResumeReveal(t) = Require(StartCommunityReveal(t, n, phase), cond)
  BY DEF ResumeReveal
<1>2. Typed(shown)
  BY TimerTyped
<1> HIDE DEF shown
<1> QED
  BY <1>1, <1>2, RevealsTyped, RequireTyped

\* advance_shuffle
LEMMA AdvanceShuffleTyped ==
    ASSUME NEW t, Typed(t)
    PROVE  Typed(AdvanceShuffle(t))
<1> DEFINE current == Min(t.shuffle.pending)
           shuffle == [t.shuffle EXCEPT !.current = current]
           led == [t EXCEPT !.shuffle = shuffle]
           next == [led EXCEPT !.timers["shuffle"] = FALSE]
           stopped == [t EXCEPT !.shuffle = EmptyShuffle]
           untimed == [stopped EXCEPT !.timers["reveal"] = FALSE]
           dealt == [untimed EXCEPT !.round = "preflop"]
           over == [untimed EXCEPT !.reconstruct = EmptyReconstruct]
           resumed == [over EXCEPT !.reveal = EmptyReveal]
<1>1. \/ AdvanceShuffle(t) = t
      \/ t.shuffle.pending # {} /\ AdvanceShuffle(t) = next
      \/ AdvanceShuffle(t) \in {StartPreflopReveal(dealt), ResumeReveal(resumed)}
  <2>1. [t EXCEPT !.shuffle.current = Min(t.shuffle.pending), !.timers.shuffle = FALSE] = next
    BY DEF Typed, Over, TableFields
  <2>2. [t EXCEPT !.timers.reveal = FALSE, !.shuffle = EmptyShuffle] = untimed
    BY DEF Typed, Over, TableFields
  <2>3. [untimed EXCEPT !.reconstruct = EmptyReconstruct, !.reveal = EmptyReveal] = resumed
    BY DEF Typed, Over, TableFields
  <2> HIDE DEF next, untimed, resumed
  <2> QED
    BY <2>1, <2>2, <2>3 DEF AdvanceShuffle, resumed
<1>2. t.shuffle.pending # {} => current \in Seats
  BY FirstSeat DEF Typed, ShuffleType
<1> HIDE DEF current
<1>3. t.shuffle.pending # {} => Typed(next)
  <2>1. t.shuffle.pending # {} => shuffle \in ShuffleType
    BY <1>2 DEF Typed, ShuffleType
  <2> HIDE DEF shuffle
  <2>2. t.shuffle.pending # {} => Typed(led)
    BY <2>1 DEF Typed, Over, TableFields
  <2> HIDE DEF led
  <2> QED
    BY <2>2, TimerTyped
<1> HIDE DEF next
<1>4. EmptyShuffle \in ShuffleType /\ EmptyReconstruct \in ReconstructType
  BY DEF EmptyShuffle, ShuffleType, ShufflePhases, EmptyReconstruct, ReconstructType,
         ReconstructPhases
<1>5. Typed(stopped)
  BY <1>4 DEF Typed, Over, TableFields
<1> HIDE DEF stopped
<1>6. Typed(untimed)
  BY <1>5, TimerTyped
<1> HIDE DEF untimed
<1>7. Typed(dealt)
  BY <1>6 DEF Typed, Over, TableFields, Rounds
<1>8. Typed(over)
  BY <1>4, <1>6 DEF Typed, Over, TableFields
<1> HIDE DEF dealt, over
<1>9. Typed(resumed)
  BY <1>8, AskedTyped DEF EmptyReveal
<1> HIDE DEF resumed
<1> QED
  BY <1>1, <1>3, <1>7, <1>9, RevealsTyped, ResumeRevealTyped

-----------------------------------------------------------------------------
(* Folds, kicks and timeouts.                                              *)

\* A table with one seat changed.
LEMMA OneSeatTyped ==
    ASSUME NEW t, Typed(t), NEW s, NEW seat, s \in Seats => SeatTyped(seat)
    PROVE  Typed([t EXCEPT !.seats[s] = seat])
<1> DEFINE seats == [t.seats EXCEPT ![s] = seat]
<1>1. [t EXCEPT !.seats[s] = seat] = [t EXCEPT !.seats = seats]
  BY DEF Typed, Over, TableFields
<1>2. SeatsTyped(seats)
  BY SeatChangedTyped DEF Typed
<1> HIDE DEF seats
<1> QED
  BY <1>1, <1>2, SeatsChangedTyped

\* do_fold
LEMMA DoFoldTyped ==
    ASSUME NEW t, Typed(t), NEW s
    PROVE  Typed(DoFold(t, s))
<1> DEFINE seat == [t.seats[s] EXCEPT !.folded = TRUE, !.acted = TRUE]
           marked == [t EXCEPT !.seats[s] = seat]
           folded == [marked EXCEPT !.timers["betting"] = FALSE]
<1>1. s \in Seats => SeatTyped(seat)
  <2>1. s \in Seats => SeatTyped(t.seats[s])
    BY DEF Typed, SeatsTyped
  <2> QED
    BY <2>1 DEF SeatTyped, Over, SeatFields
<1>2. [t EXCEPT !.seats[s] = seat, !.timers.betting = FALSE] = folded
  BY DEF Typed, Over, TableFields
<1>3. \E cond : \/ DoFold(t, s) = Require(EndWithoutShowdown(folded), cond)
                \/ DoFold(t, s) = Require(AdvanceTurn(folded), cond)
  <2> HIDE DEF folded
  <2> QED
    BY <1>2 DEF DoFold
<1> HIDE DEF seat
<1>4. Typed(marked)
  BY <1>1, OneSeatTyped
<1> HIDE DEF marked
<1>5. Typed(folded)
  BY <1>4, TimerTyped
<1> HIDE DEF folded
<1> QED
  BY <1>3, <1>5, EndWithoutShowdownTyped, AdvanceTurnTyped, RequireTyped

\* A key comes in or goes out.
LEMMA KeyTyped ==
    ASSUME NEW t, Typed(t), NEW p
    PROVE  Typed(AddPk(t, p)) /\ Typed(RemovePk(t, p))
BY DEF Typed, Over, TableFields, AddPk, RemovePk

\* The seat is taken out of all lists.
LEMMA DropFromPhasesTyped ==
    ASSUME NEW t, Typed(t), NEW s
    PROVE  Typed(DropFromPhases(t, s))
<1> DEFINE shuffle == [t.shuffle EXCEPT !.pending = @ \ {s}, !.completed = @ \ {s}]
           reveal == [t.reveal EXCEPT !.asg = Spared(t.reveal.asg, s)]
           reconstruct == [t.reconstruct EXCEPT !.pending = @ \ {s}]
<1>1. shuffle \in ShuffleType /\ reconstruct \in ReconstructType
  BY DEF Typed, ShuffleType, ReconstructType
<1>2. Over(reveal, {"phase", "asg"})
  BY DEF Typed, Over
<1>3. DropFromPhases(t, s) = [t EXCEPT !.shuffle = shuffle, !.reveal = reveal,
                                       !.reconstruct = reconstruct]
  BY DEF DropFromPhases, Typed, Over, TableFields, Spared
<1> HIDE DEF shuffle, reveal, reconstruct
<1> QED
  BY <1>1, <1>2, <1>3 DEF Typed, Over, TableFields

\* What a kick takes away at once.
LEMMA UnseatedTyped ==
    ASSUME NEW t, Typed(t), NEW s
    PROVE  Typed(Unseated(t, s))
<1> DEFINE seat == KickedSeat(t.seats[s])
           kicked == [t EXCEPT !.seats[s] = seat]
           pot == t.pot + t.seats[s].bet
           marked == [kicked EXCEPT !.pot = pot]
           gone == [t EXCEPT !.seats[s] = seat, !.pot = pot]
<1>1. s \in Seats => SeatTyped(seat)
  <2>1. s \in Seats => SeatTyped(t.seats[s])
    BY DEF Typed, SeatsTyped
  <2> QED
    BY <2>1 DEF SeatTyped, Over, SeatFields, KickedSeat
<1>2. gone = marked
  BY DEF Typed, Over, TableFields
<1>3. \E chips, p :
         \/ Unseated(t, s) = DropFromPhases(RefundSui(gone, chips), s)
         \/ Unseated(t, s) = DropFromPhases(RefundSui(RemovePk(gone, p), chips), s)
  BY DEF Unseated
<1> HIDE DEF seat, pot, gone
<1>4. Typed(kicked)
  BY <1>1, OneSeatTyped
<1> HIDE DEF kicked
<1>5. Typed(marked)
  BY <1>4 DEF Typed, Over, TableFields
<1> QED
  BY <1>2, <1>3, <1>5, KeyTyped, RefundSuiTyped, DropFromPhasesTyped

\* kick_player_internal
LEMMA KickTyped ==
    ASSUME NEW t, Typed(t), NEW s
    PROVE  Typed(KickPlayerInternal(t, s)) /\ Typed(KickIfSeated(t, s))
<1> DEFINE gone == Unseated(t, s)
           shuffle == [gone.shuffle EXCEPT !.current = NoSeat]
           freed == [gone EXCEPT !.shuffle = shuffle]
           passed == ShufflePassed(gone, s)
           turned == TurnPassed(passed, s)
<1>1. \/ KickPlayerInternal(t, s) = Abort(t)
      \/ KickPlayerInternal(t, s) = turned
      \/ KickPlayerInternal(t, s) = ResetForNextHand(turned)
  BY DEF KickPlayerInternal, ResetIfTooFew
<1>2. Typed(gone)
  BY UnseatedTyped
<1> HIDE DEF gone
<1>3. shuffle \in ShuffleType
  BY <1>2 DEF Typed, ShuffleType
<1>4. passed \in {gone, AdvanceShuffle(freed)}
  BY <1>2 DEF ShufflePassed, Typed, Over, TableFields
<1> HIDE DEF shuffle
<1>5. Typed(freed)
  BY <1>2, <1>3 DEF Typed, Over, TableFields
<1> HIDE DEF freed
<1>6. Typed(passed)
  BY <1>2, <1>4, <1>5, AdvanceShuffleTyped
<1> HIDE DEF passed
<1>7. Typed(turned)
  BY <1>6, EndWithoutShowdownTyped, AdvanceTurnTyped DEF TurnPassed
<1> HIDE DEF turned
<1>8. Typed(KickPlayerInternal(t, s))
  BY <1>1, <1>7, ResetTyped, RequireTyped
<1> QED
  BY <1>8 DEF KickIfSeated

\* The seats a timeout waited for, one after the other.
LEMMA KickAllTyped ==
    ASSUME NEW t, Typed(t), NEW order, Len(order) \in Nat
    PROVE  Typed(KickAll(t, order))
<1>1. PICK after : /\ after[0] = t
                   /\ \A i \in 1 .. Len(order) :
                         after[i] = KickIfSeated(after[i - 1], order[i])
                   /\ KickAll(t, order) = after[Len(order)]
  BY KickAllSteps
<1> DEFINE n == Len(order)
           Fine == {i \in 0 .. n : Typed(after[i])}
<1>2. 0 \in Fine
  BY <1>1
<1>3. \A i \in 1 .. n : i - 1 \in Fine => i \in Fine
  BY <1>1, KickTyped
<1> HIDE DEF Fine
<1>4. \A i \in 0 .. n : i \in Fine
  BY <1>2, <1>3, UpTo
<1> QED
  BY <1>1, <1>4 DEF Fine

\* Everybody who is active shuffles.
LEMMA ReshuffleTyped ==
    ASSUME NEW t, Typed(t), NEW phase \in ShufflePhases
    PROVE  Typed(AdvanceShuffle(ShuffleAmongActive(t, phase)))
<1> DEFINE shuffle == [phase |-> phase, current |-> NoSeat,
                       pending |-> ActiveSeats(t), completed |-> {}]
           v == [t EXCEPT !.shuffle = shuffle]
<1>1. shuffle \in ShuffleType
  BY DEF ShuffleType, ActiveSeats, OccupiedSeats
<1>2. ShuffleAmongActive(t, phase) = v
  BY DEF ShuffleAmongActive
<1> HIDE DEF shuffle
<1>3. Typed(v)
  BY <1>1 DEF Typed, Over, TableFields
<1> QED
  BY <1>2, <1>3, AdvanceShuffleTyped

\* The cards that are known when the deck is rebuilt are a number of cards.
LEMMA RebuildDeckTyped ==
    ASSUME NEW t, Typed(t), IsFiniteSet(t.decrypted)
    PROVE  Typed(RebuildDeck(t))
<1> DEFINE blanks == Cardinality(t.decrypted) + t.board + t.ready
<1>1. blanks \in Nat
  BY FS_CardinalityType DEF Typed
<1>2. RebuildDeck(t) = [t EXCEPT !.dealt = 0, !.blanks = blanks]
  BY DEF RebuildDeck
<1> HIDE DEF blanks
<1> QED
  BY <1>1, <1>2 DEF Typed, Over, TableFields

\* on_complete_reconstruct
LEMMA OnCompleteReconstructTyped ==
    ASSUME NEW t, Typed(t), IsFiniteSet(t.decrypted)
    PROVE  Typed(OnCompleteReconstruct(t))
<1> DEFINE r == RebuildDeck(t)
           reconstruct == [r.reconstruct EXCEPT !.phase = "none"]
           v == [r EXCEPT !.reconstruct = reconstruct]
<1>1. Typed(r)
  BY RebuildDeckTyped
<1> HIDE DEF r
<1>2. reconstruct \in ReconstructType
  BY <1>1 DEF Typed, ReconstructType, ReconstructPhases
<1>3. [r EXCEPT !.reconstruct.phase = "none"] = v
  BY <1>1 DEF Typed, Over, TableFields
<1> HIDE DEF reconstruct
<1>4. Typed(v)
  BY <1>1, <1>2 DEF Typed, Over, TableFields
<1> HIDE DEF v
<1>5. OnCompleteReconstruct(t) = AdvanceShuffle(ShuffleAmongActive(v, "reconstruct"))
  BY <1>3 DEF OnCompleteReconstruct, r
<1> QED
  BY <1>4, <1>5, ReshuffleTyped DEF ShufflePhases

\* start_reconstruct
LEMMA StartReconstructTyped ==
    ASSUME NEW t, Typed(t)
    PROVE  Typed(StartReconstruct(t))
<1> DEFINE reconstruct == [phase |-> "collecting", pending |-> ActiveSeats(t), decks |-> {}]
           v == [t EXCEPT !.reconstruct = reconstruct]
<1>1. reconstruct \in ReconstructType
  BY DEF ReconstructType, ReconstructPhases, ActiveSeats, OccupiedSeats
<1>2. StartReconstruct(t) = [v EXCEPT !.timers["reconstruct"] = TRUE]
  BY DEF StartReconstruct, Typed, Over, TableFields
<1> HIDE DEF reconstruct
<1>3. Typed(v)
  BY <1>1 DEF Typed, Over, TableFields
<1> HIDE DEF v
<1>4. Typed([v EXCEPT !.timers["reconstruct"] = TRUE])
  BY <1>3, TimerTyped
<1> QED
  BY <1>2, <1>4

\* What a timeout does after its kicks.
LEMMA AfterKicksTyped ==
    ASSUME NEW t, Typed(t), NEW goOn, Typed(goOn)
    PROVE  /\ Typed(AfterKicks(t, goOn))
           /\ Typed(ResetForNextHand(RefundAllBets(t)))
<1>1. Typed(ResetForNextHand(RefundAllBets(t)))
  BY RefundAllBetsTyped, ResetTyped
<1> QED
  BY <1>1, EndWithoutShowdownTyped DEF AfterKicks

\* on_reconstruct_timeout
LEMMA OnReconstructTimeoutTyped ==
    ASSUME NEW t, Typed(t), Good(t), t.reconstruct.phase # "none"
    PROVE  Typed(OnReconstructTimeout(t))
<1> DEFINE order == Ascending(t.reconstruct.pending)
           u == KickAll(t, order)
<1>1. Len(order) \in Nat /\ \A i \in 1 .. Len(order) : order[i] \in Seats
  <2>1. t.reconstruct.pending \subseteq Seats
    BY DEF Good, Sound, Shaped
  <2>2. t.reconstruct.pending \in SUBSET Int /\ IsFiniteSet(t.reconstruct.pending)
    BY <2>1, SomeSeatsFinite, SeatNumbers
  <2>3. Len(order) = Cardinality(t.reconstruct.pending) /\ Len(order) \in Nat
    BY <2>2, AscendingLists
  <2> QED
    BY <2>1, <2>2, <2>3, AscendingMembers
<1> HIDE DEF order
<1>2. Good(t) /\ t.shuffle.phase = "none" /\ ~t.betting.open
  BY DEF Good, Sound, Exclusive
<1>3. Typed(u) /\ IsFiniteSet(u.decrypted)
  <2>1. Good(u)
    BY <1>1, <1>2, KickAllDrops DEF Idle
  <2> QED
    BY <1>1, <2>1, KickAllTyped DEF Good, Sound, Shaped
<1>4. OnReconstructTimeout(t) = AfterReconstructKicks(u)
  BY DEF OnReconstructTimeout, order
<1> HIDE DEF u
<1>5. Typed(OnCompleteReconstruct(u)) /\ Typed(ResetForNextHand(RefundAllBets(u)))
  BY <1>3, OnCompleteReconstructTyped, AfterKicksTyped
<1> QED
  BY <1>3, <1>4, <1>5, EndWithoutShowdownTyped DEF AfterReconstructKicks

\* on_reveal_timeout
LEMMA OnRevealTimeoutTyped ==
    ASSUME NEW t, Typed(t), DOMAIN t.reveal.asg \subseteq Nat
    PROVE  Typed(OnRevealTimeout(t))
<1> DEFINE order == RevealDebtors(t)
           u == KickAll(t, order)
<1>1. Len(order) \in Nat
  BY DebtorsListed
<1> HIDE DEF order
<1>2. Typed(u)
  BY <1>1, KickAllTyped
<1>3. OnRevealTimeout(t) = RestartAfterKicks(u) \/ OnRevealTimeout(t) = ReconstructAfterKicks(u)
  BY DEF OnRevealTimeout, order
<1> HIDE DEF u
<1>4. Typed(StartReconstruct(u)) /\ Typed(ResetForNextHand(RefundAllBets(u)))
  BY <1>2, StartReconstructTyped, AfterKicksTyped
<1>5. Typed(RestartAfterKicks(u))
  BY <1>2, <1>4, AfterKicksTyped DEF RestartAfterKicks
<1>6. Typed(ReconstructAfterKicks(u))
  BY <1>2, <1>4, AfterKicksTyped DEF ReconstructAfterKicks
<1> QED
  BY <1>3, <1>5, <1>6

\* on_shuffle_timeout
LEMMA OnShuffleTimeoutTyped ==
    ASSUME NEW t, Typed(t), Good(t), t.shuffle.phase # "none"
    PROVE  Typed(OnShuffleTimeout(t))
<1> DEFINE s == t.shuffle.current
           u == KickPlayerInternal(t, s)
           reconstruct == [u.reconstruct EXCEPT !.decks = @ \ {s}]
           v == [u EXCEPT !.reconstruct = reconstruct]
           rebuilt == RebuildDeck(v)
           again == AdvanceShuffle(ShuffleAmongActive(u, "before_preflop"))
           anew == AdvanceShuffle(ShuffleAmongActive(rebuilt, "reconstruct"))
<1>1. Typed(u) /\ (s \in Seats => IsFiniteSet(u.decrypted))
  BY KickTyped, KickGood DEF Good, Sound, Shaped
<1>2. s \in Seats
  BY DEF Good, Led, Sound, Covers, ActiveSeats, OccupiedSeats
<1>3. [u EXCEPT !.reconstruct.decks = @ \ {s}] = v
  <2> HIDE DEF u
  <2> QED
    BY <1>1 DEF Typed, Over, TableFields
<1>4. OnShuffleTimeout(t) \in {t, AfterKicks(u, u), AfterKicks(u, again), AfterKicks(u, anew)}
  <2> HIDE DEF u, v
  <2> QED
    BY <1>3 DEF OnShuffleTimeout, ReshuffleAfterKick, RebuildAfterKick, u
<1> HIDE DEF u
<1>5. reconstruct \in ReconstructType
  BY <1>1 DEF Typed, ReconstructType
<1> HIDE DEF reconstruct
<1>6. Typed(v) /\ IsFiniteSet(v.decrypted)
  BY <1>1, <1>2, <1>5 DEF Typed, Over, TableFields
<1> HIDE DEF v
<1>7. Typed(rebuilt)
  BY <1>6, RebuildDeckTyped
<1> HIDE DEF rebuilt
<1>8. Typed(again) /\ Typed(anew)
  BY <1>1, <1>7, ReshuffleTyped DEF ShufflePhases
<1> HIDE DEF again, anew
<1> QED
  BY <1>1, <1>4, <1>8, AfterKicksTyped

\* do_start_hand
LEMMA DoStartHandTyped ==
    ASSUME NEW t, Typed(t)
    PROVE  Typed(DoStartHand(t))
<1> DEFINE button == NextAround(OccupiedSeats(t), t.button)
           placed == MoveButton(t)
           moved == [placed EXCEPT !.timers["shuffle"] = FALSE]
           shuffle == [moved.shuffle EXCEPT !.pending = PendingSeats(t),
                                            !.phase = "before_preflop"]
           v == [moved EXCEPT !.shuffle = shuffle]
<1>1. OccupiedSeats(t) # {} => button \in Seats
  BY NextAroundMember, SeatNumbers DEF Typed, OccupiedSeats
<1>2. \/ placed = t
      \/ OccupiedSeats(t) # {} /\ placed = [t EXCEPT !.button = button]
  BY DEF MoveButton
<1> HIDE DEF button, placed
<1>3. Typed(placed)
  BY <1>1, <1>2 DEF Typed, Over, TableFields
<1>4. Typed(moved)
  BY <1>3, TimerTyped
<1>5. [placed EXCEPT !.timers.shuffle = FALSE] = moved
  OBVIOUS
<1> HIDE DEF moved
<1>6. shuffle \in ShuffleType
  BY <1>4 DEF Typed, ShuffleType, ShufflePhases, PendingSeats, ActiveSeats, OccupiedSeats
<1>7. [moved EXCEPT !.shuffle.pending = PendingSeats(t),
                    !.shuffle.phase = "before_preflop"] = v
  BY <1>4 DEF Typed, Over, TableFields
<1> HIDE DEF shuffle
<1>8. Typed(v)
  BY <1>4, <1>6 DEF Typed, Over, TableFields
<1> HIDE DEF v
<1>9. \E cond : DoStartHand(t) = Require(AdvanceShuffle(v), cond)
  BY <1>5, <1>7 DEF DoStartHand, placed
<1> QED
  BY <1>8, <1>9, AdvanceShuffleTyped, RequireTyped

-----------------------------------------------------------------------------
(* The entry points.                                                       *)

\* join_table, join_and_shuffle: a player takes the seat.
LEMMA JoinTyped ==
    ASSUME Typed(table), NEW p \in Players, NEW s \in Seats, NEW coin,
           JoinTable(p, s, coin) \/ JoinAndShuffle(p, s, coin)
    PROVE  Typed(table')
<1>1. ASSUME NEW waiting \in BOOLEAN
      PROVE  Typed(Seated(table, p, s, coin, waiting))
  <2> DEFINE seat == InitSeat(p, coin \div Ratio, waiting)
             v == [table EXCEPT !.seats[s] = seat]
             balance == table.balance + coin
  <2>1. SeatTyped(seat)
    BY DEF SeatTyped, InitSeat, EmptySeat, Over, SeatFields
  <2>2. Seated(table, p, s, coin, waiting) = [v EXCEPT !.balance = balance]
    BY DEF Seated, Typed, Over, TableFields
  <2> HIDE DEF seat, balance
  <2>3. Typed(v)
    BY <2>1, OneSeatTyped
  <2> HIDE DEF v
  <2> QED
    BY <2>2, <2>3 DEF Typed, Over, TableFields
<1>2. CASE JoinTable(p, s, coin)
  <2> DEFINE waiting == IsPlaying(table)
             seated == Seated(table, p, s, coin, waiting)
  <2>1. waiting \in BOOLEAN
    BY Zenon DEF IsPlaying
  <2>2. table' \in {seated, AddPk(seated, p)}
    BY <1>2 DEF JoinTable, Commit
  <2> HIDE DEF waiting
  <2>3. Typed(seated)
    BY <1>1, <2>1
  <2> QED
    BY <2>2, <2>3, KeyTyped
<1>3. CASE JoinAndShuffle(p, s, coin)
  <2> DEFINE seated == AddPk(Seated(table, p, s, coin, FALSE), p)
             shuffle == [seated.shuffle EXCEPT !.completed = @ \cup {s},
                                               !.pending = @ \ {s}]
             u == [seated EXCEPT !.shuffle.completed = @ \cup {s},
                                 !.shuffle.pending = @ \ {s}]
  <2>1. table' = u
    BY <1>3 DEF JoinAndShuffle, Commit
  <2>2. Typed(Seated(table, p, s, coin, FALSE))
    BY <1>1
  <2>3. Typed(seated)
    BY <2>2, KeyTyped
  <2> HIDE DEF seated
  <2>4. shuffle \in ShuffleType
    BY <2>3 DEF Typed, ShuffleType
  <2>5. u = [seated EXCEPT !.shuffle = shuffle]
    BY <2>3 DEF Typed, Over, TableFields
  <2> HIDE DEF shuffle, u
  <2> QED
    BY <2>1, <2>3, <2>4, <2>5 DEF Typed, Over, TableFields
<1> QED
  BY <1>2, <1>3

\* A seat is handed back.
LEMMA DepartedTyped ==
    ASSUME NEW t, Typed(t), NEW s
    PROVE  Typed(Departed(t, s))
<1> DEFINE v == RefundSui(t, t.seats[s].stack)
<1>1. SeatTyped(EmptySeat)
  BY DEF SeatTyped, EmptySeat, Over, SeatFields
<1>2. Typed(v)
  BY RefundSuiTyped
<1>3. Departed(t, s) = [v EXCEPT !.seats[s] = EmptySeat]
  BY DEF Departed
<1> HIDE DEF v
<1> QED
  BY <1>1, <1>2, <1>3, OneSeatTyped

\* leave_with_proof, leave_table
LEMMA LeaveTyped ==
    ASSUME Typed(table), NEW s \in Seats, LeaveWithProof(s) \/ LeaveTable(s)
    PROVE  Typed(table')
<1>1. CASE LeaveWithProof(s)
  <2> DEFINE unkeyed == RemovePk(table, table.seats[s].player)
             shuffle == [unkeyed.shuffle EXCEPT !.pending = @ \ {s},
                                                !.completed = @ \ {s}]
             u == [unkeyed EXCEPT !.shuffle.pending = @ \ {s},
                                  !.shuffle.completed = @ \ {s}]
  <2>1. table' = Departed(u, s)
    BY <1>1 DEF LeaveWithProof, Commit
  <2>2. Typed(unkeyed)
    BY KeyTyped
  <2> HIDE DEF unkeyed
  <2>3. shuffle \in ShuffleType
    BY <2>2 DEF Typed, ShuffleType
  <2>4. u = [unkeyed EXCEPT !.shuffle = shuffle]
    BY <2>2 DEF Typed, Over, TableFields
  <2> HIDE DEF shuffle, u
  <2>5. Typed(u)
    BY <2>2, <2>3, <2>4 DEF Typed, Over, TableFields
  <2> QED
    BY <2>1, <2>5, DepartedTyped
<1>2. CASE LeaveTable(s)
  <2>1. \/ table' = Departed(table, s)
        \/ table' = Departed(RemovePk(table, table.seats[s].player), s)
    BY <1>2 DEF LeaveTable, Commit
  <2> QED
    BY <2>1, KeyTyped, DepartedTyped
<1> QED
  BY <1>1, <1>2

\* submit_shuffle
LEMMA SubmitShuffleTyped ==
    ASSUME Typed(table), NEW s \in Seats, SubmitShuffle(s)
    PROVE  Typed(table')
<1> DEFINE shuffle == [table.shuffle EXCEPT !.completed = @ \cup {s}, !.pending = @ \ {s}]
           u == [table EXCEPT !.shuffle = shuffle]
<1>1. shuffle \in ShuffleType
  BY DEF Typed, ShuffleType
<1>2. [table EXCEPT !.shuffle.completed = @ \cup {s}, !.shuffle.pending = @ \ {s}] = u
  BY DEF Typed, Over, TableFields
<1> HIDE DEF shuffle
<1>3. Typed(u)
  BY <1>1 DEF Typed, Over, TableFields
<1> HIDE DEF u
<1>4. table' = AdvanceShuffle(u)
  BY <1>2 DEF SubmitShuffle, Commit
<1> QED
  BY <1>3, <1>4, AdvanceShuffleTyped

\* submit_reconstruct_deck
LEMMA SubmitReconstructDeckTyped ==
    ASSUME Typed(table), Good(table), NEW s \in Seats, SubmitReconstructDeck(s)
    PROVE  Typed(table')
<1> DEFINE reconstruct == [table.reconstruct EXCEPT !.pending = @ \ {s},
                                                    !.decks = @ \cup {s}]
           u == [table EXCEPT !.reconstruct = reconstruct]
<1>1. reconstruct \in ReconstructType
  BY DEF Typed, ReconstructType
<1>2. [table EXCEPT !.reconstruct.pending = @ \ {s}, !.reconstruct.decks = @ \cup {s}] = u
  BY DEF Typed, Over, TableFields
<1> HIDE DEF reconstruct
<1>3. Typed(u) /\ u.decrypted = table.decrypted
  BY <1>1 DEF Typed, Over, TableFields
<1> HIDE DEF u
<1>4. table' \in {u, OnCompleteReconstruct(u)}
  BY <1>2 DEF SubmitReconstructDeck, Commit
<1> QED
  BY <1>3, <1>4, OnCompleteReconstructTyped DEF Good, Sound, Shaped

\* Community cards that are opened: the blank ones, which the guard of the
\* entry point bounds, are fewer from then on.
LEMMA CommunityOpenedTyped ==
    ASSUME NEW t, Typed(t), NEW done, IsFiniteSet(done), NEW blank,
           blank \subseteq done, Cardinality(blank) <= t.blanks
    PROVE  Typed(CommunityOpened(t, done, blank))
<1> DEFINE n == Cardinality(blank)
           indices == Ascending(DOMAIN t.reveal.asg \ blank)
           kept == [i \in DOMAIN indices |-> t.reveal.asg[indices[i]]]
           again == CommunityAssignments(t, n)
           asg == kept \o [k \in 1 .. n |-> again[n + 1 - k]]
           ready == t.ready + Cardinality(done \ blank)
           blanks == t.blanks - n
           opened == [t EXCEPT !.ready = ready, !.blanks = blanks]
           reveal == [opened.reveal EXCEPT !.asg = asg]
           u == [opened EXCEPT !.dealt = @ + n, !.reveal.asg = asg]
<1>1. /\ n = 0 => CommunityOpened(t, done, blank) = opened
      /\ n # 0 => \E cond : CommunityOpened(t, done, blank) = Require(u, cond)
  BY DEF CommunityOpened
<1>2. n \in Nat /\ Cardinality(done \ blank) \in Nat
  BY FS_Subset, FS_Difference, FS_CardinalityType
<1>3. ready \in Nat /\ blanks \in Nat
  BY <1>2 DEF Typed
<1> HIDE DEF n, asg, ready, blanks
<1>4. Typed(opened)
  BY <1>3 DEF Typed, Over, TableFields
<1> HIDE DEF opened
<1>5. Over(reveal, {"phase", "asg"})
  BY <1>4 DEF Typed, Over
<1>6. u = [opened EXCEPT !.dealt = @ + n, !.reveal = reveal]
  BY <1>4 DEF Typed, Over, TableFields
<1> HIDE DEF reveal, u
<1>7. Typed(u)
  BY <1>4, <1>5, <1>6 DEF Typed, Over, TableFields
<1> QED
  BY <1>1, <1>4, <1>7, RequireTyped

\* submit_player_reveal_tokens
LEMMA SubmitRevealTokensTyped ==
    ASSUME Typed(table), Carded(table), NEW s \in Seats, NEW S, NEW blank, NEW ranks,
           SubmitRevealTokens(s, S, blank, ranks)
    PROVE  Typed(table')
<1> DEFINE done == {a \in S : table.reveal.asg[a].pending = {s}}
           taken == TokensTaken(table, s, S)
           opened == TokensOpened(s, S, blank)
<1>1. /\ table' = CheckRevealPhaseComplete(opened, ranks)
      /\ S \subseteq OwedBy(table, s) /\ blank \subseteq done
      /\ Cardinality(blank) <= table.blanks
  BY DEF SubmitRevealTokens, Commit, TokensOpened
<1>2. IsFiniteSet(done)
  <2>1. IsFiniteSet(DOMAIN table.reveal.asg)
    BY LenProperties, FS_Interval DEF Carded, Requested
  <2> QED
    BY <1>1, <2>1, FS_Subset DEF OwedBy
<1>3. opened \in {HoleCardsOpened(taken, done), HoleCardsShown(taken, done),
                  CommunityOpened(taken, done, blank)}
  BY DEF TokensOpened
<1>4. Typed(taken) /\ taken.blanks = table.blanks
  <2> DEFINE asg == [a \in DOMAIN table.reveal.asg |->
                       IF a \notin S THEN table.reveal.asg[a]
                       ELSE [table.reveal.asg[a] EXCEPT
                               !.pending = @ \ {s},
                               !.decrypted = table.reveal.asg[a].pending = {s}]]
             reveal == [table.reveal EXCEPT !.asg = asg]
  <2>1. taken = [table EXCEPT !.reveal.asg = asg]
    BY DEF TokensTaken
  <2> HIDE DEF asg
  <2>2. Over(reveal, {"phase", "asg"})
    BY DEF Typed, Over
  <2>3. taken = [table EXCEPT !.reveal = reveal]
    BY <2>1 DEF Typed, Over, TableFields
  <2> HIDE DEF reveal
  <2> QED
    BY <2>2, <2>3 DEF Typed, Over, TableFields
<1> HIDE DEF taken, done
<1>5. ASSUME NEW cards PROVE Typed([taken EXCEPT !.decrypted = cards])
  BY <1>4 DEF Typed, Over, TableFields
<1>6. Typed(HoleCardsOpened(taken, done))
  BY <1>5 DEF HoleCardsOpened
<1>7. Typed(HoleCardsShown(taken, done))
  BY <1>5 DEF HoleCardsShown
<1>8. Typed(CommunityOpened(taken, done, blank))
  BY <1>1, <1>2, <1>4, CommunityOpenedTyped
<1> HIDE DEF opened
<1> QED
  BY <1>1, <1>3, <1>6, <1>7, <1>8, CheckRevealTyped

\* Chips go from the stack of a seat into its bet.
LEMMA PutInTyped ==
    ASSUME NEW seat, SeatTyped(seat), NEW amount
    PROVE  SeatTyped(PutIn(seat, amount))
<1> DEFINE flag == IF seat.stack = amount THEN TRUE ELSE seat.all_in
           stack == seat.stack - amount
           bet == seat.bet + amount
           total == seat.total_bet + amount
<1>1. flag \in BOOLEAN
  BY DEF SeatTyped
<1>2. PutIn(seat, amount) = [seat EXCEPT !.stack = stack, !.bet = bet, !.total_bet = total,
                                         !.all_in = flag]
  BY DEF PutIn, SeatTyped, Over, SeatFields
<1> HIDE DEF flag, stack, bet, total
<1> QED
  BY <1>1, <1>2 DEF SeatTyped, Over, SeatFields

\* A seat has acted, and others have to act again.
LEMMA ActedTyped ==
    ASSUME NEW t, Typed(t), NEW s
    PROVE  Typed(Acted(t, s)) /\ Typed(ResetOtherPlayersActed(t, s))
<1> DEFINE seat == [t.seats[s] EXCEPT !.acted = TRUE]
           v == [t EXCEPT !.seats[s] = seat]
           seats == [u \in Seats |->
                       IF u \in ActionableSeats(t) \ {s}
                       THEN [t.seats[u] EXCEPT !.acted = FALSE] ELSE t.seats[u]]
<1>1. Typed(Acted(t, s))
  <2>1. s \in Seats => SeatTyped(t.seats[s])
    BY DEF Typed, SeatsTyped
  <2>2. s \in Seats => SeatTyped(seat)
    BY <2>1 DEF SeatTyped, Over, SeatFields
  <2>3. Acted(t, s) = [v EXCEPT !.timers["betting"] = FALSE]
    BY DEF Acted, Typed, Over, TableFields
  <2> HIDE DEF seat
  <2>4. Typed(v)
    BY <2>2, OneSeatTyped
  <2> HIDE DEF v
  <2>5. Typed([v EXCEPT !.timers["betting"] = FALSE])
    BY <2>4, TimerTyped
  <2> QED
    BY <2>3, <2>5
<1>2. Typed(ResetOtherPlayersActed(t, s))
  <2>1. ASSUME NEW u \in Seats
        PROVE  SeatTyped(t.seats[u]) /\ SeatTyped([t.seats[u] EXCEPT !.acted = FALSE])
    <3>1. SeatTyped(t.seats[u])
      BY DEF Typed, SeatsTyped
    <3> QED
      BY <3>1 DEF SeatTyped, Over, SeatFields
  <2>2. SeatsTyped(seats)
    BY <2>1 DEF SeatsTyped, Over
  <2>3. ResetOtherPlayersActed(t, s) = [t EXCEPT !.seats = seats]
    BY DEF ResetOtherPlayersActed
  <2> HIDE DEF seats
  <2> QED
    BY <2>2, <2>3, SeatsChangedTyped
<1> QED
  BY <1>1, <1>2

\* check, call
LEMMA CheckCallTyped ==
    ASSUME Typed(table), NEW s \in Seats, Check(s) \/ Call(s)
    PROVE  Typed(table')
<1> DEFINE called == [table EXCEPT !.seats[s] =
                         PutIn(@, CallAmount(table.betting, table.seats[s]))]
<1>1. table' \in {AdvanceTurn(Acted(table, s)), AdvanceTurn(Acted(called, s))}
  BY DEF Check, Call, Commit
<1>2. Typed(called)
  <2> DEFINE seat == PutIn(table.seats[s], CallAmount(table.betting, table.seats[s]))
  <2>1. SeatTyped(seat)
    BY PutInTyped DEF Typed, SeatsTyped
  <2>2. called = [table EXCEPT !.seats[s] = seat]
    BY DEF Typed, Over, TableFields
  <2> HIDE DEF seat
  <2> QED
    BY <2>1, <2>2, OneSeatTyped
<1> HIDE DEF called
<1> QED
  BY <1>1, <1>2, ActedTyped, AdvanceTurnTyped

\* raise: the bet to be made grows, and by how much is a number of chips.
LEMMA RaiseTyped ==
    ASSUME Typed(table), NEW s \in Seats, NEW total \in Int, Raise(s, total)
    PROVE  Typed(table')
<1> DEFINE betting == RaisedRound(table.betting, total)
           seat == PutIn(table.seats[s], total - table.seats[s].bet)
           v == [table EXCEPT !.seats[s] = seat]
           raised == [v EXCEPT !.betting = betting]
<1>1. [table EXCEPT !.betting = RaisedRound(@, total),
                    !.seats[s] = PutIn(@, total - table.seats[s].bet)] = raised
  BY DEF Typed, Over, TableFields
<1>2. total > table.betting.current_bet
  BY DEF Raise, CanRaiseTo
<1>3. betting \in BettingType
  <2> DEFINE old == table.betting
             size == total - old.current_bet
             least == IF size >= old.min_raise THEN size ELSE old.min_raise
  <2>1. old \in BettingType
    BY DEF Typed
  <2>2. total \in Nat /\ least \in Nat
    BY <1>2, <2>1 DEF BettingType
  <2>3. betting = [old EXCEPT !.current_bet = total, !.min_raise = least]
    BY <2>1 DEF RaisedRound, BettingType
  <2> HIDE DEF old, least, betting
  <2> QED
    BY <2>1, <2>2, <2>3 DEF BettingType
<1>4. SeatTyped(seat)
  BY PutInTyped DEF Typed, SeatsTyped
<1> HIDE DEF betting, seat
<1>5. Typed(v)
  BY <1>4, OneSeatTyped
<1> HIDE DEF v
<1>6. Typed(raised)
  BY <1>3, <1>5 DEF Typed, Over, TableFields
<1> HIDE DEF raised
<1>7. table' = AdvanceTurn(ResetOtherPlayersActed(Acted(raised, s), s))
  BY <1>1 DEF Raise, Commit
<1> QED
  BY <1>6, <1>7, ActedTyped, AdvanceTurnTyped

-----------------------------------------------------------------------------
(* The relayer's tick, and all that may happen.                            *)

\* tick; TickShuffle, TickReveal, TickBetting and TickShowdown are its parts.
LEMMA TickedTyped ==
    ASSUME NEW t, Typed(t), Good(t), NEW expired, NEW ranks
    PROVE  Typed(Ticked(t, expired, ranks))
<1>1. ASSUME NEW v, Typed(v), NEW name, NEW b \in BOOLEAN
      PROVE  Typed([v EXCEPT !.timers[name] = b])
  BY <1>1, TimerTyped
<1>2. Typed(AdvanceRound(CollectBetsToPot(t))) /\ Typed(ResetForNextHand(RefundAllBets(t)))
  BY CollectBetsTyped, AdvanceRoundTyped, AfterKicksTyped
<1>3. CASE t.reconstruct.phase # "none"
  <2>1. Ticked(t, expired, ranks) = TickReconstruct(t, expired)
    BY <1>3 DEF Ticked, IsPlaying
  <2> QED
    BY <1>3, <2>1, OnReconstructTimeoutTyped DEF TickReconstruct
<1>4. CASE t.reconstruct.phase = "none" /\ t.shuffle.phase # "none"
  <2>1. Ticked(t, expired, ranks) = TickShuffle(t, expired)
    BY <1>4 DEF Ticked, IsPlaying
  <2>2. Typed([t EXCEPT !.timers["shuffle"] = TRUE])
    BY <1>1
  <2> QED
    BY <1>4, <2>1, <2>2, AdvanceShuffleTyped, OnShuffleTimeoutTyped DEF TickShuffle
<1>5. CASE /\ t.reconstruct.phase = "none" /\ t.shuffle.phase = "none"
           /\ t.reveal.phase # "none"
  <2> DEFINE v == Answered(t, ranks)
  <2>1. Ticked(t, expired, ranks) = RevealTimed(v, expired)
    BY <1>5 DEF Ticked, IsPlaying, TickReveal
  <2>2. Typed(v)
    BY CheckRevealTyped DEF Answered
  <2>3. v.reveal.phase # "none" => DOMAIN v.reveal.asg \subseteq Nat
    BY <1>5, AnsweredOnward DEF Calm, Onward, Good, Sound, Asking
  <2> HIDE DEF v
  <2>4. Typed([v EXCEPT !.timers["reveal"] = TRUE])
    BY <1>1, <2>2
  <2> QED
    BY <2>1, <2>2, <2>3, <2>4, OnRevealTimeoutTyped DEF RevealTimed
<1>6. CASE Still(t)
  <2> DEFINE started == [t EXCEPT !.timers["showdown"] = TRUE]
  <2>1. \/ Ticked(t, expired, ranks) = TickWaiting(t)
        \/ Ticked(t, expired, ranks) = TickBetting(t, expired)
        \/ Ticked(t, expired, ranks) = TickShowdown(t, expired, ranks)
        \/ Ticked(t, expired, ranks) = ResetForNextHand(RefundAllBets(t))
    BY <1>6 DEF Ticked, Still
  <2>2. Typed(TickWaiting(t))
    BY DoStartHandTyped DEF TickWaiting
  <2>3. Typed(TickBetting(t, expired))
    <3>1. Typed([t EXCEPT !.timers["betting"] = TRUE])
      BY <1>1
    <3> QED
      BY <1>2, <3>1, DoFoldTyped DEF TickBetting
  <2>4. Typed(TickShowdown(t, expired, ranks))
    <3>1. Typed(started)
      BY <1>1
    <3>2. TickShowdown(t, expired, ranks) \in {started, SettleHand(started, ranks)}
      BY DEF TickShowdown
    <3> HIDE DEF started
    <3> QED
      BY <3>1, <3>2, SettleHandTyped
  <2> QED
    BY <1>2, <2>1, <2>2, <2>3, <2>4
<1> QED
  BY <1>3, <1>4, <1>5, <1>6 DEF Still

\* No entry point puts anything into the table that does not belong there.
LEMMA NextTyped ==
    ASSUME Typed(table), Good(table), Carded(table), [Next]_vars
    PROVE  Typed(table')
<1>1. CASE Join
  BY <1>1, JoinTyped DEF Join
<1>2. CASE Leave
  BY <1>2, LeaveTyped DEF Leave
<1>3. CASE StartHand
  BY <1>3, DoStartHandTyped DEF StartHand, Commit
<1>4. CASE Protocol
  BY <1>4, SubmitShuffleTyped, SubmitRevealTokensTyped, SubmitReconstructDeckTyped
     DEF Protocol
<1>5. CASE Bet
  <2>1. ASSUME NEW s \in Seats, Fold(s) \/ AutoFold(s)
        PROVE  Typed(table')
    BY <2>1, DoFoldTyped DEF Fold, AutoFold, Commit
  <2>2. ASSUME NEW s \in Seats, Check(s) \/ Call(s)
        PROVE  Typed(table')
    BY <2>2, CheckCallTyped
  <2>3. ASSUME NEW s \in Seats,
               NEW total \in 1 .. table.seats[s].bet + table.seats[s].stack,
               Raise(s, total)
        PROVE  Typed(table')
    BY <2>3, RaiseTyped
  <2> QED
    BY <1>5, <2>1, <2>2, <2>3 DEF Bet
<1>6. CASE Relay
  BY <1>6, TickedTyped DEF Relay, Tick, Commit
<1>7. CASE Admin
  BY <1>7, DoFoldTyped, KickTyped DEF Admin, ForceFold, KickPlayer, Commit
<1>8. CASE UNCHANGED vars
  BY <1>8 DEF vars
<1> QED
  BY <1>1, <1>2, <1>3, <1>4, <1>5, <1>6, <1>7, <1>8 DEF Next

\* A new table is typed.
LEMMA NewTableTyped == Typed(NewTable)
<1> DEFINE u == NewTable
           seats == [s \in Seats |-> EmptySeat]
           agg == [p \in Players |-> 0]
<1>1. SeatsTyped(seats) /\ Over(agg, Players)
  <2>1. SeatTyped(EmptySeat)
    BY DEF SeatTyped, EmptySeat, Over, SeatFields
  <2> QED
    BY <2>1 DEF SeatsTyped, Over
<1>2. /\ NoRound \in BettingType /\ EmptyShuffle \in ShuffleType
      /\ EmptyReconstruct \in ReconstructType /\ NoTimers \in [TimerNames -> BOOLEAN]
      /\ Over(EmptyReveal, {"phase", "asg"}) /\ "waiting" \in Rounds
  BY ClosedTyped
<1>3. 0 \in Seats
  BY TableAssumption DEF Seats
<1>4. /\ u.seats = seats /\ u.button = 0 /\ u.round = "waiting" /\ u.betting = NoRound
      /\ u.turn = NoSeat /\ u.shuffle = EmptyShuffle /\ u.reveal = EmptyReveal
      /\ u.reconstruct = EmptyReconstruct /\ u.ready = 0 /\ u.board = 0 /\ u.blanks = 0
      /\ u.agg = agg /\ u.timers = NoTimers
  BY DEF NewTable
<1>5. Over(u, TableFields)
  BY DEF NewTable, Over, TableFields
<1> HIDE DEF u, seats, agg
<1>6. Typed(u)
  BY <1>1, <1>2, <1>3, <1>4, <1>5 DEF Typed
<1> QED
  BY <1>6 DEF u

\* What a table holds: chips that are counted (Ledger), cards that are recorded
\* (Carded), keys (Keyed), and typed fields.
LEMMA TypesAddUp ==
    ASSUME NEW t, Typed(t), Good(t), Carded(t), Laid(t), Ledger(t), Surplus(t) >= 0, t.ok
    PROVE  t \in TableType
<1>1. Over(t, TableFields) /\ t.button \in Seats /\ t.round \in Rounds
  BY DEF Typed
<1>2. t.seats \in [Seats -> SeatType]
  <2>1. ASSUME NEW s \in Seats PROVE t.seats[s] \in SeatType
    <3>1. SeatTyped(t.seats[s])
      BY DEF Typed, SeatsTyped
    <3>2. /\ t.seats[s].stack \in Nat /\ t.seats[s].bet \in Nat
          /\ t.seats[s].total_bet \in Nat
      BY DEF Ledger, Booked
    <3> QED
      BY <3>1, <3>2 DEF SeatTyped, SeatType, Over, SeatFields
  <2> QED
    BY <2>1 DEF Typed, SeatsTyped, Over
<1>3. t.pot \in Nat /\ t.balance \in Nat
  <2>1. /\ t.pot \in Nat /\ t.balance \in Int
        /\ Owed(t) \in Nat /\ Surplus(t) = t.balance - Ratio * Owed(t)
    BY OwedSum DEF Ledger, Booked, Surplus
  <2>2. Ratio \in Nat /\ Ratio * Owed(t) \in Nat
    BY <2>1, TableAssumption
  <2> QED
    BY <2>1, <2>2
<1>4. t.reveal \in [phase : RevealPhases, asg : Seq(AssignmentType)]
  BY DEF Typed, Over, Carded, Requested, Laid
<1>5. t.dealt \in Nat /\ t.decrypted \in SUBSET CardType
  BY DEF Carded, Recorded
<1>6. t.agg \in [Players -> Nat]
  <2>1. ASSUME NEW p \in Players PROVE t.agg[p] \in Nat
    <3> DEFINE S == {s \in ActiveSeats(t) : t.seats[s].player = p}
    <3>1. t.agg[p] = Cardinality(S)
      BY DEF Good, Sound, Keyed
    <3>2. S \subseteq Seats
      BY DEF ActiveSeats, OccupiedSeats
    <3> HIDE DEF S
    <3> QED
      BY <3>1, <3>2, SomeSeatsFinite
  <2> QED
    BY <2>1 DEF Typed, Over
<1>7. /\ t.betting \in [open : BOOLEAN, current_bet : Nat, min_raise : Nat]
      /\ t.turn \in Seats \cup {NoSeat}
      /\ t.shuffle \in [phase : ShufflePhases, current : Seats \cup {NoSeat},
                        pending : SUBSET Seats, completed : SUBSET Seats]
      /\ t.reconstruct \in [phase : ReconstructPhases, pending : SUBSET Seats,
                            decks : SUBSET Seats]
      /\ t.ready \in Nat /\ t.board \in Nat /\ t.blanks \in Nat
      /\ t.timers \in [TimerNames -> BOOLEAN]
  BY DEF Typed, BettingType, ShuffleType, ReconstructType
<1>8. t.ok \in {TRUE}
  OBVIOUS
<1> QED
  BY <1>1, <1>2, <1>3, <1>4, <1>5, <1>6, <1>7, <1>8 DEF TableType, Over, TableFields

\* Every field of the table has its type, and nothing an aborted transaction
\* did is ever kept: no chips, keys, cards or blank cards are fewer than none.
THEOREM TablesAreTyped == Spec => []TypeOK
<1>1. Init => Typed(table)
  BY NewTableTyped DEF Init
<1>2. Typed(table) /\ IInv /\ CardsInv /\ [Next]_vars => Typed(table)'
  BY NextTyped DEF IInv, CardsInv
<1>3. Typed(table) /\ IInv /\ CardsInv /\ BooksInv => TypeOK
  BY TypesAddUp DEF IInv, CardsInv, BoardInv, TurnInv, BooksInv, TypeOK
<1> QED
  BY <1>1, <1>2, <1>3, PhasesAreSound, CardsInOrder, BooksInOrder, PTL DEF Spec

-----------------------------------------------------------------------------
(* What a player has: his stack and what he has in the pot.                *)

\* Before the blinds nobody who takes part has folded or is all-in.
Fresh(t) ==
    Dealing(t) => \A s \in ActiveSeats(t) : ~t.seats[s].folded /\ ~t.seats[s].all_in

\* The hole cards of a single player are never all opened: there is nobody else
\* to open them.
Lone(t) ==
    t.reveal.phase = "preflop" =>
        \/ Cardinality(ActiveSeats(t)) # 1
        \/ \E a \in DOMAIN t.reveal.asg :
              ~t.reveal.asg[a].decrypted /\ t.reveal.asg[a].pending = {}

\* So whoever posts the blinds, there are two of them or none.
TwoBlinds(t) == Fresh(t) /\ Lone(t)

\* What a player has, with what is in the pot of it.
Bank(seat) == seat.stack + seat.total_bet

\* Who sits at u sat at t with the same bank.
Held(t, u) ==
    \A s \in Seats : IsSeatOccupied(u.seats[s]) =>
        /\ IsSeatOccupied(t.seats[s]) /\ u.seats[s].player = t.seats[s].player
        /\ Bank(u.seats[s]) = Bank(t.seats[s])

\* Once the cards of a hand are dealt, the banks are held until the hand is over,
\* and no other hand begins.
Holds(t, u) ==
    t.shuffle.phase # "before_preflop" =>
        /\ u.shuffle.phase # "before_preflop"
        /\ u.round # "waiting" => t.round # "waiting" /\ Held(t, u)

PlaysOn(t, u) == TwoBlinds(u) /\ Holds(t, u)

\* Banks that are held twice are held.
LEMMA HoldsTwice ==
    ASSUME NEW t, NEW u, NEW v, Holds(t, u), Holds(u, v)
    PROVE  Holds(t, v)
<1>1. Held(t, u) /\ Held(u, v) => Held(t, v)
  BY DEF Held
<1> QED
  BY <1>1 DEF Holds

\* A step that moves neither chips nor players holds every bank.
LEMMA UnmovedPlays ==
    ASSUME NEW t, NEW u, u.seats = t.seats, u.round = t.round,
           u.betting.open = t.betting.open
    PROVE  /\ Fresh(t) => Fresh(u)
           /\ u.reveal = t.reveal => (Lone(t) => Lone(u))
           /\ u.reveal.phase # "preflop" => Lone(u)
           /\ u.shuffle.phase \in {t.shuffle.phase, "none", "reconstruct"} => Holds(t, u)
<1>1. ActiveSeats(u) = ActiveSeats(t)
  BY DEF ActiveSeats, OccupiedSeats
<1>2. Held(t, u)
  BY DEF Held
<1> QED
  BY <1>1, <1>2 DEF Fresh, Lone, Holds, Dealing

\* A failed assert moves nothing.
LEMMA RequirePlays ==
    ASSUME NEW t, NEW u, DOMAIN u = TableFields, PlaysOn(t, u), NEW cond
    PROVE  PlaysOn(t, Require(u, cond)) /\ PlaysOn(t, Abort(u))
<1> DEFINE v == Abort(u)
<1>1. /\ v.seats = u.seats /\ v.round = u.round /\ v.betting = u.betting
      /\ v.reveal = u.reveal /\ v.shuffle = u.shuffle
  BY DEF Abort, TableFields
<1> HIDE DEF v
<1>2. TwoBlinds(v) /\ Holds(u, v)
  BY <1>1, UnmovedPlays DEF PlaysOn, TwoBlinds
<1>3. PlaysOn(t, v)
  BY <1>2, HoldsTwice DEF PlaysOn
<1> QED
  BY <1>3 DEF Require, v

-----------------------------------------------------------------------------
(* The end of a hand and of a street.                                      *)

\* reset_for_next_hand ends the hand: everybody takes part in the next one.
LEMMA ResetPlays ==
    ASSUME NEW t, DOMAIN t = TableFields, \A s \in Seats : DOMAIN t.seats[s] = SeatFields
    PROVE  \A v : PlaysOn(v, ResetForNextHand(t))
<1> DEFINE u == ResetForNextHand(t)
           broke == {s \in Seats : t.seats[s].player # NoPlayer /\ t.seats[s].stack = 0}
           kept == [s \in Seats |->
                      IF s \in broke THEN EmptySeat
                      ELSE [t.seats[s] EXCEPT
                              !.bet = 0, !.total_bet = 0, !.folded = FALSE,
                              !.all_in = FALSE, !.acted = FALSE,
                              !.is_waiting = FALSE, !.left = FALSE]]
<1>1. /\ u.seats = kept /\ u.round = "waiting"
      /\ u.shuffle = EmptyShuffle /\ u.reveal = EmptyReveal
  BY DEF ResetForNextHand, TableFields
<1>2. \A s \in Seats : ~kept[s].folded /\ ~kept[s].all_in
  BY DEF EmptySeat, SeatFields
<1> HIDE DEF u, kept
<1>3. TwoBlinds(u)
  BY <1>1, <1>2 DEF TwoBlinds, Fresh, Lone, EmptyReveal, ActiveSeats, OccupiedSeats
<1>4. \A v : Holds(v, u)
  BY <1>1 DEF Holds, EmptyShuffle
<1> QED
  BY <1>3, <1>4 DEF PlaysOn, u

\* end_without_showdown ends the hand, or aborts.
LEMMA EndWithoutShowdownPlays ==
    ASSUME NEW t, Counted(t), TwoBlinds(t)
    PROVE  PlaysOn(t, EndWithoutShowdown(t))
<1> DEFINE c == CollectBetsToPot(t)
           first == Min(LiveSeats(t))
           u == [c EXCEPT !.seats[first].stack = @ + c.pot]
<1>1. EndWithoutShowdown(t) \in {Abort(t), ResetForNextHand(u)}
  BY DEF EndWithoutShowdown
<1>2. PlaysOn(t, t)
  BY UnmovedPlays DEF PlaysOn
<1>3. PlaysOn(t, Abort(t))
  BY <1>2, RequirePlays DEF Counted
<1>4. DOMAIN c = TableFields /\ DOMAIN c.seats = Seats
      /\ \A s \in Seats : DOMAIN c.seats[s] = SeatFields
  BY DEF CollectBetsToPot, Counted, TableFields, SeatFields
<1> HIDE DEF c, first
<1>5. DOMAIN u = TableFields /\ \A s \in Seats : DOMAIN u.seats[s] = SeatFields
  BY <1>4 DEF TableFields, SeatFields
<1> HIDE DEF u
<1> QED
  BY <1>1, <1>3, <1>5, ResetPlays

\* settle_hand ends the hand, or aborts.
LEMMA SettleHandPlays ==
    ASSUME NEW t, Counted(t), NEW ranks
    PROVE  \A v : PlaysOn(v, SettleHand(t, ranks))
<1> DEFINE u == PayPots(t, Pots(t), ranks)
           w == ResetForNextHand(u)
<1>1. SameMarks(t, u)
  BY PotsAreASequence, PayPotsMarks
<1>2. \E cond : SettleHand(t, ranks) = Require(w, cond)
  BY DEF SettleHand
<1> HIDE DEF u
<1>3. \A v : PlaysOn(v, w)
  BY <1>1, ResetPlays DEF SameMarks
<1>4. DOMAIN w = TableFields
  BY <1>1 DEF SameMarks, ResetForNextHand, TableFields
<1> HIDE DEF w
<1> QED
  BY <1>2, <1>3, <1>4, RequirePlays

\* Refunding everybody and resetting the table ends the hand.
LEMMA RefundThenResetPlays ==
    ASSUME NEW t, Counted(t)
    PROVE  \A v : PlaysOn(v, ResetForNextHand(RefundAllBets(t)))
<1> DEFINE due == {s \in Seats : ~t.seats[s].refunded /\ t.seats[s].total_bet > 0}
           home == due \cap OccupiedSeats(t)
           gone == {s \in due \ home : t.seats[s].left}
           refund(s) ==
               [t.seats[s] EXCEPT
                   !.stack = IF s \in home THEN @ + t.seats[s].total_bet ELSE @,
                   !.refunded = @ \/ s \in home \cup gone,
                   !.player = IF s \in gone THEN NoPlayer ELSE @,
                   !.bet = 0, !.total_bet = 0]
           seats == [s \in Seats |-> refund(s)]
           chips == MapThenSumSet(LAMBDA s : t.seats[s].total_bet, gone)
           u == RefundSui([t EXCEPT !.seats = seats, !.pot = 0], chips)
<1>1. RefundAllBets(t) = u
  BY DEF RefundAllBets
<1> HIDE DEF home, gone
<1>2. \A s \in Seats : DOMAIN seats[s] = SeatFields
  BY DEF Counted, SeatFields
<1> HIDE DEF seats, chips
<1>3. DOMAIN u = TableFields /\ u.seats = seats
  BY DEF RefundSui, Require, Abort, Counted, TableFields
<1> HIDE DEF u
<1> QED
  BY <1>1, <1>2, <1>3, ResetPlays

\* advance_round: what lies in front of the seats goes into the pot.
LEMMA StreetPlays ==
    ASSUME NEW t, Counted(t), t.round \in Asked
    PROVE  PlaysOn(t, AdvanceRound(CollectBetsToPot(t)))
<1> DEFINE c == CollectBetsToPot(t)
           u == AdvanceRound(c)
<1>1. /\ DOMAIN c = TableFields /\ c.round = t.round /\ c.shuffle = t.shuffle
      /\ c.seats = [s \in Seats |-> [t.seats[s] EXCEPT !.bet = 0]]
  BY DEF CollectBetsToPot, Counted, TableFields
<1> HIDE DEF c
<1>2. u.seats = c.seats /\ u.round \in {"flop", "turn", "river", "showdown"}
  BY <1>1, AdvanceRoundSeats
<1>3. u.shuffle = t.shuffle /\ u.reveal.phase # "preflop"
  <2>1. CASE c.round = "preflop"
    BY <1>1, <2>1 DEF AdvanceRound, StartCommunityReveal, TableFields
  <2>2. CASE c.round = "flop"
    BY <1>1, <2>2 DEF AdvanceRound, StartCommunityReveal, TableFields
  <2>3. CASE c.round = "turn"
    BY <1>1, <2>3 DEF AdvanceRound, StartCommunityReveal, TableFields
  <2>4. CASE c.round = "river"
    BY <1>1, <2>4 DEF AdvanceRound, StartShowdownReveal, TableFields
  <2> QED
    BY <1>1, <2>1, <2>2, <2>3, <2>4 DEF Asked
<1> HIDE DEF u
<1>4. \A s \in Seats : /\ u.seats[s].player = t.seats[s].player
                       /\ u.seats[s].left = t.seats[s].left
                       /\ u.seats[s].stack = t.seats[s].stack
                       /\ u.seats[s].total_bet = t.seats[s].total_bet
  BY <1>1, <1>2 DEF Counted, SeatFields
<1>5. Held(t, u)
  BY <1>4 DEF Held, Bank, IsSeatOccupied
<1>6. TwoBlinds(u)
  BY <1>2, <1>3 DEF TwoBlinds, Fresh, Lone, Dealing
<1> QED
  BY <1>3, <1>5, <1>6 DEF PlaysOn, Holds, Asked, u, c

\* advance_turn
LEMMA AdvanceTurnPlays ==
    ASSUME NEW t, Counted(t), TwoBlinds(t), t.round \in Asked
    PROVE  PlaysOn(t, AdvanceTurn(t))
<1> DEFINE next == FindNextActiveSeat(t, t.turn)
           v == [t EXCEPT !.turn = next]
<1>1. \/ AdvanceTurn(t) = AdvanceRound(CollectBetsToPot(t))
      \/ \E cond : AdvanceTurn(t) = Require(v, cond)
  BY DEF AdvanceTurn
<1> HIDE DEF next
<1>2. /\ DOMAIN v = TableFields /\ v.seats = t.seats /\ v.round = t.round
      /\ v.betting = t.betting /\ v.reveal = t.reveal /\ v.shuffle = t.shuffle
  BY DEF Counted, TableFields
<1> HIDE DEF v
<1>3. PlaysOn(t, v)
  BY <1>2, UnmovedPlays DEF PlaysOn, TwoBlinds
<1> QED
  BY <1>1, <1>2, <1>3, RequirePlays, StreetPlays

-----------------------------------------------------------------------------
(* The blinds.                                                             *)

\* Going round the table, a seat of two is not the first one met from itself.
LEMMA NextOther ==
    ASSUME NEW S, S \subseteq Seats, NEW from \in Seats, \E u \in S : u # from
    PROVE  NextAround(S, from) \in S /\ NextAround(S, from) # from
<1> DEFINE Distance(s) == (s - from - 1) % MaxPlayers
           next == NextAround(S, from)
<1>1. MaxPlayers \in Nat \ {0} /\ from \in 0 .. MaxPlayers - 1 /\ S \subseteq 0 .. MaxPlayers - 1
  BY TableAssumption DEF Seats
<1>2. next \in S
  <2>1. S # {} /\ from \in Int
    BY <1>1
  <2> HIDE DEF next
  <2>2. NextAround(S, from) \in S
    BY <2>1, NextAroundMember
  <2> QED
    BY <2>2 DEF next
<1>3. PICK u \in S : u # from
  OBVIOUS
<1>4. next = CHOOSE x \in S : \A w \in S : Distance(x) <= Distance(w)
  BY DEF NextAround
<1>5. \E x \in S : \A w \in S : Distance(x) <= Distance(w)
  <2> DEFINE distance == [s \in S |-> (s - from - 1) % MaxPlayers]
             T == {distance[s] : s \in S}
  <2>1. \A s \in S : s \in Int /\ distance[s] = Distance(s) /\ Distance(s) \in Nat
    BY <1>1
  <2>2. T \in SUBSET Nat /\ T # {}
    BY <1>3, <2>1
  <2>3. PICK n \in T : \A m \in T : n <= m
    BY <2>2, LeastMember
  <2>4. PICK s \in S : distance[s] = n
    BY <2>3
  <2>5. \A w \in S : distance[s] <= distance[w]
    BY <2>3, <2>4
  <2> HIDE DEF Distance
  <2> QED
    BY <2>1, <2>5
<1>6. Distance(next) <= Distance(u)
  <2> HIDE DEF Distance, next
  <2> QED
    BY <1>3, <1>4, <1>5
<1>7. Distance(from) = MaxPlayers - 1
  <2>1. from - from - 1 = -1
    BY <1>1
  <2>2. (-1) % MaxPlayers = MaxPlayers - 1
    BY <1>1
  <2> QED
    BY <2>1, <2>2
<1>8. Distance(u) < MaxPlayers - 1
  <2>1. CASE u > from
    <3> DEFINE d == u - from - 1
    <3>1. d \in 0 .. MaxPlayers - 2
      BY <1>1, <1>3, <2>1
    <3>2. d % MaxPlayers = d
      BY <1>1, <3>1
    <3> QED
      BY <1>1, <3>1, <3>2
  <2>2. CASE u < from
    <3> DEFINE d == u - from - 1
    <3>1. d + MaxPlayers \in 0 .. MaxPlayers - 2
      BY <1>1, <1>3, <2>2
    <3>2. d % MaxPlayers = d + MaxPlayers
      BY <1>1, <3>1
    <3> QED
      BY <1>1, <3>1, <3>2
  <2> QED
    BY <1>1, <1>3, <2>1, <2>2
<1>9. next # from
  <2>1. Distance(next) \in Int /\ Distance(u) \in Int
    <3>1. \A v \in S : Distance(v) \in Int
      <4> SUFFICES ASSUME NEW v \in S
                   PROVE  (v - from - 1) % MaxPlayers \in Int
        OBVIOUS
      <4>1. v - from - 1 \in Int /\ MaxPlayers \in Nat \ {0}
        BY <1>1
      <4> QED
        BY <4>1
    <3> HIDE DEF Distance, next
    <3> QED
      BY <1>2, <3>1
  <2> HIDE DEF Distance
  <2> QED
    BY <1>1, <1>6, <1>7, <1>8, <2>1
<1> QED
  BY <1>2, <1>9

\* A blind moves chips from the stack of a player who has put in nothing.
LEMMA BlindHeld ==
    ASSUME NEW t, Counted(t), NEW s \in Seats, t.seats[s].stack \in Nat,
           t.seats[s].total_bet = 0, NEW blind \in Nat
    PROVE  LET u == [t EXCEPT !.seats[s] = Posted(t.seats[s], blind)]
           IN  /\ \A r \in Seats : /\ u.seats[r].player = t.seats[r].player
                                   /\ u.seats[r].left = t.seats[r].left
                                   /\ Bank(u.seats[r]) = Bank(t.seats[r])
               /\ \A r \in Seats \ {s} : u.seats[r] = t.seats[r]
               /\ u.round = t.round /\ u.shuffle = t.shuffle /\ u.reveal = t.reveal
<1> DEFINE seat == t.seats[s]
           amount == IF seat.stack < blind THEN seat.stack ELSE blind
           posted == Posted(seat, blind)
           u == [t EXCEPT !.seats[s] = posted]
<1>1. amount \in Nat
  OBVIOUS
<1>2. /\ posted.player = seat.player /\ posted.left = seat.left
      /\ posted.total_bet = amount /\ posted.stack = seat.stack - amount
  BY DEF Counted, SeatFields, Posted
<1> HIDE DEF posted, amount
<1>3. Bank(posted) = Bank(seat)
  BY <1>1, <1>2 DEF Bank
<1>4. /\ u.seats = [t.seats EXCEPT ![s] = posted]
      /\ u.round = t.round /\ u.shuffle = t.shuffle /\ u.reveal = t.reveal
  BY DEF Counted, TableFields
<1> HIDE DEF u
<1>5. u.seats[s] = posted /\ \A r \in Seats \ {s} : u.seats[r] = t.seats[r]
  BY <1>4 DEF Counted
<1> QED
  BY <1>2, <1>3, <1>4, <1>5 DEF u, posted

\* post_blinds takes the two blinds of two players, or aborts: each keeps what
\* it had, in the stack and in the pot.
LEMMA PostBlindsHeld ==
    ASSUME NEW t, Tallied(t), Betless(t), \A s \in Seats : t.seats[s].stack \in Nat,
           \A s \in ActionableSeats(t) : \E r \in ActionableSeats(t) : r # s
    PROVE  LET u == PostBlinds(t)
           IN  Held(t, u) /\ u.round = t.round /\ u.shuffle = t.shuffle /\ u.reveal = t.reveal
<1> DEFINE headsUp == CountActiveOccupied(t) = 2
           sb == IF headsUp THEN t.button ELSE FindNextActiveSeat(t, t.button)
           bb == FindNextActiveSeat(t, sb)
           small == [t EXCEPT !.seats[sb] = Posted(t.seats[sb], SmallBlind)]
           both == [small EXCEPT !.seats[bb] = Posted(small.seats[bb], BigBlind)]
           first == IF headsUp THEN sb ELSE FindNextActiveSeat(both, bb)
           u == [both EXCEPT !.turn = first]
           Kept2(v) == Held(t, v) /\ v.round = t.round /\ v.shuffle = t.shuffle /\ v.reveal = t.reveal
<1>1. \/ PostBlinds(t) = Abort(t)
      \/ ActionableSeats(t) # {} /\ PostBlinds(t) = u
  BY DEF PostBlinds, Posted
<1>2. SmallBlind \in Nat /\ BigBlind \in Nat /\ SmallBlind <= BigBlind
  BY TableAssumption
<1>3. CASE PostBlinds(t) = Abort(t)
  <2>1. Kept2(Abort(t))
    BY DEF Abort, Tallied, Counted, TableFields, Held
  <2> QED
    BY <1>3, <2>1
<1>4. CASE ActionableSeats(t) # {} /\ PostBlinds(t) = u
  <2>1. ActionableSeats(t) # {} /\ t.button \in Seats /\ ActionableSeats(t) \subseteq Seats
    BY <1>4, LiveAre DEF Tallied, Placed
  <2>2. sb \in Seats
    BY <2>1, SeatsAreInt, NextActive
  <2> HIDE DEF sb
  <2>3. bb \in Seats /\ bb # sb
    <3>1. PICK r \in ActionableSeats(t) : TRUE
      BY <2>1
    <3>2. \E q \in ActionableSeats(t) : q # sb
      BY <3>1
    <3> QED
      BY <2>1, <2>2, <3>2, NextOther DEF FindNextActiveSeat
  <2> HIDE DEF bb, small, both, first
  <2>4. /\ Counted(small) /\ small.round = t.round
        /\ \A r \in Seats : small.seats[r].stack \in Nat
    <3>1. \A r \in Seats : Prior(t.seats[r]) = 0 /\ t.seats[r].bet <= BigBlind
      BY <1>2 DEF Betless, Prior
    <3> QED
      BY <1>2, <2>2, <3>1, BlindTaken DEF Tallied, small
  <2>5. /\ \A r \in Seats : /\ small.seats[r].player = t.seats[r].player
                            /\ small.seats[r].left = t.seats[r].left
                            /\ Bank(small.seats[r]) = Bank(t.seats[r])
        /\ small.seats[bb] = t.seats[bb]
        /\ small.shuffle = t.shuffle /\ small.reveal = t.reveal
    BY <1>2, <2>2, <2>3, BlindHeld DEF Tallied, Betless, small
  <2>6. /\ \A r \in Seats : /\ both.seats[r].player = small.seats[r].player
                            /\ both.seats[r].left = small.seats[r].left
                            /\ Bank(both.seats[r]) = Bank(small.seats[r])
        /\ both.round = small.round
        /\ both.shuffle = small.shuffle /\ both.reveal = small.reveal
    BY <1>2, <2>3, <2>4, <2>5, BlindHeld DEF Betless, both
  <2>7. DOMAIN both = TableFields
    BY <2>4 DEF both, Counted, TableFields
  <2>8. /\ u.seats = both.seats /\ u.round = both.round
        /\ u.shuffle = both.shuffle /\ u.reveal = both.reveal
    BY <2>7 DEF TableFields
  <2> HIDE DEF u
  <2>9. Held(t, u)
    BY <2>5, <2>6, <2>8 DEF Held, IsSeatOccupied
  <2> QED
    BY <1>4, <2>4, <2>5, <2>6, <2>8, <2>9
<1> QED
  BY <1>1, <1>3, <1>4, SMTT(60)

-----------------------------------------------------------------------------
(* The end of a reveal phase and of a shuffle.                             *)

\* start_betting_round puts no chips in.
LEMMA StartBettingRoundPlays ==
    ASSUME NEW t, Counted(t), t.round \in Asked, t.reveal.phase = "none",
           NEW preflop \in BOOLEAN
    PROVE  PlaysOn(t, StartBettingRound(t, preflop))
<1> DEFINE seats == [s \in Seats |->
                       [t.seats[s] EXCEPT !.acted = FALSE,
                                          !.bet = IF preflop THEN @ ELSE 0]]
           round == IF preflop THEN NewPreflop(BigBlind) ELSE NewPostflop(BigBlind)
           next == FindNextActiveSeat(t, t.button)
           opened == [t EXCEPT !.betting = round, !.seats = seats]
           u == [opened EXCEPT !.turn = next]
           Opened(v) ==
               /\ DOMAIN v = TableFields /\ v.seats = seats /\ v.round = t.round
               /\ v.betting = round /\ v.reveal = t.reveal /\ v.shuffle = t.shuffle
<1>1. StartBettingRound(t, preflop)
         \in {AdvanceRound(CollectBetsToPot(opened)), opened, u}
  BY DEF StartBettingRound
<1>2. /\ DOMAIN seats = Seats
      /\ \A s \in Seats : /\ DOMAIN seats[s] = SeatFields
                          /\ seats[s].player = t.seats[s].player
                          /\ seats[s].left = t.seats[s].left
                          /\ seats[s].bet \in Nat /\ seats[s].total_bet \in Nat
                          /\ seats[s].stack = t.seats[s].stack
                          /\ seats[s].total_bet = t.seats[s].total_bet
  BY DEF Counted, SeatFields
<1>3. /\ round.open /\ round.current_bet \in Int
      /\ DOMAIN round = {"open", "current_bet", "min_raise"}
  BY TableAssumption DEF NewPreflop, NewPostflop
<1> HIDE DEF seats, round, next
<1>4. Opened(opened) /\ Opened(u)
  BY DEF Counted, TableFields
<1> HIDE DEF opened, u
<1>5. ASSUME NEW v, Opened(v)
      PROVE  Counted(v) /\ PlaysOn(t, v)
  <2>1. Counted(v)
    BY <1>2, <1>3, <1>5 DEF Counted
  <2>2. Held(t, v)
    BY <1>2, <1>5 DEF Held, Bank, IsSeatOccupied
  <2>3. TwoBlinds(v)
    BY <1>3, <1>5 DEF TwoBlinds, Fresh, Lone, Dealing, Asked
  <2> QED
    BY <1>5, <2>1, <2>2, <2>3 DEF PlaysOn, Holds, Asked
<1>6. PlaysOn(t, AdvanceRound(CollectBetsToPot(opened)))
  <2>1. Counted(opened) /\ opened.round \in Asked /\ Holds(t, opened)
    BY <1>4, <1>5 DEF PlaysOn
  <2>2. PlaysOn(opened, AdvanceRound(CollectBetsToPot(opened)))
    BY <2>1, StreetPlays
  <2> QED
    BY <2>1, <2>2, HoldsTwice DEF PlaysOn
<1> QED
  BY <1>1, <1>4, <1>5, <1>6

\* Of players who have not folded and are not all-in, no fewer than two, two
\* post a blind.
LEMMA BlindsOfTwo ==
    ASSUME NEW t, Fresh(t), Dealing(t), Cardinality(ActiveSeats(t)) # 1
    PROVE  \A s \in ActionableSeats(t) : \E r \in ActionableSeats(t) : r # s
<1>1. ActionableSeats(t) = ActiveSeats(t)
  BY DEF Fresh, ActionableSeats, LiveSeats, ActiveSeats, OccupiedSeats
<1>2. SUFFICES ASSUME NEW s \in ActiveSeats(t), ~ \E r \in ActiveSeats(t) : r # s
               PROVE  FALSE
  BY <1>1
<1>3. ActiveSeats(t) = {s}
  BY <1>2
<1>4. Cardinality({s}) = 1
  BY FS_Singleton
<1> QED
  BY <1>3, <1>4

\* check_reveal_phase_complete: chips move in the blinds, or with the hand over.
LEMMA CheckRevealPlays ==
    ASSUME NEW t, Steady(t), Staked(t), \A s \in Seats : t.seats[s].stack \in Nat,
           TwoBlinds(t), NEW ranks
    PROVE  PlaysOn(t, CheckRevealPhaseComplete(t, ranks))
<1> DEFINE phase == t.reveal.phase
           cleared == [t EXCEPT !.reveal = EmptyReveal]
           untimed == [cleared EXCEPT !.timers.betting = FALSE]
           closed == [cleared EXCEPT !.timers.showdown = FALSE]
           written == WriteCommunity(untimed)
           shown == \A a \in DOMAIN t.reveal.asg : t.reveal.asg[a].decrypted
           u == CheckRevealPhaseComplete(t, ranks)
           Same(v) == /\ DOMAIN v = TableFields /\ v.seats = t.seats /\ v.round = t.round
                      /\ v.betting = t.betting /\ v.button = t.button
                      /\ v.turn = t.turn /\ v.ok = t.ok
                      /\ v.shuffle = t.shuffle /\ v.reveal = EmptyReveal
<1>1. \/ u = t \/ u = cleared
      \/ shown /\ phase = "preflop" /\ u = StartBettingRound(PostBlinds(untimed), TRUE)
      \/ phase \in {"flop", "turn", "river"} /\ u = StartBettingRound(written, FALSE)
      \/ u = SettleHand(closed, ranks)
  BY DEF CheckRevealPhaseComplete
<1>2. DOMAIN t = TableFields /\ Counted(t)
  BY DEF Staked, Tallied, Counted
<1>3. Same(cleared) /\ Same(untimed) /\ Same(closed) /\ Same(written)
  BY <1>2 DEF WriteCommunity, TableFields
<1>4. \A v : Same(v) => SamePlay(t, v)
  BY <1>2, SeatsKept
<1>5. \A v : Same(v) => Tallied(v) /\ Counted(v) /\ (Betless(t) => Betless(v))
  BY <1>4, SamePlayTallied DEF Staked, Tallied
<1>6. \A v : Same(v) => PlaysOn(t, v) /\ v.reveal.phase = "none"
  <2> TAKE v
  <2>1. Same(v) => v.reveal.phase # "preflop" /\ v.reveal.phase = "none"
    BY DEF EmptyReveal
  <2> QED
    BY <2>1, UnmovedPlays DEF PlaysOn, TwoBlinds
<1> HIDE DEF u, untimed, cleared, closed, written
<1>7. CASE shown /\ phase = "preflop" /\ u = StartBettingRound(PostBlinds(untimed), TRUE)
  <2> DEFINE w == PostBlinds(untimed)
  <2>1. t.round = "preflop" /\ ~t.betting.open /\ Dealing(t)
    BY <1>7 DEF Steady, Rounded, Asked, Dealing
  <2>2. Betless(t)
    BY <2>1 DEF Staked, Tallied
  <2>3. /\ Tallied(untimed) /\ Betless(untimed) /\ untimed.round = "preflop"
        /\ untimed.seats = t.seats
    BY <1>3, <1>5, <2>1, <2>2
  <2>4. Cardinality(ActiveSeats(t)) # 1
    BY <1>7 DEF TwoBlinds, Lone
  <2>5. \A s \in ActionableSeats(untimed) : \E r \in ActionableSeats(untimed) : r # s
    <3>1. ActionableSeats(untimed) = ActionableSeats(t)
      BY <2>3, SameLive
    <3> QED
      BY <2>1, <2>4, <3>1, BlindsOfTwo DEF TwoBlinds
  <2>6. /\ Held(untimed, w) /\ w.round = untimed.round /\ w.shuffle = untimed.shuffle
        /\ w.reveal = untimed.reveal
    BY <2>3, <2>5, PostBlindsHeld
  <2>7. Counted(w)
    BY <2>3, PostBlindsBlinded DEF Blinded
  <2> HIDE DEF w
  <2>8. PlaysOn(w, StartBettingRound(w, TRUE))
    BY <1>3, <1>6, <2>3, <2>6, <2>7, StartBettingRoundPlays DEF Asked
  <2>9. Holds(untimed, w) /\ Holds(t, untimed)
    BY <1>3, <1>6, <2>6 DEF Holds, PlaysOn
  <2>10. Holds(t, w)
    BY <2>9, HoldsTwice
  <2>11. Holds(t, StartBettingRound(w, TRUE))
    BY <2>8, <2>10, HoldsTwice DEF PlaysOn
  <2> QED
    BY <1>7, <2>8, <2>11 DEF PlaysOn, u, w
<1>8. CASE phase \in {"flop", "turn", "river"} /\ u = StartBettingRound(written, FALSE)
  <2>1. t.round = phase
    BY <1>8 DEF Steady, Rounded, Asked
  <2>2. PlaysOn(written, StartBettingRound(written, FALSE))
    BY <1>3, <1>5, <1>6, <1>8, <2>1, StartBettingRoundPlays DEF Asked
  <2>3. Holds(t, written)
    BY <1>3, <1>6 DEF PlaysOn
  <2>4. Holds(t, StartBettingRound(written, FALSE))
    BY <2>2, <2>3, HoldsTwice DEF PlaysOn
  <2> QED
    BY <1>8, <2>2, <2>4 DEF PlaysOn, u
<1>9. PlaysOn(t, SettleHand(closed, ranks))
  BY <1>3, <1>5, SettleHandPlays
<1>10. PlaysOn(t, t) /\ PlaysOn(t, cleared)
  BY <1>3, <1>6, UnmovedPlays DEF PlaysOn
<1> QED
  BY <1>1, <1>7, <1>8, <1>9, <1>10 DEF u

\* A single player is asked for the own cards by nobody.
LEMMA PreflopLone ==
    ASSUME NEW t, DOMAIN t = TableFields
    PROVE  /\ Lone(StartPreflopReveal(t))
           /\ StartPreflopReveal(t).shuffle = t.shuffle
<1> DEFINE active == ActiveSeats(t)
           n == Cardinality(active) * CardsPerPlayer
           owner(k) == Ascending(active)[((k - 1) \div CardsPerPlayer) + 1]
           asg == [k \in 1 .. n |->
                     Assignment(t.dealt + k - 1, active \ {owner(k)}, owner(k))]
           u == StartPreflopReveal(t)
<1>1. /\ u.seats = t.seats /\ u.shuffle = t.shuffle /\ u.reveal.asg = asg
  BY DEF StartPreflopReveal, TableFields
<1> HIDE DEF u
<1>2. ActiveSeats(u) = active
  BY <1>1 DEF ActiveSeats, OccupiedSeats
<1>3. ASSUME Cardinality(active) = 1
      PROVE  1 \in DOMAIN asg /\ ~asg[1].decrypted /\ asg[1].pending = {}
  <2>1. active \in SUBSET Int /\ IsFiniteSet(active)
    BY ActiveAreSeats, SomeSeatsFinite, SeatsAreInt
  <2>2. Ascending(active)[1] \in active
    BY <1>3, <2>1, AscendingMembers
  <2>3. active = {Ascending(active)[1]}
    BY <1>3, <2>1, <2>2, FS_Singleton
  <2>4. CardsPerPlayer \in Nat \ {0}
    BY TableAssumption
  <2>5. (1 - 1) \div CardsPerPlayer = 0
    BY <2>4
  <2>6. n = CardsPerPlayer
    BY <1>3, <2>4
  <2>7. 1 \in 1 .. n
    BY <2>4, <2>6
  <2>8. owner(1) = Ascending(active)[1]
    BY <2>5
  <2>9. asg[1] = Assignment(t.dealt + 1 - 1, active \ {owner(1)}, owner(1))
    BY <2>7
  <2> HIDE DEF owner
  <2>10. active \ {owner(1)} = {}
    BY <2>3, <2>8
  <2> HIDE DEF asg, n, active
  <2>11. asg[1].pending = active \ {owner(1)} /\ asg[1].decrypted = FALSE
    BY <2>9 DEF Assignment
  <2> QED
    BY <2>7, <2>10, <2>11 DEF asg
<1> QED
  BY <1>1, <1>2, <1>3 DEF Lone, u

\* What is dealt again after a reconstruction leaves the shuffle as it is.
LEMMA ResumeRevealPlays ==
    ASSUME NEW t, DOMAIN t = TableFields, t.reveal = EmptyReveal
    PROVE  Lone(ResumeReveal(t)) /\ ResumeReveal(t).shuffle = t.shuffle
<1> DEFINE u == ResumeReveal(t)
           Later(v) == v.reveal.phase # "preflop" /\ v.shuffle = t.shuffle
<1>1. \A n, phase, cond : phase # "preflop" =>
         Later(Require(StartCommunityReveal(t, n, phase), cond))
  BY DEF StartCommunityReveal, Require, Abort, TableFields
<1>2. Later(StartShowdownReveal([t EXCEPT !.timers.showdown = FALSE]))
  BY DEF StartShowdownReveal, TableFields
<1>3. Later(t)
  BY DEF EmptyReveal
<1>4. u = StartPreflopReveal(t) \/ Later(u)
  BY <1>1, <1>2, <1>3 DEF ResumeReveal
<1> HIDE DEF u
<1>5. Later(u) => Lone(u)
  BY DEF Lone
<1> QED
  BY <1>4, <1>5, PreflopLone DEF u

\* advance_shuffle moves no chips.
LEMMA AdvanceShufflePlays ==
    ASSUME NEW t, Tallied(t), Opening(t), Fresh(t)
    PROVE  /\ Fresh(AdvanceShuffle(t)) /\ Holds(t, AdvanceShuffle(t))
           /\ Lone(t) => Lone(AdvanceShuffle(t))
<1> DEFINE u == AdvanceShuffle(t)
           untimed == [t EXCEPT !.timers.reveal = FALSE, !.shuffle = EmptyShuffle]
           turned == [t EXCEPT !.shuffle.current = Min(t.shuffle.pending),
                               !.timers.shuffle = FALSE]
           begun == [untimed EXCEPT !.round = "preflop"]
           rebuilt == [untimed EXCEPT !.reconstruct = EmptyReconstruct, !.reveal = EmptyReveal]
<1>1. \/ u = t \/ u = turned
      \/ t.shuffle.phase = "before_preflop" /\ u = StartPreflopReveal(begun)
      \/ t.shuffle.phase # "before_preflop" /\ u = ResumeReveal(rebuilt)
  BY DEF AdvanceShuffle
<1>2. DOMAIN t = TableFields
  BY DEF Tallied, Counted
<1>3. /\ turned.seats = t.seats /\ turned.round = t.round /\ turned.betting = t.betting
      /\ turned.reveal = t.reveal /\ turned.shuffle.phase = t.shuffle.phase
  <2> DEFINE current == [t.shuffle EXCEPT !.current = Min(t.shuffle.pending)]
  <2>1. turned.shuffle = current
    BY <1>2 DEF TableFields
  <2>2. current.phase = t.shuffle.phase
    OBVIOUS
  <2> HIDE DEF current
  <2> QED
    BY <1>2, <2>1, <2>2 DEF TableFields
<1>4. /\ DOMAIN begun = TableFields /\ begun.seats = t.seats /\ begun.betting = t.betting
      /\ begun.round = "preflop"
  BY <1>2 DEF TableFields
<1>5. /\ DOMAIN rebuilt = TableFields /\ rebuilt.seats = t.seats
      /\ rebuilt.betting = t.betting /\ rebuilt.round = t.round
      /\ rebuilt.reveal = EmptyReveal /\ rebuilt.shuffle = EmptyShuffle
  BY <1>2 DEF TableFields
<1> HIDE DEF u, turned, begun, rebuilt, untimed
<1>6. CASE u = t
  BY <1>6, UnmovedPlays DEF u
<1>7. CASE u = turned
  BY <1>3, <1>7, UnmovedPlays DEF u
<1>8. CASE t.shuffle.phase = "before_preflop" /\ u = StartPreflopReveal(begun)
  <2>1. Passed(begun, u)
    BY <1>4, <1>8, RevealsPassed DEF Passed
  <2>2. Dealing(t)
    BY <1>8 DEF Dealing, Opening
  <2>3. ActiveSeats(u) = ActiveSeats(t) /\ u.seats = t.seats
    BY <1>4, <2>1 DEF Passed, ActiveSeats, OccupiedSeats
  <2>4. Fresh(u)
    BY <2>2, <2>3 DEF Fresh
  <2>5. Holds(t, u)
    BY <1>8 DEF Holds
  <2>6. Lone(u)
    BY <1>4, <1>8, PreflopLone
  <2> QED
    BY <2>4, <2>5, <2>6 DEF u
<1>9. CASE t.shuffle.phase # "before_preflop" /\ u = ResumeReveal(rebuilt)
  <2>1. Passed(rebuilt, u)
    BY <1>5, <1>9, ResumeRevealPassed DEF Passed
  <2>2. Lone(u) /\ u.shuffle = EmptyShuffle
    BY <1>5, <1>9, ResumeRevealPlays
  <2>3. u.seats = t.seats /\ u.round = t.round /\ u.betting = t.betting
    BY <1>5, <2>1 DEF Passed
  <2>4. u.shuffle.phase = "none"
    BY <2>2 DEF EmptyShuffle
  <2>5. Fresh(u) /\ Holds(t, u)
    BY <2>3, <2>4, UnmovedPlays
  <2> QED
    BY <2>2, <2>5 DEF u
<1> QED
  BY <1>1, <1>6, <1>7, <1>8, <1>9

-----------------------------------------------------------------------------
(* Folding and kicking.                                                    *)

\* do_fold
LEMMA DoFoldPlays ==
    ASSUME NEW t, Tallied(t), t.betting.open, t.round \in Asked,
           t.reveal.phase = "none", NEW s \in Seats
    PROVE  PlaysOn(t, DoFold(t, s))
<1> DEFINE seat == t.seats[s]
           seated == [seat EXCEPT !.folded = TRUE, !.acted = TRUE]
           folded == [t EXCEPT !.seats[s] = seated, !.timers.betting = FALSE]
           next == IF CountActivePlayers(folded) <= 1 THEN EndWithoutShowdown(folded)
                   ELSE AdvanceTurn(folded)
           allowed == IsSeatOccupied(seat) /\ ~seat.folded
<1>1. DoFold(t, s) = Require(next, allowed)
  BY DEF DoFold
<1>2. /\ DOMAIN folded = TableFields /\ folded.seats = [t.seats EXCEPT ![s] = seated]
      /\ folded.round = t.round /\ folded.betting = t.betting
      /\ folded.button = t.button /\ folded.turn = t.turn /\ folded.ok = t.ok
      /\ folded.reveal = t.reveal /\ folded.shuffle = t.shuffle
  BY DEF Tallied, Counted, TableFields
<1>3. /\ DOMAIN seated = SeatFields /\ seated.bet = seat.bet
      /\ seated.total_bet = seat.total_bet /\ seated.player = seat.player
      /\ seated.stack = seat.stack /\ seated.left = seat.left
      /\ seated.refunded = seat.refunded /\ seated.folded
  BY DEF Tallied, Counted, SeatFields
<1> HIDE DEF seated, folded
<1>4. Tallied(folded) /\ Counted(folded)
  <2>1. Out(seat, seated)
    BY <1>3 DEF Out
  <2>2. Tallied(folded)
    BY <1>2, <2>1, OutTallied
  <2> QED
    BY <2>2 DEF Tallied
<1>5. \A r \in Seats : /\ folded.seats[r].player = t.seats[r].player
                       /\ folded.seats[r].left = t.seats[r].left
                       /\ folded.seats[r].stack = t.seats[r].stack
                       /\ folded.seats[r].total_bet = t.seats[r].total_bet
  BY <1>2, <1>3 DEF Tallied, Counted
<1>6. Held(t, folded)
  BY <1>5 DEF Held, Bank, IsSeatOccupied
<1>7. TwoBlinds(folded) /\ Holds(t, folded)
  BY <1>2, <1>6 DEF TwoBlinds, Fresh, Lone, Dealing, Asked, Holds
<1>8. /\ PlaysOn(folded, EndWithoutShowdown(folded))
      /\ PlaysOn(folded, AdvanceTurn(folded))
  BY <1>2, <1>4, <1>7, EndWithoutShowdownPlays, AdvanceTurnPlays
<1>9. Tallied(EndWithoutShowdown(folded)) /\ Tallied(AdvanceTurn(folded))
  BY <1>2, <1>4, EndWithoutShowdownStaked, AdvanceTurnCarries DEF Carries
<1>10. PlaysOn(folded, next) /\ DOMAIN next = TableFields
  <2> HIDE DEF next
  <2>1. next \in {EndWithoutShowdown(folded), AdvanceTurn(folded)}
    BY DEF next
  <2> QED
    BY <1>8, <1>9, <2>1 DEF Tallied, Counted
<1> HIDE DEF next, allowed
<1>11. PlaysOn(t, next)
  BY <1>7, <1>10, HoldsTwice DEF PlaysOn
<1> QED
  BY <1>1, <1>10, <1>11, RequirePlays

\* A kick leaves the banks of the others.
LEMMA UnseatedHeld ==
    ASSUME NEW t, Tallied(t), Steady(t), NEW s \in Seats
    PROVE  LET u == Unseated(t, s)
           IN  /\ Fresh(t) => Fresh(u)
               /\ Holds(t, u)
<1> DEFINE seat == t.seats[s]
           marked == [t EXCEPT !.seats[s] = KickedSeat(seat), !.pot = @ + seat.bet]
           unkeyed == IF seat.is_waiting THEN marked ELSE RemovePk(marked, seat.player)
           paid == RefundSui(unkeyed, seat.stack)
           Left(u) == /\ DOMAIN u = TableFields
                      /\ u.seats = [t.seats EXCEPT ![s] = KickedSeat(seat)]
           u == Unseated(t, s)
<1>1. u = DropFromPhases(paid, s)
  BY DEF Unseated
<1> HIDE DEF u
<1>2. Left(marked)
  BY DEF Tallied, Counted, TableFields
<1> HIDE DEF marked
<1>3. Left(unkeyed)
  BY <1>2 DEF RemovePk, TableFields
<1> HIDE DEF unkeyed
<1>4. Left(paid)
  BY <1>3 DEF RefundSui, Require, Abort, TableFields
<1> HIDE DEF paid
<1>5. Left(u)
  BY <1>1, <1>4 DEF DropFromPhases, TableFields
<1>6. u.round = t.round /\ u.betting = t.betting /\ u.shuffle.phase = t.shuffle.phase
  BY UnseatedTallied DEF u
<1>7. KickedSeat(seat).left
  BY DEF KickedSeat, Tallied, Counted, SeatFields
<1>8. /\ \A r \in Seats \ {s} : u.seats[r] = t.seats[r]
      /\ u.seats[s].left
  BY <1>5, <1>7 DEF Tallied, Counted
<1>9. Held(t, u)
  BY <1>8 DEF Held, IsSeatOccupied
<1>10. \A r \in ActiveSeats(u) : r \in ActiveSeats(t) /\ u.seats[r] = t.seats[r]
  BY <1>8 DEF ActiveSeats, OccupiedSeats, IsSeatOccupied
<1>11. Fresh(t) => Fresh(u)
  BY <1>6, <1>10 DEF Fresh, Dealing
<1> QED
  BY <1>6, <1>9, <1>11 DEF Holds, u

\* kick_player_internal: the others keep their banks, or the hand is over.
LEMMA KickPlays ==
    ASSUME NEW t, Staked(t), Opening(t), Steady(t), TwoBlinds(t), NEW s \in Seats
    PROVE  PlaysOn(t, KickPlayerInternal(t, s))
<1> DEFINE gone == Unseated(t, s)
           freed == [gone EXCEPT !.shuffle.current = NoSeat]
           passed == ShufflePassed(gone, s)
           turned == TurnPassed(passed, s)
           u == KickPlayerInternal(t, s)
           Lasting(v, w) == Fresh(w) /\ Holds(v, w)
<1>1. u = Abort(t) \/ u = ResetIfTooFew(turned)
  BY DEF KickPlayerInternal
<1>2. PlaysOn(t, Abort(t))
  <2>1. PlaysOn(t, t)
    BY UnmovedPlays DEF PlaysOn
  <2> QED
    BY <2>1, RequirePlays DEF Staked, Tallied, Counted
<1>3. /\ Tallied(gone) /\ gone.round = t.round /\ gone.betting = t.betting
      /\ gone.shuffle.phase = t.shuffle.phase
  BY UnseatedTallied DEF Staked
<1>4. Steady(gone)
  BY UnseatedSteady
<1>5. Lasting(t, gone)
  BY UnseatedHeld DEF Staked, TwoBlinds
<1> HIDE DEF gone, u
<1>6. /\ DOMAIN freed = TableFields /\ freed.seats = gone.seats
      /\ freed.round = gone.round /\ freed.betting = gone.betting
      /\ freed.button = gone.button /\ freed.turn = gone.turn
      /\ freed.reveal = gone.reveal
      /\ freed.ok = gone.ok /\ freed.shuffle.phase = gone.shuffle.phase
  BY <1>4 DEF Steady, Formed, TableFields
<1>13. Alike(gone, freed)
  <2> DEFINE shuffle == [gone.shuffle EXCEPT !.current = NoSeat]
  <2>1. freed = [gone EXCEPT !.shuffle = shuffle]
    BY <1>4 DEF Steady, Formed, TableFields
  <2>2. DOMAIN shuffle = DOMAIN gone.shuffle /\ shuffle.phase = gone.shuffle.phase
    OBVIOUS
  <2> HIDE DEF shuffle, freed
  <2> QED
    BY <1>4, <2>1, <2>2 DEF Alike, Steady, Formed, TableFields
<1> HIDE DEF freed
<1>7. Tallied(freed) /\ Opening(freed) /\ Lasting(gone, freed)
  <2>1. Tallied(freed)
    BY <1>3, <1>6, SeatsKept, SamePlayTallied DEF Tallied
  <2>2. Opening(freed)
    BY <1>3, <1>6 DEF Opening
  <2>3. Fresh(freed) /\ Holds(gone, freed)
    BY <1>5, <1>6, UnmovedPlays
  <2> QED
    BY <2>1, <2>2, <2>3
<1>8. Tallied(AdvanceShuffle(freed)) /\ Lasting(freed, AdvanceShuffle(freed))
  BY <1>7, AdvanceShufflePlays, AdvanceShuffleCarries DEF Carries
<1>9. Lasting(gone, gone)
  BY <1>5, UnmovedPlays
<1>10. gone.betting.open => AdvanceShuffle(freed) = freed /\ gone.reveal.phase = "none"
  BY <1>4, <1>6 DEF AdvanceShuffle, Steady, Rounded
<1>11. passed = gone \/ passed = AdvanceShuffle(freed)
  BY DEF ShufflePassed, freed
<1> HIDE DEF passed, Lasting
<1>12. /\ Tallied(passed) /\ Lasting(t, passed)
       /\ passed.betting.open => passed.reveal.phase = "none"
  <2>1. CASE passed = gone
    BY <1>3, <1>5, <1>10, <2>1
  <2>2. CASE passed = AdvanceShuffle(freed)
    <3>1. Lasting(t, freed)
      BY <1>5, <1>7, HoldsTwice DEF Lasting
    <3>2. Lasting(t, passed)
      BY <1>8, <2>2, <3>1, HoldsTwice DEF Lasting
    <3>3. CASE gone.betting.open
      BY <1>6, <1>8, <1>10, <2>2, <3>2, <3>3
    <3>4. CASE ~gone.betting.open
      <4>1. Resting(freed)
        BY <1>4, <1>13, <3>4, AlikeSteady DEF Resting
      <4>2. ~AdvanceShuffle(freed).betting.open
        BY <4>1, AdvanceShuffleResting DEF Resting
      <4> QED
        BY <1>8, <2>2, <3>2, <4>2
    <3> QED
      BY <3>3, <3>4
  <2> QED
    BY <1>11, <2>1, <2>2
<1>14. Tallied(turned) /\ Lasting(t, turned)
  <2>1. CASE IsBettingRound(passed)
    <3>1. /\ passed.betting.open /\ passed.round \in Asked
          /\ passed.reveal.phase = "none"
      BY <1>12, <2>1 DEF IsBettingRound, Asked
    <3>2. TwoBlinds(passed) /\ Counted(passed)
      BY <1>12, <3>1 DEF Lasting, TwoBlinds, Lone, Tallied
    <3>3. /\ PlaysOn(passed, EndWithoutShowdown(passed))
          /\ PlaysOn(passed, AdvanceTurn(passed))
          /\ PlaysOn(passed, passed)
      BY <3>1, <3>2, EndWithoutShowdownPlays, AdvanceTurnPlays, UnmovedPlays DEF PlaysOn
    <3>4. Tallied(EndWithoutShowdown(passed)) /\ Tallied(AdvanceTurn(passed))
      BY <1>12, <3>1, EndWithoutShowdownStaked, AdvanceTurnCarries DEF Carries
    <3>5. turned \in {passed, EndWithoutShowdown(passed), AdvanceTurn(passed)}
      BY DEF TurnPassed
    <3> HIDE DEF turned
    <3>6. Tallied(turned) /\ PlaysOn(passed, turned)
      BY <1>12, <3>3, <3>4, <3>5
    <3> QED
      BY <1>12, <3>6, HoldsTwice DEF Lasting, PlaysOn, TwoBlinds
  <2>2. CASE ~IsBettingRound(passed)
    <3>1. turned = passed
      BY <2>2 DEF TurnPassed
    <3> QED
      BY <1>12, <3>1
  <2> QED
    BY <2>1, <2>2
<1> HIDE DEF turned
<1>15. PlaysOn(t, ResetForNextHand(turned))
  BY <1>14, ResetPlays DEF Tallied, Counted
<1>16. CountActivePlayers(turned) >= MinPlayers => PlaysOn(t, turned)
  <2>1. MinPlayers \in Nat \ {0, 1}
    BY TableAssumption
  <2>2. LiveSeats(turned) \subseteq ActiveSeats(turned) /\ IsFiniteSet(ActiveSeats(turned))
    BY LiveAre, ActiveAreSeats, SomeSeatsFinite
  <2>3. /\ Cardinality(LiveSeats(turned)) <= Cardinality(ActiveSeats(turned))
        /\ Cardinality(ActiveSeats(turned)) \in Nat /\ Cardinality(LiveSeats(turned)) \in Nat
    BY <2>2, FS_Subset, FS_CardinalityType
  <2>4. CountActivePlayers(turned) >= MinPlayers => Cardinality(ActiveSeats(turned)) # 1
    BY <2>1, <2>3 DEF CountActivePlayers
  <2> QED
    BY <1>14, <2>4 DEF Lasting, PlaysOn, TwoBlinds, Lone
<1>17. PlaysOn(t, ResetIfTooFew(turned))
  <2>1. CountActivePlayers(turned) \in Nat /\ MinPlayers \in Nat
    BY LiveCount, TableAssumption
  <2> QED
    BY <1>15, <1>16, <2>1 DEF ResetIfTooFew
<1> QED
  BY <1>1, <1>2, <1>17 DEF u

\* Kicking one seat after another.
LEMMA KickAllPlays ==
    ASSUME NEW t, Ready(t), TwoBlinds(t), NEW order, Len(order) \in Nat,
           \A i \in 1 .. Len(order) : order[i] \in Seats
    PROVE  PlaysOn(t, KickAll(t, order))
<1> DEFINE n == Len(order)
<1>1. PICK after : /\ after[0] = t
                   /\ \A i \in 1 .. n : after[i] = KickIfSeated(after[i - 1], order[i])
                   /\ KickAll(t, order) = after[n]
  BY KickAllSteps
<1> DEFINE Right == {k \in 0 .. n : Ready(after[k]) /\ PlaysOn(t, after[k])}
<1>2. \A k \in 0 .. n : k \in Right
  <2>1. 0 \in Right
    <3>1. after[0] = t
      BY <1>1
    <3>2. PlaysOn(t, t)
      BY UnmovedPlays DEF PlaysOn
    <3> QED
      BY <3>1, <3>2
  <2>2. ASSUME NEW k \in 1 .. n, k - 1 \in Right
        PROVE  k \in Right
    <3> DEFINE u == after[k - 1]
               s == order[k]
    <3>1. after[k] = KickIfSeated(u, s) /\ s \in Seats
      BY <1>1
    <3>2. Ready(u) /\ PlaysOn(t, u)
      BY <2>2
    <3> HIDE DEF u, s
    <3>3. Opening(u) /\ Steady(u) /\ Turned(u)
      BY <3>2, GoodOpening, RestingTurned DEF Ready, Resting
    <3>4. Staked(KickPlayerInternal(u, s))
      BY <3>1, <3>2, <3>3, KickStaked DEF Ready
    <3>5. Good(KickPlayerInternal(u, s)) /\ Resting(KickPlayerInternal(u, s))
      BY <3>1, <3>2, <3>3, KickGood, KickTurned DEF Ready
    <3>6. PlaysOn(u, KickPlayerInternal(u, s))
      BY <3>1, <3>2, <3>3, KickPlays DEF Ready, PlaysOn
    <3>7. PlaysOn(t, KickPlayerInternal(u, s))
      BY <3>2, <3>6, HoldsTwice DEF PlaysOn
    <3>8. Ready(KickIfSeated(u, s)) /\ PlaysOn(t, KickIfSeated(u, s))
      BY <3>2, <3>4, <3>5, <3>7 DEF Ready, KickIfSeated
    <3> QED
      BY <3>1, <3>8
  <2> HIDE DEF Right
  <2> QED
    BY <2>1, <2>2, UpTo
<1>3. n \in Right
  BY <1>2
<1> QED
  BY <1>1, <1>3

\* do_start_hand: the players of the new hand have not folded.
LEMMA DoStartHandBlinds ==
    ASSUME NEW t, Staked(t), Steady(t), t.round = "waiting", TwoBlinds(t)
    PROVE  TwoBlinds(DoStartHand(t))
<1> DEFINE next == NextAround(OccupiedSeats(t), t.button)
           pending == PendingSeats(t)
           v == [[MoveButton(t) EXCEPT !.timers.shuffle = FALSE]
                    EXCEPT !.shuffle.pending = pending,
                           !.shuffle.phase = "before_preflop"]
           allowed == t.round = "waiting" /\ CountActiveOccupied(t) >= MinPlayers
           u == AdvanceShuffle(v)
<1>1. ~t.betting.open
  BY DEF Steady, Rounded, Asked
<1>2. OccupiedSeats(t) # {} => next \in Seats
  <2>1. OccupiedSeats(t) \subseteq Seats /\ t.button \in Int
    BY SeatsAreInt DEF OccupiedSeats, Steady
  <2> QED
    BY <2>1, NextAroundMember
<1> HIDE DEF next, pending
<1>3. MoveButton(t) = t \/ (next \in Seats /\ MoveButton(t) = [t EXCEPT !.button = next])
  BY <1>2 DEF MoveButton, next
<1>4. t.button \in Seats /\ DOMAIN t = TableFields /\ Betless(t) /\ Counted(t) /\ Clean(t)
  <2>1. Tallied(t) /\ Dealing(t)
    BY DEF Staked, Dealing
  <2> QED
    BY <2>1 DEF Tallied, Placed, Counted
<1>5. /\ DOMAIN v = TableFields /\ v.seats = t.seats /\ v.betting = t.betting
      /\ v.round = "waiting" /\ v.button \in Seats /\ v.turn = t.turn
      /\ v.reveal = t.reveal
  BY <1>3, <1>4 DEF TableFields
<1>6. DoStartHand(t) = Require(u, allowed)
  BY DEF DoStartHand, pending
<1> HIDE DEF v
<1>7. Counted(v) /\ Betless(v) /\ Clean(v) /\ ~v.betting.open /\ v.turn \in Int
  BY <1>1, <1>4, <1>5 DEF Counted, Betless, Clean, Staked, Tallied, Placed
<1>8. Tallied(v) /\ Opening(v)
  BY <1>5, <1>7, BetlessStaked DEF Rounds, Opening, Staked
<1>9. TwoBlinds(v)
  BY <1>5, UnmovedPlays DEF TwoBlinds
<1>10. Tallied(u) /\ TwoBlinds(u)
  BY <1>8, <1>9, AdvanceShufflePlays, AdvanceShuffleCarries DEF TwoBlinds, Carries
<1> HIDE DEF u
<1>11. PlaysOn(u, u) /\ DOMAIN u = TableFields
  BY <1>10, UnmovedPlays DEF PlaysOn, Tallied, Counted
<1> QED
  BY <1>6, <1>11, RequirePlays DEF PlaysOn

\* All active seats shuffle.
LEMMA ReshufflePlays ==
    ASSUME NEW t, Tallied(t), TwoBlinds(t), NEW phase,
           phase = "before_preflop" =>
              /\ t.shuffle.phase = "before_preflop"
              /\ t.round = "waiting" /\ ~t.betting.open
    PROVE  PlaysOn(t, AdvanceShuffle(ShuffleAmongActive(t, phase)))
<1> DEFINE v == ShuffleAmongActive(t, phase)
<1>1. /\ DOMAIN v = TableFields /\ v.seats = t.seats /\ v.round = t.round
      /\ v.betting = t.betting /\ v.button = t.button /\ v.turn = t.turn
      /\ v.ok = t.ok /\ v.shuffle.phase = phase /\ v.reveal = t.reveal
  BY DEF ShuffleAmongActive, Tallied, Counted, TableFields
<1> HIDE DEF v
<1>2. Tallied(v) /\ Opening(v)
  BY <1>1, SeatsKept, SamePlayTallied DEF Tallied, Opening
<1>3. TwoBlinds(v)
  BY <1>1, UnmovedPlays DEF TwoBlinds
<1>4. Holds(t, v)
  <2>1. Held(t, v)
    BY <1>1 DEF Held
  <2> QED
    BY <1>1, <2>1 DEF Holds
<1>5. PlaysOn(v, AdvanceShuffle(v))
  BY <1>2, <1>3, AdvanceShufflePlays DEF PlaysOn, TwoBlinds
<1> QED
  BY <1>4, <1>5, HoldsTwice DEF PlaysOn, v

\* A step that leaves seats, round, bets and phases alone.
LEMMA ElsewherePlays ==
    ASSUME NEW t, TwoBlinds(t), NEW u, u.seats = t.seats, u.round = t.round,
           u.betting = t.betting, u.reveal = t.reveal, u.shuffle = t.shuffle
    PROVE  PlaysOn(t, u)
BY UnmovedPlays DEF PlaysOn, TwoBlinds

\* rebuild_deck, start_reconstruct, on_complete_reconstruct, and what has been
\* handed in for a reconstruction.
LEMMA ReconstructPlays ==
    ASSUME NEW t, Tallied(t), TwoBlinds(t)
    PROVE  /\ PlaysOn(t, RebuildDeck(t)) /\ PlaysOn(t, StartReconstruct(t))
           /\ PlaysOn(t, OnCompleteReconstruct(t))
           /\ \A r : PlaysOn(t, [t EXCEPT !.reconstruct = r])
<1>1. DOMAIN t = TableFields
  BY DEF Tallied, Counted
<1>2. \A r : PlaysOn(t, [t EXCEPT !.reconstruct = r])
  <2> TAKE r
  <2> DEFINE v == [t EXCEPT !.reconstruct = r]
  <2>1. /\ v.seats = t.seats /\ v.round = t.round
        /\ v.betting = t.betting /\ v.reveal = t.reveal /\ v.shuffle = t.shuffle
    BY <1>1 DEF TableFields
  <2> HIDE DEF v
  <2>2. PlaysOn(t, v)
    BY <2>1, ElsewherePlays
  <2> QED
    BY <2>2 DEF v
<1>3. PlaysOn(t, StartReconstruct(t))
  <2> DEFINE v == StartReconstruct(t)
  <2>1. /\ v.seats = t.seats /\ v.round = t.round
        /\ v.betting = t.betting /\ v.reveal = t.reveal /\ v.shuffle = t.shuffle
    BY <1>1 DEF StartReconstruct, TableFields
  <2> HIDE DEF v
  <2>2. PlaysOn(t, v)
    BY <2>1, ElsewherePlays
  <2> QED
    BY <2>2 DEF v
<1>4. PlaysOn(t, RebuildDeck(t)) /\ Tallied(RebuildDeck(t))
  <2> DEFINE v == RebuildDeck(t)
  <2>1. /\ DOMAIN v = TableFields /\ v.seats = t.seats /\ v.round = t.round
        /\ v.betting = t.betting /\ v.reveal = t.reveal /\ v.shuffle = t.shuffle
        /\ v.button = t.button /\ v.turn = t.turn /\ v.ok = t.ok
    BY <1>1 DEF RebuildDeck, TableFields
  <2> HIDE DEF v
  <2>2. PlaysOn(t, v)
    BY <2>1, ElsewherePlays
  <2>3. Tallied(v)
    BY <2>1, SeatsKept, SamePlayTallied DEF Tallied
  <2> QED
    BY <2>2, <2>3 DEF v
<1>5. PlaysOn(t, OnCompleteReconstruct(t))
  <2> DEFINE u == RebuildDeck(t)
             v == [u EXCEPT !.reconstruct.phase = "none"]
  <2>1. OnCompleteReconstruct(t) = AdvanceShuffle(ShuffleAmongActive(v, "reconstruct"))
    BY DEF OnCompleteReconstruct
  <2>2. PlaysOn(t, u) /\ Tallied(u)
    BY <1>4
  <2> HIDE DEF u
  <2>3. /\ DOMAIN v = TableFields /\ v.seats = u.seats /\ v.round = u.round
        /\ v.betting = u.betting /\ v.button = u.button /\ v.turn = u.turn
        /\ v.ok = u.ok /\ v.reveal = u.reveal /\ v.shuffle = u.shuffle
    BY <2>2 DEF Tallied, Counted, TableFields
  <2> HIDE DEF v
  <2>4. Tallied(v)
    BY <2>2, <2>3, SeatsKept, SamePlayTallied DEF Tallied
  <2>5. PlaysOn(u, v)
    BY <2>2, <2>3, ElsewherePlays DEF PlaysOn
  <2>6. PlaysOn(v, OnCompleteReconstruct(t))
    BY <2>1, <2>4, <2>5, ReshufflePlays DEF PlaysOn
  <2>7. Holds(t, v)
    BY <2>2, <2>5, HoldsTwice DEF PlaysOn
  <2> QED
    BY <2>6, <2>7, HoldsTwice DEF PlaysOn
<1> QED
  BY <1>2, <1>3, <1>4, <1>5

\* What a timeout does after its kicks.
LEMMA AfterKicksPlays ==
    ASSUME NEW t, Tallied(t), TwoBlinds(t), NEW goOn, PlaysOn(t, goOn)
    PROVE  PlaysOn(t, AfterKicks(t, goOn))
<1>1. PlaysOn(t, ResetForNextHand(RefundAllBets(t)))
  BY RefundThenResetPlays DEF Tallied
<1>2. PlaysOn(t, EndWithoutShowdown(t))
  BY EndWithoutShowdownPlays DEF Tallied
<1> QED
  BY <1>1, <1>2 DEF AfterKicks

\* on_reconstruct_timeout
LEMMA OnReconstructTimeoutPlays ==
    ASSUME NEW t, Ready(t), TwoBlinds(t), t.reconstruct.pending \subseteq Seats
    PROVE  PlaysOn(t, OnReconstructTimeout(t))
<1> DEFINE order == Ascending(t.reconstruct.pending)
           u == KickAll(t, order)
           w == AfterReconstructKicks(u)
<1>1. Len(order) \in Nat /\ \A i \in 1 .. Len(order) : order[i] \in Seats
  <2>1. t.reconstruct.pending \in SUBSET Int /\ IsFiniteSet(t.reconstruct.pending)
    BY SomeSeatsFinite, TableAssumption DEF Seats
  <2>2. Len(order) = Cardinality(t.reconstruct.pending) /\ Len(order) \in Nat
    BY <2>1, AscendingLists
  <2> QED
    BY <2>1, <2>2, AscendingMembers
<1>2. OnReconstructTimeout(t) = w
  BY DEF OnReconstructTimeout
<1> HIDE DEF order
<1>3. Tallied(u) /\ PlaysOn(t, u)
  BY <1>1, KickAllStaked, KickAllPlays DEF Ready, Staked
<1> HIDE DEF u
<1>4. TwoBlinds(u) /\ Counted(u)
  BY <1>3 DEF PlaysOn, Tallied
<1>5. /\ PlaysOn(u, ResetForNextHand(RefundAllBets(u)))
      /\ PlaysOn(u, EndWithoutShowdown(u))
      /\ PlaysOn(u, OnCompleteReconstruct(u))
      /\ PlaysOn(u, u)
  BY <1>3, <1>4, RefundThenResetPlays, EndWithoutShowdownPlays, ReconstructPlays, UnmovedPlays
     DEF PlaysOn
<1>6. PlaysOn(u, w)
  BY <1>5 DEF AfterReconstructKicks
<1> HIDE DEF w
<1> QED
  BY <1>2, <1>3, <1>6, HoldsTwice DEF PlaysOn

\* on_reveal_timeout
LEMMA OnRevealTimeoutPlays ==
    ASSUME NEW t, Ready(t), TwoBlinds(t), DOMAIN t.reveal.asg \subseteq Nat
    PROVE  PlaysOn(t, OnRevealTimeout(t))
<1> DEFINE order == RevealDebtors(t)
           u == KickAll(t, order)
           again == ResetForNextHand(RefundAllBets(u))
           w == OnRevealTimeout(t)
<1>1. Len(order) \in Nat /\ \A i \in 1 .. Len(order) : order[i] \in Seats
  BY DebtorsListed
<1>2. \/ w \in {u, AfterKicks(u, again)}
      \/ w = AfterKicks(u, StartReconstruct(u))
  BY DEF OnRevealTimeout, RestartAfterKicks, ReconstructAfterKicks
<1> HIDE DEF order, w
<1>3. Tallied(u) /\ PlaysOn(t, u)
  BY <1>1, KickAllStaked, KickAllPlays DEF Ready, Staked
<1> HIDE DEF u
<1>4. TwoBlinds(u) /\ Counted(u)
  BY <1>3 DEF PlaysOn, Tallied
<1>5. PlaysOn(u, again) /\ PlaysOn(u, StartReconstruct(u)) /\ PlaysOn(u, u)
  BY <1>3, <1>4, RefundThenResetPlays, ReconstructPlays, UnmovedPlays DEF PlaysOn
<1> HIDE DEF again
<1>6. PlaysOn(u, w)
  BY <1>2, <1>3, <1>4, <1>5, AfterKicksPlays
<1>7. PlaysOn(t, w)
  BY <1>3, <1>6, HoldsTwice DEF PlaysOn
<1> QED
  BY <1>7 DEF w

\* on_shuffle_timeout
LEMMA OnShuffleTimeoutPlays ==
    ASSUME NEW t, Ready(t), TwoBlinds(t), t.shuffle.current \in Seats
    PROVE  PlaysOn(t, OnShuffleTimeout(t))
<1> DEFINE s == t.shuffle.current
           u == KickPlayerInternal(t, s)
           decks == u.reconstruct.decks \ {s}
           v == [u EXCEPT !.reconstruct.decks = decks]
           rebuilt == RebuildDeck(v)
           again == AdvanceShuffle(ShuffleAmongActive(u, "before_preflop"))
           anew == AdvanceShuffle(ShuffleAmongActive(rebuilt, "reconstruct"))
           w == OnShuffleTimeout(t)
<1>1. /\ Staked(u) /\ Good(u) /\ u.shuffle.phase \in {t.shuffle.phase, "none"}
      /\ PlaysOn(t, u)
  BY KickStaked, KickGood, KickPlays, GoodOpening DEF Ready, Resting
<1>2. \/ w \in {t, AfterKicks(u, u), AfterKicks(u, anew)}
      \/ /\ t.shuffle.phase = "before_preflop" /\ u.shuffle.phase # "none"
         /\ w = AfterKicks(u, again)
  BY DEF OnShuffleTimeout, ReshuffleAfterKick, RebuildAfterKick
<1> HIDE DEF u, decks, w
<1>3. /\ DOMAIN v = TableFields /\ v.seats = u.seats /\ v.round = u.round
      /\ v.betting = u.betting /\ v.button = u.button /\ v.turn = u.turn
      /\ v.ok = u.ok /\ v.reveal = u.reveal /\ v.shuffle = u.shuffle
  BY <1>1 DEF Staked, Tallied, Counted, TableFields
<1> HIDE DEF v
<1>4. Tallied(v) /\ PlaysOn(u, v)
  BY <1>1, <1>3, SeatsKept, SamePlayTallied, ElsewherePlays DEF Staked, Tallied, PlaysOn
<1>5. Tallied(rebuilt) /\ PlaysOn(v, rebuilt)
  <2> DEFINE r == rebuilt
  <2>1. /\ DOMAIN r = TableFields /\ r.seats = v.seats /\ r.round = v.round
        /\ r.betting = v.betting /\ r.reveal = v.reveal /\ r.shuffle = v.shuffle
        /\ r.button = v.button /\ r.turn = v.turn /\ r.ok = v.ok
    BY <1>3 DEF RebuildDeck, TableFields
  <2> HIDE DEF r
  <2>2. Tallied(r) /\ PlaysOn(v, r)
    BY <1>4, <2>1, SeatsKept, SamePlayTallied, ElsewherePlays DEF Tallied, PlaysOn
  <2> QED
    BY <2>2 DEF r
<1> HIDE DEF rebuilt
<1>6. PlaysOn(rebuilt, anew)
  BY <1>5, ReshufflePlays DEF PlaysOn
<1> HIDE DEF anew
<1>7. PlaysOn(u, anew)
  <2>1. Holds(u, rebuilt)
    BY <1>4, <1>5, HoldsTwice DEF PlaysOn
  <2> QED
    BY <1>6, <2>1, HoldsTwice DEF PlaysOn
<1>8. t.shuffle.phase = "before_preflop" /\ u.shuffle.phase # "none" => PlaysOn(u, again)
  <2>1. u.shuffle.phase = "before_preflop" => u.round = "waiting" /\ ~u.betting.open
    BY <1>1, GoodOpening DEF Opening
  <2> QED
    BY <1>1, <2>1, ReshufflePlays DEF PlaysOn, Staked
<1> HIDE DEF again
<1>9. PlaysOn(u, u) /\ PlaysOn(t, t) /\ TwoBlinds(u) /\ Tallied(u)
  BY <1>1, UnmovedPlays DEF PlaysOn, Staked
<1>10. w = t \/ PlaysOn(u, w)
  BY <1>2, <1>7, <1>8, <1>9, AfterKicksPlays
<1>11. PlaysOn(t, w)
  BY <1>1, <1>9, <1>10, HoldsTwice DEF PlaysOn
<1> QED
  BY <1>11 DEF w

-----------------------------------------------------------------------------
(* Joining, leaving and betting.                                           *)

\* Who plays on keeps what he has.
BanksKept(t, u) ==
    t.round # "waiting" /\ u.round # "waiting" =>
        \A s \in Seats :
            IsSeatOccupied(t.seats[s]) /\ IsSeatOccupied(u.seats[s])
               /\ u.seats[s].player = t.seats[s].player
            => Bank(u.seats[s]) = Bank(t.seats[s])

\* Held banks are kept.
LEMMA HoldsKept ==
    ASSUME NEW t, NEW u, Holds(t, u), Opening(t)
    PROVE  BanksKept(t, u)
BY DEF Holds, Held, BanksKept, Opening

\* A seat is handed over between two hands, or by and to a player who is not in
\* this one.
LEMMA HandedOverPlays ==
    ASSUME NEW t, TwoBlinds(t), DOMAIN t.seats = Seats, NEW s \in Seats, NEW seat,
           ~IsSeatOccupied(t.seats[s]) \/ ~IsSeatOccupied(seat),
           NEW u, u.seats = [t.seats EXCEPT ![s] = seat], u.round = t.round,
           u.betting = t.betting, u.reveal = t.reveal,
           \/ /\ t.round = "waiting" /\ t.reveal.phase # "preflop"
              /\ IsSeatOccupied(seat) => ~seat.folded /\ ~seat.all_in
           \/ s \notin ActiveSeats(t) /\ (~IsSeatOccupied(seat) \/ seat.is_waiting)
    PROVE  TwoBlinds(u) /\ BanksKept(t, u)
<1>1. u.seats[s] = seat /\ \A r \in Seats \ {s} : u.seats[r] = t.seats[r]
  OBVIOUS
<1>2. BanksKept(t, u)
  BY <1>1 DEF BanksKept
<1>3. Dealing(u) <=> Dealing(t)
  BY DEF Dealing
<1>4. CASE /\ t.round = "waiting" /\ t.reveal.phase # "preflop"
           /\ IsSeatOccupied(seat) => ~seat.folded /\ ~seat.all_in
  <2>1. Fresh(u)
    BY <1>1, <1>3, <1>4 DEF Fresh, TwoBlinds, ActiveSeats, OccupiedSeats
  <2> QED
    BY <1>2, <1>4, <2>1 DEF TwoBlinds, Lone
<1>5. CASE s \notin ActiveSeats(t) /\ (~IsSeatOccupied(seat) \/ seat.is_waiting)
  <2>1. ActiveSeats(u) = ActiveSeats(t) /\ ActiveSeats(t) \subseteq Seats \ {s}
    BY <1>1, <1>5 DEF ActiveSeats, OccupiedSeats
  <2>2. Fresh(u)
    BY <1>1, <1>3, <2>1 DEF Fresh, TwoBlinds
  <2>3. Lone(u)
    BY <2>1 DEF Lone, TwoBlinds
  <2> QED
    BY <1>2, <2>2, <2>3 DEF TwoBlinds
<1> QED
  BY <1>4, <1>5

\* join_table and join_and_shuffle
LEMMA JoinPlays ==
    ASSUME NEW p \in Players, NEW s \in Seats, NEW coin, Steady(table), Staked(table),
           TwoBlinds(table), JoinTable(p, s, coin) \/ JoinAndShuffle(p, s, coin)
    PROVE  TwoBlinds(table') /\ BanksKept(table, table')
<1> DEFINE waits == IsPlaying(table)
           stack == coin \div Ratio
           Taken(u, w) ==
               /\ u.seats = [table.seats EXCEPT ![s] = InitSeat(p, stack, w)]
               /\ u.round = table.round /\ u.betting = table.betting
               /\ u.reveal = table.reveal
<1>1. ~IsSeatOccupied(table.seats[s])
  BY DEF JoinTable, JoinAndShuffle, CanSit
<1>2. \E w \in {waits, FALSE} : Taken(table', w) /\ (w \/ table.round = "waiting")
  <2>1. CASE JoinTable(p, s, coin)
    <3>1. Taken(table', waits)
      BY <2>1 DEF JoinTable, Commit, Seated, AddPk, Staked, Tallied, Counted, TableFields
    <3>2. waits \/ table.round = "waiting"
      BY DEF IsPlaying
    <3> QED
      BY <3>1, <3>2
  <2>2. CASE JoinAndShuffle(p, s, coin)
    <3>1. Taken(table', FALSE) /\ table.round = "waiting"
      BY <2>2 DEF JoinAndShuffle, Commit, Seated, AddPk, Staked, Tallied, Counted, TableFields
    <3> QED
      BY <3>1
  <2> QED
    BY <2>1, <2>2
<1>3. PICK w \in {waits, FALSE} : Taken(table', w) /\ (w \/ table.round = "waiting")
  BY <1>2
<1> DEFINE seat == InitSeat(p, stack, w)
<1>4. ~seat.folded /\ ~seat.all_in /\ seat.is_waiting = w
  BY DEF InitSeat, EmptySeat
<1>5. table.round = "waiting" => table.reveal.phase # "preflop"
  BY DEF Steady, Rounded, Asked
<1> DEFINE u == table'
<1>6. Taken(u, w)
  BY <1>3
<1>7. s \notin ActiveSeats(table) /\ DOMAIN table.seats = Seats
  BY <1>1 DEF ActiveSeats, OccupiedSeats, Staked, Tallied, Counted
<1> HIDE DEF seat, u, waits
<1>8. TwoBlinds(u) /\ BanksKept(table, u)
  <2>1. /\ u.seats = [table.seats EXCEPT ![s] = seat]
        /\ u.round = table.round /\ u.betting = table.betting
        /\ u.reveal = table.reveal
    BY <1>6 DEF seat
  <2>2. \/ /\ table.round = "waiting" /\ table.reveal.phase # "preflop"
           /\ IsSeatOccupied(seat) => ~seat.folded /\ ~seat.all_in
        \/ s \notin ActiveSeats(table) /\ (~IsSeatOccupied(seat) \/ seat.is_waiting)
    BY <1>3, <1>4, <1>5, <1>7
  <2> HIDE DEF Taken
  <2> QED
    BY <1>1, <1>7, <2>1, <2>2, HandedOverPlays
<1> QED
  BY <1>8 DEF u

\* leave_with_proof and leave_table
LEMMA LeavePlays ==
    ASSUME NEW s \in Seats, Steady(table), Staked(table), TwoBlinds(table),
           LeaveWithProof(s) \/ LeaveTable(s)
    PROVE  TwoBlinds(table') /\ BanksKept(table, table')
<1> DEFINE unkeyed == RemovePk(table, table.seats[s].player)
           dropped == [unkeyed EXCEPT !.shuffle.pending = @ \ {s},
                                      !.shuffle.completed = @ \ {s}]
           Same(u) == /\ DOMAIN u = TableFields /\ u.seats = table.seats
                      /\ u.round = table.round /\ u.betting = table.betting
                      /\ u.reveal = table.reveal
           Left(u) == /\ u.seats = [table.seats EXCEPT ![s] = EmptySeat]
                      /\ u.round = table.round /\ u.betting = table.betting
                      /\ u.reveal = table.reveal
<1>1. \E u \in {table, unkeyed, dropped} : table' = Departed(u, s)
  BY DEF LeaveWithProof, LeaveTable, Commit
<1>2. table.round = "waiting" \/ s \notin ActiveSeats(table)
  BY DEF LeaveWithProof, LeaveTable, IsPlaying, ActiveSeats
<1>3. Same(table) /\ Same(unkeyed) /\ Same(dropped)
  BY DEF RemovePk, Staked, Tallied, Counted, TableFields
<1> HIDE DEF unkeyed, dropped
<1>4. ASSUME NEW u, Same(u)
      PROVE  Left(Departed(u, s))
  <2> DEFINE paid == RefundSui(u, u.seats[s].stack)
  <2>1. /\ DOMAIN paid = TableFields /\ paid.seats = table.seats
        /\ paid.round = table.round /\ paid.betting = table.betting
        /\ paid.reveal = table.reveal
    BY <1>4 DEF RefundSui, Require, Abort, TableFields
  <2>2. Departed(u, s) = [paid EXCEPT !.seats[s] = EmptySeat]
    BY DEF Departed
  <2> HIDE DEF paid
  <2> QED
    BY <2>1, <2>2 DEF TableFields
<1> DEFINE v == table'
           seat == EmptySeat
<1>5. Left(v)
  BY <1>1, <1>3, <1>4
<1>6. ~IsSeatOccupied(seat)
  BY DEF EmptySeat, IsSeatOccupied
<1>7. /\ table.round = "waiting" => table.reveal.phase # "preflop"
      /\ DOMAIN table.seats = Seats
  BY DEF Steady, Rounded, Asked, Staked, Tallied, Counted
<1>8. v.seats = [table.seats EXCEPT ![s] = seat]
  BY <1>5
<1> HIDE DEF v, seat
<1>9. TwoBlinds(v) /\ BanksKept(table, v)
  BY <1>2, <1>5, <1>6, <1>7, <1>8, HandedOverPlays
<1> QED
  BY <1>9 DEF v

\* While bets are taken, chips go from a stack into a bet.
LEMMA BetsHeld ==
    ASSUME NEW t, t.betting.open, t.round \in Asked, t.reveal.phase = "none",
           NEW u, u.betting.open, u.round = t.round, u.reveal = t.reveal,
           u.shuffle = t.shuffle, \A s \in Seats : /\ u.seats[s].player = t.seats[s].player
                                                   /\ u.seats[s].left = t.seats[s].left
                                                   /\ Bank(u.seats[s]) = Bank(t.seats[s])
    PROVE  PlaysOn(t, u)
<1>1. Held(t, u)
  BY DEF Held, IsSeatOccupied
<1>2. ~Dealing(u) /\ u.reveal.phase # "preflop"
  BY DEF Dealing, Asked
<1> QED
  BY <1>1, <1>2 DEF PlaysOn, TwoBlinds, Fresh, Lone, Holds

\* A seat that puts chips in has what it had.
LEMMA PutInBank ==
    ASSUME NEW seat, DOMAIN seat = SeatFields, seat.stack \in Int, seat.total_bet \in Int,
           NEW amount \in Int
    PROVE  /\ PutIn(seat, amount).player = seat.player
           /\ PutIn(seat, amount).left = seat.left
           /\ Bank(PutIn(seat, amount)) = Bank(seat)
<1> DEFINE paid == PutIn(seat, amount)
<1>1. /\ paid.player = seat.player /\ paid.left = seat.left
      /\ paid.stack = seat.stack - amount /\ paid.total_bet = seat.total_bet + amount
  BY DEF PutIn, SeatFields
<1> HIDE DEF paid
<1>2. Bank(paid) = Bank(seat)
  BY <1>1 DEF Bank
<1> QED
  BY <1>1, <1>2 DEF paid

\* Bets are taken, and no cards are opened meanwhile.
TakingBets(t) == t.betting.open /\ t.round \in Asked /\ t.reveal.phase = "none"

\* Who has acted makes no difference to the banks.
LEMMA ActedPlays ==
    ASSUME NEW t, Counted(t), TakingBets(t), NEW s
    PROVE  /\ PlaysOn(t, Acted(t, s)) /\ TakingBets(Acted(t, s))
           /\ PlaysOn(t, ResetOtherPlayersActed(t, s))
           /\ TakingBets(ResetOtherPlayersActed(t, s))
<1>1. PlaysOn(t, Acted(t, s)) /\ TakingBets(Acted(t, s))
  <2> DEFINE u == Acted(t, s)
  <2>1. /\ u.betting = t.betting /\ u.round = t.round /\ u.reveal = t.reveal
        /\ u.shuffle = t.shuffle
        /\ \A r \in Seats : /\ u.seats[r].player = t.seats[r].player
                            /\ u.seats[r].left = t.seats[r].left
                            /\ u.seats[r].stack = t.seats[r].stack
                            /\ u.seats[r].total_bet = t.seats[r].total_bet
    BY DEF Acted, Counted, TableFields, SeatFields
  <2> HIDE DEF u
  <2>2. PlaysOn(t, u) /\ TakingBets(u)
    BY <2>1, BetsHeld DEF Bank, TakingBets
  <2> QED
    BY <2>2 DEF u
<1>2. PlaysOn(t, ResetOtherPlayersActed(t, s)) /\ TakingBets(ResetOtherPlayersActed(t, s))
  <2> DEFINE u == ResetOtherPlayersActed(t, s)
  <2>1. /\ u.betting = t.betting /\ u.round = t.round /\ u.reveal = t.reveal
        /\ u.shuffle = t.shuffle
        /\ \A r \in Seats : /\ u.seats[r].player = t.seats[r].player
                            /\ u.seats[r].left = t.seats[r].left
                            /\ u.seats[r].stack = t.seats[r].stack
                            /\ u.seats[r].total_bet = t.seats[r].total_bet
    BY DEF ResetOtherPlayersActed, Counted, TableFields, SeatFields
  <2> HIDE DEF u
  <2>2. PlaysOn(t, u) /\ TakingBets(u)
    BY <2>1, BetsHeld DEF Bank, TakingBets
  <2> QED
    BY <2>2 DEF u
<1> QED
  BY <1>1, <1>2

\* fold, auto_fold and force_fold
LEMMA FoldsPlay ==
    ASSUME NEW s \in Seats, Steady(table), Staked(table),
           Fold(s) \/ AutoFold(s) \/ ForceFold(s)
    PROVE  PlaysOn(table, table')
<1>1. /\ table.betting.open /\ table.round \in Asked
      /\ table' = DoFold(table, s)
  BY DEF Fold, AutoFold, ForceFold, OnTurn, Commit, IsBettingRound, Asked
<1>2. table.reveal.phase = "none"
  BY <1>1 DEF Steady, Rounded
<1> QED
  BY <1>1, <1>2, DoFoldPlays DEF Staked

\* After a bet the next player acts, or the street is over.
LEMMA BetThenTurnPlays ==
    ASSUME NEW t, Counted(t), TakingBets(t), NEW s
    PROVE  /\ PlaysOn(t, AdvanceTurn(Acted(t, s)))
           /\ PlaysOn(t, AdvanceTurn(ResetOtherPlayersActed(Acted(t, s), s)))
<1> DEFINE v == Acted(t, s)
           w == ResetOtherPlayersActed(v, s)
<1>1. PlaysOn(t, v) /\ TakingBets(v) /\ Counted(v)
  BY ActedPlays, ActedPlay DEF SamePlay, Counted
<1> HIDE DEF v
<1>2. PlaysOn(v, w) /\ TakingBets(w) /\ Counted(w)
  BY <1>1, ActedPlays, ActedPlay DEF SamePlay, Counted
<1> HIDE DEF w
<1>3. PlaysOn(v, AdvanceTurn(v)) /\ PlaysOn(w, AdvanceTurn(w))
  BY <1>1, <1>2, AdvanceTurnPlays DEF PlaysOn, TakingBets
<1>4. PlaysOn(t, w)
  BY <1>1, <1>2, HoldsTwice DEF PlaysOn
<1>5. PlaysOn(t, AdvanceTurn(v)) /\ PlaysOn(t, AdvanceTurn(w))
  BY <1>1, <1>3, <1>4, HoldsTwice DEF PlaysOn
<1> QED
  BY <1>5 DEF v, w

\* Chips put into a bet are still the player's, until the hand is over.
LEMMA PutInPlays ==
    ASSUME NEW t, Ledger(t), Tallied(t), TakingBets(t), NEW s \in Seats, NEW amount \in Int,
           NEW betting, betting.open, DOMAIN betting = {"open", "current_bet", "min_raise"},
           betting.current_bet \in Int,
           NEW u, DOMAIN u = TableFields,
           u.seats = [t.seats EXCEPT ![s] = PutIn(t.seats[s], amount)],
           u.round = t.round, u.betting = betting, u.reveal = t.reveal,
           u.shuffle = t.shuffle, amount >= 0
    PROVE  PlaysOn(t, u) /\ TakingBets(u) /\ Counted(u)
<1> DEFINE before == t.seats[s]
           seat == PutIn(before, amount)
<1>1. /\ DOMAIN before = SeatFields /\ before.bet \in Nat /\ before.total_bet \in Nat
      /\ before.stack \in Nat /\ DOMAIN t.seats = Seats
  BY DEF Tallied, Counted, Ledger, Booked
<1>2. /\ seat.player = before.player /\ seat.left = before.left
      /\ Bank(seat) = Bank(before)
  BY <1>1, PutInBank
<1>3. DOMAIN seat = SeatFields /\ seat.bet \in Nat /\ seat.total_bet \in Nat
  BY <1>1 DEF PutIn, SeatFields
<1>4. u.seats = [t.seats EXCEPT ![s] = seat]
  OBVIOUS
<1> HIDE DEF seat
<1>5. /\ u.seats[s] = seat /\ \A r \in Seats \ {s} : u.seats[r] = t.seats[r]
      /\ DOMAIN u.seats = Seats
  BY <1>1, <1>4
<1>6. Counted(u)
  BY <1>3, <1>5 DEF Tallied, Counted
<1>7. \A r \in Seats : /\ u.seats[r].player = t.seats[r].player
                       /\ u.seats[r].left = t.seats[r].left
                       /\ Bank(u.seats[r]) = Bank(t.seats[r])
  BY <1>2, <1>5
<1>8. PlaysOn(t, u)
  BY <1>7, BetsHeld DEF TakingBets
<1> QED
  BY <1>6, <1>8 DEF TakingBets

\* check and call
LEMMA CheckCallPlays ==
    ASSUME NEW s \in Seats, Ledger(table), Steady(table), Staked(table), Check(s) \/ Call(s)
    PROVE  PlaysOn(table, table')
<1> DEFINE seat == table.seats[s]
           amount == CallAmount(table.betting, seat)
           paid == PutIn(seat, amount)
           u == [table EXCEPT !.seats[s] = paid]
<1>1. /\ table.betting.open /\ table.round \in Asked
      /\ \/ table' = AdvanceTurn(Acted(table, s))
         \/ CanCall(table.betting, seat.bet) /\ table' = AdvanceTurn(Acted(u, s))
  BY DEF Check, Call, OnTurn, Commit, IsBettingRound, Asked
<1>2. Tallied(table) /\ Counted(table) /\ TakingBets(table)
  BY <1>1 DEF Staked, Tallied, Steady, Rounded, TakingBets
<1>3. /\ seat.bet \in Nat /\ seat.stack \in Nat /\ table.betting.current_bet \in Int
      /\ DOMAIN table.betting = {"open", "current_bet", "min_raise"}
  BY DEF Ledger, Booked
<1>4. ASSUME CanCall(table.betting, seat.bet)
      PROVE  PlaysOn(table, u) /\ TakingBets(u) /\ Counted(u)
  <2>1. amount \in Nat
    BY <1>3, <1>4 DEF CanCall, CallAmount, ChipsToCall
  <2> HIDE DEF amount
  <2>2. /\ DOMAIN u = TableFields /\ u.seats = [table.seats EXCEPT ![s] = paid]
        /\ u.round = table.round /\ u.betting = table.betting
        /\ u.reveal = table.reveal /\ u.shuffle = table.shuffle
    BY <1>2 DEF Counted, TableFields
  <2> HIDE DEF u
  <2> QED
    BY <1>1, <1>2, <1>3, <2>1, <2>2, PutInPlays
<1> HIDE DEF u
<1>5. PlaysOn(table, AdvanceTurn(Acted(table, s)))
  BY <1>2, BetThenTurnPlays
<1>6. CanCall(table.betting, seat.bet) => PlaysOn(table, AdvanceTurn(Acted(u, s)))
  BY <1>4, BetThenTurnPlays, HoldsTwice DEF PlaysOn
<1> QED
  BY <1>1, <1>5, <1>6

\* raise
LEMMA RaisePlays ==
    ASSUME NEW s \in Seats, NEW total \in Int, Ledger(table), Steady(table), Staked(table),
           Raise(s, total)
    PROVE  PlaysOn(table, table')
<1> DEFINE seat == table.seats[s]
           amount == total - seat.bet
           betting == RaisedRound(table.betting, total)
           paid == PutIn(seat, amount)
           u == [table EXCEPT !.betting = betting, !.seats[s] = paid]
           w == AdvanceTurn(ResetOtherPlayersActed(Acted(u, s), s))
<1>1. /\ table.betting.open /\ table.round \in Asked
      /\ CanRaiseTo(table.betting, seat, total) /\ table' = w
  BY DEF Raise, OnTurn, Commit, IsBettingRound, Asked
<1>2. Tallied(table) /\ Counted(table) /\ TakingBets(table)
  BY <1>1 DEF Staked, Tallied, Steady, Rounded, TakingBets
<1>3. /\ seat.bet \in Nat /\ seat.stack \in Nat /\ table.betting.current_bet \in Int
      /\ DOMAIN table.betting = {"open", "current_bet", "min_raise"}
  BY DEF Ledger, Booked
<1>4. amount \in Int /\ amount >= 0
  BY <1>1, <1>3 DEF CanRaiseTo
<1>5. /\ betting.open /\ DOMAIN betting = {"open", "current_bet", "min_raise"}
      /\ betting.current_bet \in Int
  BY <1>1, <1>3 DEF RaisedRound
<1> HIDE DEF amount, betting
<1>6. /\ DOMAIN u = TableFields /\ u.seats = [table.seats EXCEPT ![s] = paid]
      /\ u.round = table.round /\ u.betting = betting
      /\ u.reveal = table.reveal /\ u.shuffle = table.shuffle
  BY <1>2 DEF Counted, TableFields
<1> HIDE DEF u
<1>7. PlaysOn(table, u) /\ TakingBets(u) /\ Counted(u)
  <2> HIDE DEF w
  <2> QED
    BY <1>2, <1>4, <1>5, <1>6, PutInPlays
<1>8. PlaysOn(u, w)
  BY <1>7, BetThenTurnPlays
<1> HIDE DEF w
<1> QED
  BY <1>1, <1>7, <1>8, HoldsTwice DEF PlaysOn

-----------------------------------------------------------------------------
(* The card protocol and the tick.                                         *)

\* submit_shuffle
LEMMA SubmitShufflePlays ==
    ASSUME NEW s \in Seats, Good(table), Staked(table), TwoBlinds(table), SubmitShuffle(s)
    PROVE  PlaysOn(table, table')
<1> DEFINE u == [table EXCEPT !.shuffle.completed = @ \cup {s},
                              !.shuffle.pending = @ \ {s}]
<1>1. table' = AdvanceShuffle(u)
  BY DEF SubmitShuffle, Commit
<1>2. /\ DOMAIN u = TableFields /\ u.seats = table.seats /\ u.round = table.round
      /\ u.betting = table.betting /\ u.button = table.button /\ u.turn = table.turn
      /\ u.ok = table.ok /\ u.shuffle.phase = table.shuffle.phase
      /\ u.reveal = table.reveal
  BY DEF Staked, Tallied, Counted, Good, Sound, Shaped, TableFields
<1> HIDE DEF u
<1>3. Tallied(u) /\ Opening(u)
  BY <1>2, SeatsKept, SamePlayTallied, GoodOpening DEF Staked, Tallied, Opening
<1>4. PlaysOn(table, u)
  BY <1>2, UnmovedPlays DEF PlaysOn, TwoBlinds
<1>5. PlaysOn(u, AdvanceShuffle(u))
  BY <1>3, <1>4, AdvanceShufflePlays DEF PlaysOn, TwoBlinds
<1>6. PlaysOn(table, AdvanceShuffle(u))
  BY <1>4, <1>5, HoldsTwice DEF PlaysOn
<1> QED
  BY <1>1, <1>6

\* submit_reconstruct_deck
LEMMA SubmitReconstructDeckPlays ==
    ASSUME NEW s \in Seats, Steady(table), Staked(table), TwoBlinds(table),
           SubmitReconstructDeck(s)
    PROVE  PlaysOn(table, table')
<1> DEFINE r == [table.reconstruct EXCEPT !.pending = @ \ {s}, !.decks = @ \cup {s}]
           u == [table EXCEPT !.reconstruct = r]
           v == [table EXCEPT !.reconstruct.pending = @ \ {s},
                              !.reconstruct.decks = @ \cup {s}]
<1>1. v = u
  BY DEF Steady, Formed, TableFields
<1>2. table' = v \/ table' = OnCompleteReconstruct(v)
  BY DEF SubmitReconstructDeck, Commit
<1> HIDE DEF r, v
<1>3. Tallied(u) /\ PlaysOn(table, u)
  BY ReconstructStaked, ReconstructPlays DEF Staked
<1> HIDE DEF u
<1>4. PlaysOn(u, OnCompleteReconstruct(u))
  BY <1>3, ReconstructPlays DEF PlaysOn
<1>5. PlaysOn(table, OnCompleteReconstruct(u))
  BY <1>3, <1>4, HoldsTwice DEF PlaysOn
<1> QED
  BY <1>1, <1>2, <1>3, <1>5

\* submit_player_reveal_tokens: a card that waits for nobody is not touched.
LEMMA SubmitRevealTokensPlays ==
    ASSUME NEW s \in Seats, NEW S, NEW blank, NEW ranks, Turned(table), Ledger(table),
           Staked(table), TwoBlinds(table), SubmitRevealTokens(s, S, blank, ranks)
    PROVE  PlaysOn(table, table')
<1> DEFINE done == {a \in S : table.reveal.asg[a].pending = {s}}
           taken == TokensTaken(table, s, S)
           opened == TokensOpened(s, S, blank)
           phase == table.reveal.phase
           Same(v) == /\ DOMAIN v = TableFields /\ v.seats = table.seats
                      /\ v.round = table.round /\ v.betting = table.betting
                      /\ v.button = table.button /\ v.turn = table.turn
                      /\ v.shuffle = table.shuffle /\ v.reveal.phase = phase
                      /\ DOMAIN v.reveal = {"phase", "asg"}
                      /\ (v.ok => table.ok)
<1>1. table' = CheckRevealPhaseComplete(opened, ranks)
  BY DEF SubmitRevealTokens, Commit, TokensOpened
<1>2. Steady(opened)
  BY TokensOpenedResting DEF Resting
<1>3. Same(taken)
  BY DEF TokensTaken, Turned, Steady, Formed, TableFields
<1>4. \/ phase = "preflop" /\ opened = HoleCardsOpened(taken, done)
      \/ phase # "preflop" /\ opened = HoleCardsShown(taken, done)
      \/ phase # "preflop" /\ opened = CommunityOpened(taken, done, blank)
  BY DEF TokensOpened
<1>5. phase = "preflop" => Lone(taken)
  <2>1. \A a \in DOMAIN table.reveal.asg : table.reveal.asg[a].pending = {} =>
           /\ a \in DOMAIN taken.reveal.asg
           /\ taken.reveal.asg[a] = table.reveal.asg[a]
    <3>1. S \subseteq OwedBy(table, s)
      BY DEF SubmitRevealTokens
    <3>2. taken.reveal.asg = [a \in DOMAIN table.reveal.asg |->
              IF a \notin S THEN table.reveal.asg[a]
              ELSE [table.reveal.asg[a] EXCEPT !.pending = @ \ {s},
                        !.decrypted = table.reveal.asg[a].pending = {s}]]
      BY DEF TokensTaken, Turned, Steady, Formed, TableFields
    <3>3. \A a \in S : table.reveal.asg[a].pending # {}
      BY <3>1 DEF OwedBy
    <3> HIDE DEF taken
    <3> QED
      BY <3>2, <3>3
  <2>2. ActiveSeats(taken) = ActiveSeats(table)
    BY <1>3 DEF ActiveSeats, OccupiedSeats
  <2> HIDE DEF taken
  <2> QED
    BY <1>3, <2>1, <2>2 DEF TwoBlinds, Lone
<1> HIDE DEF taken, opened, done
<1>6. Same(HoleCardsOpened(taken, done)) /\ Same(HoleCardsShown(taken, done))
  BY <1>3 DEF HoleCardsOpened, HoleCardsShown, TableFields
<1>7. Same(CommunityOpened(taken, done, blank))
  <2> DEFINE n == Cardinality(blank)
             dealt == [taken EXCEPT !.ready = @ + Cardinality(done \ blank),
                                    !.blanks = @ - n]
  <2>1. Same(dealt)
    BY <1>3 DEF TableFields
  <2>2. \/ CommunityOpened(taken, done, blank) = dealt
        \/ \E asg, cond :
              CommunityOpened(taken, done, blank)
                 = Require([dealt EXCEPT !.dealt = @ + n, !.reveal.asg = asg], cond)
    BY DEF CommunityOpened
  <2> HIDE DEF dealt, n
  <2>3. \A asg : Same([dealt EXCEPT !.dealt = @ + n, !.reveal.asg = asg])
    BY <2>1 DEF TableFields
  <2>4. \A v, cond : Same(v) => Same(Require(v, cond))
    BY DEF Require, Abort, TableFields
  <2> HIDE DEF Same
  <2> QED
    BY <2>1, <2>2, <2>3, <2>4
<1>8. Same(opened)
  BY <1>4, <1>6, <1>7
<1>9. Staked(opened) /\ \A r \in Seats : opened.seats[r].stack \in Nat
  <2>1. SamePlay(table, opened)
    BY <1>8, SeatsKept DEF Staked, Tallied
  <2> QED
    BY <1>8, <2>1, SamePlayTallied DEF Ledger, Booked
<1>10. phase = "preflop" => Lone(opened)
  <2> DEFINE v == HoleCardsOpened(taken, done)
  <2>1. v.reveal = taken.reveal /\ v.seats = taken.seats
    BY <1>3 DEF HoleCardsOpened, TableFields
  <2> HIDE DEF v
  <2>2. phase = "preflop" => Lone(v)
    BY <1>5, <2>1 DEF Lone, ActiveSeats, OccupiedSeats
  <2> QED
    BY <1>4, <2>2 DEF v
<1>11. PlaysOn(table, opened)
  <2>1. Fresh(opened) /\ Holds(table, opened)
    BY <1>8, UnmovedPlays DEF TwoBlinds
  <2>2. Lone(opened)
    BY <1>8, <1>10 DEF Lone
  <2> QED
    BY <2>1, <2>2 DEF PlaysOn, TwoBlinds
<1>12. PlaysOn(opened, CheckRevealPhaseComplete(opened, ranks))
  BY <1>2, <1>9, <1>11, CheckRevealPlays DEF PlaysOn
<1>13. PlaysOn(table, CheckRevealPhaseComplete(opened, ranks))
  BY <1>11, <1>12, HoldsTwice DEF PlaysOn
<1> QED
  BY <1>1, <1>13

\* A started timer leaves the play as it is.
LEMMA TimersPlay ==
    ASSUME NEW t, TwoBlinds(t), DOMAIN t = TableFields, NEW timers
    PROVE  PlaysOn(t, [t EXCEPT !.timers = timers])
<1> DEFINE u == [t EXCEPT !.timers = timers]
<1>1. /\ u.seats = t.seats /\ u.round = t.round
      /\ u.betting = t.betting /\ u.reveal = t.reveal /\ u.shuffle = t.shuffle
  BY DEF TableFields
<1> HIDE DEF u
<1>2. PlaysOn(t, u)
  BY <1>1, ElsewherePlays
<1> QED
  BY <1>2 DEF u

\* tick, while cards are shuffled
LEMMA TickShufflePlays ==
    ASSUME NEW t, Good(t), Turned(t), Staked(t), TwoBlinds(t), t.shuffle.phase # "none",
           NEW expired
    PROVE  PlaysOn(t, TickShuffle(t, expired))
<1> DEFINE timers == [t.timers EXCEPT !.shuffle = TRUE]
<1>1. \/ TickShuffle(t, expired) = AdvanceShuffle(t)
      \/ TickShuffle(t, expired) = OnShuffleTimeout(t)
      \/ TickShuffle(t, expired) = [t EXCEPT !.timers = timers]
  BY DEF TickShuffle, Turned, Steady, Formed, TableFields
<1> HIDE DEF timers
<1>2. Ready(t)
  BY DEF Ready, Turned, Resting, Steady, Formed, Rounded
<1>3. t.shuffle.current \in Seats
  BY ActiveAreSeats DEF Good, Sound, Covers, Led
<1>4. PlaysOn(t, AdvanceShuffle(t))
  BY GoodOpening, AdvanceShufflePlays DEF Staked, TwoBlinds, PlaysOn
<1>5. PlaysOn(t, [t EXCEPT !.timers = timers])
  BY TimersPlay DEF Turned, Steady, Formed
<1> QED
  BY <1>1, <1>2, <1>3, <1>4, <1>5, OnShuffleTimeoutPlays

\* tick, while cards are opened: the phase may be complete, and the next one
\* may be timed out at once.
LEMMA TickRevealPlays ==
    ASSUME NEW t, Good(t), Turned(t), Staked(t), Calm(t), TwoBlinds(t),
           \A s \in Seats : t.seats[s].stack \in Nat, NEW expired, NEW ranks
    PROVE  PlaysOn(t, TickReveal(t, expired, ranks))
<1> DEFINE u == Answered(t, ranks)
           timers == [u.timers EXCEPT !.reveal = TRUE]
           w == TickReveal(t, expired, ranks)
<1>1. Turned(u)
  BY CheckRevealTurned DEF Answered, Good, Sound
<1>2. Good(u)
  BY AnsweredOnward DEF Onward
<1>3. Staked(u)
  BY CheckRevealStaked DEF Answered, Turned
<1>4. PlaysOn(t, u)
  BY CheckRevealPlays, UnmovedPlays DEF Answered, Turned, PlaysOn
<1> HIDE DEF u
<1>5. \/ w = u
      \/ /\ u.reveal.phase # "none"
         /\ \/ w = OnRevealTimeout(u)
            \/ w = [u EXCEPT !.timers = timers]
  BY <1>1 DEF TickReveal, RevealTimed, u, Turned, Steady, Formed, TableFields
<1> HIDE DEF timers, w
<1>6. ASSUME u.reveal.phase # "none"
      PROVE  Ready(u) /\ DOMAIN u.reveal.asg \subseteq Nat
  BY <1>1, <1>2, <1>3, <1>6
     DEF Ready, Turned, Resting, Steady, Rounded, Good, Sound, Asking
<1>7. u.reveal.phase # "none" => PlaysOn(u, OnRevealTimeout(u))
  BY <1>4, <1>6, OnRevealTimeoutPlays DEF PlaysOn
<1>8. PlaysOn(u, [u EXCEPT !.timers = timers])
  BY <1>1, <1>4, TimersPlay DEF Turned, Steady, Formed, PlaysOn
<1>9. w = u \/ PlaysOn(u, w)
  BY <1>5, <1>7, <1>8
<1>10. PlaysOn(t, w)
  BY <1>4, <1>9, HoldsTwice DEF PlaysOn
<1> QED
  BY <1>10 DEF w

\* tick, while bets are taken: somebody is on turn.
LEMMA TickBettingPlays ==
    ASSUME NEW t, t.ok, Steady(t), Staked(t), TwoBlinds(t), IsBettingRound(t), NEW expired
    PROVE  PlaysOn(t, TickBetting(t, expired))
<1> DEFINE timers == [t.timers EXCEPT !.betting = TRUE]
<1>1. /\ t.betting.open /\ t.round \in Asked /\ t.turn \in Seats
      /\ t.reveal.phase = "none"
  BY DEF IsBettingRound, Asked, Staked, Tallied, Placed, Steady, Rounded
<1>2. t.turn # NoSeat
  BY <1>1, TableAssumption DEF Seats, NoSeat
<1>3. \/ TickBetting(t, expired) = DoFold(t, t.turn)
      \/ TickBetting(t, expired) = [t EXCEPT !.timers = timers]
  BY <1>2 DEF TickBetting, Staked, Tallied, Counted, TableFields
<1> HIDE DEF timers
<1>4. PlaysOn(t, DoFold(t, t.turn))
  BY <1>1, DoFoldPlays DEF Staked
<1>5. PlaysOn(t, [t EXCEPT !.timers = timers])
  BY TimersPlay DEF Steady, Formed
<1> QED
  BY <1>3, <1>4, <1>5

\* tick, while the hands are shown
LEMMA TickShowdownPlays ==
    ASSUME NEW t, Staked(t), TwoBlinds(t), NEW expired, NEW ranks
    PROVE  PlaysOn(t, TickShowdown(t, expired, ranks))
<1> DEFINE timers == [t.timers EXCEPT !.showdown = TRUE]
           u == [t EXCEPT !.timers = timers]
<1>1. TickShowdown(t, expired, ranks) \in {SettleHand(u, ranks), u}
  BY DEF TickShowdown, Staked, Tallied, Counted, TableFields
<1> HIDE DEF timers
<1>2. PlaysOn(t, u) /\ Staked(u)
  BY TimersPlay, TimersStaked DEF Staked, Tallied, Counted
<1> HIDE DEF u
<1>3. PlaysOn(t, SettleHand(u, ranks))
  BY <1>2, SettleHandPlays DEF Staked, Tallied
<1> QED
  BY <1>1, <1>2, <1>3

\* tick, in whatever phase the table is
LEMMA TickedPlays ==
    ASSUME NEW t, t.ok, Good(t), Turned(t), Ledger(t), Staked(t), TwoBlinds(t),
           NEW expired, NEW ranks
    PROVE  /\ TwoBlinds(Ticked(t, expired, ranks))
           /\ BanksKept(t, Ticked(t, expired, ranks))
<1> DEFINE u == Ticked(t, expired, ranks)
<1> SUFFICES TwoBlinds(u) /\ BanksKept(t, u)
  OBVIOUS
<1>1. PlaysOn(t, u) => TwoBlinds(u) /\ BanksKept(t, u)
  BY GoodOpening, HoldsKept DEF PlaysOn
<1>2. CASE t.reconstruct.phase # "none"
  <2>1. u = TickReconstruct(t, expired)
    BY <1>2 DEF Ticked, IsPlaying
  <2>2. Ready(t) /\ t.reconstruct.pending \subseteq Seats
    BY <1>2 DEF Ready, Turned, Resting, Steady, Rounded, Good, Sound, Shaped
  <2>3. PlaysOn(t, OnReconstructTimeout(t)) /\ PlaysOn(t, t)
    BY <2>2, OnReconstructTimeoutPlays, UnmovedPlays DEF PlaysOn
  <2> HIDE DEF u
  <2> QED
    BY <1>1, <2>1, <2>3 DEF TickReconstruct
<1>3. CASE t.reconstruct.phase = "none" /\ t.shuffle.phase # "none"
  <2>1. u = TickShuffle(t, expired)
    BY <1>3 DEF Ticked, IsPlaying
  <2> HIDE DEF u
  <2> QED
    BY <1>1, <1>3, <2>1, TickShufflePlays
<1>4. CASE /\ t.reconstruct.phase = "none" /\ t.shuffle.phase = "none"
           /\ t.reveal.phase # "none"
  <2>1. u = TickReveal(t, expired, ranks)
    BY <1>4 DEF Ticked, IsPlaying
  <2>2. Calm(t) /\ \A s \in Seats : t.seats[s].stack \in Nat
    BY <1>4 DEF Calm, Ledger, Booked
  <2> HIDE DEF u
  <2> QED
    BY <1>1, <2>1, <2>2, TickRevealPlays
<1>5. CASE Still(t)
  <2>1. CASE ~IsPlaying(t)
    <3>1. u = TickWaiting(t)
      BY <1>5, <2>1 DEF Ticked, Still
    <3>2. t.round = "waiting" /\ Steady(t)
      BY <2>1 DEF IsPlaying, Turned
    <3> HIDE DEF u
    <3> QED
      BY <3>1, <3>2, DoStartHandBlinds DEF TickWaiting, BanksKept
  <2>2. CASE IsPlaying(t) /\ IsBettingRound(t)
    <3>1. u = TickBetting(t, expired)
      BY <1>5, <2>2 DEF Ticked, Still
    <3> HIDE DEF u
    <3> QED
      BY <1>1, <2>2, <3>1, TickBettingPlays DEF Turned
  <2>3. CASE IsPlaying(t) /\ ~IsBettingRound(t) /\ t.round = "showdown"
    <3>1. u = TickShowdown(t, expired, ranks)
      BY <1>5, <2>3 DEF Ticked, Still
    <3> HIDE DEF u
    <3> QED
      BY <1>1, <3>1, TickShowdownPlays
  <2>4. CASE IsPlaying(t) /\ ~IsBettingRound(t) /\ t.round # "showdown"
    <3>1. u = ResetForNextHand(RefundAllBets(t))
      BY <1>5, <2>4 DEF Ticked, Still
    <3>2. PlaysOn(t, ResetForNextHand(RefundAllBets(t)))
      BY RefundThenResetPlays DEF Staked, Tallied
    <3> HIDE DEF u
    <3> QED
      BY <1>1, <3>1, <3>2
  <2> QED
    BY <2>1, <2>2, <2>3, <2>4
<1> QED
  BY <1>2, <1>3, <1>4, <1>5 DEF Still

-----------------------------------------------------------------------------
(* The banks of the players.                                               *)

\* Every entry point keeps the banks of those who play on.
LEMMA NextPlays ==
    ASSUME table.ok, Good(table), Turned(table), Ledger(table), Staked(table),
           TwoBlinds(table), Next
    PROVE  TwoBlinds(table') /\ BanksKept(table, table')
<1>0. Steady(table) /\ Opening(table)
  BY GoodOpening DEF Turned
<1>1. PlaysOn(table, table') => TwoBlinds(table') /\ BanksKept(table, table')
  BY <1>0, HoldsKept DEF PlaysOn
<1>2. CASE Join
  BY <1>0, <1>2, JoinPlays DEF Join
<1>3. CASE Leave
  BY <1>0, <1>3, LeavePlays DEF Leave
<1>4. CASE StartHand
  <2>1. table' = DoStartHand(table) /\ table.round = "waiting"
    BY <1>0, <1>4, StartHandAllowed DEF Steady, Formed
  <2> QED
    BY <1>0, <2>1, DoStartHandBlinds DEF BanksKept
<1>5. CASE Protocol
  BY <1>0, <1>1, <1>5, SubmitShufflePlays, SubmitRevealTokensPlays,
     SubmitReconstructDeckPlays DEF Protocol
<1>6. CASE Bet
  <2>1. PICK s \in Seats : \/ Fold(s) \/ Check(s) \/ Call(s) \/ AutoFold(s)
                           \/ \E total \in 1 .. table.seats[s].bet + table.seats[s].stack :
                                 Raise(s, total)
    BY <1>6 DEF Bet
  <2>2. table.seats[s].bet + table.seats[s].stack \in Int
    BY <2>1 DEF Ledger, Booked
  <2> QED
    BY <1>0, <1>1, <2>1, <2>2, FoldsPlay, CheckCallPlays, RaisePlays
<1>7. CASE Relay
  <2>1. PICK expired \in MayExpire(TimerAwaited(table)), ranks \in Outcomes :
           table' = Ticked(table, expired, ranks)
    BY <1>7 DEF Relay, Tick, Commit
  <2> QED
    BY <2>1, TickedPlays
<1>8. CASE Admin
  <2>1. PICK s \in Seats : ForceFold(s) \/ KickPlayer(s)
    BY <1>8 DEF Admin
  <2>2. CASE ForceFold(s)
    BY <1>0, <1>1, <2>2, FoldsPlay
  <2>3. CASE KickPlayer(s)
    BY <1>0, <1>1, <2>3, KickPlays DEF KickPlayer, Commit
  <2> QED
    BY <2>1, <2>2, <2>3
<1> QED
  BY <1>2, <1>3, <1>4, <1>5, <1>6, <1>7, <1>8 DEF Next

\* Whoever takes part in a deal is there for the blinds, and never alone.
BlindsInv == TwoBlinds(table)

\* The blinds are posted by two players, along every sequence of transactions.
THEOREM BlindsArePosted == Spec => []BlindsInv
<1>1. Init => BlindsInv
  <2> DEFINE u == NewTable
  <2>1. /\ u.reveal.phase = "none"
        /\ \A s \in Seats : ~u.seats[s].folded /\ ~u.seats[s].all_in
    BY DEF NewTable, EmptySeat, EmptyReveal
  <2>2. ActiveSeats(u) \subseteq Seats
    BY ActiveAreSeats
  <2> HIDE DEF u
  <2>3. TwoBlinds(u)
    BY <2>1, <2>2 DEF TwoBlinds, Fresh, Lone
  <2> QED
    BY <2>3 DEF Init, BlindsInv, u
<1>2. BlindsInv /\ CardsInv /\ HandsInv /\ BooksInv /\ IInv /\ [Next]_vars => BlindsInv'
  <2> SUFFICES ASSUME BlindsInv, CardsInv, HandsInv, BooksInv, IInv, [Next]_vars
               PROVE  BlindsInv'
    OBVIOUS
  <2>1. CASE Next
    BY <2>1, NextPlays DEF BlindsInv, CardsInv, BoardInv, TurnInv, HandsInv, BooksInv, IInv
  <2>2. CASE UNCHANGED vars
    BY <2>2 DEF vars, BlindsInv
  <2> QED
    BY <2>1, <2>2
<1> QED
  BY <1>1, <1>2, PhasesAreSound, BooksInOrder, BetsAreLevel, CardsInOrder, PTL DEF Spec

\* While a hand goes on, a player who stays has what he had, in his stack or in
\* the pot: no kick, fold, timeout or tick takes chips from one and gives them to
\* another before the hand is paid.
THEOREM BankrollsAreKept == Spec => BankrollKept
<1>1. BlindsInv /\ CardsInv /\ HandsInv /\ BooksInv /\ IInv /\ [Next]_vars
        => [HandGoesOn => \A s \in Seats : SamePlayer(s) =>
              table'.seats[s].stack + table'.seats[s].total_bet
                 = table.seats[s].stack + table.seats[s].total_bet]_vars
  <2> SUFFICES ASSUME BlindsInv, CardsInv, HandsInv, BooksInv, IInv, Next, HandGoesOn,
                      NEW s \in Seats, SamePlayer(s)
               PROVE  table'.seats[s].stack + table'.seats[s].total_bet
                         = table.seats[s].stack + table.seats[s].total_bet
    BY DEF vars
  <2>1. BanksKept(table, table')
    BY NextPlays DEF BlindsInv, CardsInv, BoardInv, TurnInv, HandsInv, BooksInv, IInv
  <2>2. /\ IsSeatOccupied(table.seats[s]) /\ IsSeatOccupied(table'.seats[s])
        /\ table'.seats[s].player = table.seats[s].player
    BY DEF SamePlayer, OccupiedSeats
  <2> QED
    BY <2>1, <2>2 DEF HandGoesOn, BanksKept, Bank
<1> QED
  BY <1>1, BlindsArePosted, PhasesAreSound, BooksInOrder, BetsAreLevel, CardsInOrder, PTL
     DEF Spec, BankrollKept

=============================================================================
