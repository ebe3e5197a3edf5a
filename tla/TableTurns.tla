----------------------------- MODULE TableTurns -----------------------------
(***************************************************************************)
(* Whose turn it is: after the flop the player on turn can always act,     *)
(* whoever folds, goes all-in, is kicked or times out.  What is on the     *)
(* board: the cards of the street, however a reveal was cut short.  And    *)
(* who is asked to open a card: active seats, and nobody its own hole card *)
(* before the showdown.                                                    *)
(***************************************************************************)
EXTENDS Table_proofs

\* A table has the fields the betting and the phases are kept in.
Formed(t) ==
    /\ DOMAIN t = TableFields
    /\ DOMAIN t.seats = Seats
    /\ \A s \in Seats : DOMAIN t.seats[s] = SeatFields
    /\ DOMAIN t.betting = {"open", "current_bet", "min_raise"}
    /\ DOMAIN t.shuffle = {"phase", "current", "pending", "completed"}
    /\ DOMAIN t.reveal = {"phase", "asg"}
    /\ DOMAIN t.reconstruct = {"phase", "pending", "decks"}

\* The phase of a reveal is the round it belongs to, and betting is open in a
\* betting round, with no phase of the card protocol.
Rounded(t) ==
    /\ t.reveal.phase \in Asked => t.round = t.reveal.phase
    /\ t.betting.open => /\ t.round \in Asked
                         /\ t.shuffle.phase = "none"
                         /\ t.reveal.phase = "none"
                         /\ t.reconstruct.phase = "none"

Steady(t) == Formed(t) /\ Rounded(t) /\ t.turn \in Int /\ t.button \in Int

\* No bets are taken.
Resting(t) == Steady(t) /\ ~t.betting.open

\* After the flop the player on turn can act.
Turned(t) ==
    /\ Steady(t)
    /\ t.ok /\ t.betting.open /\ t.round # "preflop" => t.turn \in ActionableSeats(t)

\* u is in the same phase as t, with the same player on turn.
Alike(t, u) ==
    /\ Formed(u)
    /\ u.turn = t.turn /\ u.button = t.button /\ u.round = t.round
    /\ u.betting.open = t.betting.open
    /\ u.shuffle.phase = t.shuffle.phase
    /\ u.reveal.phase = t.reveal.phase
    /\ u.reconstruct.phase = t.reconstruct.phase

\* The same phase keeps a table steady.
LEMMA AlikeSteady ==
    ASSUME NEW t, NEW u, Steady(t), Alike(t, u)
    PROVE  Steady(u) /\ (Resting(t) => Resting(u))
BY DEF Steady, Resting, Alike, Rounded

\* Without bets there is nobody on turn who could not act.
LEMMA RestingTurned ==
    ASSUME NEW t, Resting(t)
    PROVE  Turned(t)
BY DEF Resting, Turned

\* A failed assert leaves the phase as it is.
LEMMA AbortTurned ==
    ASSUME NEW t, Steady(t)
    PROVE  /\ Turned(Abort(t))
           /\ Resting(t) => Resting(Abort(t))
           /\ Formed(Abort(t)) /\ ~Abort(t).ok
<1>1. Alike(t, Abort(t)) /\ ~Abort(t).ok
  BY DEF Alike, Abort, Steady, Formed, TableFields
<1> QED
  BY <1>1, AlikeSteady DEF Turned, Alike

\* assert! keeps the turn where it is.
LEMMA RequireTurned ==
    ASSUME NEW t, Turned(t), NEW cond
    PROVE  /\ Turned(Require(t, cond))
           /\ Resting(t) => Resting(Require(t, cond))
BY AbortTurned DEF Require, Turned

-----------------------------------------------------------------------------
(* The search for the next player.                                         *)

\* Going round the table from any seat, a seat of a set is met first.
LEMMA NextAroundMember ==
    ASSUME NEW S, S \subseteq Seats, S # {}, NEW from \in Int
    PROVE  NextAround(S, from) \in S
<1> DEFINE distance == [s \in S |-> (s - from - 1) % MaxPlayers]
           Distance(s) == (s - from - 1) % MaxPlayers
           T == {distance[s] : s \in S}
<1>1. \A s \in S : s \in Int /\ distance[s] = Distance(s) /\ Distance(s) \in Nat
  BY TableAssumption DEF Seats
<1>2. T \in SUBSET Nat /\ T # {}
  BY <1>1
<1>3. PICK n \in T : \A m \in T : n <= m
  BY <1>2, LeastMember
<1>4. PICK s \in S : distance[s] = n
  BY <1>3
<1>5. \A u \in S : distance[s] <= distance[u]
  BY <1>3, <1>4
<1>6. \A u \in S : Distance(s) <= Distance(u)
  BY <1>1, <1>5
<1>7. NextAround(S, from) = CHOOSE x \in S : \A u \in S : Distance(x) <= Distance(u)
  BY DEF NextAround
<1> HIDE DEF Distance
<1> QED
  BY <1>6, <1>7

\* find_next_active_seat finds a player who can act when there is one.
LEMMA NextActive ==
    ASSUME NEW t, NEW from \in Int
    PROVE  /\ FindNextActiveSeat(t, from) \in ActionableSeats(t) \cup {NoSeat}
           /\ ActionableSeats(t) # {} => FindNextActiveSeat(t, from) \in ActionableSeats(t)
           /\ FindNextActiveSeat(t, from) \in Int
<1>1. ActionableSeats(t) \subseteq Seats
  BY DEF ActionableSeats, LiveSeats, ActiveSeats, OccupiedSeats
<1>2. Seats \subseteq Int /\ NoSeat \in Int
  BY TableAssumption DEF Seats, NoSeat
<1> QED
  BY <1>1, <1>2, NextAroundMember DEF FindNextActiveSeat

-----------------------------------------------------------------------------
(* The end of a street.                                                    *)

\* collect_bets_to_pot leaves the phase as it is.
LEMMA CollectBetsAlike ==
    ASSUME NEW t, Formed(t)
    PROVE  Alike(t, CollectBetsToPot(t))
BY DEF Alike, CollectBetsToPot, Formed, TableFields, SeatFields

\* A reveal that belongs to the round of the table opens no betting.
LEMMA RevealStartedResting ==
    ASSUME NEW t, NEW u, Resting(t), DOMAIN u = TableFields, u.seats = t.seats,
           u.betting = t.betting, u.turn = t.turn, u.button = t.button,
           u.round = t.round, u.shuffle = t.shuffle, u.reconstruct = t.reconstruct,
           DOMAIN u.reveal = {"phase", "asg"},
           u.reveal.phase \in Asked => u.reveal.phase = t.round
    PROVE  Resting(u)
BY DEF Resting, Steady, Rounded, Formed

\* start_preflop_reveal opens no betting.
LEMMA StartPreflopRevealResting ==
    ASSUME NEW t, Resting(t), t.round = "preflop"
    PROVE  Resting(StartPreflopReveal(t))
<1> DEFINE u == StartPreflopReveal(t)
<1>1. /\ DOMAIN u = TableFields /\ u.seats = t.seats /\ u.betting = t.betting
      /\ u.turn = t.turn /\ u.button = t.button /\ u.round = t.round
      /\ u.shuffle = t.shuffle /\ u.reconstruct = t.reconstruct
      /\ DOMAIN u.reveal = {"phase", "asg"} /\ u.reveal.phase = "preflop"
  BY DEF StartPreflopReveal, Resting, Steady, Formed, TableFields
<1> HIDE DEF u
<1>2. Resting(u)
  BY <1>1, RevealStartedResting
<1> QED
  BY <1>2 DEF u

\* start_community_reveal opens no betting.
LEMMA StartCommunityRevealResting ==
    ASSUME NEW t, Resting(t), NEW count, NEW phase, t.round = phase
    PROVE  Resting(StartCommunityReveal(t, count, phase))
<1> DEFINE u == StartCommunityReveal(t, count, phase)
<1>1. /\ DOMAIN u = TableFields /\ u.seats = t.seats /\ u.betting = t.betting
      /\ u.turn = t.turn /\ u.button = t.button /\ u.round = t.round
      /\ u.shuffle = t.shuffle /\ u.reconstruct = t.reconstruct
      /\ DOMAIN u.reveal = {"phase", "asg"} /\ u.reveal.phase = phase
  BY DEF StartCommunityReveal, Resting, Steady, Formed, TableFields
<1> HIDE DEF u
<1>2. Resting(u)
  BY <1>1, RevealStartedResting
<1> QED
  BY <1>2 DEF u

\* start_showdown_reveal opens no betting.
LEMMA StartShowdownRevealResting ==
    ASSUME NEW t, Resting(t)
    PROVE  Resting(StartShowdownReveal(t))
<1> DEFINE u == StartShowdownReveal(t)
<1>1. /\ DOMAIN u = TableFields /\ u.seats = t.seats /\ u.betting = t.betting
      /\ u.turn = t.turn /\ u.button = t.button /\ u.round = t.round
      /\ u.shuffle = t.shuffle /\ u.reconstruct = t.reconstruct
      /\ DOMAIN u.reveal = {"phase", "asg"} /\ u.reveal.phase = "showdown"
  BY DEF StartShowdownReveal, Resting, Steady, Formed, TableFields
<1> HIDE DEF u
<1>2. Resting(u)
  BY <1>1, RevealStartedResting DEF Asked
<1> QED
  BY <1>2 DEF u

\* advance_round closes the betting.
LEMMA AdvanceRoundRests ==
    ASSUME NEW t, Steady(t), t.reveal.phase = "none"
    PROVE  Resting(AdvanceRound(t))
<1> DEFINE closed == [t EXCEPT !.betting = NoRound, !.turn = NoSeat]
           to(round) == [closed EXCEPT !.round = round]
           fresh(round) == [to(round) EXCEPT !.timers.reveal = FALSE]
           last == [to("showdown") EXCEPT !.timers.showdown = FALSE]
<1>1. Resting(closed)
  BY DEF Resting, Steady, Formed, Rounded, TableFields, NoRound, NoSeat
<1>2. ASSUME NEW round
      PROVE  Resting(fresh(round)) /\ fresh(round).round = round
  BY DEF Resting, Steady, Formed, Rounded, TableFields, NoRound, NoSeat, Asked
<1>3. Resting(last)
  BY DEF Resting, Steady, Formed, Rounded, TableFields, NoRound, NoSeat, Asked
<1>4. \/ AdvanceRound(t) = StartCommunityReveal(fresh("flop"), FlopCards, "flop")
      \/ AdvanceRound(t) = StartCommunityReveal(fresh("turn"), 1, "turn")
      \/ AdvanceRound(t) = StartCommunityReveal(fresh("river"), 1, "river")
      \/ AdvanceRound(t) = StartShowdownReveal(last)
      \/ AdvanceRound(t) = closed
  BY DEF AdvanceRound
<1> HIDE DEF closed, fresh, last
<1> QED
  BY <1>1, <1>2, <1>3, <1>4, StartCommunityRevealResting, StartShowdownRevealResting

\* advance_turn: the next player on turn can act, or the street is over.
LEMMA AdvanceTurnTurned ==
    ASSUME NEW t, Steady(t), t.reveal.phase = "none"
    PROVE  Turned(AdvanceTurn(t))
<1> DEFINE next == FindNextActiveSeat(t, t.turn)
           c == CollectBetsToPot(t)
           u == [t EXCEPT !.turn = next]
           found == t.turn # NoSeat /\ next # NoSeat
<1>1. Resting(AdvanceRound(c))
  <2>1. Steady(c) /\ c.reveal.phase = "none"
    BY CollectBetsAlike, AlikeSteady DEF Steady, Alike
  <2> QED
    BY <2>1, AdvanceRoundRests
<1>2. next \in Int /\ (next # NoSeat => next \in ActionableSeats(t))
  BY NextActive DEF Steady
<1> HIDE DEF next
<1>3. Steady(u) /\ u.turn = next /\ u.seats = t.seats
  BY <1>2 DEF Steady, Formed, Rounded, TableFields
<1> HIDE DEF u
<1>4. Turned(Require(u, found))
  <2>1. CASE found
    <3>1. ActionableSeats(u) = ActionableSeats(t)
      BY <1>3 DEF ActionableSeats, LiveSeats, ActiveSeats, OccupiedSeats
    <3> QED
      BY <2>1, <1>2, <1>3, <3>1 DEF Require, Turned
  <2>2. CASE ~found
    BY <2>2, <1>3, AbortTurned DEF Require
  <2> QED
    BY <2>1, <2>2
<1>5. AdvanceTurn(t) = AdvanceRound(c) \/ AdvanceTurn(t) = Require(u, found)
  BY DEF AdvanceTurn, u, next
<1> QED
  BY <1>1, <1>4, <1>5, RestingTurned

-----------------------------------------------------------------------------
(* The end of a hand.                                                      *)

\* reset_for_next_hand closes everything.
LEMMA ResetRests ==
    ASSUME NEW t, DOMAIN t = TableFields, \A s \in Seats : DOMAIN t.seats[s] = SeatFields,
           t.button \in Int
    PROVE  Resting(ResetForNextHand(t))
<1> DEFINE u == ResetForNextHand(t)
           broke == {s \in Seats : t.seats[s].player # NoPlayer /\ t.seats[s].stack = 0}
           kept == [s \in Seats |->
                      IF s \in broke THEN EmptySeat
                      ELSE [t.seats[s] EXCEPT
                              !.bet = 0, !.total_bet = 0, !.folded = FALSE,
                              !.all_in = FALSE, !.acted = FALSE,
                              !.is_waiting = FALSE, !.left = FALSE]]
<1>1. /\ DOMAIN u = TableFields /\ u.seats = kept /\ u.betting = NoRound
      /\ u.turn = NoSeat /\ u.button = t.button /\ u.round = "waiting"
      /\ u.shuffle = EmptyShuffle /\ u.reveal = EmptyReveal
      /\ u.reconstruct = EmptyReconstruct
  BY DEF ResetForNextHand, TableFields
<1>2. DOMAIN kept = Seats /\ \A s \in Seats : DOMAIN kept[s] = SeatFields
  BY DEF EmptySeat, SeatFields
<1> HIDE DEF u, kept
<1>3. Resting(u)
  BY <1>1, <1>2 DEF Resting, Steady, Formed, Rounded, Asked, NoRound, NoSeat, EmptyShuffle,
                    EmptyReveal, EmptyReconstruct
<1> QED
  BY <1>3 DEF u

\* end_without_showdown pays the pot and resets the table, or aborts.
LEMMA EndWithoutShowdownTurned ==
    ASSUME NEW t, Steady(t)
    PROVE  /\ Turned(EndWithoutShowdown(t))
           /\ Resting(t) => Resting(EndWithoutShowdown(t))
<1> DEFINE c == CollectBetsToPot(t)
           u == [c EXCEPT !.seats[Min(LiveSeats(t))].stack = @ + c.pot]
<1>1. Formed(c) /\ c.button = t.button
  BY CollectBetsAlike DEF Alike, Steady
<1> HIDE DEF c
<1>2. /\ DOMAIN u = TableFields /\ u.button = t.button
      /\ \A s \in Seats : DOMAIN u.seats[s] = SeatFields
  BY <1>1 DEF Formed, TableFields
<1> HIDE DEF u
<1>3. Resting(ResetForNextHand(u))
  BY <1>2, ResetRests DEF Steady
<1>4. \/ EndWithoutShowdown(t) = Abort(t)
      \/ EndWithoutShowdown(t) = ResetForNextHand(u)
  BY DEF EndWithoutShowdown, u, c
<1> QED
  BY <1>3, <1>4, AbortTurned, RestingTurned

\* settle_hand pays the pots and resets the table.
LEMMA SettleHandTurned ==
    ASSUME NEW t, Shaped(t), t.button \in Int, NEW ranks
    PROVE  Turned(SettleHand(t, ranks))
<1> DEFINE u == PayPots(t, Pots(t), ranks)
           allowed == t.round = "showdown" /\ t.reveal.phase = "none"
<1>1. Aside(t, u)
  BY PotsAreASequence, PayPotsAside
<1> HIDE DEF u
<1>2. Resting(ResetForNextHand(u))
  BY <1>1, ResetRests DEF Aside, Shaped, SamePhases
<1>3. SettleHand(t, ranks) = Require(ResetForNextHand(u), allowed)
  BY DEF SettleHand, u
<1> QED
  BY <1>2, <1>3, RestingTurned, RequireTurned

\* refund_all_bets before a reset: nothing stays open.
LEMMA RefundThenResetRests ==
    ASSUME NEW t, Steady(t)
    PROVE  Resting(ResetForNextHand(RefundAllBets(t)))
<1> DEFINE due == {s \in Seats : ~t.seats[s].refunded /\ t.seats[s].total_bet > 0}
           home == due \cap OccupiedSeats(t)
           gone == {s \in due \ home : t.seats[s].left}
           refund(s) ==
               [t.seats[s] EXCEPT
                   !.stack = IF s \in home THEN @ + t.seats[s].total_bet ELSE @,
                   !.refunded = @ \/ s \in home \cup gone,
                   !.player = IF s \in gone THEN NoPlayer ELSE @,
                   !.bet = 0, !.total_bet = 0]
           seats == [s \in Seats |-> refund(s)]
           chips == MapThenSumSet(LAMBDA s : t.seats[s].total_bet, gone)
           u == RefundSui([t EXCEPT !.seats = seats, !.pot = 0], chips)
<1>1. \A s \in Seats : DOMAIN seats[s] = SeatFields
  BY DEF Steady, Formed
<1>2. RefundAllBets(t) = u
  BY DEF RefundAllBets
<1> HIDE DEF seats, chips
<1>3. DOMAIN u = TableFields /\ u.seats = seats /\ u.button = t.button
  BY DEF RefundSui, Require, Abort, Steady, Formed, TableFields
<1> HIDE DEF u
<1> QED
  BY <1>1, <1>2, <1>3, ResetRests DEF Steady

-----------------------------------------------------------------------------
(* The end of a reveal.                                                    *)

\* post_blinds before the flop: nothing but chips and the turn.
LEMMA PostBlindsSteady ==
    ASSUME NEW t, Steady(t)
    PROVE  /\ Steady(PostBlinds(t))
           /\ PostBlinds(t).round = t.round
           /\ PostBlinds(t).shuffle.phase = t.shuffle.phase
           /\ PostBlinds(t).reveal.phase = t.reveal.phase
           /\ PostBlinds(t).reconstruct.phase = t.reconstruct.phase
<1> DEFINE headsUp == CountActiveOccupied(t) = 2
           sb == IF headsUp THEN t.button ELSE FindNextActiveSeat(t, t.button)
           bb == FindNextActiveSeat(t, sb)
           post(seat, blind) ==
               LET amount == IF seat.stack < blind THEN seat.stack ELSE blind
               IN  [seat EXCEPT !.stack = @ - amount, !.bet = amount,
                                !.total_bet = amount,
                                !.all_in = @ \/ seat.stack = amount]
           small == [t EXCEPT !.seats[sb] = post(@, SmallBlind)]
           both == [small EXCEPT !.seats[bb] = post(@, BigBlind)]
           first == IF headsUp THEN sb ELSE FindNextActiveSeat(both, bb)
           u == [both EXCEPT !.turn = first]
<1>1. sb \in Int
  BY NextActive DEF Steady
<1> HIDE DEF sb
<1>2. bb \in Int
  BY <1>1, NextActive
<1> HIDE DEF bb
<1>3. Alike(t, small)
  BY DEF Alike, Steady, Formed, TableFields
<1> HIDE DEF small
<1>4. Alike(t, both)
  BY <1>3 DEF Alike, Formed, TableFields
<1> HIDE DEF both
<1>5. first \in Int
  BY <1>1, <1>2, NextActive
<1> HIDE DEF first
<1>6. Steady(both) /\ Alike(t, both)
  BY <1>4, AlikeSteady
<1>7. Steady(u) /\ u.round = t.round /\ u.shuffle.phase = t.shuffle.phase
      /\ u.reveal.phase = t.reveal.phase /\ u.reconstruct.phase = t.reconstruct.phase
  BY <1>5, <1>6 DEF Steady, Alike, Formed, Rounded, TableFields
<1>8. Alike(t, Abort(t))
  BY DEF Alike, Abort, Steady, Formed, TableFields
<1> HIDE DEF u
<1>9. PostBlinds(t) = Abort(t) \/ PostBlinds(t) = u
  BY DEF PostBlinds, u, first, both, small, bb, sb
<1> QED
  BY <1>7, <1>8, <1>9, AlikeSteady DEF Alike

\* start_betting_round after the flop puts a player on turn who can act.
LEMMA StartBettingRoundTurned ==
    ASSUME NEW t, Steady(t), Still(t), t.round \in Asked, NEW preflop \in BOOLEAN,
           preflop => t.round = "preflop"
    PROVE  Turned(StartBettingRound(t, preflop))
<1> DEFINE seats == [s \in Seats |->
                       [t.seats[s] EXCEPT !.acted = FALSE,
                                          !.bet = IF preflop THEN @ ELSE 0]]
           round == IF preflop THEN NewPreflop(BigBlind) ELSE NewPostflop(BigBlind)
           opened == [t EXCEPT !.betting = round, !.seats = seats]
           next == FindNextActiveSeat(t, t.button)
           u == [opened EXCEPT !.turn = next]
<1>1. round.open /\ DOMAIN round = {"open", "current_bet", "min_raise"}
  BY DEF NewPreflop, NewPostflop
<1>2. /\ DOMAIN seats = Seats
      /\ \A s \in Seats :
            /\ DOMAIN seats[s] = SeatFields
            /\ seats[s].player = t.seats[s].player /\ seats[s].left = t.seats[s].left
            /\ seats[s].is_waiting = t.seats[s].is_waiting
            /\ seats[s].folded = t.seats[s].folded /\ seats[s].all_in = t.seats[s].all_in
  <2>1. \A s \in Seats : DOMAIN t.seats[s] = SeatFields
    BY DEF Steady, Formed
  <2>2. ASSUME NEW s \in Seats
        PROVE  /\ DOMAIN seats[s] = SeatFields
               /\ seats[s].player = t.seats[s].player /\ seats[s].left = t.seats[s].left
               /\ seats[s].is_waiting = t.seats[s].is_waiting
               /\ seats[s].folded = t.seats[s].folded
               /\ seats[s].all_in = t.seats[s].all_in
    BY <2>1 DEF SeatFields
  <2> QED
    BY <2>2
<1> HIDE DEF round, seats
<1>3. /\ Steady(opened) /\ opened.reveal.phase = "none" /\ opened.seats = seats
      /\ opened.round = t.round /\ opened.betting = round
  BY <1>1, <1>2 DEF Steady, Formed, Rounded, Still, TableFields
<1>4. next \in Int /\ (ActionableSeats(t) # {} => next \in ActionableSeats(t))
  BY NextActive DEF Steady
<1> HIDE DEF next, opened
<1>5. Resting(AdvanceRound(CollectBetsToPot(opened)))
  <2>1. /\ Steady(CollectBetsToPot(opened))
        /\ CollectBetsToPot(opened).reveal.phase = "none"
    BY <1>3, CollectBetsAlike, AlikeSteady DEF Steady, Alike
  <2> QED
    BY <2>1, AdvanceRoundRests
<1>6. preflop => Turned(opened)
  BY <1>3 DEF Turned
<1>7. ActionableSeats(t) # {} => Turned(u)
  <2>1. Steady(u) /\ u.turn = next /\ u.seats = seats
    BY <1>3, <1>4 DEF Steady, Formed, Rounded, TableFields
  <2>2. ActionableSeats(u) = ActionableSeats(t)
    BY <1>2, <2>1 DEF ActionableSeats, LiveSeats, ActiveSeats, OccupiedSeats, IsSeatOccupied
  <2> QED
    BY <1>4, <2>1, <2>2 DEF Turned
<1> HIDE DEF u
<1>8. \/ StartBettingRound(t, preflop) = AdvanceRound(CollectBetsToPot(opened))
      \/ preflop /\ StartBettingRound(t, preflop) = opened
      \/ ActionableSeats(t) # {} /\ StartBettingRound(t, preflop) = u
  BY DEF StartBettingRound, opened, u, seats, round, next
<1> QED
  BY <1>5, <1>6, <1>7, <1>8, RestingTurned

\* check_reveal_phase_complete: the next street, the settlement, or nothing.
LEMMA CheckRevealTurned ==
    ASSUME NEW t, Turned(t), Shaped(t), Calm(t) \/ Unanswered(t), NEW ranks
    PROVE  Turned(CheckRevealPhaseComplete(t, ranks))
<1> DEFINE phase == t.reveal.phase
           cleared == [t EXCEPT !.reveal = EmptyReveal]
           untimed == [cleared EXCEPT !.timers.betting = FALSE]
           written == WriteCommunity(untimed)
           last == [cleared EXCEPT !.timers.showdown = FALSE]
<1>1. Steady(t) /\ (phase # "none" => Resting(t))
  BY DEF Turned, Resting, Steady, Rounded
<1>2. /\ Steady(cleared) /\ (Calm(t) => Still(cleared)) /\ cleared.round = t.round
      /\ cleared.seats = t.seats /\ cleared.turn = t.turn /\ cleared.ok = t.ok
      /\ cleared.betting = t.betting
  BY <1>1 DEF Steady, Formed, Rounded, Still, Calm, TableFields, EmptyReveal, Asked
<1>3. Turned(cleared)
  <2>1. ActionableSeats(cleared) = ActionableSeats(t)
    BY <1>2 DEF ActionableSeats, LiveSeats, ActiveSeats, OccupiedSeats
  <2> QED
    BY <1>2, <2>1 DEF Turned
<1>4. Shaped(last) /\ last.button \in Int
  BY <1>1 DEF Shaped, Steady, TableFields, EmptyReveal
<1> HIDE DEF cleared
<1>5. Steady(untimed) /\ (Calm(t) => Still(untimed)) /\ untimed.round = t.round
  BY <1>2 DEF Steady, Formed, Rounded, Still, TableFields
<1> HIDE DEF untimed, last
<1>6. Steady(written) /\ (Calm(t) => Still(written)) /\ written.round = t.round
  BY <1>5 DEF WriteCommunity, Steady, Formed, Rounded, Still, TableFields
<1> HIDE DEF written
<1>7. Steady(PostBlinds(untimed)) /\ (Calm(t) => Still(PostBlinds(untimed)))
      /\ PostBlinds(untimed).round = t.round
  BY <1>5, PostBlindsSteady DEF Still
<1>8. phase \in Asked => t.round = phase
  BY <1>1 DEF Steady, Rounded
<1>9. phase = "preflop" /\ Calm(t) => Turned(StartBettingRound(PostBlinds(untimed), TRUE))
  BY <1>7, <1>8, StartBettingRoundTurned DEF Asked
<1>10. phase \in {"flop", "turn", "river"} /\ Calm(t) => Turned(StartBettingRound(written, FALSE))
  BY <1>6, <1>8, StartBettingRoundTurned DEF Asked
<1>11. Turned(SettleHand(last, ranks))
  BY <1>4, SettleHandTurned
<1>12. \/ CheckRevealPhaseComplete(t, ranks) = t
       \/ /\ phase = "preflop" /\ Calm(t)
          /\ CheckRevealPhaseComplete(t, ranks) = StartBettingRound(PostBlinds(untimed), TRUE)
       \/ /\ phase \in {"flop", "turn", "river"} /\ Calm(t)
          /\ CheckRevealPhaseComplete(t, ranks) = StartBettingRound(written, FALSE)
       \/ CheckRevealPhaseComplete(t, ranks) = SettleHand(last, ranks)
       \/ CheckRevealPhaseComplete(t, ranks) = cleared
  BY DEF CheckRevealPhaseComplete, cleared, untimed, written, last, Unanswered, Asked
<1> HIDE DEF phase
<1> QED
  BY <1>3, <1>9, <1>10, <1>11, <1>12

-----------------------------------------------------------------------------
(* Shuffles.                                                               *)

\* Cards dealt again after a reconstruction belong to the round the hand was
\* interrupted in.
LEMMA ResumeRevealResting ==
    ASSUME NEW t, Resting(t)
    PROVE  Resting(ResumeReveal(t))
<1> DEFINE untimed == [t EXCEPT !.timers.showdown = FALSE]
<1>1. Resting(untimed)
  BY DEF Resting, Steady, Formed, Rounded, TableFields
<1>2. ASSUME NEW n, NEW phase, t.round = phase
      PROVE  Resting(Require(StartCommunityReveal(t, n - t.ready, phase), t.ready <= n))
  BY <1>2, StartCommunityRevealResting, RestingTurned, RequireTurned
<1>3. \/ t.round = "preflop" /\ ResumeReveal(t) = StartPreflopReveal(t)
      \/ \E n, phase : /\ t.round = phase
                       /\ ResumeReveal(t) = Require(StartCommunityReveal(t, n - t.ready, phase),
                                                    t.ready <= n)
      \/ ResumeReveal(t) = StartShowdownReveal(untimed)
      \/ ResumeReveal(t) = t
  BY DEF ResumeReveal
<1> HIDE DEF untimed
<1> QED
  BY <1>1, <1>2, <1>3, StartPreflopRevealResting, StartShowdownRevealResting

\* advance_shuffle opens no betting.
LEMMA AdvanceShuffleResting ==
    ASSUME NEW t, Resting(t)
    PROVE  Resting(AdvanceShuffle(t))
<1> DEFINE untimed == [t EXCEPT !.timers.reveal = FALSE, !.shuffle = EmptyShuffle]
           first == [untimed EXCEPT !.round = "preflop"]
           again == [untimed EXCEPT !.reconstruct = EmptyReconstruct,
                                    !.reveal = EmptyReveal]
           next == Min(t.shuffle.pending)
           u == [t EXCEPT !.shuffle.current = next, !.timers.shuffle = FALSE]
<1> HIDE DEF next
<1>1. Resting(u)
  BY DEF Resting, Steady, Formed, Rounded, TableFields
<1>2. Resting(again)
  BY DEF Resting, Steady, Formed, Rounded, TableFields, EmptyShuffle, EmptyReveal,
         EmptyReconstruct, Asked
<1>3. Resting(StartPreflopReveal(first))
  <2> DEFINE v == StartPreflopReveal(first)
  <2>1. /\ DOMAIN v = TableFields /\ v.seats = t.seats /\ v.betting = t.betting
        /\ v.turn = t.turn /\ v.button = t.button /\ v.round = "preflop"
        /\ v.shuffle = EmptyShuffle /\ v.reconstruct = t.reconstruct
        /\ DOMAIN v.reveal = {"phase", "asg"} /\ v.reveal.phase = "preflop"
    BY DEF StartPreflopReveal, Resting, Steady, Formed, TableFields
  <2> HIDE DEF v
  <2>2. Resting(v)
    BY <2>1 DEF Resting, Steady, Formed, Rounded, EmptyShuffle
  <2> QED
    BY <2>2 DEF v
<1>4. \/ AdvanceShuffle(t) = t
      \/ AdvanceShuffle(t) = u
      \/ AdvanceShuffle(t) = StartPreflopReveal(first)
      \/ AdvanceShuffle(t) = ResumeReveal(again)
  BY DEF AdvanceShuffle, next
<1> HIDE DEF u, first, again
<1> QED
  BY <1>1, <1>2, <1>3, <1>4, ResumeRevealResting

\* advance_shuffle leaves a betting round alone.
LEMMA AdvanceShuffleTurned ==
    ASSUME NEW t, Turned(t)
    PROVE  Turned(AdvanceShuffle(t))
<1>1. CASE t.betting.open
  <2>1. AdvanceShuffle(t) = t
    BY <1>1 DEF AdvanceShuffle, Turned, Steady, Rounded
  <2> QED
    BY <2>1
<1>2. CASE ~t.betting.open
  BY <1>2, AdvanceShuffleResting, RestingTurned DEF Turned, Resting
<1> QED
  BY <1>1, <1>2

-----------------------------------------------------------------------------
(* Folds and kicks.                                                        *)

\* do_fold, whoever folds: the turn passes on or the hand is over.
LEMMA DoFoldTurned ==
    ASSUME NEW t, Steady(t), t.reveal.phase = "none", NEW s
    PROVE  Turned(DoFold(t, s))
<1> DEFINE seat == t.seats[s]
           folded == [t EXCEPT !.seats[s] = [seat EXCEPT !.folded = TRUE, !.acted = TRUE],
                               !.timers.betting = FALSE]
           allowed == IsSeatOccupied(seat) /\ ~seat.folded
<1>1. Alike(t, folded)
  BY DEF Alike, Steady, Formed, TableFields
<1> HIDE DEF folded
<1>2. Steady(folded) /\ folded.reveal.phase = "none"
  BY <1>1, AlikeSteady DEF Alike
<1>3. Turned(AdvanceTurn(folded)) /\ Turned(EndWithoutShowdown(folded))
  BY <1>2, AdvanceTurnTurned, EndWithoutShowdownTurned
<1>4. \/ DoFold(t, s) = Require(EndWithoutShowdown(folded), allowed)
      \/ DoFold(t, s) = Require(AdvanceTurn(folded), allowed)
  BY DEF DoFold, folded
<1> QED
  BY <1>3, <1>4, RequireTurned

\* A seat that is not on turn and goes leaves the turn as it is.
LEMMA UnseatedTurned ==
    ASSUME NEW t, Turned(t), NEW s \in Seats
    PROVE  /\ Steady(Unseated(t, s)) /\ Alike(t, Unseated(t, s))
           /\ t.turn # s => Turned(Unseated(t, s))
<1> DEFINE seat == t.seats[s]
           marked == [t EXCEPT !.seats[s] = KickedSeat(seat), !.pot = @ + seat.bet]
           unkeyed == IF seat.is_waiting THEN marked ELSE RemovePk(marked, seat.player)
           paid == RefundSui(unkeyed, seat.stack)
           u == Unseated(t, s)
<1>1. /\ DOMAIN KickedSeat(seat) = SeatFields /\ DOMAIN t = TableFields
      /\ DOMAIN t.seats = Seats
  BY DEF KickedSeat, Turned, Steady, Formed
<1>2. /\ Alike(t, marked) /\ marked.ok = t.ok
      /\ \A r \in Seats \ {s} : marked.seats[r] = t.seats[r]
  BY <1>1 DEF Alike, Turned, Steady, Formed, TableFields
<1> HIDE DEF marked
<1>3. Alike(t, unkeyed) /\ unkeyed.ok = t.ok /\ unkeyed.seats = marked.seats
  BY <1>2 DEF RemovePk, Alike, Formed, TableFields
<1> HIDE DEF unkeyed
<1>4. Alike(t, paid) /\ (paid.ok => t.ok) /\ paid.seats = marked.seats
  BY <1>3 DEF RefundSui, Require, Abort, Alike, Formed, TableFields
<1> HIDE DEF paid
<1>5. Alike(t, DropFromPhases(paid, s)) /\ DropFromPhases(paid, s).ok = paid.ok
      /\ DropFromPhases(paid, s).seats = paid.seats
  BY <1>4 DEF DropFromPhases, Alike, Formed, TableFields
<1>6. u = DropFromPhases(paid, s)
  BY DEF Unseated, paid, unkeyed, marked
<1> HIDE DEF u
<1>7. Steady(u)
  BY <1>5, <1>6, AlikeSteady DEF Turned
<1>8. ASSUME t.turn # s, u.ok, u.betting.open, u.round # "preflop"
      PROVE  u.turn \in ActionableSeats(u)
  <2>1. t.turn \in ActionableSeats(t) /\ u.turn = t.turn
    BY <1>4, <1>5, <1>6, <1>8 DEF Turned, Alike
  <2>2. t.turn \in Seats \ {s}
    BY <1>8, <2>1 DEF ActionableSeats, LiveSeats, ActiveSeats, OccupiedSeats
  <2>3. u.seats[t.turn] = t.seats[t.turn]
    BY <1>2, <1>4, <1>5, <1>6, <2>2
  <2> QED
    BY <2>1, <2>2, <2>3 DEF ActionableSeats, LiveSeats, ActiveSeats, OccupiedSeats
<1>9. Alike(t, u)
  BY <1>5, <1>6
<1> QED
  BY <1>7, <1>8, <1>9 DEF Turned, u

\* kick_player_internal: the turn of who is kicked passes on, that of
\* another player stays where it is.
LEMMA KickTurned ==
    ASSUME NEW t, Turned(t), NEW s \in Seats
    PROVE  /\ Turned(KickPlayerInternal(t, s))
           /\ Resting(t) => Resting(KickPlayerInternal(t, s))
<1>1. CASE ~IsSeatOccupied(t.seats[s])
  BY <1>1, AbortTurned DEF KickPlayerInternal, Turned
<1>2. CASE IsSeatOccupied(t.seats[s])
  <2> DEFINE gone == Unseated(t, s)
             freed == [gone EXCEPT !.shuffle.current = NoSeat]
             passed == ShufflePassed(gone, s)
             turned == TurnPassed(passed, s)
             kicked == ResetIfTooFew(turned)
  <2>1. /\ Steady(gone) /\ gone.turn = t.turn
        /\ t.turn # s => Turned(gone)
        /\ Resting(t) => Resting(gone)
    BY UnseatedTurned, AlikeSteady DEF Alike, Turned
  <2> HIDE DEF gone
  <2>2. /\ Alike(gone, freed) /\ freed.seats = gone.seats /\ freed.ok = gone.ok
        /\ freed.shuffle.phase = gone.shuffle.phase
    BY <2>1 DEF Alike, Steady, Formed, TableFields
  <2> HIDE DEF freed
  <2>3. Steady(freed) /\ (Resting(gone) => Resting(freed))
    BY <2>1, <2>2, AlikeSteady
  <2>4. Turned(gone) => Turned(freed)
    <3>1. ActionableSeats(freed) = ActionableSeats(gone)
      BY <2>2 DEF ActionableSeats, LiveSeats, ActiveSeats, OccupiedSeats
    <3> QED
      BY <2>2, <2>3, <3>1 DEF Turned, Alike
  <2>5. passed = gone \/ passed = AdvanceShuffle(freed)
    BY DEF ShufflePassed, freed
  <2> HIDE DEF passed
  <2>6. gone.betting.open =>
           /\ Steady(passed) /\ passed.turn = t.turn /\ passed.betting.open
           /\ t.turn # s => Turned(passed)
    <3>1. SUFFICES ASSUME gone.betting.open
                   PROVE  /\ Steady(passed) /\ passed.turn = t.turn /\ passed.betting.open
                          /\ t.turn # s => Turned(passed)
      OBVIOUS
    <3>2. AdvanceShuffle(freed) = freed
      BY <3>1, <2>1, <2>2 DEF AdvanceShuffle, Steady, Rounded
    <3> QED
      BY <3>1, <3>2, <2>1, <2>2, <2>3, <2>4, <2>5 DEF Alike
  <2>7. ~gone.betting.open => Resting(passed)
    BY <2>1, <2>3, <2>5, AdvanceShuffleResting DEF Resting
  <2>8. Turned(turned) /\ (Resting(gone) => Resting(turned))
    <3>1. CASE gone.betting.open
      <4>1. /\ Steady(passed) /\ passed.betting.open /\ passed.turn = t.turn
            /\ t.turn # s => Turned(passed)
        BY <2>6, <3>1
      <4>2. IsBettingRound(passed) /\ passed.reveal.phase = "none"
        BY <4>1 DEF IsBettingRound, Steady, Rounded, Asked
      <4>3. CASE t.turn # s
        BY <4>1, <4>3, <3>1 DEF TurnPassed, Resting
      <4>4. CASE t.turn = s
        <5>1. turned = EndWithoutShowdown(passed) \/ turned = AdvanceTurn(passed)
          BY <4>1, <4>2, <4>4 DEF TurnPassed
        <5> HIDE DEF turned
        <5> QED
          BY <5>1, <4>1, <4>2, <3>1, EndWithoutShowdownTurned, AdvanceTurnTurned DEF Resting
      <4> QED
        BY <4>3, <4>4
    <3>2. CASE ~gone.betting.open
      <4>1. Resting(passed) /\ turned = passed
        BY <3>2, <2>7 DEF TurnPassed, IsBettingRound, Resting
      <4> HIDE DEF turned
      <4> QED
        BY <4>1, RestingTurned
    <3> QED
      BY <3>1, <3>2
  <2> HIDE DEF turned
  <2>9. Resting(ResetForNextHand(turned))
    BY <2>8, ResetRests DEF Turned, Steady, Formed
  <2>10. kicked = turned \/ kicked = ResetForNextHand(turned)
    BY DEF ResetIfTooFew
  <2>11. KickPlayerInternal(t, s) = kicked
    BY <1>2 DEF KickPlayerInternal, turned, passed, gone
  <2> HIDE DEF kicked
  <2> QED
    BY <2>1, <2>8, <2>9, <2>10, <2>11, RestingTurned
<1> QED
  BY <1>1, <1>2

\* Kicking one seat after another while no bets are taken opens no betting.
LEMMA KickAllResting ==
    ASSUME NEW t, Resting(t), NEW order, Len(order) \in Nat,
           \A i \in 1 .. Len(order) : order[i] \in Seats
    PROVE  Resting(KickAll(t, order))
<1> DEFINE n == Len(order)
<1>1. PICK after : /\ after[0] = t
                   /\ \A i \in 1 .. n : after[i] = KickIfSeated(after[i - 1], order[i])
                   /\ KickAll(t, order) = after[n]
  BY KickAllSteps
<1> DEFINE Right == {k \in 0 .. n : Resting(after[k])}
<1>4. \A k \in 0 .. n : k \in Right
  <2>1. 0 \in Right
    <3>1. after[0] = t
      BY <1>1
    <3> QED
      BY <3>1
  <2>2. ASSUME NEW k \in 1 .. n, k - 1 \in Right
        PROVE  k \in Right
    <3> DEFINE u == after[k - 1]
    <3>1. after[k] = KickIfSeated(u, order[k]) /\ order[k] \in Seats
      BY <1>1
    <3>2. Resting(u)
      BY <2>2
    <3> HIDE DEF u
    <3>3. Resting(KickIfSeated(u, order[k]))
      BY <3>1, <3>2, RestingTurned, KickTurned DEF KickIfSeated
    <3> QED
      BY <3>1, <3>3
  <2> HIDE DEF Right
  <2> QED
    BY <2>1, <2>2, UpTo
<1>5. n \in Right
  BY <1>4
<1> QED
  BY <1>1, <1>5

-----------------------------------------------------------------------------
(* Starting a hand, and timeouts.                                          *)

\* do_start_hand moves the button and opens the shuffle.
LEMMA DoStartHandResting ==
    ASSUME NEW t, Steady(t), t.round = "waiting"
    PROVE  Resting(DoStartHand(t))
<1> DEFINE next == NextAround(OccupiedSeats(t), t.button)
           button == MoveButton(t).button
           pending == PendingSeats(t)
           v == [[MoveButton(t) EXCEPT !.timers.shuffle = FALSE]
                    EXCEPT !.shuffle.pending = pending,
                           !.shuffle.phase = "before_preflop"]
           allowed == t.round = "waiting" /\ CountActiveOccupied(t) >= MinPlayers
<1>1. ~t.betting.open
  BY DEF Steady, Rounded, Asked
<1>2. OccupiedSeats(t) # {} => next \in Int
  <2>1. OccupiedSeats(t) \subseteq Seats /\ Seats \subseteq Int
    BY TableAssumption DEF OccupiedSeats, Seats
  <2> QED
    BY <2>1, NextAroundMember DEF Steady
<1> HIDE DEF next, pending
<1>3. MoveButton(t) = t \/ (next \in Int /\ MoveButton(t) = [t EXCEPT !.button = next])
  BY <1>2 DEF MoveButton, next
<1>4. Resting(v)
  BY <1>1, <1>3 DEF Resting, Steady, Formed, Rounded, TableFields
<1>5. DoStartHand(t) = Require(AdvanceShuffle(v), allowed)
  BY DEF DoStartHand, pending
<1> HIDE DEF v
<1> QED
  BY <1>4, <1>5, AdvanceShuffleResting, RestingTurned, RequireTurned

\* All active seats shuffle: no bets are taken.
LEMMA ReshuffleResting ==
    ASSUME NEW t, Resting(t), NEW phase
    PROVE  Resting(AdvanceShuffle(ShuffleAmongActive(t, phase)))
<1> DEFINE v == ShuffleAmongActive(t, phase)
<1>1. Resting(v)
  BY DEF ShuffleAmongActive, Resting, Steady, Formed, Rounded, TableFields
<1> HIDE DEF v
<1>2. Resting(AdvanceShuffle(v))
  BY <1>1, AdvanceShuffleResting
<1> QED
  BY <1>2 DEF v

\* A rebuilt deck opens no betting.
LEMMA RebuildDeckResting ==
    ASSUME NEW t, Resting(t)
    PROVE  Resting(RebuildDeck(t))
BY DEF RebuildDeck, Resting, Steady, Formed, Rounded, TableFields

\* on_complete_reconstruct
LEMMA OnCompleteReconstructResting ==
    ASSUME NEW t, Resting(t)
    PROVE  Resting(OnCompleteReconstruct(t))
<1> DEFINE v == [RebuildDeck(t) EXCEPT !.reconstruct.phase = "none"]
<1>1. Resting(RebuildDeck(t))
  BY RebuildDeckResting
<1>2. Resting(v)
  BY <1>1 DEF Resting, Steady, Formed, Rounded, TableFields
<1>3. OnCompleteReconstruct(t) = AdvanceShuffle(ShuffleAmongActive(v, "reconstruct"))
  BY DEF OnCompleteReconstruct
<1> HIDE DEF v
<1> QED
  BY <1>2, <1>3, ReshuffleResting

\* What a timeout does after its kicks opens no betting.
LEMMA AfterKicksResting ==
    ASSUME NEW t, Resting(t), NEW goOn, Resting(goOn)
    PROVE  Resting(AfterKicks(t, goOn))
<1>1. Steady(t)
  BY DEF Resting
<1> QED
  BY <1>1, RefundThenResetRests, EndWithoutShowdownTurned DEF AfterKicks

\* on_reconstruct_timeout
LEMMA OnReconstructTimeoutResting ==
    ASSUME NEW t, Resting(t), t.reconstruct.pending \subseteq Seats
    PROVE  Resting(OnReconstructTimeout(t))
<1> DEFINE order == Ascending(t.reconstruct.pending)
           u == KickAll(t, order)
<1>1. Len(order) \in Nat /\ \A i \in 1 .. Len(order) : order[i] \in Seats
  <2>1. t.reconstruct.pending \in SUBSET Int /\ IsFiniteSet(t.reconstruct.pending)
    BY SomeSeatsFinite, TableAssumption DEF Seats
  <2>2. Len(order) = Cardinality(t.reconstruct.pending) /\ Len(order) \in Nat
    BY <2>1, AscendingLists
  <2> QED
    BY <2>1, <2>2, AscendingMembers
<1> HIDE DEF order
<1>2. Resting(u)
  BY <1>1, KickAllResting
<1>3. OnReconstructTimeout(t) = AfterReconstructKicks(u)
  BY DEF OnReconstructTimeout, order
<1> HIDE DEF u
<1>4. Steady(u)
  BY <1>2 DEF Resting
<1> QED
  BY <1>2, <1>3, <1>4, RefundThenResetRests, EndWithoutShowdownTurned,
     OnCompleteReconstructResting DEF AfterReconstructKicks

\* on_reveal_timeout
LEMMA OnRevealTimeoutResting ==
    ASSUME NEW t, Resting(t), DOMAIN t.reveal.asg \subseteq Nat
    PROVE  Resting(OnRevealTimeout(t))
<1> DEFINE order == RevealDebtors(t)
           u == KickAll(t, order)
<1>1. Len(order) \in Nat /\ \A i \in 1 .. Len(order) : order[i] \in Seats
  BY DebtorsListed
<1> HIDE DEF order
<1>2. Resting(u)
  BY <1>1, KickAllResting
<1>3. OnRevealTimeout(t) = RestartAfterKicks(u) \/ OnRevealTimeout(t) = ReconstructAfterKicks(u)
  BY DEF OnRevealTimeout, order
<1> HIDE DEF u
<1>4. Resting(StartReconstruct(u))
  BY <1>2 DEF StartReconstruct, Resting, Steady, Formed, Rounded, TableFields
<1>5. Resting(ResetForNextHand(RefundAllBets(u)))
  BY <1>2, RefundThenResetRests DEF Resting
<1> QED
  BY <1>2, <1>3, <1>4, <1>5, AfterKicksResting DEF RestartAfterKicks, ReconstructAfterKicks

\* on_shuffle_timeout
LEMMA OnShuffleTimeoutResting ==
    ASSUME NEW t, Resting(t), t.shuffle.current \in Seats
    PROVE  Resting(OnShuffleTimeout(t))
<1> DEFINE s == t.shuffle.current
           u == KickPlayerInternal(t, s)
           decks == u.reconstruct.decks \ {s}
           v == [u EXCEPT !.reconstruct.decks = decks]
<1>1. Resting(u)
  BY KickTurned, RestingTurned
<1> HIDE DEF u, decks
<1>2. Resting(v)
  BY <1>1 DEF Resting, Steady, Formed, Rounded, TableFields
<1> HIDE DEF v
<1>3. Resting(RebuildDeck(v))
  BY <1>2, RebuildDeckResting
<1>4. /\ Resting(AdvanceShuffle(ShuffleAmongActive(RebuildDeck(v), "reconstruct")))
      /\ Resting(AdvanceShuffle(ShuffleAmongActive(u, "before_preflop")))
  BY <1>1, <1>3, ReshuffleResting
<1>5. \E goOn \in {u, AdvanceShuffle(ShuffleAmongActive(RebuildDeck(v), "reconstruct")),
                   AdvanceShuffle(ShuffleAmongActive(u, "before_preflop"))} :
         OnShuffleTimeout(t) \in {t, AfterKicks(u, goOn)}
  BY DEF OnShuffleTimeout, ReshuffleAfterKick, RebuildAfterKick, u, v, decks
<1> QED
  BY <1>1, <1>4, <1>5, AfterKicksResting

-----------------------------------------------------------------------------
(* Bets.                                                                   *)

\* The fields of a table with the invariant Good.
LEMMA ShapedFormed ==
    ASSUME NEW t, Shaped(t)
    PROVE  Formed(t)
BY DEF Shaped, Formed

\* fold, auto_fold and force_fold
LEMMA FoldsTurned ==
    ASSUME NEW s \in Seats, Turned(table), Fold(s) \/ AutoFold(s) \/ ForceFold(s)
    PROVE  Turned(table')
<1>1. IsBettingRound(table) /\ table' = DoFold(table, s)
  BY DEF Fold, AutoFold, ForceFold, OnTurn, Commit
<1>2. Steady(table) /\ table.reveal.phase = "none"
  BY <1>1 DEF IsBettingRound, Turned, Steady, Rounded
<1> QED
  BY <1>1, <1>2, DoFoldTurned

\* After a bet the turn passes on.
LEMMA BetThenTurn ==
    ASSUME Turned(table), IsBettingRound(table), NEW u, Alike(table, u)
    PROVE  Turned(AdvanceTurn(u))
<1>1. Steady(u) /\ u.reveal.phase = "none"
  BY AlikeSteady DEF IsBettingRound, Turned, Steady, Rounded, Alike
<1> QED
  BY <1>1, AdvanceTurnTurned

\* check and call
LEMMA CheckCallTurned ==
    ASSUME NEW s \in Seats, Turned(table), Check(s) \/ Call(s)
    PROVE  Turned(table')
<1> DEFINE amount == CallAmount(table.betting, table.seats[s])
           seat == PutIn(table.seats[s], amount)
           paid == [table EXCEPT !.seats[s] = seat]
<1>1. /\ IsBettingRound(table)
      /\ \/ table' = AdvanceTurn(Acted(table, s))
         \/ table' = AdvanceTurn(Acted(paid, s))
  BY DEF Check, Call, OnTurn, Commit
<1>2. DOMAIN seat = SeatFields
  BY DEF PutIn, Turned, Steady, Formed
<1> HIDE DEF seat
<1>3. Alike(table, paid)
  BY <1>2 DEF Alike, Turned, Steady, Formed, TableFields
<1> HIDE DEF paid
<1>4. Alike(table, Acted(table, s)) /\ Alike(table, Acted(paid, s))
  BY <1>3 DEF Acted, Alike, Turned, Steady, Formed, TableFields
<1> QED
  BY <1>1, <1>4, BetThenTurn

\* raise
LEMMA RaiseTurned ==
    ASSUME NEW s \in Seats, NEW total, Turned(table), Raise(s, total)
    PROVE  Turned(table')
<1> DEFINE betting == RaisedRound(table.betting, total)
           seat == PutIn(table.seats[s], total - table.seats[s].bet)
           raised == [table EXCEPT !.betting = betting, !.seats[s] = seat]
           acted == Acted(raised, s)
           u == ResetOtherPlayersActed(acted, s)
<1>1. IsBettingRound(table) /\ table' = AdvanceTurn(u)
  BY DEF Raise, OnTurn, Commit
<1>2. /\ betting.open = table.betting.open /\ DOMAIN betting = DOMAIN table.betting
      /\ DOMAIN seat = SeatFields
  BY DEF RaisedRound, PutIn, Turned, Steady, Formed
<1> HIDE DEF betting, seat
<1>3. Alike(table, raised)
  BY <1>2 DEF Alike, Turned, Steady, Formed, TableFields
<1> HIDE DEF raised
<1>4. Alike(table, acted)
  BY <1>3 DEF Acted, Alike, Formed, TableFields
<1> HIDE DEF acted
<1>5. Alike(table, u)
  BY <1>4 DEF ResetOtherPlayersActed, Alike, Formed, TableFields, SeatFields
<1> HIDE DEF u
<1> QED
  BY <1>1, <1>5, BetThenTurn

-----------------------------------------------------------------------------
(* Joining and leaving.                                                    *)

\* All seats but s are the same.
SameElsewhere(t, u, s) == \A r \in Seats \ {s} : u.seats[r] = t.seats[r]

\* A seat that changes hands is not on turn.
LEMMA SeatChangedTurned ==
    ASSUME NEW t, NEW u, NEW s, Turned(t), Alike(t, u), u.ok => t.ok,
           SameElsewhere(t, u, s), t.betting.open => s \notin ActionableSeats(t)
    PROVE  Turned(u)
<1>1. Steady(u)
  BY AlikeSteady DEF Turned
<1>2. ASSUME u.ok, u.betting.open, u.round # "preflop"
      PROVE  u.turn \in ActionableSeats(u)
  <2>1. t.turn \in ActionableSeats(t) \ {s} /\ u.turn = t.turn
    BY <1>2 DEF Turned, Alike
  <2>2. t.turn \in Seats \ {s}
    BY <2>1 DEF ActionableSeats, LiveSeats, ActiveSeats, OccupiedSeats
  <2>3. u.seats[t.turn] = t.seats[t.turn]
    BY <2>2 DEF SameElsewhere
  <2> QED
    BY <2>1, <2>2, <2>3 DEF ActionableSeats, LiveSeats, ActiveSeats, OccupiedSeats
<1> QED
  BY <1>1, <1>2 DEF Turned

\* join_table: who joins during a hand waits, whoever is on turn.
LEMMA JoinTableTurned ==
    ASSUME NEW p \in Players, NEW s \in Seats, NEW coin,
           Turned(table), JoinTable(p, s, coin)
    PROVE  Turned(table')
<1> DEFINE waits == IsPlaying(table)
           seat == InitSeat(p, coin \div Ratio, waits)
           seated == Seated(table, p, s, coin, waits)
           u == IF waits THEN seated ELSE AddPk(seated, p)
<1>1. table' = u /\ s \notin ActionableSeats(table)
  BY DEF JoinTable, Commit, CanSit, ActionableSeats, LiveSeats, ActiveSeats, OccupiedSeats
<1>2. DOMAIN seat = SeatFields
  BY DEF InitSeat, EmptySeat, SeatFields
<1> HIDE DEF seat, waits
<1>3. /\ Alike(table, seated) /\ seated.ok = table.ok
      /\ \A r \in Seats \ {s} : seated.seats[r] = table.seats[r]
  BY <1>2 DEF Seated, Alike, Turned, Steady, Formed, TableFields, seat
<1> HIDE DEF seated
<1>4. Alike(table, u) /\ u.ok = table.ok /\ SameElsewhere(table, u, s)
  BY <1>3 DEF AddPk, Alike, Formed, TableFields, SameElsewhere
<1> HIDE DEF u
<1> QED
  BY <1>1, <1>4, SeatChangedTurned

\* join_and_shuffle: only between two hands.
LEMMA JoinAndShuffleTurned ==
    ASSUME NEW p \in Players, NEW s \in Seats, NEW coin,
           Turned(table), JoinAndShuffle(p, s, coin)
    PROVE  Turned(table')
<1> DEFINE seat == InitSeat(p, coin \div Ratio, FALSE)
           seated == AddPk(Seated(table, p, s, coin, FALSE), p)
           u == [seated EXCEPT !.shuffle.completed = @ \cup {s},
                               !.shuffle.pending = @ \ {s}]
<1>1. table' = u /\ table.round = "waiting"
  BY DEF JoinAndShuffle, Commit
<1>2. DOMAIN seat = SeatFields
  BY DEF InitSeat, EmptySeat, SeatFields
<1> HIDE DEF seat
<1>3. Alike(table, seated)
  BY <1>2 DEF Seated, AddPk, Alike, Turned, Steady, Formed, TableFields, seat
<1> HIDE DEF seated
<1>4. Alike(table, u)
  BY <1>3 DEF Alike, Formed, TableFields
<1>5. Resting(table)
  BY <1>1 DEF Turned, Resting, Steady, Rounded, Asked
<1> HIDE DEF u
<1> QED
  BY <1>1, <1>4, <1>5, AlikeSteady, RestingTurned DEF Turned

\* A player who departs empties the seat and changes nothing else.
LEMMA DepartedAlike ==
    ASSUME NEW t, NEW v, NEW s \in Seats, Alike(t, v)
    PROVE  /\ Alike(t, Departed(v, s)) /\ (Departed(v, s).ok => v.ok)
           /\ SameElsewhere(v, Departed(v, s), s)
<1> DEFINE paid == RefundSui(v, v.seats[s].stack)
<1>1. Alike(t, paid) /\ (paid.ok => v.ok) /\ paid.seats = v.seats
  BY DEF RefundSui, Require, Abort, Alike, Formed, TableFields
<1>2. Departed(v, s) = [paid EXCEPT !.seats[s] = EmptySeat]
  BY DEF Departed
<1> HIDE DEF paid
<1>3. DOMAIN EmptySeat = SeatFields
  BY DEF EmptySeat, SeatFields
<1> QED
  BY <1>1, <1>2, <1>3 DEF Alike, Formed, TableFields, SameElsewhere

\* leave_with_proof: only between two hands.
LEMMA LeaveWithProofTurned ==
    ASSUME NEW s \in Seats, Turned(table), LeaveWithProof(s)
    PROVE  Turned(table')
<1> DEFINE unkeyed == RemovePk(table, table.seats[s].player)
           v == [unkeyed EXCEPT !.shuffle.pending = @ \ {s},
                                !.shuffle.completed = @ \ {s}]
<1>1. table' = Departed(v, s) /\ table.round = "waiting"
  BY DEF LeaveWithProof, Commit
<1>2. Alike(table, v)
  BY DEF RemovePk, Alike, Turned, Steady, Formed, TableFields
<1> HIDE DEF v
<1>3. Alike(table, Departed(v, s))
  BY <1>2, DepartedAlike
<1>4. Resting(table)
  BY <1>1 DEF Turned, Resting, Steady, Rounded, Asked
<1> QED
  BY <1>1, <1>3, <1>4, AlikeSteady, RestingTurned DEF Turned

\* leave_table: during a hand only who waits for the next one may leave.
LEMMA LeaveTableTurned ==
    ASSUME NEW s \in Seats, Turned(table), LeaveTable(s)
    PROVE  Turned(table')
<1> DEFINE seat == table.seats[s]
           v == IF seat.is_waiting THEN table ELSE RemovePk(table, seat.player)
           u == Departed(v, s)
<1>1. table' = u /\ (IsPlaying(table) => seat.is_waiting)
  BY DEF LeaveTable, Commit
<1>2. Alike(table, v) /\ v.ok = table.ok /\ v.seats = table.seats
  BY DEF RemovePk, Alike, Turned, Steady, Formed, TableFields
<1> HIDE DEF v
<1>3. Alike(table, u) /\ (u.ok => v.ok) /\ SameElsewhere(v, u, s)
  BY <1>2, DepartedAlike
<1> HIDE DEF u
<1>4. SameElsewhere(table, u, s)
  BY <1>2, <1>3 DEF SameElsewhere
<1>5. table.betting.open => s \notin ActionableSeats(table)
  BY <1>1 DEF IsPlaying, Turned, Steady, Rounded, Asked, ActionableSeats, LiveSeats, ActiveSeats
<1> QED
  BY <1>1, <1>2, <1>3, <1>4, <1>5, SeatChangedTurned

-----------------------------------------------------------------------------
(* The card protocol and the tick.                                         *)

\* start_hand
LEMMA StartHandTurned ==
    ASSUME Turned(table), StartHand
    PROVE  Turned(table')
<1>1. Steady(table) /\ DOMAIN table = TableFields
  BY DEF Turned, Steady, Formed
<1> QED
  BY <1>1, StartHandAllowed, DoStartHandResting, RestingTurned

\* submit_shuffle
LEMMA SubmitShuffleTurned ==
    ASSUME NEW s \in Seats, Turned(table), SubmitShuffle(s)
    PROVE  Turned(table')
<1> DEFINE u == [table EXCEPT !.shuffle.completed = @ \cup {s},
                              !.shuffle.pending = @ \ {s}]
<1>1. table' = AdvanceShuffle(u) /\ table.shuffle.phase # "none"
  BY DEF SubmitShuffle, Commit
<1>2. Resting(u)
  BY <1>1 DEF Turned, Resting, Steady, Formed, Rounded, TableFields
<1> HIDE DEF u
<1> QED
  BY <1>1, <1>2, AdvanceShuffleResting, RestingTurned

\* submit_reconstruct_deck
LEMMA SubmitReconstructDeckTurned ==
    ASSUME NEW s \in Seats, Turned(table), SubmitReconstructDeck(s)
    PROVE  Turned(table')
<1> DEFINE u == [table EXCEPT !.reconstruct.pending = @ \ {s},
                              !.reconstruct.decks = @ \cup {s}]
<1>1. /\ table.reconstruct.phase = "collecting"
      /\ table' = u \/ table' = OnCompleteReconstruct(u)
  BY DEF SubmitReconstructDeck, Commit
<1>2. Resting(u)
  BY <1>1 DEF Turned, Resting, Steady, Formed, Rounded, TableFields
<1> HIDE DEF u
<1> QED
  BY <1>1, <1>2, OnCompleteReconstructResting, RestingTurned

\* Where a shuffle or a reconstruction has cut a reveal short, a card is
\* still to be opened.
LEMMA CalmOrUnanswered ==
    ASSUME NEW t, Good(t)
    PROVE  Calm(t) \/ Unanswered(t)
BY DEF Good, Sound, Exclusive, Asking, ShufflePhases, Calm, Unanswered, Asked

\* submit_player_reveal_tokens up to the check whether the phase is complete:
\* no bets are taken.
LEMMA TokensOpenedResting ==
    ASSUME NEW s \in Seats, NEW S, NEW blank, NEW ranks, Turned(table),
           SubmitRevealTokens(s, S, blank, ranks)
    PROVE  Resting(TokensOpened(s, S, blank))
<1> DEFINE done == {a \in S : table.reveal.asg[a].pending = {s}}
           taken == TokensTaken(table, s, S)
           opened == TokensOpened(s, S, blank)
<1>1. table.reveal.phase # "none"
  BY DEF SubmitRevealTokens
<1>2. opened = TokensOpened(s, S, blank)
  OBVIOUS
<1>3. Alike(table, taken)
  BY DEF TokensTaken, Alike, Turned, Steady, Formed, TableFields
<1>4. \/ opened = HoleCardsOpened(taken, done)
      \/ opened = HoleCardsShown(taken, done)
      \/ opened = CommunityOpened(taken, done, blank)
  BY DEF TokensOpened
<1> HIDE DEF taken, opened, done
<1>5. Alike(table, HoleCardsOpened(taken, done)) /\ Alike(table, HoleCardsShown(taken, done))
  BY <1>3 DEF HoleCardsOpened, HoleCardsShown, Alike, Formed, TableFields
<1>6. Alike(table, CommunityOpened(taken, done, blank))
  <2> DEFINE n == Cardinality(blank)
             dealt == [taken EXCEPT !.ready = @ + Cardinality(done \ blank),
                                    !.blanks = @ - n]
  <2>1. Alike(table, dealt)
    BY <1>3 DEF Alike, Formed, TableFields
  <2>2. \/ CommunityOpened(taken, done, blank) = dealt
        \/ \E asg, cond :
              CommunityOpened(taken, done, blank)
                 = Require([dealt EXCEPT !.dealt = @ + n, !.reveal.asg = asg], cond)
    BY DEF CommunityOpened
  <2> HIDE DEF dealt, n
  <2>3. ASSUME NEW asg
        PROVE  Alike(table, [dealt EXCEPT !.dealt = @ + n, !.reveal.asg = asg])
    BY <2>1 DEF Alike, Formed, TableFields
  <2>4. ASSUME NEW v, Alike(table, v), NEW cond
        PROVE  Alike(table, Require(v, cond))
    BY <2>4 DEF Require, Abort, Alike, Formed, TableFields
  <2> QED
    BY <2>1, <2>2, <2>3, <2>4
<1>7. Resting(table)
  BY <1>1 DEF Turned, Resting, Steady, Rounded
<1>8. Resting(opened)
  BY <1>4, <1>5, <1>6, <1>7, AlikeSteady DEF Resting
<1> QED
  BY <1>2, <1>8

\* submit_player_reveal_tokens: the next street begins with a player who can
\* act.
LEMMA SubmitRevealTokensTurned ==
    ASSUME NEW s \in Seats, NEW S, NEW blank, NEW ranks, Good(table), Turned(table),
           SubmitRevealTokens(s, S, blank, ranks)
    PROVE  Turned(table')
<1>1. table' = CheckRevealPhaseComplete(TokensOpened(s, S, blank), ranks)
  BY DEF SubmitRevealTokens, Commit, TokensOpened
<1>2. Good(TokensOpened(s, S, blank)) /\ Resting(TokensOpened(s, S, blank))
  BY TokensOpenedGood, TokensOpenedResting
<1> QED
  BY <1>1, <1>2, CalmOrUnanswered, RestingTurned, CheckRevealTurned DEF Good, Sound

\* A started timer leaves the turn as it is.
LEMMA TimersTurned ==
    ASSUME NEW t, Turned(t), NEW timers
    PROVE  /\ Turned([t EXCEPT !.timers = timers])
           /\ Resting(t) => Resting([t EXCEPT !.timers = timers])
<1> DEFINE u == [t EXCEPT !.timers = timers]
<1>1. Alike(t, u) /\ u.ok = t.ok /\ u.seats = t.seats
  BY DEF Alike, Turned, Steady, Formed, TableFields
<1> HIDE DEF u
<1>2. Steady(u) /\ (Resting(t) => Resting(u))
  BY <1>1, AlikeSteady DEF Turned
<1>3. ActionableSeats(u) = ActionableSeats(t)
  BY <1>1 DEF ActionableSeats, LiveSeats, ActiveSeats, OccupiedSeats
<1>4. Turned(u)
  BY <1>1, <1>2, <1>3 DEF Turned, Alike
<1> QED
  BY <1>2, <1>4 DEF u

\* tick, while cards are shuffled
LEMMA TickShuffleTurned ==
    ASSUME NEW t, Good(t), Turned(t), t.shuffle.phase # "none", NEW expired
    PROVE  Turned(TickShuffle(t, expired))
<1> DEFINE timers == [t.timers EXCEPT !.shuffle = TRUE]
<1>1. \/ TickShuffle(t, expired) = AdvanceShuffle(t)
      \/ TickShuffle(t, expired) = OnShuffleTimeout(t)
      \/ TickShuffle(t, expired) = [t EXCEPT !.timers = timers]
  BY DEF TickShuffle, Turned, Steady, Formed, TableFields
<1> HIDE DEF timers
<1>2. Resting(t)
  BY DEF Turned, Resting, Steady, Rounded
<1>3. t.shuffle.current \in Seats
  BY ActiveAreSeats DEF Good, Sound, Covers, Led
<1> QED
  BY <1>1, <1>2, <1>3, AdvanceShuffleTurned, OnShuffleTimeoutResting, RestingTurned, TimersTurned

\* tick, while cards are opened: the phase may be complete, and the next one
\* may be timed out at once.
LEMMA TickRevealTurned ==
    ASSUME NEW t, Good(t), Turned(t), Calm(t), NEW expired, NEW ranks
    PROVE  Turned(TickReveal(t, expired, ranks))
<1> DEFINE u == Answered(t, ranks)
           timers == [u.timers EXCEPT !.reveal = TRUE]
<1>1. Turned(u)
  BY CheckRevealTurned DEF Answered, Good, Sound
<1>2. Good(u)
  BY AnsweredOnward DEF Onward
<1> HIDE DEF u
<1>3. \/ TickReveal(t, expired, ranks) = u
      \/ /\ u.reveal.phase # "none"
         /\ \/ TickReveal(t, expired, ranks) = OnRevealTimeout(u)
            \/ TickReveal(t, expired, ranks) = [u EXCEPT !.timers = timers]
  BY <1>1 DEF TickReveal, RevealTimed, u, Turned, Steady, Formed, TableFields
<1> HIDE DEF timers
<1>4. ASSUME u.reveal.phase # "none"
      PROVE  Resting(u) /\ DOMAIN u.reveal.asg \subseteq Nat
  BY <1>1, <1>2, <1>4 DEF Turned, Resting, Steady, Rounded, Good, Sound, Asking
<1> QED
  BY <1>1, <1>3, <1>4, OnRevealTimeoutResting, RestingTurned, TimersTurned

\* tick, while bets are taken
LEMMA TickBettingTurned ==
    ASSUME NEW t, Turned(t), IsBettingRound(t), NEW expired
    PROVE  Turned(TickBetting(t, expired))
<1> DEFINE timers == [t.timers EXCEPT !.betting = TRUE]
           c == CollectBetsToPot(t)
<1>1. Steady(t) /\ t.reveal.phase = "none"
  BY DEF IsBettingRound, Turned, Steady, Rounded
<1>2. Steady(c) /\ c.reveal.phase = "none"
  BY <1>1, CollectBetsAlike, AlikeSteady DEF Steady, Alike
<1> HIDE DEF c
<1>3. Resting(AdvanceRound(c))
  BY <1>2, AdvanceRoundRests
<1>4. Turned(DoFold(t, t.turn))
  BY <1>1, DoFoldTurned
<1>5. \/ TickBetting(t, expired) = AdvanceRound(c)
      \/ TickBetting(t, expired) = DoFold(t, t.turn)
      \/ TickBetting(t, expired) = [t EXCEPT !.timers = timers]
  BY <1>1 DEF TickBetting, c, Steady, Formed, TableFields
<1> HIDE DEF timers
<1> QED
  BY <1>3, <1>4, <1>5, RestingTurned, TimersTurned

\* tick, while the hands are shown
LEMMA TickShowdownTurned ==
    ASSUME NEW t, Good(t), Turned(t), NEW expired, NEW ranks
    PROVE  Turned(TickShowdown(t, expired, ranks))
<1> DEFINE timers == [t.timers EXCEPT !.showdown = TRUE]
           u == [t EXCEPT !.timers = timers]
<1>1. TickShowdown(t, expired, ranks) \in {SettleHand(u, ranks), u}
  BY DEF TickShowdown, Turned, Steady, Formed, TableFields
<1> HIDE DEF timers
<1>2. Turned(u) /\ Shaped(u) /\ u.button \in Int
  BY TimersTurned DEF Turned, Steady, Good, Sound, Shaped, TableFields
<1> HIDE DEF u
<1> QED
  BY <1>1, <1>2, SettleHandTurned

\* tick, in whatever phase the table is
LEMMA TickedTurned ==
    ASSUME NEW t, Good(t), Turned(t), NEW expired, NEW ranks
    PROVE  Turned(Ticked(t, expired, ranks))
<1>1. CASE t.reconstruct.phase # "none"
  <2>1. Ticked(t, expired, ranks) = TickReconstruct(t, expired)
    BY <1>1 DEF Ticked, IsPlaying
  <2>2. Resting(t) /\ t.reconstruct.pending \subseteq Seats
    BY <1>1 DEF Turned, Resting, Steady, Rounded, Good, Sound, Shaped
  <2> QED
    BY <2>1, <2>2, OnReconstructTimeoutResting, RestingTurned DEF TickReconstruct
<1>2. CASE t.reconstruct.phase = "none" /\ t.shuffle.phase # "none"
  <2>1. Ticked(t, expired, ranks) = TickShuffle(t, expired)
    BY <1>2 DEF Ticked, IsPlaying
  <2> QED
    BY <1>2, <2>1, TickShuffleTurned
<1>3. CASE /\ t.reconstruct.phase = "none" /\ t.shuffle.phase = "none"
           /\ t.reveal.phase # "none"
  <2>1. Ticked(t, expired, ranks) = TickReveal(t, expired, ranks)
    BY <1>3 DEF Ticked, IsPlaying
  <2> QED
    BY <1>3, <2>1, TickRevealTurned DEF Calm
<1>4. CASE Still(t)
  <2>1. CASE ~IsPlaying(t)
    <3>1. Ticked(t, expired, ranks) = TickWaiting(t)
      BY <1>4, <2>1 DEF Ticked, Still
    <3>2. t.round = "waiting" /\ Steady(t)
      BY <2>1 DEF IsPlaying, Turned
    <3> QED
      BY <3>1, <3>2, DoStartHandResting, RestingTurned DEF TickWaiting
  <2>2. CASE IsPlaying(t)
    <3>1. \/ IsBettingRound(t) /\ Ticked(t, expired, ranks) = TickBetting(t, expired)
          \/ Ticked(t, expired, ranks) = TickShowdown(t, expired, ranks)
          \/ Ticked(t, expired, ranks) = ResetForNextHand(RefundAllBets(t))
      BY <1>4, <2>2 DEF Ticked, Still
    <3>2. Resting(ResetForNextHand(RefundAllBets(t)))
      BY RefundThenResetRests DEF Turned
    <3> QED
      BY <3>1, <3>2, TickBettingTurned, TickShowdownTurned, RestingTurned
  <2> QED
    BY <2>1, <2>2
<1> QED
  BY <1>1, <1>2, <1>3, <1>4 DEF Still

-----------------------------------------------------------------------------
(* The invariant and what it implies.                                      *)

\* No entry point puts a player on turn who cannot act.
LEMMA NextTurned ==
    ASSUME Good(table), Turned(table), [Next]_vars
    PROVE  Turned(table')
<1>1. CASE Join
  BY <1>1, JoinTableTurned, JoinAndShuffleTurned DEF Join
<1>2. CASE Leave
  BY <1>2, LeaveWithProofTurned, LeaveTableTurned DEF Leave
<1>3. CASE StartHand
  BY <1>3, StartHandTurned
<1>4. CASE Protocol
  BY <1>4, SubmitShuffleTurned, SubmitRevealTokensTurned, SubmitReconstructDeckTurned
     DEF Protocol
<1>5. CASE Bet
  BY <1>5, FoldsTurned, CheckCallTurned, RaiseTurned DEF Bet
<1>6. CASE Relay
  BY <1>6, TickedTurned DEF Relay, Tick, Commit
<1>7. CASE Admin
  <2>1. PICK s \in Seats : ForceFold(s) \/ KickPlayer(s)
    BY <1>7 DEF Admin
  <2>2. CASE ForceFold(s)
    BY <2>2, FoldsTurned
  <2>3. CASE KickPlayer(s)
    BY <2>3, KickTurned DEF KickPlayer, Commit
  <2> QED
    BY <2>1, <2>2, <2>3
<1>8. CASE UNCHANGED vars
  BY <1>8 DEF vars
<1> QED
  BY <1>1, <1>2, <1>3, <1>4, <1>5, <1>6, <1>7, <1>8 DEF Next

\* No transaction that aborts is ever committed.
LEMMA NextOk ==
    ASSUME table.ok, [Next]_vars
    PROVE  table'.ok
<1>1. CASE Join
  <2>1. PICK p \in Players, s \in Seats, coin \in Coins :
           JoinTable(p, s, coin) \/ JoinAndShuffle(p, s, coin)
    BY <1>1 DEF Join
  <2>2. CASE JoinTable(p, s, coin)
    BY <2>2 DEF JoinTable, Commit
  <2>3. CASE JoinAndShuffle(p, s, coin)
    BY <2>3 DEF JoinAndShuffle, Commit
  <2> QED
    BY <2>1, <2>2, <2>3
<1>2. CASE Leave
  BY <1>2 DEF Leave, LeaveWithProof, LeaveTable, Commit
<1>3. CASE StartHand
  BY <1>3 DEF StartHand, Commit
<1>4. CASE Protocol
  <2>1. PICK s \in Seats :
           \/ SubmitShuffle(s) \/ SubmitReconstructDeck(s)
           \/ \E S, blank, ranks : SubmitRevealTokens(s, S, blank, ranks)
    BY <1>4 DEF Protocol
  <2>2. CASE SubmitShuffle(s)
    BY <2>2 DEF SubmitShuffle, Commit
  <2>3. CASE SubmitReconstructDeck(s)
    BY <2>3 DEF SubmitReconstructDeck, Commit
  <2>4. ASSUME NEW S, NEW blank, NEW ranks, SubmitRevealTokens(s, S, blank, ranks)
        PROVE  table'.ok
    BY <2>4 DEF SubmitRevealTokens, Commit
  <2> QED
    BY <2>1, <2>2, <2>3, <2>4
<1>5. CASE Bet
  BY <1>5 DEF Bet, Fold, Check, Call, AutoFold, Raise, Commit
<1>6. CASE Relay
  BY <1>6 DEF Relay, Tick, Commit
<1>7. CASE Admin
  BY <1>7 DEF Admin, ForceFold, KickPlayer, Commit
<1>8. CASE UNCHANGED vars
  BY <1>8 DEF vars
<1> QED
  BY <1>1, <1>2, <1>3, <1>4, <1>5, <1>6, <1>7, <1>8 DEF Next

\* A new table takes no bets.
LEMMA NewTableResting == Resting(NewTable) /\ NewTable.ok
<1> DEFINE u == NewTable
<1>1. /\ DOMAIN u = TableFields /\ u.seats = [s \in Seats |-> EmptySeat]
      /\ u.betting = NoRound /\ u.turn = NoSeat /\ u.button = 0 /\ u.round = "waiting"
      /\ u.shuffle = EmptyShuffle /\ u.reveal = EmptyReveal
      /\ u.reconstruct = EmptyReconstruct /\ u.ok
  BY DEF NewTable, TableFields
<1>2. DOMAIN EmptySeat = SeatFields
  BY DEF EmptySeat, SeatFields
<1> HIDE DEF u
<1>3. Formed(u)
  BY <1>1, <1>2 DEF Formed, NoRound, EmptyShuffle, EmptyReveal, EmptyReconstruct
<1>4. Resting(u)
  BY <1>1, <1>3 DEF Resting, Steady, Rounded, Asked, NoRound, NoSeat, EmptyReveal
<1> QED
  BY <1>1, <1>4 DEF u

\* Nothing that is committed has aborted, and the player on turn can act.
TurnInv == table.ok /\ Turned(table)

\* After the flop the player on turn can always act, whoever folds, goes
\* all-in, is kicked or times out: nobody waits for a player who cannot bet.
THEOREM TurnsCanBeTaken == Spec => []PostflopTurnCanAct
<1>1. Init => TurnInv
  BY NewTableResting, RestingTurned DEF Init, TurnInv
<1>2. TurnInv /\ IInv /\ [Next]_vars => TurnInv'
  BY NextTurned, NextOk DEF TurnInv, IInv
<1>3. TurnInv => PostflopTurnCanAct
  BY DEF TurnInv, Turned, PostflopTurnCanAct, TurnCanAct
<1> QED
  BY <1>1, <1>2, <1>3, PhasesAreSound, PTL DEF Spec

-----------------------------------------------------------------------------
(* The board.                                                              *)

\* The cards of the street being dealt, and the board it starts from.
StreetCards == [flop |-> FlopCards, turn |-> 1, river |-> 1]
BoardBefore == [flop |-> 0, turn |-> FlopCards, river |-> FlopCards + 1]

\* The cards of the reveal that are still to be opened.
Unopened(t) == {a \in DOMAIN t.reveal.asg : ~t.reveal.asg[a].decrypted}

\* The board has the cards of the streets that are over.  While the cards of a
\* street are opened, also when a shuffle or a reconstruction has cut that
\* short, those that are ready and those still to be opened make up the street.
Laid(t) ==
    /\ t.reveal.phase \in RevealPhases
    /\ t.shuffle.phase = "before_preflop" => t.round = "waiting"
    /\ t.round \in {"waiting", "preflop"} => t.board = 0 /\ t.ready = 0
    /\ t.betting.open \/ t.round = "showdown" =>
          t.board = BoardSize[t.round] /\ t.ready = 0
    /\ t.round \in {"flop", "turn", "river"} /\ ~t.betting.open =>
          /\ t.reveal.phase = t.round
          /\ t.board = BoardBefore[t.round] /\ t.ready \in Nat
          /\ IsFiniteSet(Unopened(t))
          /\ t.ready + Cardinality(Unopened(t)) = StreetCards[t.round]

\* u has the board of t and the same cards to open.
SameCards(t, u) ==
    /\ u.board = t.board /\ u.ready = t.ready /\ u.round = t.round
    /\ u.betting.open = t.betting.open /\ u.shuffle.phase = t.shuffle.phase
    /\ u.reveal.phase = t.reveal.phase /\ Unopened(u) = Unopened(t)

\* Chips, keys, seats and timers do not matter to the board.
LEMMA SameCardsLaid ==
    ASSUME NEW t, NEW u, Laid(t), SameCards(t, u)
    PROVE  Laid(u)
BY DEF Laid, SameCards

\* assert! leaves the board alone.
LEMMA RequireCards ==
    ASSUME NEW t, DOMAIN t = TableFields, NEW cond
    PROVE  /\ SameCards(t, Require(t, cond)) /\ SameCards(t, Abort(t))
           /\ DOMAIN Require(t, cond) = TableFields /\ DOMAIN Abort(t) = TableFields
BY DEF SameCards, Require, Abort, TableFields, Unopened

\* An aborted transaction shows the board it found.
LEMMA RequireLaid ==
    ASSUME NEW t, DOMAIN t = TableFields, Laid(t), NEW cond
    PROVE  Laid(Require(t, cond)) /\ Laid(Abort(t))
BY RequireCards, SameCardsLaid

\* reset_for_next_hand clears the board.
LEMMA ResetLaid ==
    ASSUME NEW t, DOMAIN t = TableFields
    PROVE  Laid(ResetForNextHand(t)) /\ DOMAIN ResetForNextHand(t) = TableFields
<1> DEFINE u == ResetForNextHand(t)
<1>1. /\ DOMAIN u = TableFields /\ u.betting = NoRound /\ u.round = "waiting"
      /\ u.shuffle = EmptyShuffle /\ u.reveal = EmptyReveal /\ u.board = 0 /\ u.ready = 0
  BY DEF ResetForNextHand, TableFields
<1> HIDE DEF u
<1>2. Laid(u)
  BY <1>1 DEF Laid, NoRound, EmptyShuffle, EmptyReveal, RevealPhases
<1> QED
  BY <1>1, <1>2 DEF u

\* A community reveal deals what its street still lacks.
LEMMA StartCommunityRevealLaid ==
    ASSUME NEW t, DOMAIN t = TableFields, ~t.betting.open, t.shuffle.phase = "none",
           NEW phase \in {"flop", "turn", "river"}, t.round = phase,
           t.board = BoardBefore[phase], t.ready \in Nat, NEW n \in Nat,
           t.ready + n = StreetCards[phase]
    PROVE  Laid(StartCommunityReveal(t, n, phase))
<1> DEFINE asg == CommunityAssignments(t, n)
           u == StartCommunityReveal(t, n, phase)
<1>1. u = [t EXCEPT !.dealt = @ + n, !.reveal = [phase |-> phase, asg |-> asg]]
  BY DEF StartCommunityReveal
<1>2. DOMAIN asg = 1 .. n /\ \A a \in 1 .. n : ~asg[a].decrypted
  BY DEF CommunityAssignments, Assignment
<1> HIDE DEF asg, u
<1>3. /\ u.board = t.board /\ u.ready = t.ready /\ u.round = t.round
      /\ u.betting = t.betting /\ u.shuffle = t.shuffle
      /\ u.reveal.phase = phase /\ u.reveal.asg = asg
  BY <1>1 DEF TableFields
<1>4. Unopened(u) = 1 .. n
  BY <1>2, <1>3 DEF Unopened
<1>5. IsFiniteSet(1 .. n) /\ Cardinality(1 .. n) = n
  <2>1. CASE n = 0
    BY <2>1, FS_Interval
  <2>2. CASE n # 0
    BY <2>2, FS_Interval
  <2> QED
    BY <2>1, <2>2
<1>6. Laid(u)
  BY <1>3, <1>4, <1>5 DEF Laid, RevealPhases
<1> QED
  BY <1>6 DEF u

\* In a round without community cards a reveal leaves the board as it is.
LEMMA OtherRevealLaid ==
    ASSUME NEW t, DOMAIN t = TableFields, ~t.betting.open, t.shuffle.phase = "none",
           \/ t.round = "preflop" /\ t.board = 0 /\ t.ready = 0
           \/ t.round = "showdown" /\ t.board = FlopCards + 2 /\ t.ready = 0
    PROVE  Laid(StartPreflopReveal(t)) /\ Laid(StartShowdownReveal(t))
<1> DEFINE Left(u) == /\ u.board = t.board /\ u.ready = t.ready /\ u.round = t.round
                      /\ u.betting = t.betting /\ u.shuffle = t.shuffle
                      /\ u.reveal.phase \in {"preflop", "showdown"}
<1>1. Left(StartPreflopReveal(t)) /\ Left(StartShowdownReveal(t))
  BY DEF StartPreflopReveal, StartShowdownReveal, TableFields
<1>2. ASSUME NEW u, Left(u)
      PROVE  Laid(u)
  BY <1>2 DEF Laid, BoardSize, RevealPhases
<1> QED
  BY <1>1, <1>2

\* In a betting round, its board is laid out.
Street(t) ==
    /\ DOMAIN t = TableFields /\ t.round \in Asked
    /\ t.shuffle.phase = "none" /\ t.reveal.phase = "none"
    /\ t.board = BoardSize[t.round] /\ t.ready = 0

\* advance_round deals the next street from the board of this one.
LEMMA AdvanceRoundLaid ==
    ASSUME NEW t, Street(t)
    PROVE  Laid(AdvanceRound(t))
<1> DEFINE closed == [t EXCEPT !.betting = NoRound, !.turn = NoSeat]
           to(round) == [closed EXCEPT !.round = round]
           fresh(round) == [to(round) EXCEPT !.timers.reveal = FALSE]
           last == [to("showdown") EXCEPT !.timers.showdown = FALSE]
           Closing(u) == /\ DOMAIN u = TableFields /\ ~u.betting.open
                         /\ u.shuffle.phase = "none"
                         /\ u.board = t.board /\ u.ready = 0
<1>1. Closing(last) /\ last.round = "showdown"
  BY DEF Street, TableFields, NoRound
<1>2. \A round : Closing(fresh(round)) /\ fresh(round).round = round
  BY DEF Street, TableFields, NoRound
<1>3. \/ /\ t.round = "preflop"
         /\ AdvanceRound(t) = StartCommunityReveal(fresh("flop"), FlopCards, "flop")
      \/ /\ t.round = "flop"
         /\ AdvanceRound(t) = StartCommunityReveal(fresh("turn"), 1, "turn")
      \/ /\ t.round = "turn"
         /\ AdvanceRound(t) = StartCommunityReveal(fresh("river"), 1, "river")
      \/ t.round = "river" /\ AdvanceRound(t) = StartShowdownReveal(last)
  BY DEF AdvanceRound, Street, Asked
<1>4. /\ t.round = "preflop" => t.board = 0
      /\ t.round = "flop" => t.board = FlopCards
      /\ t.round = "turn" => t.board = FlopCards + 1
      /\ t.round = "river" => t.board = FlopCards + 2
  BY DEF Street, BoardSize
<1> HIDE DEF last, fresh
<1>5. ASSUME NEW phase \in {"flop", "turn", "river"}, t.board = BoardBefore[phase]
      PROVE  Laid(StartCommunityReveal(fresh(phase), StreetCards[phase], phase))
  <2>1. StreetCards[phase] \in Nat
    BY TableAssumption DEF StreetCards
  <2> QED
    BY <1>2, <1>5, <2>1, StartCommunityRevealLaid
<1>6. t.round = "river" => Laid(StartShowdownReveal(last))
  BY <1>1, <1>4, OtherRevealLaid
<1> QED
  BY <1>3, <1>4, <1>5, <1>6 DEF BoardBefore, StreetCards

\* Betting in a betting round: its board is laid out.
LEMMA BettingStreet ==
    ASSUME NEW t, Steady(t), Laid(t), t.betting.open
    PROVE  Street(t)
BY DEF Steady, Formed, Rounded, Laid, Street

\* With betting open, that is all there is to say.
LEMMA StreetLaid ==
    ASSUME NEW t, Street(t), t.betting.open
    PROVE  Laid(t)
BY DEF Street, Laid, Asked, BoardSize, RevealPhases

\* collect_bets_to_pot leaves the board alone.
LEMMA CollectBetsStreet ==
    ASSUME NEW t, Street(t)
    PROVE  Street(CollectBetsToPot(t))
BY DEF Street, CollectBetsToPot, TableFields

\* advance_turn: the same board, or the next street.
LEMMA AdvanceTurnLaid ==
    ASSUME NEW t, Street(t), t.betting.open
    PROVE  Laid(AdvanceTurn(t))
<1> DEFINE next == FindNextActiveSeat(t, t.turn)
           u == [t EXCEPT !.turn = next]
           found == t.turn # NoSeat /\ next # NoSeat
<1>1. DOMAIN u = TableFields /\ Laid(u)
  <2> HIDE DEF next
  <2>1. Street(u) /\ u.betting.open
    BY DEF Street, TableFields
  <2> QED
    BY <2>1, StreetLaid DEF Street
<1>2. Laid(AdvanceRound(CollectBetsToPot(t)))
  BY CollectBetsStreet, AdvanceRoundLaid
<1>3. \/ AdvanceTurn(t) = AdvanceRound(CollectBetsToPot(t))
      \/ AdvanceTurn(t) = Require(u, found)
  BY DEF AdvanceTurn
<1> HIDE DEF u
<1> QED
  BY <1>1, <1>2, <1>3, RequireLaid

\* end_without_showdown clears the board, or aborts.
LEMMA EndWithoutShowdownLaid ==
    ASSUME NEW t, Laid(t), DOMAIN t = TableFields
    PROVE  Laid(EndWithoutShowdown(t))
<1> DEFINE c == CollectBetsToPot(t)
           u == [c EXCEPT !.seats[Min(LiveSeats(t))].stack = @ + c.pot]
<1>1. DOMAIN u = TableFields
  BY DEF CollectBetsToPot
<1>2. \/ EndWithoutShowdown(t) = Abort(t)
      \/ EndWithoutShowdown(t) = ResetForNextHand(u)
  BY DEF EndWithoutShowdown
<1> HIDE DEF u
<1> QED
  BY <1>1, <1>2, RequireLaid, ResetLaid

\* settle_hand clears the board, or aborts.
LEMMA SettleHandLaid ==
    ASSUME NEW t, Shaped(t), NEW ranks
    PROVE  Laid(SettleHand(t, ranks))
<1> DEFINE u == PayPots(t, Pots(t), ranks)
           allowed == t.round = "showdown" /\ t.reveal.phase = "none"
<1>1. Aside(t, u)
  BY PotsAreASequence, PayPotsAside
<1> HIDE DEF u
<1>2. DOMAIN u = TableFields
  BY <1>1 DEF Aside, Shaped
<1>3. SettleHand(t, ranks) = Require(ResetForNextHand(u), allowed)
  BY DEF SettleHand, u
<1> QED
  BY <1>2, <1>3, ResetLaid, RequireLaid

\* refund_all_bets before a reset: the board is cleared.
LEMMA RefundThenResetLaid ==
    ASSUME NEW t, DOMAIN t = TableFields
    PROVE  Laid(ResetForNextHand(RefundAllBets(t)))
<1>1. DOMAIN RefundAllBets(t) = TableFields
  BY DEF RefundAllBets, RefundSui, Require, Abort
<1> QED
  BY <1>1, ResetLaid

\* start_betting_round: betting opens on the board, or the next street begins.
LEMMA StartBettingRoundLaid ==
    ASSUME NEW t, Street(t), NEW preflop \in BOOLEAN
    PROVE  Laid(StartBettingRound(t, preflop))
<1> DEFINE seats == [s \in Seats |->
                       [t.seats[s] EXCEPT !.acted = FALSE,
                                          !.bet = IF preflop THEN @ ELSE 0]]
           round == IF preflop THEN NewPreflop(BigBlind) ELSE NewPostflop(BigBlind)
           opened == [t EXCEPT !.betting = round, !.seats = seats]
           next == FindNextActiveSeat(t, t.button)
           u == [opened EXCEPT !.turn = next]
<1>1. round.open
  BY DEF NewPreflop, NewPostflop
<1>2. \/ StartBettingRound(t, preflop) = AdvanceRound(CollectBetsToPot(opened))
      \/ StartBettingRound(t, preflop) = opened
      \/ StartBettingRound(t, preflop) = u
  BY DEF StartBettingRound
<1> HIDE DEF round, seats, next
<1>3. Street(opened) /\ opened.betting.open
  BY <1>1 DEF Street, TableFields
<1>4. Street(u) /\ u.betting.open
  BY <1>1 DEF Street, TableFields
<1> HIDE DEF opened, u
<1> QED
  BY <1>2, <1>3, <1>4, StreetLaid, CollectBetsStreet, AdvanceRoundLaid

\* post_blinds leaves the board alone.
LEMMA PostBlindsStreet ==
    ASSUME NEW t, Street(t)
    PROVE  Street(PostBlinds(t))
<1> DEFINE headsUp == CountActiveOccupied(t) = 2
           sb == IF headsUp THEN t.button ELSE FindNextActiveSeat(t, t.button)
           bb == FindNextActiveSeat(t, sb)
           post(seat, blind) ==
               LET amount == IF seat.stack < blind THEN seat.stack ELSE blind
               IN  [seat EXCEPT !.stack = @ - amount, !.bet = amount,
                                !.total_bet = amount,
                                !.all_in = @ \/ seat.stack = amount]
           small == [t EXCEPT !.seats[sb] = post(@, SmallBlind)]
           both == [small EXCEPT !.seats[bb] = post(@, BigBlind)]
           first == IF headsUp THEN sb ELSE FindNextActiveSeat(both, bb)
<1>1. \/ PostBlinds(t) = Abort(t)
      \/ PostBlinds(t) = [both EXCEPT !.turn = first]
  BY DEF PostBlinds
<1> HIDE DEF sb, bb, first, post
<1>2. Street(both)
  BY DEF Street, TableFields
<1> HIDE DEF both
<1> QED
  BY <1>1, <1>2 DEF Abort, Street, TableFields

\* check_reveal_phase_complete: the cards that are ready go to the board.
LEMMA CheckRevealLaid ==
    ASSUME NEW t, Steady(t), Shaped(t), Laid(t),
           Calm(t) \/ Unanswered(t), NEW ranks
    PROVE  Laid(CheckRevealPhaseComplete(t, ranks))
<1> DEFINE phase == t.reveal.phase
           cleared == [t EXCEPT !.reveal = EmptyReveal]
           untimed == [cleared EXCEPT !.timers.betting = FALSE]
           written == WriteCommunity(untimed)
           last == [cleared EXCEPT !.timers.showdown = FALSE]
           done == \A a \in DOMAIN t.reveal.asg : t.reveal.asg[a].decrypted
<1>1. \/ CheckRevealPhaseComplete(t, ranks) = t
      \/ /\ phase = "preflop" /\ done
         /\ CheckRevealPhaseComplete(t, ranks) = StartBettingRound(PostBlinds(untimed), TRUE)
      \/ /\ phase \in {"flop", "turn", "river"} /\ done
         /\ CheckRevealPhaseComplete(t, ranks) = StartBettingRound(written, FALSE)
      \/ CheckRevealPhaseComplete(t, ranks) = SettleHand(last, ranks)
      \/ /\ phase \notin {"preflop", "flop", "turn", "river"}
         /\ CheckRevealPhaseComplete(t, ranks) = cleared
  BY DEF CheckRevealPhaseComplete
<1>2. DOMAIN t = TableFields
  BY DEF Shaped
<1>3. /\ DOMAIN cleared = TableFields /\ cleared.board = t.board /\ cleared.ready = t.ready
      /\ cleared.round = t.round /\ cleared.betting = t.betting
      /\ cleared.shuffle = t.shuffle /\ cleared.reveal.phase = "none"
  BY <1>2 DEF TableFields, EmptyReveal
<1>4. Shaped(last)
  BY DEF Shaped, TableFields, EmptyReveal
<1> HIDE DEF cleared
<1>5. phase \notin {"preflop", "flop", "turn", "river"} => Laid(cleared)
  BY <1>3 DEF Laid, RevealPhases
<1>6. /\ DOMAIN untimed = TableFields /\ untimed.board = t.board /\ untimed.ready = t.ready
      /\ untimed.round = t.round /\ untimed.shuffle = t.shuffle
      /\ untimed.reveal.phase = "none"
  BY <1>3 DEF TableFields
<1> HIDE DEF untimed, last
<1>7. /\ DOMAIN written = TableFields /\ written.board = t.board + t.ready
      /\ written.ready = 0 /\ written.round = t.round /\ written.shuffle = t.shuffle
      /\ written.reveal.phase = "none"
  BY <1>6 DEF WriteCommunity, TableFields
<1> HIDE DEF written
<1>8. ASSUME phase \in Asked, done
      PROVE  /\ t.shuffle.phase = "none" /\ t.round = phase /\ ~t.betting.open
             /\ Unopened(t) = {}
  BY <1>8 DEF Calm, Unanswered, Steady, Rounded, Unopened, Asked
<1>9. phase = "preflop" /\ done => Street(untimed)
  BY <1>6, <1>8 DEF Street, Laid, BoardSize, Asked
<1>10. ASSUME phase \in {"flop", "turn", "river"}, done
       PROVE  Street(written)
  <2>1. /\ t.shuffle.phase = "none" /\ t.round = phase /\ ~t.betting.open
        /\ Unopened(t) = {}
    BY <1>8, <1>10 DEF Asked
  <2>2. /\ t.board = BoardBefore[phase] /\ t.ready \in Nat
        /\ t.ready + Cardinality(Unopened(t)) = StreetCards[phase]
    BY <1>10, <2>1 DEF Laid
  <2>3. t.ready = StreetCards[phase]
    BY <2>1, <2>2, FS_EmptySet
  <2>4. t.board + t.ready = BoardSize[phase]
    BY <1>10, <2>2, <2>3, TableAssumption DEF BoardBefore, StreetCards, BoardSize
  <2> QED
    BY <1>7, <1>10, <2>1, <2>4 DEF Street, Asked
<1>11. Laid(SettleHand(last, ranks))
  BY <1>4, SettleHandLaid
<1> QED
  BY <1>1, <1>5, <1>9, <1>10, <1>11, PostBlindsStreet, StartBettingRoundLaid

\* What a reconstruction has cut short is dealt anew, as far as it is lacking.
LEMMA ResumeRevealLaid ==
    ASSUME NEW t, Resting(t), Laid(t), NEW u, DOMAIN u = TableFields,
           ~u.betting.open, u.shuffle.phase = "none", u.reveal.phase = "none",
           u.round = t.round, u.board = t.board, u.ready = t.ready
    PROVE  Laid(ResumeReveal(u))
<1> DEFINE untimed == [u EXCEPT !.timers.showdown = FALSE]
           lacking(n, phase) ==
               Require(StartCommunityReveal(u, n - u.ready, phase), u.ready <= n)
<1>1. /\ DOMAIN untimed = TableFields /\ ~untimed.betting.open
      /\ untimed.shuffle.phase = "none" /\ untimed.round = u.round
      /\ untimed.board = u.board /\ untimed.ready = u.ready
  BY DEF TableFields
<1>2. \/ u.round = "preflop" /\ ResumeReveal(u) = StartPreflopReveal(u)
      \/ u.round = "flop" /\ ResumeReveal(u) = lacking(FlopCards, "flop")
      \/ u.round = "turn" /\ ResumeReveal(u) = lacking(1, "turn")
      \/ u.round = "river" /\ ResumeReveal(u) = lacking(1, "river")
      \/ u.round = "showdown" /\ ResumeReveal(u) = StartShowdownReveal(untimed)
      \/ /\ u.round \notin {"preflop", "flop", "turn", "river", "showdown"}
         /\ ResumeReveal(u) = u
  BY DEF ResumeReveal
<1> HIDE DEF untimed
<1>3. u.round = "preflop" => Laid(StartPreflopReveal(u))
  BY OtherRevealLaid DEF Laid
<1>4. u.round = "showdown" => Laid(StartShowdownReveal(untimed))
  BY <1>1, OtherRevealLaid DEF Laid, BoardSize
<1>5. ASSUME NEW phase \in {"flop", "turn", "river"}, u.round = phase
      PROVE  Laid(lacking(StreetCards[phase], phase))
  <2> DEFINE n == StreetCards[phase]
             left == Cardinality(Unopened(t))
             v == StartCommunityReveal(u, n - u.ready, phase)
  <2>1. /\ u.board = BoardBefore[phase] /\ u.ready \in Nat /\ u.ready + left = n
        /\ IsFiniteSet(Unopened(t))
    BY <1>5 DEF Laid, Resting
  <2>2. left \in Nat
    BY <2>1, FS_CardinalityType
  <2>3. n \in Nat
    BY TableAssumption DEF StreetCards
  <2> HIDE DEF n, left
  <2>4. n - u.ready \in Nat /\ u.ready + (n - u.ready) = n
    BY <2>1, <2>2, <2>3
  <2>5. Laid(v)
    BY <1>5, <2>1, <2>4, StartCommunityRevealLaid DEF n
  <2>6. DOMAIN v = TableFields
    BY DEF StartCommunityReveal
  <2> HIDE DEF v
  <2>7. Laid(Require(v, u.ready <= n))
    BY <2>5, <2>6, RequireLaid
  <2> QED
    BY <2>7 DEF v, n
<1>6. /\ u.round = "flop" => Laid(lacking(FlopCards, "flop"))
      /\ u.round = "turn" => Laid(lacking(1, "turn"))
      /\ u.round = "river" => Laid(lacking(1, "river"))
  <2>1. /\ StreetCards["flop"] = FlopCards /\ StreetCards["turn"] = 1
        /\ StreetCards["river"] = 1
    BY DEF StreetCards
  <2> HIDE DEF lacking
  <2> QED
    BY <1>5, <2>1
<1>7. u.round \notin {"preflop", "flop", "turn", "river", "showdown"} => Laid(u)
  BY DEF Laid, RevealPhases
<1> HIDE DEF lacking
<1> QED
  BY <1>2, <1>3, <1>4, <1>6, <1>7

\* advance_shuffle deals nothing to the board.
LEMMA AdvanceShuffleLaid ==
    ASSUME NEW t, Resting(t), Laid(t)
    PROVE  Laid(AdvanceShuffle(t))
<1> DEFINE untimed == [t EXCEPT !.timers.reveal = FALSE, !.shuffle = EmptyShuffle]
           first == [untimed EXCEPT !.round = "preflop"]
           again == [untimed EXCEPT !.reconstruct = EmptyReconstruct,
                                    !.reveal = EmptyReveal]
           next == Min(t.shuffle.pending)
           u == [t EXCEPT !.shuffle.current = next, !.timers.shuffle = FALSE]
<1>1. \/ AdvanceShuffle(t) = t
      \/ AdvanceShuffle(t) = u
      \/ /\ t.shuffle.phase = "before_preflop"
         /\ AdvanceShuffle(t) = StartPreflopReveal(first)
      \/ AdvanceShuffle(t) = ResumeReveal(again)
  BY DEF AdvanceShuffle
<1> HIDE DEF next
<1>2. DOMAIN t = TableFields /\ "phase" \in DOMAIN t.shuffle /\ ~t.betting.open
  BY DEF Resting, Steady, Formed
<1>3. SameCards(t, u)
  BY <1>2 DEF SameCards, TableFields, Unopened
<1>4. /\ DOMAIN first = TableFields /\ ~first.betting.open
      /\ first.shuffle.phase = "none" /\ first.round = "preflop"
      /\ first.board = t.board /\ first.ready = t.ready
  BY <1>2 DEF TableFields, EmptyShuffle
<1>5. /\ DOMAIN again = TableFields /\ ~again.betting.open
      /\ again.shuffle.phase = "none" /\ again.reveal.phase = "none"
      /\ again.round = t.round /\ again.board = t.board /\ again.ready = t.ready
  BY <1>2 DEF TableFields, EmptyShuffle, EmptyReveal
<1> HIDE DEF u, first, again
<1>6. t.shuffle.phase = "before_preflop" => Laid(StartPreflopReveal(first))
  BY <1>4, OtherRevealLaid DEF Laid
<1>7. Laid(ResumeReveal(again))
  BY <1>5, ResumeRevealLaid
<1> QED
  BY <1>1, <1>3, <1>6, <1>7, SameCardsLaid

-----------------------------------------------------------------------------
(* Folds, kicks and timeouts leave the board alone, or end the hand.       *)

\* do_fold
LEMMA DoFoldLaid ==
    ASSUME NEW t, Steady(t), Laid(t), t.betting.open, NEW s
    PROVE  Laid(DoFold(t, s))
<1> DEFINE seat == t.seats[s]
           folded == [t EXCEPT !.seats[s] = [seat EXCEPT !.folded = TRUE, !.acted = TRUE],
                               !.timers.betting = FALSE]
           allowed == IsSeatOccupied(seat) /\ ~seat.folded
           ended == EndWithoutShowdown(folded)
           goes == AdvanceTurn(folded)
<1>1. \/ DoFold(t, s) = Require(ended, allowed)
      \/ DoFold(t, s) = Require(goes, allowed)
  BY DEF DoFold
<1>2. Street(t)
  BY BettingStreet
<1>3. Street(folded) /\ folded.betting.open
  BY <1>2 DEF Street, TableFields
<1>4. Steady(folded) /\ folded.reveal.phase = "none"
  <2>1. Alike(t, folded)
    BY DEF Alike, Steady, Formed, TableFields
  <2> HIDE DEF folded
  <2> QED
    BY <2>1, AlikeSteady DEF Alike, Steady, Rounded
<1> HIDE DEF folded
<1>5. Laid(ended) /\ Laid(goes)
  BY <1>3, StreetLaid, EndWithoutShowdownLaid, AdvanceTurnLaid DEF Street
<1>6. DOMAIN ended = TableFields /\ DOMAIN goes = TableFields
  BY <1>4, EndWithoutShowdownTurned, AdvanceTurnTurned DEF Turned, Steady, Formed
<1> HIDE DEF ended, goes
<1> QED
  BY <1>1, <1>5, <1>6, RequireLaid

\* The seat that a kick takes away.
LEMMA UnseatedCards ==
    ASSUME NEW t, Formed(t), NEW s \in Seats
    PROVE  SameCards(t, Unseated(t, s))
<1> DEFINE seat == t.seats[s]
           marked == [t EXCEPT !.seats[s] = KickedSeat(seat), !.pot = @ + seat.bet]
           unkeyed == IF seat.is_waiting THEN marked ELSE RemovePk(marked, seat.player)
           paid == RefundSui(unkeyed, seat.stack)
           Left(u) == /\ DOMAIN u = TableFields /\ u.board = t.board /\ u.ready = t.ready
                      /\ u.round = t.round /\ u.betting = t.betting
                      /\ u.shuffle = t.shuffle /\ u.reveal = t.reveal
<1>1. Unseated(t, s) = DropFromPhases(paid, s)
  BY DEF Unseated
<1>2. Left(marked)
  BY DEF Formed, TableFields
<1> HIDE DEF marked
<1>3. Left(unkeyed)
  BY <1>2 DEF RemovePk, TableFields
<1> HIDE DEF unkeyed
<1>4. Left(paid)
  BY <1>3 DEF RefundSui, Require, Abort, TableFields
<1> HIDE DEF paid
<1> DEFINE u == DropFromPhases(paid, s)
<1>5. /\ u.board = t.board /\ u.ready = t.ready /\ u.round = t.round
      /\ u.betting = t.betting /\ u.shuffle.phase = t.shuffle.phase
      /\ u.reveal.phase = t.reveal.phase
      /\ u.reveal.asg = [a \in DOMAIN t.reveal.asg |->
                            [t.reveal.asg[a] EXCEPT !.pending = @ \ {s}]]
  BY <1>4 DEF DropFromPhases, Formed, TableFields
<1> HIDE DEF u
<1>6. Unopened(u) = Unopened(t)
  BY <1>5 DEF Unopened
<1> QED
  BY <1>1, <1>5, <1>6 DEF SameCards, u

\* kick_player_internal
LEMMA KickLaid ==
    ASSUME NEW t, Turned(t), Laid(t), NEW s \in Seats
    PROVE  Laid(KickPlayerInternal(t, s))
<1> DEFINE gone == Unseated(t, s)
           freed == [gone EXCEPT !.shuffle.current = NoSeat]
           passed == ShufflePassed(gone, s)
           turned == TurnPassed(passed, s)
<1>1. \/ KickPlayerInternal(t, s) = Abort(t)
      \/ KickPlayerInternal(t, s) = turned
      \/ KickPlayerInternal(t, s) = ResetForNextHand(turned)
  BY DEF KickPlayerInternal, ResetIfTooFew
<1>2. /\ Steady(gone) /\ Alike(t, gone) /\ Laid(gone)
      /\ Laid(Abort(t))
  <2>1. Formed(t) /\ DOMAIN t = TableFields
    BY DEF Turned, Steady, Formed
  <2>2. Steady(gone) /\ Alike(t, gone)
    BY UnseatedTurned
  <2>3. SameCards(t, gone)
    BY <2>1, UnseatedCards
  <2> HIDE DEF gone
  <2>4. Laid(gone)
    BY <2>3, SameCardsLaid
  <2>5. Laid(Abort(t))
    BY <2>1, RequireLaid
  <2> QED
    BY <2>2, <2>4, <2>5
<1> HIDE DEF gone
<1>3. SameCards(gone, freed) /\ Alike(gone, freed)
  BY <1>2 DEF SameCards, Alike, Steady, Formed, TableFields, Unopened
<1> HIDE DEF freed
<1>4. Steady(freed) /\ Laid(freed) /\ (~gone.betting.open => Resting(freed))
  BY <1>2, <1>3, AlikeSteady, SameCardsLaid DEF Resting
<1>5. passed = gone \/ passed = AdvanceShuffle(freed)
  BY DEF ShufflePassed, freed
<1> HIDE DEF passed
<1>6. /\ Steady(passed) /\ Laid(passed)
      /\ ~gone.betting.open => ~passed.betting.open
  <2>1. CASE ~gone.betting.open
    BY <2>1, <1>2, <1>4, <1>5, AdvanceShuffleLaid, AdvanceShuffleResting DEF Resting
  <2>2. CASE gone.betting.open
    <3>1. AdvanceShuffle(freed) = freed
      BY <2>2, <1>2, <1>3 DEF AdvanceShuffle, Alike, Steady, Rounded
    <3> QED
      BY <2>2, <3>1, <1>2, <1>4, <1>5
  <2> QED
    BY <2>1, <2>2
<1>7. \/ turned = passed
      \/ passed.betting.open /\ turned = EndWithoutShowdown(passed)
      \/ passed.betting.open /\ turned = AdvanceTurn(passed)
  BY DEF TurnPassed, IsBettingRound
<1> HIDE DEF turned
<1>8. Laid(turned) /\ DOMAIN turned = TableFields
  <2>1. DOMAIN passed = TableFields
    BY <1>6 DEF Steady, Formed
  <2>2. Laid(EndWithoutShowdown(passed)) /\ Steady(EndWithoutShowdown(passed))
    BY <1>6, <2>1, EndWithoutShowdownLaid, EndWithoutShowdownTurned DEF Turned
  <2>3. passed.betting.open => Laid(AdvanceTurn(passed)) /\ Steady(AdvanceTurn(passed))
    <3>1. passed.betting.open => Street(passed) /\ passed.reveal.phase = "none"
      BY <1>6, BettingStreet DEF Steady, Rounded
    <3> QED
      BY <3>1, <1>6, AdvanceTurnLaid, AdvanceTurnTurned DEF Turned
  <2> QED
    BY <1>6, <1>7, <2>1, <2>2, <2>3 DEF Steady, Formed
<1> QED
  BY <1>1, <1>2, <1>8, ResetLaid

\* Kicking one seat after another while no bets are taken.
LEMMA KickAllLaid ==
    ASSUME NEW t, Resting(t), Laid(t), NEW order, Len(order) \in Nat,
           \A i \in 1 .. Len(order) : order[i] \in Seats
    PROVE  Laid(KickAll(t, order))
<1> DEFINE n == Len(order)
<1>1. PICK after : /\ after[0] = t
                   /\ \A i \in 1 .. n : after[i] = KickIfSeated(after[i - 1], order[i])
                   /\ KickAll(t, order) = after[n]
  BY KickAllSteps
<1> DEFINE Right == {k \in 0 .. n : Resting(after[k]) /\ Laid(after[k])}
<1>2. \A k \in 0 .. n : k \in Right
  <2>1. 0 \in Right
    <3>1. after[0] = t
      BY <1>1
    <3> QED
      BY <3>1
  <2>2. ASSUME NEW k \in 1 .. n, k - 1 \in Right
        PROVE  k \in Right
    <3> DEFINE u == after[k - 1]
    <3>1. after[k] = KickIfSeated(u, order[k]) /\ order[k] \in Seats
      BY <1>1
    <3>2. Resting(u) /\ Laid(u)
      BY <2>2
    <3> HIDE DEF u
    <3>3. Resting(KickIfSeated(u, order[k])) /\ Laid(KickIfSeated(u, order[k]))
      BY <3>1, <3>2, RestingTurned, KickTurned, KickLaid DEF KickIfSeated
    <3> QED
      BY <3>1, <3>3
  <2> HIDE DEF Right
  <2> QED
    BY <2>1, <2>2, UpTo
<1>3. n \in Right
  BY <1>2
<1> QED
  BY <1>1, <1>3

\* do_start_hand opens the shuffle before the flop.
LEMMA DoStartHandLaid ==
    ASSUME NEW t, Steady(t), Laid(t), t.round = "waiting"
    PROVE  Laid(DoStartHand(t))
<1> DEFINE next == NextAround(OccupiedSeats(t), t.button)
           pending == PendingSeats(t)
           v == [[MoveButton(t) EXCEPT !.timers.shuffle = FALSE]
                    EXCEPT !.shuffle.pending = pending,
                           !.shuffle.phase = "before_preflop"]
           allowed == t.round = "waiting" /\ CountActiveOccupied(t) >= MinPlayers
<1>1. ~t.betting.open
  BY DEF Steady, Rounded, Asked
<1>2. OccupiedSeats(t) # {} => next \in Int
  <2>1. OccupiedSeats(t) \subseteq Seats /\ Seats \subseteq Int
    BY TableAssumption DEF OccupiedSeats, Seats
  <2> QED
    BY <2>1, NextAroundMember DEF Steady
<1> HIDE DEF next, pending
<1>3. MoveButton(t) = t \/ (next \in Int /\ MoveButton(t) = [t EXCEPT !.button = next])
  BY <1>2 DEF MoveButton, next
<1>4. Resting(v)
  BY <1>1, <1>3 DEF Resting, Steady, Formed, Rounded, TableFields
<1>5. /\ v.board = t.board /\ v.ready = t.ready /\ v.round = "waiting"
      /\ v.betting = t.betting /\ v.reveal = t.reveal
  BY <1>3 DEF Steady, Formed, TableFields
<1>6. DoStartHand(t) = Require(AdvanceShuffle(v), allowed)
  BY DEF DoStartHand, pending
<1> HIDE DEF v
<1>7. Laid(v)
  BY <1>1, <1>5 DEF Laid
<1>8. Laid(AdvanceShuffle(v)) /\ DOMAIN AdvanceShuffle(v) = TableFields
  BY <1>4, <1>7, AdvanceShuffleLaid, AdvanceShuffleResting DEF Resting, Steady, Formed
<1> QED
  BY <1>6, <1>8, RequireLaid

\* All active seats shuffle.
LEMMA ReshuffleLaid ==
    ASSUME NEW t, Resting(t), Laid(t), NEW phase,
           phase = "before_preflop" => t.round = "waiting"
    PROVE  Laid(AdvanceShuffle(ShuffleAmongActive(t, phase)))
<1> DEFINE v == ShuffleAmongActive(t, phase)
<1>1. Resting(v)
  BY DEF ShuffleAmongActive, Resting, Steady, Formed, Rounded, TableFields
<1>2. /\ v.board = t.board /\ v.ready = t.ready /\ v.round = t.round
      /\ v.betting = t.betting /\ v.shuffle.phase = phase /\ v.reveal = t.reveal
  BY DEF ShuffleAmongActive, Resting, Steady, Formed, TableFields
<1> HIDE DEF v
<1>3. Laid(v)
  BY <1>2 DEF Laid, Unopened
<1>4. Laid(AdvanceShuffle(v))
  BY <1>1, <1>3, AdvanceShuffleLaid
<1> QED
  BY <1>4 DEF v

\* A rebuilt deck leaves the board alone.
LEMMA RebuildDeckCards ==
    ASSUME NEW t, DOMAIN t = TableFields
    PROVE  SameCards(t, RebuildDeck(t))
BY DEF RebuildDeck, SameCards, TableFields, Unopened

\* on_complete_reconstruct
LEMMA OnCompleteReconstructLaid ==
    ASSUME NEW t, Resting(t), Laid(t)
    PROVE  Laid(OnCompleteReconstruct(t))
<1> DEFINE r == RebuildDeck(t)
           v == [r EXCEPT !.reconstruct.phase = "none"]
<1>1. Resting(r) /\ Laid(r)
  BY RebuildDeckResting, RebuildDeckCards, SameCardsLaid DEF Resting, Steady, Formed
<1>2. OnCompleteReconstruct(t) = AdvanceShuffle(ShuffleAmongActive(v, "reconstruct"))
  BY DEF OnCompleteReconstruct
<1> HIDE DEF r
<1>3. Resting(v) /\ SameCards(r, v)
  BY <1>1 DEF Resting, Steady, Formed, Rounded, TableFields, SameCards, Unopened
<1> HIDE DEF v
<1>4. Laid(v)
  BY <1>1, <1>3, SameCardsLaid
<1> QED
  BY <1>2, <1>3, <1>4, ReshuffleLaid

\* What a timeout does after its kicks.
LEMMA AfterKicksLaid ==
    ASSUME NEW t, DOMAIN t = TableFields, Laid(t), NEW goOn, Laid(goOn)
    PROVE  Laid(AfterKicks(t, goOn))
BY RefundThenResetLaid, EndWithoutShowdownLaid DEF AfterKicks

\* on_reconstruct_timeout
LEMMA OnReconstructTimeoutLaid ==
    ASSUME NEW t, Resting(t), Laid(t), t.reconstruct.pending \subseteq Seats
    PROVE  Laid(OnReconstructTimeout(t))
<1> DEFINE order == Ascending(t.reconstruct.pending)
           u == KickAll(t, order)
<1>1. Len(order) \in Nat /\ \A i \in 1 .. Len(order) : order[i] \in Seats
  <2>1. t.reconstruct.pending \in SUBSET Int /\ IsFiniteSet(t.reconstruct.pending)
    BY SomeSeatsFinite, TableAssumption DEF Seats
  <2>2. Len(order) = Cardinality(t.reconstruct.pending) /\ Len(order) \in Nat
    BY <2>1, AscendingLists
  <2> QED
    BY <2>1, <2>2, AscendingMembers
<1> HIDE DEF order
<1>2. Resting(u) /\ Laid(u)
  BY <1>1, KickAllResting, KickAllLaid
<1>3. OnReconstructTimeout(t) = AfterReconstructKicks(u)
  BY DEF OnReconstructTimeout, order
<1> HIDE DEF u
<1>4. DOMAIN u = TableFields
  BY <1>2 DEF Resting, Steady, Formed
<1> QED
  BY <1>2, <1>3, <1>4, RefundThenResetLaid, EndWithoutShowdownLaid,
     OnCompleteReconstructLaid DEF AfterReconstructKicks

\* on_reveal_timeout
LEMMA OnRevealTimeoutLaid ==
    ASSUME NEW t, Resting(t), Laid(t), DOMAIN t.reveal.asg \subseteq Nat
    PROVE  Laid(OnRevealTimeout(t))
<1> DEFINE order == RevealDebtors(t)
           u == KickAll(t, order)
<1>1. Len(order) \in Nat /\ \A i \in 1 .. Len(order) : order[i] \in Seats
  BY DebtorsListed
<1> HIDE DEF order
<1>2. Resting(u) /\ Laid(u)
  BY <1>1, KickAllResting, KickAllLaid
<1>3. OnRevealTimeout(t) = RestartAfterKicks(u) \/ OnRevealTimeout(t) = ReconstructAfterKicks(u)
  BY DEF OnRevealTimeout, order
<1> HIDE DEF u
<1>4. DOMAIN u = TableFields
  BY <1>2 DEF Resting, Steady, Formed
<1>5. SameCards(u, StartReconstruct(u))
  BY <1>4 DEF StartReconstruct, SameCards, TableFields, Unopened
<1>6. Laid(StartReconstruct(u)) /\ Laid(ResetForNextHand(RefundAllBets(u)))
  BY <1>2, <1>4, <1>5, SameCardsLaid, RefundThenResetLaid
<1> QED
  BY <1>2, <1>3, <1>4, <1>6, AfterKicksLaid DEF RestartAfterKicks, ReconstructAfterKicks

\* on_shuffle_timeout
LEMMA OnShuffleTimeoutLaid ==
    ASSUME NEW t, Good(t), Resting(t), Laid(t), t.shuffle.current \in Seats
    PROVE  Laid(OnShuffleTimeout(t))
<1> DEFINE s == t.shuffle.current
           u == KickPlayerInternal(t, s)
           decks == u.reconstruct.decks \ {s}
           v == [u EXCEPT !.reconstruct.decks = decks]
           rebuilt == RebuildDeck(v)
           again == AdvanceShuffle(ShuffleAmongActive(u, "before_preflop"))
           anew == AdvanceShuffle(ShuffleAmongActive(rebuilt, "reconstruct"))
<1>1. Resting(u) /\ Laid(u)
  BY KickTurned, KickLaid, RestingTurned
<1>2. u.shuffle.phase \in {t.shuffle.phase, "none"}
  BY KickGood
<1>3. \/ OnShuffleTimeout(t) \in {t, AfterKicks(u, u), AfterKicks(u, anew)}
      \/ /\ t.shuffle.phase = "before_preflop" /\ u.shuffle.phase # "none"
         /\ OnShuffleTimeout(t) = AfterKicks(u, again)
  BY DEF OnShuffleTimeout, ReshuffleAfterKick, RebuildAfterKick
<1> HIDE DEF u, decks
<1>4. Resting(v) /\ SameCards(u, v)
  BY <1>1 DEF Resting, Steady, Formed, Rounded, TableFields, SameCards, Unopened
<1> HIDE DEF v
<1>5. Resting(rebuilt) /\ Laid(rebuilt)
  <2>1. Laid(v) /\ DOMAIN v = TableFields
    BY <1>1, <1>4, SameCardsLaid DEF Resting, Steady, Formed
  <2> QED
    BY <1>4, <2>1, RebuildDeckResting, RebuildDeckCards, SameCardsLaid
<1> HIDE DEF rebuilt
<1>6. Laid(anew)
  BY <1>5, ReshuffleLaid
<1>7. t.shuffle.phase = "before_preflop" /\ u.shuffle.phase # "none" => Laid(again)
  <2>1. u.shuffle.phase = "before_preflop" => Laid(again)
    BY <1>1, ReshuffleLaid DEF Laid
  <2> QED
    BY <1>2, <2>1
<1>8. DOMAIN u = TableFields
  BY <1>1 DEF Resting, Steady, Formed
<1> HIDE DEF again, anew
<1> QED
  BY <1>1, <1>3, <1>6, <1>7, <1>8, AfterKicksLaid

-----------------------------------------------------------------------------
(* Bets and seats: chips do not matter to the board.                       *)

\* fold, auto_fold and force_fold
LEMMA FoldsLaid ==
    ASSUME NEW s \in Seats, Turned(table), Laid(table),
           Fold(s) \/ AutoFold(s) \/ ForceFold(s)
    PROVE  Laid(table')
<1>1. table.betting.open /\ table' = DoFold(table, s)
  BY DEF Fold, AutoFold, ForceFold, OnTurn, Commit, IsBettingRound
<1> QED
  BY <1>1, DoFoldLaid DEF Turned

\* check and call
LEMMA CheckCallLaid ==
    ASSUME NEW s \in Seats, Turned(table), Laid(table), Check(s) \/ Call(s)
    PROVE  Laid(table')
<1> DEFINE paid == [table EXCEPT !.seats[s] =
                       PutIn(@, CallAmount(table.betting, table.seats[s]))]
<1>1. /\ table.betting.open
      /\ \/ table' = AdvanceTurn(Acted(table, s))
         \/ table' = AdvanceTurn(Acted(paid, s))
  BY DEF Check, Call, OnTurn, Commit, IsBettingRound
<1>2. Street(table)
  BY <1>1, BettingStreet DEF Turned
<1>3. Street(paid) /\ paid.betting.open
  BY <1>1, <1>2 DEF Street, TableFields
<1> HIDE DEF paid
<1>4. /\ Street(Acted(table, s)) /\ Acted(table, s).betting.open
      /\ Street(Acted(paid, s)) /\ Acted(paid, s).betting.open
  BY <1>1, <1>2, <1>3 DEF Acted, Street, TableFields
<1> QED
  BY <1>1, <1>4, AdvanceTurnLaid

\* raise
LEMMA RaiseLaid ==
    ASSUME NEW s \in Seats, NEW total, Turned(table), Laid(table), Raise(s, total)
    PROVE  Laid(table')
<1> DEFINE raised == [table EXCEPT
                         !.betting = RaisedRound(@, total),
                         !.seats[s] = PutIn(@, total - table.seats[s].bet)]
           acted == Acted(raised, s)
           u == ResetOtherPlayersActed(acted, s)
<1>1. table.betting.open /\ table' = AdvanceTurn(u)
  BY DEF Raise, OnTurn, Commit, IsBettingRound
<1>2. Street(table)
  BY <1>1, BettingStreet DEF Turned
<1>3. Street(raised) /\ raised.betting.open
  <2>1. RaisedRound(table.betting, total).open
    BY <1>1 DEF RaisedRound, Turned, Steady, Formed
  <2> QED
    BY <1>2, <2>1 DEF Street, TableFields
<1> HIDE DEF raised
<1>4. Street(acted) /\ acted.betting.open
  BY <1>3 DEF Acted, Street, TableFields
<1> HIDE DEF acted
<1>5. Street(u) /\ u.betting.open
  BY <1>4 DEF ResetOtherPlayersActed, Street, TableFields
<1> HIDE DEF u
<1> QED
  BY <1>1, <1>5, AdvanceTurnLaid

\* join_table and join_and_shuffle
LEMMA JoinLaid ==
    ASSUME NEW p \in Players, NEW s \in Seats, NEW coin, Turned(table), Laid(table),
           JoinTable(p, s, coin) \/ JoinAndShuffle(p, s, coin)
    PROVE  Laid(table')
<1> DEFINE waits == IsPlaying(table)
           late == Seated(table, p, s, coin, waits)
           early == AddPk(Seated(table, p, s, coin, FALSE), p)
           shuffled == [early EXCEPT !.shuffle.completed = @ \cup {s},
                                     !.shuffle.pending = @ \ {s}]
<1>1. table' \in {late, AddPk(late, p), shuffled}
  BY DEF JoinTable, JoinAndShuffle, Commit
<1>2. Formed(table)
  BY DEF Turned, Steady
<1>3. /\ SameCards(table, late) /\ SameCards(table, AddPk(late, p))
      /\ SameCards(table, shuffled)
  BY <1>2 DEF Seated, AddPk, SameCards, Formed, TableFields, Unopened
<1> HIDE DEF late, shuffled
<1> QED
  BY <1>1, <1>3, SameCardsLaid

\* A player who departs leaves the board alone.
LEMMA DepartedCards ==
    ASSUME NEW t, DOMAIN t = TableFields, NEW s
    PROVE  SameCards(t, Departed(t, s))
<1> DEFINE paid == RefundSui(t, t.seats[s].stack)
<1>1. DOMAIN paid = TableFields /\ SameCards(t, paid)
  BY DEF RefundSui, Require, Abort, SameCards, TableFields, Unopened
<1>2. Departed(t, s) = [paid EXCEPT !.seats[s] = EmptySeat]
  BY DEF Departed
<1> HIDE DEF paid
<1> QED
  BY <1>1, <1>2 DEF SameCards, TableFields, Unopened

\* leave_with_proof and leave_table
LEMMA LeaveLaid ==
    ASSUME NEW s \in Seats, Turned(table), Laid(table),
           LeaveWithProof(s) \/ LeaveTable(s)
    PROVE  Laid(table')
<1> DEFINE unkeyed == RemovePk(table, table.seats[s].player)
           v == [unkeyed EXCEPT !.shuffle.pending = @ \ {s},
                                !.shuffle.completed = @ \ {s}]
<1>1. \E u \in {table, unkeyed, v} : table' = Departed(u, s)
  BY DEF LeaveWithProof, LeaveTable, Commit
<1>2. Formed(table)
  BY DEF Turned, Steady
<1>3. \A u \in {table, unkeyed, v} : DOMAIN u = TableFields /\ SameCards(table, u)
  <2>1. DOMAIN table = TableFields /\ SameCards(table, table)
    BY <1>2 DEF Formed, SameCards
  <2>2. DOMAIN unkeyed = TableFields /\ SameCards(table, unkeyed)
    BY <1>2 DEF RemovePk, SameCards, Formed, TableFields, Unopened
  <2>3. DOMAIN unkeyed.shuffle = {"phase", "current", "pending", "completed"}
    BY <1>2 DEF RemovePk, Formed, TableFields
  <2> HIDE DEF unkeyed
  <2>4. DOMAIN v = TableFields /\ SameCards(table, v)
    BY <2>2, <2>3 DEF SameCards, TableFields, Unopened
  <2> QED
    BY <2>1, <2>2, <2>4
<1> HIDE DEF unkeyed, v
<1> QED
  BY <1>1, <1>3, SameCardsLaid, DepartedCards

-----------------------------------------------------------------------------
(* The card protocol.                                                      *)

\* start_hand
LEMMA StartHandLaid ==
    ASSUME Turned(table), Laid(table), StartHand
    PROVE  Laid(table')
<1>1. Steady(table) /\ DOMAIN table = TableFields
  BY DEF Turned, Steady, Formed
<1> QED
  BY <1>1, StartHandAllowed, DoStartHandLaid

\* submit_shuffle
LEMMA SubmitShuffleLaid ==
    ASSUME NEW s \in Seats, Turned(table), Laid(table), SubmitShuffle(s)
    PROVE  Laid(table')
<1> DEFINE u == [table EXCEPT !.shuffle.completed = @ \cup {s},
                              !.shuffle.pending = @ \ {s}]
<1>1. table' = AdvanceShuffle(u) /\ table.shuffle.phase # "none"
  BY DEF SubmitShuffle, Commit
<1>2. Resting(u) /\ SameCards(table, u)
  BY <1>1 DEF Turned, Resting, Steady, Formed, Rounded, TableFields, SameCards, Unopened
<1> HIDE DEF u
<1> QED
  BY <1>1, <1>2, SameCardsLaid, AdvanceShuffleLaid

\* submit_reconstruct_deck
LEMMA SubmitReconstructDeckLaid ==
    ASSUME NEW s \in Seats, Turned(table), Laid(table), SubmitReconstructDeck(s)
    PROVE  Laid(table')
<1> DEFINE u == [table EXCEPT !.reconstruct.pending = @ \ {s},
                              !.reconstruct.decks = @ \cup {s}]
<1>1. /\ table.reconstruct.phase = "collecting"
      /\ table' = u \/ table' = OnCompleteReconstruct(u)
  BY DEF SubmitReconstructDeck, Commit
<1>2. Resting(u) /\ SameCards(table, u)
  BY <1>1 DEF Turned, Resting, Steady, Formed, Rounded, TableFields, SameCards, Unopened
<1> HIDE DEF u
<1> QED
  BY <1>1, <1>2, SameCardsLaid, OnCompleteReconstructLaid

-----------------------------------------------------------------------------
(* The tick.                                                               *)

\* A started timer leaves the board alone.
LEMMA TimersCards ==
    ASSUME NEW t, DOMAIN t = TableFields, NEW timers
    PROVE  SameCards(t, [t EXCEPT !.timers = timers])
BY DEF SameCards, TableFields, Unopened

\* tick, while cards are shuffled
LEMMA TickShuffleLaid ==
    ASSUME NEW t, Good(t), Turned(t), Laid(t), t.shuffle.phase # "none", NEW expired
    PROVE  Laid(TickShuffle(t, expired))
<1> DEFINE timers == [t.timers EXCEPT !.shuffle = TRUE]
<1>1. \/ TickShuffle(t, expired) = AdvanceShuffle(t)
      \/ TickShuffle(t, expired) = OnShuffleTimeout(t)
      \/ TickShuffle(t, expired) = [t EXCEPT !.timers = timers]
  BY DEF TickShuffle, Turned, Steady, Formed, TableFields
<1> HIDE DEF timers
<1>2. Resting(t) /\ DOMAIN t = TableFields
  BY DEF Turned, Resting, Steady, Formed, Rounded
<1>3. t.shuffle.current \in Seats
  BY ActiveAreSeats DEF Good, Sound, Covers, Led
<1> QED
  BY <1>1, <1>2, <1>3, AdvanceShuffleLaid, OnShuffleTimeoutLaid, TimersCards, SameCardsLaid

\* tick, while cards are opened: the phase may be complete, and the next one
\* may be timed out at once.
LEMMA TickRevealLaid ==
    ASSUME NEW t, Good(t), Turned(t), Laid(t), Calm(t), NEW expired, NEW ranks
    PROVE  Laid(TickReveal(t, expired, ranks))
<1> DEFINE u == Answered(t, ranks)
           timers == [u.timers EXCEPT !.reveal = TRUE]
<1>1. Turned(u)
  BY CheckRevealTurned DEF Answered, Good, Sound
<1>2. Good(u)
  BY AnsweredOnward DEF Onward
<1>3. Laid(u)
  BY CheckRevealLaid DEF Answered, Good, Sound, Turned
<1> HIDE DEF u
<1>4. \/ TickReveal(t, expired, ranks) = u
      \/ /\ u.reveal.phase # "none"
         /\ \/ TickReveal(t, expired, ranks) = OnRevealTimeout(u)
            \/ TickReveal(t, expired, ranks) = [u EXCEPT !.timers = timers]
  BY <1>1 DEF TickReveal, RevealTimed, u, Turned, Steady, Formed, TableFields
<1> HIDE DEF timers
<1>5. DOMAIN u = TableFields
  BY <1>1 DEF Turned, Steady, Formed
<1>6. ASSUME u.reveal.phase # "none"
      PROVE  Resting(u) /\ DOMAIN u.reveal.asg \subseteq Nat
  BY <1>1, <1>2, <1>6 DEF Turned, Resting, Steady, Rounded, Good, Sound, Asking
<1> QED
  BY <1>3, <1>4, <1>5, <1>6, OnRevealTimeoutLaid, TimersCards, SameCardsLaid

\* tick, while bets are taken
LEMMA TickBettingLaid ==
    ASSUME NEW t, Turned(t), Laid(t), IsBettingRound(t), NEW expired
    PROVE  Laid(TickBetting(t, expired))
<1> DEFINE timers == [t.timers EXCEPT !.betting = TRUE]
<1>1. t.betting.open /\ Steady(t) /\ DOMAIN t = TableFields
  BY DEF IsBettingRound, Turned, Steady, Formed
<1>2. Laid(AdvanceRound(CollectBetsToPot(t)))
  BY <1>1, BettingStreet, CollectBetsStreet, AdvanceRoundLaid
<1>3. \/ TickBetting(t, expired) = AdvanceRound(CollectBetsToPot(t))
      \/ TickBetting(t, expired) = DoFold(t, t.turn)
      \/ TickBetting(t, expired) = [t EXCEPT !.timers = timers]
  BY <1>1 DEF TickBetting, TableFields
<1> HIDE DEF timers
<1> QED
  BY <1>1, <1>2, <1>3, DoFoldLaid, TimersCards, SameCardsLaid

\* tick, while the hands are shown
LEMMA TickShowdownLaid ==
    ASSUME NEW t, Good(t), Laid(t), NEW expired, NEW ranks
    PROVE  Laid(TickShowdown(t, expired, ranks))
<1> DEFINE timers == [t.timers EXCEPT !.showdown = TRUE]
           u == [t EXCEPT !.timers = timers]
<1>1. Shaped(t) /\ DOMAIN t = TableFields
  BY DEF Good, Sound, Shaped
<1>2. TickShowdown(t, expired, ranks) \in {SettleHand(u, ranks), u}
  BY <1>1 DEF TickShowdown, TableFields
<1> HIDE DEF timers
<1>3. Shaped(u) /\ Laid(u)
  <2>1. Shaped(u)
    BY <1>1 DEF Shaped, TableFields
  <2>2. SameCards(t, u)
    BY <1>1, TimersCards
  <2> QED
    BY <2>1, <2>2, SameCardsLaid
<1> HIDE DEF u
<1> QED
  BY <1>2, <1>3, SettleHandLaid

\* tick, in whatever phase the table is
LEMMA TickedLaid ==
    ASSUME NEW t, Good(t), Turned(t), Laid(t), NEW expired, NEW ranks
    PROVE  Laid(Ticked(t, expired, ranks))
<1>1. CASE t.reconstruct.phase # "none"
  <2>1. Ticked(t, expired, ranks) = TickReconstruct(t, expired)
    BY <1>1 DEF Ticked, IsPlaying
  <2>2. Resting(t) /\ t.reconstruct.pending \subseteq Seats
    BY <1>1 DEF Turned, Resting, Steady, Rounded, Good, Sound, Shaped
  <2> QED
    BY <2>1, <2>2, OnReconstructTimeoutLaid DEF TickReconstruct
<1>2. CASE t.reconstruct.phase = "none" /\ t.shuffle.phase # "none"
  <2>1. Ticked(t, expired, ranks) = TickShuffle(t, expired)
    BY <1>2 DEF Ticked, IsPlaying
  <2> QED
    BY <1>2, <2>1, TickShuffleLaid
<1>3. CASE /\ t.reconstruct.phase = "none" /\ t.shuffle.phase = "none"
           /\ t.reveal.phase # "none"
  <2>1. Ticked(t, expired, ranks) = TickReveal(t, expired, ranks)
    BY <1>3 DEF Ticked, IsPlaying
  <2> QED
    BY <1>3, <2>1, TickRevealLaid DEF Calm
<1>4. CASE Still(t)
  <2>1. CASE ~IsPlaying(t)
    <3>1. Ticked(t, expired, ranks) = TickWaiting(t)
      BY <1>4, <2>1 DEF Ticked, Still
    <3>2. t.round = "waiting" /\ Steady(t)
      BY <2>1 DEF IsPlaying, Turned
    <3> QED
      BY <3>1, <3>2, DoStartHandLaid DEF TickWaiting
  <2>2. CASE IsPlaying(t)
    <3>1. \/ IsBettingRound(t) /\ Ticked(t, expired, ranks) = TickBetting(t, expired)
          \/ Ticked(t, expired, ranks) = TickShowdown(t, expired, ranks)
          \/ Ticked(t, expired, ranks) = ResetForNextHand(RefundAllBets(t))
      BY <1>4, <2>2 DEF Ticked, Still
    <3>2. Laid(ResetForNextHand(RefundAllBets(t)))
      BY RefundThenResetLaid DEF Turned, Steady, Formed
    <3> QED
      BY <3>1, <3>2, TickBettingLaid, TickShowdownLaid
  <2> QED
    BY <2>1, <2>2
<1> QED
  BY <1>1, <1>2, <1>3, <1>4 DEF Still

\* As many cards are asked for anew as turned out to be blank.
LEMMA DealtAgain ==
    ASSUME NEW t, Good(t), t.reveal.phase # "none",
           NEW blank, blank \subseteq DOMAIN t.reveal.asg,
           \A a \in blank : t.reveal.asg[a].decrypted
    PROVE  LET n == Cardinality(blank)
               indices == Ascending(DOMAIN t.reveal.asg \ blank)
               kept == [i \in DOMAIN indices |-> t.reveal.asg[indices[i]]]
               again == CommunityAssignments(t, n)
               asg == kept \o [k \in 1 .. n |-> again[n + 1 - k]]
               open == {a \in DOMAIN asg : ~asg[a].decrypted}
           IN  /\ IsFiniteSet(open)
               /\ Cardinality(open) = Cardinality(Unopened(t)) + n
<1> DEFINE n == Cardinality(blank)
           rest == DOMAIN t.reveal.asg \ blank
           m == Cardinality(rest)
           indices == Ascending(rest)
           kept == [i \in DOMAIN indices |-> t.reveal.asg[indices[i]]]
           again == CommunityAssignments(t, n)
           new == [k \in 1 .. n |-> again[n + 1 - k]]
           asg == kept \o new
           open == {a \in DOMAIN asg : ~asg[a].decrypted}
           I == {i \in 1 .. m : indices[i] \in Unopened(t)}
           J == m + 1 .. m + n
<1>1. /\ IsFiniteSet(rest) /\ rest \in SUBSET Int /\ n \in Nat /\ m \in Nat
  <2>1. IsFiniteSet(DOMAIN t.reveal.asg) /\ DOMAIN t.reveal.asg \subseteq Nat
    BY DEF Good, Sound, Asking
  <2>2. IsFiniteSet(blank) /\ IsFiniteSet(rest)
    BY <2>1, FS_Subset
  <2> QED
    BY <2>1, <2>2, FS_CardinalityType
<1>2. /\ DOMAIN indices = 1 .. m
      /\ \A i \in 1 .. m : indices[i] \in rest
  BY <1>1, AscendingLists, AscendingMembers
<1>3. IsFiniteSet(I) /\ Cardinality(I) = Cardinality(Unopened(t))
  <2>1. Unopened(t) \subseteq rest
    BY DEF Unopened
  <2> QED
    BY <1>1, <2>1, AscendingSelects
<1>4. IsFiniteSet(J) /\ Cardinality(J) = n
  <2> HIDE DEF n, m
  <2>1. m + 1 \in Int /\ m + n \in Int /\ (m + 1 > m + n <=> n = 0)
    BY <1>1
  <2>2. /\ IsFiniteSet(J)
        /\ Cardinality(J) = IF m + 1 > m + n THEN 0 ELSE (m + n) - (m + 1) + 1
    BY <2>1, FS_Interval
  <2>3. (m + n) - (m + 1) + 1 = n
    BY <1>1
  <2> QED
    BY <2>1, <2>2, <2>3
<1>5. \A i \in 1 .. m : (i \in I <=> ~t.reveal.asg[indices[i]].decrypted)
  BY <1>2 DEF Unopened
<1> HIDE DEF n, rest, m, indices
<1>6. /\ DOMAIN kept = 1 .. m /\ kept = [i \in 1 .. m |-> kept[i]]
      /\ \A i \in 1 .. m : i \in I <=> ~kept[i].decrypted
  BY <1>2, <1>5
<1>7. /\ DOMAIN new = 1 .. n /\ new = [k \in 1 .. n |-> new[k]]
      /\ \A k \in 1 .. n : ~new[k].decrypted
  <2>1. \A k \in 1 .. n : n + 1 - k \in 1 .. n
    BY <1>1
  <2> QED
    BY <2>1 DEF CommunityAssignments, Assignment
<1>8. I \subseteq 1 .. m
  OBVIOUS
<1> HIDE DEF kept, new, I
<1>9. /\ DOMAIN asg = 1 .. m + n
      /\ \A i \in 1 .. m : asg[i] = kept[i]
      /\ \A i \in J : asg[i] = new[i - m]
  <2> DEFINE A == {kept[i] : i \in 1 .. m}
             B == {new[k] : k \in 1 .. n}
  <2>1. kept \in Seq(A) /\ Len(kept) = m
    BY <1>1, <1>6, Listed
  <2>2. new \in Seq(B) /\ Len(new) = n
    BY <1>1, <1>7, Listed
  <2> HIDE DEF A, B
  <2>3. kept \in Seq(A \cup B) /\ new \in Seq(A \cup B)
    BY <2>1, <2>2
  <2>4. /\ asg \in Seq(A \cup B) /\ Len(asg) = m + n
        /\ \A i \in 1 .. m + n : asg[i] = IF i <= m THEN kept[i] ELSE new[i - m]
    BY <2>1, <2>2, <2>3, ConcatProperties
  <2>5. DOMAIN asg = 1 .. m + n
    BY <2>4, LenProperties
  <2> HIDE DEF asg
  <2> QED
    BY <1>1, <2>4, <2>5
<1> HIDE DEF asg
<1>10. open = I \cup J
  <2>1. \A i \in J : i - m \in 1 .. n /\ ~asg[i].decrypted
    <3>1. \A i \in J : i - m \in 1 .. n
      BY <1>1
    <3> QED
      BY <3>1, <1>7, <1>9
  <2>2. \A i \in 1 .. m : ~asg[i].decrypted <=> i \in I
    BY <1>6, <1>9
  <2>3. \A i \in 1 .. m + n : i \in 1 .. m \/ i \in J
    BY <1>1
  <2>4. 1 .. m \subseteq 1 .. m + n /\ J \subseteq 1 .. m + n
    BY <1>1
  <2>5. 1 .. m \cap J = {}
    BY <1>1
  <2> HIDE DEF J
  <2> QED
    BY <1>8, <1>9, <2>1, <2>2, <2>3, <2>4, <2>5
<1>11. I \cap J = {}
  BY <1>1, <1>8
<1> HIDE DEF J, open
<1>12. IsFiniteSet(open) /\ Cardinality(open) = Cardinality(I) + Cardinality(J)
  <2>1. Cardinality(I) \in Nat /\ Cardinality(J) \in Nat
    BY <1>3, <1>4, FS_CardinalityType
  <2>2. /\ IsFiniteSet(I \cup J)
        /\ Cardinality(I \cup J) = Cardinality(I) + Cardinality(J) - Cardinality(I \cap J)
    BY <1>3, <1>4, FS_Union
  <2>3. Cardinality(I \cap J) = 0
    BY <1>11, FS_EmptySet
  <2> QED
    BY <1>10, <2>1, <2>2, <2>3
<1> QED
  BY <1>3, <1>4, <1>12 DEF open, asg, new, kept, indices, rest, n

\* Community cards opened: those that are blank are dealt again, the others
\* are ready for the board.
LEMMA CommunityOpenedLaid ==
    ASSUME NEW t, Good(t), t.reveal.phase \in {"flop", "turn", "river"},
           t.round = t.reveal.phase, ~t.betting.open,
           t.board = BoardBefore[t.round], t.ready \in Nat,
           NEW done, done \subseteq DOMAIN t.reveal.asg,
           \A a \in done : t.reveal.asg[a].decrypted,
           IsFiniteSet(Unopened(t)),
           t.ready + Cardinality(done) + Cardinality(Unopened(t)) = StreetCards[t.round],
           NEW blank, blank \subseteq done
    PROVE  Laid(CommunityOpened(t, done, blank))
<1> DEFINE n == Cardinality(blank)
           indices == Ascending(DOMAIN t.reveal.asg \ blank)
           kept == [i \in DOMAIN indices |-> t.reveal.asg[indices[i]]]
           again == CommunityAssignments(t, n)
           asg == kept \o [k \in 1 .. n |-> again[n + 1 - k]]
           open == {a \in DOMAIN asg : ~asg[a].decrypted}
           ready == t.ready + Cardinality(done \ blank)
           dealt == [t EXCEPT !.ready = @ + Cardinality(done \ blank), !.blanks = @ - n]
           u == [dealt EXCEPT !.dealt = @ + n, !.reveal.asg = asg]
<1>1. /\ n \in Nat /\ Cardinality(done \ blank) \in Nat
      /\ Cardinality(Unopened(t)) \in Nat /\ Cardinality(done) \in Nat
      /\ Cardinality(done) = Cardinality(done \ blank) + n
  <2>1. IsFiniteSet(done)
    BY FS_Subset DEF Good, Sound, Asking
  <2>2. IsFiniteSet(blank) /\ IsFiniteSet(done \ blank)
    BY <2>1, FS_Subset
  <2>3. Cardinality(done \ blank) = Cardinality(done) - Cardinality(done \cap blank)
    BY <2>1, FS_Difference
  <2>4. done \cap blank = blank
    OBVIOUS
  <2>5. n \in Nat /\ Cardinality(done \ blank) \in Nat /\ Cardinality(done) \in Nat
    BY <2>1, <2>2, FS_CardinalityType
  <2>6. Cardinality(Unopened(t)) \in Nat
    BY FS_CardinalityType
  <2>7. Cardinality(done \ blank) = Cardinality(done) - n
    BY <2>3, <2>4
  <2> HIDE DEF n
  <2> QED
    BY <2>5, <2>6, <2>7
<1>2. IsFiniteSet(open) /\ Cardinality(open) = Cardinality(Unopened(t)) + n
  <2>1. blank \subseteq DOMAIN t.reveal.asg /\ \A a \in blank : t.reveal.asg[a].decrypted
    OBVIOUS
  <2> QED
    BY <2>1, DealtAgain
<1>3. \/ n = 0 /\ CommunityOpened(t, done, blank) = dealt
      \/ \E cond : CommunityOpened(t, done, blank) = Require(u, cond)
  BY DEF CommunityOpened
<1>4. Formed(t) /\ t.shuffle.phase # "before_preflop"
  BY ShapedFormed DEF Good, Sound, Exclusive
<1> HIDE DEF n, asg
<1> DEFINE Left(v) == /\ DOMAIN v = TableFields /\ v.ready = ready
                      /\ v.board = t.board /\ v.round = t.round
                      /\ v.betting = t.betting /\ v.shuffle = t.shuffle
                      /\ v.reveal.phase = t.reveal.phase
<1>5. Left(dealt) /\ dealt.reveal = t.reveal
  BY <1>4 DEF Formed, TableFields
<1> HIDE DEF dealt
<1>6. Left(u) /\ u.reveal.asg = asg
  BY <1>4, <1>5 DEF Formed, TableFields
<1> HIDE DEF u
<1>7. ready \in Nat /\ ready + (Cardinality(Unopened(t)) + n) = StreetCards[t.round]
  BY <1>1
<1> HIDE DEF ready
<1>8. n = 0 => Laid(dealt)
  <2>1. Unopened(dealt) = Unopened(t)
    BY <1>5 DEF Unopened
  <2>2. n = 0 => ready + Cardinality(Unopened(dealt)) = StreetCards[t.round]
    BY <1>1, <1>7, <2>1
  <2> QED
    BY <1>4, <1>5, <1>7, <2>1, <2>2 DEF Laid, RevealPhases
<1>9. Laid(u)
  <2>1. Unopened(u) = open
    BY <1>6 DEF Unopened
  <2> HIDE DEF open
  <2> QED
    BY <1>2, <1>4, <1>6, <1>7, <2>1 DEF Laid, RevealPhases
<1>10. DOMAIN u = TableFields
  BY <1>6
<1> HIDE DEF Left
<1> QED
  BY <1>3, <1>8, <1>9, <1>10, RequireLaid

\* submit_player_reveal_tokens: a card is ready once its last token is in.
LEMMA TokensOpenedLaid ==
    ASSUME NEW s \in Seats, NEW S, NEW blank, NEW ranks, Good(table), Turned(table),
           Laid(table), SubmitRevealTokens(s, S, blank, ranks)
    PROVE  Laid(TokensOpened(s, S, blank))
<1> DEFINE done == {a \in S : table.reveal.asg[a].pending = {s}}
           taken == TokensTaken(table, s, S)
           phase == table.reveal.phase
           opened == TokensOpened(s, S, blank)
<1>1. phase # "none" /\ S \subseteq OwedBy(table, s) /\ blank \subseteq done
  BY DEF SubmitRevealTokens
<1>2. Formed(table) /\ ~table.betting.open
  BY <1>1 DEF Turned, Steady, Rounded
<1>3. Good(taken)
  BY <1>1, TokensTakenGood
<1>4. /\ DOMAIN taken = TableFields /\ taken.board = table.board
      /\ taken.ready = table.ready /\ taken.round = table.round
      /\ taken.betting = table.betting /\ taken.shuffle = table.shuffle
      /\ taken.reveal.phase = phase
      /\ taken.reveal.asg = [a \in DOMAIN table.reveal.asg |->
            IF a \notin S THEN table.reveal.asg[a]
            ELSE [table.reveal.asg[a] EXCEPT
                     !.pending = @ \ {s},
                     !.decrypted = table.reveal.asg[a].pending = {s}]]
  BY <1>2 DEF TokensTaken, Formed, TableFields
<1>5. CASE phase \in {"preflop", "showdown"}
  <2>1. opened = HoleCardsOpened(taken, done) \/ opened = HoleCardsShown(taken, done)
    BY <1>5 DEF TokensOpened
  <2> HIDE DEF taken, done
  <2>2. /\ opened.board = table.board /\ opened.ready = table.ready
        /\ opened.round = table.round /\ opened.betting = table.betting
        /\ opened.shuffle = table.shuffle /\ opened.reveal.phase = phase
    BY <1>4, <2>1 DEF HoleCardsOpened, HoleCardsShown, TableFields
  <2> HIDE DEF opened
  <2>3. Laid(opened)
    BY <1>2, <1>5, <2>2 DEF Laid
  <2> QED
    BY <2>3 DEF opened
<1>6. CASE phase \notin {"preflop", "showdown"}
  <2>1. opened = CommunityOpened(taken, done, blank)
    BY <1>6 DEF TokensOpened
  <2>2. /\ phase \in {"flop", "turn", "river"} /\ phase \in Asked /\ table.round = phase
    BY <1>1, <1>6 DEF Laid, RevealPhases, Turned, Steady, Rounded, Asked
  <2>3. /\ table.board = BoardBefore[phase] /\ table.ready \in Nat
        /\ IsFiniteSet(Unopened(table))
        /\ table.ready + Cardinality(Unopened(table)) = StreetCards[phase]
    BY <1>2, <2>2 DEF Laid
  <2>4. \A a \in S : /\ a \in DOMAIN table.reveal.asg
                     /\ DOMAIN table.reveal.asg[a] =
                           {"card", "pending", "decrypted", "dealt_to"}
                     /\ ~table.reveal.asg[a].decrypted
    <3>1. \A a \in S : a \in DOMAIN table.reveal.asg /\ s \in table.reveal.asg[a].pending
      BY <1>1 DEF OwedBy
    <3> QED
      BY <2>2, <3>1 DEF Good, Sound, Asking
  <2>5. /\ DOMAIN taken.reveal.asg = DOMAIN table.reveal.asg
        /\ \A a \in DOMAIN table.reveal.asg \ S : taken.reveal.asg[a] = table.reveal.asg[a]
        /\ \A a \in S : taken.reveal.asg[a].decrypted <=> a \in done
    <3> HIDE DEF taken
    <3>1. ASSUME NEW a \in S
          PROVE  taken.reveal.asg[a].decrypted <=> a \in done
      <4> DEFINE asked == table.reveal.asg[a]
                 last == asked.pending = {s}
                 now == [asked EXCEPT !.pending = @ \ {s}, !.decrypted = last]
      <4>1. taken.reveal.asg[a] = now
        BY <1>4, <2>4
      <4>2. now.decrypted = last
        BY <2>4
      <4> HIDE DEF now
      <4> QED
        BY <4>1, <4>2
    <3>2. \A a \in DOMAIN table.reveal.asg \ S :
             taken.reveal.asg[a] = table.reveal.asg[a]
      BY <1>4
    <3> QED
      BY <1>4, <3>1, <3>2
  <2> HIDE DEF taken
  <2>6. done \subseteq S /\ done \subseteq DOMAIN taken.reveal.asg
    BY <2>4, <2>5
  <2> HIDE DEF done
  <2>7. /\ Unopened(table) = Unopened(taken) \cup done
        /\ Unopened(taken) \cap done = {}
    BY <2>4, <2>5, <2>6 DEF Unopened
  <2>8. /\ IsFiniteSet(Unopened(taken)) /\ IsFiniteSet(done)
        /\ Cardinality(Unopened(table)) = Cardinality(Unopened(taken)) + Cardinality(done)
    <3>1. IsFiniteSet(Unopened(taken)) /\ IsFiniteSet(done)
      BY <2>3, <2>7, FS_Subset
    <3>2. Cardinality(Unopened(taken)) \in Nat /\ Cardinality(done) \in Nat
      BY <3>1, FS_CardinalityType
    <3>3. Cardinality(Unopened(taken) \cap done) = 0
      BY <2>7, FS_EmptySet
    <3>4. Cardinality(Unopened(table))
             = Cardinality(Unopened(taken)) + Cardinality(done)
                 - Cardinality(Unopened(taken) \cap done)
      BY <2>7, <3>1, FS_Union
    <3> QED
      BY <3>1, <3>2, <3>3, <3>4
  <2>9. table.ready + Cardinality(done) + Cardinality(Unopened(taken)) = StreetCards[phase]
    <3>1. Cardinality(Unopened(taken)) \in Nat /\ Cardinality(done) \in Nat
      BY <2>8, FS_CardinalityType
    <3> QED
      BY <2>3, <2>8, <3>1
  <2>10. \A a \in done : taken.reveal.asg[a].decrypted
    BY <2>5, <2>6
  <2>11. /\ taken.reveal.phase \in {"flop", "turn", "river"}
         /\ taken.round = taken.reveal.phase /\ ~taken.betting.open
         /\ taken.board = BoardBefore[taken.round] /\ taken.ready \in Nat
         /\ taken.ready + Cardinality(done) + Cardinality(Unopened(taken))
               = StreetCards[taken.round]
    BY <1>2, <1>4, <2>2, <2>3, <2>9
  <2>12. Laid(CommunityOpened(taken, done, blank))
    BY <1>1, <1>3, <2>6, <2>8, <2>10, <2>11, CommunityOpenedLaid
  <2> QED
    BY <2>1, <2>12
<1> QED
  BY <1>5, <1>6

\* The phase the tokens were for may be complete then.
LEMMA SubmitRevealTokensLaid ==
    ASSUME NEW s \in Seats, NEW S, NEW blank, NEW ranks, Good(table), Turned(table),
           Laid(table), SubmitRevealTokens(s, S, blank, ranks)
    PROVE  Laid(table')
<1>1. table' = CheckRevealPhaseComplete(TokensOpened(s, S, blank), ranks)
  BY DEF SubmitRevealTokens, Commit, TokensOpened
<1>2. Steady(TokensOpened(s, S, blank))
  BY TokensOpenedResting DEF Resting
<1>3. Good(TokensOpened(s, S, blank)) /\ Laid(TokensOpened(s, S, blank))
  BY TokensOpenedGood, TokensOpenedLaid
<1> QED
  BY <1>1, <1>2, <1>3, CalmOrUnanswered, CheckRevealLaid DEF Good, Sound

-----------------------------------------------------------------------------
(* The invariant and what it implies.                                      *)

\* No entry point loses a card of the board.
LEMMA NextLaid ==
    ASSUME Good(table), Turned(table), Laid(table), [Next]_vars
    PROVE  Laid(table')
<1>1. CASE Join
  BY <1>1, JoinLaid DEF Join
<1>2. CASE Leave
  BY <1>2, LeaveLaid DEF Leave
<1>3. CASE StartHand
  BY <1>3, StartHandLaid
<1>4. CASE Protocol
  BY <1>4, SubmitShuffleLaid, SubmitRevealTokensLaid, SubmitReconstructDeckLaid DEF Protocol
<1>5. CASE Bet
  BY <1>5, FoldsLaid, CheckCallLaid, RaiseLaid DEF Bet
<1>6. CASE Relay
  BY <1>6, TickedLaid DEF Relay, Tick, Commit
<1>7. CASE Admin
  <2>1. PICK s \in Seats : ForceFold(s) \/ KickPlayer(s)
    BY <1>7 DEF Admin
  <2>2. CASE ForceFold(s)
    BY <2>2, FoldsLaid
  <2>3. CASE KickPlayer(s)
    BY <2>3, KickLaid DEF KickPlayer, Commit
  <2> QED
    BY <2>1, <2>2, <2>3
<1>8. CASE UNCHANGED vars
  BY <1>8 DEF vars
<1> QED
  BY <1>1, <1>2, <1>3, <1>4, <1>5, <1>6, <1>7, <1>8 DEF Next

\* A new table has an empty board.
LEMMA NewTableLaid == Laid(NewTable)
<1> DEFINE u == NewTable
<1>1. /\ u.board = 0 /\ u.ready = 0 /\ u.round = "waiting" /\ u.betting = NoRound
      /\ u.shuffle = EmptyShuffle /\ u.reveal = EmptyReveal
  BY DEF NewTable
<1> HIDE DEF u
<1>2. Laid(u)
  BY <1>1 DEF Laid, NoRound, EmptyShuffle, EmptyReveal, RevealPhases
<1> QED
  BY <1>2 DEF u

BoardInv == TurnInv /\ Laid(table)

\* Whenever bets are made or hands are shown, the board has exactly the cards
\* of its street, however often the deck was reconstructed and cards that were
\* known already were dealt again.
THEOREM BoardIsComplete == Spec => []BoardMatchesRound
<1>1. Init => BoardInv
  BY NewTableResting, RestingTurned, NewTableLaid DEF Init, BoardInv, TurnInv
<1>2. BoardInv /\ IInv /\ [Next]_vars => BoardInv'
  BY NextTurned, NextOk, NextLaid DEF BoardInv, TurnInv, IInv
<1>3. BoardInv => BoardMatchesRound
  BY DEF BoardInv, Laid, BoardMatchesRound
<1> QED
  BY <1>1, <1>2, <1>3, PhasesAreSound, PTL DEF Spec

-----------------------------------------------------------------------------
(* The cards.                                                              *)

\* What is known of the hole cards: each card is recorded once, at a seat, and
\* between two hands none is.
Recorded(t) ==
    /\ t.dealt \in Nat
    /\ t.decrypted \in SUBSET CardType /\ IsFiniteSet(t.decrypted)
    /\ \A d, e \in t.decrypted : d.card = e.card => d = e
    /\ t.round = "waiting" => t.decrypted = {}

\* Before the flop no seat is asked to open its own card, each card is asked
\* for once, and one that is still asked for is not recorded.  At the showdown
\* only active seats are asked.
AskedRightly(t) ==
    /\ t.reveal.phase = "none" => t.reveal.asg = <<>>
    /\ t.reveal.phase = "preflop" =>
          \A a \in DOMAIN t.reveal.asg :
             /\ t.reveal.asg[a].dealt_to \in Seats \ t.reveal.asg[a].pending
             /\ t.reveal.asg[a].pending # {} =>
                   \A d \in t.decrypted : d.card # t.reveal.asg[a].card
             /\ \A b \in DOMAIN t.reveal.asg :
                   t.reveal.asg[b].card = t.reveal.asg[a].card => a = b
    /\ t.reveal.phase = "showdown" =>
          \A a \in DOMAIN t.reveal.asg : t.reveal.asg[a].pending \subseteq ActiveSeats(t)

Requested(t) == t.reveal.asg \in Seq(AssignmentType) /\ AskedRightly(t)

Carded(t) == Recorded(t) /\ Requested(t)

\* u has the hole cards of t and asks for the same ones, of seats still active.
SameHoles(t, u) ==
    /\ u.dealt = t.dealt /\ u.decrypted = t.decrypted
    /\ u.round = t.round /\ u.reveal = t.reveal
    /\ ActiveSeats(t) \subseteq ActiveSeats(u)

\* Chips, keys and timers do not matter to the hole cards.
LEMMA SameHolesCarded ==
    ASSUME NEW t, NEW u, Carded(t), SameHoles(t, u)
    PROVE  Carded(u)
<1>1. Recorded(u)
  BY DEF Carded, Recorded, SameHoles
<1>2. AskedRightly(u)
  BY DEF Carded, Requested, AskedRightly, SameHoles
<1> QED
  BY <1>1, <1>2 DEF Carded, Requested, SameHoles

\* What is recorded may be taken along to another round of the same hand.
LEMMA RecordTaken ==
    ASSUME NEW t, NEW u, Recorded(t), u.dealt \in Nat, u.decrypted = t.decrypted,
           u.round = "waiting" => t.round = "waiting"
    PROVE  Recorded(u)
BY DEF Recorded

\* Seats with the same players are active alike.
LEMMA ActiveAlike ==
    ASSUME NEW t, NEW u,
           \A s \in Seats : /\ u.seats[s].player = t.seats[s].player
                            /\ u.seats[s].left = t.seats[s].left
                            /\ u.seats[s].is_waiting = t.seats[s].is_waiting
    PROVE  ActiveSeats(u) = ActiveSeats(t)
BY DEF ActiveSeats, OccupiedSeats, IsSeatOccupied

\* assert! leaves the hole cards alone.
LEMMA RequireHoles ==
    ASSUME NEW t, DOMAIN t = TableFields, NEW cond
    PROVE  SameHoles(t, Require(t, cond)) /\ SameHoles(t, Abort(t))
BY DEF SameHoles, Require, Abort, TableFields, ActiveSeats, OccupiedSeats

\* An aborted transaction shows the cards it found.
LEMMA RequireCarded ==
    ASSUME NEW t, DOMAIN t = TableFields, Carded(t), NEW cond
    PROVE  Carded(Require(t, cond)) /\ Carded(Abort(t))
BY RequireHoles, SameHolesCarded

\* collect_bets_to_pot
LEMMA CollectBetsHoles ==
    ASSUME NEW t, Formed(t)
    PROVE  SameHoles(t, CollectBetsToPot(t))
<1> DEFINE u == CollectBetsToPot(t)
<1>1. /\ u.dealt = t.dealt /\ u.decrypted = t.decrypted /\ u.round = t.round
      /\ u.reveal = t.reveal
      /\ u.seats = [s \in Seats |-> [t.seats[s] EXCEPT !.bet = 0]]
  BY DEF CollectBetsToPot, Formed, TableFields
<1> HIDE DEF u
<1>2. ActiveSeats(u) = ActiveSeats(t)
  BY <1>1, ActiveAlike DEF Formed, SeatFields
<1> QED
  BY <1>1, <1>2 DEF SameHoles, u

\* No hole card is known and none asked for.
LEMMA NothingAsked ==
    ASSUME NEW t, t.dealt = 0, t.decrypted = {}, t.reveal = EmptyReveal
    PROVE  Carded(t)
<1>1. t.reveal.asg = <<>> /\ t.reveal.phase = "none"
  BY DEF EmptyReveal
<1>2. <<>> \in Seq(AssignmentType)
  BY EmptySeq
<1> QED
  BY <1>1, <1>2, FS_EmptySet DEF Carded, Recorded, Requested, AskedRightly

\* reset_for_next_hand forgets the cards.
LEMMA ResetCarded ==
    ASSUME NEW t, DOMAIN t = TableFields
    PROVE  Carded(ResetForNextHand(t))
<1> DEFINE u == ResetForNextHand(t)
<1>1. u.dealt = 0 /\ u.decrypted = {} /\ u.reveal = EmptyReveal
  BY DEF ResetForNextHand, TableFields
<1> HIDE DEF u
<1> QED
  BY <1>1, NothingAsked DEF u

-----------------------------------------------------------------------------
(* Cards that are dealt.                                                   *)

\* Of n groups of c, each number below n * c is in one.
LEMMA GroupOf ==
    ASSUME NEW n \in Nat, NEW c \in Nat \ {0}, NEW k \in Nat, k < n * c
    PROVE  (k \div c) + 1 \in 1 .. n
<1> DEFINE q == k \div c
<1>1. q \in Nat /\ c * q <= k
  BY SharesAndRest
<1> HIDE DEF q
<1>2. q < n
  <2>1. SUFFICES ASSUME q >= n PROVE FALSE
    BY <1>1
  <2>2. PICK m \in Nat : q = n + m
    <3>1. q - n \in Nat /\ q = n + (q - n)
      BY <1>1, <2>1
    <3> QED
      BY <3>1
  <2>3. c * (n + m) = n * c + c * m /\ c * m \in Nat
    OBVIOUS
  <2> QED
    BY <1>1, <2>2, <2>3
<1> QED
  BY <1>1, <1>2 DEF q

\* A list of assignments is a sequence of them.
LEMMA AssignmentsListed ==
    ASSUME NEW n \in Nat, NEW f, \A k \in 1 .. n : f[k] \in AssignmentType
    PROVE  [k \in 1 .. n |-> f[k]] \in Seq(AssignmentType)
<1>1. [k \in 1 .. n |-> f[k]] \in [1 .. n -> AssignmentType]
  OBVIOUS
<1> QED
  BY <1>1, SeqDef

\* An assignment has the fields of one.
LEMMA AssignmentTyped ==
    ASSUME NEW card \in Nat, NEW pending \in SUBSET Seats,
           NEW dealtTo \in Seats \cup {CommunityOwner}
    PROVE  Assignment(card, pending, dealtTo) \in AssignmentType
BY DEF Assignment, AssignmentType

\* Community cards are dealt from the deck and asked of the active seats.
LEMMA CommunityTyped ==
    ASSUME NEW t, t.dealt \in Nat, NEW n \in Nat
    PROVE  CommunityAssignments(t, n) \in Seq(AssignmentType)
<1> DEFINE f == [k \in 1 .. n |->
                   Assignment(t.dealt + k - 1, ActiveSeats(t), CommunityOwner)]
<1>1. CommunityAssignments(t, n) = [k \in 1 .. n |-> f[k]]
  BY DEF CommunityAssignments
<1>2. \A k \in 1 .. n : f[k] \in AssignmentType
  <2> TAKE k \in 1 .. n
  <2>1. t.dealt + k - 1 \in Nat /\ ActiveSeats(t) \in SUBSET Seats
    BY ActiveAreSeats
  <2> QED
    BY <2>1, AssignmentTyped
<1> HIDE DEF f
<1> QED
  BY <1>1, <1>2, AssignmentsListed

\* start_community_reveal leaves the hole cards alone.
LEMMA CommunityCarded ==
    ASSUME NEW t, DOMAIN t = TableFields, Recorded(t), NEW n \in Nat,
           NEW phase \in {"flop", "turn", "river"}
    PROVE  Carded(StartCommunityReveal(t, n, phase))
<1> DEFINE asg == CommunityAssignments(t, n)
           u == StartCommunityReveal(t, n, phase)
<1>1. u = [t EXCEPT !.dealt = @ + n, !.reveal = [phase |-> phase, asg |-> asg]]
  BY DEF StartCommunityReveal
<1>2. asg \in Seq(AssignmentType)
  BY CommunityTyped DEF Recorded
<1> HIDE DEF asg, u
<1>3. /\ u.dealt = t.dealt + n /\ u.decrypted = t.decrypted /\ u.round = t.round
      /\ u.reveal.phase = phase /\ u.reveal.asg = asg
  BY <1>1 DEF TableFields
<1>4. Recorded(u)
  BY <1>3, RecordTaken DEF Recorded
<1>5. AskedRightly(u)
  BY <1>3 DEF AskedRightly
<1> QED
  BY <1>2, <1>3, <1>4, <1>5 DEF Carded, Requested, u

\* start_preflop_reveal deals each card to the seat that is not asked for it.
LEMMA PreflopCarded ==
    ASSUME NEW t, DOMAIN t = TableFields, t.dealt \in Nat, t.decrypted = {}
    PROVE  Carded(StartPreflopReveal(t))
<1> DEFINE active == ActiveSeats(t)
           n == Cardinality(active) * CardsPerPlayer
           owner(k) == Ascending(active)[((k - 1) \div CardsPerPlayer) + 1]
           asg == [k \in 1 .. n |->
                     Assignment(t.dealt + k - 1, active \ {owner(k)}, owner(k))]
           u == StartPreflopReveal(t)
<1>1. active \in SUBSET Seats /\ IsFiniteSet(active) /\ Cardinality(active) \in Nat
  BY ActiveAreSeats, SomeSeatsFinite
<1>2. CardsPerPlayer \in Nat \ {0}
  BY TableAssumption
<1>3. n \in Nat
  BY <1>1, <1>2
<1>4. u = [t EXCEPT !.dealt = @ + n, !.reveal = [phase |-> "preflop", asg |-> asg]]
  BY DEF StartPreflopReveal
<1>5. \A k \in 1 .. n : owner(k) \in Seats
  <2> TAKE k \in 1 .. n
  <2> DEFINE i == ((k - 1) \div CardsPerPlayer) + 1
  <2>1. k - 1 \in Nat /\ k - 1 < Cardinality(active) * CardsPerPlayer
    BY <1>3
  <2>2. i \in 1 .. Cardinality(active)
    BY <1>1, <1>2, <2>1, GroupOf
  <2>3. active \in SUBSET Int
    BY <1>1, TableAssumption DEF Seats
  <2> HIDE DEF i, active
  <2>4. Ascending(active)[i] \in active
    BY <1>1, <2>2, <2>3, AscendingMembers
  <2> QED
    BY <1>1, <2>4 DEF i
<1> HIDE DEF owner, active, u
<1> HIDE DEF n
<1>6. \A k \in 1 .. n : /\ asg[k].card = t.dealt + k - 1
                        /\ asg[k].pending = active \ {owner(k)}
                        /\ asg[k].dealt_to = owner(k)
                        /\ asg[k] \in AssignmentType
  <2> TAKE k \in 1 .. n
  <2>1. asg[k] = Assignment(t.dealt + k - 1, active \ {owner(k)}, owner(k))
    OBVIOUS
  <2>2. t.dealt + k - 1 \in Nat /\ active \ {owner(k)} \in SUBSET Seats
    BY <1>1, <1>3
  <2>3. asg[k] \in AssignmentType
    BY <1>5, <2>1, <2>2, AssignmentTyped
  <2> QED
    BY <2>1, <2>3 DEF Assignment
<1>7. DOMAIN asg = 1 .. n /\ asg = [k \in 1 .. n |-> asg[k]]
  OBVIOUS
<1> HIDE DEF asg
<1>8. asg \in Seq(AssignmentType)
  BY <1>3, <1>6, <1>7, AssignmentsListed
<1>9. /\ u.dealt = t.dealt + n /\ u.decrypted = {}
      /\ u.reveal.phase = "preflop" /\ u.reveal.asg = asg
  BY <1>4 DEF TableFields
<1>10. Recorded(u)
  BY <1>3, <1>9, FS_EmptySet DEF Recorded
<1>11. AskedRightly(u)
  <2>1. \A a, b \in 1 .. n : asg[b].card = asg[a].card => a = b
    BY <1>3, <1>6
  <2>2. \A a \in 1 .. n : asg[a].dealt_to \in Seats \ asg[a].pending
    BY <1>5, <1>6
  <2> QED
    BY <1>7, <1>9, <2>1, <2>2 DEF AskedRightly
<1> QED
  BY <1>8, <1>9, <1>10, <1>11 DEF Carded, Requested, u

\* start_showdown_reveal asks each live seat for its own cards: no two cards
\* have the same place in the order.
LEMMA ShowdownCarded ==
    ASSUME NEW t, DOMAIN t = TableFields, Recorded(t)
    PROVE  Carded(StartShowdownReveal(t))
<1> DEFINE u == StartShowdownReveal(t)
           shown == {d \in t.decrypted : d.owner \in LiveSeats(t) /\ ~d.plain}
           before(d, e) == \/ d.owner < e.owner
                           \/ d.owner = e.owner /\ d.card < e.card
           below == [d \in shown |-> {e \in shown : before(e, d)}]
           nth(k) == CHOOSE d \in shown :
                        Cardinality({e \in shown : before(e, d)}) = k - 1
           asg == [k \in 1 .. Cardinality(shown) |->
                     Assignment(nth(k).card, {nth(k).owner}, nth(k).dealt_to)]
<1>1. u = [t EXCEPT !.reveal = [phase |-> "showdown", asg |-> asg]]
  BY DEF StartShowdownReveal
<1>2. /\ IsFiniteSet(shown) /\ Cardinality(shown) \in Nat
      /\ \A d \in shown : /\ d \in CardType /\ d.card \in Int /\ d.owner \in Int
                          /\ d.owner \in ActiveSeats(t)
  <2>1. IsFiniteSet(shown)
    BY FS_Subset DEF Recorded
  <2>2. \A d \in shown : d \in CardType /\ d.owner \in ActiveSeats(t)
    BY DEF Recorded, LiveSeats
  <2>3. \A d \in CardType : d.card \in Int /\ d.owner \in Int
    BY TableAssumption DEF CardType, Seats
  <2> QED
    BY <2>1, <2>2, <2>3, FS_CardinalityType
<1>3. \A d, e \in shown : d.card = e.card => d = e
  BY DEF Recorded
<1> HIDE DEF u, shown
<1>4. \A k \in 0 .. Cardinality(shown) - 1 : \E d \in shown : Cardinality(below[d]) = k
  <2>1. \A x \in shown : below[x] \subseteq shown /\ x \notin below[x]
    BY <1>2
  <2>2. \A x, y \in shown : x # y => x \in below[y] \/ y \in below[x]
    BY <1>2, <1>3
  <2>3. \A x, y \in shown : x \in below[y] => below[x] \subseteq below[y]
    <3>1. \A x, y, z \in shown : before(x, y) /\ before(z, x) => before(z, y)
      BY <1>2
    <3> QED
      BY <3>1
  <2> HIDE DEF below
  <2> QED
    BY <1>2, <2>1, <2>2, <2>3, Ranking
<1>5. \A k \in 1 .. Cardinality(shown) : nth(k) \in shown
  <2> TAKE k \in 1 .. Cardinality(shown)
  <2>1. k - 1 \in 0 .. Cardinality(shown) - 1
    BY <1>2
  <2>2. PICK d \in shown : Cardinality(below[d]) = k - 1
    BY <1>4, <2>1
  <2>3. Cardinality({e \in shown : before(e, d)}) = k - 1
    BY <2>2
  <2> QED
    BY <2>3
<1> HIDE DEF nth, below, before
<1>6. \A k \in 1 .. Cardinality(shown) :
         asg[k] \in AssignmentType /\ asg[k].pending \subseteq ActiveSeats(t)
  <2> TAKE k \in 1 .. Cardinality(shown)
  <2>1. asg[k] = Assignment(nth(k).card, {nth(k).owner}, nth(k).dealt_to)
    OBVIOUS
  <2>2. nth(k) \in CardType /\ nth(k).owner \in ActiveSeats(t)
    BY <1>2, <1>5
  <2>3. /\ nth(k).card \in Nat /\ {nth(k).owner} \in SUBSET Seats
        /\ nth(k).dealt_to \in Seats \cup {CommunityOwner}
    BY <2>2 DEF CardType
  <2>4. asg[k] \in AssignmentType
    BY <2>1, <2>3, AssignmentTyped
  <2> QED
    BY <2>1, <2>2, <2>4 DEF Assignment
<1>7. DOMAIN asg = 1 .. Cardinality(shown)
      /\ asg = [k \in 1 .. Cardinality(shown) |-> asg[k]]
  OBVIOUS
<1> HIDE DEF asg
<1>8. asg \in Seq(AssignmentType)
  BY <1>2, <1>6, <1>7, AssignmentsListed
<1>9. /\ u.dealt = t.dealt /\ u.decrypted = t.decrypted /\ u.round = t.round
      /\ u.reveal.phase = "showdown" /\ u.reveal.asg = asg
      /\ u.seats = t.seats
  BY <1>1 DEF TableFields
<1>10. Recorded(u)
  BY <1>9 DEF Recorded
<1>11. ActiveSeats(u) = ActiveSeats(t)
  BY <1>9, ActiveAlike
<1>12. AskedRightly(u)
  BY <1>6, <1>7, <1>9, <1>11 DEF AskedRightly
<1> QED
  BY <1>8, <1>9, <1>10, <1>12 DEF Carded, Requested, u

-----------------------------------------------------------------------------
(* A hand goes on, or ends.                                                *)

\* advance_round asks for the cards of the next street, or for the hands.
LEMMA AdvanceRoundCarded ==
    ASSUME NEW t, DOMAIN t = TableFields, Carded(t)
    PROVE  Carded(AdvanceRound(t))
<1> DEFINE closed == [t EXCEPT !.betting = NoRound, !.turn = NoSeat]
           to(round) == [closed EXCEPT !.round = round]
           fresh(round) == [to(round) EXCEPT !.timers.reveal = FALSE]
           last == [to("showdown") EXCEPT !.timers.showdown = FALSE]
           Taken(u) == /\ DOMAIN u = TableFields /\ u.dealt = t.dealt
                       /\ u.decrypted = t.decrypted /\ u.round # "waiting"
<1>1. /\ Taken(fresh("flop")) /\ Taken(fresh("turn")) /\ Taken(fresh("river"))
      /\ Taken(last)
  BY DEF TableFields
<1>2. SameHoles(t, closed)
  BY DEF SameHoles, TableFields, ActiveSeats, OccupiedSeats
<1>3. \/ AdvanceRound(t) = StartCommunityReveal(fresh("flop"), FlopCards, "flop")
      \/ AdvanceRound(t) = StartCommunityReveal(fresh("turn"), 1, "turn")
      \/ AdvanceRound(t) = StartCommunityReveal(fresh("river"), 1, "river")
      \/ AdvanceRound(t) = StartShowdownReveal(last)
      \/ AdvanceRound(t) = closed
  BY DEF AdvanceRound
<1> HIDE DEF last, fresh, closed
<1>4. \A u : Taken(u) => Recorded(u)
  BY RecordTaken DEF Carded, Recorded
<1> HIDE DEF Taken
<1>5. /\ Recorded(fresh("flop")) /\ Recorded(fresh("turn")) /\ Recorded(fresh("river"))
      /\ Recorded(last)
  BY <1>1, <1>4
<1>6. /\ DOMAIN fresh("flop") = TableFields /\ DOMAIN fresh("turn") = TableFields
      /\ DOMAIN fresh("river") = TableFields /\ DOMAIN last = TableFields
  BY <1>1 DEF Taken
<1>7. Carded(StartCommunityReveal(fresh("flop"), FlopCards, "flop"))
  BY <1>5, <1>6, TableAssumption, CommunityCarded
<1>8. /\ Carded(StartCommunityReveal(fresh("turn"), 1, "turn"))
      /\ Carded(StartCommunityReveal(fresh("river"), 1, "river"))
  BY <1>5, <1>6, CommunityCarded
<1>9. Carded(StartShowdownReveal(last))
  BY <1>5, <1>6, ShowdownCarded
<1>10. Carded(closed)
  BY <1>2, SameHolesCarded
<1> QED
  BY <1>3, <1>7, <1>8, <1>9, <1>10

\* The bets collected, the next street begins.
LEMMA CollectedThenAdvancedCarded ==
    ASSUME NEW t, Formed(t), Carded(t)
    PROVE  Carded(AdvanceRound(CollectBetsToPot(t)))
<1>1. DOMAIN CollectBetsToPot(t) = TableFields
  BY DEF CollectBetsToPot, Formed, TableFields
<1> QED
  BY <1>1, CollectBetsHoles, SameHolesCarded, AdvanceRoundCarded

\* advance_turn
LEMMA AdvanceTurnCarded ==
    ASSUME NEW t, Formed(t), Carded(t)
    PROVE  Carded(AdvanceTurn(t))
<1> DEFINE next == FindNextActiveSeat(t, t.turn)
           u == [t EXCEPT !.turn = next]
           found == t.turn # NoSeat /\ next # NoSeat
<1>1. \/ AdvanceTurn(t) = AdvanceRound(CollectBetsToPot(t))
      \/ AdvanceTurn(t) = Require(u, found)
  BY DEF AdvanceTurn
<1> HIDE DEF next
<1>2. DOMAIN u = TableFields /\ SameHoles(t, u)
  BY DEF Formed, TableFields, SameHoles, ActiveSeats, OccupiedSeats
<1> HIDE DEF u
<1> QED
  BY <1>1, <1>2, CollectedThenAdvancedCarded, SameHolesCarded, RequireCarded

\* end_without_showdown forgets the cards, or aborts.
LEMMA EndWithoutShowdownCarded ==
    ASSUME NEW t, DOMAIN t = TableFields, Carded(t)
    PROVE  Carded(EndWithoutShowdown(t))
<1> DEFINE c == CollectBetsToPot(t)
           u == [c EXCEPT !.seats[Min(LiveSeats(t))].stack = @ + c.pot]
<1>1. DOMAIN u = TableFields
  BY DEF CollectBetsToPot
<1>2. \/ EndWithoutShowdown(t) = Abort(t)
      \/ EndWithoutShowdown(t) = ResetForNextHand(u)
  BY DEF EndWithoutShowdown
<1> HIDE DEF u
<1> QED
  BY <1>1, <1>2, RequireCarded, ResetCarded

\* settle_hand forgets the cards, or aborts.
LEMMA SettleHandCarded ==
    ASSUME NEW t, Shaped(t), NEW ranks
    PROVE  Carded(SettleHand(t, ranks))
<1> DEFINE u == PayPots(t, Pots(t), ranks)
           allowed == t.round = "showdown" /\ t.reveal.phase = "none"
<1>1. Aside(t, u)
  BY PotsAreASequence, PayPotsAside
<1> HIDE DEF u
<1>2. DOMAIN u = TableFields
  BY <1>1 DEF Aside, Shaped
<1>3. SettleHand(t, ranks) = Require(ResetForNextHand(u), allowed)
  BY DEF SettleHand, u
<1>4. DOMAIN ResetForNextHand(u) = TableFields
  BY <1>2, ResetLaid
<1> QED
  BY <1>2, <1>3, <1>4, ResetCarded, RequireCarded

\* refund_all_bets before a reset: the cards are forgotten.
LEMMA RefundThenResetCarded ==
    ASSUME NEW t, DOMAIN t = TableFields
    PROVE  Carded(ResetForNextHand(RefundAllBets(t)))
<1>1. DOMAIN RefundAllBets(t) = TableFields
  BY DEF RefundAllBets, RefundSui, Require, Abort
<1> QED
  BY <1>1, ResetCarded

\* start_betting_round: betting opens, or the next street begins.
LEMMA StartBettingRoundCarded ==
    ASSUME NEW t, Formed(t), Carded(t), NEW preflop \in BOOLEAN
    PROVE  Carded(StartBettingRound(t, preflop))
<1> DEFINE seats == [s \in Seats |->
                       [t.seats[s] EXCEPT !.acted = FALSE,
                                          !.bet = IF preflop THEN @ ELSE 0]]
           round == IF preflop THEN NewPreflop(BigBlind) ELSE NewPostflop(BigBlind)
           opened == [t EXCEPT !.betting = round, !.seats = seats]
           next == FindNextActiveSeat(t, t.button)
           u == [opened EXCEPT !.turn = next]
<1>1. \/ StartBettingRound(t, preflop) = AdvanceRound(CollectBetsToPot(opened))
      \/ StartBettingRound(t, preflop) = opened
      \/ StartBettingRound(t, preflop) = u
  BY DEF StartBettingRound
<1>2. \A s \in Seats : /\ seats[s].player = t.seats[s].player
                       /\ seats[s].left = t.seats[s].left
                       /\ seats[s].is_waiting = t.seats[s].is_waiting
                       /\ DOMAIN seats[s] = SeatFields
  BY DEF Formed, SeatFields
<1>3. DOMAIN seats = Seats
  OBVIOUS
<1>4. DOMAIN round = {"open", "current_bet", "min_raise"}
  BY DEF NewPreflop, NewPostflop
<1> HIDE DEF round, seats, next
<1>5. /\ Formed(opened) /\ opened.seats = seats /\ opened.dealt = t.dealt
      /\ opened.decrypted = t.decrypted /\ opened.round = t.round
      /\ opened.reveal = t.reveal
  BY <1>2, <1>3, <1>4 DEF Formed, TableFields
<1>6. /\ u.seats = seats /\ u.dealt = t.dealt /\ u.decrypted = t.decrypted
      /\ u.round = t.round /\ u.reveal = t.reveal
  BY <1>5 DEF Formed, TableFields
<1> HIDE DEF opened, u
<1>7. SameHoles(t, opened) /\ SameHoles(t, u)
  BY <1>2, <1>5, <1>6, ActiveAlike DEF SameHoles
<1> QED
  BY <1>1, <1>5, <1>7, SameHolesCarded, CollectedThenAdvancedCarded

\* post_blinds leaves the hole cards alone.
LEMMA PostBlindsHoles ==
    ASSUME NEW t, Shaped(t)
    PROVE  SameHoles(t, PostBlinds(t))
<1> DEFINE headsUp == CountActiveOccupied(t) = 2
           sb == IF headsUp THEN t.button ELSE FindNextActiveSeat(t, t.button)
           bb == FindNextActiveSeat(t, sb)
           post(seat, blind) ==
               LET amount == IF seat.stack < blind THEN seat.stack ELSE blind
               IN  [seat EXCEPT !.stack = @ - amount, !.bet = amount,
                                !.total_bet = amount,
                                !.all_in = @ \/ seat.stack = amount]
           small == [t EXCEPT !.seats[sb] = post(@, SmallBlind)]
           both == [small EXCEPT !.seats[bb] = post(@, BigBlind)]
           first == IF headsUp THEN sb ELSE FindNextActiveSeat(both, bb)
           u == PostBlinds(t)
<1>1. \/ u = Abort(t)
      \/ u = [both EXCEPT !.turn = first]
  BY DEF PostBlinds
<1>2. Aside(t, u)
  BY PostBlindsAside
<1> HIDE DEF sb, bb, first, post
<1>3. both.dealt = t.dealt /\ both.decrypted = t.decrypted /\ DOMAIN both = TableFields
  BY DEF Shaped, TableFields
<1> HIDE DEF both
<1>4. u.dealt = t.dealt /\ u.decrypted = t.decrypted
  BY <1>1, <1>3 DEF Abort, Shaped, TableFields
<1> HIDE DEF u
<1>5. ActiveSeats(u) = ActiveSeats(t) /\ u.round = t.round /\ u.reveal = t.reveal
  BY <1>2, SeatingDecides DEF Aside, SamePhases
<1> QED
  BY <1>4, <1>5 DEF SameHoles, u

\* The same seats are active alike.
LEMMA SeatsHoles ==
    ASSUME NEW t, NEW u, u.seats = t.seats, u.dealt = t.dealt,
           u.decrypted = t.decrypted, u.round = t.round, u.reveal = t.reveal
    PROVE  SameHoles(t, u)
BY ActiveAlike DEF SameHoles

\* check_reveal_phase_complete: nothing is asked for any more, or the hand is
\* over.
LEMMA CheckRevealCarded ==
    ASSUME NEW t, Shaped(t), Carded(t), NEW ranks
    PROVE  Carded(CheckRevealPhaseComplete(t, ranks))
<1> DEFINE cleared == [t EXCEPT !.reveal = EmptyReveal]
           untimed == [cleared EXCEPT !.timers.betting = FALSE]
           written == WriteCommunity(untimed)
           last == [cleared EXCEPT !.timers.showdown = FALSE]
           blinds == PostBlinds(untimed)
           u == CheckRevealPhaseComplete(t, ranks)
<1>1. \/ u = t
      \/ u = StartBettingRound(blinds, TRUE)
      \/ u = StartBettingRound(written, FALSE)
      \/ u = SettleHand(last, ranks)
      \/ u = cleared
  BY DEF CheckRevealPhaseComplete
<1> HIDE DEF u
<1>2. Shaped(cleared) /\ Shaped(untimed) /\ Shaped(written) /\ Shaped(last)
  BY DEF Shaped, TableFields, EmptyReveal, WriteCommunity
<1>3. /\ cleared.dealt = t.dealt /\ cleared.decrypted = t.decrypted
      /\ cleared.round = t.round /\ cleared.reveal = EmptyReveal
  BY DEF Shaped, TableFields
<1>4. /\ untimed.seats = cleared.seats /\ untimed.dealt = cleared.dealt
      /\ untimed.decrypted = cleared.decrypted /\ untimed.round = cleared.round
      /\ untimed.reveal = cleared.reveal
  BY DEF Shaped, TableFields
<1>5. /\ written.seats = untimed.seats /\ written.dealt = untimed.dealt
      /\ written.decrypted = untimed.decrypted /\ written.round = untimed.round
      /\ written.reveal = untimed.reveal
  BY DEF WriteCommunity, Shaped, TableFields
<1> HIDE DEF cleared, untimed, written, last
<1>6. Carded(cleared)
  <2>1. Recorded(cleared)
    BY <1>3, RecordTaken DEF Carded, Recorded
  <2>2. AskedRightly(cleared) /\ cleared.reveal.asg \in Seq(AssignmentType)
    BY <1>3, EmptySeq DEF AskedRightly, EmptyReveal
  <2> QED
    BY <2>1, <2>2 DEF Carded, Requested
<1>7. Carded(untimed) /\ Carded(written)
  BY <1>4, <1>5, <1>6, SeatsHoles, SameHolesCarded
<1>8. Carded(blinds) /\ Formed(blinds)
  BY <1>2, <1>7, PostBlindsHoles, SameHolesCarded, PostBlindsAside, ShapedFormed DEF Aside
<1> HIDE DEF blinds
<1>9. Formed(written) /\ TRUE \in BOOLEAN /\ FALSE \in BOOLEAN
  BY <1>2, ShapedFormed
<1>10. Carded(StartBettingRound(blinds, TRUE)) /\ Carded(StartBettingRound(written, FALSE))
  BY <1>7, <1>8, <1>9, StartBettingRoundCarded
<1>11. Carded(SettleHand(last, ranks))
  BY <1>2, SettleHandCarded
<1> QED
  BY <1>1, <1>6, <1>10, <1>11 DEF u

\* What a reconstruction has cut short is asked for again; the hole cards are
\* known by then.
LEMMA ResumeRevealCarded ==
    ASSUME NEW t, Resting(t), Laid(t), NEW u, DOMAIN u = TableFields,
           Carded(u), u.round = t.round, u.ready = t.ready, u.round # "preflop"
    PROVE  Carded(ResumeReveal(u))
<1> DEFINE untimed == [u EXCEPT !.timers.showdown = FALSE]
           v(n, phase) == StartCommunityReveal(u, n - u.ready, phase)
           lacking(n, phase) == Require(v(n, phase), u.ready <= n)
<1>1. \/ u.round = "flop" /\ ResumeReveal(u) = lacking(FlopCards, "flop")
      \/ u.round = "turn" /\ ResumeReveal(u) = lacking(1, "turn")
      \/ u.round = "river" /\ ResumeReveal(u) = lacking(1, "river")
      \/ ResumeReveal(u) = StartShowdownReveal(untimed)
      \/ ResumeReveal(u) = u
  BY DEF ResumeReveal
<1>2. Carded(StartShowdownReveal(untimed))
  <2>1. /\ DOMAIN untimed = TableFields /\ untimed.dealt = u.dealt
        /\ untimed.decrypted = u.decrypted /\ untimed.round = u.round
    BY DEF TableFields
  <2> HIDE DEF untimed
  <2>2. Recorded(untimed)
    BY <2>1 DEF Carded, Recorded
  <2> QED
    BY <2>1, <2>2, ShowdownCarded
<1> HIDE DEF untimed
<1>3. ASSUME NEW phase \in {"flop", "turn", "river"}, u.round = phase
      PROVE  Carded(lacking(StreetCards[phase], phase))
  <2> DEFINE n == StreetCards[phase]
             left == Cardinality(Unopened(t))
             w == v(n, phase)
  <2>1. u.ready \in Nat /\ u.ready + left = n /\ IsFiniteSet(Unopened(t))
    BY <1>3 DEF Laid, Resting
  <2>2. left \in Nat
    BY <2>1, FS_CardinalityType
  <2> HIDE DEF left
  <2>3. n - u.ready \in Nat
    BY <2>1, <2>2
  <2>4. Carded(w)
    BY <1>3, <2>3, CommunityCarded DEF Carded
  <2>5. DOMAIN w = TableFields
    BY DEF StartCommunityReveal
  <2> HIDE DEF v
  <2> QED
    BY <2>4, <2>5, RequireCarded
<1>4. /\ StreetCards["flop"] = FlopCards /\ StreetCards["turn"] = 1
      /\ StreetCards["river"] = 1
  BY DEF StreetCards
<1> HIDE DEF lacking
<1>5. /\ u.round = "flop" => Carded(lacking(FlopCards, "flop"))
      /\ u.round = "turn" => Carded(lacking(1, "turn"))
      /\ u.round = "river" => Carded(lacking(1, "river"))
  BY <1>3, <1>4
<1> QED
  BY <1>1, <1>2, <1>5

\* A deck is shuffled before the flop of a new hand, or later than the flop.
Timely(t) == t.shuffle.phase \in {"none", "before_preflop"} \/ t.round # "preflop"

\* advance_shuffle: the first shuffle of a hand leads on to the hole cards, of
\* which none is known yet.
LEMMA AdvanceShuffleCarded ==
    ASSUME NEW t, Resting(t), Laid(t), Carded(t), Timely(t)
    PROVE  Carded(AdvanceShuffle(t))
<1> DEFINE untimed == [t EXCEPT !.timers.reveal = FALSE, !.shuffle = EmptyShuffle]
           first == [untimed EXCEPT !.round = "preflop"]
           again == [untimed EXCEPT !.reconstruct = EmptyReconstruct,
                                    !.reveal = EmptyReveal]
           next == Min(t.shuffle.pending)
           u == [t EXCEPT !.shuffle.current = next, !.timers.shuffle = FALSE]
<1>1. \/ AdvanceShuffle(t) = t
      \/ AdvanceShuffle(t) = u
      \/ /\ t.shuffle.phase = "before_preflop"
         /\ AdvanceShuffle(t) = StartPreflopReveal(first)
      \/ /\ t.shuffle.phase \notin {"none", "before_preflop"}
         /\ AdvanceShuffle(t) = ResumeReveal(again)
  BY DEF AdvanceShuffle
<1> HIDE DEF next
<1>2. DOMAIN t = TableFields
  BY DEF Resting, Steady, Formed
<1>3. /\ u.seats = t.seats /\ u.dealt = t.dealt /\ u.decrypted = t.decrypted
      /\ u.round = t.round /\ u.reveal = t.reveal
  BY <1>2 DEF TableFields
<1>4. /\ DOMAIN first = TableFields /\ first.dealt = t.dealt
      /\ first.decrypted = t.decrypted
  BY <1>2 DEF TableFields
<1>5. /\ DOMAIN again = TableFields /\ again.dealt = t.dealt
      /\ again.decrypted = t.decrypted /\ again.round = t.round
      /\ again.ready = t.ready /\ again.reveal = EmptyReveal
  BY <1>2 DEF TableFields
<1> HIDE DEF u, first, again
<1>6. Carded(u)
  BY <1>3, SeatsHoles, SameHolesCarded
<1>7. t.shuffle.phase = "before_preflop" => Carded(StartPreflopReveal(first))
  BY <1>4, PreflopCarded DEF Laid, Carded, Recorded
<1>8. Carded(again)
  <2>1. Recorded(again)
    BY <1>5, RecordTaken DEF Carded, Recorded
  <2>2. AskedRightly(again) /\ again.reveal.asg \in Seq(AssignmentType)
    BY <1>5, EmptySeq DEF AskedRightly, EmptyReveal
  <2> QED
    BY <2>1, <2>2 DEF Carded, Requested
<1>9. t.shuffle.phase \notin {"none", "before_preflop"} => Carded(ResumeReveal(again))
  BY <1>5, <1>8, ResumeRevealCarded DEF Timely
<1> QED
  BY <1>1, <1>6, <1>7, <1>9

-----------------------------------------------------------------------------
(* Folds, kicks and timeouts.                                              *)

\* do_fold
LEMMA DoFoldCarded ==
    ASSUME NEW t, Steady(t), t.betting.open, Carded(t), NEW s
    PROVE  Carded(DoFold(t, s))
<1> DEFINE seat == t.seats[s]
           folded == [t EXCEPT !.seats[s] = [seat EXCEPT !.folded = TRUE, !.acted = TRUE],
                               !.timers.betting = FALSE]
           allowed == IsSeatOccupied(seat) /\ ~seat.folded
           ended == EndWithoutShowdown(folded)
           goes == AdvanceTurn(folded)
<1>1. \/ DoFold(t, s) = Require(ended, allowed)
      \/ DoFold(t, s) = Require(goes, allowed)
  BY DEF DoFold
<1>2. Steady(folded) /\ folded.reveal.phase = "none" /\ Formed(folded)
  <2>1. Alike(t, folded)
    BY DEF Alike, Steady, Formed, TableFields
  <2> HIDE DEF folded
  <2> QED
    BY <2>1, AlikeSteady DEF Alike, Steady, Rounded
<1>3. /\ folded.dealt = t.dealt /\ folded.decrypted = t.decrypted
      /\ folded.round = t.round /\ folded.reveal = t.reveal
      /\ \A r \in Seats : /\ folded.seats[r].player = t.seats[r].player
                          /\ folded.seats[r].left = t.seats[r].left
                          /\ folded.seats[r].is_waiting = t.seats[r].is_waiting
  BY DEF Steady, Formed, TableFields, SeatFields
<1> HIDE DEF folded
<1>4. Carded(folded)
  BY <1>3, ActiveAlike, SameHolesCarded DEF SameHoles
<1>5. Carded(ended) /\ Carded(goes)
  BY <1>2, <1>4, EndWithoutShowdownCarded, AdvanceTurnCarded DEF Formed
<1>6. DOMAIN ended = TableFields /\ DOMAIN goes = TableFields
  BY <1>2, EndWithoutShowdownTurned, AdvanceTurnTurned DEF Turned, Steady, Formed
<1> HIDE DEF ended, goes
<1> QED
  BY <1>1, <1>5, <1>6, RequireCarded

\* The assignments once seat s is not asked any more.
Spared(asg, s) == [a \in DOMAIN asg |-> [asg[a] EXCEPT !.pending = @ \ {s}]]

\* A seat is taken out of every assignment.
LEMMA SeatDropped ==
    ASSUME NEW asg \in Seq(AssignmentType), NEW s
    PROVE  /\ Spared(asg, s) \in Seq(AssignmentType)
           /\ DOMAIN Spared(asg, s) = DOMAIN asg
           /\ \A a \in DOMAIN asg :
                 /\ Spared(asg, s)[a].card = asg[a].card
                 /\ Spared(asg, s)[a].dealt_to = asg[a].dealt_to
                 /\ Spared(asg, s)[a].pending = asg[a].pending \ {s}
           /\ asg = <<>> => Spared(asg, s) = <<>>
<1> DEFINE n == Len(asg)
           out == Spared(asg, s)
<1>1. n \in Nat /\ DOMAIN asg = 1 .. n /\ \A a \in 1 .. n : asg[a] \in AssignmentType
  BY LenProperties, ElementOfSeq
<1>2. \A a \in 1 .. n : /\ out[a] \in AssignmentType
                        /\ out[a].card = asg[a].card
                        /\ out[a].dealt_to = asg[a].dealt_to
                        /\ out[a].pending = asg[a].pending \ {s}
  BY <1>1 DEF AssignmentType, Spared
<1>3. DOMAIN out = 1 .. n /\ out = [a \in 1 .. n |-> out[a]]
  BY <1>1 DEF Spared
<1> HIDE DEF out
<1>4. out \in Seq(AssignmentType)
  BY <1>1, <1>2, <1>3, AssignmentsListed
<1>5. asg = <<>> => out = <<>>
  <2>1. SUFFICES ASSUME asg = <<>> PROVE out = <<>>
    OBVIOUS
  <2>2. n = 0
    BY <2>1
  <2>3. Len(out) = 0
    BY <1>1, <1>3, <2>2, Listed
  <2> QED
    BY <1>4, <2>3, EmptySeq
<1> QED
  BY <1>1, <1>2, <1>3, <1>4, <1>5 DEF out

\* The seat that a kick takes away is not asked any more.
LEMMA UnseatedCarded ==
    ASSUME NEW t, Formed(t), Carded(t), NEW s \in Seats
    PROVE  Carded(Unseated(t, s))
<1> DEFINE seat == t.seats[s]
           marked == [t EXCEPT !.seats[s] = KickedSeat(seat), !.pot = @ + seat.bet]
           unkeyed == IF seat.is_waiting THEN marked ELSE RemovePk(marked, seat.player)
           paid == RefundSui(unkeyed, seat.stack)
           left == Spared(t.reveal.asg, s)
           Left(u) == /\ DOMAIN u = TableFields /\ u.dealt = t.dealt
                      /\ u.decrypted = t.decrypted /\ u.round = t.round
                      /\ u.shuffle = t.shuffle /\ u.reveal = t.reveal
                      /\ \A r \in Seats \ {s} : u.seats[r] = t.seats[r]
<1>1. Unseated(t, s) = DropFromPhases(paid, s)
  BY DEF Unseated
<1>2. Left(marked)
  BY DEF Formed, TableFields
<1> HIDE DEF marked
<1>3. Left(unkeyed)
  BY <1>2 DEF RemovePk, TableFields
<1> HIDE DEF unkeyed
<1>4. Left(paid)
  BY <1>3 DEF RefundSui, Require, Abort, TableFields
<1> HIDE DEF paid
<1> DEFINE u == DropFromPhases(paid, s)
<1>5. /\ u.dealt = t.dealt /\ u.decrypted = t.decrypted /\ u.round = t.round
      /\ u.reveal.phase = t.reveal.phase /\ u.reveal.asg = left
      /\ u.seats = paid.seats
  BY <1>4 DEF DropFromPhases, Formed, TableFields, Spared
<1>6. ActiveSeats(t) \ {s} \subseteq ActiveSeats(u)
  BY <1>4, <1>5 DEF ActiveSeats, OccupiedSeats
<1> HIDE DEF u
<1>7. /\ left \in Seq(AssignmentType) /\ DOMAIN left = DOMAIN t.reveal.asg
      /\ \A a \in DOMAIN left : /\ left[a].card = t.reveal.asg[a].card
                                /\ left[a].dealt_to = t.reveal.asg[a].dealt_to
                                /\ left[a].pending = t.reveal.asg[a].pending \ {s}
      /\ t.reveal.asg = <<>> => left = <<>>
  BY SeatDropped DEF Carded, Requested
<1> HIDE DEF left
<1>8. Recorded(u)
  BY <1>5 DEF Carded, Recorded
<1>9. AskedRightly(u)
  <2>1. u.reveal.phase = "preflop" =>
           \A a \in DOMAIN left :
              /\ left[a].dealt_to \in Seats \ left[a].pending
              /\ left[a].pending # {} => \A d \in t.decrypted : d.card # left[a].card
              /\ \A b \in DOMAIN left : left[b].card = left[a].card => a = b
    BY <1>5, <1>7 DEF Carded, Requested, AskedRightly
  <2>2. u.reveal.phase = "showdown" =>
           \A a \in DOMAIN left : left[a].pending \subseteq ActiveSeats(u)
    BY <1>5, <1>6, <1>7 DEF Carded, Requested, AskedRightly
  <2>3. u.reveal.phase = "none" => left = <<>>
    BY <1>5, <1>7 DEF Carded, Requested, AskedRightly
  <2> QED
    BY <1>5, <2>1, <2>2, <2>3 DEF AskedRightly
<1> QED
  BY <1>1, <1>5, <1>7, <1>8, <1>9 DEF Carded, Requested, u

\* kick_player_internal
LEMMA KickCarded ==
    ASSUME NEW t, Turned(t), Laid(t), Carded(t), Timely(t), NEW s \in Seats
    PROVE  Carded(KickPlayerInternal(t, s))
<1> DEFINE gone == Unseated(t, s)
           freed == [gone EXCEPT !.shuffle.current = NoSeat]
           passed == ShufflePassed(gone, s)
           turned == TurnPassed(passed, s)
<1>1. \/ KickPlayerInternal(t, s) = Abort(t)
      \/ KickPlayerInternal(t, s) = turned
      \/ KickPlayerInternal(t, s) = ResetForNextHand(turned)
  BY DEF KickPlayerInternal, ResetIfTooFew
<1>2. /\ Steady(gone) /\ Alike(t, gone) /\ Laid(gone) /\ Carded(gone) /\ Timely(gone)
      /\ Carded(Abort(t))
  <2>1. Formed(t) /\ DOMAIN t = TableFields
    BY DEF Turned, Steady, Formed
  <2>2. Steady(gone) /\ Alike(t, gone)
    BY UnseatedTurned
  <2>3. SameCards(t, gone) /\ Carded(gone)
    BY <2>1, UnseatedCards, UnseatedCarded
  <2> HIDE DEF gone
  <2>4. Laid(gone)
    BY <2>3, SameCardsLaid
  <2>5. Carded(Abort(t))
    BY <2>1, RequireCarded
  <2>6. Timely(gone)
    BY <2>2 DEF Timely, Alike
  <2> QED
    BY <2>2, <2>3, <2>4, <2>5, <2>6
<1> HIDE DEF gone
<1>3. /\ SameCards(gone, freed) /\ Alike(gone, freed) /\ freed.seats = gone.seats
      /\ freed.dealt = gone.dealt /\ freed.decrypted = gone.decrypted
      /\ freed.round = gone.round /\ freed.reveal = gone.reveal
      /\ freed.shuffle.phase = gone.shuffle.phase
  BY <1>2 DEF SameCards, Alike, Steady, Formed, TableFields, Unopened
<1> HIDE DEF freed
<1>4. /\ Steady(freed) /\ Laid(freed) /\ (~gone.betting.open => Resting(freed))
      /\ Carded(freed) /\ Timely(freed)
  <2>1. Steady(freed) /\ Laid(freed) /\ (~gone.betting.open => Resting(freed))
    BY <1>2, <1>3, AlikeSteady, SameCardsLaid DEF Resting
  <2>2. Carded(freed) /\ Timely(freed)
    BY <1>2, <1>3, SeatsHoles, SameHolesCarded DEF Timely
  <2> QED
    BY <2>1, <2>2
<1>5. passed = gone \/ passed = AdvanceShuffle(freed)
  BY DEF ShufflePassed, freed
<1> HIDE DEF passed
<1>6. Steady(passed) /\ Carded(passed)
  <2>1. CASE ~gone.betting.open
    BY <2>1, <1>2, <1>4, <1>5, AdvanceShuffleCarded, AdvanceShuffleResting DEF Resting
  <2>2. CASE gone.betting.open
    <3>1. AdvanceShuffle(freed) = freed
      BY <2>2, <1>2, <1>3 DEF AdvanceShuffle, Alike, Steady, Rounded
    <3> QED
      BY <2>2, <3>1, <1>2, <1>4, <1>5
  <2> QED
    BY <2>1, <2>2
<1>7. \/ turned = passed
      \/ passed.betting.open /\ turned = EndWithoutShowdown(passed)
      \/ passed.betting.open /\ turned = AdvanceTurn(passed)
  BY DEF TurnPassed, IsBettingRound
<1> HIDE DEF turned
<1>8. Carded(turned) /\ DOMAIN turned = TableFields
  <2>1. DOMAIN passed = TableFields /\ Formed(passed)
    BY <1>6 DEF Steady, Formed
  <2>2. Carded(EndWithoutShowdown(passed)) /\ Carded(AdvanceTurn(passed))
    BY <1>6, <2>1, EndWithoutShowdownCarded, AdvanceTurnCarded
  <2>3. /\ Steady(EndWithoutShowdown(passed))
        /\ passed.betting.open => Steady(AdvanceTurn(passed))
    BY <1>6, EndWithoutShowdownTurned, AdvanceTurnTurned DEF Turned, Steady, Rounded
  <2> QED
    BY <1>6, <1>7, <2>1, <2>2, <2>3 DEF Steady, Formed
<1> QED
  BY <1>1, <1>2, <1>8, ResetCarded

\* A deck is reshuffled late in a hand, in the sound order of phases.
LEMMA GoodTimely ==
    ASSUME NEW t, Good(t)
    PROVE  Timely(t)
BY DEF Good, Sound, Exclusive, Timely, ShufflePhases

\* The cards of a table on which no bets are taken.
Paused(t) == Good(t) /\ Resting(t) /\ Laid(t) /\ Carded(t)

\* A kick while no bets are taken.
LEMMA KickIfSeatedPaused ==
    ASSUME NEW t, Paused(t), NEW s \in Seats
    PROVE  Paused(KickIfSeated(t, s)) /\ Paused(KickPlayerInternal(t, s))
<1> DEFINE u == KickPlayerInternal(t, s)
<1>1. Turned(t) /\ Timely(t) /\ Good(t) /\ Laid(t) /\ Carded(t) /\ Resting(t)
  BY RestingTurned, GoodTimely DEF Paused
<1>2. Good(u)
  BY <1>1, KickGood
<1>3. Resting(u)
  BY <1>1, KickTurned
<1>4. Laid(u)
  BY <1>1, KickLaid
<1>5. Carded(u)
  BY <1>1, KickCarded
<1> HIDE DEF u
<1>6. Paused(u)
  BY <1>2, <1>3, <1>4, <1>5 DEF Paused
<1> QED
  BY <1>6 DEF u, KickIfSeated

\* Kicking one seat after another while no bets are taken.
LEMMA KickAllPaused ==
    ASSUME NEW t, Paused(t), NEW order, Len(order) \in Nat,
           \A i \in 1 .. Len(order) : order[i] \in Seats
    PROVE  Paused(KickAll(t, order))
<1> DEFINE n == Len(order)
<1>1. PICK after : /\ after[0] = t
                   /\ \A i \in 1 .. n : after[i] = KickIfSeated(after[i - 1], order[i])
                   /\ KickAll(t, order) = after[n]
  BY KickAllSteps
<1> DEFINE Right == {k \in 0 .. n : Paused(after[k])}
<1>2. \A k \in 0 .. n : k \in Right
  <2>1. 0 \in Right
    <3>1. after[0] = t
      BY <1>1
    <3> QED
      BY <3>1
  <2>2. ASSUME NEW k \in 1 .. n, k - 1 \in Right
        PROVE  k \in Right
    <3> DEFINE u == after[k - 1]
    <3>1. after[k] = KickIfSeated(u, order[k]) /\ order[k] \in Seats
      BY <1>1
    <3>2. Paused(u)
      BY <2>2
    <3> HIDE DEF u
    <3>3. Paused(KickIfSeated(u, order[k]))
      BY <3>1, <3>2, KickIfSeatedPaused
    <3> QED
      BY <3>1, <3>3
  <2> HIDE DEF Right
  <2> QED
    BY <2>1, <2>2, UpTo
<1>3. n \in Right
  BY <1>2
<1> QED
  BY <1>1, <1>3

-----------------------------------------------------------------------------
(* Timeouts.                                                               *)

\* do_start_hand: no hole card is known when the first shuffle opens.
LEMMA DoStartHandCarded ==
    ASSUME NEW t, Steady(t), Laid(t), Carded(t), t.round = "waiting"
    PROVE  Carded(DoStartHand(t))
<1> DEFINE next == NextAround(OccupiedSeats(t), t.button)
           pending == PendingSeats(t)
           v == [[MoveButton(t) EXCEPT !.timers.shuffle = FALSE]
                    EXCEPT !.shuffle.pending = pending,
                           !.shuffle.phase = "before_preflop"]
           allowed == t.round = "waiting" /\ CountActiveOccupied(t) >= MinPlayers
<1>1. ~t.betting.open
  BY DEF Steady, Rounded, Asked
<1>2. OccupiedSeats(t) # {} => next \in Int
  <2>1. OccupiedSeats(t) \subseteq Seats /\ Seats \subseteq Int
    BY TableAssumption DEF OccupiedSeats, Seats
  <2> QED
    BY <2>1, NextAroundMember DEF Steady
<1> HIDE DEF next, pending
<1>3. MoveButton(t) = t \/ (next \in Int /\ MoveButton(t) = [t EXCEPT !.button = next])
  BY <1>2 DEF MoveButton, next
<1>4. Resting(v)
  BY <1>1, <1>3 DEF Resting, Steady, Formed, Rounded, TableFields
<1> DEFINE moved == [MoveButton(t) EXCEPT !.timers.shuffle = FALSE]
<1>5. /\ v.board = t.board /\ v.ready = t.ready /\ v.round = "waiting"
      /\ v.betting = t.betting /\ v.reveal = t.reveal /\ v.seats = t.seats
      /\ v.dealt = t.dealt /\ v.decrypted = t.decrypted
      /\ v.shuffle.phase = "before_preflop"
  <2>1. /\ DOMAIN moved = TableFields /\ moved.board = t.board /\ moved.ready = t.ready
        /\ moved.round = t.round /\ moved.betting = t.betting
        /\ moved.reveal = t.reveal /\ moved.seats = t.seats
        /\ moved.dealt = t.dealt /\ moved.decrypted = t.decrypted
        /\ moved.shuffle = t.shuffle
    BY <1>3 DEF Steady, Formed, TableFields
  <2>2. v = [moved EXCEPT !.shuffle.pending = pending, !.shuffle.phase = "before_preflop"]
    OBVIOUS
  <2>3. DOMAIN t.shuffle = {"phase", "current", "pending", "completed"}
    BY DEF Steady, Formed
  <2> HIDE DEF moved, v
  <2> QED
    BY <2>1, <2>2, <2>3 DEF TableFields
<1>6. DoStartHand(t) = Require(AdvanceShuffle(v), allowed)
  BY DEF DoStartHand, pending
<1> HIDE DEF v
<1>7. Laid(v)
  BY <1>1, <1>5 DEF Laid
<1>8. Carded(v) /\ Timely(v)
  BY <1>5, SeatsHoles, SameHolesCarded DEF Timely
<1>9. Carded(AdvanceShuffle(v)) /\ DOMAIN AdvanceShuffle(v) = TableFields
  BY <1>4, <1>7, <1>8, AdvanceShuffleCarded, AdvanceShuffleResting
     DEF Resting, Steady, Formed
<1> QED
  BY <1>6, <1>9, RequireCarded

\* All active seats shuffle.
LEMMA ReshuffleCarded ==
    ASSUME NEW t, Resting(t), Laid(t), Carded(t), NEW phase,
           \/ phase = "before_preflop" /\ t.round = "waiting"
           \/ phase = "reconstruct" /\ t.round # "preflop"
    PROVE  Carded(AdvanceShuffle(ShuffleAmongActive(t, phase)))
<1> DEFINE v == ShuffleAmongActive(t, phase)
<1>1. Resting(v)
  BY DEF ShuffleAmongActive, Resting, Steady, Formed, Rounded, TableFields
<1>2. /\ v.board = t.board /\ v.ready = t.ready /\ v.round = t.round
      /\ v.betting = t.betting /\ v.shuffle.phase = phase /\ v.reveal = t.reveal
      /\ v.seats = t.seats /\ v.dealt = t.dealt /\ v.decrypted = t.decrypted
  BY DEF ShuffleAmongActive, Resting, Steady, Formed, TableFields
<1> HIDE DEF v
<1>3. Laid(v)
  BY <1>2 DEF Laid, Unopened
<1>4. Carded(v) /\ Timely(v)
  BY <1>2, SeatsHoles, SameHolesCarded DEF Timely
<1>5. Carded(AdvanceShuffle(v))
  BY <1>1, <1>3, <1>4, AdvanceShuffleCarded
<1> QED
  BY <1>5 DEF v

\* A rebuilt deck is dealt from the start, and what was recorded stays so.
LEMMA RebuildDeckCarded ==
    ASSUME NEW t, DOMAIN t = TableFields, Carded(t)
    PROVE  Carded(RebuildDeck(t)) /\ RebuildDeck(t).round = t.round
<1> DEFINE u == RebuildDeck(t)
<1>1. /\ u.dealt = 0 /\ u.decrypted = t.decrypted /\ u.round = t.round
      /\ u.reveal = t.reveal /\ u.seats = t.seats
  BY DEF RebuildDeck, TableFields
<1> HIDE DEF u
<1>2. Recorded(u)
  BY <1>1 DEF Carded, Recorded
<1>3. ActiveSeats(u) = ActiveSeats(t)
  BY <1>1 DEF ActiveSeats, OccupiedSeats
<1>4. AskedRightly(u)
  BY <1>1, <1>3 DEF Carded, Requested, AskedRightly
<1> QED
  BY <1>1, <1>2, <1>4 DEF Carded, Requested, u

\* on_complete_reconstruct
LEMMA OnCompleteReconstructCarded ==
    ASSUME NEW t, Resting(t), Laid(t), Carded(t), t.round # "preflop"
    PROVE  Carded(OnCompleteReconstruct(t))
<1> DEFINE r == RebuildDeck(t)
           v == [r EXCEPT !.reconstruct.phase = "none"]
<1>1. Resting(r) /\ Laid(r) /\ Carded(r) /\ r.round # "preflop"
  <2>1. DOMAIN t = TableFields
    BY DEF Resting, Steady, Formed
  <2>2. Resting(r) /\ Laid(r)
    BY <2>1, RebuildDeckResting, RebuildDeckCards, SameCardsLaid
  <2> QED
    BY <2>1, <2>2, RebuildDeckCarded
<1>2. OnCompleteReconstruct(t) = AdvanceShuffle(ShuffleAmongActive(v, "reconstruct"))
  BY DEF OnCompleteReconstruct
<1> HIDE DEF r
<1>3. Resting(v) /\ SameCards(r, v)
  BY <1>1 DEF Resting, Steady, Formed, Rounded, TableFields, SameCards, Unopened
<1>4. /\ v.seats = r.seats /\ v.dealt = r.dealt /\ v.decrypted = r.decrypted
      /\ v.round = r.round /\ v.reveal = r.reveal
  BY <1>1 DEF Resting, Steady, Formed, TableFields
<1> HIDE DEF v
<1>5. Laid(v) /\ Carded(v)
  BY <1>1, <1>3, <1>4, SameCardsLaid, SeatsHoles, SameHolesCarded
<1> QED
  BY <1>1, <1>2, <1>3, <1>4, <1>5, ReshuffleCarded

\* What a timeout does after its kicks.
LEMMA AfterKicksCarded ==
    ASSUME NEW t, DOMAIN t = TableFields, Carded(t), NEW goOn, Carded(goOn)
    PROVE  Carded(AfterKicks(t, goOn))
BY RefundThenResetCarded, EndWithoutShowdownCarded DEF AfterKicks

\* on_reconstruct_timeout
LEMMA OnReconstructTimeoutCarded ==
    ASSUME NEW t, Paused(t), t.reconstruct.phase # "none"
    PROVE  Carded(OnReconstructTimeout(t))
<1> DEFINE order == Ascending(t.reconstruct.pending)
           u == KickAll(t, order)
<1>1. Len(order) \in Nat /\ \A i \in 1 .. Len(order) : order[i] \in Seats
  <2>1. t.reconstruct.pending \in SUBSET Int /\ IsFiniteSet(t.reconstruct.pending)
    BY SomeSeatsFinite, TableAssumption DEF Seats, Paused, Good, Sound, Shaped
  <2>2. Len(order) = Cardinality(t.reconstruct.pending) /\ Len(order) \in Nat
    BY <2>1, AscendingLists
  <2>3. t.reconstruct.pending \subseteq Seats
    BY DEF Paused, Good, Sound, Shaped
  <2> QED
    BY <2>1, <2>2, <2>3, AscendingMembers
<1> HIDE DEF order
<1>2. Paused(u)
  BY <1>1, KickAllPaused
<1>3. OnReconstructTimeout(t) = AfterReconstructKicks(u)
  BY DEF OnReconstructTimeout, order
<1>4. u.round # "preflop"
  <2>1. Good(t) /\ t.shuffle.phase = "none" /\ ~t.betting.open /\ t.round # "preflop"
    BY DEF Paused, Good, Sound, Exclusive, Resting
  <2>2. Idle(u) \/ \E S : Dropped(t, u, S)
    BY <1>1, <2>1, KickAllDrops
  <2> HIDE DEF u
  <2> QED
    BY <2>1, <2>2 DEF Idle, Dropped
<1> HIDE DEF u
<1>5. DOMAIN u = TableFields /\ Resting(u) /\ Laid(u) /\ Carded(u)
  BY <1>2 DEF Paused, Resting, Steady, Formed
<1>6. Carded(OnCompleteReconstruct(u))
  BY <1>4, <1>5, OnCompleteReconstructCarded
<1>7. Carded(EndWithoutShowdown(u)) /\ Carded(ResetForNextHand(RefundAllBets(u)))
  BY <1>5, EndWithoutShowdownCarded, RefundThenResetCarded
<1> QED
  BY <1>3, <1>5, <1>6, <1>7 DEF AfterReconstructKicks

\* on_reveal_timeout
LEMMA OnRevealTimeoutCarded ==
    ASSUME NEW t, Paused(t), DOMAIN t.reveal.asg \subseteq Nat
    PROVE  Carded(OnRevealTimeout(t))
<1> DEFINE order == RevealDebtors(t)
           u == KickAll(t, order)
<1>1. Len(order) \in Nat /\ \A i \in 1 .. Len(order) : order[i] \in Seats
  BY DebtorsListed
<1> HIDE DEF order
<1>2. Paused(u)
  BY <1>1, KickAllPaused
<1>3. OnRevealTimeout(t) = RestartAfterKicks(u) \/ OnRevealTimeout(t) = ReconstructAfterKicks(u)
  BY DEF OnRevealTimeout, order
<1> HIDE DEF u
<1>4. DOMAIN u = TableFields /\ Carded(u)
  BY <1>2 DEF Paused, Resting, Steady, Formed
<1> DEFINE v == StartReconstruct(u)
<1>5. /\ v.seats = u.seats /\ v.dealt = u.dealt /\ v.decrypted = u.decrypted
      /\ v.round = u.round /\ v.reveal = u.reveal
  BY <1>4 DEF StartReconstruct, TableFields
<1> HIDE DEF v
<1>6. Carded(v) /\ Carded(ResetForNextHand(RefundAllBets(u)))
  BY <1>4, <1>5, SeatsHoles, SameHolesCarded, RefundThenResetCarded
<1>7. Carded(AfterKicks(u, v)) /\ Carded(AfterKicks(u, ResetForNextHand(RefundAllBets(u))))
  BY <1>4, <1>6, AfterKicksCarded
<1> QED
  BY <1>3, <1>4, <1>7 DEF RestartAfterKicks, ReconstructAfterKicks, v

\* on_shuffle_timeout
LEMMA OnShuffleTimeoutCarded ==
    ASSUME NEW t, Paused(t), t.shuffle.current \in Seats
    PROVE  Carded(OnShuffleTimeout(t))
<1> DEFINE s == t.shuffle.current
           u == KickPlayerInternal(t, s)
           decks == u.reconstruct.decks \ {s}
           v == [u EXCEPT !.reconstruct.decks = decks]
           rebuilt == RebuildDeck(v)
           again == AdvanceShuffle(ShuffleAmongActive(u, "before_preflop"))
           anew == AdvanceShuffle(ShuffleAmongActive(rebuilt, "reconstruct"))
<1>1. Paused(u)
  BY KickIfSeatedPaused
<1>2. u.shuffle.phase \in {t.shuffle.phase, "none"}
  BY KickGood DEF Paused
<1>3. \/ OnShuffleTimeout(t) \in {t, AfterKicks(u, u)}
      \/ /\ u.shuffle.phase = "reconstruct"
         /\ OnShuffleTimeout(t) = AfterKicks(u, anew)
      \/ /\ t.shuffle.phase = "before_preflop" /\ u.shuffle.phase # "none"
         /\ OnShuffleTimeout(t) = AfterKicks(u, again)
  BY DEF OnShuffleTimeout, ReshuffleAfterKick, RebuildAfterKick
<1> HIDE DEF u, decks
<1>4. /\ Good(u) /\ Resting(u) /\ Laid(u) /\ Carded(u) /\ DOMAIN u = TableFields
      /\ Carded(t)
  BY <1>1 DEF Paused, Resting, Steady, Formed
<1>5. /\ Resting(v) /\ SameCards(u, v) /\ DOMAIN v = TableFields
      /\ v.seats = u.seats /\ v.dealt = u.dealt /\ v.decrypted = u.decrypted
      /\ v.round = u.round /\ v.reveal = u.reveal
  BY <1>4 DEF Resting, Steady, Formed, Rounded, TableFields, SameCards, Unopened
<1> HIDE DEF v
<1>6. Laid(v) /\ Carded(v)
  BY <1>4, <1>5, SameCardsLaid, SeatsHoles, SameHolesCarded
<1>7. Resting(rebuilt) /\ Laid(rebuilt) /\ Carded(rebuilt) /\ rebuilt.round = u.round
  <2>1. Resting(rebuilt) /\ Laid(rebuilt)
    BY <1>5, <1>6, RebuildDeckResting, RebuildDeckCards, SameCardsLaid
  <2>2. Carded(rebuilt) /\ rebuilt.round = v.round
    BY <1>5, <1>6, RebuildDeckCarded
  <2> QED
    BY <1>5, <2>1, <2>2
<1> HIDE DEF rebuilt
<1>8. u.shuffle.phase = "reconstruct" => Carded(anew)
  <2>1. u.shuffle.phase = "reconstruct" => rebuilt.round # "preflop"
    BY <1>4, <1>7 DEF Good, Sound, Exclusive
  <2> QED
    BY <1>7, <2>1, ReshuffleCarded
<1>9. t.shuffle.phase = "before_preflop" /\ u.shuffle.phase # "none" => Carded(again)
  <2>1. u.shuffle.phase = "before_preflop" => Carded(again)
    BY <1>4, ReshuffleCarded DEF Laid
  <2> QED
    BY <1>2, <2>1
<1> HIDE DEF again, anew
<1> QED
  BY <1>3, <1>4, <1>8, <1>9, AfterKicksCarded

-----------------------------------------------------------------------------
(* Bets and seats.                                                         *)

\* Where no card is asked for, seats may come and go.
LEMMA UnaskedCarded ==
    ASSUME NEW t, Carded(t), t.reveal.phase = "none",
           NEW u, u.dealt = t.dealt, u.decrypted = t.decrypted,
           u.round = t.round, u.reveal = t.reveal
    PROVE  Carded(u)
BY DEF Carded, Recorded, Requested, AskedRightly

\* fold, auto_fold and force_fold
LEMMA FoldsCarded ==
    ASSUME NEW s \in Seats, Turned(table), Carded(table),
           Fold(s) \/ AutoFold(s) \/ ForceFold(s)
    PROVE  Carded(table')
<1>1. table.betting.open /\ table' = DoFold(table, s)
  BY DEF Fold, AutoFold, ForceFold, OnTurn, Commit, IsBettingRound
<1> QED
  BY <1>1, DoFoldCarded DEF Turned

\* The turn goes on once a seat has bet.
LEMMA BetThenTurnCarded ==
    ASSUME NEW t, Steady(t), t.betting.open, Carded(t),
           NEW u, Formed(u), u.dealt = t.dealt, u.decrypted = t.decrypted,
           u.round = t.round, u.reveal = t.reveal
    PROVE  Carded(AdvanceTurn(u))
<1>1. t.reveal.phase = "none"
  BY DEF Steady, Rounded
<1>2. Carded(u)
  BY <1>1, UnaskedCarded
<1> QED
  BY <1>2, AdvanceTurnCarded

\* check and call
LEMMA CheckCallCarded ==
    ASSUME NEW s \in Seats, Turned(table), Carded(table), Check(s) \/ Call(s)
    PROVE  Carded(table')
<1> DEFINE paid == [table EXCEPT !.seats[s] =
                       PutIn(@, CallAmount(table.betting, table.seats[s]))]
           Left(u) == /\ Formed(u) /\ u.dealt = table.dealt
                      /\ u.decrypted = table.decrypted /\ u.round = table.round
                      /\ u.reveal = table.reveal
<1>1. /\ table.betting.open /\ s \in Seats
      /\ \/ table' = AdvanceTurn(Acted(table, s))
         \/ table' = AdvanceTurn(Acted(paid, s))
  BY DEF Check, Call, OnTurn, Commit, IsBettingRound
<1>2. Steady(table) /\ Left(table)
  BY DEF Turned, Steady
<1>3. Left(paid)
  BY <1>2 DEF Formed, TableFields, PutIn, SeatFields
<1> HIDE DEF paid
<1>4. Left(Acted(table, s)) /\ Left(Acted(paid, s))
  BY <1>2, <1>3 DEF Acted, Formed, TableFields, SeatFields
<1> QED
  BY <1>1, <1>2, <1>4, BetThenTurnCarded

\* raise
LEMMA RaiseCarded ==
    ASSUME NEW s \in Seats, NEW total, Turned(table), Carded(table), Raise(s, total)
    PROVE  Carded(table')
<1> DEFINE raised == [table EXCEPT
                         !.betting = RaisedRound(@, total),
                         !.seats[s] = PutIn(@, total - table.seats[s].bet)]
           acted == Acted(raised, s)
           u == ResetOtherPlayersActed(acted, s)
           Left(v) == /\ Formed(v) /\ v.dealt = table.dealt
                      /\ v.decrypted = table.decrypted /\ v.round = table.round
                      /\ v.reveal = table.reveal
<1>1. table.betting.open /\ table' = AdvanceTurn(u)
  BY DEF Raise, OnTurn, Commit, IsBettingRound
<1>2. Steady(table) /\ Left(table)
  BY DEF Turned, Steady
<1>3. Left(raised)
  BY <1>2 DEF Formed, TableFields, PutIn, SeatFields, RaisedRound
<1> HIDE DEF raised
<1>4. Left(acted)
  BY <1>3 DEF Acted, Formed, TableFields, SeatFields
<1> HIDE DEF acted
<1>5. Left(u)
  BY <1>4 DEF ResetOtherPlayersActed, Formed, TableFields, SeatFields
<1> HIDE DEF u
<1> QED
  BY <1>1, <1>2, <1>5, BetThenTurnCarded

\* join_table and join_and_shuffle: a player sits down at a seat nobody is
\* asked at.
LEMMA JoinCarded ==
    ASSUME NEW p \in Players, NEW s \in Seats, NEW coin, Turned(table), Carded(table),
           JoinTable(p, s, coin) \/ JoinAndShuffle(p, s, coin)
    PROVE  Carded(table')
<1> DEFINE waits == IsPlaying(table)
           late == Seated(table, p, s, coin, waits)
           early == AddPk(Seated(table, p, s, coin, FALSE), p)
           shuffled == [early EXCEPT !.shuffle.completed = @ \cup {s},
                                     !.shuffle.pending = @ \ {s}]
           Left(u) == /\ u.dealt = table.dealt /\ u.decrypted = table.decrypted
                      /\ u.round = table.round /\ u.reveal = table.reveal
                      /\ \A r \in Seats \ {s} : u.seats[r] = table.seats[r]
<1>1. table' \in {late, AddPk(late, p), shuffled} /\ ~IsSeatOccupied(table.seats[s])
  BY DEF JoinTable, JoinAndShuffle, Commit, CanSit
<1>2. Formed(table)
  BY DEF Turned, Steady
<1>3. Left(late) /\ Left(AddPk(late, p)) /\ Left(shuffled)
  BY <1>2 DEF Seated, AddPk, Formed, TableFields
<1> HIDE DEF late, shuffled
<1>4. \A u : Left(u) => SameHoles(table, u)
  BY <1>1 DEF SameHoles, ActiveSeats, OccupiedSeats
<1> HIDE DEF Left
<1> QED
  BY <1>1, <1>3, <1>4, SameHolesCarded

\* leave_with_proof and leave_table: who leaves during a hand was waiting, and
\* is not asked for a card.
LEMMA LeaveCarded ==
    ASSUME NEW s \in Seats, Good(table), Turned(table), Carded(table),
           LeaveWithProof(s) \/ LeaveTable(s)
    PROVE  Carded(table')
<1> DEFINE unkeyed == RemovePk(table, table.seats[s].player)
           v == [unkeyed EXCEPT !.shuffle.pending = @ \ {s},
                                !.shuffle.completed = @ \ {s}]
           Left(u) == /\ DOMAIN u = TableFields /\ u.dealt = table.dealt
                      /\ u.decrypted = table.decrypted
                      /\ u.round = table.round /\ u.reveal = table.reveal
                      /\ \A r \in Seats \ {s} : u.seats[r] = table.seats[r]
<1>1. /\ \E u \in {table, unkeyed, v} : table' = Departed(u, s)
      /\ table.round = "waiting" \/ table.seats[s].is_waiting
  BY DEF LeaveWithProof, LeaveTable, Commit, IsPlaying
<1>2. Formed(table)
  BY DEF Turned, Steady
<1>3. \A u \in {table, unkeyed, v} : Left(u)
  <2>1. Left(table)
    BY <1>2 DEF Formed
  <2>2. Left(unkeyed) /\ unkeyed.shuffle = table.shuffle
    BY <1>2 DEF RemovePk, Formed, TableFields
  <2> HIDE DEF unkeyed
  <2>3. Left(v)
    BY <2>2 DEF TableFields
  <2> QED
    BY <2>1, <2>2, <2>3
<1> HIDE DEF unkeyed, v
<1>4. ASSUME NEW u, Left(u) PROVE Left(Departed(u, s))
  <2> DEFINE paid == RefundSui(u, u.seats[s].stack)
  <2>1. Left(paid)
    BY <1>4 DEF RefundSui, Require, Abort, TableFields
  <2>2. Departed(u, s) = [paid EXCEPT !.seats[s] = EmptySeat]
    BY DEF Departed
  <2> HIDE DEF paid
  <2> QED
    BY <2>1, <2>2 DEF TableFields
<1>5. Left(table')
  BY <1>1, <1>3, <1>4
<1>6. CASE table.round = "waiting"
  BY <1>5, <1>6, UnaskedCarded DEF Good, Sound, Exclusive
<1>7. CASE table.seats[s].is_waiting
  <2>1. SameHoles(table, table')
    BY <1>5, <1>7 DEF SameHoles, ActiveSeats, OccupiedSeats
  <2> QED
    BY <2>1, SameHolesCarded
<1> QED
  BY <1>1, <1>6, <1>7

-----------------------------------------------------------------------------
(* Shuffles and reconstructions.                                           *)

\* start_hand
LEMMA StartHandCarded ==
    ASSUME Turned(table), Laid(table), Carded(table), StartHand
    PROVE  Carded(table')
<1>1. Steady(table) /\ DOMAIN table = TableFields
  BY DEF Turned, Steady, Formed
<1> QED
  BY <1>1, StartHandAllowed, DoStartHandCarded

\* submit_shuffle
LEMMA SubmitShuffleCarded ==
    ASSUME NEW s \in Seats, Good(table), Turned(table), Laid(table), Carded(table),
           SubmitShuffle(s)
    PROVE  Carded(table')
<1> DEFINE u == [table EXCEPT !.shuffle.completed = @ \cup {s},
                              !.shuffle.pending = @ \ {s}]
<1>1. table' = AdvanceShuffle(u) /\ table.shuffle.phase # "none"
  BY DEF SubmitShuffle, Commit
<1>2. Resting(u) /\ SameCards(table, u)
  BY <1>1 DEF Turned, Resting, Steady, Formed, Rounded, TableFields, SameCards, Unopened
<1>3. /\ u.seats = table.seats /\ u.dealt = table.dealt
      /\ u.decrypted = table.decrypted /\ u.round = table.round
      /\ u.reveal = table.reveal /\ u.shuffle.phase = table.shuffle.phase
  BY DEF Turned, Steady, Formed, TableFields
<1> HIDE DEF u
<1>4. Carded(u) /\ Timely(u)
  BY <1>3, GoodTimely, SeatsHoles, SameHolesCarded DEF Timely
<1> QED
  BY <1>1, <1>2, <1>4, SameCardsLaid, AdvanceShuffleCarded

\* submit_reconstruct_deck
LEMMA SubmitReconstructDeckCarded ==
    ASSUME NEW s \in Seats, Good(table), Turned(table), Laid(table), Carded(table),
           SubmitReconstructDeck(s)
    PROVE  Carded(table')
<1> DEFINE u == [table EXCEPT !.reconstruct.pending = @ \ {s},
                              !.reconstruct.decks = @ \cup {s}]
<1>1. /\ table.reconstruct.phase = "collecting"
      /\ table' = u \/ table' = OnCompleteReconstruct(u)
  BY DEF SubmitReconstructDeck, Commit
<1>2. Resting(u) /\ SameCards(table, u)
  BY <1>1 DEF Turned, Resting, Steady, Formed, Rounded, TableFields, SameCards, Unopened
<1>3. /\ u.seats = table.seats /\ u.dealt = table.dealt
      /\ u.decrypted = table.decrypted /\ u.round = table.round
      /\ u.reveal = table.reveal
  BY DEF Turned, Steady, Formed, TableFields
<1> HIDE DEF u
<1>4. Carded(u) /\ u.round # "preflop"
  BY <1>1, <1>3, SeatsHoles, SameHolesCarded DEF Good, Sound, Exclusive
<1> QED
  BY <1>1, <1>2, <1>4, SameCardsLaid, OnCompleteReconstructCarded

-----------------------------------------------------------------------------
(* The tick.                                                               *)

\* A started timer leaves the hole cards alone.
LEMMA TimersCarded ==
    ASSUME NEW t, DOMAIN t = TableFields, Carded(t), NEW timers
    PROVE  Carded([t EXCEPT !.timers = timers])
<1> DEFINE u == [t EXCEPT !.timers = timers]
<1>1. /\ u.seats = t.seats /\ u.dealt = t.dealt /\ u.decrypted = t.decrypted
      /\ u.round = t.round /\ u.reveal = t.reveal
  BY DEF TableFields
<1> HIDE DEF u
<1>2. Carded(u)
  BY <1>1, SeatsHoles, SameHolesCarded
<1> QED
  BY <1>2 DEF u

\* tick, while cards are shuffled
LEMMA TickShuffleCarded ==
    ASSUME NEW t, Paused(t), t.shuffle.phase # "none", NEW expired
    PROVE  Carded(TickShuffle(t, expired))
<1> DEFINE timers == [t.timers EXCEPT !.shuffle = TRUE]
<1>1. \/ TickShuffle(t, expired) = AdvanceShuffle(t)
      \/ TickShuffle(t, expired) = OnShuffleTimeout(t)
      \/ TickShuffle(t, expired) = [t EXCEPT !.timers = timers]
  BY DEF TickShuffle, Paused, Resting, Steady, Formed, TableFields
<1> HIDE DEF timers
<1>2. /\ Resting(t) /\ Laid(t) /\ Carded(t) /\ Timely(t) /\ DOMAIN t = TableFields
  BY GoodTimely DEF Paused, Resting, Steady, Formed
<1>3. t.shuffle.current \in Seats
  BY ActiveAreSeats DEF Paused, Good, Sound, Covers, Led
<1> QED
  BY <1>1, <1>2, <1>3, AdvanceShuffleCarded, OnShuffleTimeoutCarded, TimersCarded

\* tick, while cards are opened: the phase may be complete, and the next one
\* may be timed out at once.
LEMMA TickRevealCarded ==
    ASSUME NEW t, Good(t), Turned(t), Laid(t), Carded(t), Calm(t), NEW expired, NEW ranks
    PROVE  Carded(TickReveal(t, expired, ranks))
<1> DEFINE u == Answered(t, ranks)
           timers == [u.timers EXCEPT !.reveal = TRUE]
<1>1. Turned(u)
  BY CheckRevealTurned DEF Answered, Good, Sound
<1>2. Good(u)
  BY AnsweredOnward DEF Onward
<1>3. Laid(u)
  BY CheckRevealLaid DEF Answered, Good, Sound, Turned
<1>4. Carded(u)
  BY CheckRevealCarded DEF Answered, Good, Sound
<1> HIDE DEF u
<1>5. \/ TickReveal(t, expired, ranks) = u
      \/ /\ u.reveal.phase # "none"
         /\ \/ TickReveal(t, expired, ranks) = OnRevealTimeout(u)
            \/ TickReveal(t, expired, ranks) = [u EXCEPT !.timers = timers]
  BY <1>1 DEF TickReveal, RevealTimed, u, Turned, Steady, Formed, TableFields
<1> HIDE DEF timers
<1>6. DOMAIN u = TableFields
  BY <1>1 DEF Turned, Steady, Formed
<1>7. ASSUME u.reveal.phase # "none"
      PROVE  Paused(u) /\ DOMAIN u.reveal.asg \subseteq Nat
  BY <1>1, <1>2, <1>3, <1>4, <1>7
     DEF Paused, Turned, Resting, Steady, Rounded, Good, Sound, Asking
<1>8. Carded([u EXCEPT !.timers = timers])
  BY <1>4, <1>6, TimersCarded
<1>9. u.reveal.phase # "none" => Carded(OnRevealTimeout(u))
  BY <1>7, OnRevealTimeoutCarded
<1> QED
  BY <1>4, <1>5, <1>8, <1>9

\* tick, while bets are taken
LEMMA TickBettingCarded ==
    ASSUME NEW t, Turned(t), Carded(t), IsBettingRound(t), NEW expired
    PROVE  Carded(TickBetting(t, expired))
<1> DEFINE timers == [t.timers EXCEPT !.betting = TRUE]
<1>1. t.betting.open /\ Steady(t) /\ DOMAIN t = TableFields
  BY DEF IsBettingRound, Turned, Steady, Formed
<1>2. Carded(AdvanceRound(CollectBetsToPot(t)))
  BY <1>1, CollectedThenAdvancedCarded DEF Steady
<1>3. \/ TickBetting(t, expired) = AdvanceRound(CollectBetsToPot(t))
      \/ TickBetting(t, expired) = DoFold(t, t.turn)
      \/ TickBetting(t, expired) = [t EXCEPT !.timers = timers]
  BY <1>1 DEF TickBetting, TableFields
<1> HIDE DEF timers
<1> QED
  BY <1>1, <1>2, <1>3, DoFoldCarded, TimersCarded

\* tick, while the hands are shown
LEMMA TickShowdownCarded ==
    ASSUME NEW t, Good(t), Carded(t), NEW expired, NEW ranks
    PROVE  Carded(TickShowdown(t, expired, ranks))
<1> DEFINE timers == [t.timers EXCEPT !.showdown = TRUE]
           u == [t EXCEPT !.timers = timers]
<1>1. Shaped(t) /\ DOMAIN t = TableFields
  BY DEF Good, Sound, Shaped
<1>2. TickShowdown(t, expired, ranks) \in {SettleHand(u, ranks), u}
  BY <1>1 DEF TickShowdown, TableFields
<1> HIDE DEF timers
<1>3. Shaped(u) /\ Carded(u)
  <2>1. Shaped(u)
    BY <1>1 DEF Shaped, TableFields
  <2> QED
    BY <1>1, <2>1, TimersCarded
<1> HIDE DEF u
<1> QED
  BY <1>2, <1>3, SettleHandCarded

\* tick, in whatever phase the table is
LEMMA TickedCarded ==
    ASSUME NEW t, Good(t), Turned(t), Laid(t), Carded(t), NEW expired, NEW ranks
    PROVE  Carded(Ticked(t, expired, ranks))
<1>1. CASE t.reconstruct.phase # "none"
  <2>1. Ticked(t, expired, ranks) = TickReconstruct(t, expired)
    BY <1>1 DEF Ticked, IsPlaying
  <2>2. Paused(t)
    BY <1>1 DEF Paused, Turned, Resting, Steady, Rounded
  <2> QED
    BY <1>1, <2>1, <2>2, OnReconstructTimeoutCarded DEF TickReconstruct
<1>2. CASE t.reconstruct.phase = "none" /\ t.shuffle.phase # "none"
  <2>1. Ticked(t, expired, ranks) = TickShuffle(t, expired)
    BY <1>2 DEF Ticked, IsPlaying
  <2>2. Paused(t)
    BY <1>2 DEF Paused, Turned, Resting, Steady, Rounded
  <2> QED
    BY <1>2, <2>1, <2>2, TickShuffleCarded
<1>3. CASE /\ t.reconstruct.phase = "none" /\ t.shuffle.phase = "none"
           /\ t.reveal.phase # "none"
  <2>1. Ticked(t, expired, ranks) = TickReveal(t, expired, ranks)
    BY <1>3 DEF Ticked, IsPlaying
  <2> QED
    BY <1>3, <2>1, TickRevealCarded DEF Calm
<1>4. CASE Still(t)
  <2>1. CASE ~IsPlaying(t)
    <3>1. Ticked(t, expired, ranks) = TickWaiting(t)
      BY <1>4, <2>1 DEF Ticked, Still
    <3>2. t.round = "waiting" /\ Steady(t)
      BY <2>1 DEF IsPlaying, Turned
    <3> QED
      BY <3>1, <3>2, DoStartHandCarded DEF TickWaiting
  <2>2. CASE IsPlaying(t)
    <3>1. \/ IsBettingRound(t) /\ Ticked(t, expired, ranks) = TickBetting(t, expired)
          \/ Ticked(t, expired, ranks) = TickShowdown(t, expired, ranks)
          \/ Ticked(t, expired, ranks) = ResetForNextHand(RefundAllBets(t))
      BY <1>4, <2>2 DEF Ticked, Still
    <3>2. Carded(ResetForNextHand(RefundAllBets(t)))
      BY RefundThenResetCarded DEF Turned, Steady, Formed
    <3> QED
      BY <3>1, <3>2, TickBettingCarded, TickShowdownCarded
  <2> QED
    BY <2>1, <2>2
<1> QED
  BY <1>1, <1>2, <1>3, <1>4 DEF Still

-----------------------------------------------------------------------------
(* The tokens.                                                             *)

\* u is t once the tokens of seat s for the assignments S are in.
Given(t, s, S, u) ==
    /\ DOMAIN u = TableFields /\ u.seats = t.seats /\ u.dealt = t.dealt
    /\ u.decrypted = t.decrypted /\ u.round = t.round
    /\ DOMAIN u.reveal = {"phase", "asg"} /\ u.reveal.phase = t.reveal.phase
    /\ u.reveal.asg \in Seq(AssignmentType)
    /\ DOMAIN u.reveal.asg = DOMAIN t.reveal.asg
    /\ \A a \in DOMAIN t.reveal.asg :
          /\ u.reveal.asg[a].card = t.reveal.asg[a].card
          /\ u.reveal.asg[a].dealt_to = t.reveal.asg[a].dealt_to
          /\ u.reveal.asg[a].pending =
                IF a \in S THEN t.reveal.asg[a].pending \ {s}
                ELSE t.reveal.asg[a].pending

\* Tokens taken in: the seat is not asked for these cards any more.
LEMMA TokensTakenCards ==
    ASSUME NEW t, Formed(t), Requested(t), NEW s, NEW S
    PROVE  Given(t, s, S, TokensTaken(t, s, S))
<1> DEFINE asg == t.reveal.asg
           n == Len(asg)
           u == TokensTaken(t, s, S)
           last(a) == asg[a].pending = {s}
           taken(a) == [asg[a] EXCEPT !.pending = @ \ {s}, !.decrypted = last(a)]
           out == [a \in DOMAIN asg |-> IF a \notin S THEN asg[a] ELSE taken(a)]
<1>1. n \in Nat /\ DOMAIN asg = 1 .. n /\ \A a \in 1 .. n : asg[a] \in AssignmentType
  BY LenProperties, ElementOfSeq DEF Requested
<1>2. /\ DOMAIN u = TableFields /\ u.seats = t.seats /\ u.dealt = t.dealt
      /\ u.decrypted = t.decrypted /\ u.round = t.round
      /\ DOMAIN u.reveal = {"phase", "asg"} /\ u.reveal.phase = t.reveal.phase
      /\ u.reveal.asg = out
  BY DEF TokensTaken, Formed, TableFields
<1> HIDE DEF u
<1>3. \A a \in 1 .. n : /\ taken(a) \in AssignmentType
                        /\ taken(a).card = asg[a].card
                        /\ taken(a).dealt_to = asg[a].dealt_to
                        /\ taken(a).pending = asg[a].pending \ {s}
  <2> TAKE a \in 1 .. n
  <2>1. last(a) \in BOOLEAN
    BY Zenon
  <2>2. asg[a] \in AssignmentType
    BY <1>1
  <2> HIDE DEF last
  <2> QED
    BY <2>1, <2>2 DEF AssignmentType
<1>4. /\ DOMAIN out = 1 .. n /\ out = [a \in 1 .. n |-> out[a]]
      /\ \A a \in 1 .. n : out[a] = IF a \in S THEN taken(a) ELSE asg[a]
  BY <1>1
<1> HIDE DEF out, taken, last
<1>5. \A a \in 1 .. n : out[a] \in AssignmentType
  BY <1>1, <1>3, <1>4
<1>6. out \in Seq(AssignmentType)
  BY <1>1, <1>4, <1>5, AssignmentsListed
<1> QED
  BY <1>1, <1>2, <1>3, <1>4, <1>6 DEF Given, u

\* find_hand_card_owner names a seat, or nobody.
LEMMA OwnerIsSeat ==
    ASSUME NEW t, t.dealt \in Nat, NEW card \in Nat
    PROVE  FindHandCardOwner(t, card) \in Seats \cup {NoSeat}
<1> DEFINE active == ActiveSeats(t)
           n == Cardinality(active)
           offset == card - (t.dealt - n * CardsPerPlayer)
           i == (offset \div CardsPerPlayer) + 1
<1>1. active \in SUBSET Seats /\ IsFiniteSet(active) /\ n \in Nat
  BY ActiveAreSeats, SomeSeatsFinite
<1>2. CardsPerPlayer \in Nat \ {0}
  BY TableAssumption
<1>3. active \in SUBSET Int
  BY <1>1, TableAssumption DEF Seats
<1>4. \/ FindHandCardOwner(t, card) = NoSeat
      \/ /\ ~(offset < 0) /\ ~(offset >= n * CardsPerPlayer)
         /\ FindHandCardOwner(t, card) = Ascending(active)[i]
  BY DEF FindHandCardOwner
<1> HIDE DEF active
<1>5. n * CardsPerPlayer \in Nat /\ offset \in Int
  <2> HIDE DEF n
  <2> QED
    BY <1>1, <1>2
<1> HIDE DEF offset
<1>6. ~(offset < 0) /\ ~(offset >= n * CardsPerPlayer) => i \in 1 .. n
  <2> HIDE DEF n
  <2>1. ASSUME ~(offset < 0), ~(offset >= n * CardsPerPlayer) PROVE i \in 1 .. n
    <3>1. offset \in Nat /\ offset < n * CardsPerPlayer
      BY <1>5, <2>1
    <3> QED
      BY <1>1, <1>2, <3>1, GroupOf
  <2> QED
    BY <2>1
<1> HIDE DEF i
<1>7. i \in 1 .. n => Ascending(active)[i] \in Seats
  <2>1. i \in 1 .. n => Ascending(active)[i] \in active
    BY <1>1, <1>3, AscendingMembers
  <2> QED
    BY <1>1, <2>1
<1> QED
  BY <1>4, <1>6, <1>7

\* Hole cards that are opened are recorded once.
LEMMA HoleCardsOpenedCarded ==
    ASSUME NEW t, Formed(t), Carded(t), t.reveal.phase = "preflop", t.round # "waiting",
           NEW s, NEW S, S \subseteq OwedBy(t, s),
           \A a \in S : FindHandCardOwner(t, t.reveal.asg[a].card) # NoSeat,
           NEW done, done = {a \in S : t.reveal.asg[a].pending = {s}},
           IsFiniteSet(HoleCardsOpened(TokensTaken(t, s, S), done).decrypted)
    PROVE  Carded(HoleCardsOpened(TokensTaken(t, s, S), done))
<1> DEFINE taken == TokensTaken(t, s, S)
           opened == [a \in done |->
              [card |-> taken.reveal.asg[a].card,
               owner |-> FindHandCardOwner(taken, taken.reveal.asg[a].card),
               plain |-> FALSE, dealt_to |-> taken.reveal.asg[a].dealt_to]]
           new == {opened[a] : a \in done}
           u == HoleCardsOpened(taken, done)
<1>1. Given(t, s, S, taken) /\ IsFiniteSet(u.decrypted)
  BY TokensTakenCards DEF Carded
<1>2. u = [taken EXCEPT !.decrypted = @ \cup new]
  BY DEF HoleCardsOpened
<1> HIDE DEF taken
<1> DEFINE asg == t.reveal.asg
<1>3. \A a \in done : /\ a \in DOMAIN asg /\ a \in S /\ asg[a].pending = {s}
                      /\ asg[a].card \in Nat /\ asg[a].dealt_to \in Seats
                      /\ \A d \in t.decrypted : d.card # asg[a].card
  <2> TAKE a \in done
  <2>1. a \in DOMAIN asg /\ a \in S /\ asg[a].pending = {s}
    BY DEF OwedBy
  <2>2. asg \in Seq(AssignmentType)
    BY DEF Carded, Requested
  <2>3. asg[a] \in AssignmentType
    BY <2>1, <2>2, ElementOfSeq, LenProperties
  <2> QED
    BY <2>1, <2>3 DEF AssignmentType, Carded, Requested, AskedRightly
<1>4. \A a \in done : FindHandCardOwner(taken, asg[a].card) \in Seats
  <2> TAKE a \in done
  <2>1. ActiveSeats(taken) = ActiveSeats(t) /\ taken.dealt = t.dealt
    BY <1>1 DEF Given, ActiveSeats, OccupiedSeats
  <2>2. FindHandCardOwner(taken, asg[a].card) = FindHandCardOwner(t, asg[a].card)
    BY <2>1 DEF FindHandCardOwner
  <2>3. FindHandCardOwner(t, asg[a].card) \in Seats \cup {NoSeat}
    BY <1>3, OwnerIsSeat DEF Carded, Recorded
  <2> QED
    BY <1>3, <2>2, <2>3
<1>5. \A a \in done : /\ opened[a].card = asg[a].card
                      /\ opened[a] \in CardType
  <2> TAKE a \in done
  <2>1. /\ taken.reveal.asg[a].card = asg[a].card
        /\ taken.reveal.asg[a].dealt_to = asg[a].dealt_to
    BY <1>1, <1>3 DEF Given
  <2> QED
    BY <1>3, <1>4, <2>1 DEF CardType
<1>6. \A d \in new : \E a \in done : d = opened[a]
  OBVIOUS
<1> HIDE DEF opened, new
<1>7. new \in SUBSET CardType
  BY <1>5, <1>6
<1>8. /\ u.seats = t.seats /\ u.dealt = t.dealt /\ u.round = t.round
      /\ u.decrypted = t.decrypted \cup new /\ u.reveal = taken.reveal
  BY <1>1, <1>2 DEF Given, TableFields
<1> HIDE DEF u
<1>9. /\ \A d \in new : \E a \in done : d = opened[a] /\ d.card = asg[a].card
      /\ \A d \in new : \A e \in t.decrypted : e.card # d.card
  <2>1. \A d \in new : \E a \in done : d = opened[a] /\ d.card = asg[a].card
    BY <1>5, <1>6
  <2>2. \A d \in new : \A e \in t.decrypted : e.card # d.card
    BY <1>3, <2>1
  <2> QED
    BY <2>1, <2>2
<1>10. \A a, b \in DOMAIN asg : asg[b].card = asg[a].card => a = b
  BY DEF Carded, Requested, AskedRightly
<1>11. \A d, e \in t.decrypted \cup new : d.card = e.card => d = e
  <2>1. \A d, e \in new : d.card = e.card => d = e
    BY <1>3, <1>9, <1>10
  <2>2. \A d, e \in t.decrypted : d.card = e.card => d = e
    BY DEF Carded, Recorded
  <2> QED
    BY <1>9, <2>1, <2>2
<1>12. Recorded(u)
  BY <1>1, <1>7, <1>8, <1>11 DEF Carded, Recorded
<1>13. AskedRightly(u)
  <2>1. \A a \in DOMAIN asg :
           /\ asg[a].dealt_to \in Seats \ asg[a].pending
           /\ asg[a].pending # {} => \A d \in t.decrypted : d.card # asg[a].card
    BY DEF Carded, Requested, AskedRightly
  <2> DEFINE after == taken.reveal.asg
  <2>2. \A a \in DOMAIN asg : /\ after[a].dealt_to \in Seats \ after[a].pending
                              /\ after[a].card = asg[a].card
                              /\ after[a].pending # {} => asg[a].pending # {}
                              /\ a \in done => after[a].pending = {}
    <3> TAKE a \in DOMAIN asg
    <3> DEFINE owed == asg[a].pending
               left == after[a].pending
    <3>1. /\ after[a].card = asg[a].card /\ after[a].dealt_to = asg[a].dealt_to
          /\ left = IF a \in S THEN owed \ {s} ELSE owed
      BY <1>1 DEF Given
    <3>2. asg[a].dealt_to \in Seats \ owed
      BY <2>1
    <3>3. a \in done => a \in S /\ owed = {s}
      BY <1>3
    <3> HIDE DEF owed, left
    <3>4. a \in done => left = {}
      BY <3>1, <3>3
    <3>5. left \subseteq owed
      BY <3>1
    <3> QED
      BY <3>1, <3>2, <3>4, <3>5 DEF owed, left
  <2>3. \A a \in DOMAIN asg : after[a].pending # {} =>
           \A d \in t.decrypted \cup new : d.card # after[a].card
    <3> SUFFICES ASSUME NEW a \in DOMAIN asg, after[a].pending # {},
                        NEW d \in t.decrypted \cup new
                 PROVE  d.card # asg[a].card
      BY <2>2
    <3>1. CASE d \in t.decrypted
      BY <2>1, <2>2, <3>1
    <3>2. CASE d \in new
      <4>1. PICK b \in done : d.card = asg[b].card
        BY <1>9, <3>2
      <4>2. b \in DOMAIN asg /\ a \notin done
        BY <1>3, <2>2
      <4> QED
        BY <1>10, <4>1, <4>2
    <3> QED
      BY <3>1, <3>2
  <2> QED
    <3>1. DOMAIN after = DOMAIN asg /\ u.reveal.asg = after
          /\ u.reveal.phase = "preflop"
      BY <1>1, <1>8 DEF Given
    <3>2. \A a, b \in DOMAIN after : after[b].card = after[a].card => a = b
      BY <1>10, <2>2, <3>1
    <3> HIDE DEF after
    <3> QED
      BY <1>8, <2>2, <2>3, <3>1, <3>2 DEF AskedRightly
<1> QED
  BY <1>1, <1>8, <1>12, <1>13 DEF Given, Carded, Requested, u, taken

\* Hole cards that are shown stay recorded where they were.
LEMMA HoleCardsShownCarded ==
    ASSUME NEW t, Formed(t), Carded(t), t.reveal.phase = "showdown",
           t.round # "waiting", NEW s, NEW S, NEW done,
           IsFiniteSet(HoleCardsShown(TokensTaken(t, s, S), done).decrypted)
    PROVE  Carded(HoleCardsShown(TokensTaken(t, s, S), done))
<1> DEFINE taken == TokensTaken(t, s, S)
           cards == {taken.reveal.asg[a].card : a \in done}
           plain(d) == d.plain \/ d.card \in cards
           shown == {[d EXCEPT !.plain = plain(d)] : d \in taken.decrypted}
           u == HoleCardsShown(taken, done)
<1>1. Given(t, s, S, taken) /\ IsFiniteSet(u.decrypted)
  BY TokensTakenCards DEF Carded
<1>2. u = [taken EXCEPT !.decrypted = shown]
  BY DEF HoleCardsShown
<1> HIDE DEF taken
<1>3. taken.decrypted = t.decrypted /\ t.decrypted \in SUBSET CardType
  BY <1>1 DEF Given, Carded, Recorded
<1>4. \A d \in shown : \E e \in t.decrypted : d = [e EXCEPT !.plain = plain(e)]
  BY <1>3
<1>5. \A e \in CardType : /\ [e EXCEPT !.plain = plain(e)] \in CardType
                          /\ [e EXCEPT !.plain = plain(e)].card = e.card
  <2> TAKE e \in CardType
  <2>1. plain(e) \in BOOLEAN
    BY Zenon
  <2> HIDE DEF plain
  <2> QED
    BY <2>1 DEF CardType
<1> HIDE DEF plain, shown
<1>6. /\ shown \in SUBSET CardType
      /\ \A d \in shown : \E e \in t.decrypted :
            d.card = e.card /\ d = [e EXCEPT !.plain = plain(e)]
  BY <1>3, <1>4, <1>5
<1>7. /\ u.seats = t.seats /\ u.dealt = t.dealt /\ u.round = t.round
      /\ u.decrypted = shown /\ u.reveal = taken.reveal
  BY <1>1, <1>2 DEF Given, TableFields
<1> HIDE DEF u
<1>8. \A d, e \in shown : d.card = e.card => d = e
  <2>1. \A d, e \in t.decrypted : d.card = e.card => d = e
    BY DEF Carded, Recorded
  <2> QED
    BY <1>6, <2>1
<1>9. Recorded(u)
  BY <1>1, <1>6, <1>7, <1>8 DEF Carded, Recorded
<1>10. ActiveSeats(u) = ActiveSeats(t)
  BY <1>7 DEF ActiveSeats, OccupiedSeats
<1>11. AskedRightly(u)
  <2>1. \A a \in DOMAIN t.reveal.asg : t.reveal.asg[a].pending \subseteq ActiveSeats(t)
    BY DEF Carded, Requested, AskedRightly
  <2>2. \A a \in DOMAIN t.reveal.asg : taken.reveal.asg[a].pending \subseteq ActiveSeats(t)
    BY <1>1, <2>1 DEF Given
  <2>3. DOMAIN taken.reveal.asg = DOMAIN t.reveal.asg /\ taken.reveal.phase = "showdown"
    BY <1>1 DEF Given
  <2> QED
    BY <1>7, <1>10, <2>2, <2>3 DEF AskedRightly
<1> QED
  BY <1>1, <1>7, <1>9, <1>11 DEF Given, Carded, Requested, u, taken

\* Community cards that are opened, or turn out to be blank and are dealt again.
LEMMA CommunityOpenedCarded ==
    ASSUME NEW t, DOMAIN t = TableFields, DOMAIN t.reveal = {"phase", "asg"},
           Recorded(t), t.reveal.phase \in {"flop", "turn", "river"},
           t.reveal.asg \in Seq(AssignmentType), NEW done, NEW blank,
           blank \subseteq DOMAIN t.reveal.asg
    PROVE  Carded(CommunityOpened(t, done, blank))
<1> DEFINE n == Cardinality(blank)
           asg == t.reveal.asg
           rest == DOMAIN asg \ blank
           m == Cardinality(rest)
           indices == Ascending(rest)
           kept == [i \in DOMAIN indices |-> asg[indices[i]]]
           again == CommunityAssignments(t, n)
           back == [k \in 1 .. n |-> again[n + 1 - k]]
           dealt == [t EXCEPT !.ready = @ + Cardinality(done \ blank), !.blanks = @ - n]
           u == [dealt EXCEPT !.dealt = @ + n, !.reveal.asg = kept \o back]
<1>1. /\ DOMAIN asg = 1 .. Len(asg) /\ Len(asg) \in Nat
      /\ \A a \in DOMAIN asg : asg[a] \in AssignmentType
  BY LenProperties, ElementOfSeq
<1>2. IsFiniteSet(rest) /\ rest \in SUBSET Int /\ n \in Nat /\ m \in Nat
  <2>1. IsFiniteSet(DOMAIN asg) /\ DOMAIN asg \subseteq Int
    BY <1>1, FS_Interval
  <2>2. IsFiniteSet(blank) /\ IsFiniteSet(rest)
    BY <2>1, FS_Subset
  <2> QED
    BY <2>1, <2>2, FS_CardinalityType
<1>3. DOMAIN indices = 1 .. m /\ \A i \in 1 .. m : indices[i] \in rest
  BY <1>2, AscendingLists, AscendingMembers
<1>4. /\ n = 0 => CommunityOpened(t, done, blank) = dealt
      /\ n # 0 => \E cond : CommunityOpened(t, done, blank) = Require(u, cond)
  BY DEF CommunityOpened
<1> HIDE DEF n, rest, m, indices
<1>5. kept \in Seq(AssignmentType)
  <2>1. \A i \in 1 .. m : kept[i] \in AssignmentType
    BY <1>1, <1>3 DEF rest
  <2>2. kept = [i \in 1 .. m |-> kept[i]]
    BY <1>3
  <2> HIDE DEF kept
  <2> QED
    BY <1>2, <2>1, <2>2, AssignmentsListed
<1>6. back \in Seq(AssignmentType)
  <2>1. again \in Seq(AssignmentType) /\ DOMAIN again = 1 .. n
    BY <1>2, CommunityTyped DEF Recorded, CommunityAssignments
  <2> HIDE DEF again
  <2>2. \A k \in 1 .. n : n + 1 - k \in 1 .. n
    BY <1>2
  <2>3. \A k \in 1 .. n : again[k] \in AssignmentType
    BY <2>1, ElementOfSeq, LenProperties
  <2>4. \A k \in 1 .. n : back[k] \in AssignmentType
    BY <2>2, <2>3
  <2>5. back = [k \in 1 .. n |-> back[k]]
    OBVIOUS
  <2> HIDE DEF back
  <2> QED
    BY <1>2, <2>4, <2>5, AssignmentsListed
<1> HIDE DEF kept, back
<1>7. kept \o back \in Seq(AssignmentType)
  BY <1>5, <1>6, ConcatProperties
<1>8. /\ DOMAIN dealt = TableFields /\ dealt.dealt = t.dealt
      /\ dealt.decrypted = t.decrypted /\ dealt.round = t.round
      /\ dealt.reveal = t.reveal
  BY DEF TableFields
<1> HIDE DEF dealt
<1>9. /\ DOMAIN u = TableFields /\ u.dealt = t.dealt + n
      /\ u.decrypted = t.decrypted /\ u.round = t.round
      /\ u.reveal.phase = t.reveal.phase /\ u.reveal.asg = kept \o back
  BY <1>8 DEF TableFields
<1> HIDE DEF u
<1>10. Carded(dealt)
  <2>1. Recorded(dealt) /\ AskedRightly(dealt)
    BY <1>8 DEF Recorded, AskedRightly
  <2> QED
    BY <1>8, <2>1 DEF Carded, Requested
<1>11. Carded(u)
  <2>1. t.dealt + n \in Nat
    BY <1>2 DEF Recorded
  <2>2. Recorded(u)
    BY <1>9, <2>1, RecordTaken
  <2>3. AskedRightly(u)
    BY <1>9 DEF AskedRightly
  <2> QED
    BY <1>7, <1>9, <2>2, <2>3 DEF Carded, Requested
<1> QED
  BY <1>4, <1>9, <1>10, <1>11, RequireCarded

\* submit_player_reveal_tokens
LEMMA TokensOpenedCarded ==
    ASSUME NEW s \in Seats, NEW S, NEW blank, NEW ranks, Good(table), Turned(table),
           Laid(table), Carded(table), SubmitRevealTokens(s, S, blank, ranks)
    PROVE  Carded(TokensOpened(s, S, blank))
<1> DEFINE done == {a \in S : table.reveal.asg[a].pending = {s}}
           taken == TokensTaken(table, s, S)
           phase == table.reveal.phase
           opened == TokensOpened(s, S, blank)
<1>1. /\ phase # "none" /\ S \subseteq OwedBy(table, s) /\ blank \subseteq done
      /\ phase = "preflop" =>
            \A a \in S : FindHandCardOwner(table, table.reveal.asg[a].card) # NoSeat
  BY DEF SubmitRevealTokens
<1>2. Formed(table) /\ table.round # "waiting" /\ phase \in RevealPhases
  BY <1>1 DEF Turned, Steady, Good, Sound, Exclusive, Laid
<1>3. Given(table, s, S, taken)
  BY <1>2, TokensTakenCards DEF Carded
<1>4. IsFiniteSet(opened.decrypted)
  BY TokensOpenedGood DEF Good, Sound, Shaped
<1>5. done \subseteq DOMAIN table.reveal.asg
  BY <1>1 DEF OwedBy
<1>6. /\ phase = "preflop" => opened = HoleCardsOpened(taken, done)
      /\ phase = "showdown" => opened = HoleCardsShown(taken, done)
      /\ phase \notin {"preflop", "showdown"} =>
            opened = CommunityOpened(taken, done, blank)
  BY DEF TokensOpened
<1> HIDE DEF opened, done
<1>7. CASE phase = "preflop"
  <2>1. IsFiniteSet(HoleCardsOpened(taken, done).decrypted)
    BY <1>4, <1>6, <1>7
  <2>2. done = {a \in S : table.reveal.asg[a].pending = {s}}
    BY DEF done
  <2>3. Carded(HoleCardsOpened(taken, done))
    BY <1>1, <1>2, <1>7, <2>1, <2>2, HoleCardsOpenedCarded
  <2> QED
    BY <1>6, <1>7, <2>3 DEF opened
<1>8. CASE phase = "showdown"
  <2>1. IsFiniteSet(HoleCardsShown(taken, done).decrypted)
    BY <1>4, <1>6, <1>8
  <2>2. Carded(HoleCardsShown(taken, done))
    BY <1>2, <1>8, <2>1, HoleCardsShownCarded
  <2> QED
    BY <1>6, <1>8, <2>2 DEF opened
<1>9. CASE phase \notin {"preflop", "showdown"}
  <2> HIDE DEF taken
  <2>1. phase \in {"flop", "turn", "river"}
    BY <1>1, <1>2, <1>9 DEF RevealPhases
  <2>2. Recorded(taken)
    BY <1>3 DEF Given, Carded, Recorded
  <2>3. /\ DOMAIN taken = TableFields /\ DOMAIN taken.reveal = {"phase", "asg"}
        /\ taken.reveal.phase = phase /\ taken.reveal.asg \in Seq(AssignmentType)
        /\ DOMAIN taken.reveal.asg = DOMAIN table.reveal.asg
    BY <1>3 DEF Given
  <2>4. blank \subseteq DOMAIN taken.reveal.asg
    BY <1>1, <1>5, <2>3
  <2>5. Carded(CommunityOpened(taken, done, blank))
    BY <2>1, <2>2, <2>3, <2>4, CommunityOpenedCarded
  <2> QED
    BY <1>6, <1>9, <2>5 DEF opened
<1> QED
  BY <1>7, <1>8, <1>9

\* The phase the tokens were for may be complete then.
LEMMA SubmitRevealTokensCarded ==
    ASSUME NEW s \in Seats, NEW S, NEW blank, NEW ranks, Good(table), Turned(table),
           Laid(table), Carded(table), SubmitRevealTokens(s, S, blank, ranks)
    PROVE  Carded(table')
<1>1. table' = CheckRevealPhaseComplete(TokensOpened(s, S, blank), ranks)
  BY DEF SubmitRevealTokens, Commit, TokensOpened
<1>2. Shaped(TokensOpened(s, S, blank))
  BY TokensOpenedGood DEF Good, Sound
<1>3. Carded(TokensOpened(s, S, blank))
  BY TokensOpenedCarded
<1> QED
  BY <1>1, <1>2, <1>3, CheckRevealCarded

-----------------------------------------------------------------------------
(* The invariant and what it implies.                                      *)

\* No entry point records a card twice, or asks a seat for what is its own.
LEMMA NextCarded ==
    ASSUME Good(table), Turned(table), Laid(table), Carded(table), [Next]_vars
    PROVE  Carded(table')
<1>1. CASE Join
  BY <1>1, JoinCarded DEF Join
<1>2. CASE Leave
  BY <1>2, LeaveCarded DEF Leave
<1>3. CASE StartHand
  BY <1>3, StartHandCarded
<1>4. CASE Protocol
  BY <1>4, SubmitShuffleCarded, SubmitRevealTokensCarded, SubmitReconstructDeckCarded
     DEF Protocol
<1>5. CASE Bet
  BY <1>5, FoldsCarded, CheckCallCarded, RaiseCarded DEF Bet
<1>6. CASE Relay
  BY <1>6, TickedCarded DEF Relay, Tick, Commit
<1>7. CASE Admin
  <2>1. PICK s \in Seats : ForceFold(s) \/ KickPlayer(s)
    BY <1>7 DEF Admin
  <2>2. CASE ForceFold(s)
    BY <2>2, FoldsCarded
  <2>3. CASE KickPlayer(s)
    BY <2>3, KickCarded, GoodTimely DEF KickPlayer, Commit
  <2> QED
    BY <2>1, <2>2, <2>3
<1>8. CASE UNCHANGED vars
  BY <1>8 DEF vars
<1> QED
  BY <1>1, <1>2, <1>3, <1>4, <1>5, <1>6, <1>7, <1>8 DEF Next

\* On a new table no card is known.
LEMMA NewTableCarded == Carded(NewTable)
<1> DEFINE u == NewTable
<1>1. u.dealt = 0 /\ u.decrypted = {} /\ u.reveal = EmptyReveal
  BY DEF NewTable
<1> HIDE DEF u
<1> QED
  BY <1>1, NothingAsked DEF u

CardsInv == BoardInv /\ Carded(table)

\* Each card is recorded once, and asked for rightly, along every sequence of
\* transactions.
THEOREM CardsInOrder == Spec => []CardsInv
<1>1. Init => CardsInv
  BY NewTableResting, RestingTurned, NewTableLaid, NewTableCarded
     DEF Init, CardsInv, BoardInv, TurnInv
<1>2. CardsInv /\ IInv /\ [Next]_vars => CardsInv'
  BY NextTurned, NextOk, NextLaid, NextCarded DEF CardsInv, BoardInv, TurnInv, IInv
<1> QED
  BY <1>1, <1>2, PhasesAreSound, PTL DEF Spec

\* A reveal waits only for seats that are active, whatever reveal it is and
\* whoever was kicked meanwhile, and before the flop nobody is asked to open a
\* card of its own.
THEOREM NobodyOpensTheirOwn == Spec => []RevealAsksActive
<1>1. CardsInv /\ IInv => RevealAsksActive
  <2> SUFFICES ASSUME CardsInv, IInv, NEW a \in DOMAIN table.reveal.asg
               PROVE  /\ table.reveal.asg[a].pending \subseteq ActiveSeats(table)
                      /\ table.reveal.phase = "preflop" =>
                            table.reveal.asg[a].dealt_to \notin table.reveal.asg[a].pending
    BY DEF RevealAsksActive
  <2>1. table.reveal.phase # "none" /\ table.reveal.phase \in RevealPhases
    BY DEF CardsInv, BoardInv, Laid, Carded, Requested, AskedRightly
  <2>2. CASE table.reveal.phase \in Asked
    BY <2>2 DEF IInv, Good, Sound, Asking, CardsInv, Carded, Requested, AskedRightly
  <2>3. CASE table.reveal.phase = "showdown"
    BY <2>3 DEF CardsInv, Carded, Requested, AskedRightly
  <2> QED
    BY <2>1, <2>2, <2>3 DEF RevealPhases, Asked
<1> QED
  BY <1>1, CardsInOrder, PhasesAreSound, PTL
=============================================================================
