------------------------------ MODULE HandFlow ------------------------------
(***************************************************************************)
(* The internal functions of table.move: how a hand moves from shuffle to  *)
(* reveal to betting to settlement, how a stalled phase is cut short, and  *)
(* how a player is kicked.  Each operator is the whole function, the calls *)
(* it makes included.  ranks[s] is the strength of the hand seat s would   *)
(* show down: the cards themselves are data, only their order matters.     *)
(***************************************************************************)
EXTENDS TableState, Betting, SidePot

-----------------------------------------------------------------------------
(* The pot.                                                                *)

\* Mutation of CollectBetsToPot: the bets stay with the seats as well.
CollectBetsToPotTwice(t) == [t EXCEPT !.pot = @ + TotalBet(t)]

CollectBetsToPot(t) ==
    [t EXCEPT !.pot = @ + TotalBet(t),
              !.seats = [s \in Seats |-> [t.seats[s] EXCEPT !.bet = 0]]]

\* Mutation of SplitAmong: the remainder is dropped.
SplitAmongNoRest(t, S, amount) ==
    IF S = {} THEN t
    ELSE [t EXCEPT !.seats = [s \in Seats |->
             IF s \in S
             THEN [t.seats[s] EXCEPT !.stack = @ + amount \div Cardinality(S)]
             ELSE t.seats[s]]]

\* An equal share each; the lowest seat also takes the remainder.
SplitAmong(t, S, amount) ==
    LET share == amount \div Cardinality(S)
        part(s) == share + (IF s = Min(S) THEN amount % Cardinality(S) ELSE 0)
    IN  IF S = {} THEN t
        ELSE [t EXCEPT !.seats = [s \in Seats |->
                 IF s \in S THEN [t.seats[s] EXCEPT !.stack = @ + part(s)]
                 ELSE t.seats[s]]]

\* How many cards write_decrypted_cards_to_hands puts into a seat's hand.
HandSize(t, s) == Cardinality({d \in t.decrypted : d.owner = s /\ d.plain})

\* Mutation of Winners: the comparison the wrong way round.
WinnersWorst(t, S, ranks) ==
    LET shown == {s \in S : /\ HandSize(t, s) = CardsPerPlayer
                            /\ t.board = FlopCards + 2}
    IN  {s \in shown : \A u \in shown : ranks[s] <= ranks[u]}

\* find_winners and find_winners_in_eligible: best full seven-card hands.
Winners(t, S, ranks) ==
    LET shown == {s \in S : /\ HandSize(t, s) = CardsPerPlayer
                            /\ t.board = FlopCards + 2}
    IN  {s \in shown : \A u \in shown : ranks[s] >= ranks[u]}

\* Seats a settlement treats as not folded (extract_betting_state).
UnfoldedSeats(t) == {s \in OccupiedSeats(t) : ~t.seats[s].folded}

Award(t, amount, winners, fallback) ==
    SplitAmong(t, IF winners # {} THEN winners ELSE fallback, amount)

DistributePot(t, amount, ranks) ==
    Award(t, amount,
          Winners(t, {s \in UnfoldedSeats(t) : t.seats[s].total_bet > 0}, ranks),
          LiveSeats(t))

DistributeSidePot(t, pot, ranks) ==
    LET in == pot.eligible \cap UnfoldedSeats(t)
    IN  Award(t, pot.amount, Winners(t, in, ranks), in)

\* The pots settle_hand pays out, main pot first.
Pots(t) ==
    LET in(s) == t.seats[s].player # NoPlayer
    IN  CalculateSidePots(
            [s \in Seats |-> IF in(s) THEN t.seats[s].total_bet ELSE 0],
            Seats \ UnfoldedSeats(t),
            {s \in OccupiedSeats(t) : t.seats[s].all_in})

\* The i-th pot paid; the first is the main pot.
PayPot(t, pots, i, ranks) ==
    IF i = 1 THEN DistributePot(t, pots[1].amount, ranks)
    ELSE DistributeSidePot(t, pots[i], ranks)

\* Every pot of the sequence paid, and what exceeds them split among the
\* live players.
PayPots(t, pots, ranks) ==
    LET paid[i \in 0 .. Len(pots)] ==
            IF i = 0 THEN t ELSE PayPot(paid[i - 1], pots, i, ranks)
        total == MapThenSumSet(LAMBDA i : pots[i].amount, DOMAIN pots)
        after == paid[Len(pots)]
    IN  IF total < t.pot THEN SplitAmong(after, LiveSeats(t), t.pot - total)
        ELSE after

-----------------------------------------------------------------------------
(* Ending a hand.                                                          *)

\* reset_for_next_hand: waiting players' keys come in, broke players leave.
ResetForNextHand(t) ==
    LET broke == {s \in Seats : /\ t.seats[s].player # NoPlayer
                                /\ t.seats[s].stack = 0}
        kept == [s \in Seats |->
                   IF s \in broke THEN EmptySeat
                   ELSE [t.seats[s] EXCEPT
                           !.bet = 0, !.total_bet = 0, !.folded = FALSE,
                           !.all_in = FALSE, !.acted = FALSE,
                           !.is_waiting = FALSE, !.left = FALSE]]
        added(p) == {s \in Seats : t.seats[s].is_waiting /\ t.seats[s].player = p}
        removed(p) == {s \in broke : t.seats[s].player = p /\ ~t.seats[s].left}
        key(p) == t.agg[p] + Cardinality(added(p)) - Cardinality(removed(p))
        nobody == \A s \in Seats : kept[s].player = NoPlayer
    IN  [t EXCEPT !.seats = kept,
                  !.agg = [p \in Players |-> IF nobody THEN 0 ELSE key(p)],
                  !.pot = 0, !.board = 0, !.betting = NoRound, !.turn = NoSeat,
                  !.round = "waiting", !.dealt = 0, !.decrypted = {},
                  !.ready = 0, !.blanks = 0,
                  !.shuffle = EmptyShuffle, !.reveal = EmptyReveal,
                  !.reconstruct = EmptyReconstruct, !.timers = NoTimers]

SettleHand(t, ranks) ==
    Require(ResetForNextHand(PayPots(t, Pots(t), ranks)),
            t.round = "showdown" /\ t.reveal.phase = "none")

\* Mutations of EndWithoutShowdown: all-in players are passed over, or
\* folded ones are not.
EndWithoutShowdownAllIn(t) ==
    LET c == CollectBetsToPot(t)
    IN  IF ActionableSeats(t) = {} THEN Abort(t)
        ELSE ResetForNextHand(
                [c EXCEPT !.seats[Min(ActionableSeats(t))].stack = @ + c.pot])
EndWithoutShowdownFolded(t) ==
    LET c == CollectBetsToPot(t)
    IN  IF ActiveSeats(t) = {} THEN Abort(t)
        ELSE ResetForNextHand(
                [c EXCEPT !.seats[Min(ActiveSeats(t))].stack = @ + c.pot])

\* The first live seat takes the pot; without one the transaction aborts.
EndWithoutShowdown(t) ==
    LET c == CollectBetsToPot(t)
    IN  IF LiveSeats(t) = {} THEN Abort(t)
        ELSE ResetForNextHand(
                [c EXCEPT !.seats[Min(LiveSeats(t))].stack = @ + c.pot])

\* Every bet of the hand goes back: to the stack of a seated player, as SUI
\* to a kicked one.  A seat already refunded gets nothing.
RefundAllBets(t) ==
    LET due == {s \in Seats : ~t.seats[s].refunded /\ t.seats[s].total_bet > 0}
        home == due \cap OccupiedSeats(t)
        gone == {s \in due \ home : t.seats[s].left}
        refund(s) ==
            [t.seats[s] EXCEPT
                !.stack = IF s \in home THEN @ + t.seats[s].total_bet ELSE @,
                !.refunded = @ \/ s \in home \cup gone,
                !.player = IF s \in gone THEN NoPlayer ELSE @,
                !.bet = 0, !.total_bet = 0]
    IN  RefundSui([t EXCEPT !.seats = [s \in Seats |-> refund(s)], !.pot = 0],
                  MapThenSumSet(LAMBDA s : t.seats[s].total_bet, gone))

-----------------------------------------------------------------------------
(* Reveal phases.                                                          *)

\* Deal CardsPerPlayer cards to each active seat; everyone but the owner of
\* a card owes a token for it.
StartPreflopReveal(t) ==
    LET active == ActiveSeats(t)
        n == Cardinality(active) * CardsPerPlayer
        owner(k) == Ascending(active)[((k - 1) \div CardsPerPlayer) + 1]
    IN  [t EXCEPT
            !.dealt = @ + n,
            !.reveal = [phase |-> "preflop",
                        asg |-> [k \in 1 .. n |->
                           Assignment(t.dealt + k - 1, active \ {owner(k)},
                                      owner(k))]]]

CommunityAssignments(t, count) ==
    [k \in 1 .. count |->
        Assignment(t.dealt + k - 1, ActiveSeats(t), CommunityOwner)]

StartCommunityReveal(t, count, phase) ==
    [t EXCEPT !.dealt = @ + count,
              !.reveal = [phase |-> phase,
                          asg |-> CommunityAssignments(t, count)]]

\* Mutation of StartShowdownReveal: folded players show their cards too.
StartShowdownRevealFolded(t) ==
    LET shown == {d \in t.decrypted : d.owner \in ActiveSeats(t) /\ ~d.plain}
        nth(k) == CHOOSE d \in shown :
                     Cardinality({e \in shown : e.card < d.card}) = k - 1
    IN  [t EXCEPT !.reveal =
            [phase |-> "showdown",
             asg |-> [k \in 1 .. Cardinality(shown) |->
                        Assignment(nth(k).card, {nth(k).owner},
                                   nth(k).dealt_to)]]]

\* Each live player owes the last token for the own half-decrypted cards.
StartShowdownReveal(t) ==
    LET shown == {d \in t.decrypted : d.owner \in LiveSeats(t) /\ ~d.plain}
        before(d, e) == \/ d.owner < e.owner
                        \/ d.owner = e.owner /\ d.card < e.card
        nth(k) == CHOOSE d \in shown :
                     Cardinality({e \in shown : before(e, d)}) = k - 1
    IN  [t EXCEPT !.reveal =
            [phase |-> "showdown",
             asg |-> [k \in 1 .. Cardinality(shown) |->
                        Assignment(nth(k).card, {nth(k).owner},
                                   nth(k).dealt_to)]]]

-----------------------------------------------------------------------------
(* Betting rounds.                                                         *)

\* advance_round: close the betting round and start the next reveal phase.
AdvanceRound(t) ==
    LET closed == [t EXCEPT !.betting = NoRound, !.turn = NoSeat]
        to(round) == [closed EXCEPT !.round = round]
        fresh(round) == [to(round) EXCEPT !.timers.reveal = FALSE]
    IN  CASE t.round = "preflop" -> StartCommunityReveal(fresh("flop"), FlopCards, "flop")
          [] t.round = "flop" -> StartCommunityReveal(fresh("turn"), 1, "turn")
          [] t.round = "turn" -> StartCommunityReveal(fresh("river"), 1, "river")
          [] t.round = "river" ->
                StartShowdownReveal([to("showdown") EXCEPT !.timers.showdown = FALSE])
          [] OTHER -> closed

\* Mutation of IsBettingComplete: the last seat is not looked at.
IsBettingCompleteButLast(t) ==
    \/ ~t.betting.open
    \/ \A s \in ActionableSeats(t) \ {MaxPlayers - 1} :
          t.seats[s].acted /\ t.seats[s].bet >= t.betting.current_bet

IsBettingComplete(t) ==
    \/ ~t.betting.open
    \/ \A s \in ActionableSeats(t) :
          t.seats[s].acted /\ t.seats[s].bet >= t.betting.current_bet

AdvanceTurn(t) ==
    LET next == FindNextActiveSeat(t, t.turn)
    IN  IF IsBettingComplete(t) THEN AdvanceRound(CollectBetsToPot(t))
        ELSE Require([t EXCEPT !.turn = next], t.turn # NoSeat /\ next # NoSeat)

\* post_blinds: heads-up the button is the small blind and acts first.
PostBlinds(t) ==
    LET headsUp == CountActiveOccupied(t) = 2
        sb == IF headsUp THEN t.button ELSE FindNextActiveSeat(t, t.button)
        bb == FindNextActiveSeat(t, sb)
        post(seat, blind) ==
            LET amount == IF seat.stack < blind THEN seat.stack ELSE blind
            IN  [seat EXCEPT !.stack = @ - amount, !.bet = amount,
                             !.total_bet = amount,
                             !.all_in = @ \/ seat.stack = amount]
        small == [t EXCEPT !.seats[sb] = post(@, SmallBlind)]
        both == [small EXCEPT !.seats[bb] = post(@, BigBlind)]
        first == IF headsUp THEN sb ELSE FindNextActiveSeat(both, bb)
    IN  IF ActionableSeats(t) = {} \/ first = NoSeat
        THEN Abort(t)
        ELSE [both EXCEPT !.turn = first]

\* start_betting_round: with nobody left to act the round is skipped.
StartBettingRound(t, preflop) ==
    LET seats == [s \in Seats |->
                    [t.seats[s] EXCEPT !.acted = FALSE,
                                       !.bet = IF preflop THEN @ ELSE 0]]
        round == IF preflop THEN NewPreflop(BigBlind) ELSE NewPostflop(BigBlind)
        opened == [t EXCEPT !.betting = round, !.seats = seats]
    IN  IF ActionableSeats(t) = {} THEN AdvanceRound(CollectBetsToPot(opened))
        ELSE IF preflop THEN opened
        ELSE [opened EXCEPT !.turn = FindNextActiveSeat(t, t.button)]

-----------------------------------------------------------------------------
(* The end of a reveal phase and of a shuffle.                             *)

\* Mutation of WriteCommunity: the cards written stay to be written again.
WriteCommunityAgain(t) == [t EXCEPT !.board = @ + t.ready]

\* write_decrypted_cards_to_community
WriteCommunity(t) == [t EXCEPT !.board = @ + t.ready, !.ready = 0]

\* check_reveal_phase_complete
CheckRevealPhaseComplete(t, ranks) ==
    LET phase == t.reveal.phase
        cleared == [t EXCEPT !.reveal = EmptyReveal]
        untimed == [cleared EXCEPT !.timers.betting = FALSE]
    IN  IF \E a \in DOMAIN t.reveal.asg : ~t.reveal.asg[a].decrypted THEN t
        ELSE CASE phase = "preflop" ->
                    StartBettingRound(PostBlinds(untimed), TRUE)
               [] phase \in {"flop", "turn", "river"} ->
                    StartBettingRound(WriteCommunity(untimed), FALSE)
               [] phase = "showdown" ->
                    SettleHand([cleared EXCEPT !.timers.showdown = FALSE], ranks)
               [] OTHER -> cleared

\* Deal what the interrupted phase still lacks after a reconstruction.
ResumeReveal(t) ==
    LET lacking(n, phase) ==
            Require(StartCommunityReveal(t, n - t.ready, phase), t.ready <= n)
    IN  CASE t.round = "preflop" -> StartPreflopReveal(t)
          [] t.round = "flop" -> lacking(FlopCards, "flop")
          [] t.round = "turn" -> lacking(1, "turn")
          [] t.round = "river" -> lacking(1, "river")
          [] t.round = "showdown" ->
                StartShowdownReveal([t EXCEPT !.timers.showdown = FALSE])
          [] OTHER -> t

\* advance_shuffle: the next shuffler, or on to the reveal phase.
AdvanceShuffle(t) ==
    LET untimed == [t EXCEPT !.timers.reveal = FALSE, !.shuffle = EmptyShuffle]
    IN  IF t.shuffle.phase = "none" THEN t
        ELSE IF t.shuffle.pending # {}
        THEN [t EXCEPT !.shuffle.current = Min(t.shuffle.pending),
                       !.timers.shuffle = FALSE]
        ELSE IF t.shuffle.phase = "before_preflop"
        THEN StartPreflopReveal([untimed EXCEPT !.round = "preflop"])
        ELSE ResumeReveal([untimed EXCEPT !.reconstruct = EmptyReconstruct,
                                          !.reveal = EmptyReveal])

-----------------------------------------------------------------------------
(* Folding and kicking.                                                    *)

\* do_fold
DoFold(t, s) ==
    LET seat == t.seats[s]
        folded == [t EXCEPT !.seats[s] = [seat EXCEPT !.folded = TRUE, !.acted = TRUE],
                            !.timers.betting = FALSE]
        next == IF CountActivePlayers(folded) <= 1 THEN EndWithoutShowdown(folded)
                ELSE AdvanceTurn(folded)
    IN  Require(next, IsSeatOccupied(seat) /\ ~seat.folded)

\* The seat a kick leaves behind: total_bet stays for the side pots.
KickedSeat(seat) ==
    [seat EXCEPT !.stack = 0, !.bet = 0, !.left = TRUE, !.folded = TRUE,
                 !.all_in = FALSE, !.acted = FALSE, !.is_waiting = FALSE]

\* Mutation of DropFromPhases: the reveal goes on waiting for the seat.
DropFromPhasesNotReveal(t, s) ==
    [t EXCEPT !.shuffle.pending = @ \ {s},
              !.shuffle.completed = @ \ {s},
              !.reconstruct.pending = @ \ {s}]

\* Take a seat out of every list that waits for it.
DropFromPhases(t, s) ==
    [t EXCEPT !.shuffle.pending = @ \ {s},
              !.shuffle.completed = @ \ {s},
              !.reveal.asg = [a \in DOMAIN t.reveal.asg |->
                                 [t.reveal.asg[a] EXCEPT !.pending = @ \ {s}]],
              !.reconstruct.pending = @ \ {s}]

\* What a kick takes away at once: the stack, the key, every list.
Unseated(t, s) ==
    LET seat == t.seats[s]
        marked == [t EXCEPT !.seats[s] = KickedSeat(seat), !.pot = @ + seat.bet]
    IN  DropFromPhases(
            RefundSui(IF seat.is_waiting THEN marked
                      ELSE RemovePk(marked, seat.player), seat.stack), s)

\* If it was the shuffle of seat s, the next one shuffles.
ShufflePassed(t, s) ==
    IF t.shuffle.current # s THEN t
    ELSE AdvanceShuffle([t EXCEPT !.shuffle.current = NoSeat])

\* If it was the turn of seat s, the hand ends or the next one acts.
TurnPassed(t, s) ==
    IF t.turn # s \/ ~IsBettingRound(t) THEN t
    ELSE IF CountActivePlayers(t) <= 1 THEN EndWithoutShowdown(t)
    ELSE AdvanceTurn(t)

ResetIfTooFew(t) ==
    IF CountActivePlayers(t) < MinPlayers THEN ResetForNextHand(t) ELSE t

\* kick_player_internal
KickPlayerInternal(t, s) ==
    IF ~IsSeatOccupied(t.seats[s]) THEN Abort(t)
    ELSE ResetIfTooFew(TurnPassed(ShufflePassed(Unseated(t, s), s), s))

KickIfSeated(t, s) ==
    IF IsSeatOccupied(t.seats[s]) THEN KickPlayerInternal(t, s) ELSE t

\* Kick the seats of a sequence in order, those already gone excepted.
KickAll(t, order) ==
    LET after[i \in 0 .. Len(order)] ==
            IF i = 0 THEN t ELSE KickIfSeated(after[i - 1], order[i])
    IN  after[Len(order)]

-----------------------------------------------------------------------------
(* Starting a hand.                                                        *)

MoveButton(t) ==
    IF OccupiedSeats(t) = {} THEN t
    ELSE [t EXCEPT !.button = NextAround(OccupiedSeats(t), t.button)]

\* do_start_hand
DoStartHand(t) ==
    LET moved == [MoveButton(t) EXCEPT !.timers.shuffle = FALSE]
    IN  Require(AdvanceShuffle(
                   [moved EXCEPT !.shuffle.pending = PendingSeats(t),
                                 !.shuffle.phase = "before_preflop"]),
                t.round = "waiting" /\ CountActiveOccupied(t) >= MinPlayers)

-----------------------------------------------------------------------------
(* Timeouts.                                                               *)

ShuffleAmongActive(t, phase) ==
    [t EXCEPT !.shuffle = [phase |-> phase, current |-> NoSeat,
                           pending |-> ActiveSeats(t), completed |-> {}]]

\* rebuild_deck_from_reconstruct_deck: dealing starts over, and the cards
\* that are already known are blank (identity) in the new deck.
RebuildDeck(t) ==
    [t EXCEPT !.dealt = 0,
              !.blanks = Cardinality(t.decrypted) + t.board + t.ready]

\* Mutation of OnCompleteReconstruct: the reconstruction stays open.
OnCompleteReconstructOpen(t) ==
    AdvanceShuffle(ShuffleAmongActive(RebuildDeck(t), "reconstruct"))

\* on_complete_reconstruct
OnCompleteReconstruct(t) ==
    AdvanceShuffle(ShuffleAmongActive(
        [RebuildDeck(t) EXCEPT !.reconstruct.phase = "none"], "reconstruct"))

\* start_reconstruct
StartReconstruct(t) ==
    [t EXCEPT !.reconstruct = [phase |-> "collecting",
                               pending |-> ActiveSeats(t), decks |-> {}],
              !.timers.reconstruct = TRUE]

\* What a timeout does once it has kicked the players it waited for: nobody
\* left refunds, one player left takes the pot, else the hand goes on.
AfterKicks(t, goOn) ==
    CASE CountActivePlayers(t) = 0 -> ResetForNextHand(RefundAllBets(t))
      [] CountActivePlayers(t) = 1 -> EndWithoutShowdown(t)
      [] OTHER -> goOn

\* on_reconstruct_timeout
AfterReconstructKicks(t) ==
    IF ActiveSeats(t) = {} THEN ResetForNextHand(RefundAllBets(t))
    ELSE IF CountActivePlayers(t) = 1 THEN EndWithoutShowdown(t)
    ELSE IF t.round = "waiting" THEN t
    ELSE OnCompleteReconstruct(t)

OnReconstructTimeout(t) ==
    AfterReconstructKicks(KickAll(t, Ascending(t.reconstruct.pending)))

\* clear_reveal_timeout_player kicks the seats that owe a token in the order
\* the assignments name them.
RevealDebtors(t) ==
    LET asg == t.reveal.asg
        owing == {s \in Seats : \E a \in DOMAIN asg : s \in asg[a].pending}
        first(s) == Min({a \in DOMAIN asg : s \in asg[a].pending})
        before(s, u) == \/ first(s) < first(u)
                        \/ first(s) = first(u) /\ s < u
    IN  [i \in 1 .. Cardinality(owing) |->
            CHOOSE s \in owing : Cardinality({u \in owing : before(u, s)}) = i - 1]

RestartAfterKicks(t) == AfterKicks(t, ResetForNextHand(RefundAllBets(t)))

ReconstructAfterKicks(t) ==
    IF t.round = "waiting" THEN t ELSE AfterKicks(t, StartReconstruct(t))

\* Mutation of OnRevealTimeout: every hand starts over, not only preflop.
OnRevealTimeoutRestart(t) ==
    RestartAfterKicks(KickAll(t, RevealDebtors(t)))

\* on_reveal_timeout: before the flop the hand starts over, later the deck
\* is reconstructed.
OnRevealTimeout(t) ==
    IF t.round = "preflop"
    THEN RestartAfterKicks(KickAll(t, RevealDebtors(t)))
    ELSE ReconstructAfterKicks(KickAll(t, RevealDebtors(t)))

\* on_shuffle_timeout: those who are left shuffle again, after a
\* reconstruction the deck rebuilt without the kicked shuffler's part.
ReshuffleAfterKick(t) ==
    AfterKicks(t, IF t.shuffle.phase = "none" THEN t
                  ELSE AdvanceShuffle(ShuffleAmongActive(t, "before_preflop")))

RebuildAfterKick(t, s) ==
    AfterKicks(t, IF t.shuffle.phase # "reconstruct" THEN t
                  ELSE AdvanceShuffle(ShuffleAmongActive(
                          RebuildDeck([t EXCEPT !.reconstruct.decks = @ \ {s}]),
                          "reconstruct")))

OnShuffleTimeout(t) ==
    LET s == t.shuffle.current
    IN  IF s = NoSeat THEN t
        ELSE IF t.shuffle.phase = "before_preflop"
        THEN ReshuffleAfterKick(KickPlayerInternal(t, s))
        ELSE RebuildAfterKick(KickPlayerInternal(t, s), s)
=============================================================================
