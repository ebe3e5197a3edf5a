----------------------------- MODULE LocalTable -----------------------------
(***************************************************************************)
(* The game server's own table (texas/src/pokergame), which plays a hand   *)
(* when the chain is switched off: each operator is one method of Table,   *)
(* the calls it makes included, as a function of the table record.  Seats  *)
(* are numbered 1..MaxPlayers and a player always takes the seat of its    *)
(* own number, so "the player" and "the seat" are the same number here.    *)
(* Cards are data: ranks[p] is the value of the hand p would show down, 0  *)
(* when its cards could not be read.                                       *)
(***************************************************************************)
EXTENDS Integers, Sequences, FiniteSets, FiniteSetsExt

CONSTANTS MaxPlayers, \* seats at the table
          MinBet      \* the small blind; the big blind is twice as much

ASSUME LocalTableAssumption ==
    /\ MaxPlayers \in Nat \ {0, 1}
    /\ MinBet \in Nat \ {0}

MinStartNum == 2
Seats == 1..MaxPlayers
None == 0
NoCall == -1
NoBetting == [current |-> NoCall, minRaise |-> 0]
Rounds == <<"Waiting", "PreFlop", "Flop", "Turn", "River", "Showdown">>
BettingRounds == {"PreFlop", "Flop", "Turn", "River"}

NewSeat(amount, isWaiting) ==
    [stack |-> amount, bet |-> 0, total |-> 0, folded |-> TRUE,
     acted |-> FALSE, turn |-> FALSE, out |-> FALSE, waiting |-> isWaiting, left |-> FALSE]

NoShuffle == [phase |-> "None", current |-> None, pending |-> {}, completed |-> {}]
NoReveal == [phase |-> "None", pending |-> {}, completed |-> {}]
NoReconstruct == [active |-> FALSE, pending |-> {}, completed |-> {}]

\* What a table that follows the chain keeps of the chain's own seats.
NoMeta == [occupied |-> {}, players |-> {}, pks |-> {}, seat |-> <<>>]

NewTable ==
    [meta |-> NoMeta, round |-> "Waiting", seats |-> <<>>, known |-> {}, members |-> {}, joiners |-> {},
     button |-> None, turn |-> None, pot |-> 0, sides |-> <<>>,
     call |-> NoCall, betting |-> NoBetting, board |-> 0, handOver |-> TRUE,
     shuffle |-> NoShuffle, reveal |-> NoReveal, reconstruct |-> NoReconstruct,
     completeAt |-> FALSE, bettingAt |-> FALSE, readyAt |-> FALSE,
     showdownAt |-> FALSE]

-----------------------------------------------------------------------------
(* Who is at the table.                                                    *)

Seated(t) == DOMAIN t.seats
IsPlaying(t) == t.round # "Waiting"
ShuffleActive(t) == t.shuffle.phase # "None"
RevealActive(t) == t.reveal.phase # "None"
Active(t) == {p \in Seated(t) : ~t.seats[p].out /\ ~t.seats[p].waiting}
Unfolded(t) == {p \in Seated(t) : ~t.seats[p].out /\ ~t.seats[p].folded}
CanAct(t) == {p \in Active(t) : ~t.seats[p].folded /\ t.seats[p].stack > 0}

\* players(): Table::new always stores a chain id, so this is the chain's list;
\* with the chain switched off nobody is on it.  (t.known is pk_to_seat.)
PlayersByWallet(t) == t.meta.pks \cap t.meta.players

\* seats(): a seat the chain has occupied shows the chain's numbers.
Shown(t) ==
    [p \in Seated(t) \cup t.meta.occupied |->
        LET kept == IF p \in Seated(t) THEN t.seats[p] ELSE NewSeat(0, FALSE)
        IN  IF p \notin t.meta.occupied THEN kept
            ELSE LET c == t.meta.seat[p]
                 IN  [kept EXCEPT !.stack = c.stack, !.bet = c.bet, !.total = c.total,
                                  !.folded = c.folded, !.out = c.waiting]]

\* The shown seats that name a player.
ShownPlayers(t) == Seated(t) \cup (t.meta.occupied \cap PlayersByWallet(t))

\* Seats from `from` clockwise to p; a full round back to `from` itself.
Distance(from, p) == IF p > from THEN p - from ELSE p - from + MaxPlayers

NextIn(S, from, places) ==
    IF places > Cardinality(S) THEN None
    ELSE CHOOSE p \in S : places = Cardinality({q \in S :
                              Distance(from, q) <= Distance(from, p)})

OrFirst(seat) == IF seat = None THEN 1 ELSE seat

-----------------------------------------------------------------------------
(* Seats and what a hand leaves behind.                                    *)

Update(t, S, Op(_)) ==
    [t EXCEPT !.seats = [p \in Seated(t) |-> IF p \in S THEN Op(@[p]) ELSE @[p]]]

Keep(t, S) == [t EXCEPT !.seats = [p \in Seated(t) \cap S |-> @[p]]]

ShowTurn(t) == [t EXCEPT !.seats = [p \in Seated(t) |->
                   [@[p] EXCEPT !.turn = (t.turn = p)]]]

ResetBetsAndActions(t) ==
    LET cleared(s) == [s EXCEPT !.bet = 0, !.acted = FALSE]
    IN  [Update(t, Seated(t), cleared) EXCEPT
            !.call = NoCall,
            !.betting = IF @ = NoBetting THEN @
                        ELSE [current |-> 0, minRaise |-> 2 * MinBet]]

ResetForNextHand(t) ==
    LET fresh(s) == [s EXCEPT !.bet = 0, !.total = 0, !.folded = s.out,
                              !.acted = FALSE, !.left = FALSE]
        broke == {p \in Seated(t) : Shown(t)[p].stack = 0}
        kept == Keep(Update(t, Seated(t), fresh), Seated(t) \ broke)
    IN  [kept
           EXCEPT !.known = @ \cap ShownPlayers(kept), !.round = "Waiting", !.pot = 0, !.sides = <<>>,
                  !.call = NoCall, !.betting = NoBetting, !.turn = None,
                  !.handOver = TRUE, !.board = 0, !.completeAt = FALSE,
                  !.bettingAt = FALSE, !.readyAt = FALSE, !.showdownAt = FALSE,
                  !.shuffle = NoShuffle, !.reveal = NoReveal,
                  !.reconstruct = NoReconstruct]

\* What end_hand and finish_showdown both do at the end of a hand.
EndHand(t) ==
    LET done(s) == [s EXCEPT !.turn = FALSE, !.out = @ \/ s.stack = 0]
    IN  [Update(t, Seated(t), done) EXCEPT !.round = "Waiting",
                                           !.handOver = TRUE,
                                           !.completeAt = TRUE]

WinHand(t, p, amount) ==
    Update(t, {p}, LAMBDA s : [s EXCEPT !.bet = 0, !.total = 0,
                                        !.stack = @ + amount, !.turn = FALSE])

SumOf(S, f(_)) == FoldSet(LAMBDA p, acc : f(p) + acc, 0, S)
SidesTotal(t) == SumOf(1..Len(t.sides), LAMBDA i : t.sides[i].amount)

EndWithoutShowdown(t) ==
    EndHand(IF Unfolded(t) = {} THEN t
            ELSE WinHand(t, Min(Unfolded(t)), t.pot + SidesTotal(t)))

RefundAllBets(t) ==
    LET refund(s) == [s EXCEPT !.stack = IF s.left THEN @ ELSE @ + s.total,
                               !.bet = 0, !.total = 0]
    IN  [Update(t, Seated(t), refund) EXCEPT !.pot = 0, !.sides = <<>>]

\* The last seat empties: reset_empty_table.
ResetEmptyTable(t) ==
    [t EXCEPT !.known = {}, !.button = None, !.turn = None, !.handOver = TRUE,
              !.board = 0, !.pot = 0, !.sides = <<>>]

StandPlayer(t, p) ==
    LET rest == [Keep(t, Seated(t) \ {p}) EXCEPT !.known = @ \ {p}]
    IN  IF DOMAIN Shown(rest) = {} THEN ResetEmptyTable(rest) ELSE rest

SitPlayer(t, p, amount, isWaiting) ==
    [t EXCEPT !.seats = [q \in Seated(t) \cup {p} |->
                            IF q = p THEN NewSeat(amount, isWaiting) ELSE @[q]],
              !.known = @ \cup {p},
              !.button = IF Seated(t) = {} THEN p ELSE @]

-----------------------------------------------------------------------------
(* Betting.                                                                *)

\* place_blind: a seat that cannot pay the blind is all in; bet is overwritten.
PlaceBlind(t, p, blind) ==
    IF p \notin Seated(t) THEN t
    ELSE LET paid == Min({blind, t.seats[p].stack})
             post(s) == [s EXCEPT !.bet = paid, !.total = @ + paid,
                                  !.stack = @ - paid]
         IN  [Update(t, {p}, post) EXCEPT !.pot = @ + paid]

SmallBlind(t) == IF Cardinality(Active(t)) = 2 THEN OrFirst(t.button)
                 ELSE NextIn(Active(t), OrFirst(t.button), 1)
BigBlind(t) == NextIn(Active(t), OrFirst(t.button),
                      IF Cardinality(Active(t)) = 2 THEN 1 ELSE 2)

FirstToAct(t, sb, bb, headsUp) ==
    IF CanAct(t) = {} THEN None
    ELSE IF ~headsUp THEN NextIn(CanAct(t), IF bb = None THEN OrFirst(t.button) ELSE bb, 1)
    ELSE IF sb \notin Seated(t) \/ t.seats[sb].stack = 0 THEN NextIn(CanAct(t), sb, 1)
    ELSE sb

SetBlinds(t) ==
    LET posted == PlaceBlind(PlaceBlind(t, SmallBlind(t), MinBet),
                             BigBlind(t), 2 * MinBet)
    IN  [posted EXCEPT !.call = 2 * MinBet,
                       !.turn = FirstToAct(posted, SmallBlind(t), BigBlind(t),
                                           Cardinality(Active(t)) = 2)]

IsBettingRoundComplete(t) ==
    \A p \in CanAct(t) : /\ t.seats[p].acted
                         /\ t.betting # NoBetting => t.seats[p].bet >= t.betting.current

\* Seat p puts `amount` more chips in (never more than it has).
Pay(t, p, amount) ==
    Update(t, {p}, LAMBDA s : [s EXCEPT !.bet = @ + amount, !.total = @ + amount,
                                        !.stack = @ - amount, !.turn = FALSE,
                                        !.acted = TRUE])

ToCall(t, p) == IF t.betting = NoBetting THEN 0
                ELSE Max({0, t.betting.current - t.seats[p].bet})

HandleFold(t, p) ==
    [Update(t, {p}, LAMBDA s : [s EXCEPT !.folded = TRUE, !.turn = FALSE,
                                         !.acted = TRUE])
        EXCEPT !.bettingAt = TRUE]

MayCheck(t, p) == ToCall(t, p) = 0
HandleCheck(t, p) == [Pay(t, p, 0) EXCEPT !.bettingAt = TRUE]

MayCall(t, p) == t.call # NoCall /\ (t.betting = NoBetting \/ ToCall(t, p) > 0)
CallCost(t, p) == Min({t.call - t.seats[p].bet, t.seats[p].stack})
HandleCall(t, p) == [Pay(t, p, CallCost(t, p)) EXCEPT !.pot = @ + CallCost(t, p),
                                                      !.bettingAt = TRUE]

\* validate_raise for raise `to` a total bet (amount.saturating_sub(current)).
RaiseBy(t, to) == IF t.betting = NoBetting THEN 0
                  ELSE Max({0, to - t.betting.current})
MayRaise(t, p, to) ==
    LET needed == ToCall(t, p) + RaiseBy(t, to)
    IN  \/ t.betting = NoBetting
        \/ needed = t.seats[p].stack /\ needed > 0
        \/ needed <= t.seats[p].stack /\ RaiseBy(t, to) >= t.betting.minRaise

\* An under-raise all in does not reopen the betting (full = FALSE).
FullRaise(t, p, to) ==
    \/ t.betting = NoBetting
    \/ Max({0, to - t.seats[p].bet}) # t.seats[p].stack
    \/ RaiseBy(t, to) >= t.betting.minRaise

Reopen(t, p, full) ==
    IF ~full THEN t
    ELSE Update(t, {q \in Seated(t) \ {p} : /\ ~t.seats[q].folded
                                            /\ ~t.seats[q].out
                                            /\ t.seats[q].stack > 0},
                LAMBDA s : [s EXCEPT !.acted = FALSE])

\* Seat::raise in a release build: a total below the bet wraps around and the
\* whole stack goes in, while handle_raise adds nothing to the pot.
RaiseCost(t, p, to) == IF to < t.seats[p].bet THEN t.seats[p].stack
                       ELSE Min({to - t.seats[p].bet, t.seats[p].stack})

HandleRaise(t, p, to) ==
    [Reopen(Pay(t, p, RaiseCost(t, p, to)), p, FullRaise(t, p, to)) EXCEPT
        !.pot = @ + Max({0, to - t.seats[p].bet}),
        !.call = to,
        !.bettingAt = TRUE,
        !.betting = IF @ = NoBetting THEN @
                    ELSE [current |-> to,
                          minRaise |-> IF FullRaise(t, p, to) THEN RaiseBy(t, to)
                                       ELSE @.minRaise]]

\* handle_allin: a raise to bet + stack, or a call.
AllInTo(t, p) == t.seats[p].bet + t.seats[p].stack
MayAllIn(t, p) == /\ t.seats[p].stack > 0
                  /\ IF AllInTo(t, p) > Max({0, t.call})
                     THEN MayRaise(t, p, AllInTo(t, p)) ELSE MayCall(t, p)
HandleAllIn(t, p) == IF AllInTo(t, p) > Max({0, t.call})
                     THEN HandleRaise(t, p, AllInTo(t, p)) ELSE HandleCall(t, p)

-----------------------------------------------------------------------------
(* Showdown.                                                               *)

\* The distinct total bets of the seats that are all in (a kicked seat's too).
AllInLevels(t) == {t.seats[p].total : p \in {q \in Seated(t) :
                       t.seats[q].stack = 0 /\ t.seats[q].total > 0}}

Layer(t, low, high) ==
    [amount  |-> SumOf(Seated(t), LAMBDA p :
                     Max({0, Min({t.seats[p].total, high}) - low})),
     players |-> {p \in Seated(t) : t.seats[p].total > low /\ ~t.seats[p].folded}]

\* One layer a level, and one above the highest if anybody bet more.
Layers(t) ==
    LET tops == AllInLevels(t) \cup {Max({t.seats[p].total : p \in Seated(t)})}
        low(h) == Max({0} \cup {l \in tops : l < h})
    IN  [i \in 1..Cardinality(tops) |->
            LET h == CHOOSE h \in tops : Cardinality({l \in tops : l <= h}) = i
            IN  Layer(t, low(h), h)]

\* A last layer nobody can win joins the last one somebody can.
MergeLast(layers) ==
    LET n == Len(layers)
        won == {i \in 1..(n - 1) : layers[i].players # {}}
        into == IF won = {} THEN 1 ELSE Max(won)
    IN  IF n < 2 \/ layers[n].players # {} THEN layers
        ELSE [SubSeq(layers, 1, n - 1) EXCEPT ![into].amount = @ + layers[n].amount]

CalculateSidePots(t) ==
    [t EXCEPT !.sides = IF AllInLevels(t) = {} THEN <<>> ELSE Tail(MergeLast(Layers(t)))]

\* Mutation of MainPot: the side pots are not taken off.
MainPotWhole(t) == t.pot

MainPot(t) == Max({0, t.pot - SidesTotal(t)})

\* evaluate_player_hands needs five board cards and a hand that could be read.
BestOf(t, S, ranks) ==
    LET shown == {p \in S : ranks[p] > 0 /\ ~t.seats[p].out /\ t.board >= 5}
    IN  IF Cardinality(S) = 1 \/ shown = {} THEN S
        ELSE {p \in shown : \A q \in shown : ranks[q] <= ranks[p]}

\* determine_winner_by_ids: equal shares, the odd chips one each.
Award(t, amount, S) ==
    LET share == amount \div Cardinality(S)
        odd(p) == IF Cardinality({q \in S : q < p}) < amount % Cardinality(S) THEN 1 ELSE 0
    IN  FoldSet(LAMBDA p, acc : WinHand(acc, p, share + odd(p)), t, S)

AwardSide(t, side, ranks) ==
    LET S == {p \in side.players \cap Seated(t) : ~t.seats[p].folded}
    IN  IF S = {} THEN t ELSE Award(t, side.amount, BestOf(t, S, ranks))

AwardMain(t, ranks) ==
    LET S == {p \in Seated(t) : ~t.seats[p].folded}
    IN  IF S = {} THEN t ELSE Award(t, MainPot(t), BestOf(t, S, ranks))

\* calculate_side_pots, determine_side_pot_winners, determine_main_pot_winner.
SettlePots(t, ranks) ==
    LET split == CalculateSidePots(t)
        paid == FoldSet(LAMBDA i, acc : AwardSide(acc, split.sides[i], ranks),
                        split, 1..Len(split.sides))
    IN  [AwardMain(paid, ranks) EXCEPT !.showdownAt = TRUE]

-----------------------------------------------------------------------------
(* From one phase to the next.                                             *)

\* Nothing happens when a reveal is already under way.
StartReveal(t, phase, S) ==
    IF RevealActive(t) THEN t
    ELSE [t EXCEPT !.reveal = [phase |-> phase, pending |-> S, completed |-> {}]]

StartPreflopReveal(t) == StartReveal(t, "Hand", t.members)
StartCommunityReveal(t) == StartReveal(t, "Community", t.members)
StartShowdownReveal(t) ==
    StartReveal(t, "Showdown", {p \in Seated(t) \cap t.members : ~t.seats[p].folded})

StreetAfter == [PreFlop |-> "Flop", Flop |-> "Turn", Turn |-> "River"]

AdvanceToNextPhase(t) ==
    LET clean == ResetBetsAndActions(t)
    IN  CASE t.round \in DOMAIN StreetAfter ->
                StartCommunityReveal(
                    [clean EXCEPT !.round = StreetAfter[t.round],
                                  !.board = IF t.round = "PreFlop" THEN @ + 3 ELSE @ + 1])
          [] t.round = "River" -> StartShowdownReveal([clean EXCEPT !.round = "Showdown"])
          [] OTHER -> clean

StartBettingRound(t, preflop) ==
    IF CanAct(t) = {} THEN AdvanceToNextPhase([t EXCEPT !.betting = NoBetting])
    ELSE IF preflop
    THEN [Update(t, Seated(t), LAMBDA s : [s EXCEPT !.acted = FALSE]) EXCEPT
             !.betting = [current |-> 2 * MinBet, minRaise |-> 2 * MinBet],
             !.bettingAt = TRUE]
    ELSE [ResetBetsAndActions(t) EXCEPT
             !.betting = [current |-> 0, minRaise |-> 2 * MinBet],
             !.turn = NextIn(CanAct(t), OrFirst(t.button), 1),
             !.bettingAt = TRUE]

OnRevealComplete(t, ranks) ==
    LET done == [t EXCEPT !.reveal = NoReveal]
    IN  CASE ~RevealActive(t) \/ t.reveal.pending # {} -> t
          [] t.reveal.phase = "Hand" /\ t.reveal.pending = {} ->
                ShowTurn(StartBettingRound(SetBlinds(done), TRUE))
          [] t.reveal.phase = "Community" /\ t.reveal.pending = {} ->
                ShowTurn(StartBettingRound(done, FALSE))
          [] t.reveal.phase = "Showdown" /\ t.reveal.pending = {} ->
                SettlePots(done, ranks)

\* on_before_preflop_shuffle_complete
DealHand(t) ==
    LET reset == ResetBetsAndActions([t EXCEPT !.pot = 0, !.sides = <<>>])
        unfold(s) == [s EXCEPT !.folded = s.out, !.total = 0]
    IN  [Update(reset, Seated(t), unfold) EXCEPT
            !.handOver = IF Cardinality(Active(t)) > 1 THEN FALSE ELSE @]

\* The reveal that a finished reconstruction has to repeat.
RepeatReveal(t) ==
    CASE t.round = "PreFlop" -> StartPreflopReveal(t)
      [] t.round \in {"Flop", "Turn", "River"} -> StartCommunityReveal(t)
      [] t.round = "Showdown" -> StartShowdownReveal(t)
      [] OTHER -> t

AdvanceShuffle(t) ==
    LET done == [t EXCEPT !.shuffle.phase = "None", !.shuffle.current = None]
    IN  CASE ~ShuffleActive(t) -> t
          [] ShuffleActive(t) /\ t.shuffle.pending # {} ->
                [t EXCEPT !.shuffle.current = Min(t.shuffle.pending)]
          [] t.shuffle.phase = "BeforePreflop" /\ t.shuffle.pending = {} ->
                StartPreflopReveal([DealHand(done) EXCEPT !.round = "PreFlop"])
          [] t.shuffle.phase = "Reconstruct" /\ t.shuffle.pending = {} ->
                RepeatReveal([done EXCEPT !.reconstruct = NoReconstruct,
                                          !.reveal = NoReveal])

\* The deprecated complete_or_continue_next_shuffler, still called by a join.
CompleteOrContinue(t) ==
    IF t.shuffle.pending = {}
    THEN IF Cardinality(t.shuffle.completed) >= MinStartNum
         THEN [t EXCEPT !.shuffle.phase = "None"] ELSE t
    ELSE [t EXCEPT !.shuffle.current = Min(t.shuffle.pending)]

-----------------------------------------------------------------------------
(* Starting a hand.                                                        *)

MoveButton(t) == [t EXCEPT !.button = NextIn(Seated(t), @, 1)]

\* start_preflop_shuffle: who is seated and in takes part, waiting joiners too.
StartPreflopShuffle(t) ==
    LET here == (t.members \cap Active(t)) \cup (t.joiners \cap Seated(t))
        pending == here \ t.shuffle.completed
        in(s) == [s EXCEPT !.waiting = FALSE]
    IN  [Update(t, Seated(t), in) EXCEPT
            !.members = here,
            !.joiners = {},
            !.shuffle = [@ EXCEPT !.phase = "BeforePreflop",
                                  !.pending = pending,
                                  !.current = IF pending = {} THEN @ ELSE Min(pending)]]

StartHand(t) ==
    IF IsPlaying(t) \/ Cardinality(Active(t)) < MinStartNum THEN t
    ELSE AdvanceShuffle(StartPreflopShuffle(MoveButton(t)))

StartShuffle(t) == IF ShuffleActive(t) THEN t ELSE StartHand(t)

-----------------------------------------------------------------------------
(* Leaving, being kicked, running out of time.                             *)

\* The lists a kicked player is struck from.
StrikeOff(t, p) ==
    [t EXCEPT !.members = @ \ {p}, !.known = @ \ {p},
              !.shuffle.pending = @ \ {p}, !.shuffle.completed = @ \ {p},
              !.shuffle.current = IF @ = p THEN None ELSE @,
              !.reveal = IF @.phase = "None" THEN @
                         ELSE [@ EXCEPT !.pending = @ \ {p}, !.completed = @ \ {p}],
              !.reconstruct = IF ~@.active THEN @
                         ELSE [@ EXCEPT !.pending = @ \ {p}, !.completed = @ \ {p}]]

\* The seat stays, folded and without chips, until the hand is over.
EmptySeat(t, p) ==
    Update(t, {p}, LAMBDA s : [s EXCEPT !.stack = 0, !.bet = 0, !.left = TRUE,
                                        !.folded = TRUE, !.acted = FALSE,
                                        !.waiting = FALSE, !.turn = FALSE])

\* Mutation of KickPlayer: the bets of the kicked player leave with it.
KickPlayerWithBets(t, p) ==
    IF p \notin t.known THEN t
    ELSE Update(EmptySeat(StrikeOff(t, p), p), {p}, LAMBDA s : [s EXCEPT !.total = 0])

KickPlayer(t, p) ==
    LET kicked == EmptySeat(StrikeOff(t, p), p)
        shuffled == IF t.shuffle.current = p THEN AdvanceShuffle(kicked) ELSE kicked
        ended == IF /\ t.turn = p /\ shuffled.betting # NoBetting
                    /\ Cardinality(Active(shuffled)) <= 1
                 THEN EndWithoutShowdown(shuffled) ELSE shuffled
    IN  IF p \notin t.known THEN t
        ELSE IF Cardinality(Active(ended)) < MinStartNum THEN ResetForNextHand(ended)
        ELSE ended

RemovePlayer(t, p) ==
    IF IsPlaying(t) THEN KickPlayer(t, p)
    ELSE LET gone == StandPlayer(t, p) IN [gone EXCEPT !.members = @ \ {p}]

\* leave_talbe_and_clear_shuffle
LeaveTable(t, p) ==
    [RemovePlayer(t, p) EXCEPT
        !.shuffle.completed = @ \ {p}, !.shuffle.pending = @ \ {p},
        !.shuffle.current = IF @ = p THEN None ELSE @, !.joiners = @ \ {p}]

\* How every timeout ends that leaves at most one seat active.
EndIfDeserted(t, otherwise) ==
    CASE Active(t) = {} -> ResetForNextHand(RefundAllBets(t))
      [] Cardinality(Active(t)) = 1 -> EndWithoutShowdown(t)
      [] OTHER -> otherwise

\* rebuild_deck_and_shuffle, and the same tail of on_reconstruct_shuffle_failed.
Reshuffle(t) ==
    AdvanceShuffle([t EXCEPT !.shuffle.pending = t.members,
                             !.shuffle.completed = {}, !.shuffle.current = None])

OnShuffleTimeout(t) ==
    LET p == t.shuffle.current
        gone == RemovePlayer(t, p)
        rest == [gone EXCEPT !.shuffle.pending = @ \ {p}]
    IN  IF t.shuffle.phase # "BeforePreflop" /\ ~IsPlaying(rest) THEN rest
        ELSE EndIfDeserted(rest, IF ShuffleActive(rest) THEN Reshuffle(rest) ELSE rest)

StartReconstruct(t) ==
    IF t.reconstruct.active THEN t
    ELSE [t EXCEPT !.reconstruct = [active |-> TRUE, pending |-> t.members,
                                    completed |-> {}]]

RemoveAll(t, S) == FoldSet(LAMBDA p, acc : RemovePlayer(acc, p), t, S)

OnRevealTimeout(t) ==
    LET rest == RemoveAll(t, t.reveal.pending)
    IN  IF ~IsPlaying(rest) THEN rest
        ELSE EndIfDeserted(rest, IF t.round = "PreFlop"
                                 THEN ResetForNextHand(RefundAllBets(rest))
                                 ELSE StartReconstruct(rest))

\* on_complete_reconstruct: the rebuilt deck is shuffled by everyone left.
OnCompleteReconstruct(t) ==
    AdvanceShuffle([t EXCEPT !.reconstruct = NoReconstruct,
                             !.shuffle = [phase |-> "Reconstruct", current |-> None,
                                          pending |-> t.members, completed |-> {}]])

OnReconstructTimeout(t) ==
    LET rest == RemoveAll(t, t.reconstruct.pending)
    IN  CASE Cardinality(Active(rest)) <= 1 -> EndIfDeserted(rest, rest)
          [] ~IsPlaying(rest) -> rest
          [] OTHER -> OnCompleteReconstruct(rest)

MarkRevealComplete(t, p, ranks) ==
    OnRevealComplete([t EXCEPT !.reveal.pending = @ \ {p},
                               !.reveal.completed = @ \cup {p}], ranks)

\* Mutation of BettingTimeout: who is out of time is passed over, not folded.
BettingTimeoutPasses(t) ==
    ShowTurn([t EXCEPT !.turn = NextIn(CanAct(t), t.turn, 1), !.bettingAt = TRUE])

\* check_betting_timeout, once the time is up: fold, or move the turn on from a
\* seat that cannot act.
BettingTimeout(t) ==
    LET p == t.turn
    IN  IF t.seats[p].folded \/ t.seats[p].out \/ t.seats[p].stack = 0
        THEN ShowTurn([t EXCEPT !.turn = NextIn(CanAct(t), p, 1), !.bettingAt = TRUE])
        ELSE HandleFold(t, p)
TimedOutFolds(t) == LET s == t.seats[t.turn]
                    IN  ~s.folded /\ ~s.out /\ s.stack > 0 /\ t.turn \in t.known

SetOut(t, p, isOut) == Update(t, {p}, LAMBDA s : [s EXCEPT !.out = isOut])
=============================================================================
