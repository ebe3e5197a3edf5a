--------------------------- MODULE TableProperties ---------------------------
(***************************************************************************)
(* What the table contract promises: about the chips, about who may act,   *)
(* about the card protocol, and that every hand ends.                      *)
(***************************************************************************)
EXTENDS Table

SeatType ==
    [player : Players \cup {NoPlayer}, stack : Nat, bet : Nat, total_bet : Nat,
     folded : BOOLEAN, all_in : BOOLEAN, acted : BOOLEAN,
     is_waiting : BOOLEAN, left : BOOLEAN, refunded : BOOLEAN]

AssignmentType ==
    [card : Nat, pending : SUBSET Seats, decrypted : BOOLEAN,
     dealt_to : Seats \cup {CommunityOwner}]

CardType == [card : Nat, owner : Seats, plain : BOOLEAN, dealt_to : Seats]

TableType ==
    [seats : [Seats -> SeatType], button : Seats, pot : Nat, round : Rounds,
     betting : [open : BOOLEAN, current_bet : Nat, min_raise : Nat],
     turn : Seats \cup {NoSeat},
     shuffle : [phase : ShufflePhases, current : Seats \cup {NoSeat},
                pending : SUBSET Seats, completed : SUBSET Seats],
     reveal : [phase : RevealPhases, asg : Seq(AssignmentType)],
     reconstruct : [phase : ReconstructPhases, pending : SUBSET Seats,
                    decks : SUBSET Seats],
     dealt : Nat, decrypted : SUBSET CardType, ready : Nat, board : Nat,
     blanks : Nat, agg : [Players -> Nat], timers : [TimerNames -> BOOLEAN],
     balance : Nat, ok : {TRUE}]

\* Every field of the table has its type, and no aborted transaction is
\* ever committed.
TypeOK == table \in TableType

-----------------------------------------------------------------------------
(* Chips.                                                                  *)

\* The chips the table owes its players, and the balance beyond them.
Owed(t) == TotalStack(t) + t.pot + TotalBet(t)
Surplus(t) == t.balance - Ratio * Owed(t)

\* The SUI the table holds always covers every stack, bet and pot, so no
\* refund can fail for want of balance (refund_sui_to_player).
Solvent == Surplus(table) >= 0

\* What settle_hand is about to divide, the contributions in total_bet, never
\* exceeds the chips really in the pot and on the table: settlement never
\* pays out chips nobody put in.
NeverOverpays == TotalContribution(table) <= table.pot + TotalBet(table)

\* A step leaves what the table owes backed exactly, up to the part of a
\* buy-in that makes no whole chip: no handler burns or mints chips.
ChipsConserved ==
    [][Surplus(table') - Surplus(table) \in 0 .. Ratio - 1]_vars

\* Seats that one player holds before and after a step.
SamePlayer(s) ==
    /\ s \in OccupiedSeats(table) \cap OccupiedSeats(table')
    /\ table.seats[s].player = table'.seats[s].player

HandGoesOn == table.round # "waiting" /\ table'.round # "waiting"

\* Within a hand a player's chips only move from the stack into the pot:
\* stack + total_bet of a seated player stays what it was.
BankrollKept ==
    [][HandGoesOn => \A s \in Seats : SamePlayer(s) =>
          table'.seats[s].stack + table'.seats[s].total_bet
             = table.seats[s].stack + table.seats[s].total_bet]_vars

\* Who has folded is out of the hand: through kicks, timeouts and the end of
\* the hand it neither pays nor charges that player, and nobody is brought back
\* before it is over.
BystandersUntouched ==
    [][\A s \in Seats : SamePlayer(s) /\ table.seats[s].folded =>
          /\ HandGoesOn => table'.seats[s].folded
          /\ table'.seats[s].stack = table.seats[s].stack]_vars

\* The most seat s can win: of each player's contribution no more than the
\* seat put in itself and, for who put in most, the chips above that which
\* players who are out of the hand have left behind.
WithinReach(t, s) ==
    LET own == t.seats[s].total_bet
        top == Max({t.seats[u].total_bet : u \in LiveSeats(t)})
        covered(u) == Min({t.seats[u].total_bet, own})
        above(u) == Max({t.seats[u].total_bet - top, 0})
    IN  MapThenSumSet(covered, Seats)
           + (IF own = top THEN MapThenSumSet(above, Seats) ELSE 0)

\* settle_hand pays no player more than is within reach: a short all-in does
\* not win what it did not cover.
NoOverwin ==
    [][table.round = "showdown" /\ table'.round = "waiting" =>
          \A s \in LiveSeats(table) : SamePlayer(s) =>
             table'.seats[s].stack - table.seats[s].stack
                <= WithinReach(table, s)]_vars

\* At a showdown, whatever the cards, a hand better than every other one
\* left wins all that is within its owner's reach.
BestHandTakesItsShare ==
    table.round = "showdown" =>
        LET shown == [table EXCEPT !.decrypted =
                         {[d EXCEPT !.plain = TRUE] : d \in table.decrypted}]
        IN  \A ranks \in Rankings, s \in LiveSeats(table) :
               (\A u \in LiveSeats(table) \ {s} : ranks[u] < ranks[s]) =>
                  PayPots(shown, Pots(shown), ranks).seats[s].stack
                     = table.seats[s].stack + WithinReach(table, s)

\* No seated player carries the refunded flag into a hand: refund_all_bets
\* would skip that player's bets and drop them.
RefundFlagClear == \A s \in OccupiedSeats(table) : ~table.seats[s].refunded

-----------------------------------------------------------------------------
(* Whose turn it is.                                                       *)

\* It is never the turn of a player who has nothing left to bet.
TurnCanAct == table.betting.open => table.turn \in ActionableSeats(table)

\* After the flop the turn is always a player's who can act.
PostflopTurnCanAct == table.round # "preflop" => TurnCanAct

\* When a street closes without ending the hand, every player who can still
\* act has matched the bet: nobody sees the next card for less.
StreetClosesMatched ==
    [][table.betting.open /\ ~table'.betting.open /\ table'.round # "waiting"
       => \A s \in ActionableSeats(table') :
             table'.seats[s].total_bet
                >= Max({table'.seats[u].total_bet : u \in LiveSeats(table')})]_vars

-----------------------------------------------------------------------------
(* The card protocol.                                                      *)

\* At most one protocol phase drives the table, and betting is open only
\* when none does.  A reveal that timed out stays behind the reconstruction
\* it started.
PhasesExclusive ==
    /\ table.betting.open => /\ table.shuffle.phase = "none"
                             /\ table.reveal.phase = "none"
                             /\ table.reconstruct.phase = "none"
    /\ table.shuffle.phase # "none" => table.reconstruct.phase = "none"
    /\ table.shuffle.phase = "before_preflop" =>
          table.round = "waiting" /\ table.reveal.phase = "none"
    /\ table.shuffle.phase = "reconstruct" =>
          table.round \notin {"waiting", "preflop"}

\* During a shuffle every active seat has shuffled or still has to, none
\* both, and the current shuffler is one who has to: no hand is dealt from a
\* deck an active player has not shuffled.
ShuffleCoversTable ==
    table.shuffle.phase # "none" =>
        /\ table.shuffle.pending \cap table.shuffle.completed = {}
        /\ table.shuffle.pending \cup table.shuffle.completed = ActiveSeats(table)
        /\ table.shuffle.current \in table.shuffle.pending

\* The aggregated key is the sum of the keys of the active seats, one each:
\* joins, leaves, kicks and resets all keep it in step with the seats.
KeyMatchesSeats ==
    \A p \in Players :
        table.agg[p] = Cardinality({s \in ActiveSeats(table) :
                                       table.seats[s].player = p})

\* A reveal phase waits only for active seats, and before the showdown no
\* seat is asked to open its own hole card.
RevealAsksActive ==
    \A a \in DOMAIN table.reveal.asg :
        LET asg == table.reveal.asg[a]
        IN  /\ asg.pending \subseteq ActiveSeats(table)
            /\ table.reveal.phase = "preflop" => asg.dealt_to \notin asg.pending

\* While bets are made every live player holds exactly CardsPerPlayer
\* half-decrypted cards, those dealt to that seat.
HoleCardsDealt ==
    table.betting.open =>
        \A s \in LiveSeats(table) :
            LET held == {d \in table.decrypted : d.owner = s}
            IN  /\ Cardinality(held) = CardsPerPlayer
                /\ \A d \in held : d.dealt_to = s /\ ~d.plain

\* A hole card is opened only at the showdown, and only if its owner stayed
\* in the hand: the cards of a player who folded are never shown.
HoleCardsPrivate ==
    \A d \in table.decrypted :
        d.plain => /\ table.round = "showdown"
                   /\ d.owner \in LiveSeats(table) \/ table.seats[d.owner].left

\* The board has the cards of its street whenever bets are made or hands are
\* shown, also when the deck was reconstructed in between.
BoardSize == [preflop |-> 0, flop |-> FlopCards, turn |-> FlopCards + 1,
              river |-> FlopCards + 2, showdown |-> FlopCards + 2]
BoardMatchesRound ==
    table.betting.open \/ table.round = "showdown" =>
        table.board = BoardSize[table.round] /\ table.ready = 0

\* Each player on turn gets the whole betting timeout (betting_started_at is
\* the start of the current bettor).  A kick of the player on turn is the
\* exception: it leaves the timer running (kick_player_internal).
BettingTimerFresh ==
    [][table.betting.open /\ table'.betting.open /\ table'.turn # table.turn =>
          ~table'.timers.betting]_vars

-----------------------------------------------------------------------------
(* The betting, abstractly.                                                *)

\* A hand is being bet on from the blinds to the reset.
HandIsOn ==
    /\ table.round # "waiting"
    /\ table.round = "preflop" => table.betting.open

\* A seat as Wagers sees it: the players of this hand only.
Wagered(s) ==
    LET seat == table.seats[s]
        W == [playing |-> s \in ActiveSeats(table), stack |-> seat.stack,
              bet |-> seat.bet, total_bet |-> seat.total_bet,
              folded |-> seat.folded, all_in |-> seat.all_in,
              acted |-> seat.acted]
    IN  IF W.playing THEN W
        ELSE [W EXCEPT !.stack = 0, !.bet = 0, !.total_bet = 0,
                       !.folded = FALSE, !.all_in = FALSE, !.acted = FALSE]

Abstract ==
    INSTANCE Wagers WITH hand <- HandIsOn, round <- table.betting,
                         seat <- [s \in Seats |-> Wagered(s)],
                         Stacks <- 1 .. MaxBalance

\* Whatever shuffles, reveals, timeouts and kicks come in between, the
\* table's handlers bet as Wagers says.
ImplementsWagers == Abstract!Spec

-----------------------------------------------------------------------------
(* Progress.                                                               *)

\* The relayer's tick never aborts at a table whose players sat down together:
\* whichever timer has run out, whoever it kicks and whatever has been rebuilt
\* before, what it does can be done (a street after a reconstruction lacks no
\* fewer cards than none, a hand somebody is left in can be given away).
TickNeverAborts ==
    \A expired \in MayExpire(TimerAwaited(table)), ranks \in Outcomes :
        Ticked(table, expired, ranks).ok

\* With joins and departures a tick can abort, in one state only: the turn is
\* of a seat that is not in the hand, because heads-up post_blinds gives the
\* small blind and the turn to the button without asking who sits there.  In
\* every other state the tick can be handled.
OnlyDeadTurnsAbort ==
    (table.betting.open => table.turn \in LiveSeats(table)) => TickNeverAborts

\* A tick that finds the awaited timer run out, if it has been started.
TimedOutTick == \E ranks \in Outcomes : Tick(TRUE, ranks)

\* ENABLED <<TimedOutTick>>_vars, written out.
TimedOutTickEnabled ==
    \E ranks \in Outcomes :
        Ticked(table, TRUE, ranks).ok /\ Ticked(table, TRUE, ranks) # table

\* Weak fairness of TimedOutTick (WF_vars(TimedOutTick) with its ENABLED
\* written out): tick is open to everybody, somebody keeps calling it, and
\* time keeps passing.
FairTick == []<>~TimedOutTickEnabled \/ []<><<TimedOutTick>>_vars

FairSpec == Spec /\ FairTick

\* Every hand of two players ends, whatever they do or fail to do.  (From three
\* seats on a tick that aborts for ever can leave a hand hanging, see
\* OnlyDeadTurnsAbort.)
HandEnds == table.round # "waiting" ~> table.round = "waiting"

=============================================================================
