-------------------------------- MODULE Table --------------------------------
(***************************************************************************)
(* The poker table contract (src/texas_poker_move/sources/table.move): one *)
(* action per public entry point.  Every entry point is one transaction    *)
(* on the shared Table object, so it is one atomic step; the interleaving  *)
(* is that of the transactions of players, relayer and administrator.  An  *)
(* entry point whose transaction aborts changes nothing.                   *)
(*                                                                         *)
(* The zero-knowledge proofs are not modelled: a submission with a bad     *)
(* proof aborts, so only accepted submissions are actions (the _verified   *)
(* entry points are the same handlers without the proof checks).  Time is  *)
(* modelled by which started timers a tick may find run out.               *)
(***************************************************************************)
EXTENDS HandFlow

CONSTANTS
    Coins,       \* the SUI coins a player may buy in with
    MaxBalance,  \* bound: no buy-in takes the table's balance above it
    Rankings,    \* functions from seats to showdown hand strengths
    Expiring,    \* the timers that may run out: a subset of TimerNames
    Calls,       \* the groups of entry points that are called at all
    Piecemeal    \* whether a player may submit only some of the tokens owed

TimerNames == {"shuffle", "reveal", "betting", "reconstruct", "showdown"}

CallGroups == {"join", "leave", "admin"}

ASSUME EnvironmentAssumption ==
    /\ \A c \in Coins : c \in Nat /\ c >= Ratio
    /\ MaxBalance \in Nat
    /\ Rankings # {} /\ Rankings \subseteq [Seats -> Nat]
    /\ Expiring \subseteq TimerNames
    /\ Calls \subseteq CallGroups
    /\ Piecemeal \in BOOLEAN

VARIABLE table

vars == <<table>>

Init == table = NewTable

\* The transaction that turns the table into t; an aborted one never happens.
Commit(t) == t.ok /\ table' = t

\* The showdown outcomes a step can depend on: settlement reads the cards in
\* round showdown only.
Outcomes ==
    IF table.round = "showdown" THEN Rankings ELSE {CHOOSE r \in Rankings : TRUE}

-----------------------------------------------------------------------------
(* Joining and leaving.                                                    *)

\* The part join_table and join_and_shuffle share: the coin goes to the
\* table's balance, what does not make a whole chip included.
Seated(t, p, s, coin, isWaiting) ==
    [t EXCEPT !.balance = @ + coin,
              !.seats[s] = InitSeat(p, coin \div Ratio, isWaiting)]

CanSit(p, s, coin) ==
    /\ ~IsSeatOccupied(table.seats[s])
    /\ ~IsPlayerSeated(table, p)
    /\ table.balance + coin <= MaxBalance

\* Mutation of JoinTable: the key of a waiting player is added at once.
JoinTableKeyAtOnce(p, s, coin) ==
    /\ CanSit(p, s, coin)
    /\ Commit(AddPk(Seated(table, p, s, coin, IsPlaying(table)), p))

\* join_table: during a hand the player waits and the key stays out.
JoinTable(p, s, coin) ==
    LET isWaiting == IsPlaying(table)
        seated == Seated(table, p, s, coin, isWaiting)
    IN  /\ CanSit(p, s, coin)
        /\ Commit(IF isWaiting THEN seated ELSE AddPk(seated, p))

\* join_and_shuffle: the player remasks and shuffles while joining.
JoinAndShuffle(p, s, coin) ==
    LET seated == AddPk(Seated(table, p, s, coin, FALSE), p)
    IN  /\ CanSit(p, s, coin)
        /\ table.round = "waiting"
        /\ Commit([seated EXCEPT !.shuffle.completed = @ \cup {s},
                                 !.shuffle.pending = @ \ {s}])

\* The player s gets the stack back and the seat is reset.
Departed(t, s) ==
    [RefundSui(t, t.seats[s].stack) EXCEPT !.seats[s] = EmptySeat]

\* leave_with_proof: a player who has shuffled takes the key out again.
LeaveWithProof(s) ==
    LET unkeyed == RemovePk(table, table.seats[s].player)
    IN  /\ s \in OccupiedSeats(table)
        /\ table.round = "waiting"
        /\ s \in table.shuffle.completed
        /\ Commit(Departed([unkeyed EXCEPT !.shuffle.pending = @ \ {s},
                                           !.shuffle.completed = @ \ {s}], s))

\* Mutation of LeaveTable: a waiting player's key is taken out as well.
LeaveTableAnyKey(s) ==
    LET seat == table.seats[s]
    IN  /\ s \in OccupiedSeats(table) \ table.shuffle.completed
        /\ IsPlaying(table) => seat.is_waiting
        /\ Commit(Departed(RemovePk(table, seat.player), s))

\* leave_table
LeaveTable(s) ==
    LET seat == table.seats[s]
    IN  /\ s \in OccupiedSeats(table) \ table.shuffle.completed
        /\ IsPlaying(table) => seat.is_waiting
        /\ Commit(Departed(IF seat.is_waiting THEN table
                           ELSE RemovePk(table, seat.player), s))

-----------------------------------------------------------------------------
(* The card protocol.                                                      *)

\* start_hand: anyone may call it.
StartHand == Commit(DoStartHand(table))

\* submit_shuffle
SubmitShuffle(s) ==
    /\ table.shuffle.phase # "none"
    /\ s \in OccupiedSeats(table)
    /\ table.shuffle.current = s
    /\ s \notin table.shuffle.completed
    /\ Commit(AdvanceShuffle([table EXCEPT !.shuffle.completed = @ \cup {s},
                                           !.shuffle.pending = @ \ {s}]))

\* The assignments a seat owes a reveal token for.
OwedBy(t, s) == {a \in DOMAIN t.reveal.asg : s \in t.reveal.asg[a].pending}

\* Mutation of FindHandCardOwner: counted from the button, as dealers do.
FindHandCardOwnerButton(t, card) ==
    LET n == Cardinality(ActiveSeats(t))
        offset == card - (t.dealt - n * CardsPerPlayer)
    IN  IF t.dealt < n * CardsPerPlayer \/ offset < 0 \/ offset >= n * CardsPerPlayer
        THEN NoSeat
        ELSE Ascending(ActiveSeats(t))[((offset \div CardsPerPlayer + t.button) % n) + 1]

\* find_hand_card_owner: the seats in order own CardsPerPlayer cards each,
\* counted back from cards_dealt with the seats that are active now.  NoSeat
\* when the subtraction underflows or the index is out of range (abort).
FindHandCardOwner(t, card) ==
    LET n == Cardinality(ActiveSeats(t))
        offset == card - (t.dealt - n * CardsPerPlayer)
    IN  IF t.dealt < n * CardsPerPlayer \/ offset < 0 \/ offset >= n * CardsPerPlayer
        THEN NoSeat
        ELSE Ascending(ActiveSeats(t))[(offset \div CardsPerPlayer) + 1]

\* The tokens of seat s for the assignments S taken in; a card whose last
\* token this is counts as decrypted.
TokensTaken(t, s, S) ==
    [t EXCEPT !.reveal.asg = [a \in DOMAIN t.reveal.asg |->
        IF a \notin S THEN t.reveal.asg[a]
        ELSE [t.reveal.asg[a] EXCEPT !.pending = @ \ {s},
                                     !.decrypted = t.reveal.asg[a].pending = {s}]]]

\* Hole cards whose last foreign token came in: half-decrypted, the owner
\* computed afresh.
HoleCardsOpened(t, done) ==
    LET opened(a) ==
            [card |-> t.reveal.asg[a].card,
             owner |-> FindHandCardOwner(t, t.reveal.asg[a].card),
             plain |-> FALSE, dealt_to |-> t.reveal.asg[a].dealt_to]
    IN  [t EXCEPT !.decrypted = @ \cup {opened(a) : a \in done}]

\* The owners' own tokens turn half-decrypted hole cards into plain ones.
HoleCardsShown(t, done) ==
    LET cards == {t.reveal.asg[a].card : a \in done}
    IN  [t EXCEPT !.decrypted =
            {[d EXCEPT !.plain = @ \/ d.card \in cards] : d \in t.decrypted}]

\* Community cards decrypted; those of blank turn out to be the identity
\* and are dealt again from the deck.
CommunityOpened(t, done, blank) ==
    LET n == Cardinality(blank)
        indices == Ascending(DOMAIN t.reveal.asg \ blank)
        kept == [i \in DOMAIN indices |-> t.reveal.asg[indices[i]]]
        again == CommunityAssignments(t, n)
        dealt == [t EXCEPT !.ready = @ + Cardinality(done \ blank),
                           !.blanks = @ - n]
    IN  IF n = 0 THEN dealt
        ELSE Require([dealt EXCEPT
                        !.dealt = @ + n,
                        !.reveal.asg = kept \o [k \in 1 .. n |-> again[n + 1 - k]]],
                     t.dealt + n <= DeckSize)

\* submit_player_reveal_tokens
SubmitRevealTokens(s, S, blank, ranks) ==
    LET done == {a \in S : table.reveal.asg[a].pending = {s}}
        taken == TokensTaken(table, s, S)
        phase == table.reveal.phase
        opened == CASE phase = "preflop" -> HoleCardsOpened(taken, done)
                    [] phase = "showdown" -> HoleCardsShown(taken, done)
                    [] OTHER -> CommunityOpened(taken, done, blank)
    IN  /\ phase # "none"
        /\ s \in OccupiedSeats(table)
        /\ S \subseteq OwedBy(table, s)
        /\ \A a \in S : table.reveal.asg[a].card < DeckSize
        /\ phase = "preflop" =>
              \A a \in S : FindHandCardOwner(table, table.reveal.asg[a].card) # NoSeat
        /\ blank \subseteq done
        /\ Cardinality(blank) <= table.blanks
        /\ phase \in {"preflop", "showdown"} => blank = {}
        /\ Commit(CheckRevealPhaseComplete(opened, ranks))

\* submit_reconstruct_deck
SubmitReconstructDeck(s) ==
    LET submitted == [table EXCEPT !.reconstruct.pending = @ \ {s},
                                   !.reconstruct.decks = @ \cup {s}]
    IN  /\ table.reconstruct.phase = "collecting"
        /\ s \in OccupiedSeats(table)
        /\ s \in table.reconstruct.pending
        /\ Commit(IF submitted.reconstruct.pending = {}
                  THEN OnCompleteReconstruct(submitted) ELSE submitted)

-----------------------------------------------------------------------------
(* Betting actions.                                                        *)

\* The asserts fold, check, call and raise begin with.
OnTurn(s) ==
    /\ IsBettingRound(table)
    /\ table.turn = s
    /\ s \in OccupiedSeats(table)
    /\ ~table.seats[s].folded

\* Mutation of Acted: the timer of the player who acted runs on.
ActedTimerRuns(t, s) == [t EXCEPT !.seats[s].acted = TRUE]

\* The table after seat s has acted: its timer stops.
Acted(t, s) == [t EXCEPT !.seats[s].acted = TRUE, !.timers.betting = FALSE]

\* fold
Fold(s) == OnTurn(s) /\ Commit(DoFold(table, s))

\* check
Check(s) ==
    /\ OnTurn(s)
    /\ ~table.seats[s].all_in
    /\ CanCheck(table.betting, table.seats[s].bet)
    /\ Commit(AdvanceTurn(Acted(table, s)))

\* call
Call(s) ==
    LET seat == table.seats[s]
    IN  /\ OnTurn(s)
        /\ ~seat.all_in
        /\ CanCall(table.betting, seat.bet)
        /\ Commit(AdvanceTurn(Acted(
              [table EXCEPT !.seats[s] =
                  PutIn(@, CallAmount(table.betting, seat))], s)))

\* Mutation of ResetOtherPlayersActed: only the seats after the raiser's.
ResetOtherPlayersActedLater(t, s) ==
    [t EXCEPT !.seats = [u \in Seats |->
        IF u \in ActionableSeats(t) /\ u > s
        THEN [t.seats[u] EXCEPT !.acted = FALSE] ELSE t.seats[u]]]

\* reset_other_players_acted
ResetOtherPlayersActed(t, s) ==
    [t EXCEPT !.seats = [u \in Seats |->
        IF u \in ActionableSeats(t) \ {s}
        THEN [t.seats[u] EXCEPT !.acted = FALSE] ELSE t.seats[u]]]

\* raise
Raise(s, total) ==
    LET seat == table.seats[s]
        raised == [table EXCEPT !.betting = RaisedRound(@, total),
                                !.seats[s] = PutIn(@, total - seat.bet)]
    IN  /\ OnTurn(s)
        /\ ~seat.all_in
        /\ CanRaiseTo(table.betting, seat, total)
        /\ Commit(AdvanceTurn(ResetOtherPlayersActed(Acted(raised, s), s)))

-----------------------------------------------------------------------------
(* The relayer's tick.                                                     *)

MayExpire(timer) == IF timer \in Expiring THEN BOOLEAN ELSE {FALSE}

TickShuffle(t, expired) ==
    IF t.shuffle.pending = {} \/ t.shuffle.current = NoSeat THEN AdvanceShuffle(t)
    ELSE IF expired /\ t.timers.shuffle THEN OnShuffleTimeout(t)
    ELSE [t EXCEPT !.timers.shuffle = TRUE]

\* The reveal phase as far as the tokens already in take it.
Answered(t, ranks) ==
    IF \A a \in DOMAIN t.reveal.asg : t.reveal.asg[a].pending = {}
    THEN CheckRevealPhaseComplete(t, ranks) ELSE t

\* Mutation of RevealTimed: the reveal timer is never started.
RevealTimedNever(t, expired) ==
    IF t.reveal.phase = "none" \/ ~t.ok THEN t
    ELSE IF expired /\ t.timers.reveal THEN OnRevealTimeout(t) ELSE t

RevealTimed(t, expired) ==
    IF t.reveal.phase = "none" \/ ~t.ok THEN t
    ELSE IF expired /\ t.timers.reveal THEN OnRevealTimeout(t)
    ELSE [t EXCEPT !.timers.reveal = TRUE]

\* A phase that completes may be followed at once by another one, whose
\* timer is then handled by this same tick.
TickReveal(t, expired, ranks) == RevealTimed(Answered(t, ranks), expired)

TickReconstruct(t, expired) ==
    IF expired /\ t.timers.reconstruct THEN OnReconstructTimeout(t) ELSE t

TickWaiting(t) ==
    IF CountActiveOccupied(t) >= MinPlayers THEN DoStartHand(t) ELSE t

TickBetting(t, expired) ==
    IF t.turn = NoSeat THEN AdvanceRound(CollectBetsToPot(t))
    ELSE IF expired /\ t.timers.betting THEN DoFold(t, t.turn)
    ELSE [t EXCEPT !.timers.betting = TRUE]

\* The display time may be configured as zero: then it is over at once.
TickShowdown(t, expired, ranks) ==
    LET started == [t EXCEPT !.timers.showdown = TRUE]
    IN  IF expired THEN SettleHand(started, ranks) ELSE started

\* tick; the phases in the order the code looks at them.
Ticked(t, expired, ranks) ==
    CASE t.reconstruct.phase # "none" -> TickReconstruct(t, expired)
      [] t.reconstruct.phase = "none" /\ t.shuffle.phase # "none" ->
            TickShuffle(t, expired)
      [] t.reconstruct.phase = "none" /\ t.shuffle.phase = "none"
            /\ t.reveal.phase # "none" -> TickReveal(t, expired, ranks)
      [] ~IsPlaying(t) -> TickWaiting(t)
      [] OTHER ->
            IF IsBettingRound(t) THEN TickBetting(t, expired)
            ELSE IF t.round = "showdown" THEN TickShowdown(t, expired, ranks)
            ELSE ResetForNextHand(RefundAllBets(t))

\* The timer the next tick looks at.
TimerAwaited(t) ==
    CASE t.reconstruct.phase # "none" -> "reconstruct"
      [] t.reconstruct.phase = "none" /\ t.shuffle.phase # "none" -> "shuffle"
      [] t.reconstruct.phase = "none" /\ t.shuffle.phase = "none"
            /\ t.reveal.phase # "none" -> "reveal"
      [] OTHER -> IF IsBettingRound(t) THEN "betting" ELSE "showdown"

Tick(expired, ranks) == Commit(Ticked(table, expired, ranks))

-----------------------------------------------------------------------------
(* Entry points that cut in: auto_fold, force_fold and kick_player.        *)

\* auto_fold: anyone may call it once the betting timer has run out.
AutoFold(s) ==
    /\ IsBettingRound(table)
    /\ table.turn = s
    /\ table.timers.betting
    /\ "betting" \in Expiring
    /\ Commit(DoFold(table, s))

\* force_fold
ForceFold(s) == OnTurn(s) /\ Commit(DoFold(table, s))

\* kick_player
KickPlayer(s) == Commit(KickPlayerInternal(table, s))

-----------------------------------------------------------------------------
Join ==
    /\ "join" \in Calls
    /\ \E p \in Players, s \in Seats, coin \in Coins :
           JoinTable(p, s, coin) \/ JoinAndShuffle(p, s, coin)

Leave ==
    /\ "leave" \in Calls
    /\ \E s \in Seats : LeaveWithProof(s) \/ LeaveTable(s)

\* The lists of assignments a seat may submit tokens for in one call.
Batches(s) ==
    IF Piecemeal THEN SUBSET OwedBy(table, s) ELSE {OwedBy(table, s)}

Protocol ==
    \E s \in Seats :
        \/ SubmitShuffle(s)
        \/ \E S \in Batches(s) : \E blank \in SUBSET S, ranks \in Outcomes :
              SubmitRevealTokens(s, S, blank, ranks)
        \/ SubmitReconstructDeck(s)

Bet ==
    \E s \in Seats :
        \/ Fold(s)
        \/ Check(s)
        \/ Call(s)
        \/ AutoFold(s)
        \/ \E total \in 1 .. table.seats[s].bet + table.seats[s].stack :
              Raise(s, total)

Relay == \E expired \in MayExpire(TimerAwaited(table)), ranks \in Outcomes :
            Tick(expired, ranks)

Admin ==
    /\ "admin" \in Calls
    /\ \E s \in Seats : ForceFold(s) \/ KickPlayer(s)

Next == Join \/ Leave \/ StartHand \/ Protocol \/ Bet \/ Relay \/ Admin

Spec == Init /\ [][Next]_vars
=============================================================================
