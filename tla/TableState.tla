----------------------------- MODULE TableState -----------------------------
(***************************************************************************)
(* The state of one on-chain poker table (src/texas_poker_move/sources/    *)
(* table.move, struct Table) and the read-only helpers every handler is    *)
(* built from.  A table is one record; the handlers of HandFlow and Table  *)
(* are functions from records to records, composed as the Move code        *)
(* composes its calls.                                                     *)
(*                                                                         *)
(* A failed assert aborts the whole Move transaction.  It is modelled by   *)
(* the field ok: a function that would abort returns a record with         *)
(* ok = FALSE, and an action of Table takes effect only when its result    *)
(* has ok = TRUE.                                                          *)
(***************************************************************************)
EXTENDS Integers, Sequences, FiniteSets, FiniteSetsExt

CONSTANTS
    Players,         \* the account addresses that may sit down
    NoPlayer,        \* @0x0, the address of an empty seat
    MaxPlayers,      \* table.max_players
    SmallBlind,
    BigBlind,
    CardsPerPlayer,  \* table_constants::cards_per_player() (2 in the code)
    FlopCards,       \* cards the flop reveals (3 in the code)
    DeckSize,        \* length of deck_state.encrypted (52 in the code)
    Ratio,           \* STACK_TO_SUI_RATIO: MIST in one chip
    MinPlayers       \* table_constants::min_players_to_start() (2)

ASSUME TableAssumption ==
    /\ MaxPlayers \in Nat \ {0}
    /\ SmallBlind \in Nat
    /\ BigBlind \in Nat \ {0} /\ BigBlind >= 2 * SmallBlind
    /\ CardsPerPlayer \in Nat \ {0}
    /\ FlopCards \in Nat \ {0}
    /\ DeckSize \in Nat
    /\ Ratio \in Nat \ {0}
    /\ MinPlayers \in Nat \ {0, 1}
    /\ NoPlayer \notin Players

Seats == 0 .. MaxPlayers - 1

NoSeat == -1          \* option::none() of a seat index
CommunityOwner == -1  \* table_constants::community_card_owner(), MAX_U64

Rounds == {"waiting", "preflop", "flop", "turn", "river", "showdown"}
ShufflePhases == {"none", "before_preflop", "reconstruct"}
RevealPhases == {"none", "preflop", "flop", "turn", "river", "showdown"}
ReconstructPhases == {"none", "collecting"}

EmptySeat ==
    [player |-> NoPlayer, stack |-> 0, bet |-> 0, total_bet |-> 0,
     folded |-> FALSE, all_in |-> FALSE, acted |-> FALSE,
     is_waiting |-> FALSE, left |-> FALSE, refunded |-> FALSE]

InitSeat(player, stack, isWaiting) ==
    [EmptySeat EXCEPT !.player = player, !.stack = stack,
                      !.is_waiting = isWaiting]

NoRound == [open |-> FALSE, current_bet |-> 0, min_raise |-> 0]

EmptyShuffle == [phase |-> "none", current |-> NoSeat,
                 pending |-> {}, completed |-> {}]
EmptyReveal == [phase |-> "none", asg |-> <<>>]
EmptyReconstruct == [phase |-> "none", pending |-> {}, decks |-> {}]

\* Which of the started_at timestamps are non-zero.
NoTimers == [shuffle |-> FALSE, reveal |-> FALSE, betting |-> FALSE,
             reconstruct |-> FALSE, showdown |-> FALSE]

(***************************************************************************)
(* A reveal assignment: a deck index, the seats that still owe a reveal    *)
(* token, whether it is decrypted, and the seat the card was dealt to      *)
(* (dealt_to is the seat the code leaves out of pending_players; it is     *)
(* not stored by the code, which recomputes it in find_hand_card_owner).   *)
(***************************************************************************)
Assignment(card, pending, dealtTo) ==
    [card |-> card, pending |-> pending, decrypted |-> FALSE,
     dealt_to |-> dealtTo]

NewTable ==
    [seats |-> [s \in Seats |-> EmptySeat],
     button |-> 0, pot |-> 0, round |-> "waiting",
     betting |-> NoRound, turn |-> NoSeat,
     shuffle |-> EmptyShuffle, reveal |-> EmptyReveal,
     reconstruct |-> EmptyReconstruct,
     dealt |-> 0, decrypted |-> {}, ready |-> 0, board |-> 0, blanks |-> 0,
     agg |-> [p \in Players |-> 0], timers |-> NoTimers,
     balance |-> 0, ok |-> TRUE]

Abort(t) == [t EXCEPT !.ok = FALSE]

\* assert!(cond): the transaction aborts unless cond holds.
Require(t, cond) == IF cond THEN t ELSE Abort(t)

-----------------------------------------------------------------------------
(* Sets of seats.  The vectors the code builds of them are always in       *)
(* ascending seat order, so a set stands for the vector.                   *)

IsSeatOccupied(seat) == seat.player # NoPlayer /\ ~seat.left

OccupiedSeats(t) == {s \in Seats : IsSeatOccupied(t.seats[s])}

\* get_active_seat_indices: seated and taking part in this hand.
ActiveSeats(t) == {s \in OccupiedSeats(t) : ~t.seats[s].is_waiting}

\* The seats count_active_players counts.
LiveSeats(t) == {s \in ActiveSeats(t) : ~t.seats[s].folded}

\* Seats that may still take a betting action (has_actionable_player).
ActionableSeats(t) == {s \in LiveSeats(t) : ~t.seats[s].all_in}

CountActiveOccupied(t) == Cardinality(ActiveSeats(t))
CountActivePlayers(t) == Cardinality(LiveSeats(t))

\* Mutation of PendingSeats: who has shuffled while joining shuffles again.
PendingSeatsAll(t) == ActiveSeats(t)

\* get_pending_seat_indices
PendingSeats(t) == ActiveSeats(t) \ t.shuffle.completed

\* The first member of S met going round the table from the seat after from.
NextAround(S, from) ==
    LET Distance(s) == (s - from - 1) % MaxPlayers
    IN  CHOOSE s \in S : \A u \in S : Distance(s) <= Distance(u)

\* Mutations of FindNextActiveSeat: all-in players get the turn, or the search
\* begins at the seat itself.
FindNextActiveSeatAllIn(t, from) ==
    IF LiveSeats(t) = {} THEN NoSeat ELSE NextAround(LiveSeats(t), from)
FindNextActiveSeatHere(t, from) ==
    IF ActionableSeats(t) = {} THEN NoSeat
    ELSE NextAround(ActionableSeats(t), from - 1)

\* find_next_active_seat; the code aborts when there is none.
FindNextActiveSeat(t, from) ==
    IF ActionableSeats(t) = {} THEN NoSeat
    ELSE NextAround(ActionableSeats(t), from)

IsPlayerSeated(t, player) == \E s \in OccupiedSeats(t) : t.seats[s].player = player

IsBettingRound(t) ==
    t.betting.open /\ t.round \in {"preflop", "flop", "turn", "river"}

IsPlaying(t) ==
    \/ t.round # "waiting"
    \/ t.shuffle.phase # "none"
    \/ t.reveal.phase # "none"
    \/ t.reconstruct.phase # "none"

-----------------------------------------------------------------------------
(* Sums over the seats.                                                    *)

TotalStack(t) == MapThenSumSet(LAMBDA s : t.seats[s].stack, Seats)
TotalBet(t) == MapThenSumSet(LAMBDA s : t.seats[s].bet, Seats)

\* Seats whose total_bet extract_betting_state reads: seated or kicked.
TotalContribution(t) ==
    MapThenSumSet(LAMBDA s : t.seats[s].total_bet,
                  {s \in Seats : t.seats[s].player # NoPlayer})

-----------------------------------------------------------------------------
(* Money and keys.                                                         *)

\* refund_sui_to_player; Balance::split aborts on an insufficient balance.
RefundSui(t, chips) ==
    Require([t EXCEPT !.balance = @ - chips * Ratio],
            t.balance >= chips * Ratio)

\* add_pk_to_aggregated / remove_pk_from_aggregated.  A player has one key
\* pair, so the aggregated key is how often each player's key is in the sum.
AddPk(t, player) == [t EXCEPT !.agg[player] = @ + 1]
RemovePk(t, player) == [t EXCEPT !.agg[player] = @ - 1]

=============================================================================
