------------------------------- MODULE Betting -------------------------------
(***************************************************************************)
(* A betting round (src/texas_poker_move/sources/betting.move): what a     *)
(* player owes, which actions are open, and how call and raise move the    *)
(* round and the player's chips.  last_raiser_seat and actions_taken are   *)
(* left out: nothing in the program reads them to decide a step.           *)
(***************************************************************************)
EXTENDS Integers

NewPreflop(bigBlind) ==
    [open |-> TRUE, current_bet |-> bigBlind, min_raise |-> bigBlind]

NewPostflop(bigBlind) ==
    [open |-> TRUE, current_bet |-> 0, min_raise |-> bigBlind]

ChipsToCall(round, bet) ==
    IF round.current_bet > bet THEN round.current_bet - bet ELSE 0

\* Mutation of CanCheck: who has put in something may check.
CanCheckOnceIn(round, bet) == bet > 0 \/ ChipsToCall(round, bet) = 0

CanCheck(round, bet) == ChipsToCall(round, bet) = 0

\* process_call aborts when there is nothing to call.
CanCall(round, bet) == ChipsToCall(round, bet) > 0

\* Mutation of CallAmount: what is owed, whatever the stack.
CallAmountUncapped(round, seat) == ChipsToCall(round, seat.bet)

\* The chips process_call takes: what is owed, or the whole stack.
CallAmount(round, seat) ==
    LET toCall == ChipsToCall(round, seat.bet)
    IN  IF toCall > seat.stack THEN seat.stack ELSE toCall

\* The asserts of process_raise.  A raise that takes the whole stack may be
\* smaller than min_raise.
CanRaiseTo(round, seat, total) ==
    /\ total > round.current_bet
    /\ total > seat.bet
    /\ total - seat.bet <= seat.stack
    /\ \/ total - seat.bet = seat.stack
       \/ total - round.current_bet >= round.min_raise

\* Mutation of RaisedRound: a short all-in leaves current_bet alone too.
RaisedRoundShortKept(round, total) ==
    LET size == total - round.current_bet
    IN  IF size < round.min_raise THEN round
        ELSE [round EXCEPT !.current_bet = total, !.min_raise = size]

\* A short all-in moves current_bet and leaves min_raise alone.
RaisedRound(round, total) ==
    LET size == total - round.current_bet
    IN  [round EXCEPT !.current_bet = total,
                      !.min_raise = IF size >= round.min_raise THEN size ELSE @]

\* Mutation of PutIn: the whole bet added again.
PutInBetAgain(seat, amount) ==
    [seat EXCEPT !.stack = @ - amount, !.bet = @ + amount,
                 !.total_bet = @ + seat.bet + amount,
                 !.all_in = IF seat.stack = amount THEN TRUE ELSE @]

\* Chips go from the stack into the bet; an empty stack is all-in.
PutIn(seat, amount) ==
    [seat EXCEPT !.stack = @ - amount,
                 !.bet = @ + amount,
                 !.total_bet = @ + amount,
                 !.all_in = IF seat.stack = amount THEN TRUE ELSE @]
=============================================================================
