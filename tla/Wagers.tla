-------------------------------- MODULE Wagers --------------------------------
(***************************************************************************)
(* What the betting of table.move promises, for any set of seats: the      *)
(* abstract specification the Table is checked against.  It keeps what     *)
(* fold, check, call, raise, post_blinds, start_betting_round and a kick   *)
(* do to the bets, and leaves open whose turn it is, how the cards are     *)
(* shuffled and revealed between two streets, and who wins the pot.        *)
(***************************************************************************)
EXTENDS Betting

CONSTANTS
    Seats,
    Stacks,      \* the stacks a player may begin a hand with
    SmallBlind,
    BigBlind

ASSUME WagersAssumption ==
    /\ Stacks \subseteq Nat \ {0}
    /\ SmallBlind \in Nat
    /\ BigBlind \in Nat
    /\ SmallBlind <= BigBlind

VARIABLES
    hand,   \* whether a hand is being played for (blinds posted, not paid out)
    round,  \* the betting round
    seat    \* what each seat has, has bet, and may still do

vars == <<hand, round, seat>>

Closed == [open |-> FALSE, current_bet |-> 0, min_raise |-> 0]

\* A seat without a player in this hand.
Out == [playing |-> FALSE, stack |-> 0, bet |-> 0, total_bet |-> 0,
        folded |-> FALSE, all_in |-> FALSE, acted |-> FALSE]

Dealt(stack) == [Out EXCEPT !.playing = TRUE, !.stack = stack]

\* Who may sit with how much while no hand is being bet on.
Seatings == [Seats -> {Out} \cup {Dealt(stack) : stack \in Stacks}]

Live(seats) == {s \in Seats : seats[s].playing /\ ~seats[s].folded}
Actionable(seats) == {s \in Live(seats) : ~seats[s].all_in}

AtMostOneLive(seats) == \A s, u \in Live(seats) : s = u

IsBettingComplete(r, seats) ==
    \A s \in Actionable(seats) : seats[s].acted /\ seats[s].bet >= r.current_bet

Collected(seats) == [s \in Seats |-> [seats[s] EXCEPT !.bet = 0]]

-----------------------------------------------------------------------------
Init == hand = FALSE /\ round = Closed /\ seat \in Seatings

StayOpen(r, seats) == hand' = TRUE /\ round' = r /\ seat' = seats

CloseStreet(r, seats) ==
    /\ IsBettingComplete(r, seats)
    /\ hand' = TRUE
    /\ round' = Closed
    /\ seat' = Collected(seats)

\* advance_turn, and a street with nobody left to act: the bets are
\* collected as soon as everybody who can act has acted and matched.
Proceed(r, seats) ==
    \/ ~IsBettingComplete(r, seats) /\ StayOpen(r, seats)
    \/ CloseStreet(r, seats)

HandOver == hand' = FALSE /\ round' = Closed /\ seat' \in Seatings

\* Between two hands players join, leave and are kicked.
Reseat == ~hand /\ HandOver

\* A blind is put in as far as the stack goes.
Blinded(s, blind) ==
    PutIn(s, IF s.stack < blind THEN s.stack ELSE blind)

\* post_blinds and start_betting_round.  A blind that falls to a seat without
\* a player in the hand is posted by nobody.
BeginHand(small, big) ==
    LET posted(s) == IF s = big THEN Blinded(seat[s], BigBlind)
                     ELSE IF s = small THEN Blinded(seat[s], SmallBlind)
                     ELSE seat[s]
    IN  /\ ~hand
        /\ Proceed(NewPreflop(BigBlind),
                   [s \in Seats |-> IF seat[s].playing THEN posted(s) ELSE seat[s]])

\* start_betting_round on the flop and later.
OpenStreet ==
    /\ hand
    /\ ~round.open
    /\ Proceed(NewPostflop(BigBlind),
               [s \in Seats |-> [seat[s] EXCEPT !.acted = FALSE]])

CanFold(s) == hand /\ round.open /\ s \in Live(seat)
CanAct(s) == CanFold(s) /\ ~seat[s].all_in

\* fold; also auto_fold, force_fold and the betting timeout
Fold(s) ==
    LET folded == [seat EXCEPT ![s].folded = TRUE, ![s].acted = TRUE]
    IN  /\ CanFold(s)
        /\ IF AtMostOneLive(folded) THEN HandOver ELSE Proceed(round, folded)

\* check
Check(s) ==
    /\ CanAct(s)
    /\ CanCheck(round, seat[s].bet)
    /\ Proceed(round, [seat EXCEPT ![s].acted = TRUE])

\* call
Call(s) ==
    /\ CanAct(s)
    /\ CanCall(round, seat[s].bet)
    /\ Proceed(round, [seat EXCEPT ![s] =
           [PutIn(seat[s], CallAmount(round, seat[s])) EXCEPT !.acted = TRUE]])

\* raise: everybody else who can still act has to act again.
Raised(s, total) ==
    [u \in Seats |->
        IF u = s
        THEN [PutIn(seat[s], total - seat[s].bet) EXCEPT !.acted = TRUE]
        ELSE IF u \in Actionable(seat) THEN [seat[u] EXCEPT !.acted = FALSE]
        ELSE seat[u]]

Raise(s, total) ==
    /\ CanAct(s)
    /\ CanRaiseTo(round, seat[s], total)
    /\ Proceed(RaisedRound(round, total), Raised(s, total))

\* Players kicked by the administrator or by a timeout leave the hand.  Only
\* a kick of the player on turn closes the street.
Kick(S) ==
    LET left == [s \in Seats |-> IF s \in S THEN Out ELSE seat[s]]
    IN  /\ hand
        /\ \/ AtMostOneLive(left) /\ HandOver
           \/ StayOpen(round, left)
           \/ round.open /\ CloseStreet(round, left)

\* The pot is paid out, or every bet is given back.
EndHand == hand /\ ~round.open /\ HandOver

Next ==
    \/ Reseat
    \/ \E small, big \in Seats : BeginHand(small, big)
    \/ OpenStreet
    \/ \E s \in Seats :
          \/ Fold(s)
          \/ Check(s)
          \/ Call(s)
          \/ \E total \in 1 .. seat[s].bet + seat[s].stack : Raise(s, total)
    \/ \E S \in SUBSET Seats : Kick(S)
    \/ EndHand

Spec == Init /\ [][Next]_vars

-----------------------------------------------------------------------------
SeatType ==
    [playing : BOOLEAN, stack : Nat, bet : Nat, total_bet : Nat,
     folded : BOOLEAN, all_in : BOOLEAN, acted : BOOLEAN]

RoundType == [open : BOOLEAN, current_bet : Nat, min_raise : Nat]

\* Every stack and bet stays a natural number: no subtraction of betting.move
\* or of its callers underflows.
TypeOK ==
    /\ hand \in BOOLEAN
    /\ round \in RoundType
    /\ seat \in [Seats -> SeatType]

\* Who has acted since the last raise and can act again has matched the bet:
\* raise makes everybody else act again, and nobody's action falls short.
ActedMatched ==
    \A s \in Actionable(seat) :
        round.open /\ seat[s].acted => seat[s].bet = round.current_bet

\* What a seat put in during the streets that are closed.
Before(s) == seat[s].total_bet - seat[s].bet

\* From the closed streets a player who can still act has put in as much as
\* anybody in the hand: only an all-in takes part for less, which is what
\* the side pots rest on.
CallersCover ==
    \A s \in Actionable(seat), u \in Seats : Before(u) <= Before(s)

\* Within a hand a player's chips only move from the stack into the pot.
BankrollKept ==
    [][hand /\ hand' => \A s \in Seats :
          seat[s].playing /\ seat'[s].playing =>
             seat'[s].stack + seat'[s].total_bet
                = seat[s].stack + seat[s].total_bet]_vars
=============================================================================
