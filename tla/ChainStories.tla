----------------------------- MODULE ChainStories -----------------------------
(***************************************************************************)
(* Histories of one chain table as the game server is told of them: the    *)
(* events of each transaction, in the contract's order, and what the table *)
(* answers afterwards.  They are played by the contract's own functions    *)
(* (HandFlow), so that every snapshot is one the chain can give.           *)
(***************************************************************************)
EXTENDS Integers, Sequences, FiniteSets

LOCAL INSTANCE SequencesExt

CONSTANTS MaxPlayers, MinBet

Chain == INSTANCE HandFlow WITH
    Players <- {"p1", "p2", "p3"}, NoPlayer <- "nobody", MaxPlayers <- MaxPlayers,
    SmallBlind <- MinBet, BigBlind <- 2 * MinBet, CardsPerPlayer <- 2,
    FlopCards <- 3, DeckSize <- 20, Ratio <- 1, MinPlayers <- 2

-----------------------------------------------------------------------------
(* What get_table_summary_v2 answers about a contract table.               *)

RoundName == [waiting |-> "Waiting", preflop |-> "PreFlop", flop |-> "Flop",
              turn |-> "Turn", river |-> "River", showdown |-> "Showdown"]
PhaseNumber == [none |-> 0, preflop |-> 1, flop |-> 3, turn |-> 4, river |-> 5,
                showdown |-> 6]

\* The contract and the copy of it count seats from 0; here they are 1, 2, ...
Here(S) == {s + 1 : s \in S}

Summary(t) ==
    [round |-> RoundName[t.round], turn |-> t.turn + 1, button |-> t.button + 1,
     pot |-> t.pot, call |-> t.betting.current_bet, betting |-> t.betting.open,
     meta |-> [occupied |-> Here(Chain!OccupiedSeats(t)),
               players |-> Here({s \in Chain!Seats : t.seats[s].player # "nobody"}),
               pks |-> Here(Chain!OccupiedSeats(t)),
               seat |-> [p \in 1..MaxPlayers |->
                   LET seat == t.seats[p - 1]
                   IN  [stack |-> seat.stack, bet |-> seat.bet, total |-> seat.total_bet,
                        folded |-> seat.folded, waiting |-> seat.is_waiting]]],
     shuffle |-> [current |-> t.shuffle.current + 1, pending |-> Here(t.shuffle.pending),
                  completed |-> Here(t.shuffle.completed)],
     reveal |-> PhaseNumber[t.reveal.phase], dealt |-> t.dealt,
     reconstruct |-> [active |-> t.reconstruct.phase # "none",
                      pending |-> Here(t.reconstruct.pending),
                      completed |-> Here(t.reconstruct.decks)]]

-----------------------------------------------------------------------------
(* Contract transactions: the table after one, and the events it emits.    *)

Name == <<"p1", "p2", "p3">>

JoinAndShuffle(t, s, stack) ==
    [Chain!AddPk(t, Name[s + 1]) EXCEPT
        !.seats[s] = Chain!InitSeat(Name[s + 1], stack, FALSE), !.balance = @ + stack,
        !.shuffle.completed = @ \cup {s}]

LeaveWithProof(t, s) ==
    [Chain!RefundSui(Chain!RemovePk(t, Name[s + 1]), t.seats[s].stack) EXCEPT
        !.seats[s] = Chain!EmptySeat, !.shuffle.completed = @ \ {s}]

\* Seat s hands in every token it owes.
Tokens(t, s) ==
    LET asg == t.reveal.asg
        done == {a \in DOMAIN asg : asg[a].pending = {s}}
        handed == [t EXCEPT !.reveal.asg = [a \in DOMAIN asg |->
                     [asg[a] EXCEPT !.pending = @ \ {s},
                                    !.decrypted = @ \/ a \in done]]]
        open(a) == [card |-> asg[a].card, owner |-> asg[a].dealt_to, plain |-> FALSE,
                    dealt_to |-> asg[a].dealt_to]
    IN  Chain!CheckRevealPhaseComplete(
            CASE t.reveal.phase = "preflop" ->
                    [handed EXCEPT !.decrypted = @ \cup {open(a) : a \in done}]
              [] t.reveal.phase = "showdown" ->
                    [handed EXCEPT !.decrypted = {[d EXCEPT !.plain = @ \/
                        d.card \in {asg[a].card : a \in done}] : d \in t.decrypted}]
              [] OTHER -> [handed EXCEPT !.ready = @ + Cardinality(done)],
            [s0 \in Chain!Seats |-> s0 + 1])

\* The seat on turn pays what it takes to call, or its whole stack.
PayIn(t, s, amount) ==
    [t EXCEPT !.seats[s] = [@ EXCEPT !.stack = @ - amount, !.bet = @ + amount,
                                     !.total_bet = @ + amount, !.acted = TRUE,
                                     !.all_in = (t.seats[s].stack = amount)]]
CallBet(t, s) == Chain!AdvanceTurn(PayIn(t, s, t.betting.current_bet - t.seats[s].bet))
Shove(t, s) ==
    LET paid == PayIn([t EXCEPT !.betting.current_bet = t.seats[s].bet + t.seats[s].stack],
                      s, t.seats[s].stack)
    IN  Chain!AdvanceTurn([paid EXCEPT !.seats = [u \in Chain!Seats |->
            IF u = s THEN @[u] ELSE [@[u] EXCEPT !.acted = FALSE]]])

Submit(t, s) ==
    LET in == [t EXCEPT !.reconstruct.pending = @ \ {s}, !.reconstruct.decks = @ \cup {s}]
    IN  IF in.reconstruct.pending = {} THEN Chain!OnCompleteReconstruct(in) ELSE in

Shuffle(t, s) == Chain!AdvanceShuffle(
    [t EXCEPT !.shuffle.completed = @ \cup {s}, !.shuffle.pending = @ \ {s}])

\* A call is what is called, by whom, and with how many chips.
By(s, name) == [name |-> name, seat |-> s, chips |-> 0]
Sits(s, chips) == [name |-> "join", seat |-> s, chips |-> chips]

Do(t, call) ==
    CASE call.name = "join" -> JoinAndShuffle(t, call.seat, call.chips)
      [] call.name = "leave" -> LeaveWithProof(t, call.seat)
      [] call.name = "start" -> Chain!DoStartHand(t)
      [] call.name = "tokens" -> Tokens(t, call.seat)
      [] call.name = "fold" -> Chain!DoFold(t, t.turn)
      [] call.name = "call" -> CallBet(t, t.turn)
      [] call.name = "shove" -> Shove(t, t.turn)
      [] call.name = "late" -> Chain!OnRevealTimeout(t)
      [] call.name = "kick" -> Chain!KickPlayerInternal(t, call.seat)
      [] call.name = "deck" -> Submit(t, call.seat)
      [] call.name = "shuffle" -> Shuffle(t, call.seat)

-----------------------------------------------------------------------------
(* Events.  Their fields are those of one record; seats are the server's   *)
(* numbers; `t` and `u` are the table before and after.                    *)

Event(name, p) == [name |-> name, seat |-> p, round |-> "Waiting", amount |-> 0,
                   waiting |-> FALSE, other |-> 0, turn |-> 0, phase |-> 0]

Emit(told, t, u) ==
    LET e == Event(told.name, told.seat)
        s == told.seat - 1
    IN  CASE told.name = "PlayerJoined" -> [e EXCEPT !.amount = u.seats[s].stack]
          [] told.name = "PlayerRefund" -> [e EXCEPT !.amount = t.seats[s].stack]
          [] told.name \in {"PlayerFolded", "PlayerAllIn"} ->
                [e EXCEPT !.seat = t.turn + 1, !.round = RoundName[t.round]]
          [] told.name = "HandEndedWithoutShowdown" ->
                [e EXCEPT !.seat = 2 - t.turn, !.amount = t.pot]
          [] told.name = "BlindsPosted" ->
                [e EXCEPT !.seat = u.button + 1, !.other = IF u.button = 0 THEN 2 ELSE 1,
                          !.turn = u.turn + 1]
          [] told.name = "CurrentTurnChanged" -> [e EXCEPT !.turn = u.turn + 1]
          [] told.name = "RevealPhaseEvt" -> [e EXCEPT !.phase = PhaseNumber[u.reveal.phase]]
          [] OTHER -> e

-----------------------------------------------------------------------------
(* A script is a sequence of transactions: what is called, and what is     *)
(* told of it.                                                             *)

Told(name) == [name |-> name, seat |-> 0]
ToldOf(name, p) == [name |-> name, seat |-> p]
Tx(calls, told) == [calls |-> calls, told |-> told]

TableAfter(script, i) ==
    FoldLeft(Do, Chain!NewTable, FlattenSeq([k \in 1..i |-> script[k].calls]))

Played(script) ==
    [i \in 1..Len(script) |->
        LET before == TableAfter(script, i - 1)
            after == TableAfter(script, i)
            events(t, u) == [j \in 1..Len(script[i].told) |-> Emit(script[i].told[j], t, u)]
            told(t, u) == [events |-> events(t, u), after |-> Summary(u)]
        IN  told(before, after)]

Two == <<Sits(0, 4), Sits(1, 4)>>
Three == Two \o <<Sits(2, 4)>>
Tokens2 == <<By(0, "tokens"), By(1, "tokens")>>
Started == <<By(0, "start")>>

\* A join, and the same player leaving again.
Visit == << Tx(Two, <<>>),
            Tx(<<Sits(2, 3)>>, <<ToldOf("PlayerJoined", 3)>>),
            Tx(<<By(2, "leave")>>, <<ToldOf("PlayerRefund", 3), ToldOf("PlayerLeft", 3)>>) >>

\* The hole cards are opened and the first to act folds.
Fold == << Tx(Two \o Started, <<>>),
           Tx(<<By(0, "tokens")>>, <<ToldOf("RevealTokenSubmitted", 1)>>),
           Tx(<<By(1, "tokens")>>, <<ToldOf("RevealTokenSubmitted", 2),
                                     Told("RevealPhaseComplete"), Told("BlindsPosted")>>),
           Tx(<<By(0, "fold")>>, <<Told("PlayerFolded"), Told("HandEndedWithoutShowdown")>>) >>

\* Everybody in before the flop: the board is revealed phase after phase.
Open == Two \o Started \o Tokens2
AllIn == << Tx(Open \o <<By(0, "shove")>>, <<>>),
            Tx(<<By(0, "call")>>, <<Told("PlayerAllIn"), Told("RevealPhaseEvt")>>),
            Tx(<<By(0, "tokens")>>, <<ToldOf("RevealTokenSubmitted", 1)>>),
            Tx(<<By(1, "tokens")>>, <<ToldOf("RevealTokenSubmitted", 2),
                                      Told("RevealPhaseComplete"), Told("RevealPhaseEvt")>>) >>

\* The showdown of such a hand.
RunOut == Open \o <<By(0, "shove"), By(0, "call")>>
Settle == << Tx(RunOut \o Tokens2 \o Tokens2, <<>>),
             Tx(Tokens2, <<Told("RevealPhaseEvt")>>),
             Tx(Tokens2, <<Told("HandSettled")>>) >>

\* Three players; one does not answer and is kicked before the flop is open,
\* the others reconstruct the deck and shuffle it.
AtFlop == Three \o Started \o Tokens2 \o <<By(2, "tokens")>>
          \o <<By(0, "call"), By(0, "call"), By(0, "call")>>
Kick == << Tx(AtFlop \o Tokens2, <<>>),
           Tx(<<By(2, "late")>>, <<ToldOf("PlayerRefund", 3), ToldOf("PlayerKicked", 3)>>),
           Tx(<<By(0, "deck")>>, <<>>),
           Tx(<<By(1, "deck")>>, <<ToldOf("ShuffleTurn", 1)>>),
           Tx(<<By(0, "shuffle")>>, <<ToldOf("ShuffleVerified", 1), ToldOf("ShuffleTurn", 2)>>) >>

\* A kick that ends the hand.
Reset == << Tx(Open, <<>>),
            Tx(<<By(0, "kick")>>, <<ToldOf("PlayerRefund", 1), ToldOf("PlayerKicked", 1),
                                    Told("HandReset"), Told("CurrentTurnChanged")>>) >>

Scripts == {Visit, Fold, AllIn, Settle, Kick, Reset}
AllStories == {Played(script) : script \in Scripts}

\* No transaction of the histories aborted.
StoriesAreLegal == \A script \in Scripts : TableAfter(script, Len(script)).ok
=============================================================================
