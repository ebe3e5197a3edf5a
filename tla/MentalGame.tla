----------------------------- MODULE MentalGame -----------------------------
(***************************************************************************)
(* The cards of the game server's own table: MentalPokerGame and the       *)
(* clients that mask, shuffle, deal and open an encrypted deck together,   *)
(* through joins, departures, timeouts and rebuilt decks.  Every point is  *)
(* computed: a card opens to what the tokens of its players leave of it.   *)
(*                                                                         *)
(* The clients are honest and may be silent.  A client whose prover gives  *)
(* up panics and sends nothing.  The betting is module LocalTable's: here  *)
(* a street or a hand may end at any moment between two phases, and any of *)
(* its players may have lost everything.  An action is one call of a table *)
(* function, with what its handler does around it; whether a handler finds *)
(* the caller's wallet is module GameLoop's matter.                        *)
(***************************************************************************)
EXTENDS Reconstruction, FiniteSets, FiniteSetsExt, SequencesExt

CONSTANTS Sk,           \* the secret key of each player, who is a number
          Plaintexts,   \* the points that stand for the cards
          HoleCards,    \* cards in a hand
          Streets,      \* cards on the flop, the turn and the river
          Coefficient,  \* what start_reconstruct draws
          Hands,        \* bound: hands the game loop starts
          Surprises     \* bound: departures, timeouts and requests

Players == DOMAIN Sk

ASSUME MentalGameAssumption ==
    /\ Players \subseteq Nat \ {0} /\ Players # {}
    /\ \A p \in Players : Sk[p] \in 1..(Q - 1)
    /\ \A i \in DOMAIN Plaintexts : Plaintexts[i] \in 1..(Q - 1)
    /\ HoleCards \in Nat \ {0} /\ Coefficient \in 2..(Q - 1)

VARIABLES table,  \* the table and its MentalPokerGame
          leaving,\* requests to leave that were read but not carried out
          gone,   \* players that left; they do not come back
          hands,  \* hands started
          spent   \* surprises spent

vars == <<table, leaving, gone, hands, spent>>

Pk(p) == Mul(G, Sk[p])
NoCard == 0
Mixed == 0   \* in table.masked: decks of the players' own, or a deck that was
             \* shuffled under other keys than it was under

NoShuffle == [phase |-> "None", pending |-> {}, completed |-> {}]
NoReveal == [phase |-> "None", pending |-> {}, asked |-> <<>>]
NoRebuild == [active |-> FALSE, pending |-> {}, decks |-> <<>>, readable |-> <<>>]

TrivialDeck(c1) == Each(Plaintexts, LAMBDA m : [c1 |-> c1, c2 |-> m])

\* `masked` is no variable of the code: the players whose keys the deck is under.
NewTable ==
    [players |-> {}, agg |-> Identity, deck |-> TrivialDeck(G), masked |-> {},
     hand |-> <<>>, board |-> <<>>, deals |-> <<>>, round |-> "Waiting",
     over |-> FALSE, seats |-> {}, joiners |-> {}, out |-> {}, kicked |-> {},
     shuffle |-> NoShuffle,
     reveal |-> NoReveal, rebuild |-> NoRebuild]

Init == table = NewTable /\ leaving = {} /\ gone = {} /\ hands = 0 /\ spent = 0

IsPlaying(t) == t.round # "Waiting"
ShuffleActive(t) == t.shuffle.phase # "None"
RevealActive(t) == t.reveal.phase # "None"
Active(t) == t.seats \ (t.joiners \cup t.out)
Quiet(t) == ~ShuffleActive(t) /\ ~RevealActive(t) /\ ~t.rebuild.active

-----------------------------------------------------------------------------
(* MentalPokerGame: keys, the deck, dealing.                               *)

\* reset: the players keep their keys, the deck is bare again.
ResetGame(t) ==
    [t EXCEPT !.deck = TrivialDeck(G), !.masked = {}, !.board = <<>>,
              !.deals = <<>>, !.hand = [p \in t.players |-> <<>>]]

\* Mutation of RegisterPlayer: the shared key does not grow with the table.
RegisterPlayerUnkeyed(t, p) ==
    [t EXCEPT !.players = @ \cup {p},
              !.agg = Pk(p),
              !.hand = [q \in t.players \cup {p} |-> IF q = p THEN <<>> ELSE @[q]]]

RegisterPlayer(t, p) ==
    [t EXCEPT !.players = @ \cup {p}, !.agg = Add(@, Pk(p)),
              !.hand = [q \in t.players \cup {p} |-> IF q = p THEN <<>> ELSE @[q]]]

\* leave_player: the deals of the player who leaves are no longer counted.
LeavePlayer(t, p) ==
    IF p \notin t.players THEN t
    ELSE [t EXCEPT !.players = @ \ {p}, !.agg = Sub(@, Pk(p)),
                   !.hand = [q \in t.players \ {p} |-> @[q]],
                   !.deals = SelectSeq(@, LAMBDA q : q # p)]

DealNum(t) == Len(t.deals) + Len(t.board)

Card(t, i) == [ct |-> t.deck[i], pending |-> t.players, sum |-> Identity,
               shown |-> NoCard]

\* deal_preflop: one card each, HoleCards times.
DealHands(t) ==
    LET order == SetToSortSeq(t.players, <)
        n == Len(order)
        at(p, i) == DealNum(t) + (i - 1) * n + IndexOf(order, p)
    IN  [t EXCEPT !.hand = [p \in t.players |->
                              @[p] \o [i \in 1..HoleCards |-> Card(t, at(p, i))]],
                  !.deals = @ \o [i \in 1..(n * HoleCards) |-> order[1 + ((i - 1) % n)]]]

DealBoard(t, n) ==
    [t EXCEPT !.board = @ \o [i \in 1..n |-> Card(t, DealNum(t) + i)]]

\* redeal_to_player_unchecked
Redeal(t, p, i) ==
    IF DealNum(t) >= Len(t.deck) THEN t
    ELSE [t EXCEPT !.hand[p][i] = Card(t, DealNum(t) + 1), !.deals = Append(@, p)]

-----------------------------------------------------------------------------
(* Tokens.                                                                 *)

\* plaintext_to_playingcard_static
Face(point) == IF Holds(Plaintexts, point) THEN point ELSE NoCard

\* submit_reveal_token, for one card: the token counts towards every card that
\* still waits for somebody, and its sender waits no longer.
AddToken(card, ct, token, p) ==
    LET now == [card EXCEPT !.sum = Add(@, token), !.pending = @ \ {p}]
    IN  IF card.pending = {} \/ card.ct # ct THEN card
        ELSE IF now.pending = {} THEN [now EXCEPT !.shown = Face(Sub(ct.c2, now.sum))]
        ELSE now

SubmitToken(t, ct, p) ==
    LET add(card) == AddToken(card, ct, Token(ct, Sk[p]), p)
    IN  [t EXCEPT !.hand = [q \in t.players |-> Each(@[q], add)],
                  !.board = Each(@, add)]

\* get_readable_card: only the owner's own share is left on the card.
IsReadable(card, p) == card.pending = {p}
Readable(card) == [card.ct EXCEPT !.c2 = Sub(@, card.sum)]
ReadableCards(t, p) ==
    Each(SelectSeq(t.hand[p], LAMBDA card : IsReadable(card, p)), Readable)

-----------------------------------------------------------------------------
(* Reveal phases.  asked[p] are the cards player p has to send tokens for. *)

Cts(cards) == Each(cards, LAMBDA card : card.ct)
OthersCards(t, p) ==
    FlattenSeq(Each(SetToSortSeq(t.players \ {p}, <), LAMBDA q : Cts(t.hand[q])))

StartReveal(t, phase, asked) ==
    IF RevealActive(t) THEN t
    ELSE [t EXCEPT !.reveal = [phase |-> phase, pending |-> DOMAIN asked, asked |-> asked]]

StartHandReveal(t) ==
    StartReveal(t, "Hand", [p \in t.players |-> OthersCards(t, p)])

StartCommunityReveal(t) ==
    LET closed == Cts(SelectSeq(t.board, LAMBDA card : card.shown = NoCard))
    IN  StartReveal(t, "Community", [p \in t.players |-> closed])

\* `unfolded`: the seats that have not folded, of players still in the game.
StartShowdownReveal(t, unfolded) ==
    StartReveal(t, "Showdown", [p \in unfolded |-> Cts(t.hand[p])])

StartRedealReveal(t, p) ==
    StartReveal(t, "Redeal", [q \in t.players \ {p} |-> Cts(t.hand[p])])

\* The reveal a rebuilt deck has to repeat.
RepeatReveal(t) ==
    CASE t.round = "PreFlop" -> StartHandReveal(t)
      [] t.round \in {"Flop", "Turn", "River"} -> StartCommunityReveal(t)
      [] t.round = "Showdown" -> StartShowdownReveal(t, t.players)
      [] OTHER -> t

\* on_reveal_complete; after the showdown the hand is settled and ends.
OnRevealComplete(t) ==
    [t EXCEPT !.reveal = NoReveal,
              !.round = IF t.reveal.phase = "Showdown" THEN "Waiting" ELSE @,
              !.over = @ \/ t.reveal.phase = "Showdown"]

-----------------------------------------------------------------------------
(* The shuffle.                                                            *)

\* advance_shuffle
AdvanceShuffle(t) ==
    LET done == [t EXCEPT !.shuffle.phase = "None"]
    IN  CASE ~ShuffleActive(t) \/ t.shuffle.pending # {} -> t
          [] t.shuffle.phase = "BeforePreflop" /\ t.shuffle.pending = {} ->
                StartHandReveal([(IF Cardinality(Active(t)) > 1
                                  THEN DealHands(done) ELSE done)
                                 EXCEPT !.round = "PreFlop"])
          [] t.shuffle.phase = "Reconstruct" /\ t.shuffle.pending = {} ->
                RepeatReveal([done EXCEPT !.rebuild = NoRebuild, !.reveal = NoReveal])

\* start_hand: who sits out or has lost its seat leaves the game, its share of
\* the deck included; waiting joiners get a key; whoever did not shuffle has to.
StartHand(t) ==
    LET kept == FoldSet(LAMBDA p, acc : LeavePlayer(acc, p), t, t.players \ Active(t))
        here == FoldSet(LAMBDA p, acc : RegisterPlayer(acc, p), kept,
                        t.joiners \cap t.seats)
    IN  IF IsPlaying(t) \/ Cardinality(Active(t)) < 2 THEN t
        ELSE AdvanceShuffle([here EXCEPT
                 !.joiners = {},
                 !.shuffle = [phase |-> "BeforePreflop",
                              pending |-> here.players \ t.shuffle.completed,
                              completed |-> t.shuffle.completed]])

StartShuffle(t) == IF ShuffleActive(t) THEN t ELSE StartHand(t)

\* submit_verified_shuffle_for_pk
ShuffledBy(t, p) ==
    LET in == [t EXCEPT !.shuffle.pending = @ \ {p}, !.shuffle.completed = @ \cup {p}]
    IN  IF Cardinality(in.shuffle.completed) >= 2 THEN AdvanceShuffle(in) ELSE in

\* complete_or_continue_next_shuffler, after somebody joined.
SkipIfShuffled(t) ==
    IF t.shuffle.pending = {} /\ Cardinality(t.shuffle.completed) >= 2
    THEN [t EXCEPT !.shuffle.phase = "None"] ELSE t

Reshuffle(t, phase) ==
    AdvanceShuffle([t EXCEPT !.shuffle = [phase |-> phase, pending |-> t.players,
                                          completed |-> {}]])

\* rebuild_deck_and_shuffle
BareDeck(t) == [t EXCEPT !.deck = TrivialDeck(Identity), !.masked = {}]

\* The deck made of the decks the players sent in.
SumDecks(t) ==
    LET add(i, acc, p) == LET card == t.rebuild.decks[p][i]
                          IN  [c1 |-> Add(acc.c1, card.c1),
                               c2 |-> Add(acc.c2, Sub(card.c2, Plaintexts[i]))]
    IN  [t EXCEPT !.masked = {Mixed},
                  !.deck = [i \in DOMAIN Plaintexts |->
                              FoldSet(LAMBDA p, acc : add(i, acc, p),
                                      [c1 |-> Identity, c2 |-> Plaintexts[i]],
                                      DOMAIN t.rebuild.decks)]]

-----------------------------------------------------------------------------
(* Leaving, being removed, running out of time.                            *)

\* reset_for_next_hand: seats without chips, and with them every seat whose
\* player was kicked, are cleared.
ResetForNextHand(t) ==
    [ResetGame(t) EXCEPT !.round = "Waiting", !.over = FALSE,
                         !.seats = @ \ t.kicked, !.out = @ \ t.kicked, !.kicked = {},
                         !.shuffle = NoShuffle, !.reveal = NoReveal,
                         !.rebuild = NoRebuild]

EndHand(t) == [t EXCEPT !.round = "Waiting", !.over = TRUE]

StrikeOff(t, p) ==
    [LeavePlayer(t, p) EXCEPT
        !.kicked = @ \cup {p}, !.joiners = @ \ {p},
        !.shuffle.pending = @ \ {p}, !.shuffle.completed = @ \ {p},
        !.reveal.pending = @ \ {p},
        !.reveal.asked = [q \in DOMAIN @ \ {p} |-> @[q]],
        !.rebuild = IF @.active
                    THEN [@ EXCEPT !.pending = @ \ {p},
                                   !.decks = [q \in DOMAIN @ \ {p} |-> @[q]]]
                    ELSE @]

\* kick_player_internal moves the shuffle on and keeps the seat until the hand
\* is over; between hands the seat goes at once, and the last one
\* to go leaves a new deck behind.
RemovePlayer(t, p) ==
    LET struck == StrikeOff(t, p)
        off == IF p \in t.shuffle.pending THEN AdvanceShuffle(struck) ELSE struck
        up == [LeavePlayer(t, p) EXCEPT !.seats = @ \ {p}, !.joiners = @ \ {p},
                                        !.out = @ \ {p}]
        out == IF up.seats = {} THEN ResetGame(up) ELSE up
    IN  IF ~IsPlaying(t) THEN out
        ELSE IF Cardinality(Active(off)) < 2 THEN ResetForNextHand(off)
        ELSE off

RemoveAll(t, S) == FoldSet(LAMBDA p, acc : RemovePlayer(acc, p), t, S)

\* How every timeout ends that leaves at most one seat active.
EndIfDeserted(t, otherwise) ==
    CASE Active(t) = {} -> ResetForNextHand(t)
      [] Cardinality(Active(t)) = 1 -> EndHand(t)
      [] OTHER -> otherwise

OnShuffleTimeout(t, p) ==
    LET out == RemovePlayer(t, p)
        rest == [out EXCEPT !.shuffle.pending = @ \ {p}]
        kept == [rest EXCEPT !.rebuild.decks = [q \in DOMAIN @ \ {p} |-> @[q]]]
    IN  IF t.shuffle.phase # "BeforePreflop" /\ ~IsPlaying(rest) THEN rest
        ELSE EndIfDeserted(rest,
                IF ~ShuffleActive(rest) THEN rest
                ELSE IF t.shuffle.phase = "BeforePreflop"
                THEN Reshuffle(BareDeck(rest), "BeforePreflop")
                ELSE Reshuffle(SumDecks(kept), "Reconstruct"))

StartReconstruct(t) ==
    IF t.rebuild.active THEN t
    ELSE [t EXCEPT !.masked = {Mixed},
                   !.rebuild = [active |-> TRUE, pending |-> t.players,
                                decks |-> <<>>,
                                readable |-> [p \in t.players |-> ReadableCards(t, p)]]]

OnRevealTimeout(t) ==
    LET rest == RemoveAll(t, t.reveal.pending)
    IN  IF ~IsPlaying(rest) THEN rest
        ELSE EndIfDeserted(rest, IF t.round = "PreFlop" THEN ResetForNextHand(rest)
                                 ELSE StartReconstruct(rest))

\* on_complete_reconstruct keeps the decks: a failed shuffle starts from them.
OnCompleteReconstruct(t) ==
    Reshuffle([SumDecks(t) EXCEPT !.rebuild = [@ EXCEPT !.active = FALSE,
                                                        !.pending = {},
                                                        !.readable = <<>>]],
              "Reconstruct")

OnReconstructTimeout(t) ==
    LET rest == RemoveAll(t, t.rebuild.pending)
    IN  CASE Cardinality(Active(rest)) <= 1 -> EndIfDeserted(rest, rest)
          [] Cardinality(Active(rest)) > 1 /\ ~IsPlaying(rest) -> rest
          [] Cardinality(Active(rest)) > 1 /\ IsPlaying(rest) ->
                OnCompleteReconstruct(rest)

-----------------------------------------------------------------------------
(* What an honest client sends, and what the server makes of it.           *)

\* The order a client puts the cards in, and the randomness it adds to each.
Permute(p) == [j \in DOMAIN Plaintexts |->
                  1 + ((j + p - 1) % Len(Plaintexts))]
Turned(deck, p, pk) ==
    LET r == Randoms(p, Len(deck))
    IN  [j \in 1..Len(deck) |-> ReEncrypt(deck[Permute(p)[j]], pk, r[j])]

ShuffleProof(input, p, pk, t0) ==
    ProveShuffle(input, Turned(input, p, pk), Permute(p), Randoms(p, Len(input)),
                 pk, t0, p)

\* join_game_and_shuffle: the client's own share goes onto every card, then the
\* cards are shuffled under the key that has the client's in it.  Both proofs
\* share a transcript.
SharePk(t, p) == Add(t.agg, Pk(p))
Masked(t, p) == Each(t.deck, LAMBDA ct : Remask(ct, Sk[p]))

JoinRound(t, p) ==
    LET masked == Masked(t, p)
        remask == ProveDLEq("Remask", t.deck, masked, Sk[p], Pk(p), 2, p)
        shuffle == ShuffleProof(masked, p, SharePk(t, p), remask.t)
    IN  [ok |-> Maskable(t.deck) /\ shuffle.ok,
         masked |-> masked, output |-> Turned(masked, p, SharePk(t, p)),
         pk |-> ProvePk(Sk[p], Pk(p), p), remask |-> remask, shuffle |-> shuffle]

JoinAccepted(t, p, round) ==
    LET remask == VerifyDLEq("Remask", round.remask, t.deck, round.masked, Pk(p), 2)
    IN  /\ VerifyPk(round.pk, Pk(p))
        /\ remask.ok
        /\ VerifyShuffle(round.shuffle, round.masked, round.output, SharePk(t, p),
                         remask.t)

ShuffleRound(t, p) == ShuffleProof(t.deck, p, t.agg, 1)
ShuffleAccepted(t, p, proof) ==
    VerifyShuffle(proof, t.deck, Turned(t.deck, p, t.agg), t.agg, 1)

TokenAccepted(p, ct) ==
    VerifyReveal(ProveReveal(Sk[p], Pk(p), ct, 3, p), ct, Token(ct, Sk[p]), Pk(p), 3)

Unmasked(t, p) == Each(t.deck, LAMBDA ct : Unmask(ct, Sk[p]))
LeaveAccepted(t, p) ==
    VerifyDLEq("Leave", ProveDLEq("Leave", t.deck, Unmasked(t, p), Sk[p], Pk(p), 4, p),
               t.deck, Unmasked(t, p), Pk(p), 4).ok

RebuildRound(t, p) ==
    LET readable == t.rebuild.readable[p]
        made == ReconstructDeck(Plaintexts, readable, Sk[p], Pk(p), Coefficient)
    IN  IF ~made.ok THEN Refused
        ELSE LET proof == ProveReconstruct(Plaintexts, readable, made, Sk[p], Pk(p), 5, p)
             IN  [ok |-> proof.ok, made |-> made, proof |-> proof]

RebuildAccepted(t, p, round) ==
    VerifyReconstruct(round.proof, Plaintexts, round.made.output, round.made.swaps,
                      t.rebuild.readable[p], Pk(p), 5)

-----------------------------------------------------------------------------
(* Actions.                                                                *)

Step(t) == table' = t /\ UNCHANGED <<leaving, gone, hands, spent>>
Surprise == spent < Surprises /\ spent' = spent + 1
Away(t) == gone' = gone \cup (table.seats \ t.seats) \cup (table.players \ t.players)

Under(t) == IF t.masked = t.players THEN t.masked ELSE {Mixed}

MayJoin(p) == /\ p \notin table.seats \cup gone
              /\ ~IsPlaying(table) \/ ShuffleActive(table)

\* join_player_and_shuffle while the cards can still be shuffled ...
JoinWith(p, round) ==
    LET in == [RegisterPlayer(table, p) EXCEPT !.deck = round.output,
                                               !.masked = Under(table) \cup {p},
                                               !.seats = @ \cup {p}]
    IN  /\ round.ok /\ JoinAccepted(table, p, round)
        /\ Step(SkipIfShuffled(
                IF IsPlaying(table) THEN in
                ELSE [in EXCEPT !.shuffle.completed = @ \cup {p},
                                !.shuffle.pending = @ \ {p}]))

Join(p) == MayJoin(p) /\ JoinWith(p, JoinRound(table, p))

\* ... and when it is too late for this hand.
JoinWaiting(p) ==
    /\ p \notin table.seats \cup gone
    /\ IsPlaying(table) /\ ~ShuffleActive(table)
    /\ Step([table EXCEPT !.seats = @ \cup {p}, !.joiners = @ \cup {p}])

\* The game loop: start_shuffle, the phases nobody is left to finish, and the
\* end of the pause between two hands.
Begin ==
    /\ ~table.over /\ ~IsPlaying(table) /\ ~ShuffleActive(table)
    /\ Cardinality(Active(table)) >= 2
    /\ hands < Hands /\ hands' = hands + 1
    /\ table' = StartShuffle(table)
    /\ UNCHANGED <<leaving, gone, spent>>

Proceed ==
    \/ /\ table.rebuild.active /\ table.rebuild.pending = {}
       /\ Step(OnCompleteReconstruct(table))
    \/ /\ ShuffleActive(table) /\ table.shuffle.pending = {}
       /\ Step(AdvanceShuffle(table))
    \/ /\ RevealActive(table) /\ table.reveal.pending = {}
       /\ Step(OnRevealComplete(table))

\* The seats without chips are cleared; the players' keys stay in the game.
NextHand ==
    /\ table.over /\ ~IsPlaying(table)
    /\ \E broke \in SUBSET (table.players \cap table.seats) :
          /\ broke = {} \/ broke # table.players
          /\ table' = ResetForNextHand([table EXCEPT !.kicked = @ \cup broke])
    /\ Away(table') /\ UNCHANGED <<leaving, hands, spent>>

\* submit_verified_shuffle.  The order is that of a hash map: anybody's turn.
Shuffle(p) ==
    LET proof == ShuffleRound(table, p)
    IN  /\ ShuffleActive(table) /\ p \in table.shuffle.pending
        /\ proof.ok /\ ShuffleAccepted(table, p, proof)
        /\ Step(ShuffledBy([table EXCEPT !.deck = Turned(@, p, table.agg),
                                         !.masked = Under(table)], p))

\* submit_player_reveal_tokens: a token for every card asked.
Reveal(p) ==
    LET asked == table.reveal.asked[p]
        sent == FoldLeft(LAMBDA t, ct : SubmitToken(t, ct, p), table, asked)
        marked == [sent EXCEPT !.reveal.pending = @ \ {p}]
    IN  /\ RevealActive(table) /\ p \in table.reveal.pending
        /\ \A i \in DOMAIN asked : TokenAccepted(p, asked[i])
        /\ Step(IF marked.reveal.pending = {} THEN OnRevealComplete(marked)
                ELSE marked)

\* The betting of a street is over: advance_to_next_phase.
StreetAfter == [PreFlop |-> "Flop", Flop |-> "Turn", Turn |-> "River"]
NextStreet ==
    /\ table.round \in DOMAIN StreetAfter /\ Quiet(table)
    /\ LET street == StreetAfter[table.round]
       IN  /\ DealNum(table) + Streets[street] <= Len(Plaintexts)  \* bound
           /\ Step(StartCommunityReveal([DealBoard(table, Streets[street])
                                         EXCEPT !.round = street]))

Showdown ==
    /\ table.round = "River" /\ Quiet(table)
    /\ \E unfolded \in SUBSET table.players :
          /\ Cardinality(unfolded) >= 2
          /\ Step(StartShowdownReveal([table EXCEPT !.round = "Showdown"], unfolded))

\* Everybody else has folded.
FoldedOut == IsPlaying(table) /\ Quiet(table) /\ Step(EndHand(table))

\* STAND_UP and LEAVE_TABLE look whether a hand is on, and take the player out
\* later.  The proof a client may send with it is not looked at: the function
\* that checks it, leave_player_with_proof, finds nobody in the chain's list.
AskToLeave(p) ==
    /\ p \in table.seats \ leaving /\ ~IsPlaying(table)
    /\ Surprise
    /\ leaving' = leaving \cup {p}
    /\ UNCHANGED <<table, gone, hands>>

FinishLeave(p) ==
    /\ leaving' = leaving \ {p}
    /\ table' = IF p \in table.seats THEN RemovePlayer(table, p) ELSE table
    /\ Away(table') /\ UNCHANGED <<hands, spent>>

\* SITTING_OUT, a disconnection or a LEAVE_TABLE during a hand; SITTING_IN.
SittingOut(p) == /\ p \in table.seats \ table.out /\ Surprise
                 /\ table' = [table EXCEPT !.out = @ \cup {p}]
                 /\ UNCHANGED <<leaving, gone, hands>>
SittingIn(p) == p \in table.out /\ Step([table EXCEPT !.out = @ \ {p}])

Timeout ==
    /\ Surprise
    /\ \/ \E p \in table.shuffle.pending :
              ShuffleActive(table) /\ table' = OnShuffleTimeout(table, p)
       \/ RevealActive(table) /\ table' = OnRevealTimeout(table)
       \/ table.rebuild.active /\ table' = OnReconstructTimeout(table)
    /\ Away(table') /\ UNCHANGED <<leaving, hands>>

\* RECONSTRUCT_INITIATE: anybody, at any time.
InitiateRebuild ==
    /\ ~table.rebuild.active
    /\ Surprise
    /\ table' = StartReconstruct(table)
    /\ UNCHANGED <<leaving, gone, hands>>

\* submit_reconstruct_deck; the handler of the last one calls start_shuffle.
SubmitRound(p, round) ==
    LET in == [table EXCEPT !.rebuild.pending = @ \ {p},
                            !.rebuild.decks = [q \in DOMAIN @ \cup {p} |->
                                IF q = p THEN round.made.output ELSE @[q]]]
    IN  /\ round.ok /\ RebuildAccepted(table, p, round)
        /\ Step(IF in.rebuild.pending = {} THEN StartShuffle(in) ELSE in)

SubmitDeck(p) ==
    /\ table.rebuild.active /\ p \in table.rebuild.pending
    /\ SubmitRound(p, RebuildRound(table, p))

\* REDEAL_REQUEST, for a card its owner cannot read.
RequestRedeal(p) ==
    \E i \in DOMAIN (IF p \in table.players THEN table.hand[p] ELSE <<>>) :
        LET card == table.hand[p][i]
        IN  /\ IsReadable(card, p)
            /\ Face(Decrypt(Readable(card), Sk[p])) = NoCard
            /\ Surprise
            /\ table' = StartRedealReveal(Redeal(table, p, i), p)
            /\ UNCHANGED <<leaving, gone, hands>>

Next ==
    \/ Begin \/ Proceed \/ NextHand \/ NextStreet \/ Showdown \/ FoldedOut
    \/ Timeout \/ InitiateRebuild
    \/ \E p \in leaving : FinishLeave(p)
    \/ \E p \in Players : \/ Join(p) \/ JoinWaiting(p) \/ Shuffle(p) \/ Reveal(p)
                          \/ AskToLeave(p) \/ SubmitDeck(p)
                          \/ RequestRedeal(p) \/ SittingOut(p) \/ SittingIn(p)

Spec == Init /\ [][Next]_vars

-----------------------------------------------------------------------------
\* As long as the deck is under exactly the keys of the players at the table,
\* it opens under all of them to the whole deck, every card on the board that
\* waits for nobody shows a card, and everyone can read a hole card that waits
\* for nobody else: through joins and shuffles in any order, streets, redeals
\* and any order of tokens.  (The code parts key and deck in four places, which
\* the premise leaves out: a reset, every removal, a late joiner and a rebuilt
\* deck; a shuffle under other keys than the deck's leaves it under none.)
Bare(t) == Each(t.deck, LAMBDA ct :
              Sub(ct.c2, Mul(ct.c1, SumOf(SetToSeq({Sk[p] : p \in t.players})))))

CardsOpen ==
    table.masked = table.players =>
        /\ ToSet(Bare(table)) = ToSet(Plaintexts)
        /\ \A i \in DOMAIN table.board :
              table.board[i].pending = {} => table.board[i].shown # NoCard
        /\ \A p \in table.players : \A i \in DOMAIN table.hand[p] :
              LET card == table.hand[p][i]
              IN  /\ card.pending = {} => card.shown # NoCard
                  /\ IsReadable(card, p) =>
                        Face(Decrypt(Readable(card), Sk[p])) # NoCard

\* Whatever the table went through, the proof an honest client can make is one
\* the server accepts: to join, to shuffle, to open a card, to leave, to send
\* in a deck.
HonestNeverRefused ==
    \A p \in Players :
        /\ MayJoin(p) => LET round == JoinRound(table, p)
                         IN  round.ok => JoinAccepted(table, p, round)
        /\ ShuffleActive(table) /\ p \in table.shuffle.pending =>
              LET proof == ShuffleRound(table, p)
              IN  proof.ok => ShuffleAccepted(table, p, proof)
        /\ p \in table.reveal.pending =>
              \A i \in DOMAIN table.reveal.asked[p] :
                  TokenAccepted(p, table.reveal.asked[p][i])
        /\ p \in table.players /\ Maskable(table.deck) => LeaveAccepted(table, p)
        /\ table.rebuild.active /\ p \in table.rebuild.pending =>
              LET round == RebuildRound(table, p)
              IN  round.ok => RebuildAccepted(table, p, round)

\* A hole card all others sent their token for can be read by its owner: what
\* game.rs:88-91 says reset was mended for (with the aggregated key left out,
\* the reveal's decrypt_readable_card no longer fails).
EveryHandOpens ==
    gone = {} => \A p \in table.players : \A i \in DOMAIN table.hand[p] :
        IsReadable(table.hand[p][i], p) =>
            Face(Decrypt(Readable(table.hand[p][i]), Sk[p])) # NoCard
=============================================================================
