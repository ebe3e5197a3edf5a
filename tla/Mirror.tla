------------------------------- MODULE Mirror -------------------------------
(***************************************************************************)
(* The game server's copy of a table that is played on the chain: what     *)
(* each chain event (the relayer's apply files) and each snapshot of the chain table *)
(* (relayer/sync) do to it.  The copy is a LocalTable record; a snapshot,  *)
(* get_table_summary_v2's answer, is a record of the chain's own fields.   *)
(* A handler is given the snapshot fetched with its event as a sequence    *)
(* `s` that is empty when the fetch failed.  Timers, names and the cards'  *)
(* bytes are left out.                                                     *)
(***************************************************************************)
EXTENDS LocalTable

Fetched(s) == s # <<>>
Snap(s) == s[1]

-----------------------------------------------------------------------------
(* A snapshot replaces the copy: sync_table_state.                         *)

\* seat_indices_to_pk_hex: a seat without a key is dropped from the list.
WithKeys(s, S) == S \cap s.meta.pks

InferShufflePhase(s) ==
    IF s.shuffle.current = None /\ s.shuffle.pending = {} /\ s.shuffle.completed = {}
    THEN "None" ELSE IF s.round = "Waiting" THEN "BeforePreflop" ELSE "Reconstruct"

\* RevealPhase::from_chain_u8: the chain's flop, turn and river are one phase.
RevealKind == <<"Hand", "Redeal", "Community", "Community", "Community", "Showdown">>

\* summary.meta and summary.state, as they are copied whole; keys stay behind.
CopyMeta(t, s) ==
    [t EXCEPT !.meta = [s.meta EXCEPT !.pks = t.meta.pks],
              !.round = s.round, !.pot = s.pot, !.button = s.button, !.turn = s.turn]

CopyCrypto(t, s) == [t EXCEPT !.meta.pks = s.meta.pks]

SyncRoundState(t, s) == [t EXCEPT !.round = s.round]

SyncShuffleState(t, s) == [t EXCEPT !.shuffle.phase = InferShufflePhase(s)]

\* Mutation of SyncRevealState: a reveal that is over is not put away.
SyncRevealStateOpen(t, s) ==
    IF s.reveal # 0 THEN [t EXCEPT !.reveal.phase = RevealKind[s.reveal]] ELSE t

SyncRevealState(t, s) ==
    IF s.reveal # 0 THEN [t EXCEPT !.reveal.phase = RevealKind[s.reveal]]
    ELSE [t EXCEPT !.reveal = NoReveal]

\* The keys, and the shuffle's lists while a shuffle is on.
SyncDeckState(t, s) ==
    IF InferShufflePhase(s) = "None" THEN CopyCrypto(t, s)
    ELSE [CopyCrypto(t, s) EXCEPT
             !.shuffle.pending = WithKeys(s, s.shuffle.pending),
             !.shuffle.completed = WithKeys(s, s.shuffle.completed)]

\* The first snapshot with a vote in it starts the copy's vote.
SyncReconstructState(t, s) ==
    CASE s.reconstruct.active ->
            [StartReconstruct(t) EXCEPT
                !.reconstruct.pending = WithKeys(s, s.reconstruct.pending),
                !.reconstruct.completed = WithKeys(s, s.reconstruct.completed)]
      [] ~s.reconstruct.active -> [t EXCEPT !.reconstruct = NoReconstruct]

\* A seat the chain emptied goes; a kicked one stays while the chain still
\* names its player; an occupied one takes the chain's chips if it is here.
SyncBettingState(t, s) ==
    LET gone == Seats \ (s.meta.occupied \cup s.meta.players)
        copy(p) == [t.seats[p] EXCEPT !.stack = s.meta.seat[p].stack,
                                      !.bet = s.meta.seat[p].bet,
                                      !.folded = s.meta.seat[p].folded,
                                      !.waiting = s.meta.seat[p].waiting]
        seats == [p \in Seated(t) |-> [(IF p \in s.meta.occupied THEN copy(p) ELSE t.seats[p])
                                         EXCEPT !.turn = (s.turn = p)]]
    IN  Keep([t EXCEPT !.seats = seats,
                       !.known = @ \ (gone \cap Seated(t)),
                       !.pot = s.pot, !.button = s.button, !.turn = s.turn,
                       !.call = IF s.call > 0 THEN s.call ELSE NoCall,
                       !.betting = IF s.betting THEN [current |-> 0, minRaise |-> 2 * MinBet]
                                   ELSE NoBetting],
             Seated(t) \ gone)

SyncTableState(t, s) ==
    LET a == SyncRoundState(CopyMeta(t, s), s)
        b == SyncDeckState(SyncRevealState(SyncShuffleState(a, s), s), s)
    IN  SyncBettingState(SyncReconstructState(b, s), s)

\* populate_seats_from_summary: at startup, and when a client opens the table.
PopulateSeats(t, s) ==
    LET named == s.meta.occupied \cap s.meta.players \cap s.meta.pks
        add == named \ (DOMAIN Shown(t) \cap ShownPlayers(t))
        chain(p, base) == [base EXCEPT !.stack = s.meta.seat[p].stack,
                                       !.bet = s.meta.seat[p].bet,
                                       !.total = s.meta.seat[p].total,
                                       !.folded = s.meta.seat[p].folded,
                                       !.waiting = s.meta.seat[p].waiting]
    IN  [t EXCEPT !.seats = [p \in Seated(t) \cup add |->
                                IF p \in add THEN chain(p, NewSeat(0, FALSE))
                                ELSE IF p \in named THEN chain(p, @[p]) ELSE @[p]],
                  !.known = @ \cup add,
                  !.shuffle.completed = @ \cup add]

-----------------------------------------------------------------------------
(* Seats.                                                                  *)

\* A seat's key leads to a player in the copy.
Named(t, p) == p \in DOMAIN Shown(t) /\ p \in ShownPlayers(t)

\* A join is skipped when the snapshot has no key for the seat, and when the
\* seat already shows the player of its key.
JoinSkipped(t, e, s) == e.seat \notin s.meta.pks \/ Named(t, e.seat)

PlayerJoined(t, e, s) ==
    IF JoinSkipped(t, e, s) THEN t
    ELSE CopyCrypto(CopyMeta(
            [t EXCEPT !.seats = [p \in Seated(t) \cup {e.seat} |->
                                    IF p = e.seat THEN NewSeat(e.amount, e.waiting) ELSE @[p]],
                      !.known = @ \cup {e.seat},
                      !.shuffle.completed = @ \cup {e.seat}], s), s)

\* A leave and a kick are the same here, and need the player on the chain's list.
PlayerLeft(t, e) ==
    IF e.seat \in ShownPlayers(t) \cup t.known /\ e.seat \in PlayersByWallet(t)
    THEN LeaveTable(t, e.seat) ELSE t
LeavesOne(t, e) == /\ PlayerLeft(t, e) # t
                   /\ Cardinality(Active(PlayerLeft(t, e))) <= 1

PlayerRefund(t, e) ==
    [Update(t, {e.seat}, LAMBDA x : [x EXCEPT !.stack = @ + e.amount]) EXCEPT
        !.meta.seat = [p \in DOMAIN @ |-> IF p = e.seat
                          THEN [@[p] EXCEPT !.stack = @ + e.amount] ELSE @[p]]]

-----------------------------------------------------------------------------
(* The hand's start and end.                                               *)

HandStarted(t, s) == IF Fetched(s) THEN SyncTableState(ResetForNextHand(t), Snap(s))
                     ELSE ResetForNextHand(t)

\* hand_settled and hand_ended_without_showdown
HandSettled(t, s) == ResetForNextHand(IF Fetched(s) THEN CopyMeta(t, Snap(s)) ELSE t)

HandReset(t) == ResetForNextHand(t)

\* set_blinds_from_chain: on top of what a snapshot may have brought already.
BlindsPosted(t, e) ==
    [PlaceBlind(PlaceBlind(t, e.seat, MinBet), e.other, 2 * MinBet) EXCEPT
        !.call = 2 * MinBet, !.turn = e.turn]

CurrentTurnChanged(t, turn) == ShowTurn([t EXCEPT !.turn = turn])

-----------------------------------------------------------------------------
(* Shuffling and revealing.                                                *)

\* The chain advances the shuffle; the copy only closes its own.
ShuffleComplete(t, s) ==
    LET synced == IF Fetched(s) THEN SyncTableState(t, Snap(s)) ELSE t
    IN  [synced EXCEPT !.shuffle = IF ShuffleActive(synced) THEN NoShuffle ELSE @]

ShuffleVerified(t, e) ==
    IF Named(t, e.seat) THEN [t EXCEPT !.shuffle.completed = @ \cup {e.seat}] ELSE t

ShuffleTurn(t, e) ==
    IF Named(t, e.seat) THEN [t EXCEPT !.shuffle.current = e.seat] ELSE t

ActiveSeatIndices(s) == {p \in s.meta.occupied : ~s.meta.seat[p].waiting}

\* The lists a phase starts with, from the snapshot; <<>> when it has too few
\* cards dealt to hold the phase's cards.
RebuildHand(s) ==
    IF s.dealt < 2 * Cardinality(ActiveSeatIndices(s)) THEN {}
    ELSE WithKeys(s, ActiveSeatIndices(s))
CommunityCount == [flop |-> 3, turn |-> 1, river |-> 1]
RebuildCommunity(s, phase) ==
    IF s.dealt < CommunityCount[<<"", "", "flop", "turn", "river">>[phase]] THEN {}
    ELSE WithKeys(s, ActiveSeatIndices(s))
RebuildShowdown(s) == WithKeys(s, ActiveSeatIndices(s))

\* Mutation of AskedBy: a player that has answered is asked again.
AskedByAgain(t, asked) == asked

\* Who was marked as having answered is not asked again.
AskedBy(t, asked) == asked \ t.reveal.completed

Rebuild(t, kind, asked) ==
    IF asked = {} THEN t
    ELSE [t EXCEPT !.reveal = [@ EXCEPT !.phase = kind, !.pending = AskedBy(t, asked)]]

RevealPhaseEvt(t, e, s) ==
    CASE ~Fetched(s) \/ (Fetched(s) /\ Snap(s).reveal = 0) -> t
      [] Fetched(s) /\ Snap(s).reveal # 0 /\ e.phase = 1 ->
            Rebuild(t, "Hand", RebuildHand(Snap(s)))
      [] Fetched(s) /\ Snap(s).reveal # 0 /\ e.phase \in 3..5 ->
            Rebuild(t, "Community", RebuildCommunity(Snap(s), e.phase))
      [] Fetched(s) /\ Snap(s).reveal # 0 /\ e.phase = 6 ->
            Rebuild(t, "Showdown", RebuildShowdown(Snap(s)))
      [] OTHER -> t

\* One token event per card: the first one marks the player.
RevealTokenSubmitted(t, e) ==
    IF ~Named(t, e.seat) \/ ~RevealActive(t) THEN t
    ELSE [t EXCEPT !.reveal.completed = @ \cup {e.seat}, !.reveal.pending = @ \ {e.seat}]

RevealPhaseComplete(t, s) == IF Fetched(s) THEN SyncTableState(t, Snap(s)) ELSE t

-----------------------------------------------------------------------------
(* The players' actions.                                                   *)

ActionEvents == {"PlayerFolded", "PlayerChecked", "PlayerCalled", "PlayerRaised", "PlayerAllIn"}

\* apply_player_action_to_socket: nothing is done about a seat without a
\* player, a player the copy does not list, or one that has folded in it.
\* Otherwise the action has no game loop to go to, since none runs for a chain
\* table: the snapshot is copied instead and the event is to be tried again.
ActionIgnored(t, e, s) ==
    \/ e.seat \notin s.meta.players
    \/ e.seat \notin PlayersByWallet(t)
    \/ e.seat \in t.known \cap Seated(t) /\ t.seats[e.seat].folded

PlayerAction(t, e, s) == IF ActionIgnored(t, e, s) THEN t ELSE SyncTableState(t, s)

\* What an event does to the copy before the snapshot is copied, once it has
\* been let through (`fresh`).  The other events only reach the clients.
ApplyEvent(t, e, s, fresh) ==
    CASE e.name \in ActionEvents ->
            LET acted == IF fresh /\ Fetched(s) THEN PlayerAction(t, e, Snap(s)) ELSE t
            IN  IF Fetched(s) THEN CurrentTurnChanged(acted, Snap(s).turn) ELSE acted
      [] e.name = "PlayerJoined" -> IF Fetched(s) THEN PlayerJoined(t, e, Snap(s)) ELSE t
      [] e.name = "PlayerLeft" -> PlayerLeft(t, e)
      [] e.name = "PlayerKicked" -> IF fresh THEN PlayerLeft(t, e) ELSE t
      [] e.name = "PlayerRefund" -> IF fresh THEN PlayerRefund(t, e) ELSE t
      [] e.name = "HandStarted" -> HandStarted(t, s)
      [] e.name \in {"HandSettled", "HandEndedWithoutShowdown"} -> HandSettled(t, s)
      [] e.name = "HandReset" -> HandReset(t)
      [] e.name = "BlindsPosted" -> BlindsPosted(t, e)
      [] e.name = "CurrentTurnChanged" -> CurrentTurnChanged(t, e.turn)
      [] e.name = "ShuffleComplete" -> ShuffleComplete(t, s)
      [] e.name = "ShuffleVerified" -> ShuffleVerified(t, e)
      [] e.name = "ShuffleTurn" -> ShuffleTurn(t, e)
      [] e.name = "RevealPhaseEvt" -> RevealPhaseEvt(t, e, s)
      [] e.name = "RevealTokenSubmitted" -> RevealTokenSubmitted(t, e)
      [] e.name = "RevealPhaseComplete" -> RevealPhaseComplete(t, s)
      [] OTHER -> t
=============================================================================
