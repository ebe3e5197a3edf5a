------------------------------ MODULE GameLoop ------------------------------
(***************************************************************************)
(* One table run by the game server: the game-loop task (socket/game_loop) *)
(* ticks the table and applies the queued player actions, while socket     *)
(* handlers (socket/handlers) change the same table from their own tasks.  *)
(* A lock protects each section, not a whole tick: process_tick reads a    *)
(* snapshot, lets go of the lock and acts on the snapshot later, so every  *)
(* lock section is an action of its own here and handlers come in between. *)
(* A timer that is set may have run out at any later section.              *)
(*                                                                         *)
(* The socket handlers that name a player by wallet (FOLD, CHECK, CALL,    *)
(* RAISE, STAND_UP, SHUFFLE_SUBMIT, REVEAL_SUBMIT, RECONSTRUCT_SUBMIT,     *)
(* REDEAL_REQUEST) look it up in players(), which is the chain's list and  *)
(* empty here: they return without effect and are no actions.  Bets and    *)
(* reveal tokens come in over HTTP, where the request names the key;       *)
(* nobody can shuffle or reconstruct once the hand has begun.              *)
(***************************************************************************)
EXTENDS LocalTable

CONSTANTS Stacks,    \* what a player may bring to the table
          RaiseTos,  \* total bets a raise may ask for
          Rankings,  \* the possible values of the hands at a showdown
          Budget     \* how often the environment may do each unbounded thing

VARIABLES table,  \* the Table behind the lock
          loop,   \* the game-loop task: "none", "running" or "stopping"
          task,   \* where the task is in the current tick
          late,   \* socket handlers between two of their lock sections
          spent   \* how much of the Budget is used up

vars == <<table, loop, task, late, spent>>

Idle == [step |-> "idle", few |-> FALSE, due |-> FALSE, set |-> FALSE]

Init ==
    /\ table = NewTable
    /\ loop = "none"
    /\ task = Idle
    /\ late = {}
    /\ spent = [thing \in DOMAIN Budget |-> 0]

Spend(thing) == /\ spent[thing] < Budget[thing]
                /\ spent' = [spent EXCEPT ![thing] = @ + 1]

-----------------------------------------------------------------------------
(* The game-loop task.                                                     *)

Step(name) == [Idle EXCEPT !.step = name]
At(name) == loop # "none" /\ task.step = name

\* What the snapshot makes this tick look at.
TickKind(t) ==
    CASE t.reconstruct.active -> "reconstruct"
      [] ~t.reconstruct.active /\ ShuffleActive(t) -> "shuffle"
      [] ~t.reconstruct.active /\ ~ShuffleActive(t) /\ RevealActive(t) -> "reveal"
      [] OTHER -> IF t.round = "Waiting" THEN "waiting"
                  ELSE IF t.round = "Showdown" THEN "showdown" ELSE "betting"

\* The snapshot: few active seats, and the timers this kind of tick looks at.
Snapshot(t) ==
    LET kind == TickKind(t)
    IN  [step |-> kind,
         few  |-> kind \in {"shuffle", "waiting"} /\ Cardinality(Active(t)) < MinStartNum,
         due  |-> kind = "waiting" /\ t.completeAt,
         set  |-> \/ kind = "waiting" /\ t.readyAt
                  \/ kind = "showdown" /\ t.showdownAt
                  \/ kind = "shuffle" /\ IsPlaying(t)]

BeginTick ==
    /\ loop = "running" /\ task = Idle
    /\ IF Active(table) = {}
       THEN loop' = "stopping" /\ UNCHANGED task
       ELSE task' = Snapshot(table) /\ UNCHANGED loop
    /\ UNCHANGED <<table, late, spent>>

Section(t, next) == table' = t /\ task' = next /\ UNCHANGED <<loop, late, spent>>

TickReconstruct(elapsed) ==
    /\ At("reconstruct")
    /\ IF table.reconstruct.active /\ table.reconstruct.pending = {}
       THEN Section(OnCompleteReconstruct(table), Idle)
       ELSE Section(table, IF elapsed /\ table.reconstruct.active
                           THEN Step("reconstructLate") ELSE Idle)

TickReconstructLate ==
    /\ At("reconstructLate")
    /\ Section(IF table.reconstruct.active THEN OnReconstructTimeout(table) ELSE table,
               Idle)

TickShuffle(elapsed) ==
    /\ At("shuffle")
    /\ IF task.few
       THEN Section([table EXCEPT !.shuffle.phase = "None",
                                  !.round = IF task.set THEN "Waiting" ELSE @], Idle)
       ELSE IF table.shuffle.pending = {}
       THEN Section(AdvanceShuffle(table), Idle)
       ELSE Section(table, IF /\ elapsed /\ ShuffleActive(table)
                              /\ table.shuffle.current # None
                           THEN Step("shuffleLate") ELSE Idle)

\* on_shuffle_timeout looks the shuffler up again.
TickShuffleLate ==
    /\ At("shuffleLate")
    /\ Section(IF table.shuffle.current # None THEN OnShuffleTimeout(table) ELSE table,
               Idle)

TickReveal(elapsed) ==
    /\ At("reveal")
    /\ IF table.reveal.pending = {}
       THEN \E ranks \in Rankings : Section(OnRevealComplete(table, ranks), Idle)
       ELSE Section(table, IF elapsed /\ RevealActive(table)
                           THEN Step("revealLate") ELSE Idle)

\* on_reveal_timeout looks the players that are late up again.
TickRevealLate ==
    /\ At("revealLate")
    /\ Section(IF RevealActive(table) THEN OnRevealTimeout(table) ELSE table, Idle)

\* The table is made ready for the next hand.  Broke and absent players are to
\* go, as far as their wallets are found.
ClearTable(t) ==
    ResetForNextHand(RemoveAll(t, {p \in PlayersByWallet(t) \cap Seated(t) :
                                      t.seats[p].out \/ t.seats[p].stack = 0}))

TickWaiting(elapsed) ==
    /\ At("waiting")
    /\ IF ~task.due
       THEN Section(table, [task EXCEPT !.step = "ready"])
       ELSE IF ~elapsed
       THEN Section(table, Idle)
       ELSE /\ table' = ClearTable(table)
            /\ IF Cardinality(Active(table')) < MinStartNum
               THEN loop' = "stopping" /\ task' = Idle
               ELSE task' = [task EXCEPT !.step = "ready"] /\ UNCHANGED loop
            /\ UNCHANGED <<late, spent>>

TickReady ==
    /\ At("ready")
    /\ CASE task.few -> /\ loop' = "stopping" /\ task' = Idle
                        /\ UNCHANGED <<table, late, spent>>
         [] ~task.few /\ ~task.set ->
                Section([table EXCEPT !.readyAt = TRUE], Idle)
         [] ~task.few /\ task.set ->
                /\ Spend("hands")
                /\ table' = IF Cardinality(Active(table)) >= MinStartNum
                            THEN StartShuffle(table) ELSE table
                /\ task' = Idle
                /\ UNCHANGED <<loop, late>>

TickBetting(elapsed) ==
    /\ At("betting")
    /\ IF /\ elapsed /\ table.bettingAt
          /\ table.turn # None /\ table.turn \in Seated(table)
       THEN Section(BettingTimeout(table),
                    Step(IF TimedOutFolds(table) THEN "advance" ELSE "autofold"))
       ELSE Section(table, Step("autofold"))

\* handle_auto_fold finds nobody marked as disconnected; then whether the round
\* is complete.
TickAutoFold ==
    /\ At("autofold")
    /\ Section(table, IF IsBettingRoundComplete(table) THEN Step("advance") ELSE Idle)

\* handle_turn_advance
TurnAdvance(t) ==
    IF Cardinality(Unfolded(t)) <= 1 THEN EndWithoutShowdown(t)
    ELSE IF IsBettingRoundComplete(t) THEN AdvanceToNextPhase(t)
    ELSE ShowTurn([t EXCEPT !.turn = NextIn(CanAct(t), OrFirst(t.turn), 1),
                            !.bettingAt = TRUE])

TickAdvance == At("advance") /\ Section(TurnAdvance(table), Idle)

TickShowdown(elapsed) ==
    /\ At("showdown")
    /\ IF task.set
       THEN Section(IF elapsed THEN EndHand(table) ELSE table, Idle)
       ELSE Section([table EXCEPT !.showdownAt = TRUE], Idle)

\* The task has left its loop, or stop_game_loop has dropped its channels: it
\* takes the table's entry off the registry, a newer task's entry included.
ExitLoop ==
    /\ loop = "stopping" /\ task = Idle
    /\ loop' = "none"
    /\ UNCHANGED <<table, task, late, spent>>

Timed(elapsed) ==
    \/ TickReconstruct(elapsed) \/ TickShuffle(elapsed) \/ TickReveal(elapsed)
    \/ TickWaiting(elapsed) \/ TickBetting(elapsed) \/ TickShowdown(elapsed)

Tick ==
    \/ BeginTick \/ TickReconstructLate \/ TickShuffleLate \/ TickRevealLate
    \/ TickReady \/ TickAutoFold \/ TickAdvance \/ ExitLoop
    \/ \E elapsed \in BOOLEAN : Timed(elapsed)

\* start_game_loop.  Against a task on its way out it has no lasting effect.
Started == IF loop = "none" THEN "running" ELSE loop
Stopped == IF loop = "none" THEN "none" ELSE "stopping"

\* process_action: an action of the seat whose turn it is, sent over HTTP
\* (player_action), then the turn moves.
MayAct(p) ==
    /\ loop = "running" /\ task = Idle
    /\ p \in Seated(table) \cap table.known
    /\ table.round \in BettingRounds
    /\ table.turn = p
    /\ ~table.seats[p].folded /\ ~table.seats[p].out /\ table.seats[p].stack > 0

Fold(p) == MayAct(p) /\ Section(HandleFold(table, p), Step("advance"))
Check(p) == MayAct(p) /\ MayCheck(table, p) /\ Section(HandleCheck(table, p), Step("advance"))
Call(p) == MayAct(p) /\ MayCall(table, p) /\ Section(HandleCall(table, p), Step("advance"))
Raise(p, to) == MayAct(p) /\ MayRaise(table, p, to)
                /\ Section(HandleRaise(table, p, to), Step("advance"))
AllIn(p) == MayAct(p) /\ MayAllIn(table, p)
            /\ Section(HandleAllIn(table, p), Step("advance"))

-----------------------------------------------------------------------------
(* Sitting down and getting up.                                            *)

Owed(what, p) == [what |-> what, player |-> p]

\* SIT_DOWN_V2: the cards are masked and shuffled at once while that is still
\* possible; otherwise the player waits for the next hand.
Sit(p, amount) ==
    LET early == ~IsPlaying(table) \/ ShuffleActive(table)
        sat == SitPlayer(table, p, amount, ~early)
        masked == [sat EXCEPT !.members = @ \cup {p}]
    IN  /\ p \notin Seated(table)
        /\ Spend("seatings")
        /\ table' = CASE ~early -> [sat EXCEPT !.joiners = @ \cup {p}]
                      [] early /\ IsPlaying(table) -> masked
                      [] early /\ ~IsPlaying(table) ->
                            [masked EXCEPT !.shuffle.completed = @ \cup {p},
                                           !.shuffle.pending = @ \ {p}]
        /\ late' = IF early THEN late \cup {Owed("join", p)} ELSE late
        /\ UNCHANGED <<loop, task>>

\* ... and a second lock section starts the loop once enough have shuffled.
FinishSit(p) ==
    LET ready == /\ table.shuffle.pending = {}
                 /\ Cardinality(table.shuffle.completed) >= MinStartNum
    IN  /\ Owed("join", p) \in late
        /\ table' = CompleteOrContinue(table)
        /\ loop' = IF ready THEN Started ELSE loop
        /\ late' = late \ {Owed("join", p)}
        /\ UNCHANGED <<task, spent>>

\* LEAVE_TABLE names its player itself and needs no wallet.  It reads is_playing
\* in one section and acts on it in a later one.
Leave(p) ==
    /\ p \in Seated(table)
    /\ Spend("extras")
    /\ IF IsPlaying(table)
       THEN table' = SetOut(table, p, TRUE) /\ UNCHANGED late
       ELSE late' = late \cup {Owed("leave", p)} /\ UNCHANGED table
    /\ UNCHANGED <<loop, task>>

FinishLeave(p) ==
    LET rest == late \ {Owed("leave", p)}
    IN  /\ Owed("leave", p) \in late
        /\ table' = LeaveTable(table, p)
        /\ IF Cardinality(Active(table')) = 1
           THEN loop' = Stopped /\ late' = rest \cup {Owed("clear", None)}
           ELSE loop' = loop /\ late' = rest
        /\ UNCHANGED <<task, spent>>

\* clear_for_one_player, five seconds later.
ClearForOnePlayer ==
    /\ Owed("clear", None) \in late
    /\ table' = [table EXCEPT !.pot = 0, !.sides = <<>>]
    /\ late' = late \ {Owed("clear", None)}
    /\ UNCHANGED <<loop, task, spent>>

SittingOut(p) == /\ p \in Seated(table) /\ Spend("extras")
                 /\ table' = SetOut(table, p, TRUE) /\ UNCHANGED <<loop, task, late>>

SittingIn(p) ==
    /\ p \in Seated(table) /\ Spend("extras")
    /\ table' = SetOut(table, p, FALSE)
    /\ loop' = IF table.handOver /\ Cardinality(Active(table')) = MinStartNum
               THEN Started ELSE loop
    /\ UNCHANGED <<task, late>>

\* on_disconnect: during a hand the seat sits out; between hands the player to
\* be marked is looked up by wallet, and nobody is found.
Disconnect(p) == /\ p \in Seated(table) /\ IsPlaying(table) /\ Spend("extras")
                 /\ table' = SetOut(table, p, TRUE) /\ UNCHANGED <<loop, task, late>>

\* FETCH_LOBBY_INFO from a user who is already known: reconnect_player.
ReturnToTable(p) == /\ p \in Seated(table) /\ Spend("extras")
                    /\ table' = SetOut(table, p, FALSE) /\ UNCHANGED <<loop, task, late>>

\* REBUY credits the seat before the bankroll is looked up, and takes the chips
\* back (as many as are still there) when it does not cover them.
Rebuy(p, amount) ==
    /\ p \in Seated(table) /\ Spend("extras")
    /\ table' = Update(table, {p}, LAMBDA s : [s EXCEPT !.stack = @ + amount])
    /\ late' \in {late, late \cup {Owed("rebuy", p)}}
    /\ UNCHANGED <<loop, task>>

UndoRebuy(p, amount) ==
    /\ Owed("rebuy", p) \in late
    /\ table' = Update(table, {p}, LAMBDA s : [s EXCEPT !.stack = Max({0, @ - amount})])
    /\ late' = late \ {Owed("rebuy", p)}
    /\ UNCHANGED <<loop, task, spent>>

-----------------------------------------------------------------------------
(* Revealing.                                                              *)

\* submit_reveal_token: the tokens are checked in one section and the player is
\* marked as done in a second, where the phase is looked at again.  Bound: one
\* request of a player is under way at a time.
RevealSubmit(p) ==
    /\ RevealActive(table) /\ p \in table.reveal.pending
    /\ Owed("tokens", p) \notin late
    /\ late' = late \cup {Owed("tokens", p)}
    /\ UNCHANGED <<table, loop, task, spent>>

FinishReveal(p) ==
    /\ Owed("tokens", p) \in late
    /\ IF RevealActive(table) /\ p \in table.reveal.pending
       THEN \E ranks \in Rankings : table' = MarkRevealComplete(table, p, ranks)
       ELSE UNCHANGED table
    /\ late' = late \ {Owed("tokens", p)}
    /\ UNCHANGED <<loop, task, spent>>

\* RECONSTRUCT_INITIATE: anybody, at any time.
ReconstructInitiate ==
    /\ ~table.reconstruct.active
    /\ Spend("extras")
    /\ table' = StartReconstruct(table) /\ UNCHANGED <<loop, task, late>>

-----------------------------------------------------------------------------
Act(p) == \/ Fold(p) \/ Check(p) \/ Call(p) \/ AllIn(p)
          \/ \E to \in RaiseTos : Raise(p, to)

Finish(p) == \/ FinishSit(p) \/ FinishLeave(p) \/ FinishReveal(p)
             \/ \E amount \in Stacks : UndoRebuy(p, amount)

Come(p) == \E amount \in Stacks : Sit(p, amount) \/ Rebuy(p, amount)

Go(p) == \/ Leave(p) \/ SittingOut(p) \/ SittingIn(p)
         \/ Disconnect(p) \/ ReturnToTable(p)

Next ==
    \/ Tick \/ ClearForOnePlayer \/ ReconstructInitiate
    \/ \E p \in Seats : Act(p) \/ RevealSubmit(p) \/ Finish(p) \/ Come(p) \/ Go(p)

\* The task is scheduled for ever and timers run out in the end; nobody is
\* obliged to act, to answer or to come back.
Fairness == WF_vars(Tick) /\ SF_vars(Timed(TRUE))

Spec == Init /\ [][Next]_vars /\ Fairness

-----------------------------------------------------------------------------
\* What the seats have put into this hand, kicked players' bets included.
Bets(t) == SumOf(Seated(t), LAMBDA p : t.seats[p].total)
Betting(t) == t.round \in BettingRounds

\* From the deal to the showdown the pot is what the seats have put in: bets,
\* blinds, kicks, refunds and a second hand's start keep add_to_pot and
\* total_bet in step.  The one section left out is the late one of
\* clear_for_one_player, which empties the pot of whatever hand is then played.
PotFollowsBets ==
    [][~ClearForOnePlayer /\ Betting(table') /\ (Betting(table) => table.pot = Bets(table))
         => table'.pot = Bets(table')]_vars

\* A showdown that somebody is left to win, of a hand whose pot is what was bet,
\* pays out the pot, no more and no less: main pot, side pots and odd chips add
\* up after every kick, rebuy and rebuilt deck (finish_showdown,
\* calculate_side_pots).
Chips(t) == SumOf(Seated(t), LAMBDA p : t.seats[p].stack)
PaysAtShowdown ==
    /\ table.round = "Showdown" /\ table.reveal.phase = "Showdown"
    /\ ~RevealActive(table') /\ table'.showdownAt /\ ~table.showdownAt
    /\ Unfolded(table) # {}
    /\ table.pot = Bets(table)
ShowdownPaysPot ==
    [][PaysAtShowdown => Chips(table') = Chips(table) + table.pot]_vars

\* A hand that is played ends, or the loop stops: whoever stays silent is timed
\* out, in every phase and through every rebuild of the deck.
HandEnds == IsPlaying(table) ~> (~IsPlaying(table) \/ loop # "running")
=============================================================================
