------------------------------- MODULE Relayer -------------------------------
(***************************************************************************)
(* The server follows one chain table (texas/src/relayer).  Several tasks  *)
(* bring chain events to the same copy of it: the listener in the chain's  *)
(* order, a webhook or a second backfill with events that were or will be  *)
(* delivered anyway, the retry loop with events kept for later, and a      *)
(* client that opens the table.  Each fetches the chain's current snapshot *)
(* first and works on the copy afterwards; the chain and the other tasks   *)
(* move on in between.  A task is one event at a time in three steps:      *)
(* take it and fetch, apply, copy the snapshot.                            *)
(***************************************************************************)
EXTENDS Mirror, SequencesExt

CONSTANTS Stories, \* chain histories: sequences of transactions
          MarkCap, \* MAX_PROCESSED_ACTIONS: keys kept before all are dropped
          Budget   \* bound: failed fetches, repeated events and opened tables, in all

VARIABLES story,   \* the history being followed
          version, \* transactions executed so far, the first one at startup
          mirror,  \* the server's copy of the table
          jobs,    \* what each task is doing
          taken,   \* how many events the listener has taken
          queue,   \* events to be tried again (action_retry_queue)
          retry,   \* what the retry loop has taken and what it keeps
          marked,  \* keys of the actions already seen (processed_actions)
          late,    \* a delayed clear_for_one_player is under way
          synced,  \* the version last copied, 0 once an event changed the copy
          spent    \* of the Budget

vars == <<story, version, mirror, jobs, taken, queue, retry, marked, late, synced, spent>>

Tasks == {"listener", "hook", "retry", "lobby"}
NoEvent == [name |-> "none"]
IdleJob == [step |-> "idle", event |-> NoEvent, seen |-> 0]
ActionMaxRetries == 3

Snapshot(v) == story[v].after
\* The events the chain has emitted since the first snapshot.
Emitted == FlattenSeq([v \in 1..version |-> story[v].events])

Seen(v) == IF v = 0 THEN <<>> ELSE <<Snapshot(v)>>

\* main.rs makes the table; the startup synchronisation fills it.
Startup(s) == PopulateSeats(SyncTableState(NewTable, s), s)

Init ==
    /\ story \in Stories
    /\ version = 1
    /\ mirror = Startup(Snapshot(1))
    /\ jobs = [task \in Tasks |-> IdleJob]
    /\ taken = 0
    /\ queue = <<>>
    /\ retry = [todo |-> <<>>, kept |-> <<>>]
    /\ marked = {}
    /\ late = FALSE
    /\ synced = 1
    /\ spent = 0

Spend == spent < Budget /\ spent' = spent + 1

Job(task, step, event, seen) ==
    jobs' = [jobs EXCEPT ![task] = [step |-> step, event |-> event, seen |-> seen]]

-----------------------------------------------------------------------------
(* The chain executes the next transaction of its history.                 *)

ChainStep ==
    /\ version < Len(story)
    /\ version' = version + 1
    /\ UNCHANGED <<story, mirror, jobs, taken, queue, retry, marked, late, synced, spent>>

-----------------------------------------------------------------------------
(* A task takes an event and fetches the chain's snapshot of now, or none  *)
(* when the node does not answer.                                          *)

Fetch(task, event) ==
    \/ Job(task, "apply", event, version) /\ UNCHANGED spent
    \/ Job(task, "apply", event, 0) /\ Spend

Listen ==
    /\ jobs["listener"].step = "idle" /\ taken < Len(Emitted)
    /\ taken' = taken + 1
    /\ Fetch("listener", Emitted[taken + 1])
    /\ UNCHANGED <<story, version, mirror, queue, retry, marked, late, synced>>

Deliver ==
    /\ jobs["hook"].step = "idle" /\ Spend
    /\ \E i \in 1..Len(Emitted) : Job("hook", "apply", Emitted[i], version)
    /\ UNCHANGED <<story, version, mirror, taken, queue, retry, marked, late, synced>>

\* A client opens the table: sync_single_table_seats_from_chain.
OpenTable ==
    /\ jobs["lobby"].step = "idle" /\ Spend
    /\ Job("lobby", "apply", NoEvent, version)
    /\ UNCHANGED <<story, version, mirror, taken, queue, retry, marked, late, synced>>

\* Every five seconds: the whole queue is taken out of its lock.
TakeQueue ==
    /\ jobs["retry"].step = "idle" /\ retry.todo = <<>> /\ retry.kept = <<>> /\ queue # <<>>
    /\ retry' = [retry EXCEPT !.todo = queue]
    /\ queue' = <<>>
    /\ UNCHANGED <<story, version, mirror, jobs, taken, marked, late, synced, spent>>

TakeItem ==
    /\ jobs["retry"].step = "idle" /\ retry.todo # <<>>
    /\ Fetch("retry", Head(retry.todo).event)
    /\ UNCHANGED <<story, version, mirror, taken, queue, retry, marked, late, synced>>

\* What is still pending goes back, behind what was queued meanwhile.
PutBack ==
    /\ jobs["retry"].step = "idle" /\ retry.todo = <<>> /\ retry.kept # <<>>
    /\ queue' = queue \o retry.kept
    /\ retry' = [retry EXCEPT !.kept = <<>>]
    /\ UNCHANGED <<story, version, mirror, jobs, taken, marked, late, synced, spent>>

-----------------------------------------------------------------------------
(* apply_event_to_socket, up to the copying of the snapshot.               *)

\* check_and_mark_action: table, seat, action and round (or reason) make a key.
Keyed(e) == e.name \in ActionEvents \cup {"PlayerKicked", "PlayerRefund"}
Key(e) == <<e.seat, e.name, e.round>>
Fresh(e) == Keyed(e) => Key(e) \notin marked

\* A full set is emptied before the next key goes in.
Mark(e) ==
    IF ~Keyed(e) \/ Key(e) \in marked THEN marked
    ELSE (IF Cardinality(marked) >= MarkCap THEN {} ELSE marked) \cup {Key(e)}

\* Pushed to the retry queue: a join without a snapshot, an action without a
\* snapshot, and an action that found no game loop.
NeedsRetry(e, s) ==
    \/ e.name = "PlayerJoined" /\ ~Fetched(s)
    \/ /\ e.name \in ActionEvents /\ Fresh(e)
       /\ Fetched(s) => ~ActionIgnored(mirror, e, Snap(s))

ApplyJob(task) ==
    /\ task \in {"listener", "hook"} /\ jobs[task].step = "apply"
    /\ LET e == jobs[task].event
           s == Seen(jobs[task].seen)
       IN  /\ mirror' = ApplyEvent(mirror, e, s, Fresh(e))
           /\ marked' = Mark(e)
           /\ queue' = IF NeedsRetry(e, s) THEN Append(queue, [event |-> e, tries |-> 0])
                       ELSE queue
           /\ late' = (late \/ /\ e.name \in {"PlayerLeft", "PlayerKicked"}
                               /\ Fresh(e) /\ LeavesOne(mirror, e))
           /\ synced' = IF mirror' = mirror THEN synced ELSE 0
           /\ IF Fetched(s) THEN Job(task, "sync", e, jobs[task].seen)
              ELSE jobs' = [jobs EXCEPT ![task] = IdleJob]
    /\ UNCHANGED <<story, version, taken, retry, spent>>

SyncJob(task) ==
    /\ jobs[task].step = "sync"
    /\ mirror' = SyncTableState(mirror, Snapshot(jobs[task].seen))
    /\ synced' = jobs[task].seen
    /\ jobs' = [jobs EXCEPT ![task] = IdleJob]
    /\ UNCHANGED <<story, version, taken, queue, retry, marked, late, spent>>

\* clear_for_one_player's second half, five seconds later.
ClearLate ==
    /\ late
    /\ late' = FALSE
    /\ mirror' = [mirror EXCEPT !.pot = 0, !.sides = <<>>]
    /\ synced' = IF mirror' = mirror THEN synced ELSE 0
    /\ UNCHANGED <<story, version, jobs, taken, queue, retry, marked, spent>>

ApplyLobby ==
    /\ jobs["lobby"].step = "apply"
    /\ mirror' = PopulateSeats(mirror, Snapshot(jobs["lobby"].seen))
    /\ synced' = IF mirror' = mirror THEN synced ELSE 0
    /\ jobs' = [jobs EXCEPT !["lobby"] = IdleJob]
    /\ UNCHANGED <<story, version, taken, queue, retry, marked, late, spent>>

-----------------------------------------------------------------------------
(* process_action_retry_queue, one item.                                   *)

\* Mutation of Later: the attempt is not counted.
LaterUncounted(item) == item

Later(item) == [item EXCEPT !.tries = @ + 1]

\* retry_apply_player_action answers that the item is done with.
RetryDone(e, s) ==
    IF e.name = "PlayerJoined" THEN Fetched(s)
    ELSE Fetched(s) /\ ActionIgnored(mirror, e, Snap(s))

RetryApplied(e, s) ==
    IF ~Fetched(s) THEN mirror
    ELSE IF e.name = "PlayerJoined" THEN PlayerJoined(mirror, e, Snap(s))
    ELSE PlayerAction(mirror, e, Snap(s))

ApplyRetry ==
    /\ jobs["retry"].step = "apply"
    /\ LET item == Head(retry.todo)
           s == Seen(jobs["retry"].seen)
       IN  IF item.tries >= ActionMaxRetries
           THEN /\ mirror' = IF Fetched(s) THEN SyncTableState(mirror, Snap(s)) ELSE mirror
                /\ retry' = [retry EXCEPT !.todo = Tail(@)]
                /\ synced' = IF Fetched(s) THEN jobs["retry"].seen ELSE synced
           ELSE /\ mirror' = RetryApplied(item.event, s)
                /\ retry' = [todo |-> Tail(retry.todo),
                             kept |-> IF RetryDone(item.event, s) THEN retry.kept
                                      ELSE Append(retry.kept, Later(item))]
                /\ synced' = IF mirror' = mirror THEN synced
                             ELSE IF item.event.name \in ActionEvents
                             THEN jobs["retry"].seen ELSE 0
    /\ jobs' = [jobs EXCEPT !["retry"] = IdleJob]
    /\ UNCHANGED <<story, version, taken, queue, marked, late, spent>>

-----------------------------------------------------------------------------
RetryLoop == TakeQueue \/ TakeItem \/ ApplyRetry \/ PutBack

Listener == Listen \/ ApplyJob("listener") \/ SyncJob("listener")

Hook == Deliver \/ ApplyJob("hook") \/ SyncJob("hook")

Lobby == OpenTable \/ ApplyLobby

Next == ChainStep \/ Listener \/ Hook \/ Lobby \/ RetryLoop \/ ClearLate

\* tokio runs the listener's and the retry loop's tasks for ever; nobody has to
\* execute a transaction, call the webhook or open the table.
Fairness == WF_vars(RetryLoop) /\ WF_vars(Listener)

Spec == Init /\ [][Next]_vars /\ Fairness

-----------------------------------------------------------------------------
\* Right after a snapshot was copied, and until an event changes the copy
\* again, the copy is that snapshot whatever state other tasks' events had left
\* it in: round, turn, pot, the phase under way with the lists the snapshot
\* carries, the chips of every seat here, and no seat the chain has emptied.
CopyIsTheSnapshot ==
    synced # 0 =>
        LET s == Snapshot(synced)
        IN  /\ mirror.round = s.round /\ mirror.turn = s.turn /\ mirror.pot = s.pot
            /\ RevealActive(mirror) = (s.reveal # 0)
            /\ mirror.reconstruct.active = s.reconstruct.active
            /\ mirror.shuffle.phase = InferShufflePhase(s)
            /\ ShuffleActive(mirror) =>
                  mirror.shuffle.pending = WithKeys(s, s.shuffle.pending)
            /\ Seated(mirror) \subseteq s.meta.occupied \cup s.meta.players
            /\ \A p \in Seated(mirror) \cap s.meta.occupied :
                  /\ mirror.seats[p].stack = s.meta.seat[p].stack
                  /\ mirror.seats[p].folded = s.meta.seat[p].folded

\* A player whose token was seen is not asked for it again while the reveal
\* lasts, though the event that starts the reveal comes a second time, late,
\* or with the snapshot of a later moment.
TokenNotAskedAgain ==
    [][\A p \in mirror.reveal.completed : p \notin mirror'.reveal.pending]_vars

\* The retry queue does not keep an event for ever: it is applied or, after
\* three attempts, replaced by a snapshot, whichever task's events come first.
Waits(e) == \/ \E i \in 1..Len(queue) : queue[i].event = e
            \/ \E i \in 1..Len(retry.todo) : retry.todo[i].event = e
            \/ \E i \in 1..Len(retry.kept) : retry.kept[i].event = e
AllEvents == UNION {UNION {{st[v].events[i] : i \in 1..Len(st[v].events)} : v \in 1..Len(st)}
                       : st \in Stories}
QueueDrains == \A e \in {x \in AllEvents : x.name \in ActionEvents \cup {"PlayerJoined"}} :
                   Waits(e) ~> ~Waits(e)

=============================================================================
