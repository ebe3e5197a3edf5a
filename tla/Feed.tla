-------------------------------- MODULE Feed --------------------------------
(***************************************************************************)
(* Where the game server takes chain events from (texas/src/sui_listener,  *)
(* sui_grpc, sui_graphql_sub, sui_webhook): at startup a backfill page by  *)
(* page from the cursor kept in a file, then one of five providers.  The   *)
(* chain's events are numbered 1, 2, ...; one of them is a checkpoint.     *)
(* What an event does is Mirror's and Relayer's subject: here its handler  *)
(* ran, or failed, or was cut off.  A crash loses everything but the cursor*)
(* file.                                                                   *)
(***************************************************************************)
EXTENDS Integers, FiniteSets

CONSTANTS Providers,  \* the configured sui_event_provider: members of AllProviders
          MaxEvents,  \* bound: events the chain emits
          Unknown,    \* those of them parse_chain_event does not know
          PageSize,   \* events in one answer of the indexer (50)
          HookCap,    \* MAX_PROCESSED_WEBHOOK_IDS
          Deliveries, \* webhook requests that may be under way together
          MaxFaults   \* bound: crashes, and requests, saves and handlers that fail

AllProviders == {"grpc", "graphql_sub", "graphql_poll", "webhook", "both"}

ASSUME FeedAssumption ==
    /\ Providers \subseteq AllProviders
    /\ MaxEvents \in Nat
    /\ Unknown \subseteq Nat \ {0}
    /\ PageSize \in Nat \ {0}
    /\ HookCap \in Nat \ {0}
    /\ MaxFaults \in Nat

VARIABLES
    provider,
    emitted,   \* events on the chain
    saved,     \* the cursor file
    phase,     \* what the listener's task is doing
    cursor,    \* its own cursor: events up to it were asked for
    page,      \* the page it works on: next event, last event, hasNextPage
    last,      \* last_checkpoint of the gRPC stream
    live,      \* the event the stream delivers next
    hooks,     \* processed_webhook_ids
    requests,  \* webhook requests under way
    answered,  \* the contract's events the webhook answered with OK in this process
    handled,   \* events whose handler ran to its end, in any process
    failed,    \* events whose handler failed or was cut off, in any process
    faults

vars == <<provider, emitted, saved, phase, cursor, page, last, live, hooks, requests,
          answered, handled, failed, faults>>
hookVars == <<hooks, requests, answered>>
streamVars == <<last, live>>
outcome == <<handled, failed, faults>>

Paging == {"backfill", "poll", "catchup", "fallback"}
Idle == [step |-> "idle", event |-> 0]
Foreign == {0}  \* the event of another package: the numbering leaves it out
NoPage == [next |-> 1, end |-> 0, more |-> FALSE]
Least(a, b) == IF a < b THEN a ELSE b

\* Mutation of PageAfter: the cursor is taken for the first event of the page.
PageAfterNext(c) == [next |-> c + 2, end |-> Least(c + PageSize, emitted),
                     more |-> c + PageSize < emitted]

\* A page after cursor c.
PageAfter(c) == [next |-> c + 1, end |-> Least(c + PageSize, emitted),
                 more |-> c + PageSize < emitted]

Fault == faults < MaxFaults /\ faults' = faults + 1

Init ==
    /\ provider \in Providers
    /\ emitted \in 0..MaxEvents
    /\ saved = 0 /\ cursor = 0
    /\ phase = "backfill"
    /\ page = NoPage
    /\ last = 0 /\ live = 0
    /\ hooks = {} /\ answered = {}
    /\ requests = [d \in Deliveries |-> Idle]
    /\ handled = {} /\ failed = {}
    /\ faults = 0

\* An event is handed to its handler.  An unknown one is passed over.
HandleEvent(e) ==
    \/ e \in Unknown /\ UNCHANGED outcome
    \/ e \notin Unknown /\ handled' = handled \cup {e} /\ UNCHANGED <<failed, faults>>
    \/ e \notin Unknown /\ Fault /\ failed' = failed \cup {e} /\ UNCHANGED handled

\* The chain emits the next event.
Emit ==
    /\ emitted < MaxEvents
    /\ emitted' = emitted + 1
    /\ UNCHANGED <<provider, saved, phase, cursor, page, streamVars, hookVars, outcome>>

-----------------------------------------------------------------------------
(* Paging through the indexer's answers: backfill_historical_events,       *)
(* poll_events_loop, backfill_from_checkpoint and its fallback.            *)

\* Where the listener goes when there is no more to page through.
Provide == IF provider = "graphql_poll" THEN "poll"
           ELSE IF provider = "webhook" THEN "pending" ELSE "connect"
Onward == IF phase = "backfill" THEN Provide ELSE "connect"

\* Mutation of NextPage: the cursor is saved when the page is asked for.
NextPageSaved ==
    /\ phase \in Paging /\ page = NoPage /\ cursor < emitted
    /\ page' = PageAfter(cursor)
    /\ saved' = IF phase \in {"backfill", "poll"} THEN PageAfter(cursor).end ELSE saved
    /\ UNCHANGED <<provider, emitted, phase, cursor, streamVars, hookVars, outcome>>

NextPage ==
    /\ phase \in Paging /\ page = NoPage /\ cursor < emitted
    /\ page' = PageAfter(cursor)
    /\ UNCHANGED <<provider, emitted, saved, phase, cursor, streamVars, hookVars, outcome>>

\* An empty answer: polling asks again later, the others are done.
NoMorePages ==
    /\ phase \in Paging \ {"poll"} /\ page = NoPage /\ cursor >= emitted
    /\ phase' = Onward
    /\ cursor' = IF Onward = "poll" THEN saved ELSE cursor
    /\ UNCHANGED <<provider, emitted, saved, page, streamVars, hookVars, outcome>>

\* A request fails or is answered with errors: polling asks again, a backfill
\* gives up; a catch-up that is not understood pages through everything.
PageFails ==
    /\ phase \in Paging \ {"poll"} /\ page = NoPage /\ Fault
    /\ \/ /\ phase' = Onward
          /\ cursor' = IF Onward = "poll" THEN saved ELSE cursor
       \/ phase = "catchup" /\ phase' = "fallback" /\ cursor' = 0
    /\ UNCHANGED <<provider, emitted, saved, page, streamVars, hookVars, handled, failed>>

\* The next event of the page is handled.
ApplyNext ==
    /\ page.next <= page.end
    /\ HandleEvent(page.next)
    /\ page' = [page EXCEPT !.next = @ + 1]
    /\ UNCHANGED <<provider, emitted, saved, phase, cursor, streamVars, hookVars>>

\* The page is done.  The startup backfill and the polling loop save the
\* cursor; a write that fails is only logged.
PageDone ==
    /\ page # NoPage /\ page.next > page.end
    /\ page' = NoPage
    /\ \/ saved' = (IF phase \in {"backfill", "poll"} THEN page.end ELSE saved)
          /\ UNCHANGED faults
       \/ phase \in {"backfill", "poll"} /\ Fault /\ saved' = saved
    /\ phase' = IF page.more \/ phase = "poll" THEN phase ELSE Onward
    /\ cursor' = IF phase' = "poll" /\ phase = "backfill" THEN saved' ELSE page.end
    /\ UNCHANGED <<provider, emitted, streamVars, hookVars, handled, failed>>

-----------------------------------------------------------------------------
(* The streams.                                                            *)

\* A subscription begins with what is emitted after it.
Subscribe ==
    /\ phase = "connect"
    /\ phase' = "stream"
    /\ live' = emitted + 1
    /\ UNCHANGED <<provider, emitted, saved, cursor, page, last, hookVars, outcome>>

Counted == provider \in {"grpc", "both"}

StreamNext ==
    /\ phase = "stream" /\ live <= emitted
    /\ HandleEvent(live)
    /\ last' = IF Counted THEN live ELSE last
    /\ live' = live + 1
    /\ UNCHANGED <<provider, emitted, saved, phase, cursor, page, hookVars>>

\* The stream ends or fails.  Only gRPC looks for what it may have missed, from
\* the last checkpoint it has seen.
StreamDrops ==
    /\ phase = "stream" /\ Fault
    /\ phase' = IF Counted /\ last > 0 THEN "catchup" ELSE "connect"
    /\ cursor' = last
    /\ UNCHANGED <<provider, emitted, saved, page, streamVars, hookVars, handled, failed>>

-----------------------------------------------------------------------------
(* The webhook: look up the id, mark it, handle the event, answer.  Each    *)
(* awaits a lock or the handler, and the request may be cut off there.     *)

HookAt(d, step) == requests[d].step = step

\* A request: a first delivery or another.  Another package's event is answered
\* at once and leaves nothing behind, a marked id is answered as a duplicate.
HookLookup(d) ==
    /\ phase # "down" /\ HookAt(d, "idle") /\ provider \in {"webhook", "both"}
    /\ \E e \in Foreign \cup 1..emitted :
          \/ e \in Foreign /\ UNCHANGED <<answered, requests>>
          \/ e \in hooks /\ answered' = answered \cup {e} /\ UNCHANGED requests
          \/ /\ e \notin hooks \cup Foreign
             /\ requests' = [requests EXCEPT ![d] = [step |-> "mark", event |-> e]]
             /\ UNCHANGED answered
    /\ UNCHANGED <<provider, emitted, saved, phase, cursor, page, streamVars, hooks, outcome>>

\* mark_webhook_processed: a full set is emptied first.  An event that cannot be
\* parsed is marked too, and answered.
HookMark(d) ==
    /\ HookAt(d, "mark")
    /\ hooks' = (IF Cardinality(hooks) >= HookCap THEN {} ELSE hooks) \cup {requests[d].event}
    /\ IF requests[d].event \in Unknown
       THEN /\ requests' = [requests EXCEPT ![d] = Idle]
            /\ answered' = answered \cup {requests[d].event}
       ELSE requests' = [requests EXCEPT ![d].step = "handle"] /\ UNCHANGED answered
    /\ UNCHANGED <<provider, emitted, saved, phase, cursor, page, streamVars, outcome>>

\* Mutation of HookHandle: an id that is marked is not handled (it always is).
HookHandleUnmarked(d) ==
    /\ HookAt(d, "handle")
    /\ IF requests[d].event \in hooks THEN UNCHANGED outcome ELSE HandleEvent(requests[d].event)
    /\ answered' = answered \cup {requests[d].event}
    /\ requests' = [requests EXCEPT ![d] = Idle]
    /\ UNCHANGED <<provider, emitted, saved, phase, cursor, page, streamVars, hooks>>

\* The handler returns, having failed or not: the answer is OK.
HookHandle(d) ==
    /\ HookAt(d, "handle")
    /\ HandleEvent(requests[d].event)
    /\ answered' = answered \cup {requests[d].event}
    /\ requests' = [requests EXCEPT ![d] = Idle]
    /\ UNCHANGED <<provider, emitted, saved, phase, cursor, page, streamVars, hooks>>

\* The client hangs up, or the request panics: the id stays marked.
HookDrop(d) ==
    /\ ~HookAt(d, "idle") /\ Fault
    /\ failed' = IF HookAt(d, "handle") THEN failed \cup {requests[d].event} ELSE failed
    /\ requests' = [requests EXCEPT ![d] = Idle]
    /\ UNCHANGED <<provider, emitted, saved, phase, cursor, page, streamVars, hooks, answered,
                   handled>>

-----------------------------------------------------------------------------
(* The process.                                                            *)

Crash ==
    /\ phase # "down" /\ Fault
    /\ phase' = "down"
    /\ page' = NoPage /\ cursor' = 0 /\ last' = 0 /\ live' = 0
    /\ hooks' = {} /\ answered' = {} /\ requests' = [d \in Deliveries |-> Idle]
    /\ UNCHANGED <<provider, emitted, saved, handled, failed>>

Restart ==
    /\ phase = "down"
    /\ phase' = "backfill"
    /\ cursor' = saved
    /\ UNCHANGED <<provider, emitted, saved, page, streamVars, hookVars, outcome>>

Listener == NextPage \/ NoMorePages \/ ApplyNext \/ PageDone \/ Subscribe \/ StreamNext
            \/ Restart
Webhook == \E d \in Deliveries : HookLookup(d) \/ HookMark(d) \/ HookHandle(d)
Faults == PageFails \/ StreamDrops \/ Crash \/ \E d \in Deliveries : HookDrop(d)

Next == Emit \/ Listener \/ Webhook \/ Faults

\* The listener's task runs as long as it can; faults are what interrupts it.
Spec == Init /\ [][Next]_vars /\ WF_vars(Listener)

-----------------------------------------------------------------------------
\* What was handled, what a fault took from its handler, what has no handler.
Done == handled \cup failed \cup Unknown

Handling(e) == \E d \in Deliveries : requests[d] = [step |-> "handle", event |-> e]

\* The cursor file never passes an event that was not handed to its handler,
\* though the process may die at any moment between the events of a page, a save
\* may fail, and a poll continues from the file rather than from the backfill's
\* cursor: a restart skips nothing.
NothingLost == 1..saved \subseteq Done

\* An event of the contract that the webhook answered with OK, as a duplicate
\* too, was handled or is being handled: only a handler that failed, or a request
\* cut off after it marked the id, leaves an answered event unhandled.
OnlyFaultsLose == \A e \in answered : e \in Done \/ Handling(e)

\* With polling every event is handed to its handler in the end, whatever crashes,
\* failed requests and failed saves come in between.
PollingMissesNothing ==
    \A e \in 1..MaxEvents :
        (provider = "graphql_poll" /\ e <= emitted) ~> (e \in Done)
=============================================================================
