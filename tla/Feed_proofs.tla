----------------------------- MODULE Feed_proofs -----------------------------
(***************************************************************************)
(* The event feed skips nothing across restarts, and the webhook answers   *)
(* no event that was not handed to a handler, for every page size, number  *)
(* of events, set of unknown ones, capacity of the id set, set of          *)
(* concurrent requests and number of faults.                               *)
(***************************************************************************)
EXTENDS Feed, TLAPS

Pages == [next : Nat, end : Nat, more : BOOLEAN]
Requests == [step : {"idle", "mark", "handle"}, event : Nat]

FeedTypes ==
    /\ emitted \in Nat /\ saved \in Nat /\ cursor \in Nat /\ last \in Nat /\ live \in Nat
    /\ page \in Pages
    /\ requests \in [Deliveries -> Requests]

Reading == phase \in {"backfill", "poll"}

\* While the cursor file is being advanced, everything the listener has passed
\* was handed to its handler: up to its cursor, and up to where it stands in its page.
PassedIsHandled ==
    /\ Reading => \A e \in 1..cursor : e \in Done
    /\ Reading /\ page # NoPage => \A e \in 1..page.next - 1 : e \in Done
    /\ phase = "down" => page = NoPage

\* An id is marked by a request that hands its event to the handler, if it has one.
MarkedIsHandled == \A e \in hooks : e \in Done \/ Handling(e)

FeedInv == FeedTypes /\ NothingLost /\ PassedIsHandled /\ MarkedIsHandled /\ OnlyFaultsLose

\* A page after a cursor is a page, and begins after the cursor.
LEMMA PageAfterIsPage ==
    ASSUME NEW c \in Nat, emitted \in Nat
    PROVE  PageAfter(c) \in Pages /\ PageAfter(c).next = c + 1
  BY FeedAssumption DEF PageAfter, Pages, Least, FeedAssumption

\* The server starts with nothing applied and the cursor before the first event.
LEMMA FeedInit == Init => FeedInv
  BY FeedAssumption
  DEF Init, FeedInv, FeedTypes, NothingLost, PassedIsHandled, MarkedIsHandled,
      OnlyFaultsLose, Pages, Requests, Idle, NoPage, FeedAssumption

\* A step that leaves the outcome alone leaves what is done.
LEMMA OutcomeKept ==
    ASSUME handled \subseteq handled', failed \subseteq failed'
    PROVE  Done \subseteq Done'
  BY DEF Done

\* What is handed to its handler is done.
LEMMA EventIsDone ==
    ASSUME NEW e, HandleEvent(e)
    PROVE  Done \subseteq Done' /\ e \in Done'
  BY DEF HandleEvent, Done, outcome

\* Nothing that is done is undone.
LEMMA DoneGrows == [Next]_vars => Done \subseteq Done'
<1>1. (Emit \/ NextPage \/ NoMorePages \/ PageFails \/ PageDone \/ Subscribe \/ StreamDrops
        \/ Crash \/ Restart \/ UNCHANGED vars) => Done \subseteq Done'
  BY OutcomeKept DEF Emit, NextPage, NoMorePages, PageFails, PageDone, Subscribe, StreamDrops,
      Crash, Restart, vars, outcome
<1>2. (ApplyNext \/ StreamNext) => Done \subseteq Done'
  BY EventIsDone DEF ApplyNext, StreamNext
<1>3. ASSUME NEW d \in Deliveries
      PROVE  (HookLookup(d) \/ HookMark(d) \/ HookDrop(d)) => Done \subseteq Done'
  BY OutcomeKept DEF HookLookup, HookMark, HookDrop, outcome
<1>4. ASSUME NEW d \in Deliveries PROVE HookHandle(d) => Done \subseteq Done'
  BY EventIsDone DEF HookHandle
<1> QED
  BY <1>1, <1>2, <1>3, <1>4 DEF Next, Listener, Webhook, Faults

\* Steps of the listener and of the chain leave the webhook's part alone, and
\* only add to what is done.
LEMMA WebhookUndisturbed ==
    ASSUME MarkedIsHandled, OnlyFaultsLose, UNCHANGED hookVars,
           Done \subseteq Done'
    PROVE  MarkedIsHandled' /\ OnlyFaultsLose'
  BY DEF MarkedIsHandled, OnlyFaultsLose, Handling, hookVars

\* Steps of the webhook leave the listener's part alone.
LEMMA ListenerUndisturbed ==
    ASSUME NothingLost, PassedIsHandled, UNCHANGED <<saved, phase, cursor, page>>,
           Done \subseteq Done'
    PROVE  NothingLost' /\ PassedIsHandled'
  BY DEF NothingLost, PassedIsHandled, Reading

\* No step of a task, request or provider breaks the invariant.
LEMMA FeedStep == FeedInv /\ [Next]_vars => FeedInv'
<1> SUFFICES ASSUME FeedInv, [Next]_vars PROVE FeedInv'
  OBVIOUS
<1> USE DEF FeedInv
<1>0. Done \subseteq Done'
  BY DoneGrows
<1>1. CASE Emit
  <2>1. FeedTypes'
    BY <1>1 DEF Emit, FeedTypes, streamVars, hookVars
  <2>2. NothingLost' /\ PassedIsHandled'
    BY <1>0, <1>1, ListenerUndisturbed DEF Emit
  <2> QED
    BY <1>0, <1>1, <2>1, <2>2, WebhookUndisturbed DEF Emit
<1>2. CASE NextPage
  <2>1. PageAfter(cursor) \in Pages /\ PageAfter(cursor).next = cursor + 1
    BY PageAfterIsPage DEF FeedTypes
  <2>2. FeedTypes'
    BY <1>2, <2>1 DEF NextPage, FeedTypes, streamVars, hookVars
  <2>3. NothingLost'
    BY <1>0, <1>2 DEF NextPage, NothingLost
  <2>4. PassedIsHandled'
    BY <1>0, <1>2, <2>1 DEF NextPage, PassedIsHandled, Reading, FeedTypes, Paging
  <2> QED
    BY <1>0, <1>2, <2>2, <2>3, <2>4, WebhookUndisturbed DEF NextPage
<1>3. CASE NoMorePages
  <2>1. FeedTypes'
    BY <1>3 DEF NoMorePages, FeedTypes, streamVars, hookVars
  <2>2. NothingLost'
    BY <1>0, <1>3 DEF NoMorePages, NothingLost
  <2>3. PassedIsHandled'
    BY <1>0, <1>3 DEF NoMorePages, PassedIsHandled, NothingLost, Reading, Onward, Provide
  <2> QED
    BY <1>0, <1>3, <2>1, <2>2, <2>3, WebhookUndisturbed DEF NoMorePages
<1>4. CASE PageFails
  <2>1. FeedTypes'
    BY <1>4 DEF PageFails, FeedTypes, streamVars, hookVars
  <2>2. NothingLost'
    BY <1>0, <1>4 DEF PageFails, NothingLost
  <2>3. PassedIsHandled'
    BY <1>0, <1>4 DEF PageFails, PassedIsHandled, NothingLost, Reading, Onward, Provide
  <2> QED
    BY <1>0, <1>4, <2>1, <2>2, <2>3, WebhookUndisturbed DEF PageFails
<1>5. CASE ApplyNext
  <2>1. FeedTypes'
    BY <1>5 DEF ApplyNext, FeedTypes, Pages, streamVars, hookVars
  <2>2. NothingLost'
    BY <1>0, <1>5 DEF ApplyNext, NothingLost
  <2>3. PassedIsHandled'
    <3>1. page # NoPage
      BY <1>5 DEF ApplyNext, NoPage
    <3>0. page.next \in Done'
      BY <1>5, EventIsDone DEF ApplyNext
    <3>2. Reading' => \A e \in 1..page'.next - 1 : e \in Done'
      BY <1>0, <1>5, <3>0, <3>1 DEF ApplyNext, PassedIsHandled, FeedTypes, Pages, Reading
    <3>3. phase # "down"
      BY <3>1 DEF PassedIsHandled
    <3> QED
      BY <1>0, <1>5, <3>2, <3>3 DEF ApplyNext, PassedIsHandled, Reading
  <2> QED
    BY <1>0, <1>5, <2>1, <2>2, <2>3, WebhookUndisturbed DEF ApplyNext
<1>6. CASE PageDone
  <2>1. saved' \in {saved, page.end} /\ (saved' = page.end => saved' = saved \/ Reading)
    BY <1>6 DEF PageDone, Reading
  <2>2. Reading => \A e \in 1..page.end : e \in Done
    BY <1>0, <1>6 DEF PageDone, PassedIsHandled, FeedTypes, Pages
  <2>3. NothingLost'
    BY <1>0, <1>6, <2>1, <2>2 DEF PageDone, NothingLost
  <2>4. FeedTypes'
    BY <1>6, <2>1 DEF PageDone, FeedTypes, Pages, NoPage, streamVars, hookVars
  <2>5. Reading' => Reading /\ cursor' \in {saved', page.end}
    BY <1>6 DEF PageDone, Reading, Onward, Provide
  <2>6. PassedIsHandled'
    BY <1>0, <1>6, <2>2, <2>3, <2>5 DEF PageDone, PassedIsHandled, NothingLost
  <2> QED
    BY <1>0, <1>6, <2>3, <2>4, <2>6, WebhookUndisturbed DEF PageDone
<1>7. CASE Subscribe \/ StreamNext \/ StreamDrops
  <2>1. FeedTypes'
    BY <1>7 DEF Subscribe, StreamNext, StreamDrops, FeedTypes, streamVars, hookVars
  <2>2. NothingLost'
    BY <1>0, <1>7 DEF Subscribe, StreamNext, StreamDrops, NothingLost
  <2>3. PassedIsHandled'
    BY <1>0, <1>7 DEF Subscribe, StreamNext, StreamDrops, PassedIsHandled, Reading
  <2> QED
    BY <1>0, <1>7, <2>1, <2>2, <2>3, WebhookUndisturbed DEF Subscribe, StreamNext, StreamDrops
<1>8. ASSUME NEW d \in Deliveries, HookLookup(d) PROVE FeedInv'
  <2>1. FeedTypes'
    BY <1>8 DEF HookLookup, HookAt, FeedTypes, Requests, streamVars
  <2>2. \A e : Handling(e) => Handling(e)'
    BY <1>0, <1>8 DEF HookLookup, HookAt, Handling, FeedTypes, Requests
  <2>3. MarkedIsHandled' /\ OnlyFaultsLose'
    BY <1>0, <1>8, <2>2 DEF HookLookup, MarkedIsHandled, OnlyFaultsLose, Handling
  <2> QED
    BY <1>0, <1>8, <2>1, <2>3, ListenerUndisturbed DEF HookLookup
<1>9. ASSUME NEW d \in Deliveries, HookMark(d) PROVE FeedInv'
  <2>1. FeedTypes'
    BY <1>9 DEF HookMark, HookAt, FeedTypes, Requests, Idle, streamVars
  <2>2. \A e : Handling(e) => Handling(e)'
    BY <1>9 DEF HookMark, HookAt, Handling, FeedTypes, Requests
  <2>3. PICK event : event = requests[d].event
    OBVIOUS
  <2>4. event \in Done' \/ Handling(event)'
    <3>1. CASE event \in Unknown
      BY <1>0, <3>1 DEF Done
    <3>2. CASE event \notin Unknown
      BY <1>9, <2>3, <3>2 DEF HookMark, Handling, FeedTypes, Requests
    <3> QED
      BY <3>1, <3>2
  <2>5. hooks' \subseteq hooks \cup {event} /\ answered' \subseteq answered \cup {event}
    BY <1>9, <2>3 DEF HookMark
  <2>6. MarkedIsHandled' /\ OnlyFaultsLose'
    BY <1>0, <2>2, <2>4, <2>5 DEF MarkedIsHandled, OnlyFaultsLose
  <2> QED
    BY <1>0, <1>9, <2>1, <2>6, ListenerUndisturbed DEF HookMark
<1>10. ASSUME NEW d \in Deliveries, HookHandle(d) PROVE FeedInv'
  <2>1. FeedTypes'
    BY <1>10 DEF HookHandle, HookAt, FeedTypes, Requests, Idle, streamVars
  <2>0. requests[d].event \in Done'
    BY <1>10, EventIsDone DEF HookHandle
  <2>2. \A e : Handling(e) => Handling(e)' \/ e \in Done'
    BY <1>0, <1>10, <2>0 DEF HookHandle, HookAt, Handling, FeedTypes, Requests
  <2>3. MarkedIsHandled' /\ OnlyFaultsLose'
    BY <1>0, <1>10, <2>0, <2>2 DEF HookHandle, MarkedIsHandled, OnlyFaultsLose, Handling
  <2> QED
    BY <1>0, <1>10, <2>1, <2>3, ListenerUndisturbed DEF HookHandle
<1>11. CASE Crash
  <2>1. FeedTypes'
    BY <1>11 DEF Crash, FeedTypes, Pages, Requests, NoPage, Idle
  <2>2. NothingLost' /\ PassedIsHandled'
    BY <1>0, <1>11 DEF Crash, NothingLost, PassedIsHandled, Reading
  <2> QED
    BY <1>0, <1>11, <2>1, <2>2 DEF Crash, MarkedIsHandled, OnlyFaultsLose
<1>12. CASE Restart
  <2>1. FeedTypes'
    BY <1>12 DEF Restart, FeedTypes, streamVars, hookVars
  <2>2. NothingLost'
    BY <1>0, <1>12 DEF Restart, NothingLost
  <2>3. PassedIsHandled'
    BY <1>0, <1>12 DEF Restart, NothingLost, PassedIsHandled, Reading
  <2> QED
    BY <1>0, <1>12, <2>1, <2>2, <2>3, WebhookUndisturbed DEF Restart
<1>13. ASSUME NEW d \in Deliveries, HookDrop(d) PROVE FeedInv'
  <2>1. FeedTypes'
    BY <1>13 DEF HookDrop, HookAt, FeedTypes, Requests, Idle, streamVars
  <2>2. \A e : Handling(e) => Handling(e)' \/ e \in Done'
    BY <1>0, <1>13 DEF HookDrop, HookAt, Handling, FeedTypes, Requests, Done
  <2>3. MarkedIsHandled' /\ OnlyFaultsLose'
    BY <1>0, <1>13, <2>2 DEF HookDrop, MarkedIsHandled, OnlyFaultsLose
  <2> QED
    BY <1>0, <1>13, <2>1, <2>3, ListenerUndisturbed DEF HookDrop
<1>14. CASE UNCHANGED vars
  <2>1. FeedTypes'
    BY <1>14 DEF vars, FeedTypes, streamVars, hookVars
  <2>2. UNCHANGED hookVars /\ UNCHANGED <<saved, phase, cursor, page>>
    BY <1>14 DEF vars, hookVars
  <2> QED
    BY <1>0, <2>1, <2>2, ListenerUndisturbed, WebhookUndisturbed
<1> QED
  BY <1>1, <1>2, <1>3, <1>4, <1>5, <1>6, <1>7, <1>8, <1>9, <1>10, <1>11, <1>12, <1>13,
     <1>14
  DEF Next, Listener, Webhook, Faults

\* The invariant, for every number of events, requests and faults.
LEMMA FeedInvariant == Spec => []FeedInv
  BY FeedInit, FeedStep, PTL DEF Spec

\* No event at or below the saved cursor is ever left out: the order "handle the
\* page, then save its cursor" survives crashes, failed saves and failed
\* requests, and the change from the backfill to polling.
THEOREM FeedNothingLost == Spec => []NothingLost
  BY FeedInvariant, PTL DEF FeedInv

\* An event the webhook answered with OK was handed to its handler or is being
\* handled, or it has none, though two requests for it may pass the lookup
\* together and the set of ids is emptied when it is full: only a handler that
\* fails and a request cut off between the mark and the answer lose one.
THEOREM FeedOnlyFaultsLose == Spec => []OnlyFaultsLose
  BY FeedInvariant, PTL DEF FeedInv
=============================================================================
