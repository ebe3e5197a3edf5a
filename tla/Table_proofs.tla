---------------------------- MODULE Table_proofs ----------------------------
(***************************************************************************)
(* The table contract for every number of seats, set of players, blinds    *)
(* and deck and every order of calls.  The first part is about the         *)
(* internal functions of table.move (HandFlow): what they leave alone, and *)
(* that each of them, called as the contract calls it, keeps the invariant *)
(* Good.  The second part is about the entry points (Table), and ends in   *)
(* the theorems: the phases of the card protocol exclude each other, every *)
(* shuffle covers the active seats, and the aggregated key is the sum of   *)
(* their keys.                                                             *)
(***************************************************************************)
EXTENDS TableProperties, SidePot_proofs

TableFields ==
    {"seats", "button", "pot", "round", "betting", "turn", "shuffle", "reveal",
     "reconstruct", "dealt", "decrypted", "ready", "board", "blanks", "agg",
     "timers", "balance", "ok"}

SeatFields ==
    {"player", "stack", "bet", "total_bet", "folded", "all_in", "acted",
     "is_waiting", "left", "refunded"}

\* A table has the fields the functions update.
Shaped(t) ==
    /\ DOMAIN t = TableFields
    /\ DOMAIN t.seats = Seats
    /\ \A s \in Seats : DOMAIN t.seats[s] = SeatFields
    /\ DOMAIN t.betting = {"open", "current_bet", "min_raise"}
    /\ DOMAIN t.shuffle = {"phase", "current", "pending", "completed"}
    /\ DOMAIN t.reveal = {"phase", "asg"}
    /\ DOMAIN t.reconstruct = {"phase", "pending", "decks"}
    /\ DOMAIN t.agg = Players
    /\ t.ready \in Int
    /\ IsFiniteSet(t.decrypted)
    /\ t.reconstruct.pending \subseteq Seats

\* The same players sit at u as at t, wait or take part alike, and their keys
\* are in the aggregated key alike.  Who was kicked gets no stack again.
SameSeating(t, u) ==
    /\ \A s \in Seats :
          /\ u.seats[s].left = t.seats[s].left
          /\ u.seats[s].is_waiting = t.seats[s].is_waiting
          /\ ~t.seats[s].left => u.seats[s].player = t.seats[s].player
          /\ t.seats[s].left /\ t.seats[s].stack = 0 => u.seats[s].stack = 0
    /\ u.agg = t.agg

\* The phases, the button and whether betting is open are the same.
SamePhases(t, u) ==
    /\ u.round = t.round
    /\ u.button = t.button
    /\ u.betting.open = t.betting.open
    /\ u.shuffle = t.shuffle
    /\ u.reveal = t.reveal
    /\ u.reconstruct = t.reconstruct

\* A step of chips, cards or timers only.
Aside(t, u) == Shaped(u) /\ SameSeating(t, u) /\ SamePhases(t, u)

\* Doing nothing is a step aside.
LEMMA AsideReflexive ==
    ASSUME NEW t, Shaped(t)
    PROVE  Aside(t, t)
BY DEF Aside, SameSeating, SamePhases

\* Steps aside add up: a function that pays, then pays again, is still one.
LEMMA AsideTransitive ==
    ASSUME NEW t, NEW u, NEW v, Aside(t, u), Aside(u, v)
    PROVE  Aside(t, v)
BY DEF Aside, SameSeating, SamePhases

\* Who is active depends on the seating only.
LEMMA SeatingDecides ==
    ASSUME NEW t, NEW u, SameSeating(t, u)
    PROVE  /\ OccupiedSeats(u) = OccupiedSeats(t)
           /\ ActiveSeats(u) = ActiveSeats(t)
BY DEF SameSeating, OccupiedSeats, ActiveSeats, IsSeatOccupied

\* Active seats are occupied, and occupied seats are seats of the table.
LEMMA ActiveAreSeats ==
    ASSUME NEW t
    PROVE  ActiveSeats(t) \subseteq OccupiedSeats(t) /\ OccupiedSeats(t) \subseteq Seats
BY DEF ActiveSeats, OccupiedSeats

-----------------------------------------------------------------------------
(* Aborts, chips and keys.                                                 *)

\* A failed assert leaves seating and phases as they were.
LEMMA AbortAside ==
    ASSUME NEW t, Shaped(t)
    PROVE  Aside(t, Abort(t))
BY DEF Aside, SameSeating, SamePhases, Shaped, TableFields, Abort

\* assert! leaves seating and phases as they were, whether it holds or not.
LEMMA RequireAside ==
    ASSUME NEW t, Shaped(t), NEW cond
    PROVE  Aside(t, Require(t, cond))
BY AbortAside, AsideReflexive DEF Require

\* refund_sui_to_player moves SUI, and aborts when the balance is too low.
LEMMA RefundSuiAside ==
    ASSUME NEW t, Shaped(t), NEW chips
    PROVE  Aside(t, RefundSui(t, chips))
<1> DEFINE u == [t EXCEPT !.balance = @ - chips * Ratio]
<1>1. Aside(t, u)
  BY DEF Aside, SameSeating, SamePhases, Shaped, TableFields
<1>2. RefundSui(t, chips) = Require(u, t.balance >= chips * Ratio)
  BY DEF RefundSui
<1>3. Aside(u, Require(u, t.balance >= chips * Ratio))
  BY <1>1, RequireAside DEF Aside
<1> QED
  BY <1>1, <1>2, <1>3, AsideTransitive

\* collect_bets_to_pot moves the bets of the street into the pot.
LEMMA CollectBetsAside ==
    ASSUME NEW t, Shaped(t)
    PROVE  Aside(t, CollectBetsToPot(t))
BY DEF Aside, SameSeating, SamePhases, Shaped, TableFields, SeatFields, CollectBetsToPot

\* Chips go to seats that are occupied.
LEMMA StacksAside ==
    ASSUME NEW t, Shaped(t), NEW S, S \subseteq OccupiedSeats(t), NEW stacks
    PROVE  Aside(t, [t EXCEPT !.seats = [s \in Seats |->
                        IF s \in S THEN [t.seats[s] EXCEPT !.stack = stacks[s]] ELSE t.seats[s]]])
BY DEF Aside, SameSeating, SamePhases, Shaped, TableFields, SeatFields,
       OccupiedSeats, IsSeatOccupied

\* A pot split among occupied seats only moves chips.
LEMMA SplitAmongAside ==
    ASSUME NEW t, Shaped(t), NEW S, S \subseteq OccupiedSeats(t), NEW amount
    PROVE  Aside(t, SplitAmong(t, S, amount))
<1>1. CASE S = {}
  BY <1>1, AsideReflexive DEF SplitAmong
<1>2. CASE S # {}
  <2> DEFINE share == amount \div Cardinality(S)
             part(s) == share + (IF s = Min(S) THEN amount % Cardinality(S) ELSE 0)
             stacks == [s \in Seats |-> t.seats[s].stack + part(s)]
  <2>1. SplitAmong(t, S, amount) =
           [t EXCEPT !.seats = [s \in Seats |->
              IF s \in S THEN [t.seats[s] EXCEPT !.stack = stacks[s]] ELSE t.seats[s]]]
    BY <1>2 DEF SplitAmong
  <2> HIDE DEF stacks
  <2> QED
    BY <2>1, StacksAside
<1> QED
  BY <1>1, <1>2

\* The seats a settlement or an early end pays are occupied.
LEMMA LiveAreOccupied ==
    ASSUME NEW t
    PROVE  /\ LiveSeats(t) \subseteq OccupiedSeats(t)
           /\ UnfoldedSeats(t) \subseteq OccupiedSeats(t)
BY DEF LiveSeats, ActiveSeats, UnfoldedSeats

\* A pot goes to its winners, or to those it falls back on.
LEMMA AwardAside ==
    ASSUME NEW t, Shaped(t), NEW amount, NEW winners, NEW fallback,
           winners \subseteq OccupiedSeats(t), fallback \subseteq OccupiedSeats(t)
    PROVE  Aside(t, Award(t, amount, winners, fallback))
BY SplitAmongAside DEF Award

\* The main pot only moves chips, whoever wins it.
LEMMA DistributePotAside ==
    ASSUME NEW t, Shaped(t), NEW amount, NEW ranks
    PROVE  Aside(t, DistributePot(t, amount, ranks))
BY AwardAside, LiveAreOccupied DEF DistributePot, Winners

\* A side pot only moves chips, whoever wins it.
LEMMA DistributeSidePotAside ==
    ASSUME NEW t, Shaped(t), NEW pot, NEW ranks
    PROVE  Aside(t, DistributeSidePot(t, pot, ranks))
BY AwardAside, LiveAreOccupied DEF DistributeSidePot, Winners

\* A table has finitely many seats.
LEMMA SeatsFinite == IsFiniteSet(Seats)
BY TableAssumption, FS_Interval DEF Seats

\* calculate_side_pots returns a list of pots, of some length.
LEMMA PotsAreASequence ==
    ASSUME NEW t
    PROVE  Len(Pots(t)) \in Nat
<1> DEFINE in(s) == t.seats[s].player # NoPlayer
           bets == [s \in Seats |-> IF in(s) THEN t.seats[s].total_bet ELSE 0]
           folded == Seats \ UnfoldedSeats(t)
           allIn == {s \in OccupiedSeats(t) : t.seats[s].all_in}
           layers == Layers(bets, folded, allIn)
           everyone == Pot(MapThenSumSet(LAMBDA s : bets[s], DOMAIN bets),
                           DOMAIN bets \ folded)
<1>1. Pots(t) = CalculateSidePots(bets, folded, allIn)
  BY DEF Pots
<1>2. \/ CalculateSidePots(bets, folded, allIn) = <<everyone>>
      \/ CalculateSidePots(bets, folded, allIn) = MergeDeadOuterPot(layers)
  BY DEF CalculateSidePots
<1> HIDE DEF everyone
<1>3. IsFiniteSet(allIn)
  BY SeatsFinite, FS_Subset DEF OccupiedSeats
<1>4. PICK S : layers \in Seq(S)
  BY <1>3, LayersAreASequence
<1> HIDE DEF layers, bets, folded, allIn
<1>5. Len(MergeDeadOuterPot(layers)) \in Nat
  <2>1. CASE layers = <<>>
    BY <2>1 DEF MergeDeadOuterPot
  <2>2. CASE layers # <<>>
    <3>1. SubSeq(layers, 1, Len(layers) - 1) \in Seq(S)
      BY <1>4, <2>2
    <3> QED
      BY <1>4, <3>1 DEF MergeDeadOuterPot
  <2> QED
    BY <2>1, <2>2
<1> QED
  BY <1>1, <1>2, <1>5

\* settle_hand pays one pot: chips move, nothing else.
LEMMA PayPotAside ==
    ASSUME NEW t, Shaped(t), NEW pots, NEW i, NEW ranks
    PROVE  Aside(t, PayPot(t, pots, i, ranks))
BY DistributePotAside, DistributeSidePotAside DEF PayPot

\* paid are the tables in between when one pot is paid after the other; what
\* the pots leave of the chips is split.
PaysInTurn(paid, t, pots, ranks) ==
    /\ paid[0] = t
    /\ \A i \in 1 .. Len(pots) : paid[i] = PayPot(paid[i - 1], pots, i, ranks)
    /\ PayPots(t, pots, ranks) =
          IF PotsTotal(pots) < t.pot
          THEN SplitAmong(paid[Len(pots)], LiveSeats(t), t.pot - PotsTotal(pots))
          ELSE paid[Len(pots)]

\* settle_hand pays the pots one after the other.
LEMMA PayPotsSteps ==
    ASSUME NEW t, NEW pots, Len(pots) \in Nat, NEW ranks
    PROVE  \E paid : PaysInTurn(paid, t, pots, ranks)
<1> DEFINE n == Len(pots)
           Step(g, i) == IF i = 0 THEN t ELSE PayPot(g[i - 1], pots, i, ranks)
           paid == CHOOSE g : g = [i \in 0 .. n |-> Step(g, i)]
           Known == {k \in 0 .. n : \E g : g = [i \in 0 .. k |-> Step(g, i)]}
<1>1. \A k \in 0 .. n : k \in Known
  <2>1. 0 \in Known
    <3> DEFINE g == [i \in 0 .. 0 |-> t]
    <3>1. \A i \in 0 .. 0 : g[i] = Step(g, i)
      OBVIOUS
    <3>2. g = [i \in 0 .. 0 |-> Step(g, i)]
      BY <3>1
    <3> HIDE DEF g
    <3> QED
      BY <3>2
  <2>2. ASSUME NEW k \in 1 .. n, k - 1 \in Known
        PROVE  k \in Known
    <3>1. PICK g : g = [i \in 0 .. k - 1 |-> Step(g, i)]
      BY <2>2
    <3> DEFINE h == [i \in 0 .. k |-> IF i = k THEN PayPot(g[k - 1], pots, k, ranks)
                                      ELSE g[i]]
    <3>2. \A i \in 0 .. k : h[i] = Step(h, i)
      <4> TAKE i \in 0 .. k
      <4>1. CASE i = k
        BY <4>1
      <4>2. CASE i # k
        BY <4>2, <3>1
      <4> QED
        BY <4>1, <4>2
    <3>3. h = [i \in 0 .. k |-> Step(h, i)]
      BY <3>2
    <3> HIDE DEF h
    <3> QED
      BY <3>3
  <2> HIDE DEF Known
  <2> QED
    BY <2>1, <2>2, UpTo
<1>2. paid = [i \in 0 .. n |-> Step(paid, i)]
  <2>1. n \in Known
    BY <1>1
  <2> QED
    BY <2>1
<1>3. PayPots(t, pots, ranks) =
         IF PotsTotal(pots) < t.pot
         THEN SplitAmong(paid[n], LiveSeats(t), t.pot - PotsTotal(pots)) ELSE paid[n]
  BY DEF PayPots, PotsTotal
<1> HIDE DEF paid
<1>4. paid[0] = t /\ \A i \in 1 .. n : paid[i] = PayPot(paid[i - 1], pots, i, ranks)
  BY <1>2
<1> QED
  BY <1>3, <1>4 DEF PaysInTurn

\* settle_hand pays all pots one after the other, however many there are:
\* chips move, nothing else.
LEMMA PayPotsAside ==
    ASSUME NEW t, Shaped(t), NEW pots, Len(pots) \in Nat, NEW ranks
    PROVE  Aside(t, PayPots(t, pots, ranks))
<1>0. PICK paid : PaysInTurn(paid, t, pots, ranks)
  BY PayPotsSteps
<1>1. /\ paid[0] = t
      /\ \A i \in 1 .. Len(pots) : paid[i] = PayPot(paid[i - 1], pots, i, ranks)
      /\ PayPots(t, pots, ranks) =
            IF PotsTotal(pots) < t.pot
            THEN SplitAmong(paid[Len(pots)], LiveSeats(t), t.pot - PotsTotal(pots))
            ELSE paid[Len(pots)]
  BY <1>0 DEF PaysInTurn
<1> DEFINE n == Len(pots)
           Good == {i \in 0 .. n : Aside(t, paid[i])}
<1>2. \A i \in 0 .. n : i \in Good
  <2>1. 0 \in Good
    BY <1>1, AsideReflexive
  <2>2. ASSUME NEW i \in 1 .. n, i - 1 \in Good
        PROVE  i \in Good
    <3>1. paid[i] = PayPot(paid[i - 1], pots, i, ranks)
      BY <1>1
    <3>2. Aside(t, paid[i - 1]) /\ Shaped(paid[i - 1])
      BY <2>2 DEF Aside
    <3> QED
      BY <3>1, <3>2, PayPotAside, AsideTransitive
  <2> HIDE DEF Good
  <2> QED
    BY <2>1, <2>2, UpTo
<1>3. Aside(t, paid[n])
  BY <1>2
<1>4. LiveSeats(t) \subseteq OccupiedSeats(paid[n])
  BY <1>3, SeatingDecides, LiveAreOccupied DEF Aside
<1> QED
  BY <1>1, <1>3, <1>4, SplitAmongAside, AsideTransitive DEF Aside

\* Every bet goes back; who was kicked leaves the seat for good.
LEMMA RefundAllBetsAside ==
    ASSUME NEW t, Shaped(t)
    PROVE  Aside(t, RefundAllBets(t))
<1> DEFINE due == {s \in Seats : ~t.seats[s].refunded /\ t.seats[s].total_bet > 0}
           home == due \cap OccupiedSeats(t)
           gone == {s \in due \ home : t.seats[s].left}
           refund(s) ==
               [t.seats[s] EXCEPT
                   !.stack = IF s \in home THEN @ + t.seats[s].total_bet ELSE @,
                   !.refunded = @ \/ s \in home \cup gone,
                   !.player = IF s \in gone THEN NoPlayer ELSE @,
                   !.bet = 0, !.total_bet = 0]
           u == [t EXCEPT !.seats = [s \in Seats |-> refund(s)], !.pot = 0]
<1>1. \E chips : RefundAllBets(t) = RefundSui(u, chips)
  BY DEF RefundAllBets
<1>2. home \subseteq OccupiedSeats(t) /\ (\A s \in gone : t.seats[s].left)
  OBVIOUS
<1> HIDE DEF home, gone
<1>3. \A s \in Seats :
         LET seat == refund(s)
         IN  /\ DOMAIN seat = SeatFields
             /\ seat.left = t.seats[s].left
             /\ seat.is_waiting = t.seats[s].is_waiting
             /\ ~t.seats[s].left => seat.player = t.seats[s].player
             /\ t.seats[s].left /\ t.seats[s].stack = 0 => seat.stack = 0
  BY <1>2 DEF Shaped, SeatFields, OccupiedSeats, IsSeatOccupied
<1> HIDE DEF refund
<1>4. Aside(t, u)
  BY <1>3 DEF Aside, SameSeating, SamePhases, Shaped, TableFields
<1> HIDE DEF u
<1> QED
  BY <1>1, <1>4, RefundSuiAside, AsideTransitive DEF Aside

-----------------------------------------------------------------------------
(* The phases of a hand.                                                   *)

\* The reveal phases that ask seats for tokens of other players' cards.
Asked == {"preflop", "flop", "turn", "river"}

\* Which phases may be open together, and in which round.
Exclusive(t) ==
    /\ t.betting.open => /\ t.shuffle.phase = "none"
                         /\ t.reveal.phase = "none"
                         /\ t.reconstruct.phase = "none"
    /\ t.shuffle.phase \in ShufflePhases
    /\ t.shuffle.phase # "none" => t.reconstruct.phase = "none"
    /\ t.shuffle.phase = "before_preflop" => t.round = "waiting"
    /\ t.shuffle.phase = "reconstruct" => t.round \notin {"waiting", "preflop"}
    /\ t.reconstruct.phase # "none" => t.round \notin {"waiting", "preflop"}
    /\ t.round = "waiting" => /\ t.reveal.phase = "none"
                              /\ t.reconstruct.phase = "none"
                              /\ ~t.betting.open

\* A reveal waits for active seats only, and a card that is decrypted for
\* none.  Behind a reconstruction it waits for nobody, and it is not over.
Asking(t) ==
    /\ t.reveal.phase # "none" =>
          IsFiniteSet(DOMAIN t.reveal.asg) /\ DOMAIN t.reveal.asg \subseteq Nat
    /\ t.reveal.phase \in Asked =>
          /\ \A a \in DOMAIN t.reveal.asg :
                /\ DOMAIN t.reveal.asg[a] = {"card", "pending", "decrypted", "dealt_to"}
                /\ t.reveal.asg[a].pending \subseteq ActiveSeats(t)
                /\ t.reveal.asg[a].decrypted => t.reveal.asg[a].pending = {}
          /\ t.reconstruct.phase # "none" \/ t.shuffle.phase = "reconstruct" =>
                /\ \A a \in DOMAIN t.reveal.asg : t.reveal.asg[a].pending = {}
                /\ \E a \in DOMAIN t.reveal.asg : ~t.reveal.asg[a].decrypted

\* The aggregated key is that of the active seats; a seat whose player was
\* kicked holds no chips and waits for no hand.
Keyed(t) ==
    /\ \A p \in Players :
          t.agg[p] = Cardinality({s \in ActiveSeats(t) : t.seats[s].player = p})
    /\ \A s \in Seats :
          t.seats[s].left => t.seats[s].stack = 0 /\ ~t.seats[s].is_waiting

\* Who has shuffled takes part, and no active seat is left out of a shuffle.
Covers(t) ==
    /\ t.shuffle.completed \subseteq ActiveSeats(t)
    /\ t.shuffle.pending \cap t.shuffle.completed = {}
    /\ t.shuffle.phase # "none" =>
          t.shuffle.pending \cup t.shuffle.completed = ActiveSeats(t)

Sound(t) == Shaped(t) /\ Exclusive(t) /\ Asking(t) /\ Keyed(t) /\ Covers(t)

\* The shuffler whose turn it is still has to shuffle.
Led(t) == t.shuffle.phase # "none" => t.shuffle.current \in t.shuffle.pending

Good(t) == Sound(t) /\ Led(t)

\* No phase of the card protocol is open.
Still(t) ==
    /\ t.shuffle.phase = "none"
    /\ t.reveal.phase = "none"
    /\ t.reconstruct.phase = "none"

\* Between two hands.
Idle(t) == Good(t) /\ Still(t) /\ t.round = "waiting"

\* At most a reveal is open.
Calm(t) == t.shuffle.phase = "none" /\ t.reconstruct.phase = "none"

\* A reveal that waits for tokens has a card to open.
Unanswered(t) ==
    t.reveal.phase \in Asked =>
        \E a \in DOMAIN t.reveal.asg : ~t.reveal.asg[a].decrypted

\* What a function promises that leaves at most a reveal open.
Onward(t) == Good(t) /\ Calm(t) /\ Unanswered(t)

-----------------------------------------------------------------------------
(* The invariant does not depend on chips, cards and timers.               *)

\* The same seating has the same keys.
LEMMA SeatingKeyed ==
    ASSUME NEW t, NEW u, Keyed(t), SameSeating(t, u)
    PROVE  Keyed(u)
<1>1. \A s \in Seats :
         u.seats[s].left => u.seats[s].stack = 0 /\ ~u.seats[s].is_waiting
  BY DEF Keyed, SameSeating
<1>2. ASSUME NEW p \in Players
      PROVE  {s \in ActiveSeats(u) : u.seats[s].player = p} =
             {s \in ActiveSeats(t) : t.seats[s].player = p}
  <2>1. \A s \in ActiveSeats(t) : s \in Seats /\ ~t.seats[s].left
    BY DEF ActiveSeats, OccupiedSeats, IsSeatOccupied
  <2> QED
    BY <2>1, SeatingDecides DEF SameSeating
<1>3. u.agg = t.agg
  BY DEF SameSeating
<1> QED
  BY <1>1, <1>2, <1>3 DEF Keyed

\* Steps of chips, cards and timers keep the invariant and the phases.
LEMMA AsideSound ==
    ASSUME NEW t, NEW u, Sound(t), Aside(t, u)
    PROVE  /\ Sound(u)
           /\ Led(t) => Led(u)
           /\ Still(t) => Still(u)
           /\ Calm(t) => Calm(u)
           /\ Unanswered(t) => Unanswered(u)
           /\ Idle(t) => Idle(u)
<1>1. ActiveSeats(u) = ActiveSeats(t)
  BY SeatingDecides DEF Aside
<1>2. Shaped(u)
  BY DEF Aside
<1>3. Exclusive(u)
  BY DEF Sound, Aside, SamePhases, Exclusive
<1>4. Asking(u)
  BY <1>1 DEF Sound, Aside, SamePhases, Asking
<1>5. Keyed(u)
  BY SeatingKeyed DEF Sound, Aside
<1>6. Covers(u)
  BY <1>1 DEF Sound, Aside, SamePhases, Covers
<1>7. Sound(u)
  BY <1>2, <1>3, <1>4, <1>5, <1>6 DEF Sound
<1>8. Led(t) => Led(u)
  BY DEF Aside, SamePhases, Led
<1> QED
  BY <1>7, <1>8 DEF Aside, SamePhases, Still, Calm, Unanswered, Idle, Good

\* A failed assert changes no phase.
LEMMA RequireSound ==
    ASSUME NEW t, NEW cond, Sound(t)
    PROVE  /\ Sound(Require(t, cond))
           /\ Led(t) => Led(Require(t, cond))
           /\ Still(t) => Still(Require(t, cond))
           /\ Calm(t) => Calm(Require(t, cond))
           /\ Unanswered(t) => Unanswered(Require(t, cond))
           /\ Idle(t) => Idle(Require(t, cond))
<1>1. Aside(t, Require(t, cond))
  BY RequireAside DEF Sound
<1> QED
  BY <1>1, AsideSound

\* With nothing but a reveal open nobody shuffles.
LEMMA CalmLed ==
    ASSUME NEW t, Calm(t)
    PROVE  Led(t)
BY DEF Calm, Led

-----------------------------------------------------------------------------
(* The end of a hand.                                                      *)

\* Sets of seats are finite.
LEMMA SomeSeatsFinite ==
    ASSUME NEW S, S \subseteq Seats
    PROVE  IsFiniteSet(S) /\ Cardinality(S) \in Nat
BY SeatsFinite, FS_Subset, FS_CardinalityType

\* reset_for_next_hand: who has chips, the waiting included, is active in the
\* next hand with the key in the aggregated key; nothing else is open.
LEMMA ResetIdle ==
    ASSUME NEW t, Shaped(t), Keyed(t)
    PROVE  Idle(ResetForNextHand(t))
<1> DEFINE u == ResetForNextHand(t)
           broke == {s \in Seats : t.seats[s].player # NoPlayer /\ t.seats[s].stack = 0}
           added(p) == {s \in Seats : t.seats[s].is_waiting /\ t.seats[s].player = p}
           removed(p) == {s \in broke : t.seats[s].player = p /\ ~t.seats[s].left}
           nobody == \A s \in Seats : u.seats[s].player = NoPlayer
           key(p) == t.agg[p] + Cardinality(added(p)) - Cardinality(removed(p))
<1>1. /\ \A s \in broke : u.seats[s] = EmptySeat
      /\ \A s \in Seats \ broke : u.seats[s] =
           [t.seats[s] EXCEPT !.bet = 0, !.total_bet = 0, !.folded = FALSE,
                              !.all_in = FALSE, !.acted = FALSE,
                              !.is_waiting = FALSE, !.left = FALSE]
      /\ DOMAIN u.seats = Seats
  BY DEF ResetForNextHand, Shaped, TableFields
<1>2. u.agg = [p \in Players |-> IF nobody THEN 0 ELSE key(p)]
  BY DEF ResetForNextHand, Shaped, TableFields
<1>3. /\ u.betting = NoRound /\ u.round = "waiting" /\ u.ready = 0
      /\ u.decrypted = {}
      /\ u.shuffle = EmptyShuffle /\ u.reveal = EmptyReveal
      /\ u.reconstruct = EmptyReconstruct
      /\ DOMAIN u = TableFields
  BY DEF ResetForNextHand, Shaped, TableFields
<1> HIDE DEF u
<1>4. \A s \in Seats : /\ DOMAIN u.seats[s] = SeatFields
                       /\ ~u.seats[s].left /\ ~u.seats[s].is_waiting
                       /\ u.seats[s].player =
                             IF s \in broke THEN NoPlayer ELSE t.seats[s].player
  <2> TAKE s \in Seats
  <2> HIDE DEF broke
  <2>1. CASE s \in broke
    <3>1. DOMAIN EmptySeat = SeatFields
      BY DEF SeatFields, EmptySeat
    <3>2. /\ ~EmptySeat.left /\ ~EmptySeat.is_waiting
          /\ EmptySeat.player = NoPlayer
      BY DEF EmptySeat
    <3> QED
      BY <2>1, <1>1, <3>1, <3>2
  <2>2. CASE s \notin broke
    <3>1. DOMAIN t.seats[s] = SeatFields
      BY DEF Shaped
    <3>2. u.seats[s] = [t.seats[s] EXCEPT !.bet = 0, !.total_bet = 0, !.folded = FALSE,
                              !.all_in = FALSE, !.acted = FALSE,
                              !.is_waiting = FALSE, !.left = FALSE]
      BY <2>2, <1>1
    <3> QED
      BY <2>2, <3>1, <3>2 DEF SeatFields
  <2> QED
    BY <2>1, <2>2
<1>6. Shaped(u)
  <2>1. DOMAIN u.seats = Seats /\ DOMAIN u.agg = Players
    BY <1>1, <1>2
  <2>2. /\ DOMAIN NoRound = {"open", "current_bet", "min_raise"}
        /\ DOMAIN EmptyShuffle = {"phase", "current", "pending", "completed"}
        /\ DOMAIN EmptyReveal = {"phase", "asg"}
        /\ DOMAIN EmptyReconstruct = {"phase", "pending", "decks"}
        /\ EmptyReconstruct.pending = {}
    BY DEF NoRound, EmptyShuffle, EmptyReveal, EmptyReconstruct
  <2> QED
    BY <2>1, <2>2, <1>3, <1>4, FS_EmptySet DEF Shaped
<1>7. Keyed(u)
  <2> SUFFICES ASSUME NEW p \in Players
               PROVE  u.agg[p] =
                      Cardinality({s \in ActiveSeats(u) : u.seats[s].player = p})
    BY <1>4 DEF Keyed
  <2> DEFINE now == {s \in ActiveSeats(t) : t.seats[s].player = p}
             next == {s \in ActiveSeats(u) : u.seats[s].player = p}
             new == added(p)
             gone == removed(p)
             both == now \cup new
  <2>1. p # NoPlayer
    BY TableAssumption
  <2>2. /\ now \subseteq Seats /\ new \subseteq Seats /\ gone \subseteq Seats
        /\ now \cap new = {}
    BY DEF ActiveSeats, OccupiedSeats
  <2>3. gone \subseteq now \cup new
    BY <2>1 DEF ActiveSeats, OccupiedSeats, IsSeatOccupied
  <2>4. next = (now \cup new) \ gone
    <3>1. next = {s \in Seats \ broke : t.seats[s].player = p}
      BY <2>1, <1>4 DEF ActiveSeats, OccupiedSeats, IsSeatOccupied
    <3>2. now \cup new = {s \in Seats : t.seats[s].player = p /\ ~t.seats[s].left}
      BY <2>1 DEF Keyed, ActiveSeats, OccupiedSeats, IsSeatOccupied
    <3>3. \A s \in Seats \ broke : t.seats[s].player = p => ~t.seats[s].left
      BY <2>1 DEF Keyed
    <3> QED
      BY <3>1, <3>2, <3>3
  <2>5. t.agg[p] = Cardinality(now)
    BY DEF Keyed
  <2>6. nobody => next = {}
    BY <2>1 DEF ActiveSeats, OccupiedSeats
  <2>11. u.agg[p] = IF nobody THEN 0
                    ELSE t.agg[p] + Cardinality(new) - Cardinality(gone)
    BY <1>2
  <2> HIDE DEF now, next, new, gone, nobody
  <2>7. /\ IsFiniteSet(now) /\ IsFiniteSet(new) /\ IsFiniteSet(gone)
        /\ Cardinality(now) \in Nat /\ Cardinality(new) \in Nat
        /\ Cardinality(gone) \in Nat
    BY <2>2, SomeSeatsFinite
  <2>8. /\ IsFiniteSet(both)
        /\ Cardinality(both) =
              Cardinality(now) + Cardinality(new) - Cardinality(now \cap new)
    BY <2>7, FS_Union
  <2>9. both \cap gone = gone /\ next = both \ gone
    BY <2>3, <2>4
  <2> HIDE DEF both
  <2>10. Cardinality(both \ gone) = Cardinality(both) - Cardinality(both \cap gone)
    BY <2>8, FS_Difference
  <2>12. Cardinality(now \cap new) = 0
    BY <2>2, FS_EmptySet
  <2>13. nobody => Cardinality(next) = 0
    BY <2>6, FS_EmptySet
  <2>14. Cardinality(next) = Cardinality(now) + Cardinality(new) - Cardinality(gone)
    <3>1. Cardinality(next) = Cardinality(both) - Cardinality(gone)
      BY <2>9, <2>10, Zenon
    <3>2. Cardinality(both) = Cardinality(now) + Cardinality(new)
      BY <2>7, <2>8, <2>12
    <3> QED
      BY <3>1, <3>2, <2>7
  <2>15. u.agg[p] = Cardinality(next)
    BY <2>5, <2>11, <2>13, <2>14
  <2> QED
    BY <2>15 DEF next
<1>8. Sound(u)
  BY <1>3, <1>6, <1>7 DEF Sound, Exclusive, Asking, Covers, NoRound, EmptyShuffle,
     EmptyReveal, EmptyReconstruct, ShufflePhases, Asked
<1> QED
  BY <1>3, <1>8 DEF Idle, Good, Led, Still, EmptyShuffle, EmptyReveal,
     EmptyReconstruct, u

\* A hand may be reset whatever phase it is in.
LEMMA SoundResetIdle ==
    ASSUME NEW t, NEW u, Sound(t), Aside(t, u)
    PROVE  Idle(ResetForNextHand(u))
BY AsideSound, ResetIdle DEF Sound

\* end_without_showdown: the pot goes to somebody who is in the hand.
LEMMA EndWithoutShowdownEnds ==
    ASSUME NEW t, Sound(t)
    PROVE  \/ Idle(EndWithoutShowdown(t))
           \/ Aside(t, EndWithoutShowdown(t))
<1> DEFINE c == CollectBetsToPot(t)
           winner == Min(LiveSeats(t))
           u == [c EXCEPT !.seats[winner].stack = @ + c.pot]
<1>1. Shaped(t)
  BY DEF Sound
<1>2. CASE LiveSeats(t) = {}
  BY <1>1, <1>2, AbortAside DEF EndWithoutShowdown
<1>3. CASE LiveSeats(t) # {}
  <2>1. Aside(t, c)
    BY <1>1, CollectBetsAside
  <2>2. winner \in LiveSeats(t)
    <3>1. LiveSeats(t) \in SUBSET Nat
      BY TableAssumption DEF LiveSeats, ActiveSeats, OccupiedSeats, Seats
    <3> QED
      BY <1>3, <3>1, LeastMember DEF Min
  <2>3. winner \in OccupiedSeats(c)
    BY <2>1, <2>2, LiveAreOccupied, SeatingDecides DEF Aside
  <2> HIDE DEF winner, c
  <2>4. Aside(c, u)
    BY <2>1, <2>3 DEF Aside, SameSeating, SamePhases, Shaped, TableFields, SeatFields,
       OccupiedSeats, IsSeatOccupied
  <2>5. Aside(t, u)
    BY <2>1, <2>4, AsideTransitive
  <2>6. EndWithoutShowdown(t) = ResetForNextHand(u)
    BY <1>3 DEF EndWithoutShowdown, c, winner
  <2> HIDE DEF u
  <2> QED
    BY <2>5, <2>6, SoundResetIdle
<1> QED
  BY <1>2, <1>3

\* settle_hand: whatever the pots and the hands, the table is reset.
LEMMA SettleHandIdle ==
    ASSUME NEW t, Sound(t), NEW ranks
    PROVE  Idle(SettleHand(t, ranks))
<1>1. Aside(t, PayPots(t, Pots(t), ranks))
  BY PotsAreASequence, PayPotsAside DEF Sound
<1>2. Idle(ResetForNextHand(PayPots(t, Pots(t), ranks)))
  BY <1>1, SoundResetIdle
<1> QED
  BY <1>2, RequireSound DEF SettleHand, Idle, Good

\* refund_all_bets before the reset.
LEMMA RefundThenResetIdle ==
    ASSUME NEW t, Sound(t)
    PROVE  Idle(ResetForNextHand(RefundAllBets(t)))
BY RefundAllBetsAside, SoundResetIdle DEF Sound

-----------------------------------------------------------------------------
(* Starting a reveal.                                                      *)

\* u is t with a reveal started.
Dealt(t, u) ==
    /\ Shaped(u) /\ SameSeating(t, u)
    /\ u.round = t.round /\ u.betting.open = t.betting.open
    /\ u.shuffle = t.shuffle /\ u.reconstruct = t.reconstruct
    /\ u.reveal.phase # "none"
    /\ IsFiniteSet(DOMAIN u.reveal.asg) /\ DOMAIN u.reveal.asg \subseteq Nat
    /\ u.reveal.phase \in Asked =>
          \A a \in DOMAIN u.reveal.asg :
             /\ DOMAIN u.reveal.asg[a] = {"card", "pending", "decrypted", "dealt_to"}
             /\ u.reveal.asg[a].pending \subseteq ActiveSeats(t)
             /\ ~u.reveal.asg[a].decrypted

\* A reveal may start once the hand is on and nothing else is open.
LEMMA DealtGood ==
    ASSUME NEW t, NEW u, Sound(t), Dealt(t, u), Calm(t),
           ~t.betting.open, t.round # "waiting"
    PROVE  Good(u) /\ Calm(u)
<1>1. ActiveSeats(u) = ActiveSeats(t)
  BY SeatingDecides DEF Dealt
<1>2. Exclusive(u)
  BY DEF Dealt, Exclusive, Sound, Calm
<1>3. Asking(u)
  BY <1>1 DEF Dealt, Asking, Calm
<1>4. Covers(u)
  BY <1>1 DEF Dealt, Covers, Sound
<1>5. Keyed(u)
  BY SeatingKeyed DEF Sound, Dealt
<1>6. Sound(u) /\ Calm(u)
  BY <1>2, <1>3, <1>4, <1>5 DEF Sound, Dealt, Calm
<1> QED
  BY <1>6, CalmLed DEF Good

\* Intervals are finite sets of numbers.
LEMMA Interval ==
    ASSUME NEW n \in Int
    PROVE  IsFiniteSet(1 .. n) /\ 1 .. n \subseteq Nat
BY FS_Interval

\* start_preflop_reveal asks only active seats for tokens.
LEMMA StartPreflopRevealDealt ==
    ASSUME NEW t, Shaped(t)
    PROVE  /\ Dealt(t, StartPreflopReveal(t))
           /\ StartPreflopReveal(t).reveal.phase = "preflop"
<1> DEFINE active == ActiveSeats(t)
           n == Cardinality(active) * CardsPerPlayer
           owner(k) == Ascending(active)[((k - 1) \div CardsPerPlayer) + 1]
           asg == [k \in 1 .. n |->
                     Assignment(t.dealt + k - 1, active \ {owner(k)}, owner(k))]
           u == StartPreflopReveal(t)
<1>1. n \in Int
  BY SomeSeatsFinite, ActiveAreSeats, TableAssumption
<1>2. u = [t EXCEPT !.dealt = @ + n, !.reveal = [phase |-> "preflop", asg |-> asg]]
  BY DEF StartPreflopReveal
<1>3. /\ IsFiniteSet(DOMAIN asg) /\ DOMAIN asg \subseteq Nat
      /\ \A a \in DOMAIN asg :
            /\ DOMAIN asg[a] = {"card", "pending", "decrypted", "dealt_to"}
            /\ asg[a].pending \subseteq active
            /\ ~asg[a].decrypted
  <2> HIDE DEF n, owner
  <2> QED
    BY <1>1, Interval DEF Assignment
<1> HIDE DEF asg, n, u
<1>4. Shaped(u) /\ SameSeating(t, u) /\ u.reveal = [phase |-> "preflop", asg |-> asg]
      /\ u.round = t.round /\ u.betting.open = t.betting.open
      /\ u.shuffle = t.shuffle /\ u.reconstruct = t.reconstruct
  BY <1>2 DEF Shaped, TableFields, SameSeating
<1> QED
  BY <1>3, <1>4 DEF Dealt, u

\* start_community_reveal asks only active seats, and has a card to open when
\* it deals one.
LEMMA StartCommunityRevealDealt ==
    ASSUME NEW t, Shaped(t), NEW count \in Int, NEW phase \in Asked
    PROVE  /\ Dealt(t, StartCommunityReveal(t, count, phase))
           /\ count > 0 => Unanswered(StartCommunityReveal(t, count, phase))
<1> DEFINE asg == CommunityAssignments(t, count)
           u == StartCommunityReveal(t, count, phase)
<1>1. count > 0 => 1 \in DOMAIN asg
  BY DEF CommunityAssignments
<1>2. u = [t EXCEPT !.dealt = @ + count, !.reveal = [phase |-> phase, asg |-> asg]]
  BY DEF StartCommunityReveal
<1>3. /\ IsFiniteSet(DOMAIN asg) /\ DOMAIN asg \subseteq Nat
      /\ \A a \in DOMAIN asg :
            /\ DOMAIN asg[a] = {"card", "pending", "decrypted", "dealt_to"}
            /\ asg[a].pending \subseteq ActiveSeats(t)
            /\ ~asg[a].decrypted
  BY Interval DEF CommunityAssignments, Assignment
<1> HIDE DEF asg, u
<1>4. Shaped(u) /\ SameSeating(t, u) /\ u.reveal = [phase |-> phase, asg |-> asg]
      /\ u.round = t.round /\ u.betting.open = t.betting.open
      /\ u.shuffle = t.shuffle /\ u.reconstruct = t.reconstruct
  BY <1>2 DEF Shaped, TableFields, SameSeating
<1>5. u.reveal.phase = phase /\ u.reveal.asg = asg
  BY <1>4
<1>6. Dealt(t, u)
  BY <1>3, <1>4, <1>5 DEF Dealt, Asked
<1>7. count > 0 => Unanswered(u)
  BY <1>1, <1>3, <1>5 DEF Unanswered
<1> QED
  BY <1>6, <1>7 DEF u

\* start_showdown_reveal starts a reveal in which each seat opens its own cards.
LEMMA StartShowdownRevealDealt ==
    ASSUME NEW t, Shaped(t)
    PROVE  /\ Dealt(t, StartShowdownReveal(t))
           /\ Unanswered(StartShowdownReveal(t))
<1> DEFINE u == StartShowdownReveal(t)
           shown == {d \in t.decrypted : d.owner \in LiveSeats(t) /\ ~d.plain}
           before(d, e) == \/ d.owner < e.owner
                           \/ d.owner = e.owner /\ d.card < e.card
           nth(k) == CHOOSE d \in shown :
                        Cardinality({e \in shown : before(e, d)}) = k - 1
           asg == [k \in 1 .. Cardinality(shown) |->
                     Assignment(nth(k).card, {nth(k).owner}, nth(k).dealt_to)]
<1>1. /\ u = [t EXCEPT !.reveal = [phase |-> "showdown", asg |-> asg]]
      /\ DOMAIN asg = 1 .. Cardinality(shown)
  BY DEF StartShowdownReveal
<1> HIDE DEF u, asg
<1>3. IsFiniteSet(DOMAIN asg) /\ DOMAIN asg \subseteq Nat
  <2>1. Cardinality(shown) \in Int
    BY FS_Subset, FS_CardinalityType DEF Shaped
  <2> QED
    BY <1>1, <2>1, Interval
<1>2. Shaped(u) /\ SameSeating(t, u) /\ u.reveal = [phase |-> "showdown", asg |-> asg]
      /\ u.round = t.round /\ u.betting.open = t.betting.open
      /\ u.shuffle = t.shuffle /\ u.reconstruct = t.reconstruct
  BY <1>1 DEF Shaped, TableFields, SameSeating
<1> QED
  BY <1>2, <1>3 DEF Dealt, Asked, Unanswered, u

-----------------------------------------------------------------------------
(* Betting rounds.                                                         *)

\* Keys and shuffle lists as at t, and no phase open.
LEMMA StillGood ==
    ASSUME NEW t, NEW u, Sound(t), Shaped(u), SameSeating(t, u), Still(u),
           u.shuffle = t.shuffle \/ u.shuffle = EmptyShuffle,
           u.round = "waiting" => ~u.betting.open
    PROVE  Onward(u)
<1>1. ActiveSeats(u) = ActiveSeats(t)
  BY SeatingDecides
<1>2. Exclusive(u) /\ Asking(u) /\ Calm(u) /\ Unanswered(u)
  BY DEF Exclusive, Asking, Calm, Unanswered, Still, Asked, ShufflePhases
<1>3. Covers(u)
  BY <1>1 DEF Sound, Covers, EmptyShuffle, Still
<1>4. Keyed(u)
  BY SeatingKeyed DEF Sound
<1> QED
  BY <1>2, <1>3, <1>4, CalmLed DEF Onward, Good, Sound

\* advance_round: the betting is closed, and the next street's reveal starts
\* unless the hand is not on.
LEMMA AdvanceRoundOnward ==
    ASSUME NEW t, Sound(t), Still(t)
    PROVE  Onward(AdvanceRound(t))
<1> DEFINE closed == [t EXCEPT !.betting = NoRound, !.turn = NoSeat]
           to(round) == [closed EXCEPT !.round = round]
           fresh(round) == [to(round) EXCEPT !.timers.reveal = FALSE]
           last == [to("showdown") EXCEPT !.timers.showdown = FALSE]
           Closing(u) == /\ Shaped(u) /\ SameSeating(t, u) /\ Still(u)
                         /\ u.shuffle = t.shuffle
                         /\ ~u.betting.open
<1>1. Shaped(t)
  BY DEF Sound
<1>2. Closing(closed)
  BY <1>1 DEF Shaped, TableFields, SameSeating, Still, NoRound
<1>3. \A round \in Rounds : Closing(fresh(round)) /\ fresh(round).round = round
  BY <1>1 DEF Shaped, TableFields, SameSeating, Still, NoRound
<1>4. Closing(last) /\ last.round = "showdown"
  BY <1>1 DEF Shaped, TableFields, SameSeating, Still, NoRound
<1>5. \/ AdvanceRound(t) = StartCommunityReveal(fresh("flop"), FlopCards, "flop")
      \/ AdvanceRound(t) = StartCommunityReveal(fresh("turn"), 1, "turn")
      \/ AdvanceRound(t) = StartCommunityReveal(fresh("river"), 1, "river")
      \/ AdvanceRound(t) = StartShowdownReveal(last)
      \/ AdvanceRound(t) = closed
  BY DEF AdvanceRound
<1> HIDE DEF closed, last, fresh
<1>6. ASSUME NEW u, Closing(u)
      PROVE  Sound(u) /\ Calm(u) /\ ~u.betting.open /\ Shaped(u) /\ Onward(u)
  BY <1>6, StillGood DEF Onward, Good
<1>7. ASSUME NEW round \in {"flop", "turn", "river"}, NEW count \in Int, count > 0
      PROVE  Onward(StartCommunityReveal(fresh(round), count, round))
  <2>1. Closing(fresh(round)) /\ fresh(round).round # "waiting"
    BY <1>3 DEF Rounds
  <2>2. /\ Sound(fresh(round)) /\ Calm(fresh(round)) /\ ~fresh(round).betting.open
        /\ Shaped(fresh(round))
    BY <2>1, <1>6
  <2>3. /\ Dealt(fresh(round), StartCommunityReveal(fresh(round), count, round))
        /\ Unanswered(StartCommunityReveal(fresh(round), count, round))
    BY <2>2, <1>7, StartCommunityRevealDealt DEF Asked
  <2> QED
    BY <2>1, <2>2, <2>3, DealtGood DEF Onward
<1>8. Onward(StartShowdownReveal(last))
  BY <1>4, <1>6, StartShowdownRevealDealt, DealtGood DEF Onward
<1>9. Onward(closed)
  BY <1>2, <1>6
<1> QED
  BY <1>5, <1>7, <1>8, <1>9, TableAssumption

\* With no phase open the invariant needs no shuffler and no card to open.
LEMMA StillOnward ==
    ASSUME NEW t, Sound(t), Still(t)
    PROVE  Onward(t)
BY CalmLed DEF Still, Onward, Good, Calm, Unanswered, Asked

\* advance_turn: the next player is on turn, or the next street begins.
LEMMA AdvanceTurnOnward ==
    ASSUME NEW t, Sound(t), Still(t)
    PROVE  Onward(AdvanceTurn(t))
<1>1. Onward(AdvanceRound(CollectBetsToPot(t)))
  BY CollectBetsAside, AsideSound, AdvanceRoundOnward DEF Sound
<1>2. ASSUME NEW next, NEW cond
      PROVE  Onward(Require([t EXCEPT !.turn = next], cond))
  <2> DEFINE u == [t EXCEPT !.turn = next]
  <2>1. Aside(t, u)
    BY DEF Sound, Shaped, TableFields, Aside, SameSeating, SamePhases
  <2> HIDE DEF u
  <2>2. Sound(u) /\ Still(u)
    BY <2>1, AsideSound
  <2>3. Sound(Require(u, cond)) /\ Still(Require(u, cond))
    BY <2>2, RequireSound
  <2> QED
    BY <2>3, StillOnward DEF u
<1> QED
  BY <1>1, <1>2 DEF AdvanceTurn

\* post_blinds: two seats put chips in; a seat without chips puts in none.
LEMMA PostBlindsAside ==
    ASSUME NEW t, Shaped(t)
    PROVE  Aside(t, PostBlinds(t))
<1> DEFINE headsUp == CountActiveOccupied(t) = 2
           sb == IF headsUp THEN t.button ELSE FindNextActiveSeat(t, t.button)
           bb == FindNextActiveSeat(t, sb)
           post(seat, blind) ==
             LET amount == IF seat.stack < blind THEN seat.stack ELSE blind
             IN  [seat EXCEPT !.stack = @ - amount, !.bet = amount,
                              !.total_bet = amount,
                              !.all_in = @ \/ seat.stack = amount]
           small == [t EXCEPT !.seats[sb] = post(@, SmallBlind)]
           both == [small EXCEPT !.seats[bb] = post(@, BigBlind)]
           first == IF headsUp THEN sb ELSE FindNextActiveSeat(both, bb)
<1>1. ASSUME NEW u, Shaped(u), NEW s, NEW blind \in Nat
      PROVE  Aside(u, [u EXCEPT !.seats[s] = post(@, blind)])
  <2> DEFINE v == [u EXCEPT !.seats[s] = post(@, blind)]
  <2>1. \A x \in Seats :
           /\ DOMAIN v.seats[x] = SeatFields
           /\ v.seats[x].player = u.seats[x].player
           /\ v.seats[x].left = u.seats[x].left
           /\ v.seats[x].is_waiting = u.seats[x].is_waiting
           /\ u.seats[x].stack = 0 => v.seats[x].stack = 0
    BY <1>1 DEF Shaped, TableFields, SeatFields
  <2> QED
    BY <1>1, <2>1 DEF Aside, Shaped, TableFields, SameSeating, SamePhases
<1> HIDE DEF post
<1>2. Aside(t, small)
  BY <1>1, TableAssumption
<1>3. Aside(small, both)
  <2>1. Shaped(small) /\ BigBlind \in Nat
    BY <1>2, TableAssumption DEF Aside
  <2> HIDE DEF small, bb
  <2> QED
    BY <1>1, <2>1
<1>4. \/ PostBlinds(t) = Abort(t)
      \/ PostBlinds(t) = [both EXCEPT !.turn = first]
  BY DEF PostBlinds, post
<1> HIDE DEF small, both, first
<1>5. Aside(both, [both EXCEPT !.turn = first])
  BY <1>3 DEF Aside, Shaped, TableFields, SameSeating, SamePhases
<1> QED
  BY <1>2, <1>3, <1>4, <1>5, AbortAside, AsideTransitive

\* start_betting_round: betting opens, or the street is skipped.
LEMMA StartBettingRoundOnward ==
    ASSUME NEW t, Sound(t), Still(t), t.round # "waiting", NEW preflop \in BOOLEAN
    PROVE  Onward(StartBettingRound(t, preflop))
<1> DEFINE seats == [s \in Seats |->
                       [t.seats[s] EXCEPT !.acted = FALSE,
                                          !.bet = IF preflop THEN @ ELSE 0]]
           round == IF preflop THEN NewPreflop(BigBlind) ELSE NewPostflop(BigBlind)
           opened == [t EXCEPT !.betting = round, !.seats = seats]
           turned(next) == [opened EXCEPT !.turn = next]
           Open(u) == /\ Shaped(u) /\ SameSeating(t, u) /\ Still(u)
                      /\ u.shuffle = t.shuffle /\ u.round = t.round
<1>1. DOMAIN round = {"open", "current_bet", "min_raise"}
  BY DEF NewPreflop, NewPostflop
<1>2. /\ DOMAIN seats = Seats
      /\ \A s \in Seats : /\ DOMAIN seats[s] = SeatFields
                          /\ seats[s].left = t.seats[s].left
                          /\ seats[s].is_waiting = t.seats[s].is_waiting
                          /\ seats[s].player = t.seats[s].player
                          /\ seats[s].stack = t.seats[s].stack
  <2>1. \A s \in Seats : DOMAIN t.seats[s] = SeatFields
    BY DEF Sound, Shaped
  <2>2. ASSUME NEW s \in Seats
        PROVE  /\ DOMAIN seats[s] = SeatFields
               /\ seats[s].left = t.seats[s].left
               /\ seats[s].is_waiting = t.seats[s].is_waiting
               /\ seats[s].player = t.seats[s].player
               /\ seats[s].stack = t.seats[s].stack
    BY <2>1 DEF SeatFields
  <2> QED
    BY <2>2
<1> HIDE DEF round, seats
<1>3. Open(opened)
  BY <1>1, <1>2 DEF Sound, Shaped, TableFields, SameSeating, Still
<1>4. \A next : Open(turned(next))
  BY <1>1, <1>2 DEF Sound, Shaped, TableFields, SameSeating, Still
<1>5. \/ StartBettingRound(t, preflop) = AdvanceRound(CollectBetsToPot(opened))
      \/ StartBettingRound(t, preflop) = opened
      \/ StartBettingRound(t, preflop) = turned(FindNextActiveSeat(t, t.button))
  BY DEF StartBettingRound, round, seats
<1> HIDE DEF opened, turned
<1>6. ASSUME NEW u, Open(u) PROVE Onward(u)
  BY <1>6, StillGood
<1>7. Onward(AdvanceRound(CollectBetsToPot(opened)))
  <2>1. Sound(opened) /\ Still(opened)
    BY <1>3, <1>6 DEF Onward, Good
  <2> QED
    BY <2>1, CollectBetsAside, AsideSound, AdvanceRoundOnward DEF Sound
<1> QED
  BY <1>3, <1>4, <1>5, <1>6, <1>7

\* check_reveal_phase_complete: the reveal is closed and what follows it is
\* begun, or a token is still missing.
LEMMA CheckRevealGood ==
    ASSUME NEW t, Good(t), NEW ranks
    PROVE  /\ Good(CheckRevealPhaseComplete(t, ranks))
           /\ Calm(t) => Onward(CheckRevealPhaseComplete(t, ranks))
<1> DEFINE u == CheckRevealPhaseComplete(t, ranks)
           cleared == [t EXCEPT !.reveal = EmptyReveal]
           untimed == [cleared EXCEPT !.timers.betting = FALSE]
           shown == [cleared EXCEPT !.timers.showdown = FALSE]
           Cleared(v) == /\ Shaped(v) /\ SameSeating(t, v)
                         /\ v.round = t.round /\ v.betting.open = t.betting.open
                         /\ v.shuffle = t.shuffle /\ v.reconstruct = t.reconstruct
                         /\ v.reveal.phase = "none"
<1>1. Shaped(t)
  BY DEF Good, Sound
<1>2. Cleared(cleared) /\ Cleared(untimed) /\ Cleared(shown)
  BY <1>1 DEF Shaped, TableFields, SameSeating, EmptyReveal
<1>3. \/ u = t /\ \E a \in DOMAIN t.reveal.asg : ~t.reveal.asg[a].decrypted
      \/ /\ t.reveal.phase \in Asked
         /\ \A a \in DOMAIN t.reveal.asg : t.reveal.asg[a].decrypted
         /\ \/ u = StartBettingRound(PostBlinds(untimed), TRUE)
            \/ u = StartBettingRound(WriteCommunity(untimed), FALSE)
      \/ u = SettleHand(shown, ranks)
      \/ u = cleared
  BY DEF CheckRevealPhaseComplete, Asked
<1> HIDE DEF u, cleared, untimed, shown
<1>4. ASSUME NEW v, Cleared(v) PROVE Sound(v)
  <2>1. ActiveSeats(v) = ActiveSeats(t)
    BY <1>4, SeatingDecides
  <2>2. Exclusive(v) /\ Asking(v)
    BY <1>4 DEF Good, Sound, Exclusive, Asking, Asked
  <2>3. Covers(v)
    BY <1>4, <2>1 DEF Good, Sound, Covers
  <2>4. Keyed(v)
    BY <1>4, SeatingKeyed DEF Good, Sound
  <2> QED
    BY <1>4, <2>2, <2>3, <2>4 DEF Sound
<1>5. CASE u = t /\ \E a \in DOMAIN t.reveal.asg : ~t.reveal.asg[a].decrypted
  BY <1>5 DEF Onward, Unanswered, u
<1>6. CASE /\ t.reveal.phase \in Asked
           /\ \A a \in DOMAIN t.reveal.asg : t.reveal.asg[a].decrypted
           /\ \/ u = StartBettingRound(PostBlinds(untimed), TRUE)
              \/ u = StartBettingRound(WriteCommunity(untimed), FALSE)
  <2>1. Calm(t) /\ t.round # "waiting"
    BY <1>6 DEF Good, Sound, Asking, Exclusive, Calm, ShufflePhases, Asked
  <2>2. Sound(untimed) /\ Still(untimed) /\ untimed.round # "waiting" /\ Shaped(untimed)
    BY <1>2, <1>4, <2>1 DEF Still, Calm
  <2>3. Aside(untimed, PostBlinds(untimed))
    BY <2>2, PostBlindsAside
  <2>4. Aside(untimed, WriteCommunity(untimed))
    BY <2>2 DEF WriteCommunity, Aside, SameSeating, SamePhases, Shaped, TableFields
  <2>5. ASSUME NEW v, Aside(untimed, v), NEW preflop \in BOOLEAN
        PROVE  Onward(StartBettingRound(v, preflop))
    <3>1. Sound(v) /\ Still(v) /\ v.round # "waiting"
      BY <2>2, <2>5, AsideSound DEF Aside, SamePhases
    <3> QED
      BY <3>1, StartBettingRoundOnward
  <2> QED
    BY <1>6, <2>3, <2>4, <2>5 DEF Onward, u
<1>7. CASE u = SettleHand(shown, ranks)
  <2>1. Idle(u)
    BY <1>2, <1>4, <1>7, SettleHandIdle
  <2> QED
    BY <2>1 DEF Idle, Onward, Calm, Still, Unanswered, Asked, u
<1>8. CASE u = cleared
  <2>1. Sound(u) /\ Led(u)
    BY <1>2, <1>4, <1>8 DEF Good, Led
  <2>2. Calm(t) => Calm(u) /\ Unanswered(u)
    BY <1>2, <1>8 DEF Calm, Unanswered, Asked
  <2> QED
    BY <2>1, <2>2 DEF Onward, Good, u
<1> QED
  BY <1>3, <1>5, <1>6, <1>7, <1>8

-----------------------------------------------------------------------------
(* The shuffle.                                                            *)

\* After a reconstruction the interrupted phase is dealt again.
LEMMA ResumeRevealGood ==
    ASSUME NEW t, Sound(t), Still(t), ~t.betting.open
    PROVE  Good(ResumeReveal(t)) /\ Calm(ResumeReveal(t))
<1>1. Shaped(t) /\ t.ready \in Int /\ Calm(t) /\ Led(t)
  BY CalmLed DEF Sound, Shaped, Still, Calm
<1>2. ASSUME NEW u, Dealt(t, u), t.round # "waiting" PROVE Good(u) /\ Calm(u)
  BY <1>1, <1>2, DealtGood
<1>3. CASE t.round = "preflop"
  BY <1>1, <1>2, <1>3, StartPreflopRevealDealt DEF ResumeReveal
<1>4. ASSUME NEW n \in Int, NEW phase \in Asked, t.round # "waiting",
             ResumeReveal(t) = Require(StartCommunityReveal(t, n - t.ready, phase),
                                       t.ready <= n)
      PROVE  Good(ResumeReveal(t)) /\ Calm(ResumeReveal(t))
  <2>1. Dealt(t, StartCommunityReveal(t, n - t.ready, phase))
    BY <1>1, StartCommunityRevealDealt
  <2>2. /\ Good(StartCommunityReveal(t, n - t.ready, phase))
        /\ Calm(StartCommunityReveal(t, n - t.ready, phase))
    BY <2>1, <1>2, <1>4
  <2> QED
    BY <2>2, <1>4, RequireSound DEF Good
<1>5. CASE t.round = "flop"
  BY <1>4, <1>5, TableAssumption DEF ResumeReveal, Asked
<1>6. CASE t.round = "turn"
  BY <1>4, <1>6 DEF ResumeReveal, Asked
<1>7. CASE t.round = "river"
  BY <1>4, <1>7 DEF ResumeReveal, Asked
<1>8. CASE t.round = "showdown"
  <2> DEFINE v == [t EXCEPT !.timers.showdown = FALSE]
  <2>1. Aside(t, v)
    BY <1>1 DEF Aside, SameSeating, SamePhases, Shaped, TableFields
  <2>2. ResumeReveal(t) = StartShowdownReveal(v)
    BY <1>8 DEF ResumeReveal
  <2> HIDE DEF v
  <2>3. Sound(v) /\ Calm(v) /\ ~v.betting.open /\ v.round # "waiting" /\ Shaped(v)
    BY <1>1, <1>8, <2>1, AsideSound DEF Aside, SamePhases
  <2> QED
    BY <2>2, <2>3, StartShowdownRevealDealt, DealtGood
<1>9. CASE t.round \notin {"preflop", "flop", "turn", "river", "showdown"}
  BY <1>1, <1>9 DEF ResumeReveal, Good
<1> QED
  BY <1>3, <1>5, <1>6, <1>7, <1>8, <1>9

\* advance_shuffle: the next shuffler is one who still has to shuffle; after
\* the last one the cards are dealt.
LEMMA AdvanceShuffleGood ==
    ASSUME NEW t, Sound(t)
    PROVE  /\ Good(AdvanceShuffle(t))
           /\ AdvanceShuffle(t).shuffle.phase \in {t.shuffle.phase, "none"}
           /\ t.shuffle.phase = "none" => AdvanceShuffle(t) = t
<1> DEFINE u == AdvanceShuffle(t)
           next == Min(t.shuffle.pending)
           led == [t EXCEPT !.shuffle.current = next, !.timers.shuffle = FALSE]
           untimed == [t EXCEPT !.timers.reveal = FALSE, !.shuffle = EmptyShuffle]
           first == [untimed EXCEPT !.round = "preflop"]
           again == [untimed EXCEPT !.reconstruct = EmptyReconstruct,
                                    !.reveal = EmptyReveal]
<1>1. Shaped(t) /\ t.shuffle.phase \in {"none", "before_preflop", "reconstruct"}
  BY DEF Sound, Exclusive, ShufflePhases
<1>2. CASE t.shuffle.phase = "none"
  BY <1>2 DEF AdvanceShuffle, Good, Led
<1>3. CASE t.shuffle.phase # "none" /\ t.shuffle.pending # {}
  <2>1. next \in t.shuffle.pending
    <3>1. t.shuffle.pending \in SUBSET Nat
      BY <1>3, ActiveAreSeats, TableAssumption DEF Sound, Covers, Seats
    <3> QED
      BY <1>3, <3>1, LeastMember DEF Min
  <2>2. u = led
    BY <1>3 DEF AdvanceShuffle
  <2> HIDE DEF next
  <2>3. /\ Shaped(led) /\ SameSeating(t, led) /\ led.round = t.round
        /\ led.betting = t.betting /\ led.reveal = t.reveal
        /\ led.reconstruct = t.reconstruct
        /\ led.shuffle = [t.shuffle EXCEPT !.current = next]
    BY <1>1 DEF Shaped, TableFields, SameSeating
  <2>4. /\ led.shuffle.phase = t.shuffle.phase /\ led.shuffle.current = next
        /\ led.shuffle.pending = t.shuffle.pending
        /\ led.shuffle.completed = t.shuffle.completed
    BY <1>1, <2>3 DEF Shaped
  <2> HIDE DEF led
  <2>5. ActiveSeats(led) = ActiveSeats(t)
    BY <2>3, SeatingDecides
  <2>6. Exclusive(led) /\ Covers(led) /\ Led(led)
    BY <2>1, <2>3, <2>4, <2>5 DEF Sound, Exclusive, Covers, Led
  <2>7. Asking(led)
    BY <2>3, <2>4, <2>5 DEF Sound, Asking
  <2>8. Keyed(led)
    BY <2>3, SeatingKeyed DEF Sound
  <2> QED
    BY <1>3, <2>2, <2>3, <2>4, <2>6, <2>7, <2>8 DEF Good, Sound, u
<1>4. CASE t.shuffle.phase = "before_preflop" /\ t.shuffle.pending = {}
  <2>1. t.round = "waiting" /\ ~t.betting.open /\ t.reveal.phase = "none"
        /\ t.reconstruct.phase = "none"
    BY <1>4 DEF Sound, Exclusive
  <2>2. /\ Shaped(first) /\ SameSeating(t, first) /\ Still(first)
        /\ first.shuffle = EmptyShuffle /\ first.round = "preflop"
        /\ ~first.betting.open
    BY <1>1, <2>1 DEF Shaped, TableFields, SameSeating, Still, EmptyShuffle
  <2>3. u = StartPreflopReveal(first)
    BY <1>4 DEF AdvanceShuffle
  <2> HIDE DEF first, u
  <2>4. Sound(first) /\ Calm(first)
    BY <2>2, StillGood DEF Onward, Good
  <2>5. Good(u) /\ Calm(u)
    BY <2>2, <2>3, <2>4, StartPreflopRevealDealt, DealtGood
  <2> QED
    BY <1>4, <2>5 DEF u, Calm
<1>5. CASE t.shuffle.phase = "reconstruct" /\ t.shuffle.pending = {}
  <2>1. t.round # "waiting" /\ ~t.betting.open
    BY <1>5 DEF Sound, Exclusive
  <2>2. /\ Shaped(again) /\ SameSeating(t, again) /\ Still(again)
        /\ again.shuffle = EmptyShuffle /\ again.round = t.round
        /\ ~again.betting.open
    BY <1>1, <2>1 DEF Shaped, TableFields, SameSeating, Still, EmptyShuffle,
       EmptyReveal, EmptyReconstruct
  <2>3. u = ResumeReveal(again)
    BY <1>5 DEF AdvanceShuffle
  <2> HIDE DEF again, u
  <2>4. Sound(again)
    BY <2>1, <2>2, StillGood DEF Onward, Good
  <2>5. Good(u) /\ Calm(u)
    BY <2>2, <2>3, <2>4, ResumeRevealGood
  <2> QED
    BY <1>5, <2>5 DEF u, Calm
<1> QED
  BY <1>1, <1>2, <1>3, <1>4, <1>5

-----------------------------------------------------------------------------
(* Folding.                                                                *)

\* What ends a hand or changes only chips keeps the invariant.
LEMMA IdleOrAsideGood ==
    ASSUME NEW t, Good(t), NEW u, Idle(u) \/ Aside(t, u)
    PROVE  /\ Good(u)
           /\ u.shuffle.phase \in {t.shuffle.phase, "none"}
           /\ Calm(t) /\ Unanswered(t) => Onward(u)
<1>1. CASE Idle(u)
  BY <1>1 DEF Idle, Onward, Calm, Still, Unanswered, Asked
<1>2. CASE Aside(t, u)
  BY <1>2, AsideSound DEF Good, Aside, SamePhases, Onward
<1> QED
  BY <1>1, <1>2

\* do_fold, with betting open.
LEMMA DoFoldGood ==
    ASSUME NEW t, Sound(t), Still(t), NEW s
    PROVE  Good(DoFold(t, s))
<1> DEFINE seat == t.seats[s]
           folded == [t EXCEPT !.seats[s] = [seat EXCEPT !.folded = TRUE, !.acted = TRUE],
                               !.timers.betting = FALSE]
<1>1. Aside(t, folded)
  BY DEF Sound, Aside, SameSeating, SamePhases, Shaped, TableFields, SeatFields
<1>2. \E cond : \/ DoFold(t, s) = Require(EndWithoutShowdown(folded), cond)
                \/ DoFold(t, s) = Require(AdvanceTurn(folded), cond)
  BY DEF DoFold
<1> HIDE DEF folded
<1>3. Sound(folded) /\ Still(folded) /\ Good(folded)
  BY <1>1, AsideSound, StillOnward DEF Onward
<1>4. Good(EndWithoutShowdown(folded))
  BY <1>3, EndWithoutShowdownEnds, IdleOrAsideGood
<1>5. Good(AdvanceTurn(folded))
  BY <1>3, AdvanceTurnOnward DEF Onward
<1> QED
  BY <1>2, <1>4, <1>5, RequireSound DEF Good

-----------------------------------------------------------------------------
(* Kicking.                                                                *)

\* u is t without seat s: the phases are the same and no longer wait for s.
Without(t, u, s) ==
    /\ u.round = t.round /\ u.betting.open = t.betting.open
    /\ u.shuffle.phase = t.shuffle.phase /\ u.shuffle.current = t.shuffle.current
    /\ u.reveal.phase = t.reveal.phase /\ u.reconstruct.phase = t.reconstruct.phase
    /\ DOMAIN u.reveal.asg = DOMAIN t.reveal.asg
    /\ t.reveal.phase \in Asked =>
          \A a \in DOMAIN t.reveal.asg :
             /\ u.reveal.asg[a].decrypted = t.reveal.asg[a].decrypted
             /\ u.reveal.asg[a].pending = t.reveal.asg[a].pending \ {s}

\* The stack, the key and every list entry of an occupied seat are taken away.
LEMMA UnseatedSound ==
    ASSUME NEW t, Sound(t), NEW s \in OccupiedSeats(t)
    PROVE  /\ Sound(Unseated(t, s))
           /\ Without(t, Unseated(t, s), s)
           /\ Led(t) /\ t.shuffle.current # s => Led(Unseated(t, s))
<1> DEFINE seat == t.seats[s]
           marked == [t EXCEPT !.seats[s] = KickedSeat(seat), !.pot = @ + seat.bet]
           keyless == IF seat.is_waiting THEN marked ELSE RemovePk(marked, seat.player)
           paid == RefundSui(keyless, seat.stack)
           u == DropFromPhases(paid, s)
<1>1. Shaped(t) /\ s \in Seats /\ ~seat.left
  BY DEF Sound, OccupiedSeats, IsSeatOccupied
<1>2. u = Unseated(t, s)
  BY DEF Unseated
<1>3. /\ Shaped(keyless)
      /\ SamePhases(t, keyless)
      /\ \A x \in Seats \ {s} : keyless.seats[x] = t.seats[x]
      /\ keyless.seats[s] = KickedSeat(seat)
      /\ keyless.agg = IF seat.is_waiting THEN t.agg
                       ELSE [t.agg EXCEPT ![seat.player] = @ - 1]
  BY <1>1 DEF Shaped, TableFields, SeatFields, SamePhases, KickedSeat, RemovePk
<1>4. keyless.seats[s].left /\ keyless.seats[s].stack = 0 /\ ~keyless.seats[s].is_waiting
  <2>1. DOMAIN seat = SeatFields
    BY <1>1 DEF Shaped
  <2> HIDE DEF seat, keyless
  <2>2. LET gone == KickedSeat(seat)
        IN  gone.left /\ gone.stack = 0 /\ ~gone.is_waiting
    BY <2>1 DEF KickedSeat, SeatFields
  <2> QED
    BY <1>3, <2>2
<1> HIDE DEF keyless
<1>5. Aside(keyless, paid)
  BY <1>3, RefundSuiAside
<1>6. SamePhases(t, paid) /\ Shaped(paid) /\ paid.agg = keyless.agg
  BY <1>3, <1>5 DEF Aside, SameSeating, SamePhases
<1> HIDE DEF paid
<1>7. /\ Shaped(u) /\ u.seats = paid.seats /\ u.agg = paid.agg
      /\ u.round = t.round /\ u.betting.open = t.betting.open
      /\ u.shuffle.phase = t.shuffle.phase /\ u.shuffle.current = t.shuffle.current
      /\ u.shuffle.pending = t.shuffle.pending \ {s}
      /\ u.shuffle.completed = t.shuffle.completed \ {s}
      /\ u.reveal.phase = t.reveal.phase /\ u.reconstruct.phase = t.reconstruct.phase
      /\ u.reveal.asg = [a \in DOMAIN t.reveal.asg |->
                            [t.reveal.asg[a] EXCEPT !.pending = @ \ {s}]]
  BY <1>6 DEF DropFromPhases, Shaped, TableFields, SamePhases
<1> HIDE DEF u
<1>8. /\ \A x \in Seats \ {s} :
            /\ u.seats[x].left = t.seats[x].left
            /\ u.seats[x].is_waiting = t.seats[x].is_waiting
            /\ ~t.seats[x].left => u.seats[x].player = t.seats[x].player
            /\ t.seats[x].left /\ t.seats[x].stack = 0 => u.seats[x].stack = 0
      /\ u.seats[s].left /\ u.seats[s].stack = 0 /\ ~u.seats[s].is_waiting
  <2>1. \A x \in Seats :
           /\ paid.seats[x].left = keyless.seats[x].left
           /\ paid.seats[x].is_waiting = keyless.seats[x].is_waiting
           /\ ~keyless.seats[x].left => paid.seats[x].player = keyless.seats[x].player
           /\ keyless.seats[x].left /\ keyless.seats[x].stack = 0 => paid.seats[x].stack = 0
    BY <1>5 DEF Aside, SameSeating
  <2>2. u.seats = paid.seats
    BY <1>7
  <2>3. ASSUME NEW x \in Seats \ {s}
        PROVE  /\ u.seats[x].left = t.seats[x].left
               /\ u.seats[x].is_waiting = t.seats[x].is_waiting
               /\ ~t.seats[x].left => u.seats[x].player = t.seats[x].player
               /\ t.seats[x].left /\ t.seats[x].stack = 0 => u.seats[x].stack = 0
    BY <1>3, <2>1, <2>2
  <2>4. u.seats[s].left /\ u.seats[s].stack = 0 /\ ~u.seats[s].is_waiting
    BY <1>1, <1>4, <2>1, <2>2
  <2> QED
    BY <2>3, <2>4
<1>9. ActiveSeats(u) = ActiveSeats(t) \ {s}
  BY <1>1, <1>8 DEF ActiveSeats, OccupiedSeats, IsSeatOccupied
<1>10. Exclusive(u)
  BY <1>7 DEF Sound, Exclusive
<1>11. t.reveal.phase \in Asked =>
         \A a \in DOMAIN t.reveal.asg :
            /\ DOMAIN u.reveal.asg[a] = DOMAIN t.reveal.asg[a]
            /\ u.reveal.asg[a].decrypted = t.reveal.asg[a].decrypted
            /\ u.reveal.asg[a].pending = t.reveal.asg[a].pending \ {s}
  BY <1>7 DEF Sound, Asking
<1>12. DOMAIN u.reveal.asg = DOMAIN t.reveal.asg
  BY <1>7
<1>13. Asking(u)
  <2>1. Asking(t)
    BY DEF Sound
  <2>2. u.reveal.phase # "none" =>
           IsFiniteSet(DOMAIN u.reveal.asg) /\ DOMAIN u.reveal.asg \subseteq Nat
    BY <2>1, <1>7, <1>12 DEF Asking
  <2>3. ASSUME u.reveal.phase \in Asked, NEW a \in DOMAIN u.reveal.asg
        PROVE  /\ DOMAIN u.reveal.asg[a] = {"card", "pending", "decrypted", "dealt_to"}
               /\ u.reveal.asg[a].pending \subseteq ActiveSeats(u)
               /\ u.reveal.asg[a].decrypted => u.reveal.asg[a].pending = {}
    <3>1. /\ DOMAIN t.reveal.asg[a] = {"card", "pending", "decrypted", "dealt_to"}
          /\ t.reveal.asg[a].pending \subseteq ActiveSeats(t)
          /\ t.reveal.asg[a].decrypted => t.reveal.asg[a].pending = {}
      BY <2>1, <2>3, <1>7, <1>12 DEF Asking
    <3>2. /\ DOMAIN u.reveal.asg[a] = DOMAIN t.reveal.asg[a]
          /\ u.reveal.asg[a].decrypted = t.reveal.asg[a].decrypted
          /\ u.reveal.asg[a].pending = t.reveal.asg[a].pending \ {s}
      BY <2>3, <1>7, <1>11, <1>12
    <3> QED
      BY <3>1, <3>2, <1>9
  <2>4. ASSUME u.reveal.phase \in Asked,
               u.reconstruct.phase # "none" \/ u.shuffle.phase = "reconstruct"
        PROVE  /\ \A a \in DOMAIN u.reveal.asg : u.reveal.asg[a].pending = {}
               /\ \E a \in DOMAIN u.reveal.asg : ~u.reveal.asg[a].decrypted
    <3>1. /\ \A a \in DOMAIN t.reveal.asg : t.reveal.asg[a].pending = {}
          /\ \E a \in DOMAIN t.reveal.asg : ~t.reveal.asg[a].decrypted
      BY <2>1, <2>4, <1>7 DEF Asking
    <3>2. PICK a \in DOMAIN t.reveal.asg : ~t.reveal.asg[a].decrypted
      BY <3>1
    <3>3. \A b \in DOMAIN t.reveal.asg :
             /\ u.reveal.asg[b].decrypted = t.reveal.asg[b].decrypted
             /\ u.reveal.asg[b].pending = t.reveal.asg[b].pending \ {s}
      BY <2>4, <1>7, <1>11
    <3> QED
      BY <3>1, <3>2, <3>3, <1>12
  <2>5. /\ u.reveal.phase \in Asked =>
              \A a \in DOMAIN u.reveal.asg :
                 /\ DOMAIN u.reveal.asg[a] = {"card", "pending", "decrypted", "dealt_to"}
                 /\ u.reveal.asg[a].pending \subseteq ActiveSeats(u)
                 /\ u.reveal.asg[a].decrypted => u.reveal.asg[a].pending = {}
        /\ u.reveal.phase \in Asked
           /\ (u.reconstruct.phase # "none" \/ u.shuffle.phase = "reconstruct") =>
              /\ \A a \in DOMAIN u.reveal.asg : u.reveal.asg[a].pending = {}
              /\ \E a \in DOMAIN u.reveal.asg : ~u.reveal.asg[a].decrypted
    BY <2>3, <2>4, Zenon
  <2> QED
    BY <2>2, <2>5, Zenon DEF Asking
<1>14. Covers(u)
  BY <1>7, <1>9 DEF Sound, Covers
<1>15. Keyed(u)
  <2>1. \A x \in Seats : u.seats[x].left => u.seats[x].stack = 0 /\ ~u.seats[x].is_waiting
    BY <1>8 DEF Sound, Keyed
  <2> SUFFICES ASSUME NEW p \in Players
               PROVE  u.agg[p] =
                      Cardinality({x \in ActiveSeats(u) : u.seats[x].player = p})
    BY <2>1 DEF Keyed
  <2> DEFINE old == {x \in ActiveSeats(t) : t.seats[x].player = p}
             new == {x \in ActiveSeats(u) : u.seats[x].player = p}
  <2>2. new = old \ {s}
    BY <1>8, <1>9 DEF ActiveSeats, OccupiedSeats, IsSeatOccupied
  <2>3. IsFiniteSet(old) /\ Cardinality(old) \in Nat
    BY SomeSeatsFinite, ActiveAreSeats
  <2>4. t.agg[p] = Cardinality(old) /\ DOMAIN t.agg = Players
    BY <1>1 DEF Sound, Keyed, Shaped
  <2>5. s \in old <=> ~seat.is_waiting /\ seat.player = p
    BY <1>1 DEF ActiveSeats
  <2>6. u.agg[p] = IF s \in old THEN Cardinality(old) - 1 ELSE Cardinality(old)
    <3> HIDE DEF old
    <3> QED
      BY <1>3, <1>6, <1>7, <2>4, <2>5
  <2> HIDE DEF old, new
  <2>7. Cardinality(new) = IF s \in old THEN Cardinality(old) - 1 ELSE Cardinality(old)
    BY <2>2, <2>3, FS_RemoveElement
  <2>8. u.agg[p] = Cardinality(new)
    BY <2>6, <2>7
  <2> QED
    BY <2>8 DEF new
<1>16. Sound(u)
  BY <1>7, <1>10, <1>13, <1>14, <1>15 DEF Sound
<1>17. Without(t, u, s)
  BY <1>7, <1>11, <1>12 DEF Without
<1>18. Led(t) /\ t.shuffle.current # s => Led(u)
  BY <1>7 DEF Led
<1> QED
  BY <1>2, <1>16, <1>17, <1>18

\* If seat s was to shuffle, the next one is, or the cards are dealt.
LEMMA ShufflePassedGood ==
    ASSUME NEW t, Sound(t), NEW s, t.shuffle.current # s => Led(t)
    PROVE  /\ Good(ShufflePassed(t, s))
           /\ ShufflePassed(t, s).shuffle.phase \in {t.shuffle.phase, "none"}
           /\ t.shuffle.phase = "none" =>
                 LET u == ShufflePassed(t, s)
                 IN  /\ u.round = t.round /\ u.betting = t.betting
                     /\ u.reveal = t.reveal /\ u.reconstruct = t.reconstruct
<1> DEFINE v == [t EXCEPT !.shuffle.current = NoSeat]
<1>1. CASE t.shuffle.current # s
  BY <1>1 DEF ShufflePassed, Good
<1>2. CASE t.shuffle.current = s
  <2>1. /\ Shaped(v) /\ SameSeating(t, v) /\ v.round = t.round
        /\ v.betting = t.betting /\ v.reveal = t.reveal
        /\ v.reconstruct = t.reconstruct /\ v.shuffle.phase = t.shuffle.phase
        /\ v.shuffle.pending = t.shuffle.pending
        /\ v.shuffle.completed = t.shuffle.completed
    BY DEF Sound, Shaped, TableFields, SameSeating
  <2>2. ShufflePassed(t, s) = AdvanceShuffle(v)
    BY <1>2 DEF ShufflePassed
  <2> HIDE DEF v
  <2>3. ActiveSeats(v) = ActiveSeats(t)
    BY <2>1, SeatingDecides
  <2>4. Exclusive(v) /\ Covers(v)
    BY <2>1, <2>3 DEF Sound, Exclusive, Covers
  <2>5. Asking(v)
    BY <2>1, <2>3 DEF Sound, Asking
  <2>6. Sound(v)
    BY <2>1, <2>4, <2>5, SeatingKeyed DEF Sound
  <2> QED
    BY <2>1, <2>2, <2>6, AdvanceShuffleGood
<1> QED
  BY <1>1, <1>2

\* If it was the turn of seat s, the hand ends or the next one acts.
LEMMA TurnPassedGood ==
    ASSUME NEW t, Good(t), NEW s
    PROVE  /\ Good(TurnPassed(t, s))
           /\ TurnPassed(t, s).shuffle.phase \in {t.shuffle.phase, "none"}
           /\ ~t.betting.open => TurnPassed(t, s) = t
<1>1. CASE t.betting.open
  <2>1. Sound(t) /\ Still(t)
    BY <1>1 DEF Good, Sound, Exclusive, Still
  <2>2. /\ Good(EndWithoutShowdown(t))
        /\ EndWithoutShowdown(t).shuffle.phase \in {t.shuffle.phase, "none"}
    BY <2>1, EndWithoutShowdownEnds, IdleOrAsideGood
  <2>3. Good(AdvanceTurn(t)) /\ AdvanceTurn(t).shuffle.phase = "none"
    BY <2>1, AdvanceTurnOnward DEF Onward, Calm
  <2> QED
    BY <1>1, <2>2, <2>3 DEF TurnPassed
<1>2. CASE ~t.betting.open
  BY <1>2 DEF TurnPassed, IsBettingRound
<1> QED
  BY <1>1, <1>2

\* With too few players left the table is reset.
LEMMA ResetIfTooFewGood ==
    ASSUME NEW t, Good(t)
    PROVE  \/ ResetIfTooFew(t) = t
           \/ Idle(ResetIfTooFew(t))
BY ResetIdle DEF ResetIfTooFew, Good, Sound

\* kick_player_internal, at any moment of a hand.
LEMMA KickGood ==
    ASSUME NEW t, Good(t), NEW s \in Seats
    PROVE  /\ Good(KickPlayerInternal(t, s))
           /\ KickPlayerInternal(t, s).shuffle.phase \in {t.shuffle.phase, "none"}
<1>1. CASE ~IsSeatOccupied(t.seats[s])
  <2>1. Aside(t, Abort(t))
    BY AbortAside DEF Good, Sound
  <2> QED
    BY <1>1, <2>1, IdleOrAsideGood DEF KickPlayerInternal
<1>2. CASE IsSeatOccupied(t.seats[s])
  <2> DEFINE gone == Unseated(t, s)
             passed == ShufflePassed(gone, s)
             turned == TurnPassed(passed, s)
  <2>1. s \in OccupiedSeats(t) /\ Sound(t) /\ Led(t)
    BY <1>2 DEF OccupiedSeats, Good
  <2>2. /\ Sound(gone) /\ gone.shuffle.phase = t.shuffle.phase
        /\ gone.shuffle.current # s => Led(gone)
    BY <2>1, UnseatedSound DEF Without
  <2> HIDE DEF gone
  <2>3. Good(passed) /\ passed.shuffle.phase \in {t.shuffle.phase, "none"}
    BY <2>2, ShufflePassedGood
  <2> HIDE DEF passed
  <2>4. Good(turned) /\ turned.shuffle.phase \in {t.shuffle.phase, "none"}
    BY <2>3, TurnPassedGood
  <2> HIDE DEF turned
  <2>5. KickPlayerInternal(t, s) = ResetIfTooFew(turned)
    BY <1>2 DEF KickPlayerInternal, turned, passed, gone
  <2> QED
    BY <2>4, <2>5, ResetIfTooFewGood DEF Idle, Still
<1> QED
  BY <1>1, <1>2

\* u is t without the seats of S, or without some more.
Dropped(t, u, S) ==
    /\ u.round = t.round /\ u.betting.open = t.betting.open
    /\ u.shuffle.phase = t.shuffle.phase
    /\ u.reveal.phase = t.reveal.phase /\ u.reconstruct.phase = t.reconstruct.phase
    /\ DOMAIN u.reveal.asg = DOMAIN t.reveal.asg
    /\ t.reveal.phase \in Asked =>
          \A a \in DOMAIN t.reveal.asg :
             /\ u.reveal.asg[a].decrypted = t.reveal.asg[a].decrypted
             /\ u.reveal.asg[a].pending \subseteq t.reveal.asg[a].pending
             /\ u.reveal.asg[a].pending \cap S = {}

\* A kick while nobody shuffles or bets leaves the phases as they are, or
\* ends the hand.
LEMMA KickIfSeatedDrops ==
    ASSUME NEW t, Good(t), t.shuffle.phase = "none", ~t.betting.open, NEW s \in Seats
    PROVE  \/ Idle(KickIfSeated(t, s))
           \/ Good(KickIfSeated(t, s)) /\ Dropped(t, KickIfSeated(t, s), {s})
<1>1. CASE ~IsSeatOccupied(t.seats[s])
  <2>1. s \notin ActiveSeats(t)
    BY <1>1 DEF ActiveSeats, OccupiedSeats
  <2>2. Dropped(t, t, {s})
    BY <2>1 DEF Good, Sound, Asking, Dropped
  <2> QED
    BY <1>1, <2>2 DEF KickIfSeated
<1>2. CASE IsSeatOccupied(t.seats[s])
  <2> DEFINE gone == Unseated(t, s)
             passed == ShufflePassed(gone, s)
  <2>1. s \in OccupiedSeats(t) /\ Sound(t) /\ Led(t)
    BY <1>2 DEF OccupiedSeats, Good
  <2>2. Sound(gone) /\ Without(t, gone, s) /\ (gone.shuffle.current # s => Led(gone))
    BY <2>1, UnseatedSound DEF Without
  <2>3. KickIfSeated(t, s) = ResetIfTooFew(TurnPassed(passed, s))
    BY <1>2 DEF KickIfSeated, KickPlayerInternal
  <2> HIDE DEF gone
  <2>4. Good(passed) /\ passed.shuffle.phase = "none"
        /\ passed.round = gone.round /\ passed.betting = gone.betting
        /\ passed.reveal = gone.reveal /\ passed.reconstruct = gone.reconstruct
    BY <2>2, ShufflePassedGood DEF Without
  <2> HIDE DEF passed
  <2>5. TurnPassed(passed, s) = passed
    BY <2>2, <2>4, TurnPassedGood DEF Without
  <2>6. Dropped(t, passed, {s})
    BY <2>2, <2>4 DEF Without, Dropped
  <2> QED
    BY <2>3, <2>4, <2>5, <2>6, ResetIfTooFewGood
<1> QED
  BY <1>1, <1>2

\* Drops add up.
LEMMA DroppedTwice ==
    ASSUME NEW t, NEW u, NEW v, NEW S, NEW R, Dropped(t, u, S), Dropped(u, v, R)
    PROVE  Dropped(t, v, S \cup R)
<1> SUFFICES ASSUME t.reveal.phase \in Asked, NEW a \in DOMAIN t.reveal.asg
             PROVE  /\ v.reveal.asg[a].decrypted = t.reveal.asg[a].decrypted
                    /\ v.reveal.asg[a].pending \subseteq t.reveal.asg[a].pending
                    /\ v.reveal.asg[a].pending \cap (S \cup R) = {}
  BY DEF Dropped
<1>1. /\ u.reveal.asg[a].decrypted = t.reveal.asg[a].decrypted
      /\ u.reveal.asg[a].pending \subseteq t.reveal.asg[a].pending
      /\ u.reveal.asg[a].pending \cap S = {}
  BY DEF Dropped
<1>2. /\ v.reveal.asg[a].decrypted = u.reveal.asg[a].decrypted
      /\ v.reveal.asg[a].pending \subseteq u.reveal.asg[a].pending
      /\ v.reveal.asg[a].pending \cap R = {}
  BY DEF Dropped
<1> QED
  BY <1>1, <1>2

\* Kicking one seat after another goes through the tables in between.
LEMMA KickAllSteps ==
    ASSUME NEW t, NEW order, Len(order) \in Nat
    PROVE  \E after : /\ after[0] = t
                      /\ \A i \in 1 .. Len(order) :
                            after[i] = KickIfSeated(after[i - 1], order[i])
                      /\ KickAll(t, order) = after[Len(order)]
<1> DEFINE n == Len(order)
           Step(g, i) == IF i = 0 THEN t ELSE KickIfSeated(g[i - 1], order[i])
           after == CHOOSE g : g = [i \in 0 .. n |-> Step(g, i)]
           Known == {k \in 0 .. n : \E g : g = [i \in 0 .. k |-> Step(g, i)]}
<1>1. \A k \in 0 .. n : k \in Known
  <2>1. 0 \in Known
    <3> DEFINE g == [i \in 0 .. 0 |-> t]
    <3>1. \A i \in 0 .. 0 : g[i] = Step(g, i)
      OBVIOUS
    <3>2. g = [i \in 0 .. 0 |-> Step(g, i)]
      BY <3>1
    <3> HIDE DEF g
    <3> QED
      BY <3>2
  <2>2. ASSUME NEW k \in 1 .. n, k - 1 \in Known
        PROVE  k \in Known
    <3>1. PICK g : g = [i \in 0 .. k - 1 |-> Step(g, i)]
      BY <2>2
    <3> DEFINE h == [i \in 0 .. k |-> IF i = k THEN KickIfSeated(g[k - 1], order[k])
                                      ELSE g[i]]
    <3>2. \A i \in 0 .. k : h[i] = Step(h, i)
      <4> TAKE i \in 0 .. k
      <4>1. CASE i = k
        BY <4>1
      <4>2. CASE i # k
        BY <4>2, <3>1
      <4> QED
        BY <4>1, <4>2
    <3>3. h = [i \in 0 .. k |-> Step(h, i)]
      BY <3>2
    <3> HIDE DEF h
    <3> QED
      BY <3>3
  <2> HIDE DEF Known
  <2> QED
    BY <2>1, <2>2, UpTo
<1>2. after = [i \in 0 .. n |-> Step(after, i)]
  <2>1. n \in Known
    BY <1>1
  <2> QED
    BY <2>1
<1>3. KickAll(t, order) = after[n]
  BY DEF KickAll
<1> HIDE DEF after
<1>4. after[0] = t /\ \A i \in 1 .. n : after[i] = KickIfSeated(after[i - 1], order[i])
  BY <1>2
<1> QED
  BY <1>3, <1>4

\* Kicking one seat after another while nobody shuffles or bets.
LEMMA KickAllDrops ==
    ASSUME NEW t, Good(t), t.shuffle.phase = "none", ~t.betting.open,
           NEW order, Len(order) \in Nat,
           \A i \in 1 .. Len(order) : order[i] \in Seats
    PROVE  \/ Idle(KickAll(t, order))
           \/ /\ Good(KickAll(t, order))
              /\ Dropped(t, KickAll(t, order), {order[i] : i \in 1 .. Len(order)})
<1> DEFINE n == Len(order)
           first == [k \in 0 .. n |-> {order[i] : i \in 1 .. k}]
<1>1. PICK after : /\ after[0] = t
                   /\ \A i \in 1 .. n : after[i] = KickIfSeated(after[i - 1], order[i])
                   /\ KickAll(t, order) = after[n]
  BY KickAllSteps
<1> DEFINE Right == {k \in 0 .. n :
                       \/ Idle(after[k])
                       \/ Good(after[k]) /\ Dropped(t, after[k], first[k])}
<1>4. /\ first[0] = {}
      /\ \A k \in 1 .. n : first[k] = first[k - 1] \cup {order[k]}
  OBVIOUS
<1> HIDE DEF first
<1>5. \A k \in 0 .. n : k \in Right
  <2>1. 0 \in Right
    <3>1. after[0] = t
      BY <1>1
    <3>2. Dropped(t, t, {})
      BY DEF Dropped
    <3>3. first[0] = {}
      BY <1>4
    <3>4. Good(after[0]) /\ Dropped(t, after[0], first[0])
      BY <3>1, <3>2, <3>3
    <3> QED
      BY <3>4
  <2>2. ASSUME NEW k \in 1 .. n, k - 1 \in Right
        PROVE  k \in Right
    <3> DEFINE u == after[k - 1]
               v == after[k]
    <3>1. v = KickIfSeated(u, order[k]) /\ order[k] \in Seats
      BY <1>1
    <3>2. first[k] = first[k - 1] \cup {order[k]}
      BY <1>4
    <3>3. Idle(u) \/ (Good(u) /\ Dropped(t, u, first[k - 1]))
      BY <2>2
    <3> HIDE DEF u, v
    <3>4. Good(u) /\ u.shuffle.phase = "none" /\ ~u.betting.open
      <4>1. CASE Idle(u)
        BY <4>1 DEF Idle, Still, Good, Sound, Exclusive
      <4>2. CASE Good(u) /\ Dropped(t, u, first[k - 1])
        BY <4>2 DEF Dropped
      <4> QED
        BY <3>3, <4>1, <4>2
    <3>5. Idle(v) \/ (Good(v) /\ Dropped(u, v, {order[k]}))
      BY <3>1, <3>4, KickIfSeatedDrops
    <3>6. Idle(u) => Idle(v)
      BY <3>5 DEF Idle, Still, Dropped
    <3>7. Idle(v) \/ (Good(v) /\ Dropped(t, v, first[k]))
      BY <3>2, <3>3, <3>5, <3>6, DroppedTwice
    <3> QED
      BY <3>7 DEF v
  <2> HIDE DEF Right
  <2> QED
    BY <2>1, <2>2, UpTo
<1>6. Idle(after[n]) \/ (Good(after[n]) /\ Dropped(t, after[n], first[n]))
  <2>1. n \in Right
    BY <1>5
  <2> QED
    BY <2>1
<1> QED
  BY <1>1, <1>6 DEF first

\* The seats a reveal waits for are listed, each once, and no others.
LEMMA DebtorsListed ==
    ASSUME NEW t, DOMAIN t.reveal.asg \subseteq Nat
    PROVE  LET order == RevealDebtors(t)
           IN  /\ Len(order) \in Nat
               /\ \A i \in 1 .. Len(order) : order[i] \in Seats
               /\ \A a \in DOMAIN t.reveal.asg :
                     \A s \in Seats \cap t.reveal.asg[a].pending :
                        \E i \in 1 .. Len(order) : order[i] = s
<1> DEFINE asg == t.reveal.asg
           owing == {s \in Seats : \E a \in DOMAIN asg : s \in asg[a].pending}
           names(s) == {a \in DOMAIN asg : s \in asg[a].pending}
           first(s) == Min(names(s))
           before(s, u) == \/ first(s) < first(u)
                           \/ first(s) = first(u) /\ s < u
           below == [s \in owing |-> {u \in owing : before(u, s)}]
           Place(s, i) == Cardinality({u \in owing : before(u, s)}) = i - 1
           n == Cardinality(owing)
           order == RevealDebtors(t)
<1>1. n \in Nat /\ IsFiniteSet(owing)
  BY SomeSeatsFinite
<1>2. \A s \in owing : first(s) \in Nat /\ s \in Int
  <2> TAKE s \in owing
  <2>1. names(s) \in SUBSET Nat /\ names(s) # {}
    OBVIOUS
  <2>2. s \in Int
    BY TableAssumption DEF Seats
  <2> HIDE DEF names
  <2>3. PICK a \in names(s) : \A b \in names(s) : a <= b
    BY <2>1, LeastMember
  <2>4. first(s) \in names(s)
    BY <2>3 DEF Min
  <2> QED
    BY <2>1, <2>2, <2>4
<1>3. order = [i \in 1 .. n |-> CHOOSE s \in owing : Place(s, i)]
  BY DEF RevealDebtors
<1> HIDE DEF first, owing, order
<1>4. /\ \A x, y \in owing : Cardinality(below[x]) = Cardinality(below[y]) => x = y
      /\ \A x \in owing : Cardinality(below[x]) \in 0 .. n - 1
      /\ \A k \in 0 .. n - 1 : \E x \in owing : Cardinality(below[x]) = k
  <2>1. \A x \in owing : below[x] \subseteq owing /\ x \notin below[x]
    BY <1>2
  <2>2. \A x, y \in owing : x # y => x \in below[y] \/ y \in below[x]
    BY <1>2
  <2>3. \A x, y \in owing : x \in below[y] => below[x] \subseteq below[y]
    <3>1. \A x, y, z \in owing : before(x, y) /\ before(z, x) => before(z, y)
      BY <1>2
    <3> QED
      BY <3>1
  <2> HIDE DEF below
  <2> QED
    BY <1>1, <2>1, <2>2, <2>3, Ranking
<1>5. \A x \in owing, i \in 1 .. n : Place(x, i) <=> Cardinality(below[x]) = i - 1
  OBVIOUS
<1> HIDE DEF below, Place, n
<1>6. \A i \in 1 .. n : \E x \in owing : Place(x, i)
  BY <1>1, <1>4, <1>5
<1>7. \A i \in 1 .. n : order[i] \in owing /\ Place(order[i], i)
  BY <1>3, <1>6
<1>8. ASSUME NEW x \in owing
      PROVE  \E i \in 1 .. n : order[i] = x
  <2> DEFINE i == Cardinality(below[x]) + 1
  <2>1. i \in 1 .. n /\ Cardinality(below[x]) = i - 1
    BY <1>1, <1>4
  <2> HIDE DEF i
  <2>2. Cardinality(below[order[i]]) = i - 1 /\ order[i] \in owing
    BY <1>5, <1>7, <2>1
  <2> QED
    BY <1>4, <2>1, <2>2
<1>9. Len(order) = n
  <2>1. DOMAIN order = 1 .. n /\ order = [i \in 1 .. n |-> order[i]]
    <3> DEFINE member(i) == CHOOSE s \in owing : Place(s, i)
    <3>1. order = [i \in 1 .. n |-> member(i)]
      BY <1>3
    <3> HIDE DEF member
    <3> QED
      BY <3>1
  <2> QED
    BY <1>1, <2>1, Listed
<1> QED
  BY <1>1, <1>7, <1>8, <1>9 DEF owing, order

-----------------------------------------------------------------------------
(* Starting and restarting.                                                *)

\* do_start_hand, when its assert holds: who has not shuffled while joining
\* shuffles.
LEMMA DoStartHandGood ==
    ASSUME NEW t, Good(t), t.round = "waiting"
    PROVE  Good(DoStartHand(t))
<1> DEFINE moved == [MoveButton(t) EXCEPT !.timers.shuffle = FALSE]
           v == [moved EXCEPT !.shuffle.pending = PendingSeats(t),
                              !.shuffle.phase = "before_preflop"]
<1>1. /\ Shaped(v) /\ SameSeating(t, v) /\ v.round = t.round
      /\ v.betting = t.betting /\ v.reveal = t.reveal
      /\ v.reconstruct = t.reconstruct /\ v.shuffle.phase = "before_preflop"
      /\ v.shuffle.pending = PendingSeats(t)
      /\ v.shuffle.completed = t.shuffle.completed
  BY DEF Good, Sound, Shaped, TableFields, SameSeating, MoveButton
<1>2. \E cond : DoStartHand(t) = Require(AdvanceShuffle(v), cond)
  BY DEF DoStartHand
<1> HIDE DEF v
<1>3. ActiveSeats(v) = ActiveSeats(t)
  BY <1>1, SeatingDecides
<1>4. Exclusive(v) /\ Asking(v)
  BY <1>1 DEF Good, Sound, Exclusive, Asking, ShufflePhases, Asked
<1>5. Covers(v)
  BY <1>1, <1>3 DEF Good, Sound, Covers, PendingSeats
<1>6. Sound(v)
  BY <1>1, <1>4, <1>5, SeatingKeyed DEF Good, Sound
<1> QED
  BY <1>2, <1>6, AdvanceShuffleGood, RequireSound DEF Good

\* All active seats shuffle again: before the deal, or a rebuilt deck.
LEMMA ReshuffleGood ==
    ASSUME NEW t, Sound(t), NEW v, Shaped(v), SameSeating(t, v),
           v.round = t.round, ~t.betting.open, v.betting.open = t.betting.open,
           v.reveal = t.reveal, v.reconstruct.phase = "none", NEW phase,
           \/ phase = "before_preflop" /\ t.round = "waiting"
           \/ /\ phase = "reconstruct" /\ t.round \notin {"waiting", "preflop"}
              /\ t.reconstruct.phase # "none" \/ t.shuffle.phase = "reconstruct"
    PROVE  Good(AdvanceShuffle(ShuffleAmongActive(v, phase)))
<1> DEFINE w == ShuffleAmongActive(v, phase)
<1>1. /\ Shaped(w) /\ SameSeating(t, w) /\ w.round = t.round
      /\ w.betting.open = t.betting.open /\ w.reveal = t.reveal
      /\ w.reconstruct.phase = "none" /\ w.shuffle.phase = phase
      /\ w.shuffle.completed = {} /\ w.shuffle.pending = ActiveSeats(v)
  BY DEF ShuffleAmongActive, Shaped, TableFields, SameSeating
<1> HIDE DEF w
<1>2. ActiveSeats(w) = ActiveSeats(t) /\ ActiveSeats(v) = ActiveSeats(t)
  BY <1>1, SeatingDecides
<1>3. Exclusive(w)
  BY <1>1 DEF Sound, Exclusive, ShufflePhases
<1>4. Asking(w)
  BY <1>1, <1>2 DEF Sound, Exclusive, Asking, Asked
<1>5. Covers(w)
  BY <1>1, <1>2 DEF Covers
<1>6. Sound(w)
  BY <1>1, <1>3, <1>4, <1>5, SeatingKeyed DEF Sound
<1> QED
  BY <1>6, AdvanceShuffleGood DEF w

\* on_complete_reconstruct
LEMMA OnCompleteReconstructGood ==
    ASSUME NEW t, Sound(t), t.reconstruct.phase # "none"
    PROVE  Good(OnCompleteReconstruct(t))
<1> DEFINE v == [RebuildDeck(t) EXCEPT !.reconstruct.phase = "none"]
<1>1. /\ Shaped(v) /\ SameSeating(t, v) /\ v.round = t.round
      /\ v.betting.open = t.betting.open /\ v.reveal = t.reveal
      /\ v.reconstruct.phase = "none"
  BY DEF RebuildDeck, Sound, Shaped, TableFields, SameSeating
<1>2. ~t.betting.open /\ t.round \notin {"waiting", "preflop"}
  BY DEF Sound, Exclusive
<1> HIDE DEF v
<1>3. Good(AdvanceShuffle(ShuffleAmongActive(v, "reconstruct")))
  BY <1>1, <1>2, ReshuffleGood
<1> QED
  BY <1>3 DEF OnCompleteReconstruct, v

-----------------------------------------------------------------------------
(* Timeouts.                                                               *)

\* What ends a hand early keeps the invariant, whoever is left.
LEMMA EndingsGood ==
    ASSUME NEW t, Good(t)
    PROVE  /\ Good(EndWithoutShowdown(t))
           /\ Good(ResetForNextHand(RefundAllBets(t)))
BY EndWithoutShowdownEnds, IdleOrAsideGood, RefundThenResetIdle DEF Good, Idle

\* After the kicks of a timeout the hand is ended or goes on as asked.
LEMMA AfterKicksGood ==
    ASSUME NEW t, Good(t), NEW goOn, Good(goOn)
    PROVE  Good(AfterKicks(t, goOn))
BY EndingsGood DEF AfterKicks

\* on_reconstruct_timeout: the decks that are missing are done without.
LEMMA OnReconstructTimeoutGood ==
    ASSUME NEW t, Good(t), t.reconstruct.phase # "none"
    PROVE  Good(OnReconstructTimeout(t))
<1> DEFINE missing == t.reconstruct.pending
           order == Ascending(missing)
           u == KickAll(t, order)
<1>1. t.shuffle.phase = "none" /\ ~t.betting.open
  BY DEF Good, Sound, Exclusive
<1>2. missing \in SUBSET Seats /\ missing \in SUBSET Int /\ IsFiniteSet(missing)
  BY SomeSeatsFinite, TableAssumption DEF Good, Sound, Shaped, Seats
<1> HIDE DEF missing
<1>3. Len(order) \in Nat /\ \A i \in 1 .. Len(order) : order[i] \in Seats
  <2>1. Cardinality(missing) \in Nat /\ Len(order) = Cardinality(missing)
    BY <1>2, AscendingLists
  <2>2. \A i \in 1 .. Cardinality(missing) : order[i] \in missing
    BY <1>2, AscendingMembers
  <2> HIDE DEF order
  <2>3. 1 .. Len(order) = 1 .. Cardinality(missing)
    BY <2>1, Zenon
  <2> QED
    BY <1>2, <2>1, <2>2, <2>3
<1> HIDE DEF order
<1>4. Good(u) /\ (Idle(u) \/ u.reconstruct.phase # "none")
  BY <1>1, <1>3, KickAllDrops DEF Idle, Dropped
<1>5. OnReconstructTimeout(t) = AfterReconstructKicks(u)
  BY DEF OnReconstructTimeout, order, missing
<1> HIDE DEF u
<1>6. u.round # "waiting" => Good(OnCompleteReconstruct(u))
  BY <1>4, OnCompleteReconstructGood DEF Idle, Good
<1> QED
  BY <1>4, <1>5, <1>6, EndingsGood DEF AfterReconstructKicks

\* on_reveal_timeout: nobody is waited for any more when the deck is
\* reconstructed.
LEMMA OnRevealTimeoutGood ==
    ASSUME NEW t, Onward(t), t.reveal.phase # "none"
    PROVE  Good(OnRevealTimeout(t))
<1> DEFINE order == RevealDebtors(t)
           u == KickAll(t, order)
           listed == {order[i] : i \in 1 .. Len(order)}
<1>1. Good(t) /\ t.shuffle.phase = "none" /\ ~t.betting.open
      /\ t.reconstruct.phase = "none"
  BY DEF Onward, Calm, Good, Sound, Exclusive
<1>2. DOMAIN t.reveal.asg \subseteq Nat
  BY <1>1 DEF Good, Sound, Asking
<1>3. /\ Len(order) \in Nat /\ \A i \in 1 .. Len(order) : order[i] \in Seats
      /\ \A a \in DOMAIN t.reveal.asg :
            \A s \in Seats \cap t.reveal.asg[a].pending : s \in listed
  BY <1>2, DebtorsListed
<1> HIDE DEF order
<1>4. Idle(u) \/ (Good(u) /\ Dropped(t, u, listed))
  BY <1>1, <1>3, KickAllDrops
<1> HIDE DEF u, listed
<1>5. Good(u)
  BY <1>4 DEF Idle
<1>6. ASSUME u.round \notin {"waiting", "preflop"}
      PROVE  Good(StartReconstruct(u))
  <2> DEFINE v == StartReconstruct(u)
  <2>1. Dropped(t, u, listed)
    BY <1>4, <1>6 DEF Idle
  <2>2. /\ Shaped(v) /\ SameSeating(u, v) /\ v.round = u.round
        /\ v.betting.open = u.betting.open /\ v.reveal = u.reveal
        /\ v.shuffle = u.shuffle /\ v.reconstruct.phase = "collecting"
    BY <1>5, ActiveAreSeats DEF StartReconstruct, Good, Sound, Shaped, TableFields, SameSeating
  <2> HIDE DEF v
  <2>3. ActiveSeats(v) = ActiveSeats(u)
    BY <2>2, SeatingDecides
  <2>4. u.shuffle.phase = "none" /\ u.reconstruct.phase = "none" /\ ~u.betting.open
    BY <1>1, <2>1 DEF Dropped
  <2>5. Exclusive(v)
    BY <1>5, <1>6, <2>2, <2>4 DEF Good, Sound, Exclusive
  <2>6. u.reveal.phase \in Asked =>
           /\ \A a \in DOMAIN u.reveal.asg : u.reveal.asg[a].pending = {}
           /\ \E a \in DOMAIN u.reveal.asg : ~u.reveal.asg[a].decrypted
    <3> SUFFICES ASSUME u.reveal.phase \in Asked
                 PROVE  /\ \A a \in DOMAIN u.reveal.asg : u.reveal.asg[a].pending = {}
                        /\ \E a \in DOMAIN u.reveal.asg : ~u.reveal.asg[a].decrypted
      OBVIOUS
    <3>1. t.reveal.phase \in Asked /\ DOMAIN u.reveal.asg = DOMAIN t.reveal.asg
      BY <2>1 DEF Dropped
    <3>2. \A a \in DOMAIN t.reveal.asg :
             /\ u.reveal.asg[a].decrypted = t.reveal.asg[a].decrypted
             /\ u.reveal.asg[a].pending \subseteq t.reveal.asg[a].pending
             /\ u.reveal.asg[a].pending \cap listed = {}
      BY <2>1, <3>1 DEF Dropped
    <3>3. \A a \in DOMAIN t.reveal.asg : t.reveal.asg[a].pending \subseteq listed
      BY <1>1, <1>3, <3>1, ActiveAreSeats DEF Good, Sound, Asking
    <3>4. PICK a \in DOMAIN t.reveal.asg : ~t.reveal.asg[a].decrypted
      BY <3>1 DEF Onward, Unanswered
    <3> QED
      BY <3>1, <3>2, <3>3, <3>4
  <2>7. Asking(v)
    BY <1>5, <2>2, <2>3, <2>6 DEF Good, Sound, Asking
  <2>8. Covers(v) /\ Led(v)
    BY <1>5, <2>2, <2>3, <2>4 DEF Good, Sound, Covers, Led
  <2> QED
    BY <1>5, <2>2, <2>5, <2>7, <2>8, SeatingKeyed DEF Good, Sound, v
<1>7. Good(RestartAfterKicks(u))
  BY <1>5, EndingsGood, AfterKicksGood DEF RestartAfterKicks
<1>8. t.round # "preflop" => Good(ReconstructAfterKicks(u))
  <2>1. t.round # "preflop" => u.round # "preflop"
    BY <1>4 DEF Idle, Dropped
  <2> QED
    BY <1>5, <1>6, <2>1, AfterKicksGood DEF ReconstructAfterKicks
<1> QED
  BY <1>7, <1>8 DEF OnRevealTimeout, u, order

\* on_shuffle_timeout: those who are left shuffle again.
LEMMA OnShuffleTimeoutGood ==
    ASSUME NEW t, Good(t), t.shuffle.phase # "none"
    PROVE  Good(OnShuffleTimeout(t))
<1> DEFINE s == t.shuffle.current
           u == KickPlayerInternal(t, s)
           v == RebuildDeck([u EXCEPT !.reconstruct.decks = @ \ {s}])
<1>1. s \in Seats
  BY ActiveAreSeats DEF Good, Sound, Covers, Led
<1>2. Good(u) /\ u.shuffle.phase \in {t.shuffle.phase, "none"}
  BY <1>1, KickGood
<1>3. t.shuffle.phase \in {"before_preflop", "reconstruct"}
  BY DEF Good, Sound, Exclusive, ShufflePhases
<1>4. \/ OnShuffleTimeout(t) = t
      \/ OnShuffleTimeout(t) = IF t.shuffle.phase = "before_preflop"
                               THEN ReshuffleAfterKick(u) ELSE RebuildAfterKick(u, s)
  BY DEF OnShuffleTimeout
<1> HIDE DEF u
<1>5. u.shuffle.phase # "none" => /\ ~u.betting.open /\ u.reconstruct.phase = "none"
  BY <1>2 DEF Good, Sound, Exclusive
<1>6. ASSUME u.shuffle.phase = "before_preflop"
      PROVE  Good(AdvanceShuffle(ShuffleAmongActive(u, "before_preflop")))
  <2>1. u.round = "waiting" /\ Sound(u) /\ Shaped(u) /\ SameSeating(u, u)
    BY <1>2, <1>6 DEF Good, Sound, Exclusive, SameSeating
  <2> QED
    BY <1>5, <1>6, <2>1, ReshuffleGood
<1>7. ASSUME u.shuffle.phase = "reconstruct"
      PROVE  Good(AdvanceShuffle(ShuffleAmongActive(v, "reconstruct")))
  <2>1. u.round \notin {"waiting", "preflop"} /\ Sound(u)
    BY <1>2, <1>7 DEF Good, Sound, Exclusive
  <2>2. /\ Shaped(v) /\ SameSeating(u, v) /\ v.round = u.round
        /\ v.betting.open = u.betting.open /\ v.reveal = u.reveal
        /\ v.reconstruct.phase = u.reconstruct.phase
    BY <2>1 DEF RebuildDeck, Sound, Shaped, TableFields, SameSeating
  <2> HIDE DEF v
  <2> QED
    BY <1>5, <1>7, <2>1, <2>2, ReshuffleGood
<1>8. t.shuffle.phase = "before_preflop" => Good(ReshuffleAfterKick(u))
  BY <1>2, <1>6, AfterKicksGood DEF ReshuffleAfterKick
<1>9. t.shuffle.phase = "reconstruct" => Good(RebuildAfterKick(u, s))
  BY <1>2, <1>7, AfterKicksGood DEF RebuildAfterKick
<1> QED
  BY <1>3, <1>4, <1>8, <1>9

-----------------------------------------------------------------------------
(* The entry points.                                                       *)

\* A new table: nobody sits, no phase is open.
LEMMA NewTableGood == Good(NewTable)
<1> DEFINE t == NewTable
<1>1. /\ DOMAIN EmptySeat = SeatFields /\ ~EmptySeat.left
      /\ EmptySeat.player = NoPlayer
  BY DEF EmptySeat, SeatFields
<1>2. /\ DOMAIN NoRound = {"open", "current_bet", "min_raise"} /\ ~NoRound.open
      /\ DOMAIN EmptyShuffle = {"phase", "current", "pending", "completed"}
      /\ EmptyShuffle.phase = "none" /\ EmptyShuffle.pending = {}
      /\ EmptyShuffle.completed = {}
      /\ DOMAIN EmptyReveal = {"phase", "asg"} /\ EmptyReveal.phase = "none"
      /\ DOMAIN EmptyReconstruct = {"phase", "pending", "decks"}
      /\ EmptyReconstruct.phase = "none" /\ EmptyReconstruct.pending = {}
  BY DEF NoRound, EmptyShuffle, EmptyReveal, EmptyReconstruct
<1>3. /\ DOMAIN t = TableFields
      /\ t.seats = [s \in Seats |-> EmptySeat] /\ t.round = "waiting"
      /\ t.betting = NoRound /\ t.shuffle = EmptyShuffle /\ t.reveal = EmptyReveal
      /\ t.reconstruct = EmptyReconstruct /\ t.ready = 0 /\ t.decrypted = {}
      /\ t.agg = [p \in Players |-> 0]
  BY DEF NewTable, TableFields
<1> HIDE DEF t
<1>4. Shaped(t)
  BY <1>1, <1>2, <1>3, FS_EmptySet DEF Shaped
<1>5. ActiveSeats(t) = {}
  BY <1>1, <1>3 DEF ActiveSeats, OccupiedSeats, IsSeatOccupied
<1>6. Exclusive(t) /\ Asking(t) /\ Covers(t) /\ Led(t)
  BY <1>2, <1>3, <1>5 DEF Exclusive, Asking, Covers, Led, ShufflePhases, Asked
<1>7. Keyed(t)
  <2>1. \A s \in Seats : ~t.seats[s].left
    BY <1>1, <1>3
  <2>2. ASSUME NEW p \in Players
        PROVE  t.agg[p] = Cardinality({s \in ActiveSeats(t) : t.seats[s].player = p})
    <3>1. {s \in ActiveSeats(t) : t.seats[s].player = p} = {}
      BY <1>5
    <3> QED
      BY <1>3, <3>1, FS_EmptySet
  <2> QED
    BY <2>1, <2>2 DEF Keyed
<1> QED
  BY <1>4, <1>6, <1>7 DEF Good, Sound, t

\* While bets are made no phase of the card protocol is open.
LEMMA BettingIsStill ==
    ASSUME NEW t, Good(t), IsBettingRound(t)
    PROVE  Sound(t) /\ Still(t)
BY DEF Good, Sound, Exclusive, Still, IsBettingRound

-----------------------------------------------------------------------------
(* The tick.                                                               *)

\* A timer that is started or stopped changes no phase.
LEMMA TimersGood ==
    ASSUME NEW t, Good(t), NEW timers
    PROVE  Good([t EXCEPT !.timers = timers])
<1> DEFINE u == [t EXCEPT !.timers = timers]
<1>1. Aside(t, u)
  BY DEF Good, Sound, Aside, SameSeating, SamePhases, Shaped, TableFields
<1> HIDE DEF u
<1>2. Good(u)
  BY <1>1, AsideSound DEF Good
<1> QED
  BY <1>2 DEF u

\* The shuffle in the tick: the next shuffler, the timeout or the timer.
LEMMA TickShuffleGood ==
    ASSUME NEW t, Good(t), t.shuffle.phase # "none", NEW expired
    PROVE  Good(TickShuffle(t, expired))
<1> DEFINE timers == [t.timers EXCEPT !.shuffle = TRUE]
<1>1. \/ TickShuffle(t, expired) = AdvanceShuffle(t)
      \/ TickShuffle(t, expired) = OnShuffleTimeout(t)
      \/ TickShuffle(t, expired) = [t EXCEPT !.timers = timers]
  BY DEF TickShuffle
<1> HIDE DEF timers
<1> QED
  BY <1>1, AdvanceShuffleGood, OnShuffleTimeoutGood, TimersGood DEF Good

\* After the answers are counted, a reveal that is open waits for somebody.
LEMMA AnsweredOnward ==
    ASSUME NEW t, Good(t), Calm(t), NEW ranks
    PROVE  Onward(Answered(t, ranks))
<1>1. CASE \A a \in DOMAIN t.reveal.asg : t.reveal.asg[a].pending = {}
  BY <1>1, CheckRevealGood DEF Answered
<1>2. CASE \E a \in DOMAIN t.reveal.asg : t.reveal.asg[a].pending # {}
  <2>1. Unanswered(t)
    BY <1>2 DEF Good, Sound, Asking, Unanswered
  <2> QED
    BY <1>2, <2>1 DEF Answered, Onward
<1> QED
  BY <1>1, <1>2

\* The reveal in the tick, and the timer of what follows it.
LEMMA TickRevealGood ==
    ASSUME NEW t, Good(t), Calm(t), NEW expired, NEW ranks
    PROVE  Good(TickReveal(t, expired, ranks))
<1> DEFINE u == Answered(t, ranks)
           timers == [u.timers EXCEPT !.reveal = TRUE]
<1>1. Onward(u)
  BY AnsweredOnward
<1>2. \/ TickReveal(t, expired, ranks) = u
      \/ u.reveal.phase # "none" /\ TickReveal(t, expired, ranks) = OnRevealTimeout(u)
      \/ TickReveal(t, expired, ranks) = [u EXCEPT !.timers = timers]
  BY DEF TickReveal, RevealTimed
<1> HIDE DEF u, timers
<1> QED
  BY <1>1, <1>2, OnRevealTimeoutGood, TimersGood DEF Onward

\* Betting in the tick: the next street, a fold or the timer.
LEMMA TickBettingGood ==
    ASSUME NEW t, Good(t), IsBettingRound(t), NEW expired
    PROVE  Good(TickBetting(t, expired))
<1> DEFINE timers == [t.timers EXCEPT !.betting = TRUE]
           c == CollectBetsToPot(t)
<1>1. Sound(t) /\ Still(t)
  BY BettingIsStill
<1>2. Sound(c) /\ Still(c)
  <2>1. Aside(t, c)
    BY <1>1, CollectBetsAside DEF Sound
  <2> HIDE DEF c
  <2> QED
    BY <1>1, <2>1, AsideSound
<1>3. \/ TickBetting(t, expired) = AdvanceRound(c)
      \/ TickBetting(t, expired) = DoFold(t, t.turn)
      \/ TickBetting(t, expired) = [t EXCEPT !.timers = timers]
  BY DEF TickBetting
<1> HIDE DEF c, timers
<1> QED
  BY <1>1, <1>2, <1>3, AdvanceRoundOnward, DoFoldGood, TimersGood DEF Onward

\* The showdown in the tick: the display time runs, or the hand is settled.
LEMMA TickShowdownGood ==
    ASSUME NEW t, Good(t), NEW expired, NEW ranks
    PROVE  Good(TickShowdown(t, expired, ranks))
<1> DEFINE timers == [t.timers EXCEPT !.showdown = TRUE]
           started == [t EXCEPT !.timers = timers]
<1>1. \/ TickShowdown(t, expired, ranks) = SettleHand(started, ranks)
      \/ TickShowdown(t, expired, ranks) = started
  BY DEF TickShowdown
<1> HIDE DEF timers
<1>2. Good(started)
  BY TimersGood
<1> HIDE DEF started
<1> QED
  BY <1>1, <1>2, SettleHandIdle DEF Good, Idle

\* tick, whatever it finds and whichever timers have run out.
LEMMA TickedGood ==
    ASSUME NEW t, Good(t), NEW expired, NEW ranks
    PROVE  Good(Ticked(t, expired, ranks))
<1>1. CASE t.reconstruct.phase # "none"
  <2>1. Ticked(t, expired, ranks) = TickReconstruct(t, expired)
    BY <1>1 DEF Ticked, IsPlaying
  <2> QED
    BY <1>1, <2>1, OnReconstructTimeoutGood DEF TickReconstruct
<1>2. CASE t.reconstruct.phase = "none" /\ t.shuffle.phase # "none"
  <2>1. Ticked(t, expired, ranks) = TickShuffle(t, expired)
    BY <1>2 DEF Ticked, IsPlaying
  <2> QED
    BY <1>2, <2>1, TickShuffleGood
<1>3. CASE /\ t.reconstruct.phase = "none" /\ t.shuffle.phase = "none"
           /\ t.reveal.phase # "none"
  <2>1. Ticked(t, expired, ranks) = TickReveal(t, expired, ranks)
    BY <1>3 DEF Ticked, IsPlaying
  <2> QED
    BY <1>3, <2>1, TickRevealGood DEF Calm
<1>4. CASE Still(t)
  <2>1. CASE ~IsPlaying(t)
    <3>1. Ticked(t, expired, ranks) = TickWaiting(t)
      BY <1>4, <2>1 DEF Ticked, Still
    <3>2. t.round = "waiting"
      BY <2>1 DEF IsPlaying
    <3> QED
      BY <3>1, <3>2, DoStartHandGood DEF TickWaiting
  <2>2. CASE IsPlaying(t)
    <3>1. \/ IsBettingRound(t) /\ Ticked(t, expired, ranks) = TickBetting(t, expired)
          \/ Ticked(t, expired, ranks) = TickShowdown(t, expired, ranks)
          \/ Ticked(t, expired, ranks) = ResetForNextHand(RefundAllBets(t))
      BY <1>4, <2>2 DEF Ticked, Still
    <3> QED
      BY <3>1, TickBettingGood, TickShowdownGood, EndingsGood
  <2> QED
    BY <2>1, <2>2
<1> QED
  BY <1>1, <1>2, <1>3, <1>4 DEF Still

-----------------------------------------------------------------------------
(* Joining and leaving.                                                    *)

\* Seat s of t is handed over, the other seats are as they were.
HandedOver(t, u, s) ==
    /\ s \in Seats
    /\ Shaped(u)
    /\ \A x \in Seats \ {s} : u.seats[x] = t.seats[x]
    /\ ~u.seats[s].left
    /\ u.round = t.round /\ u.betting.open = t.betting.open
    /\ u.shuffle.phase = t.shuffle.phase /\ u.shuffle.current = t.shuffle.current
    /\ u.reveal = t.reveal /\ u.reconstruct = t.reconstruct

\* Whoever sits down in a free seat waits without a key, or takes part with it.
LEMMA SeatTakenKeyed ==
    ASSUME NEW t, NEW u, NEW s, Sound(t), HandedOver(t, u, s),
           s \notin ActiveSeats(t), u.seats[s].player # NoPlayer,
           u.agg = IF u.seats[s].is_waiting THEN t.agg
                   ELSE [t.agg EXCEPT ![u.seats[s].player] = @ + 1]
    PROVE  /\ Keyed(u)
           /\ ActiveSeats(u) = IF u.seats[s].is_waiting THEN ActiveSeats(t)
                               ELSE ActiveSeats(t) \cup {s}
<1>1. s \in Seats /\ ~u.seats[s].left /\ \A x \in Seats \ {s} : u.seats[x] = t.seats[x]
  BY DEF HandedOver
<1>2. ActiveSeats(u) = IF u.seats[s].is_waiting THEN ActiveSeats(t)
                       ELSE ActiveSeats(t) \cup {s}
  BY <1>1 DEF ActiveSeats, OccupiedSeats, IsSeatOccupied
<1>3. \A x \in Seats : u.seats[x].left => u.seats[x].stack = 0 /\ ~u.seats[x].is_waiting
  BY <1>1 DEF Sound, Keyed
<1>4. ASSUME NEW p \in Players
      PROVE  u.agg[p] = Cardinality({x \in ActiveSeats(u) : u.seats[x].player = p})
  <2> DEFINE old == {x \in ActiveSeats(t) : t.seats[x].player = p}
             new == {x \in ActiveSeats(u) : u.seats[x].player = p}
             comes == ~u.seats[s].is_waiting /\ u.seats[s].player = p
  <2>1. s \notin old /\ new = IF comes THEN old \cup {s} ELSE old
    BY <1>1, <1>2, ActiveAreSeats
  <2>2. IsFiniteSet(old) /\ Cardinality(old) \in Nat
    BY SomeSeatsFinite, ActiveAreSeats
  <2>3. t.agg[p] = Cardinality(old) /\ DOMAIN t.agg = Players
    BY DEF Sound, Keyed, Shaped
  <2>4. u.agg[p] = IF comes THEN Cardinality(old) + 1 ELSE Cardinality(old)
    <3> HIDE DEF old
    <3> QED
      BY <2>3
  <2> HIDE DEF old, new, comes
  <2>5. Cardinality(new) = IF comes THEN Cardinality(old) + 1 ELSE Cardinality(old)
    BY <2>1, <2>2, FS_AddElement
  <2> QED
    BY <2>4, <2>5 DEF new
<1> QED
  BY <1>2, <1>3, <1>4 DEF Keyed

\* Whoever leaves takes the key along, unless it was never added.
LEMMA SeatLeftKeyed ==
    ASSUME NEW t, NEW u, NEW s, Sound(t), HandedOver(t, u, s),
           s \in OccupiedSeats(t), u.seats[s].player = NoPlayer,
           u.agg = IF t.seats[s].is_waiting THEN t.agg
                   ELSE [t.agg EXCEPT ![t.seats[s].player] = @ - 1]
    PROVE  /\ Keyed(u)
           /\ ActiveSeats(u) = ActiveSeats(t) \ {s}
<1>1. s \in Seats /\ ~u.seats[s].left /\ \A x \in Seats \ {s} : u.seats[x] = t.seats[x]
  BY DEF HandedOver
<1>2. ActiveSeats(u) = ActiveSeats(t) \ {s}
  BY <1>1 DEF ActiveSeats, OccupiedSeats, IsSeatOccupied
<1>3. \A x \in Seats : u.seats[x].left => u.seats[x].stack = 0 /\ ~u.seats[x].is_waiting
  BY <1>1 DEF Sound, Keyed
<1>4. ASSUME NEW p \in Players
      PROVE  u.agg[p] = Cardinality({x \in ActiveSeats(u) : u.seats[x].player = p})
  <2> DEFINE old == {x \in ActiveSeats(t) : t.seats[x].player = p}
             new == {x \in ActiveSeats(u) : u.seats[x].player = p}
  <2>1. new = old \ {s}
    BY <1>1, <1>2, ActiveAreSeats
  <2>2. IsFiniteSet(old) /\ Cardinality(old) \in Nat
    BY SomeSeatsFinite, ActiveAreSeats
  <2>3. t.agg[p] = Cardinality(old) /\ DOMAIN t.agg = Players
    BY DEF Sound, Keyed, Shaped
  <2>4. s \in old <=> ~t.seats[s].is_waiting /\ t.seats[s].player = p
    BY DEF ActiveSeats
  <2>5. u.agg[p] = IF s \in old THEN Cardinality(old) - 1 ELSE Cardinality(old)
    <3> HIDE DEF old
    <3> QED
      BY <2>3, <2>4
  <2> HIDE DEF old, new
  <2>6. Cardinality(new) = IF s \in old THEN Cardinality(old) - 1 ELSE Cardinality(old)
    BY <2>1, <2>2, FS_RemoveElement
  <2> QED
    BY <2>5, <2>6 DEF new
<1> QED
  BY <1>2, <1>3, <1>4 DEF Keyed

\* join_table: a player who comes in the middle of a hand waits without a key.
LEMMA JoinTableGood ==
    ASSUME NEW p \in Players, NEW s \in Seats, NEW coin,
           Good(table), JoinTable(p, s, coin)
    PROVE  Good(table')
<1> DEFINE waits == IsPlaying(table)
           seat == InitSeat(p, coin \div Ratio, waits)
           seated == Seated(table, p, s, coin, waits)
           u == IF waits THEN seated ELSE AddPk(seated, p)
<1>1. table' = u /\ s \notin ActiveSeats(table)
  BY DEF JoinTable, Commit, CanSit, ActiveSeats, OccupiedSeats
<1>2. /\ DOMAIN seat = SeatFields /\ seat.player = p /\ seat.is_waiting = waits
      /\ ~seat.left
  BY DEF InitSeat, EmptySeat, SeatFields
<1> HIDE DEF seat
<1>3. /\ HandedOver(table, u, s) /\ u.seats[s] = seat
      /\ u.shuffle = table.shuffle
      /\ u.agg = IF waits THEN table.agg ELSE [table.agg EXCEPT ![p] = @ + 1]
  BY <1>2 DEF Seated, AddPk, HandedOver, Good, Sound, Shaped, TableFields, seat
<1> HIDE DEF u
<1>4. /\ Keyed(u)
      /\ ActiveSeats(u) = IF waits THEN ActiveSeats(table)
                          ELSE ActiveSeats(table) \cup {s}
  BY <1>1, <1>2, <1>3, SeatTakenKeyed, TableAssumption DEF Good
<1>5. ~waits => Still(table)
  BY DEF IsPlaying, Still
<1> HIDE DEF waits
<1>6. Exclusive(u)
  BY <1>3 DEF HandedOver, Good, Sound, Exclusive
<1>7. Asking(u)
  BY <1>3, <1>4, <1>5 DEF HandedOver, Good, Sound, Asking, Still, Asked
<1>8. Covers(u) /\ Led(u)
  BY <1>3, <1>4, <1>5 DEF HandedOver, Good, Sound, Covers, Led, Still
<1> QED
  BY <1>1, <1>3, <1>4, <1>6, <1>7, <1>8 DEF Good, Sound, HandedOver

\* join_and_shuffle: who joins before the deal has shuffled, whether or not
\* the others are shuffling already.
LEMMA JoinAndShuffleGood ==
    ASSUME NEW p \in Players, NEW s \in Seats, NEW coin,
           Good(table), JoinAndShuffle(p, s, coin)
    PROVE  Good(table')
<1> DEFINE seat == InitSeat(p, coin \div Ratio, FALSE)
           seated == AddPk(Seated(table, p, s, coin, FALSE), p)
           u == [seated EXCEPT !.shuffle.completed = @ \cup {s},
                               !.shuffle.pending = @ \ {s}]
<1>1. table' = u /\ s \notin ActiveSeats(table) /\ table.round = "waiting"
  BY DEF JoinAndShuffle, Commit, CanSit, ActiveSeats, OccupiedSeats
<1>2. /\ DOMAIN seat = SeatFields /\ seat.player = p /\ ~seat.is_waiting
      /\ ~seat.left
  BY DEF InitSeat, EmptySeat, SeatFields
<1> HIDE DEF seat
<1>3. /\ HandedOver(table, u, s) /\ u.seats[s] = seat
      /\ u.shuffle.completed = table.shuffle.completed \cup {s}
      /\ u.shuffle.pending = table.shuffle.pending \ {s}
      /\ u.agg = [table.agg EXCEPT ![p] = @ + 1]
  BY <1>2 DEF Seated, AddPk, HandedOver, Good, Sound, Shaped, TableFields, seat
<1> HIDE DEF u
<1>4. Keyed(u) /\ ActiveSeats(u) = ActiveSeats(table) \cup {s}
  <2>1. /\ u.seats[s].player # NoPlayer /\ ~u.seats[s].is_waiting
        /\ u.agg = [table.agg EXCEPT ![u.seats[s].player] = @ + 1]
    BY <1>2, <1>3, TableAssumption
  <2>2. Sound(table) /\ HandedOver(table, u, s) /\ s \notin ActiveSeats(table)
    BY <1>1, <1>3 DEF Good
  <2> QED
    BY <2>1, <2>2, SeatTakenKeyed
<1>5. Exclusive(u)
  BY <1>3 DEF HandedOver, Good, Sound, Exclusive
<1>6. Asking(u)
  BY <1>1, <1>3 DEF HandedOver, Good, Sound, Exclusive, Asking, Asked
<1>7. Covers(u) /\ Led(u)
  BY <1>1, <1>3, <1>4 DEF HandedOver, Good, Sound, Covers, Led
<1> QED
  BY <1>1, <1>3, <1>4, <1>5, <1>6, <1>7 DEF Good, Sound, HandedOver

\* leave_with_proof and leave_table: the chips go back, the seat is free.
LEMMA DepartedHandsOver ==
    ASSUME NEW t, NEW v, NEW s \in Seats, Shaped(v),
           v.seats = t.seats, v.round = t.round, v.betting = t.betting,
           v.shuffle.phase = t.shuffle.phase, v.shuffle.current = t.shuffle.current,
           v.reveal = t.reveal, v.reconstruct = t.reconstruct
    PROVE  /\ HandedOver(t, Departed(v, s), s)
           /\ Departed(v, s).seats[s].player = NoPlayer
           /\ Departed(v, s).agg = v.agg
           /\ Departed(v, s).shuffle = v.shuffle
<1> DEFINE u == Departed(v, s)
           paid == [v EXCEPT !.balance = @ - v.seats[s].stack * Ratio]
           none == EmptySeat
<1>1. DOMAIN none = SeatFields /\ none.player = NoPlayer /\ ~none.left
  BY DEF EmptySeat, SeatFields
<1> HIDE DEF none
<1>2. \/ u = [paid EXCEPT !.seats[s] = none]
      \/ u = [Abort(paid) EXCEPT !.seats[s] = none]
  BY DEF Departed, RefundSui, Require, none
<1> DEFINE Like(w, seats) ==
               /\ DOMAIN w = TableFields /\ w.seats = seats
               /\ w.round = v.round /\ w.betting = v.betting
               /\ w.shuffle = v.shuffle /\ w.reveal = v.reveal
               /\ w.reconstruct = v.reconstruct /\ w.agg = v.agg
               /\ w.ready = v.ready /\ w.decrypted = v.decrypted
<1>3. Like(paid, v.seats)
  BY DEF Shaped, TableFields
<1> HIDE DEF paid, u
<1>4. Like(Abort(paid), v.seats)
  BY <1>3 DEF Abort, TableFields
<1>5. Like(u, [v.seats EXCEPT ![s] = none])
  <2>1. ASSUME NEW w, Like(w, v.seats), u = [w EXCEPT !.seats[s] = none]
        PROVE  Like(u, [v.seats EXCEPT ![s] = none])
    BY <2>1 DEF TableFields
  <2> HIDE DEF Like
  <2> QED
    BY <1>2, <1>3, <1>4, <2>1
<1>6. Shaped(u)
  BY <1>1, <1>5 DEF Shaped
<1> QED
  BY <1>1, <1>5, <1>6 DEF HandedOver, Shaped, u

\* leave_with_proof: only before the deal, and never the current shuffler.
LEMMA LeaveWithProofGood ==
    ASSUME NEW s \in Seats, Good(table), LeaveWithProof(s)
    PROVE  Good(table')
<1> DEFINE unkeyed == RemovePk(table, table.seats[s].player)
           v == [unkeyed EXCEPT !.shuffle.pending = @ \ {s},
                                !.shuffle.completed = @ \ {s}]
           u == Departed(v, s)
<1>1. /\ table' = u /\ s \in OccupiedSeats(table) /\ table.round = "waiting"
      /\ s \in table.shuffle.completed
  BY DEF LeaveWithProof, Commit
<1>2. s \in ActiveSeats(table) /\ ~table.seats[s].is_waiting
  BY <1>1 DEF Good, Sound, Covers, ActiveSeats
<1>3. /\ Shaped(v) /\ v.seats = table.seats /\ v.round = table.round
      /\ v.betting = table.betting
      /\ v.shuffle.phase = table.shuffle.phase
      /\ v.shuffle.current = table.shuffle.current
      /\ v.shuffle.pending = table.shuffle.pending \ {s}
      /\ v.shuffle.completed = table.shuffle.completed \ {s}
      /\ v.reveal = table.reveal /\ v.reconstruct = table.reconstruct
      /\ v.agg = [table.agg EXCEPT ![table.seats[s].player] = @ - 1]
  BY DEF RemovePk, Good, Sound, Shaped, TableFields
<1> HIDE DEF v
<1>4. /\ HandedOver(table, u, s) /\ u.seats[s].player = NoPlayer
      /\ u.agg = v.agg /\ u.shuffle = v.shuffle
  BY <1>3, DepartedHandsOver
<1> HIDE DEF u
<1>5. Keyed(u) /\ ActiveSeats(u) = ActiveSeats(table) \ {s}
  BY <1>1, <1>2, <1>3, <1>4, SeatLeftKeyed DEF Good
<1>6. Exclusive(u)
  BY <1>4 DEF HandedOver, Good, Sound, Exclusive
<1>7. Asking(u)
  BY <1>1, <1>4 DEF HandedOver, Good, Sound, Exclusive, Asking, Asked
<1>8. Covers(u) /\ Led(u)
  BY <1>1, <1>3, <1>4, <1>5 DEF HandedOver, Good, Sound, Covers, Led
<1> QED
  BY <1>1, <1>4, <1>5, <1>6, <1>7, <1>8 DEF Good, Sound, HandedOver

\* leave_table: during a hand only a waiting player, who has no key there.
LEMMA LeaveTableGood ==
    ASSUME NEW s \in Seats, Good(table), LeaveTable(s)
    PROVE  Good(table')
<1> DEFINE seat == table.seats[s]
           v == IF seat.is_waiting THEN table ELSE RemovePk(table, seat.player)
           u == Departed(v, s)
<1>1. /\ table' = u /\ s \in OccupiedSeats(table)
      /\ s \notin table.shuffle.completed
      /\ IsPlaying(table) => seat.is_waiting
  BY DEF LeaveTable, Commit
<1>2. /\ Shaped(v) /\ v.seats = table.seats /\ v.round = table.round
      /\ v.betting = table.betting /\ v.shuffle = table.shuffle
      /\ v.reveal = table.reveal /\ v.reconstruct = table.reconstruct
      /\ v.agg = IF seat.is_waiting THEN table.agg
                 ELSE [table.agg EXCEPT ![seat.player] = @ - 1]
  BY DEF RemovePk, Good, Sound, Shaped, TableFields
<1> HIDE DEF v
<1>3. /\ HandedOver(table, u, s) /\ u.seats[s].player = NoPlayer
      /\ u.agg = v.agg /\ u.shuffle = table.shuffle
  BY <1>2, DepartedHandsOver
<1> HIDE DEF u
<1>4. Keyed(u) /\ ActiveSeats(u) = ActiveSeats(table) \ {s}
  BY <1>1, <1>2, <1>3, SeatLeftKeyed DEF Good
<1>5. seat.is_waiting \/ Still(table)
  BY <1>1 DEF IsPlaying, Still
<1>6. seat.is_waiting => ActiveSeats(u) = ActiveSeats(table)
  BY <1>4 DEF ActiveSeats
<1> HIDE DEF seat
<1>7. Exclusive(u)
  BY <1>3 DEF HandedOver, Good, Sound, Exclusive
<1>8. Asking(u)
  BY <1>3, <1>5, <1>6 DEF HandedOver, Good, Sound, Asking, Still, Asked
<1>9. Covers(u) /\ Led(u)
  BY <1>1, <1>3, <1>4, <1>5, <1>6 DEF HandedOver, Good, Sound, Covers, Led, Still
<1> QED
  BY <1>1, <1>3, <1>4, <1>7, <1>8, <1>9 DEF Good, Sound, HandedOver

-----------------------------------------------------------------------------
(* The card protocol.                                                      *)

\* advance_shuffle returns a whole table, whatever table it is given.
LEMMA AdvanceShuffleFields ==
    ASSUME NEW t, DOMAIN t = TableFields
    PROVE  DOMAIN AdvanceShuffle(t) = TableFields
<1> DEFINE untimed == [t EXCEPT !.timers.reveal = FALSE, !.shuffle = EmptyShuffle]
           first == [untimed EXCEPT !.round = "preflop"]
           again == [untimed EXCEPT !.reconstruct = EmptyReconstruct,
                                    !.reveal = EmptyReveal]
<1>1. DOMAIN first = TableFields /\ DOMAIN again = TableFields
  OBVIOUS
<1>2. \/ AdvanceShuffle(t) = StartPreflopReveal(first)
      \/ AdvanceShuffle(t) = ResumeReveal(again)
      \/ DOMAIN AdvanceShuffle(t) = DOMAIN t
  BY DEF AdvanceShuffle
<1> HIDE DEF first, again
<1>3. ASSUME NEW v, DOMAIN v = TableFields
      PROVE  /\ DOMAIN StartPreflopReveal(v) = TableFields
             /\ DOMAIN ResumeReveal(v) = TableFields
  <2>1. DOMAIN StartPreflopReveal(v) = TableFields
    BY <1>3 DEF StartPreflopReveal
  <2>2. ASSUME NEW w, DOMAIN w = TableFields, NEW count, NEW phase, NEW cond
        PROVE  DOMAIN Require(StartCommunityReveal(w, count, phase), cond) = TableFields
    BY <2>2 DEF StartCommunityReveal, Require, Abort
  <2>3. ASSUME NEW w, DOMAIN w = TableFields
        PROVE  DOMAIN StartShowdownReveal(w) = TableFields
    BY <2>3 DEF StartShowdownReveal
  <2>4. \/ ResumeReveal(v) = StartPreflopReveal(v)
        \/ \E count, phase, cond :
              ResumeReveal(v) = Require(StartCommunityReveal(v, count, phase), cond)
        \/ ResumeReveal(v) = StartShowdownReveal([v EXCEPT !.timers.showdown = FALSE])
        \/ ResumeReveal(v) = v
    BY DEF ResumeReveal
  <2>5. DOMAIN [v EXCEPT !.timers.showdown = FALSE] = TableFields
    BY <1>3
  <2> QED
    BY <1>3, <2>1, <2>2, <2>3, <2>4, <2>5
<1> QED
  BY <1>1, <1>2, <1>3

\* start_hand aborts during a hand.
LEMMA StartHandAllowed ==
    ASSUME DOMAIN table = TableFields, StartHand
    PROVE  table' = DoStartHand(table) /\ table.round = "waiting"
<1> DEFINE v == [[MoveButton(table) EXCEPT !.timers.shuffle = FALSE]
                    EXCEPT !.shuffle.pending = PendingSeats(table),
                           !.shuffle.phase = "before_preflop"]
           begun == AdvanceShuffle(v)
           allowed == table.round = "waiting" /\ CountActiveOccupied(table) >= MinPlayers
<1>1. DoStartHand(table) = Require(begun, allowed)
  BY DEF DoStartHand
<1>2. DOMAIN v = TableFields
  BY DEF MoveButton
<1> HIDE DEF v
<1>3. DOMAIN begun = TableFields
  BY <1>2, AdvanceShuffleFields
<1> HIDE DEF begun
<1>4. allowed
  BY <1>1, <1>3 DEF StartHand, Commit, Require, Abort, TableFields
<1> QED
  BY <1>4 DEF StartHand, Commit

\* start_hand
LEMMA StartHandGood ==
    ASSUME Good(table), StartHand
    PROVE  Good(table')
BY StartHandAllowed, DoStartHandGood DEF Good, Sound, Shaped

\* submit_shuffle: the current shuffler is done.
LEMMA SubmitShuffleGood ==
    ASSUME NEW s \in Seats, Good(table), SubmitShuffle(s)
    PROVE  Good(table')
<1> DEFINE u == [table EXCEPT !.shuffle.completed = @ \cup {s},
                              !.shuffle.pending = @ \ {s}]
<1>1. /\ table' = AdvanceShuffle(u) /\ table.shuffle.phase # "none"
      /\ s \in table.shuffle.pending
  BY DEF SubmitShuffle, Commit, Good, Led
<1>2. /\ Shaped(u) /\ SameSeating(table, u) /\ u.round = table.round
      /\ u.betting = table.betting /\ u.reveal = table.reveal
      /\ u.reconstruct = table.reconstruct
      /\ u.shuffle.phase = table.shuffle.phase
      /\ u.shuffle.completed = table.shuffle.completed \cup {s}
      /\ u.shuffle.pending = table.shuffle.pending \ {s}
  BY DEF Good, Sound, Shaped, TableFields, SameSeating
<1> HIDE DEF u
<1>3. ActiveSeats(u) = ActiveSeats(table)
  BY <1>2, SeatingDecides
<1>4. Exclusive(u) /\ Asking(u)
  BY <1>2, <1>3 DEF Good, Sound, Exclusive, Asking
<1>5. Covers(u)
  BY <1>1, <1>2, <1>3 DEF Good, Sound, Covers
<1>6. Sound(u)
  BY <1>2, <1>4, <1>5, SeatingKeyed DEF Good, Sound
<1> QED
  BY <1>1, <1>6, AdvanceShuffleGood

\* submit_reconstruct_deck: one deck more, and with the last one the deck is
\* rebuilt.
LEMMA SubmitReconstructDeckGood ==
    ASSUME NEW s \in Seats, Good(table), SubmitReconstructDeck(s)
    PROVE  Good(table')
<1> DEFINE u == [table EXCEPT !.reconstruct.pending = @ \ {s},
                              !.reconstruct.decks = @ \cup {s}]
<1>1. /\ table.reconstruct.phase = "collecting"
      /\ table' = u \/ table' = OnCompleteReconstruct(u)
  BY DEF SubmitReconstructDeck, Commit
<1>2. /\ Shaped(u) /\ SameSeating(table, u) /\ u.round = table.round
      /\ u.betting = table.betting /\ u.reveal = table.reveal
      /\ u.shuffle = table.shuffle
      /\ u.reconstruct.phase = table.reconstruct.phase
  BY DEF Good, Sound, Shaped, TableFields, SameSeating
<1> HIDE DEF u
<1>3. ActiveSeats(u) = ActiveSeats(table)
  BY <1>2, SeatingDecides
<1>4. Exclusive(u) /\ Asking(u)
  BY <1>2, <1>3 DEF Good, Sound, Exclusive, Asking
<1>5. Covers(u) /\ Led(u)
  BY <1>2, <1>3 DEF Good, Sound, Covers, Led
<1>6. Good(u)
  BY <1>2, <1>4, <1>5, SeatingKeyed DEF Good, Sound
<1> QED
  BY <1>1, <1>2, <1>6, OnCompleteReconstructGood DEF Good

-----------------------------------------------------------------------------
(* Reveal tokens.                                                          *)

\* t and u differ in the cards at most.
SameButCards(t, u) ==
    /\ DOMAIN u = TableFields
    /\ u.seats = t.seats /\ u.round = t.round /\ u.betting = t.betting
    /\ u.shuffle = t.shuffle /\ u.reconstruct = t.reconstruct /\ u.agg = t.agg
    /\ u.ready \in Int /\ IsFiniteSet(u.decrypted)

\* The cards of a table and its reveal may change without harm to the rest.
LEMMA CardsGood ==
    ASSUME NEW t, NEW u, Good(t), SameButCards(t, u), Asking(u),
           DOMAIN u.reveal = {"phase", "asg"},
           u.reveal.phase = t.reveal.phase
    PROVE  Good(u)
<1>1. Shaped(u) /\ SameSeating(t, u)
  BY DEF SameButCards, Good, Sound, Shaped, SameSeating
<1>2. ActiveSeats(u) = ActiveSeats(t)
  BY <1>1, SeatingDecides
<1>3. Exclusive(u)
  BY DEF SameButCards, Good, Sound, Exclusive
<1>4. Covers(u) /\ Led(u)
  BY <1>2 DEF SameButCards, Good, Sound, Covers, Led
<1> QED
  BY <1>1, <1>3, <1>4, SeatingKeyed DEF Good, Sound

\* The tokens of one seat: it is waited for no longer, and a card it was the
\* last for is decrypted.  Behind a reconstruction no seat owes a token.
LEMMA TokensTakenGood ==
    ASSUME NEW t, Good(t), t.reveal.phase # "none", NEW s,
           NEW S, S \subseteq OwedBy(t, s)
    PROVE  LET u == TokensTaken(t, s, S)
           IN  /\ Good(u) /\ SameButCards(t, u)
               /\ u.reveal.phase = t.reveal.phase
               /\ DOMAIN u.reveal.asg = DOMAIN t.reveal.asg
<1> DEFINE u == TokensTaken(t, s, S)
           asg == t.reveal.asg
           taken(a) == [asg[a] EXCEPT !.pending = @ \ {s},
                                      !.decrypted = asg[a].pending = {s}]
<1>1. SameButCards(t, u)
  BY DEF SameButCards, TokensTaken, Good, Sound, Shaped, TableFields
<1>2. /\ u.reveal.phase = t.reveal.phase /\ DOMAIN u.reveal = {"phase", "asg"}
      /\ DOMAIN u.reveal.asg = DOMAIN asg
      /\ \A a \in DOMAIN asg :
            u.reveal.asg[a] = IF a \in S THEN taken(a) ELSE asg[a]
  BY DEF TokensTaken, Good, Sound, Shaped, TableFields
<1> HIDE DEF u
<1>3. ActiveSeats(u) = ActiveSeats(t)
  BY <1>1 DEF SameButCards, ActiveSeats, OccupiedSeats
<1>4. S \subseteq DOMAIN asg /\ \A a \in S : s \in asg[a].pending
  BY DEF OwedBy
<1>5. ASSUME t.reveal.phase \in Asked
      PROVE  Asking(u)
  <2>1. \A a \in DOMAIN asg :
           /\ DOMAIN asg[a] = {"card", "pending", "decrypted", "dealt_to"}
           /\ asg[a].pending \subseteq ActiveSeats(t)
           /\ asg[a].decrypted => asg[a].pending = {}
    BY <1>5 DEF Good, Sound, Asking
  <2>2. \A a \in DOMAIN asg :
           /\ DOMAIN u.reveal.asg[a] = {"card", "pending", "decrypted", "dealt_to"}
           /\ u.reveal.asg[a].pending \subseteq ActiveSeats(t)
           /\ u.reveal.asg[a].decrypted => u.reveal.asg[a].pending = {}
    <3> TAKE a \in DOMAIN asg
    <3> DEFINE one == asg[a]
               other == taken(a)
    <3>1. /\ DOMAIN one = {"card", "pending", "decrypted", "dealt_to"}
          /\ one.pending \subseteq ActiveSeats(t)
          /\ one.decrypted => one.pending = {}
      BY <2>1
    <3>2. u.reveal.asg[a] = IF a \in S THEN other ELSE one
      BY <1>2
    <3> HIDE DEF one
    <3>3. /\ DOMAIN other = {"card", "pending", "decrypted", "dealt_to"}
          /\ other.pending = one.pending \ {s}
          /\ other.decrypted = (one.pending = {s})
      BY <3>1 DEF one
    <3> HIDE DEF other
    <3> QED
      BY <3>1, <3>2, <3>3
  <2>3. ASSUME u.reconstruct.phase # "none" \/ u.shuffle.phase = "reconstruct"
        PROVE  /\ \A a \in DOMAIN asg : u.reveal.asg[a].pending = {}
               /\ \E a \in DOMAIN asg : ~u.reveal.asg[a].decrypted
    <3>1. /\ \A a \in DOMAIN asg : asg[a].pending = {}
          /\ \E a \in DOMAIN asg : ~asg[a].decrypted
      BY <1>1, <1>5, <2>3 DEF SameButCards, Good, Sound, Asking
    <3>2. S = {}
      BY <1>4, <3>1
    <3> QED
      BY <1>2, <3>1, <3>2
  <2> QED
    BY <1>2, <1>3, <1>5, <2>2, <2>3 DEF Good, Sound, Asking
<1>6. t.reveal.phase \notin Asked => Asking(u)
  BY <1>2 DEF Good, Sound, Asking
<1>7. Good(u)
  BY <1>1, <1>2, <1>5, <1>6, CardsGood
<1> QED
  BY <1>1, <1>2, <1>7 DEF u

\* Decrypted cards change no phase.
LEMMA DecryptedGood ==
    ASSUME NEW t, Good(t), NEW cards, IsFiniteSet(cards)
    PROVE  Good([t EXCEPT !.decrypted = cards])
<1> DEFINE u == [t EXCEPT !.decrypted = cards]
<1>1. SameButCards(t, u) /\ u.reveal = t.reveal
  BY DEF SameButCards, Good, Sound, Shaped, TableFields
<1> HIDE DEF u
<1>2. ActiveSeats(u) = ActiveSeats(t)
  BY <1>1 DEF SameButCards, ActiveSeats, OccupiedSeats
<1>3. Asking(u)
  BY <1>1, <1>2 DEF SameButCards, Good, Sound, Asking
<1>4. Good(u)
  BY <1>1, <1>3, CardsGood DEF Good, Sound, Shaped
<1> QED
  BY <1>4 DEF u

\* Hole cards whose last foreign token came in.
LEMMA HoleCardsOpenedGood ==
    ASSUME NEW t, Good(t), t.reveal.phase # "none",
           NEW done, done \subseteq DOMAIN t.reveal.asg
    PROVE  Good(HoleCardsOpened(t, done))
<1> DEFINE opened == [a \in done |->
               [card |-> t.reveal.asg[a].card,
                owner |-> FindHandCardOwner(t, t.reveal.asg[a].card),
                plain |-> FALSE, dealt_to |-> t.reveal.asg[a].dealt_to]]
           cards == t.decrypted \cup {opened[a] : a \in done}
<1>1. HoleCardsOpened(t, done) = [t EXCEPT !.decrypted = cards]
  BY DEF HoleCardsOpened
<1> HIDE DEF opened
<1>2. IsFiniteSet(done) /\ IsFiniteSet(t.decrypted)
  BY FS_Subset DEF Good, Sound, Asking, Shaped
<1>3. IsFiniteSet({opened[a] : a \in done})
  BY <1>2, ImageFinite
<1>4. IsFiniteSet(cards)
  BY <1>2, <1>3, FS_Union
<1> HIDE DEF cards
<1> QED
  BY <1>1, <1>4, DecryptedGood

\* Hole cards their owners show.
LEMMA HoleCardsShownGood ==
    ASSUME NEW t, Good(t), NEW done
    PROVE  Good(HoleCardsShown(t, done))
<1> DEFINE cards == {t.reveal.asg[a].card : a \in done}
           shown == [d \in t.decrypted |->
                        [d EXCEPT !.plain = @ \/ d.card \in cards]]
<1>1. HoleCardsShown(t, done) = [t EXCEPT !.decrypted = {shown[d] : d \in t.decrypted}]
  BY DEF HoleCardsShown
<1> HIDE DEF cards, shown
<1>2. IsFiniteSet({shown[d] : d \in t.decrypted})
  BY ImageFinite DEF Good, Sound, Shaped
<1> QED
  BY <1>1, <1>2, DecryptedGood

\* A card's token is asked of the active seats, and of nobody else.
IsAsking(t, a) ==
    /\ DOMAIN a = {"card", "pending", "decrypted", "dealt_to"}
    /\ a.pending \subseteq ActiveSeats(t)
    /\ a.decrypted => a.pending = {}

\* Community cards dealt again in place of blank ones are asked of everybody.
LEMMA CommunityOpenedGood ==
    ASSUME NEW t, Good(t), t.reveal.phase # "none",
           NEW done, done \subseteq DOMAIN t.reveal.asg,
           NEW blank, blank \subseteq done,
           blank # {} /\ t.reveal.phase \in Asked => Calm(t)
    PROVE  Good(CommunityOpened(t, done, blank))
<1> DEFINE n == Cardinality(blank)
           rest == DOMAIN t.reveal.asg \ blank
           indices == Ascending(rest)
           kept == [i \in DOMAIN indices |-> t.reveal.asg[indices[i]]]
           again == CommunityAssignments(t, n)
           new == [k \in 1 .. n |-> again[n + 1 - k]]
           asg == kept \o new
           dealt == [t EXCEPT !.ready = @ + Cardinality(done \ blank), !.blanks = @ - n]
           u == [dealt EXCEPT !.dealt = @ + n, !.reveal.asg = asg]
<1>1. /\ IsFiniteSet(DOMAIN t.reveal.asg) /\ DOMAIN t.reveal.asg \subseteq Nat
      /\ IsFiniteSet(blank) /\ IsFiniteSet(rest) /\ rest \in SUBSET Int
      /\ n \in Nat /\ Cardinality(rest) \in Nat /\ Cardinality(done \ blank) \in Nat
  <2>1. IsFiniteSet(DOMAIN t.reveal.asg) /\ DOMAIN t.reveal.asg \subseteq Nat
    BY DEF Good, Sound, Asking
  <2>2. IsFiniteSet(blank) /\ IsFiniteSet(rest) /\ IsFiniteSet(done \ blank)
    BY <2>1, FS_Subset
  <2> QED
    BY <2>1, <2>2, FS_CardinalityType
<1>2. \/ CommunityOpened(t, done, blank) = dealt
      \/ n # 0 /\ \E cond : CommunityOpened(t, done, blank) = Require(u, cond)
  BY DEF CommunityOpened
<1>3. SameButCards(t, dealt) /\ dealt.reveal = t.reveal
  BY <1>1 DEF SameButCards, Good, Sound, Shaped, TableFields
<1> HIDE DEF dealt, asg
<1>4. /\ SameButCards(t, u) /\ u.reveal.phase = t.reveal.phase
      /\ DOMAIN u.reveal = {"phase", "asg"} /\ u.reveal.asg = asg
  BY <1>3 DEF SameButCards, TableFields, Good, Sound, Shaped
<1> HIDE DEF u
<1>5. ActiveSeats(u) = ActiveSeats(t) /\ ActiveSeats(dealt) = ActiveSeats(t)
  BY <1>3, <1>4 DEF SameButCards, ActiveSeats, OccupiedSeats
<1>6. Good(dealt)
  <2>1. Asking(dealt)
    BY <1>3, <1>5 DEF SameButCards, Good, Sound, Asking
  <2> QED
    BY <1>3, <2>1, CardsGood DEF Good, Sound, Shaped
<1>7. /\ DOMAIN indices = 1 .. Cardinality(rest)
      /\ \A i \in 1 .. Cardinality(rest) : indices[i] \in rest
  BY <1>1, AscendingLists, AscendingMembers
<1> HIDE DEF n, rest, indices
<1>8. /\ DOMAIN kept = 1 .. Cardinality(rest)
      /\ \A i \in 1 .. Cardinality(rest) : \E a \in rest : kept[i] = t.reveal.asg[a]
      /\ kept = [i \in 1 .. Cardinality(rest) |-> kept[i]]
  BY <1>7
<1>9. /\ DOMAIN new = 1 .. n
      /\ \A k \in 1 .. n : \E card : new[k] = Assignment(card, ActiveSeats(t), CommunityOwner)
      /\ new = [k \in 1 .. n |-> new[k]]
  <2>1. \A k \in 1 .. n : n + 1 - k \in 1 .. n
    BY <1>1
  <2> QED
    BY <2>1 DEF CommunityAssignments
<1> HIDE DEF kept, new
<1>10. /\ IsFiniteSet(DOMAIN asg) /\ DOMAIN asg \subseteq Nat
       /\ \A a \in DOMAIN asg : \/ \E i \in 1 .. Cardinality(rest) : asg[a] = kept[i]
                                \/ \E k \in 1 .. n : asg[a] = new[k]
  <2> DEFINE A == {kept[i] : i \in 1 .. Cardinality(rest)}
             B == {new[k] : k \in 1 .. n}
  <2>1. kept \in Seq(A) /\ Len(kept) = Cardinality(rest)
    BY <1>1, <1>8, Listed
  <2>2. new \in Seq(B) /\ Len(new) = n
    BY <1>1, <1>9, Listed
  <2> HIDE DEF A, B
  <2>3. kept \in Seq(A \cup B) /\ new \in Seq(A \cup B)
    BY <2>1, <2>2
  <2>4. /\ asg \in Seq(A \cup B)
        /\ Len(asg) \in Nat
    BY <2>3, ConcatProperties, LenProperties DEF asg
  <2>5. DOMAIN asg = 1 .. Len(asg) /\ \A a \in DOMAIN asg : asg[a] \in A \cup B
    BY <2>4, ElementOfSeq, LenProperties
  <2> QED
    BY <2>4, <2>5, Interval DEF A, B
<1>11. ASSUME t.reveal.phase \in Asked, n # 0
       PROVE  Asking(u)
  <2>1. Calm(t)
    <3>1. blank # {}
      BY <1>11, FS_EmptySet DEF n
    <3> QED
      BY <1>11, <3>1
  <2>2. \A a \in rest : IsAsking(t, t.reveal.asg[a])
    BY <1>11 DEF Good, Sound, Asking, IsAsking, rest
  <2>3. ASSUME NEW card
        PROVE  IsAsking(t, Assignment(card, ActiveSeats(t), CommunityOwner))
    BY DEF IsAsking, Assignment
  <2>4. \A a \in DOMAIN asg : IsAsking(t, asg[a])
    BY <1>8, <1>9, <1>10, <2>2, <2>3
  <2> QED
    BY <1>4, <1>5, <1>10, <2>1, <2>4 DEF Asking, IsAsking, Calm, SameButCards
<1>12. t.reveal.phase \notin Asked => Asking(u)
  BY <1>4, <1>10 DEF Asking
<1>13. n # 0 => Good(u)
  BY <1>4, <1>11, <1>12, CardsGood
<1> QED
  BY <1>2, <1>6, <1>13, RequireSound DEF Good

\* The table after the tokens of seat s for the assignments S are in, those of
\* blank turning out to be cards that are known already.
TokensOpened(s, S, blank) ==
    LET done == {a \in S : table.reveal.asg[a].pending = {s}}
        taken == TokensTaken(table, s, S)
        phase == table.reveal.phase
    IN  CASE phase = "preflop" -> HoleCardsOpened(taken, done)
          [] phase = "showdown" -> HoleCardsShown(taken, done)
          [] OTHER -> CommunityOpened(taken, done, blank)

\* submit_player_reveal_tokens up to the check whether the phase is complete.
LEMMA TokensOpenedGood ==
    ASSUME NEW s \in Seats, NEW S, NEW blank, NEW ranks, Good(table),
           SubmitRevealTokens(s, S, blank, ranks)
    PROVE  Good(TokensOpened(s, S, blank))
<1> DEFINE done == {a \in S : table.reveal.asg[a].pending = {s}}
           taken == TokensTaken(table, s, S)
           phase == table.reveal.phase
           opened == TokensOpened(s, S, blank)
<1>1. phase # "none" /\ S \subseteq OwedBy(table, s) /\ blank \subseteq done
  BY DEF SubmitRevealTokens
<1>2. /\ Good(taken) /\ SameButCards(table, taken) /\ taken.reveal.phase = phase
      /\ DOMAIN taken.reveal.asg = DOMAIN table.reveal.asg
  BY <1>1, TokensTakenGood
<1>3. done \subseteq DOMAIN table.reveal.asg
  BY <1>1 DEF OwedBy
<1>4. blank # {} /\ phase \in Asked => Calm(table)
  BY <1>1 DEF OwedBy, Good, Sound, Asking, Exclusive, ShufflePhases, Calm
<1>5. Calm(table) => Calm(taken)
  BY <1>2 DEF SameButCards, Calm
<1>6. \/ opened = HoleCardsOpened(taken, done)
      \/ opened = HoleCardsShown(taken, done)
      \/ opened = CommunityOpened(taken, done, blank)
  BY DEF TokensOpened
<1> HIDE DEF done, taken, opened, phase
<1>7. Good(opened)
  BY <1>1, <1>2, <1>3, <1>4, <1>5, <1>6, HoleCardsOpenedGood, HoleCardsShownGood,
     CommunityOpenedGood
<1> QED
  BY <1>7 DEF opened

\* submit_player_reveal_tokens: with the last token of a phase the next begins.
LEMMA SubmitRevealTokensGood ==
    ASSUME NEW s \in Seats, NEW S, NEW blank, NEW ranks, Good(table),
           SubmitRevealTokens(s, S, blank, ranks)
    PROVE  Good(table')
<1>1. table' = CheckRevealPhaseComplete(TokensOpened(s, S, blank), ranks)
  BY DEF SubmitRevealTokens, Commit, TokensOpened
<1> QED
  BY <1>1, TokensOpenedGood, CheckRevealGood

-----------------------------------------------------------------------------
(* Betting.                                                                *)

\* A change of one occupied seat's chips, of the bet to match and of a timer.
LEMMA PaidAside ==
    ASSUME NEW t, Shaped(t), NEW s \in OccupiedSeats(t), NEW amount,
           NEW betting, betting.open = t.betting.open,
           DOMAIN betting = DOMAIN t.betting
    PROVE  /\ Aside(t, [t EXCEPT !.seats[s] = PutIn(@, amount)])
           /\ Aside(t, [t EXCEPT !.betting = betting,
                                 !.seats[s] = PutIn(@, amount)])
<1> DEFINE seat == PutIn(t.seats[s], amount)
<1>1. /\ DOMAIN t.seats[s] = SeatFields /\ s \in Seats /\ ~t.seats[s].left
  BY DEF Shaped, OccupiedSeats, IsSeatOccupied
<1>2. /\ DOMAIN seat = SeatFields
      /\ seat.left = t.seats[s].left /\ seat.is_waiting = t.seats[s].is_waiting
      /\ seat.player = t.seats[s].player
  BY <1>1 DEF PutIn, SeatFields
<1> HIDE DEF seat
<1>3. /\ Aside(t, [t EXCEPT !.seats[s] = seat])
      /\ Aside(t, [t EXCEPT !.betting = betting, !.seats[s] = seat])
  BY <1>1, <1>2 DEF Aside, SameSeating, SamePhases, Shaped, TableFields
<1> QED
  BY <1>3 DEF seat

\* The flags of who has acted change no phase.
LEMMA ActedAside ==
    ASSUME NEW t, Shaped(t), NEW s
    PROVE  /\ Aside(t, Acted(t, s))
           /\ Aside(t, ResetOtherPlayersActed(t, s))
<1>1. Aside(t, Acted(t, s))
  BY DEF Acted, Aside, SameSeating, SamePhases, Shaped, TableFields, SeatFields
<1>2. Aside(t, ResetOtherPlayersActed(t, s))
  BY DEF ResetOtherPlayersActed, Aside, SameSeating, SamePhases, Shaped, TableFields,
         SeatFields
<1> QED
  BY <1>1, <1>2

\* After a step of chips the turn passes on.
LEMMA AsideThenTurn ==
    ASSUME NEW t, Good(t), IsBettingRound(t), NEW u, Aside(t, u)
    PROVE  Good(AdvanceTurn(u))
BY BettingIsStill, AsideSound, AdvanceTurnOnward DEF Onward

\* fold, auto_fold and force_fold
LEMMA FoldsGood ==
    ASSUME NEW s \in Seats, Good(table), Fold(s) \/ AutoFold(s) \/ ForceFold(s)
    PROVE  Good(table')
<1>1. IsBettingRound(table) /\ table' = DoFold(table, s)
  BY DEF Fold, AutoFold, ForceFold, OnTurn, Commit
<1> QED
  BY <1>1, BettingIsStill, DoFoldGood

\* check and call
LEMMA CheckCallGood ==
    ASSUME NEW s \in Seats, Good(table), Check(s) \/ Call(s)
    PROVE  Good(table')
<1> DEFINE paid == [table EXCEPT !.seats[s] =
                       PutIn(@, CallAmount(table.betting, table.seats[s]))]
<1>1. /\ IsBettingRound(table) /\ s \in OccupiedSeats(table)
      /\ \/ table' = AdvanceTurn(Acted(table, s))
         \/ table' = AdvanceTurn(Acted(paid, s))
  BY DEF Check, Call, OnTurn, Commit
<1>2. Shaped(table) /\ Aside(table, paid)
  BY <1>1, PaidAside DEF Good, Sound
<1> HIDE DEF paid
<1>3. Aside(table, Acted(table, s)) /\ Aside(table, Acted(paid, s))
  BY <1>2, ActedAside, AsideTransitive DEF Aside
<1> QED
  BY <1>1, <1>3, AsideThenTurn

\* raise
LEMMA RaiseGood ==
    ASSUME NEW s \in Seats, NEW total, Good(table), Raise(s, total)
    PROVE  Good(table')
<1> DEFINE betting == RaisedRound(table.betting, total)
           raised == [table EXCEPT !.betting = betting,
                                   !.seats[s] = PutIn(@, total - table.seats[s].bet)]
           acted == Acted(raised, s)
           u == ResetOtherPlayersActed(acted, s)
<1>1. /\ IsBettingRound(table) /\ s \in OccupiedSeats(table)
      /\ table' = AdvanceTurn(u)
  BY DEF Raise, OnTurn, Commit
<1>2. betting.open = table.betting.open /\ DOMAIN betting = DOMAIN table.betting
  BY DEF RaisedRound, Good, Sound, Shaped
<1> HIDE DEF betting
<1>3. Aside(table, raised)
  BY <1>1, <1>2, PaidAside DEF Good, Sound
<1> HIDE DEF raised
<1>4. Aside(table, acted)
  BY <1>3, ActedAside, AsideTransitive DEF Aside
<1> HIDE DEF acted
<1>5. Aside(table, u)
  BY <1>4, ActedAside, AsideTransitive DEF Aside
<1> HIDE DEF u
<1> QED
  BY <1>1, <1>5, AsideThenTurn

-----------------------------------------------------------------------------
(* The invariant and what it implies.                                      *)

\* No entry point of the contract, in any state the invariant allows, breaks it.
LEMMA NextGood ==
    ASSUME Good(table), [Next]_vars
    PROVE  Good(table')
<1>1. CASE Join
  BY <1>1, JoinTableGood, JoinAndShuffleGood DEF Join
<1>2. CASE Leave
  BY <1>2, LeaveWithProofGood, LeaveTableGood DEF Leave
<1>3. CASE StartHand
  BY <1>3, StartHandGood
<1>4. CASE Protocol
  BY <1>4, SubmitShuffleGood, SubmitRevealTokensGood, SubmitReconstructDeckGood
     DEF Protocol
<1>5. CASE Bet
  BY <1>5, FoldsGood, CheckCallGood, RaiseGood DEF Bet
<1>6. CASE Relay
  BY <1>6, TickedGood DEF Relay, Tick, Commit
<1>7. CASE Admin
  <2>1. PICK s \in Seats : ForceFold(s) \/ KickPlayer(s)
    BY <1>7 DEF Admin
  <2>2. CASE ForceFold(s)
    BY <2>2, FoldsGood
  <2>3. CASE KickPlayer(s)
    BY <2>3, KickGood DEF KickPlayer, Commit
  <2> QED
    BY <2>1, <2>2, <2>3
<1>8. CASE UNCHANGED vars
  BY <1>8 DEF vars
<1> QED
  BY <1>1, <1>2, <1>3, <1>4, <1>5, <1>6, <1>7, <1>8 DEF Next

IInv == Good(table)

\* Along every sequence of transactions the table keeps the invariant Good:
\* phases that exclude each other, reveals that wait for active seats, a key
\* that matches the seats, a shuffle that leaves nobody out.
THEOREM PhasesAreSound == Spec => []IInv
<1>1. Init => IInv
  BY NewTableGood DEF Init, IInv
<1>2. IInv /\ [Next]_vars => IInv'
  BY NextGood DEF IInv
<1> QED
  BY <1>1, <1>2, PTL DEF Spec

\* No bet is taken while cards are shuffled, opened or reconstructed, and no
\* deck is shuffled for one phase while another phase of it is still open.
THEOREM PhasesExclude == Spec => []PhasesExclusive
<1>1. IInv => PhasesExclusive
  BY DEF IInv, Good, Sound, Exclusive, PhasesExclusive
<1> QED
  BY <1>1, PhasesAreSound, PTL

\* Whoever joins, leaves, is kicked or times out during a shuffle: the active
\* seats are those that have shuffled and those that still have to, and the
\* current shuffler is one of the latter.
THEOREM ShufflesCover == Spec => []ShuffleCoversTable
<1>1. IInv => ShuffleCoversTable
  BY DEF IInv, Good, Sound, Covers, Led, ShuffleCoversTable
<1> QED
  BY <1>1, PhasesAreSound, PTL

\* The aggregated key stays the sum of the active seats' keys through joins,
\* leaves, kicks, timeouts and the ends of hands.
THEOREM KeysMatch == Spec => []KeyMatchesSeats
<1>1. IInv => KeyMatchesSeats
  BY DEF IInv, Good, Sound, Keyed, KeyMatchesSeats
<1> QED
  BY <1>1, PhasesAreSound, PTL
=============================================================================
