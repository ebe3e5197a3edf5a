---------------------------- MODULE Wagers_proofs ----------------------------
(***************************************************************************)
(* Proofs about Wagers, for every set of seats, every choice of stacks and *)
(* every size of the blinds.                                               *)
(***************************************************************************)
EXTENDS Wagers, TLAPS

\* What holds of a betting round r and the seats in it, also in the middle of
\* a handler: nobody has bet more than the current bet, who has acted and can
\* act again has matched it, and closed streets were matched.
Sound(r, seats) ==
    /\ \A s \in Seats : /\ seats[s].bet <= r.current_bet
                        /\ seats[s].bet <= seats[s].total_bet
    /\ \A s \in Actionable(seats) :
          seats[s].acted => seats[s].bet = r.current_bet
    /\ \A s \in Actionable(seats), u \in Seats :
          seats[u].total_bet - seats[u].bet <= seats[s].total_bet - seats[s].bet

\* The inductive invariant.
IInv ==
    /\ TypeOK
    /\ Sound(round, seat)
    /\ ~round.open => round = Closed
    /\ ~hand => round = Closed /\ seat \in Seatings

-----------------------------------------------------------------------------
\* PutIn moves chips from the stack into the bet and keeps their sum.
LEMMA PutInMoves ==
    ASSUME NEW s \in SeatType, NEW amount \in 0 .. s.stack
    PROVE  /\ PutIn(s, amount) \in SeatType
           /\ PutIn(s, amount).stack = s.stack - amount
           /\ PutIn(s, amount).bet = s.bet + amount
           /\ PutIn(s, amount).total_bet = s.total_bet + amount
           /\ s.stack = amount => PutIn(s, amount).all_in
           /\ s.all_in => PutIn(s, amount).all_in
           /\ PutIn(s, amount).playing = s.playing
           /\ PutIn(s, amount).folded = s.folded
           /\ PutIn(s, amount).acted = s.acted
  <1> DEFINE p(b) == [s EXCEPT !.stack = s.stack - amount,
                               !.bet = s.bet + amount,
                               !.total_bet = s.total_bet + amount,
                               !.all_in = b]
  <1>1. /\ s.stack - amount \in Nat /\ s.bet + amount \in Nat
        /\ s.total_bet + amount \in Nat /\ s.all_in \in BOOLEAN
    BY DEF SeatType
  <1>2. \A b \in BOOLEAN :
           /\ p(b) \in SeatType
           /\ p(b).stack = s.stack - amount
           /\ p(b).bet = s.bet + amount
           /\ p(b).total_bet = s.total_bet + amount
           /\ p(b).all_in = b
           /\ p(b).playing = s.playing
           /\ p(b).folded = s.folded
           /\ p(b).acted = s.acted
    BY <1>1 DEF SeatType
  <1>3. PICK b \in BOOLEAN : /\ PutIn(s, amount) = p(b)
                             /\ s.stack = amount => b
                             /\ s.all_in => b
    <2>1. CASE s.stack = amount BY <2>1, Zenon DEF PutIn
    <2>2. CASE s.stack # amount BY <1>1, <2>2, Zenon DEF PutIn
    <2> QED BY <2>1, <2>2
  <1> QED BY <1>2, <1>3, Zenon

\* A call takes no more than the stack, and less than what is owed only from
\* a player it leaves without a chip.
LEMMA CallAmountBounds ==
    ASSUME NEW r \in RoundType, NEW s \in SeatType, s.bet <= r.current_bet
    PROVE  /\ CallAmount(r, s) \in 0 .. s.stack
           /\ \/ s.bet + CallAmount(r, s) = r.current_bet
              \/ /\ s.bet + CallAmount(r, s) <= r.current_bet
                 /\ CallAmount(r, s) = s.stack
  BY DEF CallAmount, ChipsToCall, RoundType, SeatType

\* A raise leaves a round that is open and whose bet is the amount raised to.
LEMMA RaisedRoundType ==
    ASSUME NEW r \in RoundType, NEW total \in Nat, total > r.current_bet
    PROVE  /\ RaisedRound(r, total) \in RoundType
           /\ RaisedRound(r, total).current_bet = total
           /\ RaisedRound(r, total).open = r.open
  <1> DEFINE q(m) == [r EXCEPT !.current_bet = total, !.min_raise = m]
  <1>1. \A m \in Nat :
           q(m) \in RoundType /\ q(m).current_bet = total /\ q(m).open = r.open
    BY DEF RoundType
  <1>2. r.current_bet \in Nat /\ r.min_raise \in Nat
    BY DEF RoundType
  <1>3. PICK m \in Nat : RaisedRound(r, total) = q(m)
    <2>1. CASE total - r.current_bet >= r.min_raise
      <3>1. total - r.current_bet \in Nat BY <1>2
      <3> QED BY <3>1, <2>1, Zenon DEF RaisedRound
    <2>2. CASE ~(total - r.current_bet >= r.min_raise)
      BY <1>2, <2>2, Zenon DEF RaisedRound
    <2> QED BY <2>1, <2>2
  <1>4. q(m) \in RoundType /\ q(m).current_bet = total /\ q(m).open = r.open
    BY <1>1
  <1> HIDE DEF q
  <1> QED BY <1>3, <1>4

\* A seat outside the hand, or freshly dealt in, has nothing on the table.
LEMMA SeatingsType ==
    ASSUME NEW seats \in Seatings
    PROVE  /\ seats \in [Seats -> SeatType]
           /\ Sound(Closed, seats)
           /\ \A s \in Seats : /\ seats[s].bet = 0 /\ seats[s].total_bet = 0
                               /\ ~seats[s].acted /\ ~seats[s].all_in
  <1>1. /\ Out \in SeatType
        /\ Out.bet = 0 /\ Out.total_bet = 0 /\ ~Out.acted /\ ~Out.all_in
    BY DEF Out, SeatType
  <1>2. \A k \in Stacks :
           /\ Dealt(k) \in SeatType
           /\ Dealt(k).bet = 0 /\ Dealt(k).total_bet = 0
           /\ ~Dealt(k).acted /\ ~Dealt(k).all_in
    BY WagersAssumption DEF Dealt, Out, SeatType
  <1>3. \A s \in Seats :
           /\ seats[s] \in SeatType
           /\ seats[s].bet = 0 /\ seats[s].total_bet = 0
           /\ ~seats[s].acted /\ ~seats[s].all_in
    BY <1>1, <1>2 DEF Seatings
  <1>4. Sound(Closed, seats)
    BY <1>3 DEF Sound, Closed, Actionable, Live
  <1> QED BY <1>3, <1>4 DEF Seatings

\* Collecting the bets of a complete street leaves the seats sound.
LEMMA CollectedSound ==
    ASSUME NEW r \in RoundType, NEW seats \in [Seats -> SeatType],
           Sound(r, seats), IsBettingComplete(r, seats)
    PROVE  /\ Collected(seats) \in [Seats -> SeatType]
           /\ Sound(Closed, Collected(seats))
  <1> DEFINE after == Collected(seats)
  <1>1. \A s \in Seats :
           /\ after[s] \in SeatType
           /\ after[s].bet = 0
           /\ after[s].total_bet = seats[s].total_bet
           /\ after[s].playing = seats[s].playing
           /\ after[s].folded = seats[s].folded
           /\ after[s].all_in = seats[s].all_in
    BY DEF Collected, SeatType
  <1>2. Actionable(after) = Actionable(seats)
    BY <1>1 DEF Actionable, Live
  <1>3. ASSUME NEW s \in Actionable(seats), NEW u \in Seats
        PROVE  seats[u].total_bet <= seats[s].total_bet
    <2>1. s \in Seats BY DEF Actionable, Live
    <2>2. seats[s].bet >= r.current_bet BY DEF IsBettingComplete
    <2>3. /\ seats[u].bet <= r.current_bet
          /\ seats[u].total_bet - seats[u].bet <= seats[s].total_bet - seats[s].bet
      BY DEF Sound
    <2>4. seats[u] \in SeatType /\ seats[s] \in SeatType BY <2>1
    <2> QED BY <2>2, <2>3, <2>4 DEF SeatType, RoundType
  <1>4. \A s \in Actionable(seats) : s \in Seats
    BY DEF Actionable, Live
  <1>5. after \in [Seats -> SeatType]
    BY <1>1 DEF Collected
  <1> HIDE DEF after
  <1>6. Sound(Closed, after)
    BY <1>1, <1>2, <1>3, <1>4 DEF Sound, Closed, SeatType
  <1> QED BY <1>5, <1>6 DEF after

\* However a handler goes on, the invariant holds after it.
LEMMA ProceedSound ==
    ASSUME NEW r \in RoundType, r.open, NEW seats \in [Seats -> SeatType],
           Sound(r, seats), Proceed(r, seats)
    PROVE  IInv'
  <1>1. CASE StayOpen(r, seats)
    BY <1>1 DEF StayOpen, IInv, TypeOK, Sound, Actionable, Live
  <1>2. CASE CloseStreet(r, seats)
    <2>1. Collected(seats) \in [Seats -> SeatType] /\ Sound(Closed, Collected(seats))
      BY <1>2, CollectedSound DEF CloseStreet
    <2>2. Closed \in RoundType BY DEF Closed, RoundType
    <2>3. hand' = TRUE /\ round' = Closed /\ seat' = Collected(seats)
      BY <1>2 DEF CloseStreet
    <2>4. Sound(round, seat)'
      BY <2>1, <2>3 DEF Sound, Actionable, Live
    <2> QED BY <2>1, <2>2, <2>3, <2>4 DEF IInv, TypeOK
  <1> QED BY <1>1, <1>2 DEF Proceed

\* The invariant holds when no hand is on.
LEMMA HandOverSound == HandOver => IInv'
  <1> SUFFICES ASSUME HandOver PROVE IInv' OBVIOUS
  <1>1. hand' = FALSE /\ round' = Closed /\ seat' \in Seatings
    BY DEF HandOver
  <1>2. seat' \in [Seats -> SeatType] /\ Sound(Closed, seat')
    BY <1>1, SeatingsType
  <1>3. Closed \in RoundType BY DEF Closed, RoundType
  <1>4. Sound(round, seat)'
    BY <1>1, <1>2 DEF Sound, Actionable, Live
  <1>5. (seat \in Seatings)'
    BY <1>1 DEF Seatings
  <1> QED BY <1>1, <1>2, <1>3, <1>4, <1>5 DEF IInv, TypeOK

-----------------------------------------------------------------------------
(* Each action preserves the invariant.                                    *)

\* The blinds: bets begin at nothing, and no blind is above the big one.
LEMMA BeginHandSound ==
    ASSUME IInv, NEW small \in Seats, NEW big \in Seats, BeginHand(small, big)
    PROVE  IInv'
  <1> DEFINE r == NewPreflop(BigBlind)
             posted(s) == IF s = big THEN Blinded(seat[s], BigBlind)
                          ELSE IF s = small THEN Blinded(seat[s], SmallBlind)
                          ELSE seat[s]
             seats == [s \in Seats |->
                          IF seat[s].playing THEN posted(s) ELSE seat[s]]
  <1>1. seat \in Seatings /\ Proceed(r, seats)
    BY DEF BeginHand, IInv
  <1>2. \A s \in Seats : /\ seat[s] \in SeatType
                         /\ seat[s].bet = 0 /\ seat[s].total_bet = 0
                         /\ ~seat[s].acted
    BY <1>1, SeatingsType
  <1>3. ASSUME NEW s \in Seats, NEW blind \in Nat, blind <= BigBlind
        PROVE  LET b == Blinded(seat[s], blind)
               IN  /\ b \in SeatType
                   /\ b.bet <= BigBlind
                   /\ b.total_bet = b.bet
                   /\ ~b.acted
    <2> DEFINE amount == IF seat[s].stack < blind THEN seat[s].stack ELSE blind
    <2>1. seat[s] \in SeatType /\ seat[s].stack \in Nat
      BY <1>2 DEF SeatType
    <2>2. amount \in 0 .. seat[s].stack /\ amount <= BigBlind
      BY <1>3, <2>1, WagersAssumption
    <2>3. Blinded(seat[s], blind) = PutIn(seat[s], amount)
      BY DEF Blinded
    <2> HIDE DEF amount
    <2> QED BY <1>2, <2>1, <2>2, <2>3, PutInMoves
  <1>4. \A s \in Seats : /\ seats[s] \in SeatType
                         /\ seats[s].bet <= BigBlind
                         /\ seats[s].total_bet = seats[s].bet
                         /\ ~seats[s].acted
    BY <1>2, <1>3, WagersAssumption
  <1>5. r \in RoundType /\ r.open /\ r.current_bet = BigBlind
    BY WagersAssumption DEF NewPreflop, RoundType
  <1>6. seats \in [Seats -> SeatType]
    BY <1>4
  <1> HIDE DEF r, seats
  <1>7. Sound(r, seats)
    BY <1>4, <1>5, WagersAssumption DEF Sound, Actionable, Live, SeatType
  <1> QED BY <1>1, <1>5, <1>6, <1>7, ProceedSound

\* A new street: the bets are at nothing and nobody has acted.
LEMMA OpenStreetSound == ASSUME IInv, OpenStreet PROVE IInv'
  <1> DEFINE r == NewPostflop(BigBlind)
             seats == [s \in Seats |-> [seat[s] EXCEPT !.acted = FALSE]]
  <1>1. /\ seat \in [Seats -> SeatType] /\ Sound(round, seat) /\ round = Closed
        /\ Proceed(r, seats)
    BY DEF OpenStreet, IInv, TypeOK
  <1>2. \A s \in Seats : /\ seats[s] \in SeatType
                         /\ seats[s].bet = seat[s].bet
                         /\ seats[s].total_bet = seat[s].total_bet
                         /\ seats[s].playing = seat[s].playing
                         /\ seats[s].folded = seat[s].folded
                         /\ seats[s].all_in = seat[s].all_in
                         /\ ~seats[s].acted
    BY <1>1 DEF SeatType
  <1>3. r \in RoundType /\ r.open /\ r.current_bet = 0
    BY WagersAssumption DEF NewPostflop, RoundType
  <1>4. seats \in [Seats -> SeatType]
    BY <1>2
  <1> HIDE DEF r, seats
  <1>5. Actionable(seats) = Actionable(seat)
    BY <1>2 DEF Actionable, Live
  <1>6. Sound(r, seats)
    BY <1>1, <1>2, <1>3, <1>5 DEF Sound, Closed, Actionable, Live
  <1> QED BY <1>1, <1>3, <1>4, <1>6, ProceedSound

\* One seat acts in an open round: the seat s becomes x, and the others at
\* most lose their mark of having acted.
LEMMA ActionSound ==
    ASSUME IInv, hand, round.open, NEW r \in RoundType, r.open,
           r.current_bet >= round.current_bet,
           NEW s \in Seats, NEW x \in SeatType,
           x.playing => seat[s].playing,
           seat[s].folded => x.folded,
           seat[s].all_in => x.all_in,
           x.bet <= r.current_bet,
           x.total_bet - x.bet = seat[s].total_bet - seat[s].bet,
           x.bet <= x.total_bet,
           x.playing /\ ~x.folded /\ ~x.all_in /\ x.acted => x.bet = r.current_bet,
           NEW seats \in [Seats -> SeatType],
           seats[s] = x,
           \A u \in Seats \ {s} :
              \/ seats[u] = seat[u] /\ (u \in Actionable(seat) =>
                    ~seat[u].acted \/ r.current_bet = round.current_bet)
              \/ seats[u] = [seat[u] EXCEPT !.acted = FALSE]
    PROVE  Sound(r, seats)
  <1>1. seat \in [Seats -> SeatType] /\ Sound(round, seat) /\ round \in RoundType
    BY DEF IInv, TypeOK
  <1>2. \A u \in Seats \ {s} : /\ seats[u].bet = seat[u].bet
                               /\ seats[u].total_bet = seat[u].total_bet
                               /\ seats[u].playing = seat[u].playing
                               /\ seats[u].folded = seat[u].folded
                               /\ seats[u].all_in = seat[u].all_in
    BY <1>1 DEF SeatType
  <1>3. \A u \in Seats : seats[u].total_bet - seats[u].bet
                            = seat[u].total_bet - seat[u].bet
    BY <1>2
  <1>4. Actionable(seats) \subseteq Actionable(seat)
    BY <1>2 DEF Actionable, Live
  <1>5. \A u \in Seats : /\ seats[u].bet <= r.current_bet
                         /\ seats[u].bet <= seats[u].total_bet
    BY <1>1, <1>2 DEF Sound, SeatType, RoundType
  <1>6. ASSUME NEW u \in Actionable(seats), seats[u].acted
        PROVE  seats[u].bet = r.current_bet
    <2>1. CASE u = s
      BY <1>6, <2>1 DEF Actionable, Live
    <2>2. CASE u # s
      <3>1. u \in Seats \ {s} /\ u \in Actionable(seat)
        BY <1>4, <2>2 DEF Actionable, Live
      <3>2. seats[u] = seat[u]
        BY <1>1, <1>6, <3>1 DEF SeatType
      <3>3. ~seat[u].acted \/ r.current_bet = round.current_bet
        BY <1>1, <1>6, <3>1 DEF SeatType
      <3> QED BY <1>1, <1>6, <3>1, <3>2, <3>3 DEF Sound
    <2> QED BY <2>1, <2>2
  <1> QED BY <1>1, <1>3, <1>4, <1>5, <1>6 DEF Sound, Actionable, Live

\* A fold keeps the invariant, whether it ends the hand, the street or neither.
LEMMA FoldSound == ASSUME IInv, NEW s \in Seats, Fold(s) PROVE IInv'
  <1> DEFINE x == [seat[s] EXCEPT !.folded = TRUE, !.acted = TRUE]
             seats == [seat EXCEPT ![s].folded = TRUE, ![s].acted = TRUE]
  <1>1. /\ hand /\ round.open /\ round \in RoundType
        /\ seat \in [Seats -> SeatType] /\ Sound(round, seat)
        /\ IF AtMostOneLive(seats) THEN HandOver ELSE Proceed(round, seats)
    BY DEF Fold, CanFold, IInv, TypeOK
  <1>2. seats = [seat EXCEPT ![s] = x]
    BY <1>1
  <1>3. /\ x \in SeatType /\ x.folded
        /\ x.bet = seat[s].bet /\ x.total_bet = seat[s].total_bet
        /\ x.playing = seat[s].playing /\ x.all_in = seat[s].all_in
    BY <1>1 DEF SeatType
  <1> HIDE DEF x, seats
  <1>4. /\ seats \in [Seats -> SeatType] /\ seats[s] = x
        /\ \A u \in Seats \ {s} : seats[u] = seat[u]
    BY <1>1, <1>2, <1>3
  <1>5. x.bet <= round.current_bet /\ x.bet <= x.total_bet
    BY <1>1, <1>3 DEF Sound
  <1>6. Sound(round, seats)
    BY <1>1, <1>3, <1>4, <1>5, ActionSound DEF RoundType
  <1> QED BY <1>1, <1>4, <1>6, ProceedSound, HandOverSound

\* A check keeps the invariant: who owes nothing has matched the bet.
LEMMA CheckSound == ASSUME IInv, NEW s \in Seats, Check(s) PROVE IInv'
  <1> DEFINE x == [seat[s] EXCEPT !.acted = TRUE]
             seats == [seat EXCEPT ![s].acted = TRUE]
  <1>1. /\ hand /\ round.open /\ round \in RoundType
        /\ seat \in [Seats -> SeatType] /\ Sound(round, seat)
        /\ CanCheck(round, seat[s].bet) /\ Proceed(round, seats)
    BY DEF Check, CanAct, CanFold, IInv, TypeOK
  <1>2. seats = [seat EXCEPT ![s] = x]
    BY <1>1
  <1>3. /\ x \in SeatType
        /\ x.bet = seat[s].bet /\ x.total_bet = seat[s].total_bet
        /\ x.playing = seat[s].playing /\ x.folded = seat[s].folded
        /\ x.all_in = seat[s].all_in
    BY <1>1 DEF SeatType
  <1> HIDE DEF x, seats
  <1>4. /\ seats \in [Seats -> SeatType] /\ seats[s] = x
        /\ \A u \in Seats \ {s} : seats[u] = seat[u]
    BY <1>1, <1>2, <1>3
  <1>5. seat[s].bet <= round.current_bet /\ seat[s].bet <= seat[s].total_bet
    BY <1>1 DEF Sound
  <1>6. seat[s].bet = round.current_bet
    BY <1>1, <1>5 DEF CanCheck, ChipsToCall, SeatType, RoundType
  <1>7. Sound(round, seats)
    BY <1>1, <1>3, <1>4, <1>5, <1>6, ActionSound DEF RoundType
  <1> QED BY <1>1, <1>4, <1>7, ProceedSound

\* A call keeps the invariant: who stays short of the bet is all-in.
LEMMA CallSound == ASSUME IInv, NEW s \in Seats, Call(s) PROVE IInv'
  <1> DEFINE amount == CallAmount(round, seat[s])
             p == PutIn(seat[s], amount)
             x == [p EXCEPT !.acted = TRUE]
             seats == [seat EXCEPT ![s] = x]
  <1>1. /\ hand /\ round.open /\ round \in RoundType
        /\ seat \in [Seats -> SeatType] /\ seat[s] \in SeatType
        /\ Sound(round, seat) /\ Proceed(round, seats)
    BY DEF Call, CanAct, CanFold, IInv, TypeOK
  <1>2. seat[s].bet <= round.current_bet /\ seat[s].bet <= seat[s].total_bet
    BY <1>1 DEF Sound
  <1>3. /\ amount \in 0 .. seat[s].stack
        /\ \/ seat[s].bet + amount = round.current_bet
           \/ seat[s].bet + amount <= round.current_bet /\ amount = seat[s].stack
    BY <1>1, <1>2, CallAmountBounds
  <1> HIDE DEF amount
  <1>4. /\ p \in SeatType
        /\ p.bet = seat[s].bet + amount
        /\ p.total_bet = seat[s].total_bet + amount
        /\ seat[s].stack = amount => p.all_in
        /\ seat[s].all_in => p.all_in
        /\ p.playing = seat[s].playing /\ p.folded = seat[s].folded
    BY <1>1, <1>3, PutInMoves
  <1> HIDE DEF p
  <1>5. /\ x \in SeatType
        /\ x.bet = p.bet /\ x.total_bet = p.total_bet
        /\ x.playing = p.playing /\ x.folded = p.folded /\ x.all_in = p.all_in
    BY <1>4 DEF SeatType
  <1> HIDE DEF x
  <1>6. /\ seats \in [Seats -> SeatType] /\ seats[s] = x
        /\ \A u \in Seats \ {s} : seats[u] = seat[u]
    BY <1>1, <1>5
  <1>7. /\ x.bet <= round.current_bet /\ x.bet <= x.total_bet
        /\ x.total_bet - x.bet = seat[s].total_bet - seat[s].bet
        /\ ~x.all_in => x.bet = round.current_bet
    BY <1>1, <1>2, <1>3, <1>4, <1>5 DEF SeatType, RoundType
  <1> HIDE DEF seats
  <1>8. Sound(round, seats)
    BY <1>1, <1>4, <1>5, <1>6, <1>7, ActionSound DEF RoundType
  <1> QED BY <1>1, <1>6, <1>8, ProceedSound

\* A raise keeps the invariant: the others who can act have to act again.
LEMMA RaiseSound ==
    ASSUME IInv, NEW s \in Seats, NEW total \in Nat, Raise(s, total)
    PROVE  IInv'
  <1> DEFINE amount == total - seat[s].bet
             p == PutIn(seat[s], amount)
             x == [p EXCEPT !.acted = TRUE]
             r == RaisedRound(round, total)
             seats == Raised(s, total)
  <1>1. /\ hand /\ round.open /\ round \in RoundType
        /\ seat \in [Seats -> SeatType] /\ seat[s] \in SeatType
        /\ Sound(round, seat) /\ CanRaiseTo(round, seat[s], total)
        /\ Proceed(r, seats)
    BY DEF Raise, CanAct, CanFold, IInv, TypeOK
  <1>2. seat[s].bet <= seat[s].total_bet
    BY <1>1 DEF Sound
  <1>3. /\ amount \in 0 .. seat[s].stack
        /\ seat[s].bet + amount = total
        /\ total > round.current_bet
    BY <1>1 DEF CanRaiseTo, SeatType, RoundType
  <1>4. r \in RoundType /\ r.open /\ r.current_bet = total
    BY <1>1, <1>3, RaisedRoundType
  <1>5. seats = [u \in Seats |->
                    IF u = s THEN x
                    ELSE IF u \in Actionable(seat) THEN [seat[u] EXCEPT !.acted = FALSE]
                    ELSE seat[u]]
    BY DEF Raised
  <1> HIDE DEF amount, r
  <1>6. /\ p \in SeatType
        /\ p.bet = total
        /\ p.total_bet = seat[s].total_bet + amount
        /\ seat[s].all_in => p.all_in
        /\ p.playing = seat[s].playing /\ p.folded = seat[s].folded
    BY <1>1, <1>3, PutInMoves
  <1> HIDE DEF p
  <1>7. /\ x \in SeatType
        /\ x.bet = p.bet /\ x.total_bet = p.total_bet
        /\ x.playing = p.playing /\ x.folded = p.folded /\ x.all_in = p.all_in
    BY <1>6 DEF SeatType
  <1> HIDE DEF x, seats
  <1>8. \A u \in Seats : [seat[u] EXCEPT !.acted = FALSE] \in SeatType
    BY <1>1 DEF SeatType
  <1>9. /\ seats \in [Seats -> SeatType] /\ seats[s] = x
        /\ \A u \in Seats \ {s} :
              \/ seats[u] = seat[u] /\ (u \in Actionable(seat) =>
                    ~seat[u].acted \/ r.current_bet = round.current_bet)
              \/ seats[u] = [seat[u] EXCEPT !.acted = FALSE]
    BY <1>1, <1>5, <1>7, <1>8
  <1>10. /\ x.bet = r.current_bet /\ x.bet <= x.total_bet
         /\ x.total_bet - x.bet = seat[s].total_bet - seat[s].bet
         /\ r.current_bet >= round.current_bet
         /\ x.playing => seat[s].playing
         /\ seat[s].folded => x.folded
         /\ seat[s].all_in => x.all_in
         /\ x.bet <= r.current_bet
    BY <1>1, <1>2, <1>3, <1>4, <1>6, <1>7 DEF SeatType, RoundType
  <1>11. Sound(r, seats)
    BY <1>1, <1>4, <1>7, <1>9, <1>10, ActionSound
  <1> QED BY <1>1, <1>4, <1>9, <1>11, ProceedSound

\* A kicked player no longer counts; nothing changes for the others.
LEMMA KickSound == ASSUME IInv, NEW S \in SUBSET Seats, Kick(S) PROVE IInv'
  <1> DEFINE left == [s \in Seats |-> IF s \in S THEN Out ELSE seat[s]]
  <1>1. /\ hand /\ round \in RoundType
        /\ seat \in [Seats -> SeatType] /\ Sound(round, seat)
        /\ ~round.open => round = Closed
        /\ \/ HandOver
           \/ StayOpen(round, left)
           \/ round.open /\ CloseStreet(round, left)
    BY DEF Kick, IInv, TypeOK
  <1>2. Out \in SeatType /\ Out.bet = 0 /\ Out.total_bet = 0 /\ ~Out.playing
    BY DEF Out, SeatType
  <1>3. left \in [Seats -> SeatType]
    BY <1>1, <1>2
  <1>4. \A s \in Seats : left[s] = Out \/ left[s] = seat[s]
    OBVIOUS
  <1> HIDE DEF left
  <1>5. /\ Actionable(left) \subseteq Actionable(seat)
        /\ \A s \in Actionable(left) : s \in Seats /\ left[s] = seat[s]
    BY <1>2, <1>4 DEF Actionable, Live
  <1>6. \A s \in Seats : /\ left[s].bet <= round.current_bet
                         /\ left[s].bet <= left[s].total_bet
    BY <1>1, <1>2, <1>4 DEF Sound, RoundType
  <1>7. ASSUME NEW s \in Actionable(left), NEW u \in Seats
        PROVE  left[u].total_bet - left[u].bet <= left[s].total_bet - left[s].bet
    <2>1. s \in Seats /\ s \in Actionable(seat) /\ left[s] = seat[s]
      BY <1>5
    <2>2. CASE left[u] = seat[u]
      BY <1>1, <2>1, <2>2 DEF Sound
    <2>3. CASE left[u] = Out
      <3>1. seat[s].bet <= seat[s].total_bet /\ seat[s] \in SeatType
        BY <1>1, <2>1 DEF Sound
      <3> QED BY <1>2, <2>1, <2>3, <3>1 DEF SeatType
    <2> QED BY <1>4, <2>2, <2>3
  <1>8. Sound(round, left)
    BY <1>1, <1>5, <1>6, <1>7 DEF Sound
  <1>9. CASE StayOpen(round, left)
    <2>1. hand' = TRUE /\ round' = round /\ seat' = left
      BY <1>9 DEF StayOpen
    <2>2. Sound(round, seat)'
      BY <1>8, <2>1 DEF Sound, Actionable, Live
    <2> QED BY <1>1, <1>3, <2>1, <2>2 DEF IInv, TypeOK, Closed
  <1>10. CASE round.open /\ CloseStreet(round, left)
    BY <1>1, <1>3, <1>8, <1>10, ProceedSound DEF Proceed
  <1> QED BY <1>1, <1>9, <1>10, HandOverSound

-----------------------------------------------------------------------------
\* No hand is on at first, so the invariant holds.
LEMMA InitSound == Init => IInv
  <1> SUFFICES ASSUME Init PROVE IInv OBVIOUS
  <1>1. hand = FALSE /\ round = Closed /\ seat \in Seatings
    BY DEF Init
  <1>2. seat \in [Seats -> SeatType] /\ Sound(Closed, seat)
    BY <1>1, SeatingsType
  <1>3. Closed \in RoundType BY DEF Closed, RoundType
  <1> QED BY <1>1, <1>2, <1>3 DEF IInv, TypeOK

\* Every step keeps the invariant, one case per action.
LEMMA NextSound == IInv /\ [Next]_vars => IInv'
  <1> SUFFICES ASSUME IInv, [Next]_vars PROVE IInv' OBVIOUS
  <1>1. CASE Reseat
    BY <1>1, HandOverSound DEF Reseat
  <1>2. ASSUME NEW small \in Seats, NEW big \in Seats, BeginHand(small, big)
        PROVE  IInv'
    BY <1>2, BeginHandSound
  <1>3. CASE OpenStreet
    BY <1>3, OpenStreetSound
  <1>4. ASSUME NEW s \in Seats, Fold(s) PROVE IInv'
    BY <1>4, FoldSound
  <1>5. ASSUME NEW s \in Seats, Check(s) PROVE IInv'
    BY <1>5, CheckSound
  <1>6. ASSUME NEW s \in Seats, Call(s) PROVE IInv'
    BY <1>6, CallSound
  <1>7. ASSUME NEW s \in Seats,
               NEW total \in 1 .. seat[s].bet + seat[s].stack, Raise(s, total)
        PROVE  IInv'
    <2>1. total \in Nat
      OBVIOUS
    <2> QED BY <1>7, <2>1, RaiseSound
  <1>8. ASSUME NEW S \in SUBSET Seats, Kick(S) PROVE IInv'
    BY <1>8, KickSound
  <1>9. CASE EndHand
    BY <1>9, HandOverSound DEF EndHand
  <1>10. CASE UNCHANGED vars
    BY <1>10 DEF vars, IInv, TypeOK, Sound, Actionable, Live, Seatings
  <1> QED
    BY <1>1, <1>2, <1>3, <1>4, <1>5, <1>6, <1>7, <1>8, <1>9, <1>10 DEF Next

\* The inductive invariant holds of every behaviour.
LEMMA Invariance == Spec => []IInv
  BY InitSound, NextSound, PTL DEF Spec

\* No bet, raise or call ever takes a stack below zero: the amounts stay
\* natural numbers whatever the players do.
THEOREM TypeCorrect == Spec => []TypeOK
  <1>1. IInv => TypeOK BY DEF IInv
  <1> QED BY <1>1, Invariance, PTL

\* A player who has acted since the last raise and can act again has matched
\* the bet (what is_betting_complete tests once more).
THEOREM ActedIsMatched == Spec => []ActedMatched
  <1>1. IInv => ActedMatched BY DEF IInv, Sound, ActedMatched
  <1> QED BY <1>1, Invariance, PTL

\* From the closed streets, who can still act has put in as much as anybody.
THEOREM CallersHaveCovered == Spec => []CallersCover
  <1>1. IInv => CallersCover BY DEF IInv, Sound, CallersCover, Before
  <1> QED BY <1>1, Invariance, PTL

-----------------------------------------------------------------------------
(* No chip moves except from a stack into the pot.                         *)

Bank(x) == x.stack + x.total_bet

\* However a handler goes on, it does so without touching anybody's chips.
LEMMA ProceedKeeps ==
    ASSUME NEW r, NEW seats \in [Seats -> SeatType], Proceed(r, seats)
    PROVE  \A s \in Seats : /\ seat'[s].playing = seats[s].playing
                            /\ Bank(seat'[s]) = Bank(seats[s])
  <1>1. CASE seat' = seats
    BY <1>1
  <1>2. CASE seat' = Collected(seats)
    <2>1. \A s \in Seats : /\ seat'[s].playing = seats[s].playing
                           /\ seat'[s].stack = seats[s].stack
                           /\ seat'[s].total_bet = seats[s].total_bet
      BY <1>2 DEF Collected, SeatType
    <2> QED BY <2>1 DEF Bank
  <1> QED BY <1>1, <1>2 DEF Proceed, StayOpen, CloseStreet

\* Chips put in keep their owner's sum.
LEMMA PutInKeeps ==
    ASSUME NEW x \in SeatType, NEW amount \in 0 .. x.stack
    PROVE  /\ [PutIn(x, amount) EXCEPT !.acted = TRUE] \in SeatType
           /\ Bank([PutIn(x, amount) EXCEPT !.acted = TRUE]) = Bank(x)
  <1> DEFINE p == PutIn(x, amount)
  <1>1. /\ p \in SeatType /\ p.stack = x.stack - amount
        /\ p.total_bet = x.total_bet + amount
    BY PutInMoves
  <1> HIDE DEF p
  <1>2. /\ [p EXCEPT !.acted = TRUE] \in SeatType
        /\ [p EXCEPT !.acted = TRUE].stack = p.stack
        /\ [p EXCEPT !.acted = TRUE].total_bet = p.total_bet
    BY <1>1 DEF SeatType
  <1>3. Bank([p EXCEPT !.acted = TRUE]) = Bank(x)
    BY <1>1, <1>2 DEF Bank, SeatType
  <1> QED BY <1>2, <1>3 DEF p

\* Within a hand every step leaves stack + total_bet of a player in the hand
\* as it was: nobody is charged or paid before the pot is.
THEOREM BankrollIsKept == Spec => BankrollKept
  <1> DEFINE Kept == hand /\ hand' => \A s \in Seats :
                        seat[s].playing /\ seat'[s].playing =>
                           seat'[s].stack + seat'[s].total_bet
                              = seat[s].stack + seat[s].total_bet
  <1>1. ASSUME IInv, [Next]_vars PROVE Kept
    <2> SUFFICES ASSUME hand, hand', NEW s \in Seats,
                        seat[s].playing, seat'[s].playing
                 PROVE  Bank(seat'[s]) = Bank(seat[s])
      BY DEF Bank
    <2>1. /\ seat \in [Seats -> SeatType] /\ round \in RoundType
          /\ Sound(round, seat)
      BY <1>1 DEF IInv, TypeOK
    <2>2. ASSUME HandOver PROVE FALSE
      BY <2>2 DEF HandOver
    <2>3. ASSUME NEW small \in Seats, NEW big \in Seats, BeginHand(small, big)
          PROVE  FALSE
      BY <2>3 DEF BeginHand
    <2>4. CASE OpenStreet
      <3> DEFINE seats == [u \in Seats |-> [seat[u] EXCEPT !.acted = FALSE]]
      <3>1. /\ seats \in [Seats -> SeatType]
            /\ seats[s].stack = seat[s].stack
            /\ seats[s].total_bet = seat[s].total_bet
        BY <2>1 DEF SeatType
      <3>2. Proceed(NewPostflop(BigBlind), seats)
        BY <2>4 DEF OpenStreet
      <3> HIDE DEF seats
      <3> QED BY <3>1, <3>2, ProceedKeeps DEF Bank
    <2>5. ASSUME NEW u \in Seats, Fold(u)
          PROVE  Bank(seat'[s]) = Bank(seat[s])
      <3> DEFINE seats == [seat EXCEPT ![u].folded = TRUE, ![u].acted = TRUE]
      <3>1. /\ seats \in [Seats -> SeatType]
            /\ seats[s].stack = seat[s].stack
            /\ seats[s].total_bet = seat[s].total_bet
        BY <2>1 DEF SeatType
      <3>2. Proceed(round, seats)
        BY <2>2, <2>5 DEF Fold
      <3> HIDE DEF seats
      <3> QED BY <3>1, <3>2, ProceedKeeps DEF Bank
    <2>6. ASSUME NEW u \in Seats, Check(u)
          PROVE  Bank(seat'[s]) = Bank(seat[s])
      <3> DEFINE seats == [seat EXCEPT ![u].acted = TRUE]
      <3>1. /\ seats \in [Seats -> SeatType]
            /\ seats[s].stack = seat[s].stack
            /\ seats[s].total_bet = seat[s].total_bet
        BY <2>1 DEF SeatType
      <3>2. Proceed(round, seats)
        BY <2>6 DEF Check
      <3> HIDE DEF seats
      <3> QED BY <3>1, <3>2, ProceedKeeps DEF Bank
    <2>7. ASSUME NEW u \in Seats, Call(u)
          PROVE  Bank(seat'[s]) = Bank(seat[s])
      <3> DEFINE x == [PutIn(seat[u], CallAmount(round, seat[u])) EXCEPT !.acted = TRUE]
                 seats == [seat EXCEPT ![u] = x]
      <3>1. seat[u] \in SeatType /\ seat[u].bet <= round.current_bet
        BY <2>1 DEF Sound
      <3>2. x \in SeatType /\ Bank(x) = Bank(seat[u])
        BY <2>1, <3>1, CallAmountBounds, PutInKeeps
      <3>3. Proceed(round, seats)
        BY <2>7 DEF Call
      <3> HIDE DEF x
      <3>4. seats \in [Seats -> SeatType] /\ Bank(seats[s]) = Bank(seat[s])
        BY <2>1, <3>2
      <3> HIDE DEF seats
      <3> QED BY <3>3, <3>4, ProceedKeeps
    <2>8. ASSUME NEW u \in Seats,
                 NEW total \in 1 .. seat[u].bet + seat[u].stack, Raise(u, total)
          PROVE  Bank(seat'[s]) = Bank(seat[s])
      <3> DEFINE x == [PutIn(seat[u], total - seat[u].bet) EXCEPT !.acted = TRUE]
                 seats == Raised(u, total)
      <3>1. seat[u] \in SeatType /\ CanRaiseTo(round, seat[u], total)
        BY <2>1, <2>8 DEF Raise
      <3>2. total - seat[u].bet \in 0 .. seat[u].stack
        BY <3>1 DEF CanRaiseTo, SeatType
      <3>3. x \in SeatType /\ Bank(x) = Bank(seat[u])
        BY <3>1, <3>2, PutInKeeps
      <3>4. seats = [v \in Seats |->
                        IF v = u THEN x
                        ELSE IF v \in Actionable(seat)
                             THEN [seat[v] EXCEPT !.acted = FALSE]
                        ELSE seat[v]]
        BY DEF Raised
      <3>5. Proceed(RaisedRound(round, total), seats)
        BY <2>8 DEF Raise
      <3> HIDE DEF x, seats
      <3>6. \A v \in Seats : LET y == [seat[v] EXCEPT !.acted = FALSE]
                             IN  y \in SeatType /\ Bank(y) = Bank(seat[v])
        BY <2>1 DEF SeatType, Bank
      <3>7. seats \in [Seats -> SeatType] /\ Bank(seats[s]) = Bank(seat[s])
        BY <2>1, <3>3, <3>4, <3>6
      <3> QED BY <3>5, <3>7, ProceedKeeps
    <2>9. ASSUME NEW S \in SUBSET Seats, Kick(S)
          PROVE  Bank(seat'[s]) = Bank(seat[s])
      <3> DEFINE left == [u \in Seats |-> IF u \in S THEN Out ELSE seat[u]]
      <3>1. Out \in SeatType /\ ~Out.playing
        BY DEF Out, SeatType
      <3>2. left \in [Seats -> SeatType]
        BY <2>1, <3>1
      <3>3. left[s] = Out \/ left[s] = seat[s]
        OBVIOUS
      <3>4. \/ seat' = left
            \/ round.open /\ Proceed(round, left)
        BY <2>2, <2>9 DEF Kick, StayOpen, Proceed
      <3> HIDE DEF left
      <3>5. seat'[s].playing = left[s].playing /\ Bank(seat'[s]) = Bank(left[s])
        BY <3>2, <3>4, ProceedKeeps
      <3> QED BY <3>1, <3>3, <3>5
    <2>10. CASE UNCHANGED vars
      BY <2>10 DEF vars
    <2> QED
      BY <1>1, <2>2, <2>3, <2>4, <2>5, <2>6, <2>7, <2>8, <2>9, <2>10
         DEF Next, Reseat, EndHand
  <1>2. IInv /\ [Next]_vars => [Kept]_vars
    BY <1>1
  <1> QED BY <1>2, Invariance, PTL DEF Spec, BankrollKept
=============================================================================
