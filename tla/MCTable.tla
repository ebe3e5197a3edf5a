------------------------------- MODULE MCTable -------------------------------
(***************************************************************************)
(* Instances of the table for TLC.  The runs differ in how many seats      *)
(* there are, how the players come to sit, and what may go wrong.          *)
(***************************************************************************)
EXTENDS TableProperties, TLC

CONSTANTS
    BuyIns,    \* for Seated runs: the stacks the seats may begin with
    MaxButton  \* bound: the hands played are those with button <= MaxButton

\* The orders in which hands may rank, ties included.
WeakOrders ==
    {r \in [Seats -> 1 .. MaxPlayers] :
        \A k \in 1 .. MaxPlayers :
            (\E s \in Seats : r[s] >= k) => (\E s \in Seats : r[s] = k)}
TwoOrders == {[s \in Seats |-> s + 1], [s \in Seats |-> MaxPlayers - s]}

\* Seats are numbered and players are not: renaming players changes nothing.
PlayerSymmetry == Permutations(Players)

\* The stacks the seated players begin with.
NoBuyIns == {}
OneDeep == {[s \in Seats |-> IF s = 1 THEN 3 ELSE 1]}
Uneven == {f \in [Seats -> {2, 3, 5}] : Cardinality({f[s] : s \in Seats}) = 3}
Holder == CHOOSE f \in [Seats -> Players] :
             \A s, u \in Seats : s # u => f[s] # f[u]

\* Every seat taken by join_and_shuffle, in the order of the seats, before
\* anything else happens.
SeatedInit ==
    \E stacks \in BuyIns :
        table = [NewTable EXCEPT
                    !.seats = [s \in Seats |-> InitSeat(Holder[s], stacks[s], FALSE)],
                    !.shuffle.completed = Seats,
                    !.agg = [p \in Players |->
                                IF \E s \in Seats : Holder[s] = p THEN 1 ELSE 0],
                    !.balance = Ratio * MapThenSumSet(LAMBDA s : stacks[s], Seats)]

SeatedSpec == SeatedInit /\ [][Next]_vars

\* The button starts at 0 and moves on with every hand.
FewHands == table.button <= MaxButton
=============================================================================
