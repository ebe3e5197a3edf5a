----------------------------- MODULE MCGameLoop -----------------------------
(***************************************************************************)
(* Instances of the game server's loop at a table of two seats.            *)
(***************************************************************************)
EXTENDS GameLoop, TLC

\* Of two hands one is better or none is, and any may be unreadable (0).
AnyRanks == [Seats -> {0, 1}]

\* One hand, a seat taken a second time, and two surprises at any moment
\* (somebody leaves, drops, rebuys, sits out, asks for a new deck).
Surprises == [hands |-> 1, seatings |-> 3, extras |-> 2]

\* Two hands, and nothing but the players' silence.
NoSurprise == [hands |-> 2, seatings |-> 2, extras |-> 0]

\* A reconstruction that outlives its hand pays the ended hand's pot again at
\* every tick (reconstruct.rs:168), without end.  At most ten chips can have been
\* brought: from there on such a table is not followed further.
FewChips == Chips(table) <= 10
=============================================================================
