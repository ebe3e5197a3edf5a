------------------------------ MODULE MCMental ------------------------------
(***************************************************************************)
(* Instances of MentalGame.  Keys and cards are numbers for which no point *)
(* that turns up happens to be the identity.                               *)
(***************************************************************************)
EXTENDS MentalGame

TwoKeys == <<1009, 20011>>
ThreeKeys == <<1009, 20011, 33457>>
NineCards == <<1201, 5303, 9901, 14107, 22501, 27011, 31337, 35603, 40009>>
FewCards == [Flop |-> 1, Turn |-> 1, River |-> 0]

\* Players come to the table in the order of their numbers.
InOrder == \A p \in table.seats : 1..(p - 1) \subseteq table.seats \cup gone
=============================================================================
