------------------------------ MODULE MCRelayer ------------------------------
(***************************************************************************)
(* Instances of the relayer: three seats, two or three players.            *)
(***************************************************************************)
EXTENDS Relayer, TLC

Chain == INSTANCE ChainStories

AllStories == Chain!AllStories

ASSUME StoriesAreLegal == Chain!StoriesAreLegal
=============================================================================
