----------------------------- MODULE MCRendezvous -----------------------------
(* Small instances of Rendezvous for TLC. *)
EXTENDS Rendezvous

(* Ranks 0, 1 and 2 are cards of one machine and one process. *)
Together == {0, 1, 2}
OneMachine == {pair \in Together \X Together : pair[1] # pair[2]}

Apart == {}

(* Reading the DiT, memory for the regions, a minute that ends early, the way to a card or a
   peer, and a step: each fails for some rank.                                               *)
Anything == {<<0, "meet">>, <<0, "step">>, <<1, "dit">>, <<1, "dial">>, <<3, "register">>}

(* The way from rank 0 to its peers is closed. *)
TheLowestCannotDial == {<<0, "dial">>}
===============================================================================
