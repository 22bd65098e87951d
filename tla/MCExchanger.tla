----------------------------- MODULE MCExchanger -----------------------------
(* Small instances of Exchanger for TLC. *)
EXTENDS Exchanger

(* Ranks 0 and 1 have a connection, rank 2 has only its sockets. *)
OneLink == {<<0, 1>>, <<1, 0>>}
===============================================================================
