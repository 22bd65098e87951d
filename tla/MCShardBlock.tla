----------------------------- MODULE MCShardBlock -----------------------------
(* Small instances of ShardBlock for TLC. *)
EXTENDS ShardBlock

Both(r, p) == {<<r, p>>, <<p, r>>}

(* Ranks 0 and 1 are cards of one machine. *)
OneMachine == Both(0, 1)

(* Rank 2 is another machine with a port. *)
AnotherMachine == Both(0, 2) \cup Both(1, 2)

(* Two cards of one machine and a rank behind a connection. *)
ByConnection == [local |-> OneMachine, linked |-> AnotherMachine, metal |-> {},
                 readsHost |-> {2}, faulty |-> {}, retries |-> 0]

(* Two cards of one machine and a Metal rank behind sockets, where a share may run out of
   memory or fail.                                                                         *)
BySocket == [local |-> OneMachine, linked |-> {}, metal |-> {2},
             readsHost |-> {}, faulty |-> {1}, retries |-> 1]

MCSettings == {ByConnection, BySocket}
===============================================================================
