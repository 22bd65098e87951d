------------------------------ MODULE Exchanger ------------------------------
(***************************************************************************)
(* `Exchanger::barrier` of src/src/worker.rs: how the ranks of a shared-   *)
(* out step order themselves over the sockets between them.  A barrier has *)
(* two stages.  In the first (`exchange_pending`) every pair that has no   *)
(* reliable connection trades the writes queued since the last barrier, in *)
(* the second every pair trades a `Ready`.  Both stages visit the peers in *)
(* ascending order, and in both the lower rank of a pair speaks first.     *)
(*                                                                         *)
(* A socket is a bounded FIFO channel: a write into a full one blocks.  A  *)
(* rank whose share fails closes its sockets, which its peers see as an    *)
(* error at their next read or write.                                      *)
(***************************************************************************)
EXTENDS Integers, Sequences, FiniteSets

CONSTANTS N,          \* how many ranks the run has
          Linked,     \* the ordered pairs whose writes go over a connection
          Rounds,     \* bound: barriers modelled
          MaxWrites,  \* bound: writes a rank queues for a peer between barriers
          Capacity,   \* messages a socket holds before its writer blocks
          Faulty      \* the ranks whose share may fail by itself

Ranks == 0 .. N - 1

ASSUME ExchangerAssumption ==
    /\ N \in Nat \ {0}
    /\ Linked \subseteq Ranks \X Ranks
    /\ \A r, p \in Ranks : <<r, p>> \in Linked <=> <<p, r>> \in Linked
    /\ Rounds \in Nat
    /\ MaxWrites \in Nat
    /\ Capacity \in Nat \ {0}
    /\ Faulty \subseteq Ranks

VARIABLES
    round,   \* barriers the rank has left
    stage,   \* "work" outside a barrier, else the stage of it the rank is in
    peer,    \* where the stage's loop over the peers stands, N past its end
    half,    \* 1 or 2: which of the pair's two turns the rank is at
    owed,    \* owed[r][p]: `pending`, the writes r has queued for p
    chan,    \* chan[r][p]: what r sent p and p has not read
    dead     \* the ranks whose session ended in an error

vars == <<round, stage, peer, half, owed, chan, dead>>

Stages == {"work", "trade", "ready"}

(* A `ShardWrite`, with the barrier interval it was queued in, or a `Ready`. *)
Message ==
    [kind : {"write"}, last : BOOLEAN, interval : Nat]
        \cup [kind : {"ready"}, last : {TRUE}, interval : Nat]

Write(last, interval) == [kind |-> "write", last |-> last, interval |-> interval]
Ready(interval) == [kind |-> "ready", last |-> TRUE, interval |-> interval]

Alive(r) == r \notin dead

(* `over_socket`: what the pair owes each other goes down a socket. *)
OverSocket(r, p) == <<r, p>> \notin Linked

(* The lower rank of a pair speaks first in either stage. *)
Speaks(r) == IF r < peer[r] THEN half[r] = 1 ELSE half[r] = 2

Init ==
    /\ round = [r \in Ranks |-> 0]
    /\ stage = [r \in Ranks |-> "work"]
    /\ peer = [r \in Ranks |-> 0]
    /\ half = [r \in Ranks |-> 1]
    /\ owed = [r \in Ranks |-> [p \in Ranks |-> 0]]
    /\ chan = [r \in Ranks |-> [p \in Ranks |-> <<>>]]
    /\ dead = {}

-------------------------------------------------------------------------------
(* A block's write to a peer it has no connection to waits for the barrier. *)
Queue(r, p) ==
    /\ Alive(r)
    /\ stage[r] = "work"
    /\ round[r] < Rounds
    /\ p # r
    /\ OverSocket(r, p)
    /\ owed[r][p] < MaxWrites
    /\ owed' = [owed EXCEPT ![r][p] = @ + 1]
    /\ UNCHANGED <<round, stage, peer, half, chan, dead>>

Enter(r) ==
    /\ Alive(r)
    /\ stage[r] = "work"
    /\ round[r] < Rounds
    /\ stage' = [stage EXCEPT ![r] = "trade"]
    /\ peer' = [peer EXCEPT ![r] = 0]
    /\ half' = [half EXCEPT ![r] = 1]
    /\ UNCHANGED <<round, owed, chan, dead>>

(* Variant with a fault: the loops stop at the rank itself. *)
SkipTheRanksAbove(r) ==
    /\ Alive(r)
    /\ stage[r] # "work"
    /\ peer[r] < N
    /\ \/ peer[r] >= r
       \/ stage[r] = "trade" /\ ~OverSocket(r, peer[r])
    /\ peer' = [peer EXCEPT ![r] = @ + 1]
    /\ UNCHANGED <<round, stage, half, owed, chan, dead>>

(* The loops leave out this rank, and the trade the peers a connection reaches. *)
Skip(r) ==
    /\ Alive(r)
    /\ stage[r] # "work"
    /\ peer[r] < N
    /\ \/ peer[r] = r
       \/ stage[r] = "trade" /\ ~OverSocket(r, peer[r])
    /\ peer' = [peer EXCEPT ![r] = @ + 1]
    /\ UNCHANGED <<round, stage, half, owed, chan, dead>>

(* Variant with a fault: the turn is not reset for the next peer. *)
TurnOverKeepsCounting(r) ==
    /\ half' = [half EXCEPT ![r] = @ + 1]
    /\ peer' = [peer EXCEPT ![r] = IF half[r] = 1 THEN @ ELSE @ + 1]

(* One turn of a pair is over: the other turn, or the next peer. *)
TurnOver(r) ==
    /\ half' = [half EXCEPT ![r] = IF @ = 1 THEN 2 ELSE 1]
    /\ peer' = [peer EXCEPT ![r] = IF half[r] = 1 THEN @ ELSE @ + 1]

Trading(r) ==
    /\ Alive(r)
    /\ stage[r] = "trade"
    /\ peer[r] < N
    /\ peer[r] # r
    /\ OverSocket(r, peer[r])

Meeting(r) ==
    /\ Alive(r)
    /\ stage[r] = "ready"
    /\ peer[r] < N
    /\ peer[r] # r

(* `send_pending`, a write at a time: the last says so, and a rank that owes *)
(* nothing sends an empty last write.                                        *)
SendPending(r) ==
    LET p == peer[r] IN
    /\ Trading(r)
    /\ Speaks(r)
    /\ Len(chan[r][p]) < Capacity
    /\ chan' = [chan EXCEPT ![r][p] = Append(@, Write(owed[r][p] =< 1, round[r]))]
    /\ owed' = [owed EXCEPT ![r][p] = IF @ > 0 THEN @ - 1 ELSE 0]
    /\ IF owed[r][p] =< 1 THEN TurnOver(r) ELSE UNCHANGED <<half, peer>>
    /\ UNCHANGED <<round, stage, dead>>

(* Variant with a fault: one write is taken whether or not it is the last. *)
TakePendingTakesOne(r) ==
    LET p == peer[r] IN
    /\ Trading(r)
    /\ ~Speaks(r)
    /\ chan[p][r] # <<>>
    /\ chan' = [chan EXCEPT ![p][r] = Tail(@)]
    /\ TurnOver(r)
    /\ UNCHANGED <<round, stage, owed, dead>>

(* `take_pending`: what the peer wrote, until the write that says it is the  *)
(* last.  Anything else on the socket ends the session.                      *)
TakePending(r) ==
    LET p == peer[r]
        m == Head(chan[p][r]) IN
    /\ Trading(r)
    /\ ~Speaks(r)
    /\ chan[p][r] # <<>>
    /\ chan' = [chan EXCEPT ![p][r] = Tail(@)]
    /\ IF m.kind = "write"
       THEN /\ IF m.last THEN TurnOver(r) ELSE UNCHANGED <<half, peer>>
            /\ UNCHANGED dead
       ELSE /\ dead' = dead \cup {r}
            /\ UNCHANGED <<half, peer>>
    /\ UNCHANGED <<round, stage, owed>>

(* Every write is out and in: the rank goes on to say it is here. *)
TradeOver(r) ==
    /\ Alive(r)
    /\ stage[r] = "trade"
    /\ peer[r] = N
    /\ stage' = [stage EXCEPT ![r] = "ready"]
    /\ peer' = [peer EXCEPT ![r] = 0]
    /\ UNCHANGED <<round, half, owed, chan, dead>>

Arrive(r) ==
    LET p == peer[r] IN
    /\ Meeting(r)
    /\ Speaks(r)
    /\ Len(chan[r][p]) < Capacity
    /\ chan' = [chan EXCEPT ![r][p] = Append(@, Ready(round[r]))]
    /\ TurnOver(r)
    /\ UNCHANGED <<round, stage, owed, dead>>

Wait(r) ==
    LET p == peer[r] IN
    /\ Meeting(r)
    /\ ~Speaks(r)
    /\ chan[p][r] # <<>>
    /\ chan' = [chan EXCEPT ![p][r] = Tail(@)]
    /\ IF Head(chan[p][r]).kind = "ready"
       THEN TurnOver(r) /\ UNCHANGED dead
       ELSE dead' = dead \cup {r} /\ UNCHANGED <<half, peer>>
    /\ UNCHANGED <<round, stage, owed>>

(* Variant with a fault: the rank waits only for the ranks below it. *)
LeaveHearsOnlyTheLower(r) ==
    /\ Alive(r)
    /\ stage[r] = "ready"
    /\ peer[r] >= r
    /\ stage' = [stage EXCEPT ![r] = "work"]
    /\ round' = [round EXCEPT ![r] = @ + 1]
    /\ peer' = [peer EXCEPT ![r] = 0]
    /\ UNCHANGED <<half, owed, chan, dead>>

(* The barrier returns: the block goes on. *)
Leave(r) ==
    /\ Alive(r)
    /\ stage[r] = "ready"
    /\ peer[r] = N
    /\ stage' = [stage EXCEPT ![r] = "work"]
    /\ round' = [round EXCEPT ![r] = @ + 1]
    /\ peer' = [peer EXCEPT ![r] = 0]
    /\ UNCHANGED <<half, owed, chan, dead>>

(* The share fails between two barriers: out of memory once it has reached   *)
(* its peers, a device error, a latent of the wrong length.                  *)
Fail(r) ==
    /\ r \in Faulty
    /\ Alive(r)
    /\ stage[r] = "work"
    /\ round[r] < Rounds
    /\ dead' = dead \cup {r}
    /\ UNCHANGED <<round, stage, peer, half, owed, chan>>

(* Variant with a fault: only a write notices that the other end is gone. *)
BrokenOnlyWhenWriting(r) ==
    /\ Trading(r) \/ Meeting(r)
    /\ Speaks(r)
    /\ peer[r] \in dead
    /\ dead' = dead \cup {r}
    /\ UNCHANGED <<round, stage, peer, half, owed, chan>>

(* A read or a write of a socket whose other end is closed.  What was still  *)
(* in the socket may be lost with it.                                        *)
Broken(r) ==
    /\ Trading(r) \/ Meeting(r)
    /\ peer[r] \in dead
    /\ dead' = dead \cup {r}
    /\ UNCHANGED <<round, stage, peer, half, owed, chan>>

Done(r) == ~Alive(r) \/ (stage[r] = "work" /\ round[r] = Rounds)

Terminating ==
    /\ \A r \in Ranks : Done(r)
    /\ UNCHANGED vars

Step(r) ==
    \/ \E p \in Ranks : Queue(r, p)
    \/ Enter(r) \/ Skip(r)
    \/ SendPending(r) \/ TakePending(r) \/ TradeOver(r)
    \/ Arrive(r) \/ Wait(r) \/ Leave(r)
    \/ Fail(r) \/ Broken(r)

Next == (\E r \in Ranks : Step(r)) \/ Terminating

Spec == Init /\ [][Next]_vars

(* Every rank is a thread of its own that runs while it can: it goes on from *)
(* its last write to the barrier, and through the barrier.                   *)
Progress(r) ==
    Enter(r) \/ Skip(r) \/ SendPending(r) \/ TakePending(r) \/ TradeOver(r)
        \/ Arrive(r) \/ Wait(r) \/ Leave(r) \/ Broken(r)

FairSpec == Spec /\ \A r \in Ranks : WF_vars(Progress(r))
-------------------------------------------------------------------------------
TypeOK ==
    /\ round \in [Ranks -> 0 .. Rounds]
    /\ stage \in [Ranks -> Stages]
    /\ peer \in [Ranks -> 0 .. N]
    /\ half \in [Ranks -> {1, 2}]
    /\ owed \in [Ranks -> [Ranks -> 0 .. MaxWrites]]
    /\ chan \in [Ranks -> [Ranks -> Seq(Message)]]
    /\ dead \subseteq Ranks

(* The barrier's promise: a rank that has left k barriers has left behind no *)
(* rank that has not entered its k-th.                                       *)
Entered(r) == IF stage[r] = "work" THEN round[r] ELSE round[r] + 1

BarrierHolds == \A r, q \in Ranks : round[r] =< Entered(q)

(* A rank back at its block has been handed every write its peers queued for *)
(* it before that barrier: none is on the socket and none is still pending.  *)
(* And no rank ever reads a write where it waits for a Ready or the reverse: *)
(* a session dies of a failed share, never of two ranks that lost their      *)
(* place.                                                                    *)
NothingOutstanding ==
    /\ \A r, p \in Ranks :
          (stage[r] = "work" /\ Alive(r) /\ r # p) =>
              /\ \A n \in 1 .. Len(chan[p][r]) : chan[p][r][n].interval >= round[r]
              /\ owed[p][r] > 0 => round[p] >= round[r]
    /\ dead # {} => dead \cap Faulty # {}

(* `exchange_pending` and `barrier`: no order of the ranks and no size of    *)
(* the sockets leaves them waiting on each other, and one that fails does    *)
(* not leave the others waiting for it.                                      *)
EveryRankEnds == \A r \in Ranks : <>[]Done(r)

(* The barrier over sockets implements the barrier the blocks count on. *)
Abstract == INSTANCE StepBarrier WITH
    entered <- [r \in Ranks |-> Entered(r)],
    left <- round

AbstractSpec == Abstract!Spec
===============================================================================
