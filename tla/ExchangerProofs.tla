--------------------------- MODULE ExchangerProofs ---------------------------
(***************************************************************************)
(* What the barrier of Exchanger promises, for any number of ranks, any    *)
(* set of pairs with a connection, any size of the sockets and any rank    *)
(* that fails: it is a barrier, and whoever is through it has taken all    *)
(* that was written to it before.                                          *)
(***************************************************************************)
EXTENDS Exchanger, TLAPS

-------------------------------------------------------------------------------
(* The lemmas about the messages and the sockets they go down.             *)

LEMMA MessageType ==
    ASSUME NEW k \in Nat, NEW last \in BOOLEAN
    PROVE  /\ Write(last, k) \in Message
           /\ Ready(k) \in Message
           /\ Write(last, k).kind = "write"
           /\ Ready(k).kind = "ready"
BY DEF Write, Ready, Message

LEMMA Appending ==
    ASSUME NEW s \in Seq(Message), NEW m \in Message
    PROVE  /\ Append(s, m) \in Seq(Message)
           /\ Len(Append(s, m)) = Len(s) + 1
           /\ Len(s) \in Nat
           /\ \A n \in 1 .. Len(s) : Append(s, m)[n] = s[n]
           /\ Append(s, m)[Len(s) + 1] = m
OBVIOUS

LEMMA Taking ==
    ASSUME NEW s \in Seq(Message), s # <<>>
    PROVE  /\ Tail(s) \in Seq(Message)
           /\ Head(s) \in Message
           /\ Len(s) \in Nat \ {0}
           /\ Len(Tail(s)) = Len(s) - 1
           /\ Head(s) = s[1]
           /\ \A n \in 1 .. Len(Tail(s)) : Tail(s)[n] = s[n + 1]
OBVIOUS

-------------------------------------------------------------------------------
(* Type correctness.                                                       *)

LEMMA RanksType ==
    /\ N \in Nat \ {0}
    /\ \A r \in Ranks : r \in Nat /\ r < N
BY ExchangerAssumption DEF Ranks

(* A turn of a pair keeps the loop's place within its range. *)
LEMMA TurnOverType ==
    ASSUME TypeOK, NEW r \in Ranks, peer[r] < N, TurnOver(r)
    PROVE  /\ half' \in [Ranks -> {1, 2}]
           /\ peer' \in [Ranks -> 0 .. N]
BY RanksType DEF TypeOK, TurnOver

(* TypeOK is not inductive by itself: that the last barrier is left at the   *)
(* bound needs that none was entered beyond it.                              *)
WithinBound == \A r \in Ranks : stage[r] # "work" => round[r] < Rounds

TypeInv == TypeOK /\ WithinBound

LEMMA TypeInit == Init => TypeInv
BY ExchangerAssumption, RanksType DEF Init, TypeInv, TypeOK, WithinBound, Stages

LEMMA TypeStep == TypeInv /\ [Next]_vars => TypeInv'
<1> SUFFICES ASSUME TypeInv, [Next]_vars PROVE TypeInv'
    OBVIOUS
<1>0. TypeOK /\ WithinBound
    BY DEF TypeInv
<1> USE ExchangerAssumption, RanksType
<1>1. ASSUME NEW r \in Ranks, NEW p \in Ranks, Queue(r, p) PROVE TypeInv'
    <2>1. owed[r][p] + 1 \in 0 .. MaxWrites
        <3>1. owed[r][p] \in 0 .. MaxWrites
            BY <1>0 DEF TypeOK
        <3>2. owed[r][p] < MaxWrites
            BY <1>1 DEF Queue
        <3> QED BY <3>1, <3>2
    <2>2. owed' \in [Ranks -> [Ranks -> 0 .. MaxWrites]]
        <3>1. owed' = [owed EXCEPT ![r][p] = owed[r][p] + 1]
            BY <1>1 DEF Queue
        <3>2. PICK v \in 0 .. MaxWrites : owed' = [owed EXCEPT ![r][p] = v]
            BY <2>1, <3>1, Zenon
        <3> QED BY <1>0, <3>2 DEF TypeOK
    <2> QED BY <1>0, <1>1, <2>2 DEF Queue, TypeInv, TypeOK, WithinBound
<1>2. ASSUME NEW r \in Ranks, Enter(r) PROVE TypeInv'
    BY <1>0, <1>2 DEF TypeInv, TypeOK, WithinBound, Enter, Stages
<1>3. ASSUME NEW r \in Ranks, Skip(r) PROVE TypeInv'
    BY <1>0, <1>3 DEF TypeInv, TypeOK, WithinBound, Skip
<1>4. ASSUME NEW r \in Ranks, NEW p, p = peer[r], SendPending(r) PROVE TypeInv'
    <2>1. p \in Ranks /\ round[r] \in Nat
        BY <1>0, <1>4 DEF SendPending, Trading, TypeOK, Ranks
    <2>2. ASSUME NEW last \in BOOLEAN
          PROVE  Append(chan[r][p], Write(last, round[r])) \in Seq(Message)
        BY <1>0, <2>1, MessageType, Appending DEF TypeOK
    <2>3. chan' \in [Ranks -> [Ranks -> Seq(Message)]]
        <3>1. chan' = [chan EXCEPT ![r][p] =
                           Append(chan[r][p], Write(owed[r][p] =< 1, round[r]))]
            BY <1>4, Zenon DEF SendPending
        <3>2. (owed[r][p] =< 1) \in BOOLEAN
            OBVIOUS
        <3>3. PICK s \in Seq(Message) : chan' = [chan EXCEPT ![r][p] = s]
            BY <2>2, <3>1, <3>2, Zenon
        <3> QED BY <1>0, <2>1, <3>3 DEF TypeOK
    <2>4. owed' \in [Ranks -> [Ranks -> 0 .. MaxWrites]]
        <3>1. owed[r][p] \in 0 .. MaxWrites
            BY <1>0, <2>1 DEF TypeOK
        <3>2. (IF owed[r][p] > 0 THEN owed[r][p] - 1 ELSE 0) \in 0 .. MaxWrites
            BY <3>1
        <3>3. owed' = [owed EXCEPT ![r][p] = IF owed[r][p] > 0 THEN owed[r][p] - 1 ELSE 0]
            BY <1>4 DEF SendPending
        <3>4. PICK v \in 0 .. MaxWrites : owed' = [owed EXCEPT ![r][p] = v]
            BY <3>2, <3>3, Zenon
        <3> QED BY <1>0, <2>1, <3>4 DEF TypeOK
    <2>5. half' \in [Ranks -> {1, 2}] /\ peer' \in [Ranks -> 0 .. N]
        BY <1>0, <1>4, TurnOverType DEF SendPending, Trading, TypeOK
    <2> QED BY <1>0, <1>4, <2>3, <2>4, <2>5 DEF SendPending, TypeInv, TypeOK, WithinBound
<1>5. ASSUME NEW r \in Ranks, NEW p, p = peer[r], TakePending(r) PROVE TypeInv'
    <2>1. p \in Ranks
        BY <1>0, <1>5 DEF TakePending, Trading, TypeOK, Ranks
    <2>2. chan' \in [Ranks -> [Ranks -> Seq(Message)]]
        <3>1. chan' = [chan EXCEPT ![p][r] = Tail(chan[p][r])]
            BY <1>5 DEF TakePending
        <3>2. Tail(chan[p][r]) \in Seq(Message)
            BY <1>0, <1>5, <2>1, Taking DEF TakePending, TypeOK
        <3>3. PICK s \in Seq(Message) : chan' = [chan EXCEPT ![p][r] = s]
            BY <3>1, <3>2, Zenon
        <3> QED BY <1>0, <2>1, <3>3 DEF TypeOK
    <2>3. half' \in [Ranks -> {1, 2}] /\ peer' \in [Ranks -> 0 .. N]
        BY <1>0, <1>5, TurnOverType DEF TakePending, Trading, TypeOK
    <2>4. dead' \subseteq Ranks
        BY <1>0, <1>5 DEF TakePending, TypeOK
    <2> QED BY <1>0, <1>5, <2>2, <2>3, <2>4 DEF TakePending, TypeInv, TypeOK, WithinBound
<1>6. ASSUME NEW r \in Ranks, TradeOver(r) PROVE TypeInv'
    BY <1>0, <1>6 DEF TypeInv, TypeOK, WithinBound, TradeOver, Stages
<1>7. ASSUME NEW r \in Ranks, NEW p, p = peer[r], Arrive(r) PROVE TypeInv'
    <2>1. p \in Ranks /\ round[r] \in Nat
        BY <1>0, <1>7 DEF Arrive, Meeting, TypeOK, Ranks
    <2>2. Append(chan[r][p], Ready(round[r])) \in Seq(Message)
        <3>1. Ready(round[r]) \in Message
            BY <2>1, MessageType
        <3> QED BY <1>0, <2>1, <3>1, Appending DEF TypeOK
    <2>3. chan' \in [Ranks -> [Ranks -> Seq(Message)]]
        <3>1. chan' = [chan EXCEPT ![r][p] = Append(chan[r][p], Ready(round[r]))]
            BY <1>7 DEF Arrive
        <3>2. PICK s \in Seq(Message) : chan' = [chan EXCEPT ![r][p] = s]
            BY <2>2, <3>1, Zenon
        <3> QED BY <1>0, <2>1, <3>2 DEF TypeOK
    <2>4. half' \in [Ranks -> {1, 2}] /\ peer' \in [Ranks -> 0 .. N]
        BY <1>0, <1>7, TurnOverType DEF Arrive, Meeting
    <2> QED BY <1>0, <1>7, <2>3, <2>4 DEF Arrive, TypeInv, TypeOK, WithinBound
<1>8. ASSUME NEW r \in Ranks, NEW p, p = peer[r], Wait(r) PROVE TypeInv'
    <2>1. p \in Ranks
        BY <1>0, <1>8 DEF Wait, Meeting, TypeOK, Ranks
    <2>2. chan' \in [Ranks -> [Ranks -> Seq(Message)]]
        <3>1. chan' = [chan EXCEPT ![p][r] = Tail(chan[p][r])]
            BY <1>8 DEF Wait
        <3>2. Tail(chan[p][r]) \in Seq(Message)
            BY <1>0, <1>8, <2>1, Taking DEF Wait, TypeOK
        <3>3. PICK s \in Seq(Message) : chan' = [chan EXCEPT ![p][r] = s]
            BY <3>1, <3>2, Zenon
        <3> QED BY <1>0, <2>1, <3>3 DEF TypeOK
    <2>3. half' \in [Ranks -> {1, 2}] /\ peer' \in [Ranks -> 0 .. N]
        BY <1>0, <1>8, TurnOverType DEF Wait, Meeting, TypeOK
    <2>4. dead' \subseteq Ranks
        BY <1>0, <1>8 DEF Wait, TypeOK
    <2> QED BY <1>0, <1>8, <2>2, <2>3, <2>4 DEF Wait, TypeInv, TypeOK, WithinBound
<1>9. ASSUME NEW r \in Ranks, Leave(r) PROVE TypeInv'
    <2>1. round[r] + 1 \in 0 .. Rounds
        <3>1. stage[r] # "work"
            BY <1>9 DEF Leave
        <3>2. round[r] < Rounds /\ round[r] \in 0 .. Rounds
            BY <1>0, <3>1 DEF TypeOK, WithinBound
        <3> QED BY <3>2
    <2> QED BY <1>0, <1>9, <2>1 DEF TypeInv, TypeOK, WithinBound, Leave, Stages
<1>10. ASSUME NEW r \in Ranks, Fail(r) PROVE TypeInv'
    BY <1>0, <1>10 DEF TypeInv, TypeOK, WithinBound, Fail
<1>11. ASSUME NEW r \in Ranks, Broken(r) PROVE TypeInv'
    BY <1>0, <1>11 DEF TypeInv, TypeOK, WithinBound, Broken
<1>12. CASE UNCHANGED vars
    BY <1>0, <1>12 DEF TypeInv, TypeOK, WithinBound, vars
<1> QED
    BY <1>1, <1>2, <1>3, <1>4, <1>5, <1>6, <1>7, <1>8, <1>9, <1>10, <1>11, <1>12
    DEF Next, Step, Terminating

(* Type correctness of the barrier, for every value of the constants.      *)
THEOREM TypeCorrect == Spec => []TypeOK
<1>1. TypeInv => TypeOK
    BY DEF TypeInv
<1> QED BY <1>1, TypeInit, TypeStep, PTL DEF Spec

-------------------------------------------------------------------------------
(* The barrier.  For a pair of ranks, Sent counts the Readys one has sent    *)
(* the other and Heard those it has heard from it.                           *)

Sent(r, p) ==
    IF stage[r] = "ready" /\ (p < peer[r] \/ (p = peer[r] /\ r < p /\ half[r] = 2))
    THEN round[r] + 1 ELSE round[r]

Heard(r, p) ==
    IF stage[r] = "ready" /\ (p < peer[r] \/ (p = peer[r] /\ p < r /\ half[r] = 2))
    THEN round[r] + 1 ELSE round[r]

(* A pair is in the middle of its two turns only at a peer it trades with.   *)
HalfWay ==
    \A r \in Ranks : half[r] = 2 =>
        /\ stage[r] # "work"
        /\ peer[r] < N
        /\ peer[r] # r
        /\ stage[r] = "trade" => OverSocket(r, peer[r])

(* Nobody has heard more than was said. *)
HeardWasSent == \A r, p \in Ranks : r # p => Heard(p, r) =< Sent(r, p)

(* A Ready on a socket is the one its reader has yet to hear. *)
ReadyAt(r, p, n) == n \in 1 .. Len(chan[r][p]) /\ chan[r][p][n].kind = "ready"

OneReady ==
    \A r, p \in Ranks : r # p =>
        \A m, n \in Nat :
            ReadyAt(r, p, m) =>
                /\ Heard(p, r) < Sent(r, p)
                /\ ReadyAt(r, p, n) => m = n

IInv == TypeInv /\ HalfWay /\ HeardWasSent /\ OneReady

(* What the invariant is for: leaving a barrier takes a Ready of every other *)
(* rank, and a rank sends it inside the barrier.                             *)
LEMMA SentIsEntered ==
    ASSUME TypeInv, NEW r \in Ranks, NEW p \in Ranks
    PROVE  /\ Heard(r, p) \in Nat /\ Sent(r, p) \in Nat /\ Entered(r) \in Nat
           /\ round[r] =< Heard(r, p) /\ Heard(r, p) =< round[r] + 1
           /\ round[r] =< Sent(r, p) /\ Sent(r, p) =< Entered(r)
<1>1. round[r] \in Nat
    BY DEF TypeInv, TypeOK
<1>2. /\ Heard(r, p) = round[r] \/ Heard(r, p) = round[r] + 1
      /\ Sent(r, p) = round[r] \/ (Sent(r, p) = round[r] + 1 /\ stage[r] = "ready")
    BY DEF Heard, Sent
<1>3. /\ Entered(r) = round[r] \/ Entered(r) = round[r] + 1
      /\ stage[r] = "ready" => Entered(r) = round[r] + 1
    BY DEF Entered
<1> QED BY <1>1, <1>2, <1>3

LEMMA InvImpliesBarrier == IInv => BarrierHolds
<1> SUFFICES ASSUME IInv, NEW r \in Ranks, NEW q \in Ranks
             PROVE  round[r] =< Entered(q)
    BY DEF BarrierHolds
<1>1. CASE r = q
    BY <1>1 DEF IInv, TypeInv, TypeOK, Entered
<1>2. CASE r # q
    <2>1. round[r] =< Heard(r, q) /\ Heard(r, q) \in Nat
        BY SentIsEntered DEF IInv
    <2>2. Heard(r, q) =< Sent(q, r)
        BY <1>2 DEF IInv, HeardWasSent
    <2>3. Sent(q, r) =< Entered(q) /\ Sent(q, r) \in Nat /\ Entered(q) \in Nat
        BY SentIsEntered DEF IInv
    <2> QED BY <2>1, <2>2, <2>3 DEF IInv, TypeInv, TypeOK
<1> QED BY <1>1, <1>2

LEMMA InvInit == Init => IInv
<1> SUFFICES ASSUME Init PROVE IInv
    OBVIOUS
<1>1. TypeInv
    BY TypeInit
<1>2. HalfWay
    BY DEF Init, HalfWay
<1>3. HeardWasSent
    BY DEF Init, HeardWasSent, Heard, Sent
<1>4. OneReady
    BY DEF Init, OneReady, ReadyAt
<1> QED BY <1>1, <1>2, <1>3, <1>4 DEF IInv

-------------------------------------------------------------------------------
LEMMA TurnOverHalfWay ==
    ASSUME TypeOK, HalfWay, NEW r \in Ranks, Trading(r) \/ Meeting(r),
           TurnOver(r) \/ UNCHANGED <<half, peer>>, stage' = stage
    PROVE  HalfWay'
<1>1. /\ stage[r] # "work"
      /\ peer[r] < N
      /\ peer[r] # r
      /\ stage[r] = "trade" => OverSocket(r, peer[r])
    BY DEF Trading, Meeting
<1>2. CASE UNCHANGED <<half, peer>>
    BY <1>2 DEF HalfWay, OverSocket
<1>3. CASE TurnOver(r) /\ half[r] = 1
    <2>1. peer' = peer
        BY <1>3 DEF TurnOver, TypeOK
    <2>2. \A q \in Ranks : q # r => half'[q] = half[q]
        BY <1>3 DEF TurnOver, TypeOK
    <2> QED BY <1>1, <2>1, <2>2 DEF HalfWay, OverSocket
<1>4. CASE TurnOver(r) /\ half[r] = 2
    <2>1. half'[r] = 1
        BY <1>4 DEF TurnOver, TypeOK
    <2>2. \A q \in Ranks : q # r => half'[q] = half[q] /\ peer'[q] = peer[q]
        BY <1>4 DEF TurnOver, TypeOK
    <2> QED BY <2>1, <2>2 DEF HalfWay, OverSocket
<1> QED BY <1>2, <1>3, <1>4 DEF TypeOK

(* A step keeps HalfWay: the loop moves on to another peer, or ends, only at *)
(* the end of both turns.                                                    *)
LEMMA HalfWayStep == IInv /\ [Next]_vars => HalfWay'
<1> SUFFICES ASSUME IInv, [Next]_vars PROVE HalfWay'
    OBVIOUS
<1>0. TypeOK /\ HalfWay
    BY DEF IInv, TypeInv
<1> USE ExchangerAssumption, RanksType
<1>1. ASSUME NEW r \in Ranks, NEW p \in Ranks, Queue(r, p) PROVE HalfWay'
    BY <1>0, <1>1 DEF HalfWay, Queue, OverSocket
<1>2. ASSUME NEW r \in Ranks, Enter(r) PROVE HalfWay'
    <2>1. half'[r] = 1
        BY <1>0, <1>2 DEF TypeOK, HalfWay, Enter
    <2>2. \A q \in Ranks : q # r =>
             stage'[q] = stage[q] /\ half'[q] = half[q] /\ peer'[q] = peer[q]
        BY <1>0, <1>2 DEF TypeOK, Enter
    <2> QED BY <1>0, <2>1, <2>2 DEF HalfWay, OverSocket
<1>3. ASSUME NEW r \in Ranks, Skip(r) PROVE HalfWay'
    <2>1. half[r] = 1
        BY <1>0, <1>3 DEF TypeOK, HalfWay, Skip
    <2>2. stage' = stage /\ half' = half /\ \A q \in Ranks : q # r => peer'[q] = peer[q]
        BY <1>0, <1>3 DEF TypeOK, Skip
    <2> QED BY <1>0, <2>1, <2>2 DEF HalfWay, OverSocket
<1>4. ASSUME NEW r \in Ranks, SendPending(r) PROVE HalfWay'
    BY <1>0, <1>4, TurnOverHalfWay DEF SendPending
<1>5. ASSUME NEW r \in Ranks, TakePending(r) PROVE HalfWay'
    BY <1>0, <1>5, TurnOverHalfWay DEF TakePending
<1>6. ASSUME NEW r \in Ranks, TradeOver(r) PROVE HalfWay'
    <2>1. half'[r] = 1
        BY <1>0, <1>6 DEF TypeOK, HalfWay, TradeOver
    <2>2. \A q \in Ranks : q # r =>
             stage'[q] = stage[q] /\ half'[q] = half[q] /\ peer'[q] = peer[q]
        BY <1>0, <1>6 DEF TypeOK, TradeOver
    <2> QED BY <1>0, <2>1, <2>2 DEF HalfWay, OverSocket
<1>7. ASSUME NEW r \in Ranks, Arrive(r) PROVE HalfWay'
    BY <1>0, <1>7, TurnOverHalfWay DEF Arrive
<1>8. ASSUME NEW r \in Ranks, Wait(r) PROVE HalfWay'
    BY <1>0, <1>8, TurnOverHalfWay DEF Wait
<1>9. ASSUME NEW r \in Ranks, Leave(r) PROVE HalfWay'
    <2>1. half'[r] = 1
        BY <1>0, <1>9 DEF TypeOK, HalfWay, Leave
    <2>2. \A q \in Ranks : q # r =>
             stage'[q] = stage[q] /\ half'[q] = half[q] /\ peer'[q] = peer[q]
        BY <1>0, <1>9 DEF TypeOK, Leave
    <2> QED BY <1>0, <2>1, <2>2 DEF HalfWay, OverSocket
<1>10. ASSUME NEW r \in Ranks, Fail(r) \/ Broken(r) PROVE HalfWay'
    BY <1>0, <1>10 DEF HalfWay, Fail, Broken, OverSocket
<1>11. CASE UNCHANGED vars
    BY <1>0, <1>11 DEF HalfWay, vars, OverSocket
<1> QED
    BY <1>1, <1>2, <1>3, <1>4, <1>5, <1>6, <1>7, <1>8, <1>9, <1>10, <1>11
    DEF Next, Step, Terminating

-------------------------------------------------------------------------------
(* What a step says and hears.  Every step but Arrive and Wait says and      *)
(* hears nothing.                                                            *)

SaysNothing == \A a, b \in Ranks : a # b => Sent(a, b)' = Sent(a, b)
HearsNothing == \A a, b \in Ranks : a # b => Heard(a, b)' = Heard(a, b)

(* A step that puts no Ready on a socket, and takes n messages off its front. *)
AddsNoReady ==
    \A a, b \in Ranks : a # b => \E k \in Nat : \A n \in Nat :
        ReadyAt(a, b, n)' => ReadyAt(a, b, n + k)

LEMMA QuietStep ==
    ASSUME HeardWasSent, OneReady, SaysNothing, HearsNothing, AddsNoReady
    PROVE  HeardWasSent' /\ OneReady'
<1>1. HeardWasSent'
    BY DEF HeardWasSent, SaysNothing, HearsNothing
<1>2. OneReady'
    <2> SUFFICES ASSUME NEW a \in Ranks, NEW b \in Ranks, a # b,
                        NEW m \in Nat, NEW n \in Nat, ReadyAt(a, b, m)'
                 PROVE  /\ Heard(b, a)' < Sent(a, b)'
                        /\ ReadyAt(a, b, n)' => m = n
        BY Zenon DEF OneReady
    <2>1. PICK k \in Nat : \A i \in Nat : ReadyAt(a, b, i)' => ReadyAt(a, b, i + k)
        BY DEF AddsNoReady
    <2>2. m + k \in Nat /\ n + k \in Nat /\ ReadyAt(a, b, m + k)
        BY <2>1
    <2>3. Heard(b, a)' < Sent(a, b)'
        BY <2>2 DEF OneReady, SaysNothing, HearsNothing
    <2>4. ASSUME ReadyAt(a, b, n)' PROVE m = n
        <3>1. ReadyAt(a, b, n + k)
            BY <2>1, <2>4
        <3>2. m + k = n + k
            BY <2>2, <3>1 DEF OneReady
        <3> QED BY <3>2
    <2> QED BY <2>3, <2>4
<1> QED BY <1>1, <1>2

(* The places a Ready may stand in a socket that a step leaves alone. *)
LEMMA SameSockets ==
    ASSUME chan' = chan
    PROVE  AddsNoReady
<1>1. \A a, b \in Ranks, n \in Nat : ReadyAt(a, b, n)' => ReadyAt(a, b, n + 0)
    BY DEF ReadyAt
<1> QED BY <1>1 DEF AddsNoReady

(* A write appended to a socket, or a message taken off it, adds no Ready. *)
LEMMA AppendedWrite ==
    ASSUME TypeOK, NEW r \in Ranks, NEW p \in Ranks, NEW w \in Message,
           w.kind = "write", chan' = [chan EXCEPT ![r][p] = Append(chan[r][p], w)]
    PROVE  AddsNoReady
<1>1. \A a, b \in Ranks, n \in Nat : ReadyAt(a, b, n)' => ReadyAt(a, b, n + 0)
    <2> SUFFICES ASSUME NEW a \in Ranks, NEW b \in Ranks, NEW n \in Nat, ReadyAt(a, b, n)'
                 PROVE  ReadyAt(a, b, n)
        OBVIOUS
    <2>1. CASE a = r /\ b = p
        <3>1. chan'[r][p] = Append(chan[r][p], w) /\ chan[r][p] \in Seq(Message)
            <4>1. chan \in [Ranks -> [Ranks -> Seq(Message)]]
                BY DEF TypeOK
            <4>2. DOMAIN chan = Ranks /\ DOMAIN chan[r] = Ranks /\ chan[r][p] \in Seq(Message)
                BY <4>1
            <4> QED BY <4>2
        <3>2. n \in 1 .. Len(chan'[r][p]) /\ chan'[r][p][n].kind = "ready"
            BY <2>1 DEF ReadyAt
        <3>3. n # Len(chan[r][p]) + 1
            BY <3>1, <3>2, Appending
        <3>4. n \in 1 .. Len(chan[r][p]) /\ chan'[r][p][n] = chan[r][p][n]
            BY <3>1, <3>2, <3>3, Appending
        <3> QED BY <2>1, <3>2, <3>4 DEF ReadyAt
    <2>2. CASE a # r \/ b # p
        <3>1. chan'[a][b] = chan[a][b]
            BY <2>2 DEF TypeOK
        <3> QED BY <3>1 DEF ReadyAt
    <2> QED BY <2>1, <2>2
<1> QED BY <1>1 DEF AddsNoReady

LEMMA TakenMessage ==
    ASSUME TypeOK, NEW r \in Ranks, NEW p \in Ranks, chan[p][r] # <<>>,
           chan' = [chan EXCEPT ![p][r] = Tail(chan[p][r])]
    PROVE  /\ AddsNoReady
           /\ \A a, b \in Ranks, n \in Nat : (a # p \/ b # r) =>
                 (ReadyAt(a, b, n)' <=> ReadyAt(a, b, n))
           /\ \A n \in Nat : ReadyAt(p, r, n)' => ReadyAt(p, r, n + 1)
<1>1. \A a, b \in Ranks, n \in Nat : (a # p \/ b # r) =>
         (ReadyAt(a, b, n)' <=> ReadyAt(a, b, n))
    BY DEF ReadyAt, TypeOK
<1>2. \A n \in Nat : ReadyAt(p, r, n)' => ReadyAt(p, r, n + 1)
    <2>1. chan'[p][r] = Tail(chan[p][r]) /\ chan[p][r] \in Seq(Message)
        BY DEF TypeOK
    <2>2. SUFFICES ASSUME NEW n \in Nat, ReadyAt(p, r, n)'
                   PROVE  ReadyAt(p, r, n + 1)
        OBVIOUS
    <2>3. n \in 1 .. Len(Tail(chan[p][r])) /\ Tail(chan[p][r])[n].kind = "ready"
        BY <2>1, <2>2 DEF ReadyAt
    <2>4. n + 1 \in 1 .. Len(chan[p][r]) /\ Tail(chan[p][r])[n] = chan[p][r][n + 1]
        BY <2>1, <2>3, Taking
    <2> QED BY <2>3, <2>4 DEF ReadyAt
<1>3. AddsNoReady
    <2> SUFFICES ASSUME NEW a \in Ranks, NEW b \in Ranks
                 PROVE  \E k \in Nat : \A n \in Nat :
                            ReadyAt(a, b, n)' => ReadyAt(a, b, n + k)
        BY DEF AddsNoReady
    <2>1. CASE a = p /\ b = r
        BY <1>2, <2>1
    <2>2. CASE a # p \/ b # r
        <3>1. \A n \in Nat : n + 0 = n
            OBVIOUS
        <3> QED BY <1>1, <2>2, <3>1
    <2> QED BY <2>1, <2>2
<1> QED BY <1>1, <1>2, <1>3

-------------------------------------------------------------------------------
(* Every action, for what it says and hears.                                 *)

LEMMA StageSteps ==
    ASSUME IInv, NEW r \in Ranks,
           Enter(r) \/ Skip(r) \/ TradeOver(r) \/ Leave(r) \/ Fail(r) \/ Broken(r)
               \/ \E p \in Ranks : Queue(r, p)
    PROVE  SaysNothing /\ HearsNothing /\ AddsNoReady
<1>0. TypeOK /\ HalfWay
    BY DEF IInv, TypeInv
<1> USE ExchangerAssumption, RanksType
<1>1. AddsNoReady
    BY SameSockets DEF Enter, Skip, TradeOver, Leave, Fail, Broken, Queue
<1>2. CASE Enter(r)
    BY <1>0, <1>1, <1>2 DEF Enter, TypeOK, SaysNothing, HearsNothing, Sent, Heard
<1>3. CASE Skip(r)
    <2>1. half[r] = 1 /\ (stage[r] = "ready" => peer[r] = r)
        BY <1>0, <1>3 DEF Skip, TypeOK, HalfWay
    <2>2. stage' = stage /\ half' = half /\ round' = round /\ peer'[r] = peer[r] + 1
        BY <1>0, <1>3 DEF Skip, TypeOK
    <2>3. \A b \in Ranks : r # b => Sent(r, b)' = Sent(r, b) /\ Heard(r, b)' = Heard(r, b)
        BY <2>1, <2>2 DEF Sent, Heard
    <2>4. \A a, b \in Ranks : a # r => Sent(a, b)' = Sent(a, b) /\ Heard(a, b)' = Heard(a, b)
        BY <1>0, <1>3 DEF Skip, TypeOK, Sent, Heard
    <2> QED BY <1>1, <2>3, <2>4 DEF SaysNothing, HearsNothing
<1>4. CASE TradeOver(r)
    <2>1. stage[r] = "trade" /\ half[r] = 1
        BY <1>0, <1>4 DEF TradeOver, TypeOK, HalfWay
    <2>2. stage'[r] = "ready" /\ peer'[r] = 0 /\ half'[r] = 1 /\ round' = round
        BY <1>0, <1>4, <2>1 DEF TradeOver, TypeOK
    <2>3. \A b \in Ranks : r # b => Sent(r, b)' = Sent(r, b) /\ Heard(r, b)' = Heard(r, b)
        BY <2>1, <2>2 DEF Sent, Heard
    <2>4. \A a, b \in Ranks : a # r => Sent(a, b)' = Sent(a, b) /\ Heard(a, b)' = Heard(a, b)
        BY <1>0, <1>4 DEF TradeOver, TypeOK, Sent, Heard
    <2> QED BY <1>1, <2>3, <2>4 DEF SaysNothing, HearsNothing
<1>5. CASE Leave(r)
    <2>1. stage[r] = "ready" /\ peer[r] = N /\ round[r] \in Nat
        BY <1>0, <1>5 DEF Leave, TypeOK
    <2>2. stage'[r] = "work" /\ round'[r] = round[r] + 1
        BY <1>0, <1>5 DEF Leave, TypeOK
    <2>3. \A b \in Ranks : r # b => Sent(r, b)' = Sent(r, b) /\ Heard(r, b)' = Heard(r, b)
        BY <2>1, <2>2 DEF Sent, Heard
    <2>4. \A a, b \in Ranks : a # r => Sent(a, b)' = Sent(a, b) /\ Heard(a, b)' = Heard(a, b)
        BY <1>0, <1>5 DEF Leave, TypeOK, Sent, Heard
    <2> QED BY <1>1, <2>3, <2>4 DEF SaysNothing, HearsNothing
<1>6. CASE Fail(r) \/ Broken(r) \/ \E p \in Ranks : Queue(r, p)
    BY <1>1, <1>6 DEF Fail, Broken, Queue, SaysNothing, HearsNothing, Sent, Heard
<1> QED BY <1>2, <1>3, <1>4, <1>5, <1>6

(* The trade of writes neither says nor hears a Ready. *)
LEMMA TradeSteps ==
    ASSUME IInv, NEW r \in Ranks, SendPending(r) \/ TakePending(r)
    PROVE  SaysNothing /\ HearsNothing /\ AddsNoReady
<1>0. TypeOK
    BY DEF IInv, TypeInv
<1>1. SaysNothing /\ HearsNothing
    <2>1. stage[r] = "trade" /\ stage' = stage /\ round' = round
        BY DEF SendPending, TakePending, Trading
    <2>2. \A a \in Ranks : a # r => half'[a] = half[a] /\ peer'[a] = peer[a]
        BY <1>0, SMTT(60) DEF SendPending, TakePending, TurnOver, TypeOK
    <2> QED BY <2>1, <2>2 DEF SaysNothing, HearsNothing, Sent, Heard
<1>2. peer[r] \in Ranks
    BY <1>0, ExchangerAssumption DEF SendPending, TakePending, Trading, TypeOK, Ranks
<1>3. CASE SendPending(r)
    <2>1. chan' = [chan EXCEPT ![r][peer[r]] =
                       Append(chan[r][peer[r]], Write(owed[r][peer[r]] =< 1, round[r]))]
        BY <1>3, Zenon DEF SendPending
    <2>2. round[r] \in Nat /\ (owed[r][peer[r]] =< 1) \in BOOLEAN
        BY <1>0 DEF TypeOK
    <2>3. PICK w \in Message :
            w.kind = "write" /\ chan' = [chan EXCEPT ![r][peer[r]] = Append(chan[r][peer[r]], w)]
        BY <2>1, <2>2, MessageType, Zenon
    <2> QED BY <1>0, <1>1, <1>2, <2>3, AppendedWrite
<1>4. CASE TakePending(r)
    <2>1. chan[peer[r]][r] # <<>>
        BY <1>4 DEF TakePending
    <2>2. chan' = [chan EXCEPT ![peer[r]][r] = Tail(chan[peer[r]][r])]
        BY <1>4 DEF TakePending
    <2> QED BY <1>0, <1>1, <1>2, <2>1, <2>2, TakenMessage
<1> QED BY <1>3, <1>4

(* What TurnOver does to Sent and Heard in the ready stage. *)
LEMMA TurnInReady ==
    ASSUME TypeOK, NEW r \in Ranks, NEW p \in Ranks, p = peer[r], p # r,
           stage[r] = "ready", stage' = stage, round' = round, TurnOver(r)
    PROVE  /\ \A a, b \in Ranks : (a # r \/ b # p) /\ a # b =>
                 Sent(a, b)' = Sent(a, b) /\ Heard(a, b)' = Heard(a, b)
           /\ Speaks(r) =>
                 /\ Sent(r, p) = round[r] /\ Sent(r, p)' = round[r] + 1
                 /\ Heard(r, p)' = Heard(r, p)
                 /\ Heard(r, p) = IF r < p THEN round[r] ELSE round[r] + 1
           /\ ~Speaks(r) =>
                 /\ Heard(r, p) = round[r] /\ Heard(r, p)' = round[r] + 1
                 /\ Sent(r, p)' = Sent(r, p)
<1> USE RanksType
<1>1. \A a \in Ranks : a # r => half'[a] = half[a] /\ peer'[a] = peer[a]
    BY DEF TurnOver, TypeOK
<1>2. \A a, b \in Ranks : a # r =>
         Sent(a, b)' = Sent(a, b) /\ Heard(a, b)' = Heard(a, b)
    BY <1>1 DEF Sent, Heard
<1>3. CASE half[r] = 1
    <2>1. half'[r] = 2 /\ peer'[r] = p
        BY <1>3 DEF TurnOver, TypeOK
    <2> QED BY <1>2, <1>3, <2>1 DEF Sent, Heard, Speaks
<1>4. CASE half[r] = 2
    <2>1. half'[r] = 1 /\ peer'[r] = p + 1
        BY <1>4 DEF TurnOver, TypeOK
    <2>2. \A b \in Ranks : b # r /\ b # p =>
             Sent(r, b)' = Sent(r, b) /\ Heard(r, b)' = Heard(r, b)
        BY <1>4, <2>1 DEF Sent, Heard
    <2>3. /\ Sent(r, p)' = round[r] + 1 /\ Heard(r, p)' = round[r] + 1
          /\ Sent(r, p) = IF r < p THEN round[r] + 1 ELSE round[r]
          /\ Heard(r, p) = IF r < p THEN round[r] ELSE round[r] + 1
        BY <1>4, <2>1 DEF Sent, Heard
    <2>4. Speaks(r) <=> p < r
        BY <1>4 DEF Speaks
    <2> QED BY <1>2, <2>2, <2>3, <2>4
<1> QED BY <1>3, <1>4 DEF TypeOK

(* A rank says it is here: until then its peer had heard all it said, so no  *)
(* Ready of it stands on the socket.                                         *)
LEMMA ArriveStep ==
    ASSUME IInv, NEW r \in Ranks, NEW p, p = peer[r], Arrive(r)
    PROVE  HeardWasSent' /\ OneReady'
<1>0. TypeOK /\ HeardWasSent /\ OneReady /\ TypeInv
    BY DEF IInv, TypeInv
<1>1. p \in Ranks /\ p # r /\ stage[r] = "ready"
    BY <1>0, ExchangerAssumption DEF Arrive, Meeting, TypeOK, Ranks
<1>2. /\ \A a, b \in Ranks : (a # r \/ b # p) /\ a # b =>
           Sent(a, b)' = Sent(a, b) /\ Heard(a, b)' = Heard(a, b)
      /\ Sent(r, p) = round[r] /\ Sent(r, p)' = round[r] + 1
      /\ Heard(r, p)' = Heard(r, p)
      /\ Heard(r, p) = IF r < p THEN round[r] ELSE round[r] + 1
    BY <1>0, <1>1, TurnInReady DEF Arrive
<1>3. Heard(p, r) = round[r]
    <2>1. /\ Heard(p, r) =< Sent(r, p) /\ Heard(r, p) =< Sent(p, r)
        BY <1>0, <1>1 DEF HeardWasSent
    <2>2. r < p => Sent(p, r) =< Heard(p, r)
        BY <1>0, <1>1, RanksType, SMTT(60) DEF Sent, Heard, TypeOK
    <2>3. Sent(p, r) = Heard(p, r) \/ Sent(p, r) = Heard(p, r) + 1 \/ Sent(p, r) + 1 = Heard(p, r)
        BY <1>0, <1>1, RanksType DEF Sent, Heard, TypeOK
    <2>4. Heard(p, r) \in Nat /\ Sent(p, r) \in Nat /\ round[r] \in Nat
        BY <1>0, <1>1, SentIsEntered DEF TypeOK
    <2> QED BY <1>1, <1>2, <2>1, <2>2, <2>3, <2>4, RanksType
<1>nat. round[r] \in Nat
    BY <1>0 DEF TypeOK
<1>same. Heard(p, r)' = Heard(p, r)
    BY <1>1, <1>2
<1>4. HeardWasSent'
    <2> SUFFICES ASSUME NEW a \in Ranks, NEW b \in Ranks, a # b
                 PROVE  Heard(b, a)' =< Sent(a, b)'
        BY DEF HeardWasSent
    <2>0. Heard(b, a) =< Sent(a, b)
        BY <1>0 DEF HeardWasSent
    <2>1. CASE a = r /\ b = p
        BY <1>2, <1>3, <1>nat, <1>same, <2>1
    <2>2. CASE a = p /\ b = r
        BY <1>1, <1>2, <2>0, <2>2
    <2>3. CASE (a # r \/ b # p) /\ (a # p \/ b # r)
        BY <1>2, <2>0, <2>3
    <2> QED BY <2>1, <2>2, <2>3
<1>5. \A n \in Nat : ~ReadyAt(r, p, n)
    <2>1. ~(Heard(p, r) < Sent(r, p))
        BY <1>2, <1>3, <1>nat
    <2> QED BY <1>0, <1>1, <2>1 DEF OneReady
<1>6. chan' = [chan EXCEPT ![r][p] = Append(chan[r][p], Ready(round[r]))]
    BY DEF Arrive
<1>7. \A n \in Nat : ReadyAt(r, p, n)' => n = Len(chan[r][p]) + 1
    <2>1. Ready(round[r]) \in Message
        BY <1>nat, MessageType
    <2>2. chan[r][p] \in Seq(Message) /\ chan'[r][p] = Append(chan[r][p], Ready(round[r]))
        BY <1>0, <1>1, <1>6 DEF TypeOK
    <2> SUFFICES ASSUME NEW n \in Nat, ReadyAt(r, p, n)', n # Len(chan[r][p]) + 1
                 PROVE  FALSE
        OBVIOUS
    <2>3. n \in 1 .. Len(chan[r][p]) /\ chan'[r][p][n] = chan[r][p][n]
        BY <2>1, <2>2, Appending DEF ReadyAt
    <2>4. ReadyAt(r, p, n)
        BY <2>3 DEF ReadyAt
    <2> QED BY <1>5, <2>4
<1>8. \A a, b \in Ranks, n \in Nat : (a # r \/ b # p) =>
         (ReadyAt(a, b, n)' <=> ReadyAt(a, b, n))
    BY <1>0, <1>6 DEF ReadyAt, TypeOK
<1>9. Heard(p, r)' < Sent(r, p)'
    BY <1>0, <1>1, <1>2, <1>3 DEF TypeOK
<1>10. OneReady'
    BY <1>0, <1>1, <1>2, <1>7, <1>8, <1>9 DEF OneReady
<1> QED BY <1>4, <1>10

(* A rank takes a message where a Ready is due: the only Ready of the socket, *)
(* or one that ends its session.                                             *)
LEMMA WaitStep ==
    ASSUME IInv, NEW r \in Ranks, NEW p, p = peer[r], Wait(r)
    PROVE  HeardWasSent' /\ OneReady'
<1>0. TypeOK /\ HeardWasSent /\ OneReady /\ TypeInv
    BY DEF IInv, TypeInv
<1>1. p \in Ranks /\ p # r /\ stage[r] = "ready" /\ ~Speaks(r)
    BY <1>0, ExchangerAssumption DEF Wait, Meeting, TypeOK, Ranks
<1>2. chan[p][r] # <<>> /\ chan' = [chan EXCEPT ![p][r] = Tail(chan[p][r])]
    BY DEF Wait
<1>3. /\ AddsNoReady
      /\ \A a, b \in Ranks, n \in Nat : (a # p \/ b # r) =>
            (ReadyAt(a, b, n)' <=> ReadyAt(a, b, n))
      /\ \A n \in Nat : ReadyAt(p, r, n)' => ReadyAt(p, r, n + 1)
    BY <1>0, <1>1, <1>2, TakenMessage
<1>4. CASE Head(chan[p][r]).kind # "ready"
    <2>1. UNCHANGED <<round, stage, peer, half>>
        BY <1>4 DEF Wait
    <2>2. SaysNothing /\ HearsNothing
        BY <2>1 DEF SaysNothing, HearsNothing, Sent, Heard
    <2> QED BY <1>0, <1>3, <2>2, QuietStep
<1>5. CASE Head(chan[p][r]).kind = "ready"
    <2>1. TurnOver(r) /\ stage' = stage /\ round' = round
        BY <1>5 DEF Wait
    <2>2. /\ \A a, b \in Ranks : (a # r \/ b # p) /\ a # b =>
                Sent(a, b)' = Sent(a, b) /\ Heard(a, b)' = Heard(a, b)
          /\ Heard(r, p) = round[r] /\ Heard(r, p)' = round[r] + 1
          /\ Sent(r, p)' = Sent(r, p)
        BY <1>0, <1>1, <2>1, TurnInReady
    <2>3. ReadyAt(p, r, 1)
        BY <1>0, <1>1, <1>2, <1>5, Taking DEF ReadyAt, TypeOK
    <2>4. Heard(r, p) < Sent(p, r) /\ Sent(p, r)' = Sent(p, r)
        BY <1>0, <1>1, <2>2, <2>3 DEF OneReady
    <2>5. Heard(r, p)' =< Sent(p, r)'
        <3>1. round[r] \in Nat /\ Sent(p, r) \in Nat
            BY <1>0, <1>1, SentIsEntered DEF TypeOK
        <3> QED BY <2>2, <2>4, <3>1
    <2>6. HeardWasSent'
        <3> SUFFICES ASSUME NEW a \in Ranks, NEW b \in Ranks, a # b
                     PROVE  Heard(b, a)' =< Sent(a, b)'
            BY DEF HeardWasSent
        <3>1. CASE a = p /\ b = r
            BY <2>5, <3>1
        <3>2. CASE a # p \/ b # r
            <4>1. Heard(b, a) =< Sent(a, b)
                BY <1>0 DEF HeardWasSent
            <4>2. Heard(b, a)' = Heard(b, a) /\ Sent(a, b)' = Sent(a, b)
                BY <1>1, <2>2, <3>2
            <4> QED BY <4>1, <4>2
        <3> QED BY <3>1, <3>2
    <2>7. \A n \in Nat : ~ReadyAt(p, r, n)'
        <3> SUFFICES ASSUME NEW n \in Nat, ReadyAt(p, r, n)' PROVE FALSE
            OBVIOUS
        <3>1. n + 1 \in Nat /\ n \in 1 .. Len(chan'[p][r]) /\ ReadyAt(p, r, n + 1)
            BY <1>3 DEF ReadyAt
        <3>2. n + 1 = 1
            BY <1>0, <1>1, <2>3, <3>1 DEF OneReady
        <3> QED BY <3>1, <3>2
    <2>8. OneReady'
        <3> SUFFICES ASSUME NEW a \in Ranks, NEW b \in Ranks, a # b,
                            NEW m \in Nat, NEW n \in Nat, ReadyAt(a, b, m)'
                     PROVE  Heard(b, a)' < Sent(a, b)' /\ (ReadyAt(a, b, n)' => m = n)
            BY Zenon DEF OneReady
        <3>1. a # p \/ b # r
            BY <2>7
        <3>2. ReadyAt(a, b, m) /\ (ReadyAt(a, b, n)' <=> ReadyAt(a, b, n))
            BY <1>3, <3>1
        <3>3. Heard(b, a)' = Heard(b, a) /\ Sent(a, b)' = Sent(a, b)
            BY <1>1, <2>2, <3>1
        <3> QED BY <1>0, <3>2, <3>3 DEF OneReady
    <2> QED BY <2>6, <2>8
<1> QED BY <1>4, <1>5

-------------------------------------------------------------------------------
(* The theorems.                                                             *)

LEMMA InvStep == IInv /\ [Next]_vars => IInv'
<1> SUFFICES ASSUME IInv, [Next]_vars PROVE IInv'
    OBVIOUS
<1>1. TypeInv' /\ HalfWay'
    BY TypeStep, HalfWayStep DEF IInv
<1>2. HeardWasSent /\ OneReady
    BY DEF IInv
<1>3. ASSUME NEW r \in Ranks, Step(r) PROVE HeardWasSent' /\ OneReady'
    <2>1. CASE Arrive(r)
        BY <2>1, ArriveStep
    <2>2. CASE Wait(r)
        BY <2>2, WaitStep
    <2>3. CASE ~Arrive(r) /\ ~Wait(r)
        <3>1. CASE SendPending(r) \/ TakePending(r)
            BY <1>2, <3>1, TradeSteps, QuietStep
        <3>2. CASE ~(SendPending(r) \/ TakePending(r))
            <4>1. Enter(r) \/ Skip(r) \/ TradeOver(r) \/ Leave(r) \/ Fail(r) \/ Broken(r)
                      \/ \E q \in Ranks : Queue(r, q)
                BY <1>3, <2>3, <3>2, Zenon DEF Step
            <4>2. SaysNothing /\ HearsNothing /\ AddsNoReady
                BY <4>1, StageSteps, Zenon
            <4> QED BY <1>2, <4>2, QuietStep
        <3> QED BY <3>1, <3>2
    <2> QED BY <2>1, <2>2, <2>3
<1>4. ASSUME UNCHANGED vars PROVE HeardWasSent' /\ OneReady'
    <2>1. UNCHANGED <<round, stage, peer, half, chan>>
        BY <1>4 DEF vars
    <2>2. SaysNothing /\ HearsNothing /\ AddsNoReady
        BY <2>1, SameSockets DEF SaysNothing, HearsNothing, Sent, Heard
    <2> QED BY <1>2, <2>2, QuietStep
<1>5. HeardWasSent' /\ OneReady'
    <2>1. (\E r \in Ranks : Step(r)) \/ UNCHANGED vars
        BY Zenon DEF Next, Terminating
    <2> QED BY <1>3, <1>4, <2>1, Zenon
<1> QED BY <1>1, <1>5 DEF IInv

(* The barrier's promise: no rank is back at its block from its k-th barrier *)
(* while another has yet to enter a k-th.                                    *)
THEOREM BarrierCorrect == Spec => []BarrierHolds
BY InvInit, InvStep, InvImpliesBarrier, PTL DEF Spec

-------------------------------------------------------------------------------
(* What is on a socket.  The turns of a pair that one rank speaks in are     *)
(* numbered: in the k-th interval its writes are turn 2k and its Ready turn  *)
(* 2k + 1 over a socket, and over a connection its Ready alone is turn k.    *)

Turn(over, m) ==
    IF over THEN 2 * m.interval + (IF m.kind = "ready" THEN 1 ELSE 0) ELSE m.interval

(* The messages of a socket whose reader has been through `heard` turns and   *)
(* whose writer through `spoken`: in the order of their turns, of the turns   *)
(* in between and no others, and each of those with the message that ends it. *)
Stream(q, over, heard, spoken) ==
    /\ heard =< spoken
    /\ \A n \in 1 .. Len(q) :
         /\ heard =< Turn(over, q[n])
         /\ Turn(over, q[n]) =< spoken
         /\ q[n].last => Turn(over, q[n]) < spoken
         /\ over \/ q[n].kind = "ready"
    /\ \A i, n \in 1 .. Len(q) : i < n =>
         /\ Turn(over, q[i]) =< Turn(over, q[n])
         /\ q[i].last => Turn(over, q[i]) < Turn(over, q[n])
    /\ \A t \in Nat : heard =< t /\ t < spoken =>
         \E n \in 1 .. Len(q) : q[n].last /\ Turn(over, q[n]) = t

LEMMA MessageFields ==
    ASSUME NEW m \in Message, NEW over \in BOOLEAN
    PROVE  /\ m.kind \in {"write", "ready"} /\ m.last \in BOOLEAN /\ m.interval \in Nat
           /\ m.kind = "ready" => m.last
           /\ Turn(over, m) \in Nat
<1>1. m.kind \in {"write", "ready"} /\ m.last \in BOOLEAN /\ m.interval \in Nat
    BY DEF Message
<1>2. m.kind = "ready" => m.last
    BY DEF Message
<1>3. Turn(over, m) \in Nat
    BY <1>1 DEF Turn
<1> QED BY <1>1, <1>2, <1>3

LEMMA EmptyStream ==
    ASSUME NEW over \in BOOLEAN, NEW turn \in Nat
    PROVE  Stream(<<>>, over, turn, turn)
BY DEF Stream

(* A message put at the end of a socket in the turn its writer is at. *)
LEMMA StreamAppend ==
    ASSUME NEW q \in Seq(Message), NEW m \in Message, NEW over \in BOOLEAN,
           NEW heard \in Nat, NEW spoken \in Nat,
           Stream(q, over, heard, spoken), Turn(over, m) = spoken, over \/ m.kind = "ready"
    PROVE  Stream(Append(q, m), over, heard, IF m.last THEN spoken + 1 ELSE spoken)
<1> DEFINE s == Append(q, m)
           k == Len(q)
           then == IF m.last THEN spoken + 1 ELSE spoken
<1>1. /\ Len(s) = k + 1 /\ k \in Nat /\ s[k + 1] = m
      /\ \A n \in 1 .. k : s[n] = q[n]
    BY Appending
<1>2. /\ m.last \in BOOLEAN
      /\ \A n \in 1 .. k : Turn(over, q[n]) \in Nat /\ q[n].last \in BOOLEAN
    <2>1. \A n \in 1 .. k : q[n] \in Message
        OBVIOUS
    <2> QED BY <2>1, MessageFields
<1>3. \A n \in 1 .. k + 1 : n \in 1 .. k \/ n = k + 1
    BY <1>1
<1> HIDE DEF s, k
<1>4. heard =< then
    BY <1>2 DEF Stream
<1>5. \A n \in 1 .. Len(s) :
         /\ heard =< Turn(over, s[n])
         /\ Turn(over, s[n]) =< then
         /\ s[n].last => Turn(over, s[n]) < then
         /\ over \/ s[n].kind = "ready"
    <2> SUFFICES ASSUME NEW n \in 1 .. k + 1
                 PROVE  /\ heard =< Turn(over, s[n])
                        /\ Turn(over, s[n]) =< then
                        /\ s[n].last => Turn(over, s[n]) < then
                        /\ over \/ s[n].kind = "ready"
        BY <1>1
    <2>1. CASE n \in 1 .. k
        BY <1>1, <1>2, <2>1 DEF Stream, k
    <2>2. CASE n = k + 1
        BY <1>1, <1>2, <2>2 DEF Stream
    <2> QED BY <1>3, <2>1, <2>2
<1>6. \A i, n \in 1 .. Len(s) : i < n =>
         /\ Turn(over, s[i]) =< Turn(over, s[n])
         /\ s[i].last => Turn(over, s[i]) < Turn(over, s[n])
    <2> SUFFICES ASSUME NEW i \in 1 .. k + 1, NEW n \in 1 .. k + 1, i < n
                 PROVE  /\ Turn(over, s[i]) =< Turn(over, s[n])
                        /\ s[i].last => Turn(over, s[i]) < Turn(over, s[n])
        BY <1>1
    <2>1. i \in 1 .. k /\ s[i] = q[i]
        BY <1>1, <1>3
    <2>2. CASE n \in 1 .. k
        BY <1>1, <2>1, <2>2 DEF Stream, k
    <2>3. CASE n = k + 1
        BY <1>1, <2>1, <2>3 DEF Stream, k
    <2> QED BY <1>3, <2>2, <2>3
<1>7. \A t \in Nat : heard =< t /\ t < then =>
         \E n \in 1 .. Len(s) : s[n].last /\ Turn(over, s[n]) = t
    <2> SUFFICES ASSUME NEW t \in Nat, heard =< t, t < then
                 PROVE  \E n \in 1 .. k + 1 : s[n].last /\ Turn(over, s[n]) = t
        BY <1>1
    <2>1. CASE t < spoken
        <3>1. PICK n \in 1 .. k : q[n].last /\ Turn(over, q[n]) = t
            BY <2>1 DEF Stream, k
        <3> QED BY <1>1, <3>1
    <2>2. CASE ~(t < spoken)
        <3>1. m.last /\ t = spoken
            BY <1>2, <2>2
        <3> QED BY <1>1, <3>1
    <2> QED BY <2>1, <2>2
<1>8. Stream(s, over, heard, then)
    BY <1>4, <1>5, <1>6, <1>7, Zenon DEF Stream
<1> QED BY <1>8 DEF s

(* The first message of a socket is of the turn its reader is at. *)
LEMMA HeadIsDue ==
    ASSUME NEW q \in Seq(Message), q # <<>>, NEW over \in BOOLEAN,
           NEW heard \in Nat, NEW spoken \in Nat, Stream(q, over, heard, spoken)
    PROVE  /\ Turn(over, Head(q)) = heard
           /\ Head(q).last => heard < spoken
           /\ over \/ Head(q).kind = "ready"
<1>1. Len(q) \in Nat \ {0} /\ Head(q) = q[1] /\ 1 \in 1 .. Len(q)
    BY Taking
<1>2. \A n \in 1 .. Len(q) : Turn(over, q[n]) \in Nat
    <2>1. \A n \in 1 .. Len(q) : q[n] \in Message
        OBVIOUS
    <2> QED BY <2>1, MessageFields
<1>3. Turn(over, q[1]) = heard
    <2> SUFFICES ASSUME heard < Turn(over, q[1]) PROVE FALSE
        BY <1>1, <1>2 DEF Stream
    <2>1. heard < spoken
        BY <1>1, <1>2 DEF Stream
    <2>2. PICK n \in 1 .. Len(q) : Turn(over, q[n]) = heard
        BY <2>1 DEF Stream
    <2>3. n # 1
        BY <1>2, <2>2
    <2>4. Turn(over, q[1]) =< Turn(over, q[n])
        BY <1>1, <2>3 DEF Stream
    <2> QED BY <1>1, <1>2, <2>2, <2>4
<1> QED BY <1>1, <1>3 DEF Stream

(* A message taken off a socket: the reader's turn is over if it was the last. *)
LEMMA StreamTake ==
    ASSUME NEW q \in Seq(Message), q # <<>>, NEW over \in BOOLEAN,
           NEW heard \in Nat, NEW spoken \in Nat, Stream(q, over, heard, spoken)
    PROVE  Stream(Tail(q), over, IF Head(q).last THEN heard + 1 ELSE heard, spoken)
<1> DEFINE s == Tail(q)
           k == Len(s)
           then == IF Head(q).last THEN heard + 1 ELSE heard
<1>1. /\ Len(q) = k + 1 /\ k \in Nat /\ Head(q) = q[1]
      /\ \A n \in 1 .. k : s[n] = q[n + 1] /\ n + 1 \in 1 .. Len(q)
      /\ 1 \in 1 .. Len(q)
    BY Taking
<1>2. \A n \in 1 .. Len(q) : Turn(over, q[n]) \in Nat /\ q[n].last \in BOOLEAN
    <2>1. \A n \in 1 .. Len(q) : q[n] \in Message
        OBVIOUS
    <2> QED BY <2>1, MessageFields
<1>3. Turn(over, q[1]) = heard /\ (q[1].last => heard < spoken)
    BY <1>1, HeadIsDue
<1>4. \A n \in 1 .. k : then =< Turn(over, s[n])
    <2> SUFFICES ASSUME NEW n \in 1 .. k PROVE then =< Turn(over, q[n + 1])
        BY <1>1
    <2>1. /\ Turn(over, q[1]) =< Turn(over, q[n + 1])
          /\ q[1].last => Turn(over, q[1]) < Turn(over, q[n + 1])
        BY <1>1 DEF Stream
    <2> QED BY <1>1, <1>2, <1>3, <2>1
<1>5. \A t \in Nat : then =< t /\ t < spoken =>
         \E n \in 1 .. k : s[n].last /\ Turn(over, s[n]) = t
    <2> SUFFICES ASSUME NEW t \in Nat, then =< t, t < spoken
                 PROVE  \E n \in 1 .. k : s[n].last /\ Turn(over, s[n]) = t
        OBVIOUS
    <2>1. heard =< t
        BY <1>1, <1>2
    <2>2. PICK n \in 1 .. Len(q) : q[n].last /\ Turn(over, q[n]) = t
        BY <2>1 DEF Stream
    <2>3. n # 1
        BY <1>1, <1>3, <2>2
    <2>4. n - 1 \in 1 .. k /\ s[n - 1] = q[n]
        BY <1>1, <2>3
    <2> QED BY <2>2, <2>4
<1>6. Stream(s, over, then, spoken)
    <2>1. then =< spoken
        BY <1>1, <1>2, <1>3 DEF Stream
    <2>2. \A n \in 1 .. k :
             /\ Turn(over, s[n]) =< spoken
             /\ s[n].last => Turn(over, s[n]) < spoken
             /\ over \/ s[n].kind = "ready"
        BY <1>1 DEF Stream
    <2>3. \A i, n \in 1 .. k : i < n =>
             /\ Turn(over, s[i]) =< Turn(over, s[n])
             /\ s[i].last => Turn(over, s[i]) < Turn(over, s[n])
        BY <1>1 DEF Stream
    <2> HIDE DEF s, then
    <2> QED BY <1>4, <1>5, <2>1, <2>2, <2>3, Zenon DEF Stream
<1> QED BY <1>6

-------------------------------------------------------------------------------
(* The turns of a pair that are over, of those that r speaks to p in or that  *)
(* it listens to p in: `first` says whether those come first at either stage. *)

Passed(r, p, first) == p < peer[r] \/ (p = peer[r] /\ first /\ half[r] = 2)

Turns(r, p, first) ==
    LET done == IF stage[r] # "work" /\ Passed(r, p, first) THEN 1 ELSE 0 IN
    IF OverSocket(r, p)
    THEN 2 * round[r] + (IF stage[r] = "ready" THEN 1 ELSE 0) + done
    ELSE round[r] + (IF stage[r] = "ready" THEN done ELSE 0)

(* What is on every socket is what its two ends say they did. *)
Places ==
    \A a, b \in Ranks : a # b =>
        Stream(chan[a][b], OverSocket(a, b), Turns(b, a, a < b), Turns(a, b, a < b))

(* A rank owes writes to a peer it has not yet come to in the trade. *)
Owes ==
    \A a, b \in Ranks : owed[a][b] > 0 =>
        a # b /\ OverSocket(a, b) /\ Turns(a, b, a < b) = 2 * round[a]

DeadForAReason == dead # {} => dead \cap Faulty # {}

PlaceInv == Places /\ Owes /\ DeadForAReason

TurnsStay(a, b) ==
    /\ Turns(a, b, a < b)' = Turns(a, b, a < b)
    /\ Turns(a, b, b < a)' = Turns(a, b, b < a)

(* The turn a rank is at with a peer. *)
Now(r, p) ==
    IF OverSocket(r, p) THEN 2 * round[r] + (IF stage[r] = "ready" THEN 1 ELSE 0) ELSE round[r]

LEMMA TurnsType ==
    ASSUME TypeOK, NEW r \in Ranks, NEW p \in Ranks
    PROVE  Turns(r, p, r < p) \in Nat /\ Turns(r, p, p < r) \in Nat /\ Now(r, p) \in Nat
<1>1. round[r] \in Nat
    BY DEF TypeOK
<1> QED BY <1>1 DEF Turns, Now

LEMMA PlacesInit == Init => PlaceInv
<1> SUFFICES ASSUME Init PROVE PlaceInv
    OBVIOUS
<1>1. \A a, b \in Ranks : Turns(a, b, a < b) = 0 /\ Turns(b, a, a < b) = 0
    BY DEF Init, Turns
<1>2. Places
    <2> SUFFICES ASSUME NEW a \in Ranks, NEW b \in Ranks, a # b
                 PROVE  Stream(chan[a][b], OverSocket(a, b), Turns(b, a, a < b),
                               Turns(a, b, a < b))
        BY DEF Places
    <2>1. chan[a][b] = <<>> /\ Turns(b, a, a < b) = 0 /\ Turns(a, b, a < b) = 0
        BY <1>1 DEF Init
    <2>2. OverSocket(a, b) \in BOOLEAN
        BY DEF OverSocket
    <2> QED BY <2>1, <2>2, EmptyStream
<1> QED BY <1>2 DEF Init, PlaceInv, Owes, DeadForAReason

(* The two ends of a pair have the same kind of way to each other. *)
LEMMA BothOverSocket ==
    ASSUME NEW a \in Ranks, NEW b \in Ranks
    PROVE  OverSocket(a, b) = OverSocket(b, a) /\ OverSocket(a, b) \in BOOLEAN
BY ExchangerAssumption DEF OverSocket

(* Where a rank stands with the peer its loop is at. *)
LEMMA TurnIsNow ==
    ASSUME TypeOK, NEW r \in Ranks, NEW p \in Ranks, p = peer[r], p # r,
           Trading(r) \/ Meeting(r)
    PROVE  /\ Speaks(r) => Turns(r, p, r < p) = Now(r, p)
           /\ ~Speaks(r) => Turns(r, p, p < r) = Now(r, p)
           /\ stage[r] \in {"trade", "ready"}
           /\ stage[r] = "trade" => OverSocket(r, p)
<1>1. stage[r] \in {"trade", "ready"} /\ (stage[r] = "trade" => OverSocket(r, p))
    BY DEF Trading, Meeting
<1>2. Speaks(r) => ~Passed(r, p, r < p)
    BY RanksType DEF Speaks, Passed, TypeOK
<1>3. ~Speaks(r) => ~Passed(r, p, p < r)
    BY RanksType DEF Speaks, Passed, TypeOK
<1>4. round[r] \in Nat
    BY DEF TypeOK
<1> QED BY <1>1, <1>2, <1>3, <1>4 DEF Turns, Now

(* The end of a turn is the end of that one alone. *)
LEMMA TurnOverTurns ==
    ASSUME TypeOK, NEW r \in Ranks, NEW p \in Ranks, p = peer[r], p # r,
           Trading(r) \/ Meeting(r), TurnOver(r), stage' = stage, round' = round
    PROVE  /\ \A a, b \in Ranks : a # b /\ (a # r \/ b # p) => TurnsStay(a, b)
           /\ Speaks(r) => /\ Turns(r, p, r < p)' = Turns(r, p, r < p) + 1
                           /\ Turns(r, p, p < r)' = Turns(r, p, p < r)
           /\ ~Speaks(r) => /\ Turns(r, p, p < r)' = Turns(r, p, p < r) + 1
                            /\ Turns(r, p, r < p)' = Turns(r, p, r < p)
<1> USE RanksType
<1>0. /\ stage[r] \in {"trade", "ready"} /\ (stage[r] = "trade" => OverSocket(r, p))
      /\ round[r] \in Nat /\ half[r] \in {1, 2} /\ peer[r] \in 0 .. N
    BY DEF Trading, Meeting, TypeOK
<1>1. \A a \in Ranks : a # r => half'[a] = half[a] /\ peer'[a] = peer[a]
    BY DEF TurnOver, TypeOK
<1>2. \A a, b \in Ranks : a # r => TurnsStay(a, b)
    BY <1>1 DEF TurnsStay, Turns, Passed, OverSocket
<1>3. /\ half[r] = 1 => half'[r] = 2 /\ peer'[r] = p
      /\ half[r] = 2 => half'[r] = 1 /\ peer'[r] = p + 1
    BY <1>0 DEF TurnOver, TypeOK
<1>4. ASSUME NEW b \in Ranks, b # r, b # p PROVE TurnsStay(r, b)
    <2>1. /\ Passed(r, b, r < b)' = Passed(r, b, r < b)
          /\ Passed(r, b, b < r)' = Passed(r, b, b < r)
        BY <1>0, <1>3, <1>4 DEF Passed
    <2> QED BY <1>0, <2>1 DEF TurnsStay, Turns, OverSocket
<1>5. /\ Speaks(r) => /\ ~Passed(r, p, r < p) /\ Passed(r, p, r < p)'
                      /\ Passed(r, p, p < r)' = Passed(r, p, p < r)
      /\ ~Speaks(r) => /\ ~Passed(r, p, p < r) /\ Passed(r, p, p < r)'
                       /\ Passed(r, p, r < p)' = Passed(r, p, r < p)
    BY <1>0, <1>3 DEF Passed, Speaks
<1>6. /\ Speaks(r) => /\ Turns(r, p, r < p)' = Turns(r, p, r < p) + 1
                      /\ Turns(r, p, p < r)' = Turns(r, p, p < r)
      /\ ~Speaks(r) => /\ Turns(r, p, p < r)' = Turns(r, p, p < r) + 1
                       /\ Turns(r, p, r < p)' = Turns(r, p, r < p)
    BY <1>0, <1>5 DEF Turns, OverSocket
<1> QED BY <1>2, <1>4, <1>6

(* A message goes on a socket in the turn its writer is at ... *)
LEMMA PlacesSpoken ==
    ASSUME TypeOK, Places, NEW r \in Ranks, NEW p \in Ranks, r # p, NEW m \in Message,
           chan' = [chan EXCEPT ![r][p] = Append(chan[r][p], m)],
           Turn(OverSocket(r, p), m) = Turns(r, p, r < p), OverSocket(r, p) \/ m.kind = "ready",
           \A a, b \in Ranks : a # b /\ (a # r \/ b # p) => TurnsStay(a, b),
           Turns(r, p, p < r)' = Turns(r, p, p < r),
           Turns(r, p, r < p)'
               = IF m.last THEN Turns(r, p, r < p) + 1 ELSE Turns(r, p, r < p)
    PROVE  Places'
<1> SUFFICES ASSUME NEW a \in Ranks, NEW b \in Ranks, a # b
             PROVE  Stream(chan'[a][b], OverSocket(a, b), Turns(b, a, a < b)',
                           Turns(a, b, a < b)')
    BY DEF Places, OverSocket
<1>1. Stream(chan[a][b], OverSocket(a, b), Turns(b, a, a < b), Turns(a, b, a < b))
    BY DEF Places
<1>2. CASE a = r /\ b = p
    <2>1. chan'[r][p] = Append(chan[r][p], m) /\ chan[r][p] \in Seq(Message)
        BY DEF TypeOK
    <2>2. Turns(p, r, r < p)' = Turns(p, r, r < p)
        BY DEF TurnsStay
    <2>3. Turns(p, r, r < p) \in Nat /\ Turns(r, p, r < p) \in Nat
        BY TurnsType
    <2>4. OverSocket(r, p) \in BOOLEAN
        BY BothOverSocket
    <2> QED BY <1>1, <1>2, <2>1, <2>2, <2>3, <2>4, StreamAppend
<1>3. CASE a = p /\ b = r
    <2>1. chan'[p][r] = chan[p][r] /\ Turns(p, r, p < r)' = Turns(p, r, p < r)
        BY DEF TurnsStay, TypeOK
    <2> QED BY <1>1, <1>3, <2>1
<1>4. CASE (a # r \/ b # p) /\ (a # p \/ b # r)
    <2>1. chan'[a][b] = chan[a][b] /\ TurnsStay(a, b) /\ TurnsStay(b, a)
        BY <1>4 DEF TypeOK
    <2> QED BY <1>1, <2>1 DEF TurnsStay
<1> QED BY <1>2, <1>3, <1>4

(* ... and is taken off it in the turn its reader is at. *)
LEMMA PlacesHeard ==
    ASSUME TypeOK, Places, NEW r \in Ranks, NEW p \in Ranks, r # p, chan[p][r] # <<>>,
           NEW m, m = Head(chan[p][r]), chan' = [chan EXCEPT ![p][r] = Tail(chan[p][r])],
           \A a, b \in Ranks : a # b /\ (a # r \/ b # p) => TurnsStay(a, b),
           Turns(r, p, r < p)' = Turns(r, p, r < p),
           Turns(r, p, p < r)' = IF m.last THEN Turns(r, p, p < r) + 1 ELSE Turns(r, p, p < r)
    PROVE  Places'
<1> SUFFICES ASSUME NEW a \in Ranks, NEW b \in Ranks, a # b
             PROVE  Stream(chan'[a][b], OverSocket(a, b), Turns(b, a, a < b)',
                           Turns(a, b, a < b)')
    BY DEF Places, OverSocket
<1>1. Stream(chan[a][b], OverSocket(a, b), Turns(b, a, a < b), Turns(a, b, a < b))
    BY DEF Places
<1>2. CASE a = p /\ b = r
    <2>1. chan'[p][r] = Tail(chan[p][r]) /\ chan[p][r] \in Seq(Message)
        BY DEF TypeOK
    <2>2. Turns(p, r, p < r)' = Turns(p, r, p < r)
        BY DEF TurnsStay
    <2>3. Turns(r, p, p < r) \in Nat /\ Turns(p, r, p < r) \in Nat
        BY TurnsType
    <2>4. OverSocket(p, r) \in BOOLEAN
        BY BothOverSocket
    <2> QED BY <1>1, <1>2, <2>1, <2>2, <2>3, <2>4, StreamTake
<1>3. CASE a = r /\ b = p
    <2>1. chan'[r][p] = chan[r][p] /\ Turns(p, r, r < p)' = Turns(p, r, r < p)
        BY DEF TurnsStay, TypeOK
    <2> QED BY <1>1, <1>3, <2>1
<1>4. CASE (a # r \/ b # p) /\ (a # p \/ b # r)
    <2>1. chan'[a][b] = chan[a][b] /\ TurnsStay(a, b) /\ TurnsStay(b, a)
        BY <1>4 DEF TypeOK
    <2> QED BY <1>1, <2>1 DEF TurnsStay
<1> QED BY <1>2, <1>3, <1>4

(* What a rank that listens finds first is what it waits for. *)
LEMMA HeadOfPeer ==
    ASSUME TypeOK, Places, NEW r \in Ranks, NEW p \in Ranks, p = peer[r], p # r,
           Trading(r) \/ Meeting(r), ~Speaks(r), chan[p][r] # <<>>
    PROVE  /\ Head(chan[p][r]).kind = IF stage[r] = "trade" THEN "write" ELSE "ready"
           /\ Head(chan[p][r]).kind = "ready" => Head(chan[p][r]).last
<1> DEFINE m == Head(chan[p][r])
<1>1. chan[p][r] \in Seq(Message) /\ m \in Message
    BY Taking DEF TypeOK
<1>2. Stream(chan[p][r], OverSocket(p, r), Turns(r, p, p < r), Turns(p, r, p < r))
    BY DEF Places
<1>3. Turns(r, p, p < r) \in Nat /\ Turns(p, r, p < r) \in Nat /\ OverSocket(p, r) \in BOOLEAN
    BY TurnsType, BothOverSocket
<1>4. Turn(OverSocket(p, r), m) = Turns(r, p, p < r) /\ (OverSocket(p, r) \/ m.kind = "ready")
    BY <1>1, <1>2, <1>3, HeadIsDue
<1>5. /\ Turns(r, p, p < r) = Now(r, p) /\ stage[r] \in {"trade", "ready"}
      /\ stage[r] = "trade" => OverSocket(r, p)
    BY TurnIsNow
<1>6. OverSocket(p, r) = OverSocket(r, p)
    BY BothOverSocket
<1>7. /\ m.kind \in {"write", "ready"} /\ m.interval \in Nat /\ round[r] \in Nat
      /\ m.kind = "ready" => m.last
    BY <1>1, <1>3, MessageFields DEF TypeOK
<1> HIDE DEF m
<1>8. CASE OverSocket(r, p)
    <2>1. 2 * m.interval + (IF m.kind = "ready" THEN 1 ELSE 0)
              = 2 * round[r] + (IF stage[r] = "ready" THEN 1 ELSE 0)
        <3>1. Turn(OverSocket(p, r), m)
                  = 2 * m.interval + (IF m.kind = "ready" THEN 1 ELSE 0)
            BY <1>6, <1>8 DEF Turn
        <3>2. Now(r, p) = 2 * round[r] + (IF stage[r] = "ready" THEN 1 ELSE 0)
            BY <1>8 DEF Now
        <3> QED BY <1>4, <1>5, <3>1, <3>2
    <2>2. \A i, k \in Nat : 2 * i # 2 * k + 1
        OBVIOUS
    <2>3. stage[r] = "ready" <=> m.kind = "ready"
        BY <1>7, <2>1, <2>2
    <2> QED BY <1>5, <1>7, <2>3 DEF m
<1>9. CASE ~OverSocket(r, p)
    BY <1>4, <1>5, <1>6, <1>7, <1>9 DEF m
<1> QED BY <1>8, <1>9

-------------------------------------------------------------------------------
(* Every action, for the turns it ends.                                      *)

LEMMA PlacesQuiet ==
    ASSUME Places, chan' = chan, \A a, b \in Ranks : a # b => TurnsStay(a, b)
    PROVE  Places'
<1> SUFFICES ASSUME NEW a \in Ranks, NEW b \in Ranks, a # b
             PROVE  Stream(chan'[a][b], OverSocket(a, b), Turns(b, a, a < b)',
                           Turns(a, b, a < b)')
    BY DEF Places, OverSocket
<1>1. TurnsStay(a, b) /\ TurnsStay(b, a)
    OBVIOUS
<1> QED BY <1>1 DEF Places, TurnsStay

LEMMA OwesQuiet ==
    ASSUME Owes, owed' = owed, round' = round,
           \A a, b \in Ranks : a # b => TurnsStay(a, b)
    PROVE  Owes'
BY DEF Owes, TurnsStay, OverSocket

LEMMA SendPendingPlaces ==
    ASSUME TypeOK, Places, Owes, NEW r \in Ranks, NEW p, p = peer[r], SendPending(r)
    PROVE  Places' /\ Owes'
<1>1. /\ p \in Ranks /\ p # r /\ OverSocket(r, p) /\ stage[r] = "trade" /\ Trading(r)
      /\ Speaks(r) /\ stage' = stage /\ round' = round
    BY RanksType DEF SendPending, Trading, TypeOK, Ranks
<1>2. round[r] \in Nat /\ owed[r][p] \in Nat /\ chan[r][p] \in Seq(Message)
    BY <1>1, ExchangerAssumption DEF TypeOK
<1>3. Turns(r, p, r < p) = 2 * round[r]
    BY <1>1, <1>2, TurnIsNow DEF Now
<1>4. PICK last \in BOOLEAN :
          /\ last <=> owed[r][p] =< 1
          /\ chan' = [chan EXCEPT ![r][p] = Append(chan[r][p], Write(last, round[r]))]
    <2>1. (owed[r][p] =< 1) \in BOOLEAN
        OBVIOUS
    <2>2. chan' = [chan EXCEPT ![r][peer[r]] =
                       Append(chan[r][peer[r]], Write(owed[r][peer[r]] =< 1, round[r]))]
        BY Zenon DEF SendPending
    <2> QED BY <2>1, <2>2, Zenon
<1> DEFINE m == Write(last, round[r])
<1>5. m \in Message /\ m.kind = "write" /\ m.interval = round[r] /\ m.last = last
    BY <1>2, MessageType DEF Write
<1>6. Turn(OverSocket(r, p), m) = Turns(r, p, r < p)
    BY <1>1, <1>2, <1>3, <1>5 DEF Turn
<1>7. /\ \A a, b \in Ranks : a # b /\ (a # r \/ b # p) => TurnsStay(a, b)
      /\ Turns(r, p, p < r)' = Turns(r, p, p < r)
      /\ Turns(r, p, r < p)' = IF last THEN Turns(r, p, r < p) + 1 ELSE Turns(r, p, r < p)
    <2>1. CASE last
        <3>1. TurnOver(r)
            BY <1>4, <2>1 DEF SendPending
        <3> QED BY <1>1, <2>1, <3>1, TurnOverTurns
    <2>2. CASE ~last
        <3>1. UNCHANGED <<half, peer>>
            BY <1>4, <2>2 DEF SendPending
        <3> QED BY <1>1, <2>2, <3>1 DEF TurnsStay, Turns, Passed, OverSocket
    <2> QED BY <2>1, <2>2
<1> HIDE DEF m
<1>8. Places'
    <2>1. chan' = [chan EXCEPT ![r][p] = Append(chan[r][p], m)]
        BY <1>4 DEF m
    <2>2. Turns(r, p, r < p)' = IF m.last THEN Turns(r, p, r < p) + 1 ELSE Turns(r, p, r < p)
        BY <1>5, <1>7
    <2> QED BY <1>1, <1>5, <1>6, <1>7, <2>1, <2>2, PlacesSpoken
<1>9. Owes'
    <2>1. owed' = [owed EXCEPT ![r][p] = IF owed[r][p] > 0 THEN owed[r][p] - 1 ELSE 0]
        BY DEF SendPending
    <2> SUFFICES ASSUME NEW a \in Ranks, NEW b \in Ranks, owed'[a][b] > 0
                 PROVE  a # b /\ OverSocket(a, b) /\ Turns(a, b, a < b)' = 2 * round'[a]
        BY DEF Owes, OverSocket
    <2>2. CASE a = r /\ b = p
        <3>1. owed'[r][p] = IF owed[r][p] > 0 THEN owed[r][p] - 1 ELSE 0
            BY <1>1, <2>1 DEF TypeOK
        <3>2. ~last
            BY <1>2, <1>4, <2>2, <3>1
        <3> QED BY <1>1, <1>3, <1>7, <2>2, <3>2
    <2>3. CASE a # r \/ b # p
        <3>1. owed'[a][b] = owed[a][b]
            BY <2>1, <2>3 DEF TypeOK
        <3>2. a # b /\ OverSocket(a, b) /\ Turns(a, b, a < b) = 2 * round[a]
            BY <3>1 DEF Owes
        <3> QED BY <1>1, <1>7, <2>3, <3>2 DEF TurnsStay
    <2> QED BY <2>2, <2>3
<1> QED BY <1>8, <1>9

LEMMA ArrivePlaces ==
    ASSUME TypeOK, Places, Owes, NEW r \in Ranks, NEW p, p = peer[r], Arrive(r)
    PROVE  Places' /\ Owes'
<1>1. /\ p \in Ranks /\ p # r /\ stage[r] = "ready" /\ Meeting(r)
      /\ Speaks(r) /\ stage' = stage /\ round' = round /\ owed' = owed /\ TurnOver(r)
      /\ round[r] \in Nat
    BY RanksType DEF Arrive, Meeting, TypeOK, Ranks
<1> DEFINE m == Ready(round[r])
<1>2. m \in Message /\ m.kind = "ready" /\ m.interval = round[r] /\ m.last
    BY <1>1, MessageType DEF Ready
<1>3. Turns(r, p, r < p) = Now(r, p)
    BY <1>1, TurnIsNow
<1>4. Turn(OverSocket(r, p), m) = Turns(r, p, r < p)
    BY <1>1, <1>2, <1>3 DEF Turn, Now
<1>5. /\ \A a, b \in Ranks : a # b /\ (a # r \/ b # p) => TurnsStay(a, b)
      /\ Turns(r, p, p < r)' = Turns(r, p, p < r)
      /\ Turns(r, p, r < p)' = Turns(r, p, r < p) + 1
    BY <1>1, TurnOverTurns
<1>6. chan' = [chan EXCEPT ![r][p] = Append(chan[r][p], m)]
    BY DEF Arrive
<1> HIDE DEF m
<1>7. Places'
    BY <1>1, <1>2, <1>4, <1>5, <1>6, PlacesSpoken
<1>8. Owes'
    <2> SUFFICES ASSUME NEW a \in Ranks, NEW b \in Ranks, owed[a][b] > 0
                 PROVE  a # b /\ OverSocket(a, b) /\ Turns(a, b, a < b)' = 2 * round[a]
        BY <1>1 DEF Owes, OverSocket
    <2>1. a # b /\ OverSocket(a, b) /\ Turns(a, b, a < b) = 2 * round[a]
        BY DEF Owes
    <2>2. a # r \/ b # p
        BY <1>1, <1>3, <2>1 DEF Now
    <2> QED BY <1>5, <2>1, <2>2 DEF TurnsStay
<1> QED BY <1>7, <1>8

LEMMA ListenPlaces ==
    ASSUME TypeOK, Places, Owes, DeadForAReason,
           NEW r \in Ranks, NEW p, p = peer[r], TakePending(r) \/ Wait(r)
    PROVE  PlaceInv'
<1>1. /\ p \in Ranks /\ p # r /\ (Trading(r) \/ Meeting(r)) /\ ~Speaks(r)
      /\ chan[p][r] # <<>> /\ chan' = [chan EXCEPT ![p][r] = Tail(chan[p][r])]
      /\ stage' = stage /\ round' = round /\ owed' = owed
    <2>1. /\ Trading(r) \/ Meeting(r)
          /\ ~Speaks(r) /\ chan[peer[r]][r] # <<>>
          /\ chan' = [chan EXCEPT ![peer[r]][r] = Tail(chan[peer[r]][r])]
          /\ UNCHANGED <<round, stage, owed>>
        BY Zenon DEF TakePending, Wait
    <2>2. p \in Ranks /\ p # r
        BY <2>1, RanksType DEF Trading, Meeting, TypeOK, Ranks
    <2> QED BY <2>1, <2>2, Zenon
<1> DEFINE m == Head(chan[p][r])
<1>2. /\ m.kind = IF stage[r] = "trade" THEN "write" ELSE "ready"
      /\ m.kind = "ready" => m.last
    BY <1>1, HeadOfPeer
<1>3. dead' = dead /\ IF m.last THEN TurnOver(r) ELSE UNCHANGED <<half, peer>>
    <2>1. CASE TakePending(r)
        BY <1>2, <2>1 DEF TakePending, Trading
    <2>2. CASE Wait(r)
        BY <1>2, <2>2 DEF Wait, Meeting
    <2> QED BY <2>1, <2>2
<1>4. /\ \A a, b \in Ranks : a # b /\ (a # r \/ b # p) => TurnsStay(a, b)
      /\ Turns(r, p, r < p)' = Turns(r, p, r < p)
      /\ Turns(r, p, p < r)' = IF m.last THEN Turns(r, p, p < r) + 1 ELSE Turns(r, p, p < r)
    <2>1. CASE m.last
        BY <1>1, <1>3, <2>1, TurnOverTurns
    <2>2. CASE ~m.last
        BY <1>1, <1>3, <2>2 DEF TurnsStay, Turns, Passed, OverSocket
    <2> QED BY <2>1, <2>2
<1> HIDE DEF m
<1>5. Places'
    <2>1. m = Head(chan[p][r])
        BY DEF m
    <2>2. /\ r # p /\ p \in Ranks /\ chan[p][r] # <<>>
          /\ chan' = [chan EXCEPT ![p][r] = Tail(chan[p][r])]
          /\ Turns(r, p, r < p)' = Turns(r, p, r < p)
          /\ \A a, b \in Ranks : a # b /\ (a # r \/ b # p) => TurnsStay(a, b)
        BY <1>1, <1>4, Zenon
    <2> QED BY <1>4, <2>1, <2>2, PlacesHeard
<1>6. \A a, b \in Ranks : a # b => Turns(a, b, a < b)' = Turns(a, b, a < b)
    BY <1>4 DEF TurnsStay
<1> QED BY <1>1, <1>3, <1>5, <1>6 DEF PlaceInv, Owes, DeadForAReason, OverSocket

(* The actions that leave the sockets alone end no turn. *)
LEMMA StageTurns ==
    ASSUME TypeOK, HalfWay, NEW r \in Ranks,
           Enter(r) \/ Skip(r) \/ TradeOver(r) \/ Leave(r) \/ Fail(r) \/ Broken(r)
               \/ \E p \in Ranks : Queue(r, p)
    PROVE  \A a, b \in Ranks : a # b => TurnsStay(a, b)
<1> USE RanksType
<1>1. ASSUME stage' = stage, round' = round, half' = half, peer' = peer
      PROVE  \A a, b \in Ranks : a # b => TurnsStay(a, b)
    BY <1>1 DEF TurnsStay, Turns, Passed, OverSocket
<1>2. CASE Fail(r) \/ Broken(r) \/ \E p \in Ranks : Queue(r, p)
    BY <1>1, <1>2 DEF Fail, Broken, Queue
<1>3. ASSUME \A a \in Ranks : a # r => /\ stage'[a] = stage[a] /\ round'[a] = round[a]
                                       /\ half'[a] = half[a] /\ peer'[a] = peer[a],
             \A b \in Ranks : b # r => TurnsStay(r, b)
      PROVE  \A a, b \in Ranks : a # b => TurnsStay(a, b)
    BY <1>3 DEF TurnsStay, Turns, Passed, OverSocket
<1>4. CASE Enter(r)
    <2>1. \A a \in Ranks : a # r => /\ stage'[a] = stage[a] /\ round'[a] = round[a]
                                    /\ half'[a] = half[a] /\ peer'[a] = peer[a]
        BY <1>4 DEF Enter, TypeOK
    <2>2. /\ stage[r] = "work" /\ stage'[r] = "trade" /\ half'[r] = 1 /\ peer'[r] = 0
          /\ round'[r] = round[r]
        BY <1>4 DEF Enter, TypeOK
    <2>3. \A b \in Ranks : b # r => TurnsStay(r, b)
        BY <2>2 DEF TurnsStay, Turns, Passed, OverSocket
    <2> QED BY <1>3, <2>1, <2>3
<1>5. CASE Skip(r)
    <2>1. \A a \in Ranks : a # r => /\ stage'[a] = stage[a] /\ round'[a] = round[a]
                                    /\ half'[a] = half[a] /\ peer'[a] = peer[a]
        BY <1>5 DEF Skip, TypeOK
    <2>2. /\ stage'[r] = stage[r] /\ half[r] = 1 /\ half'[r] = 1 /\ peer'[r] = peer[r] + 1
          /\ round'[r] = round[r] /\ peer[r] \in Nat
          /\ peer[r] = r \/ (stage[r] = "trade" /\ ~OverSocket(r, peer[r]))
        BY <1>5 DEF Skip, TypeOK, HalfWay
    <2>3. ASSUME NEW b \in Ranks, b # r PROVE TurnsStay(r, b)
        <3>1. CASE b = peer[r]
            BY <2>2, <2>3, <3>1 DEF TurnsStay, Turns, OverSocket
        <3>2. CASE b # peer[r]
            <4>1. /\ Passed(r, b, r < b)' = Passed(r, b, r < b)
                  /\ Passed(r, b, b < r)' = Passed(r, b, b < r)
                BY <2>2, <3>2 DEF Passed
            <4> QED BY <2>2, <4>1 DEF TurnsStay, Turns, OverSocket
        <3> QED BY <3>1, <3>2
    <2> QED BY <1>3, <2>1, <2>3
<1>6. CASE TradeOver(r)
    <2>1. \A a \in Ranks : a # r => /\ stage'[a] = stage[a] /\ round'[a] = round[a]
                                    /\ half'[a] = half[a] /\ peer'[a] = peer[a]
        BY <1>6 DEF TradeOver, TypeOK
    <2>2. /\ stage[r] = "trade" /\ stage'[r] = "ready" /\ half[r] = 1 /\ half'[r] = 1
          /\ peer[r] = N /\ peer'[r] = 0 /\ round'[r] = round[r] /\ round[r] \in Nat
        BY <1>6 DEF TradeOver, TypeOK, HalfWay
    <2>3. \A b \in Ranks : b # r => TurnsStay(r, b)
        BY <2>2 DEF TurnsStay, Turns, Passed, OverSocket
    <2> QED BY <1>3, <2>1, <2>3
<1>7. CASE Leave(r)
    <2>1. \A a \in Ranks : a # r => /\ stage'[a] = stage[a] /\ round'[a] = round[a]
                                    /\ half'[a] = half[a] /\ peer'[a] = peer[a]
        BY <1>7 DEF Leave, TypeOK
    <2>2. /\ stage[r] = "ready" /\ stage'[r] = "work" /\ peer[r] = N /\ peer'[r] = 0
          /\ round'[r] = round[r] + 1 /\ round[r] \in Nat
        BY <1>7 DEF Leave, TypeOK
    <2>3. \A b \in Ranks : b # r => TurnsStay(r, b)
        BY <2>2 DEF TurnsStay, Turns, Passed, OverSocket
    <2> QED BY <1>3, <2>1, <2>3
<1> QED BY <1>2, <1>4, <1>5, <1>6, <1>7

LEMMA PlaceStep == IInv /\ PlaceInv /\ [Next]_vars => PlaceInv'
<1> SUFFICES ASSUME IInv, PlaceInv, [Next]_vars PROVE PlaceInv'
    OBVIOUS
<1>0. TypeOK /\ HalfWay /\ Places /\ Owes /\ DeadForAReason
    BY DEF IInv, TypeInv, PlaceInv
<1>1. ASSUME NEW r \in Ranks, SendPending(r) PROVE PlaceInv'
    <2>1. Places' /\ Owes'
        BY <1>0, <1>1, SendPendingPlaces
    <2> QED BY <1>0, <1>1, <2>1 DEF SendPending, PlaceInv, DeadForAReason
<1>2. ASSUME NEW r \in Ranks, Arrive(r) PROVE PlaceInv'
    <2>1. Places' /\ Owes'
        BY <1>0, <1>2, ArrivePlaces
    <2> QED BY <1>0, <1>2, <2>1 DEF Arrive, PlaceInv, DeadForAReason
<1>3. ASSUME NEW r \in Ranks, TakePending(r) \/ Wait(r) PROVE PlaceInv'
    BY <1>0, <1>3, ListenPlaces
<1>4. ASSUME NEW r \in Ranks,
             Enter(r) \/ Skip(r) \/ TradeOver(r) \/ Leave(r) \/ Fail(r) \/ Broken(r)
                 \/ \E p \in Ranks : Queue(r, p)
      PROVE  PlaceInv'
    <2>1. \A a, b \in Ranks : a # b => TurnsStay(a, b)
        BY <1>0, <1>4, StageTurns, Zenon
    <2>2. Places'
        BY <1>0, <1>4, <2>1, PlacesQuiet DEF Enter, Skip, TradeOver, Leave, Fail, Broken, Queue
    <2>3. CASE Enter(r) \/ Skip(r) \/ TradeOver(r)
        BY <1>0, <2>1, <2>2, <2>3, OwesQuiet
        DEF Enter, Skip, TradeOver, PlaceInv, DeadForAReason
    <2>4. CASE Fail(r) \/ Broken(r)
        <3>1. Owes'
            BY <1>0, <2>1, <2>4, OwesQuiet DEF Fail, Broken
        <3>2. DeadForAReason'
            BY <1>0, <2>4 DEF Fail, Broken, DeadForAReason
        <3> QED BY <2>2, <3>1, <3>2 DEF PlaceInv
    <2>5. CASE Leave(r)
        <3>1. /\ owed' = owed /\ dead' = dead /\ stage[r] = "ready" /\ round[r] \in Nat
              /\ \A a \in Ranks : a # r => round'[a] = round[a]
            BY <1>0, <2>5 DEF Leave, TypeOK
        <3>3. \A b \in Ranks : ~(owed[r][b] > 0)
            <4> SUFFICES ASSUME NEW b \in Ranks, owed[r][b] > 0 PROVE FALSE
                OBVIOUS
            <4>1. OverSocket(r, b) /\ Turns(r, b, r < b) = 2 * round[r]
                BY <1>0 DEF Owes
            <4> QED BY <3>1, <4>1 DEF Turns
        <3>4. Owes'
            BY <1>0, <2>1, <3>1, <3>3 DEF Owes, TurnsStay, OverSocket
        <3> QED BY <1>0, <2>2, <3>1, <3>4 DEF PlaceInv, DeadForAReason
    <2>6. ASSUME NEW p \in Ranks, Queue(r, p) PROVE PlaceInv'
        <3>1. /\ stage[r] = "work" /\ p # r /\ OverSocket(r, p) /\ round' = round
              /\ dead' = dead /\ round[r] \in Nat
              /\ \A a, b \in Ranks : (a # r \/ b # p) => owed'[a][b] = owed[a][b]
            BY <1>0, <2>6 DEF Queue, TypeOK
        <3>2. Turns(r, p, r < p)' = 2 * round[r]
            BY <2>1, <3>1 DEF TurnsStay, Turns
        <3>3. Owes'
            BY <1>0, <2>1, <3>1, <3>2 DEF Owes, TurnsStay, OverSocket
        <3> QED BY <1>0, <2>2, <3>1, <3>3 DEF PlaceInv, DeadForAReason
    <2> QED BY <1>4, <2>3, <2>4, <2>5, <2>6
<1>5. ASSUME UNCHANGED vars PROVE PlaceInv'
    <2>1. UNCHANGED <<round, stage, peer, half, owed, chan, dead>>
        BY <1>5 DEF vars
    <2>2. \A a, b \in Ranks : a # b => TurnsStay(a, b)
        BY <2>1 DEF TurnsStay, Turns, Passed, OverSocket
    <2> QED BY <1>0, <2>1, <2>2, PlacesQuiet, OwesQuiet DEF PlaceInv, DeadForAReason
<1>6. (\E r \in Ranks : Step(r)) \/ UNCHANGED vars
    BY Zenon DEF Next, Terminating
<1> QED BY <1>1, <1>2, <1>3, <1>4, <1>5, <1>6, Zenon DEF Step

(* A rank back at its block has listened to all that was said before.        *)
LEMMA PlacesImplyNothing == IInv /\ PlaceInv => NothingOutstanding
<1> SUFFICES ASSUME IInv, PlaceInv PROVE NothingOutstanding
    OBVIOUS
<1>0. TypeInv /\ TypeOK /\ Places /\ Owes /\ DeadForAReason /\ BarrierHolds
    BY InvImpliesBarrier DEF IInv, TypeInv, PlaceInv
<1>1. ASSUME NEW r \in Ranks, NEW p \in Ranks, stage[r] = "work", r # p
      PROVE  /\ \A n \in 1 .. Len(chan[p][r]) : chan[p][r][n].interval >= round[r]
             /\ owed[p][r] > 0 => round[p] >= round[r]
    <2>1. /\ round[r] \in Nat /\ round[p] \in Nat /\ chan[p][r] \in Seq(Message)
          /\ OverSocket(p, r) = OverSocket(r, p)
        BY <1>0, BothOverSocket DEF TypeOK
    <2>2. Turns(r, p, p < r) = IF OverSocket(r, p) THEN 2 * round[r] ELSE round[r]
        BY <1>1, <2>1 DEF Turns
    <2>3. ASSUME NEW n \in 1 .. Len(chan[p][r]) PROVE chan[p][r][n].interval >= round[r]
        <3> DEFINE m == chan[p][r][n]
        <3>1. m \in Message
            BY <2>1
        <3>2. m.interval \in Nat /\ m.kind \in {"write", "ready"}
            BY <3>1, MessageFields
        <3>3. Turns(r, p, p < r) =< Turn(OverSocket(p, r), m)
            BY <1>0, <1>1, <2>3 DEF Places, Stream
        <3> HIDE DEF m
        <3>4. m.interval >= round[r]
            BY <2>1, <2>2, <3>2, <3>3 DEF Turn
        <3> QED BY <3>4 DEF m
    <2>4. ASSUME owed[p][r] > 0 PROVE round[p] >= round[r]
        <3>1. OverSocket(p, r) /\ Turns(p, r, p < r) = 2 * round[p]
            BY <1>0, <2>4 DEF Owes
        <3>2. Turns(r, p, p < r) =< Turns(p, r, p < r)
            BY <1>0, <1>1 DEF Places, Stream
        <3> QED BY <2>1, <2>2, <3>1, <3>2
    <2> QED BY <2>3, <2>4
<1> QED BY <1>0, <1>1 DEF NothingOutstanding, DeadForAReason

(* `exchange_pending` and `barrier` keep the two ends of every pair in step: *)
(* a rank back at its block has all that was written for it, and a session   *)
(* ends in an error only because some share failed, never because a rank     *)
(* read a write where a Ready was due or the reverse.                        *)
THEOREM NothingLeftOnSockets == Spec => []NothingOutstanding
BY InvInit, InvStep, PlacesInit, PlaceStep, PlacesImplyNothing, PTL DEF Spec

-------------------------------------------------------------------------------
(* The barrier over sockets implements StepBarrier.                          *)

LEMMA AbstractInit == Init => Abstract!Init
BY DEF Init, Entered, Abstract!Init

(* Only entering and leaving a barrier moves the abstract state. *)
LEMMA AbstractStutter ==
    ASSUME UNCHANGED <<round, stage>>
    PROVE  UNCHANGED Abstract!vars
<1>1. \A q \in Ranks : Entered(q)' = Entered(q)
    BY DEF Entered
<1> QED BY <1>1 DEF Abstract!vars

LEMMA AbstractEnter ==
    ASSUME TypeInv, NEW r \in Ranks, Enter(r)
    PROVE  Abstract!Enter(r)
<1>1. Entered(r) = round[r] /\ Entered(r)' = round[r] + 1 /\ round[r] < Rounds
    BY DEF Enter, Entered, TypeInv, TypeOK
<1>2. \A q \in Ranks : q # r => Entered(q)' = Entered(q)
    BY DEF Enter, Entered, TypeInv, TypeOK
<1>3. [q \in Ranks |-> Entered(q)]'
          = [[q \in Ranks |-> Entered(q)] EXCEPT ![r] = Entered(r) + 1]
    BY <1>1, <1>2
<1>4. round' = round
    BY DEF Enter
<1> QED BY <1>1, <1>3, <1>4 DEF Abstract!Enter

(* Past its last peer, a rank has heard every other rank inside the barrier. *)
LEMMA AbstractLeave ==
    ASSUME IInv, NEW r \in Ranks, Leave(r)
    PROVE  Abstract!Leave(r)
<1>0. TypeInv /\ TypeOK
    BY DEF IInv, TypeInv
<1>1. /\ stage[r] = "ready" /\ peer[r] = N /\ round[r] \in Nat
      /\ stage'[r] = "work" /\ round'[r] = round[r] + 1
    BY <1>0 DEF Leave, TypeOK
<1>2. Entered(r) = round[r] + 1 /\ Entered(r)' = Entered(r)
    BY <1>1 DEF Entered
<1>3. \A q \in Ranks : q # r => Entered(q)' = Entered(q)
    BY <1>0 DEF Leave, Entered, TypeOK
<1>4. \A q \in Ranks : Entered(q) >= Entered(r)
    <2> SUFFICES ASSUME NEW q \in Ranks, q # r PROVE Entered(q) >= Entered(r)
        BY <1>1, <1>2
    <2>1. Heard(r, q) = round[r] + 1
        BY <1>1, RanksType DEF Heard
    <2>2. Heard(r, q) =< Sent(q, r)
        BY DEF IInv, HeardWasSent
    <2>3. Sent(q, r) =< Entered(q) /\ Sent(q, r) \in Nat /\ Entered(q) \in Nat
        BY <1>0, SentIsEntered
    <2> QED BY <1>1, <1>2, <2>1, <2>2, <2>3
<1>5. round' = [round EXCEPT ![r] = Entered(r)]
    BY <1>1, <1>2 DEF Leave
<1>6. [q \in Ranks |-> Entered(q)]' = [q \in Ranks |-> Entered(q)]
    BY <1>2, <1>3
<1> DEFINE e == [q \in Ranks |-> Entered(q)]
<1>7. \A q \in Ranks : e[q] = Entered(q)
    OBVIOUS
<1>8. e' = e
    BY <1>6
<1> HIDE DEF e
<1>9. round[r] < e[r] /\ \A q \in Ranks : e[q] >= e[r]
    BY <1>1, <1>2, <1>4, <1>7
<1>10. round' = [round EXCEPT ![r] = e[r]]
    BY <1>5, <1>7
<1> QED BY <1>8, <1>9, <1>10, Zenon DEF Abstract!Leave, e

LEMMA AbstractStep == IInv /\ [Next]_vars => [Abstract!Next]_(Abstract!vars)
<1> SUFFICES ASSUME IInv, [Next]_vars PROVE [Abstract!Next]_(Abstract!vars)
    OBVIOUS
<1>0. TypeInv
    BY DEF IInv
<1>1. ASSUME NEW r \in Ranks, Enter(r) PROVE Abstract!Next
    BY <1>0, <1>1, AbstractEnter DEF Abstract!Next
<1>2. ASSUME NEW r \in Ranks, Leave(r) PROVE Abstract!Next
    BY <1>2, AbstractLeave DEF Abstract!Next
<1>3. ASSUME NEW r \in Ranks, Step(r), ~Enter(r), ~Leave(r)
      PROVE  UNCHANGED <<round, stage>> \/ TradeOver(r)
    BY <1>3 DEF Step, Queue, Skip, SendPending, TakePending, Arrive, Wait, Fail, Broken
<1>4. ASSUME NEW r \in Ranks, TradeOver(r) PROVE UNCHANGED Abstract!vars
    <2>1. \A q \in Ranks : Entered(q)' = Entered(q)
        BY <1>0, <1>4 DEF TradeOver, Entered, TypeInv, TypeOK
    <2> QED BY <1>4, <2>1 DEF TradeOver, Abstract!vars
<1>5. ASSUME UNCHANGED vars PROVE UNCHANGED Abstract!vars
    BY <1>5, AbstractStutter DEF vars
<1>6. (\E r \in Ranks : Step(r)) \/ UNCHANGED vars
    BY Zenon DEF Next, Terminating
<1> QED BY <1>1, <1>2, <1>3, <1>4, <1>5, <1>6, AbstractStutter

(* What the blocks count on holds of the sockets, whatever their size and    *)
(* whichever ranks fail.                                                     *)
THEOREM BarrierImplementsAbstract == Spec => AbstractSpec
<1>1. Spec => []IInv
    BY InvInit, InvStep, PTL DEF Spec
<1> QED BY <1>1, AbstractInit, AbstractStep, PTL DEF Spec, AbstractSpec, Abstract!Spec
===============================================================================
