--------------------------- MODULE ShardBlockProofs ---------------------------
(***************************************************************************)
(* For any number of ranks, wherever they are placed and however they      *)
(* reach each other: a kernel of a shared-out block finds the rows of its  *)
(* own block in all that it reads, nothing is written over rows that are   *)
(* still to be sent, and the blocks are those of Ulysses.                  *)
(*                                                                         *)
(* The invariant says for every place of a rank's thread what each slot of *)
(* its memory holds, what its card still has queued, and what it owes the  *)
(* others.  The barriers tie the places of two ranks to each other.        *)
(*                                                                         *)
(* The last part is about what the ranks of a step are given and what      *)
(* becomes of it (Shares): the cuts leave nothing out, and the answers of  *)
(* the ranks come together as the whole.                                   *)
(***************************************************************************)
EXTENDS ShardBlock, Shares, SequenceTheorems, FiniteSetTheorems, WellFoundedInduction, TLAPS

-------------------------------------------------------------------------------
(* The places of a block.  The two programs differ in the order of publishing *)
(* and draining, which puts the first barrier of Metal one place earlier, and *)
(* in the last barrier, which Metal enters after its last kernel.             *)

PublishAt(r) == IF r \in Metal THEN 2 ELSE 3
SendAt(r) == IF r \in Metal THEN 4 ELSE 5
LastEnterAt(r) == IF r \in Metal THEN 19 ELSE 17
LengthOf(r) == IF r \in Metal THEN 20 ELSE 19

(* The barriers of the block a rank has entered and left. *)
EntersIn(r) ==
    IF pc[r] =< SendAt(r) + 1 THEN 0
    ELSE IF pc[r] =< 9 THEN 1
    ELSE IF pc[r] =< 14 THEN 2
    ELSE IF pc[r] =< LastEnterAt(r) THEN 3 ELSE 4
LeavesIn(r) ==
    IF pc[r] =< SendAt(r) + 2 THEN 0
    ELSE IF pc[r] =< 10 THEN 1
    ELSE IF pc[r] =< 15 THEN 2
    ELSE IF pc[r] =< LastEnterAt(r) + 1 THEN 3 ELSE 4

Stands(r) ==
    /\ pc[r] \in 1 .. LengthOf(r)
    /\ block[r] \in 1 .. Blocks + 1
    /\ block[r] = Blocks + 1 => pc[r] = 1
    /\ entered[r] = 4 * (block[r] - 1) + EntersIn(r)
    /\ left[r] = 4 * (block[r] - 1) + LeavesIn(r)
    /\ touched[r] \in BOOLEAN
    /\ ~touched[r] => pc[r] =< PublishAt(r) /\ FirstBlock(r) = block[r]

TypesHold ==
    /\ setting \in Settings
    /\ pc \in [Ranks -> 1 .. 20]
    /\ block \in [Ranks -> 1 .. Blocks + 1]
    /\ touched \in [Ranks -> BOOLEAN]
    /\ retries \in [Ranks -> 0 .. MaxRetries]
    /\ mem \in [Ranks -> [Slots -> Contents]]
    /\ DOMAIN kernels = Ranks
    /\ DOMAIN copies = Ranks
    /\ DOMAIN pending = Ranks
    /\ out \in [Ranks -> Contents]
    /\ entered \in [Ranks -> Nat]
    /\ left \in [Ranks -> Nat]
    /\ dead \subseteq Ranks

(* No rank has left a barrier another has not entered. *)
InStep == \A r, q \in Ranks : left[r] =< entered[q]

-------------------------------------------------------------------------------
(* What a card has queued. *)

Far(r) == {q \in Ranks : q # r /\ ~IsLocal(r, q)}

(* The uploads of block b: all they bring is of that block. *)
Bring(r, region, b) ==
    [op |-> "upload", block |-> b,
     rows |-> [slot \in {Dev(region, p) : p \in
                  {q \in Far(r) : region = "Received" => OnDevice(r, q)}} |-> b]]

CudaQueues(r, i, b) ==
    LET k(op) == Kernel(op, b)
        f == Bring(r, "Normalized", b)
        c(n) == Bring(r, "Received", n)
        u == Kernel("unpack", b - 1)
    IN
    IF i = 1 THEN {<<>>, <<u>>, <<c(b - 1), u>>}
    ELSE IF i = 2 THEN {<<>>, <<k("pack")>>, <<u, k("pack")>>, <<c(b - 1), u, k("pack")>>}
    ELSE IF i \in 5 .. 8 THEN {<<>>, <<k("own")>>}
    ELSE IF i \in 9 .. 11 THEN {<<>>, <<f>>, <<k("own"), f>>}
    ELSE IF i = 12 THEN {<<>>, <<k("attend")>>, <<f, k("attend")>>,
                         <<k("own"), f, k("attend")>>}
    ELSE IF i \in 17 .. 19 THEN {<<>>, <<c(b)>>}
    ELSE {<<>>}

MetalQueues(r, i, b) ==
    LET k(op) == Kernel(op, b)
        f == Bring(r, "Normalized", b)
        c == Bring(r, "Received", b)
    IN
    IF i \in 2 .. 3 THEN {<<>>, <<k("pack")>>}
    ELSE IF i = 8 THEN {<<>>, <<f>>}
    ELSE IF i = 12 THEN {<<>>, <<k("attend")>>}
    ELSE IF i = 17 THEN {<<>>, <<c>>}
    ELSE IF i = 18 THEN {<<>>, <<k("unpack")>>, <<c, k("unpack")>>}
    ELSE {<<>>}

(* What may be queued when the thread is at place i of block b. *)
Queues(r, i, b) == IF r \in Metal THEN MetalQueues(r, i, b) ELSE CudaQueues(r, i, b)

QueueHolds(r) == kernels[r] \in Queues(r, pc[r], block[r])

(* The kernel a card comes to next. *)
NextOp(r) == IF kernels[r] = <<>> THEN "none" ELSE Head(kernels[r]).op

-------------------------------------------------------------------------------
(* What a rank's own threads and kernels have put in its memory. *)

(* pack has run on the rows of this block. *)
Packed(r) == pc[r] > 1 /\ (pc[r] =< 3 => NextOp(r) = "none")

(* attend has run on them. *)
AttendedAll(r) == pc[r] > 12 \/ (pc[r] = 12 /\ NextOp(r) = "none")

(* The block a slot holds where this block's rows are in, or are not yet. *)
Since(r, done) == IF done THEN block[r] ELSE block[r] - 1

OutputIs(r) ==
    IF r \in Metal
    THEN Since(r, pc[r] >= 19 \/ (pc[r] = 18 /\ NextOp(r) = "none"))
    ELSE IF pc[r] =< 2 /\ NextOp(r) \in {"upload", "unpack"} THEN block[r] - 2 ELSE block[r] - 1

OwnRows(r) ==
    /\ mem[r][Dev("Normalized", r)] = Since(r, Packed(r))
    /\ Far(r) # {} => mem[r][Host("Normalized", r)] = Since(r, pc[r] > PublishAt(r))
    /\ \A q \in Ranks : mem[r][Dev("Attended", q)] = Since(r, AttendedAll(r))
    /\ pc[r] > 13 => \A p \in Far(r) : mem[r][Host("Attended", p)] = block[r]
    /\ out[r] = OutputIs(r)

(* The rows of ranks of other processes, once they are on the card. *)
Brought(r) ==
    \A q \in Far(r) :
        /\ pc[r] \in SendAt(r) + 4 .. 12 /\ NextOp(r) \notin {"own", "upload"} =>
             mem[r][Dev("Normalized", q)] = block[r]
        /\ r \notin ReadsHost =>
             \/ (pc[r] > 16 \/ pc[r] =< 2) /\ NextOp(r) = "upload"
             \/ mem[r][Dev("Received", q)] = Since(r, pc[r] > 16)

-------------------------------------------------------------------------------
(* What goes from rank to rank. *)

(* Where the rows q writes to r come to lie. *)
Into(region, q, r) == IF IsLocal(q, r) THEN Dev(region, q) ELSE Host(region, q)
Target(region) == IF region = "Normalized" THEN "Normalized" ELSE "Received"
From(region, q, r) ==
    IF IsLocal(q, r) THEN Dev(region, RowsFor(q, r, region))
    ELSE Host(region, RowsFor(q, r, region))

(* q's write of a region of this block to r. *)
WriteOf(region, q, r) == Owed(q, r, From(region, q, r), Into(Target(region), q, r))

SentAt(region, q) == IF region = "Normalized" THEN SendAt(q) ELSE 13

(* The copies are awaited before the barrier, the writes that are pending in it. *)
OwesOnly(q) ==
    /\ \A w \in copies[q] :
         /\ w.to \in Others(q) /\ IsLocal(q, w.to)
         /\ \E region \in {"Normalized", "Attended"} :
              pc[q] = SentAt(region, q) + 1 /\ w = WriteOf(region, q, w.to)
    /\ \A w \in pending[q] :
         /\ w.to \in Far(q)
         /\ left[w.to] =< left[q]
         /\ \E region \in {"Normalized", "Attended"} :
              /\ pc[q] \in SentAt(region, q) + 1 .. SentAt(region, q) + 2
              /\ w = WriteOf(region, q, w.to)

(* The last rows q sent r are at r, but for those of this block q still owes it. *)
Arrived(q, r) ==
    \A region \in {"Normalized", "Attended"} :
        mem[r][Into(Target(region), q, r)] =
            Since(q, pc[q] > SentAt(region, q)
                       /\ WriteOf(region, q, r) \notin copies[q] \cup pending[q])

IInv ==
    /\ TypesHold
    /\ \A r \in Ranks : Stands(r)
    /\ InStep
    /\ \A r \in Ranks : QueueHolds(r)
    /\ \A r \in Ranks : OwnRows(r) /\ Brought(r)
    /\ \A q \in Ranks : OwesOnly(q)
    /\ \A q, r \in Ranks : q # r => Arrived(q, r)

-------------------------------------------------------------------------------
(* The setting, the slots, short queues and the places of the programs.      *)

LEMMA SettingType ==
    ASSUME setting \in Settings
    PROVE  /\ \A p, q \in Ranks : IsLocal(p, q) => IsLocal(q, p)
           /\ \A p, q \in Ranks : IsLocal(p, q) => <<p, q>> \notin Linked
           /\ ReadsHost \cap Metal = {}
           /\ MaxRetries \in Nat
<1>1. \A p \in Local : <<p[2], p[1]>> \in Local
  BY ShardBlockAssumption DEF Local
<1>2. ASSUME NEW p \in Ranks, NEW q \in Ranks, IsLocal(p, q) PROVE IsLocal(q, p)
  <2>1. <<p, q>> \in Local
    BY <1>2 DEF IsLocal
  <2>2. <<<<p, q>>[2], <<p, q>>[1]>> \in Local
    BY <1>1, <2>1
  <2> QED  BY <2>2 DEF IsLocal
<1>3. Linked \cap Local = {} /\ ReadsHost \cap Metal = {} /\ MaxRetries \in Nat
  BY ShardBlockAssumption DEF Local, Linked, Metal, ReadsHost, MaxRetries
<1> QED  BY <1>2, <1>3 DEF IsLocal

LEMMA SlotsDiffer ==
    /\ \A a \in Regions, p \in Ranks :
          Dev(a, p) \in Slots /\ Host(a, p) \in Slots /\ Dev(a, p)[3] = p /\ Host(a, p)[3] = p
    /\ \A a, b \in Regions : \A p, q \in Ranks :
          /\ Dev(a, p) # Host(b, q)
          /\ Dev(a, p) = Dev(b, q) <=> a = b /\ p = q
          /\ Host(a, p) = Host(b, q) <=> a = b /\ p = q
    /\ Regions = {"Normalized", "Attended", "Received"}
BY DEF Dev, Host, Slots, Regions

LEMMA AppendToTwo ==
    ASSUME NEW a, NEW b, NEW c
    PROVE  Append(<<a, b>>, c) = <<a, b, c>>
<1> DEFINE S == {a, b, c}
<1>1. /\ <<a, b>> \in Seq(S) /\ <<a, b, c>> \in Seq(S) /\ Append(<<a, b>>, c) \in Seq(S)
  OBVIOUS
<1>2. /\ Len(<<a, b>>) = 2 /\ Len(<<a, b, c>>) = 3 /\ Len(Append(<<a, b>>, c)) = 3
  OBVIOUS
<1>3. \A i \in 1 .. 3 : Append(<<a, b>>, c)[i] = <<a, b, c>>[i]
  OBVIOUS
<1> QED  BY <1>1, <1>2, <1>3, SeqEqual

LEMMA AppendToOne ==
    ASSUME NEW a, NEW b
    PROVE  Append(<<a>>, b) = <<a, b>>
<1> DEFINE S == {a, b}
<1>1. /\ <<a>> \in Seq(S) /\ <<a, b>> \in Seq(S) /\ Append(<<a>>, b) \in Seq(S)
  OBVIOUS
<1>2. /\ Len(<<a, b>>) = 2 /\ Len(<<a>>) = 1 /\ Len(Append(<<a>>, b)) = 2
  OBVIOUS
<1>3. \A i \in 1 .. 2 : Append(<<a>>, b)[i] = <<a, b>>[i]
  OBVIOUS
<1> QED  BY <1>1, <1>2, <1>3, SeqEqual

LEMMA OneQueued ==
    ASSUME NEW a
    PROVE  <<a>> # <<>> /\ Head(<<a>>) = a /\ Tail(<<a>>) = <<>> /\ Append(<<>>, a) = <<a>>
<1>1. <<a>> # <<>> /\ Head(<<a>>) = a /\ Tail(<<a>>) = <<>>
  OBVIOUS
<1>2. Append(<<>>, a) = <<a>>
  OBVIOUS
<1> QED  BY <1>1, <1>2

LEMMA TwoQueued ==
    ASSUME NEW a, NEW b
    PROVE  <<a, b>> # <<>> /\ Head(<<a, b>>) = a /\ Tail(<<a, b>>) = <<b>>
OBVIOUS

LEMMA ThreeQueued ==
    ASSUME NEW a, NEW b, NEW c
    PROVE  <<a, b, c>> # <<>> /\ Head(<<a, b, c>>) = a /\ Tail(<<a, b, c>>) = <<b, c>>
<1>1. <<a, b, c>> # <<>> /\ Head(<<a, b, c>>) = a
  OBVIOUS
<1>2. Tail(<<a, b, c>>) = <<b, c>>
  OBVIOUS
<1> QED  BY <1>1, <1>2

(* Where the thread stands when it is at a call. *)
CudaPlaces(op) ==
    CASE op = "pack" -> {1}
      [] op = "drain" -> {2, 12}
      [] op = "publish" -> {3}
      [] op = "own" -> {4}
      [] op = "send" -> {5}
      [] op = "enter" -> {6, 9, 14, 17}
      [] op = "leave" -> {7, 10, 15, 18}
      [] op = "fetch" -> {8}
      [] op = "attend" -> {11}
      [] op = "return" -> {13}
      [] op = "collect" -> {16}
      [] op = "unpack" -> {19}
      [] OTHER -> {}

MetalPlaces(op) ==
    CASE op = "pack" -> {1}
      [] op = "publish" -> {2}
      [] op = "drain" -> {3, 8, 12, 18}
      [] op = "send" -> {4}
      [] op = "enter" -> {5, 9, 14, 19}
      [] op = "leave" -> {6, 10, 15, 20}
      [] op = "fetch" -> {7}
      [] op = "attend" -> {11}
      [] op = "return" -> {13}
      [] op = "collect" -> {16}
      [] op = "unpack" -> {17}
      [] OTHER -> {}

PlacesOf(r, op) == IF r \in Metal THEN MetalPlaces(op) ELSE CudaPlaces(op)

LEMMA Programs ==
    ASSUME NEW r \in Ranks
    PROVE  /\ Len(Program(r)) = LengthOf(r)
           /\ \A i \in 1 .. LengthOf(r) : i \in PlacesOf(r, Program(r)[i])
           /\ Program(r)[PublishAt(r)] \in Exchanges
<1>1. CASE r \in Metal
  <2>1. Program(r) = MetalBlock
    BY <1>1 DEF Program
  <2>2. \A i \in 1 .. 20 : i \in PlacesOf(r, MetalBlock[i])
    BY <1>1 DEF MetalBlock, PlacesOf, MetalPlaces
  <2>3. Len(MetalBlock) = 20 /\ MetalBlock[2] \in Exchanges
    BY DEF MetalBlock, Exchanges
  <2> QED  BY <1>1, <2>1, <2>2, <2>3 DEF LengthOf, PublishAt
<1>2. CASE r \notin Metal
  <2>1. Program(r) = CudaBlock
    BY <1>2 DEF Program
  <2>2. \A i \in 1 .. 19 : i \in PlacesOf(r, CudaBlock[i])
    <3>1. \A i \in 1 .. 9 : i \in CudaPlaces(CudaBlock[i])
      BY DEF CudaBlock, CudaPlaces
    <3>2. \A i \in 10 .. 19 : i \in CudaPlaces(CudaBlock[i])
      BY DEF CudaBlock, CudaPlaces
    <3> QED  BY <1>2, <3>1, <3>2 DEF PlacesOf
  <2>3. Len(CudaBlock) = 19 /\ CudaBlock[3] \in Exchanges
    BY DEF CudaBlock, Exchanges
  <2> QED  BY <1>2, <2>1, <2>2, <2>3 DEF LengthOf, PublishAt
<1> QED  BY <1>1, <1>2

-------------------------------------------------------------------------------
(* A thread goes on to its next place.                                       *)

LEMMA WholeSteps ==
    ASSUME NEW n \in Nat, n % BlocksPerStep = 0
    PROVE  (n \div BlocksPerStep) * BlocksPerStep = n
BY ShardBlockAssumption

(* A place further, or the next block. *)
Moves(r) ==
    /\ pc' = [pc EXCEPT ![r] = IF pc[r] = LengthOf(r) THEN 1 ELSE pc[r] + 1]
    /\ block' = [block EXCEPT ![r] = IF pc[r] = LengthOf(r) THEN block[r] + 1 ELSE block[r]]

LEMMA Going ==
    ASSUME TypesHold, NEW r \in Ranks, Stands(r), NEW op, At(r, op)
    PROVE  /\ pc[r] \in PlacesOf(r, op)
           /\ pc[r] \in 1 .. LengthOf(r)
           /\ block[r] \in 1 .. Blocks
           /\ GoOn(r) => Moves(r)
<1>1. pc[r] \in 1 .. LengthOf(r) /\ block[r] \in 1 .. Blocks + 1
  BY DEF Stands
<1>2. block[r] =< Blocks /\ Program(r)[pc[r]] = op
  BY DEF At, Running
<1>3. block[r] \in 1 .. Blocks
  BY <1>1, <1>2, ShardBlockAssumption
<1>4. pc[r] \in PlacesOf(r, op)
  BY <1>1, <1>2, Programs
<1>5. GoOn(r) => Moves(r)
  BY <1>1, Programs DEF GoOn, Moves, TypesHold
<1> QED  BY <1>1, <1>3, <1>4, <1>5

LEMMA TouchedMoves ==
    ASSUME TypesHold, NEW r \in Ranks, Stands(r), NEW op, At(r, op), GoOn(r),
           UNCHANGED setting
    PROVE  /\ touched' \in [Ranks -> BOOLEAN]
           /\ \A q \in Ranks \ {r} : touched'[q] = touched[q]
           /\ ~touched'[r] =>
                pc'[r] =< PublishAt(r)
                  /\ ((block'[r] - 1) \div BlocksPerStep) * BlocksPerStep + 1 = block'[r]
<1> DEFINE last == pc[r] = LengthOf(r)
<1>1. pc[r] \in 1 .. LengthOf(r) /\ block[r] \in 1 .. Blocks /\ Moves(r)
  BY Going
<1>2. Len(Program(r)) = LengthOf(r) /\ Program(r)[PublishAt(r)] \in Exchanges
  BY Programs
<1>3. touched' = [touched EXCEPT ![r] =
           IF last /\ block[r] % BlocksPerStep = 0
           THEN FALSE
           ELSE touched[r] \/ Program(r)[pc[r]] \in Exchanges]
  BY <1>2 DEF GoOn
<1>4. touched \in [Ranks -> BOOLEAN]
  BY DEF TypesHold
<1>5. /\ pc'[r] = (IF last THEN 1 ELSE pc[r] + 1)
      /\ block'[r] = (IF last THEN block[r] + 1 ELSE block[r])
  BY <1>1 DEF Moves, TypesHold
<1>6. ~touched[r] => pc[r] =< PublishAt(r) /\ FirstBlock(r) = block[r]
  BY DEF Stands
<1>7. PublishAt(r) \in 2 .. 3 /\ LengthOf(r) \in 19 .. 20
  BY DEF PublishAt, LengthOf
<1>8. ASSUME last, block[r] % BlocksPerStep = 0
      PROVE  /\ pc'[r] =< PublishAt(r)
             /\ ((block'[r] - 1) \div BlocksPerStep) * BlocksPerStep + 1 = block'[r]
  <2>1. block'[r] - 1 = block[r] /\ block[r] \in Nat
    BY <1>1, <1>5, <1>8, ShardBlockAssumption
  <2>2. (block[r] \div BlocksPerStep) * BlocksPerStep = block[r]
    BY <1>8, <2>1, WholeSteps
  <2> QED  BY <1>1, <1>5, <1>7, <1>8, <2>1, <2>2
<1>9. ASSUME ~(last /\ block[r] % BlocksPerStep = 0), ~touched'[r]
      PROVE  /\ pc'[r] =< PublishAt(r)
             /\ ((block'[r] - 1) \div BlocksPerStep) * BlocksPerStep + 1 = block'[r]
  <2>1. touched'[r] = (touched[r] \/ Program(r)[pc[r]] \in Exchanges)
    <3> HIDE DEF last
    <3> QED  BY <1>3, <1>4, <1>9
  <2>2. ~touched[r] /\ pc[r] # PublishAt(r)
    BY <1>2, <1>9, <2>1
  <2>3. pc[r] < PublishAt(r) /\ ~last
    BY <1>1, <1>6, <1>7, <2>2
  <2>4. pc'[r] =< PublishAt(r) /\ block'[r] = block[r]
    BY <1>1, <1>5, <1>7, <2>3
  <2> QED  BY <1>6, <2>2, <2>4 DEF FirstBlock
<1> HIDE DEF last
<1>10. /\ touched' \in [Ranks -> BOOLEAN]
       /\ \A q \in Ranks \ {r} : touched'[q] = touched[q]
  BY <1>3, <1>4
<1> QED  BY <1>8, <1>9, <1>10

LEMMA CallsOf ==
    ASSUME NEW r \in Ranks, NEW op, NEW i \in PlacesOf(r, op)
    PROVE  /\ op = "enter" <=> i \in {SendAt(r) + 1, 9, 14, LastEnterAt(r)}
           /\ op = "leave" <=> i \in {SendAt(r) + 2, 10, 15, LastEnterAt(r) + 1}
<1>1. CASE r \in Metal
  <2>1. i \in MetalPlaces(op)
    BY <1>1 DEF PlacesOf
  <2> QED  BY <1>1, <2>1 DEF MetalPlaces, SendAt, LastEnterAt
<1>2. CASE r \notin Metal
  <2>1. i \in CudaPlaces(op)
    BY <1>2 DEF PlacesOf
  <2> QED  BY <1>2, <2>1 DEF CudaPlaces, SendAt, LastEnterAt
<1> QED  BY <1>1, <1>2

(* The barriers a step of r enters and leaves. *)
Crosses(r, op) ==
    \/ op \notin {"enter", "leave"} /\ UNCHANGED <<entered, left>>
    \/ op = "enter" /\ Barrier!Enter(r)
    \/ op = "leave" /\ Barrier!Leave(r)

LEMMA Standing ==
    ASSUME TypesHold, \A q \in Ranks : Stands(q), InStep, UNCHANGED setting,
           NEW r \in Ranks, NEW op, At(r, op), GoOn(r), Crosses(r, op)
    PROVE  /\ \A q \in Ranks : Stands(q)'
           /\ InStep'
           /\ pc' \in [Ranks -> 1 .. 20]
           /\ block' \in [Ranks -> 1 .. Blocks + 1]
           /\ touched' \in [Ranks -> BOOLEAN]
           /\ entered' \in [Ranks -> Nat]
           /\ left' \in [Ranks -> Nat]
<1>1. /\ pc[r] \in PlacesOf(r, op)
      /\ pc[r] \in 1 .. LengthOf(r)
      /\ block[r] \in 1 .. Blocks
      /\ Moves(r)
  BY Going
<1>2. /\ touched' \in [Ranks -> BOOLEAN]
      /\ \A q \in Ranks \ {r} : touched'[q] = touched[q]
      /\ ~touched'[r] =>
           /\ pc'[r] =< PublishAt(r)
           /\ ((block'[r] - 1) \div BlocksPerStep) * BlocksPerStep + 1 = block'[r]
  BY TouchedMoves
<1>3. /\ entered \in [Ranks -> Nat]
      /\ left \in [Ranks -> Nat]
      /\ pc \in [Ranks -> 1 .. 20]
      /\ block \in [Ranks -> 1 .. Blocks + 1]
  BY DEF TypesHold
<1>4. LengthOf(r) \in 19 .. 20 /\ Blocks \in Nat
  BY ShardBlockAssumption DEF LengthOf
<1>5. /\ pc'[r] = IF pc[r] = LengthOf(r) THEN 1 ELSE pc[r] + 1
      /\ block'[r] = IF pc[r] = LengthOf(r) THEN block[r] + 1 ELSE block[r]
      /\ \A q \in Ranks \ {r} : pc'[q] = pc[q] /\ block'[q] = block[q]
  BY <1>1, <1>3 DEF Moves
<1>6. pc' \in [Ranks -> 1 .. 20] /\ block' \in [Ranks -> 1 .. Blocks + 1]
  <2>1. (IF pc[r] = LengthOf(r) THEN 1 ELSE pc[r] + 1) \in 1 .. 20
    BY <1>1, <1>4
  <2>2. (IF pc[r] = LengthOf(r) THEN block[r] + 1 ELSE block[r]) \in 1 .. Blocks + 1
    BY <1>1, <1>4
  <2> QED  BY <1>1, <1>3, <2>1, <2>2 DEF Moves
<1>7. /\ entered' = [entered EXCEPT ![r] = IF op = "enter" THEN entered[r] + 1 ELSE entered[r]]
      /\ left' = [left EXCEPT ![r] = IF op = "leave" THEN entered[r] ELSE left[r]]
      /\ op = "enter" => entered[r] = left[r]
      /\ op = "leave" => left[r] < entered[r] /\ \A q \in Ranks : entered[q] >= entered[r]
  BY <1>3 DEF Crosses, Barrier!Enter, Barrier!Leave
<1>8. entered' \in [Ranks -> Nat] /\ left' \in [Ranks -> Nat]
  BY <1>3, <1>7
<1>9. /\ \A q \in Ranks \ {r} : entered'[q] = entered[q] /\ left'[q] = left[q]
      /\ entered'[r] = IF op = "enter" THEN entered[r] + 1 ELSE entered[r]
      /\ left'[r] = IF op = "leave" THEN entered[r] ELSE left[r]
  BY <1>3, <1>7
<1>10. InStep'
  <2> SUFFICES ASSUME NEW p \in Ranks, NEW q \in Ranks PROVE left'[p] =< entered'[q]
    BY DEF InStep
  <2>1. entered[q] \in Nat /\ entered[r] \in Nat /\ left[p] \in Nat /\ left[p] =< entered[q]
    BY <1>3 DEF InStep
  <2>2. entered'[q] >= entered[q]
    BY <1>9, <2>1
  <2>3. CASE p = r /\ op = "leave"
    <3>1. left'[p] = entered[r] /\ entered[q] >= entered[r]
      BY <1>7, <1>9, <2>3
    <3> QED  BY <2>1, <2>2, <3>1, <1>8
  <2>4. CASE ~(p = r /\ op = "leave")
    <3>1. left'[p] = left[p]
      BY <1>9, <2>4
    <3> QED  BY <2>1, <2>2, <3>1, <1>8
  <2> QED  BY <2>3, <2>4
<1>11. ASSUME NEW q \in Ranks \ {r} PROVE Stands(q)'
  <2>1. /\ pc'[q] = pc[q] /\ block'[q] = block[q] /\ touched'[q] = touched[q]
        /\ entered'[q] = entered[q] /\ left'[q] = left[q] /\ setting' = setting
    BY <1>2, <1>5, <1>9
  <2>2. Stands(q)
    OBVIOUS
  <2> QED
    BY <2>1, <2>2 DEF Stands, EntersIn, LeavesIn, LengthOf, SendAt, LastEnterAt, PublishAt,
                      FirstBlock, Metal
<1>12. Stands(r)'
  <2>1. /\ LengthOf(r)' = LengthOf(r) /\ PublishAt(r)' = PublishAt(r)
        /\ SendAt(r)' = SendAt(r) /\ LastEnterAt(r)' = LastEnterAt(r)
    BY DEF LengthOf, PublishAt, SendAt, LastEnterAt, Metal
  <2>2. /\ op = "enter" <=> pc[r] \in {SendAt(r) + 1, 9, 14, LastEnterAt(r)}
        /\ op = "leave" <=> pc[r] \in {SendAt(r) + 2, 10, 15, LastEnterAt(r) + 1}
    BY <1>1, CallsOf
  <2>3. \/ SendAt(r) = 4 /\ LastEnterAt(r) = 19 /\ LengthOf(r) = 20
        \/ SendAt(r) = 5 /\ LastEnterAt(r) = 17 /\ LengthOf(r) = 19
    BY DEF LengthOf, SendAt, LastEnterAt
  <2>4. entered[r] = 4 * (block[r] - 1) + EntersIn(r) /\ left[r] = 4 * (block[r] - 1) + LeavesIn(r)
    BY DEF Stands
  <2>5. entered'[r] = 4 * (block'[r] - 1) + EntersIn(r)'
    <3>1. block[r] \in Nat /\ pc[r] \in 1 .. LengthOf(r)
      BY <1>1
    <3> QED  BY <1>5, <1>9, <2>1, <2>2, <2>3, <2>4, <3>1 DEF EntersIn
  <2>6. left'[r] = 4 * (block'[r] - 1) + LeavesIn(r)'
    <3>1. block[r] \in Nat /\ pc[r] \in 1 .. LengthOf(r)
      BY <1>1
    <3>2. op = "leave" => entered[r] = left[r] + 1
      BY <2>2, <2>3, <2>4, <3>1 DEF EntersIn, LeavesIn
    <3> QED  BY <1>5, <1>9, <2>1, <2>2, <2>3, <2>4, <3>1, <3>2 DEF LeavesIn
  <2>7. pc'[r] \in 1 .. LengthOf(r) /\ block'[r] \in 1 .. Blocks + 1
    BY <1>1, <1>4, <1>5
  <2>8. block'[r] = Blocks + 1 => pc'[r] = 1
    BY <1>1, <1>4, <1>5
  <2> QED  BY <1>2, <2>1, <2>5, <2>6, <2>7, <2>8 DEF Stands, FirstBlock
<1> QED  BY <1>2, <1>6, <1>8, <1>10, <1>11, <1>12

-------------------------------------------------------------------------------
(* What a step leaves alone stays as it was.                                 *)

LEMMA SettingStays ==
    ASSUME UNCHANGED setting
    PROVE  /\ Local' = Local /\ Linked' = Linked /\ Metal' = Metal /\ ReadsHost' = ReadsHost
           /\ \A r, i, b : Queues(r, i, b)' = Queues(r, i, b)
<1>1. Local' = Local /\ Linked' = Linked /\ Metal' = Metal /\ ReadsHost' = ReadsHost
  BY DEF Local, Linked, Metal, ReadsHost
<1>2. ASSUME NEW r, NEW region, NEW b PROVE Bring(r, region, b)' = Bring(r, region, b)
  BY DEF Bring, Far, IsLocal, OnDevice, Local, ReadsHost
<1>3. ASSUME NEW r, NEW i, NEW b PROVE Queues(r, i, b)' = Queues(r, i, b)
  <2>1. MetalQueues(r, i, b)' = MetalQueues(r, i, b)
    BY <1>2, Zenon DEF MetalQueues
  <2>2. CudaQueues(r, i, b)' = CudaQueues(r, i, b)
    BY <1>2, Zenon DEF CudaQueues
  <2> QED  BY <1>1, <2>1, <2>2 DEF Queues
<1> QED  BY <1>1, <1>3

(* What nobody but r writes in r's memory. *)
SameRows(r) ==
    /\ \A region \in Regions, p \in Ranks :
         p = r \/ region = "Attended" \/ p \in Far(r) =>
           mem'[r][Dev(region, p)] = mem[r][Dev(region, p)]
    /\ mem'[r][Host("Normalized", r)] = mem[r][Host("Normalized", r)]
    /\ \A p \in Ranks : mem'[r][Host("Attended", p)] = mem[r][Host("Attended", p)]

LEMMA RankStays ==
    ASSUME NEW r \in Ranks, UNCHANGED setting,
           pc'[r] = pc[r], block'[r] = block[r], kernels'[r] = kernels[r],
           QueueHolds(r), OwnRows(r), Brought(r),
           SameRows(r), out'[r] = out[r]
    PROVE  QueueHolds(r)' /\ OwnRows(r)' /\ Brought(r)'
<1>1. QueueHolds(r)'
  BY SettingStays DEF QueueHolds
<1>2. NextOp(r)' = NextOp(r)
  BY DEF NextOp
<1>3. /\ mem'[r][Dev("Normalized", r)] = mem[r][Dev("Normalized", r)]
      /\ \A p \in Ranks : mem'[r][Dev("Attended", p)] = mem[r][Dev("Attended", p)]
      /\ \A p \in Far(r) :
           /\ mem'[r][Dev("Normalized", p)] = mem[r][Dev("Normalized", p)]
           /\ mem'[r][Dev("Received", p)] = mem[r][Dev("Received", p)]
           /\ mem'[r][Host("Attended", p)] = mem[r][Host("Attended", p)]
      /\ mem'[r][Host("Normalized", r)] = mem[r][Host("Normalized", r)]
  BY DEF SameRows, Regions, Far
<1>4. Far(r)' = Far(r) /\ Metal' = Metal /\ ReadsHost' = ReadsHost
  BY SettingStays DEF Far, IsLocal
<1>5. OwnRows(r)'
  BY <1>2, <1>3, <1>4 DEF OwnRows, Since, Packed, AttendedAll, OutputIs, PublishAt
<1>6. Brought(r)'
  BY <1>2, <1>3, <1>4 DEF Brought, Since, SendAt
<1> QED  BY <1>1, <1>5, <1>6

LEMMA RowsStay ==
    ASSUME NEW r \in Ranks, mem'[r] = mem[r]
    PROVE  SameRows(r)
BY DEF SameRows

LEMMA OwingStays ==
    ASSUME NEW q \in Ranks, UNCHANGED setting, OwesOnly(q),
           pc'[q] = pc[q], block'[q] = block[q], copies'[q] \subseteq copies[q],
           pending'[q] \subseteq pending[q],
           \A w \in pending'[q] : left'[w.to] = left[w.to] /\ left'[q] = left[q]
    PROVE  OwesOnly(q)'
BY SettingStays DEF OwesOnly, SentAt, SendAt, WriteOf, Owed, From, Into, RowsFor, Far, IsLocal

LEMMA ArrivedStays ==
    ASSUME NEW q \in Ranks, NEW r \in Ranks, UNCHANGED setting, Arrived(q, r),
           pc'[q] = pc[q], block'[q] = block[q], copies'[q] = copies[q],
           pending'[q] = pending[q],
           \A region \in {"Normalized", "Received"} :
               mem'[r][Into(region, q, r)] = mem[r][Into(region, q, r)]
    PROVE  Arrived(q, r)'
<1>1. \A region : Into(region, q, r)' = Into(region, q, r)
  BY SettingStays DEF Into, IsLocal
<1>2. \A region : WriteOf(region, q, r)' = WriteOf(region, q, r)
  BY SettingStays DEF WriteOf, Owed, From, Into, RowsFor, IsLocal
<1>3. \A region : SentAt(region, q)' = SentAt(region, q)
  BY SettingStays DEF SentAt, SendAt
<1>4. \A region : Target(region) \in {"Normalized", "Received"}
  BY DEF Target
<1> QED  BY <1>1, <1>2, <1>3, <1>4 DEF Arrived, Since

(* Only the calls that write add to what a rank owes, and the barriers wait  *)
(* for it.                                                                   *)
LEMMA OwingPasses ==
    ASSUME TypesHold, UNCHANGED <<setting, copies, pending>>,
           NEW r \in Ranks, NEW op, At(r, op), GoOn(r), Stands(r),
           op \notin {"send", "return"},
           op = "enter" => copies[r] = {} /\ left' = left,
           op = "leave" =>
               /\ pending[r] = {}
               /\ \A q \in Ranks : \A w \in pending[q] : w.to # r
               /\ \A q \in Ranks \ {r} : left'[q] = left[q],
           op \notin {"enter", "leave"} => left' = left,
           \A q \in Ranks : OwesOnly(q),
           \A q, p \in Ranks : q # p => Arrived(q, p),
           \A q, p \in Ranks : q # p => \A region \in {"Normalized", "Received"} :
               mem'[p][Into(region, q, p)] = mem[p][Into(region, q, p)]
    PROVE  /\ \A q \in Ranks : OwesOnly(q)'
           /\ \A q, p \in Ranks : q # p => Arrived(q, p)'
<1>1. /\ pc[r] \in PlacesOf(r, op)
      /\ pc[r] \in 1 .. LengthOf(r)
      /\ block[r] \in 1 .. Blocks
      /\ Moves(r)
  BY Going
<1>2. /\ pc'[r] = IF pc[r] = LengthOf(r) THEN 1 ELSE pc[r] + 1
      /\ block'[r] = IF pc[r] = LengthOf(r) THEN block[r] + 1 ELSE block[r]
      /\ \A q \in Ranks \ {r} : pc'[q] = pc[q] /\ block'[q] = block[q]
  BY <1>1 DEF Moves, TypesHold
<1>3. /\ op = "enter" <=> pc[r] \in {SendAt(r) + 1, 9, 14, LastEnterAt(r)}
      /\ op = "leave" <=> pc[r] \in {SendAt(r) + 2, 10, 15, LastEnterAt(r) + 1}
  BY <1>1, CallsOf
<1>4. \/ SendAt(r) = 4 /\ LastEnterAt(r) = 19 /\ LengthOf(r) = 20
      \/ SendAt(r) = 5 /\ LastEnterAt(r) = 17 /\ LengthOf(r) = 19
  BY DEF LengthOf, SendAt, LastEnterAt
<1>5. \A region \in {"Normalized", "Attended"} : SentAt(region, r) \in {SendAt(r), 13}
  BY DEF SentAt
<1>6. \A region \in {"Normalized", "Attended"} : pc[r] # SentAt(region, r)
  <2>1. CASE r \in Metal
    BY <1>1, <2>1 DEF PlacesOf, MetalPlaces, SentAt, SendAt
  <2>2. CASE r \notin Metal
    BY <1>1, <2>2 DEF PlacesOf, CudaPlaces, SentAt, SendAt
  <2> QED  BY <2>1, <2>2
<1>7. copies[r] = {}
  <2> SUFFICES ASSUME NEW w \in copies[r] PROVE FALSE
    OBVIOUS
  <2>1. PICK region \in {"Normalized", "Attended"} : pc[r] = SentAt(region, r) + 1
    BY DEF OwesOnly
  <2>2. op = "enter"
    BY <1>3, <1>4, <1>5, <2>1
  <2> QED  BY <2>2
<1>8. ASSUME NEW w \in pending[r]
      PROVE  op = "enter" /\ pc'[r] = pc[r] + 1 /\ block'[r] = block[r]
               /\ \E region \in {"Normalized", "Attended"} :
                    pc[r] = SentAt(region, r) + 1 /\ w = WriteOf(region, r, w.to)
  <2>1. PICK region \in {"Normalized", "Attended"} :
           /\ pc[r] \in SentAt(region, r) + 1 .. SentAt(region, r) + 2
           /\ w = WriteOf(region, r, w.to)
    BY DEF OwesOnly
  <2>2. op # "leave"
    BY <1>8
  <2>3. SentAt(region, r) \in Int
    BY <1>4, <1>5
  <2>4. pc[r] # SentAt(region, r) + 2
    BY <1>3, <1>5, <2>2
  <2>5. pc[r] = SentAt(region, r) + 1
    BY <1>1, <2>1, <2>3, <2>4
  <2>6. op = "enter" /\ pc[r] # LengthOf(r)
    BY <1>3, <1>4, <1>5, <2>5
  <2> QED  BY <1>2, <2>1, <2>5, <2>6
<1>9. /\ \A region, q, p : Into(region, q, p)' = Into(region, q, p)
      /\ \A region, q : SentAt(region, q)' = SentAt(region, q)
  BY SettingStays DEF Into, IsLocal, SentAt, SendAt
<1>10. \A region, q, p : block'[q] = block[q] => WriteOf(region, q, p)' = WriteOf(region, q, p)
  BY SettingStays DEF WriteOf, Owed, From, Into, RowsFor, IsLocal
<1>11. ASSUME NEW q \in Ranks \ {r} PROVE OwesOnly(q)'
  <2>1. ASSUME NEW w \in pending'[q] PROVE left'[w.to] = left[w.to] /\ left'[q] = left[q]
    <3>1. w \in pending[q]
      BY <2>1
    <3>2. w.to \in Ranks
      BY <3>1 DEF OwesOnly, Far
    <3> QED  BY <3>1, <3>2
  <2> QED  BY <1>2, <2>1, OwingStays
<1>12. OwesOnly(r)'
  <2>1. \A w \in copies'[r] : FALSE
    BY <1>7
  <2>2. ASSUME NEW w \in pending'[r]
        PROVE  /\ w.to \in Far(r)'
               /\ left'[w.to] =< left'[r]
               /\ \E region \in {"Normalized", "Attended"} :
                     /\ pc'[r] \in SentAt(region, r)' + 1 .. SentAt(region, r)' + 2
                     /\ w = WriteOf(region, r, w.to)'
    <3>1. w \in pending[r]
      BY <2>2
    <3>2. op = "enter" /\ pc'[r] = pc[r] + 1 /\ block'[r] = block[r]
      BY <1>8, <3>1
    <3>3. PICK region \in {"Normalized", "Attended"} :
             pc[r] = SentAt(region, r) + 1 /\ w = WriteOf(region, r, w.to)
      BY <1>8, <3>1
    <3>4. w.to \in Far(r) /\ left[w.to] =< left[r]
      BY <3>1 DEF OwesOnly
    <3>5. w.to \in Far(r)'
      BY <3>4, SettingStays DEF Far, IsLocal
    <3>6. left'[w.to] =< left'[r]
      BY <3>2, <3>4
    <3>7. SentAt(region, r)' \in Int /\ SentAt(region, r)' = SentAt(region, r)
      BY <1>4, <1>5, <1>9
    <3>8. pc'[r] \in SentAt(region, r)' + 1 .. SentAt(region, r)' + 2
      BY <3>2, <3>3, <3>7
    <3>9. w = WriteOf(region, r, w.to)'
      BY <1>10, <3>2, <3>3
    <3> QED  BY <3>5, <3>6, <3>8, <3>9
  <2> QED  BY <2>1, <2>2 DEF OwesOnly
<1>13. ASSUME NEW q \in Ranks \ {r}, NEW p \in Ranks, q # p PROVE Arrived(q, p)'
  BY <1>2, <1>13, ArrivedStays
<1>14. ASSUME NEW p \in Ranks, p # r PROVE Arrived(r, p)'
  <2> SUFFICES ASSUME NEW region \in {"Normalized", "Attended"}
               PROVE  mem'[p][Into(Target(region), r, p)'] =
                        Since(r, pc[r] > SentAt(region, r)
                              /\ WriteOf(region, r, p) \notin copies[r] \cup pending[r])'
    BY <1>9 DEF Arrived
  <2>1. mem'[p][Into(Target(region), r, p)'] = mem[p][Into(Target(region), r, p)]
    BY <1>9, <1>14 DEF Target
  <2>2. mem[p][Into(Target(region), r, p)] =
          Since(r, pc[r] > SentAt(region, r)
                /\ WriteOf(region, r, p) \notin copies[r] \cup pending[r])
    BY <1>14 DEF Arrived
  <2>3. SentAt(region, r) \in Nat \ {0} /\ SentAt(region, r) < LengthOf(r)
          /\ SentAt(region, r) + 2 < LengthOf(r)
    BY <1>4, <1>5
  <2>4. CASE pc[r] = LengthOf(r)
    <3>1. pending[r] = {}
      <4> SUFFICES ASSUME NEW w \in pending[r] PROVE FALSE
        OBVIOUS
      <4>1. op = "enter" /\ pc'[r] = pc[r] + 1
        BY <1>8
      <4> QED  BY <1>1, <1>2, <1>4, <2>4, <4>1
    <3>2. pc'[r] = 1 /\ block'[r] = block[r] + 1 /\ block[r] \in Int
      BY <1>1, <1>2, <2>4
    <3>3. pc[r] > SentAt(region, r) /\ ~(pc'[r] > SentAt(region, r))
      BY <2>3, <2>4, <3>2
    <3>4. mem[p][Into(Target(region), r, p)] = block[r]
      BY <1>7, <2>2, <3>1, <3>3 DEF Since
    <3>5. Since(r, pc[r] > SentAt(region, r)
                     /\ WriteOf(region, r, p) \notin copies[r] \cup pending[r])' = block'[r] - 1
      BY <1>9, <3>3 DEF Since
    <3> QED  BY <2>1, <3>2, <3>4, <3>5
  <2>5. CASE pc[r] # LengthOf(r)
    <3>1. pc'[r] = pc[r] + 1 /\ block'[r] = block[r] /\ pc[r] \in Int
      BY <1>1, <1>2, <2>5
    <3>2. pc'[r] > SentAt(region, r) <=> pc[r] > SentAt(region, r)
      BY <1>6, <2>3, <3>1
    <3> QED  BY <1>9, <1>10, <2>1, <2>2, <3>1, <3>2 DEF Since
  <2> QED  BY <2>4, <2>5
<1> QED  BY <1>11, <1>12, <1>13, <1>14

(* What a call puts behind what is queued. *)
Queueing == {"pack", "own", "attend", "unpack", "fetch", "collect"}
Queued(r, op) ==
    CASE op = "fetch" -> Bring(r, "Normalized", block[r])
      [] op = "collect" -> Bring(r, "Received", block[r])
      [] OTHER -> Kernel(op, block[r])

QueueMoves(r, op) ==
    /\ kernels' = IF op \in Queueing
                  THEN [kernels EXCEPT ![r] = Append(@, Queued(r, op))] ELSE kernels
    /\ op = "drain" => kernels[r] = <<>>

LEMMA CudaQueueGoes ==
    ASSUME NEW r \in Ranks, NEW i \in 1 .. 19, NEW b \in Int, NEW op, i \in CudaPlaces(op),
           NEW k, NEW q \in CudaQueues(r, i, b),
           op = "fetch" => k = Bring(r, "Normalized", b),
           op = "collect" => k = Bring(r, "Received", b),
           op \notin {"fetch", "collect"} => k = Kernel(op, b),
           op = "drain" => q = <<>>
    PROVE  /\ op \in Queueing => Append(q, k) \in
                  CudaQueues(r, IF i = 19 THEN 1 ELSE i + 1, IF i = 19 THEN b + 1 ELSE b)
           /\ op \notin Queueing => q \in CudaQueues(r, i + 1, b) /\ i < 19
<1>1. CASE op = "pack"
  <2>1. i = 1 /\ k = Kernel("pack", b)
    BY <1>1 DEF CudaPlaces
  <2>2. q \in {<<>>, <<Kernel("unpack", b - 1)>>,
               <<Bring(r, "Received", b - 1), Kernel("unpack", b - 1)>>}
    BY <2>1 DEF CudaQueues
  <2>3. Append(q, k) \in {<<Kernel("pack", b)>>,
                          <<Kernel("unpack", b - 1), Kernel("pack", b)>>,
                          <<Bring(r, "Received", b - 1), Kernel("unpack", b - 1),
                            Kernel("pack", b)>>}
    <3>1. Append(<<>>, k) = <<k>>
      BY OneQueued, Zenon
    <3>2. Append(<<Kernel("unpack", b - 1)>>, k) = <<Kernel("unpack", b - 1), k>>
      BY AppendToOne, Zenon
    <3>3. Append(<<Bring(r, "Received", b - 1), Kernel("unpack", b - 1)>>, k)
            = <<Bring(r, "Received", b - 1), Kernel("unpack", b - 1), k>>
      BY AppendToTwo
    <3> QED  BY <2>1, <2>2, <3>1, <3>2, <3>3
  <2> QED  BY <1>1, <2>1, <2>3 DEF CudaQueues, Queueing
<1>2. CASE op = "own"
  <2>1. i = 4 /\ k = Kernel("own", b) /\ q = <<>>
    BY <1>2 DEF CudaPlaces, CudaQueues
  <2>2. Append(q, k) = <<Kernel("own", b)>>
    BY <2>1, OneQueued, Zenon
  <2> QED  BY <1>2, <2>1, <2>2 DEF CudaQueues, Queueing
<1>3. CASE op = "attend"
  <2>1. i = 11 /\ k = Kernel("attend", b)
    BY <1>3 DEF CudaPlaces
  <2>2. q \in {<<>>, <<Bring(r, "Normalized", b)>>, <<Kernel("own", b), Bring(r, "Normalized", b)>>}
    BY <2>1 DEF CudaQueues
  <2>3. Append(q, k) \in {<<Kernel("attend", b)>>,
                          <<Bring(r, "Normalized", b), Kernel("attend", b)>>,
                          <<Kernel("own", b), Bring(r, "Normalized", b), Kernel("attend", b)>>}
    <3>1. Append(<<>>, k) = <<k>>
      BY OneQueued, Zenon
    <3>2. Append(<<Bring(r, "Normalized", b)>>, k) = <<Bring(r, "Normalized", b), k>>
      BY AppendToOne, Zenon
    <3>3. Append(<<Kernel("own", b), Bring(r, "Normalized", b)>>, k)
            = <<Kernel("own", b), Bring(r, "Normalized", b), k>>
      BY AppendToTwo
    <3> QED  BY <2>1, <2>2, <3>1, <3>2, <3>3
  <2> QED  BY <1>3, <2>1, <2>3 DEF CudaQueues, Queueing
<1>4. CASE op = "unpack"
  <2>1. i = 19 /\ k = Kernel("unpack", b)
    BY <1>4 DEF CudaPlaces
  <2>2. q \in {<<>>, <<Bring(r, "Received", b)>>}
    BY <2>1 DEF CudaQueues
  <2>3. Append(q, k) \in {<<Kernel("unpack", b)>>,
                          <<Bring(r, "Received", b), Kernel("unpack", b)>>}
    <3>1. Append(<<>>, k) = <<k>>
      BY OneQueued, Zenon
    <3>2. Append(<<Bring(r, "Received", b)>>, k) = <<Bring(r, "Received", b), k>>
      BY AppendToOne, Zenon
    <3> QED  BY <2>1, <2>2, <3>1, <3>2
  <2>4. (b + 1) - 1 = b
    OBVIOUS
  <2> QED  BY <1>4, <2>1, <2>3, <2>4 DEF CudaQueues, Queueing
<1>5. CASE op = "fetch"
  <2>1. i = 8 /\ k = Bring(r, "Normalized", b)
    BY <1>5 DEF CudaPlaces
  <2>2. q \in {<<>>, <<Kernel("own", b)>>}
    BY <2>1 DEF CudaQueues
  <2>3. Append(q, k) \in {<<Bring(r, "Normalized", b)>>,
                          <<Kernel("own", b), Bring(r, "Normalized", b)>>}
    <3>1. Append(<<>>, k) = <<k>>
      BY OneQueued, Zenon
    <3>2. Append(<<Kernel("own", b)>>, k) = <<Kernel("own", b), k>>
      BY AppendToOne, Zenon
    <3> QED  BY <2>1, <2>2, <3>1, <3>2
  <2> QED  BY <1>5, <2>1, <2>3 DEF CudaQueues, Queueing
<1>6. CASE op = "collect"
  <2>1. i = 16 /\ k = Bring(r, "Received", b) /\ q = <<>>
    BY <1>6 DEF CudaPlaces, CudaQueues
  <2>2. Append(q, k) = <<Bring(r, "Received", b)>>
    BY <2>1, OneQueued, Zenon
  <2> QED  BY <1>6, <2>1, <2>2 DEF CudaQueues, Queueing
<1>7. CASE op \notin Queueing
  <2>1. i \in {2, 3, 5, 6, 7, 9, 10, 12, 13, 14, 15, 17, 18}
    BY <1>7 DEF CudaPlaces, Queueing
  <2>2. i \in {2, 12} => q = <<>>
    BY <1>7, <2>1, SMTT(60) DEF CudaPlaces
  <2>3. q \in CudaQueues(r, i + 1, b)
    BY <2>1, <2>2 DEF CudaQueues
  <2> QED  BY <1>7, <2>1, <2>3
<1> QED  BY <1>1, <1>2, <1>3, <1>4, <1>5, <1>6, <1>7 DEF Queueing

LEMMA MetalQueueGoes ==
    ASSUME NEW r \in Ranks, NEW i \in 1 .. 20, NEW b \in Int, NEW op, i \in MetalPlaces(op),
           NEW k, NEW q \in MetalQueues(r, i, b),
           op = "fetch" => k = Bring(r, "Normalized", b),
           op = "collect" => k = Bring(r, "Received", b),
           op \notin {"fetch", "collect"} => k = Kernel(op, b),
           op = "drain" => q = <<>>
    PROVE  /\ op \in Queueing => Append(q, k) \in MetalQueues(r, i + 1, b) /\ i < 20
           /\ op \notin Queueing => q \in
                 MetalQueues(r, IF i = 20 THEN 1 ELSE i + 1, IF i = 20 THEN b + 1 ELSE b)
<1>1. CASE op = "pack"
  <2>1. i = 1 /\ k = Kernel("pack", b) /\ q = <<>>
    BY <1>1 DEF MetalPlaces, MetalQueues
  <2>2. Append(q, k) = <<Kernel("pack", b)>>
    BY <2>1, OneQueued, Zenon
  <2> QED  BY <1>1, <2>1, <2>2 DEF MetalQueues, Queueing
<1>2. CASE op = "own"
  BY <1>2 DEF MetalPlaces
<1>3. CASE op = "attend"
  <2>1. i = 11 /\ k = Kernel("attend", b) /\ q = <<>>
    BY <1>3 DEF MetalPlaces, MetalQueues
  <2>2. Append(q, k) = <<Kernel("attend", b)>>
    BY <2>1, OneQueued, Zenon
  <2> QED  BY <1>3, <2>1, <2>2 DEF MetalQueues, Queueing
<1>4. CASE op = "unpack"
  <2>1. i = 17 /\ k = Kernel("unpack", b)
    BY <1>4 DEF MetalPlaces
  <2>2. q \in {<<>>, <<Bring(r, "Received", b)>>}
    BY <2>1 DEF MetalQueues
  <2>3. Append(q, k) \in {<<Kernel("unpack", b)>>,
                          <<Bring(r, "Received", b), Kernel("unpack", b)>>}
    <3>1. Append(<<>>, k) = <<k>>
      BY OneQueued, Zenon
    <3>2. Append(<<Bring(r, "Received", b)>>, k) = <<Bring(r, "Received", b), k>>
      BY AppendToOne, Zenon
    <3> QED  BY <2>1, <2>2, <3>1, <3>2
  <2> QED  BY <1>4, <2>1, <2>3 DEF MetalQueues, Queueing
<1>5. CASE op = "fetch"
  <2>1. i = 7 /\ k = Bring(r, "Normalized", b) /\ q = <<>>
    BY <1>5 DEF MetalPlaces, MetalQueues
  <2>2. Append(q, k) = <<Bring(r, "Normalized", b)>>
    BY <2>1, OneQueued, Zenon
  <2> QED  BY <1>5, <2>1, <2>2 DEF MetalQueues, Queueing
<1>6. CASE op = "collect"
  <2>1. i = 16 /\ k = Bring(r, "Received", b) /\ q = <<>>
    BY <1>6 DEF MetalPlaces, MetalQueues
  <2>2. Append(q, k) = <<Bring(r, "Received", b)>>
    BY <2>1, OneQueued, Zenon
  <2> QED  BY <1>6, <2>1, <2>2 DEF MetalQueues, Queueing
<1>7. CASE op \notin Queueing
  <2>1. i \in {2, 3, 4, 5, 6, 8, 9, 10, 12, 13, 14, 15, 18, 19, 20}
    BY <1>7 DEF MetalPlaces, Queueing
  <2>2. i \in {3, 8, 12, 18} => q = <<>>
    BY <1>7, <2>1, SMTT(60) DEF MetalPlaces
  <2>3. q \in MetalQueues(r, IF i = 20 THEN 1 ELSE i + 1, IF i = 20 THEN b + 1 ELSE b)
    BY <2>1, <2>2 DEF MetalQueues
  <2> QED  BY <1>7, <2>3
<1> QED  BY <1>1, <1>2, <1>3, <1>4, <1>5, <1>6, <1>7 DEF Queueing

(* What is first in a queue, and what is behind it. *)
CudaFirst(r, i, b, first, rest) ==
    \/ /\ i \in 1 .. 2 /\ first = Kernel("unpack", b - 1)
       /\ rest = IF i = 1 THEN <<>> ELSE <<Kernel("pack", b)>>
    \/ /\ i \in 1 .. 2 /\ first = Bring(r, "Received", b - 1)
       /\ rest # <<>> /\ Head(rest) = Kernel("unpack", b - 1)
    \/ i = 2 /\ first = Kernel("pack", b) /\ rest = <<>>
    \/ /\ i \in 5 .. 12 /\ first = Kernel("own", b)
       /\ IF i \in 5 .. 8 THEN rest = <<>>
          ELSE rest # <<>> /\ Head(rest) = Bring(r, "Normalized", b)
    \/ /\ i \in 9 .. 12 /\ first = Bring(r, "Normalized", b)
       /\ rest = IF i = 12 THEN <<Kernel("attend", b)>> ELSE <<>>
    \/ i = 12 /\ first = Kernel("attend", b) /\ rest = <<>>
    \/ i \in 17 .. 19 /\ first = Bring(r, "Received", b) /\ rest = <<>>

MetalFirst(r, i, b, first, rest) ==
    \/ i \in 2 .. 3 /\ first = Kernel("pack", b) /\ rest = <<>>
    \/ i = 8 /\ first = Bring(r, "Normalized", b) /\ rest = <<>>
    \/ i = 12 /\ first = Kernel("attend", b) /\ rest = <<>>
    \/ /\ i \in 17 .. 18 /\ first = Bring(r, "Received", b)
       /\ rest = IF i = 17 THEN <<>> ELSE <<Kernel("unpack", b)>>
    \/ i = 18 /\ first = Kernel("unpack", b) /\ rest = <<>>

LEMMA CudaHeads ==
    ASSUME NEW r \in Ranks, NEW i \in 1 .. 19, NEW b \in Int, NEW q \in CudaQueues(r, i, b),
           q # <<>>
    PROVE  /\ Tail(q) \in CudaQueues(r, i, b)
           /\ CudaFirst(r, i, b, Head(q), Tail(q))
<1> DEFINE u == Kernel("unpack", b - 1)
           c(n) == Bring(r, "Received", n)
           f == Bring(r, "Normalized", b)
           k(op) == Kernel(op, b)
<1>1. CASE i = 1
  <2>1. q \in {<<u>>, <<c(b - 1), u>>} /\ CudaQueues(r, i, b) = {<<>>, <<u>>, <<c(b - 1), u>>}
    BY <1>1 DEF CudaQueues
  <2> HIDE DEF u, c
  <2>2. CASE q = <<u>>
    BY <1>1, <2>1, <2>2, OneQueued, TwoQueued, ThreeQueued DEF CudaFirst, u
  <2>3. CASE q = <<c(b - 1), u>>
    <3>1. Head(q) = c(b - 1) /\ Tail(q) = <<u>>
      BY <2>3, TwoQueued, Zenon
    <3>2. Tail(q) \in CudaQueues(r, i, b)
      BY <2>1, <3>1, Zenon
    <3>3. Tail(q) # <<>> /\ Head(Tail(q)) = u
      BY <3>1, OneQueued, Zenon
    <3> QED  BY <1>1, <3>1, <3>2, <3>3 DEF CudaFirst, u, c
  <2> QED  BY <2>1, <2>2, <2>3
<1>2. CASE i = 2
  <2>1. /\ q \in {<<k("pack")>>, <<u, k("pack")>>, <<c(b - 1), u, k("pack")>>}
        /\ CudaQueues(r, i, b)
             = {<<>>, <<k("pack")>>, <<u, k("pack")>>, <<c(b - 1), u, k("pack")>>}
    BY <1>2 DEF CudaQueues
  <2> HIDE DEF u, c, k
  <2>2. CASE q = <<k("pack")>>
    BY <1>2, <2>1, <2>2, OneQueued, TwoQueued, ThreeQueued DEF CudaFirst, k
  <2>3. CASE q = <<u, k("pack")>>
    <3>1. Head(q) = u /\ Tail(q) = <<k("pack")>>
      BY <2>3, OneQueued, TwoQueued, ThreeQueued, Zenon
    <3>2. Tail(q) \in CudaQueues(r, i, b)
      BY <2>1, <3>1, Zenon
    <3> QED  BY <1>2, <3>1, <3>2 DEF CudaFirst, u, k
  <2>4. CASE q = <<c(b - 1), u, k("pack")>>
    <3>1. Head(q) = c(b - 1) /\ Tail(q) = <<u, k("pack")>>
      BY <2>4, ThreeQueued, Zenon
    <3>3. Tail(q) # <<>> /\ Head(Tail(q)) = u
      BY <3>1, TwoQueued, Zenon
    <3>2. Tail(q) \in CudaQueues(r, i, b)
      BY <2>1, <3>1, Zenon
    <3> QED  BY <1>2, <3>1, <3>2, <3>3 DEF CudaFirst, u, c
  <2> QED  BY <2>1, <2>2, <2>3, <2>4
<1>3. CASE i \in 5 .. 8
  <2>1. q = <<k("own")>> /\ <<>> \in CudaQueues(r, i, b)
    BY <1>3 DEF CudaQueues
  <2>2. Head(q) = k("own") /\ Tail(q) = <<>>
    BY <2>1, OneQueued, TwoQueued, ThreeQueued, Zenon
  <2> QED  BY <1>3, <2>1, <2>2 DEF CudaFirst
<1>4. CASE i \in 9 .. 11
  <2>1. q \in {<<f>>, <<k("own"), f>>} /\ CudaQueues(r, i, b) = {<<>>, <<f>>, <<k("own"), f>>}
    BY <1>4 DEF CudaQueues
  <2> HIDE DEF f, k
  <2>2. CASE q = <<f>>
    <3>1. Head(q) = f /\ Tail(q) = <<>>
      BY <2>2, OneQueued, TwoQueued, ThreeQueued, Zenon
    <3>2. Tail(q) \in CudaQueues(r, i, b)
      BY <2>1, <3>1, Zenon
    <3> QED  BY <1>4, <3>1, <3>2 DEF CudaFirst, f
  <2>3. CASE q = <<k("own"), f>>
    <3>1. Head(q) = k("own") /\ Tail(q) = <<f>>
      BY <2>3, TwoQueued, Zenon
    <3>2. Tail(q) \in CudaQueues(r, i, b)
      BY <2>1, <3>1, Zenon
    <3>3. Tail(q) # <<>> /\ Head(Tail(q)) = f
      BY <3>1, OneQueued, Zenon
    <3> QED  BY <1>4, <3>1, <3>2, <3>3 DEF CudaFirst, f, k
  <2> QED  BY <2>1, <2>2, <2>3
<1>5. CASE i = 12
  <2>1. /\ q \in {<<k("attend")>>, <<f, k("attend")>>, <<k("own"), f, k("attend")>>}
        /\ CudaQueues(r, i, b)
             = {<<>>, <<k("attend")>>, <<f, k("attend")>>, <<k("own"), f, k("attend")>>}
    BY <1>5 DEF CudaQueues
  <2> HIDE DEF f, k
  <2>2. CASE q = <<k("attend")>>
    <3>1. Head(q) = k("attend") /\ Tail(q) = <<>>
      BY <2>2, OneQueued, TwoQueued, ThreeQueued, Zenon
    <3>2. Tail(q) \in CudaQueues(r, i, b)
      BY <2>1, <3>1, Zenon
    <3> QED  BY <1>5, <3>1, <3>2 DEF CudaFirst, k
  <2>3. CASE q = <<f, k("attend")>>
    <3>1. Head(q) = f /\ Tail(q) = <<k("attend")>>
      BY <2>3, OneQueued, TwoQueued, ThreeQueued, Zenon
    <3>2. Tail(q) \in CudaQueues(r, i, b)
      BY <2>1, <3>1, Zenon
    <3> QED  BY <1>5, <3>1, <3>2 DEF CudaFirst, f, k
  <2>4. CASE q = <<k("own"), f, k("attend")>>
    <3>1. Head(q) = k("own") /\ Tail(q) = <<f, k("attend")>>
      BY <2>4, ThreeQueued, Zenon
    <3>3. Tail(q) # <<>> /\ Head(Tail(q)) = f
      BY <3>1, TwoQueued, Zenon
    <3>2. Tail(q) \in CudaQueues(r, i, b)
      BY <2>1, <3>1, Zenon
    <3> QED  BY <1>5, <3>1, <3>2, <3>3 DEF CudaFirst, f, k
  <2> QED  BY <2>1, <2>2, <2>3, <2>4
<1>6. CASE i \in 17 .. 19
  <2>1. q = <<c(b)>> /\ <<>> \in CudaQueues(r, i, b)
    BY <1>6 DEF CudaQueues
  <2>2. Head(q) = c(b) /\ Tail(q) = <<>>
    BY <2>1, OneQueued, TwoQueued, ThreeQueued, Zenon
  <2> QED  BY <1>6, <2>1, <2>2 DEF CudaFirst
<1>7. CASE i \in {3, 4, 13, 14, 15, 16}
  BY <1>7 DEF CudaQueues
<1> QED  BY <1>1, <1>2, <1>3, <1>4, <1>5, <1>6, <1>7

LEMMA MetalHeads ==
    ASSUME NEW r \in Ranks, NEW i \in 1 .. 20, NEW b \in Int, NEW q \in MetalQueues(r, i, b),
           q # <<>>
    PROVE  /\ Tail(q) \in MetalQueues(r, i, b)
           /\ MetalFirst(r, i, b, Head(q), Tail(q))
<1> DEFINE c == Bring(r, "Received", b)
           f == Bring(r, "Normalized", b)
           k(op) == Kernel(op, b)
<1>1. \A a : Head(<<a>>) = a /\ Tail(<<a>>) = <<>>
  BY OneQueued, TwoQueued, ThreeQueued, Zenon
<1>2. CASE i \in 2 .. 3
  <2>1. q = <<k("pack")>> /\ <<>> \in MetalQueues(r, i, b)
    BY <1>2 DEF MetalQueues
  <2>2. Head(q) = k("pack") /\ Tail(q) = <<>>
    BY <1>1, <2>1, Zenon
  <2> QED  BY <1>2, <2>1, <2>2 DEF MetalFirst
<1>3. CASE i = 8
  <2>1. q = <<f>> /\ <<>> \in MetalQueues(r, i, b)
    BY <1>3 DEF MetalQueues
  <2>2. Head(q) = f /\ Tail(q) = <<>>
    BY <1>1, <2>1, Zenon
  <2> QED  BY <1>3, <2>1, <2>2 DEF MetalFirst
<1>4. CASE i = 12
  <2>1. q = <<k("attend")>> /\ <<>> \in MetalQueues(r, i, b)
    BY <1>4 DEF MetalQueues
  <2>2. Head(q) = k("attend") /\ Tail(q) = <<>>
    BY <1>1, <2>1, Zenon
  <2> QED  BY <1>4, <2>1, <2>2 DEF MetalFirst
<1>5. CASE i = 17
  <2>1. q = <<c>> /\ <<>> \in MetalQueues(r, i, b)
    BY <1>5 DEF MetalQueues
  <2>2. Head(q) = c /\ Tail(q) = <<>>
    BY <1>1, <2>1, Zenon
  <2> QED  BY <1>5, <2>1, <2>2 DEF MetalFirst
<1>6. CASE i = 18
  <2>1. /\ q \in {<<k("unpack")>>, <<c, k("unpack")>>}
        /\ MetalQueues(r, i, b) = {<<>>, <<k("unpack")>>, <<c, k("unpack")>>}
    BY <1>6 DEF MetalQueues
  <2> HIDE DEF c, k
  <2>2. CASE q = <<k("unpack")>>
    <3>1. Head(q) = k("unpack") /\ Tail(q) = <<>>
      BY <1>1, <2>2, Zenon
    <3>2. Tail(q) \in MetalQueues(r, i, b)
      BY <2>1, <3>1, Zenon
    <3> QED  BY <1>6, <3>1, <3>2 DEF MetalFirst, k
  <2>3. CASE q = <<c, k("unpack")>>
    <3>1. Head(q) = c /\ Tail(q) = <<k("unpack")>>
      BY <2>3, OneQueued, TwoQueued, ThreeQueued, Zenon
    <3>2. Tail(q) \in MetalQueues(r, i, b)
      BY <2>1, <3>1, Zenon
    <3> QED  BY <1>6, <3>1, <3>2 DEF MetalFirst, c, k
  <2> QED  BY <2>1, <2>2, <2>3
<1>7. CASE i \in {1, 4, 5, 6, 7, 9, 10, 11, 13, 14, 15, 16, 19, 20}
  BY <1>7 DEF MetalQueues
<1> QED  BY <1>2, <1>3, <1>4, <1>5, <1>6, <1>7

LEMMA QueueType ==
    ASSUME NEW r \in Ranks, NEW i, NEW b, NEW q \in Queues(r, i, b)
    PROVE  \E S : q \in Seq(S)
<1> DEFINE S == {Kernel(op, n) : op \in {"pack", "own", "attend", "unpack"}, n \in {b - 1, b}}
                  \cup {Bring(r, region, n) : region \in Regions, n \in {b - 1, b}}
<1>1. /\ \A op \in {"pack", "own", "attend", "unpack"} : \A n \in {b - 1, b} : Kernel(op, n) \in S
      /\ \A region \in {"Normalized", "Received"} : \A n \in {b - 1, b} : Bring(r, region, n) \in S
  BY DEF Regions
<1> HIDE DEF S
<1>2. \A x, y, z \in S : <<>> \in Seq(S) /\ <<x>> \in Seq(S) /\ <<x, y>> \in Seq(S)
                           /\ <<x, y, z>> \in Seq(S)
  OBVIOUS
<1>3. CASE r \in Metal
  <2>1. q \in MetalQueues(r, i, b)
    BY <1>3 DEF Queues
  <2>2. q \in Seq(S)
    BY <1>1, <1>2, <2>1, Zenon DEF MetalQueues
  <2> QED  BY <2>2
<1>4. CASE r \notin Metal
  <2>1. q \in CudaQueues(r, i, b)
    BY <1>4 DEF Queues
  <2>2. CASE i \in {1, 2}
    BY <1>1, <1>2, <2>1, <2>2, ZenonT(60) DEF CudaQueues
  <2>3. CASE i \notin {1, 2}
    <3>1. \/ q \in {<<>>, <<Kernel("own", b)>>}
          \/ q \in {<<>>, <<Bring(r, "Normalized", b)>>,
                    <<Kernel("own", b), Bring(r, "Normalized", b)>>}
          \/ q \in {<<>>, <<Kernel("attend", b)>>,
                    <<Bring(r, "Normalized", b), Kernel("attend", b)>>,
                    <<Kernel("own", b), Bring(r, "Normalized", b), Kernel("attend", b)>>}
          \/ q \in {<<>>, <<Bring(r, "Received", b)>>}
      BY <2>1, <2>3, Zenon DEF CudaQueues
    <3> QED  BY <1>1, <1>2, <3>1, ZenonT(60)
  <2> QED  BY <2>2, <2>3
<1> QED  BY <1>3, <1>4

LEMMA HeadStays ==
    ASSUME NEW q, NEW k, \E S : q \in Seq(S)
    PROVE  /\ Append(q, k) # <<>>
           /\ Head(Append(q, k)) = IF q = <<>> THEN k ELSE Head(q)
<1>1. PICK S : q \in Seq(S)
  OBVIOUS
<1>2. q \in Seq(S \cup {k}) /\ k \in S \cup {k}
  BY <1>1
<1>3. /\ Append(q, k) \in Seq(S \cup {k}) /\ Append(q, k) # <<>>
      /\ Len(Append(q, k)) = Len(q) + 1
      /\ \A i \in 1 .. Len(q) : Append(q, k)[i] = q[i]
      /\ Append(q, k)[Len(q) + 1] = k
  BY <1>2, AppendProperties
<1>4. Head(Append(q, k)) = Append(q, k)[1]
  BY <1>3
<1>5. CASE q = <<>>
  BY <1>3, <1>4, <1>5
<1>6. CASE q # <<>>
  <2>1. Len(q) \in Nat \ {0} /\ Head(q) = q[1]
    BY <1>2, <1>6
  <2> QED  BY <1>3, <1>4, <1>6, <2>1
<1> QED  BY <1>3, <1>5, <1>6

LEMMA KernelOps ==
    /\ \A op, b : Kernel(op, b).op = op /\ Kernel(op, b).block = b
    /\ \A r, region, b : Bring(r, region, b).op = "upload" /\ Bring(r, region, b).block = b
BY DEF Kernel, Bring

(* What the kernel a card comes to next may be when the thread is at place i. *)
OpsAt(r, i) ==
    IF r \in Metal
    THEN CASE i \in 2 .. 3 -> {"none", "pack"}
           [] i = 8 -> {"none", "upload"}
           [] i = 12 -> {"none", "attend"}
           [] i = 17 -> {"none", "upload"}
           [] i = 18 -> {"none", "upload", "unpack"}
           [] OTHER -> {"none"}
    ELSE CASE i = 1 -> {"none", "upload", "unpack"}
           [] i = 2 -> {"none", "upload", "unpack", "pack"}
           [] i \in 5 .. 8 -> {"none", "own"}
           [] i \in 9 .. 11 -> {"none", "own", "upload"}
           [] i = 12 -> {"none", "own", "upload", "attend"}
           [] i \in 17 .. 19 -> {"none", "upload"}
           [] OTHER -> {"none"}

LEMMA NextOpIs ==
    ASSUME NEW r \in Ranks, NEW i, r \in Metal => i \in 1 .. 20, r \notin Metal => i \in 1 .. 19,
           NEW b \in Int, NEW q \in Queues(r, i, b), q # <<>>
    PROVE  Head(q).op \in OpsAt(r, i) \ {"none"}
<1>1. CASE r \in Metal
  <2>1. q \in MetalQueues(r, i, b) /\ i \in 1 .. 20
    BY <1>1 DEF Queues
  <2>2. MetalFirst(r, i, b, Head(q), Tail(q))
    BY <2>1, MetalHeads
  <2> QED  BY <1>1, <2>2, KernelOps DEF OpsAt, MetalFirst
<1>2. CASE r \notin Metal
  <2>1. q \in CudaQueues(r, i, b) /\ i \in 1 .. 19
    BY <1>2 DEF Queues
  <2>2. CudaFirst(r, i, b, Head(q), Tail(q))
    BY <2>1, CudaHeads
  <2>3. \/ i \in 1 .. 2 /\ Head(q) = Kernel("unpack", b - 1)
        \/ i \in 1 .. 2 /\ Head(q) = Bring(r, "Received", b - 1)
        \/ i = 2 /\ Head(q) = Kernel("pack", b)
        \/ i \in 5 .. 12 /\ Head(q) = Kernel("own", b)
        \/ i \in 9 .. 12 /\ Head(q) = Bring(r, "Normalized", b)
        \/ i = 12 /\ Head(q) = Kernel("attend", b)
        \/ i \in 17 .. 19 /\ Head(q) = Bring(r, "Received", b)
    BY <2>2, Zenon DEF CudaFirst
  <2> QED  BY <1>2, <2>3, KernelOps, SMTT(60) DEF OpsAt
<1> QED  BY <1>1, <1>2

LEMMA QueuePasses ==
    ASSUME TypesHold, NEW r \in Ranks, Stands(r), QueueHolds(r), UNCHANGED setting,
           NEW op, At(r, op), GoOn(r), QueueMoves(r, op)
    PROVE  /\ QueueHolds(r)'
           /\ DOMAIN kernels' = Ranks
           /\ \A q \in Ranks \ {r} : kernels'[q] = kernels[q]
           /\ NextOp(r) \in OpsAt(r, pc[r])
           /\ NextOp(r)' = IF op \in Queueing /\ NextOp(r) = "none"
                           THEN Queued(r, op).op ELSE NextOp(r)
           /\ op = "drain" => NextOp(r) = "none"
<1>1. /\ pc[r] \in PlacesOf(r, op)
      /\ pc[r] \in 1 .. LengthOf(r)
      /\ block[r] \in 1 .. Blocks
      /\ Moves(r)
  BY Going
<1>2. /\ pc'[r] = IF pc[r] = LengthOf(r) THEN 1 ELSE pc[r] + 1
      /\ block'[r] = IF pc[r] = LengthOf(r) THEN block[r] + 1 ELSE block[r]
  BY <1>1 DEF Moves, TypesHold
<1>3. block[r] \in Int
  BY <1>1
<1>4. /\ kernels'[r] = IF op \in Queueing THEN Append(kernels[r], Queued(r, op)) ELSE kernels[r]
      /\ DOMAIN kernels' = Ranks
      /\ \A q \in Ranks \ {r} : kernels'[q] = kernels[q]
  BY DEF QueueMoves, TypesHold
<1>5. op = "drain" => kernels[r] = <<>>
  BY DEF QueueMoves
<1> DEFINE i2 == IF pc[r] = LengthOf(r) THEN 1 ELSE pc[r] + 1
           b2 == IF pc[r] = LengthOf(r) THEN block[r] + 1 ELSE block[r]
<1>6. kernels[r] \in Queues(r, pc[r], block[r])
  BY DEF QueueHolds
<1>7. /\ op = "fetch" => Queued(r, op) = Bring(r, "Normalized", block[r])
      /\ op = "collect" => Queued(r, op) = Bring(r, "Received", block[r])
      /\ op \notin {"fetch", "collect"} => Queued(r, op) = Kernel(op, block[r])
  BY DEF Queued
<1>8. kernels'[r] \in Queues(r, i2, b2)
  <2>1. CASE r \in Metal
    <3>1. /\ pc[r] \in MetalPlaces(op) /\ pc[r] \in 1 .. 20 /\ LengthOf(r) = 20
          /\ kernels[r] \in MetalQueues(r, pc[r], block[r])
      BY <1>1, <1>6, <2>1 DEF PlacesOf, LengthOf, Queues
    <3>2. /\ op \in Queueing => Append(kernels[r], Queued(r, op)) \in
                MetalQueues(r, pc[r] + 1, block[r]) /\ pc[r] < 20
          /\ op \notin Queueing => kernels[r] \in
                MetalQueues(r, IF pc[r] = 20 THEN 1 ELSE pc[r] + 1,
                               IF pc[r] = 20 THEN block[r] + 1 ELSE block[r])
      BY <1>3, <1>5, <1>7, <3>1, MetalQueueGoes
    <3> QED  BY <1>4, <2>1, <3>1, <3>2 DEF Queues
  <2>2. CASE r \notin Metal
    <3>1. /\ pc[r] \in CudaPlaces(op) /\ pc[r] \in 1 .. 19 /\ LengthOf(r) = 19
          /\ kernels[r] \in CudaQueues(r, pc[r], block[r])
      BY <1>1, <1>6, <2>2 DEF PlacesOf, LengthOf, Queues
    <3>2. /\ op \in Queueing => Append(kernels[r], Queued(r, op)) \in
                CudaQueues(r, IF pc[r] = 19 THEN 1 ELSE pc[r] + 1,
                              IF pc[r] = 19 THEN block[r] + 1 ELSE block[r])
          /\ op \notin Queueing => kernels[r] \in CudaQueues(r, pc[r] + 1, block[r]) /\ pc[r] < 19
      BY <1>3, <1>5, <1>7, <3>1, CudaQueueGoes
    <3> QED  BY <1>4, <2>2, <3>1, <3>2 DEF Queues
  <2> QED  BY <2>1, <2>2
<1>9. QueueHolds(r)'
  BY <1>2, <1>8, SettingStays DEF QueueHolds
<1>10. /\ NextOp(r) \in OpsAt(r, pc[r])
       /\ NextOp(r) = "none" <=> kernels[r] = <<>>
  <2>1. (r \in Metal => pc[r] \in 1 .. 20) /\ (r \notin Metal => pc[r] \in 1 .. 19)
    BY <1>1 DEF LengthOf
  <2>2. kernels[r] # <<>> => Head(kernels[r]).op \in OpsAt(r, pc[r]) \ {"none"}
    BY <1>3, <1>6, <2>1, NextOpIs
  <2>3. "none" \in OpsAt(r, pc[r])
    BY DEF OpsAt
  <2> QED  BY <2>2, <2>3 DEF NextOp
<1>11. NextOp(r)' = IF op \in Queueing /\ NextOp(r) = "none"
                    THEN Queued(r, op).op ELSE NextOp(r)
  <2>1. CASE op \in Queueing
    <3>1. /\ kernels'[r] # <<>>
          /\ Head(kernels'[r]) = IF kernels[r] = <<>> THEN Queued(r, op) ELSE Head(kernels[r])
      BY <1>4, <1>6, <2>1, QueueType, HeadStays
    <3> QED  BY <1>10, <2>1, <3>1 DEF NextOp
  <2>2. CASE op \notin Queueing
    BY <1>4, <2>2 DEF NextOp
  <2> QED  BY <2>1, <2>2
<1> QED  BY <1>4, <1>5, <1>9, <1>10, <1>11 DEF NextOp

(* What a rank's memory holds of its own, and has been brought from others,   *)
(* as its thread goes on.                                                    *)
LEMMA OwnPasses ==
    ASSUME TypesHold, NEW r \in Ranks, Stands(r), QueueHolds(r), UNCHANGED setting,
           NEW op, At(r, op), GoOn(r), QueueMoves(r, op), OwnRows(r), Brought(r),
           out' = out,
           \A region \in Regions, q \in Ranks :
               mem'[r][Dev(region, q)] = mem[r][Dev(region, q)],
           Far(r) # {} => mem'[r][Host("Normalized", r)] =
               IF op = "publish" THEN block[r] ELSE mem[r][Host("Normalized", r)],
           \A p \in Far(r) : mem'[r][Host("Attended", p)] =
               IF op = "return" THEN block[r] ELSE mem[r][Host("Attended", p)]
    PROVE  OwnRows(r)' /\ Brought(r)'
<1>1. /\ pc[r] \in PlacesOf(r, op)
      /\ pc[r] \in 1 .. LengthOf(r)
      /\ block[r] \in 1 .. Blocks
      /\ Moves(r)
  BY Going
<1>2. /\ pc'[r] = IF pc[r] = LengthOf(r) THEN 1 ELSE pc[r] + 1
      /\ block'[r] = IF pc[r] = LengthOf(r) THEN block[r] + 1 ELSE block[r]
  BY <1>1 DEF Moves, TypesHold
<1>3. /\ NextOp(r) \in OpsAt(r, pc[r])
      /\ NextOp(r)' = IF op \in Queueing /\ NextOp(r) = "none"
                      THEN Queued(r, op).op ELSE NextOp(r)
      /\ op = "drain" => NextOp(r) = "none"
  BY QueuePasses
<1>4. /\ op \in {"fetch", "collect"} => Queued(r, op).op = "upload"
      /\ op \notin {"fetch", "collect"} => Queued(r, op).op = op
  BY KernelOps DEF Queued
<1>5. block[r] \in Int /\ pc[r] \in Int
  BY <1>1
<1>6. Metal' = Metal /\ ReadsHost' = ReadsHost /\ Far(r)' = Far(r)
  BY SettingStays DEF Far, IsLocal
<1>7. r \in Metal => pc[r] \in MetalPlaces(op) /\ LengthOf(r) = 20
  BY <1>1 DEF PlacesOf, LengthOf
<1>8. r \notin Metal => pc[r] \in CudaPlaces(op) /\ LengthOf(r) = 19
  BY <1>1 DEF PlacesOf, LengthOf
<1>9. mem'[r][Dev("Normalized", r)] = Since(r, Packed(r))'
  <2>1. mem'[r][Dev("Normalized", r)] = Since(r, Packed(r))
    BY DEF OwnRows, Regions
  <2>2. CASE r \in Metal
    <3>1. CASE pc[r] = 20
      <4>1. Packed(r) /\ ~Packed(r)'
        BY <1>2, <1>7, <2>2, <3>1 DEF Packed
      <4> QED  BY <1>2, <1>5, <1>7, <2>1, <2>2, <3>1, <4>1 DEF Since
    <3>2. CASE pc[r] # 20
      <4>1. Packed(r)' <=> Packed(r)
        BY <1>1, <1>2, <1>3, <1>4, <1>7, <2>2, <3>2 DEF Packed, MetalPlaces, Queueing
      <4> QED  BY <1>2, <1>7, <2>1, <2>2, <3>2, <4>1 DEF Since
    <3> QED  BY <3>1, <3>2
  <2>3. CASE r \notin Metal
    <3>1. CASE pc[r] = 19
      <4>1. Packed(r) /\ ~Packed(r)'
        BY <1>2, <1>8, <2>3, <3>1 DEF Packed
      <4> QED  BY <1>2, <1>5, <1>8, <2>1, <2>3, <3>1, <4>1 DEF Since
    <3>2. CASE pc[r] # 19
      <4>1. Packed(r)' <=> Packed(r)
        BY <1>1, <1>2, <1>3, <1>4, <1>8, <2>3, <3>2 DEF Packed, CudaPlaces, Queueing, OpsAt
      <4> QED  BY <1>2, <1>8, <2>1, <2>3, <3>2, <4>1 DEF Since
    <3> QED  BY <3>1, <3>2
  <2> QED  BY <2>2, <2>3
<1>10. (Far(r) # {} => mem[r][Host("Normalized", r)] = Since(r, pc[r] > PublishAt(r)))'
  <2> SUFFICES ASSUME Far(r) # {}
               PROVE  mem'[r][Host("Normalized", r)] = Since(r, pc[r] > PublishAt(r))'
    BY <1>6
  <2>1. mem[r][Host("Normalized", r)] = Since(r, pc[r] > PublishAt(r))
    BY DEF OwnRows
  <2>2. mem'[r][Host("Normalized", r)] =
           IF op = "publish" THEN block[r] ELSE Since(r, pc[r] > PublishAt(r))
    BY <2>1
  <2>3. CASE r \in Metal
    <3>1. op = "publish" <=> pc[r] = 2
      BY <1>7, <2>3 DEF MetalPlaces
    <3> QED  BY <1>1, <1>2, <1>5, <1>6, <1>7, <2>2, <2>3, <3>1 DEF Since, PublishAt
  <2>4. CASE r \notin Metal
    <3>1. op = "publish" <=> pc[r] = 3
      BY <1>8, <2>4 DEF CudaPlaces
    <3> QED  BY <1>1, <1>2, <1>5, <1>6, <1>8, <2>2, <2>4, <3>1 DEF Since, PublishAt
  <2> QED  BY <2>3, <2>4
<1>11. \A q \in Ranks : mem'[r][Dev("Attended", q)] = Since(r, AttendedAll(r))'
  <2> SUFFICES ASSUME NEW q \in Ranks
               PROVE  mem'[r][Dev("Attended", q)] = Since(r, AttendedAll(r))'
    OBVIOUS
  <2>1. mem'[r][Dev("Attended", q)] = Since(r, AttendedAll(r))
    BY DEF OwnRows, Regions
  <2>2. CASE pc[r] = LengthOf(r)
    <3>1. AttendedAll(r) /\ ~AttendedAll(r)'
      BY <1>2, <2>2 DEF AttendedAll, LengthOf
    <3> QED  BY <1>2, <1>5, <2>1, <2>2, <3>1 DEF Since
  <2>3. CASE pc[r] # LengthOf(r)
    <3>1. AttendedAll(r)' <=> AttendedAll(r)
      <4>1. pc[r] = 11 => op = "attend"
        BY <1>7, <1>8 DEF MetalPlaces, CudaPlaces
      <4>2. pc[r] = 12 => op = "drain"
        BY <1>7, <1>8 DEF MetalPlaces, CudaPlaces
      <4> QED  BY <1>2, <1>3, <1>4, <1>5, <2>3, <4>1, <4>2 DEF AttendedAll, Queueing
    <3> QED  BY <1>2, <2>1, <2>3, <3>1 DEF Since
  <2> QED  BY <2>2, <2>3
<1>12. (pc[r] > 13 => \A p \in Far(r) : mem[r][Host("Attended", p)] = block[r])'
  <2> SUFFICES ASSUME pc'[r] > 13, NEW p \in Far(r)
               PROVE  mem'[r][Host("Attended", p)] = block'[r]
    BY <1>6
  <2>1. pc'[r] = pc[r] + 1 /\ block'[r] = block[r]
    BY <1>2
  <2>2. CASE op = "return"
    BY <2>1, <2>2
  <2>3. CASE op # "return"
    <3>1. pc[r] # 13
      BY <1>7, <1>8, <2>3 DEF MetalPlaces, CudaPlaces
    <3>2. pc[r] > 13
      BY <1>5, <2>1, <3>1
    <3> QED  BY <2>1, <2>3, <3>2 DEF OwnRows
  <2> QED  BY <2>2, <2>3
<1>13. out'[r] = OutputIs(r)'
  <2>1. out'[r] = OutputIs(r)
    BY DEF OwnRows
  <2>2. CASE r \in Metal
    <3>1. r \in Metal'
      BY <1>6, <2>2
    <3>2. /\ pc[r] = 17 => op = "unpack"
          /\ pc[r] = 18 => op = "drain"
      BY <1>7, <2>2 DEF MetalPlaces
    <3> QED  BY <1>2, <1>3, <1>4, <1>5, <1>7, <2>1, <2>2, <3>1, <3>2
             DEF OutputIs, Since, Queueing
  <2>3. CASE r \notin Metal
    <3>1. r \notin Metal'
      BY <1>6, <2>3
    <3>2. /\ pc[r] = 1 => op = "pack"
          /\ pc[r] = 2 => op = "drain"
          /\ pc[r] = 19 => op = "unpack"
      BY <1>8, <2>3 DEF CudaPlaces
    <3>3. pc[r] = 19 => NextOp(r) \in {"none", "upload"}
      BY <1>3, <2>3 DEF OpsAt
    <3> QED  BY <1>1, <1>2, <1>3, <1>4, <1>5, <1>8, <2>1, <2>3, <3>1, <3>2, <3>3
             DEF OutputIs, Queueing
  <2> QED  BY <2>2, <2>3
<1>14. OwnRows(r)'
  BY <1>9, <1>10, <1>11, <1>12, <1>13 DEF OwnRows
<1>15. ASSUME NEW q \in Far(r), pc'[r] \in SendAt(r)' + 4 .. 12, NextOp(r)' \notin {"own", "upload"}
       PROVE  mem'[r][Dev("Normalized", q)] = block'[r]
  <2>1. mem'[r][Dev("Normalized", q)] = mem[r][Dev("Normalized", q)]
    BY DEF Far, Regions
  <2>2. SendAt(r)' = SendAt(r) /\ SendAt(r) \in 4 .. 5
    BY <1>6 DEF SendAt
  <2>3. pc'[r] = pc[r] + 1 /\ block'[r] = block[r] /\ pc[r] >= SendAt(r) + 3 /\ pc[r] < 12
    BY <1>2, <1>5, <1>15, <2>2
  <2>4. pc[r] # SendAt(r) + 3
    <3> SUFFICES ASSUME pc[r] = SendAt(r) + 3 PROVE FALSE
      OBVIOUS
    <3>1. op = "fetch"
      BY <1>7, <1>8 DEF MetalPlaces, CudaPlaces, SendAt
    <3>2. NextOp(r) \in {"none", "own"}
      BY <1>3 DEF OpsAt, SendAt
    <3> QED  BY <1>3, <1>4, <1>15, <3>1, <3>2 DEF Queueing
  <2>5. pc[r] \in SendAt(r) + 4 .. 12
    BY <1>5, <2>2, <2>3, <2>4
  <2>6. NextOp(r) \notin {"own", "upload"}
    BY <1>3, <1>15
  <2> QED  BY <2>1, <2>3, <2>5, <2>6 DEF Brought
<1>16. ASSUME NEW q \in Far(r), r \notin ReadsHost
       PROVE  \/ (pc'[r] > 16 \/ pc'[r] =< 2) /\ NextOp(r)' = "upload"
              \/ mem'[r][Dev("Received", q)] = Since(r, pc[r] > 16)'
  <2>1. mem'[r][Dev("Received", q)] = mem[r][Dev("Received", q)]
    BY DEF Far, Regions
  <2>2. \/ (pc[r] > 16 \/ pc[r] =< 2) /\ NextOp(r) = "upload"
        \/ mem[r][Dev("Received", q)] = Since(r, pc[r] > 16)
    BY <1>16 DEF Brought
  <2>3. /\ pc[r] = 2 => NextOp(r) # "upload" \/ op = "drain"
        /\ pc[r] = 16 => op = "collect" /\ NextOp(r) = "none"
    BY <1>3, <1>7, <1>8 DEF MetalPlaces, CudaPlaces, OpsAt
  <2>4. CASE pc[r] = LengthOf(r)
    <3>1. pc[r] > 16 /\ pc'[r] = 1 /\ block'[r] - 1 = block[r]
      BY <1>2, <1>5, <2>4 DEF LengthOf
    <3>2. CASE NextOp(r) = "upload"
      BY <1>3, <3>1, <3>2
    <3>3. CASE NextOp(r) # "upload"
      BY <2>1, <2>2, <3>1, <3>3 DEF Since
    <3> QED  BY <3>2, <3>3
  <2>5. CASE pc[r] # LengthOf(r)
    <3>1. pc'[r] = pc[r] + 1 /\ block'[r] = block[r]
      BY <1>2, <2>5
    <3>2. CASE pc[r] = 16
      BY <1>3, <1>4, <2>3, <3>1, <3>2 DEF Queueing
    <3>3. CASE pc[r] # 16
      <4>1. pc'[r] > 16 <=> pc[r] > 16
        BY <1>5, <3>1, <3>3
      <4>2. CASE (pc[r] > 16 \/ pc[r] =< 2) /\ NextOp(r) = "upload"
        BY <1>3, <1>5, <2>3, <3>1, <4>1, <4>2
      <4>3. CASE mem[r][Dev("Received", q)] = Since(r, pc[r] > 16)
        BY <2>1, <3>1, <4>1, <4>3 DEF Since
      <4> QED  BY <2>2, <4>2, <4>3
    <3> QED  BY <3>2, <3>3
  <2> QED  BY <2>4, <2>5
<1>17. Brought(r)'
  BY <1>6, <1>15, <1>16 DEF Brought
<1> QED  BY <1>14, <1>17

-------------------------------------------------------------------------------
(* Where the barriers put one rank when another is at a place.               *)

LEMMA Near ==
    ASSUME TypesHold, \A p \in Ranks : Stands(p), InStep, NEW r \in Ranks, NEW q \in Ranks
    PROVE  /\ block[r] \in Int /\ block[q] \in Int /\ pc[r] \in Int /\ pc[q] \in Int
           /\ 4 * (block[r] - 1) + LeavesIn(r) =< 4 * (block[q] - 1) + EntersIn(q)
           /\ 4 * (block[q] - 1) + LeavesIn(q) =< 4 * (block[r] - 1) + EntersIn(r)
<1>1. block[r] \in Int /\ block[q] \in Int /\ pc[r] \in Int /\ pc[q] \in Int
  BY SMTT(60) DEF TypesHold
<1>2. left[r] =< entered[q] /\ left[q] =< entered[r]
  BY DEF InStep
<1> QED  BY <1>1, <1>2 DEF Stands

(* Ranks between the first and the third barrier of a block are in the same  *)
(* one, and whoever has left the first finds nothing of it still to come.    *)
LEMMA NormalizedTogether ==
    ASSUME TypesHold, \A p \in Ranks : Stands(p), InStep, NEW r \in Ranks, NEW q \in Ranks,
           pc[r] > SendAt(r) + 2, pc[r] =< 14
    PROVE  /\ block[q] = block[r]
           /\ pc[q] > SendAt(q) + 1
           /\ left[r] =< left[q] => pc[q] > SendAt(q) + 2
<1>1. /\ block[r] \in Int /\ block[q] \in Int /\ pc[r] \in Int /\ pc[q] \in Int
      /\ 4 * (block[r] - 1) + LeavesIn(r) =< 4 * (block[q] - 1) + EntersIn(q)
      /\ 4 * (block[q] - 1) + LeavesIn(q) =< 4 * (block[r] - 1) + EntersIn(r)
  BY Near
<1>2. LeavesIn(r) \in 1 .. 2 /\ EntersIn(r) \in 1 .. 2
  <2>1. SendAt(r) \in 4 .. 5 /\ LastEnterAt(r) \in {17, 19}
    BY DEF SendAt, LastEnterAt
  <2> QED  BY <1>1, <2>1 DEF LeavesIn, EntersIn
<1>3. /\ EntersIn(q) \in 0 .. 4 /\ LeavesIn(q) \in 0 .. 4
      /\ EntersIn(q) > 0 => pc[q] > SendAt(q) + 1
      /\ LeavesIn(q) > 0 => pc[q] > SendAt(q) + 2
  <2>1. SendAt(q) \in 4 .. 5 /\ LastEnterAt(q) \in {17, 19}
    BY DEF SendAt, LastEnterAt
  <2> QED  BY <1>1, <2>1 DEF LeavesIn, EntersIn
<1>4. block[q] = block[r] /\ EntersIn(q) > 0
  BY <1>1, <1>2, <1>3
<1>5. left[r] =< left[q] => LeavesIn(q) > 0
  <2>1. left[r] = 4 * (block[r] - 1) + LeavesIn(r) /\ left[q] = 4 * (block[q] - 1) + LeavesIn(q)
    BY DEF Stands
  <2> QED  BY <1>1, <1>2, <1>3, <1>4, <2>1
<1> QED  BY <1>3, <1>4, <1>5

LEMMA ReceivedTogether ==
    ASSUME TypesHold, \A p \in Ranks : Stands(p), InStep, NEW r \in Ranks, NEW q \in Ranks,
           pc[r] > 15 \/ pc[r] =< SendAt(r) + 1
    PROVE  LET b == IF pc[r] > 15 THEN block[r] ELSE block[r] - 1 IN
           \/ block[q] = b /\ pc[q] > 14 /\ (left[r] =< left[q] => pc[q] > 15)
           \/ block[q] = b + 1 /\ pc[q] =< SendAt(q) + 2
<1> DEFINE b == IF pc[r] > 15 THEN block[r] ELSE block[r] - 1
<1>1. /\ block[r] \in Int /\ block[q] \in Int /\ pc[r] \in Int /\ pc[q] \in Int
      /\ 4 * (block[r] - 1) + LeavesIn(r) =< 4 * (block[q] - 1) + EntersIn(q)
      /\ 4 * (block[q] - 1) + LeavesIn(q) =< 4 * (block[r] - 1) + EntersIn(r)
  BY Near
<1>2. /\ 4 * (block[r] - 1) + LeavesIn(r) >= 4 * (b - 1) + 3
      /\ 4 * (block[r] - 1) + EntersIn(r) =< 4 * (b - 1) + 4
  <2>1. SendAt(r) \in 4 .. 5 /\ LastEnterAt(r) \in {17, 19}
    BY DEF SendAt, LastEnterAt
  <2>2. CASE pc[r] > 15
    <3>1. LeavesIn(r) \in 3 .. 4 /\ EntersIn(r) \in 3 .. 4
      BY <1>1, <2>1, <2>2 DEF LeavesIn, EntersIn
    <3> QED  BY <1>1, <2>2, <3>1
  <2>3. CASE ~(pc[r] > 15)
    <3>1. LeavesIn(r) = 0 /\ EntersIn(r) = 0
      BY <1>1, <2>1, <2>3 DEF LeavesIn, EntersIn
    <3> QED  BY <1>1, <2>3, <3>1
  <2> QED  BY <2>2, <2>3
<1>3. SendAt(q) \in 4 .. 5 /\ LastEnterAt(q) \in {17, 19}
  BY DEF SendAt, LastEnterAt
<1>4. /\ EntersIn(q) \in 0 .. 4 /\ LeavesIn(q) \in 0 .. 4
      /\ EntersIn(q) > 2 => pc[q] > 14
      /\ LeavesIn(q) > 2 => pc[q] > 15
      /\ LeavesIn(q) = 0 => pc[q] =< SendAt(q) + 2
  BY <1>1, <1>3 DEF LeavesIn, EntersIn
<1>5. b \in Int
  BY <1>1
<1>6. left[r] = 4 * (block[r] - 1) + LeavesIn(r) /\ left[q] = 4 * (block[q] - 1) + LeavesIn(q)
  BY DEF Stands
<1> HIDE DEF b
<1>7. \/ block[q] = b /\ EntersIn(q) > 2
      \/ block[q] = b + 1 /\ LeavesIn(q) = 0
  <2>1. 4 * (b - 1) + 3 =< 4 * (block[q] - 1) + EntersIn(q)
    <3>1. LeavesIn(r) \in Int
      BY DEF LeavesIn
    <3> QED  BY <1>1, <1>2, <1>4, <1>5, <3>1
  <2>2. 4 * (block[q] - 1) + LeavesIn(q) =< 4 * (b - 1) + 4
    <3>1. EntersIn(r) \in Int
      BY DEF EntersIn
    <3> QED  BY <1>1, <1>2, <1>4, <1>5, <3>1
  <2> QED  BY <1>1, <1>4, <1>5, <2>1, <2>2
<1>8. block[q] = b /\ left[r] =< left[q] => LeavesIn(q) > 2
  <2> SUFFICES ASSUME block[q] = b, left[r] =< left[q] PROVE LeavesIn(q) > 2
    OBVIOUS
  <2>1. LeavesIn(r) \in Int
    BY DEF LeavesIn
  <2>2. 4 * (b - 1) + 3 =< 4 * (b - 1) + LeavesIn(q)
    BY <1>1, <1>2, <1>4, <1>5, <1>6, <2>1
  <2> QED  BY <1>4, <1>5, <2>2
<1> QED  BY <1>4, <1>7, <1>8 DEF b

(* The rows of a write tell its region. *)
LEMMA WritesDiffer ==
    ASSUME NEW q \in Ranks, NEW r \in Ranks, NEW p \in Ranks,
           NEW a \in {"Normalized", "Attended"}, NEW c \in {"Normalized", "Attended"},
           WriteOf(a, q, r) = WriteOf(c, q, p)
    PROVE  a = c /\ r = p
<1>1. WriteOf(a, q, r).to = WriteOf(c, q, p).to /\ WriteOf(a, q, r).into = WriteOf(c, q, p).into
  OBVIOUS
<1>2. r = p /\ Into(Target(a), q, r) = Into(Target(c), q, p)
  BY <1>1 DEF WriteOf, Owed
<1>3. Target(a) = Target(c)
  BY <1>2, SlotsDiffer DEF Into, Target
<1> QED  BY <1>2, <1>3 DEF Target

LEMMA NormalizedIn ==
    ASSUME TypesHold, \A p \in Ranks : Stands(p), InStep, NEW r \in Ranks, NEW q \in Ranks,
           q # r, OwesOnly(q), Arrived(q, r), pc[r] > SendAt(r) + 2, pc[r] =< 14
    PROVE  mem[r][Into("Normalized", q, r)] = block[r]
<1>1. /\ block[q] = block[r]
      /\ pc[q] > SendAt(q) + 1
      /\ left[r] =< left[q] => pc[q] > SendAt(q) + 2
  BY NormalizedTogether
<1>2. pc[q] \in Int /\ SendAt(q) \in Int
  BY SMTT(60) DEF TypesHold, SendAt
<1>3. WriteOf("Normalized", q, r) \notin copies[q]
  <2> SUFFICES ASSUME WriteOf("Normalized", q, r) \in copies[q] PROVE FALSE
    OBVIOUS
  <2> DEFINE w == WriteOf("Normalized", q, r)
  <2>1. w.to = r
    BY DEF WriteOf, Owed
  <2>2. PICK region \in {"Normalized", "Attended"} :
           pc[q] = SentAt(region, q) + 1 /\ w = WriteOf(region, q, r)
    BY <2>1 DEF OwesOnly
  <2>3. region = "Normalized"
    BY <2>2, WritesDiffer
  <2> QED  BY <1>1, <1>2, <2>2, <2>3 DEF SentAt
<1>4. WriteOf("Normalized", q, r) \notin pending[q]
  <2> SUFFICES ASSUME WriteOf("Normalized", q, r) \in pending[q] PROVE FALSE
    OBVIOUS
  <2> DEFINE w == WriteOf("Normalized", q, r)
  <2>1. w.to = r
    BY DEF WriteOf, Owed
  <2>2. PICK region \in {"Normalized", "Attended"} :
           /\ pc[q] \in SentAt(region, q) + 1 .. SentAt(region, q) + 2
           /\ w = WriteOf(region, q, r)
    BY <2>1 DEF OwesOnly
  <2>3. region = "Normalized"
    BY <2>2, WritesDiffer
  <2>4. left[r] =< left[q]
    BY <2>1 DEF OwesOnly
  <2> QED  BY <1>1, <1>2, <2>2, <2>3, <2>4 DEF SentAt
<1> QED  BY <1>1, <1>2, <1>3, <1>4 DEF Arrived, Since, SentAt, Target

LEMMA ReceivedIn ==
    ASSUME TypesHold, \A p \in Ranks : Stands(p), InStep, NEW r \in Ranks, NEW q \in Ranks,
           q # r, OwesOnly(q), Arrived(q, r), pc[r] > 15 \/ pc[r] =< SendAt(r) + 1
    PROVE  mem[r][Into("Received", q, r)] = Since(r, pc[r] > 15)
<1> DEFINE b == IF pc[r] > 15 THEN block[r] ELSE block[r] - 1
<1>1. \/ block[q] = b /\ pc[q] > 14 /\ (left[r] =< left[q] => pc[q] > 15)
      \/ block[q] = b + 1 /\ pc[q] =< SendAt(q) + 2
  BY ReceivedTogether
<1>2. pc[q] \in Int /\ SendAt(q) \in 4 .. 5 /\ b \in Int
  BY SMTT(60) DEF TypesHold, SendAt
<1> HIDE DEF b
<1>3. mem[r][Into("Received", q, r)] =
        Since(q, pc[q] > 13 /\ WriteOf("Attended", q, r) \notin copies[q] \cup pending[q])
  BY DEF Arrived, Target, SentAt
<1>4. CASE block[q] = b + 1 /\ pc[q] =< SendAt(q) + 2
  BY <1>2, <1>3, <1>4 DEF Since, b
<1>5. CASE block[q] = b /\ pc[q] > 14 /\ (left[r] =< left[q] => pc[q] > 15)
  <2> DEFINE w == WriteOf("Attended", q, r)
  <2>1. w.to = r
    BY DEF WriteOf, Owed
  <2>2. w \notin copies[q]
    <3> SUFFICES ASSUME w \in copies[q] PROVE FALSE
      OBVIOUS
    <3>1. PICK region \in {"Normalized", "Attended"} :
             pc[q] = SentAt(region, q) + 1 /\ w = WriteOf(region, q, r)
      BY <2>1 DEF OwesOnly
    <3>2. region = "Attended"
      BY <3>1, WritesDiffer
    <3> QED  BY <1>2, <1>5, <3>1, <3>2 DEF SentAt
  <2>3. w \notin pending[q]
    <3> SUFFICES ASSUME w \in pending[q] PROVE FALSE
      OBVIOUS
    <3>1. PICK region \in {"Normalized", "Attended"} :
             /\ pc[q] \in SentAt(region, q) + 1 .. SentAt(region, q) + 2
             /\ w = WriteOf(region, q, r)
      BY <2>1 DEF OwesOnly
    <3>2. region = "Attended"
      BY <3>1, WritesDiffer
    <3>3. left[r] =< left[q]
      BY <2>1 DEF OwesOnly
    <3> QED  BY <1>2, <1>5, <3>1, <3>2, <3>3 DEF SentAt
  <2> QED  BY <1>2, <1>3, <1>5, <2>2, <2>3 DEF Since, b
<1> QED  BY <1>1, <1>4, <1>5

-------------------------------------------------------------------------------
(* The card comes to a kernel.                                               *)

LEMMA QueueFirst ==
    ASSUME NEW r \in Ranks, TypesHold, Stands(r), QueueHolds(r), kernels[r] # <<>>
    PROVE  /\ Tail(kernels[r]) \in Queues(r, pc[r], block[r])
           /\ r \in Metal =>
                MetalFirst(r, pc[r], block[r], Head(kernels[r]), Tail(kernels[r]))
           /\ r \notin Metal =>
                CudaFirst(r, pc[r], block[r], Head(kernels[r]), Tail(kernels[r]))
           /\ NextOp(r) = Head(kernels[r]).op
<1>1. /\ r \in Metal => pc[r] \in 1 .. 20
      /\ r \notin Metal => pc[r] \in 1 .. 19
      /\ block[r] \in Int
  <2>1. pc[r] \in 1 .. LengthOf(r) /\ block[r] \in 1 .. Blocks + 1
    BY DEF Stands
  <2>2. block[r] \in Int
    BY <2>1, ShardBlockAssumption
  <2> QED  BY <2>1, <2>2 DEF LengthOf
<1>2. kernels[r] \in Queues(r, pc[r], block[r])
  BY DEF QueueHolds
<1>3. NextOp(r) = Head(kernels[r]).op
  BY DEF NextOp
<1>4. CASE r \in Metal
  <2>1. kernels[r] \in MetalQueues(r, pc[r], block[r])
    BY <1>2, <1>4 DEF Queues
  <2>2. /\ Tail(kernels[r]) \in MetalQueues(r, pc[r], block[r])
        /\ MetalFirst(r, pc[r], block[r], Head(kernels[r]), Tail(kernels[r]))
    BY <1>1, <1>4, <2>1, MetalHeads
  <2> QED  BY <1>3, <1>4, <2>2 DEF Queues
<1>5. CASE r \notin Metal
  <2>1. kernels[r] \in CudaQueues(r, pc[r], block[r])
    BY <1>2, <1>5 DEF Queues
  <2>2. /\ Tail(kernels[r]) \in CudaQueues(r, pc[r], block[r])
        /\ CudaFirst(r, pc[r], block[r], Head(kernels[r]), Tail(kernels[r]))
    BY <1>1, <1>5, <2>1, CudaHeads
  <2> QED  BY <1>3, <1>5, <2>2 DEF Queues
<1> QED  BY <1>4, <1>5

(* The kernel behind the one a card comes to. *)
After(r) == IF Tail(kernels[r]) = <<>> THEN "none" ELSE Head(Tail(kernels[r])).op

(* The kernel a card comes to, by its kind. *)
KernelKind(r, k, i, b) ==
    \/ i \in 2 .. 3 /\ k = Kernel("pack", b) /\ After(r) = "none"
    \/ /\ r \notin Metal /\ i \in 5 .. 12 /\ k = Kernel("own", b)
       /\ After(r) = IF i > 8 THEN "upload" ELSE "none"
    \/ /\ i \in SendAt(r) + 4 .. 12 /\ k = Bring(r, "Normalized", b)
       /\ After(r) = IF i = 12 THEN "attend" ELSE "none"
    \/ i = 12 /\ k = Kernel("attend", b) /\ After(r) = "none"
    \/ /\ i \in 17 .. LengthOf(r) /\ k = Bring(r, "Received", b)
       /\ After(r) = IF r \in Metal /\ i = 18 THEN "unpack" ELSE "none"
    \/ /\ r \notin Metal /\ i \in 1 .. 2 /\ k = Bring(r, "Received", b - 1)
       /\ After(r) = "unpack"
    \/ /\ r \notin Metal /\ i \in 1 .. 2 /\ k = Kernel("unpack", b - 1)
       /\ After(r) = IF i = 2 THEN "pack" ELSE "none"
    \/ r \in Metal /\ i = 18 /\ k = Kernel("unpack", b) /\ After(r) = "none"

LEMMA KernelKinds ==
    ASSUME NEW r \in Ranks, TypesHold, Stands(r), QueueHolds(r), kernels[r] # <<>>
    PROVE  KernelKind(r, Head(kernels[r]), pc[r], block[r])
<1> DEFINE k == Head(kernels[r])
           rest == Tail(kernels[r])
           b == block[r]
           i == pc[r]
<1>1. /\ \A op, n : <<Kernel(op, n)>> # <<>> /\ Head(<<Kernel(op, n)>>) = Kernel(op, n)
      /\ After(r) = IF rest = <<>> THEN "none" ELSE Head(rest).op
  BY OneQueued, Zenon DEF After
<1>2. CASE r \in Metal
  <2>1. MetalFirst(r, i, b, k, rest)
    BY <1>2, QueueFirst
  <2>2. SendAt(r) = 4 /\ LengthOf(r) = 20 /\ i \in Int
    BY <1>2 DEF SendAt, LengthOf, Stands
  <2>3. \/ i \in 2 .. 3 /\ k = Kernel("pack", b) /\ rest = <<>>
        \/ i = 8 /\ k = Bring(r, "Normalized", b) /\ rest = <<>>
        \/ i = 12 /\ k = Kernel("attend", b) /\ rest = <<>>
        \/ i \in 17 .. 18 /\ k = Bring(r, "Received", b) /\ i = 17 /\ rest = <<>>
        \/ i \in 17 .. 18 /\ k = Bring(r, "Received", b) /\ i # 17 /\ rest = <<Kernel("unpack", b)>>
        \/ i = 18 /\ k = Kernel("unpack", b) /\ rest = <<>>
    BY <2>1, Zenon DEF MetalFirst
  <2> HIDE DEF k, rest, b, i
  <2>4. \/ i \in 2 .. 3 /\ k = Kernel("pack", b) /\ After(r) = "none"
        \/ i = 8 /\ k = Bring(r, "Normalized", b) /\ After(r) = "none"
        \/ i = 12 /\ k = Kernel("attend", b) /\ After(r) = "none"
        \/ i = 17 /\ k = Bring(r, "Received", b) /\ After(r) = "none"
        \/ i = 18 /\ k = Bring(r, "Received", b) /\ After(r) = "unpack"
        \/ i = 18 /\ k = Kernel("unpack", b) /\ After(r) = "none"
    BY <1>1, <2>2, <2>3, KernelOps
  <2> QED  BY <1>2, <2>2, <2>4 DEF KernelKind, k, i, b
<1>3. CASE r \notin Metal
  <2>1. CudaFirst(r, i, b, k, rest)
    BY <1>3, QueueFirst
  <2>2. SendAt(r) = 5 /\ LengthOf(r) = 19 /\ i \in Int
    BY <1>3 DEF SendAt, LengthOf, Stands
  <2>3. \/ /\ i \in 1 .. 2 /\ k = Kernel("unpack", b - 1)
           /\ (i = 1 /\ rest = <<>>) \/ (i # 1 /\ rest = <<Kernel("pack", b)>>)
        \/ /\ i \in 1 .. 2 /\ k = Bring(r, "Received", b - 1)
           /\ rest # <<>> /\ Head(rest) = Kernel("unpack", b - 1)
        \/ i = 2 /\ k = Kernel("pack", b) /\ rest = <<>>
        \/ /\ i \in 5 .. 12 /\ k = Kernel("own", b)
           /\ \/ i \in 5 .. 8 /\ rest = <<>>
              \/ i \notin 5 .. 8 /\ rest # <<>> /\ Head(rest) = Bring(r, "Normalized", b)
        \/ /\ i \in 9 .. 12 /\ k = Bring(r, "Normalized", b)
           /\ (i = 12 /\ rest = <<Kernel("attend", b)>>) \/ (i # 12 /\ rest = <<>>)
        \/ i = 12 /\ k = Kernel("attend", b) /\ rest = <<>>
        \/ i \in 17 .. 19 /\ k = Bring(r, "Received", b) /\ rest = <<>>
    BY <2>1, Zenon DEF CudaFirst
  <2> HIDE DEF k, rest, b, i
  <2>4. \/ /\ i \in 1 .. 2 /\ k = Kernel("unpack", b - 1)
           /\ After(r) = IF i = 2 THEN "pack" ELSE "none"
        \/ i \in 1 .. 2 /\ k = Bring(r, "Received", b - 1) /\ After(r) = "unpack"
        \/ i = 2 /\ k = Kernel("pack", b) /\ After(r) = "none"
        \/ /\ i \in 5 .. 12 /\ k = Kernel("own", b)
           /\ After(r) = IF i > 8 THEN "upload" ELSE "none"
        \/ /\ i \in 9 .. 12 /\ k = Bring(r, "Normalized", b)
           /\ After(r) = IF i = 12 THEN "attend" ELSE "none"
        \/ i = 12 /\ k = Kernel("attend", b) /\ After(r) = "none"
        \/ i \in 17 .. 19 /\ k = Bring(r, "Received", b) /\ After(r) = "none"
    BY <1>1, <2>2, <2>3, KernelOps
  <2> QED  BY <1>3, <2>2, <2>4 DEF KernelKind, k, i, b
<1> QED  BY <1>2, <1>3

LEMMA Reading ==
    ASSUME IInv, NEW r \in Ranks, kernels[r] # <<>>
    PROVE  \A slot \in Reads(r, Head(kernels[r])) : mem[r][slot] = Head(kernels[r]).block
<1> DEFINE k == Head(kernels[r])
           b == block[r]
<1>1. /\ TypesHold /\ Stands(r) /\ QueueHolds(r) /\ OwnRows(r) /\ Brought(r)
      /\ InStep /\ \A p \in Ranks : Stands(p)
      /\ \A q \in Ranks \ {r} : OwesOnly(q) /\ Arrived(q, r)
  BY DEF IInv
<1>2. NextOp(r) = k.op /\ pc[r] \in Int /\ block[r] \in Int
  <2>1. pc[r] \in Int /\ block[r] \in Int
    BY <1>1, Near
  <2>2. NextOp(r) = k.op
    BY DEF NextOp
  <2> QED  BY <2>1, <2>2
<1>3. \/ pc[r] \in 2 .. 3 /\ k = Kernel("pack", b)
      \/ pc[r] \in 5 .. 12 /\ k = Kernel("own", b)
      \/ k = Bring(r, "Normalized", b)
      \/ pc[r] = 12 /\ k = Kernel("attend", b)
      \/ k = Bring(r, "Received", b)
      \/ k = Bring(r, "Received", b - 1)
      \/ r \notin Metal /\ pc[r] \in 1 .. 2 /\ k = Kernel("unpack", b - 1)
      \/ r \in Metal /\ pc[r] = 18 /\ k = Kernel("unpack", b)
  BY <1>1, KernelKinds, Zenon DEF KernelKind
<1>4. /\ \A p, q \in Ranks : IsLocal(p, q) => IsLocal(q, p)
      /\ ReadsHost \cap Metal = {}
  BY <1>1, SettingType DEF TypesHold
<1> HIDE DEF k, b
<1>5. CASE k.op \notin {"own", "attend", "unpack"}
  BY <1>5 DEF Reads, k
<1>6. CASE k.op = "own"
  <2>1. pc[r] \in 5 .. 12 /\ k.block = b
    BY <1>3, <1>6, KernelOps
  <2>2. Reads(r, k) = {Dev("Normalized", r)}
    BY <1>6 DEF Reads
  <2>3. Packed(r)
    BY <2>1 DEF Packed
  <2> QED  BY <1>1, <2>1, <2>2, <2>3 DEF OwnRows, Since, k, b
<1>7. CASE k.op = "attend"
  <2>1. pc[r] = 12 /\ k.block = b
    BY <1>3, <1>7, KernelOps
  <2>2. Reads(r, k) = {Dev("Normalized", q) : q \in Ranks}
    BY <1>7 DEF Reads
  <2>3. SendAt(r) \in 4 .. 5
    BY DEF SendAt
  <2>4. ASSUME NEW q \in Ranks PROVE mem[r][Dev("Normalized", q)] = b
    <3>1. CASE q = r
      <4>1. Packed(r)
        BY <2>1 DEF Packed
      <4> QED  BY <1>1, <3>1, <4>1 DEF OwnRows, Since, b
    <3>2. CASE q # r /\ IsLocal(r, q)
      <4>1. Into("Normalized", q, r) = Dev("Normalized", q)
        BY <1>4, <3>2 DEF Into
      <4>2. pc[r] > SendAt(r) + 2 /\ pc[r] =< 14
        BY <2>1, <2>3
      <4> QED  BY <1>1, <3>2, <4>1, <4>2, NormalizedIn DEF b
    <3>3. CASE q # r /\ ~IsLocal(r, q)
      <4>1. q \in Far(r)
        BY <3>3 DEF Far
      <4>2. pc[r] \in SendAt(r) + 4 .. 12 /\ NextOp(r) \notin {"own", "upload"}
        BY <1>2, <1>7, <2>1, <2>3
      <4> QED  BY <1>1, <4>1, <4>2 DEF Brought, b
    <3> QED  BY <3>1, <3>2, <3>3
  <2> QED  BY <2>1, <2>2, <2>4 DEF k
<1>8. CASE k.op = "unpack"
  <2>1. /\ \/ r \notin Metal /\ pc[r] \in 1 .. 2 /\ k.block = b - 1
           \/ r \in Metal /\ pc[r] = 18 /\ k.block = b
        /\ NextOp(r) = "unpack"
    BY <1>2, <1>3, <1>8, KernelOps
  <2>2. Reads(r, k) = {Dev("Attended", r)} \cup
          {IF OnDevice(r, q) THEN Dev("Received", q) ELSE Host("Received", q) : q \in Others(r)}
    BY <1>8 DEF Reads
  <2>3. k.block = Since(r, pc[r] > 15) /\ k.block = Since(r, pc[r] > 16)
    BY <2>1 DEF Since, b
  <2>4. pc[r] > 15 \/ pc[r] =< SendAt(r) + 1
    BY <2>1 DEF SendAt
  <2>5. mem[r][Dev("Attended", r)] = k.block
    <3>1. AttendedAll(r) <=> pc[r] > 15
      BY <2>1 DEF AttendedAll
    <3> QED  BY <1>1, <2>3, <3>1 DEF OwnRows, Since
  <2>6. ASSUME NEW q \in Others(r)
        PROVE  mem[r][IF OnDevice(r, q) THEN Dev("Received", q) ELSE Host("Received", q)] = k.block
    <3>1. q \in Ranks /\ q # r
      BY DEF Others
    <3>2. mem[r][Into("Received", q, r)] = k.block
      BY <1>1, <2>3, <2>4, <3>1, ReceivedIn
    <3>3. CASE IsLocal(r, q)
      <4>1. Into("Received", q, r) = Dev("Received", q) /\ OnDevice(r, q)
        BY <1>4, <3>1, <3>3 DEF Into, OnDevice
      <4> QED  BY <3>2, <4>1
    <3>4. CASE ~IsLocal(r, q) /\ r \notin ReadsHost
      <4>1. q \in Far(r) /\ OnDevice(r, q)
        BY <3>1, <3>4 DEF Far, OnDevice
      <4>2. mem[r][Dev("Received", q)] = Since(r, pc[r] > 16)
        BY <1>1, <2>1, <3>4, <4>1 DEF Brought
      <4> QED  BY <2>3, <4>1, <4>2
    <3>5. CASE ~IsLocal(r, q) /\ r \in ReadsHost
      <4>1. Into("Received", q, r) = Host("Received", q) /\ ~OnDevice(r, q)
        BY <1>4, <3>1, <3>5 DEF Into, OnDevice
      <4> QED  BY <3>2, <4>1
    <3> QED  BY <3>3, <3>4, <3>5
  <2> QED  BY <2>2, <2>5, <2>6 DEF k
<1> QED  BY <1>5, <1>6, <1>7, <1>8

(* What a kernel changes, given that it finds the rows of its block. *)
LEMMA RunChanges ==
    ASSUME IInv, NEW r \in Ranks, RunKernel(r)
    PROVE  LET k == Head(kernels[r])
               brings(region) == \E b : k = Bring(r, region, b)
           IN
           /\ kernels[r] # <<>>
           /\ kernels'[r] = Tail(kernels[r]) /\ DOMAIN kernels' = Ranks
           /\ \A q \in Ranks \ {r} :
                kernels'[q] = kernels[q] /\ mem'[q] = mem[q] /\ out'[q] = out[q]
           /\ \A region \in Regions, q \in Ranks :
                mem'[r][Host(region, q)] = mem[r][Host(region, q)]
           /\ mem'[r][Dev("Normalized", r)] =
                IF k.op = "pack" THEN k.block ELSE mem[r][Dev("Normalized", r)]
           /\ \A q \in Ranks : mem'[r][Dev("Attended", q)] =
                IF k.op = "attend" THEN k.block ELSE mem[r][Dev("Attended", q)]
           /\ \A q \in Ranks \ {r} : mem'[r][Dev("Normalized", q)] =
                IF q \in Far(r) /\ brings("Normalized") THEN k.block
                ELSE mem[r][Dev("Normalized", q)]
           /\ \A q \in Ranks \ {r} : mem'[r][Dev("Received", q)] =
                IF q \in Far(r) /\ OnDevice(r, q) /\ brings("Received") THEN k.block
                ELSE mem[r][Dev("Received", q)]
           /\ out'[r] = IF k.op = "unpack" THEN k.block ELSE out[r]
           /\ mem' \in [Ranks -> [Slots -> Contents]]
           /\ out' \in [Ranks -> Contents]
<1> DEFINE k == Head(kernels[r])
           brings(region) == \E b : k = Bring(r, region, b)
<1>1. /\ TypesHold /\ Stands(r) /\ QueueHolds(r)
      /\ mem \in [Ranks -> [Slots -> Contents]] /\ out \in [Ranks -> Contents]
      /\ DOMAIN kernels = Ranks
  BY DEF IInv, TypesHold
<1>2. kernels[r] # <<>> /\ kernels' = [kernels EXCEPT ![r] = Tail(@)]
  BY DEF RunKernel
<1>3. Reads(r, k) # {} => Made(r, k) = k.block
  BY <1>2, Reading DEF Made
<1>4. /\ k.op = "attend" => Made(r, k) = k.block
      /\ k.op = "unpack" => Made(r, k) = k.block
  BY <1>2, Reading DEF Made
<1>5. /\ mem'[r] = [slot \in Slots |->
            CASE k.op = "upload" /\ slot \in DOMAIN k.rows -> k.rows[slot]
              [] k.op = "pack" /\ slot = Dev("Normalized", r) -> k.block
              [] k.op = "attend" /\ \E q \in Ranks : slot = Dev("Attended", q) -> Made(r, k)
              [] OTHER -> mem[r][slot]]
      /\ \A q \in Ranks \ {r} : mem'[q] = mem[q]
  BY <1>1 DEF RunKernel
<1>6. /\ out'[r] = IF k.op = "unpack" THEN k.block ELSE out[r]
      /\ \A q \in Ranks \ {r} : out'[q] = out[q]
  BY <1>1, <1>4 DEF RunKernel
<1>7. /\ k.op = "upload" =>
           \E region \in {"Normalized", "Received"} : \E b : k = Bring(r, region, b)
      /\ \A region : brings(region) => k.op = "upload"
  <2>1. KernelKind(r, k, pc[r], block[r])
    BY <1>1, <1>2, KernelKinds
  <2>2. \/ k.op # "upload"
        \/ k = Bring(r, "Normalized", block[r])
        \/ k = Bring(r, "Received", block[r])
        \/ k = Bring(r, "Received", block[r] - 1)
    BY <2>1, KernelOps DEF KernelKind
  <2>3. \A region : brings(region) => k.op = "upload"
    BY KernelOps
  <2> HIDE DEF k
  <2> QED  BY <2>2, <2>3
<1>8. \A region \in {"Normalized", "Received"} : \A b : k = Bring(r, region, b) =>
        /\ k.block = b
        /\ DOMAIN k.rows = {Dev(region, p) : p \in
             {q \in Far(r) : region = "Received" => OnDevice(r, q)}}
        /\ \A slot \in DOMAIN k.rows : k.rows[slot] = b
  BY DEF Bring
<1> HIDE DEF k
<1>9. ASSUME NEW slot \in Slots, ~(k.op = "upload" /\ slot \in DOMAIN k.rows)
      PROVE  mem'[r][slot] = IF k.op = "pack" /\ slot = Dev("Normalized", r) THEN k.block
                             ELSE IF k.op = "attend" /\ \E q \in Ranks : slot = Dev("Attended", q)
                             THEN k.block ELSE mem[r][slot]
  BY <1>4, <1>5, <1>9
<1>10. ASSUME NEW slot \in Slots, k.op = "upload", slot \in DOMAIN k.rows
       PROVE  mem'[r][slot] = k.block
  BY <1>5, <1>7, <1>8, <1>10
<1>11. ASSUME NEW region \in Regions, NEW q \in Ranks
       PROVE  mem'[r][Host(region, q)] = mem[r][Host(region, q)]
  <2>1. Host(region, q) \in Slots /\ ~(k.op = "upload" /\ Host(region, q) \in DOMAIN k.rows)
    BY <1>7, <1>8, SlotsDiffer DEF Far
  <2>2. /\ Host(region, q) # Dev("Normalized", r)
        /\ ~\E p \in Ranks : Host(region, q) = Dev("Attended", p)
    BY SlotsDiffer
  <2> QED  BY <1>9, <2>1, <2>2
<1>12. mem'[r][Dev("Normalized", r)] =
         IF k.op = "pack" THEN k.block ELSE mem[r][Dev("Normalized", r)]
  <2>1. /\ Dev("Normalized", r) \in Slots
        /\ ~(k.op = "upload" /\ Dev("Normalized", r) \in DOMAIN k.rows)
    BY <1>7, <1>8, SlotsDiffer DEF Far
  <2>2. ~\E p \in Ranks : Dev("Normalized", r) = Dev("Attended", p)
    BY SlotsDiffer
  <2> QED  BY <1>9, <2>1, <2>2
<1>13. ASSUME NEW q \in Ranks
       PROVE  mem'[r][Dev("Attended", q)] =
                IF k.op = "attend" THEN k.block ELSE mem[r][Dev("Attended", q)]
  <2>1. /\ Dev("Attended", q) \in Slots
        /\ ~(k.op = "upload" /\ Dev("Attended", q) \in DOMAIN k.rows)
    BY <1>7, <1>8, SlotsDiffer DEF Far
  <2>2. Dev("Attended", q) # Dev("Normalized", r)
    BY SlotsDiffer
  <2> QED  BY <1>9, <2>1, <2>2
<1>14. ASSUME NEW q \in Ranks \ {r}
       PROVE  mem'[r][Dev("Normalized", q)] =
                IF q \in Far(r) /\ brings("Normalized") THEN k.block
                ELSE mem[r][Dev("Normalized", q)]
  <2>1. Dev("Normalized", q) \in Slots /\ Dev("Normalized", q) # Dev("Normalized", r)
          /\ ~\E p \in Ranks : Dev("Normalized", q) = Dev("Attended", p)
    BY SlotsDiffer
  <2>2. k.op = "upload" /\ Dev("Normalized", q) \in DOMAIN k.rows
          <=> q \in Far(r) /\ brings("Normalized")
    <3>1. \A b : k = Bring(r, "Received", b) => Dev("Normalized", q) \notin DOMAIN k.rows
      BY <1>8, SlotsDiffer DEF Far
    <3>2. \A b : k = Bring(r, "Normalized", b) =>
            (Dev("Normalized", q) \in DOMAIN k.rows <=> q \in Far(r))
      BY <1>8, SlotsDiffer DEF Far
    <3> QED  BY <1>7, <3>1, <3>2
  <2> HIDE DEF brings
  <2> QED  BY <1>9, <1>10, <2>1, <2>2
<1>15. ASSUME NEW q \in Ranks \ {r}
       PROVE  mem'[r][Dev("Received", q)] =
                IF q \in Far(r) /\ OnDevice(r, q) /\ brings("Received") THEN k.block
                ELSE mem[r][Dev("Received", q)]
  <2>1. Dev("Received", q) \in Slots /\ Dev("Received", q) # Dev("Normalized", r)
          /\ ~\E p \in Ranks : Dev("Received", q) = Dev("Attended", p)
    BY SlotsDiffer
  <2>2. k.op = "upload" /\ Dev("Received", q) \in DOMAIN k.rows
          <=> q \in Far(r) /\ OnDevice(r, q) /\ brings("Received")
    <3>1. \A b : k = Bring(r, "Normalized", b) => Dev("Received", q) \notin DOMAIN k.rows
      BY <1>8, SlotsDiffer DEF Far
    <3>2. \A b : k = Bring(r, "Received", b) =>
            (Dev("Received", q) \in DOMAIN k.rows <=> q \in Far(r) /\ OnDevice(r, q))
      BY <1>8, SlotsDiffer DEF Far
    <3> QED  BY <1>7, <3>1, <3>2
  <2> HIDE DEF brings
  <2> QED  BY <1>9, <1>10, <2>1, <2>2
<1>16. kernels'[r] = Tail(kernels[r]) /\ DOMAIN kernels' = Ranks
         /\ \A q \in Ranks \ {r} : kernels'[q] = kernels[q]
  BY <1>1, <1>2
<1>17. k.block \in Contents
  <2>1. KernelKind(r, k, pc[r], block[r])
    BY <1>1, <1>2, KernelKinds DEF k
  <2>2. k.block \in {block[r], block[r] - 1}
    BY <2>1, KernelOps DEF KernelKind
  <2>3. block[r] \in 1 .. Blocks + 1
    BY <1>1 DEF TypesHold
  <2> QED  BY <2>2, <2>3, ShardBlockAssumption DEF Contents, Mixed
<1>18. mem' \in [Ranks -> [Slots -> Contents]]
  <2>1. \A slot \in Slots : mem'[r][slot] \in Contents
    BY <1>1, <1>9, <1>10, <1>17
  <2>2. mem'[r] \in [Slots -> Contents]
    BY <1>5, <2>1
  <2>3. mem' = [mem EXCEPT ![r] = mem'[r]]
    BY <1>1, <1>5 DEF RunKernel
  <2> QED  BY <1>1, <2>2, <2>3
<1>19. out' \in [Ranks -> Contents]
  <2>1. out' = [out EXCEPT ![r] = out'[r]]
    BY <1>1 DEF RunKernel
  <2> QED  BY <1>1, <1>6, <1>17, <2>1
<1> HIDE DEF brings
<1> QED  BY <1>2, <1>5, <1>6, <1>11, <1>12, <1>13, <1>14, <1>15, <1>16, <1>18, <1>19 DEF k, brings

LEMMA RunHolds ==
    ASSUME IInv, NEW r \in Ranks, RunKernel(r)
    PROVE  IInv'
<1> DEFINE k == Head(kernels[r])
           i == pc[r]
           b == block[r]
           brings(region) == \E n : k = Bring(r, region, n)
<1>1. /\ TypesHold /\ InStep
      /\ \A q \in Ranks : Stands(q) /\ QueueHolds(q) /\ OwnRows(q) /\ Brought(q) /\ OwesOnly(q)
      /\ \A q, p \in Ranks : q # p => Arrived(q, p)
  BY DEF IInv
<1>2. UNCHANGED <<setting, pc, block, touched, retries, copies, pending, entered, left, dead>>
  BY DEF RunKernel
<1>3. /\ kernels[r] # <<>>
      /\ kernels'[r] = Tail(kernels[r]) /\ DOMAIN kernels' = Ranks
      /\ \A q \in Ranks \ {r} :
           kernels'[q] = kernels[q] /\ mem'[q] = mem[q] /\ out'[q] = out[q]
      /\ \A region \in Regions, q \in Ranks :
           mem'[r][Host(region, q)] = mem[r][Host(region, q)]
      /\ mem'[r][Dev("Normalized", r)] =
           IF k.op = "pack" THEN k.block ELSE mem[r][Dev("Normalized", r)]
      /\ \A q \in Ranks : mem'[r][Dev("Attended", q)] =
           IF k.op = "attend" THEN k.block ELSE mem[r][Dev("Attended", q)]
      /\ \A q \in Ranks \ {r} : mem'[r][Dev("Normalized", q)] =
           IF q \in Far(r) /\ brings("Normalized") THEN k.block
           ELSE mem[r][Dev("Normalized", q)]
      /\ \A q \in Ranks \ {r} : mem'[r][Dev("Received", q)] =
           IF q \in Far(r) /\ OnDevice(r, q) /\ brings("Received") THEN k.block
           ELSE mem[r][Dev("Received", q)]
      /\ out'[r] = IF k.op = "unpack" THEN k.block ELSE out[r]
      /\ mem' \in [Ranks -> [Slots -> Contents]]
      /\ out' \in [Ranks -> Contents]
  BY RunChanges, Zenon
<1>4. /\ KernelKind(r, k, i, b)
      /\ NextOp(r) = k.op
      /\ NextOp(r)' = After(r)
      /\ Tail(kernels[r]) \in Queues(r, i, b)
  <2>1. KernelKind(r, k, i, b)
    BY <1>1, <1>3, KernelKinds
  <2>2. NextOp(r) = k.op /\ Tail(kernels[r]) \in Queues(r, i, b)
    BY <1>1, <1>3, QueueFirst
  <2>3. NextOp(r)' = After(r)
    BY <1>3 DEF NextOp, After
  <2> QED  BY <2>1, <2>2, <2>3
<1>5. b \in Int /\ i \in Int
  BY <1>1, Near
<1>6. Metal' = Metal /\ ReadsHost' = ReadsHost /\ Far(r)' = Far(r) /\ SendAt(r)' = SendAt(r)
        /\ PublishAt(r)' = PublishAt(r)
  BY <1>2, SettingStays DEF Far, IsLocal, SendAt, PublishAt
<1>7. SendAt(r) \in 4 .. 5 /\ LengthOf(r) \in 19 .. 20
  BY DEF SendAt, LengthOf
<1> HIDE DEF k, i, b, brings
<1>8. \/ i \in 2 .. 3 /\ k.op = "pack" /\ k.block = b /\ After(r) = "none"
      \/ /\ r \notin Metal /\ i \in 5 .. 12 /\ k.op = "own"
         /\ After(r) = IF i > 8 THEN "upload" ELSE "none"
      \/ /\ i \in SendAt(r) + 4 .. 12 /\ k.op = "upload" /\ k.block = b /\ brings("Normalized")
         /\ After(r) = IF i = 12 THEN "attend" ELSE "none"
      \/ i = 12 /\ k.op = "attend" /\ k.block = b /\ After(r) = "none"
      \/ /\ i \in 17 .. LengthOf(r) /\ k.op = "upload" /\ k.block = b /\ brings("Received")
         /\ After(r) = IF r \in Metal /\ i = 18 THEN "unpack" ELSE "none"
      \/ /\ r \notin Metal /\ i \in 1 .. 2 /\ k.op = "upload" /\ k.block = b - 1
         /\ brings("Received") /\ After(r) = "unpack"
      \/ /\ r \notin Metal /\ i \in 1 .. 2 /\ k.op = "unpack" /\ k.block = b - 1
         /\ After(r) = IF i = 2 THEN "pack" ELSE "none"
      \/ r \in Metal /\ i = 18 /\ k.op = "unpack" /\ k.block = b /\ After(r) = "none"
  BY <1>4, KernelOps DEF KernelKind, brings
<1>9. QueueHolds(r)'
  BY <1>2, <1>3, <1>4, SettingStays DEF QueueHolds, i, b
<1>10. /\ pc'[r] = i /\ block'[r] = b /\ NextOp(r)' = After(r) /\ NextOp(r) = k.op
  BY <1>2, <1>4 DEF i, b
<1>11. OwnRows(r)'
  <2>1. mem'[r][Dev("Normalized", r)] = Since(r, Packed(r))'
    <3>1. mem[r][Dev("Normalized", r)] = Since(r, Packed(r))
      BY <1>1 DEF OwnRows
    <3>2. CASE k.op = "pack"
      <4>1. Packed(r)' /\ k.block = b
        BY <1>8, <1>10, <3>2 DEF Packed
      <4> QED  BY <1>3, <1>10, <3>2, <4>1 DEF Since
    <3>3. CASE k.op # "pack"
      <4>1. Packed(r)' <=> Packed(r)
        BY <1>2, <1>5, <1>7, <1>8, <1>10, <3>3 DEF Packed, i
      <4> QED  BY <1>2, <1>3, <3>1, <3>3, <4>1 DEF Since
    <3> QED  BY <3>2, <3>3
  <2>2. (Far(r) # {} => mem[r][Host("Normalized", r)] = Since(r, pc[r] > PublishAt(r)))'
    <3>1. mem'[r][Host("Normalized", r)] = mem[r][Host("Normalized", r)]
      BY <1>3 DEF Regions
    <3>2. Far(r) # {} => mem[r][Host("Normalized", r)] = Since(r, pc[r] > PublishAt(r))
      BY <1>1 DEF OwnRows
    <3> QED  BY <1>2, <1>6, <3>1, <3>2 DEF Since
  <2>3. ASSUME NEW q \in Ranks PROVE mem'[r][Dev("Attended", q)] = Since(r, AttendedAll(r))'
    <3>1. mem[r][Dev("Attended", q)] = Since(r, AttendedAll(r))
      BY <1>1 DEF OwnRows
    <3>2. CASE k.op = "attend"
      <4>1. AttendedAll(r)' /\ k.block = b
        BY <1>8, <1>10, <3>2 DEF AttendedAll
      <4> QED  BY <1>3, <1>10, <3>2, <4>1 DEF Since
    <3>3. CASE k.op # "attend"
      <4>1. AttendedAll(r)' <=> AttendedAll(r)
        BY <1>2, <1>5, <1>8, <1>10, <3>3 DEF AttendedAll, i
      <4> QED  BY <1>2, <1>3, <3>1, <3>3, <4>1 DEF Since
    <3> QED  BY <3>2, <3>3
  <2>4. (pc[r] > 13 => \A p \in Far(r) : mem[r][Host("Attended", p)] = block[r])'
    <3>1. \A p \in Far(r) : mem'[r][Host("Attended", p)] = mem[r][Host("Attended", p)]
      BY <1>3 DEF Regions, Far
    <3>2. pc[r] > 13 => \A p \in Far(r) : mem[r][Host("Attended", p)] = block[r]
      BY <1>1 DEF OwnRows
    <3> QED  BY <1>2, <1>6, <3>1, <3>2
  <2>5. out'[r] = OutputIs(r)'
    <3>1. out[r] = OutputIs(r)
      BY <1>1 DEF OwnRows
    <3>2. CASE k.op = "unpack"
      <4>1. OutputIs(r)' = k.block
        BY <1>5, <1>6, <1>8, <1>10, <3>2 DEF OutputIs, Since
      <4> QED  BY <1>3, <3>2, <4>1
    <3>3. CASE k.op # "unpack"
      <4>1. OutputIs(r)' = OutputIs(r)
        BY <1>2, <1>5, <1>6, <1>7, <1>8, <1>10, <3>3 DEF OutputIs, Since, i, b
      <4> QED  BY <1>3, <3>1, <3>3, <4>1
    <3> QED  BY <3>2, <3>3
  <2> QED  BY <2>1, <2>2, <2>3, <2>4, <2>5 DEF OwnRows
<1>12. Brought(r)'
  <2>1. ASSUME NEW q \in Far(r), i \in SendAt(r) + 4 .. 12, After(r) \notin {"own", "upload"}
        PROVE  mem'[r][Dev("Normalized", q)] = b
    <3>1. q \in Ranks \ {r}
      BY DEF Far
    <3>2. CASE brings("Normalized")
      <4>1. k.block = b
        BY <1>5, <1>7, <1>8, <2>1, <3>2, KernelOps DEF brings
      <4> QED  BY <1>3, <2>1, <3>1, <3>2, <4>1
    <3>3. CASE ~brings("Normalized")
      <4>1. NextOp(r) \notin {"own", "upload"}
        <5>1. r \notin Metal => SendAt(r) = 5
          BY DEF SendAt
        <5> QED  BY <1>5, <1>7, <1>8, <1>10, <2>1, <3>3, <5>1
      <4>2. mem[r][Dev("Normalized", q)] = b
        BY <1>1, <2>1, <4>1 DEF Brought, i, b
      <4> QED  BY <1>3, <3>1, <3>3, <4>2
    <3> QED  BY <3>2, <3>3
  <2>2. ASSUME NEW q \in Far(r), r \notin ReadsHost
        PROVE  \/ (i > 16 \/ i =< 2) /\ After(r) = "upload"
               \/ mem'[r][Dev("Received", q)] = Since(r, pc[r] > 16)'
    <3>1. q \in Ranks \ {r} /\ OnDevice(r, q)
      BY <2>2 DEF Far, OnDevice
    <3>2. Since(r, pc[r] > 16)' = Since(r, pc[r] > 16)
      BY <1>2 DEF Since
    <3>3. \/ (i > 16 \/ i =< 2) /\ k.op = "upload"
          \/ mem[r][Dev("Received", q)] = Since(r, pc[r] > 16)
      BY <1>1, <1>10, <2>2 DEF Brought, i
    <3>4. CASE brings("Received")
      <4>1. k.block = Since(r, pc[r] > 16)
        <5>1. \/ i > 16 /\ k.block = b
              \/ i =< 2 /\ k.block = b - 1
          <6>1. k.op = "upload"
            BY <3>4, KernelOps DEF brings
          <6>2. ~brings("Normalized")
            <7>1. \A n : Dev("Normalized", q) \in DOMAIN Bring(r, "Normalized", n).rows
              BY <2>2 DEF Bring
            <7>2. \A n : Dev("Normalized", q) \notin DOMAIN Bring(r, "Received", n).rows
              BY <3>1, SlotsDiffer DEF Bring, Far
            <7> QED  BY <3>4, <7>1, <7>2 DEF brings
          <6> QED  BY <1>5, <1>7, <1>8, <6>1, <6>2
        <5> QED  BY <1>5, <5>1 DEF Since, i, b
      <4> QED  BY <1>3, <2>2, <3>1, <3>2, <3>4, <4>1
    <3>5. CASE ~brings("Received")
      <4>1. ~((i > 16 \/ i =< 2) /\ k.op = "upload")
        BY <1>5, <1>7, <1>8, <3>5
      <4> QED  BY <1>3, <3>1, <3>2, <3>3, <3>5, <4>1
    <3> QED  BY <3>4, <3>5
  <2> QED  BY <1>6, <1>10, <2>1, <2>2 DEF Brought
<1>13. ASSUME NEW q \in Ranks \ {r} PROVE QueueHolds(q)' /\ OwnRows(q)' /\ Brought(q)'
  BY <1>1, <1>2, <1>3, RankStays, RowsStay
<1>14. ASSUME NEW q \in Ranks PROVE OwesOnly(q)'
  BY <1>1, <1>2, OwingStays
<1>15. ASSUME NEW q \in Ranks, NEW p \in Ranks, q # p PROVE Arrived(q, p)'
  <2>1. ASSUME NEW region \in {"Normalized", "Received"}
        PROVE  mem'[p][Into(region, q, p)] = mem[p][Into(region, q, p)]
    <3>1. CASE p # r
      BY <1>3, <3>1
    <3>2. CASE p = r /\ IsLocal(q, p)
      <4>1. Into(region, q, p) = Dev(region, q) /\ q \notin Far(r)
        BY <1>1, <3>2, SettingType DEF Into, Far, TypesHold
      <4> QED  BY <1>3, <1>15, <2>1, <3>2, <4>1
    <3>3. CASE p = r /\ ~IsLocal(q, p)
      <4>1. Into(region, q, p) = Host(region, q) /\ region \in Regions
        BY <3>3 DEF Into, Regions
      <4> QED  BY <1>3, <3>3, <4>1
    <3> QED  BY <3>1, <3>2, <3>3
  <2> QED  BY <1>1, <1>2, <1>15, <2>1, ArrivedStays
<1>16. TypesHold'
  <2>1. MaxRetries' = MaxRetries
    BY <1>2 DEF MaxRetries
  <2> QED  BY <1>1, <1>2, <1>3, <2>1 DEF TypesHold
<1>17. InStep' /\ \A q \in Ranks : Stands(q)'
  BY <1>1, <1>2, SettingStays
     DEF InStep, Stands, LengthOf, EntersIn, LeavesIn, SendAt, LastEnterAt, PublishAt, FirstBlock
<1> QED  BY <1>9, <1>11, <1>12, <1>13, <1>14, <1>15, <1>16, <1>17 DEF IInv

-------------------------------------------------------------------------------
(* The thread's steps but for its two writes.                                *)

(* What such a step does to memory: it may publish r's rows. *)
Publishes(r, op) ==
    /\ mem' \in [Ranks -> [Slots -> Contents]]
    /\ \A q \in Ranks \ {r} : mem'[q] = mem[q]
    /\ \A slot \in Slots : slot # Host("Normalized", r) => mem'[r][slot] = mem[r][slot]
    /\ Far(r) # {} => mem'[r][Host("Normalized", r)] =
         IF op = "publish" THEN block[r] ELSE mem[r][Host("Normalized", r)]

LEMMA PlainHolds ==
    ASSUME IInv, NEW r \in Ranks, NEW op, op \notin {"send", "return"}, At(r, op), GoOn(r),
           Crosses(r, op), QueueMoves(r, op), Publishes(r, op),
           UNCHANGED <<setting, retries, copies, pending, out, dead>>,
           op = "enter" => copies[r] = {},
           op = "leave" => pending[r] = {} /\ \A q \in Ranks : \A w \in pending[q] : w.to # r
    PROVE  IInv'
<1>1. /\ TypesHold /\ InStep
      /\ \A q \in Ranks : Stands(q) /\ QueueHolds(q) /\ OwnRows(q) /\ Brought(q) /\ OwesOnly(q)
      /\ \A q, p \in Ranks : q # p => Arrived(q, p)
  BY DEF IInv
<1>2. /\ \A q \in Ranks : Stands(q)'
      /\ InStep'
      /\ pc' \in [Ranks -> 1 .. 20]
      /\ block' \in [Ranks -> 1 .. Blocks + 1]
      /\ touched' \in [Ranks -> BOOLEAN]
      /\ entered' \in [Ranks -> Nat]
      /\ left' \in [Ranks -> Nat]
  BY <1>1, Standing
<1>3. /\ QueueHolds(r)'
      /\ DOMAIN kernels' = Ranks
      /\ \A q \in Ranks \ {r} : kernels'[q] = kernels[q]
  BY <1>1, QueuePasses
<1>4. /\ \A q \in Ranks \ {r} : mem'[q] = mem[q]
      /\ \A region \in Regions, q \in Ranks :
           mem'[r][Dev(region, q)] = mem[r][Dev(region, q)]
      /\ \A region \in Regions, q \in Ranks : region # "Normalized" \/ q # r =>
           mem'[r][Host(region, q)] = mem[r][Host(region, q)]
      /\ Far(r) # {} => mem'[r][Host("Normalized", r)] =
           IF op = "publish" THEN block[r] ELSE mem[r][Host("Normalized", r)]
  BY SlotsDiffer DEF Publishes
<1>5. OwnRows(r)' /\ Brought(r)'
  <2>1. \A p \in Far(r) : mem'[r][Host("Attended", p)] =
               IF op = "return" THEN block[r] ELSE mem[r][Host("Attended", p)]
    BY <1>4 DEF Far, Regions
  <2> QED  BY <1>1, <1>4, <2>1, OwnPasses
<1>6. Moves(r)
  BY <1>1, Going
<1>7. ASSUME NEW q \in Ranks \ {r} PROVE QueueHolds(q)' /\ OwnRows(q)' /\ Brought(q)'
  <2>1. pc'[q] = pc[q] /\ block'[q] = block[q]
    BY <1>1, <1>6 DEF Moves, TypesHold
  <2> QED  BY <1>1, <1>3, <1>4, <2>1, RankStays, RowsStay
<1>8. ASSUME NEW q \in Ranks, NEW p \in Ranks, q # p, NEW region \in {"Normalized", "Received"}
      PROVE  mem'[p][Into(region, q, p)] = mem[p][Into(region, q, p)]
  BY <1>4, <1>8 DEF Into, Regions
<1>9. /\ op = "enter" => left' = left
      /\ op = "leave" => \A q \in Ranks \ {r} : left'[q] = left[q]
      /\ op \notin {"enter", "leave"} => left' = left
  BY <1>1 DEF Crosses, Barrier!Enter, Barrier!Leave, TypesHold
<1>10. /\ \A q \in Ranks : OwesOnly(q)'
       /\ \A q, p \in Ranks : q # p => Arrived(q, p)'
  BY <1>1, <1>8, <1>9, OwingPasses
<1>11. TypesHold'
  <2>1. MaxRetries' = MaxRetries
    BY DEF MaxRetries
  <2>2. mem' \in [Ranks -> [Slots -> Contents]]
    BY DEF Publishes
  <2> QED  BY <1>1, <1>2, <1>3, <2>1, <2>2 DEF TypesHold
<1> QED  BY <1>2, <1>3, <1>5, <1>7, <1>10, <1>11 DEF IInv

LEMMA UploadIs ==
    ASSUME NEW r \in Ranks, NEW region \in {"Normalized", "Received"}, NEW peers,
           NEW far, far = {q \in Far(r) : region = "Received" => OnDevice(r, q)},
           {q \in peers : ~IsLocal(r, q)} = far,
           \A q \in far : mem[r][Host(region, q)] = block[r]
    PROVE  Upload(r, region, peers) = Bring(r, region, block[r])
<1> DEFINE D == {Dev(region, p) : p \in far}
<1>1. \A slot \in D : mem[r][Host(region, slot[3])] = block[r]
  BY SlotsDiffer DEF Regions, Far
<1>2. [slot \in D |-> mem[r][Host(region, slot[3])]] = [slot \in D |-> block[r]]
  <2> HIDE DEF D
  <2> QED  BY <1>1
<1>3. Upload(r, region, peers) = [op |-> "upload", block |-> block[r],
          rows |-> [slot \in D |-> mem[r][Host(region, slot[3])]]]
  BY Zenon DEF Upload
<1>4. Bring(r, region, block[r]) =
          [op |-> "upload", block |-> block[r], rows |-> [slot \in D |-> block[r]]]
  BY Zenon DEF Bring
<1> HIDE DEF D
<1> QED  BY <1>2, <1>3, <1>4

LEMMA FetchIs ==
    ASSUME IInv, NEW r \in Ranks, At(r, "fetch")
    PROVE  Upload(r, "Normalized", Others(r)) = Bring(r, "Normalized", block[r])
<1>1. /\ TypesHold /\ InStep /\ \A q \in Ranks : Stands(q) /\ OwesOnly(q)
      /\ \A q \in Ranks : q # r => Arrived(q, r)
  BY DEF IInv
<1>2. pc[r] \in PlacesOf(r, "fetch")
  BY <1>1, Going
<1>3. pc[r] > SendAt(r) + 2 /\ pc[r] =< 14
  <2>1. CASE r \in Metal
    BY <1>2, <2>1 DEF PlacesOf, MetalPlaces, SendAt
  <2>2. CASE r \notin Metal
    BY <1>2, <2>2 DEF PlacesOf, CudaPlaces, SendAt
  <2> QED  BY <2>1, <2>2
<1> DEFINE far == {q \in Far(r) : "Normalized" = "Received" => OnDevice(r, q)}
<1>4. far = Far(r) /\ {q \in Others(r) : ~IsLocal(r, q)} = far
  BY DEF Far, Others
<1>5. ASSUME NEW q \in far PROVE mem[r][Host("Normalized", q)] = block[r]
  <2>1. q \in Ranks /\ q # r /\ ~IsLocal(r, q)
    BY <1>4 DEF Far
  <2>2. Into("Normalized", q, r) = Host("Normalized", q)
    BY <1>1, <2>1, SettingType DEF Into, TypesHold
  <2> QED  BY <1>1, <1>3, <2>1, <2>2, NormalizedIn
<1> HIDE DEF far
<1> QED  BY <1>4, <1>5, UploadIs DEF far

LEMMA CollectIs ==
    ASSUME IInv, NEW r \in Ranks, At(r, "collect")
    PROVE  Upload(r, "Received", {p \in Others(r) : OnDevice(r, p)})
             = Bring(r, "Received", block[r])
<1>1. /\ TypesHold /\ InStep /\ \A q \in Ranks : Stands(q) /\ OwesOnly(q)
      /\ \A q \in Ranks : q # r => Arrived(q, r)
  BY DEF IInv
<1>2. pc[r] \in PlacesOf(r, "collect")
  BY <1>1, Going
<1>3. pc[r] > 15
  BY <1>2 DEF PlacesOf, MetalPlaces, CudaPlaces
<1> DEFINE far == {q \in Far(r) : "Received" = "Received" => OnDevice(r, q)}
           peers == {p \in Others(r) : OnDevice(r, p)}
<1>4. {q \in peers : ~IsLocal(r, q)} = far
  BY DEF Far, Others
<1>5. ASSUME NEW q \in far PROVE mem[r][Host("Received", q)] = block[r]
  <2>1. q \in Ranks /\ q # r /\ ~IsLocal(r, q)
    BY DEF Far
  <2>2. Into("Received", q, r) = Host("Received", q)
    BY <1>1, <2>1, SettingType DEF Into, TypesHold
  <2>3. mem[r][Into("Received", q, r)] = Since(r, pc[r] > 15)
    BY <1>1, <1>3, <2>1, ReceivedIn
  <2> QED  BY <1>3, <2>2, <2>3 DEF Since
<1> HIDE DEF far, peers
<1>6. Upload(r, "Received", peers) = Bring(r, "Received", block[r])
  BY <1>4, <1>5, UploadIs DEF far
<1> QED  BY <1>6 DEF peers

LEMMA MemoryStays ==
    ASSUME TypesHold, NEW r \in Ranks, NEW op, op # "publish", UNCHANGED mem
    PROVE  Publishes(r, op)
BY DEF Publishes, TypesHold

LEMMA LaunchHolds ==
    ASSUME IInv, NEW r \in Ranks, Launch(r)
    PROVE  IInv'
<1>1. PICK op \in {"pack", "own", "attend", "unpack"} :
         At(r, op) /\ kernels' = [kernels EXCEPT ![r] = Append(@, Kernel(op, block[r]))]
  BY DEF Launch
<1>2. GoOn(r) /\ UNCHANGED <<setting, retries, mem, copies, pending, out, entered, left, dead>>
  BY DEF Launch
<1>3. TypesHold
  BY DEF IInv
<1>4. Crosses(r, op) /\ QueueMoves(r, op) /\ Publishes(r, op)
  BY <1>1, <1>2, <1>3, MemoryStays DEF Crosses, QueueMoves, Queueing, Queued
<1>5. op \notin {"send", "return", "enter", "leave"}
  OBVIOUS
<1> QED  BY <1>1, <1>2, <1>4, <1>5, PlainHolds

LEMMA DrainHolds ==
    ASSUME IInv, NEW r \in Ranks, Drain(r)
    PROVE  IInv'
<1>1. At(r, "drain") /\ kernels[r] = <<>> /\ GoOn(r)
      /\ UNCHANGED <<setting, retries, mem, kernels, copies, pending, out, entered, left, dead>>
  BY DEF Drain
<1>2. TypesHold
  BY DEF IInv
<1>3. Crosses(r, "drain") /\ QueueMoves(r, "drain") /\ Publishes(r, "drain")
  BY <1>1, <1>2, MemoryStays DEF Crosses, QueueMoves, Queueing
<1> QED  BY <1>1, <1>3, PlainHolds

LEMMA FetchHolds ==
    ASSUME IInv, NEW r \in Ranks, Fetch(r)
    PROVE  IInv'
<1>1. At(r, "fetch") /\ GoOn(r)
      /\ kernels' = [kernels EXCEPT ![r] = Append(@, Upload(r, "Normalized", Others(r)))]
      /\ UNCHANGED <<setting, retries, mem, copies, pending, out, entered, left, dead>>
  BY DEF Fetch
<1>2. TypesHold
  BY DEF IInv
<1>3. Upload(r, "Normalized", Others(r)) = Queued(r, "fetch")
  BY <1>1, FetchIs DEF Queued
<1>4. Crosses(r, "fetch") /\ QueueMoves(r, "fetch") /\ Publishes(r, "fetch")
  BY <1>1, <1>2, <1>3, MemoryStays DEF Crosses, QueueMoves, Queueing
<1> QED  BY <1>1, <1>4, PlainHolds

LEMMA CollectHolds ==
    ASSUME IInv, NEW r \in Ranks, Collect(r)
    PROVE  IInv'
<1>1. At(r, "collect") /\ GoOn(r)
      /\ kernels' = [kernels EXCEPT ![r] =
            Append(@, Upload(r, "Received", {p \in Others(r) : OnDevice(r, p)}))]
      /\ UNCHANGED <<setting, retries, mem, copies, pending, out, entered, left, dead>>
  BY DEF Collect
<1>2. TypesHold
  BY DEF IInv
<1>3. Upload(r, "Received", {p \in Others(r) : OnDevice(r, p)}) = Queued(r, "collect")
  BY <1>1, CollectIs DEF Queued
<1>4. Crosses(r, "collect") /\ QueueMoves(r, "collect") /\ Publishes(r, "collect")
  BY <1>1, <1>2, <1>3, MemoryStays DEF Crosses, QueueMoves, Queueing
<1> QED  BY <1>1, <1>4, PlainHolds

LEMMA EnterHolds ==
    ASSUME IInv, NEW r \in Ranks, Enter(r)
    PROVE  IInv'
<1>1. At(r, "enter") /\ copies[r] = {} /\ Barrier!Enter(r) /\ GoOn(r)
      /\ UNCHANGED <<setting, retries, mem, kernels, copies, pending, out, dead>>
  BY DEF Enter
<1>2. TypesHold
  BY DEF IInv
<1>3. Crosses(r, "enter") /\ QueueMoves(r, "enter") /\ Publishes(r, "enter")
  BY <1>1, <1>2, MemoryStays DEF Crosses, QueueMoves, Queueing
<1> QED  BY <1>1, <1>3, PlainHolds

LEMMA LeaveHolds ==
    ASSUME IInv, NEW r \in Ranks, Leave(r)
    PROVE  IInv'
<1>1. At(r, "leave") /\ Barrier!Leave(r) /\ GoOn(r)
      /\ UNCHANGED <<setting, retries, mem, kernels, copies, pending, out, dead>>
      /\ pending[r] = {} /\ \A q \in Ranks : \A w \in pending[q] : w.to # r
  BY DEF Leave
<1>2. TypesHold
  BY DEF IInv
<1>3. Crosses(r, "leave") /\ QueueMoves(r, "leave") /\ Publishes(r, "leave")
  BY <1>1, <1>2, MemoryStays DEF Crosses, QueueMoves, Queueing
<1> QED  BY <1>1, <1>3, PlainHolds

LEMMA PublishHolds ==
    ASSUME IInv, NEW r \in Ranks, Publish(r)
    PROVE  IInv'
<1>1. /\ At(r, "publish") /\ GoOn(r)
      /\ UNCHANGED <<setting, retries, kernels, copies, pending, out, entered, left, dead>>
  BY DEF Publish
<1>2. /\ TypesHold /\ Stands(r) /\ QueueHolds(r) /\ OwnRows(r)
      /\ mem \in [Ranks -> [Slots -> Contents]]
  BY DEF IInv, TypesHold
<1>3. Crosses(r, "publish") /\ QueueMoves(r, "publish")
  BY <1>1 DEF Crosses, QueueMoves, Queueing
<1>4. ReadHereAlone(r, r) <=> Far(r) = {}
  BY DEF ReadHereAlone, Far, Others
<1>5. Publishes(r, "publish")
  <2>1. CASE Far(r) = {}
    <3>1. UNCHANGED mem
      BY <1>4, <2>1 DEF Publish
    <3> QED  BY <1>2, <2>1, <3>1 DEF Publishes
  <2>2. CASE Far(r) # {}
    <3>1. /\ kernels[r] = <<>>
          /\ mem' = [mem EXCEPT ![r][Host("Normalized", r)] = mem[r][Dev("Normalized", r)]]
      BY <1>4, <2>2 DEF Publish
    <3>2. mem[r][Dev("Normalized", r)] = block[r]
      <4>1. pc[r] \in PlacesOf(r, "publish")
        BY <1>1, <1>2, Going
      <4>2. pc[r] \in 2 .. 3
        BY <4>1 DEF PlacesOf, MetalPlaces, CudaPlaces
      <4>3. Packed(r)
        BY <3>1, <4>2 DEF Packed, NextOp
      <4> QED  BY <1>2, <4>3 DEF OwnRows, Since
    <3>3. Host("Normalized", r) \in Slots /\ Dev("Normalized", r) \in Slots
      BY SlotsDiffer
    <3>4. mem[r] \in [Slots -> Contents] /\ mem[r][Dev("Normalized", r)] \in Contents
      BY <1>2, <3>3
    <3>5. mem'[r] = [mem[r] EXCEPT ![Host("Normalized", r)] = block[r]]
            /\ \A q \in Ranks \ {r} : mem'[q] = mem[q]
      BY <1>2, <3>1, <3>2
    <3>6. mem' \in [Ranks -> [Slots -> Contents]]
      BY <1>2, <3>1, <3>4
    <3> QED  BY <3>3, <3>4, <3>5, <3>6 DEF Publishes
  <2> QED  BY <2>1, <2>2
<1> QED  BY <1>1, <1>3, <1>5, PlainHolds

-------------------------------------------------------------------------------
(* The writes of a block.                                                    *)

(* r queues, makes or leaves for the barrier its write of a region to every   *)
(* other rank, from rows of this block.                                      *)
Writes(r, region, memory) ==
    /\ WriteAll(r, memory, region, Target(region))
    /\ memory \in [Ranks -> [Slots -> Contents]]
    /\ \A q \in Ranks \ {r} : memory[q] = mem[q]
    /\ \A p \in Far(r) : memory[r][From(region, r, p)] = block[r]

LEMMA WritesDo ==
    ASSUME TypesHold, NEW r \in Ranks, NEW region \in {"Normalized", "Attended"}, NEW memory,
           Writes(r, region, memory), copies[r] = {}, pending[r] = {}
    PROVE  /\ copies' = [copies EXCEPT ![r] =
                {WriteOf(region, r, p) : p \in {q \in Others(r) : IsLocal(r, q)}}]
           /\ pending' = [pending EXCEPT ![r] =
                {WriteOf(region, r, p) : p \in {q \in Far(r) : <<r, q>> \notin Linked}}]
           /\ mem' \in [Ranks -> [Slots -> Contents]]
           /\ mem'[r] = memory[r]
           /\ \A q \in Ranks \ {r} :
                /\ \A slot \in Slots :
                     slot # Host(Target(region), r) => mem'[q][slot] = mem[q][slot]
                /\ mem'[q][Host(Target(region), r)] =
                     IF <<r, q>> \in Linked THEN block[r] ELSE mem[q][Host(Target(region), r)]
<1> DEFINE here == {q \in Others(r) : IsLocal(r, q)}
           there == {q \in Far(r) : <<r, q>> \notin Linked}
           into == Target(region)
<1>1. /\ copies' = [copies EXCEPT ![r] = @ \cup
            {Owed(r, p, Dev(region, RowsFor(r, p, region)), Dev(into, r)) : p \in here}]
      /\ mem' = [q \in Ranks |->
            IF q # r /\ <<r, q>> \in Linked
            THEN [memory[q] EXCEPT
                    ![Host(into, r)] = memory[r][Host(region, RowsFor(r, q, region))]]
            ELSE memory[q]]
      /\ pending' = [pending EXCEPT ![r] = @ \cup
            {Owed(r, p, Host(region, RowsFor(r, p, region)), Host(into, r)) :
                p \in {q \in Others(r) : ~IsLocal(r, q) /\ <<r, q>> \notin Linked}}]
  BY Zenon DEF Writes, WriteAll
<1>2. {q \in Others(r) : ~IsLocal(r, q) /\ <<r, q>> \notin Linked} = there
  BY DEF Others, Far
<1>3. \A p \in here :
         Owed(r, p, Dev(region, RowsFor(r, p, region)), Dev(into, r)) = WriteOf(region, r, p)
  BY DEF WriteOf, From, Into
<1>4. \A p \in there :
         Owed(r, p, Host(region, RowsFor(r, p, region)), Host(into, r)) = WriteOf(region, r, p)
  BY DEF WriteOf, From, Into, Far
<1>5. {Owed(r, p, Dev(region, RowsFor(r, p, region)), Dev(into, r)) : p \in here}
        = {WriteOf(region, r, p) : p \in here}
  <2> HIDE DEF here
  <2> QED  BY <1>3
<1>6. {Owed(r, p, Host(region, RowsFor(r, p, region)), Host(into, r)) : p \in there}
        = {WriteOf(region, r, p) : p \in there}
  <2> HIDE DEF there
  <2> QED  BY <1>4
<1>7. copies' = [copies EXCEPT ![r] = {WriteOf(region, r, p) : p \in here}]
  <2> HIDE DEF here
  <2> QED  BY <1>1, <1>5
<1>8. pending' = [pending EXCEPT ![r] = {WriteOf(region, r, p) : p \in there}]
  <2> HIDE DEF there
  <2> QED  BY <1>1, <1>2, <1>6
<1>9. /\ memory \in [Ranks -> [Slots -> Contents]]
      /\ \A q \in Ranks \ {r} : memory[q] = mem[q]
      /\ \A p \in Far(r) : memory[r][From(region, r, p)] = block[r]
  BY DEF Writes
<1>10. Host(into, r) \in Slots /\ block[r] \in Contents
  <2>1. into \in Regions
    BY DEF Target, Regions
  <2>2. block[r] \in 1 .. Blocks + 1
    BY DEF TypesHold
  <2> QED  BY <2>1, <2>2, SlotsDiffer, ShardBlockAssumption DEF Contents, Mixed
<1>11. ASSUME NEW q \in Ranks, q # r, <<r, q>> \in Linked
       PROVE  memory[r][Host(region, RowsFor(r, q, region))] = block[r]
  <2>1. ~IsLocal(r, q)
    BY <1>11, SettingType DEF TypesHold
  <2>2. q \in Far(r) /\ From(region, r, q) = Host(region, RowsFor(r, q, region))
    BY <1>11, <2>1 DEF Far, From
  <2> QED  BY <1>9, <2>2
<1>12. \A q \in Ranks : mem'[q] =
          IF q # r /\ <<r, q>> \in Linked THEN [memory[q] EXCEPT ![Host(into, r)] = block[r]]
          ELSE memory[q]
  BY <1>1, <1>11
<1> HIDE DEF into
<1>13. mem' \in [Ranks -> [Slots -> Contents]]
  <2>1. ASSUME NEW q \in Ranks PROVE mem'[q] \in [Slots -> Contents]
    <3>1. memory[q] \in [Slots -> Contents]
      BY <1>9
    <3>2. [memory[q] EXCEPT ![Host(into, r)] = block[r]] \in [Slots -> Contents]
      BY <1>10, <3>1
    <3>3. mem'[q] = [memory[q] EXCEPT ![Host(into, r)] = block[r]] \/ mem'[q] = memory[q]
      BY <1>12
    <3> QED  BY <3>1, <3>2, <3>3
  <2>2. mem' = [q \in Ranks |-> mem'[q]]
    BY <1>1
  <2> QED  BY <2>1, <2>2
<1>14. mem'[r] = memory[r]
  BY <1>12
<1>15. ASSUME NEW q \in Ranks \ {r}
       PROVE  /\ \A slot \in Slots : slot # Host(into, r) => mem'[q][slot] = mem[q][slot]
              /\ mem'[q][Host(into, r)] =
                   IF <<r, q>> \in Linked THEN block[r] ELSE mem[q][Host(into, r)]
  <2> DEFINE old == memory[q]
  <2>1. old = mem[q] /\ old \in [Slots -> Contents] /\ q \in Ranks /\ q # r
    BY <1>9
  <2>2. mem'[q] = IF <<r, q>> \in Linked THEN [old EXCEPT ![Host(into, r)] = block[r]] ELSE old
    BY <1>12, <2>1
  <2> HIDE DEF old
  <2>3. CASE <<r, q>> \in Linked
    BY <1>10, <2>1, <2>2, <2>3
  <2>4. CASE <<r, q>> \notin Linked
    BY <2>1, <2>2, <2>4
  <2> QED  BY <2>3, <2>4
<1> HIDE DEF here, there
<1> QED  BY <1>7, <1>8, <1>13, <1>14, <1>15 DEF here, there, into

LEMMA WritesOwe ==
    ASSUME TypesHold, InStep, NEW r \in Ranks, Stands(r), \A q \in Ranks : OwesOnly(q),
           \A q, p \in Ranks : q # p => Arrived(q, p),
           NEW region \in {"Normalized", "Attended"}, NEW memory, Writes(r, region, memory),
           pc[r] = SentAt(region, r), pc'[r] = pc[r] + 1, block'[r] = block[r],
           \A q \in Ranks \ {r} : pc'[q] = pc[q] /\ block'[q] = block[q],
           UNCHANGED <<setting, left>>,
           \A q \in Ranks \ {r} : \A c \in {"Normalized", "Received"} :
               memory[r][Into(c, q, r)] = mem[r][Into(c, q, r)]
    PROVE  /\ \A q \in Ranks : OwesOnly(q)'
           /\ \A q, p \in Ranks : q # p => Arrived(q, p)'
           /\ DOMAIN copies' = Ranks /\ DOMAIN pending' = Ranks
<1>1. SendAt(r) \in 4 .. 5 /\ SentAt("Normalized", r) = SendAt(r) /\ SentAt("Attended", r) = 13
  BY DEF SendAt, SentAt
<1>2. copies[r] = {}
  BY <1>1 DEF OwesOnly
<1>3. pending[r] = {}
  BY <1>1 DEF OwesOnly
<1>4. /\ copies' = [copies EXCEPT ![r] =
                {WriteOf(region, r, p) : p \in {q \in Others(r) : IsLocal(r, q)}}]
      /\ pending' = [pending EXCEPT ![r] =
           {WriteOf(region, r, p) : p \in {q \in Far(r) : <<r, q>> \notin Linked}}]
      /\ mem' \in [Ranks -> [Slots -> Contents]]
      /\ mem'[r] = memory[r]
      /\ \A q \in Ranks \ {r} :
           /\ \A slot \in Slots :
                     slot # Host(Target(region), r) => mem'[q][slot] = mem[q][slot]
           /\ mem'[q][Host(Target(region), r)] =
                IF <<r, q>> \in Linked THEN block[r] ELSE mem[q][Host(Target(region), r)]
  BY <1>2, <1>3, WritesDo
<1>5. /\ copies'[r] = {WriteOf(region, r, p) : p \in {q \in Others(r) : IsLocal(r, q)}}
      /\ pending'[r] = {WriteOf(region, r, p) : p \in {q \in Far(r) : <<r, q>> \notin Linked}}
      /\ \A q \in Ranks \ {r} : copies'[q] = copies[q] /\ pending'[q] = pending[q]
      /\ DOMAIN copies' = Ranks /\ DOMAIN pending' = Ranks
  BY <1>4 DEF TypesHold
<1>6. /\ \A c, q, p : Into(c, q, p)' = Into(c, q, p)
      /\ \A c, q : SentAt(c, q)' = SentAt(c, q)
      /\ Far(r)' = Far(r) /\ \A q : IsLocal(r, q)' = IsLocal(r, q)
  BY SettingStays DEF Into, IsLocal, SentAt, SendAt, Far
<1>7. \A c, p : WriteOf(c, r, p)' = WriteOf(c, r, p)
  BY SettingStays DEF WriteOf, Owed, From, Into, RowsFor, IsLocal
<1>8. \A c, p : WriteOf(c, r, p).to = p
  BY DEF WriteOf, Owed
<1>9. \A p \in Ranks : left[p] =< left[r]
  <2>1. entered[r] = left[r]
    <3>1. EntersIn(r) = LeavesIn(r)
      BY <1>1 DEF EntersIn, LeavesIn, LastEnterAt
    <3> QED  BY <3>1 DEF Stands
  <2> QED  BY <2>1 DEF InStep
<1>10. OwesOnly(r)'
  <2>1. ASSUME NEW w \in copies'[r]
        PROVE  /\ w.to \in Others(r) /\ IsLocal(r, w.to)'
               /\ pc'[r] = SentAt(region, r)' + 1 /\ w = WriteOf(region, r, w.to)'
    BY <1>5, <1>6, <1>7, <1>8, <2>1
  <2>2. ASSUME NEW w \in pending'[r]
        PROVE  /\ w.to \in Far(r)' /\ left'[w.to] =< left'[r]
               /\ pc'[r] \in SentAt(region, r)' + 1 .. SentAt(region, r)' + 2
               /\ w = WriteOf(region, r, w.to)'
    <3>1. PICK p \in Far(r) : w = WriteOf(region, r, p)
      BY <1>5, <2>2
    <3>2. w.to = p /\ p \in Ranks
      BY <1>8, <3>1 DEF Far
    <3>3. SentAt(region, r) \in Int /\ SentAt(region, r)' = SentAt(region, r)
      BY <1>1, <1>6
    <3>4. pc'[r] \in SentAt(region, r)' + 1 .. SentAt(region, r)' + 2
      BY <3>3
    <3>5. w.to \in Far(r)' /\ left'[w.to] =< left'[r]
      BY <1>6, <1>9, <3>2
    <3>6. w = WriteOf(region, r, w.to)'
      BY <1>7, <3>1, <3>2
    <3> QED  BY <3>4, <3>5, <3>6
  <2> QED  BY <2>1, <2>2 DEF OwesOnly
<1>11. ASSUME NEW q \in Ranks \ {r} PROVE OwesOnly(q)'
  BY <1>5, OwingStays
<1>12. ASSUME NEW c \in {"Normalized", "Attended"}, NEW p \in Ranks,
              WriteOf(c, r, p) \in copies'[r] \cup pending'[r]
       PROVE  c = region /\ (IsLocal(r, p) \/ <<r, p>> \notin Linked)
  <2>1. PICK q \in Ranks :
          /\ WriteOf(c, r, p) = WriteOf(region, r, q)
          /\ IsLocal(r, q) \/ <<r, q>> \notin Linked
    BY <1>5, <1>12 DEF Others, Far
  <2>2. c = region /\ p = q
    BY <2>1, WritesDiffer
  <2> QED  BY <2>1, <2>2
<1>13. ASSUME NEW p \in Ranks, p # r PROVE Arrived(r, p)'
  <2> SUFFICES ASSUME NEW c \in {"Normalized", "Attended"}
               PROVE  mem'[p][Into(Target(c), r, p)] =
                        Since(r, pc[r] > SentAt(c, r)
                              /\ WriteOf(c, r, p) \notin copies[r] \cup pending[r])'
    BY <1>6 DEF Arrived
  <2>1. mem[p][Into(Target(c), r, p)] = Since(r, pc[r] > SentAt(c, r))
    BY <1>2, <1>3, <1>13 DEF Arrived, Since
  <2>2. Into(Target(c), r, p) \in Slots
    BY SlotsDiffer DEF Into, Target
  <2>3. CASE c # region
    <3>1. WriteOf(c, r, p) \notin copies'[r] \cup pending'[r]
      BY <1>12, <2>3
    <3>2. pc'[r] > SentAt(c, r) <=> pc[r] > SentAt(c, r)
      BY <1>1, <2>3
    <3>3. Into(Target(c), r, p) # Host(Target(region), r)
      BY <2>3, SlotsDiffer DEF Into, Target
    <3>4. mem'[p][Into(Target(c), r, p)] = mem[p][Into(Target(c), r, p)]
      BY <1>4, <1>13, <2>2, <3>3
    <3> QED  BY <1>6, <1>7, <2>1, <3>1, <3>2, <3>4 DEF Since
  <2>4. CASE c = region
    <3>1. mem[p][Into(Target(c), r, p)] = block[r] - 1 /\ pc'[r] > SentAt(c, r)
      BY <1>1, <2>1, <2>4 DEF Since
    <3>2. CASE IsLocal(r, p)
      <4>1. WriteOf(c, r, p) \in copies'[r]
        BY <1>5, <1>13, <2>4, <3>2 DEF Others
      <4>2. Into(Target(c), r, p) # Host(Target(region), r)
        BY <3>2, SlotsDiffer DEF Into, Target
      <4>3. mem'[p][Into(Target(c), r, p)] = block[r] - 1
        BY <1>4, <1>13, <2>2, <3>1, <4>2
      <4> QED  BY <1>7, <4>1, <4>3 DEF Since
    <3>3. CASE ~IsLocal(r, p)
      <4>1. Into(Target(c), r, p) = Host(Target(region), r) /\ p \in Far(r)
        BY <1>13, <2>4, <3>3 DEF Into, Far
      <4>2. CASE <<r, p>> \in Linked
        <5>1. WriteOf(c, r, p) \notin copies'[r] \cup pending'[r]
          BY <1>12, <3>3, <4>2
        <5>2. mem'[p][Into(Target(c), r, p)] = block[r]
          BY <1>4, <1>13, <4>1, <4>2
        <5> QED  BY <1>6, <1>7, <3>1, <5>1, <5>2 DEF Since
      <4>3. CASE <<r, p>> \notin Linked
        <5>1. WriteOf(c, r, p) \in pending'[r]
          BY <1>5, <2>4, <4>1, <4>3
        <5>2. mem'[p][Into(Target(c), r, p)] = block[r] - 1
          BY <1>4, <1>13, <3>1, <4>1, <4>3
        <5> QED  BY <1>7, <5>1, <5>2 DEF Since
      <4> QED  BY <4>2, <4>3
    <3> QED  BY <3>2, <3>3
  <2> QED  BY <2>3, <2>4
<1>14. ASSUME NEW q \in Ranks \ {r}, NEW p \in Ranks, q # p PROVE Arrived(q, p)'
  <2>1. ASSUME NEW c \in {"Normalized", "Received"}
        PROVE  mem'[p][Into(c, q, p)] = mem[p][Into(c, q, p)]
    <3>1. CASE p = r
      BY <1>4, <3>1
    <3>2. CASE p # r
      <4>1. Into(c, q, p) \in Slots /\ Into(c, q, p) # Host(Target(region), r)
        BY <1>14, SlotsDiffer DEF Into, Target
      <4> QED  BY <1>4, <3>2, <4>1
    <3> QED  BY <3>1, <3>2
  <2> QED  BY <1>5, <1>14, <2>1, ArrivedStays
<1> QED  BY <1>5, <1>10, <1>11, <1>13, <1>14

LEMMA WriteHolds ==
    ASSUME IInv, NEW r \in Ranks, NEW op \in {"send", "return"}, NEW region, NEW memory,
           region = IF op = "send" THEN "Normalized" ELSE "Attended",
           Writes(r, region, memory), At(r, op), GoOn(r),
           UNCHANGED <<setting, retries, kernels, out, entered, left, dead>>,
           \A slot \in Slots : slot \notin {Host("Attended", p) : p \in Far(r)} =>
               memory[r][slot] = mem[r][slot],
           \A p \in Far(r) : memory[r][Host("Attended", p)] =
               IF op = "return" THEN block[r] ELSE mem[r][Host("Attended", p)]
    PROVE  IInv'
<1>1. region \in {"Normalized", "Attended"} /\ Target(region) \in {"Normalized", "Received"}
  BY DEF Target
<1>2. TypesHold /\ Stands(r) /\ QueueHolds(r) /\ OwnRows(r) /\ Brought(r) /\ InStep
  BY DEF IInv
<1>3. pc[r] \in PlacesOf(r, op) /\ Moves(r)
  BY <1>2, Going
<1>4. pc[r] = SentAt(region, r) /\ pc[r] \in 4 .. 13 /\ LengthOf(r) \in 19 .. 20
  <2>1. CASE op = "send"
    <3>1. pc[r] \in PlacesOf(r, "send") /\ region = "Normalized"
      BY <1>3, <2>1
    <3>2. pc[r] = SendAt(r)
      BY <3>1 DEF PlacesOf, CudaPlaces, MetalPlaces, SendAt
    <3> QED  BY <3>1, <3>2 DEF SentAt, SendAt, LengthOf
  <2>2. CASE op = "return"
    BY <1>3, <2>2 DEF PlacesOf, CudaPlaces, MetalPlaces, SentAt, SendAt, LengthOf
  <2> QED  BY <2>1, <2>2
<1>5. /\ pc'[r] = pc[r] + 1 /\ block'[r] = block[r]
      /\ \A q \in Ranks \ {r} : pc'[q] = pc[q] /\ block'[q] = block[q]
  BY <1>2, <1>3, <1>4 DEF Moves, TypesHold
<1>6. ASSUME NEW q \in Ranks \ {r}, NEW c \in {"Normalized", "Received"}
      PROVE  memory[r][Into(c, q, r)] = mem[r][Into(c, q, r)]
  <2>1. Into(c, q, r) \in Slots /\ \A p \in Far(r) : Into(c, q, r) # Host("Attended", p)
    BY SlotsDiffer DEF Into, Far
  <2> QED  BY <2>1
<1>7. /\ \A q \in Ranks : OwesOnly(q)'
      /\ \A q, p \in Ranks : q # p => Arrived(q, p)'
      /\ DOMAIN copies' = Ranks /\ DOMAIN pending' = Ranks
  BY <1>1, <1>2, <1>4, <1>5, <1>6, WritesOwe DEF IInv
<1>8. /\ mem' \in [Ranks -> [Slots -> Contents]]
      /\ mem'[r] = memory[r]
      /\ \A q \in Ranks \ {r} : \A slot \in Slots :
           slot # Host(Target(region), r) => mem'[q][slot] = mem[q][slot]
  <2>1. copies[r] = {} /\ pending[r] = {}
    <3>1. SentAt("Normalized", r) \in 4 .. 5 /\ SentAt("Attended", r) = 13
      BY DEF SentAt, SendAt
    <3> QED  BY <1>1, <1>4, <3>1 DEF IInv, OwesOnly
  <2>2. /\ mem' \in [Ranks -> [Slots -> Contents]]
        /\ mem'[r] = memory[r]
        /\ \A q \in Ranks \ {r} :
             /\ \A slot \in Slots : slot # Host(Target(region), r) =>
                  mem'[q][slot] = mem[q][slot]
             /\ mem'[q][Host(Target(region), r)] =
                  IF <<r, q>> \in Linked THEN block[r] ELSE mem[q][Host(Target(region), r)]
    BY <1>1, <1>2, <2>1, WritesDo, ZenonT(60)
  <2> QED  BY <2>2
<1>9. Crosses(r, op)
  BY DEF Crosses
<1>10. /\ \A q \in Ranks : Stands(q)'
       /\ InStep'
       /\ pc' \in [Ranks -> 1 .. 20]
       /\ block' \in [Ranks -> 1 .. Blocks + 1]
       /\ touched' \in [Ranks -> BOOLEAN]
       /\ entered' \in [Ranks -> Nat]
       /\ left' \in [Ranks -> Nat]
  BY <1>2, <1>9, Standing DEF IInv
<1>11. QueueMoves(r, op)
  BY DEF QueueMoves, Queueing
<1>12. QueueHolds(r)' /\ DOMAIN kernels' = Ranks
  BY <1>2, <1>11, QueuePasses
<1>13. OwnRows(r)' /\ Brought(r)'
  <2>1. \A c \in Regions, q \in Ranks : mem'[r][Dev(c, q)] = mem[r][Dev(c, q)]
    <3> SUFFICES ASSUME NEW c \in Regions, NEW q \in Ranks
                 PROVE  memory[r][Dev(c, q)] = mem[r][Dev(c, q)]
      BY <1>8
    <3>1. Dev(c, q) \in Slots /\ \A p \in Far(r) : Dev(c, q) # Host("Attended", p)
      BY SlotsDiffer DEF Far
    <3> QED  BY <3>1
  <2>2. mem'[r][Host("Normalized", r)] = mem[r][Host("Normalized", r)]
    <3>1. /\ Host("Normalized", r) \in Slots
          /\ \A p \in Far(r) : Host("Normalized", r) # Host("Attended", p)
      BY SlotsDiffer DEF Far
    <3> QED  BY <1>8, <3>1
  <2>3. \A p \in Far(r) : mem'[r][Host("Attended", p)] =
            IF op = "return" THEN block[r] ELSE mem[r][Host("Attended", p)]
    BY <1>8
  <2>4. Far(r) # {} => mem'[r][Host("Normalized", r)] =
            IF op = "publish" THEN block[r] ELSE mem[r][Host("Normalized", r)]
    BY <2>2
  <2> QED  BY <1>2, <1>11, <2>1, <2>3, <2>4, OwnPasses
<1>14. ASSUME NEW q \in Ranks \ {r} PROVE QueueHolds(q)' /\ OwnRows(q)' /\ Brought(q)'
  <2>1. QueueHolds(q) /\ OwnRows(q) /\ Brought(q)
    BY DEF IInv
  <2>2. SameRows(q)
    <3>1. ASSUME NEW c \in Regions, NEW p \in Ranks PROVE mem'[q][Dev(c, p)] = mem[q][Dev(c, p)]
      BY <1>1, <1>8, SlotsDiffer
    <3>2. mem'[q][Host("Normalized", q)] = mem[q][Host("Normalized", q)]
      BY <1>1, <1>8, SlotsDiffer
    <3>3. ASSUME NEW p \in Ranks
          PROVE  mem'[q][Host("Attended", p)] = mem[q][Host("Attended", p)]
      BY <1>1, <1>8, SlotsDiffer
    <3> QED  BY <3>1, <3>2, <3>3 DEF SameRows
  <2> QED  BY <1>5, <2>1, <2>2, RankStays
<1>15. TypesHold'
  BY <1>2, <1>7, <1>8, <1>10, <1>12, SettingStays DEF TypesHold, MaxRetries
<1> QED  BY <1>7, <1>10, <1>12, <1>13, <1>14, <1>15 DEF IInv

LEMMA SendHolds ==
    ASSUME IInv, NEW r \in Ranks, Send(r)
    PROVE  IInv'
<1>1. At(r, "send") /\ GoOn(r) /\ WriteAll(r, mem, "Normalized", "Normalized")
  BY DEF Send
<1>2. UNCHANGED <<setting, retries, kernels, out, entered, left, dead>>
  BY DEF Send
<1>3. Stands(r) /\ OwnRows(r) /\ TypesHold
  BY DEF IInv
<1>4. pc[r] > PublishAt(r)
  <2>1. pc[r] \in PlacesOf(r, "send")
    BY <1>1, <1>3, Going
  <2> QED  BY <2>1 DEF PlacesOf, CudaPlaces, MetalPlaces, PublishAt
<1>5. \A p \in Far(r) : mem[r][From("Normalized", r, p)] = block[r]
  BY <1>3, <1>4 DEF OwnRows, Since, From, RowsFor, Far
<1>6. Writes(r, "Normalized", mem)
  BY <1>1, <1>3, <1>5 DEF Writes, Target, TypesHold
<1> QED  BY <1>1, <1>2, <1>6, WriteHolds

LEMMA ReturnHolds ==
    ASSUME IInv, NEW r \in Ranks, Return(r)
    PROVE  IInv'
<1> DEFINE leaving == {p \in Others(r) : ~ReadHereAlone(r, p)}
           memory == [mem EXCEPT ![r] = [slot \in Slots |->
                         IF \E p \in leaving : slot = Host("Attended", p)
                         THEN mem[r][Dev("Attended", slot[3])]
                         ELSE mem[r][slot]]]
<1>1. At(r, "return") /\ GoOn(r) /\ WriteAll(r, memory, "Attended", "Received")
  BY DEF Return
<1>2. UNCHANGED <<setting, retries, kernels, out, entered, left, dead>>
  BY DEF Return
<1>3. Stands(r) /\ OwnRows(r) /\ TypesHold
  BY DEF IInv
<1>4. pc[r] = 13
  <2>1. pc[r] \in PlacesOf(r, "return")
    BY <1>1, <1>3, Going
  <2> QED  BY <2>1 DEF PlacesOf, CudaPlaces, MetalPlaces
<1>5. leaving = Far(r)
  BY DEF ReadHereAlone, Others, Far
<1>6. \A p \in Ranks : mem[r][Dev("Attended", p)] = block[r]
  BY <1>3, <1>4 DEF OwnRows, Since, AttendedAll
<1>7. mem[r] \in [Slots -> Contents] /\ DOMAIN mem = Ranks /\ mem \in [Ranks -> [Slots -> Contents]]
  BY <1>3 DEF TypesHold
<1>8. memory[r] = [slot \in Slots |->
                         IF \E p \in leaving : slot = Host("Attended", p)
                         THEN mem[r][Dev("Attended", slot[3])]
                         ELSE mem[r][slot]]
  BY <1>7
<1>9. ASSUME NEW p \in Far(r) PROVE memory[r][Host("Attended", p)] = block[r]
  <2>1. Host("Attended", p) \in Slots /\ Host("Attended", p)[3] = p /\ p \in Ranks
    BY SlotsDiffer DEF Far
  <2>2. memory[r][Host("Attended", p)] = mem[r][Dev("Attended", p)]
    BY <1>5, <1>8, <2>1
  <2> QED  BY <1>6, <2>1, <2>2
<1>10. ASSUME NEW slot \in Slots, slot \notin {Host("Attended", p) : p \in Far(r)}
       PROVE  memory[r][slot] = mem[r][slot]
  BY <1>5, <1>8, <1>10
<1>11. memory[r] \in [Slots -> Contents]
  <2>1. block[r] \in Contents
    BY <1>3, ShardBlockAssumption DEF Stands, Contents, Mixed
  <2>2. ASSUME NEW slot \in Slots PROVE memory[r][slot] \in Contents
    <3>1. CASE slot \in {Host("Attended", p) : p \in Far(r)}
      BY <1>9, <2>1, <3>1
    <3>2. CASE slot \notin {Host("Attended", p) : p \in Far(r)}
      <4>1. memory[r][slot] = mem[r][slot]
        BY <1>10, <3>2
      <4> QED  BY <1>7, <4>1
    <3> QED  BY <3>1, <3>2
  <2> QED  BY <1>8, <2>2
<1>12. memory \in [Ranks -> [Slots -> Contents]] /\ \A q \in Ranks \ {r} : memory[q] = mem[q]
  BY <1>7, <1>11
<1> HIDE DEF memory, leaving
<1>13. \A p \in Far(r) : memory[r][From("Attended", r, p)] = block[r]
  BY <1>9 DEF From, RowsFor, Far
<1>14. Writes(r, "Attended", memory)
  BY <1>1, <1>12, <1>13 DEF Writes, Target
<1> QED  BY <1>1, <1>2, <1>9, <1>10, <1>14, WriteHolds

-------------------------------------------------------------------------------
(* The writes land.                                                          *)

LEMMA SlotSet ==
    ASSUME NEW before \in [Ranks -> [Slots -> Contents]], NEW p \in Ranks, NEW slot \in Slots,
           NEW b \in Contents
    PROVE  LET after == [before EXCEPT ![p][slot] = b] IN
           /\ after \in [Ranks -> [Slots -> Contents]]
           /\ after[p][slot] = b
           /\ \A q \in Ranks, s \in Slots : q # p \/ s # slot => after[q][s] = before[q][s]
OBVIOUS

(* Where r's write of a region to p lands, nobody keeps rows of its own. *)
LEMMA LandingIs ==
    ASSUME TypesHold, NEW r \in Ranks, NEW p \in Others(r),
           NEW region \in {"Normalized", "Attended"},
           \A q \in Ranks, s \in Slots :
               q # p \/ s # Into(Target(region), r, p) => mem'[q][s] = mem[q][s]
    PROVE  \A q \in Ranks : SameRows(q)
<1> DEFINE slot == Into(Target(region), r, p)
<1>1. slot \in Slots /\ p \in Ranks /\ p # r
  BY SlotsDiffer DEF Into, Target, Others
<1> SUFFICES ASSUME NEW q \in Ranks PROVE SameRows(q)
  OBVIOUS
<1>2. CASE q # p
  BY <1>2, SlotsDiffer DEF SameRows
<1>3. CASE q = p
  <2>1. \A n \in Ranks : slot # Host("Attended", n) /\ slot # Dev("Attended", n)
    BY SlotsDiffer DEF Into, Target
  <2>2. slot # Host("Normalized", p)
    BY <1>1, SlotsDiffer DEF Into, Target
  <2>3. \A c \in Regions, n \in Ranks : n = p \/ n \in Far(p) => slot # Dev(c, n)
    <3>1. \A n \in Far(p) : ~IsLocal(n, p)
      BY <1>1, SettingType DEF Far, TypesHold
    <3> QED  BY <1>1, <3>1, SlotsDiffer DEF Into, Target
  <2> HIDE DEF slot
  <2>4. \A s \in Slots : s # slot => mem'[p][s] = mem[p][s]
    BY <1>1 DEF slot
  <2> QED  BY <1>1, <1>3, <2>1, <2>2, <2>3, <2>4, SlotsDiffer DEF SameRows
<1> QED  BY <1>2, <1>3

(* What a write waits to bring is of this block, and still where it is read from. *)
LEMMA SourceIs ==
    ASSUME IInv, NEW r \in Ranks, NEW w \in copies[r] \cup pending[r]
    PROVE  /\ mem[r][w.from] = block[r] /\ w.block = block[r]
           /\ w.to \in Others(r)
           /\ w \in copies[r] <=> w \notin pending[r]
           /\ \E region \in {"Normalized", "Attended"} :
                /\ w = WriteOf(region, r, w.to) /\ w.into = Into(Target(region), r, w.to)
                /\ pc[r] > SentAt(region, r)
<1>1. TypesHold /\ Stands(r) /\ OwnRows(r) /\ OwesOnly(r)
  BY DEF IInv
<1>2. pc[r] \in Int /\ SendAt(r) \in 4 .. 5 /\ PublishAt(r) \in 2 .. 3 /\ SendAt(r) > PublishAt(r)
  BY <1>1 DEF TypesHold, SendAt, PublishAt
<1>3. \A c \in {"Normalized", "Attended"}, p \in Ranks :
        /\ WriteOf(c, r, p).to = p /\ WriteOf(c, r, p).block = block[r]
        /\ WriteOf(c, r, p).from = From(c, r, p)
        /\ WriteOf(c, r, p).into = Into(Target(c), r, p)
  BY DEF WriteOf, Owed
<1>4. ASSUME w \in copies[r] PROVE w.to \in Others(r) /\ IsLocal(r, w.to)
  BY <1>1, <1>4 DEF OwesOnly
<1>5. ASSUME w \in pending[r] PROVE w.to \in Others(r) /\ ~IsLocal(r, w.to) /\ Far(r) # {}
  BY <1>1, <1>5 DEF OwesOnly, Far, Others
<1>6. w.to \in Others(r) /\ w.to \in Ranks
  BY <1>4, <1>5 DEF Others
<1>7. PICK region \in {"Normalized", "Attended"} :
        /\ w = WriteOf(region, r, w.to)
        /\ pc[r] \in SentAt(region, r) + 1 .. SentAt(region, r) + 2
  <2>1. CASE w \in copies[r]
    <3>1. PICK c \in {"Normalized", "Attended"} :
            pc[r] = SentAt(c, r) + 1 /\ w = WriteOf(c, r, w.to)
      BY <1>1, <2>1 DEF OwesOnly
    <3>2. SentAt(c, r) \in Int
      BY <1>2 DEF SentAt
    <3> QED  BY <3>1, <3>2
  <2>2. CASE w \in pending[r]
    BY <1>1, <2>2 DEF OwesOnly
  <2> QED  BY <2>1, <2>2
<1>8. SentAt(region, r) \in Int /\ pc[r] > SentAt(region, r)
  BY <1>2, <1>7 DEF SentAt
<1>9. mem[r][w.from] = block[r]
  <2>1. w.from = From(region, r, w.to)
    BY <1>3, <1>6, <1>7
  <2>2. CASE region = "Normalized"
    <3>1. pc[r] > PublishAt(r) /\ pc[r] > 3
      BY <1>2, <1>7, <2>2 DEF SentAt
    <3>2. CASE w \in copies[r]
      <4>1. w.from = Dev("Normalized", r)
        BY <1>4, <2>1, <2>2, <3>2 DEF From, RowsFor
      <4> QED  BY <1>1, <1>2, <3>1, <4>1 DEF OwnRows, Since, Packed
    <3>3. CASE w \in pending[r]
      <4>1. w.from = Host("Normalized", r)
        BY <1>5, <2>1, <2>2, <3>3 DEF From, RowsFor
      <4> QED  BY <1>1, <1>5, <3>1, <3>3, <4>1 DEF OwnRows, Since
    <3> QED  BY <3>2, <3>3
  <2>3. CASE region = "Attended"
    <3>1. pc[r] > 13
      BY <1>8, <2>3 DEF SentAt
    <3>2. CASE w \in copies[r]
      <4>1. w.from = Dev("Attended", w.to)
        BY <1>4, <2>1, <2>3, <3>2 DEF From, RowsFor
      <4> QED  BY <1>1, <1>2, <1>6, <3>1, <4>1 DEF OwnRows, Since, AttendedAll
    <3>3. CASE w \in pending[r]
      <4>1. w.from = Host("Attended", w.to) /\ w.to \in Far(r)
        BY <1>1, <1>5, <2>1, <2>3, <3>3 DEF From, RowsFor, OwesOnly
      <4> QED  BY <1>1, <3>1, <4>1 DEF OwnRows
    <3> QED  BY <3>2, <3>3
  <2> QED  BY <2>2, <2>3
<1>10. w.block = block[r] /\ w.into = Into(Target(region), r, w.to)
  BY <1>3, <1>6, <1>7
<1>11. w \in copies[r] <=> w \notin pending[r]
  BY <1>4, <1>5
<1> QED  BY <1>6, <1>7, <1>8, <1>9, <1>10, <1>11

(* w lands, and nothing else is written. *)
Lands(r, w) ==
    /\ mem' \in [Ranks -> [Slots -> Contents]]
    /\ mem'[w.to][w.into] = block[r]
    /\ \A q \in Ranks, s \in Slots : q # w.to \/ s # w.into => mem'[q][s] = mem[q][s]

LEMMA LandsSo ==
    ASSUME IInv, NEW r \in Ranks, NEW w \in copies[r] \cup pending[r],
           mem' = [mem EXCEPT ![w.to][w.into] = mem[r][w.from]]
    PROVE  Lands(r, w)
<1>1. w.to \in Ranks /\ w.into \in Slots /\ mem[r][w.from] = block[r]
  BY SourceIs, SlotsDiffer DEF Into, Target, Others
<1>2. mem \in [Ranks -> [Slots -> Contents]] /\ block[r] \in Contents
  BY ShardBlockAssumption DEF IInv, TypesHold, Stands, Contents, Mixed
<1> DEFINE p == w.to
           slot == w.into
           b == mem[r][w.from]
<1>3. mem' = [mem EXCEPT ![p][slot] = b] /\ p \in Ranks /\ slot \in Slots /\ b = block[r]
        /\ b \in Contents
  BY <1>1, <1>2
<1>4. /\ mem' \in [Ranks -> [Slots -> Contents]]
      /\ mem'[p][slot] = b
      /\ \A q \in Ranks, s \in Slots : q # p \/ s # slot => mem'[q][s] = mem[q][s]
  <2> HIDE DEF p, slot, b
  <2>1. mem \in [Ranks -> [Slots -> Contents]]
    BY <1>2
  <2> DEFINE after == [mem EXCEPT ![p][slot] = b]
             Put(m) == /\ m \in [Ranks -> [Slots -> Contents]]
                       /\ m[p][slot] = b
                       /\ \A q \in Ranks, s \in Slots : q # p \/ s # slot => m[q][s] = mem[q][s]
  <2>2. Put(after)
    BY <1>3, <2>1, SlotSet
  <2>3. mem' = after
    BY <1>3
  <2> HIDE DEF after, Put
  <2>4. Put(mem')
    BY <2>2, <2>3
  <2> QED  BY <2>4 DEF Put
<1> QED  BY <1>3, <1>4 DEF Lands

LEMMA LandHolds ==
    ASSUME IInv, NEW r \in Ranks, NEW w \in copies[r] \cup pending[r],
           Lands(r, w), DOMAIN copies' = Ranks, DOMAIN pending' = Ranks,
           copies'[r] = copies[r] \ {w}, pending'[r] = pending[r] \ {w},
           \A q \in Ranks \ {r} : copies'[q] = copies[q] /\ pending'[q] = pending[q],
           UNCHANGED <<setting, pc, block, touched, retries, kernels, out, entered, left, dead>>
    PROVE  IInv'
<1>1. /\ TypesHold
      /\ \A q \in Ranks : Stands(q) /\ QueueHolds(q) /\ OwnRows(q) /\ Brought(q) /\ OwesOnly(q)
      /\ \A q, n \in Ranks : q # n => Arrived(q, n)
  BY DEF IInv
<1>2. PICK region \in {"Normalized", "Attended"} :
        /\ w = WriteOf(region, r, w.to) /\ w.into = Into(Target(region), r, w.to)
        /\ pc[r] > SentAt(region, r)
  BY SourceIs
<1> DEFINE p == w.to
           slot == w.into
<1>3. p \in Others(r) /\ p \in Ranks /\ p # r /\ mem[r][w.from] = block[r]
  BY SourceIs DEF Others
<1>5. slot = Into(Target(region), r, p)
  BY <1>2
<1> HIDE DEF p, slot
<1>6. /\ mem' \in [Ranks -> [Slots -> Contents]]
      /\ mem'[p][slot] = block[r]
      /\ \A q \in Ranks, s \in Slots : q # p \/ s # slot => mem'[q][s] = mem[q][s]
      /\ \A q \in Ranks : SameRows(q)
  <2>1. /\ mem' \in [Ranks -> [Slots -> Contents]]
        /\ mem'[p][slot] = block[r]
        /\ \A q \in Ranks, s \in Slots : q # p \/ s # slot => mem'[q][s] = mem[q][s]
    BY DEF Lands, p, slot
  <2>2. \A q \in Ranks : SameRows(q)
    BY <1>1, <1>3, <1>5, <2>1, LandingIs
  <2> QED  BY <2>1, <2>2
<1>7. ASSUME NEW q \in Ranks PROVE QueueHolds(q)' /\ OwnRows(q)' /\ Brought(q)'
  BY <1>1, <1>6, RankStays
<1>8. ASSUME NEW q \in Ranks PROVE OwesOnly(q)'
  <2>1. copies'[q] \subseteq copies[q] /\ pending'[q] \subseteq pending[q]
    OBVIOUS
  <2> QED  BY <1>1, <2>1, OwingStays
<1>9. /\ \A c, a, b : Into(c, a, b)' = Into(c, a, b) /\ WriteOf(c, a, b)' = WriteOf(c, a, b)
      /\ \A c, q : SentAt(c, q)' = SentAt(c, q)
  BY SettingStays DEF Into, WriteOf, Owed, From, RowsFor, IsLocal, SentAt, SendAt
<1>10. ASSUME NEW a \in Ranks, NEW b \in Ranks, NEW c \in {"Normalized", "Attended"},
              a # r \/ b # p \/ c # region
       PROVE  mem'[b][Into(Target(c), a, b)] = mem[b][Into(Target(c), a, b)]
  <2>1. Into(Target(c), a, b) \in Slots
    BY SlotsDiffer DEF Into, Target
  <2>2. b # p \/ Into(Target(c), a, b) # slot
    BY <1>3, <1>5, <1>10, SlotsDiffer DEF Into, Target
  <2> QED  BY <1>6, <2>1, <2>2
<1>11. ASSUME NEW a \in Ranks, NEW b \in Ranks, a # b PROVE Arrived(a, b)'
  <2>1. CASE a # r
    <3>1. \A c \in {"Normalized", "Received"} : mem'[b][Into(c, a, b)] = mem[b][Into(c, a, b)]
      <4>1. \A c \in {"Normalized", "Attended"} :
              mem'[b][Into(Target(c), a, b)] = mem[b][Into(Target(c), a, b)]
        BY <1>10, <2>1
      <4> QED  BY <4>1 DEF Target
    <3> QED  BY <1>1, <1>11, <2>1, <3>1, ArrivedStays
  <2>2. CASE a = r
    <3> SUFFICES ASSUME NEW c \in {"Normalized", "Attended"}
                 PROVE  mem'[b][Into(Target(c), r, b)] =
                          Since(r, pc[r] > SentAt(c, r)
                                     /\ WriteOf(c, r, b) \notin copies[r] \cup pending[r])'
      BY <1>9, <2>2 DEF Arrived
    <3>1. CASE b = p /\ c = region
      <4>1. w = WriteOf(c, r, b)
        BY <1>2, <3>1 DEF p
      <4> QED  BY <1>2, <1>5, <1>6, <1>9, <3>1, <4>1 DEF Since
    <3>2. CASE b # p \/ c # region
      <4>1. WriteOf(c, r, b) # w
        BY <1>2, <1>3, <3>2, WritesDiffer DEF p
      <4>2. mem[b][Into(Target(c), r, b)] =
              Since(r, pc[r] > SentAt(c, r)
                         /\ WriteOf(c, r, b) \notin copies[r] \cup pending[r])
        BY <1>1, <1>11, <2>2 DEF Arrived
      <4>3. mem'[b][Into(Target(c), r, b)] = mem[b][Into(Target(c), r, b)]
        BY <1>10, <3>2
      <4> QED  BY <1>9, <4>1, <4>2, <4>3 DEF Since
    <3> QED  BY <3>1, <3>2
  <2> QED  BY <2>1, <2>2
<1>12. /\ \A q \in Ranks : Stands(q)'
       /\ InStep'
  BY SettingStays DEF IInv, Stands, InStep, LengthOf, EntersIn, LeavesIn, SendAt, LastEnterAt,
                      PublishAt, FirstBlock
<1>13. TypesHold'
  BY <1>1, <1>6, SettingStays DEF TypesHold, MaxRetries
<1> QED  BY <1>7, <1>8, <1>11, <1>12, <1>13 DEF IInv

LEMMA CopyHolds ==
    ASSUME IInv, NEW r \in Ranks, RunCopy(r)
    PROVE  IInv'
<1>1. PICK w \in copies[r] :
        /\ mem' = [mem EXCEPT ![w.to][w.into] = mem[r][w.from]]
        /\ copies' = [copies EXCEPT ![r] = @ \ {w}]
        /\ UNCHANGED <<setting, pc, block, touched, retries, kernels, pending, out,
                       entered, left, dead>>
  BY DEF RunCopy
<1>2. w \notin pending[r]
  BY SourceIs
<1>3. /\ DOMAIN copies' = Ranks /\ DOMAIN pending' = Ranks
      /\ copies'[r] = copies[r] \ {w} /\ pending'[r] = pending[r] \ {w}
      /\ \A q \in Ranks \ {r} : copies'[q] = copies[q] /\ pending'[q] = pending[q]
  BY <1>1, <1>2 DEF IInv, TypesHold
<1> QED  BY <1>1, <1>3, LandsSo, LandHolds

LEMMA DeliverHolds ==
    ASSUME IInv, NEW r \in Ranks, NEW p \in Ranks, Deliver(r, p)
    PROVE  IInv'
<1>1. PICK w \in pending[r] :
        /\ w.to = p
        /\ mem' = [mem EXCEPT ![p][w.into] = mem[r][w.from]]
        /\ pending' = [pending EXCEPT ![r] = @ \ {w}]
  BY DEF Deliver
<1>2. UNCHANGED <<setting, pc, block, touched, retries, kernels, copies, out, entered, left, dead>>
  BY DEF Deliver
<1>3. w \notin copies[r]
  BY SourceIs
<1>4. /\ DOMAIN copies' = Ranks /\ DOMAIN pending' = Ranks
      /\ copies'[r] = copies[r] \ {w} /\ pending'[r] = pending[r] \ {w}
      /\ \A q \in Ranks \ {r} : copies'[q] = copies[q] /\ pending'[q] = pending[q]
  BY <1>1, <1>2, <1>3 DEF IInv, TypesHold
<1> QED  BY <1>1, <1>2, <1>4, LandsSo, LandHolds

-------------------------------------------------------------------------------
(* A share fails, or runs again.                                             *)

LEMMA SameHolds ==
    ASSUME IInv, retries' \in [Ranks -> 0 .. MaxRetries], dead' \subseteq Ranks,
           UNCHANGED <<setting, pc, block, touched, mem, kernels, copies, pending, out,
                       entered, left>>
    PROVE  IInv'
<1>1. /\ TypesHold
      /\ \A q \in Ranks : Stands(q) /\ QueueHolds(q) /\ OwnRows(q) /\ Brought(q) /\ OwesOnly(q)
      /\ \A q, n \in Ranks : q # n => Arrived(q, n)
  BY DEF IInv
<1>2. ASSUME NEW q \in Ranks PROVE QueueHolds(q)' /\ OwnRows(q)' /\ Brought(q)'
  BY <1>1, RowsStay, RankStays
<1>3. ASSUME NEW q \in Ranks PROVE OwesOnly(q)'
  BY <1>1, OwingStays
<1>4. ASSUME NEW q \in Ranks, NEW n \in Ranks, q # n PROVE Arrived(q, n)'
  BY <1>1, <1>4, ArrivedStays
<1>5. /\ \A q \in Ranks : Stands(q)'
      /\ InStep'
  BY SettingStays DEF IInv, Stands, InStep, LengthOf, EntersIn, LeavesIn, SendAt, LastEnterAt,
                      PublishAt, FirstBlock
<1>6. TypesHold'
  BY <1>1, SettingStays DEF TypesHold, MaxRetries
<1> QED  BY <1>2, <1>3, <1>4, <1>5, <1>6 DEF IInv

LEMMA EndHolds ==
    ASSUME IInv, NEW r \in Ranks, Fail(r) \/ Broken(r)
    PROVE  IInv'
<1>1. dead' \subseteq Ranks
  BY DEF IInv, TypesHold, Fail, Broken
<1>2. UNCHANGED <<setting, pc, block, touched, retries, mem, kernels, copies, pending, out,
                  entered, left>>
  BY DEF Fail, Broken
<1>3. retries' \in [Ranks -> 0 .. MaxRetries]
  BY <1>2 DEF IInv, TypesHold
<1> QED  BY <1>1, <1>2, <1>3, SameHolds

(* What runs again has not left its first call, and starts at it. *)
LEMMA TryAgainHolds ==
    ASSUME IInv, NEW r \in Ranks, TryAgain(r)
    PROVE  IInv'
<1>1. TypesHold /\ Stands(r)
  BY DEF IInv
<1>2. r \notin Metal /\ ~touched[r] /\ retries[r] < MaxRetries
  BY DEF TryAgain
<1>3. pc[r] =< 3 /\ FirstBlock(r) = block[r] /\ pc[r] \in Int
  BY <1>1, <1>2 DEF Stands, PublishAt, TypesHold
<1>4. PICK op \in {"pack", "own", "attend", "unpack"} : At(r, op)
  BY DEF TryAgain, Launching
<1>5. pc[r] = 1
  <2>1. pc[r] \in CudaPlaces(op)
    BY <1>1, <1>2, <1>4, Going DEF PlacesOf
  <2> QED  BY <1>3, <2>1 DEF CudaPlaces
<1>6. pc' = pc /\ block' = block /\ touched' = touched
  BY <1>1, <1>2, <1>3, <1>5 DEF TryAgain, TypesHold
<1>7. retries' \in [Ranks -> 0 .. MaxRetries]
  <2>1. MaxRetries \in Nat
    BY <1>1, SettingType DEF TypesHold
  <2>2. retries[r] + 1 \in 0 .. MaxRetries
    BY <1>1, <1>2, <2>1 DEF TypesHold
  <2> QED  BY <1>1, <2>2 DEF TryAgain, TypesHold
<1>8. UNCHANGED <<setting, mem, kernels, copies, pending, out, entered, left, dead>>
  BY DEF TryAgain
<1>9. dead' \subseteq Ranks
  BY <1>1, <1>8 DEF TypesHold
<1> QED  BY <1>6, <1>7, <1>8, <1>9, SameHolds

-------------------------------------------------------------------------------

LEMMA InvInit ==
    ASSUME Init
    PROVE  IInv
<1>1. /\ setting \in Settings
      /\ pc = [r \in Ranks |-> 1] /\ block = [r \in Ranks |-> 1]
      /\ touched = [r \in Ranks |-> FALSE] /\ retries = [r \in Ranks |-> 0]
      /\ mem = [r \in Ranks |-> [slot \in Slots |-> 0]]
      /\ kernels = [r \in Ranks |-> <<>>]
      /\ copies = [r \in Ranks |-> {}] /\ pending = [r \in Ranks |-> {}]
      /\ out = [r \in Ranks |-> 0] /\ dead = {}
      /\ entered = [r \in Ranks |-> 0] /\ left = [r \in Ranks |-> 0]
  BY DEF Init, Barrier!Init
<1>2. MaxRetries \in Nat /\ Blocks \in Nat /\ BlocksPerStep \in Nat \ {0}
  BY <1>1, SettingType, ShardBlockAssumption
<1>3. TypesHold
  <2>1. 0 \in Contents /\ 1 \in 1 .. Blocks + 1 /\ 0 \in 0 .. MaxRetries
    BY <1>2 DEF Contents, Mixed
  <2> QED  BY <1>1, <2>1 DEF TypesHold
<1>4. ASSUME NEW r \in Ranks PROVE Stands(r)
  <2>1. pc[r] = 1 /\ block[r] = 1 /\ entered[r] = 0 /\ left[r] = 0 /\ touched[r] = FALSE
    BY <1>1
  <2>2. FirstBlock(r) = 1
    <3>1. FirstBlock(r) = ((1 - 1) \div BlocksPerStep) * BlocksPerStep + 1
      BY <2>1 DEF FirstBlock
    <3>2. (0 \div BlocksPerStep) * BlocksPerStep = 0
      BY <1>2
    <3> QED  BY <3>1, <3>2
  <2>3. EntersIn(r) = 0 /\ LeavesIn(r) = 0 /\ pc[r] \in 1 .. LengthOf(r) /\ pc[r] =< PublishAt(r)
    BY <2>1 DEF LengthOf, EntersIn, LeavesIn, SendAt, PublishAt
  <2>4. block[r] \in 1 .. Blocks + 1
    BY <1>2, <2>1
  <2>5. 4 * (block[r] - 1) + EntersIn(r) = 0 /\ 4 * (block[r] - 1) + LeavesIn(r) = 0
    BY <2>1, <2>3
  <2>6. touched[r] \in BOOLEAN
    BY <2>1
  <2> QED  BY <2>1, <2>2, <2>3, <2>4, <2>5, <2>6, Zenon DEF Stands
<1>5. InStep
  BY <1>1 DEF InStep
<1>6. ASSUME NEW r \in Ranks PROVE QueueHolds(r) /\ NextOp(r) = "none"
  BY <1>1 DEF QueueHolds, Queues, CudaQueues, MetalQueues, NextOp
<1>7. ASSUME NEW r \in Ranks, NEW a \in Regions, NEW p \in Ranks
      PROVE  mem[r][Dev(a, p)] = 0 /\ mem[r][Host(a, p)] = 0
  BY <1>1, SlotsDiffer
<1>8. ASSUME NEW r \in Ranks PROVE OwnRows(r) /\ Brought(r)
  <2>1. pc[r] = 1 /\ block[r] = 1 /\ out[r] = 0
    BY <1>1
  <2>3. ~Packed(r) /\ ~(pc[r] > PublishAt(r)) /\ ~AttendedAll(r) /\ ~(pc[r] > 13)
        /\ ~(pc[r] > 16) /\ pc[r] \notin SendAt(r) + 4 .. 12
    BY <2>1 DEF Packed, PublishAt, AttendedAll, SendAt
  <2>4. OutputIs(r) = 0
    BY <1>6, <2>1 DEF OutputIs, Since
  <2>5. \A a \in {"Normalized", "Attended", "Received"}, p \in Ranks :
          mem[r][Dev(a, p)] = 0 /\ mem[r][Host(a, p)] = 0
    BY <1>7, SlotsDiffer
  <2>6. OwnRows(r)
    <3>1. mem[r][Dev("Normalized", r)] = Since(r, Packed(r))
      BY <2>1, <2>3, <2>5 DEF Since
    <3>2. mem[r][Host("Normalized", r)] = Since(r, pc[r] > PublishAt(r))
      BY <2>1, <2>3, <2>5 DEF Since
    <3>3. \A q \in Ranks : mem[r][Dev("Attended", q)] = Since(r, AttendedAll(r))
      BY <2>1, <2>3, <2>5 DEF Since
    <3> QED  BY <2>1, <2>3, <2>4, <3>1, <3>2, <3>3 DEF OwnRows
  <2>7. Brought(r)
    <3> SUFFICES ASSUME NEW q \in Far(r), r \notin ReadsHost
                 PROVE  mem[r][Dev("Received", q)] = Since(r, pc[r] > 16)
      BY <2>3 DEF Brought
    <3> QED  BY <2>1, <2>3, <2>5 DEF Since, Far
  <2> QED  BY <2>6, <2>7
<1>9. ASSUME NEW r \in Ranks PROVE OwesOnly(r)
  BY <1>1 DEF OwesOnly
<1>10. ASSUME NEW q \in Ranks, NEW r \in Ranks PROVE Arrived(q, r)
  <2> SUFFICES ASSUME NEW c \in {"Normalized", "Attended"}
               PROVE  mem[r][Into(Target(c), q, r)] =
                        Since(q, pc[q] > SentAt(c, q)
                                   /\ WriteOf(c, q, r) \notin copies[q] \cup pending[q])
    BY DEF Arrived
  <2>1. mem[r][Into(Target(c), q, r)] = 0
    BY <1>7, SlotsDiffer DEF Into, Target
  <2>2. ~(pc[q] > SentAt(c, q)) /\ block[q] = 1
    BY <1>1 DEF SentAt, SendAt
  <2> QED  BY <2>1, <2>2 DEF Since
<1> QED  BY <1>3, <1>4, <1>5, <1>6, <1>8, <1>9, <1>10 DEF IInv

LEMMA InvStep ==
    ASSUME IInv, [Next]_vars
    PROVE  IInv'
<1>1. CASE UNCHANGED vars
  <2>1. UNCHANGED <<setting, pc, block, touched, mem, kernels, copies, pending, out,
                    entered, left>>
    BY <1>1 DEF vars
  <2>2. retries' = retries /\ dead' = dead
    BY <1>1 DEF vars
  <2>3. retries' \in [Ranks -> 0 .. MaxRetries] /\ dead' \subseteq Ranks
    BY <2>2 DEF IInv, TypesHold
  <2> QED  BY <2>1, <2>3, SameHolds
<1>2. CASE Terminating
  BY <1>1, <1>2 DEF Terminating
<1>3. ASSUME NEW r \in Ranks, Thread(r) PROVE IInv'
  BY <1>3, LaunchHolds, DrainHolds, PublishHolds, SendHolds, EnterHolds, LeaveHolds,
     FetchHolds, ReturnHolds, CollectHolds, EndHolds DEF Thread
<1>4. ASSUME NEW r \in Ranks, RunKernel(r) \/ RunCopy(r) \/ TryAgain(r) \/ Fail(r) PROVE IInv'
  BY <1>4, RunHolds, CopyHolds, TryAgainHolds, EndHolds
<1>5. ASSUME NEW r \in Ranks, NEW p \in Ranks, Deliver(r, p) PROVE IInv'
  BY <1>5, DeliverHolds
<1> QED  BY <1>1, <1>2, <1>3, <1>4, <1>5 DEF Next

LEMMA Inductive == Spec => []IInv
BY InvInit, InvStep, PTL DEF Spec

-------------------------------------------------------------------------------

(* The card may come to a kernel long after it was queued, with the ranks    *)
(* any number of barriers ahead of it: it still finds the rows of its own    *)
(* block in all it reads, wherever the rank's memory is and however its      *)
(* peers reach it.                                                           *)
THEOREM KernelsReadRight == Spec => []KernelsReadTheirBlock
<1>1. IInv => KernelsReadTheirBlock
  BY Reading DEF KernelsReadTheirBlock
<1> QED  BY <1>1, Inductive, PTL

(* What a rank still owes a peer, beside its stream or until the next        *)
(* barrier, lies unchanged where it will be read (`Queued` of worker.rs).    *)
THEOREM SourcesAreLeftAlone == Spec => []SourcesStay
<1>1. IInv => SourcesStay
  BY SourceIs DEF SourcesStay
<1> QED  BY <1>1, Inductive, PTL

(* A thread and its card stay within their programs and their memory.        *)
THEOREM TypeCorrect == Spec => []TypeOK
<1>1. ASSUME IInv PROVE TypeOK
  <2>1. TypesHold /\ \A r \in Ranks : Stands(r)
    BY <1>1 DEF IInv
  <2>2. ASSUME NEW r \in Ranks PROVE entered[r] \in 0 .. 4 * Blocks /\ left[r] \in 0 .. 4 * Blocks
    <3>1. Blocks \in Nat /\ block[r] \in 1 .. Blocks + 1
      BY <2>1, ShardBlockAssumption DEF TypesHold
    <3>2. /\ entered[r] = 4 * (block[r] - 1) + EntersIn(r)
          /\ left[r] = 4 * (block[r] - 1) + LeavesIn(r)
          /\ block[r] = Blocks + 1 => pc[r] = 1
      BY <2>1 DEF Stands
    <3>3. EntersIn(r) \in 0 .. 4 /\ LeavesIn(r) \in 0 .. 4
      BY DEF EntersIn, LeavesIn
    <3>4. pc[r] = 1 => EntersIn(r) = 0 /\ LeavesIn(r) = 0
      BY DEF EntersIn, LeavesIn, SendAt
    <3> QED  BY <3>1, <3>2, <3>3, <3>4
  <2>3. \A r \in Ranks : pc[r] \in 1 .. Len(Program(r))
    BY <2>1, Programs DEF Stands
  <2>4. entered \in [Ranks -> 0 .. 4 * Blocks] /\ left \in [Ranks -> 0 .. 4 * Blocks]
    BY <2>1, <2>2 DEF TypesHold
  <2> QED  BY <2>1, <2>3, <2>4 DEF TypeOK, TypesHold
<1> QED  BY <1>1, Inductive, PTL

-------------------------------------------------------------------------------
(* Only kernels make rows, attend them or take an output.                    *)

(* What Ulysses sees of the ranks. *)
rowsOf == [r \in Ranks |-> mem[r][Dev("Normalized", r)]]
attendedOf == [r \in Ranks |-> mem[r][Dev("Attended", r)]]

(* None of it changes. *)
Unseen ==
    /\ \A r \in Ranks : /\ mem'[r][Dev("Normalized", r)] = mem[r][Dev("Normalized", r)]
                        /\ mem'[r][Dev("Attended", r)] = mem[r][Dev("Attended", r)]
    /\ out' = out

LEMMA UnseenStutters ==
    ASSUME Unseen
    PROVE  UNCHANGED <<rowsOf, attendedOf, out>>
BY DEF Unseen, rowsOf, attendedOf

LEMMA WritesUnseen ==
    ASSUME IInv, NEW r \in Ranks, NEW memory, NEW region \in Regions, NEW into \in Regions,
           WriteAll(r, memory, region, into), out' = out,
           memory \in [Ranks -> [Slots -> Contents]],
           \A q \in Ranks, a \in Regions : memory[q][Dev(a, q)] = mem[q][Dev(a, q)]
    PROVE  Unseen
<1>1. ASSUME NEW q \in Ranks, NEW a \in Regions PROVE mem'[q][Dev(a, q)] = memory[q][Dev(a, q)]
  <2>1. mem' = [n \in Ranks |->
          IF n # r /\ <<r, n>> \in Linked
          THEN [memory[n] EXCEPT
                  ![Host(into, r)] = memory[r][Host(region, RowsFor(r, n, region))]]
          ELSE memory[n]]
    BY DEF WriteAll
  <2>2. mem'[q] = IF q # r /\ <<r, q>> \in Linked
          THEN [memory[q] EXCEPT
                  ![Host(into, r)] = memory[r][Host(region, RowsFor(r, q, region))]]
          ELSE memory[q]
    BY <2>1
  <2>3. Dev(a, q) \in Slots /\ Dev(a, q) # Host(into, r)
    BY SlotsDiffer
  <2>4. DOMAIN memory[q] = Slots
    OBVIOUS
  <2> QED  BY <2>2, <2>3, <2>4
<1> QED  BY <1>1, SlotsDiffer DEF Unseen

LEMMA LandsUnseen ==
    ASSUME IInv, NEW r \in Ranks, NEW w \in copies[r] \cup pending[r],
           mem' = [mem EXCEPT ![w.to][w.into] = mem[r][w.from]], out' = out
    PROVE  Unseen
<1>1. Lands(r, w)
  BY LandsSo
<1>2. PICK region \in {"Normalized", "Attended"} : w.into = Into(Target(region), r, w.to)
  BY SourceIs
<1>3. w.to \in Others(r)
  BY SourceIs
<1>4. TypesHold
  BY DEF IInv
<1>5. \A q \in Ranks, s \in Slots :
        q # w.to \/ s # Into(Target(region), r, w.to) => mem'[q][s] = mem[q][s]
  BY <1>1, <1>2 DEF Lands
<1>6. \A q \in Ranks : SameRows(q)
  BY <1>3, <1>4, <1>5, LandingIs
<1> QED  BY <1>6, SlotsDiffer DEF SameRows, Unseen

LEMMA ThreadUnseen ==
    ASSUME IInv, NEW r \in Ranks, Thread(r) \/ RunCopy(r) \/ TryAgain(r) \/ Fail(r)
    PROVE  Unseen
<1>1. CASE mem' = mem /\ out' = out
  BY <1>1 DEF Unseen
<1>2. CASE Publish(r)
  <2>1. mem' = mem \/ mem' = [mem EXCEPT ![r][Host("Normalized", r)] = mem[r][Dev("Normalized", r)]]
    BY <1>2 DEF Publish
  <2>2. out' = out
    BY <1>2 DEF Publish
  <2>3. ASSUME NEW q \in Ranks, NEW a \in Regions PROVE mem'[q][Dev(a, q)] = mem[q][Dev(a, q)]
    BY <2>1, SlotsDiffer DEF IInv, TypesHold
  <2> QED  BY <2>2, <2>3, SlotsDiffer DEF Unseen
<1>3. CASE Send(r)
  <2>1. mem \in [Ranks -> [Slots -> Contents]]
    BY DEF IInv, TypesHold
  <2>2. WriteAll(r, mem, "Normalized", "Normalized") /\ out' = out
    BY <1>3 DEF Send
  <2> QED  BY <2>1, <2>2, WritesUnseen, SlotsDiffer
<1>4. CASE Return(r)
  <2> DEFINE leaving == {p \in Others(r) : ~ReadHereAlone(r, p)}
             memory == [mem EXCEPT ![r] = [slot \in Slots |->
                           IF \E p \in leaving : slot = Host("Attended", p)
                           THEN mem[r][Dev("Attended", slot[3])]
                           ELSE mem[r][slot]]]
  <2>1. WriteAll(r, memory, "Attended", "Received") /\ out' = out
    BY <1>4 DEF Return
  <2>2. mem \in [Ranks -> [Slots -> Contents]]
    BY DEF IInv, TypesHold
  <2>3. ASSUME NEW slot \in Slots
        PROVE  (IF \E p \in leaving : slot = Host("Attended", p)
                THEN mem[r][Dev("Attended", slot[3])] ELSE mem[r][slot]) \in Contents
    <3>1. slot[3] \in Ranks
      BY DEF Slots
    <3>2. Dev("Attended", slot[3]) \in Slots
      BY <3>1, SlotsDiffer
    <3> QED  BY <2>2, <3>2
  <2>4. memory \in [Ranks -> [Slots -> Contents]]
    BY <2>2, <2>3
  <2>5. ASSUME NEW q \in Ranks, NEW a \in Regions PROVE memory[q][Dev(a, q)] = mem[q][Dev(a, q)]
    <3>1. Dev(a, q) \in Slots /\ \A p \in leaving : Dev(a, q) # Host("Attended", p)
      BY SlotsDiffer DEF Others
    <3> HIDE DEF leaving
    <3> QED  BY <2>2, <3>1
  <2> HIDE DEF memory, leaving
  <2> QED  BY <2>1, <2>4, <2>5, WritesUnseen, SlotsDiffer
<1>5. CASE RunCopy(r)
  <2>1. PICK w \in copies[r] : mem' = [mem EXCEPT ![w.to][w.into] = mem[r][w.from]] /\ out' = out
    BY <1>5 DEF RunCopy
  <2> QED  BY <2>1, LandsUnseen
<1>6. \/ mem' = mem /\ out' = out
      \/ Publish(r) \/ Send(r) \/ Return(r) \/ RunCopy(r)
  BY DEF Thread, Launch, Drain, Enter, Leave, Fetch, Collect, Broken, TryAgain, Fail
<1> QED  BY <1>1, <1>2, <1>3, <1>4, <1>5, <1>6

LEMMA DeliverUnseen ==
    ASSUME IInv, NEW r \in Ranks, NEW p \in Ranks, Deliver(r, p)
    PROVE  Unseen
<1>1. PICK w \in pending[r] : w.to = p /\ mem' = [mem EXCEPT ![p][w.into] = mem[r][w.from]]
  BY DEF Deliver
<1>2. mem' = [mem EXCEPT ![w.to][w.into] = mem[r][w.from]] /\ out' = out
  BY <1>1 DEF Deliver
<1> QED  BY <1>2, LandsUnseen

LEMMA OneChanges ==
    ASSUME NEW f, NEW g, f = [q \in Ranks |-> f[q]], g = [q \in Ranks |-> g[q]],
           NEW r \in Ranks, \A q \in Ranks \ {r} : g[q] = f[q]
    PROVE  /\ \A v : g[r] = v => g = [f EXCEPT ![r] = v]
           /\ g[r] = f[r] => g = f
OBVIOUS

(* A kernel is a stutter of Ulysses, or the step of it that has its name. *)
LEMMA KernelSeen ==
    ASSUME IInv, NEW r \in Ranks, RunKernel(r)
    PROVE  Unseen \/ Abstract!MakeRows(r) \/ Abstract!Attend(r) \/ Abstract!TakeOutput(r)
<1> DEFINE k == Head(kernels[r])
           i == pc[r]
           b == block[r]
           brings(region) == \E n : k = Bring(r, region, n)
<1>1. /\ TypesHold /\ InStep
      /\ \A q \in Ranks : Stands(q) /\ QueueHolds(q) /\ OwnRows(q)
  BY DEF IInv
<1>2. /\ kernels[r] # <<>>
      /\ \A q \in Ranks \ {r} : mem'[q] = mem[q] /\ out'[q] = out[q]
      /\ mem'[r][Dev("Normalized", r)] =
           IF k.op = "pack" THEN k.block ELSE mem[r][Dev("Normalized", r)]
      /\ mem'[r][Dev("Attended", r)] =
           IF k.op = "attend" THEN k.block ELSE mem[r][Dev("Attended", r)]
      /\ out'[r] = IF k.op = "unpack" THEN k.block ELSE out[r]
      /\ out' \in [Ranks -> Contents]
  <2>1. /\ kernels[r] # <<>>
        /\ kernels'[r] = Tail(kernels[r]) /\ DOMAIN kernels' = Ranks
        /\ \A q \in Ranks \ {r} :
             kernels'[q] = kernels[q] /\ mem'[q] = mem[q] /\ out'[q] = out[q]
        /\ \A region \in Regions, q \in Ranks :
             mem'[r][Host(region, q)] = mem[r][Host(region, q)]
        /\ mem'[r][Dev("Normalized", r)] =
             IF k.op = "pack" THEN k.block ELSE mem[r][Dev("Normalized", r)]
        /\ \A q \in Ranks : mem'[r][Dev("Attended", q)] =
             IF k.op = "attend" THEN k.block ELSE mem[r][Dev("Attended", q)]
        /\ \A q \in Ranks \ {r} : mem'[r][Dev("Normalized", q)] =
             IF q \in Far(r) /\ brings("Normalized") THEN k.block
             ELSE mem[r][Dev("Normalized", q)]
        /\ \A q \in Ranks \ {r} : mem'[r][Dev("Received", q)] =
             IF q \in Far(r) /\ OnDevice(r, q) /\ brings("Received") THEN k.block
             ELSE mem[r][Dev("Received", q)]
        /\ out'[r] = IF k.op = "unpack" THEN k.block ELSE out[r]
        /\ mem' \in [Ranks -> [Slots -> Contents]]
        /\ out' \in [Ranks -> Contents]
    BY RunChanges, Zenon
  <2> HIDE DEF k, brings
  <2> QED  BY <2>1
<1>3. KernelKind(r, k, i, b) /\ NextOp(r) = k.op
  BY <1>1, <1>2, KernelKinds, QueueFirst
<1>4. b \in 1 .. Blocks + 1 /\ i \in 1 .. 20 /\ (b = Blocks + 1 => i = 1) /\ Blocks \in Nat
  BY <1>1, ShardBlockAssumption DEF Stands, TypesHold
<1>5. SendAt(r) \in 4 .. 5 /\ LengthOf(r) \in 19 .. 20
  BY DEF SendAt, LengthOf
<1>6. /\ mem[r][Dev("Normalized", r)] = Since(r, Packed(r))
      /\ mem[r][Dev("Attended", r)] = Since(r, AttendedAll(r))
      /\ out[r] = OutputIs(r)
  BY <1>1 DEF OwnRows
<1> HIDE DEF k, i, b, brings
<1>7. \/ i \in 2 .. 3 /\ k.op = "pack" /\ k.block = b
      \/ k.op \in {"own", "upload"}
      \/ i = 12 /\ k.op = "attend" /\ k.block = b
      \/ r \notin Metal /\ i \in 1 .. 2 /\ k.op = "unpack" /\ k.block = b - 1
      \/ r \in Metal /\ i = 18 /\ k.op = "unpack" /\ k.block = b
  BY <1>3, KernelOps DEF KernelKind
<1>8. /\ \A q \in Ranks \ {r} : rowsOf'[q] = rowsOf[q] /\ attendedOf'[q] = attendedOf[q]
      /\ \A q \in Ranks : rowsOf[q] = mem[q][Dev("Normalized", q)]
                            /\ attendedOf[q] = mem[q][Dev("Attended", q)]
      /\ rowsOf'[r] = mem'[r][Dev("Normalized", r)] /\ attendedOf'[r] = mem'[r][Dev("Attended", r)]
  BY <1>1, <1>2 DEF rowsOf, attendedOf, TypesHold
<1>9. /\ \A v : rowsOf'[r] = v => rowsOf' = [rowsOf EXCEPT ![r] = v]
      /\ rowsOf'[r] = rowsOf[r] => rowsOf' = rowsOf
      /\ \A v : attendedOf'[r] = v => attendedOf' = [attendedOf EXCEPT ![r] = v]
      /\ attendedOf'[r] = attendedOf[r] => attendedOf' = attendedOf
      /\ \A v : out'[r] = v => out' = [out EXCEPT ![r] = v]
      /\ out'[r] = out[r] => out' = out
  <2>1. rowsOf = [q \in Ranks |-> rowsOf[q]] /\ rowsOf' = [q \in Ranks |-> rowsOf'[q]]
    BY DEF rowsOf
  <2>2. /\ attendedOf = [q \in Ranks |-> attendedOf[q]]
        /\ attendedOf' = [q \in Ranks |-> attendedOf'[q]]
    BY DEF attendedOf
  <2>3. out = [q \in Ranks |-> out[q]] /\ out' = [q \in Ranks |-> out'[q]]
    BY <1>1, <1>2 DEF TypesHold
  <2>4. \A q \in Ranks \ {r} : out'[q] = out[q]
    BY <1>2
  <2>5. \A q \in Ranks \ {r} : rowsOf'[q] = rowsOf[q]
    BY <1>8
  <2>6. \A q \in Ranks \ {r} : attendedOf'[q] = attendedOf[q]
    BY <1>8
  <2>7. /\ \A v : rowsOf'[r] = v => rowsOf' = [rowsOf EXCEPT ![r] = v]
        /\ rowsOf'[r] = rowsOf[r] => rowsOf' = rowsOf
    BY <2>1, <2>5, OneChanges
  <2>8. /\ \A v : attendedOf'[r] = v => attendedOf' = [attendedOf EXCEPT ![r] = v]
        /\ attendedOf'[r] = attendedOf[r] => attendedOf' = attendedOf
    BY <2>2, <2>6, OneChanges
  <2>9. /\ \A v : out'[r] = v => out' = [out EXCEPT ![r] = v]
        /\ out'[r] = out[r] => out' = out
    BY <2>3, <2>4, OneChanges
  <2> QED  BY <2>7, <2>8, <2>9
<1>10. CASE k.op \in {"own", "upload"}
  <2>1. /\ mem'[r][Dev("Normalized", r)] = mem[r][Dev("Normalized", r)]
        /\ mem'[r][Dev("Attended", r)] = mem[r][Dev("Attended", r)]
        /\ out'[r] = out[r]
    BY <1>2, <1>10
  <2>2. out' = out
    BY <1>9, <2>1
  <2>3. \A q \in Ranks \ {r} : mem'[q] = mem[q]
    BY <1>2
  <2> QED  BY <2>1, <2>2, <2>3 DEF Unseen
<1>11. CASE i \in 2 .. 3 /\ k.op = "pack" /\ k.block = b
  <2>1. rowsOf[r] = b - 1
    BY <1>3, <1>6, <1>8, <1>11 DEF Since, Packed, i, b
  <2>2. out[r] = b - 1
    <3>1. NextOp(r) = "pack" /\ pc[r] \in 2 .. 3
      BY <1>3, <1>11 DEF i
    <3> QED  BY <1>6, <3>1 DEF OutputIs, Since, b
  <2>3. rowsOf' = [rowsOf EXCEPT ![r] = b] /\ attendedOf' = attendedOf /\ out' = out
    <3>1. rowsOf'[r] = b /\ attendedOf'[r] = attendedOf[r] /\ out'[r] = out[r]
      BY <1>2, <1>8, <1>11
    <3> QED  BY <1>9, <3>1
  <2>4. b - 1 < Blocks /\ (b - 1) + 1 = b
    BY <1>4, <1>11
  <2>5. rowsOf' = [rowsOf EXCEPT ![r] = @ + 1]
    BY <2>1, <2>3, <2>4
  <2> QED  BY <2>1, <2>2, <2>3, <2>4, <2>5 DEF Abstract!MakeRows, rowsOf, attendedOf
<1>12. CASE i = 12 /\ k.op = "attend" /\ k.block = b
  <2>1. attendedOf[r] = b - 1
    BY <1>3, <1>6, <1>8, <1>12 DEF Since, AttendedAll, i, b
  <2>2. ASSUME NEW q \in Ranks PROVE rowsOf[q] = b
    <3>1. block[q] = b /\ pc[q] > SendAt(q) + 1
      <4>1. pc[r] = 12 /\ pc[r] > SendAt(r) + 2 /\ pc[r] =< 14
        BY <1>5, <1>12 DEF i
      <4> QED  BY <1>1, <4>1, NormalizedTogether DEF b
    <3>2. SendAt(q) \in 4 .. 5 /\ pc[q] \in Int
      <4>1. pc[q] \in Int
        BY <1>1, SMTT(60) DEF TypesHold
      <4> QED  BY <4>1 DEF SendAt
    <3>3. Packed(q)
      BY <3>1, <3>2 DEF Packed
    <3>4. mem[q][Dev("Normalized", q)] = Since(q, Packed(q))
      BY <1>1 DEF OwnRows
    <3> QED  BY <1>8, <3>1, <3>3, <3>4 DEF Since
  <2>3. rowsOf' = rowsOf /\ attendedOf' = [attendedOf EXCEPT ![r] = rowsOf[r]] /\ out' = out
    <3>1. rowsOf'[r] = rowsOf[r] /\ attendedOf'[r] = rowsOf[r] /\ out'[r] = out[r]
      BY <1>2, <1>8, <1>12, <2>2
    <3> QED  BY <1>9, <3>1
  <2>4. b - 1 < b
    BY <1>4
  <2> QED  BY <2>1, <2>2, <2>3, <2>4 DEF Abstract!Attend, rowsOf, attendedOf
<1>13. ASSUME k.op = "unpack",
              \/ r \notin Metal /\ i \in 1 .. 2 /\ k.block = b - 1
              \/ r \in Metal /\ i = 18 /\ k.block = b
       PROVE  Abstract!TakeOutput(r)
  <2>1. out[r] = k.block - 1
    <3>1. CASE r \notin Metal /\ i \in 1 .. 2 /\ k.block = b - 1
      <4>1. NextOp(r) = "unpack" /\ pc[r] =< 2
        BY <1>3, <1>13, <3>1 DEF i
      <4>2. out[r] = b - 2
        BY <1>6, <3>1, <4>1 DEF OutputIs, b
      <4> QED  BY <1>4, <3>1, <4>2
    <3>2. CASE r \in Metal /\ i = 18 /\ k.block = b
      <4>1. NextOp(r) = "unpack" /\ pc[r] = 18
        BY <1>3, <1>13, <3>2 DEF i
      <4> QED  BY <1>6, <3>2, <4>1 DEF OutputIs, Since, b
    <3> QED  BY <1>13, <3>1, <3>2
  <2>2. ASSUME NEW q \in Ranks PROVE attendedOf[q] = k.block
    <3>1. pc[r] > 15 \/ pc[r] =< SendAt(r) + 1
      BY <1>5, <1>13 DEF i
    <3>2. k.block = IF pc[r] > 15 THEN block[r] ELSE block[r] - 1
      BY <1>13 DEF i, b
    <3>3. \/ block[q] = k.block /\ pc[q] > 14
          \/ block[q] = k.block + 1 /\ pc[q] =< SendAt(q) + 2
      BY <1>1, <3>1, <3>2, ReceivedTogether
    <3>4. SendAt(q) \in 4 .. 5 /\ pc[q] \in Int /\ k.block \in Int
      BY <1>1, <1>4, <1>13, SMTT(60) DEF SendAt, TypesHold
    <3>5. attendedOf[q] = Since(q, AttendedAll(q))
      BY <1>1, <1>8 DEF OwnRows
    <3>6. \/ block[q] = k.block /\ AttendedAll(q)
          \/ block[q] = k.block + 1 /\ ~AttendedAll(q)
      BY <3>3, <3>4 DEF AttendedAll
    <3> QED  BY <3>4, <3>5, <3>6 DEF Since
  <2>3. rowsOf' = rowsOf /\ attendedOf' = attendedOf /\ out' = [out EXCEPT ![r] = attendedOf[r]]
    <3>1. rowsOf'[r] = rowsOf[r] /\ attendedOf'[r] = attendedOf[r] /\ out'[r] = attendedOf[r]
      BY <1>2, <1>8, <1>13, <2>2
    <3> QED  BY <1>9, <3>1
  <2>4. k.block - 1 < k.block
    BY <1>4, <1>13
  <2> QED  BY <2>1, <2>2, <2>3, <2>4 DEF Abstract!TakeOutput, rowsOf, attendedOf
<1> QED  BY <1>7, <1>10, <1>11, <1>12, <1>13

(* The blocks over memory, streams and barriers are the blocks of Ulysses: a  *)
(* rank attends once every rank's rows of that block are made, and takes its  *)
(* output once every rank has attended it.                                    *)
THEOREM ImplementsUlysses == Spec => IsUlysses
<1>1. Init => Abstract!Init
  <2> SUFFICES ASSUME Init PROVE Abstract!Init
    OBVIOUS
  <2>1. mem = [r \in Ranks |-> [slot \in Slots |-> 0]] /\ out = [r \in Ranks |-> 0]
    BY DEF Init
  <2>2. \A r \in Ranks : mem[r][Dev("Normalized", r)] = 0 /\ mem[r][Dev("Attended", r)] = 0
    BY <2>1, SlotsDiffer
  <2> QED  BY <2>1, <2>2 DEF Abstract!Init
<1>2. IInv /\ [Next]_vars => [Abstract!Next]_(Abstract!vars)
  <2> SUFFICES ASSUME IInv, [Next]_vars PROVE [Abstract!Next]_(Abstract!vars)
    OBVIOUS
  <2>1. Unseen => UNCHANGED Abstract!vars
    BY UnseenStutters DEF Abstract!vars, rowsOf, attendedOf
  <2>2. CASE UNCHANGED vars
    BY <2>1, <2>2 DEF vars, Unseen
  <2>3. CASE Terminating
    BY <2>2, <2>3 DEF Terminating
  <2>4. ASSUME NEW r \in Ranks, RunKernel(r) PROVE Abstract!Next \/ Unseen
    BY <2>4, KernelSeen DEF Abstract!Next
  <2>5. ASSUME NEW r \in Ranks, Thread(r) \/ RunCopy(r) \/ TryAgain(r) \/ Fail(r) PROVE Unseen
    BY <2>5, ThreadUnseen
  <2>6. ASSUME NEW r \in Ranks, NEW p \in Ranks, Deliver(r, p) PROVE Unseen
    BY <2>6, DeliverUnseen
  <2> QED  BY <2>1, <2>2, <2>3, <2>4, <2>5, <2>6 DEF Next
<1> QED  BY <1>1, <1>2, Inductive, PTL DEF Spec, IsUlysses, Abstract!Spec

-------------------------------------------------------------------------------
(* The shares of a step, and what becomes of their answers (Shares): what     *)
(* folds over a set and over a sequence add up to, first.                      *)

LEMMA LeastNat ==
    ASSUME NEW T, T \subseteq Nat, T # {}
    PROVE  \E n \in T : \A m \in T : n <= m
<1>1. PICK n \in T : \A m \in T : ~ (<<m, n>> \in OpToRel(<, Nat))
  BY NatLessThanWellFounded, WFMin
<1>2. \A m \in T : ~(m < n)
  BY <1>1 DEF OpToRel
<1> QED  BY <1>2

(* c takes a member of each part of S, and f adds up what g is of them, one by one. *)
Takes(c, S) == \A s \in SUBSET S : s # {} => c[s] \in s
Adds(f, S, g, c) ==
    \A s \in SUBSET S : /\ s = {} => f[s] = 0
                        /\ s # {} => f[s] = g[c[s]] + f[s \ {c[s]}]

(* There is such a sum, ... *)
LEMMA Sums ==
    ASSUME NEW S, IsFiniteSet(S), NEW g \in [S -> Nat], NEW c, Takes(c, S)
    PROVE  \E f \in [SUBSET S -> Nat] : Adds(f, S, g, c)
<1> DEFINE Upto(n) == {s \in SUBSET S : Cardinality(s) <= n}
           Sum(f, s) == IF s = {} THEN 0 ELSE g[c[s]] + f[s \ {c[s]}]
           Good(n, f) == f \in [Upto(n) -> Nat] /\ \A s \in Upto(n) : f[s] = Sum(f, s)
           Bad == {n \in Nat : ~ \E f : Good(n, f)}
<1>1. \A s \in SUBSET S : IsFiniteSet(s) /\ Cardinality(s) \in Nat
  BY FS_Subset, FS_CardinalityType
<1>2. ASSUME NEW s \in SUBSET S, s # {}
      PROVE  /\ c[s] \in S /\ g[c[s]] \in Nat /\ s \ {c[s]} \in SUBSET S
             /\ Cardinality(s \ {c[s]}) = Cardinality(s) - 1
  BY <1>1, <1>2, FS_RemoveElement DEF Takes
<1>3. Cardinality({}) = 0 /\ \A s \in SUBSET S : Cardinality(s) <= 0 => s = {}
  BY <1>1, FS_EmptySet
<1>4. Good(0, [s \in Upto(0) |-> 0])
  BY <1>3
<1>5. ASSUME NEW n \in Nat, NEW f, Good(n, f)
      PROVE  Good(n + 1, [s \in Upto(n + 1) |-> Sum(f, s)])
  <2> DEFINE h == [s \in Upto(n + 1) |-> Sum(f, s)]
             Above == Upto(n + 1)
             Now == Upto(n)
  <2>1. ASSUME NEW s \in Above, s # {} PROVE s \ {c[s]} \in Now /\ g[c[s]] \in Nat
    <3>1. s \in SUBSET S /\ Cardinality(s) <= n + 1 /\ Cardinality(s) \in Nat
      BY <1>1
    <3>2. Cardinality(s) - 1 <= n
      BY <3>1
    <3> QED  BY <1>2, <2>1, <3>1, <3>2
  <2>2. Now \subseteq Above
    <3>1. ASSUME NEW s \in SUBSET S, Cardinality(s) <= n PROVE Cardinality(s) <= n + 1
      BY <1>1, <3>1
    <3> QED  BY <3>1
  <2>3. f \in [Now -> Nat] /\ \A s \in Now : f[s] = Sum(f, s)
    BY <1>5
  <2> HIDE DEF Now, Above
  <2>4. \A s \in Above : Sum(f, s) \in Nat
    BY <2>1, <2>3
  <2>5. h = [s \in Above |-> Sum(f, s)]
    BY DEF Above
  <2> HIDE DEF h
  <2>6. \A s \in Now : h[s] = f[s]
    BY <2>2, <2>3, <2>5
  <2>7. \A s \in Above : Sum(f, s) = Sum(h, s)
    BY <2>1, <2>6
  <2>8. h \in [Above -> Nat] /\ \A s \in Above : h[s] = Sum(h, s)
    BY <2>4, <2>5, <2>7
  <2> QED  BY <2>8 DEF Above, h
<1>6. \A n : n \in Bad <=> n \in Nat /\ ~ \E f : Good(n, f)
  OBVIOUS
<1>7. \E f : Good(0, f)
  BY <1>4
<1>8. ASSUME NEW n \in Nat, NEW f, Good(n, f) PROVE \E h : Good(n + 1, h)
  <2> DEFINE h == [s \in Upto(n + 1) |-> Sum(f, s)]
  <2> HIDE DEF Good
  <2>1. Good(n + 1, h)
    BY <1>5, <1>8
  <2> HIDE DEF h
  <2> QED  BY <2>1
<1> HIDE DEF Good, Bad
<1>9. Bad = {}
  <2> SUFFICES ASSUME Bad # {} PROVE FALSE
    OBVIOUS
  <2>1. Bad \subseteq Nat
    BY <1>6
  <2>2. PICK n \in Bad : \A m \in Bad : n <= m
    BY <2>1, LeastNat
  <2>3. n \in Nat /\ n # 0
    BY <1>6, <1>7
  <2>4. n - 1 \in Nat /\ n - 1 \notin Bad /\ n - 1 + 1 = n
    BY <2>2, <2>3
  <2>5. PICK f : Good(n - 1, f)
    BY <1>6, <2>4
  <2>6. \E h : Good(n, h)
    BY <1>8, <2>4, <2>5
  <2> QED  BY <1>6, <2>3, <2>6
<1>10. Upto(Cardinality(S)) = SUBSET S
  BY FS_Subset
<1>11. PICK f : Good(Cardinality(S), f)
  BY <1>1, <1>6, <1>9
<1>12. f \in [SUBSET S -> Nat] /\ \A s \in SUBSET S : f[s] = Sum(f, s)
  BY <1>10, <1>11 DEF Good
<1> QED  BY <1>12 DEF Adds

(* ... and what holds of nothing, and of a part if it does with a member less, holds of each. *)
Grows(Good, S, c) ==
    \A s \in SUBSET S : /\ s = {} => s \in Good
                        /\ s # {} /\ s \ {c[s]} \in Good => s \in Good

LEMMA OneByOne ==
    ASSUME NEW S, IsFiniteSet(S), NEW c, Takes(c, S), NEW Good, Grows(Good, S, c)
    PROVE  SUBSET S \subseteq Good
<1> DEFINE Bad == {n \in Nat : \E s \in SUBSET S : Cardinality(s) = n /\ s \notin Good}
<1>1. \A s \in SUBSET S : IsFiniteSet(s) /\ Cardinality(s) \in Nat
  BY FS_Subset, FS_CardinalityType
<1> SUFFICES ASSUME Bad # {} PROVE FALSE
  BY <1>1
<1>2. PICK n \in Bad : \A m \in Bad : n <= m
  <2>1. Bad \subseteq Nat
    OBVIOUS
  <2> HIDE DEF Bad
  <2> QED  BY <2>1, LeastNat
<1>3. PICK s \in SUBSET S : Cardinality(s) = n /\ s \notin Good
  BY <1>2
<1>4. s # {}
  BY <1>3 DEF Grows
<1>5. c[s] \in s /\ s \ {c[s]} \in SUBSET S
  BY <1>4 DEF Takes
<1>6. Cardinality(s \ {c[s]}) = n - 1 /\ n \in Nat
  BY <1>1, <1>3, <1>5, FS_RemoveElement
<1>7. s \ {c[s]} \notin Good
  BY <1>3, <1>4 DEF Grows
<1>8. n - 1 \in Bad
  BY <1>1, <1>5, <1>6, <1>7
<1> QED  BY <1>2, <1>6, <1>8

(* A sum is a number of each part. *)
LEMMA SumsAreNumbers ==
    ASSUME NEW S, IsFiniteSet(S), NEW g \in [S -> Nat], NEW c, Takes(c, S), NEW f,
           \A s \in SUBSET S :
             /\ s = {} => f[s] = 0
             /\ s # {} => f[s] \in {g[c[s]] + f[s \ {c[s]}], f[s \ {c[s]}] + g[c[s]]}
    PROVE  (\A s \in SUBSET S : f[s] \in Nat) /\ Adds(f, S, g, c)
<1> DEFINE Good == {s \in SUBSET S : f[s] \in Nat}
<1>1. \A s \in SUBSET S : s # {} => g[c[s]] \in Nat /\ s \ {c[s]} \in SUBSET S
  BY DEF Takes
<1>2. \A a, b \in Nat : a + b \in Nat /\ b + a = a + b
  OBVIOUS
<1>3. \A s \in SUBSET S : s # {} /\ s \ {c[s]} \in Good =>
        f[s] = g[c[s]] + f[s \ {c[s]}] /\ s \in Good
  BY <1>1, <1>2
<1>4. ASSUME NEW s \in SUBSET S, s = {} PROVE s \in Good
  <2>1. f[s] = 0
    BY <1>4
  <2> QED  BY <2>1
<1> HIDE DEF Good
<1>5. SUBSET S \subseteq Good
  <2>1. Grows(Good, S, c)
    BY <1>3, <1>4 DEF Grows
  <2> QED  BY <2>1, OneByOne
<1>6. \A s \in SUBSET S : f[s] \in Nat
  BY <1>5 DEF Good
<1>7. \A s \in SUBSET S : s # {} => f[s] = g[c[s]] + f[s \ {c[s]}]
  BY <1>1, <1>3, <1>5
<1> QED  BY <1>6, <1>7 DEF Adds

LEMMA MaxIs ==
    ASSUME NEW n \in Nat, NEW T, T \subseteq 1 .. n, T # {}
    PROVE  Max(T) \in T /\ \A y \in T : Max(T) >= y
<1> DEFINE Left == {m \in Nat : \E x \in T : m = n - x}
<1>1. \A x \in T : x \in Int /\ n - x \in Nat
  OBVIOUS
<1>2. Left \subseteq Nat /\ Left # {}
  BY <1>1
<1>3. PICK m \in Left : \A k \in Left : m <= k
  <2> HIDE DEF Left
  <2> QED  BY <1>2, LeastNat
<1>4. PICK x \in T : m = n - x
  OBVIOUS
<1>5. ASSUME NEW y \in T PROVE x >= y
  <2>1. n - x <= n - y /\ x \in Int /\ y \in Int
    BY <1>1, <1>3, <1>4
  <2> QED  BY <2>1
<1> QED  BY <1>5 DEF Max

LEMMA MaxUpto == ASSUME NEW n \in Nat PROVE Max(1 .. n + 1) = n + 1
<1> DEFINE T == 1 .. n + 1
<1>1. n + 1 \in T /\ T \subseteq 1 .. n + 1 /\ T # {} /\ n + 1 \in Nat
  OBVIOUS
<1>2. \A x \in T : x >= n + 1 => x = n + 1
  OBVIOUS
<1> HIDE DEF T
<1>3. Max(T) \in T /\ \A y \in T : Max(T) >= y
  BY <1>1, MaxIs
<1>4. Max(T) = n + 1
  BY <1>1, <1>2, <1>3
<1> QED  BY <1>4 DEF T

LEMMA SeqSum ==
    ASSUME NEW s \in Seq(Nat)
    PROVE  \E f \in [SUBSET DOMAIN s -> Nat] : \E c :
             /\ Total(s) = f[DOMAIN s] /\ Takes(c, DOMAIN s) /\ Adds(f, DOMAIN s, s, c)
             /\ \A t \in SUBSET DOMAIN s : c[t] = Max(t)
<1> DEFINE S == DOMAIN s
           c == [t \in SUBSET S |-> Max(t)]
           IsSum(f) == f = [t \in SUBSET S |->
                              IF t = {} THEN 0 ELSE f[t \ {Max(t)}] + s[Max(t)]]
           sum == CHOOSE f : IsSum(f)
<1>0. IsFiniteSet(S) /\ s \in [S -> Nat] /\ S = 1 .. Len(s) /\ Len(s) \in Nat
  <2>1. s \in [S -> Nat] /\ S = 1 .. Len(s) /\ Len(s) \in Nat
    OBVIOUS
  <2>2. \A n \in Nat : IsFiniteSet(1 .. n)
    BY FS_Interval
  <2> QED  BY <2>1, <2>2
<1>1. Takes(c, S)
  BY <1>0, MaxIs DEF Takes
<1>2. Total(s) = sum[S]
  BY DEF Total, FoldLeft, MapThenFoldSet
<1> HIDE DEF S
<1>3. \A t \in SUBSET S : t # {} => Max(t) \in S /\ s[Max(t)] \in Nat /\ t \ {Max(t)} \in SUBSET S
  BY <1>0, MaxIs
<1>4. ASSUME NEW f \in [SUBSET S -> Nat], Adds(f, S, s, c) PROVE IsSum(f)
  <2>1. ASSUME NEW t \in SUBSET S, t # {} PROVE f[t] = f[t \ {Max(t)}] + s[Max(t)]
    <3>1. f[t] = s[Max(t)] + f[t \ {Max(t)}]
      BY <1>4, <2>1 DEF Adds
    <3>2. s[Max(t)] \in Nat /\ f[t \ {Max(t)}] \in Nat
      BY <1>3, <2>1
    <3> QED  BY <3>1, <3>2
  <2>2. \A t \in SUBSET S : t = {} => f[t] = 0
    BY <1>4 DEF Adds
  <2> QED  BY <2>1, <2>2
<1>5. \E f : IsSum(f)
  <2> HIDE DEF IsSum, c
  <2> QED  BY <1>0, <1>1, <1>4, Sums
<1>6. IsSum(sum)
  <2> HIDE DEF IsSum
  <2> QED  BY <1>5
<1> HIDE DEF sum
<1>7. sum = [t \in SUBSET S |-> sum[t]]
  BY <1>6
<1>8. \A t \in SUBSET S :
        /\ t = {} => sum[t] = 0
        /\ t # {} => sum[t] \in {s[c[t]] + sum[t \ {c[t]}], sum[t \ {c[t]}] + s[c[t]]}
  BY <1>6
<1>9. (\A t \in SUBSET S : sum[t] \in Nat) /\ Adds(sum, S, s, c)
  <2> HIDE DEF c, IsSum
  <2> QED  BY <1>0, <1>1, <1>8, SumsAreNumbers
<1>10. sum \in [SUBSET S -> Nat]
  BY <1>7, <1>9
<1>11. \A t \in SUBSET S : c[t] = Max(t)
  OBVIOUS
<1> HIDE DEF c, IsSum
<1> QED  BY <1>1, <1>2, <1>9, <1>10, <1>11 DEF S

(* P[i] is the sum of the first i of s. *)
SumsUp(P, s) ==
    /\ P \in [0 .. Len(s) -> Nat] /\ P[0] = 0
    /\ \A i \in 1 .. Len(s) : P[i] = P[i - 1] + s[i]

LEMMA TotalSums ==
    ASSUME NEW s \in Seq(Nat)
    PROVE  \E P : SumsUp(P, s) /\ Total(s) = P[Len(s)]
<1>0. Len(s) \in Nat /\ DOMAIN s = 1 .. Len(s) /\ \A i \in 1 .. Len(s) : s[i] \in Nat
  OBVIOUS
<1>01. PICK f \in [SUBSET DOMAIN s -> Nat] : \E c :
         /\ Total(s) = f[DOMAIN s] /\ Takes(c, DOMAIN s) /\ Adds(f, DOMAIN s, s, c)
         /\ \A t \in SUBSET DOMAIN s : c[t] = Max(t)
  BY SeqSum
<1>1. PICK c :
         /\ Total(s) = f[DOMAIN s] /\ Takes(c, DOMAIN s) /\ Adds(f, DOMAIN s, s, c)
         /\ \A t \in SUBSET DOMAIN s : c[t] = Max(t)
  BY <1>01
<1> DEFINE P == [i \in 0 .. Len(s) |-> f[1 .. i]]
<1>2. \A i \in 0 .. Len(s) : 1 .. i \in SUBSET DOMAIN s /\ f[1 .. i] \in Nat
  <2>1. \A i \in 0 .. Len(s) : 1 .. i \in SUBSET DOMAIN s
    BY <1>0
  <2> QED  BY <2>1
<1>3. P \in [0 .. Len(s) -> Nat]
  BY <1>2
<1>4. P[0] = 0
  <2>1. \A t \in SUBSET DOMAIN s : t = {} => f[t] = 0
    BY <1>1 DEF Adds
  <2>2. 1 .. 0 = {} /\ 0 \in 0 .. Len(s)
    BY <1>0
  <2> QED  BY <1>2, <2>1, <2>2
<1>5. ASSUME NEW i \in 1 .. Len(s) PROVE P[i] = P[i - 1] + s[i]
  <2> DEFINE t == 1 .. i
             u == 1 .. i - 1
  <2>1. i - 1 \in Nat /\ i - 1 + 1 = i /\ i \in Nat /\ i \in 0 .. Len(s) /\ i - 1 \in 0 .. Len(s)
    BY <1>0
  <2>2. Max(t) = i
    BY <2>1, MaxUpto
  <2>3. t # {} /\ t \ {i} = u
    <3>1. i \in t
      BY <1>0
    <3>2. \A x : x \in t /\ x # i <=> x \in u
      BY <1>0
    <3> HIDE DEF t, u
    <3> QED  BY <3>1, <3>2
  <2>4. t \in SUBSET DOMAIN s /\ P[i] = f[t] /\ P[i - 1] = f[u]
    BY <1>2, <2>1
  <2> HIDE DEF P, t, u
  <2>5. f[t] = s[i] + f[u]
    BY <1>1, <2>2, <2>3, <2>4 DEF Adds
  <2>6. s[i] \in Nat /\ P[i - 1] \in Nat
    BY <1>0, <1>3, <2>1
  <2> QED  BY <2>4, <2>5, <2>6
<1>6. Total(s) = P[Len(s)]
  BY <1>0, <1>1
<1> HIDE DEF P
<1> QED  BY <1>3, <1>4, <1>5, <1>6 DEF SumsUp

(* What the first of a list sum up to says what those of its beginning do. *)
LEMMA PrefixSums ==
    ASSUME NEW s \in Seq(Nat), NEW P, SumsUp(P, s), NEW k \in 0 .. Len(s)
    PROVE  Total(SubSeq(s, 1, k)) = P[k]
<1>0. Len(s) \in Nat /\ k \in Nat /\ k <= Len(s)
  OBVIOUS
<1>1. PICK t : t = SubSeq(s, 1, k)
  OBVIOUS
<1>2. t \in Seq(Nat) /\ Len(t) = k /\ \A i \in 1 .. k : t[i] = s[i]
  BY <1>0, <1>1
<1>3. PICK Q : SumsUp(Q, t) /\ Total(t) = Q[k]
  BY <1>2, TotalSums
<1> DEFINE Bad == {i \in 0 .. k : Q[i] # P[i]}
<1>4. Bad = {}
  <2> SUFFICES ASSUME Bad # {} PROVE FALSE
    OBVIOUS
  <2>1. Bad \subseteq Nat
    BY <1>0
  <2>2. PICK i \in Bad : \A j \in Bad : i <= j
    <3> HIDE DEF Bad
    <3> QED  BY <2>1, LeastNat
  <2>3. i # 0
    BY <1>2, <1>3 DEF SumsUp
  <2>4. i \in 1 .. k /\ i \in 1 .. Len(s) /\ i - 1 \in 0 .. k /\ ~(i <= i - 1)
    BY <1>0, <2>3
  <2>5. Q[i - 1] = P[i - 1]
    BY <2>2, <2>4
  <2>6. Q[i] = Q[i - 1] + t[i] /\ P[i] = P[i - 1] + s[i] /\ t[i] = s[i]
    BY <1>2, <1>3, <2>4 DEF SumsUp
  <2> QED  BY <2>2, <2>5, <2>6
<1>5. Q[k] = P[k]
  BY <1>0, <1>4
<1> QED  BY <1>1, <1>3, <1>5

-------------------------------------------------------------------------------
(* The cuts. *)

LEMMA Divides == \A a \in Nat, b \in Nat \ {0} : a \div b \in Nat
  OBVIOUS

LEMMA PortionsAre ==
    ASSUME NEW weights \in Seq(Nat), weights # <<>>, NEW total \in Nat
    PROVE  /\ Portions(weights, total) \in Seq(Nat)
           /\ Len(Portions(weights, total)) = Len(weights)
<1>0. Len(weights) \in Nat \ {0} /\ DOMAIN weights = 1 .. Len(weights)
      /\ \A i \in DOMAIN weights : weights[i] \in Nat
  OBVIOUS
<1> DEFINE sum == Total(weights)
           portions == Portions(weights, total)
           of(i) == IF sum > 0 THEN (total * weights[i]) \div sum ELSE total \div Len(weights)
<1>1. sum \in Nat
  BY <1>0, TotalSums DEF SumsUp
<1>2. ASSUME NEW i \in DOMAIN weights PROVE AtLeast(of(i), 1) \in Nat
  <2>1. CASE sum > 0
    <3>1. total * weights[i] \in Nat /\ sum \in Nat \ {0}
      BY <1>0, <1>1, <2>1
    <3>2. of(i) \in Nat
      BY <2>1, <3>1, Divides
    <3> QED  BY <3>2 DEF AtLeast
  <2>2. CASE ~(sum > 0)
    <3>1. of(i) \in Nat
      BY <1>0, <2>2, Divides
    <3> QED  BY <3>1 DEF AtLeast
  <2> QED  BY <2>1, <2>2
<1>3. portions = [i \in DOMAIN weights |-> AtLeast(of(i), 1)]
  BY DEF Portions
<1> HIDE DEF of, portions
<1>4. portions \in [1 .. Len(weights) -> Nat]
  BY <1>0, <1>2, <1>3
<1> QED  BY <1>0, <1>4 DEF portions

LEMMA CountsAre ==
    ASSUME NEW weights \in Seq(Nat), weights # <<>>, NEW total \in Nat
    PROVE  Counts(weights, total) \in Seq(Nat) /\ Len(Counts(weights, total)) = Len(weights)
<1> DEFINE portions == Portions(weights, total)
           counts == Counts(weights, total)
           rest == total - Total(portions)
<1>1. Len(weights) \in Nat /\ DOMAIN weights = 1 .. Len(weights)
  OBVIOUS
<1>2. portions \in Seq(Nat) /\ Len(portions) = Len(weights)
  BY PortionsAre
<1>3. counts = [i \in DOMAIN weights |->
                  IF i = Fastest(weights) THEN AtLeast(0, portions[i] + rest) ELSE portions[i]]
  BY DEF Counts
<1> HIDE DEF portions, counts
<1>4. rest \in Int
  <2>1. Total(portions) \in Nat
    BY <1>2, TotalSums DEF SumsUp
  <2> QED  BY <2>1
<1> HIDE DEF rest
<1>5. ASSUME NEW i \in DOMAIN weights PROVE counts[i] \in Nat
  <2>1. portions[i] \in Nat
    BY <1>1, <1>2
  <2>2. AtLeast(0, portions[i] + rest) \in Nat
    BY <1>4, <2>1 DEF AtLeast
  <2> QED  BY <1>3, <2>1, <2>2
<1>6. counts \in [1 .. Len(weights) -> Nat]
  BY <1>1, <1>3, <1>5
<1> QED  BY <1>1, <1>6 DEF counts

(* A cut among so many ranks that is a partition, and that a rank accepts. *)
Bounds == [start : Nat, end : Nat]
WholeCut(shares, ranks, total) ==
    shares \in Seq(Bounds) /\ Partitions(shares, total) /\ Accepts(shares, ranks, total)

LEMMA EvenIsWhole ==
    ASSUME NEW count \in Nat \ {0}, NEW total \in Nat
    PROVE  WholeCut(Even(count, total), count, total)
<1> DEFINE each == total \div count
           shares == Even(count, total)
<1>1. each \in Nat /\ count * each <= total
  OBVIOUS
<1>2. shares = [i \in 1 .. count |->
                  Share((i - 1) * each, IF i = count THEN total ELSE i * each)]
  BY DEF Even
<1> HIDE DEF each, shares
<1>3. Len(shares) = count /\ DOMAIN shares = 1 .. count
  BY <1>2
<1>4. \A i \in 1 .. count :
        /\ shares[i].start = (i - 1) * each
        /\ shares[i].end = IF i = count THEN total ELSE i * each
  BY <1>2 DEF Share
<1>5. shares[1].start = 0
  BY <1>1, <1>4
<1>6. Last(shares).end = total
  BY <1>3, <1>4 DEF Last
<1>7. ASSUME NEW i \in 1 .. count PROVE shares[i].start <= shares[i].end
  <2>1. (i - 1) * each \in Nat /\ i * each = (i - 1) * each + each
    BY <1>1
  <2>2. CASE i = count
    BY <1>1, <1>4, <2>1, <2>2
  <2>3. CASE i # count
    BY <1>1, <1>4, <2>1, <2>3
  <2> QED  BY <2>2, <2>3
<1>8. ASSUME NEW i \in 1 .. (count - 1) PROVE shares[i].end = shares[i + 1].start
  BY <1>4
<1>9. Partitions(shares, total) /\ Accepts(shares, count, total)
  BY <1>3, <1>5, <1>6, <1>7, <1>8 DEF Partitions, Accepts
<1>10. shares \in Seq(Bounds)
  <2>1. ASSUME NEW i \in 1 .. count
        PROVE  Share((i - 1) * each, IF i = count THEN total ELSE i * each) \in Bounds
    <3>1. (i - 1) * each \in Nat /\ i * each \in Nat
      BY <1>1
    <3> QED  BY <3>1 DEF Share, Bounds
  <2>2. shares \in [1 .. count -> Bounds]
    BY <1>2, <2>1
  <2> QED  BY <2>2
<1> QED  BY <1>9, <1>10 DEF WholeCut, shares

LEMMA WeightedIsWhole ==
    ASSUME NEW weights \in Seq(Nat), weights # <<>>, NEW total \in Nat
    PROVE  WholeCut(Weighted(weights, total), Len(weights), total)
<1> DEFINE counts == Counts(weights, total)
           n == Len(weights)
           shares == Weighted(weights, total)
           before(i) == AtMost(Total(SubSeq(counts, 1, i - 1)), total)
<1>1. n \in Nat \ {0} /\ DOMAIN weights = 1 .. n
  OBVIOUS
<1>2. counts \in Seq(Nat) /\ Len(counts) = n
  BY CountsAre
<1>3. shares = [i \in DOMAIN weights |->
                  Share(before(i), IF i = n THEN total ELSE AtMost(before(i) + counts[i], total))]
  BY DEF Weighted
<1> HIDE DEF counts, n, shares
<1>4. PICK P : SumsUp(P, counts)
  BY <1>2, TotalSums
<1>5. ASSUME NEW i \in 1 .. n
      PROVE  /\ before(i) = AtMost(P[i - 1], total)
             /\ P[i - 1] \in Nat /\ counts[i] \in Nat /\ P[i] = P[i - 1] + counts[i]
  <2>1. i - 1 \in 0 .. Len(counts) /\ i \in 1 .. Len(counts)
    BY <1>1, <1>2
  <2>2. Total(SubSeq(counts, 1, i - 1)) = P[i - 1]
    BY <1>2, <1>4, <2>1, PrefixSums
  <2>3. counts[i] \in Nat
    BY <1>2, <2>1
  <2>4. P[i - 1] \in Nat /\ P[i] = P[i - 1] + counts[i]
    BY <1>4, <2>1 DEF SumsUp
  <2> QED  BY <2>2, <2>3, <2>4
<1> HIDE DEF before
<1>6. ASSUME NEW i \in 1 .. n
      PROVE  /\ shares[i].start = AtMost(P[i - 1], total)
             /\ shares[i].end = IF i = n THEN total ELSE AtMost(P[i], total)
             /\ P[i - 1] \in Nat /\ P[i] \in Nat /\ P[i - 1] <= P[i]
  <2>1. /\ shares[i].start = before(i)
        /\ shares[i].end = IF i = n THEN total ELSE AtMost(before(i) + counts[i], total)
    BY <1>1, <1>3 DEF Share
  <2>2. \A a, c \in Nat : AtMost(AtMost(a, total) + c, total) = AtMost(a + c, total)
    BY DEF AtMost
  <2>3. PICK a, c : a = P[i - 1] /\ c = counts[i]
    OBVIOUS
  <2>4. a \in Nat /\ c \in Nat /\ P[i] = a + c /\ before(i) = AtMost(a, total)
    BY <1>5, <2>3
  <2>5. AtMost(before(i) + c, total) = AtMost(a + c, total)
    BY <2>2, <2>4
  <2>6. a + c \in Nat /\ a <= a + c
    BY <2>4
  <2>7. shares[i].end = IF i = n THEN total ELSE AtMost(P[i], total)
    BY <2>1, <2>3, <2>4, <2>5
  <2> QED  BY <2>1, <2>3, <2>4, <2>6, <2>7
<1>7. Len(shares) = n /\ DOMAIN shares = 1 .. n
  BY <1>1, <1>3
<1>8. shares[1].start = 0
  <2>1. 1 \in 1 .. n /\ 1 - 1 = 0 /\ P[0] = 0
    BY <1>1, <1>4 DEF SumsUp
  <2> QED  BY <1>6, <2>1 DEF AtMost
<1>9. Last(shares).end = total
  BY <1>1, <1>6, <1>7 DEF Last
<1>10. ASSUME NEW i \in 1 .. n PROVE shares[i].start <= shares[i].end
  <2>1. PICK a, b : a = P[i - 1] /\ b = P[i]
    OBVIOUS
  <2>2. /\ shares[i].start = AtMost(a, total) /\ a \in Nat /\ b \in Nat /\ a <= b
        /\ shares[i].end = IF i = n THEN total ELSE AtMost(b, total)
    BY <1>6, <2>1
  <2>3. AtMost(a, total) <= total /\ AtMost(a, total) <= AtMost(b, total)
    BY <2>2 DEF AtMost
  <2> QED  BY <2>2, <2>3
<1>11. ASSUME NEW i \in 1 .. (n - 1) PROVE shares[i].end = shares[i + 1].start
  <2>1. i \in 1 .. n /\ i + 1 \in 1 .. n /\ i + 1 - 1 = i /\ i # n
    BY <1>1
  <2> QED  BY <1>6, <2>1
<1>12. Partitions(shares, total) /\ Accepts(shares, n, total)
  BY <1>7, <1>8, <1>9, <1>10, <1>11 DEF Partitions, Accepts
<1>13. shares \in Seq(Bounds)
  <2>1. \A i \in 1 .. n : shares[i].start \in Nat /\ shares[i].end \in Nat
    BY <1>6 DEF AtMost
  <2>2. \A i \in 1 .. n : shares[i] = Share(shares[i].start, shares[i].end)
    BY <1>1, <1>3 DEF Share
  <2>3. \A i \in 1 .. n : shares[i] \in Bounds
    <3> TAKE i \in 1 .. n
    <3>1. PICK a, b : a = shares[i].start /\ b = shares[i].end
      OBVIOUS
    <3>2. a \in Nat /\ b \in Nat /\ shares[i] = Share(a, b)
      BY <2>1, <2>2, <3>1
    <3> QED  BY <3>2 DEF Share, Bounds
  <2>4. shares = [i \in 1 .. n |-> shares[i]]
    BY <1>1, <1>3
  <2>5. shares \in [1 .. n -> Bounds]
    BY <2>3, <2>4
  <2> QED  BY <1>1, <2>5
<1>14. n = Len(weights)
  BY DEF n
<1> QED  BY <1>12, <1>13, <1>14 DEF WholeCut, shares

(* `Shard::even` and `Shard::weighted` (src/crates/mmh3-core/src/shard.rs:168) give each token *)
(* and each head to one rank, in the order of the ranks, for any number of ranks, any weights    *)
(* and any total, however rounding and the least share of one overdraw it; a rank accepts it.    *)
(* The alignment is 1, as every caller has it.                                                  *)
THEOREM CutsAreWhole ==
    ASSUME NEW total \in Nat
    PROVE  /\ \A count \in Nat \ {0} : WholeCut(Even(count, total), count, total)
           /\ \A weights \in Seq(Nat) \ {<<>>} :
                WholeCut(Weighted(weights, total), Len(weights), total)
<1>1. \A count \in Nat \ {0} : WholeCut(Even(count, total), count, total)
  BY EvenIsWhole
<1>2. ASSUME NEW weights \in Seq(Nat) \ {<<>>}
      PROVE  WholeCut(Weighted(weights, total), Len(weights), total)
  BY WeightedIsWhole
<1> QED  BY <1>1, <1>2

-------------------------------------------------------------------------------
(* The answers put together. *)

Has(share, x) == share.start < x /\ x <= share.end

(* Of shares that follow each other, each has a row of its own of what they cover. *)
LEMMA RowIsOnes ==
    ASSUME NEW shares \in Seq(Bounds), shares # <<>>, NEW total \in Nat,
           Partitions(shares, total), NEW x \in 1 .. total
    PROVE  \E i \in DOMAIN shares : /\ Has(shares[i], x)
                                    /\ \A j \in DOMAIN shares : Has(shares[j], x) => j = i
<1> DEFINE n == Len(shares)
           s(i) == shares[i].start
           e(i) == shares[i].end
<1>1. /\ n \in Nat \ {0} /\ DOMAIN shares = 1 .. n
      /\ \A i \in 1 .. n : s(i) \in Nat /\ e(i) \in Nat
  <2>1. n \in Nat \ {0} /\ DOMAIN shares = 1 .. n /\ \A i \in 1 .. n : shares[i] \in Bounds
    OBVIOUS
  <2> QED  BY <2>1 DEF Bounds
<1>2. /\ s(1) = 0 /\ e(n) = total
      /\ \A i \in 1 .. n : s(i) <= e(i)
      /\ \A i \in 1 .. (n - 1) : e(i) = s(i + 1)
  BY <1>1 DEF Partitions, Last
<1>3. \A i \in 1 .. n : Has(shares[i], x) <=> s(i) < x /\ x <= e(i)
  BY DEF Has
<1> HIDE DEF n, s, e
<1>4. PICK i \in 1 .. n : x <= e(i) /\ \A j \in 1 .. n : x <= e(j) => i <= j
  <2> DEFINE T == {j \in 1 .. n : x <= e(j)}
  <2>1. n \in T /\ T \subseteq Nat
    BY <1>1, <1>2
  <2>2. PICK i \in T : \A j \in T : i <= j
    <3> HIDE DEF T
    <3> QED  BY <2>1, LeastNat
  <2> QED  BY <2>2
<1>5. s(i) < x
  <2>1. CASE i = 1
    BY <1>2, <2>1
  <2>2. CASE i # 1
    <3>1. i - 1 \in 1 .. n /\ i - 1 \in 1 .. (n - 1) /\ i - 1 + 1 = i /\ ~(i <= i - 1)
      BY <1>1, <2>2
    <3>2. ~(x <= e(i - 1)) /\ e(i - 1) = s(i)
      BY <1>2, <1>4, <3>1
    <3> QED  BY <1>1, <3>1, <3>2
  <2> QED  BY <2>1, <2>2
<1>6. ASSUME NEW j \in 1 .. n, j > i PROVE e(i) <= s(j)
  <2> DEFINE Bad == {k \in 1 .. n : k > i /\ ~(e(i) <= s(k))}
  <2> SUFFICES ASSUME j \in Bad PROVE FALSE
    BY <1>6
  <2>1. PICK k \in Bad : \A m \in Bad : k <= m
    <3>1. Bad \subseteq Nat /\ Bad # {}
      OBVIOUS
    <3> HIDE DEF Bad
    <3> QED  BY <3>1, LeastNat
  <2>2. /\ k - 1 \in 1 .. n /\ k - 1 \in 1 .. (n - 1) /\ k - 1 + 1 = k /\ ~(k <= k - 1)
        /\ k - 1 >= i
    BY <1>1
  <2>3. e(k - 1) = s(k) /\ s(k - 1) <= e(k - 1)
    BY <1>2, <2>2
  <2>4. CASE k - 1 = i
    BY <1>1, <2>3, <2>4
  <2>5. CASE k - 1 # i
    <3>1. k - 1 > i
      BY <2>2, <2>5
    <3>2. e(i) <= s(k - 1)
      BY <2>1, <2>2, <3>1
    <3>3. PICK p, q, u, w : p = e(i) /\ q = s(k - 1) /\ u = e(k - 1) /\ w = s(k)
      OBVIOUS
    <3>4. /\ p \in Nat /\ q \in Nat /\ u \in Nat /\ w \in Nat
          /\ p <= q /\ u = w /\ q <= u /\ ~(p <= w)
      BY <1>1, <2>1, <2>2, <2>3, <3>2, <3>3
    <3> QED  BY <3>4
  <2> QED  BY <2>4, <2>5
<1>7. ASSUME NEW j \in 1 .. n, s(j) < x, x <= e(j) PROVE j = i
  <2>1. i <= j
    BY <1>4, <1>7
  <2>2. ~(j > i)
    BY <1>1, <1>4, <1>6, <1>7
  <2> QED  BY <2>1, <2>2
<1> QED  BY <1>1, <1>3, <1>4, <1>5, <1>7

Apart(R, S) == /\ \A i \in S : IsFiniteSet(R[i])
               /\ \A i, j \in S : i # j => R[i] \cap R[j] = {}

(* The sizes of sets that share nothing add up to the size of them all. *)
LEMMA SizesAddUp ==
    ASSUME NEW S, IsFiniteSet(S), NEW R, Apart(R, S), NEW c, Takes(c, S), NEW f,
           NEW g, \A i \in S : g[i] = Cardinality(R[i]), Adds(f, S, g, c)
    PROVE  f[S] = Cardinality(UNION {R[i] : i \in S})
<1> DEFINE All(s) == UNION {R[i] : i \in s}
           Good == {s \in SUBSET S : IsFiniteSet(All(s)) /\ f[s] = Cardinality(All(s))}
<1>1. ASSUME NEW s \in SUBSET S, s = {} PROVE s \in Good
  <2>1. f[s] = 0 /\ All(s) = {}
    BY <1>1 DEF Adds
  <2>2. IsFiniteSet({}) /\ Cardinality({}) = 0
    BY FS_EmptySet
  <2> HIDE DEF All
  <2> QED  BY <2>1, <2>2
<1>2. ASSUME NEW s \in SUBSET S, s # {}, s \ {c[s]} \in Good PROVE s \in Good
  <2>1. PICK x : x = c[s]
    OBVIOUS
  <2>2. x \in s /\ x \in S
    BY <1>2, <2>1 DEF Takes
  <2>3. f[s] = g[x] + f[s \ {x}] /\ g[x] = Cardinality(R[x])
    BY <1>2, <2>1, <2>2 DEF Adds
  <2>4. All(s) = R[x] \cup All(s \ {x})
    BY <2>2
  <2>5. R[x] \cap All(s \ {x}) = {}
    BY <2>2 DEF Apart
  <2>6. IsFiniteSet(R[x]) /\ IsFiniteSet(All(s \ {x})) /\ f[s \ {x}] = Cardinality(All(s \ {x}))
    BY <1>2, <2>1, <2>2 DEF Apart
  <2> HIDE DEF All
  <2>7. PICK A, B : A = R[x] /\ B = All(s \ {x})
    OBVIOUS
  <2>8. /\ IsFiniteSet(A \cup B)
        /\ Cardinality(A \cup B) = Cardinality(A) + Cardinality(B) - Cardinality(A \cap B)
    BY <2>6, <2>7, FS_Union
  <2>9. A \cap B = {} /\ Cardinality(A \cap B) = 0
    <3>1. A \cap B = {}
      BY <2>5, <2>7
    <3> QED  BY <3>1, FS_EmptySet, Zenon
  <2>10. Cardinality(A) \in Nat /\ Cardinality(B) \in Nat
    BY <2>6, <2>7, FS_CardinalityType
  <2>11. Cardinality(A \cup B) = Cardinality(A) + Cardinality(B)
    <3>1. \A p, q \in Nat : p + q - 0 = p + q
      OBVIOUS
    <3> QED  BY <2>8, <2>9, <2>10, <3>1, Zenon
  <2> QED  BY <2>3, <2>4, <2>6, <2>7, <2>8, <2>11
<1> HIDE DEF Good
<1>3. SUBSET S \subseteq Good
  <2>1. Grows(Good, S, c)
    BY <1>1, <1>2 DEF Grows
  <2> QED  BY <2>1, OneByOne
<1>4. S \in Good
  BY <1>3
<1> QED  BY <1>4 DEF Good

(* What is mapped and summed over a set is such a sum. *)
LEMMA SetSum ==
    ASSUME NEW S, IsFiniteSet(S), NEW g \in [S -> Nat],
           NEW sum, sum = CHOOSE f : f = [t \in SUBSET S |->
                        IF t = {} THEN 0
                        ELSE g[CHOOSE x \in t : TRUE] + f[t \ {CHOOSE x \in t : TRUE}]]
    PROVE  \E c : Takes(c, S) /\ Adds(sum, S, g, c)
<1> DEFINE c == [t \in SUBSET S |-> CHOOSE x \in t : TRUE]
           IsSum(f) == f = [t \in SUBSET S |->
                              IF t = {} THEN 0
                              ELSE g[CHOOSE x \in t : TRUE] + f[t \ {CHOOSE x \in t : TRUE}]]
<1>0. sum = CHOOSE f : IsSum(f)
  OBVIOUS
<1>1. Takes(c, S)
  BY DEF Takes
<1>2. \A t \in SUBSET S : c[t] = CHOOSE x \in t : TRUE
  OBVIOUS
<1> HIDE DEF c
<1>3. ASSUME NEW f \in [SUBSET S -> Nat], Adds(f, S, g, c) PROVE IsSum(f)
  <2>1. \A t \in SUBSET S : t = {} => f[t] = 0
    BY <1>3 DEF Adds
  <2>2. \A t \in SUBSET S : t # {} => f[t] = g[CHOOSE x \in t : TRUE]
                                              + f[t \ {CHOOSE x \in t : TRUE}]
    BY <1>2, <1>3 DEF Adds
  <2> QED  BY <2>1, <2>2
<1>4. \E f : IsSum(f)
  <2> HIDE DEF IsSum
  <2> QED  BY <1>1, <1>3, Sums
<1>5. IsSum(sum)
  <2> HIDE DEF IsSum
  <2> QED  BY <1>0, <1>4
<1>6. \A t \in SUBSET S : t = {} => sum[t] = 0
  BY <1>5
<1>7. \A t \in SUBSET S : t # {} => sum[t] = g[c[t]] + sum[t \ {c[t]}]
  BY <1>2, <1>5
<1> HIDE DEF IsSum
<1>8. Adds(sum, S, g, c)
  BY <1>6, <1>7 DEF Adds
<1> QED  BY <1>1, <1>8

(* Each row of the segment is in the share of one part and of no other. *)
OneHasEach(parts, segment) ==
    \A x \in Nat : segment.start < x /\ x <= segment.end =>
        \E i \in DOMAIN parts : /\ Has(parts[i].share, x)
                                /\ \A j \in DOMAIN parts : Has(parts[j].share, x) => j = i

LEMMA SizeOfRange ==
    ASSUME NEW p \in Nat, NEW q \in Nat, p <= q
    PROVE  IsFiniteSet(p + 1 .. q) /\ Cardinality(p + 1 .. q) = q - p
<1>1. PICK m : m = p + 1 /\ m \in Int /\ q \in Int
  OBVIOUS
<1>2. IsFiniteSet(m .. q) /\ Cardinality(m .. q) = IF m > q THEN 0 ELSE q - m + 1
  BY <1>1, FS_Interval
<1>3. IF m > q THEN q - p = 0 ELSE q - m + 1 = q - p
  BY <1>1
<1> QED  BY <1>1, <1>2, <1>3

(* What the ranks of the shares answer of a segment whose rows are v. *)
PartsOf(shares, segment, v) ==
    [i \in DOMAIN shares |-> Part(shares[i], segment, LAMBDA r : v[r])]

(* Of such parts, in whatever order they come, the segment is put together. *)
LEMMA PutTogether ==
    ASSUME NEW n \in Nat, NEW shares \in [1 .. n -> Bounds],
           NEW segment \in Bounds, segment.start <= segment.end, NEW v,
           NEW parts, parts = PartsOf(shares, segment, v),
           OneHasEach(parts, segment)
    PROVE  Gather(parts, segment) = [ok |-> TRUE, rows |-> [r \in 1 .. Size(segment) |-> v[r]]]
<1> DEFINE a == segment.start
           b == segment.end
           l(i) == AtLeast(a, shares[i].start)
           h(i) == AtMost(b, shares[i].end)
           own(i) == Within(parts[i].share, segment)
           rows(i) == parts[i].rows
           carries == {i \in DOMAIN parts : own(i).start < own(i).end}
           from(r) == {i \in carries : own(i).start < a + r /\ a + r <= own(i).end}
           covered == MapThenSumSet(LAMBDA i : Size(own(i)), carries)
<1>0. parts = [i \in 1 .. n |-> Part(shares[i], segment, LAMBDA r : v[r])]
  BY DEF PartsOf
<1>1. /\ a \in Nat /\ b \in Nat /\ a <= b /\ Size(segment) = b - a /\ DOMAIN parts = 1 .. n
      /\ \A i \in 1 .. n : parts[i].share = shares[i]
  BY <1>0 DEF Bounds, Size, Part
<1>2. ASSUME NEW i \in 1 .. n
      PROVE  /\ own(i).start = l(i) /\ own(i).end = h(i) /\ Size(own(i)) = h(i) - l(i)
             /\ l(i) \in Nat /\ h(i) \in Nat /\ l(i) >= a /\ h(i) <= b
             /\ \A x \in Nat : a < x /\ x <= b /\ Has(shares[i], x) <=> l(i) < x /\ x <= h(i)
  <2>1. shares[i].start \in Nat /\ shares[i].end \in Nat
    BY DEF Bounds
  <2>2. own(i) = Share(l(i), h(i))
    BY <1>1 DEF Within
  <2>3. own(i).start = l(i) /\ own(i).end = h(i) /\ Size(own(i)) = h(i) - l(i)
    BY <2>2 DEF Share, Size
  <2>4. /\ l(i) \in Nat /\ h(i) \in Nat /\ l(i) >= a /\ h(i) <= b
        /\ \A x \in Nat : a < x /\ x <= b /\ Has(shares[i], x) <=> l(i) < x /\ x <= h(i)
    BY <1>1, <2>1 DEF AtLeast, AtMost, Has
  <2> QED  BY <2>3, <2>4
<1>3. \A i : i \in carries <=> i \in 1 .. n /\ l(i) < h(i)
  BY <1>1, <1>2
<1>4. ASSUME NEW i \in carries
      PROVE  /\ Len(rows(i)) = h(i) - l(i)
             /\ \A r \in 1 .. (h(i) - l(i)) : rows(i)[r] = v[l(i) - a + r]
  <2>1. i \in 1 .. n /\ l(i) < h(i)
    BY <1>3
  <2>2. rows(i) = [r \in 1 .. Size(own(i)) |-> v[own(i).start - a + r]]
    <3>1. parts[i] = Part(shares[i], segment, LAMBDA r : v[r])
      BY <1>0, <2>1
    <3>2. own(i) = Within(shares[i], segment)
      BY <1>1, <2>1
    <3>3. own(i).start = l(i) /\ own(i).end = h(i) /\ l(i) \in Nat /\ h(i) \in Nat
      BY <1>2, <2>1
    <3> HIDE DEF own, l, h
    <3>4. ~(own(i).start >= own(i).end)
      BY <2>1, <3>3
    <3> USE DEF own
    <3> QED  BY <3>1, <3>2, <3>4 DEF Part
  <2>3. rows(i) = [r \in 1 .. (h(i) - l(i)) |-> v[l(i) - a + r]]
    BY <1>2, <2>1, <2>2
  <2>4. h(i) - l(i) \in Nat
    <3>1. l(i) \in Nat /\ h(i) \in Nat
      BY <1>2, <2>1
    <3> HIDE DEF l, h
    <3> QED  BY <2>1, <3>1
  <2> HIDE DEF rows, l, h, a
  <2> QED  BY <2>3, <2>4
<1>5. ASSUME NEW r \in 1 .. (b - a)
      PROVE  from(r) # {} /\ parts[Max(from(r))].rows[r + a - own(Max(from(r))).start] = v[r]
  <2>1. a + r \in Nat /\ a < a + r /\ a + r <= b
    BY <1>1
  <2>2. PICK i \in 1 .. n : /\ Has(shares[i], a + r)
                            /\ \A j \in 1 .. n : Has(shares[j], a + r) => j = i
    <3>1. PICK i \in DOMAIN parts : /\ Has(parts[i].share, a + r)
                                   /\ \A j \in DOMAIN parts : Has(parts[j].share, a + r) => j = i
      BY <2>1 DEF OneHasEach
    <3> QED  BY <1>1, <3>1
  <2>3. /\ \A j \in 1 .. n : l(j) < a + r /\ a + r <= h(j) <=> j = i
        /\ l(i) < h(i) /\ i \in carries
    <3>1. \A j \in 1 .. n : l(j) < a + r /\ a + r <= h(j) <=> Has(shares[j], a + r)
      BY <1>2, <2>1
    <3>2. l(i) \in Nat /\ h(i) \in Nat
      BY <1>2
    <3>3. l(i) < a + r /\ a + r <= h(i)
      BY <2>2, <3>1
    <3>4. l(i) < h(i)
      BY <2>1, <3>2, <3>3
    <3> HIDE DEF l, h, carries
    <3> QED  BY <1>3, <2>2, <3>1, <3>4
  <2>4. from(r) = {i}
    <3>1. \A j \in carries : j \in 1 .. n /\ own(j).start = l(j) /\ own(j).end = h(j)
      BY <1>2, <1>3
    <3> HIDE DEF carries, l, h, own
    <3> QED  BY <2>3, <3>1
  <2>5. Max({i}) = i
    <3>1. {i} \subseteq 1 .. n /\ {i} # {}
      OBVIOUS
    <3>2. Max({i}) \in {i}
      BY <3>1, MaxIs
    <3> QED  BY <3>2
  <2>6. rows(i)[r + a - l(i)] = v[r]
    <3>1. r + a - l(i) \in 1 .. (h(i) - l(i)) /\ l(i) - a + (r + a - l(i)) = r
      <4>1. l(i) \in Nat /\ h(i) \in Nat /\ l(i) < a + r /\ a + r <= h(i) /\ a \in Nat
        BY <1>1, <1>2, <2>3
      <4> HIDE DEF l, h, a
      <4> QED  BY <4>1
    <3> HIDE DEF rows, l, h, a, carries
    <3>2. rows(i)[r + a - l(i)] = v[l(i) - a + (r + a - l(i))]
      BY <1>4, <2>3, <3>1
    <3> QED  BY <3>1, <3>2
  <2>7. own(i).start = l(i)
    BY <1>2
  <2> HIDE DEF from, own, l, h
  <2> QED  BY <2>4, <2>5, <2>6, <2>7
<1>6. covered = b - a
  <2> DEFINE g == [i \in carries |-> Size(own(i))]
             R == [i \in carries |-> l(i) + 1 .. h(i)]
  <2>1. IsFiniteSet(carries)
    <3>1. carries \subseteq 1 .. n
      BY <1>3
    <3>2. \A m \in Nat : IsFiniteSet(1 .. m)
      BY FS_Interval
    <3> HIDE DEF carries
    <3> QED  BY <3>1, <3>2, FS_Subset
  <2>2. ASSUME NEW i \in carries
        PROVE  /\ g[i] = h(i) - l(i) /\ g[i] \in Nat
               /\ IsFiniteSet(R[i]) /\ Cardinality(R[i]) = g[i]
    <3>1. i \in 1 .. n /\ l(i) < h(i) /\ l(i) \in Nat /\ h(i) \in Nat
      BY <1>2, <1>3
    <3>2. g[i] = h(i) - l(i) /\ R[i] = l(i) + 1 .. h(i)
      BY <1>2, <3>1
    <3> HIDE DEF l, h, g, R
    <3>3. l(i) <= h(i) /\ h(i) - l(i) \in Nat
      BY <3>1
    <3>4. PICK p, q : p = l(i) /\ q = h(i)
      OBVIOUS
    <3>5. IsFiniteSet(p + 1 .. q) /\ Cardinality(p + 1 .. q) = q - p
      BY <3>1, <3>3, <3>4, SizeOfRange
    <3> QED  BY <3>2, <3>3, <3>4, <3>5
  <2>3. ASSUME NEW i \in carries, NEW j \in carries, NEW x, x \in R[i], x \in R[j] PROVE i = j
    <3>1. /\ i \in 1 .. n /\ j \in 1 .. n
          /\ x \in l(i) + 1 .. h(i) /\ x \in l(j) + 1 .. h(j)
      BY <1>3, <2>3
    <3>2. /\ l(i) \in Nat /\ l(j) \in Nat /\ h(i) \in Nat /\ h(j) \in Nat
      BY <1>2, <3>1
    <3>3. /\ x \in Nat /\ l(i) < x /\ x <= h(i) /\ l(j) < x /\ x <= h(j)
      <4> HIDE DEF l, h
      <4> QED  BY <3>1, <3>2
    <3>4. a < x /\ x <= b /\ Has(shares[i], x) /\ Has(shares[j], x)
      BY <1>2, <3>1, <3>3
    <3> QED  BY <1>1, <3>1, <3>3, <3>4 DEF OneHasEach
  <2>4. UNION {R[i] : i \in carries} = a + 1 .. b
    <3>1. ASSUME NEW i \in carries, NEW x \in R[i] PROVE x \in a + 1 .. b
      <4>1. i \in 1 .. n /\ x \in l(i) + 1 .. h(i)
        BY <1>3
      <4>2. l(i) \in Nat /\ h(i) \in Nat /\ l(i) >= a /\ h(i) <= b
        BY <1>2, <4>1
      <4> HIDE DEF l, h
      <4> QED  BY <1>1, <4>1, <4>2
    <3>2. ASSUME NEW x \in a + 1 .. b PROVE \E i \in carries : x \in R[i]
      <4>1. x \in Nat /\ a < x /\ x <= b
        BY <1>1
      <4>2. PICK i \in 1 .. n : Has(shares[i], x)
        BY <1>1, <4>1 DEF OneHasEach
      <4>3. l(i) < x /\ x <= h(i) /\ l(i) \in Nat /\ h(i) \in Nat
        BY <1>2, <4>1, <4>2
      <4>4. i \in carries /\ x \in l(i) + 1 .. h(i)
        <5> HIDE DEF l, h, carries
        <5> QED  BY <1>3, <4>1, <4>3
      <4>5. R[i] = l(i) + 1 .. h(i)
        BY <4>4
      <4> HIDE DEF R, carries, l, h
      <4> QED  BY <4>4, <4>5
    <3> HIDE DEF R, carries
    <3> QED  BY <3>1, <3>2
  <2>5. Cardinality(a + 1 .. b) = b - a
    <3> HIDE DEF a, b
    <3> QED  BY <1>1, SizeOfRange
  <2> DEFINE sum == CHOOSE f : f = [t \in SUBSET carries |->
                       IF t = {} THEN 0
                       ELSE g[CHOOSE x \in t : TRUE] + f[t \ {CHOOSE x \in t : TRUE}]]
             raw == CHOOSE f : f = [t \in SUBSET carries |->
                       IF t = {} THEN 0
                       ELSE Size(own(CHOOSE x \in t : TRUE)) + f[t \ {CHOOSE x \in t : TRUE}]]
  <2>6. covered = raw[carries]
    <3> HIDE DEF carries, own
    <3> QED  BY Zenon DEF MapThenSumSet, MapThenFoldSet
  <2>7. raw = sum
    <3> HIDE DEF carries, own
    <3>1. \A t \in SUBSET carries : t # {} =>
             g[CHOOSE x \in t : TRUE] = Size(own(CHOOSE x \in t : TRUE))
      OBVIOUS
    <3> HIDE DEF g
    <3> DEFINE IsSum(f) == f = [t \in SUBSET carries |->
                 IF t = {} THEN 0
                 ELSE g[CHOOSE x \in t : TRUE] + f[t \ {CHOOSE x \in t : TRUE}]]
               IsRaw(f) == f = [t \in SUBSET carries |->
                 IF t = {} THEN 0
                 ELSE Size(own(CHOOSE x \in t : TRUE)) + f[t \ {CHOOSE x \in t : TRUE}]]
    <3>2. ASSUME NEW f PROVE IsRaw(f) <=> IsSum(f)
      <4>1. [t \in SUBSET carries |->
               IF t = {} THEN 0
               ELSE g[CHOOSE x \in t : TRUE] + f[t \ {CHOOSE x \in t : TRUE}]]
            = [t \in SUBSET carries |->
                 IF t = {} THEN 0
                 ELSE Size(own(CHOOSE x \in t : TRUE)) + f[t \ {CHOOSE x \in t : TRUE}]]
        BY <3>1
      <4> QED  BY <4>1, Zenon
    <3> HIDE DEF IsRaw, IsSum
    <3>3. (CHOOSE f : IsRaw(f)) = CHOOSE f : IsSum(f)
      BY <3>2
    <3> QED  BY <3>3 DEF IsRaw, IsSum
  <2>8. g \in [carries -> Nat]
    BY <2>2
  <2>9. Apart(R, carries)
    <3>1. \A i, j \in carries : i # j => R[i] \cap R[j] = {}
      <4> HIDE DEF R, carries
      <4> QED  BY <2>3
    <3> HIDE DEF R, carries
    <3> QED  BY <2>2, <3>1 DEF Apart
  <2>10. PICK total : total = sum
    OBVIOUS
  <2>11. total = CHOOSE f : f = [t \in SUBSET carries |->
                       IF t = {} THEN 0
                       ELSE g[CHOOSE x \in t : TRUE] + f[t \ {CHOOSE x \in t : TRUE}]]
    BY <2>10
  <2>12. \A i \in carries : g[i] = Cardinality(R[i])
    BY <2>2
  <2> HIDE DEF g, R, carries, sum, raw, covered
  <2>13. PICK c : Takes(c, carries) /\ Adds(total, carries, g, c)
    BY <2>1, <2>8, <2>11, SetSum
  <2>14. total[carries] = Cardinality(UNION {R[i] : i \in carries})
    BY <2>1, <2>9, <2>12, <2>13, SizesAddUp
  <2> QED  BY <2>4, <2>5, <2>6, <2>7, <2>10, <2>14
<1>7. \A i \in carries : Len(parts[i].rows) = Size(own(i))
  BY <1>2, <1>3, <1>4
<1>8. [r \in 1 .. Size(segment) |->
         IF from(r) = {} THEN Gap
         ELSE parts[Max(from(r))].rows[r + a - own(Max(from(r))).start]]
      = [r \in 1 .. Size(segment) |-> v[r]]
  <2> HIDE DEF from, own, a, b
  <2> QED  BY <1>1, <1>5
<1>9. Gather(parts, segment) =
        [ok |-> (\A i \in carries : Len(parts[i].rows) = Size(own(i))) /\ covered = Size(segment),
         rows |-> [r \in 1 .. Size(segment) |->
                     IF from(r) = {} THEN Gap
                     ELSE parts[Max(from(r))].rows[r + a - own(Max(from(r))).start]]]
  BY Zenon DEF Gather
<1> HIDE DEF own, carries, from, covered
<1> QED  BY <1>1, <1>6, <1>7, <1>8, <1>9

(* `assemble_velocity` (src/crates/mmh3-core/src/shard.rs:72) puts the rows of a segment        *)
(* together as they are, none missing, none from another rank, and does not fail: whichever     *)
(* share a rank has, in whatever order the answers come, and wherever a segment begins and ends. *)
THEOREM StepsComeBack ==
    ASSUME NEW total \in Nat, NEW ranks \in Nat \ {0}, NEW shares, WholeCut(shares, ranks, total),
           NEW order \in Bijection(1 .. ranks, 1 .. ranks),
           NEW segment \in Bounds, segment.start <= segment.end, segment.end <= total, NEW v
    PROVE  Gather(PartsOf([i \in 1 .. ranks |-> shares[order[i]]], segment, v), segment)
             = [ok |-> TRUE, rows |-> [r \in 1 .. Size(segment) |-> v[r]]]
<1>0. /\ shares \in Seq(Bounds) /\ Len(shares) = ranks /\ shares # <<>>
      /\ Partitions(shares, total)
  BY DEF WholeCut, Accepts
<1> DEFINE n == ranks
           sent == [i \in 1 .. n |-> shares[order[i]]]
           parts == PartsOf(sent, segment, v)
<1>1. n \in Nat /\ DOMAIN shares = 1 .. n /\ \A i \in 1 .. n : shares[i] \in Bounds
  BY <1>0
<1>2. /\ \A i \in 1 .. n : order[i] \in 1 .. n
      /\ \A i, j \in 1 .. n : order[i] = order[j] => i = j
      /\ \A k \in 1 .. n : \E i \in 1 .. n : order[i] = k
  BY <1>1 DEF Bijection, Injection, IsInjective, Surjection
<1>3. sent \in [1 .. n -> Bounds]
  BY <1>1, <1>2
<1>4. DOMAIN parts = 1 .. n /\ \A i \in 1 .. n : parts[i].share = shares[order[i]]
  BY DEF Part, PartsOf
<1>5. OneHasEach(parts, segment)
  <2> SUFFICES ASSUME NEW x \in Nat, segment.start < x, x <= segment.end
               PROVE  \E i \in DOMAIN parts :
                        /\ Has(parts[i].share, x)
                        /\ \A j \in DOMAIN parts : Has(parts[j].share, x) => j = i
    BY DEF OneHasEach
  <2>1. x \in 1 .. total
    BY DEF Bounds
  <2>2. PICK k \in 1 .. n : /\ Has(shares[k], x)
                            /\ \A j \in 1 .. n : Has(shares[j], x) => j = k
    BY <1>0, <1>1, <2>1, RowIsOnes
  <2>3. PICK i \in 1 .. n : order[i] = k
    BY <1>2
  <2> HIDE DEF parts, n
  <2>4. Has(parts[i].share, x)
    BY <1>4, <2>2, <2>3
  <2>5. ASSUME NEW j \in 1 .. n, Has(parts[j].share, x) PROVE j = i
    <3>1. Has(shares[order[j]], x) /\ order[j] \in 1 .. n
      BY <1>2, <1>4, <2>5
    <3>2. order[j] = order[i]
      BY <2>2, <2>3, <3>1
    <3> QED  BY <1>2, <3>2
  <2> QED  BY <1>4, <2>4, <2>5
<1>6. parts = PartsOf([i \in 1 .. ranks |-> shares[order[i]]], segment, v)
  BY <1>1
<1>7. Gather(parts, segment) = [ok |-> TRUE, rows |-> [r \in 1 .. Size(segment) |-> v[r]]]
  <2> HIDE DEF parts, sent, n
  <2>1. PICK m, given, ps : m = n /\ given = sent /\ ps = parts
    OBVIOUS
  <2>2. ps = PartsOf(given, segment, v)
    BY <2>1 DEF parts
  <2>3. m \in Nat /\ given \in [1 .. m -> Bounds] /\ OneHasEach(ps, segment)
    BY <1>1, <1>3, <1>5, <2>1
  <2>4. Gather(ps, segment) = [ok |-> TRUE, rows |-> [r \in 1 .. Size(segment) |-> v[r]]]
    BY <2>2, <2>3, PutTogether
  <2> QED  BY <2>1, <2>4
<1> HIDE DEF parts, n
<1> QED  BY <1>6, <1>7
===============================================================================
