----------------------------- MODULE SharedRows -----------------------------
(***************************************************************************)
(* Where the rows and the heads of a shared-out block lie: the regions of  *)
(* a rank (src/crates/mmh3-core/src/shard.rs), what of them `publish`,     *)
(* `write` and `receive` of src/src/worker.rs move, and the offsets at     *)
(* which `sharded_attention` of either backend reads and writes them.      *)
(* ShardBlock has the order in which a rank's card and its peers come to   *)
(* this; here a call is over before the next one begins.                   *)
(*                                                                         *)
(* A byte says what it is part of.  Ranks count from 1, tokens, heads and  *)
(* offsets from 0.                                                         *)
(***************************************************************************)
EXTENDS Shares

CONSTANTS
    Steps,     \* records [tokens, heads, process, metal, readsHost, vsa]: the shares of each
               \* rank, the process it runs in, the ranks on Metal, those whose card reads host
               \* memory, and whether the step runs VSA
    Hidden,    \* bytes of a row of the block's input
    HeadDim    \* values of a head

SharedRowsAssumption ==
    /\ Hidden \in Nat \ {0} /\ HeadDim \in Nat \ {0}
    /\ \A s \in Steps :
         /\ Len(s.tokens) = Len(s.heads) /\ Len(s.process) = Len(s.tokens)
         /\ \A r \in DOMAIN s.heads : Size(s.heads[r]) > 0
         /\ s.vsa => s.metal = {}
         /\ \A r \in s.metal, p \in DOMAIN s.process : s.process[p] = s.process[r] => p = r

VARIABLES
    shared,   \* the step, or None
    memory,   \* the bytes of every region, on the card and on the host
    at,       \* where in its block each rank is
    carried   \* the rows of every head that each rank carries onward
rowsVars == <<shared, memory, at, carried>>

Ranks == DOMAIN shared.tokens
Others(r) == Ranks \ {r}
Tokens == Last(shared.tokens).end
Heads == Last(shared.heads).end
Rows(r) == shared.tokens[r]
Span(r) == shared.heads[r]
Inner(r) == Size(Span(r)) * HeadDim
Whole == Heads * HeadDim

-----------------------------------------------------------------------------
(* The regions, by the name they have on the wire. *)

Inputs == <<0, 0>>
Gate == <<1, 0>>
Attended == <<2, 0>>
Received(p) == <<5, p>>
Normalized == <<6, 0>>
Scales == <<7, 0>>

Computed == {Inputs, Gate, Attended, Normalized, Scales}

Regions(r) == (Computed \ (IF shared.vsa THEN {} ELSE {Gate})) \cup {Received(p) : p \in Others(r)}

Bytes(r, region) ==
    CASE region = Normalized -> Tokens * Hidden
      [] region = Scales -> Tokens * 4
      [] region = Inputs -> Tokens * 3 * Inner(r) * 2
      [] region \in {Attended, Gate} -> Tokens * Inner(r) * 2
      [] OTHER -> Size(Rows(r)) * Inner(region[2]) * 2

Local(r, p) == r # p /\ shared.process[r] = shared.process[p]

\* Whether a rank has memory of its own beside what its peers write into.
Holds(r, region) ==
    \/ r \in shared.metal
    \/ region \in Computed
    \/ Local(r, region[2])
    \/ r \notin shared.readsHost

Host(r, region) == <<"host", r, region>>
Block(r, region) == IF Holds(r, region) THEN <<"device", r, region>> ELSE Host(r, region)

Byte(what, token, place, number) == <<what, token, place, number>>
Zero == Byte("zero", 0, 0, 0)
Mixed == Byte("mixed", 0, 0, 0)

\* Variant with a fault: a region divides into the rows its own rank carries.
OwnerByOwnRows(r, region, offset) ==
    IF region[1] = 5 THEN {region[2]}
    ELSE {p \in Ranks : LET row == Bytes(r, region) \div AtLeast(Size(Rows(r)), 1)
                            token == offset \div AtLeast(row, 1)
                        IN Rows(p).start <= token /\ token < Rows(p).end}

\* Whose rows lie there: one rank, or none.
Owner(r, region, offset) ==
    IF region[1] = 5 THEN {region[2]}
    ELSE {p \in Ranks : LET row == Bytes(r, region) \div AtLeast(Tokens, 1)
                            token == offset \div AtLeast(row, 1)
                        IN Rows(p).start <= token /\ token < Rows(p).end}

ReadHereAlone(r, region, offset) ==
    \E p \in Owner(r, region, offset) :
        IF p = r THEN \A q \in Others(r) : Local(r, q) ELSE Local(r, p)

WrittenHere(r, region, offset) == \E p \in Owner(r, region, offset) : Local(r, p)

-----------------------------------------------------------------------------
(* What moves bytes: a range of one region to a range of another. *)

Reach(offset, bytes) == offset .. offset + bytes - 1

Move(from, offset, into, peerOffset, bytes) ==
    [from |-> from, offset |-> offset, into |-> into, at |-> peerOffset, bytes |-> bytes]

\* What every call looks at first.
Fits(move) ==
    /\ move.offset + move.bytes <= Cardinality(DOMAIN memory[move.from])
    /\ move.at + move.bytes <= Cardinality(DOMAIN memory[move.into])

Over(moves, key, i) == {move \in moves : move.into = key /\ i \in Reach(move.at, move.bytes)}

\* No two moves of a call are to the same byte.
Moved(bytes, moves) ==
    [key \in DOMAIN bytes |->
        IF \A move \in moves : move.into # key THEN bytes[key]
        ELSE [i \in DOMAIN bytes[key] |->
                IF Over(moves, key, i) = {} THEN bytes[key][i]
                ELSE LET move == CHOOSE move \in Over(moves, key, i) : TRUE
                     IN bytes[move.from][i - move.at + move.offset]]]

Publish(r, region, offset, bytes) ==
    IF ~Holds(r, region) \/ (r \notin shared.metal /\ ReadHereAlone(r, region, offset))
    THEN {}
    ELSE {Move(Block(r, region), offset, Host(r, region), offset, bytes)}

Receive(r, region, offset, bytes) ==
    IF ~Holds(r, region) \/ (r \notin shared.metal /\ WrittenHere(r, region, offset))
    THEN {}
    ELSE {Move(Host(r, region), offset, Block(r, region), offset, bytes)}

Write(r, p, from, offset, into, peerOffset, bytes) ==
    IF r \notin shared.metal /\ Local(r, p)
    THEN {Move(Block(r, from), offset, Block(p, into), peerOffset, bytes)}
    ELSE {Move(Host(r, from), offset, Host(p, into), peerOffset, bytes)}

-----------------------------------------------------------------------------
(* A block, from its input's rows to the rows of every head. *)

CudaOrder ==
    <<"publish", "own", "send", "barrier", "fetch", "barrier", "peers", "attend", "return",
      "barrier", "collect", "barrier", "scatter", "end">>
MetalOrder ==
    <<"publish", "send", "barrier", "fetch", "barrier", "all", "attend", "return", "barrier",
      "collect", "scatter", "barrier", "end">>
Order(r) == IF r \in shared.metal THEN MetalOrder ELSE CudaOrder

Failed == 0
At(r, op) == at[r] # Failed /\ Order(r)[at[r]] = op
GoOn(r) == at' = [at EXCEPT ![r] = @ + 1]

\* A call that moves bytes, or is refused a range that goes past a region.
Go(r, bytes, moves) ==
    IF \A move \in moves : Fits(move)
    THEN memory' = Moved(bytes, moves) /\ GoOn(r)
    ELSE at' = [at EXCEPT ![r] = Failed] /\ UNCHANGED memory

Init ==
    /\ shared \in Steps
    /\ memory = [key \in UNION {UNION {{Block(r, region), Host(r, region)} :
                                        region \in Regions(r)} : r \in Ranks}
                    |-> [i \in 0 .. Bytes(key[2], key[3]) - 1 |-> Zero]]
    /\ at = [r \in Ranks |-> 1]
    /\ carried = [r \in Ranks |-> <<>>]

\* The rows of a region, `width` bytes each, that a rank carries are where everyone's are.
Filled(bytes, r, width, value(_, _)) ==
    [i \in DOMAIN bytes |->
        IF i \in Reach(Rows(r).start * width, Size(Rows(r)) * width)
        THEN value(i \div width, i % width) ELSE bytes[i]]

Row(token, column) == Byte("row", token, column, 0)
Scale(token, number) == Byte("scale", token, 0, number)

PublishInputs(r) ==
    /\ At(r, "publish")
    /\ Go(r, [memory EXCEPT ![Block(r, Normalized)] = Filled(@, r, Hidden, Row),
                            ![Block(r, Scales)] = Filled(@, r, 4, Scale)],
          Publish(r, Normalized, Rows(r).start * Hidden, Size(Rows(r)) * Hidden)
              \cup Publish(r, Scales, Rows(r).start * 4, Size(Rows(r)) * 4))
    /\ UNCHANGED <<shared, carried>>

SendRows(r, p, region, width) ==
    Write(r, p, region, Rows(r).start * width, region, Rows(r).start * width,
          Size(Rows(r)) * width)

SendInputs(r) ==
    /\ At(r, "send")
    /\ Go(r, memory, UNION {SendRows(r, p, Normalized, Hidden) \cup SendRows(r, p, Scales, 4) :
                              p \in Others(r)})
    /\ UNCHANGED <<shared, carried>>

\* Everyone gets there; what a rank wrote before is where it was to go.
Barrier ==
    /\ \A r \in Ranks : At(r, "barrier")
    /\ at' = [r \in Ranks |-> at[r] + 1]
    /\ UNCHANGED <<shared, memory, carried>>

FetchRows(r, p, region, width) ==
    Receive(r, region, Rows(p).start * width, Size(Rows(p)) * width)

FetchInputs(r) ==
    /\ At(r, "fetch")
    /\ Go(r, memory, UNION {FetchRows(r, p, Normalized, Hidden) \cup FetchRows(r, p, Scales, 4) :
                              p \in Others(r)})
    /\ UNCHANGED <<shared, carried>>

-----------------------------------------------------------------------------
(* The projections and the attention of a rank's heads. *)

\* Whether what is read as a token's row is its row, with its scale.
RowThere(r, token) ==
    /\ \A c \in 0 .. Hidden - 1 : memory[Block(r, Normalized)][token * Hidden + c] = Row(token, c)
    /\ \A b \in 0 .. 3 : memory[Block(r, Scales)][token * 4 + b] = Scale(token, b)

\* A value of a token's product with the weight's columns from `first`.
Product(r, name, token, column, byte) ==
    IF RowThere(r, token) THEN Byte(name, token, column, byte) ELSE Mixed

\* q, k and v of a token lie side by side, each of them this rank's heads.
QkvByte(r, i) ==
    LET value == i \div 2
        token == value \div (3 * Inner(r))
        tensor == (value \div Inner(r)) % 3
    IN Product(r, "qkv", token,
               tensor * Whole + Span(r).start * HeadDim + (value % Inner(r)), i % 2)

GateByte(r, i) ==
    Product(r, "gate", (i \div 2) \div Inner(r),
            Span(r).start * HeadDim + ((i \div 2) % Inner(r)), i % 2)

Projected(r, tokens) ==
    [key \in DOMAIN memory |->
        IF key = Block(r, Inputs)
        THEN [i \in DOMAIN memory[key] |-> IF i \div (6 * Inner(r)) \in tokens THEN QkvByte(r, i)
                                           ELSE memory[key][i]]
        ELSE IF key = Block(r, Gate)
        THEN [i \in DOMAIN memory[key] |-> IF i \div (2 * Inner(r)) \in tokens THEN GateByte(r, i)
                                           ELSE memory[key][i]]
        ELSE memory[key]]

TokensOf(p) == Rows(p).start .. Rows(p).end - 1

ProjectInputs(r) ==
    /\ \/ At(r, "own") /\ memory' = Projected(r, TokensOf(r))
       \/ At(r, "peers") /\ memory' = Projected(r, UNION {TokensOf(p) : p \in Others(r)})
       \/ At(r, "all") /\ memory' = Projected(r, 0 .. Tokens - 1)
    /\ GoOn(r)
    /\ UNCHANGED <<shared, carried>>

\* The value at a place of a region, when both of its bytes are of one.
ValueAt(r, region, place) ==
    LET low == memory[Block(r, region)][2 * place]
        high == memory[Block(r, region)][2 * place + 1]
    IN IF low[4] = 0 /\ high = [low EXCEPT ![4] = 1] THEN low ELSE Mixed

\* q (0), k (1) or v (2) of a token for one of this rank's heads.
InputAt(r, token, tensor, head, lane) ==
    ValueAt(r, Inputs, token * 3 * Inner(r) + tensor * Inner(r) + head * HeadDim + lane)

GateThere(r, token, head, lane, column) ==
    shared.vsa => ValueAt(r, Gate, token * Inner(r) + head * HeadDim + lane)
                      = Byte("gate", token, column, 0)

\* What a query takes of every key and value, which are of its own head.
Attention(r, token, head, lane, byte) ==
    LET column == InputAt(r, token, 0, head, lane)[3]
        first == column - lane
    IN IF /\ \A l \in 0 .. HeadDim - 1 :
               /\ InputAt(r, token, 0, head, l) = Byte("qkv", token, first + l, 0)
               /\ GateThere(r, token, head, l, first + l)
          /\ \A t \in 0 .. Tokens - 1, l \in 0 .. HeadDim - 1, tensor \in 1 .. 2 :
               InputAt(r, t, tensor, head, l) = Byte("qkv", t, tensor * Whole + first + l, 0)
       THEN Byte("attended", token, column, byte) ELSE Mixed

AttendedByte(r, i) ==
    LET value == i \div 2
        within == value % Inner(r)
    IN Attention(r, value \div Inner(r), within \div HeadDim, within % HeadDim, i % 2)

Attend(r) ==
    /\ At(r, "attend")
    /\ memory' = [memory EXCEPT ![Block(r, Attended)] =
                    [i \in DOMAIN @ |-> AttendedByte(r, i)]]
    /\ GoOn(r)
    /\ UNCHANGED <<shared, carried>>

-----------------------------------------------------------------------------
(* The way back. *)

\* A peer takes its own rows of what this rank's heads attended.
ReturnRows(r, p, offset, bytes) ==
    <<Publish(r, Attended, offset, bytes),
      Write(r, p, Attended, offset, Received(r), 0, bytes)>>

Returned(r, half) ==
    UNION {ReturnRows(r, p, Rows(p).start * Inner(r) * 2, Size(Rows(p)) * Inner(r) * 2)[half] :
             p \in Others(r)}

ExchangeOutputs(r) ==
    /\ At(r, "return")
    /\ IF \A move \in Returned(r, 1) : Fits(move)
       THEN Go(r, Moved(memory, Returned(r, 1)), Returned(r, 2))
       ELSE at' = [at EXCEPT ![r] = Failed] /\ UNCHANGED memory
    /\ UNCHANGED <<shared, carried>>

Collect(r) ==
    /\ At(r, "collect")
    /\ Go(r, memory, UNION {Receive(r, Received(p), 0, Size(Rows(r)) * Inner(p) * 2) :
                              p \in Others(r)})
    /\ UNCHANGED <<shared, carried>>

\* Where a rank's rows of another's heads, or of its own, are.
PlaceOf(r, p) == IF p = r THEN <<Attended, Rows(r).start * Inner(r)>> ELSE <<Received(p), 0>>

\* `unpack`: each share's heads go beside the others' in this rank's rows.
Unpacked(r, p, part, output) ==
    [i \in DOMAIN output |->
        LET token == i \div Whole
            head == (i % Whole) \div HeadDim
        IN IF Span(p).start <= head /\ head < Span(p).end
           THEN ValueAt(r, part[1], part[2] + (i % HeadDim)
                              + (token * Size(Span(p)) + head - Span(p).start) * HeadDim)
           ELSE output[i]]

Scatter(r) ==
    /\ At(r, "scatter")
    /\ carried' = [carried EXCEPT ![r] =
          FoldLeft(LAMBDA output, p : Unpacked(r, p, PlaceOf(r, p), output),
                   [i \in 0 .. Size(Rows(r)) * Whole - 1 |-> Zero],
                   [p \in Ranks |-> p])]
    /\ GoOn(r)
    /\ UNCHANGED <<shared, memory>>

Next ==
    \/ Barrier
    \/ \E r \in Ranks :
         \/ PublishInputs(r) \/ SendInputs(r) \/ FetchInputs(r) \/ ProjectInputs(r) \/ Attend(r)
         \/ ExchangeOutputs(r) \/ Collect(r) \/ Scatter(r)

Spec == Init /\ [][Next]_rowsVars

\* Whatever the shares, no rank asks for bytes a region does not have, and the rows each carries
\* onward are its tokens', of every head, as one machine would have attended them.
RowsAgree ==
    \A r \in Ranks :
        /\ at[r] # Failed
        /\ At(r, "end") =>
             carried[r] = [i \in 0 .. Size(Rows(r)) * Whole - 1 |->
                             Byte("attended", Rows(r).start + i \div Whole, i % Whole, 0)]
=============================================================================
