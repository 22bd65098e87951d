------------------------------- MODULE Prompt -------------------------------
(***************************************************************************)
(* The encoding of a prompt on CUDA and on Metal: the vision tower embeds  *)
(* the pictures and the pairs of the clips' frames, and the text encoder   *)
(* reads the prompt with their embeddings in place of its pad tokens       *)
(* (src/crates/mmh3-cuda/src/vision.rs, text_encoder.rs, and the same of   *)
(* src/crates/mmh3-metal/src).                                             *)
(*                                                                         *)
(* A device short of memory lets go of the embedding table, then of        *)
(* layers, and encodes the prompt again.  Which layer's weights a kernel   *)
(* reads while they are read on the way is Streaming's and                 *)
(* MetalStreaming's; here a layer is there when it is used.                *)
(***************************************************************************)
EXTENDS PromptLayout

CONSTANTS
    Backends,
    Prompts,          \* [pictures, clips, sounds]: what prompts come with
    VisionLayers,     \* blocks of the vision tower
    DeepstackBlocks,  \* those whose outputs the text encoder's first layers add, in order
    TextLayers,
    Captures,         \* sets of layers whose hidden states a caller asks for
    MaxRooms,         \* bounds how often the layers make room
    None

VARIABLES
    encoder,       \* [backend, table]: whether the embedding table is on the device
    encoding,      \* the encoding under way
    conditioning   \* what the last one answered with, or None

vars == <<encoder, encoding, conditioning>>

Attention(x) == <<"attention", x>>

Gelu(x) == <<"gelu", x>>

(***************************************************************************)
(* What both are to compute.  A block of the tower sees one picture or one *)
(* pair; a token of the text encoder sees those before it.                 *)
(***************************************************************************)
Embedded(first, second, l) == <<"embedded", first, second, l>>

Patches(first, second) == Add(Linear("patch_embed", <<"patches", first, second>>), "table", "one")

TowerLayer(l, x) ==
    LET mixed == Attention(Linear(<<l, "attn.qkv">>, Norm(<<l, "norm1">>, x)))
        y == Add(x, Linear(<<l, "attn.proj">>, mixed), "one")
        inner == Gelu(Linear(<<l, "mlp.linear_fc1">>, Norm(<<l, "norm2">>, y)))
    IN Add(y, Linear(<<l, "mlp.linear_fc2">>, inner), "one")

Merge(merger, joined) ==
    Linear(<<merger, "fc2">>, Gelu(Linear(<<merger, "fc1">>, joined)))

Quad(row, column) ==
    <<<<2 * row, 2 * column>>, <<2 * row, 2 * column + 1>>,
      <<2 * row + 1, 2 * column>>, <<2 * row + 1, 2 * column + 1>>>>

\* A block's embedding at a place, and what it adds after layer d.
Merged(place) ==
    Merge("merger", <<Norm("merger", Embedded(place[1], place[2], VisionLayers)),
                      Quad(place[3], place[4])>>)

Deep(d, place) ==
    Merge(<<"deepstack", d>>,
          Norm(<<"deepstack", d>>, <<Embedded(place[1], place[2], DeepstackBlocks[d]),
                                     Quad(place[3], place[4])>>))

After(l, t) == <<"after", l, t>>

\* A token after layer l and what is added there, and before it.
Stacked(wanted, l, t) ==
    IF wanted[t].embedded /\ l <= Len(DeepstackBlocks)
    THEN Add(After(l, t), Deep(l, wanted[t].what), "one")
    ELSE After(l, t)

Into(wanted, l, t) ==
    IF l > 1 THEN Stacked(wanted, l - 1, t)
    ELSE IF wanted[t].embedded THEN Merged(wanted[t].what)
    ELSE <<"embedding", wanted[t].what>>

TextLayer(wanted, l, t) ==
    LET qkv == [i \in 1..t |-> <<Linear(<<l, "qkv">>, Norm(<<l, "input">>, Into(wanted, l, i))),
                                 wanted[i].position>>]
        x == Add(Into(wanted, l, t), Linear(<<l, "o_proj">>, Attention(qkv)), "one")
        expanded == Linear(<<l, "gate_up">>, Norm(<<l, "post">>, x))
    IN Add(x, Linear(<<l, "down">>, SwiGlu(expanded)), "one")

\* The states after the last layer and, before anything is added to them, after the ones asked for;
\* and the branch of the DiT each takes.
Agrees(answer) ==
    LET wanted == Wanted(answer.settings)
        tokens == 1..Len(wanted)
        asked == SetToSortSeq(answer.capture, <)
    IN /\ answer.context = [t \in tokens |-> Stacked(wanted, TextLayers, t)]
       /\ answer.modalities = [t \in tokens |-> wanted[t].modality]
       /\ answer.layers = [i \in 1..Len(asked) |-> [t \in tokens |-> After(asked[i], t)]]

(***************************************************************************)
(* Both backends.  An encoder that does not fit is loaded without the      *)
(* embedding table.                                                        *)
(***************************************************************************)
VisionWork == [states |-> Stale, normalized |-> Stale, qkv |-> Stale, attention |-> Stale,
               expanded |-> Stale, deepstack |-> <<>>]

TextWork == [residual |-> Stale, normalized |-> Stale, qkv |-> Stale, attention |-> Stale,
             delta |-> Stale, expanded |-> Stale, activated |-> Stale]

Init ==
    /\ \E backend \in Backends, table \in BOOLEAN : encoder = [backend |-> backend, table |-> table]
    /\ encoding = None
    /\ conditioning = None

Begin ==
    /\ encoding = None /\ conditioning = None
    /\ \E settings \in Prompts, capture \in Captures :
        encoding' = [settings |-> settings, capture |-> capture,
                     blocks |-> VisionBlocks(settings), prompt |-> VisionPrompt(settings),
                     pictures |-> <<>>, layer |-> 1, vision |-> VisionWork, text |-> TextWork,
                     layers |-> <<>>, rooms |-> MaxRooms,
                     phase |-> IF VisionBlocks(settings) = <<>> THEN "embed" ELSE "patch"]
    /\ UNCHANGED <<encoder, conditioning>>

\* A device out of memory, or a checkpoint that cannot be read.
Fail ==
    /\ encoding # None
    /\ encoding' = None
    /\ UNCHANGED <<encoder, conditioning>>

InPhase(backend, phase) ==
    encoding # None /\ encoder.backend = backend /\ encoding.phase = phase

Block == encoding.blocks[Len(encoding.pictures) + 1]

\* A sum that is the reference's after this block of the tower takes its name.
TowerSettled(x) ==
    LET l == encoding.layer
        before == IF l = 1 THEN Patches(Block.first, Block.second)
                  ELSE Embedded(Block.first, Block.second, l - 1)
    IN IF x = TowerLayer(l, before) THEN Embedded(Block.first, Block.second, l) ELSE x

\* The embeddings of a block for the text encoder; the tower goes after the last.
WithPicture(merged, deepstack) ==
    [encoding EXCEPT !.pictures = Append(@, [tokens |-> Block.grid.rows * Block.grid.columns,
                                             merged |-> merged, deepstack |-> deepstack]),
                     !.vision = VisionWork, !.layer = 1,
                     !.phase = IF Len(encoding.pictures) + 1 = Len(encoding.blocks)
                               THEN "embed" ELSE "patch"]

Joined(x) ==
    [n \in 1..(Block.grid.rows * Block.grid.columns) |->
        <<x, SubSeq(PatchOrder(Block.grid), 4 * n - 3, 4 * n)>>]

OnEach(Op(_), rows) == [n \in 1..Len(rows) |-> Op(rows[n])]

\* The DeepStack merger, if any, that reads the outputs of this block of the tower.
MergersHere == {d \in 1..Len(DeepstackBlocks) : DeepstackBlocks[d] = encoding.layer}

AfterBlock == IF encoding.layer = VisionLayers THEN "merge" ELSE "attend"

(***************************************************************************)
(* The tower on CUDA.                                                      *)
(***************************************************************************)
CudaPatch ==
    /\ InPhase("cuda", "patch")
    /\ encoding' = [encoding EXCEPT !.vision.states = Patches(Block.first, Block.second),
                                    !.phase = "attend"]
    /\ UNCHANGED <<encoder, conditioning>>

CudaTowerAttention ==
    /\ InPhase("cuda", "attend")
    /\ LET l == encoding.layer
           normalized == Norm(<<l, "norm1">>, encoding.vision.states)
           qkv == Linear(<<l, "attn.qkv">>, normalized)
           mixed == Attention(qkv)
       IN encoding' = [encoding EXCEPT
            !.vision.normalized = normalized, !.vision.qkv = qkv, !.vision.attention = mixed,
            !.vision.states = Add(@, Linear(<<l, "attn.proj">>, mixed), "one"),
            !.phase = "expand"]
    /\ UNCHANGED <<encoder, conditioning>>

CudaTowerMlp ==
    /\ InPhase("cuda", "expand")
    /\ LET l == encoding.layer
           normalized == Norm(<<l, "norm2">>, encoding.vision.states)
           expanded == Gelu(Linear(<<l, "mlp.linear_fc1">>, normalized))
           sum == Add(encoding.vision.states, Linear(<<l, "mlp.linear_fc2">>, expanded), "one")
       IN encoding' = [encoding EXCEPT
            !.vision.normalized = normalized, !.vision.expanded = expanded,
            !.vision.states = TowerSettled(sum),
            !.phase = "deepstack"]
    /\ UNCHANGED <<encoder, conditioning>>

\* A DeepStack merger norms the joined patches, in the rows that the block's norms wrote.
CudaDeepstack ==
    /\ InPhase("cuda", "deepstack")
    /\ LET normalized(d) == OnEach(LAMBDA x : Norm(<<"deepstack", d>>, x),
                                   Joined(encoding.vision.states))
           merged(d) == OnEach(LAMBDA x : Merge(<<"deepstack", d>>, x), normalized(d))
       IN encoding' = [encoding EXCEPT
            !.vision.normalized = IF MergersHere = {} THEN @ ELSE normalized(Min(MergersHere)),
            !.vision.deepstack = IF MergersHere = {} THEN @
                                 ELSE Append(@, merged(Min(MergersHere))),
            !.layer = @ + 1, !.phase = AfterBlock]
    /\ UNCHANGED <<encoder, conditioning>>

\* The main merger norms each patch.
CudaMerge ==
    /\ InPhase("cuda", "merge")
    /\ LET normalized == Norm("merger", encoding.vision.states)
       IN encoding' = WithPicture(OnEach(LAMBDA x : Merge("merger", x), Joined(normalized)),
                                  encoding.vision.deepstack)
    /\ UNCHANGED <<encoder, conditioning>>

(***************************************************************************)
(* The tower on Metal.                                                     *)
(***************************************************************************)
MetalPatch ==
    /\ InPhase("metal", "patch")
    /\ encoding' = [encoding EXCEPT !.vision.states = Patches(Block.first, Block.second),
                                    !.phase = "attend"]
    /\ UNCHANGED <<encoder, conditioning>>

MetalTowerBlock ==
    /\ InPhase("metal", "attend")
    /\ LET states == TowerSettled(TowerLayer(encoding.layer, encoding.vision.states))
           merged(d) == OnEach(LAMBDA x : Merge(<<"deepstack", d>>, Norm(<<"deepstack", d>>, x)),
                               Joined(states))
       IN encoding' = [encoding EXCEPT
            !.vision.states = states,
            !.vision.deepstack = IF MergersHere = {} THEN @
                                 ELSE Append(@, merged(Min(MergersHere))),
            !.layer = @ + 1, !.phase = AfterBlock]
    /\ UNCHANGED <<encoder, conditioning>>

MetalMerge ==
    /\ InPhase("metal", "merge")
    /\ LET normalized == Norm("merger", encoding.vision.states)
       IN encoding' = WithPicture(OnEach(LAMBDA x : Merge("merger", x), Joined(normalized)),
                                  encoding.vision.deepstack)
    /\ UNCHANGED <<encoder, conditioning>>

(***************************************************************************)
(* The prompt.  Both refuse one whose pictures are not as many as its      *)
(* embeddings.                                                             *)
(***************************************************************************)
Ids == encoding.prompt.ids

Starts == encoding.prompt.picture_starts

\* The row of a token: its id's in the table, or, without the table, the one at its place among
\* those read from the checkpoint.
Lookup ==
    LET row(id) == <<"embedding", id>>
        table == [t \in 1..Len(Ids) |-> row(Ids[t])]
        order == [t \in 1..Len(Ids) |-> t]
    IN [t \in 1..Len(Ids) |-> IF encoder.table THEN row(Ids[t]) ELSE table[order[t]]]

\* Rows that are the reference's after this layer take its names.
TextSettled(rows) ==
    LET wanted == Wanted(encoding.settings)
        l == encoding.layer
    IN [t \in 1..Len(rows) |-> IF rows[t] = TextLayer(wanted, l, t) THEN After(l, t) ELSE rows[t]]

\* What a token attends to: itself and those before it.
Causal(qkv) == [t \in 1..Len(qkv) |-> Attention(SubSeq(qkv, 1, t))]

Rotated(rows) == [t \in 1..Len(rows) |-> <<rows[t], encoding.prompt.positions[t]>>]

AddRows(rows, deltas) == [t \in 1..Len(rows) |-> Add(rows[t], deltas[t], "one")]

Kept(rows) ==
    IF encoding.layer \in encoding.capture THEN Append(encoding.layers, rows) ELSE encoding.layers

AfterLayer == IF encoding.layer = TextLayers THEN "answer" ELSE "project"

Answer ==
    [settings |-> encoding.settings, capture |-> encoding.capture,
     context |-> encoding.text.residual, modalities |-> encoding.prompt.modalities,
     layers |-> encoding.layers]

(***************************************************************************)
(* The text encoder on CUDA.                                               *)
(***************************************************************************)
\* The rows of `picture`, which start at `start`, replaced.
Replaced(rows, start, picture) ==
    [t \in 1..Len(rows) |->
        IF t \in start..(start + picture.tokens - 1) THEN picture.merged[t - start + 1]
        ELSE rows[t]]

CudaEmbed ==
    /\ InPhase("cuda", "embed") /\ Len(encoding.pictures) = Len(Starts)
    /\ LET placed == FoldLeftDomain(LAMBDA rows, i :
                                        Replaced(rows, Starts[i], encoding.pictures[i]),
                                    Lookup, Starts)
       IN encoding' = [encoding EXCEPT !.text = [TextWork EXCEPT !.residual = placed],
                                       !.layers = <<>>, !.layer = 1, !.phase = "project"]
    /\ UNCHANGED <<encoder, conditioning>>

CudaProject ==
    /\ InPhase("cuda", "project")
    /\ LET l == encoding.layer
           normalized == OnEach(LAMBDA x : Norm(<<l, "input">>, x), encoding.text.residual)
           qkv == OnEach(LAMBDA x : Linear(<<l, "qkv">>, x), normalized)
       IN encoding' = [encoding EXCEPT !.text.normalized = normalized, !.text.qkv = Rotated(qkv),
                                       !.phase = "attention"]
    /\ UNCHANGED <<encoder, conditioning>>

CudaAttend ==
    /\ InPhase("cuda", "attention")
    /\ LET l == encoding.layer
           attention == Causal(encoding.text.qkv)
           delta == OnEach(LAMBDA x : Linear(<<l, "o_proj">>, x), attention)
       IN encoding' = [encoding EXCEPT
            !.text.attention = attention, !.text.delta = delta,
            !.text.residual = AddRows(@, delta), !.phase = "expansion"]
    /\ UNCHANGED <<encoder, conditioning>>

CudaExpand ==
    /\ InPhase("cuda", "expansion")
    /\ LET l == encoding.layer
           normalized == OnEach(LAMBDA x : Norm(<<l, "post">>, x), encoding.text.residual)
           expanded == OnEach(LAMBDA x : Linear(<<l, "gate_up">>, x), normalized)
       IN encoding' = [encoding EXCEPT
            !.text.normalized = normalized, !.text.expanded = expanded,
            !.text.activated = OnEach(SwiGlu, expanded), !.phase = "contraction"]
    /\ UNCHANGED <<encoder, conditioning>>

\* What is asked for of a layer is kept before the pictures' features are added to their rows.
DeepstackAdded(rows) ==
    FoldLeftDomain(
        LAMBDA r, i : [t \in 1..Len(r) |->
            LET picture == encoding.pictures[i]
            IN IF /\ encoding.layer <= Len(picture.deepstack)
                  /\ t \in Starts[i]..(Starts[i] + picture.tokens - 1)
               THEN Add(r[t], picture.deepstack[encoding.layer][t - Starts[i] + 1], "one")
               ELSE r[t]],
        rows, Starts)

\* Variant with a fault: what is asked for of a layer is kept with the features added.
LeaveThenKeep(rows, delta) ==
    [encoding EXCEPT !.text.delta = delta, !.text.residual = DeepstackAdded(rows),
                     !.layers = Kept(DeepstackAdded(rows)), !.layer = @ + 1, !.phase = AfterLayer]

LeaveCudaLayer(rows, delta) ==
    [encoding EXCEPT !.text.delta = delta, !.text.residual = DeepstackAdded(rows),
                     !.layers = Kept(rows), !.layer = @ + 1, !.phase = AfterLayer]

CudaContract ==
    /\ InPhase("cuda", "contraction")
    /\ LET l == encoding.layer
           delta == OnEach(LAMBDA x : Linear(<<l, "down">>, x), encoding.text.activated)
       IN encoding' = LeaveCudaLayer(TextSettled(AddRows(encoding.text.residual, delta)), delta)
    /\ UNCHANGED <<encoder, conditioning>>

CudaAnswer ==
    /\ InPhase("cuda", "answer")
    /\ conditioning' = Answer
    /\ encoding' = None
    /\ UNCHANGED encoder

\* The device runs out of memory: the table goes, or else a layer, and the prompt is encoded again.
CudaMakeRoom ==
    /\ encoding # None /\ encoder.backend = "cuda"
    /\ encoding.phase \in {"embed", "project", "attention", "expansion", "contraction"}
    /\ encoder.table \/ encoding.rooms > 0
    /\ encoder' = [encoder EXCEPT !.table = FALSE]
    /\ encoding' = [encoding EXCEPT !.rooms = IF encoder.table THEN @ ELSE @ - 1,
                                    !.phase = "embed"]
    /\ UNCHANGED conditioning

(***************************************************************************)
(* The text encoder on Metal.                                              *)
(***************************************************************************)
\* `rows` with those of each picture taken from `replacement`, put together from parts.
WithPictures(rows, replacement(_)) ==
    LET step(done, i) ==
            [parts |-> done.parts \o SubSeq(rows, done.next, Starts[i] - 1)
                       \o replacement(encoding.pictures[i]),
             next |-> Starts[i] + encoding.pictures[i].tokens]
        done == FoldLeftDomain(step, [parts |-> <<>>, next |-> 1], Starts)
    IN done.parts \o SubSeq(rows, done.next, Len(rows))

MetalEmbed ==
    /\ InPhase("metal", "embed") /\ Len(encoding.pictures) = Len(Starts)
    /\ encoding' = [encoding EXCEPT
         !.text.residual = WithPictures(Lookup, LAMBDA picture : picture.merged),
         !.layer = 1, !.phase = "project"]
    /\ UNCHANGED <<encoder, conditioning>>

MetalTextAttention ==
    /\ InPhase("metal", "project")
    /\ LET l == encoding.layer
           qkv == Rotated(OnEach(LAMBDA x : Linear(<<l, "qkv">>, Norm(<<l, "input">>, x)),
                                 encoding.text.residual))
           delta == OnEach(LAMBDA x : Linear(<<l, "o_proj">>, x), Causal(qkv))
       IN encoding' = [encoding EXCEPT !.text.residual = AddRows(@, delta), !.phase = "expansion"]
    /\ UNCHANGED <<encoder, conditioning>>

\* The pictures' features for this layer, zeros between them, are added to all rows at once.
AddFeatures(rows, features) ==
    [t \in 1..Len(rows) |->
        IF features[t] = <<"zero">> THEN rows[t] ELSE Add(rows[t], features[t], "one")]

FeaturesAdded(rows) ==
    IF \E i \in 1..Len(encoding.pictures) :
            Len(encoding.pictures[i].deepstack) >= encoding.layer
    THEN AddFeatures(rows, WithPictures([t \in 1..Len(rows) |-> <<"zero">>],
                                        LAMBDA picture : picture.deepstack[encoding.layer]))
    ELSE rows

LeaveTextLayer(rows) ==
    [encoding EXCEPT !.text.residual = FeaturesAdded(rows), !.layers = Kept(rows),
                     !.layer = @ + 1, !.phase = AfterLayer]

MetalTextMlp ==
    /\ InPhase("metal", "expansion")
    /\ LET l == encoding.layer
           mlp(x) == Linear(<<l, "down">>, SwiGlu(Linear(<<l, "gate_up">>, Norm(<<l, "post">>, x))))
           rows == encoding.text.residual
       IN encoding' = LeaveTextLayer(TextSettled(AddRows(rows, OnEach(mlp, rows))))
    /\ UNCHANGED <<encoder, conditioning>>

MetalAnswer ==
    /\ InPhase("metal", "answer")
    /\ conditioning' = Answer
    /\ encoding' = None
    /\ UNCHANGED encoder
=============================================================================
