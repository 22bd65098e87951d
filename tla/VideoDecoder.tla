---------------------------- MODULE VideoDecoder ----------------------------
(***************************************************************************)
(* The decoding half of the video VAE, on CUDA and on Metal                *)
(* (src/crates/mmh3-cuda/src/vae.rs, src/crates/mmh3-metal/src/vae.rs and  *)
(* the plans of src/crates/mmh3-core/src/vae.rs).                          *)
(*                                                                         *)
(* A latent decodes in chunks of seven latent frames that overlap by two,  *)
(* and a chunk in tiles that overlap in both directions.  The frames of a  *)
(* chunk make its canvas, and a chunk's first frames are blended with the  *)
(* last ones of the chunk before.  A canvas may come from another machine. *)
(*                                                                         *)
(* CUDA runs all the tiles of a chunk at once in a workspace it keeps for  *)
(* the next chunk; Metal runs one tile after another, in arrays of their   *)
(* own.  Lengths are in latent positions.                                  *)
(***************************************************************************)
EXTENDS VideoPlans

CONSTANTS
    Backends,
    Layers,        \* transformer blocks
    Int8Choices,   \* sets of layers a checkpoint may hold in INT8
    Latents,       \* [frames, height, width]
    None

VARIABLES
    decoder,       \* [backend, int8, weights]: the checkpoint, and whether its weights are read
    decode,        \* the decode under way
    video          \* what the last decode answered with: its latent and frames, or None

vars == <<decoder, decode, video>>

(***************************************************************************)
(* Plans.                                                                  *)
(***************************************************************************)
ChunkOverlapTokens == (ChunkTokens - (TokenDrop % ChunkTokens)) % ChunkTokens

FramePrePadding == (TemporalRatio - (ClipLength % TemporalRatio)) % TemporalRatio

FrameOverlap == (ChunkOverlapTokens * TemporalRatio) - FramePrePadding

ChunkFrames == ChunkTokens * TemporalRatio

\* The latent frames [first, last) of the padded latent that a chunk decodes.
ChunkRange(chunk, padded) ==
    <<AtMost(chunk * ChunkTokens, padded),
      AtMost(chunk * ChunkTokens + ChunkTokens + ChunkOverlapTokens, padded)>>

\* Copies of the last latent frame that are appended, the chunks, and the frames they come to.
TemporalPlan(latent) ==
    LET total == latent + TokenDrop
        spare == (ChunkTokens - (total % ChunkTokens)) % ChunkTokens
        whole == (total + spare) \div ChunkTokens - 1
        pad == IF whole < 1 THEN spare + ChunkTokens ELSE spare
        chunks == IF whole < 1 THEN whole + 1 ELSE whole
        clip(chunk) == LET r == ChunkRange(chunk, latent + pad) IN (r[2] - r[1]) * TemporalRatio
        kept(chunk, part) ==
            LET start == part * ChunkFrames
                length == AtMost(start + ChunkFrames, clip(chunk)) - start - FramePrePadding
            IN IF length < 0 THEN 0 ELSE length
        padded(token) == IF token % ChunkTokens = 0 THEN ClipLength % TemporalRatio
                         ELSE TemporalRatio
    IN [pad |-> pad, chunks |-> chunks,
        frames |-> MapThenSumSet(LAMBDA c : kept(c, 0), 0..chunks - 1) + kept(chunks - 1, 1)
                     - MapThenSumSet(padded, latent..latent + pad - 1)]

\* A single latent frame decodes on its own and keeps only its last frame.
Plan(latent) ==
    IF latent = 1 THEN [pad |-> 0, chunks |-> 1, frames |-> 1, tokens |-> 1]
    ELSE TemporalPlan(latent) @@ [tokens |-> ChunkTokens + ChunkOverlapTokens]

\* The latent frames of a chunk.  Those past the end repeat the last one.
Tokens(latent, chunk) ==
    [t \in 1..Plan(latent).tokens |-> AtMost(chunk * ChunkTokens + t - 1, latent - 1)]

(***************************************************************************)
(* What both are to compute: the transformer over the rows of a tile, the  *)
(* tiles of a canvas blended down and then across with their unblended     *)
(* neighbors, and the frames.                                              *)
(***************************************************************************)
After(rows, l, half) == <<"after", l, half, rows>>

Into(rows, l) ==
    IF l > 1 THEN After(rows, l - 1, "mlp")
    ELSE <<"registers", Linear("x_embedder", Linear("post_quant_conv", rows))>>

Attended(l, qkv) == <<"attend", l, qkv>>

Meanings(rows) ==
    LET normed(l, norm, x) == Norm(<<l, norm>>, x)
        attended(l) == Attended(l, Linear(<<l, "to_qkv">>, normed(l, "norm1", Into(rows, l))))
        gated(l) == SwiGlu(Linear(<<l, "w1">>, normed(l, "norm2", After(rows, l, "attention"))))
    IN {<<Add(Into(rows, l), Linear(<<l, "to_out">>, attended(l)), <<l, "scale1">>),
          After(rows, l, "attention")>> : l \in 1..Layers}
       \cup
       {<<Add(After(rows, l, "attention"), Linear(<<l, "w2">>, gated(l)), <<l, "scale2">>),
          After(rows, l, "mlp")>> : l \in 1..Layers}

Answer(rows) == Linear(<<"proj_out">>, Norm("norm_out", After(rows, Layers, "mlp")))

Rows(latent, tokens, tile) == <<"rows", latent, tokens, tile>>

Canvas(latent, tokens) ==
    LET grid == Grid(latent)
        at == [tile \in Tiles(grid) |-> Answer(Rows(latent, tokens, tile))]
    IN [cell \in Cells(latent) |-> BlendedCell(grid, at, cell)]

CanvasName(latent, tokens) == <<"canvas", latent, tokens>>

\* The frames a latent stands for, as its latent frames and which of their four frames: all of
\* them, or the last alone for the frame each clip starts with.
Kept(latent) ==
    FlattenSeq([t \in 1..latent.frames |->
        IF (t - 1) % ChunkTokens = 0 THEN << <<t - 1, 3>> >>
        ELSE [s \in 1..TemporalRatio |-> <<t - 1, s - 1>>]])

\* Frame `at` of the video: of the chunk that starts no later, blended with the one before where
\* both decode it.
Frame(latent, at) ==
    LET token == at[1]
        chunks == Plan(latent.frames).chunks
        start == token \div ChunkTokens
        of(c) == <<"frame", CanvasName(latent, Tokens(latent.frames, c)),
                   (token - c * ChunkTokens) * TemporalRatio + at[2]>>
        into == IF token % ChunkTokens = 0 THEN 0 ELSE 1 + at[2]
    IN IF 0 < start /\ start < chunks /\ token % ChunkTokens < ChunkOverlapTokens
       THEN Mix(of(start - 1), of(start), <<into, FrameOverlap>>)
       ELSE of(AtMost(start, chunks - 1))

Agrees(answer) ==
    LET kept == Kept(answer.latent)
    IN answer.frames = [i \in 1..Len(kept) |-> Frame(answer.latent, kept[i])]

(***************************************************************************)
(* A decode walks the chunks.  For each it asks for the canvas of another  *)
(* machine, which may be there, be of another size, not come back, or      *)
(* never have been asked for: that chunk decodes here, and the weights are *)
(* read when the first one does.                                           *)
(***************************************************************************)
Init ==
    /\ \E backend \in Backends, int8 \in Int8Choices, packs \in BOOLEAN :
        /\ backend = "cuda" => packs
        /\ decoder = [backend |-> backend, int8 |-> int8, packs |-> packs, weights |-> "disk"]
    /\ decode = None
    /\ video = None

Latent == decode.latent

Chunks == Plan(Latent.frames).chunks

Here == Tokens(Latent.frames, decode.chunk)

Begin ==
    /\ decode = None /\ video = None
    /\ \E latent \in Latents :
        decode' = [latent |-> latent, chunk |-> 0, phase |-> "ask", here |-> {}, position |-> 0,
                   output |-> [i \in 1..Plan(latent.frames).frames |-> Stale],
                   tail |-> [f \in 0..FrameOverlap - 1 |-> Stale], canvas |-> None,
                   work |-> None, layer |-> 0, pending |-> None, tile |-> None]
    /\ UNCHANGED <<decoder, video>>

TakeCanvas ==
    /\ decode # None /\ decode.phase = "ask"
    /\ decode' = [decode EXCEPT !.phase = "write", !.canvas = CanvasName(Latent, Here)]
    /\ UNCHANGED <<decoder, video>>

DecodeHere ==
    /\ decode # None /\ decode.phase = "ask"
    /\ decode' = [decode EXCEPT !.phase = "embed", !.here = @ \cup {decode.chunk},
                                !.tile = <<1, 1>>]
    /\ decoder' = [decoder EXCEPT !.weights = "device"]
    /\ UNCHANGED video

\* A chunk that was handed out and did not come back, a canvas of another size on CUDA (Metal
\* decodes the chunk itself, like one nobody handed out), or a device out of memory.
Fail ==
    /\ decode # None /\ decode.phase \in {"ask", "embed", "expand"}
    /\ decode' = None
    /\ UNCHANGED <<decoder, video>>

IsInt8(layer) == layer \in decoder.int8

InPhase(backend, phase) ==
    decode # None /\ decoder.backend = backend /\ decode.phase = phase

AddScaled(rows, x, delta, scale) == Named(Meanings(rows), Add(x, delta, scale))

\* A canvas that is the one wanted takes its name.
NamedCanvas(cells) ==
    IF cells = Canvas(Latent, Here) THEN CanvasName(Latent, Here) ELSE cells

(***************************************************************************)
(* CUDA: every tile at once, in buffers that hold what was written last.   *)
(***************************************************************************)
Buffers == {"residual", "normalized", "quantized", "qkv", "attention", "delta", "activated",
            "projected"}

AllTiles == Tiles(Grid(Latent))

RowsOf(tile) == Rows(Latent, Here, tile)

Write(work, buffer, F(_)) == [work EXCEPT ![buffer] = [tile \in AllTiles |-> F(tile)]]

\* A layer on a buffer.  INT8 layers quantize it first, unless the norm before has.
LinearInto(work, layer, from, to, ready) ==
    LET int8 == IsInt8(layer)
        quantized == IF int8 /\ ~ready THEN Write(work, "quantized", LAMBDA t : work[from][t])
                     ELSE work
        source == IF int8 THEN "quantized" ELSE from
    IN Write(quantized, to, LAMBDA t : Linear(layer, quantized[source][t]))

AddDelta(work, scale) ==
    Write(work, "residual",
          LAMBDA t : AddScaled(RowsOf(t), work.residual[t], work.delta[t], scale))

NormInto(work, weight, to) == Write(work, to, LAMBDA t : Norm(weight, work.residual[t]))

\* The embedding, with the registers after the patches.
CudaEmbed ==
    /\ InPhase("cuda", "embed")
    /\ LET fresh == [b \in Buffers |-> [t \in AllTiles |-> Stale]]
           work == IF decode.work = None THEN fresh ELSE decode.work
           embedded == Write(work, "normalized",
                             LAMBDA t : Linear("x_embedder", Linear("post_quant_conv", RowsOf(t))))
       IN decode' = [decode EXCEPT
                       !.work = Write(embedded, "residual",
                                      LAMBDA t : <<"registers", embedded.normalized[t]>>),
                       !.phase = "project", !.layer = 1, !.pending = None]
    /\ UNCHANGED <<decoder, video>>

\* The attention's projections.  The MLP output of the block before is added here.
CudaProject ==
    /\ InPhase("cuda", "project")
    /\ LET layer == <<decode.layer, "to_qkv">>
           added == IF decode.pending = None THEN decode.work
                    ELSE AddDelta(decode.work, decode.pending)
           normed == NormInto(added, <<decode.layer, "norm1">>,
                              IF IsInt8(layer) THEN "quantized" ELSE "normalized")
       IN decode' = [decode EXCEPT !.work = LinearInto(normed, layer, "normalized", "qkv", TRUE),
                                   !.phase = "attend", !.pending = None]
    /\ UNCHANGED <<decoder, video>>

CudaAttend ==
    /\ InPhase("cuda", "attend")
    /\ LET attended == Write(decode.work, "attention",
                             LAMBDA t : Attended(decode.layer, decode.work.qkv[t]))
       IN decode' = [decode EXCEPT
                       !.work = LinearInto(attended, <<decode.layer, "to_out">>, "attention",
                                           "delta", FALSE),
                       !.phase = "expand"]
    /\ UNCHANGED <<decoder, video>>

\* The gate and up projections.  An INT8 product writes SwiGLU of them itself.
CudaExpand ==
    /\ InPhase("cuda", "expand")
    /\ LET layer == <<decode.layer, "w1">>
           source == IF IsInt8(layer) THEN "quantized" ELSE "normalized"
           normed == NormInto(AddDelta(decode.work, <<decode.layer, "scale1">>),
                              <<decode.layer, "norm2">>, source)
       IN decode' = [decode EXCEPT
                       !.work = Write(normed, "activated",
                                      LAMBDA t : SwiGlu(Linear(layer, normed[source][t]))),
                       !.phase = "contract"]
    /\ UNCHANGED <<decoder, video>>

\* The down projection, whose sum waits for the next block's norm.
CudaContract ==
    /\ InPhase("cuda", "contract")
    /\ LET l == decode.layer
       IN decode' = [decode EXCEPT
                       !.work = LinearInto(decode.work, <<l, "w2">>, "activated", "delta", FALSE),
                       !.pending = <<l, "scale2">>,
                       !.phase = IF l = Layers THEN "answer" ELSE "project",
                       !.layer = IF l = Layers THEN l ELSE l + 1]
    /\ UNCHANGED <<decoder, video>>

\* A cell of the canvas, from the last tile that starts no later.
CudaCell(grid, at, cell) ==
    LET last(axis, p) == Max({i \in DOMAIN axis.starts : axis.starts[i] <= p})
        i == last(grid.rows, cell[1])
        j == last(grid.columns, cell[2])
        row == cell[1] - grid.rows.starts[i]
        column == cell[2] - grid.columns.starts[j]
        pixel(r, c, y, x) ==
            <<"pixel", at[<<r, c>>], <<grid.rows.starts[r] + y, grid.columns.starts[c] + x>>>>
        above == grid.rows.overlaps[i - 1]
        beside == grid.columns.overlaps[j - 1]
        down == IF i > 1 /\ row < above
                THEN Mix(pixel(i - 1, j, grid.rows.length - above + row, column),
                         pixel(i, j, row, column), <<row, above>>)
                ELSE pixel(i, j, row, column)
    IN IF j > 1 /\ column < beside
       THEN Mix(pixel(i, j - 1, row, grid.columns.length - beside + column), down,
                <<column, beside>>)
       ELSE down

CudaAnswer ==
    /\ InPhase("cuda", "answer")
    /\ LET normed == NormInto(AddDelta(decode.work, decode.pending), "norm_out", "normalized")
           work == LinearInto(normed, <<"proj_out">>, "normalized", "projected", FALSE)
           cells == [cell \in Cells(Latent) |-> CudaCell(Grid(Latent), work.projected, cell)]
       IN decode' = [decode EXCEPT !.work = work, !.canvas = NamedCanvas(cells),
                                   !.phase = "write"]
    /\ UNCHANGED <<decoder, video>>

(***************************************************************************)
(* Metal: a tile at a time.  When every block's projections are INT8 and   *)
(* the rows fit, one pass adds what is pending, norms, and packs the next  *)
(* product's input.                                                        *)
(***************************************************************************)
Fused ==
    /\ decoder.packs
    /\ \A l \in 1..Layers : IsInt8(<<l, "to_qkv">>) /\ IsInt8(<<l, "w1">>)

\* The residual, with what is pending added, and the norm of it.
AddNorm(x, pending, weight) ==
    LET updated == IF pending = None THEN x
                   ELSE AddScaled(RowsOf(decode.tile), x, pending[1], pending[2])
    IN [x |-> updated, normed |-> Norm(weight, updated)]

MetalEmbed ==
    /\ InPhase("metal", "embed")
    /\ LET rows == Linear("x_embedder", Linear("post_quant_conv", RowsOf(decode.tile)))
           blank == [cell \in Cells(Latent) |-> Stale]
           none == [column \in DOMAIN Grid(Latent).columns.starts |-> None]
       IN decode' = [decode EXCEPT
                       !.work = IF decode.tile = <<1, 1>>
                                THEN [x |-> <<"registers", rows>>, above |-> none, beside |-> None]
                                ELSE [@ EXCEPT !.x = <<"registers", rows>>],
                       !.canvas = IF decode.tile = <<1, 1>> THEN blank ELSE @,
                       !.phase = "attend", !.layer = 1, !.pending = None]
    /\ UNCHANGED <<decoder, video>>

MetalAttention ==
    /\ InPhase("metal", "attend")
    /\ LET l == decode.layer
           pass == AddNorm(decode.work.x, decode.pending, <<l, "norm1">>)
           delta == Linear(<<l, "to_out">>, Attended(l, Linear(<<l, "to_qkv">>, pass.normed)))
       IN decode' = [decode EXCEPT
                       !.work.x = IF Fused THEN pass.x
                                  ELSE AddScaled(RowsOf(decode.tile), @, delta, <<l, "scale1">>),
                       !.pending = IF Fused THEN <<delta, <<l, "scale1">>>> ELSE None,
                       !.phase = "expand"]
    /\ UNCHANGED <<decoder, video>>

MetalMlp ==
    /\ InPhase("metal", "expand")
    /\ LET l == decode.layer
           pass == AddNorm(decode.work.x, decode.pending, <<l, "norm2">>)
           delta == Linear(<<l, "w2">>, SwiGlu(Linear(<<l, "w1">>, pass.normed)))
       IN decode' = [decode EXCEPT
                       !.work.x = IF Fused THEN pass.x
                                  ELSE AddScaled(RowsOf(decode.tile), @, delta, <<l, "scale2">>),
                       !.pending = IF Fused THEN <<delta, <<l, "scale2">>>> ELSE None,
                       !.phase = IF l = Layers THEN "answer" ELSE "attend",
                       !.layer = IF l = Layers THEN l ELSE l + 1]
    /\ UNCHANGED <<decoder, video>>

\* What a tile writes of the canvas: its cells up to the next tile, blended with the tiles above
\* and beside it as they were before blending.
MetalBlend(grid, tile, answer, above, beside) ==
    LET i == tile[1]
        j == tile[2]
        kept(axis, k, length) ==
            (IF k < Len(axis.starts) THEN axis.starts[k + 1] ELSE length) - axis.starts[k]
        overlap(axis, k) == IF k = 1 THEN 0 ELSE axis.overlaps[k - 1]
        top == grid.rows.starts[i]
        left == grid.columns.starts[j]
        down(y, x) ==
            LET value == <<"pixel", answer, <<top + y, left + x>>>>
                o == overlap(grid.rows, i)
            IN IF y < o
               THEN Mix(<<"pixel", above, <<grid.rows.starts[i - 1] + grid.rows.length - o + y,
                                            left + x>>>>, value, <<y, o>>)
               ELSE value
        across(y, x) ==
            LET o == overlap(grid.columns, j)
            IN IF x < o
               THEN Mix(<<"pixel", beside,
                          <<top + y, grid.columns.starts[j - 1] + grid.columns.length - o + x>>>>,
                        down(y, x), <<x, o>>)
               ELSE down(y, x)
    IN [cell \in (top..top + kept(grid.rows, i, Latent.height) - 1)
                  \X (left..left + kept(grid.columns, j, Latent.width) - 1)
          |-> across(cell[1] - top, cell[2] - left)]

MetalTile ==
    /\ InPhase("metal", "answer")
    /\ LET grid == Grid(Latent)
           i == decode.tile[1]
           j == decode.tile[2]
           final == AddNorm(decode.work.x, decode.pending, "norm_out")
           answer == Linear(<<"proj_out">>, final.normed)
           cells == MetalBlend(grid, decode.tile, answer, decode.work.above[j],
                               decode.work.beside) @@ decode.canvas
           wide == j = Len(grid.columns.starts)
           last == wide /\ i = Len(grid.rows.starts)
       IN decode' = [decode EXCEPT
                       !.work.above[j] = answer,
                       !.work.beside = IF wide THEN None ELSE answer,
                       !.canvas = IF last THEN NamedCanvas(cells) ELSE cells,
                       !.tile = IF wide THEN <<i + 1, 1>> ELSE <<i, j + 1>>,
                       !.phase = IF last THEN "write" ELSE "embed"]
    /\ UNCHANGED <<decoder, video>>

(***************************************************************************)
(* Frames of the canvas go into the video at `position`, those past its    *)
(* end are left out, and the first may be blended with the tail kept from  *)
(* the chunk before.                                                       *)
(***************************************************************************)
CanvasFrame(f) == <<"frame", decode.canvas, f>>

Written(output, first, count, blend, position) ==
    [i \in DOMAIN output |->
        LET f == i - 1 - position
        IN CASE f \notin 0..count - 1         -> output[i]
             [] blend /\ f < FrameOverlap     ->
                    Mix(decode.tail[f], CanvasFrame(first + f), <<f, FrameOverlap>>)
             [] OTHER                         -> CanvasFrame(first + f)]

\* Each chunk writes frames [3, 20) and keeps the tail [23, 28) for the next, or writes it too.
WriteChunk(position) ==
    LET single == Latent.frames = 1
        count == ChunkFrames - FramePrePadding
        tail == ChunkFrames + FramePrePadding
        last == decode.chunk + 1 = Chunks
        body == IF single THEN Written(decode.output, TemporalRatio - 1, 1, FALSE, 0)
                ELSE Written(decode.output, FramePrePadding, count, decode.chunk > 0,
                             decode.position)
        output == IF single \/ ~last THEN body
                  ELSE Written(body, tail, FrameOverlap, FALSE, position)
    IN
    /\ decode' = IF last THEN None
                 ELSE [decode EXCEPT !.output = output, !.position = position,
                                     !.chunk = @ + 1, !.phase = "ask",
                                     !.tail = [f \in DOMAIN @ |-> CanvasFrame(tail + f)]]
    /\ video' = IF last THEN [latent |-> Latent, frames |-> output, here |-> decode.here]
                ELSE video
    /\ UNCHANGED decoder

CudaWrite ==
    /\ InPhase("cuda", "write")
    /\ WriteChunk(decode.position
                    + AtMost(ChunkFrames - FramePrePadding, Len(decode.output) - decode.position))

MetalWrite ==
    /\ InPhase("metal", "write")
    /\ WriteChunk(decode.position + ChunkFrames - FramePrePadding)

Next ==
    \/ Begin \/ TakeCanvas \/ DecodeHere \/ Fail
    \/ CudaEmbed \/ CudaProject \/ CudaAttend \/ CudaExpand \/ CudaContract \/ CudaAnswer
    \/ MetalEmbed \/ MetalAttention \/ MetalMlp \/ MetalTile
    \/ CudaWrite \/ MetalWrite
=============================================================================
