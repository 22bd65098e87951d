---------------------------- MODULE VideoEncoder ----------------------------
(***************************************************************************)
(* The encoding half of the video VAE, on CUDA and on Metal                *)
(* (src/crates/mmh3-cuda/src/video_encoder.rs,                             *)
(* src/crates/mmh3-metal/src/video_encoder.rs, and their convolution       *)
(* kernels), for keyframes and for reference pictures and clips.           *)
(*                                                                         *)
(* A causal CNN of residual blocks and strided convolutions encodes tiles  *)
(* of clips of seventeen frames, and the moments of a clip's tiles are     *)
(* blended.  The last tokens of the last clip are dropped, and their       *)
(* frames are not encoded at all.                                          *)
(*                                                                         *)
(* CUDA takes the activations of a tile from a pool of buffers and hands   *)
(* them back for the next; Metal encodes several tiles in one pass.        *)
(***************************************************************************)
EXTENDS VideoPlans

CONSTANTS
    Backends,
    EncoderKinds,  \* [shortcuts, fused]: levels whose block has a shortcut convolution, and
                   \* those whose channels CUDA's one-pass convolution takes
    Inputs,        \* [temporal, frames, height, width]
    BatchArea,     \* latent positions of frames that Metal encodes in one pass
    None

VARIABLES
    encoder,       \* [backend, shortcuts, fused]
    encode,        \* the encode under way
    posterior      \* what the last one answered with: its input and moments, or None

vars == <<encoder, encode, posterior>>

\* Temporal strides of the convolutions between the levels.
TimeStrides == <<1, 2, 2, 1>>

LastLevel == Len(TimeStrides) + 1

(***************************************************************************)
(* What both are to compute: every stage of the network over the frames of *)
(* a whole clip, a frame past the input's end repeating its last one, and  *)
(* zeros before the clip.  A frame's value names its stage and its place.  *)
(***************************************************************************)
At(stage, source, f) == <<"at", stage, source, f>>

Conv(layer, taps) == <<"conv", layer, taps>>

NormSilu(norm, statistics, x) == <<"group norm", norm, statistics, x>>

Into(level) == IF level = 1 THEN <<"conv_in">> ELSE <<level - 1, "downsample">>

\* What the convolution of a stage reads: which stage, through which norm, and at which stride.
Reads(stage) ==
    LET l == stage[1]
        reads(from, norm, stride) == [from |-> from, norm |-> norm, stride |-> stride]
    IN CASE stage = <<"conv_in">>      -> reads(<<"pixels">>, None, 1)
         [] stage = <<"conv_out">>     -> reads(<<LastLevel, "block">>, <<"norm_out">>, 1)
         [] stage = <<l, "conv1">>      -> reads(Into(l), <<l, "norm1">>, 1)
         [] stage = <<l, "conv2">>      -> reads(<<l, "conv1">>, <<l, "norm2">>, 1)
         [] stage = <<l, "downsample">> -> reads(<<l, "block">>, None, TimeStrides[l])

\* A source is an input, a clip of it and a tile.
Value(stage, source, f) ==
    IF stage = <<"pixels">>
    THEN <<"pixel", AtMost(source[2] * ClipLength + f, source[1].frames - 1), source[3]>>
    ELSE At(stage, source, f)

Convolved(stage, source, f) ==
    LET reads == Reads(stage)
        read(x) == IF reads.norm = None THEN x ELSE NormSilu(reads.norm, x, x)
        frame(tap) == reads.stride * f + tap - 3
    IN Conv(stage, [tap \in {k \in 1..3 : frame(k) >= 0} |->
                        read(Value(reads.from, source, frame(tap)))])

\* What a stage is: the second convolution of a block adds to its input, or to its shortcut.
StageTerm(shortcuts, stage, source, f) ==
    LET l == stage[1]
        into == At(Into(l), source, f)
    IN CASE stage = <<"quant">> -> Linear(stage, At(<<"conv_out">>, source, f))
         [] Len(stage) = 2 /\ stage[2] = "block" ->
                Add(IF l \in shortcuts THEN Linear(<<l, "nin_shortcut">>, into) ELSE into,
                    Convolved(<<l, "conv2">>, source, f), "one")
         [] OTHER -> Convolved(stage, source, f)

\* Clips of an input, latent frames of a clip, and those dropped from the last.
Clips(input) == IF input.temporal = "clip" THEN CeilDiv(input.frames, ClipLength) ELSE 1

TokensOf(input) == IF input.temporal = "clip" THEN ChunkTokens ELSE 1

LatentFrames(input) ==
    Clips(input) * TokensOf(input) - (IF input.temporal = "clip" THEN TokenDrop ELSE 0)

Agrees(answer) ==
    LET input == answer.input
        grid == Grid(input)
        moments(t) ==
            [tile \in Tiles(grid) |->
                At(<<"quant">>, <<input, t \div TokensOf(input), tile>>, t % TokensOf(input))]
    IN answer.moments = [t \in 0..LatentFrames(input) - 1 |->
                            [cell \in Cells(input) |-> BlendedCell(grid, moments(t), cell)]]

(***************************************************************************)
(* Both backends: the clips in order, and the last with only the frames    *)
(* its kept tokens read.                                                   *)
(***************************************************************************)
Init ==
    /\ \E backend \in Backends, kind \in EncoderKinds :
        encoder = [backend |-> backend, shortcuts |-> kind.shortcuts, fused |-> kind.fused]
    /\ encode = None
    /\ posterior = None

Input == encode.input

TapsKept == IF Input.temporal = "clip" THEN 3 ELSE 1

\* The tiles of a clip, row by row.
TileOrder(grid) ==
    LET columns == Len(grid.columns.starts)
    IN [i \in 1..Len(grid.rows.starts) * columns |->
            <<1 + ((i - 1) \div columns), 1 + ((i - 1) % columns)>>]

Begin ==
    /\ encode = None /\ posterior = None
    /\ \E input \in Inputs :
        encode' = [input |-> input, grid |-> Grid(input), order |-> TileOrder(Grid(input)),
                   clips |-> Clips(input), whole |-> TokensOf(input),
                   kept |-> LatentFrames(input) - (Clips(input) - 1) * TokensOf(input),
                   clip |-> 0, tile |-> 1, phase |-> "input", level |-> 1,
                   memory |-> <<>>, free |-> <<>>, statistics |-> [f \in 0..ClipLength |-> Stale],
                   pixels |-> None, hidden |-> None, inner |-> None, normed |-> None,
                   next |-> None, tiles |-> <<>>, moments |-> <<>>]
    /\ UNCHANGED <<encoder, posterior>>

\* A device out of memory, between any two passes.
Fail ==
    /\ encode # None
    /\ encode' = None
    /\ UNCHANGED <<encoder, posterior>>

InPhase(backend, phase) ==
    encode # None /\ encoder.backend = backend /\ encode.phase = phase

ClipFrames == IF Input.temporal = "clip" THEN ClipLength ELSE 1

IsLastClip == encode.clip + 1 = encode.clips

Tokens == IF IsLastClip THEN encode.kept ELSE encode.whole

Frames == IF IsLastClip THEN AtMost(TemporalRatio * (encode.kept - 1) + 1, ClipFrames)
          ELSE ClipFrames

Source(tile) == <<Input, encode.clip, encode.order[tile]>>

\* A frame that is what the network has at that stage and place takes that name.
Settled(stage, tile, f, value) ==
    IF value = StageTerm(encoder.shortcuts, stage, Source(tile), f)
    THEN At(stage, Source(tile), f) ELSE value

\* A pixel of the canvas for frame f of a tile.
TileInput(tile, f) ==
    <<"pixel", AtMost(encode.clip * ClipFrames + f, Input.frames - 1), encode.order[tile]>>

\* The temporal taps a convolution keeps are the last ones of its kernel.
KeptTaps(columns) ==
    LET taps == TapsKept
    IN [tap \in {3 - taps + k + 1 : k \in DOMAIN columns} |-> columns[tap - 1 - (3 - taps)]]

(***************************************************************************)
(* CUDA: a tile at a time.  An activation is a buffer of the pool, with    *)
(* its size; `memory` is what every buffer holds, `free` those handed      *)
(* back.                                                                   *)
(***************************************************************************)
Channels(level) == IF level < 4 THEN 2^(level - 1) ELSE 8

Bytes(frames, level) == frames * 4^(Len(TimeStrides) + 1 - level) * Channels(level)

\* A new activation for `slot`: the first free buffer of its size, or a new one.
Allocate(enc, slot, bytes, rows) ==
    LET fits == {i \in DOMAIN enc.free : enc.free[i].bytes = bytes}
        taken == IF fits = {} THEN [buffer |-> Len(enc.memory) + 1, bytes |-> bytes]
                 ELSE enc.free[Min(fits)]
    IN [enc EXCEPT ![slot] = taken,
                   !.free = SelectSeq(@, LAMBDA a : a # taken),
                   !.memory = IF fits = {} THEN Append(@, rows)
                              ELSE [@ EXCEPT ![taken.buffer] = rows]]

Release(enc, slot) == [enc EXCEPT ![slot] = None, !.free = Append(@, enc[slot])]

\* `slot` takes over the activation of `other`, and its own goes back.
Replace(enc, slot, other) ==
    [enc EXCEPT ![slot] = enc[other], ![other] = None, !.free = Append(@, enc[slot])]

RowsOf(enc, slot) == enc.memory[enc[slot].buffer]

\* The frames whose columns a convolution takes, by its taps: zeros before the clip.
Im2col(x, f, stride) ==
    LET taps == TapsKept
        from(k) == f * stride + k - (taps - 1)
    IN [k \in {k \in 0..taps - 1 : from(k) >= 0} |-> x[from(k)]]

\* The one-pass convolution, which norms every frame it stages.
Conv3d(x, f, norm, statistics) ==
    LET taps == TapsKept
        from(k) == f + k - (taps - 1)
    IN [k \in {k \in 0..taps - 1 : from(k) >= 0} |->
            NormSilu(norm, statistics[from(k)], x[from(k)])]

Frame(stage, f, value) == Settled(stage, encode.tile, f, value)

\* SiLU of a group norm of `from`, and a convolution of it.  The norm is a pass of
\* its own, into one more activation, where the convolution does not take it.
NormalizedConvolve(enc, level, norm, conv, from) ==
    LET x == RowsOf(enc, from)
        bytes == enc[from].bytes
        measured == [enc EXCEPT !.statistics = [f \in DOMAIN @ |-> IF f \in DOMAIN x THEN x[f]
                                                                  ELSE @[f]]]
        normed == [f \in DOMAIN x |-> NormSilu(norm, measured.statistics[f], x[f])]
        staged == Allocate(measured, "normed", bytes, normed)
        fused == [f \in DOMAIN x |-> Conv(conv, KeptTaps(Conv3d(x, f, norm, measured.statistics)))]
        plain == [f \in DOMAIN x |-> Conv(conv, KeptTaps(Im2col(normed, f, 1)))]
    IN IF level \in encoder.fused
       THEN [enc |-> measured, output |-> fused]
       ELSE [enc |-> staged, output |-> plain]

\* The activation of a norm's own pass goes back when its convolution has run.
Unstage(enc) == IF enc.normed = None THEN enc ELSE Release(enc, "normed")

CudaInput ==
    /\ InPhase("cuda", "input")
    /\ LET image == [f \in 0..Frames - 1 |-> TileInput(encode.tile, f)]
           rows == [f \in DOMAIN image |->
                       Frame(<<"conv_in">>, f, Conv(<<"conv_in">>, KeptTaps(Im2col(image, f, 1))))]
           pixels == Allocate(encode, "pixels", Frames * 4^Len(TimeStrides) * 3, image)
       IN encode' = [Allocate(pixels, "hidden", Bytes(Frames, 1), rows) EXCEPT
                       !.phase = "first", !.level = 1]
    /\ UNCHANGED <<encoder, posterior>>

CudaFirst ==
    /\ InPhase("cuda", "first")
    /\ LET l == encode.level
           conv == <<l, "conv1">>
           done == NormalizedConvolve(encode, l, <<l, "norm1">>, conv, "hidden")
           rows == [f \in DOMAIN done.output |-> Frame(conv, f, done.output[f])]
       IN encode' = [Unstage(Allocate(done.enc, "inner", encode.hidden.bytes, rows)) EXCEPT
                       !.phase = "residual"]
    /\ UNCHANGED <<encoder, posterior>>

\* The block's input, or its shortcut, in an activation the second convolution adds onto.
CudaResidual ==
    /\ InPhase("cuda", "residual")
    /\ LET l == encode.level
           x == RowsOf(encode, "hidden")
           rows == IF l \in encoder.shortcuts
                   THEN [f \in DOMAIN x |-> Linear(<<l, "nin_shortcut">>, x[f])] ELSE x
       IN encode' = [Allocate(encode, "next", encode.hidden.bytes, rows) EXCEPT !.phase = "second"]
    /\ UNCHANGED <<encoder, posterior>>

CudaSecond ==
    /\ InPhase("cuda", "second")
    /\ LET l == encode.level
           done == NormalizedConvolve(encode, l, <<l, "norm2">>, <<l, "conv2">>, "inner")
           onto == RowsOf(done.enc, "next")
           rows == [f \in DOMAIN onto |->
                       Frame(<<l, "block">>, f, Add(onto[f], done.output[f], "one"))]
           added == Unstage([done.enc EXCEPT !.memory[done.enc.next.buffer] = rows])
       IN encode' = [Replace(Release(added, "inner"), "hidden", "next") EXCEPT
                       !.phase = IF l < LastLevel THEN "downsample" ELSE "output"]
    /\ UNCHANGED <<encoder, posterior>>

CudaDownsample ==
    /\ InPhase("cuda", "downsample")
    /\ LET l == encode.level
           conv == <<l, "downsample">>
           stride == TimeStrides[l]
           x == RowsOf(encode, "hidden")
           frames == (Cardinality(DOMAIN x) - 1) \div stride + 1
           rows == [f \in 0..frames - 1 |->
                       Frame(conv, f, Conv(conv, KeptTaps(Im2col(x, f, stride))))]
           down == Allocate(encode, "next", Bytes(frames, l + 1), rows)
       IN encode' = [Replace(down, "hidden", "next") EXCEPT !.phase = "first", !.level = l + 1]
    /\ UNCHANGED <<encoder, posterior>>

CudaOutput ==
    /\ InPhase("cuda", "output")
    /\ LET conv == <<"conv_out">>
           done == NormalizedConvolve(encode, encode.level, <<"norm_out">>, conv, "hidden")
           output == [f \in DOMAIN done.output |-> Frame(conv, f, done.output[f])]
           moments == [f \in DOMAIN output |->
                          Frame(<<"quant">>, f, Linear(<<"quant">>, output[f]))]
           last == encode.tile = Len(encode.order)
           frames == Cardinality(DOMAIN output)
           held == Allocate(Unstage(Allocate(done.enc, "inner", frames * 6, output)),
                            "next", frames * 6, moments)
           back == Release(Release(Release(Release(held, "next"), "inner"), "hidden"), "pixels")
       IN encode' = [back EXCEPT !.tiles = Append(@, moments),
                                 !.tile = IF last THEN 1 ELSE @ + 1,
                                !.phase = IF last THEN "blend" ELSE "input"]
    /\ UNCHANGED <<encoder, posterior>>

(***************************************************************************)
(* Metal: the tiles of a part of a clip in one pass, their frames one      *)
(* after another, in arrays of their own.                                  *)
(***************************************************************************)
\* Tiles that go through together.
Part ==
    LET grid == encode.grid
        batch == Max({1, BatchArea \div (Frames * grid.rows.length * grid.columns.length)})
    IN AtMost(batch, Len(encode.order) - encode.tile + 1)

TileAt(r, frames) == encode.tile + r \div frames

\* Row r of a convolution: its taps read frames of its own tile, and zeros before them.
VideoConvolution(x, r, inputFrames, outputFrames, stride) ==
    LET taps == TapsKept
        first == (r \div outputFrames) * inputFrames
        from(k) == (r % outputFrames) * stride + k - (taps - 1)
    IN [k \in {k \in 0..taps - 1 : from(k) >= 0} |->
            x[first + AtMost(from(k), inputFrames - 1)]]

FramesOf(x) == Cardinality(DOMAIN x) \div Part

MetalConvolve(conv, x, stride) ==
    LET frames == (FramesOf(x) - 1) \div stride + 1
    IN [r \in 0..Part * frames - 1 |->
            Conv(conv, KeptTaps(VideoConvolution(x, r, FramesOf(x), frames, stride)))]

GroupNormSilu(norm, x) == [r \in DOMAIN x |-> NormSilu(norm, x[r], x[r])]

SettledRows(stage, rows) ==
    LET frames == FramesOf(rows)
    IN [r \in DOMAIN rows |-> Settled(stage, TileAt(r, frames), r % frames, rows[r])]

MetalInput ==
    /\ InPhase("metal", "input")
    /\ LET pixels == [r \in 0..Part * Frames - 1 |-> TileInput(TileAt(r, Frames), r % Frames)]
       IN encode' = [encode EXCEPT
                       !.hidden = SettledRows(<<"conv_in">>,
                                              MetalConvolve(<<"conv_in">>, pixels, 1)),
                       !.phase = "first", !.level = 1]
    /\ UNCHANGED <<encoder, posterior>>

MetalFirst ==
    /\ InPhase("metal", "first")
    /\ LET l == encode.level
           normed == GroupNormSilu(<<l, "norm1">>, encode.hidden)
       IN encode' = [encode EXCEPT
                       !.inner = SettledRows(<<l, "conv1">>,
                                             MetalConvolve(<<l, "conv1">>, normed, 1)),
                       !.phase = "second"]
    /\ UNCHANGED <<encoder, posterior>>

MetalSecond ==
    /\ InPhase("metal", "second")
    /\ LET l == encode.level
           x == encode.hidden
           second == MetalConvolve(<<l, "conv2">>, GroupNormSilu(<<l, "norm2">>, encode.inner), 1)
           residual == IF l \in encoder.shortcuts
                       THEN [r \in DOMAIN x |-> Linear(<<l, "nin_shortcut">>, x[r])] ELSE x
           rows == [r \in DOMAIN x |-> Add(residual[r], second[r], "one")]
       IN encode' = [encode EXCEPT
                       !.hidden = SettledRows(<<l, "block">>, rows), !.inner = None,
                       !.phase = IF l < LastLevel THEN "downsample" ELSE "output"]
    /\ UNCHANGED <<encoder, posterior>>

MetalDownsample ==
    /\ InPhase("metal", "downsample")
    /\ LET l == encode.level
           conv == <<l, "downsample">>
       IN encode' = [encode EXCEPT
                       !.hidden = SettledRows(conv, MetalConvolve(conv, @, TimeStrides[l])),
                       !.phase = "first", !.level = l + 1]
    /\ UNCHANGED <<encoder, posterior>>

MetalOutput ==
    /\ InPhase("metal", "output")
    /\ LET conv == <<"conv_out">>
           normed == GroupNormSilu(<<"norm_out">>, encode.hidden)
           output == SettledRows(conv, MetalConvolve(conv, normed, 1))
           moments == SettledRows(<<"quant">>,
                                  [r \in DOMAIN output |-> Linear(<<"quant">>, output[r])])
           frames == FramesOf(moments)
           tile(i) == [f \in 0..frames - 1 |-> moments[(i - 1) * frames + f]]
           next == encode.tile + Part
       IN /\ frames = Tokens
          /\ encode' = [encode EXCEPT
                          !.hidden = None,
                          !.tiles = @ \o [i \in 1..Part |-> tile(i)],
                          !.tile = IF next > Len(encode.order) THEN 1 ELSE next,
                          !.phase = IF next > Len(encode.order) THEN "blend" ELSE "input"]
    /\ UNCHANGED <<encoder, posterior>>

(***************************************************************************)
(* The tokens of a clip, each blended from its tiles.                      *)
(***************************************************************************)
BlendClip ==
    /\ encode # None /\ encode.phase = "blend"
    /\ LET grid == encode.grid
           index(tile) == (tile[1] - 1) * Len(grid.columns.starts) + tile[2]
           at(token) == [tile \in Tiles(grid) |-> encode.tiles[index(tile)][token]]
           first == encode.clip * encode.whole
           moments == [token \in first..first + Tokens - 1 |->
                          BlendEncodedTiles(grid, at(token - first), Cells(Input))]
                      @@ encode.moments
       IN /\ encode' = IF IsLastClip THEN None
                       ELSE [encode EXCEPT !.clip = @ + 1, !.tiles = <<>>, !.moments = moments,
                                           !.phase = "input"]
          /\ posterior' = IF IsLastClip THEN [input |-> Input, moments |-> moments] ELSE posterior
    /\ UNCHANGED encoder

Next ==
    \/ Begin \/ Fail \/ BlendClip
    \/ CudaInput \/ CudaFirst \/ CudaResidual \/ CudaSecond \/ CudaDownsample \/ CudaOutput
    \/ MetalInput \/ MetalFirst \/ MetalSecond \/ MetalDownsample \/ MetalOutput
=============================================================================
