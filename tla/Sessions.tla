------------------------------ MODULE Sessions ------------------------------
(***************************************************************************)
(* What the leader of a shared run tells its ranks, and what they make of  *)
(* it: how a session names the DiT, its adapters, its attention, the cuts  *)
(* and the conditions, what follows it, the message of a step and the      *)
(* answer (src/src/worker.rs, src/src/generation.rs).                      *)
(*                                                                         *)
(* A tensor is a term, and travels as so many values: the i-th of a term   *)
(* is <<term, i>>.                                                         *)
(***************************************************************************)
EXTENDS Conditions, Shares, Wire

Numbered(term, count) == [i \in 1..count |-> <<term, i>>]

\* What values are the values of: a term when they are all of one and in their places.
Made(values) ==
    IF values # <<>> /\ \A i \in DOMAIN values : values[i] = <<values[1][1], i>>
    THEN values[1][1] ELSE values

MadeOf(body) == Made(Values(body, Bytes["f32"]))

Extent(shape) == shape[1] * shape[2]

FloatBytes(count) == count * Bytes["f32"]

(***************************************************************************)
(* Sparse attention: by its schedule, so that every rank chooses alike on  *)
(* every step.                                                             *)
(***************************************************************************)
Dense == [method |-> "dense", level |-> 0, start |-> 0, min |-> 0]

SparseSettings(sparse) ==
    [method |-> CASE sparse.method = "dense" -> 0
                  [] sparse.method = "sol" -> 1
                  [] sparse.method = "vsa" -> 2,
     tau |-> IF sparse.method = "sol" THEN sparse.level ELSE 0,
     sparsity |-> IF sparse.method = "vsa" THEN sparse.level ELSE 0,
     start |-> sparse.start, min |-> sparse.min]

SparseOf(settings) ==
    LET sparse(method, level) ==
            [method |-> method, level |-> level, start |-> settings.start, min |-> settings.min]
    IN CASE settings.method = 1 -> sparse("sol", settings.tau)
         [] settings.method = 2 -> sparse("vsa", settings.sparsity)
         [] OTHER -> Dense

(***************************************************************************)
(* The DiT: its file, what was added to it in order, and how it attends.   *)
(***************************************************************************)
Adapter(digest, strength, mode) == [digest |-> digest, strength |-> strength, mode |-> mode]

KeptBeside == 0

Merged == 1

ModelOf(file, adapters, precision) ==
    [file |-> file, adapters |-> adapters, precision |-> precision]

\* A patch at full strength and beside the weights, before the LoRA.
SessionAdapters(patch, lora, strength, mode) ==
    (IF patch THEN <<Adapter("patch", 1, KeptBeside)>> ELSE <<>>)
    \o (IF lora THEN <<Adapter("lora", strength, IF mode = "merge" THEN Merged ELSE KeptBeside)>>
               ELSE <<>>)

DitKey(open) == ModelOf(open.checkpoint.digest, open.adapters, open.precision)

\* What a backend can not do it refuses when the session opens.
Refuses(backend, open) ==
    /\ backend = "metal"
    /\ \/ open.precision = 1
       \/ SparseOf(open.sparse) # Dense
       \/ \E i \in DOMAIN open.adapters : open.adapters[i].mode = Merged

(***************************************************************************)
(* The conditions: each by its kind and the shapes of its latents, zeroes  *)
(* for one it does not have, and the latents one after another.            *)
(***************************************************************************)
Shape(latent) == <<latent.frames, latent.patches>>

Kinds == <<"keyframe", "picture", "clip", "sound">>

SessionConditions(conditions) ==
    [i \in DOMAIN conditions |->
        [kind |-> (CHOOSE k \in DOMAIN Kinds : Kinds[k] = conditions[i].kind) - 1,
         frame |-> conditions[i].frame,
         video |-> Shape(conditions[i].video), audio |-> Shape(conditions[i].audio)]]

ModalityByte == [video |-> 0, text |-> 1, audio |-> 2]

ModalityOf(byte) == CASE byte = 1 -> "text" [] byte = 2 -> "audio" [] OTHER -> "video"

\* The context, a byte for each of its tokens, and the conditions' latents, video before audio.
SessionPayload(context, tokens, modalities, conditions) ==
    LET latents == FlattenSeq([i \in DOMAIN conditions |->
                                 <<conditions[i].video, conditions[i].audio>>])
        byte(t) == IF t \in DOMAIN modalities THEN ModalityByte[modalities[t]] ELSE 1
    IN Floats(Numbered(context, tokens)) \o [t \in 1..tokens |-> U8(byte(t))]
       \o FlattenSeq([i \in DOMAIN latents |->
                        Floats(Numbered(latents[i].value, Extent(Shape(latents[i]))))])

\* A shape with a zero takes nothing of the payload.
TakeLatent(state, shape) ==
    IF Extent(shape) = 0 THEN [state EXCEPT !.taken = NoLatent]
    ELSE IF Length(state.rest) < FloatBytes(Extent(shape))
    THEN [state EXCEPT !.ok = FALSE, !.taken = NoLatent]
    ELSE [state EXCEPT
            !.taken = Latent(MadeOf(Upto(state.rest, FloatBytes(Extent(shape)))),
                             shape[1], shape[2]),
            !.rest = Beyond(@, FloatBytes(Extent(shape)))]

\* A picture or a clip with no video, a sound with none and a kind of no name are refused.
Missing(kind, video, audio) ==
    \/ kind \in {1, 2} /\ video = NoLatent
    \/ kind = 3 /\ audio = NoLatent
    \/ kind + 1 \notin DOMAIN Kinds

WithCondition(condition, video, state) ==
    IF Missing(condition.kind, video, state.taken) THEN [state EXCEPT !.ok = FALSE]
    ELSE [state EXCEPT
            !.read = Append(@, Condition(Kinds[condition.kind + 1], condition.frame, video,
                                         state.taken))]

TakeAudio(condition, state) ==
    WithCondition(condition, state.taken, TakeLatent(state, condition.audio))

ReadCondition(state, condition) == TakeAudio(condition, TakeLatent(state, condition.video))

ReadConditions(named, payload) ==
    FoldLeft(ReadCondition,
             [taken |-> NoLatent, rest |-> payload, read |-> <<>>, ok |-> TRUE], named)

(***************************************************************************)
(* A rank: what it reads of a session, or its refusal.                     *)
(***************************************************************************)
RankLayout(rank) ==
    Layout(Len(rank.modalities), rank.conditions,
           Latent("video", rank.video[1], rank.video[2]),
           Latent("audio", rank.audio[1], rank.audio[2]))

Spans(shard, of(_)) == [i \in DOMAIN shard |-> Share(of(shard[i])[1], of(shard[i])[2])]

RankOf(open, payload, values, tokens, conditions) ==
    LET enough == Length(payload) >= FloatBytes(values) + tokens
        bytes == Values(Upto(Beyond(payload, FloatBytes(values)), tokens), Bytes["u8"])
    IN [ok |-> enough /\ conditions.ok, rank |-> open.rank + 1, steps |-> open.steps,
        video |-> open.video, audio |-> open.audio, sparse |-> SparseOf(open.sparse),
        context |-> MadeOf(Upto(payload, FloatBytes(values))),
        modalities |-> [t \in 1..tokens |->
                          IF enough THEN ModalityOf(bytes[t]) ELSE "video"],
        conditions |-> conditions.read, dit |-> DitKey(open),
        shifts |-> <<open.shiftVideo, open.shiftAudio>>,
        tokens |-> Spans(open.shard, LAMBDA span : span.tokens),
        heads |-> Spans(open.shard, LAMBDA span : span.heads)]

\* An empty table of cuts is an even share of both.
Cuts(rank, ranks, tokens, heads) ==
    IF rank.tokens = <<>>
    THEN [rank EXCEPT !.tokens = Even(ranks, tokens), !.heads = Even(ranks, heads)]
    ELSE [rank EXCEPT !.ok = @ /\ Accepts(rank.tokens, ranks, tokens)
                               /\ Accepts(rank.heads, ranks, heads)]

RankOpens(open, rank, heads) ==
    IF ~rank.ok \/ Refuses(rank.backend, open) THEN [rank EXCEPT !.ok = FALSE]
    ELSE Cuts(rank, open.ranks, Tokens(RankLayout(rank)), heads)

ReadPayload(open, payload, values, tokens) ==
    RankOf(open, payload, values, tokens,
           ReadConditions(open.conditions, Beyond(payload, FloatBytes(values) + tokens)))

Serves(opened, backend, heads) ==
    IF ~opened.ok THEN [ok |-> FALSE]
    ELSE RankOpens(opened.value,
                   ReadPayload(opened.value, opened.rest, Extent(opened.value.context),
                               opened.value.context[1]) @@ [backend |-> backend],
                   heads)

ReadSession(body, backend, heads) == Serves(DecodeSession(body), backend, heads)

(***************************************************************************)
(* A step: the latents, video before audio, and a rank's rows of the two   *)
(* velocities in the same order.                                           *)
(***************************************************************************)
StepMessage(step, sigma, video, audio) ==
    EncodeStep([step |-> step, sigma |-> sigma]) \o Floats(video \o audio)

StepOf(d, split, audio) ==
    LET values == Values(d.rest, Bytes["f32"])
    IN [ok |-> d.ok /\ Length(d.rest) = FloatBytes(split + audio), step |-> d.value.step,
        sigma |-> d.value.sigma, video |-> Made(SubSeq(values, 1, split)),
        audio |-> Made(SubSeq(values, split + 1, Len(values)))]

ReadStep(rank, body) ==
    StepOf(DecodeStep(body), Extent(rank.video), Extent(rank.audio))

VelocityMessage(share, video, audio) ==
    EncodeVelocity([first |-> share.start, last |-> share.end, video |-> Len(video),
                    audio |-> Len(audio)])
    \o Floats(video \o audio)

VelocityOf(d) ==
    LET values == Values(d.rest, Bytes["f32"])
    IN [ok |-> d.ok /\ Length(d.rest) = FloatBytes(d.value.video + d.value.audio),
        share |-> Share(d.value.first, d.value.last),
        video |-> SubSeq(values, 1, d.value.video),
        audio |-> SubSeq(values, d.value.video + 1, Len(values))]

ReadVelocity(body) == VelocityOf(DecodeVelocity(body))
=============================================================================
