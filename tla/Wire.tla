-------------------------------- MODULE Wire --------------------------------
(***************************************************************************)
(* What the messages of a run say (src/crates/mmh3-core/src/worker.rs): a  *)
(* body is bytes, which its sender writes field by field in an order of    *)
(* its own and its receiver cuts as it reads.  Reading past the end fails, *)
(* and bytes cut otherwise than they were written are Torn: they are read, *)
(* and say something else.                                                 *)
(*                                                                         *)
(* A body is read whole or refused, so headers are left out.  A latent's   *)
(* shape is its frames and its patches a frame.                            *)
(***************************************************************************)
EXTENDS Integers, SequencesExt

Bytes == [u8 |-> 1, u32 |-> 4, u64 |-> 8, f32 |-> 4, f64 |-> 8, address |-> 26]

Field(bytes, value) == [bytes |-> bytes, value |-> value]

U8(value) == Field(Bytes["u8"], value)

U32(value) == Field(Bytes["u32"], value)

U64(value) == Field(Bytes["u64"], value)

F32(value) == Field(Bytes["f32"], value)

F64(value) == Field(Bytes["f64"], value)

Address(value) == Field(Bytes["address"], value)

\* One name is as long as another.
NameBytes == 6

String(value) == <<U32(NameBytes), Field(NameBytes, value)>>

\* A number no other field of a model holds.
Torn == 99

\* A list: its length, and the fields of each item.
Listed(length, items, fields(_)) ==
    <<length>> \o FlattenSeq([i \in DOMAIN items |-> fields(items[i])])

Floats(values) == [i \in DOMAIN values |-> F32(values[i])]

Shapes(shape) == [i \in DOMAIN shape |-> U32(shape[i])]

(***************************************************************************)
(* Reading.                                                                *)
(***************************************************************************)
Length(body) == FoldLeft(LAMBDA bytes, field : bytes + field.bytes, 0, body)

\* The first so many bytes of a body, and what follows them.
RECURSIVE Upto(_, _), Beyond(_, _)
Upto(body, bytes) ==
    IF body = <<>> \/ bytes = 0 THEN <<>>
    ELSE IF Head(body).bytes <= bytes
    THEN <<Head(body)>> \o Upto(Tail(body), bytes - Head(body).bytes)
    ELSE <<Field(bytes, Torn)>>

Beyond(body, bytes) ==
    IF body = <<>> \/ bytes = 0 THEN body
    ELSE IF Head(body).bytes <= bytes THEN Beyond(Tail(body), bytes - Head(body).bytes)
    ELSE <<Field(Head(body).bytes - bytes, Torn)>> \o Tail(body)

\* What the bytes of a body say as values of so many bytes each.
Values(body, bytes) ==
    IF \A i \in DOMAIN body : body[i].bytes = bytes THEN [i \in DOMAIN body |-> body[i].value]
    ELSE [i \in 1 .. Length(body) \div bytes |-> <<"torn", 0>>]

Decoder(body) == [rest |-> body, read |-> <<>>, ok |-> TRUE]

Fits(decoder, bytes) == decoder.ok /\ bytes <= Length(decoder.rest)

Taken(decoder, bytes) ==
    [decoder EXCEPT
       !.rest = Beyond(@, bytes),
       !.read = Append(@, IF Head(decoder.rest).bytes = bytes THEN Head(decoder.rest).value
                          ELSE Torn)]

Short(decoder) == [decoder EXCEPT !.ok = FALSE, !.read = Append(@, 0)]

ReadBytes(decoder, bytes) == IF Fits(decoder, bytes) THEN Taken(decoder, bytes) ELSE Short(decoder)

\* Bytes that are not those of one name are no text.
ReadName(counted, read) ==
    LET decoder == [counted EXCEPT !.read = read]
    IN IF counted.ok /\ counted.rest # <<>> /\ Head(counted.rest).bytes = Last(counted.read)
       THEN Taken(decoder, Last(counted.read)) ELSE Short(decoder)

Read(decoder, width) ==
    IF width = "string" THEN ReadName(ReadBytes(decoder, Bytes["u32"]), decoder.read)
    ELSE ReadBytes(decoder, Bytes[width])

ReadAll(decoder, widths) == FoldLeft(Read, decoder, widths)

\* A field an older build did not send.
ReadOr(decoder, width, default) ==
    IF Fits(decoder, Bytes[width]) THEN Taken(decoder, Bytes[width])
    ELSE [decoder EXCEPT !.read = Append(@, default)]

\* What is read in one go counts as one field after those before.
After(read, decoder) == [decoder EXCEPT !.read = Append(read, @)]

ReadItem(decoder, widths) == After(decoder.read, ReadAll([decoder EXCEPT !.read = <<>>], widths))

\* Each item is the sequence of its fields.
ReadItems(decoder, count, widths) ==
    After(decoder.read,
          FoldLeft(ReadItem, [decoder EXCEPT !.read = <<>>], [i \in 1..count |-> widths]))

ReadCounted(counted, read, widths, most) ==
    ReadItems([counted EXCEPT !.read = read],
              IF counted.ok THEN Min({Last(counted.read), most}) ELSE 0, widths)

\* A list of at most so many items, in the place of its length; one that ends early fails.
ReadAtMost(decoder, length, widths, most) ==
    ReadCounted(Read(decoder, length), decoder.read, widths, most)

\* An item has a byte at least, so one more than there are bytes is past the end.
ReadList(decoder, widths) == ReadAtMost(decoder, "u32", widths, Length(decoder.rest) + 1)

Decoded(decoder, Of(_)) ==
    [ok |-> decoder.ok, value |-> Of(decoder.read), rest |-> decoder.rest]

\* The first field of each item.
Firsts(items) == [i \in DOMAIN items |-> items[i][1]]

(***************************************************************************)
(* The handshake.                                                          *)
(***************************************************************************)
RdmaPaths == 4

AtMostPaths(paths) == SubSeq(paths, 1, Min({Len(paths), RdmaPaths}))

\* One address a path; none is no RoCE.
EncodeRdma(addresses) ==
    LET paths == AtMostPaths(addresses)
    IN Listed(U8(Len(paths)), paths, LAMBDA address : <<Address(address)>>)

ReadRdma(decoder) == ReadAtMost(decoder, "u8", <<"address">>, RdmaPaths)

Checkpoint(role, digest) == [role |-> role, digest |-> digest]

EncodeCheckpoint(checkpoint) == String(checkpoint.role) \o <<U64(checkpoint.digest)>>

CheckpointWidths == <<"string", "u64">>

EncodeHello(hello) ==
    String(hello.leader) \o String(hello.token) \o EncodeRdma(hello.rdma)
    \o <<U32(hello.protocol), U8(IF hello.consistent THEN 1 ELSE 0), U32(hello.device)>>

DecodeHello(body) ==
    Decoded(ReadOr(ReadOr(ReadOr(ReadRdma(ReadAll(Decoder(body), <<"string", "string">>)),
                                 "u32", 0), "u8", 0), "u32", 0),
            LAMBDA r : [leader |-> r[1], token |-> r[2], rdma |-> Firsts(r[3]),
                        protocol |-> r[4], consistent |-> r[5] # 0, device |-> r[6]])

\* A speed is there or not: a list of at most one.
EncodeWelcome(welcome) ==
    <<U8(welcome.backend)>> \o String(welcome.device)
    \o <<U64(welcome.memory), U32(welcome.capabilities), U32(welcome.transports)>>
    \o Listed(U8(Len(welcome.speed)), welcome.speed,
              LAMBDA speed : <<F32(speed.gemm), F32(speed.bandwidth), F32(speed.attention)>>)
    \o Listed(U32(Len(welcome.checkpoints)), welcome.checkpoints, EncodeCheckpoint)
    \o EncodeRdma(welcome.rdma)
    \o <<U32(welcome.protocol), U32(welcome.devices), U32(welcome.card), U64(welcome.process)>>

\* What builds of other protocols leave out.
ReadSlot(decoder) ==
    ReadOr(ReadOr(ReadOr(ReadOr(decoder, "u32", 0), "u32", 1), "u32", 0), "u64", 0)

DecodeWelcome(body) ==
    Decoded(ReadSlot(ReadRdma(ReadList(
                ReadAtMost(ReadAll(Decoder(body), <<"u8", "string", "u64", "u32", "u32">>),
                           "u8", <<"f32", "f32", "f32">>, 1),
                CheckpointWidths))),
            LAMBDA r :
                [backend |-> r[1], device |-> r[2], memory |-> r[3], capabilities |-> r[4],
                 transports |-> r[5],
                 speed |-> [i \in DOMAIN r[6] |->
                              [gemm |-> r[6][i][1], bandwidth |-> r[6][i][2],
                               attention |-> r[6][i][3]]],
                 checkpoints |-> [i \in DOMAIN r[7] |-> Checkpoint(r[7][i][1], r[7][i][2])],
                 rdma |-> Firsts(r[8]), protocol |-> r[9], devices |-> Max({1, r[10]}),
                 card |-> r[11], process |-> r[12]])

(***************************************************************************)
(* The prompt and the decodes.                                             *)
(***************************************************************************)
EncodeText(request) ==
    EncodeCheckpoint(request.checkpoint)
    \o Listed(U32(Len(request.ids)), request.ids, LAMBDA id : <<U32(id)>>)

DecodeText(body) ==
    Decoded(ReadList(ReadAll(Decoder(body), CheckpointWidths), <<"u32">>),
            LAMBDA r : [checkpoint |-> Checkpoint(r[1], r[2]), ids |-> Firsts(r[3])])

EncodeTextStates(states) == <<U64(states.tokens), U64(states.hidden)>>

DecodeTextStates(body) ==
    Decoded(ReadAll(Decoder(body), <<"u64", "u64">>),
            LAMBDA r : [tokens |-> r[1], hidden |-> r[2]])

EncodeDecodeVideo(request) ==
    EncodeCheckpoint(request.checkpoint)
    \o <<U32(request.chunk), U32(request.tileSize), U32(request.tileOverlap)>>
    \o Shapes(request.shape) \o <<U8(IF request.handOver THEN 1 ELSE 0)>>

DecodeDecodeVideo(body) ==
    Decoded(ReadAll(Decoder(body),
                    CheckpointWidths \o <<"u32", "u32", "u32", "u32", "u32", "u8">>),
            LAMBDA r : [checkpoint |-> Checkpoint(r[1], r[2]), chunk |-> r[3], tileSize |-> r[4],
                        tileOverlap |-> r[5], shape |-> <<r[6], r[7]>>, handOver |-> r[8] # 0])

EncodeFrames(frames) == <<U32(frames.frames), U32(frames.patches)>>

DecodeFrames(body) ==
    Decoded(ReadAll(Decoder(body), <<"u32", "u32">>),
            LAMBDA r : [frames |-> r[1], patches |-> r[2]])

EncodeDecodeAudio(request) == EncodeCheckpoint(request.checkpoint) \o Shapes(request.shape)

DecodeDecodeAudio(body) ==
    Decoded(ReadAll(Decoder(body), CheckpointWidths \o <<"u32", "u32">>),
            LAMBDA r : [checkpoint |-> Checkpoint(r[1], r[2]), shape |-> <<r[3], r[4]>>])

EncodeSamples(shape) == <<U32(Len(shape))>> \o Shapes(shape)

DecodeSamples(body) ==
    Decoded(ReadList(Decoder(body), <<"u32">>), LAMBDA r : Firsts(r[1]))

(***************************************************************************)
(* A shared step.  The cuts follow the adapters, and the context, its      *)
(* modalities and the latents of the conditions follow the descriptor.     *)
(***************************************************************************)
EncodeSession(open) ==
    EncodeCheckpoint(open.checkpoint) \o <<U32(open.ranks), U32(open.rank)>>
    \o Shapes(open.video) \o Shapes(open.audio) \o Shapes(open.context)
    \o <<F32(open.shiftVideo), F32(open.shiftAudio), U32(open.steps), U8(open.sparse.method),
         F32(open.sparse.tau), F64(open.sparse.sparsity), F32(open.sparse.start),
         U32(open.sparse.min), U8(open.precision)>>
    \o Listed(U32(Len(open.conditions)), open.conditions, LAMBDA condition :
              <<U8(condition.kind), U32(condition.frame)>>
              \o Shapes(condition.video) \o Shapes(condition.audio))
    \o Listed(U32(Len(open.adapters)), open.adapters, LAMBDA adapter :
              <<U64(adapter.digest), F32(adapter.strength), U8(adapter.mode)>>)
    \o Listed(U32(Len(open.shard)), open.shard, LAMBDA span :
              Shapes(span.tokens) \o Shapes(span.heads))
    \o <<U64(open.run)>>
    \o Listed(U32(Len(open.processes)), open.processes, LAMBDA process : <<U64(process)>>)

SessionWidths ==
    CheckpointWidths \o <<"u32", "u32", "u32", "u32", "u32", "u32", "u32", "u32", "f32", "f32",
                          "u32", "u8", "f32", "f64", "f32", "u32", "u8">>

ReadLists(decoder) ==
    ReadList(ReadList(ReadList(decoder, <<"u8", "u32", "u32", "u32", "u32", "u32">>),
                      <<"u64", "f32", "u8">>),
             <<"u32", "u32", "u32", "u32">>)

DecodeSession(body) ==
    Decoded(ReadList(Read(ReadLists(ReadAll(Decoder(body), SessionWidths)), "u64"), <<"u64">>),
        LAMBDA r :
        [checkpoint |-> Checkpoint(r[1], r[2]), ranks |-> r[3], rank |-> r[4],
         video |-> <<r[5], r[6]>>, audio |-> <<r[7], r[8]>>, context |-> <<r[9], r[10]>>,
         shiftVideo |-> r[11], shiftAudio |-> r[12], steps |-> r[13],
         sparse |-> [method |-> r[14], tau |-> r[15], sparsity |-> r[16], start |-> r[17],
                     min |-> r[18]],
         precision |-> r[19],
         conditions |-> [i \in DOMAIN r[20] |->
             [kind |-> r[20][i][1], frame |-> r[20][i][2],
              video |-> <<r[20][i][3], r[20][i][4]>>, audio |-> <<r[20][i][5], r[20][i][6]>>]],
         adapters |-> [i \in DOMAIN r[21] |->
             [digest |-> r[21][i][1], strength |-> r[21][i][2], mode |-> r[21][i][3]]],
         shard |-> [i \in DOMAIN r[22] |->
             [tokens |-> <<r[22][i][1], r[22][i][2]>>, heads |-> <<r[22][i][3], r[22][i][4]>>]],
         run |-> r[23], processes |-> Firsts(r[24])])

EncodeStep(step) == <<U32(step.step), F32(step.sigma)>>

DecodeStep(body) ==
    Decoded(ReadAll(Decoder(body), <<"u32", "f32">>),
            LAMBDA r : [step |-> r[1], sigma |-> r[2]])

EncodeVelocity(part) ==
    <<U32(part.first), U32(part.last), U64(part.video), U64(part.audio)>>

DecodeVelocity(body) ==
    Decoded(ReadAll(Decoder(body), <<"u32", "u32", "u64", "u64">>),
            LAMBDA r : [first |-> r[1], last |-> r[2], video |-> r[3], audio |-> r[4]])
=============================================================================
