---------------------------- MODULE PromptLayout ----------------------------
(***************************************************************************)
(* A prompt with its references: which pictures the vision tower embeds,   *)
(* which tokens the text encoder reads and where they sit                  *)
(* (src/crates/mmh3-core/src/vision.rs, src/src/video.rs,                  *)
(* src/src/generation.rs).                                                 *)
(*                                                                         *)
(* A label is one token.  A grid is counted in merged embeddings: rows and *)
(* columns of 2 x 2 patches.                                               *)
(***************************************************************************)
EXTENDS Terms, SequencesExt, FiniteSetsExt, Functions

Fps == 24

\* The frames of a clip that the text encoder sees, at two a second, the last twice when their
\* count is odd.
BlockFrames(frames) ==
    LET count == (frames + Fps \div 2 - 1) \div (Fps \div 2)
        sampled == [i \in 1..count |-> (i - 1) * (Fps \div 2)]
    IN IF count % 2 = 0 THEN sampled ELSE Append(sampled, sampled[count])

\* The time of each pair of them, in quarters of a second.
BlockSeconds(frames) ==
    LET count == (frames + Fps \div 2 - 1) \div (Fps \div 2)
    IN [p \in 1..((count + 1) \div 2) |->
          IF 2 * p <= count THEN (2 * p - 2) + (2 * p - 1) ELSE 2 * (2 * p - 2)]

Grid(thing) == [rows |-> thing.rows, columns |-> thing.columns]

(***************************************************************************)
(* What the prompt introduces, and what the tower embeds, one after        *)
(* another.                                                                *)
(***************************************************************************)
PromptReferences(settings) ==
    [i \in 1..Len(settings.pictures) |-> [kind |-> "Picture", grid |-> settings.pictures[i]]]
    \o FlattenSeq([i \in 1..Len(settings.clips) |->
           (IF settings.clips[i].sound THEN <<[kind |-> "Sound"]>> ELSE <<>>)
           \o <<[kind |-> "Clip", grid |-> Grid(settings.clips[i]),
                 timestamps |-> BlockSeconds(settings.clips[i].frames)]>>])
    \o [i \in 1..settings.sounds |-> [kind |-> "Sound"]]

\* Each a picture, which takes both slots of its patches, or a pair of a clip's frames.
VisionBlocks(settings) ==
    [i \in 1..Len(settings.pictures) |->
        [first |-> <<"picture", i>>, second |-> <<"picture", i>>, grid |-> settings.pictures[i]]]
    \o FlattenSeq([i \in 1..Len(settings.clips) |->
           LET frames == BlockFrames(settings.clips[i].frames)
           IN [p \in 1..(Len(frames) \div 2) |->
                 [first |-> <<"clip", i, frames[2 * p - 1]>>,
                  second |-> <<"clip", i, frames[2 * p]>>,
                  grid |-> Grid(settings.clips[i])]]])

\* Rows and columns of the patches in the tower's order: 2 x 2 of them after 2 x 2 of them.
PatchOrder(grid) ==
    [n \in 1..(4 * grid.rows * grid.columns) |->
        LET block == (n - 1) \div 4
            within == (n - 1) % 4
        IN <<2 * (block \div grid.columns) + within \div 2,
             2 * (block % grid.columns) + (within % 2)>>]

(***************************************************************************)
(* The prompt, built token by token.                                       *)
(***************************************************************************)
PushText(prompt, id, modality) ==
    [prompt EXCEPT !.ids = Append(@, id), !.modalities = Append(@, modality),
                   !.positions = Append(@, <<prompt.next, prompt.next, prompt.next>>),
                   !.next = @ + 1]

\* A vision block, its embeddings' places taken by pad tokens.
PushBlock(prompt, grid) ==
    LET opened == PushText(prompt, <<"vision start">>, "video")
        count == grid.rows * grid.columns
        places == [n \in 1..count |->
                     <<opened.next, opened.next + (n - 1) \div grid.columns,
                       opened.next + ((n - 1) % grid.columns)>>]
        filled == [opened EXCEPT
                     !.picture_starts = Append(@, Len(opened.ids) + 1),
                     !.ids = @ \o [n \in 1..count |-> <<"pad">>],
                     !.modalities = @ \o [n \in 1..count |-> "video"],
                     !.positions = @ \o places,
                     !.next = @ + Max({grid.rows, grid.columns})]
    IN PushText(filled, <<"vision end">>, "video")

PushTimed(prompt, grid, seconds) ==
    PushBlock(PushText(prompt, <<"seconds", seconds>>, "text"), grid)

PushReference(prompt, reference) ==
    LET number == prompt.numbers[reference.kind] + 1
        labelled == [PushText(prompt, <<reference.kind, number>>, "text")
                        EXCEPT !.numbers[reference.kind] = number]
    IN CASE reference.kind = "Picture" -> PushBlock(labelled, reference.grid)
         [] reference.kind = "Sound" -> labelled
         [] OTHER -> FoldLeft(LAMBDA p, seconds : PushTimed(p, reference.grid, seconds),
                              labelled, reference.timestamps)

VisionPrompt(settings) ==
    LET empty == [ids |-> <<>>, picture_starts |-> <<>>, modalities |-> <<>>, positions |-> <<>>,
                  next |-> 0, numbers |-> [kind \in {"Picture", "Sound", "Clip"} |-> 0]]
        introduced == FoldLeft(PushReference, empty, PromptReferences(settings))
    IN PushText(introduced, <<"text">>, "text")

(***************************************************************************)
(* What the prompt is to be, from what the pictures, clips and sounds are: *)
(* items that follow one another, a block as wide as its longer side.  A   *)
(* token is an id with a place, or a place of one of a block's patches.    *)
(***************************************************************************)
TextItem(id, modality) == [ids |-> <<id>>, modality |-> modality, grid |-> <<>>]

BlockItems(first, second, grid) ==
    <<TextItem(<<"vision start">>, "video"),
      [ids |-> [n \in 1..(grid.rows * grid.columns) |->
                  <<first, second, (n - 1) \div grid.columns, (n - 1) % grid.columns>>],
       modality |-> "video", grid |-> <<grid.rows, grid.columns>>],
      TextItem(<<"vision end">>, "video")>>

PictureItems(settings, i) ==
    <<TextItem(<<"Picture", i>>, "text")>>
    \o BlockItems(<<"picture", i>>, <<"picture", i>>, settings.pictures[i])

Soundtracks(settings, i) == Cardinality({j \in 1..i : settings.clips[j].sound})

\* A pair's time is the mean of its frames'.
ClipItems(settings, i) ==
    LET clip == settings.clips[i]
        shown == {f \in 0..(clip.frames - 1) : f % (Fps \div 2) = 0}
        latest == Max(shown)
        pairs == [p \in 1..((Cardinality(shown) + 1) \div 2) |->
                    LET first == (p - 1) * Fps
                        second == Min({first + Fps \div 2, latest})
                    IN <<TextItem(<<"seconds", ((first + second) * 2) \div Fps>>, "text")>>
                       \o BlockItems(<<"clip", i, first>>, <<"clip", i, second>>, Grid(clip))]
    IN (IF clip.sound THEN <<TextItem(<<"Sound", Soundtracks(settings, i)>>, "text")>> ELSE <<>>)
       \o <<TextItem(<<"Clip", i>>, "text")>> \o FlattenSeq(pairs)

Items(settings) ==
    FlattenSeq([i \in 1..Len(settings.pictures) |-> PictureItems(settings, i)])
    \o FlattenSeq([i \in 1..Len(settings.clips) |-> ClipItems(settings, i)])
    \o [i \in 1..settings.sounds |->
           TextItem(<<"Sound", Soundtracks(settings, Len(settings.clips)) + i>>, "text")]
    \o <<TextItem(<<"text">>, "text")>>

Span(item) == IF item.grid = <<>> THEN 1 ELSE Max({item.grid[1], item.grid[2]})

\* The tokens: what each is, where it sits, and whose branch of the DiT it takes.
Wanted(settings) ==
    LET items == Items(settings)
        spans == [j \in 1..Len(items) |-> Span(items[j])]
        at(i) == SumFunctionOnSet(spans, 1..(i - 1))
        place(i, n) == IF items[i].grid = <<>> THEN <<at(i), at(i), at(i)>>
                       ELSE <<at(i), at(i) + (n - 1) \div items[i].grid[2],
                              at(i) + ((n - 1) % items[i].grid[2])>>
    IN FlattenSeq([i \in 1..Len(items) |->
           [n \in 1..Len(items[i].ids) |->
              [what |-> items[i].ids[n], embedded |-> items[i].grid # <<>>,
               position |-> place(i, n), modality |-> items[i].modality]]])
=============================================================================
