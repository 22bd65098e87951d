# A TLA+ model of mmh3

mmh3 generates a video and its soundtrack with a diffusion transformer (DiT). One machine can do
it alone, and several can share every step: each holds some of the tokens and some of the heads,
and trades rows with the others inside every block. This directory models how the machines work
together and what each of their models computes in its buffers, checks both with TLC on small
instances, and proves what matters most for every instance with TLAPS.

## The system

| Component | Where | State it keeps | What it does |
| --- | --- | --- | --- |
| Leader | `src/src/generation.rs`, `generate.rs`, first half of `worker.rs` | the connections, the latents, the canvases that arrived | encodes the prompt on a worker, cuts the step into shares, opens the shared session, runs the steps, hands out the decode |
| Wire | `crates/mmh3-core/src/worker.rs` | none | a fixed header with kind, request and length, and typed bodies |
| Worker session | `worker.rs` `session` | what the peer was granted, the borrowed models, a pending canvas | one thread per connection: answers requests in the order they come |
| Rendezvous | `worker.rs` `Exchanger::open`, `Coordinator::open` | sockets and connections between the ranks of a run | every rank reaches every other and learns its memory, through the leader |
| Meeting | `worker.rs` `meet` | `MEETINGS`, the ranks that came | ranks of one process swap the addresses of their regions |
| Exchange | `worker.rs` `Exchanger`, `crates/mmh3-core/src/shard.rs` | `pending` writes, regions, sockets | carries the two exchanges of a block and their barriers |
| Sharded block | `crates/mmh3-cuda/src/dit.rs`, `crates/mmh3-metal/src/dit.rs` | the regions `Normalized`, `Scales`, `Inputs`, `Attended`, `Received` | publishes a rank's rows, attends its heads over everyone's, sends the outputs back |
| Shares | `crates/mmh3-core/src/shard.rs` | none | cuts tokens and heads, puts a step's parts together |
| DiT | `dit.rs` and `model.rs` of cuda and metal, `mmh3-cpu/src/dit.rs` | a workspace kept between calls, the text it refined, its adapters | a velocity of a latent, at a time, under a prompt |
| Video VAE, upscaler, audio VAE | `vae.rs`, `video_encoder.rs`, `latent_upscaler.rs`, `audio_*.rs` of cuda and metal | workspaces, pools of buffers | latents to frames and samples, and back |
| Prompt encoders | `text_encoder.rs`, `vision.rs` of cuda and metal | the layers on the device | the states of a prompt with its pictures, clips and sounds |
| Resident models | `src/src/resident.rs` | one table of models per device, and how many DiTs are lent | keeps, lends, and lets go of models when memory runs out |
| Streaming | `streaming.rs` of core, cuda and metal | which units stay on the device, the reader's regions | reads a model's weights on the way through it |
| Server | `src/src/server.rs` | the jobs, their queue, the watchers | takes generations over HTTP and runs them one at a time |
| RDMA | `crates/mmh3-rdma` | queue pairs, registered memory | writes a peer's memory |
| Outputs | `crates/mmh3-output*` | the muxer's samples | writes MP4 and WebM |
| Inputs | `crates/mmh3-input*` | none | reads pictures, sounds and clips |
| Kernels, tokenizer | the rest of core, cuda, metal, cpu | none | arithmetic and tables |

A leader opens one connection per card of a worker. On each it asks for what it needs (a prompt
encoded, chunks decoded, a session opened), one request at a time. A session of a shared run turns
the connection into a rank: the rank tells the leader where to reach it, the leader tells every
rank where the others are, they connect to each other, and from then on the leader sends inputs to
every rank and reads its part of the velocity, while the ranks meet at four barriers a block and
exchange rows either by writing each other's memory (RDMA, or a copy between cards of one process)
or over sockets at the barrier.

What is hard here: the ranks run on their own and block on each other; a kernel queued on a card
still reads memory that a peer may overwrite; a rank may fail at any point of a step; a request may
arrive for a device whose models are lent to a run; a client watches jobs that start, end and go
away meanwhile; a worker answers a hand-out nobody waits for any more. And on one device: a model
computes in buffers that hold what was there before, adds what one block owes in the next, takes
another way through for each kind of weight, and starts over when memory runs out.

## What each part has to keep

**Exchange (barrier).** State: for each rank how many barriers it left, the writes it queued for
each peer since (`pending`), the sockets. Operations: `write` queues, `barrier` trades what is
pending with every peer and then a `Ready` with every peer, in ascending order and with the lower
rank of a pair first. Correct when nobody leaves a barrier that somebody has not entered, every
write queued before it was read by the end of it, and a rank that fails takes the others out of
their waits.

**Sharded block.** State: the rows in the regions of each rank, the kernels and copies queued on
its card, the writes for the next barrier. Operations: launch, publish, send, fetch, attend,
return, collect. Correct when every kernel reads rows of its own block in every place it looks at,
whatever the peers and the card do meanwhile, when a block as a whole is the exchange of rows for
heads and back (Ulysses attention), and when each move takes the bytes of the rows it is to take.

**Rendezvous and meeting.** State: what the leader heard from each rank, the stage of each rank's
session, the connections and sockets between ranks, the callers at each listener, the gathering of
a process. Operations: open, relay the links, relay the table, meet, dial and accept, hand out a
step, collect its parts, close. Correct when the two ends of a pair agree on how they are connected,
nothing of a refused session is taken for the next one's, a process meets as a whole or not at all,
a refused or failed session lets every rank go, and the leader always comes to an end.

**Decode hand-out.** State: the chunks each thread was asked for, the requests and replies on each
connection, the canvas a session staged, the canvases left on a card. Operations: ask, answer, read
and release, take, start over. Correct when every frame is in its place once, a decode fails only
because something did, nothing handed over stays for good, and every thread and session ends.

**RDMA.** State: each end's links and keys, the pieces under way, the completions. Operations: open,
link, register, join, post, poll, give up, drop. Correct when a write that returned is in the peer's
memory whole, no completion of one call is counted for another, no card touches memory nobody holds,
and every call returns.

**Streamed weights.** State: which units stay, the regions that take the others in turn, what the
reader was asked for, what is queued on the device. Operations: settle what stays, begin a call,
ask for a unit, enter it, launch its kernels, leave it, end, and give a unit up. Correct when no
kernel reads a unit's weights before they are there or after the next unit's came, and when what is
marked as held is held.

**Server.** State: the table of jobs, their directories, the queue to the generating thread,
`PROGRESS`, the streams of events. Operations: accept, refuse, watch, take away, and the thread's
take, start, step, end. Correct when a job's files stay as long as it runs, nothing stays of what
the table forgot, a job that says it is done has a video, and a watcher hears how its job ended.

**Resident models.** State: for each device a table of models in the order of use, under a lock, and
how many DiTs are lent out of it; the devices that wait for another's table. Operations: read a
model, letting go of others where there is no room; prepare a DiT, copied from another device where
one has it; lend it to a session and put it back; make room for work; let go of everything after a
failure or a quiet while. Correct when the lent are counted whatever becomes of a session, a kept
DiT has taken the adapters it is kept under, and nobody waits for a table or a DiT for good.

**Models of a generation.** State: the buffers of a call and what the calls before left in them.
Operations: the passes of a layer, as either backend puts them together. Correct when a call answers
with what the reference computes from its inputs and its weights, on either backend.

**A run.** State: which machines were reached, the session that is open, the latents. Operations:
reach, encode, draw noise, open a session or load the DiT, step, close, decode. Correct when the
latents are those the options say whoever took the steps, the leader reads a DiT to take steps of
its own and for nothing else, the shares of a step are the whole of it, and each reference has a
time of its own.

## The modules

`PROJECT.json` maps the definitions of each module to the lines they model. A small helper whose
lines the definition that uses it names already has no entry of its own.

| Module | Models | Composes |
| --- | --- | --- |
| `StepBarrier` | the barrier as the blocks count on it: `Exchange::barrier` of `shard.rs` | |
| `Exchanger` | `Exchanger::barrier` with `exchange_pending`, `send_pending`, `take_pending` | implements `StepBarrier` |
| `Ulysses` | a block as a whole: publish, attend, collect | |
| `ShardBlock` | the order of a block on CUDA and Metal ranks | uses `StepBarrier`, implements `Ulysses` |
| `SharedRows` | the bytes a block moves: regions, offsets, heads | extends `Shares` |
| `Rendezvous` | sessions of a run between the leader and its ranks, and `meet` | |
| `Handout` | the chunks of a decode over workers | |
| `Rdma` | payloads over queue pairs | |
| `Streaming`, `MetalStreaming` | weights read on the way, on CUDA and on Metal | composed in `MCStreaming` |
| `Resident`, `Server` | the models a process keeps; jobs over HTTP | composed in `MCServer` |
| `Terms` | the terms computations are written in | |
| `Dit`, `DitCuda`, `DitMetal` | the reference's DiT and the two backends' | `MCDit` has both backends |
| `VideoPlans`, `VideoDecoder`, `VideoEncoder` | the video VAE | extend `VideoPlans` |
| `Upscaler`, `Audio` | the latent upscaler, the audio VAE | |
| `PromptLayout`, `Prompt` | a prompt's tokens; its encoders | |
| `Shares`, `Conditions` | how a step is cut; what a run shows the DiT | |
| `Wire`, `Sessions`, `Workers` | bodies of messages; a session's; a worker's | extend one another |
| `Generation` | a run on its leader | extends `Workers` |
| `...Proofs` | theorems about the module before `Proofs`: `Exchanger`, `ShardBlock`, `Rendezvous`, `Handout`, `Rdma`, `Streaming`, `MetalStreaming`, and in `ServerProofs` about `Server` and `Resident`; those about `Shares` are in `ShardBlockProofs` | extends that module |
| `MC...` | the constants of the runs; `MCModels` has every model and a run in one instance | |

### Exchanger

A rank's thread is `stage` (`work` between barriers, `trade` in `exchange_pending`, `ready` in the
second loop of `barrier`), `peer` (where the loop stands) and `half` (which of the pair's two turns
it is at); `Speaks` is the `rank < peer` of the code. `owed` is `pending`, `chan` the sockets, which
hold `Capacity` messages before their writer blocks. A rank in `trade` skips a peer it has a
connection to (`over_socket`), sends its queue as writes of which the last says so (or one empty
write), and takes until it saw a last one. A failing share is `Fail`: the rank closes its sockets
and a peer gets an error at its next turn with it (`Broken`) once what was sent before is read.
Every message carries the barrier it was sent before as a ghost, which no guard reads.

`StepBarrier` is two counters per rank, entered and left, and one rule: nobody leaves the k-th
barrier before everyone entered it. `Exchanger` maps to it with `left <- round` and
`entered <- Entered`.

### ShardBlock and SharedRows

In `ShardBlock` memory is a slot per rank, region and owner of the rows in it, on the card or in
host memory; what a slot holds is the number of the block its rows belong to. `Program(r)` is what a
rank's thread does in a block, in order, read from `sharded_attention` of the CUDA or the Metal
crate: launches put kernels on the card's queue, and a kernel runs whenever the card comes to it.
The program has the waits for the card (`Drain`), the four barriers, and the ways the rows travel: a
copy between cards of one process on a stream of its own, a remote write, or a socket at the next
barrier. The barrier is `StepBarrier`, which `Exchanger` implements. A share that ran out of memory
before its step reached a peer runs again (`touched` decides), one that fails otherwise ends its
session.

`Ulysses` has no memory or streams: a rank publishes its rows of a block, attends once everyone
published, and collects once everyone attended. `ShardBlock` maps to it by what its slots hold.

`SharedRows` has what `ShardBlock` leaves out: the bytes. A region is as long as `regions` makes it;
`Owner` is `owner`, which works out from an offset whose rows lie there, and with it `Publish` and
`Receive` leave rows on the card that only ranks of the process read; `Write` goes from memory to
memory or from host to host. Every call checks its range (`Fits`). q, k and v of a token lie side by
side, each as wide as a rank's heads, and a projection writes its columns between them; a byte says
what it is part of, and attention mixes into a value that says so unless all it reads is in place.
Here a call is over before the next begins. Metal keeps its attention inputs in arrays of its own,
which the region `Inputs` stands for, and takes its own attended rows from the array.

### Rendezvous

The leader is `pc`, `phase`, `step` and the loop index `at`; a rank is `stage`; `toRank` and
`toLeader` are the two directions of each connection. `Coordinator::open` is the actions that open,
relay `SessionLinks`, relay `SessionReady` with the table; a refusal makes the leader close the
session and go on alone (`here`), a failure in a step ends its run. A rank goes from `ready`
through `links`, `table`, `meet` (ranks of its own process) and `dial` to `serving` and `sharing`.
`meeting` has a gathering for each process and session: who came, how many took the table, and whoever
gives up at the end of the minute takes himself out. Which ranks are of one process is `Local`, an
equivalence without its diagonal. Between ranks, `dial` goes to the higher ranks and `accept` takes calls of the lower ones in
whatever order they come. `phase` and `step` of a message are ghosts except where the wire has
them (`OpenSession`, `StepShard`).

### Handout

A thread per worker asks for the chunks of its share and sends what comes back down a channel; the
leader walks the chunks and takes each from where it was handed out to (`Take`, `Receive`), or
decodes it itself. A canvas comes over the socket (`DecodeSent`), out of a session's memory
(`DecodeStaged`, which waits for `Released`), or stays on a card of the process under an id
(`DecodeHere`, `handed`). A leader that runs out of memory walks again (`MakeRoom`), hands out the
chunks it took a second time, and the threads of the first hand-out go on with nobody listening.
Left out: the 10 s that `end_threads_here` waits at the exit, threads kept after it looked, ranges
of canvases of different sizes. The links of all workers that stage are joined or not together.
Metal never starts over, which is `Tries` = 0.

### Rdma

An end opens its ports in the order of their names, makes a queue pair on each, registers its memory
and joins the other's. A payload is cut at pages into a part per path, a part into pieces, and one
thread posts while there is depth and polls the completions, until the parts are through or the
patience is over. The cards carry pieces in the order of a queue pair, at any time, as long as both
ends hold what they reach. Reads on a link
have the depth of its own card's `max_qp_rd_atom`, writes one of their own (`ReadDepth`,
`WriteDepth`).

### Streaming and MetalStreaming

CUDA has four actors: the host thread, the reader, the default stream and the copy stream. Two
channels run between host and reader. An event is the place in its stream at which it was last
recorded, so that waiting for it is waiting until the stream is through to there. `region`, `pinned`
and `buffer` are what memory really holds, `holds`, `busy` and `kept` what the host believes.

Metal has three: the host that encodes batches, the reader that fills regions of host memory, and
the GPU that runs batches and lets go of what a batch reads some time after. A region is read into
again when nothing but the stream holds it. `Turns` are the regions units take turns in. A
stream has no more than `Regions` of them, and after a patch a new one has as many beside those that
batches still read, so that no more than `(Patches + 1) * Regions` are in use at once. Left out: a batch that fails on the GPU, the
pools' limits in bytes.

### Resident and Server

A client is a connection to a worker of the process, or a leader that works in the same process.
`holder` is the lock of each table and `kept` its models, the one used least first, which is what
`tick` and `used` order. A connection takes the table for a request and keeps it (`reading`,
`working`); a session has the DiT out of it (`mine`) between `Lend` and `Return`. A leader works
without the table and takes it in `TryLater` alone. `Prepare` to `NoCopy` are `copy_dit`, with the
connection holding one table and waiting for another. Memory is a number of units for each device:
whether a read, a copy or work fits is what is used then, so running out of memory is decided and
not chosen. `MakeRoom` is `make_room`: let go of one, wait for a lent DiT, or be refused. The minute
a request waits for a DiT and the two a copy waits for a table are `NotReturned` and `TooLong`,
which may come at any time. Adapters are the first so many of one list, so that a list begins
another when it is shorter. A decode stands for encoding and upscaling, whose models have the same
life.

In `Server`, `create` is the steps between which the lock is free: `Upload` (the directory), then
`Insert` (the table), then `Send` (the channel) or a refusal; taking a job away is `Forget` (the
table) and then `Remove` (the files). The thread is `Take`, `Start` (`starting()` forgets the
progress), `Step`, `Return`, `End` and `Panic`. `progress` remembers as a ghost whose it is. A
watcher looks whenever something may have changed and is told what `describe` says then.

### What the models compute

A product, a norm or an attention is a term that names its layer and what it read; two computations
agree when their terms are equal. A buffer holds whatever was written into it last, rows included,
and the actions are the passes a backend launches, with the choices it makes: which layers are INT8,
which passes are fused, which adapters apply, what is left for the next layer to add. The reference
is a plain definition beside it: for the DiT it is `mmh3-cpu`'s, for the rest what the layers are
one after another. A term that is the reference's own takes the reference's name, so that a state
stays small.

`DitCuda` keeps one workspace over calls, over running out of memory and over LoRAs; `DitMetal` has
arrays of their own and two ways through a block. `VideoDecoder` decodes in chunks of overlapping
tiles, all of a chunk at once on CUDA and one by one on Metal; `VideoEncoder` takes its activations
from a pool and gives them back; `Upscaler` and `Audio` take turns in a few buffers. `Prompt` lays
out pictures, pairs of a clip's frames and sounds among the tokens, runs the tower, and reads them
into the text's layers, with features added at some of them; it starts over when memory runs out.

### A run

`Generation` goes through `generate`: machines are reached or not (`ReachMachine`, `AllReached`),
the prompt is encoded there or here, the conditions are encoded, noise is drawn, and for each phase
the leader opens a session (`OpenShared`), is refused (`SessionRefused`), or loads the DiT; steps
follow, and then the decode. What goes over the wire is built and read field by field: `Sessions`
has what `OpenSession` and `StepShard` say and what a rank makes of it, `Workers` the handshake, the
prompt, the sound and the video, `Wire` the fields. A body is bytes: a field says how many it takes,
a reader that cuts them otherwise reads something else and not an error, and what follows a
descriptor is counted in bytes, as the code counts it. A name is six bytes long, whichever it is. `Shares` cuts tokens and heads by the machines'
speeds and puts the parts together again, VSA's tiles among them; `Conditions` says which latents a
run shows the DiT, in which order, and when in time they stand. A velocity is a record of what it
was computed from, so that what a rank read differently than the leader meant shows in the latents.

Left out of it: places within a frame, schedules, the check of options on a Mac, a leader built for
Metal (which asks nobody for sound), `--linear-precision` (sessions do not carry it, so ranks always
multiply in INT8), `--consistent`, and the price of a row, which is a constant. A featureless build
is a plan with no cards.

## The runs

| Run | Instance | Asks |
| --- | --- | --- |
| `exchanger` | 3 ranks, one pair linked, 2 barriers, up to 2 writes a pair, sockets of 1 message, one rank may fail | does the barrier hold, is nothing left, does everyone come out, does it implement `StepBarrier` |
| `shardblock` | 2 blocks over 2 cards of one machine and a third rank: linked and reading host memory, or Metal behind sockets with 1 retry and a failing rank | does a kernel ever find rows of another block, does a queued write's source change, does every share end, is it Ulysses attention |
| `rendezvous` | 4 ranks, 3 of one process, 2 sessions, 2 steps, each kind of failure at some rank, the leader may stop | do both ends of a pair agree, is nothing taken from a refused session, does a process meet as a whole, do leader and sessions end |
| `rendezvous_lent` | 2 ranks, the lower cannot dial | does every session give its DiT back: no |
| `handout` | 3 chunks, a worker that stages or sends and one of this process, 1 start-over, everything may fail once | is every canvas in its place, does a decode fail for a reason, is nothing left on a card, does everything end |
| `rdma` | 2 ports, a write of 2 paths with a remainder, a read to another place, one too large; everything may fail, the other end may leave | is a write whole, is nothing left between calls, is only held memory touched, does a call return |
| `streaming` | CUDA: a refiner too large for one region and 2 blocks, 2 calls, 2 changes; Metal: 3 units over 2 regions, 2 calls, a patch; failures of each kind | does a kernel ever read another unit's weights, is what is held marked, is nothing owed, does every call end |
| `streaming_settle` | CUDA, with reads that fail while units are kept back | the same: a kernel does |
| `server` | the server with 2 jobs, 1 watcher, 2 steps and failures; and 2 devices of 3 units, 3 connections of 1 request each and a leader, with reads and adapters that fail | files, ends, what watchers hear; does every request end, are the lent counted, is a kept DiT what it says |
| `server_steps` | the same with nothing of the server failing | is a step ever reported of the run before: yes |
| `models` | the DiT (3 blocks, a refiner, 2 calls on CUDA), the VAE, upscaler, audio VAE and prompt's encoders on both backends; 18 plans over 15 clusters; 2 sets of calls that may fail; 5 cuts of a block | does each agree with its reference, and a run with its options |
| `dit_gates` | the DiT on CUDA with a LoRA of VSA's gates | the same: it does not |

**Why the bounds are enough.** *Exchanger*: three ranks are the fewest where a rank waits for one
peer while a second waits for it, and where a rank in the middle is lower to one and higher to the
other. A socket of one message is the hardest one, since a larger one only lets a writer block
later; two writes a pair make a queue longer than it. Two barriers let a fast rank be a whole
barrier ahead of a slow one, which is as far as it gets (`BarrierCorrect` proves it for all).
*ShardBlock*: what can be overwritten is the block before, and with two blocks every region is used
a second time. The programs of a rank are the same in every block. *Rendezvous*: three cards of one
process and one rank beside them give a meeting somebody can be late to, pairs with and without a
port, and ranks that both dial and accept; two sessions are a refused one and the next. *Handout*:
three chunks over two workers give one of them two, so that a worker answers several requests in
turn; one start-over has two hand-outs under way. *Rdma*: a part per path with an uneven last one,
more pieces than a link holds, two depths that differ, and a payload less than a page. *Streaming*: two regions alternate, so
three units are the fewest that reuse one within a call, and one of them large takes both; the
second call starts from the regions the first left. *Resident*: three units hold a whole DiT and one
plain model, or a DiT, its blocks given up, with a model and the work, so that every kind of letting
go happens; two connections to one device are a session with the DiT out and a request that lacks
its memory, and the connection to the second device copies. One request each is what makes waits for
a lent DiT end: over sessions without end a wait may see the count go down and up again and only end
with its minute (`resident.rs:659`). *Server*: two jobs are one that runs and one that waits or is
forgotten. *DiT*: three blocks have one with a fused pass before and after it, one between two that
are not alike, and a last one; two calls start from a workspace another prompt or method left. *The
other models*: a picture of two tiles by two, a clip with a short last chunk, a clip of two groups,
two clips of different lengths, and a prompt with pictures of either shape. *Generation*: each plan
has some way to go wrong the others have not (drafts, keyframes, references, clips with and without
sound, a patch, LoRAs both ways, no card here), on clusters of every kind of machine: some that
measured themselves, a Mac, one that takes no steps, one of another protocol, and three cards so far
apart that the least shares of the slow overdraw the heads. In some of the runs only what costs a
machine may fail (it does not answer, does not read ahead, refuses a session, or the adapters can
not be named to it), so that such a run must not end for it; in the others encoding, loading, a step or a
decode may fail as well. *SharedRows*: ranks of
one process, of two and apart, on both backends, with uneven shares, one of no row.

**What a run leaves out.** `streaming` has no failing read while units are kept back, since
`streaming_settle` shows what that does. `SessionsEnd` of `rendezvous` excuses a rank that waits for
the call of a lower rank that is gone (`Stranded`), since `rendezvous_lent` shows what comes of
that. `models` has no LoRA of the gates on CUDA, since `dit_gates` shows what that does. Deadlock is
checked where the modules have an action for having finished (`Exchanger`, `ShardBlock`, `Handout`,
`Rdma`); the others stop when their bounds are used up, and there the liveness properties say what
must not stay.

**Where runs were composed.** `server`, `streaming` and `models` each check several modules that
have no variable in common: a behaviour is of one of them, and the others stay off.

**What is redundant.** With one of the second and fourth barriers of a block left out, every
property of `ShardBlock` still holds in these runs: the first and third of them order what matters
for the rows. And the two waits for the card before a copy only matter where all ranks are of one
process, since otherwise taking the rows off the card waits already: an instance of two cards of one
machine and nobody else, which no run of these has, goes wrong without either.

## Fairness

- `Exchanger`: every rank's thread goes on while it can (weak fairness of `Progress(r)`), which is
  what a blocking read or write does once there is something to read or room to write. A failure
  (`Fail`) and queueing one more write are not owed by anyone.
- `ShardBlock`: every thread, every card's queue and copy stream, and every socket between ranks in
  the barrier goes on. The last is what `EveryRankEnds` of `Exchanger` gives.
- `Rendezvous`: the leader and each rank go on; `Fail` and `LeaderStops` are never owed. A rank that
  waits in the meeting gives up when one of its process cannot come any more, which the deadline of
  60 s does.
- `Handout`: threads and sessions are scheduled, a decode ends, and the leader goes on; nothing has
  to fail and no memory has to run out.
- `Rdma`: the thread that moves payloads runs on (weak fairness of `Own`); the cards and the other
  end need not, which is why a call has a patience.
- `Streaming`: the host's call, the reader, and both streams go on. `LetGo` and `ReadOneMore` are
  not owed, and no call has to begin. `MetalStreaming`: the host, the reader and the GPU go on, and
  what a batch read is let go of in the end.
- `Resident`: every client goes on while it can, which for a connection that waits for a lock says
  that the lock is not given to others for ever. Nobody has to ask, nothing has to fail, and neither
  of the two waits has to run out, nor the quiet while to come.
- `Server`: the thread that generates, the handlers of requests under way, and the streams of events
  go on. No request has to come.
- The models of `models` have no fairness and no liveness: each is a sequence of passes.

## What is assumed

- A connection is FIFO in each direction. Its reader gets what was sent before the other end closed
  and then an error; its writer may not notice.
- A rank so slow that the meeting's minute ends without it counts as one that failed there.
- In `ShardBlock`, a remote write is complete and visible when it returns, which `LandsWhole` of
  `Rdma` shows; in `Rdma`, that a card carries a queue pair's pieces in their order.
- A kernel runs to its end once it is started, in the order of its stream, and computes what its
  name says from what it is given.
- A session of `SharedRows` has a head or more for every rank: Metal refuses an empty share of them.
  `Shard::weighted` says "Every rank keeps at least one unit of each", which weights as far apart as
  30, 30 and six of 1 over 8 heads break: the fastest rank is left with none. `RunAgrees` holds over
  the speeds the runs have.

## What the runs found

1. **A rank may wait in `accept` for good, its DiT lent** (`rendezvous_lent`, `worker.rs:2902`). The
   call of a lower rank that failed after the table went out never comes, and the accept has neither
   a deadline nor an eye on the leader. `worker.rs:1714-1715` says the DiT goes back.
2. **A failed read while units are kept back leaves answers for the next call** (`streaming_settle`,
   `streaming.rs:652` of the CUDA crate). `settle` returns at the first failed answer; the next call
   takes the answers after it for its own and launches kernels on a unit that has not come.
3. **A job just started is reported at the last step of the job before** (`server_steps`,
   `server.rs:319`). The job is marked as running before `starting()` forgets the progress, which
   `generation.rs:164-165` says keeps just that from happening.
4. **A LoRA of VSA's gates has no effect on CUDA** (`dit_gates`, `dit.rs:2186` of the CUDA crate).
   When the blocks are INT8, `vsa_gate` multiplies the gates without the adapter that `add_lora`
   gave them; a step shared out, and Metal, apply it.

Seen while modelling, with no run of their own:

- A rank that cannot reach another ends the run instead of being refused (`generation.rs:953`);
  `docs/distributed.md:235-237` says the run keeps the DiT to itself then.
- A chunk handed out that does not come back ends the decode (`take`, `worker.rs:1252-1276`);
  `generate.rs:97-98` says "A chunk that does not come back is decoded here."
- A prompt that a worker fails to encode ends the run, while the comment at
  `generation.rs:1129-1130` says "a generation never depends on one".
- `make_room` of `Resident` does not let go of a kind of model twice (`resident.rs:643-645`): a
  model another connection put back is of such a kind too, and work is refused beside memory it
  could have.
- In `Server`, a request that cannot be sent to the generating thread, because it died, is refused
  and its job stays in the table as queued for good (`server.rs:383`).
- On Metal a region is lost when it cannot be made after `regions` counted it, and regions kept by a
  block that failed stay kept (`free_region` and `take_back`).
- Threads of a hand-out that begin after `end_threads_here` took the list are not waited for
  (`worker.rs:1361`), and RDMA joined at one end only makes each chunk fail instead of taking the
  socket.
- Workers are asked to read the DiT ahead for a run by Veda, which none of them will take a step of.

## What is proved

Each theorem holds for every value of the constants that the module's assumption allows: any number
of ranks, workers, jobs or units, any sizes and bounds, and whatever may fail does. 32 of them are
listed in `PROJECT.json`, and they state every safety property of the runs of `Exchanger`,
`ShardBlock`, `Rendezvous`, `Handout`, `Rdma`, `Streaming`, `MetalStreaming`, `Resident` and
`Server`. Each of these follows from an inductive invariant, since none of the properties is one; what
is shown of `Shares` is of its operators.

| Module | Theorems | State |
| --- | --- | --- |
| `ExchangerProofs` | `TypeCorrect`, `BarrierCorrect`, `NothingLeftOnSockets`, `BarrierImplementsAbstract` | types, `BarrierHolds`, `NothingOutstanding`, `AbstractSpec` |
| `ShardBlockProofs` | `TypeCorrect`, `KernelsReadRight`, `SourcesAreLeftAlone`, `ImplementsUlysses` | types, `KernelsReadTheirBlock`, `SourcesStay`, `IsUlysses` |
| `ShardBlockProofs` | `CutsAreWhole`, `StepsComeBack` | of `Shares`: cuts are partitions; a step put together is what was sent |
| `RendezvousProofs` | `SpeaksOfThisSession`, `ConnectedBothWays`, `MeetsAsAWhole` | `OfThisSession`, `Connected`, `MeetAllOrNone` |
| `HandoutProofs` | `CanvasesFindTheirPlaces`, `DecodesFailForAReason`, `HandedCanvasesAreTaken` | `InItsPlace`, `FailsForAReason`, `NothingHandedStays` |
| `RdmaProofs` | `CallsLandWhole`, `NothingIsLeftOnTheLink`, `CardsTouchWhatIsHeld` | `LandsWhole`, `QuietBetween`, `TouchesWhatIsHeld` |
| `StreamingProofs` | `KernelsFindTheirUnit`, `WhatIsHeldIsThere`, `CallsOweNothing` | `KernelsReadTheirUnit`, `HoldsWhatItSays`, `NothingOwed` |
| `MetalStreamingProofs` | `EveryKernelReadsItsOwn`, `NothingIsReadOver` | `KernelsReadTheirOwn`; what a batch holds stays |
| `ServerProofs` | `TypeCorrect`, `FilesStay`, `DoneIsThere`, `NothingStays`, `StreamsSayTheEnd` | types, `RunningKeepsItsFiles`, `DoneHasItsVideo`, `NothingLeftBehind`, `EndIsSaid` |
| `ServerProofs` | `LentIsCounted`, `KeptTellsTheTruth`, `TablesAreHeld` | of `Resident`: `LentCounted`, `KeptIsWhatItSays`, who holds a table |

**Exchanger.** Nothing in `BarrierHolds` says why a rank may leave. `IInv` has four parts. `TypeInv`
adds to the types that a rank inside a barrier has not used up its rounds. `HalfWay` says that a rank
in the second half of its turn is in a barrier, at a peer that is not itself. `HeardWasSent` compares
the two ends of a pair: with `Sent(r, p)` the `Ready`s r has sent p and `Heard(p, r)` those p has
read, which both follow from where the loops of the two stand, `Heard(p, r) =< Sent(r, p)`.
`OneReady` says a socket holds at most one `Ready`, and one its reader has yet to hear. A rank that
leaves has heard a `Ready` of this round from everyone, so everyone has sent one, so everyone has
entered. `NothingOutstanding` takes one thing more, `Stream`: the turns of a pair are numbered, each
message belongs to one, and a socket holds just the turns between those its reader is through and
those its writer is, in order. Ranks number alike because they go through the same loops.

**ShardBlock.** The invariant says for each place of a rank's program what its slots hold
(`OwnRows`, `Brought`), what its card still has queued (`Queues`), what it owes the others
(`OwesOnly`) and how far its barriers are (`Stands`); `InStep` ties the places of two ranks together,
and `Arrived` says that what q last sent r lies at r, but for what of this block is still owed. The
assumption that `Settings` have a symmetric `local` is what being of one process is. The refinement
of `Ulysses` counts rows as made when `pack` has run and as attended when `attend` has, so that a
rank attends with the rows of everyone because they were sent before the barrier it left.

**Rendezvous.** A run is either in order, each rank at one of the few places where the leader's loop
leaves it with just these messages under way (`Placed`), or somebody is gone that the leader will
hear nothing of (`Marred`), and then it gets no further than asking for links. What a refused session
left on a connection is told apart by its order (`InLine`, `InTime`). `Gathered` counts a process's
meeting: who waits has come and not been taken, and whoever took the table found all of the process.

**Handout.** `Sound` says which messages may be under way for each ask of each thread; `Tidy`, that
what came over a channel is right; `NoneLost`, that while nothing failed a chunk handed out is coming,
has come, or was taken and will not be asked for again of this hand-out; `Walks`, how far the video
goes. That a hand-out leaves no chunk out rests on `Cuts` and `InOrder`.

**Rdma.** `Counted` says that what a call has under way on a link is what is posted and not polled;
`OnTheWay`, that the pieces of a path follow each other up to what was posted and all before them has
landed; `Settled`, that between calls the link is empty and the memory is what the calls made of it.
`PartedWhole` shows that the parts `Parted` cuts are all of a payload, and no part overlaps another.

**Streaming.** `Channel` says the loader has what was asked for in the order it was asked for,
`Turns` that a region is one unit's at a time, `Lands` which weights will lie in it, and `Reading`
that what a kernel reads is there when it may start and stays until it is through: a copy under way
waits for the kernel, and what may still be asked for the region waits too. These three theorems
assume `"settle" \notin MayFail`, that no read of a unit to keep back fails. That is not so in
general: `streaming_settle` shows what goes wrong where one does.

**MetalStreaming.** The invariant has a part about regions and one about buffers. That what batches
hold stays (`HeldStays`) and that tensors lie over what they are of (`TensorsHold`) needs that what
the reader was asked for is what the host waits for, in its order (`Asked`), that a region is spare,
to be read into or read, never two of these (`OneTaker`), that a unit kept back has its region to
itself (`OwnUnits`), and that a unit is asked for once in a pass (`OneAsk`). The reader looks at
whether a region is held when it reads and not when it was asked: between the two no tensors are laid
over a region that is still to be read into. Of the buffers, `OnePlace` says that one is in one list
of the pool's, and `FreeOfUse` that none a batch may still read is free, nor held back by the wait for
an earlier batch: waits end in the order of their numbers (`Numbered`), so what the oldest held back
is free once it is over. Operations run in the order of their kernels (`InOrder`, `AllPast`), so the
one to run next has nothing before it (`FirstToRun`) and finds its input as the host filled it
(`OwnInput`, `Apart`), and in `from` what the unit before it put out, since that one has run
(`Chained`, `HostHas`). A step of the host's that leaves buffers alone is `Onward`, and one lemma
serves them all.

**Resident.** Who is inside a table holds it (`Holds`), and who acts on one without holding it finds
it free, so nobody else changes it meanwhile. What is kept then has the adapters it is kept under
(`Honest`), a DiT that is out has those its holder was promised, and `lent` counts who is out. The
sum over connections is taken apart by the theorems about finite sets.

**Shares.** The counts of a weighted cut add up over a list that `Total` folds, so `TotalSums` first
shows that such a fold has partial sums, each one count more than the one before; a share then begins
where the sum before it ends, cut off at the total. That the fastest rank's count is never negative
is all that is needed of it. The rows `Gather` counts are the size of a union of ranges apart from
each other (`SizesAddUp`), which for shares that are a partition is the segment. Weights are whole
numbers here: how an `f64` rounds is not part of it, but the partition does not depend on what the
portions are. That no share is empty is not claimed, since it is not so (see the assumptions).

**Server.** `Lives(i)` follows a job through the table (it comes in with its files, goes before they
do, and never comes back), and `ThreadAtIt` says that the job the thread is at is in the table as
running, which is what keeps `Forget` away from it. `Followed` says the same of what a watcher has
heard.

Recursion is in functions defined over the values before (`Cuts`, `InOrder`, `ReadOf`, `Parted`,
`Without`, `Ideal`). That such a function has the values its definition says, and what they are, is
shown by a least counterexample: the set of places where it fails has a least one (`LeastNat`), whose
value follows from the one before.

Only model-checked: everything under fairness (`EveryRankEnds`, `EveryShareEnds`, `LeaderEnds`,
`SessionsEnd`, `EveryCallEnds`, `EveryCallReturns`, `EverythingEnds`, `EveryRequestEnds`,
`EveryJobEnds`), which the prover does not reach; and the properties of `models`, whose references
are built by recursion and folds over the layers, so that what they compute would take induction over
data.

## What is not modelled

Kernels are floating point and stand as terms: what a convolution reads around a place, im2col
slices, how moments and normalizations are computed, and NVFP4's tensor scales are left out. So are
a LoRA merged into the weights and the tensors it replaces, BF16 gates beside INT8 projections, and
how products are put together when a checkpoint is read. Parsers and writers of files are sequential
over a byte layout; the tokenizer is a function over large tables; the command line and the tools
keep no state; the autotuner's cache of timings and the speed file change the pace alone (of two
processes that write the speed file at once one's entry is measured again). Bandwidth and ping on a
connection carry nothing of a run. Of the parts that are modelled, the layout of a unit is left out
of the streamed weights; a run that panics with its DiT lent, Metal's table and the answers about
what is kept out of `Resident`; and what a request may ask for, a client that hangs up and a server
that is started again out of `Server`. `VideoDecoder` leaves out the capture of a first tile, and
that CUDA does not check, as Metal does, that tiles overlap less than their size; `Prompt` that CUDA
does not check that pictures lie apart.

## The plan

1. `SharedRows`: over the cuts of `CutsAreWhole`, that `Owner` finds for an offset whose rows lie
   there.
2. `Wire`: the rest of the bodies, those of regions, links and canvases, which `Rendezvous` and
   `Handout` have as what they say.
3. `Generation`: what a client that hangs up does to a run.
