------------------------------ MODULE ShardBlock ------------------------------
(***************************************************************************)
(* A block of a shared-out step as each rank runs it (`sharded_attention`  *)
(* of crates/mmh3-cuda/src/dit.rs and crates/mmh3-metal/src/dit.rs) over   *)
(* the exchange of src/src/worker.rs.  A rank queues kernels on its card   *)
(* and goes on, so a kernel may read memory long after it was queued; its  *)
(* peers write into the same memory by a copy between cards (ranks of one  *)
(* process), by a remote write (a connection), or down a socket at the     *)
(* next barrier.  Only the barriers and the waits for the card keep a      *)
(* block's rows from landing on rows another block still reads.            *)
(*                                                                         *)
(* Memory is a slot per region and owner of the rows in it, and what a     *)
(* slot holds is the block its rows belong to.  `Scales` goes wherever     *)
(* `Normalized` goes, and `Inputs` and `Gate` never leave their rank.  The *)
(* barrier is the one `StepBarrier` describes and `Exchanger` implements.  *)
(***************************************************************************)
EXTENDS Integers, Sequences, FiniteSets

CONSTANTS N,              \* how many ranks the run has
          Settings,       \* how the ranks may be placed and reach each other, and what may
                          \* fail: records with the fields the assumption names
          Blocks,         \* bound: blocks run in all
          BlocksPerStep   \* blocks of one step

Ranks == 0 .. N - 1

ASSUME ShardBlockAssumption ==
    /\ N \in Nat \ {0}
    /\ Blocks \in Nat
    /\ BlocksPerStep \in Nat \ {0}
    /\ \A s \in Settings :
         /\ s.local \subseteq Ranks \X Ranks
         /\ \A p \in s.local : <<p[2], p[1]>> \in s.local
         /\ s.linked \subseteq (Ranks \X Ranks) \ s.local
         /\ s.metal \subseteq Ranks
         /\ s.readsHost \subseteq Ranks \ s.metal
         /\ s.faulty \subseteq Ranks
         /\ s.retries \in Nat

VARIABLES
    setting,   \* the placement of the run, which stays
    pc,        \* where a rank's thread stands in its block
    block,     \* the block it is in, Blocks + 1 once it is through
    touched,   \* `Watched::touched`: this step has reached the peers
    retries,   \* how often a share has run again
    mem,       \* mem[r][slot]: the block whose rows a slot of r holds
    kernels,   \* what is queued on r's card, in order
    copies,    \* what is on r's copy stream
    pending,   \* `Exchanger::pending`: the writes r's next barrier sends
    out,       \* the block whose attention output r holds
    entered, left,  \* the barriers, as StepBarrier has them
    dead       \* the ranks whose session ended in an error

vars == <<setting, pc, block, touched, retries, mem, kernels, copies, pending, out,
          entered, left, dead>>

Barrier == INSTANCE StepBarrier WITH Rounds <- 4 * Blocks

Mixed == Blocks + 1          \* what a kernel makes of rows of two blocks
Contents == 0 .. Mixed

Regions == {"Normalized", "Attended", "Received"}
Slots == {"device", "host"} \X Regions \X Ranks
Dev(region, owner) == <<"device", region, owner>>
Host(region, owner) == <<"host", region, owner>>

Local == setting.local          \* the ordered pairs of ranks in one process
Linked == setting.linked        \* the ordered pairs with a connection
Metal == setting.metal          \* the ranks that run on Metal
ReadsHost == setting.readsHost  \* the CUDA ranks whose card reads host memory
Faulty == setting.faulty        \* the ranks whose share may fail
MaxRetries == setting.retries   \* bound: how often a share finds room and runs again

IsLocal(r, p) == <<r, p>> \in Local
Others(r) == Ranks \ {r}

-------------------------------------------------------------------------------
(* What a thread does in a block, in order. *)

(* Variant with a fault: what came back is taken before the barrier. *)
CudaBlockCollectsBeforeTheBarrier ==
    <<"pack", "drain", "publish", "own", "send", "enter", "leave", "fetch",
      "enter", "leave", "attend", "drain", "return", "collect", "enter", "leave",
      "enter", "leave", "unpack">>

CudaBlock ==
    <<"pack", "drain", "publish", "own", "send", "enter", "leave", "fetch",
      "enter", "leave", "attend", "drain", "return", "enter", "leave",
      "collect", "enter", "leave", "unpack">>

(* Variant with a fault: the writes are queued before the rows are published. *)
MetalBlockSendsFirst ==
    <<"pack", "drain", "send", "publish", "enter", "leave", "fetch", "drain",
      "enter", "leave", "attend", "drain", "return", "enter", "leave",
      "collect", "unpack", "drain", "enter", "leave">>

MetalBlock ==
    <<"pack", "publish", "drain", "send", "enter", "leave", "fetch", "drain",
      "enter", "leave", "attend", "drain", "return", "enter", "leave",
      "collect", "unpack", "drain", "enter", "leave">>

Program(r) == IF r \in Metal THEN MetalBlock ELSE CudaBlock

(* The calls `Watched` takes note of. *)
Exchanges == {"publish", "send", "enter", "leave", "fetch", "return", "collect"}

Running(r) == r \notin dead /\ block[r] =< Blocks
At(r, op) == Running(r) /\ Program(r)[pc[r]] = op

(* The thread goes to its next call; a step that ends leaves nothing touched. *)
GoOn(r) ==
    LET last == pc[r] = Len(Program(r)) IN
    /\ pc' = [pc EXCEPT ![r] = IF last THEN 1 ELSE @ + 1]
    /\ block' = [block EXCEPT ![r] = IF last THEN @ + 1 ELSE @]
    /\ touched' = [touched EXCEPT ![r] =
           IF last /\ block[r] % BlocksPerStep = 0
           THEN FALSE
           ELSE @ \/ Program(r)[pc[r]] \in Exchanges]

Init ==
    /\ setting \in Settings
    /\ pc = [r \in Ranks |-> 1]
    /\ block = [r \in Ranks |-> 1]
    /\ touched = [r \in Ranks |-> FALSE]
    /\ retries = [r \in Ranks |-> 0]
    /\ mem = [r \in Ranks |-> [slot \in Slots |-> 0]]
    /\ kernels = [r \in Ranks |-> <<>>]
    /\ copies = [r \in Ranks |-> {}]
    /\ pending = [r \in Ranks |-> {}]
    /\ out = [r \in Ranks |-> 0]
    /\ Barrier!Init
    /\ dead = {}

-------------------------------------------------------------------------------
(* The card. *)

(* `Computed::make`: whether r has device memory of its own for what p sends *)
(* back, or its kernels read the host memory p wrote.                        *)
OnDevice(r, p) == IsLocal(r, p) \/ r \notin ReadsHost

Kernel(op, b) == [op |-> op, block |-> b]

(* `receive` of what the peers outside this process wrote: the bytes are     *)
(* read from the host now and land on the card behind what is queued there.  *)
Upload(r, region, peers) ==
    [op |-> "upload", block |-> block[r],
     rows |-> [slot \in {Dev(region, p) : p \in {q \in peers : ~IsLocal(r, q)}} |->
                  mem[r][Host(region, slot[3])]]]

(* The slots a kernel reads. *)
Reads(r, k) ==
    CASE k.op = "own" -> {Dev("Normalized", r)}
      [] k.op = "attend" -> {Dev("Normalized", q) : q \in Ranks}
      [] k.op = "unpack" ->
            {Dev("Attended", r)}
                \cup {IF OnDevice(r, q) THEN Dev("Received", q) ELSE Host("Received", q) :
                        q \in Others(r)}
      [] OTHER -> {}

(* What a kernel makes of what it reads. *)
Made(r, k) == IF \A slot \in Reads(r, k) : mem[r][slot] = k.block THEN k.block ELSE Mixed

Launch(r) ==
    /\ \E op \in {"pack", "own", "attend", "unpack"} :
          /\ At(r, op)
          /\ kernels' = [kernels EXCEPT ![r] = Append(@, Kernel(op, block[r]))]
    /\ GoOn(r)
    /\ UNCHANGED <<setting, retries, mem, copies, pending, out, entered, left, dead>>

RunKernel(r) ==
    LET k == Head(kernels[r]) IN
    /\ kernels[r] # <<>>
    /\ kernels' = [kernels EXCEPT ![r] = Tail(@)]
    /\ mem' = [mem EXCEPT ![r] = [slot \in Slots |->
          CASE k.op = "upload" /\ slot \in DOMAIN k.rows -> k.rows[slot]
            [] k.op = "pack" /\ slot = Dev("Normalized", r) -> k.block
            [] k.op = "attend" /\ \E q \in Ranks : slot = Dev("Attended", q) -> Made(r, k)
            [] OTHER -> @[slot]]]
    /\ out' = [out EXCEPT ![r] = IF k.op = "unpack" THEN Made(r, k) ELSE @]
    /\ UNCHANGED <<setting, pc, block, touched, retries, copies, pending, entered, left, dead>>

(* `synchronize`: the thread waits for its card. *)
Drain(r) ==
    /\ At(r, "drain")
    /\ kernels[r] = <<>>
    /\ GoOn(r)
    /\ UNCHANGED <<setting, retries, mem, kernels, copies, pending, out, entered, left, dead>>

-------------------------------------------------------------------------------
(* The exchange. *)

(* `read_here_alone`: only ranks of this process read the rows owner names. *)
ReadHereAlone(r, owner) ==
    IF owner = r THEN \A p \in Others(r) : IsLocal(r, p) ELSE IsLocal(r, owner)

(* `publish` takes rows off the card, behind the kernels queued on it.       *)
Publish(r) ==
    /\ At(r, "publish")
    /\ IF ReadHereAlone(r, r)
       THEN UNCHANGED mem
       ELSE /\ kernels[r] = <<>>
            /\ mem' = [mem EXCEPT ![r][Host("Normalized", r)] = mem[r][Dev("Normalized", r)]]
    /\ GoOn(r)
    /\ UNCHANGED <<setting, retries, kernels, copies, pending, out, entered, left, dead>>

(* A write of r's rows to p's memory that has not happened yet. *)
Owed(r, p, from, into) == [to |-> p, from |-> from, into |-> into, block |-> block[r]]

(* Whose rows of a region r sends p: its own of the block's input, p's of    *)
(* what its heads attended.                                                  *)
RowsFor(r, p, region) == IF region = "Normalized" THEN r ELSE p

(* `Exchanger::write` of one region to every peer. *)
WriteAll(r, memory, region, into) ==
    /\ copies' = [copies EXCEPT ![r] = @ \cup
          {Owed(r, p, Dev(region, RowsFor(r, p, region)), Dev(into, r)) :
              p \in {q \in Others(r) : IsLocal(r, q)}}]
    /\ mem' = [q \in Ranks |->
          IF q # r /\ <<r, q>> \in Linked
          THEN [memory[q] EXCEPT
                  ![Host(into, r)] = memory[r][Host(region, RowsFor(r, q, region))]]
          ELSE memory[q]]
    /\ pending' = [pending EXCEPT ![r] = @ \cup
          {Owed(r, p, Host(region, RowsFor(r, p, region)), Host(into, r)) :
              p \in {q \in Others(r) : ~IsLocal(r, q) /\ <<r, q>> \notin Linked}}]

(* `send_inputs`: this rank's rows go to the same rows of every peer's. *)
Send(r) ==
    /\ At(r, "send")
    /\ WriteAll(r, mem, "Normalized", "Normalized")
    /\ GoOn(r)
    /\ UNCHANGED <<setting, retries, kernels, out, entered, left, dead>>

(* The first half of `exchange_outputs`: what this rank's heads attended of  *)
(* a peer's rows goes off the card and to that peer.                         *)
Return(r) ==
    LET leaving == {p \in Others(r) : ~ReadHereAlone(r, p)}
        memory == [mem EXCEPT ![r] = [slot \in Slots |->
                      IF \E p \in leaving : slot = Host("Attended", p)
                      THEN mem[r][Dev("Attended", slot[3])]
                      ELSE mem[r][slot]]]
    IN
    /\ At(r, "return")
    /\ leaving # {} => kernels[r] = <<>>
    /\ WriteAll(r, memory, "Attended", "Received")
    /\ GoOn(r)
    /\ UNCHANGED <<setting, retries, kernels, out, entered, left, dead>>

RunCopy(r) ==
    \E c \in copies[r] :
        /\ mem' = [mem EXCEPT ![c.to][c.into] = mem[r][c.from]]
        /\ copies' = [copies EXCEPT ![r] = @ \ {c}]
        /\ UNCHANGED <<setting, pc, block, touched, retries, kernels, pending, out,
                       entered, left, dead>>

(* `barrier` waits for the copies and for no kernel. *)
Enter(r) ==
    /\ At(r, "enter")
    /\ copies[r] = {}
    /\ Barrier!Enter(r)
    /\ GoOn(r)
    /\ UNCHANGED <<setting, retries, mem, kernels, copies, pending, out, dead>>

Inside(r) == left[r] < entered[r]

(* `exchange_pending` between two ranks at one barrier.  The bytes are read  *)
(* where they lie, now rather than when the block wrote them.                *)
Deliver(r, p) ==
    /\ r \notin dead /\ p \notin dead
    /\ Inside(r) /\ Inside(p)
    /\ \E w \in pending[r] :
          /\ w.to = p
          /\ mem' = [mem EXCEPT ![p][w.into] = mem[r][w.from]]
          /\ pending' = [pending EXCEPT ![r] = @ \ {w}]
    /\ UNCHANGED <<setting, pc, block, touched, retries, kernels, copies, out,
                   entered, left, dead>>

(* The barrier returns with every write of this rank out and every one to it *)
(* in (NothingOutstanding of Exchanger).                                     *)
Leave(r) ==
    /\ At(r, "leave")
    /\ pending[r] = {}
    /\ \A q \in Ranks : \A w \in pending[q] : w.to # r
    /\ Barrier!Leave(r)
    /\ GoOn(r)
    /\ UNCHANGED <<setting, retries, mem, kernels, copies, pending, out, dead>>

(* `receive` of every peer's rows of the block's input. *)
Fetch(r) ==
    /\ At(r, "fetch")
    /\ kernels' = [kernels EXCEPT ![r] = Append(@, Upload(r, "Normalized", Others(r)))]
    /\ GoOn(r)
    /\ UNCHANGED <<setting, retries, mem, copies, pending, out, entered, left, dead>>

(* `receive` of what every peer attended of this rank's rows. *)
Collect(r) ==
    /\ At(r, "collect")
    /\ kernels' = [kernels EXCEPT ![r] =
          Append(@, Upload(r, "Received", {p \in Others(r) : OnDevice(r, p)}))]
    /\ GoOn(r)
    /\ UNCHANGED <<setting, retries, mem, copies, pending, out, entered, left, dead>>

-------------------------------------------------------------------------------
(* Failures. *)

Launching(r) == \E op \in {"pack", "own", "attend", "unpack"} : At(r, op)
FirstBlock(r) == ((block[r] - 1) \div BlocksPerStep) * BlocksPerStep + 1

(* Variant with a fault: a share that has reached its peers runs again. *)
TryAgainThoughTouched(r) ==
    /\ Launching(r)
    /\ retries[r] < MaxRetries
    /\ retries' = [retries EXCEPT ![r] = @ + 1]
    /\ pc' = [pc EXCEPT ![r] = 1]
    /\ block' = [block EXCEPT ![r] = FirstBlock(r)]
    /\ touched' = [touched EXCEPT ![r] = FALSE]
    /\ UNCHANGED <<setting, mem, kernels, copies, pending, out, entered, left, dead>>

(* `forward_shard`: out of memory before anything was exchanged, and room    *)
(* was found.  The share runs again from its first block.                    *)
TryAgain(r) ==
    /\ r \notin Metal
    /\ Launching(r)
    /\ ~touched[r]
    /\ retries[r] < MaxRetries
    /\ retries' = [retries EXCEPT ![r] = @ + 1]
    /\ pc' = [pc EXCEPT ![r] = 1]
    /\ block' = [block EXCEPT ![r] = FirstBlock(r)]
    /\ touched' = [touched EXCEPT ![r] = FALSE]
    /\ UNCHANGED <<setting, mem, kernels, copies, pending, out, entered, left, dead>>

(* The error goes up and ends the session.  The memory stays while a peer    *)
(* holds the meeting, and dropping the copy stream waits for its copies.     *)
Fail(r) ==
    /\ r \in Faulty
    /\ Launching(r)
    /\ dead' = dead \cup {r}
    /\ UNCHANGED <<setting, pc, block, touched, retries, mem, kernels, copies, pending,
                   out, entered, left>>

(* Variant with a fault: only the ranks above a dead one hear of it. *)
BrokenFromBelow(r) ==
    /\ At(r, "leave")
    /\ \E q \in dead : q < r
    /\ dead' = dead \cup {r}
    /\ UNCHANGED <<setting, pc, block, touched, retries, mem, kernels, copies, pending,
                   out, entered, left>>

(* A rank inside a barrier reads or writes a socket a dead peer closed. *)
Broken(r) ==
    /\ At(r, "leave")
    /\ dead # {}
    /\ dead' = dead \cup {r}
    /\ UNCHANGED <<setting, pc, block, touched, retries, mem, kernels, copies, pending,
                   out, entered, left>>

Thread(r) ==
    Launch(r) \/ Drain(r) \/ Publish(r) \/ Send(r) \/ Enter(r) \/ Leave(r)
        \/ Fetch(r) \/ Return(r) \/ Collect(r) \/ Broken(r)

Ended(r) == ~Running(r) /\ kernels[r] = <<>> /\ copies[r] = {}

Terminating ==
    /\ \A r \in Ranks : Ended(r)
    /\ UNCHANGED vars

Next ==
    \/ \E r \in Ranks : Thread(r) \/ RunKernel(r) \/ RunCopy(r) \/ TryAgain(r) \/ Fail(r)
    \/ \E r, p \in Ranks : Deliver(r, p)
    \/ Terminating

Spec == Init /\ [][Next]_vars

(* A rank is a thread of its own, a card runs what is queued on it, and two   *)
(* ranks at a barrier trade what they owe (EveryRankEnds of Exchanger).       *)
FairSpec ==
    /\ Spec
    /\ \A r \in Ranks : WF_vars(Thread(r)) /\ WF_vars(RunKernel(r)) /\ WF_vars(RunCopy(r))
    /\ \A r, p \in Ranks : WF_vars(Deliver(r, p))
-------------------------------------------------------------------------------
TypeOK ==
    /\ \A r \in Ranks : pc[r] \in 1 .. Len(Program(r))
    /\ block \in [Ranks -> 1 .. Blocks + 1]
    /\ touched \in [Ranks -> BOOLEAN]
    /\ retries \in [Ranks -> 0 .. MaxRetries]
    /\ mem \in [Ranks -> [Slots -> Contents]]
    /\ out \in [Ranks -> Contents]
    /\ entered \in [Ranks -> 0 .. 4 * Blocks]
    /\ left \in [Ranks -> 0 .. 4 * Blocks]
    /\ dead \subseteq Ranks

(* A kernel at the head of its card's queue finds the rows of its own block  *)
(* in everything it reads, however late the card comes to it: nobody has     *)
(* written the next block's over them and none is still missing.             *)
KernelsReadTheirBlock ==
    \A r \in Ranks : kernels[r] # <<>> =>
        \A slot \in Reads(r, Head(kernels[r])) :
            mem[r][slot] = Head(kernels[r]).block

(* `Queued`: "the region they come from does not change in between", for the *)
(* writes that wait for a barrier and for the copies that run beside the     *)
(* projections.                                                              *)
SourcesStay ==
    \A r \in Ranks : \A w \in copies[r] \cup pending[r] : mem[r][w.from] = w.block

(* Every share comes to an end, also when another fails in the middle of it. *)
EveryShareEnds == \A r \in Ranks : <>[]Ended(r)

(* The blocks over memory, streams and barriers are the blocks of Ulysses. *)
Abstract == INSTANCE Ulysses WITH
    rows <- [r \in Ranks |-> mem[r][Dev("Normalized", r)]],
    attended <- [r \in Ranks |-> mem[r][Dev("Attended", r)]],
    output <- out

IsUlysses == Abstract!Spec
===============================================================================
