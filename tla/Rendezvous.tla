------------------------------ MODULE Rendezvous ------------------------------
(***************************************************************************)
(* How a shared-out run comes together and apart, in src/src/worker.rs and *)
(* the phases of src/src/generation.rs.  The leader opens a session on     *)
(* every worker (`Coordinator::open`), relays what the ranks have to tell  *)
(* each other, hands out the steps and closes the session.  A rank answers *)
(* its connection (`session`), borrows its DiT for a session, goes through *)
(* `Exchanger::open` and then serves steps (`serve_shard`).                *)
(*                                                                         *)
(* A connection is a FIFO in each direction.  Whoever reads one that the   *)
(* other end closed gets what was sent before and then an error; whoever   *)
(* writes to it may or may not notice.  What happens inside a step is      *)
(* Exchanger and ShardBlock; here a rank finishes a step when every rank   *)
(* has come to it.                                                         *)
(***************************************************************************)
EXTENDS Integers, Sequences, FiniteSets

CONSTANTS N,             \* how many workers take a rank
          Phases,        \* bound: sessions of one run, draft steps and the rest
          Steps,         \* bound: steps of a session
          Ports,         \* the ranks of a machine with a RoCE port
          Local,         \* the ordered pairs of ranks of one process
          Failing,       \* pairs of a rank and what may fail there
          LeaderMayStop  \* whether the leader's process may end at any time

Ranks == 0 .. N - 1
Failures == {"dit", "register", "meet", "dial", "step"}

ASSUME RendezvousAssumption ==
    /\ N \in Nat \ {0} /\ Phases \in Nat \ {0} /\ Steps \in Nat \ {0}
    /\ Ports \subseteq Ranks
    /\ Local \subseteq Ranks \X Ranks
    /\ \A r, p \in Ranks : <<r, p>> \in Local => <<p, r>> \in Local /\ r # p
    /\ \A r, p, q \in Ranks : <<r, p>> \in Local /\ <<p, q>> \in Local =>
                                 r = q \/ <<r, q>> \in Local
    /\ Failing \subseteq Ranks \X Failures
    /\ LeaderMayStop \in BOOLEAN

VARIABLES
    pc,        \* where the leader stands
    at,        \* the rank its loop is at
    phase,     \* the session it opens or runs
    step,      \* the step of it
    heard,     \* what the ranks answered in this loop
    toRank,    \* toRank[r]: sent to r and not read
    toLeader,  \* toLeader[r]: sent by r and not read
    stage,     \* where each rank's session stands
    session,   \* the phase of the OpenSession a rank serves
    shared,    \* steps of it the rank has come to
    link,      \* `links`: the peers a rank has an RDMA connection to
    table,     \* the peers whose regions came with keys
    socket,    \* `sockets`: the peers a rank has a socket to
    calls,     \* calls[r]: who called r's listener and was not accepted yet
    meeting    \* `MEETINGS`: a run's ranks of one process that came, and how many took them

leader == <<pc, at, phase, step, heard>>
wires == <<toRank, toLeader>>
rendezvous == <<link, table, socket, calls, meeting>>
vars == <<leader, wires, stage, session, shared, rendezvous>>

Others(r) == Ranks \ {r}
LocalPeers(r) == {p \in Ranks : <<r, p>> \in Local}
Process(r) == LocalPeers(r) \cup {r}

(* What a gathering is for: the ranks of a process, and their session. *)
Runs == {Process(r) : r \in Ranks} \X (1 .. Phases)
Run(r) == <<Process(r), session[r]>>

May(r, what) == <<r, what>> \in Failing

(* The leader has let go of every connection of the run. *)
Over == pc \in {"done", "failed", "stopped"}

(* The session loop lends its DiT to a run in these stages. *)
InSession == {"links", "table", "meet", "dial", "serving", "sharing"}

(* A message.  `phase` and `step` are what it was sent in; only OpenSession  *)
(* and StepShard carry theirs on the wire.                                   *)
Message(kind, ph, st, body) == [kind |-> kind, phase |-> ph, step |-> st, body |-> body]
(* A run of which `MEETINGS` holds nothing. *)
NoMeeting == [ranks |-> {}, taken |-> 0]

Nothing == Message("Nothing", 0, 0, {})

Has(queue, kinds) == queue # <<>> /\ Head(queue).kind \in kinds

Init ==
    /\ pc = "open" /\ at = 0 /\ phase = 1 /\ step = 1
    /\ heard = [r \in Ranks |-> Nothing]
    /\ toRank = [r \in Ranks |-> <<>>]
    /\ toLeader = [r \in Ranks |-> <<>>]
    /\ stage = [r \in Ranks |-> "ready"]
    /\ session = [r \in Ranks |-> 0]
    /\ shared = [r \in Ranks |-> 0]
    /\ link = [r \in Ranks |-> {}]
    /\ table = [r \in Ranks |-> {}]
    /\ socket = [r \in Ranks |-> {}]
    /\ calls = [r \in Ranks |-> <<>>]
    /\ meeting = [run \in Runs |-> NoMeeting]

-------------------------------------------------------------------------------
(* The leader.  Its loops visit the ranks in order; `After` is what follows.  *)

GoTo(next) == pc' = next /\ at' = 0

Advance(next) ==
    IF at = N - 1 THEN GoTo(next) ELSE at' = at + 1 /\ UNCHANGED pc

(* `Drop` of the coordinator: every rank still there is told, or not, if its *)
(* connection is broken.                                                     *)
Drop ==
    toRank' = [r \in Ranks |-> IF stage[r] = "closed" THEN <<>>
                               ELSE Append(toRank[r], Message("CloseSession", phase, 0, {}))]

Sent(r, m) ==
    toRank' = [toRank EXCEPT ![r] = IF stage[r] = "closed" THEN <<>> ELSE Append(@, m)]

(* `as_peer` of one worker after the other. *)
OpenOn ==
    /\ pc = "open"
    /\ Sent(at, Message("OpenSession", phase, 0, {}))
    /\ Advance("links")
    /\ heard' = [r \in Ranks |-> Nothing]
    /\ UNCHANGED <<phase, step, toLeader, stage, session, shared, rendezvous>>

(* `as_peer` notices that a connection is gone: `open` returns before there  *)
(* is a coordinator, so the ranks opened so far are told nothing.            *)
CannotOpen ==
    /\ pc = "open"
    /\ stage[at] = "closed"
    /\ GoTo("here")
    /\ UNCHANGED <<phase, step, heard, wires, stage, session, shared, rendezvous>>

Expected == CASE pc = "links" -> "SessionLinks"
              [] pc = "ready" -> "SessionReady"
              [] pc = "parts" -> "VelocityPart"
              [] OTHER -> "nothing"

(* `relay_links` and `relay_regions` hear every rank before they tell any;   *)
(* `step_shard` assembles the parts of every rank.                           *)
Hear ==
    /\ pc \in {"links", "ready", "parts"}
    /\ Has(toLeader[at], {Expected})
    /\ heard' = [heard EXCEPT ![at] = Head(toLeader[at])]
    /\ toLeader' = [toLeader EXCEPT ![at] = Tail(@)]
    /\ Advance(CASE pc = "links" -> "tellLinks"
                 [] pc = "ready" -> "tellTable"
                 [] pc = "parts" -> "stepped")
    /\ UNCHANGED <<phase, step, toRank, stage, session, shared, rendezvous>>

(* Who opened a connection for rank r. *)
Offers(r) == {p \in Others(r) : r \in heard[p].body}

(* Whose regions are registered. *)
Registered == {p \in Ranks : heard[p].body # {}}

Tell ==
    /\ pc \in {"tellLinks", "tellTable", "tellStep"}
    /\ Sent(at, CASE pc = "tellLinks" -> Message("SessionLinks", phase, 0, Offers(at))
                  [] pc = "tellTable" -> Message("SessionReady", phase, 0, Registered)
                  [] pc = "tellStep" -> Message("StepShard", phase, step, {}))
    /\ Advance(CASE pc = "tellLinks" -> "ready"
                 [] pc = "tellTable" -> "tellStep"
                 [] pc = "tellStep" -> "parts")
    /\ UNCHANGED <<phase, step, heard, toLeader, stage, session, shared, rendezvous>>

(* The end of a step: the next one, the next session or the end of the run.  *)
NextPhase ==
    IF phase < Phases THEN GoTo("open") /\ phase' = phase + 1 ELSE GoTo("done") /\ UNCHANGED phase

Stepped ==
    /\ pc = "stepped"
    /\ IF step < Steps
       THEN GoTo("tellStep") /\ step' = step + 1 /\ UNCHANGED <<phase, toRank>>
       ELSE NextPhase /\ step' = 1 /\ Drop
    /\ UNCHANGED <<heard, toLeader, stage, session, shared, rendezvous>>

(* An answer that is an Error or not the one asked for, or none at all, or   *)
(* a write that found the connection gone.                                   *)
Trouble ==
    \/ /\ pc \in {"links", "ready", "parts"}
       /\ toLeader[at] # <<>>
       /\ ~Has(toLeader[at], {Expected})
       /\ heard' = [heard EXCEPT ![at] = Head(toLeader[at])]
       /\ toLeader' = [toLeader EXCEPT ![at] = Tail(@)]
    \/ /\ pc \in {"links", "ready", "parts", "tellLinks", "tellTable", "tellStep"}
       /\ stage[at] = "closed"
       /\ pc \in {"links", "ready", "parts"} => toLeader[at] = <<>>
       /\ UNCHANGED <<heard, toLeader>>

(* While it opens, trouble means that the leader takes the phase itself ...  *)
Refused ==
    /\ pc \notin {"tellStep", "parts"}
    /\ Trouble
    /\ Drop
    /\ GoTo("here")
    /\ UNCHANGED <<phase, step, stage, session, shared, rendezvous>>

(* ... and in a step that the run ends, with its connections.                *)
Lost ==
    /\ pc \in {"tellStep", "parts"}
    /\ Trouble
    /\ Drop
    /\ GoTo("failed")
    /\ UNCHANGED <<phase, step, stage, session, shared, rendezvous>>

(* The steps of a phase nobody shares run on the leader. *)
TakeHere ==
    /\ pc = "here"
    /\ NextPhase
    /\ UNCHANGED <<step, heard, wires, stage, session, shared, rendezvous>>

LeaderStops ==
    /\ LeaderMayStop
    /\ ~Over
    /\ GoTo("stopped")
    /\ UNCHANGED <<phase, step, heard, wires, stage, session, shared, rendezvous>>

-------------------------------------------------------------------------------
(* A rank. *)

Read(r) == toRank' = [toRank EXCEPT ![r] = Tail(@)]

Reply(r, kind, body) ==
    toLeader' = [toLeader EXCEPT ![r] =
        IF Over THEN @ ELSE Append(@, Message(kind, session'[r], shared[r], body))]

(* Variant with a fault: a session that failed goes on with its connection. *)
CloseAndServeOn(r) ==
    /\ stage' = [stage EXCEPT ![r] = "ready"]
    /\ IF toRank[r] = <<>> \/ stage[r] \in {"meet", "dial", "sharing"}
       THEN UNCHANGED toRank
       ELSE Read(r)
    /\ session' = session
    /\ Reply(r, "Error", {})
    /\ calls' = [calls EXCEPT ![r] = <<>>]
    /\ UNCHANGED <<leader, shared, link, table, socket>>

(* A rank that fails in a step has come through its last barrier or has not. *)
CutShort(r, through) == IF stage[r] = "sharing" THEN 1 - through ELSE 0

(* `serve_shard` returned an error: the DiT goes back into its table, the     *)
(* leader is told and the connection closes, with the sockets of the session. *)
Close(r) ==
    /\ stage' = [stage EXCEPT ![r] = "closed"]
    /\ toRank' = [toRank EXCEPT ![r] = <<>>]
    /\ session' = session
    /\ Reply(r, "Error", {})
    /\ calls' = [calls EXCEPT ![r] = <<>>]
    /\ \E through \in 0 .. 1 : shared' = [shared EXCEPT ![r] = @ - CutShort(r, through)]
    /\ UNCHANGED <<leader, link, table, socket>>

(* `open_links`: a port makes a connection for every rank outside the process. *)
Opened(r) == IF r \in Ports THEN Others(r) \ LocalPeers(r) ELSE {}

(* `session_dit` and the first half of `link_peers`. *)
TakeOpen(r) ==
    /\ stage[r] = "ready"
    /\ Has(toRank[r], {"OpenSession"})
    /\ Read(r)
    /\ stage' = [stage EXCEPT ![r] = "links"]
    /\ session' = [session EXCEPT ![r] = Head(toRank[r]).phase]
    /\ Reply(r, "SessionLinks", Opened(r))
    /\ shared' = [shared EXCEPT ![r] = 0]
    /\ link' = [link EXCEPT ![r] = {}]
    /\ table' = [table EXCEPT ![r] = {}]
    /\ socket' = [socket EXCEPT ![r] = {}]
    /\ calls' = [calls EXCEPT ![r] = <<>>]
    /\ UNCHANGED <<leader, meeting>>

(* The connections both ends opened; the others are dropped. *)
Paired(r) == Opened(r) \cap Head(toRank[r]).body

(* `register` puts keys in the table when some rank is outside the process. *)
Keys(r) == IF r \in Ports /\ Cardinality(LocalPeers(r)) + 1 < N THEN {r} ELSE {}

(* The second half of `link_peers`, and `register` up to its answer. *)
TakeLinks(r) ==
    /\ stage[r] = "links"
    /\ Has(toRank[r], {"SessionLinks"})
    /\ Read(r)
    /\ link' = [link EXCEPT ![r] = Paired(r)]
    /\ stage' = [stage EXCEPT ![r] = "table"]
    /\ session' = session
    /\ Reply(r, "SessionReady", Keys(r))
    /\ UNCHANGED <<leader, shared, table, socket, calls, meeting>>

(* The table of every rank's regions; then on to the meeting of the process. *)
TakeTable(r) ==
    /\ stage[r] = "table"
    /\ Has(toRank[r], {"SessionReady"})
    /\ Read(r)
    /\ table' = [table EXCEPT ![r] = Head(toRank[r]).body \ {r}]
    /\ stage' = [stage EXCEPT ![r] = IF LocalPeers(r) = {} THEN "dial" ELSE "meet"]
    /\ meeting' = IF LocalPeers(r) = {} THEN meeting
                  ELSE [meeting EXCEPT ![Run(r)].ranks = @ \cup {r}]
    /\ UNCHANGED <<leader, toLeader, session, shared, link, socket, calls>>

Count(r) == Cardinality(LocalPeers(r)) + 1

AllCame(r) == Cardinality(meeting[Run(r)].ranks) >= Count(r)

(* Variant with a fault: the first to take the table clears it away. *)
TakeAndClear(r) == meeting' = [meeting EXCEPT ![Run(r)] = NoMeeting]

(* The last to take the whole table clears it away. *)
TakeTheTable(r) ==
    LET taken == meeting[Run(r)].taken + 1
    IN meeting' = [meeting EXCEPT ![Run(r)] =
                     IF taken = Count(r) THEN NoMeeting ELSE [@ EXCEPT !.taken = taken]]

Meet(r) ==
    /\ stage[r] = "meet"
    /\ AllCame(r)
    /\ TakeTheTable(r)
    /\ stage' = [stage EXCEPT ![r] = "dial"]
    /\ UNCHANGED <<leader, wires, session, shared, link, table, socket, calls>>

(* A minute passes and a rank of the process has not come: it left, or it is *)
(* slow, which counts as something that may fail.                            *)
GiveUp(r) ==
    /\ stage[r] = "meet"
    /\ ~AllCame(r)
    /\ May(r, "meet") \/ \E p \in LocalPeers(r) : stage[p] = "closed"
    /\ meeting' = [meeting EXCEPT ![Run(r)].ranks = @ \ {r}]
    /\ Close(r)

Lower(r) == {p \in Ranks : p < r}
Higher(r) == {p \in Ranks : p > r}

(* Variant with a fault: a rank a connection reaches is waited for by nobody. *)
TakesCallsOfTheUnlinked(r) ==
    stage[r] = "dial" /\ ~((Lower(r) \ link[r]) \subseteq socket[r])

TakesCalls(r) == stage[r] = "dial" /\ ~(Lower(r) \subseteq socket[r])

(* `accept` takes the next call of the listener, and waits for one for good. *)
Accept(r) ==
    /\ TakesCalls(r)
    /\ calls[r] # <<>>
    /\ socket' = [socket EXCEPT ![r] = @ \cup {Head(calls[r])}]
    /\ calls' = [calls EXCEPT ![r] = Tail(@)]
    /\ UNCHANGED <<leader, wires, stage, session, shared, link, table, meeting>>

(* Variant with a fault: only the ranks without a connection are called. *)
CallsUnlinked(r) ==
    IF Lower(r) \subseteq socket[r] THEN Higher(r) \ (socket[r] \cup link[r]) ELSE {}

(* Whom a rank that took every call still has to call, lowest first. *)
Calls(r) == IF Lower(r) \subseteq socket[r] THEN Higher(r) \ socket[r] ELSE {}

NextCall(r) == CHOOSE p \in Calls(r) : \A q \in Calls(r) : p <= q

Listens(p, r) == stage[p] \in InSession /\ session[p] = session[r]

(* `connect` and `JoinShard`: the call waits in the peer's backlog. *)
Dial(r) ==
    /\ stage[r] = "dial"
    /\ Calls(r) # {}
    /\ Listens(NextCall(r), r)
    /\ calls' = [calls EXCEPT ![NextCall(r)] = Append(@, r)]
    /\ socket' = [socket EXCEPT ![r] = @ \cup {NextCall(r)}]
    /\ UNCHANGED <<leader, wires, stage, session, shared, link, table, meeting>>

(* The peer's listener went with its session. *)
CannotDial(r) ==
    /\ stage[r] = "dial"
    /\ Calls(r) # {}
    /\ ~Listens(NextCall(r), r)
    /\ UNCHANGED meeting
    /\ Close(r)

Serve(r) ==
    /\ stage[r] = "dial"
    /\ ~TakesCalls(r)
    /\ Calls(r) = {}
    /\ stage' = [stage EXCEPT ![r] = "serving"]
    /\ UNCHANGED <<leader, wires, session, shared, rendezvous>>

TakeStep(r) ==
    /\ stage[r] = "serving"
    /\ Has(toRank[r], {"StepShard"})
    /\ Read(r)
    /\ stage' = [stage EXCEPT ![r] = "sharing"]
    /\ shared' = [shared EXCEPT ![r] = @ + 1]
    /\ UNCHANGED <<leader, toLeader, session, rendezvous>>

(* What the barriers of a step grant. *)
HasCome(p, r) == session[p] = session[r] /\ shared[p] >= shared[r]

FinishStep(r) ==
    /\ stage[r] = "sharing"
    /\ \A p \in Others(r) : HasCome(p, r)
    /\ stage' = [stage EXCEPT ![r] = "serving"]
    /\ session' = session
    /\ Reply(r, "VelocityPart", {})
    /\ UNCHANGED <<leader, toRank, shared, rendezvous>>

(* Variant with a fault: only the ranks below are watched. *)
PeerGoneBelow(r) ==
    /\ stage[r] = "sharing"
    /\ \E p \in Lower(r) : ~Listens(p, r)
    /\ UNCHANGED meeting
    /\ Close(r)

(* A peer's sockets closed under the step. *)
PeerGone(r) ==
    /\ stage[r] = "sharing"
    /\ \E p \in Others(r) : ~Listens(p, r)
    /\ UNCHANGED meeting
    /\ Close(r)

(* `CloseSession`: the DiT goes back, and the connection takes requests again. *)
TakeClose(r) ==
    /\ stage[r] = "serving"
    /\ Has(toRank[r], {"CloseSession"})
    /\ Read(r)
    /\ stage' = [stage EXCEPT ![r] = "ready"]
    /\ UNCHANGED <<leader, toLeader, session, shared, rendezvous>>

Due(r) == CASE stage[r] = "links" -> {"SessionLinks"}
            [] stage[r] = "table" -> {"SessionReady"}
            [] stage[r] = "serving" -> {"StepShard", "CloseSession"}
            [] OTHER -> {}

(* Any other message of the leader ends the session in an error. *)
Unexpected(r) ==
    /\ stage[r] \in {"links", "table", "serving"}
    /\ toRank[r] # <<>>
    /\ ~Has(toRank[r], Due(r))
    /\ UNCHANGED meeting
    /\ Close(r)

(* The leader's end of the connection is gone. *)
LeaderGone(r) ==
    /\ stage[r] \in {"ready", "links", "table", "serving"}
    /\ Over
    /\ toRank[r] = <<>>
    /\ UNCHANGED meeting
    /\ Close(r)

(* What fails by itself: reading the DiT, memory for the regions, the way to  *)
(* a peer, a step.                                                            *)
Fail(r) ==
    /\ \/ May(r, "dit") /\ stage[r] = "ready" /\ Has(toRank[r], {"OpenSession"})
       \/ May(r, "register") /\ stage[r] = "links" /\ Has(toRank[r], {"SessionLinks"})
       \/ May(r, "dial") /\ stage[r] = "dial" /\ Calls(r) # {}
       \/ May(r, "step") /\ stage[r] = "sharing"
    /\ UNCHANGED meeting
    /\ Close(r)

(* A rank that took the table finds no path between its card and another's. *)
CannotReachCard(r) ==
    /\ May(r, "meet") /\ stage[r] = "meet" /\ AllCame(r)
    /\ TakeTheTable(r)
    /\ Close(r)

-------------------------------------------------------------------------------
LeaderStep ==
    \/ OpenOn \/ CannotOpen \/ Hear \/ Tell \/ Stepped \/ Refused \/ Lost \/ TakeHere

RankStep(r) ==
    \/ TakeOpen(r) \/ TakeLinks(r) \/ TakeTable(r) \/ Meet(r) \/ GiveUp(r)
    \/ Accept(r) \/ Dial(r) \/ CannotDial(r) \/ Serve(r)
    \/ TakeStep(r) \/ FinishStep(r) \/ PeerGone(r) \/ TakeClose(r)
    \/ Unexpected(r) \/ LeaderGone(r)

Next == LeaderStep \/ LeaderStops \/ \E r \in Ranks : RankStep(r) \/ Fail(r) \/ CannotReachCard(r)

(* Threads and processes run; nothing has to fail. *)
Fairness == WF_vars(LeaderStep) /\ \A r \in Ranks : WF_vars(RankStep(r))

Spec == Init /\ [][Next]_vars /\ Fairness

-------------------------------------------------------------------------------
Messages ==
    [kind : {"Nothing", "OpenSession", "SessionLinks", "SessionReady", "StepShard",
             "VelocityPart", "CloseSession", "Error"},
     phase : 0 .. Phases, step : 0 .. Steps,
     body : SUBSET Ranks]

(* What the variables hold. *)
TypeOK ==
    /\ pc \in {"open", "links", "tellLinks", "ready", "tellTable", "tellStep", "parts",
               "stepped", "here", "done", "failed", "stopped"}
    /\ at \in Ranks /\ phase \in 1 .. Phases /\ step \in 1 .. Steps
    /\ heard \in [Ranks -> Messages]
    /\ toRank \in [Ranks -> Seq(Messages)]
    /\ toLeader \in [Ranks -> Seq(Messages)]
    /\ stage \in [Ranks -> InSession \cup {"ready", "closed"}]
    /\ session \in [Ranks -> 0 .. Phases]
    /\ shared \in [Ranks -> 0 .. Steps]
    /\ link \in [Ranks -> SUBSET Ranks]
    /\ table \in [Ranks -> SUBSET Ranks]
    /\ socket \in [Ranks -> SUBSET Ranks]
    /\ calls \in [Ranks -> Seq(Ranks)]
    /\ meeting \in [Runs -> [ranks : SUBSET Ranks, taken : 0 .. N - 1]]

Joined == {r \in Ranks : stage[r] \in {"serving", "sharing"}}

(* A rank that serves steps writes the memory of a peer only if the peer's    *)
(* table entry has the keys to it (`link_to` refuses otherwise), the peer has *)
(* the other end of the connection, and the two are of different processes.   *)
(* The two ends of a pair then agree on what goes down their socket, which    *)
(* the barrier counts on; and every pair has one, however else it is linked.  *)
Connected ==
    /\ \A r \in Joined : \A p \in link[r] :
         /\ p \in table[r] \ LocalPeers(r)
         /\ Listens(p, r) => r \in link[p]
    /\ \A r, p \in Joined : r # p /\ session[r] = session[p] => p \in socket[r]

(* What the leader relays and assembles was said in this session, and every   *)
(* part it puts together is of the step it handed out, though neither names   *)
(* its session or its step; and a connection that takes requests again finds  *)
(* nothing meant for the session that ended.                                  *)
OfThisSession ==
    /\ pc \in {"tellLinks", "tellTable", "tellStep", "stepped"} =>
           \A r \in Ranks : heard[r].phase = phase
    /\ pc = "stepped" => \A r \in Ranks : heard[r].step = step
    /\ \A r \in Ranks : stage[r] = "ready" /\ toRank[r] # <<>> => Has(toRank[r], {"OpenSession"})

(* The ranks of a process take the whole table of their run or none of them   *)
(* does, whenever the minute of each ends: one that still waits while another *)
(* took it will find it there.  A gathering is gone when nobody waits for it. *)
MeetAllOrNone ==
    /\ \A r \in Ranks : \A p \in LocalPeers(r) :
         stage[r] = "meet" /\ stage[p] \in {"dial", "serving", "sharing"}
             /\ session[r] = session[p] => AllCame(r)
    /\ \A run \in Runs : meeting[run] # NoMeeting =>
         \E r \in Ranks : stage[r] = "meet" /\ Run(r) = run

(* The leader comes to the end of its run, whoever fails. *)
LeaderEnds == <>Over

(* A rank that waits for the call of a lower one, with a lower one gone: the  *)
(* wait of the run that shows `EverySessionEnds` violated.                    *)
Stranded(r) == stage[r] = "dial" /\ \E p \in Lower(r) : ~Listens(p, r)

(* Whoever fails, and when, every session ends, but for one that is stranded. *)
SessionsEnd == \A r \in Ranks : stage[r] \in InSession ~> stage[r] \notin InSession \/ Stranded(r)

(* `session`: "The session borrows its DiT out of the table for the run and   *)
(* puts it back after".                                                       *)
EverySessionEnds == \A r \in Ranks : stage[r] \in InSession ~> stage[r] \notin InSession
===============================================================================
