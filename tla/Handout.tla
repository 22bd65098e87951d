-------------------------------- MODULE Handout --------------------------------
(***************************************************************************)
(* src/src/worker.rs and src/src/generate.rs: the chunks of a video handed *)
(* out over the workers.  A thread per worker asks for its share one chunk *)
(* at a time and sends what comes back down a channel; the leader walks    *)
(* the chunks in order, waits for each and puts it in its place.  A leader *)
(* whose own card runs out of memory asks again for the chunks it took and *)
(* walks from the start, while the threads of the first hand-out go on.    *)
(*                                                                         *)
(* A canvas comes back in one of three ways: over the socket; read out of  *)
(* memory the session staged it in, which the session holds until the      *)
(* leader says it has read it; or, from a session of the same process,     *)
(* left on its card under an id.  A canvas is named by the chunk it shows. *)
(***************************************************************************)
EXTENDS Integers, Sequences, FiniteSets

CONSTANTS N,        \* how many chunks the video has
          Paths,    \* how each worker's canvases come: "card", "memory" or "socket"
          Tries,    \* how often the leader's card may run out of memory
          MayFail   \* a subset of {"refuse", "join", "decode", "register", "read", "link"}

ASSUME HandoutAssumption ==
    /\ N \in Nat \ {0}
    /\ Tries \in Nat
    /\ Paths \in Seq({"card", "memory", "socket"})
    /\ MayFail \subseteq {"refuse", "join", "decode", "register", "read", "link"}

Chunks == 0 .. N - 1
Workers == DOMAIN Paths
Outs == 1 .. Tries + 1     \* the hand-outs: `remote`, and an `again` per time memory ran out
Asks == Outs \X Workers    \* a thread, its connection and the session at its other end
NoCanvas == -1

VARIABLES
    leader,    \* where the walk stands, at which chunk, and how often memory ran out
    video,     \* the canvases put in their places by this walk
    taken,     \* chunks whose canvases the leader took in any walk
    hands,     \* the hand-outs: what went out, what came, whether the leader still listens
    threads,   \* each thread: the chunks of its share to come, where it stands
    lines,     \* its connection, with what is under way in it
    sessions,  \* the session at the other end and what its staging holds
    handed,    \* HANDED: canvases on a card of this process, by their ids
    faults     \* what has gone wrong so far

walk == <<leader, video, taken>>
wire == <<lines, sessions, handed>>
vars == <<walk, hands, threads, wire, faults>>

-------------------------------------------------------------------------------
(* `RemoteCanvases::start_for` *)

DivUp(a, b) == (a + b - 1) \div b

(* Where each worker's share begins: what is left, divided over who is left. *)
Cuts(length, count) ==
    LET first[i \in 0 .. count] ==
          IF i = 0 THEN 0
          ELSE first[i - 1] + DivUp(length - first[i - 1], count - (i - 1))
    IN first

(* The share of the worker at place i of `count`. *)
Share(chunks, count, i) ==
    LET first == Cuts(Len(chunks), count)
    IN SubSeq(chunks, first[i - 1] + 1, first[i])

(* The place of worker w among those that answered, in the order they were named. *)
Place(w, answered) == Cardinality({v \in answered : v <= w})

InOrder(S) ==
    LET below[c \in 0 .. N] ==
          IF c = 0 THEN <<>>
          ELSE IF c - 1 \in S THEN Append(below[c - 1], c - 1) ELSE below[c - 1]
    IN below[N]
Members(s) == {s[i] : i \in DOMAIN s}

NoLine == [up |-> FALSE, open |-> FALSE, joined |-> {}, out |-> <<>>, back |-> <<>>]
NoThread == [at |-> "over", mine |-> <<>>, request |-> 0, canvas |-> NoCanvas, ok |-> TRUE]

(* Those that answer the handshake, which some may refuse. *)
Answering == IF "refuse" \in MayFail THEN SUBSET Workers ELSE {Workers}

(* The ends of a connection that took the other's addresses; a canvas can be read only when
   both did.                                                                              *)
Ends == {"leader", "worker"}
Joining == IF "join" \in MayFail THEN SUBSET Ends ELSE {Ends}

(* A hand-out nobody listens to: none yet, or one that is dropped. *)
Silent == [delegated |-> {}, channel |-> <<>>, arrived |-> [c \in Chunks |-> NoCanvas],
           listening |-> FALSE]

(* The `again` before this one, if there was one, is dropped for it. *)
HandOut(h, chunks, answered, joined) ==
    LET count == Cardinality(answered)
        mine(w) == Share(chunks, count, Place(w, answered))
        started == {w \in answered : mine(w) # <<>>}
    IN /\ hands' = [k \in Outs |->
             IF k = h
             THEN [delegated |-> UNION {Members(mine(w)) : w \in started}, channel |-> <<>>,
                   arrived |-> [c \in Chunks |-> NoCanvas], listening |-> TRUE]
             ELSE IF k = 1 THEN hands[k] ELSE Silent]
       /\ threads' = [t \in Asks |->
             IF t[1] = h /\ t[2] \in started
             THEN [at |-> "idle", mine |-> mine(t[2]), request |-> 1, canvas |-> NoCanvas,
                   ok |-> TRUE]
             ELSE threads[t]]
       /\ lines' = [t \in Asks |->
             IF t[1] = h /\ t[2] \in started
             THEN [up |-> TRUE, open |-> TRUE, out |-> <<>>, back |-> <<>>,
                   joined |-> IF Paths[t[2]] = "memory" THEN joined ELSE {}]
             ELSE lines[t]]
       /\ sessions' = [t \in Asks |->
             IF t[1] = h /\ t[2] \in started THEN [at |-> "ready", staging |-> NoCanvas]
                                             ELSE sessions[t]]
       /\ faults' = faults \cup (IF answered # Workers THEN {"refuse"} ELSE {})
                           \cup (IF joined # Ends THEN {"join"} ELSE {})

Init ==
    /\ leader = [at |-> "starting", chunk |-> 0, outs |-> 0]
    /\ video = <<>> /\ taken = {}
    /\ hands = [h \in Outs |-> Silent]
    /\ threads = [t \in Asks |-> NoThread]
    /\ lines = [t \in Asks |-> NoLine]
    /\ sessions = [t \in Asks |-> [at |-> "over", staging |-> NoCanvas]]
    /\ handed = {} /\ faults = {}

Start ==
    /\ leader.at = "starting"
    /\ leader' = [leader EXCEPT !.at = "begin"]
    /\ \E answered \in Answering, joined \in Joining :
         HandOut(1, InOrder(Chunks), answered, joined)
    /\ UNCHANGED <<video, taken, handed>>

-------------------------------------------------------------------------------
(* A thread of a hand-out: `Worker::decode_chunk`, and `call` and `read_canvas` in it. *)

ThreadsAnd == <<walk, hands, faults>>

(* What came of asking: the thread has it to tell, with its canvas or without. *)
Got(t, c) ==
    threads' = [threads EXCEPT ![t] = [@ EXCEPT !.at = "tell", !.canvas = c, !.ok = TRUE]]
Failed(t) ==
    threads' = [threads EXCEPT ![t] = [@ EXCEPT !.at = "tell", !.canvas = NoCanvas, !.ok = FALSE]]

Ask(t) ==
    /\ threads[t].at = "idle"
    /\ IF lines[t].up
       THEN LET request == threads[t].request + 1
            IN /\ threads' = [threads EXCEPT ![t] =
                     [@ EXCEPT !.at = "waiting", !.request = request]]
               /\ lines' = [lines EXCEPT ![t].out =
                     Append(@, [kind |-> "decode", request |-> request,
                                chunk |-> Head(threads[t].mine)])]
       ELSE Failed(t) /\ UNCHANGED lines
    /\ UNCHANGED <<sessions, handed, ThreadsAnd>>

(* Variant with a fault: a canvas handed over is copied and stays in HANDED. *)
HearAndLeave(t) ==
    /\ threads[t].at = "waiting"
    /\ lines[t].back # <<>>
    /\ LET reply == Head(lines[t].back)
       IN \/ /\ reply.kind = "error" \/ reply.request # threads[t].request
             /\ Failed(t)
          \/ /\ reply.kind # "error" /\ reply.request = threads[t].request
             /\ CASE reply.kind = "pointed" /\ "leader" \in lines[t].joined ->
                       threads' = [threads EXCEPT ![t].at = "reading"]
                  [] reply.kind = "pointed" /\ "leader" \notin lines[t].joined -> Failed(t)
                  [] OTHER -> Got(t, reply.canvas)
    /\ lines' = [lines EXCEPT ![t].back = Tail(@)]
    /\ UNCHANGED <<sessions, handed, ThreadsAnd>>

(* An answer is refused when it is an error, or an answer to another request.  One that points
   at memory is followed only if this end joined the connection too.                          *)
Hear(t) ==
    /\ threads[t].at = "waiting"
    /\ lines[t].back # <<>>
    /\ LET reply == Head(lines[t].back)
           id == [by |-> t, chunk |-> reply.canvas]
       IN \/ /\ reply.kind = "error" \/ reply.request # threads[t].request
             /\ Failed(t) /\ UNCHANGED handed
          \/ /\ reply.kind # "error" /\ reply.request = threads[t].request
             /\ \/ /\ reply.kind = "sent"
                   /\ Got(t, reply.canvas) /\ UNCHANGED handed
                \/ /\ reply.kind = "handed" /\ id \in handed
                   /\ Got(t, reply.canvas) /\ handed' = handed \ {id}
                \/ /\ \/ reply.kind = "handed" /\ id \notin handed
                      \/ reply.kind = "pointed" /\ "leader" \notin lines[t].joined
                   /\ Failed(t) /\ UNCHANGED handed
                \/ /\ reply.kind = "pointed" /\ "leader" \in lines[t].joined
                   /\ threads' = [threads EXCEPT ![t].at = "reading"]
                   /\ UNCHANGED handed
    /\ lines' = [lines EXCEPT ![t].back = Tail(@)]
    /\ UNCHANGED <<sessions, ThreadsAnd>>

(* The connection is gone and nothing more comes. *)
Lose(t) ==
    /\ threads[t].at = "waiting"
    /\ lines[t].back = <<>> /\ ~lines[t].up
    /\ Failed(t)
    /\ UNCHANGED <<wire, ThreadsAnd>>

(* `read_into_staging`: what the worker's memory holds by now, and then the word that it was
   read, which is a request of its own.                                                      *)
Read(t) ==
    /\ threads[t].at = "reading"
    /\ \/ /\ lines[t].up
          /\ threads' = [threads EXCEPT ![t] =
                [@ EXCEPT !.at = "tell", !.canvas = sessions[t].staging, !.ok = TRUE,
                          !.request = threads[t].request + 1]]
          /\ lines' = [lines EXCEPT ![t].out =
                Append(@, [kind |-> "release", request |-> threads[t].request + 1,
                           chunk |-> NoCanvas])]
          /\ UNCHANGED faults
       \/ /\ "read" \in MayFail \/ ~lines[t].up
          /\ Failed(t)
          /\ faults' = faults \cup {"read"}
          /\ UNCHANGED lines
    /\ UNCHANGED <<walk, hands, sessions, handed>>

(* The thread ends with its share, with the first chunk that failed, or when nobody listens;
   its connection ends with it.                                                              *)
Tell(t) ==
    LET h == t[1]
        th == threads[t]
        last == ~hands[h].listening \/ ~th.ok \/ Len(th.mine) = 1
    IN /\ th.at = "tell"
       /\ hands' = IF hands[h].listening
                   THEN [hands EXCEPT ![h].channel =
                          Append(@, [chunk |-> Head(th.mine), ok |-> th.ok, canvas |-> th.canvas])]
                   ELSE hands
       /\ threads' = [threads EXCEPT ![t] =
             [@ EXCEPT !.at = IF last THEN "over" ELSE "idle",
                       !.mine = IF last THEN <<>> ELSE Tail(th.mine),
                       !.canvas = NoCanvas, !.ok = TRUE]]
       /\ lines' = IF last THEN [lines EXCEPT ![t].open = FALSE] ELSE lines
       /\ UNCHANGED <<walk, sessions, handed, faults>>

-------------------------------------------------------------------------------
(* A session of a worker: the `DecodeVideo` arms of `session`. *)

SessionAnd == <<walk, hands, threads>>

Answer(t, kind, c) ==
    [lines EXCEPT ![t] =
        [@ EXCEPT !.out = Tail(lines[t].out),
                  !.back = Append(lines[t].back,
                                  [kind |-> kind, canvas |-> c,
                                   request |-> Head(lines[t].out).request])]]

Asked(t) ==
    /\ sessions[t].at = "ready"
    /\ lines[t].up /\ lines[t].out # <<>> /\ Head(lines[t].out).kind = "decode"

DecodeFails(t) ==
    /\ "decode" \in MayFail
    /\ Asked(t)
    /\ lines' = Answer(t, "error", NoCanvas)
    /\ faults' = faults \cup {"decode"}
    /\ UNCHANGED <<sessions, handed, SessionAnd>>

(* Left on the card of a process that is the leader's too. *)
DecodeHere(t) ==
    /\ Asked(t) /\ Paths[t[2]] = "card"
    /\ LET c == Head(lines[t].out).chunk
       IN /\ handed' = handed \cup {[by |-> t, chunk |-> c]}
          /\ lines' = Answer(t, "handed", c)
    /\ UNCHANGED <<sessions, faults, SessionAnd>>

(* Variant with a fault: only memory registered anew is copied into. *)
DecodeStagedOnce(t) ==
    /\ Asked(t) /\ "worker" \in lines[t].joined
    /\ sessions' = [sessions EXCEPT ![t] =
          [at |-> "held",
           staging |-> IF @.staging = NoCanvas THEN Head(lines[t].out).chunk ELSE @.staging]]
    /\ lines' = Answer(t, "pointed", NoCanvas)
    /\ UNCHANGED <<handed, faults, SessionAnd>>

(* Copied into the one registered buffer of the session, which stands still until the leader
   has read it.                                                                              *)
DecodeStaged(t) ==
    /\ Asked(t) /\ "worker" \in lines[t].joined
    /\ sessions' = [sessions EXCEPT ![t] =
          [at |-> "held", staging |-> Head(lines[t].out).chunk]]
    /\ lines' = Answer(t, "pointed", NoCanvas)
    /\ UNCHANGED <<handed, faults, SessionAnd>>

(* The first canvas registers the memory; one that cannot is an error and the session stays. *)
RegisterFails(t) ==
    /\ "register" \in MayFail
    /\ Asked(t) /\ "worker" \in lines[t].joined /\ sessions[t].staging = NoCanvas
    /\ lines' = Answer(t, "error", NoCanvas)
    /\ faults' = faults \cup {"register"}
    /\ UNCHANGED <<sessions, handed, SessionAnd>>

DecodeSent(t) ==
    /\ Asked(t) /\ Paths[t[2]] # "card" /\ "worker" \notin lines[t].joined
    /\ lines' = Answer(t, "sent", Head(lines[t].out).chunk)
    /\ UNCHANGED <<sessions, handed, faults, SessionAnd>>

(* A session that holds memory takes nothing but the word that it was read. *)
Released(t) ==
    /\ sessions[t].at = "held"
    /\ lines[t].out # <<>>
    /\ \/ /\ Head(lines[t].out).kind = "release"
          /\ sessions' = [sessions EXCEPT ![t].at = "ready"]
          /\ lines' = [lines EXCEPT ![t].out = Tail(@)]
       \/ /\ Head(lines[t].out).kind # "release"
          /\ sessions' = [sessions EXCEPT ![t] = [at |-> "over", staging |-> NoCanvas]]
          /\ lines' = [lines EXCEPT ![t] = [@ EXCEPT !.up = FALSE, !.out = <<>>]]
    /\ UNCHANGED <<handed, faults, SessionAnd>>

(* Variant with a fault: a session that holds memory waits for the word alone. *)
ClosedWhenReady(t) ==
    /\ sessions[t].at = "ready"
    /\ ~lines[t].open /\ lines[t].out = <<>>
    /\ sessions' = [sessions EXCEPT ![t] = [at |-> "over", staging |-> NoCanvas]]
    /\ lines' = [lines EXCEPT ![t].up = FALSE]
    /\ UNCHANGED <<handed, faults, SessionAnd>>

(* A leader that closed the connection ends the session, whatever it waits for. *)
Closed(t) ==
    /\ sessions[t].at \in {"ready", "held"}
    /\ ~lines[t].open /\ lines[t].out = <<>>
    /\ sessions' = [sessions EXCEPT ![t] = [at |-> "over", staging |-> NoCanvas]]
    /\ lines' = [lines EXCEPT ![t].up = FALSE]
    /\ UNCHANGED <<handed, faults, SessionAnd>>

(* The other machine, or the way to it, is gone, and what was under way with it. *)
Break(t) ==
    /\ "link" \in MayFail /\ Paths[t[2]] # "card"
    /\ sessions[t].at # "over"
    /\ sessions' = [sessions EXCEPT ![t] = [at |-> "over", staging |-> NoCanvas]]
    /\ lines' = [lines EXCEPT ![t] = [@ EXCEPT !.up = FALSE, !.out = <<>>, !.back = <<>>]]
    /\ faults' = faults \cup {"link"}
    /\ UNCHANGED <<handed, SessionAnd>>

Session(t) ==
    \/ DecodeFails(t) \/ DecodeHere(t) \/ DecodeStaged(t) \/ RegisterFails(t) \/ DecodeSent(t)
    \/ Released(t) \/ Closed(t)
Thread(t) == Ask(t) \/ Hear(t) \/ Lose(t) \/ Read(t) \/ Tell(t)

-------------------------------------------------------------------------------
(* The leader: `decode_device_with` under `with_room` in generate.rs, and
   `RemoteCanvases::take` in it.                                                 *)

LeaderAnd == <<threads, wire>>

(* The hand-out a chunk is asked of: the last `again` for those it asked for, the first
   for the rest.                                                                        *)
HandOf(c) ==
    LET last == leader.outs + 1
    IN IF last > 1 /\ hands[last].listening /\ c \in hands[last].delegated THEN last ELSE 1

Begin ==
    /\ leader.at = "begin"
    /\ leader' = [leader EXCEPT !.at = "walk", !.chunk = 0]
    /\ video' = <<>>
    /\ UNCHANGED <<taken, hands, faults, LeaderAnd>>

Put(c) ==
    /\ video' = Append(video, c)
    /\ leader' = [leader EXCEPT !.at = "walk", !.chunk = @ + 1]

(* Variant with a fault: what was taken is not remembered. *)
TakeAndForget ==
    LET c == leader.chunk
        h == HandOf(c)
    IN /\ leader.at = "walk" /\ c < N
       /\ c \in hands[h].delegated /\ hands[h].arrived[c] # NoCanvas
       /\ Put(hands[h].arrived[c])
       /\ hands' = [hands EXCEPT ![h].arrived[c] = NoCanvas]
       /\ UNCHANGED <<taken, faults, LeaderAnd>>

Take ==
    LET c == leader.chunk
        h == HandOf(c)
    IN /\ leader.at = "walk" /\ c < N
       /\ c \in hands[h].delegated /\ hands[h].arrived[c] # NoCanvas
       /\ Put(hands[h].arrived[c])
       /\ hands' = [hands EXCEPT ![h].arrived[c] = NoCanvas]
       /\ taken' = taken \cup {c}
       /\ UNCHANGED <<faults, LeaderAnd>>

(* Everybody stops listening and the threads come to their end on their own. *)
Stop(outcome) ==
    /\ leader' = [leader EXCEPT !.at = outcome]
    /\ hands' = [h \in Outs |-> Silent]

(* The next of what came, whichever chunk it is; a chunk that failed ends the decode. *)
Receive ==
    LET c == leader.chunk
        h == HandOf(c)
    IN /\ leader.at = "walk" /\ c < N
       /\ c \in hands[h].delegated /\ hands[h].arrived[c] = NoCanvas
       /\ hands[h].channel # <<>>
       /\ LET came == Head(hands[h].channel)
          IN \/ /\ came.ok
                /\ hands' = [hands EXCEPT ![h].channel = Tail(@),
                                          ![h].arrived[came.chunk] = came.canvas]
                /\ UNCHANGED leader
             \/ ~came.ok /\ Stop("failed")
       /\ UNCHANGED <<video, taken, faults, LeaderAnd>>

(* The channel is closed once every thread of the hand-out has ended. *)
NeverCame ==
    LET c == leader.chunk
        h == HandOf(c)
    IN /\ leader.at = "walk" /\ c < N
       /\ c \in hands[h].delegated /\ hands[h].arrived[c] = NoCanvas
       /\ hands[h].channel = <<>>
       /\ \A w \in Workers : threads[<<h, w>>].at = "over"
       /\ Stop("failed")
       /\ UNCHANGED <<video, taken, faults, LeaderAnd>>

(* A chunk that was handed to nobody. *)
DecodeItself ==
    /\ leader.at = "walk" /\ leader.chunk < N
    /\ leader.chunk \notin hands[HandOf(leader.chunk)].delegated
    /\ Put(leader.chunk)
    /\ UNCHANGED <<taken, hands, faults, LeaderAnd>>

Finish ==
    /\ leader.at = "walk" /\ leader.chunk = N
    /\ Stop("done")
    /\ UNCHANGED <<video, taken, faults, LeaderAnd>>

(* Where the card's memory may run out: at the start, for a chunk of its own, at the end. *)
MayRunOut ==
    \/ leader.at = "begin"
    \/ /\ leader.at = "walk"
       /\ leader.chunk < N => leader.chunk \notin hands[HandOf(leader.chunk)].delegated

RunOut ==
    /\ MayRunOut /\ leader.outs < Tries
    /\ leader' = [leader EXCEPT !.at = "room", !.outs = @ + 1]
    /\ IF taken # {}
       THEN \E answered \in Answering, joined \in Joining :
              HandOut(leader.outs + 2, InOrder(taken), answered, joined)
       ELSE UNCHANGED <<hands, threads, lines, sessions, faults>>
    /\ UNCHANGED <<video, taken, handed>>

(* `make_room`: the walk starts over, unless there was nothing left to let go of. *)
MakeRoom ==
    /\ leader.at = "room"
    /\ \/ leader' = [leader EXCEPT !.at = "begin"] /\ UNCHANGED <<hands, faults>>
       \/ Stop("failed") /\ faults' = faults \cup {"room"}
    /\ UNCHANGED <<video, taken, LeaderAnd>>

Leader ==
    \/ Begin \/ Take \/ Receive \/ NeverCame \/ DecodeItself \/ Finish \/ MakeRoom

Ended == leader.at \in {"done", "failed"}
AllOver == \A t \in Asks : threads[t].at = "over" /\ sessions[t].at = "over"

(* `end_threads_here`, when there is nobody left to wait for. *)
Exited == Ended /\ AllOver /\ UNCHANGED vars

Next ==
    \/ Start \/ Leader \/ RunOut
    \/ \E t \in Asks : Thread(t) \/ Session(t) \/ Break(t)
    \/ Exited

(* Threads and sessions are scheduled, a decode ends, and the leader goes on; nothing has to
   fail.                                                                                      *)
Fairness ==
    /\ WF_vars(Start) /\ WF_vars(Leader)
    /\ \A t \in Asks : /\ WF_vars(Thread(t))
                       /\ WF_vars(DecodeHere(t) \/ DecodeStaged(t) \/ DecodeSent(t))
                       /\ WF_vars(Released(t) \/ Closed(t))

Spec == Init /\ [][Next]_vars /\ Fairness

-------------------------------------------------------------------------------
(* Properties *)

(* The state's types: the walk stays inside the chunks, and every message is one the
   protocol has.                                                                      *)
Message == [kind : {"decode", "release"}, request : Nat, chunk : Chunks \cup {NoCanvas}]
Reply == [kind : {"error", "handed", "pointed", "sent"}, request : Nat,
          canvas : Chunks \cup {NoCanvas}]
TypeOK ==
    /\ leader.at \in {"starting", "begin", "walk", "room", "done", "failed"}
    /\ leader.chunk \in 0 .. N /\ leader.outs \in 0 .. Tries
    /\ taken \subseteq Chunks
    /\ \A h \in Outs :
         /\ hands[h].delegated \subseteq Chunks
         /\ \A i \in DOMAIN hands[h].channel :
              LET came == hands[h].channel[i]
              IN came.chunk \in Chunks /\ came.ok = (came.canvas \in Chunks)
    /\ \A t \in Asks :
         /\ threads[t].at \in {"idle", "waiting", "reading", "tell", "over"}
         /\ sessions[t].at \in {"ready", "held", "over"}
         /\ sessions[t].staging \in Chunks \cup {NoCanvas}
         /\ \A i \in DOMAIN lines[t].out : lines[t].out[i] \in Message
         /\ \A i \in DOMAIN lines[t].back : lines[t].back[i] \in Reply

(* The video is made of every chunk's own canvas in its own place, whoever decoded it, in
   whatever order the canvases came, and however often the walk started over.             *)
InItsPlace ==
    /\ \A i \in DOMAIN video : video[i] = i - 1
    /\ leader.at = "done" => Len(video) = N

(* A decode fails only because something did: a worker, a connection, or the room for it.
   Starting over with canvases already taken is not a reason.                             *)
FailsForAReason == leader.at = "failed" => faults # {}

(* A canvas left on a card is on its way to a thread that will take it: when the threads are
   over none stays in HANDED, where nobody would ever look for it.                           *)
NothingHandedStays ==
    \A id \in handed :
        /\ threads[id.by].at = "waiting"
        /\ \E i \in DOMAIN lines[id.by].back :
             lines[id.by].back[i].kind = "handed" /\ lines[id.by].back[i].canvas = id.chunk

(* Every decode ends, and the threads and sessions of all its hand-outs do, those nobody
   listens to any more among them, so that the process can exit.                          *)
EverythingEnds == <>[](Ended /\ AllOver)
================================================================================
