--------------------------- MODULE RendezvousProofs ---------------------------
(***************************************************************************)
(* For any number of ranks, in any processes, with or without ports, and   *)
(* whatever fails: what the leader relays and assembles is of its session  *)
(* and step, the ranks that serve are connected the same way from both     *)
(* ends, and the ranks of a process meet as a whole or not at all.         *)
(*                                                                         *)
(* A run is either in order, each rank at one of the few places its        *)
(* leader's loops leave it, or some rank is gone that the leader has heard *)
(* the last of: such a run never gets past asking for links.  What a       *)
(* refused session left on a connection is kept apart by its order.        *)
(***************************************************************************)
EXTENDS Rendezvous, FiniteSetTheorems, SequenceTheorems, TLAPS

-------------------------------------------------------------------------------
(* What is on the way to a rank.                                             *)

Told == {"SessionLinks", "SessionReady", "StepShard"}
Bounds == {"OpenSession", "CloseSession"}

(* No session is open for r, as far as the leader goes. *)
Fresh(r) == pc = "here" \/ Over \/ (pc = "open" /\ at =< r)

(* What a session sends comes between its OpenSession and its CloseSession. *)
InLine(q) ==
    /\ \A i \in 1 .. Len(q) : q[i].kind \in Told \cup Bounds
    /\ \A i, j \in 1 .. Len(q) : i < j /\ q[j].kind \in Told => q[i].kind \in Told
    /\ \A i, j \in 1 .. Len(q) :
         j = i + 1 /\ q[i].kind = "CloseSession" => q[j].kind = "OpenSession"

Orderly(r) ==
    LET q == toRank[r] IN
    /\ InLine(q)
    /\ stage[r] = "ready" /\ q # <<>> => Head(q).kind = "OpenSession"
    /\ stage[r] = "ready" /\ q = <<>> => Fresh(r)
    /\ q # <<>> /\ q[Len(q)].kind = "CloseSession" => Fresh(r)

(* Sessions up to `last` come in order after session s, and what is told is of s. *)
InTime(q, s, last) ==
    /\ \A i \in 1 .. Len(q) : q[i].kind \in Told => q[i].phase = s
    /\ \A i \in 1 .. Len(q) : q[i].kind = "OpenSession" => s < q[i].phase /\ q[i].phase =< last
    /\ \A i, j \in 1 .. Len(q) :
         i < j /\ q[i].kind = "OpenSession" /\ q[j].kind = "OpenSession" =>
           q[i].phase < q[j].phase

InTurn(r) ==
    LET last == IF pc = "open" /\ at =< r THEN phase - 1 ELSE phase IN
    session[r] =< last /\ InTime(toRank[r], session[r], last)

-------------------------------------------------------------------------------
(* What is said and what comes of it.                                        *)

LinksOf(r) == {p \in Others(r) : r \in Opened(p)}
Keyed == {p \in Ranks : Keys(p) # {}}

(* p has answered the links of that session, or is in a later one. *)
PastLinks(p, ph) == session[p] > ph \/ (session[p] = ph /\ stage[p] # "links")

Relayed(q, r) ==
    \A i \in 1 .. Len(q) :
        /\ q[i].kind = "SessionLinks" => q[i].body = LinksOf(r)
        /\ q[i].kind = "SessionReady" => q[i].body = Keyed

TableComes(q) == \E i \in 1 .. Len(q) : q[i].kind = "SessionReady"

Said(r) ==
    /\ Relayed(toRank[r], r)
    /\ TableComes(toRank[r]) => \A p \in Ranks : PastLinks(p, session[r])

HasTable == {"meet", "dial", "serving", "sharing"}

Linked(r) ==
    /\ stage[r] \in HasTable \cup {"table"} => link[r] = Opened(r) \cap LinksOf(r)
    /\ stage[r] \in HasTable =>
         table[r] = Keyed \ {r} /\ \A p \in Ranks : PastLinks(p, session[r])
    /\ stage[r] \in {"serving", "sharing"} => Others(r) \subseteq socket[r]

-------------------------------------------------------------------------------
(* The places of a run in order.                                             *)

Open == Message("OpenSession", phase, 0, {})
LastClose == Message("CloseSession", phase - 1, 0, {})
Links(r) == Message("SessionLinks", phase, 0, LinksOf(r))
Table == Message("SessionReady", phase, 0, Keyed)
Step == Message("StepShard", phase, step, {})

Answers(r, kind, body) ==
    /\ Len(toLeader[r]) = 1
    /\ toLeader[r][1].kind = kind /\ toLeader[r][1].phase = phase /\ toLeader[r][1].body = body

(* It failed, and the leader has not heard of it. *)
Gone(r) ==
    /\ stage[r] = "closed" /\ toRank[r] = <<>>
    /\ Len(toLeader[r]) = 1 /\ toLeader[r][1].kind = "Error"

Unopened(r) ==
    /\ toLeader[r] = <<>>
    /\ \/ stage[r] = "ready" /\ toRank[r] = <<>>
       \/ stage[r] = "serving" /\ toRank[r] = <<LastClose>>

AskedLinks(r) ==
    \/ /\ toLeader[r] = <<>>
       /\ \/ stage[r] = "ready" /\ toRank[r] = <<Open>>
          \/ stage[r] = "serving" /\ toRank[r] = <<LastClose, Open>>
    \/ /\ stage[r] = "links" /\ session[r] = phase /\ shared[r] = 0
       /\ toRank[r] = <<>> /\ Answers(r, "SessionLinks", Opened(r))
    \/ Gone(r)

HeardLinks(r) ==
    /\ stage[r] = "links" /\ session[r] = phase /\ shared[r] = 0
    /\ toRank[r] = <<>> /\ toLeader[r] = <<>>
    /\ heard[r].phase = phase /\ heard[r].body = Opened(r)

AskedReady(r) ==
    /\ session[r] = phase
    /\ \/ /\ stage[r] = "links" /\ shared[r] = 0
          /\ toRank[r] = <<Links(r)>> /\ toLeader[r] = <<>>
       \/ /\ stage[r] = "table" /\ shared[r] = 0
          /\ toRank[r] = <<>> /\ Answers(r, "SessionReady", Keys(r))
       \/ Gone(r)

HeardReady(r) ==
    /\ stage[r] = "table" /\ session[r] = phase /\ shared[r] = 0
    /\ toRank[r] = <<>> /\ toLeader[r] = <<>>
    /\ heard[r].phase = phase /\ heard[r].body = Keys(r)

ToldTable(r) ==
    /\ session[r] = phase /\ heard[r].phase = phase
    /\ \/ /\ shared[r] = 0 /\ toLeader[r] = <<>>
          /\ \/ stage[r] = "table" /\ toRank[r] = <<Table>>
             \/ stage[r] \in {"meet", "dial", "serving"} /\ toRank[r] = <<>>
       \/ Gone(r)

AskedStep(r) ==
    /\ session[r] = phase /\ heard[r].phase = phase
    /\ \/ /\ shared[r] = step - 1 /\ toLeader[r] = <<>>
          /\ \/ stage[r] = "table" /\ toRank[r] = <<Table, Step>>
             \/ stage[r] \in {"meet", "dial", "serving"} /\ toRank[r] = <<Step>>
       \/ stage[r] = "sharing" /\ shared[r] = step /\ toRank[r] = <<>> /\ toLeader[r] = <<>>
       \/ /\ stage[r] = "serving" /\ shared[r] = step /\ toRank[r] = <<>>
          /\ Answers(r, "VelocityPart", {}) /\ toLeader[r][1].step = step
       \/ Gone(r)

DoneStep(r, s) ==
    /\ stage[r] = "serving" /\ session[r] = phase /\ shared[r] = s
    /\ toRank[r] = <<>> /\ toLeader[r] = <<>>
    /\ heard[r].phase = phase /\ heard[r].step = s

(* What the leader passes on it heard from every rank. *)
Known(r) ==
    /\ pc = "tellLinks" => heard[r].phase = phase /\ heard[r].body = Opened(r)
    /\ pc = "tellTable" => heard[r].phase = phase /\ heard[r].body = Keys(r)

(* Where the leader's loop has left r. *)
Placed(r) ==
    CASE pc = "open" -> IF r < at THEN AskedLinks(r) ELSE Unopened(r)
      [] pc = "links" -> IF r < at THEN HeardLinks(r) ELSE AskedLinks(r)
      [] pc = "tellLinks" -> IF r < at THEN AskedReady(r) ELSE HeardLinks(r)
      [] pc = "ready" -> IF r < at THEN HeardReady(r) ELSE AskedReady(r)
      [] pc = "tellTable" -> IF r < at THEN ToldTable(r) ELSE HeardReady(r)
      [] pc = "tellStep" -> IF r < at THEN AskedStep(r)
                            ELSE IF step = 1 THEN ToldTable(r) ELSE DoneStep(r, step - 1)
      [] pc = "parts" -> IF r < at THEN DoneStep(r, step) ELSE AskedStep(r)
      [] pc = "stepped" -> DoneStep(r, step)
      [] OTHER -> FALSE

Clean(r) == Known(r) /\ Placed(r)

(* A rank is gone, and the leader will hear nothing of it. *)
Dead(r) == stage[r] = "closed" /\ toLeader[r] = <<>>

Marred == pc \in {"here", "open", "links"} /\ \E r \in Ranks : Dead(r) /\ (pc = "links" => at =< r)

InOrder == Over \/ Marred \/ \A r \in Ranks : Clean(r)

-------------------------------------------------------------------------------
(* The gatherings.                                                           *)

Waiting(run) == {r \in run[1] : stage[r] = "meet" /\ session[r] = run[2]}

(* It came to the meeting of that session. *)
Came(r, ph) == session[r] > ph \/ (session[r] = ph /\ stage[r] \notin {"links", "table"})

HasMet == {"dial", "serving", "sharing"}

Met(run) == \E r \in run[1] : stage[r] \in HasMet /\ session[r] = run[2]
Arrived(run) == \A r \in run[1] : Came(r, run[2])

Gathered(run) ==
    LET m == meeting[run] IN
    /\ m.ranks \subseteq run[1]
    /\ m.taken = 0 => m.ranks = Waiting(run)
    /\ m.taken # 0 => /\ m.ranks = run[1] /\ Waiting(run) # {} /\ Arrived(run)
                      /\ Cardinality(Waiting(run)) = Cardinality(run[1]) - m.taken
    /\ Met(run) => Arrived(run) /\ (m.taken = 0 => Waiting(run) = {})
    /\ Cardinality(run[1]) = 1 => Waiting(run) = {}

Kinds == {"Nothing", "OpenSession", "SessionLinks", "SessionReady", "StepShard",
          "VelocityPart", "CloseSession", "Error"}

Words == [kind : Kinds, phase : Int, step : Int, body : SUBSET Ranks]

TypesHold ==
    /\ pc \in {"open", "links", "tellLinks", "ready", "tellTable", "tellStep", "parts",
               "stepped", "here", "done", "failed", "stopped"}
    /\ at \in Ranks /\ phase \in 1 .. Phases /\ step \in 1 .. Steps
    /\ pc \notin {"tellStep", "parts", "stepped"} /\ ~Over => step = 1
    /\ pc \in {"stepped", "here"} => at = 0
    /\ heard \in [Ranks -> Words]
    /\ toRank \in [Ranks -> Seq(Words)]
    /\ toLeader \in [Ranks -> Seq(Words)]
    /\ stage \in [Ranks -> InSession \cup {"ready", "closed"}]
    /\ session \in [Ranks -> 0 .. Phases]
    /\ shared \in [Ranks -> Int]
    /\ link \in [Ranks -> SUBSET Ranks]
    /\ table \in [Ranks -> SUBSET Ranks]
    /\ socket \in [Ranks -> SUBSET Ranks]
    /\ calls \in [Ranks -> Seq(Ranks)]
    /\ meeting \in [Runs -> [ranks : SUBSET Ranks, taken : Nat]]
    /\ \A r \in Ranks : stage[r] \in InSession => session[r] \in 1 .. Phases

SInv ==
    /\ TypesHold
    /\ \A r \in Ranks : Orderly(r) /\ InTurn(r) /\ Said(r) /\ Linked(r)
    /\ InOrder

IInv == SInv /\ \A run \in Runs : Gathered(run)

-------------------------------------------------------------------------------
(* Queues.                                                                   *)

LEMMA Tails ==
    ASSUME NEW q \in Seq(Words), q # <<>>
    PROVE  /\ Tail(q) \in Seq(Words) /\ Len(Tail(q)) = Len(q) - 1
           /\ \A i \in 1 .. Len(Tail(q)) : Tail(q)[i] = q[i + 1] /\ i + 1 \in 1 .. Len(q)
           /\ Head(q) = q[1] /\ Head(q) \in Words /\ Len(q) \in Nat \ {0}
<1>1. Len(q) \in Nat \ {0} /\ Head(q) = q[1] /\ Head(q) \in Words
  OBVIOUS
<1>2. Tail(q) \in Seq(Words) /\ Len(Tail(q)) = Len(q) - 1
  OBVIOUS
<1>3. \A i \in 1 .. Len(Tail(q)) : Tail(q)[i] = q[i + 1]
  BY <1>1, <1>2
<1>4. \A i \in 1 .. Len(Tail(q)) : i + 1 \in 1 .. Len(q)
  BY <1>1, <1>2
<1> QED  BY <1>1, <1>2, <1>3, <1>4

LEMMA Appends ==
    ASSUME NEW q \in Seq(Words), NEW m \in Words
    PROVE  /\ Append(q, m) \in Seq(Words) /\ Len(Append(q, m)) = Len(q) + 1
           /\ \A i \in 1 .. Len(q) : Append(q, m)[i] = q[i]
           /\ Append(q, m)[Len(q) + 1] = m
           /\ Append(q, m) # <<>>
           /\ q # <<>> => Head(Append(q, m)) = Head(q)
           /\ q = <<>> => Head(Append(q, m)) = m
           /\ Len(q) \in Nat /\ (q = <<>> <=> Len(q) = 0)
<1>1. Len(q) \in Nat /\ (q = <<>> <=> Len(q) = 0)
  OBVIOUS
<1>2. Append(q, m) \in Seq(Words) /\ Len(Append(q, m)) = Len(q) + 1
  OBVIOUS
<1>3. /\ \A i \in 1 .. Len(q) : Append(q, m)[i] = q[i]
      /\ Append(q, m)[Len(q) + 1] = m
  BY <1>1
<1>4. Append(q, m) # <<>>
  BY <1>1, <1>2
<1>5. q # <<>> => Head(q) = q[1] /\ 1 \in 1 .. Len(q)
  BY <1>1
<1>6. Head(Append(q, m)) = Append(q, m)[1]
  BY <1>2, <1>4
<1>7. (q # <<>> => Head(Append(q, m)) = Head(q)) /\ (q = <<>> => Head(Append(q, m)) = m)
  BY <1>1, <1>3, <1>5, <1>6
<1> QED  BY <1>1, <1>2, <1>3, <1>4, <1>7

LEMMA ShortQueues ==
    ASSUME NEW a, NEW b
    PROVE  /\ Append(<<>>, a) = <<a>> /\ <<a>> # <<>> /\ Head(<<a>>) = a /\ Tail(<<a>>) = <<>>
           /\ <<a, b>> # <<>> /\ Head(<<a, b>>) = a /\ Tail(<<a, b>>) = <<b>>
<1>1. Append(<<>>, a) = <<a>>
  OBVIOUS
<1>2. Tail(<<a>>) = <<>> /\ Tail(<<a, b>>) = <<b>>
  OBVIOUS
<1> QED  BY <1>1, <1>2

LEMMA AppendToOne ==
    ASSUME NEW a, NEW b
    PROVE  Append(<<a>>, b) = <<a, b>>
<1> DEFINE S == {a, b}
<1>1. /\ <<a>> \in Seq(S) /\ <<a, b>> \in Seq(S) /\ Append(<<a>>, b) \in Seq(S)
  OBVIOUS
<1>2. /\ Len(<<a, b>>) = 2 /\ Len(<<a>>) = 1 /\ Len(Append(<<a>>, b)) = 2
  OBVIOUS
<1>3. \A i \in 1 .. 2 : Append(<<a>>, b)[i] = <<a, b>>[i]
  OBVIOUS
<1> QED  BY <1>1, <1>2, <1>3, SeqEqual

LEMMA InLineTail ==
    ASSUME NEW q \in Seq(Words), InLine(q), q # <<>>
    PROVE  InLine(Tail(q))
<1>1. Len(q) \in Nat
  OBVIOUS
<1> QED  BY <1>1, Tails DEF InLine

LEMMA InLineAppend ==
    ASSUME NEW q \in Seq(Words), InLine(q), NEW m \in Words, m.kind \in Told \cup Bounds,
           m.kind \in Told => \A i \in 1 .. Len(q) : q[i].kind \in Told,
           q # <<>> /\ q[Len(q)].kind = "CloseSession" => m.kind = "OpenSession"
    PROVE  InLine(Append(q, m))
<1>1. /\ Len(Append(q, m)) = Len(q) + 1 /\ Len(q) \in Nat /\ (q = <<>> <=> Len(q) = 0)
      /\ \A i \in 1 .. Len(q) : Append(q, m)[i] = q[i]
      /\ Append(q, m)[Len(q) + 1] = m
  BY Appends
<1> DEFINE p == Append(q, m)
<1>2. \A i \in 1 .. Len(p) : i \in 1 .. Len(q) \/ i = Len(q) + 1
  BY <1>1
<1>3. \A i \in 1 .. Len(p) : p[i].kind \in Told \cup Bounds
  BY <1>1, <1>2 DEF InLine
<1>4. ASSUME NEW i \in 1 .. Len(p), NEW j \in 1 .. Len(p), i < j, p[j].kind \in Told
      PROVE  p[i].kind \in Told
  <2>1. i \in 1 .. Len(q)
    BY <1>1, <1>4
  <2> QED  BY <1>1, <1>2, <1>4, <2>1 DEF InLine
<1>5. ASSUME NEW i \in 1 .. Len(p), NEW j \in 1 .. Len(p), j = i + 1, p[i].kind = "CloseSession"
      PROVE  p[j].kind = "OpenSession"
  <2>1. i \in 1 .. Len(q)
    BY <1>1, <1>5
  <2> QED  BY <1>1, <1>2, <1>5, <2>1 DEF InLine
<1> HIDE DEF p
<1> QED  BY <1>3, <1>4, <1>5 DEF InLine, p

LEMMA EmptyInLine == InLine(<<>>) /\ \A s, last \in Int : InTime(<<>>, s, last)
BY DEF InLine, InTime

(* Once its first message is not told, nothing in a queue is. *)
LEMMA NoneTold ==
    ASSUME NEW q \in Seq(Words), InLine(q), q # <<>>, Head(q).kind \notin Told
    PROVE  \A i \in 1 .. Len(q) : q[i].kind \notin Told
<1>1. Head(q) = q[1] /\ Len(q) \in Nat \ {0}
  BY Tails
<1> QED  BY <1>1 DEF InLine

LEMMA InTimeTail ==
    ASSUME NEW q \in Seq(Words), InLine(q), q # <<>>, NEW s \in Int, NEW last \in Int,
           InTime(q, s, last),
           NEW t, t = IF Head(q).kind = "OpenSession" THEN Head(q).phase ELSE s
    PROVE  InTime(Tail(q), t, last) /\ t >= s /\ t \in Int /\ (s =< last => t =< last)
<1>1. /\ Len(Tail(q)) = Len(q) - 1
      /\ \A i \in 1 .. Len(Tail(q)) : Tail(q)[i] = q[i + 1] /\ i + 1 \in 1 .. Len(q)
      /\ Head(q) = q[1] /\ Len(q) \in Nat \ {0}
  BY Tails
<1>2. \A i \in 1 .. Len(q) : q[i].phase \in Int
  <2>1. \A i \in 1 .. Len(q) : q[i] \in Words
    BY <1>1
  <2> QED  BY <2>1 DEF Words
<1>3. 1 \in 1 .. Len(q)
  BY <1>1
<1>4. CASE Head(q).kind = "OpenSession"
  <2>1. \A i \in 1 .. Len(q) : q[i].kind \notin Told
    BY <1>4, NoneTold DEF Told
  <2>2. t = q[1].phase /\ s < t /\ t =< last /\ t \in Int
    BY <1>1, <1>2, <1>3, <1>4 DEF InTime
  <2>3. \A i \in 1 .. Len(q) : 1 < i /\ q[i].kind = "OpenSession" => t < q[i].phase
    BY <1>1, <1>3, <1>4, <2>2 DEF InTime
  <2> QED  BY <1>1, <2>1, <2>2, <2>3 DEF InTime
<1>5. CASE Head(q).kind # "OpenSession"
  BY <1>1, <1>5 DEF InTime
<1> QED  BY <1>4, <1>5

LEMMA InTimeAppend ==
    ASSUME NEW q \in Seq(Words), NEW m \in Words, NEW s \in Int, NEW last \in Int, NEW top \in Int,
           InTime(q, s, last), last =< top,
           m.kind \in Told => m.phase = s,
           m.kind = "OpenSession" => s < m.phase /\ last < m.phase /\ m.phase =< top
    PROVE  InTime(Append(q, m), s, top)
<1> DEFINE p == Append(q, m)
<1>1. /\ Len(p) = Len(q) + 1 /\ Len(q) \in Nat
      /\ \A i \in 1 .. Len(q) : p[i] = q[i]
      /\ p[Len(q) + 1] = m
  BY Appends
<1>2. \A i \in 1 .. Len(p) : i \in 1 .. Len(q) \/ i = Len(q) + 1
  BY <1>1
<1>3. \A i \in 1 .. Len(q) : q[i].phase \in Int /\ m.phase \in Int
  <2>1. \A i \in 1 .. Len(q) : q[i] \in Words
    OBVIOUS
  <2> QED  BY <2>1 DEF Words
<1> HIDE DEF p
<1>4. \A i \in 1 .. Len(p) : p[i].kind \in Told => p[i].phase = s
  BY <1>1, <1>2 DEF InTime
<1>5. \A i \in 1 .. Len(p) : p[i].kind = "OpenSession" => s < p[i].phase /\ p[i].phase =< top
  BY <1>1, <1>2, <1>3 DEF InTime
<1>6. ASSUME NEW i \in 1 .. Len(p), NEW j \in 1 .. Len(p), i < j,
             p[i].kind = "OpenSession", p[j].kind = "OpenSession"
      PROVE  p[i].phase < p[j].phase
  <2>1. i \in 1 .. Len(q)
    BY <1>1, <1>6
  <2> QED  BY <1>1, <1>2, <1>3, <1>6, <2>1, SMTT(60) DEF InTime
<1> QED  BY <1>4, <1>5, <1>6 DEF InTime, p

-------------------------------------------------------------------------------
(* What a rank's step does to the rank.                                      *)

Stays(r) == toRank'[r] = toRank[r]
Takes(r, kinds) ==
    /\ toRank[r] # <<>> /\ Head(toRank[r]).kind \in kinds
    /\ toRank'[r] = Tail(toRank[r])

Quiet(r) == toLeader'[r] = toLeader[r]
Replies(r, kind, body) ==
    toLeader'[r] = IF Over THEN toLeader[r]
                   ELSE Append(toLeader[r], Message(kind, session'[r], shared[r], body))

Closes(r) ==
    /\ \/ stage[r] \in {"links", "table", "serving"} /\ toRank[r] # <<>>
            /\ Head(toRank[r]).kind \notin Due(r)
       \/ Over /\ stage[r] # "closed"
       \/ stage[r] = "ready" /\ toRank[r] # <<>> /\ Head(toRank[r]).kind = "OpenSession"
       \/ stage[r] = "links" /\ toRank[r] # <<>> /\ Head(toRank[r]).kind = "SessionLinks"
       \/ stage[r] \in {"meet", "dial", "sharing"}
    /\ stage'[r] = "closed" /\ toRank'[r] = <<>> /\ Replies(r, "Error", {})
    /\ session'[r] = session[r] /\ shared'[r] \in {shared[r], shared[r] - 1}
    /\ link'[r] = link[r] /\ table'[r] = table[r] /\ socket'[r] = socket[r]

Begins(r) ==
    /\ stage[r] = "ready" /\ stage'[r] = "links"
    /\ Takes(r, {"OpenSession"}) /\ Replies(r, "SessionLinks", Opened(r))
    /\ session'[r] = Head(toRank[r]).phase /\ shared'[r] = 0
    /\ link'[r] = {} /\ table'[r] = {} /\ socket'[r] = {}

GetsLinks(r) ==
    /\ stage[r] = "links" /\ stage'[r] = "table"
    /\ Takes(r, {"SessionLinks"}) /\ Replies(r, "SessionReady", Keys(r))
    /\ link'[r] = Opened(r) \cap Head(toRank[r]).body
    /\ session'[r] = session[r] /\ shared'[r] = shared[r]
    /\ table'[r] = table[r] /\ socket'[r] = socket[r]

GetsTable(r) ==
    /\ stage[r] = "table" /\ stage'[r] = IF LocalPeers(r) = {} THEN "dial" ELSE "meet"
    /\ Takes(r, {"SessionReady"}) /\ Quiet(r)
    /\ table'[r] = Head(toRank[r]).body \ {r}
    /\ session'[r] = session[r] /\ shared'[r] = shared[r]
    /\ link'[r] = link[r] /\ socket'[r] = socket[r]

(* The stages it goes through by itself once it has the table. *)
Joins(r) ==
    /\ \/ stage[r] = "meet" /\ stage'[r] = "dial"
       \/ stage[r] = "dial" /\ stage'[r] = "dial"
       \/ stage[r] = "dial" /\ stage'[r] = "serving" /\ Others(r) \subseteq socket'[r]
    /\ Stays(r) /\ Quiet(r)
    /\ session'[r] = session[r] /\ shared'[r] = shared[r]
    /\ link'[r] = link[r] /\ table'[r] = table[r]

StartsStep(r) ==
    /\ stage[r] = "serving" /\ stage'[r] = "sharing"
    /\ Takes(r, {"StepShard"}) /\ Quiet(r)
    /\ session'[r] = session[r] /\ shared'[r] = shared[r] + 1
    /\ link'[r] = link[r] /\ table'[r] = table[r] /\ socket'[r] = socket[r]

EndsStep(r) ==
    /\ stage[r] = "sharing" /\ stage'[r] = "serving"
    /\ Stays(r) /\ Replies(r, "VelocityPart", {})
    /\ session'[r] = session[r] /\ shared'[r] = shared[r]
    /\ link'[r] = link[r] /\ table'[r] = table[r] /\ socket'[r] = socket[r]

Returns(r) ==
    /\ stage[r] = "serving" /\ stage'[r] = "ready"
    /\ Takes(r, {"CloseSession"}) /\ Quiet(r)
    /\ session'[r] = session[r] /\ shared'[r] = shared[r]
    /\ link'[r] = link[r] /\ table'[r] = table[r] /\ socket'[r] = socket[r]

Moves(r) ==
    /\ UNCHANGED leader
    /\ \A q \in Ranks \ {r} :
         /\ toRank'[q] = toRank[q] /\ toLeader'[q] = toLeader[q] /\ stage'[q] = stage[q]
         /\ session'[q] = session[q] /\ shared'[q] = shared[q] /\ link'[q] = link[q]
         /\ table'[q] = table[q] /\ socket'[q] = socket[q]
    /\ \/ Closes(r) \/ Begins(r) \/ GetsLinks(r) \/ GetsTable(r) \/ Joins(r)
       \/ StartsStep(r) \/ EndsStep(r) \/ Returns(r)

LEMMA CloseMoves ==
    ASSUME TypesHold, NEW r \in Ranks, Close(r),
           \/ stage[r] \in {"links", "table", "serving"} /\ toRank[r] # <<>>
                /\ Head(toRank[r]).kind \notin Due(r)
           \/ Over /\ stage[r] # "closed"
           \/ stage[r] = "ready" /\ toRank[r] # <<>> /\ Head(toRank[r]).kind = "OpenSession"
           \/ stage[r] = "links" /\ toRank[r] # <<>> /\ Head(toRank[r]).kind = "SessionLinks"
           \/ stage[r] \in {"meet", "dial", "sharing"}
    PROVE  Moves(r)
<1>1. UNCHANGED leader /\ UNCHANGED <<link, table, socket>> /\ session' = session
  BY DEF Close
<1>2. /\ stage' = [stage EXCEPT ![r] = "closed"] /\ toRank' = [toRank EXCEPT ![r] = <<>>]
      /\ Reply(r, "Error", {})
  BY DEF Close
<1>3. stage'[r] = "closed" /\ toRank'[r] = <<>> /\ Replies(r, "Error", {})
  BY <1>2 DEF TypesHold, Reply, Replies
<1>4. /\ shared'[r] \in {shared[r], shared[r] - 1}
      /\ \A q \in Ranks \ {r} : shared'[q] = shared[q]
  <2>1. PICK through \in 0 .. 1 : shared' = [shared EXCEPT ![r] = @ - CutShort(r, through)]
    BY DEF Close
  <2>2. CutShort(r, through) \in {0, 1}
    BY DEF CutShort
  <2> QED  BY <2>1, <2>2 DEF TypesHold
<1>5. \A q \in Ranks \ {r} :
        toRank'[q] = toRank[q] /\ toLeader'[q] = toLeader[q] /\ stage'[q] = stage[q]
  BY <1>2 DEF TypesHold, Reply
<1>6. Closes(r)
  BY <1>1, <1>3, <1>4 DEF Closes
<1> QED  BY <1>1, <1>4, <1>5, <1>6 DEF Moves

-------------------------------------------------------------------------------
(* Every step of a rank is such a move, and keeps the types.                 *)

LEMMA Reads ==
    ASSUME TypesHold, NEW r \in Ranks, toRank[r] # <<>>, Read(r)
    PROVE  /\ toRank' \in [Ranks -> Seq(Words)] /\ toRank'[r] = Tail(toRank[r])
           /\ \A q \in Ranks \ {r} : toRank'[q] = toRank[q]
<1>1. toRank \in [Ranks -> Seq(Words)]
  BY DEF TypesHold
<1>2. Tail(toRank[r]) \in Seq(Words)
  BY <1>1, Tails
<1> QED  BY <1>1, <1>2 DEF Read

LEMMA Answered ==
    ASSUME TypesHold, NEW r \in Ranks,
           NEW kind \in {"SessionLinks", "SessionReady", "VelocityPart", "Error"},
           NEW body \in SUBSET Ranks, Reply(r, kind, body), session'[r] \in Int
    PROVE  /\ toLeader' \in [Ranks -> Seq(Words)] /\ Replies(r, kind, body)
           /\ \A q \in Ranks \ {r} : toLeader'[q] = toLeader[q]
<1>1. toLeader \in [Ranks -> Seq(Words)] /\ shared[r] \in Int
  BY DEF TypesHold
<1> DEFINE m == Message(kind, session'[r], shared[r], body)
<1>2. m \in Words  BY <1>1 DEF Message, Words, Kinds
<1>3. Append(toLeader[r], m) \in Seq(Words)  BY <1>1, <1>2, Appends
<1>4. toLeader' = [toLeader EXCEPT ![r] = IF Over THEN toLeader[r] ELSE Append(toLeader[r], m)]
  BY DEF Reply
<1>5. toLeader'[r] = IF Over THEN toLeader[r] ELSE Append(toLeader[r], m)
  BY <1>1, <1>4
<1>6. Replies(r, kind, body)  BY <1>5 DEF Replies
<1> HIDE DEF m
<1> QED  BY <1>1, <1>3, <1>4, <1>6

LEMMA HeadIs ==
    ASSUME NEW queue, NEW kinds, Has(queue, kinds)
    PROVE  queue # <<>> /\ Head(queue).kind \in kinds
  BY DEF Has

LEMMA OpenMoves ==
    ASSUME TypesHold, NEW r \in Ranks, InTurn(r), TakeOpen(r)
    PROVE  Moves(r) /\ TypesHold'
<1>1. /\ stage[r] = "ready" /\ toRank[r] # <<>> /\ Head(toRank[r]).kind = "OpenSession"
      /\ Read(r) /\ Reply(r, "SessionLinks", Opened(r))
      /\ UNCHANGED leader /\ UNCHANGED meeting
  BY HeadIs DEF TakeOpen
<1>2. toRank[r] \in Seq(Words) /\ Head(toRank[r]) = toRank[r][1] /\ 1 \in 1 .. Len(toRank[r])
  <2>1. toRank[r] \in Seq(Words)  BY DEF TypesHold
  <2> QED  BY <1>1, <2>1, Tails
<1>3. Head(toRank[r]).phase \in 1 .. Phases
  <2>1. toRank[r][1] \in Words  BY <1>2
  <2>2. toRank[r][1].phase \in Int  BY <2>1 DEF Words
  <2>3. session[r] < toRank[r][1].phase
    BY <1>1, <1>2 DEF InTurn, InTime
  <2>4. session[r] \in Int /\ 0 =< session[r] /\ phase \in 1 .. Phases /\ Phases \in Int
    BY RendezvousAssumption DEF TypesHold
  <2>5. toRank[r][1].phase =< phase
    <3>1. CASE pc = "open" /\ at =< r
      <4>1. toRank[r][1].phase =< phase - 1  BY <1>1, <1>2, <3>1 DEF InTurn, InTime
      <4> QED  BY <4>1, <2>2, <2>4
    <3>2. CASE ~(pc = "open" /\ at =< r)
      BY <1>1, <1>2, <3>2 DEF InTurn, InTime
    <3> QED  BY <3>1, <3>2
  <2> QED  BY <1>2, <2>2, <2>3, <2>4, <2>5
<1>4. /\ session' = [session EXCEPT ![r] = Head(toRank[r]).phase]
      /\ stage' = [stage EXCEPT ![r] = "links"]
      /\ shared' = [shared EXCEPT ![r] = 0]
      /\ link' = [link EXCEPT ![r] = {}]
      /\ table' = [table EXCEPT ![r] = {}]
      /\ socket' = [socket EXCEPT ![r] = {}]
      /\ calls' = [calls EXCEPT ![r] = <<>>]
  BY DEF TakeOpen
<1>5. session'[r] \in Int /\ session'[r] = Head(toRank[r]).phase
  BY <1>3, <1>4 DEF TypesHold
<1>6. Opened(r) \in SUBSET Ranks
  BY DEF Opened, Others
<1>7. /\ toRank' \in [Ranks -> Seq(Words)] /\ toRank'[r] = Tail(toRank[r])
      /\ \A q \in Ranks \ {r} : toRank'[q] = toRank[q]
  BY <1>1, Reads
<1>8. /\ toLeader' \in [Ranks -> Seq(Words)] /\ Replies(r, "SessionLinks", Opened(r))
      /\ \A q \in Ranks \ {r} : toLeader'[q] = toLeader[q]
  BY <1>1, <1>5, <1>6, Answered
<1>9. Begins(r)
  BY <1>1, <1>4, <1>5, <1>7, <1>8 DEF Begins, Takes, TypesHold
<1>10. \A q \in Ranks \ {r} :
         /\ stage'[q] = stage[q] /\ session'[q] = session[q] /\ shared'[q] = shared[q]
         /\ link'[q] = link[q] /\ table'[q] = table[q] /\ socket'[q] = socket[q]
  BY <1>4 DEF TypesHold
<1>11. Moves(r)
  BY <1>1, <1>7, <1>8, <1>9, <1>10 DEF Moves
<1>12. /\ stage' \in [Ranks -> InSession \cup {"ready", "closed"}]
       /\ session' \in [Ranks -> 0 .. Phases] /\ shared' \in [Ranks -> Int]
       /\ link' \in [Ranks -> SUBSET Ranks] /\ table' \in [Ranks -> SUBSET Ranks]
       /\ socket' \in [Ranks -> SUBSET Ranks] /\ calls' \in [Ranks -> Seq(Ranks)]
  <2>1. Head(toRank[r]).phase \in 0 .. Phases  BY <1>3, RendezvousAssumption
  <2>2. "links" \in InSession \cup {"ready", "closed"}  BY DEF InSession
  <2>3. session' \in [Ranks -> 0 .. Phases]  BY <1>4, <2>1 DEF TypesHold
  <2>4. stage' \in [Ranks -> InSession \cup {"ready", "closed"}]  BY <1>4, <2>2 DEF TypesHold
  <2> QED  BY <1>4, <2>3, <2>4, SMTT(60) DEF TypesHold
<1>13. \A q \in Ranks : stage'[q] \in InSession => session'[q] \in 1 .. Phases
  BY <1>3, <1>5, <1>10 DEF TypesHold
<1>14. TypesHold'
  BY <1>1, <1>7, <1>8, <1>12, <1>13 DEF TypesHold, leader, Over
<1> QED  BY <1>11, <1>14

(* What a rank does to the gathering of its run. *)
LEMMA ItsRun ==
    ASSUME TypesHold, NEW r \in Ranks, stage[r] \in InSession
    PROVE  Run(r) \in Runs
<1>1. session[r] \in 1 .. Phases  BY DEF TypesHold
<1> QED  BY <1>1 DEF Run, Runs

Meetings == [Runs -> [ranks : SUBSET Ranks, taken : Nat]]

LEMMA Arrives ==
    ASSUME meeting \in Meetings, NEW r \in Ranks, NEW run \in Runs,
           meeting' = [meeting EXCEPT ![run].ranks = @ \cup {r}]
    PROVE  /\ meeting' \in Meetings /\ \A other \in Runs \ {run} : meeting'[other] = meeting[other]
           /\ meeting'[run].ranks = meeting[run].ranks \cup {r}
           /\ meeting'[run].taken = meeting[run].taken
  BY DEF Meetings

LEMMA Leaves ==
    ASSUME meeting \in Meetings, NEW r \in Ranks, NEW run \in Runs,
           meeting' = [meeting EXCEPT ![run].ranks = @ \ {r}]
    PROVE  /\ meeting' \in Meetings /\ \A other \in Runs \ {run} : meeting'[other] = meeting[other]
           /\ meeting'[run].ranks = meeting[run].ranks \ {r}
           /\ meeting'[run].taken = meeting[run].taken
  BY DEF Meetings

LEMMA Takings ==
    ASSUME meeting \in Meetings, NEW r \in Ranks, Run(r) \in Runs, TakeTheTable(r)
    PROVE  /\ meeting' \in Meetings
           /\ \A other \in Runs \ {Run(r)} : meeting'[other] = meeting[other]
           /\ meeting[Run(r)].taken + 1 = Count(r) =>
                meeting'[Run(r)].ranks = {} /\ meeting'[Run(r)].taken = 0
           /\ meeting[Run(r)].taken + 1 # Count(r) =>
                /\ meeting'[Run(r)].ranks = meeting[Run(r)].ranks
                /\ meeting'[Run(r)].taken = meeting[Run(r)].taken + 1
<1> DEFINE run == Run(r)
<1> DEFINE new == IF meeting[run].taken + 1 = Count(r) THEN NoMeeting
                  ELSE [meeting[run] EXCEPT !.taken = meeting[run].taken + 1]
<1>1. meeting' = [meeting EXCEPT ![run] = new]
  BY DEF TakeTheTable
<1>2. meeting[run] \in [ranks : SUBSET Ranks, taken : Nat]
  BY DEF Meetings
<1>3. new \in [ranks : SUBSET Ranks, taken : Nat]
  BY <1>2 DEF NoMeeting
<1>4. /\ meeting[run].taken + 1 = Count(r) => new.ranks = {} /\ new.taken = 0
      /\ meeting[run].taken + 1 # Count(r) =>
           new.ranks = meeting[run].ranks /\ new.taken = meeting[run].taken + 1
  BY <1>2 DEF NoMeeting
<1> HIDE DEF new
<1>5. run \in Runs
  OBVIOUS
<1> HIDE DEF run
<1>6. meeting' \in Meetings /\ \A other \in Runs \ {run} : meeting'[other] = meeting[other]
  BY <1>1, <1>3, <1>5 DEF Meetings
<1>7. meeting'[run] = new
  BY <1>1, <1>5 DEF Meetings
<1> QED  BY <1>4, <1>6, <1>7 DEF run

-------------------------------------------------------------------------------

LEMMA CloseTypes ==
    ASSUME TypesHold, NEW r \in Ranks, Close(r), meeting' \in Meetings
    PROVE  TypesHold'
<1>1. UNCHANGED leader /\ UNCHANGED <<link, table, socket>> /\ session' = session
  BY DEF Close
<1>2. /\ stage' = [stage EXCEPT ![r] = "closed"] /\ toRank' = [toRank EXCEPT ![r] = <<>>]
      /\ Reply(r, "Error", {}) /\ calls' = [calls EXCEPT ![r] = <<>>]
  BY DEF Close
<1>3. session'[r] \in Int
  BY <1>1, RendezvousAssumption DEF TypesHold
<1>4. toLeader' \in [Ranks -> Seq(Words)]
  BY <1>2, <1>3, Answered
<1>5. shared' \in [Ranks -> Int]
  <2>1. PICK through \in 0 .. 1 : shared' = [shared EXCEPT ![r] = @ - CutShort(r, through)]
    BY DEF Close
  <2>2. CutShort(r, through) \in {0, 1}
    BY DEF CutShort
  <2> QED  BY <2>1, <2>2 DEF TypesHold
<1>6. /\ toRank' \in [Ranks -> Seq(Words)] /\ calls' \in [Ranks -> Seq(Ranks)]
      /\ stage' \in [Ranks -> InSession \cup {"ready", "closed"}]
  BY <1>2 DEF TypesHold
<1>7. \A q \in Ranks : stage'[q] \in InSession => session'[q] \in 1 .. Phases
  <2>1. "closed" \notin InSession  BY DEF InSession
  <2> QED  BY <1>1, <1>2, <2>1 DEF TypesHold
<1> QED  BY <1>1, <1>4, <1>5, <1>6, <1>7 DEF TypesHold, leader, Over, Meetings

LEMMA FailMoves ==
    ASSUME TypesHold, NEW r \in Ranks,
           \/ CannotDial(r) \/ PeerGone(r) \/ Unexpected(r) \/ LeaderGone(r) \/ Fail(r)
           \/ GiveUp(r) \/ CannotReachCard(r)
    PROVE  Moves(r) /\ TypesHold'
<1>1. Close(r)
  BY DEF CannotDial, PeerGone, Unexpected, LeaderGone, Fail, GiveUp, CannotReachCard
<1>2. \/ stage[r] \in {"links", "table", "serving"} /\ toRank[r] # <<>>
           /\ Head(toRank[r]).kind \notin Due(r)
      \/ Over /\ stage[r] # "closed"
      \/ stage[r] = "ready" /\ toRank[r] # <<>> /\ Head(toRank[r]).kind = "OpenSession"
      \/ stage[r] = "links" /\ toRank[r] # <<>> /\ Head(toRank[r]).kind = "SessionLinks"
      \/ stage[r] \in {"meet", "dial", "sharing"}
  <2>1. CASE CannotDial(r) \/ PeerGone(r) \/ GiveUp(r) \/ CannotReachCard(r)
    BY <2>1 DEF CannotDial, PeerGone, GiveUp, CannotReachCard
  <2>2. CASE Unexpected(r)
    BY <2>2 DEF Unexpected, Has
  <2>3. CASE LeaderGone(r)
    BY <2>3 DEF LeaderGone
  <2>4. CASE Fail(r)
    BY <2>4 DEF Fail, Has
  <2> QED  BY <2>1, <2>2, <2>3, <2>4
<1>3. Moves(r)
  BY <1>1, <1>2, CloseMoves
<1>4. meeting' \in Meetings
  <2>0. meeting \in Meetings  BY DEF TypesHold, Meetings
  <2>1. CASE GiveUp(r)
    <3>1. stage[r] \in InSession /\ meeting' = [meeting EXCEPT ![Run(r)].ranks = @ \ {r}]
      BY <2>1 DEF GiveUp, InSession
    <3> QED  BY <2>0, <3>1, ItsRun, Leaves
  <2>2. CASE CannotReachCard(r)
    <3>1. stage[r] \in InSession /\ TakeTheTable(r)
      BY <2>2 DEF CannotReachCard, InSession
    <3> QED  BY <2>0, <3>1, ItsRun, Takings
  <2>3. CASE CannotDial(r) \/ PeerGone(r) \/ Unexpected(r) \/ LeaderGone(r) \/ Fail(r)
    BY <2>0, <2>3 DEF CannotDial, PeerGone, Unexpected, LeaderGone, Fail
  <2> QED  BY <2>1, <2>2, <2>3
<1> QED  BY <1>1, <1>3, <1>4, CloseTypes

LEMMA LinksMove ==
    ASSUME TypesHold, NEW r \in Ranks, TakeLinks(r)
    PROVE  Moves(r) /\ TypesHold'
<1>1. /\ stage[r] = "links" /\ toRank[r] # <<>> /\ Head(toRank[r]).kind = "SessionLinks"
      /\ Read(r) /\ Reply(r, "SessionReady", Keys(r))
      /\ UNCHANGED leader /\ UNCHANGED <<shared, table, socket, calls, meeting>>
      /\ session' = session
  BY HeadIs DEF TakeLinks
<1>2. /\ link' = [link EXCEPT ![r] = Paired(r)] /\ stage' = [stage EXCEPT ![r] = "table"]
  BY DEF TakeLinks
<1>3. session'[r] \in Int /\ session[r] \in 1 .. Phases
  BY <1>1 DEF TypesHold, InSession
<1>4. Keys(r) \in SUBSET Ranks /\ Paired(r) \in SUBSET Ranks
  BY DEF Keys, Paired, Opened, Others
<1>5. /\ toRank' \in [Ranks -> Seq(Words)] /\ toRank'[r] = Tail(toRank[r])
      /\ \A q \in Ranks \ {r} : toRank'[q] = toRank[q]
  BY <1>1, Reads
<1>6. /\ toLeader' \in [Ranks -> Seq(Words)] /\ Replies(r, "SessionReady", Keys(r))
      /\ \A q \in Ranks \ {r} : toLeader'[q] = toLeader[q]
  BY <1>1, <1>3, <1>4, Answered
<1>7. /\ stage'[r] = "table" /\ link'[r] = Paired(r)
      /\ \A q \in Ranks \ {r} : stage'[q] = stage[q] /\ link'[q] = link[q]
      /\ link' \in [Ranks -> SUBSET Ranks]
  BY <1>2, <1>4 DEF TypesHold
<1>8. stage' \in [Ranks -> InSession \cup {"ready", "closed"}]
  BY <1>2 DEF TypesHold, InSession
<1>9. GetsLinks(r)
  BY <1>1, <1>5, <1>6, <1>7 DEF GetsLinks, Takes, Paired
<1>10. Moves(r)
  BY <1>1, <1>5, <1>6, <1>7, <1>9 DEF Moves
<1>11. \A q \in Ranks : stage'[q] \in InSession => session'[q] \in 1 .. Phases
  BY <1>1, <1>3, <1>7 DEF TypesHold
<1> QED  BY <1>1, <1>5, <1>6, <1>7, <1>8, <1>10, <1>11 DEF TypesHold, leader, Over

LEMMA TableMoves ==
    ASSUME TypesHold, NEW r \in Ranks, TakeTable(r)
    PROVE  Moves(r) /\ TypesHold'
<1>1. /\ stage[r] = "table" /\ toRank[r] # <<>> /\ Head(toRank[r]).kind = "SessionReady"
      /\ Read(r)
      /\ UNCHANGED leader /\ UNCHANGED <<toLeader, session, shared, link, socket, calls>>
  BY HeadIs DEF TakeTable
<1>2. /\ table' = [table EXCEPT ![r] = Head(toRank[r]).body \ {r}]
      /\ stage' = [stage EXCEPT ![r] = IF LocalPeers(r) = {} THEN "dial" ELSE "meet"]
      /\ meeting' = IF LocalPeers(r) = {} THEN meeting
                    ELSE [meeting EXCEPT ![Run(r)].ranks = @ \cup {r}]
  BY DEF TakeTable
<1>3. session[r] \in 1 .. Phases /\ Run(r) \in Runs
  BY <1>1, ItsRun DEF TypesHold, InSession
<1>4. Head(toRank[r]).body \in SUBSET Ranks
  <2>1. toRank[r] \in Seq(Words)  BY DEF TypesHold
  <2>2. Head(toRank[r]) \in Words  BY <1>1, <2>1, Tails
  <2> QED  BY <2>2 DEF Words
<1>5. /\ toRank' \in [Ranks -> Seq(Words)] /\ toRank'[r] = Tail(toRank[r])
      /\ \A q \in Ranks \ {r} : toRank'[q] = toRank[q]
  BY <1>1, Reads
<1>6. /\ table'[r] = Head(toRank[r]).body \ {r}
      /\ \A q \in Ranks \ {r} : table'[q] = table[q]
      /\ table' \in [Ranks -> SUBSET Ranks]
  BY <1>2, <1>4 DEF TypesHold
<1>7. /\ stage'[r] = IF LocalPeers(r) = {} THEN "dial" ELSE "meet"
      /\ \A q \in Ranks \ {r} : stage'[q] = stage[q]
      /\ stage' \in [Ranks -> InSession \cup {"ready", "closed"}]
  BY <1>2 DEF TypesHold, InSession
<1>8. GetsTable(r)
  BY <1>1, <1>5, <1>6, <1>7 DEF GetsTable, Takes, Quiet
<1>9. Moves(r)
  BY <1>1, <1>5, <1>6, <1>7, <1>8 DEF Moves
<1>10. meeting' \in Meetings
  <2>1. meeting \in Meetings  BY DEF TypesHold, Meetings
  <2> QED  BY <1>2, <1>3, <2>1, Arrives
<1>11. \A q \in Ranks : stage'[q] \in InSession => session'[q] \in 1 .. Phases
  BY <1>1, <1>3, <1>7 DEF TypesHold
<1> QED  BY <1>1, <1>5, <1>6, <1>7, <1>9, <1>10, <1>11 DEF TypesHold, leader, Over, Meetings

LEMMA MeetMoves ==
    ASSUME TypesHold, NEW r \in Ranks, Meet(r)
    PROVE  Moves(r) /\ TypesHold'
<1>1. /\ stage[r] = "meet" /\ TakeTheTable(r) /\ stage' = [stage EXCEPT ![r] = "dial"]
      /\ UNCHANGED leader
      /\ UNCHANGED <<toRank, toLeader, session, shared, link, table, socket, calls>>
  BY DEF Meet, wires
<1>2. session[r] \in 1 .. Phases /\ Run(r) \in Runs
  BY <1>1, ItsRun DEF TypesHold, InSession
<1>3. meeting' \in Meetings
  <2>1. meeting \in Meetings  BY DEF TypesHold, Meetings
  <2> QED  BY <1>1, <1>2, <2>1, Takings
<1>4. /\ stage'[r] = "dial" /\ \A q \in Ranks \ {r} : stage'[q] = stage[q]
      /\ stage' \in [Ranks -> InSession \cup {"ready", "closed"}]
  BY <1>1 DEF TypesHold, InSession
<1>5. Joins(r)
  BY <1>1, <1>4 DEF Joins, Stays, Quiet
<1>6. Moves(r)
  BY <1>1, <1>4, <1>5 DEF Moves
<1>7. \A q \in Ranks : stage'[q] \in InSession => session'[q] \in 1 .. Phases
  BY <1>1, <1>2, <1>4 DEF TypesHold
<1> QED  BY <1>1, <1>3, <1>4, <1>6, <1>7 DEF TypesHold, leader, Over, Meetings

LEMMA LeastRank ==
    ASSUME NEW S \in SUBSET Ranks, S # {}
    PROVE  \E p \in S : \A q \in S : p =< q
<1>1. S \subseteq Nat  BY RendezvousAssumption DEF Ranks
<1> DEFINE R == OpToRel(<, Nat)
<1>2. IsWellFoundedOn(R, Nat)  BY NatLessThanWellFounded
<1>3. PICK p \in S : \A q \in S : ~(<<q, p>> \in R)
  BY <1>1, <1>2, WFMin
<1>4. \A q \in S : ~(q < p)
  BY <1>1, <1>3 DEF OpToRel
<1> QED  BY <1>1, <1>4

LEMMA DialMoves ==
    ASSUME TypesHold, NEW r \in Ranks, Accept(r) \/ Dial(r)
    PROVE  Moves(r) /\ TypesHold'
<1>1. /\ stage[r] = "dial"
      /\ UNCHANGED leader
      /\ UNCHANGED <<toRank, toLeader, stage, session, shared, link, table, meeting>>
  BY DEF Accept, Dial, TakesCalls, wires
<1>2. /\ \A q \in Ranks \ {r} : socket'[q] = socket[q]
      /\ socket' \in [Ranks -> SUBSET Ranks] /\ calls' \in [Ranks -> Seq(Ranks)]
  <2>1. CASE Accept(r)
    <3>1. calls[r] \in Seq(Ranks) /\ calls[r] # <<>>  BY <2>1 DEF Accept, TypesHold
    <3>2. Head(calls[r]) \in Ranks /\ Tail(calls[r]) \in Seq(Ranks)  BY <3>1
    <3> QED  BY <2>1, <3>2 DEF Accept, TypesHold
  <2>2. CASE Dial(r)
    <3>1. Calls(r) # {} /\ Calls(r) \subseteq Ranks  BY <2>2 DEF Dial, Calls, Higher
    <3>2. NextCall(r) \in Ranks
      BY <3>1, LeastRank DEF NextCall
    <3>3. Append(calls[NextCall(r)], r) \in Seq(Ranks)
      BY <3>2 DEF TypesHold
    <3> QED  BY <2>2, <3>2, <3>3, SMTT(60) DEF Dial, TypesHold
  <2> QED  BY <2>1, <2>2
<1>3. Joins(r)
  BY <1>1 DEF Joins, Stays, Quiet
<1>4. Moves(r)
  BY <1>1, <1>2, <1>3 DEF Moves
<1> QED  BY <1>1, <1>2, <1>4 DEF TypesHold, leader, Over

LEMMA ServeMoves ==
    ASSUME TypesHold, NEW r \in Ranks, Serve(r)
    PROVE  Moves(r) /\ TypesHold'
<1>1. /\ stage[r] = "dial" /\ stage' = [stage EXCEPT ![r] = "serving"]
      /\ UNCHANGED leader
      /\ UNCHANGED <<toRank, toLeader, session, shared, link, table, socket, calls, meeting>>
  BY DEF Serve, wires, rendezvous
<1>2. Others(r) \subseteq socket'[r]
  <2>1. Lower(r) \subseteq socket[r] /\ Higher(r) \ socket[r] = {}
    BY <1>1 DEF Serve, TakesCalls, Calls
  <2>2. Others(r) \subseteq Lower(r) \cup Higher(r)
    BY RendezvousAssumption DEF Others, Lower, Higher, Ranks
  <2> QED  BY <1>1, <2>1, <2>2
<1>3. /\ stage'[r] = "serving" /\ \A q \in Ranks \ {r} : stage'[q] = stage[q]
      /\ stage' \in [Ranks -> InSession \cup {"ready", "closed"}]
  BY <1>1 DEF TypesHold, InSession
<1>4. Joins(r)
  BY <1>1, <1>2, <1>3 DEF Joins, Stays, Quiet
<1>5. Moves(r)
  BY <1>1, <1>3, <1>4 DEF Moves
<1>6. \A q \in Ranks : stage'[q] \in InSession => session'[q] \in 1 .. Phases
  BY <1>1, <1>3 DEF TypesHold, InSession
<1> QED  BY <1>1, <1>3, <1>5, <1>6 DEF TypesHold, leader, Over

LEMMA StepMoves ==
    ASSUME TypesHold, NEW r \in Ranks, TakeStep(r) \/ TakeClose(r)
    PROVE  Moves(r) /\ TypesHold'
<1>1. /\ stage[r] = "serving" /\ toRank[r] # <<>> /\ Read(r)
      /\ UNCHANGED leader
      /\ UNCHANGED <<toLeader, session, link, table, socket, calls, meeting>>
  BY HeadIs DEF TakeStep, TakeClose, rendezvous
<1>2. /\ toRank' \in [Ranks -> Seq(Words)] /\ toRank'[r] = Tail(toRank[r])
      /\ \A q \in Ranks \ {r} : toRank'[q] = toRank[q]
  BY <1>1, Reads
<1>3. /\ \A q \in Ranks \ {r} : stage'[q] = stage[q] /\ shared'[q] = shared[q]
      /\ stage' \in [Ranks -> InSession \cup {"ready", "closed"}]
      /\ shared' \in [Ranks -> Int]
  <2>1. CASE TakeStep(r)
    BY <2>1 DEF TakeStep, TypesHold, InSession
  <2>2. CASE TakeClose(r)
    BY <2>2 DEF TakeClose, TypesHold, InSession
  <2> QED  BY <2>1, <2>2
<1>4. StartsStep(r) \/ Returns(r)
  <2>1. CASE TakeStep(r)
    <3>1. Head(toRank[r]).kind = "StepShard" /\ stage'[r] = "sharing" /\ shared'[r] = shared[r] + 1
      BY <2>1, HeadIs DEF TakeStep, TypesHold
    <3> QED  BY <1>1, <1>2, <3>1 DEF StartsStep, Takes, Quiet
  <2>2. CASE TakeClose(r)
    <3>1. Head(toRank[r]).kind = "CloseSession" /\ stage'[r] = "ready" /\ shared' = shared
      BY <2>2, HeadIs DEF TakeClose, TypesHold
    <3> QED  BY <1>1, <1>2, <3>1 DEF Returns, Takes, Quiet
  <2> QED  BY <2>1, <2>2
<1>5. Moves(r)
  BY <1>1, <1>2, <1>3, <1>4 DEF Moves
<1>6. \A q \in Ranks : stage'[q] \in InSession => session'[q] \in 1 .. Phases
  BY <1>1, <1>3 DEF TypesHold, InSession
<1> QED  BY <1>1, <1>2, <1>3, <1>5, <1>6 DEF TypesHold, leader, Over

LEMMA FinishMoves ==
    ASSUME TypesHold, NEW r \in Ranks, FinishStep(r)
    PROVE  Moves(r) /\ TypesHold'
<1>1. /\ stage[r] = "sharing" /\ stage' = [stage EXCEPT ![r] = "serving"]
      /\ Reply(r, "VelocityPart", {}) /\ session' = session
      /\ UNCHANGED leader
      /\ UNCHANGED <<toRank, shared, link, table, socket, calls, meeting>>
  BY DEF FinishStep, rendezvous
<1>2. session'[r] \in Int
  BY <1>1, RendezvousAssumption DEF TypesHold
<1>3. /\ toLeader' \in [Ranks -> Seq(Words)] /\ Replies(r, "VelocityPart", {})
      /\ \A q \in Ranks \ {r} : toLeader'[q] = toLeader[q]
  BY <1>1, <1>2, Answered
<1>4. /\ stage'[r] = "serving" /\ \A q \in Ranks \ {r} : stage'[q] = stage[q]
      /\ stage' \in [Ranks -> InSession \cup {"ready", "closed"}]
  BY <1>1 DEF TypesHold, InSession
<1>5. EndsStep(r)
  BY <1>1, <1>3, <1>4 DEF EndsStep, Stays
<1>6. Moves(r)
  BY <1>1, <1>3, <1>4, <1>5 DEF Moves
<1>7. \A q \in Ranks : stage'[q] \in InSession => session'[q] \in 1 .. Phases
  BY <1>1, <1>4 DEF TypesHold, InSession
<1> QED  BY <1>1, <1>3, <1>4, <1>6, <1>7 DEF TypesHold, leader, Over

LEMMA RanksMove ==
    ASSUME TypesHold, NEW r \in Ranks, InTurn(r), RankStep(r) \/ Fail(r) \/ CannotReachCard(r)
    PROVE  Moves(r) /\ TypesHold'
  BY OpenMoves, LinksMove, TableMoves, MeetMoves, DialMoves, ServeMoves, StepMoves, FinishMoves,
     FailMoves DEF RankStep

-------------------------------------------------------------------------------
(* A rank's move and the order of what it reads.                             *)

(* The three ways it has with its queue. *)
Empties(r) == toRank'[r] = <<>> /\ session'[r] = session[r] /\ stage'[r] = "closed"
Keeps(r) == /\ Stays(r) /\ session'[r] = session[r]
            /\ stage'[r] # "ready" /\ stage'[r] # "links"
Turns(r) ==
    /\ toRank[r] # <<>> /\ toRank'[r] = Tail(toRank[r])
    /\ stage'[r] = "ready" => stage[r] = "serving" /\ Head(toRank[r]).kind = "CloseSession"
    /\ stage'[r] = "links" => Head(toRank[r]).kind = "OpenSession"
    /\ Head(toRank[r]).kind \in {"OpenSession", "SessionLinks", "SessionReady", "StepShard",
                                 "CloseSession"}
    /\ session'[r] = IF Head(toRank[r]).kind = "OpenSession" THEN Head(toRank[r]).phase
                     ELSE session[r]

LEMMA QueueMoves ==
    ASSUME NEW r \in Ranks, Moves(r)
    PROVE  Empties(r) \/ Keeps(r) \/ Turns(r)
<1>1. CASE Closes(r)
  BY <1>1 DEF Closes, Empties
<1>2. CASE Joins(r) \/ EndsStep(r)
  BY <1>2 DEF Joins, EndsStep, Keeps
<1>3. CASE Begins(r)
  BY <1>3 DEF Begins, Takes, Turns
<1>4. CASE GetsLinks(r) \/ StartsStep(r) \/ Returns(r)
  BY <1>4 DEF GetsLinks, StartsStep, Returns, Takes, Turns
<1>5. CASE GetsTable(r)
  BY <1>5 DEF GetsTable, Takes, Turns
<1> QED  BY <1>1, <1>2, <1>3, <1>4, <1>5 DEF Moves

LEMMA MovesOrderly ==
    ASSUME TypesHold, NEW r \in Ranks, Moves(r), Orderly(r)
    PROVE  Orderly(r)'
<1> DEFINE q == toRank[r]
<1>0. q \in Seq(Words) /\ InLine(q) /\ (Fresh(r))' = Fresh(r)
  BY DEF TypesHold, Orderly, Moves, leader, Fresh, Over
<1>1. CASE Empties(r)
  BY <1>1, EmptyInLine DEF Empties, Orderly
<1>2. CASE Keeps(r)
  BY <1>0, <1>2 DEF Keeps, Stays, Orderly
<1>3. CASE Turns(r)
  <2>1. /\ q # <<>> /\ toRank'[r] = Tail(q)
        /\ stage'[r] = "ready" => stage[r] = "serving" /\ Head(q).kind = "CloseSession"
    BY <1>3 DEF Turns
  <2>2. InLine(Tail(q))
    BY <1>0, <2>1, InLineTail
  <2>3. /\ Tail(q) \in Seq(Words) /\ Len(Tail(q)) = Len(q) - 1
        /\ \A i \in 1 .. Len(Tail(q)) : Tail(q)[i] = q[i + 1] /\ i + 1 \in 1 .. Len(q)
        /\ Head(q) = q[1] /\ Len(q) \in Nat \ {0}
    BY <1>0, <2>1, Tails
  <2>4. CASE Tail(q) = <<>>
    <3>0. Len(<<>>) = 0  OBVIOUS
    <3>1. Len(Tail(q)) = 0  BY <2>4, <3>0
    <3>2. Len(q) = 1  BY <2>3, <3>1
    <3>3. stage'[r] = "ready" => Fresh(r)
      <4>1. Head(q).kind = "CloseSession" => q[Len(q)].kind = "CloseSession"  BY <2>3, <3>2
      <4> QED  BY <2>1, <4>1 DEF Orderly
    <3> QED  BY <1>0, <2>1, <2>2, <2>4, <3>3 DEF Orderly
  <2>5. CASE Tail(q) # <<>>
    <3> DEFINE t == Tail(q)
    <3>1. Len(t) \in Nat \ {0} /\ Head(t) = t[1]  BY <2>3, <2>5, Tails
    <3> HIDE DEF q
    <3>2. t[Len(t)] = q[Len(q)]
      <4>1. Len(t) \in 1 .. Len(t) /\ Len(t) + 1 = Len(q)  BY <2>3, <3>1
      <4> QED  BY <2>3, <4>1
    <3>3. t[Len(t)].kind = "CloseSession" => Fresh(r)  BY <2>1, <3>2 DEF Orderly, q
    <3>4. Head(t) = q[2] /\ 1 \in 1 .. Len(q) /\ 2 \in 1 .. Len(q) /\ 2 = 1 + 1
      <4>1. 1 \in 1 .. Len(t)  BY <3>1
      <4>2. t[1] = q[1 + 1] /\ 1 + 1 \in 1 .. Len(q)  BY <2>3, <4>1
      <4> QED  BY <2>3, <3>1, <4>2
    <3>5. q[1].kind = "CloseSession" => q[2].kind = "OpenSession"  BY <1>0, <3>4 DEF InLine
    <3>6. stage'[r] = "ready" => Head(t).kind = "OpenSession"  BY <2>1, <2>3, <3>4, <3>5
    <3> HIDE DEF t
    <3> QED  BY <1>0, <2>1, <2>2, <2>5, <3>3, <3>6 DEF Orderly, t, q
  <2> QED  BY <2>4, <2>5
<1> QED  BY <1>1, <1>2, <1>3, QueueMoves

LEMMA MovesInTurn ==
    ASSUME TypesHold, NEW r \in Ranks, Moves(r), Orderly(r), InTurn(r)
    PROVE  InTurn(r)' /\ session'[r] >= session[r]
           /\ (session'[r] = session[r] /\ stage[r] # "links" => stage'[r] # "links")
<1> DEFINE q == toRank[r]
<1> DEFINE last == IF pc = "open" /\ at =< r THEN phase - 1 ELSE phase
<1>1. last' = last
  BY DEF Moves, leader
<1>2. /\ session[r] \in Int /\ last \in Int /\ q \in Seq(Words) /\ InLine(q)
      /\ session[r] =< last /\ InTime(q, session[r], last)
  BY RendezvousAssumption DEF TypesHold, InTurn, Orderly
<1>3. CASE Empties(r)
  BY <1>1, <1>2, <1>3, EmptyInLine DEF Empties, InTurn
<1>4. CASE Keeps(r)
  BY <1>1, <1>2, <1>4 DEF Keeps, Stays, InTurn
<1>5. CASE Turns(r)
  <2>1. /\ q # <<>> /\ toRank'[r] = Tail(q)
        /\ session'[r] = IF Head(q).kind = "OpenSession" THEN Head(q).phase ELSE session[r]
        /\ stage'[r] = "links" => Head(q).kind = "OpenSession"
    BY <1>5 DEF Turns
  <2>2. /\ InTime(Tail(q), session'[r], last) /\ session'[r] >= session[r]
        /\ session'[r] =< last
    BY <1>2, <2>1, InTimeTail
  <2>3. Head(q).kind = "OpenSession" => session[r] < Head(q).phase
    <3>1. Head(q) = q[1] /\ 1 \in 1 .. Len(q)  BY <1>2, <2>1, Tails
    <3> QED  BY <1>2, <3>1 DEF InTime
  <2>4. session'[r] = session[r] => stage'[r] # "links"
    BY <1>2, <2>1, <2>3
  <2> QED  BY <1>1, <2>1, <2>2, <2>4 DEF InTurn
<1> QED  BY <1>3, <1>4, <1>5, QueueMoves

LEMMA OthersStay ==
    ASSUME NEW r \in Ranks, Moves(r), NEW p \in Ranks \ {r}
    PROVE  /\ Orderly(p) => Orderly(p)'
           /\ InTurn(p) => InTurn(p)'
<1>1. /\ UNCHANGED leader /\ toRank'[p] = toRank[p] /\ stage'[p] = stage[p]
      /\ session'[p] = session[p]
  BY DEF Moves
<1>2. Fresh(p)' = Fresh(p)
  BY <1>1 DEF leader, Fresh, Over
<1>3. Orderly(p) => Orderly(p)'
  BY <1>1, <1>2 DEF Orderly
<1>4. InTurn(p) => InTurn(p)'
  BY <1>1 DEF InTurn, leader
<1> QED  BY <1>3, <1>4

LEMMA PastLinksStay ==
    ASSUME TypesHold, TypesHold', NEW r \in Ranks, Moves(r), Orderly(r), InTurn(r),
           NEW p \in Ranks, NEW ph \in Int, PastLinks(p, ph)
    PROVE  session'[p] > ph \/ (session'[p] = ph /\ stage'[p] # "links")
<1>1. session[p] \in Int /\ session'[p] \in Int
  BY RendezvousAssumption DEF TypesHold
<1>2. CASE p # r
  BY <1>2 DEF Moves, PastLinks
<1>3. CASE p = r
  <2>1. /\ session'[r] >= session[r]
        /\ session'[r] = session[r] /\ stage[r] # "links" => stage'[r] # "links"
    BY MovesInTurn
  <2> QED  BY <1>1, <1>3, <2>1 DEF PastLinks
<1> QED  BY <1>2, <1>3

LEMMA AllPastLinksStay ==
    ASSUME TypesHold, TypesHold', NEW r \in Ranks, Moves(r), Orderly(r), InTurn(r),
           NEW p \in Ranks, session'[p] = session[p],
           \A o \in Ranks : PastLinks(o, session[p])
    PROVE  (\A o \in Ranks : PastLinks(o, session[p]))'
<1>1. session[p] \in Int
  BY RendezvousAssumption DEF TypesHold
<1>2. \A o \in Ranks : session'[o] > session[p] \/ (session'[o] = session[p] /\ stage'[o] # "links")
  BY <1>1, PastLinksStay
<1> QED  BY <1>2 DEF PastLinks

LEMMA RelayedTail ==
    ASSUME NEW q \in Seq(Words), InLine(q), q # <<>>, NEW r, Relayed(q, r)
    PROVE  /\ Relayed(Tail(q), r) /\ (TableComes(Tail(q)) => TableComes(q))
           /\ Head(q).kind = "OpenSession" => ~TableComes(Tail(q))
           /\ Head(q).kind = "SessionLinks" => Head(q).body = LinksOf(r)
           /\ Head(q).kind = "SessionReady" => Head(q).body = Keyed /\ TableComes(q)
<1>1. /\ \A i \in 1 .. Len(Tail(q)) : Tail(q)[i] = q[i + 1] /\ i + 1 \in 1 .. Len(q)
      /\ Head(q) = q[1] /\ Len(q) \in Nat \ {0}
  BY Tails
<1>2. 1 \in 1 .. Len(q)
  BY <1>1
<1>3. Relayed(Tail(q), r) /\ (TableComes(Tail(q)) => TableComes(q))
  BY <1>1 DEF Relayed, TableComes
<1>4. Head(q).kind = "OpenSession" => ~TableComes(Tail(q))
  <2>1. SUFFICES ASSUME Head(q).kind = "OpenSession" PROVE ~TableComes(Tail(q))
    OBVIOUS
  <2>2. \A i \in 1 .. Len(q) : q[i].kind \notin Told
    BY <2>1, NoneTold DEF Told
  <2> QED  BY <1>1, <2>2 DEF TableComes, Told
<1>5. /\ Head(q).kind = "SessionLinks" => Head(q).body = LinksOf(r)
      /\ Head(q).kind = "SessionReady" => Head(q).body = Keyed
  <2>1. /\ q[1].kind = "SessionLinks" => q[1].body = LinksOf(r)
        /\ q[1].kind = "SessionReady" => q[1].body = Keyed
    BY <1>2 DEF Relayed
  <2>2. Head(q) = q[1]
    BY <1>1
  <2> QED  BY <2>1, <2>2
<1>6. Head(q).kind = "SessionReady" => TableComes(q)
  BY <1>1, <1>2 DEF TableComes
<1> QED  BY <1>3, <1>4, <1>5, <1>6

(* What was told in a session does not come to the next one. *)
LEMMA MovesSaid ==
    ASSUME TypesHold, TypesHold', NEW r \in Ranks, Moves(r), Orderly(r), InTurn(r),
           NEW p \in Ranks, Said(p)
    PROVE  Said(p)'
<1>1. toRank[p] \in Seq(Words)
  BY DEF TypesHold
<1>2. (\A o \in Ranks : PastLinks(o, session[p])) /\ session'[p] = session[p]
          => (\A o \in Ranks : PastLinks(o, session[p]))'
  BY AllPastLinksStay
<1>3. CASE toRank'[p] = toRank[p] /\ session'[p] = session[p]
  BY <1>2, <1>3 DEF Said
<1>4. CASE p # r
  BY <1>3, <1>4 DEF Moves
<1>5. CASE p = r /\ Empties(r)
  <2>1. Relayed(<<>>, r) /\ ~TableComes(<<>>)
    <3>1. \A i \in 1 .. Len(<<>>) : FALSE  OBVIOUS
    <3> QED  BY <3>1 DEF Relayed, TableComes
  <2> QED  BY <1>5, <2>1 DEF Empties, Said
<1>6. CASE p = r /\ Keeps(r)
  BY <1>3, <1>6 DEF Keeps, Stays
<1>7. CASE p = r /\ Turns(r)
  <2>1. /\ toRank[r] # <<>> /\ toRank'[r] = Tail(toRank[r])
        /\ Head(toRank[r]).kind # "OpenSession" => session'[r] = session[r]
    BY <1>7 DEF Turns
  <2>2. /\ Relayed(Tail(toRank[r]), r)
        /\ TableComes(Tail(toRank[r])) => TableComes(toRank[r])
        /\ Head(toRank[r]).kind = "OpenSession" => ~TableComes(Tail(toRank[r]))
    BY <1>1, <1>7, <2>1, RelayedTail DEF Said, Orderly
  <2> QED  BY <1>2, <1>7, <2>1, <2>2 DEF Said
<1> QED  BY <1>4, <1>5, <1>6, <1>7, QueueMoves

LEMMA MovesLinked ==
    ASSUME TypesHold, TypesHold', NEW r \in Ranks, Moves(r), Orderly(r), InTurn(r),
           NEW p \in Ranks, Said(p), Linked(p)
    PROVE  Linked(p)'
<1>1. (\A o \in Ranks : PastLinks(o, session[p])) /\ session'[p] = session[p]
          => (\A o \in Ranks : PastLinks(o, session[p]))'
  BY AllPastLinksStay
<1>2. ASSUME /\ stage'[p] = stage[p] /\ session'[p] = session[p] /\ link'[p] = link[p]
             /\ table'[p] = table[p]
             /\ socket'[p] = socket[p] \/ stage[p] = "dial"
      PROVE  Linked(p)'
  BY <1>1, <1>2 DEF Linked, HasTable
<1>3. CASE p # r
  BY <1>2, <1>3 DEF Moves
<1>4. CASE p = r
  <2>1. CASE Closes(r) \/ Begins(r) \/ Returns(r)
    <3>1. stage'[r] \in {"closed", "links", "ready"}
      BY <2>1 DEF Closes, Begins, Returns
    <3> QED  BY <1>4, <3>1 DEF Linked, HasTable
  <2>2. CASE GetsLinks(r)
    <3>1. /\ stage'[r] = "table" /\ link'[r] = Opened(r) \cap Head(toRank[r]).body
          /\ toRank[r] # <<>> /\ Head(toRank[r]).kind = "SessionLinks"
      BY <2>2 DEF GetsLinks, Takes
    <3>2. toRank[r] \in Seq(Words) /\ InLine(toRank[r]) /\ Relayed(toRank[r], r)
      BY <1>4 DEF Said, Orderly, TypesHold
    <3>3. Head(toRank[r]).body = LinksOf(r)
      BY <3>1, <3>2, RelayedTail
    <3> QED  BY <1>4, <3>1, <3>3 DEF Linked, HasTable
  <2>3. CASE GetsTable(r)
    <3>1. /\ stage[r] = "table" /\ stage'[r] \in {"dial", "meet"} /\ link'[r] = link[r]
          /\ table'[r] = Head(toRank[r]).body \ {r} /\ session'[r] = session[r]
          /\ toRank[r] # <<>> /\ Head(toRank[r]).kind = "SessionReady"
      BY <2>3 DEF GetsTable, Takes
    <3>2. Head(toRank[r]).body = Keyed /\ TableComes(toRank[r])
      BY <1>4, <3>1, RelayedTail DEF Said, Orderly, TypesHold
    <3>3. (\A o \in Ranks : PastLinks(o, session[r]))'
      BY <1>1, <1>4, <3>1, <3>2 DEF Said
    <3>4. link[r] = Opened(r) \cap LinksOf(r)
      BY <1>4, <3>1 DEF Linked
    <3> QED  BY <1>4, <3>1, <3>2, <3>3, <3>4 DEF Linked, HasTable
  <2>4. CASE Joins(r)
    <3>1. /\ stage[r] \in {"meet", "dial"} /\ stage'[r] \in {"dial", "serving"}
          /\ stage'[r] = "serving" => Others(r) \subseteq socket'[r]
          /\ session'[r] = session[r] /\ link'[r] = link[r] /\ table'[r] = table[r]
      BY <2>4 DEF Joins
    <3> QED  BY <1>1, <1>4, <3>1 DEF Linked, HasTable
  <2>5. CASE StartsStep(r) \/ EndsStep(r)
    <3>1. /\ stage[r] \in {"serving", "sharing"} /\ stage'[r] \in {"serving", "sharing"}
          /\ session'[r] = session[r] /\ link'[r] = link[r] /\ table'[r] = table[r]
          /\ socket'[r] = socket[r]
      BY <2>5 DEF StartsStep, EndsStep
    <3> QED  BY <1>1, <1>4, <3>1 DEF Linked, HasTable
  <2> QED  BY <2>1, <2>2, <2>3, <2>4, <2>5 DEF Moves
<1> QED  BY <1>3, <1>4

-------------------------------------------------------------------------------
(* The leader's steps and the order of what the ranks read.                  *)

Leads == UNCHANGED <<stage, session, shared, rendezvous>>
LastOf(p) == IF pc = "open" /\ at =< p THEN phase - 1 ELSE phase

Sends(p, m) == toRank'[p] = IF stage[p] = "closed" THEN <<>> ELSE Append(toRank[p], m)

LEMMA LaterInTime ==
    ASSUME NEW q \in Seq(Words), NEW s, NEW last \in Int, NEW top \in Int, InTime(q, s, last),
           last =< top
    PROVE  InTime(q, s, top)
<1>1. \A i \in 1 .. Len(q) : q[i].phase \in Int
  <2>1. \A i \in 1 .. Len(q) : q[i] \in Words
    OBVIOUS
  <2> QED  BY <2>1 DEF Words
<1> QED  BY <1>1 DEF InTime

LEMMA LastIs ==
    ASSUME TypesHold, NEW p \in Ranks
    PROVE  /\ LastOf(p) \in Int /\ session[p] \in Int /\ phase \in Int /\ at \in Int /\ p \in Int
           /\ InTurn(p) <=> session[p] =< LastOf(p) /\ InTime(toRank[p], session[p], LastOf(p))
           /\ InTurn(p)' <=>
                session'[p] =< LastOf(p)' /\ InTime(toRank'[p], session'[p], LastOf(p)')
           /\ LastOf(p) = IF pc = "open" /\ at =< p THEN phase - 1 ELSE phase
           /\ LastOf(p)' = IF pc' = "open" /\ at' =< p THEN phase' - 1 ELSE phase'
<1>1. phase \in Int /\ session[p] \in Int /\ at \in Int /\ p \in Int
  BY RendezvousAssumption DEF TypesHold, Ranks
<1> QED  BY <1>1 DEF LastOf, InTurn

(* Nothing is sent to p. *)
LEMMA NothingSent ==
    ASSUME TypesHold, TypesHold', Leads, NEW p \in Ranks, toRank'[p] = toRank[p],
           Orderly(p), InTurn(p), Fresh(p) => Fresh(p)', LastOf(p) =< LastOf(p)'
    PROVE  Orderly(p)' /\ InTurn(p)'
<1>1. stage'[p] = stage[p] /\ session'[p] = session[p]
  BY DEF Leads
<1>2. Orderly(p)'
  BY <1>1 DEF Orderly
<1>3. toRank[p] \in Seq(Words)
  BY DEF TypesHold
<1>4. LastOf(p)' \in Int
  BY RendezvousAssumption DEF TypesHold, LastOf
<1>5. LastOf(p) \in Int /\ session[p] \in Int
  BY LastIs
<1>6. session[p] =< LastOf(p) /\ InTime(toRank[p], session[p], LastOf(p))
  BY LastIs
<1>7. InTime(toRank[p], session[p], LastOf(p)')
  BY <1>3, <1>4, <1>5, <1>6, LaterInTime
<1> QED  BY <1>1, <1>2, <1>4, <1>5, <1>6, <1>7, LastIs

(* A message is sent to p. *)
LEMMA OneSent ==
    ASSUME TypesHold, TypesHold', Leads, NEW p \in Ranks, NEW m \in Words, Sends(p, m),
           Orderly(p), InTurn(p), LastOf(p) =< LastOf(p)',
           m.kind \in Told \cup Bounds,
           m.kind \in Told /\ stage[p] # "closed" =>
               m.phase = session[p] /\ \A i \in 1 .. Len(toRank[p]) : toRank[p][i].kind \in Told,
           m.kind = "OpenSession" => LastOf(p) < m.phase /\ m.phase =< LastOf(p)',
           m.kind = "CloseSession" => Fresh(p)',
           m.kind # "OpenSession" => ~Fresh(p)
    PROVE  Orderly(p)' /\ InTurn(p)'
<1>1. stage'[p] = stage[p] /\ session'[p] = session[p]
  BY DEF Leads
<1>2. toRank[p] \in Seq(Words) /\ InLine(toRank[p])
  BY DEF TypesHold, Orderly
<1>3. LastOf(p)' \in Int
  BY RendezvousAssumption DEF TypesHold, LastOf
<1>4. LastOf(p) \in Int /\ session[p] \in Int
  BY LastIs
<1>5. session[p] =< LastOf(p) /\ InTime(toRank[p], session[p], LastOf(p))
  BY LastIs
<1>6. CASE stage[p] = "closed"
  <2>1. toRank'[p] = <<>>  BY <1>6 DEF Sends
  <2>2. InLine(<<>>) /\ InTime(<<>>, session[p], LastOf(p)')
    BY <1>3, <1>4, EmptyInLine
  <2> QED  BY <1>1, <1>3, <1>4, <1>5, <1>6, <2>1, <2>2, LastIs DEF Orderly
<1>7. CASE stage[p] # "closed"
  <2> DEFINE q == toRank[p]
  <2>1. toRank'[p] = Append(q, m)  BY <1>7 DEF Sends
  <2>2. /\ Append(q, m) \in Seq(Words) /\ Append(q, m) # <<>>
        /\ Append(q, m)[Len(Append(q, m))] = m
        /\ q # <<>> => Head(Append(q, m)) = Head(q)
        /\ q = <<>> => Head(Append(q, m)) = m
    BY <1>2, Appends
  <2>3. q # <<>> /\ q[Len(q)].kind = "CloseSession" => m.kind = "OpenSession"
    BY DEF Orderly
  <2>4. InLine(Append(q, m))
    <3>1. m.kind \in Told => \A i \in 1 .. Len(q) : q[i].kind \in Told  BY <1>7
    <3> QED  BY <1>2, <2>3, <3>1, InLineAppend
  <2>5. InTime(Append(q, m), session[p], LastOf(p)')
    <3>1. m.kind \in Told => m.phase = session[p]  BY <1>7
    <3>2. m.phase \in Int  BY DEF Words
    <3>3. m.kind = "OpenSession" =>
            session[p] < m.phase /\ LastOf(p) < m.phase /\ m.phase =< LastOf(p)'
      BY <1>3, <1>4, <1>5, <3>2
    <3> QED  BY <1>2, <1>3, <1>4, <1>5, <3>1, <3>3, InTimeAppend
  <2>6. stage[p] = "ready" => Head(Append(q, m)).kind = "OpenSession"
    <3>1. stage[p] = "ready" /\ q = <<>> => Fresh(p)  BY DEF Orderly
    <3>2. stage[p] = "ready" /\ q # <<>> => Head(q).kind = "OpenSession"  BY DEF Orderly
    <3> QED  BY <2>2, <3>1, <3>2
  <2>7. Orderly(p)'
    BY <1>1, <2>1, <2>2, <2>4, <2>6 DEF Orderly
  <2>8. InTurn(p)'
    <3>1. session'[p] =< LastOf(p)'
      BY <1>1, <1>3, <1>4, <1>5
    <3>2. InTime(toRank'[p], session'[p], LastOf(p)')
      BY <1>1, <2>1, <2>5, Zenon
    <3> QED  BY <3>1, <3>2, LastIs
  <2> QED  BY <2>7, <2>8
<1> QED  BY <1>6, <1>7

LEMMA AdvanceIs ==
    ASSUME TypesHold, NEW next, Advance(next)
    PROVE  /\ at' \in Ranks
           /\ \/ at = N - 1 /\ pc' = next /\ at' = 0
              \/ at < N - 1 /\ pc' = pc /\ at' = at + 1
<1>1. N \in Nat \ {0} /\ at \in 0 .. N - 1
  BY RendezvousAssumption DEF TypesHold, Ranks
<1>2. CASE at = N - 1
  <2>1. pc' = next /\ at' = 0  BY <1>2 DEF Advance, GoTo
  <2> QED  BY <1>1, <1>2, <2>1 DEF Ranks
<1>3. CASE at # N - 1
  <2>1. pc' = pc /\ at' = at + 1  BY <1>3 DEF Advance, GoTo
  <2> QED  BY <1>1, <1>3, <2>1 DEF Ranks
<1> QED  BY <1>2, <1>3

LEMMA SentIs ==
    ASSUME TypesHold, NEW m \in Words, Sent(at, m)
    PROVE  /\ toRank' \in [Ranks -> Seq(Words)] /\ Sends(at, m)
           /\ \A p \in Ranks \ {at} : toRank'[p] = toRank[p]
<1>1. at \in Ranks /\ toRank \in [Ranks -> Seq(Words)]
  BY DEF TypesHold
<1> DEFINE new == IF stage[at] = "closed" THEN <<>> ELSE Append(toRank[at], m)
<1>2. new \in Seq(Words)
  <2>1. Append(toRank[at], m) \in Seq(Words)  BY <1>1, Appends
  <2> QED  BY <2>1
<1>3. toRank' = [toRank EXCEPT ![at] = new]
  BY DEF Sent
<1>4. Sends(at, m) <=> toRank'[at] = new
  BY DEF Sends
<1> HIDE DEF new
<1> QED  BY <1>1, <1>2, <1>3, <1>4

LEMMA DropIs ==
    ASSUME TypesHold, Drop
    PROVE  /\ toRank' \in [Ranks -> Seq(Words)]
           /\ Message("CloseSession", phase, 0, {}) \in Words
           /\ \A p \in Ranks : Sends(p, Message("CloseSession", phase, 0, {}))
<1> DEFINE m == Message("CloseSession", phase, 0, {})
<1>1. m \in Words
  BY DEF TypesHold, Message, Words, Kinds
<1> HIDE DEF m
<1>2. toRank' = [p \in Ranks |-> IF stage[p] = "closed" THEN <<>> ELSE Append(toRank[p], m)]
  BY DEF Drop, m
<1>3. \A p \in Ranks : (IF stage[p] = "closed" THEN <<>> ELSE Append(toRank[p], m)) \in Seq(Words)
  <2> TAKE p \in Ranks
  <2>1. Append(toRank[p], m) \in Seq(Words)
    BY <1>1, Appends DEF TypesHold
  <2> QED  BY <2>1
<1> QED  BY <1>1, <1>2, <1>3 DEF Sends, m

LEMMA OpenOnLeads ==
    ASSUME TypesHold, OpenOn, \A p \in Ranks : Orderly(p) /\ InTurn(p)
    PROVE  TypesHold' /\ Leads /\ \A p \in Ranks : Orderly(p)' /\ InTurn(p)'
<1> DEFINE m == Message("OpenSession", phase, 0, {})
<1>1. /\ pc = "open" /\ Sent(at, m) /\ Advance("links")
      /\ heard' = [p \in Ranks |-> Nothing]
      /\ UNCHANGED <<phase, step, toLeader>> /\ Leads
  BY DEF OpenOn, Leads
<1>2. /\ m \in Words /\ m.kind = "OpenSession" /\ m.phase = phase
  BY DEF TypesHold, Message, Words, Kinds
<1> HIDE DEF m
<1>3. /\ toRank' \in [Ranks -> Seq(Words)] /\ Sends(at, m)
      /\ \A p \in Ranks \ {at} : toRank'[p] = toRank[p]
  BY <1>1, <1>2, SentIs
<1>4. /\ at' \in Ranks
      /\ \/ at = N - 1 /\ pc' = "links" /\ at' = 0
         \/ at < N - 1 /\ pc' = pc /\ at' = at + 1
  BY <1>1, AdvanceIs
<1>5. Nothing \in Words
  BY DEF Nothing, Message, Words, Kinds
<1>6. TypesHold'
  BY <1>1, <1>3, <1>4, <1>5 DEF TypesHold, Leads, rendezvous, Over
<1>7. ASSUME NEW p \in Ranks
      PROVE  Orderly(p)' /\ InTurn(p)'
  <2>0. Orderly(p) /\ InTurn(p)  OBVIOUS
  <2>1. /\ at \in Int /\ p \in Int /\ phase \in Int /\ phase' = phase /\ at \in Ranks
        /\ at =< N - 1 /\ p =< N - 1
    BY <1>1, RendezvousAssumption DEF TypesHold, Ranks
  <2>2. CASE p = at
    <3>1. LastOf(p) = phase - 1 /\ LastOf(p)' = phase
      BY <1>1, <1>4, <2>1, <2>2 DEF LastOf
    <3>2. Fresh(p)  BY <1>1, <2>1, <2>2 DEF Fresh
    <3>3. m.kind \in Told \cup Bounds /\ m.kind \notin Told  BY <1>2 DEF Told, Bounds
    <3>4. Sends(p, m)  BY <1>3, <2>2
    <3>5. /\ LastOf(p) =< LastOf(p)' /\ LastOf(p) < m.phase /\ m.phase =< LastOf(p)'
      BY <1>2, <2>1, <3>1
    <3> QED  BY <1>1, <1>2, <1>6, <2>0, <3>3, <3>4, <3>5, OneSent
  <2>3. CASE p # at
    <3>1. LastOf(p) =< LastOf(p)'
      BY <1>1, <1>4, <2>1, <2>3 DEF LastOf
    <3>2. Fresh(p) => Fresh(p)'
      BY <1>1, <1>4, <2>1, <2>3 DEF Fresh, Over
    <3> QED  BY <1>1, <1>3, <1>6, <2>0, <2>3, <3>1, <3>2, NothingSent
  <2> QED  BY <2>2, <2>3
<1> QED  BY <1>1, <1>6, <1>7

(* The steps in which it sends nothing. *)
LEMMA SilentLeads ==
    ASSUME TypesHold, TypesHold', Leads, toRank' = toRank,
           \A p \in Ranks : Orderly(p) /\ InTurn(p),
           \A p \in Ranks : (Fresh(p) => Fresh(p)') /\ LastOf(p) =< LastOf(p)'
    PROVE  \A p \in Ranks : Orderly(p)' /\ InTurn(p)'
  BY NothingSent

(* Where a phase is taken over, or the next one begins. *)
LEMMA NextPhaseIs ==
    ASSUME TypesHold, NextPhase
    PROVE  /\ at' = 0 /\ 0 \in Ranks /\ phase' \in 1 .. Phases
           /\ \/ pc' = "open" /\ phase' = phase + 1
              \/ pc' = "done" /\ phase' = phase
<1>1. phase \in 1 .. Phases /\ Phases \in Nat /\ 0 \in Ranks
  BY RendezvousAssumption DEF TypesHold, Ranks
<1>2. CASE phase < Phases
  <2>1. pc' = "open" /\ at' = 0 /\ phase' = phase + 1  BY <1>2 DEF NextPhase, GoTo
  <2> QED  BY <1>1, <1>2, <2>1
<1>3. CASE ~(phase < Phases)
  <2>1. pc' = "done" /\ at' = 0 /\ phase' = phase  BY <1>3 DEF NextPhase, GoTo
  <2> QED  BY <1>1, <2>1
<1> QED  BY <1>2, <1>3

LEMMA HereLeads ==
    ASSUME TypesHold, CannotOpen \/ TakeHere \/ LeaderStops,
           \A p \in Ranks : Orderly(p) /\ InTurn(p)
    PROVE  /\ TypesHold' /\ Leads /\ \A p \in Ranks : Orderly(p)' /\ InTurn(p)'
           /\ UNCHANGED <<step, heard, wires>>
<1>1. Leads /\ UNCHANGED <<step, heard, wires>> /\ toRank' = toRank
  BY DEF CannotOpen, TakeHere, LeaderStops, Leads, wires
<1>2. /\ at' = 0 /\ 0 \in Ranks /\ phase' \in 1 .. Phases
      /\ \/ pc = "open" /\ pc' = "here" /\ phase' = phase
         \/ pc = "here" /\ pc' = "open" /\ phase' = phase + 1
         \/ pc = "here" /\ pc' = "done" /\ phase' = phase
         \/ pc' = "stopped" /\ phase' = phase
  <2>1. CASE CannotOpen
    BY <2>1, RendezvousAssumption DEF CannotOpen, GoTo, Ranks, TypesHold
  <2>2. CASE TakeHere
    BY <2>2, NextPhaseIs DEF TakeHere
  <2>3. CASE LeaderStops
    BY <2>3, RendezvousAssumption DEF LeaderStops, GoTo, Ranks, TypesHold
  <2> QED  BY <2>1, <2>2, <2>3
<1>3. TypesHold'
  BY <1>1, <1>2 DEF TypesHold, Leads, rendezvous, wires, Over
<1>4. ASSUME NEW p \in Ranks
      PROVE  (Fresh(p) => Fresh(p)') /\ LastOf(p) =< LastOf(p)'
  <2>1. p \in Int /\ 0 =< p /\ phase \in Int
    BY RendezvousAssumption DEF TypesHold, Ranks
  <2>2. Fresh(p) => Fresh(p)'
    BY <1>2, <2>1 DEF Fresh, Over
  <2>3. LastOf(p) =< LastOf(p)'
    <3>1. LastOf(p) = phase \/ (pc = "open" /\ LastOf(p) = phase - 1)
      BY DEF LastOf
    <3>2. LastOf(p)' = IF pc' = "open" THEN phase' - 1 ELSE phase'
      BY <1>2, <2>1 DEF LastOf
    <3> QED  BY <1>2, <2>1, <3>1, <3>2
  <2> QED  BY <2>2, <2>3
<1> QED  BY <1>1, <1>3, <1>4, SilentLeads

(* The leader hears an answer, as it comes. *)
LEMMA HeadHeard ==
    ASSUME TypesHold, toLeader[at] # <<>>,
           heard' = [heard EXCEPT ![at] = Head(toLeader[at])],
           toLeader' = [toLeader EXCEPT ![at] = Tail(@)]
    PROVE  /\ heard' \in [Ranks -> Words] /\ toLeader' \in [Ranks -> Seq(Words)]
           /\ heard'[at] = Head(toLeader[at]) /\ toLeader'[at] = Tail(toLeader[at])
           /\ \A p \in Ranks \ {at} : heard'[p] = heard[p] /\ toLeader'[p] = toLeader[p]
<1>1. at \in Ranks /\ toLeader \in [Ranks -> Seq(Words)] /\ heard \in [Ranks -> Words]
  BY DEF TypesHold
<1>2. Head(toLeader[at]) \in Words /\ Tail(toLeader[at]) \in Seq(Words)
  BY <1>1, Tails
<1> QED  BY <1>1, <1>2

LEMMA HearLeads ==
    ASSUME TypesHold, Hear, \A p \in Ranks : Orderly(p) /\ InTurn(p)
    PROVE  TypesHold' /\ Leads /\ \A p \in Ranks : Orderly(p)' /\ InTurn(p)'
<1>1. /\ pc \in {"links", "ready", "parts"} /\ toLeader[at] # <<>>
      /\ heard' = [heard EXCEPT ![at] = Head(toLeader[at])]
      /\ toLeader' = [toLeader EXCEPT ![at] = Tail(@)]
      /\ UNCHANGED <<phase, step, toRank>> /\ Leads
  BY HeadIs DEF Hear, Leads
<1>2. heard' \in [Ranks -> Words] /\ toLeader' \in [Ranks -> Seq(Words)]
  BY <1>1, HeadHeard
<1>3. /\ at' \in Ranks
      /\ \/ pc' = pc
         \/ /\ at' = 0 /\ pc # "stepped" /\ pc # "here"
            /\ \/ pc = "links" /\ pc' = "tellLinks"
               \/ pc = "ready" /\ pc' = "tellTable"
               \/ pc = "parts" /\ pc' = "stepped"
  <2>1. PICK next : /\ Advance(next)
                    /\ next = CASE pc = "links" -> "tellLinks"
                                [] pc = "ready" -> "tellTable"
                                [] pc = "parts" -> "stepped"
    BY DEF Hear
  <2>2. /\ at' \in Ranks
        /\ \/ pc' = next /\ at' = 0
           \/ pc' = pc
    BY <2>1, AdvanceIs
  <2> QED  BY <1>1, <2>1, <2>2
<1>4. TypesHold'
  BY <1>1, <1>2, <1>3 DEF TypesHold, Leads, rendezvous, Over
<1>5. ASSUME NEW p \in Ranks
      PROVE  (Fresh(p) => Fresh(p)') /\ LastOf(p) =< LastOf(p)'
  <2>1. ~Fresh(p)  BY <1>1 DEF Fresh, Over
  <2>2. LastOf(p) = phase /\ LastOf(p)' = phase /\ phase \in Int
    BY <1>1, <1>3, SMTT(60) DEF LastOf, TypesHold
  <2> QED  BY <2>1, <2>2
<1> QED  BY <1>1, <1>4, <1>5, SilentLeads

LEMMA SteppedLeads ==
    ASSUME TypesHold, Stepped, \A p \in Ranks : Orderly(p) /\ InTurn(p)
    PROVE  TypesHold' /\ Leads /\ \A p \in Ranks : Orderly(p)' /\ InTurn(p)'
<1>1. pc = "stepped" /\ UNCHANGED <<heard, toLeader>> /\ Leads
  BY DEF Stepped, Leads
<1>0. 0 \in Ranks /\ step \in 1 .. Steps /\ Steps \in Nat \ {0} /\ phase \in 1 .. Phases
  BY RendezvousAssumption DEF TypesHold, Ranks
<1>2. CASE step < Steps
  <2>1. pc' = "tellStep" /\ at' = 0 /\ step' = step + 1 /\ UNCHANGED <<phase, toRank>>
    BY <1>2 DEF Stepped, GoTo
  <2>2. step' \in 1 .. Steps
    BY <1>0, <1>2, <2>1
  <2>3. TypesHold'
    BY <1>0, <1>1, <2>1, <2>2 DEF TypesHold, Leads, rendezvous, Over
  <2>4. ASSUME NEW p \in Ranks
        PROVE  (Fresh(p) => Fresh(p)') /\ LastOf(p) =< LastOf(p)'
    <3>1. ~Fresh(p)  BY <1>1 DEF Fresh, Over
    <3>2. LastOf(p) = phase /\ LastOf(p)' = phase /\ phase \in Int
      BY <1>0, <1>1, <2>1 DEF LastOf
    <3> QED  BY <3>1, <3>2
  <2> QED  BY <1>1, <2>1, <2>3, <2>4, SilentLeads
<1>3. CASE ~(step < Steps)
  <2>1. NextPhase /\ step' = 1 /\ Drop
    BY <1>3 DEF Stepped
  <2>2. /\ at' = 0 /\ phase' \in 1 .. Phases
        /\ \/ pc' = "open" /\ phase' = phase + 1
           \/ pc' = "done" /\ phase' = phase
    BY <2>1, NextPhaseIs
  <2> DEFINE m == Message("CloseSession", phase, 0, {})
  <2>3. /\ toRank' \in [Ranks -> Seq(Words)] /\ m \in Words /\ \A p \in Ranks : Sends(p, m)
    BY <2>1, DropIs
  <2>4. m.kind = "CloseSession"  BY DEF Message
  <2> HIDE DEF m
  <2>5. TypesHold'
    BY <1>0, <1>1, <2>1, <2>2, <2>3 DEF TypesHold, Leads, rendezvous, Over
  <2>6. ASSUME NEW p \in Ranks
        PROVE  Orderly(p)' /\ InTurn(p)'
    <3>1. ~Fresh(p)  BY <1>1 DEF Fresh, Over
    <3>2. p \in Int /\ 0 =< p  BY RendezvousAssumption DEF Ranks
    <3>3. LastOf(p) = phase /\ LastOf(p)' = phase /\ phase \in Int
      <4>1. LastOf(p) = phase /\ phase \in Int
        BY <1>0, <1>1 DEF LastOf
      <4>2. LastOf(p)' = IF pc' = "open" THEN phase' - 1 ELSE phase'
        BY <2>2, <3>2 DEF LastOf
      <4>3. CASE pc' = "open" /\ phase' = phase + 1
        BY <4>1, <4>2, <4>3
      <4>4. CASE pc' = "done" /\ phase' = phase
        BY <4>1, <4>2, <4>4
      <4> QED  BY <2>2, <4>3, <4>4
    <3>4. Fresh(p)'
      BY <2>2, <3>2 DEF Fresh, Over
    <3>5. Orderly(p) /\ InTurn(p) /\ Sends(p, m)  BY <2>3
    <3>6. m.kind \in Told \cup Bounds /\ m.kind \notin Told  BY <2>4 DEF Told, Bounds
    <3>7. LastOf(p) =< LastOf(p)'  BY <3>3
    <3> QED  BY <1>1, <2>3, <2>4, <2>5, <3>1, <3>4, <3>5, <3>6, <3>7, OneSent
  <2> QED  BY <1>1, <2>5, <2>6
<1> QED  BY <1>2, <1>3

LEMMA TroubleLeads ==
    ASSUME TypesHold, Refused \/ Lost, \A p \in Ranks : Orderly(p) /\ InTurn(p)
    PROVE  TypesHold' /\ Leads /\ \A p \in Ranks : Orderly(p)' /\ InTurn(p)'
<1>1. /\ pc \in {"links", "ready", "parts", "tellLinks", "tellTable", "tellStep"}
      /\ Trouble /\ Drop /\ at' = 0 /\ UNCHANGED <<phase, step>> /\ Leads
      /\ \/ pc' = "here" /\ pc \notin {"tellStep", "parts"}
         \/ pc' = "failed"
  BY DEF Refused, Lost, Trouble, GoTo, Leads
<1>2. heard' \in [Ranks -> Words] /\ toLeader' \in [Ranks -> Seq(Words)]
  <2>1. CASE UNCHANGED <<heard, toLeader>>
    BY <2>1 DEF TypesHold
  <2>2. CASE ~UNCHANGED <<heard, toLeader>>
    <3>1. /\ toLeader[at] # <<>> /\ heard' = [heard EXCEPT ![at] = Head(toLeader[at])]
          /\ toLeader' = [toLeader EXCEPT ![at] = Tail(@)]
      BY <1>1, <2>2 DEF Trouble
    <3> QED  BY <3>1, HeadHeard
  <2> QED  BY <2>1, <2>2
<1> DEFINE m == Message("CloseSession", phase, 0, {})
<1>3. /\ toRank' \in [Ranks -> Seq(Words)] /\ m \in Words /\ \A p \in Ranks : Sends(p, m)
  BY <1>1, DropIs
<1>4. m.kind = "CloseSession"  BY DEF Message
<1> HIDE DEF m
<1>5. 0 \in Ranks
  BY RendezvousAssumption DEF Ranks
<1>6. TypesHold'
  BY <1>1, <1>2, <1>3, <1>5 DEF TypesHold, Leads, rendezvous, Over
<1>7. ASSUME NEW p \in Ranks
      PROVE  Orderly(p)' /\ InTurn(p)'
  <2>1. ~Fresh(p)  BY <1>1 DEF Fresh, Over
  <2>2. LastOf(p) = phase /\ LastOf(p)' = phase /\ phase \in Int
    BY <1>1 DEF LastOf, TypesHold
  <2>3. Fresh(p)'
    BY <1>1 DEF Fresh, Over
  <2>4. Orderly(p) /\ InTurn(p) /\ Sends(p, m)  BY <1>3
  <2>5. m.kind \in Told \cup Bounds /\ m.kind \notin Told  BY <1>4 DEF Told, Bounds
  <2>6. LastOf(p) =< LastOf(p)'  BY <2>2
  <2> QED  BY <1>1, <1>3, <1>4, <1>6, <2>1, <2>3, <2>4, <2>5, <2>6, OneSent
<1> QED  BY <1>1, <1>6, <1>7

-------------------------------------------------------------------------------
(* What the leader passes on.                                                *)

LEMMA Passed ==
    ASSUME TypesHold, pc \in {"tellLinks", "tellTable", "tellStep"}, InOrder
    PROVE  /\ \A r \in Ranks : Clean(r)
           /\ \A r \in Ranks : session[r] = phase
           /\ pc # "tellLinks" => \A r \in Ranks : stage[r] # "links"
           /\ \/ stage[at] = "closed"
              \/ /\ stage[at] # "ready"
                 /\ toRank[at] = <<>> \/ (toRank[at] = <<Table>> /\ pc = "tellStep")
<1>1. \A r \in Ranks : Clean(r)
  BY DEF InOrder, Over, Marred
<1>2. at \in Ranks /\ ~(at < at)
  BY RendezvousAssumption DEF TypesHold, Ranks
<1>3. CASE pc = "tellLinks"
  <2>1. \A r \in Ranks : AskedReady(r) \/ HeardLinks(r)
    BY <1>1, <1>3 DEF Clean, Placed
  <2>2. \A r \in Ranks : session[r] = phase
    BY <2>1 DEF AskedReady, HeardLinks
  <2>3. HeardLinks(at)
    BY <1>1, <1>2, <1>3 DEF Clean, Placed
  <2> QED  BY <1>1, <1>3, <2>2, <2>3 DEF HeardLinks
<1>4. CASE pc = "tellTable"
  <2>1. \A r \in Ranks : ToldTable(r) \/ HeardReady(r)
    BY <1>1, <1>4 DEF Clean, Placed
  <2>2. \A r \in Ranks : session[r] = phase /\ stage[r] # "links"
    BY <2>1 DEF ToldTable, HeardReady, Gone
  <2>3. HeardReady(at)
    BY <1>1, <1>2, <1>4 DEF Clean, Placed
  <2> QED  BY <1>1, <1>4, <2>2, <2>3 DEF HeardReady
<1>5. CASE pc = "tellStep"
  <2>1. \A r \in Ranks : AskedStep(r) \/ ToldTable(r) \/ DoneStep(r, step - 1)
    BY <1>1, <1>5 DEF Clean, Placed
  <2>2. \A r \in Ranks : session[r] = phase /\ stage[r] # "links"
    BY <2>1 DEF AskedStep, ToldTable, DoneStep, Gone
  <2>3. ToldTable(at) \/ DoneStep(at, step - 1)
    BY <1>1, <1>2, <1>5 DEF Clean, Placed
  <2> QED  BY <1>1, <1>5, <2>2, <2>3 DEF ToldTable, DoneStep, Gone
<1> QED  BY <1>3, <1>4, <1>5

(* What it passes on is what every rank said. *)
LEMMA PassedBodies ==
    ASSUME TypesHold, InOrder
    PROVE  /\ pc = "tellLinks" => Offers(at) = LinksOf(at)
           /\ pc = "tellTable" => Registered = Keyed
<1>1. ASSUME pc = "tellLinks" PROVE Offers(at) = LinksOf(at)
  <2>1. \A p \in Ranks : heard[p].body = Opened(p)
    BY <1>1, Passed DEF Clean, Known
  <2> QED  BY <2>1 DEF Offers, LinksOf, Others
<1>2. ASSUME pc = "tellTable" PROVE Registered = Keyed
  <2>1. \A p \in Ranks : heard[p].body = Keys(p)
    BY <1>2, Passed DEF Clean, Known
  <2> QED  BY <2>1 DEF Registered, Keyed
<1> QED  BY <1>1, <1>2

(* The messages as `Tell` sends them. *)
Telling == CASE pc = "tellLinks" -> Message("SessionLinks", phase, 0, Offers(at))
             [] pc = "tellTable" -> Message("SessionReady", phase, 0, Registered)
             [] pc = "tellStep" -> Message("StepShard", phase, step, {})

LEMMA TellingIs ==
    ASSUME TypesHold, pc \in {"tellLinks", "tellTable", "tellStep"}
    PROVE  /\ Telling \in Words /\ Telling.kind \in Told /\ Telling.phase = phase
           /\ pc = "tellLinks" => Telling.kind = "SessionLinks" /\ Telling.body = Offers(at)
           /\ pc = "tellTable" => Telling.kind = "SessionReady" /\ Telling.body = Registered
           /\ pc = "tellStep" => Telling.kind = "StepShard"
<1>1. Offers(at) \in SUBSET Ranks /\ Registered \in SUBSET Ranks /\ phase \in Int /\ step \in Int
  BY DEF Offers, Registered, Others, TypesHold
<1>2. CASE pc = "tellLinks"
  <2>1. Telling = Message("SessionLinks", phase, 0, Offers(at))  BY <1>2 DEF Telling
  <2> QED  BY <1>1, <1>2, <2>1 DEF Message, Words, Kinds, Told
<1>3. CASE pc = "tellTable"
  <2>1. Telling = Message("SessionReady", phase, 0, Registered)  BY <1>3 DEF Telling
  <2> QED  BY <1>1, <1>3, <2>1 DEF Message, Words, Kinds, Told
<1>4. CASE pc = "tellStep"
  <2>1. Telling = Message("StepShard", phase, step, {})  BY <1>4 DEF Telling
  <2> QED  BY <1>1, <1>4, <2>1 DEF Message, Words, Kinds, Told
<1> QED  BY <1>2, <1>3, <1>4

LEMMA TellIs ==
    ASSUME TypesHold, Tell
    PROVE  /\ pc \in {"tellLinks", "tellTable", "tellStep"}
           /\ TypesHold' /\ Leads /\ UNCHANGED <<phase, step, heard, toLeader>>
           /\ Sends(at, Telling) /\ \A p \in Ranks \ {at} : toRank'[p] = toRank[p]
           /\ \/ /\ at = N - 1 /\ at' = 0
                 /\ pc' = CASE pc = "tellLinks" -> "ready"
                            [] pc = "tellTable" -> "tellStep"
                            [] pc = "tellStep" -> "parts"
              \/ at < N - 1 /\ at' = at + 1 /\ pc' = pc
<1>1. /\ pc \in {"tellLinks", "tellTable", "tellStep"} /\ Sent(at, Telling)
      /\ UNCHANGED <<phase, step, heard, toLeader>> /\ Leads
  BY DEF Tell, Telling, Leads
<1>2. /\ toRank' \in [Ranks -> Seq(Words)] /\ Sends(at, Telling)
      /\ \A p \in Ranks \ {at} : toRank'[p] = toRank[p]
  BY <1>1, SentIs, TellingIs
<1> DEFINE next == CASE pc = "tellLinks" -> "ready"
                     [] pc = "tellTable" -> "tellStep"
                     [] pc = "tellStep" -> "parts"
<1>3. Advance(next)
  BY DEF Tell
<1>4. next \in {"ready", "tellStep", "parts"} /\ (next = "ready" => pc = "tellLinks")
  BY <1>1
<1> HIDE DEF next
<1>5. /\ at' \in Ranks
      /\ \/ at = N - 1 /\ pc' = next /\ at' = 0
         \/ at < N - 1 /\ pc' = pc /\ at' = at + 1
  BY <1>3, AdvanceIs
<1>6. TypesHold'
  BY <1>1, <1>2, <1>4, <1>5 DEF TypesHold, Leads, rendezvous, Over
<1> QED  BY <1>1, <1>2, <1>5, <1>6 DEF next

LEMMA TellLeads ==
    ASSUME TypesHold, Tell, InOrder, \A p \in Ranks : Orderly(p) /\ InTurn(p)
    PROVE  \A p \in Ranks : Orderly(p)' /\ InTurn(p)'
<1>1. /\ pc \in {"tellLinks", "tellTable", "tellStep"} /\ TypesHold' /\ Leads /\ phase' = phase
      /\ Sends(at, Telling) /\ \A p \in Ranks \ {at} : toRank'[p] = toRank[p]
      /\ pc' # "open" /\ at \in Ranks
  BY TellIs DEF TypesHold
<1>2. Telling \in Words /\ Telling.kind \in Told /\ Telling.phase = phase
  BY <1>1, TellingIs
<1>3. ASSUME NEW p \in Ranks
      PROVE  ~Fresh(p) /\ LastOf(p) = phase /\ LastOf(p)' = phase /\ LastOf(p) =< LastOf(p)'
  <2>1. ~Fresh(p)  BY <1>1 DEF Fresh, Over
  <2>2. LastOf(p) = phase /\ LastOf(p)' = phase /\ phase \in Int
    BY <1>1 DEF LastOf, TypesHold
  <2> QED  BY <2>1, <2>2
<1>4. /\ Telling.kind \in Told \cup Bounds
      /\ Telling.kind # "OpenSession" /\ Telling.kind # "CloseSession"
  BY <1>2 DEF Told, Bounds
<1>5. ASSUME stage[at] # "closed"
      PROVE  /\ Telling.phase = session[at]
             /\ \A i \in 1 .. Len(toRank[at]) : toRank[at][i].kind \in Told
  <2>1. session[at] = phase /\ (toRank[at] = <<>> \/ toRank[at] = <<Table>>)
    BY <1>1, <1>5, Passed
  <2>2. \A i \in 1 .. Len(<<>>) : FALSE  OBVIOUS
  <2>3. \A i \in 1 .. Len(<<Table>>) : <<Table>>[i] = Table  OBVIOUS
  <2>4. Table.kind \in Told  BY DEF Table, Message, Told
  <2>5. \A i \in 1 .. Len(toRank[at]) : toRank[at][i].kind \in Told
    <3>1. CASE toRank[at] = <<>>  BY <2>2, <3>1
    <3>2. CASE toRank[at] = <<Table>>
      <4>1. \A i \in 1 .. Len(<<Table>>) : <<Table>>[i].kind \in Told  BY <2>3, <2>4
      <4> QED  BY <3>2, <4>1, Zenon
    <3> QED  BY <2>1, <3>1, <3>2
  <2> QED  BY <1>2, <2>1, <2>5
<1>6. ASSUME NEW p \in Ranks
      PROVE  Orderly(p)' /\ InTurn(p)'
  <2>0. Orderly(p) /\ InTurn(p)  OBVIOUS
  <2>1. CASE p = at
    <3>1. Sends(p, Telling)  BY <1>1, <2>1
    <3>2. stage[p] # "closed" => /\ Telling.phase = session[p]
                                 /\ \A i \in 1 .. Len(toRank[p]) : toRank[p][i].kind \in Told
      BY <1>5, <2>1, Zenon
    <3>3. ~Fresh(p) /\ LastOf(p) =< LastOf(p)'  BY <1>3
    <3> QED  BY <1>1, <1>2, <1>4, <2>0, <3>1, <3>2, <3>3, OneSent
  <2>2. CASE p # at
    <3>1. ~Fresh(p) /\ LastOf(p) =< LastOf(p)'  BY <1>3
    <3>2. toRank'[p] = toRank[p]  BY <1>1, <2>2
    <3> QED  BY <1>1, <2>0, <3>1, <3>2, NothingSent
  <2> QED  BY <2>1, <2>2
<1> QED  BY <1>6

LEMMA LeadsLinked ==
    ASSUME Leads, NEW p \in Ranks
    PROVE  /\ Linked(p) => Linked(p)'
           /\ (\A o \in Ranks : PastLinks(o, session[p]))
                => (\A o \in Ranks : PastLinks(o, session[p]))'
<1>1. /\ stage' = stage /\ session' = session /\ link' = link /\ table' = table
      /\ socket' = socket
  BY DEF Leads, rendezvous
<1>2. (\A o \in Ranks : PastLinks(o, session[p]))
          => (\A o \in Ranks : PastLinks(o, session[p]))'
  BY <1>1 DEF PastLinks
<1>3. Linked(p) => Linked(p)'
  BY <1>1, <1>2 DEF Linked
<1> QED  BY <1>2, <1>3

LEMMA RelayedAppend ==
    ASSUME NEW q \in Seq(Words), NEW r, Relayed(q, r), NEW m \in Words,
           m.kind = "SessionLinks" => m.body = LinksOf(r),
           m.kind = "SessionReady" => m.body = Keyed
    PROVE  /\ Relayed(Append(q, m), r)
           /\ TableComes(Append(q, m)) => TableComes(q) \/ m.kind = "SessionReady"
           /\ Relayed(<<>>, r) /\ ~TableComes(<<>>)
<1> DEFINE p == Append(q, m)
<1>1. /\ Len(p) = Len(q) + 1 /\ Len(q) \in Nat
      /\ \A i \in 1 .. Len(q) : p[i] = q[i]
      /\ p[Len(q) + 1] = m
  BY Appends
<1>2. \A i \in 1 .. Len(p) : i \in 1 .. Len(q) \/ i = Len(q) + 1
  BY <1>1
<1> HIDE DEF p
<1>3. Relayed(p, r)
  BY <1>1, <1>2 DEF Relayed
<1>4. TableComes(p) => TableComes(q) \/ m.kind = "SessionReady"
  BY <1>1, <1>2 DEF TableComes
<1>5. \A i \in 1 .. Len(<<>>) : FALSE
  OBVIOUS
<1>6. Relayed(<<>>, r) /\ ~TableComes(<<>>)
  BY <1>5 DEF Relayed, TableComes
<1> QED  BY <1>3, <1>4, <1>6 DEF p

LEMMA LeadsSaid ==
    ASSUME TypesHold, Leads, NEW p \in Ranks, Said(p), NEW m \in Words,
           toRank'[p] = toRank[p] \/ Sends(p, m),
           m.kind = "SessionLinks" => m.body = LinksOf(p),
           m.kind = "SessionReady" =>
               m.body = Keyed /\ \A o \in Ranks : PastLinks(o, session[p])
    PROVE  Said(p)'
<1>1. toRank[p] \in Seq(Words) /\ Relayed(toRank[p], p)
  BY DEF TypesHold, Said
<1>2. /\ Relayed(Append(toRank[p], m), p) /\ Relayed(<<>>, p) /\ ~TableComes(<<>>)
      /\ TableComes(Append(toRank[p], m)) => TableComes(toRank[p]) \/ m.kind = "SessionReady"
  BY <1>1, RelayedAppend
<1>3. /\ Relayed(toRank'[p], p)
      /\ TableComes(toRank'[p]) => TableComes(toRank[p]) \/ m.kind = "SessionReady"
  BY <1>1, <1>2 DEF Sends
<1>4. TableComes(toRank'[p]) => \A o \in Ranks : PastLinks(o, session[p])
  BY <1>3 DEF Said
<1>5. TableComes(toRank'[p]) => (\A o \in Ranks : PastLinks(o, session[p]))'
  BY <1>4, LeadsLinked
<1> QED  BY <1>3, <1>5 DEF Said

LEMMA TellSaid ==
    ASSUME TypesHold, Tell, InOrder, \A p \in Ranks : Said(p)
    PROVE  \A p \in Ranks : Said(p)'
<1>1. /\ pc \in {"tellLinks", "tellTable", "tellStep"} /\ Leads /\ at \in Ranks
      /\ Sends(at, Telling) /\ \A p \in Ranks \ {at} : toRank'[p] = toRank[p]
  BY TellIs DEF TypesHold
<1>2. /\ Telling \in Words
      /\ pc = "tellLinks" => Telling.kind = "SessionLinks" /\ Telling.body = Offers(at)
      /\ pc = "tellTable" => Telling.kind = "SessionReady" /\ Telling.body = Registered
      /\ pc = "tellStep" => Telling.kind = "StepShard"
  BY <1>1, TellingIs
<1>3. /\ pc = "tellLinks" => Offers(at) = LinksOf(at)
      /\ pc = "tellTable" => Registered = Keyed
      /\ pc # "tellLinks" => \A o \in Ranks : PastLinks(o, session[at])
  <2>1. \A r \in Ranks : session[r] = phase  BY <1>1, Passed
  <2>2. pc # "tellLinks" => \A r \in Ranks : stage[r] # "links"  BY <1>1, Passed
  <2> QED  BY <1>1, <2>1, <2>2, PassedBodies DEF PastLinks
<1>4. /\ Telling.kind = "SessionLinks" => Telling.body = LinksOf(at)
      /\ Telling.kind = "SessionReady" =>
           Telling.body = Keyed /\ \A o \in Ranks : PastLinks(o, session[at])
  BY <1>1, <1>2, <1>3
<1>5. ASSUME NEW p \in Ranks
      PROVE  Said(p)'
  <2>0. Said(p)  OBVIOUS
  <2>1. CASE p = at
    <3>1. Sends(p, Telling)  BY <1>1, <2>1
    <3>2. /\ Telling.kind = "SessionLinks" => Telling.body = LinksOf(p)
          /\ Telling.kind = "SessionReady" =>
               Telling.body = Keyed /\ \A o \in Ranks : PastLinks(o, session[p])
      BY <1>4, <2>1
    <3> QED  BY <1>1, <1>2, <2>0, <3>1, <3>2, LeadsSaid
  <2>2. CASE p # at
    <3>1. toRank'[p] = toRank[p]  BY <1>1, <2>2
    <3>2. Nothing \in Words /\ Nothing.kind = "Nothing"
      BY DEF Nothing, Message, Words, Kinds
    <3> QED  BY <1>1, <2>0, <3>1, <3>2, LeadsSaid
  <2> QED  BY <2>1, <2>2
<1> QED  BY <1>5

(* The other steps send what opens or ends a session, or nothing. *)
LEMMA LeadsQueues ==
    ASSUME TypesHold,
           OpenOn \/ CannotOpen \/ Hear \/ Stepped \/ Refused \/ Lost \/ TakeHere \/ LeaderStops
    PROVE  \E m \in Words : /\ m.kind \in Bounds
                            /\ \A p \in Ranks : toRank'[p] = toRank[p] \/ Sends(p, m)
<1>1. ASSUME toRank' = toRank
      PROVE  \E m \in Words : /\ m.kind \in Bounds
                              /\ \A p \in Ranks : toRank'[p] = toRank[p] \/ Sends(p, m)
  <2>1. /\ Message("CloseSession", 0, 0, {}) \in Words
        /\ Message("CloseSession", 0, 0, {}).kind \in Bounds
    BY DEF Message, Words, Kinds, Bounds
  <2> QED  BY <1>1, <2>1
<1>2. CASE CannotOpen \/ Hear \/ TakeHere \/ LeaderStops
  <2>1. toRank' = toRank
    BY <1>2 DEF CannotOpen, Hear, TakeHere, LeaderStops, wires
  <2> QED  BY <1>1, <2>1
<1>3. CASE OpenOn
  <2> DEFINE m == Message("OpenSession", phase, 0, {})
  <2>1. m \in Words /\ m.kind \in Bounds
    BY DEF TypesHold, Message, Words, Kinds, Bounds
  <2>2. Sent(at, m)  BY <1>3 DEF OpenOn
  <2> HIDE DEF m
  <2>3. Sends(at, m) /\ \A p \in Ranks \ {at} : toRank'[p] = toRank[p]
    BY <2>1, <2>2, SentIs
  <2> QED  BY <2>1, <2>3
<1>4. ASSUME Drop
      PROVE  \E m \in Words : /\ m.kind \in Bounds
                              /\ \A p \in Ranks : toRank'[p] = toRank[p] \/ Sends(p, m)
  <2> DEFINE m == Message("CloseSession", phase, 0, {})
  <2>1. m.kind \in Bounds
    BY DEF Message, Bounds
  <2>2. m \in Words /\ \A p \in Ranks : Sends(p, m)
    BY <1>4, DropIs
  <2> HIDE DEF m
  <2> QED  BY <2>1, <2>2
<1>5. CASE Refused \/ Lost
  BY <1>4, <1>5 DEF Refused, Lost
<1>6. CASE Stepped
  BY <1>1, <1>4, <1>6 DEF Stepped
<1> QED  BY <1>2, <1>3, <1>5, <1>6

LEMMA LeaderInvs ==
    ASSUME TypesHold, LeaderStep \/ LeaderStops, InOrder,
           \A p \in Ranks : Orderly(p) /\ InTurn(p) /\ Said(p) /\ Linked(p)
    PROVE  /\ TypesHold' /\ Leads
           /\ \A p \in Ranks : Orderly(p)' /\ InTurn(p)' /\ Said(p)' /\ Linked(p)'
<1>1. TypesHold' /\ Leads /\ \A p \in Ranks : Orderly(p)' /\ InTurn(p)'
  <2>1. CASE OpenOn  BY <2>1, OpenOnLeads
  <2>2. CASE CannotOpen \/ TakeHere \/ LeaderStops  BY <2>2, HereLeads
  <2>3. CASE Hear  BY <2>3, HearLeads
  <2>4. CASE Tell  BY <2>4, TellIs, TellLeads
  <2>5. CASE Stepped  BY <2>5, SteppedLeads
  <2>6. CASE Refused \/ Lost  BY <2>6, TroubleLeads
  <2> QED  BY <2>1, <2>2, <2>3, <2>4, <2>5, <2>6 DEF LeaderStep
<1>2. \A p \in Ranks : Linked(p)'
  BY <1>1, LeadsLinked
<1>3. \A p \in Ranks : Said(p)'
  <2>1. CASE Tell  BY <2>1, TellSaid
  <2>2. CASE ~Tell
    <3>1. PICK m \in Words : /\ m.kind \in Bounds
                             /\ \A p \in Ranks : toRank'[p] = toRank[p] \/ Sends(p, m)
      BY <2>2, LeadsQueues DEF LeaderStep
    <3>2. m.kind # "SessionLinks" /\ m.kind # "SessionReady"  BY <3>1 DEF Bounds
    <3>3. ASSUME NEW p \in Ranks PROVE Said(p)'
      <4>1. Said(p)  OBVIOUS
      <4> QED  BY <1>1, <3>1, <3>2, <4>1, LeadsSaid
    <3> QED  BY <3>3
  <2> QED  BY <2>1, <2>2
<1> QED  BY <1>1, <1>2, <1>3

-------------------------------------------------------------------------------
(* A rank's move and the places of a run in order.                           *)

Idle == {"ready", "links", "table", "serving", "closed"}

(* A rank that waits for its leader does nothing. *)
LEMMA NoMove ==
    ASSUME NEW r \in Ranks, Moves(r)
    PROVE  /\ stage[r] # "closed"
           /\ ~Over /\ toRank[r] = <<>> => stage[r] \notin Idle
<1>1. CASE Closes(r)
  BY <1>1 DEF Closes, Idle
<1>2. CASE Begins(r) \/ GetsLinks(r) \/ GetsTable(r) \/ StartsStep(r) \/ Returns(r)
  BY <1>2 DEF Begins, GetsLinks, GetsTable, StartsStep, Returns, Takes, Idle
<1>3. CASE Joins(r) \/ EndsStep(r)
  BY <1>3 DEF Joins, EndsStep, Idle
<1> QED  BY <1>1, <1>2, <1>3 DEF Moves

(* What a rank does with the message it is to read. *)
LEMMA MovesBy ==
    ASSUME NEW r \in Ranks, Moves(r), ~Over, NEW kind,
           toRank[r] # <<>> => Head(toRank[r]).kind = kind
    PROVE  /\ stage[r] = "ready" /\ kind = "OpenSession" => Begins(r) \/ Closes(r)
           /\ stage[r] = "serving" /\ kind = "CloseSession" => Returns(r)
           /\ stage[r] = "serving" /\ kind = "StepShard" => StartsStep(r)
           /\ stage[r] = "links" /\ kind = "SessionLinks" => GetsLinks(r) \/ Closes(r)
           /\ stage[r] = "table" /\ kind = "SessionReady" => GetsTable(r)
           /\ stage[r] = "meet" \/ stage[r] = "dial" => Joins(r) \/ Closes(r)
           /\ stage[r] = "sharing" => EndsStep(r) \/ Closes(r)
<1>1. CASE Closes(r)
  <2>1. stage[r] = "serving" /\ (kind = "CloseSession" \/ kind = "StepShard") => FALSE
    BY <1>1 DEF Closes, Due
  <2>2. stage[r] = "table" /\ kind = "SessionReady" => FALSE
    BY <1>1 DEF Closes, Due
  <2> QED  BY <1>1, <2>1, <2>2
<1>2. CASE Begins(r) \/ GetsLinks(r) \/ GetsTable(r)
  BY <1>2 DEF Begins, GetsLinks, GetsTable, Takes
<1>3. CASE StartsStep(r) \/ Returns(r)
  BY <1>3 DEF StartsStep, Returns, Takes
<1>4. CASE Joins(r) \/ EndsStep(r)
  BY <1>4 DEF Joins, EndsStep
<1> QED  BY <1>1, <1>2, <1>3, <1>4 DEF Moves

LEMMA ReplyTo ==
    ASSUME NEW r \in Ranks, ~Over, toLeader[r] = <<>>, NEW kind, NEW body, Replies(r, kind, body)
    PROVE  /\ Len(toLeader'[r]) = 1
           /\ toLeader'[r][1].kind = kind /\ toLeader'[r][1].phase = session'[r]
           /\ toLeader'[r][1].step = shared[r] /\ toLeader'[r][1].body = body
<1> DEFINE m == Message(kind, session'[r], shared[r], body)
<1>1. m.kind = kind /\ m.phase = session'[r] /\ m.step = shared[r] /\ m.body = body
  BY DEF Message
<1>2. toLeader'[r] = Append(<<>>, m)
  BY DEF Replies
<1> HIDE DEF m
<1>3. toLeader'[r] = <<m>>
  BY <1>2, ShortQueues
<1>4. Len(<<m>>) = 1 /\ <<m>>[1] = m
  OBVIOUS
<1> QED  BY <1>1, <1>3, <1>4

LEMMA GoneMoves ==
    ASSUME NEW r \in Ranks, ~Over, toLeader[r] = <<>>, Closes(r)
    PROVE  Gone(r)' /\ session'[r] = session[r]
<1>1. /\ stage'[r] = "closed" /\ toRank'[r] = <<>> /\ Replies(r, "Error", {})
      /\ session'[r] = session[r]
  BY DEF Closes
<1>2. Len(toLeader'[r]) = 1 /\ toLeader'[r][1].kind = "Error"
  BY <1>1, ReplyTo
<1> QED  BY <1>1, <1>2 DEF Gone

LEMMA OpenKinds ==
    /\ Open.kind = "OpenSession" /\ Open.phase = phase /\ LastClose.kind = "CloseSession"
    /\ Table.kind = "SessionReady" /\ Step.kind = "StepShard"
    /\ \A r : Links(r).kind = "SessionLinks"
  BY DEF Open, LastClose, Table, Step, Links, Message

LEMMA UnopenedMoves ==
    ASSUME NEW r \in Ranks, Moves(r), ~Over, Unopened(r)
    PROVE  Unopened(r)'
<1>1. toLeader[r] = <<>> /\ stage[r] = "serving" /\ toRank[r] = <<LastClose>>
  BY NoMove DEF Unopened, Idle
<1>2. /\ toRank[r] # <<>> /\ Head(toRank[r]) = LastClose /\ Tail(toRank[r]) = <<>>
  BY <1>1, ShortQueues
<1>3. Returns(r)
  BY <1>1, <1>2, OpenKinds, MovesBy
<1>4. stage'[r] = "ready" /\ toRank'[r] = <<>> /\ toLeader'[r] = <<>>
  BY <1>1, <1>2, <1>3 DEF Returns, Takes, Quiet
<1> QED  BY <1>4 DEF Unopened

LEMMA AskedLinksMoves ==
    ASSUME NEW r \in Ranks, Moves(r), ~Over, AskedLinks(r)
    PROVE  AskedLinks(r)'
<1>0. phase' = phase /\ Open' = Open
  BY DEF Moves, leader, Open, Message
<1>1. /\ toLeader[r] = <<>>
      /\ \/ stage[r] = "ready" /\ toRank[r] = <<Open>>
         \/ stage[r] = "serving" /\ toRank[r] = <<LastClose, Open>>
  BY NoMove DEF AskedLinks, Idle, Gone
<1>2. CASE stage[r] = "ready" /\ toRank[r] = <<Open>>
  <2>1. /\ toRank[r] # <<>> /\ Head(toRank[r]) = Open /\ Tail(toRank[r]) = <<>>
    BY <1>2, ShortQueues
  <2>2. Begins(r) \/ Closes(r)
    BY <1>2, <2>1, OpenKinds, MovesBy
  <2>3. CASE Closes(r)
    BY <1>1, <2>3, GoneMoves DEF AskedLinks
  <2>4. CASE Begins(r)
    <3>1. /\ stage'[r] = "links" /\ session'[r] = phase /\ shared'[r] = 0
          /\ toRank'[r] = <<>> /\ Replies(r, "SessionLinks", Opened(r))
      BY <2>1, <2>4, OpenKinds DEF Begins, Takes
    <3>2. Answers(r, "SessionLinks", Opened(r))'
      BY <1>0, <1>1, <3>1, ReplyTo DEF Answers
    <3> QED  BY <1>0, <3>1, <3>2 DEF AskedLinks
  <2> QED  BY <2>2, <2>3, <2>4
<1>3. CASE stage[r] = "serving" /\ toRank[r] = <<LastClose, Open>>
  <2>1. /\ toRank[r] # <<>> /\ Head(toRank[r]) = LastClose /\ Tail(toRank[r]) = <<Open>>
    BY <1>3, ShortQueues
  <2>2. Returns(r)
    BY <1>3, <2>1, OpenKinds, MovesBy
  <2>3. stage'[r] = "ready" /\ toRank'[r] = <<Open>> /\ toLeader'[r] = <<>>
    BY <1>1, <2>1, <2>2 DEF Returns, Takes, Quiet
  <2> QED  BY <1>0, <2>3 DEF AskedLinks
<1> QED  BY <1>1, <1>2, <1>3

LEMMA AskedReadyMoves ==
    ASSUME NEW r \in Ranks, Moves(r), ~Over, AskedReady(r)
    PROVE  AskedReady(r)'
<1>0. phase' = phase
  BY DEF Moves, leader
<1>1. /\ toLeader[r] = <<>> /\ session[r] = phase /\ shared[r] = 0
      /\ stage[r] = "links" /\ toRank[r] = <<Links(r)>>
  BY NoMove DEF AskedReady, Idle, Gone
<1>2. toRank[r] # <<>> /\ Head(toRank[r]) = Links(r) /\ Tail(toRank[r]) = <<>>
  BY <1>1, ShortQueues
<1>3. GetsLinks(r) \/ Closes(r)
  BY <1>1, <1>2, OpenKinds, MovesBy
<1>4. CASE Closes(r)
  BY <1>0, <1>1, <1>4, GoneMoves DEF AskedReady
<1>5. CASE GetsLinks(r)
  <2>1. /\ stage'[r] = "table" /\ session'[r] = phase /\ shared'[r] = 0
        /\ toRank'[r] = <<>> /\ Replies(r, "SessionReady", Keys(r))
    BY <1>1, <1>2, <1>5 DEF GetsLinks, Takes
  <2>2. Answers(r, "SessionReady", Keys(r))'
    BY <1>0, <1>1, <2>1, ReplyTo DEF Answers
  <2> QED  BY <1>0, <2>1, <2>2 DEF AskedReady
<1> QED  BY <1>3, <1>4, <1>5

LEMMA ToldTableMoves ==
    ASSUME NEW r \in Ranks, Moves(r), ~Over, ToldTable(r)
    PROVE  ToldTable(r)'
<1>0. phase' = phase /\ heard' = heard
  BY DEF Moves, leader
<1>1. /\ toLeader[r] = <<>> /\ session[r] = phase /\ shared[r] = 0 /\ heard[r].phase = phase
      /\ \/ stage[r] = "table" /\ toRank[r] = <<Table>>
         \/ stage[r] \in {"meet", "dial"} /\ toRank[r] = <<>>
  BY NoMove DEF ToldTable, Idle, Gone
<1>2. ASSUME Closes(r) PROVE ToldTable(r)'
  BY <1>0, <1>1, <1>2, GoneMoves DEF ToldTable
<1>3. CASE stage[r] = "table" /\ toRank[r] = <<Table>>
  <2>1. toRank[r] # <<>> /\ Head(toRank[r]) = Table /\ Tail(toRank[r]) = <<>>
    BY <1>3, ShortQueues
  <2>2. GetsTable(r)
    BY <1>3, <2>1, OpenKinds, MovesBy
  <2>3. /\ stage'[r] \in {"meet", "dial"} /\ session'[r] = phase /\ shared'[r] = 0
        /\ toRank'[r] = <<>> /\ toLeader'[r] = <<>>
    BY <1>1, <2>1, <2>2 DEF GetsTable, Takes, Quiet
  <2> QED  BY <1>0, <1>1, <2>3 DEF ToldTable
<1>4. CASE stage[r] \in {"meet", "dial"} /\ toRank[r] = <<>>
  <2>1. Joins(r) \/ Closes(r)
    BY <1>4, MovesBy
  <2>2. CASE Joins(r)
    <3>1. /\ stage'[r] \in {"dial", "serving"} /\ session'[r] = phase /\ shared'[r] = 0
          /\ toRank'[r] = <<>> /\ toLeader'[r] = <<>>
      BY <1>1, <1>4, <2>2 DEF Joins, Stays, Quiet
    <3> QED  BY <1>0, <1>1, <3>1 DEF ToldTable
  <2> QED  BY <1>2, <2>1, <2>2
<1> QED  BY <1>1, <1>3, <1>4

LEMMA AskedStepMoves ==
    ASSUME TypesHold, NEW r \in Ranks, Moves(r), ~Over, AskedStep(r)
    PROVE  AskedStep(r)'
<1>0. phase' = phase /\ heard' = heard /\ step' = step /\ Step' = Step
  BY DEF Moves, leader, Step, Message
<1>01. step \in Int
  BY DEF TypesHold
<1>1. /\ toLeader[r] = <<>> /\ session[r] = phase /\ heard[r].phase = phase
      /\ \/ /\ shared[r] = step - 1
            /\ \/ stage[r] = "table" /\ toRank[r] = <<Table, Step>>
               \/ stage[r] \in {"meet", "dial", "serving"} /\ toRank[r] = <<Step>>
         \/ stage[r] = "sharing" /\ shared[r] = step /\ toRank[r] = <<>>
  BY NoMove DEF AskedStep, Idle, Gone
<1>2. ASSUME Closes(r) PROVE AskedStep(r)'
  BY <1>0, <1>1, <1>2, GoneMoves DEF AskedStep
<1>3. CASE shared[r] = step - 1 /\ stage[r] = "table" /\ toRank[r] = <<Table, Step>>
  <2>1. toRank[r] # <<>> /\ Head(toRank[r]) = Table /\ Tail(toRank[r]) = <<Step>>
    BY <1>3, ShortQueues
  <2>2. GetsTable(r)
    BY <1>3, <2>1, OpenKinds, MovesBy
  <2>3. /\ stage'[r] \in {"meet", "dial"} /\ session'[r] = phase /\ shared'[r] = step - 1
        /\ toRank'[r] = <<Step>> /\ toLeader'[r] = <<>>
    BY <1>1, <1>3, <2>1, <2>2 DEF GetsTable, Takes, Quiet
  <2> QED  BY <1>0, <1>1, <2>3 DEF AskedStep
<1>4. CASE /\ shared[r] = step - 1
           /\ stage[r] \in {"meet", "dial", "serving"} /\ toRank[r] = <<Step>>
  <2>1. toRank[r] # <<>> /\ Head(toRank[r]) = Step /\ Tail(toRank[r]) = <<>>
    BY <1>4, ShortQueues
  <2>2. Joins(r) \/ Closes(r) \/ StartsStep(r)
    BY <1>4, <2>1, OpenKinds, MovesBy
  <2>3. CASE Joins(r)
    <3>1. /\ stage'[r] \in {"dial", "serving"} /\ session'[r] = phase /\ shared'[r] = step - 1
          /\ toRank'[r] = <<Step>> /\ toLeader'[r] = <<>>
      BY <1>1, <1>4, <2>3 DEF Joins, Stays, Quiet
    <3> QED  BY <1>0, <1>1, <3>1 DEF AskedStep
  <2>4. CASE StartsStep(r)
    <3>1. /\ stage'[r] = "sharing" /\ session'[r] = phase /\ shared'[r] = step
          /\ toRank'[r] = <<>> /\ toLeader'[r] = <<>>
      BY <1>01, <1>1, <1>4, <2>1, <2>4 DEF StartsStep, Takes, Quiet
    <3> QED  BY <1>0, <1>1, <3>1 DEF AskedStep
  <2> QED  BY <1>2, <2>2, <2>3, <2>4
<1>5. CASE stage[r] = "sharing" /\ shared[r] = step /\ toRank[r] = <<>>
  <2>1. EndsStep(r) \/ Closes(r)
    BY <1>5, MovesBy
  <2>2. CASE EndsStep(r)
    <3>1. /\ stage'[r] = "serving" /\ session'[r] = phase /\ shared'[r] = step
          /\ toRank'[r] = <<>> /\ Replies(r, "VelocityPart", {})
      BY <1>1, <1>5, <2>2 DEF EndsStep, Stays
    <3>2. Answers(r, "VelocityPart", {})' /\ toLeader'[r][1].step = step
      BY <1>0, <1>1, <1>5, <3>1, ReplyTo DEF Answers
    <3> QED  BY <1>0, <1>1, <3>1, <3>2 DEF AskedStep
  <2> QED  BY <1>2, <2>1, <2>2
<1> QED  BY <1>1, <1>3, <1>4, <1>5

LEMMA CleanMoves ==
    ASSUME TypesHold, NEW r \in Ranks, Moves(r), ~Over, NEW p \in Ranks, Clean(p)
    PROVE  Clean(p)'
<1>1. /\ pc' = pc /\ at' = at /\ phase' = phase /\ step' = step /\ heard' = heard
  BY DEF Moves, leader
<1>2. Known(p)'
  BY <1>1 DEF Clean, Known
<1>3. CASE p # r
  <2>1. /\ toRank'[p] = toRank[p] /\ toLeader'[p] = toLeader[p] /\ stage'[p] = stage[p]
        /\ session'[p] = session[p] /\ shared'[p] = shared[p]
    BY <1>3 DEF Moves
  <2>2. /\ Open' = Open /\ LastClose' = LastClose /\ Links(p)' = Links(p) /\ Table' = Table
        /\ Step' = Step
    BY <1>1 DEF Open, LastClose, Links, Table, Step, Message
  <2>3. \A kind, body : Answers(p, kind, body)' = Answers(p, kind, body)
    BY <1>1, <2>1 DEF Answers
  <2>4. Gone(p)' = Gone(p)
    BY <2>1 DEF Gone
  <2>5. /\ Unopened(p)' = Unopened(p) /\ AskedLinks(p)' = AskedLinks(p)
        /\ HeardLinks(p)' = HeardLinks(p) /\ AskedReady(p)' = AskedReady(p)
        /\ HeardReady(p)' = HeardReady(p) /\ ToldTable(p)' = ToldTable(p)
        /\ AskedStep(p)' = AskedStep(p)
    <3>1. Unopened(p)' = Unopened(p)  BY <2>1, <2>2 DEF Unopened
    <3>2. AskedLinks(p)' = AskedLinks(p)  BY <1>1, <2>1, <2>2, <2>3, <2>4 DEF AskedLinks
    <3>3. HeardLinks(p)' = HeardLinks(p)  BY <1>1, <2>1 DEF HeardLinks
    <3>4. AskedReady(p)' = AskedReady(p)  BY <1>1, <2>1, <2>2, <2>3, <2>4 DEF AskedReady
    <3>5. HeardReady(p)' = HeardReady(p)  BY <1>1, <2>1 DEF HeardReady
    <3>6. ToldTable(p)' = ToldTable(p)  BY <1>1, <2>1, <2>2, <2>4 DEF ToldTable
    <3>7. AskedStep(p)' = AskedStep(p)  BY <1>1, <2>1, <2>2, <2>3, <2>4 DEF AskedStep
    <3> QED  BY <3>1, <3>2, <3>3, <3>4, <3>5, <3>6, <3>7
  <2>6. DoneStep(p, step)' = DoneStep(p, step) /\ DoneStep(p, step - 1)' = DoneStep(p, step - 1)
    BY <1>1, <2>1 DEF DoneStep
  <2>7. Placed(p)' = Placed(p)
    BY <1>1, <2>5, <2>6 DEF Placed
  <2> QED  BY <1>2, <2>7 DEF Clean
<1>4. CASE p = r
  <2>1. ~HeardLinks(r) /\ ~HeardReady(r) /\ \A s : ~DoneStep(r, s)
    BY NoMove DEF HeardLinks, HeardReady, DoneStep, Idle
  <2>2. CASE Unopened(r) /\ pc = "open" /\ ~(r < at)
    <3>1. Unopened(r)'  BY <2>2, UnopenedMoves
    <3> QED  BY <1>1, <1>2, <1>4, <2>2, <3>1 DEF Clean, Placed
  <2>3. CASE AskedLinks(r) /\ ((pc = "open" /\ r < at) \/ (pc = "links" /\ ~(r < at)))
    <3>1. AskedLinks(r)'  BY <2>3, AskedLinksMoves
    <3> QED  BY <1>1, <1>2, <1>4, <2>3, <3>1 DEF Clean, Placed
  <2>4. CASE AskedReady(r) /\ ((pc = "tellLinks" /\ r < at) \/ (pc = "ready" /\ ~(r < at)))
    <3>1. AskedReady(r)'  BY <2>4, AskedReadyMoves
    <3> QED  BY <1>1, <1>2, <1>4, <2>4, <3>1 DEF Clean, Placed
  <2>5. CASE /\ ToldTable(r)
             /\ (pc = "tellTable" /\ r < at) \/ (pc = "tellStep" /\ ~(r < at) /\ step = 1)
    <3>1. ToldTable(r)'  BY <2>5, ToldTableMoves
    <3> QED  BY <1>1, <1>2, <1>4, <2>5, <3>1 DEF Clean, Placed
  <2>6. CASE AskedStep(r) /\ ((pc = "tellStep" /\ r < at) \/ (pc = "parts" /\ ~(r < at)))
    <3>1. AskedStep(r)'  BY <2>6, AskedStepMoves
    <3> QED  BY <1>1, <1>2, <1>4, <2>6, <3>1 DEF Clean, Placed
  <2> QED  BY <1>4, <2>1, <2>2, <2>3, <2>4, <2>5, <2>6 DEF Clean, Placed
<1> QED  BY <1>3, <1>4

LEMMA MovesInOrder ==
    ASSUME TypesHold, NEW r \in Ranks, Moves(r), InOrder
    PROVE  InOrder'
<1>1. UNCHANGED leader
  BY DEF Moves
<1>2. CASE Over
  BY <1>1, <1>2 DEF Over, leader, InOrder
<1>3. CASE Marred
  <2>1. PICK p \in Ranks : Dead(p) /\ (pc = "links" => at =< p)
    BY <1>3 DEF Marred
  <2>2. p # r
    BY <2>1, NoMove DEF Dead
  <2>3. Dead(p)'
    BY <2>1, <2>2 DEF Moves, Dead
  <2>4. Marred'
    BY <1>1, <1>3, <2>1, <2>3 DEF Marred, leader
  <2> QED  BY <2>4 DEF InOrder
<1>4. CASE ~Over /\ \A p \in Ranks : Clean(p)
  <2>1. ASSUME NEW p \in Ranks PROVE Clean(p)'
    <3>1. Clean(p)  BY <1>4
    <3> QED  BY <1>4, <3>1, CleanMoves
  <2> QED  BY <2>1 DEF InOrder
<1> QED  BY <1>2, <1>3, <1>4 DEF InOrder

-------------------------------------------------------------------------------
(* The leader's steps and the places of a run in order.                      *)

(* A step leaves p where it is, but for what it does to the leader's own. *)
Alike(p) ==
    /\ toRank'[p] = toRank[p] /\ toLeader'[p] = toLeader[p] /\ stage'[p] = stage[p]
    /\ session'[p] = session[p] /\ shared'[p] = shared[p]

LEMMA LeadsAlike ==
    ASSUME Leads, NEW p
    PROVE  stage'[p] = stage[p] /\ session'[p] = session[p] /\ shared'[p] = shared[p]
  BY DEF Leads

LEMMA DeadStays ==
    ASSUME Leads, NEW p \in Ranks, Dead(p), toLeader'[p] = toLeader[p]
    PROVE  Dead(p)'
  BY DEF Leads, Dead

LEMMA OpenOnInOrder ==
    ASSUME TypesHold, OpenOn, InOrder
    PROVE  InOrder'
<1>1. /\ pc = "open" /\ Sent(at, Open) /\ Advance("links") /\ UNCHANGED <<phase, step, toLeader>>
      /\ Leads
  BY DEF OpenOn, Leads, Open
<1>2. PICK a \in Ranks : a = at
  BY DEF TypesHold
<1>3. /\ Sends(a, Open) /\ \A p \in Ranks \ {a} : toRank'[p] = toRank[p]
  <2>1. Open \in Words  BY DEF Open, TypesHold, Message, Words, Kinds
  <2> QED  BY <1>1, <1>2, <2>1, SentIs
<1>4. /\ at' \in Ranks
      /\ \/ a = N - 1 /\ pc' = "links" /\ at' = 0
         \/ a < N - 1 /\ pc' = "open" /\ at' = a + 1
  BY <1>1, <1>2, AdvanceIs
<1>5. a \in Int /\ N \in Int /\ \A p \in Ranks : p \in Int /\ 0 =< p /\ p =< N - 1
  BY RendezvousAssumption DEF Ranks
<1>6. CASE Marred
  <2>1. PICK p \in Ranks : Dead(p)
    BY <1>6 DEF Marred
  <2>2. Dead(p)'
    BY <1>1, <2>1, DeadStays
  <2>3. Marred'
    BY <1>4, <1>5, <2>2 DEF Marred
  <2> QED  BY <2>3 DEF InOrder
<1>7. CASE \A p \in Ranks : Clean(p)
  <2>1. /\ \A p \in Ranks : p < a => AskedLinks(p)
        /\ \A p \in Ranks : ~(p < a) => Unopened(p)
    BY <1>1, <1>2, <1>7 DEF Clean, Placed
  <2>2. Open' = Open /\ phase' = phase /\ LastClose' = LastClose
    BY <1>1 DEF Open, LastClose, Message
  <2>3. ASSUME NEW p \in Ranks, p < a PROVE AskedLinks(p)'
    <3>1. AskedLinks(p)  BY <2>1, <2>3
    <3>2. /\ toRank'[p] = toRank[p] /\ toLeader'[p] = toLeader[p] /\ stage'[p] = stage[p]
          /\ session'[p] = session[p] /\ shared'[p] = shared[p]
      <4>1. p # a  BY <1>5, <2>3
      <4>2. toRank'[p] = toRank[p]  BY <1>3, <4>1
      <4> QED  BY <1>1, <4>2, LeadsAlike
    <3> QED  BY <2>2, <3>1, <3>2 DEF AskedLinks, Answers, Gone
  <2>4. ASSUME NEW p \in Ranks, p > a PROVE Unopened(p)'
    <3>1. Unopened(p)  BY <1>5, <2>1, <2>4
    <3>2. toRank'[p] = toRank[p] /\ toLeader'[p] = toLeader[p] /\ stage'[p] = stage[p]
      <4>1. p # a  BY <1>5, <2>4
      <4>2. toRank'[p] = toRank[p]  BY <1>3, <4>1
      <4> QED  BY <1>1, <4>2, LeadsAlike
    <3> QED  BY <2>2, <3>1, <3>2 DEF Unopened
  <2>5. AskedLinks(a)'
    <3>1. Unopened(a)  BY <1>5, <2>1
    <3>2. toLeader'[a] = <<>> /\ stage'[a] = stage[a] /\ stage[a] # "closed"
      BY <1>1, <3>1, LeadsAlike DEF Unopened
    <3>3. toRank'[a] = Append(toRank[a], Open)
      BY <1>3, <3>2 DEF Sends
    <3>4. CASE stage[a] = "ready" /\ toRank[a] = <<>>
      <4>1. toRank'[a] = <<Open>>  BY <3>3, <3>4, ShortQueues
      <4> QED  BY <2>2, <3>2, <3>4, <4>1 DEF AskedLinks
    <3>5. CASE stage[a] = "serving" /\ toRank[a] = <<LastClose>>
      <4>1. toRank'[a] = <<LastClose, Open>>  BY <3>3, <3>5, AppendToOne
      <4> QED  BY <2>2, <3>2, <3>5, <4>1 DEF AskedLinks
    <3> QED  BY <3>1, <3>4, <3>5 DEF Unopened
  <2>6. ASSUME NEW p \in Ranks PROVE Clean(p)'
    <3>1. Known(p)'  BY <1>4 DEF Known
    <3>2. p < a \/ p = a \/ p > a  BY <1>5
    <3>3. CASE p > a
      <4>1. pc' = "open" /\ at' = a + 1 /\ ~(p < a + 1)  BY <1>4, <1>5, <3>3
      <4> QED  BY <2>4, <3>1, <3>3, <4>1 DEF Clean, Placed
    <3>4. CASE p < a \/ p = a
      <4>1. AskedLinks(p)'  BY <2>3, <2>5, <3>4
      <4>2. (pc' = "open" /\ p < at') \/ (pc' = "links" /\ ~(p < at'))
        BY <1>4, <1>5, <3>4
      <4> QED  BY <3>1, <4>1, <4>2 DEF Clean, Placed
    <3> QED  BY <3>2, <3>3, <3>4
  <2> QED  BY <2>6 DEF InOrder
<1> QED  BY <1>1, <1>6, <1>7 DEF InOrder, Over

LEMMA HereInOrder ==
    ASSUME TypesHold, CannotOpen \/ TakeHere \/ LeaderStops, InOrder
    PROVE  InOrder'
<1>1. CASE LeaderStops
  BY <1>1 DEF LeaderStops, GoTo, InOrder, Over
<1>2. CASE CannotOpen
  <2>1. /\ pc = "open" /\ stage[at] = "closed" /\ pc' = "here" /\ toLeader' = toLeader /\ Leads
    BY <1>2 DEF CannotOpen, GoTo, Leads, wires
  <2>2. Marred
    <3>1. at \in Ranks /\ ~(at < at)  BY RendezvousAssumption DEF TypesHold, Ranks
    <3>2. ~Clean(at)
      BY <2>1, <3>1 DEF Clean, Placed, Unopened
    <3> QED  BY <2>1, <3>1, <3>2 DEF InOrder, Over
  <2>3. PICK p \in Ranks : Dead(p)  BY <2>2 DEF Marred
  <2>4. Dead(p)'  BY <2>1, <2>3, DeadStays
  <2> QED  BY <2>1, <2>4 DEF InOrder, Marred
<1>3. CASE TakeHere
  <2>1. pc = "here" /\ toLeader' = toLeader /\ Leads /\ NextPhase
    BY <1>3 DEF TakeHere, Leads, wires
  <2>2. pc' = "open" \/ pc' = "done"
    BY <2>1, NextPhaseIs
  <2>3. Marred
    <3>1. 0 \in Ranks  BY RendezvousAssumption DEF Ranks
    <3>2. ~Clean(0)  BY <2>1 DEF Clean, Placed
    <3> QED  BY <2>1, <3>1, <3>2 DEF InOrder, Over
  <2>4. PICK p \in Ranks : Dead(p)  BY <2>3 DEF Marred
  <2>5. Dead(p)'  BY <2>1, <2>4, DeadStays
  <2> QED  BY <2>2, <2>5 DEF InOrder, Marred, Over
<1> QED  BY <1>1, <1>2, <1>3

LEMMA TailOfOne ==
    ASSUME NEW q \in Seq(Words), Len(q) = 1
    PROVE  q # <<>> /\ Head(q) = q[1] /\ Tail(q) = <<>>
<1>1. q # <<>>
  <2>1. q = <<>> <=> Len(q) = 0  BY EmptySeq
  <2> QED  BY <2>1
<1>2. Head(q) = q[1] /\ Len(Tail(q)) = 0 /\ Tail(q) \in Seq(Words)
  BY <1>1, Tails
<1> QED  BY <1>1, <1>2, EmptySeq

LEMMA HearInOrder ==
    ASSUME TypesHold, Hear, InOrder
    PROVE  InOrder'
<1>1. /\ pc \in {"links", "ready", "parts"} /\ toLeader[at] # <<>>
      /\ Head(toLeader[at]).kind = Expected
      /\ heard' = [heard EXCEPT ![at] = Head(toLeader[at])]
      /\ toLeader' = [toLeader EXCEPT ![at] = Tail(@)]
      /\ UNCHANGED <<phase, step, toRank>> /\ Leads
  BY HeadIs DEF Hear, Leads
<1>2. PICK a \in Ranks : a = at
  BY DEF TypesHold
<1>3. /\ heard'[a] = Head(toLeader[a]) /\ toLeader'[a] = Tail(toLeader[a])
      /\ \A p \in Ranks \ {a} : heard'[p] = heard[p] /\ toLeader'[p] = toLeader[p]
  BY <1>1, <1>2, HeadHeard
<1>4. \/ /\ a = N - 1 /\ at' = 0
         /\ \/ pc = "links" /\ pc' = "tellLinks"
            \/ pc = "ready" /\ pc' = "tellTable"
            \/ pc = "parts" /\ pc' = "stepped"
      \/ a < N - 1 /\ pc' = pc /\ at' = a + 1
  <2>1. PICK next : /\ Advance(next)
                    /\ next = CASE pc = "links" -> "tellLinks"
                                [] pc = "ready" -> "tellTable"
                                [] pc = "parts" -> "stepped"
    BY DEF Hear
  <2>2. \/ a = N - 1 /\ pc' = next /\ at' = 0
        \/ a < N - 1 /\ pc' = pc /\ at' = a + 1
    BY <1>2, <2>1, AdvanceIs
  <2> QED  BY <1>1, <2>1, <2>2
<1>5. a \in Int /\ N \in Int /\ \A p \in Ranks : p \in Int /\ 0 =< p /\ p =< N - 1
  BY RendezvousAssumption DEF Ranks
<1>6. CASE Marred
  <2>1. PICK p \in Ranks : Dead(p) /\ (pc = "links" => a =< p)
    BY <1>2, <1>6 DEF Marred
  <2>2. p # a
    BY <1>1, <1>2, <2>1 DEF Dead
  <2>3. Dead(p)'
    BY <1>1, <1>3, <2>1, <2>2, DeadStays
  <2>4. pc = "links"
    BY <1>1, <1>6 DEF Marred
  <2>5. a < p  BY <1>5, <2>1, <2>2, <2>4
  <2>6. pc' = "links" /\ at' =< p
    BY <1>4, <1>5, <2>4, <2>5
  <2> QED  BY <2>3, <2>6 DEF InOrder, Marred
<1>7. CASE \A p \in Ranks : Clean(p)
  <2>0. /\ toLeader[a] \in Seq(Words) /\ a < a + 1 /\ ~(a < a)
        /\ Head(toLeader[a]).kind = Expected /\ toLeader[a] # <<>>
    BY <1>1, <1>2, <1>5 DEF TypesHold
  <2>1. ASSUME NEW p \in Ranks, p # a PROVE Alike(p) /\ heard'[p] = heard[p]
    <3>1. toRank'[p] = toRank[p] /\ toLeader'[p] = toLeader[p] /\ heard'[p] = heard[p]
      BY <1>1, <1>3, <2>1
    <3> QED  BY <1>1, <3>1, LeadsAlike DEF Alike
  <2>2. /\ stage'[a] = stage[a] /\ session'[a] = session[a] /\ shared'[a] = shared[a]
        /\ toRank'[a] = toRank[a] /\ phase' = phase /\ step' = step
    BY <1>1, LeadsAlike
  <2>3. CASE pc = "links"
    <3>1. Expected = "SessionLinks"  BY <2>3 DEF Expected
    <3>2. /\ \A p \in Ranks : p < a => HeardLinks(p)
          /\ \A p \in Ranks : ~(p < a) => AskedLinks(p)
      BY <1>2, <1>7, <2>3 DEF Clean, Placed
    <3>3. HeardLinks(a)'
      <4>1. AskedLinks(a) /\ ~(toLeader[a] = <<>>) /\ ~Gone(a)
        <5>1. Gone(a) => Head(toLeader[a]).kind = "Error"
          BY <2>0, TailOfOne DEF Gone
        <5> QED  BY <2>0, <3>1, <3>2, <5>1
      <4>2. /\ stage[a] = "links" /\ session[a] = phase /\ shared[a] = 0
            /\ toRank[a] = <<>> /\ Answers(a, "SessionLinks", Opened(a))
        BY <4>1 DEF AskedLinks
      <4>3. Tail(toLeader[a]) = <<>> /\ Head(toLeader[a]) = toLeader[a][1]
        BY <2>0, <4>2, TailOfOne DEF Answers
      <4>4. /\ toLeader'[a] = <<>> /\ heard'[a].phase = phase /\ heard'[a].body = Opened(a)
        BY <1>3, <4>2, <4>3 DEF Answers
      <4> QED  BY <2>2, <4>2, <4>4 DEF HeardLinks
    <3>4. ASSUME NEW p \in Ranks, p < a PROVE HeardLinks(p)'
      <4>1. HeardLinks(p) /\ p # a  BY <1>5, <3>2, <3>4
      <4>2. Alike(p) /\ heard'[p] = heard[p]  BY <2>1, <4>1
      <4> QED  BY <2>2, <4>1, <4>2 DEF HeardLinks, Alike
    <3>5. ASSUME NEW p \in Ranks, p > a PROVE AskedLinks(p)'
      <4>1. AskedLinks(p) /\ p # a  BY <1>5, <3>2, <3>5
      <4>2. Alike(p)  BY <2>1, <4>1
      <4>3. Open' = Open /\ LastClose' = LastClose
        BY <2>2 DEF Open, LastClose, Message
      <4> QED  BY <2>2, <4>1, <4>2, <4>3 DEF AskedLinks, Alike, Answers, Gone
    <3>6. CASE pc' = "links"
      <4>1. at' = a + 1  BY <1>4, <2>3, <3>6
      <4>2. ASSUME NEW p \in Ranks PROVE Clean(p)'
        <5>1. Known(p)'  BY <3>6 DEF Known
        <5>2. CASE p < at'
          <6>1. p < a \/ p = a  BY <1>5, <4>1, <5>2
          <6>2. HeardLinks(p)'  BY <3>3, <3>4, <6>1
          <6> QED  BY <3>6, <5>1, <5>2, <6>2 DEF Clean, Placed
        <5>3. CASE ~(p < at')
          <6>1. p > a  BY <1>5, <4>1, <5>3
          <6>2. AskedLinks(p)'  BY <3>5, <6>1
          <6> QED  BY <3>6, <5>1, <5>3, <6>2 DEF Clean, Placed
        <5> QED  BY <5>2, <5>3
      <4> QED  BY <4>2 DEF InOrder
    <3>7. CASE pc' = "tellLinks"
      <4>1. at' = 0 /\ a = N - 1  BY <1>4, <2>3, <3>7
      <4>2. ASSUME NEW p \in Ranks PROVE Clean(p)'
        <5>1. p < a \/ p = a  BY <1>5, <4>1
        <5>2. HeardLinks(p)'  BY <3>3, <3>4, <5>1
        <5>3. Known(p)'  BY <3>7, <5>2 DEF Known, HeardLinks
        <5>4. ~(p < at')  BY <1>5, <4>1
        <5> QED  BY <3>7, <5>2, <5>3, <5>4 DEF Clean, Placed
      <4> QED  BY <4>2 DEF InOrder
    <3> QED  BY <1>4, <2>3, <3>6, <3>7
  <2>4. CASE pc = "ready"
    <3>1. Expected = "SessionReady"  BY <2>4 DEF Expected
    <3>2. /\ \A p \in Ranks : p < a => HeardReady(p)
          /\ \A p \in Ranks : ~(p < a) => AskedReady(p)
      BY <1>2, <1>7, <2>4 DEF Clean, Placed
    <3>3. HeardReady(a)'
      <4>1. AskedReady(a) /\ ~(toLeader[a] = <<>>) /\ ~Gone(a)
        <5>1. Gone(a) => Head(toLeader[a]).kind = "Error"
          BY <2>0, TailOfOne DEF Gone
        <5> QED  BY <2>0, <3>1, <3>2, <5>1
      <4>2. /\ stage[a] = "table" /\ session[a] = phase /\ shared[a] = 0
            /\ toRank[a] = <<>> /\ Answers(a, "SessionReady", Keys(a))
        BY <4>1 DEF AskedReady
      <4>3. Tail(toLeader[a]) = <<>> /\ Head(toLeader[a]) = toLeader[a][1]
        BY <2>0, <4>2, TailOfOne DEF Answers
      <4>4. /\ toLeader'[a] = <<>> /\ heard'[a].phase = phase /\ heard'[a].body = Keys(a)
        BY <1>3, <4>2, <4>3 DEF Answers
      <4> QED  BY <2>2, <4>2, <4>4 DEF HeardReady
    <3>4. ASSUME NEW p \in Ranks, p < a PROVE HeardReady(p)'
      <4>1. HeardReady(p) /\ p # a  BY <1>5, <3>2, <3>4
      <4>2. Alike(p) /\ heard'[p] = heard[p]  BY <2>1, <4>1
      <4> QED  BY <2>2, <4>1, <4>2 DEF HeardReady, Alike
    <3>5. ASSUME NEW p \in Ranks, p > a PROVE AskedReady(p)'
      <4>1. AskedReady(p) /\ p # a  BY <1>5, <3>2, <3>5
      <4>2. Alike(p)  BY <2>1, <4>1
      <4>3. Links(p)' = Links(p)
        BY <2>2 DEF Links, Message
      <4> QED  BY <2>2, <4>1, <4>2, <4>3 DEF AskedReady, Alike, Answers, Gone
    <3>6. CASE pc' = "ready"
      <4>1. at' = a + 1  BY <1>4, <2>4, <3>6
      <4>2. ASSUME NEW p \in Ranks PROVE Clean(p)'
        <5>1. Known(p)'  BY <3>6 DEF Known
        <5>2. CASE p < at'
          <6>1. p < a \/ p = a  BY <1>5, <4>1, <5>2
          <6>2. HeardReady(p)'  BY <3>3, <3>4, <6>1
          <6> QED  BY <3>6, <5>1, <5>2, <6>2 DEF Clean, Placed
        <5>3. CASE ~(p < at')
          <6>1. p > a  BY <1>5, <4>1, <5>3
          <6>2. AskedReady(p)'  BY <3>5, <6>1
          <6> QED  BY <3>6, <5>1, <5>3, <6>2 DEF Clean, Placed
        <5> QED  BY <5>2, <5>3
      <4> QED  BY <4>2 DEF InOrder
    <3>7. CASE pc' = "tellTable"
      <4>1. at' = 0 /\ a = N - 1  BY <1>4, <2>4, <3>7
      <4>2. ASSUME NEW p \in Ranks PROVE Clean(p)'
        <5>1. p < a \/ p = a  BY <1>5, <4>1
        <5>2. HeardReady(p)'  BY <3>3, <3>4, <5>1
        <5>3. Known(p)'  BY <3>7, <5>2 DEF Known, HeardReady
        <5>4. ~(p < at')  BY <1>5, <4>1
        <5> QED  BY <3>7, <5>2, <5>3, <5>4 DEF Clean, Placed
      <4> QED  BY <4>2 DEF InOrder
    <3> QED  BY <1>4, <2>4, <3>6, <3>7
  <2>5. CASE pc = "parts"
    <3>1. Expected = "VelocityPart"  BY <2>5 DEF Expected
    <3>2. /\ \A p \in Ranks : p < a => DoneStep(p, step)
          /\ \A p \in Ranks : ~(p < a) => AskedStep(p)
      BY <1>2, <1>7, <2>5 DEF Clean, Placed
    <3>3. DoneStep(a, step)'
      <4>1. AskedStep(a) /\ ~(toLeader[a] = <<>>) /\ ~Gone(a)
        <5>1. Gone(a) => Head(toLeader[a]).kind = "Error"
          BY <2>0, TailOfOne DEF Gone
        <5> QED  BY <2>0, <3>1, <3>2, <5>1
      <4>2. /\ stage[a] = "serving" /\ session[a] = phase /\ shared[a] = step
            /\ toRank[a] = <<>> /\ Answers(a, "VelocityPart", {}) /\ toLeader[a][1].step = step
        BY <4>1 DEF AskedStep
      <4>3. Tail(toLeader[a]) = <<>> /\ Head(toLeader[a]) = toLeader[a][1]
        BY <2>0, <4>2, TailOfOne DEF Answers
      <4>4. /\ toLeader'[a] = <<>> /\ heard'[a].phase = phase /\ heard'[a].step = step
        BY <1>3, <4>2, <4>3 DEF Answers
      <4> QED  BY <2>2, <4>2, <4>4 DEF DoneStep
    <3>4. ASSUME NEW p \in Ranks, p < a PROVE DoneStep(p, step)'
      <4>1. DoneStep(p, step) /\ p # a  BY <1>5, <3>2, <3>4
      <4>2. Alike(p) /\ heard'[p] = heard[p]  BY <2>1, <4>1
      <4> QED  BY <2>2, <4>1, <4>2 DEF DoneStep, Alike
    <3>5. ASSUME NEW p \in Ranks, p > a PROVE AskedStep(p)'
      <4>1. AskedStep(p) /\ p # a  BY <1>5, <3>2, <3>5
      <4>2. Alike(p) /\ heard'[p] = heard[p]  BY <2>1, <4>1
      <4>3. Step' = Step /\ Table' = Table
        BY <2>2 DEF Step, Table, Message
      <4> QED  BY <2>2, <4>1, <4>2, <4>3 DEF AskedStep, Alike, Answers, Gone
    <3>6. CASE pc' = "parts"
      <4>1. at' = a + 1  BY <1>4, <2>5, <3>6
      <4>2. ASSUME NEW p \in Ranks PROVE Clean(p)'
        <5>1. Known(p)'  BY <3>6 DEF Known
        <5>2. CASE p < at'
          <6>1. p < a \/ p = a  BY <1>5, <4>1, <5>2
          <6>2. DoneStep(p, step)'  BY <3>3, <3>4, <6>1
          <6> QED  BY <3>6, <5>1, <5>2, <6>2 DEF Clean, Placed
        <5>3. CASE ~(p < at')
          <6>1. p > a  BY <1>5, <4>1, <5>3
          <6>2. AskedStep(p)'  BY <3>5, <6>1
          <6> QED  BY <3>6, <5>1, <5>3, <6>2 DEF Clean, Placed
        <5> QED  BY <5>2, <5>3
      <4> QED  BY <4>2 DEF InOrder
    <3>7. CASE pc' = "stepped"
      <4>1. a = N - 1  BY <1>4, <2>5, <3>7
      <4>2. ASSUME NEW p \in Ranks PROVE Clean(p)'
        <5>1. p < a \/ p = a  BY <1>5, <4>1
        <5>2. DoneStep(p, step)'  BY <3>3, <3>4, <5>1
        <5>3. Known(p)'  BY <3>7 DEF Known
        <5> QED  BY <3>7, <5>2, <5>3 DEF Clean, Placed
      <4> QED  BY <4>2 DEF InOrder
    <3> QED  BY <1>4, <2>5, <3>6, <3>7
  <2> QED  BY <1>1, <2>3, <2>4, <2>5
<1> QED  BY <1>1, <1>6, <1>7 DEF InOrder, Over

LEMMA TellPlaces ==
    ASSUME TypesHold, NEW a \in Ranks, a = at, Sends(a, Telling), InOrder,
           pc \in {"tellLinks", "tellTable", "tellStep"}, Leads,
           UNCHANGED <<phase, step, heard, toLeader>>
    PROVE  /\ pc = "tellLinks" => AskedReady(a)'
           /\ pc = "tellTable" => ToldTable(a)'
           /\ pc = "tellStep" => AskedStep(a)'
<1>1. /\ stage'[a] = stage[a] /\ session'[a] = session[a] /\ shared'[a] = shared[a]
      /\ phase' = phase /\ step' = step /\ heard' = heard /\ toLeader'[a] = toLeader[a]
      /\ Step' = Step /\ Table' = Table /\ Links(a)' = Links(a)
  BY LeadsAlike DEF Step, Table, Links, Message
<1>2. /\ Clean(a) /\ ~(a < a)
  BY Passed, RendezvousAssumption DEF Ranks
<1>3. CASE pc = "tellLinks"
  <2>1. HeardLinks(a)  BY <1>2, <1>3 DEF Clean, Placed
  <2>2. Telling = Links(a)
    BY <1>3, PassedBodies DEF Telling, Links
  <2>3. toRank'[a] = <<Links(a)>>
    BY <2>1, <2>2, ShortQueues DEF Sends, HeardLinks
  <2> QED  BY <1>1, <1>3, <2>1, <2>3 DEF AskedReady, HeardLinks
<1>4. CASE pc = "tellTable"
  <2>1. HeardReady(a)  BY <1>2, <1>4 DEF Clean, Placed
  <2>2. Telling = Table
    BY <1>4, PassedBodies DEF Telling, Table
  <2>3. toRank'[a] = <<Table>>
    BY <2>1, <2>2, ShortQueues DEF Sends, HeardReady
  <2> QED  BY <1>1, <1>4, <2>1, <2>3 DEF ToldTable, HeardReady
<1>5. CASE pc = "tellStep"
  <2>1. Telling = Step
    BY <1>5 DEF Telling, Step
  <2>2. CASE step = 1
    <3>1. ToldTable(a)  BY <1>2, <1>5, <2>2 DEF Clean, Placed
    <3>2. CASE Gone(a)
      <4>1. toRank'[a] = <<>>  BY <3>2 DEF Gone, Sends
      <4> QED  BY <1>1, <1>5, <3>1, <3>2, <4>1 DEF AskedStep, ToldTable, Gone
    <3>3. CASE stage[a] = "table" /\ toRank[a] = <<Table>> /\ ~Gone(a)
      <4>1. toRank'[a] = <<Table, Step>>  BY <2>1, <3>3, AppendToOne DEF Sends
      <4>2. shared'[a] = step - 1  BY <1>1, <2>2, <3>1, <3>3 DEF ToldTable
      <4> QED  BY <1>1, <1>5, <3>1, <3>3, <4>1, <4>2 DEF AskedStep, ToldTable
    <3>4. CASE stage[a] \in {"meet", "dial", "serving"} /\ toRank[a] = <<>> /\ ~Gone(a)
      <4>1. toRank'[a] = <<Step>>  BY <2>1, <3>4, ShortQueues DEF Sends
      <4>2. shared'[a] = step - 1  BY <1>1, <2>2, <3>1, <3>4 DEF ToldTable
      <4> QED  BY <1>1, <1>5, <3>1, <3>4, <4>1, <4>2 DEF AskedStep, ToldTable
    <3> QED  BY <3>1, <3>2, <3>3, <3>4 DEF ToldTable
  <2>3. CASE step # 1
    <3>1. DoneStep(a, step - 1)  BY <1>2, <1>5, <2>3 DEF Clean, Placed
    <3>2. toRank'[a] = <<Step>>  BY <2>1, <3>1, ShortQueues DEF Sends, DoneStep
    <3> QED  BY <1>1, <1>5, <3>1, <3>2 DEF AskedStep, DoneStep
  <2> QED  BY <2>2, <2>3
<1> QED  BY <1>3, <1>4, <1>5

LEMMA TellInOrder ==
    ASSUME TypesHold, Tell, InOrder
    PROVE  InOrder'
<1>1. /\ pc \in {"tellLinks", "tellTable", "tellStep"}
      /\ Leads /\ UNCHANGED <<phase, step, heard, toLeader>>
      /\ Sends(at, Telling) /\ \A p \in Ranks \ {at} : toRank'[p] = toRank[p]
  BY TellIs
<1>2. PICK a \in Ranks : a = at
  BY DEF TypesHold
<1>3. Sends(a, Telling) /\ \A p \in Ranks \ {a} : toRank'[p] = toRank[p]
  BY <1>1, <1>2
<1>4. \/ /\ a = N - 1 /\ at' = 0
         /\ \/ pc = "tellLinks" /\ pc' = "ready"
            \/ pc = "tellTable" /\ pc' = "tellStep"
            \/ pc = "tellStep" /\ pc' = "parts"
      \/ a < N - 1 /\ at' = a + 1 /\ pc' = pc
  BY <1>1, <1>2, TellIs
<1>5. a \in Int /\ N \in Int /\ \A p \in Ranks : p \in Int /\ 0 =< p /\ p =< N - 1
  BY RendezvousAssumption DEF Ranks
<1>6. \A p \in Ranks : Clean(p)
  BY <1>1, Passed
<1>7. /\ pc = "tellLinks" => AskedReady(a)'
      /\ pc = "tellTable" => ToldTable(a)'
      /\ pc = "tellStep" => AskedStep(a)'
  BY <1>1, <1>2, <1>3, TellPlaces
<1>8. phase' = phase /\ step' = step /\ heard' = heard /\ Step' = Step /\ Table' = Table
  BY <1>1 DEF Step, Table, Message
<1>9. ASSUME NEW p \in Ranks, p # a PROVE Alike(p)
  <2>1. toRank'[p] = toRank[p] /\ toLeader'[p] = toLeader[p]
    BY <1>1, <1>3, <1>9
  <2> QED  BY <1>1, <2>1, LeadsAlike DEF Alike
<1>10. ASSUME NEW p \in Ranks, p # a
       PROVE  /\ AskedReady(p) => AskedReady(p)'
              /\ HeardLinks(p) => HeardLinks(p)'
              /\ HeardReady(p) => HeardReady(p)'
              /\ ToldTable(p) => ToldTable(p)'
              /\ AskedStep(p) => AskedStep(p)'
              /\ DoneStep(p, step - 1) => DoneStep(p, step - 1)'
  <2>1. Alike(p)  BY <1>9, <1>10
  <2>2. Links(p)' = Links(p)  BY <1>8 DEF Links, Message
  <2>3. AskedReady(p) => AskedReady(p)'
    BY <1>8, <2>1, <2>2 DEF AskedReady, Alike, Answers, Gone
  <2>4. HeardLinks(p) => HeardLinks(p)'
    BY <1>8, <2>1 DEF HeardLinks, Alike
  <2>5. HeardReady(p) => HeardReady(p)'
    BY <1>8, <2>1 DEF HeardReady, Alike
  <2>6. ToldTable(p) => ToldTable(p)'
    BY <1>8, <2>1 DEF ToldTable, Alike, Gone
  <2>7. AskedStep(p) => AskedStep(p)'
    BY <1>8, <2>1 DEF AskedStep, Alike, Answers, Gone
  <2>8. DoneStep(p, step - 1) => DoneStep(p, step - 1)'
    BY <1>8, <2>1 DEF DoneStep, Alike
  <2> QED  BY <2>3, <2>4, <2>5, <2>6, <2>7, <2>8
<1>11. \A p \in Ranks : (p < a => p # a) /\ (~(p < a) /\ p # a => ~(p < a + 1))
                        /\ (p < a + 1 => p < a \/ p = a)
  BY <1>5
<1>12. CASE pc = "tellLinks"
  <2>1. /\ \A p \in Ranks : p < a => AskedReady(p)
        /\ \A p \in Ranks : ~(p < a) => HeardLinks(p)
        /\ \A p \in Ranks : Known(p)
    BY <1>2, <1>6, <1>12 DEF Clean, Placed
  <2>2. ASSUME NEW p \in Ranks PROVE Clean(p)'
    <3>1. Known(p)'
      BY <1>4, <1>8, <1>12, <2>1 DEF Known
    <3>2. CASE p < a \/ p = a
      <4>1. AskedReady(p)'  BY <1>7, <1>10, <1>11, <1>12, <2>1, <3>2
      <4>2. (pc' = "tellLinks" /\ p < at') \/ (pc' = "ready" /\ ~(p < at'))
        BY <1>4, <1>5, <1>12, <3>2
      <4> QED  BY <3>1, <4>1, <4>2 DEF Clean, Placed
    <3>3. CASE ~(p < a) /\ p # a
      <4>1. HeardLinks(p)'  BY <1>10, <2>1, <3>3
      <4>2. pc' = "tellLinks" /\ ~(p < at')
        BY <1>4, <1>5, <1>12, <3>3
      <4> QED  BY <3>1, <4>1, <4>2 DEF Clean, Placed
    <3> QED  BY <3>2, <3>3
  <2> QED  BY <2>2 DEF InOrder
<1>13. CASE pc = "tellTable"
  <2>1. /\ \A p \in Ranks : p < a => ToldTable(p)
        /\ \A p \in Ranks : ~(p < a) => HeardReady(p)
        /\ \A p \in Ranks : Known(p)
    BY <1>2, <1>6, <1>13 DEF Clean, Placed
  <2>2. step' = 1
    BY <1>8, <1>13 DEF TypesHold, Over
  <2>3. ASSUME NEW p \in Ranks PROVE Clean(p)'
    <3>1. Known(p)'
      BY <1>4, <1>8, <1>13, <2>1 DEF Known
    <3>2. CASE p < a \/ p = a
      <4>1. ToldTable(p)'  BY <1>7, <1>10, <1>11, <1>13, <2>1, <3>2
      <4>2. (pc' = "tellTable" /\ p < at') \/ (pc' = "tellStep" /\ ~(p < at'))
        BY <1>4, <1>5, <1>13, <3>2
      <4> QED  BY <2>2, <3>1, <4>1, <4>2 DEF Clean, Placed
    <3>3. CASE ~(p < a) /\ p # a
      <4>1. HeardReady(p)'  BY <1>10, <2>1, <3>3
      <4>2. pc' = "tellTable" /\ ~(p < at')
        BY <1>4, <1>5, <1>13, <3>3
      <4> QED  BY <3>1, <4>1, <4>2 DEF Clean, Placed
    <3> QED  BY <3>2, <3>3
  <2> QED  BY <2>3 DEF InOrder
<1>14. CASE pc = "tellStep"
  <2>1. /\ \A p \in Ranks : p < a => AskedStep(p)
        /\ \A p \in Ranks : ~(p < a) => IF step = 1 THEN ToldTable(p) ELSE DoneStep(p, step - 1)
    BY <1>2, <1>6, <1>14 DEF Clean, Placed
  <2>2. ASSUME NEW p \in Ranks PROVE Clean(p)'
    <3>1. Known(p)'
      BY <1>4, <1>14 DEF Known
    <3>2. CASE p < a \/ p = a
      <4>1. AskedStep(p)'  BY <1>7, <1>10, <1>11, <1>14, <2>1, <3>2
      <4>2. (pc' = "tellStep" /\ p < at') \/ (pc' = "parts" /\ ~(p < at'))
        BY <1>4, <1>5, <1>14, <3>2
      <4> QED  BY <3>1, <4>1, <4>2 DEF Clean, Placed
    <3>3. CASE ~(p < a) /\ p # a
      <4>1. IF step = 1 THEN ToldTable(p)' ELSE DoneStep(p, step - 1)'
        BY <1>10, <2>1, <3>3
      <4>2. pc' = "tellStep" /\ ~(p < at')
        BY <1>4, <1>5, <1>14, <3>3
      <4> QED  BY <1>8, <3>1, <4>1, <4>2 DEF Clean, Placed
    <3> QED  BY <3>2, <3>3
  <2> QED  BY <2>2 DEF InOrder
<1> QED  BY <1>1, <1>12, <1>13, <1>14

LEMMA SteppedInOrder ==
    ASSUME TypesHold, Stepped, InOrder
    PROVE  InOrder'
<1>1. pc = "stepped" /\ UNCHANGED <<heard, toLeader>> /\ Leads
  BY DEF Stepped, Leads
<1>2. \A p \in Ranks : DoneStep(p, step)
  BY <1>1 DEF InOrder, Over, Marred, Clean, Placed
<1>3. /\ step \in 1 .. Steps /\ phase \in Int
      /\ \A p \in Ranks : p \in Int /\ 0 =< p
  BY RendezvousAssumption DEF TypesHold, Ranks
<1>4. \A p \in Ranks : stage'[p] = stage[p] /\ session'[p] = session[p] /\ shared'[p] = shared[p]
  BY <1>1, LeadsAlike
<1>5. CASE step < Steps
  <2>1. pc' = "tellStep" /\ at' = 0 /\ step' = step + 1 /\ UNCHANGED <<phase, toRank>>
    BY <1>5 DEF Stepped, GoTo
  <2>2. step' # 1 /\ step' - 1 = step
    BY <1>3, <2>1
  <2>3. ASSUME NEW p \in Ranks PROVE Clean(p)'
    <3>1. DoneStep(p, step)  BY <1>2
    <3>2. DoneStep(p, step - 1)'
      BY <1>1, <1>4, <2>1, <2>2, <3>1 DEF DoneStep
    <3>3. ~(p < at')  BY <1>3, <2>1
    <3>4. Known(p)'  BY <2>1 DEF Known
    <3> QED  BY <2>1, <2>2, <3>2, <3>3, <3>4 DEF Clean, Placed
  <2> QED  BY <2>3 DEF InOrder
<1>6. CASE ~(step < Steps)
  <2>1. NextPhase /\ Drop
    BY <1>6 DEF Stepped
  <2>2. \/ at' = 0 /\ pc' = "open" /\ phase' = phase + 1
        \/ pc' = "done"
    BY <2>1, NextPhaseIs
  <2>3. CASE pc' = "done"
    BY <2>3 DEF InOrder, Over
  <2>4. CASE at' = 0 /\ pc' = "open" /\ phase' = phase + 1
    <3>1. LastClose' = Message("CloseSession", phase, 0, {})
      <4>1. phase' - 1 = phase  BY <1>3, <2>4
      <4> QED  BY <4>1 DEF LastClose, Message
    <3> DEFINE m == Message("CloseSession", phase, 0, {})
    <3>2. \A p \in Ranks : Sends(p, m)
      BY <2>1, DropIs
    <3> HIDE DEF m
    <3>3. ASSUME NEW p \in Ranks PROVE Clean(p)'
      <4>1. /\ stage[p] = "serving" /\ toRank[p] = <<>> /\ toLeader[p] = <<>>
        BY <1>2 DEF DoneStep
      <4>2. toRank'[p] = <<m>>
        BY <3>2, <4>1, ShortQueues DEF Sends
      <4>3. Unopened(p)'
        BY <1>1, <1>4, <3>1, <4>1, <4>2 DEF Unopened, m
      <4>4. ~(p < at')  BY <1>3, <2>4
      <4>5. Known(p)'  BY <2>4 DEF Known
      <4> QED  BY <2>4, <4>3, <4>4, <4>5 DEF Clean, Placed
    <3> QED  BY <3>3 DEF InOrder
  <2> QED  BY <2>2, <2>3, <2>4
<1> QED  BY <1>5, <1>6

(* A run that is not to be had, and the rank that is why. *)
LEMMA TroubleInOrder ==
    ASSUME TypesHold, Refused \/ Lost, InOrder
    PROVE  InOrder'
<1>1. CASE Lost
  BY <1>1 DEF Lost, GoTo, InOrder, Over
<1>2. CASE Refused
  <2>1. /\ pc \in {"links", "ready", "tellLinks", "tellTable"} /\ Trouble /\ pc' = "here" /\ Leads
    BY <1>2 DEF Refused, Trouble, GoTo, Leads
  <2>2. PICK a \in Ranks : a = at
    BY DEF TypesHold
  <2>3. /\ \A p \in Ranks \ {a} : toLeader'[p] = toLeader[p]
        /\ toLeader[a] = <<>> => toLeader'[a] = <<>>
        /\ toLeader[a] # <<>> => toLeader'[a] = Tail(toLeader[a]) \/ toLeader'[a] = toLeader[a]
    <3>1. CASE UNCHANGED <<heard, toLeader>>
      BY <3>1
    <3>2. CASE ~UNCHANGED <<heard, toLeader>>
      <4>1. /\ toLeader[at] # <<>> /\ heard' = [heard EXCEPT ![at] = Head(toLeader[at])]
            /\ toLeader' = [toLeader EXCEPT ![at] = Tail(@)]
        BY <2>1, <3>2 DEF Trouble
      <4>2. /\ toLeader'[a] = Tail(toLeader[a])
            /\ \A p \in Ranks \ {a} : toLeader'[p] = toLeader[p]
        BY <2>2, <4>1, HeadHeard
      <4> QED  BY <2>2, <4>1, <4>2
    <3> QED  BY <3>1, <3>2
  <2>4. CASE Marred
    <3>1. PICK p \in Ranks : Dead(p)  BY <2>4 DEF Marred
    <3>2. toLeader'[p] = toLeader[p]
      BY <2>3, <3>1 DEF Dead
    <3>3. Dead(p)'  BY <2>1, <3>1, <3>2, DeadStays
    <3> QED  BY <2>1, <3>3 DEF InOrder, Marred
  <2>5. CASE \A p \in Ranks : Clean(p)
    <3>1. Clean(a) /\ ~(a < a)
      BY <2>5, RendezvousAssumption DEF Ranks
    <3>2. \/ pc = "links" /\ AskedLinks(a)
          \/ pc = "ready" /\ AskedReady(a)
          \/ pc = "tellLinks" /\ HeardLinks(a)
          \/ pc = "tellTable" /\ HeardReady(a)
      BY <2>1, <2>2, <3>1 DEF Clean, Placed
    <3>3. stage[a] = "closed" => Gone(a)
      BY <3>2 DEF AskedLinks, AskedReady, HeardLinks, HeardReady
    <3>4. Gone(a) => toLeader[a] # <<>> /\ Tail(toLeader[a]) = <<>>
      <4>1. toLeader[a] \in Seq(Words)  BY DEF TypesHold
      <4> QED  BY <4>1, TailOfOne DEF Gone
    <3>5. pc \in {"links", "ready"} /\ toLeader[a] # <<>> /\ ~Has(toLeader[a], {Expected})
      <4>1. CASE pc \in {"links", "ready"} /\ toLeader[at] # <<>> /\ ~Has(toLeader[at], {Expected})
        BY <2>2, <4>1
      <4>2. CASE /\ stage[at] = "closed"
                 /\ pc \in {"links", "ready", "parts"} => toLeader[at] = <<>>
        <5>1. Gone(a) /\ pc \in {"links", "ready"}
          BY <2>2, <3>2, <3>3, <4>2 DEF HeardLinks, HeardReady
        <5> QED  BY <2>2, <3>4, <4>2, <5>1
      <4> QED  BY <2>1, <4>1, <4>2 DEF Trouble
    <3>6. Gone(a)
      <4>0. toLeader[a] \in Seq(Words)  BY DEF TypesHold
      <4>1. CASE pc = "links" /\ AskedLinks(a)
        <5>1. Expected = "SessionLinks"  BY <4>1 DEF Expected
        <5>2. Answers(a, "SessionLinks", Opened(a)) => Has(toLeader[a], {Expected})
          BY <4>0, <5>1, TailOfOne DEF Answers, Has
        <5> QED  BY <3>5, <4>1, <5>2 DEF AskedLinks
      <4>2. CASE pc = "ready" /\ AskedReady(a)
        <5>1. Expected = "SessionReady"  BY <4>2 DEF Expected
        <5>2. Answers(a, "SessionReady", Keys(a)) => Has(toLeader[a], {Expected})
          BY <4>0, <5>1, TailOfOne DEF Answers, Has
        <5> QED  BY <3>5, <4>2, <5>2 DEF AskedReady
      <4> QED  BY <3>2, <3>5, <4>1, <4>2
    <3>7. toLeader'[a] = <<>>
      <4>1. toLeader' = [toLeader EXCEPT ![at] = Tail(@)]
        BY <2>1, <2>2, <3>5 DEF Trouble
      <4>2. toLeader'[a] = Tail(toLeader[a])
        BY <2>2, <4>1 DEF TypesHold
      <4> QED  BY <3>4, <3>6, <4>2
    <3>8. Dead(a)'
      BY <2>1, <3>6, <3>7, LeadsAlike DEF Dead, Gone
    <3> QED  BY <2>1, <3>8 DEF InOrder, Marred
  <2> QED  BY <2>1, <2>4, <2>5 DEF InOrder, Over
<1> QED  BY <1>1, <1>2

LEMMA LeaderInOrder ==
    ASSUME TypesHold, LeaderStep \/ LeaderStops, InOrder
    PROVE  InOrder'
  BY OpenOnInOrder, HereInOrder, HearInOrder, TellInOrder, SteppedInOrder, TroubleInOrder
  DEF LeaderStep

-------------------------------------------------------------------------------
(* The invariant, but for the gatherings.                                    *)

LEMMA InitSInv == Init => SInv
<1> SUFFICES ASSUME Init PROVE SInv
  OBVIOUS
<1>1. 0 \in Ranks /\ 1 \in 1 .. Phases /\ 1 \in 1 .. Steps /\ 0 \in 0 .. Phases
      /\ \A r \in Ranks : r \in Int /\ 0 =< r
  BY RendezvousAssumption DEF Ranks
<1>2. Nothing \in Words
  BY DEF Nothing, Message, Words, Kinds
<1>3. TypesHold
  BY <1>1, <1>2 DEF Init, TypesHold, InSession, NoMeeting, Over
<1>4. \A i \in 1 .. Len(<<>>) : FALSE
  OBVIOUS
<1>5. ASSUME NEW r \in Ranks
      PROVE  Orderly(r) /\ InTurn(r) /\ Said(r) /\ Linked(r) /\ Clean(r)
  <2>1. /\ pc = "open" /\ at = 0 /\ phase = 1 /\ toRank[r] = <<>> /\ toLeader[r] = <<>>
        /\ stage[r] = "ready" /\ session[r] = 0
    BY DEF Init
  <2>2. Orderly(r)
    BY <1>1, <2>1, EmptyInLine DEF Orderly, Fresh
  <2>3. InTurn(r)
    <3>1. LastOf(r) = 0  BY <1>1, <2>1 DEF LastOf
    <3>2. InTime(<<>>, 0, 0)  BY EmptyInLine
    <3> QED  BY <1>3, <2>1, <3>1, <3>2, LastIs
  <2>4. Said(r)
    BY <1>4, <2>1 DEF Said, Relayed, TableComes
  <2>5. Linked(r)
    BY <2>1 DEF Linked, HasTable
  <2>6. Clean(r)
    <3>1. ~(r < at)  BY <1>1, <2>1
    <3> QED  BY <2>1, <3>1 DEF Clean, Known, Placed, Unopened
  <2> QED  BY <2>2, <2>3, <2>4, <2>5, <2>6
<1> QED  BY <1>3, <1>5 DEF SInv, InOrder

LEMMA RankSInv ==
    ASSUME SInv, NEW r \in Ranks, RankStep(r) \/ Fail(r) \/ CannotReachCard(r)
    PROVE  SInv'
<1>1. TypesHold /\ InOrder /\ \A p \in Ranks : Orderly(p) /\ InTurn(p) /\ Said(p) /\ Linked(p)
  BY DEF SInv
<1>2. Moves(r) /\ TypesHold'
  BY <1>1, RanksMove
<1>3. InOrder'
  BY <1>1, <1>2, MovesInOrder
<1>4. ASSUME NEW p \in Ranks
      PROVE  Orderly(p)' /\ InTurn(p)' /\ Said(p)' /\ Linked(p)'
  <2>0. /\ Orderly(p) /\ InTurn(p) /\ Said(p) /\ Linked(p)
        /\ Orderly(r) /\ InTurn(r)
    BY <1>1
  <2>1. Said(p)'  BY <1>1, <1>2, <2>0, MovesSaid
  <2>2. Linked(p)'  BY <1>1, <1>2, <2>0, MovesLinked
  <2>3. CASE p = r
    <3>1. Orderly(r)'  BY <1>1, <1>2, <2>0, MovesOrderly
    <3>2. InTurn(r)'  BY <1>1, <1>2, <2>0, MovesInTurn
    <3> QED  BY <2>1, <2>2, <2>3, <3>1, <3>2
  <2>4. CASE p # r
    <3>1. Orderly(p)' /\ InTurn(p)'  BY <1>2, <2>0, <2>4, OthersStay
    <3> QED  BY <2>1, <2>2, <3>1
  <2> QED  BY <2>3, <2>4
<1> QED  BY <1>2, <1>3, <1>4 DEF SInv

LEMMA LeaderSInv ==
    ASSUME SInv, LeaderStep \/ LeaderStops
    PROVE  SInv'
<1>1. TypesHold /\ InOrder /\ \A p \in Ranks : Orderly(p) /\ InTurn(p) /\ Said(p) /\ Linked(p)
  BY DEF SInv
<1>2. InOrder'
  BY <1>1, LeaderInOrder
<1>3. TypesHold' /\ \A p \in Ranks : Orderly(p)' /\ InTurn(p)' /\ Said(p)' /\ Linked(p)'
  BY <1>1, LeaderInvs
<1> QED  BY <1>2, <1>3 DEF SInv

LEMMA StutterSInv ==
    ASSUME SInv, UNCHANGED vars
    PROVE  SInv'
<1>1. /\ pc' = pc /\ at' = at /\ phase' = phase /\ step' = step /\ heard' = heard
      /\ toRank' = toRank /\ toLeader' = toLeader /\ stage' = stage /\ session' = session
      /\ shared' = shared /\ link' = link /\ table' = table /\ socket' = socket
      /\ calls' = calls /\ meeting' = meeting
  BY DEF vars, leader, wires, rendezvous
<1>2. TypesHold'
  BY <1>1 DEF SInv, TypesHold, Over
<1>3. ASSUME NEW p \in Ranks
      PROVE  Orderly(p)' /\ InTurn(p)' /\ Said(p)' /\ Linked(p)'
  <2>0. TypesHold /\ Orderly(p) /\ InTurn(p) /\ Said(p) /\ Linked(p)
    BY DEF SInv
  <2>1. Orderly(p)'  BY <1>1, <2>0 DEF Orderly, Fresh, Over
  <2>2. InTurn(p)'  BY <1>1, <2>0 DEF InTurn
  <2>3. Leads  BY <1>1 DEF Leads, rendezvous
  <2>4. Linked(p)'  BY <2>0, <2>3, LeadsLinked
  <2>5. Nothing \in Words /\ Nothing.kind = "Nothing"
    BY DEF Nothing, Message, Words, Kinds
  <2>6. Said(p)'  BY <1>1, <2>0, <2>3, <2>5, LeadsSaid
  <2> QED  BY <2>1, <2>2, <2>4, <2>6
<1>4. InOrder'
  <2>1. InOrder  BY DEF SInv
  <2>2. CASE Over  BY <1>1, <2>2 DEF Over, InOrder
  <2>3. CASE Marred  BY <1>1, <2>3 DEF Marred, Dead, InOrder
  <2>4. CASE \A p \in Ranks : Clean(p)
    <3>1. ASSUME NEW p \in Ranks PROVE Clean(p)'
      <4>1. Clean(p)  BY <2>4
      <4>2. Known(p)'  BY <1>1, <4>1 DEF Clean, Known
      <4>3. Placed(p)' = Placed(p)
        <5>1. /\ Open' = Open /\ LastClose' = LastClose /\ Links(p)' = Links(p)
              /\ Table' = Table /\ Step' = Step
          BY <1>1 DEF Open, LastClose, Links, Table, Step, Message
        <5>2. Unopened(p)' = Unopened(p)  BY <1>1, <5>1 DEF Unopened
        <5>3. AskedLinks(p)' = AskedLinks(p)  BY <1>1, <5>1 DEF AskedLinks, Answers, Gone
        <5>4. HeardLinks(p)' = HeardLinks(p)  BY <1>1 DEF HeardLinks
        <5>5. AskedReady(p)' = AskedReady(p)  BY <1>1, <5>1 DEF AskedReady, Answers, Gone
        <5>6. HeardReady(p)' = HeardReady(p)  BY <1>1 DEF HeardReady
        <5>7. ToldTable(p)' = ToldTable(p)  BY <1>1, <5>1 DEF ToldTable, Gone
        <5>8. AskedStep(p)' = AskedStep(p)  BY <1>1, <5>1 DEF AskedStep, Answers, Gone
        <5>9. /\ DoneStep(p, step)' = DoneStep(p, step)
              /\ DoneStep(p, step - 1)' = DoneStep(p, step - 1)
          BY <1>1 DEF DoneStep
        <5> QED  BY <1>1, <5>2, <5>3, <5>4, <5>5, <5>6, <5>7, <5>8, <5>9 DEF Placed
      <4> QED  BY <4>1, <4>2, <4>3 DEF Clean
    <3> QED  BY <3>1 DEF InOrder
  <2> QED  BY <2>1, <2>2, <2>3, <2>4 DEF InOrder
<1> QED  BY <1>2, <1>3, <1>4 DEF SInv

LEMMA NextSInv ==
    ASSUME SInv, [Next]_vars
    PROVE  SInv'
  BY RankSInv, LeaderSInv, StutterSInv DEF Next

LEMMA InvariantS == Spec => []SInv
<1>1. Init => SInv  BY InitSInv
<1>2. SInv /\ [Next]_vars => SInv'  BY NextSInv
<1> QED  BY <1>1, <1>2, PTL DEF Spec

-------------------------------------------------------------------------------

LEMMA SessionsApart == SInv => OfThisSession
<1> SUFFICES ASSUME SInv PROVE OfThisSession
  OBVIOUS
<1>1. ASSUME pc \in {"tellLinks", "tellTable", "tellStep", "stepped"}, NEW r \in Ranks
      PROVE  heard[r].phase = phase /\ (pc = "stepped" => heard[r].step = step)
  <2>1. Clean(r)
    BY <1>1 DEF SInv, InOrder, Over, Marred
  <2>2. CASE pc \in {"tellLinks", "tellTable"}
    BY <2>1, <2>2 DEF Clean, Known
  <2>3. CASE pc = "tellStep"
    BY <2>1, <2>3 DEF Clean, Placed, AskedStep, ToldTable, DoneStep
  <2>4. CASE pc = "stepped"
    BY <2>1, <2>4 DEF Clean, Placed, DoneStep
  <2> QED  BY <1>1, <2>2, <2>3, <2>4
<1>2. ASSUME NEW r \in Ranks, stage[r] = "ready", toRank[r] # <<>>
      PROVE  Has(toRank[r], {"OpenSession"})
  <2>1. Orderly(r)  BY DEF SInv
  <2> QED  BY <1>2, <2>1 DEF Orderly, Has
<1> QED  BY <1>1, <1>2 DEF OfThisSession

(* A rank another linked to has keys: somebody is outside its process. *)
LEMMA LinkedHasKeys ==
    ASSUME NEW r \in Ranks, NEW p \in Ranks, p \in Opened(r), r \in Opened(p)
    PROVE  p \in Keyed
<1>1. p \in Ports /\ r # p /\ r \notin LocalPeers(p) /\ p \notin LocalPeers(p)
  BY RendezvousAssumption DEF Opened, Others, LocalPeers
<1> DEFINE M == {p, r} \cup LocalPeers(p)
<1>2. IsFiniteSet(Ranks) /\ Cardinality(Ranks) = N /\ N \in Nat
  BY RendezvousAssumption, FS_Interval DEF Ranks
<1>3. LocalPeers(p) \subseteq Ranks \ {p, r} /\ Ranks \ {p, r} \subseteq Ranks
  BY <1>1 DEF LocalPeers
<1>4. IsFiniteSet(Ranks \ {p, r}) /\ IsFiniteSet(LocalPeers(p))
  BY <1>2, <1>3, FS_Subset
<1>5. Cardinality(LocalPeers(p)) =< Cardinality(Ranks \ {p, r})
  BY <1>3, <1>4, FS_Subset
<1>6. Cardinality(Ranks \ {p, r}) = N - 2
  <2>1. Cardinality(Ranks \ {p}) = N - 1 /\ IsFiniteSet(Ranks \ {p})
    BY <1>2, FS_RemoveElement
  <2>2. Cardinality((Ranks \ {p}) \ {r}) = N - 1 - 1
    BY <1>1, <2>1, FS_RemoveElement
  <2>3. (Ranks \ {p}) \ {r} = Ranks \ {p, r}
    OBVIOUS
  <2> QED  BY <1>2, <2>2, <2>3
<1>7. Cardinality(LocalPeers(p)) \in Nat
  BY <1>4, FS_CardinalityType
<1>8. Cardinality(LocalPeers(p)) + 1 < N
  BY <1>2, <1>5, <1>6, <1>7
<1> QED  BY <1>1, <1>8 DEF Keyed, Keys

LEMMA BothEnds == SInv => Connected
<1> SUFFICES ASSUME SInv PROVE Connected
  OBVIOUS
<1>0. TypesHold /\ \A r \in Ranks : Linked(r) /\ session[r] \in Int
  BY RendezvousAssumption DEF SInv, TypesHold
<1>1. ASSUME NEW r \in Joined, NEW p \in link[r]
      PROVE  /\ p \in table[r] \ LocalPeers(r)
             /\ Listens(p, r) => r \in link[p]
  <2>1. r \in Ranks /\ stage[r] \in {"serving", "sharing"}
    BY DEF Joined
  <2>2. /\ link[r] = Opened(r) \cap LinksOf(r) /\ table[r] = Keyed \ {r}
        /\ \A o \in Ranks : PastLinks(o, session[r])
    BY <1>0, <2>1 DEF Linked, HasTable
  <2>3. /\ p \in Ranks /\ p # r /\ p \in Opened(r) /\ r \in Opened(p) /\ p \notin LocalPeers(r)
    BY <1>1, <2>2 DEF LinksOf, Opened, Others
  <2>4. p \in table[r] \ LocalPeers(r)
    BY <2>1, <2>2, <2>3, LinkedHasKeys
  <2>5. ASSUME Listens(p, r) PROVE r \in link[p]
    <3>1. stage[p] \in InSession /\ session[p] = session[r]
      BY <2>5 DEF Listens
    <3>2. stage[p] # "links"
      BY <1>0, <2>1, <2>2, <2>3, <3>1 DEF PastLinks
    <3>3. link[p] = Opened(p) \cap LinksOf(p)
      BY <1>0, <2>3, <3>1, <3>2 DEF Linked, HasTable, InSession
    <3> QED  BY <2>1, <2>3, <3>3 DEF LinksOf, Others
  <2> QED  BY <2>4, <2>5
<1>2. ASSUME NEW r \in Joined, NEW p \in Joined, r # p
      PROVE  p \in socket[r]
  BY <1>0, <1>2 DEF Joined, Linked, Others
<1> QED  BY <1>1, <1>2 DEF Connected

(* Whatever fails, and when, the leader passes on and assembles what was said *)
(* in this session and of this step, though no answer names either.           *)
THEOREM SpeaksOfThisSession == Spec => []OfThisSession
<1>1. SInv => OfThisSession  BY SessionsApart
<1> QED  BY <1>1, InvariantS, PTL

(* Ranks that serve a session are connected the same way from both ends.     *)
THEOREM ConnectedBothWays == Spec => []Connected
<1>1. SInv => Connected  BY BothEnds
<1> QED  BY <1>1, InvariantS, PTL

-------------------------------------------------------------------------------
(* The ranks of a process and what they are gathered in.                     *)

(* The ranks of a process: every one of them sees the same. *)
LEMMA OneProcess ==
    ASSUME NEW r \in Ranks, NEW p \in Process(r)
    PROVE  p \in Ranks /\ Process(p) = Process(r)
<1>1. p \in Ranks
  BY DEF Process, LocalPeers
<1>2. CASE p = r
  BY <1>1, <1>2
<1>3. CASE p # r
  <2>1. <<r, p>> \in Local /\ <<p, r>> \in Local
    BY <1>1, <1>3, RendezvousAssumption DEF Process, LocalPeers
  <2>2. ASSUME NEW q \in Ranks
        PROVE  q \in Process(p) <=> q \in Process(r)
    <3>1. q = r => q \in Process(p) /\ q \in Process(r)
      BY <2>1 DEF Process, LocalPeers
    <3>2. q = p => q \in Process(p) /\ q \in Process(r)
      BY <1>1, <2>1 DEF Process, LocalPeers
    <3>3. q # r /\ q # p => (<<p, q>> \in Local <=> <<r, q>> \in Local)
      BY <1>1, <2>1, <2>2, RendezvousAssumption
    <3> QED  BY <3>1, <3>2, <3>3 DEF Process, LocalPeers
  <2>3. Process(p) \subseteq Ranks /\ Process(r) \subseteq Ranks
    BY <1>1 DEF Process, LocalPeers
  <2> QED  BY <1>1, <2>2, <2>3
<1> QED  BY <1>2, <1>3

LEMMA ProcessCount ==
    ASSUME NEW r \in Ranks
    PROVE  /\ IsFiniteSet(Process(r)) /\ Cardinality(Process(r)) = Count(r)
           /\ Count(r) \in Nat /\ Count(r) >= 1 /\ (LocalPeers(r) # {} => Count(r) >= 2)
           /\ Process(r) \subseteq Ranks /\ r \in Process(r)
           /\ LocalPeers(r) = {} => Process(r) = {r}
<1>1. LocalPeers(r) \subseteq Ranks /\ r \notin LocalPeers(r)
  BY RendezvousAssumption DEF LocalPeers
<1>2. IsFiniteSet(Ranks)
  BY RendezvousAssumption, FS_Interval DEF Ranks
<1>3. IsFiniteSet(LocalPeers(r)) /\ Cardinality(LocalPeers(r)) \in Nat
  BY <1>1, <1>2, FS_Subset, FS_CardinalityType
<1>4. /\ IsFiniteSet(LocalPeers(r) \cup {r})
      /\ Cardinality(LocalPeers(r) \cup {r}) = Cardinality(LocalPeers(r)) + 1
  BY <1>1, <1>3, FS_AddElement
<1>5. LocalPeers(r) # {} => Cardinality(LocalPeers(r)) # 0
  BY <1>3, FS_EmptySet
<1> QED  BY <1>1, <1>3, <1>4, <1>5 DEF Process, Count

LEMMA RunIs ==
    ASSUME NEW run \in Runs, NEW r \in Ranks
    PROVE  /\ Run(r) = run <=> r \in run[1] /\ session[r] = run[2]
           /\ Run(r)' = run <=> r \in run[1] /\ session'[r] = run[2]
           /\ r \in run[1] => run[1] = Process(r)
           /\ run[1] \subseteq Ranks /\ IsFiniteSet(run[1]) /\ run[2] \in Int
<1>1. PICK x \in Ranks, ph \in 1 .. Phases : run = <<Process(x), ph>>
  BY DEF Runs
<1>2. run[1] = Process(x) /\ run[2] = ph
  BY <1>1
<1>3. r \in run[1] => run[1] = Process(r)
  BY <1>2, OneProcess
<1>4. r \in Process(r)
  BY DEF Process
<1>5. Run(r) = <<Process(r), session[r]>> /\ Run(r)' = <<Process(r), session'[r]>>
  BY DEF Run
<1>6. \A s : <<Process(r), s>> = run <=> r \in run[1] /\ s = run[2]
  <2> TAKE s
  <2>1. <<Process(r), s>> = run => Process(r) = run[1] /\ s = run[2]
    OBVIOUS
  <2>2. r \in run[1] /\ s = run[2] => <<Process(r), s>> = run
    BY <1>1, <1>2, <1>3
  <2> QED  BY <1>4, <2>1, <2>2
<1>7. run[1] \subseteq Ranks /\ IsFiniteSet(run[1])
  BY <1>2, ProcessCount
<1>8. run[2] \in Int
  BY <1>2
<1> QED  BY <1>3, <1>5, <1>6, <1>7, <1>8

-------------------------------------------------------------------------------

(* What a rank's step has to do with the gatherings. *)
Stands(r) == /\ session'[r] = session[r]
             /\ stage'[r] # "links" /\ stage'[r] # "table" /\ stage'[r] # "ready"

ComesTo(r) ==
    /\ stage[r] = "table" /\ stage'[r] = "meet" /\ LocalPeers(r) # {} /\ Stands(r)
    /\ Run(r) \in Runs
    /\ \A run \in Runs \ {Run(r)} : meeting'[run] = meeting[run]
    /\ meeting'[Run(r)].ranks = meeting[Run(r)].ranks \cup {r}
    /\ meeting'[Run(r)].taken = meeting[Run(r)].taken

ComesAlone(r) ==
    /\ stage[r] = "table" /\ stage'[r] = "dial" /\ LocalPeers(r) = {} /\ Stands(r)
    /\ meeting' = meeting

Took(r) ==
    /\ stage[r] = "meet" /\ stage'[r] \in {"dial", "closed"} /\ AllCame(r) /\ Stands(r)
    /\ Run(r) \in Runs
    /\ \A run \in Runs \ {Run(r)} : meeting'[run] = meeting[run]
    /\ meeting[Run(r)].taken + 1 = Count(r) =>
         meeting'[Run(r)].ranks = {} /\ meeting'[Run(r)].taken = 0
    /\ meeting[Run(r)].taken + 1 # Count(r) =>
         /\ meeting'[Run(r)].ranks = meeting[Run(r)].ranks
         /\ meeting'[Run(r)].taken = meeting[Run(r)].taken + 1

LeftIt(r) ==
    /\ stage[r] = "meet" /\ stage'[r] = "closed" /\ ~AllCame(r) /\ Stands(r)
    /\ Run(r) \in Runs
    /\ \A run \in Runs \ {Run(r)} : meeting'[run] = meeting[run]
    /\ meeting'[Run(r)].ranks = meeting[Run(r)].ranks \ {r}
    /\ meeting'[Run(r)].taken = meeting[Run(r)].taken

Elsewhere(r) ==
    /\ stage[r] # "meet" /\ stage'[r] # "meet" /\ meeting' = meeting
    /\ stage'[r] \in HasMet => stage[r] \in HasMet /\ session'[r] = session[r]
    /\ stage'[r] = "table" => stage[r] = "links"

LEMMA RankGathers ==
    ASSUME TypesHold, NEW r \in Ranks, RankStep(r) \/ Fail(r) \/ CannotReachCard(r)
    PROVE  ComesTo(r) \/ ComesAlone(r) \/ Took(r) \/ LeftIt(r) \/ Elsewhere(r)
<1>0. /\ meeting \in Meetings /\ (stage[r] \in InSession => Run(r) \in Runs)
      /\ stage \in [Ranks -> InSession \cup {"ready", "closed"}]
      /\ session \in [Ranks -> 0 .. Phases]
  BY ItsRun DEF TypesHold, Meetings
<1>1. CASE TakeTable(r) /\ LocalPeers(r) # {}
  <2>1. /\ stage[r] = "table" /\ stage'[r] = "meet" /\ session' = session
        /\ meeting' = [meeting EXCEPT ![Run(r)].ranks = @ \cup {r}]
    BY <1>0, <1>1 DEF TakeTable
  <2>2. Run(r) \in Runs
    BY <1>0, <2>1 DEF InSession
  <2> QED  BY <1>0, <1>1, <2>1, <2>2, Arrives DEF ComesTo, Stands
<1>2. CASE TakeTable(r) /\ LocalPeers(r) = {}
  <2>1. /\ stage[r] = "table" /\ stage'[r] = "dial" /\ session' = session
        /\ meeting' = meeting
    BY <1>0, <1>2 DEF TakeTable
  <2> QED  BY <1>2, <2>1 DEF ComesAlone, Stands
<1>3. CASE Meet(r) \/ CannotReachCard(r)
  <2>1. /\ stage[r] = "meet" /\ stage'[r] \in {"dial", "closed"} /\ session' = session
        /\ AllCame(r) /\ TakeTheTable(r)
    BY <1>0, <1>3 DEF Meet, CannotReachCard, Close
  <2>2. Run(r) \in Runs
    BY <1>0, <2>1 DEF InSession
  <2> QED  BY <1>0, <2>1, <2>2, Takings DEF Took, Stands
<1>4. CASE GiveUp(r)
  <2>1. /\ stage[r] = "meet" /\ stage'[r] = "closed" /\ session' = session
        /\ ~AllCame(r) /\ meeting' = [meeting EXCEPT ![Run(r)].ranks = @ \ {r}]
    BY <1>0, <1>4 DEF GiveUp, Close
  <2>2. Run(r) \in Runs
    BY <1>0, <2>1 DEF InSession
  <2> QED  BY <1>0, <2>1, <2>2, Leaves DEF LeftIt, Stands
<1>5. CASE CannotDial(r) \/ PeerGone(r) \/ Unexpected(r) \/ LeaderGone(r) \/ Fail(r)
  <2>1. stage'[r] = "closed" /\ stage[r] # "meet" /\ meeting' = meeting
    BY <1>0, <1>5
    DEF CannotDial, PeerGone, Unexpected, LeaderGone, Fail, Close, InSession
  <2> QED  BY <2>1 DEF Elsewhere, HasMet
<1>6. CASE TakeOpen(r)
  <2>1. stage[r] = "ready" /\ stage'[r] = "links" /\ meeting' = meeting
    BY <1>0, <1>6 DEF TakeOpen
  <2> QED  BY <2>1 DEF Elsewhere, HasMet
<1>7. CASE TakeLinks(r)
  <2>1. stage[r] = "links" /\ stage'[r] = "table" /\ meeting' = meeting
    BY <1>0, <1>7 DEF TakeLinks
  <2> QED  BY <2>1 DEF Elsewhere, HasMet
<1>8. CASE Accept(r) \/ Dial(r)
  <2>1. stage[r] = "dial" /\ stage' = stage /\ meeting' = meeting /\ session' = session
    BY <1>8 DEF Accept, Dial, TakesCalls
  <2> QED  BY <2>1 DEF Elsewhere, HasMet
<1>9. CASE Serve(r)
  <2>1. /\ stage[r] = "dial" /\ stage'[r] = "serving" /\ meeting' = meeting
        /\ session' = session
    BY <1>0, <1>9 DEF Serve, rendezvous
  <2> QED  BY <2>1 DEF Elsewhere, HasMet
<1>10. CASE TakeStep(r)
  <2>1. /\ stage[r] = "serving" /\ stage'[r] = "sharing" /\ meeting' = meeting
        /\ session' = session
    BY <1>0, <1>10 DEF TakeStep, rendezvous
  <2> QED  BY <2>1 DEF Elsewhere, HasMet
<1>11. CASE FinishStep(r)
  <2>1. /\ stage[r] = "sharing" /\ stage'[r] = "serving" /\ meeting' = meeting
        /\ session' = session
    BY <1>0, <1>11 DEF FinishStep, rendezvous
  <2> QED  BY <2>1 DEF Elsewhere, HasMet
<1>12. CASE TakeClose(r)
  <2>1. stage[r] = "serving" /\ stage'[r] = "ready" /\ meeting' = meeting
    BY <1>0, <1>12 DEF TakeClose, rendezvous
  <2> QED  BY <2>1 DEF Elsewhere, HasMet
<1> QED  BY <1>1, <1>2, <1>3, <1>4, <1>5, <1>6, <1>7, <1>8, <1>9, <1>10, <1>11, <1>12
         DEF RankStep

(* Who came to a meeting stays on it, or goes to a later session. *)
LEMMA CameStays ==
    ASSUME TypesHold, TypesHold', NEW r \in Ranks, Moves(r), Orderly(r), InTurn(r),
           Stands(r) \/ Elsewhere(r), NEW run \in Runs, Arrived(run)
    PROVE  Arrived(run)'
<1>1. run[1] \subseteq Ranks /\ run[2] \in Int
  BY RunIs
<1>2. ASSUME NEW p \in run[1]
      PROVE  session'[p] > run[2] \/ (session'[p] = run[2] /\ stage'[p] \notin {"links", "table"})
  <2>0. p \in Ranks /\ Came(p, run[2])
    BY <1>1 DEF Arrived
  <2>1. /\ p \in Ranks /\ session[p] \in Int /\ session'[p] \in Int
        /\ session[p] > run[2] \/ (session[p] = run[2] /\ stage[p] \notin {"links", "table"})
    <3>1. session \in [Ranks -> 0 .. Phases] /\ session' \in [Ranks -> 0 .. Phases]
      BY DEF TypesHold
    <3>2. session[p] \in Int /\ session'[p] \in Int
      BY <2>0, <3>1, RendezvousAssumption
    <3> QED  BY <2>0, <3>2 DEF Came
  <2>2. CASE p # r
    BY <2>1, <2>2 DEF Moves
  <2>3. CASE p = r
    <3>1. /\ session'[r] >= session[r]
          /\ session'[r] = session[r] /\ stage[r] # "links" => stage'[r] # "links"
      BY MovesInTurn
    <3>2. stage'[r] = "table" => stage[r] = "links"
      BY DEF Stands, Elsewhere
    <3> QED  BY <1>1, <2>1, <2>3, <3>1, <3>2
  <2> QED  BY <2>2, <2>3
<1> QED  BY <1>2 DEF Arrived, Came

LEMMA Unaffected ==
    ASSUME NEW run \in Runs, Gathered(run), Waiting(run)' = Waiting(run),
           meeting'[run] = meeting[run], Met(run)' => Met(run), Arrived(run) => Arrived(run)'
    PROVE  Gathered(run)'
  BY DEF Gathered

(* A gathering has to do with the ranks of its run alone. *)
LEMMA Apart ==
    ASSUME TypesHold, TypesHold', NEW r \in Ranks, Moves(r), Orderly(r), InTurn(r),
           NEW run \in Runs, Gathered(run), Stands(r), Run(r) # run, meeting'[run] = meeting[run]
    PROVE  Gathered(run)'
<1>1. run[1] \subseteq Ranks /\ ~(r \in run[1] /\ session[r] = run[2])
  BY RunIs
<1>2. \A p \in run[1] : session'[p] = run[2] => p # r /\ session[p] = run[2] /\ stage'[p] = stage[p]
  BY <1>1 DEF Moves, Stands
<1>3. \A p \in run[1] : session[p] = run[2] => session'[p] = run[2] /\ stage'[p] = stage[p]
  BY <1>1 DEF Moves, Stands
<1>4. Waiting(run)' = Waiting(run)
  BY <1>2, <1>3 DEF Waiting
<1>5. Met(run)' => Met(run)
  BY <1>2 DEF Met
<1>6. Arrived(run) => Arrived(run)'
  BY CameStays
<1> QED  BY <1>4, <1>5, <1>6, Unaffected

LEMMA ElsewhereGathers ==
    ASSUME TypesHold, TypesHold', NEW r \in Ranks, Moves(r), Orderly(r), InTurn(r),
           NEW run \in Runs, Gathered(run), Elsewhere(r)
    PROVE  Gathered(run)'
<1>1. run[1] \subseteq Ranks
  BY RunIs
<1>2. /\ \A p \in run[1] : p # r => session'[p] = session[p] /\ stage'[p] = stage[p]
      /\ stage[r] # "meet" /\ stage'[r] # "meet" /\ meeting'[run] = meeting[run]
      /\ stage'[r] \in HasMet => stage[r] \in HasMet /\ session'[r] = session[r]
  BY <1>1 DEF Moves, Elsewhere
<1>3. Waiting(run)' = Waiting(run)
  <2>1. \A p \in run[1] : (stage'[p] = "meet" /\ session'[p] = run[2])
                             <=> (stage[p] = "meet" /\ session[p] = run[2])
    BY <1>2
  <2> QED  BY <2>1 DEF Waiting
<1>4. Met(run)' => Met(run)
  <2>1. \A p \in run[1] : stage'[p] \in HasMet => stage[p] \in HasMet /\ session'[p] = session[p]
    BY <1>2
  <2> QED  BY <2>1 DEF Met
<1>5. Arrived(run) => Arrived(run)'
  BY CameStays
<1> QED  BY <1>2, <1>3, <1>4, <1>5, Unaffected

LEMMA ComesGathers ==
    ASSUME TypesHold, TypesHold', NEW r \in Ranks, Moves(r), Orderly(r), InTurn(r),
           NEW run \in Runs, Gathered(run), ComesTo(r)
    PROVE  Gathered(run)'
<1>1. CASE Run(r) # run
  BY <1>1, Apart DEF ComesTo
<1>2. CASE Run(r) = run
  <2>1. /\ r \in run[1] /\ session[r] = run[2] /\ run[1] \subseteq Ranks
        /\ run[1] = Process(r) /\ run[2] \in Int
    BY <1>2, RunIs
  <2>2. /\ stage[r] = "table" /\ stage'[r] = "meet" /\ LocalPeers(r) # {}
        /\ session'[r] = session[r]
        /\ meeting'[run].ranks = meeting[run].ranks \cup {r}
        /\ meeting'[run].taken = meeting[run].taken
    BY <1>2 DEF ComesTo, Stands
  <2>3. \A p \in run[1] : p # r => session'[p] = session[p] /\ stage'[p] = stage[p]
    BY <2>1 DEF Moves
  <2>4. ~Arrived(run)
    BY <2>1, <2>2 DEF Arrived, Came
  <2>5. meeting[run].taken = 0 /\ ~Met(run)
    BY <2>4 DEF Gathered
  <2>6. meeting[run].ranks = Waiting(run) /\ meeting[run].ranks \subseteq run[1]
    BY <2>5 DEF Gathered
  <2>7. Waiting(run)' = Waiting(run) \cup {r}
    BY <2>1, <2>2, <2>3 DEF Waiting
  <2>8. ~Met(run)'
    BY <2>2, <2>3, <2>5 DEF Met, HasMet
  <2>9. Cardinality(run[1]) # 1
    BY <2>1, <2>2, ProcessCount
  <2> QED  BY <2>1, <2>2, <2>5, <2>6, <2>7, <2>8, <2>9 DEF Gathered
<1> QED  BY <1>1, <1>2

LEMMA AloneGathers ==
    ASSUME TypesHold, TypesHold', NEW r \in Ranks, Moves(r), Orderly(r), InTurn(r),
           NEW run \in Runs, Gathered(run), ComesAlone(r)
    PROVE  Gathered(run)'
<1>1. CASE Run(r) # run
  BY <1>1, Apart DEF ComesAlone
<1>2. CASE Run(r) = run
  <2>1. /\ r \in run[1] /\ session[r] = run[2] /\ run[1] = {r} /\ run[2] \in Int
    BY <1>2, RunIs, ProcessCount DEF ComesAlone
  <2>2. /\ stage[r] = "table" /\ stage'[r] = "dial" /\ session'[r] = session[r]
        /\ meeting'[run] = meeting[run]
    BY DEF ComesAlone, Stands
  <2>3. ~Arrived(run)
    BY <2>1, <2>2 DEF Arrived, Came
  <2>4. meeting[run].taken = 0 /\ meeting[run].ranks = Waiting(run)
    BY <2>3 DEF Gathered
  <2>5. Waiting(run) = {} /\ Waiting(run)' = {}
    BY <2>1, <2>2 DEF Waiting
  <2>6. Arrived(run)'
    BY <2>1, <2>2 DEF Arrived, Came
  <2> QED  BY <2>1, <2>2, <2>4, <2>5, <2>6 DEF Gathered
<1> QED  BY <1>1, <1>2

LEMMA LeftGathers ==
    ASSUME TypesHold, TypesHold', NEW r \in Ranks, Moves(r), Orderly(r), InTurn(r),
           NEW run \in Runs, Gathered(run), LeftIt(r)
    PROVE  Gathered(run)'
<1>1. CASE Run(r) # run
  BY <1>1, Apart DEF LeftIt
<1>2. CASE Run(r) = run
  <2>1. /\ r \in run[1] /\ session[r] = run[2] /\ run[1] \subseteq Ranks
        /\ run[1] = Process(r) /\ run[2] \in Int
    BY <1>2, RunIs
  <2>2. /\ stage[r] = "meet" /\ stage'[r] = "closed"
        /\ session'[r] = session[r]
        /\ meeting'[run].ranks = meeting[run].ranks \ {r}
        /\ meeting'[run].taken = meeting[run].taken
        /\ ~(Cardinality(meeting[run].ranks) >= Count(r))
    BY <1>2 DEF LeftIt, Stands, AllCame
  <2>3. \A p \in run[1] : p # r => session'[p] = session[p] /\ stage'[p] = stage[p]
    BY <2>1 DEF Moves
  <2>4. meeting[run].taken = 0
    <3>1. Cardinality(run[1]) = Count(r) /\ Count(r) \in Nat  BY <2>1, ProcessCount
    <3>2. meeting[run].taken # 0 => meeting[run].ranks = run[1]  BY DEF Gathered
    <3> QED  BY <2>2, <3>1, <3>2
  <2>5. meeting[run].ranks = Waiting(run) /\ meeting[run].ranks \subseteq run[1]
    BY <2>4 DEF Gathered
  <2>6. r \in Waiting(run) /\ Waiting(run)' = Waiting(run) \ {r}
    BY <2>1, <2>2, <2>3 DEF Waiting
  <2>7. ~Met(run)
    BY <2>4, <2>6 DEF Gathered
  <2>8. ~Met(run)'
    BY <2>2, <2>3, <2>7 DEF Met, HasMet
  <2>9. Cardinality(run[1]) # 1
    BY <2>6 DEF Gathered
  <2> QED  BY <2>1, <2>2, <2>4, <2>5, <2>6, <2>8, <2>9 DEF Gathered
<1> QED  BY <1>1, <1>2

LEMMA TookGathers ==
    ASSUME TypesHold, TypesHold', NEW r \in Ranks, Moves(r), Orderly(r), InTurn(r),
           NEW run \in Runs, Gathered(run), Took(r)
    PROVE  Gathered(run)'
<1>1. CASE Run(r) # run
  BY <1>1, Apart DEF Took
<1>2. CASE Run(r) = run
  <2>1. /\ r \in run[1] /\ session[r] = run[2] /\ run[1] \subseteq Ranks
        /\ run[1] = Process(r) /\ run[2] \in Int /\ IsFiniteSet(run[1])
    BY <1>2, RunIs
  <2>2. /\ stage[r] = "meet" /\ stage'[r] \in {"dial", "closed"} /\ session'[r] = session[r]
        /\ Cardinality(meeting[run].ranks) >= Count(r)
        /\ meeting[run].taken + 1 = Count(r) =>
             meeting'[run].ranks = {} /\ meeting'[run].taken = 0
        /\ meeting[run].taken + 1 # Count(r) =>
             /\ meeting'[run].ranks = meeting[run].ranks
             /\ meeting'[run].taken = meeting[run].taken + 1
    BY <1>2 DEF Took, Stands, AllCame
  <2>3. \A p \in run[1] : p # r => session'[p] = session[p] /\ stage'[p] = stage[p]
    BY <2>1 DEF Moves
  <2>4. Cardinality(run[1]) = Count(r) /\ Count(r) \in Nat /\ Count(r) >= 1
    BY <2>1, ProcessCount
  <2>5. meeting[run].ranks = run[1]
    <3>1. meeting[run].ranks \subseteq run[1]  BY DEF Gathered
    <3> DEFINE came == meeting[run].ranks
    <3> DEFINE all == run[1]
    <3>2. IsFiniteSet(all) /\ came \in SUBSET all  BY <2>1, <3>1
    <3> HIDE DEF came, all
    <3>3. /\ IsFiniteSet(came) /\ Cardinality(came) <= Cardinality(all)
          /\ Cardinality(came) = Cardinality(all) => came = all
      BY <3>2, FS_Subset
    <3>4. Cardinality(came) \in Nat /\ Cardinality(all) \in Nat
      BY <3>2, <3>3, FS_CardinalityType
    <3>5. Cardinality(came) >= Cardinality(all)  BY <2>2, <2>4 DEF came, all
    <3>6. came = all  BY <3>3, <3>4, <3>5
    <3> QED  BY <3>6 DEF came, all
  <2>6. meeting[run].taken \in Nat
    BY DEF TypesHold
  <2>7. r \in Waiting(run) /\ Waiting(run)' = Waiting(run) \ {r} /\ Waiting(run) \subseteq run[1]
    BY <2>1, <2>2, <2>3 DEF Waiting
  <2>8. Cardinality(Waiting(run)) = Count(r) - meeting[run].taken
    BY <2>4, <2>5, <2>6 DEF Gathered
  <2>9. IsFiniteSet(Waiting(run)) /\ Cardinality(Waiting(run)') = Cardinality(Waiting(run)) - 1
        /\ IsFiniteSet(Waiting(run)')
    BY <2>1, <2>7, FS_Subset, FS_RemoveElement
  <2>10. Arrived(run)
    <3>1. CASE meeting[run].taken = 0
      <4>1. Waiting(run) = run[1]  BY <2>5, <3>1 DEF Gathered
      <4> QED  BY <4>1 DEF Waiting, Arrived, Came
    <3>2. CASE meeting[run].taken # 0
      BY <3>2 DEF Gathered
    <3> QED  BY <3>1, <3>2
  <2>11. Arrived(run)'
    BY <2>10, CameStays DEF Took
  <2>12. Cardinality(run[1]) # 1
    BY <2>7 DEF Gathered
  <2>13. CASE meeting[run].taken + 1 = Count(r)
    <3>1. Cardinality(Waiting(run)') = 0
      BY <2>4, <2>6, <2>8, <2>9, <2>13
    <3>2. Waiting(run)' = {}
      BY <2>9, <3>1, FS_EmptySet
    <3> QED  BY <2>2, <2>11, <2>12, <2>13, <3>2 DEF Gathered
  <2>14. CASE meeting[run].taken + 1 # Count(r)
    <3>1. /\ meeting'[run].ranks = run[1] /\ meeting'[run].taken = meeting[run].taken + 1
          /\ meeting'[run].taken # 0
      BY <2>2, <2>5, <2>6, <2>14
    <3>2. Cardinality(Waiting(run)') = Cardinality(run[1]) - meeting'[run].taken
      BY <2>4, <2>6, <2>8, <2>9, <3>1
    <3>3. Waiting(run)' # {}
      <4>1. Cardinality(Waiting(run)') # 0  
        <5>1. Cardinality(Waiting(run)) \in Nat /\ Cardinality(Waiting(run)') \in Nat
          BY <2>9, FS_CardinalityType
        <5> QED  BY <2>4, <2>6, <2>8, <2>9, <2>14, <5>1
      <4> QED  BY <2>9, <4>1, FS_EmptySet
    <3> QED  BY <2>11, <2>12, <3>1, <3>2, <3>3 DEF Gathered
  <2> QED  BY <2>13, <2>14
<1> QED  BY <1>1, <1>2

-------------------------------------------------------------------------------

LEMMA InitGathered ==
    ASSUME Init, NEW run \in Runs
    PROVE  Gathered(run)
<1>1. meeting[run].ranks = {} /\ meeting[run].taken = 0
  BY DEF Init, NoMeeting
<1>2. run[1] \subseteq Ranks /\ \A r \in Ranks : stage[r] = "ready"
  BY RunIs, RendezvousAssumption DEF Init, Ranks
<1>3. Waiting(run) = {} /\ ~Met(run)
  BY <1>2 DEF Waiting, Met, HasMet
<1> QED  BY <1>1, <1>3 DEF Gathered

(* A step that leaves the ranks' places and the table of meetings alone. *)
LEMMA StillGathered ==
    ASSUME NEW run \in Runs, Gathered(run), UNCHANGED <<stage, session, meeting>>
    PROVE  Gathered(run)'
<1>1. stage' = stage /\ session' = session /\ meeting' = meeting
  OBVIOUS
<1>2. Waiting(run)' = Waiting(run) /\ Met(run)' = Met(run) /\ Arrived(run)' = Arrived(run)
  BY <1>1 DEF Waiting, Met, Arrived, Came
<1> QED  BY <1>1, <1>2, Unaffected

LEMMA RankGathered ==
    ASSUME SInv, NEW r \in Ranks, RankStep(r) \/ Fail(r) \/ CannotReachCard(r),
           NEW run \in Runs, Gathered(run)
    PROVE  Gathered(run)'
<1>1. TypesHold /\ Orderly(r) /\ InTurn(r)
  BY DEF SInv
<1>2. Moves(r) /\ TypesHold'
  BY <1>1, RanksMove
<1>3. ComesTo(r) \/ ComesAlone(r) \/ Took(r) \/ LeftIt(r) \/ Elsewhere(r)
  BY <1>1, RankGathers
<1>4. CASE ComesTo(r)  BY <1>1, <1>2, <1>4, ComesGathers
<1>5. CASE ComesAlone(r)  BY <1>1, <1>2, <1>5, AloneGathers
<1>6. CASE Took(r)  BY <1>1, <1>2, <1>6, TookGathers
<1>7. CASE LeftIt(r)  BY <1>1, <1>2, <1>7, LeftGathers
<1>8. CASE Elsewhere(r)  BY <1>1, <1>2, <1>8, ElsewhereGathers
<1> QED  BY <1>3, <1>4, <1>5, <1>6, <1>7, <1>8

LEMMA NextIInv ==
    ASSUME IInv, [Next]_vars
    PROVE  IInv'
<1>1. SInv'
  BY NextSInv DEF IInv
<1>2. ASSUME NEW run \in Runs' PROVE Gathered(run)'
  <2>1. run \in Runs /\ Gathered(run) /\ SInv
    BY <1>2 DEF IInv, Runs, Process, LocalPeers, Ranks
  <2>2. CASE LeaderStep \/ LeaderStops
    <3>1. Leads
      BY <2>1, <2>2, LeaderInvs DEF SInv
    <3>2. UNCHANGED <<stage, session, meeting>>
      BY <3>1 DEF Leads, rendezvous
    <3> QED  BY <2>1, <3>2, StillGathered
  <2>3. CASE \E r \in Ranks : RankStep(r) \/ Fail(r) \/ CannotReachCard(r)
    BY <2>1, <2>3, RankGathered
  <2>4. CASE UNCHANGED vars
    <3>1. UNCHANGED <<stage, session, meeting>>
      BY <2>4 DEF vars, rendezvous
    <3> QED  BY <2>1, <3>1, StillGathered
  <2> QED  BY <2>2, <2>3, <2>4 DEF Next
<1> QED  BY <1>1, <1>2 DEF IInv

LEMMA AllOrNone == IInv => MeetAllOrNone
<1> SUFFICES ASSUME IInv PROVE MeetAllOrNone
  OBVIOUS
<1>0. TypesHold
  BY DEF IInv, SInv
<1>1. ASSUME NEW r \in Ranks, NEW p \in LocalPeers(r),
             stage[r] = "meet", stage[p] \in {"dial", "serving", "sharing"},
             session[r] = session[p]
      PROVE  AllCame(r)
  <2> DEFINE run == Run(r)
  <2>1. run \in Runs /\ run[1] = Process(r) /\ run[2] = session[r]
    BY <1>0, <1>1, ItsRun DEF InSession, Run
  <2>2. p \in Process(r) /\ r \in Process(r)
    BY DEF Process
  <2>3. r \in Waiting(run) /\ Met(run)
    BY <1>1, <2>1, <2>2 DEF Waiting, Met, HasMet
  <2>4. meeting[run].ranks = Process(r)
    BY <2>1, <2>3 DEF IInv, Gathered
  <2>5. Cardinality(Process(r)) = Count(r) /\ Count(r) \in Nat
    BY ProcessCount
  <2> QED  BY <2>4, <2>5 DEF AllCame
<1>2. ASSUME NEW run \in Runs, meeting[run] # NoMeeting
      PROVE  \E r \in Ranks : stage[r] = "meet" /\ Run(r) = run
  <2>1. Waiting(run) # {}
    <3>1. meeting[run] \in [ranks : SUBSET Ranks, taken : Nat]
      BY <1>0 DEF TypesHold
    <3>2. ~(meeting[run].ranks = {} /\ meeting[run].taken = 0)
      BY <1>2, <3>1 DEF NoMeeting
    <3> QED  BY <3>2 DEF IInv, Gathered
  <2>2. PICK r \in run[1] : stage[r] = "meet" /\ session[r] = run[2]
    BY <2>1 DEF Waiting
  <2>3. r \in Ranks
    BY <2>2, RunIs, RendezvousAssumption DEF Runs, Process, LocalPeers
  <2>4. Run(r) = run
    BY <2>2, <2>3, RunIs
  <2> QED  BY <2>2, <2>3, <2>4
<1> QED  BY <1>1, <1>2 DEF MeetAllOrNone

(* Whoever gives up, and however long after, the ranks of a process take the  *)
(* whole table of their run or none of them does, and a gathering is gone     *)
(* when nobody waits for it.                                                  *)
THEOREM MeetsAsAWhole == Spec => []MeetAllOrNone
<1>1. Init => IInv
  BY InitSInv, InitGathered DEF IInv
<1>2. IInv /\ [Next]_vars => IInv'
  BY NextIInv
<1>3. IInv => MeetAllOrNone
  BY AllOrNone
<1> QED  BY <1>1, <1>2, <1>3, PTL DEF Spec
===============================================================================
