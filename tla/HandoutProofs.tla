----------------------------- MODULE HandoutProofs -----------------------------
(***************************************************************************)
(* Theorems about Handout, for any number of chunks and workers, however   *)
(* their canvases come, and however often the leader's memory runs out.    *)
(*                                                                         *)
(* The invariant says of each ask which of the few messages that may be on *)
(* its connection are there (Sound), of each hand-out that what came is    *)
(* right (Tidy), that while nothing failed a chunk that was handed out is  *)
(* on its way, has arrived or is not asked for again (NoneLost), and of    *)
(* the walk how far the video goes (Walks).  That a hand-out leaves no     *)
(* chunk out rests on what Cuts and InOrder compute, which is shown from   *)
(* their recursive definitions with a least counterexample.                *)
(***************************************************************************)
EXTENDS Handout, FiniteSetTheorems, WellFoundedInduction, TLAPS

-------------------------------------------------------------------------------
(* Where things may stand.                                                   *)

(* The canvases t's session left on the card. *)
Lies(t) == {id \in handed : id.by = t}
Left(t) == [by |-> t, chunk |-> Head(threads[t].mine)]

(* All of the connection but what the session has still to be told. *)
Still(t) == lines[t].back = <<>> /\ Lies(t) = {}

(* The session has been told what it waits for, or the word is under way. *)
InStep(t) ==
    \/ lines[t].out = <<>> /\ sessions[t].at = "ready"
    \/ /\ Len(lines[t].out) = 1 /\ lines[t].out[1].kind = "release"
       /\ sessions[t].at = "held"

Idle(t) == Still(t) /\ (lines[t].up => InStep(t))

Decode(t, m) ==
    /\ m.kind = "decode" /\ m.request = threads[t].request /\ m.chunk = Head(threads[t].mine)

Asking(t) ==
    /\ Still(t)
    /\ \/ Len(lines[t].out) = 1 /\ Decode(t, lines[t].out[1]) /\ sessions[t].at = "ready"
       \/ /\ Len(lines[t].out) = 2 /\ lines[t].out[1].kind = "release"
          /\ Decode(t, lines[t].out[2]) /\ sessions[t].at = "held"

Answered(t) ==
    LET reply == lines[t].back[1]
        c == Head(threads[t].mine)
    IN /\ lines[t].out = <<>> /\ Len(lines[t].back) = 1
       /\ reply.request = threads[t].request
       /\ \/ reply.kind = "error" /\ faults # {} /\ sessions[t].at = "ready" /\ Lies(t) = {}
          \/ /\ reply.kind = "sent" /\ reply.canvas = c
             /\ sessions[t].at = "ready" /\ Lies(t) = {}
          \/ /\ reply.kind = "pointed" /\ ("leader" \in lines[t].joined \/ faults # {})
             /\ sessions[t].at = "held" /\ sessions[t].staging = c /\ Lies(t) = {}
          \/ /\ reply.kind = "handed" /\ reply.canvas = c /\ Paths[t[2]] = "card"
             /\ sessions[t].at = "ready" /\ Lies(t) = {Left(t)}

Waiting(t) == (lines[t].up => Asking(t) \/ Answered(t)) /\ (~lines[t].up => Still(t))

Reading(t) ==
    /\ Still(t)
    /\ lines[t].up => /\ lines[t].out = <<>> /\ sessions[t].at = "held"
                      /\ sessions[t].staging = Head(threads[t].mine)

(* What is said of a chunk that did not come is that something failed. *)
Telling(t) ==
    /\ Still(t)
    /\ threads[t].ok => threads[t].canvas = Head(threads[t].mine) /\ (lines[t].up => InStep(t))
    /\ ~threads[t].ok => faults # {} /\ (lines[t].up => lines[t].out = <<>> \/ InStep(t))

Over(t) ==
    /\ Still(t) /\ ~lines[t].open /\ threads[t].mine = <<>>
    /\ lines[t].up => lines[t].out = <<>> \/ InStep(t)

(* An ask stands where the protocol left it. *)
Sound(t) ==
    /\ lines[t].up <=> sessions[t].at # "over"
    /\ ~lines[t].up => lines[t].out = <<>> /\ (threads[t].at # "over" => faults # {})
    /\ "worker" \in lines[t].joined => "leader" \in lines[t].joined \/ faults # {}
    /\ threads[t].at # "over" => lines[t].open /\ threads[t].mine # <<>>
    /\ threads[t].at = "idle" => Idle(t)
    /\ threads[t].at = "waiting" => Waiting(t)
    /\ threads[t].at = "reading" => Reading(t)
    /\ threads[t].at = "tell" => Telling(t)
    /\ threads[t].at = "over" => Over(t)

(* What came of a hand-out. *)
Tidy(h) ==
    /\ hands[h].listening \/ hands[h].delegated = {}
    /\ \A i \in 1 .. Len(hands[h].channel) :
         LET came == hands[h].channel[i]
         IN came.ok => came.canvas = came.chunk
    /\ \A i \in 1 .. Len(hands[h].channel) : ~hands[h].channel[i].ok => faults # {}
    /\ \A c \in Chunks : hands[h].arrived[c] \in {NoCanvas, c}

(* The chunk is on its way to the leader. *)
Coming(h, c) ==
    \/ \E w \in Workers : c \in Members(threads[<<h, w>>].mine)
    \/ \E i \in 1 .. Len(hands[h].channel) : hands[h].channel[i].chunk = c
    \/ hands[h].arrived[c] # NoCanvas

(* The walk took it and will not ask this hand-out for it again. *)
Spent(h, c) ==
    c \in taken /\ (HandOf(c) # h \/ (leader.at = "walk" /\ c < leader.chunk))

NoneLost == faults = {} => \A h \in Outs : \A c \in hands[h].delegated : Coming(h, c) \/ Spent(h, c)

Unborn(h) == h > leader.outs + 1 \/ leader.at = "starting"

Walks ==
    /\ \A i \in 1 .. Len(video) : video[i] = i - 1
    /\ leader.at = "walk" => Len(video) = leader.chunk
    /\ leader.at = "done" => Len(video) = N
    /\ leader.at = "failed" => faults # {}
    /\ leader.at = "starting" => leader.outs = 0 /\ taken = {}
    /\ Workers = {} => \A h \in Outs : hands[h].delegated = {}
    /\ \A h \in Outs : Unborn(h) =>
         /\ \A w \in Workers : threads[<<h, w>>].at = "over"
         /\ hands[h].delegated = {} /\ ~hands[h].listening

Requests == [kind : {"decode", "release"}, request : Int, chunk : Int]
Replies == [kind : {"error", "handed", "pointed", "sent"}, request : Int, canvas : Int]
Results == [chunk : Chunks, ok : BOOLEAN, canvas : Int]

Leaders == [at : {"starting", "begin", "walk", "room", "done", "failed"}, chunk : 0 .. N,
            outs : 0 .. Tries]
Hands == [delegated : SUBSET Chunks, channel : Seq(Results), arrived : [Chunks -> Int],
          listening : BOOLEAN]
Threads == [at : {"idle", "waiting", "reading", "tell", "over"}, mine : Seq(Chunks),
            request : Int, canvas : Int, ok : BOOLEAN]
Lines == [up : BOOLEAN, open : BOOLEAN, joined : SUBSET Ends, out : Seq(Requests),
          back : Seq(Replies)]
Sessions == [at : {"ready", "held", "over"}, staging : Int]

Types ==
    /\ leader \in Leaders /\ video \in Seq(Int) /\ taken \subseteq Chunks
    /\ hands \in [Outs -> Hands]
    /\ threads \in [Asks -> Threads]
    /\ lines \in [Asks -> Lines]
    /\ sessions \in [Asks -> Sessions]
-------------------------------------------------------------------------------
(* What is defined from the value before is defined.                         *)

LEMMA LeastNat ==
    ASSUME NEW T, T \subseteq Nat, T # {}
    PROVE  \E n \in T : \A m \in T : n <= m
<1>1. PICK n \in T : \A m \in T : ~ (<<m, n>> \in OpToRel(<, Nat))
  BY NatLessThanWellFounded, WFMin
<1>2. \A m \in T : ~(m < n)
  BY <1>1 DEF OpToRel
<1> QED  BY <1>2

(* f starts at a and goes from each value to the next by g. *)
Iterates(f, n, V, a, g) ==
    /\ f \in [0 .. n -> V]
    /\ f[0] = a
    /\ \A i \in 1 .. n : f[i] = g[i][f[i - 1]]

LEMMA Recursion ==
    ASSUME NEW n \in Nat, NEW V, NEW a \in V, NEW g \in [1 .. n -> [V -> V]]
    PROVE  \E f : Iterates(f, n, V, a, g)
<1> DEFINE Solves(f, k) ==
             f \in [0 .. k -> V] /\ f[0] = a /\ \A i \in 1 .. k : f[i] = g[i][f[i - 1]]
           T == {k \in 0 .. n : ~ \E f : Solves(f, k)}
<1>1. ASSUME T # {} PROVE FALSE
  <2>1. PICK k \in T : \A m \in T : k <= m
    <3>1. T \subseteq Nat  OBVIOUS
    <3> HIDE DEF T
    <3> QED  BY <1>1, <3>1, LeastNat
  <2>2. k \in 0 .. n /\ ~ \E f : Solves(f, k)
    OBVIOUS
  <2>3. k # 0
    <3>1. Solves([i \in 0 .. 0 |-> a], 0)
      OBVIOUS
    <3> QED  BY <2>2, <3>1
  <2>4. k - 1 \in 0 .. n /\ k - 1 \notin T
    <3>1. k - 1 \in 0 .. n /\ ~(k <= k - 1)  BY <2>2, <2>3
    <3> HIDE DEF T
    <3> QED  BY <2>1, <3>1
  <2>5. PICK f : Solves(f, k - 1)
    BY <2>4
  <2> DEFINE h == [i \in 0 .. k |-> IF i = k THEN g[k][f[k - 1]] ELSE f[i]]
  <2>6. h \in [0 .. k -> V]
    <3>1. f \in [0 .. k - 1 -> V] /\ k \in 1 .. n  BY <2>2, <2>3, <2>5
    <3>2. f[k - 1] \in V /\ g[k] \in [V -> V]  BY <2>4, <3>1
    <3>3. ASSUME NEW i \in 0 .. k PROVE h[i] \in V
      BY <3>1, <3>2
    <3> QED  BY <3>3
  <2>7. h[0] = a
    BY <2>2, <2>3, <2>5
  <2>8. ASSUME NEW i \in 1 .. k PROVE h[i] = g[i][h[i - 1]]
    <3>1. CASE i = k
      <4>1. i # 0 /\ i - 1 # k /\ k - 1 \in 0 .. k  BY <2>2, <2>8, <3>1
      <4> QED  BY <3>1, <4>1
    <3>2. CASE i # k
      <4>1. i \in 1 .. k - 1 /\ i \in 0 .. k /\ i - 1 \in 0 .. k /\ i - 1 # k
        BY <2>2, <2>8, <3>2
      <4>2. h[i] = f[i] /\ h[i - 1] = f[i - 1]  BY <3>2, <4>1
      <4> QED  BY <2>5, <4>1, <4>2
    <3> QED  BY <3>1, <3>2
  <2>9. Solves(h, k)
    <3> HIDE DEF h
    <3> QED  BY <2>6, <2>7, <2>8
  <2> QED  BY <2>2, <2>9
<1>2. T = {} /\ n \in 0 .. n
  BY <1>1
<1>3. PICK f : Solves(f, n)
  BY <1>2
<1> QED  BY <1>3 DEF Iterates

-------------------------------------------------------------------------------
(* How the chunks are shared out.                                            *)

LEMMA DivUps ==
    ASSUME NEW a \in Nat, NEW b \in Nat \ {0}
    PROVE  DivUp(a, b) \in 0 .. a /\ (b = 1 => DivUp(a, b) = a)
<1> DEFINE q == (a + b - 1) \div b
<1>1. q \in Int /\ b * q <= a + b - 1 /\ a + b - 1 < b * q + b
  OBVIOUS
<1>2. q >= 0
  OBVIOUS
<1>3. q <= a
  <2>1. CASE a = 0
    OBVIOUS
  <2>2. CASE a >= 1
    <3> SUFFICES ASSUME q > a PROVE FALSE
      BY <1>1
    <3> HIDE DEF q
    <3>0. q \in Int /\ q >= a + 1  BY <1>1
    <3>1. b * q >= b * (a + 1)
      BY <3>0, SMTT(20)
    <3>2. b * (a + 1) = a * b + b /\ a * b >= a
      BY <2>2
    <3> QED  BY <1>1, <3>1, <3>2
  <2> QED  BY <2>1, <2>2
<1>4. b = 1 => q = a
  OBVIOUS
<1> QED  BY <1>1, <1>2, <1>3, <1>4 DEF DivUp

LEMMA CutsAre ==
    ASSUME NEW length \in Nat, NEW count \in Nat \ {0}
    PROVE  LET first == Cuts(length, count)
           IN /\ first \in [0 .. count -> 0 .. length]
              /\ first[0] = 0 /\ first[count] = length
              /\ \A i \in 1 .. count : first[i - 1] <= first[i]
<1> DEFINE V == 0 .. length
           Step(i, x) == x + DivUp(length - x, count - (i - 1))
           g == [i \in 1 .. count |-> [x \in V |-> Step(i, x)]]
           IsCuts(f) == f = [i \in 0 .. count |-> IF i = 0 THEN 0 ELSE Step(i, f[i - 1])]
<1>1. ASSUME NEW i \in 1 .. count, NEW x \in V
      PROVE  Step(i, x) \in V /\ x <= Step(i, x) /\ (i = count => Step(i, x) = length)
  <2>1. length - x \in Nat /\ count - (i - 1) \in Nat \ {0} /\ (i = count => count - (i - 1) = 1)
    BY <1>1
  <2>2. /\ DivUp(length - x, count - (i - 1)) \in 0 .. length - x
        /\ i = count => DivUp(length - x, count - (i - 1)) = length - x
    BY <2>1, DivUps
  <2> QED  BY <1>1, <2>1, <2>2
<1> HIDE DEF Step
<1>2. g \in [1 .. count -> [V -> V]]
  BY <1>1
<1>3. 0 \in V /\ count \in Nat
  OBVIOUS
<1>4. PICK f : f \in [0 .. count -> V] /\ f[0] = 0 /\ \A i \in 1 .. count : f[i] = g[i][f[i - 1]]
  <2> HIDE DEF g, V, IsCuts
  <2>1. \E f : Iterates(f, count, V, 0, g)
    BY <1>2, <1>3, Recursion, Zenon
  <2> QED  BY <2>1 DEF Iterates
<1>5. ASSUME NEW i \in 1 .. count
      PROVE  i - 1 \in 0 .. count /\ f[i - 1] \in V /\ f[i] = Step(i, f[i - 1])
  <2>1. i - 1 \in 0 .. count  BY <1>5
  <2>2. f[i - 1] \in V  BY <1>4, <2>1
  <2> HIDE DEF V
  <2>3. g[i][f[i - 1]] = Step(i, f[i - 1])  BY <1>5, <2>2
  <2> QED  BY <1>4, <2>1, <2>2, <2>3
<1>6. IsCuts(f)
  <2>1. \A i \in 0 .. count : i = 0 \/ i \in 1 .. count
    OBVIOUS
  <2>2. \A i \in 0 .. count : f[i] = IF i = 0 THEN 0 ELSE Step(i, f[i - 1])
    BY <1>4, <1>5, <2>1
  <2> QED  BY <1>4, <2>2
<1>7. Cuts(length, count) = CHOOSE f2 : IsCuts(f2)
  BY DEF Cuts, Step
<1> DEFINE first == Cuts(length, count)
<1>8. IsCuts(first)
  BY <1>6, <1>7
<1> HIDE DEF first
<1>9. first[0] = 0 /\ \A i \in 1 .. count : first[i] = Step(i, first[i - 1])
  <2>1. \A i \in 1 .. count : i \in 0 .. count /\ i # 0
    OBVIOUS
  <2> QED  BY <1>3, <1>8, <2>1
<1>10. \A i \in 0 .. count : first[i] \in V
  <2> DEFINE T == {k \in 0 .. count : first[k] \notin V}
  <2>1. ASSUME T # {} PROVE FALSE
    <3>1. T \subseteq Nat  OBVIOUS
    <3>2. PICK k \in T : \A m \in T : k <= m
      <4> HIDE DEF T
      <4> QED  BY <2>1, <3>1, LeastNat
    <3>3. k \in 0 .. count /\ first[k] \notin V /\ k # 0
      BY <1>3, <1>9
    <3>4. k \in 1 .. count /\ k - 1 \in 0 .. count /\ ~(k <= k - 1)
      BY <3>3
    <3>5. first[k - 1] \in V
      BY <3>2, <3>4
    <3> QED  BY <1>1, <1>9, <3>3, <3>4, <3>5
  <2> QED  BY <2>1
<1>11. first = [i \in 0 .. count |-> first[i]]
  BY <1>8
<1>12. ASSUME NEW i \in 1 .. count
       PROVE  first[i - 1] <= first[i] /\ (i = count => first[i] = length)
  <2>1. i - 1 \in 0 .. count  BY <1>12
  <2>2. first[i - 1] \in V  BY <1>10, <2>1
  <2> QED  BY <1>1, <1>9, <1>12, <2>2
<1>13. first[count] = length
  <2>1. count \in 1 .. count  OBVIOUS
  <2> QED  BY <1>12, <2>1
<1>14. first \in [0 .. count -> V]
  BY <1>10, <1>11
<1> QED  BY <1>9, <1>12, <1>13, <1>14 DEF first

LEMMA SharesAre ==
    ASSUME NEW chunks \in Seq(Chunks), NEW count \in Nat \ {0}
    PROVE  /\ \A i \in 1 .. count : Share(chunks, count, i) \in Seq(Chunks)
           /\ \A c \in Members(chunks) :
                \E i \in 1 .. count : c \in Members(Share(chunks, count, i))
<1> DEFINE first == Cuts(Len(chunks), count)
           Holds(i, s) == s = SubSeq(chunks, first[i - 1] + 1, first[i])
<1>0. Len(chunks) \in Nat
  OBVIOUS
<1>1. /\ first \in [0 .. count -> 0 .. Len(chunks)]
      /\ first[0] = 0 /\ first[count] = Len(chunks)
      /\ \A i \in 1 .. count : first[i - 1] <= first[i]
  BY <1>0, CutsAre
<1>2. \A i : Share(chunks, count, i) = SubSeq(chunks, first[i - 1] + 1, first[i])
  BY DEF Share
<1> HIDE DEF first
<1>3. \A i \in 1 .. count : /\ i - 1 \in 0 .. count /\ i \in 0 .. count
                            /\ first[i - 1] \in 0 .. Len(chunks)
                            /\ first[i] \in 0 .. Len(chunks)
  <2> TAKE i \in 1 .. count
  <2>1. i - 1 \in 0 .. count /\ i \in 0 .. count
    OBVIOUS
  <2> QED  BY <1>1, <2>1
<1>4. ASSUME NEW a \in 0 .. Len(chunks), NEW b \in 0 .. Len(chunks), a <= b
      PROVE  LET s == SubSeq(chunks, a + 1, b)
             IN /\ s \in Seq(Chunks) /\ Len(s) = b - a
                /\ \A j \in 1 .. b - a : s[j] = chunks[a + j]
  <2>1. SubSeq(chunks, a + 1, b) = [j \in 1 .. b - a |-> chunks[a + j]]
    BY <1>4
  <2>2. \A j \in 1 .. b - a : a + j \in 1 .. Len(chunks) /\ chunks[a + j] \in Chunks
    BY <1>4
  <2>3. b - a \in Nat
    BY <1>4
  <2> QED  BY <2>1, <2>2, <2>3
<1>5. ASSUME NEW i \in 1 .. count PROVE Share(chunks, count, i) \in Seq(Chunks)
  <2>1. /\ first[i - 1] \in 0 .. Len(chunks) /\ first[i] \in 0 .. Len(chunks)
        /\ first[i - 1] <= first[i]
    BY <1>1, <1>3
  <2>2. SubSeq(chunks, first[i - 1] + 1, first[i]) \in Seq(Chunks)
    BY <1>4, <2>1
  <2> QED  BY <1>2, <2>2
<1>6. ASSUME NEW c \in Members(chunks)
      PROVE  \E i \in 1 .. count : c \in Members(Share(chunks, count, i))
  <2>1. PICK j \in 1 .. Len(chunks) : chunks[j] = c
    BY DEF Members
  <2> DEFINE T == {i \in 0 .. count : first[i] >= j}
  <2>2. T # {} /\ T \subseteq Nat
    <3>1. count \in 0 .. count /\ first[count] >= j  BY <1>0, <1>1, <2>1
    <3> QED  BY <3>1
  <2>3. PICK i \in T : \A k \in T : i <= k
    <3> HIDE DEF T
    <3> QED  BY <2>2, LeastNat
  <2>4. i \in 1 .. count /\ first[i] >= j
    BY <1>0, <1>1, <2>1, <2>3
  <2>5. first[i - 1] < j
    <3>1. i - 1 \in 0 .. count /\ ~(i <= i - 1)  BY <2>4
    <3>2. i - 1 \notin T  BY <2>3, <3>1
    <3>3. ~(first[i - 1] >= j)  BY <3>1, <3>2
    <3> QED  BY <1>3, <2>1, <2>4, <3>3
  <2> DEFINE s == SubSeq(chunks, first[i - 1] + 1, first[i])
  <2>6. /\ Len(s) = first[i] - first[i - 1] /\ s \in Seq(Chunks)
        /\ \A k \in 1 .. first[i] - first[i - 1] : s[k] = chunks[first[i - 1] + k]
    BY <1>1, <1>3, <1>4, <2>4
  <2>7. j - first[i - 1] \in 1 .. first[i] - first[i - 1]
    BY <1>3, <2>1, <2>4, <2>5
  <2>8. s[j - first[i - 1]] = c
    <3>1. first[i - 1] + (j - first[i - 1]) = j  BY <1>3, <2>1, <2>4
    <3> HIDE DEF s
    <3> QED  BY <2>1, <2>6, <2>7, <3>1
  <2>9. c \in Members(s)
    <3> HIDE DEF s
    <3> QED  BY <2>6, <2>7, <2>8 DEF Members
  <2> QED  BY <1>2, <2>4, <2>9
<1> QED  BY <1>5, <1>6

LEMMA InOrderAre ==
    ASSUME NEW S, S \subseteq Chunks
    PROVE  InOrder(S) \in Seq(Chunks) /\ Members(InOrder(S)) = S
<1> DEFINE V == Seq(Chunks)
           Step(c, s) == IF c - 1 \in S THEN Append(s, c - 1) ELSE s
           g == [c \in 1 .. N |-> [s \in V |-> Step(c, s)]]
           IsBelow(f) == f = [c \in 0 .. N |-> IF c = 0 THEN <<>> ELSE Step(c, f[c - 1])]
           Below(c) == {d \in S : d < c}
<1>0. N \in Nat /\ <<>> \in V /\ 0 \in 0 .. N
  BY HandoutAssumption
<1>1. ASSUME NEW c \in 1 .. N, NEW s \in V
      PROVE  Step(c, s) \in V
  <2>1. c - 1 \in Chunks  BY HandoutAssumption DEF Chunks
  <2> QED  BY <2>1
<1>2. ASSUME NEW c \in 1 .. N, NEW s \in V, Members(s) = Below(c - 1)
      PROVE  Members(Step(c, s)) = Below(c)
  <2>1. \A d \in S : d \in Int  BY DEF Chunks
  <2>2. CASE c - 1 \in S
    <3>1. Len(s) \in Nat /\ DOMAIN s = 1 .. Len(s)
      OBVIOUS
    <3>2. Members(Append(s, c - 1)) = Members(s) \cup {c - 1}
      <4> DEFINE z == Append(s, c - 1)
      <4>1. /\ DOMAIN z = 1 .. Len(s) + 1 /\ z[Len(s) + 1] = c - 1
            /\ \A i \in 1 .. Len(s) : z[i] = s[i]
        BY <3>1
      <4> HIDE DEF z
      <4>2. \A i \in DOMAIN z : i \in DOMAIN s \/ i = Len(s) + 1
        BY <3>1, <4>1
      <4>3. \A i \in DOMAIN s : i \in DOMAIN z
        BY <3>1, <4>1
      <4>4. Len(s) + 1 \in DOMAIN z
        BY <3>1, <4>1
      <4>5. Members(z) = Members(s) \cup {c - 1}
        BY <3>1, <4>1, <4>2, <4>3, <4>4 DEF Members
      <4> QED  BY <4>5 DEF z
    <3>3. \A d \in S : d < c <=> d < c - 1 \/ d = c - 1
      BY <1>0, <2>1
    <3> QED  BY <1>2, <2>2, <3>2, <3>3
  <2>3. CASE c - 1 \notin S
    <3>1. \A d \in S : d < c <=> d < c - 1
      BY <1>0, <2>1, <2>3
    <3> QED  BY <1>2, <2>3, <3>1
  <2> QED  BY <2>2, <2>3
<1> HIDE DEF Step
<1>3. g \in [1 .. N -> [V -> V]]
  BY <1>1
<1>4. PICK f : f \in [0 .. N -> V] /\ f[0] = <<>> /\ \A c \in 1 .. N : f[c] = g[c][f[c - 1]]
  <2> HIDE DEF g, V, IsBelow
  <2>1. \E f : Iterates(f, N, V, <<>>, g)
    BY <1>0, <1>3, Recursion, Zenon
  <2> QED  BY <2>1 DEF Iterates
<1>5. ASSUME NEW c \in 1 .. N
      PROVE  c - 1 \in 0 .. N /\ f[c - 1] \in V /\ f[c] = Step(c, f[c - 1])
  <2>1. c - 1 \in 0 .. N  BY <1>0, <1>5
  <2>2. f[c - 1] \in V  BY <1>4, <2>1
  <2> HIDE DEF V
  <2>3. g[c][f[c - 1]] = Step(c, f[c - 1])  BY <1>5, <2>2
  <2> QED  BY <1>4, <2>1, <2>2, <2>3
<1>6. IsBelow(f)
  <2>1. \A c \in 0 .. N : c = 0 \/ c \in 1 .. N
    BY <1>0
  <2>2. \A c \in 0 .. N : f[c] = IF c = 0 THEN <<>> ELSE Step(c, f[c - 1])
    BY <1>4, <1>5, <2>1
  <2> HIDE DEF V
  <2> QED  BY <1>4, <2>2
<1> DEFINE below == CHOOSE f2 : IsBelow(f2)
<1>7. InOrder(S) = below[N]
  BY DEF InOrder, Step
<1>8. IsBelow(below)
  BY <1>6
<1> HIDE DEF below
<1>9. below[0] = <<>> /\ \A c \in 1 .. N : below[c] = Step(c, below[c - 1])
  <2>1. \A c \in 1 .. N : c \in 0 .. N /\ c # 0
    BY <1>0
  <2> QED  BY <1>0, <1>8, <2>1
<1>10. \A c \in 0 .. N : below[c] \in V /\ Members(below[c]) = Below(c)
  <2> DEFINE Good(c) == below[c] \in V /\ Members(below[c]) = Below(c)
             T == {c \in 0 .. N : ~Good(c)}
  <2>1. ASSUME T # {} PROVE FALSE
    <3>1. T \subseteq Nat  OBVIOUS
    <3>2. PICK k \in T : \A m \in T : k <= m
      <4> HIDE DEF T
      <4> QED  BY <2>1, <3>1, LeastNat
    <3>3. Good(0)
      <4>1. \A d \in S : ~(d < 0)  BY DEF Chunks
      <4>2. Below(0) = {}  BY <4>1
      <4>3. Members(<<>>) = {}  BY DEF Members
      <4> QED  BY <1>0, <1>9, <4>2, <4>3
    <3>4. k \in 0 .. N /\ ~Good(k) /\ k # 0
      <4>1. k \in 0 .. N /\ ~Good(k)  OBVIOUS
      <4> HIDE DEF Good
      <4> QED  BY <3>3, <4>1
    <3>5. k \in 1 .. N /\ k - 1 \in 0 .. N /\ ~(k <= k - 1)
      BY <1>0, <3>4
    <3>6. Good(k - 1)
      <4> HIDE DEF Good
      <4> QED  BY <3>2, <3>5
    <3>7. Good(k)
      <4> HIDE DEF V, Below
      <4> QED  BY <1>1, <1>2, <1>9, <3>5, <3>6
    <3> QED  BY <3>4, <3>7
  <2> QED  BY <2>1
<1>11. Below(N) = S
  <2>1. \A d \in S : d < N  BY <1>0 DEF Chunks
  <2> QED  BY <2>1
<1>12. N \in 0 .. N
  BY <1>0
<1> HIDE DEF Below
<1> QED  BY <1>7, <1>10, <1>11, <1>12

(* Every worker that answers has a place, and a place for every share. *)
LEMMA Places ==
    ASSUME NEW answered, answered \subseteq Workers
    PROVE  /\ Cardinality(answered) \in Nat
           /\ \A w \in answered : /\ Cardinality(answered) # 0
                                  /\ Place(w, answered) \in 1 .. Cardinality(answered)
           /\ answered = Workers =>
                /\ Cardinality(answered) = Len(Paths)
                /\ \A w \in Workers : Place(w, answered) = w
<1>1. Workers = 1 .. Len(Paths) /\ Len(Paths) \in Nat
  BY HandoutAssumption DEF Workers
<1>2. IsFiniteSet(Workers) /\ Cardinality(Workers) = Len(Paths)
  <2>1. \A n \in Nat : IsFiniteSet(1 .. n) /\ Cardinality(1 .. n) = n
    BY FS_Interval
  <2> QED  BY <1>1, <2>1
<1>3. IsFiniteSet(answered) /\ Cardinality(answered) \in Nat
  BY <1>2, FS_Subset, FS_CardinalityType
<1>4. ASSUME NEW w \in answered
      PROVE  Cardinality(answered) # 0 /\ Place(w, answered) \in 1 .. Cardinality(answered)
  <2> DEFINE S == {v \in answered : v <= w}
  <2>1. w \in S /\ S \in SUBSET answered
    BY <1>1
  <2> HIDE DEF S
  <2>2. IsFiniteSet(S) /\ Cardinality(S) <= Cardinality(answered)
    BY <1>3, <2>1, FS_Subset
  <2>3. Cardinality(S) \in Nat /\ Cardinality(S) # 0
    BY <2>1, <2>2, FS_CardinalityType, FS_EmptySet
  <2> USE DEF S
  <2>4. Place(w, answered) = Cardinality(S)
    BY DEF Place
  <2> HIDE DEF S
  <2> QED  BY <1>3, <2>2, <2>3, <2>4
<1>5. ASSUME NEW w \in Workers
      PROVE  Place(w, Workers) = w
  <2>1. {v \in Workers : v <= w} = 1 .. w
    BY <1>1
  <2>2. Cardinality(1 .. w) = w
    <3>1. w \in Int /\ 1 <= w  BY <1>1
    <3> QED  BY <3>1, FS_Interval
  <2> QED  BY <2>1, <2>2 DEF Place
<1> QED  BY <1>2, <1>3, <1>4, <1>5

-------------------------------------------------------------------------------
(* An ask, its session and its connection.                                   *)

(* Nothing else is touched by a step of t's thread or of its session. *)
Touches(t) ==
    /\ \A u \in Asks \ {t} : /\ threads'[u] = threads[u] /\ lines'[u] = lines[u]
                             /\ sessions'[u] = sessions[u] /\ Lies(u)' = Lies(u)
    /\ faults \subseteq faults'
    /\ leader' = leader /\ video' = video /\ taken' = taken

LEMMA OthersSound ==
    ASSUME NEW u, Sound(u), threads'[u] = threads[u], lines'[u] = lines[u],
           sessions'[u] = sessions[u], Lies(u)' = Lies(u), faults \subseteq faults'
    PROVE  Sound(u)'
<1>1. faults # {} => faults' # {}
  OBVIOUS
<1>2. Still(u)' = Still(u) /\ InStep(u)' = InStep(u)
  BY DEF Still, InStep
<1>3. Idle(u) => Idle(u)'
  BY <1>2 DEF Idle
<1>4. \A m : Decode(u, m)' <=> Decode(u, m)
  BY DEF Decode
<1>5. Asking(u) => Asking(u)'
  BY <1>2 DEF Asking, Decode
<1>6. Answered(u) => Answered(u)'
  BY <1>1 DEF Answered, Left
<1>7. Waiting(u) => Waiting(u)'
  BY <1>2, <1>5, <1>6 DEF Waiting
<1>8. Reading(u) => Reading(u)'
  BY <1>2 DEF Reading
<1>9. Telling(u) => Telling(u)'
  BY <1>1, <1>2 DEF Telling
<1>10. Over(u) => Over(u)'
  BY <1>2 DEF Over
<1> QED  BY <1>1, <1>3, <1>7, <1>8, <1>9, <1>10 DEF Sound

(* One ask goes on, and its parts become what is said. *)
Becomes(t, th, ln, ss) ==
    /\ threads'[t] = th /\ lines'[t] = ln /\ sessions'[t] = ss
    /\ threads' \in [Asks -> Threads] /\ lines' \in [Asks -> Lines]
    /\ sessions' \in [Asks -> Sessions]
    /\ \A u \in Asks \ {t} : /\ threads'[u] = threads[u] /\ lines'[u] = lines[u]
                             /\ sessions'[u] = sessions[u]

LEMMA Becoming ==
    ASSUME Types, NEW t \in Asks, NEW th \in Threads, NEW ln \in Lines, NEW ss \in Sessions,
           threads' = [threads EXCEPT ![t] = th] \/ (threads' = threads /\ th = threads[t]),
           lines' = [lines EXCEPT ![t] = ln] \/ (lines' = lines /\ ln = lines[t]),
           sessions' = [sessions EXCEPT ![t] = ss] \/ (sessions' = sessions /\ ss = sessions[t])
    PROVE  Becomes(t, th, ln, ss)
<1>1. /\ threads'[t] = th /\ threads' \in [Asks -> Threads]
      /\ \A u \in Asks \ {t} : threads'[u] = threads[u]
  <2>1. threads \in [Asks -> Threads]  BY DEF Types
  <2> QED  BY <2>1
<1>2. /\ lines'[t] = ln /\ lines' \in [Asks -> Lines]
      /\ \A u \in Asks \ {t} : lines'[u] = lines[u]
  <2>1. lines \in [Asks -> Lines]  BY DEF Types
  <2> QED  BY <2>1
<1>3. /\ sessions'[t] = ss /\ sessions' \in [Asks -> Sessions]
      /\ \A u \in Asks \ {t} : sessions'[u] = sessions[u]
  <2>1. sessions \in [Asks -> Sessions]  BY DEF Types
  <2> QED  BY <2>1
<1> QED  BY <1>1, <1>2, <1>3 DEF Becomes

(* What a step of an ask keeps, but for the telling. *)
Keeps(t) ==
    /\ Touches(t) /\ Types' /\ Sound(t)'
    /\ hands' = hands /\ threads'[t].mine = threads[t].mine
    /\ threads[t].at = "over" => threads'[t].at = "over"

LEMMA Keeping ==
    ASSUME Types, NEW t \in Asks, NEW th, NEW ln, NEW ss, Becomes(t, th, ln, ss),
           \A u \in Asks \ {t} : Lies(u)' = Lies(u), faults \subseteq faults',
           UNCHANGED <<walk, hands>>, Sound(t)', th.mine = threads[t].mine,
           threads[t].at = "over" => th.at = "over"
    PROVE  Keeps(t)
<1>1. leader' = leader /\ video' = video /\ taken' = taken /\ hands' = hands
  BY DEF walk
<1>2. Touches(t)
  BY <1>1 DEF Touches, Becomes
<1>3. Types'
  BY <1>1 DEF Types, Becomes
<1> QED  BY <1>1, <1>2, <1>3 DEF Keeps, Becomes

LEMMA Fields ==
    ASSUME Types, NEW t \in Asks
    PROVE  /\ threads[t] \in Threads /\ lines[t] \in Lines /\ sessions[t] \in Sessions
           /\ threads[t].mine \in Seq(Chunks) /\ threads[t].request \in Int
           /\ threads[t].canvas \in Int /\ threads[t].ok \in BOOLEAN
           /\ lines[t].out \in Seq(Requests) /\ lines[t].back \in Seq(Replies)
           /\ lines[t].up \in BOOLEAN /\ lines[t].open \in BOOLEAN
           /\ sessions[t].staging \in Int
           /\ threads[t].mine # <<>> =>
                Head(threads[t].mine) \in Chunks /\ Head(threads[t].mine) \in Int
<1>1. threads[t] \in Threads /\ lines[t] \in Lines /\ sessions[t] \in Sessions
  BY DEF Types
<1>2. Chunks \subseteq Int
  BY DEF Chunks
<1>3. threads[t].mine \in Seq(Chunks)
  BY <1>1 DEF Threads
<1>4. threads[t].mine # <<>> => Head(threads[t].mine) \in Chunks
  BY <1>3
<1> QED  BY <1>1, <1>2, <1>3, <1>4 DEF Threads, Lines, Sessions

LEMMA FailedIs ==
    ASSUME Types, NEW t \in Asks, Failed(t)
    PROVE  \E th \in Threads : /\ threads' = [threads EXCEPT ![t] = th]
                               /\ th.at = "tell" /\ ~th.ok /\ th.mine = threads[t].mine
<1> DEFINE th == [threads[t] EXCEPT !.at = "tell", !.canvas = NoCanvas, !.ok = FALSE]
<1>1. threads[t] \in Threads  BY Fields
<1>2. NoCanvas \in Int /\ FALSE \in BOOLEAN  BY DEF NoCanvas
<1>3. th \in Threads  BY <1>1, <1>2 DEF Threads
<1>4. th.at = "tell" /\ th.mine = threads[t].mine  BY <1>1 DEF Threads
<1>5. th.ok = FALSE  BY <1>1 DEF Threads
<1>6. threads' = [threads EXCEPT ![t] = th]  BY DEF Failed
<1> HIDE DEF th
<1> QED  BY <1>3, <1>4, <1>5, <1>6

LEMMA GotIs ==
    ASSUME Types, NEW t \in Asks, NEW c \in Int, Got(t, c)
    PROVE  \E th \in Threads : /\ threads' = [threads EXCEPT ![t] = th]
                               /\ th.at = "tell" /\ th.ok /\ th.canvas = c
                               /\ th.mine = threads[t].mine
<1> DEFINE th == [threads[t] EXCEPT !.at = "tell", !.canvas = c, !.ok = TRUE]
<1>1. threads[t] \in Threads  BY Fields
<1>3. th \in Threads  BY <1>1 DEF Threads
<1>4. th.at = "tell" /\ th.mine = threads[t].mine /\ th.canvas = c  BY <1>1 DEF Threads
<1>5. th.ok = TRUE  BY <1>1 DEF Threads
<1>6. threads' = [threads EXCEPT ![t] = th]  BY DEF Got
<1> HIDE DEF th
<1> QED  BY <1>3, <1>4, <1>5, <1>6

LEMMA AskSound ==
    ASSUME Types, NEW t \in Asks, Sound(t), Ask(t)
    PROVE  Keeps(t)
<1>1. threads[t].at = "idle" /\ UNCHANGED <<sessions, handed, walk, hands, faults>>
  BY DEF Ask, ThreadsAnd
<1>2. \A u \in Asks : Lies(u)' = Lies(u)
  BY <1>1 DEF Lies
<1>3. lines[t].open /\ threads[t].mine # <<>> /\ Idle(t) /\ (~lines[t].up => faults # {})
  BY <1>1 DEF Sound
<1>4. CASE lines[t].up
  <2> DEFINE request == threads[t].request + 1
             m == [kind |-> "decode", request |-> request, chunk |-> Head(threads[t].mine)]
             th == [threads[t] EXCEPT !.at = "waiting", !.request = request]
             ln == [lines[t] EXCEPT !.out = Append(@, m)]
  <2>1. threads' = [threads EXCEPT ![t] = th] /\ lines' = [lines EXCEPT ![t] = ln]
    BY <1>4 DEF Ask
  <2>2. m \in Requests
    BY <1>3, Fields DEF Requests
  <2>3. /\ th \in Threads /\ th.at = "waiting" /\ th.request = request
        /\ th.mine = threads[t].mine
    <3>1. threads[t] \in Threads /\ request \in Int  BY Fields
    <3> HIDE DEF request
    <3> QED  BY <3>1 DEF Threads
  <2>4. m.kind = "decode" /\ m.request = request /\ m.chunk = Head(threads[t].mine)
    OBVIOUS
  <2> HIDE DEF m, th
  <2>5. /\ ln \in Lines /\ ln.up /\ ln.open /\ ln.back = lines[t].back
        /\ ln.joined = lines[t].joined /\ ln.out = Append(lines[t].out, m)
    <3>1. lines[t] \in Lines /\ lines[t].out \in Seq(Requests)  BY Fields
    <3>2. Append(lines[t].out, m) \in Seq(Requests)  BY <2>2, <3>1
    <3> QED  BY <1>3, <1>4, <3>1, <3>2 DEF Lines
  <2> HIDE DEF ln
  <2>6. Becomes(t, th, ln, sessions[t])
    BY <1>1, <2>1, <2>3, <2>5, Fields, Becoming
  <2>7. Asking(t)'
    <3>0. /\ threads'[t].request = request /\ threads'[t].mine = threads[t].mine
          /\ lines'[t].back = lines[t].back /\ lines'[t].out = Append(lines[t].out, m)
          /\ sessions'[t] = sessions[t]
      BY <2>3, <2>5, <2>6 DEF Becomes
    <3>1. Still(t)'
      BY <1>2, <1>3, <3>0 DEF Idle, Still
    <3>a. \A n : n = m => (/\ n.kind = "decode" /\ n.request = threads'[t].request
                           /\ n.chunk = Head(threads'[t].mine))
      BY <2>4, <3>0
    <3>2. CASE lines[t].out = <<>> /\ sessions[t].at = "ready"
      <4>1. Append(<<>>, m) = <<m>> /\ Len(<<m>>) = 1 /\ <<m>>[1] = m  OBVIOUS
      <4>2. lines'[t].out = <<m>>  BY <3>0, <3>2, <4>1
      <4>3. Len(lines'[t].out) = 1 /\ lines'[t].out[1] = m  BY <4>1, <4>2
      <4> QED  BY <3>0, <3>1, <3>a, <3>2, <4>3 DEF Asking, Decode
    <3>3. CASE /\ Len(lines[t].out) = 1 /\ lines[t].out[1].kind = "release"
               /\ sessions[t].at = "held"
      <4> DEFINE o == lines[t].out
      <4>0. o \in Seq(Requests) /\ Len(o) = 1  BY <3>3, Fields
      <4> HIDE DEF o
      <4>1. Len(Append(o, m)) = 2 /\ Append(o, m)[1] = o[1] /\ Append(o, m)[2] = m
        BY <2>2, <4>0
      <4>2. lines'[t].out = Append(o, m)  BY <3>0 DEF o
      <4>3. sessions'[t].at = "held" /\ o[1].kind = "release"
        BY <3>0, <3>3 DEF o
      <4>4. /\ Len(lines'[t].out) = 2 /\ lines'[t].out[1].kind = "release"
            /\ lines'[t].out[2] = m
        BY <4>1, <4>2, <4>3
      <4> QED  BY <3>1, <3>a, <4>3, <4>4 DEF Asking, Decode
    <3> QED  BY <1>3, <1>4, <3>2, <3>3 DEF Idle, InStep
  <2>8. Sound(t)'
    <3>1. /\ lines'[t].up /\ lines'[t].open /\ lines'[t].joined = lines[t].joined
          /\ threads'[t].at = "waiting" /\ threads'[t].mine # <<>> /\ sessions'[t] = sessions[t]
          /\ faults' = faults
      BY <1>1, <1>3, <2>3, <2>5, <2>6 DEF Becomes
    <3> QED  BY <1>4, <2>7, <3>1 DEF Sound, Waiting
  <2> QED  BY <1>1, <1>2, <2>3, <2>6, <2>8, Keeping
<1>5. CASE ~lines[t].up
  <2>0. Failed(t) /\ lines' = lines
    BY <1>5 DEF Ask
  <2>1. PICK th \in Threads : /\ threads' = [threads EXCEPT ![t] = th]
                              /\ th.at = "tell" /\ ~th.ok /\ th.mine = threads[t].mine
    BY <2>0, FailedIs
  <2>6. Becomes(t, th, lines[t], sessions[t])
    BY <1>1, <2>0, <2>1, Fields, Becoming
  <2>7. Telling(t)'
    BY <1>1, <1>2, <1>3, <1>5, <2>1, <2>6 DEF Telling, Still, Idle, Becomes
  <2>8. Sound(t)'
    BY <1>1, <1>3, <1>5, <2>1, <2>6, <2>7 DEF Sound, Becomes
  <2> QED  BY <1>1, <1>2, <2>1, <2>6, <2>8, Keeping
<1> QED  BY <1>4, <1>5

LEMMA HearSound ==
    ASSUME Types, NEW t \in Asks, Sound(t), Hear(t)
    PROVE  Keeps(t)
<1> DEFINE reply == lines[t].back[1]
           c == Head(threads[t].mine)
           ln == [lines[t] EXCEPT !.back = Tail(@)]
<1>1. /\ threads[t].at = "waiting" /\ lines[t].back # <<>>
      /\ UNCHANGED <<sessions, walk, hands, faults>>
  BY DEF Hear, ThreadsAnd
<1>2. /\ lines[t].open /\ threads[t].mine # <<>> /\ lines[t].up /\ Answered(t)
      /\ "worker" \in lines[t].joined => "leader" \in lines[t].joined \/ faults # {}
      /\ sessions[t].at # "over"
  BY <1>1 DEF Sound, Waiting, Asking, Still
<1>3. /\ lines[t].back \in Seq(Replies) /\ Len(lines[t].back) = 1 /\ lines[t].out = <<>>
      /\ reply.request = threads[t].request
  BY <1>2, Fields DEF Answered
<1>4. Head(lines[t].back) = reply /\ Tail(lines[t].back) = <<>>
  <2> DEFINE q == lines[t].back
  <2>1. q \in Seq(Replies) /\ Len(q) = 1  BY <1>3
  <2> HIDE DEF q
  <2>2. Head(q) = q[1] /\ Tail(q) = <<>>  BY <2>1, SMTT(60)
  <2> QED  BY <2>2 DEF q
<1> DEFINE id == [by |-> t, chunk |-> reply.canvas]
<1>5. lines' = [lines EXCEPT ![t] = ln]
  BY DEF Hear
<1>6. /\ ln \in Lines /\ ln.up /\ ln.open /\ ln.joined = lines[t].joined
      /\ ln.out = <<>> /\ ln.back = <<>>
  <2>1. lines[t] \in Lines /\ <<>> \in Seq(Replies)  BY Fields
  <2> QED  BY <1>2, <1>3, <1>4, <2>1 DEF Lines
<1>7. \/ /\ reply.kind = "error" /\ Failed(t) /\ handed' = handed
      \/ /\ reply.kind = "sent" /\ Got(t, reply.canvas) /\ handed' = handed
      \/ /\ reply.kind = "handed" /\ id \in handed /\ Got(t, reply.canvas)
         /\ handed' = handed \ {id}
      \/ /\ reply.kind = "handed" /\ id \notin handed /\ Failed(t) /\ handed' = handed
      \/ /\ reply.kind = "pointed" /\ "leader" \notin lines[t].joined /\ Failed(t)
         /\ handed' = handed
      \/ /\ reply.kind = "pointed" /\ "leader" \in lines[t].joined /\ handed' = handed
         /\ threads' = [threads EXCEPT ![t].at = "reading"]
  BY <1>3, <1>4 DEF Hear
<1>8. \/ /\ reply.kind = "error" /\ faults # {} /\ sessions[t].at = "ready" /\ Lies(t) = {}
      \/ /\ reply.kind = "sent" /\ reply.canvas = c /\ sessions[t].at = "ready" /\ Lies(t) = {}
      \/ /\ reply.kind = "pointed" /\ ("leader" \in lines[t].joined \/ faults # {})
         /\ sessions[t].at = "held" /\ sessions[t].staging = c /\ Lies(t) = {}
      \/ /\ reply.kind = "handed" /\ reply.canvas = c /\ sessions[t].at = "ready"
         /\ Lies(t) = {Left(t)}
  BY <1>2 DEF Answered
<1>9. c \in Int
  BY <1>2, Fields
<1> HIDE DEF ln, reply, c
<1>10. handed' = handed => \A u \in Asks : Lies(u)' = Lies(u)
  BY DEF Lies
<1>11. ASSUME Failed(t), faults # {}, Lies(t) = {}, handed' = handed
       PROVE  Keeps(t)
  <2>1. PICK th \in Threads : /\ threads' = [threads EXCEPT ![t] = th]
                              /\ th.at = "tell" /\ ~th.ok /\ th.mine = threads[t].mine
    BY <1>11, FailedIs
  <2>2. Becomes(t, th, ln, sessions[t])
    BY <1>1, <1>5, <1>6, <2>1, Fields, Becoming
  <2>3. Telling(t)'
    BY <1>1, <1>6, <1>10, <1>11, <2>1, <2>2 DEF Telling, Still, Becomes
  <2>4. Sound(t)'
    BY <1>1, <1>2, <1>6, <2>1, <2>2, <2>3 DEF Sound, Becomes
  <2> QED  BY <1>1, <1>10, <1>11, <2>1, <2>2, <2>4, Keeping
<1>12. ASSUME Got(t, c), sessions[t].at = "ready", Lies(t)' = {},
              \A u \in Asks \ {t} : Lies(u)' = Lies(u)
       PROVE  Keeps(t)
  <2>1. PICK th \in Threads : /\ threads' = [threads EXCEPT ![t] = th]
                              /\ th.at = "tell" /\ th.ok /\ th.canvas = c
                              /\ th.mine = threads[t].mine
    BY <1>9, <1>12, GotIs
  <2>2. Becomes(t, th, ln, sessions[t])
    BY <1>1, <1>5, <1>6, <2>1, Fields, Becoming
  <2>3. Telling(t)'
    BY <1>1, <1>6, <1>12, <2>1, <2>2 DEF Telling, Still, InStep, Becomes, c
  <2>4. Sound(t)'
    BY <1>1, <1>2, <1>6, <2>1, <2>2, <2>3 DEF Sound, Becomes
  <2> QED  BY <1>1, <1>12, <2>1, <2>2, <2>4, Keeping
<1>13. CASE reply.kind = "error"
  BY <1>7, <1>8, <1>11, <1>13
<1>14. CASE reply.kind = "sent"
  BY <1>7, <1>8, <1>10, <1>12, <1>14
<1>15. CASE reply.kind = "handed"
  <2>1. id = Left(t) /\ Lies(t) = {id} /\ reply.canvas = c /\ sessions[t].at = "ready"
    BY <1>8, <1>15 DEF Left, c
  <2>2. id \in handed /\ id.by = t
    BY <2>1 DEF Lies
  <2>3. Got(t, c) /\ handed' = handed \ {id}
    BY <1>7, <1>15, <2>1, <2>2
  <2> HIDE DEF id
  <2>4. Lies(t)' = {} /\ \A u \in Asks \ {t} : Lies(u)' = Lies(u)
    BY <2>1, <2>2, <2>3 DEF Lies
  <2> QED  BY <1>12, <2>1, <2>3, <2>4
<1>16. CASE reply.kind = "pointed" /\ "leader" \notin lines[t].joined
  BY <1>7, <1>8, <1>11, <1>16
<1>17. CASE reply.kind = "pointed" /\ "leader" \in lines[t].joined
  <2> DEFINE th == [threads[t] EXCEPT !.at = "reading"]
  <2>1. threads' = [threads EXCEPT ![t] = th] /\ handed' = handed
    BY <1>7, <1>17
  <2>2. th \in Threads /\ th.at = "reading" /\ th.mine = threads[t].mine
    <3>1. threads[t] \in Threads  BY Fields
    <3> QED  BY <3>1 DEF Threads
  <2>3. Lies(t) = {} /\ sessions[t].at = "held" /\ sessions[t].staging = c
    BY <1>8, <1>17
  <2> HIDE DEF th
  <2>4. Becomes(t, th, ln, sessions[t])
    BY <1>1, <1>5, <1>6, <2>1, <2>2, Fields, Becoming
  <2>5. Reading(t)'
    BY <1>1, <1>6, <1>10, <2>1, <2>2, <2>3, <2>4 DEF Reading, Still, Becomes, c
  <2>6. Sound(t)'
    BY <1>1, <1>2, <1>6, <2>2, <2>4, <2>5 DEF Sound, Becomes
  <2> QED  BY <1>1, <1>10, <2>1, <2>2, <2>4, <2>6, Keeping
<1> QED  BY <1>8, <1>13, <1>14, <1>15, <1>16, <1>17

LEMMA LoseSound ==
    ASSUME Types, NEW t \in Asks, Sound(t), Lose(t)
    PROVE  Keeps(t)
<1>1. /\ threads[t].at = "waiting" /\ lines[t].back = <<>> /\ ~lines[t].up /\ Failed(t)
      /\ UNCHANGED <<lines, sessions, handed, walk, hands, faults>>
  BY DEF Lose, wire, ThreadsAnd
<1>2. \A u \in Asks : Lies(u)' = Lies(u)
  BY <1>1 DEF Lies
<1>3. lines[t].open /\ threads[t].mine # <<>> /\ Still(t) /\ faults # {} /\ lines[t].out = <<>>
  BY <1>1 DEF Sound, Waiting
<1>4. PICK th \in Threads : /\ threads' = [threads EXCEPT ![t] = th]
                            /\ th.at = "tell" /\ ~th.ok /\ th.mine = threads[t].mine
  BY <1>1, FailedIs
<1>5. Becomes(t, th, lines[t], sessions[t])
  BY <1>1, <1>4, Fields, Becoming
<1>6. Telling(t)'
  BY <1>1, <1>2, <1>3, <1>4, <1>5 DEF Telling, Still, Becomes
<1>7. Sound(t)'
  BY <1>1, <1>3, <1>4, <1>5, <1>6 DEF Sound, Becomes
<1> QED  BY <1>1, <1>2, <1>4, <1>5, <1>7, Keeping

LEMMA ReadSound ==
    ASSUME Types, NEW t \in Asks, Sound(t), Read(t)
    PROVE  Keeps(t)
<1>1. threads[t].at = "reading" /\ UNCHANGED <<sessions, handed, walk, hands>>
  BY DEF Read
<1>2. \A u \in Asks : Lies(u)' = Lies(u)
  BY <1>1 DEF Lies
<1>3. lines[t].open /\ threads[t].mine # <<>> /\ Reading(t) /\ (~lines[t].up => faults # {})
  BY <1>1 DEF Sound
<1>4. lines[t].back = <<>> /\ Lies(t) = {} /\ lines[t].out = <<>>
  BY <1>3 DEF Reading, Still, Sound
<1> DEFINE m == [kind |-> "release", request |-> threads[t].request + 1, chunk |-> NoCanvas]
           th == [threads[t] EXCEPT !.at = "tell", !.canvas = sessions[t].staging, !.ok = TRUE,
                                    !.request = threads[t].request + 1]
           ln == [lines[t] EXCEPT !.out = Append(@, m)]
<1>5. CASE /\ lines[t].up /\ faults' = faults
           /\ threads' = [threads EXCEPT ![t] = th] /\ lines' = [lines EXCEPT ![t] = ln]
  <2>1. threads' = [threads EXCEPT ![t] = th] /\ lines' = [lines EXCEPT ![t] = ln]
    BY <1>5
  <2>2. m \in Requests /\ m.kind = "release"
    BY Fields DEF Requests, NoCanvas
  <2>3. /\ th \in Threads /\ th.at = "tell" /\ th.mine = threads[t].mine
        /\ th.canvas = sessions[t].staging
    <3>1. threads[t] \in Threads /\ sessions[t].staging \in Int  BY Fields
    <3>2. threads[t].request + 1 \in Int  BY Fields
    <3> QED  BY <3>1, <3>2 DEF Threads
  <2>4. th.ok = TRUE
    <3>1. threads[t] \in Threads  BY Fields
    <3> QED  BY <3>1 DEF Threads
  <2> HIDE DEF m, th
  <2>5. /\ ln \in Lines /\ ln.up /\ ln.open /\ ln.back = <<>> /\ ln.joined = lines[t].joined
        /\ ln.out = <<m>>
    <3>1. lines[t] \in Lines /\ Append(<<>>, m) = <<m>> /\ <<m>> \in Seq(Requests)
      BY <2>2, Fields
    <3> QED  BY <1>3, <1>4, <1>5, <3>1 DEF Lines
  <2> HIDE DEF ln
  <2>6. Becomes(t, th, ln, sessions[t])
    BY <1>1, <2>1, <2>3, <2>5, Fields, Becoming
  <2>7. /\ sessions[t].at = "held" /\ sessions[t].staging = Head(threads[t].mine)
        /\ sessions'[t] = sessions[t]
    BY <1>3, <1>5, <2>6 DEF Reading, Becomes
  <2>8. InStep(t)'
    <3>1. Len(<<m>>) = 1 /\ <<m>>[1] = m  OBVIOUS
    <3>2. lines'[t].out = <<m>>  BY <2>5, <2>6 DEF Becomes
    <3>3. Len(lines'[t].out) = 1 /\ lines'[t].out[1].kind = "release"
      BY <2>2, <3>1, <3>2
    <3> QED  BY <2>7, <3>3 DEF InStep
  <2>9. Telling(t)'
    <3>1. Still(t)'  BY <1>2, <1>4, <2>5, <2>6 DEF Still, Becomes
    <3>2. threads'[t].ok /\ threads'[t].canvas = Head(threads'[t].mine)
      BY <2>3, <2>4, <2>6, <2>7 DEF Becomes
    <3> QED  BY <2>8, <3>1, <3>2 DEF Telling
  <2>10. Sound(t)'
    <3>1. /\ lines'[t].up /\ lines'[t].open /\ lines'[t].joined = lines[t].joined
          /\ threads'[t].at = "tell" /\ threads'[t].mine # <<>>
      BY <1>3, <2>3, <2>5, <2>6 DEF Becomes
    <3> QED  BY <1>5, <2>7, <2>9, <3>1 DEF Sound
  <2> QED  BY <1>1, <1>2, <1>5, <2>3, <2>6, <2>10, Keeping
<1>6. CASE Failed(t) /\ faults' = faults \cup {"read"} /\ lines' = lines
  <2>1. PICK next \in Threads : /\ threads' = [threads EXCEPT ![t] = next]
                                /\ next.at = "tell" /\ ~next.ok /\ next.mine = threads[t].mine
    BY <1>6, FailedIs
  <2>2. Becomes(t, next, lines[t], sessions[t])
    BY <1>1, <1>6, <2>1, Fields, Becoming
  <2>3. Telling(t)'
    BY <1>2, <1>4, <1>6, <2>1, <2>2 DEF Telling, Still, Becomes
  <2>4. Sound(t)'
    BY <1>3, <1>4, <1>6, <2>1, <2>2, <2>3 DEF Sound, Becomes
  <2> QED  BY <1>1, <1>2, <1>6, <2>1, <2>2, <2>4, Keeping
<1>7. \/ /\ lines[t].up /\ faults' = faults
         /\ threads' = [threads EXCEPT ![t] = th] /\ lines' = [lines EXCEPT ![t] = ln]
      \/ Failed(t) /\ faults' = faults \cup {"read"} /\ lines' = lines
  BY DEF Read
<1> QED  BY <1>5, <1>6, <1>7

(* What a thread tells of. *)
Result(t) == [chunk |-> Head(threads[t].mine), ok |-> threads[t].ok, canvas |-> threads[t].canvas]

Tells(t) ==
    /\ threads[t].at = "tell"
    /\ Result(t) \in Results
    /\ Result(t).ok => Result(t).canvas = Result(t).chunk
    /\ ~Result(t).ok => faults # {}
    /\ hands' = IF hands[t[1]].listening
                THEN [hands EXCEPT ![t[1]].channel = Append(@, Result(t))] ELSE hands
    /\ \A c \in Members(threads[t].mine) :
         \/ c = Result(t).chunk \/ c \in Members(threads'[t].mine)
         \/ ~hands[t[1]].listening \/ faults # {}

LEMMA TellSound ==
    ASSUME Types, NEW t \in Asks, Sound(t), Tell(t)
    PROVE  Touches(t) /\ Types' /\ Sound(t)' /\ Tells(t)
<1> DEFINE h == t[1]
           last == ~hands[h].listening \/ ~threads[t].ok \/ Len(threads[t].mine) = 1
           th == [threads[t] EXCEPT !.at = IF last THEN "over" ELSE "idle",
                                    !.mine = IF last THEN <<>> ELSE Tail(threads[t].mine),
                                    !.canvas = NoCanvas, !.ok = TRUE]
           ln == IF last THEN [lines[t] EXCEPT !.open = FALSE] ELSE lines[t]
           mine == threads[t].mine
<1>1. /\ threads[t].at = "tell" /\ UNCHANGED <<walk, sessions, handed, faults>>
      /\ threads' = [threads EXCEPT ![t] = th]
      /\ hands' = IF hands[h].listening
                  THEN [hands EXCEPT ![h].channel = Append(@, Result(t))] ELSE hands
      /\ lines' = IF last THEN [lines EXCEPT ![t].open = FALSE] ELSE lines
  BY DEF Tell, Result
<1>2. \A u \in Asks : Lies(u)' = Lies(u)
  BY <1>1 DEF Lies
<1>3. /\ lines[t].open /\ mine # <<>> /\ Telling(t)
      /\ ~lines[t].up => lines[t].out = <<>> /\ faults # {}
  BY <1>1 DEF Sound
<1>4. /\ mine \in Seq(Chunks) /\ Len(mine) \in Nat \ {0}
      /\ Tail(mine) \in Seq(Chunks) /\ Len(Tail(mine)) = Len(mine) - 1
      /\ \A i \in 1 .. Len(mine) - 1 : Tail(mine)[i] = mine[i + 1]
      /\ Head(mine) = mine[1] /\ Head(mine) \in Chunks
  <2>1. mine \in Seq(Chunks)  BY Fields
  <2> HIDE DEF mine
  <2> QED  BY <1>3, <2>1
<1>5. h \in Outs /\ t[2] \in Workers /\ t = <<h, t[2]>>
  BY DEF Asks
<1> HIDE DEF h
<1>6. /\ th \in Threads /\ th.at = (IF last THEN "over" ELSE "idle")
      /\ th.mine = (IF last THEN <<>> ELSE Tail(mine))
  <2>1. threads[t] \in Threads  BY Fields
  <2>2. NoCanvas \in Int /\ TRUE \in BOOLEAN /\ <<>> \in Seq(Chunks)  BY DEF NoCanvas
  <2> HIDE DEF last
  <2> QED  BY <1>4, <2>1, <2>2 DEF Threads
<1>7. /\ ln \in Lines /\ ln.up = lines[t].up /\ ln.back = lines[t].back
      /\ ln.joined = lines[t].joined /\ ln.out = lines[t].out
  <2>1. lines[t] \in Lines  BY Fields
  <2> HIDE DEF last
  <2> QED  BY <2>1 DEF Lines
<1>8. ln.open = ~last
  <2>1. lines[t] \in Lines  BY Fields
  <2>2. CASE last
    <3>1. ln = [lines[t] EXCEPT !.open = FALSE]  BY <2>2
    <3>2. ln.open = FALSE
      <4> HIDE DEF last, ln
      <4> QED  BY <2>1, <3>1 DEF Lines
    <3> HIDE DEF ln
    <3> QED  BY <2>2, <3>2
  <2>3. CASE ~last
    <3>1. ln = lines[t]  BY <2>3
    <3>2. ln.open  BY <1>3, <3>1
    <3>3. ln.open \in BOOLEAN  BY <2>1, <3>1 DEF Lines
    <3> HIDE DEF ln
    <3> QED  BY <2>3, <3>2, <3>3
  <2> QED  BY <2>2, <2>3
<1>9. lines' = [lines EXCEPT ![t] = ln] \/ (lines' = lines /\ ln = lines[t])
  <2> HIDE DEF last
  <2> QED  BY <1>1
<1>10. ~last => Tail(mine) # <<>>
  <2>1. ~last => Len(mine) # 1  OBVIOUS
  <2> HIDE DEF mine, last
  <2>0. Len(<<>>) = 0  OBVIOUS
  <2>2. Tail(mine) = <<>> => Len(Tail(mine)) = 0  BY <2>0, Zenon
  <2>3. Len(Tail(mine)) = Len(mine) - 1 /\ Len(mine) \in Nat  BY <1>4
  <2> QED  BY <2>1, <2>2, <2>3
<1>11. /\ Still(t) /\ (lines[t].up => lines[t].out = <<>> \/ InStep(t))
       /\ ~last => (lines[t].up => InStep(t))
  BY <1>3 DEF Telling
<1>12. /\ Result(t) \in Results
       /\ Result(t).ok => Result(t).canvas = Result(t).chunk
       /\ ~Result(t).ok => faults # {}
  <2>1. Result(t) \in Results
    BY <1>4, Fields DEF Result, Results
  <2>2. /\ Result(t).ok = threads[t].ok /\ Result(t).canvas = threads[t].canvas
        /\ Result(t).chunk = Head(mine)
    BY DEF Result
  <2> QED  BY <1>3, <2>1, <2>2 DEF Telling
<1>13. ASSUME NEW c \in Members(mine)
       PROVE  \/ c = Result(t).chunk \/ c \in Members(th.mine)
              \/ ~hands[h].listening \/ faults # {}
  <2>1. Result(t).chunk = Head(mine)  BY DEF Result
  <2>2. PICK i \in 1 .. Len(mine) : c = mine[i]
    BY <1>4 DEF Members
  <2>3. CASE i = 1
    BY <1>4, <2>1, <2>2, <2>3
  <2>4. CASE i # 1 /\ ~last
    <3>1. i - 1 \in 1 .. Len(mine) - 1 /\ (i - 1) + 1 = i
      BY <1>4, <2>2, <2>4
    <3>2. Tail(mine)[i - 1] = c
      <4> HIDE DEF mine
      <4> QED  BY <1>4, <2>2, <3>1
    <3>3. i - 1 \in DOMAIN Tail(mine)
      <4> HIDE DEF mine
      <4> QED  BY <1>4, <3>1
    <3>4. c \in Members(Tail(mine))
      <4> HIDE DEF mine
      <4> QED  BY <3>2, <3>3 DEF Members
    <3> HIDE DEF last, th, mine
    <3> QED  BY <1>6, <2>4, <3>4
  <2>5. CASE i # 1 /\ last
    <3>1. Len(mine) # 1  BY <1>4, <2>2, <2>5
    <3>2. ~hands[h].listening \/ ~threads[t].ok
      <4> HIDE DEF mine
      <4> QED  BY <2>5, <3>1 DEF mine
    <3> QED  BY <1>3, <3>2 DEF Telling
  <2> QED  BY <2>3, <2>4, <2>5
<1> HIDE DEF last, th, ln, mine
<1>14. Becomes(t, th, ln, sessions[t])
  BY <1>1, <1>6, <1>7, <1>9, Fields, Becoming
<1>15. /\ threads'[t].at = (IF last THEN "over" ELSE "idle")
       /\ threads'[t].mine = (IF last THEN <<>> ELSE Tail(mine))
       /\ lines'[t].up = lines[t].up /\ lines'[t].back = lines[t].back
       /\ lines'[t].joined = lines[t].joined /\ lines'[t].out = lines[t].out
       /\ lines'[t].open = ~last /\ sessions'[t] = sessions[t] /\ faults' = faults
       /\ Lies(t)' = Lies(t)
  BY <1>1, <1>2, <1>6, <1>7, <1>8, <1>14 DEF Becomes
<1>16. Still(t)' /\ InStep(t)' = InStep(t)
  BY <1>11, <1>15 DEF Still, InStep
<1>17. Sound(t)'
  <2>1. CASE last
    <3>1. Over(t)'  BY <1>11, <1>15, <1>16, <2>1 DEF Over
    <3> QED  BY <1>3, <1>15, <2>1, <3>1 DEF Sound
  <2>2. CASE ~last
    <3>1. Idle(t)'  BY <1>11, <1>15, <1>16, <2>2 DEF Idle
    <3> QED  BY <1>3, <1>10, <1>15, <2>2, <3>1 DEF Sound
  <2> QED  BY <2>1, <2>2
<1>18. hands' \in [Outs -> Hands]
  <2>1. hands \in [Outs -> Hands] /\ hands[h] \in Hands  BY <1>5 DEF Types
  <2>2. Append(hands[h].channel, Result(t)) \in Seq(Results)
    BY <1>12, <2>1 DEF Hands
  <2>3. [hands[h] EXCEPT !.channel = Append(@, Result(t))] \in Hands
    BY <2>1, <2>2 DEF Hands
  <2> QED  BY <1>1, <2>1, <2>3
<1>19. Types'
  BY <1>1, <1>14, <1>18 DEF Types, Becomes, walk
<1>20. Touches(t)
  BY <1>1, <1>2, <1>14 DEF Touches, Becomes, walk
<1>21. Tells(t)
  BY <1>1, <1>12, <1>13, <1>14 DEF Tells, Becomes, h, mine
<1> QED  BY <1>17, <1>19, <1>20, <1>21

LEMMA Tails ==
    ASSUME NEW S, NEW q \in Seq(S), q # <<>>
    PROVE  /\ Tail(q) \in Seq(S) /\ Len(Tail(q)) = Len(q) - 1
           /\ \A i \in 1 .. Len(q) - 1 : Tail(q)[i] = q[i + 1] /\ i + 1 \in 1 .. Len(q)
           /\ Head(q) = q[1] /\ Head(q) \in S /\ Len(q) \in Nat \ {0}
           /\ Len(q) = 1 => Tail(q) = <<>>
<1>1. Len(q) \in Nat \ {0} /\ Head(q) = q[1] /\ Head(q) \in S
  OBVIOUS
<1>2. Tail(q) \in Seq(S) /\ Len(Tail(q)) = Len(q) - 1
  OBVIOUS
<1>3. \A i \in 1 .. Len(q) - 1 : Tail(q)[i] = q[i + 1]
  BY <1>1, <1>2
<1>4. \A i \in 1 .. Len(q) - 1 : i + 1 \in 1 .. Len(q)
  BY <1>1, <1>2
<1>5. Len(q) = 1 => Tail(q) = <<>>
  <2>1. \A r \in Seq(S) : Len(r) = 0 => r = <<>>
    OBVIOUS
  <2>2. Len(q) = 1 => Len(Tail(q)) = 0
    BY <1>1, <1>2
  <2> QED  BY <1>2, <2>1, <2>2, Zenon
<1> QED  BY <1>1, <1>2, <1>3, <1>4, <1>5

(* A session that answers a decode: the thread waits, and nothing else is under way. *)
LEMMA Deciding ==
    ASSUME Types, NEW t \in Asks, Sound(t), Asked(t)
    PROVE  /\ threads[t].at = "waiting" /\ lines[t].up /\ sessions[t].at = "ready"
           /\ Still(t) /\ Len(lines[t].out) = 1 /\ lines[t].open
           /\ lines[t].out \in Seq(Requests)
           /\ Head(lines[t].out).kind = "decode"
           /\ Head(lines[t].out).request = threads[t].request
           /\ Head(lines[t].out).chunk = Head(threads[t].mine)
           /\ threads[t].mine # <<>> /\ Head(threads[t].mine) \in Int
           /\ "worker" \in lines[t].joined => "leader" \in lines[t].joined \/ faults # {}
<1>1. /\ sessions[t].at = "ready" /\ lines[t].up /\ lines[t].out # <<>>
      /\ Head(lines[t].out).kind = "decode"
  BY DEF Asked
<1>2. threads[t].at \in {"idle", "waiting", "reading", "tell", "over"}
  <2>1. threads[t] \in Threads  BY Fields
  <2> QED  BY <2>1 DEF Threads
<1>3. threads[t].at = "waiting"
  BY <1>1, <1>2 DEF Sound, Idle, Reading, Telling, Over, InStep
<1>4. Asking(t) /\ lines[t].open /\ threads[t].mine # <<>>
      /\ ("worker" \in lines[t].joined => "leader" \in lines[t].joined \/ faults # {})
  BY <1>1, <1>3 DEF Sound, Waiting, Answered
<1>5. Len(lines[t].out) = 1 /\ Decode(t, lines[t].out[1]) /\ Still(t)
  BY <1>1, <1>4 DEF Asking
<1>6. lines[t].out \in Seq(Requests) /\ Head(lines[t].out) = lines[t].out[1]
  <2> DEFINE q == lines[t].out
  <2>1. q \in Seq(Requests)  BY Fields
  <2> QED  BY <1>1, <2>1
<1> QED  BY <1>1, <1>3, <1>4, <1>5, <1>6, Fields DEF Decode

Kinds == {"error", "handed", "pointed", "sent"}

LEMMA AnswerIs ==
    ASSUME Types, NEW t \in Asks, Sound(t), Asked(t), NEW kind \in Kinds, NEW c \in Int,
           lines' = Answer(t, kind, c)
    PROVE  \E ln \in Lines :
             /\ lines' = [lines EXCEPT ![t] = ln]
             /\ ln.up /\ ln.open /\ ln.joined = lines[t].joined /\ ln.out = <<>>
             /\ Len(ln.back) = 1
             /\ ln.back[1].kind = kind /\ ln.back[1].canvas = c
             /\ ln.back[1].request = threads[t].request
<1> DEFINE request == Head(lines[t].out).request
           m == [kind |-> kind, canvas |-> c, request |-> request]
           out == Tail(lines[t].out)
           back == Append(lines[t].back, m)
           ln == [lines[t] EXCEPT !.out = out, !.back = back]
<1>1. lines[t].up /\ lines[t].open /\ lines[t].back = <<>> /\ request = threads[t].request
  BY Deciding DEF Still
<1>2. out = <<>>
  <2> DEFINE q == lines[t].out
  <2>1. q \in Seq(Requests) /\ Len(q) = 1  BY Deciding
  <2> HIDE DEF q
  <2>2. q # <<>>
    <3>1. Len(<<>>) = 0  OBVIOUS
    <3>2. Len(q) # 0  BY <2>1
    <3> QED  BY <3>1, <3>2, Zenon
  <2>3. Tail(q) = <<>>  BY <2>1, <2>2, Tails
  <2> QED  BY <2>3 DEF q
<1>3. request \in Int
  BY <1>1, Fields
<1> HIDE DEF request
<1>4. m \in Replies /\ m.kind = kind /\ m.canvas = c /\ m.request = request
  BY <1>3 DEF Replies, Kinds
<1>5. lines' = [lines EXCEPT ![t] = ln]
  BY DEF Answer, request
<1> HIDE DEF m
<1>6. Append(<<>>, m) = <<m>> /\ <<m>> \in Seq(Replies) /\ Len(<<m>>) = 1 /\ <<m>>[1] = m
  BY <1>4
<1>7. back = <<m>>
  BY <1>1, <1>6
<1> HIDE DEF out, back
<1>8. /\ ln \in Lines /\ ln.up = lines[t].up /\ ln.open = lines[t].open
      /\ ln.joined = lines[t].joined /\ ln.out = out /\ ln.back = back
  <2>1. lines[t] \in Lines /\ out \in Seq(Requests) /\ back \in Seq(Replies)
    BY <1>2, <1>6, <1>7, Fields
  <2> QED  BY <2>1 DEF Lines
<1> HIDE DEF ln
<1>9. Len(ln.back) = 1 /\ ln.back[1] = m
  BY <1>6, <1>7, <1>8
<1> QED  BY <1>1, <1>2, <1>4, <1>5, <1>8, <1>9

LEMMA AnswersSound ==
    ASSUME Types, NEW t \in Asks, Sound(t), Asked(t), NEW kind \in Kinds, NEW c \in Int,
           lines' = Answer(t, kind, c), NEW ss \in Sessions,
           sessions' = [sessions EXCEPT ![t] = ss] \/ (sessions' = sessions /\ ss = sessions[t]),
           UNCHANGED <<walk, hands, threads>>, faults \subseteq faults',
           \A u \in Asks \ {t} : Lies(u)' = Lies(u),
           \/ kind = "error" /\ faults' # {} /\ ss.at = "ready" /\ Lies(t)' = Lies(t)
           \/ kind = "sent" /\ c = Head(threads[t].mine) /\ ss.at = "ready" /\ Lies(t)' = Lies(t)
           \/ /\ kind = "pointed" /\ "worker" \in lines[t].joined /\ ss.at = "held"
              /\ ss.staging = Head(threads[t].mine) /\ Lies(t)' = Lies(t)
           \/ /\ kind = "handed" /\ c = Head(threads[t].mine) /\ ss.at = "ready"
              /\ Lies(t)' = Lies(t) \cup {Left(t)} /\ Paths[t[2]] = "card"
    PROVE  Keeps(t)
<1>1. PICK ln \in Lines :
             /\ lines' = [lines EXCEPT ![t] = ln]
             /\ ln.up /\ ln.open /\ ln.joined = lines[t].joined /\ ln.out = <<>>
             /\ Len(ln.back) = 1
             /\ ln.back[1].kind = kind /\ ln.back[1].canvas = c
             /\ ln.back[1].request = threads[t].request
  BY AnswerIs
<1>2. Becomes(t, threads[t], ln, ss)
  BY <1>1, Fields, Becoming
<1>3. /\ threads[t].at = "waiting" /\ Lies(t) = {} /\ threads[t].mine # <<>>
      /\ "worker" \in lines[t].joined => "leader" \in lines[t].joined \/ faults # {}
  BY Deciding DEF Still
<1>4. /\ threads' = threads /\ lines'[t] = ln /\ sessions'[t] = ss
      /\ faults # {} => faults' # {}
  BY <1>2 DEF Becomes
<1>5. Left(t)' = Left(t)
  BY <1>4 DEF Left
<1>6. Answered(t)'
  BY <1>1, <1>3, <1>4, <1>5 DEF Answered
<1>7. ss.at # "over"
  OBVIOUS
<1>8. Sound(t)'
  BY <1>1, <1>3, <1>4, <1>6, <1>7 DEF Sound, Waiting
<1> QED  BY <1>2, <1>8, Keeping

LEMMA DecodesSound ==
    ASSUME Types, NEW t \in Asks, Sound(t),
           DecodeFails(t) \/ DecodeHere(t) \/ DecodeStaged(t) \/ RegisterFails(t) \/ DecodeSent(t)
    PROVE  Keeps(t)
<1>1. Asked(t) /\ UNCHANGED <<walk, hands, threads>>
  BY DEF DecodeFails, DecodeHere, DecodeStaged, RegisterFails, DecodeSent, SessionAnd
<1>2. /\ Head(lines[t].out).chunk = Head(threads[t].mine) /\ Head(threads[t].mine) \in Int
      /\ sessions[t].at = "ready" /\ sessions[t] \in Sessions /\ NoCanvas \in Int
  BY <1>1, Deciding, Fields DEF NoCanvas
<1>3. handed' = handed => \A u \in Asks : Lies(u)' = Lies(u)
  BY DEF Lies
<1>4. {"error", "handed", "pointed", "sent"} \subseteq Kinds
  BY DEF Kinds
<1>5. CASE DecodeFails(t) \/ RegisterFails(t)
  <2>1. /\ lines' = Answer(t, "error", NoCanvas) /\ handed' = handed /\ sessions' = sessions
        /\ faults \subseteq faults' /\ faults' # {}
    BY <1>5 DEF DecodeFails, RegisterFails
  <2> QED  BY <1>1, <1>2, <1>3, <1>4, <2>1, AnswersSound
<1>6. CASE DecodeHere(t)
  <2> DEFINE id == [by |-> t, chunk |-> Head(threads[t].mine)]
  <2>1. /\ lines' = Answer(t, "handed", Head(threads[t].mine)) /\ sessions' = sessions
        /\ handed' = handed \cup {id} /\ faults' = faults /\ Paths[t[2]] = "card"
    BY <1>2, <1>6 DEF DecodeHere
  <2>2. id.by = t /\ id = Left(t)
    BY DEF Left
  <2> HIDE DEF id
  <2>3. Lies(t)' = Lies(t) \cup {Left(t)} /\ \A u \in Asks \ {t} : Lies(u)' = Lies(u)
    BY <2>1, <2>2 DEF Lies
  <2> QED  BY <1>1, <1>2, <1>4, <2>1, <2>3, AnswersSound
<1>7. CASE DecodeStaged(t)
  <2> DEFINE ss == [at |-> "held", staging |-> Head(threads[t].mine)]
  <2>1. /\ lines' = Answer(t, "pointed", NoCanvas) /\ sessions' = [sessions EXCEPT ![t] = ss]
        /\ handed' = handed /\ faults' = faults /\ "worker" \in lines[t].joined
    BY <1>2, <1>7 DEF DecodeStaged
  <2>2. ss \in Sessions /\ ss.at = "held" /\ ss.staging = Head(threads[t].mine)
    BY <1>2 DEF Sessions
  <2> HIDE DEF ss
  <2> QED  BY <1>1, <1>2, <1>3, <1>4, <2>1, <2>2, AnswersSound
<1>8. CASE DecodeSent(t)
  <2>1. /\ lines' = Answer(t, "sent", Head(threads[t].mine)) /\ sessions' = sessions
        /\ handed' = handed /\ faults' = faults
    BY <1>2, <1>8 DEF DecodeSent
  <2> QED  BY <1>1, <1>2, <1>3, <1>4, <2>1, AnswersSound
<1> QED  BY <1>5, <1>6, <1>7, <1>8

LEMMA ReleasedSound ==
    ASSUME Types, NEW t \in Asks, Sound(t), Released(t)
    PROVE  Keeps(t)
<1>1. /\ sessions[t].at = "held" /\ lines[t].out # <<>>
      /\ UNCHANGED <<handed, faults, walk, hands, threads>>
  BY DEF Released, SessionAnd
<1>2. \A u \in Asks : Lies(u)' = Lies(u)
  BY <1>1 DEF Lies
<1>3. threads[t].at \in {"idle", "waiting", "tell", "over"}
  <2>1. threads[t] \in Threads  BY Fields
  <2> QED  BY <1>1, <2>1 DEF Threads, Sound, Reading
<1> DEFINE q == lines[t].out
<1>4. /\ lines[t].up /\ Still(t)
      /\ \/ InStep(t)
         \/ threads[t].at = "waiting" /\ Asking(t)
  BY <1>1, <1>3 DEF Sound, Idle, Waiting, Answered, Telling, Over, Asking
<1>5. q \in Seq(Requests) /\ q # <<>> /\ q[1].kind = "release"
      /\ (Len(q) = 1 \/ (Len(q) = 2 /\ threads[t].at = "waiting" /\ Decode(t, q[2])))
  BY <1>1, <1>4, Fields DEF InStep, Asking
<1>6. /\ Head(q) = q[1] /\ Tail(q) \in Seq(Requests)
      /\ Len(q) = 1 => Tail(q) = <<>>
      /\ Len(q) = 2 => Len(Tail(q)) = 1 /\ Tail(q)[1] = q[2]
  <2> HIDE DEF q
  <2>1. q \in Seq(Requests) /\ q # <<>>  BY <1>5
  <2>2. /\ Head(q) = q[1] /\ Tail(q) \in Seq(Requests) /\ Len(Tail(q)) = Len(q) - 1
        /\ Len(q) = 1 => Tail(q) = <<>>
        /\ \A i \in 1 .. Len(q) - 1 : Tail(q)[i] = q[i + 1]
    BY <2>1, Tails, Zenon
  <2>3. Len(q) = 2 => Len(Tail(q)) = 1 /\ Tail(q)[1] = q[2]
    BY <2>2
  <2> QED  BY <2>2, <2>3
<1> DEFINE ss == [sessions[t] EXCEPT !.at = "ready"]
           ln == [lines[t] EXCEPT !.out = Tail(@)]
<1>7. sessions' = [sessions EXCEPT ![t] = ss] /\ lines' = [lines EXCEPT ![t] = ln]
  BY <1>5, <1>6 DEF Released
<1>8. ss \in Sessions /\ ss.at = "ready"
  <2>1. sessions[t] \in Sessions  BY Fields
  <2> QED  BY <2>1 DEF Sessions
<1>9. /\ ln \in Lines /\ ln.up = lines[t].up /\ ln.open = lines[t].open
      /\ ln.joined = lines[t].joined /\ ln.out = Tail(q) /\ ln.back = lines[t].back
  <2>1. lines[t] \in Lines  BY Fields
  <2> QED  BY <1>6, <2>1 DEF Lines
<1> HIDE DEF ss, ln
<1>10. Becomes(t, threads[t], ln, ss)
  BY <1>1, <1>7, <1>8, <1>9, Fields, Becoming
<1>11. /\ threads' = threads /\ faults' = faults /\ Lies(t)' = Lies(t)
       /\ lines'[t].up = lines[t].up /\ lines'[t].open = lines[t].open
       /\ lines'[t].joined = lines[t].joined /\ lines'[t].back = lines[t].back
       /\ lines'[t].out = Tail(q) /\ sessions'[t].at = "ready"
  BY <1>1, <1>2, <1>8, <1>9, <1>10 DEF Becomes
<1>12. Still(t)'
  BY <1>4, <1>11 DEF Still
<1> HIDE DEF q
<1>13. CASE Len(q) = 1
  <2>1. InStep(t)'
    BY <1>6, <1>11, <1>13 DEF InStep
  <2>2. threads[t].at # "waiting"
    <3>1. Asking(t) => Len(q) # 1
      BY <1>1 DEF Asking, q
    <3>2. CASE InStep(t) /\ threads[t].at = "waiting"
      <4>1. Asking(t) \/ Answered(t)
        BY <1>4, <3>2 DEF Sound, Waiting
      <4> QED  BY <1>1, <1>13, <3>1, <4>1 DEF Answered
    <3> QED  BY <1>4, <1>13, <3>1, <3>2
  <2>3. Idle(t)' /\ (Telling(t) => Telling(t)') /\ (Over(t) => Over(t)')
    BY <1>11, <1>12, <2>1 DEF Idle, Telling, Over
  <2>4. Sound(t)'
    BY <1>1, <1>3, <1>4, <1>11, <2>2, <2>3 DEF Sound
  <2> QED  BY <1>1, <1>2, <1>10, <2>4, Keeping
<1>14. CASE Len(q) = 2
  <2>1. threads[t].at = "waiting" /\ Decode(t, q[2])
    BY <1>5, <1>14
  <2>2. lines'[t].out[1] = q[2] /\ Len(lines'[t].out) = 1
    BY <1>6, <1>11, <1>14
  <2>3. Decode(t, lines[t].out[1])'
    BY <1>11, <2>1, <2>2 DEF Decode
  <2>4. Asking(t)'
    BY <1>11, <1>12, <2>2, <2>3 DEF Asking
  <2>5. Sound(t)'
    BY <1>1, <1>4, <1>11, <2>1, <2>4 DEF Sound, Waiting
  <2> QED  BY <1>1, <1>2, <1>10, <2>5, Keeping
<1> QED  BY <1>5, <1>13, <1>14

(* A session that ends, with the connection. *)
LEMMA EndsSound ==
    ASSUME Types, NEW t \in Asks, Sound(t),
           sessions' = [sessions EXCEPT ![t] = [at |-> "over", staging |-> NoCanvas]],
           NEW ln \in Lines, lines' = [lines EXCEPT ![t] = ln],
           ~ln.up /\ ln.open = lines[t].open /\ ln.joined = lines[t].joined
               /\ ln.out = <<>> /\ ln.back = <<>>,
           UNCHANGED <<handed, walk, hands, threads>>, faults \subseteq faults', Lies(t) = {},
           threads[t].at # "over" => faults' # {}
    PROVE  Keeps(t)
<1> DEFINE ss == [at |-> "over", staging |-> NoCanvas]
<1>1. \A u \in Asks : Lies(u)' = Lies(u)
  BY DEF Lies
<1>2. ss \in Sessions /\ ss.at = "over"
  BY DEF Sessions, NoCanvas
<1> HIDE DEF ss
<1>3. Becomes(t, threads[t], ln, ss)
  BY <1>2, Fields, Becoming DEF ss
<1>4. /\ threads' = threads /\ lines'[t] = ln /\ sessions'[t].at = "over"
      /\ faults # {} => faults' # {}
  BY <1>2, <1>3 DEF Becomes
<1>5. Still(t)'
  BY <1>1, <1>4 DEF Still
<1>6. /\ Idle(t)' /\ Waiting(t)' /\ Reading(t)' /\ (Telling(t) => Telling(t)')
      /\ (Over(t) => Over(t)')
  BY <1>4, <1>5 DEF Idle, Waiting, Reading, Telling, Over
<1>7. Sound(t)'
  BY <1>4, <1>6 DEF Sound
<1> QED  BY <1>1, <1>3, <1>7, Keeping

LEMMA ClosedSound ==
    ASSUME Types, NEW t \in Asks, Sound(t), Closed(t)
    PROVE  Keeps(t)
<1> DEFINE ln == [lines[t] EXCEPT !.up = FALSE]
<1>1. /\ ~lines[t].open /\ lines[t].out = <<>>
      /\ sessions' = [sessions EXCEPT ![t] = [at |-> "over", staging |-> NoCanvas]]
      /\ lines' = [lines EXCEPT ![t] = ln] /\ UNCHANGED <<handed, faults, walk, hands, threads>>
  BY DEF Closed, SessionAnd
<1>2. threads[t].at = "over" /\ Still(t)
  BY <1>1 DEF Sound, Over
<1>3. lines[t].back = <<>> /\ Lies(t) = {}
  BY <1>2 DEF Still
<1>4. /\ ln \in Lines /\ ln.up = FALSE /\ ln.open = lines[t].open /\ ln.joined = lines[t].joined
      /\ ln.out = lines[t].out /\ ln.back = lines[t].back
  <2>1. lines[t] \in Lines  BY Fields
  <2> QED  BY <2>1 DEF Lines
<1> HIDE DEF ln
<1>5. /\ ~ln.up /\ ln.open = lines[t].open /\ ln.joined = lines[t].joined
      /\ ln.out = <<>> /\ ln.back = <<>>
  BY <1>1, <1>3, <1>4
<1> QED  BY <1>1, <1>2, <1>3, <1>4, <1>5, EndsSound

LEMMA BreakSound ==
    ASSUME Types, NEW t \in Asks, Sound(t), Break(t)
    PROVE  Keeps(t)
<1> DEFINE ln == [lines[t] EXCEPT !.up = FALSE, !.out = <<>>, !.back = <<>>]
<1>1. /\ Paths[t[2]] # "card" /\ sessions[t].at # "over" /\ faults' = faults \cup {"link"}
      /\ sessions' = [sessions EXCEPT ![t] = [at |-> "over", staging |-> NoCanvas]]
      /\ lines' = [lines EXCEPT ![t] = ln] /\ UNCHANGED <<handed, walk, hands, threads>>
  BY DEF Break, SessionAnd
<1>2. Lies(t) = {}
  <2>1. threads[t].at \in {"idle", "waiting", "reading", "tell", "over"}
    <3>1. threads[t] \in Threads  BY Fields
    <3> QED  BY <3>1 DEF Threads
  <2>2. CASE threads[t].at = "waiting"
    <3>1. Still(t) \/ Answered(t)
      BY <2>2 DEF Sound, Waiting, Asking
    <3> QED  BY <1>1, <3>1 DEF Still, Answered
  <2>3. CASE threads[t].at # "waiting"
    BY <2>1, <2>3 DEF Sound, Idle, Reading, Telling, Over, Still
  <2> QED  BY <2>2, <2>3
<1>4. /\ ln \in Lines /\ ln.up = FALSE /\ ln.open = lines[t].open /\ ln.joined = lines[t].joined
      /\ ln.out = <<>> /\ ln.back = <<>>
  <2>1. lines[t] \in Lines /\ <<>> \in Seq(Requests) /\ <<>> \in Seq(Replies)  BY Fields
  <2> QED  BY <2>1 DEF Lines
<1> HIDE DEF ln
<1>5. ~ln.up
  BY <1>4
<1>6. faults \subseteq faults' /\ faults' # {}
  BY <1>1
<1> QED  BY <1>1, <1>2, <1>4, <1>5, <1>6, EndsSound

LEMMA AsksKeep ==
    ASSUME Types, NEW t \in Asks, Sound(t), Thread(t) \/ Session(t) \/ Break(t), ~Tell(t)
    PROVE  Keeps(t)
  BY AskSound, HearSound, LoseSound, ReadSound, DecodesSound, ReleasedSound, ClosedSound,
     BreakSound DEF Thread, Session

-------------------------------------------------------------------------------
(* A hand-out.                                                               *)

LEMMA HandFields ==
    ASSUME Types, NEW h \in Outs
    PROVE  /\ hands[h] \in Hands /\ hands[h].delegated \subseteq Chunks
           /\ hands[h].channel \in Seq(Results) /\ hands[h].arrived \in [Chunks -> Int]
           /\ hands[h].listening \in BOOLEAN
<1>1. hands[h] \in Hands
  BY DEF Types
<1> QED  BY <1>1 DEF Hands

LEMMA LeaderFields ==
    ASSUME Types
    PROVE  /\ leader \in Leaders /\ leader.chunk \in 0 .. N /\ leader.outs \in 0 .. Tries
           /\ leader.at \in {"starting", "begin", "walk", "room", "done", "failed"}
           /\ video \in Seq(Int) /\ taken \subseteq Chunks
           /\ \A c : HandOf(c) \in Outs
<1>1. leader \in Leaders /\ video \in Seq(Int) /\ taken \subseteq Chunks
  BY DEF Types
<1>2. leader.chunk \in 0 .. N /\ leader.outs \in 0 .. Tries
  BY <1>1 DEF Leaders
<1>3. leader.at \in {"starting", "begin", "walk", "room", "done", "failed"}
  BY <1>1 DEF Leaders
<1>4. 1 \in Outs /\ leader.outs + 1 \in Outs
  BY <1>2, HandoutAssumption DEF Outs
<1>5. \A c : HandOf(c) \in Outs
  BY <1>4 DEF HandOf
<1> QED  BY <1>1, <1>2, <1>3, <1>5

LEMMA SilentIs ==
    /\ Silent \in Hands /\ Silent.delegated = {} /\ Silent.channel = <<>>
    /\ Silent.arrived = [c \in Chunks |-> NoCanvas] /\ Silent.listening = FALSE
<1>1. [c \in Chunks |-> NoCanvas] \in [Chunks -> Int]
  BY DEF NoCanvas
<1>2. <<>> \in Seq(Results) /\ {} \in SUBSET Chunks /\ FALSE \in BOOLEAN
  OBVIOUS
<1> QED  BY <1>1, <1>2 DEF Silent, Hands

(* What a hand-out of the chunks S does. *)
HandsOver(h, S) ==
    /\ hands' \in [Outs -> Hands] /\ threads' \in [Asks -> Threads]
    /\ lines' \in [Asks -> Lines] /\ sessions' \in [Asks -> Sessions]
    /\ hands'[h].channel = <<>> /\ hands'[h].listening
    /\ \A c \in Chunks : hands'[h].arrived[c] = NoCanvas
    /\ \A k \in Outs \ {h} : hands'[k] = IF k = 1 THEN hands[k] ELSE Silent
    /\ \A c \in hands'[h].delegated : \E w \in Workers : c \in Members(threads'[<<h, w>>].mine)
    /\ \A t \in Asks : t[1] # h => threads'[t] = threads[t]
    /\ faults \subseteq faults'
    /\ Workers = {} => hands'[h].delegated = {}
    /\ faults' = {} /\ Workers # {} => S \subseteq hands'[h].delegated
    /\ \A t \in Asks : Sound(t)'

LEMMA HandedOver ==
    ASSUME Types, NEW h \in Outs, NEW S, S \subseteq Chunks,
           NEW answered, answered \subseteq Workers, NEW joined, joined \subseteq Ends,
           HandOut(h, InOrder(S), answered, joined), handed' = handed,
           \A t \in Asks : Sound(t), \A w \in Workers : threads[<<h, w>>].at = "over"
    PROVE  HandsOver(h, S)
<1> DEFINE chunks == InOrder(S)
           count == Cardinality(answered)
           mine(w) == Share(chunks, count, Place(w, answered))
           started == {w \in answered : mine(w) # <<>>}
           delegated == UNION {Members(mine(w)) : w \in started}
           hand == [delegated |-> delegated, channel |-> <<>>,
                    arrived |-> [c \in Chunks |-> NoCanvas], listening |-> TRUE]
           th(t) == [at |-> "idle", mine |-> mine(t[2]), request |-> 1, canvas |-> NoCanvas,
                     ok |-> TRUE]
           ln(t) == [up |-> TRUE, open |-> TRUE, out |-> <<>>, back |-> <<>>,
                     joined |-> IF Paths[t[2]] = "memory" THEN joined ELSE {}]
           ss == [at |-> "ready", staging |-> NoCanvas]
           new(t) == t[1] = h /\ t[2] \in started
<1>1. /\ hands' = [k \in Outs |-> IF k = h THEN hand ELSE IF k = 1 THEN hands[k] ELSE Silent]
      /\ threads' = [t \in Asks |-> IF new(t) THEN th(t) ELSE threads[t]]
      /\ lines' = [t \in Asks |-> IF new(t) THEN ln(t) ELSE lines[t]]
      /\ sessions' = [t \in Asks |-> IF new(t) THEN ss ELSE sessions[t]]
      /\ faults' = faults \cup (IF answered # Workers THEN {"refuse"} ELSE {})
                          \cup (IF joined # Ends THEN {"join"} ELSE {})
  BY DEF HandOut
<1>2. chunks \in Seq(Chunks) /\ Members(chunks) = S
  BY InOrderAre
<1> HIDE DEF chunks
<1>3. \A w \in answered : mine(w) \in Seq(Chunks)
  BY <1>2, Places, SharesAre
<1>4. \A s \in Seq(Chunks) : Members(s) \subseteq Chunks
  BY DEF Members
<1>5. delegated \subseteq Chunks
  <2> HIDE DEF mine
  <2> QED  BY <1>3, <1>4
<1>6. answered = Workers /\ Workers # {} => S \subseteq delegated
  <2> SUFFICES ASSUME answered = Workers, Workers # {}, NEW c \in S PROVE c \in delegated
    OBVIOUS
  <2>1. count = Len(Paths) /\ count \in Nat \ {0} /\ \A w \in Workers : Place(w, answered) = w
    BY Places
  <2>2. PICK i \in 1 .. count : c \in Members(Share(chunks, count, i))
    BY <1>2, <2>1, SharesAre
  <2>3. i \in Workers
    BY <2>1, HandoutAssumption DEF Workers
  <2>4. mine(i) = Share(chunks, count, i)
    BY <2>1, <2>3
  <2> HIDE DEF mine
  <2>5. c \in Members(mine(i))
    BY <2>2, <2>4
  <2>6. mine(i) # <<>>
    <3>1. Members(<<>>) = {}  BY DEF Members
    <3> QED  BY <2>5, <3>1
  <2> QED  BY <2>3, <2>5, <2>6
<1> HIDE DEF mine, count
<1>7. hand \in Hands
  <2>1. [c \in Chunks |-> NoCanvas] \in [Chunks -> Int]
    BY DEF NoCanvas
  <2> HIDE DEF delegated
  <2> QED  BY <1>5, <2>1 DEF Hands
<1>8. ASSUME NEW t \in Asks, new(t)
      PROVE  /\ th(t) \in Threads /\ ln(t) \in Lines /\ ss \in Sessions
             /\ th(t).mine # <<>> /\ t \in Asks /\ threads[t].at = "over"
  <2>1. mine(t[2]) \in Seq(Chunks) /\ mine(t[2]) # <<>>
    BY <1>3, <1>8
  <2>2. NoCanvas \in Int /\ 1 \in Int /\ TRUE \in BOOLEAN
    BY DEF NoCanvas
  <2>3. th(t) \in Threads
    BY <2>1, <2>2 DEF Threads
  <2>4. ln(t) \in Lines
    BY DEF Lines
  <2>5. ss \in Sessions
    BY <2>2 DEF Sessions
  <2>6. t = <<h, t[2]>> /\ t[2] \in Workers
    BY <1>8 DEF Asks
  <2> QED  BY <2>1, <2>3, <2>4, <2>5, <2>6
<1> HIDE DEF hand, th, ln, ss, started
<1>9. /\ hands' \in [Outs -> Hands] /\ hands'[h] = hand
      /\ \A k \in Outs \ {h} : hands'[k] = IF k = 1 THEN hands[k] ELSE Silent
  <2>1. hands \in [Outs -> Hands] /\ Silent \in Hands
    BY SilentIs DEF Types
  <2> QED  BY <1>1, <1>7, <2>1
<1>10. /\ threads' \in [Asks -> Threads] /\ lines' \in [Asks -> Lines]
       /\ sessions' \in [Asks -> Sessions]
  <2>1. /\ threads \in [Asks -> Threads] /\ lines \in [Asks -> Lines]
        /\ sessions \in [Asks -> Sessions]
    BY DEF Types
  <2> HIDE DEF new
  <2>2. threads' \in [Asks -> Threads]  BY <1>1, <1>8, <2>1
  <2>3. lines' \in [Asks -> Lines]  BY <1>1, <1>8, <2>1
  <2>4. sessions' \in [Asks -> Sessions]  BY <1>1, <1>8, <2>1
  <2> QED  BY <2>2, <2>3, <2>4
<1>11. /\ hand.channel = <<>> /\ hand.listening /\ hand.delegated = delegated
       /\ \A c \in Chunks : hand.arrived[c] = NoCanvas
  BY DEF hand
<1>12. /\ faults \subseteq faults' /\ (faults' = {} => answered = Workers)
       /\ joined # Ends => faults' # {}
  BY <1>1
<1>13. /\ \A t \in Asks : new(t) => threads'[t] = th(t) /\ lines'[t] = ln(t) /\ sessions'[t] = ss
       /\ \A t \in Asks : ~new(t) => /\ threads'[t] = threads[t] /\ lines'[t] = lines[t]
                                    /\ sessions'[t] = sessions[t]
  <2> HIDE DEF new
  <2> QED  BY <1>1
<1>14. ASSUME NEW c \in delegated
       PROVE  \E w \in Workers : c \in Members(threads'[<<h, w>>].mine)
  <2>1. PICK w \in started : c \in Members(mine(w))
    BY <1>14
  <2>2. w \in Workers /\ <<h, w>> \in Asks /\ new(<<h, w>>)
    BY <2>1 DEF started, Asks
  <2>3. th(<<h, w>>).mine = mine(w)
    BY DEF th
  <2>4. threads'[<<h, w>>].mine = mine(w)
    BY <1>13, <2>2, <2>3
  <2> QED  BY <2>1, <2>2, <2>4
<1>15. \A t \in Asks : Lies(t)' = Lies(t)
  BY DEF Lies
<1>16. ASSUME NEW t \in Asks, new(t)
       PROVE  Sound(t)'
  <2>1. Lies(t) = {}
    <3>1. threads[t].at = "over" /\ Sound(t)  BY <1>8, <1>16
    <3> QED  BY <3>1 DEF Sound, Over, Still
  <2>2. /\ threads'[t].at = "idle" /\ threads'[t].mine # <<>> /\ sessions'[t].at = "ready"
        /\ lines'[t].out = <<>> /\ lines'[t].back = <<>>
    <3>1. th(t).at = "idle" /\ ln(t).out = <<>> /\ ln(t).back = <<>> /\ ss.at = "ready"
      BY DEF th, ln, ss
    <3> QED  BY <1>8, <1>13, <1>16, <3>1
  <2>3. lines'[t].up /\ lines'[t].open
    <3>1. ln(t).up = TRUE /\ ln(t).open = TRUE
      BY DEF ln
    <3> QED  BY <1>13, <1>16, <3>1
  <2>4. "worker" \in lines'[t].joined => "leader" \in lines'[t].joined \/ faults' # {}
    <3>1. ln(t).joined = IF Paths[t[2]] = "memory" THEN joined ELSE {}
      BY DEF ln
    <3>2. "leader" \notin joined => joined # Ends
      BY DEF Ends
    <3> QED  BY <1>12, <1>13, <1>16, <3>1, <3>2
  <2>5. Idle(t)'
    BY <1>15, <2>1, <2>2 DEF Idle, Still, InStep
  <2> QED  BY <2>2, <2>3, <2>4, <2>5 DEF Sound
<1>17. ASSUME NEW t \in Asks, ~new(t)
       PROVE  Sound(t)'
  <2>1. Sound(t) /\ threads'[t] = threads[t] /\ lines'[t] = lines[t] /\ sessions'[t] = sessions[t]
    BY <1>13, <1>17
  <2> QED  BY <1>12, <1>15, <2>1, OthersSound
<1>18. Workers = {} => delegated = {}
  BY DEF started
<1>19. \A t \in Asks : t[1] # h => threads'[t] = threads[t]
  BY <1>13
<1> HIDE DEF new, delegated
<1> QED  BY <1>6, <1>9, <1>10, <1>11, <1>12, <1>14, <1>16, <1>17, <1>18, <1>19 DEF HandsOver

-------------------------------------------------------------------------------
(* The walk, and the whole.                                                  *)

Signed == \A id \in handed : id.by \in Asks

IInv ==
    /\ Types /\ Signed
    /\ \A t \in Asks : Sound(t)
    /\ \A h \in Outs : Tidy(h)
    /\ NoneLost /\ Walks

LEMMA KeepsAll ==
    ASSUME IInv, NEW t \in Asks, Keeps(t)
    PROVE  /\ Types'
           /\ \A u \in Asks : Sound(u)'
           /\ \A h \in Outs : Tidy(h)'
           /\ NoneLost' /\ Walks'
<1>1. /\ Types' /\ Sound(t)' /\ hands' = hands /\ leader' = leader /\ video' = video
      /\ taken' = taken /\ faults \subseteq faults'
      /\ \A u \in Asks \ {t} : /\ threads'[u] = threads[u] /\ lines'[u] = lines[u]
                               /\ sessions'[u] = sessions[u] /\ Lies(u)' = Lies(u)
      /\ threads'[t].mine = threads[t].mine
      /\ threads[t].at = "over" => threads'[t].at = "over"
  BY DEF Keeps, Touches
<1>2. \A u \in Asks : Sound(u)'
  <2>1. ASSUME NEW u \in Asks \ {t} PROVE Sound(u)'
    <3>1. Sound(u)  BY DEF IInv
    <3> QED  BY <1>1, <3>1, OthersSound
  <2> QED  BY <1>1, <2>1
<1>3. \A h \in Outs : Tidy(h)'
  <2>1. faults # {} => faults' # {}  BY <1>1
  <2> QED  BY <1>1, <2>1 DEF Tidy, IInv
<1>4. /\ \A u \in Asks : threads'[u].mine = threads[u].mine
      /\ \A u \in Asks : threads[u].at = "over" => threads'[u].at = "over"
  BY <1>1
<1>5. \A h \in Outs, w \in Workers : <<h, w>> \in Asks
  BY DEF Asks
<1>6. NoneLost'
  <2>1. faults' = {} => faults = {}  BY <1>1
  <2>2. ASSUME NEW h \in Outs, NEW c, Coming(h, c) PROVE Coming(h, c)'
    BY <1>1, <1>4, <1>5, <2>2 DEF Coming
  <2>3. \A h, c : Spent(h, c)' = Spent(h, c)
    BY <1>1 DEF Spent, HandOf
  <2> QED  BY <1>1, <2>1, <2>2, <2>3 DEF NoneLost, IInv
<1>7. Walks'
  <2>1. faults # {} => faults' # {}  BY <1>1
  <2>2. Walks  BY DEF IInv
  <2> QED  BY <1>1, <1>4, <1>5, <2>1, <2>2 DEF Walks, Unborn
<1> QED  BY <1>1, <1>2, <1>3, <1>6, <1>7

(* What is told is added to the end of a channel. *)
LEMMA TellsAll ==
    ASSUME IInv, NEW t \in Asks, Tell(t)
    PROVE  /\ Types'
           /\ \A u \in Asks : Sound(u)'
           /\ \A h \in Outs : Tidy(h)'
           /\ NoneLost' /\ Walks'
<1> DEFINE g == t[1]
           r == Result(t)
<1>1. Touches(t) /\ Types' /\ Sound(t)' /\ Tells(t)
  BY TellSound DEF IInv
<1>2. /\ leader' = leader /\ video' = video /\ taken' = taken /\ faults \subseteq faults'
      /\ \A u \in Asks \ {t} : /\ threads'[u] = threads[u] /\ lines'[u] = lines[u]
                               /\ sessions'[u] = sessions[u] /\ Lies(u)' = Lies(u)
  BY <1>1 DEF Touches
<1>3. faults' = faults
  BY DEF Tell
<1>4. \A u \in Asks : Sound(u)'
  <2>1. ASSUME NEW u \in Asks \ {t} PROVE Sound(u)'
    <3>1. Sound(u)  BY DEF IInv
    <3> QED  BY <1>2, <3>1, OthersSound
  <2> QED  BY <1>1, <2>1
<1>5. g \in Outs /\ t[2] \in Workers /\ t = <<g, t[2]>>
  BY DEF Asks
<1>6. /\ threads[t].at = "tell" /\ r \in Results
      /\ r.ok => r.canvas = r.chunk
      /\ ~r.ok => faults # {}
      /\ hands' = IF hands[g].listening
                  THEN [hands EXCEPT ![g].channel = Append(@, r)] ELSE hands
      /\ \A c \in Members(threads[t].mine) :
           \/ c = r.chunk \/ c \in Members(threads'[t].mine)
           \/ ~hands[g].listening \/ faults # {}
  BY <1>1 DEF Tells
<1> HIDE DEF g, r
<1>7. ASSUME NEW h \in Outs
      PROVE  /\ hands'[h].delegated = hands[h].delegated
             /\ hands'[h].listening = hands[h].listening
             /\ hands'[h].arrived = hands[h].arrived
             /\ \/ hands'[h].channel = hands[h].channel /\ (h # g \/ ~hands[h].listening)
                \/ hands'[h].channel = Append(hands[h].channel, r) /\ h = g
  <2>1. hands \in [Outs -> Hands] /\ hands[h] \in Hands
    BY HandFields DEF IInv, Types
  <2>2. CASE h = g /\ hands[g].listening
    <3>1. hands'[h] = [hands[h] EXCEPT !.channel = Append(@, r)]
      BY <1>6, <2>1, <2>2
    <3> QED  BY <2>1, <2>2, <3>1 DEF Hands
  <2>3. CASE h # g \/ ~hands[g].listening
    <3>1. hands'[h] = hands[h]
      BY <1>6, <2>1, <2>3
    <3> QED  BY <2>3, <3>1
  <2> QED  BY <2>2, <2>3
<1>8. ASSUME NEW h \in Outs
      PROVE  /\ \A i \in 1 .. Len(hands[h].channel) :
                  /\ i \in 1 .. Len(hands'[h].channel)
                  /\ hands'[h].channel[i] = hands[h].channel[i]
             /\ \A i \in 1 .. Len(hands'[h].channel) :
                  \/ i \in 1 .. Len(hands[h].channel) /\ hands'[h].channel[i] = hands[h].channel[i]
                  \/ hands'[h].channel[i] = r
             /\ h = g /\ hands[h].listening =>
                  \E i \in 1 .. Len(hands'[h].channel) : hands'[h].channel[i] = r
  <2> DEFINE q == hands[h].channel
  <2>1. q \in Seq(Results) /\ Len(q) \in Nat
    <3>1. q \in Seq(Results)  BY HandFields DEF IInv
    <3> QED  BY <3>1
  <2>2. CASE hands'[h].channel = hands[h].channel /\ (h # g \/ ~hands[h].listening)
    BY <2>2
  <2>3. CASE hands'[h].channel = Append(hands[h].channel, r) /\ h = g
    <3> HIDE DEF q
    <3>1. /\ Len(Append(q, r)) = Len(q) + 1 /\ Append(q, r)[Len(q) + 1] = r
          /\ \A i \in 1 .. Len(q) : Append(q, r)[i] = q[i]
      BY <1>6, <2>1
    <3>2. hands'[h].channel = Append(q, r)
      BY <2>3 DEF q
    <3>3. \A i \in 1 .. Len(q) + 1 : i \in 1 .. Len(q) \/ i = Len(q) + 1
      BY <2>1
    <3>4. /\ \A i \in 1 .. Len(q) : i \in 1 .. Len(q) + 1
          /\ Len(q) + 1 \in 1 .. Len(q) + 1
      BY <2>1
    <3> QED  BY <3>1, <3>2, <3>3, <3>4 DEF q
  <2> QED  BY <1>7, <2>2, <2>3
<1>9. ASSUME NEW h \in Outs PROVE Tidy(h)'
  <2>1. Tidy(h)  BY DEF IInv
  <2> QED  BY <1>3, <1>6, <1>7, <1>8, <2>1, SMTT(60) DEF Tidy
<1>10. \A h \in Outs, w \in Workers : <<h, w>> \in Asks
  BY DEF Asks
<1>11. NoneLost'
  <2> SUFFICES ASSUME faults = {}, NEW h \in Outs, NEW c \in hands[h].delegated
               PROVE  Coming(h, c)' \/ Spent(h, c)'
    BY <1>3, <1>7 DEF NoneLost
  <2>1. Coming(h, c) \/ Spent(h, c)
    BY DEF NoneLost, IInv
  <2>2. Spent(h, c)' = Spent(h, c)
    <3>1. leader.outs + 1 \in Outs
      <4>1. leader.outs \in 0 .. Tries  BY LeaderFields DEF IInv
      <4> QED  BY <4>1, HandoutAssumption DEF Outs
    <3>2. HandOf(c)' = HandOf(c)
      BY <1>2, <1>7, <3>1 DEF HandOf
    <3> QED  BY <1>2, <3>2 DEF Spent
  <2>3. ASSUME NEW w \in Workers, c \in Members(threads[<<h, w>>].mine)
        PROVE  Coming(h, c)'
    <3>1. CASE <<h, w>> # t
      <4>1. threads'[<<h, w>>] = threads[<<h, w>>]
        BY <1>2, <1>10, <3>1
      <4> QED  BY <2>3, <4>1 DEF Coming
    <3>2. CASE <<h, w>> = t
      <4>1. h = g /\ hands[g].listening
        <5>1. Tidy(h)  BY DEF IInv
        <5>2. h = g  BY <1>5, <3>2
        <5> QED  BY <5>1, <5>2 DEF Tidy
      <4>2. c = r.chunk \/ c \in Members(threads'[t].mine)
        BY <1>6, <2>3, <3>2, <4>1
      <4>3. \E i \in 1 .. Len(hands'[h].channel) : hands'[h].channel[i] = r
        BY <1>8, <4>1
      <4> QED  BY <3>2, <4>2, <4>3 DEF Coming
    <3> QED  BY <3>1, <3>2
  <2>4. ASSUME NEW i \in 1 .. Len(hands[h].channel), hands[h].channel[i].chunk = c
        PROVE  Coming(h, c)'
    BY <1>8, <2>4 DEF Coming
  <2>5. hands[h].arrived[c] # NoCanvas => Coming(h, c)'
    BY <1>7 DEF Coming
  <2>6. Coming(h, c) => Coming(h, c)'
    BY <2>3, <2>4, <2>5 DEF Coming
  <2> QED  BY <2>1, <2>2, <2>6
<1>12. Walks'
  <2>1. Walks  BY DEF IInv
  <2>2. \A h \in Outs : Unborn(h) => h # g
    BY <1>5, <1>6, <2>1 DEF Walks
  <2>3. \A h \in Outs, w \in Workers : h # g => threads'[<<h, w>>] = threads[<<h, w>>]
    BY <1>2, <1>5, <1>10
  <2> QED  BY <1>2, <1>3, <1>7, <2>1, <2>2, <2>3 DEF Walks, Unborn
<1> QED  BY <1>1, <1>4, <1>9, <1>11, <1>12

(* What is true of the whole, without the names of what lies on the cards. *)
Whole ==
    /\ Types
    /\ \A t \in Asks : Sound(t)
    /\ \A h \in Outs : Tidy(h)
    /\ NoneLost /\ Walks

LEMMA Stays ==
    ASSUME IInv, UNCHANGED LeaderAnd, faults \subseteq faults'
    PROVE  /\ \A t \in Asks : Sound(t)'
           /\ threads' = threads /\ lines' = lines /\ sessions' = sessions /\ handed' = handed
<1>1. threads' = threads /\ lines' = lines /\ sessions' = sessions /\ handed' = handed
  BY DEF LeaderAnd, wire
<1>2. \A t \in Asks : Lies(t)' = Lies(t)
  BY <1>1 DEF Lies
<1>3. ASSUME NEW t \in Asks PROVE Sound(t)'
  <2>1. Sound(t)  BY DEF IInv
  <2> QED  BY <1>1, <1>2, <2>1, OthersSound
<1> QED  BY <1>1, <1>3

LEMMA LeaderAt ==
    ASSUME Types, NEW at \in {"starting", "begin", "walk", "room", "done", "failed"},
           NEW c \in 0 .. N, NEW o \in 0 .. Tries
    PROVE  LET l == [leader EXCEPT !.at = at, !.chunk = c, !.outs = o]
           IN l \in Leaders /\ l.at = at /\ l.chunk = c /\ l.outs = o
  BY LeaderFields DEF Leaders

LEMMA StopsAll ==
    ASSUME IInv, NEW outcome \in {"done", "failed"}, Stop(outcome), UNCHANGED LeaderAnd,
           UNCHANGED <<video, taken>>, faults \subseteq faults',
           outcome = "failed" => faults' # {}, outcome = "done" => Len(video) = N
    PROVE  Whole'
<1>1. /\ leader' = [leader EXCEPT !.at = outcome] /\ hands' = [h \in Outs |-> Silent]
      /\ video' = video /\ taken' = taken
  BY DEF Stop
<1>2. leader \in Leaders /\ video \in Seq(Int) /\ taken \subseteq Chunks
  BY LeaderFields DEF IInv
<1>3. leader' \in Leaders /\ leader'.at = outcome
  BY <1>1, <1>2 DEF Leaders
<1>4. Types'
  BY <1>1, <1>2, <1>3, SilentIs, Stays DEF Types, IInv
<1>5. \A h \in Outs : hands'[h] = Silent
  BY <1>1
<1>6. \A h \in Outs : /\ hands'[h].delegated = {} /\ hands'[h].channel = <<>>
                      /\ ~hands'[h].listening
                      /\ \A c \in Chunks : hands'[h].arrived[c] = NoCanvas
  BY <1>5, SilentIs
<1>7. \A h \in Outs : Tidy(h)'
  <2>1. 1 .. Len(<<>>) = {}  OBVIOUS
  <2> QED  BY <1>6, <2>1 DEF Tidy
<1>8. NoneLost'
  BY <1>6 DEF NoneLost
<1>9. Walks'
  <2>1. Walks  BY DEF IInv
  <2>2. \A i \in 1 .. Len(video') : video'[i] = i - 1  BY <1>1, <2>1 DEF Walks
  <2>3. leader'.outs = leader.outs  BY <1>1, <1>2 DEF Leaders
  <2>4. \A h \in Outs : Unborn(h)' => Unborn(h)
    BY <1>3, <2>3 DEF Unborn
  <2>5. \A h \in Outs : Unborn(h)' => \A w \in Workers : threads'[<<h, w>>].at = "over"
    BY <2>1, <2>4, Stays DEF Walks
  <2> QED  BY <1>1, <1>3, <1>6, <2>2, <2>5 DEF Walks
<1> QED  BY <1>4, <1>7, <1>8, <1>9, Stays DEF Whole

(* The walk goes on while the hand-outs stand. *)
LEMMA GoesOn ==
    ASSUME IInv, NEW l \in Leaders, leader' = l, hands' = hands, UNCHANGED LeaderAnd,
           faults' = faults, taken' = taken, video' \in Seq(Int),
           l.outs = leader.outs, l.at \in {"begin", "walk"}, leader.at # "starting",
           \A i \in 1 .. Len(video') : video'[i] = i - 1,
           l.at = "walk" => Len(video') = l.chunk,
           leader.at = "walk" => l.at = "walk" /\ leader.chunk <= l.chunk
    PROVE  Whole'
<1>1. Types'
  BY Stays DEF Types, IInv
<1>2. \A h \in Outs : Tidy(h)'
  BY DEF Tidy, IInv
<1>3. \A c : HandOf(c)' = HandOf(c)
  BY DEF HandOf
<1>4. ASSUME NEW h \in Outs, NEW c \in hands[h].delegated, Coming(h, c) \/ Spent(h, c)
      PROVE  Coming(h, c)' \/ Spent(h, c)'
  <2>1. Coming(h, c) => Coming(h, c)'
    BY Stays DEF Coming
  <2>2. Spent(h, c) => Spent(h, c)'
    <3>1. c \in Int
      BY HandFields DEF IInv, Chunks
    <3>2. leader.chunk \in Int /\ l.chunk \in Int
      BY LeaderFields DEF IInv, Leaders
    <3>3. c < leader.chunk /\ leader.at = "walk" => c < l.chunk /\ l.at = "walk"
      BY <3>1, <3>2
    <3> QED  BY <1>3, <3>3 DEF Spent
  <2> QED  BY <1>4, <2>1, <2>2
<1>5. NoneLost'
  BY <1>4 DEF NoneLost, IInv
<1>6. Walks'
  <2>1. Walks  BY DEF IInv
  <2>2. \A h \in Outs : Unborn(h)' => Unborn(h)
    BY DEF Unborn
  <2>3. l.at # "starting" /\ l.at # "done" /\ l.at # "failed"
    OBVIOUS
  <2> QED  BY <2>1, <2>2, <2>3, Stays DEF Walks
<1> QED  BY <1>1, <1>2, <1>5, <1>6, Stays DEF Whole

LEMMA BeginAll ==
    ASSUME IInv, Begin
    PROVE  Whole'
<1> DEFINE l == [leader EXCEPT !.at = "walk", !.chunk = 0]
<1>1. /\ leader.at = "begin" /\ leader' = l /\ video' = <<>> /\ UNCHANGED LeaderAnd
      /\ taken' = taken /\ hands' = hands /\ faults' = faults
  BY DEF Begin
<1>2. l \in Leaders /\ l.at = "walk" /\ l.chunk = 0 /\ l.outs = leader.outs
  <2>1. leader \in Leaders /\ 0 \in 0 .. N  BY LeaderFields, HandoutAssumption DEF IInv
  <2> QED  BY <2>1 DEF Leaders
<1>3. Len(<<>>) = 0 /\ <<>> \in Seq(Int)
  OBVIOUS
<1>4. Len(video') = 0 /\ 1 .. Len(video') = {} /\ video' \in Seq(Int)
  BY <1>1, <1>3
<1> HIDE DEF l
<1> QED  BY <1>1, <1>2, <1>4, GoesOn

(* A canvas that is put has its own place. *)
LEMMA PutIs ==
    ASSUME IInv, leader.at = "walk", leader.chunk < N, Put(leader.chunk)
    PROVE  \E l \in Leaders :
             /\ leader' = l /\ l.at = "walk" /\ l.chunk = leader.chunk + 1 /\ l.outs = leader.outs
             /\ video' \in Seq(Int) /\ Len(video') = l.chunk
             /\ \A i \in 1 .. Len(video') : video'[i] = i - 1
<1> DEFINE l == [leader EXCEPT !.at = "walk", !.chunk = leader.chunk + 1]
           q == video
<1>1. leader' = l /\ video' = Append(q, leader.chunk)
  BY DEF Put
<1>2. leader \in Leaders /\ leader.chunk \in 0 .. N /\ leader.chunk + 1 \in 0 .. N /\ N \in Nat
  BY LeaderFields, HandoutAssumption DEF IInv
<1>3. l \in Leaders /\ l.at = "walk" /\ l.chunk = leader.chunk + 1 /\ l.outs = leader.outs
  BY <1>2 DEF Leaders
<1>4. q \in Seq(Int) /\ Len(q) = leader.chunk /\ \A i \in 1 .. Len(q) : q[i] = i - 1
  BY LeaderFields DEF IInv, Walks
<1> HIDE DEF l, q
<1>5. /\ Append(q, leader.chunk) \in Seq(Int) /\ Len(Append(q, leader.chunk)) = Len(q) + 1
      /\ \A i \in 1 .. Len(q) : Append(q, leader.chunk)[i] = q[i]
      /\ Append(q, leader.chunk)[Len(q) + 1] = leader.chunk
  BY <1>2, <1>4
<1>6. \A i \in 1 .. Len(q) + 1 : i \in 1 .. Len(q) \/ i = Len(q) + 1
  BY <1>4
<1>7. \A i \in 1 .. Len(video') : video'[i] = i - 1
  BY <1>1, <1>2, <1>4, <1>5, <1>6
<1> QED  BY <1>1, <1>3, <1>4, <1>5, <1>7

LEMMA DecodeItselfAll ==
    ASSUME IInv, DecodeItself
    PROVE  Whole'
<1>1. /\ leader.at = "walk" /\ leader.chunk < N /\ Put(leader.chunk) /\ UNCHANGED LeaderAnd
      /\ taken' = taken /\ hands' = hands /\ faults' = faults
  BY DEF DecodeItself
<1>2. PICK l \in Leaders :
             /\ leader' = l /\ l.at = "walk" /\ l.chunk = leader.chunk + 1 /\ l.outs = leader.outs
             /\ video' \in Seq(Int) /\ Len(video') = l.chunk
             /\ \A i \in 1 .. Len(video') : video'[i] = i - 1
  BY <1>1, PutIs
<1>3. leader.chunk <= l.chunk
  <2>1. leader.chunk \in 0 .. N  BY LeaderFields DEF IInv
  <2> QED  BY <1>2, <2>1
<1> QED  BY <1>1, <1>2, <1>3, GoesOn

(* The hand-out the walk asks, at a chunk it was asked for. *)
LEMMA AskedFor ==
    ASSUME IInv, leader.at = "walk", leader.chunk < N
    PROVE  /\ HandOf(leader.chunk) \in Outs /\ leader.chunk \in Chunks /\ leader.chunk \in Int
           /\ ~Spent(HandOf(leader.chunk), leader.chunk)
<1>1. leader.chunk \in 0 .. N /\ HandOf(leader.chunk) \in Outs
  BY LeaderFields DEF IInv
<1>2. leader.chunk \in Chunks
  BY <1>1, HandoutAssumption DEF Chunks
<1> QED  BY <1>1, <1>2 DEF Spent

LEMMA TakeAll ==
    ASSUME IInv, Take
    PROVE  Whole'
<1> DEFINE c == leader.chunk
           h == HandOf(c)
           canvas == hands[h].arrived[c]
<1>1. /\ leader.at = "walk" /\ leader.chunk < N /\ c \in hands[h].delegated /\ canvas # NoCanvas
      /\ Put(canvas) /\ UNCHANGED LeaderAnd
      /\ hands' = [hands EXCEPT ![h].arrived[c] = NoCanvas]
      /\ taken' = taken \cup {c} /\ faults' = faults
  BY DEF Take
<1>2. h \in Outs /\ c \in Chunks /\ c \in Int
  BY <1>1, AskedFor
<1>3. canvas = c
  <2>1. canvas \in {NoCanvas, c}  BY <1>2 DEF Tidy, IInv
  <2> QED  BY <1>1, <2>1
<1>4. PICK l \in Leaders :
             /\ leader' = l /\ l.at = "walk" /\ l.chunk = c + 1 /\ l.outs = leader.outs
             /\ video' \in Seq(Int) /\ Len(video') = l.chunk
             /\ \A i \in 1 .. Len(video') : video'[i] = i - 1
  BY <1>1, <1>3, PutIs
<1> HIDE DEF c, h
<1>5. /\ hands' \in [Outs -> Hands]
      /\ \A k \in Outs : /\ hands'[k].delegated = hands[k].delegated
                         /\ hands'[k].channel = hands[k].channel
                         /\ hands'[k].listening = hands[k].listening
                         /\ \A d \in Chunks : \/ hands'[k].arrived[d] = hands[k].arrived[d]
                                              \/ /\ hands'[k].arrived[d] = NoCanvas
                                                 /\ k = h /\ d = c
  <2>1. hands \in [Outs -> Hands] /\ hands[h] \in Hands
    BY <1>2, HandFields DEF IInv, Types
  <2> DEFINE new == [hands[h] EXCEPT !.arrived[c] = NoCanvas]
  <2>2. /\ new \in Hands /\ new.delegated = hands[h].delegated /\ new.channel = hands[h].channel
        /\ new.listening = hands[h].listening
        /\ new.arrived = [hands[h].arrived EXCEPT ![c] = NoCanvas]
    <3> DEFINE a == [hands[h].arrived EXCEPT ![c] = NoCanvas]
    <3>1. hands[h].arrived \in [Chunks -> Int]
      BY <2>1 DEF Hands
    <3>2. a \in [Chunks -> Int]
      BY <1>2, <3>1 DEF NoCanvas
    <3>3. new = [hands[h] EXCEPT !.arrived = a]
      OBVIOUS
    <3> HIDE DEF a, new
    <3>4. /\ new \in Hands /\ new.delegated = hands[h].delegated
          /\ new.channel = hands[h].channel /\ new.listening = hands[h].listening
          /\ new.arrived = a
      BY <2>1, <3>2, <3>3 DEF Hands
    <3> QED  BY <3>4 DEF a
  <2>3. \A d \in Chunks : \/ new.arrived[d] = hands[h].arrived[d]
                          \/ new.arrived[d] = NoCanvas /\ d = c
    <3>1. hands[h].arrived \in [Chunks -> Int]  BY <2>1 DEF Hands
    <3> HIDE DEF new
    <3> QED  BY <2>2, <3>1
  <2>4. hands' = [hands EXCEPT ![h] = new]
    BY <1>1
  <2> HIDE DEF new
  <2> QED  BY <1>2, <2>1, <2>2, <2>3, <2>4
<1>6. Types'
  <2>1. taken' \subseteq Chunks  BY <1>1, <1>2, LeaderFields DEF IInv
  <2> QED  BY <1>1, <1>4, <1>5, <2>1, Stays DEF Types, IInv
<1>7. \A k \in Outs : Tidy(k)'
  <2>1. \A k \in Outs : Tidy(k)  BY DEF IInv
  <2> QED  BY <1>1, <1>5, <2>1 DEF Tidy
<1>8. leader.outs + 1 \in Outs
  <2>1. leader.outs \in 0 .. Tries  BY LeaderFields DEF IInv
  <2> QED  BY <2>1, HandoutAssumption DEF Outs
<1>9. \A d : HandOf(d)' = HandOf(d)
  BY <1>4, <1>5, <1>8 DEF HandOf
<1>10. NoneLost'
  <2> SUFFICES ASSUME faults = {}, NEW k \in Outs, NEW d \in hands[k].delegated
               PROVE  Coming(k, d)' \/ Spent(k, d)'
    BY <1>1, <1>5 DEF NoneLost
  <2>1. d \in Chunks /\ d \in Int
    BY HandFields DEF IInv, Chunks
  <2>2. Coming(k, d) \/ Spent(k, d)
    BY DEF NoneLost, IInv
  <2>3. Spent(k, d) => Spent(k, d)'
    <3>1. d < leader.chunk => d < l.chunk
      BY <1>2, <1>4, <2>1 DEF c
    <3> QED  BY <1>1, <1>4, <1>9, <3>1 DEF Spent
  <2>4. CASE k = h /\ d = c
    <3>1. d < l.chunk /\ d \in taken'
      BY <1>1, <1>2, <1>4, <2>4
    <3> QED  BY <1>4, <3>1 DEF Spent
  <2>5. CASE ~(k = h /\ d = c)
    <3>1. Coming(k, d) => Coming(k, d)'
      BY <1>1, <1>5, <2>1, <2>5, Stays DEF Coming
    <3> QED  BY <2>2, <2>3, <3>1
  <2> QED  BY <2>4, <2>5
<1>11. Walks'
  <2>1. Walks  BY DEF IInv
  <2>2. \A k \in Outs : Unborn(k)' => Unborn(k)
    BY <1>1, <1>4 DEF Unborn
  <2> QED  BY <1>1, <1>4, <1>5, <2>1, <2>2, Stays DEF Walks
<1> QED  BY <1>1, <1>6, <1>7, <1>10, <1>11, Stays DEF Whole

LEMMA ReceiveAll ==
    ASSUME IInv, Receive
    PROVE  Whole'
<1> DEFINE c == leader.chunk
           h == HandOf(c)
           q == hands[h].channel
           came == Head(q)
<1>1. /\ leader.at = "walk" /\ leader.chunk < N /\ c \in hands[h].delegated /\ q # <<>>
      /\ UNCHANGED LeaderAnd /\ taken' = taken /\ faults' = faults /\ video' = video
      /\ \/ /\ came.ok
            /\ hands' = [hands EXCEPT ![h].channel = Tail(@),
                                      ![h].arrived[came.chunk] = came.canvas]
            /\ leader' = leader
         \/ ~came.ok /\ Stop("failed")
  BY DEF Receive
<1>2. h \in Outs
  BY <1>1, AskedFor
<1> HIDE DEF c, h
<1>3. q \in Seq(Results) /\ q # <<>> /\ Tidy(h)
  BY <1>1, <1>2, HandFields DEF IInv
<1> HIDE DEF q
<1>4. /\ Tail(q) \in Seq(Results) /\ Len(Tail(q)) = Len(q) - 1 /\ Len(q) \in Nat \ {0}
      /\ \A i \in 1 .. Len(q) - 1 : Tail(q)[i] = q[i + 1] /\ i + 1 \in 1 .. Len(q)
      /\ came = q[1] /\ came \in Results
  BY <1>3, Tails
<1> HIDE DEF came
<1>5. 1 \in 1 .. Len(q)
  BY <1>4
<1>6. /\ came.ok => came.canvas = came.chunk
      /\ ~came.ok => faults # {}
  BY <1>3, <1>4, <1>5 DEF Tidy, q
<1>7. CASE ~came.ok /\ Stop("failed")
  BY <1>1, <1>6, <1>7, StopsAll
<1>8. CASE /\ came.ok
           /\ hands' = [hands EXCEPT ![h].channel = Tail(@), ![h].arrived[came.chunk] = came.canvas]
           /\ leader' = leader
  <2>1. came.chunk \in Chunks /\ came.canvas \in Int /\ came.canvas = came.chunk
    BY <1>4, <1>6, <1>8 DEF Results
  <2> DEFINE d == came.chunk
             a == [hands[h].arrived EXCEPT ![d] = d]
             new == [hands[h] EXCEPT !.channel = Tail(q), !.arrived = a]
  <2> HIDE DEF d
  <2>2. d \in Chunks /\ d \in Int /\ d # NoCanvas
    BY <2>1 DEF d, Chunks, NoCanvas
  <2>3. /\ a \in [Chunks -> Int] /\ a[d] = d
        /\ \A e \in Chunks : e # d => a[e] = hands[h].arrived[e]
    <3>1. hands[h].arrived \in [Chunks -> Int]  BY <1>2, HandFields DEF IInv
    <3> QED  BY <2>2, <3>1
  <2>4. hands' = [hands EXCEPT ![h] = new]
    BY <1>8, <2>1 DEF d, q
  <2> HIDE DEF a
  <2>5. /\ new \in Hands /\ new.delegated = hands[h].delegated
        /\ new.channel = Tail(q) /\ new.listening = hands[h].listening /\ new.arrived = a
    <3>1. hands[h] \in Hands  BY <1>2, HandFields DEF IInv
    <3> QED  BY <1>4, <2>3, <3>1 DEF Hands
  <2> HIDE DEF new
  <2>6. /\ hands' \in [Outs -> Hands] /\ hands'[h] = new
        /\ \A k \in Outs \ {h} : hands'[k] = hands[k]
    <3>1. hands \in [Outs -> Hands]  BY DEF IInv, Types
    <3> QED  BY <1>2, <2>4, <2>5, <3>1
  <2>7. \A k \in Outs : /\ hands'[k].delegated = hands[k].delegated
                        /\ hands'[k].listening = hands[k].listening
    BY <2>5, <2>6
  <2>8. Types'
    BY <1>1, <1>8, <2>6, Stays DEF Types, IInv
  <2>9. ASSUME NEW k \in Outs PROVE Tidy(k)'
    <3>1. CASE k # h
      <4>1. Tidy(k)  BY DEF IInv
      <4> QED  BY <1>1, <2>6, <3>1, <4>1 DEF Tidy
    <3>2. CASE k = h
      <4>1. /\ hands[h].listening \/ hands[h].delegated = {}
            /\ \A i \in 1 .. Len(q) : q[i].ok => q[i].canvas = q[i].chunk
            /\ \A i \in 1 .. Len(q) : ~q[i].ok => faults # {}
            /\ \A e \in Chunks : hands[h].arrived[e] \in {NoCanvas, e}
        BY <1>3 DEF Tidy, q
      <4>2. \A e \in Chunks : a[e] \in {NoCanvas, e}
        BY <2>3, <4>1
      <4>3. \A i \in 1 .. Len(Tail(q)) : \E j \in 1 .. Len(q) : Tail(q)[i] = q[j]
        BY <1>4
      <4>4. /\ \A i \in 1 .. Len(Tail(q)) : Tail(q)[i].ok => Tail(q)[i].canvas = Tail(q)[i].chunk
            /\ \A i \in 1 .. Len(Tail(q)) : ~Tail(q)[i].ok => faults # {}
        BY <4>1, <4>3
      <4>5. /\ new.listening \/ new.delegated = {}
            /\ new.channel = Tail(q) /\ new.arrived = a
        BY <2>5, <4>1
      <4> QED  BY <1>1, <2>6, <3>2, <4>2, <4>4, <4>5 DEF Tidy
    <3> QED  BY <3>1, <3>2
  <2>10. leader.outs + 1 \in Outs
    <3>1. leader.outs \in 0 .. Tries  BY LeaderFields DEF IInv
    <3> QED  BY <3>1, HandoutAssumption DEF Outs
  <2>11. \A k, e : Spent(k, e)' = Spent(k, e)
    <3>1. \A e : HandOf(e)' = HandOf(e)
      BY <1>8, <2>7, <2>10 DEF HandOf
    <3> QED  BY <1>1, <1>8, <3>1 DEF Spent
  <2>12. ASSUME NEW k \in Outs, NEW e \in Chunks, Coming(k, e) PROVE Coming(k, e)'
    <3>1. CASE k # h
      BY <1>1, <2>6, <2>12, <3>1, Stays DEF Coming
    <3>2. CASE k = h
      <4>1. CASE \E w \in Workers : e \in Members(threads[<<h, w>>].mine)
        BY <1>1, <3>2, <4>1, Stays DEF Coming
      <4>2. CASE e = d
        BY <2>2, <2>3, <2>5, <2>6, <3>2, <4>2 DEF Coming
      <4>3. ASSUME NEW i \in 1 .. Len(q), q[i].chunk = e, e # d PROVE Coming(k, e)'
        <5>1. i # 1
          BY <1>4, <4>3 DEF d
        <5>2. i - 1 \in 1 .. Len(q) - 1 /\ (i - 1) + 1 = i
          BY <1>4, <5>1
        <5>3. Tail(q)[i - 1] = q[i] /\ i - 1 \in 1 .. Len(Tail(q))
          BY <1>4, <5>2
        <5>4. hands'[k].channel = Tail(q)
          BY <2>5, <2>6, <3>2
        <5> QED  BY <4>3, <5>3, <5>4 DEF Coming
      <4>4. CASE hands[h].arrived[e] # NoCanvas /\ e # d
        <5>1. a[e] = hands[h].arrived[e]  BY <2>3, <4>4
        <5>2. hands'[k].arrived = a  BY <2>5, <2>6, <3>2
        <5> QED  BY <4>4, <5>1, <5>2 DEF Coming
      <4> QED  BY <2>12, <3>2, <4>1, <4>2, <4>3, <4>4 DEF Coming, q
    <3> QED  BY <3>1, <3>2
  <2>13. NoneLost'
    <3>1. \A k \in Outs : hands[k].delegated \subseteq Chunks
      BY HandFields DEF IInv
    <3> QED  BY <1>1, <2>7, <2>11, <2>12, <3>1 DEF NoneLost, IInv
  <2>14. Walks'
    <3>1. Walks  BY DEF IInv
    <3>2. \A k \in Outs : Unborn(k)' = Unborn(k)
      BY <1>8 DEF Unborn
    <3>3. leader' = leader /\ video' = video /\ taken' = taken /\ faults' = faults
      BY <1>1, <1>8
    <3>4. threads' = threads
      BY <1>1, Stays
    <3> QED  BY <2>7, <3>1, <3>2, <3>3, <3>4 DEF Walks
  <2> QED  BY <1>1, <2>8, <2>9, <2>13, <2>14, Stays DEF Whole
<1> QED  BY <1>1, <1>7, <1>8

(* Nothing is missing at the end of a channel unless something failed. *)
LEMMA NeverCameAll ==
    ASSUME IInv, NeverCame
    PROVE  Whole'
<1> DEFINE c == leader.chunk
           h == HandOf(c)
<1>1. /\ leader.at = "walk" /\ leader.chunk < N /\ c \in hands[h].delegated
      /\ hands[h].arrived[c] = NoCanvas /\ hands[h].channel = <<>>
      /\ \A w \in Workers : threads[<<h, w>>].at = "over"
      /\ Stop("failed") /\ UNCHANGED <<video, taken, faults, LeaderAnd>>
  BY DEF NeverCame
<1>2. h \in Outs /\ ~Spent(h, c)
  BY <1>1, AskedFor
<1> HIDE DEF c, h
<1>3. ~Coming(h, c)
  <2>1. \A w \in Workers : threads[<<h, w>>].mine = <<>>
    <3> TAKE w \in Workers
    <3>1. <<h, w>> \in Asks  BY <1>2 DEF Asks
    <3>2. Sound(<<h, w>>)  BY <3>1 DEF IInv
    <3> QED  BY <1>1, <3>2 DEF Sound, Over
  <2>2. Members(<<>>) = {}  BY DEF Members
  <2>3. 1 .. Len(<<>>) = {}  OBVIOUS
  <2> QED  BY <1>1, <2>1, <2>2, <2>3 DEF Coming
<1>4. faults # {}
  BY <1>1, <1>2, <1>3 DEF NoneLost, IInv
<1> QED  BY <1>1, <1>4, StopsAll

LEMMA FinishAll ==
    ASSUME IInv, Finish
    PROVE  Whole'
<1>1. /\ leader.at = "walk" /\ leader.chunk = N /\ Stop("done")
      /\ UNCHANGED <<video, taken, faults, LeaderAnd>>
  BY DEF Finish
<1>2. Len(video) = N
  BY <1>1 DEF IInv, Walks
<1> QED  BY <1>1, <1>2, StopsAll

LEMMA MakeRoomAll ==
    ASSUME IInv, MakeRoom
    PROVE  Whole'
<1>1. leader.at = "room" /\ UNCHANGED <<video, taken, LeaderAnd>>
  BY DEF MakeRoom
<1>2. CASE leader' = [leader EXCEPT !.at = "begin"] /\ UNCHANGED <<hands, faults>>
  <2> DEFINE l == [leader EXCEPT !.at = "begin"]
  <2>1. l \in Leaders /\ l.at = "begin" /\ l.outs = leader.outs
    BY LeaderFields DEF IInv, Leaders
  <2>2. leader' = l
    BY <1>2
  <2>3. \A i \in 1 .. Len(video') : video'[i] = i - 1
    BY <1>1 DEF IInv, Walks
  <2>4. video' \in Seq(Int)
    BY <1>1, LeaderFields DEF IInv
  <2> HIDE DEF l
  <2> QED  BY <1>1, <1>2, <2>1, <2>2, <2>3, <2>4, GoesOn
<1>3. CASE Stop("failed") /\ faults' = faults \cup {"room"}
  <2>1. faults \subseteq faults' /\ faults' # {}  BY <1>3
  <2> QED  BY <1>1, <1>3, <2>1, StopsAll
<1> QED  BY <1>2, <1>3 DEF MakeRoom

(* A new hand-out of everything that was taken. *)
LEMMA HandedAll ==
    ASSUME IInv, NEW h \in Outs, NEW S, taken \subseteq S, HandsOver(h, S),
           NEW l \in Leaders, leader' = l, l.outs + 1 = h, l.at \in {"begin", "room"},
           UNCHANGED <<video, taken>>, \A k \in Outs : k >= h => Unborn(k)
    PROVE  Whole'
<1>1. /\ hands' \in [Outs -> Hands] /\ threads' \in [Asks -> Threads]
      /\ lines' \in [Asks -> Lines] /\ sessions' \in [Asks -> Sessions]
      /\ hands'[h].channel = <<>> /\ hands'[h].listening
      /\ \A c \in Chunks : hands'[h].arrived[c] = NoCanvas
      /\ \A k \in Outs \ {h} : hands'[k] = IF k = 1 THEN hands[k] ELSE Silent
      /\ \A c \in hands'[h].delegated : \E w \in Workers : c \in Members(threads'[<<h, w>>].mine)
      /\ \A t \in Asks : t[1] # h => threads'[t] = threads[t]
      /\ faults \subseteq faults'
      /\ Workers = {} => hands'[h].delegated = {}
      /\ faults' = {} /\ Workers # {} => S \subseteq hands'[h].delegated
      /\ \A t \in Asks : Sound(t)'
  BY DEF HandsOver
<1>2. Types'
  BY <1>1 DEF Types, IInv
<1>3. \A k \in Outs, w \in Workers : <<k, w>> \in Asks
  BY DEF Asks
<1>4. \A k \in Outs : k \in Int /\ k >= 1
  BY HandoutAssumption DEF Outs
<1>5. ASSUME NEW k \in Outs PROVE Tidy(k)'
  <2>1. 1 .. Len(<<>>) = {}  OBVIOUS
  <2>2. CASE k = h
    BY <1>1, <2>1, <2>2 DEF Tidy
  <2>3. CASE k # h /\ k = 1
    <3>1. hands'[k] = hands[k] /\ Tidy(k)  BY <1>1, <2>3 DEF IInv
    <3>2. faults # {} => faults' # {}  BY <1>1
    <3> QED  BY <3>1, <3>2 DEF Tidy
  <2>4. CASE k # h /\ k # 1
    <3>1. hands'[k] = Silent  BY <1>1, <2>4
    <3> QED  BY <2>1, <3>1, SilentIs DEF Tidy
  <2> QED  BY <2>2, <2>3, <2>4
<1>6. NoneLost'
  <2> SUFFICES ASSUME faults' = {}, NEW k \in Outs, NEW c \in hands'[k].delegated
               PROVE  Coming(k, c)' \/ Spent(k, c)'
    BY DEF NoneLost
  <2>1. CASE k = h
    BY <1>1, <2>1 DEF Coming
  <2>2. CASE k # h /\ k = 1
    <3>1. hands'[k] = hands[k] /\ c \in hands[k].delegated /\ faults = {}
      BY <1>1, <2>2
    <3>2. Coming(k, c) \/ Spent(k, c)
      BY <3>1 DEF NoneLost, IInv
    <3>3. \A w \in Workers : threads'[<<k, w>>] = threads[<<k, w>>]
      BY <1>1, <1>3, <2>2
    <3>4. Coming(k, c) => Coming(k, c)'
      BY <3>1, <3>3 DEF Coming
    <3>5. ASSUME Spent(k, c) PROVE Spent(k, c)'
      <4>1. c \in taken /\ c \in S  BY <3>5 DEF Spent
      <4>2. Workers # {}  BY <3>1 DEF IInv, Walks
      <4>3. c \in hands'[h].delegated  BY <1>1, <4>1, <4>2
      <4>4. l.outs + 1 > 1  BY <1>4, <2>2
      <4>5. HandOf(c)' = h  BY <1>1, <4>3, <4>4 DEF HandOf
      <4> QED  BY <2>2, <4>1, <4>5 DEF Spent
    <3> QED  BY <3>2, <3>4, <3>5
  <2>3. CASE k # h /\ k # 1
    <3>1. hands'[k] = Silent  BY <1>1, <2>3
    <3> QED  BY <3>1, SilentIs
  <2> QED  BY <2>1, <2>2, <2>3
<1>7. Walks'
  <2>1. Walks  BY DEF IInv
  <2>2. \A k \in Outs : Unborn(k)' => k # h /\ k # 1 /\ Unborn(k)
    BY <1>4 DEF Unborn
  <2>3. ASSUME NEW k \in Outs, Unborn(k)'
        PROVE  /\ \A w \in Workers : threads'[<<k, w>>].at = "over"
               /\ hands'[k].delegated = {} /\ ~hands'[k].listening
    <3>1. k # h /\ k # 1 /\ Unborn(k)  BY <2>2, <2>3
    <3>2. hands'[k] = Silent  BY <1>1, <3>1
    <3>3. \A w \in Workers : threads'[<<k, w>>] = threads[<<k, w>>]  BY <1>1, <1>3, <3>1
    <3> QED  BY <2>1, <3>1, <3>2, <3>3, SilentIs DEF Walks
  <2>4. ASSUME Workers = {}, NEW k \in Outs PROVE hands'[k].delegated = {}
    <3>1. hands[k].delegated = {}  BY <2>1, <2>4 DEF Walks
    <3> QED  BY <1>1, <2>4, <3>1, SilentIs
  <2>5. \A i \in 1 .. Len(video') : video'[i] = i - 1  BY <2>1 DEF Walks
  <2> QED  BY <2>3, <2>4, <2>5 DEF Walks
<1> QED  BY <1>1, <1>2, <1>5, <1>6, <1>7 DEF Whole

LEMMA AnsweringIs ==
    /\ \A answered \in Answering : answered \subseteq Workers
    /\ \A joined \in Joining : joined \subseteq Ends
  BY DEF Answering, Joining

LEMMA StartAll ==
    ASSUME IInv, Start
    PROVE  Whole'
<1> DEFINE l == [leader EXCEPT !.at = "begin"]
<1>1. leader.at = "starting" /\ leader' = l /\ UNCHANGED <<video, taken, handed>>
  BY DEF Start
<1>2. PICK answered \in Answering, joined \in Joining :
           HandOut(1, InOrder(Chunks), answered, joined)
  BY DEF Start
<1>3. leader.outs = 0 /\ taken = {} /\ \A k \in Outs : Unborn(k)
  BY <1>1 DEF IInv, Walks, Unborn
<1>4. l \in Leaders /\ l.at = "begin" /\ l.outs = 0
  BY <1>3, LeaderFields DEF IInv, Leaders
<1>5. 1 \in Outs
  BY HandoutAssumption DEF Outs
<1>6. \A w \in Workers : threads[<<1, w>>].at = "over"
  BY <1>3, <1>5 DEF IInv, Walks
<1>7. HandsOver(1, Chunks)
  BY <1>1, <1>2, <1>5, <1>6, AnsweringIs, HandedOver DEF IInv
<1> HIDE DEF l
<1> QED  BY <1>1, <1>3, <1>4, <1>5, <1>7, HandedAll

LEMMA RunOutAll ==
    ASSUME IInv, RunOut
    PROVE  Whole'
<1> DEFINE l == [leader EXCEPT !.at = "room", !.outs = @ + 1]
           h == leader.outs + 2
<1>1. /\ leader.at \in {"begin", "walk"} /\ leader.outs < Tries /\ leader' = l
      /\ UNCHANGED <<video, taken, handed>>
  BY DEF RunOut, MayRunOut
<1>2. leader.outs \in 0 .. Tries /\ leader \in Leaders /\ leader.outs + 1 \in 0 .. Tries
      /\ Tries \in Nat
  <2>1. leader.outs \in 0 .. Tries /\ leader \in Leaders /\ Tries \in Nat
    BY LeaderFields, HandoutAssumption DEF IInv
  <2> QED  BY <1>1, <2>1
<1>3. l \in Leaders /\ l.at = "room" /\ l.outs = leader.outs + 1
  BY <1>2 DEF Leaders
<1>4. h \in Outs /\ h = l.outs + 1
  BY <1>2, <1>3 DEF Outs
<1>5. \A k \in Outs : k >= h => Unborn(k)
  BY <1>2 DEF Unborn, Outs
<1> HIDE DEF l
<1>6. CASE taken # {}
  <2>1. PICK answered \in Answering, joined \in Joining :
           HandOut(h, InOrder(taken), answered, joined)
    BY <1>6 DEF RunOut
  <2>2. \A w \in Workers : threads[<<h, w>>].at = "over"
    <3>1. h \in Int  BY <1>2
    <3>2. Unborn(h)  BY <1>4, <1>5, <3>1
    <3> QED  BY <1>4, <3>2 DEF IInv, Walks
  <2>3. taken \subseteq Chunks
    BY LeaderFields DEF IInv
  <2> HIDE DEF h
  <2>4. HandsOver(h, taken)
    BY <1>1, <1>4, <2>1, <2>2, <2>3, AnsweringIs, HandedOver DEF IInv
  <2> QED  BY <1>1, <1>3, <1>4, <1>5, <2>4, HandedAll
<1>7. CASE taken = {}
  <2>1. UNCHANGED <<hands, threads, lines, sessions, faults>>
    BY <1>7 DEF RunOut
  <2>2. UNCHANGED LeaderAnd /\ faults \subseteq faults'
    BY <1>1, <2>1 DEF LeaderAnd, wire
  <2>3. Types'
    BY <1>1, <1>3, <2>1 DEF Types, IInv
  <2>4. \A k \in Outs : Tidy(k)'
    BY <2>1 DEF Tidy, IInv
  <2>5. NoneLost'
    <3>1. \A k, c : ~Spent(k, c)
      BY <1>7 DEF Spent
    <3>2. \A k, c : Coming(k, c)' = Coming(k, c)
      BY <2>1 DEF Coming
    <3> QED  BY <2>1, <3>1, <3>2 DEF NoneLost, IInv
  <2>6. Walks'
    <3>1. Walks  BY DEF IInv
    <3>2. \A k \in Outs : Unborn(k)' => Unborn(k)
      <4>1. \A k \in Outs : k \in Int  BY DEF Outs
      <4> QED  BY <1>1, <1>2, <1>3, <4>1 DEF Unborn
    <3> QED  BY <1>1, <1>3, <2>1, <3>1, <3>2 DEF Walks
  <2> QED  BY <2>2, <2>3, <2>4, <2>5, <2>6, Stays DEF Whole
<1> QED  BY <1>6, <1>7

-------------------------------------------------------------------------------
(* The theorems.                                                             *)

LEMMA Begins ==
    ASSUME Init
    PROVE  IInv
<1>1. /\ leader = [at |-> "starting", chunk |-> 0, outs |-> 0] /\ video = <<>> /\ taken = {}
      /\ \A h \in Outs : hands[h] = Silent
      /\ \A t \in Asks : /\ threads[t] = NoThread /\ lines[t] = NoLine
                         /\ sessions[t] = [at |-> "over", staging |-> NoCanvas]
      /\ handed = {} /\ faults = {}
  BY DEF Init
<1>2. NoThread \in Threads /\ NoLine \in Lines
      /\ [at |-> "over", staging |-> NoCanvas] \in Sessions
  <2>1. NoCanvas \in Int /\ TRUE \in BOOLEAN /\ FALSE \in BOOLEAN  BY DEF NoCanvas
  <2>2. NoThread \in Threads  BY <2>1 DEF NoThread, Threads
  <2>3. NoLine \in Lines  BY <2>1 DEF NoLine, Lines
  <2>4. [at |-> "over", staging |-> NoCanvas] \in Sessions  BY <2>1 DEF Sessions
  <2> QED  BY <2>2, <2>3, <2>4
<1>3. leader \in Leaders
  BY <1>1, HandoutAssumption DEF Leaders
<1>4. Types
  <2>1. hands \in [Outs -> Hands]
    <3>1. hands = [h \in Outs |-> Silent]  BY DEF Init
    <3> QED  BY <3>1, SilentIs
  <2>2. threads \in [Asks -> Threads]
    <3>1. threads = [t \in Asks |-> NoThread]  BY DEF Init
    <3> QED  BY <1>2, <3>1
  <2>3. lines \in [Asks -> Lines]
    <3>1. lines = [t \in Asks |-> NoLine]  BY DEF Init
    <3> QED  BY <1>2, <3>1
  <2>4. sessions \in [Asks -> Sessions]
    <3>1. sessions = [t \in Asks |-> [at |-> "over", staging |-> NoCanvas]]  BY DEF Init
    <3> QED  BY <1>2, <3>1
  <2>5. video \in Seq(Int) /\ taken \subseteq Chunks
    BY <1>1
  <2> QED  BY <1>3, <2>1, <2>2, <2>3, <2>4, <2>5 DEF Types
<1>5. ASSUME NEW t \in Asks PROVE Sound(t)
  <2>1. /\ threads[t].at = "over" /\ threads[t].mine = <<>> /\ sessions[t].at = "over"
        /\ lines[t].out = <<>> /\ lines[t].back = <<>> /\ lines[t].joined = {}
    <3>1. /\ NoThread.at = "over" /\ NoThread.mine = <<>> /\ NoLine.out = <<>>
          /\ NoLine.back = <<>> /\ NoLine.joined = {}
      BY DEF NoThread, NoLine
    <3> QED  BY <1>1, <3>1
  <2>2. ~lines[t].up /\ ~lines[t].open
    <3>1. NoLine.up = FALSE /\ NoLine.open = FALSE  BY DEF NoLine
    <3> QED  BY <1>1, <3>1
  <2>3. Over(t)
    BY <1>1, <2>1, <2>2 DEF Over, Still, Lies
  <2> QED  BY <2>1, <2>2, <2>3 DEF Sound
<1>6. 1 .. Len(<<>>) = {}
  OBVIOUS
<1>7. ASSUME NEW h \in Outs PROVE Tidy(h)
  BY <1>1, <1>6, SilentIs DEF Tidy
<1>8. NoneLost
  BY <1>1, SilentIs DEF NoneLost
<1>9. Walks
  <2>1. \A h \in Outs, w \in Workers : threads[<<h, w>>].at = "over"
    <3>1. \A h \in Outs, w \in Workers : <<h, w>> \in Asks  BY DEF Asks
    <3>2. NoThread.at = "over"  BY DEF NoThread
    <3> QED  BY <1>1, <3>1, <3>2
  <2>2. leader.at = "starting" /\ leader.outs = 0  BY <1>1
  <2> QED  BY <1>1, <1>6, <2>1, <2>2, SilentIs DEF Walks
<1>10. Signed
  BY <1>1 DEF Signed
<1> QED  BY <1>4, <1>5, <1>7, <1>8, <1>9, <1>10 DEF IInv

(* Who hands over a canvas is one of the asks. *)
LEMMA SignedStays ==
    ASSUME Signed, [Next]_vars
    PROVE  Signed'
<1>1. ASSUME NEW t \in Asks, Thread(t) \/ Session(t) \/ Break(t) PROVE Signed'
  <2>1. handed' \subseteq handed \/ \E c : handed' = handed \cup {[by |-> t, chunk |-> c]}
    BY <1>1 DEF Thread, Session, Ask, Hear, Lose, Read, Tell, DecodeFails, DecodeHere,
                DecodeStaged, RegisterFails, DecodeSent, Released, Closed, Break, wire
  <2> QED  BY <2>1 DEF Signed
<1>2. ASSUME Start \/ Leader \/ RunOut \/ UNCHANGED vars PROVE Signed'
  <2>1. handed' = handed
    BY <1>2 DEF Start, Leader, RunOut, Begin, Take, Receive, NeverCame, DecodeItself, Finish,
                MakeRoom, LeaderAnd, wire, vars
  <2> QED  BY <2>1 DEF Signed
<1> QED  BY <1>1, <1>2 DEF Next, Exited

LEMMA Steps ==
    ASSUME IInv, [Next]_vars
    PROVE  IInv'
<1>1. Signed'
  BY SignedStays DEF IInv
<1>2. ASSUME NEW t \in Asks, Thread(t) \/ Session(t) \/ Break(t) PROVE Whole'
  <2>1. CASE Tell(t)
    BY <2>1, TellsAll DEF Whole
  <2>2. CASE ~Tell(t)
    <3>1. Keeps(t)
      BY <1>2, <2>2, AsksKeep DEF IInv
    <3> QED  BY <3>1, KeepsAll DEF Whole
  <2> QED  BY <2>1, <2>2
<1>3. ASSUME Leader PROVE Whole'
  BY <1>3, BeginAll, TakeAll, ReceiveAll, NeverCameAll, DecodeItselfAll, FinishAll, MakeRoomAll
     DEF Leader
<1>4. ASSUME UNCHANGED vars PROVE Whole'
  <2>1. /\ threads' = threads /\ lines' = lines /\ sessions' = sessions /\ handed' = handed
        /\ leader' = leader /\ video' = video /\ taken' = taken /\ hands' = hands
        /\ faults' = faults
    BY <1>4 DEF vars, walk, wire
  <2>2. \A t \in Asks : Sound(t)'
    <3>1. UNCHANGED LeaderAnd /\ faults \subseteq faults'  BY <2>1 DEF LeaderAnd, wire
    <3> QED  BY <3>1, Stays
  <2>3. Types'  BY <2>1 DEF Types, IInv
  <2>4. \A h \in Outs : Tidy(h)'  BY <2>1 DEF Tidy, IInv
  <2>5. NoneLost'
    BY <2>1 DEF NoneLost, Coming, Spent, HandOf, IInv
  <2>6. Walks'  BY <2>1 DEF Walks, Unborn, IInv
  <2> QED  BY <2>2, <2>3, <2>4, <2>5, <2>6 DEF Whole
<1>5. Whole'
  BY <1>2, <1>3, <1>4, StartAll, RunOutAll DEF Next, Exited
<1> QED  BY <1>1, <1>5 DEF Whole, IInv

LEMMA Invariant == Spec => []IInv
<1>1. Init => IInv
  BY Begins
<1>2. IInv /\ [Next]_vars => IInv'
  BY Steps
<1> QED  BY <1>1, <1>2, PTL DEF Spec

(* Every canvas of the video is its chunk's own and in its own place, and a decode that is done
   has them all, whoever decoded them, in whatever order they came, and however often the walk
   of `decode_device_with` started over with the hand-outs that still stood.                   *)
THEOREM CanvasesFindTheirPlaces == Spec => []InItsPlace
<1>1. IInv => InItsPlace
  <2> SUFFICES ASSUME IInv PROVE InItsPlace
    OBVIOUS
  <2>1. DOMAIN video = 1 .. Len(video)
    <3>1. video \in Seq(Int)  BY LeaderFields DEF IInv
    <3> QED  BY <3>1
  <2> QED  BY <2>1 DEF InItsPlace, IInv, Walks
<1> QED  BY <1>1, Invariant, PTL

(* A decode fails only when a worker, a connection or the room for it did.  That the walk starts
   over is not a reason: the chunks it took are asked for again, all of them.                   *)
THEOREM DecodesFailForAReason == Spec => []FailsForAReason
<1>1. IInv => FailsForAReason
  BY DEF IInv, Walks, FailsForAReason
<1> QED  BY <1>1, Invariant, PTL

(* A canvas a session left on the card of its process is named by the answer that is on its way
   to the thread that waits for it, so none is forgotten in HANDED, whatever became of the
   hand-out it was for.                                                                         *)
THEOREM HandedCanvasesAreTaken == Spec => []NothingHandedStays
<1>1. IInv => NothingHandedStays
  <2> SUFFICES ASSUME IInv, NEW id \in handed
               PROVE  /\ threads[id.by].at = "waiting"
                      /\ \E i \in DOMAIN lines[id.by].back :
                           /\ lines[id.by].back[i].kind = "handed"
                           /\ lines[id.by].back[i].canvas = id.chunk
    BY DEF NothingHandedStays
  <2> DEFINE t == id.by
  <2>1. t \in Asks /\ Sound(t) /\ id \in Lies(t)
    BY DEF IInv, Signed, Lies
  <2> HIDE DEF t
  <2>2. threads[t].at \in {"idle", "waiting", "reading", "tell", "over"}
    <3>1. threads[t] \in Threads  BY <2>1, Fields DEF IInv
    <3> QED  BY <3>1 DEF Threads
  <2>3. ~Still(t)
    BY <2>1 DEF Still
  <2>4. threads[t].at = "waiting"
    BY <2>1, <2>2, <2>3 DEF Sound, Idle, Reading, Telling, Over
  <2>5. Answered(t)
    BY <2>1, <2>3, <2>4 DEF Sound, Waiting, Asking
  <2>6. /\ Len(lines[t].back) = 1 /\ lines[t].back[1].kind = "handed"
        /\ lines[t].back[1].canvas = Head(threads[t].mine) /\ id = Left(t)
    BY <2>1, <2>5 DEF Answered
  <2>7. id.chunk = Head(threads[t].mine)
    BY <2>6 DEF Left
  <2>8. 1 \in DOMAIN lines[t].back
    <3>1. lines[t].back \in Seq(Replies)  BY <2>1, Fields DEF IInv
    <3> QED  BY <2>6, <3>1
  <2> QED  BY <2>4, <2>6, <2>7, <2>8 DEF t
<1> QED  BY <1>1, Invariant, PTL
================================================================================
