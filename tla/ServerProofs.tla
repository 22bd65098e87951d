----------------------------- MODULE ServerProofs ------------------------------
(***************************************************************************)
(* Theorems about the jobs of Server and the tables of Resident.           *)
(*                                                                         *)
(* A generation keeps its files from the moment it is taken off the queue  *)
(* until it ends, one said to be done has its video, nothing is left of    *)
(* one the table no longer knows, and a watcher hears the end, for any     *)
(* number of generations, watchers and steps, and whatever fails.          *)
(*                                                                         *)
(* The tables keep what they say, for any number of devices, connections   *)
(* and leaders: a kept DiT has taken just the adapters it is kept under,   *)
(* and `lent` counts the DiTs that are out.  Both rest on who may touch a  *)
(* table: only who holds it, or who finds it free.                         *)
(***************************************************************************)
EXTENDS Server, Resident, FiniteSetTheorems, WellFoundedInduction, TLAPS

-------------------------------------------------------------------------------
(* The jobs *)

Busy == {"starting", "running", "returned", "thrown", "dead"}

(* A job comes into the table with its files, leaves it before they go, and   *)
(* never comes back.                                                          *)
Lives(i) ==
    /\ asking[i] = "not" => jobs[i] = "absent" /\ files[i] = {} /\ i \notin going
    /\ asking[i] = "reading" => jobs[i] = "absent" /\ i \notin going /\ "uploads" \in files[i]
    /\ jobs[i] # "absent" => "uploads" \in files[i] /\ i \notin going
    /\ files[i] # {} => jobs[i] # "absent" \/ asking[i] = "reading" \/ i \in going
    /\ jobs[i] = "done" => "video" \in files[i]

(* The thread is at one job, which nobody takes away meanwhile. *)
ThreadAtIt ==
    /\ thread \in Busy => current \in Ids /\ jobs[current] = "running"
    /\ thread = "waiting" => \A i \in Ids : jobs[i] # "running"
    /\ thread = "returned" => "video" \in files[current]

JobsInv == TypeOK /\ ThreadAtIt /\ \A i \in Ids : Lives(i)

LEMMA InvInit == Init => JobsInv
BY ServerAssumption
   DEF Init, JobsInv, TypeOK, ThreadAtIt, Lives, Busy, None, NoStep, Ends

LEMMA InvStep == JobsInv /\ [Next]_vars => JobsInv'
<1> SUFFICES ASSUME JobsInv, [Next]_vars PROVE JobsInv'
    OBVIOUS
<1>0. TypeOK /\ ThreadAtIt /\ \A i \in Ids : Lives(i)
    BY DEF JobsInv
<1> USE ServerAssumption
<1>1. ASSUME NEW i \in Ids, Upload(i) PROVE JobsInv'
    BY <1>0, <1>1 DEF Upload, generating, streams, JobsInv, TypeOK, ThreadAtIt, Lives, Busy, Ends
<1>2. ASSUME NEW i \in Ids, Refuse(i) PROVE JobsInv'
    BY <1>0, <1>2 DEF Refuse, generating, streams, JobsInv, TypeOK, ThreadAtIt, Lives, Busy, Ends
<1>3. ASSUME NEW i \in Ids, Insert(i) PROVE JobsInv'
    BY <1>0, <1>3 DEF Insert, generating, streams, JobsInv, TypeOK, ThreadAtIt, Lives, Busy, Ends
<1>4. ASSUME NEW i \in Ids, Send(i) PROVE JobsInv'
    <2>1. queue' \in Seq(Ids)
        <3>1. queue \in Seq(Ids)
            BY <1>0 DEF TypeOK
        <3>2. queue' = queue \/ queue' = Append(queue, i)
            BY <1>4 DEF Send
        <3> QED BY <3>1, <3>2
    <2>2. /\ asking[i] = "inserted"
          /\ \E answer \in {"refused", "accepted"} : asking' = [asking EXCEPT ![i] = answer]
          /\ UNCHANGED <<jobs, files, going, thread, current, progress>>
        BY <1>4 DEF Send
    <2>3. TypeOK'
        BY <1>0, <2>1, <2>2 DEF TypeOK, Ends
    <2>4. ThreadAtIt'
        BY <1>0, <2>2 DEF ThreadAtIt
    <2>5. \A j \in Ids : Lives(j)'
        BY <1>0, <2>2 DEF Lives, TypeOK
    <2> QED BY <2>3, <2>4, <2>5 DEF JobsInv
<1>5. ASSUME NEW i \in Ids, Forget(i) PROVE JobsInv'
    BY <1>0, <1>5 DEF Forget, generating, streams, JobsInv, TypeOK, ThreadAtIt, Lives, Busy, Ends
<1>6. ASSUME NEW i \in Ids, Remove(i) PROVE JobsInv'
    BY <1>0, <1>6 DEF Remove, generating, streams, JobsInv, TypeOK, ThreadAtIt, Lives, Busy, Ends
<1>7. ASSUME Take PROVE JobsInv'
    BY <1>0, <1>7 DEF Take, First, streams, JobsInv, TypeOK, ThreadAtIt, Lives, Busy, Ends
<1>8. ASSUME Start PROVE JobsInv'
    BY <1>0, <1>8 DEF Start, table, streams, None, NoStep, JobsInv, TypeOK, ThreadAtIt, Lives, Busy,
                      Ends
<1>9. ASSUME Step PROVE JobsInv'
    BY <1>0, <1>9 DEF Step, table, streams, JobsInv, TypeOK, ThreadAtIt, Lives, Busy, Ends
<1>10. ASSUME Return PROVE JobsInv'
    BY <1>0, <1>10 DEF Return, streams, JobsInv, TypeOK, ThreadAtIt, Lives, Busy, Ends
<1>11. ASSUME End PROVE JobsInv'
    BY <1>0, <1>11 DEF End, streams, JobsInv, TypeOK, ThreadAtIt, Lives, Busy, Ends
<1>12. ASSUME Panic PROVE JobsInv'
    BY <1>0, <1>12 DEF Panic, table, streams, JobsInv, TypeOK, ThreadAtIt, Lives, Busy, Ends
<1>13. ASSUME UNCHANGED <<table, generating>> PROVE JobsInv'
    BY <1>0, <1>13 DEF table, generating, JobsInv, TypeOK, ThreadAtIt, Lives, Busy, Ends
<1>14. ASSUME NEW w \in Watchers, Look(w) PROVE JobsInv'
    BY <1>13, <1>14 DEF Look
<1>15. ASSUME NEW w \in Watchers, NEW i \in Ids, Watch(w, i) PROVE JobsInv'
    BY <1>13, <1>15 DEF Watch
<1>16. ASSUME UNCHANGED vars PROVE JobsInv'
    BY <1>13, <1>16 DEF vars
<1> QED
    BY <1>1, <1>2, <1>3, <1>4, <1>5, <1>6, <1>7, <1>8, <1>9, <1>10, <1>11, <1>12,
       <1>14, <1>15, <1>16 DEF Next, Generate, Answer

LEMMA InvAlways == Spec => []JobsInv
BY InvInit, InvStep, PTL DEF Spec

(* The types of the server's state; one generation runs at a time.            *)
THEOREM TypeCorrect == Spec => []TypeOK
<1>1. JobsInv => TypeOK
    BY DEF JobsInv
<1> QED BY <1>1, InvAlways, PTL

(* `forget` and `generate`: no job taken away, however the two interleave,    *)
(* takes the files of the one that runs.                                      *)
THEOREM FilesStay == Spec => []RunningKeepsItsFiles
<1>1. JobsInv => RunningKeepsItsFiles
    BY DEF JobsInv, RunningKeepsItsFiles, ThreadAtIt, Lives, Busy
<1> QED BY <1>1, InvAlways, PTL

(* `generate` and `forget`: a client told that a job is done finds its video. *)
THEOREM DoneIsThere == Spec => []DoneHasItsVideo
<1>1. JobsInv => DoneHasItsVideo
    BY DEF JobsInv, DoneHasItsVideo, Lives
<1> QED BY <1>1, InvAlways, PTL

(* `create` and `forget` leave no directory of a job the table does not know. *)
THEOREM NothingStays == Spec => []NothingLeftBehind
<1>1. JobsInv => NothingLeftBehind
    BY DEF JobsInv, NothingLeftBehind, Lives
<1> QED BY <1>1, InvAlways, PTL

-------------------------------------------------------------------------------
(* What a watcher may be told. *)
Answers ==
    [state : {"none", "absent", "queued", "running"} \cup Ends, step : Nat, of : Ids \cup {Nobody}]

(* A stream that is over was of a job that was in the table, and a job that   *)
(* left it never comes back.                                                  *)
Followed ==
    /\ watching \in [Watchers -> Ids \cup {Nobody}]
    /\ said \in [Watchers -> Answers]
    /\ ended \subseteq Watchers
    /\ \A w \in Watchers : watching[w] # Nobody => asking[watching[w]] \notin {"not", "reading"}
    /\ \A w \in ended : watching[w] # Nobody
    /\ EndIsSaid

(* What a watcher is told has the types the answer to it has. *)
LEMMA DescribeType ==
    ASSUME TypeOK, NEW i \in Ids
    PROVE  /\ Describe(i) \in Answers
           /\ Describe(i).state = jobs[i]
BY ServerAssumption DEF TypeOK, Describe, None, NoStep, Ends, Answers

LEMMA FollowedInit == Init => Followed
BY ServerAssumption DEF Init, Followed, EndIsSaid, Silence, NoStep, Ends, Answers

LEMMA FollowedStep == JobsInv /\ Followed /\ [Next]_vars => Followed'
<1> SUFFICES ASSUME JobsInv, Followed, [Next]_vars PROVE Followed'
    OBVIOUS
<1>0. TypeOK /\ ThreadAtIt /\ \A i \in Ids : Lives(i)
    BY DEF JobsInv
<1> USE ServerAssumption
<1>1. ASSUME UNCHANGED streams, UNCHANGED asking,
             \A i \in Ids : jobs[i] = "absent" => jobs'[i] = "absent"
      PROVE  Followed'
    BY <1>1 DEF Followed, EndIsSaid, streams
<1>2. ASSUME NEW i \in Ids, Upload(i) \/ Refuse(i) \/ Insert(i) PROVE Followed'
    <2>1. asking[i] \in {"not", "reading"}
        BY <1>2 DEF Upload, Refuse, Insert
    <2>2. \A w \in Watchers : watching[w] # i
        BY <2>1 DEF Followed
    <2>3. /\ UNCHANGED streams
          /\ \A j \in Ids : j # i => asking'[j] = asking[j] /\ jobs'[j] = jobs[j]
        BY <1>0, <1>2 DEF Upload, Refuse, Insert, TypeOK
    <2> QED BY <2>2, <2>3 DEF Followed, EndIsSaid, streams
<1>3. ASSUME NEW i \in Ids, Send(i) PROVE Followed'
    <2>1. \A j \in Ids : asking[j] \notin {"not", "reading"} => asking'[j] \notin {"not", "reading"}
        BY <1>0, <1>3 DEF Send, TypeOK
    <2> QED BY <1>3, <2>1 DEF Send, Followed, EndIsSaid, streams
<1>4. ASSUME NEW i \in Ids, Remove(i) \/ Forget(i) PROVE Followed'
    BY <1>0, <1>1, <1>4 DEF Remove, Forget, TypeOK
<1>5. ASSUME Take PROVE Followed'
    BY <1>0, <1>1, <1>5 DEF Take, TypeOK
<1>6. ASSUME Start \/ Step \/ Return \/ Panic PROVE Followed'
    BY <1>1, <1>6 DEF Start, Step, Return, Panic, table
<1>7. ASSUME End PROVE Followed'
    BY <1>0, <1>1, <1>7 DEF End, TypeOK
<1>8. ASSUME NEW w \in Watchers, Look(w) PROVE Followed'
    <2> DEFINE i == watching[w]
    <2>1. i \in Ids /\ UNCHANGED <<watching, asking, jobs>>
        BY <1>8 DEF Look, Followed, table
    <2>2. CASE jobs[i] = "absent"
        BY <1>8, <2>1, <2>2 DEF Look, Followed, EndIsSaid
    <2>3. CASE jobs[i] # "absent"
        <3>1. /\ said' = [said EXCEPT ![w] = Describe(i)]
              /\ ended' = IF jobs[i] \in Ends THEN ended \cup {w} ELSE ended
              /\ w \notin ended
            BY <1>8, <2>3 DEF Look
        <3>2. \A v \in ended : said'[v] = said[v]
            BY <3>1 DEF Followed
        <3>3. said'[w].state = jobs[i] /\ Describe(i) \in Answers
            BY <1>0, <2>1, <3>1, DescribeType DEF Followed
        <3> QED BY <2>1, <3>1, <3>2, <3>3 DEF Followed, EndIsSaid
    <2> QED BY <2>2, <2>3
<1>9. ASSUME NEW w \in Watchers, NEW i \in Ids, Watch(w, i) PROVE Followed'
    <2>1. asking[i] \notin {"not", "reading"}
        BY <1>0, <1>9 DEF Watch, Lives
    <2>2. w \notin ended
        BY <1>9 DEF Watch, Followed
    <2> QED BY <1>9, <2>1, <2>2 DEF Watch, Followed, EndIsSaid, table
<1>10. ASSUME UNCHANGED vars PROVE Followed'
    BY <1>1, <1>10 DEF vars, table
<1> QED
    BY <1>2, <1>3, <1>4, <1>5, <1>6, <1>7, <1>8, <1>9, <1>10 DEF Next, Generate, Answer

(* `events`: a stream ends because its job was taken away, or after it said   *)
(* how the job ended, however the client's looks fall between the steps.      *)
THEOREM StreamsSayTheEnd == Spec => []EndIsSaid
<1>1. JobsInv /\ Followed /\ [Next]_vars => Followed'
    BY FollowedStep
<1>2. Followed => EndIsSaid
    BY DEF Followed
<1> QED BY <1>1, <1>2, InvAlways, FollowedInit, PTL DEF Spec

-------------------------------------------------------------------------------
(* The tables of resident models *)

Models ==
    [kind : Kinds \cup {"Dit"}, of : Keys, whole : BOOLEAN, key : 0 .. Adapters,
     has : 0 .. Adapters]

(* The models that have just the adapters they are kept under. *)
Honest == {m \in Models : m.has = m.key}

Stages == {"idle", "asking", "reading", "working", "looking", "copying", "loading", "patching",
           "serving", "failing", "closing", "trying", "running", "waiting", "refused"}

(* In these a client has the table of its device. *)
Inside == {"reading", "working", "looking", "copying", "loading", "patching"}

(* In these its DiT is out. *)
Away == {"serving", "failing", "closing"}

AllKinds == Kinds \cup {"Dit"}
Parts == AllKinds \cup {"DitBlocks"}

Works ==
    [what : {"none", "decode", "prepare", "session"}, kind : AllKinds \cup {"none"},
     of : Keys \cup {0}, adapters : 0 .. Adapters,
     released : SUBSET Parts, saw : Nat, tried : SUBSET Devices]

Holders == Connections \cup {NoHolder}
Mines == Models \cup {NoModel}

Typed ==
    /\ holder \in [Devices -> Holders]
    /\ kept \in [Devices -> Seq(Honest)]
    /\ at \in [Clients -> Stages]
    /\ work \in [Clients -> Works]
    /\ mine \in [Clients -> Mines]

(* Who is inside a table holds it, and who copies holds that of the DiT too, which is there. *)
Holds(c) ==
    /\ at[c] \in Inside => holder[On[c]] = c
    /\ at[c] \in {"looking", "copying"} => On[c] \in work[c].tried
    /\ at[c] = "copying" => /\ Untried(c) # {}
                            /\ holder[Other(c)] = c
                            /\ Keeps(Other(c), "Dit", work[c].of)

(* What a connection asks for, and the DiT it has out. *)
Has(c) ==
    /\ at[c] # "idle" => /\ work[c].kind \in AllKinds /\ work[c].of \in Keys
                         /\ work[c].what = "prepare" => work[c].kind = "Dit"
    /\ at[c] \in {"looking", "copying"} => work[c].kind = "Dit"
    /\ at[c] = "patching" => mine[c] \in Models
    /\ at[c] \in Away => mine[c] \in Honest

IInv ==
    /\ Typed
    /\ lent \in [Devices -> Nat]
    /\ \A c \in Connections : Holds(c) /\ Has(c)
    /\ LentCounted

-------------------------------------------------------------------------------
(* What is defined from the value before is defined.                         *)

LEMMA LeastNat ==
    ASSUME NEW T, T \subseteq Nat, T # {}
    PROVE  \E n \in T : \A m \in T : n <= m
<1>1. PICK n \in T : \A m \in T : ~ (<<m, n>> \in OpToRel(<, Nat))
  BY NatLessThanWellFounded, WFMin
<1>2. \A m \in T : ~(m < n)
  BY <1>1 DEF OpToRel
<1> QED  BY <1>2

(* f starts at a and goes from each value to the next by g. *)
Iterates(f, n, V, a, g) ==
    /\ f \in [0 .. n -> V]
    /\ f[0] = a
    /\ \A i \in 1 .. n : f[i] = g[i][f[i - 1]]

LEMMA Recursion ==
    ASSUME NEW n \in Nat, NEW V, NEW a \in V, NEW g \in [1 .. n -> [V -> V]]
    PROVE  \E f : Iterates(f, n, V, a, g)
<1> DEFINE Solves(f, k) ==
             f \in [0 .. k -> V] /\ f[0] = a /\ \A i \in 1 .. k : f[i] = g[i][f[i - 1]]
           T == {k \in 0 .. n : ~ \E f : Solves(f, k)}
<1>1. ASSUME T # {} PROVE FALSE
  <2>1. PICK k \in T : \A m \in T : k <= m
    <3>1. T \subseteq Nat  OBVIOUS
    <3> HIDE DEF T
    <3> QED  BY <1>1, <3>1, LeastNat
  <2>2. k \in 0 .. n /\ ~ \E f : Solves(f, k)
    OBVIOUS
  <2>3. k # 0
    <3>1. Solves([i \in 0 .. 0 |-> a], 0)
      OBVIOUS
    <3> QED  BY <2>2, <3>1
  <2>4. k - 1 \in 0 .. n /\ k - 1 \notin T
    <3>1. k - 1 \in 0 .. n /\ ~(k <= k - 1)  BY <2>2, <2>3
    <3> HIDE DEF T
    <3> QED  BY <2>1, <3>1
  <2>5. PICK f : Solves(f, k - 1)
    BY <2>4
  <2> DEFINE h == [i \in 0 .. k |-> IF i = k THEN g[k][f[k - 1]] ELSE f[i]]
  <2>6. h \in [0 .. k -> V]
    <3>1. f \in [0 .. k - 1 -> V] /\ k \in 1 .. n  BY <2>2, <2>3, <2>5
    <3>2. f[k - 1] \in V /\ g[k] \in [V -> V]  BY <2>4, <3>1
    <3>3. ASSUME NEW i \in 0 .. k PROVE h[i] \in V
      BY <3>1, <3>2
    <3> QED  BY <3>3
  <2>7. h[0] = a
    BY <2>2, <2>3, <2>5
  <2>8. ASSUME NEW i \in 1 .. k PROVE h[i] = g[i][h[i - 1]]
    <3>1. CASE i = k
      <4>1. i # 0 /\ i - 1 # k /\ k - 1 \in 0 .. k  BY <2>2, <2>8, <3>1
      <4> QED  BY <3>1, <4>1
    <3>2. CASE i # k
      <4>1. i \in 1 .. k - 1 /\ i \in 0 .. k /\ i - 1 \in 0 .. k /\ i - 1 # k
        BY <2>2, <2>8, <3>2
      <4>2. h[i] = f[i] /\ h[i - 1] = f[i - 1]  BY <3>2, <4>1
      <4> QED  BY <2>5, <4>1, <4>2
    <3> QED  BY <3>1, <3>2
  <2>9. Solves(h, k)
    <3> HIDE DEF h
    <3> QED  BY <2>6, <2>7, <2>8
  <2> QED  BY <2>2, <2>9
<1>2. T = {} /\ n \in 0 .. n
  BY <1>1
<1>3. PICK f : Solves(f, n)
  BY <1>2
<1> QED  BY <1>3 DEF Iterates

-------------------------------------------------------------------------------
(* What becomes of the models of a table.                                    *)

LEMMA WithoutIs ==
    ASSUME NEW S, NEW s \in Seq(S), NEW kind
    PROVE  Without(s, kind) \in Seq(S)
<1> DEFINE n == Len(s)
           V == Seq(S)
           TableStep(i, t) == IF s[i].kind # kind THEN Append(t, s[i]) ELSE t
           g == [i \in 1 .. n |-> [t \in V |-> TableStep(i, t)]]
           IsUpto(f) == f = [i \in 0 .. n |-> IF i = 0 THEN <<>> ELSE TableStep(i, f[i - 1])]
<1>0. n \in Nat /\ <<>> \in V
  OBVIOUS
<1>1. ASSUME NEW i \in 1 .. n, NEW t \in V PROVE TableStep(i, t) \in V
  <2>1. s[i] \in S  OBVIOUS
  <2> QED  BY <2>1
<1>2. Without(s, kind) = (CHOOSE f : IsUpto(f))[n]
  BY DEF Without
<1> HIDE DEF n, Step
<1>3. g \in [1 .. n -> [V -> V]]
  BY <1>1
<1>4. PICK f : f \in [0 .. n -> V] /\ f[0] = <<>> /\ \A i \in 1 .. n : f[i] = g[i][f[i - 1]]
  <2> HIDE DEF g, V, IsUpto
  <2>1. \E f : Iterates(f, n, V, <<>>, g)
    BY <1>0, <1>3, Recursion, Zenon
  <2> QED  BY <2>1 DEF Iterates
<1>5. ASSUME NEW i \in 1 .. n
      PROVE  i - 1 \in 0 .. n /\ f[i - 1] \in V /\ f[i] = TableStep(i, f[i - 1])
  <2>1. i - 1 \in 0 .. n  BY <1>0, <1>5
  <2>2. f[i - 1] \in V  BY <1>4, <2>1
  <2> HIDE DEF V
  <2>3. g[i][f[i - 1]] = TableStep(i, f[i - 1])  BY <1>5, <2>2
  <2> QED  BY <1>4, <2>1, <2>2, <2>3
<1>6. IsUpto(f)
  <2>1. \A i \in 0 .. n : i = 0 \/ i \in 1 .. n
    BY <1>0
  <2>2. \A i \in 0 .. n : f[i] = IF i = 0 THEN <<>> ELSE TableStep(i, f[i - 1])
    BY <1>4, <1>5, <2>1
  <2> HIDE DEF V
  <2> QED  BY <1>4, <2>2
<1> DEFINE upto == CHOOSE f2 : IsUpto(f2)
<1>8. IsUpto(upto)
  BY <1>6
<1> HIDE DEF upto
<1>9. upto[0] = <<>> /\ \A i \in 1 .. n : upto[i] = TableStep(i, upto[i - 1])
  <2>1. \A i \in 1 .. n : i \in 0 .. n /\ i # 0
    BY <1>0
  <2>2. 0 \in 0 .. n
    BY <1>0
  <2> QED  BY <1>0, <1>8, <2>1, <2>2
<1>10. upto[n] \in V
  <2> DEFINE T == {k \in 0 .. n : upto[k] \notin V}
  <2> HIDE DEF V
  <2>1. ASSUME T # {} PROVE FALSE
    <3>1. T \subseteq Nat  OBVIOUS
    <3>2. PICK k \in T : \A m \in T : k <= m
      <4> HIDE DEF T
      <4> QED  BY <2>1, <3>1, LeastNat
    <3>3. k \in 0 .. n /\ upto[k] \notin V /\ k # 0
      BY <1>0, <1>9
    <3>4. k \in 1 .. n /\ k - 1 \in 0 .. n /\ ~(k <= k - 1)
      BY <1>0, <3>3
    <3>5. upto[k - 1] \in V
      BY <3>2, <3>4
    <3> QED  BY <1>1, <1>9, <3>3, <3>4, <3>5
  <2>2. n \in 0 .. n
    BY <1>0
  <2> QED  BY <2>1, <2>2
<1> QED  BY <1>2, <1>10 DEF upto

LEMMA TouchedIs ==
    ASSUME NEW S, NEW s \in Seq(S), NEW kind, \E i \in DOMAIN s : s[i].kind = kind
    PROVE  Touched(s, kind) \in Seq(S)
<1> DEFINE used == CHOOSE i \in DOMAIN s : s[i].kind = kind
<1>1. used \in DOMAIN s
  OBVIOUS
<1>2. Touched(s, kind) = Append(Without(s, kind), s[used])
  BY DEF Touched
<1> HIDE DEF used
<1>3. s[used] \in S
  BY <1>1
<1>4. Without(s, kind) \in Seq(S)
  BY WithoutIs
<1> QED  BY <1>2, <1>3, <1>4

LEMMA KeptDitIs ==
    ASSUME NEW d \in Devices, kept[d] \in Seq(Honest), NEW of, Keeps(d, "Dit", of)
    PROVE  KeptDit(d) \in Honest
<1> DEFINE place == CHOOSE i \in DOMAIN kept[d] : kept[d][i].kind = "Dit"
<1>1. place \in DOMAIN kept[d]
  BY DEF Keeps
<1>2. KeptDit(d) = kept[d][place]
  BY DEF KeptDit
<1> HIDE DEF place
<1> QED  BY <1>1, <1>2

LEMMA OldestIs ==
    ASSUME NEW d \in Devices, kept[d] \in Seq(Honest), NEW except, Releasable(d, except) # {}
    PROVE  Oldest(d, except) \in DOMAIN kept[d]
<1> DEFINE R == Releasable(d, except)
<1>1. R \subseteq DOMAIN kept[d] /\ R \subseteq Nat /\ R # {}
  <2>1. DOMAIN kept[d] = 1 .. Len(kept[d]) /\ Len(kept[d]) \in Nat
    OBVIOUS
  <2>2. R \subseteq DOMAIN kept[d]
    BY DEF Releasable
  <2>3. 1 .. Len(kept[d]) \subseteq Nat
    BY <2>1
  <2> QED  BY <2>1, <2>2, <2>3
<1>2. PICK i \in R : \A j \in R : i =< j
  <2> HIDE DEF R
  <2> QED  BY <1>1, LeastNat
<1>3. Oldest(d, except) \in R
  BY <1>2 DEF Oldest
<1> QED  BY <1>1, <1>3

LEMMA LetGoIs ==
    ASSUME NEW d \in Devices, kept[d] \in Seq(Honest), NEW except, Releasable(d, except) # {}
    PROVE  /\ LetGo(d, except) \in Seq(Honest)
           /\ GoingOf(d, except) \subseteq Parts
<1> DEFINE i == Oldest(d, except)
           s == kept[d]
<1>1. i \in DOMAIN s /\ s \in Seq(Honest)
  BY OldestIs
<1>2. LetGo(d, except) = IF GoingOf(d, except) = {"DitBlocks"}
                         THEN [s EXCEPT ![i].whole = FALSE] ELSE Without(s, s[i].kind)
  BY DEF LetGo
<1>3. GoingOf(d, except) = Going(s[i], except)
  BY DEF GoingOf
<1> HIDE DEF i, s
<1>4. s[i] \in Honest
  BY <1>1
<1>5. [s[i] EXCEPT !.whole = FALSE] \in Honest
  BY <1>4 DEF Honest, Models
<1>6. [s EXCEPT ![i].whole = FALSE] \in Seq(Honest)
  <2>1. [s EXCEPT ![i] = [s[i] EXCEPT !.whole = FALSE]] \in Seq(Honest)
    <3> DEFINE m == [s[i] EXCEPT !.whole = FALSE]
    <3> HIDE DEF m
    <3>1. m \in Honest
      BY <1>5 DEF m
    <3> QED  BY <1>1, <3>1 DEF m
  <2> QED  BY <2>1
<1>7. Without(s, s[i].kind) \in Seq(Honest)
  BY <1>1, WithoutIs
<1>8. s[i].kind \in AllKinds
  BY <1>4 DEF Honest, Models, AllKinds
<1>9. Going(s[i], except) \subseteq Parts
  BY <1>8 DEF Going, Parts
<1> QED  BY <1>2, <1>3, <1>6, <1>7, <1>9

LEMMA AppendIs ==
    ASSUME NEW s \in Seq(Honest), NEW m \in Honest
    PROVE  Append(s, m) \in Seq(Honest)
OBVIOUS

(* A model as it is read, and as it is copied, under what it has taken. *)
LEMMA ReadIs ==
    ASSUME NEW kind \in AllKinds, NEW of \in Keys, NEW whole \in BOOLEAN
    PROVE  Model(kind, of, whole) \in Honest
BY ResidentAssumption DEF Model, Honest, Models, AllKinds

LEMMA CopyIs ==
    ASSUME NEW m \in Honest, NEW whole \in BOOLEAN
    PROVE  [m EXCEPT !.whole = whole] \in Honest
BY DEF Honest, Models

LEMMA OtherIs ==
    ASSUME NEW c, Untried(c) # {}
    PROVE  Other(c) \in Devices /\ Other(c) \notin work[c].tried
<1>1. Untried(c) \subseteq Nat
  BY ResidentAssumption DEF Untried
<1>2. PICK d \in Untried(c) : \A e \in Untried(c) : d =< e
  BY <1>1, LeastNat
<1>3. Other(c) \in Untried(c)
  BY <1>2 DEF Other
<1> QED  BY <1>3 DEF Untried

-------------------------------------------------------------------------------
(* A step of one client, and who else it touches.                            *)

Apart(c) ==
    \A b \in Clients \ {c} : at'[b] = at[b] /\ work'[b] = work[b] /\ mine'[b] = mine[b]

(* A table somebody else holds is left as it is. *)
Leaves(c) ==
    \A d \in Devices : \/ holder'[d] = holder[d] /\ kept'[d] = kept[d]
                       \/ holder[d] \in {NoHolder, c}

LEMMA OthersStay ==
    ASSUME NEW c \in Clients \cup {NoHolder}, NEW b \in Connections, b # c,
           Apart(c), Leaves(c), Holds(b), Has(b)
    PROVE  Holds(b)' /\ Has(b)'
<1>1. b \in Clients /\ b # NoHolder /\ On[b] \in Devices
  BY ResidentAssumption DEF Clients
<1>2. at'[b] = at[b] /\ work'[b] = work[b] /\ mine'[b] = mine[b]
  BY <1>1 DEF Apart
<1>3. \A d \in Devices : holder[d] = b => holder'[d] = b /\ kept'[d] = kept[d]
  BY <1>1 DEF Leaves
<1>4. Untried(b)' = Untried(b)
  BY <1>2 DEF Untried
<1>5. Other(b)' = Other(b)
  BY <1>4 DEF Other
<1>6. Has(b)'
  BY <1>2 DEF Has
<1>7. Holds(b)'
  <2>1. at'[b] \in Inside => holder'[On[b]] = b
    BY <1>1, <1>2, <1>3 DEF Holds
  <2>2. at'[b] \in {"looking", "copying"} => On[b] \in work'[b].tried
    BY <1>2 DEF Holds
  <2>3. ASSUME at'[b] = "copying"
        PROVE  /\ Untried(b)' # {}
               /\ holder'[Other(b)'] = b
               /\ Keeps(Other(b), "Dit", work[b].of)'
    <3>1. Untried(b) # {} /\ holder[Other(b)] = b /\ Keeps(Other(b), "Dit", work[b].of)
      BY <1>2, <2>3 DEF Holds
    <3>2. Other(b) \in Devices
      BY <3>1, OtherIs
    <3>3. holder'[Other(b)] = b /\ kept'[Other(b)] = kept[Other(b)]
      BY <1>3, <3>1, <3>2
    <3> QED  BY <1>2, <1>4, <1>5, <3>1, <3>3 DEF Keeps
  <2> QED  BY <2>1, <2>2, <2>3 DEF Holds
<1> QED  BY <1>6, <1>7

LEMMA StillCounted ==
    ASSUME LentCounted, lent' = lent,
           \A b \in Connections : at'[b] \in Away <=> at[b] \in Away
    PROVE  LentCounted'
<1>1. ASSUME NEW d \in Devices
      PROVE  {c \in Connections : On[c] = d /\ at'[c] \in {"serving", "failing", "closing"}}
               = {c \in Connections : On[c] = d /\ at[c] \in {"serving", "failing", "closing"}}
  BY DEF Away
<1> QED  BY <1>1 DEF LentCounted

(* What is left to say of a step: what it leaves of the client that takes it. *)
LEMMA ClientsStay ==
    ASSUME IInv, NEW c \in Clients \cup {NoHolder}, Apart(c), Leaves(c),
           c \in Connections => Holds(c)' /\ Has(c)'
    PROVE  \A b \in Connections : (Holds(b) /\ Has(b))'
<1> SUFFICES ASSUME NEW b \in Connections PROVE (Holds(b) /\ Has(b))'
  OBVIOUS
<1>1. CASE b = c
  BY <1>1
<1>2. CASE b # c
  <2>1. Holds(b) /\ Has(b)
    BY DEF IInv
  <2> QED  BY <1>2, <2>1, OthersStay
<1> QED  BY <1>1, <1>2

Keeping(c) ==
    c \in Connections => /\ Holds(c)' /\ Has(c)'
                         /\ at'[c] \in Away <=> at[c] \in Away

LEMMA Preserved ==
    ASSUME IInv, NEW c \in Clients \cup {NoHolder}, Apart(c), Leaves(c), Typed', lent' = lent,
           Keeping(c)
    PROVE  IInv'
<1>1. \A b \in Connections : (Holds(b) /\ Has(b))'
  BY ClientsStay DEF Keeping
<1>2. ASSUME NEW b \in Connections PROVE at'[b] \in Away <=> at[b] \in Away
  <2>1. CASE b = c
    BY <2>1 DEF Keeping
  <2>2. CASE b # c
    BY <2>2 DEF Apart, Clients
  <2> QED  BY <2>1, <2>2
<1>3. LentCounted'
  BY <1>2, StillCounted DEF IInv
<1>4. lent' \in [Devices -> Nat]
  BY DEF IInv
<1> QED  BY <1>1, <1>3, <1>4 DEF IInv

-------------------------------------------------------------------------------
(* What the pieces of an action do.                                          *)

LEMMA GoesIs ==
    ASSUME Typed, NEW c \in Clients, NEW stage \in Stages, Goes(c, stage)
    PROVE  /\ at' \in [Clients -> Stages] /\ work' \in [Clients -> Works]
           /\ at'[c] = stage /\ work' = work
           /\ \A b \in Clients \ {c} : at'[b] = at[b] /\ work'[b] = work[b]
BY DEF Goes, Typed

LEMMA NoRequestIs == NoRequest \in Works
<1>1. 0 \in 0 .. Adapters
  BY ResidentAssumption
<1> QED  BY <1>1 DEF NoRequest, Request, Works

LEMMA OverIs ==
    ASSUME Typed, NEW c \in Clients, Over(c)
    PROVE  /\ at' \in [Clients -> Stages] /\ work' \in [Clients -> Works]
           /\ at'[c] = "idle"
           /\ \A b \in Clients \ {c} : at'[b] = at[b] /\ work'[b] = work[b]
<1>1. at' \in [Clients -> Stages] /\ at'[c] = "idle" /\ \A b \in Clients \ {c} : at'[b] = at[b]
  BY DEF Over, Typed, Stages
<1>2. work' \in [Clients -> Works] /\ \A b \in Clients \ {c} : work'[b] = work[b]
  BY NoRequestIs DEF Over, Typed
<1> QED  BY <1>1, <1>2

(* The work of one client is another, and it stands elsewhere or where it stood. *)
LEMMA WorkBecomes ==
    ASSUME Typed, NEW c \in Clients, NEW w \in Works, work' = [work EXCEPT ![c] = w]
    PROVE  /\ work' \in [Clients -> Works] /\ work'[c] = w
           /\ \A b \in Clients \ {c} : work'[b] = work[b]
BY DEF Typed

LEMMA AtBecomes ==
    ASSUME Typed, NEW c \in Clients, NEW stage \in Stages, at' = [at EXCEPT ![c] = stage]
    PROVE  /\ at' \in [Clients -> Stages] /\ at'[c] = stage
           /\ \A b \in Clients \ {c} : at'[b] = at[b]
BY DEF Typed

LEMMA MineBecomes ==
    ASSUME Typed, NEW c \in Clients, NEW m \in Mines, mine' = [mine EXCEPT ![c] = m]
    PROVE  /\ mine' \in [Clients -> Mines] /\ mine'[c] = m
           /\ \A b \in Clients \ {c} : mine'[b] = mine[b]
BY DEF Typed

LEMMA HolderBecomes ==
    ASSUME Typed, NEW d \in Devices, NEW h \in Holders, holder' = [holder EXCEPT ![d] = h]
    PROVE  /\ holder' \in [Devices -> Holders] /\ holder'[d] = h
           /\ \A e \in Devices \ {d} : holder'[e] = holder[e]
BY DEF Typed

LEMMA KeptBecomes ==
    ASSUME Typed, NEW d \in Devices, NEW s \in Seq(Honest), kept' = [kept EXCEPT ![d] = s]
    PROVE  /\ kept' \in [Devices -> Seq(Honest)] /\ kept'[d] = s
           /\ \A e \in Devices \ {d} : kept'[e] = kept[e]
BY DEF Typed

-------------------------------------------------------------------------------
(* The steps of a connection.                                                *)

LEMMA Known ==
    ASSUME IInv, NEW c \in Connections
    PROVE  /\ c \in Clients /\ c \in Holders /\ NoHolder \in Holders /\ NoHolder # c
           /\ On[c] \in Devices /\ kept[On[c]] \in Seq(Honest)
           /\ at[c] \in Stages /\ work[c] \in Works /\ mine[c] \in Mines
           /\ Typed /\ Holds(c) /\ Has(c)
BY ResidentAssumption DEF IInv, Typed, Clients, Holders

LEMMA WantedIs ==
    ASSUME NEW w \in Wanted
    PROVE  /\ w \in Works /\ w.kind \in AllKinds /\ w.of \in Keys
           /\ w.what = "prepare" => w.kind = "Dit"
<1>1. 0 \in 0 .. Adapters
  BY ResidentAssumption
<1> QED  BY <1>1 DEF Wanted, Request, Works, AllKinds

LEMMA StepAsk ==
    ASSUME IInv, NEW c \in Connections, Ask(c)
    PROVE  IInv'
<1>1. Typed /\ c \in Clients
  BY Known
<1>2. PICK w \in Wanted : work' = [work EXCEPT ![c] = w]
  BY DEF Ask
<1>3. /\ w \in Works /\ w.kind \in AllKinds /\ w.of \in Keys
      /\ w.what = "prepare" => w.kind = "Dit"
  BY WantedIs
<1>4. /\ work' \in [Clients -> Works] /\ work'[c] = w
      /\ \A b \in Clients \ {c} : work'[b] = work[b]
  BY <1>1, <1>2, <1>3, WorkBecomes
<1>5. at' = [at EXCEPT ![c] = "asking"] /\ at[c] = "idle" /\ UNCHANGED <<tables, mine>>
  BY DEF Ask
<1>6. /\ at' \in [Clients -> Stages] /\ at'[c] = "asking"
      /\ \A b \in Clients \ {c} : at'[b] = at[b]
  BY <1>1, <1>5, AtBecomes DEF Stages
<1>7. Apart(c) /\ Leaves(c) /\ Typed'
  BY <1>1, <1>4, <1>5, <1>6 DEF Apart, Leaves, Typed, tables
<1>8. Keeping(c)
  BY <1>3, <1>4, <1>5, <1>6 DEF Keeping, Holds, Has, Inside, Away
<1> QED  BY <1>1, <1>5, <1>7, <1>8, Preserved DEF tables

LEMMA StepDecode ==
    ASSUME IInv, NEW c \in Connections, Decode(c)
    PROVE  IInv'
<1> DEFINE d == On[c]
<1>1. /\ Typed /\ Has(c) /\ c \in Clients /\ c \in Holders /\ d \in Devices
      /\ kept[d] \in Seq(Honest)
  BY Known
<1>2. /\ at[c] = "asking" /\ holder[d] = NoHolder /\ holder' = [holder EXCEPT ![d] = c]
      /\ lent' = lent /\ mine' = mine
  BY DEF Decode, TakesTable, Free
<1>3. PICK s \in Seq(Honest), stage \in {"working", "reading"} :
        kept' = [kept EXCEPT ![d] = s] /\ Goes(c, stage)
  <2>1. CASE Keeps(d, work[c].kind, work[c].of)
    <3>1. \E i \in DOMAIN kept[d] : kept[d][i].kind = work[c].kind
      BY <2>1 DEF Keeps
    <3>2. Touched(kept[d], work[c].kind) \in Seq(Honest)
      BY <1>1, <3>1, TouchedIs
    <3>3. kept' = [kept EXCEPT ![d] = Touched(kept[d], work[c].kind)] /\ Goes(c, "working")
      BY <2>1 DEF Decode
    <3> QED  BY <3>2, <3>3
  <2>2. CASE ~Keeps(d, work[c].kind, work[c].of)
    <3>1. Without(kept[d], work[c].kind) \in Seq(Honest)
      BY <1>1, WithoutIs
    <3>2. kept' = [kept EXCEPT ![d] = Without(kept[d], work[c].kind)] /\ Goes(c, "reading")
      BY <2>2 DEF Decode
    <3> QED  BY <3>1, <3>2
  <2> QED  BY <2>1, <2>2
<1> HIDE DEF d
<1>4. /\ at' \in [Clients -> Stages] /\ at'[c] = stage /\ work' = work
      /\ \A b \in Clients \ {c} : at'[b] = at[b] /\ work'[b] = work[b]
  BY <1>1, <1>3, GoesIs DEF Stages
<1>5. /\ holder' \in [Devices -> Holders] /\ holder'[d] = c
      /\ \A e \in Devices \ {d} : holder'[e] = holder[e]
  BY <1>1, <1>2, HolderBecomes
<1>6. /\ kept' \in [Devices -> Seq(Honest)] /\ kept'[d] = s
      /\ \A e \in Devices \ {d} : kept'[e] = kept[e]
  BY <1>1, <1>3, KeptBecomes
<1>7. Apart(c) /\ Leaves(c) /\ Typed'
  BY <1>1, <1>2, <1>4, <1>5, <1>6 DEF Apart, Leaves, Typed
<1>8. Keeping(c)
  BY <1>1, <1>2, <1>3, <1>4, <1>5 DEF Keeping, Holds, Has, Inside, Away, d
<1> QED  BY <1>1, <1>2, <1>7, <1>8, Preserved

LEMMA StepReadAgain ==
    ASSUME IInv, NEW c \in Connections, ReadAgain(c)
    PROVE  IInv'
<1> DEFINE d == On[c]
           s == LetGo(d, Spared(work[c].kind))
<1>1. Typed /\ Holds(c) /\ Has(c) /\ c \in Clients /\ d \in Devices /\ kept[d] \in Seq(Honest)
  BY Known
<1>2. /\ at[c] \in {"reading", "loading"} /\ Releasable(d, Spared(work[c].kind)) # {}
      /\ kept' = [kept EXCEPT ![d] = s]
      /\ holder' = holder /\ lent' = lent /\ at' = at /\ work' = work /\ mine' = mine
  BY DEF ReadAgain, ReadsAgain, request
<1>3. s \in Seq(Honest)
  BY <1>1, <1>2, LetGoIs
<1>4. holder[d] = c
  BY <1>1, <1>2 DEF Holds, Inside
<1> HIDE DEF d, s
<1>5. kept' \in [Devices -> Seq(Honest)] /\ \A e \in Devices \ {d} : kept'[e] = kept[e]
  BY <1>1, <1>2, <1>3, KeptBecomes
<1>6. Apart(c) /\ Leaves(c) /\ Typed'
  BY <1>1, <1>2, <1>4, <1>5 DEF Apart, Leaves, Typed
<1>7. Keeping(c)
  BY <1>1, <1>2 DEF Keeping, Holds, Has
<1> QED  BY <1>1, <1>2, <1>6, <1>7, Preserved

LEMMA StepRead ==
    ASSUME IInv, NEW c \in Connections, Read(c)
    PROVE  IInv'
<1> DEFINE d == On[c]
           m == Model(work[c].kind, work[c].of, ReadsWhole(c))
           s == Append(kept[d], m)
<1>1. Typed /\ Holds(c) /\ Has(c) /\ c \in Clients /\ d \in Devices /\ kept[d] \in Seq(Honest)
  BY Known
<1>2. /\ at[c] = "reading" /\ kept' = [kept EXCEPT ![d] = s] /\ Goes(c, "working")
      /\ holder' = holder /\ lent' = lent /\ mine' = mine
  BY DEF Read
<1>3. m \in Honest
  <2>1. ReadsWhole(c) \in BOOLEAN
    BY DEF ReadsWhole, Fits
  <2>2. work[c].kind \in AllKinds /\ work[c].of \in Keys
    BY <1>1, <1>2 DEF Has
  <2> QED  BY <2>1, <2>2, ReadIs
<1>4. s \in Seq(Honest)
  BY <1>1, <1>3, AppendIs
<1>5. holder[d] = c
  BY <1>1, <1>2 DEF Holds, Inside
<1> HIDE DEF d, s
<1>6. kept' \in [Devices -> Seq(Honest)] /\ \A e \in Devices \ {d} : kept'[e] = kept[e]
  BY <1>1, <1>2, <1>4, KeptBecomes
<1>7. /\ at' \in [Clients -> Stages] /\ at'[c] = "working" /\ work' = work
      /\ \A b \in Clients \ {c} : at'[b] = at[b] /\ work'[b] = work[b]
  BY <1>1, <1>2, GoesIs DEF Stages
<1>8. Apart(c) /\ Leaves(c) /\ Typed'
  BY <1>1, <1>2, <1>5, <1>6, <1>7 DEF Apart, Leaves, Typed
<1>9. Keeping(c)
  BY <1>1, <1>2, <1>5, <1>7 DEF Keeping, Holds, Has, Inside, Away, d
<1> QED  BY <1>1, <1>2, <1>8, <1>9, Preserved

(* The client is answered, or refused: it leaves the table and nothing else. *)
LEMMA LeavesTheTable ==
    ASSUME IInv, NEW c \in Connections,
           at[c] \in Inside, holder' = [holder EXCEPT ![On[c]] = NoHolder],
           kept' = kept, lent' = lent, mine' = mine,
           Over(c) \/ Goes(c, "refused")
    PROVE  IInv'
<1>1. /\ Typed /\ Holds(c) /\ Has(c) /\ c \in Clients /\ On[c] \in Devices
      /\ NoHolder \in Holders
  BY Known
<1>2. /\ at' \in [Clients -> Stages] /\ at'[c] \in {"idle", "refused"}
      /\ work' \in [Clients -> Works]
      /\ at'[c] = "refused" => work'[c] = work[c]
      /\ \A b \in Clients \ {c} : at'[b] = at[b] /\ work'[b] = work[b]
  <2>1. CASE Over(c)
    BY <1>1, <2>1, OverIs
  <2>2. CASE Goes(c, "refused")
    BY <1>1, <2>2, GoesIs DEF Stages
  <2> QED  BY <2>1, <2>2
<1>3. holder' \in [Devices -> Holders] /\ \A e \in Devices \ {On[c]} : holder'[e] = holder[e]
  BY <1>1, HolderBecomes
<1>4. holder[On[c]] = c
  BY <1>1 DEF Holds
<1>5. Apart(c) /\ Leaves(c)
  BY <1>2, <1>3, <1>4 DEF Apart, Leaves
<1>6. Typed'
  BY <1>1, <1>2, <1>3 DEF Typed
<1>7. at'[c] \notin Inside /\ at'[c] \notin Away /\ at[c] \notin Away /\ at[c] # "idle"
  BY <1>2 DEF Inside, Away
<1>8. Keeping(c)
  BY <1>1, <1>2, <1>7 DEF Keeping, Holds, Has, Inside
<1> QED  BY <1>1, <1>5, <1>6, <1>8, Preserved

LEMMA StepWork ==
    ASSUME IInv, NEW c \in Connections, Work(c)
    PROVE  IInv'
BY LeavesTheTable DEF Work, Answered, Inside

LEMMA StepCannotRead ==
    ASSUME IInv, NEW c \in Connections, CannotRead(c)
    PROVE  IInv'
BY LeavesTheTable DEF CannotRead, Answered, Inside

LEMMA StepCannotLoad ==
    ASSUME IInv, NEW c \in Connections, CannotLoad(c)
    PROVE  IInv'
BY LeavesTheTable DEF CannotLoad, Inside

(* Whoever makes room holds the table or finds it free. *)
LEMMA MakeRoomKeeps ==
    ASSUME IInv, NEW c \in Clients, NEW again \in {"asking", "trying"}, MakeRoom(c, again),
           holder[On[c]] \in {NoHolder, c}, c \in Connections => at[c] \in Inside
    PROVE  IInv'
<1> DEFINE d == On[c]
           except == work[c].released
           nothing == Releasable(d, except) = {}
<1>1. /\ Typed /\ lent \in [Devices -> Nat] /\ d \in Devices /\ NoHolder \in Holders
      /\ kept[d] \in Seq(Honest) /\ work[c] \in Works
      /\ c \in Connections => Has(c)
  BY ResidentAssumption DEF IInv, Typed, Holders
<1>2. /\ holder' = [holder EXCEPT ![d] = NoHolder] /\ lent' = lent /\ mine' = mine
      /\ kept' = IF nothing THEN kept ELSE [kept EXCEPT ![d] = LetGo(d, except)]
      /\ at' = [at EXCEPT ![c] = IF ~nothing THEN again
                                 ELSE IF lent[d] = 0 THEN "refused" ELSE "waiting"]
  BY DEF MakeRoom
<1>3. PICK w \in Works : /\ work' = [work EXCEPT ![c] = w]
                         /\ w.kind = work[c].kind /\ w.of = work[c].of
                         /\ w.what = work[c].what
  <2>1. work[c] \in Works
    BY <1>1
  <2>2. CASE nothing
    <3> DEFINE n == lent[d]
               w == [work[c] EXCEPT !.saw = n]
    <3>1. work' = [work EXCEPT ![c] = w]
      BY <2>2 DEF MakeRoom
    <3>2. n \in Nat
      BY <1>1
    <3> HIDE DEF n
    <3>3. w \in Works /\ w.kind = work[c].kind /\ w.of = work[c].of /\ w.what = work[c].what
      BY <2>1, <3>2 DEF Works
    <3> HIDE DEF w
    <3> QED  BY <3>1, <3>3
  <2>3. CASE ~nothing
    <3> DEFINE R == except \cup GoingOf(d, except)
               w == [work[c] EXCEPT !.released = R]
    <3>1. work' = [work EXCEPT ![c] = w]
      BY <2>3 DEF MakeRoom
    <3>2. except \subseteq Parts
      BY <2>1 DEF Works
    <3>3. GoingOf(d, except) \subseteq Parts
      <4>1. d \in Devices /\ kept[d] \in Seq(Honest)
        BY <1>1
      <4> HIDE DEF d, except
      <4> QED  BY <2>3, <4>1, LetGoIs DEF nothing
    <3>4. R \subseteq Parts
      BY <3>2, <3>3
    <3> HIDE DEF R
    <3>5. w \in Works /\ w.kind = work[c].kind /\ w.of = work[c].of /\ w.what = work[c].what
      BY <2>1, <3>4 DEF Works
    <3> HIDE DEF w
    <3> QED  BY <3>1, <3>5
  <2> QED  BY <2>2, <2>3
<1>4. kept' \in [Devices -> Seq(Honest)] /\ \A e \in Devices \ {d} : kept'[e] = kept[e]
  <2>1. CASE nothing
    BY <1>1, <1>2, <2>1 DEF Typed
  <2>2. CASE ~nothing
    <3>1. LetGo(d, except) \in Seq(Honest)
      <4>1. d \in Devices /\ kept[d] \in Seq(Honest)
        BY <1>1
      <4> HIDE DEF d, except
      <4> QED  BY <2>2, <4>1, LetGoIs DEF nothing
    <3>2. kept' = [kept EXCEPT ![d] = LetGo(d, except)]
      BY <1>2, <2>2
    <3> HIDE DEF d, except
    <3> QED  BY <1>1, <3>1, <3>2, KeptBecomes
  <2> QED  BY <2>1, <2>2
<1>5. /\ at' \in [Clients -> Stages] /\ at'[c] \in {"asking", "trying", "waiting", "refused"}
      /\ \A b \in Clients \ {c} : at'[b] = at[b]
  <2> DEFINE stage == IF ~nothing THEN again
                      ELSE IF lent[d] = 0 THEN "refused" ELSE "waiting"
  <2>1. stage \in {"asking", "trying", "waiting", "refused"} /\ at' = [at EXCEPT ![c] = stage]
    BY <1>2
  <2>2. stage \in Stages
    BY <2>1 DEF Stages
  <2> HIDE DEF stage
  <2> QED  BY <1>1, <2>1, <2>2, AtBecomes
<1> HIDE DEF d, except, nothing
<1>6. /\ work' \in [Clients -> Works] /\ work'[c] = w
      /\ \A b \in Clients \ {c} : work'[b] = work[b]
  BY <1>1, <1>3, WorkBecomes
<1>7. holder' \in [Devices -> Holders] /\ \A e \in Devices \ {d} : holder'[e] = holder[e]
  BY <1>1, <1>2, HolderBecomes
<1>8. Apart(c) /\ Leaves(c) /\ Typed'
  BY <1>1, <1>2, <1>4, <1>5, <1>6, <1>7 DEF Apart, Leaves, Typed, d
<1>9. Keeping(c)
  <2>1. ASSUME c \in Connections
        PROVE  /\ work'[c].kind \in AllKinds /\ work'[c].of \in Keys
               /\ work'[c].what = "prepare" => work'[c].kind = "Dit"
    BY <1>1, <1>3, <1>6, <2>1 DEF Has, Inside
  <2>2. at'[c] \notin Inside /\ at'[c] \notin Away /\ at'[c] # "patching"
    BY <1>5 DEF Inside, Away
  <2>3. c \in Connections => at[c] \notin Away
    BY DEF Inside, Away
  <2> QED  BY <1>5, <2>1, <2>2, <2>3 DEF Keeping, Holds, Has
<1> QED  BY <1>2, <1>8, <1>9, Preserved

LEMMA StepNoRoom ==
    ASSUME IInv, NEW c \in Connections, NoRoom(c)
    PROVE  IInv'
<1>1. c \in Clients /\ Holds(c)
  BY Known
<1>2. at[c] \in Inside /\ MakeRoom(c, "asking")
  BY DEF NoRoom, Inside
<1>3. holder[On[c]] = c
  BY <1>1, <1>2 DEF Holds
<1> QED  BY <1>1, <1>2, <1>3, MakeRoomKeeps

(* What it has tried is all that changes of its work. *)
LEMMA TriedIs ==
    ASSUME Typed, NEW c \in Clients, NEW T \in SUBSET Devices,
           work' = [work EXCEPT ![c].tried = T]
    PROVE  /\ work' \in [Clients -> Works] /\ work'[c].tried = T
           /\ work'[c].kind = work[c].kind /\ work'[c].of = work[c].of
           /\ work'[c].what = work[c].what
           /\ \A b \in Clients \ {c} : work'[b] = work[b]
<1> DEFINE w == [work[c] EXCEPT !.tried = T]
<1>1. work[c] \in Works
  BY DEF Typed
<1>2. /\ w \in Works /\ w.tried = T /\ w.kind = work[c].kind /\ w.of = work[c].of
      /\ w.what = work[c].what
  BY <1>1 DEF Works
<1>3. work' = [work EXCEPT ![c] = w]
  OBVIOUS
<1> HIDE DEF w
<1>4. /\ work' \in [Clients -> Works] /\ work'[c] = w
      /\ \A b \in Clients \ {c} : work'[b] = work[b]
  BY <1>2, <1>3, WorkBecomes
<1> QED  BY <1>2, <1>4

LEMMA Tried ==
    ASSUME IInv, NEW c \in Connections
    PROVE  work[c].tried \in SUBSET Devices
<1>1. work[c] \in Works
  BY Known
<1> QED  BY <1>1 DEF Works

LEMMA TriesOn ==
    ASSUME IInv, NEW c \in Connections, at[c] = "looking", Untried(c) # {},
           work' = [work EXCEPT ![c].tried = @ \cup {Other(c)}],
           UNCHANGED <<holder, kept, lent, at, mine>>
    PROVE  IInv'
<1> DEFINE T == work[c].tried \cup {Other(c)}
<1>1. Typed /\ Holds(c) /\ Has(c) /\ c \in Clients
  BY Known
<1>2. T \in SUBSET Devices /\ work' = [work EXCEPT ![c].tried = T]
  BY Tried, OtherIs
<1>3. work[c].tried \subseteq T
  OBVIOUS
<1> HIDE DEF T
<1>4. /\ work' \in [Clients -> Works] /\ work'[c].tried = T
      /\ work'[c].kind = work[c].kind /\ work'[c].of = work[c].of
      /\ work'[c].what = work[c].what
      /\ \A b \in Clients \ {c} : work'[b] = work[b]
  BY <1>1, <1>2, TriedIs
<1>5. Apart(c) /\ Leaves(c) /\ Typed'
  BY <1>1, <1>4 DEF Apart, Leaves, Typed
<1>6. Keeping(c)
  BY <1>1, <1>3, <1>4 DEF Keeping, Holds, Has, Inside, Away
<1> QED  BY <1>1, <1>5, <1>6, Preserved

LEMMA StepPassBy ==
    ASSUME IInv, NEW c \in Connections, PassBy(c) \/ TooLong(c)
    PROVE  IInv'
BY TriesOn DEF PassBy, TooLong, tables

LEMMA StepLookAt ==
    ASSUME IInv, NEW c \in Connections, LookAt(c)
    PROVE  IInv'
<1> DEFINE other == Other(c)
<1>1. /\ Typed /\ Holds(c) /\ Has(c) /\ c \in Clients /\ c \in Holders /\ On[c] \in Devices
  BY Known
<1>2. /\ at[c] = "looking" /\ Untried(c) # {} /\ holder[other] = NoHolder
      /\ kept' = kept /\ lent' = lent /\ mine' = mine
  BY DEF LookAt, Free
<1>3. CASE Keeps(other, "Dit", work[c].of)
  <2>1. other \in Devices
    BY <1>2, OtherIs
  <2>2. holder' = [holder EXCEPT ![other] = c] /\ Goes(c, "copying")
    BY <1>3 DEF LookAt
  <2>3. /\ at' \in [Clients -> Stages] /\ at'[c] = "copying" /\ work' = work
        /\ \A b \in Clients \ {c} : at'[b] = at[b] /\ work'[b] = work[b]
    BY <1>1, <2>2, GoesIs DEF Stages
  <2>4. Untried(c)' = Untried(c)
    BY <2>3 DEF Untried
  <2>5. Other(c)' = other
    BY <2>4 DEF Other
  <2>6. Keeps(other, "Dit", work[c].of)'
    BY <1>2, <1>3, <2>3, <2>5 DEF Keeps
  <2> HIDE DEF other
  <2>7. /\ holder' \in [Devices -> Holders] /\ holder'[other] = c
        /\ \A e \in Devices \ {other} : holder'[e] = holder[e]
    BY <1>1, <2>1, <2>2, HolderBecomes
  <2>8. holder[On[c]] = c /\ On[c] \in work[c].tried
    BY <1>1, <1>2 DEF Holds, Inside
  <2>9. holder'[On[c]] = c
    BY <1>1, <2>7, <2>8
  <2>10. Apart(c) /\ Leaves(c) /\ Typed'
    BY <1>1, <1>2, <2>3, <2>7 DEF Apart, Leaves, Typed
  <2>11. Holds(c)'
    BY <1>2, <2>3, <2>4, <2>5, <2>6, <2>7, <2>8, <2>9 DEF Holds, other
  <2>12. Keeping(c)
    BY <1>1, <1>2, <2>3, <2>11 DEF Keeping, Has, Away
  <2> QED  BY <1>1, <1>2, <2>10, <2>12, Preserved
<1>4. CASE ~Keeps(other, "Dit", work[c].of)
  <2>1. /\ work' = [work EXCEPT ![c].tried = @ \cup {Other(c)}]
        /\ UNCHANGED <<holder, at>>
    BY <1>4 DEF LookAt
  <2> QED  BY <1>2, <2>1, TriesOn
<1> QED  BY <1>3, <1>4

LEMMA StepPrepare ==
    ASSUME IInv, NEW c \in Connections, Prepare(c)
    PROVE  IInv'
<1> DEFINE d == On[c]
<1>1. /\ Typed /\ Has(c) /\ c \in Clients /\ c \in Holders /\ d \in Devices
      /\ kept[d] \in Seq(Honest)
  BY Known
<1>2. /\ at[c] = "asking" /\ holder[d] = NoHolder /\ lent' = lent /\ mine' = mine
      /\ work[c].what = "prepare"
  BY DEF Prepare, TakesTable, Free
<1>3. CASE Keeps(d, "Dit", work[c].of)
  <2>1. Over(c) /\ holder' = holder /\ kept' = kept
    BY <1>3 DEF Prepare
  <2>2. /\ at' \in [Clients -> Stages] /\ work' \in [Clients -> Works]
        /\ at'[c] = "idle"
        /\ \A b \in Clients \ {c} : at'[b] = at[b] /\ work'[b] = work[b]
    BY <1>1, <2>1, OverIs
  <2>3. Apart(c) /\ Leaves(c) /\ Typed'
    BY <1>1, <1>2, <2>1, <2>2 DEF Apart, Leaves, Typed
  <2>4. Keeping(c)
    BY <1>2, <2>2 DEF Keeping, Holds, Has, Inside, Away
  <2> QED  BY <1>1, <1>2, <2>3, <2>4, Preserved
<1>4. CASE ~Keeps(d, "Dit", work[c].of)
  <2> DEFINE s == Without(kept[d], "Dit")
             T == {d}
  <2>1. /\ holder' = [holder EXCEPT ![d] = c] /\ kept' = [kept EXCEPT ![d] = s]
        /\ at' = [at EXCEPT ![c] = "looking"] /\ work' = [work EXCEPT ![c].tried = T]
    BY <1>4 DEF Prepare
  <2>2. s \in Seq(Honest)
    BY <1>1, WithoutIs
  <2>3. T \in SUBSET Devices /\ d \in T
    BY <1>1
  <2> HIDE DEF d, s, T
  <2>4. /\ at' \in [Clients -> Stages] /\ at'[c] = "looking"
        /\ \A b \in Clients \ {c} : at'[b] = at[b]
    BY <1>1, <2>1, AtBecomes DEF Stages
  <2>5. /\ work' \in [Clients -> Works] /\ work'[c].tried = T
        /\ work'[c].kind = work[c].kind /\ work'[c].of = work[c].of
        /\ work'[c].what = work[c].what
        /\ \A b \in Clients \ {c} : work'[b] = work[b]
    BY <1>1, <2>1, <2>3, TriedIs
  <2>6. /\ holder' \in [Devices -> Holders] /\ holder'[d] = c
        /\ \A e \in Devices \ {d} : holder'[e] = holder[e]
    BY <1>1, <2>1, HolderBecomes
  <2>7. kept' \in [Devices -> Seq(Honest)] /\ \A e \in Devices \ {d} : kept'[e] = kept[e]
    BY <1>1, <2>1, <2>2, KeptBecomes
  <2>8. Apart(c) /\ Leaves(c) /\ Typed'
    BY <1>1, <1>2, <2>4, <2>5, <2>6, <2>7 DEF Apart, Leaves, Typed
  <2>9. Keeping(c)
    BY <1>1, <1>2, <2>3, <2>4, <2>5, <2>6 DEF Keeping, Holds, Has, Inside, Away, d
  <2> QED  BY <1>1, <1>2, <2>8, <2>9, Preserved
<1> QED  BY <1>3, <1>4

(* Who copies holds its own table and another. *)
LEMMA Copying ==
    ASSUME IInv, NEW c \in Connections, at[c] = "copying"
    PROVE  /\ Other(c) \in Devices /\ Other(c) # On[c]
           /\ holder[On[c]] = c /\ holder[Other(c)] = c
           /\ Keeps(Other(c), "Dit", work[c].of)
<1>1. Holds(c)
  BY Known
<1>2. /\ Untried(c) # {} /\ On[c] \in work[c].tried
      /\ holder[On[c]] = c /\ holder[Other(c)] = c /\ Keeps(Other(c), "Dit", work[c].of)
  BY <1>1 DEF Holds, Inside
<1> QED  BY <1>2, OtherIs

LEMMA StepCopyAgain ==
    ASSUME IInv, NEW c \in Connections, CopyAgain(c)
    PROVE  IInv'
<1> DEFINE d == On[c]
           s == LetGo(d, {"Dit"})
<1>1. Typed /\ Holds(c) /\ Has(c) /\ c \in Clients /\ d \in Devices /\ kept[d] \in Seq(Honest)
  BY Known
<1>2. /\ at[c] = "copying" /\ kept' = [kept EXCEPT ![d] = s]
      /\ holder' = holder /\ lent' = lent /\ at' = at /\ work' = work /\ mine' = mine
  BY DEF CopyAgain, request
<1>3. Other(c) \in Devices /\ Other(c) # d /\ holder[d] = c
  BY <1>2, Copying
<1>4. s \in Seq(Honest)
  <2>1. Spared(work[c].kind) = {"Dit"}
    BY <1>1, <1>2 DEF Has, Spared
  <2>2. Releasable(d, {"Dit"}) # {}
    BY <2>1 DEF CopyAgain, ReadsAgain
  <2> QED  BY <1>1, <2>2, LetGoIs
<1> HIDE DEF d, s
<1>5. kept' \in [Devices -> Seq(Honest)] /\ \A e \in Devices \ {d} : kept'[e] = kept[e]
  BY <1>1, <1>2, <1>4, KeptBecomes
<1>6. Apart(c) /\ Leaves(c) /\ Typed'
  BY <1>1, <1>2, <1>3, <1>5 DEF Apart, Leaves, Typed
<1>7. Untried(c)' = Untried(c)
  BY <1>2 DEF Untried
<1>8. Other(c)' = Other(c)
  BY <1>7 DEF Other
<1>9. kept'[Other(c)] = kept[Other(c)]
  BY <1>3, <1>5
<1>10. Keeps(Other(c), "Dit", work[c].of)' <=> Keeps(Other(c), "Dit", work[c].of)
  BY <1>2, <1>8, <1>9 DEF Keeps
<1>11. Holds(c)'
  BY <1>1, <1>2, <1>7, <1>8, <1>10 DEF Holds
<1>12. Keeping(c)
  BY <1>1, <1>2, <1>11 DEF Keeping, Has, Away
<1> QED  BY <1>1, <1>2, <1>6, <1>12, Preserved

LEMMA StepCopy ==
    ASSUME IInv, NEW c \in Connections, Copy(c)
    PROVE  IInv'
<1> DEFINE d == On[c]
           other == Other(c)
           m == [KeptDit(other) EXCEPT !.whole = ReadsWhole(c)]
           s == Append(kept[d], m)
<1>1. Typed /\ c \in Clients /\ d \in Devices /\ kept[d] \in Seq(Honest)
  BY Known
<1>2. /\ at[c] = "copying" /\ kept' = [kept EXCEPT ![d] = s]
      /\ holder' = [holder EXCEPT ![d] = NoHolder, ![other] = NoHolder]
      /\ Over(c) /\ lent' = lent /\ mine' = mine
  BY DEF Copy
<1>3. other \in Devices /\ holder[d] = c /\ holder[other] = c /\ Keeps(other, "Dit", work[c].of)
  BY <1>2, Copying
<1>4. s \in Seq(Honest)
  <2>1. kept[other] \in Seq(Honest)
    BY <1>1, <1>3 DEF Typed
  <2>2. KeptDit(other) \in Honest
    <3> HIDE DEF other
    <3> QED  BY <1>3, <2>1, KeptDitIs
  <2>3. ReadsWhole(c) \in BOOLEAN
    BY DEF ReadsWhole, Fits
  <2>4. m \in Honest
    <3> HIDE DEF other
    <3> QED  BY <2>2, <2>3, CopyIs
  <2> HIDE DEF m
  <2> QED  BY <1>1, <2>4, AppendIs
<1> HIDE DEF d, other, s
<1>5. kept' \in [Devices -> Seq(Honest)] /\ \A e \in Devices \ {d} : kept'[e] = kept[e]
  BY <1>1, <1>2, <1>4, KeptBecomes
<1>6. holder' \in [Devices -> Holders] /\ \A e \in Devices \ {d, other} : holder'[e] = holder[e]
  BY <1>1, <1>2, <1>3 DEF Typed, Holders
<1>7. /\ at' \in [Clients -> Stages] /\ work' \in [Clients -> Works] /\ at'[c] = "idle"
      /\ \A b \in Clients \ {c} : at'[b] = at[b] /\ work'[b] = work[b]
  BY <1>1, <1>2, OverIs
<1>8. Apart(c) /\ Leaves(c) /\ Typed'
  BY <1>1, <1>2, <1>3, <1>5, <1>6, <1>7 DEF Apart, Leaves, Typed
<1>9. Keeping(c)
  BY <1>2, <1>7 DEF Keeping, Holds, Has, Inside, Away
<1> QED  BY <1>1, <1>2, <1>8, <1>9, Preserved

LEMMA StepLooksOn ==
    ASSUME IInv, NEW c \in Connections, LooksOn(c)
    PROVE  IInv'
<1> DEFINE other == Other(c)
           T == work[c].tried \cup {other}
<1>1. Typed /\ Holds(c) /\ Has(c) /\ c \in Clients /\ NoHolder \in Holders /\ On[c] \in Devices
  BY Known
<1>2. /\ at[c] = "copying" /\ holder' = [holder EXCEPT ![other] = NoHolder]
      /\ work' = [work EXCEPT ![c].tried = T] /\ at' = [at EXCEPT ![c] = "looking"]
      /\ kept' = kept /\ lent' = lent /\ mine' = mine
  BY DEF LooksOn
<1>3. other \in Devices /\ other # On[c] /\ holder[On[c]] = c /\ holder[other] = c
  BY <1>2, Copying
<1>4. T \in SUBSET Devices
  BY <1>3, Tried
<1>5. On[c] \in T
  BY <1>1, <1>2 DEF Holds
<1> HIDE DEF other, T
<1>6. /\ work' \in [Clients -> Works] /\ work'[c].tried = T
      /\ work'[c].kind = work[c].kind /\ work'[c].of = work[c].of
      /\ work'[c].what = work[c].what
      /\ \A b \in Clients \ {c} : work'[b] = work[b]
  BY <1>1, <1>2, <1>4, TriedIs
<1>7. /\ at' \in [Clients -> Stages] /\ at'[c] = "looking"
      /\ \A b \in Clients \ {c} : at'[b] = at[b]
  BY <1>1, <1>2, AtBecomes DEF Stages
<1>8. /\ holder' \in [Devices -> Holders] /\ \A e \in Devices \ {other} : holder'[e] = holder[e]
  BY <1>1, <1>2, <1>3, HolderBecomes
<1>9. Apart(c) /\ Leaves(c) /\ Typed'
  BY <1>1, <1>2, <1>3, <1>6, <1>7, <1>8 DEF Apart, Leaves, Typed
<1>10. holder'[On[c]] = c
  BY <1>1, <1>3, <1>8
<1>11. Keeping(c)
  BY <1>1, <1>2, <1>5, <1>6, <1>7, <1>10 DEF Keeping, Holds, Has, Away
<1> QED  BY <1>1, <1>2, <1>9, <1>11, Preserved

LEMMA StepNoCopy ==
    ASSUME IInv, NEW c \in Connections, NoCopy(c)
    PROVE  IInv'
<1> DEFINE T == {}
<1>1. Typed /\ Holds(c) /\ Has(c) /\ c \in Clients
  BY Known
<1>2. /\ at[c] = "looking" /\ at' = [at EXCEPT ![c] = "loading"]
      /\ work' = [work EXCEPT ![c].tried = T]
      /\ holder' = holder /\ kept' = kept /\ lent' = lent /\ mine' = mine
  BY DEF NoCopy, tables
<1>3. T \in SUBSET Devices
  OBVIOUS
<1> HIDE DEF T
<1>4. /\ work' \in [Clients -> Works]
      /\ work'[c].kind = work[c].kind /\ work'[c].of = work[c].of
      /\ work'[c].what = work[c].what
      /\ \A b \in Clients \ {c} : work'[b] = work[b]
  BY <1>1, <1>2, <1>3, TriedIs
<1>5. /\ at' \in [Clients -> Stages] /\ at'[c] = "loading"
      /\ \A b \in Clients \ {c} : at'[b] = at[b]
  BY <1>1, <1>2, AtBecomes DEF Stages
<1>6. Apart(c) /\ Leaves(c) /\ Typed'
  BY <1>1, <1>2, <1>4, <1>5 DEF Apart, Leaves, Typed
<1>7. Keeping(c)
  BY <1>1, <1>2, <1>4, <1>5 DEF Keeping, Holds, Has, Inside, Away
<1> QED  BY <1>1, <1>2, <1>6, <1>7, Preserved

LEMMA StepOpenSession ==
    ASSUME IInv, NEW c \in Connections, OpenSession(c)
    PROVE  IInv'
<1> DEFINE d == On[c]
           s == Without(kept[d], "Dit")
           m == IF Reusable(c) THEN KeptDit(d) ELSE NoModel
           stage == IF Reusable(c) THEN "patching" ELSE "loading"
<1>1. /\ Typed /\ Has(c) /\ c \in Clients /\ c \in Holders /\ d \in Devices
      /\ kept[d] \in Seq(Honest)
  BY Known
<1>2. /\ at[c] = "asking" /\ holder[d] = NoHolder /\ holder' = [holder EXCEPT ![d] = c]
      /\ kept' = [kept EXCEPT ![d] = s] /\ mine' = [mine EXCEPT ![c] = m]
      /\ Goes(c, stage) /\ lent' = lent
  BY DEF OpenSession, TakesTable, Free
<1>3. s \in Seq(Honest)
  BY <1>1, WithoutIs
<1>4. m \in Mines /\ (stage = "patching" => m \in Models)
  <2>1. CASE Reusable(c)
    <3>1. KeptDit(d) \in Honest
      BY <1>1, <2>1, KeptDitIs DEF Reusable
    <3> QED  BY <2>1, <3>1 DEF Honest, Mines
  <2>2. CASE ~Reusable(c)
    BY <2>2 DEF Mines
  <2> QED  BY <2>1, <2>2
<1>5. stage \in {"patching", "loading"}
  OBVIOUS
<1> HIDE DEF d, s, m, stage
<1>6. /\ at' \in [Clients -> Stages] /\ at'[c] = stage /\ work' = work
      /\ \A b \in Clients \ {c} : at'[b] = at[b] /\ work'[b] = work[b]
  BY <1>1, <1>2, <1>5, GoesIs DEF Stages
<1>7. /\ mine' \in [Clients -> Mines] /\ mine'[c] = m
      /\ \A b \in Clients \ {c} : mine'[b] = mine[b]
  BY <1>1, <1>2, <1>4, MineBecomes
<1>8. /\ holder' \in [Devices -> Holders] /\ holder'[d] = c
      /\ \A e \in Devices \ {d} : holder'[e] = holder[e]
  BY <1>1, <1>2, HolderBecomes
<1>9. kept' \in [Devices -> Seq(Honest)] /\ \A e \in Devices \ {d} : kept'[e] = kept[e]
  BY <1>1, <1>2, <1>3, KeptBecomes
<1>10. Apart(c) /\ Leaves(c) /\ Typed'
  BY <1>1, <1>2, <1>6, <1>7, <1>8, <1>9 DEF Apart, Leaves, Typed
<1>11. Keeping(c)
  BY <1>1, <1>2, <1>4, <1>5, <1>6, <1>7, <1>8 DEF Keeping, Holds, Has, Away, d
<1> QED  BY <1>1, <1>2, <1>10, <1>11, Preserved

LEMMA StepLoad ==
    ASSUME IInv, NEW c \in Connections, Load(c)
    PROVE  IInv'
<1> DEFINE d == On[c]
           m == Model("Dit", work[c].of, ReadsWhole(c))
           s == Append(kept[d], m)
<1>1. /\ Typed /\ Holds(c) /\ Has(c) /\ c \in Clients /\ d \in Devices
      /\ kept[d] \in Seq(Honest) /\ NoHolder \in Holders
  BY Known
<1>2. at[c] = "loading" /\ lent' = lent
  BY DEF Load
<1>3. m \in Honest /\ m \in Models
  <2>1. ReadsWhole(c) \in BOOLEAN
    BY DEF ReadsWhole, Fits
  <2>2. work[c].of \in Keys /\ "Dit" \in AllKinds
    BY <1>1, <1>2 DEF Has, AllKinds
  <2>3. m \in Honest
    BY <2>1, <2>2, ReadIs
  <2> QED  BY <2>3 DEF Honest
<1>4. holder[d] = c
  BY <1>1, <1>2 DEF Holds, Inside
<1>5. s \in Seq(Honest)
  BY <1>1, <1>3, AppendIs
<1>6. \/ /\ kept' = [kept EXCEPT ![d] = s] /\ mine' = mine
         /\ holder' = [holder EXCEPT ![d] = NoHolder] /\ Over(c)
      \/ /\ mine' = [mine EXCEPT ![c] = m] /\ Goes(c, "patching")
         /\ holder' = holder /\ kept' = kept
  BY DEF Load, Answered
<1> HIDE DEF d, s, m
<1>7. CASE /\ kept' = [kept EXCEPT ![d] = s] /\ mine' = mine
           /\ holder' = [holder EXCEPT ![d] = NoHolder] /\ Over(c)
  <2>1. kept' \in [Devices -> Seq(Honest)] /\ \A e \in Devices \ {d} : kept'[e] = kept[e]
    BY <1>1, <1>5, <1>7, KeptBecomes
  <2>2. holder' \in [Devices -> Holders] /\ \A e \in Devices \ {d} : holder'[e] = holder[e]
    BY <1>1, <1>7, HolderBecomes
  <2>3. /\ at' \in [Clients -> Stages] /\ work' \in [Clients -> Works] /\ at'[c] = "idle"
        /\ \A b \in Clients \ {c} : at'[b] = at[b] /\ work'[b] = work[b]
    BY <1>1, <1>7, OverIs
  <2>4. Apart(c) /\ Leaves(c) /\ Typed'
    BY <1>1, <1>4, <1>7, <2>1, <2>2, <2>3 DEF Apart, Leaves, Typed
  <2>5. Keeping(c)
    BY <1>2, <2>3 DEF Keeping, Holds, Has, Inside, Away
  <2> QED  BY <1>1, <1>2, <2>4, <2>5, Preserved
<1>8. CASE /\ mine' = [mine EXCEPT ![c] = m] /\ Goes(c, "patching")
           /\ holder' = holder /\ kept' = kept
  <2>1. /\ mine' \in [Clients -> Mines] /\ mine'[c] = m
        /\ \A b \in Clients \ {c} : mine'[b] = mine[b]
    BY <1>1, <1>3, <1>8, MineBecomes DEF Mines
  <2>2. /\ at' \in [Clients -> Stages] /\ at'[c] = "patching" /\ work' = work
        /\ \A b \in Clients \ {c} : at'[b] = at[b] /\ work'[b] = work[b]
    BY <1>1, <1>8, GoesIs DEF Stages
  <2>3. Apart(c) /\ Leaves(c) /\ Typed'
    BY <1>1, <1>8, <2>1, <2>2 DEF Apart, Leaves, Typed
  <2>4. Keeping(c)
    BY <1>1, <1>2, <1>3, <1>4, <1>8, <2>1, <2>2 DEF Keeping, Holds, Has, Away, d
  <2> QED  BY <1>1, <1>2, <2>3, <2>4, Preserved
<1> QED  BY <1>6, <1>7, <1>8

LEMMA StepAddAdapter ==
    ASSUME IInv, NEW c \in Connections, AddAdapter(c)
    PROVE  IInv'
<1> DEFINE m == [mine[c] EXCEPT !.has = mine[c].has + 1]
<1>1. Typed /\ Holds(c) /\ Has(c) /\ c \in Clients /\ work[c] \in Works
  BY Known
<1>2. /\ at[c] = "patching" /\ mine[c].has < work[c].adapters
      /\ mine' = [mine EXCEPT ![c] = m]
      /\ holder' = holder /\ kept' = kept /\ lent' = lent /\ at' = at /\ work' = work
  BY DEF AddAdapter, tables, request
<1>3. m \in Models
  <2>1. mine[c] \in Models
    BY <1>1, <1>2 DEF Has
  <2>2. work[c].adapters \in 0 .. Adapters
    BY <1>1 DEF Works
  <2>3. mine[c].has \in 0 .. Adapters
    BY <2>1 DEF Models
  <2>4. mine[c].has + 1 \in 0 .. Adapters
    BY <1>2, <2>2, <2>3, ResidentAssumption
  <2> QED  BY <2>1, <2>4 DEF Models
<1> HIDE DEF m
<1>4. /\ mine' \in [Clients -> Mines] /\ mine'[c] = m
      /\ \A b \in Clients \ {c} : mine'[b] = mine[b]
  BY <1>1, <1>2, <1>3, MineBecomes DEF Mines
<1>5. Apart(c) /\ Leaves(c) /\ Typed'
  BY <1>1, <1>2, <1>4 DEF Apart, Leaves, Typed
<1>6. Keeping(c)
  BY <1>1, <1>2, <1>3, <1>4 DEF Keeping, Holds, Has, Away
<1> QED  BY <1>1, <1>2, <1>5, <1>6, Preserved

LEMMA StepCannotPatch ==
    ASSUME IInv, NEW c \in Connections, CannotPatch(c)
    PROVE  IInv'
<1>1. /\ Typed /\ Holds(c) /\ Has(c) /\ c \in Clients /\ On[c] \in Devices
      /\ NoHolder \in Holders
  BY Known
<1>2. /\ at[c] = "patching" /\ mine' = [mine EXCEPT ![c] = NoModel]
      /\ holder' = [holder EXCEPT ![On[c]] = NoHolder]
      /\ kept' = kept /\ lent' = lent
  BY DEF CannotPatch
<1>3. /\ at' \in [Clients -> Stages] /\ work' \in [Clients -> Works]
      /\ at'[c] \in {"idle", "refused"}
      /\ at'[c] = "refused" => work'[c] = work[c]
      /\ \A b \in Clients \ {c} : at'[b] = at[b] /\ work'[b] = work[b]
  <2>1. CASE Over(c)
    BY <1>1, <2>1, OverIs
  <2>2. CASE Goes(c, "refused")
    BY <1>1, <2>2, GoesIs DEF Stages
  <2> QED  BY <2>1, <2>2 DEF CannotPatch
<1>4. mine' \in [Clients -> Mines] /\ \A b \in Clients \ {c} : mine'[b] = mine[b]
  <2>1. NoModel \in Mines
    BY DEF Mines
  <2> QED  BY <1>1, <1>2, <2>1, MineBecomes
<1>5. holder' \in [Devices -> Holders] /\ \A e \in Devices \ {On[c]} : holder'[e] = holder[e]
  BY <1>1, <1>2, HolderBecomes
<1>6. holder[On[c]] = c
  BY <1>1, <1>2 DEF Holds, Inside
<1>7. Apart(c) /\ Leaves(c)
  BY <1>2, <1>3, <1>4, <1>5, <1>6 DEF Apart, Leaves
<1>8. Typed'
  BY <1>1, <1>2, <1>3, <1>4, <1>5 DEF Typed
<1>9. Keeping(c)
  <2>1. at'[c] # "idle" => at'[c] = "refused" /\ work'[c] = work[c]
    BY <1>3
  <2>2. Holds(c)'
    BY <1>3 DEF Holds, Inside
  <2>3. Has(c)'
    BY <1>1, <1>2, <1>3, <2>1 DEF Has, Away
  <2> QED  BY <1>2, <1>3, <2>2, <2>3 DEF Keeping, Away
<1> QED  BY <1>1, <1>2, <1>7, <1>8, <1>9, Preserved

LEMMA StepCloseSession ==
    ASSUME IInv, NEW c \in Connections, CloseSession(c)
    PROVE  IInv'
<1>1. Typed /\ Holds(c) /\ Has(c) /\ c \in Clients
  BY Known
<1>2. /\ at[c] = "serving" /\ Goes(c, "closing")
      /\ holder' = holder /\ kept' = kept /\ lent' = lent /\ mine' = mine
  BY DEF CloseSession, tables
<1>3. /\ at' \in [Clients -> Stages] /\ at'[c] = "closing" /\ work' = work
      /\ \A b \in Clients \ {c} : at'[b] = at[b] /\ work'[b] = work[b]
  BY <1>1, <1>2, GoesIs DEF Stages
<1>4. Apart(c) /\ Leaves(c) /\ Typed'
  BY <1>1, <1>2, <1>3 DEF Apart, Leaves, Typed
<1>5. Keeping(c)
  BY <1>1, <1>2, <1>3 DEF Keeping, Holds, Has, Inside, Away
<1> QED  BY <1>1, <1>2, <1>4, <1>5, Preserved

LEMMA StepStepShort ==
    ASSUME IInv, NEW c \in Connections, StepShort(c)
    PROVE  IInv'
<1> DEFINE d == On[c]
           s == LetGo(d, {})
<1>1. Typed /\ Holds(c) /\ Has(c) /\ c \in Clients /\ d \in Devices /\ kept[d] \in Seq(Honest)
  BY Known
<1>2. /\ at[c] = "serving" /\ holder[d] = NoHolder
      /\ holder' = holder /\ lent' = lent /\ mine' = mine
  BY DEF StepShort, Free
<1>3. CASE Releasable(d, {}) # {}
  <2>1. kept' = [kept EXCEPT ![d] = s] /\ at' = at /\ work' = work
    BY <1>3 DEF StepShort
  <2>2. s \in Seq(Honest)
    BY <1>1, <1>3, LetGoIs
  <2> HIDE DEF d, s
  <2>3. kept' \in [Devices -> Seq(Honest)] /\ \A e \in Devices \ {d} : kept'[e] = kept[e]
    BY <1>1, <2>1, <2>2, KeptBecomes
  <2>4. Apart(c) /\ Leaves(c) /\ Typed'
    BY <1>1, <1>2, <2>1, <2>3 DEF Apart, Leaves, Typed
  <2>5. Keeping(c)
    BY <1>1, <1>2, <2>1 DEF Keeping, Holds, Has, Inside
  <2> QED  BY <1>1, <1>2, <2>4, <2>5, Preserved
<1>4. CASE Releasable(d, {}) = {}
  <2>1. Goes(c, "failing") /\ kept' = kept
    BY <1>4 DEF StepShort
  <2>2. /\ at' \in [Clients -> Stages] /\ at'[c] = "failing" /\ work' = work
        /\ \A b \in Clients \ {c} : at'[b] = at[b] /\ work'[b] = work[b]
    BY <1>1, <2>1, GoesIs DEF Stages
  <2>3. Apart(c) /\ Leaves(c) /\ Typed'
    BY <1>1, <1>2, <2>1, <2>2 DEF Apart, Leaves, Typed
  <2>4. Keeping(c)
    BY <1>1, <1>2, <2>2 DEF Keeping, Holds, Has, Inside, Away
  <2> QED  BY <1>1, <1>2, <2>3, <2>4, Preserved
<1> QED  BY <1>3, <1>4

-------------------------------------------------------------------------------
(* A DiT goes out of the table and comes back.                               *)

Lenders(d) == {c \in Connections : On[c] = d /\ at[c] \in Away}

LEMMA LentIs ==
    ASSUME IInv, NEW d \in Devices
    PROVE  IsFiniteSet(Lenders(d)) /\ lent[d] = Cardinality(Lenders(d)) /\ lent[d] \in Nat
<1>1. IsFiniteSet(Connections)
  BY ResidentAssumption, FS_Subset DEF Clients
<1>2. Lenders(d) \in SUBSET Connections
  BY DEF Lenders
<1>3. IsFiniteSet(Lenders(d))
  BY <1>1, <1>2, FS_Subset
<1> QED  BY <1>3 DEF IInv, LentCounted, Lenders, Away

(* The count goes with the set, at the device of the client whose DiT it is. *)
LEMMA CountedAgain ==
    ASSUME IInv, NEW c \in Connections, NEW n \in Nat, lent' = [lent EXCEPT ![On[c]] = n],
           \A b \in Connections \ {c} : at'[b] = at[b],
           n = Cardinality(Lenders(On[c])')
    PROVE  lent' \in [Devices -> Nat] /\ LentCounted'
<1>1. On[c] \in Devices
  BY Known
<1>2. lent' \in [Devices -> Nat] /\ lent'[On[c]] = n
  BY <1>1 DEF IInv
<1>3. ASSUME NEW d \in Devices PROVE lent'[d] = Cardinality(Lenders(d)')
  <2>1. CASE d = On[c]
    BY <1>2, <2>1
  <2>2. CASE d # On[c]
    <3>1. lent'[d] = lent[d]
      BY <1>1, <2>2 DEF IInv
    <3>2. Lenders(d)' = Lenders(d)
      BY <2>2 DEF Lenders
    <3> QED  BY <3>1, <3>2, LentIs
  <2> QED  BY <2>1, <2>2
<1> QED  BY <1>2, <1>3 DEF LentCounted, Lenders, Away

LEMMA StepLend ==
    ASSUME IInv, NEW c \in Connections, Lend(c)
    PROVE  IInv'
<1> DEFINE d == On[c]
           m == [mine[c] EXCEPT !.key = work[c].adapters]
           n == lent[d] + 1
<1>1. /\ Typed /\ Holds(c) /\ Has(c) /\ c \in Clients /\ d \in Devices
      /\ NoHolder \in Holders /\ work[c] \in Works
  BY Known
<1>2. /\ at[c] = "patching" /\ mine[c].has = work[c].adapters
      /\ mine' = [mine EXCEPT ![c] = m] /\ lent' = [lent EXCEPT ![d] = n]
      /\ holder' = [holder EXCEPT ![d] = NoHolder] /\ Goes(c, "serving") /\ kept' = kept
  BY DEF Lend
<1>3. m \in Honest
  <2>1. mine[c] \in Models
    BY <1>1, <1>2 DEF Has
  <2>2. work[c].adapters \in 0 .. Adapters
    BY <1>1 DEF Works
  <2> QED  BY <1>2, <2>1, <2>2 DEF Honest, Models
<1>4. n \in Nat /\ n = Cardinality(Lenders(d)) + 1 /\ IsFiniteSet(Lenders(d))
  BY <1>1, LentIs
<1>5. holder[d] = c
  BY <1>1, <1>2 DEF Holds, Inside
<1>6. /\ at' \in [Clients -> Stages] /\ at'[c] = "serving" /\ work' = work
      /\ \A b \in Clients \ {c} : at'[b] = at[b] /\ work'[b] = work[b]
  BY <1>1, <1>2, GoesIs DEF Stages
<1>7. Lenders(d)' = Lenders(d) \cup {c} /\ c \notin Lenders(d)
  BY <1>2, <1>6 DEF Lenders, Away, Clients
<1>8. n = Cardinality(Lenders(d)')
  BY <1>4, <1>7, FS_AddElement
<1>9. lent' \in [Devices -> Nat] /\ LentCounted'
  <2> HIDE DEF n
  <2> QED  BY <1>2, <1>4, <1>6, <1>8, CountedAgain DEF Clients
<1> HIDE DEF d, m, n
<1>10. /\ mine' \in [Clients -> Mines] /\ mine'[c] = m
       /\ \A b \in Clients \ {c} : mine'[b] = mine[b]
  <2>1. m \in Mines
    BY <1>3 DEF Honest, Mines
  <2> QED  BY <1>1, <1>2, <2>1, MineBecomes
<1>11. holder' \in [Devices -> Holders] /\ \A e \in Devices \ {d} : holder'[e] = holder[e]
  BY <1>1, <1>2, HolderBecomes
<1>12. Apart(c) /\ Leaves(c)
  BY <1>2, <1>5, <1>6, <1>10, <1>11 DEF Apart, Leaves
<1>13. Typed'
  BY <1>1, <1>2, <1>6, <1>10, <1>11 DEF Typed
<1>14. Holds(c)' /\ Has(c)'
  BY <1>1, <1>2, <1>3, <1>6, <1>10 DEF Holds, Has, Inside, Away
<1>15. \A b \in Connections : (Holds(b) /\ Has(b))'
  BY <1>1, <1>12, <1>14, ClientsStay
<1> QED  BY <1>9, <1>13, <1>15 DEF IInv

LEMMA StepReturnDit ==
    ASSUME IInv, NEW c \in Connections, ReturnDit(c)
    PROVE  IInv'
<1> DEFINE d == On[c]
           s == Append(Without(kept[d], "Dit"), mine[c])
           n == lent[d] - 1
<1>1. /\ Typed /\ Holds(c) /\ Has(c) /\ c \in Clients /\ d \in Devices
      /\ kept[d] \in Seq(Honest)
  BY Known
<1>2. /\ at[c] \in {"failing", "closing"} /\ holder[d] = NoHolder
      /\ lent' = [lent EXCEPT ![d] = n] /\ kept' = [kept EXCEPT ![d] = s]
      /\ mine' = [mine EXCEPT ![c] = NoModel] /\ holder' = holder
      /\ Over(c) \/ Goes(c, "refused")
  BY DEF ReturnDit, Free
<1>3. s \in Seq(Honest)
  <2>1. mine[c] \in Honest
    BY <1>1, <1>2 DEF Has, Away
  <2> QED  BY <1>1, <2>1, WithoutIs, AppendIs
<1>4. /\ at' \in [Clients -> Stages] /\ work' \in [Clients -> Works]
      /\ at'[c] \in {"idle", "refused"}
      /\ at'[c] = "refused" => work'[c] = work[c]
      /\ \A b \in Clients \ {c} : at'[b] = at[b] /\ work'[b] = work[b]
  <2>1. CASE Over(c)
    BY <1>1, <2>1, OverIs
  <2>2. CASE Goes(c, "refused")
    BY <1>1, <2>2, GoesIs DEF Stages
  <2> QED  BY <1>2, <2>1, <2>2
<1>5. Lenders(d)' = Lenders(d) \ {c} /\ c \in Lenders(d)
  BY <1>2, <1>4 DEF Lenders, Away, Clients
<1>6. n \in Nat /\ n = Cardinality(Lenders(d)')
  <2>1. /\ IsFiniteSet(Lenders(d)) /\ lent[d] = Cardinality(Lenders(d)) /\ lent[d] \in Nat
    BY <1>1, LentIs
  <2>2. Cardinality(Lenders(d) \ {c}) = lent[d] - 1 /\ Cardinality(Lenders(d) \ {c}) \in Nat
    BY <1>5, <2>1, FS_RemoveElement, FS_CardinalityType
  <2> QED  BY <1>5, <2>2
<1>7. lent' \in [Devices -> Nat] /\ LentCounted'
  <2> HIDE DEF n
  <2> QED  BY <1>2, <1>4, <1>6, CountedAgain DEF Clients
<1> HIDE DEF d, s, n
<1>8. mine' \in [Clients -> Mines] /\ \A b \in Clients \ {c} : mine'[b] = mine[b]
  <2>1. NoModel \in Mines
    BY DEF Mines
  <2> QED  BY <1>1, <1>2, <2>1, MineBecomes
<1>9. kept' \in [Devices -> Seq(Honest)] /\ \A e \in Devices \ {d} : kept'[e] = kept[e]
  BY <1>1, <1>2, <1>3, KeptBecomes
<1>10. Apart(c) /\ Leaves(c)
  BY <1>2, <1>4, <1>8, <1>9 DEF Apart, Leaves
<1>11. Typed'
  BY <1>1, <1>2, <1>4, <1>8, <1>9 DEF Typed
<1>12. Holds(c)' /\ Has(c)'
  <2>1. Holds(c)'
    BY <1>4 DEF Holds, Inside
  <2>2. at'[c] # "idle" => at'[c] = "refused" /\ work'[c] = work[c]
    BY <1>4
  <2>3. at[c] # "idle"
    BY <1>2
  <2>4. Has(c)'
    BY <1>1, <1>4, <2>2, <2>3 DEF Has, Away
  <2> QED  BY <2>1, <2>4
<1>13. \A b \in Connections : (Holds(b) /\ Has(b))'
  BY <1>1, <1>10, <1>12, ClientsStay
<1> QED  BY <1>7, <1>11, <1>13 DEF IInv

-------------------------------------------------------------------------------
(* The steps a leader takes too, and those of nobody in particular.          *)

LEMMA KnownClient ==
    ASSUME IInv, NEW c \in Clients
    PROVE  /\ Typed /\ On[c] \in Devices /\ work[c] \in Works
           /\ c \in Connections => Has(c)
BY ResidentAssumption DEF IInv, Typed

(* A client stands elsewhere, outside of the table, and what it asked for is no other. *)
LEMMA OnlyGoes ==
    ASSUME IInv, NEW c \in Clients, NEW stage \in Stages \ (Inside \cup Away \cup {"idle"}),
           Goes(c, stage), UNCHANGED <<holder, kept, lent, mine>>,
           c \in Connections => at[c] # "idle" /\ at[c] \notin Away
    PROVE  IInv'
<1>1. Typed
  BY KnownClient
<1>2. c \in Connections => Has(c)
  BY KnownClient
<1>3. /\ at' \in [Clients -> Stages] /\ at'[c] = stage /\ work' = work
      /\ \A b \in Clients \ {c} : at'[b] = at[b] /\ work'[b] = work[b]
  BY <1>1, GoesIs
<1>4. Apart(c) /\ Leaves(c) /\ Typed'
  BY <1>1, <1>3 DEF Apart, Leaves, Typed
<1>5. Keeping(c)
  BY <1>2, <1>3 DEF Keeping, Holds, Has, Inside
<1> QED  BY <1>4, <1>5, Preserved

LEMMA StepNotReturned ==
    ASSUME IInv, NEW c \in Clients, NotReturned(c)
    PROVE  IInv'
<1>1. "refused" \in Stages \ (Inside \cup Away \cup {"idle"})
  BY DEF Stages, Inside, Away
<1>2. at[c] = "waiting" /\ Goes(c, "refused") /\ UNCHANGED <<holder, kept, lent, mine>>
  BY DEF NotReturned, tables
<1>3. at[c] # "idle" /\ at[c] \notin Away
  BY <1>2 DEF Away
<1> QED  BY <1>1, <1>2, <1>3, OnlyGoes

LEMMA StepReturned ==
    ASSUME IInv, NEW c \in Clients, Returned(c)
    PROVE  IInv'
<1> DEFINE w == [work[c] EXCEPT !.saw = 0]
<1>1. Typed /\ work[c] \in Works
  BY KnownClient
<1>2. c \in Connections => Has(c)
  BY KnownClient
<1>3. /\ at[c] = "waiting" /\ at' = [at EXCEPT ![c] = Retry(c)]
      /\ work' = [work EXCEPT ![c] = w]
      /\ holder' = holder /\ kept' = kept /\ lent' = lent /\ mine' = mine
  BY DEF Returned, tables
<1>4. w \in Works /\ w.kind = work[c].kind /\ w.of = work[c].of /\ w.what = work[c].what
  BY <1>1 DEF Works
<1> HIDE DEF w
<1>5. /\ work' \in [Clients -> Works] /\ work'[c] = w
      /\ \A b \in Clients \ {c} : work'[b] = work[b]
  BY <1>1, <1>3, <1>4, WorkBecomes
<1>6. Retry(c) \in {"asking", "trying"}
  BY DEF Retry
<1>7. /\ at' \in [Clients -> Stages] /\ at'[c] \in {"asking", "trying"}
      /\ \A b \in Clients \ {c} : at'[b] = at[b]
  BY <1>1, <1>3, <1>6, AtBecomes DEF Stages
<1>8. Apart(c) /\ Leaves(c) /\ Typed'
  BY <1>1, <1>3, <1>5, <1>7 DEF Apart, Leaves, Typed
<1>9. Keeping(c)
  BY <1>2, <1>3, <1>4, <1>5, <1>7 DEF Keeping, Holds, Has, Inside, Away
<1> QED  BY <1>3, <1>8, <1>9, Preserved

LEMMA StepGiveUp ==
    ASSUME IInv, NEW c \in Clients, GiveUp(c)
    PROVE  IInv'
<1> DEFINE d == On[c]
<1>1. Typed /\ d \in Devices
  BY KnownClient
<1>2. /\ at[c] = "refused" /\ Over(c) /\ holder' = holder /\ lent' = lent /\ mine' = mine
      /\ \/ kept' = kept
         \/ kept' = [kept EXCEPT ![d] = <<>>] /\ holder[d] = NoHolder
  BY DEF GiveUp, Free
<1> HIDE DEF d
<1>3. /\ at' \in [Clients -> Stages] /\ work' \in [Clients -> Works] /\ at'[c] = "idle"
      /\ \A b \in Clients \ {c} : at'[b] = at[b] /\ work'[b] = work[b]
  BY <1>1, <1>2, OverIs
<1>4. kept' \in [Devices -> Seq(Honest)] /\ Leaves(c)
  <2>1. CASE kept' = kept
    BY <1>1, <1>2, <2>1 DEF Typed, Leaves
  <2>2. CASE kept' = [kept EXCEPT ![d] = <<>>] /\ holder[d] = NoHolder
    <3>1. <<>> \in Seq(Honest)
      OBVIOUS
    <3>2. kept' \in [Devices -> Seq(Honest)] /\ \A e \in Devices \ {d} : kept'[e] = kept[e]
      BY <1>1, <2>2, <3>1, KeptBecomes
    <3> QED  BY <1>2, <2>2, <3>2 DEF Leaves
  <2> QED  BY <1>2, <2>1, <2>2
<1>5. Apart(c) /\ Typed'
  BY <1>1, <1>2, <1>3, <1>4 DEF Apart, Typed
<1>6. Keeping(c)
  BY <1>2, <1>3 DEF Keeping, Holds, Has, Inside, Away
<1> QED  BY <1>2, <1>4, <1>5, <1>6, Preserved

LEMMA LeadersAre ==
    ASSUME NEW l \in Leaders
    PROVE  l \in Clients /\ l \notin Connections
BY ResidentAssumption DEF Clients

LEMMA StepLeader ==
    ASSUME IInv, NEW l \in Leaders, Begin(l) \/ Try(l) \/ TryLater(l) \/ Finish(l)
    PROVE  IInv'
<1>1. l \in Clients /\ l \notin Connections
  BY LeadersAre
<1>2. CASE Begin(l)
  <2>1. "trying" \in Stages \ (Inside \cup Away \cup {"idle"})
    BY DEF Stages, Inside, Away
  <2>2. Goes(l, "trying") /\ UNCHANGED <<holder, kept, lent, mine>>
    BY <1>2 DEF Begin, tables
  <2> QED  BY <1>1, <2>1, <2>2, OnlyGoes
<1>3. CASE Try(l)
  <2>1. "running" \in Stages \ (Inside \cup Away \cup {"idle"})
    BY DEF Stages, Inside, Away
  <2>2. Goes(l, "running") /\ UNCHANGED <<holder, kept, lent, mine>>
    BY <1>3 DEF Try, tables
  <2> QED  BY <1>1, <2>1, <2>2, OnlyGoes
<1>4. CASE TryLater(l)
  <2>1. holder[On[l]] = NoHolder /\ MakeRoom(l, "trying")
    BY <1>4 DEF TryLater, Free
  <2> QED  BY <1>1, <2>1, MakeRoomKeeps
<1>5. CASE Finish(l)
  <2>1. Over(l) /\ holder' = holder /\ kept' = kept /\ lent' = lent /\ mine' = mine
    BY <1>5 DEF Finish, tables
  <2>2. Typed
    BY <1>1, KnownClient
  <2>3. /\ at' \in [Clients -> Stages] /\ work' \in [Clients -> Works]
        /\ \A b \in Clients \ {l} : at'[b] = at[b] /\ work'[b] = work[b]
    BY <1>1, <2>1, <2>2, OverIs
  <2>4. Apart(l) /\ Leaves(l) /\ Typed'
    BY <2>1, <2>2, <2>3 DEF Apart, Leaves, Typed
  <2> QED  BY <1>1, <2>1, <2>4, Preserved DEF Keeping
<1> QED  BY <1>2, <1>3, <1>4, <1>5

LEMMA StepIdle ==
    ASSUME IInv, NEW d \in Devices, Idle(d)
    PROVE  IInv'
<1>1. /\ holder[d] = NoHolder /\ kept' = [kept EXCEPT ![d] = <<>>]
      /\ holder' = holder /\ lent' = lent /\ at' = at /\ work' = work /\ mine' = mine
  BY DEF Idle, Free, request
<1>2. Typed
  BY DEF IInv
<1>3. <<>> \in Seq(Honest)
  OBVIOUS
<1>4. kept' \in [Devices -> Seq(Honest)] /\ \A e \in Devices \ {d} : kept'[e] = kept[e]
  BY <1>1, <1>2, <1>3, KeptBecomes
<1>5. Apart(NoHolder) /\ Leaves(NoHolder) /\ Typed'
  BY <1>1, <1>2, <1>4 DEF Apart, Leaves, Typed
<1>6. Keeping(NoHolder)
  BY ResidentAssumption DEF Keeping, Clients
<1> QED  BY <1>1, <1>5, <1>6, Preserved

-------------------------------------------------------------------------------
(* The invariant, and what it means.                                         *)

LEMMA InitIs == TablesInit => IInv
<1> SUFFICES ASSUME TablesInit PROVE IInv
  OBVIOUS
<1>1. Typed
  <2>1. NoRequest \in Works
    BY NoRequestIs
  <2>2. "idle" \in Stages /\ NoHolder \in Holders /\ NoModel \in Mines /\ <<>> \in Seq(Honest)
    BY DEF Stages, Holders, Mines
  <2> QED  BY <2>1, <2>2 DEF TablesInit, Typed
<1>2. \A c \in Connections : at[c] = "idle"
  BY DEF TablesInit, Clients
<1>3. \A c \in Connections : Holds(c) /\ Has(c)
  BY <1>2 DEF Holds, Has, Inside, Away
<1>4. LentCounted
  <2> SUFFICES ASSUME NEW d \in Devices
               PROVE  lent[d] = Cardinality({c \in Connections :
                                  On[c] = d /\ at[c] \in {"serving", "failing", "closing"}})
    BY DEF LentCounted
  <2>1. {c \in Connections : On[c] = d /\ at[c] \in {"serving", "failing", "closing"}} = {}
    BY <1>2
  <2>2. lent[d] = 0
    BY DEF TablesInit
  <2> QED  BY <2>1, <2>2, FS_EmptySet
<1>5. lent \in [Devices -> Nat]
  BY DEF TablesInit
<1> QED  BY <1>1, <1>3, <1>4, <1>5 DEF IInv

LEMMA StepConnection ==
    ASSUME IInv, NEW c \in Connections,
           \/ Ask(c) \/ Serve(c) \/ CannotRead(c) \/ CannotCopy(c) \/ CannotPatch(c)
           \/ TooLong(c)
    PROVE  IInv'
<1>1. c \in Clients
  BY DEF Clients
<1>2. CASE Ask(c) \/ CannotRead(c) \/ CannotCopy(c) \/ CannotPatch(c) \/ TooLong(c)
  BY <1>2, StepAsk, StepCannotRead, StepLooksOn, StepCannotPatch, StepPassBy DEF CannotCopy
<1>3. CASE Decode(c) \/ ReadAgain(c) \/ Read(c) \/ Work(c) \/ NoRoom(c) \/ Prepare(c)
  BY <1>3, StepDecode, StepReadAgain, StepRead, StepWork, StepNoRoom, StepPrepare
<1>4. CASE LookAt(c) \/ PassBy(c) \/ CopyAgain(c) \/ Copy(c) \/ NoCopy(c) \/ NoRoomToCopy(c)
  BY <1>4, StepLookAt, StepPassBy, StepCopyAgain, StepCopy, StepNoCopy, StepLooksOn
     DEF NoRoomToCopy
<1>5. CASE OpenSession(c) \/ Load(c) \/ CannotLoad(c) \/ AddAdapter(c) \/ Lend(c)
  BY <1>5, StepOpenSession, StepLoad, StepCannotLoad, StepAddAdapter, StepLend
<1>6. CASE StepShort(c) \/ CloseSession(c) \/ ReturnDit(c) \/ Returned(c) \/ GiveUp(c)
  BY <1>1, <1>6, StepStepShort, StepCloseSession, StepReturnDit, StepReturned, StepGiveUp
<1> QED  BY <1>2, <1>3, <1>4, <1>5, <1>6 DEF Serve

LEMMA StepIs == IInv /\ [TablesNext]_tablesVars => IInv'
<1> SUFFICES ASSUME IInv, [TablesNext]_tablesVars PROVE IInv'
  OBVIOUS
<1>1. CASE \E c \in Connections :
             Ask(c) \/ Serve(c) \/ CannotRead(c) \/ CannotCopy(c) \/ CannotPatch(c) \/ TooLong(c)
  BY <1>1, StepConnection
<1>2. CASE \E l \in Leaders : Begin(l) \/ Lead(l)
  <2>1. PICK l \in Leaders : Begin(l) \/ Lead(l)
    BY <1>2
  <2>2. l \in Clients
    BY LeadersAre
  <2> QED  BY <2>1, <2>2, StepLeader, StepReturned, StepGiveUp DEF Lead
<1>3. CASE \E c \in Clients : NotReturned(c)
  BY <1>3, StepNotReturned
<1>4. CASE \E d \in Devices : Idle(d)
  BY <1>4, StepIdle
<1>5. CASE UNCHANGED tablesVars
  <2>1. UNCHANGED <<holder, kept, lent, at, work, mine>>
    BY <1>5 DEF tablesVars, tables, request
  <2>2. Apart(NoHolder) /\ Leaves(NoHolder) /\ Typed'
    BY <2>1 DEF Apart, Leaves, IInv, Typed
  <2>3. Keeping(NoHolder)
    BY ResidentAssumption DEF Keeping, Clients
  <2> QED  BY <2>1, <2>2, <2>3, Preserved
<1> QED  BY <1>1, <1>2, <1>3, <1>4, <1>5 DEF TablesNext

LEMMA Invariant == TablesSpec => []IInv
<1>1. TablesInit => IInv
  BY InitIs
<1>2. IInv /\ [TablesNext]_tablesVars => IInv'
  BY StepIs
<1> QED  BY <1>1, <1>2, PTL DEF TablesSpec

(* Whatever becomes of a session, `lent` counts the DiTs that are out of each table:  *)
(* a request that waits for one waits for a session that will put it back.            *)
THEOREM LentIsCounted == TablesSpec => []LentCounted
<1>1. IInv => LentCounted
  BY DEF IInv
<1> QED  BY <1>1, Invariant, PTL

(* A kept DiT has taken just the adapters it is kept under, however many sessions     *)
(* patched it, lent it and put it back, and from whatever device it was copied.       *)
THEOREM KeptTellsTheTruth == TablesSpec => []KeptIsWhatItSays
<1>1. IInv => KeptIsWhatItSays
  <2> SUFFICES ASSUME IInv, NEW d \in Devices, NEW i \in DOMAIN kept[d]
               PROVE  kept[d][i].has = kept[d][i].key
    BY DEF KeptIsWhatItSays
  <2>1. kept[d] \in Seq(Honest)
    BY DEF IInv, Typed
  <2>2. kept[d][i] \in Honest
    BY <2>1
  <2> QED  BY <2>2 DEF Honest
<1> QED  BY <1>1, Invariant, PTL

(* A table is touched only by its holder or while it is free, so whoever is inside    *)
(* holds it, and whoever copies holds the other table with the DiT still in it.       *)
THEOREM TablesAreHeld == TablesSpec => [](Typed /\ \A c \in Connections : Holds(c))
<1>1. IInv => Typed /\ \A c \in Connections : Holds(c)
  BY DEF IInv
<1> QED  BY <1>1, Invariant, PTL
===============================================================================
