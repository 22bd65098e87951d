-------------------------------- MODULE Server ---------------------------------
(***************************************************************************)
(* src/src/server.rs: generations asked for over HTTP.  Every handler runs *)
(* on its own and shares `jobs` under a lock; one thread takes the ids off *)
(* a channel and runs the generations one after another; where the one     *)
(* that runs has got to is a variable of the process with a lock of its    *)
(* own (`PROGRESS`, generation.rs).  A handler is modelled as the steps    *)
(* between which others may come: it gives the lock back before it writes  *)
(* or removes a file.                                                      *)
(***************************************************************************)
EXTENDS Integers, Sequences

CONSTANTS Ids,       \* the generations that may be asked for
          Watchers,  \* clients that follow one of them
          Steps,     \* how many steps a generation takes
          MayFail    \* a subset of {"form", "run", "panic"}

NoStep == 0
Nobody == "nobody"

ASSUME ServerAssumption ==
    /\ Steps \in Nat \ {0}
    /\ Nobody \notin Ids
    /\ MayFail \subseteq {"form", "run", "panic"}

VARIABLES
    asking,    \* how far each request for a generation has come
    jobs,      \* the state of each job in the table, or "absent"
    files,     \* what is in each job's directory
    going,     \* jobs out of the table whose directory is to be removed
    queue,     \* ids sent to the generating thread
    thread,    \* where that thread stands
    current,   \* the generation it is at
    progress,  \* PROGRESS: the step reached, and whose it is
    watching,  \* whom each watcher follows
    said,      \* the last thing each was told
    ended      \* the watchers whose stream is over

table == <<asking, jobs, files, going>>
generating == <<queue, thread, current, progress>>
streams == <<watching, said, ended>>
vars == <<table, generating, streams>>

Ends == {"done", "failed"}
None == [step |-> NoStep, of |-> Nobody]
Silence == [state |-> "none", step |-> NoStep, of |-> Nobody]

Init ==
    /\ asking = [i \in Ids |-> "not"]
    /\ jobs = [i \in Ids |-> "absent"]
    /\ files = [i \in Ids |-> {}]
    /\ going = {}
    /\ queue = <<>> /\ thread = "waiting" /\ current = Nobody
    /\ progress = None
    /\ watching = [w \in Watchers |-> Nobody]
    /\ said = [w \in Watchers |-> Silence]
    /\ ended = {}

-------------------------------------------------------------------------------
(* `create`, and `read_fields` in it. *)

Upload(i) ==
    /\ asking[i] = "not"
    /\ asking' = [asking EXCEPT ![i] = "reading"]
    /\ files' = [files EXCEPT ![i] = {"uploads"}]
    /\ UNCHANGED <<jobs, going, generating, streams>>

(* Variant with a fault: the files of a refused request stay. *)
RefuseOnly(i) ==
    /\ "form" \in MayFail
    /\ asking[i] = "reading"
    /\ asking' = [asking EXCEPT ![i] = "refused"]
    /\ UNCHANGED <<files, jobs, going, generating, streams>>

(* A refused request takes its files with it. *)
Refuse(i) ==
    /\ "form" \in MayFail
    /\ asking[i] = "reading"
    /\ asking' = [asking EXCEPT ![i] = "refused"]
    /\ files' = [files EXCEPT ![i] = {}]
    /\ UNCHANGED <<jobs, going, generating, streams>>

Insert(i) ==
    /\ asking[i] = "reading"
    /\ asking' = [asking EXCEPT ![i] = "inserted"]
    /\ jobs' = [jobs EXCEPT ![i] = "queued"]
    /\ UNCHANGED <<files, going, generating, streams>>

(* The channel is closed once the thread is gone. *)
Send(i) ==
    /\ asking[i] = "inserted"
    /\ IF thread = "dead"
       THEN asking' = [asking EXCEPT ![i] = "refused"] /\ UNCHANGED queue
       ELSE asking' = [asking EXCEPT ![i] = "accepted"] /\ queue' = Append(queue, i)
    /\ UNCHANGED <<jobs, files, going, thread, current, progress, streams>>

-------------------------------------------------------------------------------
(* `forget` *)

Forget(i) ==
    /\ jobs[i] \in {"queued"} \cup Ends
    /\ jobs' = [jobs EXCEPT ![i] = "absent"]
    /\ going' = going \cup {i}
    /\ UNCHANGED <<asking, files, generating, streams>>

(* The directory goes after the lock is given back. *)
Remove(i) ==
    /\ i \in going
    /\ going' = going \ {i}
    /\ files' = [files EXCEPT ![i] = {}]
    /\ UNCHANGED <<asking, jobs, generating, streams>>

-------------------------------------------------------------------------------
(* `generate`, on the thread of its own. *)

First == Head(queue)

(* Variant with a fault: a job taken away while it waited is run. *)
TakeUnseen ==
    /\ thread = "waiting" /\ queue # <<>>
    /\ queue' = Tail(queue)
    /\ current' = First /\ thread' = "starting"
    /\ jobs' = [jobs EXCEPT ![First] = IF @ = "absent" THEN @ ELSE "running"]
    /\ UNCHANGED <<asking, files, going, progress, streams>>

(* A job taken away while it waited is skipped. *)
Take ==
    /\ thread = "waiting" /\ queue # <<>>
    /\ queue' = Tail(queue)
    /\ IF jobs[First] = "absent"
       THEN UNCHANGED <<thread, current, jobs>>
       ELSE /\ current' = First /\ thread' = "starting"
            /\ jobs' = [jobs EXCEPT ![First] = "running"]
    /\ UNCHANGED <<asking, files, going, progress, streams>>

(* `starting`: the lock on the jobs is given back by now. *)
Start ==
    /\ thread = "starting"
    /\ thread' = "running"
    /\ progress' = None
    /\ UNCHANGED <<table, queue, current, streams>>

(* `reached`, after a step. *)
Step ==
    /\ thread = "running" /\ progress.step < Steps
    /\ progress' = [step |-> progress.step + 1, of |-> current]
    /\ UNCHANGED <<table, queue, thread, current, streams>>

(* The run writes its video and returns, or fails on the way. *)
Return ==
    /\ thread = "running"
    /\ \/ /\ progress.step = Steps
          /\ files' = [files EXCEPT ![current] = @ \cup {"video"}]
          /\ thread' = "returned"
       \/ /\ "run" \in MayFail
          /\ thread' = "thrown" /\ UNCHANGED files
    /\ UNCHANGED <<asking, jobs, going, queue, current, progress, streams>>

(* Variant with a fault: a run that failed counts as one that ended well. *)
EndWell ==
    /\ thread \in {"returned", "thrown"}
    /\ jobs' = IF jobs[current] = "absent" THEN jobs ELSE [jobs EXCEPT ![current] = "done"]
    /\ thread' = "waiting" /\ current' = Nobody
    /\ UNCHANGED <<asking, files, going, queue, progress, streams>>

(* Variant with a fault: a failed run is left as it was. *)
EndOnlyDone ==
    /\ thread \in {"returned", "thrown"}
    /\ jobs' = IF thread = "returned" /\ jobs[current] # "absent"
               THEN [jobs EXCEPT ![current] = "done"] ELSE jobs
    /\ thread' = "waiting" /\ current' = Nobody
    /\ UNCHANGED <<asking, files, going, queue, progress, streams>>

End ==
    /\ thread \in {"returned", "thrown"}
    /\ jobs' = IF jobs[current] = "absent" THEN jobs
               ELSE [jobs EXCEPT ![current] = IF thread = "returned" THEN "done" ELSE "failed"]
    /\ thread' = "waiting" /\ current' = Nobody
    /\ UNCHANGED <<asking, files, going, queue, progress, streams>>

(* A generation that panics takes the thread with it, and the channel's end. *)
Panic ==
    /\ "panic" \in MayFail
    /\ thread = "running"
    /\ thread' = "dead" /\ queue' = <<>>
    /\ UNCHANGED <<table, current, progress, streams>>

-------------------------------------------------------------------------------
(* `events`: a watcher looks again and again and is told what changed. *)

Watch(w, i) ==
    /\ watching[w] = Nobody
    /\ jobs[i] # "absent"
    /\ watching' = [watching EXCEPT ![w] = i]
    /\ UNCHANGED <<table, generating, said, ended>>

(* `Job::describe`: the steps belong to the job that runs. *)
Describe(i) ==
    LET reached == IF jobs[i] = "running" THEN progress ELSE None IN
    [state |-> jobs[i], step |-> reached.step, of |-> reached.of]

(* Variant with a fault: the last step is taken for the end. *)
LookToTheLastStep(w) ==
    LET i == watching[w] IN
    /\ i # Nobody /\ w \notin ended
    /\ IF jobs[i] = "absent"
       THEN ended' = ended \cup {w} /\ UNCHANGED said
       ELSE /\ Describe(i) # said[w]
            /\ said' = [said EXCEPT ![w] = Describe(i)]
            /\ ended' = IF jobs[i] \in Ends \/ Describe(i).step = Steps
                        THEN ended \cup {w} ELSE ended
    /\ UNCHANGED <<table, generating, watching>>

Look(w) ==
    LET i == watching[w] IN
    /\ i # Nobody /\ w \notin ended
    /\ IF jobs[i] = "absent"
       THEN ended' = ended \cup {w} /\ UNCHANGED said
       ELSE /\ Describe(i) # said[w]
            /\ said' = [said EXCEPT ![w] = Describe(i)]
            /\ ended' = IF jobs[i] \in Ends THEN ended \cup {w} ELSE ended
    /\ UNCHANGED <<table, generating, watching>>

-------------------------------------------------------------------------------
Generate == Take \/ Start \/ Step \/ Return \/ End \/ Panic

Answer(i) == Insert(i) \/ Send(i) \/ Remove(i) \/ Refuse(i)

Next ==
    \/ Generate
    \/ \E i \in Ids : Upload(i) \/ Answer(i) \/ Forget(i)
    \/ \E w \in Watchers : Look(w) \/ \E i \in Ids : Watch(w, i)

Fairness ==
    /\ WF_vars(Generate)
    /\ \A i \in Ids : WF_vars(Answer(i))
    /\ \A w \in Watchers : WF_vars(Look(w))

Spec == Init /\ [][Next]_vars /\ Fairness

-------------------------------------------------------------------------------
(* What the variables hold; one generation runs at a time, the one the thread  *)
(* is at.                                                                      *)
TypeOK ==
    /\ asking \in [Ids -> {"not", "reading", "refused", "inserted", "accepted"}]
    /\ jobs \in [Ids -> {"absent", "queued", "running"} \cup Ends]
    /\ files \in [Ids -> SUBSET {"uploads", "video"}]
    /\ going \subseteq Ids
    /\ queue \in Seq(Ids)
    /\ thread \in {"waiting", "starting", "running", "returned", "thrown", "dead"}
    /\ current \in Ids \cup {Nobody}
    /\ progress.step \in 0 .. Steps /\ progress.of \in Ids \cup {Nobody}
    /\ \A i \in Ids : jobs[i] = "running" => current = i

(* A generation keeps what it was sent, from when it is taken off the queue    *)
(* until it has ended, whoever wants it taken away meanwhile.                  *)
RunningKeepsItsFiles ==
    thread \in {"starting", "running", "returned"} => "uploads" \in files[current]

(* A generation that says it is done has its video.                            *)
DoneHasItsVideo == \A i \in Ids : jobs[i] = "done" => "video" \in files[i]

(* A directory is there only for a generation in the table or on its way into  *)
(* it or out of it: nothing is left of what the table no longer knows.         *)
NothingLeftBehind ==
    \A i \in Ids : files[i] # {} =>
        jobs[i] # "absent" \/ asking[i] = "reading" \/ i \in going

(* A watcher whose generation was not taken away hears how it ended.           *)
EndIsSaid ==
    \A w \in ended : jobs[watching[w]] = "absent" \/ said[w].state \in Ends

(* Every generation accepted ends, unless it is taken away or one before it    *)
(* took the thread with it; and so does every stream of events about one.      *)
EveryJobEnds ==
    /\ \A i \in Ids : asking[i] = "accepted" ~>
           jobs[i] \in Ends \cup {"absent"} \/ thread = "dead"
    /\ \A w \in Watchers : watching[w] # Nobody ~> w \in ended \/ thread = "dead"

(* A run is not reported at a step it has not taken.                           *)
StepsAreItsOwn ==
    \A w \in Watchers : said[w].step # NoStep => said[w].of = watching[w]
===============================================================================
