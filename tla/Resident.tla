------------------------------- MODULE Resident --------------------------------
(***************************************************************************)
(* src/src/resident.rs: the models a process keeps, in one table for each  *)
(* device under a lock of its own, and how work that finds no memory left  *)
(* gets some.  Connections (`session` of src/src/worker.rs) take the lock  *)
(* for a request and run it inside.  A session lends its DiT out of the    *)
(* table instead and puts it back after.  A leader in the same process     *)
(* works on the device without the lock and takes it only to let go.  A    *)
(* connection that prepares a DiT holds its own table while it waits for   *)
(* another device's, to copy the DiT from there.                           *)
(*                                                                         *)
(* Memory is counted in units.  A model takes one, a DiT one more for the  *)
(* blocks it keeps, and work takes one beside its model.  A model that did *)
(* not fit whole reads a part on the way and takes one unit less.          *)
(***************************************************************************)
EXTENDS Integers, Sequences, FiniteSets

CONSTANTS Devices,      \* the devices, numbered
          Connections,  \* connections to workers of the process
          Leaders,      \* leaders that work in the same process
          On,           \* the device of each of them
          Serves,       \* the connection a leader's work waits for
          Asks,         \* what is asked over each connection
          Kinds,        \* the kinds of model but the DiT
          Streamed,     \* the kinds that read on the way where they do not fit
          Keys,         \* checkpoints, or geometries of a decoder
          Adapters,     \* bound: LoRAs and patches of a session, in one order
          Room,         \* the units of each device
          Requests,     \* bound: how much each client asks
          ReadsFail     \* whether a read and an adapter may fail

Clients == Connections \cup Leaders
NoHolder == "nobody"

ASSUME ResidentAssumption ==
    /\ Devices \subseteq Nat /\ IsFiniteSet(Devices)
    /\ IsFiniteSet(Clients) /\ Connections \cap Leaders = {} /\ NoHolder \notin Clients
    /\ On \in [Clients -> Devices]
    /\ Serves \in [Leaders -> Connections]
    /\ Asks \in [Connections -> SUBSET {"decode", "prepare", "session"}]
    /\ {"Dit", "DitBlocks"} \cap Kinds = {} /\ Streamed \subseteq Kinds
    /\ Adapters \in Nat /\ Requests \in [Clients -> Nat] /\ Room \in [Devices -> Nat]
    /\ ReadsFail \in BOOLEAN

VARIABLES
    holder,    \* who has the table of each device
    kept,      \* the models in it, the one used least recently first
    lent,      \* `lent`, the DiTs out of it
    copying,   \* `COPYING`, the devices that wait for another's table
    at,        \* where each client stands
    work,      \* what its request asks for and has come to
    asked,     \* how many requests it has begun
    mine       \* the DiT it has out of the table

tables == <<holder, kept, lent>>
request == <<work, asked>>
tablesVars == <<tables, copying, at, request, mine>>

(* A model.  `key` is how many adapters a DiT is kept under, `has` how many   *)
(* it has really taken.                                                       *)
Model(kind, of, whole) == [kind |-> kind, of |-> of, whole |-> whole, key |-> 0, has |-> 0]
NoModel == Model("none", 0, FALSE)

(* The work of a request: the kinds it let go of, `lent` when it began to     *)
(* wait, and the devices it has tried to copy from, beside what it asks for.  *)
Request(what, kind, of, adapters) ==
    [what |-> what, kind |-> kind, of |-> of, adapters |-> adapters,
     released |-> {}, saw |-> 0, tried |-> {}]
NoRequest == Request("none", "none", 0, 0)

TablesInit ==
    /\ holder = [d \in Devices |-> NoHolder]
    /\ kept = [d \in Devices |-> <<>>]
    /\ lent = [d \in Devices |-> 0]
    /\ copying = {}
    /\ at = [c \in Clients |-> "idle"]
    /\ work = [c \in Clients |-> NoRequest]
    /\ asked = [c \in Clients |-> 0]
    /\ mine = [c \in Clients |-> NoModel]

-------------------------------------------------------------------------------
(* The table. *)

Free(d) == holder[d] = NoHolder

Units(models) == Cardinality({i \in DOMAIN models : models[i].whole})
                     + Cardinality({i \in DOMAIN models : models[i].kind = "Dit"})

Out(d) == {c \in Connections : On[c] = d /\ mine[c] # NoModel}

Used(d) ==
    Units(kept[d]) + Cardinality(Out(d)) + Cardinality({c \in Out(d) : mine[c].whole})
        + Cardinality({l \in Leaders : On[l] = d /\ at[l] = "running"})

Fits(d, units) == Used(d) + units =< Room[d]

Without(models, kind) ==
    LET upto[n \in 0 .. Len(models)] ==
          IF n = 0 THEN <<>>
          ELSE IF models[n].kind # kind THEN Append(upto[n - 1], models[n]) ELSE upto[n - 1]
    IN  upto[Len(models)]

(* Whether the table has the model a request is for. *)
Keeps(d, kind, of) == \E i \in DOMAIN kept[d] : kept[d][i].kind = kind /\ kept[d][i].of = of

KeptDit(d) == kept[d][CHOOSE i \in DOMAIN kept[d] : kept[d][i].kind = "Dit"]

(* A use moves a model to the end of the order. *)
Touched(models, kind) ==
    LET used == models[CHOOSE i \in DOMAIN models : models[i].kind = kind]
    IN  Append(Without(models, kind), used)

(* `release_oldest_except`: a DiT gives up its blocks before it goes.  What   *)
(* of a model goes, if anything.                                              *)
Going(m, except) ==
    IF m.kind = "Dit" /\ m.whole /\ "DitBlocks" \notin except THEN {"DitBlocks"}
    ELSE {m.kind} \ except

Releasable(d, except) == {i \in DOMAIN kept[d] : Going(kept[d][i], except) # {}}

Oldest(d, except) ==
    CHOOSE i \in Releasable(d, except) : \A j \in Releasable(d, except) : i =< j

GoingOf(d, except) == Going(kept[d][Oldest(d, except)], except)

LetGo(d, except) ==
    LET i == Oldest(d, except) IN
    IF GoingOf(d, except) = {"DitBlocks"}
    THEN [kept[d] EXCEPT ![i].whole = FALSE]
    ELSE Without(kept[d], kept[d][i].kind)

(* Where a client goes on, or that it is over with its request. *)
Goes(c, stage) == at' = [at EXCEPT ![c] = stage] /\ UNCHANGED work
Over(c) == at' = [at EXCEPT ![c] = "idle"] /\ work' = [work EXCEPT ![c] = NoRequest]

-------------------------------------------------------------------------------
(* `make_room`, by a client that has the table and no memory: it lets go of   *)
(* the model used least, or waits for a DiT a run has, or gives up.  It is    *)
(* out of the table after either.                                             *)
MakeRoom(c, again) ==
    LET d == On[c]
        nothing == Releasable(d, work[c].released) = {}
    IN  /\ kept' = IF nothing THEN kept ELSE [kept EXCEPT ![d] = LetGo(d, work[c].released)]
        /\ work' = IF nothing THEN [work EXCEPT ![c].saw = lent[d]]
                   ELSE [work EXCEPT ![c].released = @ \cup GoingOf(d, @)]
        /\ at' = [at EXCEPT ![c] = IF ~nothing THEN again
                                   ELSE IF lent[d] = 0 THEN "refused" ELSE "waiting"]
        /\ holder' = [holder EXCEPT ![d] = NoHolder]
        /\ UNCHANGED <<lent, copying, asked, mine>>

Retry(c) == IF c \in Leaders THEN "trying" ELSE "asking"

(* The wait gives the table back, and takes it for a moment when it is over.  *)
Returned(c) ==
    /\ at[c] = "waiting"
    /\ lent[On[c]] < work[c].saw
    /\ Free(On[c])
    /\ at' = [at EXCEPT ![c] = Retry(c)]
    /\ work' = [work EXCEPT ![c].saw = 0]
    /\ UNCHANGED <<tables, copying, asked, mine>>

(* `RETURN_TIMEOUT`. *)
NotReturned(c) ==
    /\ at[c] = "waiting"
    /\ Goes(c, "refused")
    /\ UNCHANGED <<tables, copying, asked, mine>>

(* `let_go_if_out_of_memory`; a leader's work fails without it. *)
GiveUp(c) ==
    /\ at[c] = "refused"
    /\ c \in Connections => Free(On[c])
    /\ kept' = IF c \in Connections THEN [kept EXCEPT ![On[c]] = <<>>] ELSE kept
    /\ Over(c)
    /\ UNCHANGED <<holder, lent, copying, asked, mine>>

(* `release_when_idle`, after a quiet while. *)
Idle(d) ==
    /\ Free(d) /\ kept[d] # <<>>
    /\ kept' = [kept EXCEPT ![d] = <<>>]
    /\ UNCHANGED <<holder, lent, copying, at, request, mine>>

-------------------------------------------------------------------------------
(* A request comes over a connection, and a connection takes the table.       *)

Wanted ==
    {Request("decode", kind, of, 0) : kind \in Kinds, of \in Keys}
        \cup {Request("prepare", "Dit", of, 0) : of \in Keys}
        \cup {Request("session", "Dit", of, n) : of \in Keys, n \in 0 .. Adapters}

Ask(c) ==
    /\ at[c] = "idle" /\ asked[c] < Requests[c]
    /\ \E w \in Wanted : w.what \in Asks[c] /\ work' = [work EXCEPT ![c] = w]
    /\ asked' = [asked EXCEPT ![c] = @ + 1]
    /\ at' = [at EXCEPT ![c] = "asking"]
    /\ UNCHANGED <<tables, copying, mine>>

TakesTable(c, what) ==
    /\ at[c] = "asking" /\ work[c].what = what
    /\ Free(On[c])

(* `with_room` around a decode: a model of another checkpoint goes before the *)
(* one wanted is read.                                                        *)
Decode(c) ==
    LET d == On[c] IN
    /\ TakesTable(c, "decode")
    /\ holder' = [holder EXCEPT ![d] = c]
    /\ IF Keeps(d, work[c].kind, work[c].of)
       THEN /\ kept' = [kept EXCEPT ![d] = Touched(@, work[c].kind)]
            /\ Goes(c, "working")
       ELSE /\ kept' = [kept EXCEPT ![d] = Without(@, work[c].kind)]
            /\ Goes(c, "reading")
    /\ UNCHANGED <<lent, copying, asked, mine>>

(* What a read spares: a model that may read on the way spares the DiT.       *)
Spared(kind) == IF kind \in Streamed \cup {"Dit"} THEN {"Dit"} ELSE {}
Whole(kind) == IF kind = "Dit" THEN 2 ELSE 1

(* `read` and `read_fitting`: a model is read whole where it fits, else       *)
(* others go, and with no other left one that can is read in part.            *)
ReadsWhole(c) == Fits(On[c], Whole(work[c].kind))
ReadsAgain(c) == ~ReadsWhole(c) /\ Releasable(On[c], Spared(work[c].kind)) # {}
ReadsFitting(c) ==
    /\ ~ReadsWhole(c) /\ ~ReadsAgain(c)
    /\ work[c].kind \in Streamed \cup {"Dit"}
    /\ Fits(On[c], Whole(work[c].kind) - 1)
ReadsNothing(c) == ~ReadsWhole(c) /\ ~ReadsAgain(c) /\ ~ReadsFitting(c)

(* A read lets go of the model used least and is tried again. *)
ReadAgain(c) ==
    LET d == On[c] IN
    /\ at[c] \in {"reading", "loading"} /\ ReadsAgain(c)
    /\ kept' = [kept EXCEPT ![d] = LetGo(d, Spared(work[c].kind))]
    /\ UNCHANGED <<holder, lent, copying, at, request, mine>>

Read(c) ==
    LET d == On[c] IN
    /\ at[c] = "reading"
    /\ ReadsWhole(c) \/ ReadsFitting(c)
    /\ kept' = [kept EXCEPT ![d] =
          Append(@, Model(work[c].kind, work[c].of, ReadsWhole(c)))]
    /\ Goes(c, "working")
    /\ UNCHANGED <<holder, lent, copying, asked, mine>>

Answered(c) ==
    /\ holder' = [holder EXCEPT ![On[c]] = NoHolder]
    /\ Over(c)

(* A file that is gone or is not what it should be. *)
CannotRead(c) ==
    /\ ReadsFail
    /\ at[c] \in {"reading", "loading"}
    /\ Answered(c)
    /\ UNCHANGED <<kept, lent, copying, asked, mine>>

Work(c) ==
    /\ at[c] = "working" /\ Fits(On[c], 1)
    /\ Answered(c)
    /\ UNCHANGED <<kept, lent, copying, asked, mine>>

NoRoom(c) ==
    /\ \/ at[c] = "working" /\ ~Fits(On[c], 1)
       \/ at[c] = "reading" /\ ReadsNothing(c)
    /\ MakeRoom(c, "asking")

-------------------------------------------------------------------------------
(* `prepare_dit` and `copy_dit`: the DiT of another device is copied where    *)
(* there is one.                                                              *)

(* Variant with a fault: it does not say that it waits for another's table.   *)
PrepareUnsaid(c) ==
    LET d == On[c] IN
    /\ TakesTable(c, "prepare")
    /\ IF Keeps(d, "Dit", work[c].of)
       THEN /\ Over(c)
            /\ UNCHANGED <<holder, kept, copying>>
       ELSE /\ holder' = [holder EXCEPT ![d] = c]
            /\ kept' = [kept EXCEPT ![d] = Without(@, "Dit")]
            /\ UNCHANGED copying
            /\ at' = [at EXCEPT ![c] = "looking"]
            /\ work' = [work EXCEPT ![c].tried = {d}]
    /\ UNCHANGED <<lent, asked, mine>>

Prepare(c) ==
    LET d == On[c] IN
    /\ TakesTable(c, "prepare")
    /\ IF Keeps(d, "Dit", work[c].of)
       THEN /\ Over(c)
            /\ UNCHANGED <<holder, kept, copying>>
       ELSE /\ holder' = [holder EXCEPT ![d] = c]
            /\ kept' = [kept EXCEPT ![d] = Without(@, "Dit")]
            /\ copying' = copying \cup {d}
            /\ at' = [at EXCEPT ![c] = "looking"]
            /\ work' = [work EXCEPT ![c].tried = {d}]
    /\ UNCHANGED <<lent, asked, mine>>

Untried(c) == Devices \ work[c].tried
Other(c) == CHOOSE d \in Untried(c) : \A e \in Untried(c) : d =< e

(* `wait_for_table` gets the table. *)
LookAt(c) ==
    /\ at[c] = "looking" /\ Untried(c) # {} /\ Free(Other(c))
    /\ IF Keeps(Other(c), "Dit", work[c].of)
       THEN /\ holder' = [holder EXCEPT ![Other(c)] = c]
            /\ Goes(c, "copying")
       ELSE /\ work' = [work EXCEPT ![c].tried = @ \cup {Other(c)}]
            /\ UNCHANGED <<holder, at>>
    /\ UNCHANGED <<kept, lent, copying, asked, mine>>

(* It does not get one whose device waits for another in turn, or in time.    *)
PassBy(c) ==
    /\ at[c] = "looking" /\ Untried(c) # {} /\ ~Free(Other(c))
    /\ Other(c) \in copying
    /\ work' = [work EXCEPT ![c].tried = @ \cup {Other(c)}]
    /\ UNCHANGED <<tables, copying, at, asked, mine>>

(* `COPY_WAIT`. *)
TooLong(c) ==
    /\ at[c] = "looking" /\ Untried(c) # {} /\ ~Free(Other(c))
    /\ work' = [work EXCEPT ![c].tried = @ \cup {Other(c)}]
    /\ UNCHANGED <<tables, copying, at, asked, mine>>

(* `copy_here`, with the room a read would find. *)
CopyAgain(c) ==
    LET d == On[c] IN
    /\ at[c] = "copying" /\ ReadsAgain(c)
    /\ kept' = [kept EXCEPT ![d] = LetGo(d, {"Dit"})]
    /\ UNCHANGED <<holder, lent, copying, at, request, mine>>

Copy(c) ==
    LET d == On[c]
        copy == [KeptDit(Other(c)) EXCEPT !.whole = ReadsWhole(c)]
    IN
    /\ at[c] = "copying"
    /\ ReadsWhole(c) \/ ReadsFitting(c)
    /\ kept' = [kept EXCEPT ![d] = Append(@, copy)]
    /\ copying' = copying \ {d}
    /\ holder' = [holder EXCEPT ![d] = NoHolder, ![Other(c)] = NoHolder]
    /\ Over(c)
    /\ UNCHANGED <<lent, asked, mine>>

LooksOn(c) ==
    /\ at[c] = "copying"
    /\ holder' = [holder EXCEPT ![Other(c)] = NoHolder]
    /\ work' = [work EXCEPT ![c].tried = @ \cup {Other(c)}]
    /\ at' = [at EXCEPT ![c] = "looking"]
    /\ UNCHANGED <<kept, lent, copying, asked, mine>>

NoRoomToCopy(c) == LooksOn(c) /\ ReadsNothing(c)
CannotCopy(c) == LooksOn(c) /\ ReadsFail

(* No device has it: it is read from the disk. *)
NoCopy(c) ==
    /\ at[c] = "looking" /\ Untried(c) = {}
    /\ copying' = copying \ {On[c]}
    /\ at' = [at EXCEPT ![c] = "loading"]
    /\ work' = [work EXCEPT ![c].tried = {}]
    /\ UNCHANGED <<tables, asked, mine>>

-------------------------------------------------------------------------------
(* `session_dit`, and the session the DiT is lent to. *)

(* A kept DiT whose adapters begin those wanted takes the rest. *)
Reusable(c) ==
    /\ Keeps(On[c], "Dit", work[c].of)
    /\ KeptDit(On[c]).key =< work[c].adapters

OpenSession(c) ==
    LET d == On[c] IN
    /\ TakesTable(c, "session")
    /\ holder' = [holder EXCEPT ![d] = c]
    /\ mine' = [mine EXCEPT ![c] = IF Reusable(c) THEN KeptDit(d) ELSE NoModel]
    /\ kept' = [kept EXCEPT ![d] = Without(@, "Dit")]
    /\ Goes(c, IF Reusable(c) THEN "patching" ELSE "loading")
    /\ UNCHANGED <<lent, copying, asked>>

(* A DiT read ahead goes into the table, one a session reads takes adapters.  *)
Load(c) ==
    LET dit == Model("Dit", work[c].of, ReadsWhole(c)) IN
    /\ at[c] = "loading"
    /\ ReadsWhole(c) \/ ReadsFitting(c)
    /\ IF work[c].what = "prepare"
       THEN /\ kept' = [kept EXCEPT ![On[c]] = Append(@, dit)]
            /\ Answered(c)
            /\ UNCHANGED mine
       ELSE /\ mine' = [mine EXCEPT ![c] = dit]
            /\ Goes(c, "patching")
            /\ UNCHANGED <<holder, kept>>
    /\ UNCHANGED <<lent, copying, asked>>

(* A DiT that does not fit: one read ahead is left, a session is refused. *)
CannotLoad(c) ==
    /\ at[c] = "loading" /\ ReadsNothing(c)
    /\ holder' = [holder EXCEPT ![On[c]] = NoHolder]
    /\ IF work[c].what = "prepare" THEN Over(c) ELSE Goes(c, "refused")
    /\ UNCHANGED <<kept, lent, copying, asked, mine>>

AddAdapter(c) ==
    /\ at[c] = "patching" /\ mine[c].has < work[c].adapters
    /\ mine' = [mine EXCEPT ![c].has = @ + 1]
    /\ UNCHANGED <<tables, copying, at, request>>

(* An adapter is gone or finds no memory.  A DiT that took some of its        *)
(* adapters is not one anybody asked for.                                     *)
CannotPatch(c) ==
    /\ ReadsFail
    /\ at[c] = "patching" /\ mine[c].has < work[c].adapters
    /\ mine' = [mine EXCEPT ![c] = NoModel]
    /\ holder' = [holder EXCEPT ![On[c]] = NoHolder]
    /\ Over(c) \/ Goes(c, "refused")
    /\ UNCHANGED <<kept, lent, copying, asked>>

(* Variant with a fault: it is kept under what it was found under. *)
LendUnderTheOldKey(c) ==
    /\ at[c] = "patching" /\ mine[c].has = work[c].adapters
    /\ lent' = [lent EXCEPT ![On[c]] = @ + 1]
    /\ holder' = [holder EXCEPT ![On[c]] = NoHolder]
    /\ Goes(c, "serving")
    /\ UNCHANGED <<kept, copying, asked, mine>>

(* `keep_dit` and `lend_dit`. *)
Lend(c) ==
    /\ at[c] = "patching" /\ mine[c].has = work[c].adapters
    /\ mine' = [mine EXCEPT ![c].key = work[c].adapters]
    /\ lent' = [lent EXCEPT ![On[c]] = @ + 1]
    /\ holder' = [holder EXCEPT ![On[c]] = NoHolder]
    /\ Goes(c, "serving")
    /\ UNCHANGED <<kept, copying, asked>>

(* A step that finds no memory: `let_go_of_one`, or the session fails.        *)
StepShort(c) ==
    LET d == On[c] IN
    /\ at[c] = "serving" /\ ~Fits(d, 1) /\ Free(d)
    /\ IF Releasable(d, {}) # {}
       THEN kept' = [kept EXCEPT ![d] = LetGo(d, {})] /\ UNCHANGED <<at, work>>
       ELSE Goes(c, "failing") /\ UNCHANGED kept
    /\ UNCHANGED <<holder, lent, copying, asked, mine>>

CloseSession(c) ==
    /\ at[c] = "serving"
    /\ Goes(c, "closing")
    /\ UNCHANGED <<tables, copying, asked, mine>>

(* Variant with a fault: a session that failed does not put its DiT back.     *)
ReturnWhatServed(c) ==
    LET d == On[c]
        served == at[c] = "closing"
    IN
    /\ at[c] \in {"failing", "closing"} /\ Free(d)
    /\ lent' = IF served THEN [lent EXCEPT ![d] = @ - 1] ELSE lent
    /\ kept' = IF served THEN [kept EXCEPT ![d] = Append(Without(@, "Dit"), mine[c])] ELSE kept
    /\ mine' = [mine EXCEPT ![c] = NoModel]
    /\ IF served THEN Over(c) ELSE Goes(c, "refused")
    /\ UNCHANGED <<holder, copying, asked>>

(* `return_dit`: whatever DiT is in the table by now goes. *)
ReturnDit(c) ==
    LET d == On[c] IN
    /\ at[c] \in {"failing", "closing"} /\ Free(d)
    /\ lent' = [lent EXCEPT ![d] = @ - 1]
    /\ kept' = [kept EXCEPT ![d] = Append(Without(@, "Dit"), mine[c])]
    /\ mine' = [mine EXCEPT ![c] = NoModel]
    /\ IF at[c] = "failing" THEN Goes(c, "refused") ELSE Over(c)
    /\ UNCHANGED <<holder, copying, asked>>

-------------------------------------------------------------------------------
(* `with_room` of a leader in this process. *)

Begin(l) ==
    /\ at[l] = "idle" /\ asked[l] < Requests[l]
    /\ asked' = [asked EXCEPT ![l] = @ + 1]
    /\ Goes(l, "trying")
    /\ UNCHANGED <<tables, copying, mine>>

Try(l) ==
    /\ at[l] = "trying" /\ Fits(On[l], 1)
    /\ Goes(l, "running")
    /\ UNCHANGED <<tables, copying, asked, mine>>

TryLater(l) ==
    /\ at[l] = "trying" /\ ~Fits(On[l], 1) /\ Free(On[l])
    /\ MakeRoom(l, "trying")

(* The work may wait for what a worker of this process was asked. *)
Finish(l) ==
    /\ at[l] = "running"
    /\ at[Serves[l]] = "idle" \/ work[Serves[l]].what # "decode"
    /\ Over(l)
    /\ UNCHANGED <<tables, copying, asked, mine>>

-------------------------------------------------------------------------------
(* What a client does by itself. *)
Serve(c) ==
    \/ Decode(c) \/ ReadAgain(c) \/ Read(c) \/ Work(c) \/ NoRoom(c)
    \/ Prepare(c) \/ LookAt(c) \/ PassBy(c) \/ CopyAgain(c) \/ Copy(c) \/ NoCopy(c)
    \/ OpenSession(c) \/ Load(c) \/ CannotLoad(c) \/ AddAdapter(c) \/ Lend(c)
    \/ StepShort(c) \/ CloseSession(c) \/ ReturnDit(c)
    \/ Returned(c) \/ GiveUp(c) \/ NoRoomToCopy(c)

Lead(l) == Try(l) \/ TryLater(l) \/ Finish(l) \/ Returned(l) \/ GiveUp(l)

TablesNext ==
    \/ \E c \in Connections :
          Ask(c) \/ Serve(c) \/ CannotRead(c) \/ CannotCopy(c) \/ CannotPatch(c) \/ TooLong(c)
    \/ \E l \in Leaders : Begin(l) \/ Lead(l)
    \/ \E c \in Clients : NotReturned(c)
    \/ \E d \in Devices : Idle(d)

(* Connections and leaders go on while they can.  Nobody has to ask, nothing  *)
(* has to fail, no wait has to run out and no quiet while has to come.        *)
TablesFairness ==
    /\ \A c \in Connections : WF_tablesVars(Serve(c))
    /\ \A l \in Leaders : WF_tablesVars(Lead(l))

TablesSpec == TablesInit /\ [][TablesNext]_tablesVars /\ TablesFairness

-------------------------------------------------------------------------------
(* `lent` counts the DiTs that are out with a session, whatever becomes of    *)
(* the session.                                                               *)
LentCounted ==
    \A d \in Devices :
        lent[d] = Cardinality({c \in Connections :
                                  On[c] = d /\ at[c] \in {"serving", "failing", "closing"}})

(* A kept DiT has taken just the adapters it is kept under. *)
KeptIsWhatItSays ==
    \A d \in Devices : \A i \in DOMAIN kept[d] : kept[d][i].has = kept[d][i].key

(* Nobody waits for good: not two devices for each other's table, nor a       *)
(* leader for the worker it shares a device with, nor a request for a DiT     *)
(* that is back.  No deadline is needed for it.                               *)
EveryRequestEnds == \A c \in Clients : at[c] # "idle" ~> at[c] = "idle"
===============================================================================
