------------------------------- MODULE MCServer --------------------------------
(***************************************************************************)
(* Generations asked of a server, and the models its process keeps for     *)
(* them and for the connections of other leaders.  Server takes a          *)
(* generation for one that steps and ends, Resident work for what it asks  *)
(* of the tables: a behaviour is of one of the two, and nobody asks        *)
(* anything of the other.                                                  *)
(***************************************************************************)
EXTENDS Server, Resident

CONSTANTS i1, i2, w1, c1, c2, c3, l1

TwoIds == {i1, i2}
OneWatcher == {w1}

(* Two connections to the first device and a leader on it, one connection to the second. *)
TwoDevices == {0, 1}
ThreeConnections == {c1, c2, c3}
OneLeader == {l1}
OnOneOrTheOther == [c \in Clients |-> IF c = c3 THEN 1 ELSE 0]
ServesTheFirst == [l \in Leaders |-> c1]
AsksOfEach ==
    [c \in Connections |->
       CASE c = c1 -> {"decode", "session"}
         [] c = c2 -> {"session", "prepare"}
         [] OTHER -> {"prepare"}]
OneKind == {"VideoDecoder"}
OneKey == {1}
RoomForThree == [d \in Devices |-> 3]
Once == [c \in Clients |-> 1]

everything == <<vars, tablesVars>>

(* Every request for a generation was refused. *)
NobodyGenerates ==
    /\ asking = [i \in Ids |-> "refused"]
    /\ jobs = [i \in Ids |-> "absent"]
    /\ files = [i \in Ids |-> {}]
    /\ going = {}
    /\ queue = <<>> /\ thread = "waiting" /\ current = Nobody
    /\ progress = None
    /\ watching = [w \in Watchers |-> Nobody]
    /\ said = [w \in Watchers |-> Silence]
    /\ ended = {}

(* Every client has asked what it had to. *)
NobodyAsks ==
    /\ holder = [d \in Devices |-> NoHolder]
    /\ kept = [d \in Devices |-> <<>>]
    /\ lent = [d \in Devices |-> 0]
    /\ copying = {}
    /\ at = [c \in Clients |-> "idle"]
    /\ work = [c \in Clients |-> NoRequest]
    /\ asked = Requests
    /\ mine = [c \in Clients |-> NoModel]

MCInit == (Init /\ NobodyAsks) \/ (NobodyGenerates /\ TablesInit)

MCNext ==
    \/ Generate /\ UNCHANGED tablesVars
    \/ \E i \in Ids : (Upload(i) \/ Answer(i) \/ Forget(i)) /\ UNCHANGED tablesVars
    \/ \E w \in Watchers : (Look(w) \/ \E i \in Ids : Watch(w, i)) /\ UNCHANGED tablesVars
    \/ TablesNext /\ UNCHANGED vars

MCSpec == MCInit /\ [][MCNext]_everything /\ Fairness /\ TablesFairness
===============================================================================
