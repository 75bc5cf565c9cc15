------------------------------- MODULE LogStreams -------------------------------
(***************************************************************************)
(* start_log_stream and stop_log_stream, Android and iOS: one child        *)
(* process for each session id, while starts overlap and children end on   *)
(* their own.  Android looks for the app's pid first, which is awaited.    *)
(*                                                                         *)
(* A Bug operator is the definition after it with one plausible mistake;   *)
(* no action uses it.                                                      *)
(***************************************************************************)
EXTENDS Naturals

CONSTANTS
  StreamIds,  \* session ids clients choose
  Children,   \* processes that may be spawned
  NoChild

ASSUME NoChildAssumption == NoChild \notin Children

VARIABLES
  active,  \* activeLogStreams: the child of each session id
  child,   \* the children: st is "unused", "runs", "killed", "exited" or "closed"
  looking  \* starts that wait for pidof, by session id

streamVars == <<active, child, looking>>

StreamInit ==
  /\ active = [s \in StreamIds |-> NoChild]
  /\ child = [p \in Children |-> [st |-> "unused", of |-> CHOOSE s \in StreamIds : TRUE]]
  /\ looking = [s \in StreamIds |-> 0]

\* kill(): a child that ended already is left as it is.
Killed(s) ==
  IF active[s] = NoChild THEN child
  ELSE [child EXCEPT ![active[s]].st = IF @ = "runs" THEN "killed" ELSE @]

MaxLooking == 2   \* starts of one session id under way

StreamStarts(s) ==
  /\ looking[s] < MaxLooking
  /\ looking' = [looking EXCEPT ![s] = @ + 1]
  /\ UNCHANGED <<active, child>>

\* pidof answered: the old child is killed and the new one spawned in one turn.
StreamSpawns(s, p) ==
  /\ looking[s] > 0 /\ looking' = [looking EXCEPT ![s] = @ - 1]
  /\ child[p].st = "unused"
  /\ child' = [Killed(s) EXCEPT ![p] = [st |-> "runs", of |-> s]]
  /\ active' = [active EXCEPT ![s] = p]

AppNotRunning(s) ==
  /\ looking[s] > 0 /\ looking' = [looking EXCEPT ![s] = @ - 1]
  /\ UNCHANGED <<active, child>>

StreamStops(s) ==
  /\ child' = Killed(s)
  /\ active' = [active EXCEPT ![s] = NoChild]
  /\ UNCHANGED looking

ChildExits(p) ==
  /\ child[p].st \in {"runs", "killed"}
  /\ child' = [child EXCEPT ![p].st = "exited"]
  /\ UNCHANGED <<active, looking>>

\* The close event clears the session, whoever owns it now.
BugChildCloses(p) ==
  /\ child[p].st = "exited"
  /\ child' = [child EXCEPT ![p].st = "closed"]
  /\ active' = [active EXCEPT ![child[p].of] = NoChild]
  /\ UNCHANGED looking

\* The close event clears the session if it still is this child's.
ChildCloses(p) ==
  /\ child[p].st = "exited"
  /\ child' = [child EXCEPT ![p].st = "closed"]
  /\ active' = [active EXCEPT ![child[p].of] = IF @ = p THEN NoChild ELSE @]
  /\ UNCHANGED looking

StreamNext ==
  \/ \E s \in StreamIds :
       \/ StreamStarts(s) \/ AppNotRunning(s) \/ StreamStops(s)
       \/ \E p \in Children : StreamSpawns(s, p)
  \/ \E p \in Children : ChildExits(p) \/ ChildCloses(p)

StreamSpec == StreamInit /\ [][StreamNext]_streamVars

----------------------------------------------------------------------------
(* Properties *)

\* A child that runs and was not told to end is the one its session id names, so
\* that a stop or the next start reaches it; and a session id never names a child
\* whose close event is past (log-stream.ts, startLogStream, stopLogStream).
StreamsAreOwned ==
  \A p \in Children :
    /\ child[p].st = "runs" => active[child[p].of] = p
    /\ child[p].st \in {"killed", "closed"} => active[child[p].of] # p
=============================================================================
