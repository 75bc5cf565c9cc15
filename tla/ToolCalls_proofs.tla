--------------------------- MODULE ToolCalls_proofs ---------------------------
(***************************************************************************)
(* Safety of parts that MCToolCalls checks one at a time, for every value  *)
(* of their constants: log streams, the LLDB worker, the network window,   *)
(* readiness and the waits, actions, adjustments, journeys, operations on  *)
(* an app, the status of the machine, the choice of devices and elements,  *)
(* the events of a debugger session, and the store of results.             *)
(***************************************************************************)
EXTENDS LogStreams, LldbWorker, NetworkActivity, AppReadiness, UiWaits, ActionCalls,
        AdjustControl, Journeys, ToolAnswers, SequenceTheorems, FiniteSetTheorems,
        WellFoundedInduction, TLAPS

----------------------------------------------------------------------------
(* Log streams *)

\* A session id names a child of its own that has not closed; a used child knows its
\* session id.
StreamInv ==
  /\ active \in [StreamIds -> Children \cup {NoChild}]
  /\ DOMAIN child = Children
  /\ \A p \in Children :
       child[p] = [st |-> child[p].st, of |-> child[p].of]
  /\ looking \in [StreamIds -> Nat]
  /\ \A p \in Children : child[p].st # "unused" => child[p].of \in StreamIds
  /\ \A s \in StreamIds : active[s] # NoChild =>
       child[active[s]].of = s /\ child[active[s]].st \in {"runs", "exited"}
  /\ StreamsAreOwned

\* Killing the child of a session id leaves every other child alone.  (log-stream.ts)
LEMMA KilledChild ==
  ASSUME StreamInv, NEW s \in StreamIds
  PROVE  /\ DOMAIN Killed(s) = Children
         /\ \A p \in Children :
              /\ Killed(s)[p] = [st |-> Killed(s)[p].st, of |-> child[p].of]
              /\ Killed(s)[p].st =
                   IF active[s] = p /\ child[p].st = "runs" THEN "killed" ELSE child[p].st
<1>1. CASE active[s] = NoChild
  BY <1>1, NoChildAssumption DEF Killed, StreamInv
<1>2. CASE active[s] # NoChild
  <2>1. active[s] \in Children
    BY <1>2 DEF StreamInv
  <2>2. Killed(s) = [child EXCEPT ![active[s]].st = IF @ = "runs" THEN "killed" ELSE @]
    BY <1>2 DEF Killed
  <2> QED BY <2>1, <2>2 DEF StreamInv
<1> QED BY <1>1, <1>2

\* The invariant of the streams is inductive.
LEMMA StreamStep == StreamInv /\ [StreamNext]_streamVars => StreamInv'
<1> SUFFICES ASSUME StreamInv, [StreamNext]_streamVars PROVE StreamInv'
  OBVIOUS
<1>1. ASSUME NEW s \in StreamIds, StreamStarts(s) PROVE StreamInv'
  BY <1>1 DEF StreamStarts, StreamInv, StreamsAreOwned
<1>2. ASSUME NEW s \in StreamIds, AppNotRunning(s) PROVE StreamInv'
  BY <1>2 DEF AppNotRunning, StreamInv, StreamsAreOwned
<1>3. ASSUME NEW s \in StreamIds, StreamStops(s) PROVE StreamInv'
  <2> DEFINE k == Killed(s)
  <2>1. child' = k /\ active' = [active EXCEPT ![s] = NoChild] /\ looking' = looking
    BY <1>3 DEF StreamStops
  <2>2. /\ DOMAIN k = Children
        /\ \A p \in Children :
             /\ k[p] = [st |-> k[p].st, of |-> child[p].of]
             /\ k[p].st = IF active[s] = p /\ child[p].st = "runs" THEN "killed"
                          ELSE child[p].st
    BY KilledChild
  <2> HIDE DEF k
  <2> QED BY <2>1, <2>2, NoChildAssumption DEF StreamInv, StreamsAreOwned
<1>4. ASSUME NEW s \in StreamIds, NEW p \in Children, StreamSpawns(s, p) PROVE StreamInv'
  <2> DEFINE k == Killed(s)
  <2>1. /\ child' = [k EXCEPT ![p] = [st |-> "runs", of |-> s]] /\ child[p].st = "unused"
        /\ active' = [active EXCEPT ![s] = p]
        /\ looking[s] > 0 /\ looking' = [looking EXCEPT ![s] = @ - 1]
    BY <1>4 DEF StreamSpawns
  <2>2. /\ DOMAIN k = Children
        /\ \A q \in Children :
             /\ k[q] = [st |-> k[q].st, of |-> child[q].of]
             /\ k[q].st = IF active[s] = q /\ child[q].st = "runs" THEN "killed"
                          ELSE child[q].st
    BY KilledChild
  <2> HIDE DEF k
  <2> QED BY <2>1, <2>2, NoChildAssumption DEF StreamInv, StreamsAreOwned
<1>5. ASSUME NEW p \in Children, ChildExits(p) PROVE StreamInv'
  BY <1>5, NoChildAssumption DEF ChildExits, StreamInv, StreamsAreOwned
<1>6. ASSUME NEW p \in Children, ChildCloses(p) PROVE StreamInv'
  BY <1>6, NoChildAssumption DEF ChildCloses, StreamInv, StreamsAreOwned
<1>7. CASE UNCHANGED streamVars
  BY <1>7 DEF streamVars, StreamInv, StreamsAreOwned
<1> QED BY <1>1, <1>2, <1>3, <1>4, <1>5, <1>6, <1>7 DEF StreamNext

\* A log child that runs and was not told to end is the one its session id names, and
\* no session id names a child that closed.  (log-stream.ts)
THEOREM StreamsOwned == StreamSpec => []StreamsAreOwned
<1>1. StreamInit => StreamInv
  <2> DEFINE some == CHOOSE s \in StreamIds : TRUE
  <2> HIDE DEF some
  <2> SUFFICES ASSUME StreamInit PROVE StreamInv
    OBVIOUS
  <2>1. child = [p \in Children |-> [st |-> "unused", of |-> some]]
    BY DEF StreamInit, some
  <2>2. active = [s \in StreamIds |-> NoChild] /\ looking = [s \in StreamIds |-> 0]
    BY DEF StreamInit
  <2> QED BY <2>1, <2>2 DEF StreamInv, StreamsAreOwned
<1>2. StreamInv => StreamsAreOwned
  BY DEF StreamInv
<1> QED BY <1>1, <1>2, StreamStep, PTL DEF StreamSpec

----------------------------------------------------------------------------
(* The LLDB worker *)

\* Only an attached process is suspended or was let go; LLDB's public state follows it
\* but never reports an end that has not come; a release that was told is final.
LldbInv ==
  /\ simApp \in {"alone", "runs", "stopped", "exited"}
  /\ public \in {"none", "alone", "runs", "stopped", "exited"}
  /\ stopCount \in Nat /\ lastStop \in Nat /\ current \in Nat /\ reported \in Nat
  /\ attached \in BOOLEAN /\ pauseClock \in BOOLEAN /\ terminal \in BOOLEAN
  /\ told \in BOOLEAN /\ failed \in BOOLEAN
  /\ lastStop <= stopCount
  /\ simApp \in {"runs", "stopped"} => /\ attached /\ public # "none"
                                       /\ failed \/ main = "loop"
  /\ public = "exited" => simApp = "exited"
  /\ public = "alone" => simApp \in {"alone", "exited"}
  /\ told => terminal /\ simApp \in {"alone", "exited"}
  /\ SuspensionIsKnown

\* A poll keeps the invariant: it reads the stop, or leaves it for the next poll.
\* (worker.py poll 109-120)
LEMMA PollKeeps ==
  ASSUME LldbInv, PollEnds \/ PollReports \/ PollFindsNone \/ PollIdles
  PROVE  LldbInv'
<1>1. /\ main = "loop" /\ public # "none" /\ ~terminal /\ public' \in {public, simApp}
      /\ UNCHANGED <<simApp, stopCount, attached, main, failed>>
  BY DEF PollEnds, PollReports, PollFindsNone, PollIdles, Looked
<1>2. CASE PollEnds
  BY <1>1, <1>2 DEF PollEnds, Over, LldbInv, SuspensionIsKnown
<1>3. CASE PollReports
  BY <1>1, <1>3 DEF PollReports, IsNew, LldbInv, SuspensionIsKnown
<1>4. CASE PollFindsNone
  BY <1>1, <1>4 DEF PollFindsNone, IsNew, LldbInv, SuspensionIsKnown
<1>5. CASE PollIdles
  BY <1>1, <1>5 DEF PollIdles, LldbInv, SuspensionIsKnown
<1> QED BY <1>2, <1>3, <1>4, <1>5

\* detach() lets the process go, or fails and leaves it to the caller to say so.
\* (worker.py detach 87-96)
LEMMA DetachReleases ==
  ASSUME LldbInv, NEW done \in BOOLEAN, Detach(done)
  PROVE  /\ simApp' \in {"alone", "runs", "stopped", "exited"}
         /\ done => simApp' \in {"alone", "exited"}
         /\ ~done => simApp' = simApp
         /\ simApp = "exited" => simApp' = "exited"
         /\ simApp = "alone" => simApp' = "alone"
         /\ attached' \in BOOLEAN /\ (attached /\ ~done => attached')
         /\ terminal' \in BOOLEAN /\ (terminal \/ done => terminal')
         /\ current' = 0
         /\ UNCHANGED <<stopCount, public, lastStop, reported, pauseClock>>
<1>1. attached' \in BOOLEAN /\ (attached /\ ~done => attached')
  BY Zenon DEF Detach
<1>2. terminal' \in BOOLEAN /\ (terminal \/ done => terminal')
  BY Zenon DEF Detach
<1>3. /\ simApp' = IF done /\ attached /\ simApp \in {"runs", "stopped"} THEN "alone" ELSE simApp
      /\ current' = 0 /\ UNCHANGED <<stopCount, public, lastStop, reported, pauseClock>>
  BY DEF Detach
<1> QED BY <1>1, <1>2, <1>3 DEF LldbInv

\* The invariant of the LLDB worker is inductive.
LEMMA LldbStep == LldbInv /\ [LldbNext]_lldbVars => LldbInv'
<1> SUFFICES ASSUME LldbInv, [LldbNext]_lldbVars PROVE LldbInv'
  OBVIOUS
<1>1. CASE ProcessStops
  BY <1>1 DEF ProcessStops, LldbInv, SuspensionIsKnown
<1>2. CASE ProcessExits
  BY <1>2 DEF ProcessExits, LldbInv, SuspensionIsKnown
<1>3. CASE AttachNotMade
  BY <1>3 DEF AttachNotMade, LldbInv, SuspensionIsKnown
<1>4. CASE AttachWrong
  BY <1>4 DEF AttachWrong, Seized, LldbInv, SuspensionIsKnown
<1>5. ASSUME NEW continued \in BOOLEAN, AttachEnds(continued) PROVE LldbInv'
  <2>1. failed' \in BOOLEAN /\ (continued \/ failed')
    BY <1>5, Zenon DEF AttachEnds
  <2>2. attached' \in BOOLEAN /\ attached'
    BY <1>5, Zenon DEF AttachEnds
  <2>3. /\ simApp' = (IF continued THEN "runs" ELSE "stopped") /\ lastStop' = stopCount'
        /\ main = "loop" /\ ~terminal /\ simApp = "alone"
        /\ stopCount' = stopCount + 1 /\ public' = "stopped"
        /\ UNCHANGED <<current, reported, pauseClock, terminal, main, told>>
    BY <1>5 DEF AttachEnds, Seized
  <2> QED BY <2>1, <2>2, <2>3 DEF LldbInv, SuspensionIsKnown
<1>6. CASE PollEnds \/ PollReports \/ PollFindsNone \/ PollIdles
  BY <1>6, PollKeeps
<1>7. ASSUME NEW id \in 1..reported, Move(id) PROVE LldbInv'
  BY <1>7 DEF Move, GoesOn, StaysPut, LldbInv, SuspensionIsKnown
<1>8. ASSUME NEW done \in BOOLEAN, DetachCommand(done) PROVE LldbInv'
  <2>1. /\ Detach(done) /\ main' = main
        /\ told' \in BOOLEAN /\ (told' => told \/ done)
        /\ failed' \in BOOLEAN /\ (failed \/ ~done => failed')
    BY <1>8, Zenon DEF DetachCommand
  <2> QED BY <2>1, DetachReleases DEF LldbInv, SuspensionIsKnown
<1>9. ASSUME NEW done \in BOOLEAN, InputCloses(done) PROVE LldbInv'
  <2>1. /\ Detach(done) /\ main' = "ended" /\ told' = told
        /\ failed' \in BOOLEAN /\ (failed \/ ~done => failed')
    BY <1>9, Zenon DEF InputCloses
  <2> QED BY <2>1, DetachReleases DEF LldbInv, SuspensionIsKnown
<1>10. ASSUME NEW first \in BOOLEAN, NEW last \in BOOLEAN, Expires(first, last) PROVE LldbInv'
  <2>1. /\ Detach(last) /\ (first => last) /\ main' = "ended"
        /\ told' \in BOOLEAN /\ (told' => told \/ first)
        /\ failed' \in BOOLEAN /\ (failed \/ ~last => failed')
    BY <1>10, Zenon DEF Expires
  <2> QED BY <2>1, DetachReleases DEF LldbInv, SuspensionIsKnown
<1>11. CASE UNCHANGED lldbVars
  BY <1>11 DEF lldbVars, LldbInv, SuspensionIsKnown
<1> QED BY <1>1, <1>2, <1>3, <1>4, <1>5, <1>6, <1>7, <1>8, <1>9, <1>10, <1>11 DEF LldbNext

LEMMA LldbStart == LldbInit => LldbInv
<1> SUFFICES ASSUME LldbInit PROVE LldbInv
  OBVIOUS
<1>1. attached \in BOOLEAN /\ pauseClock \in BOOLEAN /\ terminal \in BOOLEAN
  BY Zenon DEF LldbInit
<1>2. told \in BOOLEAN /\ ~told /\ failed \in BOOLEAN
  BY Zenon DEF LldbInit
<1>3. simApp = "alone" /\ public = "none"
      /\ stopCount = 0 /\ lastStop = 0 /\ current = 0 /\ reported = 0
  BY DEF LldbInit
<1> QED BY <1>1, <1>2, <1>3 DEF LldbInv, SuspensionIsKnown

\* An app that LLDB suspends is never said to be released, and the worker knows of it.
\* (worker.py attach 71-80, detach 87-96, poll 109-120, command 145-161)
THEOREM SuspensionsKnown == LldbSpec => []SuspensionIsKnown
<1>1. LldbInv => SuspensionIsKnown
  BY DEF LldbInv
<1> QED BY <1>1, LldbStart, LldbStep, PTL DEF LldbSpec

\* A step of the worker prints a line that WorkerLines allows, or none.
LEMMA LldbPrints ==
  LldbInv /\ [LldbNext]_lldbVars => [LldbLines!LNext]_(LldbLines!lvars)
<1> SUFFICES ASSUME LldbInv, [LldbNext]_lldbVars
             PROVE  LldbLines!LNext \/ UNCHANGED LldbLines!lvars
  OBVIOUS
<1> DEFINE shown == IF terminal \/ main = "ended" THEN "ended"
                    ELSE IF public = "none" THEN "quiet" ELSE "attached"
           force == current # 0 /\ current = reported
<1>1. CASE UNCHANGED <<terminal, main, public, reported, current>>
  BY <1>1 DEF LldbLines!lvars
<1>2. CASE ProcessStops \/ ProcessExits \/ AttachNotMade
  <2>1. UNCHANGED <<terminal, main, public, reported, current>>
    BY <1>2 DEF ProcessStops, ProcessExits, AttachNotMade
  <2> QED BY <1>1, <2>1
<1>3. CASE UNCHANGED lldbVars
  <2>1. UNCHANGED <<terminal, main, public, reported, current>>
    BY <1>3 DEF lldbVars
  <2> QED BY <1>1, <2>1
<1>4. ASSUME Seized PROVE LldbLines!Attached
  BY <1>4 DEF Seized, LldbLines!Attached
<1>5. ASSUME PollEnds PROVE LldbLines!End
  BY <1>5 DEF PollEnds, Looked, LldbLines!End
<1>6. ASSUME PollReports PROVE LldbLines!NewStop
  <2>1. /\ main = "loop" /\ main' = main /\ ~terminal /\ terminal' = terminal
        /\ public # "none" /\ public' = "stopped"
        /\ reported' = reported + 1 /\ current' = reported'
    BY <1>6 DEF PollReports, Looked, IsNew
  <2> QED BY <2>1 DEF LldbInv, LldbLines!NewStop
<1>7. \* What prints nothing leaves a stop at most.
      ASSUME UNCHANGED <<shown, reported>>, current' \in {0, current}
      PROVE  LldbLines!LNext \/ UNCHANGED LldbLines!lvars
  <2>1. CASE force /\ current' # current
    BY <1>7, <2>1 DEF LldbLines!LNext, LldbLines!Left
  <2>2. CASE ~force \/ current' = current
    BY <1>7, <2>2 DEF LldbLines!lvars
  <2> QED BY <2>1, <2>2
<1>8. ASSUME PollFindsNone \/ PollIdles
      PROVE  UNCHANGED <<shown, reported>> /\ current' \in {0, current}
  BY <1>8 DEF PollFindsNone, PollIdles, Looked, LldbInv
<1>9. ASSUME NEW id, Move(id)
      PROVE  UNCHANGED <<shown, reported>> /\ current' \in {0, current}
  BY <1>9 DEF Move
<1>10. \* detach() ends the lines, and so does the end of main().
      ASSUME NEW done \in BOOLEAN, Detach(done), main' = main \/ main' = "ended"
      PROVE  LldbLines!LNext \/ UNCHANGED LldbLines!lvars
  <2>1. (terminal => terminal') /\ current' = 0 /\ UNCHANGED <<public, reported>>
    BY <1>10, DetachReleases
  <2>2. CASE shown = "ended"
    BY <1>7, <1>10, <2>1, <2>2
  <2>3. CASE shown # "ended" /\ shown' = "ended"
    BY <2>1, <2>3 DEF LldbLines!LNext, LldbLines!End
  <2>4. CASE shown # "ended" /\ shown' # "ended"
    BY <1>7, <1>10, <2>1, <2>4
  <2> QED BY <2>2, <2>3, <2>4
<1>11. ASSUME NEW done \in BOOLEAN, DetachCommand(done) \/ InputCloses(done)
      PROVE  LldbLines!LNext \/ UNCHANGED LldbLines!lvars
  BY <1>10, <1>11 DEF DetachCommand, InputCloses
<1>12. ASSUME NEW first \in BOOLEAN, NEW last \in BOOLEAN, Expires(first, last)
      PROVE  LldbLines!LNext \/ UNCHANGED LldbLines!lvars
  BY <1>10, <1>12 DEF Expires
<1>13. ASSUME AttachWrong \/ \E continued \in BOOLEAN : AttachEnds(continued)
       PROVE  LldbLines!LNext
  BY <1>4, <1>13 DEF AttachWrong, AttachEnds, LldbLines!LNext
<1>14. ASSUME PollEnds \/ PollReports PROVE LldbLines!LNext
  BY <1>5, <1>6, <1>14 DEF LldbLines!LNext
<1> HIDE DEF shown, force
<1> QED BY <1>2, <1>3, <1>7, <1>8, <1>9, <1>11, <1>12, <1>13, <1>14 DEF LldbNext

\* Every behaviour of the LLDB worker is one of WorkerLines: it reports no stop before it has
\* attached or after its last line, each under a new id, and leaves one for good.
\* (worker.py poll 107-120, command 145-148, main 176-194)
THEOREM LldbRefines == LldbSpec => LldbPrintsInOrder
<1>1. LldbInit => LldbLines!LInit
  BY DEF LldbInit, LldbLines!LInit
<1> QED BY <1>1, LldbStart, LldbStep, LldbPrints, PTL
        DEF LldbSpec, LldbPrintsInOrder, LldbLines!LSpec

----------------------------------------------------------------------------
(* The network window *)

\* A call under way looks past what was returned before it began and past the action it
\* began after, and what it has read of the log is newer still, unless it has no time.
Looks(c) ==
  /\ c.action \in Nat
  /\ c.action # 0 => c.since \in Nat /\ c.action <= c.since
  /\ \A e \in c.before : e.at \in Nat /\ c.since \in Nat /\ e.at <= c.since
  /\ c.at = "filter" =>
       \A e \in c.got :
         e.stamp # 0 => e.at \in Nat /\ e.at > 0 /\ (c.since \in Nat => e.at > c.since)

GoodRead(c) ==
  /\ c = [at |-> c.at, since |-> c.since, action |-> c.action, before |-> c.before,
          got |-> c.got]
  /\ c.at # "idle" => Looks(c)
  /\ c.at = "filter" => c.got \subseteq requests

\* The two timestamps are past all that was returned.
NetworkInv ==
  /\ wall \in Nat /\ wall > 0 /\ lastAction \in 0..wall /\ lastConsumed \in 0..wall
  /\ \A e \in requests : e.at \in 1..wall /\ e.stamp \in 0..e.at
  /\ \A e \in returned : e.at \in 1..wall /\ (e.at <= lastConsumed \/ e.at <= lastAction)
  /\ DOMAIN read = NetReaders
  /\ \A r \in NetReaders : GoodRead(read[r])

\* What a call returns is part of what it has read.  (filterToSignificantEvents)
LEMMA FilterKeeps ==
  ASSUME NEW events PROVE FilterToSignificantEvents(events) \subseteq events
  BY DEF FilterToSignificantEvents

\* A step of one call leaves the others as they are.
LEMMA OneCall ==
  ASSUME NetworkInv, NEW r \in NetReaders, NEW c, GoodRead(c), read' = [read EXCEPT ![r] = c],
         UNCHANGED requests
  PROVE  DOMAIN read' = NetReaders /\ \A q \in NetReaders : GoodRead(read[q])'
<1>1. \A q \in NetReaders : GoodRead(read'[q])
  BY DEF NetworkInv
<1> QED BY <1>1 DEF NetworkInv, GoodRead, Looks

\* The invariant of the window is inductive.
LEMMA NetworkStep == NetworkInv /\ [NetworkNext]_networkVars => NetworkInv'
<1> SUFFICES ASSUME NetworkInv, [NetworkNext]_networkVars PROVE NetworkInv'
  OBVIOUS
<1>1. CASE Elapse
  BY <1>1 DEF Elapse, NetworkInv, GoodRead, Looks
<1>2. ASSUME NEW r \in NetRequests, NEW stamp \in 0..wall, RequestMade(r, stamp)
      PROVE  NetworkInv'
  <2>1. \A e \in requests' : e.at \in 1..wall /\ e.stamp \in 0..e.at
    BY <1>2 DEF RequestMade, NetworkInv
  <2>2. requests \subseteq requests'
    BY <1>2 DEF RequestMade
  <2> QED BY <1>2, <2>1, <2>2 DEF RequestMade, NetworkInv, GoodRead, Looks
<1>3. CASE ActionStarts
  BY <1>3 DEF ActionStarts, NetworkInv, GoodRead, Looks
<1>4. ASSUME NEW r \in NetReaders, ReadStarts(r) PROVE NetworkInv'
  <2> PICK c : c = [NoRead EXCEPT !.at = "log", !.since = Window, !.action = lastAction,
                                  !.before = returned]
    OBVIOUS
  <2>1. read' = [read EXCEPT ![r] = c]
        /\ UNCHANGED <<wall, lastAction, lastConsumed, requests, returned>>
    BY <1>4 DEF ReadStarts
  <2>2. lastAction # 0 => Window \in Nat /\ lastAction <= Window
    BY DEF Window, NetworkInv
  <2>3. \A e \in returned : e.at \in Nat /\ Window \in Nat /\ e.at <= Window
    BY DEF Window, NetworkInv
  <2>3a. c = [at |-> "log", since |-> Window, action |-> lastAction, before |-> returned,
             got |-> {}]
    BY DEF NoRead
  <2>3b. lastAction \in Nat
    BY DEF NetworkInv
  <2>4. GoodRead(c)
    BY <2>2, <2>3, <2>3a, <2>3b DEF GoodRead, Looks
  <2> QED BY <2>1, <2>4, OneCall DEF NetworkInv
<1>5. ASSUME NEW r \in NetReaders, NEW ok \in BOOLEAN, LogRead(r, ok) PROVE NetworkInv'
  <2> DEFINE looked == IF ok THEN EventsSince(read[r].since) ELSE {}
  <2> PICK c : c = [read[r] EXCEPT !.at = "filter", !.got = looked]
    OBVIOUS
  <2>1. /\ read' = [read EXCEPT ![r].at = "filter", ![r].got = looked] /\ read[r].at = "log"
        /\ UNCHANGED <<wall, lastAction, lastConsumed, requests, returned>>
    BY <1>5 DEF LogRead
  <2>2. looked \subseteq requests /\ \A e \in looked : e.stamp = 0 \/ e.stamp > read[r].since
    BY DEF EventsSince
  <2> HIDE DEF looked
  <2>3. \A e \in looked :
          e.stamp # 0 => /\ e.at \in Nat /\ e.at > 0
                         /\ read[r].since \in Nat => e.at > read[r].since
    BY <2>2 DEF NetworkInv
  <2>4. read' = [read EXCEPT ![r] = c]
    BY <2>1 DEF NetworkInv
  <2>5. GoodRead(read[r])
    BY DEF NetworkInv
  <2>5a. c = [at |-> "filter", since |-> read[r].since, action |-> read[r].action,
             before |-> read[r].before, got |-> looked]
    BY <2>5 DEF GoodRead
  <2>6. GoodRead(c)
    BY <2>1, <2>2, <2>3, <2>5, <2>5a DEF GoodRead, Looks
  <2> QED BY <2>1, <2>4, <2>6, OneCall DEF NetworkInv
<1>6. ASSUME NEW r \in NetReaders, NEW c \in {"local_state", "side_effect", "unknown"},
             ReadEnds(r, c)
      PROVE  NetworkInv'
  <2> DEFINE significant == FilterToSignificantEvents(read[r].got)
  <2>1. /\ read[r].at = "filter" /\ read' = [read EXCEPT ![r] = NoRead]
        /\ lastConsumed' = wall /\ UNCHANGED <<wall, lastAction, requests>>
        /\ returned' = returned \cup significant
    BY <1>6 DEF ReadEnds
  <2>2. significant \subseteq requests
    BY <2>1, FilterKeeps DEF NetworkInv, GoodRead
  <2> HIDE DEF significant
  <2>3. GoodRead(NoRead)
    BY DEF GoodRead, NoRead
  <2>4. DOMAIN read' = NetReaders /\ \A q \in NetReaders : GoodRead(read[q])'
    BY <2>1, <2>3, OneCall
  <2>5. \A e \in returned' : e.at \in 1..wall /\ e.at <= lastConsumed'
    BY <2>1, <2>2 DEF NetworkInv
  <2> QED BY <2>1, <2>4, <2>5 DEF NetworkInv
<1>7. CASE UNCHANGED networkVars
  BY <1>7 DEF networkVars, NetworkInv, GoodRead, Looks
<1> QED BY <1>1, <1>2, <1>3, <1>4, <1>5, <1>6, <1>7 DEF NetworkNext

\* An action is blamed on the backend only for a failed request whose line has no time that
\* could be read, or that came after the action and that no call which ended before this
\* one began returned already.
\* (getNetworkActivity, notifyActionStart, classifyActionOutcome)
THEOREM BlameFresh == NetworkSpec => BlameIsFresh
<1> DEFINE Fresh == \A r \in NetReaders :
       read[r].at = "filter" /\ read'[r].at = "idle" /\ outcome' = "backend_failure" =>
         \E e \in FilterToSignificantEvents(read[r].got) :
           /\ e.failed
           /\ e.stamp = 0 \/ (e \notin read[r].before /\ e.at > read[r].action)
<1>1. NetworkInit => NetworkInv
  <2> SUFFICES ASSUME NetworkInit PROVE NetworkInv
    OBVIOUS
  <2> QED BY DEF NetworkInit, NetworkInv, NoRead, GoodRead
<1>2. NetworkInv /\ [NetworkNext]_networkVars => [Fresh]_networkVars
  <2> SUFFICES ASSUME NetworkInv, NetworkNext, NEW r \in NetReaders,
                      read[r].at = "filter", read'[r].at = "idle", outcome' = "backend_failure"
               PROVE  \E e \in FilterToSignificantEvents(read[r].got) :
                        /\ e.failed
                        /\ e.stamp = 0 \/ (e \notin read[r].before /\ e.at > read[r].action)
    OBVIOUS
  <2> DEFINE significant == FilterToSignificantEvents(read[r].got)
  <2>1. PICK c \in {"local_state", "side_effect", "unknown"} : ReadEnds(r, c)
    <3>1. ASSUME NEW q \in NetReaders, NEW c \in {"local_state", "side_effect", "unknown"},
                 ReadEnds(q, c)
          PROVE  q = r
      BY <3>1 DEF ReadEnds, NetworkInv, GoodRead
    <3>2. ASSUME NEW q \in NetReaders, ReadStarts(q) PROVE FALSE
      BY <3>2 DEF ReadStarts, NetworkInv, NoRead
    <3>3. ASSUME NEW q \in NetReaders, NEW ok \in BOOLEAN, LogRead(q, ok) PROVE FALSE
      BY <3>3 DEF LogRead, NetworkInv, GoodRead
    <3>4. CASE \/ Elapse \/ ActionStarts
               \/ \E q \in NetRequests, stamp \in 0..wall : RequestMade(q, stamp)
      BY <3>4 DEF Elapse, ActionStarts, RequestMade
    <3> QED BY <3>1, <3>2, <3>3, <3>4 DEF NetworkNext
  <2>2. outcome' = Classify(c, significant)
    BY <2>1 DEF ReadEnds
  <2>3. PICK e \in significant : e.failed
    BY <2>2 DEF Classify
  <2>4. e \in read[r].got
    BY <2>3, FilterKeeps
  <2>5. Looks(read[r])
    BY DEF NetworkInv, GoodRead
  <2>6. e.stamp # 0 => e.at > read[r].action
    BY <2>4, <2>5 DEF Looks
  <2>7. e.stamp # 0 => e \notin read[r].before
    BY <2>4, <2>5 DEF Looks
  <2> QED BY <2>3, <2>6, <2>7
<1> HIDE DEF Fresh
<1>3. NetworkSpec => [][Fresh]_networkVars
  BY <1>1, <1>2, NetworkStep, PTL DEF NetworkSpec
<1> QED BY <1>3 DEF BlameIsFresh, Fresh

----------------------------------------------------------------------------
(* Readiness *)

\* The samples from i on all show the tracker's screen, since the tracker says so.
ShowsSince(i, t, samples) ==
  /\ samples[i].at = t.stableSince
  /\ \A j \in i..Len(samples) : samples[j].signature = t.signature

ScreenSample == [signature : Signatures, at : Nat]

\* The samples that back what was reported: one screen, no loading one, long enough.
Settled(samples) ==
  \E i \in 1..Len(samples) :
    /\ \A j \in i..Len(samples) : /\ samples[j].signature = samples[i].signature
                                  /\ samples[j].signature \notin Loading
    /\ samples[Len(samples)].at - samples[i].at >= StabilityMs

\* A signature is remembered only with the samples that showed it; a verdict is final.
ReadinessInv ==
  /\ clock \in Nat
  /\ loop = [at |-> loop.at, wait |-> loop.wait, count |-> loop.count]
  /\ tracker = [signature |-> tracker.signature, stableSince |-> tracker.stableSince,
                state |-> tracker.state, wake |-> tracker.wake, lock |-> tracker.lock]
  /\ seen \in Seq(ScreenSample)
  /\ tracker.signature # Unsigned =>
       \E i \in 1..Len(seen) : ShowsSince(i, tracker, seen)
  /\ verdict # "none" => loop.at = "done"
  /\ verdict = "settled" => Settled(seen)

\* A valid sample extends the window the tracker measures, or starts one.
LEMMA SampleExtends ==
  ASSUME ReadinessInv, NEW s \in Signatures, SampleEnds(s)
  PROVE  /\ tracker' = [signature |-> s, stableSince |-> tracker'.stableSince,
                        state |-> tracker'.state, wake |-> tracker.wake, lock |-> tracker.lock]
         /\ seen' \in Seq(ScreenSample)
         /\ \E i \in 1..Len(seen') : ShowsSince(i, tracker', seen')
         /\ tracker'.state = "settled" => Settled(seen')
<1> DEFINE unchanged == tracker.signature = s
           since == IF unchanged /\ s \notin Loading THEN tracker.stableSince ELSE clock
           state == IF s \in Loading THEN "loading"
                    ELSE IF tracker.signature = Unsigned THEN "unknown"
                    ELSE IF ~unchanged THEN "transitioning"
                    ELSE IF clock - since >= StabilityMs THEN "settled" ELSE "unknown"
<1>1. tracker' = [signature |-> s, stableSince |-> since, state |-> state,
                  wake |-> tracker.wake, lock |-> tracker.lock]
  <2>1. tracker' = Observe(s)
    BY DEF SampleEnds
  <2>2. PICK t : t = tracker
    OBVIOUS
  <2>3. t = [signature |-> t.signature, stableSince |-> t.stableSince,
             state |-> t.state, wake |-> t.wake, lock |-> t.lock]
    BY <2>2 DEF ReadinessInv
  <2>4. tracker' = [t EXCEPT !.signature = s, !.stableSince = since, !.state = state]
    BY <2>1, <2>2 DEF Observe
  <2> HIDE DEF since, state
  <2> QED BY <2>2, <2>3, <2>4
<1>2. /\ seen' = Append(seen, [signature |-> s, at |-> clock])
      /\ seen \in Seq(ScreenSample) /\ [signature |-> s, at |-> clock] \in ScreenSample
  BY DEF SampleEnds, ReadinessInv, ScreenSample
<1>3. /\ seen' \in Seq(ScreenSample) /\ Len(seen) \in Nat /\ Len(seen') = Len(seen) + 1
      /\ \A j \in 1..Len(seen) : seen'[j] = seen[j]
      /\ seen'[Len(seen')] = [signature |-> s, at |-> clock]
  BY <1>2
<1>4. unchanged /\ s \notin Loading => \E i \in 1..Len(seen) : ShowsSince(i, tracker, seen)
  BY LoadingAssumption DEF ReadinessInv
<1>5. PICK i \in 1..Len(seen') :
        /\ seen'[i].at = since
        /\ \A j \in i..Len(seen') : seen'[j].signature = s
  <2>1. CASE unchanged /\ s \notin Loading
    <3>1. PICK i \in 1..Len(seen) : ShowsSince(i, tracker, seen)
      BY <1>4, <2>1
    <3>2. i \in 1..Len(seen') /\ seen'[i].at = since
      BY <1>3, <2>1, <3>1 DEF ShowsSince
    <3>3. \A j \in i..Len(seen') : j \in i..Len(seen) \/ j = Len(seen')
      BY <1>3, <3>1
    <3>4. \A j \in i..Len(seen') : seen'[j].signature = s
      BY <1>3, <2>1, <3>1, <3>3 DEF ShowsSince
    <3> QED BY <3>2, <3>4
  <2>2. CASE ~(unchanged /\ s \notin Loading)
    <3>1. since = clock /\ Len(seen') \in 1..Len(seen')
      BY <1>3, <2>2
    <3> QED BY <1>3, <3>1
  <2> QED BY <2>1, <2>2
<1>6. tracker'.state = "settled" => Settled(seen')
  <2>1. SUFFICES ASSUME state = "settled" PROVE Settled(seen')
    BY <1>1
  <2>2. s \notin Loading /\ clock - since >= StabilityMs
    BY <2>1
  <2> HIDE DEF since, state
  <2> QED BY <1>3, <1>5, <2>2 DEF Settled
<1> HIDE DEF since, state
<1> QED BY <1>1, <1>3, <1>5, <1>6 DEF ShowsSince

\* A state of the tracker other than settled reports nothing that was not so.
LEMMA OtherSample ==
  ASSUME ReadinessInv, AfterSample, tracker'.state # "settled"
  PROVE  /\ loop' = [at |-> loop'.at, wait |-> loop.wait, count |-> loop'.count]
         /\ verdict' # "none" => loop'.at = "done" \/ loop.at = "done"
         /\ verdict' = "settled" => verdict = "settled"
BY DEF AfterSample, ReadinessInv, Counted

\* Every step keeps the invariant.
LEMMA ReadinessStep == ReadinessInv /\ [ReadinessNext]_readinessVars => ReadinessInv'
<1> SUFFICES ASSUME ReadinessInv, [ReadinessNext]_readinessVars PROVE ReadinessInv'
  OBVIOUS
<1>1. CASE Round
  BY <1>1 DEF Round, Return, GoOn, ReadinessInv, ShowsSince, Settled
<1>2. ASSUME NEW r \in Readings, DeviceEnds(r.wake, r.lock) PROVE ReadinessInv'
  <2>1. /\ tracker' = ObserveDevice(r.wake, r.lock) /\ loop.at = "device"
        /\ UNCHANGED <<clock, paused>>
    BY <1>2 DEF DeviceEnds
  <2>2. /\ tracker' = [signature |-> tracker'.signature, stableSince |-> tracker'.stableSince,
                       state |-> tracker'.state, wake |-> tracker'.wake, lock |-> tracker'.lock]
        /\ \/ tracker'.signature = Unsigned
           \/ /\ tracker'.signature = tracker.signature
              /\ tracker'.stableSince = tracker.stableSince
              /\ ~BlockedBy(tracker')
    BY <2>1 DEF ReadinessInv, ObserveDevice, Unavailable
  <2>3. /\ loop' = [at |-> loop'.at, wait |-> loop'.wait, count |-> loop'.count]
        /\ \/ verdict' = verdict
           \/ verdict' = "blocked" /\ loop'.at = "done"
        /\ verdict = "none"
    BY <1>2, <2>1 DEF DeviceEnds, Return, GoOn, ReadinessInv
  <2>4. CASE ~BlockedBy(tracker')
    <3>1. UNCHANGED seen
      BY <1>2, <2>4 DEF DeviceEnds
    <3> QED BY <2>1, <2>2, <2>3, <3>1 DEF ReadinessInv, ShowsSince
  <2>5. CASE BlockedBy(tracker')
    <3>1. seen' = <<>> /\ tracker'.signature = Unsigned
      BY <1>2, <2>2, <2>5 DEF DeviceEnds
    <3> QED BY <2>1, <2>2, <2>3, <3>1 DEF ReadinessInv
  <2> QED BY <2>4, <2>5
<1>3. ASSUME NEW s \in Signatures, SampleEnds(s) PROVE ReadinessInv'
  <2>1. /\ loop.at = "capture" /\ AfterSample /\ verdict = "none"
        /\ UNCHANGED clock
    BY <1>3 DEF SampleEnds, ReadinessInv
  <2>2. /\ loop' = [at |-> loop'.at, wait |-> loop'.wait, count |-> loop'.count]
        /\ verdict' # "none" => loop'.at = "done"
        /\ verdict' = "settled" => tracker'.state = "settled"
    BY <2>1 DEF AfterSample, ReadinessInv, Counted
  <2> QED BY <1>3, <2>1, <2>2, SampleExtends DEF ReadinessInv
<1>4. ASSUME NEW gone \in BOOLEAN, SampleFails(gone) PROVE ReadinessInv'
  <2>1. /\ loop.at = "capture" /\ verdict = "none" /\ UNCHANGED clock /\ seen' = <<>>
        /\ tracker' = [tracker EXCEPT !.state = "unknown", !.signature = Unsigned]
    BY <1>4 DEF SampleFails, ReadinessInv, Unavailable
  <2>2. /\ tracker' = [signature |-> tracker'.signature, stableSince |-> tracker'.stableSince,
                       state |-> tracker'.state, wake |-> tracker'.wake, lock |-> tracker'.lock]
        /\ tracker'.signature = Unsigned /\ tracker'.state = "unknown"
    BY <2>1 DEF ReadinessInv
  <2>3. /\ loop' = [at |-> loop'.at, wait |-> loop'.wait, count |-> loop'.count]
        /\ verdict' # "none" => loop'.at = "done"
        /\ verdict' # "settled"
    BY <1>4, <2>1, <2>2 DEF SampleFails, AfterSample, Return, ReadinessInv, Counted
  <2> QED BY <2>1, <2>2, <2>3 DEF ReadinessInv
<1>5. ASSUME NEW gone \in BOOLEAN, SamplePaused(gone) PROVE ReadinessInv'
  <2>1. /\ loop.at = "capture" /\ verdict = "none" /\ UNCHANGED <<clock, seen>>
        /\ tracker' = [tracker EXCEPT !.state = "debugger_paused"]
    BY <1>5 DEF SamplePaused, ReadinessInv
  <2>2. /\ tracker' = [signature |-> tracker.signature, stableSince |-> tracker.stableSince,
                       state |-> "debugger_paused", wake |-> tracker.wake, lock |-> tracker.lock]
    BY <2>1 DEF ReadinessInv
  <2>3. /\ loop' = [at |-> loop'.at, wait |-> loop'.wait, count |-> loop'.count]
        /\ verdict' # "none" => loop'.at = "done"
        /\ verdict' # "settled"
    BY <1>5, <2>1, <2>2 DEF SamplePaused, AfterSample, Return, ReadinessInv, Counted
  <2> QED BY <2>1, <2>2, <2>3 DEF ReadinessInv, ShowsSince
<1>6. CASE SampleLate
  BY <1>6 DEF SampleLate, Return, ReadinessInv, ShowsSince, Settled
<1>7. CASE DelayEnds
  BY <1>7 DEF DelayEnds, Return, GoOn, ReadinessInv, ShowsSince, Settled
<1>8. CASE PauseChanges
  BY <1>8 DEF PauseChanges, ReadinessInv, ShowsSince, Settled
<1>9. CASE Elapses
  BY <1>9 DEF Elapses, ReadinessInv, ShowsSince, Settled
<1>10. CASE UNCHANGED readinessVars
  BY <1>10 DEF readinessVars, ReadinessInv, ShowsSince, Settled
<1> QED BY <1>1, <1>2, <1>3, <1>4, <1>5, <1>6, <1>7, <1>8, <1>9, <1>10 DEF ReadinessNext

\* An app is reported settled only after valid samples of one screen, no loading one,
\* over the stability time, whatever pauses, locks or fails in between.
\* (readiness-service.ts, readiness.ts)
THEOREM SettledHonestly == ReadinessSpec => []SettledIsHonest
<1>1. ReadinessInit => ReadinessInv
  BY DEF ReadinessInit, ReadinessInv
<1>2. ReadinessInv => SettledIsHonest
  <2> SUFFICES ASSUME ReadinessInv, verdict = "settled" PROVE SettledIsHonest
    BY DEF SettledIsHonest
  <2>1. seen \in Seq(ScreenSample) /\ Len(seen) \in Nat
    BY DEF ReadinessInv
  <2>2. PICK i \in 1..Len(seen) :
          /\ \A j \in i..Len(seen) : /\ seen[j].signature = seen[i].signature
                                     /\ seen[j].signature \notin Loading
          /\ seen[Len(seen)].at - seen[i].at >= StabilityMs
    BY DEF ReadinessInv, Settled
  <2> DEFINE window == SubSeq(seen, i, Len(seen))
  <2>3. /\ window \in Seq(ScreenSample) /\ Len(window) = Len(seen) - i + 1
        /\ \A k \in 1..(Len(seen) - i + 1) : window[k] = seen[i + k - 1]
    <3>1. \A k \in i..Len(seen) : seen[k] \in ScreenSample
      BY <2>1, <2>2
    <3> QED BY <2>1, <2>2, <3>1, SubSeqProperties
  <2> HIDE DEF window
  <2>4. ToSet(window) = {window[k] : k \in 1..(Len(seen) - i + 1)}
    BY <2>1, <2>3 DEF ToSet
  <2>5. Last(window) = seen[Len(seen)]
    BY <2>1, <2>3 DEF Last
  <2>6. \A w \in ToSet(window) : w.signature = seen[i].signature /\ w.signature \notin Loading
    <3> SUFFICES ASSUME NEW k \in 1..(Len(seen) - i + 1)
                 PROVE  /\ window[k].signature = seen[i].signature
                        /\ window[k].signature \notin Loading
      BY <2>4
    <3>1. i + k - 1 \in i..Len(seen) /\ window[k] = seen[i + k - 1]
      BY <2>1, <2>3
    <3> QED BY <2>2, <3>1
  <2> QED BY <2>2, <2>5, <2>6 DEF SettledIsHonest, window
<1> QED BY <1>1, <1>2, ReadinessStep, PTL DEF ReadinessSpec

----------------------------------------------------------------------------
(* Waits *)

AnyView(kind) == Views(kind, "got") \cup Views(kind, "failed")

Reading == [view : AnyView(ask.kind), tree : {"got", "failed"}, at : Nat, old : BOOLEAN]

\* A dump that failed shows no elements, and the tracker lets none pass.
TreesRight ==
  \A k \in 1..Newest : /\ reads[k].view \in Views(ask.kind, reads[k].tree)
                       /\ ask.requireReady = "yes" => reads[k].tree = "got"

\* The reads that wait_for_ui counts: the latest ones, each fresh and as asked.
Backed(n) ==
  n <= Newest /\ \A k \in (Newest - n + 1)..Newest : Meets(reads[k].view) /\ ~reads[k].old

\* The reads that show the candidate of wait_for_ui_change ever since it was noticed.
ShownSince(k) ==
  /\ reads[k].at = memo.since
  /\ \A j \in k..Newest : reads[j].view = memo.candidate
  /\ Differs(reads[1].view, memo.candidate)

\* While a wait goes on its memory is what the reads say; an answer is backed by them.
WaitInv ==
  /\ ask \in Asks /\ waited \in Nat
  /\ waitResult \in {"none", "success", "failed"}
  /\ memo = [stable |-> memo.stable, baseline |-> memo.baseline,
             candidate |-> memo.candidate, since |-> memo.since]
  /\ memo.stable \in Nat
  /\ reads \in Seq(Reading) /\ TreesRight
  /\ waitResult = "none" =>
       /\ ask.kind = "ui" => Backed(memo.stable)
       /\ ask.kind = "change" =>
            /\ memo.baseline = <<>> => Newest = 0 /\ memo.candidate = <<>>
            /\ memo.baseline # <<>> => Newest > 0 /\ memo.baseline = reads[1].view
            /\ memo.candidate # <<>> => \E k \in 2..Newest : ShownSince(k)
       /\ ask.kind = "screen" /\ memo.candidate # <<>> =>
            /\ Newest > 0 /\ memo.candidate = <<reads[Newest].view>>
            /\ reads[Newest].view \notin {"none", ask.condition}
  /\ WaitIsHonest

\* A read is the newest one and leaves the earlier ones alone.
LEMMA ReadCompletes ==
  ASSUME WaitInv, NEW tree \in {"got", "failed"}, NEW v \in Views(ask.kind, tree),
         NEW old \in BOOLEAN, Completed(v, tree, old)
  PROVE  /\ waitResult = "none" /\ ask' = ask /\ waited' = waited
         /\ reads' \in Seq(Reading)
         /\ Newest \in Nat /\ Newest' = Newest + 1
         /\ \A k \in 1..Newest : reads'[k] = reads[k]
         /\ reads'[Newest'] = [view |-> v, tree |-> tree, at |-> waited, old |-> old]
         /\ TreesRight'
<1>1. /\ waitResult = "none" /\ ask' = ask /\ waited' = waited
      /\ reads' = Append(reads, [view |-> v, tree |-> tree, at |-> waited, old |-> old])
      /\ tree = "failed" => ask.requireReady = "no"
  BY DEF Completed
<1>2. /\ reads \in Seq(Reading)
      /\ [view |-> v, tree |-> tree, at |-> waited, old |-> old] \in Reading
  BY DEF WaitInv, Reading, AnyView
<1>3. /\ reads' \in Seq(Reading)
      /\ Newest \in Nat /\ Newest' = Newest + 1
      /\ \A k \in 1..Newest : reads'[k] = reads[k]
      /\ reads'[Newest'] = [view |-> v, tree |-> tree, at |-> waited, old |-> old]
  BY <1>1, <1>2 DEF Newest
<1>4. TreesRight'
  <2> SUFFICES ASSUME NEW k \in 1..Newest'
               PROVE  /\ reads'[k].view \in Views(ask.kind, reads'[k].tree)
                      /\ ask.requireReady = "yes" => reads'[k].tree = "got"
    BY <1>1 DEF TreesRight, Views
  <2>1. CASE k = Newest'
    <3>1. reads'[k].view = v /\ reads'[k].tree = tree
      BY <1>3, <2>1
    <3> QED BY <1>1, <3>1
  <2>2. CASE k # Newest'
    BY <1>3, <2>2 DEF WaitInv, TreesRight
  <2> QED BY <2>1, <2>2
<1> QED BY <1>1, <1>3, <1>4

\* What a wait asks for stays.
LEMMA KindKept ==
  ASSUME UNCHANGED ask
  PROVE  /\ Reading' = Reading /\ Needed' = Needed
         /\ \A v : Meets(v)' <=> Meets(v)
         /\ \A v, w : Differs(v, w)' <=> Differs(v, w)
BY DEF Reading, AnyView, Needed, Meets, Chosen, Differs, Views

\* Of an empty screen only the absence of an element is met.
LEMMA EmptyMeets == WaitInv /\ ask.kind = "ui" /\ Meets(<<>>) => ask.condition = "not_exists"
<1> SUFFICES ASSUME WaitInv, ask.kind = "ui", Meets(<<>>) PROVE ask.condition = "not_exists"
  OBVIOUS
<1>1. Chosen(<<>>) = "absent"
  BY DEF Chosen
<1> QED BY <1>1 DEF Meets

\* wait_for_ui and a tap's resolution.
LEMMA UiReadStep ==
  ASSUME WaitInv, NEW tree \in {"got", "failed"}, NEW v \in Views(ask.kind, tree),
         NEW old \in BOOLEAN, NEW ready \in BOOLEAN, UiRead(v, tree, old, ready)
  PROVE  WaitInv'
<1>1. ask.kind = "ui" /\ Completed(v, tree, old)
  BY DEF UiRead
<1>2. /\ waitResult = "none" /\ ask' = ask /\ waited' = waited
      /\ reads' \in Seq(Reading)
      /\ Newest \in Nat /\ Newest' = Newest + 1
      /\ \A k \in 1..Newest : reads'[k] = reads[k]
      /\ reads'[Newest'] = [view |-> v, tree |-> tree, at |-> waited, old |-> old]
      /\ TreesRight'
  BY <1>1, ReadCompletes
<1>3. Reading' = Reading /\ Needed' = Needed
  BY <1>2, KindKept
<1>1a. v \in Found
  BY <1>1 DEF Views, Found
<1>4. CASE Ambiguous(v)
  <2>1. waitResult' = "failed" /\ UNCHANGED memo
    BY <1>4 DEF UiRead
  <2> QED BY <1>2, <1>3, <2>1 DEF WaitInv, WaitIsHonest
<1>5. CASE ~Ambiguous(v)
  <2> DEFINE n == Accepted(v, old)
  <2>1. /\ memo' = [memo EXCEPT !.stable = n]
        /\ waitResult' = IF n >= Needed /\ (ask.requireReady = "yes" => ready)
                         THEN "success" ELSE "none"
    BY <1>5 DEF UiRead, Enough, Succeeds
  <2>2. n = IF Meets(v) /\ ~old THEN memo.stable + 1 ELSE 0
    BY DEF Accepted
  <2>3. n \in Nat /\ n <= Newest'
    BY <1>1, <1>2, <2>2 DEF WaitInv, Backed
  <2> HIDE DEF n
  <2>4. \A k \in (Newest' - n + 1)..Newest' : Meets(reads'[k].view) /\ ~reads'[k].old
    <3>1. CASE ~(Meets(v) /\ ~old)
      BY <1>2, <2>2, <3>1
    <3>2. CASE Meets(v) /\ ~old
      <4>1. n = memo.stable + 1 /\ memo.stable \in Nat /\ Backed(memo.stable)
        BY <1>1, <1>2, <2>2, <3>2 DEF WaitInv
      <4> SUFFICES ASSUME NEW k \in (Newest' - n + 1)..Newest'
                   PROVE  Meets(reads'[k].view) /\ ~reads'[k].old
        OBVIOUS
      <4>2. CASE k = Newest'
        <5>1. reads'[k].view = v /\ reads'[k].old = old
          BY <1>2, <4>2
        <5> QED BY <3>2, <5>1
      <4>3. CASE k # Newest'
        <5>0. Newest \in Nat /\ Newest' = Newest + 1 /\ memo.stable <= Newest
          BY <1>2, <4>1 DEF Backed
        <5>1. k \in 1..Newest /\ k \in (Newest - memo.stable + 1)..Newest
          BY <4>1, <4>3, <5>0
        <5>2. reads'[k] = reads[k]
          BY <1>2, <5>1
        <5> QED BY <4>1, <5>1, <5>2 DEF Backed
      <4> QED BY <4>2, <4>3
    <3> QED BY <3>1, <3>2
  <2>5. memo' = [stable |-> n, baseline |-> memo.baseline, candidate |-> memo.candidate,
                 since |-> memo.since]
    BY <2>1 DEF WaitInv
  <2>6. Needed \in {1, 2}
    BY DEF Needed
  <2>7. n >= Needed =>
          \A r \in {reads'[k] : k \in (Newest' - Needed + 1)..Newest'} : Meets(r.view) /\ ~r.old
    BY <1>2, <2>3, <2>4, <2>6
  <2>8. n >= Needed /\ ask.tap = "once" => Len(v) = 1
    <3> SUFFICES ASSUME n >= Needed, ask.tap = "once" PROVE Len(v) = 1
      OBVIOUS
    <3>1. Meets(v)
      BY <1>2, <2>3, <2>4, <2>6
    <3>2. ask.condition = "clickable" /\ ask.index = 0
      BY DEF WaitInv, Asks
    <3>3. v \in Found /\ Len(v) <= 1
      BY <1>1, <1>5, <1>1a DEF Ambiguous, Found
    <3>4. v # <<>>
      <4> SUFFICES ASSUME v = <<>> PROVE FALSE
        OBVIOUS
      <4>1. Chosen(v) = "absent"
        BY <3>2 DEF Chosen
      <4> QED BY <3>1, <3>2, <4>1 DEF Meets
    <3>5. v \in {<<"hidden">>, <<"ready">>, <<"shown", "ready">>}
      BY <3>3, <3>4 DEF Found
    <3>6. v # <<"shown", "ready">>
      <4> SUFFICES ASSUME v = <<"shown", "ready">> PROVE FALSE
        OBVIOUS
      <4>1. Len(v) = 2
        OBVIOUS
      <4> QED BY <3>3, <4>1
    <3>7. v = <<"hidden">> \/ v = <<"ready">>
      BY <3>5, <3>6
    <3> QED BY <3>7
  <2>9. (ask.kind = "ui" => Backed(memo.stable))'
    BY <1>2, <2>3, <2>4, <2>5 DEF Backed, Meets, Chosen
  <2>9a. \A k \in 1..Newest' : reads'[k].tree = "failed" /\ Meets(reads'[k].view) =>
                                ask.condition = "not_exists"
    BY <1>1, <1>2, EmptyMeets DEF TreesRight, Views
  <2>9b. n >= Needed =>
          \A r \in {reads'[k] : k \in (Newest' - Needed + 1)..Newest'} :
            r.tree = "failed" => ask.condition = "not_exists"
    <3> SUFFICES ASSUME n >= Needed, NEW k \in (Newest' - Needed + 1)..Newest'
                 PROVE  reads'[k].tree = "failed" => ask.condition = "not_exists"
      OBVIOUS
    <3>1. k \in 1..Newest' /\ Meets(reads'[k].view)
      BY <1>2, <2>3, <2>6, <2>7
    <3> QED BY <2>9a, <3>1
  <2>10. waitResult' = "success" =>
          /\ Newest' >= Needed'
          /\ \A r \in (Latest(Needed))' :
               /\ (Meets(r.view))' /\ ~r.old
               /\ r.tree = "failed" => ask.condition = "not_exists"
          /\ ask'.tap = "once" => Len(reads'[Newest'].view) = 1
    <3> SUFFICES ASSUME n >= Needed, waitResult' = "success"
                 PROVE  /\ Newest' >= Needed
                        /\ \A r \in (Latest(Needed))' :
                             /\ (Meets(r.view))' /\ ~r.old
                             /\ r.tree = "failed" => ask.condition = "not_exists"
                        /\ ask.tap = "once" => Len(reads'[Newest'].view) = 1
      BY <1>2, <1>3, <2>1
    <3>1. (Latest(Needed))' = {reads'[k] : k \in (Newest' - Needed + 1)..Newest'}
      BY <1>3 DEF Latest
    <3>2. \A r : (Meets(r.view))' <=> Meets(r.view)
      BY <1>2 DEF Meets, Chosen
    <3> QED BY <1>2, <2>3, <2>6, <2>7, <2>8, <2>9b, <3>1, <3>2
  <2>11. WaitIsHonest'
    <3>1. ask'.requireReady = "yes" => \A k \in 1..Newest' : reads'[k].tree = "got"
      BY <1>2 DEF TreesRight
    <3>2. waitResult' = "success" => UiHolds'
      BY <1>2, <2>10 DEF UiHolds
    <3> QED BY <1>1, <1>2, <3>1, <3>2 DEF WaitIsHonest
  <2> QED BY <1>1, <1>2, <1>3, <2>1, <2>3, <2>5, <2>9, <2>11 DEF WaitInv
<1> QED BY <1>4, <1>5

\* wait_for_ui_change.
LEMMA ChangeReadStep ==
  ASSUME WaitInv, NEW tree \in {"got", "failed"}, NEW v \in Views(ask.kind, tree),
         NEW ready \in BOOLEAN, ChangeRead(v, tree, ready)
  PROVE  WaitInv'
<1>1. ask.kind = "change" /\ Completed(v, tree, FALSE)
  BY DEF ChangeRead
<1>2. /\ waitResult = "none" /\ ask' = ask /\ waited' = waited
      /\ reads' \in Seq(Reading)
      /\ Newest \in Nat /\ Newest' = Newest + 1
      /\ \A k \in 1..Newest : reads'[k] = reads[k]
      /\ reads'[Newest'] = [view |-> v, tree |-> tree, at |-> waited, old |-> FALSE]
      /\ TreesRight'
  BY <1>1, ReadCompletes
<1>3. Reading' = Reading /\ (\A a, b : Differs(a, b)' <=> Differs(a, b))
  BY <1>2, KindKept
<1>4. v # <<>>
  BY <1>1 DEF Views, Signs
<1>5. CASE memo.baseline = <<>>
  <2>1. memo' = [memo EXCEPT !.baseline = v] /\ waitResult' = waitResult
    BY <1>5 DEF ChangeRead
  <2>2. memo' = [stable |-> memo.stable, baseline |-> v, candidate |-> memo.candidate,
                 since |-> memo.since] /\ memo.candidate = <<>> /\ Newest = 0
    BY <1>1, <1>2, <1>5, <2>1 DEF WaitInv
  <2> QED BY <1>1, <1>2, <1>3, <1>4, <2>1, <2>2 DEF WaitInv, WaitIsHonest
<1>6. CASE memo.baseline # <<>>
  <2>1. /\ memo' = Candidate(v)
        /\ waitResult' = IF memo'.candidate # <<>> /\ waited - memo'.since >= StabilityWindow
                              /\ (ask.requireReady = "yes" => ready)
                         THEN "success" ELSE "none"
    BY <1>6 DEF ChangeRead, Enough, Succeeds
  <2>2. memo' = [stable |-> memo.stable, baseline |-> memo.baseline,
                 candidate |-> memo'.candidate, since |-> memo'.since]
    BY <2>1 DEF WaitInv, Candidate
  <2>3. Newest > 0 /\ memo.baseline = reads[1].view /\ reads'[1] = reads[1]
    <3>1. waitResult = "none" /\ ask.kind = "change"
      BY <1>1, <1>2
    <3>2. Newest > 0 /\ memo.baseline = reads[1].view
      BY <1>6, <3>1 DEF WaitInv
    <3> QED BY <1>2, <3>2
  <2>4. memo'.candidate # <<>> =>
          \E k \in 2..Newest' :
            /\ reads'[k].at = memo'.since
            /\ \A j \in k..Newest' : reads'[j].view = memo'.candidate
            /\ Differs(reads'[1].view, memo'.candidate)
    <3>1. CASE ~Differs(memo.baseline, v)
      BY <2>1, <3>1 DEF Candidate, WaitInv
    <3>2. CASE Differs(memo.baseline, v) /\ memo.candidate # v
      <4>1. memo'.candidate = v /\ memo'.since = waited
        BY <2>1, <3>2 DEF Candidate, WaitInv
      <4> QED BY <1>2, <2>3, <3>2, <4>1
    <3>3. CASE Differs(memo.baseline, v) /\ memo.candidate = v
      <4>1. memo' = memo
        BY <2>1, <3>3 DEF Candidate
      <4>2. PICK k \in 2..Newest : ShownSince(k)
        BY <1>1, <1>2, <1>4, <1>6, <3>3 DEF WaitInv
      <4>3. /\ reads[k].at = memo.since /\ Differs(reads[1].view, memo.candidate)
            /\ \A j \in k..Newest : reads[j].view = memo.candidate
        BY <4>2 DEF ShownSince
      <4>4. k \in 2..Newest' /\ reads'[k] = reads[k]
        BY <1>2
      <4>5. \A j \in k..Newest' : j \in 1..Newest \/ j = Newest'
        BY <1>2
      <4>6. \A j \in k..Newest' : reads'[j].view = memo.candidate
        BY <1>2, <3>3, <4>3, <4>5
      <4> QED BY <2>3, <4>1, <4>3, <4>4, <4>6
    <3> QED BY <3>1, <3>2, <3>3
  <2>5. (memo.candidate # <<>> => \E k \in 2..Newest : ShownSince(k))'
    BY <1>2, <2>4 DEF ShownSince, Differs
  <2>6. waitResult' = "success" =>
          \E k \in 2..Newest' :
            /\ reads'[Newest'].at - reads'[k].at >= StabilityWindow
            /\ \A j \in k..Newest' : reads'[j].view = reads'[k].view
            /\ Differs(reads'[1].view, reads'[k].view)
    BY <1>2, <2>1, <2>4
  <2>7. waitResult' = "success" =>
          \E k \in 2..Newest' :
            /\ reads'[Newest'].at - reads'[k].at >= StabilityWindow
            /\ \A j \in k..Newest' : reads'[j].view = reads'[k].view
            /\ (Differs(reads[1].view, reads[k].view))'
    BY <1>2, <2>6 DEF Differs
  <2>8. WaitIsHonest'
    <3>1. ask'.kind = "change"
      BY <1>1, <1>2
    <3>2. waitResult' = "success" => ChangeHolds'
      BY <2>7 DEF ChangeHolds
    <3>3. ask'.requireReady = "yes" => \A k \in 1..Newest' : reads'[k].tree = "got"
      BY <1>2 DEF TreesRight
    <3> QED BY <3>1, <3>2, <3>3 DEF WaitIsHonest
  <2> QED BY <1>1, <1>2, <1>3, <2>1, <2>2, <2>3, <2>5, <2>8 DEF WaitInv
<1> QED BY <1>5, <1>6

\* wait_for_screen_change.
LEMMA ScreenReadStep ==
  ASSUME WaitInv, NEW tree \in {"got", "failed"}, NEW v \in Views(ask.kind, tree),
         ScreenRead(v, tree)
  PROVE  WaitInv'
<1>1. /\ ask.kind = "screen" /\ Completed(v, tree, FALSE)
      /\ waitResult' = IF memo.candidate = <<v>> THEN "success" ELSE "none"
  BY DEF ScreenRead, Succeeds
<1>2. /\ waitResult = "none" /\ ask' = ask /\ waited' = waited
      /\ reads' \in Seq(Reading)
      /\ Newest \in Nat /\ Newest' = Newest + 1
      /\ \A k \in 1..Newest : reads'[k] = reads[k]
      /\ reads'[Newest'] = [view |-> v, tree |-> tree, at |-> waited, old |-> FALSE]
      /\ TreesRight'
  BY <1>1, ReadCompletes
<1>3. Reading' = Reading
  BY <1>2, KindKept
<1>4. /\ memo' = [stable |-> memo.stable, baseline |-> memo.baseline,
                 candidate |-> memo'.candidate, since |-> memo.since]
      /\ memo'.candidate # <<>> =>
           /\ memo.candidate = <<>> /\ memo'.candidate = <<v>>
           /\ v \notin {"none", ask.condition}
  BY DEF ScreenRead, WaitInv
<1>5. memo.candidate = <<v>> =>
        Newest > 0 /\ reads[Newest].view = v /\ v \notin {"none", ask.condition}
  <2> SUFFICES ASSUME memo.candidate = <<v>>
               PROVE  Newest > 0 /\ reads[Newest].view = v /\ v \notin {"none", ask.condition}
    OBVIOUS
  <2>1. memo.candidate # <<>>
    OBVIOUS
  <2>2. /\ Newest > 0 /\ <<v>> = <<reads[Newest].view>>
        /\ reads[Newest].view \notin {"none", ask.condition}
    BY <1>1, <1>2, <2>1 DEF WaitInv
  <2>3. v = reads[Newest].view
    BY <2>2
  <2> QED BY <2>2, <2>3
<1>6. WaitIsHonest'
  <2>1. ask'.kind = "screen"
    BY <1>1, <1>2
  <2>2. waitResult' = "success" => ScreenHolds'
    BY <1>1, <1>2, <1>5 DEF ScreenHolds
  <2>3. ask'.requireReady = "yes" => \A k \in 1..Newest' : reads'[k].tree = "got"
    BY <1>2 DEF TreesRight
  <2> QED BY <2>1, <2>2, <2>3 DEF WaitIsHonest
<1> QED BY <1>1, <1>2, <1>3, <1>4, <1>6 DEF WaitInv

\* Every step keeps the invariant.
LEMMA WaitStep == WaitInv /\ [WaitNext]_waitVars => WaitInv'
<1> SUFFICES ASSUME WaitInv, [WaitNext]_waitVars PROVE WaitInv'
  OBVIOUS
<1> USE DEF Backed, ShownSince, Reading, AnyView, TreesRight, Newest, Latest, Needed, Meets,
            Chosen, Differs, Views, UiHolds, ChangeHolds, ScreenHolds
<1>1. CASE TimePasses
  BY <1>1 DEF TimePasses, WaitInv, WaitIsHonest
<1>2. CASE ReadFails
  BY <1>2 DEF ReadFails, WaitInv, WaitIsHonest, NoMemo
<1>3. CASE DeviceBlocked
  <2>1. /\ memo' = [stable |-> memo.stable, baseline |-> memo.baseline,
                   candidate |-> <<>>, since |-> memo.since]
        /\ waitResult = "none" /\ ask.kind = "change"
        /\ UNCHANGED <<ask, waited, reads, waitResult>>
    BY <1>3 DEF DeviceBlocked, WaitInv
  <2> QED BY <2>1 DEF WaitInv, WaitIsHonest
<1>4. CASE WaitGivesUp
  BY <1>4 DEF WaitGivesUp, WaitInv, WaitIsHonest
<1>5. ASSUME NEW tree \in {"got", "failed"}, NEW v \in Views(ask.kind, tree),
             NEW ready \in BOOLEAN, ChangeRead(v, tree, ready)
      PROVE  WaitInv'
  BY <1>5, ChangeReadStep
<1>6. ASSUME NEW tree \in {"got", "failed"}, NEW v \in Views(ask.kind, tree),
             NEW ready \in BOOLEAN, NEW old \in BOOLEAN, UiRead(v, tree, old, ready)
      PROVE  WaitInv'
  BY <1>6, UiReadStep
<1>7. ASSUME NEW tree \in {"got", "failed"}, NEW v \in Views(ask.kind, tree),
             ScreenRead(v, tree)
      PROVE  WaitInv'
  BY <1>7, ScreenReadStep
<1>8. CASE UNCHANGED waitVars
  BY <1>8 DEF waitVars, WaitInv, WaitIsHonest
<1> QED BY <1>1, <1>2, <1>3, <1>4, <1>5, <1>6, <1>7, <1>8 DEF WaitNext

\* A wait succeeds only when its latest reads, or every read since long enough ago, show
\* what it says: with requireReady in trees that were got, without it in readings of which a
\* dump that failed is one of a screen without elements.
\* (ui-wait.ts, ui-change-wait.ts, screen-wait.ts)
THEOREM WaitsHonestly == WaitSpec => []WaitIsHonest
<1>1. WaitInit => WaitInv
  BY DEF WaitInit, WaitInv, NoMemo, WaitIsHonest, Backed, Newest, TreesRight
<1>2. WaitInv => WaitIsHonest
  BY DEF WaitInv
<1> QED BY <1>1, <1>2, WaitStep, PTL DEF WaitSpec

----------------------------------------------------------------------------
(* Input calls *)

Verdict == [success : BOOLEAN, retryable : {"yes", "no", "unset"},
            code : {"none", "TIMEOUT", "UNKNOWN", "TARGET", "NAVIGATION_NO_CHANGE",
                    "ACTION_TIMEOUT"}]

InputPlaces == {"idle", "guard", "prepare", "condition", "input", "adb", "look", "returned",
                "thrown", "done"}

InputCall ==
  [at : InputPlaces, status : {"not_checked", "matched", "mismatch", "unavailable"},
   marked : BOOLEAN, started : BOOLEAN, late : BOOLEAN, swipes : Nat, result : Verdict]

ActType == req \in Requests /\ act \in InputCall /\ sent \in Nat

\* What a call has sent where it stands: nothing before its dispatch, which both marks
\* have seen, nothing without the match its condition asks for, and one input if it is a
\* tap that returns a success, which then has no failure code.
Dispatched(a, q, n) ==
  /\ a.at \in {"idle", "guard", "prepare", "condition"} => n = 0
  /\ n > 0 => a.started /\ (q.guarded => a.marked)
  /\ q.conditional /\ (n > 0 \/ a.at \in {"input", "adb", "look"}) => a.status = "matched"
  /\ q.kind = "tap" =>
       /\ a.at = "input" => n = 0
       /\ a.at = "adb" => n = 1
       /\ a.at # "look"
       /\ a.at = "returned" /\ a.result.success => n = 1
  /\ a.result.success => a.result.code = "none"
  /\ a.at = "thrown" => ~a.result.success

ActInv == ActType /\ Dispatched(act, req, sent) /\ ReplyIsHonest

\* The verdicts that the adapters give are verdicts.
LEMMA AdapterVerdicts ==
  /\ Succeeded \in Verdict /\ Succeeded.success /\ Succeeded.code = "none"
  /\ \A t \in BOOLEAN : AdapterFails(t) \in Verdict /\ ~AdapterFails(t).success
<1>1. Succeeded \in Verdict /\ Succeeded.success /\ Succeeded.code = "none"
  BY DEF Succeeded, Result, Verdict
<1>2. ASSUME NEW t \in BOOLEAN
      PROVE  AdapterFails(t) \in Verdict /\ ~AdapterFails(t).success
  <2>1. CASE t = TRUE
    BY <2>1 DEF AdapterFails, Result, Verdict, Flag
  <2>2. CASE t = FALSE
    BY <2>2 DEF AdapterFails, Result, Verdict, Flag
  <2> QED BY <2>1, <2>2
<1> QED BY <1>1, <1>2

\* Moving on without an input.  (action-execution.ts)
LEMMA ActMoves ==
  ASSUME ActInv, UNCHANGED <<req, sent>>, act' \in InputCall,
         act'.at # "done", act.at # "done",
         act'.marked = act.marked, act'.started = act.started, act'.status = act.status,
         act'.result = act.result, act'.at \in {act.at, "prepare", "guard"},
         act'.at # act.at => act.at \in {"idle", "guard"}
  PROVE  ActInv'
BY DEF ActInv, ActType, Dispatched, ReplyIsHonest

\* An adapter that returns or throws a failure, or finds the element at once.
LEMMA AdapterEnds ==
  ASSUME ActInv, UNCHANGED <<req, sent>>, NEW at \in {"returned", "thrown"}, NEW v \in Verdict,
         act' = [act EXCEPT !.at = at, !.result = v],
         act.at # "done", v.success => v.code = "none" /\ at = "returned",
         req.kind = "tap" => ~v.success
  PROVE  ActInv'
<1>1. act' \in InputCall
  BY DEF ActInv, ActType, InputCall, InputPlaces
<1>2. /\ act'.at = at /\ act'.result = v /\ act'.marked = act.marked
      /\ act'.started = act.started /\ act'.status = act.status
  BY DEF ActInv, ActType, InputCall
<1> QED BY <1>1, <1>2 DEF ActInv, ActType, Dispatched, ReplyIsHonest

\* A call that comes to its input, or to the condition of it.
LEMMA InputNears ==
  ASSUME ActInv, UNCHANGED <<req, sent>>, NEW at \in {"condition", "input"},
         act' = [act EXCEPT !.at = at],
         act.at \in {"prepare", "look"}, act.at = "look" => at = "input",
         req.conditional => at = "condition" \/ act.at = "look"
  PROVE  ActInv'
<1>1. act' \in InputCall
  BY DEF ActInv, ActType, InputCall, InputPlaces
<1>2. /\ act'.at = at /\ act'.result = act.result /\ act'.marked = act.marked
      /\ act'.started = act.started /\ act'.status = act.status
  BY DEF ActInv, ActType, InputCall
<1>3. act'.at # "done" /\ act.at # "done"
  BY <1>2
<1> QED BY <1>1, <1>2, <1>3 DEF ActInv, ActType, Dispatched, ReplyIsHonest

\* The end of an input: a scroll looks at the screen, a tap returns.
LEMMA InputEnds ==
  ASSUME ActType, NEW a \in InputCall, NEW v \in Verdict
  PROVE  /\ InputOver(a, v) \in InputCall
         /\ InputOver(a, v).at = (IF req.kind = "scroll" THEN "look" ELSE "returned")
         /\ InputOver(a, v).result = (IF req.kind = "scroll" THEN a.result ELSE v)
         /\ InputOver(a, v).marked = a.marked /\ InputOver(a, v).started = a.started
         /\ InputOver(a, v).status = a.status
<1>1. CASE req.kind = "scroll"
  <2>1. InputOver(a, v) = [a EXCEPT !.at = "look", !.swipes = @ + 1]
    BY <1>1 DEF InputOver
  <2>2. a.swipes + 1 \in Nat
    BY DEF InputCall
  <2>3. InputOver(a, v) \in InputCall
    BY <2>1, <2>2 DEF InputCall, InputPlaces
  <2>4. /\ InputOver(a, v).at = "look" /\ InputOver(a, v).result = a.result
        /\ InputOver(a, v).marked = a.marked /\ InputOver(a, v).started = a.started
        /\ InputOver(a, v).status = a.status
    BY <2>1 DEF InputCall
  <2> QED BY <1>1, <2>3, <2>4
<1>2. CASE req.kind # "scroll"
  <2>1. InputOver(a, v) = [a EXCEPT !.at = "returned", !.result = v]
    BY <1>2 DEF InputOver
  <2> QED BY <1>2, <2>1 DEF InputCall, InputPlaces
<1> QED BY <1>1, <1>2

\* A dispatch that is refused, or fails: the marks may be set, nothing is sent.
LEMMA NotSent ==
  ASSUME ActInv, UNCHANGED <<req, sent>>, act.at \in {"input", "adb"},
         NEW a \in InputCall, NEW v \in Verdict, act' = InputOver(a, v),
         a.status = act.status, a.result = act.result,
         act.started => a.started, req.guarded /\ act.marked => a.marked,
         v.success => v.code = "none" /\ act.at = "adb"
  PROVE  ActInv'
<1>1. act' \in InputCall
  BY InputEnds DEF ActInv
<1>2. /\ act'.at = (IF req.kind = "scroll" THEN "look" ELSE "returned")
      /\ act'.result = (IF req.kind = "scroll" THEN act.result ELSE v)
      /\ act'.marked = a.marked /\ act'.started = a.started /\ act'.status = act.status
  BY InputEnds DEF ActInv
<1>3. req.kind \in {"tap", "scroll"} /\ (req.conditional => req.kind = "tap")
  BY DEF ActInv, ActType, Requests
<1>4. act.at # "done" /\ act'.at # "done"
  BY <1>2
<1>5. a.started \in BOOLEAN /\ a.marked \in BOOLEAN
  BY DEF InputCall
<1>6. Dispatched(act', req, sent)
  BY <1>2, <1>3, <1>5 DEF ActInv, ActType, Dispatched
<1> QED BY <1>1, <1>4, <1>6 DEF ActInv, ActType, ReplyIsHonest

\* The call begins.  (tool-handlers.ts)
LEMMA CallBeginsStep == ASSUME ActInv, CallBegins PROVE ActInv'
<1>1. req \in Requests /\ act \in InputCall
  BY DEF ActInv, ActType
<1>2. PICK g \in BOOLEAN : req' = [req EXCEPT !.guarded = g]
  <2>1. req' = [req EXCEPT !.guarded = (debugger # "detached")]
    BY DEF CallBegins
  <2>2. CASE debugger = "detached"
    <3>1. req' = [req EXCEPT !.guarded = FALSE]
      BY <2>1, <2>2
    <3> QED BY <3>1
  <2>3. CASE debugger # "detached"
    <3>1. req' = [req EXCEPT !.guarded = TRUE]
      BY <2>1, <2>3
    <3> QED BY <3>1
  <2> QED BY <2>2, <2>3
<1>3. /\ req' \in Requests /\ req'.kind = req.kind /\ req'.conditional = req.conditional
  BY <1>1, <1>2 DEF Requests
<1>4. PICK at \in {"guard", "prepare"} : act' = [act EXCEPT !.at = at]
  BY DEF CallBegins
<1>5. act' \in InputCall
  BY <1>1, <1>4 DEF InputCall, InputPlaces
<1>6. /\ act'.at = at /\ act'.result = act.result /\ act'.status = act.status
  BY <1>1, <1>4 DEF InputCall
<1>7. act.at = "idle" /\ sent' = sent /\ sent = 0 /\ sent \in Nat
  BY DEF CallBegins, ActInv, ActType, Dispatched
<1>8. ActType'
  BY <1>3, <1>5, <1>7 DEF ActType
<1>9. Dispatched(act, req, sent)'
  BY <1>3, <1>6, <1>7 DEF ActInv, Dispatched
<1> QED BY <1>6, <1>8, <1>9 DEF ActInv, ReplyIsHonest

\* An answer of the guard before anything is sent.  (tool-handlers.ts)
LEMMA GuardEntersStep ==
  ASSUME ActInv, NEW found \in BOOLEAN, GuardEnters(found)
  PROVE  ActInv'
<1>1. act \in InputCall /\ act.at = "guard" /\ sent = 0 /\ UNCHANGED <<req, sent>>
  BY DEF GuardEnters, ActInv, ActType, Dispatched
<1>2. ASSUME NEW r, Answer(r), r.delivery \in {"none", "not_delivered"}, r.code # "ACTION_TIMEOUT"
      PROVE  ActInv'
  <2>1. act' \in InputCall
    BY <1>1, <1>2 DEF Answer, InputCall, InputPlaces
  <2>2. act'.at = "done" /\ act'.result = act.result /\ act'.status = act.status
    BY <1>1, <1>2 DEF Answer, InputCall
  <2>3. Dispatched(act, req, sent)'
    BY <1>1, <2>2 DEF ActInv, Dispatched
  <2>4. reply' = r
    BY <1>2 DEF Answer
  <2> QED BY <1>1, <1>2, <2>1, <2>3, <2>4 DEF ActInv, ActType, ReplyIsHonest
<1>3. CASE ~found
  <2>1. Answer([NoReply EXCEPT !.code = "ERROR"])
    BY <1>3 DEF GuardEnters
  <2> QED BY <1>2, <2>1 DEF NoReply
<1>4. CASE found /\ Blocked
  <2>1. Answer([NoReply EXCEPT !.code = "DEBUGGER_PAUSED", !.delivery = "not_delivered"])
    BY <1>4 DEF GuardEnters
  <2> QED BY <1>2, <2>1 DEF NoReply
<1>5. CASE found /\ ~Blocked
  <2>1. act' = [act EXCEPT !.at = "prepare"]
    BY <1>5 DEF GuardEnters
  <2>2. act' \in InputCall
    BY <1>1, <2>1 DEF InputCall, InputPlaces
  <2> QED BY <1>1, <2>1, <2>2, ActMoves DEF InputCall
<1> QED BY <1>3, <1>4, <1>5

\* The adapter fails before its input.
LEMMA UnpreparedStep ==
  ASSUME ActInv, Unprepared, act.at # "done"
  PROVE  ActInv'
<1>1. UNCHANGED <<req, sent>>
  BY DEF Unprepared
<1>2. ASSUME NEW t \in BOOLEAN, Returns(AdapterFails(t)) PROVE ActInv'
  BY <1>1, <1>2, AdapterVerdicts, AdapterEnds DEF Returns
<1>3. ASSUME NEW t \in BOOLEAN, Throws(t) PROVE ActInv'
  <2>1. PICK v : v = Result(FALSE, IF t THEN "ACTION_TIMEOUT" ELSE "UNKNOWN", "unset")
    OBVIOUS
  <2>2. v \in Verdict /\ ~v.success
    BY <2>1 DEF Result, Verdict
  <2>3. act' = [act EXCEPT !.at = "thrown", !.result = v]
    BY <1>3, <2>1 DEF Throws
  <2> QED BY <1>1, <2>2, <2>3, AdapterEnds
<1> QED BY <1>2, <1>3 DEF Unprepared

\* A tap that is prepared.  (interact/android.ts, interact/ios.ts)
LEMMA PrepareTapStep == ASSUME ActInv, PrepareTap PROVE ActInv'
<1>1. act.at = "prepare" /\ UNCHANGED <<req, sent>>
  BY DEF PrepareTap, Unprepared
<1>2. CASE Returns(Result(FALSE, "TARGET", "yes"))
  <2>1. Result(FALSE, "TARGET", "yes") \in Verdict /\ ~Result(FALSE, "TARGET", "yes").success
    BY DEF Result, Verdict
  <2> QED BY <1>1, <1>2, <2>1, AdapterEnds DEF Returns
<1>3. CASE act' = [act EXCEPT !.at = IF req.conditional THEN "condition" ELSE "input"]
  <2>1. PICK at \in {"condition", "input"} :
          act' = [act EXCEPT !.at = at] /\ (req.conditional => at = "condition")
    BY <1>3
  <2> QED BY <1>1, <2>1, InputNears
<1> QED BY <1>1, <1>2, <1>3, UnpreparedStep DEF PrepareTap

\* A scroll that is prepared.
LEMMA PrepareScrollStep == ASSUME ActInv, PrepareScroll PROVE ActInv'
<1>1. act.at = "prepare" /\ UNCHANGED <<req, sent>> /\ req.kind = "scroll" /\ ~req.conditional
  BY DEF PrepareScroll, Unprepared, ActInv, ActType, Requests
<1>2. CASE Returns(Succeeded)
  BY <1>1, <1>2, AdapterVerdicts, AdapterEnds DEF Returns
<1>3. CASE act' = [act EXCEPT !.at = "input"]
  BY <1>1, <1>3, InputNears
<1> QED BY <1>1, <1>2, <1>3, UnpreparedStep DEF PrepareScroll

\* The condition of an input is read.  (beforeInputDispatch)
LEMMA ConditionStep ==
  ASSUME ActInv, NEW status \in {"matched", "mismatch", "unavailable"}, ConditionEnds(status)
  PROVE  ActInv'
<1>1. act.at = "condition" /\ UNCHANGED <<req, sent>> /\ act \in InputCall
  BY DEF ConditionEnds, ActInv, ActType
<1>2. CASE status = "matched"
  <2>1. act' = [act EXCEPT !.status = "matched", !.at = "input", !.result = act.result]
    BY <1>2 DEF ConditionEnds
  <2>2. act' \in InputCall /\ act'.at = "input" /\ act'.status = "matched"
        /\ act'.result = act.result /\ act'.started = act.started /\ act'.marked = act.marked
    BY <1>1, <2>1 DEF InputCall, InputPlaces
  <2> QED BY <1>1, <2>2 DEF ActInv, ActType, Dispatched, ReplyIsHonest
<1>3. CASE status # "matched"
  <2>1. act' = [act EXCEPT !.status = status, !.at = "returned", !.result = AdapterFails(FALSE)]
    BY <1>3 DEF ConditionEnds
  <2>2. PICK v \in Verdict : v = AdapterFails(FALSE) /\ ~v.success
    BY AdapterVerdicts
  <2>3. act' \in InputCall /\ act'.at = "returned" /\ act'.status = status
        /\ act'.result = v /\ act'.started = act.started /\ act'.marked = act.marked
    BY <1>1, <2>1, <2>2 DEF InputCall, InputPlaces
  <2>4. sent = 0 /\ sent' = 0 /\ req' = req
    BY <1>1 DEF ActInv, Dispatched
  <2>5. ~act'.result.success
    BY <2>2, <2>3
  <2>6. Dispatched(act, req, sent)'
    BY <2>3, <2>4, <2>5 DEF Dispatched
  <2>7. ActType'
    BY <1>1, <2>3 DEF ActInv, ActType
  <2>8. ReplyIsHonest'
    BY <2>3 DEF ReplyIsHonest
  <2> QED BY <2>6, <2>7, <2>8 DEF ActInv
<1> QED BY <1>2, <1>3

\* The dispatch of an input.  (markDispatchStarted)
LEMMA DispatchStep == ASSUME ActInv, MarkDispatchStarted PROVE ActInv'
<1> DEFINE marked  == [act EXCEPT !.marked = req.guarded]
           started == [marked EXCEPT !.started = TRUE]
<1>1. act.at = "input" /\ act \in InputCall /\ req' = req /\ req.guarded \in BOOLEAN
      /\ sent \in Nat
  BY DEF MarkDispatchStarted, ActInv, ActType, Requests
<1>3. marked \in InputCall /\ marked.status = act.status /\ marked.result = act.result
      /\ marked.started = act.started /\ marked.marked = req.guarded
  BY <1>1 DEF InputCall
<1>4. started \in InputCall /\ started.status = act.status /\ started.result = act.result
      /\ started.started = TRUE /\ started.marked = req.guarded
  BY <1>3 DEF InputCall
<1>5. CASE sent' = sent + 1 /\ act' = [started EXCEPT !.at = "adb"]
  <2>1. act' \in InputCall /\ act'.at = "adb" /\ act'.status = act.status
        /\ act'.result = act.result /\ act'.started = TRUE /\ act'.marked = req.guarded
    BY <1>4, <1>5 DEF InputCall, InputPlaces
  <2>2. Dispatched(act, req, sent)'
    BY <1>1, <1>5, <2>1 DEF ActInv, Dispatched
  <2> QED BY <1>1, <1>5, <2>1, <2>2 DEF ActInv, ActType, ReplyIsHonest
<1>6. ASSUME NEW t \in BOOLEAN, NEW a \in InputCall, a \in {act, marked, started},
             act' = InputOver(a, AdapterFails(t)), sent' = sent
      PROVE  ActInv'
  <2>1. /\ a.status = act.status /\ a.result = act.result /\ (act.started => a.started)
        /\ req.guarded /\ act.marked => a.marked
    BY <1>3, <1>4, <1>6
  <2>2. AdapterFails(t) \in Verdict /\ ~AdapterFails(t).success
    BY AdapterVerdicts
  <2> QED BY <1>1, <1>6, <2>1, <2>2, NotSent
<1>7. \/ sent' = sent + 1 /\ act' = [started EXCEPT !.at = "adb"]
      \/ act' = InputOver(act, AdapterFails(FALSE)) /\ sent' = sent
      \/ act' = InputOver(marked, AdapterFails(TRUE)) /\ sent' = sent
      \/ \E t \in BOOLEAN : act' = InputOver(started, AdapterFails(t)) /\ sent' = sent
  BY DEF MarkDispatchStarted
<1> HIDE DEF marked, started
<1> QED BY <1>1, <1>3, <1>4, <1>5, <1>6, <1>7

\* An input ends.
LEMMA AdbEndsStep == ASSUME ActInv, AdbEnds PROVE ActInv'
<1>1. act.at = "adb" /\ UNCHANGED <<req, sent>> /\ act \in InputCall
  BY DEF AdbEnds, ActInv, ActType
<1>2. PICK v \in Verdict : act' = InputOver(act, v) /\ (v.success => v.code = "none")
  BY AdapterVerdicts DEF AdbEnds
<1> QED BY <1>1, <1>2, NotSent

\* A scroll looks at the screen after a swipe.  (scrollToElementShared)
LEMMA ScrollLooksStep == ASSUME ActInv, ScrollLooks PROVE ActInv'
<1>1. act.at = "look" /\ UNCHANGED <<req, sent>> /\ req.kind = "scroll" /\ ~req.conditional
  BY DEF ScrollLooks, ActInv, ActType, Dispatched, Requests
<1>2. CASE Returns(Succeeded)
  BY <1>1, <1>2, AdapterVerdicts, AdapterEnds DEF Returns
<1>3. CASE Returns(Result(FALSE, "NAVIGATION_NO_CHANGE", "yes"))
  <2>1. /\ Result(FALSE, "NAVIGATION_NO_CHANGE", "yes") \in Verdict
        /\ ~Result(FALSE, "NAVIGATION_NO_CHANGE", "yes").success
    BY DEF Result, Verdict
  <2> QED BY <1>1, <1>3, <2>1, AdapterEnds DEF Returns
<1>4. ASSUME NEW t \in BOOLEAN, Returns(AdapterFails(t)) PROVE ActInv'
  BY <1>1, <1>4, AdapterVerdicts, AdapterEnds DEF Returns
<1>5. CASE Throws(TRUE)
  <2>1. PICK v : v = Result(FALSE, "ACTION_TIMEOUT", "unset")
    OBVIOUS
  <2>2. v \in Verdict /\ ~v.success
    BY <2>1 DEF Result, Verdict
  <2>3. act' = [act EXCEPT !.at = "thrown", !.result = v]
    BY <1>5, <2>1 DEF Throws
  <2> QED BY <1>1, <2>2, <2>3, AdapterEnds
<1>6. CASE act' = [act EXCEPT !.at = "input"]
  BY <1>1, <1>6, InputNears
<1> QED BY <1>2, <1>3, <1>4, <1>5, <1>6 DEF ScrollLooks

\* What a client concludes from a reply.
Honest(r, q, a, n) ==
  /\ r.delivery = "not_delivered" => n = 0
  /\ r.delivery # "none" /\ ~r.started => n = 0
  /\ r.code = "ACTION_TIMEOUT" /\ r.retryable = "yes" => n = 0
  /\ r.delivery = "delivered" /\ q.kind = "tap" => n = 1
  /\ r.success => r.delivery = "delivered"
  /\ r.delivery = "delivered" => r.success

\* The compact result says no more than the record of the call.  (compactAction)
LEMMA CompactIsHonest ==
  ASSUME ActInv, act.at \in {"returned", "thrown"}
  PROVE  LET started == DispatchStarted /\ ~Rejected
         IN  Honest(Compact(Normalized(started), started), req, act, sent)
<1>1. act \in InputCall /\ req \in Requests /\ sent \in Nat /\ Dispatched(act, req, sent)
  BY DEF ActInv, ActType
<1>2. PICK started : started = (DispatchStarted /\ ~Rejected)
  OBVIOUS
<1>3. started \in BOOLEAN /\ (~started => sent = 0)
  <2>1. started \in BOOLEAN
    BY <1>2, Zenon
  <2>2. Rejected => sent = 0
    BY <1>1 DEF Rejected, Dispatched, Requests
  <2>3. ~DispatchStarted => sent = 0
    BY <1>1 DEF DispatchStarted, Dispatched, InputCall, Verdict
  <2> QED BY <1>2, <2>1, <2>2, <2>3
<1>4. PICK v : v = Normalized(started)
  OBVIOUS
<1>5. /\ v.success \in BOOLEAN
      /\ v.success => v.code = "none" /\ act.result.success /\ ~Rejected
      /\ v.code = "ACTION_TIMEOUT" /\ v.retryable = "yes" => ~started
  <2>1. CASE Rejected
    BY <1>4, <2>1 DEF Normalized, Result
  <2>2. CASE ~Rejected /\ act.result.success
    <3>1. v = act.result
      BY <1>4, <2>2 DEF Normalized
    <3> QED BY <1>1, <2>2, <3>1 DEF Dispatched, InputCall, Verdict
  <2>3. CASE ~Rejected /\ ~act.result.success
    <3>1. PICK r \in Verdict : r = act.result /\ ~r.success
      BY <1>1, <2>3 DEF InputCall
    <3>2. PICK timeout : timeout = (r.code \in {"TIMEOUT", "ACTION_TIMEOUT"})
      OBVIOUS
    <3>3. v = [r EXCEPT !.code = IF timeout THEN "ACTION_TIMEOUT" ELSE @,
                        !.retryable = IF timeout \/ @ = "unset" THEN Flag(~started) ELSE @]
      BY <1>4, <2>3, <3>1, <3>2 DEF Normalized
    <3>4. v.success = r.success /\ v.code = (IF timeout THEN "ACTION_TIMEOUT" ELSE r.code)
          /\ v.retryable = (IF timeout \/ r.retryable = "unset" THEN Flag(~started)
                            ELSE r.retryable)
      BY <3>3 DEF Verdict
    <3>5. v.code = "ACTION_TIMEOUT" => timeout
      BY <3>2, <3>4
    <3>6. v.success = FALSE
      BY <3>1, <3>4 DEF Verdict
    <3>7. Flag(~started) = "yes" => ~started
      BY DEF Flag
    <3> QED BY <3>4, <3>5, <3>6, <3>7
  <2> QED BY <2>1, <2>2, <2>3
<1>6. PICK c : c = Compact(v, started)
  OBVIOUS
<1>7. /\ c.success = v.success /\ c.code = v.code /\ c.retryable = v.retryable
      /\ c.started = started
      /\ v.success => c.delivery = "delivered"
      /\ ~v.success /\ started => c.delivery = "unknown"
      /\ ~v.success /\ ~started => c.delivery = "not_delivered"
  <2>1. c = [success |-> v.success, code |-> v.code, retryable |-> v.retryable,
             started |-> started, delivery |-> DeliveryOf(v.success, started)]
    BY <1>6 DEF Compact
  <2>2. /\ v.success => DeliveryOf(v.success, started) = "delivered"
        /\ ~v.success /\ started => DeliveryOf(v.success, started) = "unknown"
        /\ ~v.success /\ ~started => DeliveryOf(v.success, started) = "not_delivered"
    BY DEF DeliveryOf
  <2> QED BY <2>1, <2>2
<1>8. c.success => act.at = "returned"
  BY <1>1, <1>5, <1>7 DEF Dispatched
<1>9. c.success /\ req.kind = "tap" => sent = 1
  BY <1>1, <1>5, <1>7, <1>8 DEF Dispatched
<1>10. v.success => started
  BY <1>2, <1>5, <1>8, <1>7 DEF DispatchStarted
<1>11. Honest(c, req, act, sent)
  <2>1. CASE v.success
    BY <1>7, <1>9, <1>10, <1>5, <2>1 DEF Honest
  <2>2. CASE ~v.success /\ started
    BY <1>7, <1>5, <2>2 DEF Honest
  <2>3. CASE ~v.success /\ ~started
    BY <1>7, <1>3, <2>3 DEF Honest
  <2> QED BY <2>1, <2>2, <2>3
<1> QED BY <1>2, <1>4, <1>6, <1>11

\* The reply is given; a pause found then replaces it.  (action-execution.ts, tool-handlers.ts)
LEMMA RespondStep == ASSUME ActInv, ActionRespond PROVE ActInv'
<1>1. /\ act.at \in {"returned", "thrown"} /\ act \in InputCall /\ UNCHANGED <<req, sent>>
      /\ req \in Requests /\ sent \in Nat /\ Dispatched(act, req, sent)
  BY DEF ActionRespond, ActInv, ActType
<1>2. PICK started : started = (DispatchStarted /\ ~Rejected)
  OBVIOUS
<1>3. PICK compact : compact = Compact(Normalized(started), started)
  OBVIOUS
<1>4. Honest(compact, req, act, sent)
  BY <1>1, <1>2, <1>3, CompactIsHonest
<1>5. PICK r : /\ r \in {compact, [NoReply EXCEPT !.code = "ERROR"]}
               /\ Answer(GuardLeaves(r))
  BY <1>2, <1>3 DEF ActionRespond
<1>6. Honest(r, req, act, sent)
  <2>1. CASE r = compact
    BY <1>4, <2>1
  <2>2. CASE r = [NoReply EXCEPT !.code = "ERROR"]
    BY <2>2 DEF Honest, NoReply
  <2> QED BY <1>5, <2>1, <2>2
<1>7. Honest(GuardLeaves(r), req, act, sent) \/ Blocked
  BY <1>6 DEF GuardLeaves
<1>8. ASSUME Blocked
      PROVE  /\ GuardLeaves(r).started = act.marked
             /\ GuardLeaves(r).code = "DEBUGGER_PAUSED"
             /\ GuardLeaves(r).delivery = DeliveryOf(r.success, act.marked)
             /\ ~act.marked => sent = 0
  BY <1>1, <1>8 DEF GuardLeaves, Blocked, Dispatched
<1>9. reply' = GuardLeaves(r) /\ act' = [act EXCEPT !.at = "done"]
  BY <1>5 DEF Answer
<1>10. ReplyIsHonest'
  <2>1. sent' = sent /\ req' = req /\ act'.status = act.status
    BY <1>1, <1>9 DEF InputCall
  <2>2. req.conditional /\ sent > 0 => act.status = "matched"
    BY <1>1 DEF Dispatched
  <2>3. CASE Honest(GuardLeaves(r), req, act, sent)
    BY <1>9, <2>1, <2>2, <2>3 DEF ReplyIsHonest, Honest
  <2>4. CASE Blocked
    <3>1. reply'.started = act.marked /\ reply'.code = "DEBUGGER_PAUSED"
          /\ reply'.delivery = DeliveryOf(r.success, act.marked) /\ (~act.marked => sent = 0)
      BY <1>8, <1>9, <2>4
    <3>2. r.success /\ req.kind = "tap" => sent = 1
      BY <1>6 DEF Honest
    <3>3. /\ DeliveryOf(r.success, act.marked) = "not_delivered" => ~act.marked
          /\ DeliveryOf(r.success, act.marked) = "delivered" => r.success
      BY DEF DeliveryOf
    <3> QED BY <2>1, <2>2, <3>1, <3>2, <3>3 DEF ReplyIsHonest
  <2> QED BY <1>7, <2>3, <2>4
<1>11. act' \in InputCall /\ act'.at = "done" /\ act'.result = act.result
       /\ act'.started = act.started /\ act'.marked = act.marked /\ act'.status = act.status
  BY <1>1, <1>9 DEF InputCall, InputPlaces
<1>12. Dispatched(act, req, sent)'
  BY <1>1, <1>11 DEF Dispatched
<1> QED BY <1>1, <1>10, <1>11, <1>12 DEF ActInv, ActType

LEMMA ActInit == ActionInit => ActInv
<1> SUFFICES ASSUME ActionInit PROVE ActInv
  OBVIOUS
<1>1. act.at = "idle" /\ act.result.success /\ act.result.code = "none" /\ act \in InputCall
  BY DEF ActionInit, Succeeded, Result, InputCall, InputPlaces, Verdict
<1>2. req \in Requests /\ sent = 0
  BY DEF ActionInit
<1> QED BY <1>1, <1>2 DEF ActInv, ActType, Dispatched, ReplyIsHonest

LEMMA ActStep == ActInv /\ [ActionNext]_actionVars => ActInv'
<1> SUFFICES ASSUME ActInv, [ActionNext]_actionVars PROVE ActInv'
  OBVIOUS
<1>1. CASE UNCHANGED <<req, act, sent, reply>>
  BY <1>1 DEF ActInv, ActType, Dispatched, ReplyIsHonest
<1>2. CASE BudgetExpires
  <2>1. act' = [act EXCEPT !.late = TRUE] /\ act \in InputCall /\ act.at # "done"
    BY <1>2 DEF BudgetExpires, ActInv, ActType
  <2>2. act' \in InputCall /\ act'.at = act.at /\ act'.marked = act.marked
        /\ act'.started = act.started /\ act'.status = act.status /\ act'.result = act.result
    BY <2>1 DEF InputCall
  <2> QED BY <1>2, <2>1, <2>2, ActMoves DEF BudgetExpires
<1>3. CASE \E found \in BOOLEAN : GuardEnters(found)
  BY <1>3, GuardEntersStep
<1>4. CASE \E status \in {"matched", "mismatch", "unavailable"} : ConditionEnds(status)
  BY <1>4, ConditionStep
<1> QED BY <1>1, <1>2, <1>3, <1>4, CallBeginsStep, PrepareTapStep, PrepareScrollStep,
           DispatchStep, AdbEndsStep, ScrollLooksStep, RespondStep
        DEF ActionNext, DebuggerMoves, actionVars

\* What a client may conclude from the reply of an input call is so: an input that is
\* said not to have been sent was not, and no timed-out one that may be repeated was.
\* (compactAction, normalizeAction, rejectCondition, dispatchGuarded)
THEOREM RepliesHonestly == ActionSpec => []ReplyIsHonest
<1>1. ActInv => ReplyIsHonest
  BY DEF ActInv
<1> QED BY <1>1, ActInit, ActStep, PTL DEF ActionSpec

\* A guarded call hands no input to a device while its app is paused.  (guard.ts)
THEOREM NeverWhilePaused == ActionSpec => NoInputWhilePaused
<1>1. ActInv /\ [ActionNext]_actionVars
        => [sent' > sent /\ req.guarded => debugger # "paused"]_actionVars
  <2> SUFFICES ASSUME ActInv, ActionNext, sent' > sent, req.guarded
               PROVE  debugger # "paused"
    BY DEF actionVars
  <2>1. sent \in Nat
    BY DEF ActInv, ActType
  <2>2. sent' # sent
    BY <2>1
  <2>3. MarkDispatchStarted
    BY <2>2 DEF ActionNext, DebuggerMoves, BudgetExpires, CallBegins, GuardEnters, PrepareTap,
             PrepareScroll, Unprepared, ConditionEnds, AdbEnds, ScrollLooks, ActionRespond
  <2> QED BY <2>2, <2>3 DEF MarkDispatchStarted, Blocked
<1> QED BY <1>1, ActInit, ActStep, PTL DEF ActionSpec, NoInputWhilePaused

----------------------------------------------------------------------------
(* Adjustments *)

AdjustPlaces == {"prepare", "direct", "readDirect", "steps", "readStep", "coordinate",
                 "readTap", "gesture", "readSwipe", "settle", "done"}

Adjustment ==
  [at : AdjustPlaces, tries : Nat, rounds : Nat, cached : Levels \cup {Unknown},
   pending : BOOLEAN, current : Levels \cup {Unknown}, observed : Levels \cup {Unknown},
   probe : Nat, within : BOOLEAN, result : {"none", "failed", "converged"}]

\* No value that a round goes on with, or that is kept for the next one, is within the
\* tolerance: a value that is ends the call.
AdjustInv ==
  /\ goal \in Goals
  /\ adj \in Adjustment
  /\ latest \in Levels \cup {Unknown}
  /\ ~Within(adj.cached)
  /\ adj.at \notin {"prepare", "done"} =>
       ~Within(adj.current) /\ ~Within(adj.observed) /\ ~adj.within
  /\ adj.at # "done" => adj.result # "converged"
  /\ AdjustIsHonest

\* The tolerance is a matter of the arguments.
LEMMA WithinKept == ASSUME UNCHANGED goal, NEW v PROVE Within(v) <=> Within(v)'
BY DEF Within, Tolerance, Distance, Target

\* A round changes where the call stands; it ends with a failure, or goes on with values
\* that are not within the tolerance.  (attempt, prepareIteration)
AdjustMoves(n) ==
  /\ n \in Adjustment
  /\ n.tries <= goal.limit
  /\ ~Within(n.cached)
  /\ n.at \notin {"prepare", "done"} =>
       ~Within(n.current) /\ ~Within(n.observed) /\ ~n.within
  /\ n.result # "converged"

LEMMA AdjustMoved ==
  ASSUME AdjustInv, UNCHANGED goal, latest' \in Levels \cup {Unknown}, AdjustMoves(adj')
  PROVE  AdjustInv'
<1>1. \A v : Within(v) <=> Within(v)'
  BY WithinKept
<1> QED BY <1>1 DEF AdjustInv, AdjustMoves, AdjustIsHonest

\* The call ends with what was read last.  (verifyControl, prepareIteration)
LEMMA AdjustConverged ==
  ASSUME AdjustInv, UNCHANGED goal, latest' \in Levels \cup {Unknown}, Within(latest'),
         adj' \in Adjustment, adj'.at = "done", adj'.observed = latest',
         adj'.tries = adj.tries, ~Within(adj'.cached)
  PROVE  AdjustInv'
<1>1. \A v : Within(v) <=> Within(v)'
  BY WithinKept
<1>2. Within(latest)'
  BY DEF Within, Tolerance, Distance, Target
<1>3. AdjustIsHonest'
  BY <1>2 DEF AdjustInv, AdjustIsHonest
<1>4. (~Within(adj.cached))'
  BY DEF Within, Tolerance, Distance, Target
<1> QED BY <1>3, <1>4 DEF AdjustInv

\* A failure ends the call, and the loop goes on while there are attempts.
LEMMA AdjustEnds ==
  ASSUME AdjustInv, NEW s \in Adjustment, s.tries <= goal.limit, ~Within(s.cached),
         s.result # "converged"
  PROVE  AdjustMoves(Finished(s, "failed")) /\ AdjustMoves(NextRound(s))
<1>1. AdjustMoves(Finished(s, "failed"))
  <2>1. PICK n : n = [s EXCEPT !.at = "done", !.result = "failed"]
    OBVIOUS
  <2>2. n \in Adjustment /\ n.at = "done" /\ n.tries = s.tries /\ n.cached = s.cached
        /\ n.result = "failed"
    BY <2>1 DEF Adjustment, AdjustPlaces
  <2>3. AdjustMoves(n)
    BY <2>2 DEF AdjustMoves
  <2> QED BY <2>1, <2>3 DEF Finished
<1>2. AdjustMoves([s EXCEPT !.at = "prepare"])
  <2>1. PICK n : n = [s EXCEPT !.at = "prepare"]
    OBVIOUS
  <2>2. n \in Adjustment /\ n.at = "prepare" /\ n.tries = s.tries /\ n.cached = s.cached
        /\ n.result = s.result
    BY <2>1 DEF Adjustment, AdjustPlaces
  <2>3. AdjustMoves(n)
    BY <2>2 DEF AdjustMoves
  <2> QED BY <2>1, <2>3
<1> QED BY <1>1, <1>2 DEF NextRound

LEMMA UnknownIsOut == ~Within(Unknown) /\ Unknown \notin Levels
BY HighestAssumption DEF Within, Unknown, Levels

\* The value of a round that begins: found in the tree, or kept.  (prepareIteration)
LEMMA PreparedStep ==
  ASSUME AdjustInv, adj.at = "prepare", NEW value \in Levels \cup {Unknown}
  PROVE  /\ ~Within(value) => AdjustMoves(Prepared(value))
         /\ Within(value) => /\ Prepared(value) \in Adjustment
                             /\ Prepared(value).at = "done"
                             /\ Prepared(value).observed = value
                             /\ Prepared(value).tries = adj.tries
                             /\ Prepared(value).cached = adj.cached
<1>1. PICK s : s = [adj EXCEPT !.rounds = @ + 1, !.current = value, !.observed = value,
                               !.within = FALSE, !.probe = 0]
  OBVIOUS
<1>2. adj \in Adjustment /\ adj.tries <= goal.limit /\ ~Within(adj.cached)
      /\ adj.result # "converged"
  BY DEF AdjustInv, AdjustIsHonest
<1>3. /\ s \in Adjustment /\ s.tries = adj.tries /\ s.cached = adj.cached
      /\ s.current = value /\ s.observed = value /\ s.within = FALSE /\ s.result = adj.result
  <2>1. adj.rounds + 1 \in Nat
    BY <1>2 DEF Adjustment
  <2> QED BY <1>1, <1>2, <2>1 DEF Adjustment
<1>4. Prepared(value) =
        IF value = Unknown THEN Finished(s, "failed")
        ELSE IF Within(value) THEN Finished(s, "converged") ELSE [s EXCEPT !.at = "direct"]
  BY <1>1 DEF Prepared
<1>5. AdjustMoves(Finished(s, "failed"))
  BY <1>2, <1>3, AdjustEnds
<1>6. ASSUME ~Within(value) PROVE AdjustMoves([s EXCEPT !.at = "direct"])
  <2>1. PICK n : n = [s EXCEPT !.at = "direct"]
    OBVIOUS
  <2>2. /\ n \in Adjustment /\ n.tries = adj.tries /\ n.cached = adj.cached
        /\ n.current = value /\ n.observed = value /\ n.within = FALSE /\ n.result = adj.result
    BY <1>3, <2>1 DEF Adjustment, AdjustPlaces
  <2>3. AdjustMoves(n)
    BY <1>2, <1>6, <2>2 DEF AdjustMoves
  <2> QED BY <2>1, <2>3
<1>7. /\ Finished(s, "converged") \in Adjustment /\ Finished(s, "converged").at = "done"
      /\ Finished(s, "converged").observed = value
      /\ Finished(s, "converged").tries = adj.tries
      /\ Finished(s, "converged").cached = adj.cached
  <2>1. PICK n : n = [s EXCEPT !.at = "done", !.result = "converged"]
    OBVIOUS
  <2>2. n \in Adjustment /\ n.at = "done" /\ n.observed = s.observed /\ n.tries = s.tries
        /\ n.cached = s.cached
    BY <1>3, <2>1 DEF Adjustment, AdjustPlaces
  <2> QED BY <1>3, <2>1, <2>2 DEF Finished
<1> QED BY <1>4, <1>5, <1>6, <1>7, UnknownIsOut

\* The control is found in the tree, or as it was kept.
LEMMA FoundStep ==
  ASSUME AdjustInv,
         \/ \E value \in Levels \cup {Unknown} : PrepareFromTree(value)
         \/ PrepareFromCache
  PROVE  AdjustInv'
<1>1. ASSUME NEW value \in Levels \cup {Unknown}, PrepareFromTree(value) PROVE AdjustInv'
  <2>1. adj.at = "prepare" /\ adj' = Prepared(value) /\ latest' = value /\ UNCHANGED goal
    BY <1>1 DEF PrepareFromTree
  <2>2. CASE ~Within(value)
    BY <2>1, <2>2, PreparedStep, AdjustMoved
  <2>3. CASE Within(value)
    <3>1. adj' \in Adjustment /\ adj'.at = "done" /\ adj'.observed = latest'
          /\ adj'.tries = adj.tries /\ adj'.cached = adj.cached
      BY <2>1, <2>3, PreparedStep
    <3>2. ~Within(adj'.cached)
      BY <3>1 DEF AdjustInv
    <3>3. Within(latest')
      BY <2>1, <2>3
    <3> QED BY <2>1, <3>1, <3>2, <3>3, AdjustConverged
  <2> QED BY <2>2, <2>3
<1>2. CASE PrepareFromCache
  <2>1. adj.at = "prepare" /\ adj' = Prepared(adj.cached) /\ UNCHANGED <<goal, latest>>
    BY <1>2 DEF PrepareFromCache
  <2>2. PICK value \in Levels \cup {Unknown} : value = adj.cached
    BY DEF AdjustInv, Adjustment
  <2>3. ~Within(value) /\ latest' \in Levels \cup {Unknown}
    BY <2>1, <2>2 DEF AdjustInv
  <2> QED BY <2>1, <2>2, <2>3, PreparedStep, AdjustMoved
<1> QED BY <1>1, <1>2

\* The control cannot be adjusted, or neither way is left without its range.
LEMMA GivesUpStep ==
  ASSUME AdjustInv, CannotPrepare \/ NoRange
  PROVE  AdjustInv'
<1>1. adj \in Adjustment /\ adj.tries <= goal.limit /\ ~Within(adj.cached)
      /\ latest \in Levels \cup {Unknown}
  BY DEF AdjustInv, AdjustIsHonest
<1>2. UNCHANGED <<goal, latest>>
  BY DEF CannotPrepare, NoRange
<1>3. adj.result # "converged"
  BY DEF AdjustInv, CannotPrepare, NoRange
<1>4. CASE CannotPrepare
  <2>1. PICK s : s = [adj EXCEPT !.rounds = @ + 1]
    OBVIOUS
  <2>2. adj.rounds + 1 \in Nat
    BY <1>1 DEF Adjustment
  <2>3. s \in Adjustment /\ s.tries = adj.tries /\ s.cached = adj.cached /\ s.result = adj.result
    BY <1>1, <2>1, <2>2 DEF Adjustment
  <2>4. adj' = Finished(s, "failed")
    BY <1>4, <2>1 DEF CannotPrepare
  <2>5. AdjustMoves(Finished(s, "failed"))
    BY <1>1, <1>3, <2>3, AdjustEnds
  <2> QED BY <1>1, <1>2, <2>4, <2>5, AdjustMoved
<1>5. CASE NoRange
  <2>1. adj' = Finished(adj, "failed")
    BY <1>5 DEF NoRange
  <2>2. AdjustMoves(Finished(adj, "failed"))
    BY <1>1, <1>3, AdjustEnds
  <2> QED BY <1>1, <1>2, <2>1, <2>2, AdjustMoved
<1> QED BY <1>4, <1>5

\* A way that may not act hands over to the next one.
LEMMA PassesStep ==
  ASSUME AdjustInv, NEW from \in {"direct", "steps", "coordinate", "gesture"},
         NEW next \in {"steps", "coordinate", "gesture", "settle"}, Passes(from, next)
  PROVE  AdjustInv'
<1>1. adj \in Adjustment /\ adj.tries <= goal.limit /\ ~Within(adj.cached)
      /\ latest \in Levels \cup {Unknown} /\ adj.at = from /\ adj.result # "converged"
      /\ ~Within(adj.current) /\ ~Within(adj.observed) /\ ~adj.within
  BY DEF AdjustInv, AdjustIsHonest, Passes
<1>2. adj' = [adj EXCEPT !.at = next] /\ UNCHANGED <<goal, latest>>
  BY DEF Passes
<1>3. /\ adj' \in Adjustment /\ adj'.tries = adj.tries /\ adj'.cached = adj.cached
      /\ adj'.current = adj.current /\ adj'.observed = adj.observed
      /\ adj'.within = adj.within /\ adj'.result = adj.result
  BY <1>1, <1>2 DEF Adjustment, AdjustPlaces
<1>4. AdjustMoves(adj')
  BY <1>1, <1>2, <1>3 DEF AdjustMoves
<1> QED BY <1>1, <1>2, <1>4, AdjustMoved

\* An input goes out, one more than before and no more than allowed.
LEMMA ActsStep ==
  ASSUME AdjustInv, NEW strategy \in {"direct", "steps", "coordinate", "gesture"},
         Acts(strategy), NEW n, adj' = n, n \in Adjustment, n.tries = adj.tries + 1,
         n.cached = adj.cached, n.current = adj.current, n.observed = adj.observed,
         n.within = adj.within, n.result \in {adj.result, "failed"}
  PROVE  AdjustInv'
<1>1. adj \in Adjustment /\ goal \in Goals /\ ~Within(adj.cached) /\ adj.result # "converged"
      /\ ~Within(adj.current) /\ ~Within(adj.observed) /\ ~adj.within /\ adj.tries < goal.limit
  BY DEF AdjustInv, Acts, CanTry
<1>2. goal.limit \in Nat /\ adj.tries \in Nat
  BY <1>1, HighestAssumption DEF Goals, Adjustment
<1>3. n.tries <= goal.limit
  BY <1>1, <1>2
<1>4. AdjustMoves(n)
  BY <1>1, <1>3 DEF AdjustMoves
<1>5. UNCHANGED goal /\ latest' \in Levels \cup {Unknown}
  BY DEF Acts
<1> QED BY <1>4, <1>5, AdjustMoved

\* The four ways to act: direct, a step, a tap at a point, a gesture.
LEMMA InputsStep ==
  ASSUME AdjustInv, NEW ok \in BOOLEAN,
         DirectAct(ok) \/ StepAct(ok) \/ TapAct(ok) \/ SwipeAct(ok)
  PROVE  AdjustInv'
<1>1. adj \in Adjustment /\ adj.tries + 1 \in Nat /\ adj.probe + 1 \in Nat
  BY DEF AdjustInv, Adjustment
<1>2. ASSUME NEW strategy \in {"direct", "steps", "coordinate", "gesture"}, Acts(strategy),
             NEW at \in AdjustPlaces, NEW probe \in Nat, NEW pending \in BOOLEAN,
             NEW result \in {adj.result, "failed"},
             adj' = [adj EXCEPT !.tries = adj.tries + 1, !.at = at, !.probe = probe,
                                !.pending = pending, !.result = result]
      PROVE  AdjustInv'
  <2>1. result \in {"none", "failed", "converged"}
    BY <1>1 DEF Adjustment
  <2>2. PICK n : n = [adj EXCEPT !.tries = adj.tries + 1, !.at = at, !.probe = probe,
                                 !.pending = pending, !.result = result]
    OBVIOUS
  <2>3. /\ n \in Adjustment /\ n.tries = adj.tries + 1 /\ n.cached = adj.cached
        /\ n.current = adj.current /\ n.observed = adj.observed /\ n.within = adj.within
        /\ n.result = result
    BY <1>1, <1>2, <2>1, <2>2 DEF Adjustment
  <2> QED BY <1>2, <2>2, <2>3, ActsStep
<1>3. adj.probe \in Nat /\ adj.pending \in BOOLEAN
  BY <1>1 DEF Adjustment
<1>4. CASE DirectAct(ok)
  <2>1. PICK at \in AdjustPlaces : adj' = [adj EXCEPT !.tries = adj.tries + 1, !.at = at]
    BY <1>4 DEF DirectAct, AdjustPlaces
  <2>2. adj' = [adj EXCEPT !.tries = adj.tries + 1, !.at = at, !.probe = adj.probe,
                           !.pending = adj.pending, !.result = adj.result]
    BY <1>1, <2>1 DEF Adjustment
  <2>3. Acts("direct")
    BY <1>4 DEF DirectAct
  <2> QED BY <1>2, <1>3, <2>2, <2>3
<1>5. CASE StepAct(ok)
  <2>1. PICK at \in AdjustPlaces : adj' = [adj EXCEPT !.tries = adj.tries + 1, !.at = at]
    BY <1>5 DEF StepAct, AdjustPlaces
  <2>2. adj' = [adj EXCEPT !.tries = adj.tries + 1, !.at = at, !.probe = adj.probe,
                           !.pending = adj.pending, !.result = adj.result]
    BY <1>1, <2>1 DEF Adjustment
  <2>3. Acts("steps")
    BY <1>5 DEF StepAct
  <2> QED BY <1>2, <1>3, <2>2, <2>3
<1>6. CASE TapAct(ok)
  <2>1. PICK at \in AdjustPlaces :
          adj' = [adj EXCEPT !.tries = adj.tries + 1, !.probe = adj.probe + 1, !.at = at]
    BY <1>6 DEF TapAct, AdjustPlaces
  <2>2. adj' = [adj EXCEPT !.tries = adj.tries + 1, !.at = at, !.probe = adj.probe + 1,
                           !.pending = adj.pending, !.result = adj.result]
    BY <1>1, <2>1 DEF Adjustment
  <2>3. Acts("coordinate")
    BY <1>6 DEF TapAct
  <2> QED BY <1>1, <1>2, <1>3, <2>2, <2>3
<1>7. CASE SwipeAct(ok)
  <2>1. Acts("gesture")
    BY <1>7 DEF SwipeAct
  <2>2. PICK s : s = [adj EXCEPT !.tries = adj.tries + 1, !.pending = FALSE]
    OBVIOUS
  <2>3. adj' = IF ok THEN [s EXCEPT !.at = "readSwipe"] ELSE Finished(s, "failed")
    BY <1>7, <2>2 DEF SwipeAct
  <2>4. CASE ok
    <3>1. adj' = [adj EXCEPT !.tries = adj.tries + 1, !.at = "readSwipe", !.probe = adj.probe,
                             !.pending = FALSE, !.result = adj.result]
      BY <1>1, <2>2, <2>3, <2>4 DEF Adjustment
    <3> QED BY <1>2, <1>3, <2>1, <3>1 DEF AdjustPlaces
  <2>5. CASE ~ok
    <3>1. adj' = [adj EXCEPT !.tries = adj.tries + 1, !.at = "done", !.probe = adj.probe,
                             !.pending = FALSE, !.result = "failed"]
      BY <1>1, <2>2, <2>3, <2>5 DEF Adjustment, Finished
    <3> QED BY <1>2, <1>3, <2>1, <3>1 DEF AdjustPlaces
  <2> QED BY <2>4, <2>5
<1> QED BY <1>4, <1>5, <1>6, <1>7

\* What is read back ends the call when it is within the tolerance; what cannot be read
\* leaves the value of before.  (verifyControl)
LEMMA ReadBackStep ==
  ASSUME AdjustInv, NEW value \in Levels \cup {Unknown}, ReadBack(value)
  PROVE  AdjustInv'
<1>1. /\ adj \in Adjustment /\ adj.tries <= goal.limit /\ ~Within(adj.cached)
      /\ adj.result # "converged" /\ ~Within(adj.current)
      /\ adj.at \in {"readDirect", "readStep", "readTap", "readSwipe"}
      /\ latest' = value /\ UNCHANGED goal
  BY DEF AdjustInv, AdjustIsHonest, ReadBack
<1>2. PICK within : within = Within(value)
  OBVIOUS
<1>3. within \in BOOLEAN
  BY <1>2, Zenon DEF Within
<1>4. PICK observed : observed = IF value = Unknown THEN adj.current ELSE value
  OBVIOUS
<1>5. observed \in Levels \cup {Unknown} /\ (~within => ~Within(observed))
      /\ (within => observed = value)
  BY <1>1, <1>2, <1>4, UnknownIsOut DEF Adjustment
<1>6. PICK s : s = [adj EXCEPT !.observed = observed, !.within = within]
  OBVIOUS
<1>7. /\ s \in Adjustment /\ s.tries = adj.tries /\ s.cached = adj.cached /\ s.at = adj.at
      /\ s.current = adj.current /\ s.observed = observed /\ s.within = within
      /\ s.result = adj.result
  BY <1>1, <1>3, <1>5, <1>6 DEF Adjustment
<1>8. adj' = ReadsBack(value, s)
  BY <1>2, <1>4, <1>6 DEF ReadBack, Verified
<1>9. CASE Within(value)
  <2>1. adj' = Finished(s, "converged")
    BY <1>1, <1>8, <1>9 DEF ReadsBack
  <2>2. adj' = [s EXCEPT !.at = "done", !.result = "converged"]
    BY <2>1 DEF Finished
  <2>3. adj' \in Adjustment /\ adj'.at = "done" /\ adj'.observed = s.observed
        /\ adj'.tries = s.tries /\ adj'.cached = s.cached
    BY <1>7, <2>2 DEF Adjustment, AdjustPlaces
  <2>4. adj'.observed = latest' /\ adj'.tries = adj.tries /\ ~Within(adj'.cached)
        /\ Within(latest')
    BY <1>1, <1>2, <1>5, <1>7, <1>9, <2>3
  <2> QED BY <1>1, <2>3, <2>4, AdjustConverged
<1>10. CASE ~Within(value)
  <2>1. ~within /\ ~Within(observed)
    BY <1>2, <1>5, <1>10
  <2>2. ASSUME NEW pending \in BOOLEAN, NEW cached \in Levels \cup {Unknown}, ~Within(cached),
               NEW at \in AdjustPlaces, NEW n,
               n = [s EXCEPT !.pending = pending, !.cached = cached, !.at = at]
        PROVE  AdjustMoves(n)
    <3>1. /\ n \in Adjustment /\ n.tries = s.tries /\ n.cached = cached
          /\ n.current = s.current /\ n.observed = s.observed /\ n.within = s.within
          /\ n.result = s.result
      BY <1>7, <2>2 DEF Adjustment
    <3> QED BY <1>1, <1>7, <2>1, <2>2, <3>1 DEF AdjustMoves
  <2>3. ASSUME NEW t, t \in {s, [s EXCEPT !.pending = TRUE]}
        PROVE  AdjustMoves(Again(t))
    <3>1. PICK n : n = [t EXCEPT !.cached = Unknown]
      OBVIOUS
    <3>2. n \in Adjustment /\ n.tries = s.tries /\ n.cached = Unknown /\ n.result = s.result
      BY <1>7, <2>3, <3>1 DEF Adjustment
    <3>3. AdjustMoves(NextRound(n))
      BY <1>1, <1>7, <3>2, UnknownIsOut, AdjustEnds
    <3> QED BY <3>1, <3>3 DEF Again
  <2>4. AdjustMoves(ReadsBack(value, s))
    <3>1. CASE adj.at \in {"readDirect", "readStep"} /\ ~CanTry
      <4>1. PICK at \in AdjustPlaces :
              ReadsBack(value, s) = [s EXCEPT !.cached = Unknown, !.at = at]
        BY <1>10, <3>1 DEF ReadsBack, AdjustPlaces
      <4>2. ReadsBack(value, s)
              = [s EXCEPT !.pending = s.pending, !.cached = Unknown, !.at = at]
        BY <1>7, <4>1 DEF Adjustment
      <4>3. s.pending \in BOOLEAN
        BY <1>7 DEF Adjustment
      <4> QED BY <2>2, <4>2, <4>3, UnknownIsOut
    <3>2. CASE adj.at \in {"readDirect", "readStep"} /\ CanTry
      BY <1>10, <2>3, <3>2 DEF ReadsBack
    <3>3. CASE adj.at = "readTap" /\ CanTry
      BY <1>10, <2>3, <3>3 DEF ReadsBack
    <3>4. CASE adj.at = "readTap" /\ ~CanTry
      <4>1. ReadsBack(value, s) =
              [s EXCEPT !.pending = TRUE, !.cached = Unknown, !.at = "coordinate"]
        BY <1>10, <3>4 DEF ReadsBack
      <4>2. "coordinate" \in AdjustPlaces
        BY DEF AdjustPlaces
      <4> QED BY <2>2, <4>1, <4>2, UnknownIsOut
    <3>5. CASE adj.at = "readSwipe"
      <4>1. ReadsBack(value, s) = [s EXCEPT !.at = "settle"]
        BY <1>10, <3>5 DEF ReadsBack
      <4>2. ReadsBack(value, s)
              = [s EXCEPT !.pending = s.pending, !.cached = s.cached, !.at = "settle"]
        BY <1>7, <4>1 DEF Adjustment
      <4>3. s.pending \in BOOLEAN /\ s.cached \in Levels \cup {Unknown} /\ ~Within(s.cached)
        BY <1>1, <1>7 DEF Adjustment
      <4>4. "settle" \in AdjustPlaces
        BY DEF AdjustPlaces
      <4> QED BY <2>2, <4>2, <4>3, <4>4
    <3> QED BY <1>1, <3>1, <3>2, <3>3, <3>4, <3>5
  <2> QED BY <1>1, <1>8, <2>4, AdjustMoved
<1> QED BY <1>9, <1>10

\* A round that has used up its ways: what it read last is kept for the next one.
LEMMA SettleStep == ASSUME AdjustInv, Settle PROVE AdjustInv'
<1>1. /\ adj \in Adjustment /\ adj.tries <= goal.limit /\ latest \in Levels \cup {Unknown}
      /\ adj.result # "converged" /\ ~Within(adj.observed) /\ ~adj.within
      /\ UNCHANGED <<goal, latest>>
  BY DEF AdjustInv, AdjustIsHonest, Settle
<1>2. PICK kept : kept = IF goal.labeled THEN Unknown ELSE adj.observed
  OBVIOUS
<1>3. kept \in Levels \cup {Unknown} /\ ~Within(kept)
  BY <1>1, <1>2, UnknownIsOut DEF Adjustment
<1>4. PICK s : s = [adj EXCEPT !.cached = kept]
  OBVIOUS
<1>5. s \in Adjustment /\ s.tries = adj.tries /\ s.cached = kept /\ s.result = adj.result
  BY <1>1, <1>3, <1>4 DEF Adjustment
<1>6. adj' = NextRound(s)
  BY <1>1, <1>2, <1>4 DEF Settle
<1>7. AdjustMoves(NextRound(s))
  BY <1>1, <1>3, <1>5, AdjustEnds
<1> QED BY <1>1, <1>6, <1>7, AdjustMoved

LEMMA AdjustStart == AdjustInit => AdjustInv
<1> SUFFICES ASSUME AdjustInit PROVE AdjustInv
  OBVIOUS
<1>1. /\ adj \in Adjustment /\ adj.tries = 0 /\ adj.cached = Unknown /\ adj.at = "prepare"
      /\ adj.result = "none"
  BY DEF AdjustInit, Adjustment, AdjustPlaces
<1>2. goal \in Goals /\ goal.limit \in Nat /\ latest = Unknown
  BY HighestAssumption DEF AdjustInit, Goals
<1> QED BY <1>1, <1>2, UnknownIsOut DEF AdjustInv, AdjustIsHonest

LEMMA AdjustStep == AdjustInv /\ [AdjustNext]_adjustVars => AdjustInv'
<1> SUFFICES ASSUME AdjustInv, [AdjustNext]_adjustVars PROVE AdjustInv'
  OBVIOUS
<1>1. CASE UNCHANGED adjustVars
  BY <1>1 DEF adjustVars, AdjustInv, AdjustIsHonest, Within, Tolerance, Distance, Target
<1>2. CASE DirectPasses \/ StepPasses \/ TapPasses \/ SwipePasses
  BY <1>2, PassesStep DEF DirectPasses, StepPasses, TapPasses, SwipePasses
<1> QED BY <1>1, <1>2, FoundStep, GivesUpStep, InputsStep, ReadBackStep, SettleStep
        DEF AdjustNext

\* A control reported converged was read within the tolerance after the last input, the
\* value reported is the one read then, and no more inputs were sent than allowed.
\* (attempt 15-34, prepareIteration 140-143, verifyControl 5-15)
THEOREM AdjustsHonestly == AdjustSpec => []AdjustIsHonest
<1>1. AdjustInv => AdjustIsHonest
  BY DEF AdjustInv
<1> QED BY <1>1, AdjustStart, AdjustStep, PTL DEF AdjustSpec

----------------------------------------------------------------------------
(* Operations on an app *)

AppCommands == {"install", "idb", "push", "pm", "rm", "launch", "stop", "clear"}

ManagedApp == [app : {"none", "before"} \cup Artifacts, process : {"none", "old", "new"},
               data : {"kept", "cleared"}, pushed : BOOLEAN]

\* The steps that an operation has.
StepsOf(c) ==
  IF c.op = "start" THEN {"launch", "launch again"}
  ELSE IF c.op = "terminate" THEN {"stop", "stop again"}
  ELSE IF c.op = "restart" THEN {"stop", "stop again", "launch", "launch again"}
  ELSE IF c.op = "reset" /\ c.os = "android" THEN {"clear", "clear again"}
  ELSE IF c.op = "reset" THEN {"stop", "stop again", "container"}
  ELSE IF c.op = "build" THEN {"gradle", "discover", "xcodebuild", "find"}
  ELSE {"prepare", "gradle", "discover", "xcodebuild", "find", "install", "install -t", "push",
        "pm", "pm -t", "rm", "install again", "push again", "pm again", "idb"}

Operations == {"start", "terminate", "restart", "reset", "install", "build", "build_install"}

ManageSteps ==
  {"launch", "launch again", "stop", "stop again", "clear", "clear again", "container",
   "prepare", "gradle", "discover", "xcodebuild", "find", "install", "install -t", "push",
   "pm", "pm -t", "rm", "install again", "push again", "pm again", "idb"}

WorkType == [step : ManageSteps, artifact : {"none"} \cup Artifacts, built : {"no", "ok"},
             attempt : Nat, stopped : BOOLEAN, installed : BOOLEAN]

ManageType ==
  /\ appCall.op \in Operations /\ appCall.os \in {"android", "ios"}
  /\ phone \in ManagedApp
  /\ leftovers \subseteq AppCommands
  /\ work \in WorkType
  /\ appReply \in {"none", "success", "failure"}

\* What the call remembers is so: an apk was pushed only of an artefact, a package
\* manager that succeeded has installed it, what a build tool left comes from one that
\* succeeded, and no stop is under way once one was seen to succeed.
Remembers ==
  /\ work.step \in StepsOf(appCall)
  /\ phone.pushed => work.artifact # "none"
  /\ work.installed => work.step = "rm" /\ phone.app = work.artifact
  /\ work.artifact \in {"fresh", "foreign"} \/ work.step = "find" => work.built = "ok"
  /\ work.stopped => work.step \in {"launch", "launch again"} /\ phone.process # "old"
                     /\ "stop" \notin leftovers
  /\ work.step = "stop" /\ appReply = "none" => "stop" \notin leftovers

ManageInv == ManageType /\ Remembers /\ ManageIsHonest

\* What any command may do: an app that changes becomes the artefact of the call, no
\* process of before the call comes back, and no data does.
CommandRuns(c) ==
  /\ appCall' = appCall
  /\ phone' \in ManagedApp
  /\ phone'.app # phone.app => phone'.app = work.artifact /\ work.artifact # "none"
  /\ phone'.process = "old" => phone.process = "old"
  /\ phone.data = "cleared" => phone'.data = "cleared"
  /\ phone'.pushed => work.artifact # "none"
  /\ leftovers' \subseteq leftovers \cup {c}

\* The effect of a command, whether it comes at once or late.
LEMMA EffectRuns ==
  ASSUME ManageInv, NEW c \in AppCommands, CanWork(c, phone)
  PROVE  LET n == Effect(c, phone)
         IN  /\ n \in ManagedApp
             /\ n.app # phone.app => n.app = work.artifact /\ work.artifact # "none"
             /\ n.process = "old" => phone.process = "old"
             /\ phone.data = "cleared" => n.data = "cleared"
             /\ n.pushed => work.artifact # "none"
             /\ c \in {"install", "idb", "pm"} => n.app = work.artifact
             /\ c = "stop" => n.process = "none"
             /\ c = "clear" => n.data = "cleared"
             /\ c = "launch" => n.app # "none"
<1>1. /\ phone \in ManagedApp /\ work.artifact \in {"none"} \cup Artifacts
      /\ phone.pushed => work.artifact # "none"
  BY DEF ManageInv, ManageType, Remembers, WorkType
<1>2. CASE c \in {"install", "idb"}
  <2>1. Effect(c, phone) = [phone EXCEPT !.app = work.artifact, !.process = "none"]
    BY <1>2 DEF Effect
  <2>2. work.artifact # "none"
    BY <1>2 DEF CanWork
  <2> QED BY <1>1, <1>2, <2>1, <2>2 DEF ManagedApp
<1>3. CASE c = "pm"
  <2>1. Effect(c, phone) = [phone EXCEPT !.app = work.artifact, !.process = "none"]
    BY <1>3 DEF Effect
  <2>2. work.artifact # "none"
    BY <1>1, <1>3 DEF CanWork
  <2> QED BY <1>1, <1>3, <2>1, <2>2 DEF ManagedApp
<1>4. CASE c = "push"
  <2>1. Effect(c, phone) = [phone EXCEPT !.pushed = TRUE] /\ work.artifact # "none"
    BY <1>4 DEF Effect, CanWork
  <2> QED BY <1>1, <1>4, <2>1 DEF ManagedApp
<1>5. CASE c = "rm"
  <2>1. Effect(c, phone) = [phone EXCEPT !.pushed = FALSE]
    BY <1>5 DEF Effect
  <2> QED BY <1>1, <1>5, <2>1 DEF ManagedApp
<1>6. CASE c = "launch"
  <2>1. PICK p \in {"none", "old", "new"} :
          /\ Effect(c, phone) = [phone EXCEPT !.process = p]
          /\ p = "old" => phone.process = "old"
    BY <1>1, <1>6 DEF Effect, ManagedApp
  <2>2. phone.app # "none"
    BY <1>6 DEF CanWork
  <2> QED BY <1>1, <1>6, <2>1, <2>2 DEF ManagedApp
<1>7. CASE c = "stop"
  <2>1. Effect(c, phone) = [phone EXCEPT !.process = "none"]
    BY <1>7 DEF Effect
  <2> QED BY <1>1, <1>7, <2>1 DEF ManagedApp
<1>8. CASE c = "clear"
  <2>1. Effect(c, phone) = [phone EXCEPT !.data = "cleared", !.process = "none"]
    BY <1>8 DEF Effect
  <2> QED BY <1>1, <1>8, <2>1 DEF ManagedApp
<1> QED BY <1>2, <1>3, <1>4, <1>5, <1>6, <1>7, <1>8 DEF AppCommands

\* A command of the call, with what its success tells.
LEMMA RunsFacts ==
  ASSUME ManageInv, NEW c \in AppCommands, NEW r \in Results, Runs(c, r)
  PROVE  /\ CommandRuns(c)
         /\ r \in {"ok", "failed", "test_only"} => leftovers' = leftovers
         /\ r = "ok" => /\ c \in {"install", "idb", "pm"} => phone'.app = work.artifact
                        /\ c = "stop" => phone'.process = "none"
                        /\ c = "clear" => phone'.data = "cleared"
                        /\ c = "launch" => phone'.app # "none"
<1>1. CASE r = "ok"
  <2>1. phone' = Effect(c, phone) /\ CanWork(c, phone) /\ leftovers' = leftovers
        /\ appCall' = appCall
    BY <1>1 DEF Runs
  <2> QED BY <1>1, <2>1, EffectRuns DEF CommandRuns
<1>2. CASE r # "ok"
  <2>1. /\ phone' = phone /\ appCall' = appCall /\ leftovers' \subseteq leftovers \cup {c}
        /\ r \in {"failed", "test_only"} => leftovers' = leftovers
    BY <1>2 DEF Runs
  <2>2. CommandRuns(c)
    BY <2>1 DEF CommandRuns, ManageInv, ManageType, Remembers
  <2> QED BY <1>2, <2>1, <2>2 DEF Results
<1> QED BY <1>1, <1>2

\* A turn without a command.
LEMMA QuietRuns == ASSUME ManageInv, Quietly PROVE CommandRuns("rm") /\ leftovers' = leftovers
BY DEF Quietly, CommandRuns, ManageInv, ManageType, Remembers

\* The call goes on to another of its steps.
LEMMA CallGoesOn ==
  ASSUME ManageInv, NEW c \in AppCommands, CommandRuns(c), UNCHANGED appReply, appReply = "none",
         NEW step \in StepsOf(appCall), step \in ManageSteps, step # "stop",
         work' = [work EXCEPT !.step = step],
         step = "find" => work.built = "ok",
         work.stopped => step = "launch again" /\ c # "stop", ~work.installed
  PROVE  ManageInv'
<1>1. work' \in WorkType /\ work'.step = step /\ work'.artifact = work.artifact
      /\ work'.built = work.built /\ work'.stopped = work.stopped
      /\ work'.installed = work.installed
  BY DEF ManageInv, ManageType, WorkType
<1>2. ManageType'
  BY <1>1 DEF ManageInv, ManageType, CommandRuns
<1>3. Remembers'
  <2>1. work.stopped => phone'.process # "old" /\ "stop" \notin leftovers'
    BY DEF ManageInv, Remembers, CommandRuns
  <2> QED BY <1>1, <2>1 DEF ManageInv, Remembers, CommandRuns
<1>4. ManageIsHonest'
  <2>1. appReply' # "success"
    OBVIOUS
  <2> QED BY <2>1 DEF ManageIsHonest
<1> QED BY <1>2, <1>3, <1>4 DEF ManageInv

\* The call is answered.
LEMMA AnswerGiven ==
  ASSUME ManageInv, NEW c \in AppCommands, CommandRuns(c), NEW ok \in BOOLEAN, AppAnswer(ok),
         c = "stop" => ~work.stopped,
         ok => ManageIsHonest'
  PROVE  ManageInv'
<1>1. work' = work /\ appReply' = (IF ok THEN "success" ELSE "failure")
  BY DEF AppAnswer
<1>2. ManageType'
  BY <1>1 DEF ManageInv, ManageType, CommandRuns
<1>3. Remembers'
  <2>1. appReply' # "none"
    BY <1>1
  <2> QED BY <1>1, <2>1 DEF ManageInv, Remembers, CommandRuns, ManageType, ManagedApp
<1>4. ~ok => ManageIsHonest'
  BY <1>1 DEF ManageIsHonest
<1> QED BY <1>2, <1>3, <1>4 DEF ManageInv

\* The steps that start or restart an app.  (startApp, restartApp)
LEMMA LaunchSteps ==
  ASSUME ManageInv, NEW r \in Results, Launch(r) \/ LaunchAgain(r)
  PROVE  ManageInv'
<1>1. Runs("launch", r) /\ "launch" \in AppCommands /\ appReply = "none"
  BY DEF Launch, LaunchAgain, AppCommands, At
<1>2. /\ CommandRuns("launch")
      /\ r \in {"ok", "failed", "test_only"} => leftovers' = leftovers
      /\ r = "ok" => phone'.app # "none"
  BY <1>1, RunsFacts
<1>3. /\ appCall.op \in {"start", "restart"} /\ ~work.installed
      /\ work.step \in {"launch", "launch again"}
  BY DEF Launch, LaunchAgain, At, ManageInv, Remembers, StepsOf
<1>4. CASE r = "ok" /\ AppAnswer(TRUE)
  <2>1. work' = work /\ appCall' = appCall
    BY <1>2, <1>4 DEF AppAnswer, CommandRuns
  <2>2. work.artifact \in {"fresh", "foreign"} => work.built = "ok"
    BY DEF ManageInv, Remembers
  <2>3. work.stopped => phone'.process # "old" /\ "stop" \notin leftovers'
    BY <1>2, <1>4 DEF ManageInv, Remembers, CommandRuns
  <2>4. ManageIsHonest'
    BY <1>2, <1>3, <1>4, <2>1, <2>2, <2>3 DEF ManageIsHonest, IsInstallation
  <2> QED BY <1>1, <1>2, <1>4, <2>4, AnswerGiven
<1>5. CASE AppAnswer(FALSE)
  BY <1>1, <1>2, <1>5, AnswerGiven
<1>6. CASE work.step = "launch" /\ Go("launch again")
  <2>1. "launch again" \in StepsOf(appCall) /\ "launch again" \in ManageSteps
    BY <1>3 DEF StepsOf, ManageSteps
  <2> QED BY <1>1, <1>2, <1>3, <1>6, <2>1, CallGoesOn DEF Go
<1> QED
  <2>1. CASE r = "ok"
    BY <1>4, <1>5, <2>1 DEF Launch, LaunchAgain, Launched
  <2>2. CASE r # "ok"
    BY <1>5, <1>6, <2>2 DEF Launch, LaunchAgain, Launched, At
  <2> QED BY <2>1, <2>2

\* The steps that stop an app.  (terminateApp, restartApp, resetAppData)
LEMMA StopSteps ==
  ASSUME ManageInv, NEW r \in Results, Stop(r) \/ StopAgain(r)
  PROVE  ManageInv'
<1>1. Runs("stop", r) /\ "stop" \in AppCommands /\ appReply = "none"
  BY DEF Stop, StopAgain, AppCommands, At
<1>2. /\ CommandRuns("stop")
      /\ r \in {"ok", "failed", "test_only"} => leftovers' = leftovers
      /\ r = "ok" => phone'.process = "none"
  BY <1>1, RunsFacts
<1>3. /\ appCall.op \in {"terminate", "restart", "reset"} /\ ~work.installed /\ ~work.stopped
      /\ appCall.op = "reset" => appCall.os = "ios"
      /\ work.step \in {"stop", "stop again"}
  BY DEF Stop, StopAgain, At, ManageInv, ManageType, Remembers, StepsOf
<1>4. ASSUME NEW ok \in BOOLEAN, Stopped(ok), ok => r = "ok" /\ work.step = "stop"
      PROVE ManageInv'
  <2>1. CASE appCall.op = "terminate"
    <3>1. AppAnswer(ok)
      BY <1>4, <2>1 DEF Stopped
    <3>2. work' = work /\ appCall' = appCall
      BY <1>2, <3>1 DEF AppAnswer, CommandRuns
    <3>3. work.artifact \in {"fresh", "foreign"} => work.built = "ok"
      BY DEF ManageInv, Remembers
    <3>4. ok => ManageIsHonest'
      BY <1>2, <1>4, <2>1, <3>2, <3>3 DEF ManageIsHonest, IsInstallation
    <3> QED BY <1>1, <1>2, <1>3, <3>1, <3>4, AnswerGiven
  <2>2. CASE appCall.op = "reset"
    <3>1. Go("container")
      BY <1>4, <2>2 DEF Stopped
    <3>2. "container" \in StepsOf(appCall) /\ "container" \in ManageSteps
      BY <1>3, <2>2 DEF StepsOf, ManageSteps
    <3> QED BY <1>1, <1>2, <1>3, <3>1, <3>2, CallGoesOn DEF Go
  <2>3. CASE appCall.op = "restart"
    <3>1. work' = [work EXCEPT !.step = "launch", !.stopped = ok] /\ appReply' = appReply
      BY <1>4, <2>3 DEF Stopped
    <3>2. /\ work' \in WorkType /\ work'.step = "launch" /\ work'.artifact = work.artifact
          /\ work'.built = work.built /\ work'.stopped = ok /\ work'.installed = work.installed
      BY <3>1 DEF ManageInv, ManageType, WorkType, ManageSteps
    <3>3. ManageType'
      BY <1>1, <1>2, <3>1, <3>2 DEF ManageInv, ManageType, CommandRuns
    <3>4. ok => phone'.process # "old" /\ leftovers' = leftovers /\ phone'.process = "none"
      BY <1>2, <1>4
    <3>5. "launch" \in StepsOf(appCall)'
      BY <1>2, <2>3 DEF StepsOf, CommandRuns
    <3>6. ok => "stop" \notin leftovers'
      BY <1>1, <1>4, <3>4 DEF ManageInv, Remembers
    <3>7. Remembers'
      BY <1>2, <1>3, <3>2, <3>4, <3>5, <3>6 DEF ManageInv, Remembers, CommandRuns
    <3>8. ManageIsHonest'
      <4>1. appReply' # "success"
        BY <1>1, <3>1
      <4> QED BY <4>1 DEF ManageIsHonest
    <3> QED BY <3>3, <3>7, <3>8 DEF ManageInv
  <2> QED BY <1>3, <2>1, <2>2, <2>3
<1>5. CASE work.step = "stop" /\ Go("stop again")
  <2>1. "stop again" \in StepsOf(appCall) /\ "stop again" \in ManageSteps
    BY <1>3 DEF StepsOf, ManageSteps
  <2> QED BY <1>1, <1>2, <1>3, <1>5, <2>1, CallGoesOn DEF Go
<1> QED
  <2>1. CASE r = "ok"
    BY <1>4, <1>5, <2>1 DEF Stop, StopAgain, At
  <2>2. CASE r # "ok"
    <3>1. (r = "ok") = FALSE
      BY <2>2
    <3> QED BY <1>4, <1>5, <3>1 DEF Stop, StopAgain, At
  <2> QED BY <2>1, <2>2

\* The steps that clear an app's data.  (resetAppData)
LEMMA ClearSteps ==
  ASSUME ManageInv, NEW r \in Results, Clear(r) \/ ClearAgain(r)
  PROVE  ManageInv'
<1>1. Runs("clear", r) /\ "clear" \in AppCommands /\ appReply = "none"
  BY DEF Clear, ClearAgain, AppCommands, At
<1>2. CommandRuns("clear") /\ (r = "ok" => phone'.data = "cleared")
  BY <1>1, RunsFacts
<1>3. /\ appCall.op = "reset" /\ appCall.os = "android" /\ ~work.installed /\ ~work.stopped
      /\ work.step \in {"clear", "clear again"}
  BY DEF Clear, ClearAgain, At, ManageInv, ManageType, Remembers, StepsOf
<1>4. CASE r = "ok" /\ AppAnswer(TRUE)
  <2>1. work' = work /\ appCall' = appCall
    BY <1>2, <1>4 DEF AppAnswer, CommandRuns
  <2>2. work.artifact \in {"fresh", "foreign"} => work.built = "ok"
    BY DEF ManageInv, Remembers
  <2>3. ManageIsHonest'
    BY <1>2, <1>3, <1>4, <2>1, <2>2 DEF ManageIsHonest, IsInstallation
  <2> QED BY <1>1, <1>2, <1>4, <2>3, AnswerGiven
<1>5. CASE AppAnswer(FALSE)
  BY <1>1, <1>2, <1>5, AnswerGiven
<1>6. CASE Go("clear again")
  <2>1. "clear again" \in StepsOf(appCall) /\ "clear again" \in ManageSteps
    BY <1>3 DEF StepsOf, ManageSteps
  <2> QED BY <1>1, <1>2, <1>3, <1>6, <2>1, CallGoesOn DEF Go
<1> QED
  <2>1. CASE r = "ok"
    BY <1>4, <1>5, <2>1 DEF Clear, ClearAgain
  <2>2. CASE r # "ok"
    <3>1. (r = "ok") = FALSE
      BY <2>2
    <3> QED BY <1>5, <1>6, <3>1 DEF Clear, ClearAgain
  <2> QED BY <2>1, <2>2

\* The container of an iOS app is removed, or not; the time of a restart is up.
LEMMA ContainerSteps ==
  ASSUME ManageInv, RestartTimesOut \/ \E found, removed \in BOOLEAN : Container(found, removed)
  PROVE  ManageInv'
<1>1. CASE RestartTimesOut
  <2>1. Quietly /\ AppAnswer(FALSE) /\ appReply = "none" /\ "rm" \in AppCommands
    BY <1>1 DEF RestartTimesOut, At, AppCommands
  <2> QED BY <2>1, QuietRuns, AnswerGiven
<1>2. ASSUME NEW found \in BOOLEAN, NEW removed \in BOOLEAN, Container(found, removed)
      PROVE  ManageInv'
  <2>1. AppAnswer(found) /\ "rm" \in AppCommands /\ appReply = "none" /\ work' = work
        /\ leftovers' = leftovers /\ appCall' = appCall
    BY <1>2 DEF Container, At, AppCommands, AppAnswer
  <2>2. appCall.op = "reset" /\ appCall.os = "ios"
    BY <1>2 DEF Container, At, ManageInv, ManageType, Remembers, StepsOf
  <2>3. phone' \in ManagedApp /\ phone'.app = phone.app /\ phone'.process = phone.process
        /\ phone'.pushed = phone.pushed /\ (phone.data = "cleared" => phone'.data = "cleared")
    <3>1. CASE phone' = phone
      BY <3>1 DEF ManageInv, ManageType
    <3>2. CASE phone' = [phone EXCEPT !.data = "cleared"]
      BY <3>2 DEF ManageInv, ManageType, ManagedApp
    <3> QED BY <1>2, <3>1, <3>2 DEF Container
  <2>4. CommandRuns("rm")
    BY <2>1, <2>3 DEF CommandRuns, ManageInv, Remembers
  <2>5. work.artifact \in {"fresh", "foreign"} => work.built = "ok"
    BY DEF ManageInv, Remembers
  <2>6. ManageIsHonest'
    BY <2>1, <2>2, <2>5 DEF ManageIsHonest, IsInstallation
  <2> QED BY <2>1, <2>4, <2>6, AnswerGiven
<1> QED BY <1>1, <1>2

\* A command that takes effect late, and an app that ends by itself.
LEMMA DeviceSteps == ASSUME ManageInv, LateEffect \/ AppCrashes PROVE ManageInv'
<1>1. /\ appCall' = appCall /\ work' = work /\ appReply' = appReply
      /\ phone' \in ManagedApp /\ leftovers' \subseteq leftovers
      /\ phone'.app # phone.app => phone'.app = work.artifact /\ work.artifact # "none"
      /\ phone'.process = "old" => phone.process = "old"
      /\ phone.data = "cleared" => phone'.data = "cleared"
      /\ phone'.pushed => work.artifact # "none"
  <2>1. CASE LateEffect
    <3>1. PICK c \in leftovers : /\ CanWork(c, phone) /\ phone' = Effect(c, phone)
                                 /\ leftovers' = leftovers \ {c}
                                 /\ UNCHANGED <<appCall, work, appReply>>
      BY <2>1 DEF LateEffect
    <3>2. c \in AppCommands
      BY DEF ManageInv, ManageType
    <3> QED BY <3>1, <3>2, EffectRuns
  <2>2. CASE AppCrashes
    BY <2>2 DEF AppCrashes, ManageInv, ManageType, Remembers, ManagedApp
  <2> QED BY <2>1, <2>2
<1>2. ManageType'
  BY <1>1 DEF ManageInv, ManageType
<1>3. Remembers'
  BY <1>1 DEF ManageInv, Remembers
<1>4. ManageIsHonest'
  <2>1. SUFFICES ASSUME appReply = "success" PROVE ManageIsHonest'
    BY <1>1 DEF ManageIsHonest
  <2>2. ManageIsHonest
    BY DEF ManageInv
  <2>3. IsInstallation => phone'.app = work.artifact
    BY <1>1, <2>1, <2>2 DEF ManageIsHonest
  <2>4. appCall.op = "start" => phone'.app # "none"
    BY <1>1, <2>1, <2>2 DEF ManageIsHonest
  <2>5. appCall.op = "terminate" => phone'.process # "old"
    BY <1>1, <2>1, <2>2 DEF ManageIsHonest
  <2>6. appCall.op = "restart" /\ work.stopped =>
          phone'.process # "old" /\ "stop" \notin leftovers'
    BY <1>1, <2>1, <2>2 DEF ManageIsHonest
  <2>7. appCall.op = "reset" /\ appCall.os = "android" => phone'.data = "cleared"
    BY <1>1, <2>1, <2>2 DEF ManageIsHonest
  <2>8. work.artifact \in {"fresh", "foreign"} \/ appCall.op = "build" => work.built = "ok"
    BY <2>1, <2>2 DEF ManageIsHonest
  <2>9. IsInstallation' <=> IsInstallation
    BY <1>1 DEF IsInstallation
  <2> QED BY <1>1, <2>3, <2>4, <2>5, <2>6, <2>7, <2>8, <2>9 DEF ManageIsHonest
<1> QED BY <1>2, <1>3, <1>4 DEF ManageInv

\* Only the commands of a build and an installation follow.
LEMMA InstallOps ==
  ASSUME ManageInv, appReply = "none",
         work.step \in {"prepare", "gradle", "discover", "xcodebuild", "find", "install",
                        "install -t", "push", "pm", "pm -t", "rm", "install again", "push again",
                        "pm again", "idb"}
  PROVE  /\ appCall.op \in {"install", "build", "build_install"} /\ ~work.stopped
         /\ work.step \notin {"gradle", "discover", "xcodebuild", "find"} => appCall.op # "build"
         /\ work.step # "rm" => ~work.installed
         /\ work.artifact \in {"fresh", "foreign"} \/ work.step = "find" => work.built = "ok"
BY DEF ManageInv, ManageType, Remembers, StepsOf, Operations

\* A build that fails.
LEMMA BuildFailsStep ==
  ASSUME ManageInv, appReply = "none", Quietly, BuildFails,
         work.step \in {"gradle", "discover", "xcodebuild", "find"}
  PROVE  ManageInv'
<1>1. CommandRuns("rm") /\ "rm" \in AppCommands /\ ~work.installed /\ ~work.stopped
  BY QuietRuns, InstallOps DEF AppCommands
<1>2. CASE AppAnswer(FALSE)
  BY <1>1, <1>2, AnswerGiven
<1>3. CASE appCall.op = "install" /\ Go("install again")
  <2>1. "install again" \in StepsOf(appCall) /\ "install again" \in ManageSteps
    BY <1>3 DEF StepsOf, ManageSteps
  <2> QED BY <1>1, <1>3, <2>1, CallGoesOn DEF Go
<1> QED BY <1>2, <1>3 DEF BuildFails

\* A turn of a build or an installation that sets what the call remembers.
LEMMA CallRecords ==
  ASSUME ManageInv, appReply = "none", appReply' = "none", NEW c \in AppCommands, CommandRuns(c),
         work' \in WorkType, ~work.stopped, ~work'.stopped,
         work'.step \in StepsOf(appCall), work'.step # "stop",
         phone'.pushed => work'.artifact # "none",
         work'.installed => work'.step = "rm" /\ phone'.app = work'.artifact,
         work'.artifact \in {"fresh", "foreign"} \/ work'.step = "find" => work'.built = "ok"
  PROVE  ManageInv'
<1>1. ManageType'
  BY DEF ManageInv, ManageType, CommandRuns
<1>2. appCall' = appCall
  BY DEF CommandRuns
<1>3. Remembers'
  BY <1>2 DEF Remembers
<1>4. ManageIsHonest'
  <2>1. appReply' # "success"
    OBVIOUS
  <2> QED BY <2>1 DEF ManageIsHonest
<1> QED BY <1>1, <1>3, <1>4 DEF ManageInv

\* The build tools.  (buildAndroid, buildIOS)
LEMMA BuildSteps ==
  ASSUME ManageInv,
         \/ \E ok \in BOOLEAN : Gradle(ok) \/ Discover(ok)
         \/ \E r \in Builds : Attempt(r)
  PROVE  ManageInv'
<1>1. /\ appReply = "none" /\ Quietly /\ work.step \in {"gradle", "discover", "xcodebuild"}
  BY DEF Gradle, Discover, Attempt, At
<1>2. /\ CommandRuns("rm") /\ "rm" \in AppCommands /\ ~work.installed /\ ~work.stopped
      /\ phone' = phone /\ work \in WorkType
      /\ appCall.op \in {"install", "build", "build_install"}
      /\ work.artifact \in {"fresh", "foreign"} => work.built = "ok"
      /\ phone.pushed => work.artifact # "none"
  BY <1>1, QuietRuns, InstallOps DEF AppCommands, Quietly, ManageInv, ManageType, Remembers
<1>3. CASE BuildFails
  BY <1>1, <1>3, BuildFailsStep
<1>4. CASE work' = [work EXCEPT !.built = "ok", !.step = "find"] /\ UNCHANGED appReply
  <2>1. /\ work' \in WorkType /\ work'.step = "find" /\ work'.built = "ok"
        /\ work'.artifact = work.artifact /\ work'.stopped = work.stopped
        /\ work'.installed = work.installed
    BY <1>2, <1>4 DEF WorkType, ManageSteps
  <2>2. "find" \in StepsOf(appCall)
    BY <1>2 DEF StepsOf
  <2> QED BY <1>1, <1>2, <1>4, <2>1, <2>2, CallRecords
<1>5. CASE work' = [work EXCEPT !.attempt = @ + 1] /\ UNCHANGED appReply
  <2>1. work.attempt + 1 \in Nat
    BY <1>2 DEF WorkType
  <2>2. /\ work' \in WorkType /\ work'.step = work.step /\ work'.built = work.built
        /\ work'.artifact = work.artifact /\ work'.stopped = work.stopped
        /\ work'.installed = work.installed
    BY <1>2, <1>5, <2>1 DEF WorkType
  <2>3. work.step \in StepsOf(appCall)
    BY DEF ManageInv, Remembers
  <2> QED BY <1>1, <1>2, <1>5, <2>2, <2>3, CallRecords
<1>6. CASE Go("xcodebuild")
  <2>1. "xcodebuild" \in StepsOf(appCall) /\ "xcodebuild" \in ManageSteps
    BY <1>2 DEF StepsOf, ManageSteps
  <2> QED BY <1>1, <1>2, <1>6, <2>1, CallGoesOn DEF Go
<1>7. ASSUME NEW r \in Builds, Attempt(r) PROVE ManageInv'
  <2>1. CASE r = "ok"
    BY <1>4, <1>7, <2>1 DEF Attempt
  <2>2. CASE r # "ok" /\ work.attempt < BuildTries
    BY <1>5, <1>7, <2>2 DEF Attempt
  <2>3. CASE r # "ok" /\ ~(work.attempt < BuildTries)
    BY <1>3, <1>7, <2>3 DEF Attempt
  <2> QED BY <2>1, <2>2, <2>3
<1> QED BY <1>3, <1>4, <1>6, <1>7 DEF Gradle, Discover

\* The artefact that the build has left.
LEMMA FindSteps == ASSUME ManageInv, FindArtifact PROVE ManageInv'
<1>1. appReply = "none" /\ Quietly /\ work.step = "find"
  BY DEF FindArtifact, At
<1>2. /\ CommandRuns("rm") /\ "rm" \in AppCommands /\ ~work.installed /\ ~work.stopped
      /\ phone' = phone /\ work \in WorkType /\ work.built = "ok" /\ appCall' = appCall
      /\ appCall.op \in {"install", "build", "build_install"}
  BY <1>1, QuietRuns, InstallOps DEF AppCommands, Quietly, ManageInv, ManageType, Remembers
<1>3. ASSUME NEW a \in Artifacts, BuiltAs(a) PROVE ManageInv'
  <2>1. CASE appCall.op = "build"
    <3>1. AppAnswer(TRUE) /\ work' = work
      BY <1>3, <2>1 DEF BuiltAs, AppAnswer
    <3>2. ManageIsHonest'
      BY <1>2, <2>1, <3>1 DEF ManageIsHonest, IsInstallation
    <3> QED BY <1>1, <1>2, <3>1, <3>2, AnswerGiven
  <2>2. CASE appCall.op # "build"
    <3>1. PICK step \in {"install", "prepare"} :
            work' = [work EXCEPT !.step = step, !.artifact = a] /\ appReply' = appReply
      BY <1>3, <2>2 DEF BuiltAs
    <3>2. /\ work' \in WorkType /\ work'.step = step /\ work'.built = "ok"
          /\ work'.artifact = a /\ work'.stopped = work.stopped
          /\ work'.installed = work.installed
      BY <1>2, <3>1 DEF WorkType, ManageSteps
    <3>3. step \in StepsOf(appCall) /\ a # "none"
      BY <1>2, <2>2 DEF StepsOf, Artifacts
    <3> QED BY <1>1, <1>2, <3>1, <3>2, <3>3, CallRecords
  <2> QED BY <2>1, <2>2
<1>4. {"fresh", "stale"} \cup (IF appCall.os = "ios" THEN {"foreign"} ELSE {}) \subseteq Artifacts
  BY DEF Artifacts
<1> QED BY <1>1, <1>3, <1>4, BuildFailsStep DEF FindArtifact

\* The artefact to install is chosen.  (installApp)
LEMMA PrepareSteps ==
  ASSUME ManageInv, NoTarget \/ PrepareApk \/ PrepareBundle
  PROVE  ManageInv'
<1>1. appReply = "none" /\ Quietly /\ work.step = "prepare"
  BY DEF NoTarget, PrepareApk, PrepareBundle, At
<1>2. /\ CommandRuns("rm") /\ "rm" \in AppCommands /\ ~work.installed /\ ~work.stopped
      /\ phone' = phone /\ work \in WorkType
      /\ appCall.op \in {"install", "build_install"}
      /\ work.artifact \in {"fresh", "foreign"} => work.built = "ok"
      /\ phone.pushed => work.artifact # "none"
  BY <1>1, QuietRuns, InstallOps DEF AppCommands, Quietly, ManageInv, ManageType, Remembers
<1>3. ASSUME NEW a \in Artifacts, Installs(a),
             a \in {"fresh", "foreign"} => a = work.artifact
      PROVE  ManageInv'
  <2>1. work' = [work EXCEPT !.step = "install", !.artifact = a] /\ appReply' = appReply
    BY <1>3 DEF Installs
  <2>2. /\ work' \in WorkType /\ work'.step = "install" /\ work'.built = work.built
        /\ work'.artifact = a /\ work'.stopped = work.stopped
        /\ work'.installed = work.installed
    BY <1>2, <2>1 DEF WorkType, ManageSteps
  <2>3. "install" \in StepsOf(appCall) /\ a # "none"
    BY <1>2 DEF StepsOf, Artifacts
  <2> QED BY <1>1, <1>2, <1>3, <2>1, <2>2, <2>3, CallRecords
<1>4. CASE Installs(Given)
  <2>1. Given \in Artifacts /\ (Given \in {"fresh", "foreign"} => Given = work.artifact)
    BY <1>2 DEF Given, WorkType, Artifacts
  <2> QED BY <1>3, <1>4, <2>1
<1>5. ASSUME NEW step \in {"gradle", "discover"}, Go(step) PROVE ManageInv'
  <2>1. step \in StepsOf(appCall) /\ step \in ManageSteps
    BY <1>2 DEF StepsOf, ManageSteps
  <2> QED BY <1>1, <1>2, <1>5, <2>1, CallGoesOn DEF Go
<1>6. CASE Installs("stale")
  BY <1>3, <1>6 DEF Artifacts
<1>7. CASE AppAnswer(FALSE)
  BY <1>1, <1>2, <1>7, AnswerGiven
<1> QED BY <1>4, <1>5, <1>6, <1>7 DEF NoTarget, PrepareApk, PrepareBundle

\* Where an installation goes on.
InstallGoes == {"install", "install -t", "push", "pm", "pm -t", "rm", "install again",
                "push again", "pm again", "idb"}

\* An installation goes on without a success so far, or is answered.
LEMMA InstallMoves ==
  ASSUME ManageInv, appReply = "none", work.step \in InstallGoes, NEW c \in AppCommands,
         CommandRuns(c)
  PROVE  /\ \A step \in InstallGoes : Go(step) /\ ~work.installed => ManageInv'
         /\ AppAnswer(FALSE) => ManageInv'
         /\ AppAnswer(TRUE) /\ phone'.app = work.artifact => ManageInv'
<1>1. /\ appCall.op \in {"install", "build_install"} /\ ~work.stopped
      /\ work.artifact \in {"fresh", "foreign"} => work.built = "ok"
  BY InstallOps DEF InstallGoes
<1>2. ASSUME NEW step \in InstallGoes, Go(step), ~work.installed PROVE ManageInv'
  <2>1. step \in StepsOf(appCall) /\ step \in ManageSteps /\ step # "find" /\ step # "stop"
    BY <1>1 DEF StepsOf, ManageSteps, InstallGoes
  <2> QED BY <1>1, <1>2, <2>1, CallGoesOn DEF Go
<1>3. ASSUME AppAnswer(FALSE) PROVE ManageInv'
  BY <1>1, <1>3, AnswerGiven
<1>4. ASSUME AppAnswer(TRUE), phone'.app = work.artifact PROVE ManageInv'
  <2>1. work' = work /\ appCall' = appCall
    BY <1>4 DEF AppAnswer, CommandRuns
  <2>2. ManageIsHonest'
    BY <1>1, <1>4, <2>1 DEF ManageIsHonest
  <2> QED BY <1>1, <1>4, <2>2, AnswerGiven
<1> QED BY <1>2, <1>3, <1>4

\* adb install, simctl install, idb.  (installApp)
LEMMA InstallSteps ==
  ASSUME ManageInv, NEW r \in Results,
         \/ Install(r) \/ InstallTestOnly(r) \/ InstallAgain(r) \/ InstallWithIdb(r)
  PROVE  ManageInv'
<1>1. PICK c \in {"install", "idb"} : Runs(c, r)
  BY DEF Install, InstallTestOnly, InstallAgain, InstallWithIdb
<1>2. /\ appReply = "none" /\ work.step \in InstallGoes /\ work.step # "rm"
  BY DEF Install, InstallTestOnly, InstallAgain, InstallWithIdb, At, InstallGoes
<1>3. CommandRuns(c) /\ (r = "ok" => phone'.app = work.artifact) /\ c \in AppCommands
  BY <1>1, RunsFacts DEF AppCommands
<1>4. ~work.installed
  BY <1>2 DEF ManageInv, Remembers
<1>5. CASE r = "ok" /\ AppAnswer(TRUE)
  BY <1>2, <1>3, <1>5, InstallMoves
<1>6. CASE AppAnswer(FALSE)
  BY <1>2, <1>3, <1>6, InstallMoves
<1>7. ASSUME NEW step \in InstallGoes, Go(step) PROVE ManageInv'
  BY <1>2, <1>3, <1>4, <1>7, InstallMoves
<1>8. {"install again", "install -t", "push", "idb", "push again"} \subseteq InstallGoes
  BY DEF InstallGoes
<1> QED
  <2>1. CASE r = "ok"
    BY <1>5, <1>7, <1>8, <2>1 DEF Install, InstallTestOnly, InstallAgain, InstallWithIdb
  <2>2. CASE r # "ok"
    <3>1. (r = "ok") = FALSE
      BY <2>2
    <3>2. CASE Install(r)
      <4>1. CASE appCall.os = "ios"
        BY <1>7, <1>8, <2>2, <3>2, <4>1 DEF Install
      <4>2. CASE r = "test_only" /\ appCall.os = "android"
        BY <1>7, <1>8, <2>2, <3>2, <4>2 DEF Install
      <4>3. CASE r # "test_only" /\ appCall.os = "android"
        BY <1>7, <1>8, <2>2, <3>2, <4>3 DEF Install
      <4> QED BY <4>1, <4>2, <4>3 DEF ManageInv, ManageType
    <3>3. CASE InstallTestOnly(r)
      BY <1>7, <1>8, <2>2, <3>3 DEF InstallTestOnly
    <3>4. CASE InstallAgain(r)
      BY <1>7, <1>8, <3>4 DEF InstallAgain
    <3>5. CASE InstallWithIdb(r)
      BY <1>6, <3>1, <3>5 DEF InstallWithIdb
    <3> QED BY <3>2, <3>3, <3>4, <3>5
  <2> QED BY <2>1, <2>2

\* The way over a copy on the device: push, pm install, and the removal of the copy.
LEMMA CopySteps ==
  ASSUME ManageInv, NEW r \in Results,
         \/ Push(r) \/ PushAgain(r) \/ PmAgain(r) \/ RemoveCopy(r)
         \/ \E step \in {"pm", "pm -t"} : Pm(step, r)
  PROVE  ManageInv'
<1>1. /\ appReply = "none" /\ work.step \in InstallGoes
      /\ work.installed => work.step = "rm" /\ phone.app = work.artifact
      /\ work.artifact \in {"fresh", "foreign"} => work.built = "ok"
      /\ work \in WorkType
  BY DEF Push, PushAgain, PmAgain, RemoveCopy, Pm, At, InstallGoes, ManageInv, ManageType,
         Remembers
<1>2. ASSUME NEW c \in AppCommands, Runs(c, r)
      PROVE  /\ CommandRuns(c) /\ (c = "pm" /\ r = "ok" => phone'.app = work.artifact)
             /\ \A step \in InstallGoes : Go(step) /\ ~work.installed => ManageInv'
             /\ AppAnswer(FALSE) => ManageInv'
             /\ AppAnswer(TRUE) /\ phone'.app = work.artifact => ManageInv'
  <2>1. CommandRuns(c) /\ (c = "pm" /\ r = "ok" => phone'.app = work.artifact)
    BY <1>2, RunsFacts
  <2> QED BY <1>1, <2>1, InstallMoves
<1>3. {"pm", "install again", "pm again", "pm -t"} \subseteq InstallGoes
      /\ {"push", "rm", "pm"} \subseteq AppCommands
  BY DEF InstallGoes, AppCommands
<1>4. CASE Push(r)
  BY <1>1, <1>2, <1>3, <1>4 DEF Push, At
<1>5. CASE PushAgain(r)
  BY <1>1, <1>2, <1>3, <1>5 DEF PushAgain, At
<1>6. CASE PmAgain(r)
  BY <1>2, <1>3, <1>6 DEF PmAgain
<1>7. CASE RemoveCopy(r)
  <2>1. Runs("rm", r)
    BY <1>7 DEF RemoveCopy
  <2>2. work.installed => phone'.app = work.artifact
    BY <1>1, <1>2, <1>3, <2>1 DEF CommandRuns
  <2> QED BY <1>2, <1>3, <1>7, <2>1, <2>2 DEF RemoveCopy
<1>8. ASSUME NEW step \in {"pm", "pm -t"}, Pm(step, r) PROVE ManageInv'
  <2>1. Runs("pm", r) /\ work.step = step /\ ~work.installed /\ PmAfter(step, r)
    BY <1>1, <1>8 DEF Pm, At
  <2>2. CASE Go("pm -t")
    BY <1>2, <1>3, <2>1, <2>2
  <2>3. CASE work' = [work EXCEPT !.step = "rm", !.installed = r = "ok"] /\ UNCHANGED appReply
    <3>1. PICK ok \in BOOLEAN : ok = (r = "ok")
      OBVIOUS
    <3>2. /\ work' \in WorkType /\ work'.step = "rm" /\ work'.built = work.built
          /\ work'.artifact = work.artifact /\ work'.stopped = work.stopped
          /\ work'.installed = ok
      BY <1>1, <2>3, <3>1 DEF WorkType, ManageSteps
    <3>3. CommandRuns("pm") /\ (ok => phone'.app = work.artifact)
      BY <1>2, <1>3, <2>1, <3>1
    <3>4. "rm" \in StepsOf(appCall) /\ ~work.stopped
      BY <1>1, InstallOps DEF StepsOf, InstallGoes, ManageInv, Remembers
    <3>5. phone'.pushed => work.artifact # "none"
      BY <3>3 DEF CommandRuns
    <3> QED BY <1>1, <1>3, <2>3, <3>2, <3>3, <3>4, <3>5, CallRecords
  <2> QED BY <2>1, <2>2, <2>3 DEF PmAfter
<1> QED BY <1>4, <1>5, <1>6, <1>7, <1>8

\* A client that is not there.
LEMMA NoClientSteps == ASSUME ManageInv, PmUnavailable \/ NoIdb PROVE ManageInv'
<1>1. /\ Quietly /\ appReply = "none" /\ work.step \in InstallGoes /\ work.step # "rm"
      /\ "rm" \in AppCommands /\ "install again" \in InstallGoes
  BY DEF PmUnavailable, NoIdb, At, InstallGoes, AppCommands
<1>2. CommandRuns("rm") /\ ~work.installed
  BY <1>1, QuietRuns DEF ManageInv, Remembers
<1> QED BY <1>1, <1>2, InstallMoves DEF PmUnavailable, NoIdb

LEMMA ManageStart == ManageInit => ManageInv
<1> SUFFICES ASSUME ManageInit PROVE ManageInv
  OBVIOUS
<1>1. appCall.op \in Operations /\ appCall.os \in {"android", "ios"}
  BY DEF ManageInit, AppCalls, Operations
<1>2. /\ work.step = FirstStep(appCall) /\ work.artifact = "none" /\ work.built = "no"
      /\ work.attempt = 1 /\ work.stopped = FALSE /\ work.installed = FALSE
      /\ work = [step |-> FirstStep(appCall), artifact |-> "none", built |-> "no",
                 attempt |-> 1, stopped |-> FALSE, installed |-> FALSE]
  BY DEF ManageInit
<1>3. /\ FirstStep(appCall) \in StepsOf(appCall) /\ FirstStep(appCall) \in ManageSteps
      /\ FirstStep(appCall) # "find"
  BY <1>1 DEF FirstStep, StepsOf, ManageSteps, Operations
<1>4. work \in WorkType
  BY <1>2, <1>3 DEF WorkType
<1>5. phone \in ManagedApp /\ phone.pushed = FALSE
  BY DEF ManageInit, ManagedApp
<1>6. leftovers = {} /\ appReply = "none"
  BY DEF ManageInit
<1> QED BY <1>1, <1>2, <1>3, <1>4, <1>5, <1>6 DEF ManageInv, ManageType, Remembers, ManageIsHonest

LEMMA ManageStep == ManageInv /\ [ManageNext]_manageVars => ManageInv'
<1> SUFFICES ASSUME ManageInv, [ManageNext]_manageVars PROVE ManageInv'
  OBVIOUS
<1>1. CASE UNCHANGED manageVars
  BY <1>1 DEF manageVars, ManageInv, ManageType, Remembers, ManageIsHonest, IsInstallation
<1>2. ASSUME NEW r \in Results,
             \/ Launch(r) \/ LaunchAgain(r) \/ Stop(r) \/ StopAgain(r) \/ Clear(r)
             \/ ClearAgain(r) \/ Install(r) \/ InstallTestOnly(r) \/ Push(r) \/ RemoveCopy(r)
             \/ InstallAgain(r) \/ PushAgain(r) \/ PmAgain(r) \/ InstallWithIdb(r)
             \/ \E step \in {"pm", "pm -t"} : Pm(step, r)
      PROVE  ManageInv'
  BY <1>2, LaunchSteps, StopSteps, ClearSteps, InstallSteps, CopySteps
<1> QED BY <1>1, <1>2, ContainerSteps, DeviceSteps, BuildSteps, FindSteps, PrepareSteps,
           NoClientSteps
        DEF ManageNext

\* A reply of success about an app is about this call: what is installed is the artefact
\* the call chose, a build tool that was run has succeeded, no process from before a
\* termination is left, no late force-stop can end a restarted app that was said to have
\* been terminated first, and cleared data is gone.  (installApp, executeBuild,
\* terminateApp, restartApp, resetAppData)
THEOREM ManagesHonestly == ManageSpec => []ManageIsHonest
<1>1. ManageInv => ManageIsHonest
  BY DEF ManageInv
<1> QED BY <1>1, ManageStart, ManageStep, PTL DEF ManageSpec

----------------------------------------------------------------------------
(* Journeys *)

StepResults == [step : Nat, status : {"passed", "failed", "not_run"},
                verification : {"own", "unavailable", "not_requested", "failed", "observed"}]

Sights == {"shown", "unread", "not_shown"}

Performed == [step : Nat, so : Sights, counted : BOOLEAN, paused : BOOLEAN]

UnderWay == [state : {"under_way"}, inARow : {0, 1}, sights : Seq(Sights), samples : Nat]

JourneyType ==
  /\ plan \in Plans
  /\ atStep \in Nat \ {0} /\ stoppedAt \in Nat /\ pendingLightStep \in Nat
  /\ results \in Seq(StepResults) /\ performed \in Seq(Performed)
  /\ stepState = Waiting \/ stepState \in UnderWay
  /\ journeyOutcome \in {"none", "success", "failure"}

\* While no step has failed, each one before the next was executed and passed; a step is
\* executed only then, and the second reading in a row counts only after one that backs
\* what is asserted; afterwards a result says that a step failed, and none that it passed.
\* A tap that is left to an assertion is the last step, and the assertion is next.
Progress ==
  /\ stoppedAt = 0 =>
       /\ Len(results) = atStep - 1 /\ Len(performed) = atStep - 1 /\ atStep <= Len(plan) + 1
       /\ \A i \in 1..(atStep - 1) : results[i].status = "passed"
       /\ pendingLightStep # 0 => pendingLightStep = atStep - 1 /\ plan[atStep].type = "assert"
  /\ stoppedAt # 0 => /\ Len(performed) <= Len(results)
                      /\ \E i \in 1..Len(results) : results[i].status = "failed"
  /\ stepState # Waiting =>
       /\ stoppedAt = 0 /\ atStep <= Len(plan) /\ journeyOutcome = "none"
       /\ stepState.inARow = 1 => /\ stepState.sights # <<>>
                                  /\ Backs(atStep, stepState.sights[Len(stepState.sights)])
  /\ journeyOutcome # "none" => atStep > Len(plan)
  /\ journeyOutcome = "success" => stoppedAt = 0
  /\ journeyOutcome = "failure" => stoppedAt # 0

\* What was executed is what the results say of it.
Accounts ==
  /\ \A k \in 1..Len(performed) :
       /\ performed[k].step = k /\ results[k].step = k
       /\ results[k].status = "passed" => Backs(k, performed[k].so) /\ ~performed[k].paused
       /\ k < Len(performed) => results[k].status = "passed"
  /\ \A i \in 1..Len(results) :
       /\ results[i].status = "passed" => i <= Len(performed)
       /\ results[i].verification = "observed" =>
            i < Len(performed) /\ performed[i + 1].counted

JourneyInv == JourneyType /\ Progress /\ Accounts

\* A sequence with one element more.
LEMMA OneMore ==
  ASSUME NEW S, NEW s \in Seq(S), NEW e \in S
  PROVE  /\ Append(s, e) \in Seq(S) /\ Len(Append(s, e)) = Len(s) + 1
         /\ \A i \in 1..Len(s) : Append(s, e)[i] = s[i]
         /\ Append(s, e)[Len(s) + 1] = e
OBVIOUS

\* A reading that counts shows what is asserted and is fresh, or is of a tree that could
\* not be read, for element_absent.  (compare-state.ts, journey-assertions.ts)
LEMMA CountsShow ==
  ASSUME NEW k, plan[k].type = "assert", NEW s, s = plan[k],
         NEW r \in Sightings(s.kind), Counts(s, r)
  PROVE  Backs(k, Sight(s, r))
<1>1. CASE r.view \in {"as_wanted", "no_tree"}
  BY <1>1 DEF Shows, Sight, Backs, Sightings
<1>2. CASE r.view = "value" /\ ~r.stale /\ Compare(s.property, s.wanted, r.actual)
  <2>1. SameText(s.wanted, r.actual)
    BY <1>2 DEF Compare, CompareBoolean, CompareValue, CompareSelected, CompareText,
                CompareOther, SameText
  <2>2. Shows(s, r)
    BY <1>2, <2>1 DEF Shows
  <2> QED BY <1>2, <2>2 DEF Sight, Backs
<1> QED BY <1>1, <1>2 DEF Counts

\* Two readings that back an assertion do so together.
LEMMA TogetherBack ==
  ASSUME NEW k, NEW a, NEW b, Backs(k, a), Backs(k, b)
  PROVE  Backs(k, Together(a, b)) /\ Together(a, b) \in Sights
BY DEF Backs, Together, Sights

\* The verification of a tap changes nothing else of the results.
LEMMA VerifiedTaps ==
  ASSUME JourneyType, NEW counted \in BOOLEAN
  PROVE  /\ TapsVerified(counted) \in Seq(StepResults)
         /\ Len(TapsVerified(counted)) = Len(results)
         /\ \A i \in 1..Len(results) :
              /\ TapsVerified(counted)[i].step = results[i].step
              /\ TapsVerified(counted)[i].status = results[i].status
              /\ TapsVerified(counted)[i].verification = "observed" =>
                   \/ results[i].verification = "observed"
                   \/ plan[atStep].type = "assert" /\ pendingLightStep = i /\ counted
<1> DEFINE v == TapsVerified(counted)
<1>1. DOMAIN results = 1..Len(results) /\ Len(results) \in Nat
      /\ \A i \in 1..Len(results) : results[i] \in StepResults
  BY DEF JourneyType
<1>2. v = [i \in 1..Len(results) |->
             IF plan[atStep].type = "assert" /\ pendingLightStep = i /\ counted
             THEN [results[i] EXCEPT !.verification = "observed"]
             ELSE results[i]]
  BY <1>1 DEF TapsVerified
<1>3. ASSUME NEW i \in 1..Len(results)
      PROVE  /\ v[i] \in StepResults
             /\ v[i].step = results[i].step /\ v[i].status = results[i].status
             /\ v[i].verification = "observed" =>
                  \/ results[i].verification = "observed"
                  \/ plan[atStep].type = "assert" /\ pendingLightStep = i /\ counted
  <2>1. results[i] \in StepResults
    BY <1>1
  <2>2. CASE plan[atStep].type = "assert" /\ pendingLightStep = i /\ counted
    <3>1. v[i] = [results[i] EXCEPT !.verification = "observed"]
      BY <1>2, <2>2
    <3> QED BY <2>1, <2>2, <3>1 DEF StepResults
  <2>3. CASE ~(plan[atStep].type = "assert" /\ pendingLightStep = i /\ counted)
    <3>1. v[i] = results[i]
      BY <1>2, <2>3
    <3> QED BY <2>1, <3>1
  <2> QED BY <2>2, <2>3
<1>4. v \in [1..Len(results) -> StepResults]
  BY <1>2, <1>3
<1>5. v \in Seq(StepResults) /\ Len(v) = Len(results)
  BY <1>1, <1>4
<1> QED BY <1>3, <1>5

\* What is left of a tap that was not left to an assertion, or whose assertion is to come.
LEMMA TapVerdicts ==
  ASSUME NEW how \in {"passed", "failed", "blocked"}, NEW success \in BOOLEAN
  PROVE  TapVerification(how, success) \in {"unavailable", "not_requested", "failed"}
BY DEF TapVerification

\* A step ends.  (run-journey.ts)
LEMMA EndsStep ==
  ASSUME JourneyInv, stepState # Waiting,
         NEW how \in {"passed", "failed", "blocked"}, NEW counted \in BOOLEAN, NEW so \in Sights,
         how = "passed" => Backs(atStep, so), StepEnds(how, counted, so)
  PROVE  JourneyInv'
<1> DEFINE n == Len(results)
<1>1. PICK success : success = StepSucceeded(how)
  OBVIOUS
<1>2. success \in BOOLEAN /\ (success => how = "passed" /\ ~Paused)
  BY <1>1, Zenon DEF StepSucceeded
<1>3. PICK left : left = CoveredByAssertion(atStep)
  OBVIOUS
<1>4. left \in BOOLEAN
  BY <1>3, Zenon DEF CoveredByAssertion
<1>5. left => plan[atStep + 1].type = "assert" /\ plan[atStep].type = "tap"
  BY <1>3 DEF CoveredByAssertion
<1>6. PICK held : held = Paused
  OBVIOUS
<1>7. held \in BOOLEAN
  BY <1>6, Zenon DEF Paused
<1>8. PICK v : v = TapsVerified(counted)
  OBVIOUS
<1>9. PICK e : e = StepResult(atStep, IF success THEN "passed" ELSE "failed",
                              IF left THEN TapVerification(how, success) ELSE "own")
  OBVIOUS
<1>10. PICK p : p = [step |-> atStep, so |-> so, counted |-> counted, paused |-> held]
  OBVIOUS
<1>11. /\ results' = Append(v, e)
       /\ pendingLightStep' = IF left /\ success THEN atStep
                              ELSE IF plan[atStep].type = "assert" THEN 0 ELSE pendingLightStep
       /\ stoppedAt' = IF success THEN stoppedAt ELSE atStep
       /\ performed' = Append(performed, p)
       /\ atStep' = atStep + 1 /\ stepState' = Waiting
       /\ plan' = plan /\ journeyOutcome' = journeyOutcome
  BY <1>1, <1>3, <1>6, <1>8, <1>9, <1>10 DEF StepEnds
<1>12. JourneyType /\ Progress /\ Accounts
  BY DEF JourneyInv
<1>13. /\ stoppedAt = 0 /\ n = atStep - 1 /\ Len(performed) = n /\ n \in Nat
       /\ atStep \in Nat \ {0} /\ atStep <= Len(plan) /\ Len(plan) \in Nat
       /\ \A i \in 1..n : results[i].status = "passed"
       /\ pendingLightStep # 0 => pendingLightStep = n /\ plan[atStep].type = "assert"
       /\ pendingLightStep \in Nat /\ journeyOutcome = "none"
  BY <1>12, PlansAssumption DEF JourneyType, Progress
<1>14. /\ v \in Seq(StepResults) /\ Len(v) = n
       /\ \A i \in 1..n :
            /\ v[i].step = results[i].step /\ v[i].status = results[i].status
            /\ v[i].verification = "observed" =>
                 \/ results[i].verification = "observed"
                 \/ plan[atStep].type = "assert" /\ pendingLightStep = i /\ counted
  BY <1>8, <1>12, VerifiedTaps
<1>15. /\ e \in StepResults /\ e.step = atStep /\ e.verification # "observed"
       /\ e.status = (IF success THEN "passed" ELSE "failed")
  BY <1>2, <1>4, <1>9, <1>13, TapVerdicts DEF StepResult, StepResults
<1>16. /\ p \in Performed /\ p.step = atStep /\ p.so = so /\ p.counted = counted
       /\ p.paused = held
  BY <1>7, <1>10, <1>13 DEF Performed
<1>17. /\ results' \in Seq(StepResults) /\ Len(results') = atStep
       /\ \A i \in 1..n : results'[i] = v[i]
       /\ results'[atStep] = e
  <2>1. n + 1 = atStep
    BY <1>13
  <2> QED BY <1>11, <1>14, <1>15, <2>1, OneMore
<1>18. /\ performed' \in Seq(Performed) /\ Len(performed') = atStep
       /\ \A i \in 1..n : performed'[i] = performed[i]
       /\ performed'[atStep] = p
  <2>1. n + 1 = atStep /\ performed \in Seq(Performed)
    BY <1>12, <1>13 DEF JourneyType
  <2> QED BY <1>11, <1>13, <1>16, <2>1, OneMore
<1>19. \A i \in 1..atStep : i \in 1..n \/ i = atStep
  BY <1>13
<1>20. JourneyType'
  <2>1. stoppedAt' \in Nat /\ pendingLightStep' \in Nat /\ atStep' \in Nat \ {0}
    BY <1>2, <1>4, <1>11, <1>13
  <2> QED BY <1>11, <1>12, <1>17, <1>18, <2>1 DEF JourneyType
<1>21. Progress'
  <2>1. CASE success
    <3>1. stoppedAt' = 0 /\ e.status = "passed"
      BY <1>11, <1>13, <1>15, <2>1
    <3>2. \A i \in 1..atStep : results'[i].status = "passed"
      BY <1>13, <1>14, <1>17, <1>19, <3>1
    <3>3. pendingLightStep' # 0 => pendingLightStep' = atStep /\ plan[atStep + 1].type = "assert"
      BY <1>5, <1>11, <1>13, <2>1
    <3>4. atStep + 1 - 1 = atStep /\ atStep + 1 <= Len(plan) + 1
      BY <1>13
    <3> QED BY <1>11, <1>13, <1>17, <1>18, <3>1, <3>2, <3>3, <3>4 DEF Progress
  <2>2. CASE ~success
    <3>1. stoppedAt' # 0 /\ e.status = "failed"
      BY <1>11, <1>13, <1>15, <2>2
    <3>2. atStep \in 1..Len(results') /\ results'[atStep].status = "failed"
      BY <1>13, <1>17, <3>1
    <3> QED BY <1>11, <1>13, <1>17, <1>18, <3>1, <3>2 DEF Progress
  <2> QED BY <1>2, <2>1, <2>2
<1>22. ASSUME NEW k \in 1..atStep
       PROVE  /\ performed'[k].step = k /\ results'[k].step = k
              /\ results'[k].status = "passed" =>
                   Backs(k, performed'[k].so) /\ ~performed'[k].paused
              /\ k < atStep => results'[k].status = "passed"
  <2>1. CASE k \in 1..n
    <3>1. /\ performed[k].step = k /\ results[k].step = k /\ results[k].status = "passed"
          /\ Backs(k, performed[k].so) /\ ~performed[k].paused
      BY <1>12, <1>13, <2>1 DEF Accounts
    <3>2. performed'[k] = performed[k] /\ results'[k].step = k /\ results'[k].status = "passed"
      BY <1>14, <1>17, <1>18, <2>1, <3>1
    <3> QED BY <3>1, <3>2
  <2>2. CASE k = atStep
    <3>1. e.status = "passed" => Backs(k, p.so) /\ ~p.paused
      BY <1>2, <1>6, <1>15, <1>16, <2>2
    <3> QED BY <1>13, <1>15, <1>16, <1>17, <1>18, <2>2, <3>1
  <2> QED BY <1>19, <2>1, <2>2
<1>23. ASSUME NEW i \in 1..atStep, results'[i].verification = "observed"
       PROVE  i < atStep /\ performed'[i + 1].counted
  <2>1. i \in 1..n /\ v[i].verification = "observed"
    BY <1>15, <1>17, <1>19, <1>23
  <2>2. CASE results[i].verification = "observed"
    <3>1. i < n /\ performed[i + 1].counted
      BY <1>12, <1>13, <2>1, <2>2 DEF Accounts
    <3>2. i + 1 \in 1..n
      BY <1>13, <2>1, <3>1
    <3> QED BY <1>13, <1>18, <3>1, <3>2
  <2>3. CASE pendingLightStep = i /\ counted
    <3>1. i = n /\ i + 1 = atStep
      BY <1>13, <2>1, <2>3
    <3>2. performed'[i + 1] = p
      BY <1>18, <3>1
    <3>3. p.counted
      BY <1>16, <2>3
    <3> QED BY <1>13, <3>1, <3>2, <3>3
  <2> QED BY <1>14, <2>1, <2>2, <2>3
<1>24. Accounts'
  BY <1>11, <1>17, <1>18, <1>22, <1>23 DEF Accounts, Backs
<1> QED BY <1>20, <1>21, <1>24 DEF JourneyInv

\* The app is paused or resumed, a step begins, and the journey is answered.
LEMMA AroundSteps ==
  ASSUME JourneyInv, AppPausesOrResumes \/ Starts \/ Respond
  PROVE  JourneyInv'
<1>1. JourneyType /\ Progress /\ Accounts /\ Len(plan) \in Nat
  BY PlansAssumption DEF JourneyInv, JourneyType
<1>2. UNCHANGED <<plan, atStep, results, stoppedAt, pendingLightStep, performed>>
  BY DEF AppPausesOrResumes, Starts, Respond
<1>3. Accounts'
  BY <1>1, <1>2 DEF Accounts, Backs
<1>4. CASE AppPausesOrResumes
  <2>1. UNCHANGED <<stepState, journeyOutcome>>
    BY <1>4 DEF AppPausesOrResumes
  <2> QED BY <1>1, <1>2, <1>3, <2>1 DEF JourneyInv, JourneyType, Progress, Backs
<1>5. CASE Starts
  <2>1. /\ stepState' = [state |-> "under_way", inARow |-> 0, sights |-> <<>>, samples |-> 0]
        /\ stoppedAt = 0 /\ atStep <= Len(plan) /\ journeyOutcome' = journeyOutcome
    BY <1>5 DEF Starts
  <2>2. stepState' \in UnderWay /\ stepState'.inARow = 0
    BY <2>1 DEF UnderWay
  <2>3. journeyOutcome = "none"
    BY <1>1, <2>1 DEF JourneyType, Progress
  <2>4. JourneyType'
    BY <1>1, <1>2, <2>1, <2>2 DEF JourneyType
  <2>5. Progress'
    BY <1>1, <1>2, <2>1, <2>2, <2>3 DEF Progress
  <2> QED BY <1>3, <2>4, <2>5 DEF JourneyInv
<1>6. CASE Respond
  <2>1. /\ journeyOutcome' = (IF stoppedAt = 0 THEN "success" ELSE "failure")
        /\ stepState = Waiting /\ stepState' = stepState /\ atStep > Len(plan)
    BY <1>6 DEF Respond
  <2>2. JourneyType'
    BY <1>1, <1>2, <2>1 DEF JourneyType
  <2>3. Progress'
    BY <1>1, <1>2, <2>1 DEF Progress
  <2> QED BY <1>3, <2>2, <2>3 DEF JourneyInv
<1> QED BY <1>4, <1>5, <1>6

\* A step that is not run, and a pause that ends the journey before its step.
LEMMA SkipSteps == ASSUME JourneyInv, NotRun \/ PausedBefore PROVE JourneyInv'
<1> DEFINE n == Len(results)
<1>1. JourneyType /\ Progress /\ Accounts /\ Len(plan) \in Nat /\ atStep \in Nat \ {0}
      /\ n \in Nat /\ stoppedAt \in Nat /\ results \in Seq(StepResults)
      /\ Len(performed) \in Nat
  BY PlansAssumption DEF JourneyInv, JourneyType
<1>2. /\ UNCHANGED <<plan, pendingLightStep, performed, stepState, journeyOutcome>>
      /\ stepState = Waiting
  BY DEF NotRun, PausedBefore
<1>3. PICK status \in {"not_run", "failed"} :
        /\ results' = Append(results, StepResult(atStep, status, "own"))
        /\ status = "failed" <=> PausedBefore
  BY DEF NotRun, PausedBefore
<1>4. /\ stoppedAt' # 0 /\ stoppedAt' \in Nat /\ atStep' \in Nat \ {0}
      /\ ~PausedBefore => stoppedAt # 0
      /\ atStep' = atStep + 1 \/ atStep' > Len(plan)
  BY <1>1 DEF NotRun, PausedBefore
<1>5. PICK e : e = StepResult(atStep, status, "own")
  OBVIOUS
<1>6. e \in StepResults /\ e.status = status /\ e.verification = "own"
  BY <1>1, <1>5 DEF StepResult, StepResults
<1>7. /\ results' \in Seq(StepResults) /\ Len(results') = n + 1
      /\ \A i \in 1..n : results'[i] = results[i]
      /\ results'[n + 1] = e
  BY <1>1, <1>3, <1>5, <1>6, OneMore
<1>8. Len(performed) <= n
  BY <1>1 DEF Progress
<1>9. JourneyType'
  BY <1>1, <1>2, <1>4, <1>7 DEF JourneyType
<1>10. \E i \in 1..Len(results') : results'[i].status = "failed"
  <2>1. CASE PausedBefore
    <3>1. n + 1 \in 1..Len(results') /\ results'[n + 1].status = "failed"
      BY <1>1, <1>3, <1>6, <1>7, <2>1
    <3> QED BY <3>1
  <2>2. CASE ~PausedBefore
    <3>1. PICK i \in 1..n : results[i].status = "failed"
      BY <1>1, <1>4, <2>2 DEF Progress
    <3>2. i \in 1..Len(results') /\ results'[i].status = "failed"
      BY <1>1, <1>7, <3>1
    <3> QED BY <3>2
  <2> QED BY <2>1, <2>2
<1>11. journeyOutcome = "none"
  <2>1. atStep <= Len(plan)
    BY DEF NotRun, PausedBefore
  <2> QED BY <1>1, <2>1 DEF Progress
<1>12. Progress'
  <2>1. stoppedAt' # 0 /\ stepState' = Waiting /\ journeyOutcome' = "none"
    BY <1>2, <1>4, <1>11
  <2>2. Len(performed') <= Len(results')
    BY <1>1, <1>2, <1>7, <1>8
  <2> QED BY <1>10, <2>1, <2>2 DEF Progress
<1>13. Accounts'
  <2>1. ASSUME NEW k \in 1..Len(performed)
        PROVE  /\ performed[k].step = k /\ results'[k].step = k
               /\ results'[k].status = "passed" => Backs(k, performed[k].so) /\ ~performed[k].paused
               /\ k < Len(performed) => results'[k].status = "passed"
    <3>1. k \in 1..n
      BY <1>1, <1>8
    <3> QED BY <1>1, <1>7, <3>1 DEF Accounts
  <2>2. ASSUME NEW i \in 1..Len(results')
        PROVE  /\ results'[i].status = "passed" => i <= Len(performed)
               /\ results'[i].verification = "observed" =>
                    i < Len(performed) /\ performed[i + 1].counted
    <3>1. CASE i \in 1..n
      BY <1>1, <1>7, <3>1 DEF Accounts
    <3>2. CASE i = n + 1
      BY <1>3, <1>6, <1>7, <3>2
    <3> QED BY <1>1, <1>7, <3>1, <3>2
  <2> QED BY <1>2, <2>1, <2>2 DEF Accounts, Backs
<1> QED BY <1>9, <1>12, <1>13 DEF JourneyInv

\* A tool ends, the visibility of an element is known, or the time is up.
LEMMA ToolSteps == ASSUME JourneyInv, ToolEnds \/ Visibility \/ TimeIsUp PROVE JourneyInv'
<1>1. CASE ToolEnds
  <2>1. PICK how \in {"passed", "failed", "blocked"} :
          stepState # Waiting /\ StepEnds(how, FALSE, IF how = "passed" THEN "shown"
                                                     ELSE "not_shown")
    BY <1>1 DEF ToolEnds
  <2>2. PICK so \in Sights : so = (IF how = "passed" THEN "shown" ELSE "not_shown")
    BY DEF Sights
  <2> QED BY <2>1, <2>2, EndsStep DEF Backs
<1>2. CASE Visibility
  BY <1>2, EndsStep DEF Visibility, Backs, Sights
<1>3. CASE TimeIsUp
  BY <1>3, EndsStep DEF TimeIsUp, Sights
<1> QED BY <1>1, <1>2, <1>3

\* One reading of an assertion.
LEMMA SampleStep == ASSUME JourneyInv, NEW r, Sample(r) PROVE JourneyInv'
<1>1. JourneyType /\ Progress /\ Accounts
  BY DEF JourneyInv
<1>2. PICK shows : shows = Sight(plan[atStep], r)
  OBVIOUS
<1>3. shows \in Sights
  BY <1>2 DEF Sight, Sights
<1>4. /\ stepState \in UnderWay /\ stepState # Waiting
      /\ stepState.inARow \in {0, 1} /\ stepState.sights \in Seq(Sights)
      /\ stepState.samples \in Nat
      /\ stepState.inARow = 1 => /\ stepState.sights # <<>>
                                 /\ Backs(atStep, stepState.sights[Len(stepState.sights)])
      /\ atStep <= Len(plan) /\ stoppedAt = 0 /\ journeyOutcome = "none"
  BY <1>1 DEF Sample, JourneyType, Progress, UnderWay
<1>5. PICK m : m = Len(stepState.sights)
  OBVIOUS
<1>6. PICK sights : sights = Append(stepState.sights, shows)
  OBVIOUS
<1>7. /\ sights \in Seq(Sights) /\ Len(sights) = m + 1 /\ m \in Nat
      /\ sights[m + 1] = shows
      /\ m # 0 => sights[m] = stepState.sights[m]
  <2>1. m \in Nat /\ (m # 0 => m \in 1..m)
    BY <1>4, <1>5
  <2> QED BY <1>3, <1>4, <1>5, <1>6, <2>1, OneMore
<1>8. InARow(r) # 0 => Counts(plan[atStep], r) /\ InARow(r) = stepState.inARow + 1
  BY DEF InARow
<1>9. InARow(r) # 0 => Backs(atStep, shows)
  BY <1>2, <1>8, CountsShow DEF Sample
<1>10. CASE InARow(r) = 2
  <2>1. stepState.inARow = 1 /\ Backs(atStep, shows)
    BY <1>4, <1>8, <1>9, <1>10
  <2>2. m # 0 /\ Backs(atStep, stepState.sights[m])
    BY <1>4, <1>5, <2>1
  <2>3. PICK so : so = Together(sights[Len(sights) - 1], sights[Len(sights)])
    OBVIOUS
  <2>4. Len(sights) = m + 1 /\ Len(sights) - 1 = m
    BY <1>7
  <2>5. so \in Sights /\ Backs(atStep, so)
    BY <1>7, <2>1, <2>2, <2>3, <2>4, TogetherBack
  <2>6. StepEnds("passed", FALSE, so)
    BY <1>2, <1>6, <1>10, <2>3 DEF Sample
  <2> QED BY <1>4, <2>5, <2>6, EndsStep
<1>11. CASE InARow(r) # 2
  <2>1. /\ stepState' = [stepState EXCEPT !.inARow = InARow(r), !.sights = sights,
                                          !.samples = @ + 1]
        /\ UNCHANGED <<plan, atStep, results, stoppedAt, pendingLightStep, performed,
                       journeyOutcome>>
    BY <1>2, <1>6, <1>11 DEF Sample
  <2>2. InARow(r) \in {0, 1}
    BY <1>4, <1>8, <1>11
  <2>3. stepState' \in UnderWay /\ stepState'.inARow = InARow(r) /\ stepState'.sights = sights
    <3>1. PICK row : row = InARow(r)
      OBVIOUS
    <3>2. PICK s : s = stepState
      OBVIOUS
    <3>3. s \in UnderWay /\ row \in {0, 1} /\ sights \in Seq(Sights) /\ s.samples + 1 \in Nat
      BY <1>4, <1>7, <2>2, <3>1, <3>2
    <3>4. stepState' = [s EXCEPT !.inARow = row, !.sights = sights, !.samples = @ + 1]
      BY <2>1, <3>1, <3>2
    <3>5. stepState' = [state |-> "under_way", inARow |-> row, sights |-> sights,
                        samples |-> s.samples + 1]
      BY <3>3, <3>4 DEF UnderWay
    <3>6. stepState' \in UnderWay
      BY <3>3, <3>5 DEF UnderWay
    <3> QED BY <3>1, <3>5, <3>6
  <2>4. InARow(r) = 1 => sights # <<>> /\ Backs(atStep, sights[Len(sights)])
    BY <1>7, <1>9
  <2>5. JourneyType'
    BY <1>1, <2>1, <2>3 DEF JourneyType
  <2>6. Progress'
    BY <1>1, <1>4, <2>1, <2>3, <2>4 DEF Progress, Backs
  <2>7. Accounts'
    BY <1>1, <2>1 DEF Accounts, Backs
  <2> QED BY <2>5, <2>6, <2>7 DEF JourneyInv
<1> QED BY <1>10, <1>11

LEMMA JourneyStart == JourneyInit => JourneyInv
<1> SUFFICES ASSUME JourneyInit PROVE JourneyInv
  OBVIOUS
<1>1. Len(plan) \in Nat \ {0} /\ plan \in Plans
  BY PlansAssumption DEF JourneyInit
<1>2. results = <<>> /\ performed = <<>> /\ atStep = 1 /\ stoppedAt = 0 /\ pendingLightStep = 0
      /\ stepState = Waiting /\ journeyOutcome = "none"
  BY DEF JourneyInit
<1>3. results \in Seq(StepResults) /\ performed \in Seq(Performed) /\ Len(results) = 0
      /\ Len(performed) = 0
  BY <1>2
<1>4. JourneyType
  BY <1>1, <1>2, <1>3 DEF JourneyType
<1>5. Progress
  BY <1>1, <1>2, <1>3 DEF Progress
<1>6. Accounts
  BY <1>3 DEF Accounts
<1> QED BY <1>4, <1>5, <1>6 DEF JourneyInv

LEMMA JourneyStep == JourneyInv /\ [JourneyNext]_journeyVars => JourneyInv'
<1> SUFFICES ASSUME JourneyInv, [JourneyNext]_journeyVars PROVE JourneyInv'
  OBVIOUS
<1>1. CASE UNCHANGED journeyVars
  BY <1>1 DEF journeyVars, JourneyInv, JourneyType, Progress, Accounts, Backs
<1>2. CASE AnySample
  BY <1>2, SampleStep DEF AnySample
<1> QED BY <1>1, <1>2, AroundSteps, SkipSteps, ToolSteps DEF JourneyNext

\* A journey succeeds exactly if each of its steps was executed in order and was so on the
\* device, or an element_absent that took a tree which could not be read for one without
\* the element; on Android no step passed that ended with the app held by the debugger;
\* none was executed after one that did not pass, and a tap left to the assertion after it
\* is called observed only if that one was executed and counted elements.  (runJourney)
THEOREM JourneysHonestly == JourneySpec => []JourneyIsHonest
<1>1. JourneyInv => JourneyIsHonest
  <2> SUFFICES ASSUME JourneyInv PROVE JourneyIsHonest
    OBVIOUS
  <2>1. /\ DOMAIN results = 1..Len(results) /\ DOMAIN performed = 1..Len(performed)
        /\ Len(plan) \in Nat \ {0} /\ atStep \in Nat \ {0}
        /\ JourneyType /\ Progress /\ Accounts
    BY PlansAssumption DEF JourneyInv, JourneyType
  <2>2. \A k \in DOMAIN performed :
          /\ performed[k].step = k /\ results[k].step = k
          /\ Passed(k) => Backs(k, performed[k].so) /\ ~performed[k].paused
          /\ k < Len(performed) => Passed(k)
    BY <2>1 DEF Accounts, Passed
  <2>3. \A i \in DOMAIN results :
          /\ Passed(i) => i <= Len(performed)
          /\ results[i].verification = "observed" =>
               i < Len(performed) /\ performed[i + 1].counted
    BY <2>1 DEF Accounts, Passed
  <2>4. journeyOutcome = "success" => Len(performed) = Len(plan) /\ Passed(Len(plan))
    BY <2>1 DEF Progress, Passed
  <2>5. journeyOutcome = "failure" => \E i \in DOMAIN results : results[i].status = "failed"
    BY <2>1 DEF Progress
  <2> QED BY <2>2, <2>3, <2>4, <2>5 DEF JourneyIsHonest
<1> QED BY <1>1, JourneyStart, JourneyStep, PTL DEF JourneySpec

----------------------------------------------------------------------------
(* The status of the machine *)

\* A probe finds nothing before its turn: each has told nothing but what its position in
\* the order allows, and the app was asked for on the devices of the list.
StatusInv ==
  /\ setup \in Setups
  /\ DOMAIN learned = {"adb", "env", "gradle", "unlisted", "listed", "log", "app", "xcrun",
                       "booted", "idb"}
  /\ learned.adb \in BOOLEAN /\ learned.env \in BOOLEAN /\ learned.gradle \in BOOLEAN
  /\ learned.unlisted \in BOOLEAN /\ learned.xcrun \in BOOLEAN /\ learned.idb \in BOOLEAN
  /\ learned.log \in {"unread", "lines", "empty", "failed"}
  /\ learned.booted \in {"unread", "some", "none", "failed"}
  /\ PhonesListed \subseteq Phones
  /\ \A p \in PhonesListed : learned.listed[p] \in PhoneStates
  /\ learned.log # "unread" => learned.adb /\ PhonesListed # {}
  /\ learned.unlisted => PhonesListed = {}
  /\ learned.booted # "unread" => learned.xcrun
  /\ learned.xcrun \/ learned.idb => setup.host = "macos"
  /\ DOMAIN learned.app \subseteq PhonesListed
  /\ \A p \in DOMAIN learned.app : learned.app[p] \in AppVerdicts(p)
  /\ probing \in {"adb", "list"} => PhonesListed = {} /\ ~learned.unlisted
  /\ probing \in {"adb", "list", "log"} => learned.log = "unread"
  /\ probing \in {"adb", "list", "log", "app"} => DOMAIN learned.app = {}
  /\ probing \in {"adb", "list", "log", "app"} => setup.host # "other"
  /\ probing \in {"xcrun", "booted", "idb", "done"} /\ setup.host # "other" =>
       DOMAIN learned.app = PhonesListed
  /\ probing \in {"xcrun", "booted", "idb"} => setup.host = "macos"
  /\ probing \in {"adb", "list", "log", "app", "xcrun"} => ~learned.xcrun
  /\ probing \in {"adb", "list", "log", "app", "xcrun", "booted"} => learned.booted = "unread"
  /\ probing = "booted" => learned.xcrun
  /\ setup.host = "other" => ~learned.adb /\ PhonesListed = {} /\ probing = "done"
  /\ probing = "adb" => ~learned.adb

LEMMA StatusStart == StatusInit => StatusInv
<1> SUFFICES ASSUME StatusInit PROVE StatusInv
  OBVIOUS
<1>1. /\ setup \in Setups /\ setup.host \in {"macos", "linux", "other"}
      /\ probing = IF setup.host = "other" THEN "done" ELSE "adb"
  BY DEF StatusInit, Setups
<1>2. learned = [adb |-> FALSE, env |-> FALSE, gradle |-> TRUE, unlisted |-> FALSE,
                 listed |-> <<>>, log |-> "unread", app |-> <<>>,
                 xcrun |-> FALSE, booted |-> "unread", idb |-> FALSE]
  BY DEF StatusInit
<1>3. DOMAIN learned.listed = {} /\ DOMAIN learned.app = {}
  BY <1>2
<1> QED BY <1>1, <1>2, <1>3 DEF StatusInv, PhonesListed

\* Adb is looked for, and then the devices.
LEMMA ProbesAdb == ASSUME StatusInv, ProbeAdb PROVE StatusInv'
<1>1. PICK ok \in BOOLEAN, sdk \in BOOLEAN, path \in BOOLEAN, gradle \in BOOLEAN :
        ProbeTells("adb", "list", [learned EXCEPT !.adb = ok, !.env = sdk \/ (ok /\ path),
                                                  !.gradle = gradle])
  BY DEF ProbeAdb
<1>2. PICK env : env = (sdk \/ (ok /\ path))
  OBVIOUS
<1>3. env \in BOOLEAN
  BY <1>2, Zenon
<1>4. /\ learned' = [learned EXCEPT !.adb = ok, !.env = env, !.gradle = gradle]
      /\ probing = "adb" /\ probing' = "list" /\ setup' = setup
  BY <1>1, <1>2 DEF ProbeTells
<1> QED BY <1>3, <1>4 DEF StatusInv, PhonesListed

LEMMA ListsPhones == ASSUME StatusInv, ListPhones PROVE StatusInv'
<1>1. PICK states :
        /\ DOMAIN states \subseteq Phones /\ \A p \in DOMAIN states : states[p] \in PhoneStates
        /\ \/ learned' = [learned EXCEPT !.unlisted = TRUE]
           \/ learned' = [learned EXCEPT !.listed = states]
        /\ probing = "list" /\ probing' = "log" /\ setup' = setup
  <2>1. CASE ProbeTells("list", "log", [learned EXCEPT !.unlisted = TRUE])
    <3>1. PICK states : states = [p \in {} |-> "odd"]
      OBVIOUS
    <3> QED BY <2>1, <3>1 DEF ProbeTells
  <2>2. CASE \E there \in SUBSET Phones : \E states \in [there -> PhoneStates] :
               ProbeTells("list", "log", [learned EXCEPT !.listed = states])
    BY <2>2 DEF ProbeTells
  <2> QED BY <2>1, <2>2 DEF ListPhones
<1>2. DOMAIN learned.app = {} /\ learned.log = "unread" /\ DOMAIN learned.listed = {}
  BY <1>1 DEF StatusInv, PhonesListed
<1> QED BY <1>1, <1>2 DEF StatusInv, PhonesListed

\* A log is read only where there is a device to read it from.
LEMMA ReadsLog == ASSUME StatusInv, ReadLog \/ SkipLog PROVE StatusInv'
<1>1. PICK r \in {"lines", "empty", "failed"} :
        /\ \/ learned' = learned
           \/ learned.adb /\ PhonesListed # {} /\ learned' = [learned EXCEPT !.log = r]
        /\ probing = "log" /\ probing' = "app" /\ setup' = setup
  BY DEF ReadLog, SkipLog, ProbeTells
<1> QED BY <1>1 DEF StatusInv, PhonesListed, AppVerdicts

\* The app is asked for on every device of the list.
LEMMA FindsApp == ASSUME StatusInv, FindApp PROVE StatusInv'
<1>1. PICK verdicts \in [PhonesListed -> {"installed", "absent", "unknown"}] :
        /\ \A p \in PhonesListed : verdicts[p] \in AppVerdicts(p)
        /\ ProbeTells("app", AfterPhones, [learned EXCEPT !.app = verdicts])
  BY DEF FindApp
<1>2. /\ learned' = [learned EXCEPT !.app = verdicts] /\ setup' = setup /\ probing = "app"
      /\ probing' = IF setup.host = "macos" THEN "xcrun" ELSE "done"
  BY <1>1 DEF ProbeTells, AfterPhones
<1>3. learned'.app = verdicts /\ DOMAIN verdicts = PhonesListed
  BY <1>1, <1>2 DEF StatusInv
<1>4. /\ learned'.listed = learned.listed /\ learned'.adb = learned.adb
      /\ learned'.env = learned.env /\ learned'.gradle = learned.gradle
      /\ learned'.unlisted = learned.unlisted /\ learned'.xcrun = learned.xcrun
      /\ learned'.idb = learned.idb /\ learned'.log = learned.log
      /\ learned'.booted = learned.booted /\ DOMAIN learned' = DOMAIN learned
  BY <1>2 DEF StatusInv
<1>5. PhonesListed' = PhonesListed
  BY <1>4 DEF PhonesListed
<1>6. \A p \in DOMAIN learned'.app : learned'.app[p] \in AppVerdicts(p)'
  BY <1>1, <1>2, <1>3, <1>4 DEF AppVerdicts
<1> QED BY <1>2, <1>3, <1>4, <1>5, <1>6 DEF StatusInv

\* Xcode, its simulators and idb.
LEMMA ProbesIos == ASSUME StatusInv, ProbeXcrun \/ ListBooted \/ ProbeIdb PROVE StatusInv'
<1>1. CASE ProbeXcrun
  <2>1. /\ \/ learned' = [learned EXCEPT !.xcrun = TRUE] /\ probing' = "booted"
           \/ learned' = learned /\ probing' = "idb"
        /\ probing = "xcrun" /\ setup' = setup
    BY <1>1 DEF ProbeXcrun, ProbeTells
  <2>2. CASE learned' = learned /\ probing' = "idb"
    BY <2>1, <2>2 DEF StatusInv, PhonesListed, AppVerdicts
  <2>3. CASE learned' = [learned EXCEPT !.xcrun = TRUE] /\ probing' = "booted"
    BY <2>1, <2>3 DEF StatusInv, PhonesListed, AppVerdicts
  <2> QED BY <2>1, <2>2, <2>3
<1>2. CASE ListBooted
  <2>1. PICK r \in {"some", "none", "failed"} :
          /\ learned' = [learned EXCEPT !.booted = r]
          /\ probing = "booted" /\ probing' = "idb" /\ setup' = setup
    BY <1>2 DEF ListBooted, ProbeTells
  <2> QED BY <2>1 DEF StatusInv, PhonesListed, AppVerdicts
<1>3. CASE ProbeIdb
  <2>1. PICK ok \in BOOLEAN :
          /\ learned' = [learned EXCEPT !.idb = ok]
          /\ probing = "idb" /\ probing' = "done" /\ setup' = setup
    BY <1>3 DEF ProbeIdb, ProbeTells
  <2> QED BY <2>1 DEF StatusInv, PhonesListed, AppVerdicts
<1> QED BY <1>1, <1>2, <1>3

LEMMA StatusStep == StatusInv /\ [StatusNext]_statusVars => StatusInv'
<1> SUFFICES ASSUME StatusInv, [StatusNext]_statusVars PROVE StatusInv'
  OBVIOUS
<1>1. CASE UNCHANGED statusVars
  BY <1>1 DEF statusVars, StatusInv, PhonesListed, AppVerdicts
<1> QED BY <1>1, ProbesAdb, ListsPhones, ReadsLog, FindsApp, ProbesIos DEF StatusNext

\* What "ready" says of the machine, and of the probes that failed.  (getSystemStatus)
LEMMA ReadyIsSo ==
  ASSUME StatusInv, probing = "done", Overall = "ready"
  PROVE  /\ setup.host = "macos" /\ learned.env /\ learned.gradle
         /\ PhonesListed # {} /\ ~Seen("unusable")
         /\ setup.app # "none" => Verdicts = {"installed"}
         /\ FailedProbes \subseteq Silent /\ learned.log # "empty" /\ learned.booted # "none"
<1>1. Issues = {}
  BY DEF Overall
<1>2. setup.host # "other" /\ learned.gradle /\ AndroidIssues = {} /\ IosIssues = {}
  BY <1>1 DEF Issues
<1>3. setup.host = "macos" /\ learned.booted # "none"
  BY <1>2 DEF IosIssues
<1>4. \A i \in {"adb", "list", "no devices", "unusable", "log", "env", "id", "absent",
                "unknown"} : i \notin AndroidIssues
  BY <1>2
<1>5. learned.adb
  BY <1>4 DEF AndroidIssues
<1>6. ~learned.unlisted
  BY <1>4 DEF AndroidIssues
<1>7. PhonesListed # {}
  BY <1>4, <1>6 DEF AndroidIssues
<1>8. ~Seen("unusable")
  BY <1>4 DEF AndroidIssues
<1>9. learned.log # "empty"
  BY <1>4 DEF AndroidIssues
<1>10. learned.env
  BY <1>4 DEF AndroidIssues
<1>11. "absent" \notin Verdicts
  BY <1>4 DEF AndroidIssues
<1>12. setup.app # "none" => "unknown" \notin Verdicts
  BY <1>4 DEF AndroidIssues
<1>13. DOMAIN learned.app = PhonesListed
  BY <1>2 DEF StatusInv
<1>14. \A p \in DOMAIN learned.app : learned.app[p] \in {"installed", "absent", "unknown"}
  BY DEF StatusInv, AppVerdicts
<1>15. setup.app # "none" => Verdicts = {"installed"}
  BY <1>7, <1>11, <1>12, <1>13, <1>14 DEF Verdicts
<1>16. FailedProbes \subseteq Silent
  BY <1>5, <1>6, <1>12 DEF FailedProbes, Silent
<1> QED BY <1>2, <1>3, <1>7, <1>8, <1>9, <1>10, <1>15, <1>16

\* What "blocked" says of it.
LEMMA BlockedIsSo ==
  ASSUME StatusInv, probing = "done", Overall = "blocked"
  PROVE  ~AndroidCan("app") /\ ~IosCan("app") /\ Summary # "ready"
<1>1. ~AndroidReady /\ ~IosReady
  BY DEF Overall
<1>2. ~AndroidCan("app")
  BY <1>1 DEF AndroidCan, AndroidReady, DeviceIssue
<1>3. ~IosCan("app")
  BY <1>1 DEF IosCan, IosReady, Booted, StatusInv
<1>4. AndroidStatus # "ready"
  BY <1>1 DEF AndroidStatus, AndroidReady, DeviceIssue, StatusInv
<1>5. Summary # "ready"
  <2> DEFINE ready == <<AndroidStatus = "ready", IosStatus = "ready",
                        setup.host # "other" /\ learned.gradle>>
  <2>1. Summary = "ready" => \A k \in 1..3 : ready[k]
    BY DEF Summary
  <2>2. PICK a : a = (AndroidStatus = "ready")
    OBVIOUS
  <2>3. PICK i : i = (IosStatus = "ready")
    OBVIOUS
  <2>4. PICK g : g = (setup.host # "other" /\ learned.gradle)
    OBVIOUS
  <2>5. ready = <<a, i, g>>
    BY <2>2, <2>3, <2>4
  <2>6. ready[1] = a
    BY <2>5
  <2>7. ~a
    BY <1>4, <2>2
  <2> QED BY <2>1, <2>6, <2>7
<1> QED BY <1>2, <1>3, <1>5

\* The verdicts of the two platforms and what blocks them agree.
LEMMA VerdictsAgree ==
  ASSUME StatusInv, probing = "done", NEW c \in {"discover", "app", "log"}
  PROVE  /\ AndroidCan(c) => AndroidBlockedBy(c) = "none" /\ AndroidStatus # "unavailable"
         /\ AndroidStatus = "ready" => AndroidCan(c)
         /\ IosStatus = "ready" => IosCan(c)
         /\ IosCan(c) <=> IosBlockedBy(c) = "none"
<1>1. AndroidCan(c) => AndroidBlockedBy(c) = "none"
  BY DEF AndroidBlockedBy
<1>2. AndroidCan(c) => learned.adb
  BY DEF AndroidCan, Logs
<1>3. AndroidCan(c) => AndroidStatus # "unavailable"
  BY <1>2 DEF AndroidStatus
<1>4. AndroidStatus = "ready" => learned.adb /\ PhonesListed # {} /\ ~DeviceIssue /\ Logs
  BY DEF AndroidStatus, StatusInv
<1>5. AndroidStatus = "ready" => AndroidCan(c)
  BY <1>4 DEF AndroidCan
<1>6. IosStatus = "ready" => learned.xcrun /\ Booted
  BY DEF IosStatus
<1>7. IosStatus = "ready" => IosCan(c)
  BY <1>6 DEF IosCan
<1>8. IosCan(c) <=> IosBlockedBy(c) = "none"
  BY DEF IosCan, IosBlockedBy, Booted, StatusInv
<1> QED BY <1>1, <1>3, <1>5, <1>7, <1>8

\* What is said to be available rests on no probe that failed.  (buildAndroidPlatform,
\* buildIOSPlatform)
LEMMA FailuresAreCounted ==
  ASSUME StatusInv, NEW c \in {"discover", "app", "log"}
  PROVE  FailuresCount(c)
<1>1. ASSUME AndroidCan(c) PROVE FailedProbes \cap AndroidNeeds(c) = {}
  <2>1. learned.adb /\ (c # "discover" => ~learned.unlisted)
    BY <1>1 DEF AndroidCan, Logs, StatusInv
  <2>2. c = "log" => learned.log = "lines"
    BY <1>1 DEF AndroidCan, Logs
  <2>3. "adb" \notin FailedProbes /\ (c # "discover" => "list" \notin FailedProbes)
        /\ (c = "log" => "log" \notin FailedProbes)
    BY <2>1, <2>2 DEF FailedProbes
  <2> QED BY <2>3 DEF AndroidNeeds
<1>2. ASSUME IosCan(c) PROVE FailedProbes \cap IosNeeds(c) = {}
  <2>1. c # "discover" => learned.booted = "some" /\ learned.xcrun
    BY <1>2 DEF IosCan, Booted, StatusInv
  <2>2. c # "discover" => "booted" \notin FailedProbes /\ "xcrun" \notin FailedProbes
    BY <2>1 DEF FailedProbes
  <2> QED BY <2>2 DEF IosNeeds
<1>3. ASSUME IosCan(c) PROVE ~({"xcrun", "idb"} \subseteq FailedProbes)
  <2>1. learned.idb \/ learned.xcrun
    BY <1>3 DEF IosCan
  <2> QED BY <2>1 DEF FailedProbes
<1> QED BY <1>1, <1>2, <1>3 DEF FailuresCount

\* No operation is called available, no platform ready and no app installed on the word of
\* a probe that failed; an overall "ready" hides no failure but those of the log, xcrun,
\* booted-simulators and idb probes; and the verdicts of one answer agree.
\* (getSystemStatus)
THEOREM StatusesHonestly == StatusSpec => []StatusIsHonest
<1>1. StatusInv => StatusIsHonest
  <2> SUFFICES ASSUME StatusInv, probing = "done" PROVE StatusIsHonest
    BY DEF StatusIsHonest
  <2>1. ASSUME AppInstalled # {}
        PROVE  /\ setup.app # "none" /\ "app" \notin FailedProbes
               /\ \E p \in Phones : PhonesListed = {p} /\ learned.listed[p] = "device"
    <3>1. Cardinality(PhonesListed) = 1 /\ "unknown" \notin Verdicts
      BY <2>1 DEF AppInstalled
    <3>2. IsFiniteSet(PhonesListed)
      BY PhonesAssumption, FS_Subset DEF StatusInv
    <3>3. PICK p : PhonesListed = {p}
      BY <3>1, <3>2, FS_Singleton
    <3>4. p \in Phones /\ setup.host # "other" /\ DOMAIN learned.app = {p}
      BY <3>3 DEF StatusInv, Setups
    <3>5. learned.app[p] # "unknown" /\ learned.app[p] \in AppVerdicts(p)
      BY <3>1, <3>4 DEF Verdicts, StatusInv
    <3>6. learned.listed[p] = "device" /\ setup.app # "none"
      BY <3>5 DEF AppVerdicts
    <3>7. "app" \notin FailedProbes
      BY <3>1 DEF FailedProbes
    <3> QED BY <3>3, <3>4, <3>6, <3>7
  <2> QED BY <2>1, ReadyIsSo, BlockedIsSo, VerdictsAgree, FailuresAreCounted
          DEF StatusIsHonest
<1> QED BY <1>1, StatusStart, StatusStep, PTL DEF StatusSpec

----------------------------------------------------------------------------
(* The choice of a device *)

\* The chosen device is the one that was named or inherited, or one that no other suits as
\* well.
ChosenWell(c) ==
  /\ wish.id # 0 => c = wish.id
  /\ wish.id = 0 /\ wish.inside = 0 =>
       /\ c \in Preferred
       /\ \A i \in Preferred \ {c} :
            Suits(i, c) => wish.os = "ios" /\ fleet[i].available
                           /\ fleet[c].available /\ c < i

\* What is so of the app is among what has been so since the call began, and what a check
\* says is too.
DeviceInv ==
  /\ wish \in Wishes
  /\ fleet \in [Places -> Devices(wish.os)]
  /\ has \subseteq Places
  /\ DOMAIN seenOn = Places
  /\ checks \in [Places -> {"unasked", "unconfirmed", "installed", "absent", "unknown"}]
  /\ \A i \in Places : /\ Present(i) \in seenOn[i]
                       /\ checks[i] \in {"installed", "absent"} => checks[i] \in seenOn[i]
  /\ chosen \in 0..3
  /\ chosen \in Places => ChosenWell(chosen)

Ranks(k) == <<IF wish.app /\ checks[k] = "installed" THEN 1 ELSE 0,
              IF wish.prefer = "any" /\ ~fleet[k].simulator THEN 1 ELSE 0,
              IF wish.os = "ios" /\ fleet[k].available THEN 1 ELSE 0,
              fleet[k].version>>

\* A device that another outranks first does not suit as well.
LEMMA Outranked ==
  ASSUME DeviceInv, NEW i \in Places, NEW j \in Places, NEW n \in 1..4,
         Ranks(i)[n] < Ranks(j)[n], \A m \in 1..(n - 1) : Ranks(i)[m] = Ranks(j)[m]
  PROVE  ~Suits(i, j)
<1>1. PICK a : a = Ranks(i)
  OBVIOUS
<1>2. PICK b : b = Ranks(j)
  OBVIOUS
<1>3. Suits(i, j) <=> a = b \/ \E l \in 1..4 : a[l] > b[l] /\ \A m \in 1..(l - 1) : a[m] = b[m]
  BY <1>1, <1>2 DEF Suits, Ranks
<1>4. \A l \in 1..4 : a[l] \in Nat /\ b[l] \in Nat
  <2>1. fleet[i].version \in Nat /\ fleet[j].version \in Nat
    BY VersionsAssumption DEF DeviceInv, Devices
  <2> QED BY <1>1, <1>2, <2>1 DEF Ranks
<1>5. a[n] < b[n] /\ \A m \in 1..(n - 1) : a[m] = b[m]
  BY <1>1, <1>2
<1>6. a # b
  BY <1>4, <1>5
<1>7. ASSUME NEW l \in 1..4, a[l] > b[l], \A m \in 1..(l - 1) : a[m] = b[m]
      PROVE  FALSE
  <2>1. l < n \/ l = n \/ n < l
    OBVIOUS
  <2>2. CASE l < n
    <3>1. a[l] = b[l]
      BY <1>5, <2>2
    <3> QED BY <1>4, <1>7, <3>1
  <2>3. CASE l = n
    BY <1>4, <1>5, <1>7, <2>3
  <2>4. CASE n < l
    <3>1. a[n] = b[n]
      BY <1>7, <2>4
    <3> QED BY <1>4, <1>5, <3>1
  <2> QED BY <2>1, <2>2, <2>3, <2>4
<1> QED BY <1>3, <1>6, <1>7

\* A device that is not a finalist is outranked by every one that is.
LEMMA NoFinalist ==
  ASSUME DeviceInv, NEW i \in Preferred, i \notin Finalists, NEW j \in Finalists
  PROVE  j \in Preferred /\ ~Suits(i, j)
<1>1. i \in Places /\ Preferred \subseteq Places
  BY DEF Preferred
<1>2. Candidates \subseteq Preferred /\ Finalists \subseteq Candidates
  BY DEF Candidates, Finalists, Narrowed
<1>3. j \in Places /\ j \in Candidates /\ j \in Preferred
  BY <1>1, <1>2
<1>4. CASE i \notin Candidates
  <2>1. Candidates # Preferred
    BY <1>4
  <2>2. wish.app /\ checks[j] = "installed" /\ checks[i] # "installed"
    BY <1>3, <1>4, <2>1 DEF Candidates, Narrowed
  <2>3. Ranks(i)[1] = 0 /\ Ranks(j)[1] = 1
    BY <2>2 DEF Ranks
  <2>4. \A m \in 1..(1 - 1) : Ranks(i)[m] = Ranks(j)[m]
    OBVIOUS
  <2> QED BY <1>1, <1>3, <2>3, <2>4, Outranked
<1>5. CASE i \in Candidates
  <2>1. wish.prefer = "any" /\ ~fleet[j].simulator /\ fleet[i].simulator
    BY <1>3, <1>5 DEF Finalists, Narrowed
  <2>2. Ranks(i)[1] = Ranks(j)[1]
    BY <1>3, <1>5 DEF Ranks, Candidates, Narrowed
  <2>3. Ranks(i)[2] = 0 /\ Ranks(j)[2] = 1
    BY <2>1 DEF Ranks
  <2>4. \A m \in 1..(2 - 1) : Ranks(i)[m] = Ranks(j)[m]
    BY <2>2
  <2> QED BY <1>1, <1>3, <2>3, <2>4, Outranked
<1> QED BY <1>3, <1>4, <1>5

\* Two finalists are alike as to the app and their kind.
LEMMA FinalistsAlike ==
  ASSUME DeviceInv, NEW i \in Finalists, NEW j \in Finalists
  PROVE  /\ i \in Places /\ i \in Preferred
         /\ Ranks(i)[1] = Ranks(j)[1] /\ Ranks(i)[2] = Ranks(j)[2]
<1>1. i \in Candidates /\ j \in Candidates
  BY DEF Finalists, Narrowed
<1>2. i \in Preferred /\ j \in Preferred
  BY <1>1 DEF Candidates, Narrowed
<1>3. i \in Places /\ j \in Places
  BY <1>2 DEF Preferred
<1>4. Ranks(i)[1] = Ranks(j)[1]
  BY <1>1 DEF Ranks, Candidates, Narrowed
<1>5. wish.prefer = "any" => (fleet[i].simulator <=> fleet[j].simulator)
  BY <1>1 DEF Finalists, Narrowed
<1>6. Ranks(i)[2] = Ranks(j)[2]
  BY <1>5 DEF Ranks
<1> QED BY <1>2, <1>3, <1>4, <1>6

LEMMA FirstIsLeast ==
  ASSUME NEW c, c \subseteq Places, c # {}
  PROVE  First(c) \in c /\ \A j \in c : First(c) <= j
<1>1. \E i \in c : \A j \in c : i <= j
  <2>1. CASE 1 \in c
    BY <2>1 DEF Places
  <2>2. CASE 1 \notin c
    <3>1. 2 \in c /\ \A j \in c : j = 2
      BY <2>2 DEF Places
    <3> QED BY <3>1
  <2> QED BY <2>1, <2>2
<1> QED BY <1>1 DEF First

\* No device of the preferred kind suits as well as the one that is selected, except for
\* booted simulators.  (selectDevice)
LEMMA SelectedSuits ==
  ASSUME DeviceInv, Selected # 0
  PROVE  /\ Selected \in Preferred
         /\ \A i \in Preferred \ {Selected} :
              Suits(i, Selected) => wish.os = "ios" /\ fleet[i].available
                                    /\ fleet[Selected].available /\ Selected < i
<1>1. Finalists \subseteq Preferred /\ Preferred \subseteq Places
  BY DEF Finalists, Candidates, Narrowed, Preferred
<1>2. IsFiniteSet(Places)
  <2>1. Places = {1} \cup {2}
    BY DEF Places
  <2> QED BY <2>1, FS_Singleton, FS_Union
<1>3. \A c \in SUBSET Places : Cardinality(c) = 1 => \E s \in c : c = {s}
  <2> SUFFICES ASSUME NEW c \in SUBSET Places, Cardinality(c) = 1
               PROVE  \E s \in c : c = {s}
    OBVIOUS
  <2>1. IsFiniteSet(c)
    BY <1>2, FS_Subset
  <2> QED BY <2>1, FS_Singleton
<1>4. PICK s : s = Selected
  OBVIOUS
<1>5. CASE Cardinality(Finalists) = 1
  <2>1. PICK f \in Finalists : Finalists = {f}
    BY <1>1, <1>3, <1>5
  <2>2. s = f
    <3>1. s = First(Finalists)
      BY <1>4, <1>5 DEF Selected
    <3> QED BY <1>1, <2>1, <3>1, FirstIsLeast
  <2>3. \A i \in Preferred \ {s} : ~Suits(i, s)
    BY <2>1, <2>2, NoFinalist
  <2> QED BY <1>1, <1>4, <2>1, <2>2, <2>3
<1>6. CASE Cardinality(Finalists) > 1 /\ BootedFinalists # {}
  <2>1. s = First(BootedFinalists) /\ BootedFinalists \subseteq Finalists
    BY <1>4, <1>6 DEF Selected, BootedFinalists
  <2>2. s \in BootedFinalists /\ \A j \in BootedFinalists : s <= j
    BY <1>1, <1>6, <2>1, FirstIsLeast
  <2>3. s \in Finalists /\ wish.os = "ios" /\ fleet[s].available
    BY <2>2 DEF BootedFinalists
  <2>4. ASSUME NEW i \in Preferred \ {s}, Suits(i, s)
        PROVE  fleet[i].available /\ s < i
    <3>1. i \in Finalists
      BY <2>3, <2>4, NoFinalist
    <3>2. CASE fleet[i].available
      <4>1. s <= i
        BY <2>2, <2>3, <3>1, <3>2 DEF BootedFinalists
      <4>2. i \in Nat /\ s \in Nat /\ i # s
        BY <1>1, <2>3, <2>4 DEF Places
      <4> QED BY <3>2, <4>1, <4>2
    <3>3. CASE ~fleet[i].available
      <4>1. Ranks(i)[3] = 0 /\ Ranks(s)[3] = 1
        BY <2>3, <3>3 DEF Ranks
      <4>2. \A m \in 1..(3 - 1) : Ranks(i)[m] = Ranks(s)[m]
        BY <2>3, <3>1, FinalistsAlike
      <4> QED BY <1>1, <2>3, <2>4, <4>1, <4>2, Outranked
    <3> QED BY <3>2, <3>3
  <2> QED BY <1>1, <1>4, <2>3, <2>4
<1>7. CASE Cardinality(Finalists) > 1 /\ BootedFinalists = {}
           /\ Cardinality(NewestSystem(Finalists)) = 1
  <2>1. NewestSystem(Finalists) \subseteq Finalists
    BY DEF NewestSystem
  <2>2. PICK f \in NewestSystem(Finalists) : NewestSystem(Finalists) = {f}
    BY <1>1, <1>3, <1>7, <2>1
  <2>3. s = f
    <3>1. s = First(NewestSystem(Finalists))
      BY <1>4, <1>7 DEF Selected
    <3> QED BY <1>1, <2>1, <2>2, <3>1, FirstIsLeast
  <2>4. ASSUME NEW i \in Preferred \ {s}
        PROVE  ~Suits(i, s)
    <3>1. CASE i \notin Finalists
      BY <2>1, <2>2, <2>3, <3>1, NoFinalist
    <3>2. CASE i \in Finalists
      <4>1. i \in Places /\ s \in Places /\ s \in Finalists /\ i # s
        BY <1>1, <2>1, <2>2, <2>3, <2>4
      <4>2. \A k \in Places : fleet[k].version \in Nat
        BY VersionsAssumption DEF DeviceInv, Devices
      <4>3. PICK j \in Finalists : ~(fleet[j].version <= fleet[i].version)
        BY <2>2, <2>3, <3>2, <4>1 DEF NewestSystem
      <4>4. fleet[j].version <= fleet[s].version
        BY <2>2, <2>3 DEF NewestSystem
      <4>5. fleet[i].version < fleet[s].version
        BY <1>1, <4>1, <4>2, <4>3, <4>4
      <4>6. Ranks(i)[4] < Ranks(s)[4]
        BY <4>5 DEF Ranks
      <4>7. Ranks(i)[3] = 0 /\ Ranks(s)[3] = 0
        BY <1>7, <3>2, <4>1 DEF Ranks, BootedFinalists
      <4>8. \A m \in 1..(4 - 1) : Ranks(i)[m] = Ranks(s)[m]
        BY <3>2, <4>1, <4>7, FinalistsAlike
      <4> QED BY <4>1, <4>6, <4>8, Outranked
    <3> QED BY <3>1, <3>2
  <2> QED BY <1>1, <1>4, <2>1, <2>2, <2>3, <2>4
<1> QED BY <1>5, <1>6, <1>7 DEF Selected

LEMMA DeviceStart == DeviceInit => DeviceInv
<1> SUFFICES ASSUME DeviceInit PROVE DeviceInv
  OBVIOUS
<1>1. /\ wish \in Wishes /\ fleet \in [Places -> Devices(wish.os)] /\ has \subseteq Places
      /\ seenOn = [i \in Places |-> {Present(i)}] /\ chosen = 0
      /\ checks = [i \in Places |-> IF wish.app /\ fleet[i].available
                                    THEN "unasked" ELSE "unknown"]
  BY DEF DeviceInit
<1>2. \A i \in Places : Present(i) \in seenOn[i]
  BY <1>1
<1>3. \A i \in Places : checks[i] \in {"unasked", "unknown"}
  BY <1>1
<1>4. chosen \in 0..3 /\ chosen \notin Places
  BY <1>1 DEF Places
<1> QED BY <1>1, <1>2, <1>3, <1>4 DEF DeviceInv

\* The app comes or goes.
LEMMA MovesOfApp == ASSUME DeviceInv, NEW i \in Places, AppMoves(i) PROVE DeviceInv'
<1>1. /\ chosen = 0 /\ UNCHANGED <<wish, fleet, checks, chosen>>
      /\ has' = IF i \in has THEN has \ {i} ELSE has \cup {i}
      /\ seenOn' = [seenOn EXCEPT ![i] = seenOn[i] \cup {Present(i)'}]
  BY DEF AppMoves
<1>2. DOMAIN seenOn' = Places /\ Present(i)' \in seenOn'[i]
      /\ \A j \in Places : seenOn[j] \subseteq seenOn'[j]
  BY <1>1 DEF DeviceInv
<1>3. has' \subseteq Places /\ \A j \in Places : j # i => Present(j)' = Present(j)
  BY <1>1 DEF DeviceInv, Present
<1>4. ASSUME NEW j \in Places
      PROVE  /\ Present(j)' \in seenOn'[j]
             /\ checks'[j] \in {"installed", "absent"} => checks'[j] \in seenOn'[j]
  <2>1. seenOn[j] \subseteq seenOn'[j]
    BY <1>2
  <2>2. CASE j = i
    BY <1>1, <1>2, <2>1, <2>2 DEF DeviceInv
  <2>3. CASE j # i
    BY <1>1, <1>3, <2>1, <2>3 DEF DeviceInv
  <2> QED BY <2>2, <2>3
<1>5. chosen' \in 0..3 /\ chosen' \notin Places
  BY <1>1 DEF Places
<1>6. /\ wish' \in Wishes /\ fleet' \in [Places -> Devices(wish.os)'] /\ DOMAIN seenOn' = Places
      /\ checks' \in [Places -> {"unasked", "unconfirmed", "installed", "absent", "unknown"}]
  BY <1>1, <1>2 DEF DeviceInv, Devices
<1> QED BY <1>3, <1>4, <1>5, <1>6 DEF DeviceInv

\* A device answers, fails or says nothing.
LEMMA LearnsOfApp ==
  ASSUME DeviceInv, NEW i \in Places, NEW r \in {"answers", "fails", "silent"},
         Probe(i, r) \/ Confirm(i, r)
  PROVE  DeviceInv'
<1>1. PICK status : Learns(i, status) /\ status \in {Present(i), "unconfirmed", "unknown"}
  <2>1. CASE Probe(i, r)
    BY <2>1 DEF Probe
  <2>2. CASE Confirm(i, r)
    BY <2>2 DEF Confirm
  <2> QED BY <2>1, <2>2
<1>2. /\ chosen = 0 /\ UNCHANGED <<wish, fleet, has, seenOn, chosen>>
      /\ checks' = [checks EXCEPT ![i] = status]
  BY <1>1 DEF Learns
<1>3. status \in {"installed", "absent", "unconfirmed", "unknown"}
  BY <1>1 DEF Present
<1>4. (status \in {"installed", "absent"} => status = Present(i))
      /\ \A j \in Places : Present(j)' = Present(j)
  BY <1>1, <1>2 DEF Present
<1>5. chosen' \in 0..3 /\ chosen' \notin Places
  BY <1>2 DEF Places
<1>6. checks' \in [Places -> {"unasked", "unconfirmed", "installed", "absent", "unknown"}]
      /\ checks'[i] = status /\ \A j \in Places : j # i => checks'[j] = checks[j]
  BY <1>2, <1>3 DEF DeviceInv
<1>7. ASSUME NEW j \in Places
      PROVE  /\ Present(j)' \in seenOn'[j]
             /\ checks'[j] \in {"installed", "absent"} => checks'[j] \in seenOn'[j]
  <2>1. Present(j) \in seenOn[j] /\ seenOn'[j] = seenOn[j]
    BY <1>2 DEF DeviceInv
  <2>2. CASE j = i
    BY <1>4, <1>6, <2>1, <2>2
  <2>3. CASE j # i
    BY <1>4, <1>6, <2>1, <2>3 DEF DeviceInv
  <2> QED BY <2>2, <2>3
<1> QED BY <1>2, <1>5, <1>6, <1>7 DEF DeviceInv, Devices

\* The device is chosen.
LEMMA ChoosesDevice == ASSUME DeviceInv, Inherit \/ ListFails \/ Choose PROVE DeviceInv'
<1>1. UNCHANGED <<wish, fleet, has, seenOn, checks>>
  BY DEF Inherit, ListFails, Choose, Chooses
<1>2. wish.inside \in {0, 1, 2} /\ wish.id \in {0, 2, 3}
  <2>1. wish \in Wishes
    BY DEF DeviceInv
  <2>2. wish.inside \in {0, 1, 2}
    BY <2>1 DEF Wishes
  <2>3. wish.id \in {0, 2, 3}
    BY <2>1 DEF Wishes
  <2> QED BY <2>2, <2>3
<1>3. chosen' \in 0..3 /\ (chosen' \in Places => ChosenWell(chosen'))
  <2>1. CASE Inherit
    BY <1>2, <2>1 DEF Inherit, Inherits, Chooses, ChosenWell, Places
  <2>2. CASE ListFails
    BY <2>2 DEF ListFails, Chooses, Places
  <2>3. CASE Choose
    <3>1. CASE wish.id # 0
      BY <1>2, <2>3, <3>1 DEF Choose, Chooses, ChosenWell
    <3>2. CASE wish.id = 0 /\ Selected # 0
      <4>1. chosen' = Selected
        BY <2>3, <3>2 DEF Choose, Chooses
      <4>2. Selected \in {1, 2}
        BY <3>2, SelectedSuits DEF Preferred, Places
      <4> QED BY <3>2, <4>1, <4>2, SelectedSuits DEF ChosenWell
    <3>3. CASE wish.id = 0 /\ Selected = 0
      BY <2>3, <3>3 DEF Choose, Chooses, Places
    <3> QED BY <3>1, <3>2, <3>3
  <2> QED BY <2>1, <2>2, <2>3
<1>4. ASSUME chosen' \in Places PROVE ChosenWell(chosen)'
  BY <1>1, <1>3, <1>4 DEF ChosenWell, Preferred, Suits
<1> QED BY <1>1, <1>3, <1>4 DEF DeviceInv, Devices, Present

LEMMA DeviceStep == DeviceInv /\ [DeviceNext]_deviceVars => DeviceInv'
<1> SUFFICES ASSUME DeviceInv, [DeviceNext]_deviceVars PROVE DeviceInv'
  OBVIOUS
<1>1. CASE UNCHANGED deviceVars
  <2>1. UNCHANGED <<wish, fleet, has, seenOn, checks, chosen>>
    BY <1>1 DEF deviceVars
  <2>2. chosen' \in Places => ChosenWell(chosen)'
    BY <2>1 DEF DeviceInv, ChosenWell, Preferred, Suits
  <2> QED BY <2>1, <2>2 DEF DeviceInv, Devices, Present
<1> QED BY <1>1, MovesOfApp, LearnsOfApp, ChoosesDevice DEF DeviceNext

\* A call runs on the device it names, or on one of the kind it prefers that no other suits
\* as well, booted simulators apart; and what the list says of the app was so while the
\* list was made.  (resolveDevice, selectDevice, probeInstallation)
THEOREM TargetsHonestly == DeviceSpec => []TargetIsHonest
<1>1. DeviceInv => TargetIsHonest
  BY DEF DeviceInv, ChosenWell, TargetIsHonest
<1> QED BY <1>1, DeviceStart, DeviceStep, PTL DEF DeviceSpec

----------------------------------------------------------------------------
(* Elements *)

LEMMA LeastElement ==
  ASSUME NEW s, s \subseteq Nat, s # {}
  PROVE  \E i \in s : \A j \in s : i <= j
<1>1. PICK i \in s : \A j \in s : ~(<<j, i>> \in OpToRel(<, Nat))
  BY NatLessThanWellFounded, WFMin, Zenon
<1>2. \A j \in s : ~(j < i)
  BY <1>1 DEF OpToRel
<1> QED BY <1>2

\* A handle is read for the device that the call names; what a call acts on is the element.
HandleInv ==
  /\ showing \in [HandleDevices -> HandleTrees]
  /\ DOMAIN touch = {"step", "id", "device", "stored", "tree", "index", "result"}
  /\ touch.step \in {"idle", "read", "done"}
  /\ touch.step # "done" => touch.result = "none"
  /\ touch.step = "read" => touch.device \in {"any", touch.id[1]}
  /\ TapsTheElement

LEMMA FirstOfIsFirst ==
  ASSUME NEW s, s \subseteq Nat, s # {}
  PROVE  FirstOf(s) \in s
BY LeastElement DEF FirstOf

LEMMA HandlesStart == HandlesInit => HandleInv
BY DEF HandlesInit, NoTouch, HandleInv, TapsTheElement

\* A handle is looked up.
LEMMA TapStep ==
  ASSUME HandleInv, NEW id \in Ids, NEW device \in HandleDevices \cup {"any"}, Tap(id, device)
  PROVE  HandleInv'
<1>1. UNCHANGED <<showing, handles>> /\ touch.step = "idle"
  BY DEF Tap
<1>2. PICK t : t = [touch EXCEPT !.id = id, !.device = device]
  OBVIOUS
<1>3. /\ DOMAIN t = DOMAIN touch /\ t.step = "idle" /\ t.id = id /\ t.device = device
      /\ t.result = "none"
  BY <1>1, <1>2 DEF HandleInv
<1>4. CASE touch' = [t EXCEPT !.step = "done", !.result = "stale"]
  <2>1. DOMAIN touch' = DOMAIN t /\ touch'.step = "done" /\ touch'.result = "stale"
    BY <1>3, <1>4 DEF HandleInv
  <2> QED BY <1>1, <1>3, <2>1 DEF HandleInv, TapsTheElement
<1>5. CASE /\ device \in {"any", id[1]}
           /\ touch' = [t EXCEPT !.step = "read", !.stored = KeptHandles(id)[1].stable]
  <2>1. /\ DOMAIN touch' = DOMAIN t /\ touch'.step = "read" /\ touch'.result = "none"
        /\ touch'.id = id /\ touch'.device = device
    BY <1>3, <1>5 DEF HandleInv
  <2> QED BY <1>1, <1>3, <1>5, <2>1 DEF HandleInv, TapsTheElement
<1> QED BY <1>2, <1>4, <1>5 DEF Tap

\* The element is the one at the index, with the looks that the id is made of and the
\* stable id that was stored, if one was.  (resolveTap, _isTapActionable)
LEMMA ReadsTheElement ==
  ASSUME NEW tree, NEW id, NEW i, i = Current(tree, id), NEW stored, i # 0,
         Actionable(tree[i], stored) = "sent"
  PROVE  /\ <<id[1], tree[i].looks, i>> = id /\ tree[i].tappable
         /\ stored \in {"none", tree[i].stable}
<1>1. ElementId(id[1], tree, id[3]) = id /\ i = id[3]
  BY DEF Current
<1>2. tree[i].tappable /\ stored \in {"none", tree[i].stable}
  BY DEF Actionable
<1> QED BY <1>1, <1>2 DEF ElementId

LEMMA TapReadsStep == ASSUME HandleInv, TapReads PROVE HandleInv'
<1>1. PICK tree : tree = showing[touch.id[1]]
  OBVIOUS
<1>2. PICK i : i = Current(tree, touch.id)
  OBVIOUS
<1>3. PICK result : result = IF i = 0 THEN "stale" ELSE Actionable(tree[i], touch.stored)
  OBVIOUS
<1>4. /\ touch' = [touch EXCEPT !.step = "done", !.tree = tree, !.index = i, !.result = result]
      /\ UNCHANGED <<showing, handles>> /\ touch.step = "read"
  BY <1>1, <1>2, <1>3 DEF TapReads
<1>5. /\ DOMAIN touch' = DOMAIN touch /\ touch'.step = "done" /\ touch'.tree = tree
      /\ touch'.index = i /\ touch'.result = result /\ touch'.id = touch.id
      /\ touch'.device = touch.device /\ touch'.stored = touch.stored
  BY <1>4 DEF HandleInv
<1>6. result # "scoped"
  BY <1>3 DEF Actionable
<1>7. ASSUME result = "sent"
      PROVE  /\ <<touch.id[1], tree[i].looks, i>> = touch.id /\ tree[i].tappable
             /\ touch.stored \in {"none", tree[i].stable}
  <2>1. i # 0 /\ Actionable(tree[i], touch.stored) = "sent"
    BY <1>3, <1>7
  <2> QED BY <1>2, <2>1, ReadsTheElement
<1>8. TapsTheElement'
  BY <1>4, <1>5, <1>6, <1>7 DEF TapsTheElement, HandleInv
<1> QED BY <1>4, <1>5, <1>8 DEF HandleInv

\* The root of a subtree has the id that is asked for, or else the stable id it stands
\* for.  (findScopedElement)
LEMMA RootIsIt ==
  ASSUME NEW d, NEW tree \in HandleTrees, NEW target, NEW i, i = Root(d, tree, target), i # 0
  PROVE  LET same == {j \in DOMAIN tree : ElementId(d, tree, j) = target}
         IN  IF same # {} THEN i \in same
             ELSE tree[i].stable = StoredKey(target) /\ StoredKey(target) # "none"
<1> DEFINE same == {j \in DOMAIN tree : ElementId(d, tree, j) = target}
<1>1. DOMAIN tree \subseteq Nat
  BY HandleTreesAssumption
<1>2. CASE same # {}
  <2>1. i = FirstOf(same) /\ same \subseteq Nat
    BY <1>1, <1>2 DEF Root
  <2> QED BY <1>2, <2>1, FirstOfIsFirst
<1>3. CASE same = {}
  <2>1. PICK key : key = StoredKey(target)
    OBVIOUS
  <2>2. PICK with : with = {j \in DOMAIN tree : key # "none" /\ tree[j].stable = key}
    OBVIOUS
  <2>3. i = FirstOf(with)
    BY <1>3, <2>1, <2>2 DEF Root, WithStable
  <2>4. with # {} /\ with \subseteq Nat
    BY <1>1, <2>2, <2>3 DEF FirstOf
  <2>5. i \in with
    BY <2>3, <2>4, FirstOfIsFirst
  <2>6. tree[i].stable = key /\ key # "none"
    BY <2>2, <2>5
  <2> QED BY <1>3, <2>1, <2>6
<1> QED BY <1>2, <1>3

LEMMA SubtreeStep ==
  ASSUME HandleInv, NEW d \in HandleDevices, NEW target, Subtree(d, target)
  PROVE  HandleInv'
<1>1. PICK tree : tree = showing[d]
  OBVIOUS
<1>2. PICK i : i = Root(d, tree, target)
  OBVIOUS
<1>3. PICK key : key = StoredKey(target)
  OBVIOUS
<1>4. PICK result : result = IF i = 0 THEN "not found" ELSE "scoped"
  OBVIOUS
<1>5. /\ touch' = [touch EXCEPT !.step = "done", !.id = target, !.device = d,
                     !.stored = key, !.tree = tree, !.index = i, !.result = result]
      /\ UNCHANGED <<showing, handles>>
  BY <1>1, <1>2, <1>3, <1>4 DEF Subtree
<1>6. /\ DOMAIN touch' = DOMAIN touch /\ touch'.step = "done" /\ touch'.tree = tree
      /\ touch'.index = i /\ touch'.result = result /\ touch'.id = target
      /\ touch'.device = d /\ touch'.stored = key
  BY <1>5 DEF HandleInv
<1>7. tree \in HandleTrees
  BY <1>1 DEF HandleInv
<1>8. result # "sent" /\ (result = "scoped" => i # 0)
  BY <1>4
<1>9. ASSUME result = "scoped"
      PROVE  LET same == {j \in DOMAIN tree : ElementId(d, tree, j) = target}
             IN  IF same # {} THEN i \in same ELSE tree[i].stable = key /\ key # "none"
  BY <1>2, <1>3, <1>7, <1>8, <1>9, RootIsIt
<1>10. TapsTheElement'
  <2> SUFFICES ASSUME result = "scoped"
               PROVE  LET same == {j \in DOMAIN touch'.tree :
                                     ElementId(touch'.device, touch'.tree, j) = touch'.id}
                      IN  IF same # {} THEN touch'.index \in same
                          ELSE touch'.tree[touch'.index].stable = touch'.stored
                               /\ touch'.stored # "none"
    BY <1>6, <1>8 DEF TapsTheElement, ElementId
  <2> QED BY <1>6, <1>9
<1> QED BY <1>5, <1>6, <1>10 DEF HandleInv

LEMMA HandlesStep == HandleInv /\ [HandlesNext]_handleVars => HandleInv'
<1> SUFFICES ASSUME HandleInv, [HandlesNext]_handleVars PROVE HandleInv'
  OBVIOUS
<1>1. CASE UNCHANGED handleVars
  BY <1>1 DEF handleVars, HandleInv, TapsTheElement, ElementId
<1>2. CASE Forget
  BY <1>2 DEF Forget, NoTouch, HandleInv, TapsTheElement
<1>3. ASSUME NEW d \in HandleDevices, NEW tree \in HandleTrees, ScreenMoves(d, tree)
      PROVE  HandleInv'
  BY <1>3 DEF ScreenMoves, HandleInv, TapsTheElement, ElementId
<1>4. ASSUME NEW d \in HandleDevices, NEW i \in 1..2, Resolve(d, i)
      PROVE  HandleInv'
  BY <1>4 DEF Resolve, HandleInv, TapsTheElement, ElementId
<1> QED BY <1>1, <1>2, <1>3, <1>4, TapStep, TapReadsStep, SubtreeStep DEF HandlesNext

\* A tap by a handle is sent to an element that the tree read for it shows where the handle
\* saw it, on the device of the handle and of the call, looking the same and of the same
\* stable id; a subtree is that of the element with the id, or else of the first with the
\* stable id.  (tapElementHandler, resolveTap, findScopedElement)
THEOREM TapsHonestly == HandlesSpec => []TapsTheElement
<1>1. HandleInv => TapsTheElement
  BY DEF HandleInv
<1> QED BY <1>1, HandlesStart, HandlesStep, PTL DEF HandlesSpec

----------------------------------------------------------------------------
(* The search for an element *)

LEMMA LeastIsOne ==
  ASSUME NEW s, s \subseteq Nat, s # {}
  PROVE  Least(s) \in s /\ \A j \in s : Least(s) <= j
BY LeastElement DEF Least

\* A score is a number of hundredths, and only a field that matches gives one.
LEMMA TextScored ==
  ASSUME NEW e
  PROVE  /\ TextScore(e) \in 0..100
         /\ exact /\ TextScore(e) # 0 => "equal" \in Fields(e)
<1>1. CASE TextMatches(e) = {}
  BY <1>1 DEF TextScore
<1>2. CASE TextMatches(e) # {}
  <2>1. TextMatches(e) \subseteq 1..7
    BY DEF TextMatches
  <2>2. TextMatches(e) \subseteq Nat
    BY <2>1
  <2>3. PICK n : n = Least(TextMatches(e))
    OBVIOUS
  <2>4. n \in TextMatches(e) /\ n \in 1..7
    BY <1>2, <2>1, <2>2, <2>3, LeastIsOne
  <2>5. TextScore(e) = <<100, 95, 92, 60, 55, 70, 30>>[n]
    BY <1>2, <2>3 DEF TextScore
  <2>6. TextScore(e) \in 0..100
    BY <2>4, <2>5
  <2>7. exact => <<e.text, e.content, e.resource, e.text, e.content, e.resource,
                   e.class>>[n] = "equal"
    BY <2>4 DEF TextMatches, Agrees
  <2>8. <<e.text, e.content, e.resource, e.text, e.content, e.resource, e.class>>[n]
        \in Fields(e)
    BY <2>4 DEF Fields
  <2> QED BY <2>6, <2>7, <2>8
<1> QED BY <1>1, <1>2

LEMMA SemanticScored ==
  ASSUME NEW e
  PROVE  /\ SemanticScore(e) \in 0..100
         /\ exact /\ SemanticScore(e) # 0 => "equal" \in Fields(e)
<1>1. PICK text : text = TextScore(e)
  OBVIOUS
<1>2. text \in 0..100 /\ (exact /\ text # 0 => "equal" \in Fields(e))
  BY <1>1, TextScored
<1>3. PICK role : role = IF text = 0 /\ Agrees(e.role) THEN 50 ELSE text
  OBVIOUS
<1>4. role \in 0..100 /\ (exact /\ role # 0 => "equal" \in Fields(e))
  BY <1>2, <1>3 DEF Agrees, Fields
<1>5. PICK action : action = IF role = 0 THEN 60 ELSE IF role < 65 THEN 65 ELSE role
  OBVIOUS
<1>6. action \in 0..100
  BY <1>4, <1>5
<1>7. SemanticScore(e) = IF Agrees(e.action) THEN action
                         ELSE IF role = 0 /\ e.adjustable /\ ~exact THEN 45 ELSE role
  BY <1>1, <1>3, <1>5 DEF SemanticScore
<1>8. exact /\ Agrees(e.action) => "equal" \in Fields(e)
  BY DEF Agrees, Fields
<1> QED BY <1>4, <1>6, <1>7, <1>8

LEMMA Scored ==
  ASSUME NEW e
  PROVE  /\ Score(e) \in 0..105
         /\ exact /\ Score(e) > 0 => "equal" \in Fields(e)
<1>1. PICK s : s = SemanticScore(e)
  OBVIOUS
<1>2. s \in 0..100 /\ (exact /\ s # 0 => "equal" \in Fields(e))
  BY <1>1, SemanticScored
<1>3. Score(e) = IF ~e.shown \/ s = 0 THEN 0 ELSE s + (IF Interactable(e) THEN 5 ELSE 0)
  BY <1>1 DEF Score
<1> QED BY <1>2, <1>3

\* The query stays as it is, and so do the scores.
LEMMA ScoresStay ==
  ASSUME UNCHANGED exact
  PROVE  \A e : Score(e)' = Score(e)
<1>1. \A f : Agrees(f)' = Agrees(f)
  BY DEF Agrees
<1>2. \A e : TextMatches(e)' = TextMatches(e)
  BY <1>1 DEF TextMatches
<1>3. \A e : TextScore(e)' = TextScore(e)
  BY <1>2 DEF TextScore
<1>4. \A e : SemanticScore(e)' = SemanticScore(e)
  BY <1>1, <1>3 DEF SemanticScore
<1> QED BY <1>4 DEF Score

\* The best so far is of a tree that was read, and none of any of them is better unless it
\* is sure; an answer is for it.
BestSoFar ==
  /\ polled \subseteq SearchTrees
  /\ search.score \in Nat
  /\ search.best = 0 => search.score = 0
  /\ search.best # 0 =>
       /\ search.tree \in polled /\ search.best \in DOMAIN search.tree
       /\ search.score = Score(search.tree[search.best]) /\ search.score > 0
       /\ \A j \in search.candidates : Score(search.tree[j]) > 0
  /\ ~Sure => \A t \in polled : \A i \in DOMAIN t : Score(t[i]) <= search.score

Answered ==
  \/ searchAnswer.state = "searching"
  \/ searchAnswer.state = "absent" /\ search.best = 0
  \/ /\ searchAnswer.state = "found" /\ search.best # 0
     /\ \/ searchAnswer.index = search.best
        \/ search.tree[searchAnswer.index].trait \/ search.tree[searchAnswer.index].enabled
     /\ \A j \in searchAnswer.alternates : j # searchAnswer.index /\ j \in search.candidates

SearchInv == BestSoFar /\ Answered

LEMMA SearchStart == SearchInit => SearchInv
BY DEF SearchInit, SearchInv, BestSoFar, Answered, Sure

\* There is a best one among elements that have been scored.
LEMMA BestElement ==
  ASSUME NEW t, NEW s, s # {}
  PROVE  \E i \in s : \A j \in s : Score(t[j]) <= Score(t[i])
<1> DEFINE short == {105 - Score(t[i]) : i \in s}
<1>1. \A i \in s : Score(t[i]) \in 0..105
  BY Scored
<1>2. short \subseteq Nat
  BY <1>1
<1>3. short # {}
  OBVIOUS
<1>4. PICK m \in short : \A n \in short : m <= n
  BY <1>2, <1>3, LeastElement
<1>5. PICK i \in s : m = 105 - Score(t[i])
  OBVIOUS
<1>6. ASSUME NEW j \in s PROVE Score(t[j]) <= Score(t[i])
  <2>1. m <= 105 - Score(t[j])
    BY <1>4
  <2> QED BY <1>1, <1>5, <2>1
<1> QED BY <1>6

\* Reading a tree keeps the best of all that were read.  (scoreTree)
LEMMA ReadsStep ==
  ASSUME SearchInv, NEW tree \in SearchTrees, SearchReads(tree)
  PROVE  SearchInv'
<1> DEFINE scored == {i \in DOMAIN tree : Score(tree[i]) > 0}
           sure == {i \in scored : Score(tree[i]) >= 95}
           looked == {i \in scored : sure = {} \/ i <= Least(sure)}
           top == {i \in looked : \A j \in looked : Score(tree[j]) <= Score(tree[i])}
<1>1. /\ searchAnswer.state = "searching" /\ ~Sure /\ search' = ScoreTree(tree)
      /\ polled' = polled \cup {tree} /\ UNCHANGED <<exact, searchAnswer>>
  BY DEF SearchReads
<1>2. /\ search.score \in Nat /\ search.score < 95
      /\ \A t \in polled : \A i \in DOMAIN t : Score(t[i]) <= search.score
  BY <1>1 DEF SearchInv, BestSoFar, Sure
<1>3. DOMAIN tree \subseteq Nat /\ 0 \notin DOMAIN tree
  BY SearchTreesAssumption
<1>4. \A i \in DOMAIN tree : Score(tree[i]) \in 0..105
  BY Scored
<1>5. scored # {} => looked # {}
  <2>1. CASE sure = {}
    BY <2>1
  <2>2. CASE sure # {}
    <3>1. sure \subseteq Nat
      BY <1>3
    <3>2. Least(sure) \in sure
      BY <2>2, <3>1, LeastIsOne
    <3>3. Least(sure) \in Nat
      BY <3>1, <3>2
    <3> QED BY <3>2, <3>3
  <2> QED BY <2>1, <2>2
<1>6. scored # {} => top # {}
  BY <1>5, BestElement
<1>7. ASSUME sure # {}
      PROVE  \A i \in top : Score(tree[i]) >= 95
  <2>1. sure \subseteq Nat
    BY <1>3
  <2>2. PICK k : k = Least(sure)
    OBVIOUS
  <2>3. k \in sure /\ k \in Nat
    BY <1>7, <2>1, <2>2, LeastIsOne
  <2>4. k \in looked
    BY <2>2, <2>3
  <2>5. Score(tree[k]) >= 95 /\ Score(tree[k]) \in 0..105
    BY <1>4, <2>3
  <2>6. ASSUME NEW i \in top PROVE Score(tree[i]) >= 95
    <3>1. Score(tree[k]) <= Score(tree[i]) /\ Score(tree[i]) \in 0..105
      BY <1>4, <2>4
    <3> QED BY <2>5, <3>1
  <2> QED BY <2>6
<1>8. ASSUME NEW i \in top
      PROVE  \/ Score(tree[i]) >= 95
             \/ \A j \in DOMAIN tree : Score(tree[j]) <= Score(tree[i])
  <2>1. CASE sure # {}
    BY <1>7, <2>1
  <2>2. CASE sure = {}
    <3>1. ASSUME NEW j \in DOMAIN tree PROVE Score(tree[j]) <= Score(tree[i])
      <4>1. CASE j \in scored
        BY <2>2, <4>1
      <4>2. CASE j \notin scored
        BY <1>4, <4>2
      <4> QED BY <4>1, <4>2
    <3> QED BY <3>1
  <2> QED BY <2>1, <2>2
<1>9. CASE top = {} \/ Score(tree[Least(top)]) <= search.score
  <2>1. search' = search
    BY <1>1, <1>9 DEF ScoreTree
  <2>2. ASSUME NEW j \in DOMAIN tree PROVE Score(tree[j]) <= search.score
    <3>1. CASE top = {}
      <4>1. j \notin scored
        BY <1>6, <3>1
      <4> QED BY <1>2, <1>4, <4>1
    <3>2. CASE top # {}
      <4>1. PICK i : i = Least(top)
        OBVIOUS
      <4>2. i \in top
        <5>1. top \subseteq Nat
          BY <1>3
        <5> QED BY <3>2, <4>1, <5>1, LeastIsOne
      <4>3. Score(tree[i]) <= search.score /\ Score(tree[i]) \in 0..105
        BY <1>4, <1>9, <3>2, <4>1, <4>2
      <4>4. Score(tree[j]) <= Score(tree[i]) /\ Score(tree[j]) \in 0..105
        BY <1>2, <1>4, <1>8, <4>2, <4>3
      <4> QED BY <1>2, <4>3, <4>4
    <3> QED BY <3>1, <3>2
  <2>3. BestSoFar'
    BY <1>1, <1>2, <2>1, <2>2, ScoresStay DEF SearchInv, BestSoFar, Sure
  <2> QED BY <1>1, <2>3 DEF SearchInv, Answered
<1>10. CASE ~(top = {} \/ Score(tree[Least(top)]) <= search.score)
  <2>1. PICK i : i = Least(top)
    OBVIOUS
  <2>2. i \in top
    <3>1. top \subseteq Nat
      BY <1>3
    <3> QED BY <1>10, <2>1, <3>1, LeastIsOne
  <2>3. search' = [best |-> i, score |-> Score(tree[i]), tree |-> tree, candidates |-> looked]
    BY <1>1, <1>10, <2>1 DEF ScoreTree
  <2>4. Score(tree[i]) \in Nat /\ Score(tree[i]) > search.score /\ i # 0 /\ i \in DOMAIN tree
    BY <1>2, <1>3, <1>4, <1>10, <2>1, <2>2
  <2>5. \A e : Score(e)' = Score(e)
    BY <1>1, ScoresStay
  <2>6. ~(Score(tree[i]) >= 95) =>
          \A t \in polled' : \A j \in DOMAIN t : Score(t[j]) <= Score(tree[i])
    <3> SUFFICES ASSUME ~(Score(tree[i]) >= 95), NEW t \in polled', NEW j \in DOMAIN t
                 PROVE  Score(t[j]) <= Score(tree[i])
      OBVIOUS
    <3>1. CASE t = tree
      BY <1>8, <2>2, <3>1
    <3>2. CASE t \in polled
      <4>1. Score(t[j]) <= search.score /\ Score(t[j]) \in 0..105
        BY <1>2, <3>2, Scored
      <4> QED BY <1>2, <2>4, <4>1
    <3> QED BY <1>1, <3>1, <3>2
  <2>7. \A j \in looked : Score(tree[j]) > 0
    OBVIOUS
  <2>8. BestSoFar'
    <3>1. polled' \subseteq SearchTrees /\ tree \in polled'
      BY <1>1 DEF SearchInv, BestSoFar
    <3>2. /\ search'.best = i /\ search'.score = Score(tree[i]) /\ search'.tree = tree
          /\ search'.candidates = looked
      BY <2>3
    <3>3. Score(tree[i]) > 0
      BY <1>2, <2>4
    <3> QED BY <2>4, <2>5, <2>6, <2>7, <3>1, <3>2, <3>3 DEF BestSoFar, Sure
  <2> QED BY <1>1, <2>8 DEF SearchInv, Answered
<1> QED BY <1>9, <1>10

\* What stands for a match is the match, or a control.  (preferActionable)
LEMMA StandsFor ==
  ASSUME NEW tree \in SearchTrees, NEW m, NEW i \in Stands(tree, m)
  PROVE  i = m \/ tree[i].trait \/ tree[i].enabled
<1>1. ASSUME Ancestor(tree, m) # 0
      PROVE  tree[Ancestor(tree, m)].trait \/ tree[Ancestor(tree, m)].enabled
  <2>1. PICK up : up = Up(tree, m)
    OBVIOUS
  <2> DEFINE hits == {n \in 1..20 : up[n] # 0 /\ (tree[up[n]].trait \/ tree[up[n]].enabled)}
  <2>2. Ancestor(tree, m) = up[Least(hits)] /\ hits # {}
    BY <1>1, <2>1 DEF Ancestor
  <2>3. Least(hits) \in hits
    <3>1. hits \subseteq Nat
      OBVIOUS
    <3> HIDE DEF hits
    <3> QED BY <2>2, <3>1, LeastIsOne
  <2> QED BY <2>2, <2>3
<1>2. ASSUME Containing(tree, m) # 0 PROVE tree[Containing(tree, m)].trait
  <2> DEFINE around == {j \in DOMAIN tree : tree[j].trait /\ Encloses(tree[j].box, tree[m].box)}
             small == {j \in around : \A k \in around : Area(tree[j].box) <= Area(tree[k].box)}
  <2>1. Containing(tree, m) = Least(small) /\ small # {}
    BY <1>2 DEF Containing
  <2>2. small \subseteq Nat
    BY SearchTreesAssumption
  <2>3. Least(small) \in small
    BY <2>1, <2>2, LeastIsOne
  <2> QED BY <2>1, <2>3
<1>3. PICK e : e = Enclosing(tree, m)
  OBVIOUS
<1>4. e = m \/ tree[e].trait \/ tree[e].enabled
  BY <1>1, <1>2, <1>3 DEF Enclosing
<1>5. i = e \/ i \in Near(tree, e)
  BY <1>3 DEF Stands
<1>6. i \in Near(tree, e) => tree[i].trait
  BY DEF Near
<1> QED BY <1>4, <1>5, <1>6

LEMMA EndsSearch == ASSUME SearchInv, SearchEnds PROVE SearchInv'
<1>1. UNCHANGED <<exact, search, polled>>
  BY DEF SearchEnds
<1>2. BestSoFar'
  BY <1>1, ScoresStay DEF SearchInv, BestSoFar, Sure
<1>3. CASE search.best = 0
  <2>1. searchAnswer' = [state |-> "absent"]
    BY <1>3 DEF SearchEnds
  <2> QED BY <1>1, <1>2, <1>3, <2>1 DEF SearchInv, Answered
<1>4. CASE search.best # 0
  <2>1. PICK i \in Stands(search.tree, search.best), alternates \in SUBSET search.candidates :
          /\ searchAnswer' = [state |-> "found", index |-> i, alternates |-> alternates]
          /\ i \notin alternates
    <3>1. PICK i \in Stands(search.tree, search.best) :
            LET others == search.candidates \ {i} IN
            searchAnswer' = [state |-> "found", index |-> i,
                      alternates |-> {j \in others : Cardinality({k \in others : k < j}) < 3}]
      BY <1>4 DEF SearchEnds
    <3> DEFINE others == search.candidates \ {i}
    <3>2. PICK alternates :
            alternates = {j \in others : Cardinality({k \in others : k < j}) < 3}
      OBVIOUS
    <3>3. alternates \in SUBSET search.candidates /\ i \notin alternates
      BY <3>2
    <3> QED BY <3>1, <3>2, <3>3
  <2>2. search.tree \in SearchTrees
    BY <1>4 DEF SearchInv, BestSoFar
  <2>3. i = search.best \/ search.tree[i].trait \/ search.tree[i].enabled
    BY <2>1, <2>2, StandsFor
  <2>4. /\ searchAnswer'.state = "found" /\ searchAnswer'.index = i
        /\ searchAnswer'.alternates = alternates
    BY <2>1
  <2>5. Answered'
    BY <1>1, <1>4, <2>1, <2>3, <2>4 DEF Answered
  <2> QED BY <1>2, <2>5 DEF SearchInv
<1> QED BY <1>3, <1>4

LEMMA SearchStep == SearchInv /\ [SearchNext]_searchVars => SearchInv'
<1> SUFFICES ASSUME SearchInv, [SearchNext]_searchVars PROVE SearchInv'
  OBVIOUS
<1>1. CASE UNCHANGED searchVars
  BY <1>1, ScoresStay DEF searchVars, SearchInv, BestSoFar, Answered, Sure
<1> QED BY <1>1, ReadsStep, EndsSearch DEF SearchNext

\* What find_element answers is all of one tree that it has read: the best match or a
\* control around or near it, with others that match; none of any tree that was read
\* matches better unless the match is sure, an exact match has a field that equals the
\* query, and nothing is absent that some tree showed.  (findElement, scoreTree)
THEOREM FindsHonestly == SearchSpec => []FindIsHonest
<1>1. SearchInv => FindIsHonest
  <2> SUFFICES ASSUME SearchInv PROVE FindIsHonest
    OBVIOUS
  <2>1. ASSUME searchAnswer.state = "absent", NEW t \in polled, NEW i \in DOMAIN t
        PROVE  Score(t[i]) = 0
    <3>1. search.best = 0
      BY <2>1 DEF SearchInv, Answered
    <3>2. search.score = 0 /\ ~Sure
      BY <3>1 DEF SearchInv, BestSoFar, Sure
    <3>3. Score(t[i]) <= 0 /\ Score(t[i]) \in 0..105
      BY <2>1, <3>2, Scored DEF SearchInv, BestSoFar
    <3> QED BY <3>3
  <2>2. ASSUME searchAnswer.state = "found"
        PROVE  LET t == search.tree
                   m == search.best
               IN  /\ t \in polled /\ Score(t[m]) > 0
                   /\ exact => "equal" \in Fields(t[m])
                   /\ Score(t[m]) < 95 =>
                        \A u \in polled : \A i \in DOMAIN u : Score(u[i]) <= Score(t[m])
                   /\ \/ searchAnswer.index = m
                      \/ (t[searchAnswer.index].trait \/ t[searchAnswer.index].enabled)
                   /\ \A j \in searchAnswer.alternates :
                        j # searchAnswer.index /\ Score(t[j]) > 0
    <3> DEFINE t == search.tree
               m == search.best
    <3>1. /\ m # 0
          /\ searchAnswer.index = m
             \/ t[searchAnswer.index].trait \/ t[searchAnswer.index].enabled
          /\ \A j \in searchAnswer.alternates :
               j # searchAnswer.index /\ j \in search.candidates
      BY <2>2 DEF SearchInv, Answered
    <3>2. /\ t \in polled /\ search.score = Score(t[m]) /\ Score(t[m]) > 0
          /\ \A j \in search.candidates : Score(t[j]) > 0
      BY <3>1 DEF SearchInv, BestSoFar
    <3>3. exact => "equal" \in Fields(t[m])
      BY <3>2, Scored
    <3>4. Score(t[m]) \in 0..105
      BY Scored
    <3>5. Score(t[m]) < 95 => \A u \in polled : \A i \in DOMAIN u : Score(u[i]) <= Score(t[m])
      BY <3>2, <3>4 DEF SearchInv, BestSoFar, Sure
    <3> QED BY <3>1, <3>2, <3>3, <3>5
  <2> QED BY <2>1, <2>2 DEF FindIsHonest
<1> QED BY <1>1, SearchStart, SearchStep, PTL DEF SearchSpec

----------------------------------------------------------------------------
(* The events of a session *)

\* The ring holds the numbers up to the last one without a gap.
EventInv ==
  /\ sequence \in Nat /\ cursor \in 0..sequence
  /\ ring \in Seq(Nat) /\ Len(ring) <= RingSize /\ Len(ring) <= sequence
  /\ \A k \in 1..Len(ring) : ring[k] = sequence - Len(ring) + k
  /\ EventsAreComplete

LEMMA EventStart == EventInit => EventInv
<1> SUFFICES ASSUME EventInit PROVE EventInv
  OBVIOUS
<1>1. ring = <<>> /\ sequence = 0 /\ cursor = 0 /\ client = [given |-> {}, missed |-> {}]
  BY DEF EventInit
<1>2. ring \in Seq(Nat) /\ Len(ring) = 0
  BY <1>1
<1> QED BY <1>1, <1>2, RingAssumption DEF EventInv, EventsAreComplete

LEMMA ReceivedStep == ASSUME EventInv, Received PROVE EventInv'
<1> DEFINE n == Len(ring)
<1>1. PICK all : all = Append(ring, sequence + 1)
  OBVIOUS
<1>2. /\ sequence' = sequence + 1 /\ UNCHANGED <<cursor, client>>
      /\ ring' = IF Len(all) > RingSize THEN Tail(all) ELSE all
  BY <1>1 DEF Received
<1>3. /\ sequence \in Nat /\ cursor \in 0..sequence /\ n \in Nat /\ n <= RingSize
      /\ RingSize \in Nat \ {0} /\ n <= sequence /\ ring \in Seq(Nat)
      /\ \A k \in 1..n : ring[k] = sequence - n + k
  BY RingAssumption DEF EventInv
<1>4. /\ all \in Seq(Nat) /\ Len(all) = n + 1
      /\ \A k \in 1..n : all[k] = ring[k]
      /\ all[n + 1] = sequence + 1
  BY <1>1, <1>3, OneMore
<1>5. \A k \in 1..(n + 1) : all[k] = (sequence + 1) - (n + 1) + k
  <2> SUFFICES ASSUME NEW k \in 1..(n + 1) PROVE all[k] = (sequence + 1) - (n + 1) + k
    OBVIOUS
  <2>1. CASE k \in 1..n
    BY <1>3, <1>4, <2>1
  <2>2. CASE k = n + 1
    BY <1>3, <1>4, <2>2
  <2> QED BY <1>3, <2>1, <2>2
<1>6. /\ ring' \in Seq(Nat) /\ Len(ring') <= RingSize /\ Len(ring') <= sequence'
      /\ \A k \in 1..Len(ring') : ring'[k] = sequence' - Len(ring') + k
  <2>1. CASE Len(all) > RingSize
    <3>1. ring' = Tail(all) /\ n = RingSize
      BY <1>2, <1>3, <1>4, <2>1
    <3>2. ring' \in Seq(Nat) /\ Len(ring') = n
      BY <1>3, <1>4, <3>1
    <3>3. \A k \in 1..n : ring'[k] = all[k + 1]
      BY <1>3, <1>4, <3>1
    <3>4. ASSUME NEW k \in 1..n PROVE ring'[k] = sequence + 1 - n + k
      <4>1. k + 1 \in 1..(n + 1)
        BY <1>3
      <4>2. all[k + 1] = (sequence + 1) - (n + 1) + (k + 1)
        BY <1>5, <4>1
      <4> QED BY <1>3, <3>3, <4>2
    <3>5. /\ sequence' = sequence + 1 /\ n <= RingSize /\ n <= sequence + 1
          /\ {n, sequence} \subseteq Nat
      BY <1>2, <1>3
    <3> HIDE DEF n
    <3> QED BY <3>2, <3>4, <3>5
  <2>2. CASE ~(Len(all) > RingSize)
    <3>1. ring' = all /\ n + 1 <= RingSize /\ n + 1 <= sequence + 1 /\ sequence' = sequence + 1
      BY <1>2, <1>3, <1>4, <2>2
    <3> HIDE DEF n
    <3> QED BY <1>4, <1>5, <3>1
  <2> QED BY <2>1, <2>2
<1>7. EventsAreComplete'
  BY <1>2 DEF EventInv, EventsAreComplete
<1>8. sequence' \in Nat /\ cursor' \in 0..sequence'
  BY <1>2, <1>3
<1> QED BY <1>6, <1>7, <1>8 DEF EventInv

\* A page is a stretch of the ring from the first event after the cursor.
LEMMA PageIsStretch ==
  ASSUME EventInv, cursor < sequence, Len(ring) > 0
  PROVE  \E a \in 1..Len(ring), b \in 1..Len(ring) :
           /\ a <= b /\ After = a..Len(ring) /\ Page = a..b
           /\ a = 1 \/ a = cursor + 1 - (sequence - Len(ring))
           /\ cursor < sequence - Len(ring) + a
<1> DEFINE n == Len(ring)
<1>1. /\ sequence \in Nat /\ cursor \in 0..sequence /\ n \in Nat /\ n <= sequence
      /\ DOMAIN ring = 1..n /\ n > 0 /\ PageSize \in Nat /\ PageSize >= 1
      /\ \A k \in 1..n : ring[k] = sequence - n + k
  BY RingAssumption DEF EventInv
<1>2. PICK a \in 1..n : /\ a = 1 \/ a = cursor + 1 - (sequence - n)
                        /\ cursor < sequence - n + a
                        /\ a > 1 => cursor >= sequence - n + a - 1
  <2>1. CASE cursor < sequence - n + 1
    <3>1. 1 \in 1..n /\ cursor < sequence - n + 1
      BY <1>1, <2>1
    <3> QED BY <3>1
  <2>2. CASE ~(cursor < sequence - n + 1)
    <3>1. PICK a : a = cursor + 1 - (sequence - n)
      OBVIOUS
    <3>2. a \in 1..n /\ cursor < sequence - n + a /\ cursor >= sequence - n + a - 1
      BY <1>1, <2>2, <3>1
    <3> QED BY <3>1, <3>2
  <2> QED BY <2>1, <2>2
<1>3. After = a..n
  <2>1. \A k \in 1..n : ring[k] > cursor <=> k >= a
    BY <1>1, <1>2
  <2> QED BY <1>1, <1>2, <2>1 DEF After
<1>4. \A k \in a..n : {j \in After : j < k} = a..(k - 1) /\ Cardinality(a..(k - 1)) = k - a
  <2> SUFFICES ASSUME NEW k \in a..n
               PROVE  {j \in After : j < k} = a..(k - 1) /\ Cardinality(a..(k - 1)) = k - a
    OBVIOUS
  <2>1. {j \in After : j < k} = a..(k - 1)
    BY <1>1, <1>3
  <2>2. Cardinality(a..(k - 1)) = k - a
    <3>1. a \in Int /\ k - 1 \in Int /\ k \in Int /\ k >= a
      BY <1>1
    <3>2. Cardinality(a..(k - 1)) = IF a > k - 1 THEN 0 ELSE (k - 1) - a + 1
      BY <3>1, FS_Interval
    <3> QED BY <3>1, <3>2
  <2> QED BY <2>1, <2>2
<1>5. Page = {k \in a..n : k - a < PageSize}
  BY <1>3, <1>4 DEF Page
<1>6. PICK b \in 1..n : a <= b /\ \A k \in a..n : k - a < PageSize <=> k <= b
  <2>1. CASE n - a < PageSize
    <3>1. n \in 1..n /\ a <= n /\ \A k \in a..n : k - a < PageSize <=> k <= n
      BY <1>1, <2>1
    <3> QED BY <3>1
  <2>2. CASE ~(n - a < PageSize)
    <3>1. PICK b : b = a + PageSize - 1
      OBVIOUS
    <3>2. b \in 1..n /\ a <= b /\ \A k \in a..n : k - a < PageSize <=> k <= b
      BY <1>1, <2>2, <3>1
    <3> QED BY <3>2
  <2> QED BY <2>1, <2>2
<1>7. Page = a..b
  BY <1>1, <1>5, <1>6
<1> QED BY <1>2, <1>3, <1>6, <1>7

\* An answer gives the client what follows its cursor, or tells it what it missed.
LEMMA AnswersStep == ASSUME EventInv, PollAnswers PROVE EventInv'
<1> DEFINE n == Len(ring)
<1>1. /\ sequence \in Nat /\ cursor \in 0..sequence /\ n \in Nat /\ n <= sequence
      /\ DOMAIN ring = 1..n
      /\ \A k \in 1..n : ring[k] = sequence - n + k
      /\ client.given \cup client.missed = 1..cursor
      /\ client.given \cap client.missed = {}
  BY DEF EventInv, EventsAreComplete
<1>2. PICK given : given = {ring[k] : k \in Page}
  OBVIOUS
<1>3. PICK missed : missed = IF Overflow THEN cursor + 1 .. FirstKept - 1 ELSE {}
  OBVIOUS
<1>4. /\ cursor' = NextCursor
      /\ client'.given = client.given \cup given /\ client'.missed = client.missed \cup missed
      /\ UNCHANGED <<ring, sequence>>
  BY <1>2, <1>3 DEF PollAnswers
<1>5. FirstKept = sequence - n + 1
  <2>1. CASE ring = <<>>
    BY <1>1, <2>1 DEF FirstKept
  <2>2. CASE ring # <<>>
    <3>1. 1 \in 1..n
      BY <1>1, <2>2 DEF EventInv
    <3>2. ring[1] = sequence - n + 1
      BY <1>1, <3>1
    <3> QED BY <2>2, <3>2 DEF FirstKept
  <2> QED BY <2>1, <2>2
<1>6. missed = IF cursor < sequence - n THEN cursor + 1 .. sequence - n ELSE {}
  BY <1>1, <1>3, <1>5 DEF Overflow
<1>7. /\ cursor' \in cursor..sequence /\ given \cap missed = {}
      /\ given \cup missed = cursor + 1 .. cursor'
  <2>1. CASE n = 0 \/ cursor = sequence
    <3>1. After = {}
      BY <1>1, <2>1 DEF After
    <3>2. Page = {}
      BY <3>1 DEF Page
    <3>3. given = {} /\ cursor' = sequence
      BY <1>2, <1>4, <3>2 DEF NextCursor
    <3> QED BY <1>1, <1>6, <2>1, <3>3
  <2>2. CASE n > 0 /\ cursor < sequence
    <3>1. PICK a \in 1..n, b \in 1..n :
            /\ a <= b /\ Page = a..b
            /\ a = 1 \/ a = cursor + 1 - (sequence - n)
            /\ cursor < sequence - n + a
      BY <2>2, PageIsStretch
    <3>2. b \in Page /\ \A k \in Page : b >= k
      BY <1>1, <3>1
    <3>3. Max(Page) = b
      <4>1. Max(Page) \in Page /\ \A k \in Page : Max(Page) >= k
        BY <3>2 DEF Max
      <4>2. Max(Page) \in Int /\ b \in Int
        BY <1>1, <3>1, <4>1
      <4> QED BY <3>2, <4>1, <4>2
    <3>4. cursor' = sequence - n + b
      BY <1>1, <1>4, <3>2, <3>3 DEF NextCursor
    <3>5. \A x : x \in given <=> x \in (sequence - n + a)..(sequence - n + b)
      <4> TAKE x
      <4>1. ASSUME x \in given PROVE x \in (sequence - n + a)..(sequence - n + b)
        BY <1>1, <1>2, <3>1, <4>1
      <4>2. ASSUME x \in (sequence - n + a)..(sequence - n + b) PROVE x \in given
        <5>1. PICK k : k = x - (sequence - n)
          OBVIOUS
        <5>2. k \in Page /\ k \in 1..n /\ ring[k] = x
          BY <1>1, <3>1, <4>2, <5>1
        <5> QED BY <1>2, <5>2
      <4> QED BY <4>1, <4>2
    <3>6. given = (sequence - n + a)..(sequence - n + b)
      BY <3>5
    <3>7. cursor' \in cursor..sequence
      BY <1>1, <3>1, <3>4
    <3>8. CASE cursor < sequence - n
      <4>1. a = 1 /\ missed = cursor + 1 .. sequence - n
        BY <1>1, <1>6, <3>1, <3>8
      <4> QED BY <1>1, <3>1, <3>4, <3>6, <3>7, <3>8, <4>1
    <3>9. CASE ~(cursor < sequence - n)
      <4>1. missed = {}
        BY <1>6, <3>9
      <4>2. sequence - n + a = cursor + 1
        BY <1>1, <3>1, <3>9
      <4> QED BY <1>1, <3>1, <3>4, <3>6, <3>7, <4>1, <4>2
    <3> QED BY <3>8, <3>9
  <2> QED BY <1>1, <2>1, <2>2
<1>8. EventsAreComplete'
  <2>1. given \subseteq cursor + 1 .. cursor' /\ missed \subseteq cursor + 1 .. cursor'
    BY <1>7
  <2>2. \A x \in 1..cursor : x \notin cursor + 1 .. cursor'
    BY <1>1
  <2>3. client'.given \cap client'.missed = {}
    BY <1>1, <1>4, <1>7, <2>1, <2>2
  <2>4. 1..cursor \cup (cursor + 1 .. cursor') = 1..cursor'
    BY <1>1, <1>7
  <2>5. client'.given \cup client'.missed = 1..cursor'
    BY <1>1, <1>4, <1>7, <2>4
  <2> QED BY <2>3, <2>5 DEF EventsAreComplete
<1>9. cursor' \in 0..sequence'
  BY <1>1, <1>4, <1>7
<1> QED BY <1>4, <1>8, <1>9 DEF EventInv

LEMMA EventStep == EventInv /\ [EventNext]_eventVars => EventInv'
<1> SUFFICES ASSUME EventInv, [EventNext]_eventVars PROVE EventInv'
  OBVIOUS
<1>1. CASE UNCHANGED eventVars
  BY <1>1 DEF eventVars, EventInv, EventsAreComplete
<1>2. CASE Dropped
  <2>1. ring' = <<>> /\ UNCHANGED <<sequence, cursor, client>>
    BY <1>2 DEF Dropped
  <2>2. ring' \in Seq(Nat) /\ Len(ring') = 0
    BY <2>1
  <2> QED BY <2>1, <2>2, RingAssumption DEF EventInv, EventsAreComplete
<1>3. CASE PollBegins
  BY <1>3 DEF PollBegins, EventInv, EventsAreComplete
<1> QED BY <1>1, <1>2, <1>3, ReceivedStep, AnswersStep DEF EventNext

\* A client that follows the cursor is given each event up to it once, or is told by an
\* overflow that it missed it.  (command "events" of sessions.ts)
THEOREM EventsComplete == EventSpec => []EventsAreComplete
<1>1. EventInv => EventsAreComplete
  BY DEF EventInv
<1> QED BY <1>1, EventStart, EventStep, PTL DEF EventSpec

----------------------------------------------------------------------------
(* The store of results *)

\* What a result of the id adds to the size, and the sums over the ids.
Weight(es, i) == IF i \in DOMAIN es THEN es[i].bytes ELSE 0
Sums(es, n, f) == f = [i \in 0..n |-> IF i = 0 THEN 0 ELSE f[i - 1] + Weight(es, i)]

\* The sizes of these results are numbers.
Sized(es) == \A i \in DOMAIN es : es[i].bytes \in Nat

\* The recursive function of SizeOf is defined for any number of ids.
LEMMA SumsExist == ASSUME NEW es, NEW n \in Nat PROVE \E f : Sums(es, n, f)
<1> DEFINE Bad == {m \in Nat : ~\E f : Sums(es, m, f)}
<1>1. SUFFICES ASSUME Bad # {} PROVE FALSE
  OBVIOUS
<1>2. PICK m \in Bad : \A y \in Bad : ~(<<y, m>> \in OpToRel(<, Nat))
  BY <1>1, WFMin, NatLessThanWellFounded, Zenon
<1> HIDE DEF Bad
<1>3. m \in Nat /\ ~\E f : Sums(es, m, f)
  BY DEF Bad
<1>4. m # 0
  <2>1. [i \in 0..0 |-> 0] =
          [i \in 0..0 |-> IF i = 0 THEN 0 ELSE [j \in 0..0 |-> 0][i - 1] + Weight(es, i)]
    OBVIOUS
  <2> QED BY <1>3, <2>1 DEF Sums
<1>5. PICK g : Sums(es, m - 1, g)
  <2>1. m - 1 \in Nat /\ m - 1 < m
    BY <1>3, <1>4
  <2>2. m - 1 \notin Bad
    BY <1>2, <1>3, <2>1 DEF OpToRel
  <2> QED BY <2>1, <2>2 DEF Bad
<1> DEFINE h == [i \in 0..m |-> IF i = m THEN g[m - 1] + Weight(es, m) ELSE g[i]]
<1>6. Sums(es, m, h)
  <2>1. ASSUME NEW i \in 0..m PROVE h[i] = IF i = 0 THEN 0 ELSE h[i - 1] + Weight(es, i)
    <3>1. CASE i = m
      BY <3>1, <1>3, <1>4
    <3>2. CASE i # m
      <4>1. i \in 0..(m - 1) /\ (i # 0 => i - 1 \in 0..m /\ i - 1 # m)
        BY <3>2, <1>3
      <4>2. g[i] = IF i = 0 THEN 0 ELSE g[i - 1] + Weight(es, i)
        BY <1>5, <4>1 DEF Sums
      <4> QED BY <3>2, <4>1, <4>2
    <3> QED BY <3>1, <3>2
  <2> QED BY <2>1 DEF Sums
<1> QED BY <1>3, <1>6

\* The size is the last of the sums.
LEMMA SizeSums ==
  ASSUME NEW es
  PROVE  \E f : /\ SizeOf(es) = f[MaxResults] /\ f[0] = 0
                /\ \A i \in 1..MaxResults : f[i] = f[i - 1] + Weight(es, i)
<1> DEFINE u == CHOOSE f : f = [i \in 0..MaxResults |->
                  IF i = 0 THEN 0
                  ELSE f[i - 1] + (IF i \in DOMAIN es THEN es[i].bytes ELSE 0)]
<1>1. \E f : f = [i \in 0..MaxResults |->
                  IF i = 0 THEN 0
                  ELSE f[i - 1] + (IF i \in DOMAIN es THEN es[i].bytes ELSE 0)]
  <2>1. MaxResults \in Nat
    BY StoreAssumption
  <2>2. \E f : Sums(es, MaxResults, f)
    BY <2>1, SumsExist
  <2> QED BY <2>2 DEF Sums, Weight
<1>2. u = [i \in 0..MaxResults |->
            IF i = 0 THEN 0 ELSE u[i - 1] + (IF i \in DOMAIN es THEN es[i].bytes ELSE 0)]
  BY <1>1
<1>3. SizeOf(es) = u[MaxResults]
  BY DEF SizeOf
<1> HIDE DEF u
<1>4. Sums(es, MaxResults, u)
  BY <1>2 DEF Sums, Weight
<1>5. u[0] = 0 /\ \A i \in 1..MaxResults : u[i] = u[i - 1] + Weight(es, i)
  BY <1>4, StoreAssumption DEF Sums
<1> QED BY <1>3, <1>5

\* Sums f of u, g of v and h of w, where u is v and w.
Parts(n, u, v, w, f, g, h) ==
  /\ f[0] = 0 /\ g[0] = 0 /\ h[0] = 0
  /\ \A i \in 1..n : /\ f[i] = f[i - 1] + u[i] /\ g[i] = g[i - 1] + v[i]
                     /\ h[i] = h[i - 1] + w[i]
                     /\ v[i] \in Nat /\ w[i] \in Nat /\ u[i] = v[i] + w[i]

\* The sums of two parts go together.
LEMMA SumsAdd ==
  ASSUME NEW n \in Nat, NEW u, NEW v, NEW w, NEW f, NEW g, NEW h, Parts(n, u, v, w, f, g, h)
  PROVE  \A i \in 0..n : g[i] \in Nat /\ h[i] \in Nat /\ f[i] = g[i] + h[i]
<1> DEFINE Bad == {i \in 0..n : ~(g[i] \in Nat /\ h[i] \in Nat /\ f[i] = g[i] + h[i])}
<1>1. SUFFICES ASSUME Bad # {} PROVE FALSE
  OBVIOUS
<1>2. PICK m \in Bad : \A j \in Bad : m <= j
  <2>1. Bad \subseteq Nat
    OBVIOUS
  <2> HIDE DEF Bad
  <2> QED BY <1>1, <2>1, LeastElement
<1>3. m \in 0..n /\ ~(g[m] \in Nat /\ h[m] \in Nat /\ f[m] = g[m] + h[m])
  OBVIOUS
<1>4. m # 0
  BY <1>3 DEF Parts
<1>5. m - 1 \in 0..n /\ m - 1 < m /\ m \in 1..n
  BY <1>3, <1>4
<1>6. g[m - 1] \in Nat /\ h[m - 1] \in Nat /\ f[m - 1] = g[m - 1] + h[m - 1]
  BY <1>2, <1>5
<1> QED BY <1>3, <1>5, <1>6 DEF Parts

\* The size of results is that of any part of them and that of the rest.
LEMMA SizeSplits ==
  ASSUME NEW es, NEW a, NEW b, Sized(es),
         \A i \in 1..MaxResults : /\ Weight(a, i) \in Nat /\ Weight(b, i) \in Nat
                                  /\ Weight(es, i) = Weight(a, i) + Weight(b, i)
  PROVE  /\ SizeOf(a) \in Nat /\ SizeOf(b) \in Nat
         /\ SizeOf(es) = SizeOf(a) + SizeOf(b)
<1>1. PICK f : /\ SizeOf(es) = f[MaxResults] /\ f[0] = 0
               /\ \A i \in 1..MaxResults : f[i] = f[i - 1] + Weight(es, i)
  BY SizeSums
<1>2. PICK g : /\ SizeOf(a) = g[MaxResults] /\ g[0] = 0
               /\ \A i \in 1..MaxResults : g[i] = g[i - 1] + Weight(a, i)
  BY SizeSums
<1>3. PICK h : /\ SizeOf(b) = h[MaxResults] /\ h[0] = 0
               /\ \A i \in 1..MaxResults : h[i] = h[i - 1] + Weight(b, i)
  BY SizeSums
<1> DEFINE u == [i \in 1..MaxResults |-> Weight(es, i)]
           v == [i \in 1..MaxResults |-> Weight(a, i)]
           w == [i \in 1..MaxResults |-> Weight(b, i)]
<1>4. Parts(MaxResults, u, v, w, f, g, h)
  BY <1>1, <1>2, <1>3 DEF Parts
<1> HIDE DEF u, v, w
<1>5. MaxResults \in Nat
  BY StoreAssumption
<1>6. \A i \in 0..MaxResults : g[i] \in Nat /\ h[i] \in Nat /\ f[i] = g[i] + h[i]
  BY <1>4, <1>5, SumsAdd
<1>7. MaxResults \in 0..MaxResults
  BY <1>5
<1> QED BY <1>1, <1>2, <1>3, <1>6, <1>7

\* What is dropped and what is left make up the size.  (remove)
LEMMA WithoutSplits ==
  ASSUME NEW es, NEW ids, Sized(es)
  PROVE  LET left == Without(es, ids)
         IN /\ left.es = [i \in DOMAIN es \ ids |-> es[i]]
            /\ left.less \in Nat /\ SizeOf(left.es) \in Nat
            /\ SizeOf(es) = SizeOf(left.es) + left.less
<1> DEFINE a == Restrict(es, DOMAIN es \ ids)
           b == Restrict(es, DOMAIN es \cap ids)
<1>1. Without(es, ids).es = a /\ Without(es, ids).less = SizeOf(b)
  BY DEF Without
<1>2. a = [i \in DOMAIN es \ ids |-> es[i]] /\ b = [i \in DOMAIN es \cap ids |-> es[i]]
  BY DEF Restrict
<1> HIDE DEF a, b
<1>3. ASSUME NEW i \in 1..MaxResults
      PROVE  /\ Weight(a, i) \in Nat /\ Weight(b, i) \in Nat
             /\ Weight(es, i) = Weight(a, i) + Weight(b, i)
  BY <1>2 DEF Weight, Sized
<1>4. SizeOf(a) \in Nat /\ SizeOf(b) \in Nat /\ SizeOf(es) = SizeOf(a) + SizeOf(b)
  BY <1>3, SizeSplits
<1> QED BY <1>1, <1>2, <1>4

LEMMA SizeIsNat == ASSUME NEW es, Sized(es) PROVE SizeOf(es) \in Nat
<1>1. LET left == Without(es, {})
      IN /\ left.less \in Nat /\ SizeOf(left.es) \in Nat
         /\ SizeOf(es) = SizeOf(left.es) + left.less
  BY WithoutSplits
<1> QED BY <1>1

\* A part of the results is not larger.
LEMMA PartFits ==
  ASSUME NEW es, NEW a, Sized(es), DOMAIN a \subseteq DOMAIN es,
         \A i \in DOMAIN a : a[i] = es[i]
  PROVE  SizeOf(a) \in Nat /\ SizeOf(a) <= SizeOf(es)
<1> DEFINE b == [i \in DOMAIN es \ DOMAIN a |-> es[i]]
<1>1. ASSUME NEW i \in 1..MaxResults
      PROVE  /\ Weight(a, i) \in Nat /\ Weight(b, i) \in Nat
             /\ Weight(es, i) = Weight(a, i) + Weight(b, i)
  BY DEF Weight, Sized
<1> HIDE DEF b
<1>2. SizeOf(a) \in Nat /\ SizeOf(b) \in Nat /\ SizeOf(es) = SizeOf(a) + SizeOf(b)
  BY <1>1, SizeSplits
<1> QED BY <1>2

\* No results have no size.
LEMMA NoSize == ASSUME NEW es, DOMAIN es = {} PROVE SizeOf(es) = 0
<1>1. \A i \in 1..MaxResults : Weight(es, i) = 0
  BY DEF Weight
<1>2. SizeOf(es) \in Nat /\ SizeOf(es) = SizeOf(es) + SizeOf(es)
  BY <1>1, SizeSplits DEF Sized
<1> QED BY <1>2

\* A new result adds its size.
LEMMA PlusAdds ==
  ASSUME NEW es, NEW e, Sized(es), e.bytes \in Nat, nextId \in 1..MaxResults,
         nextId \notin DOMAIN es
  PROVE  SizeOf(Plus(es, e)) = SizeOf(es) + e.bytes
<1> DEFINE b == [i \in {nextId} |-> e]
           p == Plus(es, e)
<1>1. p = [i \in DOMAIN es \cup {nextId} |-> IF i = nextId THEN e ELSE es[i]]
  BY DEF Plus
<1> HIDE DEF p
<1>2. Sized(p)
  BY <1>1 DEF Sized
<1>3. ASSUME NEW i \in 1..MaxResults
      PROVE  /\ Weight(es, i) \in Nat /\ Weight(b, i) \in Nat
             /\ Weight(p, i) = Weight(es, i) + Weight(b, i)
  BY <1>1 DEF Weight, Sized
<1> DEFINE at == [i \in 0..MaxResults |-> IF i < nextId THEN 0 ELSE e.bytes]
<1>4. SizeOf(b) = e.bytes
  <2>1. PICK f : /\ SizeOf(b) = f[MaxResults] /\ f[0] = 0
                 /\ \A i \in 1..MaxResults : f[i] = f[i - 1] + Weight(b, i)
    BY SizeSums
  <2> DEFINE Bad == {i \in 0..MaxResults : f[i] # at[i]}
  <2>2. Bad = {}
    <3>1. SUFFICES ASSUME Bad # {} PROVE FALSE
      OBVIOUS
    <3>2. PICK m \in Bad : \A j \in Bad : m <= j
      <4>1. Bad \subseteq Nat
        OBVIOUS
      <4> HIDE DEF Bad
      <4> QED BY <3>1, <4>1, LeastElement
    <3>3. m # 0
      BY <2>1, StoreAssumption
    <3>4. m \in 1..MaxResults /\ m - 1 \in 0..MaxResults /\ f[m - 1] = at[m - 1]
      BY <3>2, <3>3, StoreAssumption
    <3>5. Weight(b, m) = IF m = nextId THEN e.bytes ELSE 0
      BY DEF Weight
    <3>6. f[m] = at[m - 1] + Weight(b, m)
      BY <2>1, <3>4
    <3>7. at[m] = at[m - 1] + Weight(b, m)
      BY <3>4, <3>5
    <3> QED BY <3>6, <3>7
  <2>3. MaxResults \in 0..MaxResults
    BY StoreAssumption
  <2>4. f[MaxResults] = at[MaxResults]
    BY <2>2, <2>3
  <2>5. ~(MaxResults < nextId)
    BY StoreAssumption
  <2> QED BY <2>1, <2>3, <2>4, <2>5
<1> HIDE DEF b
<1>5. SizeOf(p) = SizeOf(es) + SizeOf(b)
  BY <1>2, <1>3, SizeSplits
<1> QED BY <1>4, <1>5 DEF p

\* The results that were said to be available, from one on.
Since(i) == Restrict(claims, {j \in DOMAIN claims : j >= i})

\* One that must still be found.
Due(i) ==
  /\ Cardinality(DOMAIN Since(i)) <= KeptResults /\ SizeOf(Since(i)) <= KeptBytes
  /\ ~TooOld(claims[i])

Claimed ==
  /\ time \in Nat /\ nextId \in Nat \ {0} /\ nextId <= MaxResults + 1
  /\ claims = [i \in DOMAIN claims |-> claims[i]] /\ DOMAIN claims \subseteq 1..(nextId - 1)
  /\ \A i \in DOMAIN claims :
       /\ claims[i] = [bytes |-> claims[i].bytes, completed |-> claims[i].completed]
       /\ claims[i].bytes \in Nat /\ claims[i].completed \in Nat

\* The results that a store keeps are those that were said to be available, without what
\* is too old and what had to make room.
Holds(es, size) ==
  /\ es = [i \in DOMAIN es |-> es[i]] /\ DOMAIN es \subseteq DOMAIN claims
  /\ \A i \in DOMAIN es : es[i] = claims[i]
  /\ size = SizeOf(es) /\ size <= KeptBytes /\ Cardinality(DOMAIN es) <= KeptResults
  /\ \A i \in DOMAIN claims : Due(i) => i \in DOMAIN es

FoundIt ==
  lookedUp.size # 0 => lookedUp.id \in DOMAIN claims /\ claims[lookedUp.id].bytes = lookedUp.size

StoreInv == Claimed /\ Holds(entries, bytes) /\ FoundIt

LEMMA StoreKeepsResults == ASSUME StoreInv PROVE ResultsAreKept
BY DEF StoreInv, Holds, Due, Since, FoundIt, ResultsAreKept

LEMMA StoreStart == StoreInit => StoreInv
<1> SUFFICES ASSUME StoreInit PROVE StoreInv
  OBVIOUS
<1>1. DOMAIN entries = {} /\ DOMAIN claims = {} /\ entries = NoResults /\ claims = NoResults
  BY DEF StoreInit, NoResults
<1>2. SizeOf(entries) = 0
  BY <1>1, NoSize
<1>3. Cardinality(DOMAIN entries) = 0
  BY <1>1, FS_EmptySet
<1>4. Claimed
  BY <1>1, StoreAssumption DEF StoreInit, Claimed, NoResults
<1>5. Holds(entries, bytes)
  BY <1>1, <1>2, <1>3, StoreAssumption DEF StoreInit, Holds, NoResults
<1> QED BY <1>4, <1>5 DEF StoreInv, StoreInit, FoundIt

\* Sets of results are finite, and those within others are no more.
LEMMA FewerResults ==
  ASSUME Claimed, NEW S, S \subseteq DOMAIN claims, NEW T, T \subseteq S
  PROVE  /\ IsFiniteSet(S) /\ IsFiniteSet(T) /\ Cardinality(S) \in Nat /\ Cardinality(T) \in Nat
         /\ Cardinality(T) <= Cardinality(S)
<1>1. IsFiniteSet(1..(nextId - 1)) /\ S \in SUBSET (1..(nextId - 1))
  BY FS_Interval DEF Claimed
<1>2. IsFiniteSet(S)
  BY <1>1, FS_Subset
<1>3. IsFiniteSet(T) /\ Cardinality(T) <= Cardinality(S)
  BY <1>2, FS_Subset
<1> QED BY <1>2, <1>3, FS_CardinalityType

\* Dropping what is too old leaves what must be found.  (prune, the timer)
LEMMA OldDropped ==
  ASSUME Claimed, NEW es, NEW size, Holds(es, size),
         NEW ids, ids \subseteq DOMAIN es, \A i \in ids : TooOld(es[i])
  PROVE  LET left == Without(es, ids) IN Holds(left.es, size - left.less)
<1> DEFINE left == Without(es, ids)
<1>1. Sized(es)
  BY DEF Holds, Claimed, Sized
<1>2. /\ left.es = [i \in DOMAIN es \ ids |-> es[i]]
      /\ left.less \in Nat /\ SizeOf(left.es) \in Nat
      /\ SizeOf(es) = SizeOf(left.es) + left.less
  BY <1>1, WithoutSplits
<1> HIDE DEF left
<1>3. DOMAIN left.es = DOMAIN es \ ids /\ \A i \in DOMAIN left.es : left.es[i] = es[i]
  BY <1>2
<1>4. left.es = [i \in DOMAIN left.es |-> left.es[i]] /\ DOMAIN left.es \subseteq DOMAIN claims
  BY <1>2, <1>3 DEF Holds
<1>5. Cardinality(DOMAIN left.es) <= KeptResults
  <2>1. /\ Cardinality(DOMAIN left.es) <= Cardinality(DOMAIN es)
        /\ Cardinality(DOMAIN left.es) \in Nat /\ Cardinality(DOMAIN es) \in Nat
    BY <1>3, FewerResults DEF Holds
  <2> QED BY <2>1, StoreAssumption DEF Holds
<1>6. size - left.less = SizeOf(left.es) /\ size - left.less <= KeptBytes
  BY <1>2, StoreAssumption DEF Holds
<1>7. ASSUME NEW i \in DOMAIN claims, Due(i) PROVE i \in DOMAIN left.es
  BY <1>3, <1>7 DEF Holds, Due
<1>8. \A i \in DOMAIN left.es : left.es[i] = claims[i]
  BY <1>3 DEF Holds
<1>9. Holds(left.es, size - left.less)
  BY <1>4, <1>5, <1>6, <1>7, <1>8 DEF Holds
<1> QED BY <1>9 DEF left

LEMMA PrunedHolds == ASSUME StoreInv PROVE Holds(Pruned.es, bytes - Pruned.less)
BY OldDropped DEF StoreInv, Pruned

\* The claims are what they were.
LEMMA SameClaims ==
  ASSUME UNCHANGED <<claims, time>>, NEW es, NEW size, Claimed, Holds(es, size),
         entries' = es, bytes' = size,
         nextId' \in {nextId, nextId + 1}, nextId' <= MaxResults + 1
  PROVE  Claimed' /\ Holds(entries, bytes)'
<1>1. \A i \in DOMAIN claims : Due(i)' <=> Due(i)
  BY DEF Due, Since, TooOld
<1>2. SizeOf(entries)' = SizeOf(es)
  BY DEF SizeOf
<1> QED BY <1>1, <1>2 DEF Claimed, Holds

LEMMA LookupKeeps == ASSUME StoreInv, NEW id, Lookup(id) PROVE StoreInv'
<1>1. Holds(Pruned.es, bytes - Pruned.less)
  BY PrunedHolds
<1>2. Claimed' /\ Holds(entries, bytes)'
  BY <1>1, SameClaims DEF Lookup, StoreInv, Claimed
<1>3. FoundIt'
  <2>1. CASE id \in DOMAIN Pruned.es
    <3>1. id \in DOMAIN claims /\ Pruned.es[id] = claims[id]
      BY <1>1, <2>1 DEF Holds
    <3>2. lookedUp' = [id |-> id, size |-> Pruned.es[id].bytes] /\ claims' = claims
      BY <2>1 DEF Lookup
    <3> QED BY <3>1, <3>2 DEF FoundIt
  <2>2. CASE id \notin DOMAIN Pruned.es
    BY <2>2 DEF Lookup, FoundIt
  <2> QED BY <2>1, <2>2
<1> QED BY <1>2, <1>3 DEF StoreInv

LEMMA TimerKeeps == ASSUME StoreInv, NEW id, TimerExpires(id) PROVE StoreInv'
<1>1. id \in DOMAIN entries /\ TooOld(entries[id])
  BY DEF TimerExpires
<1>2. LET left == Without(entries, {id}) IN Holds(left.es, bytes - left.less)
  BY <1>1, OldDropped DEF StoreInv
<1>3. Claimed' /\ Holds(entries, bytes)'
  BY <1>2, SameClaims DEF TimerExpires, StoreInv, Claimed
<1> QED BY <1>3 DEF StoreInv, TimerExpires, FoundIt

LEMMA TimeKeeps == ASSUME StoreInv, StoreTimePasses PROVE StoreInv'
<1>1. \A i \in DOMAIN claims : Due(i)' => Due(i)
  <2>1. ASSUME NEW i \in DOMAIN claims, TooOld(claims[i]) PROVE TooOld(claims[i])'
    <3>1. time \in Nat /\ claims[i].completed \in Nat /\ KeptFor \in Nat
      BY StoreAssumption DEF StoreInv, Claimed
    <3>2. time' = time + 1 /\ claims' = claims
      BY DEF StoreTimePasses
    <3> QED BY <2>1, <3>1, <3>2 DEF TooOld
  <2>2. UNCHANGED claims
    BY DEF StoreTimePasses
  <2>3. \A i : Since(i)' = Since(i)
    BY <2>2 DEF Since
  <2>4. \A i : SizeOf(Since(i))' = SizeOf(Since(i))
    BY <2>3 DEF SizeOf
  <2> QED BY <2>1, <2>2, <2>3, <2>4 DEF Due
<1> QED BY <1>1 DEF StoreTimePasses, StoreInv, Claimed, Holds, FoundIt

\* There is room up to the cutoff, and none up to an earlier one.  (retain)
LEMMA RoomIsMade ==
  ASSUME Claimed, NEW es, NEW count, Holds(es, count), NEW size \in 1..ResultBytes
  PROVE  LET room == Room(es, count, size)
             Fits(n) == /\ Cardinality(DOMAIN Without(es, 1..n).es) < KeptResults
                        /\ count - Without(es, 1..n).less + size <= KeptBytes
         IN room \in 0..nextId /\ Fits(room) /\ \A n \in 0..nextId : Fits(n) => room <= n
<1> DEFINE Fits(n) == /\ Cardinality(DOMAIN Without(es, 1..n).es) < KeptResults
                      /\ count - Without(es, 1..n).less + size <= KeptBytes
           S == {n \in 0..nextId : Fits(n)}
<1>1. Sized(es)
  BY DEF Holds, Claimed, Sized
<1>2. Fits(nextId)
  <2> DEFINE left == Without(es, 1..nextId)
  <2>1. /\ left.es = [i \in DOMAIN es \ (1..nextId) |-> es[i]]
        /\ left.less \in Nat /\ SizeOf(es) = SizeOf(left.es) + left.less
    BY <1>1, WithoutSplits
  <2>2. DOMAIN left.es = {}
    <3>1. DOMAIN es \subseteq 1..nextId
      BY DEF Holds, Claimed
    <3> QED BY <2>1, <3>1
  <2> HIDE DEF left
  <2>3. SizeOf(left.es) = 0 /\ Cardinality(DOMAIN left.es) = 0
    BY <2>2, NoSize, FS_EmptySet
  <2>4. count - left.less + size <= KeptBytes
    BY <2>1, <2>3, StoreAssumption DEF Holds
  <2>5. Cardinality(DOMAIN left.es) < KeptResults
    BY <2>3, StoreAssumption
  <2> QED BY <2>4, <2>5 DEF left
<1> HIDE DEF Fits
<1>3. nextId \in S
  BY <1>2 DEF Claimed
<1>4. S \subseteq Nat
  OBVIOUS
<1>5. PICK m \in S : \A j \in S : m <= j
  <2> HIDE DEF S
  <2> QED BY <1>3, <1>4, LeastElement
<1>6. Room(es, count, size) = CHOOSE x \in S : \A y \in S : x <= y
  BY DEF Room, Min, Fits
<1>7. Room(es, count, size) \in S /\ \A j \in S : Room(es, count, size) <= j
  BY <1>5, <1>6
<1> QED BY <1>7 DEF Fits

\* A result that is not kept is not claimed.  (RESULT_TOO_LARGE)
LEMMA TooLargeKeeps ==
  ASSUME StoreInv, NEW size, size > ResultBytes, Retain(size)
  PROVE  StoreInv'
<1>1. /\ entries' = Pruned.es /\ bytes' = bytes - Pruned.less
      /\ UNCHANGED <<claims, time, lookedUp>>
      /\ nextId' = nextId + 1 /\ nextId <= MaxResults
  BY DEF Retain
<1>2. Claimed' /\ Holds(entries, bytes)'
  <2>1. nextId' <= MaxResults + 1
    BY <1>1, StoreAssumption DEF StoreInv, Claimed
  <2> QED BY <1>1, <2>1, PrunedHolds, SameClaims DEF StoreInv
<1> QED BY <1>1, <1>2 DEF StoreInv, FoundIt

\* A new result makes room, and takes it only from those that with it and the newer ones
\* exceed a limit.  (retain)
LEMMA RetainedKeeps ==
  ASSUME StoreInv, NEW size \in 1..ResultBytes, Retain(size)
  PROVE  StoreInv'
<1> DEFINE new == [bytes |-> size, completed |-> time]
<1>1. PICK es, count : /\ es = Pruned.es /\ count = bytes - Pruned.less
  OBVIOUS
<1>2. Holds(es, count)
  BY <1>1, PrunedHolds
<1>3. PICK room : room = Room(es, count, size)
  OBVIOUS
<1>4. PICK left : left = Without(es, 1..room)
  OBVIOUS
<1>5. /\ entries' = Plus(left.es, new) /\ bytes' = count - left.less + size
      /\ claims' = Plus(claims, new) /\ nextId' = nextId + 1 /\ nextId <= MaxResults
      /\ UNCHANGED <<time, lookedUp>>
  <2>1. ~(size > ResultBytes)
    BY StoreAssumption
  <2> QED BY <1>1, <1>3, <1>4, <2>1 DEF Retain
<1>6. /\ time \in Nat /\ nextId \in 1..MaxResults /\ nextId \in Nat /\ MaxResults \in Nat
      /\ nextId \notin DOMAIN claims /\ DOMAIN claims \subseteq 1..(nextId - 1)
      /\ DOMAIN es \subseteq DOMAIN claims
  BY <1>2, <1>5, StoreAssumption DEF StoreInv, Claimed, Holds
<1>7. Sized(es) /\ Sized(claims)
  BY <1>2 DEF StoreInv, Holds, Claimed, Sized
<1>8. /\ room \in 0..nextId
      /\ Cardinality(DOMAIN left.es) < KeptResults /\ count - left.less + size <= KeptBytes
      /\ \A n \in 0..nextId :
           Cardinality(DOMAIN Without(es, 1..n).es) < KeptResults
             /\ count - Without(es, 1..n).less + size <= KeptBytes => room <= n
  BY <1>2, <1>3, <1>4, RoomIsMade DEF StoreInv
<1>9. /\ left.es = [i \in DOMAIN es \ (1..room) |-> es[i]]
      /\ left.less \in Nat /\ SizeOf(left.es) \in Nat
      /\ SizeOf(es) = SizeOf(left.es) + left.less
  BY <1>4, <1>7, WithoutSplits
<1>10. /\ DOMAIN claims' = DOMAIN claims \cup {nextId} /\ claims'[nextId] = new
       /\ \A i \in DOMAIN claims : claims'[i] = claims[i]
       /\ claims' = [i \in DOMAIN claims' |-> claims'[i]]
  BY <1>5, <1>6 DEF Plus
<1>11. /\ DOMAIN entries' = DOMAIN left.es \cup {nextId} /\ entries'[nextId] = new
       /\ \A i \in DOMAIN left.es : entries'[i] = left.es[i]
       /\ entries' = [i \in DOMAIN entries' |-> entries'[i]]
       /\ nextId \notin DOMAIN left.es /\ DOMAIN left.es \subseteq DOMAIN es
  BY <1>5, <1>6, <1>9 DEF Plus
<1>12. new.bytes = size /\ new.completed = time /\ size \in Nat
  BY StoreAssumption
<1> HIDE DEF new
<1>13. new = [bytes |-> new.bytes, completed |-> new.completed]
  BY DEF new
<1>14. Claimed'
  <2>1. DOMAIN claims' \subseteq 1..(nextId' - 1)
    BY <1>5, <1>6, <1>10
  <2>2. ASSUME NEW i \in DOMAIN claims'
        PROVE  /\ claims'[i] = [bytes |-> claims'[i].bytes, completed |-> claims'[i].completed]
               /\ claims'[i].bytes \in Nat /\ claims'[i].completed \in Nat
    <3>1. CASE i = nextId
      BY <3>1, <1>6, <1>10, <1>12, <1>13
    <3>2. CASE i # nextId
      BY <3>2, <1>10 DEF StoreInv, Claimed
    <3> QED BY <3>1, <3>2
  <2>3. time' \in Nat /\ nextId' \in Nat \ {0} /\ nextId' <= MaxResults + 1
    BY <1>5, <1>6
  <2> QED BY <1>10, <2>1, <2>2, <2>3 DEF Claimed
<1>15. /\ DOMAIN entries' \subseteq DOMAIN claims'
       /\ \A i \in DOMAIN entries' : entries'[i] = claims'[i]
  BY <1>2, <1>6, <1>9, <1>10, <1>11 DEF Holds
<1>16. bytes' = SizeOf(entries') /\ bytes' <= KeptBytes
  <2>1. Sized(left.es)
    BY <1>7, <1>9, <1>11 DEF Sized
  <2>2. SizeOf(Plus(left.es, new)) = SizeOf(left.es) + new.bytes
    BY <1>6, <1>11, <1>12, <2>1, PlusAdds
  <2>3. count = SizeOf(es)
    BY <1>2 DEF Holds
  <2> QED BY <1>5, <1>8, <1>9, <1>12, <2>2, <2>3
<1>17. Cardinality(DOMAIN entries') <= KeptResults
  <2>1. /\ IsFiniteSet(DOMAIN left.es) /\ Cardinality(DOMAIN left.es) \in Nat
    BY <1>6, <1>11, FewerResults DEF StoreInv
  <2>2. Cardinality(DOMAIN entries') = Cardinality(DOMAIN left.es) + 1
    BY <1>11, <2>1, FS_AddElement
  <2> QED BY <1>8, <2>1, <2>2, StoreAssumption
<1>18. ASSUME NEW i \in DOMAIN claims', Due(i)' PROVE i \in DOMAIN entries'
  <2>1. CASE i = nextId
    BY <2>1, <1>11
  <2>2. CASE i # nextId
    <3>1. i \in DOMAIN claims /\ i \in 1..(nextId - 1) /\ claims'[i] = claims[i]
      BY <1>6, <1>10, <2>2
    <3>2. PICK old : old = Since(i)
      OBVIOUS
    <3>3. /\ DOMAIN old = {j \in DOMAIN claims : j >= i} /\ \A j \in DOMAIN old : old[j] = claims[j]
          /\ nextId \notin DOMAIN old /\ DOMAIN old \subseteq DOMAIN claims
      BY <1>6, <3>2 DEF Since, Restrict
    <3>4. Since(i)' = Plus(old, new)
      <4>1. {j \in DOMAIN claims' : j >= i} = DOMAIN old \cup {nextId}
        BY <1>10, <1>6, <3>1, <3>3
      <4>2. Since(i)' = [j \in DOMAIN old \cup {nextId} |-> claims'[j]]
        BY <4>1 DEF Since, Restrict
      <4>3. \A j \in DOMAIN old \cup {nextId} :
              claims'[j] = IF j = nextId THEN new ELSE old[j]
        BY <1>10, <3>3
      <4> QED BY <4>2, <4>3 DEF Plus
    <3>5. Sized(old)
      BY <1>7, <3>3 DEF Sized
    <3>6. SizeOf(Since(i)') = SizeOf(old) + size /\ SizeOf(old) \in Nat
      BY <1>6, <1>12, <3>3, <3>4, <3>5, PlusAdds, SizeIsNat
    <3>7. /\ IsFiniteSet(DOMAIN old) /\ Cardinality(DOMAIN old) \in Nat
          /\ Cardinality(DOMAIN Since(i)') = Cardinality(DOMAIN old) + 1
      <4>1. IsFiniteSet(DOMAIN old) /\ Cardinality(DOMAIN old) \in Nat
        BY <3>3, FewerResults DEF StoreInv
      <4>2. DOMAIN Since(i)' = DOMAIN old \cup {nextId}
        BY <3>4 DEF Plus
      <4> QED BY <3>3, <4>1, <4>2, FS_AddElement
    <3>8. /\ Cardinality(DOMAIN old) + 1 <= KeptResults /\ SizeOf(old) + size <= KeptBytes
          /\ ~TooOld(claims[i])
      <4>1. /\ Cardinality(DOMAIN Since(i)') <= KeptResults /\ SizeOf(Since(i)') <= KeptBytes
            /\ ~TooOld(claims[i])'
        BY <1>18 DEF Due, SizeOf
      <4>2. ~TooOld(claims[i])
        BY <1>5, <3>1, <4>1 DEF TooOld
      <4> QED BY <3>6, <3>7, <4>1, <4>2
    <3>9. i \in DOMAIN es
      <4>1. Cardinality(DOMAIN old) <= KeptResults /\ SizeOf(old) <= KeptBytes
        BY <1>12, <3>6, <3>7, <3>8, StoreAssumption
      <4> QED BY <1>2, <3>1, <3>2, <3>8, <4>1 DEF Due, Holds
    <3>10. ~(i <= room)
      <4>1. SUFFICES ASSUME i <= room PROVE FALSE
        OBVIOUS
      <4>2. PICK w : w = Without(es, 1..(i - 1))
        OBVIOUS
      <4>3. i - 1 \in 0..nextId /\ ~(room <= i - 1)
        BY <1>6, <1>8, <3>1, <4>1
      <4>4. \/ ~(Cardinality(DOMAIN w.es) < KeptResults)
            \/ ~(count - w.less + size <= KeptBytes)
        BY <1>8, <4>2, <4>3
      <4>5. /\ w.es = [j \in DOMAIN es \ (1..(i - 1)) |-> es[j]]
            /\ w.less \in Nat /\ SizeOf(w.es) \in Nat
            /\ SizeOf(es) = SizeOf(w.es) + w.less
        BY <1>7, <4>2, WithoutSplits
      <4>6. DOMAIN w.es \subseteq DOMAIN old /\ \A j \in DOMAIN w.es : w.es[j] = old[j]
        <5>1. ASSUME NEW j \in DOMAIN w.es PROVE j \in DOMAIN old /\ w.es[j] = old[j]
          <6>1. j \in DOMAIN es /\ ~(j \in 1..(i - 1)) /\ w.es[j] = es[j]
            BY <4>5
          <6>2. j \in DOMAIN claims /\ j \in 1..(nextId - 1) /\ es[j] = claims[j]
            BY <1>2, <1>6, <6>1 DEF Holds
          <6>3. j >= i
            BY <1>6, <3>1, <6>1, <6>2
          <6> QED BY <3>3, <6>1, <6>2, <6>3
        <5> QED BY <5>1
      <4>7. Cardinality(DOMAIN w.es) \in Nat /\ Cardinality(DOMAIN w.es) <= Cardinality(DOMAIN old)
        BY <3>3, <4>6, FewerResults DEF StoreInv
      <4>8. SizeOf(w.es) <= SizeOf(old)
        BY <3>5, <4>6, PartFits
      <4>9. count = SizeOf(es)
        BY <1>2 DEF Holds
      <4> QED BY <1>12, <3>6, <3>7, <3>8, <4>4, <4>5, <4>7, <4>8, <4>9, StoreAssumption
    <3>11. i \in DOMAIN left.es
      BY <1>6, <1>8, <1>9, <3>9, <3>10
    <3> QED BY <1>11, <3>11
  <2> QED BY <2>1, <2>2
<1>19. Holds(entries, bytes)'
  <2>1. SizeOf(entries)' = SizeOf(entries')
    BY DEF SizeOf
  <2> QED BY <1>11, <1>15, <1>16, <1>17, <1>18, <2>1 DEF Holds
<1>20. FoundIt'
  BY <1>5, <1>10 DEF StoreInv, FoundIt
<1> QED BY <1>14, <1>19, <1>20 DEF StoreInv

LEMMA StoreStep == StoreInv /\ [StoreNext]_storeVars => StoreInv'
<1> SUFFICES ASSUME StoreInv, [StoreNext]_storeVars PROVE StoreInv'
  OBVIOUS
<1>1. ASSUME NEW size \in 1..(ResultBytes + 1), Retain(size) PROVE StoreInv'
  <2>1. size \in 1..ResultBytes \/ size > ResultBytes
    BY StoreAssumption
  <2> QED BY <1>1, <2>1, RetainedKeeps, TooLargeKeeps
<1>2. ASSUME NEW id, Lookup(id) PROVE StoreInv'
  BY <1>2, LookupKeeps
<1>3. ASSUME NEW id, TimerExpires(id) PROVE StoreInv'
  BY <1>3, TimerKeeps
<1>4. CASE StoreTimePasses
  BY <1>4, TimeKeeps
<1>5. CASE UNCHANGED storeVars
  <2>1. UNCHANGED <<entries, bytes, nextId, time, claims, lookedUp>>
    BY <1>5 DEF storeVars
  <2>2. Claimed' /\ Holds(entries, bytes)'
    BY <2>1, SameClaims DEF StoreInv, Claimed
  <2> QED BY <2>1, <2>2 DEF StoreInv, FoundIt
<1> QED BY <1>1, <1>2, <1>3, <1>4, <1>5 DEF StoreNext

\* A result that an answer said is available is found, as it was, until its time is up, as
\* long as it and the newer ones are within the limits; the store counts what it keeps.
\* (InteractionDiagnostics)
THEOREM ResultsKept == StoreSpec => []ResultsAreKept
BY StoreStart, StoreStep, StoreKeepsResults, PTL DEF StoreSpec

----------------------------------------------------------------------------
(* Replies, targets, and what is kept *)

\* A success left the app as ManageIsHonest says, which leaves out the data of an iOS reset,
\* and a status says what StatusIsHonest lets it say when probes fail.
\* (manage/android.ts, manage/ios.ts, system/index.ts)
THEOREM RepliesTrue == ManageSpec /\ StatusSpec => []RepliesAreTrue
BY ManagesHonestly, StatusesHonestly, PTL DEF RepliesAreTrue

\* A call acts on what it was asked to act on: the device it names or that suits it best,
\* the element of its id, the best match of what it has read.  (resolveDevice,
\* tapElementHandler, findElement)
THEOREM TargetsTrue == DeviceSpec /\ HandlesSpec /\ SearchSpec => []TargetsAreTrue
BY TargetsHonestly, TapsHonestly, FindsHonestly, PTL DEF TargetsAreTrue

\* What a session or a call left to be fetched later is there until its time is up, or the
\* client is told that it is gone.  (command "events" of sessions.ts,
\* InteractionDiagnostics)
THEOREM KeptTrue == EventSpec /\ StoreSpec => []KeptOrTold
BY EventsComplete, ResultsKept, PTL DEF KeptOrTold
===============================================================================
