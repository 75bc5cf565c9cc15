---------------------------- MODULE NetworkActivity ----------------------------
(***************************************************************************)
(* get_network_activity and classify_action_outcome: the window that       *)
(* observe/network/index.ts keeps in two timestamps for the whole server,  *)
(* while the app makes requests, actions start and reads overlap.          *)
(*                                                                         *)
(* A Bug operator is the definition after it with one plausible mistake;   *)
(* no action uses it.                                                      *)
(***************************************************************************)
EXTENDS Naturals, FiniteSets, FiniteSetsExt

CONSTANTS
  NetReaders,  \* calls of get_network_activity that may overlap
  Lookback,    \* how far a read looks back before any action: 30 s
  MaxNetTime

VARIABLES
  wall,             \* Date.now(); the device stamps its log with the same clock
  lastAction, lastConsumed,
  requests,         \* what the app did: the network events in the device's log, with
                    \* when they happened and what their lines say of it
  read,             \* the calls
  outcome,          \* what classify_action_outcome has just said
  returned          \* history: events that ended calls returned

networkVars == <<wall, lastAction, lastConsumed, requests, read, outcome, returned>>

\* What parseMessageToEvent() finds in a line: a URL or else a plausible path, a method,
\* a number from 100 to 599 that may follow "HTTP", words of a network error, and
\* whether the endpoint is one of analytics, assets and the like.
LogLines ==
  {l \in [endpoint : {"url", "path", "none"}, method : BOOLEAN, http : BOOLEAN,
          number : {"none", "1xx", "2xx", "3xx", "4xx", "5xx"}, error : BOOLEAN,
          background : BOOLEAN] :
     /\ l.http => l.number # "none"
     /\ l.background => l.endpoint # "none"}

\* extractStatusCode(): without "HTTP", any such number on a line that has an endpoint.
StatusCode(l) == IF l.http \/ l.endpoint # "none" THEN l.number ELSE "none"

\* meetsEmissionCriteria()
IsEvent(l) ==
  \/ l.endpoint = "url"
  \/ StatusCode(l) # "none"
  \/ l.endpoint = "path" /\ l.method

ClassifyStatus(code, error) ==
  CASE error -> "retryable"
    [] ~error /\ code \in {"none", "2xx"} -> "success"
    [] ~error /\ code = "4xx" -> "failure"
    [] OTHER -> "retryable"

\* What is left of a line: whether it is of a primary endpoint, and of a failed request.
Request(l) == [primary |-> ~l.background,
               failed |-> ClassifyStatus(StatusCode(l), l.error) # "success"]

NetRequests == {Request(l) : l \in {l \in LogLines : IsEvent(l)}}

\* since, and as history action and before, are fixed when the call begins; got is
\* fixed when the log is read.
NoRead == [at |-> "idle", since |-> 0, action |-> 0, before |-> {}, got |-> {}]

NetworkInit ==
  /\ wall = 1
  /\ lastAction = 0 /\ lastConsumed = 0
  /\ requests = {}
  /\ read = [r \in NetReaders |-> NoRead]
  /\ outcome = "none"
  /\ returned = {}

\* filterToSignificantEvents(): background requests only if there is nothing else.
FilterToSignificantEvents(events) ==
  LET primary == {e \in events : e.primary} IN IF primary # {} THEN primary ELSE events

\* getAndroidEvents(), getIOSEvents(): the log without the lines whose time is not past a
\* moment; a line whose time cannot be read (stamp 0) is kept whatever its age.
EventsSince(since) == {e \in requests : e.stamp = 0 \/ e.stamp > since}

Window ==
  IF lastConsumed > lastAction THEN lastConsumed
  ELSE IF lastAction > 0 THEN lastAction
  ELSE IF wall > Lookback THEN wall - Lookback ELSE 0

\* classifyActionOutcome() for an action that did not show on the screen.
Classify(category, network) ==
  CASE category = "unknown" -> "unknown"
    [] category # "unknown" /\ \E e \in network : e.failed -> "backend_failure"
    [] OTHER -> IF category = "local_state" \/ network = {} THEN "no_op" ELSE "ui_failure"

----------------------------------------------------------------------------

Elapse ==
  /\ wall < MaxNetTime
  /\ wall' = wall + 1
  /\ outcome' = "none"
  /\ UNCHANGED <<lastAction, lastConsumed, requests, read, returned>>

\* One event in a millisecond, so that events differ.  Its line says when it was, or (iOS)
\* the whole second that this is cut to, or nothing that can be read as a time.
RequestMade(r, stamp) ==
  /\ \A e \in requests : e.at # wall
  /\ requests' = requests \cup {[at |-> wall, stamp |-> stamp,
                                 primary |-> r.primary, failed |-> r.failed]}
  /\ outcome' = "none"
  /\ UNCHANGED <<wall, lastAction, lastConsumed, read, returned>>

\* notifyActionStart(), as an input is dispatched
ActionStarts ==
  /\ lastAction # wall
  /\ lastAction' = wall
  /\ lastConsumed' = 0
  /\ outcome' = "none"
  /\ UNCHANGED <<wall, requests, read, returned>>

ReadStarts(r) ==
  /\ read[r].at = "idle"
  /\ read' = [read EXCEPT ![r] = [NoRead EXCEPT !.at = "log", !.since = Window,
                                                !.action = lastAction,
                                                !.before = returned]]
  /\ outcome' = "none"
  /\ UNCHANGED <<wall, lastAction, lastConsumed, requests, returned>>

\* adb or simctl prints the log as it is now, or fails: then there is nothing.
LogRead(r, ok) ==
  /\ read[r].at = "log"
  /\ read' = [read EXCEPT ![r].at = "filter",
                          ![r].got = IF ok THEN EventsSince(read[r].since) ELSE {}]
  /\ outcome' = "none"
  /\ UNCHANGED <<wall, lastAction, lastConsumed, requests, returned>>

\* The window is never moved past what a read returned.
BugReadEnds(r, category) ==
  /\ read[r].at = "filter"
  /\ LET significant == FilterToSignificantEvents(read[r].got) IN
     /\ outcome' = Classify(category, significant)
     /\ returned' = returned \cup significant
  /\ read' = [read EXCEPT ![r] = NoRead]
  /\ lastConsumed' = IF lastAction > lastConsumed THEN lastAction ELSE lastConsumed
  /\ UNCHANGED <<wall, lastAction, requests>>

\* The read returns, and its client classifies the action by it.
ReadEnds(r, category) ==
  /\ read[r].at = "filter"
  /\ LET significant == FilterToSignificantEvents(read[r].got) IN
     /\ outcome' = Classify(category, significant)
     /\ returned' = returned \cup significant
  /\ read' = [read EXCEPT ![r] = NoRead]
  /\ lastConsumed' = wall
  /\ UNCHANGED <<wall, lastAction, requests>>

NetworkNext ==
  \/ Elapse
  \/ \E r \in NetRequests, stamp \in 0..wall : RequestMade(r, stamp)
  \/ ActionStarts
  \/ \E r \in NetReaders :
       \/ ReadStarts(r)
       \/ \E ok \in BOOLEAN : LogRead(r, ok)
       \/ \E c \in {"local_state", "side_effect", "unknown"} : ReadEnds(r, c)

NetworkSpec == NetworkInit /\ [][NetworkNext]_networkVars

----------------------------------------------------------------------------
(* Properties *)

\* An action is said to have failed in the backend only for a failed request that the call
\* returned and whose line has no time that could be read, or else that was made after the
\* action had started and that no call which had ended before this one began returned
\* already, whatever reads and actions overlap.  (getNetworkActivity, notifyActionStart,
\* classifyActionOutcome; a line without a time is returned by every read that finds it in
\* the log, network/index.ts 201-205 and 231-235, so that nothing can be said of its age)
BlameIsFresh ==
  [][\A r \in NetReaders :
       read[r].at = "filter" /\ read'[r].at = "idle" /\ outcome' = "backend_failure" =>
         \E e \in FilterToSignificantEvents(read[r].got) :
           /\ e.failed
           /\ e.stamp = 0 \/ (e \notin read[r].before /\ e.at > read[r].action)]_networkVars
=============================================================================
