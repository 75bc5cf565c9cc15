----------------------------- MODULE DebuggerEvents -----------------------------
(***************************************************************************)
(* The events that a debugger session keeps, the last RingSize of them,    *)
(* and a client that reads them page by page: it asks for those after its  *)
(* cursor, and goes on from the cursor of the answer.                      *)
(*                                                                         *)
(* A Bug operator is the definition after it with one plausible mistake;   *)
(* no action uses it.                                                      *)
(***************************************************************************)
EXTENDS Naturals, Sequences, FiniteSetsExt

CONSTANTS
  RingSize,      \* events that are kept (256 in the code)
  PageSize,      \* events of an answer (100 in the code)
  MaxEventNumber \* bound: events of the session

ASSUME RingAssumption == RingSize \in Nat \ {0} /\ PageSize \in 1 .. RingSize

VARIABLES
  ring,   \* the events that are kept: their numbers
  sequence, \* the number of the last event
  cleaned,  \* cleanup is complete: the events were dropped
  asking,   \* a poll is under way
  cursor,   \* the cursor of the client: what it asks after
  client    \* what it was given, and what it was told that it missed

eventVars == <<ring, sequence, cleaned, asking, cursor, client>>

EventInit ==
  /\ ring = <<>> /\ sequence = 0 /\ cleaned = FALSE
  /\ asking = FALSE /\ cursor = 0
  /\ client = [given |-> {}, missed |-> {}]

\* An event of the worker.
Received ==
  /\ sequence < MaxEventNumber
  /\ sequence' = sequence + 1
  /\ LET all == Append(ring, sequence + 1)
     IN ring' = IF Len(all) > RingSize THEN Tail(all) ELSE all
  /\ UNCHANGED <<cleaned, asking, cursor, client>>

\* Cleanup drops the events; a worker that is still to exit may send more.
Dropped ==
  /\ ~cleaned
  /\ cleaned' = TRUE /\ ring' = <<>>
  /\ UNCHANGED <<sequence, asking, cursor, client>>

\* A poll begins with a cursor that an event has had, and waits.
PollBegins ==
  /\ ~asking /\ cursor <= sequence
  /\ asking' = TRUE
  /\ UNCHANGED <<ring, sequence, cleaned, cursor, client>>

\* Where the events after the cursor are in the ring; the first PageSize of them are a page.
After == {k \in DOMAIN ring : ring[k] > cursor}
BugPage == {k \in After : Cardinality({j \in After : j > k}) < PageSize}
Page == {k \in After : Cardinality({j \in After : j < k}) < PageSize}

FirstKept == IF ring = <<>> THEN sequence + 1 ELSE ring[1]
BugOverflow == cursor < FirstKept - 2
Overflow == cursor < FirstKept - 1

NextCursor == IF Page = {} THEN sequence ELSE ring[Max(Page)]

\* The answer comes with an event, when the time is up or when the session was cleaned up.
PollAnswers ==
  /\ asking
  /\ asking' = FALSE
  /\ cursor' = NextCursor
  /\ client' = [given |-> client.given \cup {ring[k] : k \in Page},
                missed |-> client.missed \cup
                           (IF Overflow THEN cursor + 1 .. FirstKept - 1 ELSE {})]
  /\ UNCHANGED <<ring, sequence, cleaned>>

EventNext == Received \/ Dropped \/ PollBegins \/ PollAnswers

EventSpec == EventInit /\ [][EventNext]_eventVars

----------------------------------------------------------------------------
(* Properties *)

\* A client that follows the cursor is given each event up to its cursor once, or is told by
\* an overflow that it missed it.
EventsAreComplete ==
  /\ client.given \cup client.missed = 1 .. cursor
  /\ client.given \cap client.missed = {}

=============================================================================
