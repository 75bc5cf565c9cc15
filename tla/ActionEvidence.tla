----------------------------- MODULE ActionEvidence -----------------------------
(***************************************************************************)
(* The freshness of an observation (observe/evidence.ts): calls of actions *)
(* dispatch to devices while these and other calls capture them, and each  *)
(* response says whether what it captured may be older than an action.     *)
(*                                                                         *)
(* A call is one context of the AsyncLocalStorage and captures once.  The  *)
(* wall clock is taken to agree with the monotonic one.                    *)
(*                                                                         *)
(* A Bug operator is the definition after it with one plausible mistake;   *)
(* no action uses it.                                                      *)
(***************************************************************************)
EXTENDS Naturals, FiniteSets, Sequences

CONSTANTS
  EvDevices,
  Actions,   \* calls that act (and observe)
  Readers,   \* calls that observe, each for a referenced action or none
  NoDevice,  \* an alias: the device it resolves to is known later
  NoAction,
  MaxOrders, \* devices whose order is kept (1000 in the code)
  MaxTime    \* a bound of the model: stamps that are compared

ASSUME EvidenceNamesAssumption ==
  NoDevice \notin EvDevices /\ NoAction \notin Actions /\ Actions \cap Readers = {}

VARIABLES
  orders,  \* the order object each device's key maps to, 0 for none
  order,   \* the order objects, numbered as they are made
  record,  \* the record of each action
  reader,  \* the action a reader's reference resolved to
  dispatch,\* the dispatch each action has under way
  capture, \* the acquisition of each call
  now,     \* the last stamp
  touched  \* not in the program: devices dispatched to since a capture began

evidenceVars == <<orders, order, record, reader, dispatch, capture, now, touched>>

Callers == Actions \cup Readers
Unmade == [seq |-> 0, active |-> 0, last |-> 0]
NoCapture == [st |-> "none", dev |-> NoDevice, ord |-> 0, start |-> 0, first |-> 0,
              last |-> 0, overlapping |-> FALSE, source |-> 0]

EvidenceInit ==
  /\ orders = [d \in EvDevices |-> 0]
  /\ order = << >>
  /\ record = [a \in Actions |-> [st |-> "none", dev |-> NoDevice, sent |-> 0]]
  /\ reader = [r \in Readers |-> [st |-> "none", ref |-> NoAction, dev |-> NoDevice]]
  /\ dispatch = [a \in Actions |-> [on |-> FALSE, dev |-> NoDevice, ord |-> 0]]
  /\ capture = [c \in Callers |-> NoCapture]
  /\ now = 0
  /\ touched = [c \in Callers |-> {}]

----------------------------------------------------------------------------
(* Orders *)

\* orderFor: the key's order or a new one, which evicts the oldest idle orders
\* of other keys past the limit.
OrderOf(d) == IF orders[d] # 0 THEN orders[d] ELSE Len(order) + 1
Evicted(d) ==
  LET others == {e \in EvDevices \ {d} : orders[e] # 0}
      idle == {e \in others : order[orders[e]].active = 0}
      excess == IF orders[d] = 0 THEN Cardinality(others) + 1 - MaxOrders ELSE 0
  IN {e \in idle : Cardinality({f \in idle : orders[f] < orders[e]}) < excess}
UsesOrder(d) ==
  orders' = [e \in EvDevices |->
    IF e = d THEN OrderOf(d) ELSE IF e \in Evicted(d) THEN 0 ELSE orders[e]]
Made(d) == IF orders[d] # 0 THEN order ELSE Append(order, Unmade)

Tick == now < MaxTime /\ now' = now + 1

----------------------------------------------------------------------------
(* Calls *)

\* withEvidence of an action; of a reader, whose reference is looked up once,
\* among the active actions and the retained ones.
Begins(c) ==
  /\ \/ /\ c \in Actions /\ record[c].st = "none"
        /\ record' = [record EXCEPT ![c].st = "active"]
        /\ UNCHANGED reader
     \/ /\ c \in Readers /\ reader[c].st = "none"
        /\ \E ref \in {a \in Actions : record[a].st \in {"active", "kept"}} \cup {NoAction} :
             reader' = [reader EXCEPT ![c].st = "open", ![c].ref = ref]
        /\ UNCHANGED record
  /\ UNCHANGED <<orders, order, dispatch, capture, now, touched>>

\* An action's call ends and its record goes to the history, which forgets it
\* after ten minutes or a thousand others (prune).
Ends(a) ==
  /\ \/ record[a].st = "active" /\ ~dispatch[a].on /\ capture[a].st # "open"
        /\ record' = [record EXCEPT ![a].st = "kept"]
     \/ record[a].st = "kept"
        /\ record' = [record EXCEPT ![a].st = "pruned"]
  /\ UNCHANGED <<orders, order, reader, dispatch, capture, now, touched>>

\* evidenceDispatch starts: the record keeps its first start.
DispatchStarts(a, d) ==
  /\ record[a].st = "active" /\ ~dispatch[a].on
  /\ Tick
  /\ UsesOrder(d)
  /\ order' = [Made(d) EXCEPT ![OrderOf(d)] =
                 [seq |-> @.seq + 1, active |-> @.active + 1, last |-> now']]
  /\ record' = [record EXCEPT ![a].dev = IF @ = NoDevice THEN d ELSE @,
                              ![a].sent = IF @ = 0 THEN now' ELSE @]
  /\ dispatch' = [dispatch EXCEPT ![a] = [on |-> TRUE, dev |-> d, ord |-> OrderOf(d)]]
  /\ touched' = [c \in Callers |-> IF capture[c].st # "none" THEN touched[c] \cup {d} ELSE {}]
  /\ UNCHANGED <<reader, capture>>

DispatchEnds(a) ==
  /\ dispatch[a].on
  /\ order' = [order EXCEPT ![dispatch[a].ord].active = @ - 1]
  /\ dispatch' = [dispatch EXCEPT ![a].on = FALSE]
  /\ UNCHANGED <<orders, record, reader, capture, now, touched>>

\* bindEvidenceDevice: the first concrete device of a call, and of its action.
Binds(c, d) ==
  /\ record' = IF c \in Actions /\ d # NoDevice
                 THEN [record EXCEPT ![c].dev = IF @ = NoDevice THEN d ELSE @] ELSE record
  /\ reader' = IF c \in Readers /\ d # NoDevice
                 THEN [reader EXCEPT ![c].dev = IF @ = NoDevice THEN d ELSE @] ELSE reader

BugOverlaps(id, first) == order'[id].seq # first
Overlaps(id, first) == order'[id].active > 0 \/ order'[id].seq # first

\* captureEvidence starts on a concrete device or on an alias.
CaptureStarts(c, d) ==
  /\ IF c \in Actions THEN record[c].st = "active" ELSE reader[c].st = "open"
  /\ capture[c].st = "none"
  /\ Tick
  /\ Binds(c, d)
  /\ IF d = NoDevice
     THEN /\ capture' = [capture EXCEPT ![c] = [NoCapture EXCEPT !.st = "open", !.start = now']]
          /\ UNCHANGED <<orders, order>>
     ELSE /\ UsesOrder(d)
          /\ order' = Made(d)
          /\ capture' = [capture EXCEPT ![c] = [NoCapture EXCEPT
               !.st = "open", !.dev = d, !.ord = OrderOf(d), !.start = now',
               !.first = order'[OrderOf(d)].seq,
               !.overlapping = Overlaps(OrderOf(d), order'[OrderOf(d)].seq)]]
  /\ touched' = [touched EXCEPT ![c] = {dispatch[a].dev : a \in {a \in Actions : dispatch[a].on}}]
  /\ UNCHANGED dispatch

\* It ends: it threw or failed, or it has a value of the device the result names,
\* taken now, or reused from before the acquisition began.
CaptureEnds(c) ==
  /\ capture[c].st = "open"
  /\ UNCHANGED <<orders, order, dispatch, now, touched>>
  /\ \/ /\ capture' = [capture EXCEPT ![c].st = "failed"]
        /\ UNCHANGED <<record, reader>>
     \/ \E d \in EvDevices, source \in {now, capture[c].start - 1} :
          /\ Binds(c, d)
          /\ LET id == capture[c].ord IN
             capture' = [capture EXCEPT ![c].st = "captured", ![c].dev = d, ![c].source = source,
               ![c].last = IF id = 0 THEN 0 ELSE order[id].seq,
               ![c].overlapping = @ \/ (id # 0 /\ Overlaps(id, capture[c].first))]

EvidenceNext ==
  \/ \E c \in Callers : \/ Begins(c) \/ CaptureEnds(c)
                        \/ \E d \in EvDevices \cup {NoDevice} : CaptureStarts(c, d)
  \/ \E a \in Actions : \/ Ends(a) \/ DispatchEnds(a)
                        \/ \E d \in EvDevices : DispatchStarts(a, d)

EvidenceSpec == EvidenceInit /\ [][EvidenceNext]_evidenceVars

----------------------------------------------------------------------------
(* The response *)

\* association: the action a call's evidence is about.
ActionOf(c) ==
  IF c \in Actions THEN c
  ELSE IF /\ reader[c].ref # NoAction /\ reader[c].dev # NoDevice
          /\ reader[c].dev = record[reader[c].ref].dev
    THEN reader[c].ref ELSE NoAction

KnownCapture(v) == v.st = "captured" /\ v.ord # 0 /\ orders[v.dev] = v.ord

Reused(v) == v.source < v.start
Superseded(v) ==
  \/ order[v.ord].seq > v.last
  \/ Reused(v) /\ v.source < order[v.ord].last

\* observationFreshness, of what call c captured.
Stale(c) ==
  LET a == ActionOf(c) IN
  \/ a # NoAction /\ record[a].dev = capture[c].dev /\ capture[c].source < record[a].sent
  \/ Superseded(capture[c])
Freshness(c) ==
  IF ~KnownCapture(capture[c]) THEN "unknown"
  ELSE IF Stale(c) THEN "stale"
  ELSE IF capture[c].overlapping \/ Reused(capture[c]) THEN "unknown" ELSE "fresh"

\* An observation reported as fresh was taken while no dispatch to its device was
\* under way, no dispatch to it has started since the acquisition began, and it is
\* not older than the action it is reported with (observationFreshness), however
\* the orders of the devices were evicted in between.
FreshIsHonest ==
  \A c \in Callers : Freshness(c) = "fresh" =>
    /\ capture[c].dev \notin touched[c]
    /\ capture[c].source >= capture[c].start
    /\ ActionOf(c) # NoAction => capture[c].source >= record[ActionOf(c)].sent

=============================================================================
