------------------------------ MODULE TraceRouter ------------------------------
(***************************************************************************)
(* The router of observe/system-trace-router.ts in front of the two trace  *)
(* backends, and the shutdown of server.ts above it.                       *)
(*                                                                         *)
(* A backend is reduced to what AndroidTraces and IosTraces show of it: it *)
(* reserves a device in one turn, holds it until its cleanup completes,    *)
(* forgets a cleaned trace ten minutes later, and answers shutdown with    *)
(* what it still holds.  The debugger registries likewise                  *)
(* (DebuggerSessions).                                                     *)
(*                                                                         *)
(* A Bug operator is the definition after it with one plausible mistake;   *)
(* no action uses it.                                                      *)
(***************************************************************************)
EXTENDS Naturals, FiniteSets

CONSTANTS
  Traces,       \* trace ids
  AndroidKeys,  \* devices as the router names them: platform and id
  IosKeys,
  Debuggers,    \* the debugger registries (one for each platform in the code)
  Calls,        \* calls of start that may be under way
  MaxReserved,  \* traces that are starting or not cleaned (4 in the code)
  MaxTerminal   \* ended traces whose route is kept (100 in the code)

ASSUME LimitsAssumption == MaxReserved \in Nat \ {0} /\ MaxTerminal \in Nat

Keys == AndroidKeys \cup IosKeys
Registries == {"androidTraces", "iosTraces"} \cup Debuggers

ASSUME RegistriesAssumption == Debuggers \cap {"androidTraces", "iosTraces"} = {}

VARIABLES
  backend,  \* the trace in its backend
  route,    \* the router's entry for it
  pending,  \* keys whose start is under way
  call,     \* calls of start
  attached, \* the debugger registries that hold a session
  answer,   \* what each registry's shutdown() returned
  server    \* "up", "closing", "transport", or the exit code

vars == <<backend, route, pending, call, attached, answer, server>>

Backend == [key : Keys, st : {"none", "held", "clean", "expired"}]
\* A call of start: ask is what its refresh still waits for.
Call == [at : {"idle", "refresh", "capabilities", "backend"}, key : Keys,
         ask : SUBSET Traces, trace : Traces]
Exited == {"exit0", "exit1"}

TypeOK ==
  /\ backend \in [Traces -> Backend]
  /\ route \in [Traces -> {"none", "active", "terminal"}]
  /\ pending \in SUBSET Keys
  /\ call \in [Calls -> Call]
  /\ attached \in SUBSET Debuggers
  /\ answer \in [Registries -> {"none", "clean", "remaining"}]
  /\ server \in {"up", "closing", "transport"} \cup Exited

AnyKey == CHOOSE k \in Keys : TRUE
Idle == [at |-> "idle", key |-> AnyKey, ask |-> {}, trace |-> CHOOSE t \in Traces : TRUE]

Init ==
  /\ backend = [t \in Traces |-> [key |-> AnyKey, st |-> "none"]]
  /\ route = [t \in Traces |-> "none"]
  /\ pending = {}
  /\ call = [c \in Calls |-> Idle]
  /\ attached \in SUBSET Debuggers
  /\ answer = [r \in Registries |-> "none"]
  /\ server = "up"

Closing == server # "up"
Running == server \notin Exited
Held(keys) == {t \in Traces : backend[t].st = "held" /\ backend[t].key \in keys}
Active == {t \in Traces : route[t] = "active"}

----------------------------------------------------------------------------
(* The backends *)

\* A backend refuses a second trace of a device and one too many of its platform.
BackendBusy(k) ==
  LET reserved == Held(IF k \in IosKeys THEN IosKeys ELSE AndroidKeys) IN
  \/ Closing
  \/ \E u \in reserved : backend[u].key = k
  \/ Cardinality(reserved) >= MaxReserved

\* A trace ends on its own, by its duration, or by a call; its cleanup completes.
CleanupCompletes(t) ==
  /\ Running /\ backend[t].st = "held"
  /\ backend' = [backend EXCEPT ![t].st = "clean"]
  /\ UNCHANGED <<route, pending, call, attached, answer, server>>

\* prune() of the backend, ten minutes after the cleanup.
Expires(t) ==
  /\ Running /\ backend[t].st = "clean"
  /\ \A c \in Calls : call[c].at = "backend" => call[c].trace # t
  /\ backend' = [backend EXCEPT ![t].st = "expired"]
  /\ UNCHANGED <<route, pending, call, attached, answer, server>>

----------------------------------------------------------------------------
(* The router *)

\* track(): the route follows the result; old terminal routes are evicted.
Track(t, evicted) ==
  LET terminal == {u \in Traces : route[u] = "terminal" \/ (u = t /\ backend[t].st = "clean")}
  IN
  /\ evicted \in SUBSET (terminal \ Held(Keys))
  /\ Cardinality(terminal \ evicted) <= MaxTerminal
  /\ route' = [u \in Traces |->
       CASE u \in evicted -> "none"
         [] u = t /\ u \notin evicted ->
              IF backend[t].st = "clean" THEN "terminal" ELSE "active"
         [] OTHER -> route[u]]

\* start() asks the backends about every active route first.
StartRefresh(c, k) ==
  /\ Running /\ ~Closing /\ call[c].at = "idle"
  /\ call' = [call EXCEPT ![c] = [@ EXCEPT !.at = "refresh", !.key = k, !.ask = Active]]
  /\ UNCHANGED <<backend, route, pending, attached, answer, server>>

\* A status that arrives is tracked; one the backend refuses leaves the route.
Refreshed(c, t) ==
  /\ Running /\ call[c].at = "refresh" /\ t \in call[c].ask
  /\ call' = [call EXCEPT ![c].ask = @ \ {t}]
  /\ IF backend[t].st = "expired" THEN UNCHANGED route
     ELSE \E e \in SUBSET Traces : Track(t, e)
  /\ UNCHANGED <<backend, pending, attached, answer, server>>

\* Only the routes count against the limit, not the starts under way.
BugBusy(k) ==
  \/ Closing
  \/ k \in pending
  \/ \E t \in Active : backend[t].key = k
  \/ Cardinality(Active) >= MaxReserved

Busy(k) ==
  \/ Closing
  \/ k \in pending
  \/ \E t \in Active : backend[t].key = k
  \/ Cardinality(Active) + Cardinality(pending) >= MaxReserved

Refuse(c, k) ==
  /\ call' = [call EXCEPT ![c] = Idle]
  /\ pending' = pending \ {k}
  /\ UNCHANGED backend

\* The backend reserves before its first await, or refuses.
EnterBackend(c, k, t) ==
  IF BackendBusy(k) THEN Refuse(c, k)
  ELSE /\ backend' = [backend EXCEPT ![t] = [key |-> k, st |-> "held"]]
       /\ call' = [call EXCEPT ![c].at = "backend", ![c].trace = t]
       /\ pending' = pending \cup {k}

\* A trace id no call has yet; the one an iOS start will get is drawn early.
Fresh(t) ==
  /\ backend[t].st = "none"
  /\ \A c \in Calls : call[c].at = "capabilities" => call[c].trace # t

\* The rest of start() up to its next await.  iOS asks for capabilities first.
StartEnter(c, t) ==
  LET k == call[c].key IN
  /\ Running /\ call[c].at = "refresh" /\ call[c].ask = {} /\ Fresh(t)
  /\ CASE Busy(k) -> call' = [call EXCEPT ![c] = Idle] /\ UNCHANGED <<backend, pending>>
       [] ~Busy(k) /\ k \in AndroidKeys -> EnterBackend(c, k, t)
       [] OTHER -> /\ pending' = pending \cup {k}
                   /\ call' = [call EXCEPT ![c].at = "capabilities", ![c].trace = t]
                   /\ UNCHANGED backend
  /\ UNCHANGED <<route, attached, answer, server>>

\* closing is read again after the capabilities.
CapabilitiesEnd(c, supported) ==
  LET k == call[c].key IN
  /\ Running /\ call[c].at = "capabilities"
  /\ IF supported /\ ~Closing THEN EnterBackend(c, k, call[c].trace) ELSE Refuse(c, k)
  /\ UNCHANGED <<route, attached, answer, server>>

\* The backend's start returns a trace that records, failed, or was cleaned; it
\* is tracked and its key freed in one turn.
StartReturns(c) ==
  /\ Running /\ call[c].at = "backend"
  /\ \E e \in SUBSET Traces : Track(call[c].trace, e)
  /\ Refuse(c, call[c].key)
  /\ UNCHANGED <<attached, answer, server>>

\* status, stop, cancel: the backend's answer is tracked.
Control(t) ==
  /\ Running /\ route[t] # "none" /\ backend[t].st # "expired"
  /\ \E e \in SUBSET Traces : Track(t, e)
  /\ UNCHANGED <<backend, pending, call, attached, answer, server>>

----------------------------------------------------------------------------
(* server.ts *)

Detach(r) ==
  /\ Running /\ r \in attached
  /\ attached' = attached \ {r}
  /\ UNCHANGED <<backend, route, pending, call, answer, server>>

AttachDebugger(r) ==
  /\ ~Closing /\ r \notin attached
  /\ attached' = attached \cup {r}
  /\ UNCHANGED <<backend, route, pending, call, answer, server>>

\* A signal, the end of the input or the transport's close: the first one counts.
Shutdown ==
  /\ server = "up" /\ server' = "closing"
  /\ UNCHANGED <<backend, route, pending, call, attached, answer>>

Remains(r) ==
  CASE r = "androidTraces" -> Held(AndroidKeys) # {}
    [] r = "iosTraces" -> Held(IosKeys) # {}
    [] OTHER -> r \in attached

ShutdownAnswers(r) ==
  /\ server = "closing" /\ answer[r] = "none"
  /\ answer' = [answer EXCEPT ![r] = IF Remains(r) THEN "remaining" ELSE "clean"]
  /\ UNCHANGED <<backend, route, pending, call, attached, server>>

\* Promise.all: all four answered, or one threw; a throw skips server.close().
ShutdownGathers(thrown) ==
  /\ server = "closing"
  /\ thrown \/ \A r \in Registries : answer[r] # "none"
  /\ server' = IF thrown THEN "exit1" ELSE "transport"
  /\ UNCHANGED <<backend, route, pending, call, attached, answer>>

\* Only what the trace backends report decides the exit code.
BugExits(ok) ==
  /\ server = "transport"
  /\ server' = IF ok /\ \A r \in Registries \ Debuggers : answer[r] = "clean"
               THEN "exit0" ELSE "exit1"
  /\ UNCHANGED <<backend, route, pending, call, attached, answer>>

\* server.close() settles; its onclose finds the shutdown under way.
Exits(ok) ==
  /\ server = "transport"
  /\ server' = IF ok /\ \A r \in Registries : answer[r] = "clean"
               THEN "exit0" ELSE "exit1"
  /\ UNCHANGED <<backend, route, pending, call, attached, answer>>

\* Ten seconds after the shutdown began.
Deadline ==
  /\ server \in {"closing", "transport"}
  /\ server' = "exit1"
  /\ UNCHANGED <<backend, route, pending, call, attached, answer>>

Next ==
  \/ \E c \in Calls :
       \/ \E k \in Keys : StartRefresh(c, k)
       \/ \E t \in Traces : Refreshed(c, t) \/ StartEnter(c, t)
       \/ \E supported \in BOOLEAN : CapabilitiesEnd(c, supported)
       \/ StartReturns(c)
  \/ \E t \in Traces : CleanupCompletes(t) \/ Expires(t) \/ Control(t)
  \/ \E r \in Debuggers : AttachDebugger(r) \/ Detach(r)
  \/ \E r \in Registries : ShutdownAnswers(r)
  \/ \E b \in BOOLEAN : ShutdownGathers(b) \/ Exits(b)
  \/ Shutdown
  \/ Deadline

Spec == Init /\ [][Next]_vars

----------------------------------------------------------------------------
(* Properties *)

\* What a trace reserves: its start is past the check, or its cleanup is not done.
ReservedKey ==
  [t \in Traces |->
    IF backend[t].st = "held" THEN {backend[t].key}
    ELSE {call[c].key : c \in {d \in Calls : call[d].at = "capabilities"
                                              /\ call[d].trace = t}}]

Promise == INSTANCE DeviceReservation WITH
  Holders <- Traces, Devices <- Keys, MaxHeld <- MaxReserved,
  held <- ReservedKey, open <- (server = "up")

\* Over both platforms a device is reserved for one trace, MaxReserved traces
\* hold a device at once, and none takes one after the shutdown began: the checks
\* that start() makes around its awaits implement DeviceReservation.
RouterReserves == Promise!RInit /\ [][Promise!RNext]_(Promise!rvars)

\* The exit code 0 says that no trace and no debugger session was left behind by
\* any of the four registries (server.ts, shutdown).
ExitIsHonest == server = "exit0" => Held(Keys) = {} /\ attached = {}

\* docs/tools/system-traces.md:28: "Pending failed cleanup reserves its slot until
\* resolved."  A route that reserves has a trace whose cleanup can be asked about.
ReservesUntilResolved ==
  \A t \in Active : backend[t].st # "expired"
=============================================================================
