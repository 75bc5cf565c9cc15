--------------------------- MODULE TraceRouter_proofs ---------------------------
(***************************************************************************)
(* The router of traces and the shutdown above it, for every set of        *)
(* devices, traces, calls and debugger registries, and every limit: it     *)
(* implements DeviceReservation, and the exit code 0 is honest.            *)
(***************************************************************************)
EXTENDS TraceRouter, FiniteSetTheorems, TLAPS

\* A call past the router's check: its key is pending.
Entered(c) == call[c].at \in {"capabilities", "backend"}

\* A call keeps its key pending until it returns, and no other entered call has it.
\* The trace an iOS start drew is its own and not used yet; one in the backend has
\* the call's key.
CallInv(c) ==
  /\ call[c] = [at |-> call[c].at, key |-> call[c].key, ask |-> call[c].ask,
                trace |-> call[c].trace]
  /\ call[c].at \in {"idle", "refresh", "capabilities", "backend"}
  /\ call[c].at # "idle" => call[c].key \in Keys /\ call[c].ask \in SUBSET Traces
  /\ Entered(c) => call[c].key \in pending /\ call[c].trace \in Traces
  /\ call[c].at = "capabilities" => backend[call[c].trace].st = "none"
  /\ call[c].at = "backend" => /\ backend[call[c].trace].st \in {"held", "clean"}
                               /\ backend[call[c].trace].key = call[c].key

\* The trace is named by the router or by the call that starts it.
Backed(t) ==
  \/ route[t] = "active"
  \/ \E c \in Calls : call[c].at = "backend" /\ call[c].trace = t

\* What keeps a device for one trace over the two platforms.
RouterInv ==
  /\ DOMAIN call = Calls /\ \A c \in Calls : CallInv(c)
  /\ \A c, d \in Calls : c # d /\ Entered(c) /\ Entered(d) => call[c].key # call[d].key
  /\ \A c, d \in Calls :
       c # d /\ call[c].at = "capabilities" /\ call[d].at = "capabilities" =>
         call[c].trace # call[d].trace
  /\ DOMAIN backend = Traces /\ DOMAIN route = Traces
  /\ \A t \in Traces :
       /\ backend[t] = [key |-> backend[t].key, st |-> backend[t].st]
       /\ backend[t].st \in {"none", "held", "clean", "expired"}
       /\ backend[t].st # "none" => backend[t].key \in Keys
       /\ route[t] \in {"none", "active", "terminal"}
       /\ backend[t].st = "held" => Backed(t)
  /\ pending \in SUBSET Keys /\ IsFiniteSet(pending) /\ IsFiniteSet(Active)

\* The traces that reserve a device fit what the router counts.
LEMMA ReservedIsCounted ==
  ASSUME RouterInv
  PROVE  /\ IsFiniteSet(Promise!Holding)
         /\ Cardinality(Promise!Holding) <= Cardinality(Active) + Cardinality(pending)
<1> DEFINE H == Promise!Holding
           S == H \ Active
           f == [t \in S |-> CHOOSE k : k \in ReservedKey[t]]
<1>1. \A t \in S : \E c \in Calls :
        /\ Entered(c) /\ call[c].trace = t /\ ReservedKey[t] = {call[c].key}
  <2> SUFFICES ASSUME NEW t \in S
               PROVE  \E c \in Calls : /\ Entered(c) /\ call[c].trace = t
                                       /\ ReservedKey[t] = {call[c].key}
    OBVIOUS
  <2>1. t \in Traces /\ ReservedKey[t] # {} /\ route[t] # "active"
    BY DEF Promise!Holding, Active
  <2>2. CASE backend[t].st = "held"
    <3>1. PICK c \in Calls : call[c].at = "backend" /\ call[c].trace = t
      BY <2>1, <2>2 DEF RouterInv, Backed
    <3>2. backend[t].key = call[c].key
      BY <3>1 DEF RouterInv, CallInv
    <3>3. ReservedKey[t] = {call[c].key}
      BY <2>1, <2>2, <3>2 DEF ReservedKey
    <3> QED BY <3>1, <3>3 DEF Entered
  <2>3. CASE backend[t].st # "held"
    <3>1. ReservedKey[t] = {call[c].key : c \in {d \in Calls : call[d].at = "capabilities"
                                                             /\ call[d].trace = t}}
      BY <2>1, <2>3 DEF ReservedKey
    <3>2. PICK c \in Calls : call[c].at = "capabilities" /\ call[c].trace = t
      BY <2>1, <3>1
    <3>3. \A d \in Calls : call[d].at = "capabilities" /\ call[d].trace = t => d = c
      BY <3>2 DEF RouterInv
    <3>4. ReservedKey[t] = {call[c].key}
      BY <3>1, <3>2, <3>3
    <3> QED BY <3>2, <3>4 DEF Entered
  <2> QED BY <2>2, <2>3
<1>2. \A t \in S : f[t] \in pending /\ ReservedKey[t] = {f[t]}
  <2> SUFFICES ASSUME NEW t \in S PROVE f[t] \in pending /\ ReservedKey[t] = {f[t]}
    OBVIOUS
  <2>1. PICK c \in Calls : Entered(c) /\ ReservedKey[t] = {call[c].key}
    BY <1>1
  <2>2. f[t] = call[c].key
    BY <2>1
  <2>3. call[c].key \in pending
    BY <2>1 DEF RouterInv, CallInv
  <2> QED BY <2>1, <2>2, <2>3
<1>3. \A t, u \in S : f[t] = f[u] => t = u
  <2> SUFFICES ASSUME NEW t \in S, NEW u \in S, f[t] = f[u] PROVE t = u
    OBVIOUS
  <2>1. PICK c \in Calls :
          Entered(c) /\ call[c].trace = t /\ ReservedKey[t] = {call[c].key}
    BY <1>1
  <2>2. PICK d \in Calls :
          Entered(d) /\ call[d].trace = u /\ ReservedKey[u] = {call[d].key}
    BY <1>1
  <2>3. call[c].key = f[t] /\ call[d].key = f[u]
    BY <1>2, <2>1, <2>2
  <2>4. \A a, b \in Calls : a # b /\ Entered(a) /\ Entered(b) => call[a].key # call[b].key
    BY DEF RouterInv
  <2>5. c = d
    BY <2>1, <2>2, <2>3, <2>4
  <2> QED BY <2>1, <2>2, <2>5
<1>4. f \in Injection(S, pending)
  <2>1. f \in [S -> pending]
    BY <1>2
  <2> HIDE DEF f, S
  <2> QED BY <1>3, <2>1 DEF Injection, IsInjective
<1>5. IsFiniteSet(pending) /\ IsFiniteSet(Active)
  BY DEF RouterInv
<1> HIDE DEF f
<1>6. IsFiniteSet(S) /\ Cardinality(S) <= Cardinality(pending)
  BY <1>4, <1>5, FS_Injection
<1>7. IsFiniteSet(H \cap Active) /\ Cardinality(H \cap Active) <= Cardinality(Active)
  BY <1>5, FS_Subset
<1>8. H = (H \cap Active) \cup S /\ (H \cap Active) \cap S = {}
  OBVIOUS
<1> HIDE DEF H, S
<1>9. /\ IsFiniteSet(H)
      /\ Cardinality(H) = Cardinality(H \cap Active) + Cardinality(S) - Cardinality({})
  BY <1>6, <1>7, <1>8, FS_Union
<1>10. /\ Cardinality(S) \in Nat /\ Cardinality(H \cap Active) \in Nat
       /\ Cardinality({}) = 0
       /\ Cardinality(pending) \in Nat /\ Cardinality(Active) \in Nat
  BY <1>5, <1>6, <1>7, FS_CardinalityType, FS_EmptySet
<1> QED BY <1>6, <1>7, <1>9, <1>10 DEF H

\* A device the router does not count is reserved by no trace.
LEMMA UncountedIsFree ==
  ASSUME RouterInv, NEW k, k \notin pending, \A t \in Active : backend[t].key # k
  PROVE  \A t \in Traces : k \notin ReservedKey[t]
<1> SUFFICES ASSUME NEW t \in Traces, k \in ReservedKey[t] PROVE FALSE
  OBVIOUS
<1>1. CASE backend[t].st = "held"
  <2>1. k = backend[t].key /\ Backed(t)
    BY <1>1 DEF ReservedKey, RouterInv
  <2>2. CASE route[t] = "active"
    BY <2>1, <2>2 DEF Active
  <2>3. ASSUME NEW c \in Calls, call[c].at = "backend", call[c].trace = t PROVE FALSE
    BY <2>1, <2>3 DEF RouterInv, CallInv, Entered
  <2> QED BY <2>1, <2>2, <2>3 DEF Backed
<1>2. CASE backend[t].st # "held"
  <2>1. PICK c \in Calls : call[c].at = "capabilities" /\ call[c].key = k
    BY <1>2 DEF ReservedKey
  <2> QED BY <2>1 DEF RouterInv, CallInv, Entered
<1> QED BY <1>1, <1>2

Reserves == Promise!RNext \/ UNCHANGED Promise!rvars

\* Who reserves is not changed by calls that are not at the capabilities, nor by
\* traces that are not held.
LEMMA SameReserved ==
  ASSUME RouterInv, UNCHANGED server,
         \A d \in Calls : call[d].at = "capabilities" <=> call'[d].at = "capabilities",
         \A d \in Calls : call[d].at = "capabilities" => call'[d] = call[d],
         \A t \in Traces : backend[t].st = "held" <=> backend'[t].st = "held",
         \A t \in Traces : backend[t].st = "held" => backend'[t] = backend[t]
  PROVE  Reserves
<1>1. \A t \in Traces :
        {call'[c].key : c \in {d \in Calls : call'[d].at = "capabilities"
                                            /\ call'[d].trace = t}}
        = {call[c].key : c \in {d \in Calls : call[d].at = "capabilities"
                                             /\ call[d].trace = t}}
  OBVIOUS
<1>2. ReservedKey' = ReservedKey
  BY <1>1 DEF ReservedKey
<1> QED BY <1>2 DEF Reserves, Promise!rvars

LEMMA ReservedBecomes ==
  ASSUME NEW t \in Traces, NEW S, ReservedKey'[t] = S,
         \A u \in Traces : u # t => ReservedKey'[u] = ReservedKey[u]
  PROVE  ReservedKey' = [ReservedKey EXCEPT ![t] = S]
<1>1. ReservedKey' = [u \in Traces |-> ReservedKey'[u]]
  BY DEF ReservedKey
<1>2. [ReservedKey EXCEPT ![t] = S]
        = [u \in Traces |-> IF u = t THEN S ELSE ReservedKey[u]]
  BY DEF ReservedKey
<1> QED BY <1>1, <1>2

\* A held trace whose answer is tracked is routed, and no held trace loses its route.
LEMMA TrackKeeps ==
  ASSUME RouterInv, NEW t \in Traces, NEW e, Track(t, e)
  PROVE  /\ DOMAIN route' = Traces
         /\ \A u \in Traces : route'[u] \in {"none", "active", "terminal"}
         /\ \A u \in Traces : backend[u].st = "held" /\ (u = t \/ route[u] = "active")
                              => route'[u] = "active"
         /\ IsFiniteSet(Active')
<1>1. /\ \A u \in e : backend[u].st # "held"
      /\ route' = [u \in Traces |->
           CASE u \in e -> "none"
             [] u = t /\ u \notin e ->
                  IF backend[t].st = "clean" THEN "terminal" ELSE "active"
             [] OTHER -> route[u]]
  BY DEF Track, Held, RouterInv
<1>2. \A u \in Traces :
        /\ u \in e => route'[u] = "none"
        /\ u = t /\ u \notin e =>
             route'[u] = IF backend[t].st = "clean" THEN "terminal" ELSE "active"
        /\ u # t /\ u \notin e => route'[u] = route[u]
  BY <1>1
<1>3. DOMAIN route' = Traces
  BY <1>1
<1>4. Active' \subseteq Active \cup {t}
  BY <1>2 DEF Active
<1>5. IsFiniteSet(Active \cup {t})
  BY FS_AddElement DEF RouterInv
<1>6. IsFiniteSet(Active')
  BY <1>4, <1>5, FS_Subset
<1> QED BY <1>1, <1>2, <1>3, <1>6 DEF RouterInv

LEMMA BackendEnds ==
  ASSUME RouterInv, NEW t \in Traces, CleanupCompletes(t) \/ Expires(t)
  PROVE  RouterInv' /\ Reserves
<1>1. PICK n : /\ backend' = [backend EXCEPT ![t] = n]
               /\ n = [key |-> backend[t].key, st |-> n.st]
               /\ \/ backend[t].st = "held" /\ n.st = "clean"
                  \/ /\ backend[t].st = "clean" /\ n.st = "expired"
                     /\ \A c \in Calls : call[c].at = "backend" => call[c].trace # t
  BY DEF CleanupCompletes, Expires, RouterInv
<1>2. UNCHANGED <<route, pending, call, server>>
  BY DEF CleanupCompletes, Expires
<1>3. /\ DOMAIN backend' = Traces /\ backend'[t] = n
      /\ \A u \in Traces : u # t => backend'[u] = backend[u]
  BY <1>1 DEF RouterInv
<1>4. \A c \in Calls : CallInv(c)'
  BY <1>1, <1>2, <1>3 DEF RouterInv, CallInv, Entered
<1>5. (\A c : Entered(c)' <=> Entered(c)) /\ (\A u : Backed(u)' <=> Backed(u)) /\ Active' = Active
  BY <1>2 DEF Entered, Backed, Active
<1>6. RouterInv'
  BY <1>1, <1>2, <1>3, <1>4, <1>5 DEF RouterInv
<1>7. CASE backend[t].st = "clean"
  <2>1. n.st = "expired"
    BY <1>1, <1>7
  <2> QED BY <1>2, <1>3, <1>6, <1>7, <2>1, SameReserved
<1>8. CASE backend[t].st = "held"
  <2>1. n.st = "clean"
    BY <1>1, <1>8
  <2>2. ReservedKey[t] = {backend[t].key}
    BY <1>8 DEF ReservedKey
  <2>3. \A c \in Calls : call[c].at = "capabilities" => call[c].trace # t
    BY <1>8 DEF RouterInv, CallInv
  <2>4. ReservedKey' = [ReservedKey EXCEPT ![t] = {}]
    <3>1. ReservedKey'[t] = {}
      BY <1>2, <1>3, <2>1, <2>3 DEF ReservedKey
    <3>2. \A u \in Traces : u # t => ReservedKey'[u] = ReservedKey[u]
      BY <1>2, <1>3 DEF ReservedKey
    <3> QED BY <3>1, <3>2, ReservedBecomes
  <2>5. Promise!Give(t)
    BY <1>2, <2>2, <2>4 DEF Promise!Give
  <2> QED BY <1>6, <2>5 DEF Reserves, Promise!RNext
<1> QED BY <1>1, <1>7, <1>8

\* A backend's answer about a trace is tracked.
LEMMA ControlStep ==
  ASSUME RouterInv, NEW t \in Traces, Control(t)
  PROVE  RouterInv' /\ Reserves
<1>1. PICK e : Track(t, e)
  BY DEF Control
<1>2. UNCHANGED <<backend, pending, call, server>>
  BY DEF Control
<1>3. /\ DOMAIN route' = Traces
      /\ \A u \in Traces : route'[u] \in {"none", "active", "terminal"}
      /\ \A u \in Traces : backend[u].st = "held" /\ (u = t \/ route[u] = "active")
                           => route'[u] = "active"
      /\ IsFiniteSet(Active')
  BY <1>1, TrackKeeps
<1>4. \A c \in Calls : CallInv(c)' /\ (Entered(c)' <=> Entered(c))
  BY <1>2 DEF RouterInv, CallInv, Entered
<1>5. \A u \in Traces : backend[u].st = "held" => Backed(u)'
  BY <1>2, <1>3 DEF RouterInv, Backed
<1> QED BY <1>2, <1>3, <1>4, <1>5, SameReserved DEF RouterInv

\* A call that leaves start() frees the key that is its own, and a trace it started is
\* routed by then.
LEMMA CallLeaves ==
  ASSUME RouterInv, NEW c \in Calls,
         call' = [call EXCEPT ![c] = Idle], UNCHANGED backend,
         pending' = pending \/ (Entered(c) /\ pending' = pending \ {call[c].key}),
         DOMAIN route' = Traces, IsFiniteSet(Active'),
         \A u \in Traces : route'[u] \in {"none", "active", "terminal"},
         \A u \in Traces :
           backend[u].st = "held"
             /\ (route[u] = "active" \/ (call[c].at = "backend" /\ u = call[c].trace))
           => route'[u] = "active"
  PROVE  RouterInv'
<1>1. PICK idle : idle = Idle
  OBVIOUS
<1>2. idle.at = "idle" /\ idle = [at |-> idle.at, key |-> idle.key, ask |-> idle.ask,
                                trace |-> idle.trace]
  BY <1>1 DEF Idle
<1>3. /\ DOMAIN call' = Calls /\ call'[c] = idle
      /\ \A d \in Calls : d # c => call'[d] = call[d]
  BY <1>1 DEF RouterInv
<1>4. \A d \in Calls : d # c /\ Entered(d) => call[d].key \in pending'
  <2>1. \A d \in Calls : Entered(d) => call[d].key \in pending
    BY DEF RouterInv, CallInv
  <2>2. Entered(c) => \A d \in Calls : d # c /\ Entered(d) => call[d].key # call[c].key
    BY DEF RouterInv
  <2> QED BY <2>1, <2>2
<1>5. \A d \in Calls : CallInv(d)'
  <2>1. CallInv(c)'
    BY <1>2, <1>3 DEF CallInv, Entered
  <2>2. ASSUME NEW d \in Calls, d # c PROVE CallInv(d)'
    BY <1>3, <1>4, <2>2 DEF RouterInv, CallInv, Entered
  <2> QED BY <2>1, <2>2
<1>6. ~Entered(c)' /\ \A d \in Calls : d # c => (Entered(d)' <=> Entered(d))
  BY <1>2, <1>3 DEF Entered
<1>7. ASSUME NEW u \in Traces, backend[u].st = "held" PROVE Backed(u)'
  <2>1. CASE route[u] = "active"
    BY <1>7, <2>1 DEF Backed
  <2>2. ASSUME NEW d \in Calls, call[d].at = "backend", call[d].trace = u PROVE Backed(u)'
    BY <1>3, <1>7, <2>2 DEF Backed
  <2> QED BY <1>7, <2>1, <2>2 DEF RouterInv, Backed
<1>8. IsFiniteSet(pending')
  BY FS_Subset DEF RouterInv
<1> QED BY <1>2, <1>3, <1>5, <1>6, <1>7, <1>8 DEF RouterInv

\* A start reaches the backend with a key and a trace of its own.
LEMMA CallReserves ==
  ASSUME RouterInv, NEW c \in Calls, NEW k \in Keys, NEW t \in Traces,
         call[c].at \in {"refresh", "capabilities"}, call[c].key = k,
         backend[t].st = "none",
         \A d \in Calls : d # c /\ Entered(d) => call[d].key # k,
         \A d \in Calls : d # c /\ call[d].at = "capabilities" => call[d].trace # t,
         ~BackendBusy(k), EnterBackend(c, k, t), UNCHANGED route
  PROVE  RouterInv'
<1>0. /\ backend' = [backend EXCEPT ![t] = [key |-> k, st |-> "held"]]
      /\ call' = [call EXCEPT ![c].at = "backend", ![c].trace = t]
      /\ pending' = pending \cup {k}
  BY DEF EnterBackend
<1>1. PICK n : n = [call[c] EXCEPT !.at = "backend", !.trace = t]
  OBVIOUS
<1>2. n = [at |-> "backend", key |-> k, ask |-> call[c].ask, trace |-> t]
  <2>1. PICK old : old = call[c]
    OBVIOUS
  <2>2. old = [at |-> old.at, key |-> old.key, ask |-> old.ask, trace |-> old.trace]
    BY <2>1 DEF RouterInv, CallInv
  <2>3. n = [old EXCEPT !.at = "backend", !.trace = t]
    BY <1>1, <2>1
  <2>4. n = [at |-> "backend", key |-> old.key, ask |-> old.ask, trace |-> t]
    BY <2>2, <2>3
  <2> QED BY <2>1, <2>4
<1>3. /\ DOMAIN call' = Calls /\ call'[c] = n
      /\ \A d \in Calls : d # c => call'[d] = call[d]
  BY <1>0, <1>1 DEF RouterInv
<1>4. PICK b : b = [key |-> k, st |-> "held"]
  OBVIOUS
<1>5. /\ DOMAIN backend' = Traces /\ backend'[t] = b
      /\ b.key = k /\ b.st = "held" /\ b = [key |-> b.key, st |-> b.st]
      /\ \A u \in Traces : u # t => backend'[u] = backend[u]
  BY <1>0, <1>4 DEF RouterInv
<1>6. /\ n.at = "backend" /\ n.key = k /\ n.ask = call[c].ask /\ n.trace = t
      /\ n = [at |-> n.at, key |-> n.key, ask |-> n.ask, trace |-> n.trace]
  BY <1>2
<1>7. \A d \in Calls : CallInv(d)'
  <2>1. CallInv(c)'
    <3>1. call[c].ask \in SUBSET Traces
      BY DEF RouterInv, CallInv
    <3>2. /\ call'[c] = n /\ backend'[t] = b /\ k \in pending'
          /\ n.key \in Keys /\ n.ask \in SUBSET Traces /\ n.trace \in Traces
      BY <1>0, <1>3, <1>5, <1>6, <3>1
    <3>3. backend'[call'[c].trace] = b
      BY <1>6, <3>2
    <3> QED BY <1>5, <1>6, <3>2, <3>3 DEF CallInv, Entered
  <2>2. ASSUME NEW d \in Calls, d # c PROVE CallInv(d)'
    <3>1. CallInv(d)
      BY DEF RouterInv
    <3>2. Entered(d) => call[d].trace # t
      BY <2>2, <3>1 DEF CallInv, Entered
    <3> QED BY <1>0, <1>3, <1>5, <2>2, <3>1, <3>2 DEF CallInv, Entered
  <2> QED BY <2>1, <2>2
<1>8. \A d \in Calls : d # c => (Entered(d)' <=> Entered(d))
  BY <1>3 DEF Entered
<1>9. \A a, d \in Calls : a # d /\ Entered(a)' /\ Entered(d)' => call'[a].key # call'[d].key
  BY <1>3, <1>6, <1>8 DEF RouterInv
<1>10. ASSUME NEW u \in Traces, backend'[u].st = "held" PROVE Backed(u)'
  <2>1. CASE u = t
    BY <1>3, <1>6, <2>1 DEF Backed
  <2>2. CASE u # t /\ route[u] = "active"
    BY <2>2 DEF Backed
  <2>3. ASSUME u # t, NEW d \in Calls, call[d].at = "backend", call[d].trace = u
        PROVE  Backed(u)'
    BY <1>3, <2>3 DEF Backed
  <2>4. u # t => Backed(u)
    BY <1>5, <1>10 DEF RouterInv
  <2> QED BY <2>1, <2>2, <2>3, <2>4 DEF Backed
<1>11. IsFiniteSet(pending') /\ Active' = Active
  BY <1>0, FS_AddElement DEF RouterInv, Active
<1> QED BY <1>0, <1>3, <1>5, <1>6, <1>7, <1>8, <1>9, <1>10, <1>11 DEF RouterInv

\* A start that waits for the statuses of the active routes.
LEMMA RefreshStep ==
  ASSUME RouterInv, NEW c \in Calls,
         \/ \E k \in Keys : StartRefresh(c, k)
         \/ \E t \in Traces : Refreshed(c, t)
  PROVE  RouterInv' /\ Reserves
<1>1. UNCHANGED <<backend, pending, server>> /\ call[c].at \in {"idle", "refresh"}
  BY DEF StartRefresh, Refreshed
<1>2. PICK n : /\ call' = [call EXCEPT ![c] = n]
               /\ n = [at |-> "refresh", key |-> n.key, ask |-> n.ask, trace |-> n.trace]
               /\ n.key \in Keys /\ n.ask \in SUBSET Traces
  <2>1. PICK old : old = call[c]
    OBVIOUS
  <2>2. old = [at |-> old.at, key |-> old.key, ask |-> old.ask, trace |-> old.trace]
    BY <2>1 DEF RouterInv, CallInv
  <2>3. ASSUME NEW k \in Keys, StartRefresh(c, k)
        PROVE  call' = [call EXCEPT ![c] = [at |-> "refresh", key |-> k, ask |-> Active,
                                            trace |-> old.trace]]
    <3>1. PICK m : m = [old EXCEPT !.at = "refresh", !.key = k, !.ask = Active]
      OBVIOUS
    <3>2. m = [at |-> "refresh", key |-> k, ask |-> Active, trace |-> old.trace]
      BY <2>2, <3>1
    <3>3. call' = [call EXCEPT ![c] = m]
      BY <2>1, <2>3, <3>1 DEF StartRefresh
    <3> QED BY <3>2, <3>3
  <2>4. ASSUME NEW t \in Traces, Refreshed(c, t)
        PROVE  /\ call' = [call EXCEPT ![c] = [at |-> "refresh", key |-> old.key,
                                              ask |-> old.ask \ {t},
                                              trace |-> old.trace]]
               /\ old.key \in Keys /\ old.ask \in SUBSET Traces
    <3>1. PICK m : m = [old EXCEPT !.ask = old.ask \ {t}]
      OBVIOUS
    <3>2. old.at = "refresh" /\ call' = [call EXCEPT ![c] = m]
      BY <2>1, <2>4, <3>1 DEF Refreshed, RouterInv
    <3>3. old.key \in Keys /\ old.ask \in SUBSET Traces
      BY <2>1, <3>2 DEF RouterInv, CallInv
    <3>4. m = [at |-> old.at, key |-> old.key, ask |-> old.ask \ {t}, trace |-> old.trace]
      BY <2>2, <3>1
    <3> QED BY <3>2, <3>3, <3>4
  <2>5. Active \in SUBSET Traces
    BY DEF Active
  <2>6. CASE \E k \in Keys : StartRefresh(c, k)
    <3>1. PICK k \in Keys : StartRefresh(c, k)
      BY <2>6
    <3>2. PICK m : m = [at |-> "refresh", key |-> k, ask |-> Active, trace |-> old.trace]
      OBVIOUS
    <3>3. call' = [call EXCEPT ![c] = m]
      BY <2>3, <3>1, <3>2
    <3>4. /\ m = [at |-> "refresh", key |-> m.key, ask |-> m.ask, trace |-> m.trace]
          /\ m.key \in Keys /\ m.ask \in SUBSET Traces
      BY <2>5, <3>2
    <3> QED BY <3>3, <3>4
  <2>7. CASE \E t \in Traces : Refreshed(c, t)
    <3>1. PICK t \in Traces : Refreshed(c, t)
      BY <2>7
    <3>2. PICK m : m = [at |-> "refresh", key |-> old.key, ask |-> old.ask \ {t},
                        trace |-> old.trace]
      OBVIOUS
    <3>3. /\ call' = [call EXCEPT ![c] = m]
          /\ old.key \in Keys /\ old.ask \in SUBSET Traces
      BY <2>4, <3>1, <3>2
    <3>4. /\ m = [at |-> "refresh", key |-> m.key, ask |-> m.ask, trace |-> m.trace]
          /\ m.key \in Keys /\ m.ask \in SUBSET Traces
      BY <3>2, <3>3
    <3> QED BY <3>3, <3>4
  <2> QED BY <2>6, <2>7
<1>3. /\ DOMAIN route' = Traces /\ IsFiniteSet(Active')
      /\ \A u \in Traces : route'[u] \in {"none", "active", "terminal"}
      /\ \A u \in Traces : backend[u].st = "held" /\ route[u] = "active"
                           => route'[u] = "active"
  <2>1. CASE UNCHANGED route
    BY <2>1 DEF RouterInv, Active
  <2>2. ASSUME NEW t \in Traces, NEW e, Track(t, e)
        PROVE  /\ DOMAIN route' = Traces /\ IsFiniteSet(Active')
               /\ \A u \in Traces : route'[u] \in {"none", "active", "terminal"}
               /\ \A u \in Traces : backend[u].st = "held" /\ route[u] = "active"
                                    => route'[u] = "active"
    BY <2>2, TrackKeeps
  <2> QED BY <2>1, <2>2 DEF StartRefresh, Refreshed
<1>4. /\ DOMAIN call' = Calls /\ call'[c] = n
      /\ \A d \in Calls : d # c => call'[d] = call[d]
  BY <1>2 DEF RouterInv
<1>5. n.at = "refresh"
  BY <1>2
<1>6. \A d \in Calls : CallInv(d)'
  <2>1. CallInv(c)'
    BY <1>2, <1>4, <1>5 DEF CallInv, Entered
  <2>2. ASSUME NEW d \in Calls, d # c PROVE CallInv(d)'
    BY <1>1, <1>4, <2>2 DEF RouterInv, CallInv, Entered
  <2> QED BY <2>1, <2>2
<1>7. \A d \in Calls : /\ Entered(d)' <=> Entered(d)
                       /\ call[d].at \in {"capabilities", "backend"} => call'[d] = call[d]
                       /\ call'[d].at = "capabilities" <=> call[d].at = "capabilities"
  BY <1>1, <1>4, <1>5 DEF Entered
<1>8. ASSUME NEW u \in Traces, backend[u].st = "held" PROVE Backed(u)'
  <2>1. Backed(u)
    BY <1>8 DEF RouterInv
  <2>2. CASE route[u] = "active"
    BY <1>3, <1>8, <2>2 DEF Backed
  <2>3. ASSUME NEW d \in Calls, call[d].at = "backend", call[d].trace = u PROVE Backed(u)'
    <3>1. call'[d] = call[d]
      BY <1>7, <2>3
    <3> QED BY <2>3, <3>1 DEF Backed
  <2> QED BY <2>1, <2>2, <2>3 DEF Backed
<1>9. RouterInv'
  <2>1. \A a, d \in Calls : a # d /\ Entered(a)' /\ Entered(d)'
                           => call'[a].key # call'[d].key
    BY <1>7 DEF RouterInv, Entered
  <2>2. \A a, d \in Calls :
          a # d /\ call'[a].at = "capabilities" /\ call'[d].at = "capabilities" =>
            call'[a].trace # call'[d].trace
    BY <1>7 DEF RouterInv
  <2> QED BY <1>1, <1>3, <1>4, <1>6, <1>8, <2>1, <2>2 DEF RouterInv
<1>10. \A d \in Calls : call[d].at = "capabilities" <=> call'[d].at = "capabilities"
  BY <1>7
<1>11. \A d \in Calls : call[d].at = "capabilities" => call'[d] = call[d]
  BY <1>7
<1>12. Reserves
  BY <1>1, <1>10, <1>11, SameReserved
<1> QED BY <1>9, <1>12

\* The backend's start returns.
LEMMA ReturnStep ==
  ASSUME RouterInv, NEW c \in Calls, StartReturns(c)
  PROVE  RouterInv' /\ Reserves
<1>1. /\ call[c].at = "backend" /\ UNCHANGED <<backend, server>>
      /\ call' = [call EXCEPT ![c] = Idle] /\ pending' = pending \ {call[c].key}
  BY DEF StartReturns, Refuse
<1>2. call[c].trace \in Traces
  BY <1>1 DEF RouterInv, CallInv, Entered
<1>3. PICK e : Track(call[c].trace, e)
  BY DEF StartReturns
<1>4. /\ DOMAIN route' = Traces /\ IsFiniteSet(Active')
      /\ \A u \in Traces : route'[u] \in {"none", "active", "terminal"}
      /\ \A u \in Traces :
           backend[u].st = "held" /\ (u = call[c].trace \/ route[u] = "active")
           => route'[u] = "active"
  BY <1>2, <1>3, TrackKeeps
<1>5. RouterInv'
  BY <1>1, <1>4, CallLeaves DEF Entered
<1>6. \A d \in Calls : /\ call[d].at = "capabilities" => call'[d] = call[d]
                       /\ call'[d].at = "capabilities" <=> call[d].at = "capabilities"
  <2>1. Idle.at = "idle"
    BY DEF Idle
  <2> HIDE DEF Idle
  <2> QED BY <1>1, <2>1 DEF RouterInv
<1> QED BY <1>1, <1>5, <1>6, SameReserved

LEMMA SameCardinality ==
  ASSUME NEW S
  PROVE  Promise!Cardinality(S) = Cardinality(S)
BY DEF Cardinality, Promise!Cardinality

\* A free device that starts to be reserved is a step of DeviceReservation.
LEMMA Takes ==
  ASSUME RouterInv, MaxReserved \in Nat, NEW t \in Traces, NEW k \in Keys, ~Busy(k),
         ReservedKey[t] = {}, ReservedKey' = [ReservedKey EXCEPT ![t] = {k}],
         UNCHANGED server
  PROVE  Reserves
<1>1. \A g \in Traces : k \notin ReservedKey[g]
  <2>1. k \notin pending /\ \A u \in Active : backend[u].key # k
    BY DEF Busy
  <2> QED BY <2>1, UncountedIsFree
<1>2. Cardinality(Promise!Holding) < MaxReserved
  <2>1. /\ IsFiniteSet(Promise!Holding) /\ IsFiniteSet(Active) /\ IsFiniteSet(pending)
        /\ Cardinality(Promise!Holding) <= Cardinality(Active) + Cardinality(pending)
    BY ReservedIsCounted DEF RouterInv
  <2>2. /\ Cardinality(Promise!Holding) \in Nat /\ Cardinality(Active) \in Nat
        /\ Cardinality(pending) \in Nat
    BY <2>1, FS_CardinalityType
  <2>3. ~(Cardinality(Active) + Cardinality(pending) >= MaxReserved)
    BY DEF Busy
  <2> QED BY <2>1, <2>2, <2>3
<1>3. server = "up"
  BY DEF Busy, Closing
<1>4. (server = "up") /\ UNCHANGED (server = "up")
  BY <1>3
<1>5. Promise!Take(t, k)
  BY <1>1, <1>2, <1>4, SameCardinality DEF Promise!Take
<1> QED BY <1>5 DEF Reserves, Promise!RNext

\* A start that passes the router's check, or is turned away.
LEMMA EnterStep ==
  ASSUME RouterInv, MaxReserved \in Nat, NEW c \in Calls, NEW t \in Traces, StartEnter(c, t)
  PROVE  RouterInv' /\ Reserves
<1>0. PICK k : k = call[c].key
  OBVIOUS
<1>1. /\ call[c].at = "refresh" /\ UNCHANGED <<route, server>>
      /\ backend[t].st = "none" /\ k \in Keys
      /\ \A d \in Calls : call[d].at = "capabilities" => call[d].trace # t
  BY <1>0 DEF StartEnter, Fresh, RouterInv, CallInv
<1>2. /\ Active' = Active /\ DOMAIN route = Traces /\ IsFiniteSet(Active)
      /\ \A u \in Traces : route[u] \in {"none", "active", "terminal"}
  BY <1>1 DEF Active, RouterInv
<1>3. ReservedKey[t] = {}
  BY <1>1 DEF ReservedKey
<1>4. CASE Busy(k) \/ (k \in AndroidKeys /\ BackendBusy(k))
  <2>1. call' = [call EXCEPT ![c] = Idle] /\ UNCHANGED backend
    BY <1>0, <1>4 DEF StartEnter, EnterBackend, Refuse
  <2>2. pending' = pending
    BY <1>0, <1>4 DEF StartEnter, EnterBackend, Refuse, Busy
  <2>3. Idle.at = "idle"
    BY DEF Idle
  <2>4. RouterInv'
    BY <1>1, <1>2, <2>1, <2>2, CallLeaves
  <2>5. call'[c].at = "idle" /\ \A d \in Calls : d # c => call'[d] = call[d]
    BY <2>1, <2>3 DEF RouterInv
  <2>6. \A d \in Calls : call[d].at = "capabilities" <=> call'[d].at = "capabilities"
    BY <1>1, <2>5
  <2>7. \A d \in Calls : call[d].at = "capabilities" => call'[d] = call[d]
    BY <1>1, <2>5
  <2> QED BY <1>1, <2>1, <2>4, <2>6, <2>7, SameReserved
<1>5. CASE ~Busy(k) /\ k \in AndroidKeys /\ ~BackendBusy(k)
  <2>1. /\ backend' = [backend EXCEPT ![t] = [key |-> k, st |-> "held"]]
        /\ call' = [call EXCEPT ![c].at = "backend", ![c].trace = t]
        /\ pending' = pending \cup {k}
    BY <1>0, <1>5 DEF StartEnter, EnterBackend
  <2>2. \A d \in Calls : d # c /\ Entered(d) => call[d].key # k
    BY <1>5 DEF Busy, RouterInv, CallInv
  <2>3. RouterInv'
    <3>1. \A d \in Calls : d # c /\ call[d].at = "capabilities" => call[d].trace # t
      BY <1>1
    <3>2. call[c].at \in {"refresh", "capabilities"} /\ call[c].key = k /\ UNCHANGED route
      BY <1>0, <1>1
    <3>3. backend[t].st = "none" /\ k \in Keys
      BY <1>1
    <3>4. EnterBackend(c, k, t) /\ ~BackendBusy(k)
      BY <1>0, <1>5 DEF StartEnter
    <3> QED BY <2>2, <3>1, <3>2, <3>3, <3>4, CallReserves
  <2>4. /\ backend'[t].st = "held" /\ backend'[t].key = k
        /\ \A u \in Traces : u # t => backend'[u] = backend[u]
        /\ call'[c].at = "backend" /\ \A d \in Calls : d # c => call'[d] = call[d]
    <3>1. PICK b : b = [key |-> k, st |-> "held"]
      OBVIOUS
    <3>2. backend'[t] = b /\ b.key = k /\ b.st = "held"
      BY <2>1, <3>1 DEF RouterInv
    <3>3. call'[c].at = "backend"
      BY <2>1 DEF RouterInv, CallInv
    <3> QED BY <2>1, <3>2, <3>3 DEF RouterInv
  <2>5. ReservedKey'[t] = {k}
    BY <2>4 DEF ReservedKey
  <2>6. ASSUME NEW u \in Traces, u # t PROVE ReservedKey'[u] = ReservedKey[u]
    <3>1. {call'[d].key : d \in {e \in Calls : call'[e].at = "capabilities"
                                              /\ call'[e].trace = u}}
          = {call[d].key : d \in {e \in Calls : call[e].at = "capabilities"
                                               /\ call[e].trace = u}}
      BY <1>1, <2>4
    <3> QED BY <2>4, <2>6, <3>1 DEF ReservedKey
  <2>7. ReservedKey' = [ReservedKey EXCEPT ![t] = {k}]
    BY <2>5, <2>6, ReservedBecomes
  <2> QED BY <1>1, <1>3, <1>5, <2>3, <2>7, Takes
<1>6. CASE ~Busy(k) /\ k \notin AndroidKeys
  <2>1. /\ pending' = pending \cup {k} /\ UNCHANGED backend
        /\ call' = [call EXCEPT ![c].at = "capabilities", ![c].trace = t]
    BY <1>0, <1>6 DEF StartEnter
  <2>2. PICK n : n = [call[c] EXCEPT !.at = "capabilities", !.trace = t]
    OBVIOUS
  <2>3. n = [at |-> "capabilities", key |-> k, ask |-> call[c].ask, trace |-> t]
    <3>1. PICK old : old = call[c]
      OBVIOUS
    <3>2. old = [at |-> old.at, key |-> old.key, ask |-> old.ask, trace |-> old.trace]
      BY <3>1 DEF RouterInv, CallInv
    <3>3. n = [old EXCEPT !.at = "capabilities", !.trace = t]
      BY <2>2, <3>1
    <3>4. n = [at |-> "capabilities", key |-> old.key, ask |-> old.ask, trace |-> t]
      BY <3>2, <3>3
    <3> QED BY <1>0, <3>1, <3>4
  <2>4. /\ n.at = "capabilities" /\ n.key = k /\ n.ask \in SUBSET Traces /\ n.trace = t
        /\ n = [at |-> n.at, key |-> n.key, ask |-> n.ask, trace |-> n.trace]
    BY <1>1, <2>3 DEF RouterInv, CallInv
  <2>5. /\ DOMAIN call' = Calls /\ call'[c] = n
        /\ \A d \in Calls : d # c => call'[d] = call[d]
    BY <2>1, <2>2 DEF RouterInv
  <2>6. \A d \in Calls : CallInv(d)'
    <3>1. CallInv(c)'
      BY <1>1, <2>1, <2>4, <2>5 DEF CallInv, Entered
    <3>2. ASSUME NEW d \in Calls, d # c PROVE CallInv(d)'
      BY <2>1, <2>5, <3>2 DEF RouterInv, CallInv, Entered
    <3> QED BY <3>1, <3>2
  <2>7. \A a, d \in Calls : a # d /\ Entered(a)' /\ Entered(d)'
                           => call'[a].key # call'[d].key
    <3>1. \A d \in Calls : Entered(d) => call[d].key \in pending /\ call[d].key # k
      BY <1>6 DEF RouterInv, CallInv, Busy
    <3> QED BY <2>4, <2>5, <3>1 DEF RouterInv, Entered
  <2>8. \A a, d \in Calls :
          a # d /\ call'[a].at = "capabilities" /\ call'[d].at = "capabilities" =>
            call'[a].trace # call'[d].trace
    BY <1>1, <2>4, <2>5 DEF RouterInv
  <2>9. \A u \in Traces : backend[u].st = "held" => Backed(u)'
    BY <1>1, <2>5 DEF RouterInv, Backed
  <2>10. IsFiniteSet(pending')
    BY <2>1, FS_AddElement DEF RouterInv
  <2>11. RouterInv'
    BY <1>1, <1>2, <2>1, <2>5, <2>6, <2>7, <2>8, <2>9, <2>10 DEF RouterInv
  <2>12. ReservedKey'[t] = {k}
    <3>1. {d \in Calls : call'[d].at = "capabilities" /\ call'[d].trace = t} = {c}
      BY <1>1, <2>4, <2>5
    <3>2. {call'[d].key : d \in {e \in Calls : call'[e].at = "capabilities"
                                              /\ call'[e].trace = t}} = {k}
      BY <2>4, <2>5, <3>1
    <3>3. backend'[t].st # "held"
      BY <1>1, <2>1
    <3> QED BY <3>2, <3>3 DEF ReservedKey
  <2>13. ASSUME NEW u \in Traces, u # t PROVE ReservedKey'[u] = ReservedKey[u]
    <3>1. {call'[d].key : d \in {e \in Calls : call'[e].at = "capabilities"
                                              /\ call'[e].trace = u}}
          = {call[d].key : d \in {e \in Calls : call[e].at = "capabilities"
                                               /\ call[e].trace = u}}
      BY <1>1, <2>4, <2>5, <2>13
    <3> QED BY <2>1, <3>1 DEF ReservedKey
  <2>14. ReservedKey' = [ReservedKey EXCEPT ![t] = {k}]
    BY <2>12, <2>13, ReservedBecomes
  <2> QED BY <1>1, <1>3, <1>6, <2>11, <2>14, Takes
<1> QED BY <1>4, <1>5, <1>6

\* The capabilities are in: the trace drawn is started, or its key is given back.
LEMMA CapabilitiesStep ==
  ASSUME RouterInv, NEW c \in Calls, NEW supported \in BOOLEAN,
         CapabilitiesEnd(c, supported)
  PROVE  RouterInv' /\ Reserves
<1>0. PICK k, t : k = call[c].key /\ t = call[c].trace
  OBVIOUS
<1>1. /\ call[c].at = "capabilities" /\ UNCHANGED <<route, server>>
      /\ backend[t].st = "none" /\ k \in Keys /\ t \in Traces /\ Entered(c)
      /\ \A d \in Calls : d # c /\ call[d].at = "capabilities" => call[d].trace # t
  BY <1>0 DEF CapabilitiesEnd, RouterInv, CallInv, Entered
<1>2. /\ Active' = Active /\ DOMAIN route = Traces /\ IsFiniteSet(Active)
      /\ \A u \in Traces : route[u] \in {"none", "active", "terminal"}
  BY <1>1 DEF Active, RouterInv
<1>3. ReservedKey[t] = {k}
  <2>1. {d \in Calls : call[d].at = "capabilities" /\ call[d].trace = t} = {c}
    BY <1>0, <1>1
  <2>2. {call[d].key : d \in {e \in Calls : call[e].at = "capabilities"
                                           /\ call[e].trace = t}} = {k}
    BY <1>0, <2>1
  <2> QED BY <1>1, <2>2 DEF ReservedKey
<1>4. CASE EnterBackend(c, k, t) /\ ~BackendBusy(k)
  <2>1. /\ backend' = [backend EXCEPT ![t] = [key |-> k, st |-> "held"]]
        /\ call' = [call EXCEPT ![c].at = "backend", ![c].trace = t]
    BY <1>4 DEF EnterBackend
  <2>2. \A d \in Calls : d # c /\ Entered(d) => call[d].key # k
    BY <1>0, <1>1 DEF RouterInv
  <2>3. RouterInv'
    <3>1. call[c].at \in {"refresh", "capabilities"} /\ call[c].key = k /\ UNCHANGED route
      BY <1>0, <1>1
    <3>2. backend[t].st = "none" /\ k \in Keys /\ t \in Traces
      BY <1>1
    <3> QED BY <1>1, <1>4, <2>2, <3>1, <3>2, CallReserves
  <2>4. /\ backend'[t].st = "held" /\ backend'[t].key = k
        /\ \A u \in Traces : u # t => backend'[u] = backend[u]
        /\ call'[c].at = "backend" /\ \A d \in Calls : d # c => call'[d] = call[d]
    <3>1. PICK b : b = [key |-> k, st |-> "held"]
      OBVIOUS
    <3>2. backend'[t] = b /\ b.key = k /\ b.st = "held"
      BY <1>1, <2>1, <3>1 DEF RouterInv
    <3>3. call'[c].at = "backend"
      BY <2>1 DEF RouterInv, CallInv
    <3> QED BY <2>1, <3>2, <3>3 DEF RouterInv
  <2>5. \A u \in Traces : ReservedKey'[u] = ReservedKey[u]
    <3> SUFFICES ASSUME NEW u \in Traces PROVE ReservedKey'[u] = ReservedKey[u]
      OBVIOUS
    <3>1. CASE u = t
      BY <1>3, <2>4, <3>1 DEF ReservedKey
    <3>2. CASE u # t
      <4>1. {call'[d].key : d \in {e \in Calls : call'[e].at = "capabilities"
                                                /\ call'[e].trace = u}}
            = {call[d].key : d \in {e \in Calls : call[e].at = "capabilities"
                                                 /\ call[e].trace = u}}
        BY <1>0, <2>4, <3>2
      <4> QED BY <2>4, <3>2, <4>1 DEF ReservedKey
    <3> QED BY <3>1, <3>2
  <2>6. ReservedKey' = ReservedKey
    <3>1. /\ ReservedKey = [u \in Traces |-> ReservedKey[u]]
          /\ ReservedKey' = [u \in Traces |-> ReservedKey'[u]]
      BY DEF ReservedKey
    <3> QED BY <2>5, <3>1
  <2> QED BY <1>1, <2>3, <2>6 DEF Reserves, Promise!rvars
<1>5. CASE Refuse(c, k)
  <2>1. /\ call' = [call EXCEPT ![c] = Idle] /\ UNCHANGED backend
        /\ pending' = pending \ {k}
    BY <1>5 DEF Refuse
  <2>2. RouterInv'
    <3>1. call[c].at # "idle" /\ call[c].at # "backend" /\ UNCHANGED <<backend, route>>
      BY <1>1, <2>1
    <3>2. pending' = pending \ {call[c].key}
      BY <1>0, <2>1
    <3>3. \A u \in Traces :
            backend[u].st = "held"
              /\ (route[u] = "active" \/ (call[c].at = "backend" /\ u = call[c].trace))
            => route'[u] = "active"
      BY <3>1
    <3> QED BY <1>1, <1>2, <2>1, <3>1, <3>2, <3>3, CallLeaves
  <2>3. call'[c].at = "idle" /\ \A d \in Calls : d # c => call'[d] = call[d]
    <3>1. PICK idle : idle = Idle
      OBVIOUS
    <3>2. idle.at = "idle"
      BY <3>1 DEF Idle
    <3> QED BY <2>1, <3>1, <3>2 DEF RouterInv
  <2>4. ReservedKey'[t] = {}
    BY <1>0, <1>1, <2>1, <2>3 DEF ReservedKey
  <2>5. ASSUME NEW u \in Traces, u # t PROVE ReservedKey'[u] = ReservedKey[u]
    <3>1. {call'[d].key : d \in {e \in Calls : call'[e].at = "capabilities"
                                              /\ call'[e].trace = u}}
          = {call[d].key : d \in {e \in Calls : call[e].at = "capabilities"
                                               /\ call[e].trace = u}}
      BY <1>0, <2>3, <2>5
    <3> QED BY <2>1, <3>1 DEF ReservedKey
  <2>6. ReservedKey' = [ReservedKey EXCEPT ![t] = {}]
    BY <1>1, <2>4, <2>5, ReservedBecomes
  <2>7. Promise!Give(t)
    BY <1>1, <1>3, <2>6 DEF Promise!Give
  <2> QED BY <1>1, <2>2, <2>7 DEF Reserves, Promise!RNext
<1> QED BY <1>0, <1>4, <1>5 DEF CapabilitiesEnd, EnterBackend

\* The steps of the server and of the debugger registries leave the router alone; the
\* shutdown closes it.
LEMMA ServerStep ==
  ASSUME RouterInv, UNCHANGED <<backend, route, pending, call>>,
         \/ UNCHANGED server
         \/ server # "up" /\ server' # "up"
         \/ Shutdown
  PROVE  RouterInv' /\ Reserves
<1>1. RouterInv'
  <2>1. /\ \A c \in Calls : CallInv(c)' /\ (Entered(c)' <=> Entered(c))
        /\ \A t \in Traces : Backed(t)' <=> Backed(t)
        /\ Active' = Active
    BY DEF RouterInv, CallInv, Entered, Backed, Active
  <2> QED BY <2>1 DEF RouterInv
<1>2. ReservedKey' = ReservedKey
  BY DEF ReservedKey
<1>3. CASE UNCHANGED server
  BY <1>1, <1>2, <1>3 DEF Reserves, Promise!rvars
<1>4. CASE server # "up" /\ server' # "up"
  <2>1. UNCHANGED (server = "up")
    BY <1>4
  <2> QED BY <1>1, <1>2, <2>1 DEF Reserves, Promise!rvars
<1>5. CASE Shutdown
  <2>1. (server = "up") /\ (server = "up")' = FALSE
    BY <1>5 DEF Shutdown
  <2>2. Promise!Close
    BY <1>2, <2>1 DEF Promise!Close
  <2> QED BY <1>1, <2>2 DEF Reserves, Promise!RNext
<1> QED BY <1>3, <1>4, <1>5

\* The invariant is inductive, and every step is one of DeviceReservation or none.
LEMMA RouterStep ==
  ASSUME RouterInv, MaxReserved \in Nat, [Next]_vars
  PROVE  RouterInv' /\ Reserves
<1>1. ASSUME NEW c \in Calls, \E k \in Keys : StartRefresh(c, k)
      PROVE  RouterInv' /\ Reserves
  BY <1>1, RefreshStep
<1>2. ASSUME NEW c \in Calls, NEW t \in Traces, Refreshed(c, t)
      PROVE  RouterInv' /\ Reserves
  BY <1>2, RefreshStep
<1>3. ASSUME NEW c \in Calls, NEW t \in Traces, StartEnter(c, t)
      PROVE  RouterInv' /\ Reserves
  BY <1>3, EnterStep
<1>4. ASSUME NEW c \in Calls, NEW b \in BOOLEAN, CapabilitiesEnd(c, b)
      PROVE  RouterInv' /\ Reserves
  BY <1>4, CapabilitiesStep
<1>5. ASSUME NEW c \in Calls, StartReturns(c)
      PROVE  RouterInv' /\ Reserves
  BY <1>5, ReturnStep
<1>6. ASSUME NEW t \in Traces, CleanupCompletes(t) \/ Expires(t) \/ Control(t)
      PROVE  RouterInv' /\ Reserves
  BY <1>6, BackendEnds, ControlStep
<1>7. ASSUME NEW r, AttachDebugger(r) \/ Detach(r) \/ ShutdownAnswers(r)
      PROVE  RouterInv' /\ Reserves
  BY <1>7, ServerStep DEF AttachDebugger, Detach, ShutdownAnswers
<1>8. ASSUME NEW b \in BOOLEAN, ShutdownGathers(b) \/ Exits(b) \/ Deadline
      PROVE  RouterInv' /\ Reserves
  <2>1. UNCHANGED <<backend, route, pending, call>>
    BY <1>8 DEF ShutdownGathers, Exits, Deadline
  <2>2. server # "up" /\ server' # "up"
    BY <1>8 DEF ShutdownGathers, Exits, Deadline
  <2> QED BY <2>1, <2>2, ServerStep
<1>9. CASE Shutdown \/ UNCHANGED vars
  BY <1>9, ServerStep DEF Shutdown, vars
<1> QED BY <1>1, <1>2, <1>3, <1>4, <1>5, <1>6, <1>7, <1>8, <1>9 DEF Next

\* Nothing is named before the first call.
LEMMA RouterStarts == Init => RouterInv
<1> SUFFICES ASSUME Init PROVE RouterInv
  OBVIOUS
<1>1. PICK idle : idle = Idle
  OBVIOUS
<1>2. idle.at = "idle" /\ idle = [at |-> idle.at, key |-> idle.key, ask |-> idle.ask,
                                  trace |-> idle.trace]
  BY <1>1 DEF Idle
<1>3. PICK b : b = [key |-> AnyKey, st |-> "none"]
  OBVIOUS
<1>4. b.st = "none" /\ b = [key |-> b.key, st |-> b.st]
  BY <1>3
<1>5. /\ DOMAIN call = Calls /\ \A c \in Calls : call[c] = idle
      /\ DOMAIN backend = Traces /\ \A t \in Traces : backend[t] = b
      /\ DOMAIN route = Traces /\ \A t \in Traces : route[t] = "none"
      /\ pending = {}
  BY <1>1, <1>3 DEF Init
<1>6. Active = {}
  BY <1>5 DEF Active
<1> QED BY <1>2, <1>4, <1>5, <1>6, FS_EmptySet DEF RouterInv, CallInv, Entered

\* RouterInv is an inductive invariant of the router, for any devices and limits.
THEOREM Inductive == Spec => []RouterInv
<1> USE LimitsAssumption
<1>1. RouterInv /\ [Next]_vars => RouterInv'
  BY RouterStep
<1> QED BY <1>1, RouterStarts, PTL DEF Spec

\* Over both platforms a device is reserved for one trace, MaxReserved traces hold a
\* device at once and none takes one after the shutdown began: every behaviour of the
\* router is a behaviour of DeviceReservation.  (system-trace-router.ts, start)
THEOREM Implements == Spec => RouterReserves
<1>1. Init => Promise!RInit
  <2> SUFFICES ASSUME Init PROVE Promise!RInit
    OBVIOUS
  <2>1. /\ \A t \in Traces : backend[t].st = "none"
        /\ \A c \in Calls : call[c].at = "idle"
        /\ (server = "up") = TRUE
    BY DEF Init, Idle
  <2>2. ReservedKey = [t \in Traces |-> {}]
    BY <2>1 DEF ReservedKey
  <2> QED BY <2>1, <2>2 DEF Promise!RInit
<1>2. RouterInv /\ [Next]_vars => [Promise!RNext]_(Promise!rvars)
  BY RouterStep, LimitsAssumption DEF Reserves
<1> QED BY <1>1, <1>2, Inductive, PTL DEF Spec, RouterReserves

----------------------------------------------------------------------------
(* The exit code *)

\* A registry that answered "clean" did so during the shutdown and holds nothing since.
ExitInv ==
  /\ attached \in SUBSET Debuggers /\ DOMAIN answer = Registries
  /\ \A r \in Registries : answer[r] = "clean" => Closing /\ ~Remains(r)
  /\ server = "exit0" => \A r \in Registries : answer[r] = "clean"

\* No backend takes a trace once the shutdown began.
LEMMA NothingNew ==
  ASSUME RouterInv, Closing, [Next]_vars, NEW keys
  PROVE  Held(keys)' \subseteq Held(keys)
<1>1. ASSUME NEW c \in Calls, NEW t \in Traces, StartEnter(c, t)
      PROVE  UNCHANGED backend
  BY <1>1 DEF StartEnter, Busy
<1>2. ASSUME NEW c \in Calls, NEW b \in BOOLEAN, CapabilitiesEnd(c, b)
      PROVE  UNCHANGED backend
  BY <1>2 DEF CapabilitiesEnd, Refuse
<1>3. ASSUME NEW t \in Traces, CleanupCompletes(t) \/ Expires(t)
      PROVE  Held(keys)' \subseteq Held(keys)
  <2>1. PICK n : /\ backend' = [backend EXCEPT ![t] = n] /\ n.st # "held"
    <3>1. PICK b : b = backend[t]
      OBVIOUS
    <3>2. b = [key |-> b.key, st |-> b.st]
      BY <3>1 DEF RouterInv
    <3>3. PICK s : s # "held" /\ backend' = [backend EXCEPT ![t] = [b EXCEPT !.st = s]]
      BY <1>3, <3>1 DEF CleanupCompletes, Expires
    <3>4. PICK n : n = [b EXCEPT !.st = s]
      OBVIOUS
    <3>5. n.st = s
      BY <3>2, <3>4
    <3> QED BY <3>3, <3>4, <3>5
  <2>2. backend'[t].st # "held" /\ \A u \in Traces : u # t => backend'[u] = backend[u]
    BY <2>1 DEF RouterInv
  <2> QED BY <2>2 DEF Held
<1>4. CASE UNCHANGED backend
  BY <1>4 DEF Held
<1> QED BY <1>1, <1>2, <1>3, <1>4
        DEF Next, StartRefresh, Refreshed, StartReturns, Refuse, Control, AttachDebugger,
            Detach, ShutdownAnswers, ShutdownGathers, Exits, Shutdown, Deadline, vars

LEMMA ExitStep ==
  ASSUME RouterInv, ExitInv, [Next]_vars
  PROVE  ExitInv'
<1>1. Closing => Closing'
  BY DEF Closing, Next, StartRefresh, Refreshed, StartEnter, CapabilitiesEnd, StartReturns,
         CleanupCompletes, Expires, Control, AttachDebugger, Detach, ShutdownAnswers,
         ShutdownGathers, Exits, Shutdown, Deadline, vars
<1>2. attached' \in SUBSET Debuggers /\ (Closing => attached' \subseteq attached)
  BY DEF ExitInv, Closing, Next, StartRefresh, Refreshed, StartEnter, CapabilitiesEnd,
         StartReturns, CleanupCompletes, Expires, Control, AttachDebugger, Detach,
         ShutdownAnswers, ShutdownGathers, Exits, Shutdown, Deadline, vars
<1>3. ASSUME NEW r \in Registries, Closing, ~Remains(r) PROVE ~Remains(r)'
  <2>1. Held(AndroidKeys)' \subseteq Held(AndroidKeys) /\ Held(IosKeys)' \subseteq Held(IosKeys)
    BY <1>3, NothingNew
  <2> QED BY <1>2, <1>3, <2>1 DEF Remains
<1>4. ASSUME NEW q \in Registries, ShutdownAnswers(q) PROVE ExitInv'
  <2>1. /\ server = "closing" /\ UNCHANGED <<backend, attached, server>>
        /\ answer' = [answer EXCEPT ![q] = IF Remains(q) THEN "remaining" ELSE "clean"]
    BY <1>4 DEF ShutdownAnswers
  <2>2. /\ DOMAIN answer' = Registries
        /\ \A r \in Registries : r # q => answer'[r] = answer[r]
        /\ answer'[q] = "clean" => ~Remains(q)
    BY <2>1 DEF ExitInv
  <2> QED BY <1>1, <1>2, <1>3, <2>1, <2>2 DEF ExitInv, Closing
<1>5. CASE UNCHANGED <<answer, server>>
  BY <1>1, <1>2, <1>3, <1>5 DEF ExitInv
<1>6. CASE Shutdown \/ Deadline \/ \E b \in BOOLEAN : ShutdownGathers(b) \/ Exits(b)
  <2>1. answer' = answer /\ (server' = "exit0" => \A r \in Registries : answer[r] = "clean")
    BY <1>6 DEF Shutdown, Deadline, ShutdownGathers, Exits
  <2> QED BY <1>1, <1>2, <1>3, <2>1 DEF ExitInv
<1> QED BY <1>4, <1>5, <1>6
        DEF Next, StartRefresh, Refreshed, StartEnter, CapabilitiesEnd, StartReturns,
            CleanupCompletes, Expires, Control, AttachDebugger, Detach, vars

\* The exit code 0 says that none of the registries left a trace or a debugger session
\* behind.  (server.ts, shutdown)
THEOREM ExitsHonestly == Spec => []ExitIsHonest
<1>1. Init => ExitInv
  BY DEF Init, ExitInv
<1>2. RouterInv /\ ExitInv /\ [Next]_vars => ExitInv'
  BY ExitStep
<1>3. ExitInv => ExitIsHonest
  <2> SUFFICES ASSUME ExitInv, server = "exit0" PROVE Held(Keys) = {} /\ attached = {}
    BY DEF ExitIsHonest
  <2>1. \A r \in Registries : ~Remains(r)
    BY DEF ExitInv
  <2>2. Held(AndroidKeys) = {} /\ Held(IosKeys) = {}
    BY <2>1 DEF Remains, Registries
  <2>3. \A r \in Debuggers : r \notin attached
    BY <2>1, RegistriesAssumption DEF Remains, Registries
  <2> QED BY <2>2, <2>3 DEF ExitInv, Held, Keys
<1> QED BY <1>1, <1>2, <1>3, Inductive, PTL DEF Spec
=============================================================================
