-------------------------- MODULE JdiWorker_proofs --------------------------
(***************************************************************************)
(* Safety of the JDI worker for every set of breakpoints and types and     *)
(* every bound: no suspension is lost, none outlives the worker, no type   *)
(* escapes a breakpoint, and the lines it prints are those of WorkerLines. *)
(***************************************************************************)
EXTENDS JdiWorker, TLAPS

\* What conn, closed and the event thread say of each other, and that every stop id
\* made was printed, until a failure of the event thread.
Phases ==
  /\ closed => conn # "live" /\ held = 0 /\ stopId = 0
  /\ conn \in {"disposed", "stuck"} => closed
  /\ conn # "live" => susp = 0 \/ conn = "stuck"
  /\ conn = "none" => /\ queue = <<>> /\ got = NoSet /\ stopId = 0
                      /\ loop = "off" \/ closed
                      /\ \A b \in Breaks : status[b] = "unset"
  /\ loop = "done" => closed
  /\ stopId \in {0, ids} /\ printed <= ids
  /\ loop \in {"off", "on"} => printed = ids

IInv ==
  /\ TypeOK /\ NoLostSuspension /\ EndReleases /\ StepIsOneShot
  /\ NoTypeMissed /\ StatusIsHonest /\ Phases

\* Binding keeps the types of the two maps and the honesty of the statuses, loses no
\* type, and leaves other breakpoints alone.  (bind 37-48)
LEMMA BindKeeps ==
  ASSUME TypeOK, StatusIsHonest, NEW some \in SUBSET Breaks, NEW T \in SUBSET Types,
         Bind(some, T)
  PROVE  /\ status' \in [Breaks -> {"unset", "pending", "verified", "rejected", "removed"}]
         /\ bound' \in [Breaks -> SUBSET HasLine]
         /\ StatusIsHonest'
         /\ \A b \in Breaks : Active(b)' <=> Active(b)
         /\ \A b \in Breaks : bound[b] \subseteq bound'[b]
         /\ \A b \in some : Active(b) => T \cap HasLine \subseteq bound'[b]
<1>1. bound' \in [Breaks -> SUBSET HasLine]
  BY DEF Bind, TypeOK
<1>2. status' = [b \in Breaks |-> IF b \in some /\ Active(b) /\ T # {}
                                  THEN Verdict(bound'[b]) ELSE status[b]]
  BY DEF Bind
<1>3. status' \in [Breaks -> {"unset", "pending", "verified", "rejected", "removed"}]
  BY <1>2 DEF TypeOK, Verdict
<1>4. \A b \in Breaks : bound'[b] = IF b \in some /\ Active(b)
                                    THEN bound[b] \cup (T \cap HasLine) ELSE bound[b]
  BY DEF Bind
<1>5. ASSUME NEW b \in Breaks
      PROVE  /\ status'[b] = "verified" <=> bound'[b] # {}
             /\ Active(b)' <=> Active(b)
  <2>1. status[b] = "verified" <=> bound[b] # {}
    BY DEF StatusIsHonest
  <2>2. CASE ~(b \in some /\ Active(b) /\ T # {})
    <3>1. status'[b] = status[b] /\ bound'[b] = bound[b]
      BY <1>2, <1>4, <2>2
    <3> QED BY <2>1, <3>1 DEF Active
  <2>3. CASE b \in some /\ Active(b) /\ T # {}
    BY <1>2, <2>3 DEF Active, Verdict
  <2> QED BY <2>2, <2>3
<1> QED BY <1>1, <1>3, <1>4, <1>5 DEF StatusIsHonest

\* The invariant holds initially.
LEMMA InitInv == Init => IInv
<1> SUFFICES ASSUME Init PROVE IInv
  OBVIOUS
<1>1. \A b \in Breaks : status[b] = "unset" /\ bound[b] = {}
  BY DEF Init
<1>2. TypeOK
  <2>1. queue \in Seq(EventSet)
    BY DEF Init
  <2>2. /\ status \in [Breaks -> {"unset", "pending", "verified", "rejected", "removed"}]
        /\ bound \in [Breaks -> SUBSET HasLine]
    BY DEF Init
  <2> QED BY <2>1, <2>2 DEF Init, TypeOK, NoSet
<1>3. NoLostSuspension /\ EndReleases /\ StepIsOneShot
  BY DEF Init, NoLostSuspension, EndReleases, StepIsOneShot, NoSet
<1>4. NoTypeMissed /\ StatusIsHonest
  BY <1>1 DEF Init, NoTypeMissed, StatusIsHonest, Active
<1>5. Phases
  BY DEF Init, Phases, NoSet
<1> QED BY <1>2, <1>3, <1>4, <1>5 DEF IInv

\* Appending a set to the queue keeps what is in it.
LEMMA Appended ==
  ASSUME NEW q \in Seq(EventSet), NEW e \in EventSet
  PROVE  /\ Append(q, e) \in Seq(EventSet)
         /\ Len(Append(q, e)) = Len(q) + 1
         /\ \A t : (\E k \in DOMAIN q : q[k] = t)
                     => \E k \in DOMAIN Append(q, e) : Append(q, e)[k] = t
         /\ \E k \in DOMAIN Append(q, e) : Append(q, e)[k] = e
<1>1. /\ Append(q, e) \in Seq(EventSet) /\ Len(Append(q, e)) = Len(q) + 1
      /\ DOMAIN Append(q, e) = 1..(Len(q) + 1) /\ DOMAIN q = 1..Len(q)
      /\ Append(q, e)[Len(q) + 1] = e
      /\ \A k \in 1..Len(q) : Append(q, e)[k] = q[k]
      /\ Len(q) \in Nat
  OBVIOUS
<1>2. ASSUME NEW t, NEW k \in DOMAIN q, q[k] = t
      PROVE  \E j \in DOMAIN Append(q, e) : Append(q, e)[j] = t
  <2>1. k \in DOMAIN Append(q, e) /\ Append(q, e)[k] = t
    BY <1>1, <1>2
  <2> QED BY <2>1
<1>3. Len(q) + 1 \in DOMAIN Append(q, e)
  BY <1>1
<1> QED BY <1>1, <1>2, <1>3

\* Removing the first set of the queue loses no other.
LEMMA Removed ==
  ASSUME NEW q \in Seq(EventSet), q # <<>>
  PROVE  /\ Tail(q) \in Seq(EventSet) /\ Head(q) \in EventSet
         /\ Len(Tail(q)) = Len(q) - 1 /\ Len(q) \in Nat \ {0}
         /\ \A t : (\E k \in DOMAIN q : q[k] = t)
                     => Head(q) = t \/ \E k \in DOMAIN Tail(q) : Tail(q)[k] = t
<1>1. /\ Tail(q) \in Seq(EventSet) /\ Head(q) \in EventSet /\ Head(q) = q[1]
      /\ Len(Tail(q)) = Len(q) - 1 /\ Len(q) \in Nat \ {0}
      /\ DOMAIN q = 1..Len(q) /\ DOMAIN Tail(q) = 1..(Len(q) - 1)
      /\ \A k \in 1..(Len(q) - 1) : Tail(q)[k] = q[k + 1]
  OBVIOUS
<1>2. ASSUME NEW t, NEW k \in DOMAIN q, q[k] = t, Head(q) # t
      PROVE  \E j \in DOMAIN Tail(q) : Tail(q)[j] = t
  <2>1. k - 1 \in DOMAIN Tail(q) /\ Tail(q)[k - 1] = q[k]
    BY <1>1, <1>2
  <2> QED BY <2>1, <1>2
<1> QED BY <1>1, <1>2

----------------------------------------------------------------------------
(* The steps of the VM *)

\* A reported set is in the queue and counted.
LEMMA Reported ==
  ASSUME IInv, NEW e \in EventSet, Report(e), MayReport, conn' = conn,
         UNCHANGED <<stops, thread>>
  PROVE  /\ queue' \in Seq(EventSet) /\ susp' \in Nat /\ burst' \in BOOLEAN
         /\ NoLostSuspension'
         /\ \A t : (\E k \in DOMAIN queue : queue[k] = t)
                     => \E k \in DOMAIN queue' : queue'[k] = t
         /\ \E k \in DOMAIN queue' : queue'[k] = e
         /\ conn = "live"
<1>1. queue \in Seq(EventSet) /\ susp \in Nat /\ held \in Nat
  BY DEF IInv, TypeOK
<1>2. queue' = Append(queue, e) /\ susp' = susp + 1 /\ burst' = TRUE /\ conn = "live"
  BY DEF Report, MayReport
<1>3. NoLostSuspension'
  BY <1>1, <1>2, Appended DEF IInv, NoLostSuspension, stops, thread
<1> QED BY <1>1, <1>2, <1>3, Appended

\* A type is loaded, reported if a breakpoint asks for it.
LEMMA LoadStep ==
  ASSUME IInv, NEW t \in Types, Load(t)
  PROVE  IInv'
<1>1. /\ UNCHANGED <<conn, breaks, stops, thread, closed>>
      /\ loaded' = loaded \cup {t} /\ MayReport /\ t \in EventSet
  BY DEF Load, EventSet
<1>2. CASE \E b \in Breaks : Active(b)
  <2>1. Report(t)
    BY <1>2 DEF Load
  <2>2. /\ queue' \in Seq(EventSet) /\ susp' \in Nat /\ burst' \in BOOLEAN
        /\ NoLostSuspension'
        /\ \A u : (\E k \in DOMAIN queue : queue[k] = u)
                    => \E k \in DOMAIN queue' : queue'[k] = u
        /\ \E k \in DOMAIN queue' : queue'[k] = t
        /\ conn = "live"
    BY <1>1, <2>1, Reported
  <2>3. TypeOK'
    BY <1>1, <2>2 DEF IInv, TypeOK, breaks, stops, thread
  <2>4. NoTypeMissed'
    BY <1>1, <2>2 DEF IInv, NoTypeMissed, Active, breaks, thread
  <2>5. EndReleases' /\ StepIsOneShot' /\ StatusIsHonest' /\ Phases'
    BY <1>1, <2>2 DEF IInv, EndReleases, StepIsOneShot, StatusIsHonest, Phases, breaks,
       stops, thread
  <2> QED BY <2>2, <2>3, <2>4, <2>5 DEF IInv
<1>3. CASE ~\E b \in Breaks : Active(b)
  <2>1. UNCHANGED <<susp, queue, burst>>
    BY <1>3 DEF Load
  <2>2. TypeOK' /\ NoLostSuspension'
    BY <1>1, <2>1 DEF IInv, TypeOK, NoLostSuspension, breaks, stops, thread
  <2>3. NoTypeMissed'
    BY <1>1, <1>3 DEF NoTypeMissed, Active, breaks
  <2>4. EndReleases' /\ StepIsOneShot' /\ StatusIsHonest' /\ Phases'
    BY <1>1, <2>1 DEF IInv, EndReleases, StepIsOneShot, StatusIsHonest, Phases, breaks,
       stops, thread
  <2> QED BY <2>2, <2>3, <2>4 DEF IInv
<1> QED BY <1>2, <1>3

\* A thread of the app hits a request.
LEMMA HitStep ==
  ASSUME IInv, Hit
  PROVE  IInv'
<1>1. /\ UNCHANGED <<conn, loaded, breaks, stops, thread, closed>>
      /\ Report("stop") /\ MayReport /\ "stop" \in EventSet
  BY DEF Hit, EventSet
<1>2. /\ queue' \in Seq(EventSet) /\ susp' \in Nat /\ burst' \in BOOLEAN
      /\ NoLostSuspension'
      /\ \A u : (\E k \in DOMAIN queue : queue[k] = u)
                  => \E k \in DOMAIN queue' : queue'[k] = u
      /\ conn = "live"
  BY <1>1, Reported
<1>3. TypeOK'
  BY <1>1, <1>2 DEF IInv, TypeOK, breaks, stops, thread
<1>4. NoTypeMissed'
  BY <1>1, <1>2 DEF IInv, NoTypeMissed, Active, breaks, thread
<1>5. EndReleases' /\ StepIsOneShot' /\ StatusIsHonest' /\ Phases'
  BY <1>1, <1>2 DEF IInv, EndReleases, StepIsOneShot, StatusIsHonest, Phases, breaks,
     stops, thread
<1> QED BY <1>2, <1>3, <1>4, <1>5 DEF IInv

\* The connection is lost.
LEMMA GoneStep ==
  ASSUME IInv, Gone
  PROVE  IInv'
<1>1. /\ UNCHANGED <<loaded, breaks, stops, thread, closed>>
      /\ conn = "live" /\ conn' = "gone" /\ susp' = 0 /\ burst' = FALSE
      /\ queue' = Append(queue, "end") /\ "end" \in EventSet
  BY DEF Gone, EventSet
<1>2. queue' \in Seq(EventSet)
  BY <1>1, Appended DEF IInv, TypeOK
<1>3. TypeOK'
  BY <1>1, <1>2 DEF IInv, TypeOK, breaks, stops, thread
<1>4. NoLostSuspension' /\ EndReleases' /\ StepIsOneShot' /\ NoTypeMissed'
  BY <1>1 DEF IInv, NoLostSuspension, EndReleases, StepIsOneShot, NoTypeMissed, stops
<1>5. StatusIsHonest' /\ Phases'
  BY <1>1 DEF IInv, StatusIsHonest, Phases, breaks, stops, thread
<1> QED BY <1>3, <1>4, <1>5 DEF IInv

----------------------------------------------------------------------------
(* finish() and the steps that end in it *)

\* finish() keeps the invariant, whatever becomes of the event thread, as long as the
\* thread ends only when the worker is closed.
LEMMA FinishStep ==
  ASSUME IInv, Finish, UNCHANGED <<app, breaks>>,
         loop' \in {loop, "done"}, got' \in {got, NoSet}
  PROVE  IInv'
<1>1. /\ closed' = TRUE /\ ~closed /\ held' = 0 /\ stopId' = 0 /\ step' = FALSE
      /\ ids' = ids /\ printed' = printed
      /\ \/ conn = "live" /\ conn' = "disposed" /\ susp' = 0
         \/ conn = "live" /\ conn' = "stuck" /\ susp' = susp
         \/ conn # "live" /\ conn' = conn /\ susp' = susp
  BY DEF Finish
<1>2. TypeOK'
  <2>1. /\ conn' \in {"none", "live", "gone", "disposed", "stuck"} /\ susp' \in Nat
        /\ loop' \in {"off", "on", "failed", "done"} /\ got' \in EventSet \cup {NoSet}
    BY <1>1 DEF IInv, TypeOK
  <2>2. /\ held' \in Nat /\ stopId' \in Nat /\ ids' \in Nat /\ printed' \in Nat
        /\ closed' \in BOOLEAN /\ step' \in BOOLEAN
    BY <1>1 DEF IInv, TypeOK
  <2> QED BY <2>1, <2>2 DEF IInv, TypeOK, app, breaks
<1>3. NoLostSuspension' /\ StepIsOneShot' /\ NoTypeMissed'
  BY <1>1 DEF NoLostSuspension, StepIsOneShot, NoTypeMissed
<1>4. EndReleases' /\ StatusIsHonest'
  BY <1>1 DEF IInv, EndReleases, Phases, StatusIsHonest, breaks
<1>5. Phases'
  <2>1. conn' # "live" /\ (conn' = "none" => conn = "none")
    BY <1>1
  <2>2. conn' # "live" => susp' = 0 \/ conn' = "stuck"
    BY <1>1 DEF IInv, Phases
  <2>3. conn' = "none" => /\ queue' = <<>> /\ got' = NoSet
                          /\ \A b \in Breaks : status'[b] = "unset"
    BY <2>1 DEF IInv, Phases, app, breaks
  <2>4. printed' <= ids' /\ (loop' \in {"off", "on"} => printed' = ids')
    BY <1>1 DEF IInv, Phases
  <2> QED BY <1>1, <2>1, <2>2, <2>3, <2>4 DEF Phases
<1> QED BY <1>2, <1>3, <1>4, <1>5 DEF IInv

\* The end of the VM, a failure of the event thread, detach, the watchdog and the end
\* of the input.
LEMMA EndSteps ==
  ASSUME IInv, HandleEnd \/ Catch \/ LoopEnds \/ Detach \/ Watchdog \/ InputEnds
  PROVE  IInv'
<1>1. CASE HandleEnd
  BY <1>1, FinishStep DEF HandleEnd
<1>2. CASE Detach \/ Watchdog \/ InputEnds
  BY <1>2, FinishStep DEF Detach, Watchdog, InputEnds, thread
<1>3. CASE Catch /\ ~closed
  BY <1>3, FinishStep DEF Catch
<1>4. CASE closed /\ (Catch \/ LoopEnds)
  <2>1. /\ UNCHANGED <<conn, susp, app, breaks, stops, closed>>
        /\ loop' = "done" /\ got' = NoSet
    BY <1>4 DEF Catch, LoopEnds
  <2>2. closed' /\ conn' # "live" /\ conn # "live"
    BY <1>4, <2>1 DEF IInv, Phases
  <2>3. TypeOK'
    BY <2>1 DEF IInv, TypeOK, app, breaks, stops
  <2>4. NoLostSuspension' /\ StepIsOneShot' /\ NoTypeMissed'
    BY <2>1, <2>2 DEF IInv, NoLostSuspension, StepIsOneShot, NoTypeMissed, stops
  <2>5. EndReleases' /\ StatusIsHonest' /\ Phases'
    BY <2>1, <2>2 DEF IInv, EndReleases, StatusIsHonest, Phases, breaks, stops, app
  <2> QED BY <2>3, <2>4, <2>5 DEF IInv
<1>5. CASE LoopEnds /\ ~closed
  BY <1>5 DEF LoopEnds
<1> QED BY <1>1, <1>2, <1>3, <1>4, <1>5

----------------------------------------------------------------------------
(* The event thread *)

\* What the thread takes from the queue is not lost.
LEMMA FetchStep ==
  ASSUME IInv, Fetch
  PROVE  IInv'
<1>1. /\ loop = "on" /\ got = NoSet /\ ~closed /\ queue # <<>>
      /\ got' = Head(queue) /\ queue' = Tail(queue) /\ burst' = FALSE
      /\ UNCHANGED <<conn, susp, loaded, breaks, stops, loop, closed>>
  BY DEF Fetch
<1>2. /\ Tail(queue) \in Seq(EventSet) /\ Head(queue) \in EventSet
      /\ Len(Tail(queue)) = Len(queue) - 1 /\ Len(queue) \in Nat \ {0}
      /\ \A t : (\E k \in DOMAIN queue : queue[k] = t)
                  => Head(queue) = t \/ \E k \in DOMAIN Tail(queue) : Tail(queue)[k] = t
  BY <1>1, Removed DEF IInv, TypeOK
<1>3. got' # NoSet /\ NoSet \notin Types
  BY <1>1, <1>2, TypesAssumption DEF EventSet, NoSet
<1>4. TypeOK'
  BY <1>1, <1>2 DEF IInv, TypeOK, breaks, stops
<1>5. NoLostSuspension'
  BY <1>1, <1>2, <1>3 DEF IInv, TypeOK, NoLostSuspension, stops
<1>6. NoTypeMissed'
  <2> SUFFICES ASSUME conn' = "live", NEW b \in Breaks, NEW t \in loaded' \cap HasLine,
                      Active(b)'
               PROVE  t \in bound'[b] \/ got' = t \/ \E k \in DOMAIN queue' : queue'[k] = t
    BY DEF NoTypeMissed
  <2>1. t \in bound[b] \/ got = t \/ \E k \in DOMAIN queue : queue[k] = t
    BY <1>1 DEF IInv, NoTypeMissed, Active, breaks
  <2>2. got # t
    BY <1>1, <1>3, HasLineAssumption
  <2> QED BY <1>1, <1>2, <2>1, <2>2 DEF breaks
<1>7. EndReleases' /\ StepIsOneShot' /\ StatusIsHonest'
  BY <1>1 DEF IInv, EndReleases, StepIsOneShot, StatusIsHonest, breaks, stops
<1>8. Phases'
  BY <1>1 DEF IInv, Phases, breaks, stops
<1> QED BY <1>4, <1>5, <1>6, <1>7, <1>8 DEF IInv

\* A stop is held and printed.
LEMMA HandleStopStep ==
  ASSUME IInv, HandleStop
  PROVE  IInv'
<1>1. /\ loop = "on" /\ ~closed /\ got = "stop" /\ got' = NoSet
      /\ held' = held + 1 /\ step' = FALSE
      /\ stopId' = (IF stopId = 0 THEN ids + 1 ELSE stopId)
      /\ ids' = (IF stopId = 0 THEN ids + 1 ELSE ids)
      /\ printed' = stopId'
      /\ UNCHANGED <<conn, susp, app, breaks, loop, closed>>
  BY DEF HandleStop, Handles, Hold
<1>2. held \in Nat /\ stopId \in Nat /\ ids \in Nat /\ printed \in Nat /\ susp \in Nat
  BY DEF IInv, TypeOK
<1>3. TypeOK'
  <2>1. held' \in Nat /\ stopId' \in Nat /\ ids' \in Nat /\ printed' \in Nat
    BY <1>1, <1>2
  <2> QED BY <1>1, <2>1 DEF IInv, TypeOK, app, breaks
<1>4. NoLostSuspension'
  <2>1. stopId' # 0 /\ held' > 0
    BY <1>1, <1>2
  <2>2. conn = "live" => susp = held + Len(queue) + 1
    BY <1>1 DEF IInv, NoLostSuspension, NoSet
  <2>3. Len(queue) \in Nat
    BY DEF IInv, TypeOK
  <2> QED BY <1>1, <1>2, <2>1, <2>2, <2>3 DEF NoLostSuspension, app
<1>5. NoTypeMissed'
  <2>1. \A t \in HasLine : got # t
    BY <1>1, TypesAssumption, HasLineAssumption
  <2> QED BY <1>1, <2>1 DEF IInv, NoTypeMissed, Active, app, breaks
<1>6. EndReleases' /\ StepIsOneShot' /\ StatusIsHonest'
  BY <1>1 DEF IInv, EndReleases, StepIsOneShot, StatusIsHonest, breaks
<1>7. Phases'
  <2>1. conn # "none"
    BY <1>1, <1>2 DEF IInv, Phases
  <2>2. printed' = ids' /\ stopId' = ids'
    BY <1>1, <1>2 DEF IInv, Phases
  <2> QED BY <1>1, <2>1, <2>2 DEF IInv, Phases, app, breaks
<1> QED BY <1>3, <1>4, <1>5, <1>6, <1>7 DEF IInv

\* A class-prepare event binds the breakpoints of its class, and the app goes on.
LEMMA HandlePrepareStep ==
  ASSUME IInv, NEW t \in Types, HandlePrepare(t)
  PROVE  IInv'
<1>1. /\ loop = "on" /\ ~closed /\ got = t /\ conn = "live"
      /\ Bind(Breaks, {t}) /\ susp' = susp - 1 /\ got' = NoSet
      /\ UNCHANGED <<conn, app, stops, loop, closed>>
  BY DEF HandlePrepare, Handles
<1>2. /\ status' \in [Breaks -> {"unset", "pending", "verified", "rejected", "removed"}]
      /\ bound' \in [Breaks -> SUBSET HasLine]
      /\ StatusIsHonest'
      /\ \A b \in Breaks : Active(b)' <=> Active(b)
      /\ \A b \in Breaks : bound[b] \subseteq bound'[b]
      /\ \A b \in Breaks : Active(b) => {t} \cap HasLine \subseteq bound'[b]
  BY <1>1, BindKeeps DEF IInv
<1>3. susp = held + Len(queue) + 1 /\ held \in Nat /\ Len(queue) \in Nat
  BY <1>1, TypesAssumption DEF IInv, NoLostSuspension, TypeOK, NoSet
<1>4. TypeOK'
  <2>1. susp' \in Nat
    BY <1>1, <1>3
  <2> QED BY <1>1, <1>2, <2>1 DEF IInv, TypeOK, app, stops
<1>5. NoLostSuspension'
  <2>1. susp' = held' + Len(queue')
    BY <1>1, <1>3 DEF app, stops
  <2> QED BY <1>1, <1>3, <2>1 DEF IInv, NoLostSuspension, app, stops
<1>6. NoTypeMissed'
  <2> SUFFICES ASSUME NEW b \in Breaks, NEW u \in loaded' \cap HasLine, Active(b)'
               PROVE  u \in bound'[b] \/ \E k \in DOMAIN queue' : queue'[k] = u
    BY DEF NoTypeMissed
  <2>1. u \in bound[b] \/ got = u \/ \E k \in DOMAIN queue : queue[k] = u
    BY <1>1, <1>2 DEF IInv, NoTypeMissed, app
  <2> QED BY <1>1, <1>2, <2>1 DEF app
<1>7. EndReleases' /\ StepIsOneShot'
  BY <1>1 DEF EndReleases, IInv, StepIsOneShot, stops
<1>8. Phases'
  BY <1>1 DEF IInv, Phases, app, stops
<1> QED BY <1>2, <1>4, <1>5, <1>6, <1>7, <1>8 DEF IInv

\* A failure of the event thread leaves its set unhandled, or held, or half bound.
LEMMA HandleFailsStep ==
  ASSUME IInv, HandleFails
  PROVE  IInv'
<1>1. /\ loop = "on" /\ ~closed /\ loop' = "failed" /\ conn # "none"
      /\ UNCHANGED <<conn, susp, app, closed>>
  BY DEF HandleFails, IInv, Phases
<1>2. CASE UNCHANGED <<got, breaks, stops>>
  <2>1. TypeOK' /\ NoLostSuspension' /\ NoTypeMissed'
    BY <1>1, <1>2 DEF IInv, TypeOK, NoLostSuspension, NoTypeMissed, Active, app, breaks,
       stops
  <2>2. EndReleases' /\ StepIsOneShot' /\ StatusIsHonest' /\ Phases'
    BY <1>1, <1>2 DEF IInv, EndReleases, StepIsOneShot, StatusIsHonest, Phases, app,
       breaks, stops
  <2> QED BY <2>1, <2>2 DEF IInv
<1>3. CASE got = "stop" /\ Hold /\ got' = NoSet /\ UNCHANGED <<printed, breaks>>
  <2>1. /\ held' = held + 1 /\ step' = FALSE
        /\ stopId' = (IF stopId = 0 THEN ids + 1 ELSE stopId)
        /\ ids' = (IF stopId = 0 THEN ids + 1 ELSE ids)
    BY <1>3 DEF Hold
  <2>2. /\ held \in Nat /\ stopId \in Nat /\ ids \in Nat /\ printed \in Nat /\ susp \in Nat
        /\ Len(queue) \in Nat
    BY DEF IInv, TypeOK
  <2>3. held' \in Nat /\ stopId' \in Nat /\ ids' \in Nat /\ stopId' # 0 /\ held' > 0
    BY <2>1, <2>2
  <2>4. TypeOK'
    BY <1>1, <1>3, <2>1, <2>3 DEF IInv, TypeOK, app, breaks
  <2>5. conn = "live" => susp = held + Len(queue) + 1
    BY <1>3 DEF IInv, NoLostSuspension, NoSet
  <2>6. NoLostSuspension'
    BY <1>1, <1>3, <2>1, <2>2, <2>3, <2>5 DEF NoLostSuspension, app
  <2>7. \A t \in HasLine : got # t
    BY <1>3, TypesAssumption, HasLineAssumption
  <2>8. NoTypeMissed'
    BY <1>1, <1>3, <2>7 DEF IInv, NoTypeMissed, Active, app, breaks
  <2>9. EndReleases' /\ StepIsOneShot' /\ StatusIsHonest'
    BY <1>1, <1>3, <2>1 DEF IInv, EndReleases, StepIsOneShot, StatusIsHonest, breaks
  <2>10. stopId' = ids' /\ printed' <= ids'
    BY <1>3, <2>1, <2>2 DEF IInv, Phases
  <2>11. Phases'
    BY <1>1, <1>3, <2>10 DEF IInv, Phases, app, breaks
  <2> QED BY <2>4, <2>6, <2>8, <2>9, <2>11 DEF IInv
<1>4. CASE /\ got \in Types
           /\ \E some \in SUBSET Breaks : Bind(some, {got})
           /\ UNCHANGED <<got, stops>>
  <2>1. PICK some \in SUBSET Breaks : Bind(some, {got})
    BY <1>4
  <2>2. /\ status' \in [Breaks -> {"unset", "pending", "verified", "rejected", "removed"}]
        /\ bound' \in [Breaks -> SUBSET HasLine]
        /\ StatusIsHonest'
        /\ \A b \in Breaks : Active(b)' <=> Active(b)
        /\ \A b \in Breaks : bound[b] \subseteq bound'[b]
    BY <1>4, <2>1, BindKeeps DEF IInv
  <2>3. TypeOK' /\ NoLostSuspension'
    BY <1>1, <1>4, <2>2 DEF IInv, TypeOK, NoLostSuspension, app, stops
  <2>4. NoTypeMissed'
    BY <1>1, <1>4, <2>2 DEF IInv, NoTypeMissed, app
  <2>5. EndReleases' /\ StepIsOneShot' /\ Phases'
    BY <1>1, <1>4 DEF IInv, EndReleases, StepIsOneShot, Phases, app, stops
  <2> QED BY <2>2, <2>3, <2>4, <2>5 DEF IInv
<1> QED BY <1>2, <1>3, <1>4 DEF HandleFails

----------------------------------------------------------------------------
(* Commands *)

\* The worker attaches to an app it does not suspend.
LEMMA AttachStep ==
  ASSUME IInv, Attach
  PROVE  IInv'
<1>1. /\ conn = "none" /\ ~closed /\ conn' = "live" /\ loop' = "on"
      /\ UNCHANGED <<susp, app, breaks, stops, got, closed>>
  BY DEF Attach
<1>2. /\ queue = <<>> /\ got = NoSet /\ stopId = 0 /\ loop = "off" /\ susp = 0
      /\ \A b \in Breaks : status[b] = "unset"
  BY <1>1 DEF IInv, Phases
<1>3. held = 0
  BY <1>2 DEF IInv, NoLostSuspension, TypeOK
<1>4. TypeOK'
  BY <1>1 DEF IInv, TypeOK, app, breaks, stops
<1>5. NoLostSuspension'
  BY <1>1, <1>2, <1>3 DEF NoLostSuspension, app, stops
<1>6. NoTypeMissed'
  BY <1>1, <1>2 DEF NoTypeMissed, Active, breaks
<1>7. EndReleases' /\ StepIsOneShot' /\ StatusIsHonest' /\ Phases'
  BY <1>1, <1>2 DEF IInv, EndReleases, StepIsOneShot, StatusIsHonest, Phases, app,
     breaks, stops
<1> QED BY <1>4, <1>5, <1>6, <1>7 DEF IInv

\* A resume or a step resumes every set that is held.
LEMMA LeaveSteps ==
  ASSUME IInv, NEW id, Resume(id) \/ Step(id)
  PROVE  IInv'
<1>1. /\ ~closed /\ conn \in {"live", "gone"} /\ stopId # 0 /\ step' \in BOOLEAN
      /\ UNCHANGED <<conn, ids, printed, app, breaks, thread, closed>>
      /\ IF conn = "live"
         THEN held' = 0 /\ stopId' = 0 /\ susp' = susp - held
         ELSE UNCHANGED <<held, stopId, susp>>
  BY DEF Resume, Step, Release, Commanded
<1>2. /\ held \in Nat /\ susp \in Nat /\ Len(queue) \in Nat
      /\ conn = "live" => susp = held + Len(queue) + (IF got = NoSet THEN 0 ELSE 1)
  BY DEF IInv, TypeOK, NoLostSuspension
<1>3. TypeOK'
  <2>1. susp' \in Nat /\ held' \in Nat /\ stopId' \in Nat
    BY <1>1, <1>2 DEF IInv, TypeOK
  <2> QED BY <1>1, <2>1 DEF IInv, TypeOK, app, breaks, thread
<1>4. NoLostSuspension'
  BY <1>1, <1>2 DEF IInv, NoLostSuspension, app, thread
<1>5. NoTypeMissed'
  BY <1>1 DEF IInv, NoTypeMissed, Active, app, breaks, thread
<1>6. EndReleases' /\ StepIsOneShot' /\ StatusIsHonest' /\ Phases'
  BY <1>1 DEF IInv, EndReleases, StepIsOneShot, StatusIsHonest, Phases, app, breaks, thread
<1> QED BY <1>3, <1>4, <1>5, <1>6 DEF IInv

\* A removed breakpoint is not bound, and no other changes.
LEMMA RemoveBreakpointStep ==
  ASSUME IInv, NEW b \in Breaks, RemoveBreakpoint(b)
  PROVE  IInv'
<1>1. /\ conn = "live" /\ UNCHANGED <<conn, susp, app, stops, thread, closed>>
      /\ status' = [status EXCEPT ![b] = "removed"]
      /\ bound' = [bound EXCEPT ![b] = {}]
  BY DEF RemoveBreakpoint
<1>2. TypeOK'
  <2>1. /\ status' \in [Breaks -> {"unset", "pending", "verified", "rejected", "removed"}]
        /\ bound' \in [Breaks -> SUBSET HasLine]
    BY <1>1 DEF IInv, TypeOK
  <2> QED BY <1>1, <2>1 DEF IInv, TypeOK, app, stops, thread
<1>3. ASSUME NEW c \in Breaks
      PROVE  IF c = b THEN status'[c] = "removed" /\ bound'[c] = {}
             ELSE status'[c] = status[c] /\ bound'[c] = bound[c]
  BY <1>1 DEF IInv, TypeOK
<1>4. StatusIsHonest' /\ NoTypeMissed'
  BY <1>1, <1>3 DEF IInv, StatusIsHonest, NoTypeMissed, Active, app, thread
<1>5. NoLostSuspension' /\ EndReleases' /\ StepIsOneShot' /\ Phases'
  BY <1>1 DEF IInv, NoLostSuspension, EndReleases, StepIsOneShot, Phases, app, stops,
     thread
<1> QED BY <1>2, <1>4, <1>5 DEF IInv

\* A new breakpoint is bound in every loaded type, the one loaded in the middle of the
\* command included, and on a lost VM it is only recorded.
LEMMA SetBreakpointStep ==
  ASSUME IInv, NEW b \in Breaks, SetBreakpoint(b)
  PROVE  IInv'
<1>1. /\ UNCHANGED <<conn, stops, thread, closed>>
      /\ status[b] = "unset" /\ bound[b] = {} /\ conn \in {"live", "gone"}
  BY DEF SetBreakpoint, Commanded, IInv, StatusIsHonest
<1>2. CASE /\ conn = "live"
           /\ \/ UNCHANGED <<loaded, susp, queue, burst>>
              \/ \E t \in Types \ loaded :
                   MayReport /\ loaded' = loaded \cup {t} /\ Report(t)
           /\ bound' = [bound EXCEPT ![b] = loaded' \cap HasLine]
           /\ status' = [status EXCEPT ![b] = IF loaded' = {} THEN "pending"
                                              ELSE Verdict(bound'[b])]
  <2>1. /\ loaded' \subseteq Types /\ loaded \subseteq loaded'
        /\ queue' \in Seq(EventSet) /\ susp' \in Nat /\ burst' \in BOOLEAN
        /\ NoLostSuspension'
        /\ \A u : (\E k \in DOMAIN queue : queue[k] = u)
                    => \E k \in DOMAIN queue' : queue'[k] = u
        /\ \A u \in loaded' \ loaded : \E k \in DOMAIN queue' : queue'[k] = u
    <3>1. CASE UNCHANGED <<loaded, susp, queue, burst>>
      BY <1>1, <3>1 DEF IInv, TypeOK, NoLostSuspension, stops, thread
    <3>2. CASE \E t \in Types \ loaded :
                 MayReport /\ loaded' = loaded \cup {t} /\ Report(t)
      <4>1. PICK t \in Types \ loaded : MayReport /\ loaded' = loaded \cup {t} /\ Report(t)
        BY <3>2
      <4>2. t \in EventSet /\ loaded \subseteq Types
        BY DEF EventSet, IInv, TypeOK
      <4>3. /\ queue' \in Seq(EventSet) /\ susp' \in Nat /\ burst' \in BOOLEAN
            /\ NoLostSuspension'
            /\ \A u : (\E k \in DOMAIN queue : queue[k] = u)
                        => \E k \in DOMAIN queue' : queue'[k] = u
            /\ \E k \in DOMAIN queue' : queue'[k] = t
        BY <1>1, <4>1, <4>2, Reported
      <4> QED BY <4>1, <4>2, <4>3
    <3> QED BY <1>2, <3>1, <3>2
  <2>2. /\ status' \in [Breaks -> {"unset", "pending", "verified", "rejected", "removed"}]
        /\ bound' \in [Breaks -> SUBSET HasLine]
    BY <1>2 DEF IInv, TypeOK, Verdict
  <2>3. TypeOK'
    BY <1>1, <2>1, <2>2 DEF IInv, TypeOK, stops, thread
  <2>4. ASSUME NEW c \in Breaks
        PROVE  IF c = b THEN /\ bound'[c] = loaded' \cap HasLine
                             /\ status'[c] = (IF loaded' = {} THEN "pending"
                                              ELSE Verdict(bound'[c]))
               ELSE status'[c] = status[c] /\ bound'[c] = bound[c]
    BY <1>2 DEF IInv, TypeOK
  <2>5. StatusIsHonest'
    BY <2>4 DEF IInv, StatusIsHonest, Verdict
  <2>6. NoTypeMissed'
    <3> SUFFICES ASSUME NEW c \in Breaks, NEW u \in loaded' \cap HasLine, Active(c)'
                 PROVE  u \in bound'[c] \/ got' = u \/ \E k \in DOMAIN queue' : queue'[k] = u
      BY DEF NoTypeMissed
    <3>1. CASE c = b
      BY <2>4, <3>1
    <3>2. CASE c # b /\ u \in loaded' \ loaded
      BY <2>1, <3>2
    <3>3. CASE c # b /\ u \in loaded
      <4>1. u \in bound[c] \/ got = u \/ \E k \in DOMAIN queue : queue[k] = u
        BY <1>2, <2>4, <3>3 DEF IInv, NoTypeMissed, Active
      <4> QED BY <1>1, <2>1, <2>4, <3>3, <4>1 DEF thread
    <3> QED BY <3>1, <3>2, <3>3
  <2>7. EndReleases' /\ StepIsOneShot' /\ Phases'
    BY <1>1, <1>2 DEF IInv, EndReleases, StepIsOneShot, Phases, stops, thread
  <2> QED BY <2>1, <2>3, <2>5, <2>6, <2>7 DEF IInv
<1>3. CASE /\ conn = "gone"
           /\ status' = [status EXCEPT ![b] = "pending"]
           /\ UNCHANGED <<susp, app, bound>>
  <2>1. status' \in [Breaks -> {"unset", "pending", "verified", "rejected", "removed"}]
    BY <1>3 DEF IInv, TypeOK
  <2>2. TypeOK'
    BY <1>1, <1>3, <2>1 DEF IInv, TypeOK, app, stops, thread
  <2>3. \A c \in Breaks : status'[c] = IF c = b THEN "pending" ELSE status[c]
    BY <1>3 DEF IInv, TypeOK
  <2>4. StatusIsHonest'
    BY <1>1, <1>3, <2>3 DEF IInv, StatusIsHonest
  <2>5. NoLostSuspension' /\ EndReleases' /\ StepIsOneShot' /\ NoTypeMissed' /\ Phases'
    BY <1>1, <1>3 DEF IInv, NoLostSuspension, EndReleases, StepIsOneShot, NoTypeMissed,
       Phases, app, stops, thread
  <2> QED BY <2>2, <2>4, <2>5 DEF IInv
<1> QED BY <1>2, <1>3 DEF SetBreakpoint

----------------------------------------------------------------------------
(* The theorems *)

\* Every step keeps the invariant.
LEMMA NextInv == IInv /\ [Next]_vars => IInv'
<1> SUFFICES ASSUME IInv, [Next]_vars PROVE IInv'
  OBVIOUS
<1>1. CASE VM
  BY <1>1, LoadStep, HitStep, GoneStep DEF VM
<1>2. CASE EventLoop
  BY <1>2, FetchStep, HandleStopStep, HandlePrepareStep, HandleFailsStep, EndSteps
     DEF EventLoop
<1>3. CASE Commands
  BY <1>3, AttachStep, SetBreakpointStep, RemoveBreakpointStep, LeaveSteps, EndSteps
     DEF Commands
<1>4. CASE Watchdog \/ InputEnds
  BY <1>4, EndSteps
<1>5. CASE UNCHANGED vars
  <2>1. TypeOK' /\ NoLostSuspension' /\ NoTypeMissed' /\ StatusIsHonest'
    BY <1>5 DEF IInv, TypeOK, NoLostSuspension, NoTypeMissed, StatusIsHonest, Active, vars,
       app, breaks, stops, thread
  <2>2. EndReleases' /\ StepIsOneShot' /\ Phases'
    BY <1>5 DEF IInv, EndReleases, StepIsOneShot, Phases, vars, app, breaks, stops, thread
  <2> QED BY <2>1, <2>2 DEF IInv
<1> QED BY <1>1, <1>2, <1>3, <1>4, <1>5 DEF Next

\* The inductive invariant holds of every reachable state.
THEOREM Inductive == Spec => []IInv
<1> QED BY InitInv, NextInv, PTL DEF Spec

\* Every variable keeps its type: in particular no more sets are resumed than suspend
\* the app.
THEOREM TypeCorrect == Spec => []TypeOK
<1>1. IInv => TypeOK
  BY DEF IInv
<1> QED BY <1>1, Inductive, PTL

\* Every set that suspends the app is held or still to be handled.
THEOREM SuspensionsCounted == Spec => []NoLostSuspension
<1>1. IInv => NoLostSuspension
  BY DEF IInv
<1> QED BY <1>1, Inductive, PTL

\* A worker that ended suspends the app no more, unless dispose() failed.
THEOREM EndIsClean == Spec => []EndReleases
<1>1. IInv => EndReleases
  BY DEF IInv
<1> QED BY <1>1, Inductive, PTL

\* No step request outlives a stop.
THEOREM StepsEnd == Spec => []StepIsOneShot
<1>1. IInv => StepIsOneShot
  BY DEF IInv
<1> QED BY <1>1, Inductive, PTL

\* No loaded type escapes an active breakpoint.
THEOREM TypesBound == Spec => []NoTypeMissed
<1>1. IInv => NoTypeMissed
  BY DEF IInv
<1> QED BY <1>1, Inductive, PTL

\* A breakpoint is reported verified exactly when it can stop the app.
THEOREM StatusCorrect == Spec => []StatusIsHonest
<1>1. IInv => StatusIsHonest
  BY DEF IInv
<1> QED BY <1>1, Inductive, PTL

----------------------------------------------------------------------------
(* The lines the worker prints *)

\* finish() prints the last line, and leaves the stop.
LEMMA FinishPrints ==
  ASSUME IInv, Finish
  PROVE  Lines!End
<1>1. ~closed /\ closed' /\ stopId' = 0 /\ printed' = printed
  BY DEF Finish
<1> QED BY <1>1 DEF Lines!End

\* Steps that neither end the worker, attach, leave a stop nor print one.
LEMMA QuietStep ==
  ASSUME UNCHANGED <<closed, printed>>, conn = "none" <=> conn' = "none",
         (stopId # 0 /\ stopId = printed) <=> (stopId' # 0 /\ stopId' = printed)
  PROVE  UNCHANGED Lines!lvars
BY DEF Lines!lvars

\* A stop is printed under a new id, or joins the one in force.
LEMMA StopPrints ==
  ASSUME IInv, HandleStop
  PROVE  [Lines!LNext]_Lines!lvars
<1>1. /\ loop = "on" /\ ~closed /\ UNCHANGED <<conn, closed>>
      /\ stopId' = (IF stopId = 0 THEN ids + 1 ELSE stopId) /\ printed' = stopId'
  BY DEF HandleStop, Handles, Hold
<1>2. conn # "none" /\ printed = ids /\ stopId \in {0, ids} /\ ids \in Nat
  BY <1>1 DEF IInv, Phases, TypeOK
<1>3. CASE stopId = 0
  BY <1>1, <1>2, <1>3 DEF Lines!LNext, Lines!NewStop
<1>4. CASE stopId # 0
  BY <1>1, <1>2, <1>4, QuietStep
<1> QED BY <1>3, <1>4

\* A stop that fails before it is printed is not in the lines.
LEMMA FailurePrints ==
  ASSUME IInv, HandleFails
  PROVE  UNCHANGED Lines!lvars
<1>1. UNCHANGED <<conn, closed, printed>>
  BY DEF HandleFails, stops
<1>2. \/ stopId' = stopId
      \/ stopId = 0 /\ stopId' = ids + 1
  BY DEF HandleFails, Hold, stops
<1>3. printed <= ids /\ ids \in Nat /\ printed \in Nat
  BY DEF IInv, Phases, TypeOK
<1> QED BY <1>1, <1>2, <1>3, QuietStep

\* A resume or a step leaves the stop.
LEMMA LeavePrints ==
  ASSUME IInv, NEW id, Resume(id) \/ Step(id)
  PROVE  [Lines!LNext]_Lines!lvars
<1>1. UNCHANGED <<conn, closed, printed>> /\ stopId' \in {0, stopId}
  BY DEF Resume, Step, Release
<1>2. CASE (stopId # 0 /\ stopId = printed) /\ stopId' = 0
  BY <1>1, <1>2 DEF Lines!LNext, Lines!Left
<1>3. CASE ~((stopId # 0 /\ stopId = printed) /\ stopId' = 0)
  BY <1>1, <1>3, QuietStep
<1> QED BY <1>2, <1>3

\* Every step of the worker is a step of WorkerLines, or prints nothing.
LEMMA NextPrints == IInv /\ [Next]_vars => [Lines!LNext]_Lines!lvars
<1> SUFFICES ASSUME IInv, [Next]_vars PROVE [Lines!LNext]_Lines!lvars
  OBVIOUS
<1>1. CASE VM
  <2>1. UNCHANGED <<closed, stops>> /\ (conn = "none" <=> conn' = "none")
    BY <1>1 DEF VM, Load, Hit, Gone
  <2> QED BY <2>1, QuietStep DEF stops
<1>2. CASE Finish
  BY <1>2, FinishPrints DEF Lines!LNext
<1>3. CASE \/ Fetch \/ (\E t \in Types : HandlePrepare(t)) \/ LoopEnds
           \/ (Catch /\ closed)
           \/ \E b \in Breaks : SetBreakpoint(b) \/ RemoveBreakpoint(b)
  <2>1. UNCHANGED <<conn, closed, stops>>
    BY <1>3 DEF Fetch, HandlePrepare, LoopEnds, Catch, SetBreakpoint, RemoveBreakpoint
  <2> QED BY <2>1, QuietStep DEF stops
<1>4. CASE Attach
  <2>1. /\ conn = "none" /\ ~closed /\ conn' = "live"
        /\ UNCHANGED <<closed, stopId, printed>>
    BY <1>4 DEF Attach, stops
  <2>2. stopId = 0
    BY <2>1 DEF IInv, Phases
  <2> QED BY <2>1, <2>2 DEF Lines!LNext, Lines!Attached
<1>5. CASE UNCHANGED vars
  BY <1>5, QuietStep DEF vars, stops
<1>6. EventLoop => \/ Finish \/ HandleStop \/ HandleFails \/ LoopEnds \/ Fetch
                   \/ (\E t \in Types : HandlePrepare(t)) \/ (Catch /\ closed)
  BY DEF EventLoop, HandleEnd, Catch
<1>7. CASE EventLoop
  BY <1>2, <1>3, <1>6, <1>7, StopPrints, FailurePrints
<1>8. CASE Commands
  BY <1>2, <1>3, <1>4, <1>8, LeavePrints DEF Commands, Detach
<1>9. CASE Watchdog \/ InputEnds
  BY <1>2, <1>9 DEF Watchdog, InputEnds
<1> QED BY <1>1, <1>5, <1>7, <1>8, <1>9 DEF Next

\* The worker implements WorkerLines: a stop is reported under a new id or the one in
\* force, an id that was left is not reported again, and nothing follows the end.
THEOREM Refinement == Spec => PrintsInOrder
<1>1. Init => Lines!LInit
  BY DEF Init, Lines!LInit
<1> QED BY <1>1, Inductive, NextPrints, PTL DEF Spec, PrintsInOrder, Lines!LSpec
=============================================================================
