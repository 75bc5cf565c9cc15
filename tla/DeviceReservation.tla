-------------------------- MODULE DeviceReservation --------------------------
(***************************************************************************)
(* What the debugger registry promises about devices, with no sessions,    *)
(* workers or cleanup in sight: a device is held by at most one holder, at *)
(* most MaxHeld devices are held at once, and no device is taken after the *)
(* registry closes.  DebuggerSessions implements this specification.       *)
(***************************************************************************)
EXTENDS Naturals, FiniteSets

CONSTANTS Holders, Devices, MaxHeld

VARIABLES
  held,   \* held[h] is the set of devices the holder h has: none or one
  open    \* FALSE once the registry stopped accepting holders

rvars == <<held, open>>

Holding == {h \in Holders : held[h] # {}}

RInit == held = [h \in Holders |-> {}] /\ open = TRUE

Take(h, d) ==
  /\ open
  /\ held[h] = {}
  /\ \A g \in Holders : d \notin held[g]
  /\ Cardinality(Holding) < MaxHeld
  /\ held' = [held EXCEPT ![h] = {d}]
  /\ UNCHANGED open

Give(h) ==
  /\ held[h] # {}
  /\ held' = [held EXCEPT ![h] = {}]
  /\ UNCHANGED open

Close == open /\ open' = FALSE /\ UNCHANGED held

RNext ==
  \/ \E h \in Holders, d \in Devices : Take(h, d)
  \/ \E h \in Holders : Give(h)
  \/ Close

RSpec == RInit /\ [][RNext]_rvars

\* A device has one holder, and the holders fit the limit.  The proofs that RSpec
\* implies both are in DeviceReservation_proofs.
Exclusive == \A g, h \in Holders : g # h => held[g] \cap held[h] = {}
Bounded   == Cardinality(Holding) <= MaxHeld
=============================================================================
