----------------------- MODULE DeviceReservation_proofs -----------------------
(***************************************************************************)
(* What a registry that implements DeviceReservation gives its clients, for *)
(* every set of devices and holders and every limit.                       *)
(***************************************************************************)
EXTENDS DeviceReservation, FiniteSetTheorems, TLAPS

RType == held \in [Holders -> SUBSET Devices]

\* No two sessions that are not cleaned up share a device.  (sessions.ts:154)
THEOREM NoSharedDevice == RSpec => []Exclusive
<1> DEFINE Inv == RType /\ Exclusive
<1>1. RInit => Inv
  BY DEF RInit, RType, Exclusive
<1>2. Inv /\ [RNext]_rvars => Inv'
  <2> SUFFICES ASSUME Inv, [RNext]_rvars PROVE Inv'
    OBVIOUS
  <2>1. ASSUME NEW h \in Holders, NEW d \in Devices, Take(h, d)
        PROVE  Inv'
    BY <2>1 DEF Take, RType, Exclusive
  <2>2. ASSUME NEW h \in Holders, Give(h)
        PROVE  Inv'
    BY <2>2 DEF Give, RType, Exclusive
  <2>3. CASE UNCHANGED held
    BY <2>3 DEF RType, Exclusive
  <2> QED
    BY <2>1, <2>2, <2>3 DEF RNext, Close, rvars
<1> QED
  BY <1>1, <1>2, PTL DEF RSpec

\* No more devices are held than the registry allows.  (sessions.ts:154)
THEOREM LimitHolds ==
  ASSUME MaxHeld \in Nat
  PROVE  RSpec => []Bounded
<1> DEFINE Inv == RType /\ IsFiniteSet(Holding) /\ Cardinality(Holding) \in Nat /\ Bounded
<1>1. RInit => Inv
  <2> SUFFICES ASSUME RInit PROVE Inv
    OBVIOUS
  <2>1. Holding = {} /\ RType
    BY DEF RInit, Holding, RType
  <2> QED
    BY <2>1, FS_EmptySet DEF Bounded
<1>2. Inv /\ [RNext]_rvars => Inv'
  <2> SUFFICES ASSUME Inv, [RNext]_rvars PROVE Inv'
    OBVIOUS
  <2>1. ASSUME NEW h \in Holders, NEW d \in Devices, Take(h, d)
        PROVE  Inv'
    <3>1. Holding' = Holding \cup {h} /\ h \notin Holding /\ RType'
      BY <2>1 DEF Take, Holding, RType
    <3>2. IsFiniteSet(Holding') /\ Cardinality(Holding') = Cardinality(Holding) + 1
      BY <3>1, FS_AddElement
    <3>3. Cardinality(Holding) < MaxHeld
      BY <2>1 DEF Take
    <3> QED
      BY <3>1, <3>2, <3>3 DEF Bounded
  <2>2. ASSUME NEW h \in Holders, Give(h)
        PROVE  Inv'
    <3>1. Holding' = Holding \ {h} /\ h \in Holding /\ RType'
      BY <2>2 DEF Give, Holding, RType
    <3>2. IsFiniteSet(Holding') /\ Cardinality(Holding') = Cardinality(Holding) - 1
      BY <3>1, FS_RemoveElement
    <3>3. IsFiniteSet(Holding') => Cardinality(Holding') \in Nat
      BY FS_CardinalityType
    <3> QED
      BY <3>1, <3>2, <3>3 DEF Bounded
  <2>3. CASE UNCHANGED held
    <3>1. Holding' = Holding /\ RType'
      BY <2>3 DEF Holding, RType
    <3> QED
      BY <3>1 DEF Bounded
  <2> QED
    BY <2>1, <2>2, <2>3 DEF RNext, Close, rvars
<1> QED
  BY <1>1, <1>2, PTL DEF RSpec
=============================================================================
