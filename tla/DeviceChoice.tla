------------------------------ MODULE DeviceChoice ------------------------------
(***************************************************************************)
(* The device that a call runs on: the devices of the platform are listed, *)
(* each is asked whether the app is installed on it, and one of them is    *)
(* selected, unless the call names a device or runs inside one that has    *)
(* already chosen.                                                         *)
(*                                                                         *)
(* A Bug operator is the definition after it with one plausible mistake;   *)
(* no action uses it.                                                      *)
(***************************************************************************)
EXTENDS Naturals, FiniteSets

CONSTANT Versions \* OS versions, as numbers

ASSUME VersionsAssumption == Versions \subseteq Nat

VARIABLES
  wish,   \* the platform and the arguments; 0 is no device
  fleet,  \* the devices, in the order of the list
  has,    \* the devices that the app is on
  seenOn, \* for each device, what has been so of the app since the call began
  checks, \* what is known of the installation on each device
  chosen  \* 0 before an answer, a device, or 3: none

deviceVars == <<wish, fleet, has, seenOn, checks, chosen>>

\* available: an Android device that adb calls "device", a booted simulator.
Devices(os) == [simulator : IF os = "ios" THEN {TRUE} ELSE BOOLEAN,
                available : BOOLEAN, version : Versions]

Places == {1, 2}

\* inside: the device of the enclosing call.  Device 3 is not there.
Wishes == [os : {"android", "ios"}, app : BOOLEAN, inside : {0}, id : {0},
           prefer : {"any", "physical", "emulator"}]
          \cup [os : {"android", "ios"}, app : BOOLEAN, inside : {0, 1}, id : {2, 3},
                prefer : {"any"}]
          \cup [os : {"android", "ios"}, app : {TRUE}, inside : {2}, id : {0}, prefer : {"any"}]

Present(i) == IF i \in has THEN "installed" ELSE "absent"

DeviceInit ==
  /\ wish \in Wishes
  /\ fleet \in [Places -> Devices(wish.os)]
  /\ has \in SUBSET {i \in Places : wish.app /\ fleet[i].available}
  /\ seenOn = [i \in Places |-> {Present(i)}]
  /\ checks = [i \in Places |-> IF wish.app /\ fleet[i].available THEN "unasked" ELSE "unknown"]
  /\ chosen = 0

----------------------------------------------------------------------------
(* The installation on a device *)

\* An app comes or goes while a device is asked: between two questions, for what happens
\* before the first could have happened before the call.
AppMoves(i) ==
  /\ chosen = 0 /\ checks[i] = "unconfirmed"
  /\ has' = IF i \in has THEN has \ {i} ELSE has \cup {i}
  /\ seenOn' = [seenOn EXCEPT ![i] = @ \cup {Present(i)'}]
  /\ UNCHANGED <<wish, fleet, checks, chosen>>

Learns(i, status) ==
  /\ chosen = 0
  /\ checks' = [checks EXCEPT ![i] = status]
  /\ UNCHANGED <<wish, fleet, has, seenOn, chosen>>

\* pm path or simctl listapps: it answers; it fails, is not understood, or runs out of
\* time; or, on Android, it fails and prints nothing, which may or may not be an absence.
BugProbe(i, r) ==
  /\ checks[i] = "unasked"
  /\ r = "silent" => wish.os = "android"
  /\ Learns(i, CASE r = "answers" -> Present(i)
                 [] r = "silent"  -> "absent"
                 [] OTHER         -> "unknown")

Probe(i, r) ==
  /\ checks[i] = "unasked"
  /\ r = "silent" => wish.os = "android"
  /\ Learns(i, CASE r = "answers" -> Present(i)
                 [] r = "silent"  -> "unconfirmed"
                 [] OTHER         -> "unknown")

\* pm list packages settles it.
Confirm(i, r) ==
  /\ checks[i] = "unconfirmed"
  /\ Learns(i, IF r = "answers" THEN Present(i) ELSE "unknown")

----------------------------------------------------------------------------
(* The choice *)

Preferred == {i \in Places : wish.prefer = "any"
                             \/ (fleet[i].simulator <=> wish.prefer = "emulator")}

Narrowed(c, d) == IF d = {} THEN c ELSE d

Candidates ==
  IF wish.app THEN Narrowed(Preferred, {i \in Preferred : checks[i] = "installed"})
  ELSE Preferred

\* Devices of the physical kind come first when the call has no preference.
Finalists ==
  IF wish.prefer = "any"
  THEN Narrowed(Candidates, {i \in Candidates : ~fleet[i].simulator})
  ELSE Candidates

BootedFinalists == {i \in Finalists : wish.os = "ios" /\ fleet[i].available}

NewestSystem(c) == {i \in c : \A j \in c : fleet[j].version <= fleet[i].version}

First(c) == CHOOSE i \in c : \A j \in c : i <= j

\* The only one there is, the first simulator that is booted, or the one with the
\* newest system.
Selected ==
  CASE Cardinality(Finalists) = 1 -> First(Finalists)
    [] Cardinality(Finalists) > 1 /\ BootedFinalists # {} -> First(BootedFinalists)
    [] Cardinality(Finalists) > 1 /\ BootedFinalists = {}
       /\ Cardinality(NewestSystem(Finalists)) = 1 -> First(NewestSystem(Finalists))
    [] OTHER -> 0

Chooses(i) ==
  /\ chosen = 0
  /\ chosen' = i
  /\ UNCHANGED <<wish, fleet, has, seenOn, checks>>

\* A call on the device of the call it is part of does not look for one.
Inherits == wish.inside # 0 /\ wish.id \in {0, wish.inside}

Inherit == Inherits /\ Chooses(wish.inside)

\* There is no list.
ListFails ==
  ~Inherits /\ (\A i \in Places : checks[i] \in {"unasked", "unknown"}) /\ Chooses(3)

\* The call fails when the device it names is not in the list, or two are alike.
Choose ==
  /\ ~Inherits
  /\ \A i \in Places : checks[i] \notin {"unasked", "unconfirmed"}
  /\ Chooses(IF wish.id # 0 THEN wish.id ELSE IF Selected # 0 THEN Selected ELSE 3)

DeviceNext ==
  \/ Inherit \/ ListFails \/ Choose
  \/ \E i \in Places :
       \/ AppMoves(i)
       \/ \E r \in {"answers", "fails", "silent"} : Probe(i, r) \/ Confirm(i, r)

DeviceSpec == DeviceInit /\ [][DeviceNext]_deviceVars

----------------------------------------------------------------------------
(* Properties *)

\* i suits the call at least as well as j: by the app, by being a physical device, by
\* being booted, by its system, in this order.
Suits(i, j) ==
  LET rank(k) == <<IF wish.app /\ checks[k] = "installed" THEN 1 ELSE 0,
                   IF wish.prefer = "any" /\ ~fleet[k].simulator THEN 1 ELSE 0,
                   IF wish.os = "ios" /\ fleet[k].available THEN 1 ELSE 0,
                   fleet[k].version>>
      a == rank(i)
      b == rank(j)
  IN  a = b \/ \E n \in 1..4 : a[n] > b[n] /\ \A m \in 1..(n - 1) : a[m] = b[m]

\* A call never runs on another device than it names.  One that names none runs on a
\* device of the kind it prefers that no other suits as well, except for simulators that
\* are booted, of which it takes the first.  And what the list says of the app was so
\* while the list was made, whatever commands failed: a failure is never an absence.
\* (resolveDevice 68-88, selectDevice 90-128, probeInstallation 20-73)
TargetIsHonest ==
  /\ \A i \in Places : checks[i] \in {"installed", "absent"} => checks[i] \in seenOn[i]
  /\ chosen \in Places =>
       /\ wish.id # 0 => chosen = wish.id
       /\ wish.id = 0 /\ wish.inside = 0 =>
            /\ chosen \in Preferred
            /\ \A i \in Preferred \ {chosen} :
                 Suits(i, chosen) => wish.os = "ios" /\ fleet[i].available
                                     /\ fleet[chosen].available /\ chosen < i
=============================================================================
