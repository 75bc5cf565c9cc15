------------------------------ MODULE UiSnapshots ------------------------------
(***************************************************************************)
(* The revisions a server gives to the UI trees it reads                   *)
(* (observe/snapshot-metadata.ts), and the check of a conditional input    *)
(* against one of them (interact/conditional-action.ts).                   *)
(*                                                                         *)
(* A tree is a function from the elements it shows to their normalised     *)
(* look, so it stands for its own signature.  The app changes and other    *)
(* calls read it at any time: a tree that reaches Derive is any of Trees.  *)
(* The counts of snapshot_delta and the latest delta, which is the delta   *)
(* of two of the revisions here, are left out.                             *)
(*                                                                         *)
(* A Bug operator is the definition after it with one plausible mistake;   *)
(* no action uses it.                                                      *)
(***************************************************************************)
EXTENDS Naturals, FiniteSets

CONSTANTS
  UiDevices,   \* device keys
  Trees,       \* the trees the app can show, functions from sets of numbers
  MaxHistory,  \* trees kept of a device (8 in the code)
  MaxRecords,  \* elements kept of a tree (500 in the code)
  MaxChanges,  \* changes a delta carries (200 in the code)
  MaxRevision  \* a bound of the model: revisions that are given out

\* The elements of a tree are finitely many.
ASSUME TreesAssumption ==
  \A t \in Trees : /\ t = [e \in DOMAIN t |-> t[e]]
                   /\ IsFiniteSet(DOMAIN t) /\ DOMAIN t \subseteq Nat \ {0}
ASSUME MaxRecordsAssumption == MaxRecords \in Nat

VARIABLES
  snap,         \* the snapshot state of each device
  nextRevision,
  held,         \* trees a debug snapshot has collected and not yet derived again
  check,        \* a conditional input
  \* What clients were told, not state of the program:
  shown,        \* revisions returned with a tree
  since         \* the trees returned since a revision was first

snapshotVars == <<snap, nextRevision, held, check, shown, since>>

Revisions == 1 .. MaxRevision
\* Values no tree has: its elements are positive numbers.
Failed == [e \in {0} |-> "failed"]            \* a tree with an error, or none
NoSignature == [e \in {0} |-> "none"]
Fingerprint == [e \in {0} |-> "fingerprint"]  \* signature of a debug snapshot without a tree
NoState == [old |-> TRUE, revision |-> 0, signature |-> NoSignature,
            history |-> << >>]

Records(t) ==
  LET kept == {e \in DOMAIN t : Cardinality({f \in DOMAIN t : f < e}) < MaxRecords}
  IN [e \in kept |-> t[e]]
BugOversized(t) == Cardinality(DOMAIN t) > MaxRecords + 1
Oversized(t) == Cardinality(DOMAIN t) > MaxRecords

SnapshotInit ==
  /\ snap = [d \in UiDevices |-> NoState]
  /\ nextRevision = 1
  /\ held = [d \in UiDevices |-> NoSignature]
  /\ check = [st |-> "idle", dev |-> CHOOSE d \in UiDevices : TRUE, want |-> 0]
  /\ shown = {}
  /\ since = [r \in Revisions |-> {}]

----------------------------------------------------------------------------
(* Deriving a revision *)

BugRevision(previous, signature) ==
  IF previous.revision # 0 /\ (signature = NoSignature \/ previous.signature \in {signature, NoSignature})
    THEN previous.revision ELSE nextRevision

Revision(previous, signature) ==
  IF previous.revision # 0 /\ signature \in {NoSignature, previous.signature}
    THEN previous.revision ELSE nextRevision

\* Entries past ten minutes go first, then the oldest ones past the limit.
Kept(history) ==
  LET recent == {r \in DOMAIN history : ~history[r].old}
      kept == {r \in recent : Cardinality({q \in recent : q > r}) < MaxHistory}
  IN [r \in kept |-> history[r]]

RetainHistory(previous, revision, tree) ==
  LET entry == [elements |-> Records(tree), over |-> Oversized(tree), old |-> FALSE] IN
  Kept(IF tree = Failed THEN previous.history
       ELSE [r \in DOMAIN previous.history \cup {revision} |->
               IF r = revision THEN entry ELSE previous.history[r]])

Derived(d, tree, signature) ==
  LET previous == IF snap[d].old THEN NoState ELSE snap[d]
      revision == Revision(previous, signature)
  IN [old |-> FALSE, revision |-> revision, signature |-> signature,
      history |-> RetainHistory(previous, revision, tree)]

Signature(tree) == IF tree = Failed THEN NoSignature ELSE tree

\* deriveSnapshotMetadata.
Derive(d, tree, signature) ==
  LET new == Derived(d, tree, signature) IN
  /\ new.revision <= MaxRevision
  /\ snap' = [snap EXCEPT ![d] = new]
  /\ nextRevision' = IF new.revision = nextRevision THEN nextRevision + 1 ELSE nextRevision

\* A response that carries a tree and the revision Derive gave it.
Show(d, tree) ==
  IF tree = Failed THEN UNCHANGED <<shown, since>>
  ELSE /\ shown' = shown \cup {[rev |-> snap'[d].revision, dev |-> d, tree |-> tree]}
       /\ since' = [r \in Revisions |->
            IF \E s \in shown' : s.rev = r /\ s.dev = d THEN since[r] \cup {tree} ELSE since[r]]

\* getUITree: the tree was dumped some time before it is derived.
ReadTree(d) ==
  /\ \E tree \in Trees \cup {Failed} : Derive(d, tree, Signature(tree)) /\ Show(d, tree)
  /\ UNCHANGED <<held, check>>

\* capture_debug_snapshot reads a tree, then waits for the logs ...
CollectSnapshot(d) ==
  /\ held[d] = NoSignature
  /\ \E tree \in Trees \cup {Failed} :
       /\ Derive(d, tree, Signature(tree)) /\ Show(d, tree)
       /\ held' = [held EXCEPT ![d] = tree]
  /\ UNCHANGED check

\* ... and derives the tree again, or its fingerprint when the read threw.
SnapshotMetadata(d) ==
  /\ held[d] # NoSignature
  /\ \/ Derive(d, held[d], Signature(held[d]))
     \/ held[d] = Failed /\ Derive(d, Failed, Fingerprint)
  /\ held' = [held EXCEPT ![d] = NoSignature]
  /\ UNCHANGED <<check, shown, since>>

\* retainConnectedDeviceSnapshots, clearDeviceSnapshots: the device was gone.
Disconnect(d) ==
  /\ snap' = [snap EXCEPT ![d] = NoState]
  /\ UNCHANGED <<nextRevision, held, check, shown, since>>

\* Ten minutes pass for one entry, or for the device's last read and so for all.
Ages(d) ==
  /\ \/ \E r \in DOMAIN snap[d].history :
          /\ ~snap[d].history[r].old
          /\ snap' = [snap EXCEPT ![d].history[r].old = TRUE]
     \/ /\ ~snap[d].old
        /\ \A r \in DOMAIN snap[d].history : snap[d].history[r].old
        /\ snap' = [snap EXCEPT ![d].old = TRUE]
  /\ UNCHANGED <<nextRevision, held, check, shown, since>>

----------------------------------------------------------------------------
(* Deltas *)

\* getStateDelta of two revisions, {} when it has none.
StateDelta(d, base, current) ==
  LET h == snap[d].history IN
  IF \/ snap[d].old \/ {base, current} \notin SUBSET DOMAIN h
     \/ h[base].old
  THEN {}
  ELSE LET b == h[base].elements
           c == h[current].elements
           added == {e \in DOMAIN c : e \notin DOMAIN b}
           changed == {e \in DOMAIN c \cap DOMAIN b : b[e] # c[e]}
           removed == DOMAIN b \ DOMAIN c
       IN {[put |-> [e \in added \cup changed |-> c[e]], removed |-> removed,
            truncated |-> \/ Cardinality(added) + Cardinality(changed) + Cardinality(removed) > MaxChanges
                          \/ h[base].over \/ h[current].over]}

Apply(t, delta) ==
  [e \in (DOMAIN t \cup DOMAIN delta.put) \ delta.removed |->
     IF e \in DOMAIN delta.put THEN delta.put[e] ELSE t[e]]

----------------------------------------------------------------------------
(* A conditional input *)

\* hasSnapshotBaseline.
HasBaseline(d, r) ==
  /\ ~snap[d].old
  /\ r \in DOMAIN snap[d].history /\ ~snap[d].history[r].old

\* beforeInputDispatch up to its read: a device that is not the expected one, a
\* revision of another process and one that is not kept end the check.
CheckStarts(d) ==
  /\ check.st # "reading"
  /\ \E s \in shown, actual \in UiDevices, session \in BOOLEAN :
       /\ s.dev = d
       /\ check' = IF actual = d /\ session /\ HasBaseline(d, s.rev)
                     THEN [dev |-> d, want |-> s.rev, st |-> "reading"]
                     ELSE [dev |-> d, want |-> 0, st |-> "unavailable"]
  /\ UNCHANGED <<snap, nextRevision, held, shown, since>>

Matches(tree) == tree # Failed /\ snap'[check.dev].revision = check.want

\* Its read ends: with a tree, with an error, or at its deadline.
CheckReadEnds ==
  /\ check.st = "reading"
  /\ \/ \E tree \in Trees \cup {Failed} :
          /\ Derive(check.dev, tree, Signature(tree)) /\ Show(check.dev, tree)
          /\ check' = [check EXCEPT !.want = 0, !.st =
               IF Matches(tree) THEN "matched"
               ELSE IF tree = Failed THEN "unavailable" ELSE "mismatch"]
     \/ /\ check' = [check EXCEPT !.want = 0, !.st = "unavailable"]
        /\ UNCHANGED <<snap, nextRevision, shown, since>>
  /\ UNCHANGED held

SnapshotNext ==
  \/ \E d \in UiDevices : \/ ReadTree(d) \/ CollectSnapshot(d) \/ SnapshotMetadata(d)
                          \/ Disconnect(d) \/ Ages(d) \/ CheckStarts(d)
  \/ CheckReadEnds

SnapshotSpec == SnapshotInit /\ [][SnapshotNext]_snapshotVars

----------------------------------------------------------------------------
(* Properties *)

\* A delta that is not truncated turns the tree a client was shown as the base
\* revision into the one it was shown as the current revision, whatever was read,
\* derived again, evicted or aged in between (getStateDelta).
DeltaIsSound ==
  \A a, b \in shown : a.dev = b.dev =>
    \A delta \in StateDelta(a.dev, a.rev, b.rev) :
      delta.truncated \/ Apply(a.tree, delta) = b.tree

\* A condition that matches lets the input go only if every tree of the device
\* that was returned since the expected revision was is the one just read
\* (beforeInputDispatch): an intervening change that a read saw is never missed.
MatchMeansUnchanged ==
  [][ check.st = "reading" /\ check'.st = "matched" =>
        \E s \in shown : /\ s.dev = check.dev /\ s.rev = check.want
                         /\ since'[check.want] = {s.tree} ]_snapshotVars

=============================================================================
