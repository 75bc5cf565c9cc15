--------------------------- MODULE Evidence_proofs ---------------------------
(***************************************************************************)
(* Safety of what the server tells of the UI it has seen: revisions and    *)
(* deltas of snapshots, and the freshness of observations, for every value *)
(* of the constants.                                                       *)
(***************************************************************************)
EXTENDS UiSnapshots, ActionEvidence, FiniteSetTheorems, TLAPS

----------------------------------------------------------------------------
(* Snapshots *)

\* What the state keeps of a revision is the tree that was returned with it.
Keeps(d, r, tree) ==
  /\ snap[d].history[r].elements = Records(tree)
  /\ snap[d].history[r].over = Oversized(tree)

\* Revisions are given out once, and the current one stands for one tree.
SnapshotInv ==
  /\ nextRevision \in Nat \ {0}
  /\ DOMAIN snap = UiDevices
  /\ \A d \in UiDevices :
       /\ snap[d] = [old |-> snap[d].old, revision |-> snap[d].revision,
                     signature |-> snap[d].signature, history |-> snap[d].history]
       /\ snap[d].revision \in Nat /\ snap[d].revision < nextRevision
       /\ \A r \in DOMAIN snap[d].history :
            /\ r \in Nat /\ r < nextRevision
            /\ snap[d].history[r] = [elements |-> snap[d].history[r].elements,
                                     over |-> snap[d].history[r].over,
                                     old |-> snap[d].history[r].old]
       /\ \A e \in UiDevices : snap[d].revision = snap[e].revision => d = e \/ snap[d].revision = 0
  /\ DOMAIN held = UiDevices
  /\ \A d \in UiDevices : held[d] \in Trees \cup {Failed, NoSignature}
  /\ \A s \in shown :
       /\ s = [rev |-> s.rev, dev |-> s.dev, tree |-> s.tree]
       /\ s.rev \in Revisions /\ s.rev < nextRevision /\ s.dev \in UiDevices /\ s.tree \in Trees
       /\ s.rev \in DOMAIN snap[s.dev].history => Keeps(s.dev, s.rev, s.tree)
       /\ s.rev = snap[s.dev].revision =>
            /\ snap[s.dev].signature \in {s.tree, NoSignature}
            /\ since[s.rev] = {s.tree}
  /\ \A s \in shown, d \in UiDevices : s.rev = snap[d].revision => s.dev = d
  /\ \A s, u \in shown : s.rev = u.rev => s.dev = u.dev
  /\ since = [r \in Revisions |-> since[r]]
  /\ \A r \in Revisions : (\A s \in shown : s.rev # r) => since[r] = {}

\* An element at most has as many before it as the tree has others.
LEMMA AllKept ==
  ASSUME NEW t \in Trees, ~Oversized(t)
  PROVE  Records(t) = t
<1>1. /\ IsFiniteSet(DOMAIN t) /\ DOMAIN t \subseteq Nat \ {0} /\ t = [e \in DOMAIN t |-> t[e]]
      /\ Cardinality(DOMAIN t) \in Nat /\ Cardinality(DOMAIN t) <= MaxRecords
  BY TreesAssumption, MaxRecordsAssumption, FS_CardinalityType DEF Oversized
<1>2. ASSUME NEW e \in DOMAIN t
      PROVE  Cardinality({f \in DOMAIN t : f < e}) < MaxRecords
  <2> DEFINE below == {f \in DOMAIN t : f < e}
  <2>1. below \subseteq DOMAIN t /\ below # DOMAIN t
    <3>1. ~(e < e)
      BY <1>1
    <3> QED BY <3>1
  <2>2. Cardinality(below) < Cardinality(DOMAIN t) /\ Cardinality(below) \in Nat
    <3> HIDE DEF below
    <3> QED BY <1>1, <2>1, FS_Subset, FS_CardinalityType
  <2> QED BY <1>1, <2>2, MaxRecordsAssumption
<1> QED BY <1>1, <1>2 DEF Records

\* A delta of two complete entries is the difference of their trees.  (getStateDelta)
LEMMA DeltaApplies ==
  ASSUME SnapshotInv, NEW a \in shown, NEW b \in shown, a.dev = b.dev,
         NEW delta \in StateDelta(a.dev, a.rev, b.rev), ~delta.truncated
  PROVE  Apply(a.tree, delta) = b.tree
<1> DEFINE h == snap[a.dev].history
           p == h[a.rev].elements
           c == h[b.rev].elements
           added == {e \in DOMAIN c : e \notin DOMAIN p}
           changed == {e \in DOMAIN c \cap DOMAIN p : p[e] # c[e]}
           many == Cardinality(added) + Cardinality(changed) + Cardinality(DOMAIN p \ DOMAIN c)
                     > MaxChanges
<1>1. /\ a.rev \in DOMAIN h /\ b.rev \in DOMAIN h
      /\ delta = [put |-> [e \in added \cup changed |-> c[e]], removed |-> DOMAIN p \ DOMAIN c,
                  truncated |-> \/ many
                                \/ h[a.rev].over \/ h[b.rev].over]
  BY DEF StateDelta
<1>2. ~h[a.rev].over /\ ~h[b.rev].over
  <2> HIDE DEF many, h, added, changed, p, c
  <2>1. delta.truncated = (many \/ h[a.rev].over \/ h[b.rev].over)
    BY <1>1
  <2> QED BY <2>1, Zenon
<1>3. /\ p = Records(a.tree) /\ c = Records(b.tree) /\ a.tree \in Trees /\ b.tree \in Trees
      /\ h[a.rev].over = Oversized(a.tree) /\ h[b.rev].over = Oversized(b.tree)
  BY <1>1 DEF SnapshotInv, Keeps
<1>4. p = a.tree /\ c = b.tree
  <2>1. ~Oversized(a.tree) /\ ~Oversized(b.tree)
    BY <1>2, <1>3
  <2> QED BY <1>3, <2>1, AllKept
<1>5. /\ DOMAIN delta.put = added \cup changed /\ \A e \in added \cup changed : delta.put[e] = c[e]
      /\ delta.removed = DOMAIN p \ DOMAIN c
  BY <1>1
<1>6. c = [e \in DOMAIN c |-> c[e]]
  BY <1>3, <1>4, TreesAssumption
<1> HIDE DEF p, c, h
<1>7. (DOMAIN p \cup DOMAIN delta.put) \ delta.removed = DOMAIN c
  BY <1>5
<1>8. \A e \in DOMAIN c : (IF e \in DOMAIN delta.put THEN delta.put[e] ELSE p[e]) = c[e]
  BY <1>5
<1>9. Apply(p, delta) = [e \in DOMAIN c |-> c[e]]
  BY <1>7, <1>8 DEF Apply
<1> QED BY <1>4, <1>6, <1>9

Marks == {Failed, NoSignature, Fingerprint}

\* No mark is a tree, and the marks differ.
LEMMA MarksDiffer ==
  /\ \A m \in Marks : m \notin Trees
  /\ Failed # NoSignature /\ Fingerprint # NoSignature /\ Failed # Fingerprint
<1>1. Failed[0] = "failed" /\ NoSignature[0] = "none" /\ Fingerprint[0] = "fingerprint"
  BY DEF Failed, NoSignature, Fingerprint
<1>2. \A m \in Marks : DOMAIN m = {0}
  BY DEF Marks, Failed, NoSignature, Fingerprint
<1>3. \A t \in Trees : 0 \notin DOMAIN t
  BY TreesAssumption
<1> QED BY <1>1, <1>2, <1>3

\* A tree and what is derived from it: its signature, or a fingerprint when it has none.
Reads(tree, signature) ==
  \/ tree \in Trees /\ signature = tree
  \/ tree = Failed /\ signature \in {NoSignature, Fingerprint}

\* A derived state has a new revision, or the one it had, and its history grows by the
\* tree at most.  (deriveSnapshotMetadata)
LEMMA DeriveEnds ==
  ASSUME SnapshotInv, NEW d \in UiDevices, NEW tree, NEW signature,
         Reads(tree, signature), Derive(d, tree, signature)
  PROVE  \E revision, history :
           /\ revision \in Revisions
           /\ snap' = [snap EXCEPT ![d] = [old |-> FALSE, revision |-> revision,
                                           signature |-> signature, history |-> history]]
           /\ \/ revision = nextRevision /\ nextRevision' = nextRevision + 1
              \/ /\ revision = snap[d].revision /\ nextRevision' = nextRevision
                 /\ signature \in {NoSignature, snap[d].signature}
           /\ \A r \in DOMAIN history :
                \/ /\ r = revision /\ tree \in Trees
                   /\ history[r] = [elements |-> Records(tree), over |-> Oversized(tree),
                                    old |-> FALSE]
                \/ /\ r \in DOMAIN snap[d].history /\ history[r] = snap[d].history[r]
                   /\ r # revision \/ tree = Failed
<1> DEFINE previous == IF snap[d].old THEN NoState ELSE snap[d]
           revision == Revision(previous, signature)
           entry == [elements |-> Records(tree), over |-> Oversized(tree), old |-> FALSE]
           grown == IF tree = Failed THEN previous.history
                    ELSE [r \in DOMAIN previous.history \cup {revision} |->
                           IF r = revision THEN entry ELSE previous.history[r]]
           history == Kept(grown)
<1>1. /\ snap' = [snap EXCEPT ![d] = [old |-> FALSE, revision |-> revision,
                                      signature |-> signature, history |-> history]]
      /\ revision <= MaxRevision
      /\ nextRevision' = IF revision = nextRevision THEN nextRevision + 1 ELSE nextRevision
  <2>1. RetainHistory(previous, revision, tree) = history
    BY DEF RetainHistory
  <2>2. Derived(d, tree, signature) = [old |-> FALSE, revision |-> revision,
                                      signature |-> signature, history |-> history]
    BY <2>1 DEF Derived
  <2> HIDE DEF revision, history
  <2> QED BY <2>2 DEF Derive
<1>2. /\ previous.revision = 0 \/ (previous = snap[d] /\ ~snap[d].old)
      /\ \A r \in DOMAIN previous.history :
           r \in DOMAIN snap[d].history /\ previous.history[r] = snap[d].history[r]
  <2>1. NoState.revision = 0 /\ NoState.history = <<>> /\ DOMAIN NoState.history = {}
    BY DEF NoState
  <2> QED BY <2>1
<1>3. \/ revision = nextRevision
      \/ /\ revision = snap[d].revision /\ revision # 0
         /\ signature \in {NoSignature, snap[d].signature}
  <2> HIDE DEF previous
  <2> QED BY <1>2 DEF Revision
<1>4. tree # Failed => tree \in Trees
  BY DEF Reads
<1>5. \A r \in DOMAIN grown :
        \/ r = revision /\ tree \in Trees /\ grown[r] = entry
        \/ /\ r \in DOMAIN snap[d].history /\ grown[r] = snap[d].history[r]
           /\ r # revision \/ tree = Failed
  <2> HIDE DEF previous, revision, entry
  <2> QED BY <1>2, <1>4
<1>6. \A r \in DOMAIN history : r \in DOMAIN grown /\ history[r] = grown[r]
  <2> HIDE DEF grown
  <2> QED BY DEF Kept
<1>7. revision \in Revisions
  <2> HIDE DEF revision
  <2>1. snap[d].revision \in Nat /\ nextRevision \in Nat \ {0}
    BY DEF SnapshotInv
  <2>2. revision \in Nat \ {0}
    BY <1>3, <2>1
  <2> QED BY <1>1, <2>2 DEF Revisions
<1> HIDE DEF revision, history, entry, grown, previous
<1>8. \/ revision = nextRevision /\ nextRevision' = nextRevision + 1
      \/ /\ revision = snap[d].revision /\ nextRevision' = nextRevision
         /\ signature \in {NoSignature, snap[d].signature}
  BY <1>1, <1>3
<1>9. \A r \in DOMAIN history :
        \/ /\ r = revision /\ tree \in Trees
           /\ history[r] = [elements |-> Records(tree), over |-> Oversized(tree), old |-> FALSE]
        \/ /\ r \in DOMAIN snap[d].history /\ history[r] = snap[d].history[r]
           /\ r # revision \/ tree = Failed
  BY <1>5, <1>6 DEF entry
<1> QED BY <1>1, <1>7, <1>8, <1>9

\* The invariant survives a derived state, returned with its tree or not.
LEMMA DeriveKeeps ==
  ASSUME SnapshotInv, NEW d \in UiDevices, NEW tree, NEW signature,
         Reads(tree, signature), Derive(d, tree, signature),
         Show(d, tree) \/ UNCHANGED <<shown, since>>,
         DOMAIN held' = UiDevices,
         \A e \in UiDevices : held'[e] \in Trees \cup {Failed, NoSignature}
  PROVE  SnapshotInv'
<1>1. PICK revision, history :
        /\ revision \in Revisions
        /\ snap' = [snap EXCEPT ![d] = [old |-> FALSE, revision |-> revision,
                                        signature |-> signature, history |-> history]]
        /\ \/ revision = nextRevision /\ nextRevision' = nextRevision + 1
           \/ /\ revision = snap[d].revision /\ nextRevision' = nextRevision
              /\ signature \in {NoSignature, snap[d].signature}
        /\ \A r \in DOMAIN history :
             \/ /\ r = revision /\ tree \in Trees
                /\ history[r] = [elements |-> Records(tree), over |-> Oversized(tree),
                                 old |-> FALSE]
             \/ /\ r \in DOMAIN snap[d].history /\ history[r] = snap[d].history[r]
                /\ r # revision \/ tree = Failed
  BY DeriveEnds
<1>2. /\ nextRevision \in Nat \ {0} /\ revision \in Nat \ {0} /\ DOMAIN snap = UiDevices
      /\ nextRevision' \in Nat \ {0} /\ nextRevision <= nextRevision' /\ revision < nextRevision'
  BY <1>1 DEF SnapshotInv, Revisions
<1>3. /\ DOMAIN snap' = UiDevices
      /\ snap'[d] = [old |-> FALSE, revision |-> revision, signature |-> signature,
                     history |-> history]
      /\ \A e \in UiDevices \ {d} : snap'[e] = snap[e]
  BY <1>1, <1>2
<1>4. /\ \A s \in shown : s.rev = revision =>
           /\ s.dev = d /\ revision = snap[d].revision
           /\ tree \in Trees => tree = s.tree
           /\ signature \in {s.tree, NoSignature}
      /\ \A s \in shown : s.rev < nextRevision'
  <2>1. \A s \in shown : s.rev < nextRevision /\ s.rev \in Nat
    BY DEF SnapshotInv, Revisions
  <2> SUFFICES ASSUME NEW s \in shown, s.rev = revision
               PROVE  /\ s.dev = d /\ revision = snap[d].revision
                      /\ tree \in Trees => tree = s.tree
                      /\ signature \in {s.tree, NoSignature}
    BY <1>2, <2>1
  <2>2. revision = snap[d].revision /\ signature \in {NoSignature, snap[d].signature}
    BY <1>1, <1>2, <2>1
  <2>3. s.dev = d /\ snap[d].signature \in {s.tree, NoSignature} /\ s.tree \in Trees
    BY <2>2 DEF SnapshotInv
  <2>4. tree \in Trees => signature = tree /\ tree # NoSignature
    BY MarksDiffer DEF Reads, Marks
  <2> QED BY <2>2, <2>3, <2>4
<1>5. \A e \in UiDevices :
        /\ snap'[e] = [old |-> snap'[e].old, revision |-> snap'[e].revision,
                       signature |-> snap'[e].signature, history |-> snap'[e].history]
        /\ snap'[e].revision \in Nat /\ snap'[e].revision < nextRevision'
        /\ \A r \in DOMAIN snap'[e].history :
             /\ r \in Nat /\ r < nextRevision'
             /\ snap'[e].history[r] = [elements |-> snap'[e].history[r].elements,
                                       over |-> snap'[e].history[r].over,
                                       old |-> snap'[e].history[r].old]
  <2> SUFFICES ASSUME NEW e \in UiDevices
               PROVE /\ snap'[e] = [old |-> snap'[e].old, revision |-> snap'[e].revision,
                           signature |-> snap'[e].signature, history |-> snap'[e].history]
                     /\ snap'[e].revision \in Nat /\ snap'[e].revision < nextRevision'
                     /\ \A r \in DOMAIN snap'[e].history :
                          /\ r \in Nat /\ r < nextRevision'
                          /\ snap'[e].history[r] = [elements |-> snap'[e].history[r].elements,
                                       over |-> snap'[e].history[r].over,
                                       old |-> snap'[e].history[r].old]
    OBVIOUS
  <2>1. CASE e # d
    <3>1. /\ snap[e] = [old |-> snap[e].old, revision |-> snap[e].revision,
                       signature |-> snap[e].signature, history |-> snap[e].history]
          /\ snap[e].revision \in Nat /\ snap[e].revision < nextRevision
          /\ \A r \in DOMAIN snap[e].history :
               /\ r \in Nat /\ r < nextRevision
               /\ snap[e].history[r] = [elements |-> snap[e].history[r].elements,
                                        over |-> snap[e].history[r].over,
                                        old |-> snap[e].history[r].old]
      BY DEF SnapshotInv
    <3>2. snap'[e] = snap[e]
      BY <1>3, <2>1
    <3> QED BY <1>2, <3>1, <3>2
  <2>2. CASE e = d
    <3>1. \A r \in DOMAIN history :
            /\ r \in Nat /\ r < nextRevision'
            /\ history[r] = [elements |-> history[r].elements, over |-> history[r].over,
                             old |-> history[r].old]
      <4> SUFFICES ASSUME NEW r \in DOMAIN history
                   PROVE  /\ r \in Nat /\ r < nextRevision'
                          /\ history[r] = [elements |-> history[r].elements,
                                           over |-> history[r].over, old |-> history[r].old]
        OBVIOUS
      <4>1. CASE r = revision /\ history[r] = [elements |-> Records(tree),
                                              over |-> Oversized(tree), old |-> FALSE]
        <5>1. PICK x, y : history[r] = [elements |-> x, over |-> y, old |-> FALSE]
          BY <4>1
        <5> QED BY <1>2, <4>1, <5>1
      <4>2. CASE r \in DOMAIN snap[d].history /\ history[r] = snap[d].history[r]
        <5>1. /\ r \in Nat /\ r < nextRevision
              /\ snap[d].history[r] = [elements |-> snap[d].history[r].elements,
                                       over |-> snap[d].history[r].over,
                                       old |-> snap[d].history[r].old]
          BY <4>2 DEF SnapshotInv
        <5> QED BY <1>2, <4>2, <5>1
      <4> QED BY <1>1, <4>1, <4>2
    <3> QED BY <1>2, <1>3, <2>2, <3>1
  <2> QED BY <2>1, <2>2
<1>6. \A e, f \in UiDevices :
        snap'[e].revision = snap'[f].revision => e = f \/ snap'[e].revision = 0
  BY <1>1, <1>2, <1>3 DEF SnapshotInv
<1>7. \/ shown' = shown /\ since' = since
      \/ /\ tree \in Trees
         /\ shown' = shown \cup {[rev |-> revision, dev |-> d, tree |-> tree]}
         /\ since' = [r \in Revisions |->
              IF \E s \in shown' : s.rev = r /\ s.dev = d THEN since[r] \cup {tree}
              ELSE since[r]]
  BY <1>3, MarksDiffer DEF Show, Reads, Marks
<1>8. \A s \in shown :
        /\ s = [rev |-> s.rev, dev |-> s.dev, tree |-> s.tree]
        /\ s.rev \in Revisions /\ s.dev \in UiDevices /\ s.tree \in Trees
        /\ s.rev \in DOMAIN snap'[s.dev].history =>
             /\ snap'[s.dev].history[s.rev].elements = Records(s.tree)
             /\ snap'[s.dev].history[s.rev].over = Oversized(s.tree)
        /\ s.rev = snap'[s.dev].revision =>
             /\ snap'[s.dev].signature \in {s.tree, NoSignature}
             /\ s.rev = snap[s.dev].revision /\ since[s.rev] = {s.tree}
        /\ \A e \in UiDevices : s.rev = snap'[e].revision => s.dev = e
  <2> SUFFICES ASSUME NEW s \in shown
               PROVE /\ s = [rev |-> s.rev, dev |-> s.dev, tree |-> s.tree]
                     /\ s.rev \in Revisions /\ s.dev \in UiDevices /\ s.tree \in Trees
                     /\ s.rev \in DOMAIN snap'[s.dev].history =>
                          /\ snap'[s.dev].history[s.rev].elements = Records(s.tree)
                          /\ snap'[s.dev].history[s.rev].over = Oversized(s.tree)
                     /\ s.rev = snap'[s.dev].revision =>
                          /\ snap'[s.dev].signature \in {s.tree, NoSignature}
                          /\ s.rev = snap[s.dev].revision /\ since[s.rev] = {s.tree}
                     /\ \A e \in UiDevices : s.rev = snap'[e].revision => s.dev = e
    OBVIOUS
  <2>1. /\ s = [rev |-> s.rev, dev |-> s.dev, tree |-> s.tree]
        /\ s.rev \in Revisions /\ s.dev \in UiDevices /\ s.tree \in Trees
        /\ s.rev \in DOMAIN snap[s.dev].history =>
             /\ snap[s.dev].history[s.rev].elements = Records(s.tree)
             /\ snap[s.dev].history[s.rev].over = Oversized(s.tree)
        /\ s.rev = snap[s.dev].revision =>
             /\ snap[s.dev].signature \in {s.tree, NoSignature}
             /\ since[s.rev] = {s.tree}
        /\ \A e \in UiDevices : s.rev = snap[e].revision => s.dev = e
    BY DEF SnapshotInv, Keeps
  <2>2. CASE s.dev # d
    BY <1>3, <1>4, <2>1, <2>2
  <2>3. CASE s.dev = d
    <3>1. s.rev \in DOMAIN history =>
             /\ history[s.rev].elements = Records(s.tree)
             /\ history[s.rev].over = Oversized(s.tree)
      BY <1>1, <1>4, <2>1, <2>3
    <3>2. s.rev = revision => /\ signature \in {s.tree, NoSignature}
                              /\ s.rev = snap[s.dev].revision
      BY <1>4, <2>3
    <3> QED BY <1>3, <1>4, <2>1, <2>3, <3>1, <3>2
  <2> QED BY <2>2, <2>3
<1>9. /\ \A s, u \in shown : s.rev = u.rev => s.dev = u.dev
      /\ since = [r \in Revisions |-> since[r]]
      /\ \A r \in Revisions : (\A s \in shown : s.rev # r) => since[r] = {}
  BY DEF SnapshotInv
<1>10. CASE shown' = shown /\ since' = since
  BY <1>2, <1>3, <1>4, <1>5, <1>6, <1>8, <1>9, <1>10 DEF SnapshotInv, Keeps, Revisions
<1>11. CASE /\ tree \in Trees
            /\ shown' = shown \cup {[rev |-> revision, dev |-> d, tree |-> tree]}
            /\ since' = [r \in Revisions |->
                 IF \E s \in shown' : s.rev = r /\ s.dev = d THEN since[r] \cup {tree}
                 ELSE since[r]]
  <2>1. PICK n : n = [rev |-> revision, dev |-> d, tree |-> tree]
    OBVIOUS
  <2>2. /\ shown' = shown \cup {n} /\ n.rev = revision /\ n.dev = d /\ n.tree = tree
        /\ n = [rev |-> n.rev, dev |-> n.dev, tree |-> n.tree]
    BY <1>11, <2>1
  <2>3. signature = tree
    BY <1>11, MarksDiffer DEF Reads, Marks
  <2>4. revision \in DOMAIN history =>
          history[revision].elements = Records(tree) /\ history[revision].over = Oversized(tree)
    BY <1>1, <1>11, MarksDiffer DEF Marks
  <2>5. \A s, u \in shown' : s.rev = u.rev => s.dev = u.dev
    BY <1>4, <1>9, <2>2
  <2>6. since'[revision] = {tree}
    <3>1. since'[revision] = since[revision] \cup {tree}
      BY <1>1, <1>11, <2>2
    <3>2. CASE \A s \in shown : s.rev # revision
      BY <1>1, <1>9, <3>1, <3>2
    <3>3. ASSUME NEW s \in shown, s.rev = revision PROVE since'[revision] = {tree}
      <4>1. s.dev = d /\ snap'[d].revision = revision /\ tree = s.tree
        BY <1>3, <1>4, <1>11, <3>3
      <4>2. since[s.rev] = {s.tree}
        BY <1>8, <3>3, <4>1
      <4> QED BY <3>1, <3>3, <4>1, <4>2
    <3> QED BY <3>2, <3>3
  <2>7. \A s \in shown : s.rev = snap'[s.dev].revision => since'[s.rev] = {s.tree}
    <3> SUFFICES ASSUME NEW s \in shown, s.rev = snap'[s.dev].revision
                 PROVE  since'[s.rev] = {s.tree}
      OBVIOUS
    <3>1. CASE s.dev = d
      BY <1>3, <1>4, <1>11, <2>6, <3>1
    <3>2. CASE s.dev # d
      <4>1. ~\E u \in shown' : u.rev = s.rev /\ u.dev = d
        BY <2>2, <2>5, <3>2
      <4>2. since'[s.rev] = since[s.rev]
        BY <1>8, <1>11, <4>1
      <4> QED BY <1>8, <4>2
    <3> QED BY <3>1, <3>2
  <2>8. \A r \in Revisions : (\A s \in shown' : s.rev # r) => since'[r] = {}
    <3> SUFFICES ASSUME NEW r \in Revisions, \A s \in shown' : s.rev # r
                 PROVE  since'[r] = {}
      OBVIOUS
    <3> QED BY <1>9, <1>11, <2>2
  <2>9. since' = [r \in Revisions |-> since'[r]]
    BY <1>11
  <2>10. \A s \in shown' :
       /\ s = [rev |-> s.rev, dev |-> s.dev, tree |-> s.tree]
       /\ s.rev \in Revisions /\ s.rev < nextRevision' /\ s.dev \in UiDevices /\ s.tree \in Trees
       /\ s.rev \in DOMAIN snap'[s.dev].history =>
            /\ snap'[s.dev].history[s.rev].elements = Records(s.tree)
            /\ snap'[s.dev].history[s.rev].over = Oversized(s.tree)
       /\ s.rev = snap'[s.dev].revision =>
            /\ snap'[s.dev].signature \in {s.tree, NoSignature}
            /\ since'[s.rev] = {s.tree}
       /\ \A e \in UiDevices : s.rev = snap'[e].revision => s.dev = e
    <3>1. ASSUME NEW s \in shown
          PROVE  /\ s = [rev |-> s.rev, dev |-> s.dev, tree |-> s.tree]
                 /\ s.rev \in Revisions /\ s.rev < nextRevision' /\ s.dev \in UiDevices
                 /\ s.tree \in Trees
                 /\ s.rev \in DOMAIN snap'[s.dev].history =>
                     /\ snap'[s.dev].history[s.rev].elements = Records(s.tree)
                     /\ snap'[s.dev].history[s.rev].over = Oversized(s.tree)
                 /\ s.rev = snap'[s.dev].revision =>
                     /\ snap'[s.dev].signature \in {s.tree, NoSignature}
                     /\ since'[s.rev] = {s.tree}
                 /\ \A e \in UiDevices : s.rev = snap'[e].revision => s.dev = e
      BY <1>4, <1>8, <2>7
    <3>2. \A e \in UiDevices : n.rev = snap'[e].revision => n.dev = e
      BY <1>2, <1>3, <1>6, <2>2
    <3>3. snap'[d].history = history /\ snap'[d].signature = tree
      BY <1>3, <2>3
    <3>4. /\ n.rev \in Revisions /\ n.rev < nextRevision' /\ n.dev \in UiDevices
          /\ n.tree \in Trees
          /\ n.rev \in DOMAIN snap'[n.dev].history =>
              /\ snap'[n.dev].history[n.rev].elements = Records(n.tree)
              /\ snap'[n.dev].history[n.rev].over = Oversized(n.tree)
          /\ snap'[n.dev].signature \in {n.tree, NoSignature}
          /\ since'[n.rev] = {n.tree}
      BY <1>1, <1>2, <1>11, <2>2, <2>4, <2>6, <3>3
    <3> QED BY <2>2, <3>1, <3>2, <3>4
  <2> QED BY <1>2, <1>3, <1>5, <1>6, <2>5, <2>8, <2>9, <2>10 DEF SnapshotInv, Keeps, Revisions
<1> QED BY <1>7, <1>10, <1>11

\* The condition that is being checked expects a revision its device returned.
CheckInv ==
  /\ check = [st |-> check.st, dev |-> check.dev, want |-> check.want]
  /\ check.st = "reading" =>
       /\ check.dev \in UiDevices
       /\ \E s \in shown : s.dev = check.dev /\ s.rev = check.want

\* A state that forgets its revision or some of its history is no threat.
LEMMA LessKept ==
  ASSUME SnapshotInv, NEW d \in UiDevices, NEW state,
         state = [old |-> state.old, revision |-> state.revision,
                  signature |-> state.signature, history |-> state.history],
         \/ state.revision = 0
         \/ state.revision = snap[d].revision /\ state.signature = snap[d].signature,
         \A r \in DOMAIN state.history :
           /\ r \in DOMAIN snap[d].history
           /\ state.history[r] = [elements |-> snap[d].history[r].elements,
                                  over |-> snap[d].history[r].over,
                                  old |-> state.history[r].old],
         DOMAIN snap' = UiDevices, snap'[d] = state,
         \A e \in UiDevices : e # d => snap'[e] = snap[e],
         UNCHANGED <<nextRevision, held, shown, since>>
  PROVE  SnapshotInv'
<1>1. /\ DOMAIN snap' = UiDevices /\ snap'[d] = state
      /\ \A e \in UiDevices : e # d => snap'[e] = snap[e]
  OBVIOUS
<1>2. /\ state.revision \in Nat /\ state.revision < nextRevision
      /\ \A r \in DOMAIN state.history :
           /\ r \in Nat /\ r < nextRevision
           /\ state.history[r].elements = snap[d].history[r].elements
           /\ state.history[r].over = snap[d].history[r].over
           /\ state.history[r] = [elements |-> state.history[r].elements,
                                  over |-> state.history[r].over,
                                  old |-> state.history[r].old]
  <2>1. \A r \in DOMAIN state.history :
           /\ r \in Nat /\ r < nextRevision
           /\ state.history[r].elements = snap[d].history[r].elements
           /\ state.history[r].over = snap[d].history[r].over
    <3> SUFFICES ASSUME NEW r \in DOMAIN state.history
                 PROVE  /\ r \in Nat /\ r < nextRevision
                        /\ state.history[r].elements = snap[d].history[r].elements
                        /\ state.history[r].over = snap[d].history[r].over
      OBVIOUS
    <3>1. r \in DOMAIN snap[d].history
      OBVIOUS
    <3>2. r \in Nat /\ r < nextRevision
      BY <3>1 DEF SnapshotInv
    <3>3. state.history[r] = [elements |-> snap[d].history[r].elements,
                              over |-> snap[d].history[r].over, old |-> state.history[r].old]
      OBVIOUS
    <3> QED BY <3>2, <3>3
  <2>2. state.revision \in Nat /\ state.revision < nextRevision
    BY DEF SnapshotInv
  <2>3. \A r \in DOMAIN state.history :
           state.history[r] = [elements |-> state.history[r].elements,
                               over |-> state.history[r].over, old |-> state.history[r].old]
    OBVIOUS
  <2> QED BY <2>1, <2>2, <2>3
<1>3. \A e \in UiDevices :
       /\ snap'[e] = [old |-> snap'[e].old, revision |-> snap'[e].revision,
                      signature |-> snap'[e].signature, history |-> snap'[e].history]
       /\ snap'[e].revision \in Nat /\ snap'[e].revision < nextRevision
       /\ \A r \in DOMAIN snap'[e].history :
            /\ r \in Nat /\ r < nextRevision
            /\ snap'[e].history[r] = [elements |-> snap'[e].history[r].elements,
                                     over |-> snap'[e].history[r].over,
                                     old |-> snap'[e].history[r].old]
  <2>1. ASSUME NEW e \in UiDevices, e # d
        PROVE /\ snap'[e] = [old |-> snap'[e].old, revision |-> snap'[e].revision,
                      signature |-> snap'[e].signature, history |-> snap'[e].history]
              /\ snap'[e].revision \in Nat /\ snap'[e].revision < nextRevision
              /\ \A r \in DOMAIN snap'[e].history :
                   /\ r \in Nat /\ r < nextRevision
                   /\ snap'[e].history[r] = [elements |-> snap'[e].history[r].elements,
                                     over |-> snap'[e].history[r].over,
                                     old |-> snap'[e].history[r].old]
    <3>1. snap'[e] = snap[e]
      BY <1>1, <2>1
    <3>2. /\ snap[e] = [old |-> snap[e].old, revision |-> snap[e].revision,
                       signature |-> snap[e].signature, history |-> snap[e].history]
          /\ snap[e].revision \in Nat /\ snap[e].revision < nextRevision
          /\ \A r \in DOMAIN snap[e].history :
               /\ r \in Nat /\ r < nextRevision
               /\ snap[e].history[r] = [elements |-> snap[e].history[r].elements,
                                        over |-> snap[e].history[r].over,
                                        old |-> snap[e].history[r].old]
      BY DEF SnapshotInv
    <3> QED BY <3>1, <3>2
  <2> QED BY <1>1, <1>2, <2>1
<1>4. \A e, f \in UiDevices :
        snap'[e].revision = snap'[f].revision => e = f \/ snap'[e].revision = 0
  BY <1>1 DEF SnapshotInv
<1>5. \A s \in shown :
        /\ s.rev # 0 /\ s.dev \in UiDevices
        /\ s.rev \in DOMAIN snap'[s.dev].history =>
             /\ snap'[s.dev].history[s.rev].elements = Records(s.tree)
             /\ snap'[s.dev].history[s.rev].over = Oversized(s.tree)
        /\ s.rev = snap'[s.dev].revision =>
             /\ snap'[s.dev].signature \in {s.tree, NoSignature}
             /\ since[s.rev] = {s.tree}
        /\ \A e \in UiDevices : s.rev = snap'[e].revision => s.dev = e
  <2> SUFFICES ASSUME NEW s \in shown
               PROVE /\ s.rev # 0 /\ s.dev \in UiDevices
                     /\ s.rev \in DOMAIN snap'[s.dev].history =>
                          /\ snap'[s.dev].history[s.rev].elements = Records(s.tree)
                          /\ snap'[s.dev].history[s.rev].over = Oversized(s.tree)
                     /\ s.rev = snap'[s.dev].revision =>
                          /\ snap'[s.dev].signature \in {s.tree, NoSignature}
                          /\ since[s.rev] = {s.tree}
                     /\ \A e \in UiDevices : s.rev = snap'[e].revision => s.dev = e
    OBVIOUS
  <2>1. /\ s.rev # 0 /\ s.dev \in UiDevices
        /\ s.rev \in DOMAIN snap[s.dev].history =>
             /\ snap[s.dev].history[s.rev].elements = Records(s.tree)
             /\ snap[s.dev].history[s.rev].over = Oversized(s.tree)
        /\ s.rev = snap[s.dev].revision =>
             /\ snap[s.dev].signature \in {s.tree, NoSignature}
             /\ since[s.rev] = {s.tree}
        /\ \A e \in UiDevices : s.rev = snap[e].revision => s.dev = e
    <3>1. s.rev # 0
      BY DEF SnapshotInv, Revisions
    <3> QED BY <3>1 DEF SnapshotInv, Keeps
  <2> QED BY <1>1, <1>2, <2>1
<1> QED BY <1>1, <1>3, <1>4, <1>5 DEF SnapshotInv, Keeps, Revisions

\* Time and a lost device take from what is kept and add nothing.
LEMMA ForgetKeeps ==
  ASSUME SnapshotInv, NEW d \in UiDevices, Disconnect(d) \/ Ages(d)
  PROVE  SnapshotInv'
<1>1. /\ UNCHANGED <<nextRevision, held, shown, since>>
      /\ DOMAIN snap = UiDevices
      /\ snap[d] = [old |-> snap[d].old, revision |-> snap[d].revision,
                    signature |-> snap[d].signature, history |-> snap[d].history]
      /\ \A r \in DOMAIN snap[d].history :
           snap[d].history[r] = [elements |-> snap[d].history[r].elements,
                                 over |-> snap[d].history[r].over,
                                 old |-> snap[d].history[r].old]
  BY DEF Disconnect, Ages, SnapshotInv
<1>2. CASE Disconnect(d)
  <2>1. PICK state : state = NoState
    OBVIOUS
  <2>2. /\ state = [old |-> state.old, revision |-> state.revision,
                    signature |-> state.signature, history |-> state.history]
        /\ state.revision = 0 /\ DOMAIN state.history = {}
    BY <2>1 DEF NoState
  <2>3. /\ DOMAIN snap' = UiDevices /\ snap'[d] = state
        /\ \A e \in UiDevices : e # d => snap'[e] = snap[e]
    BY <1>1, <1>2, <2>1 DEF Disconnect
  <2> QED BY <1>1, <2>2, <2>3, LessKept
<1>3. ASSUME NEW r \in DOMAIN snap[d].history, snap' = [snap EXCEPT ![d].history[r].old = TRUE]
      PROVE  SnapshotInv'
  <2>1. PICK history : history = [snap[d].history EXCEPT ![r].old = TRUE]
    OBVIOUS
  <2>2. /\ DOMAIN history = DOMAIN snap[d].history
        /\ history[r] = [elements |-> snap[d].history[r].elements,
                         over |-> snap[d].history[r].over, old |-> TRUE]
        /\ \A q \in DOMAIN snap[d].history : q # r => history[q] = snap[d].history[q]
    <3>1. PICK entry : entry = snap[d].history[r]
      OBVIOUS
    <3>2. entry = [elements |-> entry.elements, over |-> entry.over, old |-> entry.old]
      BY <1>1, <3>1
    <3>3. history[r] = [entry EXCEPT !.old = TRUE]
      BY <2>1, <3>1
    <3>4. history[r] = [elements |-> entry.elements, over |-> entry.over, old |-> TRUE]
      BY <3>2, <3>3
    <3>5. /\ DOMAIN history = DOMAIN snap[d].history
          /\ \A q \in DOMAIN snap[d].history : q # r => history[q] = snap[d].history[q]
      BY <2>1
    <3> QED BY <3>1, <3>4, <3>5
  <2>3. PICK state : state = [old |-> snap[d].old, revision |-> snap[d].revision,
                              signature |-> snap[d].signature, history |-> history]
    OBVIOUS
  <2>4. /\ DOMAIN snap' = UiDevices /\ snap'[d] = state
        /\ \A e \in UiDevices : e # d => snap'[e] = snap[e]
    <3>1. snap' = [snap EXCEPT ![d].history = history]
      BY <1>3, <2>1
    <3>2. PICK old : old = snap[d]
      OBVIOUS
    <3>3. snap'[d] = [old EXCEPT !.history = history]
      BY <1>1, <3>1, <3>2
    <3>4. old = [old |-> old.old, revision |-> old.revision,
                 signature |-> old.signature, history |-> old.history]
      BY <1>1, <3>2
    <3>5. snap'[d] = [old |-> old.old, revision |-> old.revision,
                      signature |-> old.signature, history |-> history]
      BY <3>3, <3>4
    <3> QED BY <1>1, <2>3, <3>1, <3>2, <3>5
  <2>5. \A q \in DOMAIN history : history[q] = [elements |-> snap[d].history[q].elements,
                                               over |-> snap[d].history[q].over,
                                               old |-> history[q].old]
    <3> SUFFICES ASSUME NEW q \in DOMAIN history
                 PROVE  history[q] = [elements |-> snap[d].history[q].elements,
                                      over |-> snap[d].history[q].over, old |-> history[q].old]
      OBVIOUS
    <3>1. CASE q = r
      BY <2>2, <3>1
    <3>2. CASE q # r
      BY <1>1, <2>2, <3>2
    <3> QED BY <3>1, <3>2
  <2> QED BY <1>1, <2>2, <2>3, <2>4, <2>5, LessKept
<1>4. CASE snap' = [snap EXCEPT ![d].old = TRUE]
  <2>1. PICK state : state = [old |-> TRUE, revision |-> snap[d].revision,
                              signature |-> snap[d].signature, history |-> snap[d].history]
    OBVIOUS
  <2>2. /\ DOMAIN snap' = UiDevices /\ snap'[d] = state
        /\ \A e \in UiDevices : e # d => snap'[e] = snap[e]
    <3>1. PICK old : old = snap[d]
      OBVIOUS
    <3>2. snap'[d] = [old EXCEPT !.old = TRUE]
      BY <1>1, <1>4, <3>1
    <3>3. old = [old |-> old.old, revision |-> old.revision,
                 signature |-> old.signature, history |-> old.history]
      BY <1>1, <3>1
    <3>4. snap'[d] = [old |-> TRUE, revision |-> old.revision,
                      signature |-> old.signature, history |-> old.history]
      BY <3>2, <3>3
    <3> QED BY <1>1, <1>4, <2>1, <3>1, <3>4
  <2> QED BY <1>1, <2>1, <2>2, LessKept
<1> QED BY <1>2, <1>3, <1>4 DEF Ages

\* The signature of a tree is the tree.
LEMMA SignatureReads ==
  ASSUME NEW tree \in Trees \cup {Failed}
  PROVE  Reads(tree, Signature(tree))
BY MarksDiffer DEF Reads, Signature, Marks

\* Every step keeps the invariant, and a match was returned unchanged ever since.
LEMMA SnapshotStep ==
  ASSUME SnapshotInv, CheckInv, [SnapshotNext]_snapshotVars
  PROVE  /\ SnapshotInv' /\ CheckInv'
         /\ check.st = "reading" /\ check'.st = "matched" =>
              \E s \in shown : /\ s.dev = check.dev /\ s.rev = check.want
                               /\ since'[check.want] = {s.tree}
<1> DEFINE Unmatched == ~(check.st = "reading" /\ check'.st = "matched")
<1>1. ASSUME NEW d \in UiDevices, NEW tree \in Trees \cup {Failed},
             Derive(d, tree, Signature(tree)), Show(d, tree), UNCHANGED held
      PROVE  SnapshotInv' /\ shown \subseteq shown'
  <2>1. \A e \in UiDevices : held'[e] \in Trees \cup {Failed, NoSignature}
    BY <1>1 DEF SnapshotInv
  <2>2. DOMAIN held' = UiDevices
    BY <1>1 DEF SnapshotInv
  <2>3. SnapshotInv'
    BY <1>1, <2>1, <2>2, SignatureReads, DeriveKeeps
  <2> QED BY <1>1, <2>3 DEF Show
<1>2. ASSUME NEW d \in UiDevices, ReadTree(d) PROVE SnapshotInv' /\ CheckInv' /\ Unmatched
  <2>1. check' = check /\ held' = held
    BY <1>2 DEF ReadTree
  <2>2. SnapshotInv' /\ shown \subseteq shown'
    BY <1>1, <1>2, <2>1 DEF ReadTree
  <2> QED BY <2>1, <2>2 DEF CheckInv
<1>3. ASSUME NEW d \in UiDevices, CollectSnapshot(d) PROVE SnapshotInv' /\ CheckInv' /\ Unmatched
  <2>1. PICK tree \in Trees \cup {Failed} :
          /\ Derive(d, tree, Signature(tree)) /\ Show(d, tree)
          /\ held' = [held EXCEPT ![d] = tree]
    BY <1>3 DEF CollectSnapshot
  <2>2. /\ DOMAIN held' = UiDevices
        /\ \A e \in UiDevices : held'[e] \in Trees \cup {Failed, NoSignature}
    BY <2>1 DEF SnapshotInv
  <2>3. SnapshotInv'
    BY <2>1, <2>2, SignatureReads, DeriveKeeps
  <2>4. shown \subseteq shown' /\ check' = check
    BY <1>3, <2>1 DEF Show, CollectSnapshot
  <2> QED BY <2>3, <2>4 DEF CheckInv
<1>4. ASSUME NEW d \in UiDevices, SnapshotMetadata(d)
      PROVE  SnapshotInv' /\ CheckInv' /\ Unmatched
  <2>1. /\ held[d] # NoSignature /\ held' = [held EXCEPT ![d] = NoSignature]
        /\ UNCHANGED <<check, shown, since>>
        /\ \/ Derive(d, held[d], Signature(held[d]))
           \/ held[d] = Failed /\ Derive(d, Failed, Fingerprint)
    BY <1>4 DEF SnapshotMetadata
  <2>2. /\ DOMAIN held' = UiDevices /\ held[d] \in Trees \cup {Failed}
        /\ \A e \in UiDevices : held'[e] \in Trees \cup {Failed, NoSignature}
    BY <2>1 DEF SnapshotInv
  <2>3. CASE Derive(d, held[d], Signature(held[d]))
    <3>1. Reads(held[d], Signature(held[d]))
      BY <2>2, SignatureReads
    <3> QED BY <2>1, <2>2, <2>3, <3>1, DeriveKeeps DEF CheckInv
  <2>4. CASE Derive(d, Failed, Fingerprint)
    <3>1. Reads(Failed, Fingerprint)
      BY DEF Reads
    <3> QED BY <2>1, <2>2, <2>4, <3>1, DeriveKeeps DEF CheckInv
  <2> QED BY <2>1, <2>3, <2>4
<1>5. ASSUME NEW d \in UiDevices, Disconnect(d) \/ Ages(d)
      PROVE  SnapshotInv' /\ CheckInv' /\ Unmatched
  <2>1. UNCHANGED <<check, shown>>
    BY <1>5 DEF Disconnect, Ages
  <2> QED BY <1>5, <2>1, ForgetKeeps DEF CheckInv
<1>6. ASSUME NEW d \in UiDevices, CheckStarts(d) PROVE SnapshotInv' /\ CheckInv' /\ Unmatched
  <2>1. UNCHANGED <<snap, nextRevision, held, shown, since>> /\ check.st # "reading"
    BY <1>6 DEF CheckStarts
  <2>2. PICK s \in shown, ok \in BOOLEAN :
          s.dev = d /\ check' = IF ok THEN [dev |-> d, want |-> s.rev, st |-> "reading"]
                                ELSE [dev |-> d, want |-> 0, st |-> "unavailable"]
    BY <1>6 DEF CheckStarts
  <2> QED BY <2>1, <2>2 DEF SnapshotInv, CheckInv, Keeps
<1>7. ASSUME CheckReadEnds
      PROVE  /\ SnapshotInv' /\ CheckInv'
             /\ check'.st = "matched" =>
                  \E s \in shown : /\ s.dev = check.dev /\ s.rev = check.want
                                   /\ since'[check.want] = {s.tree}
  <2>1. check.st = "reading" /\ held' = held /\ check.dev \in UiDevices
    BY <1>7 DEF CheckReadEnds, CheckInv
  <2>2. CASE /\ check' = [check EXCEPT !.want = 0, !.st = "unavailable"]
             /\ UNCHANGED <<snap, nextRevision, shown, since>>
    BY <2>1, <2>2 DEF SnapshotInv, CheckInv, Keeps
  <2>3. CASE \E tree \in Trees \cup {Failed} :
               /\ Derive(check.dev, tree, Signature(tree)) /\ Show(check.dev, tree)
               /\ check' = [check EXCEPT !.want = 0, !.st =
                    IF Matches(tree) THEN "matched"
                    ELSE IF tree = Failed THEN "unavailable" ELSE "mismatch"]
    <3>1. PICK tree \in Trees \cup {Failed} :
               /\ Derive(check.dev, tree, Signature(tree)) /\ Show(check.dev, tree)
               /\ check' = [check EXCEPT !.want = 0, !.st =
                    IF Matches(tree) THEN "matched"
                    ELSE IF tree = Failed THEN "unavailable" ELSE "mismatch"]
      BY <2>3
    <3>2. SnapshotInv' /\ shown \subseteq shown'
      BY <1>1, <2>1, <3>1
    <3>3. CheckInv'
      BY <3>1 DEF CheckInv
    <3>4. PICK s \in shown : s.dev = check.dev /\ s.rev = check.want
      BY <2>1 DEF CheckInv
    <3>5. ASSUME check'.st = "matched" PROVE since'[check.want] = {s.tree}
      <4>1. snap'[check.dev].revision = check.want
        BY <3>1, <3>5 DEF Matches, CheckInv
      <4>2. s \in shown' /\ s.rev = snap'[s.dev].revision
        BY <3>2, <3>4, <4>1
      <4> QED BY <3>2, <3>4, <4>2 DEF SnapshotInv
    <3> QED BY <3>2, <3>3, <3>4, <3>5
  <2> QED BY <1>7, <2>2, <2>3 DEF CheckReadEnds
<1>8. CASE UNCHANGED snapshotVars
  BY <1>8 DEF snapshotVars, SnapshotInv, CheckInv, Keeps
<1> QED BY <1>2, <1>3, <1>4, <1>5, <1>6, <1>7, <1>8 DEF SnapshotNext

\* The first state is one of the invariant.
LEMMA SnapshotStart == SnapshotInit => SnapshotInv /\ CheckInv
<1> DEFINE some == CHOOSE d \in UiDevices : TRUE
<1> HIDE DEF some
<1> SUFFICES ASSUME SnapshotInit PROVE SnapshotInv /\ CheckInv
  OBVIOUS
<1>1. /\ snap = [d \in UiDevices |-> NoState] /\ nextRevision = 1
      /\ held = [d \in UiDevices |-> NoSignature]
      /\ check = [st |-> "idle", dev |-> some, want |-> 0]
      /\ shown = {} /\ since = [r \in Revisions |-> {}]
  BY DEF SnapshotInit, some
<1>2. /\ NoState = [old |-> TRUE, revision |-> 0, signature |-> NoSignature,
                    history |-> NoState.history]
      /\ DOMAIN NoState.history = {}
  BY DEF NoState
<1> QED BY <1>1, <1>2 DEF SnapshotInv, CheckInv

\* A delta that is not truncated turns the tree shown as the base revision into the one
\* shown as the current revision, whatever was read, evicted or aged in between.
\* (snapshot-metadata.ts, getStateDelta)
THEOREM DeltasSound == SnapshotSpec => []DeltaIsSound
<1>1. SnapshotInv => DeltaIsSound
  BY DeltaApplies DEF DeltaIsSound
<1>2. SnapshotInv /\ CheckInv /\ [SnapshotNext]_snapshotVars => SnapshotInv' /\ CheckInv'
  BY SnapshotStep
<1> QED BY <1>1, <1>2, SnapshotStart, PTL DEF SnapshotSpec

\* A conditional input goes out only when the trees returned since the expected revision
\* all are the one just read.  (conditional-action.ts, beforeInputDispatch)
THEOREM MatchesUnchanged == SnapshotSpec => MatchMeansUnchanged
<1>1. SnapshotInv /\ CheckInv /\ [SnapshotNext]_snapshotVars => SnapshotInv' /\ CheckInv'
  BY SnapshotStep
<1>2. SnapshotInv /\ CheckInv /\ [SnapshotNext]_snapshotVars =>
        [check.st = "reading" /\ check'.st = "matched" =>
          \E s \in shown : /\ s.dev = check.dev /\ s.rev = check.want
                           /\ since'[check.want] = {s.tree}]_snapshotVars
  BY SnapshotStep
<1> QED BY <1>1, <1>2, SnapshotStart, PTL DEF SnapshotSpec, MatchMeansUnchanged

----------------------------------------------------------------------------
(* Orders of dispatches *)

AnyDevice == EvDevices \cup {NoDevice}
OrderRecord == [seq : Nat, active : Nat, last : Nat]

\* The dispatches that are under way with an order.
Under(i) == {a \in Actions : dispatch[a].on /\ dispatch[a].ord = i}

\* An order belongs to one device at most and counts the dispatches under way; the
\* device of a dispatch that is under way keeps its order.
OrderInv ==
  /\ order \in Seq(OrderRecord)
  /\ orders \in [EvDevices -> 0..Len(order)]
  /\ \A d, e \in EvDevices : orders[d] = orders[e] => d = e \/ orders[d] = 0
  /\ dispatch \in [Actions -> [on : BOOLEAN, dev : AnyDevice, ord : Nat]]
  /\ \A i \in 1..Len(order) :
       IsFiniteSet(Under(i)) /\ order[i].active = Cardinality(Under(i))
  /\ \A a \in Actions : dispatch[a].on =>
       /\ dispatch[a].dev \in EvDevices /\ dispatch[a].ord \in 1..Len(order)
       /\ orders[dispatch[a].dev] = dispatch[a].ord

\* Asking for a device's order evicts idle orders only.  (orderFor)
LEMMA OrderUsed ==
  ASSUME OrderInv, NEW d \in EvDevices, UsesOrder(d)
  PROVE  /\ Len(order) \in Nat /\ Len(Made(d)) \in Nat /\ Len(order) <= Len(Made(d))
         /\ Made(d) \in Seq(OrderRecord)
         /\ OrderOf(d) \in 1..Len(Made(d)) /\ orders' \in [EvDevices -> 0..Len(Made(d))]
         /\ orders'[d] = OrderOf(d)
         /\ \A i \in 1..Len(order) : Made(d)[i] = order[i]
         /\ \/ /\ OrderOf(d) \in 1..Len(order) /\ orders[d] = OrderOf(d)
               /\ Len(Made(d)) = Len(order)
            \/ /\ orders[d] = 0 /\ OrderOf(d) = Len(order) + 1 /\ Len(Made(d)) = Len(order) + 1
               /\ Made(d)[OrderOf(d)] = Unmade
         /\ \A e \in EvDevices \ {d} :
              orders'[e] = orders[e] \/ (orders'[e] = 0 /\ order[orders[e]].active = 0)
         /\ \A e, f \in EvDevices : orders'[e] = orders'[f] => e = f \/ orders'[e] = 0
<1>1. /\ order \in Seq(OrderRecord) /\ Len(order) \in Nat /\ Unmade \in OrderRecord
      /\ orders \in [EvDevices -> 0..Len(order)]
  BY DEF OrderInv, Unmade, OrderRecord
<1>2. \A e \in Evicted(d) : e \in EvDevices \ {d} /\ order[orders[e]].active = 0
  BY DEF Evicted
<1>3. orders' = [e \in EvDevices |-> IF e = d THEN OrderOf(d)
                                     ELSE IF e \in Evicted(d) THEN 0 ELSE orders[e]]
  BY DEF UsesOrder
<1>4. \A e \in EvDevices \ {d} :
        orders'[e] = orders[e] \/ (orders'[e] = 0 /\ order[orders[e]].active = 0)
  BY <1>2, <1>3
<1>5. CASE orders[d] # 0
  <2>1. OrderOf(d) = orders[d] /\ Made(d) = order
    BY <1>5 DEF OrderOf, Made
  <2>2. \A e, f \in EvDevices : orders[e] = orders[f] => e = f \/ orders[e] = 0
    BY DEF OrderInv
  <2> QED BY <1>1, <1>3, <1>4, <1>5, <2>1, <2>2
<1>6. CASE orders[d] = 0
  <2>1. OrderOf(d) = Len(order) + 1 /\ Made(d) = Append(order, Unmade)
    BY <1>6 DEF OrderOf, Made
  <2>2. \A e, f \in EvDevices : orders[e] = orders[f] => e = f \/ orders[e] = 0
    BY DEF OrderInv
  <2>3. /\ Made(d) \in Seq(OrderRecord) /\ Len(Made(d)) = Len(order) + 1
        /\ \A i \in 1..Len(order) : Made(d)[i] = order[i]
        /\ Made(d)[Len(order) + 1] = Unmade
    BY <1>1, <2>1
  <2>4. /\ orders' \in [EvDevices -> 0..(Len(order) + 1)] /\ orders'[d] = Len(order) + 1
        /\ \A e \in EvDevices \ {d} : orders'[e] \in 0..Len(order)
    BY <1>1, <1>3, <2>1
  <2>5. \A e, f \in EvDevices : orders'[e] = orders'[f] => e = f \/ orders'[e] = 0
    <3> SUFFICES ASSUME NEW e \in EvDevices, NEW f \in EvDevices, orders'[e] = orders'[f], e # f
                 PROVE  orders'[e] = 0
      OBVIOUS
    <3>1. CASE e = d \/ f = d
      BY <1>1, <2>4, <3>1
    <3>2. CASE e # d /\ f # d
      BY <1>4, <2>2, <3>2
    <3> QED BY <3>1, <3>2
  <2> QED BY <1>1, <1>4, <1>6, <2>1, <2>3, <2>4, <2>5
<1> QED BY <1>5, <1>6, <1>1

\* The device of a dispatch under way is not evicted.
LEMMA BusyStays ==
  ASSUME OrderInv, NEW d \in EvDevices, UsesOrder(d), NEW a \in Actions, dispatch[a].on
  PROVE  orders'[dispatch[a].dev] = dispatch[a].ord
<1>1. /\ dispatch[a].dev \in EvDevices /\ dispatch[a].ord \in 1..Len(order)
      /\ orders[dispatch[a].dev] = dispatch[a].ord
  BY DEF OrderInv
<1>2. CASE dispatch[a].dev = d
  BY <1>1, <1>2, OrderUsed
<1>3. CASE dispatch[a].dev # d
  <2> DEFINE i == dispatch[a].ord
  <2>1. a \in Under(i) /\ IsFiniteSet(Under(i)) /\ order[i].active = Cardinality(Under(i))
    BY <1>1 DEF OrderInv, Under
  <2>2. order[i].active # 0
    BY <2>1, FS_EmptySet
  <2> QED BY <1>1, <1>3, <2>2, OrderUsed
<1> QED BY <1>2, <1>3

\* A capture that asks for an order, and one whose order is not known yet.
LEMMA CaptureOrders ==
  ASSUME OrderInv, NEW d \in EvDevices, UsesOrder(d), order' = Made(d), UNCHANGED dispatch
  PROVE  OrderInv'
<1>1. /\ Len(order) \in Nat /\ Len(order') \in Nat /\ Len(order) <= Len(order')
      /\ order' \in Seq(OrderRecord) /\ orders' \in [EvDevices -> 0..Len(order')]
      /\ \A i \in 1..Len(order) : order'[i] = order[i]
      /\ Len(order') = Len(order) \/ (Len(order') = Len(order) + 1
                                      /\ order'[Len(order')] = Unmade)
      /\ \A e, f \in EvDevices : orders'[e] = orders'[f] => e = f \/ orders'[e] = 0
  BY OrderUsed
<1>2. \A i : Under(i)' = Under(i)
  BY DEF Under
<1>3. Under(Len(order) + 1) = {}
  BY <1>1 DEF Under, OrderInv
<1>4. \A i \in 1..Len(order') :
        IsFiniteSet(Under(i)) /\ order'[i].active = Cardinality(Under(i))
  <2> SUFFICES ASSUME NEW i \in 1..Len(order')
               PROVE  IsFiniteSet(Under(i)) /\ order'[i].active = Cardinality(Under(i))
    OBVIOUS
  <2>1. CASE i \in 1..Len(order)
    <3>1. order'[i] = order[i]
      BY <1>1, <2>1
    <3> QED BY <2>1, <3>1 DEF OrderInv
  <2>2. CASE i \notin 1..Len(order)
    <3>1. i = Len(order) + 1 /\ order'[i] = Unmade
      BY <1>1, <2>2
    <3>2. Under(i) = {} /\ Unmade.active = 0
      BY <1>3, <3>1 DEF Unmade
    <3> QED BY <3>1, <3>2, FS_EmptySet
  <2> QED BY <2>1, <2>2
<1>5. \A a \in Actions : dispatch[a].on =>
       /\ dispatch[a].dev \in EvDevices /\ dispatch[a].ord \in 1..Len(order')
       /\ orders'[dispatch[a].dev] = dispatch[a].ord
  BY <1>1, BusyStays DEF OrderInv
<1> QED BY <1>1, <1>2, <1>4, <1>5 DEF OrderInv

\* A dispatch starts: its order counts it and its sequence moves.  (evidenceDispatch)
LEMMA StartOrders ==
  ASSUME OrderInv, NEW a \in Actions, NEW d \in EvDevices, DispatchStarts(a, d), now \in Nat
  PROVE  /\ OrderInv'
         /\ UsesOrder(d) /\ Len(order) \in Nat
         /\ OrderOf(d) \in Nat /\ orders'[d] = OrderOf(d)
         /\ Len(order) <= Len(order')
         /\ \A i \in 1..Len(order) :
              /\ order'[i].seq \in Nat /\ order[i].seq \in Nat
              /\ IF i = OrderOf(d) THEN order'[i].seq > order[i].seq
                 ELSE order'[i].seq = order[i].seq
<1>0. PICK m, made : m = OrderOf(d) /\ made = Made(d)
  OBVIOUS
<1>1. /\ ~dispatch[a].on /\ now' = now + 1 /\ UsesOrder(d)
      /\ order' = [made EXCEPT ![m] = [seq |-> @.seq + 1, active |-> @.active + 1, last |-> now']]
      /\ dispatch' = [dispatch EXCEPT ![a] = [on |-> TRUE, dev |-> d, ord |-> m]]
  BY <1>0 DEF DispatchStarts, Tick
<1>2. /\ Len(order) \in Nat /\ Len(made) \in Nat /\ Len(order) <= Len(made)
      /\ made \in Seq(OrderRecord)
      /\ m \in 1..Len(made) /\ orders' \in [EvDevices -> 0..Len(made)] /\ orders'[d] = m
      /\ \A i \in 1..Len(order) : made[i] = order[i]
      /\ \/ m \in 1..Len(order) /\ Len(made) = Len(order)
         \/ m = Len(order) + 1 /\ Len(made) = Len(order) + 1 /\ made[m] = Unmade
      /\ \A e, f \in EvDevices : orders'[e] = orders'[f] => e = f \/ orders'[e] = 0
  <2>1. UsesOrder(d)
    BY <1>1
  <2>2. /\ Len(order) \in Nat /\ Len(Made(d)) \in Nat /\ Len(order) <= Len(Made(d))
        /\ Made(d) \in Seq(OrderRecord)
        /\ OrderOf(d) \in 1..Len(Made(d)) /\ orders' \in [EvDevices -> 0..Len(Made(d))]
        /\ orders'[d] = OrderOf(d)
        /\ \A i \in 1..Len(order) : Made(d)[i] = order[i]
        /\ \/ OrderOf(d) \in 1..Len(order) /\ Len(Made(d)) = Len(order)
           \/ /\ OrderOf(d) = Len(order) + 1 /\ Len(Made(d)) = Len(order) + 1
              /\ Made(d)[OrderOf(d)] = Unmade
        /\ \A e, f \in EvDevices : orders'[e] = orders'[f] => e = f \/ orders'[e] = 0
    BY <2>1, OrderUsed
  <2> QED BY <1>0, <2>2
<1>3. \A i : Under(i)' = IF i = m THEN Under(i) \cup {a} ELSE Under(i)
  <2>1. dispatch \in [Actions -> [on : BOOLEAN, dev : AnyDevice, ord : Nat]]
    BY DEF OrderInv
  <2>2. /\ dispatch'[a].on /\ dispatch'[a].ord = m
        /\ \A b \in Actions \ {a} : dispatch'[b] = dispatch[b]
    BY <1>1, <2>1
  <2> QED BY <1>1, <2>2 DEF Under
<1>4. /\ order' \in Seq(OrderRecord) /\ Len(order') = Len(made)
      /\ order'[m].seq = made[m].seq + 1 /\ order'[m].active = made[m].active + 1
      /\ \A i \in 1..Len(made) : made[i].seq \in Nat /\ made[i].active \in Nat
      /\ \A i \in 1..Len(made) : i # m => order'[i] = made[i]
  <2>1. PICK new : new = [seq |-> made[m].seq + 1, active |-> made[m].active + 1, last |-> now']
    OBVIOUS
  <2>2. order' = [made EXCEPT ![m] = new]
    BY <1>1, <2>1
  <2>3. \A i \in 1..Len(made) : made[i].seq \in Nat /\ made[i].active \in Nat
    <3>1. \A i \in 1..Len(made) : made[i] \in OrderRecord
      BY <1>2
    <3> QED BY <3>1 DEF OrderRecord
  <2>4. now' \in Nat
    BY <1>1
  <2>5. made[m].seq + 1 \in Nat /\ made[m].active + 1 \in Nat
    BY <1>2, <2>3
  <2>6. new \in OrderRecord /\ new.seq = made[m].seq + 1 /\ new.active = made[m].active + 1
    BY <2>1, <2>4, <2>5 DEF OrderRecord
  <2> QED BY <1>2, <2>2, <2>3, <2>6
<1>5. \A i \in 1..Len(made) :
        IsFiniteSet(Under(i)) /\ made[i].active = Cardinality(Under(i))
  <2> SUFFICES ASSUME NEW i \in 1..Len(made)
               PROVE  IsFiniteSet(Under(i)) /\ made[i].active = Cardinality(Under(i))
    OBVIOUS
  <2>1. CASE i \in 1..Len(order)
    <3>1. made[i] = order[i]
      BY <1>2, <2>1
    <3> QED BY <2>1, <3>1 DEF OrderInv
  <2>2. CASE i \notin 1..Len(order)
    <3>1. i = Len(order) + 1 /\ made[i] = Unmade
      BY <1>2, <2>2
    <3>2. Under(i) = {}
      BY <1>2, <3>1 DEF Under, OrderInv
    <3>3. Unmade.active = 0
      BY DEF Unmade
    <3> QED BY <3>1, <3>2, <3>3, FS_EmptySet
  <2> QED BY <2>1, <2>2
<1>6. a \notin Under(m)
  BY <1>1 DEF Under
<1>7. \A i \in 1..Len(order') :
        IsFiniteSet(Under(i)') /\ order'[i].active = Cardinality(Under(i)')
  <2> SUFFICES ASSUME NEW i \in 1..Len(order')
               PROVE  IsFiniteSet(Under(i)') /\ order'[i].active = Cardinality(Under(i)')
    OBVIOUS
  <2>1. CASE i = m
    <3>1. Under(i)' = Under(i) \cup {a} /\ IsFiniteSet(Under(i))
          /\ made[i].active = Cardinality(Under(i)) /\ order'[i].active = made[i].active + 1
      BY <1>3, <1>4, <1>5, <2>1
    <3> QED BY <1>6, <2>1, <3>1, FS_AddElement
  <2>2. CASE i # m
    BY <1>3, <1>4, <1>5, <2>2
  <2> QED BY <2>1, <2>2
<1>8. dispatch \in [Actions -> [on : BOOLEAN, dev : AnyDevice, ord : Nat]]
  BY DEF OrderInv
<1>9. /\ dispatch' \in [Actions -> [on : BOOLEAN, dev : AnyDevice, ord : Nat]]
      /\ dispatch'[a] = [on |-> TRUE, dev |-> d, ord |-> m]
      /\ \A b \in Actions \ {a} : dispatch'[b] = dispatch[b]
  <2>1. PICK new : new = [on |-> TRUE, dev |-> d, ord |-> m]
    OBVIOUS
  <2>2. new \in [on : BOOLEAN, dev : AnyDevice, ord : Nat]
    BY <1>2, <2>1 DEF AnyDevice
  <2> QED BY <1>1, <1>8, <2>1, <2>2
<1>10. \A b \in Actions : dispatch'[b].on =>
        /\ dispatch'[b].dev \in EvDevices /\ dispatch'[b].ord \in 1..Len(order')
        /\ orders'[dispatch'[b].dev] = dispatch'[b].ord
  <2>1. ASSUME NEW b \in Actions, b # a, dispatch'[b].on
        PROVE  /\ dispatch'[b].dev \in EvDevices /\ dispatch'[b].ord \in 1..Len(order')
               /\ orders'[dispatch'[b].dev] = dispatch'[b].ord
    <3>1. dispatch'[b] = dispatch[b]
      BY <1>9, <2>1
    <3>2. dispatch[b].on /\ UsesOrder(d)
      BY <1>1, <2>1, <3>1
    <3>3. orders'[dispatch[b].dev] = dispatch[b].ord
      BY <3>2, BusyStays
    <3>4. dispatch[b].dev \in EvDevices /\ dispatch[b].ord \in 1..Len(order)
      BY <3>2 DEF OrderInv
    <3> QED BY <1>2, <1>4, <3>1, <3>3, <3>4
  <2> QED BY <1>2, <1>4, <1>9, <2>1
<1>11. \A i \in 1..Len(order) :
         /\ order'[i].seq \in Nat /\ order[i].seq \in Nat
         /\ IF i = m THEN order'[i].seq > order[i].seq ELSE order'[i].seq = order[i].seq
  <2> SUFFICES ASSUME NEW i \in 1..Len(order)
               PROVE  /\ order'[i].seq \in Nat /\ order[i].seq \in Nat
                      /\ IF i = m THEN order'[i].seq > order[i].seq
                         ELSE order'[i].seq = order[i].seq
    OBVIOUS
  <2>1. i \in 1..Len(made) /\ made[i] = order[i] /\ made[i].seq \in Nat
    BY <1>2, <1>4
  <2> QED BY <1>4, <2>1
<1>12. OrderInv'
  BY <1>2, <1>4, <1>7, <1>9, <1>10 DEF OrderInv
<1>13. /\ UsesOrder(d) /\ Len(order) \in Nat /\ OrderOf(d) \in Nat
       /\ orders'[d] = OrderOf(d) /\ Len(order) <= Len(order')
  <2>1. UsesOrder(d)
    BY <1>1
  <2>2. m \in Nat /\ orders'[d] = m /\ Len(order') = Len(made)
    BY <1>2, <1>4
  <2> QED BY <1>0, <1>2, <2>1, <2>2
<1> QED BY <1>0, <1>11, <1>12, <1>13

\* A dispatch ends: its order counts one less.
LEMMA EndOrders ==
  ASSUME OrderInv, NEW a \in Actions, DispatchEnds(a)
  PROVE  /\ OrderInv' /\ Len(order) \in Nat /\ Len(order') = Len(order)
         /\ \A i \in 1..Len(order) : order'[i].seq = order[i].seq
<1> DEFINE m == dispatch[a].ord
<1>1. /\ dispatch[a].on /\ m \in 1..Len(order) /\ m \in Nat
      /\ order' = [order EXCEPT ![m].active = @ - 1]
      /\ dispatch' = [dispatch EXCEPT ![a].on = FALSE] /\ orders' = orders
      /\ order \in Seq(OrderRecord) /\ Len(order) \in Nat
      /\ dispatch \in [Actions -> [on : BOOLEAN, dev : AnyDevice, ord : Nat]]
  BY DEF DispatchEnds, OrderInv
<1>2. /\ dispatch' \in [Actions -> [on : BOOLEAN, dev : AnyDevice, ord : Nat]]
      /\ ~dispatch'[a].on
      /\ \A b \in Actions \ {a} : dispatch'[b] = dispatch[b]
  BY <1>1
<1>3. \A i : Under(i)' = IF i = m THEN Under(i) \ {a} ELSE Under(i)
  BY <1>1, <1>2 DEF Under
<1>4. a \in Under(m) /\ IsFiniteSet(Under(m)) /\ order[m].active = Cardinality(Under(m))
  BY <1>1 DEF Under, OrderInv
<1> HIDE DEF m
<1>5. order[m].active \in Nat /\ order[m].active # 0
  BY <1>4, FS_EmptySet, FS_CardinalityType
<1>6. /\ order' \in Seq(OrderRecord) /\ Len(order') = Len(order)
      /\ order'[m].active = order[m].active - 1 /\ order'[m].seq = order[m].seq
      /\ \A i \in 1..Len(order) : i # m => order'[i] = order[i]
  <2>1. PICK old : old = order[m]
    OBVIOUS
  <2>2. PICK new : new = [old EXCEPT !.active = old.active - 1]
    OBVIOUS
  <2>3. order' = [order EXCEPT ![m] = new]
    BY <1>1, <2>1, <2>2
  <2>4. old \in OrderRecord
    BY <1>1, <2>1
  <2>5. new \in OrderRecord /\ new.seq = old.seq /\ new.active = old.active - 1
    <3>1. old.active \in Nat /\ old.active - 1 \in Nat
      BY <1>5, <2>1
    <3>2. old = [seq |-> old.seq, active |-> old.active, last |-> old.last]
          /\ old.seq \in Nat /\ old.last \in Nat
      BY <2>4 DEF OrderRecord
    <3>3. new = [seq |-> old.seq, active |-> old.active - 1, last |-> old.last]
      BY <2>2, <3>2
    <3> QED BY <3>1, <3>2, <3>3 DEF OrderRecord
  <2>6. order \in Seq(OrderRecord) /\ Len(order) \in Nat /\ m \in 1..Len(order)
    BY <1>1
  <2> QED BY <2>1, <2>3, <2>5, <2>6
<1>7. \A i \in 1..Len(order) :
        IsFiniteSet(Under(i)') /\ order'[i].active = Cardinality(Under(i)')
  <2> SUFFICES ASSUME NEW i \in 1..Len(order)
               PROVE  IsFiniteSet(Under(i)') /\ order'[i].active = Cardinality(Under(i)')
    OBVIOUS
  <2>1. CASE i = m
    <3>1. Under(i)' = Under(i) \ {a}
      BY <1>3, <2>1
    <3> QED BY <1>4, <1>6, <2>1, <3>1, FS_RemoveElement
  <2>2. CASE i # m
    BY <1>3, <1>6, <2>2 DEF OrderInv
  <2> QED BY <2>1, <2>2
<1>8. \A b \in Actions : dispatch'[b].on =>
        /\ dispatch'[b].dev \in EvDevices /\ dispatch'[b].ord \in 1..Len(order')
        /\ orders'[dispatch'[b].dev] = dispatch'[b].ord
  BY <1>1, <1>2, <1>6 DEF OrderInv
<1>9. orders' \in [EvDevices -> 0..Len(order')]
      /\ \A d, e \in EvDevices : orders'[d] = orders'[e] => d = e \/ orders'[d] = 0
  BY <1>1, <1>6 DEF OrderInv
<1>10. OrderInv'
  BY <1>2, <1>6, <1>7, <1>8, <1>9 DEF OrderInv
<1> QED BY <1>1, <1>6, <1>10

Mark(v) == IF v.st = "open" THEN v.first ELSE v.last
Taken(v) == v.st \in {"open", "captured"} /\ v.ord # 0

\* What a capture knows of its order and of its call, while its device keeps the order.
CaptureGood(c) ==
  /\ capture[c] = [st |-> capture[c].st, dev |-> capture[c].dev, ord |-> capture[c].ord,
                   start |-> capture[c].start, first |-> capture[c].first,
                   last |-> capture[c].last, overlapping |-> capture[c].overlapping,
                   source |-> capture[c].source]
  /\ capture[c].st = "none" =>
       /\ c \in Actions /\ record[c].dev # NoDevice => record[c].sent # 0
       /\ c \in Readers => reader[c].dev = NoDevice
  /\ capture[c].start \in Nat /\ capture[c].start <= now
  /\ capture[c].source \in Nat \/ capture[c].source = capture[c].start - 1
  /\ Taken(capture[c]) =>
       /\ capture[c].ord \in 1..Len(order) /\ capture[c].dev \in EvDevices
       /\ Mark(capture[c]) \in Nat /\ order[capture[c].ord].seq \in Nat
       /\ Mark(capture[c]) <= order[capture[c].ord].seq
       /\ capture[c].st = "open" =>
            \A e \in EvDevices : orders[e] = capture[c].ord => e = capture[c].dev
  /\ Taken(capture[c]) /\ orders[capture[c].dev] = capture[c].ord =>
       /\ \/ capture[c].overlapping
          \/ capture[c].dev \notin touched[c]
          \/ Mark(capture[c]) < order[capture[c].ord].seq
       /\ c \in Actions => \/ record[c].dev = capture[c].dev
                           \/ record[c].sent # 0 /\ record[c].sent <= capture[c].start
       /\ c \in Readers => reader[c].dev = capture[c].dev

EvidenceInv ==
  /\ OrderInv /\ now \in Nat
  /\ DOMAIN capture = Callers /\ DOMAIN touched = Callers
  /\ record = [a \in Actions |-> [st |-> record[a].st, dev |-> record[a].dev,
                                  sent |-> record[a].sent]]
  /\ \A a \in Actions : /\ record[a].dev \in AnyDevice
                        /\ record[a].sent \in Nat /\ record[a].sent <= now
  /\ reader = [r \in Readers |-> [st |-> reader[r].st, ref |-> reader[r].ref,
                                  dev |-> reader[r].dev]]
  /\ \A r \in Readers : reader[r].ref \in Actions \cup {NoAction}
  /\ \A c \in Callers : CaptureGood(c)

\* A capture that a step does not touch stays good: orders are never given back, their
\* sequences grow with every dispatch, and a call keeps its device.
LEMMA Undisturbed ==
  ASSUME EvidenceInv, NEW c \in Callers, NEW D,
         capture'[c] = capture[c], now' \in Nat, now <= now',
         Len(order) \in Nat, Len(order') \in Nat, Len(order) <= Len(order'),
         \A i \in 1..Len(order) : order'[i].seq \in Nat /\ order[i].seq <= order'[i].seq,
         \A e \in EvDevices : orders'[e] \in 1..Len(order) => orders[e] = orders'[e],
         touched'[c] \subseteq touched[c] \cup D,
         \A e \in D \cap EvDevices : orders'[e] \in 1..Len(order) =>
           order[orders'[e]].seq < order'[orders'[e]].seq,
         c \in Actions =>
           /\ record[c].dev # NoDevice => record'[c].dev = record[c].dev
           /\ record[c].sent # 0 => record'[c].sent = record[c].sent
           /\ capture[c].st = "none" /\ record'[c].dev # NoDevice => record'[c].sent # 0,
         c \in Readers => reader'[c].dev = reader[c].dev
  PROVE  CaptureGood(c)'
<1>1. CaptureGood(c)
  BY DEF EvidenceInv
<1>2. PICK v : v = capture[c]
  OBVIOUS
<1>3. /\ v = [st |-> v.st, dev |-> v.dev, ord |-> v.ord, start |-> v.start,
              first |-> v.first, last |-> v.last, overlapping |-> v.overlapping,
              source |-> v.source]
      /\ v.start \in Nat /\ v.start <= now'
      /\ v.source \in Nat \/ v.source = v.start - 1
      /\ v.st = "none" =>
           /\ c \in Actions /\ record'[c].dev # NoDevice => record'[c].sent # 0
           /\ c \in Readers => reader'[c].dev = NoDevice
  BY <1>1, <1>2 DEF CaptureGood, EvidenceInv
<1>4. ASSUME Taken(v)
      PROVE  /\ v.ord \in 1..Len(order') /\ v.dev \in EvDevices
             /\ Mark(v) \in Nat /\ order'[v.ord].seq \in Nat
             /\ Mark(v) <= order'[v.ord].seq
             /\ v.st = "open" => \A e \in EvDevices : orders'[e] = v.ord => e = v.dev
  <2>1. /\ v.ord \in 1..Len(order) /\ v.dev \in EvDevices /\ Mark(v) \in Nat
        /\ Mark(v) <= order[v.ord].seq /\ order[v.ord].seq \in Nat
        /\ v.st = "open" => \A e \in EvDevices : orders[e] = v.ord => e = v.dev
    BY <1>1, <1>2, <1>4 DEF CaptureGood
  <2>2. order'[v.ord].seq \in Nat /\ order[v.ord].seq <= order'[v.ord].seq
    BY <2>1
  <2> HIDE DEF Mark
  <2> QED BY <2>1, <2>2
<1>5. ASSUME Taken(v), orders'[v.dev] = v.ord
      PROVE  /\ \/ v.overlapping
                \/ v.dev \notin touched'[c]
                \/ Mark(v) < order'[v.ord].seq
             /\ c \in Actions => \/ record'[c].dev = v.dev
                                 \/ record'[c].sent # 0 /\ record'[c].sent <= v.start
             /\ c \in Readers => reader'[c].dev = v.dev
  <2>1. /\ v.ord \in 1..Len(order) /\ v.dev \in EvDevices /\ Mark(v) \in Nat
        /\ Mark(v) <= order[v.ord].seq /\ order[v.ord].seq \in Nat
    BY <1>1, <1>2, <1>5 DEF CaptureGood
  <2>2. orders[v.dev] = v.ord
    BY <1>5, <2>1
  <2>3. /\ \/ v.overlapping
           \/ v.dev \notin touched[c]
           \/ Mark(v) < order[v.ord].seq
        /\ c \in Actions => \/ record[c].dev = v.dev
                            \/ record[c].sent # 0 /\ record[c].sent <= v.start
        /\ c \in Readers => reader[c].dev = v.dev
    BY <1>1, <1>2, <1>5, <2>2 DEF CaptureGood
  <2>4. order'[v.ord].seq \in Nat /\ order[v.ord].seq <= order'[v.ord].seq
    BY <2>1
  <2>5. v.dev \in touched'[c] /\ v.dev \notin touched[c] => Mark(v) < order'[v.ord].seq
    <3> SUFFICES ASSUME v.dev \in touched'[c], v.dev \notin touched[c]
                 PROVE  Mark(v) < order'[v.ord].seq
      OBVIOUS
    <3>1. v.dev \in D \cap EvDevices
      BY <2>1
    <3>2. order[v.ord].seq < order'[v.ord].seq
      BY <1>5, <2>1, <3>1
    <3> HIDE DEF Mark
    <3> QED BY <2>1, <2>4, <3>2
  <2>6. Mark(v) < order[v.ord].seq => Mark(v) < order'[v.ord].seq
    <3> HIDE DEF Mark
    <3> QED BY <2>1, <2>4
  <2>7. NoDevice # v.dev
    BY <2>1, EvidenceNamesAssumption
  <2> QED BY <2>3, <2>5, <2>6, <2>7
<1>6. capture'[c] = v
  BY <1>2
<1> QED BY <1>3, <1>4, <1>5, <1>6 DEF CaptureGood, Taken, Mark

\* What the response says follows from a good capture.  (observationFreshness)
LEMMA GoodIsHonest == EvidenceInv => FreshIsHonest
<1> SUFFICES ASSUME EvidenceInv, NEW c \in Callers, Freshness(c) = "fresh"
             PROVE  /\ capture[c].dev \notin touched[c]
                    /\ capture[c].source >= capture[c].start
                    /\ ActionOf(c) # NoAction => capture[c].source >= record[ActionOf(c)].sent
  BY DEF FreshIsHonest
<1>1. PICK v : v = capture[c]
  OBVIOUS
<1>2. KnownCapture(v) /\ ~Stale(c) /\ ~v.overlapping /\ ~Reused(v)
  BY <1>1 DEF Freshness
<1>3. Taken(v) /\ v.st = "captured" /\ orders[v.dev] = v.ord
  BY <1>2 DEF KnownCapture, Taken
<1>4. CaptureGood(c)
  BY DEF EvidenceInv
<1>5. /\ v.start \in Nat /\ v.source \in Nat /\ v.source >= v.start
  <2>1. v.start \in Nat /\ (v.source \in Nat \/ v.source = v.start - 1)
    BY <1>1, <1>4 DEF CaptureGood
  <2> QED BY <1>2, <2>1 DEF Reused
<1>6. v.last \in Nat /\ order[v.ord].seq \in Nat /\ ~(order[v.ord].seq > v.last)
  <2>1. v.last \in Nat /\ order[v.ord].seq \in Nat
    BY <1>1, <1>3, <1>4 DEF CaptureGood, Mark
  <2> QED BY <1>1, <1>2, <2>1 DEF Stale, Superseded
<1>7. /\ v.dev \notin touched[c]
      /\ c \in Actions => \/ record[c].dev = v.dev
                          \/ record[c].sent # 0 /\ record[c].sent <= v.start
      /\ c \in Readers => reader[c].dev = v.dev
  BY <1>1, <1>2, <1>3, <1>4, <1>6 DEF CaptureGood, Mark
<1>8. ASSUME ActionOf(c) # NoAction PROVE v.source >= record[ActionOf(c)].sent
  <2>1. PICK a : a = ActionOf(c)
    OBVIOUS
  <2>2. a \in Actions /\ record[a].sent \in Nat
        /\ (record[a].dev = v.dev \/ record[a].sent <= v.start)
    <3>1. CASE c \in Actions
      BY <1>7, <2>1, <3>1 DEF ActionOf, EvidenceInv
    <3>2. CASE c \in Readers /\ c \notin Actions
      BY <1>7, <1>8, <2>1, <3>2 DEF ActionOf, EvidenceInv
    <3> QED BY <3>1, <3>2 DEF Callers
  <2>3. ~(record[a].dev = v.dev /\ v.source < record[a].sent)
    BY <1>1, <1>2, <1>8, <2>1 DEF Stale
  <2> QED BY <1>5, <2>1, <2>2, <2>3
<1> QED BY <1>1, <1>5, <1>7, <1>8

\* A call is bound to the first concrete device, an action with its record.
\* (bindEvidenceDevice)
Bound(c, d) ==
  /\ record' = [a \in Actions |-> [st |-> record'[a].st, dev |-> record'[a].dev,
                                   sent |-> record'[a].sent]]
  /\ \A a \in Actions :
       /\ record'[a].sent = record[a].sent /\ record'[a].dev \in AnyDevice
       /\ record[a].dev # NoDevice \/ a # c => record'[a].dev = record[a].dev
  /\ c \in Actions /\ record[c].dev = NoDevice => record'[c].dev = d
  /\ reader' = [r \in Readers |-> [st |-> reader'[r].st, ref |-> reader'[r].ref,
                                   dev |-> reader'[r].dev]]
  /\ \A r \in Readers :
       /\ reader'[r].ref = reader[r].ref
       /\ reader[r].dev # NoDevice \/ r # c => reader'[r].dev = reader[r].dev
  /\ c \in Readers /\ reader[c].dev = NoDevice => reader'[c].dev = d

\* Binding a device leaves the record and its other fields alone.
LEMMA BindsDevice ==
  ASSUME EvidenceInv, NEW c \in Callers, NEW d \in AnyDevice, Binds(c, d)
  PROVE  Bound(c, d)
<1>1. /\ record = [a \in Actions |-> [st |-> record[a].st, dev |-> record[a].dev,
                                      sent |-> record[a].sent]]
      /\ \A a \in Actions : record[a].dev \in AnyDevice
      /\ reader = [r \in Readers |-> [st |-> reader[r].st, ref |-> reader[r].ref,
                                      dev |-> reader[r].dev]]
  BY DEF EvidenceInv
<1>2. /\ record' = [a \in Actions |-> [st |-> record'[a].st, dev |-> record'[a].dev,
                                       sent |-> record'[a].sent]]
      /\ \A a \in Actions :
           /\ record'[a].sent = record[a].sent /\ record'[a].dev \in AnyDevice
           /\ record[a].dev # NoDevice \/ a # c => record'[a].dev = record[a].dev
      /\ c \in Actions /\ record[c].dev = NoDevice => record'[c].dev = d
  <2>1. CASE c \in Actions /\ d # NoDevice
    <3>1. PICK old, v : old = record[c] /\ v = IF record[c].dev = NoDevice THEN d ELSE record[c].dev
      OBVIOUS
    <3>2. record' = [record EXCEPT ![c].dev = v]
      BY <2>1, <3>1 DEF Binds
    <3>3. old = [st |-> old.st, dev |-> old.dev, sent |-> old.sent] /\ v \in AnyDevice
      BY <1>1, <2>1, <3>1
    <3>4. record'[c] = [old EXCEPT !.dev = v]
      BY <1>1, <2>1, <3>1, <3>2
    <3>5. record'[c] = [st |-> old.st, dev |-> v, sent |-> old.sent]
      BY <3>3, <3>4
    <3>6. DOMAIN record' = Actions /\ \A a \in Actions : a # c => record'[a] = record[a]
      BY <1>1, <2>1, <3>2
    <3>7. \A a \in Actions : record'[a] = [st |-> record'[a].st, dev |-> record'[a].dev,
                                           sent |-> record'[a].sent]
      <4> SUFFICES ASSUME NEW a \in Actions
                   PROVE  record'[a] = [st |-> record'[a].st, dev |-> record'[a].dev,
                                        sent |-> record'[a].sent]
        OBVIOUS
      <4>1. CASE a = c
        BY <3>5, <4>1
      <4>2. CASE a # c
        BY <1>1, <3>6, <4>2
      <4> QED BY <4>1, <4>2
    <3>8. record' = [a \in Actions |-> record'[a]]
      BY <1>1, <2>1, <3>2
    <3> QED BY <1>1, <2>1, <3>1, <3>3, <3>5, <3>6, <3>7, <3>8
  <2>2. CASE ~(c \in Actions /\ d # NoDevice)
    <3>1. record' = record
      BY <2>2 DEF Binds
    <3> QED BY <1>1, <2>2, <3>1
  <2> QED BY <2>1, <2>2
<1>3. /\ reader' = [r \in Readers |-> [st |-> reader'[r].st, ref |-> reader'[r].ref,
                                       dev |-> reader'[r].dev]]
      /\ \A r \in Readers :
           /\ reader'[r].ref = reader[r].ref
           /\ reader[r].dev # NoDevice \/ r # c => reader'[r].dev = reader[r].dev
      /\ c \in Readers /\ reader[c].dev = NoDevice => reader'[c].dev = d
  <2>1. CASE c \in Readers /\ d # NoDevice
    <3>1. PICK old, v : old = reader[c] /\ v = IF reader[c].dev = NoDevice THEN d ELSE reader[c].dev
      OBVIOUS
    <3>2. reader' = [reader EXCEPT ![c].dev = v]
      BY <2>1, <3>1 DEF Binds
    <3>3. old = [st |-> old.st, ref |-> old.ref, dev |-> old.dev]
      BY <1>1, <2>1, <3>1
    <3>4. reader'[c] = [old EXCEPT !.dev = v]
      BY <1>1, <2>1, <3>1, <3>2
    <3>5. reader'[c] = [st |-> old.st, ref |-> old.ref, dev |-> v]
      BY <3>3, <3>4
    <3>6. DOMAIN reader' = Readers /\ \A r \in Readers : r # c => reader'[r] = reader[r]
      BY <1>1, <2>1, <3>2
    <3>7. \A r \in Readers : reader'[r] = [st |-> reader'[r].st, ref |-> reader'[r].ref,
                                           dev |-> reader'[r].dev]
      <4> SUFFICES ASSUME NEW r \in Readers
                   PROVE  reader'[r] = [st |-> reader'[r].st, ref |-> reader'[r].ref,
                                        dev |-> reader'[r].dev]
        OBVIOUS
      <4>1. CASE r = c
        BY <3>5, <4>1
      <4>2. CASE r # c
        BY <1>1, <3>6, <4>2
      <4> QED BY <4>1, <4>2
    <3>8. reader' = [r \in Readers |-> reader'[r]]
      BY <1>1, <2>1, <3>2
    <3> QED BY <1>1, <2>1, <3>1, <3>3, <3>5, <3>6, <3>7, <3>8
  <2>2. CASE ~(c \in Readers /\ d # NoDevice)
    <3>1. reader' = reader
      BY <2>2 DEF Binds
    <3> QED BY <1>1, <2>2, <3>1
  <2> QED BY <2>1, <2>2
<1> QED BY <1>2, <1>3 DEF Bound

\* The capture of a call starts on a device, or on an alias whose order is not known.
LEMMA CaptureStartsGood ==
  ASSUME EvidenceInv, NEW c \in Callers, NEW d \in EvDevices \cup {NoDevice},
         CaptureStarts(c, d)
  PROVE  EvidenceInv'
<1>1. /\ capture[c].st = "none" /\ now \in Nat /\ now' = now + 1
      /\ touched' = [touched EXCEPT ![c] = {dispatch[a].dev : a \in {b \in Actions : dispatch[b].on}}]
      /\ UNCHANGED dispatch /\ Binds(c, d) /\ OrderInv /\ CaptureGood(c)
  BY DEF CaptureStarts, Tick, EvidenceInv
<1>2. /\ OrderInv' /\ Len(order) \in Nat /\ Len(order') \in Nat /\ Len(order) <= Len(order')
      /\ \A i \in 1..Len(order) : order'[i].seq \in Nat /\ order[i].seq <= order'[i].seq
      /\ \A e \in EvDevices : orders'[e] \in 1..Len(order) => orders[e] = orders'[e]
  <2>1. order \in Seq(OrderRecord) /\ Len(order) \in Nat
    BY <1>1 DEF OrderInv
  <2>2. \A i \in 1..Len(order) : order[i].seq \in Nat
    <3>1. \A i \in 1..Len(order) : order[i] \in OrderRecord
      BY <2>1
    <3> QED BY <3>1 DEF OrderRecord
  <2>3. CASE d = NoDevice
    <3>1. UNCHANGED <<orders, order, dispatch>>
      BY <2>3 DEF CaptureStarts
    <3>2. OrderInv'
      <4>1. \A i : Under(i)' = Under(i)
        BY <3>1 DEF Under
      <4> QED BY <1>1, <3>1, <4>1 DEF OrderInv
    <3> QED BY <2>1, <2>2, <3>1, <3>2
  <2>4. CASE d # NoDevice
    <3>1. d \in EvDevices /\ UsesOrder(d) /\ order' = Made(d)
      BY <2>4 DEF CaptureStarts
    <3>2. OrderInv'
      BY <1>1, <3>1, CaptureOrders
    <3>3. /\ Len(order') \in Nat /\ Len(order) <= Len(order') /\ orders'[d] = OrderOf(d)
          /\ \A i \in 1..Len(order) : order'[i] = order[i]
          /\ OrderOf(d) \in 1..Len(order) => orders[d] = OrderOf(d)
          /\ \A e \in EvDevices \ {d} : orders'[e] = orders[e] \/ orders'[e] = 0
      BY <1>1, <2>1, <3>1, OrderUsed
    <3> QED BY <2>1, <2>2, <3>2, <3>3
  <2> QED BY <2>3, <2>4
<1>3. Bound(c, d)
  BY <1>1, BindsDevice DEF AnyDevice
<1>4. /\ DOMAIN touched' = Callers /\ DOMAIN capture' = Callers
      /\ \A e \in Callers : e # c => touched'[e] = touched[e] /\ capture'[e] = capture[e]
      /\ touched'[c] = {dispatch[a].dev : a \in {b \in Actions : dispatch[b].on}}
  BY <1>1 DEF CaptureStarts, EvidenceInv
<1>5. ASSUME NEW e \in Callers, e # c PROVE CaptureGood(e)'
  <2>1. /\ e \in Actions => /\ record[e].dev # NoDevice => record'[e].dev = record[e].dev
                            /\ record[e].sent # 0 => record'[e].sent = record[e].sent
                            /\ capture[e].st = "none" /\ record'[e].dev # NoDevice =>
                                 record'[e].sent # 0
        /\ e \in Readers => reader'[e].dev = reader[e].dev
    BY <1>3, <1>5 DEF Bound, EvidenceInv, CaptureGood
  <2>2. touched'[e] \subseteq touched[e] \cup {}
    BY <1>4, <1>5
  <2>3. now' \in Nat /\ now <= now' /\ capture'[e] = capture[e]
    BY <1>1, <1>4, <1>5
  <2>4. \A f \in {} \cap EvDevices : orders'[f] \in 1..Len(order) =>
           order[orders'[f]].seq < order'[orders'[f]].seq
    OBVIOUS
  <2>5. PICK none : none = {}
    OBVIOUS
  <2>6. /\ touched'[e] \subseteq touched[e] \cup none
        /\ \A f \in none \cap EvDevices : orders'[f] \in 1..Len(order) =>
             order[orders'[f]].seq < order'[orders'[f]].seq
    BY <2>2, <2>4, <2>5
  <2> QED BY <1>2, <2>1, <2>3, <2>6, Undisturbed
<1>6. CaptureGood(c)'
  <2>1. PICK v : v = capture'[c]
    OBVIOUS
  <2>2. CASE d = NoDevice
    <3>1. v = [NoCapture EXCEPT !.st = "open", !.start = now']
      BY <1>1, <2>1, <2>2 DEF CaptureStarts, EvidenceInv
    <3>2. v = [st |-> "open", dev |-> NoDevice, ord |-> 0, start |-> now', first |-> 0,
               last |-> 0, overlapping |-> FALSE, source |-> 0]
      BY <3>1 DEF NoCapture
    <3> QED BY <1>1, <2>1, <3>2 DEF CaptureGood, Taken
  <2>3. CASE d # NoDevice
    <3>1. d \in EvDevices /\ UsesOrder(d) /\ order' = Made(d)
      BY <2>3 DEF CaptureStarts
    <3>2. PICK m, overlaps : m = OrderOf(d) /\ overlaps = Overlaps(m, order'[m].seq)
      OBVIOUS
    <3>3. v = [NoCapture EXCEPT !.st = "open", !.dev = d, !.ord = m, !.start = now',
                                !.first = order'[m].seq, !.overlapping = overlaps]
      BY <1>1, <2>1, <2>3, <3>2 DEF CaptureStarts, EvidenceInv
    <3>4. v = [st |-> "open", dev |-> d, ord |-> m, start |-> now', first |-> order'[m].seq,
               last |-> 0, overlapping |-> overlaps, source |-> 0]
      BY <3>3 DEF NoCapture
    <3>5. /\ m \in 1..Len(order') /\ orders'[d] = m /\ order' \in Seq(OrderRecord)
          /\ \A e, f \in EvDevices : orders'[e] = orders'[f] => e = f \/ orders'[e] = 0
      BY <1>1, <3>1, <3>2, OrderUsed
    <3>6. order'[m].seq \in Nat
      <4>1. order'[m] \in OrderRecord
        BY <3>5
      <4> QED BY <4>1 DEF OrderRecord
    <3>7. overlaps \/ d \notin touched'[c]
      <4> SUFFICES ASSUME d \in touched'[c] PROVE overlaps
        OBVIOUS
      <4>1. PICK a \in Actions : dispatch[a].on /\ dispatch[a].dev = d
        BY <1>4
      <4>2. dispatch[a].ord = m
        BY <1>1, <3>1, <3>5, <4>1, BusyStays
      <4>3. a \in Under(m)' /\ IsFiniteSet(Under(m)') /\ order'[m].active = Cardinality(Under(m)')
        BY <1>1, <1>2, <3>5, <4>1, <4>2 DEF OrderInv, Under
      <4>4. order'[m].active \in Nat /\ order'[m].active # 0
        BY <4>3, FS_EmptySet, FS_CardinalityType
      <4>5. order'[m].active > 0
        BY <4>4
      <4> QED BY <3>2, <4>5 DEF Overlaps
    <3>8. /\ c \in Actions => \/ record'[c].dev = d
                              \/ record'[c].sent # 0 /\ record'[c].sent <= now'
          /\ c \in Readers => reader'[c].dev = d
      BY <1>1, <1>3 DEF Bound, EvidenceInv, CaptureGood
    <3>9. \A e \in EvDevices : orders'[e] = m => e = d
      BY <3>1, <3>5
    <3>10. now' \in Nat /\ Len(order') \in Nat
      BY <1>1, <1>2
    <3> HIDE DEF Overlaps
    <3> QED BY <2>1, <3>1, <3>4, <3>5, <3>6, <3>7, <3>8, <3>9, <3>10 DEF CaptureGood, Taken, Mark
  <2> QED BY <2>2, <2>3
<1>7. /\ \A a \in Actions : /\ record'[a].dev \in AnyDevice
                            /\ record'[a].sent \in Nat /\ record'[a].sent <= now'
      /\ \A r \in Readers : reader'[r].ref \in Actions \cup {NoAction}
      /\ now' \in Nat
  BY <1>1, <1>3 DEF Bound, EvidenceInv
<1> QED BY <1>2, <1>3, <1>4, <1>5, <1>6, <1>7 DEF EvidenceInv, Bound

\* A step that starts no dispatch disturbs no capture but the one it is about.
LEMMA QuietStep ==
  ASSUME EvidenceInv, NEW c \in Callers,
         capture'[c] = capture[c], touched'[c] = touched[c], now' = now,
         Len(order') = Len(order), orders' = orders,
         \A i \in 1..Len(order) : order'[i].seq = order[i].seq,
         c \in Actions =>
           /\ record[c].dev # NoDevice \/ capture[c].st = "none" => record'[c].dev = record[c].dev
           /\ record'[c].sent = record[c].sent,
         c \in Readers => reader'[c].dev = reader[c].dev
  PROVE  CaptureGood(c)'
<1>1. CaptureGood(c) /\ now \in Nat /\ Len(order) \in Nat
  BY DEF EvidenceInv, OrderInv
<1>2. \A i \in 1..Len(order) : order[i].seq \in Nat
  <2>1. \A i \in 1..Len(order) : order[i] \in OrderRecord
    BY DEF EvidenceInv, OrderInv
  <2> QED BY <2>1 DEF OrderRecord
<1>3. PICK none : none = {}
  OBVIOUS
<1>4. /\ touched'[c] \subseteq touched[c] \cup none
      /\ \A f \in none \cap EvDevices : orders'[f] \in 1..Len(order) =>
           order[orders'[f]].seq < order'[orders'[f]].seq
  BY <1>3
<1>5. /\ now' \in Nat /\ now <= now' /\ Len(order') \in Nat /\ Len(order) <= Len(order')
      /\ \A i \in 1..Len(order) : order'[i].seq \in Nat /\ order[i].seq <= order'[i].seq
      /\ \A e \in EvDevices : orders'[e] \in 1..Len(order) => orders[e] = orders'[e]
  BY <1>1, <1>2
<1>6. c \in Actions =>
           /\ record[c].dev # NoDevice => record'[c].dev = record[c].dev
           /\ record[c].sent # 0 => record'[c].sent = record[c].sent
           /\ capture[c].st = "none" /\ record'[c].dev # NoDevice => record'[c].sent # 0
  BY <1>1 DEF CaptureGood
<1> QED BY <1>1, <1>4, <1>5, <1>6, Undisturbed

\* A capture ends with a value of a device, or without one.
LEMMA CaptureEndsGood ==
  ASSUME EvidenceInv, NEW c \in Callers, CaptureEnds(c)
  PROVE  EvidenceInv'
<1>1. /\ capture[c].st = "open" /\ now \in Nat /\ now' = now /\ touched' = touched
      /\ UNCHANGED <<orders, order, dispatch>> /\ OrderInv /\ CaptureGood(c)
  BY DEF CaptureEnds, EvidenceInv
<1>2. OrderInv'
  <2>1. \A i : Under(i)' = Under(i)
    BY <1>1 DEF Under
  <2> QED BY <1>1, <2>1 DEF OrderInv
<1>3. PICK v : v = capture[c]
  OBVIOUS
<1>4. v = [st |-> v.st, dev |-> v.dev, ord |-> v.ord, start |-> v.start,
           first |-> v.first, last |-> v.last, overlapping |-> v.overlapping,
           source |-> v.source]
  BY <1>1, <1>3 DEF CaptureGood
<1>5. CASE /\ capture' = [capture EXCEPT ![c].st = "failed"]
           /\ UNCHANGED <<record, reader>>
  <2>1. DOMAIN capture' = Callers /\ \A e \in Callers : e # c => capture'[e] = capture[e]
    BY <1>5 DEF EvidenceInv
  <2>2. capture'[c] = [v EXCEPT !.st = "failed"]
    BY <1>3, <1>5 DEF EvidenceInv
  <2>3. capture'[c] = [st |-> "failed", dev |-> v.dev, ord |-> v.ord, start |-> v.start,
                       first |-> v.first, last |-> v.last, overlapping |-> v.overlapping,
                       source |-> v.source]
    BY <1>4, <2>2
  <2>4. CaptureGood(c)'
    BY <1>1, <1>3, <2>3 DEF CaptureGood, Taken
  <2>5. ASSUME NEW e \in Callers, e # c PROVE CaptureGood(e)'
    BY <1>1, <1>5, <2>1, <2>5, QuietStep
  <2> QED BY <1>1, <1>2, <1>5, <2>1, <2>4, <2>5 DEF EvidenceInv
<1>6. ASSUME NEW d \in EvDevices, NEW source \in {now, capture[c].start - 1},
             Binds(c, d),
             capture' = [capture EXCEPT ![c].st = "captured", ![c].dev = d, ![c].source = source,
               ![c].last = IF capture[c].ord = 0 THEN 0 ELSE order[capture[c].ord].seq,
               ![c].overlapping = @ \/ (capture[c].ord # 0
                                        /\ Overlaps(capture[c].ord, capture[c].first))]
      PROVE  EvidenceInv'
  <2>1. DOMAIN capture' = Callers /\ \A e \in Callers : e # c => capture'[e] = capture[e]
    BY <1>6 DEF EvidenceInv
  <2>2. PICK last, overlaps :
          /\ last = IF v.ord = 0 THEN 0 ELSE order[v.ord].seq
          /\ overlaps = (v.overlapping \/ (v.ord # 0 /\ Overlaps(v.ord, v.first)))
    OBVIOUS
  <2>3. capture'[c] = [v EXCEPT !.st = "captured", !.dev = d, !.source = source,
                                !.last = last, !.overlapping = overlaps]
    BY <1>3, <1>6, <2>2 DEF EvidenceInv
  <2>4. capture'[c] = [st |-> "captured", dev |-> d, ord |-> v.ord, start |-> v.start,
                       first |-> v.first, last |-> last, overlapping |-> overlaps,
                       source |-> source]
    BY <1>4, <2>3
  <2>5. Bound(c, d)
    BY <1>6, BindsDevice DEF AnyDevice
  <2>6. ASSUME v.ord # 0
        PROVE  /\ v.ord \in 1..Len(order) /\ v.dev \in EvDevices
               /\ v.first \in Nat /\ order[v.ord].seq \in Nat /\ v.first <= order[v.ord].seq
               /\ last = order[v.ord].seq
               /\ orders[d] = v.ord => d = v.dev
    BY <1>1, <1>3, <2>2, <2>6 DEF CaptureGood, Taken, Mark
  <2>7. ASSUME v.ord # 0, orders[d] = v.ord
        PROVE  /\ overlaps \/ d \notin touched[c]
               /\ c \in Actions => \/ record'[c].dev = d
                                   \/ record'[c].sent # 0 /\ record'[c].sent <= v.start
               /\ c \in Readers => reader'[c].dev = d
    <3>1. d = v.dev /\ NoDevice # d
      BY <2>6, <2>7, EvidenceNamesAssumption
    <3>2. /\ v.overlapping \/ d \notin touched[c] \/ v.first < order[v.ord].seq
          /\ c \in Actions => \/ record[c].dev = d
                              \/ record[c].sent # 0 /\ record[c].sent <= v.start
          /\ c \in Readers => reader[c].dev = d
      BY <1>1, <1>3, <2>7, <3>1 DEF CaptureGood, Taken, Mark
    <3>3. v.first < order[v.ord].seq => Overlaps(v.ord, v.first)
      BY <1>1, <2>6, <2>7 DEF Overlaps
    <3>4. overlaps \/ d \notin touched[c]
      BY <2>2, <2>7, <3>2, <3>3, Zenon
    <3>5. /\ c \in Actions => \/ record'[c].dev = d
                              \/ record'[c].sent # 0 /\ record'[c].sent <= v.start
          /\ c \in Readers => reader'[c].dev = d
      BY <2>5, <3>1, <3>2 DEF Bound
    <3> QED BY <3>4, <3>5
  <2>8. CaptureGood(c)'
    <3>1. v.start \in Nat /\ v.start <= now /\ (source \in Nat \/ source = v.start - 1)
      BY <1>1, <1>3, <1>6 DEF CaptureGood
    <3> QED BY <1>1, <2>4, <2>6, <2>7, <3>1 DEF CaptureGood, Taken, Mark
  <2>9. ASSUME NEW e \in Callers, e # c PROVE CaptureGood(e)'
    <3>1. /\ e \in Actions => /\ record'[e].dev = record[e].dev
                              /\ record'[e].sent = record[e].sent
          /\ e \in Readers => reader'[e].dev = reader[e].dev
      BY <2>5, <2>9 DEF Bound
    <3> QED BY <1>1, <2>1, <2>9, <3>1, QuietStep
  <2>10. /\ \A a \in Actions : /\ record'[a].dev \in AnyDevice
                               /\ record'[a].sent \in Nat /\ record'[a].sent <= now'
         /\ \A r \in Readers : reader'[r].ref \in Actions \cup {NoAction}
         /\ now' \in Nat /\ DOMAIN touched' = Callers
    BY <1>1, <2>5 DEF Bound, EvidenceInv
  <2> QED BY <1>2, <2>1, <2>5, <2>8, <2>9, <2>10 DEF EvidenceInv, Bound
<1> QED BY <1>1, <1>5, <1>6 DEF CaptureEnds

\* A dispatch starts: it is stamped now, and touches its device for every call.
LEMMA DispatchStartsGood ==
  ASSUME EvidenceInv, NEW a \in Actions, NEW d \in EvDevices, DispatchStarts(a, d)
  PROVE  EvidenceInv'
<1>1. /\ now \in Nat /\ now' = now + 1 /\ UNCHANGED <<reader, capture>> /\ OrderInv
      /\ touched' = [c \in Callers |-> IF capture[c].st # "none" THEN touched[c] \cup {d} ELSE {}]
  BY DEF DispatchStarts, Tick, EvidenceInv
<1>2. /\ OrderInv' /\ UsesOrder(d) /\ Len(order) \in Nat
      /\ OrderOf(d) \in Nat /\ orders'[d] = OrderOf(d) /\ Len(order) <= Len(order')
      /\ \A i \in 1..Len(order) :
           /\ order'[i].seq \in Nat /\ order[i].seq \in Nat
           /\ IF i = OrderOf(d) THEN order'[i].seq > order[i].seq
              ELSE order'[i].seq = order[i].seq
  BY <1>1, StartOrders
<1>3. \A e \in EvDevices : orders'[e] \in 1..Len(order) => orders[e] = orders'[e]
  <2>1. /\ orders'[d] = OrderOf(d) /\ (OrderOf(d) \in 1..Len(order) => orders[d] = OrderOf(d))
        /\ \A e \in EvDevices \ {d} : orders'[e] = orders[e] \/ orders'[e] = 0
    BY <1>1, <1>2, OrderUsed
  <2> QED BY <1>2, <2>1
<1>4. /\ record' = [b \in Actions |-> [st |-> record'[b].st, dev |-> record'[b].dev,
                                       sent |-> record'[b].sent]]
      /\ \A b \in Actions :
           /\ record'[b].dev \in AnyDevice /\ record'[b].sent \in Nat /\ record'[b].sent <= now'
           /\ record[b].dev # NoDevice \/ b # a => record'[b].dev = record[b].dev
           /\ record[b].sent # 0 \/ b # a => record'[b].sent = record[b].sent
      /\ record'[a].sent # 0
  <2>1. /\ record = [b \in Actions |-> [st |-> record[b].st, dev |-> record[b].dev,
                                        sent |-> record[b].sent]]
        /\ \A b \in Actions : /\ record[b].dev \in AnyDevice
                              /\ record[b].sent \in Nat /\ record[b].sent <= now
    BY DEF EvidenceInv
  <2>2. PICK old, v, w : /\ old = record[a]
                         /\ v = IF record[a].dev = NoDevice THEN d ELSE record[a].dev
                         /\ w = IF record[a].sent = 0 THEN now' ELSE record[a].sent
    OBVIOUS
  <2>3. record' = [record EXCEPT ![a].dev = v, ![a].sent = w]
    BY <2>2 DEF DispatchStarts
  <2>4. old = [st |-> old.st, dev |-> old.dev, sent |-> old.sent]
    BY <2>1, <2>2
  <2>5. record'[a] = [old EXCEPT !.dev = v, !.sent = w]
    BY <2>1, <2>2, <2>3
  <2>6. record'[a] = [st |-> old.st, dev |-> v, sent |-> w]
    BY <2>4, <2>5
  <2>7. DOMAIN record' = Actions /\ \A b \in Actions : b # a => record'[b] = record[b]
    BY <2>1, <2>3
  <2>8. \A b \in Actions : record'[b] = [st |-> record'[b].st, dev |-> record'[b].dev,
                                         sent |-> record'[b].sent]
    <3> SUFFICES ASSUME NEW b \in Actions
                 PROVE  record'[b] = [st |-> record'[b].st, dev |-> record'[b].dev,
                                      sent |-> record'[b].sent]
      OBVIOUS
    <3>1. CASE b = a
      BY <2>6, <3>1
    <3>2. CASE b # a
      BY <2>1, <2>7, <3>2
    <3> QED BY <3>1, <3>2
  <2>9. record' = [b \in Actions |-> record'[b]]
    BY <2>1, <2>3
  <2>10. v \in AnyDevice /\ w \in Nat /\ w <= now' /\ w # 0
    BY <1>1, <2>1, <2>2 DEF AnyDevice
  <2>11. \A b \in Actions : record[b].sent <= now'
    BY <1>1, <2>1
  <2> QED BY <2>1, <2>2, <2>6, <2>7, <2>8, <2>9, <2>10, <2>11
<1>5. ASSUME NEW c \in Callers PROVE CaptureGood(c)'
  <2>1. PICK D : D = {d}
    OBVIOUS
  <2>2. /\ touched'[c] \subseteq touched[c] \cup D
        /\ \A e \in D \cap EvDevices : orders'[e] \in 1..Len(order) =>
             order[orders'[e]].seq < order'[orders'[e]].seq
    BY <1>1, <1>2, <2>1
  <2>3. c \in Actions =>
           /\ record[c].dev # NoDevice => record'[c].dev = record[c].dev
           /\ record[c].sent # 0 => record'[c].sent = record[c].sent
           /\ capture[c].st = "none" /\ record'[c].dev # NoDevice => record'[c].sent # 0
    BY <1>4 DEF EvidenceInv, CaptureGood
  <2>4. /\ \A i \in 1..Len(order) : order'[i].seq \in Nat /\ order[i].seq <= order'[i].seq
        /\ now' \in Nat /\ now <= now' /\ Len(order') \in Nat
        /\ capture'[c] = capture[c]
        /\ c \in Readers => reader'[c].dev = reader[c].dev
    <3>1. \A i \in 1..Len(order) : order'[i].seq \in Nat /\ order[i].seq <= order'[i].seq
      BY <1>2
    <3>2. Len(order') \in Nat
      BY <1>2 DEF OrderInv
    <3> QED BY <1>1, <3>1, <3>2
  <2> QED BY <1>2, <1>3, <2>2, <2>3, <2>4, Undisturbed
<1>6. /\ now' \in Nat /\ DOMAIN touched' = Callers /\ DOMAIN capture' = Callers
      /\ reader' = [r \in Readers |-> [st |-> reader'[r].st, ref |-> reader'[r].ref,
                                       dev |-> reader'[r].dev]]
      /\ \A r \in Readers : reader'[r].ref \in Actions \cup {NoAction}
  BY <1>1 DEF EvidenceInv
<1> QED BY <1>2, <1>4, <1>5, <1>6 DEF EvidenceInv

\* Calls begin and end, and dispatches end.
LEMMA CallsGood ==
  ASSUME EvidenceInv,
         \/ \E c \in Callers : Begins(c)
         \/ \E a \in Actions : Ends(a) \/ DispatchEnds(a)
  PROVE  EvidenceInv'
<1>1. /\ record = [b \in Actions |-> [st |-> record[b].st, dev |-> record[b].dev,
                                      sent |-> record[b].sent]]
      /\ reader = [r \in Readers |-> [st |-> reader[r].st, ref |-> reader[r].ref,
                                      dev |-> reader[r].dev]]
  BY DEF EvidenceInv
<1>2. /\ UNCHANGED <<orders, capture, touched, now>>
      /\ OrderInv' /\ Len(order') = Len(order)
      /\ \A i \in 1..Len(order) : order'[i].seq = order[i].seq
  <2>1. CASE UNCHANGED <<orders, order, dispatch>>
    <3>1. \A i : Under(i)' = Under(i)
      BY <2>1 DEF Under
    <3> QED BY <2>1, <3>1 DEF EvidenceInv, OrderInv, Begins, Ends, DispatchEnds
  <2>2. CASE \E a \in Actions : DispatchEnds(a)
    BY <2>2, EndOrders DEF EvidenceInv, DispatchEnds
  <2> QED BY <2>1, <2>2 DEF Begins, Ends
<1>3. /\ record' = [b \in Actions |-> [st |-> record'[b].st, dev |-> record'[b].dev,
                                       sent |-> record'[b].sent]]
      /\ \A b \in Actions : record'[b].dev = record[b].dev /\ record'[b].sent = record[b].sent
  <2>1. record' = record \/ \E a \in Actions : \E v : record' = [record EXCEPT ![a].st = v]
    BY DEF Begins, Ends, DispatchEnds
  <2>2. ASSUME NEW a \in Actions, NEW v, record' = [record EXCEPT ![a].st = v]
        PROVE  /\ record' = [b \in Actions |-> [st |-> record'[b].st, dev |-> record'[b].dev,
                                                sent |-> record'[b].sent]]
               /\ \A b \in Actions : record'[b].dev = record[b].dev
                                     /\ record'[b].sent = record[b].sent
    BY <1>1, <2>2
  <2> QED BY <1>1, <2>1, <2>2
<1>4. /\ reader' = [r \in Readers |-> [st |-> reader'[r].st, ref |-> reader'[r].ref,
                                       dev |-> reader'[r].dev]]
      /\ \A r \in Readers : /\ reader'[r].dev = reader[r].dev
                            /\ reader'[r].ref \in Actions \cup {NoAction}
  <2>0. \A r \in Readers : reader[r].ref \in Actions \cup {NoAction}
    BY DEF EvidenceInv
  <2>1. \/ reader' = reader
        \/ \E r \in Readers, w \in Actions \cup {NoAction} :
             reader' = [reader EXCEPT ![r].st = "open", ![r].ref = w]
    BY DEF Begins, Ends, DispatchEnds
  <2>2. ASSUME NEW r \in Readers, NEW w \in Actions \cup {NoAction},
               reader' = [reader EXCEPT ![r].st = "open", ![r].ref = w]
        PROVE  /\ reader' = [q \in Readers |-> [st |-> reader'[q].st, ref |-> reader'[q].ref,
                                                dev |-> reader'[q].dev]]
               /\ \A q \in Readers : /\ reader'[q].dev = reader[q].dev
                                     /\ reader'[q].ref \in Actions \cup {NoAction}
    <3>1. PICK old : old = reader[r]
      OBVIOUS
    <3>2. old = [st |-> old.st, ref |-> old.ref, dev |-> old.dev]
      BY <1>1, <3>1
    <3>3. reader'[r] = [old EXCEPT !.st = "open", !.ref = w]
      BY <1>1, <2>2, <3>1
    <3>4. reader'[r] = [st |-> "open", ref |-> w, dev |-> old.dev]
      BY <3>2, <3>3
    <3>5. /\ \A q \in Readers : q # r => reader'[q] = reader[q]
          /\ reader' = [q \in Readers |-> reader'[q]]
      BY <1>1, <2>2
    <3>6. ASSUME NEW q \in Readers
          PROVE  /\ reader'[q] = [st |-> reader'[q].st, ref |-> reader'[q].ref,
                                  dev |-> reader'[q].dev]
                 /\ reader'[q].dev = reader[q].dev
                 /\ reader'[q].ref \in Actions \cup {NoAction}
      <4>1. CASE q = r
        <5>1. w \in Actions \cup {NoAction}
          BY <2>2
        <5> QED BY <3>1, <3>4, <4>1, <5>1
      <4>2. CASE q # r
        BY <1>1, <2>0, <3>5, <4>2
      <4> QED BY <4>1, <4>2
    <3> QED BY <3>5, <3>6
  <2> QED BY <1>1, <2>0, <2>1, <2>2
<1>5. ASSUME NEW c \in Callers PROVE CaptureGood(c)'
  <2>1. /\ c \in Actions => record'[c].dev = record[c].dev /\ record'[c].sent = record[c].sent
        /\ c \in Readers => reader'[c].dev = reader[c].dev
    BY <1>3, <1>4
  <2> QED BY <1>2, <2>1, QuietStep
<1> QED BY <1>2, <1>3, <1>4, <1>5 DEF EvidenceInv

\* An observation is reported fresh only if no dispatch to its device was under way when
\* it was acquired, none has started since, and it is not older than its action.
\* (evidence.ts, observationFreshness)
THEOREM FreshHonestly == EvidenceSpec => []FreshIsHonest
<1>1. EvidenceInit => EvidenceInv
  <2> SUFFICES ASSUME EvidenceInit PROVE EvidenceInv
    OBVIOUS
  <2>1. OrderInv
    BY DEF EvidenceInit, OrderInv, AnyDevice
  <2>2. \A c \in Callers : CaptureGood(c)
    BY DEF EvidenceInit, CaptureGood, NoCapture, Taken, Callers
  <2> QED BY <2>1, <2>2 DEF EvidenceInit, EvidenceInv, AnyDevice
<1>2. EvidenceInv /\ [EvidenceNext]_evidenceVars => EvidenceInv'
  <2> SUFFICES ASSUME EvidenceInv, [EvidenceNext]_evidenceVars PROVE EvidenceInv'
    OBVIOUS
  <2>1. CASE UNCHANGED evidenceVars
    <3>1. \A i : Under(i)' = Under(i)
      BY <2>1 DEF evidenceVars, Under
    <3>2. OrderInv'
      BY <2>1, <3>1 DEF evidenceVars, EvidenceInv, OrderInv
    <3>3. ASSUME NEW c \in Callers PROVE CaptureGood(c)'
      BY <2>1, QuietStep DEF evidenceVars
    <3> QED BY <2>1, <3>2, <3>3 DEF evidenceVars, EvidenceInv
  <2>2. CASE EvidenceNext
    BY <2>2, CallsGood, CaptureStartsGood, CaptureEndsGood, DispatchStartsGood DEF EvidenceNext
  <2> QED BY <2>1, <2>2
<1> QED BY <1>1, <1>2, GoodIsHonest, PTL DEF EvidenceSpec
=============================================================================
