----------------------------- MODULE ElementHandles -----------------------------
(***************************************************************************)
(* Element handles: a wait resolves an element to an id, which a later tap *)
(* or a wait for a change of a subtree looks up again in a UI that has     *)
(* moved on.                                                               *)
(*                                                                         *)
(* A Bug operator is the definition after it with one plausible mistake;   *)
(* no action uses it.                                                      *)
(***************************************************************************)
EXTENDS Naturals, Sequences, SequencesExt

CONSTANTS
  HandleDevices, \* the devices
  HandleTrees,   \* the trees a device may show: sequences of elements
  MaxHandles     \* the handles that are kept

ASSUME HandlesAssumption == MaxHandles \in Nat \ {0}
ASSUME HandleTreesAssumption ==
  \A tree \in HandleTrees : Len(tree) \in Nat /\ DOMAIN tree = 1..Len(tree)

\* An element of a tree is what its id is made of, its stable id or "none", and whether
\* it can be tapped: visible with an area, enabled, and clickable or, on iOS,
\* semantically so.

VARIABLES
  showing, \* the tree that each device shows
  handles, \* the handles, the one resolved longest ago first
  touch    \* the call: its argument, the handle it has read, and what became of it

handleVars == <<showing, handles, touch>>

NoTouch == [step |-> "idle", id |-> <<>>, device |-> "any", stored |-> "none",
            tree |-> <<>>, index |-> 0, result |-> "none"]

HandlesInit ==
  /\ showing \in [HandleDevices -> HandleTrees]
  /\ handles = <<>>
  /\ touch = NoTouch

\* The id hashes the device, the looks and the index of an element, not its stable id.
ElementId(d, tree, i) == <<d, tree[i].looks, i>>

Ids == UNION {{ElementId(d, tree, i) : i \in DOMAIN tree} :
              d \in HandleDevices, tree \in HandleTrees}

\* Stable ids, as the names of a subtree.
Keys == {<<e.stable>> : e \in UNION {Range(tree) : tree \in HandleTrees}}

ScreenMoves(d, tree) ==
  /\ touch.step # "done"
  /\ showing' = [showing EXCEPT ![d] = tree]
  /\ UNCHANGED <<handles, touch>>

----------------------------------------------------------------------------
(* The store *)

KeptHandles(id) == SelectSeq(handles, LAMBDA h : h.id = id)

Others(id) == SelectSeq(handles, LAMBDA h : h.id # id)

\* A handle that is resolved again is the newest, with the stable id of now.
Remembered(h) ==
  LET all == Append(Others(h.id), h)
  IN  IF Len(all) > MaxHandles THEN Tail(all) ELSE all

Resolve(d, i) ==
  /\ touch.step = "idle"
  /\ i \in DOMAIN showing[d]
  /\ handles' = Remembered([id |-> ElementId(d, showing[d], i),
                            stable |-> showing[d][i].stable])
  /\ UNCHANGED <<showing, touch>>

----------------------------------------------------------------------------
(* Taps *)

\* tap_element: the handle is read before the tree is, and for the device of the call if
\* that names one.
Tap(id, device) ==
  /\ touch.step = "idle"
  /\ LET found == KeptHandles(id)
         t == [touch EXCEPT !.id = id, !.device = device]
     IN  touch' = IF found = <<>> \/ device \notin {"any", id[1]}
                  THEN [t EXCEPT !.step = "done", !.result = "stale"]
                  ELSE [t EXCEPT !.step = "read", !.stored = found[1].stable]
  /\ UNCHANGED <<showing, handles>>

\* The element that has the id now can only be the one at its index.
Current(tree, id) ==
  IF id[3] \in DOMAIN tree /\ ElementId(id[1], tree, id[3]) = id THEN id[3] ELSE 0

BugActionable(e, stored) ==
  IF ~e.tappable THEN "not interactable"
  ELSE IF stored # "none" /\ e.stable # "none" /\ e.stable # stored THEN "stale"
  ELSE "sent"

Actionable(e, stored) ==
  IF ~e.tappable THEN "not interactable"
  ELSE IF stored # "none" /\ e.stable # stored THEN "stale"
  ELSE "sent"

\* The tree is read, and what it shows at the index decides: the tap is sent to the
\* middle of that element.
TapReads ==
  /\ touch.step = "read"
  /\ LET tree == showing[touch.id[1]]
         i == Current(tree, touch.id)
     IN  touch' = [touch EXCEPT !.step = "done", !.tree = tree, !.index = i,
                     !.result = IF i = 0 THEN "stale" ELSE Actionable(tree[i], touch.stored)]
  /\ UNCHANGED <<showing, handles>>

----------------------------------------------------------------------------
(* Subtrees *)

FirstOf(s) == IF s = {} THEN 0 ELSE CHOOSE i \in s : \A j \in s : i <= j

WithStable(tree, key) == FirstOf({i \in DOMAIN tree : key # "none" /\ tree[i].stable = key})

StoredKey(target) ==
  IF Len(target) = 1 THEN target[1]
  ELSE IF KeptHandles(target) = <<>> THEN "none" ELSE KeptHandles(target)[1].stable

\* The root of the subtree that is named, by an id or by a stable id, or by the stable id
\* of a handle when no element has its id.
Root(d, tree, target) ==
  LET here == {i \in DOMAIN tree : ElementId(d, tree, i) = target}
  IN  IF here # {} THEN FirstOf(here) ELSE WithStable(tree, StoredKey(target))

Subtree(d, target) ==
  /\ touch.step = "idle"
  /\ LET i == Root(d, showing[d], target)
     IN  touch' = [touch EXCEPT !.step = "done", !.id = target, !.device = d,
                     !.stored = StoredKey(target), !.tree = showing[d], !.index = i,
                     !.result = IF i = 0 THEN "not found" ELSE "scoped"]
  /\ UNCHANGED <<showing, handles>>

Forget ==
  /\ touch.step = "done"
  /\ touch' = NoTouch
  /\ UNCHANGED <<showing, handles>>

HandlesNext ==
  \/ TapReads \/ Forget
  \/ \E d \in HandleDevices :
       \/ \E tree \in HandleTrees : ScreenMoves(d, tree)
       \/ \E i \in 1..2 : Resolve(d, i)
       \/ \E target \in Ids \cup Keys : Subtree(d, target)
  \/ \E id \in Ids, device \in HandleDevices \cup {"any"} : Tap(id, device)

HandlesSpec == HandlesInit /\ [][HandlesNext]_handleVars

----------------------------------------------------------------------------
(* Properties *)

\* A tap by a handle is sent to an element that the tree read for it shows where the
\* handle saw it, on the handle's device and that of the call, looking the same, of the
\* same stable id if it had one, and ready to be tapped: an element that took its place
\* or its looks since, or a handle that was forgotten, is a stale reference.  A subtree
\* is that of the element with the id, or else of the first with the stable id.
\* (tapElementHandler 171-207, resolveTap 10-22, _isTapActionable 81-110,
\* findScopedElement 9-35)
TapsTheElement ==
  /\ touch.result = "sent" =>
       LET e == touch.tree[touch.index]
       IN  /\ <<touch.id[1], e.looks, touch.index>> = touch.id
           /\ touch.device \in {"any", touch.id[1]}
           /\ e.tappable
           /\ touch.stored \in {"none", e.stable}
  /\ touch.result = "scoped" =>
       LET same == {i \in DOMAIN touch.tree : ElementId(touch.device, touch.tree, i) = touch.id}
       IN  IF same # {} THEN touch.index \in same
           ELSE touch.tree[touch.index].stable = touch.stored /\ touch.stored # "none"
=============================================================================
