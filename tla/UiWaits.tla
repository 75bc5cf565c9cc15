-------------------------------- MODULE UiWaits --------------------------------
(***************************************************************************)
(* wait_for_ui, wait_for_ui_change and wait_for_screen_change, and the     *)
(* resolution of a tap target, which is a wait that may take one           *)
(* observation.  Each polls a UI that changes by itself, with reads that   *)
(* take time, fail, or are skipped while the device takes no input.        *)
(* With requireReady a readiness tracker sees each reading first.          *)
(*                                                                         *)
(* A view is what a wait tells apart in a tree: the matches of its         *)
(* selector, the signatures of the text and of the state of the elements,  *)
(* or the fingerprint of the screen.                                       *)
(*                                                                         *)
(* A Bug operator is the definition after it with one plausible mistake;   *)
(* no action uses it.                                                      *)
(***************************************************************************)
EXTENDS Naturals, Sequences

CONSTANTS
  StabilityWindow, \* stability_window_ms of wait_for_ui_change
  MaxWaitTime,     \* bound: time of a wait
  MaxReads         \* bound: reads that complete, the baseline aside

ASSUME StabilityAssumption == StabilityWindow \in Nat

\* The matches of a selector, in order: "shown" (visible and no more), "hidden", or
\* "ready" (it, or its actionable ancestor, is visible, enabled and clickable).
Found == {<<>>, <<"hidden">>, <<"ready">>, <<"shown", "ready">>}

\* Signatures: of the hierarchy, which covers the others, of the text and of the state.
Signs == {<<1, 0, 0>>, <<2, 1, 0>>, <<3, 1, 1>>}

\* What a tree shows.  A dump that failed is a tree as well, captured just now and without
\* elements: it matches no selector, has no hierarchy signature and no fingerprint.
Views(kind, tree) ==
  CASE kind = "ui"     -> IF tree = "got" THEN Found ELSE {<<>>}
    [] kind = "change" -> IF tree = "got" THEN Signs ELSE {<<0, 0, 0>>}
    [] OTHER           -> IF tree = "got" THEN {"old", "new", "newer"} ELSE {"none"}

VARIABLES
  ask,     \* the arguments
  waited,  \* the time since the wait began
  memo,    \* what the wait keeps from one read to the next
  reads,   \* the reads that completed: whether they got a tree, its view, when, and
           \* whether the capture was older than 500 ms by then
  waitResult \* "none", "success" or "failed"

waitVars == <<ask, waited, memo, reads, waitResult>>

NoMemo == [stable |-> 0, baseline |-> <<>>, candidate |-> <<>>, since |-> 0]

\* Index 0 is no match.index.  A tap resolves its target with one observation: of one
\* poll ("once"), which refuses a second match, or of a wait that it asks for.
Asks ==
  [kind : {"ui"}, condition : {"exists", "not_exists", "visible", "clickable"},
   index : {0, 2}, tap : {"no"}, requireReady : {"no", "yes"}]
  \cup [kind : {"ui"}, condition : {"exists", "not_exists", "visible", "clickable"},
        index : {0, 2}, tap : {"waits"}, requireReady : {"no"}]
  \cup [kind : {"ui"}, condition : {"clickable"}, index : {0}, tap : {"once"},
        requireReady : {"no"}]
  \cup [kind : {"change"}, condition : {"any", "text_change", "state_change"},
        index : {0}, tap : {"no"}, requireReady : {"no", "yes"}]
  \cup [kind : {"screen"}, condition : {"old"}, index : {0}, tap : {"no"},
        requireReady : {"no"}]

WaitInit ==
  /\ ask \in Asks
  /\ waited = 0 /\ memo = NoMemo /\ reads = <<>> /\ waitResult = "none"

----------------------------------------------------------------------------
(* Conditions *)

\* The match that is asked for, "absent" when there is none.
Chosen(matches) ==
  LET k == IF ask.index = 0 THEN 1 ELSE ask.index
  IN  IF k \in DOMAIN matches THEN matches[k] ELSE "absent"

Meets(matches) ==
  CASE ask.condition = "exists"     -> Chosen(matches) # "absent"
    [] ask.condition = "not_exists" -> Chosen(matches) = "absent"
    [] ask.condition = "visible"    -> Chosen(matches) \in {"shown", "ready"}
    [] OTHER                        -> Chosen(matches) = "ready"

Ambiguous(matches) == ask.tap = "once" /\ Len(matches) > 1

\* The change that is expected, between two triples of signatures.
Differs(a, b) ==
  CASE ask.condition = "any"         -> a # b
    [] ask.condition = "text_change" -> a[2] # b[2]
    [] OTHER                         -> a[3] # b[3]

----------------------------------------------------------------------------
(* Polls *)

\* Only wait_for_ui_change compares times.
TimePasses ==
  /\ ask.kind = "change" /\ waitResult = "none" /\ waited < MaxWaitTime
  /\ waited' = waited + 1
  /\ UNCHANGED <<ask, memo, reads, waitResult>>

\* A read answers: what it captured some time before the answer is any view, for the
\* device shows what it likes.  The tracker of requireReady refuses a dump that failed.
Completed(v, tree, old) ==
  /\ waitResult = "none"
  /\ Len(reads) < MaxReads + (IF ask.kind = "change" THEN 1 ELSE 0)
  /\ tree = "failed" => ask.requireReady = "no" /\ ~old
  /\ reads' = Append(reads, [view |-> v, tree |-> tree, at |-> waited, old |-> old])
  /\ UNCHANGED <<ask, waited>>

\* A read throws, or the tracker refuses it: no wait forgets anything but
\* wait_for_screen_change, which starts again.
ReadFails ==
  /\ waitResult = "none" /\ ask.kind = "screen"
  /\ memo' = NoMemo
  /\ UNCHANGED <<ask, waited, reads, waitResult>>

\* The device takes no input, and nothing is read: wait_for_ui_change starts again.
DeviceBlocked ==
  /\ waitResult = "none" /\ ask.kind = "change"
  /\ memo' = [memo EXCEPT !.candidate = <<>>]
  /\ UNCHANGED <<ask, waited, reads, waitResult>>

Succeeds(ok) == waitResult' = IF ok THEN "success" ELSE "none"

Needed == IF ask.tap = "no" THEN 2 ELSE 1

\* acceptObservation: fresh observations that meet the condition are counted.
BugAccepted(v, old) == IF Meets(v) /\ ~old THEN memo.stable + 1 ELSE memo.stable

Accepted(v, old) == IF Meets(v) /\ ~old THEN memo.stable + 1 ELSE 0

\* With requireReady a wait goes on until the tracker is ready as well.
Enough(ok, ready) == Succeeds(ok /\ (ask.requireReady = "yes" => ready))

\* Without it no wait looks at the error of a tree.
UiRead(v, tree, old, ready) ==
  /\ ask.kind = "ui" /\ Completed(v, tree, old)
  /\ IF Ambiguous(v) THEN waitResult' = "failed" /\ UNCHANGED memo
     ELSE /\ memo' = [memo EXCEPT !.stable = Accepted(v, old)]
          /\ Enough(Accepted(v, old) >= Needed, ready)

\* The candidate is the change that has been read ever since `since`.
Candidate(v) ==
  CASE ~Differs(memo.baseline, v) -> [memo EXCEPT !.candidate = <<>>]
    [] Differs(memo.baseline, v) /\ memo.candidate # v ->
         [memo EXCEPT !.candidate = v, !.since = waited]
    [] OTHER -> memo

ChangeRead(v, tree, ready) ==
  /\ ask.kind = "change" /\ Completed(v, tree, FALSE)
  /\ IF memo.baseline = <<>>
     THEN memo' = [memo EXCEPT !.baseline = v] /\ UNCHANGED waitResult
     ELSE /\ memo' = Candidate(v)
          /\ Enough(memo'.candidate # <<>> /\ waited - memo'.since >= StabilityWindow, ready)

\* A new fingerprint has to be confirmed by the next read.
ScreenRead(v, tree) ==
  /\ ask.kind = "screen" /\ Completed(v, tree, FALSE)
  /\ memo' = [memo EXCEPT !.candidate =
                IF memo.candidate = <<>> /\ v \notin {"none", ask.condition} THEN <<v>>
                ELSE <<>>]
  /\ Succeeds(memo.candidate = <<v>>)

\* The timeout, the budget of the call, a pause of the debugger, a subtree that is not
\* found (in a dump that failed nothing is), or, for a tap, a dump that timed out.
WaitGivesUp ==
  /\ waitResult = "none"
  /\ waitResult' = "failed"
  /\ UNCHANGED <<ask, waited, memo, reads>>

WaitNext ==
  \/ TimePasses \/ ReadFails \/ DeviceBlocked \/ WaitGivesUp
  \/ \E tree \in {"got", "failed"} : \E v \in Views(ask.kind, tree) :
       \/ ScreenRead(v, tree)
       \/ \E ready \in BOOLEAN :
            ChangeRead(v, tree, ready) \/ \E old \in BOOLEAN : UiRead(v, tree, old, ready)

WaitSpec == WaitInit /\ [][WaitNext]_waitVars

----------------------------------------------------------------------------
(* Properties *)

Newest == Len(reads)

\* The last n reads.
Latest(n) == {reads[k] : k \in (Newest - n + 1)..Newest}

\* The latest reads show what wait_for_ui or a tap asks for.
UiHolds ==
  /\ Newest >= Needed
  /\ \A r \in Latest(Needed) :
       /\ Meets(r.view) /\ ~r.old
       /\ r.tree = "failed" => ask.condition = "not_exists"
  /\ ask.tap = "once" => Len(reads[Newest].view) = 1

\* Every read since a moment that is long enough ago shows one change.
ChangeHolds ==
  \E k \in 2..Newest :
    /\ reads[Newest].at - reads[k].at >= StabilityWindow
    /\ \A j \in k..Newest : reads[j].view = reads[k].view
    /\ Differs(reads[1].view, reads[k].view)

\* The latest two reads show one screen that is not the old one.
ScreenHolds ==
  /\ Newest >= 2
  /\ reads[Newest].view = reads[Newest - 1].view
  /\ reads[Newest].view \notin {"none", ask.condition}

\* What a successful wait says was so at its latest read, and at every read since a
\* moment that is long enough ago: a change that came, went and came back, an
\* outdated capture or a second match never count towards it.  With requireReady no read
\* counts that got no tree.  Without it one counts as a screen without elements: for the
\* condition not_exists, and for wait_for_ui_change, which takes it for a view among others;
\* for no other condition of wait_for_ui, nor for wait_for_screen_change.
\* (acceptObservation 14-21, changed 20-28, sample 7-24, observeReadinessWait 122-129)
WaitIsHonest ==
  waitResult = "success" =>
    /\ ask.requireReady = "yes" => \A k \in 1..Newest : reads[k].tree = "got"
    /\ ask.kind = "ui" => UiHolds
    /\ ask.kind = "change" => ChangeHolds
    /\ ask.kind = "screen" => ScreenHolds
=============================================================================
