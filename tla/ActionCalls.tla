------------------------------ MODULE ActionCalls ------------------------------
(***************************************************************************)
(* One call of an input tool: the device guard of tool-handlers.ts, the    *)
(* action handler of action-execution.ts and the adapters of interact/,    *)
(* while the debugger pauses and resumes the app and the budget runs out.  *)
(*                                                                         *)
(* "tap" stands for the tools that send one input (tap, tap_element,       *)
(* swipe, type_text, press_back), "scroll" for scroll_to_element.          *)
(*                                                                         *)
(* A Bug operator is the definition after it with one plausible mistake;   *)
(* no action uses it.                                                      *)
(***************************************************************************)
EXTENDS Naturals

CONSTANT MaxSwipes  \* maxScrolls, 10 unless the call says otherwise

ASSUME SwipesAssumption == MaxSwipes \in Nat \ {0}

VARIABLES
  debugger, \* of this device: "detached", "running" or "paused"
  req,      \* the call's arguments and whether it runs under the device guard
  act,      \* createAction()'s record, and where its handler stands
  sent,     \* inputs given to adb or idb
  reply     \* what the client is told

actionVars == <<debugger, req, act, sent, reply>>

Requests == {r \in [kind : {"tap", "scroll"}, conditional : BOOLEAN, unbounded : BOOLEAN,
                    guarded : BOOLEAN] : r.conditional => r.kind = "tap"}

Flag(b) == IF b THEN "yes" ELSE "no"
\* success, a failure code, and retryable, which a thrown error leaves "unset"
Result(s, c, r) == [success |-> s, code |-> c, retryable |-> r]
Succeeded == Result(TRUE, "none", "unset")
NoReply == [success |-> FALSE, code |-> "none", retryable |-> "unset",
            delivery |-> "none", started |-> FALSE]

ActionInit ==
  /\ debugger \in {"detached", "running"}
  /\ req \in {r \in Requests : ~r.guarded}
  /\ act = [at |-> "idle", status |-> "not_checked", marked |-> FALSE, started |-> FALSE,
            late |-> FALSE, swipes |-> 0, result |-> Succeeded]
  /\ sent = 0
  /\ reply = NoReply

Blocked == req.guarded /\ debugger = "paused"   \* checkDebuggerGuard() throws
MayExpire == ~req.unbounded                     \* the deadline is finite

\* The adapters turn whatever they catch into success: false and a message.
AdapterFails(timeout) ==
  Result(FALSE, IF timeout THEN "TIMEOUT" ELSE "UNKNOWN", Flag(timeout))

Answer(response) ==
  /\ reply' = response
  /\ act' = [act EXCEPT !.at = "done"]

----------------------------------------------------------------------------
(* The debugger and the clock *)

DebuggerMoves ==
  /\ act.at # "done"
  /\ debugger' \in CASE debugger = "detached" -> {"running"}
                     [] debugger = "running" -> {"paused", "detached"}
                     [] OTHER -> {"running", "detached"}
  /\ UNCHANGED <<req, act, sent, reply>>

\* The action's budget stands still while a condition is read on its own.
BudgetExpires ==
  /\ MayExpire /\ ~act.late
  /\ act.at \notin {"idle", "guard", "condition", "done"}
  /\ act' = [act EXCEPT !.late = TRUE]
  /\ UNCHANGED <<debugger, req, sent, reply>>

----------------------------------------------------------------------------
(* tool-handlers.ts *)

\* A call is guarded when some session is attached as it begins.
CallBegins ==
  /\ act.at = "idle"
  /\ req' = [req EXCEPT !.guarded = (debugger # "detached")]
  /\ act' = [act EXCEPT !.at = IF req'.guarded THEN "guard" ELSE "prepare"]
  /\ UNCHANGED <<debugger, sent, reply>>

\* The device is resolved, then the pause is read in one turn with entering the handler.
GuardEnters(found) ==
  /\ act.at = "guard"
  /\ CASE ~found -> Answer([NoReply EXCEPT !.code = "ERROR"])
       [] found /\ Blocked -> Answer([NoReply EXCEPT !.code = "DEBUGGER_PAUSED",
                                                     !.delivery = "not_delivered"])
       [] OTHER -> act' = [act EXCEPT !.at = "prepare"] /\ UNCHANGED reply
  /\ UNCHANGED <<debugger, req, sent>>

DeliveryOf(success, started) ==
  IF success THEN "delivered" ELSE IF started THEN "unknown" ELSE "not_delivered"

\* A pause found when the handler is done replaces what it says.
GuardLeaves(response) ==
  IF ~Blocked THEN response
  ELSE [success |-> FALSE, code |-> "DEBUGGER_PAUSED", retryable |-> "no",
        started |-> act.marked,
        delivery |-> DeliveryOf(response.success, act.marked)]

----------------------------------------------------------------------------
(* The adapters: interact/android.ts, interact/ios.ts *)

Returns(result) == act' = [act EXCEPT !.at = "returned", !.result = result]
Throws(timeout) ==
  LET why == IF timeout THEN "ACTION_TIMEOUT" ELSE "UNKNOWN"
  IN  act' = [act EXCEPT !.at = "thrown", !.result = Result(FALSE, why, "unset")]

\* Everything before the input: the target is resolved, the screen observed, the
\* device looked up.
Unprepared ==
  /\ \/ \E t \in BOOLEAN : Returns(AdapterFails(t)) /\ (t => act.late)
     \/ \E t \in BOOLEAN : Throws(t) /\ (t => act.late)
  /\ UNCHANGED <<debugger, req, sent, reply>>

\* A target that is not found may be tried again.
PrepareTap ==
  /\ act.at = "prepare" /\ req.kind = "tap"
  /\ \/ Unprepared
     \/ /\ \/ Returns(Result(FALSE, "TARGET", "yes"))
           \/ /\ ~Blocked  \* resolveTargetDevice() checks the guard
              /\ act' = [act EXCEPT !.at = IF req.conditional THEN "condition" ELSE "input"]
        /\ UNCHANGED <<debugger, req, sent, reply>>

\* The element may be on the screen at once.
PrepareScroll ==
  /\ act.at = "prepare" /\ req.kind = "scroll"
  /\ \/ Unprepared
     \/ /\ \/ Returns(Succeeded)
           \/ ~Blocked /\ act' = [act EXCEPT !.at = "input"]
        /\ UNCHANGED <<debugger, req, sent, reply>>

\* beforeInputDispatch(): anything but a match throws into the adapter.
ConditionEnds(status) ==
  /\ act.at = "condition"
  /\ act' = [act EXCEPT !.status = status,
                        !.at = IF status = "matched" THEN "input" ELSE "returned",
                        !.result = IF status = "matched" THEN @ ELSE AdapterFails(FALSE)]
  /\ UNCHANGED <<debugger, req, sent, reply>>

\* A swipe of a scroll goes on whatever became of it; a tap returns it.
InputOver(a, result) ==
  IF req.kind = "scroll" THEN [a EXCEPT !.at = "look", !.swipes = @ + 1]
  ELSE [a EXCEPT !.at = "returned", !.result = result]

\* The guard is read when the call begins; the input is not checked again.
BugMarkDispatchStarted ==
  /\ act.at = "input"
  /\ LET marked == [act EXCEPT !.marked = req.guarded]
         started == [marked EXCEPT !.started = TRUE]
     IN
     \/ act.late /\ act' = InputOver(marked, AdapterFails(TRUE)) /\ UNCHANGED sent
     \/ ~act.late /\ act' = InputOver(started, AdapterFails(MayExpire)) /\ UNCHANGED sent
     \/ ~act.late /\ act' = [started EXCEPT !.at = "adb"] /\ sent' = sent + 1
  /\ UNCHANGED <<debugger, req, reply>>

\* markDispatchStarted() and the spawn, one turn: the guard is checked and marked,
\* the budget is checked, every enclosing budget is marked, and the process is
\* spawned unless the last of the budget went meanwhile or the spawn fails.
MarkDispatchStarted ==
  /\ act.at = "input"
  /\ LET marked == [act EXCEPT !.marked = req.guarded]
         started == [marked EXCEPT !.started = TRUE]
     IN
     \/ Blocked /\ act' = InputOver(act, AdapterFails(FALSE)) /\ UNCHANGED sent
     \/ ~Blocked /\ act.late /\ act' = InputOver(marked, AdapterFails(TRUE)) /\ UNCHANGED sent
     \/ ~Blocked /\ ~act.late
        /\ \/ \E t \in BOOLEAN : act' = InputOver(started, AdapterFails(t)) /\ (t => MayExpire)
                                 /\ UNCHANGED sent
           \/ act' = [started EXCEPT !.at = "adb"] /\ sent' = sent + 1
  /\ UNCHANGED <<debugger, req, reply>>

\* The process exits, fails, or is killed at its deadline; adb has one of its own.
AdbEnds ==
  /\ act.at = "adb"
  /\ \E r \in {Succeeded, AdapterFails(FALSE), AdapterFails(TRUE)} : act' = InputOver(act, r)
  /\ UNCHANGED <<debugger, req, sent, reply>>

\* scrollToElementShared(): after a swipe the tree is read and compared.
ScrollLooks ==
  /\ act.at = "look"
  /\ \/ Returns(Succeeded)
     \/ Returns(Result(FALSE, "NAVIGATION_NO_CHANGE", "yes"))
     \/ \E t \in BOOLEAN : Returns(AdapterFails(t)) /\ (t => act.late)
     \/ IF act.swipes = MaxSwipes THEN Returns(AdapterFails(FALSE))
        ELSE IF act.late THEN Throws(TRUE)
        ELSE act' = [act EXCEPT !.at = "input"]
  /\ UNCHANGED <<debugger, req, sent, reply>>

----------------------------------------------------------------------------
(* action-execution.ts *)

\* The budget's mark is copied after the handler, not in a finally.
BugDispatchStarted == act.at = "returned" /\ (act.started \/ act.result.success)

\* dispatchAction(): the budget's mark, or a success, says that input started.
DispatchStarted == act.started \/ act.result.success

Rejected == req.conditional /\ act.status \in {"mismatch", "unavailable"}

\* rejectCondition() and normalizeAction()
Normalized(started) ==
  LET r == act.result
      timeout == r.code \in {"TIMEOUT", "ACTION_TIMEOUT"}
  IN IF Rejected THEN Result(FALSE, "PRECONDITION", "no")
     ELSE IF r.success THEN r
     ELSE [r EXCEPT !.code = IF timeout THEN "ACTION_TIMEOUT" ELSE @,
                    !.retryable = IF timeout \/ @ = "unset" THEN Flag(~started) ELSE @]

\* compactAction()
Compact(result, started) ==
  [success |-> result.success, code |-> result.code, retryable |-> result.retryable,
   started |-> started,
   delivery |-> DeliveryOf(result.success, started)]

\* The uncontrolled form reports an error it did not expect as the tool's error.
ActionRespond ==
  /\ act.at \in {"returned", "thrown"}
  /\ LET started == DispatchStarted /\ ~Rejected
         response == IF /\ act.at = "thrown" /\ req.unbounded /\ ~req.conditional
                        /\ act.result.code # "ACTION_TIMEOUT"
                     THEN [NoReply EXCEPT !.code = "ERROR"]
                     ELSE Compact(Normalized(started), started)
     IN Answer(GuardLeaves(response))
  /\ UNCHANGED <<debugger, req, sent>>

ActionNext ==
  \/ DebuggerMoves
  \/ BudgetExpires
  \/ CallBegins
  \/ \E found \in BOOLEAN : GuardEnters(found)
  \/ PrepareTap
  \/ PrepareScroll
  \/ \E status \in {"matched", "mismatch", "unavailable"} : ConditionEnds(status)
  \/ MarkDispatchStarted
  \/ AdbEnds
  \/ ScrollLooks
  \/ ActionRespond

ActionSpec == ActionInit /\ [][ActionNext]_actionVars

----------------------------------------------------------------------------
(* Properties *)

\* What a client may conclude from a reply: not_delivered, or dispatch not started,
\* means that no input reached the device; a timeout may be retried only then (not so a
\* scroll that found nothing, which is retryable after its swipes); a tap reported
\* delivered was sent; and conditional input was sent only on a match
\* (compactAction, normalizeAction, rejectCondition, dispatchGuarded).
ReplyIsHonest ==
  act.at = "done" =>
    /\ reply.delivery = "not_delivered" => sent = 0
    /\ reply.delivery # "none" /\ ~reply.started => sent = 0
    /\ reply.code = "ACTION_TIMEOUT" /\ reply.retryable = "yes" => sent = 0
    /\ reply.delivery = "delivered" /\ req.kind = "tap" => sent = 1
    /\ req.conditional /\ sent > 0 => act.status = "matched"

\* No step of a guarded call hands input to a device while its app is paused: the
\* check shares the turn of the spawn, however long the call prepared (guard.ts).
NoInputWhilePaused ==
  [][sent' > sent /\ req.guarded => debugger # "paused"]_actionVars
=============================================================================
