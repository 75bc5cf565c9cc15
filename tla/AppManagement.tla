----------------------------- MODULE AppManagement -----------------------------
(***************************************************************************)
(* start_app, terminate_app, restart_app, reset_app_data, build_app,       *)
(* install_app and build_and_install: one call, its commands, and what     *)
(* they do to the app on the device.  A command runs behind a client (adb, *)
(* simctl, idb); a client that is killed at its timeout, or that loses the *)
(* device, leaves a command behind that may still take effect.             *)
(*                                                                         *)
(* A Bug operator is the definition after it with one plausible mistake;   *)
(* no action uses it.                                                      *)
(***************************************************************************)
EXTENDS Naturals

CONSTANT BuildTries \* MAX_RETRIES + 1 of xcodebuild

ASSUME BuildTriesAssumption == BuildTries \in Nat \ {0}

VARIABLES
  appCall,   \* the arguments
  phone,     \* the app on the device, and the copy of an apk that is pushed to it
  leftovers, \* commands of the call that may still take effect
  work,      \* how far the call has come, and what it remembers
  appReply   \* "none", or whether the reply is a success

manageVars == <<appCall, phone, leftovers, work, appReply>>

\* What can be on the disk: the path that was given, a bundle or apk that the build tool
\* has just written, one that was there before, and an app that some other project left
\* in DerivedData.
Artifacts == {"given", "fresh", "stale", "foreign"}

\* bounded: the action has a timeout, and spends no time on diagnostics.
AppCalls ==
  [os : {"android", "ios"}, op : {"start", "restart"}, input : {"none"}, bounded : BOOLEAN]
  \cup [os : {"android", "ios"}, op : {"terminate", "reset"}, input : {"none"},
        bounded : {FALSE}]
  \cup [os : {"android", "ios"}, op : {"install"}, input : {"app", "dir"}, bounded : {FALSE}]
  \cup [os : {"android", "ios"}, op : {"build", "build_install"}, input : {"dir"},
        bounded : {FALSE}]

FirstStep(c) ==
  CASE c.op = "start"                   -> "launch"
    [] c.op \in {"terminate", "restart"} -> "stop"
    [] c.op = "reset"   -> IF c.os = "android" THEN "clear" ELSE "stop"
    [] c.op = "install" -> "prepare"
    [] OTHER            -> IF c.os = "android" THEN "gradle" ELSE "discover"

\* "old": a process from before the call.
ManageInit ==
  /\ appCall \in AppCalls
  /\ phone \in [app : {"none", "before"}, process : {"none", "old"}, data : {"kept"},
                pushed : {FALSE}]
  /\ phone.app = "none" => phone.process = "none"
  /\ leftovers = {}
  /\ work = [step |-> FirstStep(appCall), artifact |-> "none", built |-> "no",
             attempt |-> 1, stopped |-> FALSE, installed |-> FALSE]
  /\ appReply = "none"

At(step) == appReply = "none" /\ work.step = step

Go(step) == work' = [work EXCEPT !.step = step] /\ UNCHANGED appReply

AppAnswer(ok) == appReply' = (IF ok THEN "success" ELSE "failure") /\ UNCHANGED work

----------------------------------------------------------------------------
(* Commands *)

\* install writes the artefact of the call and stops the app; pm install reads the copy
\* that push has made; launch brings a running app to the front; stop is force-stop or
\* simctl terminate; clear removes the data and stops the app.
Effect(command, d) ==
  CASE command \in {"install", "idb"} -> [d EXCEPT !.app = work.artifact, !.process = "none"]
    [] command = "push"   -> [d EXCEPT !.pushed = TRUE]
    [] command = "pm"     -> [d EXCEPT !.app = work.artifact, !.process = "none"]
    [] command = "rm"     -> [d EXCEPT !.pushed = FALSE]
    [] command = "launch" -> [d EXCEPT !.process = IF @ = "none" THEN "new" ELSE @]
    [] command = "stop"   -> [d EXCEPT !.process = "none"]
    [] command = "clear"  -> [d EXCEPT !.data = "cleared", !.process = "none"]

\* A directory is not installed, and there is no app to launch or to clear.
CanWork(command, d) ==
  CASE command \in {"install", "idb", "push"} -> work.artifact # "none"
    [] command = "pm"                -> d.pushed
    [] command \in {"launch", "clear"} -> d.app # "none"
    [] OTHER                           -> TRUE

\* "odd": exit status 0 with an output that is not the one of a success.  Only the
\* outputs of pm clear and of simctl launch are looked at.
Results == {"ok", "failed", "test_only", "odd", "lost"}

Runs(command, r) ==
  /\ r = "ok" => CanWork(command, phone)
  /\ r = "test_only" => command \in {"install", "pm"}
  /\ r = "odd" => command = "clear" \/ (command = "launch" /\ appCall.os = "ios")
  /\ phone' = IF r = "ok" THEN Effect(command, phone) ELSE phone
  /\ leftovers' = IF r \in {"odd", "lost"} THEN leftovers \cup {command} ELSE leftovers
  /\ UNCHANGED appCall

Quietly == UNCHANGED <<appCall, phone, leftovers>>

\* A command whose client was lost takes effect after all.
LateEffect ==
  \E command \in leftovers :
    /\ CanWork(command, phone)
    /\ phone' = Effect(command, phone)
    /\ leftovers' = leftovers \ {command}
    /\ UNCHANGED <<appCall, work, appReply>>

AppCrashes ==
  /\ appReply = "none" /\ phone.process # "none"
  /\ phone' = [phone EXCEPT !.process = "none"]
  /\ UNCHANGED <<appCall, leftovers, work, appReply>>

----------------------------------------------------------------------------
(* Start, terminate, restart, reset *)

\* simctl launch with no output has started nothing that is known of.
Launched(r) == AppAnswer(r = "ok")

\* The reply of a launch that failed may wait for its diagnosis: the command, once more.
Launch(r) ==
  /\ At("launch") /\ Runs("launch", r)
  /\ IF r \in {"ok", "odd"} \/ appCall.bounded
     THEN Launched(r)
     ELSE Go("launch again")

LaunchAgain(r) == At("launch again") /\ Runs("launch", r) /\ AppAnswer(FALSE)

\* What follows a stop that went well, or not.
Stopped(ok) ==
  CASE appCall.op = "terminate" -> AppAnswer(ok)
    [] appCall.op = "reset"     -> Go("container")
    [] OTHER -> work' = [work EXCEPT !.step = "launch", !.stopped = ok] /\ UNCHANGED appReply

BugStop(r) ==
  /\ At("stop") /\ Runs("stop", r)
  /\ IF r = "ok" \/ appCall.bounded THEN Stopped(TRUE) ELSE Go("stop again")

Stop(r) ==
  /\ At("stop") /\ Runs("stop", r)
  /\ IF r = "ok" \/ appCall.bounded THEN Stopped(r = "ok") ELSE Go("stop again")

StopAgain(r) == At("stop again") /\ Runs("stop", r) /\ Stopped(FALSE)

\* A bounded restart whose time is up when the app is stopped.
RestartTimesOut == At("launch") /\ appCall.op = "restart" /\ appCall.bounded
                   /\ AppAnswer(FALSE) /\ Quietly

Clear(r) ==
  /\ At("clear") /\ Runs("clear", r)
  /\ IF r \in {"ok", "odd"} THEN AppAnswer(r = "ok") ELSE Go("clear again")

ClearAgain(r) == At("clear again") /\ Runs("clear", r) /\ AppAnswer(FALSE)

\* An iOS app's data is removed on the host; a removal that fails is not looked at.
Container(found, removed) ==
  /\ At("container")
  /\ phone' = IF found /\ removed THEN [phone EXCEPT !.data = "cleared"] ELSE phone
  /\ AppAnswer(found)
  /\ UNCHANGED <<appCall, leftovers>>

----------------------------------------------------------------------------
(* Build *)

\* The build is over: with an artefact, or with an error, which the installation of an
\* Android project meets where its commands are diagnosed.
BuiltAs(a) ==
  IF appCall.op = "build" THEN AppAnswer(TRUE)
  ELSE /\ work' = [work EXCEPT !.step = IF appCall.op = "install" THEN "install" ELSE "prepare",
                               !.artifact = a]
       /\ UNCHANGED appReply

BuildFails ==
  IF appCall.op = "install" /\ appCall.os = "android" THEN Go("install again")
  ELSE AppAnswer(FALSE)

\* Gradle, which has no timeout.
Gradle(ok) ==
  /\ At("gradle") /\ Quietly
  /\ IF ok
     THEN work' = [work EXCEPT !.built = "ok", !.step = "find"] /\ UNCHANGED appReply
     ELSE BuildFails

\* An Xcode workspace or project is found up to four directories down.
Discover(found) ==
  At("discover") /\ Quietly /\ IF found THEN Go("xcodebuild") ELSE BuildFails

\* How xcodebuild ends: with status 0, another one, or killed by the watchdog.
Builds == {"ok", "failed", "killed"}

\* Every failure is tried again, whether or not the watchdog killed xcodebuild.
Attempt(r) ==
  /\ At("xcodebuild") /\ Quietly
  /\ CASE r = "ok" -> work' = [work EXCEPT !.built = "ok", !.step = "find"] /\ UNCHANGED appReply
       [] r # "ok" /\ work.attempt < BuildTries ->
            work' = [work EXCEPT !.attempt = @ + 1] /\ UNCHANGED appReply
       [] OTHER -> BuildFails

\* The first apk or .app of the project; without an .app, the first in DerivedData.
FindArtifact ==
  /\ At("find") /\ Quietly
  /\ \/ BuildFails
     \/ \E a \in {"fresh", "stale"} \cup (IF appCall.os = "ios" THEN {"foreign"} ELSE {}) :
          BuiltAs(a)

----------------------------------------------------------------------------
(* Install *)

\* The device that is meant cannot be resolved.
NoTarget == At("prepare") /\ AppAnswer(FALSE) /\ Quietly

\* What was built, or the path that was given, is what is installed.
Installs(a) == work' = [work EXCEPT !.step = "install", !.artifact = a] /\ UNCHANGED appReply

Given == IF work.artifact = "none" THEN "given" ELSE work.artifact

IsProject == appCall.op = "install" /\ appCall.input = "dir"

\* A project of Android is built first.
PrepareApk ==
  /\ At("prepare") /\ appCall.os = "android" /\ Quietly
  /\ IF IsProject THEN Go("gradle") ELSE Installs(Given)

\* One of iOS is built when no .app is found in it.
PrepareBundle ==
  /\ At("prepare") /\ appCall.os = "ios" /\ Quietly
  /\ IF IsProject THEN Go("discover") \/ Installs("stale") ELSE Installs(Given)

\* adb install -r, and once more with -t; simctl install.
Install(r) ==
  /\ At("install") /\ Runs("install", r)
  /\ CASE r = "ok" -> AppAnswer(TRUE)
       [] r # "ok" /\ appCall.os = "ios" -> Go("install again")
       [] r = "test_only" /\ appCall.os = "android" -> Go("install -t")
       [] OTHER -> Go("push")

InstallTestOnly(r) ==
  /\ At("install -t") /\ Runs("install", r)
  /\ IF r = "ok" THEN AppAnswer(TRUE) ELSE Go("push")

Push(r) ==
  /\ At("push") /\ Runs("push", r)
  /\ Go(IF r = "ok" THEN "pm" ELSE "install again")

\* The client of the first pm install may fail to start: the copy stays on the device.
PmUnavailable == At("pm") /\ Go("install again") /\ Quietly

BugPmAfter(step, r) ==
  IF step = "pm" /\ r = "test_only" THEN Go("pm -t")
  ELSE work' = [work EXCEPT !.step = "rm", !.installed = r # "failed"] /\ UNCHANGED appReply

PmAfter(step, r) ==
  IF step = "pm" /\ r = "test_only" THEN Go("pm -t")
  ELSE work' = [work EXCEPT !.step = "rm", !.installed = r = "ok"] /\ UNCHANGED appReply

Pm(step, r) == At(step) /\ Runs("pm", r) /\ PmAfter(step, r)

RemoveCopy(r) ==
  /\ At("rm") /\ Runs("rm", r)
  /\ IF work.installed THEN AppAnswer(TRUE) ELSE Go("install again")

\* The diagnosis of a failed installation runs its commands again.  On iOS idb, if there
\* is one, is tried then, and what it says is the reply.
InstallAgain(r) ==
  /\ At("install again") /\ Runs("install", r)
  /\ Go(IF appCall.os = "ios" THEN "idb" ELSE "push again")

PushAgain(r) == At("push again") /\ Runs("push", r) /\ Go("pm again")

PmAgain(r) == At("pm again") /\ Runs("pm", r) /\ AppAnswer(FALSE)

NoIdb == At("idb") /\ AppAnswer(FALSE) /\ Quietly

InstallWithIdb(r) == At("idb") /\ Runs("idb", r) /\ AppAnswer(r = "ok")

----------------------------------------------------------------------------

ManageNext ==
  \/ LateEffect \/ AppCrashes \/ RestartTimesOut \/ FindArtifact \/ NoTarget
  \/ PrepareApk \/ PrepareBundle
  \/ PmUnavailable \/ NoIdb
  \/ \E r \in Results :
       \/ Launch(r) \/ LaunchAgain(r) \/ Stop(r) \/ StopAgain(r) \/ Clear(r) \/ ClearAgain(r)
       \/ Install(r) \/ InstallTestOnly(r) \/ Push(r) \/ RemoveCopy(r)
       \/ InstallAgain(r) \/ PushAgain(r) \/ PmAgain(r) \/ InstallWithIdb(r)
       \/ \E step \in {"pm", "pm -t"} : Pm(step, r)
  \/ \E ok \in BOOLEAN : Gradle(ok) \/ Discover(ok)
  \/ \E r \in Builds : Attempt(r)
  \/ \E found, removed \in BOOLEAN : Container(found, removed)

ManageSpec == ManageInit /\ [][ManageNext]_manageVars

----------------------------------------------------------------------------
(* Properties *)

IsInstallation == appCall.op \in {"install", "build_install"}

\* A reply of success is about this call: the app on the device is the artefact that the
\* call chose, and a build tool that was run for it has succeeded; no process from before
\* a termination is left; a restart that says it terminated the app first has no
\* force-stop under way that could end the process it launched; and the data of an Android
\* app is gone after a reset.  Nothing is said of a failure, whose diagnosis runs the
\* command again and may succeed; of a restart that says it did not terminate the app; or
\* of the data after an iOS reset, which is a success whether or not it was removed.
\* (installApp 53-95, 16-45; executeBuild 174-216; terminateApp 134-145; restartApp
\* 147-165; resetAppData 167-178)
ManageIsHonest ==
  appReply = "success" =>
    /\ IsInstallation => phone.app = work.artifact
    /\ work.artifact \in {"fresh", "foreign"} \/ appCall.op = "build" => work.built = "ok"
    /\ appCall.op = "start" => phone.app # "none"
    /\ appCall.op = "terminate" => phone.process # "old"
    /\ appCall.op = "restart" /\ work.stopped => phone.process # "old" /\ "stop" \notin leftovers
    /\ appCall.op = "reset" /\ appCall.os = "android" => phone.data = "cleared"
=============================================================================
