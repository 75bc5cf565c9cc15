----------------------------- MODULE SystemStatus -----------------------------
(***************************************************************************)
(* get_system_status: tools and devices are probed one after the other,    *)
(* whatever the earlier probes said, and the answer is put together from   *)
(* what they learned.  Nothing holds still between two probes, so each has *)
(* every outcome.                                                          *)
(*                                                                         *)
(* A Bug operator is the definition after it with one plausible mistake;   *)
(* no action uses it.                                                      *)
(***************************************************************************)
EXTENDS Naturals, Sequences, FiniteSets

CONSTANT Phones \* the Android devices there may be

ASSUME PhonesAssumption == IsFiniteSet(Phones)

VARIABLES
  setup,   \* the host, and the app to look for
  learned, \* what the probes have told
  probing  \* the next probe; "done" when there is an answer

statusVars == <<setup, learned, probing>>

\* offline: an app with "offline" or "unauthorized" in its id.
Setups == [host : {"macos", "linux", "other"}, app : {"none", "plain", "offline", "invalid"}]

\* A device is unusable when adb calls it offline or unauthorized; odd when it is in
\* recovery or a bootloader.
PhoneStates == {"device", "unusable", "odd"}

\* No device, no version, no simulator is known before it is probed.
StatusInit ==
  /\ setup \in Setups
  /\ learned = [adb |-> FALSE, env |-> FALSE, gradle |-> TRUE, unlisted |-> FALSE,
                listed |-> <<>>, log |-> "unread", app |-> <<>>,
                xcrun |-> FALSE, booted |-> "unread", idb |-> FALSE]
  /\ probing = IF setup.host = "other" THEN "done" ELSE "adb"

ProbeTells(from, to, what) ==
  /\ probing = from
  /\ learned' = what
  /\ probing' = to
  /\ UNCHANGED setup

\* The environment names an SDK, or adb was found by its path; gradle: no JDK that is
\* set is without a java.
ProbeAdb ==
  \E ok, sdk, path, gradle \in BOOLEAN :
    ProbeTells("adb", "list", [learned EXCEPT !.adb = ok, !.env = sdk \/ (ok /\ path),
                                          !.gradle = gradle])

ListPhones ==
  \/ ProbeTells("list", "log", [learned EXCEPT !.unlisted = TRUE])
  \/ \E there \in SUBSET Phones : \E states \in [there -> PhoneStates] :
       ProbeTells("list", "log", [learned EXCEPT !.listed = states])

PhonesListed == DOMAIN learned.listed

ReadLog ==
  /\ learned.adb /\ PhonesListed # {}
  /\ \E r \in {"lines", "empty", "failed"} : ProbeTells("log", "app", [learned EXCEPT !.log = r])

\* Without adb or a device no log is read.
SkipLog == ~(learned.adb /\ PhonesListed # {}) /\ ProbeTells("log", "app", learned)

\* What can be told of the app on a device: nothing without a valid id or a usable device.
AppVerdicts(p) ==
  IF setup.app \in {"none", "invalid"} \/ ~learned.adb \/ learned.listed[p] # "device"
  THEN {"unknown"} ELSE {"installed", "absent", "unknown"}

AfterPhones == IF setup.host = "macos" THEN "xcrun" ELSE "done"

FindApp ==
  \E verdicts \in [PhonesListed -> {"installed", "absent", "unknown"}] :
    /\ \A p \in PhonesListed : verdicts[p] \in AppVerdicts(p)
    /\ ProbeTells("app", AfterPhones, [learned EXCEPT !.app = verdicts])

\* Without xcrun no simulator is looked for.
ProbeXcrun ==
  \/ ProbeTells("xcrun", "booted", [learned EXCEPT !.xcrun = TRUE])
  \/ ProbeTells("xcrun", "idb", learned)

ListBooted ==
  \E r \in {"some", "none", "failed"} : ProbeTells("booted", "idb", [learned EXCEPT !.booted = r])

ProbeIdb == \E ok \in BOOLEAN : ProbeTells("idb", "done", [learned EXCEPT !.idb = ok])

StatusNext ==
  \/ ProbeAdb \/ ListPhones \/ ReadLog \/ SkipLog \/ FindApp
  \/ ProbeXcrun \/ ListBooted \/ ProbeIdb

StatusSpec == StatusInit /\ [][StatusNext]_statusVars

----------------------------------------------------------------------------
(* The answer *)

Verdicts == {learned.app[p] : p \in DOMAIN learned.app}

Seen(state) == \E p \in PhonesListed : learned.listed[p] = state

AndroidIssues ==
  {i \in {"adb", "list", "no devices", "unusable", "log", "env", "id", "absent", "unknown"} :
     CASE i = "adb"        -> ~learned.adb
       [] i = "list"       -> learned.unlisted
       [] i = "no devices" -> ~learned.unlisted /\ PhonesListed = {}
       [] i = "unusable"   -> Seen("unusable")
       [] i = "log"        -> learned.log = "empty"
       [] i = "env"        -> ~learned.env
       [] i = "id"         -> setup.app = "invalid"
       [] i = "absent"     -> "absent" \in Verdicts
       [] i = "unknown"    -> "unknown" \in Verdicts /\ setup.app # "none"}

IosIssues == IF setup.host # "macos" \/ learned.booted = "none" THEN {"ios"} ELSE {}

Issues ==
  IF setup.host = "other" THEN {"host"}
  ELSE AndroidIssues \cup IosIssues \cup (IF learned.gradle THEN {} ELSE {"gradle"})

\* Issues are told apart by their words, and the id of an app is among them.
SaysUnusable ==
  "unusable" \in AndroidIssues \/ ("absent" \in AndroidIssues /\ setup.app = "offline")

DeviceIssue == SaysUnusable \/ "no devices" \in AndroidIssues

Logs == learned.adb /\ learned.log = "lines"

AndroidStatus ==
  CASE setup.host = "other" -> "unsupported"
    [] setup.host # "other" /\ ~learned.adb -> "unavailable"
    [] setup.host # "other" /\ learned.adb
       /\ (PhonesListed = {} \/ DeviceIssue \/ ~Logs \/ ~learned.env) -> "partially_ready"
    [] OTHER -> "ready"

Booted == learned.booted = "some"

IosStatus ==
  CASE setup.host # "macos" -> "unsupported"
    [] setup.host = "macos" /\ ~learned.xcrun -> "unavailable"
    [] setup.host = "macos" /\ learned.xcrun /\ ~Booted -> "partially_ready"
    [] OTHER -> "ready"

\* The capabilities to install, launch, interact and take screenshots are alike; debug is
\* never available before its own probe on Android.
BugAndroidCan(capability) ==
  CASE capability = "discover" -> learned.adb
    [] capability = "app"      -> learned.adb /\ PhonesListed # {}
    [] capability = "log"      -> Logs
    [] capability = "debug"    -> FALSE

AndroidCan(capability) ==
  CASE capability = "discover" -> learned.adb
    [] capability = "app"      -> learned.adb /\ PhonesListed # {} /\ ~DeviceIssue
    [] capability = "log"      -> Logs
    [] capability = "debug"    -> FALSE

IosCan(capability) ==
  CASE capability = "discover" -> learned.idb \/ learned.xcrun
    [] capability = "app"      -> (learned.idb \/ learned.xcrun) /\ Booted
    [] capability = "log"      -> learned.xcrun /\ Booted
    [] capability = "debug"    -> learned.xcrun

\* The first of the failures that keep a capability away, and "none" when none is told.
AndroidBlockedBy(capability) ==
  LET device == IF learned.adb /\ PhonesListed = {} THEN <<"device">> ELSE <<>>
      tools == (IF learned.adb THEN <<>> ELSE <<"adb">>) \o
               (IF learned.env THEN <<>> ELSE <<"env">>)
      all == CASE capability = "discover" -> tools \o device
               [] capability = "log"      -> tools
               [] OTHER                   -> device \o tools
  IN  IF AndroidCan(capability) \/ all = <<>> THEN "none" ELSE Head(all)

IosBlockedBy(capability) ==
  CASE IosCan(capability) -> "none"
    [] ~IosCan(capability) /\ ~learned.xcrun -> "xcrun"
    [] ~IosCan(capability) /\ learned.xcrun /\ ~Booted -> "device"
    [] OTHER -> "none"

AndroidReady == learned.adb /\ PhonesListed # {} /\ ~SaysUnusable

IosReady == learned.xcrun /\ Booted

BugOverall ==
  CASE AndroidIssues \cup IosIssues = {} -> "ready"
    [] AndroidIssues \cup IosIssues # {} /\ (AndroidReady \/ IosReady) -> "degraded"
    [] OTHER -> "blocked"

Overall ==
  CASE Issues = {} -> "ready"
    [] Issues # {} /\ (AndroidReady \/ IosReady) -> "degraded"
    [] OTHER -> "blocked"

\* summary.overall: another verdict, from the platforms and gradle.
Summary ==
  LET ready == <<AndroidStatus = "ready", IosStatus = "ready",
                 setup.host # "other" /\ learned.gradle>>
  IN  CASE \A k \in 1..3 : ready[k]  -> "ready"
        [] \A k \in 1..3 : ~ready[k] -> "blocked"
        [] OTHER                     -> "degraded"

\* appInstalled, when the reply has it.
AppInstalled ==
  IF Cardinality(PhonesListed) = 1 /\ "unknown" \notin Verdicts THEN Verdicts ELSE {}

----------------------------------------------------------------------------
(* Properties *)

\* The probes that have failed, or never ran because another had.  The app is unknown where
\* its id is no id, or a device could not be asked.
FailedProbes ==
  {p \in {"adb", "list", "log", "app", "xcrun", "booted", "idb"} :
     CASE p = "adb"    -> ~learned.adb
       [] p = "list"   -> learned.unlisted
       [] p = "log"    -> learned.log = "failed"
       [] p = "app"    -> setup.app # "none" /\ "unknown" \in Verdicts
       [] p = "xcrun"  -> ~learned.xcrun
       [] p = "booted" -> learned.booted = "failed"
       [] p = "idb"    -> ~learned.idb}

\* Those that leave no issue when they fail.
Silent == {"log", "xcrun", "booted", "idb"}

\* The probes that a capability rests on.
AndroidNeeds(capability) ==
  CASE capability = "discover" -> {"adb"}
    [] capability = "app"      -> {"adb", "list"}
    [] capability = "log"      -> {"adb", "list", "log"}

IosNeeds(capability) == IF capability = "discover" THEN {} ELSE {"xcrun", "booted"}

\* What the failures of an answer allow it to say.
FailuresCount(capability) ==
  /\ AndroidCan(capability) => FailedProbes \cap AndroidNeeds(capability) = {}
  /\ IosCan(capability) => FailedProbes \cap IosNeeds(capability) = {}
  /\ IosCan(capability) => ~({"xcrun", "idb"} \subseteq FailedProbes)

\* A probe that fails takes away what rests on it: no operation is called available, and so
\* no platform ready, and no app installed or absent, where a probe it needs has failed.
\* The overall verdict is "ready" only if adb, a device, the environment, the JDK and the
\* app were found and no probe failed but those of the log, of xcrun, of the booted
\* simulators and of idb: these leave no issue, although "any failures are surfaced in the
\* issues array" (docs/tools/system.md:74), and "ready" is said in spite of them.
\* "blocked" means that neither platform can take an app.  The verdicts of an answer agree:
\* a platform is ready when it can do all but debug, can do nothing when it is unavailable,
\* and what it can do has no failure that blocks it, while what it cannot do on iOS has one.
\* (getSystemStatus 12-95, checkAndroid 5-51, checkIOS 4-28, buildAndroidPlatform 6-55,
\* buildIOSPlatform 7-83, buildLegacySummary 4-47)
StatusIsHonest ==
  probing = "done" =>
    /\ Overall = "ready" =>
         /\ setup.host = "macos" /\ learned.env /\ learned.gradle
         /\ PhonesListed # {} /\ ~Seen("unusable")
         /\ setup.app # "none" => Verdicts = {"installed"}
         /\ FailedProbes \subseteq Silent /\ learned.log # "empty" /\ learned.booted # "none"
    /\ Overall = "blocked" => ~AndroidCan("app") /\ ~IosCan("app") /\ Summary # "ready"
    /\ \A c \in {"discover", "app", "log"} :
         /\ FailuresCount(c)
         /\ AndroidCan(c) => AndroidBlockedBy(c) = "none" /\ AndroidStatus # "unavailable"
         /\ AndroidStatus = "ready" => AndroidCan(c)
         /\ IosStatus = "ready" => IosCan(c)
         /\ IosCan(c) <=> IosBlockedBy(c) = "none"
    /\ AppInstalled # {} =>
         /\ setup.app # "none" /\ "app" \notin FailedProbes
         /\ \E p \in Phones : PhonesListed = {p} /\ learned.listed[p] = "device"
=============================================================================
