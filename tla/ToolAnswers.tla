------------------------------ MODULE ToolAnswers ------------------------------
(***************************************************************************)
(* What a call acts on, what a reply says, and what is kept for a later    *)
(* call: promises that several parts of the server keep together.          *)
(***************************************************************************)
EXTENDS AppManagement, SystemStatus, DeviceChoice, ElementHandles, ElementSearch,
        DebuggerEvents, InteractionDiagnostics

\* A call acts on what it was asked to act on: the device it names or that suits it best,
\* the element whose id it was given, the element that matches best of what it has read.
TargetsAreTrue == TargetIsHonest /\ TapsTheElement /\ FindIsHonest

\* A reply about an app or about the machine says what is so.  A successful operation left
\* the app as ManageIsHonest says, except that an iOS reset is a success whatever became of
\* the data (manage/ios.ts:145-151).  A status says what StatusIsHonest lets it say when
\* probes fail.  (manage/android.ts, manage/ios.ts, system/index.ts)
RepliesAreTrue == ManageIsHonest /\ StatusIsHonest

\* What a session or a call left to be fetched later is there until its time is up, or the
\* client is told that it is gone.
KeptOrTold == EventsAreComplete /\ ResultsAreKept

=============================================================================
