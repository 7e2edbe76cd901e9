------------------------------ MODULE P2VDialog ------------------------------
(***************************************************************************)
(* The dialogs of virt-p2v (p2v/gui.c): the connection is tested in        *)
(* detached threads, each with its own copy of the settings, the Next      *)
(* button leads to the conversion dialog, and its Start button starts the  *)
(* conversion with the settings of the last click on "Test connection".    *)
(* The Back button is left out: create_running_dialog makes it insensitive *)
(* for good, in place of the Cancel button.                                *)
(***************************************************************************)
EXTENDS Integers, FiniteSets

CONSTANTS
  Servers,   \* conversion servers
  Bad,       \* what the user may type that test_connection_clicked refuses
  Threads,   \* clicks on "Test connection"
  Patient,   \* the user clicks only when no test is under way
  None       \* no settings

VARIABLES
  entry,     \* what the fields show
  config,    \* the settings in config
  thread,    \* thread -> "unborn", "born", "testing", "done"
  copy,      \* thread -> its copy of the settings
  asked,     \* thread -> the settings that were shown when it was started
  tested,    \* thread -> the settings it tested
  passed,    \* settings whose test succeeded
  next,      \* the Next button is sensitive
  last,      \* whether the last test to end succeeded
  dialog,    \* "connection", "conversion" or "running"
  converts   \* the settings of the conversion

vars == <<entry, config, thread, copy, asked, tested, passed, next, last, dialog, converts>>

Init ==
  /\ entry \in Servers /\ config = None /\ thread = [t \in Threads |-> "unborn"]
  /\ copy = [t \in Threads |-> None] /\ asked = [t \in Threads |-> None]
  /\ tested = [t \in Threads |-> None]
  /\ passed = {} /\ next = FALSE /\ last = FALSE /\ dialog = "connection" /\ converts = None

UnderWay == {t \in Threads : thread[t] \in {"born", "testing"}}
Clicks == Patient => UnderWay = {}

-----------------------------------------------------------------------------

Edit(s) ==
  /\ dialog = "connection" /\ Clicks /\ s # entry /\ entry' = s
  /\ UNCHANGED <<config, thread, copy, asked, tested, passed, next, last, dialog, converts>>

\* test_connection_clicked: the fields go to config; if they are in order a thread is started.
TestClicked ==
  /\ dialog = "connection" /\ Clicks /\ config' = entry
  /\ \/ entry \in Bad /\ UNCHANGED <<thread, copy, asked>>
     \/ /\ entry \notin Bad
        /\ \E t \in Threads :
             /\ thread[t] = "unborn" /\ thread' = [thread EXCEPT ![t] = "born"]
             /\ copy' = [copy EXCEPT ![t] = entry] /\ asked' = [asked EXCEPT ![t] = entry]
  /\ UNCHANGED <<entry, tested, passed, next, last, dialog, converts>>

\* Mutant: the thread reads the settings of the dialog.
TestRuns_shared(t) ==
  /\ thread[t] = "born" /\ thread' = [thread EXCEPT ![t] = "testing"]
  /\ tested' = [tested EXCEPT ![t] = config]
  /\ UNCHANGED <<entry, config, copy, asked, passed, next, last, dialog, converts>>

\* test_connection_thread calls test_connection with its copy.
TestRuns(t) ==
  /\ thread[t] = "born" /\ thread' = [thread EXCEPT ![t] = "testing"]
  /\ tested' = [tested EXCEPT ![t] = copy[t]]
  /\ UNCHANGED <<entry, config, copy, asked, passed, next, last, dialog, converts>>

\* Mutant: a failed test leaves the Next button as it is.
TestResult_keep(t) ==
  /\ thread[t] = "testing" /\ thread' = [thread EXCEPT ![t] = "done"]
  /\ \/ next' = TRUE /\ last' = TRUE /\ passed' = passed \cup {tested[t]}
     \/ last' = FALSE /\ UNCHANGED <<next, passed>>
  /\ UNCHANGED <<entry, config, copy, asked, tested, dialog, converts>>

\* The result: the Next button is enabled or disabled.
TestResult(t) ==
  /\ thread[t] = "testing" /\ thread' = [thread EXCEPT ![t] = "done"]
  /\ \/ next' = TRUE /\ last' = TRUE /\ passed' = passed \cup {tested[t]}
     \/ next' = FALSE /\ last' = FALSE /\ UNCHANGED passed
  /\ UNCHANGED <<entry, config, copy, asked, tested, dialog, converts>>

NextClicked ==
  /\ dialog = "connection" /\ next /\ Clicks /\ dialog' = "conversion"
  /\ UNCHANGED <<entry, config, thread, copy, asked, tested, passed, next, last, converts>>

\* Mutant: the settings of the conversion are read from the fields.
StartClicked_shown ==
  /\ dialog = "conversion" /\ dialog' = "running" /\ converts' = entry
  /\ UNCHANGED <<entry, config, thread, copy, asked, tested, passed, next, last>>

\* start_conversion_clicked and start_conversion_thread.
StartClicked ==
  /\ dialog = "conversion" /\ dialog' = "running" /\ converts' = config
  /\ UNCHANGED <<entry, config, thread, copy, asked, tested, passed, next, last>>

Next ==
  \/ \E s \in Servers \cup Bad : Edit(s)
  \/ TestClicked \/ NextClicked \/ StartClicked
  \/ \E t \in Threads : TestRuns(t) \/ TestResult(t)

Spec == Init /\ [][Next]_vars

-----------------------------------------------------------------------------
(* Properties *)

\* A test is made with the settings that were shown when it was asked for, although the dialog may
\* have changed them since: every thread has its own copy of config.
OwnSettings == \A t \in Threads : tested[t] # None => tested[t] = asked[t]

\* The Next button is sensitive only if the last test to end succeeded.
NextIsLast == next => last

\* The conversion is started only with settings whose test succeeded.
OnlyTested == converts # None => converts \in passed

\* No test connection is open when the conversion begins.
\* The code does not have this property (README.md, "Known divergences").
TestsClosed == dialog = "running" => UnderWay = {}

=============================================================================
