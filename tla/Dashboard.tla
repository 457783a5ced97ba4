----------------------------- MODULE Dashboard -----------------------------
(***************************************************************************)
(* One open page of the dashboard (app.js) and the server behind it        *)
(* (ui/app.py), for the runs of ONE backup.  The row of the backup shows    *)
(* what the page believes of a run it has triggered itself, its entry in    *)
(* activeRunState, before anything the list of backups says (buildRow).     *)
(* The entry is set by the button, by the answer to the trigger request     *)
(* and by the event stream of the run's log, which the server feeds by      *)
(* polling the run; it is to go when the stream ends or its tab is closed.  *)
(*                                                                         *)
(* The list itself is fetched every 30 s whatever happens; it moves         *)
(* nothing else, and is left out.  The operator is reduced to what the      *)
(* server sees: runs come, log, end and are pruned.                         *)
(***************************************************************************)
EXTENDS Naturals, Sequences, FiniteSets, SequencesExt

CONSTANTS
  MaxRuns,      \* runs ever created (a bound on the model)
  MaxLog,       \* log entries a run ever writes (a bound on the model)
  MaxTabs,      \* MAX_LOG_TABS
  GiveUpAfter   \* failing reads in a row after which a stream ends (5)

ASSUME DashboardAssumption == /\ {MaxRuns, MaxLog} \subseteq Nat
                              /\ {MaxTabs, GiveUpAfter} \subseteq Nat \ {0}

Runs == 1..MaxRuns                \* in creation order

VARIABLES
  \* the cluster
  run,       \* each run: "absent", "active", "ended", "deleted"
  log,       \* its status.log
  \* the server
  reader,    \* the generator of each run's stream: where it is, what it has
             \* sent of the log, the failing reads in a row
  sent,      \* the messages of the stream on their way
  request,   \* the trigger request, and the run it has led to
  \* the page
  entry,     \* the runName of activeRunState[key], NoEntry if it is not there
  tabs,      \* logTabs: the runs that have one
  stream,    \* of each run's tab: "open", or how it has ended ("late": before
             \* the callback was set); "none" or "abandoned" without a tab
  callbacks, \* runs whose tab has a phaseCallback that may still be called
  shown,     \* entries in a tab that may still say, or says, "completed"
  \* history
  atEnd,     \* length of each run's log when the run ended
  replaced   \* runs whose log was begun anew

cluster == <<run, log, atEnd, replaced>>
server == <<reader, sent>>
view == <<tabs, stream, callbacks, shown>>
vars == <<cluster, server, request, entry, view>>

NoRun == 0                        \* null
NoEntry == MaxRuns + 1
NoReader == [at |-> "none", seen |-> 0, errors |-> 0]

Init == /\ run = [r \in Runs |-> "absent"] /\ log = [r \in Runs |-> <<>>]
        /\ reader = [r \in Runs |-> NoReader] /\ sent = [r \in Runs |-> <<>>]
        /\ request = [at |-> "none", run |-> NoRun]
        /\ entry = NoEntry
        /\ tabs = <<>> /\ stream = [r \in Runs |-> "none"]
        /\ callbacks = {} /\ shown = [r \in Runs |-> <<>>]
        /\ atEnd = [r \in Runs |-> 0] /\ replaced = {}

-----------------------------------------------------------------------------
(* The operator                                                            *)

NextRun(r) == run[r] = "absent" /\ \A q \in Runs : q < r => run[q] # "absent"
ActiveExists == \E r \in Runs : run[r] = "active"
CreateRun(r) == /\ ~ActiveExists /\ NextRun(r)
                /\ run' = [run EXCEPT ![r] = "active"]
                /\ UNCHANGED <<log, atEnd, replaced>>

\* backup_timer creates a run.
TimerCreate == /\ \E r \in Runs : CreateRun(r)
               /\ UNCHANGED <<server, request, entry, view>>

\* _log_phase; the handler of a run the reconciler has ended logs on.
LogPhase(r) ==
  /\ run[r] \in {"active", "ended"} /\ Len(log[r]) < MaxLog
  /\ log' = [log EXCEPT ![r] = Append(@, Len(@) + 1 + IF r \in replaced THEN MaxLog ELSE 0)]
  /\ UNCHANGED <<run, atEnd, replaced, server, request, entry, view>>

\* A log begins anew when a settled run starts, and when a run is executed
\* again after a crash.
ReplaceLog(r) ==
  /\ run[r] = "active" /\ log[r] # <<>> /\ r \notin replaced
  /\ log' = [log EXCEPT ![r] = <<>>]
  /\ replaced' = replaced \union {r}
  /\ UNCHANGED <<run, atEnd, server, request, entry, view>>

EndRun(r) ==
  /\ run[r] = "active"
  /\ run' = [run EXCEPT ![r] = "ended"]
  /\ atEnd' = [atEnd EXCEPT ![r] = Len(log[r])]
  /\ UNCHANGED <<log, replaced, server, request, entry, view>>

\* Retention deletes the run and its log.
Prune(r) ==
  /\ run[r] = "ended"
  /\ run' = [run EXCEPT ![r] = "deleted"]
  /\ log' = [log EXCEPT ![r] = <<>>] /\ atEnd' = [atEnd EXCEPT ![r] = 0]
  /\ replaced' = replaced \ {r}
  /\ UNCHANGED <<server, request, entry, view>>

-----------------------------------------------------------------------------
(* The log tabs of the page                                                *)

HasTab(r) == stream[r] \notin {"none", "abandoned"}

\* The streams of some tabs are over: nothing is sent, shown or called back
\* there any more.
Over(gone, how) ==
  /\ stream' = [r \in Runs |-> IF r \in gone THEN how[r] ELSE stream[r]]
  /\ callbacks' = callbacks \ gone
  /\ shown' = [r \in Runs |-> IF r \in gone THEN <<>> ELSE shown[r]]
  /\ reader' = [r \in Runs |-> IF r \in gone THEN NoReader ELSE reader[r]]
  /\ sent' = [r \in Runs |-> IF r \in gone THEN <<>> ELSE sent[r]]

\* The user closes a tab, its stream and the entry of its run with it
\* (releaseActiveRunForTab).
CloseTab(r) ==
  /\ HasTab(r)
  /\ tabs' = SelectSeq(tabs, LAMBDA q : q # r)
  /\ Over({r}, [q \in Runs |-> "none"])
  /\ entry' = IF entry = r THEN NoEntry ELSE entry
  /\ UNCHANGED <<cluster, request>>

\* "Close all" closes every stream and releases nothing.
CloseAllLogs ==
  /\ tabs # <<>>
  /\ tabs' = <<>>
  /\ Over(Runs, [r \in Runs |-> IF entry = r THEN "abandoned" ELSE "none"])
  /\ UNCHANGED <<cluster, request, entry>>

\* The tabs that make room for another one: the oldest.
Evicted(r) == (IF Len(tabs) < MaxTabs THEN {} ELSE {Head(tabs)}) \ {r}

\* A run that has a tab is shown there, its stream alive or not; another one
\* gets a tab and a stream, if need be at the expense of the oldest tab.
OpenRunLogs(r, callback, e) ==
  \/ /\ HasTab(r)
     /\ stream' = IF callback /\ stream[r] # "open" THEN [stream EXCEPT ![r] = "late"] ELSE stream
     /\ callbacks' = IF callback THEN callbacks \union {r} ELSE callbacks
     /\ entry' = e
     /\ UNCHANGED <<tabs, shown, server>>
  \/ /\ ~HasTab(r)
     /\ LET evicted == Evicted(r)
        IN /\ tabs' = Append(SelectSeq(tabs, LAMBDA q : q \notin evicted), r)
           /\ stream' = [q \in Runs |-> IF q = r THEN "open"
                                        ELSE IF q \in evicted THEN "none" ELSE stream[q]]
           /\ callbacks' = (callbacks \ evicted) \union IF callback THEN {r} ELSE {}
           /\ shown' = [q \in Runs |-> IF q \in evicted THEN <<>> ELSE shown[q]]
           /\ reader' = [q \in Runs |-> IF q = r THEN [NoReader EXCEPT !.at = "lookup"]
                                        ELSE IF q \in evicted THEN NoReader ELSE reader[q]]
           /\ sent' = [q \in Runs |-> IF q \in evicted THEN <<>> ELSE sent[q]]
           /\ entry' = IF e \in evicted THEN NoEntry ELSE e

\* The badge, the logs button and the history bars lead to any run: the page
\* hears of it from the list, maybe before its own request is answered.
ViewLogs(r) ==
  /\ run[r] # "absent"
  /\ OpenRunLogs(r, FALSE, entry)
  /\ UNCHANGED <<cluster, request>>

-----------------------------------------------------------------------------
(* The button                                                              *)

\* Mutant: a freshly rendered button is enabled.
ClickAnyTime ==
  /\ request.at = "none"
  /\ entry' = NoRun
  /\ request' = [at |-> "server", run |-> NoRun]
  /\ UNCHANGED <<cluster, server, view>>

\* The button is disabled while there is an entry (buildRow), not while the
\* list says that a run is active.
TriggerBackup ==
  /\ request.at = "none" /\ entry = NoEntry
  /\ entry' = NoRun
  /\ request' = [at |-> "server", run |-> NoRun]
  /\ UNCHANGED <<cluster, server, view>>

\* trigger_backup: 409 beside an active run, 500 when a call fails.
ServeTrigger ==
  /\ request.at = "server"
  /\ \/ \E r \in Runs : CreateRun(r) /\ request' = [at |-> "answer", run |-> r]
     \/ request' = [at |-> "answer", run |-> NoRun] /\ UNCHANGED cluster
  /\ UNCHANGED <<server, entry, view>>

\* With the answer the entry is set, then the tab opened; without, it goes.
Answered ==
  /\ request.at = "answer"
  /\ \/ request.run \in Runs /\ OpenRunLogs(request.run, TRUE, request.run)
     \/ entry' = NoEntry /\ UNCHANGED <<server, view>>
  /\ request' = [at |-> "none", run |-> NoRun]
  /\ UNCHANGED cluster

-----------------------------------------------------------------------------
(* The event stream                                                        *)

Stream(r, reading, messages) ==
  /\ reader' = [reader EXCEPT ![r] = reading]
  /\ sent' = [sent EXCEPT ![r] = @ \o messages]

\* es.onerror, however it comes about; EventSource would retry, the page closes it.
Disconnect(r) ==
  /\ Over({r}, [q \in Runs |-> "broken"])
  /\ entry' = IF entry = r THEN NoEntry ELSE entry
  /\ UNCHANGED <<cluster, request, tabs>>

\* The endpoint looks the run up before it streams: 404 or 500 end it.
Lookup(r) ==
  /\ reader[r].at = "lookup"
  /\ \/ /\ run[r] # "deleted"
        /\ Stream(r, [NoReader EXCEPT !.at = "read"], <<>>)
        /\ UNCHANGED <<cluster, request, entry, view>>
     \/ run[r] = "deleted" /\ Disconnect(r)

Lines(r) == [i \in 1..Len(log[r]) |-> [type |-> "phase", entry |-> log[r][i]]]
Unseen(r) == SubSeq(Lines(r), reader[r].seen + 1, Len(log[r]))
Done == [type |-> "done", entry |-> 0]
Error == [type |-> "error", entry |-> 0]

\* Mutant: the stream of a run that has ended stops without a word.
ReadRunSilent(r) ==
  /\ reader[r].at = "read" /\ sent[r] = <<>> /\ run[r] \in {"active", "ended"}
  /\ IF run[r] = "active"
     THEN Stream(r, [at |-> "read", seen |-> Len(log[r]), errors |-> 0], Unseen(r))
     ELSE Stream(r, NoReader, Unseen(r))
  /\ UNCHANGED <<cluster, request, entry, view>>

\* Mutant: the end is reported before the rest of the log.
ReadRunEndFirst(r) ==
  /\ reader[r].at = "read" /\ sent[r] = <<>> /\ run[r] \in {"active", "ended"}
  /\ IF run[r] = "active"
     THEN Stream(r, [at |-> "read", seen |-> Len(log[r]), errors |-> 0], Unseen(r))
     ELSE Stream(r, NoReader, <<Done>>)
  /\ UNCHANGED <<cluster, request, entry, view>>

\* One turn of _generate, which polls every 2 s, the messages of the turn before
\* having arrived: the new entries, and the end when it is reached.
ReadRun(r) ==
  /\ reader[r].at = "read" /\ sent[r] = <<>> /\ run[r] \in {"active", "ended"}
  /\ IF run[r] = "active"
     THEN Stream(r, [at |-> "read", seen |-> Len(log[r]), errors |-> 0], Unseen(r))
     ELSE Stream(r, NoReader, Unseen(r) \o <<Done>>)
  /\ UNCHANGED <<cluster, request, entry, view>>

\* The run is gone, or a read fails, and once too often.
ReadFails(r) ==
  /\ reader[r].at = "read" /\ sent[r] = <<>>
  /\ \/ /\ run[r] = "deleted"
        /\ Stream(r, NoReader, <<Error>>)
     \/ /\ IF reader[r].errors + 1 < GiveUpAfter
           THEN Stream(r, [reader[r] EXCEPT !.errors = @ + 1], <<>>)
           ELSE Stream(r, NoReader, <<Error>>)
  /\ UNCHANGED <<cluster, request, entry, view>>

\* es.onmessage: an error closes the stream and no more.
OnMessage(r) ==
  /\ stream[r] = "open" /\ sent[r] # <<>>
  /\ LET message == Head(sent[r])
     IN \/ /\ message.type = "phase"
           /\ shown' = [shown EXCEPT ![r] = Append(@, message.entry)]
           /\ sent' = [sent EXCEPT ![r] = Tail(@)]
           /\ UNCHANGED <<reader, stream, callbacks, entry>>
        \/ /\ message.type = "error"
           /\ Over({r}, [q \in Runs |-> "error"])
           /\ UNCHANGED entry
        \/ /\ message.type = "done"
           /\ stream' = [stream EXCEPT ![r] = "done"]
           /\ entry' = IF r \in callbacks THEN NoEntry ELSE entry
           /\ sent' = [sent EXCEPT ![r] = Tail(@)]
           /\ UNCHANGED <<reader, callbacks, shown>>
  /\ UNCHANGED <<cluster, request, tabs>>

\* The connection breaks.
OnError(r) == stream[r] = "open" /\ Disconnect(r)

-----------------------------------------------------------------------------
Next == \/ \E r \in Runs : \/ LogPhase(r) \/ ReplaceLog(r) \/ EndRun(r) \/ Prune(r)
                           \/ CloseTab(r) \/ ViewLogs(r)
                           \/ Lookup(r) \/ ReadRun(r) \/ ReadFails(r)
                           \/ OnMessage(r) \/ OnError(r)
        \/ CloseAllLogs \/ TimerCreate \/ TriggerBackup \/ ServeTrigger \/ Answered

Spec == Init /\ [][Next]_vars

\* A run comes to its end, the server reads on, messages and answers arrive.
Fairness == /\ \A r \in Runs : /\ WF_vars(EndRun(r)) /\ WF_vars(Lookup(r))
                               /\ WF_vars(ReadRun(r) \/ ReadFails(r))
                               /\ WF_vars(OnMessage(r))
            /\ WF_vars(ServeTrigger) /\ WF_vars(Answered)
FairSpec == Spec /\ Fairness

-----------------------------------------------------------------------------
(* Properties                                                              *)

Streams == {"none", "open", "done", "error", "broken", "late", "abandoned"}

\* The tabs are the streams and no more than MAX_LOG_TABS.
TypeOK == /\ run \in [Runs -> {"absent", "active", "ended", "deleted"}]
          /\ \A r \in Runs : Range(log[r]) \subseteq 1..(2 * MaxLog)
          /\ \A r \in Runs : /\ reader[r].at \in {"none", "lookup", "read"}
                             /\ reader[r].errors < GiveUpAfter
          /\ stream \in [Runs -> Streams] /\ callbacks \subseteq Runs
          /\ Len(tabs) <= MaxTabs /\ \A r \in Runs : HasTab(r) <=> r \in Range(tabs)
          /\ entry \in Runs \union {NoRun, NoEntry}
          /\ request \in [at : {"none", "server", "answer"}, run : Runs \union {NoRun}]

\* The row of a backup shows the run its entry names before anything the list
\* says (buildRow), so whatever is to take the entry away must be there, and take
\* away no other's: an entry that names a run has the run's tab, which releases it
\* when closed, unless all were closed; and a live stream that calls back is the
\* one of the entry's run (its callback sets and deletes the entry without asking
\* whose it is).
EntryIsStreamed ==
  \A r \in Runs : /\ entry = r => stream[r] # "none"
                  /\ stream[r] = "open" /\ r \in callbacks => entry = r

\* A tab that says its run is completed shows what the run had logged by then,
\* each entry once and in order, through failing reads and for a tab opened at
\* any time -- unless the log was begun anew under the stream, which counts
\* entries and not logs.
Complete(r) == IsPrefix(shown[r], log[r]) /\ Len(shown[r]) >= atEnd[r]
LogIsShown == \A r \in Runs : stream[r] = "done" /\ run[r] # "deleted" =>
                               r \in replaced \/ Complete(r)

\* The same of every log.
EveryLogIsShown == \A r \in Runs : stream[r] = "done" /\ run[r] # "deleted" => Complete(r)

\* "When the tab (or its stream) dies, release the entry here or it strands
\* forever" (app.js): no entry outlives the stream of its run.
EntryDiesWithStream == \A r \in Runs : entry = r => stream[r] = "open"

\* Once no run is active any more and the user leaves the page alone, the entry
\* goes and the row shows what the list says, except for an entry stranded on a
\* stream that has ended with an error message or before the answer to the click,
\* or that "Close all" has closed (a tab opened later has no callback).
User == TriggerBackup \/ CloseAllLogs \/ \E r \in Runs : CloseTab(r) \/ ViewLogs(r)
Stranded == \E r \in Runs : /\ entry = r
                            /\ \/ stream[r] \in {"error", "late", "abandoned"}
                               \/ stream[r] = "done" /\ r \notin callbacks
RowCatchesUp ==
  <>[]~ActiveExists /\ <>[][~User]_vars => <>[](entry = NoEntry \/ Stranded)
=============================================================================
