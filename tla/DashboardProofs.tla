--------------------------- MODULE DashboardProofs ---------------------------
(***************************************************************************)
(* For any number of runs and tabs: an entry of activeRunState that names a *)
(* run has a tab to release it, no stream's callback touches another run's  *)
(* entry, and a tab that says "completed" shows what its run logged.         *)
(***************************************************************************)
EXTENDS Dashboard, SequenceTheorems, TLAPS

Types == /\ stream \in [Runs -> Streams] /\ callbacks \subseteq Runs
         /\ request.at \in {"none", "server", "answer"}
         /\ request.run \in Runs \union {NoRun}

\* While the click is unanswered the entry names no run.
Unnamed == request.at # "none" => entry \notin Runs

\* A stream calls back only into a tab.
CallsTabs == \A r \in callbacks : HasTab(r)

Inv == Types /\ Unnamed /\ CallsTabs /\ EntryIsStreamed

LEMMA Numbers == NoEntry \notin Runs /\ NoRun \notin Runs /\ NoEntry # NoRun
  BY DashboardAssumption DEF NoEntry, NoRun, Runs

\* Steps that leave the page alone.
LEMMA PageAlone ==
  ASSUME Inv, UNCHANGED <<stream, callbacks, entry, request>> PROVE Inv'
  BY DEF Inv, Types, Unnamed, CallsTabs, HasTab, EntryIsStreamed

\* A run is shown, new or again; e is the entry then.
LEMMA Opens ==
  ASSUME Inv, NEW r \in Runs, NEW callback \in BOOLEAN, NEW e,
         OpenRunLogs(r, callback, e),
         \/ callback /\ e = r /\ entry \notin Runs
         \/ ~callback /\ e = entry
  PROVE  /\ stream' \in [Runs -> Streams] /\ callbacks' \subseteq Runs
         /\ CallsTabs' /\ EntryIsStreamed'
         /\ entry' \in {e, NoEntry}
<1>1. CASE HasTab(r)
  <2>1. /\ stream' = IF callback /\ stream[r] # "open" THEN [stream EXCEPT ![r] = "late"] ELSE stream
        /\ callbacks' = IF callback THEN callbacks \union {r} ELSE callbacks
        /\ entry' = e
    BY <1>1 DEF OpenRunLogs
  <2>2. stream' \in [Runs -> Streams] /\ callbacks' \subseteq Runs
    BY <2>1 DEF Inv, Types, Streams
  <2>3. CallsTabs'
    BY <1>1, <2>1 DEF Inv, Types, CallsTabs, HasTab
  <2>4. EntryIsStreamed'
    BY <1>1, <2>1 DEF Inv, Types, EntryIsStreamed, HasTab
  <2> QED
    BY <2>1, <2>2, <2>3, <2>4
<1>2. CASE ~HasTab(r)
  <2>1. PICK evicted : /\ r \notin evicted
                       /\ stream' = [q \in Runs |-> IF q = r THEN "open"
                                        ELSE IF q \in evicted THEN "none" ELSE stream[q]]
                       /\ callbacks' = (callbacks \ evicted) \union IF callback THEN {r} ELSE {}
                       /\ entry' = IF e \in evicted THEN NoEntry ELSE e
    <3> DEFINE gone == (IF Len(tabs) < MaxTabs THEN {} ELSE {Head(tabs)}) \ {r}
    <3>1. /\ stream' = [q \in Runs |-> IF q = r THEN "open"
                                        ELSE IF q \in gone THEN "none" ELSE stream[q]]
          /\ callbacks' = (callbacks \ gone) \union IF callback THEN {r} ELSE {}
          /\ entry' = IF e \in gone THEN NoEntry ELSE e
      BY <1>2 DEF OpenRunLogs, Evicted
    <3>2. r \notin gone
      OBVIOUS
    <3> QED
      BY <3>1, <3>2
  <2>2. stream' \in [Runs -> Streams] /\ callbacks' \subseteq Runs
    BY <2>1 DEF Inv, Types, Streams
  <2>3. CallsTabs'
    BY <2>1 DEF Inv, Types, CallsTabs, HasTab
  <2>4. r \notin callbacks
    BY <1>2 DEF Inv, CallsTabs
  <2>5. EntryIsStreamed'
    BY <2>1, <2>4, Numbers DEF Inv, Types, EntryIsStreamed
  <2> QED
    BY <2>1, <2>2, <2>3, <2>5
<1> QED
  BY <1>1, <1>2

\* The tabs of some runs close or their streams break, their entry goes along.
LEMMA Ends ==
  ASSUME Inv, NEW gone \in SUBSET Runs, NEW how \in [Runs -> Streams \ {"open"}],
         Over(gone, how), request' = request,
         \A r \in gone : entry' = r => how[r] # "none",
         entry' = entry \/ (entry \in gone /\ entry' = NoEntry)
  PROVE  Inv'
<1>1. /\ stream' = [r \in Runs |-> IF r \in gone THEN how[r] ELSE stream[r]]
      /\ callbacks' = callbacks \ gone
  BY DEF Over
<1>2. Types'
  BY <1>1 DEF Inv, Types, Streams
<1>3. Unnamed'
  BY Numbers DEF Inv, Unnamed
<1>4. CallsTabs'
  BY <1>1 DEF Inv, Types, CallsTabs, HasTab
<1>5. EntryIsStreamed'
  BY <1>1, Numbers DEF Inv, Types, EntryIsStreamed, Streams
<1> QED
  BY <1>2, <1>3, <1>4, <1>5 DEF Inv

LEMMA Clicked == ASSUME Inv, TriggerBackup PROVE Inv'
  BY Numbers DEF TriggerBackup, view, Inv, Types, Unnamed, CallsTabs, HasTab, EntryIsStreamed

LEMMA Served == ASSUME Inv, ServeTrigger PROVE Inv'
<1>1. /\ UNCHANGED <<stream, callbacks, entry>>
      /\ request.at = "server" /\ request'.at = "answer" /\ request'.run \in Runs \union {NoRun}
  BY DEF ServeTrigger, view, CreateRun
<1> QED
  BY <1>1 DEF Inv, Types, Unnamed, CallsTabs, HasTab, EntryIsStreamed

LEMMA AnsweredKeeps == ASSUME Inv, Answered PROVE Inv'
<1>1. request'.at = "none" /\ request'.run = NoRun /\ entry \notin Runs
  BY DEF Answered, Inv, Unnamed
<1>2. CASE request.run \in Runs /\ OpenRunLogs(request.run, TRUE, request.run)
  BY <1>1, <1>2, Opens DEF Inv, Types, Unnamed
<1>3. CASE entry' = NoEntry /\ UNCHANGED <<server, view>>
  BY <1>1, <1>3, Numbers DEF view, Inv, Types, Unnamed, CallsTabs, HasTab, EntryIsStreamed
<1> QED
  BY <1>2, <1>3 DEF Answered

LEMMA Viewed == ASSUME Inv, NEW r \in Runs, ViewLogs(r) PROVE Inv'
<1>1. OpenRunLogs(r, FALSE, entry) /\ request' = request
  BY DEF ViewLogs
<1> QED
  BY <1>1, Opens, Numbers DEF Inv, Types, Unnamed

LEMMA Messaged == ASSUME Inv, NEW r \in Runs, OnMessage(r) PROVE Inv'
<1>1. request' = request /\ stream[r] = "open"
  BY DEF OnMessage
<1>2. CASE UNCHANGED <<stream, callbacks, entry>>
  BY <1>1, <1>2, PageAlone
<1>3. CASE Over({r}, [q \in Runs |-> "error"]) /\ UNCHANGED entry
  BY <1>1, <1>3, Ends DEF Streams
<1>4. CASE /\ stream' = [stream EXCEPT ![r] = "done"] /\ callbacks' = callbacks
           /\ entry' = IF r \in callbacks THEN NoEntry ELSE entry
  BY <1>1, <1>4, Numbers DEF Inv, Types, Streams, Unnamed, CallsTabs, HasTab, EntryIsStreamed
<1> QED
  BY <1>2, <1>3, <1>4 DEF OnMessage

LEMMA Disconnected == ASSUME Inv, NEW r \in Runs, Disconnect(r) PROVE Inv'
<1>1. /\ Over({r}, [q \in Runs |-> "broken"]) /\ request' = request
      /\ entry' = IF entry = r THEN NoEntry ELSE entry
  BY DEF Disconnect
<1> QED
  BY <1>1, Ends DEF Streams

LEMMA Closed == ASSUME Inv, NEW r \in Runs, CloseTab(r) PROVE Inv'
<1>1. /\ Over({r}, [q \in Runs |-> "none"]) /\ request' = request
      /\ entry' = IF entry = r THEN NoEntry ELSE entry
  BY DEF CloseTab
<1> QED
  BY <1>1, Ends, Numbers DEF Streams

LEMMA AllClosed == ASSUME Inv, CloseAllLogs PROVE Inv'
<1> DEFINE how == [r \in Runs |-> IF entry = r THEN "abandoned" ELSE "none"]
<1>1. Over(Runs, how) /\ request' = request /\ entry' = entry
  BY DEF CloseAllLogs
<1> QED
  BY <1>1, Ends DEF Streams

\* EntryIsStreamed is not inductive by itself: the answer must find no other
\* run's callback alive, and a tab is opened without one.
THEOREM EntriesAreStreamed == Spec => []EntryIsStreamed
<1>1. Init => Inv
  BY Numbers DEF Init, Inv, Types, Streams, Unnamed, CallsTabs, EntryIsStreamed
<1>2. ASSUME Inv, [Next]_vars PROVE Inv'
  <2>1. ASSUME NEW r \in Runs, LogPhase(r) \/ ReplaceLog(r) \/ EndRun(r) \/ Prune(r)
        PROVE  Inv'
    BY <1>2, <2>1, PageAlone DEF LogPhase, ReplaceLog, EndRun, Prune, view
  <2>2. ASSUME NEW r \in Runs, Lookup(r) PROVE Inv'
    BY <1>2, <2>2, PageAlone, Disconnected DEF Lookup, view
  <2>3. ASSUME NEW r \in Runs, ReadRun(r) \/ ReadFails(r) PROVE Inv'
    BY <1>2, <2>3, PageAlone DEF ReadRun, ReadFails, view
  <2>4. ASSUME NEW r \in Runs, OnError(r) PROVE Inv'
    BY <1>2, <2>4, Disconnected DEF OnError
  <2>5. CASE TimerCreate \/ UNCHANGED vars
    BY <1>2, <2>5, PageAlone DEF TimerCreate, vars, view
  <2> QED
    BY <1>2, <2>1, <2>2, <2>3, <2>4, <2>5, Closed, Viewed, Messaged, AllClosed, Clicked,
       Served, AnsweredKeeps DEF Next
<1>3. Inv => EntryIsStreamed
  BY DEF Inv
<1> QED
  BY <1>1, <1>2, <1>3, PTL DEF Spec

-----------------------------------------------------------------------------
(* The log of a run and its tab                                            *)

Message == [type : {"phase", "done", "error"}, entry : Nat]
Reader == [at : {"none", "lookup", "read"}, seen : Nat, errors : Nat]

Data == /\ run \in [Runs -> {"absent", "active", "ended", "deleted"}]
        /\ log \in [Runs -> Seq(Nat)] /\ atEnd \in [Runs -> Nat]
        /\ shown \in [Runs -> Seq(Nat)] /\ sent \in [Runs -> Seq(Message)]
        /\ reader \in [Runs -> Reader] /\ stream \in [Runs -> Streams]

\* s is the beginning of t, entry by entry.
Begins(s, t) == Len(s) <= Len(t) /\ \A i \in 1..Len(s) : s[i] = t[i]

LEMMA BeginsIsPrefix ==
  ASSUME NEW s \in Seq(Nat), NEW t \in Seq(Nat), Begins(s, t)
  PROVE  IsPrefix(s, t)
<1>1. Len(s) \in Nat /\ Len(t) \in Nat
  OBVIOUS
<1>2. SubSeq(s, 1, Len(s)) = [i \in 1..Len(s) |-> s[i]]
  BY <1>1
<1>3. SubSeq(t, 1, Len(s)) = [i \in 1..Len(s) |-> t[i]]
  BY <1>1
<1> QED
  BY <1>1, <1>2, <1>3 DEF Begins, IsPrefix

\* The run is there and its log has never been begun anew.
Kept(r) == run[r] # "deleted" /\ r \notin replaced

\* What the tab shows, and after it the entries on their way, is what the log
\* begins with, and the server has counted them; the message that ends a stream
\* comes last, and "done" only after all the run had logged when it ended; a
\* stream that is over has nothing on its way, one that is not of a live or
\* completed tab shows nothing.
Faithful(r) ==
  /\ run[r] = "ended" => atEnd[r] <= Len(log[r])
  /\ Begins(shown[r], log[r])
  /\ \A i \in 1..Len(sent[r]) :
       /\ sent[r][i].type = "phase" =>
            Len(shown[r]) + i <= Len(log[r]) /\ sent[r][i].entry = log[r][Len(shown[r]) + i]
       /\ sent[r][i].type # "phase" => i = Len(sent[r]) /\ reader[r].at = "none"
       /\ sent[r][i].type = "done" => run[r] = "ended" /\ Len(shown[r]) + i > atEnd[r]
  /\ reader[r].at = "read" => reader[r].seen = Len(shown[r]) + Len(sent[r])
  /\ reader[r].at = "lookup" => shown[r] = <<>> /\ sent[r] = <<>>
  /\ stream[r] = "done" => run[r] = "ended" /\ Len(shown[r]) >= atEnd[r]
  /\ stream[r] # "open" => sent[r] = <<>> /\ reader[r].at = "none"
  /\ stream[r] \notin {"open", "done", "late"} => shown[r] = <<>>

LogInv == Data /\ \A r \in Runs : Kept(r) => Faithful(r)

\* A run the step does not concern.
LEMMA RunAlone ==
  ASSUME NEW r \in Runs, Kept(r) => Faithful(r),
         run'[r] = run[r], log'[r] = log[r], atEnd'[r] = atEnd[r], shown'[r] = shown[r],
         sent'[r] = sent[r], reader'[r] = reader[r], stream'[r] = stream[r],
         r \in replaced => r \in replaced'
  PROVE  Kept(r)' => Faithful(r)'
BY DEF Kept, Faithful, Begins

\* A run whose stream is over and whose tab shows nothing.
LEMMA RunBlank ==
  ASSUME NEW r \in Runs, Data, Kept(r) => Faithful(r),
         run'[r] = run[r], log'[r] = log[r], atEnd'[r] = atEnd[r], shown'[r] = <<>>,
         sent'[r] = <<>>, stream'[r] # "done",
         \/ reader'[r] = NoReader
         \/ reader'[r] = [NoReader EXCEPT !.at = "lookup"] /\ stream'[r] = "open",
         r \in replaced => r \in replaced'
  PROVE  Kept(r)' => Faithful(r)'
BY DEF Kept, Faithful, Begins, NoReader, Data

LEMMA Readers ==
  NoReader \in Reader /\ [NoReader EXCEPT !.at = "lookup"] \in Reader
  /\ [NoReader EXCEPT !.at = "read"] \in Reader
BY DEF NoReader, Reader

-----------------------------------------------------------------------------
\* The operator's steps.

LEMMA CreateLogged ==
  ASSUME LogInv, NEW q \in Runs, CreateRun(q), UNCHANGED <<server, view>>
  PROVE  LogInv'
<1> USE DEF server, view, LogInv
<1>1. Data'
  BY DEF CreateRun, Data
<1>2. ASSUME NEW r \in Runs PROVE Kept(r)' => Faithful(r)'
  BY DEF CreateRun, NextRun, Data, Kept, Faithful, Begins
<1> QED
  BY <1>1, <1>2

LEMMA Logged ==
  ASSUME LogInv, NEW q \in Runs, LogPhase(q)
  PROVE  LogInv'
<1> USE DEF server, view, LogInv
<1>1. PICK e \in Nat : log' = [log EXCEPT ![q] = Append(log[q], e)]
  <2>1. PICK c \in Nat : c = IF q \in replaced THEN MaxLog ELSE 0
    BY DashboardAssumption
  <2>2. log' = [log EXCEPT ![q] = Append(log[q], Len(log[q]) + 1 + c)]
    BY <2>1 DEF LogPhase
  <2>3. Len(log[q]) + 1 + c \in Nat
    BY <2>1 DEF Data
  <2> QED
    BY <2>2, <2>3
<1>2. UNCHANGED <<run, atEnd, replaced, server, view>>
  BY DEF LogPhase
<1>3. Data'
  BY <1>1, <1>2 DEF Data
<1>4. ASSUME NEW r \in Runs PROVE Kept(r)' => Faithful(r)'
  <2>1. CASE r # q
    BY <1>1, <1>2, <2>1, RunAlone DEF Data
  <2>2. CASE r = q
    <3>1. /\ Len(log'[r]) = Len(log[r]) + 1 /\ Len(log[r]) \in Nat
          /\ \A i \in 1..Len(log[r]) : log'[r][i] = log[r][i]
      BY <1>1, <2>2 DEF Data
    <3>2. /\ Len(shown[r]) \in Nat /\ Len(sent[r]) \in Nat /\ atEnd[r] \in Nat
      BY DEF Data
    <3> SUFFICES ASSUME Kept(r)' PROVE Faithful(r)'
      OBVIOUS
    <3>3. Faithful(r)
      BY <1>2 DEF Kept
    <3>4. Begins(shown[r], log'[r])
      BY <3>1, <3>2, <3>3 DEF Faithful, Begins
    <3>5. ASSUME NEW i \in 1..Len(sent[r]), sent[r][i].type = "phase"
          PROVE  Len(shown[r]) + i <= Len(log'[r])
                 /\ sent[r][i].entry = log'[r][Len(shown[r]) + i]
      <4>1. Len(shown[r]) + i \in 1..Len(log[r])
        BY <3>1, <3>2, <3>3, <3>5 DEF Faithful
      <4> QED
        BY <4>1, <3>1, <3>3, <3>5 DEF Faithful
    <3>6. /\ run'[r] = run[r] /\ atEnd'[r] = atEnd[r] /\ shown' = shown /\ sent' = sent
          /\ reader' = reader /\ stream' = stream
      BY <1>2
    <3>7. run'[r] = "ended" => atEnd'[r] <= Len(log'[r])
      BY <3>1, <3>2, <3>3, <3>6 DEF Faithful
    <3>8. Begins(shown'[r], log'[r])
      BY <3>4, <3>6
    <3>9. ASSUME NEW i \in 1..Len(sent'[r])
          PROVE  /\ sent'[r][i].type = "phase" => Len(shown'[r]) + i <= Len(log'[r])
                                        /\ sent'[r][i].entry = log'[r][Len(shown'[r]) + i]
                 /\ sent'[r][i].type # "phase" => i = Len(sent'[r]) /\ reader'[r].at = "none"
                 /\ sent'[r][i].type = "done" => run'[r] = "ended" /\ Len(shown'[r]) + i > atEnd'[r]
      BY <3>3, <3>5, <3>6 DEF Faithful
    <3> QED
      BY <3>3, <3>6, <3>7, <3>8, <3>9 DEF Faithful
  <2> QED
    BY <2>1, <2>2
<1> QED
  BY <1>3, <1>4

LEMMA Replaced ==
  ASSUME LogInv, NEW q \in Runs, ReplaceLog(q)
  PROVE  LogInv'
<1> USE DEF server, view, LogInv
<1>1. Data'
  BY DEF ReplaceLog, Data
<1>2. ASSUME NEW r \in Runs PROVE Kept(r)' => Faithful(r)'
  <2>1. CASE r # q
    BY <2>1, RunAlone DEF ReplaceLog, Data
  <2>2. CASE r = q
    BY <2>2 DEF ReplaceLog, Kept
  <2> QED
    BY <2>1, <2>2
<1> QED
  BY <1>1, <1>2

LEMMA Ended ==
  ASSUME LogInv, NEW q \in Runs, EndRun(q)
  PROVE  LogInv'
<1> USE DEF server, view, LogInv
<1>1. Data'
  BY DEF EndRun, Data
<1>2. ASSUME NEW r \in Runs PROVE Kept(r)' => Faithful(r)'
  BY DEF EndRun, Data, Kept, Faithful, Begins
<1> QED
  BY <1>1, <1>2

LEMMA Pruned ==
  ASSUME LogInv, NEW q \in Runs, Prune(q)
  PROVE  LogInv'
<1> USE DEF server, view, LogInv
<1>1. Data'
  BY DEF Prune, Data
<1>2. ASSUME NEW r \in Runs PROVE Kept(r)' => Faithful(r)'
  <2>1. CASE r # q
    BY <2>1, RunAlone DEF Prune, Data
  <2>2. CASE r = q
    BY <2>2 DEF Prune, Kept, Data
  <2> QED
    BY <2>1, <2>2
<1> QED
  BY <1>1, <1>2

-----------------------------------------------------------------------------
\* The tabs.

LEMMA Blanked ==
  ASSUME LogInv, NEW gone \in SUBSET Runs,
         NEW how \in [Runs -> {"none", "broken", "error", "abandoned"}],
         Over(gone, how), UNCHANGED cluster
  PROVE  LogInv'
<1> USE DEF LogInv, cluster
<1>1. Data'
  BY Readers DEF Over, Data, Streams
<1>2. ASSUME NEW r \in Runs PROVE Kept(r)' => Faithful(r)'
  <2>1. CASE r \in gone
    BY <2>1, RunBlank DEF Over
  <2>2. CASE r \notin gone
    BY <2>2, RunAlone DEF Over
  <2> QED
    BY <2>1, <2>2
<1> QED
  BY <1>1, <1>2

LEMMA TabOpened ==
  ASSUME LogInv, NEW q \in Runs, NEW callback \in BOOLEAN, NEW e,
         OpenRunLogs(q, callback, e), UNCHANGED cluster
  PROVE  LogInv'
<1> USE DEF LogInv, cluster
<1>1. CASE HasTab(q)
  <2>1. /\ UNCHANGED <<shown, server>>
        /\ stream' = IF callback /\ stream[q] # "open" THEN [stream EXCEPT ![q] = "late"]
                                                       ELSE stream
    BY <1>1 DEF OpenRunLogs
  <2>2. Data'
    BY <2>1 DEF Data, Streams, server
  <2>3. ASSUME NEW r \in Runs PROVE Kept(r)' => Faithful(r)'
    <3>1. CASE stream'[r] = stream[r]
      BY <2>1, <3>1, RunAlone DEF server
    <3>2. CASE stream'[r] # stream[r]
      <4>1. stream[r] # "open" /\ stream'[r] = "late"
        BY <2>1, <3>2 DEF Data
      <4> QED
        BY <2>1, <4>1 DEF Kept, Faithful, Begins, server
    <3> QED
      BY <3>1, <3>2
  <2> QED
    BY <2>2, <2>3
<1>2. CASE ~HasTab(q)
  <2>1. PICK evicted :
          /\ q \notin evicted
          /\ stream' = [r \in Runs |-> IF r = q THEN "open"
                                       ELSE IF r \in evicted THEN "none" ELSE stream[r]]
          /\ shown' = [r \in Runs |-> IF r \in evicted THEN <<>> ELSE shown[r]]
          /\ reader' = [r \in Runs |-> IF r = q THEN [NoReader EXCEPT !.at = "lookup"]
                                       ELSE IF r \in evicted THEN NoReader ELSE reader[r]]
          /\ sent' = [r \in Runs |-> IF r \in evicted THEN <<>> ELSE sent[r]]
    <3> DEFINE gone == (IF Len(tabs) < MaxTabs THEN {} ELSE {Head(tabs)}) \ {q}
    <3>1. /\ stream' = [r \in Runs |-> IF r = q THEN "open"
                                       ELSE IF r \in gone THEN "none" ELSE stream[r]]
          /\ shown' = [r \in Runs |-> IF r \in gone THEN <<>> ELSE shown[r]]
          /\ reader' = [r \in Runs |-> IF r = q THEN [NoReader EXCEPT !.at = "lookup"]
                                       ELSE IF r \in gone THEN NoReader ELSE reader[r]]
          /\ sent' = [r \in Runs |-> IF r \in gone THEN <<>> ELSE sent[r]]
      BY <1>2 DEF OpenRunLogs, Evicted
    <3>2. q \notin gone
      OBVIOUS
    <3> HIDE DEF gone
    <3> QED
      BY <3>1, <3>2
  <2>2. Data'
    BY <2>1, Readers DEF Data, Streams
  <2>3. ASSUME NEW r \in Runs PROVE Kept(r)' => Faithful(r)'
    <3>1. CASE r = q
      <4>1. Kept(r) => shown'[r] = <<>> /\ sent'[r] = <<>>
        BY <1>2, <2>1, <3>1 DEF Faithful, HasTab
      <4>2. CASE Kept(r)
        BY <2>1, <3>1, <4>1, <4>2, RunBlank
      <4>3. CASE ~Kept(r)
        BY <4>3 DEF Kept
      <4> QED
        BY <4>2, <4>3
    <3>2. CASE r # q /\ r \in evicted
      BY <2>1, <3>2, RunBlank
    <3>3. CASE r # q /\ r \notin evicted
      BY <2>1, <3>3, RunAlone
    <3> QED
      BY <3>1, <3>2, <3>3
  <2> QED
    BY <2>2, <2>3
<1> QED
  BY <1>1, <1>2

-----------------------------------------------------------------------------
\* The stream.

LEMMA LookedUp ==
  ASSUME LogInv, NEW q \in Runs, Lookup(q)
  PROVE  LogInv'
<1> USE DEF LogInv, cluster
<1>1. CASE Disconnect(q)
  BY <1>1, Blanked DEF Disconnect
<1>2. CASE Stream(q, [NoReader EXCEPT !.at = "read"], <<>>) /\ UNCHANGED <<cluster, view>>
  <2>1. /\ reader' = [reader EXCEPT ![q] = [NoReader EXCEPT !.at = "read"]]
        /\ sent' = sent
    <3>1. sent[q] \in Seq(Message)
      BY DEF Data
    <3>2. sent[q] \o <<>> = sent[q]
      BY <3>1
    <3> QED
      BY <1>2, <3>2 DEF Stream, Data
  <2>2. Data'
    BY <1>2, <2>1, Readers DEF Data, view
  <2>3. ASSUME NEW r \in Runs PROVE Kept(r)' => Faithful(r)'
    <3>1. CASE r # q
      BY <1>2, <2>1, <3>1, RunAlone DEF Data, view
    <3>2. CASE r = q
      BY <1>2, <2>1, <3>2 DEF Lookup, Kept, Faithful, Begins, Data, NoReader, view
    <3> QED
      BY <3>1, <3>2
  <2> QED
    BY <2>2, <2>3
<1> QED
  BY <1>1, <1>2 DEF Lookup

\* What a turn of the generator sends: the entries of the log from the one on
\* that the server has counted to.
LEMMA UnseenLines ==
  ASSUME Data, NEW r \in Runs
  PROVE  /\ Unseen(r) \in Seq(Message)
         /\ reader[r].seen <= Len(log[r]) =>
              /\ Len(Unseen(r)) = Len(log[r]) - reader[r].seen
              /\ \A i \in 1..Len(Unseen(r)) :
                   Unseen(r)[i] = [type |-> "phase", entry |-> log[r][reader[r].seen + i]]
<1> DEFINE seen == reader[r].seen
           length == Len(log[r])
<1>1. length \in Nat /\ seen \in Nat /\ \A i \in 1..length : log[r][i] \in Nat
  BY DEF Data, Reader
<1>2. \A i \in 1..length : /\ Lines(r)[i] = [type |-> "phase", entry |-> log[r][i]]
                           /\ Lines(r)[i] \in Message
  BY <1>1 DEF Lines, Message
<1>3. Unseen(r) = SubSeq(Lines(r), seen + 1, length)
  BY DEF Unseen
<1> HIDE DEF seen, length, Lines, Unseen
<1>4. \A i \in (seen + 1)..length : Lines(r)[i] \in Message
  <2>1. \A i \in (seen + 1)..length : i \in 1..length
    BY <1>1
  <2> QED
    BY <1>2, <2>1
<1>5. /\ Unseen(r) \in Seq(Message)
      /\ Len(Unseen(r)) = IF seen + 1 <= length THEN length - (seen + 1) + 1 ELSE 0
      /\ \A i \in 1..(length - (seen + 1) + 1) : Unseen(r)[i] = Lines(r)[seen + 1 + i - 1]
  BY <1>1, <1>3, <1>4, SubSeqProperties
<1>6. ASSUME seen <= length
      PROVE  /\ Len(Unseen(r)) = length - seen
             /\ \A i \in 1..(length - seen) :
                  Unseen(r)[i] = [type |-> "phase", entry |-> log[r][seen + i]]
  <2>1. \A i \in 1..(length - seen) : seen + 1 + i - 1 = seen + i /\ seen + i \in 1..length
    BY <1>1, <1>6
  <2> QED
    BY <1>1, <1>2, <1>5, <1>6, <2>1
<1> QED
  BY <1>5, <1>6 DEF seen, length

\* The turns that send nothing but what ends the stream, or nothing at all.
LEMMA ReadFailed ==
  ASSUME LogInv, NEW q \in Runs, ReadFails(q)
  PROVE  LogInv'
<1> USE DEF LogInv, cluster, view
<1>1. PICK reading \in Reader, messages \in {<<>>, <<Error>>} :
        /\ Stream(q, reading, messages)
        /\ reading.at = "read" => reading.seen = reader[q].seen /\ messages = <<>>
        /\ reading.at # "lookup"
  <2>1. reader[q] \in Reader
    BY DEF Data
  <2>2. CASE Stream(q, NoReader, <<Error>>)
    BY <2>2, Readers DEF NoReader
  <2>3. CASE Stream(q, [reader[q] EXCEPT !.errors = @ + 1], <<>>)
    <3>1. [reader[q] EXCEPT !.errors = @ + 1] \in Reader
      BY <2>1 DEF Reader
    <3> QED
      BY <2>1, <2>3, <3>1 DEF Reader, ReadFails
  <2> QED
    BY <2>2, <2>3 DEF ReadFails
<1>2. /\ reader' = [reader EXCEPT ![q] = reading]
      /\ sent' = [sent EXCEPT ![q] = messages]
      /\ UNCHANGED <<cluster, view>>
  BY <1>1 DEF ReadFails, Stream, Data
<1>3. messages \in Seq(Message)
  <2>1. Error \in Message
    BY DEF Message, Error
  <2>2. <<Error>> \in Seq(Message)
    BY <2>1
  <2>3. <<>> \in Seq(Message)
    OBVIOUS
  <2> QED
    BY <2>2, <2>3, Zenon
<1>4. Data'
  BY <1>2, <1>3 DEF Data
<1>5. ASSUME NEW r \in Runs PROVE Kept(r)' => Faithful(r)'
  <2>1. CASE r # q
    BY <1>2, <2>1, RunAlone DEF Data
  <2>2. CASE r = q
    <3> SUFFICES ASSUME Kept(q)' PROVE Faithful(q)'
      BY <2>2
    <3>1. /\ Faithful(q) /\ reader[q].at = "read" /\ sent[q] = <<>>
          /\ reader'[q] = reading /\ sent'[q] = messages
          /\ run'[q] = run[q] /\ log'[q] = log[q] /\ atEnd'[q] = atEnd[q]
          /\ shown'[q] = shown[q] /\ stream'[q] = stream[q]
      BY <1>2 DEF ReadFails, Kept, Data
    <3>2. stream[q] = "open"
      BY <3>1 DEF Faithful
    <3>3. CASE messages = <<>>
      BY <1>1, <3>1, <3>2, <3>3 DEF Faithful
    <3>4. CASE messages = <<Error>>
      <4>1. reading.at = "none"
        BY <1>1, <3>4 DEF Reader
      <4>2. Len(messages) = 1 /\ messages[1].type = "error"
        BY <3>4 DEF Error
      <4> QED
        BY <3>1, <3>2, <4>1, <4>2 DEF Faithful
    <3> QED
      BY <3>3, <3>4
  <2> QED
    BY <2>1, <2>2
<1> QED
  BY <1>4, <1>5

\* A turn that reads the run.
LEMMA Read ==
  ASSUME LogInv, NEW q \in Runs, ReadRun(q)
  PROVE  LogInv'
<1> USE DEF LogInv, cluster, view
<1> DEFINE turn == IF run[q] = "active" THEN Unseen(q) ELSE Unseen(q) \o <<Done>>
           reading == IF run[q] = "active" THEN [at |-> "read", seen |-> Len(log[q]), errors |-> 0]
                                           ELSE NoReader
<1>1. /\ reader[q].at = "read" /\ sent[q] = <<>> /\ run[q] \in {"active", "ended"}
      /\ reader' = [reader EXCEPT ![q] = reading]
      /\ sent' = [sent EXCEPT ![q] = sent[q] \o turn]
      /\ UNCHANGED <<cluster, view>>
  BY DEF ReadRun, Stream
<1>2. Unseen(q) \in Seq(Message) /\ <<Done>> \in Seq(Message)
  <2>1. Done \in Message
    BY DEF Message, Done
  <2> QED
    BY <2>1, UnseenLines
<1>3. /\ turn \in Seq(Message) /\ sent[q] \o turn = turn
      /\ Len(log[q]) \in Nat /\ reading \in Reader
  <2>1. Unseen(q) \o <<Done>> \in Seq(Message)
    BY <1>2, ConcatProperties
  <2>2. turn \in Seq(Message)
    BY <1>2, <2>1
  <2>3. sent[q] \o turn = turn
    BY <1>1, <2>2, ConcatEmptySeq
  <2>4. Len(log[q]) \in Nat
    BY DEF Data
  <2>5. reading \in Reader
    BY <2>4, Readers DEF Reader
  <2> QED
    BY <2>2, <2>3, <2>4, <2>5
<1> HIDE DEF turn, reading
<1>4. Data'
  BY <1>1, <1>3 DEF Data
<1>5. ASSUME NEW r \in Runs PROVE Kept(r)' => Faithful(r)'
  <2>1. CASE r # q
    BY <1>1, <2>1, RunAlone DEF Data
  <2>2. CASE r = q
    <3> SUFFICES ASSUME Kept(q)' PROVE Faithful(q)'
      BY <2>2
    <3> DEFINE k == Len(shown[q])
               n == Len(log[q])
    <3>1. /\ Faithful(q) /\ reader'[q] = reading /\ sent'[q] = turn
          /\ run'[q] = run[q] /\ log'[q] = log[q] /\ atEnd'[q] = atEnd[q]
          /\ shown'[q] = shown[q] /\ stream'[q] = stream[q]
      BY <1>1, <1>3 DEF Kept, Data
    <3>2. /\ stream[q] = "open" /\ reader[q].seen = k /\ k <= n
          /\ k \in Nat /\ n \in Nat /\ atEnd[q] \in Nat
      BY <1>1, <3>1 DEF Faithful, Begins, Data
    <3>3. /\ Len(Unseen(q)) = n - k
          /\ \A i \in 1..Len(Unseen(q)) : /\ Unseen(q)[i].type = "phase"
                                         /\ Unseen(q)[i].entry = log[q][k + i]
                                         /\ k + i <= n
      <4>1. /\ Len(Unseen(q)) = n - k
            /\ \A i \in 1..Len(Unseen(q)) :
                 Unseen(q)[i] = [type |-> "phase", entry |-> log[q][reader[q].seen + i]]
        BY <3>2, UnseenLines
      <4>2. \A i \in 1..(n - k) : k + i <= n
        BY <3>2
      <4>3. \A i \in 1..Len(Unseen(q)) :
              Unseen(q)[i] = [type |-> "phase", entry |-> log[q][k + i]]
        BY <3>2, <4>1
      <4>4. ASSUME NEW i \in 1..Len(Unseen(q))
            PROVE  /\ Unseen(q)[i].type = "phase" /\ Unseen(q)[i].entry = log[q][k + i]
                   /\ k + i <= n
        <5>1. i \in 1..(n - k)
          BY <4>1
        <5> HIDE DEF k, n
        <5>2. Unseen(q)[i] = [type |-> "phase", entry |-> log[q][k + i]]
          BY <4>3
        <5>3. k + i <= n
          BY <4>2, <5>1
        <5> QED
          BY <5>2, <5>3
      <4> HIDE DEF k, n
      <4> QED
        BY <4>1, <4>4
    <3> HIDE DEF k, n
    <3>4. CASE run[q] = "active"
      <4>1. turn = Unseen(q) /\ reading.at = "read" /\ reading.seen = n
        BY <3>4 DEF turn, reading, n
      <4> QED
        BY <3>1, <3>2, <3>3, <3>4, <4>1 DEF Faithful, k, n
    <3>5. CASE run[q] = "ended"
      <4>1. turn = Unseen(q) \o <<Done>> /\ reading.at = "none"
        BY <3>5 DEF turn, reading, NoReader
      <4>2. /\ Len(turn) = n - k + 1 /\ turn[n - k + 1] = Done
            /\ \A i \in 1..(n - k) : turn[i] = Unseen(q)[i]
        <5>1. Len(<<Done>>) = 1 /\ <<Done>>[1] = Done
          OBVIOUS
        <5>2. /\ Len(turn) = Len(Unseen(q)) + Len(<<Done>>)
              /\ \A i \in 1..(Len(Unseen(q)) + Len(<<Done>>)) :
                   turn[i] = IF i <= Len(Unseen(q)) THEN Unseen(q)[i]
                             ELSE <<Done>>[i - Len(Unseen(q))]
          BY <1>2, <4>1, ConcatProperties
        <5> QED
          BY <3>2, <3>3, <5>1, <5>2
      <4>3. n >= atEnd[q]
        BY <3>1, <3>5 DEF Faithful, n
      <4>4. ASSUME NEW i \in 1..Len(turn)
            PROVE  /\ turn[i].type = "phase" => k + i <= n /\ turn[i].entry = log[q][k + i]
                   /\ turn[i].type # "phase" => i = Len(turn)
                   /\ turn[i].type = "done" => k + i > atEnd[q]
        <5>1. CASE i \in 1..(n - k)
          BY <3>2, <3>3, <4>2, <5>1
        <5>2. CASE i = n - k + 1
          BY <3>2, <4>2, <4>3, <5>2 DEF Done
        <5> QED
          BY <3>2, <4>2, <5>1, <5>2
      <4> QED
        BY <3>1, <3>2, <3>5, <4>1, <4>4 DEF Faithful, k, n
    <3> QED
      BY <1>1, <3>4, <3>5
  <2> QED
    BY <2>1, <2>2
<1> QED
  BY <1>4, <1>5

\* A message arrives.
LEMMA Arrived ==
  ASSUME LogInv, NEW q \in Runs, OnMessage(q)
  PROVE  LogInv'
<1> USE DEF LogInv, cluster
<1> DEFINE message == Head(sent[q])
<1>1. /\ stream[q] = "open" /\ sent[q] # <<>> /\ sent[q] \in Seq(Message)
      /\ message \in Message /\ message = sent[q][1] /\ Len(sent[q]) \in Nat \ {0}
  BY DEF OnMessage, Data
<1>2. /\ Tail(sent[q]) \in Seq(Message) /\ Len(Tail(sent[q])) = Len(sent[q]) - 1
      /\ \A i \in 1..(Len(sent[q]) - 1) : Tail(sent[q])[i] = sent[q][i + 1]
  BY <1>1
<1> HIDE DEF message
<1>3. CASE /\ message.type = "phase"
           /\ shown' = [shown EXCEPT ![q] = Append(@, message.entry)]
           /\ sent' = [sent EXCEPT ![q] = Tail(@)]
           /\ UNCHANGED <<reader, stream, cluster>>
  <2>1. message.entry \in Nat
    BY <1>1 DEF Message
  <2>2. Data'
    BY <1>2, <1>3, <2>1 DEF Data
  <2>3. ASSUME NEW r \in Runs PROVE Kept(r)' => Faithful(r)'
    <3>1. CASE r # q
      BY <1>3, <3>1, RunAlone DEF Data
    <3>2. CASE r = q
      <4> SUFFICES ASSUME Kept(q)' PROVE Faithful(q)'
        BY <3>2
      <4> DEFINE k == Len(shown[q])
                 m == Len(sent[q])
      <4>1. /\ Faithful(q) /\ reader'[q] = reader[q] /\ sent'[q] = Tail(sent[q])
            /\ run'[q] = run[q] /\ log'[q] = log[q] /\ atEnd'[q] = atEnd[q]
            /\ shown'[q] = Append(shown[q], message.entry) /\ stream'[q] = "open"
        BY <1>1, <1>3 DEF Kept, Data
      <4>2. /\ k \in Nat /\ m \in Nat \ {0} /\ atEnd[q] \in Nat /\ Len(log[q]) \in Nat
            /\ Len(shown'[q]) = k + 1 /\ shown'[q][k + 1] = message.entry
            /\ \A i \in 1..k : shown'[q][i] = shown[q][i]
            /\ Len(sent'[q]) = m - 1 /\ \A i \in 1..(m - 1) : sent'[q][i] = sent[q][i + 1]
        BY <1>1, <1>2, <2>1, <4>1 DEF Data
      <4> HIDE DEF k, m
      <4>3. k + 1 <= Len(log[q]) /\ message.entry = log[q][k + 1]
        BY <1>1, <1>3, <4>1, <4>2 DEF Faithful, k, m
      <4>4. Begins(shown'[q], log'[q])
        BY <4>1, <4>2, <4>3 DEF Faithful, Begins, k
      <4>5. ASSUME NEW i \in 1..(m - 1)
            PROVE  LET next == sent[q][i + 1] IN
                   /\ next.type = "phase" =>
                        k + (i + 1) <= Len(log[q]) /\ next.entry = log[q][k + (i + 1)]
                   /\ next.type # "phase" => i + 1 = m /\ reader[q].at = "none"
                   /\ next.type = "done" => run[q] = "ended" /\ k + (i + 1) > atEnd[q]
        <5>1. i + 1 \in 1..m
          BY <4>2
        <5> QED
          BY <4>1, <5>1 DEF Faithful, k, m
      <4>6. ASSUME NEW i \in 1..(m - 1)
            PROVE k + (i + 1) = (k + 1) + i /\ (i + 1 = m => i = m - 1)
        <5>1. k \in Nat /\ m \in Nat
          BY <4>2
        <5>2. i \in Int
          BY <5>1
        <5>3. k + (i + 1) = (k + 1) + i
          BY <5>1, <5>2
        <5>4. i + 1 = m => i = m - 1
          BY <5>1, <5>2
        <5> QED
          BY <5>3, <5>4
      <4>7. ASSUME NEW i \in 1..Len(sent'[q])
            PROVE /\ sent'[q][i].type = "phase" => Len(shown'[q]) + i <= Len(log'[q])
                                        /\ sent'[q][i].entry = log'[q][Len(shown'[q]) + i]
                  /\ sent'[q][i].type # "phase" => i = Len(sent'[q]) /\ reader'[q].at = "none"
                  /\ sent'[q][i].type = "done" => /\ run'[q] = "ended"
                                                   /\ Len(shown'[q]) + i > atEnd'[q]
        BY <4>1, <4>2, <4>5, <4>6
      <4>8. reader'[q].at = "read" => reader'[q].seen = Len(shown'[q]) + Len(sent'[q])
        <5>1. reader[q].at = "read" => reader[q].seen = k + m
          BY <4>1 DEF Faithful, k, m
        <5>2. Len(shown'[q]) + Len(sent'[q]) = k + m
          BY <4>2
        <5> QED
          BY <4>1, <5>1, <5>2
      <4>9. reader'[q].at # "lookup" /\ (run'[q] = "ended" => atEnd'[q] <= Len(log'[q]))
        BY <1>1, <4>1 DEF Faithful
      <4> QED
        BY <4>1, <4>4, <4>7, <4>8, <4>9 DEF Faithful
    <3> QED
      BY <3>1, <3>2
  <2> QED
    BY <2>2, <2>3
<1>4. CASE Over({q}, [r \in Runs |-> "error"]) /\ UNCHANGED cluster
  BY <1>4, Blanked
<1>5. CASE /\ message.type = "done"
           /\ stream' = [stream EXCEPT ![q] = "done"]
           /\ sent' = [sent EXCEPT ![q] = Tail(@)]
           /\ UNCHANGED <<reader, shown, cluster>>
  <2>1. Data'
    BY <1>2, <1>5 DEF Data, Streams
  <2>2. ASSUME NEW r \in Runs PROVE Kept(r)' => Faithful(r)'
    <3>1. CASE r # q
      BY <1>5, <3>1, RunAlone DEF Data
    <3>2. CASE r = q
      <4> SUFFICES ASSUME Kept(q)' PROVE Faithful(q)'
        BY <3>2
      <4>1. /\ Faithful(q) /\ reader'[q] = reader[q] /\ sent'[q] = Tail(sent[q])
            /\ run'[q] = run[q] /\ log'[q] = log[q] /\ atEnd'[q] = atEnd[q]
            /\ shown'[q] = shown[q] /\ stream'[q] = "done" /\ Len(shown[q]) \in Nat
            /\ atEnd[q] \in Nat
        BY <1>1, <1>5 DEF Kept, Data
      <4>2. /\ Len(sent[q]) = 1 /\ reader[q].at = "none" /\ run[q] = "ended"
            /\ Len(shown[q]) + 1 > atEnd[q]
        <5>1. 1 \in 1..Len(sent[q]) /\ sent[q][1].type = "done"
          BY <1>1, <1>5
        <5> QED
          BY <4>1, <5>1 DEF Faithful
      <4>3. sent'[q] = <<>>
        <5>1. Len(sent'[q]) = 0 /\ sent'[q] \in Seq(Message)
          BY <1>2, <4>1, <4>2
        <5> QED
          BY <5>1
      <4>4. Len(shown[q]) >= atEnd[q]
        BY <4>1, <4>2
      <4>5. Len(sent'[q]) = 0
        BY <4>3
      <4>6. Begins(shown'[q], log'[q]) /\ atEnd'[q] <= Len(log'[q])
        BY <4>1, <4>2 DEF Faithful
      <4>7. /\ run'[q] = "ended" /\ reader'[q].at = "none" /\ stream'[q] = "done"
            /\ Len(shown'[q]) >= atEnd'[q]
        BY <4>1, <4>2, <4>4
      <4> QED
        BY <4>3, <4>5, <4>6, <4>7 DEF Faithful
    <3> QED
      BY <3>1, <3>2
  <2> QED
    BY <2>1, <2>2
<1> QED
  BY <1>3, <1>4, <1>5 DEF OnMessage, message

-----------------------------------------------------------------------------
\* A tab that says "completed" shows what its run had logged when it ended,
\* for any number of runs and tabs and logs of any length.
THEOREM LogsAreShown == Spec => []LogIsShown
<1>1. Init => LogInv
  BY DEF Init, LogInv, Data, Faithful, Begins, NoReader, Reader, Streams
<1>2. ASSUME LogInv, [Next]_vars PROVE LogInv'
  <2>1. ASSUME NEW r \in Runs, CloseTab(r)
        PROVE  LogInv'
    BY <1>2, <2>1, Blanked DEF CloseTab
  <2>2. ASSUME NEW r \in Runs, ViewLogs(r)
        PROVE  LogInv'
    BY <1>2, <2>2, TabOpened DEF ViewLogs
  <2>3. ASSUME NEW r \in Runs, OnError(r)
        PROVE  LogInv'
    BY <1>2, <2>3, Blanked DEF OnError, Disconnect
  <2>4. CASE CloseAllLogs
    <3> DEFINE how == [r \in Runs |-> IF entry = r THEN "abandoned" ELSE "none"]
    <3>1. Over(Runs, how) /\ UNCHANGED cluster
      BY <2>4 DEF CloseAllLogs
    <3> QED
      BY <1>2, <3>1, Blanked
  <2>5. CASE TimerCreate
    BY <1>2, <2>5, CreateLogged DEF TimerCreate
  <2>6. CASE UNCHANGED <<cluster, server, view>>
    BY <1>2, <2>6, RunAlone DEF LogInv, Data, cluster, server, view
  <2>7. CASE ServeTrigger
    BY <1>2, <2>6, <2>7, CreateLogged DEF ServeTrigger
  <2>8. CASE Answered
    BY <1>2, <2>6, <2>8, TabOpened DEF Answered
  <2>9. CASE TriggerBackup \/ UNCHANGED vars
    BY <2>6, <2>9 DEF TriggerBackup, vars
  <2> QED
    BY <1>2, <2>1, <2>2, <2>3, <2>4, <2>5, <2>7, <2>8, <2>9, Logged, Replaced, Ended, Pruned,
       LookedUp, Read, ReadFailed, Arrived DEF Next
<1>3. LogInv => LogIsShown
  BY BeginsIsPrefix DEF LogInv, Data, Kept, Faithful, LogIsShown, Complete
<1> QED
  BY <1>1, <1>2, <1>3, PTL DEF Spec
=============================================================================
