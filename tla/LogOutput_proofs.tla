-------------------------- MODULE LogOutput_proofs --------------------------
(***************************************************************************)
(* Proofs about where the log lines go, for any number of senders and      *)
(* writers, any configurations, and with or without copy errors; the bound *)
(* of two files is the program's, whose stop channels are closed once.     *)
(***************************************************************************)
EXTENDS LogOutput, TLAPS

(* Places where an actor is busy with the writer, and with confLock.       *)
Busy == {"close", "sleep", "closed", "enable", "wait", "online"}
Holding == Busy \cup {"finish"}

Types ==
    /\ file \in {0, 1, 2} /\ opened \in {0, 1, 2}
    /\ std \in [Stream -> {0, 1, 2}]
    /\ redirect \in [{1, 2} -> [Stream ->
           {"none", "start", "found", "swapped", "select", "copy", "done"}]]
    /\ saved \in [{1, 2} -> [Stream -> {0, 1, 2}]]
    /\ configCh \in {<<>>} \cup {<<u>> : u \in Updates}
    /\ update \in {<<>>} \cup {<<u>> : u \in Updates}
    /\ sending \subseteq Sender \X Updates
    /\ confLock \in {"none", "main", "updater"}
    /\ pc \in [Actor -> Place]

(* One actor at a time is busy with the writer: first the maker, and then  *)
(* whoever holds confLock.                                                 *)
Locks ==
    /\ pc["maker"] \in {"idle", "enable", "wait", "online"}
    /\ pc["main"] \in {"idle", "lock", "close", "sleep", "closed"}
    /\ pc["updater"] \in {"idle", "lock"} \cup Holding
    /\ pc["maker"] # "idle" =>
          pc["main"] = "idle" /\ pc["updater"] = "idle" /\ ~ stopped
    /\ pc["main"] \in {"close", "sleep", "closed"} <=> confLock = "main"
    /\ pc["updater"] \in Holding <=> confLock = "updater"

(* What that actor finds and leaves.                                       *)
PhaseOf(a) ==
    /\ pc[a] \in Busy \ {"wait"} => file = opened
    /\ pc[a] = "close" => attached /\ (file # 0 => online)
    /\ pc[a] \in Busy \ {"close"} => ~ online
    /\ pc[a] \in {"sleep", "online"} => file # 0 /\ file \notin closed
    /\ pc[a] \in {"closed", "enable", "wait"} => file = 0 \/ stopped
    /\ pc[a] \in {"closed", "enable"} => opened # 2
    /\ pc[a] = "wait" => opened = file + 1

WriterInv ==
    /\ closed \subseteq 1..file
    /\ opened = 2 => stopped
    /\ stopped => 1 \in closed
    /\ online \/ writing # {} => file # 0 /\ file \notin closed
    /\ \A a \in Actor: PhaseOf(a)
    /\ (\A a \in Actor: pc[a] \notin Busy) =>
          file = opened /\ (attached /\ file # 0 => online)

(* As long as no update of the file was accepted, only the maker opens it  *)
(* and only main closes it.                                                *)
FileUpdates ==
    ~ fileSent =>
        /\ pc["updater"] \in {"idle", "lock", "finish"}
        /\ update # <<>> => ~ update[1].file
        /\ configCh # <<>> => ~ configCh[1].file
        /\ stopped => ~ online /\ pc["main"] # "sleep"

(* The last update is on its way through the channel and the updater.      *)
LastInv ==
    /\ pc["updater"] = "idle" <=> update = <<>>
    /\ configCh # <<>> => configCh[1].stdout = lastSent
    /\ configCh = <<>> /\ update # <<>> => update[1].stdout = lastSent
    /\ LastUpdateRules

(* A redirection starts when its file is opened, copies by the time the    *)
(* writer has the file, and ends only when stopped.                        *)
RedirectInv ==
    \A f \in {1, 2}, s \in Stream:
        /\ redirect[f][s] = "none" <=> opened < f
        /\ f <= file => redirect[f][s] \in {"select", "copy", "done"}
        /\ redirect[f][s] = "done" => stopped
        /\ opened = 1 /\ redirect[1][s] \in {"swapped", "select", "copy"} => std[s] = 1

(* What the next step of an actor waits for. *)
CanGoOn(a) ==
    \/ pc[a] \in {"close", "closed", "online", "finish"}
    \/ pc[a] = "lock" /\ confLock = "none"
    \/ pc[a] = "sleep" /\ SleepOutlastsWrites
    \/ pc[a] = "enable" /\ ~ online /\ opened + 1 \in File
    \/ pc[a] = "wait" /\ ~ Waits(opened)

(* Whoever wants confLock waits for its holder, and the holder, or         *)
(* NewManager, for nobody but a write or a redirection under way, which    *)
(* wait for nobody.                                                        *)
WaitsEnd ==
    crashed = "no" =>
        \A a \in Actor:
            /\ pc[a] = "lock" =>
                  \/ CanGoOn(a)
                  \/ confLock \in Actor \ {a} /\ pc[confLock] \in Holding
            /\ pc[a] \in Holding =>
                  \/ CanGoOn(a)
                  \/ pc[a] = "sleep" /\ writing # {}
                  \/ pc[a] = "wait" /\ \E s \in Stream:
                        redirect[opened][s] \in {"start", "found", "swapped"}

(* What ends the process: closing a file opened after another was closed,  *)
(* or an update of the file after a Close; a second file is never closed.  *)
CrashCause ==
    /\ crashed = "close of closed channel" => opened = 2 /\ 1 \in closed
    /\ crashed = "nil file writer" => ~ attached /\ update # <<>> /\ update[1].file
    /\ closed \subseteq {1}

(* The two files of the model are all the program ever opens.              *)
FilesSuffice ==
    crashed = "no" => \A a \in Actor: pc[a] = "enable" => opened + 1 \in File

Core == Locks /\ WriterInv /\ FileUpdates /\ LastInv /\ RedirectInv

LogOutputInv == Types /\ (crashed = "no" => Core) /\ CrashNeedsFileUpdate

-----------------------------------------------------------------------------
LEMMA LogOutputInit == Init => LogOutputInv
  <1> SUFFICES ASSUME Init PROVE LogOutputInv
    OBVIOUS
  <1>1. PICK c \in FirstConfigs:
          /\ pc = [a \in Actor |-> IF a = "maker" /\ c.file THEN "enable" ELSE "idle"]
          /\ stdoutOn = c.stdout /\ lastSent = c.stdout
    BY DEF Init
  <1>2. /\ pc["maker"] \in {"enable", "idle"} /\ pc["main"] = "idle"
        /\ pc["updater"] = "idle" /\ pc \in [Actor -> Place]
    BY <1>1 DEF Actor, Place
  <1>3. Types
    BY <1>2 DEF Init, Types, File
  <1>4. Locks
    BY <1>2 DEF Init, Locks, Holding, Busy
  <1>5. WriterInv
    BY <1>2 DEF Init, WriterInv, PhaseOf, Busy, Actor
  <1>6. FileUpdates /\ LastInv
    BY <1>1, <1>2 DEF Init, FileUpdates, LastInv, LastUpdateRules
  <1>7. RedirectInv
    BY DEF Init, RedirectInv, File
  <1>8. CrashNeedsFileUpdate
    BY DEF Init, CrashNeedsFileUpdate
  <1> QED BY <1>3, <1>4, <1>5, <1>6, <1>7, <1>8 DEF LogOutputInv, Core

(* Nobody else is busy with the writer. *)
LEMMA AloneBusy ==
    ASSUME Locks, NEW a \in Actor, pc[a] \in Busy
    PROVE  \A b \in Actor \ {a}: pc[b] \notin Busy
  BY DEF Locks, Actor, Busy, Holding

LEMMA NobodyBusy ==
    ASSUME Locks, confLock = "none", pc["maker"] = "idle"
    PROVE  \A b \in Actor: pc[b] \notin Busy
  BY DEF Locks, Actor, Busy, Holding

-----------------------------------------------------------------------------
(* The redirections.                                                       *)
LEMMA RedirectStep ==
    ASSUME LogOutputInv, crashed = "no", NEW f \in File, NEW s \in Stream,
           Redirect(f, s) \/ CopyFails(f, s)
    PROVE  LogOutputInv'
  <1> USE DEF LogOutputInv, Core
  <1>1. UNCHANGED <<writer, writing, updates, control, crashed>> /\ f \in {1, 2}
    BY DEF Redirect, CopyFails, FindStream, SwapStream, ReportSwap, Select,
           RestoreStream, streams, File
  <1>2. PICK here, there \in {"start", "found", "swapped", "select", "copy", "done"}:
          /\ redirect[f][s] = here
          /\ redirect' = [redirect EXCEPT ![f][s] = there]
          /\ <<here, there>> \in
               {<<"start", "found">>, <<"found", "swapped">>, <<"swapped", "select">>,
                <<"select", "copy">>, <<"copy", "select">>, <<"select", "done">>}
          /\ there = "swapped" => std' = [std EXCEPT ![s] = f]
          /\ there = "done" => stopped
          /\ there \notin {"swapped", "done"} => std' = std
          /\ \A t \in Stream \ {s}: std'[t] = std[t]
    BY DEF Redirect, CopyFails, FindStream, SwapStream, ReportSwap, Select,
           RestoreStream, At, Move, Types
  <1>3. std' \in [Stream -> {0, 1, 2}] /\ saved' \in [{1, 2} -> [Stream -> {0, 1, 2}]]
    BY <1>1 DEF Redirect, CopyFails, FindStream, SwapStream, ReportSwap, Select,
           RestoreStream, Types
  <1>4. Types'
    BY <1>1, <1>2, <1>3 DEF Types, writer, updates, control
  <1>5. Locks' /\ WriterInv' /\ FileUpdates' /\ LastInv' /\ CrashNeedsFileUpdate'
    BY <1>1 DEF Locks, WriterInv, PhaseOf, FileUpdates, LastInv, LastUpdateRules,
                CrashNeedsFileUpdate, writer, updates, control
  <1>6. RedirectInv'
    <2>1. opened' = opened /\ file' = file /\ stopped' = stopped
      BY <1>1 DEF writer
    <2>2. ASSUME NEW g \in {1, 2}, NEW t \in Stream, <<g, t>> # <<f, s>>
          PROVE  redirect'[g][t] = redirect[g][t]
      BY <1>1, <1>2, <2>2 DEF Types
    <2>3. redirect'[f][s] = there
      BY <1>1, <1>2 DEF Types
    <2>4. opened >= f
      BY <1>1, <1>2 DEF Types, RedirectInv
    <2>5. redirect'[f][s] # "none" /\ (f <= file => there \in {"select", "copy", "done"})
      BY <1>1, <1>2, <2>3 DEF RedirectInv
    <2>6. ASSUME opened = 1, NEW t \in Stream,
                 redirect'[1][t] \in {"swapped", "select", "copy"}
          PROVE  std'[t] = 1
      <3>1. f = 1
        BY <1>1, <2>4, <2>6
      <3>2. CASE t # s
        BY <1>2, <2>2, <2>6, <3>1, <3>2 DEF RedirectInv
      <3>3. CASE t = s /\ there = "swapped"
        BY <1>2, <3>1, <3>3 DEF Types
      <3>4. CASE t = s /\ there # "swapped"
        BY <1>2, <2>3, <2>6, <3>1, <3>4 DEF RedirectInv
      <3> QED BY <3>2, <3>3, <3>4
    <2>7. ASSUME NEW g \in {1, 2}, NEW t \in Stream
          PROVE  /\ redirect'[g][t] = "none" <=> opened < g
                 /\ g <= file => redirect'[g][t] \in {"select", "copy", "done"}
                 /\ redirect'[g][t] = "done" => stopped
      <3>1. CASE <<g, t>> = <<f, s>>
        BY <1>2, <2>3, <2>4, <2>5, <3>1 DEF Types
      <3>2. CASE <<g, t>> # <<f, s>>
        BY <2>2, <3>2 DEF RedirectInv
      <3> QED BY <3>1, <3>2
    <2> QED BY <2>1, <2>6, <2>7 DEF RedirectInv
  <1> QED BY <1>1, <1>4, <1>5, <1>6

(* Steps that leave the writer and the redirections alone.                 *)
LEMMA WriterKept ==
    ASSUME LogOutputInv, crashed = "no", UNCHANGED <<writer, streams, writing>>,
           \A a \in Actor: pc'[a] \in Busy => pc[a] = pc'[a],
           \A a \in Actor: pc[a] \in Busy => pc[a] = pc'[a]
    PROVE  WriterInv' /\ RedirectInv'
  <1> USE DEF LogOutputInv, Core
  <1>1. RedirectInv'
    BY DEF RedirectInv, writer, streams
  <1>2. ASSUME NEW a \in Actor PROVE PhaseOf(a)'
    <2>1. CASE pc'[a] \in Busy
      BY <2>1 DEF WriterInv, PhaseOf, writer
    <2>2. CASE pc'[a] \notin Busy
      BY <2>2 DEF PhaseOf, Busy
    <2> QED BY <2>1, <2>2
  <1>3. WriterInv'
    BY <1>2 DEF WriterInv, writer
  <1> QED BY <1>1, <1>3

LEMMA WriteStep ==
    ASSUME LogOutputInv, crashed = "no", NEW w \in Writer, StartWrite(w) \/ WriteFile(w)
    PROVE  LogOutputInv'
  <1> USE DEF LogOutputInv, Core
  <1>1. /\ UNCHANGED <<writer, streams, updates, control, crashed>>
        /\ writing' # {} => online \/ writing # {}
    BY DEF StartWrite, WriteFile
  <1>2. Types' /\ Locks' /\ FileUpdates' /\ LastInv' /\ CrashNeedsFileUpdate'
    BY <1>1 DEF Types, Locks, FileUpdates, LastInv, LastUpdateRules,
                CrashNeedsFileUpdate, writer, streams, updates, control
  <1>3. WriterInv'
    BY <1>1 DEF WriterInv, PhaseOf, writer, control
  <1>4. RedirectInv'
    BY <1>1 DEF RedirectInv, writer, streams
  <1> QED BY <1>1, <1>2, <1>3, <1>4

(* The senders and the channel. *)
LEMMA SendStep ==
    ASSUME LogOutputInv, crashed = "no",
           \/ \E s \in Sender, u \in Updates: UpdateConfig(s, u)
           \/ \E c \in sending: Accept(c)
    PROVE  LogOutputInv'
  <1> USE DEF LogOutputInv, Core
  <1>1. UNCHANGED <<writer, streams, writing, update, stdoutOn, control, crashed>>
    BY DEF UpdateConfig, Accept
  <1>2. \/ \E s \in Sender, u \in Updates: sending' = sending \cup {<<s, u>>}
        \/ \E c \in sending: sending' = sending \ {c}
    BY DEF UpdateConfig, Accept
  <1>3. \/ UNCHANGED <<configCh, lastSent, fileSent>>
        \/ \E u \in Updates:
             /\ configCh = <<>> /\ configCh' = <<u>> /\ lastSent' = u.stdout
             /\ fileSent' = (fileSent \/ u.file)
    BY DEF UpdateConfig, Accept, Types
  <1>4. Types'
    BY <1>1, <1>2, <1>3 DEF Types, writer, streams, control
  <1>5. Locks' /\ WriterInv' /\ RedirectInv'
    BY <1>1, WriterKept DEF Locks, writer, control
  <1>6. CASE UNCHANGED <<configCh, lastSent, fileSent>>
    <2>1. FileUpdates' /\ LastInv' /\ CrashNeedsFileUpdate'
      BY <1>1, <1>6 DEF FileUpdates, LastInv, LastUpdateRules, CrashNeedsFileUpdate,
                        writer, control
    <2> QED BY <1>1, <1>4, <1>5, <2>1
  <1>7. ASSUME NEW u \in Updates, configCh' = <<u>>, lastSent' = u.stdout,
               fileSent' = (fileSent \/ u.file)
        PROVE  LogOutputInv'
    <2>1. configCh'[1] = u /\ configCh' # <<>>
      BY <1>7
    <2>2. ~ fileSent' => ~ fileSent /\ ~ u.file
      BY <1>7
    <2>3. FileUpdates'
      BY <1>1, <2>1, <2>2 DEF FileUpdates, writer, control
    <2>4. LastInv' /\ CrashNeedsFileUpdate'
      BY <1>1, <1>7, <2>1 DEF LastInv, LastUpdateRules, CrashNeedsFileUpdate, control
    <2> QED BY <1>1, <1>4, <1>5, <2>3, <2>4
  <1> QED BY <1>3, <1>6, <1>7

-----------------------------------------------------------------------------
(* The updater, but for its use of the writer.                             *)
LEMMA ReceiveStep ==
    ASSUME LogOutputInv, crashed = "no", Receive
    PROVE  LogOutputInv'
  <1> USE DEF LogOutputInv, Core
  <1>1. /\ UNCHANGED <<writer, streams, writing, sending, stdoutOn, lastSent,
                       fileSent, confLock, crashed>>
        /\ pc["maker"] = "idle" /\ pc["updater"] = "idle"
        /\ configCh # <<>> /\ update' = configCh /\ configCh' = <<>>
    BY DEF Receive, Running
  <1>2. /\ pc' \in [Actor -> Place] /\ pc'["updater"] = "lock"
        /\ pc'["main"] = pc["main"] /\ pc'["maker"] = pc["maker"]
    BY DEF Receive, Goto, Types, Place, Actor
  <1>3. Types'
    BY <1>1, <1>2 DEF Types, writer, streams
  <1>4. Locks'
    BY <1>1, <1>2 DEF Locks, writer, Holding, Busy
  <1>5. WriterInv' /\ RedirectInv'
    BY <1>1, <1>2, WriterKept DEF Actor, Busy
  <1>6. FileUpdates' /\ LastInv' /\ CrashNeedsFileUpdate'
    BY <1>1, <1>2 DEF FileUpdates, LastInv, LastUpdateRules, CrashNeedsFileUpdate,
                      writer
  <1> QED BY <1>1, <1>3, <1>4, <1>5, <1>6

LEMMA LockUpdateStep ==
    ASSUME LogOutputInv, crashed = "no", LockUpdate
    PROVE  LogOutputInv'
  <1> USE DEF LogOutputInv, Core
  <1>1. /\ UNCHANGED <<writer, streams, writing, updates>>
        /\ pc["updater"] = "lock" /\ confLock = "none" /\ confLock' = "updater"
        /\ update # <<>> /\ pc["maker"] = "idle"
    BY DEF LockUpdate, LastInv, Locks
  <1>2. CASE update[1].file /\ ~ attached
    <2>1. /\ fileSent' = fileSent /\ pc' = pc /\ crashed' = "nil file writer"
          /\ fileSent
      <3>1. fileSent' = fileSent
        BY <1>1 DEF updates
      <3>2. fileSent
        BY <1>1, <1>2 DEF FileUpdates
      <3>3. pc' = pc /\ crashed' = "nil file writer"
        BY <1>2 DEF LockUpdate
      <3> QED BY <3>1, <3>2, <3>3
    <2>2. Types'
      BY <1>1, <2>1 DEF Types, writer, streams, updates
    <2> QED BY <2>1, <2>2 DEF CrashNeedsFileUpdate
  <1>3. CASE ~ (update[1].file /\ ~ attached)
    <2>1. PICK place \in {"finish", "close", "enable"}:
            /\ Goto("updater", place) /\ crashed' = crashed
            /\ place # "finish" => update[1].file /\ attached
            /\ place = "enable" => file = 0
      BY <1>3 DEF LockUpdate
    <2>2. /\ pc' \in [Actor -> Place] /\ pc'["updater"] = place
          /\ pc'["main"] = pc["main"] /\ pc'["maker"] = pc["maker"]
      BY <2>1 DEF Goto, Types, Place, Actor
    <2>3. Types'
      BY <1>1, <2>2 DEF Types, writer, streams, updates
    <2>4. Locks'
      BY <1>1, <2>2 DEF Locks, writer, Holding, Busy
    <2>5. FileUpdates' /\ LastInv' /\ CrashNeedsFileUpdate'
      BY <1>1, <2>1, <2>2 DEF FileUpdates, LastInv, LastUpdateRules,
                              CrashNeedsFileUpdate, writer, updates
    <2>6. RedirectInv'
      BY <1>1 DEF RedirectInv, writer, streams
    <2>7. /\ \A b \in Actor: pc[b] \notin Busy
          /\ file = opened /\ (attached /\ file # 0 => online)
      BY <1>1, NobodyBusy DEF WriterInv
    <2>8. \A b \in Actor \ {"updater"}: pc'[b] = pc[b]
      BY <2>1 DEF Goto, Types
    <2>9. PhaseOf("updater")'
      BY <1>1, <2>1, <2>2, <2>7 DEF PhaseOf, WriterInv, Busy, writer
    <2>10. \A b \in Actor: PhaseOf(b)'
      BY <2>7, <2>8, <2>9 DEF PhaseOf, Busy
    <2>11. WriterInv'
      BY <1>1, <2>7, <2>10 DEF WriterInv, writer
    <2> QED BY <2>1, <2>3, <2>4, <2>5, <2>6, <2>11
  <1> QED BY <1>2, <1>3

LEMMA FinishUpdateStep ==
    ASSUME LogOutputInv, crashed = "no", FinishUpdate
    PROVE  LogOutputInv'
  <1> USE DEF LogOutputInv, Core
  <1>1. /\ UNCHANGED <<writer, streams, writing, configCh, sending, lastSent,
                       fileSent, crashed>>
        /\ pc["updater"] = "finish" /\ confLock' = "none"
        /\ update # <<>> /\ update' = <<>> /\ stdoutOn' = update[1].stdout
    BY DEF FinishUpdate, LastInv
  <1>2. /\ pc' \in [Actor -> Place] /\ pc'["updater"] = "idle"
        /\ pc'["main"] = pc["main"] /\ pc'["maker"] = pc["maker"]
    BY DEF FinishUpdate, Goto, Types, Place, Actor
  <1>3. Types'
    BY <1>1, <1>2 DEF Types, writer, streams
  <1>4. Locks'
    BY <1>1, <1>2 DEF Locks, writer, Holding, Busy
  <1>5. WriterInv' /\ RedirectInv'
    BY <1>1, <1>2, WriterKept DEF Actor, Busy
  <1>6. FileUpdates' /\ LastInv' /\ CrashNeedsFileUpdate'
    BY <1>1, <1>2 DEF FileUpdates, LastInv, LastUpdateRules, CrashNeedsFileUpdate,
                      writer
  <1> QED BY <1>1, <1>3, <1>4, <1>5, <1>6

(* An update may bring a step about only when a file was sent.             *)
LEMMA BusyUpdater ==
    ASSUME LogOutputInv, crashed = "no", pc["updater"] \in Busy
    PROVE  fileSent
  BY DEF LogOutputInv, Core, FileUpdates, Busy

LEMMA EnableAfterCloseStep ==
    ASSUME LogOutputInv, crashed = "no", EnableAfterClose
    PROVE  LogOutputInv'
  <1> USE DEF LogOutputInv, Core
  <1>1. /\ UNCHANGED <<writer, streams, writing, updates, confLock, crashed>>
        /\ pc["updater"] = "closed" /\ fileSent
    BY BusyUpdater DEF EnableAfterClose, Busy
  <1>2. /\ pc' \in [Actor -> Place] /\ pc'["updater"] = "enable"
        /\ pc'["main"] = pc["main"] /\ pc'["maker"] = pc["maker"]
        /\ \A b \in Actor \ {"updater"}: pc'[b] = pc[b]
    BY DEF EnableAfterClose, Goto, Types, Place, Actor
  <1>3. Types'
    BY <1>1, <1>2 DEF Types, writer, streams, updates
  <1>4. Locks'
    BY <1>1, <1>2 DEF Locks, writer, Holding, Busy
  <1>5. RedirectInv'
    BY <1>1 DEF RedirectInv, writer, streams
  <1>6. FileUpdates' /\ LastInv' /\ CrashNeedsFileUpdate'
    BY <1>1, <1>2 DEF FileUpdates, LastInv, LastUpdateRules, CrashNeedsFileUpdate,
                      updates
  <1>7. PhaseOf("updater")'
    BY <1>1, <1>2 DEF WriterInv, PhaseOf, Busy, Actor, writer
  <1>8. \A b \in Actor: PhaseOf(b)'
    BY <1>1, <1>2, <1>7 DEF WriterInv, PhaseOf, writer
  <1>9. WriterInv'
    BY <1>1, <1>2, <1>8 DEF WriterInv, writer, Actor, Busy
  <1> QED BY <1>1, <1>3, <1>4, <1>5, <1>6, <1>9

-----------------------------------------------------------------------------
(* Main, but for its use of the writer.                                    *)
LEMMA StartCloseStep ==
    ASSUME LogOutputInv, crashed = "no", StartClose
    PROVE  LogOutputInv'
  <1> USE DEF LogOutputInv, Core
  <1>1. /\ UNCHANGED <<writer, streams, writing, updates, confLock, crashed>>
        /\ pc["maker"] = "idle" /\ pc["main"] = "idle"
    BY DEF StartClose, Running
  <1>2. /\ pc' \in [Actor -> Place] /\ pc'["main"] = "lock"
        /\ pc'["updater"] = pc["updater"] /\ pc'["maker"] = pc["maker"]
    BY DEF StartClose, Goto, Types, Place, Actor
  <1>3. Types'
    BY <1>1, <1>2 DEF Types, writer, streams, updates
  <1>4. Locks'
    BY <1>1, <1>2 DEF Locks, writer, Holding, Busy
  <1>5. WriterInv' /\ RedirectInv'
    BY <1>1, <1>2, WriterKept DEF Actor, Busy
  <1>6. FileUpdates' /\ LastInv' /\ CrashNeedsFileUpdate'
    BY <1>1, <1>2 DEF FileUpdates, LastInv, LastUpdateRules, CrashNeedsFileUpdate,
                      updates, writer
  <1> QED BY <1>1, <1>3, <1>4, <1>5, <1>6

LEMMA LockCloseStep ==
    ASSUME LogOutputInv, crashed = "no", LockClose
    PROVE  LogOutputInv'
  <1> USE DEF LogOutputInv, Core
  <1>1. /\ UNCHANGED <<writer, streams, writing, updates, crashed>>
        /\ pc["main"] = "lock" /\ confLock = "none" /\ pc["maker"] = "idle"
    BY DEF LockClose, Locks
  <1>2. PICK place \in {"close", "idle"}:
          /\ Goto("main", place)
          /\ place = "close" => attached /\ confLock' = "main"
          /\ place = "idle" => confLock' = confLock
    BY DEF LockClose
  <1>3. /\ pc' \in [Actor -> Place] /\ pc'["main"] = place
        /\ pc'["updater"] = pc["updater"] /\ pc'["maker"] = pc["maker"]
        /\ \A b \in Actor \ {"main"}: pc'[b] = pc[b]
    BY <1>2 DEF Goto, Types, Place, Actor
  <1>4. Types'
    BY <1>1, <1>2, <1>3 DEF Types, writer, streams, updates
  <1>5. Locks'
    BY <1>1, <1>2, <1>3 DEF Locks, writer, Holding, Busy
  <1>6. FileUpdates' /\ LastInv' /\ CrashNeedsFileUpdate'
    BY <1>1, <1>3 DEF FileUpdates, LastInv, LastUpdateRules, CrashNeedsFileUpdate,
                      updates, writer
  <1>7. RedirectInv'
    BY <1>1 DEF RedirectInv, writer, streams
  <1>8. /\ \A b \in Actor: pc[b] \notin Busy
        /\ file = opened /\ (attached /\ file # 0 => online)
    BY <1>1, NobodyBusy DEF WriterInv
  <1>9. PhaseOf("main")'
    BY <1>1, <1>2, <1>3, <1>8 DEF PhaseOf, Busy, writer
  <1>10. \A b \in Actor: PhaseOf(b)'
    BY <1>3, <1>8, <1>9 DEF PhaseOf, Busy
  <1>11. WriterInv'
    BY <1>1, <1>8, <1>10 DEF WriterInv, writer
  <1> QED BY <1>1, <1>4, <1>5, <1>6, <1>7, <1>11

LEMMA DetachStep ==
    ASSUME LogOutputInv, crashed = "no", Detach
    PROVE  LogOutputInv'
  <1> USE DEF LogOutputInv, Core
  <1>1. /\ UNCHANGED <<online, file, closed, stopped, opened, streams, writing,
                       updates, crashed>>
        /\ pc["main"] = "closed" /\ confLock' = "none" /\ ~ attached'
    BY DEF Detach
  <1>2. /\ pc' \in [Actor -> Place] /\ pc'["main"] = "idle"
        /\ pc'["updater"] = pc["updater"] /\ pc'["maker"] = pc["maker"]
        /\ \A b \in Actor \ {"main"}: pc'[b] = pc[b]
    BY DEF Detach, Goto, Types, Place, Actor
  <1>3. Types'
    BY <1>1, <1>2 DEF Types, streams, updates
  <1>4. Locks'
    BY <1>1, <1>2 DEF Locks, Holding, Busy
  <1>5. FileUpdates' /\ LastInv' /\ CrashNeedsFileUpdate'
    BY <1>1, <1>2 DEF FileUpdates, LastInv, LastUpdateRules, CrashNeedsFileUpdate,
                      updates
  <1>6. RedirectInv'
    BY <1>1 DEF RedirectInv, streams
  <1>7. "main" \in Actor /\ \A b \in Actor \ {"main"}: pc[b] \notin Busy
    BY <1>1, AloneBusy DEF Actor, Busy
  <1>8. \A b \in Actor: pc'[b] \notin Busy
    BY <1>2, <1>7 DEF Busy
  <1>9. WriterInv'
    <2>1. file' = opened'
      BY <1>1, <1>7 DEF WriterInv, PhaseOf, Busy
    <2>2. \A b \in Actor: PhaseOf(b)'
      BY <1>8 DEF PhaseOf, Busy
    <2> QED BY <1>1, <2>1, <2>2 DEF WriterInv
  <1> QED BY <1>1, <1>3, <1>4, <1>5, <1>6, <1>9

-----------------------------------------------------------------------------
(* A step of the actor that is busy with the writer, when it stays in its  *)
(* call: what is left to show is what it does to the writer.               *)
LEMMA BusyStep ==
    ASSUME LogOutputInv, crashed = "no", NEW a \in Actor, pc[a] \in Busy,
           NEW place \in Busy, Goto(a, place),
           a = "main" => place \in {"close", "sleep", "closed"},
           a = "maker" => place \in {"enable", "wait", "online"} /\ ~ stopped',
           UNCHANGED <<streams, writing, updates, confLock, crashed>>
    PROVE  /\ Locks' /\ LastInv' /\ CrashNeedsFileUpdate'
           /\ pc' \in [Actor -> Place] /\ pc'[a] = place
           /\ \A b \in Actor \ {a}: pc'[b] = pc[b] /\ pc[b] \notin Busy
           /\ a = "updater" => fileSent
  <1> USE DEF LogOutputInv, Core
  <1>1. /\ pc' \in [Actor -> Place] /\ pc'[a] = place
        /\ \A b \in Actor \ {a}: pc'[b] = pc[b]
    BY DEF Goto, Types, Busy, Place
  <1>2. \A b \in Actor \ {a}: pc[b] \notin Busy
    BY AloneBusy
  <1>3. a = "updater" => fileSent
    BY BusyUpdater
  <1>4. /\ pc'["main"] = (IF a = "main" THEN place ELSE pc["main"])
        /\ pc'["updater"] = (IF a = "updater" THEN place ELSE pc["updater"])
        /\ pc'["maker"] = (IF a = "maker" THEN place ELSE pc["maker"])
    BY <1>1 DEF Actor
  <1>5. CASE a = "main"
    BY <1>1, <1>2, <1>3, <1>4, <1>5
       DEF Locks, LastInv, LastUpdateRules, CrashNeedsFileUpdate, updates, Busy, Holding
  <1>6. CASE a = "updater"
    BY <1>1, <1>2, <1>3, <1>4, <1>6
       DEF Locks, LastInv, LastUpdateRules, CrashNeedsFileUpdate, updates, Busy, Holding
  <1>7. CASE a = "maker"
    BY <1>1, <1>2, <1>3, <1>4, <1>7
       DEF Locks, LastInv, LastUpdateRules, CrashNeedsFileUpdate, updates, Busy, Holding
  <1> QED BY <1>5, <1>6, <1>7 DEF Actor

(* What is left, from the phase of the busy actor alone.                   *)
LEMMA BusyWriter ==
    ASSUME LogOutputInv, crashed = "no", NEW a \in Actor, pc'[a] \in Busy,
           \A b \in Actor \ {a}: pc'[b] = pc[b] /\ pc[b] \notin Busy,
           PhaseOf(a)', closed' \subseteq 1..file', opened' = 2 => stopped',
           stopped' => 1 \in closed',
           online' \/ writing' # {} => file' # 0 /\ file' \notin closed'
    PROVE  WriterInv'
  <1>1. \A b \in Actor: PhaseOf(b)'
    BY DEF PhaseOf, Busy
  <1> QED BY <1>1 DEF WriterInv

LEMMA CloseWriterStep ==
    ASSUME LogOutputInv, crashed = "no", NEW a \in Actor, CloseWriter(a)
    PROVE  LogOutputInv'
  <1> USE DEF LogOutputInv, Core
  <1>1. /\ UNCHANGED <<attached, file, closed, stopped, opened, streams, writing,
                       updates, confLock, crashed>>
        /\ pc[a] = "close" /\ a \in {"main", "updater"}
    BY DEF CloseWriter, Locks, Actor
  <1>2. PICK place \in {"sleep", "closed"}:
          /\ Goto(a, place) /\ ~ online'
          /\ place = "sleep" => online
          /\ place = "closed" => ~ online
    BY DEF CloseWriter
  <1>3. /\ Locks' /\ LastInv' /\ CrashNeedsFileUpdate'
        /\ pc' \in [Actor -> Place] /\ pc'[a] = place
        /\ \A b \in Actor \ {a}: pc'[b] = pc[b] /\ pc[b] \notin Busy
        /\ a = "updater" => fileSent
    BY <1>1, <1>2, BusyStep DEF Busy
  <1>4. Types'
    BY <1>1, <1>3 DEF Types, streams, updates
  <1>5. RedirectInv'
    BY <1>1 DEF RedirectInv, streams
  <1>6. FileUpdates'
    <2>1. CASE a = "updater"
      BY <1>1, <1>3, <2>1 DEF FileUpdates, updates
    <2>2. CASE a = "main"
      <3>1. pc'["updater"] = pc["updater"] /\ pc'["main"] = place
        BY <1>3, <2>2 DEF Actor
      <3>2. ~ fileSent /\ stopped => place # "sleep"
        BY <1>2 DEF FileUpdates
      <3> QED BY <1>1, <1>2, <3>1, <3>2 DEF FileUpdates, updates
    <2> QED BY <1>1, <2>1, <2>2
  <1>7. WriterInv'
    <2>1. PhaseOf(a) /\ (online => file # 0 /\ file \notin closed)
      BY DEF WriterInv
    <2>2. PhaseOf(a)'
      BY <1>1, <1>2, <1>3, <2>1 DEF PhaseOf, Busy
    <2> QED BY <1>1, <1>2, <1>3, <2>2, BusyWriter DEF WriterInv, Busy
  <1> QED BY <1>1, <1>3, <1>4, <1>5, <1>6, <1>7

LEMMA CloseChannelsStep ==
    ASSUME LogOutputInv, crashed = "no", NEW a \in Actor, CloseChannels(a)
    PROVE  LogOutputInv'
  <1> USE DEF LogOutputInv, Core
  <1>1. /\ UNCHANGED <<attached, online, file, opened, streams, writing, updates,
                       confLock>>
        /\ pc[a] = "sleep" /\ a \in {"main", "updater"} /\ writing = {}
    BY DEF CloseChannels, Locks, Actor, SleepOutlastsWrites
  <1>2. CASE stopped
    <2>1. /\ UNCHANGED <<stopped, closed, pc>> /\ crashed' = "close of closed channel"
      BY <1>2 DEF CloseChannels
    <2>2. fileSent
      <3>1. CASE a = "updater"
        BY <1>1, <3>1, BusyUpdater DEF Busy
      <3>2. CASE a = "main"
        BY <1>1, <1>2, <3>2 DEF FileUpdates
      <3> QED BY <1>1, <3>1, <3>2
    <2>3. fileSent' = fileSent
      BY <1>1 DEF updates
    <2>4. Types'
      BY <1>1, <2>1 DEF Types, streams, updates
    <2>5. CrashNeedsFileUpdate'
      BY <2>2, <2>3 DEF CrashNeedsFileUpdate
    <2> QED BY <2>1, <2>4, <2>5
  <1>3. CASE ~ stopped
    <2>1. /\ stopped' /\ closed' = closed \cup {file} /\ crashed' = crashed
          /\ Goto(a, "closed")
      BY <1>3 DEF CloseChannels
    <2>2. /\ Locks' /\ LastInv' /\ CrashNeedsFileUpdate'
          /\ pc' \in [Actor -> Place] /\ pc'[a] = "closed"
          /\ \A b \in Actor \ {a}: pc'[b] = pc[b] /\ pc[b] \notin Busy
          /\ a = "updater" => fileSent
      BY <1>1, <2>1, BusyStep DEF Busy
    <2>3. Types'
      BY <1>1, <2>2 DEF Types, streams, updates
    <2>4. RedirectInv'
      BY <1>1, <2>1 DEF RedirectInv, streams
    <2>5. PhaseOf(a) /\ file = opened /\ file # 0 /\ ~ online
      BY <1>1 DEF WriterInv, PhaseOf, Busy
    <2>6. file = 1
      BY <1>3, <2>5 DEF WriterInv, Types
    <2>7. PhaseOf(a)'
      <3>1. file' = file /\ opened' = opened /\ ~ online' /\ opened # 2
        BY <1>1, <2>5, <2>6
      <3> QED BY <2>1, <2>2, <2>5, <3>1 DEF PhaseOf, Busy
    <2>8. closed' \subseteq 1..file' /\ 1 \in closed'
      BY <1>1, <2>1, <2>6 DEF WriterInv
    <2>9. WriterInv'
      BY <1>1, <2>1, <2>2, <2>5, <2>7, <2>8, BusyWriter DEF Busy
    <2>10. FileUpdates'
      <3>1. CASE a = "updater"
        BY <1>1, <2>2, <3>1 DEF FileUpdates, updates
      <3>2. CASE a = "main"
        <4>1. pc'["updater"] = pc["updater"] /\ pc'["main"] = "closed"
          BY <2>2, <3>2 DEF Actor
        <4> QED BY <1>1, <2>5, <4>1 DEF FileUpdates, updates
      <3> QED BY <1>1, <3>1, <3>2
    <2> QED BY <2>1, <2>2, <2>3, <2>4, <2>9, <2>10
  <1> QED BY <1>2, <1>3

LEMMA EnableStep ==
    ASSUME LogOutputInv, crashed = "no", NEW a \in Actor, Enable(a)
    PROVE  LogOutputInv'
  <1> USE DEF LogOutputInv, Core
  <1>1. /\ UNCHANGED <<attached, online, file, closed, stopped, std, saved, writing,
                       updates, confLock, crashed>>
        /\ pc[a] = "enable" /\ a \in {"maker", "updater"} /\ Goto(a, "wait")
        /\ opened + 1 \in {1, 2} /\ opened' = opened + 1
        /\ redirect' = [redirect EXCEPT ![opened + 1] = [s \in Stream |-> "start"]]
    BY DEF Enable, Locks, Actor, File
  <1>2. a = "maker" => ~ stopped'
    BY <1>1 DEF Locks
  <1>3. /\ pc' \in [Actor -> Place] /\ pc'[a] = "wait"
        /\ \A b \in Actor \ {a}: pc'[b] = pc[b] /\ pc[b] \notin Busy
        /\ a = "updater" => fileSent
    BY <1>1, AloneBusy, BusyUpdater DEF Goto, Types, Place, Busy
  <1>4. Locks'
    BY <1>1, <1>3 DEF Locks, Actor, Holding, Busy
  <1>5. LastInv' /\ CrashNeedsFileUpdate'
    BY <1>1, <1>3 DEF LastInv, LastUpdateRules, CrashNeedsFileUpdate, updates, Actor
  <1>6. Types'
    BY <1>1, <1>3 DEF Types, updates
  <1>7. PhaseOf(a) /\ file = opened /\ (file = 0 \/ stopped) /\ ~ online
    BY <1>1 DEF WriterInv, PhaseOf, Busy
  <1>8. PhaseOf(a)'
    BY <1>1, <1>3, <1>7 DEF PhaseOf, Busy
  <1>9. opened' = 2 => stopped'
    BY <1>1, <1>7
  <1>10. WriterInv'
    BY <1>1, <1>3, <1>8, <1>9, BusyWriter DEF WriterInv, Busy
  <1>11. FileUpdates'
    BY <1>1, <1>3 DEF FileUpdates, updates, Actor
  <1>12. RedirectInv'
    <2> SUFFICES ASSUME NEW f \in {1, 2}, NEW s \in Stream
                 PROVE  /\ redirect'[f][s] = "none" <=> opened' < f
                        /\ f <= file' => redirect'[f][s] \in {"select", "copy", "done"}
                        /\ redirect'[f][s] = "done" => stopped'
                        /\ opened' = 1 /\ redirect'[1][s] \in {"swapped", "select", "copy"}
                              => std'[s] = 1
      BY DEF RedirectInv
    <2>1. opened' = 1 => redirect'[1][s] = "start"
      BY <1>1 DEF Types
    <2>2. CASE f = opened + 1
      <3>1. redirect'[f][s] = "start"
        BY <1>1, <2>2 DEF Types
      <3> QED BY <1>1, <1>7, <2>1, <2>2, <3>1 DEF Types
    <2>3. CASE f # opened + 1
      <3>1. redirect'[f][s] = redirect[f][s]
        BY <1>1, <2>3 DEF Types
      <3> QED BY <1>1, <1>7, <2>1, <2>3, <3>1 DEF Types, RedirectInv
    <2> QED BY <2>2, <2>3
  <1> QED BY <1>1, <1>4, <1>5, <1>6, <1>10, <1>11, <1>12

LEMMA SetFileStep ==
    ASSUME LogOutputInv, crashed = "no", NEW a \in Actor, SetFile(a)
    PROVE  LogOutputInv'
  <1> USE DEF LogOutputInv, Core
  <1>1. /\ UNCHANGED <<attached, online, closed, stopped, opened, streams, writing,
                       updates, confLock, crashed>>
        /\ pc[a] = "wait" /\ a \in {"maker", "updater"} /\ Goto(a, "online")
        /\ ~ Waits(opened) /\ file' = opened
    BY DEF SetFile, Locks, Actor
  <1>2. a = "maker" => ~ stopped'
    BY <1>1 DEF Locks
  <1>3. /\ Locks' /\ LastInv' /\ CrashNeedsFileUpdate'
        /\ pc' \in [Actor -> Place] /\ pc'[a] = "online"
        /\ \A b \in Actor \ {a}: pc'[b] = pc[b] /\ pc[b] \notin Busy
        /\ a = "updater" => fileSent
    BY <1>1, <1>2, BusyStep DEF Busy
  <1>4. Types'
    BY <1>1, <1>3 DEF Types, streams, updates
  <1>5. opened = file + 1 /\ ~ online /\ closed \subseteq 1..file
    BY <1>1 DEF WriterInv, PhaseOf, Busy
  <1>6. opened \notin closed /\ closed \subseteq 1..opened /\ opened # 0
    BY <1>5 DEF Types
  <1>7. PhaseOf(a)'
    BY <1>1, <1>3, <1>5, <1>6 DEF PhaseOf, Busy
  <1>8. WriterInv'
    BY <1>1, <1>3, <1>6, <1>7, BusyWriter DEF WriterInv, Busy
  <1>9. FileUpdates'
    BY <1>1, <1>3 DEF FileUpdates, updates, Actor
  <1>10. RedirectInv'
    <2>1. UNCHANGED <<redirect, std, opened, stopped>>
      BY <1>1 DEF streams
    <2>2. ASSUME NEW f \in {1, 2}, NEW s \in Stream, f <= opened
          PROVE  redirect[f][s] \in {"select", "copy", "done"}
      <3>1. CASE f = opened
        <4>1. redirect[f][s] \notin {"start", "found", "swapped"}
          BY <1>1, <3>1 DEF Waits
        <4>2. redirect[f][s] # "none"
          BY <3>1 DEF RedirectInv, Types
        <4> QED BY <4>1, <4>2 DEF Types
      <3>2. CASE f # opened
        BY <1>5, <2>2, <3>2 DEF RedirectInv, Types
      <3> QED BY <3>1, <3>2
    <2> QED BY <1>1, <2>1, <2>2 DEF RedirectInv
  <1> QED BY <1>1, <1>3, <1>4, <1>8, <1>9, <1>10

LEMMA GoOnlineStep ==
    ASSUME LogOutputInv, crashed = "no", NEW a \in Actor, GoOnline(a)
    PROVE  LogOutputInv'
  <1> USE DEF LogOutputInv, Core
  <1>1. /\ UNCHANGED <<attached, file, closed, stopped, opened, streams, writing,
                       updates, confLock, crashed>>
        /\ pc[a] = "online" /\ a \in {"maker", "updater"} /\ online'
    BY DEF GoOnline, Locks, Actor
  <1>2. Goto(a, IF a = "updater" THEN "finish" ELSE "idle")
    BY DEF GoOnline
  <1>3. /\ \A b \in Actor \ {a}: pc'[b] = pc[b] /\ pc[b] \notin Busy
        /\ pc' \in [Actor -> Place]
        /\ a = "updater" => fileSent
        /\ pc'[a] = IF a = "updater" THEN "finish" ELSE "idle"
    <2>1. a = "updater" => fileSent
      BY <1>1, BusyUpdater DEF Busy
    <2>2. \A b \in Actor \ {a}: pc'[b] = pc[b] /\ pc[b] \notin Busy
      BY <1>1, <1>2, AloneBusy DEF Goto, Types, Busy
    <2>3. pc' \in [Actor -> Place] /\ pc'[a] = IF a = "updater" THEN "finish" ELSE "idle"
      BY <1>2 DEF Goto, Types, Place
    <2> QED BY <2>1, <2>2, <2>3
  <1>4. Types'
    BY <1>1, <1>3 DEF Types, streams, updates
  <1>5. Locks'
    BY <1>1, <1>3 DEF Locks, Actor, Holding, Busy
  <1>6. LastInv' /\ CrashNeedsFileUpdate' /\ RedirectInv'
    BY <1>1, <1>3 DEF LastInv, LastUpdateRules, CrashNeedsFileUpdate, RedirectInv,
                      Locks, updates, streams, Actor
  <1>7. FileUpdates'
    BY <1>1, <1>3 DEF FileUpdates, Locks, updates, Actor
  <1>8. \A b \in Actor: pc'[b] \notin Busy
    BY <1>1, <1>3 DEF Busy
  <1>9. file = opened /\ file # 0 /\ file \notin closed
    BY <1>1 DEF WriterInv, PhaseOf, Busy
  <1>10. WriterInv'
    BY <1>1, <1>8, <1>9 DEF WriterInv, PhaseOf, Busy
  <1> QED BY <1>1, <1>4, <1>5, <1>6, <1>7, <1>10

-----------------------------------------------------------------------------
LEMMA LogOutputStep == LogOutputInv /\ [Next]_vars => LogOutputInv'
  <1> SUFFICES ASSUME LogOutputInv, [Next]_vars PROVE LogOutputInv'
    OBVIOUS
  <1>1. CASE UNCHANGED vars
    <2>1. UNCHANGED <<writer, streams, writing, updates, control, crashed>>
      BY <1>1 DEF vars
    <2>2. Types' /\ CrashNeedsFileUpdate' /\ crashed' = crashed
      BY <2>1 DEF LogOutputInv, Types, CrashNeedsFileUpdate, writer, streams, updates,
                  control
    <2>3. ASSUME crashed = "no" PROVE WriterInv' /\ RedirectInv'
      BY <2>1, <2>3, WriterKept DEF control
    <2>4. ASSUME crashed = "no" PROVE Locks' /\ FileUpdates' /\ LastInv'
      BY <2>1, <2>4 DEF LogOutputInv, Core, Locks, FileUpdates, LastInv,
                        LastUpdateRules, writer, updates, control
    <2> QED BY <2>2, <2>3, <2>4 DEF LogOutputInv, Core
  <1>2. CASE Next
    <2>1. crashed = "no"
      BY <1>2 DEF Next
    <2>2. ASSUME NEW a \in Actor, FileStep(a) PROVE LogOutputInv'
      BY <2>1, <2>2, CloseWriterStep, CloseChannelsStep, EnableStep, SetFileStep,
         GoOnlineStep DEF FileStep
    <2>3. CASE UpdaterStep
      BY <2>1, <2>2, <2>3, ReceiveStep, LockUpdateStep, EnableAfterCloseStep,
         FinishUpdateStep DEF UpdaterStep, Actor
    <2>4. CASE MainStep
      BY <2>1, <2>2, <2>4, LockCloseStep, DetachStep DEF MainStep, Actor
    <2>5. CASE \E f \in File, s \in Stream: Redirect(f, s) \/ CopyFails(f, s)
      BY <2>1, <2>5, RedirectStep
    <2>6. CASE \E w \in Writer: StartWrite(w) \/ WriteFile(w)
      BY <2>1, <2>6, WriteStep
    <2> QED BY <1>2, <2>1, <2>2, <2>3, <2>4, <2>5, <2>6, SendStep, StartCloseStep
            DEF Next, Actor
  <1> QED BY <1>1, <1>2

(* One actor at a time uses the writer, from NewManager on.                *)
THEOREM LogOutputInvariant == Spec => []LogOutputInv
  BY LogOutputInit, LogOutputStep, PTL DEF Spec

(* Without an update of the file, no close and no update ends the process. *)
THEOREM ClosingIsSafe == Spec => []CrashNeedsFileUpdate
  <1>1. LogOutputInv => CrashNeedsFileUpdate
    BY DEF LogOutputInv
  <1> QED BY <1>1, LogOutputInvariant, PTL

(* A crash leaves the streams, the writer's file and the updates alone.    *)
Promises == LastUpdateRules /\ FirstFileGetsStreams

LEMMA CorePromises == LogOutputInv /\ crashed = "no" => Promises
  <1> SUFFICES ASSUME LogOutputInv, crashed = "no" PROVE Promises
    OBVIOUS
  <1> USE DEF LogOutputInv, Core
  <1>1. ASSUME online, file = 1, NEW s \in Stream PROVE std[s] = 1
    <2>1. ~ stopped /\ opened # 2
      BY <1>1 DEF WriterInv
    <2>2. redirect[1][s] \in {"select", "copy"}
      BY <1>1, <2>1 DEF RedirectInv
    <2>3. opened = 1
      BY <2>1, <2>2 DEF RedirectInv, Types
    <2> QED BY <2>2, <2>3 DEF RedirectInv
  <1> QED BY <1>1 DEF Promises, LastInv, FirstFileGetsStreams

LEMMA PromisesStep ==
    LogOutputInv /\ Promises /\ [Next]_vars => Promises'
  <1> SUFFICES ASSUME LogOutputInv, Promises, [Next]_vars PROVE Promises'
    OBVIOUS
  <1>1. LogOutputInv'
    BY LogOutputStep
  <1>2. CASE crashed' = "no"
    <2>1. (LogOutputInv /\ crashed = "no" => Promises)'
      BY CorePromises, PTL
    <2> QED BY <1>1, <1>2, <2>1
  <1>3. CASE crashed' # "no"
    <2>1. UNCHANGED <<online, file, std, updates>>
      <3>1. CASE UNCHANGED vars
        BY <3>1 DEF vars, writer, streams
      <3>2. CASE Next
        <4>1. LockUpdate \/ \E a \in Actor: CloseChannels(a)
          BY <1>3, <3>2
             DEF Next, UpdaterStep, MainStep, FileStep, Redirect, UpdateConfig, Accept,
                 StartWrite, WriteFile, FindStream, SwapStream, ReportSwap, Select,
                 CopyFails, RestoreStream, StartClose, Receive, EnableAfterClose,
                 FinishUpdate, LockClose, Detach, CloseWriter, Enable, SetFile,
                 GoOnline, Actor
        <4> QED BY <4>1 DEF LockUpdate, CloseChannels, writer, streams
      <3> QED BY <3>1, <3>2
    <2> QED BY <2>1 DEF Promises, LastUpdateRules, FirstFileGetsStreams, updates
  <1> QED BY <1>2, <1>3

LEMMA PromisesKept == Spec => []Promises
  <1>1. Init => Promises
    BY LogOutputInit, CorePromises DEF Init
  <1> QED BY <1>1, PromisesStep, LogOutputInvariant, PTL DEF Spec

(* With no update waiting, the last one accepted rules.                    *)
THEOREM LastUpdateApplies == Spec => []LastUpdateRules
  <1>1. Promises => LastUpdateRules
    BY DEF Promises
  <1> QED BY <1>1, PromisesKept, PTL

(* While the first file is the file, both streams go into it.              *)
THEOREM StreamsReachFirstFile == Spec => []FirstFileGetsStreams
  <1>1. Promises => FirstFileGetsStreams
    BY DEF Promises
  <1> QED BY <1>1, PromisesKept, PTL

(* No line is written to a closed file, or through a nil one, although the *)
(* file is taken away between the check of a write and the write.          *)
THEOREM WritesReachFiles == Spec => NoWriteToClosedFile
  <1> DEFINE Written == \A w \in writing \ writing': file # 0 /\ file \notin closed
  <1>1. LogOutputInv /\ [Next]_vars => [Written]_vars
    <2> SUFFICES ASSUME LogOutputInv, Next, NEW w \in writing
                 PROVE  file # 0 /\ file \notin closed
      OBVIOUS
    <2>1. crashed = "no"
      BY DEF Next
    <2> QED BY <2>1 DEF LogOutputInv, Core, WriterInv
  <1>2. Spec => [][Written]_vars
    BY <1>1, LogOutputInvariant, PTL DEF Spec
  <1> QED BY <1>2 DEF NoWriteToClosedFile

(* Enabling a file is never cut short by the bound of the model: a third   *)
(* file would need stop channels that can be closed again.                 *)
THEOREM ThirdFileNeverOpened == Spec => []FilesSuffice
  <1>1. LogOutputInv => FilesSuffice
    BY DEF LogOutputInv, Core, Types, WriterInv, PhaseOf, FilesSuffice, Busy, File
  <1> QED BY <1>1, LogOutputInvariant, PTL

(* Close, an update and NewManager never wait for each other in a circle:  *)
(* the holder of confLock waits only for writes and redirections.          *)
THEOREM CallsNeverStuck == Spec => []WaitsEnd
  <1>1. LogOutputInv => WaitsEnd
    <2> SUFFICES ASSUME LogOutputInv, crashed = "no", NEW a \in Actor
                 PROVE  /\ pc[a] = "lock" =>
                              \/ CanGoOn(a)
                              \/ confLock \in Actor \ {a} /\ pc[confLock] \in Holding
                        /\ pc[a] \in Holding =>
                              \/ CanGoOn(a)
                              \/ pc[a] = "sleep" /\ writing # {}
                              \/ pc[a] = "wait" /\ \E s \in Stream:
                                    redirect[opened][s] \in {"start", "found", "swapped"}
      BY DEF WaitsEnd
    <2>1. Locks /\ WriterInv /\ RedirectInv /\ Types
      BY DEF LogOutputInv, Core
    <2>2. ASSUME pc[a] = "lock", confLock # "none"
          PROVE  confLock \in Actor \ {a} /\ pc[confLock] \in Holding
      <3>1. confLock \in {"none", "main", "updater"}
        BY <2>1 DEF Types
      <3> QED BY <2>1, <2>2, <3>1 DEF Locks, Actor, Holding, Busy
    <2>3. ASSUME pc[a] = "enable" PROVE ~ online /\ opened + 1 \in File
      BY <2>1, <2>3 DEF Types, WriterInv, PhaseOf, Busy, File
    <2> QED BY <2>2, <2>3 DEF CanGoOn, Holding, Busy, SleepOutlastsWrites, Waits
  <1> QED BY <1>1, LogOutputInvariant, PTL

(* Closing panics only for the second file, and always for that; and only  *)
(* an update that finds the file writer gone calls a nil one.              *)
THEOREM CrashCauses == Spec => []CrashCause
  <1>1. Init => CrashCause
    BY DEF Init, CrashCause
  <1>2. LogOutputInv /\ CrashCause /\ [Next]_vars => CrashCause'
    <2> SUFFICES ASSUME LogOutputInv, CrashCause, [Next]_vars PROVE CrashCause'
      OBVIOUS
    <2>1. CASE UNCHANGED vars
      BY <2>1 DEF CrashCause, vars, writer, updates
    <2> SUFFICES ASSUME Next PROVE CrashCause'
      BY <2>1
    <2>2. crashed = "no" /\ Core /\ Types
      BY DEF Next, LogOutputInv
    <2>3. ASSUME NEW a \in Actor, CloseChannels(a) PROVE CrashCause'
      <3>1. /\ UNCHANGED <<opened, attached, update>>
            /\ file = opened /\ file # 0 /\ file \notin closed /\ file \in {1, 2}
        BY <2>2, <2>3 DEF CloseChannels, updates, Core, WriterInv, PhaseOf, Busy, Types
      <3>2. CASE stopped
        <4>1. crashed' = "close of closed channel" /\ closed' = closed
          BY <2>3, <3>2 DEF CloseChannels
        <4>2. 1 \in closed
          BY <2>2, <3>2 DEF Core, WriterInv
        <4> QED BY <3>1, <4>1, <4>2 DEF CrashCause
      <3>3. CASE ~ stopped
        <4>1. crashed' = crashed /\ closed' = closed \cup {file}
          BY <2>3, <3>3 DEF CloseChannels
        <4>2. opened # 2
          BY <2>2, <3>3 DEF Core, WriterInv
        <4> QED BY <2>2, <3>1, <4>1, <4>2 DEF CrashCause
      <3> QED BY <3>2, <3>3
    <2>4. CASE LockUpdate
      <3>1. UNCHANGED <<attached, closed, opened, update>>
        BY <2>4 DEF LockUpdate, writer, updates
      <3>2. update # <<>>
        BY <2>2, <2>4 DEF LockUpdate, Core, LastInv
      <3>3. \/ crashed' = "no"
            \/ crashed' = "nil file writer" /\ ~ attached /\ update[1].file
        BY <2>2, <2>4 DEF LockUpdate
      <3> QED BY <3>1, <3>2, <3>3 DEF CrashCause
    <2>5. CASE ~ LockUpdate /\ ~ \E a \in Actor: CloseChannels(a)
      <3>1. crashed' = crashed /\ closed' = closed
        BY <2>5
           DEF Next, UpdaterStep, MainStep, FileStep, Redirect, UpdateConfig, Accept,
               StartWrite, WriteFile, FindStream, SwapStream, ReportSwap, Select,
               CopyFails, RestoreStream, StartClose, Receive, EnableAfterClose,
               FinishUpdate, LockClose, Detach, CloseWriter, Enable, SetFile,
               GoOnline, Actor, writer
      <3> QED BY <2>2, <3>1 DEF CrashCause
    <2> QED BY <2>3, <2>4, <2>5
  <1> QED BY <1>1, <1>2, LogOutputInvariant, PTL DEF Spec
=============================================================================
