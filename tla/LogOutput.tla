------------------------------ MODULE LogOutput ------------------------------
(***************************************************************************)
(* Where the log lines of pkg/agent_libraries/logger go: the rolling file  *)
(* writer, the goroutines that redirect stdout and stderr into its file,   *)
(* the configuration goroutine that re-opens it, and the manager's Close.  *)
(*                                                                         *)
(* A file and its two redirections are numbered by the enableFileLogger    *)
(* call that made them; 0 is no file, and the original console.            *)
(*                                                                         *)
(* The maker is NewManager; main then closes the manager as often as it    *)
(* likes; the updater is waitForConfigUpdate; senders call UpdateConfig,   *)
(* writers log.  Levels and the sentry part of an update are left to Loggers *)
(* and Sentry.                                                             *)
(***************************************************************************)
EXTENDS Naturals, Sequences

CONSTANTS
    Sender, Writer,   \* goroutines that update the configuration, that log
    FirstConfigs,     \* NewManager's configuration, and
    Updates,          \* the updates sent: is a file named, is stdout on?
    CopyErrors        \* may io.Copy fail, of a full disk or a closed console?

Config == [file: BOOLEAN, stdout: BOOLEAN]

ASSUME SwitchesAssumption ==
    /\ FirstConfigs \subseteq Config /\ Updates \subseteq Config
    /\ CopyErrors \in BOOLEAN

Stream == {"stdout", "stderr"}
Actor == {"maker", "main", "updater"}

(* Bound: the stop channels are closed once, so no third file is opened.   *)
File == 1..2

VARIABLES
    attached,     \* m.fileWriter is not nil
    online,       \* rollingFileWriter.online
    file,         \* its logger: the file of Write
    closed,       \* files that were closed
    stopped,      \* stopStdoutToFile and stopStderrToFile are closed
    opened,       \* number of enableFileLogger calls so far
    std,          \* os.Stdout and os.Stderr: the console, or a redirection
    redirect,     \* the goroutine of each file and stream
    saved,        \* the stream that goroutine found
    writing,      \* writers past the check of Write, before its file
    configCh,     \* the updates waiting, at most one
    sending,      \* the calls of UpdateConfig, as <<sender, update>>
    update,       \* the update being applied, in a sequence of one
    confLock,     \* who holds m.confLock
    pc,           \* of each actor
    stdoutOn,     \* stdoutWriter.isEnabled
    lastSent,     \* ghost: isEnabled of the last update accepted
    fileSent,     \* ghost: an update accepted so far names a file
    crashed       \* "no", or the panic that ended the process

writer == <<attached, online, file, closed, stopped, opened>>
streams == <<std, redirect, saved>>
updates == <<configCh, sending, update, stdoutOn, lastSent, fileSent>>
control == <<confLock, pc>>
vars == <<writer, streams, writing, updates, control, crashed>>

-----------------------------------------------------------------------------
(* newRollingFile, and NewManager up to its enableFileLogger.              *)
Init ==
    /\ attached = TRUE /\ online = FALSE /\ file = 0 /\ closed = {}
    /\ stopped = FALSE /\ opened = 0
    /\ std = [s \in Stream |-> 0]
    /\ redirect = [f \in File |-> [s \in Stream |-> "none"]]
    /\ saved = [f \in File |-> [s \in Stream |-> 0]]
    /\ writing = {}
    /\ configCh = <<>> /\ sending = {} /\ update = <<>>
    /\ confLock = "none"
    /\ \E c \in FirstConfigs:
         /\ pc = [a \in Actor |-> IF a = "maker" /\ c.file THEN "enable" ELSE "idle"]
         /\ stdoutOn = c.stdout /\ lastSent = c.stdout
    /\ fileSent = FALSE
    /\ crashed = "no"

Goto(a, place) == pc' = [pc EXCEPT ![a] = place]

(* NewManager has returned, and somebody else has the manager. *)
Running == pc["maker"] = "idle"

-----------------------------------------------------------------------------
(* rollingFileWriter.Close, for the updater and for Manager.Close.         *)
CloseWriter(a) ==
    /\ pc[a] = "close"
    /\ \/ /\ online
          /\ online' = FALSE
          /\ Goto(a, "sleep")
       \/ /\ ~ online
          /\ Goto(a, "closed")
          /\ UNCHANGED online
    /\ UNCHANGED <<attached, file, closed, stopped, opened, streams, writing,
                   updates, confLock, crashed>>

(* Mutant: Close does not sleep. *)
NoSleep == TRUE

(* Its sleep of 2 seconds: assumed longer than any Write takes.            *)
SleepOutlastsWrites == writing = {}

(* The stop channels belong to the writer, not to the file: a second close *)
(* of them panics, in whichever goroutine it is.                           *)
CloseChannels(a) ==
    /\ pc[a] = "sleep" /\ SleepOutlastsWrites
    /\ \/ /\ ~ stopped
          /\ stopped' = TRUE
          /\ closed' = closed \cup {file}
          /\ Goto(a, "closed")
          /\ UNCHANGED crashed
       \/ /\ stopped
          /\ crashed' = "close of closed channel"
          /\ UNCHANGED <<stopped, closed, pc>>
    /\ UNCHANGED <<attached, online, file, opened, streams, writing, updates,
                   confLock>>

(* enableFileLogger starts two goroutines and waits until both have put    *)
(* their pipe in place of the stream.                                      *)
Enable(a) ==
    /\ pc[a] = "enable" /\ ~ online /\ opened + 1 \in File
    /\ opened' = opened + 1
    /\ redirect' = [redirect EXCEPT ![opened'] = [s \in Stream |-> "start"]]
    /\ Goto(a, "wait")
    /\ UNCHANGED <<attached, online, file, closed, stopped, std, saved,
                   writing, updates, confLock, crashed>>

(* Mutant: each reports before its pipe is in place. *)
WaitsForStart(f) == \E s \in Stream: redirect[f][s] = "start"

Waits(f) == \E s \in Stream: redirect[f][s] \in {"start", "found", "swapped"}

(* Then the writer gets its new file, and is online.                       *)
SetFile(a) ==
    /\ pc[a] = "wait" /\ ~ Waits(opened)
    /\ file' = opened
    /\ Goto(a, "online")
    /\ UNCHANGED <<attached, online, closed, stopped, opened, streams,
                   writing, updates, confLock, crashed>>

GoOnline(a) ==
    /\ pc[a] = "online"
    /\ online' = TRUE
    /\ Goto(a, IF a = "updater" THEN "finish" ELSE "idle")
    /\ UNCHANGED <<attached, file, closed, stopped, opened, streams, writing,
                   updates, confLock, crashed>>

-----------------------------------------------------------------------------
(* The goroutine of file f and stream s: it remembers the stream it finds, *)
(* puts its pipe there, and copies the pipe until io.Copy fails; only      *)
(* between two copies does it look at the stop channel, and then it puts   *)
(* back what it found and closes its pipe.  A closed channel stays closed, *)
(* so the look and the putting back are one step.                          *)
At(f, s, place) == redirect[f][s] = place
Move(f, s, place) == redirect' = [redirect EXCEPT ![f][s] = place]

FindStream(f, s) ==
    /\ At(f, s, "start") /\ Move(f, s, "found")
    /\ saved' = [saved EXCEPT ![f][s] = std[s]]
    /\ UNCHANGED <<writer, std, writing, updates, control, crashed>>

SwapStream(f, s) ==
    /\ At(f, s, "found") /\ Move(f, s, "swapped")
    /\ std' = [std EXCEPT ![s] = f]
    /\ UNCHANGED <<writer, saved, writing, updates, control, crashed>>

(* wg.Done. *)
ReportSwap(f, s) ==
    /\ At(f, s, "swapped") /\ Move(f, s, "select")
    /\ UNCHANGED <<writer, std, saved, writing, updates, control, crashed>>

Select(f, s) ==
    /\ At(f, s, "select") /\ ~ stopped /\ Move(f, s, "copy")
    /\ UNCHANGED <<writer, std, saved, writing, updates, control, crashed>>

CopyFails(f, s) ==
    /\ CopyErrors /\ At(f, s, "copy") /\ Move(f, s, "select")
    /\ UNCHANGED <<writer, std, saved, writing, updates, control, crashed>>

RestoreStream(f, s) ==
    /\ At(f, s, "select") /\ stopped /\ Move(f, s, "done")
    /\ std' = [std EXCEPT ![s] = saved[f][s]]
    /\ saved' = [saved EXCEPT ![f][s] = 0]
    /\ UNCHANGED <<writer, writing, updates, control, crashed>>

Redirect(f, s) ==
    \/ FindStream(f, s) \/ SwapStream(f, s) \/ ReportSwap(f, s)
    \/ Select(f, s) \/ RestoreStream(f, s)

-----------------------------------------------------------------------------
(* rollingFileWriter.Write: the check, then the write to whatever file the *)
(* writer has by then.  Offline, the line is dropped.                      *)
StartWrite(w) ==
    /\ Running /\ online /\ w \notin writing
    /\ writing' = writing \cup {w}
    /\ UNCHANGED <<writer, streams, updates, control, crashed>>

WriteFile(w) ==
    /\ w \in writing
    /\ writing' = writing \ {w}
    /\ UNCHANGED <<writer, streams, updates, control, crashed>>

-----------------------------------------------------------------------------
(* UpdateConfig: a send on a channel of capacity one.                      *)
UpdateConfig(s, u) ==
    /\ Running /\ \A c \in sending: c[1] # s
    /\ sending' = sending \cup {<<s, u>>}
    /\ UNCHANGED <<writer, streams, writing, configCh, update, stdoutOn,
                   lastSent, fileSent, control, crashed>>

Accept(c) ==
    /\ configCh = <<>>
    /\ configCh' = <<c[2]>>
    /\ lastSent' = c[2].stdout
    /\ fileSent' = (fileSent \/ c[2].file)
    /\ sending' = sending \ {c}
    /\ UNCHANGED <<writer, streams, writing, update, stdoutOn, control, crashed>>

Receive ==
    /\ Running /\ pc["updater"] = "idle" /\ configCh # <<>>
    /\ update' = configCh /\ configCh' = <<>>
    /\ Goto("updater", "lock")
    /\ UNCHANGED <<writer, streams, writing, sending, stdoutOn, lastSent,
                   fileSent, confLock, crashed>>

(* Mutant: every update is taken for one of the file. *)
LockEveryUpdate ==
    /\ pc["updater"] = "lock" /\ confLock = "none"
    /\ confLock' = "updater"
    /\ \/ /\ attached
          /\ Goto("updater", IF file # 0 THEN "close" ELSE "enable")
          /\ UNCHANGED crashed
       \/ /\ ~ attached
          /\ crashed' = "nil file writer"
          /\ UNCHANGED pc
    /\ UNCHANGED <<writer, streams, writing, updates>>

(* safeUpdateConfig up to its file part, which needs m.fileWriter.         *)
LockUpdate ==
    /\ pc["updater"] = "lock" /\ confLock = "none"
    /\ confLock' = "updater"
    /\ \/ /\ ~ update[1].file
          /\ Goto("updater", "finish")
          /\ UNCHANGED crashed
       \/ /\ update[1].file /\ attached
          /\ Goto("updater", IF file # 0 THEN "close" ELSE "enable")
          /\ UNCHANGED crashed
       \/ /\ update[1].file /\ ~ attached
          /\ crashed' = "nil file writer"
          /\ UNCHANGED pc
    /\ UNCHANGED <<writer, streams, writing, updates>>

EnableAfterClose ==
    /\ pc["updater"] = "closed"
    /\ Goto("updater", "enable")
    /\ UNCHANGED <<writer, streams, writing, updates, confLock, crashed>>

(* Mutant: an update never switches stdout off. *)
FinishUpdateOnlyEnables ==
    /\ pc["updater"] = "finish"
    /\ stdoutOn' = (stdoutOn \/ update[1].stdout)
    /\ update' = <<>>
    /\ confLock' = "none"
    /\ Goto("updater", "idle")
    /\ UNCHANGED <<writer, streams, writing, configCh, sending, lastSent, fileSent,
                   crashed>>

(* Mutant: the update keeps the lock. *)
FinishUpdateStillLocked ==
    /\ pc["updater"] = "finish"
    /\ stdoutOn' = update[1].stdout
    /\ update' = <<>>
    /\ Goto("updater", "idle")
    /\ UNCHANGED <<writer, streams, writing, configCh, sending, lastSent,
                   fileSent, confLock, crashed>>

FinishUpdate ==
    /\ pc["updater"] = "finish"
    /\ stdoutOn' = update[1].stdout
    /\ update' = <<>>
    /\ confLock' = "none"
    /\ Goto("updater", "idle")
    /\ UNCHANGED <<writer, streams, writing, configCh, sending, lastSent, fileSent,
                   crashed>>

(* Manager.Close, again and again. *)
StartClose ==
    /\ Running /\ pc["main"] = "idle"
    /\ Goto("main", "lock")
    /\ UNCHANGED <<writer, streams, writing, updates, confLock, crashed>>

LockClose ==
    /\ pc["main"] = "lock" /\ confLock = "none"
    /\ \/ /\ attached
          /\ confLock' = "main"
          /\ Goto("main", "close")
       \/ /\ ~ attached
          /\ Goto("main", "idle")
          /\ UNCHANGED confLock
    /\ UNCHANGED <<writer, streams, writing, updates, crashed>>

Detach ==
    /\ pc["main"] = "closed"
    /\ attached' = FALSE
    /\ confLock' = "none"
    /\ Goto("main", "idle")
    /\ UNCHANGED <<online, file, closed, stopped, opened, streams, writing,
                   updates, crashed>>

-----------------------------------------------------------------------------
FileStep(a) == CloseWriter(a) \/ CloseChannels(a) \/ Enable(a) \/ SetFile(a)
               \/ GoOnline(a)
UpdaterStep == Receive \/ LockUpdate \/ EnableAfterClose \/ FinishUpdate
               \/ FileStep("updater")
MainStep == LockClose \/ Detach \/ FileStep("main")

Next ==
    /\ crashed = "no"
    /\ \/ \E s \in Sender, u \in Updates: UpdateConfig(s, u)
       \/ \E c \in sending: Accept(c)
       \/ \E w \in Writer: StartWrite(w) \/ WriteFile(w)
       \/ \E f \in File, s \in Stream: Redirect(f, s) \/ CopyFails(f, s)
       \/ StartClose
       \/ UpdaterStep \/ MainStep \/ FileStep("maker")

(* Goroutines run on.  Two need strong fairness: a lock is taken again and *)
(* again by the other side, and so is the place in the channel by other    *)
(* senders; sync.RWMutex and channels both queue those who wait.           *)
Fairness ==
    /\ WF_vars(crashed = "no" /\ FileStep("maker"))
    /\ SF_vars(crashed = "no" /\ UpdaterStep)
    /\ SF_vars(crashed = "no" /\ MainStep)
    /\ \A s \in Sender: SF_vars(crashed = "no" /\ \E c \in sending:
                                                     c[1] = s /\ Accept(c))
    /\ \A w \in Writer: WF_vars(crashed = "no" /\ WriteFile(w))
    /\ \A f \in File, s \in Stream: WF_vars(crashed = "no" /\ Redirect(f, s))

Spec == Init /\ [][Next]_vars
FairSpec == Spec /\ Fairness

-----------------------------------------------------------------------------
Place == {"idle", "lock", "close", "sleep", "closed", "enable", "wait",
          "online", "finish"}

TypeOK ==
    /\ attached \in BOOLEAN /\ online \in BOOLEAN /\ stopped \in BOOLEAN
    /\ file \in File \cup {0} /\ opened \in File \cup {0}
    /\ closed \subseteq File
    /\ std \in [Stream -> File \cup {0}]
    /\ redirect \in [File -> [Stream ->
           {"none", "start", "found", "swapped", "select", "copy", "done"}]]
    /\ saved \in [File -> [Stream -> File \cup {0}]]
    /\ writing \subseteq Writer
    /\ configCh \in {<<>>} \cup {<<u>> : u \in Updates}
    /\ update \in {<<>>} \cup {<<u>> : u \in Updates}
    /\ sending \subseteq Sender \X Updates
    /\ confLock \in {"none", "main", "updater"}
    /\ pc \in [Actor -> Place]
    /\ stdoutOn \in BOOLEAN /\ lastSent \in BOOLEAN /\ fileSent \in BOOLEAN
    /\ crashed \in {"no", "close of closed channel", "nil file writer"}

(* Write checks that the writer is online, and uses the file later, while  *)
(* a Close or an update may take the file away: still, no line is written  *)
(* to a file that is closed, or through a nil file.                        *)
NoWriteToClosedFile ==
    [][\A w \in writing \ writing': file # 0 /\ file \notin closed]_vars

(* While the first file is the file, both streams go into it, once the     *)
(* writer is online (logger_test.go:164-170 reads stdout and stderr back   *)
(* from the file).                                                         *)
FirstFileGetsStreams ==
    online /\ file = 1 => \A s \in Stream: std[s] = 1

(* Updates are applied in the order they were accepted, and none is lost:  *)
(* when none is waiting, the last one rules.                               *)
LastUpdateRules ==
    configCh = <<>> /\ update = <<>> => stdoutOn = lastSent

(* Without an update of the file, closing the manager is safe, as often    *)
(* and at whatever time it is done.                                        *)
CrashNeedsFileUpdate == crashed # "no" => fileSent

(* Unless the process ends, a call of UpdateConfig returns, its update is  *)
(* applied, and a call of Close returns.                                   *)
CallsReturn ==
    /\ \A s \in Sender: (\E c \in sending: c[1] = s)
                          ~> ((\A c \in sending: c[1] # s) \/ crashed # "no")
    /\ pc["updater"] # "idle" ~> (pc["updater"] = "idle" \/ crashed # "no")
    /\ pc["main"] # "idle" ~> (pc["main"] = "idle" \/ crashed # "no")

-----------------------------------------------------------------------------
(* What manager.go:51 says of Close: it "closes the file logger safely".   *)
CloseIsSafe == crashed # "no" => pc["main"] # "sleep"

(* What enableFileLogger prints (file_logger.go:84): "Logs captured under" *)
(* the file it opens; a redirection that copies is into that file.         *)
StreamsFollowFile ==
    online /\ (\A f \in File, s \in Stream: redirect[f][s] \in {"none", "copy", "done"})
        => \A s \in Stream: std[s] = file
=============================================================================
