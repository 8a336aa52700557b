-------------------------- MODULE Monitoring_proofs --------------------------
(***************************************************************************)
(* Proofs about what the monitors of an instance see: its liveness, for    *)
(* any interval, second, width of a duration and graces, and its heartbeat *)
(* for any number of callers and any configurations.                       *)
(***************************************************************************)
EXTENDS Liveness, Heartbeat, TLAPS

(* A ticker that runs is never late: its next tick is ahead, by at most an *)
(* interval; and the last tick taken is as near when none is waiting.      *)
TickerInv ==
    loop \in {"select", "push"} =>
        /\ Interval # 0
        /\ now < nextTick /\ nextTick <= now + Interval
        /\ ~ tick /\ livenessTimestamp # 0 => nextTick <= livenessTimestamp + Interval

(* Before the loop runs there is no timestamp; then it is older than the   *)
(* push or the end the loop is in.                                         *)
TimestampInv ==
    /\ loop = "new" => livenessTimestamp = 0
    /\ loop \in {"push", "ended"} => livenessTimestamp <= since

LivenessTypes ==
    /\ now \in Nat /\ Epoch <= now
    /\ livenessTimestamp \in Nat /\ livenessTimestamp <= now
    /\ nextTick \in Nat /\ since \in Nat
    /\ loop \in {"new", "select", "push", "ended"}

LivenessInv == LivenessTypes /\ TickerInv /\ TimestampInv

-----------------------------------------------------------------------------
(* A product of durations is kept when it fits, and is always a duration.  *)
LEMMA WrappedFits ==
    ASSUME NEW d \in Nat, 2 * d < Modulus
    PROVE  Wrapped(d) = d
  <1>1. d % Modulus = d
    BY TimeAssumption
  <1> QED BY <1>1 DEF Wrapped

LEMMA WrappedBound ==
    ASSUME NEW d \in Nat
    PROVE  Wrapped(d) \in Int /\ Wrapped(d) < Modulus
  <1>1. d % Modulus \in 0 .. Modulus - 1
    BY TimeAssumption
  <1> QED BY <1>1, TimeAssumption DEF Wrapped

LEMMA LivenessInvInit == LivenessInit => LivenessInv
  <1> SUFFICES ASSUME LivenessInit PROVE LivenessInv
    OBVIOUS
  <1>1. LivenessTypes
    BY TimeAssumption DEF LivenessInit, LivenessTypes
  <1>2. TickerInv /\ TimestampInv
    BY DEF LivenessInit, TickerInv, TimestampInv
  <1> QED BY <1>1, <1>2 DEF LivenessInv

LEMMA LivenessInvStep == LivenessInv /\ [LivenessNext]_livenessVars => LivenessInv'
  <1> SUFFICES ASSUME LivenessInv, [LivenessNext]_livenessVars PROVE LivenessInv'
    OBVIOUS
  <1> USE TimeAssumption DEF LivenessInv, LivenessTypes, TickerInv, TimestampInv
  <1>1. CASE Run
    <2>1. LivenessTypes' /\ TimestampInv'
      BY <1>1 DEF Run
    <2>2. TickerInv'
      <3>1. now \in Nat /\ Interval \in Nat /\ Interval # 0
        BY <1>1 DEF Run
      <3>2. now' = now /\ nextTick' = now + Interval
        BY <1>1 DEF Run
      <3>3. livenessTimestamp = 0 /\ livenessTimestamp' = livenessTimestamp
        BY <1>1 DEF Run
      <3> QED BY <3>1, <3>2, <3>3
    <2> QED BY <2>1, <2>2
  <1>2. CASE Elapse
    <2>1. CASE loop \in {"select", "push"} /\ now' = nextTick
      <3>1. /\ now' = now + 1 /\ tick' = TRUE /\ nextTick' = nextTick + Interval
            /\ UNCHANGED <<livenessTimestamp, loop, since>>
        BY <1>2, <2>1 DEF Elapse
      <3>2. LivenessTypes' /\ TimestampInv'
        BY <3>1
      <3>3. tick'
        BY <3>1, Zenon
      <3>4. Interval # 0 /\ now' < nextTick' /\ nextTick' <= now' + Interval
        <4>1. now' = nextTick /\ Interval \in Nat /\ Interval # 0 /\ nextTick \in Nat
          BY <2>1
        <4>2. nextTick' = nextTick + Interval
          BY <3>1
        <4> QED BY <4>1, <4>2
      <3>5. TickerInv'
        BY <3>3, <3>4
      <3> QED BY <3>2, <3>5
    <2>2. CASE ~ (loop \in {"select", "push"} /\ now' = nextTick)
      BY <1>2, <2>2 DEF Elapse
    <2> QED BY <2>1, <2>2
  <1>3. CASE TakeTick
    BY <1>3 DEF TakeTick
  <1>4. CASE BeginPush
    BY <1>4 DEF BeginPush
  <1>5. CASE EndPush
    BY <1>5 DEF EndPush
  <1>6. CASE Stop
    BY <1>6 DEF Stop
  <1>7. CASE UNCHANGED livenessVars
    BY <1>7 DEF livenessVars
  <1> QED BY <1>1, <1>2, <1>3, <1>4, <1>5, <1>6, <1>7 DEF LivenessNext

(* The loop takes its ticks in time, and a timestamp is not renewed while  *)
(* the loop is away.                                                       *)
THEOREM LivenessInvariant == LivenessSpec => []LivenessInv
  BY LivenessInvInit, LivenessInvStep, PTL DEF LivenessSpec

(* With a grace of an interval or more, that fits a duration, a loop that  *)
(* is back from its pushes and has taken its tick is alive.                *)
THEOREM AlarmsAreReal == LivenessSpec => []NoFalseAlarm
  <1>1. LivenessInv => NoFalseAlarm
    <2> SUFFICES ASSUME LivenessInv, loop = "select", ~ tick, livenessTimestamp # 0,
                        NEW g \in Graces, Fits(g), Interval <= g * Second
                 PROVE  IsAlive(g)
      BY DEF NoFalseAlarm
    <2> DEFINE d == g * Second
    <2>1. d \in Nat /\ 2 * d < Modulus /\ Interval <= d
      BY TimeAssumption DEF Fits
    <2>2. Wrapped(d) = d
      BY <2>1, WrappedFits
    <2>3. now < livenessTimestamp + Interval
      BY TimeAssumption DEF LivenessInv, LivenessTypes, TickerInv
    <2> HIDE DEF d
    <2>4. now < livenessTimestamp + d
      BY <2>1, <2>3, TimeAssumption DEF LivenessInv, LivenessTypes
    <2> QED BY <2>2, <2>4 DEF IsAlive, d
  <1> QED BY <1>1, LivenessInvariant, PTL

(* A loop held in a push, or ended, for the grace is not alive, and with   *)
(* no tick taken no grace at all is long enough.                           *)
THEOREM AlarmsAreRaised == LivenessSpec => []HeldIsNoticed
  <1>1. LivenessInv => HeldIsNoticed
    <2> SUFFICES ASSUME LivenessInv, NEW g \in Graces
                 PROVE  /\ Fits(g) /\ loop \in {"push", "ended"} /\ since + g * Second <= now
                               => ~ IsAlive(g)
                        /\ livenessTimestamp = 0 => ~ IsAlive(g)
      BY DEF HeldIsNoticed
    <2> DEFINE d == g * Second
    <2>1. d \in Nat
      BY TimeAssumption
    <2>2. ASSUME Fits(g), loop \in {"push", "ended"}, since + d <= now PROVE ~ IsAlive(g)
      <3>1. 2 * d < Modulus
        BY <2>2, TimeAssumption DEF Fits
      <3>2. Wrapped(d) = d
        BY <2>1, <3>1, WrappedFits
      <3> HIDE DEF d
      <3>3. livenessTimestamp + d <= now
        BY <2>1, <2>2 DEF LivenessInv, LivenessTypes, TimestampInv
      <3>4. ~ (now < livenessTimestamp + d)
        BY <2>1, <3>3 DEF LivenessInv, LivenessTypes
      <3> QED BY <3>2, <3>4 DEF IsAlive, d
    <2>3. ASSUME livenessTimestamp = 0 PROVE ~ IsAlive(g)
      <3>1. Wrapped(d) \in Int /\ Wrapped(d) < Modulus
        BY <2>1, WrappedBound
      <3>2. ~ (now < livenessTimestamp + Wrapped(d))
        BY <2>3, <3>1, TimeAssumption, EpochAssumption DEF LivenessInv, LivenessTypes
      <3> QED BY <3>2 DEF IsAlive
    <2> QED BY <2>2, <2>3
  <1> QED BY <1>1, LivenessInvariant, PTL

(* What a grace that fits, and one whose product wraps below zero, decide: *)
(* with the one an instance lives as it ticks, with the other never.       *)
GraceMustFit ==
    \A g \in Graces:
        /\ livenessTimestamp = now /\ Fits(g) /\ g # 0 => IsAlive(g)
        /\ Wrapped(g * Second) <= 0 => ~ IsAlive(g)

(* The product decides: what the test of the liveness checks holds as long *)
(* as its interval fits, and an overflown grace buries what is alive.      *)
THEOREM GraceDecides == LivenessSpec => [](GraceMustFit /\ (Interval # 0 /\ Fits(Interval) => TickIsAlive))
  <1>1. LivenessInv => GraceMustFit
    <2> SUFFICES ASSUME LivenessInv, NEW g \in Graces
                 PROVE  /\ livenessTimestamp = now /\ Fits(g) /\ g # 0 => IsAlive(g)
                        /\ Wrapped(g * Second) <= 0 => ~ IsAlive(g)
      BY DEF GraceMustFit
    <2> DEFINE d == g * Second
    <2>1. d \in Nat
      BY TimeAssumption
    <2>2. ASSUME livenessTimestamp = now, Fits(g), g # 0 PROVE IsAlive(g)
      <3>1. 2 * d < Modulus /\ d > 0
        BY <2>2, TimeAssumption DEF Fits
      <3>2. Wrapped(d) = d
        BY <2>1, <3>1, WrappedFits
      <3> HIDE DEF d
      <3>3. now < livenessTimestamp + d
        BY <2>1, <2>2, <3>1 DEF LivenessInv, LivenessTypes
      <3> QED BY <3>2, <3>3 DEF IsAlive, d
    <2>3. ASSUME Wrapped(d) <= 0 PROVE ~ IsAlive(g)
      <3>1. Wrapped(d) \in Int
        BY <2>1, WrappedBound
      <3>2. ~ (now < livenessTimestamp + Wrapped(d))
        BY <2>3, <3>1 DEF LivenessInv, LivenessTypes
      <3> QED BY <3>2 DEF IsAlive
    <2> QED BY <2>2, <2>3
  <1>2. GraceMustFit => (Interval # 0 /\ Fits(Interval) => TickIsAlive)
    BY DEF GraceMustFit, TickIsAlive
  <1> QED BY <1>1, <1>2, LivenessInvariant, PTL

-----------------------------------------------------------------------------
Writing == {"uuid", "version"}
Reading == {"readUUID", "readVersion"}
Value == {Blank} \cup {c.UUID : c \in HeartbeatConfigs} \cup {c.Version : c \in HeartbeatConfigs}
Message == [UUID: Value, Version: Value]

HeartbeatTypes ==
    /\ place \in [Caller -> Writing \cup Reading \cup {"idle"}]
    /\ arg \in [Caller -> Message] /\ got \in [Caller -> Message]
    /\ uuid \in Value /\ version \in Value
    /\ writer \subseteq Caller /\ readers \subseteq Caller

(* heartbeatLock: writers are alone, and nobody writes while it is read.   *)
Locking ==
    /\ \A c \in Caller: /\ place[c] \in Writing <=> writer = {c}
                        /\ place[c] \in Reading <=> c \in readers
    /\ writer = {} \/ readers = {}
    /\ writer = {} \/ \E c \in Caller: writer = {c}

(* With nobody writing, the message is the last configuration, and what a  *)
(* reader or a writer has copied so far is in it.                          *)
Copied ==
    /\ writer = {} => accepted = [UUID |-> uuid, Version |-> version]
    /\ \A c \in Caller: /\ At(c, "version") => uuid = arg[c].UUID
                        /\ At(c, "readVersion") => got[c].UUID = uuid

HeartbeatInv == HeartbeatTypes /\ Locking /\ Copied

LEMMA ConfigIsMessage == HeartbeatConfigs \subseteq Message
  BY ConfigsAssumption DEF Message, Value

LEMMA HeartbeatStart == HeartbeatInit => HeartbeatInv
  <1> SUFFICES ASSUME HeartbeatInit PROVE HeartbeatInv
    OBVIOUS
  <1>1. HeartbeatTypes
    BY DEF HeartbeatInit, HeartbeatTypes, NoConfig, Message, Value
  <1>2. Locking
    BY DEF HeartbeatInit, Locking, Writing, Reading
  <1>3. Copied
    BY DEF HeartbeatInit, Copied, NoConfig, At
  <1> QED BY <1>1, <1>2, <1>3 DEF HeartbeatInv

LEMMA HeartbeatWrites ==
    ASSUME HeartbeatInv, NEW c \in Caller,
           (\E conf \in HeartbeatConfigs: UpdateConfiguration(c, conf))
               \/ SetUUID(c) \/ SetVersion(c)
    PROVE  HeartbeatInv'
  <1> USE DEF HeartbeatInv
  <1>1. CASE \E conf \in HeartbeatConfigs: UpdateConfiguration(c, conf)
    <2>1. PICK conf \in HeartbeatConfigs: UpdateConfiguration(c, conf)
      BY <1>1
    <2>2. /\ place' = [place EXCEPT ![c] = "uuid"] /\ arg' = [arg EXCEPT ![c] = conf]
          /\ writer = {} /\ readers = {} /\ writer' = {c}
          /\ UNCHANGED <<uuid, version, accepted, readers, got>>
      BY <2>1 DEF UpdateConfiguration, Move, msg
    <2>3. HeartbeatTypes'
      BY <2>2, ConfigIsMessage DEF HeartbeatTypes, Writing
    <2>4. Locking'
      BY <2>2 DEF HeartbeatTypes, Locking, Writing, Reading
    <2>5. Copied'
      BY <2>2 DEF HeartbeatTypes, Locking, Copied, At, Writing, Reading
    <2> QED BY <2>3, <2>4, <2>5
  <1>2. CASE SetUUID(c)
    <2>1. /\ place' = [place EXCEPT ![c] = "version"] /\ place[c] = "uuid"
          /\ uuid' = arg[c].UUID
          /\ UNCHANGED <<version, accepted, writer, readers, arg, got>>
      BY <1>2 DEF SetUUID, At, Move, lock
    <2>2. HeartbeatTypes'
      BY <2>1 DEF HeartbeatTypes, Writing, Message
    <2>3. Locking'
      BY <2>1 DEF HeartbeatTypes, Locking, Writing, Reading
    <2>4. Copied'
      BY <2>1 DEF HeartbeatTypes, Locking, Copied, At, Writing, Reading
    <2> QED BY <2>2, <2>3, <2>4
  <1>3. CASE SetVersion(c)
    <2>1. /\ place' = [place EXCEPT ![c] = "idle"] /\ place[c] = "version"
          /\ version' = arg[c].Version /\ accepted' = arg[c]
          /\ arg' = [arg EXCEPT ![c] = NoConfig] /\ writer' = {}
          /\ UNCHANGED <<uuid, readers, got>>
      BY <1>3 DEF SetVersion, At, Move
    <2>2. HeartbeatTypes'
      BY <2>1 DEF HeartbeatTypes, Writing, Message, NoConfig, Value
    <2>3. Locking'
      BY <2>1 DEF HeartbeatTypes, Locking, Writing, Reading
    <2>4. accepted' = [UUID |-> uuid', Version |-> version']
      BY <2>1 DEF HeartbeatTypes, Copied, At, Message
    <2>5. Copied'
      BY <2>1, <2>4 DEF HeartbeatTypes, Locking, Copied, At, Writing, Reading
    <2> QED BY <2>2, <2>3, <2>5
  <1> QED BY <1>1, <1>2, <1>3

LEMMA HeartbeatReads ==
    ASSUME HeartbeatInv, NEW c \in Caller, GetHeartbeat(c) \/ CopyUUID(c) \/ CopyVersion(c)
    PROVE  HeartbeatInv'
  <1> USE DEF HeartbeatInv
  <1>1. CASE GetHeartbeat(c)
    <2>1. /\ place' = [place EXCEPT ![c] = "readUUID"] /\ place[c] = "idle"
          /\ writer = {} /\ readers' = readers \cup {c}
          /\ UNCHANGED <<uuid, version, accepted, writer, arg, got>>
      BY <1>1 DEF GetHeartbeat, At, Move, msg
    <2>2. HeartbeatTypes'
      BY <2>1 DEF HeartbeatTypes, Reading
    <2>3. Locking'
      BY <2>1 DEF HeartbeatTypes, Locking, Writing, Reading
    <2>4. Copied'
      BY <2>1 DEF HeartbeatTypes, Copied, At
    <2> QED BY <2>2, <2>3, <2>4
  <1>2. CASE CopyUUID(c)
    <2>1. /\ place' = [place EXCEPT ![c] = "readVersion"] /\ place[c] = "readUUID"
          /\ got' = [got EXCEPT ![c].UUID = uuid]
          /\ UNCHANGED <<uuid, version, accepted, writer, readers, arg>>
      BY <1>2 DEF CopyUUID, At, Move, msg, lock
    <2>2. HeartbeatTypes'
      BY <2>1 DEF HeartbeatTypes, Reading, Message
    <2>3. Locking'
      BY <2>1 DEF HeartbeatTypes, Locking, Writing, Reading
    <2>4. Copied'
      BY <2>1 DEF HeartbeatTypes, Copied, At, Message
    <2> QED BY <2>2, <2>3, <2>4
  <1>3. CASE CopyVersion(c)
    <2>1. /\ place' = [place EXCEPT ![c] = "idle"] /\ place[c] = "readVersion"
          /\ got' = [got EXCEPT ![c].Version = version] /\ readers' = readers \ {c}
          /\ UNCHANGED <<uuid, version, accepted, writer, arg>>
      BY <1>3 DEF CopyVersion, At, Move, msg
    <2>2. HeartbeatTypes'
      BY <2>1 DEF HeartbeatTypes, Message
    <2>3. Locking'
      BY <2>1 DEF HeartbeatTypes, Locking, Writing, Reading
    <2>4. Copied'
      BY <2>1 DEF HeartbeatTypes, Copied, At, Message
    <2> QED BY <2>2, <2>3, <2>4
  <1> QED BY <1>1, <1>2, <1>3

LEMMA HeartbeatStep == HeartbeatInv /\ [HeartbeatNext]_heartbeatVars => HeartbeatInv'
  <1>1. CASE UNCHANGED heartbeatVars
    BY <1>1 DEF heartbeatVars, msg, lock, HeartbeatInv, HeartbeatTypes, Locking, Copied, At
  <1>2. CASE HeartbeatNext
    BY <1>2, HeartbeatWrites, HeartbeatReads DEF HeartbeatNext
  <1> QED BY <1>1, <1>2

(* Readers and writers of the heartbeat exclude each other.                *)
THEOREM HeartbeatInvariant == HeartbeatSpec => []HeartbeatInv
  BY HeartbeatStart, HeartbeatStep, PTL DEF HeartbeatSpec

(* A heartbeat that is returned is that of one configuration, the last one *)
(* applied, for any number of goroutines that update and read it.          *)
THEOREM HeartbeatsAreWhole == HeartbeatSpec => HeartbeatIsLastConfig
  <1> DEFINE Returns ==
        \A c \in Caller: At(c, "readVersion") /\ place'[c] # "readVersion"
            => got'[c] = accepted
  <1>1. HeartbeatInv /\ [HeartbeatNext]_heartbeatVars => [Returns]_heartbeatVars
    <2> SUFFICES ASSUME HeartbeatInv, HeartbeatNext, NEW c \in Caller,
                        place[c] = "readVersion", place'[c] # "readVersion"
                 PROVE  got'[c] = accepted
      BY DEF At
    <2>1. PICK d \in Caller:
            \/ \E conf \in HeartbeatConfigs: UpdateConfiguration(d, conf)
            \/ SetUUID(d) \/ SetVersion(d)
            \/ GetHeartbeat(d) \/ CopyUUID(d) \/ CopyVersion(d)
      BY DEF HeartbeatNext
    <2>2. \E p \in {"uuid", "version", "idle", "readUUID", "readVersion"}:
             place' = [place EXCEPT ![d] = p]
      BY <2>1 DEF UpdateConfiguration, SetUUID, SetVersion, GetHeartbeat, CopyUUID,
                  CopyVersion, Move
    <2>3. d = c
      BY <2>2 DEF HeartbeatInv, HeartbeatTypes
    <2>4. CopyVersion(c)
      BY <2>1, <2>3 DEF UpdateConfiguration, SetUUID, SetVersion, GetHeartbeat,
                        CopyUUID, At
    <2>5. got' = [got EXCEPT ![c].Version = version] /\ c \in readers
      BY <2>4 DEF CopyVersion, HeartbeatInv, Locking, Reading
    <2>6. writer = {} /\ got[c].UUID = uuid
      BY <2>5 DEF HeartbeatInv, Locking, Copied, At
    <2> QED BY <2>5, <2>6 DEF HeartbeatInv, HeartbeatTypes, Copied, Message
  <1>2. HeartbeatSpec => [][Returns]_heartbeatVars
    BY <1>1, HeartbeatInvariant, PTL DEF HeartbeatSpec
  <1> QED BY <1>2 DEF HeartbeatIsLastConfig
=============================================================================
