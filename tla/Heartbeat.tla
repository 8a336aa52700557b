----------------------------- MODULE Heartbeat -----------------------------
(***************************************************************************)
(* The heartbeat message of one instance of pkg/processor: goroutines that *)
(* call UpdateConfiguration write its two fields one after the other, and  *)
(* those that call GetHeartbeat copy them, all under heartbeatLock.        *)
(***************************************************************************)
CONSTANTS
    Caller,     \* goroutines
    HeartbeatConfigs,  \* what UpdateConfiguration is called with
    Blank       \* the zero value of a message's field

ASSUME ConfigsAssumption ==
    \A c \in HeartbeatConfigs: c = [UUID |-> c.UUID, Version |-> c.Version]

VARIABLES
    uuid, version,   \* heartbeatMsg
    writer,          \* who holds heartbeatLock to write, in a set of one
    readers,         \* who hold it to read
    place,           \* of each caller
    arg,             \* the configuration of each caller's update
    got,             \* the message each caller has read, as a configuration
    accepted         \* ghost: the configuration of the last update

msg == <<uuid, version, accepted>>
lock == <<writer, readers>>
heartbeatVars == <<msg, lock, place, arg, got>>

NoConfig == [UUID |-> Blank, Version |-> Blank]

-----------------------------------------------------------------------------
HeartbeatInit ==
    /\ uuid = Blank /\ version = Blank /\ accepted = NoConfig
    /\ writer = {} /\ readers = {}
    /\ place = [c \in Caller |-> "idle"]
    /\ arg = [c \in Caller |-> NoConfig]
    /\ got = [c \in Caller |-> NoConfig]

At(c, p) == place[c] = p
Move(c, p) == place' = [place EXCEPT ![c] = p]

UpdateConfiguration(c, conf) ==
    /\ At(c, "idle") /\ writer = {} /\ readers = {}
    /\ writer' = {c}
    /\ arg' = [arg EXCEPT ![c] = conf]
    /\ Move(c, "uuid")
    /\ UNCHANGED <<msg, readers, got>>

SetUUID(c) ==
    /\ At(c, "uuid") /\ Move(c, "version")
    /\ uuid' = arg[c].UUID
    /\ UNCHANGED <<version, accepted, lock, arg, got>>

SetVersion(c) ==
    /\ At(c, "version") /\ Move(c, "idle")
    /\ version' = arg[c].Version
    /\ accepted' = arg[c]
    /\ arg' = [arg EXCEPT ![c] = NoConfig]
    /\ writer' = {}
    /\ UNCHANGED <<uuid, readers, got>>

(* Mutant: the message is read without the lock.                           *)
GetHeartbeatUnlocked(c) ==
    /\ At(c, "idle") /\ Move(c, "readUUID")
    /\ readers' = readers \cup {c}
    /\ UNCHANGED <<msg, writer, arg, got>>

GetHeartbeat(c) ==
    /\ At(c, "idle") /\ writer = {} /\ Move(c, "readUUID")
    /\ readers' = readers \cup {c}
    /\ UNCHANGED <<msg, writer, arg, got>>

CopyUUID(c) ==
    /\ At(c, "readUUID") /\ Move(c, "readVersion")
    /\ got' = [got EXCEPT ![c].UUID = uuid]
    /\ UNCHANGED <<msg, lock, arg>>

CopyVersion(c) ==
    /\ At(c, "readVersion") /\ Move(c, "idle")
    /\ got' = [got EXCEPT ![c].Version = version]
    /\ readers' = readers \ {c}
    /\ UNCHANGED <<msg, writer, arg>>

HeartbeatNext == \E c \in Caller:
    \/ \E conf \in HeartbeatConfigs: UpdateConfiguration(c, conf)
    \/ SetUUID(c) \/ SetVersion(c)
    \/ GetHeartbeat(c) \/ CopyUUID(c) \/ CopyVersion(c)

HeartbeatSpec == HeartbeatInit /\ [][HeartbeatNext]_heartbeatVars

-----------------------------------------------------------------------------
(* A heartbeat that is returned is that of one configuration, the last one *)
(* applied when it returns, although updates and reads take two steps and  *)
(* come from any goroutine.                                                *)
HeartbeatIsLastConfig ==
    [][\A c \in Caller: At(c, "readVersion") /\ place'[c] # "readVersion"
          => got'[c] = accepted]_heartbeatVars
=============================================================================
