------------------------------ MODULE Liveness ------------------------------
(***************************************************************************)
(* The liveness of one instance of pkg/processor: its ticker, the loop     *)
(* that takes the ticks and records the time of each, and IsAlive, which   *)
(* multiplies the grace it is given by a second.                           *)
(*                                                                         *)
(* Time is counted in some unit from the zero time.Time.  The loop takes a *)
(* tick, or is told to stop, only between two pushes; a push lasts as long *)
(* as the receiver makes it wait.                                          *)
(***************************************************************************)
EXTENDS Integers

CONSTANTS
    Interval,   \* LivenessInterval
    Second,     \* time.Second, in units
    Modulus,    \* a time.Duration has Modulus values: 2^64
    Epoch,      \* the time at which the instance is made
    MaxNow,     \* bound: time goes no further
    Graces      \* values IsAlive is called with

ASSUME TimeAssumption ==
    /\ Interval \in Nat /\ Second \in Nat \ {0} /\ Modulus \in Nat \ {0}
    /\ Epoch \in Nat /\ MaxNow \in Nat /\ Graces \subseteq Nat

(* The zero time is longer ago than any time.Duration.                     *)
ASSUME EpochAssumption == Modulus < Epoch

VARIABLES
    now,
    livenessTimestamp,  \* 0 until the first tick is taken
    tick,               \* is a tick waiting in ticker.C?
    nextTick,           \* when the ticker ticks next
    loop,               \* "new", "select", "push" or "ended"
    since               \* ghost: when the loop last left its select

livenessVars == <<now, livenessTimestamp, tick, nextTick, loop, since>>

-----------------------------------------------------------------------------
LivenessInit ==
    /\ now = Epoch
    /\ livenessTimestamp = 0
    /\ tick = FALSE /\ nextTick = 0
    /\ loop = "new" /\ since = 0

(* A zero interval is refused. *)
Run ==
    /\ loop = "new" /\ Interval # 0
    /\ nextTick' = now + Interval
    /\ loop' = "select"
    /\ UNCHANGED <<now, livenessTimestamp, tick, since>>

(* Mutant: a full channel stops the ticker.                                *)
ElapseWhileTaken ==
    /\ now < MaxNow /\ now' = now + 1
    /\ IF loop \in {"select", "push"} /\ now' = nextTick /\ ~ tick
       THEN tick' = TRUE /\ nextTick' = nextTick + Interval
       ELSE UNCHANGED <<tick, nextTick>>
    /\ UNCHANGED <<livenessTimestamp, loop, since>>

(* The channel of a ticker holds one tick, and the next are dropped.       *)
Elapse ==
    /\ now < MaxNow /\ now' = now + 1
    /\ IF loop \in {"select", "push"} /\ now' = nextTick
       THEN tick' = TRUE /\ nextTick' = nextTick + Interval
       ELSE UNCHANGED <<tick, nextTick>>
    /\ UNCHANGED <<livenessTimestamp, loop, since>>

(* Mutant: ticks are taken by a goroutine of their own.                    *)
TakeTickAnywhere ==
    /\ loop \in {"select", "push"} /\ tick
    /\ tick' = FALSE
    /\ livenessTimestamp' = now
    /\ UNCHANGED <<now, nextTick, loop, since>>

(* setLiveness. *)
TakeTick ==
    /\ loop = "select" /\ tick
    /\ tick' = FALSE
    /\ livenessTimestamp' = now
    /\ UNCHANGED <<now, nextTick, loop, since>>

(* The default of the select, which no waiting tick lets happen; the loop  *)
(* may have been handed an event instead of a tick, and then is back.      *)
BeginPush ==
    /\ loop = "select" /\ ~ tick
    /\ loop' = "push" /\ since' = now
    /\ UNCHANGED <<now, livenessTimestamp, tick, nextTick>>

EndPush ==
    /\ loop = "push"
    /\ loop' = "select"
    /\ UNCHANGED <<now, livenessTimestamp, tick, nextTick, since>>

Stop ==
    /\ loop = "select"
    /\ loop' = "ended" /\ since' = now
    /\ UNCHANGED <<now, livenessTimestamp, tick, nextTick>>

LivenessNext == Run \/ Elapse \/ TakeTick \/ BeginPush \/ EndPush \/ Stop

LivenessSpec == LivenessInit /\ [][LivenessNext]_livenessVars

-----------------------------------------------------------------------------
(* A product of durations keeps its width.                                 *)
Wrapped(d) ==
    LET r == d % Modulus
    IN  IF 2 * r < Modulus THEN r ELSE r - Modulus

IsAlive(gracePeriod) ==
    now < livenessTimestamp + Wrapped(gracePeriod * Second)

Fits(g) == 2 * g * Second < Modulus

-----------------------------------------------------------------------------
LivenessTypeOK ==
    /\ now \in Epoch..(IF MaxNow < Epoch THEN Epoch ELSE MaxNow)
    /\ livenessTimestamp \in {0} \cup Epoch..now
    /\ tick \in BOOLEAN /\ nextTick \in Nat
    /\ loop \in {"new", "select", "push", "ended"}
    /\ since \in {0} \cup Epoch..now

(* An alarm is real: with a grace of an interval or more, an instance that *)
(* has taken a tick and has none waiting is alive, whatever pushes and     *)
(* ticks lost in them came before.                                         *)
NoFalseAlarm ==
    loop = "select" /\ ~ tick /\ livenessTimestamp # 0 =>
        \A g \in Graces: Fits(g) /\ Interval <= g * Second => IsAlive(g)

(* An alarm is raised: an instance that has been held in a push, or has    *)
(* ended, for the grace or longer is not alive, and neither is one that    *)
(* has taken no tick yet.                                                  *)
HeldIsNoticed ==
    \A g \in Graces:
        /\ Fits(g) /\ loop \in {"push", "ended"} /\ since + g * Second <= now
               => ~ IsAlive(g)
        /\ livenessTimestamp = 0 => ~ IsAlive(g)

-----------------------------------------------------------------------------
(* What processor.go:43 says of IsAlive: "gracePeriod serves as a time     *)
(* duration for which liveness can be detrmined"; one that long ago is     *)
(* none.                                                                   *)
GraceIsADuration ==
    \A g \in Graces: IsAlive(g) => now <= livenessTimestamp + g

(* What processor_test.go:173 checks: "there is liveness indication within *)
(* the interval", with the interval as the grace.                          *)
TickIsAlive == livenessTimestamp = now /\ Interval \in Graces => IsAlive(Interval)
=============================================================================
