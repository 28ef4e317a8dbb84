----------------------------- MODULE HostPressure -----------------------------
(***************************************************************************)
(* The monitor of the host (HostPressureMonitor): every five seconds it    *)
(* reads the free memory, the lag of the event loop and the load, and      *)
(* tells the clients when the worst of them enters or leaves a level.      *)
(*                                                                         *)
(* A reading is the number of bars it is past, from the calmest: the bars  *)
(* of a metric are in the order of Bars, whatever its unit.                *)
(***************************************************************************)
EXTENDS Integers, FiniteSets, FiniteSetsExt

CONSTANT PressureClients \* clients that may connect

Metrics == {"memory", "event_loop", "load"}

Readings == 0 .. 3

\* macOS: the probe has not answered, or failed; 0 would be a calm reading.
Unread == -1

Ok == 0
Elevated == 1
Critical == 2

Bars ==
  [leaveElevated |-> 1, enterElevated |-> 2, leaveCritical |-> 2, enterCritical |-> 3]

NoWarning == [level |-> Ok, reasons |-> {}]

Away == [level |-> -1, reasons |-> {}]

VARIABLES
  host,         \* the platform
  ticking,      \* the sampling timer
  level,        \* the level the monitor is in
  lastWarning,  \* its warning, or NoWarning
  sample,       \* the last sample
  macFree,      \* macOS: what the probe of the memory last answered
  macPending,   \* macOS: the probe runs
  cpuSeen,      \* Windows: there is an earlier snapshot of the processors
  shown         \* the warning each client shows, Away if it is not connected

pressureVars ==
  <<host, ticking, level, lastWarning, sample, macFree, macPending, cpuSeen, shown>>

-----------------------------------------------------------------------------
\* Mutant: leaving elevated asks for the bar of entering it.
SchmittBare(value, previous) ==
  IF value >= (IF previous = Critical THEN Bars.leaveCritical ELSE Bars.enterCritical)
  THEN Critical
  ELSE IF value >= (IF previous = Ok THEN Bars.enterElevated ELSE Bars.enterElevated + 1)
       THEN Elevated ELSE Ok

(* What one metric says. Every metric is judged from the level of the      *)
(* host, not from a level of its own.                                      *)
Schmitt(value, previous) ==
  IF value >= (IF previous = Critical THEN Bars.leaveCritical ELSE Bars.enterCritical)
  THEN Critical
  ELSE IF value >= (IF previous = Ok THEN Bars.enterElevated ELSE Bars.leaveElevated)
       THEN Elevated ELSE Ok

LevelOf(s, previous) == Max({Schmitt(s[m], previous) : m \in Metrics})

\* Many live agents are a reason only beside another.
ReasonsOf(s, previous, many) ==
  {m \in Metrics : Schmitt(s[m], previous) # Ok}
    \cup {r \in {"agents"} : many /\ LevelOf(s, previous) # Ok}

Told(warning) == [c \in PressureClients |-> IF shown[c] = Away THEN Away ELSE warning]

PressureInit ==
  /\ host \in {"linux", "darwin", "win32"}
  /\ ticking = TRUE
  /\ level = Ok /\ lastWarning = NoWarning
  /\ sample = [m \in Metrics |-> 0]
  /\ macFree = Unread
  /\ macPending = (host = "darwin")
  /\ cpuSeen = FALSE
  /\ shown = [c \in PressureClients |-> Away]

\* What the sources can say at this tick.
Samples ==
  [memory : IF host = "darwin" THEN {macFree} ELSE Readings,
   event_loop : Readings,
   load : IF host = "win32" /\ ~cpuSeen THEN {0} ELSE Readings]

(* The timer fires. The reasons travel with a change of the level only.    *)
Tick ==
  /\ ticking
  /\ \E s \in Samples, many \in BOOLEAN :
       LET next == LevelOf(s, level)
           warning == IF next = Ok THEN NoWarning
                      ELSE [level |-> next, reasons |-> ReasonsOf(s, level, many)]
       IN  /\ sample' = s
           /\ level' = next
           /\ IF next = level THEN UNCHANGED <<lastWarning, shown>>
              ELSE lastWarning' = warning /\ shown' = Told(warning)
  /\ macPending' = (host = "darwin")
  /\ cpuSeen' = (host = "win32")
  /\ UNCHANGED <<host, ticking, macFree>>

\* The probe of macOS answers, or fails within its second.
ProbeAnswers ==
  /\ macPending
  /\ macPending' = FALSE
  /\ macFree' \in Readings \cup {Unread}
  /\ UNCHANGED <<host, ticking, level, lastWarning, sample, cpuSeen, shown>>

\* Mutant: a client that connects hears of changes only.
ConnectsUnaware(c) ==
  /\ ticking /\ shown[c] = Away
  /\ shown' = [shown EXCEPT ![c] = NoWarning]
  /\ UNCHANGED <<host, ticking, level, lastWarning, sample, macFree, macPending, cpuSeen>>

\* A client connects: it is sent the warning there is.
Connects(c) ==
  /\ ticking /\ shown[c] = Away
  /\ shown' = [shown EXCEPT ![c] = lastWarning]
  /\ UNCHANGED <<host, ticking, level, lastWarning, sample, macFree, macPending, cpuSeen>>

Disconnects(c) ==
  /\ shown[c] # Away
  /\ shown' = [shown EXCEPT ![c] = Away]
  /\ UNCHANGED <<host, ticking, level, lastWarning, sample, macFree, macPending, cpuSeen>>

\* The server stops: the monitor is disposed of, then the sockets.
StopsWatching ==
  /\ ticking
  /\ ticking' = FALSE
  /\ shown' = [c \in PressureClients |-> Away]
  /\ UNCHANGED <<host, level, lastWarning, sample, macFree, macPending, cpuSeen>>

PressureNext ==
  \/ Tick
  \/ ProbeAnswers
  \/ \E c \in PressureClients : Connects(c) \/ Disconnects(c)
  \/ StopsWatching

PressureSpec == PressureInit /\ [][PressureNext]_pressureVars

-----------------------------------------------------------------------------
Warnings ==
  [level : {Elevated, Critical}, reasons : (SUBSET (Metrics \cup {"agents"})) \ {{}, {"agents"}}]
    \cup {NoWarning}

PressureType ==
  /\ host \in {"linux", "darwin", "win32"}
  /\ ticking \in BOOLEAN /\ macPending \in BOOLEAN /\ cpuSeen \in BOOLEAN
  /\ level \in {Ok, Elevated, Critical}
  /\ lastWarning \in Warnings
  /\ sample \in [Metrics -> Readings \cup {Unread}]
  /\ macFree \in Readings \cup {Unread}
  /\ shown \in [PressureClients -> Warnings \cup {Away}]

(* A host that stays as it is does not flicker: the last sample, judged    *)
(* again from the level it led to, leads to that level.                    *)
NoFlicker == LevelOf(sample, level) = level

(* The level is earned: a metric is past the bar of leaving it, and none   *)
(* is past the bar of entering a worse one.                                *)
LevelEarned ==
  /\ level = Critical => \E m \in Metrics : sample[m] >= Bars.leaveCritical
  /\ level = Elevated => \E m \in Metrics : sample[m] >= Bars.leaveElevated
  /\ level # Critical => \A m \in Metrics : sample[m] < Bars.enterCritical
  /\ level = Ok => \A m \in Metrics : sample[m] < Bars.enterElevated

(* Whoever is connected, since before the change or after it, shows the    *)
(* level the monitor is in.                                                *)
EveryoneWarned ==
  /\ lastWarning.level = level
  /\ \A c \in PressureClients : shown[c] # Away => shown[c] = lastWarning

PressureInv == PressureType /\ NoFlicker /\ LevelEarned /\ EveryoneWarned

(* Does not hold: the reasons shown are those of the last sample. They are *)
(* not sent again while the level stays.                                   *)
ReasonsAreCurrent ==
  \A m \in Metrics : m \in lastWarning.reasons <=> Schmitt(sample[m], level) # Ok

(* Does not hold: a warning is taken back by readings. A probe of macOS    *)
(* that fails, as it may on a host out of memory, counts as memory at ease *)
(* and clears the warning.                                                 *)
ClearedByReadings ==
  [][level # Ok /\ level' = Ok => \A m \in Metrics : sample'[m] # Unread]_pressureVars
=============================================================================
