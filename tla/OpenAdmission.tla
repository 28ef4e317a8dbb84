--------------------------- MODULE OpenAdmission ---------------------------
(***************************************************************************)
(* Who is let in to an encrypted context: POST /api/e2ee/open              *)
(* (src/src/api/routes/e2ee.routes.ts), its two budgets                    *)
(* (src/src/api/rate-limit.ts) and the replay cache of message 1s          *)
(* (src/src/e2ee/replay-cache.ts).                                         *)
(*                                                                         *)
(* The network may deliver a message 1 more than once and at any time;     *)
(* "stranger" sends well-formed messages of keys that nobody paired.  How  *)
(* a device gets and loses its row is Pairing's; here it changes freely.   *)
(***************************************************************************)
EXTENDS Integers, Sequences, FiniteSets

CONSTANTS
  Devices,
  MaxMessages,   \* message 1s sent
  Remembered,    \* entries of the replay cache
  Failures,      \* failed handshakes of a source in a minute
  Opens,         \* handshakes of a device in a minute
  MaxContexts,   \* bound: contexts alive of one message
  MaxRemovals    \* bound: removals, restarts, and times the storage is gone

ASSUME AdmissionAssumption ==
  Remembered \in Nat \ {0} /\ Failures \in Nat \ {0} /\ Opens \in Nat \ {0}

VARIABLES
  row,        \* device -> has it a live row?
  sender,     \* message 1 -> who sent it
  seen,       \* the replay cache, oldest first
  evicted,    \* messages it has let go
  context,    \* message 1 -> the contexts alive that it opened
  failures,   \* charged to the source
  charged,    \* device -> handshakes charged to its budget
  removals

admissionVars == <<row, sender, seen, evicted, context, failures, charged, removals>>

Nobody == "nobody"
Stranger == "stranger"
Messages1 == 1..MaxMessages

ASSUME DevicesAssumption == {Nobody, Stranger} \cap Devices = {}

Elements(s) == {s[i] : i \in 1..Len(s)}

AdmissionInit ==
  /\ row = [d \in Devices |-> TRUE] /\ sender = [m \in Messages1 |-> Nobody]
  /\ seen = <<>> /\ evicted = {} /\ context = [m \in Messages1 |-> 0]
  /\ failures = 0 /\ charged = [d \in Devices |-> 0] /\ removals = 0
-----------------------------------------------------------------------------
SendOpen(d, m) ==
  /\ sender[m] = Nobody /\ \A k \in 1..(m - 1) : sender[k] # Nobody
  /\ sender' = [sender EXCEPT ![m] = d]
  /\ UNCHANGED <<row, seen, evicted, context, failures, charged, removals>>

\* The source has room for a failure: checked before the handshake, charged after it.
HasRoom == failures < Failures

Fails == failures' = failures + 1

\* A message that does not authenticate.
Garbage ==
  /\ HasRoom /\ Fails
  /\ UNCHANGED <<row, sender, seen, evicted, context, charged, removals>>

\* A message whose ephemeral was seen costs its source, and its device nothing.
Replayed(m) ==
  /\ sender[m] # Nobody /\ HasRoom /\ m \in Elements(seen) /\ Fails
  /\ UNCHANGED <<row, sender, seen, evicted, context, charged, removals>>

\* The handshake has named a key: its budget is charged before the row is looked up.
Charged(d) == IF d \in Devices THEN [charged EXCEPT ![d] = @ + 1] ELSE charged

Named(m) ==
  /\ sender[m] # Nobody /\ HasRoom /\ m \notin Elements(seen)
  /\ sender[m] \in Devices => charged[sender[m]] < Opens
  /\ charged' = Charged(sender[m])

\* No live row, or no storage to look in: nothing is remembered.
Unknown(m) ==
  /\ Named(m) /\ Fails
  /\ \/ (sender[m] \in Devices => ~row[sender[m]]) /\ UNCHANGED removals
     \/ removals < MaxRemovals /\ removals' = removals + 1
  /\ UNCHANGED <<row, sender, seen, evicted, context>>

\* Mutant: a full cache takes no message in.
RememberedUnlessFull(m) == IF Len(seen) >= Remembered THEN seen ELSE Append(seen, m)

\* record: the oldest goes when there is no place left.
RememberedWith(m) == Append(IF Len(seen) >= Remembered THEN Tail(seen) ELSE seen, m)

\* A live device: its message is remembered, then its payload is read.
OpenContext(m) ==
  /\ Named(m) /\ sender[m] \in Devices /\ row[sender[m]]
  /\ seen' = RememberedWith(m)
  /\ evicted' = evicted \union (Elements(seen) \ Elements(seen'))
  /\ \/ context[m] < MaxContexts /\ context' = [context EXCEPT ![m] = @ + 1]
     \/ UNCHANGED context   \* the payload is no open request
  /\ UNCHANGED <<row, sender, failures, removals>>
-----------------------------------------------------------------------------
ContextEnds(m) ==
  /\ context[m] > 0 /\ context' = [context EXCEPT ![m] = @ - 1]
  /\ UNCHANGED <<row, sender, seen, evicted, failures, charged, removals>>

\* A minute has passed since the oldest charge.
SourceRegains ==
  /\ failures > 0 /\ failures' = failures - 1
  /\ UNCHANGED <<row, sender, seen, evicted, context, charged, removals>>

DeviceRegains(d) ==
  /\ charged[d] > 0 /\ charged' = [charged EXCEPT ![d] = @ - 1]
  /\ UNCHANGED <<row, sender, seen, evicted, context, failures, removals>>

\* Revoke or erase, which cuts what the device has open (cutLiveContexts).
RowRemoved(d) ==
  /\ removals < MaxRemovals /\ removals' = removals + 1
  /\ row[d] /\ row' = [row EXCEPT ![d] = FALSE]
  /\ context' = [m \in Messages1 |-> IF sender[m] = d THEN 0 ELSE context[m]]
  /\ UNCHANGED <<sender, seen, evicted, failures, charged>>

\* It pairs again.
RowRenewed(d) ==
  /\ ~row[d] /\ row' = [row EXCEPT ![d] = TRUE]
  /\ UNCHANGED <<sender, seen, evicted, context, failures, charged, removals>>

AdmissionRestart ==
  /\ removals < MaxRemovals /\ removals' = removals + 1
  /\ seen' = <<>> /\ evicted' = {} /\ context' = [m \in Messages1 |-> 0]
  /\ failures' = 0 /\ charged' = [d \in Devices |-> 0]
  /\ UNCHANGED <<row, sender>>

AdmissionNext ==
  \/ Garbage \/ SourceRegains \/ AdmissionRestart
  \/ \E d \in Devices : DeviceRegains(d) \/ RowRemoved(d) \/ RowRenewed(d)
  \/ \E m \in Messages1 :
       \/ \E d \in Devices \union {Stranger} : SendOpen(d, m)
       \/ Replayed(m) \/ Unknown(m) \/ OpenContext(m) \/ ContextEnds(m)

AdmissionSpec == AdmissionInit /\ [][AdmissionNext]_admissionVars
-----------------------------------------------------------------------------
AdmissionTypeOK ==
  /\ failures \in 0..Failures /\ Len(seen) <= Remembered
  /\ charged \in [Devices -> 0..Opens]

\* A message 1 that is delivered again opens no second context while the cache holds it,
\* whatever its device does in between.
OpensOnce == \A m \in Messages1 \ evicted : context[m] <= 1

\* No context is left of a device that lost its row, whichever came first of its
\* handshake and its removal.
ContextsAreOfDevices == \A m \in Messages1 : context[m] > 0 => row[sender[m]]

\* Only messages of live devices age the cache: what a stranger sends cannot make it
\* forget one.
SeenAreOfDevices == \A m \in Elements(seen) \union evicted : sender[m] \in Devices

AdmissionInv == AdmissionTypeOK /\ OpensOnce /\ ContextsAreOfDevices /\ SeenAreOfDevices
=============================================================================
