----------------------------- MODULE ReplayGuard -----------------------------
(***************************************************************************)
(* What a sealed request/response channel promises, without windows or     *)
(* bitmaps: a counter is taken at most once, and answered at most once and *)
(* only after it was taken.  Opening another context forgets both.         *)
(***************************************************************************)
EXTENDS Naturals

CONSTANT Counters

VARIABLES taken, answered

None == [c \in Counters |-> 0]

Init == taken = None /\ answered = None

Take(c) ==
  /\ taken[c] = 0
  /\ taken' = [taken EXCEPT ![c] = 1]
  /\ UNCHANGED answered

Answer(c) ==
  /\ taken[c] = 1 /\ answered[c] = 0
  /\ answered' = [answered EXCEPT ![c] = 1]
  /\ UNCHANGED taken

\* A request refused under seal is taken and answered in one turn.
TakeAndAnswer(c) ==
  /\ taken[c] = 0 /\ answered[c] = 0
  /\ taken' = [taken EXCEPT ![c] = 1]
  /\ answered' = [answered EXCEPT ![c] = 1]

Forget == taken' = None /\ answered' = None

Next == Forget \/ \E c \in Counters : Take(c) \/ Answer(c) \/ TakeAndAnswer(c)

Spec == Init /\ [][Next]_<<taken, answered>>
=============================================================================
