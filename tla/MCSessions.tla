----------------------------- MODULE MCSessions -----------------------------
(***************************************************************************)
(* The session lifecycle for TLC.  What the runner makes of the agent's    *)
(* turns (PtyTurn), what it starts, ends and types (PtyInput) and who may  *)
(* end its process (HoldPolicy) share no state here: HoldPolicy lets the   *)
(* status, where the first meets it, settle at any time.  Every behaviour  *)
(* exercises one part, `part`, while the others stay in their initial      *)
(* states.                                                                 *)
(***************************************************************************)
EXTENDS PtyTurn, HoldPolicy, PtyInput

VARIABLE part

sessionVars == <<part, vars, holdVars, inputVars>>

SessionsInit ==
  /\ part \in {"turn", "hold", "input"}
  /\ Init /\ HoldInit /\ InputInit
  /\ part # "input" => ~overlap
  /\ part # "hold" => ~used

\* A disposed runner may stop for good.
InputOver == disposed /\ UNCHANGED inputVars

SessionsNext ==
  /\ UNCHANGED part
  /\ \/ part = "turn" /\ Next /\ UNCHANGED <<holdVars, inputVars>>
     \/ part = "hold" /\ HoldNext /\ UNCHANGED <<vars, inputVars>>
     \/ part = "input" /\ (InputNext \/ InputOver) /\ UNCHANGED <<vars, holdVars>>

InTurnPart(A) == part = "turn" /\ A /\ UNCHANGED <<part, holdVars, inputVars>>
InHoldPart(A) == part = "hold" /\ A /\ UNCHANGED <<part, vars, inputVars>>
InInputPart(A) == part = "input" /\ A /\ UNCHANGED <<part, overlap, vars, holdVars>>

\* The fairness of FairSpec and InputFairSpec for the runner's timers, and that a
\* grace timer expires unless it is taken off or replaced for ever.
SessionsFairness ==
  /\ WF_sessionVars(InTurnPart(Quiet))
  /\ WF_sessionVars(InTurnPart(Tick))
  /\ WF_sessionVars(InTurnPart(\E g \in graces : Lapse(g)))
  /\ WF_sessionVars(InHoldPart(Expire))
  /\ WF_sessionVars(InInputPart(SubmitTick))
  /\ WF_sessionVars(InInputPart(FallbackFires))
  /\ WF_sessionVars(InInputPart(\E t \in submits : Poll(t)))
  /\ WF_sessionVars(InInputPart(\E f \in flushing : FlushNext(f)))

SessionsSpec == SessionsInit /\ [][SessionsNext]_sessionVars /\ SessionsFairness
=============================================================================
