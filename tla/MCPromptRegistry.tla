-------------------------- MODULE MCPromptRegistry --------------------------
(***************************************************************************)
(* PromptRegistry on small instances.  Every behaviour exercises one part: *)
(* "answers", one record and two idempotency keys, with revisions and      *)
(* deadlines; or "reuse", two records over two ids, with evictions.        *)
(***************************************************************************)
EXTENDS PromptRegistry

CONSTANTS
  e1, e2, p1, p2, k1, k2,
  MaxClock,     \* the clock stops here
  MaxRevision   \* producers do not revise a record past this revision

VARIABLE part

registryVars == <<part, vars>>

\* Records, ids and keys are alike: the first ones are used first.
WithinBounds ==
  /\ clock' <= MaxClock
  /\ \A e \in Entries : entry'[e].state = "updated" => entry'[e].rev <= MaxRevision
  /\ part = "answers" => entry'[e2] = Unused /\ byId'[p2] = NoEntry
  /\ part = "reuse" =>
       /\ Created(e2)' => Created(e1)'
       /\ Created(e1)' /\ ~Created(e2)' => entry'[e1].pid = p1
       /\ \A e \in Entries :
            /\ task'[e][k2].st = "none"
            /\ Created(e)' => entry'[e].expiresAt = Null /\ entry'[e].state # "updated"

MCInit == Init /\ part \in {"answers", "reuse"}

MCNext == Next /\ WithinBounds /\ UNCHANGED part

MCFairSpec ==
  /\ MCInit
  /\ [][MCNext]_registryVars
  /\ \A e \in Entries : WF_registryVars(Settle(e) /\ WithinBounds /\ UNCHANGED part)
=============================================================================
