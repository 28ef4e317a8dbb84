----------------------------- MODULE MCServices -----------------------------
(***************************************************************************)
(* The parts of the server beside the live terminals, for TLC.             *)
(*                                                                         *)
(* Sessions: the session registry over restarts (SessionBoot), a session   *)
(* of Codex, of Cursor and of Copilot (CodexTurn, CursorTurn,              *)
(* CopilotTurn), who may run a conversation (SessionClaims), a session of  *)
(* the multi-agent mode (AgentSessions), what clients are told of a        *)
(* session (SessionRecord), the binding and the tails of transcripts       *)
(* (TranscriptTails).                                                      *)
(* History: the scanners and the refreshes of a transcript (ScanRefresh),  *)
(* its offset index (OffsetIndex), the rows of the cache and the alert of  *)
(* missing files (CacheRows), what a forked conversation inherits          *)
(* (ForkHistory).                                                          *)
(*                                                                         *)
(* They share no state: each behaviour exercises one part, `part`, while   *)
(* the others stay in one of their initial states.                         *)
(***************************************************************************)
EXTENDS SessionBoot, CodexTurn, CursorTurn, CopilotTurn, SessionClaims,
        AgentSessions, SessionRecord, TranscriptTails, ScanRefresh, OffsetIndex,
        CacheRows, ForkHistory

VARIABLE part

sessionGroup == <<bootVars, codexVars, cursorVars, copilotVars, claimVars,
  orchestraVars, recordVars, tailVars>>
historyGroup == <<scanVars, indexVars, cacheVars, inheritVars>>

servicesVars == <<part, sessionGroup, historyGroup>>

ServicesInit ==
  /\ part \in {"boot", "codex", "cursor", "copilot", "claims", "workflow",
               "record", "tails", "scan", "index", "cache", "forks"}
  /\ BootInit /\ CodexInit /\ CursorInit /\ CopilotInit /\ AgentsInit
  /\ ScanInit /\ IndexInit /\ ForkInit
  /\ ClaimInit /\ (part # "claims" => claimProvider = "claude" /\ storeRecord = claimRow)
  /\ RecordInit /\ (part # "record" => agent = "claude")
  /\ TailInit /\ (part # "tails" => provider = "claude")
  /\ CacheInit /\ (part # "cache" => Cached = {} /\ left = CHOOSE b \in Budgets : TRUE)

ServicesNext ==
  /\ UNCHANGED part
  /\ \/ part = "boot" /\ BootNext
        /\ UNCHANGED <<codexVars, cursorVars, copilotVars, claimVars,
                       orchestraVars, recordVars, tailVars, historyGroup>>
     \/ part = "codex" /\ CodexNext
        /\ UNCHANGED <<bootVars, cursorVars, copilotVars, claimVars,
                       orchestraVars, recordVars, tailVars, historyGroup>>
     \/ part = "cursor" /\ CursorNext
        /\ UNCHANGED <<bootVars, codexVars, copilotVars, claimVars,
                       orchestraVars, recordVars, tailVars, historyGroup>>
     \/ part = "copilot" /\ CopilotNext
        /\ UNCHANGED <<bootVars, codexVars, cursorVars, claimVars,
                       orchestraVars, recordVars, tailVars, historyGroup>>
     \/ part = "claims" /\ ClaimNext
        /\ UNCHANGED <<bootVars, codexVars, cursorVars, copilotVars,
                       orchestraVars, recordVars, tailVars, historyGroup>>
     \/ part = "workflow" /\ AgentsNext
        /\ UNCHANGED <<bootVars, codexVars, cursorVars, copilotVars, claimVars,
                       recordVars, tailVars, historyGroup>>
     \/ part = "record" /\ RecordNext
        /\ UNCHANGED <<bootVars, codexVars, cursorVars, copilotVars, claimVars,
                       orchestraVars, tailVars, historyGroup>>
     \/ part = "tails" /\ TailNext
        /\ UNCHANGED <<bootVars, codexVars, cursorVars, copilotVars, claimVars,
                       orchestraVars, recordVars, historyGroup>>
     \/ part = "scan" /\ ScanNext
        /\ UNCHANGED <<indexVars, cacheVars, inheritVars, sessionGroup>>
     \/ part = "index" /\ IndexNext
        /\ UNCHANGED <<scanVars, cacheVars, inheritVars, sessionGroup>>
     \/ part = "cache" /\ CacheNext
        /\ UNCHANGED <<scanVars, indexVars, inheritVars, sessionGroup>>
     \/ part = "forks" /\ ForkNext
        /\ UNCHANGED <<scanVars, indexVars, cacheVars, sessionGroup>>

ServicesSpec == ServicesInit /\ [][ServicesNext]_servicesVars

Budget(m, d, s, w, p, h, r, b) ==
  [x \in Happenings |->
     CASE x = "messages" -> m [] x = "disk" -> d [] x = "scans" -> s [] x = "warm-up" -> w
       [] x = "parses" -> p [] x = "hides" -> h [] x = "resolutions" -> r [] OTHER -> b]

(* Bounds of CacheRows: a resolution amid scans; a restart and the         *)
(* detection at boot; a burst of unlinks; the writers of a row.            *)
CacheBudgets ==
  {Budget(0, 2, 1, 1, 0, 0, 1, 0), Budget(0, 2, 0, 1, 0, 0, 0, 1),
   Budget(1, 2, 0, 0, 1, 0, 0, 0), Budget(1, 0, 1, 0, 1, 1, 0, 0)}

(* A part that is not exercised stays where its own behaviours begin: its  *)
(* invariant is looked at there.                                           *)

(* Of the scanners, the index, the cache and the forks.                    *)
HistoryInv ==
  /\ part = "scan" => ScanInv
  /\ part = "index" => IndexInv
  /\ part = "cache" => CacheInv
  /\ part = "forks" => ForkInv

(* Of the registry of the sessions and of their records in the store.      *)
StoreInv ==
  /\ part = "boot" => BootInv
  /\ part = "record" => RecordInv

(* Of the sessions of the other agents.                                    *)
AgentsInv ==
  /\ part = "codex" => CodexInv
  /\ part = "cursor" => CursorInv
  /\ part = "copilot" => CopilotInv
  /\ part = "workflow" => OrchestraInv
=============================================================================
