----------------------------- MODULE MCNetwork ------------------------------
(***************************************************************************)
(* What the server has to do with the world outside, for TLC.              *)
(*                                                                         *)
(* Network: pairing (Pairing), the admission to encrypted contexts         *)
(* (OpenAdmission) and their handshake (Handshake), the tunnel to the      *)
(* relay (RelayTunnel), the pushes of a session (PushNotices), the phones  *)
(* they go to and when those want none (PushDelivery), and the releases it *)
(* takes from there (Updater).                                             *)
(* Host: its load (HostPressure), the agents that run on it beside ours    *)
(* (ProcessDiscovery), and the pages the clients read the list of all of   *)
(* them by (SessionPages).                                                 *)
(*                                                                         *)
(* They share no state: each behaviour exercises one part, `part`, while   *)
(* the others stay in one of their initial states.                         *)
(***************************************************************************)
EXTENDS Pairing, OpenAdmission, RelayTunnel, Handshake, PushNotices,
        PushDelivery, Updater, HostPressure, ProcessDiscovery, SessionPages

VARIABLE part

accessGroup == <<pairingVars, admissionVars, relayVars, handshakeVars>>
noticeGroup == <<pushVars, deliveryVars, quietVars>>
releaseGroup == <<updaterVars>>
hostGroup == <<pressureVars, discoveryVars, pageVars>>

networkVars == <<part, accessGroup, noticeGroup, releaseGroup, hostGroup>>

NetworkInit ==
  /\ part \in {"pairing", "admission", "relay", "handshake", "push", "delivery",
               "quiet", "updater", "pressure", "discovery", "pages"}
  /\ PairingInit /\ AdmissionInit /\ RelayInit /\ HandshakeInit
  /\ PushInit /\ DeliveryInit
  /\ QuietInit /\ (part # "quiet" => quietHours = NoQuietHours)
  /\ UpdaterInit /\ (part # "updater" => ~windows /\ serving.service)
  /\ PressureInit /\ (part # "pressure" => host = "linux")
  /\ DiscoveryInit /\ (part # "discovery" => ticks /\ bounds.agents = 2)
  /\ PagesInit /\ (part # "pages" => query = [order |-> "asc", limit |-> 1] /\ Listed = {})

NetworkNext ==
  /\ UNCHANGED part
  /\ \/ part = "pairing" /\ PairingNext
        /\ UNCHANGED <<admissionVars, relayVars, handshakeVars, noticeGroup,
                       releaseGroup, hostGroup>>
     \/ part = "admission" /\ AdmissionNext
        /\ UNCHANGED <<pairingVars, relayVars, handshakeVars, noticeGroup,
                       releaseGroup, hostGroup>>
     \/ part = "relay" /\ RelayNext
        /\ UNCHANGED <<pairingVars, admissionVars, handshakeVars, noticeGroup,
                       releaseGroup, hostGroup>>
     \/ part = "handshake" /\ HandshakeNext
        /\ UNCHANGED <<pairingVars, admissionVars, relayVars, noticeGroup,
                       releaseGroup, hostGroup>>
     \/ part = "push" /\ PushNext
        /\ UNCHANGED <<deliveryVars, quietVars, accessGroup, releaseGroup,
                       hostGroup>>
     \/ part = "delivery" /\ DeliveryNext
        /\ UNCHANGED <<pushVars, quietVars, accessGroup, releaseGroup, hostGroup>>
     \/ part = "quiet" /\ QuietNext
        /\ UNCHANGED <<pushVars, deliveryVars, accessGroup, releaseGroup,
                       hostGroup>>
     \/ part = "updater" /\ UpdaterNext
        /\ UNCHANGED <<accessGroup, noticeGroup, hostGroup>>
     \/ part = "pressure" /\ PressureNext
        /\ UNCHANGED <<discoveryVars, pageVars, accessGroup, noticeGroup,
                       releaseGroup>>
     \/ part = "discovery" /\ DiscoveryNext
        /\ UNCHANGED <<pressureVars, pageVars, accessGroup, noticeGroup,
                       releaseGroup>>
     \/ part = "pages" /\ PagesNext
        /\ UNCHANGED <<pressureVars, discoveryVars, accessGroup, noticeGroup,
                       releaseGroup>>

NetworkSpec == NetworkInit /\ [][NetworkNext]_networkVars

(* Bounds of ProcessDiscovery: a pid that changes hands; sweeps that       *)
(* overlap, and a Claude that changes its conversation.                    *)
DiscoveryBounds ==
  {[agents |-> 2, moves |-> 0, sweeps |-> 1], [agents |-> 1, moves |-> 1, sweeps |-> 2]}

(* A part that is not exercised stays where its own behaviours begin: its  *)
(* invariant is looked at there.                                           *)

(* Of the notices.                                                         *)
NoticesInv ==
  /\ part = "push" => PushInv
  /\ part = "delivery" => DeliveryInv
  /\ part = "quiet" => QuietInv

(* Of the list of sessions.                                                *)
ListInv ==
  /\ part = "discovery" => DiscoveryInv
  /\ part = "pages" => PagesInv
=============================================================================
