----------------------------- MODULE MCSyncGateway -----------------------------
(* Two clients, one of them first a writer and one a proposer.             *)
EXTENDS SyncGateway, TLC

CONSTANTS c1, c2
StartC == (c1 :> "writer") @@ (c2 :> "proposer")
=============================================================================
