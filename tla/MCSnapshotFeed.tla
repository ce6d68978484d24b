--------------------------- MODULE MCSnapshotFeed ---------------------------
(***************************************************************************)
(* An instance of SnapshotFeed for TLC: one topic of the orchestrator and   *)
(* the one of the broadcast manager, sent in the order of handleWS.         *)
(***************************************************************************)
EXTENDS SnapshotFeed, TLC

CONSTANTS live, broadcast

SentOrder == <<live, broadcast>>
Versions  == live :> 2 @@ broadcast :> 3
=============================================================================
