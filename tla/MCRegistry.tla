----------------------------- MODULE MCRegistry -----------------------------
(***************************************************************************)
(* Instances of Registry for TLC.                                           *)
(***************************************************************************)
EXTENDS Registry, TLC

\* Uuids, keys and requests are alike.
Alike == Permutations(ClientID) \cup Permutations(PlatformID) \cup Permutations(IngestID)
         \cup Permutations(LiveID) \cup Permutations(Key) \cup Permutations(Extra)
         \cup Permutations(Request)
=============================================================================
