------------------------- MODULE MCStoredTimestamps -------------------------
(* Instances of StoredTimestamps for TLC, one per backend. *)
EXTENDS StoredTimestamps
=============================================================================
