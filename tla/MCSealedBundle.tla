--------------------------- MODULE MCSealedBundle ---------------------------
(* Small bundles for SealedBundle. *)
EXTENDS SealedBundle

CONSTANTS p1, p2   \* processes

ContentFiles == <<"events.jsonl", "raw/captures", "narrative.md">>
RawFiles == {"raw/captures"}
=============================================================================
