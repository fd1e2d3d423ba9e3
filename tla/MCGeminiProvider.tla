-------------------------- MODULE MCGeminiProvider --------------------------
(* Instances of GeminiProvider for TLC. *)
EXTENDS GeminiProvider

CONSTANTS k1, k2

\* A pool with one dead key, and a pool with nothing but dead keys.
SomeOrAll == {{k1}, {k1, k2}}

ASSUME MCRejectionsAssumption == RejectedAreFew

=============================================================================
