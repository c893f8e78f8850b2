---------------------------- MODULE MCIdempotency ----------------------------
(* Idempotency with a few interchangeable requests and request bodies. *)
EXTENDS Idempotency, TLC

Symm == Permutations(Req) \cup Permutations(Fingerprint)

=============================================================================
