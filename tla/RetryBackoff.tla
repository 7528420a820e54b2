------------------------------ MODULE RetryBackoff ------------------------------
(***************************************************************************)
(* How long a retry waits, in milliseconds: compute_backoff for chats      *)
(* (src/engine.rs), and the formula that the embedding, image and speech   *)
(* engines each have in their call_with_retry, in u64 of some width.       *)
(***************************************************************************)
EXTENDS Naturals

CONSTANT Width      \* bits of a u64

AtMost(a, b) == IF a <= b THEN a ELSE b

SaturatingMul(a, b) == AtMost(a * b, 2^Width - 1)

(* compute_backoff: the exponent stops growing at MaxExponent, 20.         *)
ChatBackoff(initial, max, attempt, MaxExponent) ==
    AtMost(SaturatingMul(initial, 2^AtMost(attempt - 1, MaxExponent)), max)

(* The others shift without a bound: by the width or more, a debug build   *)
(* panics, a release build shifts by the remainder.                        *)
Panics(attempt) == attempt - 1 >= Width

Backoff(initial, max, attempt) ==
    AtMost(SaturatingMul(initial, 2^((attempt - 1) % Width)), max)

=============================================================================
