---------------------------- MODULE ContractArith ----------------------------
(***************************************************************************)
(* Integer arithmetic of the contracts.  Rust's i128 division truncates    *)
(* toward zero, whatever the signs; TLA+'s \div is defined for a positive  *)
(* divisor only.  Overflow panics (overflow-checks = true) and so disables *)
(* the call; the amounts of the models stay far below 2^127.               *)
(***************************************************************************)
EXTENDS Integers

Magnitude(n) == IF n < 0 THEN -n ELSE n

\* n / d of Rust, for d # 0 (d = 0 panics: callers guard it).
TruncDiv(n, d) ==
    LET q == Magnitude(n) \div Magnitude(d)
    IN  IF (n < 0) = (d < 0) THEN q ELSE -q
=============================================================================
