------------------------------- MODULE Balances -------------------------------
(***************************************************************************)
(* Moving an amount between the balances of a token, as the transfer of    *)
(* the sXLM token (contracts/sxlm-token/src/lib.rs) does it and as every   *)
(* contract relies on for sXLM and for native XLM.  A transfer that the    *)
(* sender's balance does not cover panics: callers guard it.               *)
(***************************************************************************)
EXTENDS Integers

\* Mutant of Moved: the recipient's balance is read before the sender's is written.
MovedReadFirst(bal, from, to, amount) ==
    [bal EXCEPT ![from] = @ - amount, ![to] = bal[to] + amount]

\* The recipient's balance is read after the sender's was written, so that a
\* transfer of an account to itself moves nothing.
Moved(bal, from, to, amount) ==
    LET debited == [bal EXCEPT ![from] = @ - amount]
    IN  [debited EXCEPT ![to] = @ + amount]
=============================================================================
