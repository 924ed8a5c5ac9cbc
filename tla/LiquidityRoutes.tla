--------------------------- MODULE LiquidityRoutes ---------------------------
(***************************************************************************)
(* The liquidity routes of the API (routes/liquidity.ts): what a provider  *)
(* is shown of the pool, computed by the backend from the shares and the   *)
(* reserves, the price that is shown to traders, and the requests that     *)
(* have the contract compute all of it again.                              *)
(***************************************************************************)
EXTENDS LpPool

CONSTANT PRICE_PRECISION    \* of get_price: 10_000_000

ASSUME LiquidityRoutesAssumption == PRICE_PRECISION \in Nat \ {0}

\* GET /liquidity/pool-stats: the XLM that one sXLM is worth; one to one in an empty pool.
ShownPrice ==
    IF reserveSxlm = 0 THEN PRICE_PRECISION ELSE (reserveXlm * PRICE_PRECISION) \div reserveSxlm

\* Mutant of ShownXlm: a part of what the pool's address holds.
ShownXlmOfHoldings(user) ==
    IF totalLp > 0 THEN (lpBalance[user] * xlm[PoolContract]) \div totalLp ELSE 0

\* GET /liquidity/position.
ShownXlm(user) == IF totalLp > 0 THEN (lpBalance[user] * reserveXlm) \div totalLp ELSE 0
ShownSxlm(user) == IF totalLp > 0 THEN (lpBalance[user] * reserveSxlm) \div totalLp ELSE 0

\* The routes pass on what they were asked for; the contract judges.
AddRoute(user, xlmAmount, sxlmAmount) == AddLiquidity(user, xlmAmount, sxlmAmount)
RemoveRoute(user, lpAmount) == RemoveLiquidity(user, lpAmount)
SwapXlmRoute(user, amount, minOut) == SwapXlmToSxlm(user, amount, minOut)
SwapSxlmRoute(user, amount, minOut) == SwapSxlmToXlm(user, amount, minOut)
----------------------------------------------------------------------------
(* Properties. *)

Got(user, token) == token'[user] - token[user]

\* Whoever takes all of their shares out receives what they were shown, and nobody
\* else's figures are lowered by that.
ShareIsPaid(user) ==
    RemoveRoute(user, lpBalance[user]) =>
        /\ Got(user, xlm) = ShownXlm(user) /\ Got(user, sxlm) = ShownSxlm(user)
        /\ \A other \in Users \ {user} :
              ShownXlm(other)' >= ShownXlm(other) /\ ShownSxlm(other)' >= ShownSxlm(other)

\* A deposit raises the depositor's figures by no more than was paid in, and one unit.
DepositIsWorthIt(user) ==
    \A x \in XlmAmounts, s \in SxlmAmounts : AddRoute(user, x, s) =>
        /\ ShownXlm(user)' - ShownXlm(user) <= 1 - Got(user, xlm)
        /\ ShownSxlm(user)' - ShownSxlm(user) <= 1 - Got(user, sxlm)

\* A swap brings at least what the trader insisted on, and at most one unit more than
\* the price that was shown.
PriceIsNotBeaten(user) ==
    \A min \in MinOuts :
        /\ \A x \in XlmAmounts : SwapXlmRoute(user, x, min) =>
              Got(user, sxlm) >= min /\ (Got(user, sxlm) - 1) * ShownPrice <= x * PRICE_PRECISION
        /\ \A s \in SxlmAmounts : SwapSxlmRoute(user, s, min) =>
              Got(user, xlm) >= min /\ (Got(user, xlm) - 1) * PRICE_PRECISION < s * (ShownPrice + 1)

\* What the pages show of the pool, computed apart from the contract, is what the
\* contract's calls then do; each of them moves XLM of its caller.
ShownFiguresHold ==
    [][\A user \in Users :
          Got(user, xlm) # 0 =>
              ShareIsPaid(user) /\ DepositIsWorthIt(user) /\ PriceIsNotBeaten(user)]_vars
=============================================================================
