-------------------------------- MODULE LpPool --------------------------------
(***************************************************************************)
(* The liquidity pool (contracts/lp-pool/src/lib.rs): a constant-product   *)
(* market between native XLM and sXLM, with LP shares, a swap fee that     *)
(* stays in the reserves, and a protocol's cut of that fee, taken on swaps *)
(* of XLM for sXLM only and kept apart from the reserves.                  *)
(*                                                                         *)
(* One action per entry point; a call that panics leaves no trace, so its  *)
(* conditions, a division by zero among them, are guards.  The swap fee is *)
(* fixed by initialize.                                                    *)
(***************************************************************************)
EXTENDS Balances, ContractArith, FiniteSets, Functions

CONSTANTS Accounts,            \* every address that can hold XLM or sXLM
          PoolContract,        \* the contract's own address
          Admin,               \* the address fees are paid to; it never changes
          InitialXlm, InitialSxlm, \* token balances before the first call
          FeeBps,              \* argument of initialize; 30 as deployed
          XlmAmounts, SxlmAmounts, \* inputs of the liquidity and swap calls
          LpAmounts,           \* inputs of remove_liquidity
          MinOuts,             \* slippage limits given to swaps
          ProtocolFees,        \* inputs of set_protocol_fee_bps
          SentXlm, SentSxlm,   \* inputs of direct token transfers
          MaxShares            \* bound: no deposit mints beyond this total of shares

BPS_DENOMINATOR == 10000
Users == Accounts \ {PoolContract}

\* initialize takes any fee; a fee above 100% would make every swap panic.
ASSUME LpPoolConstants ==
    /\ IsFiniteSet(Accounts)
    /\ PoolContract \in Accounts /\ Admin \in Users
    /\ InitialXlm \in [Accounts -> Nat] /\ InitialSxlm \in [Accounts -> Nat]
    /\ FeeBps \in 0..BPS_DENOMINATOR
    /\ XlmAmounts \subseteq Int /\ SxlmAmounts \subseteq Int /\ LpAmounts \subseteq Int
    /\ MinOuts \subseteq Int /\ ProtocolFees \subseteq Nat /\ MaxShares \in Nat
    /\ SentXlm \subseteq Int /\ SentSxlm \subseteq Int

VARIABLES xlm, sxlm,                          \* the two token ledgers
          reserveXlm, reserveSxlm,
          totalLp, lpBalance,
          protocolFeeBps, accruedFees,
          givenXlm, givenSxlm                 \* ghosts: sent to the pool directly

reserveVars == <<reserveXlm, reserveSxlm>>
shareVars == <<totalLp, lpBalance>>
feeVars == <<protocolFeeBps, accruedFees>>
givenVars == <<givenXlm, givenSxlm>>
vars == <<xlm, sxlm, reserveVars, shareVars, feeVars, givenVars>>

TypeOK ==
    /\ xlm \in [Accounts -> Nat] /\ sxlm \in [Accounts -> Nat]
    /\ reserveXlm \in Nat /\ reserveSxlm \in Nat
    /\ totalLp \in Nat /\ lpBalance \in [Users -> Nat]
    /\ protocolFeeBps \in Nat /\ accruedFees \in Nat
    /\ givenXlm \in Nat /\ givenSxlm \in Nat

Init ==
    /\ xlm = InitialXlm /\ sxlm = InitialSxlm
    /\ reserveXlm = 0 /\ reserveSxlm = 0
    /\ totalLp = 0 /\ lpBalance = [u \in Users |-> 0]
    /\ protocolFeeBps = 5 /\ accruedFees = 0
    /\ givenXlm = InitialXlm[PoolContract] /\ givenSxlm = InitialSxlm[PoolContract]

----------------------------------------------------------------------------
(* Integer square root.  NewtonSqrt is the code's loop; isqrt is what it   *)
(* computes, as LpPoolProofs shows, in a form the other proofs can use.    *)

NewtonSqrt(n) ==
    LET descend[x \in 1..n] ==
            LET y == (x + n \div x) \div 2 IN IF y < x THEN descend[y] ELSE x
    IN  IF n <= 0 THEN 0 ELSE descend[n]

isqrt(n) == Cardinality({r \in 1..n : r * r <= n})

----------------------------------------------------------------------------
(* Liquidity. *)

\* What a deposit into a pool with shares really takes and mints: the scarcer side in
\* full, and of the other side what matches it.
LimitedByXlm(xlmAmount, sxlmAmount) ==
    TruncDiv(xlmAmount * totalLp, reserveXlm) < TruncDiv(sxlmAmount * totalLp, reserveSxlm)

AddedShares(xlmAmount, sxlmAmount) ==
    IF totalLp = 0 THEN isqrt(xlmAmount * sxlmAmount)
    ELSE IF LimitedByXlm(xlmAmount, sxlmAmount)
         THEN TruncDiv(xlmAmount * totalLp, reserveXlm)
         ELSE TruncDiv(sxlmAmount * totalLp, reserveSxlm)

AddedXlm(xlmAmount, sxlmAmount) ==
    IF totalLp = 0 \/ LimitedByXlm(xlmAmount, sxlmAmount) THEN xlmAmount
    ELSE TruncDiv(AddedShares(xlmAmount, sxlmAmount) * reserveXlm, totalLp)

AddedSxlm(xlmAmount, sxlmAmount) ==
    IF totalLp # 0 /\ LimitedByXlm(xlmAmount, sxlmAmount)
    THEN TruncDiv(AddedShares(xlmAmount, sxlmAmount) * reserveSxlm, totalLp)
    ELSE sxlmAmount

AddLiquidity(user, xlmAmount, sxlmAmount) ==
    /\ xlmAmount > 0 /\ sxlmAmount > 0
    /\ totalLp # 0 => reserveXlm # 0 /\ reserveSxlm # 0
    /\ LET lp == AddedShares(xlmAmount, sxlmAmount)
           x  == AddedXlm(xlmAmount, sxlmAmount)
           s  == AddedSxlm(xlmAmount, sxlmAmount)
       IN  /\ lp > 0 /\ x > 0 /\ s > 0
           /\ xlm[user] >= x /\ sxlm[user] >= s
           /\ xlm' = Moved(xlm, user, PoolContract, x)
           /\ sxlm' = Moved(sxlm, user, PoolContract, s)
           /\ reserveXlm' = reserveXlm + x
           /\ reserveSxlm' = reserveSxlm + s
           /\ totalLp' = totalLp + lp
           /\ lpBalance' = [lpBalance EXCEPT ![user] = @ + lp]
    /\ UNCHANGED <<feeVars, givenVars>>

\* Mutant of RemoveLiquidity: the amount is not compared with the user's shares.
RemoveUnchecked(user, lpAmount) ==
    LET xlmOut  == TruncDiv(lpAmount * reserveXlm, totalLp)
        sxlmOut == TruncDiv(lpAmount * reserveSxlm, totalLp)
    IN  /\ lpAmount > 0
        /\ totalLp # 0
        /\ xlmOut > 0 /\ sxlmOut > 0
        /\ reserveXlm' = reserveXlm - xlmOut
        /\ reserveSxlm' = reserveSxlm - sxlmOut
        /\ totalLp' = totalLp - lpAmount
        /\ lpBalance' = [lpBalance EXCEPT ![user] = @ - lpAmount]
        /\ xlm[PoolContract] >= xlmOut /\ sxlm[PoolContract] >= sxlmOut
        /\ xlm' = Moved(xlm, PoolContract, user, xlmOut)
        /\ sxlm' = Moved(sxlm, PoolContract, user, sxlmOut)
        /\ UNCHANGED <<feeVars, givenVars>>

\* Mutant of RemoveLiquidity: the payout is computed after the shares were burned.
RemoveAfterBurning(user, lpAmount) ==
    LET xlmOut  == TruncDiv(lpAmount * reserveXlm, totalLp - lpAmount)
        sxlmOut == TruncDiv(lpAmount * reserveSxlm, totalLp - lpAmount)
    IN  /\ lpAmount > 0
        /\ lpBalance[user] >= lpAmount
        /\ totalLp # lpAmount
        /\ xlmOut > 0 /\ sxlmOut > 0
        /\ reserveXlm' = reserveXlm - xlmOut
        /\ reserveSxlm' = reserveSxlm - sxlmOut
        /\ totalLp' = totalLp - lpAmount
        /\ lpBalance' = [lpBalance EXCEPT ![user] = @ - lpAmount]
        /\ xlm[PoolContract] >= xlmOut /\ sxlm[PoolContract] >= sxlmOut
        /\ xlm' = Moved(xlm, PoolContract, user, xlmOut)
        /\ sxlm' = Moved(sxlm, PoolContract, user, sxlmOut)
        /\ UNCHANGED <<feeVars, givenVars>>

RemoveLiquidity(user, lpAmount) ==
    LET xlmOut  == TruncDiv(lpAmount * reserveXlm, totalLp)
        sxlmOut == TruncDiv(lpAmount * reserveSxlm, totalLp)
    IN  /\ lpAmount > 0
        /\ lpBalance[user] >= lpAmount
        /\ totalLp # 0
        /\ xlmOut > 0 /\ sxlmOut > 0
        /\ reserveXlm' = reserveXlm - xlmOut
        /\ reserveSxlm' = reserveSxlm - sxlmOut
        /\ totalLp' = totalLp - lpAmount
        /\ lpBalance' = [lpBalance EXCEPT ![user] = @ - lpAmount]
        /\ xlm[PoolContract] >= xlmOut /\ sxlm[PoolContract] >= sxlmOut
        /\ xlm' = Moved(xlm, PoolContract, user, xlmOut)
        /\ sxlm' = Moved(sxlm, PoolContract, user, sxlmOut)
        /\ UNCHANGED <<feeVars, givenVars>>

----------------------------------------------------------------------------
(* Swaps. *)

AfterFee(amount) == TruncDiv(amount * (BPS_DENOMINATOR - FeeBps), BPS_DENOMINATOR)

\* Mutant of SwapOut: the price before the swap, applied to the whole amount.
SwapOutAtSpotPrice(reserveIn, reserveOut, amountAfterFee) ==
    TruncDiv(amountAfterFee * reserveOut, reserveIn)

\* Output of the constant product: the new output reserve is rounded down, so what
\* the trader receives is rounded up.
SwapOut(reserveIn, reserveOut, amountAfterFee) ==
    reserveOut - TruncDiv(reserveIn * reserveOut, reserveIn + amountAfterFee)

\* Mutant of SwapXlmToSxlm: the protocol's cut is accrued and stays in the reserve.
SwapCutInBoth(user, xlmAmount, minOut) ==
    LET afterFee == AfterFee(xlmAmount)
        sxlmOut  == SwapOut(reserveXlm, reserveSxlm, afterFee)
        cut      == TruncDiv((xlmAmount - afterFee) * protocolFeeBps, FeeBps)
    IN  /\ xlmAmount > 0
        /\ reserveXlm > 0 /\ reserveSxlm > 0
        /\ sxlmOut > 0 /\ sxlmOut < reserveSxlm
        /\ sxlmOut >= minOut
        /\ xlm[user] >= xlmAmount /\ sxlm[PoolContract] >= sxlmOut
        /\ xlm' = Moved(xlm, user, PoolContract, xlmAmount)
        /\ sxlm' = Moved(sxlm, PoolContract, user, sxlmOut)
        /\ FeeBps # 0
        /\ reserveXlm' = reserveXlm + xlmAmount
        /\ reserveSxlm' = reserveSxlm - sxlmOut
        /\ accruedFees' = accruedFees + cut
        /\ UNCHANGED <<shareVars, protocolFeeBps, givenVars>>

\* The reserves get the whole input less the protocol's cut, which is accrued.
SwapXlmToSxlm(user, xlmAmount, minOut) ==
    LET afterFee == AfterFee(xlmAmount)
        sxlmOut  == SwapOut(reserveXlm, reserveSxlm, afterFee)
        cut      == TruncDiv((xlmAmount - afterFee) * protocolFeeBps, FeeBps)
    IN  /\ xlmAmount > 0
        /\ reserveXlm > 0 /\ reserveSxlm > 0
        /\ sxlmOut > 0 /\ sxlmOut < reserveSxlm
        /\ sxlmOut >= minOut
        /\ xlm[user] >= xlmAmount /\ sxlm[PoolContract] >= sxlmOut
        /\ xlm' = Moved(xlm, user, PoolContract, xlmAmount)
        /\ sxlm' = Moved(sxlm, PoolContract, user, sxlmOut)
        /\ FeeBps # 0
        /\ reserveXlm' = reserveXlm + xlmAmount - cut
        /\ reserveSxlm' = reserveSxlm - sxlmOut
        /\ accruedFees' = accruedFees + cut
        /\ UNCHANGED <<shareVars, protocolFeeBps, givenVars>>

\* Mutant of SwapSxlmToXlm: the output is not compared with the reserve.
SwapWholeReserve(user, sxlmAmount, minOut) ==
    LET xlmOut == SwapOut(reserveSxlm, reserveXlm, AfterFee(sxlmAmount))
    IN  /\ sxlmAmount > 0
        /\ reserveXlm > 0 /\ reserveSxlm > 0
        /\ xlmOut > 0
        /\ xlmOut >= minOut
        /\ sxlm[user] >= sxlmAmount /\ xlm[PoolContract] >= xlmOut
        /\ sxlm' = Moved(sxlm, user, PoolContract, sxlmAmount)
        /\ xlm' = Moved(xlm, PoolContract, user, xlmOut)
        /\ reserveSxlm' = reserveSxlm + sxlmAmount
        /\ reserveXlm' = reserveXlm - xlmOut
        /\ UNCHANGED <<shareVars, feeVars, givenVars>>

SwapSxlmToXlm(user, sxlmAmount, minOut) ==
    LET xlmOut == SwapOut(reserveSxlm, reserveXlm, AfterFee(sxlmAmount))
    IN  /\ sxlmAmount > 0
        /\ reserveXlm > 0 /\ reserveSxlm > 0
        /\ xlmOut > 0 /\ xlmOut < reserveXlm
        /\ xlmOut >= minOut
        /\ sxlm[user] >= sxlmAmount /\ xlm[PoolContract] >= xlmOut
        /\ sxlm' = Moved(sxlm, user, PoolContract, sxlmAmount)
        /\ xlm' = Moved(xlm, PoolContract, user, xlmOut)
        /\ reserveSxlm' = reserveSxlm + sxlmAmount
        /\ reserveXlm' = reserveXlm - xlmOut
        /\ UNCHANGED <<shareVars, feeVars, givenVars>>

----------------------------------------------------------------------------
(* Calls of the admin. *)

CollectProtocolFees ==
    /\ accruedFees > 0
    /\ xlm[PoolContract] >= accruedFees
    /\ xlm' = Moved(xlm, PoolContract, Admin, accruedFees)
    /\ accruedFees' = 0
    /\ UNCHANGED <<sxlm, reserveVars, shareVars, protocolFeeBps, givenVars>>

\* Not compared with the swap fee it is a part of.
SetProtocolFeeBps(bps) ==
    /\ protocolFeeBps' = bps
    /\ UNCHANGED <<xlm, sxlm, reserveVars, shareVars, accruedFees, givenVars>>

----------------------------------------------------------------------------
(* The environment: direct transfers, which no entry point sees. *)

SendXlm(from, to, amount) ==
    /\ amount > 0
    /\ xlm[from] >= amount
    /\ xlm' = Moved(xlm, from, to, amount)
    /\ givenXlm' = IF to = PoolContract THEN givenXlm + amount ELSE givenXlm
    /\ UNCHANGED <<sxlm, reserveVars, shareVars, feeVars, givenSxlm>>

SendSxlm(from, to, amount) ==
    /\ amount > 0
    /\ sxlm[from] >= amount
    /\ sxlm' = Moved(sxlm, from, to, amount)
    /\ givenSxlm' = IF to = PoolContract THEN givenSxlm + amount ELSE givenSxlm
    /\ UNCHANGED <<xlm, reserveVars, shareVars, feeVars, givenXlm>>

----------------------------------------------------------------------------

Next ==
    \/ \E user \in Users :
          \/ \E x \in XlmAmounts, s \in SxlmAmounts :
                AddLiquidity(user, x, s) /\ totalLp' <= MaxShares
          \/ \E lp \in LpAmounts : RemoveLiquidity(user, lp)
          \/ \E x \in XlmAmounts, min \in MinOuts : SwapXlmToSxlm(user, x, min)
          \/ \E s \in SxlmAmounts, min \in MinOuts : SwapSxlmToXlm(user, s, min)
    \/ CollectProtocolFees
    \/ \E bps \in ProtocolFees : SetProtocolFeeBps(bps)
    \/ \E from \in Users, to \in Accounts :
          \/ \E x \in SentXlm : SendXlm(from, to, x)
          \/ \E s \in SentSxlm : SendSxlm(from, to, s)

Spec == Init /\ [][Next]_vars

----------------------------------------------------------------------------
(* Properties. *)

\* The pool's tokens are its reserves, the accrued fees and what was sent to it directly:
\* no swap, deposit or withdrawal of shares leaves a stroop unaccounted or accounts for
\* one twice.
ReservesAreHeld ==
    /\ xlm[PoolContract] = givenXlm + reserveXlm + accruedFees
    /\ sxlm[PoolContract] = givenSxlm + reserveSxlm

\* The shares are the users' and there is always something of both tokens behind them:
\* no sequence of swaps and withdrawals leaves shareholders with an empty side.
SharesAreBacked ==
    /\ totalLp = SumFunction(lpBalance)
    /\ totalLp > 0 <=> reserveXlm > 0
    /\ totalLp > 0 <=> reserveSxlm > 0

\* A swap pays out at most one unit more than the constant product allows: with the
\* output reserve one higher, the product of the reserves would have grown.
SwapWithinOneUnit ==
    [][totalLp' = totalLp =>
         \/ UNCHANGED reserveVars
         \/ reserveXlm' > reserveXlm /\ reserveXlm' * (reserveSxlm' + 1) > reserveXlm * reserveSxlm
         \/ reserveSxlm' > reserveSxlm /\ (reserveXlm' + 1) * reserveSxlm' > reserveXlm * reserveSxlm]_vars

\* Adding or removing liquidity takes at most one unit of each reserve from the shares
\* of the others.
OthersKeepTheirShare ==
    [][totalLp > 0 /\ totalLp' # totalLp =>
         /\ (reserveXlm' + 1) * totalLp >= reserveXlm * totalLp'
         /\ (reserveSxlm' + 1) * totalLp >= reserveSxlm * totalLp']_vars
=============================================================================
