------------------------------ MODULE SxlmToken ------------------------------
(***************************************************************************)
(* The sXLM token contract (contracts/sxlm-token/src/lib.rs): balances,    *)
(* allowances, a total supply that is stored apart from the balances, the  *)
(* minter that may create and destroy tokens, and the admin that may       *)
(* replace the minter.                                                     *)
(*                                                                         *)
(* A Soroban call is one atomic step: every panic, failed require_auth or  *)
(* arithmetic overflow (the workspace builds with overflow-checks) rolls   *)
(* the whole transaction back, so a condition that makes the code panic    *)
(* is a guard here.  "by" is the address whose require_auth the call       *)
(* needs.  Rent (TTL) extension, metadata and events are left out.         *)
(***************************************************************************)
EXTENDS Integers, FiniteSets, Balances

CONSTANTS Accounts,         \* every address that can hold XLM or sXLM
          StakingContract,  \* the address of the staking contract
          TokenAdmins,      \* addresses that may become the token's admin
          Minters,          \* addresses that may become the token's minter
          TokenAmounts      \* amounts passed to transfer, mint and burn
CONSTANT  ApproveAmounts    \* amounts passed to approve

ASSUME TokenConstants ==
    /\ IsFiniteSet(Accounts)
    /\ StakingContract \in Accounts
    /\ TokenAdmins \subseteq Accounts /\ Minters \subseteq Accounts
    /\ TokenAmounts \subseteq Int /\ ApproveAmounts \subseteq Int

VARIABLES balance, totalSupply, allowance, minter, tokenAdmin

tokenVars == <<balance, totalSupply, allowance, minter, tokenAdmin>>

TokenTypeOK ==
    /\ balance \in [Accounts -> Nat]
    /\ totalSupply \in Int
    /\ allowance \in [Accounts -> [Accounts -> Nat]]
    /\ minter \in Accounts
    /\ tokenAdmin \in Accounts

TokenInit ==
    /\ balance = [a \in Accounts |-> 0]
    /\ totalSupply = 0
    /\ allowance = [a \in Accounts |-> [s \in Accounts |-> 0]]
    /\ minter = StakingContract
    /\ tokenAdmin \in TokenAdmins

MayMint(by, amount) == amount >= 0 /\ by = minter

Mint(by, to, amount) ==
    /\ MayMint(by, amount)
    /\ balance' = [balance EXCEPT ![to] = @ + amount]
    /\ totalSupply' = totalSupply + amount
    /\ UNCHANGED <<allowance, minter, tokenAdmin>>

MayBurn(by, from, amount) == amount >= 0 /\ by = minter /\ balance[from] >= amount

Burn(by, from, amount) ==
    /\ MayBurn(by, from, amount)
    /\ balance' = [balance EXCEPT ![from] = @ - amount]
    /\ totalSupply' = totalSupply - amount
    /\ UNCHANGED <<allowance, minter, tokenAdmin>>

Approve(from, spender, amount) ==
    /\ amount >= 0
    /\ allowance' = [allowance EXCEPT ![from][spender] = amount]
    /\ UNCHANGED <<balance, totalSupply, minter, tokenAdmin>>

Transfer(from, to, amount) ==
    /\ amount >= 0
    /\ balance[from] >= amount
    /\ balance' = Moved(balance, from, to, amount)
    /\ UNCHANGED <<totalSupply, allowance, minter, tokenAdmin>>

TransferFrom(spender, from, to, amount) ==
    /\ amount >= 0
    /\ allowance[from][spender] >= amount
    /\ balance[from] >= amount
    /\ allowance' = [allowance EXCEPT ![from][spender] = @ - amount]
    /\ balance' = Moved(balance, from, to, amount)
    /\ UNCHANGED <<totalSupply, minter, tokenAdmin>>

SetMinter(by, newMinter) ==
    /\ by = tokenAdmin
    /\ minter' = newMinter
    /\ UNCHANGED <<balance, totalSupply, allowance, tokenAdmin>>

SetTokenAdmin(by, newAdmin) ==
    /\ by = tokenAdmin
    /\ tokenAdmin' = newAdmin
    /\ UNCHANGED <<balance, totalSupply, allowance, minter>>
=============================================================================
