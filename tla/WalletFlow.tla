----------------------------- MODULE WalletFlow -----------------------------
(***************************************************************************)
(* What a hook of the frontend does with a request of its user: ask the    *)
(* backend for an unsigned transaction, have the wallet sign it, hand it   *)
(* to POST /staking/submit, which sends it and looks for its outcome.      *)
(*                                                                         *)
(* The HTTP client repeats a request that got no answer, so a route may    *)
(* serve one request several times.  The submit route looks for 72 s and   *)
(* the client waits for 60 s, so an answer can be lost with nothing wrong. *)
(*                                                                         *)
(* What a route does, and what a transaction does, is the business of the  *)
(* modules that extend this one.                                           *)
(***************************************************************************)
EXTENDS Integers

CONSTANTS Wallets,
          Requests,     \* what a user may ask for
          MaxRetries    \* MAX_RETRIES of the HTTP client: 3 in the code

ASSUME WalletAssumption == MaxRetries \in Nat

VARIABLES hook,     \* the hook of each wallet, one request at a time
          network   \* each account's transaction that waits to be included

walletVars == <<hook, network>>

Nothing == [step |-> "nothing"]
\* The fate of the transaction of the request; stale: another one of the account
\* was included after this one was built.
Fate == {"unsent", "stale", "waiting", "included", "failed"}
Hook == [step : {"asking", "signing", "submitting", "polling", "confirmed"},
         request : Requests, fate : Fate, tries : 0..MaxRetries]
Waiting == [request : Requests, ofHook : BOOLEAN]

WalletTypeOK ==
    /\ hook \in [Wallets -> {Nothing} \cup Hook]
    /\ network \in [Wallets -> {Nothing} \cup Waiting]

WalletInit ==
    /\ hook = [w \in Wallets |-> Nothing]
    /\ network = [w \in Wallets |-> Nothing]

At(w, step) == hook[w].step = step
To(w, step) == hook' = [hook EXCEPT ![w].step = step] /\ UNCHANGED network
----------------------------------------------------------------------------

Ask(w, request) ==
    /\ hook[w].step \in {"nothing", "confirmed"}
    /\ hook' = [hook EXCEPT ![w] = [step |-> "asking", request |-> request,
                                    fate |-> "unsent", tries |-> 0]]
    /\ UNCHANGED network

\* The hook is done: nobody looks any more for what of it still waits.
Forgotten(w) ==
    network' = [network EXCEPT ![w] = IF @ = Nothing THEN @ ELSE [@ EXCEPT !.ofHook = FALSE]]

\* It shows an error, ...
GiveUp(w) == hook' = [hook EXCEPT ![w] = Nothing] /\ Forgotten(w)

\* ... or success.
Report(w) == hook' = [hook EXCEPT ![w].step = "confirmed"] /\ Forgotten(w)

\* No answer: the client repeats the request, three times at most.
NoAnswer(w, repeated) ==
    IF hook[w].tries = MaxRetries THEN GiveUp(w)
    ELSE /\ hook' = [hook EXCEPT ![w].step = repeated, ![w].tries = @ + 1]
         /\ UNCHANGED network

\* The route has built the transaction, and its answer arrives or is lost.
Built(w) ==
    \/ hook' = [hook EXCEPT ![w].step = "signing", ![w].tries = 0] /\ UNCHANGED network
    \/ NoAnswer(w, "asking")

\* The request reaches no route.
Unreachable(w) ==
    \/ At(w, "asking") /\ NoAnswer(w, "asking")
    \/ At(w, "submitting") /\ NoAnswer(w, "submitting")

\* signTransaction: the user may decline, or have disconnected the wallet meanwhile.
Sign(w) == At(w, "signing") /\ (To(w, "submitting") \/ GiveUp(w))

\* Mutant of Submit: the status of sendTransaction is not looked at.
SubmitUnchecked(w) ==
    /\ At(w, "submitting")
    /\ IF hook[w].fate = "unsent" /\ network[w] = Nothing
       THEN /\ network' = [network EXCEPT ![w] = [request |-> hook[w].request, ofHook |-> TRUE]]
            /\ hook' = [hook EXCEPT ![w].step = "polling", ![w].fate = "waiting"]
       ELSE To(w, "polling")

\* sendTransaction.  What already waits is a duplicate and is looked for again; a
\* number that was spent, by this transaction too, or that another one waits with,
\* is refused.
Submit(w) ==
    /\ At(w, "submitting")
    /\ CASE hook[w].fate = "waiting" -> To(w, "polling")
         [] hook[w].fate = "unsent" /\ network[w] = Nothing ->
              /\ network' = [network EXCEPT ![w] = [request |-> hook[w].request, ofHook |-> TRUE]]
              /\ hook' = [hook EXCEPT ![w].step = "polling", ![w].fate = "waiting"]
         [] OTHER -> GiveUp(w)

\* pollTransaction of the submit route: what it has not found by its last look is
\* answered as pending, and the governance hook shows that as success as well.
Found(w) ==
    /\ At(w, "polling")
    /\ IF hook[w].fate = "failed" THEN GiveUp(w) ELSE Report(w)

\* The client gives up on the submit route, and hands the same transaction in again.
PollCutOff(w) == At(w, "polling") /\ NoAnswer(w, "submitting")

\* The transaction of w no longer waits; the one of its hook now has this fate.
Leaves(w, fate) ==
    /\ network[w] # Nothing
    /\ network' = [network EXCEPT ![w] = Nothing]
    /\ hook' = [hook EXCEPT ![w] = IF network[w].ofHook THEN [@ EXCEPT !.fate = fate] ELSE @]

\* It is included, which spends its number: what was built with the same is stale.
Included(w, succeeds) ==
    IF network[w].ofHook \/ hook[w].step \notin {"signing", "submitting"}
    THEN Leaves(w, IF succeeds THEN "included" ELSE "failed")
    ELSE /\ network' = [network EXCEPT ![w] = Nothing]
         /\ hook' = [hook EXCEPT ![w].fate = "stale"]

\* It was not included in the 300 s it is valid for.
RanOut(w) == Leaves(w, "failed")

WalletStep(w) ==
    \/ Unreachable(w) \/ Sign(w) \/ Submit(w) \/ Found(w) \/ PollCutOff(w) \/ RanOut(w)
=============================================================================
