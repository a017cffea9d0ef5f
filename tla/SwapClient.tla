----------------------------- MODULE SwapClient -----------------------------
(***************************************************************************)
(* Transactions of the Python SDK: PropAmmRouter.swap, approve and         *)
(* wait_for_swap, and ContractClient.send beneath them                     *)
(* (src/sdk/python/src/propamm/router/bindings.py and .../client.py), over *)
(* the mempool and the chain of one account.  Several coroutines send for  *)
(* it; each await lets the others, and the chain, go on.                   *)
(*                                                                         *)
(* Sends are numbered as they begin, and a transaction is known by the     *)
(* number of its send.  What a transaction did is told by its receipt,     *)
(* which is read once.  Fees, the chain id, signatures and ABI encoding are*)
(* left out.                                                               *)
(***************************************************************************)
EXTENDS Naturals, Sequences

CONSTANTS
    Senders,
    Wishes,             \* what they ask for
    MaxSends,           \* bounds the sends
    MAX_FEE_BPS

ASSUME SendBounds == MaxSends \in Nat /\ MAX_FEE_BPS \in Nat

\* listed: opts.venues, from None to several; plain: no frontend fee, or bps of it
\* to a recipient who may be the zero address; capped: the caller limits the gas.
Wish == [kind : {"approve", "swap"}, listed : {"all", "none", "one", "several"},
         eth : BOOLEAN, amount : Nat, plain : BOOLEAN, bps : Nat,
         unpaid : BOOLEAN, capped : BOOLEAN]

\* approve takes neither ETH nor a fee.
ASSUME SendWishes ==
    /\ Wishes \subseteq Wish
    /\ \A w \in Wishes : w.kind = "approve" => ~w.eth /\ w.plain

VARIABLES
    chain,              \* mined transactions, by nonce from zero
    pool,               \* nonce |-> pending transaction
    step, wish, nonce,  \* of each sender
    send,               \* the send a sender began last, from one
    hash,               \* the transaction he was last given
    \* history
    begun,              \* the number of sends
    returned,           \* transactions whose hash a sender was given
    before,             \* what had been returned when a send began
    crossed             \* sends that ran while another did

nodeVars == <<chain, pool>>
pastVars == <<begun, returned, before, crossed>>
swapVars == <<nodeVars, step, wish, nonce, send, hash, pastVars>>

Id == 1 .. MaxSends
Message == [plain : BOOLEAN, bps : Nat, unpaid : BOOLEAN,
            eth : BOOLEAN, amount : Nat, value : Nat]
Tx == [id : Id, message : Message]

Sending == {"counting", "building", "sending"}
Ended == {"ready", "invalid", "reverts", "refused", "failed", "lost", "sent",
          "timed out", "swapped", "reverted", "silent"}

SwapsTypeOK ==
    /\ chain \in Seq(Tx)
    /\ DOMAIN pool \subseteq Nat /\ pool \in [DOMAIN pool -> Tx]
    /\ step \in [Senders -> Sending \cup {"waiting"} \cup Ended]
    /\ wish \in [Senders -> Wish]
    /\ nonce \in [Senders -> Nat]
    /\ {send, hash} \subseteq [Senders -> 0 .. begun]
    /\ begun \in 0 .. MaxSends
    /\ returned \subseteq Id /\ crossed \subseteq Id
    /\ before \in [Id -> SUBSET Id]

Go(c, to) == step' = [step EXCEPT ![c] = to]

(***************************************************************************)
(* What a swap is made of                                                  *)
(***************************************************************************)

\* Mutant of ValidFee: the recipient is not looked at.
ValidFeeOf(w) == w.plain \/ w.bps \in 1 .. MAX_FEE_BPS

\* _validate_fee.
ValidFee(w) == w.plain \/ (w.bps \in 1 .. MAX_FEE_BPS /\ ~w.unpaid)

\* _venue_dispatch refuses an empty list.
Valid(w) == w.kind = "swap" => w.listed # "none" /\ ValidFee(w)

\* GAS_LIMIT_BY_FUNCTION has a limit for every swap function, and none for approve.
IsCapped(w) == w.capped \/ w.kind = "swap"

MessageOf(w) ==
    [plain |-> w.plain, bps |-> w.bps, unpaid |-> w.unpaid,
     eth |-> w.eth, amount |-> w.amount,
     value |-> IF w.kind = "swap" /\ w.eth THEN w.amount ELSE 0]

(***************************************************************************)
(* ContractClient.send                                                     *)
(***************************************************************************)
BeginSend(c, w) ==
    LET busy == {s \in Senders : step[s] \in Sending}
        this == begun + 1
    IN  /\ step[c] \in Ended
        /\ IF Valid(w)
           THEN /\ begun < MaxSends
                /\ Go(c, "counting")
                /\ wish' = [wish EXCEPT ![c] = w]
                /\ send' = [send EXCEPT ![c] = this]
                /\ begun' = this
                /\ before' = [before EXCEPT ![this] = returned]
                /\ crossed' = crossed \cup {send[s] : s \in busy}
                                      \cup (IF busy = {} THEN {} ELSE {this})
           ELSE Go(c, "invalid") /\ UNCHANGED <<wish, send, begun, before, crossed>>
        /\ UNCHANGED <<nodeVars, nonce, hash, returned>>

\* Mutant of NextNonce: only what is mined counts.
LatestNonce == Len(chain)

\* get_transaction_count of "pending": what is mined and what is queued behind it.
NextNonce ==
    CHOOSE n \in {Len(chain)} \cup {m + 1 : m \in DOMAIN pool} :
       /\ n >= Len(chain) /\ n \notin DOMAIN pool
       /\ \A m \in Len(chain) .. n - 1 : m \in DOMAIN pool

Count(c) ==
    /\ step[c] = "counting"
    /\ nonce' = [nonce EXCEPT ![c] = NextNonce]
    /\ Go(c, "building")
    /\ UNCHANGED <<nodeVars, wish, send, hash, pastVars>>

\* build_transaction asks for the fees, and without a limit for an estimate of the
\* gas, which may find that the call reverts.
Build(c) ==
    /\ step[c] = "building"
    /\ \/ Go(c, "sending")
       \/ ~IsCapped(wish[c]) /\ Go(c, "reverts")
    /\ UNCHANGED <<nodeVars, wish, nonce, send, hash, pastVars>>

\* send_raw_transaction.  The node takes a nonce that is free, or, from a sender
\* who bids more, one that is not; the answer may be lost.
Queue(c) ==
    pool' = [n \in DOMAIN pool \cup {nonce[c]} |->
                IF n = nonce[c] THEN [id |-> send[c], message |-> MessageOf(wish[c])]
                ELSE pool[n]]

Submit(c) ==
    /\ step[c] = "sending"
    /\ nonce[c] >= Len(chain)
    /\ Queue(c)
    /\ \/ /\ Go(c, "sent")
          /\ hash' = [hash EXCEPT ![c] = send[c]]
          /\ returned' = returned \cup {send[c]}
       \/ Go(c, "lost") /\ UNCHANGED <<hash, returned>>
    /\ UNCHANGED <<chain, wish, nonce, send, begun, before, crossed>>

\* "nonce too low", "replacement transaction underpriced".
Refuse(c) ==
    /\ step[c] = "sending"
    /\ nonce[c] < Len(chain) \/ nonce[c] \in DOMAIN pool
    /\ Go(c, "refused")
    /\ UNCHANGED <<nodeVars, wish, nonce, send, hash, pastVars>>

\* A request does not reach the node.
SendFails(c) ==
    /\ step[c] \in Sending
    /\ Go(c, "failed")
    /\ UNCHANGED <<nodeVars, wish, nonce, send, hash, pastVars>>

(***************************************************************************)
(* The chain, and wait_for_swap                                            *)
(***************************************************************************)
Mine ==
    /\ Len(chain) \in DOMAIN pool
    /\ chain' = Append(chain, pool[Len(chain)])
    /\ pool' = [n \in DOMAIN pool \ {Len(chain)} |-> pool[n]]
    /\ UNCHANGED <<step, wish, nonce, send, hash, pastVars>>

\* A hash can be waited for again.
Wait(c) ==
    /\ step[c] \in {"sent", "timed out"}
    /\ Go(c, "waiting")
    /\ UNCHANGED <<nodeVars, wish, nonce, send, hash, pastVars>>

Receipt(c) ==
    /\ step[c] = "waiting"
    /\ \E i \in DOMAIN chain : chain[i].id = hash[c]
    /\ \E outcome \in {"swapped", "reverted", "silent"} : Go(c, outcome)
    /\ UNCHANGED <<nodeVars, wish, nonce, send, hash, pastVars>>

\* RECEIPT_TIMEOUT_SECONDS passed, even if a receipt is on its way.
TimeOut(c) ==
    /\ step[c] = "waiting"
    /\ Go(c, "timed out")
    /\ UNCHANGED <<nodeVars, wish, nonce, send, hash, pastVars>>

SwapsInit ==
    /\ chain = <<>>
    /\ pool = [n \in {} |-> 0]
    /\ step = [c \in Senders |-> "ready"]
    /\ wish = [c \in Senders |->
                  [kind |-> "swap", listed |-> "all", eth |-> FALSE, amount |-> 0,
                   plain |-> TRUE, bps |-> 0, unpaid |-> FALSE, capped |-> FALSE]]
    /\ nonce = [c \in Senders |-> 0]
    /\ send = [c \in Senders |-> 0]
    /\ hash = [c \in Senders |-> 0]
    /\ begun = 0 /\ returned = {} /\ crossed = {}
    /\ before = [t \in Id |-> {}]

SwapsNext ==
    \/ \E c \in Senders :
          \/ \E w \in Wishes : BeginSend(c, w)
          \/ Count(c) \/ Build(c) \/ Submit(c) \/ Refuse(c) \/ SendFails(c)
          \/ Wait(c) \/ Receipt(c) \/ TimeOut(c)
    \/ Mine

SwapsSpec == SwapsInit /\ [][SwapsNext]_swapVars

(***************************************************************************)
(* Properties                                                              *)
(***************************************************************************)
\* "Back-to-back sends don't collide": a node refuses the nonce of a send only if
\* another send ran at the same time, whatever was lost, replaced or mined since.
LoneSendIsAccepted == \A c \in Senders : step[c] = "refused" => send[c] \in crossed

\* What is sent after a hash was returned is mined after the transaction of that
\* hash, a swap after its approval, even if neither is waited for: provided no
\* other send ran while that transaction was sent, which may have replaced it.
MinedInOrder ==
    \A i \in DOMAIN chain : \A earlier \in before[chain[i].id] \ crossed :
       \E j \in 1 .. i - 1 : chain[j].id = earlier

\* A swap that leaves the SDK, limit attached and not estimated, is not one the
\* router turns away for its value or its fee.
RouterTakes(m) ==
    /\ m.value = IF m.eth THEN m.amount ELSE 0
    /\ m.plain \/ (m.bps <= MAX_FEE_BPS /\ ~m.unpaid)
MessagesPass ==
    /\ \A n \in DOMAIN pool : RouterTakes(pool[n].message)
    /\ \A i \in DOMAIN chain : RouterTakes(chain[i].message)
=============================================================================
