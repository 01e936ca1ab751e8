----------------------------- MODULE MCMempool -----------------------------
(***************************************************************************)
(* Mempool on two accounts: two transactions that compete for one nonce and *)
(* one paid from what either of them sends.                                 *)
(***************************************************************************)
EXTENDS Mempool, TLC

CONSTANTS a, b

MCAccounts == {a, b}
MCFunds == (a :> 3) @@ (b :> 0)
Send(from, to, amount, nonce) == [from |-> from, to |-> to, amount |-> amount, nonce |-> nonce]
MCTxs == {Send(a, b, 1, 0), Send(a, b, 2, 0), Send(b, a, 1, 0)}
=============================================================================
