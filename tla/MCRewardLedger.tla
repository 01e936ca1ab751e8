--------------------------- MODULE MCRewardLedger ---------------------------
(***************************************************************************)
(* Two accounts that also mine, four transactions (three of one account, in *)
(* nonce order or in conflict) and candidate lists that apply whole, in     *)
(* part or not at all.                                                      *)
(***************************************************************************)
EXTENDS RewardLedger

Tx(f, t, a, fee, n) == [from |-> f, to |-> t, amount |-> a, fee |-> fee, nonce |-> n]

CONSTANTS Alice, Bob

Pay == Tx(Alice, Bob, 2, 1, 0)
PayAgain == Tx(Alice, Bob, 1, 0, 1)
PayInstead == Tx(Alice, Bob, 3, 0, 0)
PayBack == Tx(Bob, Alice, 2, 0, 0)

MCTxs == {Pay, PayAgain, PayInstead, PayBack}
MCCandidates == {<<>>, <<Pay, PayInstead>>, <<Pay, PayAgain>>, <<PayBack, Pay>>}

=============================================================================
