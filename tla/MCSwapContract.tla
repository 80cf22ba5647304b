---------------------------- MODULE MCSwapContract ----------------------------
(***************************************************************************)
(* Two traders.  The blocks hold orders that cross at different prices,    *)
(* one that stops at an amount, invalid ones, orders taken back before and *)
(* after they match, and withdrawals.  A sell comes with a satoshi, which  *)
(* stays with the contract.                                                *)
(***************************************************************************)
EXTENDS SwapContract

Traders == {"alice", "bob"}

Order(kind, addr, price, value, amt) ==
    [kind |-> kind, addr |-> addr, price |-> price, value |-> value, amt |-> amt,
     want |-> 0, fee |-> 0, dest |-> addr, valid |-> TRUE]
Buy(addr, price, value) == Order("buy", addr, price, value, 0)
Sell(addr, price, amt)  == Order("sell", addr, price, 1, amt)
TakeBack(addr)          == Order("refund", addr, 0, 0, 0)
Withdraw(addr, value)   == [Order("withdraw", addr, 0, value, 0) EXCEPT !.fee = 1]
Invalid(order)          == [order EXCEPT !.valid = FALSE]

SettlementBlocks ==
    {<<Buy("alice", 3, 3)>>, <<Sell("bob", 1, 2), Invalid(Withdraw("alice", 1))>>, <<Sell("bob", 3, 1), TakeBack("bob")>>,
     <<TakeBack("alice"), Invalid(Buy("bob", 1, 1))>>,
     <<[Buy("bob", 4, 4) EXCEPT !.want = 1], Withdraw("alice", 1), [Withdraw("bob", 2) EXCEPT !.fee = 2]>>}
===============================================================================
