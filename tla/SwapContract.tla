----------------------------- MODULE SwapContract -----------------------------
(***************************************************************************)
(* The order-book contract of sdk/wallet/contract_swap.go on the runtime   *)
(* of contract.go.  Two parties, the initiator and its peer, each run the  *)
(* contract: both read the invocations out of the same satsnet blocks,     *)
(* match the orders and keep books of what is owed.  Only the initiator    *)
(* sends: it works out what to pay, asks the peer to co-sign and records   *)
(* the payment.  The peer compares the payment with its own books, signs   *)
(* and records.  The mutex of a party is held for a whole block and for    *)
(* each computation of the sender, but not between those: blocks arrive    *)
(* while a payment is under way, and at the two parties in their own time. *)
(*                                                                         *)
(* Amounts are small integers; prices are in half satoshi per unit of the  *)
(* asset, so that the rounding of the matching shows.                      *)
(***************************************************************************)
EXTENDS Integers, Sequences, FiniteSetsExt

CONSTANTS
    Addresses,   \* of the traders
    Blocks,      \* what a block may hold: sequences of invocations
    MaxHeight,   \* bound: blocks that hold invocations
    Senders,     \* calls of InvokeWithBlock that may overlap
    Faults,      \* "lost": the answer of the peer does not arrive
                 \* "crash": a party stops and starts again
    MaxFault     \* bound: how often something fails

Initiator == "initiator"
Peer      == "peer"
Parties   == {Initiator, Peer}
Trades    == {"buy", "sell"}
Kinds     == Trades \cup {"refund", "withdraw"}

\* An invocation as a block carries it: value in satoshi after the service
\* fee, amt in units of the asset; want is the amount a buyer stops at (0:
\* none), fee and dest the fee rate and the target of a withdrawal, valid the
\* verdict on its parameters.
Invocation == [kind : Kinds, addr : Addresses, price : Nat, value : Nat, amt : Nat,
               want : Nat, fee : Nat, dest : Addresses, valid : BOOLEAN]

ASSUME BlocksAssumption ==
    \A b \in Blocks : /\ b \in Seq(Invocation)
                      /\ \A k \in DOMAIN b : b[k].kind \in Trades => b[k].price > 0
ASSUME BoundAssumption == MaxHeight \in Nat /\ MaxFault \in Nat

VARIABLES
    orders,   \* the invocations on the chain with their heights; the place is the Id
    tip,      \* the height of the chain
    curr,     \* per party: CurrBlock
    phase,    \* per party: "free", or what it is doing under the mutex
    count,    \* per party: InvokeCount
    item,     \* per party: the SwapHistoryItems accepted
    pool,     \* per party: buyPool and sellPool
    swapMap, refundMap, withdrawMap,   \* per party: the open items
    inPool,   \* per party: SatsValueInPool and AssetAmtInPool
    roots,    \* per party: the merkle roots it knows, by InvokeCount
    results,  \* per party: the result transactions it has saved as handled
    txs,      \* the result transactions the peer signed
    signing,  \* the one the peer has yet to record, 0 when there is none
    isSending,\* the flag of the initiator
    sender,   \* per sender: its place and the DealInfo in hand
    forgot,   \* per party (history): the addresses a crash has cost a change of the books
    faults    \* how often something failed

block == <<curr, phase, count, roots>>
books == <<item, pool, swapMap, refundMap, withdrawMap, inPool>>
chain == <<orders, tip>>
past  == <<forgot, faults>>
sends == <<txs, signing, results, isSending, sender, past>>
vars  == <<chain, block, books, sends>>

\* A SwapHistoryItem: its Reason and the one in the store, Done, what remains
\* (rv, ra) and what is to be paid out (ov, oa).
Reasons == {"normal", "refund", "invalid"}
Dones   == {"init", "dealt", "refunded"}
Item    == [reason : Reasons, saved : Reasons, done : Dones,
            rv : Int, ra : Int, ov : Int, oa : Int]

Nothing == [v |-> 0, a |-> 0]
NoPay   == [a \in Addresses |-> Nothing]
NoDeal  == [stage |-> "none", pays |-> NoPay, height |-> 0, root |-> <<0, Nothing>>]
Away    == [pc |-> "away", deal |-> NoDeal, tx |-> 0]

Addr(i)    == orders[i].addr
Of(S, a)   == {i \in S : Addr(i) = a}
UpTo(S, h) == {i \in S : orders[i].h <= h}
Open(p, S) == {i \in S : item[p][i].done = "init"}
Buys(S)    == {i \in S : orders[i].kind = "buy"}
Sells(S)   == {i \in S : orders[i].kind = "sell"}
Top(S)     == IF S = {} THEN 0 ELSE Max({orders[i].h : i \in S})

Left(x) == [v |-> x.rv, a |-> x.ra]
Out(x)  == [v |-> x.ov, a |-> x.oa]
Both(x) == [v |-> x.rv + x.ov, a |-> x.ra + x.oa]
Total(f(_), S) == [v |-> MapThenSumSet(LAMBDA i : f(i).v, S),
                   a |-> MapThenSumSet(LAMBDA i : f(i).a, S)]

\* The pools are sorted by price, then by place in the chain.
Before(i, j) ==
    \/ orders[i].kind = "buy" /\ orders[i].price > orders[j].price
    \/ orders[i].kind = "sell" /\ orders[i].price < orders[j].price
    \/ orders[i].price = orders[j].price /\ i < j
First(S)   == CHOOSE i \in S : \A j \in S \ {i} : Before(i, j)

\* What a party does under its mutex touches nothing but its own books, and
\* nobody sees it before the mutex is free: nothing else is interleaved with it.
Idle == \A p \in Parties : phase[p] = "free"

(***************************************************************************)
(* The chain.  A block without invocations changes no book: all it does is *)
(* to wake the sender, and Enter stands for that.                          *)
(***************************************************************************)
NewBlock(b) ==
    /\ Idle /\ tip < MaxHeight
    /\ tip' = tip + 1
    /\ orders' = orders \o [k \in DOMAIN b |->
                               [kind |-> b[k].kind, addr |-> b[k].addr, price |-> b[k].price,
                                value |-> b[k].value, amt |-> b[k].amt, want |-> b[k].want,
                                fee |-> b[k].fee, dest |-> b[k].dest, valid |-> b[k].valid,
                                h |-> tip + 1]]
    /\ UNCHANGED <<block, books, sends>>

(***************************************************************************)
(* A block at a party: invocation by invocation, then match by match, then *)
(* the merkle root, the mutex held throughout.                             *)
(***************************************************************************)
BeginBlock(p) ==
    /\ Idle /\ curr[p] < tip
    /\ curr' = [curr EXCEPT ![p] = @ + 1]
    /\ phase' = [phase EXCEPT ![p] = "accept"]
    /\ UNCHANGED <<chain, count, roots, books, sends>>

Fresh(o) == [reason |-> IF o.valid THEN "normal" ELSE "invalid",
             saved |-> IF o.valid THEN "normal" ELSE "invalid", done |-> "init",
             rv |-> IF o.kind = "sell" THEN 0 ELSE o.value, ra |-> o.amt, ov |-> 0, oa |-> 0]

\* The order in the pool raises the figures by what it brings.
Held(p, S) == [v |-> MapThenSumSet(LAMBDA i : item[p][i].rv, Buys(S)),
               a |-> MapThenSumSet(LAMBDA i : item[p][i].ra, Sells(S))]

Accepted(p, i) ==
    /\ count' = [count EXCEPT ![p] = i]
    /\ UNCHANGED <<chain, curr, phase, roots, sends>>

AcceptTrade(p, i, o) ==
    /\ item' = [item EXCEPT ![p] = Append(@, Fresh(o))]
    /\ IF o.valid
       THEN /\ pool' = [pool EXCEPT ![p] = @ \cup {i}]
            /\ swapMap' = [swapMap EXCEPT ![p] = @ \cup {i}]
            /\ inPool' = [inPool EXCEPT ![p] =
                             [v |-> @.v + (IF o.kind = "buy" THEN o.value ELSE 0),
                              a |-> @.a + (IF o.kind = "sell" THEN o.amt ELSE 0)]]
            /\ UNCHANGED refundMap
       ELSE /\ refundMap' = [refundMap EXCEPT ![p] = @ \cup {i}]
            /\ UNCHANGED <<pool, swapMap, inPool>>
    /\ UNCHANGED withdrawMap

AcceptWithdraw(p, i, o) ==
    /\ item' = [item EXCEPT ![p] = Append(@, Fresh(o))]
    /\ IF o.valid
       THEN withdrawMap' = [withdrawMap EXCEPT ![p] = @ \cup {i}] /\ UNCHANGED refundMap
       ELSE refundMap' = [refundMap EXCEPT ![p] = @ \cup {i}] /\ UNCHANGED withdrawMap
    /\ UNCHANGED <<pool, swapMap, inPool>>

\* Mutant: the orders stay in the pools.
TakenOutNone(p, a) == {}
TakenOut(p, a)     == Of(pool[p], a)
Freed(p, a)        == Held(p, TakenOut(p, a))

\* The trader takes all his orders back: they leave the pools and wait in
\* refundMap.  Their new Reason is not written to the store.
AcceptRefund(p, i, o) ==
    LET mine == Of(swapMap[p], o.addr)
        back == {j \in Open(p, mine) : item[p][j].reason = "normal"}
    IN IF mine = {}
       THEN /\ item' = [item EXCEPT ![p] = Append(@,
                           [Fresh(o) EXCEPT !.reason = "invalid", !.saved = "invalid",
                                            !.done = "dealt"])]
            /\ refundMap' = [refundMap EXCEPT ![p] = @ \cup {i}]
            /\ UNCHANGED <<pool, swapMap, withdrawMap, inPool>>
       ELSE /\ item' = [item EXCEPT ![p] = Append([j \in DOMAIN @ |->
                           IF j \in back THEN [@[j] EXCEPT !.reason = "refund"] ELSE @[j]],
                           Fresh(o))]
            /\ pool' = [pool EXCEPT ![p] = @ \ TakenOut(p, o.addr)]
            /\ inPool' = [inPool EXCEPT ![p] =
                             LET freed == Freed(p, o.addr)
                             IN [v |-> @.v - freed.v, a |-> @.a - freed.a]]
            /\ swapMap' = [swapMap EXCEPT ![p] = @ \ mine]
            /\ refundMap' = [refundMap EXCEPT ![p] = @ \cup back \cup {i}]
            /\ UNCHANGED withdrawMap

Accept(p) ==
    /\ phase[p] = "accept"
    /\ LET i == count[p] + 1
       IN /\ i \in DOMAIN orders /\ orders[i].h = curr[p]
          /\ Accepted(p, i)
          /\ \/ orders[i].kind \in Trades /\ AcceptTrade(p, i, orders[i])
             \/ orders[i].kind = "withdraw" /\ AcceptWithdraw(p, i, orders[i])
             \/ orders[i].kind = "refund" /\ AcceptRefund(p, i, orders[i])

AcceptedAll(p) ==
    /\ phase[p] = "accept"
    /\ \A i \in DOMAIN orders : orders[i].h = curr[p] => i <= count[p]
    /\ phase' = [phase EXCEPT ![p] = "match"]
    /\ UNCHANGED <<chain, curr, count, roots, books, sends>>

Exhausted(p, i) == IF orders[i].kind = "buy" THEN item[p][i].rv = 0 ELSE item[p][i].ra = 0
Live(p)         == {i \in pool[p] : item[p][i].reason = "normal" /\ ~Exhausted(p, i)}
Crossing(p)     == /\ Buys(Live(p)) # {} /\ Sells(Live(p)) # {}
                   /\ orders[First(Buys(Live(p)))].price >= orders[First(Sells(Live(p)))].price

Floor2(n) == n \div 2
Down2(n)  == n \div 2     \* mutant: the seller bears the rounding
Ceil2(n)  == (n + 1) \div 2

\* One round of the loop of swap(): the best buyer b meets the best seller s
\* at the seller's price.
MatchOrders(p) ==
    /\ phase[p] = "match" /\ Crossing(p)
    /\ LET b     == First(Buys(Live(p)))
           s     == First(Sells(Live(p)))
           buy   == item[p][b]
           sell  == item[p][s]
           price == orders[s].price
           want  == orders[b].want
           short == buy.rv <= Floor2(sell.ra * price)
           most  == IF short THEN (buy.rv * 2) \div price ELSE sell.ra
           cap   == want # 0 /\ want < buy.oa + most
           amt   == IF cap THEN want - buy.oa ELSE most
           paid  == Ceil2(amt * price)
           rv    == buy.rv - paid
           ra    == sell.ra - amt
           full  == \/ short \/ cap \/ (rv * 2) \div price = 0
                    \/ want = buy.oa + amt
           sold  == (~short /\ ~cap) \/ Floor2(ra * price) = 0
       IN /\ item' = [item EXCEPT ![p] = [@ EXCEPT
                        ![b] = [buy EXCEPT !.rv = IF full THEN 0 ELSE rv, !.oa = @ + amt,
                                           !.ov = IF full THEN rv ELSE @],
                        ![s] = [sell EXCEPT !.ra = IF sold THEN 0 ELSE ra, !.ov = @ + paid,
                                            !.oa = IF sold THEN ra ELSE @]]]
          /\ inPool' = [inPool EXCEPT ![p] =
                          [v |-> @.v - paid - (IF full THEN rv ELSE 0),
                           a |-> @.a - amt - (IF sold THEN ra ELSE 0)]]
    /\ UNCHANGED <<chain, block, pool, swapMap, refundMap, withdrawMap, sends>>

\* The root stands for what it hashes: the count of invocations and the
\* figures of the pool.
CompleteBlock(p) ==
    /\ phase[p] = "match" /\ ~Crossing(p)
    /\ phase' = [phase EXCEPT ![p] = "free"]
    /\ roots' = [roots EXCEPT ![p] = @ \cup {<<count[p], inPool[p]>>}]
    /\ UNCHANGED <<chain, curr, count, books, sends>>

(***************************************************************************)
(* What is owed: the gen*Info functions, at a party and up to a height.    *)
(***************************************************************************)
Deals(p, h) ==
    LET S == Open(p, UpTo(pool[p], h))
    IN {i \in S : \A j \in S : (orders[j].kind = orders[i].kind /\ (j = i \/ Before(j, i)))
                                   => Exhausted(p, j)}

Returns(p, h) ==
    {i \in Open(p, UpTo(refundMap[p], h)) :
        orders[i].kind # "refund" /\ Left(item[p][i]) # Nothing}

\* "If there is nothing to give back, set these items to processed."
Dropped(p, h) ==
    {i \in refundMap[p] : Of(Returns(p, h), Addr(i)) = {}}

Withdrawable(p, h) == {i \in Open(p, UpTo(withdrawMap[p], h)) : item[p][i].reason = "normal"}
Withdraws(p, h) ==
    LET S == Withdrawable(p, h)
    IN {i \in S : \A j \in S : orders[j].fee <= orders[i].fee}

Owed(p, stage, h) ==
    [a \in Addresses |->
       CASE stage = "deal"     -> Total(LAMBDA i : Out(item[p][i]), Of(Deals(p, h), a))
         [] stage = "refund"   -> Total(LAMBDA i : Both(item[p][i]), Of(Returns(p, h), a))
         [] stage = "withdraw" -> Total(LAMBDA i : Left(item[p][i]),
                                        {i \in Withdraws(p, h) : orders[i].dest = a})]

Chosen(p, stage, h) ==
    CASE stage = "deal"     -> Deals(p, h)
      [] stage = "refund"   -> Open(p, UpTo(refundMap[p], h))
      [] stage = "withdraw" -> Withdraws(p, h)

\* genRefundInfo writes to the books as it reads them.
GenEffect(p, stage, h) ==
    IF stage = "refund"
    THEN /\ item' = [item EXCEPT ![p] = [i \in DOMAIN @ |->
                        IF i \in Dropped(p, h)
                        THEN [@[i] EXCEPT !.reason = "invalid", !.saved = "invalid",
                                          !.done = "dealt"]
                        ELSE @[i]]]
         /\ refundMap' = [refundMap EXCEPT ![p] = @ \ Dropped(p, h)]
         /\ UNCHANGED <<pool, swapMap, withdrawMap, inPool>>
    ELSE UNCHANGED books

(***************************************************************************)
(* The record of a payment t at party p: the updateWithDealInfo functions. *)
(***************************************************************************)
\* deal: in the order of the pool, as long as the payment lasts.
Covered(p, t) ==
    LET S      == UpTo(pool[p], t.height)
        bs(i)  == {j \in Buys(S) : j = i \/ Before(j, i)}
        ss(i)  == {j \in Sells(S) : j = i \/ Before(j, i)}
        outs(X, a) == Total(LAMBDA j : Out(item[p][j]), Of(X, a))
        ok(X, j)   == Exhausted(p, j) /\ t.pays[Addr(j)] # Nothing
        bought == {i \in Buys(S) : \A j \in bs(i) :
                     /\ ok(S, j)
                     /\ outs(bs(j), Addr(j)).a <= t.pays[Addr(j)].a}
        sold   == {i \in Sells(S) : \A j \in ss(i) :
                     /\ ok(S, j)
                     /\ outs(bought, Addr(j)).v + outs(ss(j), Addr(j)).v
                          <= t.pays[Addr(j)].v}
    IN bought \cup sold

RecordDeal(p, t) ==
    LET S == Covered(p, t)
    IN /\ item' = [item EXCEPT ![p] = [i \in DOMAIN @ |->
                      IF i \in S THEN [@[i] EXCEPT !.done = "dealt", !.saved = item[p][i].reason]
                      ELSE @[i]]]
       /\ pool' = [pool EXCEPT ![p] = @ \ S]
       /\ swapMap' = [swapMap EXCEPT ![p] = @ \ S]
       /\ UNCHANGED <<refundMap, withdrawMap, inPool>>

\* Mutant: what remains is not cleared.
RefundedKept(x) == [x EXCEPT !.done = "refunded", !.ov = @ + x.rv, !.oa = @ + x.ra]
Refunded(x)     == [x EXCEPT !.done = "refunded", !.ov = @ + x.rv, !.oa = @ + x.ra,
                             !.rv = 0, !.ra = 0]

\* refund: every item of a paid address up to the height; the items of the
\* other addresses up to the height leave the map with them.
RecordRefund(p, t) ==
    LET S == {i \in UpTo(refundMap[p], t.height) : t.pays[Addr(i)] # Nothing}
        closed(i, x) == IF x.done # "init" THEN x
                        ELSE IF orders[i].kind = "refund" THEN [x EXCEPT !.done = "dealt"]
                        ELSE Refunded(x)
    IN /\ item' = [item EXCEPT ![p] = [i \in DOMAIN @ |->
                      IF i \in S THEN [closed(i, @[i]) EXCEPT !.saved = item[p][i].reason]
                      ELSE @[i]]]
       /\ refundMap' = [refundMap EXCEPT ![p] = @ \ UpTo(@, t.height)]
       /\ UNCHANGED <<pool, swapMap, withdrawMap, inPool>>

\* withdraw: by the paid address; if it asked for no withdrawal itself, by
\* the target.  Mutant: up to the height, whoever was paid.
PaidWithdrawsAll(p, t) == UpTo(withdrawMap[p], t.height)
PaidWithdraws(p, t) ==
    LET paid   == {a \in Addresses : t.pays[a] # Nothing}
        askers == {Addr(i) : i \in withdrawMap[p]}
    IN {i \in UpTo(withdrawMap[p], t.height) :
          \/ Addr(i) \in paid
          \/ orders[i].dest \in paid \ askers /\ item[p][i].done = "init"}

RecordWithdraw(p, t) ==
    LET S == PaidWithdraws(p, t)
    IN /\ item' = [item EXCEPT ![p] = [i \in DOMAIN @ |->
                      IF i \in S
                      THEN LET x == item[p][i]
                           IN [x EXCEPT !.done = "dealt", !.saved = x.reason,
                                        !.ov = x.rv, !.oa = x.ra, !.rv = 0, !.ra = 0]
                      ELSE @[i]]]
       /\ withdrawMap' = [withdrawMap EXCEPT ![p] = @ \ S]
       /\ UNCHANGED <<pool, swapMap, refundMap, inPool>>

Record(p, t) ==
    CASE t.stage = "deal"     -> RecordDeal(p, t)
      [] t.stage = "refund"   -> RecordRefund(p, t)
      [] t.stage = "withdraw" -> RecordWithdraw(p, t)

(***************************************************************************)
(* The sender: sendInvokeResultTx_SatsNet at the initiator.  isSending is  *)
(* a plain field, read in one step and set in the next.                    *)
(***************************************************************************)
Put(t, pc, deal) == sender' = [sender EXCEPT ![t] = [pc |-> pc, deal |-> deal, tx |-> 0]]
Turn(t, stage)   == Put(t, "gen", [NoDeal EXCEPT !.stage = stage])

Enter(t) ==
    /\ sender[t].pc = "away" /\ Idle /\ curr[Initiator] > 0
    /\ ~isSending
    /\ Put(t, "entered", NoDeal)
    /\ UNCHANGED <<chain, block, books, txs, signing, results, isSending, past>>

Begin(t) ==
    /\ sender[t].pc = "entered" /\ Idle
    /\ isSending' = TRUE
    /\ Turn(t, "deal")
    /\ UNCHANGED <<chain, block, books, txs, signing, results, past>>

After(stage) == IF stage = "deal" THEN "refund" ELSE "withdraw"

\* Mutant: the last stage leaves the flag when it fails.
NextStageStuck(t, failed) ==
    LET stage == sender[t].deal.stage
    IN IF stage = "withdraw"
       THEN Put(t, "away", NoDeal) /\ isSending' = (isSending /\ failed)
       ELSE /\ Turn(t, After(stage))
            /\ isSending' = (isSending /\ ~(failed /\ stage = "deal"))

\* A stage is over.  deal() clears the flag when its send fails, although the
\* other stages are still to come.
NextStage(t, failed) ==
    LET stage == sender[t].deal.stage
    IN IF stage = "withdraw"
       THEN Put(t, "away", NoDeal) /\ isSending' = FALSE
       ELSE /\ Turn(t, After(stage))
            /\ isSending' = (isSending /\ ~(failed /\ stage = "deal"))

\* CurrBlock is read first, then the books.
Gen(t) ==
    /\ sender[t].pc = "gen" /\ Idle
    /\ LET stage == sender[t].deal.stage
           h     == curr[Initiator]
           deal  == [stage |-> stage, pays |-> Owed(Initiator, stage, h),
                     height |-> Top(Chosen(Initiator, stage, h)),
                     root |-> <<count[Initiator], inPool[Initiator]>>]
       IN /\ GenEffect(Initiator, stage, h)
          /\ IF deal.pays = NoPay THEN NextStage(t, FALSE)
             ELSE Put(t, "send", deal) /\ UNCHANGED isSending
    /\ UNCHANGED <<chain, block, txs, signing, results, past>>

\* AllowPeerAction: the peer knows the root, and owes each address exactly
\* what it gets.
\* Mutant: the peer compares nothing.
AllowsAny(d) == TRUE
Allows(d) ==
    LET owed == Owed(Peer, d.stage, d.height)
    IN \A a \in Addresses : d.pays[a] # Nothing => owed[a] = d.pays[a]

\* The peer serves one request at a time, and broadcasts what it signs.
Sign(t) ==
    /\ sender[t].pc = "send" /\ Idle /\ signing = 0
    /\ sender[t].deal.root \in roots[Peer] /\ Allows(sender[t].deal)
    /\ txs' = Append(txs, [stage |-> sender[t].deal.stage, pays |-> sender[t].deal.pays,
                           height |-> sender[t].deal.height])
    /\ signing' = Len(txs')
    /\ sender' = [sender EXCEPT ![t].pc = "signed", ![t].tx = Len(txs')]
    /\ GenEffect(Peer, sender[t].deal.stage, sender[t].deal.height)
    /\ UNCHANGED <<chain, block, results, isSending, past>>

Refuse(t) ==
    /\ sender[t].pc = "send" /\ Idle /\ signing = 0
    /\ LET d == sender[t].deal
       IN IF d.root \in roots[Peer]
          THEN ~Allows(d) /\ GenEffect(Peer, d.stage, d.height)
          ELSE UNCHANGED books
    /\ NextStage(t, TRUE)
    /\ UNCHANGED <<chain, block, txs, signing, results, past>>

\* SetPeerActionResult: a block may have come since the peer agreed.
PeerRecord ==
    /\ signing # 0 /\ Idle
    /\ Record(Peer, txs[signing])
    /\ results' = [results EXCEPT ![Peer] = @ \cup {signing}]
    /\ signing' = 0
    /\ UNCHANGED <<chain, block, txs, isSending, sender, past>>

\* The answer arrives and the result is saved; then the books are brought up
\* to date.  withdraw() starts over, the others are done.
Answer(t) ==
    /\ sender[t].pc = "signed" /\ Idle
    /\ results' = [results EXCEPT ![Initiator] = @ \cup {sender[t].tx}]
    /\ sender' = [sender EXCEPT ![t].pc = "record"]
    /\ UNCHANGED <<chain, block, books, txs, signing, isSending, past>>

RecordOwn(t) ==
    /\ sender[t].pc = "record" /\ Idle
    /\ Record(Initiator, txs[sender[t].tx])
    /\ IF sender[t].deal.stage = "withdraw" THEN Turn(t, "withdraw") /\ UNCHANGED isSending
       ELSE NextStage(t, FALSE)
    /\ UNCHANGED <<chain, block, txs, signing, results, past>>

\* A result is found in a block: HandleInvokeResult_SatsNet leaves alone what
\* is saved as handled.  An answer is faster than a block, unless it is lost.
Mined(p, n) ==
    /\ Idle /\ n \in DOMAIN txs \ results[p]
    /\ n # signing /\ \A t \in Senders : sender[t].pc = "signed" => sender[t].tx # n
    /\ Record(p, txs[n])
    /\ results' = [results EXCEPT ![p] = @ \cup {n}]
    /\ UNCHANGED <<chain, block, txs, signing, isSending, sender, past>>

(***************************************************************************)
(* Faults.                                                                 *)
(***************************************************************************)
LoseAnswer(t) ==
    /\ "lost" \in Faults /\ faults < MaxFault
    /\ sender[t].pc = "signed" /\ Idle
    /\ NextStage(t, TRUE)
    /\ faults' = faults + 1
    /\ UNCHANGED <<chain, block, books, txs, signing, results, forgot>>

\* InitFromDB: the open items are put back where their saved Reason says.
Reload(p) ==
    LET was(S) == {i \in DOMAIN item[p] : item[p][i].done = "init" /\ orders[i].kind \in S}
        sound  == {i \in DOMAIN item[p] : item[p][i].saved = "normal"}
    IN /\ item' = [item EXCEPT ![p] = [i \in DOMAIN @ |-> [@[i] EXCEPT !.reason = item[p][i].saved]]]
       /\ pool' = [pool EXCEPT ![p] = was(Trades) \cap sound]
       /\ swapMap' = [swapMap EXCEPT ![p] = was(Trades) \cap sound]
       /\ withdrawMap' = [withdrawMap EXCEPT ![p] = was({"withdraw"}) \cap sound]
       /\ refundMap' = [refundMap EXCEPT ![p] = was({"refund"}) \cup (was(Kinds) \ sound)]
       /\ UNCHANGED inPool

Crash(p) ==
    /\ "crash" \in Faults /\ faults < MaxFault /\ Idle
    /\ Reload(p)
    /\ roots' = [roots EXCEPT ![p] = {<<count[p], inPool[p]>>}]
    /\ IF p = Initiator
       THEN sender' = [t \in Senders |-> Away] /\ isSending' = FALSE /\ UNCHANGED signing
       ELSE signing' = 0 /\ UNCHANGED <<sender, isSending>>
    /\ forgot' = [forgot EXCEPT ![p] = @ \cup {Addr(i) : i \in pool'[p] \ pool[p]}
                     \cup {a \in Addresses : /\ p = Peer /\ signing # 0
                                             /\ txs[signing].pays[a] # Nothing}]
    /\ faults' = faults + 1
    /\ UNCHANGED <<chain, curr, phase, count, txs, results>>

-----------------------------------------------------------------------------
Init ==
    /\ orders = << >> /\ tip = 0
    /\ curr = [p \in Parties |-> 0] /\ phase = [p \in Parties |-> "free"]
    /\ count = [p \in Parties |-> 0] /\ roots = [p \in Parties |-> {<<0, Nothing>>}]
    /\ item = [p \in Parties |-> << >>]
    /\ pool = [p \in Parties |-> {}] /\ swapMap = pool
    /\ refundMap = pool /\ withdrawMap = pool
    /\ inPool = [p \in Parties |-> Nothing]
    /\ txs = << >> /\ signing = 0 /\ results = [p \in Parties |-> {}]
    /\ isSending = FALSE /\ sender = [t \in Senders |-> Away]
    /\ forgot = pool /\ faults = 0

Block(p)  == BeginBlock(p) \/ Accept(p) \/ AcceptedAll(p) \/ MatchOrders(p) \/ CompleteBlock(p)
Send(t)   == Enter(t) \/ Begin(t) \/ Gen(t) \/ Sign(t) \/ Refuse(t) \/ Answer(t) \/ RecordOwn(t)
Results   == PeerRecord \/ \E p \in Parties, n \in DOMAIN txs : Mined(p, n)
Failures  == (\E t \in Senders : LoseAnswer(t)) \/ \E p \in Parties : Crash(p)

Next ==
    \/ \E b \in Blocks : NewBlock(b)
    \/ \E p \in Parties : Block(p)
    \/ \E t \in Senders : Send(t)
    \/ Results
    \/ Failures

Spec == Init /\ [][Next]_vars
FairSpec ==
    /\ Spec /\ WF_vars(Results)
    /\ \A p \in Parties : WF_vars(Block(p))
    /\ \A t \in Senders : WF_vars(Send(t))

-----------------------------------------------------------------------------
Placed  == [kind : Kinds, addr : Addresses, price : Nat, value : Nat, amt : Nat,
            want : Nat, fee : Nat, dest : Addresses, valid : BOOLEAN, h : Nat]
DealStages == {"none", "deal", "refund", "withdraw"}

\* The kinds of values the variables take; the books of a party speak of the
\* invocations it has accepted and of no other.  The sums of amounts are left
\* to Conserved and NeverOverpaid.
TypeOK ==
    /\ orders \in Seq(Placed)
    /\ tip \in 0 .. MaxHeight
    /\ curr \in [Parties -> 0 .. MaxHeight]
    /\ phase \in [Parties -> {"free", "accept", "match"}]
    /\ count \in [Parties -> 0 .. Len(orders)]
    /\ item \in [Parties -> Seq(Item)]
    /\ \A p \in Parties : Len(item[p]) = count[p]
    /\ \A m \in {pool, swapMap, refundMap, withdrawMap} :
          m \in [Parties -> SUBSET Nat] /\ \A p \in Parties : m[p] \subseteq 1 .. count[p]
    /\ DOMAIN inPool = Parties /\ DOMAIN roots = Parties
    /\ \A n \in DOMAIN txs : txs[n].stage \in DealStages
    /\ signing \in 0 .. Len(txs)
    /\ results \in [Parties -> SUBSET (1 .. Len(txs))]
    /\ isSending \in BOOLEAN
    /\ DOMAIN sender = Senders
    /\ \A t \in Senders :
          /\ sender[t].pc \in {"away", "entered", "gen", "send", "signed", "record"}
          /\ sender[t].deal.stage \in DealStages /\ sender[t].tx \in 0 .. Len(txs)
    /\ forgot \in [Parties -> SUBSET Addresses]
    /\ faults \in 0 .. MaxFault

(***************************************************************************)
(* Properties.                                                             *)
(***************************************************************************)
\* What the pools hold is what swapMap holds, and only orders that are neither
\* taken back nor closed: the loops of updateWithDealInfo_swap advance past no
\* order of another kind, and one of them would stop the party under its mutex.
PoolIsNormal ==
    \A p \in Parties :
        /\ pool[p] = swapMap[p]
        /\ \A i \in pool[p] : /\ item[p][i].reason = "normal" /\ item[p][i].done = "init"
                              /\ orders[i].kind \in Trades

\* What an invocation brings in: a sell brings units, the satoshis sent with
\* it stay with the contract.
Brings(o) == [v |-> IF o.kind = "sell" THEN 0 ELSE o.value, a |-> o.amt]

Plus(x, y) == [v |-> x.v + y.v, a |-> x.a + y.a]
Leq(x, y)  == x.v <= y.v /\ x.a <= y.a
Natural(x) == x.rv >= 0 /\ x.ra >= 0 /\ x.ov >= 0 /\ x.oa >= 0
Closed(p)  == {i \in DOMAIN item[p] : item[p][i].done # "init"}
Owing(p, h) ==
    Plus(Total(LAMBDA i : Out(item[p][i]), Deals(p, h)),
         Plus(Total(LAMBDA i : Both(item[p][i]), Returns(p, h)),
              Total(LAMBDA i : Left(item[p][i]), Withdraws(p, h))))

\* Matching and closing neither lose nor make a satoshi or a unit: what remains
\* and what is to be paid out add up to what came in, whatever was rounded, and
\* no amount falls below zero; so what a party owes in the three payments and
\* what it has closed never come to more than what came in.  And
\* SatsValueInPool and AssetAmtInPool, kept by adding and subtracting, are what
\* the orders in the pools still bring, so that the roots of the two parties
\* can meet.  A reload that puts an order back breaks the latter (see forgot).
Conserved ==
    \A p \in Parties :
        /\ Total(LAMBDA i : Both(item[p][i]), DOMAIN item[p])
             = Total(LAMBDA i : Brings(orders[i]), 1 .. count[p])
        /\ \A i \in DOMAIN item[p] : Natural(item[p][i])
        /\ \A h \in 0 .. MaxHeight : Leq(Plus(Owing(p, h), Total(LAMBDA i : Both(item[p][i]), Closed(p))),
                                         Total(LAMBDA i : Brings(orders[i]), 1 .. count[p]))
        /\ forgot[p] = {} => inPool[p] = Held(p, pool[p])

\* No seller gets less than his price for what was sold of his order, however
\* often it met a buyer, and whether it was then closed, taken back or reloaded.
SellerGetsPrice ==
    \A p \in Parties : \A i \in Sells(DOMAIN item[p]) :
        2 * item[p][i].ov >= orders[i].price * (orders[i].amt - item[p][i].ra - item[p][i].oa)

\* Who is paid for an item.
To(p, i) == IF orders[i].kind = "withdraw" /\ item[p][i].reason = "normal" THEN orders[i].dest
            ELSE Addr(i)
Paid(a, stages) == Total(LAMBDA n : txs[n].pays[a], {n \in DOMAIN txs : txs[n].stage \in stages})
Due(p)    == pool[p] \cup withdrawMap[p] \cup {i \in refundMap[p] : Left(item[p][i]) # Nothing}
NoLongerDue(p, a) == Total(LAMBDA i : Both(item[p][i]),
                           {i \in DOMAIN item[p] \ Due(p) : To(p, i) = a})

\* Nobody is paid twice: once the peer has recorded every payment, an address
\* has received no more than its items that are no longer due add up to,
\* whichever blocks came between the request, the signature and the records,
\* unless a crash of the peer made it forget a change that concerns the
\* address.  It depends on the invocations: updateWithDealInfo_swap records a
\* sum and not the orders it was for, and closes the wrong ones when a trader
\* buys and sells at a time (see the README).
NeverOverpaid ==
    results[Peer] = DOMAIN txs =>
        \A a \in Addresses \ forgot[Peer] : Leq(Paid(a, {"deal", "refund", "withdraw"}),
                                                NoLongerDue(Peer, a))

\* A trade or a withdrawal a party has closed as dealt was paid: the dealt
\* items of an address add up to no more than it has got.  It holds, likewise,
\* for an address that trades on one side and withdraws once.
DealtTo(p, a, S) ==
    Total(LAMBDA i : Both(item[p][i]),
          {i \in DOMAIN item[p] : /\ orders[i].kind \in S /\ To(p, i) = a
                                  /\ item[p][i].done = "dealt" /\ item[p][i].reason = "normal"})
DealtIsPaid ==
    \A p \in Parties, a \in Addresses : /\ Leq(DealtTo(p, a, Trades), Paid(a, {"deal"}))
                                        /\ Leq(DealtTo(p, a, {"withdraw"}), Paid(a, {"withdraw"}))

Debts(p) == [stage \in {"deal", "refund", "withdraw"} |-> Owed(p, stage, curr[p])]
View(p)  == <<Debts(p), count[p], inPool[p]>>

\* In the end nothing is owed any more, or the books of the two parties differ
\* for good: the sender does not stop over a refusal, a lost answer, a crash
\* or its own flag.
Settles == <>[](\/ \A stage \in DOMAIN Debts(Initiator) : Debts(Initiator)[stage] = NoPay
                \/ View(Initiator) # View(Peer))
=============================================================================
