-------------------------- MODULE SwapContractProofs --------------------------
(***************************************************************************)
(* What is proved of the order book, for any traders and orders, any       *)
(* number of overlapping senders, and with or without lost answers and     *)
(* crashes.                                                                *)
(***************************************************************************)
EXTENDS SwapContract, SequenceTheorems, FiniteSetTheorems, WellFoundedInduction, TLAPS

USE DEF block, books, chain, past, sends

-----------------------------------------------------------------------------
(* The invariant behind the types.                                         *)

Stages == {"deal", "refund", "withdraw"}

Priced == \A i \in DOMAIN orders : orders[i].kind \in Trades => orders[i].price > 0

\* A result names its stage, and who has it signed knows which it is.
TxsNamed ==
    /\ txs \in Seq({txs[n] : n \in DOMAIN txs})
    /\ \A n \in DOMAIN txs : txs[n].stage \in Stages
    /\ \A t \in Senders :
          /\ DOMAIN sender[t] = {"pc", "deal", "tx"}
          /\ sender[t].pc \in {"gen", "send", "signed", "record"}
                => sender[t].deal.stage \in Stages
          /\ sender[t].pc \in {"signed", "record"} => sender[t].tx \in DOMAIN txs

TypeInv == TypeOK /\ Priced /\ TxsNamed

\* The books of the parties, as TypeOK has them.
MapOK(m, c) == m \in [Parties -> SUBSET Nat] /\ \A p \in Parties : m[p] \subseteq 1 .. c[p]
BookTypes ==
    /\ item \in [Parties -> Seq(Item)]
    /\ count \in [Parties -> 0 .. Len(orders)]
    /\ \A p \in Parties : Len(item[p]) = count[p]
    /\ MapOK(pool, count) /\ MapOK(swapMap, count)
    /\ MapOK(refundMap, count) /\ MapOK(withdrawMap, count)
    /\ DOMAIN inPool = Parties

OtherTypes ==
    /\ orders \in Seq(Placed)
    /\ tip \in 0 .. MaxHeight
    /\ curr \in [Parties -> 0 .. MaxHeight]
    /\ phase \in [Parties -> {"free", "accept", "match"}]
    /\ DOMAIN roots = Parties
    /\ forgot \in [Parties -> SUBSET Addresses]
    /\ faults \in 0 .. MaxFault

SendTypes ==
    /\ \A n \in DOMAIN txs : txs[n].stage \in DealStages
    /\ signing \in 0 .. Len(txs)
    /\ results \in [Parties -> SUBSET (1 .. Len(txs))]
    /\ isSending \in BOOLEAN
    /\ DOMAIN sender = Senders
    /\ \A t \in Senders :
          /\ sender[t].pc \in {"away", "entered", "gen", "send", "signed", "record"}
          /\ sender[t].deal.stage \in DealStages /\ sender[t].tx \in 0 .. Len(txs)

LEMMA TypeParts == TypeOK <=> BookTypes /\ OtherTypes /\ SendTypes
BY DEF TypeOK, BookTypes, MapOK, OtherTypes, SendTypes

LEMMA FunIsSeq ==
  ASSUME NEW S, NEW n \in Nat, NEW f \in [1 .. n -> S]
  PROVE  f \in Seq(S) /\ Len(f) = n
<1>1. f \in Seq(S)
  BY SeqDef
<1>2. Len(f) \in Nat /\ DOMAIN f = 1 .. Len(f)
  BY <1>1, LenProperties
<1>3. 1 .. n = 1 .. Len(f)
  BY <1>2
<1>. QED
  BY <1>1, <1>2, <1>3

\* A map of one party replaced, and the maps when a party has an item more.
LEMMA MapWith ==
  ASSUME NEW m, NEW c, MapOK(m, c), NEW p \in Parties, c[p] \in Nat, NEW S \in SUBSET (1 .. c[p])
  PROVE  MapOK([m EXCEPT ![p] = S], c)
<1>1. S \in SUBSET Nat
  OBVIOUS
<1>. QED
  BY <1>1 DEF MapOK

LEMMA MapGrow ==
  ASSUME BookTypes, NEW p \in Parties, count' = [count EXCEPT ![p] = count[p] + 1],
         NEW m, MapOK(m, count)
  PROVE  MapOK(m, count') /\ m[p] \subseteq 1 .. count[p] + 1
<1>1. count[p] \in Nat /\ count \in [Parties -> 0 .. Len(orders)]
  BY DEF BookTypes
<1>. QED
  BY <1>1 DEF MapOK

\* The items of a party replaced by a function over the same places.
LEMMA BooksKeepType ==
  ASSUME BookTypes, NEW p \in Parties, NEW f \in [1 .. count[p] -> Item],
         item' = [item EXCEPT ![p] = f], UNCHANGED <<orders, count>>, DOMAIN inPool' = Parties,
         MapOK(pool', count), MapOK(swapMap', count),
         MapOK(refundMap', count), MapOK(withdrawMap', count)
  PROVE  BookTypes'
<1>1. count[p] \in Nat
  BY DEF BookTypes
<1>2. f \in Seq(Item) /\ Len(f) = count[p]
  BY <1>1, FunIsSeq
<1>3. item' \in [Parties -> Seq(Item)] /\ \A q \in Parties : Len(item'[q]) = count'[q]
  BY <1>2 DEF BookTypes
<1>. QED
  BY <1>3 DEF BookTypes

\* An invocation more at a party: the items it had may change with it.
LEMMA BooksGrow ==
  ASSUME BookTypes, NEW p \in Parties, NEW f \in [1 .. count[p] -> Item], NEW x \in Item,
         count[p] + 1 \in DOMAIN orders, orders \in Seq(Placed),
         count' = [count EXCEPT ![p] = count[p] + 1],
         item' = [item EXCEPT ![p] = Append(f, x)], UNCHANGED orders, DOMAIN inPool' = Parties,
         MapOK(pool', count'), MapOK(swapMap', count'),
         MapOK(refundMap', count'), MapOK(withdrawMap', count')
  PROVE  BookTypes'
<1>1. count[p] \in Nat
  BY DEF BookTypes
<1>2. f \in Seq(Item) /\ Len(f) = count[p]
  BY <1>1, FunIsSeq
<1>3. Append(f, x) \in Seq(Item) /\ Len(Append(f, x)) = count[p] + 1
  BY <1>2, AppendProperties
<1>4. item' \in [Parties -> Seq(Item)] /\ \A q \in Parties : Len(item'[q]) = count'[q]
  BY <1>3 DEF BookTypes
<1>5. count' \in [Parties -> 0 .. Len(orders)]
  BY <1>1, LenProperties DEF BookTypes
<1>. QED
  BY <1>4, <1>5 DEF BookTypes

-----------------------------------------------------------------------------
(* The best order of a pool: there is one in every pool that is not empty. *)

LEMMA NatHasLeast ==
  ASSUME NEW T \in SUBSET Nat, T # {}
  PROVE  \E k \in T : \A n \in T : k <= n
<1> DEFINE R == OpToRel(<, Nat)
<1>1. IsWellFoundedOn(R, Nat)
  BY NatLessThanWellFounded
<1>2. PICK k \in T : \A n \in T : <<n, k>> \notin R
  <2> HIDE DEF R
  <2>. QED  BY <1>1, WFMin
<1>3. \A n \in T : n < k => <<n, k>> \in R
  BY DEF OpToRel
<1> HIDE DEF R
<1>4. \A n \in T : ~(n < k)
  BY <1>2, <1>3
<1>5. \A n \in T : n \in Nat /\ k \in Nat
  OBVIOUS
<1>. QED
  BY <1>4, <1>5

\* Orders of one kind are totally ordered.
OneKind(S) == \E kind \in Trades : \A i \in S : orders[i].kind = kind

LEMMA BeforeOrders ==
  ASSUME orders \in Seq(Placed), NEW S \in SUBSET DOMAIN orders, OneKind(S),
         NEW i \in S, NEW j \in S, NEW k \in S
  PROVE  /\ i # j => Before(i, j) \/ Before(j, i)
         /\ Before(i, j) /\ Before(j, k) => Before(i, k)
<1>1. DOMAIN orders \subseteq Nat
  BY LenProperties
<1>2. \A x \in S : orders[x] \in Placed
  BY ElementOfSeq, LenProperties
<1>3. \A x \in S : orders[x].price \in Nat /\ x \in Nat
  BY <1>1, <1>2 DEF Placed
<1>4. PICK kind \in Trades : \A x \in S : orders[x].kind = kind
  BY DEF OneKind
<1>. QED
  BY <1>3, <1>4 DEF Before, Trades

HasFirst(S) == \E i \in S : \A j \in S \ {i} : Before(i, j)

LEMMA FirstIsIn ==
  ASSUME orders \in Seq(Placed), NEW S \in SUBSET DOMAIN orders, OneKind(S), S # {}
  PROVE  First(S) \in S
<1>1. Len(orders) \in Nat /\ DOMAIN orders = 1 .. Len(orders)
  BY LenProperties
<1> DEFINE T == {k \in Nat : S \cap (1 .. k) # {} /\ ~HasFirst(S \cap (1 .. k))}
<1>2. HasFirst(S)
  <2>1. SUFFICES ASSUME ~HasFirst(S) PROVE FALSE
    OBVIOUS
  <2>2. S \cap (1 .. Len(orders)) = S
    BY <1>1
  <2>3. Len(orders) \in T
    BY <1>1, <2>1, <2>2
  <2>4. PICK k \in T : \A n \in T : k <= n
    BY <2>3, NatHasLeast
  <2> DEFINE old == S \cap (1 .. k - 1)
  <2>5. k \in Nat \ {0} /\ k - 1 \in Nat /\ k - 1 \notin T
    BY <2>4
  <2>6. S \cap (1 .. k) = IF k \in S THEN old \cup {k} ELSE old
    BY <2>5, <1>1
  <2>7. ~HasFirst(S \cap (1 .. k)) /\ S \cap (1 .. k) # {}
    BY <2>4
  <2>8. old = {} \/ HasFirst(old)
    BY <2>5
  <2>9. k \in S /\ k \notin old
    BY <2>5, <2>6, <2>7, <2>8
  <2>10. CASE old = {}
    BY <2>6, <2>7, <2>9, <2>10 DEF HasFirst
  <2>11. CASE HasFirst(old)
    <3>1. PICK m \in old : \A j \in old \ {m} : Before(m, j)
      BY <2>11 DEF HasFirst
    <3>2. m \in S /\ m # k
      BY <3>1, <2>9
    <3>3. CASE Before(m, k)
      BY <2>6, <2>7, <2>9, <3>1, <3>3 DEF HasFirst
    <3>4. CASE Before(k, m)
      <4>1. \A j \in old : Before(k, j)
        BY <2>9, <3>1, <3>2, <3>4, BeforeOrders
      <4>. QED
        BY <2>6, <2>7, <2>9, <4>1 DEF HasFirst
    <3>. QED
      BY <2>9, <3>2, <3>3, <3>4, BeforeOrders
  <2>. QED
    BY <2>8, <2>10, <2>11
<1>. QED
  BY <1>2 DEF HasFirst, First

-----------------------------------------------------------------------------
(* What the operations do to the books.                                    *)

LEMMA BookFacts ==
  ASSUME TypeInv, NEW p \in Parties
  PROVE  /\ orders \in Seq(Placed) /\ DOMAIN orders = 1 .. Len(orders) /\ Len(orders) \in Nat
         /\ count[p] \in Nat /\ 1 .. count[p] \subseteq DOMAIN orders
         /\ item[p] \in [1 .. count[p] -> Item]
         /\ pool[p] \subseteq 1 .. count[p] /\ swapMap[p] \subseteq 1 .. count[p]
         /\ refundMap[p] \subseteq 1 .. count[p] /\ withdrawMap[p] \subseteq 1 .. count[p]
         /\ \A i \in DOMAIN orders : orders[i] \in Placed
<1>1. orders \in Seq(Placed)
  BY TypeParts DEF TypeInv, OtherTypes
<1>2. DOMAIN orders = 1 .. Len(orders) /\ Len(orders) \in Nat /\ orders \in [1 .. Len(orders) -> Placed]
  BY <1>1, LenProperties
<1>3. count[p] \in 0 .. Len(orders) /\ item[p] \in Seq(Item) /\ Len(item[p]) = count[p]
  BY TypeParts DEF TypeInv, BookTypes
<1>4. item[p] \in [1 .. count[p] -> Item]
  BY <1>3, LenProperties
<1>. QED
  BY <1>1, <1>2, <1>3, <1>4, TypeParts DEF TypeInv, BookTypes, MapOK

LEMMA FreshType ==
  ASSUME NEW o \in Placed
  PROVE  /\ Fresh(o) \in Item /\ Fresh(o).done = "init" /\ Fresh(o).ov = 0 /\ Fresh(o).oa = 0
         /\ Fresh(o).ra = o.amt
         /\ o.kind = "sell" => Fresh(o).rv = 0
         /\ o.valid => Fresh(o).reason = "normal"
         /\ [Fresh(o) EXCEPT !.reason = "invalid", !.saved = "invalid", !.done = "dealt"] \in Item
<1>1. o.value \in Nat /\ o.amt \in Nat /\ o.valid \in BOOLEAN
  BY DEF Placed
<1>2. PICK r \in {"normal", "invalid"} : r = IF o.valid THEN "normal" ELSE "invalid"
  BY <1>1
<1>3. PICK v \in Int : v = IF o.kind = "sell" THEN 0 ELSE o.value
  BY <1>1
<1>4. Fresh(o) = [reason |-> r, saved |-> r, done |-> "init",
                  rv |-> v, ra |-> o.amt, ov |-> 0, oa |-> 0]
  BY <1>2, <1>3 DEF Fresh
<1>5. o.valid => Fresh(o).reason = "normal"
  BY <1>2, <1>4
<1>6. o.kind = "sell" => Fresh(o).rv = 0
  BY <1>3, <1>4
<1>7. Fresh(o) \in Item
  BY <1>1, <1>4 DEF Item, Reasons, Dones
<1>8. [Fresh(o) EXCEPT !.reason = "invalid", !.saved = "invalid", !.done = "dealt"] \in Item
  BY <1>7 DEF Item, Reasons, Dones
<1>. QED
  BY <1>4, <1>5, <1>6, <1>7, <1>8

LEMMA DivideType ==
  ASSUME NEW m \in Int, NEW n \in Nat, n > 0
  PROVE  m \div n \in Int
OBVIOUS

\* A seller keeps his price, whatever the buyer pays for.
SoldAt(x, y, price, amt) ==
    /\ y.rv = x.rv /\ y.ov = x.ov + Ceil2(amt * price)
    /\ \/ y.ra = x.ra - amt /\ y.oa = x.oa
       \/ y.ra = 0 /\ y.oa = x.ra - amt

\* The buyer pays, and what he does not spend (rest) is set aside when he is
\* done; so is what the seller does not sell (over).
BoughtAt(x, y, paid, amt, rest) ==
    /\ y.ra = x.ra /\ y.oa = x.oa + amt /\ y.rv = x.rv - paid - rest
    /\ (rest = 0 /\ y.ov = x.ov) \/ (y.rv = 0 /\ y.ov = rest)
SoldOver(x, y, amt, over) ==
    /\ y.ra = x.ra - amt - over
    /\ (over = 0 /\ y.oa = x.oa) \/ (y.ra = 0 /\ y.oa = over)

SameState(x, y) == y.reason = x.reason /\ y.saved = x.saved /\ y.done = x.done

LEMMA MatchFrame ==
  ASSUME NEW p, MatchOrders(p)
  PROVE  UNCHANGED <<orders, tip, curr, phase, count, roots, pool, swapMap, refundMap, withdrawMap,
                     txs, signing, results, isSending, sender, forgot, faults>>
<1>1. UNCHANGED <<chain, block, pool, swapMap, refundMap, withdrawMap, sends>>
  BY Zenon DEF MatchOrders
<1>. QED
  BY <1>1 DEF chain, block, sends, past

\* The best buyer and the best seller are in the pool.
LEMMA BestOrders ==
  ASSUME TypeInv, NEW p \in Parties, MatchOrders(p)
  PROVE  First(Buys(Live(p))) \in Buys(Live(p)) /\ First(Sells(Live(p))) \in Sells(Live(p))
<1>1. Live(p) \subseteq DOMAIN orders /\ orders \in Seq(Placed)
  BY BookFacts DEF Live
<1>2. Crossing(p)
  BY Zenon DEF MatchOrders
<1>3. /\ Buys(Live(p)) \in SUBSET DOMAIN orders /\ Buys(Live(p)) # {}
      /\ Sells(Live(p)) \in SUBSET DOMAIN orders /\ Sells(Live(p)) # {}
  BY <1>1, <1>2 DEF Buys, Sells, Crossing
<1>4. OneKind(Buys(Live(p))) /\ OneKind(Sells(Live(p)))
  BY DEF OneKind, Buys, Sells, Trades
<1>. QED
  BY <1>1, <1>3, <1>4, FirstIsIn

LEMMA MatchEffect ==
  ASSUME TypeInv, NEW p \in Parties, MatchOrders(p)
  PROVE  \E b \in Buys(Live(p)), s \in Sells(Live(p)), xb \in Item, xs \in Item,
            amt \in Int, rest \in Int, over \in Int :
            /\ item' = [item EXCEPT ![p] = [@ EXCEPT ![b] = xb, ![s] = xs]]
            /\ SameState(item[p][b], xb) /\ SameState(item[p][s], xs)
            /\ SoldAt(item[p][s], xs, orders[s].price, amt) /\ SoldOver(item[p][s], xs, amt, over)
            /\ Ceil2(amt * orders[s].price) \in Int
            /\ BoughtAt(item[p][b], xb, Ceil2(amt * orders[s].price), amt, rest)
            /\ inPool' = [inPool EXCEPT ![p] =
                            [v |-> inPool[p].v - Ceil2(amt * orders[s].price) - rest,
                             a |-> inPool[p].a - amt - over]]
<1> DEFINE b     == First(Buys(Live(p)))
           s     == First(Sells(Live(p)))
           buy   == item[p][b]
           sell  == item[p][s]
           price == orders[s].price
           want  == orders[b].want
           short == buy.rv <= Floor2(sell.ra * price)
           most  == IF short THEN (buy.rv * 2) \div price ELSE sell.ra
           cap   == want # 0 /\ want < buy.oa + most
           amt   == IF cap THEN want - buy.oa ELSE most
           paid  == Ceil2(amt * price)
           rv    == buy.rv - paid
           ra    == sell.ra - amt
           full  == \/ short \/ cap \/ (rv * 2) \div price = 0
                    \/ want = buy.oa + amt
           sold  == (~short /\ ~cap) \/ Floor2(ra * price) = 0
<1>1. Live(p) \subseteq 1 .. count[p] /\ Live(p) \subseteq DOMAIN orders
  BY BookFacts DEF Live
<1>2. b \in Buys(Live(p)) /\ s \in Sells(Live(p))
  BY BestOrders
<1>3. /\ b \in 1 .. count[p] /\ s \in 1 .. count[p] /\ b # s
      /\ orders[b] \in Placed /\ orders[s] \in Placed /\ orders[s].price > 0
      /\ buy \in Item /\ sell \in Item
  BY <1>1, <1>2, BookFacts DEF Buys, Sells, TypeInv, Priced, Trades
<1> DEFINE yb == [buy EXCEPT !.rv = IF full THEN 0 ELSE rv, !.oa = buy.oa + amt,
                             !.ov = IF full THEN rv ELSE buy.ov]
           ys == [sell EXCEPT !.ra = IF sold THEN 0 ELSE ra, !.ov = sell.ov + paid,
                              !.oa = IF sold THEN ra ELSE sell.oa]
<1>4. item' = [item EXCEPT ![p] = [@ EXCEPT ![b] = yb, ![s] = ys]]
  BY Zenon DEF MatchOrders
<1>5. /\ buy.rv \in Int /\ buy.ra \in Int /\ buy.ov \in Int /\ buy.oa \in Int
      /\ sell.rv \in Int /\ sell.ra \in Int /\ sell.ov \in Int /\ sell.oa \in Int
      /\ price \in Nat /\ want \in Nat
  BY <1>3 DEF Item, Placed
<1> HIDE DEF b, s
<1>6. most \in Int /\ amt \in Int
  BY <1>3, <1>5, DivideType
<1>7. paid \in Int
  <2> HIDE DEF amt, price
  <2>1. amt * price \in Int
    BY <1>5, <1>6
  <2>. QED
    BY <2>1, DivideType DEF Ceil2
<1>8. rv \in Int /\ ra \in Int
  <2> HIDE DEF amt, paid
  <2>. QED
    BY <1>5, <1>6, <1>7
<1>9. PICK brv \in Int, bov \in Int, boa \in Int :
         /\ brv = IF full THEN 0 ELSE rv
         /\ bov = IF full THEN rv ELSE buy.ov
         /\ boa = buy.oa + amt
  <2> HIDE DEF full, rv, amt
  <2>. QED
    BY <1>5, <1>6, <1>8
<1>10. PICK sra \in Int, sov \in Int, soa \in Int :
         /\ sra = IF sold THEN 0 ELSE ra
         /\ sov = sell.ov + paid
         /\ soa = IF sold THEN ra ELSE sell.oa
  <2> HIDE DEF sold, ra, paid
  <2>. QED
    BY <1>5, <1>7, <1>8
<1>14. PICK rest \in Int, over \in Int :
         /\ rest = IF full THEN rv ELSE 0
         /\ over = IF sold THEN ra ELSE 0
  <2> HIDE DEF full, sold, rv, ra
  <2>. QED
    BY <1>8
<1>15. inPool' = [inPool EXCEPT ![p] = [v |-> inPool[p].v - paid - rest,
                                        a |-> inPool[p].a - amt - over]]
  <2>1. inPool' = [inPool EXCEPT ![p] =
                     [v |-> inPool[p].v - paid - (IF full THEN rv ELSE 0),
                      a |-> inPool[p].a - amt - (IF sold THEN ra ELSE 0)]]
    BY Zenon DEF MatchOrders, b, s
  <2> HIDE DEF full, sold, rv, ra, paid, amt
  <2>. QED
    BY <1>14, <2>1
<1> DEFINE xb == [buy EXCEPT !.rv = brv, !.oa = boa, !.ov = bov]
           xs == [sell EXCEPT !.ra = sra, !.ov = sov, !.oa = soa]
<1>11. yb = xb /\ ys = xs
  <2> HIDE DEF full, sold, rv, ra, amt, paid
  <2>. QED
    BY <1>9, <1>10
<1>12. xb \in Item /\ SameState(buy, xb)
  <2>1. PICK x \in Item : x = buy
    BY <1>3
  <2>2. PICK y : y = [x EXCEPT !.rv = brv, !.oa = boa, !.ov = bov]
    OBVIOUS
  <2>3. y \in Item /\ SameState(x, y)
    BY <2>2 DEF Item, SameState
  <2> HIDE DEF buy
  <2>. QED
    BY <2>1, <2>2, <2>3
<1>13. xs \in Item /\ SameState(sell, xs) /\ SoldAt(sell, xs, price, amt)
  <2>1. xs \in Item /\ SameState(sell, xs) /\ xs.rv = sell.rv
        /\ xs.ra = sra /\ xs.ov = sov /\ xs.oa = soa
    <3>1. PICK x \in Item : x = sell
      BY <1>3
    <3>2. PICK y : y = [x EXCEPT !.ra = sra, !.ov = sov, !.oa = soa]
      OBVIOUS
    <3>3. y \in Item /\ SameState(x, y)
      BY <3>2 DEF Item, SameState
    <3>4. y.rv = x.rv /\ y.ra = sra /\ y.ov = sov /\ y.oa = soa
      BY <3>2 DEF Item
    <3> HIDE DEF sell
    <3>. QED
      BY <3>1, <3>2, <3>3, <3>4
  <2>2. (sra = ra /\ soa = sell.oa) \/ (sra = 0 /\ soa = ra)
    <3> HIDE DEF sold, ra
    <3>. QED
      BY <1>10
  <2>. QED
    BY <1>10, <2>1, <2>2 DEF SoldAt
<1>16. BoughtAt(buy, xb, paid, amt, rest)
  <2>1. xb.ra = buy.ra /\ xb.rv = brv /\ xb.oa = boa /\ xb.ov = bov
    BY <1>3, <1>9 DEF Item
  <2>2. \/ rest = 0 /\ brv = buy.rv - paid /\ bov = buy.ov
        \/ rest = buy.rv - paid /\ brv = 0 /\ bov = rest
    <3>1. (rest = 0 /\ brv = rv /\ bov = buy.ov) \/ (rest = rv /\ brv = 0 /\ bov = rv)
      <4> HIDE DEF full, rv, paid
      <4>. QED
        BY <1>9, <1>14
    <3>2. rv = buy.rv - paid
      OBVIOUS
    <3> HIDE DEF rv, paid
    <3>. QED
      BY <3>1, <3>2
  <2> HIDE DEF xb, paid, amt
  <2>. QED
    BY <1>5, <1>7, <1>9, <2>1, <2>2 DEF BoughtAt
<1>17. SoldOver(sell, xs, amt, over)
  <2>1. xs.ra = sra /\ xs.oa = soa
    BY <1>3, <1>10 DEF Item
  <2>2. \/ over = 0 /\ sra = sell.ra - amt /\ soa = sell.oa
        \/ over = sell.ra - amt /\ sra = 0 /\ soa = over
    <3>1. (over = 0 /\ sra = ra /\ soa = sell.oa) \/ (over = ra /\ sra = 0 /\ soa = ra)
      <4> HIDE DEF sold, ra, amt
      <4>. QED
        BY <1>10, <1>14
    <3>2. ra = sell.ra - amt
      OBVIOUS
    <3> HIDE DEF ra, amt
    <3>. QED
      BY <3>1, <3>2
  <2> HIDE DEF xs, amt
  <2>. QED
    BY <1>5, <1>6, <2>1, <2>2 DEF SoldOver
<1>. QED
  <2> HIDE DEF xb, xs, yb, ys, amt
  <2>. QED
    BY <1>2, <1>4, <1>6, <1>7, <1>11, <1>12, <1>13, <1>15, <1>16, <1>17

-----------------------------------------------------------------------------
(* Type correctness of the steps that change the books.                    *)

LEMMA DoneWith ==
  ASSUME NEW x \in Item, NEW d \in Dones
  PROVE  [x EXCEPT !.done = d] \in Item
BY DEF Item

LEMMA SavedWith ==
  ASSUME NEW x \in Item, NEW s \in Reasons
  PROVE  [x EXCEPT !.saved = s] \in Item
BY DEF Item

LEMMA LeftWith ==
  ASSUME NEW x \in Item, NEW v \in Int, NEW a \in Int
  PROVE  [x EXCEPT !.rv = v, !.ra = a] \in Item
BY DEF Item

LEMMA AmountsWith ==
  ASSUME NEW x \in Item, NEW w \in Int, NEW b \in Int
  PROVE  [x EXCEPT !.ov = w, !.oa = b, !.rv = 0, !.ra = 0] \in Item
<1> DEFINE y == [x EXCEPT !.ov = w, !.oa = b]
<1>1. y \in Item
  BY DEF Item
<1> HIDE DEF y
<1>2. PICK z \in Int : z = 0
  OBVIOUS
<1>3. [y EXCEPT !.rv = z, !.ra = z] \in Item
  BY <1>1, LeftWith
<1>. QED
  BY <1>2, <1>3 DEF y

LEMMA ItemChanges ==
  ASSUME NEW x \in Item
  PROVE  /\ [x EXCEPT !.done = "dealt"] \in Item
         /\ [x EXCEPT !.done = "dealt", !.saved = x.reason] \in Item
         /\ [x EXCEPT !.done = "dealt", !.saved = x.reason,
                      !.ov = x.rv, !.oa = x.ra, !.rv = 0, !.ra = 0] \in Item
         /\ [x EXCEPT !.reason = "invalid", !.saved = "invalid", !.done = "dealt"] \in Item
         /\ Refunded(x) \in Item
<1>1. /\ x.reason \in Reasons /\ x.saved \in Reasons /\ "invalid" \in Reasons
      /\ "dealt" \in Dones /\ "refunded" \in Dones
      /\ x.rv \in Int /\ x.ra \in Int /\ x.ov \in Int /\ x.oa \in Int
  BY DEF Item, Dones, Reasons
<1>2. x.ov + x.rv \in Int /\ x.oa + x.ra \in Int
  BY <1>1
<1>3. /\ [x EXCEPT !.done = "dealt"] \in Item
      /\ [x EXCEPT !.done = "dealt", !.saved = x.reason] \in Item
      /\ [x EXCEPT !.done = "refunded"] \in Item
  <2>1. [x EXCEPT !.done = "dealt"] \in Item /\ [x EXCEPT !.done = "refunded"] \in Item
    BY <1>1, DoneWith
  <2> DEFINE y == [x EXCEPT !.done = "dealt"]
  <2>2. [y EXCEPT !.saved = x.reason] \in Item
    BY <1>1, <2>1, SavedWith
  <2>. QED
    BY <2>1, <2>2
<1>6. [x EXCEPT !.reason = "invalid", !.saved = "invalid", !.done = "dealt"] \in Item
  BY <1>1 DEF Item
<1>4. [x EXCEPT !.done = "dealt", !.saved = x.reason,
                !.ov = x.rv, !.oa = x.ra, !.rv = 0, !.ra = 0] \in Item
  <2> DEFINE y == [x EXCEPT !.done = "dealt", !.saved = x.reason]
  <2>1. [y EXCEPT !.ov = x.rv, !.oa = x.ra, !.rv = 0, !.ra = 0] \in Item
    BY <1>1, <1>3, AmountsWith
  <2>. QED
    BY <2>1
<1>5. Refunded(x) \in Item
  <2> DEFINE y == [x EXCEPT !.done = "refunded"]
  <2>1. [y EXCEPT !.ov = x.ov + x.rv, !.oa = x.oa + x.ra, !.rv = 0, !.ra = 0] \in Item
    BY <1>1, <1>2, <1>3, AmountsWith
  <2>. QED
    BY <2>1 DEF Refunded
<1>. QED
  BY <1>3, <1>4, <1>5, <1>6

LEMMA AcceptTypes ==
  ASSUME TypeInv, NEW p \in Parties, Accept(p)
  PROVE  BookTypes'
<1> DEFINE i == count[p] + 1
           o == orders[i]
<1>1. i \in DOMAIN orders /\ o \in Placed
  BY BookFacts DEF Accept
<1>2. BookTypes /\ count' = [count EXCEPT ![p] = count[p] + 1] /\ UNCHANGED orders
  BY TypeParts DEF Accept, Accepted, TypeInv
<1>3. item[p] \in [1 .. count[p] -> Item] /\ Fresh(o) \in Item
      /\ [Fresh(o) EXCEPT !.reason = "invalid", !.saved = "invalid", !.done = "dealt"] \in Item
  BY <1>1, BookFacts, FreshType
<1>4. /\ count[p] \in Nat /\ count'[p] = count[p] + 1 /\ i \in 1 .. count[p] + 1
      /\ DOMAIN inPool = Parties /\ orders \in Seq(Placed)
  BY <1>2, BookFacts DEF BookTypes
<1>5. ASSUME NEW m \in {pool, swapMap, refundMap, withdrawMap}
      PROVE  /\ MapOK(m, count') /\ m[p] \subseteq 1 .. count[p] + 1
             /\ \A S \in SUBSET (1 .. count[p] + 1) : MapOK([m EXCEPT ![p] = S], count')
  <2>1. MapOK(m, count)
    BY <1>2 DEF BookTypes
  <2>2. MapOK(m, count') /\ m[p] \subseteq 1 .. count[p] + 1
    BY <1>2, <2>1, MapGrow
  <2>3. count'[p] \in Nat
    BY <1>4
  <2>. QED
    BY <1>4, <2>2, <2>3, MapWith
<1>6. \A m \in {pool, swapMap, refundMap, withdrawMap} : MapOK([m EXCEPT ![p] = @ \cup {i}], count')
  <2>1. \A m \in {pool, swapMap, refundMap, withdrawMap} : m[p] \cup {i} \in SUBSET (1 .. count[p] + 1)
    BY <1>4, <1>5
  <2>. QED
    BY <1>5, <2>1
<1> HIDE DEF o, i
<1>7. CASE AcceptTrade(p, i, o)
  <2>1. item' = [item EXCEPT ![p] = Append(item[p], Fresh(o))]
    BY <1>7 DEF AcceptTrade
  <2>2. /\ MapOK(pool', count') /\ MapOK(swapMap', count') /\ MapOK(refundMap', count')
        /\ MapOK(withdrawMap', count') /\ DOMAIN inPool' = Parties
    <3>1. CASE o.valid
      BY <1>4, <1>5, <1>6, <1>7, <3>1 DEF AcceptTrade
    <3>2. CASE ~o.valid
      BY <1>4, <1>5, <1>6, <1>7, <3>2 DEF AcceptTrade
    <3>. QED
      BY <3>1, <3>2
  <2>. QED
    BY <1>1, <1>2, <1>3, <1>4, <2>1, <2>2, BooksGrow DEF i
<1>8. CASE AcceptWithdraw(p, i, o)
  <2>1. item' = [item EXCEPT ![p] = Append(item[p], Fresh(o))]
    BY <1>8 DEF AcceptWithdraw
  <2>2. /\ MapOK(pool', count') /\ MapOK(swapMap', count') /\ MapOK(refundMap', count')
        /\ MapOK(withdrawMap', count') /\ DOMAIN inPool' = Parties
    <3>1. CASE o.valid
      BY <1>4, <1>5, <1>6, <1>8, <3>1 DEF AcceptWithdraw
    <3>2. CASE ~o.valid
      BY <1>4, <1>5, <1>6, <1>8, <3>2 DEF AcceptWithdraw
    <3>. QED
      BY <3>1, <3>2
  <2>. QED
    BY <1>1, <1>2, <1>3, <1>4, <2>1, <2>2, BooksGrow DEF i
<1>9. CASE AcceptRefund(p, i, o)
  <2> DEFINE mine == Of(swapMap[p], o.addr)
             back == {j \in Open(p, mine) : item[p][j].reason = "normal"}
             f    == [j \in DOMAIN item[p] |->
                         IF j \in back THEN [item[p][j] EXCEPT !.reason = "refund"]
                         ELSE item[p][j]]
             x    == [Fresh(o) EXCEPT !.reason = "invalid", !.saved = "invalid", !.done = "dealt"]
  <2>1. CASE mine = {}
    <3>1. item' = [item EXCEPT ![p] = Append(item[p], x)]
      BY <1>9, <2>1 DEF AcceptRefund
    <3>2. /\ MapOK(pool', count') /\ MapOK(swapMap', count') /\ MapOK(refundMap', count')
          /\ MapOK(withdrawMap', count') /\ DOMAIN inPool' = Parties
      BY <1>4, <1>5, <1>6, <1>9, <2>1 DEF AcceptRefund
    <3> HIDE DEF x
    <3>3. x \in Item
      BY <1>3 DEF x
    <3>. QED
      BY <1>1, <1>2, <1>3, <1>4, <3>1, <3>2, <3>3, BooksGrow DEF i
  <2>2. CASE mine # {}
    <3>1. f \in [1 .. count[p] -> Item]
      BY <1>3 DEF Item, Reasons
    <3>2. /\ refundMap[p] \cup back \cup {i} \in SUBSET (1 .. count[p] + 1)
          /\ swapMap[p] \ mine \in SUBSET (1 .. count[p] + 1)
          /\ pool[p] \ TakenOut(p, o.addr) \in SUBSET (1 .. count[p] + 1)
      BY <1>4, <1>5 DEF Open, Of
    <3>3. /\ item' = [item EXCEPT ![p] = Append(f, Fresh(o))]
          /\ pool' = [pool EXCEPT ![p] = pool[p] \ TakenOut(p, o.addr)]
          /\ swapMap' = [swapMap EXCEPT ![p] = swapMap[p] \ mine]
          /\ refundMap' = [refundMap EXCEPT ![p] = refundMap[p] \cup back \cup {i}]
          /\ UNCHANGED withdrawMap /\ DOMAIN inPool' = Parties
      BY <1>4, <1>9, <2>2 DEF AcceptRefund
    <3> HIDE DEF f, mine, back
    <3>4. /\ MapOK(pool', count') /\ MapOK(swapMap', count') /\ MapOK(refundMap', count')
          /\ MapOK(withdrawMap', count')
      BY <1>4, <1>5, <3>2, <3>3
    <3>. QED
      BY <1>1, <1>2, <1>3, <1>4, <3>1, <3>3, <3>4, BooksGrow DEF i
  <2>. QED
    BY <2>1, <2>2
<1>. QED
  BY <1>7, <1>8, <1>9 DEF Accept, i, o

LEMMA MatchTypes ==
  ASSUME TypeInv, NEW p \in Parties, MatchOrders(p)
  PROVE  BookTypes'
<1>1. PICK b \in Live(p), s \in Live(p), xb \in Item, xs \in Item :
         item' = [item EXCEPT ![p] = [@ EXCEPT ![b] = xb, ![s] = xs]]
  BY MatchEffect DEF Buys, Sells
<1>2. b \in 1 .. count[p] /\ s \in 1 .. count[p]
  BY BookFacts DEF Live
<1> DEFINE f == [item[p] EXCEPT ![b] = xb, ![s] = xs]
<1>3. f \in [1 .. count[p] -> Item]
  BY <1>2, BookFacts
<1>4. BookTypes
  BY TypeParts DEF TypeInv
<1>5. UNCHANGED <<orders, count, pool, swapMap, refundMap, withdrawMap>> /\ DOMAIN inPool' = DOMAIN inPool
  <2>1. UNCHANGED <<orders, count, pool, swapMap, refundMap, withdrawMap>>
    BY MatchFrame
  <2>2. \E v, a : inPool' = [inPool EXCEPT ![p] = [v |-> v, a |-> a]]
    BY MatchEffect
  <2>. QED
    BY <2>1, <2>2
<1>6. item' = [item EXCEPT ![p] = f]
  BY <1>1
<1> HIDE DEF f
<1>. QED
  BY <1>3, <1>4, <1>5, <1>6, BooksKeepType DEF BookTypes

\* What leaves the maps of a party leaves their type.
LEMMA MapsLose ==
  ASSUME TypeInv, NEW p \in Parties, NEW m \in {pool, swapMap, refundMap, withdrawMap}, NEW S
  PROVE  MapOK(m, count) /\ MapOK([m EXCEPT ![p] = @ \ S], count)
<1>1. MapOK(m, count) /\ count[p] \in Nat
  BY TypeParts DEF TypeInv, BookTypes
<1>2. m[p] \ S \in SUBSET (1 .. count[p])
  BY <1>1 DEF MapOK
<1>. QED
  BY <1>1, <1>2, MapWith

LEMMA GenTypes ==
  ASSUME TypeInv, NEW p \in Parties, NEW stage, NEW h, GenEffect(p, stage, h),
         UNCHANGED <<orders, count>>
  PROVE  BookTypes'
<1>1. BookTypes
  BY TypeParts DEF TypeInv
<1>2. CASE stage = "refund"
  <2> DEFINE D == Dropped(p, h)
             f == [i \in DOMAIN item[p] |->
                     IF i \in D
                     THEN [item[p][i] EXCEPT !.reason = "invalid", !.saved = "invalid", !.done = "dealt"]
                     ELSE item[p][i]]
  <2>1. f \in [1 .. count[p] -> Item]
    <3>1. item[p] \in [1 .. count[p] -> Item]
      BY BookFacts
    <3>2. \A i \in DOMAIN item[p] : f[i] \in Item
      BY <3>1, ItemChanges
    <3>. QED
      BY <3>1, <3>2
  <2>2. /\ item' = [item EXCEPT ![p] = f] /\ refundMap' = [refundMap EXCEPT ![p] = @ \ D]
        /\ UNCHANGED <<pool, swapMap, withdrawMap, inPool>>
    BY <1>2 DEF GenEffect
  <2> HIDE DEF f, D
  <2>3. /\ MapOK(pool', count) /\ MapOK(swapMap', count)
        /\ MapOK(refundMap', count) /\ MapOK(withdrawMap', count)
    BY <2>2, MapsLose
  <2>. QED
    BY <1>1, <2>1, <2>2, <2>3, BooksKeepType DEF BookTypes
<1>3. CASE stage # "refund"
  BY <1>1, <1>3 DEF GenEffect, BookTypes
<1>. QED
  BY <1>2, <1>3

LEMMA RecordTypes ==
  ASSUME TypeInv, NEW p \in Parties, NEW t, t.stage \in Stages, Record(p, t),
         UNCHANGED <<orders, count>>
  PROVE  BookTypes'
<1>1. BookTypes /\ item[p] \in [1 .. count[p] -> Item]
  BY TypeParts, BookFacts DEF TypeInv
<1>2. CASE t.stage = "deal"
  <2> DEFINE S == Covered(p, t)
             f == [i \in DOMAIN item[p] |->
                     IF i \in S THEN [item[p][i] EXCEPT !.done = "dealt", !.saved = item[p][i].reason]
                     ELSE item[p][i]]
  <2>1. f \in [1 .. count[p] -> Item]
    <3>1. \A i \in DOMAIN item[p] : f[i] \in Item
      BY <1>1, ItemChanges
    <3>. QED
      BY <1>1, <3>1
  <2>2. /\ item' = [item EXCEPT ![p] = f]
        /\ pool' = [pool EXCEPT ![p] = @ \ S] /\ swapMap' = [swapMap EXCEPT ![p] = @ \ S]
        /\ UNCHANGED <<refundMap, withdrawMap, inPool>>
    BY <1>2 DEF Record, RecordDeal
  <2> HIDE DEF f, S
  <2>3. /\ MapOK(pool', count) /\ MapOK(swapMap', count)
        /\ MapOK(refundMap', count) /\ MapOK(withdrawMap', count)
    BY <2>2, MapsLose
  <2>. QED
    BY <1>1, <2>1, <2>2, <2>3, BooksKeepType DEF BookTypes
<1>3. CASE t.stage = "refund"
  <2> DEFINE S == {i \in UpTo(refundMap[p], t.height) : t.pays[Addr(i)] # Nothing}
             closed(i, x) == IF x.done # "init" THEN x
                             ELSE IF orders[i].kind = "refund" THEN [x EXCEPT !.done = "dealt"]
                             ELSE Refunded(x)
             f == [i \in DOMAIN item[p] |->
                     IF i \in S THEN [closed(i, item[p][i]) EXCEPT !.saved = item[p][i].reason]
                     ELSE item[p][i]]
  <2>1. f \in [1 .. count[p] -> Item]
    <3>1. \A x \in Item : [x EXCEPT !.done = "dealt"] \in Item /\ Refunded(x) \in Item
      BY ItemChanges
    <3>3. \A i \in DOMAIN item[p] : closed(i, item[p][i]) \in Item
      BY <1>1, <3>1
    <3>4. \A i \in DOMAIN item[p] : [closed(i, item[p][i]) EXCEPT !.saved = item[p][i].reason] \in Item
      <4> HIDE DEF closed
      <4>. QED  BY <1>1, <3>3 DEF Item
    <3> HIDE DEF S, closed
    <3>. QED
      BY <1>1, <3>4
  <2>2. /\ item' = [item EXCEPT ![p] = f]
        /\ refundMap' = [refundMap EXCEPT ![p] = @ \ UpTo(refundMap[p], t.height)]
        /\ UNCHANGED <<pool, swapMap, withdrawMap, inPool>>
    BY <1>3 DEF Record, RecordRefund
  <2> HIDE DEF f
  <2>3. /\ MapOK(pool', count) /\ MapOK(swapMap', count)
        /\ MapOK(refundMap', count) /\ MapOK(withdrawMap', count)
    BY <2>2, MapsLose
  <2>. QED
    BY <1>1, <2>1, <2>2, <2>3, BooksKeepType DEF BookTypes
<1>4. CASE t.stage = "withdraw"
  <2> DEFINE S == PaidWithdraws(p, t)
             f == [i \in DOMAIN item[p] |->
                     IF i \in S
                     THEN [item[p][i] EXCEPT !.done = "dealt", !.saved = item[p][i].reason,
                                             !.ov = item[p][i].rv, !.oa = item[p][i].ra, !.rv = 0, !.ra = 0]
                     ELSE item[p][i]]
  <2>1. f \in [1 .. count[p] -> Item]
    <3>1. \A i \in DOMAIN item[p] : f[i] \in Item
      BY <1>1, ItemChanges
    <3>. QED
      BY <1>1, <3>1
  <2>2. /\ item' = [item EXCEPT ![p] = f]
        /\ withdrawMap' = [withdrawMap EXCEPT ![p] = @ \ S]
        /\ UNCHANGED <<pool, swapMap, refundMap, inPool>>
    BY <1>4 DEF Record, RecordWithdraw
  <2> HIDE DEF f, S
  <2>3. /\ MapOK(pool', count) /\ MapOK(swapMap', count)
        /\ MapOK(refundMap', count) /\ MapOK(withdrawMap', count)
    BY <2>2, MapsLose
  <2>. QED
    BY <1>1, <2>1, <2>2, <2>3, BooksKeepType DEF BookTypes
<1>. QED
  BY <1>2, <1>3, <1>4 DEF Stages

LEMMA ReloadTypes ==
  ASSUME TypeInv, NEW p \in Parties, Reload(p), UNCHANGED <<orders, count>>
  PROVE  BookTypes'
<1>1. BookTypes /\ item[p] \in [1 .. count[p] -> Item] /\ count[p] \in Nat
  BY TypeParts, BookFacts DEF TypeInv
<1> DEFINE f == [i \in DOMAIN item[p] |-> [item[p][i] EXCEPT !.reason = item[p][i].saved]]
<1>2. f \in [1 .. count[p] -> Item]
  BY <1>1 DEF Item
<1>3. item' = [item EXCEPT ![p] = f]
  BY DEF Reload
<1>4. PICK S1 \in SUBSET (1 .. count[p]), S2 \in SUBSET (1 .. count[p]), S3 \in SUBSET (1 .. count[p]) :
         /\ pool' = [pool EXCEPT ![p] = S1] /\ swapMap' = [swapMap EXCEPT ![p] = S1]
         /\ withdrawMap' = [withdrawMap EXCEPT ![p] = S2] /\ refundMap' = [refundMap EXCEPT ![p] = S3]
  BY <1>1 DEF Reload
<1>5. /\ MapOK(pool', count) /\ MapOK(swapMap', count)
      /\ MapOK(refundMap', count) /\ MapOK(withdrawMap', count)
  BY <1>1, <1>4, MapWith DEF BookTypes
<1> HIDE DEF f
<1>. QED
  BY <1>1, <1>2, <1>3, <1>5, BooksKeepType DEF Reload, BookTypes

-----------------------------------------------------------------------------
(* The senders and the results.                                            *)

SenderTypes ==
    /\ DOMAIN sender = Senders
    /\ \A t \in Senders :
          /\ sender[t].pc \in {"away", "entered", "gen", "send", "signed", "record"}
          /\ sender[t].deal.stage \in DealStages /\ sender[t].tx \in 0 .. Len(txs)
          /\ DOMAIN sender[t] = {"pc", "deal", "tx"}
          /\ sender[t].pc \in {"gen", "send", "signed", "record"}
                => sender[t].deal.stage \in Stages
          /\ sender[t].pc \in {"signed", "record"} => sender[t].tx \in DOMAIN txs

TxsTypes ==
    /\ txs \in Seq({txs[n] : n \in DOMAIN txs})
    /\ \A n \in DOMAIN txs : txs[n].stage \in Stages

SendInv ==
    /\ SenderTypes /\ TxsTypes
    /\ signing \in 0 .. Len(txs)
    /\ results \in [Parties -> SUBSET (1 .. Len(txs))]
    /\ isSending \in BOOLEAN

LEMMA SendParts == SendTypes /\ TxsNamed <=> SendInv
<1>1. Stages \subseteq DealStages
  BY DEF Stages, DealStages
<1>. QED
  BY <1>1 DEF SendTypes, TxsNamed, SendInv, SenderTypes, TxsTypes

LEMMA TxsFacts ==
  ASSUME SendInv
  PROVE  Len(txs) \in Nat /\ DOMAIN txs = 1 .. Len(txs)
BY LenProperties DEF SendInv, TxsTypes

LEMMA PutType ==
  ASSUME SendInv, NEW t \in Senders, NEW pc \in {"away", "entered", "gen", "send"}, NEW deal,
         deal.stage \in DealStages, pc \in {"gen", "send"} => deal.stage \in Stages,
         Put(t, pc, deal), UNCHANGED txs
  PROVE  SenderTypes'
<1>1. PICK r : r = [pc |-> pc, deal |-> deal, tx |-> 0]
  OBVIOUS
<1>2. r.pc = pc /\ r.deal = deal /\ r.tx = 0 /\ DOMAIN r = {"pc", "deal", "tx"}
  BY <1>1
<1>3. sender' = [sender EXCEPT ![t] = r]
  BY <1>1 DEF Put
<1>4. 0 \in 0 .. Len(txs)
  BY TxsFacts
<1>5. DOMAIN sender' = Senders /\ sender'[t] = r /\ \A x \in Senders \ {t} : sender'[x] = sender[x]
  BY <1>3 DEF SendInv, SenderTypes
<1>6. SenderTypes
  BY DEF SendInv
<1> HIDE DEF Stages, DealStages
<1>. QED
  BY <1>2, <1>4, <1>5, <1>6 DEF SenderTypes

LEMMA NoDealStage ==
  /\ NoDeal.stage = "none" /\ "none" \in DealStages
  /\ \A stage : [NoDeal EXCEPT !.stage = stage].stage = stage
BY DEF NoDeal, DealStages

LEMMA TurnType ==
  ASSUME SendInv, NEW t \in Senders, NEW stage \in Stages, Turn(t, stage), UNCHANGED txs
  PROVE  SenderTypes'
<1>1. PICK deal : deal = [NoDeal EXCEPT !.stage = stage]
  OBVIOUS
<1>2. deal.stage = stage /\ stage \in DealStages
  BY <1>1, NoDealStage DEF Stages, DealStages
<1>3. Put(t, "gen", deal)
  BY <1>1 DEF Turn
<1>. QED
  BY <1>2, <1>3, PutType

LEMMA NextStageType ==
  ASSUME SendInv, NEW t \in Senders, sender[t].deal.stage \in Stages, NEW failed \in BOOLEAN,
         NextStage(t, failed), UNCHANGED txs
  PROVE  SenderTypes' /\ isSending' \in BOOLEAN
<1>1. CASE sender[t].deal.stage = "withdraw"
  BY <1>1, NoDealStage, PutType DEF NextStage
<1>2. CASE sender[t].deal.stage # "withdraw"
  <2>1. After(sender[t].deal.stage) \in Stages
    BY DEF After, Stages
  <2>2. Turn(t, After(sender[t].deal.stage)) /\ isSending' \in BOOLEAN
    BY <1>2 DEF NextStage
  <2>. QED
    BY <2>1, <2>2, TurnType
<1>. QED
  BY <1>1, <1>2

LEMMA SignTypes ==
  ASSUME SendInv, NEW t \in Senders, Sign(t)
  PROVE  SendInv'
<1> DEFINE R == {txs[n] : n \in DOMAIN txs}
<1>1. sender[t].pc = "send" /\ sender[t].deal.stage \in Stages
  BY DEF Sign, SendInv, SenderTypes
<1>2. PICK x : /\ x.stage = sender[t].deal.stage
               /\ txs' = Append(txs, x)
  BY DEF Sign
<1>3. txs \in Seq(R \cup {x})
  BY SeqMonotonic DEF SendInv, TxsTypes
<1>4. /\ txs' \in Seq(R \cup {x}) /\ Len(txs') = Len(txs) + 1
      /\ \A n \in 1 .. Len(txs) : txs'[n] = txs[n]
      /\ txs'[Len(txs) + 1] = x
  BY <1>2, <1>3, AppendProperties
<1>5. /\ DOMAIN txs' = 1 .. Len(txs') /\ Len(txs') \in Nat \ {0} /\ Len(txs) \in Nat
      /\ DOMAIN txs = 1 .. Len(txs)
  BY <1>4, TxsFacts, LenProperties
<1>6. txs' \in Seq({txs'[n] : n \in DOMAIN txs'})
  <2>1. txs' \in [1 .. Len(txs') -> {txs'[n] : n \in DOMAIN txs'}]
    BY <1>4, <1>5, LenProperties
  <2>. QED
    BY <1>5, <2>1, SeqDef
<1>7. \A n \in DOMAIN txs' : txs'[n].stage \in Stages
  BY <1>1, <1>2, <1>4, <1>5 DEF SendInv, TxsTypes
<1>8. signing' \in 0 .. Len(txs') /\ isSending' \in BOOLEAN
      /\ results' \in [Parties -> SUBSET (1 .. Len(txs'))]
  <2>1. signing' = Len(txs') /\ results' = results /\ isSending' = isSending
    BY DEF Sign
  <2>2. 1 .. Len(txs) \subseteq 1 .. Len(txs')
    BY <1>4, <1>5
  <2>. QED
    BY <1>5, <2>1, <2>2 DEF SendInv
<1>9. SenderTypes'
  <2>1. PICK r : r = [sender[t] EXCEPT !.pc = "signed", !.tx = Len(txs')]
    OBVIOUS
  <2>2. r.pc = "signed" /\ r.tx = Len(txs') /\ r.deal = sender[t].deal /\ DOMAIN r = {"pc", "deal", "tx"}
    BY <2>1 DEF SendInv, SenderTypes
  <2>3. sender' = [sender EXCEPT ![t] = r]
    BY <2>1 DEF Sign
  <2>4. DOMAIN sender' = Senders /\ sender'[t] = r /\ \A y \in Senders \ {t} : sender'[y] = sender[y]
    BY <2>3 DEF SendInv, SenderTypes
  <2>5. Len(txs') \in DOMAIN txs' /\ Len(txs') \in 0 .. Len(txs')
        /\ DOMAIN txs \subseteq DOMAIN txs' /\ 0 .. Len(txs) \subseteq 0 .. Len(txs')
    BY <1>4, <1>5
  <2>6. SenderTypes
    BY DEF SendInv
  <2>. QED
    BY <1>1, <2>2, <2>4, <2>5, <2>6 DEF SenderTypes
<1>. QED
  BY <1>6, <1>7, <1>8, <1>9 DEF SendInv, TxsTypes

-----------------------------------------------------------------------------
(* Type correctness of every step.                                         *)

LEMMA InvParts == TypeInv <=> BookTypes /\ OtherTypes /\ Priced /\ SendInv
BY TypeParts, SendParts DEF TypeInv

LEMMA InvPartsNext == BookTypes' /\ OtherTypes' /\ Priced' /\ SendInv' => TypeInv'
<1>1. Stages \subseteq DealStages
  BY DEF Stages, DealStages
<1>. QED
  BY <1>1 DEF TypeInv, TypeOK, BookTypes, MapOK, OtherTypes, SendInv, SenderTypes, TxsTypes, TxsNamed

LEMMA InitType == Init => TypeInv
<1> SUFFICES ASSUME Init PROVE TypeInv
  OBVIOUS
<1>1. << >> \in Seq(Placed) /\ << >> \in Seq(Item) /\ << >> \in Seq({txs[n] : n \in DOMAIN txs})
      /\ Len(<< >>) = 0 /\ DOMAIN << >> = {}
  OBVIOUS
<1>2. Away.pc = "away" /\ Away.deal.stage = "none" /\ Away.tx = 0 /\ DOMAIN Away = {"pc", "deal", "tx"}
  BY NoDealStage DEF Away
<1>3. BookTypes
  BY <1>1 DEF Init, BookTypes, MapOK
<1>4. OtherTypes /\ Priced
  BY <1>1, BoundAssumption DEF Init, OtherTypes, Priced
<1>5. SendInv
  <2>1. txs = << >> /\ signing = 0 /\ results = [p \in Parties |-> {}] /\ isSending = FALSE
        /\ sender = [t \in Senders |-> Away]
    BY DEF Init
  <2>2. TxsTypes
    BY <1>1, <2>1 DEF TxsTypes
  <2>3. SenderTypes
    <3>1. DOMAIN sender = Senders /\ \A t \in Senders : sender[t] = Away
      BY <2>1
    <3>2. 0 \in 0 .. Len(txs)
      BY <1>1, <2>1
    <3>. QED
      BY <1>2, <3>1, <3>2, NoDealStage DEF SenderTypes
  <2>4. signing \in 0 .. Len(txs) /\ results \in [Parties -> SUBSET (1 .. Len(txs))]
    BY <1>1, <2>1
  <2>. QED
    BY <2>1, <2>2, <2>3, <2>4 DEF SendInv
<1>. QED
  BY <1>3, <1>4, <1>5, InvParts

LEMMA NewBlockType ==
  ASSUME TypeInv, NEW b \in Blocks, NewBlock(b)
  PROVE  TypeInv'
<1> DEFINE new == [k \in DOMAIN b |->
                     [kind |-> b[k].kind, addr |-> b[k].addr, price |-> b[k].price,
                      value |-> b[k].value, amt |-> b[k].amt, want |-> b[k].want,
                      fee |-> b[k].fee, dest |-> b[k].dest, valid |-> b[k].valid, h |-> tip + 1]]
<1>1. /\ b \in Seq(Invocation) /\ Len(b) \in Nat /\ DOMAIN b = 1 .. Len(b) /\ b \in [1 .. Len(b) -> Invocation]
      /\ \A k \in DOMAIN b : b[k].kind \in Trades => b[k].price > 0
  BY BlocksAssumption, LenProperties
<1>2. orders \in Seq(Placed) /\ tip \in Nat
  BY BoundAssumption, InvParts DEF OtherTypes
<1>3. \A k \in DOMAIN b : new[k] \in Placed /\ new[k].kind = b[k].kind /\ new[k].price = b[k].price
  <2>1. ASSUME NEW k \in DOMAIN b
        PROVE  new[k] \in Placed /\ new[k].kind = b[k].kind /\ new[k].price = b[k].price
    <3>1. PICK x \in Invocation : x = b[k]
      BY <1>1
    <3>2. PICK y : y = [kind |-> x.kind, addr |-> x.addr, price |-> x.price, value |-> x.value,
                        amt |-> x.amt, want |-> x.want, fee |-> x.fee, dest |-> x.dest,
                        valid |-> x.valid, h |-> tip + 1]
      OBVIOUS
    <3>3. tip + 1 \in Nat
      BY <1>2
    <3>4. y \in Placed /\ y.kind = x.kind /\ y.price = x.price
      BY <3>2, <3>3 DEF Invocation, Placed
    <3>5. new[k] = y
      BY <3>1, <3>2
    <3>. QED
      BY <3>1, <3>4, <3>5
  <2>. QED
    BY <2>1
<1>4. new \in [1 .. Len(b) -> Placed]
  BY <1>1, <1>3
<1>5. orders' = orders \o new
  BY DEF NewBlock
<1>6. \A k \in 1 .. Len(b) : new[k].kind \in Trades => new[k].price > 0
  BY <1>1, <1>3
<1> HIDE DEF new
<1>7. new \in Seq(Placed) /\ Len(new) = Len(b)
  BY <1>1, <1>4, FunIsSeq
<1>8. /\ orders' \in Seq(Placed) /\ Len(orders') = Len(orders) + Len(b)
      /\ \A i \in 1 .. Len(orders) + Len(b) :
            orders'[i] = IF i <= Len(orders) THEN orders[i] ELSE new[i - Len(orders)]
  <2>1. /\ orders \o new \in Seq(Placed) /\ Len(orders \o new) = Len(orders) + Len(new)
        /\ \A i \in 1 .. Len(orders) + Len(new) :
              (orders \o new)[i] = IF i <= Len(orders) THEN orders[i] ELSE new[i - Len(orders)]
    BY <1>2, <1>7, ConcatProperties
  <2>. QED
    BY <1>5, <1>7, <2>1
<1>9. /\ Len(orders) \in Nat /\ DOMAIN orders = 1 .. Len(orders)
      /\ DOMAIN orders' = 1 .. Len(orders')
  BY <1>2, <1>8, LenProperties
<1>10. BookTypes'
  <2>1. BookTypes /\ UNCHANGED <<count, item, pool, swapMap, refundMap, withdrawMap, inPool>>
    BY InvParts DEF NewBlock
  <2>2. 0 .. Len(orders) \subseteq 0 .. Len(orders')
    BY <1>1, <1>8, <1>9
  <2>. QED
    BY <2>1, <2>2 DEF BookTypes
<1>11. OtherTypes'
  <2>1. tip' \in 0 .. MaxHeight
    BY BoundAssumption, InvParts DEF NewBlock, OtherTypes
  <2>. QED
    BY <1>8, <2>1, InvParts DEF NewBlock, OtherTypes
<1>12. Priced'
  <2>1. SUFFICES ASSUME NEW i \in DOMAIN orders', orders'[i].kind \in Trades
                 PROVE  orders'[i].price > 0
    BY DEF Priced
  <2>2. CASE i <= Len(orders)
    BY <1>1, <1>8, <1>9, <2>1, <2>2, InvParts DEF Priced
  <2>3. CASE i > Len(orders)
    <3>1. i - Len(orders) \in 1 .. Len(b) /\ orders'[i] = new[i - Len(orders)]
      BY <1>1, <1>8, <1>9, <2>3
    <3>. QED
      BY <1>6, <2>1, <3>1
  <2>. QED
    BY <1>9, <2>2, <2>3
<1>13. SendInv'
  BY InvParts DEF NewBlock, SendInv, SenderTypes, TxsTypes
<1>. QED
  BY <1>10, <1>11, <1>12, <1>13, InvPartsNext

LEMMA BlockType ==
  ASSUME TypeInv, NEW p \in Parties, Block(p)
  PROVE  TypeInv'
<1>1. BookTypes /\ OtherTypes /\ Priced /\ SendInv
  BY InvParts
<1>2. SendInv' /\ Priced' /\ orders' = orders /\ tip' = tip /\ forgot' = forgot /\ faults' = faults
  <2>1. UNCHANGED <<chain, sends>>
    BY DEF Block, BeginBlock, Accept, Accepted, AcceptedAll, MatchOrders, CompleteBlock
  <2>. QED
    BY <1>1, <2>1 DEF SendInv, SenderTypes, TxsTypes, Priced
<1>3. CASE BeginBlock(p)
  <2>1. curr'[p] \in 0 .. MaxHeight
    BY <1>1, <1>3, BoundAssumption DEF BeginBlock, OtherTypes
  <2>2. OtherTypes'
    BY <1>1, <1>2, <1>3, <2>1 DEF BeginBlock, OtherTypes
  <2>3. BookTypes'
    BY <1>1, <1>3 DEF BeginBlock, BookTypes
  <2>. QED
    BY <1>2, <2>2, <2>3, InvPartsNext
<1>4. CASE Accept(p)
  <2>1. OtherTypes'
    BY <1>1, <1>4 DEF Accept, Accepted, OtherTypes
  <2>. QED
    BY <1>2, <1>4, <2>1, AcceptTypes, InvPartsNext
<1>5. CASE AcceptedAll(p) \/ CompleteBlock(p)
  <2>1. OtherTypes'
    BY <1>1, <1>5 DEF AcceptedAll, CompleteBlock, OtherTypes
  <2>2. BookTypes'
    BY <1>1, <1>5 DEF AcceptedAll, CompleteBlock, BookTypes
  <2>. QED
    BY <1>2, <2>1, <2>2, InvPartsNext
<1>6. CASE MatchOrders(p)
  <2>1. OtherTypes'
    BY <1>1, <1>6, MatchFrame DEF OtherTypes
  <2>. QED
    BY <1>2, <1>6, <2>1, MatchTypes, InvPartsNext
<1>. QED
  BY <1>3, <1>4, <1>5, <1>6 DEF Block

\* A step of a sender or of a result leaves the blocks as they are.
Blocked == UNCHANGED <<chain, block, past>>

LEMMA BlockedTypes ==
  ASSUME TypeInv, Blocked
  PROVE  OtherTypes' /\ Priced' /\ UNCHANGED <<orders, count>>
BY InvParts DEF Blocked, OtherTypes, Priced

LEMMA SendType ==
  ASSUME TypeInv, NEW t \in Senders, Send(t)
  PROVE  TypeInv'
<1>1. BookTypes /\ OtherTypes /\ Priced /\ SendInv
  BY InvParts
<1>2. Blocked
  BY DEF Send, Enter, Begin, Gen, Sign, Refuse, Answer, RecordOwn, Blocked
<1>3. OtherTypes' /\ Priced' /\ UNCHANGED <<orders, count>>
  BY <1>2, BlockedTypes
<1>4. Initiator \in Parties /\ Peer \in Parties
  BY DEF Parties
<1>5. CASE Enter(t) \/ Begin(t)
  <2>1. BookTypes'
    BY <1>1, <1>3, <1>5 DEF Enter, Begin, BookTypes
  <2>2. SenderTypes'
    <3>1. CASE Enter(t)
      BY <1>1, <3>1, NoDealStage, PutType DEF Enter
    <3>2. CASE Begin(t)
      BY <1>1, <3>2, TurnType DEF Begin, Stages
    <3>. QED
      BY <1>5, <3>1, <3>2
  <2>3. SendInv'
    BY <1>1, <1>5, <2>2 DEF Enter, Begin, SendInv, TxsTypes
  <2>. QED
    BY <1>3, <2>1, <2>3, InvPartsNext
<1>6. CASE Gen(t)
  <2> DEFINE stage == sender[t].deal.stage
             h     == curr[Initiator]
             deal  == [stage |-> stage, pays |-> Owed(Initiator, stage, h),
                       height |-> Top(Chosen(Initiator, stage, h)),
                       root |-> <<count[Initiator], inPool[Initiator]>>]
  <2>1. stage \in Stages /\ stage \in DealStages
    BY <1>1, <1>6 DEF Gen, SendInv, SenderTypes
  <2>2. BookTypes'
    BY <1>3, <1>4, <1>6, GenTypes DEF Gen
  <2>3. SenderTypes' /\ isSending' \in BOOLEAN
    <3>1. CASE NextStage(t, FALSE)
      BY <1>1, <1>6, <2>1, <3>1, NextStageType DEF Gen
    <3>2. CASE Put(t, "send", deal) /\ UNCHANGED isSending
      <4>1. deal.stage = stage
        OBVIOUS
      <4> HIDE DEF deal
      <4>. QED
        BY <1>1, <1>6, <2>1, <3>2, <4>1, PutType DEF Gen, SendInv
    <3>. QED
      BY <1>6, <3>1, <3>2 DEF Gen
  <2>4. SendInv'
    BY <1>1, <1>6, <2>3 DEF Gen, SendInv, TxsTypes
  <2>. QED
    BY <1>3, <2>2, <2>4, InvPartsNext
<1>7. CASE Sign(t)
  <2>1. BookTypes'
    BY <1>3, <1>4, <1>7, GenTypes DEF Sign
  <2>. QED
    BY <1>1, <1>3, <1>7, <2>1, SignTypes, InvPartsNext
<1>8. CASE Refuse(t)
  <2>1. BookTypes'
    <3>1. CASE GenEffect(Peer, sender[t].deal.stage, sender[t].deal.height)
      BY <1>3, <1>4, <3>1, GenTypes
    <3>2. CASE UNCHANGED books
      BY <1>1, <1>3, <3>2 DEF BookTypes
    <3>. QED
      BY <1>8, <3>1, <3>2 DEF Refuse
  <2>2. sender[t].deal.stage \in Stages
    BY <1>1, <1>8 DEF Refuse, SendInv, SenderTypes
  <2>3. SenderTypes' /\ isSending' \in BOOLEAN
    BY <1>1, <1>8, <2>2, NextStageType DEF Refuse
  <2>4. SendInv'
    BY <1>1, <1>8, <2>3 DEF Refuse, SendInv, TxsTypes
  <2>. QED
    BY <1>3, <2>1, <2>4, InvPartsNext
<1>9. CASE Answer(t)
  <2>1. BookTypes'
    BY <1>1, <1>3, <1>9 DEF Answer, BookTypes
  <2>2. results' \in [Parties -> SUBSET (1 .. Len(txs))]
    <3>1. sender[t].tx \in 1 .. Len(txs)
      BY <1>1, <1>9, TxsFacts DEF Answer, SendInv, SenderTypes
    <3>2. results' = [results EXCEPT ![Initiator] = @ \cup {sender[t].tx}]
      BY <1>9 DEF Answer
    <3>. QED
      BY <1>1, <1>4, <3>1, <3>2 DEF SendInv
  <2>3. SenderTypes'
    <3>1. PICK r : r = [sender[t] EXCEPT !.pc = "record"]
      OBVIOUS
    <3>2. /\ r.pc = "record" /\ r.tx = sender[t].tx /\ r.deal = sender[t].deal
          /\ DOMAIN r = {"pc", "deal", "tx"}
      BY <1>1, <3>1 DEF SendInv, SenderTypes
    <3>3. sender' = [sender EXCEPT ![t] = r] /\ UNCHANGED txs
      BY <1>9, <3>1 DEF Answer
    <3>4. DOMAIN sender' = Senders /\ sender'[t] = r /\ \A y \in Senders \ {t} : sender'[y] = sender[y]
      BY <1>1, <3>3 DEF SendInv, SenderTypes
    <3>5. sender[t].pc = "signed" /\ SenderTypes
      BY <1>1, <1>9 DEF Answer, SendInv
    <3>. QED
      BY <3>2, <3>3, <3>4, <3>5 DEF SenderTypes
  <2>4. SendInv'
    BY <1>1, <1>9, <2>2, <2>3 DEF Answer, SendInv, TxsTypes
  <2>. QED
    BY <1>3, <2>1, <2>4, InvPartsNext
<1>10. CASE RecordOwn(t)
  <2>1. sender[t].tx \in DOMAIN txs /\ sender[t].deal.stage \in Stages
    BY <1>1, <1>10 DEF RecordOwn, SendInv, SenderTypes
  <2>2. BookTypes'
    <3>1. txs[sender[t].tx].stage \in Stages
      BY <1>1, <2>1 DEF SendInv, TxsTypes
    <3>. QED
      BY <1>3, <1>4, <1>10, <3>1, RecordTypes DEF RecordOwn
  <2>3. SenderTypes' /\ isSending' \in BOOLEAN
    <3>1. CASE Turn(t, "withdraw") /\ UNCHANGED isSending
      BY <1>1, <1>10, <3>1, TurnType DEF RecordOwn, Stages, SendInv
    <3>2. CASE NextStage(t, FALSE)
      BY <1>1, <1>10, <2>1, <3>2, NextStageType DEF RecordOwn
    <3>. QED
      BY <1>10, <3>1, <3>2 DEF RecordOwn
  <2>4. SendInv'
    BY <1>1, <1>10, <2>3 DEF RecordOwn, SendInv, TxsTypes
  <2>. QED
    BY <1>3, <2>2, <2>4, InvPartsNext
<1>. QED
  BY <1>5, <1>6, <1>7, <1>8, <1>9, <1>10 DEF Send

LEMMA ResultsType ==
  ASSUME TypeInv, Results
  PROVE  TypeInv'
<1>1. BookTypes /\ OtherTypes /\ Priced /\ SendInv
  BY InvParts
<1>2. PICK p \in Parties, n \in 1 .. Len(txs) :
         /\ Record(p, txs[n]) /\ results' = [results EXCEPT ![p] = @ \cup {n}]
         /\ signing' \in {0, signing}
         /\ UNCHANGED <<chain, block, txs, isSending, sender, past>>
  <2>1. CASE PeerRecord
    <3>1. signing \in 1 .. Len(txs) /\ Peer \in Parties
      BY <1>1, <2>1, TxsFacts DEF PeerRecord, SendInv, Parties
    <3>. QED
      BY <2>1, <3>1 DEF PeerRecord
  <2>2. CASE \E p \in Parties, n \in DOMAIN txs : Mined(p, n)
    BY <1>1, <2>2, TxsFacts DEF Mined
  <2>. QED
    BY <2>1, <2>2 DEF Results
<1>3. OtherTypes' /\ Priced' /\ UNCHANGED <<orders, count>>
  BY <1>2, BlockedTypes DEF Blocked
<1>4. BookTypes'
  <2>1. txs[n].stage \in Stages
    BY <1>1, <1>2, TxsFacts DEF SendInv, TxsTypes
  <2>. QED
    BY <1>2, <1>3, <2>1, RecordTypes
<1>5. SendInv'
  <2>1. results' \in [Parties -> SUBSET (1 .. Len(txs))]
    BY <1>1, <1>2 DEF SendInv
  <2>2. signing' \in 0 .. Len(txs')
    BY <1>1, <1>2, TxsFacts DEF SendInv
  <2>. QED
    BY <1>1, <1>2, <2>1, <2>2 DEF SendInv, SenderTypes, TxsTypes
<1>. QED
  BY <1>3, <1>4, <1>5, InvPartsNext

LEMMA FailureType ==
  ASSUME TypeInv, Failures
  PROVE  TypeInv'
<1>1. BookTypes /\ OtherTypes /\ Priced /\ SendInv
  BY InvParts
<1>2. ASSUME NEW t \in Senders, LoseAnswer(t)
      PROVE  TypeInv'
  <2>1. BookTypes' /\ Priced'
    BY <1>1, <1>2 DEF LoseAnswer, BookTypes, Priced
  <2>2. OtherTypes'
    <3>1. faults' \in 0 .. MaxFault
      BY <1>1, <1>2, BoundAssumption DEF LoseAnswer, OtherTypes
    <3>. QED
      BY <1>1, <1>2, <3>1 DEF LoseAnswer, OtherTypes
  <2>3. sender[t].deal.stage \in Stages
    BY <1>1, <1>2 DEF LoseAnswer, SendInv, SenderTypes
  <2>4. SenderTypes' /\ isSending' \in BOOLEAN
    BY <1>1, <1>2, <2>3, NextStageType DEF LoseAnswer
  <2>5. SendInv'
    BY <1>1, <1>2, <2>4 DEF LoseAnswer, SendInv, TxsTypes
  <2>. QED
    BY <2>1, <2>2, <2>5, InvPartsNext
<1>3. ASSUME NEW p \in Parties, Crash(p)
      PROVE  TypeInv'
  <2>1. BookTypes' /\ Priced'
    BY <1>1, <1>3, ReloadTypes DEF Crash, Priced
  <2>2. OtherTypes'
    <3>1. faults' \in 0 .. MaxFault
      BY <1>1, <1>3, BoundAssumption DEF Crash, OtherTypes
    <3>2. pool'[p] \subseteq DOMAIN orders /\ \A i \in DOMAIN orders : orders[i].addr \in Addresses
      <4>1. pool'[p] \subseteq 1 .. count[p]
        BY <1>3, <2>1 DEF Crash, BookTypes, MapOK
      <4>2. 1 .. count[p] \subseteq DOMAIN orders /\ \A i \in DOMAIN orders : orders[i] \in Placed
        BY BookFacts
      <4>. QED
        BY <4>1, <4>2 DEF Placed
    <3>3. PICK F \in SUBSET Addresses : forgot' = [forgot EXCEPT ![p] = @ \cup F]
      <4> DEFINE F == {Addr(i) : i \in pool'[p] \ pool[p]}
                        \cup {a \in Addresses : /\ p = Peer /\ signing # 0
                                                /\ txs[signing].pays[a] # Nothing}
      <4>1. F \subseteq Addresses
        BY <3>2 DEF Addr
      <4>2. forgot' = [forgot EXCEPT ![p] = @ \cup F]
        BY <1>3 DEF Crash
      <4> HIDE DEF F
      <4>. QED
        BY <4>1, <4>2
    <3>. QED
      BY <1>1, <1>3, <3>1, <3>3 DEF Crash, OtherTypes
  <2>3. SendInv'
    <3>1. UNCHANGED <<txs, results>> /\ signing' \in {0, signing} /\ isSending' \in {FALSE, isSending}
      BY <1>3 DEF Crash
    <3>2. SenderTypes'
      <4>1. CASE UNCHANGED sender
        BY <1>1, <3>1, <4>1 DEF SendInv, SenderTypes
      <4>2. CASE sender' = [t \in Senders |-> Away]
        <5>1. /\ Away.pc = "away" /\ Away.deal.stage = "none" /\ Away.tx = 0
              /\ DOMAIN Away = {"pc", "deal", "tx"}
          BY NoDealStage DEF Away
        <5>2. DOMAIN sender' = Senders /\ \A t \in Senders : sender'[t] = Away
          BY <4>2
        <5>3. 0 \in 0 .. Len(txs') /\ "none" \in DealStages
          BY <1>1, <3>1, TxsFacts, NoDealStage
        <5>. QED
          BY <5>1, <5>2, <5>3 DEF SenderTypes
      <4>. QED
        BY <1>3, <4>1, <4>2 DEF Crash
    <3>3. signing' \in 0 .. Len(txs')
      BY <1>1, <3>1, TxsFacts DEF SendInv
    <3>. QED
      BY <1>1, <3>1, <3>2, <3>3 DEF SendInv, TxsTypes
  <2>. QED
    BY <2>1, <2>2, <2>3, InvPartsNext
<1>. QED
  BY <1>2, <1>3 DEF Failures

LEMMA NextType == TypeInv /\ [Next]_vars => TypeInv'
<1> SUFFICES ASSUME TypeInv, [Next]_vars PROVE TypeInv'
  OBVIOUS
<1>1. CASE UNCHANGED vars
  <2>1. BookTypes' /\ OtherTypes' /\ Priced' /\ SendInv'
    BY <1>1, InvParts DEF vars, BookTypes, OtherTypes, Priced, SendInv, SenderTypes, TxsTypes
  <2>. QED
    BY <2>1, InvPartsNext
<1>. QED
  BY <1>1, NewBlockType, BlockType, SendType, ResultsType, FailureType DEF Next

\* The books of the parties speak of the invocations they have accepted, the
\* senders of results that exist; every variable keeps its kind of value.
THEOREM TypesHold == Spec => []TypeOK
<1>1. TypeInv => TypeOK
  BY DEF TypeInv
<1>. QED
  BY InitType, NextType, <1>1, PTL DEF Spec

-----------------------------------------------------------------------------
(* The pools.                                                              *)

\* PoolIsNormal is inductive once it is said that nothing waits in a pool and
\* in refundMap at once, and that withdrawMap holds withdrawals: a record of
\* a refund or a withdrawal then closes nothing in a pool.
PoolOf(p) ==
    /\ pool[p] = swapMap[p]
    /\ \A i \in pool[p] : /\ item[p][i].reason = "normal" /\ item[p][i].done = "init"
                          /\ orders[i].kind \in Trades
    /\ refundMap[p] \cap pool[p] = {}
    /\ \A i \in withdrawMap[p] : orders[i].kind = "withdraw"

PoolInv == \A p \in Parties : PoolOf(p)

\* A step at a party leaves the books of the other.
OnlyAt(p) ==
    \A q \in Parties \ {p} :
        /\ item'[q] = item[q] /\ pool'[q] = pool[q] /\ swapMap'[q] = swapMap[q]
        /\ refundMap'[q] = refundMap[q] /\ withdrawMap'[q] = withdrawMap[q]
        /\ count'[q] = count[q]

LEMMA AcceptAt ==
  ASSUME TypeInv, NEW p \in Parties, Accept(p)
  PROVE  OnlyAt(p)
<1>1. BookTypes
  BY InvParts
<1> DEFINE o == orders[count[p] + 1]
           i == count[p] + 1
<1> HIDE DEF o
<1>2. CASE AcceptTrade(p, i, o)
  BY <1>1, <1>2 DEF Accept, Accepted, AcceptTrade, OnlyAt, BookTypes, MapOK
<1>3. CASE AcceptWithdraw(p, i, o)
  BY <1>1, <1>3 DEF Accept, Accepted, AcceptWithdraw, OnlyAt, BookTypes, MapOK
<1>4. CASE AcceptRefund(p, i, o)
  <2>1. \E x : item' = [item EXCEPT ![p] = x]
    BY <1>4 DEF AcceptRefund
  <2>2. pool' = pool \/ \E x : pool' = [pool EXCEPT ![p] = x]
    BY <1>4 DEF AcceptRefund
  <2>3. swapMap' = swapMap \/ \E x : swapMap' = [swapMap EXCEPT ![p] = x]
    BY <1>4 DEF AcceptRefund
  <2>4. (\E x : refundMap' = [refundMap EXCEPT ![p] = x]) /\ UNCHANGED withdrawMap
    BY <1>4 DEF AcceptRefund
  <2>5. count' = [count EXCEPT ![p] = i]
    BY DEF Accept, Accepted, i
  <2>. QED
    BY <1>1, <2>1, <2>2, <2>3, <2>4, <2>5 DEF OnlyAt, BookTypes, MapOK
<1>. QED
  BY <1>2, <1>3, <1>4 DEF Accept, o

LEMMA BooksAt ==
  ASSUME TypeInv, NEW p \in Parties, UNCHANGED count
  PROVE  /\ MatchOrders(p) => OnlyAt(p)
         /\ \A stage, h : GenEffect(p, stage, h) => OnlyAt(p)
         /\ \A t : t.stage \in Stages /\ Record(p, t) => OnlyAt(p)
         /\ Reload(p) => OnlyAt(p)
<1>1. BookTypes
  BY InvParts
<1>2. MatchOrders(p) => OnlyAt(p)
  <2>1. SUFFICES ASSUME MatchOrders(p) PROVE OnlyAt(p)
    OBVIOUS
  <2>2. PICK b \in Live(p), s \in Live(p), xb \in Item, xs \in Item :
           item' = [item EXCEPT ![p] = [@ EXCEPT ![b] = xb, ![s] = xs]]
    BY <2>1, MatchEffect DEF Buys, Sells
  <2>3. UNCHANGED <<pool, swapMap, refundMap, withdrawMap>>
    BY <2>1, MatchFrame
  <2>. QED
    BY <1>1, <2>2, <2>3 DEF OnlyAt, BookTypes
<1>3. ASSUME NEW stage, NEW h, GenEffect(p, stage, h)
      PROVE  OnlyAt(p)
  <2>1. CASE stage = "refund"
    BY <1>1, <1>3, <2>1 DEF GenEffect, OnlyAt, BookTypes, MapOK
  <2>2. CASE stage # "refund"
    BY <1>1, <1>3, <2>2 DEF GenEffect, OnlyAt, BookTypes, MapOK
  <2>. QED
    BY <2>1, <2>2
<1>4. ASSUME NEW t, t.stage \in Stages, Record(p, t)
      PROVE  OnlyAt(p)
  <2>1. CASE t.stage = "deal"
    BY <1>1, <1>4, <2>1 DEF Record, RecordDeal, OnlyAt, BookTypes, MapOK
  <2>2. CASE t.stage = "refund"
    BY <1>1, <1>4, <2>2 DEF Record, RecordRefund, OnlyAt, BookTypes, MapOK
  <2>3. CASE t.stage = "withdraw"
    BY <1>1, <1>4, <2>3 DEF Record, RecordWithdraw, OnlyAt, BookTypes, MapOK
  <2>. QED
    BY <1>4, <2>1, <2>2, <2>3 DEF Stages
<1>5. Reload(p) => OnlyAt(p)
  BY <1>1 DEF Reload, OnlyAt, BookTypes, MapOK
<1>. QED
  BY <1>2, <1>3, <1>4, <1>5

LEMMA PoolElsewhere ==
  ASSUME PoolInv, NEW p \in Parties, OnlyAt(p), UNCHANGED orders, PoolOf(p)'
  PROVE  PoolInv'
BY DEF PoolInv, PoolOf, OnlyAt

LEMMA AcceptPool ==
  ASSUME TypeInv, PoolInv, NEW p \in Parties, Accept(p)
  PROVE  PoolInv'
<1> DEFINE i == count[p] + 1
           o == orders[i]
<1>1. /\ i \in DOMAIN orders /\ o \in Placed /\ UNCHANGED orders
      /\ count[p] \in Nat /\ item[p] \in [1 .. count[p] -> Item] /\ item[p] \in Seq(Item)
      /\ Len(item[p]) = count[p] /\ item \in [Parties -> Seq(Item)]
      /\ Fresh(o) \in Item /\ Fresh(o).done = "init" /\ (o.valid => Fresh(o).reason = "normal")
  BY BookFacts, FreshType, InvParts DEF Accept, Accepted, BookTypes
<1>2. /\ pool[p] \subseteq 1 .. count[p] /\ refundMap[p] \subseteq 1 .. count[p]
      /\ swapMap[p] \subseteq 1 .. count[p] /\ i \notin 1 .. count[p]
      /\ pool \in [Parties -> SUBSET Nat] /\ swapMap \in [Parties -> SUBSET Nat]
      /\ refundMap \in [Parties -> SUBSET Nat] /\ withdrawMap \in [Parties -> SUBSET Nat]
  BY <1>1, BookFacts, InvParts DEF BookTypes, MapOK
<1>3. PoolOf(p)
  BY DEF PoolInv
<1>4. \A x \in Item : /\ \A k \in 1 .. count[p] : Append(item[p], x)[k] = item[p][k]
                      /\ Append(item[p], x)[i] = x
  BY <1>1, AppendProperties
<1> HIDE DEF i, o
<1>5. CASE o.kind \in Trades /\ AcceptTrade(p, i, o)
  <2>1. /\ item'[p] = Append(item[p], Fresh(o)) /\ withdrawMap' = withdrawMap
        /\ o.valid => /\ pool'[p] = pool[p] \cup {i} /\ swapMap'[p] = swapMap[p] \cup {i}
                      /\ refundMap'[p] = refundMap[p]
        /\ ~o.valid => /\ pool'[p] = pool[p] /\ swapMap'[p] = swapMap[p]
                       /\ refundMap'[p] = refundMap[p] \cup {i}
    BY <1>1, <1>2, <1>5 DEF AcceptTrade
  <2>2. /\ \A k \in 1 .. count[p] : item'[p][k] = item[p][k]
        /\ item'[p][i] = Fresh(o) /\ o = orders[i]
    <3>1. PICK x \in Item : x = Fresh(o)
      BY <1>1
    <3>2. item'[p] = Append(item[p], x)
      BY <2>1, <3>1
    <3>3. \A k \in 1 .. count[p] : item'[p][k] = item[p][k]
      BY <1>4, <3>2
    <3>4. item'[p][i] = x
      BY <1>4, <3>2
    <3>. QED
      BY <3>1, <3>3, <3>4 DEF o
  <2>3. PoolOf(p)'
    <3>1. CASE o.valid
      <4>1. /\ pool'[p] = pool[p] \cup {i} /\ swapMap'[p] = swapMap[p] \cup {i}
            /\ refundMap'[p] = refundMap[p] /\ withdrawMap' = withdrawMap
        BY <2>1, <3>1
      <4>2. item'[p][i].reason = "normal" /\ item'[p][i].done = "init" /\ orders[i].kind \in Trades
        BY <1>1, <1>5, <2>2, <3>1
      <4>3. \A k \in pool[p] : item'[p][k] = item[p][k]
        BY <1>2, <2>2
      <4>4. \A k \in pool'[p] : /\ item'[p][k].reason = "normal" /\ item'[p][k].done = "init"
                                 /\ orders[k].kind \in Trades
        BY <1>3, <4>1, <4>2, <4>3 DEF PoolOf
      <4>5. refundMap'[p] \cap pool'[p] = {}
        BY <1>2, <1>3, <4>1 DEF PoolOf
      <4>. QED
        BY <1>1, <1>3, <4>1, <4>4, <4>5 DEF PoolOf
    <3>2. CASE ~o.valid
      BY <1>1, <1>2, <1>3, <1>5, <2>1, <2>2, <3>2 DEF PoolOf
    <3>. QED
      BY <3>1, <3>2
  <2>. QED
    BY <1>1, <2>3, AcceptAt, PoolElsewhere
<1>6. CASE o.kind = "withdraw" /\ AcceptWithdraw(p, i, o)
  <2>1. /\ item'[p] = Append(item[p], Fresh(o)) /\ pool' = pool /\ swapMap' = swapMap
        /\ withdrawMap'[p] \subseteq withdrawMap[p] \cup {i}
        /\ refundMap'[p] \subseteq refundMap[p] \cup {i}
    BY <1>1, <1>2, <1>6 DEF AcceptWithdraw
  <2>2. \A k \in 1 .. count[p] : item'[p][k] = item[p][k]
    BY <1>1, <1>4, <2>1
  <2>3. PoolOf(p)'
    BY <1>1, <1>2, <1>3, <1>6, <2>1, <2>2 DEF PoolOf, o
  <2>. QED
    BY <1>1, <2>3, AcceptAt, PoolElsewhere
<1>7. CASE AcceptRefund(p, i, o)
  <2> DEFINE mine == Of(swapMap[p], o.addr)
             back == {j \in Open(p, mine) : item[p][j].reason = "normal"}
             f    == [j \in DOMAIN item[p] |->
                         IF j \in back THEN [item[p][j] EXCEPT !.reason = "refund"]
                         ELSE item[p][j]]
             x    == [Fresh(o) EXCEPT !.reason = "invalid", !.saved = "invalid", !.done = "dealt"]
  <2>1. CASE mine = {}
    <3>1. /\ item'[p] = Append(item[p], x) /\ pool' = pool /\ swapMap' = swapMap
          /\ withdrawMap' = withdrawMap /\ refundMap'[p] = refundMap[p] \cup {i}
      BY <1>1, <1>2, <1>7, <2>1 DEF AcceptRefund
    <3>2. x \in Item
      BY <1>1, FreshType
    <3> HIDE DEF x
    <3>3. \A k \in 1 .. count[p] : item'[p][k] = item[p][k]
      <4>1. PICK y \in Item : y = x
        BY <3>2
      <4>2. item'[p] = Append(item[p], y)
        BY <3>1, <4>1
      <4>3. \A k \in 1 .. count[p] : Append(item[p], y)[k] = item[p][k]
        BY <1>4
      <4>. QED
        BY <4>2, <4>3
    <3>4. PoolOf(p)'
      BY <1>1, <1>2, <1>3, <3>1, <3>3 DEF PoolOf
    <3>. QED
      BY <1>1, <3>4, AcceptAt, PoolElsewhere
  <2>2. CASE mine # {}
    <3>1. /\ item'[p] = Append(f, Fresh(o))
          /\ pool'[p] = pool[p] \ Of(pool[p], o.addr) /\ swapMap'[p] = swapMap[p] \ mine
          /\ withdrawMap' = withdrawMap /\ refundMap'[p] = refundMap[p] \cup back \cup {i}
      BY <1>1, <1>2, <1>7, <2>2 DEF AcceptRefund, TakenOut
    <3>2. back \subseteq Of(pool[p], o.addr) /\ mine = Of(pool[p], o.addr)
      BY <1>3 DEF Open, PoolOf, Of
    <3>3. f \in [1 .. count[p] -> Item]
      BY <1>1 DEF Item, Reasons
    <3>4. \A k \in 1 .. count[p] : k \notin back => f[k] = item[p][k]
      BY <1>1
    <3> HIDE DEF f, back, mine
    <3>5. \A k \in 1 .. count[p] : Append(f, Fresh(o))[k] = f[k]
      BY <1>1, <3>3, FunIsSeq, AppendProperties
    <3>6. \A k \in pool'[p] : item'[p][k] = item[p][k]
      BY <1>2, <3>1, <3>2, <3>4, <3>5
    <3>7. PoolOf(p)'
      <4>1. /\ pool'[p] \subseteq pool[p] /\ pool'[p] = swapMap'[p] /\ withdrawMap'[p] = withdrawMap[p]
            /\ refundMap'[p] \cap pool'[p] = {}
        BY <1>1, <1>2, <1>3, <3>1, <3>2 DEF PoolOf
      <4>2. \A k \in pool'[p] : /\ item'[p][k].reason = "normal" /\ item'[p][k].done = "init"
                                /\ orders'[k].kind \in Trades
        BY <1>1, <1>2, <1>3, <3>6, <4>1 DEF PoolOf
      <4>. QED
        BY <1>1, <1>2, <1>3, <4>1, <4>2 DEF PoolOf
    <3>. QED
      BY <1>1, <3>7, AcceptAt, PoolElsewhere
  <2>. QED
    BY <2>1, <2>2
<1>. QED
  BY <1>5, <1>6, <1>7 DEF Accept, i, o

LEMMA MatchPool ==
  ASSUME TypeInv, PoolInv, NEW p \in Parties, MatchOrders(p)
  PROVE  PoolInv'
<1>1. PICK b \in Live(p), s \in Live(p), xb \in Item, xs \in Item :
         /\ item' = [item EXCEPT ![p] = [@ EXCEPT ![b] = xb, ![s] = xs]]
         /\ SameState(item[p][b], xb) /\ SameState(item[p][s], xs)
  BY MatchEffect DEF Buys, Sells
<1>2. UNCHANGED <<orders, count, pool, swapMap, refundMap, withdrawMap>>
  BY MatchFrame
<1>3. /\ item[p] \in [1 .. count[p] -> Item] /\ b \in 1 .. count[p] /\ s \in 1 .. count[p]
      /\ pool[p] \subseteq 1 .. count[p] /\ DOMAIN item = Parties
  BY BookFacts, InvParts DEF Live, BookTypes
<1>4. \A k \in 1 .. count[p] : item'[p][k].reason = item[p][k].reason /\ item'[p][k].done = item[p][k].done
  BY <1>1, <1>3 DEF SameState
<1>5. PoolOf(p)'
  <2>1. PoolOf(p)
    BY DEF PoolInv
  <2>2. \A k \in pool[p] : item'[p][k].reason = "normal" /\ item'[p][k].done = "init"
    BY <1>3, <1>4, <2>1 DEF PoolOf
  <2>. QED
    BY <1>2, <2>1, <2>2 DEF PoolOf
<1>. QED
  BY <1>2, <1>5, BooksAt, PoolElsewhere

LEMMA GenPool ==
  ASSUME TypeInv, PoolInv, NEW p \in Parties, NEW stage, NEW h, GenEffect(p, stage, h),
         UNCHANGED <<orders, count>>
  PROVE  PoolInv'
<1>1. /\ item[p] \in [1 .. count[p] -> Item] /\ pool[p] \subseteq 1 .. count[p] /\ DOMAIN item = Parties
      /\ DOMAIN refundMap = Parties
  BY BookFacts, InvParts DEF BookTypes, MapOK
<1>2. PoolOf(p)
  BY DEF PoolInv
<1>3. PoolOf(p)'
  <2>1. CASE stage = "refund"
    <3>1. Dropped(p, h) \subseteq refundMap[p]
      BY DEF Dropped
    <3>2. \A i \in pool[p] : item'[p][i] = item[p][i]
      <4>1. \A i \in pool[p] : i \in DOMAIN item[p] /\ i \notin Dropped(p, h)
        BY <1>1, <1>2, <3>1 DEF PoolOf
      <4>2. item'[p] = [i \in DOMAIN item[p] |->
                           IF i \in Dropped(p, h)
                           THEN [item[p][i] EXCEPT !.reason = "invalid", !.saved = "invalid",
                                                   !.done = "dealt"]
                           ELSE item[p][i]]
        BY <1>1, <2>1 DEF GenEffect
      <4>. QED
        BY <4>1, <4>2
    <3>3. UNCHANGED <<pool, swapMap, withdrawMap>> /\ refundMap'[p] \subseteq refundMap[p]
      BY <1>1, <2>1 DEF GenEffect
    <3>. QED
      BY <1>2, <3>2, <3>3 DEF PoolOf
  <2>2. CASE stage # "refund"
    BY <1>2, <2>2 DEF GenEffect, PoolOf
  <2>. QED
    BY <2>1, <2>2
<1>. QED
  BY <1>3, BooksAt, PoolElsewhere

LEMMA RecordPool ==
  ASSUME TypeInv, PoolInv, NEW p \in Parties, NEW t, t.stage \in Stages, Record(p, t),
         UNCHANGED <<orders, count>>
  PROVE  PoolInv'
<1>1. /\ item[p] \in [1 .. count[p] -> Item] /\ pool[p] \subseteq 1 .. count[p] /\ DOMAIN item = Parties
      /\ DOMAIN refundMap = Parties /\ DOMAIN pool = Parties /\ DOMAIN swapMap = Parties
      /\ DOMAIN withdrawMap = Parties
  BY BookFacts, InvParts DEF BookTypes, MapOK
<1>2. PoolOf(p)
  BY DEF PoolInv
<1>3. /\ pool'[p] = swapMap'[p] /\ pool'[p] \subseteq pool[p]
      /\ refundMap'[p] \subseteq refundMap[p] /\ withdrawMap'[p] \subseteq withdrawMap[p]
  <2>1. CASE t.stage = "deal"
    <3>1. /\ pool'[p] = pool[p] \ Covered(p, t) /\ swapMap'[p] = swapMap[p] \ Covered(p, t)
          /\ UNCHANGED <<refundMap, withdrawMap>>
      BY <1>1, <2>1 DEF Record, RecordDeal
    <3>. QED
      BY <1>2, <3>1 DEF PoolOf
  <2>2. CASE t.stage = "refund"
    <3>1. refundMap'[p] \subseteq refundMap[p] /\ UNCHANGED <<pool, swapMap, withdrawMap>>
      BY <1>1, <2>2 DEF Record, RecordRefund
    <3>. QED
      BY <1>2, <3>1 DEF PoolOf
  <2>3. CASE t.stage = "withdraw"
    <3>1. withdrawMap'[p] \subseteq withdrawMap[p] /\ UNCHANGED <<pool, swapMap, refundMap>>
      BY <1>1, <2>3 DEF Record, RecordWithdraw
    <3>. QED
      BY <1>2, <3>1 DEF PoolOf
  <2>. QED
    BY <2>1, <2>2, <2>3 DEF Stages
<1>4. \A i \in pool'[p] : item'[p][i] = item[p][i]
  <2>1. CASE t.stage = "deal"
    <3> DEFINE S == Covered(p, t)
               f == [i \in DOMAIN item[p] |->
                       IF i \in S THEN [item[p][i] EXCEPT !.done = "dealt", !.saved = item[p][i].reason]
                       ELSE item[p][i]]
    <3>1. item'[p] = f /\ pool'[p] = pool[p] \ S
      BY <1>1, <2>1 DEF Record, RecordDeal
    <3> HIDE DEF S
    <3>. QED
      BY <1>1, <3>1
  <2>2. CASE t.stage = "refund"
    <3> DEFINE S == {i \in UpTo(refundMap[p], t.height) : t.pays[Addr(i)] # Nothing}
               closed(i, x) == IF x.done # "init" THEN x
                               ELSE IF orders[i].kind = "refund" THEN [x EXCEPT !.done = "dealt"]
                               ELSE Refunded(x)
               f == [i \in DOMAIN item[p] |->
                       IF i \in S THEN [closed(i, item[p][i]) EXCEPT !.saved = item[p][i].reason]
                       ELSE item[p][i]]
    <3>1. item'[p] = f /\ pool'[p] = pool[p]
      BY <1>1, <2>2 DEF Record, RecordRefund
    <3>2. \A i \in pool[p] : i \notin S
      BY <1>2 DEF PoolOf, UpTo
    <3> HIDE DEF S, closed
    <3>. QED
      BY <1>1, <3>1, <3>2
  <2>3. CASE t.stage = "withdraw"
    <3> DEFINE S == PaidWithdraws(p, t)
               f == [i \in DOMAIN item[p] |->
                       IF i \in S
                       THEN [item[p][i] EXCEPT !.done = "dealt", !.saved = item[p][i].reason,
                                               !.ov = item[p][i].rv, !.oa = item[p][i].ra, !.rv = 0, !.ra = 0]
                       ELSE item[p][i]]
    <3>1. item'[p] = f /\ pool'[p] = pool[p]
      BY <1>1, <2>3 DEF Record, RecordWithdraw
    <3>2. \A i \in pool[p] : i \notin S
      BY <1>2 DEF PoolOf, PaidWithdraws, UpTo, Trades
    <3> HIDE DEF S
    <3>. QED
      BY <1>1, <3>1, <3>2
  <2>. QED
    BY <2>1, <2>2, <2>3 DEF Stages
<1>5. PoolOf(p)'
  BY <1>2, <1>3, <1>4 DEF PoolOf
<1>. QED
  BY <1>5, BooksAt, PoolElsewhere

LEMMA ReloadPool ==
  ASSUME TypeInv, PoolInv, NEW p \in Parties, Reload(p), UNCHANGED <<orders, count>>
  PROVE  PoolInv'
<1>1. /\ item[p] \in [1 .. count[p] -> Item] /\ DOMAIN item = Parties
      /\ DOMAIN refundMap = Parties /\ DOMAIN pool = Parties /\ DOMAIN swapMap = Parties
      /\ DOMAIN withdrawMap = Parties
  BY BookFacts, InvParts DEF BookTypes, MapOK
<1> DEFINE was(S) == {i \in DOMAIN item[p] : item[p][i].done = "init" /\ orders[i].kind \in S}
           sound  == {i \in DOMAIN item[p] : item[p][i].saved = "normal"}
<1>2. /\ pool'[p] = was(Trades) \cap sound /\ swapMap'[p] = was(Trades) \cap sound
      /\ withdrawMap'[p] = was({"withdraw"}) \cap sound
      /\ refundMap'[p] = was({"refund"}) \cup (was(Kinds) \ sound)
  BY <1>1 DEF Reload
<1>3. \A i \in 1 .. count[p] : item'[p][i].reason = item[p][i].saved /\ item'[p][i].done = item[p][i].done
  BY <1>1 DEF Reload, Item
<1>4. PoolOf(p)'
  <2>1. \A i \in pool'[p] : /\ item'[p][i].reason = "normal" /\ item'[p][i].done = "init"
                            /\ orders'[i].kind \in Trades
    BY <1>1, <1>2, <1>3
  <2>2. refundMap'[p] \cap pool'[p] = {} /\ \A i \in withdrawMap'[p] : orders'[i].kind = "withdraw"
    BY <1>2 DEF Trades
  <2>. QED
    BY <1>2, <2>1, <2>2 DEF PoolOf
<1>. QED
  BY <1>4, BooksAt, PoolElsewhere

LEMMA OrdersStay ==
  ASSUME TypeInv, NEW b \in Blocks, NewBlock(b)
  PROVE  \A i \in DOMAIN orders : orders'[i] = orders[i]
<1> DEFINE new == [k \in DOMAIN b |->
                     [kind |-> b[k].kind, addr |-> b[k].addr, price |-> b[k].price,
                      value |-> b[k].value, amt |-> b[k].amt, want |-> b[k].want,
                      fee |-> b[k].fee, dest |-> b[k].dest, valid |-> b[k].valid, h |-> tip + 1]]
<1>1. b \in Seq(Invocation) /\ DOMAIN b = 1 .. Len(b) /\ Len(b) \in Nat
  BY BlocksAssumption, LenProperties
<1>2. orders' = orders \o new
  BY DEF NewBlock
<1>3. \A k \in DOMAIN b : new[k] \in {new[n] : n \in DOMAIN b}
  OBVIOUS
<1>4. new \in [1 .. Len(b) -> {new[n] : n \in DOMAIN b}]
  BY <1>1
<1> HIDE DEF new
<1> DEFINE R == {new[n] : n \in DOMAIN b} \cup Placed
<1>5. new \in Seq({new[n] : n \in DOMAIN b}) /\ orders \in Seq(Placed)
  BY <1>1, <1>4, FunIsSeq, BookFacts DEF Parties
<1>6. new \in Seq(R) /\ orders \in Seq(R)
  BY <1>5, SeqMonotonic
<1>7. DOMAIN orders = 1 .. Len(orders) /\ Len(orders) \in Nat /\ Len(new) \in Nat
  BY <1>5, LenProperties
<1> HIDE DEF R
<1>8. \A i \in 1 .. Len(orders) + Len(new) :
         (orders \o new)[i] = IF i <= Len(orders) THEN orders[i] ELSE new[i - Len(orders)]
  BY <1>6, ConcatProperties
<1>. QED
  BY <1>2, <1>7, <1>8

-----------------------------------------------------------------------------
(* What the sellers get.                                                   *)

\* SellerGetsPrice is inductive once it is said that a seller never holds
\* satoshis of his own, and that nothing is set aside for him as long as
\* something remains to be sold: the last match overwrites what was set aside.
PriceKept(x, o) ==
    /\ x.rv = 0
    /\ x.ra # 0 => x.oa = 0
    /\ 2 * x.ov >= o.price * (o.amt - x.ra - x.oa)

SellerInv ==
    \A p \in Parties : \A i \in 1 .. count[p] :
        orders[i].kind = "sell" => PriceKept(item[p][i], orders[i])

SameAmounts(x, y) == y.rv = x.rv /\ y.ra = x.ra /\ y.ov = x.ov /\ y.oa = x.oa
PaidOut(x, y) == y.rv = 0 /\ y.ra = 0 /\ y.ov = x.ov + x.rv /\ y.oa = x.oa + x.ra

LEMMA KeepsPrice ==
  ASSUME NEW x \in Item, NEW y \in Item, NEW o \in Placed, PriceKept(x, o),
         SameAmounts(x, y) \/ PaidOut(x, y)
  PROVE  PriceKept(y, o)
<1>1. /\ x.rv \in Int /\ x.ra \in Int /\ x.ov \in Int /\ x.oa \in Int
      /\ o.amt \in Int /\ o.price \in Int
  BY DEF Item, Placed
<1>2. CASE SameAmounts(x, y)
  BY <1>2 DEF SameAmounts, PriceKept
<1>3. CASE PaidOut(x, y)
  <2>1. y.rv = 0 /\ y.ra = 0 /\ y.ov = x.ov /\ o.amt - y.ra - y.oa = o.amt - x.ra - x.oa
    BY <1>1, <1>3 DEF PaidOut, PriceKept
  <2>. QED
    BY <2>1 DEF PriceKept
<1>. QED
  BY <1>2, <1>3

LEMMA CeilingCovers ==
  ASSUME NEW n \in Int
  PROVE  Ceil2(n) \in Int /\ 2 * Ceil2(n) >= n
BY DEF Ceil2

LEMMA Distributes ==
  ASSUME NEW a \in Int, NEW b \in Int, NEW c \in Int
  PROVE  a * (b + c) = a * b + c * a /\ a * b \in Int /\ c * a \in Int
OBVIOUS

LEMMA SaleKeepsPrice ==
  ASSUME NEW x \in Item, NEW y \in Item, NEW o \in Placed, PriceKept(x, o), x.ra # 0,
         NEW amt \in Int, SoldAt(x, y, o.price, amt)
  PROVE  PriceKept(y, o)
<1>1. /\ x.rv \in Int /\ x.ra \in Int /\ x.ov \in Int /\ x.oa = 0
      /\ o.amt \in Int /\ o.price \in Int
  BY DEF Item, Placed, PriceKept
<1>2. PICK sold \in Int : sold = o.amt - x.ra
  BY <1>1
<1>3. o.amt - x.ra - x.oa = sold /\ o.amt - y.ra - y.oa = sold + amt
  BY <1>1, <1>2 DEF SoldAt
<1>4. PICK n \in Int, m \in Int : n = amt * o.price /\ m = o.price * sold
  BY <1>1, <1>2, Distributes
<1>5. o.price * (sold + amt) = m + n
  BY <1>1, <1>4, Distributes
<1>6. 2 * x.ov >= m
  BY <1>3, <1>4 DEF PriceKept
<1>7. y.ov = x.ov + Ceil2(n)
  BY <1>4 DEF SoldAt
<1>8. 2 * y.ov >= m + n
  BY <1>1, <1>6, <1>7, CeilingCovers
<1>9. y.rv = 0 /\ (y.ra # 0 => y.oa = 0)
  BY <1>1 DEF SoldAt, PriceKept
<1>. QED
  BY <1>3, <1>5, <1>8, <1>9 DEF PriceKept

LEMMA FreshKeepsPrice ==
  ASSUME NEW o \in Placed, o.kind = "sell", NEW x \in Item, SameAmounts(Fresh(o), x)
  PROVE  PriceKept(x, o)
<1>1. o.amt \in Int /\ o.price \in Int
  BY DEF Placed
<1>2. x.rv = 0 /\ x.ov = 0 /\ x.oa = 0 /\ x.ra = o.amt
  BY FreshType DEF SameAmounts
<1>3. o.amt - x.ra - x.oa = 0 /\ o.price * 0 = 0
  BY <1>1, <1>2
<1>. QED
  BY <1>2, <1>3 DEF PriceKept

LEMMA SellerElsewhere ==
  ASSUME SellerInv, NEW p \in Parties, OnlyAt(p), UNCHANGED orders,
         \A i \in 1 .. count'[p] : orders[i].kind = "sell" => PriceKept(item'[p][i], orders[i])
  PROVE  SellerInv'
BY DEF SellerInv, OnlyAt, PriceKept

\* The items of a party change in nothing but their state, or are paid out.
LEMMA SellerStays ==
  ASSUME TypeInv, SellerInv, NEW p \in Parties, OnlyAt(p), UNCHANGED <<orders, count>>, BookTypes',
         \A i \in 1 .. count[p] : orders[i].kind = "sell" =>
            (SameAmounts(item[p][i], item'[p][i]) \/ PaidOut(item[p][i], item'[p][i]))
  PROVE  SellerInv'
<1>1. SUFFICES ASSUME NEW i \in 1 .. count[p], orders[i].kind = "sell"
               PROVE  PriceKept(item'[p][i], orders[i])
  BY SellerElsewhere
<1>2. item[p][i] \in Item /\ orders[i] \in Placed
  BY BookFacts
<1>3. item'[p][i] \in Item
  <2>1. item'[p] \in Seq(Item) /\ Len(item'[p]) = count[p]
    BY DEF BookTypes
  <2>. QED
    BY <2>1, ElementOfSeq
<1>. QED
  BY <1>1, <1>2, <1>3, KeepsPrice DEF SellerInv

LEMMA GenSeller ==
  ASSUME TypeInv, SellerInv, NEW p \in Parties, NEW stage, NEW h, GenEffect(p, stage, h),
         UNCHANGED <<orders, count>>
  PROVE  SellerInv'
<1>1. item[p] \in [1 .. count[p] -> Item] /\ DOMAIN item = Parties
  BY BookFacts, InvParts DEF BookTypes
<1>2. \A i \in 1 .. count[p] : SameAmounts(item[p][i], item'[p][i])
  <2>1. CASE stage = "refund"
    <3> DEFINE D == Dropped(p, h)
               f == [i \in DOMAIN item[p] |->
                       IF i \in D
                       THEN [item[p][i] EXCEPT !.reason = "invalid", !.saved = "invalid", !.done = "dealt"]
                       ELSE item[p][i]]
    <3>1. item'[p] = f
      BY <1>1, <2>1 DEF GenEffect
    <3> HIDE DEF D
    <3>3. ASSUME NEW k \in 1 .. count[p]
          PROVE  SameAmounts(item[p][k], item'[p][k])
      <4>1. PICK x \in Item : x = item[p][k]
        BY <1>1
      <4>2. PICK y : y = [x EXCEPT !.reason = "invalid", !.saved = "invalid", !.done = "dealt"]
        OBVIOUS
      <4>3. SameAmounts(x, y) /\ SameAmounts(x, x)
        BY <4>2 DEF SameAmounts, Item
      <4>4. item'[p][k] = IF k \in D THEN y ELSE x
        BY <1>1, <3>1, <4>1, <4>2
      <4>. QED
        BY <4>1, <4>3, <4>4
    <3>. QED
      BY <3>3
  <2>2. CASE stage # "refund"
    BY <2>2 DEF GenEffect, SameAmounts
  <2>. QED
    BY <2>1, <2>2
<1>. QED
  BY <1>2, BooksAt, GenTypes, SellerStays

LEMMA RecordSeller ==
  ASSUME TypeInv, PoolInv, SellerInv, NEW p \in Parties, NEW t, t.stage \in Stages, Record(p, t),
         UNCHANGED <<orders, count>>
  PROVE  SellerInv'
<1>1. item[p] \in [1 .. count[p] -> Item] /\ DOMAIN item = Parties
  BY BookFacts, InvParts DEF BookTypes
<1>2. ASSUME NEW k \in 1 .. count[p], orders[k].kind = "sell"
      PROVE  SameAmounts(item[p][k], item'[p][k]) \/ PaidOut(item[p][k], item'[p][k])
  <2>1. CASE t.stage = "deal"
    <3> DEFINE S == Covered(p, t)
               f == [i \in DOMAIN item[p] |->
                       IF i \in S THEN [item[p][i] EXCEPT !.done = "dealt", !.saved = item[p][i].reason]
                       ELSE item[p][i]]
    <3>1. item'[p] = f
      BY <1>1, <2>1 DEF Record, RecordDeal
    <3> HIDE DEF S
    <3>2. PICK x \in Item : x = item[p][k]
      BY <1>1
    <3>3. PICK y : y = [x EXCEPT !.done = "dealt", !.saved = x.reason]
      OBVIOUS
    <3>4. SameAmounts(x, y) /\ SameAmounts(x, x)
      BY <3>3 DEF SameAmounts, Item
    <3>5. item'[p][k] = IF k \in S THEN y ELSE x
      BY <1>1, <3>1, <3>2, <3>3
    <3>. QED
      BY <3>2, <3>4, <3>5
  <2>2. CASE t.stage = "refund"
    <3> DEFINE S == {i \in UpTo(refundMap[p], t.height) : t.pays[Addr(i)] # Nothing}
               closed(i, x) == IF x.done # "init" THEN x
                               ELSE IF orders[i].kind = "refund" THEN [x EXCEPT !.done = "dealt"]
                               ELSE Refunded(x)
               f == [i \in DOMAIN item[p] |->
                       IF i \in S THEN [closed(i, item[p][i]) EXCEPT !.saved = item[p][i].reason]
                       ELSE item[p][i]]
    <3>1. item'[p] = f
      BY <1>1, <2>2 DEF Record, RecordRefund
    <3>2. PICK x \in Item : x = item[p][k]
      BY <1>1
    <3>3. closed(k, x) \in {x, Refunded(x)}
      BY <1>2
    <3>4. PaidOut(x, Refunded(x)) /\ Refunded(x) \in Item
      BY ItemChanges DEF PaidOut, Refunded, Item
    <3>5. \A y \in Item : \A s : SameAmounts(y, [y EXCEPT !.saved = s])
      BY DEF SameAmounts, Item
    <3>6. item'[p][k] = IF k \in S THEN [closed(k, x) EXCEPT !.saved = x.reason] ELSE x
      BY <1>1, <3>1, <3>2
    <3> HIDE DEF S, closed
    <3>7. CASE item'[p][k] = x
      BY <3>2, <3>7 DEF SameAmounts
    <3>8. CASE item'[p][k] = [x EXCEPT !.saved = x.reason]
      BY <3>2, <3>5, <3>8
    <3>9. CASE item'[p][k] = [Refunded(x) EXCEPT !.saved = x.reason]
      BY <3>2, <3>4, <3>5, <3>9 DEF SameAmounts, PaidOut
    <3>. QED
      BY <3>3, <3>6, <3>7, <3>8, <3>9
  <2>3. CASE t.stage = "withdraw"
    <3> DEFINE S == PaidWithdraws(p, t)
               f == [i \in DOMAIN item[p] |->
                       IF i \in S
                       THEN [item[p][i] EXCEPT !.done = "dealt", !.saved = item[p][i].reason,
                                               !.ov = item[p][i].rv, !.oa = item[p][i].ra, !.rv = 0, !.ra = 0]
                       ELSE item[p][i]]
    <3>1. item'[p] = f
      BY <1>1, <2>3 DEF Record, RecordWithdraw
    <3>2. k \notin S
      BY <1>2 DEF PoolInv, PoolOf, PaidWithdraws, UpTo
    <3> HIDE DEF S
    <3>. QED
      BY <1>1, <3>1, <3>2 DEF SameAmounts
  <2>. QED
    BY <2>1, <2>2, <2>3 DEF Stages
<1>. QED
  BY <1>2, BooksAt, RecordTypes, SellerStays

LEMMA ReloadAmounts ==
  ASSUME TypeInv, NEW p \in Parties, Reload(p)
  PROVE  \A i \in 1 .. count[p] : SameAmounts(item[p][i], item'[p][i])
<1>1. item[p] \in [1 .. count[p] -> Item] /\ DOMAIN item = Parties
  BY BookFacts, InvParts DEF BookTypes
<1>. QED
  BY <1>1 DEF Reload, SameAmounts, Item

LEMMA ReloadSeller ==
  ASSUME TypeInv, SellerInv, NEW p \in Parties, Reload(p), UNCHANGED <<orders, count>>
  PROVE  SellerInv'
BY ReloadAmounts, BooksAt, ReloadTypes, SellerStays

LEMMA MatchSeller ==
  ASSUME TypeInv, SellerInv, NEW p \in Parties, MatchOrders(p)
  PROVE  SellerInv'
<1>1. PICK b \in Buys(Live(p)), s \in Sells(Live(p)), xb \in Item, xs \in Item, amt \in Int :
         /\ item' = [item EXCEPT ![p] = [@ EXCEPT ![b] = xb, ![s] = xs]]
         /\ SoldAt(item[p][s], xs, orders[s].price, amt)
  BY MatchEffect
<1>2. UNCHANGED <<orders, count>>
  BY MatchFrame
<1>3. /\ item[p] \in [1 .. count[p] -> Item] /\ b \in 1 .. count[p] /\ s \in 1 .. count[p]
      /\ DOMAIN item = Parties /\ orders[b].kind = "buy" /\ orders[s].kind = "sell" /\ b # s
      /\ orders[s] \in Placed
  BY BookFacts, InvParts DEF Live, Buys, Sells, BookTypes
<1>4. item[p][s].ra # 0
  BY <1>3 DEF Sells, Live, Exhausted
<1>5. PriceKept(xs, orders[s])
  BY <1>1, <1>3, <1>4, SaleKeepsPrice DEF SellerInv
<1>6. \A i \in 1 .. count'[p] : orders[i].kind = "sell" => PriceKept(item'[p][i], orders[i])
  BY <1>1, <1>2, <1>3, <1>5 DEF SellerInv
<1>. QED
  BY <1>2, <1>6, BooksAt, SellerElsewhere

LEMMA AcceptSeller ==
  ASSUME TypeInv, SellerInv, NEW p \in Parties, Accept(p)
  PROVE  SellerInv'
<1> DEFINE i == count[p] + 1
           o == orders[i]
<1>1. /\ i \in DOMAIN orders /\ o \in Placed /\ UNCHANGED orders /\ count'[p] = i
      /\ count[p] \in Nat /\ item[p] \in [1 .. count[p] -> Item] /\ DOMAIN item = Parties
      /\ Fresh(o) \in Item
  BY BookFacts, FreshType, InvParts DEF Accept, Accepted, BookTypes
<1> HIDE DEF o, i
<1>2. PICK f \in [1 .. count[p] -> Item], x \in Item :
         /\ item' = [item EXCEPT ![p] = Append(f, x)]
         /\ SameAmounts(Fresh(o), x)
         /\ \A k \in 1 .. count[p] : SameAmounts(item[p][k], f[k])
  <2>1. CASE AcceptTrade(p, i, o) \/ AcceptWithdraw(p, i, o)
    <3>1. item' = [item EXCEPT ![p] = Append(item[p], Fresh(o))]
      BY <2>1 DEF AcceptTrade, AcceptWithdraw
    <3>2. \A y : SameAmounts(y, y)
      BY DEF SameAmounts
    <3>. QED
      BY <1>1, <3>1, <3>2
  <2>2. CASE AcceptRefund(p, i, o)
    <3> DEFINE mine == Of(swapMap[p], o.addr)
               back == {j \in Open(p, mine) : item[p][j].reason = "normal"}
               f    == [j \in DOMAIN item[p] |->
                           IF j \in back THEN [item[p][j] EXCEPT !.reason = "refund"]
                           ELSE item[p][j]]
               x    == [Fresh(o) EXCEPT !.reason = "invalid", !.saved = "invalid", !.done = "dealt"]
    <3>1. CASE mine = {}
      <4>1. item' = [item EXCEPT ![p] = Append(item[p], x)]
        BY <2>2, <3>1 DEF AcceptRefund
      <4>2. x \in Item /\ SameAmounts(Fresh(o), x)
        BY <1>1, FreshType DEF SameAmounts, Item
      <4>3. \A y : SameAmounts(y, y)
        BY DEF SameAmounts
      <4> HIDE DEF x
      <4>. QED
        BY <1>1, <4>1, <4>2, <4>3
    <3>2. CASE mine # {}
      <4>1. item' = [item EXCEPT ![p] = Append(f, Fresh(o))]
        BY <2>2, <3>2 DEF AcceptRefund
      <4>2. f \in [1 .. count[p] -> Item]
        BY <1>1 DEF Item, Reasons
      <4>3. \A k \in 1 .. count[p] : SameAmounts(item[p][k], f[k])
        <5> HIDE DEF back
        <5>. QED  BY <1>1 DEF SameAmounts, Item
      <4>4. SameAmounts(Fresh(o), Fresh(o))
        BY DEF SameAmounts
      <4> HIDE DEF f
      <4>. QED
        BY <1>1, <4>1, <4>2, <4>3, <4>4
    <3>. QED
      BY <3>1, <3>2
  <2>. QED
    BY <2>1, <2>2 DEF Accept, i, o
<1>3. /\ \A k \in 1 .. count[p] : item'[p][k] = f[k]
      /\ item'[p][count[p] + 1] = x
  <2>1. f \in Seq(Item) /\ Len(f) = count[p]
    BY <1>1, <1>2, FunIsSeq
  <2>2. item'[p] = Append(f, x)
    BY <1>1, <1>2
  <2>. QED
    BY <2>1, <2>2, AppendProperties
<1>4. ASSUME NEW k \in 1 .. count'[p], orders[k].kind = "sell"
      PROVE  PriceKept(item'[p][k], orders[k])
  <2>1. CASE k = i
    <3>1. item'[p][k] = x /\ orders[k] = o
      BY <1>3, <2>1 DEF i, o
    <3>. QED
      BY <1>1, <1>2, <1>4, <3>1, FreshKeepsPrice
  <2>2. CASE k # i
    <3>1. k \in 1 .. count[p]
      BY <1>1, <2>2 DEF i
    <3>2. f[k] \in Item /\ item[p][k] \in Item /\ orders[k] \in Placed
      BY <1>1, <1>2, <3>1, BookFacts
    <3>. QED
      BY <1>2, <1>3, <1>4, <3>1, <3>2, KeepsPrice DEF SellerInv
  <2>. QED
    BY <2>1, <2>2
<1>. QED
  BY <1>1, <1>4, AcceptAt, SellerElsewhere

-----------------------------------------------------------------------------
(* Both invariants along every step.                                       *)

BooksInv == TypeInv /\ PoolInv /\ SellerInv

LEMMA InitBooks == Init => BooksInv
<1> SUFFICES ASSUME Init PROVE BooksInv
  OBVIOUS
<1>1. PoolInv /\ SellerInv
  BY DEF Init, PoolInv, PoolOf, SellerInv
<1>. QED
  BY <1>1, InitType DEF BooksInv

LEMMA SameBooks ==
  ASSUME BooksInv, UNCHANGED <<item, pool, swapMap, refundMap, withdrawMap, count>>,
         \A i \in DOMAIN orders : orders'[i] = orders[i]
  PROVE  PoolInv' /\ SellerInv'
<1>1. \A p \in Parties : /\ 1 .. count[p] \subseteq DOMAIN orders /\ pool[p] \subseteq DOMAIN orders
                         /\ withdrawMap[p] \subseteq DOMAIN orders
  BY BookFacts DEF BooksInv
<1>. QED
  BY <1>1 DEF BooksInv, PoolInv, PoolOf, SellerInv

LEMMA NextBooks == BooksInv /\ [Next]_vars => BooksInv'
<1> SUFFICES ASSUME BooksInv, [Next]_vars PROVE PoolInv' /\ SellerInv'
  BY NextType DEF BooksInv
<1>1. TypeInv /\ PoolInv /\ SellerInv /\ Initiator \in Parties /\ Peer \in Parties
  BY DEF BooksInv, Parties
<1>2. CASE UNCHANGED vars
  BY <1>2, SameBooks DEF vars
<1>3. ASSUME NEW b \in Blocks, NewBlock(b)
      PROVE  PoolInv' /\ SellerInv'
  BY <1>1, <1>3, OrdersStay, SameBooks DEF NewBlock
<1>4. ASSUME NEW p \in Parties, Block(p)
      PROVE  PoolInv' /\ SellerInv'
  <2>1. CASE BeginBlock(p) \/ AcceptedAll(p) \/ CompleteBlock(p)
    BY <2>1, SameBooks DEF BeginBlock, AcceptedAll, CompleteBlock
  <2>2. CASE Accept(p)
    BY <1>1, <2>2, AcceptPool, AcceptSeller
  <2>3. CASE MatchOrders(p)
    BY <1>1, <2>3, MatchPool, MatchSeller
  <2>. QED
    BY <1>4, <2>1, <2>2, <2>3 DEF Block
<1>5. ASSUME NEW t \in Senders, Send(t)
      PROVE  PoolInv' /\ SellerInv'
  <2>1. CASE Enter(t) \/ Begin(t) \/ Answer(t)
    BY <2>1, SameBooks DEF Enter, Begin, Answer
  <2>2. CASE Gen(t)
    BY <1>1, <2>2, GenPool, GenSeller DEF Gen
  <2>3. CASE Sign(t)
    BY <1>1, <2>3, GenPool, GenSeller DEF Sign
  <2>4. CASE Refuse(t)
    <3>1. UNCHANGED <<orders, count>>
      BY <2>4 DEF Refuse
    <3>2. CASE GenEffect(Peer, sender[t].deal.stage, sender[t].deal.height)
      BY <1>1, <3>1, <3>2, GenPool, GenSeller
    <3>3. CASE UNCHANGED books
      BY <3>1, <3>3, SameBooks
    <3>. QED
      BY <2>4, <3>2, <3>3 DEF Refuse
  <2>5. CASE RecordOwn(t)
    <3>1. txs[sender[t].tx].stage \in Stages
      BY <1>1, <2>5 DEF TypeInv, TxsNamed, RecordOwn
    <3>. QED
      BY <1>1, <2>5, <3>1, RecordPool, RecordSeller DEF RecordOwn
  <2>. QED
    BY <1>5, <2>1, <2>2, <2>3, <2>4, <2>5 DEF Send
<1>6. ASSUME Results
      PROVE  PoolInv' /\ SellerInv'
  <2>1. PICK p \in Parties, n \in DOMAIN txs : Record(p, txs[n]) /\ UNCHANGED <<orders, count>>
    <3>1. CASE PeerRecord
      <4>1. signing \in DOMAIN txs
        BY <1>1, <3>1, InvParts, TxsFacts DEF PeerRecord, SendInv
      <4>. QED
        BY <1>1, <3>1, <4>1 DEF PeerRecord
    <3>2. CASE \E p \in Parties, n \in DOMAIN txs : Mined(p, n)
      BY <3>2 DEF Mined
    <3>. QED
      BY <1>6, <3>1, <3>2 DEF Results
  <2>2. txs[n].stage \in Stages
    BY <1>1 DEF TypeInv, TxsNamed
  <2>. QED
    BY <1>1, <2>1, <2>2, RecordPool, RecordSeller
<1>7. ASSUME Failures
      PROVE  PoolInv' /\ SellerInv'
  <2>1. ASSUME NEW t \in Senders, LoseAnswer(t)
        PROVE  PoolInv' /\ SellerInv'
    BY <2>1, SameBooks DEF LoseAnswer
  <2>2. ASSUME NEW p \in Parties, Crash(p)
        PROVE  PoolInv' /\ SellerInv'
    BY <1>1, <2>2, ReloadPool, ReloadSeller DEF Crash
  <2>. QED
    BY <1>7, <2>1, <2>2 DEF Failures
<1>. QED
  BY <1>2, <1>3, <1>4, <1>5, <1>6, <1>7 DEF Next

LEMMA BooksAlways == Spec => []BooksInv
BY InitBooks, NextBooks, PTL DEF Spec

\* The pools hold what swapMap holds, and only orders that are neither taken
\* back nor closed, through blocks, payments, records and reloads: nothing that
\* is being given back can be matched or dealt as well.
THEOREM PoolsAreNormal == Spec => []PoolIsNormal
<1>1. BooksInv => PoolIsNormal
  BY DEF BooksInv, PoolInv, PoolOf, PoolIsNormal
<1>. QED
  BY BooksAlways, <1>1, PTL

\* A seller gets his price for what was sold of his order, for every price,
\* amount and number of matches, and whatever the buyers leave.
THEOREM SellersGetTheirPrice == Spec => []SellerGetsPrice
<1>1. BooksInv => SellerGetsPrice
  <2>1. SUFFICES ASSUME BooksInv, NEW p \in Parties, NEW i \in Sells(DOMAIN item[p])
                 PROVE  2 * item[p][i].ov >=
                          orders[i].price * (orders[i].amt - item[p][i].ra - item[p][i].oa)
    BY DEF SellerGetsPrice
  <2>2. i \in 1 .. count[p] /\ orders[i].kind = "sell"
    BY <2>1, BookFacts DEF BooksInv, Sells
  <2>. QED
    BY <2>1, <2>2 DEF BooksInv, SellerInv, PriceKept
<1>. QED
  BY BooksAlways, <1>1, PTL

-----------------------------------------------------------------------------
(* Sums over finite sets.  MapThenSumSet is a recursive function on the    *)
(* subsets of its set; what is said of it below is found by looking at a   *)
(* smallest subset of which it would not hold.                             *)

LEMMA SmallestSet ==
  ASSUME NEW S, IsFiniteSet(S), NEW B \in SUBSET (SUBSET S), B # {}
  PROVE  \E s \in B : \A r \in B : r \subseteq s => r = s
<1> DEFINE T == {Cardinality(s) : s \in B}
<1>1. \A s \in B : IsFiniteSet(s) /\ Cardinality(s) \in Nat
  BY FS_Subset, FS_CardinalityType
<1>2. T \in SUBSET Nat /\ T # {}
  BY <1>1
<1>3. PICK k \in T : \A n \in T : k <= n
  <2> HIDE DEF T
  <2>. QED
    BY <1>2, NatHasLeast
<1>4. PICK s \in B : Cardinality(s) = k
  OBVIOUS
<1>5. ASSUME NEW r \in B, r \subseteq s, r # s
      PROVE  FALSE
  <2>1. Cardinality(r) < Cardinality(s)
    BY <1>1, <1>5, FS_Subset
  <2>2. Cardinality(s) <= Cardinality(r)
    BY <1>3, <1>4
  <2>. QED
    BY <1>1, <2>1, <2>2
<1>. QED
  BY <1>5

\* The member MapThenSumSet takes out of a set, and the function it recurs on.
Some(s) == CHOOSE x \in s : TRUE
Rest(s) == s \ {Some(s)}
IsSum(it, g, S) ==
    it = [s \in SUBSET S |-> IF s = {} THEN 0 ELSE g[Some(s)] + it[Rest(s)]]
AddUp(g, S) == MapThenSumSet(LAMBDA i : g[i], S)
Amounts(g, S) == \A i \in S : g[i] \in Int

LEMMA SomeIn ==
  ASSUME NEW s, s # {}
  PROVE  Some(s) \in s /\ Rest(s) \subseteq s /\ Rest(s) # s /\ Some(s) \notin Rest(s)
BY DEF Some, Rest

LEMMA IsSumAt ==
  ASSUME NEW it, NEW g, NEW S, IsSum(it, g, S), NEW s \in SUBSET S
  PROVE  it[s] = IF s = {} THEN 0 ELSE g[Some(s)] + it[Rest(s)]
BY DEF IsSum

\* Two such functions agree where both are defined.
LEMMA SumsAgree ==
  ASSUME NEW S, IsFiniteSet(S), NEW R \in SUBSET S, NEW g, NEW a, NEW b,
         IsSum(a, g, S), IsSum(b, g, R)
  PROVE  \A r \in SUBSET R : a[r] = b[r]
<1> DEFINE B == {r \in SUBSET R : a[r] # b[r]}
<1>1. SUFFICES ASSUME B # {} PROVE FALSE
  OBVIOUS
<1>2. IsFiniteSet(R)
  BY FS_Subset
<1>3. PICK s \in B : \A r \in B : r \subseteq s => r = s
  <2>1. B \in SUBSET (SUBSET R)
    OBVIOUS
  <2> HIDE DEF B
  <2>. QED
    BY <1>1, <1>2, <2>1, SmallestSet
<1>4. s \in SUBSET R /\ s \in SUBSET S /\ a[s] # b[s]
  OBVIOUS
<1>5. /\ a[s] = IF s = {} THEN 0 ELSE g[Some(s)] + a[Rest(s)]
      /\ b[s] = IF s = {} THEN 0 ELSE g[Some(s)] + b[Rest(s)]
  BY <1>4, IsSumAt
<1>6. s # {}
  BY <1>4, <1>5
<1>7. Rest(s) \in SUBSET R /\ Rest(s) \subseteq s /\ Rest(s) # s
  BY <1>4, <1>6, SomeIn
<1>8. a[Rest(s)] = b[Rest(s)]
  BY <1>3, <1>7
<1>. QED
  BY <1>4, <1>5, <1>8

\* There is one for every finite set.
LEMMA SumExists ==
  ASSUME NEW S, IsFiniteSet(S), NEW g
  PROVE  \E it : IsSum(it, g, S)
<1> DEFINE B == {s \in SUBSET S : ~ \E it : IsSum(it, g, s)}
<1>1. SUFFICES ASSUME B # {} PROVE FALSE
  OBVIOUS
<1>2. PICK s \in B : \A r \in B : r \subseteq s => r = s
  <2>1. B \in SUBSET (SUBSET S)
    OBVIOUS
  <2> HIDE DEF B
  <2>. QED
    BY <1>1, <2>1, SmallestSet
<1>3. s \in SUBSET S /\ ~ \E it : IsSum(it, g, s)
  OBVIOUS
<1> DEFINE h == [r \in SUBSET s |-> CHOOSE it : IsSum(it, g, r)]
<1>4. \A r \in SUBSET s : r # s => IsSum(h[r], g, r)
  <2>1. SUFFICES ASSUME NEW r \in SUBSET s, r # s PROVE IsSum(h[r], g, r)
    OBVIOUS
  <2>2. \E it : IsSum(it, g, r)
    BY <1>2, <1>3, <2>1
  <2>3. IsSum(CHOOSE it : IsSum(it, g, r), g, r)
    BY <2>2
  <2>. QED
    BY <2>3
<1> HIDE DEF h, B
<1> DEFINE it == [r \in SUBSET s |-> IF r = {} THEN 0 ELSE g[Some(r)] + h[Rest(r)][Rest(r)]]
<1>5. ASSUME NEW q \in SUBSET s, q # s
      PROVE  it[q] = h[q][q]
  <2>1. h[q][q] = IF q = {} THEN 0 ELSE g[Some(q)] + h[q][Rest(q)]
    BY <1>4, <1>5, IsSumAt
  <2>2. CASE q = {}
    BY <2>1, <2>2
  <2>3. CASE q # {}
    <3>1. Rest(q) \in SUBSET q /\ Rest(q) \in SUBSET s /\ Rest(q) # s
      BY <1>5, <2>3, SomeIn
    <3>2. IsFiniteSet(q) /\ IsSum(h[q], g, q) /\ IsSum(h[Rest(q)], g, Rest(q))
      BY <1>3, <1>4, <1>5, <3>1, FS_Subset
    <3>3. h[q][Rest(q)] = h[Rest(q)][Rest(q)]
      BY <3>1, <3>2, SumsAgree
    <3>. QED
      BY <2>1, <2>3, <3>3
  <2>. QED
    BY <2>2, <2>3
<1>6. \A r \in SUBSET s : r # {} => it[Rest(r)] = h[Rest(r)][Rest(r)]
  <2>1. \A r \in SUBSET s : r # {} => Rest(r) \in SUBSET s /\ Rest(r) # s
    <3>1. SUFFICES ASSUME NEW r \in SUBSET s, r # {} PROVE Rest(r) \in SUBSET s /\ Rest(r) # s
      OBVIOUS
    <3>. QED
      BY <3>1, SomeIn
  <2> HIDE DEF it
  <2>. QED
    BY <1>5, <2>1
<1>7. it = [r \in SUBSET s |-> IF r = {} THEN 0 ELSE g[Some(r)] + it[Rest(r)]]
  <2>1. \A r \in SUBSET s : it[r] = IF r = {} THEN 0 ELSE g[Some(r)] + it[Rest(r)]
    BY <1>6
  <2>2. it = [r \in SUBSET s |-> it[r]]
    OBVIOUS
  <2> HIDE DEF it
  <2>. QED
    BY <2>1, <2>2
<1>8. IsSum(it, g, s)
  BY <1>7 DEF IsSum
<1>. QED
  BY <1>3, <1>8

\* AddUp is the value of that function.
LEMMA AddsUp ==
  ASSUME NEW S, IsFiniteSet(S), NEW g, NEW it, IsSum(it, g, S)
  PROVE  \A s \in SUBSET S : AddUp(g, s) = it[s]
<1> SUFFICES ASSUME NEW s \in SUBSET S PROVE AddUp(g, s) = it[s]
  OBVIOUS
<1>1. IsFiniteSet(s)
  BY FS_Subset
<1>2. IsSum(CHOOSE jt : IsSum(jt, g, s), g, s)
  BY <1>1, SumExists
<1>3. AddUp(g, s) = (CHOOSE jt : IsSum(jt, g, s))[s]
  BY DEF AddUp, MapThenSumSet, MapThenFoldSet, IsSum, Some, Rest
<1>4. it[s] = (CHOOSE jt : IsSum(jt, g, s))[s]
  BY <1>2, SumsAgree
<1>. QED
  BY <1>3, <1>4

\* A sum is an integer, and one can take any of its parts out.
LEMMA AddUpAt ==
  ASSUME NEW S, IsFiniteSet(S), NEW g
  PROVE  \A s \in SUBSET S : AddUp(g, s) = IF s = {} THEN 0 ELSE g[Some(s)] + AddUp(g, Rest(s))
<1> SUFFICES ASSUME NEW s \in SUBSET S
             PROVE  AddUp(g, s) = IF s = {} THEN 0 ELSE g[Some(s)] + AddUp(g, Rest(s))
  OBVIOUS
<1>1. PICK it : IsSum(it, g, S)
  BY SumExists
<1>2. \A r \in SUBSET S : AddUp(g, r) = it[r]
  BY <1>1, AddsUp
<1>3. it[s] = IF s = {} THEN 0 ELSE g[Some(s)] + it[Rest(s)]
  BY <1>1, IsSumAt
<1>4. Rest(s) \in SUBSET S
  BY DEF Rest
<1>. QED
  BY <1>2, <1>3, <1>4

LEMMA AddUpEmpty == \A g : AddUp(g, {}) = 0
BY AddUpAt, FS_EmptySet

LEMMA AddUpType ==
  ASSUME NEW S, IsFiniteSet(S), NEW g, Amounts(g, S)
  PROVE  AddUp(g, S) \in Int
<1> DEFINE B == {s \in SUBSET S : AddUp(g, s) \notin Int}
<1>1. SUFFICES ASSUME B # {} PROVE FALSE
  OBVIOUS
<1>2. PICK s \in B : \A r \in B : r \subseteq s => r = s
  <2>1. B \in SUBSET (SUBSET S)
    OBVIOUS
  <2> HIDE DEF B
  <2>. QED
    BY <1>1, <2>1, SmallestSet
<1>3. s \in SUBSET S /\ AddUp(g, s) \notin Int
  OBVIOUS
<1>4. s # {}
  BY <1>3, AddUpEmpty
<1>5. Rest(s) \subseteq s /\ Rest(s) # s /\ Some(s) \in s
  BY <1>4, SomeIn
<1>6. AddUp(g, Rest(s)) \in Int
  BY <1>2, <1>3, <1>5
<1>7. g[Some(s)] \in Int
  BY <1>3, <1>5 DEF Amounts
<1>8. AddUp(g, s) = g[Some(s)] + AddUp(g, Rest(s))
  BY <1>3, <1>4, AddUpAt
<1>. QED
  BY <1>3, <1>6, <1>7, <1>8

LEMMA AddUpTake ==
  ASSUME NEW S, IsFiniteSet(S), NEW g, Amounts(g, S)
  PROVE  \A x \in S : AddUp(g, S) = g[x] + AddUp(g, S \ {x})
<1> DEFINE B == {s \in SUBSET S : \E x \in s : AddUp(g, s) # g[x] + AddUp(g, s \ {x})}
<1>1. SUFFICES ASSUME B # {} PROVE FALSE
  <2>1. S \in B \/ \A x \in S : AddUp(g, S) = g[x] + AddUp(g, S \ {x})
    OBVIOUS
  <2> HIDE DEF B
  <2>. QED
    BY <2>1
<1>2. PICK s \in B : \A r \in B : r \subseteq s => r = s
  <2>1. B \in SUBSET (SUBSET S)
    OBVIOUS
  <2> HIDE DEF B
  <2>. QED
    BY <1>1, <2>1, SmallestSet
<1>3. s \in SUBSET S
  OBVIOUS
<1>4. PICK x \in s : AddUp(g, s) # g[x] + AddUp(g, s \ {x})
  OBVIOUS
<1>5. /\ Some(s) \in s /\ Rest(s) \subseteq s /\ Rest(s) # s /\ Rest(s) \in SUBSET S
      /\ Rest(s) = s \ {Some(s)}
  BY <1>3, <1>4, SomeIn DEF Rest
<1>6. AddUp(g, s) = g[Some(s)] + AddUp(g, Rest(s))
  BY <1>3, <1>4, AddUpAt
<1>7. x # Some(s)
  BY <1>4, <1>5, <1>6
<1>8. \A y \in Rest(s) : AddUp(g, Rest(s)) = g[y] + AddUp(g, Rest(s) \ {y})
  <2>1. Rest(s) \notin B
    <3> HIDE DEF B
    <3>. QED
      BY <1>2, <1>5
  <2>. QED
    BY <1>5, <2>1
<1>9. s \ {x} \in SUBSET S /\ s \ {x} # s /\ s \ {x} \subseteq s /\ Some(s) \in s \ {x}
  BY <1>3, <1>4, <1>5, <1>7
<1>10. AddUp(g, s \ {x}) = g[Some(s)] + AddUp(g, (s \ {x}) \ {Some(s)})
  <2>1. s \ {x} \notin B
    <3> HIDE DEF B
    <3>. QED
      BY <1>2, <1>9
  <2>. QED
    BY <1>9, <2>1
<1>11. PICK r \in SUBSET S : r = Rest(s) \ {x}
  BY <1>5
<1>12. AddUp(g, Rest(s)) = g[x] + AddUp(g, r) /\ AddUp(g, s \ {x}) = g[Some(s)] + AddUp(g, r)
  <2>1. x \in Rest(s) /\ (s \ {x}) \ {Some(s)} = r
    BY <1>4, <1>5, <1>7, <1>11
  <2>. QED
    BY <1>8, <1>10, <1>11, <2>1
<1>13. g[x] \in Int /\ g[Some(s)] \in Int /\ AddUp(g, r) \in Int
  <2>1. IsFiniteSet(r) /\ Amounts(g, r)
    BY FS_Subset DEF Amounts
  <2>. QED
    BY <1>3, <1>4, <1>5, <2>1, AddUpType DEF Amounts
<1>. QED
  BY <1>4, <1>6, <1>12, <1>13

\* A sum depends on the parts alone.
LEMMA AddUpSame ==
  ASSUME NEW S, IsFiniteSet(S), NEW g, NEW h, \A i \in S : g[i] = h[i]
  PROVE  AddUp(g, S) = AddUp(h, S)
<1> DEFINE B == {s \in SUBSET S : AddUp(g, s) # AddUp(h, s)}
<1>1. SUFFICES ASSUME B # {} PROVE FALSE
  OBVIOUS
<1>2. PICK s \in B : \A r \in B : r \subseteq s => r = s
  <2>1. B \in SUBSET (SUBSET S)
    OBVIOUS
  <2> HIDE DEF B
  <2>. QED
    BY <1>1, <2>1, SmallestSet
<1>3. s \in SUBSET S /\ AddUp(g, s) # AddUp(h, s)
  OBVIOUS
<1>4. s # {}
  BY <1>3, AddUpEmpty
<1>5. Rest(s) \subseteq s /\ Rest(s) # s /\ Some(s) \in s
  BY <1>4, SomeIn
<1>6. AddUp(g, Rest(s)) = AddUp(h, Rest(s))
  BY <1>2, <1>3, <1>5
<1>7. g[Some(s)] = h[Some(s)]
  BY <1>3, <1>5
<1>8. /\ AddUp(g, s) = g[Some(s)] + AddUp(g, Rest(s))
      /\ AddUp(h, s) = h[Some(s)] + AddUp(h, Rest(s))
  BY <1>3, <1>4, AddUpAt
<1>. QED
  BY <1>3, <1>6, <1>7, <1>8

\* Two parts change: the sum changes by what they change.
LEMMA AddUpChange ==
  ASSUME NEW S, IsFiniteSet(S), NEW g, NEW h, Amounts(g, S), Amounts(h, S), NEW x \in S,
         \A i \in S \ {x} : g[i] = h[i]
  PROVE  AddUp(h, S) = AddUp(g, S) + (h[x] - g[x])
<1>1. IsFiniteSet(S \ {x}) /\ Amounts(g, S \ {x})
  BY FS_Subset DEF Amounts
<1>2. PICK n \in Int : n = AddUp(g, S \ {x}) /\ n = AddUp(h, S \ {x})
  BY <1>1, AddUpSame, AddUpType
<1>3. g[x] \in Int /\ h[x] \in Int
  BY DEF Amounts
<1>4. AddUp(g, S) = g[x] + AddUp(g, S \ {x})
  BY AddUpTake
<1>5. AddUp(h, S) = h[x] + AddUp(h, S \ {x})
  BY AddUpTake
<1>. QED
  BY <1>2, <1>3, <1>4, <1>5

LEMMA AddUpChangeTwo ==
  ASSUME NEW S, IsFiniteSet(S), NEW g, NEW h, Amounts(g, S), Amounts(h, S), NEW x \in S, NEW y \in S,
         x # y, \A i \in S \ {x, y} : g[i] = h[i]
  PROVE  AddUp(h, S) = AddUp(g, S) + (h[x] - g[x]) + (h[y] - g[y])
<1>1. PICK T : T = S \ {x}
  OBVIOUS
<1>2. /\ IsFiniteSet(T) /\ Amounts(g, T) /\ Amounts(h, T) /\ y \in T
      /\ \A i \in T \ {y} : g[i] = h[i]
  BY <1>1, FS_Subset DEF Amounts
<1>3. AddUp(h, T) = AddUp(g, T) + (h[y] - g[y]) /\ AddUp(g, T) \in Int
  BY <1>2, AddUpChange, AddUpType
<1>4. AddUp(g, S) = g[x] + AddUp(g, T) /\ AddUp(h, S) = h[x] + AddUp(h, T)
  BY <1>1, AddUpTake
<1>5. g[x] \in Int /\ h[x] \in Int /\ g[y] \in Int /\ h[y] \in Int
  BY DEF Amounts
<1>. QED
  BY <1>3, <1>4, <1>5

\* A set adds up to a part of it and the rest.
LEMMA AddUpSplit ==
  ASSUME NEW S, IsFiniteSet(S), NEW g, Amounts(g, S)
  PROVE  \A T \in SUBSET S : AddUp(g, S) = AddUp(g, T) + AddUp(g, S \ T)
<1> DEFINE B == {T \in SUBSET S : AddUp(g, S) # AddUp(g, T) + AddUp(g, S \ T)}
<1>1. SUFFICES ASSUME B # {} PROVE FALSE
  OBVIOUS
<1>2. PICK T \in B : \A r \in B : r \subseteq T => r = T
  <2>1. B \in SUBSET (SUBSET S)
    OBVIOUS
  <2> HIDE DEF B
  <2>. QED
    BY <1>1, <2>1, SmallestSet
<1>3. T \in SUBSET S /\ AddUp(g, S) # AddUp(g, T) + AddUp(g, S \ T)
  OBVIOUS
<1>4. \A r \in SUBSET S : IsFiniteSet(r) /\ Amounts(g, r) /\ AddUp(g, r) \in Int
  <2>1. \A r \in SUBSET S : IsFiniteSet(r) /\ Amounts(g, r)
    BY FS_Subset DEF Amounts
  <2>. QED
    BY <2>1, AddUpType
<1>5. T # {}
  <2>1. SUFFICES ASSUME T = {} PROVE FALSE
    OBVIOUS
  <2>2. PICK n \in Int : n = AddUp(g, S)
    BY <1>4
  <2>3. S \ T = S
    BY <2>1
  <2>4. AddUp(g, T) = 0 /\ AddUp(g, S \ T) = n
    BY <2>1, <2>2, <2>3, AddUpEmpty
  <2> HIDE DEF B
  <2>. QED
    BY <1>3, <2>2, <2>4
<1>6. PICK x \in T : TRUE
  BY <1>5
<1>7. PICK R \in SUBSET S : R = T \ {x}
  BY <1>3
<1>8. AddUp(g, S) = AddUp(g, R) + AddUp(g, S \ R)
  BY <1>2, <1>6, <1>7
<1>9. AddUp(g, T) = g[x] + AddUp(g, R)
  BY <1>3, <1>4, <1>6, <1>7, AddUpTake
<1>10. AddUp(g, S \ R) = g[x] + AddUp(g, S \ T)
  <2>1. S \ R \in SUBSET S /\ x \in S \ R /\ (S \ R) \ {x} = S \ T
    BY <1>3, <1>6, <1>7
  <2>. QED
    BY <1>4, <2>1, AddUpTake
<1>11. g[x] \in Int /\ AddUp(g, R) \in Int /\ AddUp(g, S \ T) \in Int
  BY <1>3, <1>4, <1>6 DEF Amounts
<1>. QED
  BY <1>3, <1>8, <1>9, <1>10, <1>11

LEMMA AddUpZero ==
  ASSUME NEW S, IsFiniteSet(S), NEW g, \A i \in S : g[i] = 0
  PROVE  AddUp(g, S) = 0
<1> DEFINE B == {s \in SUBSET S : AddUp(g, s) # 0}
<1>1. SUFFICES ASSUME B # {} PROVE FALSE
  OBVIOUS
<1>2. PICK s \in B : \A r \in B : r \subseteq s => r = s
  <2>1. B \in SUBSET (SUBSET S)
    OBVIOUS
  <2> HIDE DEF B
  <2>. QED
    BY <1>1, <2>1, SmallestSet
<1>3. s \in SUBSET S /\ AddUp(g, s) # 0
  OBVIOUS
<1>4. s # {}
  BY <1>3, AddUpEmpty
<1>5. Rest(s) \subseteq s /\ Rest(s) # s /\ Some(s) \in s
  BY <1>4, SomeIn
<1>6. AddUp(g, Rest(s)) = 0 /\ g[Some(s)] = 0
  BY <1>2, <1>3, <1>5
<1>7. AddUp(g, s) = g[Some(s)] + AddUp(g, Rest(s))
  BY <1>3, <1>4, AddUpAt
<1>. QED
  BY <1>3, <1>6, <1>7

-----------------------------------------------------------------------------

\* The sums of the model are sums of these.
BothV(f)   == [i \in DOMAIN f |-> f[i].rv + f[i].ov]
BothA(f)   == [i \in DOMAIN f |-> f[i].ra + f[i].oa]
BringsV(f) == [i \in DOMAIN f |-> Brings(f[i]).v]
BringsA(f) == [i \in DOMAIN f |-> f[i].amt]
RemainV(f) == [i \in DOMAIN f |-> f[i].rv]
RemainA(f) == [i \in DOMAIN f |-> f[i].ra]

LEMMA BothVAddsUp ==
  ASSUME NEW f, NEW S \in SUBSET DOMAIN f, IsFiniteSet(S)
  PROVE  MapThenSumSet(LAMBDA i : Both(f[i]).v, S) = AddUp(BothV(f), S)
<1>1. PICK g : g = BothV(f)
  OBVIOUS
<1>2. \A s \in SUBSET S : s # {} => g[Some(s)] = Both(f[Some(s)]).v
  BY <1>1, SomeIn DEF BothV, Both, Brings
<1>3. \A jt : jt = [s \in SUBSET S |-> IF s = {} THEN 0 ELSE Both(f[Some(s)]).v + jt[Rest(s)]]
                 <=> IsSum(jt, g, S)
  BY <1>2 DEF IsSum
<1>4. IsSum(CHOOSE jt : jt = [s \in SUBSET S |->
                               IF s = {} THEN 0 ELSE Both(f[Some(s)]).v + jt[Rest(s)]], g, S)
  BY <1>3, SumExists
<1>5. MapThenSumSet(LAMBDA i : Both(f[i]).v, S)
        = (CHOOSE jt : jt = [s \in SUBSET S |->
                              IF s = {} THEN 0 ELSE Both(f[Some(s)]).v + jt[Rest(s)]])[S]
  BY DEF MapThenSumSet, MapThenFoldSet, Some, Rest
<1>. QED
  BY <1>1, <1>4, <1>5, AddsUp

LEMMA BothAAddsUp ==
  ASSUME NEW f, NEW S \in SUBSET DOMAIN f, IsFiniteSet(S)
  PROVE  MapThenSumSet(LAMBDA i : Both(f[i]).a, S) = AddUp(BothA(f), S)
<1>1. PICK g : g = BothA(f)
  OBVIOUS
<1>2. \A s \in SUBSET S : s # {} => g[Some(s)] = Both(f[Some(s)]).a
  BY <1>1, SomeIn DEF BothA, Both, Brings
<1>3. \A jt : jt = [s \in SUBSET S |-> IF s = {} THEN 0 ELSE Both(f[Some(s)]).a + jt[Rest(s)]]
                 <=> IsSum(jt, g, S)
  BY <1>2 DEF IsSum
<1>4. IsSum(CHOOSE jt : jt = [s \in SUBSET S |->
                               IF s = {} THEN 0 ELSE Both(f[Some(s)]).a + jt[Rest(s)]], g, S)
  BY <1>3, SumExists
<1>5. MapThenSumSet(LAMBDA i : Both(f[i]).a, S)
        = (CHOOSE jt : jt = [s \in SUBSET S |->
                              IF s = {} THEN 0 ELSE Both(f[Some(s)]).a + jt[Rest(s)]])[S]
  BY DEF MapThenSumSet, MapThenFoldSet, Some, Rest
<1>. QED
  BY <1>1, <1>4, <1>5, AddsUp

LEMMA BringsVAddsUp ==
  ASSUME NEW f, NEW S \in SUBSET DOMAIN f, IsFiniteSet(S)
  PROVE  MapThenSumSet(LAMBDA i : Brings(f[i]).v, S) = AddUp(BringsV(f), S)
<1>1. PICK g : g = BringsV(f)
  OBVIOUS
<1>2. \A s \in SUBSET S : s # {} => g[Some(s)] = Brings(f[Some(s)]).v
  BY <1>1, SomeIn DEF BringsV, Both, Brings
<1>3. \A jt : jt = [s \in SUBSET S |-> IF s = {} THEN 0 ELSE Brings(f[Some(s)]).v + jt[Rest(s)]]
                 <=> IsSum(jt, g, S)
  BY <1>2 DEF IsSum
<1>4. IsSum(CHOOSE jt : jt = [s \in SUBSET S |->
                               IF s = {} THEN 0 ELSE Brings(f[Some(s)]).v + jt[Rest(s)]], g, S)
  BY <1>3, SumExists
<1>5. MapThenSumSet(LAMBDA i : Brings(f[i]).v, S)
        = (CHOOSE jt : jt = [s \in SUBSET S |->
                              IF s = {} THEN 0 ELSE Brings(f[Some(s)]).v + jt[Rest(s)]])[S]
  BY DEF MapThenSumSet, MapThenFoldSet, Some, Rest
<1>. QED
  BY <1>1, <1>4, <1>5, AddsUp

LEMMA BringsAAddsUp ==
  ASSUME NEW f, NEW S \in SUBSET DOMAIN f, IsFiniteSet(S)
  PROVE  MapThenSumSet(LAMBDA i : Brings(f[i]).a, S) = AddUp(BringsA(f), S)
<1>1. PICK g : g = BringsA(f)
  OBVIOUS
<1>2. \A s \in SUBSET S : s # {} => g[Some(s)] = Brings(f[Some(s)]).a
  BY <1>1, SomeIn DEF BringsA, Both, Brings
<1>3. \A jt : jt = [s \in SUBSET S |-> IF s = {} THEN 0 ELSE Brings(f[Some(s)]).a + jt[Rest(s)]]
                 <=> IsSum(jt, g, S)
  BY <1>2 DEF IsSum
<1>4. IsSum(CHOOSE jt : jt = [s \in SUBSET S |->
                               IF s = {} THEN 0 ELSE Brings(f[Some(s)]).a + jt[Rest(s)]], g, S)
  BY <1>3, SumExists
<1>5. MapThenSumSet(LAMBDA i : Brings(f[i]).a, S)
        = (CHOOSE jt : jt = [s \in SUBSET S |->
                              IF s = {} THEN 0 ELSE Brings(f[Some(s)]).a + jt[Rest(s)]])[S]
  BY DEF MapThenSumSet, MapThenFoldSet, Some, Rest
<1>. QED
  BY <1>1, <1>4, <1>5, AddsUp

LEMMA RemainVAddsUp ==
  ASSUME NEW f, NEW S \in SUBSET DOMAIN f, IsFiniteSet(S)
  PROVE  MapThenSumSet(LAMBDA i : f[i].rv, S) = AddUp(RemainV(f), S)
<1>1. PICK g : g = RemainV(f)
  OBVIOUS
<1>2. \A s \in SUBSET S : s # {} => g[Some(s)] = f[Some(s)].rv
  BY <1>1, SomeIn DEF RemainV, Both, Brings
<1>3. \A jt : jt = [s \in SUBSET S |-> IF s = {} THEN 0 ELSE f[Some(s)].rv + jt[Rest(s)]]
                 <=> IsSum(jt, g, S)
  BY <1>2 DEF IsSum
<1>4. IsSum(CHOOSE jt : jt = [s \in SUBSET S |->
                               IF s = {} THEN 0 ELSE f[Some(s)].rv + jt[Rest(s)]], g, S)
  BY <1>3, SumExists
<1>5. MapThenSumSet(LAMBDA i : f[i].rv, S)
        = (CHOOSE jt : jt = [s \in SUBSET S |->
                              IF s = {} THEN 0 ELSE f[Some(s)].rv + jt[Rest(s)]])[S]
  BY DEF MapThenSumSet, MapThenFoldSet, Some, Rest
<1>. QED
  BY <1>1, <1>4, <1>5, AddsUp

LEMMA RemainAAddsUp ==
  ASSUME NEW f, NEW S \in SUBSET DOMAIN f, IsFiniteSet(S)
  PROVE  MapThenSumSet(LAMBDA i : f[i].ra, S) = AddUp(RemainA(f), S)
<1>1. PICK g : g = RemainA(f)
  OBVIOUS
<1>2. \A s \in SUBSET S : s # {} => g[Some(s)] = f[Some(s)].ra
  BY <1>1, SomeIn DEF RemainA, Both, Brings
<1>3. \A jt : jt = [s \in SUBSET S |-> IF s = {} THEN 0 ELSE f[Some(s)].ra + jt[Rest(s)]]
                 <=> IsSum(jt, g, S)
  BY <1>2 DEF IsSum
<1>4. IsSum(CHOOSE jt : jt = [s \in SUBSET S |->
                               IF s = {} THEN 0 ELSE f[Some(s)].ra + jt[Rest(s)]], g, S)
  BY <1>3, SumExists
<1>5. MapThenSumSet(LAMBDA i : f[i].ra, S)
        = (CHOOSE jt : jt = [s \in SUBSET S |->
                              IF s = {} THEN 0 ELSE f[Some(s)].ra + jt[Rest(s)]])[S]
  BY DEF MapThenSumSet, MapThenFoldSet, Some, Rest
<1>. QED
  BY <1>1, <1>4, <1>5, AddsUp

LEMMA TotalsAddUp ==
  ASSUME NEW f, NEW S \in SUBSET DOMAIN f, IsFiniteSet(S)
  PROVE  /\ Total(LAMBDA i : Both(f[i]), S) = [v |-> AddUp(BothV(f), S), a |-> AddUp(BothA(f), S)]
         /\ Total(LAMBDA i : Brings(f[i]), S)
              = [v |-> AddUp(BringsV(f), S), a |-> AddUp(BringsA(f), S)]
<1>1. Total(LAMBDA i : Both(f[i]), S) = [v |-> AddUp(BothV(f), S), a |-> AddUp(BothA(f), S)]
  BY BothVAddsUp, BothAAddsUp, Zenon DEF Total
<1>2. Total(LAMBDA i : Brings(f[i]), S) = [v |-> AddUp(BringsV(f), S), a |-> AddUp(BringsA(f), S)]
  BY BringsVAddsUp, BringsAAddsUp, Zenon DEF Total
<1>. QED
  BY <1>1, <1>2

LEMMA HeldAddsUp ==
  ASSUME NEW p, NEW S, Buys(S) \in SUBSET DOMAIN item[p], Sells(S) \in SUBSET DOMAIN item[p],
         IsFiniteSet(Buys(S)), IsFiniteSet(Sells(S))
  PROVE  Held(p, S) = [v |-> AddUp(RemainV(item[p]), Buys(S)), a |-> AddUp(RemainA(item[p]), Sells(S))]
<1>1. MapThenSumSet(LAMBDA i : item[p][i].rv, Buys(S)) = AddUp(RemainV(item[p]), Buys(S))
  BY RemainVAddsUp
<1>2. MapThenSumSet(LAMBDA i : item[p][i].ra, Sells(S)) = AddUp(RemainA(item[p]), Sells(S))
  BY RemainAAddsUp
<1>. QED
  BY <1>1, <1>2, Zenon DEF Held

-----------------------------------------------------------------------------
(* What remains and what is paid out.                                      *)

\* Conserved is inductive once it is said that an order in the pool is one a
\* reload puts there, that an open withdrawal waits in withdrawMap alone and
\* nothing was set aside for it, and nothing for a buyer either as long as he
\* still buys: the record of a withdrawal and the last match overwrite what
\* was set aside.
KeptOf(p) ==
    /\ \A i \in pool[p] : item[p][i].saved = "normal"
    /\ withdrawMap[p] \cap refundMap[p] = {}
    /\ \A i \in withdrawMap[p] : item[p][i].done = "init"
    /\ \A i \in 1 .. count[p] :
          /\ orders[i].kind = "withdraw" /\ item[p][i].done = "init"
                => item[p][i].ov = 0 /\ item[p][i].oa = 0
          /\ orders[i].kind = "buy" /\ item[p][i].rv # 0 => item[p][i].ov = 0

KeptInv == \A p \in Parties : KeptOf(p)

ItemsAddUp(f, os, n) ==
    /\ AddUp(BothV(f), 1 .. n) = AddUp(BringsV(os), 1 .. n)
    /\ AddUp(BothA(f), 1 .. n) = AddUp(BringsA(os), 1 .. n)
PoolAddsUp(figures, f, S) ==
    figures = [v |-> AddUp(RemainV(f), Buys(S)), a |-> AddUp(RemainA(f), Sells(S))]

AmountsOf(p) ==
    /\ ItemsAddUp(item[p], orders, count[p])
    /\ forgot[p] = {} => PoolAddsUp(inPool[p], item[p], pool[p])

AmountsInv == \A p \in Parties : AmountsOf(p)

LEMMA SumFacts ==
  ASSUME TypeInv, NEW p \in Parties
  PROVE  /\ IsFiniteSet(1 .. count[p])
         /\ \A S \in SUBSET (1 .. count[p]) : /\ Buys(S) \in SUBSET (1 .. count[p])
                                              /\ Sells(S) \in SUBSET (1 .. count[p])
                                              /\ IsFiniteSet(Buys(S)) /\ IsFiniteSet(Sells(S))
<1>1. count[p] \in Nat
  BY BookFacts
<1>2. IsFiniteSet(1 .. count[p])
  BY <1>1, FS_Interval
<1>3. \A S \in SUBSET (1 .. count[p]) : /\ Buys(S) \in SUBSET (1 .. count[p])
                                        /\ Sells(S) \in SUBSET (1 .. count[p])
  BY DEF Buys, Sells
<1>. QED
  BY <1>2, <1>3, FS_Subset

\* The amounts of an item, which are integers.
LEMMA ItemAmountsAt ==
  ASSUME NEW n \in Nat, NEW f \in [1 .. n -> Item]
  PROVE  \A i \in 1 .. n : /\ BothV(f)[i] = f[i].rv + f[i].ov /\ BothA(f)[i] = f[i].ra + f[i].oa
                           /\ RemainV(f)[i] = f[i].rv /\ RemainA(f)[i] = f[i].ra
                           /\ f[i].rv \in Int /\ f[i].ra \in Int /\ f[i].ov \in Int /\ f[i].oa \in Int
<1>1. \A i \in 1 .. n : /\ f[i].rv \in Int /\ f[i].ra \in Int /\ f[i].ov \in Int /\ f[i].oa \in Int
                        /\ i \in DOMAIN f
  BY DEF Item
<1>. QED
  BY <1>1 DEF BothV, BothA, RemainV, RemainA

LEMMA ItemAmounts ==
  ASSUME NEW n \in Nat, NEW f \in [1 .. n -> Item], NEW S \in SUBSET (1 .. n)
  PROVE  /\ Amounts(BothV(f), S) /\ Amounts(BothA(f), S)
         /\ Amounts(RemainV(f), S) /\ Amounts(RemainA(f), S)
<1>1. \A i \in S : /\ BothV(f)[i] = f[i].rv + f[i].ov /\ BothA(f)[i] = f[i].ra + f[i].oa
                   /\ RemainV(f)[i] = f[i].rv /\ RemainA(f)[i] = f[i].ra
                   /\ f[i].rv \in Int /\ f[i].ra \in Int /\ f[i].ov \in Int /\ f[i].oa \in Int
  BY ItemAmountsAt
<1>2. Amounts(BothV(f), S) /\ Amounts(BothA(f), S)
  <2>1. \A i \in S : f[i].rv + f[i].ov \in Int /\ f[i].ra + f[i].oa \in Int
    BY <1>1
  <2>2. \A i \in S : BothV(f)[i] \in Int /\ BothA(f)[i] \in Int
    BY <1>1, <2>1
  <2>. QED
    BY <2>2 DEF Amounts
<1>3. Amounts(RemainV(f), S) /\ Amounts(RemainA(f), S)
  <2>1. \A i \in S : RemainV(f)[i] \in Int /\ RemainA(f)[i] \in Int
    BY <1>1
  <2>. QED
    BY <2>1 DEF Amounts
<1>. QED
  BY <1>2, <1>3

\* What is known of a party's items and sums at every state.
LEMMA AmountFacts ==
  ASSUME TypeInv, NEW p \in Parties
  PROVE  /\ item[p] \in [1 .. count[p] -> Item] /\ count[p] \in Nat
         /\ \A i \in 1 .. count[p] :
               /\ BringsV(orders)[i] = Brings(orders[i]).v /\ BringsA(orders)[i] = Brings(orders[i]).a
               /\ Brings(orders[i]).v \in Int /\ Brings(orders[i]).a \in Int
<1>1. \A i \in 1 .. count[p] : i \in DOMAIN orders /\ orders[i] \in Placed
  BY BookFacts
<1>2. \A o \in Placed : Brings(o).v \in Int /\ Brings(o).a \in Int /\ Brings(o).a = o.amt
  BY DEF Placed, Brings
<1>. QED
  BY <1>1, <1>2, BookFacts DEF BringsV, BringsA

-----------------------------------------------------------------------------
(* The steps that close items, and the ones that reload them.              *)

SameBoth(x, y) == y.rv + y.ov = x.rv + x.ov /\ y.ra + y.oa = x.ra + x.oa

\* An item is closed: its amounts stay, or it is paid out and in no pool.
ClosedAt(p, i) ==
    /\ item'[p][i].done # "init"
    /\ SameAmounts(item[p][i], item'[p][i]) \/ (PaidOut(item[p][i], item'[p][i]) /\ i \notin pool[p])
    /\ i \notin pool'[p] /\ i \notin withdrawMap'[p]

Closes(p) ==
    /\ \A i \in 1 .. count[p] : item'[p][i] = item[p][i] \/ ClosedAt(p, i)
    /\ pool'[p] \subseteq pool[p] /\ refundMap'[p] \subseteq refundMap[p]
    /\ withdrawMap'[p] \subseteq withdrawMap[p]
    /\ \A i \in pool[p] \ pool'[p] : Exhausted(p, i)
    /\ UNCHANGED inPool

LEMMA GenCloses ==
  ASSUME TypeInv, PoolInv, KeptInv, NEW p \in Parties, NEW stage, NEW h, GenEffect(p, stage, h),
         UNCHANGED <<orders, count>>
  PROVE  Closes(p)
<1>1. /\ item[p] \in [1 .. count[p] -> Item] /\ DOMAIN item = Parties /\ DOMAIN refundMap = Parties
  BY BookFacts, InvParts DEF BookTypes, MapOK
<1>2. CASE stage = "refund"
  <2> DEFINE D == Dropped(p, h)
             f == [i \in DOMAIN item[p] |->
                     IF i \in D
                     THEN [item[p][i] EXCEPT !.reason = "invalid", !.saved = "invalid", !.done = "dealt"]
                     ELSE item[p][i]]
  <2>1. item'[p] = f /\ refundMap'[p] = refundMap[p] \ D /\ UNCHANGED <<pool, withdrawMap, inPool>>
    BY <1>1, <1>2 DEF GenEffect
  <2>2. D \subseteq refundMap[p]
    BY DEF Dropped
  <2>3. D \cap pool[p] = {} /\ D \cap withdrawMap[p] = {}
    BY <2>2 DEF PoolInv, PoolOf, KeptInv, KeptOf
  <2> HIDE DEF D
  <2>4. ASSUME NEW k \in 1 .. count[p]
        PROVE  item'[p][k] = item[p][k] \/ ClosedAt(p, k)
    <3>1. PICK x \in Item : x = item[p][k]
      BY <1>1
    <3>2. PICK y : y = [x EXCEPT !.reason = "invalid", !.saved = "invalid", !.done = "dealt"]
      OBVIOUS
    <3>3. y.done = "dealt" /\ SameAmounts(x, y)
      BY <3>2 DEF SameAmounts, Item
    <3>4. item'[p][k] = IF k \in D THEN y ELSE x
      BY <1>1, <2>1, <3>1, <3>2
    <3>. QED
      BY <2>1, <2>3, <3>1, <3>3, <3>4 DEF ClosedAt
  <2>. QED
    BY <2>1, <2>4 DEF Closes
<1>3. CASE stage # "refund"
  BY <1>3 DEF GenEffect, Closes
<1>. QED
  BY <1>2, <1>3

\* Only orders that are exhausted are covered by a payment of deals.
LEMMA CoveredExhausted ==
  ASSUME NEW p, NEW t
  PROVE  Covered(p, t) \subseteq pool[p] /\ \A i \in Covered(p, t) : Exhausted(p, i)
BY DEF Covered, UpTo, Buys, Sells

LEMMA RecordCloses ==
  ASSUME TypeInv, PoolInv, KeptInv, NEW p \in Parties, NEW t, t.stage \in Stages, Record(p, t),
         UNCHANGED <<orders, count>>
  PROVE  Closes(p)
<1>1. /\ item[p] \in [1 .. count[p] -> Item] /\ DOMAIN item = Parties /\ DOMAIN refundMap = Parties
      /\ DOMAIN pool = Parties /\ DOMAIN withdrawMap = Parties
  BY BookFacts, InvParts DEF BookTypes, MapOK
<1>2. CASE t.stage = "deal"
  <2> DEFINE S == Covered(p, t)
             f == [i \in DOMAIN item[p] |->
                     IF i \in S THEN [item[p][i] EXCEPT !.done = "dealt", !.saved = item[p][i].reason]
                     ELSE item[p][i]]
  <2>1. item'[p] = f /\ pool'[p] = pool[p] \ S /\ UNCHANGED <<refundMap, withdrawMap, inPool>>
    BY <1>1, <1>2 DEF Record, RecordDeal
  <2>2. S \subseteq pool[p] /\ \A i \in S : Exhausted(p, i)
    BY CoveredExhausted
  <2>3. S \cap withdrawMap[p] = {}
    BY <2>2 DEF PoolInv, PoolOf, Trades
  <2> HIDE DEF S
  <2>4. ASSUME NEW k \in 1 .. count[p]
        PROVE  item'[p][k] = item[p][k] \/ ClosedAt(p, k)
    <3>1. PICK x \in Item : x = item[p][k]
      BY <1>1
    <3>2. PICK y : y = [x EXCEPT !.done = "dealt", !.saved = x.reason]
      OBVIOUS
    <3>3. y.done = "dealt" /\ SameAmounts(x, y)
      BY <3>2 DEF SameAmounts, Item
    <3>4. item'[p][k] = IF k \in S THEN y ELSE x
      BY <1>1, <2>1, <3>1, <3>2
    <3>. QED
      BY <2>1, <2>3, <3>1, <3>3, <3>4 DEF ClosedAt
  <2>. QED
    BY <2>1, <2>2, <2>4 DEF Closes
<1>3. CASE t.stage = "refund"
  <2> DEFINE S == {i \in UpTo(refundMap[p], t.height) : t.pays[Addr(i)] # Nothing}
             closed(i, x) == IF x.done # "init" THEN x
                             ELSE IF orders[i].kind = "refund" THEN [x EXCEPT !.done = "dealt"]
                             ELSE Refunded(x)
             f == [i \in DOMAIN item[p] |->
                     IF i \in S THEN [closed(i, item[p][i]) EXCEPT !.saved = item[p][i].reason]
                     ELSE item[p][i]]
  <2>1. /\ item'[p] = f /\ refundMap'[p] \subseteq refundMap[p]
        /\ UNCHANGED <<pool, withdrawMap, inPool>>
    BY <1>1, <1>3 DEF Record, RecordRefund
  <2>2. S \cap pool[p] = {} /\ S \cap withdrawMap[p] = {}
    BY DEF UpTo, PoolInv, PoolOf, KeptInv, KeptOf
  <2>3. ASSUME NEW k \in 1 .. count[p]
        PROVE  item'[p][k] = item[p][k] \/ ClosedAt(p, k)
    <3>1. PICK x \in Item : x = item[p][k]
      BY <1>1
    <3>2. /\ x.done # "init" => closed(k, x) = x
          /\ closed(k, x) \in {x, [x EXCEPT !.done = "dealt"], Refunded(x)}
          /\ x.done = "init" => closed(k, x) # x
      <4>1. [x EXCEPT !.done = "dealt"].done = "dealt" /\ Refunded(x).done = "refunded"
        BY DEF Refunded, Item
      <4>. QED
        BY <4>1
    <3>3. PaidOut(x, Refunded(x)) /\ Refunded(x) \in Item /\ Refunded(x).done = "refunded"
      BY ItemChanges DEF PaidOut, Refunded, Item
    <3>4. PICK z \in Item : z = [x EXCEPT !.done = "dealt"]
      BY ItemChanges
    <3>5. SameAmounts(x, z) /\ z.done = "dealt"
      BY <3>4 DEF SameAmounts, Item
    <3>6. \A y \in Item : \A s : /\ SameAmounts(y, [y EXCEPT !.saved = s])
                                 /\ [y EXCEPT !.saved = s].done = y.done
      BY DEF SameAmounts, Item
    <3>7. item'[p][k] = IF k \in S THEN [closed(k, x) EXCEPT !.saved = x.reason] ELSE x
      BY <1>1, <2>1, <3>1
    <3> HIDE DEF S, closed
    <3>8. PICK y \in Item : y = closed(k, x) /\ y.done # "init" /\ (SameAmounts(x, y) \/ PaidOut(x, y))
      <4>1. SameAmounts(x, x)
        BY DEF SameAmounts
      <4>. QED
        BY <3>2, <3>3, <3>4, <3>5, <4>1
    <3>9. CASE k \in S
      <4>1. /\ item'[p][k].done # "init"
            /\ SameAmounts(y, item'[p][k])
        BY <3>6, <3>7, <3>8, <3>9
      <4>2. SameAmounts(x, item'[p][k]) \/ PaidOut(x, item'[p][k])
        BY <3>8, <4>1 DEF SameAmounts, PaidOut
      <4>3. k \notin pool'[p] /\ k \notin withdrawMap'[p] /\ k \notin pool[p]
        BY <2>1, <2>2, <3>9
      <4>. QED
        BY <3>1, <4>1, <4>2, <4>3 DEF ClosedAt
    <3>. QED
      BY <3>1, <3>7, <3>9
  <2>. QED
    BY <2>1, <2>3 DEF Closes
<1>4. CASE t.stage = "withdraw"
  <2> DEFINE S == PaidWithdraws(p, t)
             f == [i \in DOMAIN item[p] |->
                     IF i \in S
                     THEN [item[p][i] EXCEPT !.done = "dealt", !.saved = item[p][i].reason,
                                             !.ov = item[p][i].rv, !.oa = item[p][i].ra, !.rv = 0, !.ra = 0]
                     ELSE item[p][i]]
  <2>1. /\ item'[p] = f /\ withdrawMap'[p] = withdrawMap[p] \ S
        /\ UNCHANGED <<pool, refundMap, inPool>>
    BY <1>1, <1>4 DEF Record, RecordWithdraw
  <2>2. S \subseteq withdrawMap[p]
    BY DEF PaidWithdraws, UpTo
  <2>3. \A i \in S : /\ i \notin pool[p] /\ i \in 1 .. count[p]
                     /\ item[p][i].ov = 0 /\ item[p][i].oa = 0
    BY <2>2, BookFacts DEF PoolInv, PoolOf, KeptInv, KeptOf, Trades
  <2> HIDE DEF S, f
  <2>4. ASSUME NEW k \in S
        PROVE  ClosedAt(p, k)
    <3>1. PICK x \in Item : x = item[p][k] /\ x.ov = 0 /\ x.oa = 0
      BY <1>1, <2>3
    <3>2. item'[p][k] = [x EXCEPT !.done = "dealt", !.saved = x.reason,
                                  !.ov = x.rv, !.oa = x.ra, !.rv = 0, !.ra = 0]
      BY <1>1, <2>1, <2>3, <3>1 DEF f
    <3>3. PICK y : y = [x EXCEPT !.done = "dealt", !.saved = x.reason,
                                 !.ov = x.rv, !.oa = x.ra, !.rv = 0, !.ra = 0]
      OBVIOUS
    <3>4. y.done = "dealt" /\ y.ov = x.rv /\ y.oa = x.ra /\ y.rv = 0 /\ y.ra = 0
      BY <3>3 DEF Item
    <3>5. x.rv \in Int /\ x.ra \in Int
      BY DEF Item
    <3>6. PaidOut(x, y)
      BY <3>1, <3>4, <3>5 DEF PaidOut
    <3>. QED
      BY <2>1, <2>3, <3>1, <3>2, <3>3, <3>4, <3>6 DEF ClosedAt
  <2>5. \A i \in 1 .. count[p] : item'[p][i] = item[p][i] \/ i \in S
    BY <1>1, <2>1 DEF f
  <2>. QED
    BY <2>1, <2>4, <2>5 DEF Closes
<1>. QED
  BY <1>2, <1>3, <1>4 DEF Stages

-----------------------------------------------------------------------------
(* What those steps leave of the sums.                                     *)

\* Nothing but what happens at p changes the sums or the figures.
FiguresAt(p) == \A q \in Parties \ {p} : inPool'[q] = inPool[q] /\ forgot'[q] = forgot[q]

LEMMA KeptElsewhere ==
  ASSUME KeptInv, AmountsInv, NEW p \in Parties, OnlyAt(p), FiguresAt(p), UNCHANGED orders,
         KeptOf(p)', ItemsAddUp(item'[p], orders, count'[p]),
         forgot'[p] = {} => PoolAddsUp(inPool'[p], item'[p], pool'[p])
  PROVE  KeptInv' /\ AmountsInv'
<1>1. KeptInv'
  BY DEF KeptInv, KeptOf, OnlyAt
<1>2. AmountsOf(p)'
  BY DEF AmountsOf, ItemsAddUp, PoolAddsUp, Buys, Sells
<1>3. ASSUME NEW q \in Parties, q # p
      PROVE  AmountsOf(q)'
  <2>1. AmountsOf(q)
    BY DEF AmountsInv
  <2>2. /\ item'[q] = item[q] /\ count'[q] = count[q] /\ pool'[q] = pool[q]
        /\ inPool'[q] = inPool[q] /\ forgot'[q] = forgot[q]
    BY <1>3 DEF OnlyAt, FiguresAt
  <2>. QED
    BY <2>1, <2>2 DEF AmountsOf, ItemsAddUp, PoolAddsUp, Buys, Sells
<1>. QED
  BY <1>1, <1>2, <1>3 DEF AmountsInv

LEMMA ItemsStayInSum ==
  ASSUME NEW n \in Nat, NEW f \in [1 .. n -> Item], NEW g \in [1 .. n -> Item], NEW os,
         \A i \in 1 .. n : SameBoth(f[i], g[i]), ItemsAddUp(f, os, n)
  PROVE  ItemsAddUp(g, os, n)
<1>1. IsFiniteSet(1 .. n)
  BY FS_Interval
<1>2. \A i \in 1 .. n : BothV(f)[i] = BothV(g)[i] /\ BothA(f)[i] = BothA(g)[i]
  BY ItemAmountsAt DEF SameBoth
<1>3. AddUp(BothV(f), 1 .. n) = AddUp(BothV(g), 1 .. n)
  BY <1>1, <1>2, AddUpSame
<1>4. AddUp(BothA(f), 1 .. n) = AddUp(BothA(g), 1 .. n)
  BY <1>1, <1>2, AddUpSame
<1>. QED
  BY <1>3, <1>4 DEF ItemsAddUp

\* A pool loses nothing but what adds nothing.
LEMMA PartAddsUp ==
  ASSUME NEW S, IsFiniteSet(S), NEW g, NEW h, Amounts(g, S), NEW T \in SUBSET S,
         \A i \in T : g[i] = h[i], \A i \in S \ T : g[i] = 0
  PROVE  AddUp(g, S) = AddUp(h, T)
<1>1. IsFiniteSet(T) /\ IsFiniteSet(S \ T) /\ Amounts(g, T)
  BY FS_Subset DEF Amounts
<1>2. AddUp(g, S) = AddUp(g, T) + AddUp(g, S \ T) /\ AddUp(g, T) \in Int
  BY <1>1, AddUpSplit, AddUpType
<1>3. AddUp(g, S \ T) = 0
  BY <1>1, AddUpZero
<1>4. AddUp(g, T) = AddUp(h, T)
  BY <1>1, AddUpSame
<1>. QED
  BY <1>2, <1>3, <1>4

LEMMA PoolStaysInSum ==
  ASSUME TypeInv, NEW p \in Parties, NEW g \in [1 .. count[p] -> Item], NEW P \in SUBSET pool[p],
         \A i \in P : g[i].rv = item[p][i].rv /\ g[i].ra = item[p][i].ra,
         \A i \in pool[p] \ P : Exhausted(p, i),
         NEW figures, PoolAddsUp(figures, item[p], pool[p])
  PROVE  PoolAddsUp(figures, g, P)
<1>0. PICK n \in Nat : n = count[p]
  BY BookFacts
<1>1. PICK f \in [1 .. n -> Item] : n = count[p] /\ f = item[p]
  BY <1>0, BookFacts
<1>2. /\ Buys(pool[p]) \in SUBSET (1 .. n) /\ Sells(pool[p]) \in SUBSET (1 .. n)
      /\ IsFiniteSet(Buys(pool[p])) /\ IsFiniteSet(Sells(pool[p]))
      /\ pool[p] \subseteq 1 .. n
  BY <1>1, SumFacts, BookFacts
<1>3. /\ Buys(P) \in SUBSET Buys(pool[p]) /\ Sells(P) \in SUBSET Sells(pool[p])
      /\ Buys(P) \in SUBSET P /\ Sells(P) \in SUBSET P
      /\ Buys(pool[p]) \ Buys(P) \subseteq pool[p] \ P /\ Sells(pool[p]) \ Sells(P) \subseteq pool[p] \ P
  BY DEF Buys, Sells
<1>4. /\ \A i \in pool[p] : RemainV(f)[i] = item[p][i].rv /\ RemainA(f)[i] = item[p][i].ra
      /\ Amounts(RemainV(f), Buys(pool[p])) /\ Amounts(RemainA(f), Sells(pool[p]))
  <2>1. \A i \in pool[p] : RemainV(f)[i] = f[i].rv /\ RemainA(f)[i] = f[i].ra
    BY <1>2, ItemAmountsAt
  <2>2. Amounts(RemainV(f), Buys(pool[p]))
    BY <1>2, ItemAmounts
  <2>3. Amounts(RemainA(f), Sells(pool[p]))
    BY <1>2, ItemAmounts
  <2>. QED
    BY <1>1, <2>1, <2>2, <2>3
<1>9. \A i \in P : RemainV(g)[i] = g[i].rv /\ RemainA(g)[i] = g[i].ra
  <2>1. P \in SUBSET (1 .. n) /\ g \in [1 .. n -> Item]
    BY <1>1, <1>2
  <2>. QED
    BY <2>1, ItemAmountsAt
<1>10. \A i \in P : RemainV(f)[i] = RemainV(g)[i] /\ RemainA(f)[i] = RemainA(g)[i]
  BY <1>4, <1>9
<1>5. \A i \in Buys(pool[p]) \ Buys(P) : RemainV(f)[i] = 0
  BY <1>3, <1>4 DEF Exhausted, Buys
<1>6. \A i \in Sells(pool[p]) \ Sells(P) : RemainA(f)[i] = 0
  BY <1>3, <1>4 DEF Exhausted, Sells
<1>7. AddUp(RemainV(f), Buys(pool[p])) = AddUp(RemainV(g), Buys(P))
  <2>1. \A i \in Buys(P) : RemainV(f)[i] = RemainV(g)[i]
    BY <1>3, <1>10
  <2>. QED
    BY <1>2, <1>3, <1>4, <1>5, <2>1, PartAddsUp
<1>8. AddUp(RemainA(f), Sells(pool[p])) = AddUp(RemainA(g), Sells(P))
  <2>1. \A i \in Sells(P) : RemainA(f)[i] = RemainA(g)[i]
    BY <1>3, <1>10
  <2>. QED
    BY <1>2, <1>3, <1>4, <1>6, <2>1, PartAddsUp
<1>. QED
  BY <1>1, <1>7, <1>8 DEF PoolAddsUp

LEMMA SameIsBoth ==
  ASSUME NEW x \in Item, NEW y \in Item, SameAmounts(x, y) \/ PaidOut(x, y)
  PROVE  SameBoth(x, y)
<1>1. x.rv \in Int /\ x.ra \in Int /\ x.ov \in Int /\ x.oa \in Int
  BY DEF Item
<1>. QED
  BY <1>1 DEF SameAmounts, PaidOut, SameBoth

LEMMA NextItems ==
  ASSUME TypeInv, BookTypes', NEW p \in Parties
  PROVE  /\ count'[p] \in Nat /\ item'[p] \in [1 .. count'[p] -> Item]
         /\ pool'[p] \subseteq 1 .. count'[p]
<1>1. item'[p] \in Seq(Item) /\ Len(item'[p]) = count'[p] /\ pool'[p] \subseteq 1 .. count'[p]
  BY DEF BookTypes, MapOK
<1>. QED
  BY <1>1, LenProperties

LEMMA ClosingKeeps ==
  ASSUME TypeInv, PoolInv, KeptInv, AmountsInv, NEW p \in Parties, Closes(p), OnlyAt(p),
         UNCHANGED <<orders, count, forgot>>, BookTypes'
  PROVE  KeptInv' /\ AmountsInv'
<1>0. PICK n \in Nat : n = count[p]
  BY BookFacts
<1>1. PICK f \in [1 .. n -> Item], g \in [1 .. n -> Item] :
         n = count[p] /\ f = item[p] /\ g = item'[p]
  BY <1>0, BookFacts, NextItems
<1>2. /\ pool[p] \subseteq 1 .. n /\ withdrawMap[p] \subseteq 1 .. n
      /\ \A i \in 1 .. n : g[i] = f[i] \/ ClosedAt(p, i)
  BY <1>1, BookFacts DEF Closes
<1>3. \A i \in 1 .. n : SameAmounts(f[i], g[i]) \/ PaidOut(f[i], g[i])
  BY <1>1, <1>2 DEF ClosedAt, SameAmounts
<1>4. \A i \in 1 .. n : SameBoth(f[i], g[i])
  BY <1>3, SameIsBoth
<1>5. \A i \in pool'[p] \cup withdrawMap'[p] : i \in 1 .. n /\ g[i] = f[i]
  BY <1>2 DEF Closes, ClosedAt
<1>6. KeptOf(p)'
  <2>1. KeptOf(p)
    BY DEF KeptInv
  <2>2. /\ \A i \in pool'[p] : g[i].saved = "normal"
        /\ withdrawMap'[p] \cap refundMap'[p] = {}
        /\ \A i \in withdrawMap'[p] : g[i].done = "init"
    BY <1>1, <1>5, <2>1 DEF KeptOf, Closes
  <2>3. ASSUME NEW i \in 1 .. n
        PROVE  /\ orders[i].kind = "withdraw" /\ g[i].done = "init" => g[i].ov = 0 /\ g[i].oa = 0
               /\ orders[i].kind = "buy" /\ g[i].rv # 0 => g[i].ov = 0
    <3>1. CASE g[i] = f[i]
      BY <1>1, <2>1, <3>1 DEF KeptOf
    <3>2. CASE ClosedAt(p, i)
      BY <1>1, <1>3, <2>1, <3>2 DEF KeptOf, ClosedAt, SameAmounts, PaidOut
    <3>. QED
      BY <1>2, <3>1, <3>2
  <2>. QED
    BY <1>1, <2>2, <2>3 DEF KeptOf
<1>7. ItemsAddUp(g, orders, n)
  BY <1>1, <1>4, ItemsStayInSum DEF AmountsInv, AmountsOf
<1>8. ASSUME forgot[p] = {}
      PROVE  PoolAddsUp(inPool[p], g, pool'[p])
  <2>1. PoolAddsUp(inPool[p], item[p], pool[p])
    BY <1>8 DEF AmountsInv, AmountsOf
  <2>2. \A i \in pool'[p] : g[i].rv = item[p][i].rv /\ g[i].ra = item[p][i].ra
    BY <1>1, <1>5
  <2>3. pool'[p] \in SUBSET pool[p] /\ \A i \in pool[p] \ pool'[p] : Exhausted(p, i)
    BY DEF Closes
  <2>. QED
    BY <1>1, <2>1, <2>2, <2>3, PoolStaysInSum
<1>9. FiguresAt(p) /\ inPool' = inPool
  BY DEF FiguresAt, Closes
<1>. QED
  BY <1>1, <1>6, <1>7, <1>8, <1>9, KeptElsewhere

LEMMA ReloadKeeps ==
  ASSUME TypeInv, PoolInv, KeptInv, AmountsInv, NEW p \in Parties, Crash(p), BookTypes'
  PROVE  KeptInv' /\ AmountsInv'
<1>0. PICK n \in Nat : n = count[p]
  BY BookFacts
<1>1. PICK f \in [1 .. n -> Item], g \in [1 .. n -> Item] :
         n = count[p] /\ f = item[p] /\ g = item'[p] /\ count' = count /\ orders' = orders
  BY <1>0, BookFacts, NextItems DEF Crash
<1>2. /\ DOMAIN item = Parties /\ DOMAIN refundMap = Parties /\ DOMAIN pool = Parties
      /\ DOMAIN swapMap = Parties /\ DOMAIN withdrawMap = Parties /\ DOMAIN forgot = Parties
      /\ Reload(p) /\ UNCHANGED inPool
  BY InvParts DEF BookTypes, MapOK, OtherTypes, Crash, Reload
<1> DEFINE was(S) == {i \in DOMAIN item[p] : item[p][i].done = "init" /\ orders[i].kind \in S}
           sound  == {i \in DOMAIN item[p] : item[p][i].saved = "normal"}
<1>3. /\ pool'[p] = was(Trades) \cap sound
      /\ withdrawMap'[p] = was({"withdraw"}) \cap sound
      /\ refundMap'[p] = was({"refund"}) \cup (was(Kinds) \ sound)
  BY <1>2 DEF Reload
<1>4. \A i \in 1 .. n : /\ g[i].saved = f[i].saved /\ g[i].done = f[i].done
                        /\ SameAmounts(f[i], g[i])
  BY <1>1, <1>2 DEF Reload, Item, SameAmounts
<1>5. KeptOf(p)'
  <2>1. KeptOf(p)
    BY DEF KeptInv
  <2>2. \A i \in pool'[p] : g[i].saved = "normal"
    BY <1>1, <1>3, <1>4
  <2>3. withdrawMap'[p] \cap refundMap'[p] = {} /\ \A i \in withdrawMap'[p] : g[i].done = "init"
    BY <1>1, <1>3, <1>4
  <2>4. \A i \in 1 .. n :
          /\ orders[i].kind = "withdraw" /\ g[i].done = "init" => g[i].ov = 0 /\ g[i].oa = 0
          /\ orders[i].kind = "buy" /\ g[i].rv # 0 => g[i].ov = 0
    BY <1>1, <1>4, <2>1 DEF KeptOf, SameAmounts
  <2>. QED
    BY <1>1, <2>2, <2>3, <2>4 DEF KeptOf
<1>6. ItemsAddUp(g, orders, n)
  <2>1. \A i \in 1 .. n : SameBoth(f[i], g[i])
    BY <1>4, SameIsBoth
  <2>. QED
    BY <1>1, <2>1, ItemsStayInSum DEF AmountsInv, AmountsOf
<1>7. forgot[p] \subseteq forgot'[p] /\ {Addr(i) : i \in pool'[p] \ pool[p]} \subseteq forgot'[p]
      /\ \A q \in Parties \ {p} : forgot'[q] = forgot[q]
  BY <1>2 DEF Crash
<1>8. ASSUME forgot'[p] = {}
      PROVE  PoolAddsUp(inPool[p], g, pool'[p])
  <2>1. PoolAddsUp(inPool[p], item[p], pool[p])
    BY <1>7, <1>8 DEF AmountsInv, AmountsOf
  <2>2. pool'[p] \in SUBSET pool[p]
    BY <1>7, <1>8
  <2>3. pool[p] \subseteq pool'[p]
    BY <1>1, <1>3, BookFacts DEF PoolInv, PoolOf, KeptInv, KeptOf
  <2>4. \A i \in pool'[p] : g[i].rv = item[p][i].rv /\ g[i].ra = item[p][i].ra
    BY <1>1, <1>4, <2>2, BookFacts DEF SameAmounts
  <2>. QED
    BY <1>1, <2>1, <2>2, <2>3, <2>4, PoolStaysInSum
<1>9. FiguresAt(p) /\ OnlyAt(p)
  BY <1>1, <1>2, <1>7, BooksAt DEF FiguresAt
<1>. QED
  BY <1>1, <1>2, <1>5, <1>6, <1>8, <1>9, KeptElsewhere

-----------------------------------------------------------------------------
(* An invocation more.                                                     *)

\* The items a party had keep their amounts and what they are, and the new one
\* has the amounts the invocation brings.
AcceptsItem(p, f, x, o) ==
    /\ item' = [item EXCEPT ![p] = Append(f, x)]
    /\ SameAmounts(Fresh(o), x)
    /\ \A k \in 1 .. count[p] : /\ SameAmounts(item[p][k], f[k])
                                /\ f[k].done = item[p][k].done /\ f[k].saved = item[p][k].saved
    /\ o.kind # "refund" => x = Fresh(o)

LEMMA AcceptEffect ==
  ASSUME TypeInv, NEW p \in Parties, Accept(p)
  PROVE  \E f \in [1 .. count[p] -> Item], x \in Item : AcceptsItem(p, f, x, orders[count[p] + 1])
<1> DEFINE i == count[p] + 1
           o == orders[i]
<1>1. /\ o \in Placed /\ item[p] \in [1 .. count[p] -> Item] /\ Fresh(o) \in Item
  BY BookFacts, FreshType DEF Accept
<1> HIDE DEF o, i
<1>2. \A y : SameAmounts(y, y)
  BY DEF SameAmounts
<1>3. CASE AcceptTrade(p, i, o) \/ AcceptWithdraw(p, i, o)
  <2>1. item' = [item EXCEPT ![p] = Append(item[p], Fresh(o))]
    BY <1>3 DEF AcceptTrade, AcceptWithdraw
  <2>2. AcceptsItem(p, item[p], Fresh(o), o)
    BY <1>2, <2>1 DEF AcceptsItem
  <2>. QED
    BY <1>1, <2>2 DEF o, i
<1>4. CASE o.kind = "refund" /\ AcceptRefund(p, i, o)
  <2> DEFINE mine == Of(swapMap[p], o.addr)
             back == {j \in Open(p, mine) : item[p][j].reason = "normal"}
             f    == [j \in DOMAIN item[p] |->
                         IF j \in back THEN [item[p][j] EXCEPT !.reason = "refund"]
                         ELSE item[p][j]]
             x    == [Fresh(o) EXCEPT !.reason = "invalid", !.saved = "invalid", !.done = "dealt"]
  <2>1. CASE mine = {}
    <3>1. item' = [item EXCEPT ![p] = Append(item[p], x)]
      BY <1>4, <2>1 DEF AcceptRefund
    <3>2. x \in Item /\ SameAmounts(Fresh(o), x) /\ x.done = "dealt"
      BY <1>1, FreshType DEF SameAmounts, Item
    <3> HIDE DEF x
    <3>3. AcceptsItem(p, item[p], x, o)
      BY <1>2, <1>4, <3>1, <3>2 DEF AcceptsItem
    <3>. QED
      BY <1>1, <3>2, <3>3 DEF o, i
  <2>2. CASE mine # {}
    <3>1. item' = [item EXCEPT ![p] = Append(f, Fresh(o))]
      BY <1>4, <2>2 DEF AcceptRefund
    <3>2. f \in [1 .. count[p] -> Item]
      BY <1>1 DEF Item, Reasons
    <3>3. \A k \in 1 .. count[p] : /\ SameAmounts(item[p][k], f[k])
                                   /\ f[k].done = item[p][k].done /\ f[k].saved = item[p][k].saved
      <4> HIDE DEF back
      <4>. QED  BY <1>1 DEF SameAmounts, Item
    <3> HIDE DEF f
    <3>4. AcceptsItem(p, f, Fresh(o), o)
      BY <1>2, <3>1, <3>3 DEF AcceptsItem
    <3>. QED
      BY <1>1, <3>2, <3>4 DEF o, i
  <2>. QED
    BY <2>1, <2>2
<1>. QED
  BY <1>3, <1>4 DEF Accept, o, i

LEMMA FreshBrings ==
  ASSUME NEW o \in Placed
  PROVE  /\ Fresh(o).rv = Brings(o).v /\ Fresh(o).ra = Brings(o).a
         /\ Fresh(o).ov = 0 /\ Fresh(o).oa = 0
         /\ Brings(o).v \in Int /\ Brings(o).a \in Int
         /\ o.valid => Fresh(o).saved = "normal"
<1>1. o.value \in Nat /\ o.amt \in Nat
  BY DEF Placed
<1>2. PICK v \in Int : v = IF o.kind = "sell" THEN 0 ELSE o.value
  BY <1>1
<1>3. Brings(o).v = v /\ Brings(o).a = o.amt
  BY <1>2 DEF Brings
<1>4. /\ Fresh(o).rv = v /\ Fresh(o).ra = o.amt /\ Fresh(o).ov = 0 /\ Fresh(o).oa = 0
      /\ o.valid => Fresh(o).saved = "normal"
  BY <1>2 DEF Fresh
<1>. QED
  BY <1>1, <1>2, <1>3, <1>4

\* One place more, and the sum is more by what it holds.
LEMMA AddUpMore ==
  ASSUME NEW n \in Nat, NEW g, NEW h, Amounts(h, 1 .. n + 1), \A i \in 1 .. n : g[i] = h[i]
  PROVE  AddUp(h, 1 .. n + 1) = AddUp(g, 1 .. n) + h[n + 1] /\ AddUp(g, 1 .. n) \in Int
<1>1. IsFiniteSet(1 .. n) /\ IsFiniteSet(1 .. n + 1)
  BY FS_Interval
<1>2. n + 1 \in 1 .. n + 1 /\ (1 .. n + 1) \ {n + 1} = 1 .. n
  OBVIOUS
<1>3. AddUp(h, 1 .. n + 1) = h[n + 1] + AddUp(h, 1 .. n)
  BY <1>1, <1>2, AddUpTake
<1>4. AddUp(h, 1 .. n) = AddUp(g, 1 .. n)
  BY <1>1, AddUpSame
<1>5. Amounts(g, 1 .. n) /\ h[n + 1] \in Int
  BY <1>2 DEF Amounts
<1>6. AddUp(g, 1 .. n) \in Int
  BY <1>1, <1>5, AddUpType
<1>. QED
  BY <1>3, <1>4, <1>5, <1>6

LEMMA AcceptSums ==
  ASSUME TypeInv, AmountsInv, NEW p \in Parties, Accept(p), BookTypes',
         NEW f \in [1 .. count[p] -> Item], NEW x \in Item, AcceptsItem(p, f, x, orders[count[p] + 1])
  PROVE  /\ \A k \in 1 .. count[p] : item'[p][k] = f[k]
         /\ item'[p][count[p] + 1] = x /\ count'[p] = count[p] + 1
         /\ ItemsAddUp(item'[p], orders, count'[p])
<1>1. PICK n \in Nat : n = count[p]
  BY BookFacts
<1>2. f \in [1 .. n -> Item] /\ item[p] \in [1 .. n -> Item] /\ count'[p] = n + 1
  BY <1>1, BookFacts, InvParts DEF Accept, Accepted, BookTypes
<1>3. f \in Seq(Item) /\ Len(f) = n
  BY <1>2, FunIsSeq
<1>4. item'[p] = Append(f, x)
  BY InvParts DEF AcceptsItem, BookTypes
<1>5. \A k \in 1 .. n : item'[p][k] = f[k]
  BY <1>3, <1>4, AppendProperties
<1>6. item'[p][n + 1] = x
  BY <1>3, <1>4, AppendProperties
<1>7. PICK g \in [1 .. n + 1 -> Item] : g = item'[p]
  BY <1>2, NextItems
<1>8. \A k \in 1 .. n : SameBoth(item[p][k], g[k])
  BY <1>1, <1>2, <1>5, <1>7, SameIsBoth DEF AcceptsItem
<1>9. PICK o \in Placed : o = orders[n + 1] /\ n + 1 \in DOMAIN orders
  BY <1>1, BookFacts DEF Accept
<1>10. g[n + 1].rv + g[n + 1].ov = Brings(o).v /\ g[n + 1].ra + g[n + 1].oa = Brings(o).a
  BY <1>1, <1>6, <1>7, <1>9, FreshBrings DEF AcceptsItem, SameAmounts
<1>11. \A k \in 1 .. n : /\ BothV(item[p])[k] = BothV(g)[k] /\ BothA(item[p])[k] = BothA(g)[k]
  <2>1. \A k \in 1 .. n : BothV(item[p])[k] = item[p][k].rv + item[p][k].ov
                          /\ BothA(item[p])[k] = item[p][k].ra + item[p][k].oa
    BY <1>2, ItemAmountsAt
  <2>2. \A k \in 1 .. n : k \in 1 .. n + 1
    OBVIOUS
  <2>4. n + 1 \in Nat
    OBVIOUS
  <2>3. \A k \in 1 .. n : BothV(g)[k] = g[k].rv + g[k].ov /\ BothA(g)[k] = g[k].ra + g[k].oa
    BY <2>2, <2>4, ItemAmountsAt
  <2>. QED
    BY <1>8, <2>1, <2>3 DEF SameBoth
<1>12. /\ BothV(g)[n + 1] = Brings(o).v /\ BothA(g)[n + 1] = Brings(o).a
       /\ Amounts(BothV(g), 1 .. n + 1) /\ Amounts(BothA(g), 1 .. n + 1)
  <2>1. n + 1 \in Nat /\ n + 1 \in 1 .. n + 1
    OBVIOUS
  <2>2. BothV(g)[n + 1] = Brings(o).v /\ BothA(g)[n + 1] = Brings(o).a
    BY <1>10, <2>1, ItemAmountsAt
  <2>3. Amounts(BothV(g), 1 .. n + 1) /\ Amounts(BothA(g), 1 .. n + 1)
    BY <2>1, ItemAmounts
  <2>. QED
    BY <2>2, <2>3
<1>13. /\ AddUp(BothV(g), 1 .. n + 1) = AddUp(BothV(item[p]), 1 .. n) + Brings(o).v
       /\ AddUp(BothA(g), 1 .. n + 1) = AddUp(BothA(item[p]), 1 .. n) + Brings(o).a
  <2>1. AddUp(BothV(g), 1 .. n + 1) = AddUp(BothV(item[p]), 1 .. n) + BothV(g)[n + 1]
    BY <1>11, <1>12, AddUpMore
  <2>2. AddUp(BothA(g), 1 .. n + 1) = AddUp(BothA(item[p]), 1 .. n) + BothA(g)[n + 1]
    BY <1>11, <1>12, AddUpMore
  <2>. QED
    BY <1>12, <2>1, <2>2
<1>14. \A k \in 1 .. n + 1 : k \in DOMAIN orders /\ orders[k] \in Placed
  BY <1>9, BookFacts
<1>15. \A k \in 1 .. n + 1 : BringsV(orders)[k] = Brings(orders[k]).v /\ BringsA(orders)[k] = Brings(orders[k]).a
  BY <1>14 DEF BringsV, BringsA, Brings
<1>16. Amounts(BringsV(orders), 1 .. n + 1) /\ Amounts(BringsA(orders), 1 .. n + 1)
  BY <1>14, <1>15, FreshBrings DEF Amounts
<1>17. /\ AddUp(BringsV(orders), 1 .. n + 1) = AddUp(BringsV(orders), 1 .. n) + Brings(o).v
       /\ AddUp(BringsA(orders), 1 .. n + 1) = AddUp(BringsA(orders), 1 .. n) + Brings(o).a
  <2>1. n + 1 \in 1 .. n + 1
    OBVIOUS
  <2>2. AddUp(BringsV(orders), 1 .. n + 1) = AddUp(BringsV(orders), 1 .. n) + BringsV(orders)[n + 1]
    BY <1>16, AddUpMore
  <2>3. AddUp(BringsA(orders), 1 .. n + 1) = AddUp(BringsA(orders), 1 .. n) + BringsA(orders)[n + 1]
    BY <1>16, AddUpMore
  <2>. QED
    BY <1>9, <1>15, <2>1, <2>2, <2>3
<1>18. ItemsAddUp(item[p], orders, n)
  BY <1>1 DEF AmountsInv, AmountsOf
<1>. QED
  BY <1>1, <1>2, <1>5, <1>6, <1>7, <1>13, <1>17, <1>18 DEF ItemsAddUp

LEMMA GrownSums ==
  ASSUME NEW n \in Nat, NEW f \in [1 .. n -> Item], NEW g \in [1 .. n + 1 -> Item],
         \A k \in 1 .. n : g[k].rv = f[k].rv /\ g[k].ra = f[k].ra,
         NEW P \in SUBSET (1 .. n)
  PROVE  /\ IsFiniteSet(Buys(P)) /\ IsFiniteSet(Sells(P))
         /\ Buys(P) \in SUBSET (1 .. n) /\ Sells(P) \in SUBSET (1 .. n)
         /\ AddUp(RemainV(g), Buys(P)) = AddUp(RemainV(f), Buys(P))
         /\ AddUp(RemainA(g), Sells(P)) = AddUp(RemainA(f), Sells(P))
         /\ AddUp(RemainV(f), Buys(P)) \in Int /\ AddUp(RemainA(f), Sells(P)) \in Int
<1>1. Buys(P) \in SUBSET (1 .. n) /\ Sells(P) \in SUBSET (1 .. n)
  BY DEF Buys, Sells
<1>2. IsFiniteSet(Buys(P)) /\ IsFiniteSet(Sells(P))
  <2>1. IsFiniteSet(1 .. n)
    BY FS_Interval
  <2>. QED
    BY <1>1, <2>1, FS_Subset
<1>3. \A k \in 1 .. n : RemainV(f)[k] = f[k].rv /\ RemainA(f)[k] = f[k].ra
  BY ItemAmountsAt
<1>4. \A k \in 1 .. n : RemainV(g)[k] = g[k].rv /\ RemainA(g)[k] = g[k].ra
  <2>1. n + 1 \in Nat /\ \A k \in 1 .. n : k \in 1 .. n + 1
    OBVIOUS
  <2>. QED
    BY <2>1, ItemAmountsAt
<1>5. \A k \in Buys(P) : RemainV(g)[k] = RemainV(f)[k]
  BY <1>1, <1>3, <1>4
<1>6. \A k \in Sells(P) : RemainA(g)[k] = RemainA(f)[k]
  BY <1>1, <1>3, <1>4
<1>7. AddUp(RemainV(g), Buys(P)) = AddUp(RemainV(f), Buys(P))
  BY <1>2, <1>5, AddUpSame
<1>8. AddUp(RemainA(g), Sells(P)) = AddUp(RemainA(f), Sells(P))
  BY <1>2, <1>6, AddUpSame
<1>9. Amounts(RemainV(f), Buys(P))
  BY <1>1, ItemAmounts
<1>10. Amounts(RemainA(f), Sells(P))
  BY <1>1, ItemAmounts
<1>. QED
  BY <1>1, <1>2, <1>7, <1>8, <1>9, <1>10, AddUpType

\* A valid order brings to the figures what it brings to the pool.
LEMMA TradeFigures ==
  ASSUME TypeInv, NEW p \in Parties, NEW i, NEW o, i = count[p] + 1, i \in DOMAIN orders, o = orders[i],
         o.kind \in Trades, o.valid, AcceptTrade(p, i, o),
         NEW g \in [1 .. count[p] + 1 -> Item],
         \A k \in 1 .. count[p] : g[k].rv = item[p][k].rv /\ g[k].ra = item[p][k].ra,
         SameAmounts(Fresh(o), g[i]), PoolAddsUp(inPool[p], item[p], pool[p])
  PROVE  PoolAddsUp(inPool'[p], g, pool'[p])
<1>1. PICK n \in Nat : n = count[p]
  BY BookFacts
<1>2. PICK f \in [1 .. n -> Item] : f = item[p] /\ pool[p] \in SUBSET (1 .. n)
  BY <1>1, BookFacts
<1>0. /\ g \in [1 .. n + 1 -> Item]
      /\ \A k \in 1 .. n : g[k].rv = f[k].rv /\ g[k].ra = f[k].ra
  BY <1>1, <1>2
<1>3. /\ IsFiniteSet(Buys(pool[p])) /\ IsFiniteSet(Sells(pool[p]))
      /\ Buys(pool[p]) \in SUBSET (1 .. n) /\ Sells(pool[p]) \in SUBSET (1 .. n)
      /\ AddUp(RemainV(g), Buys(pool[p])) = AddUp(RemainV(f), Buys(pool[p]))
      /\ AddUp(RemainA(g), Sells(pool[p])) = AddUp(RemainA(f), Sells(pool[p]))
      /\ AddUp(RemainV(f), Buys(pool[p])) \in Int /\ AddUp(RemainA(f), Sells(pool[p])) \in Int
  <2>1. PICK P \in SUBSET (1 .. n) : P = pool[p]
    BY <1>2
  <2>2. /\ IsFiniteSet(Buys(P)) /\ IsFiniteSet(Sells(P))
        /\ Buys(P) \in SUBSET (1 .. n) /\ Sells(P) \in SUBSET (1 .. n)
        /\ AddUp(RemainV(g), Buys(P)) = AddUp(RemainV(f), Buys(P))
        /\ AddUp(RemainA(g), Sells(P)) = AddUp(RemainA(f), Sells(P))
        /\ AddUp(RemainV(f), Buys(P)) \in Int /\ AddUp(RemainA(f), Sells(P)) \in Int
    BY <1>0, GrownSums
  <2>. QED
    BY <2>1, <2>2
<1>4. o \in Placed /\ DOMAIN pool = Parties /\ DOMAIN inPool = Parties
  BY BookFacts, InvParts DEF BookTypes, MapOK
<1>5. /\ pool'[p] = pool[p] \cup {i}
      /\ inPool'[p] = [v |-> inPool[p].v + (IF o.kind = "buy" THEN o.value ELSE 0),
                       a |-> inPool[p].a + (IF o.kind = "sell" THEN o.amt ELSE 0)]
  BY <1>4 DEF AcceptTrade
<1>6. n + 1 \in Nat /\ i = n + 1 /\ i \in 1 .. n + 1 /\ i \notin 1 .. n /\ 1 .. n \subseteq 1 .. n + 1
  BY <1>1
<1>7. /\ RemainV(g)[i] = g[i].rv /\ RemainA(g)[i] = g[i].ra
      /\ o.kind = "buy" => g[i].rv = o.value
      /\ g[i].ra = o.amt
  <2>1. RemainV(g)[i] = g[i].rv /\ RemainA(g)[i] = g[i].ra
    BY <1>1, <1>6, ItemAmountsAt
  <2>2. g[i].rv = Brings(o).v /\ g[i].ra = Brings(o).a
    BY <1>4, FreshBrings DEF SameAmounts
  <2>. QED
    BY <2>1, <2>2 DEF Brings
<1>8. inPool[p] = [v |-> AddUp(RemainV(f), Buys(pool[p])), a |-> AddUp(RemainA(f), Sells(pool[p]))]
  BY <1>2 DEF PoolAddsUp
<1>9. CASE o.kind = "buy"
  <2>1. PICK B : B = Buys(pool[p]) \cup {i}
    OBVIOUS
  <2>2. Buys(pool'[p]) = B /\ Sells(pool'[p]) = Sells(pool[p]) /\ B \ {i} = Buys(pool[p])
    BY <1>3, <1>5, <1>6, <1>9, <2>1 DEF Buys, Sells
  <2>3. IsFiniteSet(B) /\ B \in SUBSET (1 .. n + 1) /\ i \in B
    BY <1>3, <1>6, <2>1, FS_AddElement
  <2>4. Amounts(RemainV(g), B)
    BY <1>1, <1>6, <2>3, ItemAmounts
  <2>5. AddUp(RemainV(g), B) = RemainV(g)[i] + AddUp(RemainV(g), B \ {i})
    BY <2>3, <2>4, AddUpTake
  <2>6. AddUp(RemainV(g), B) = o.value + AddUp(RemainV(f), Buys(pool[p]))
    BY <1>3, <1>7, <1>9, <2>2, <2>5
  <2>7. inPool'[p] = [v |-> AddUp(RemainV(f), Buys(pool[p])) + o.value,
                      a |-> AddUp(RemainA(f), Sells(pool[p])) + 0]
    BY <1>5, <1>8, <1>9
  <2>8. o.value \in Int
    BY <1>4 DEF Placed
  <2>9. inPool'[p] = [v |-> AddUp(RemainV(g), B), a |-> AddUp(RemainA(g), Sells(pool[p]))]
    BY <1>3, <2>6, <2>7, <2>8
  <2>. QED
    BY <2>2, <2>9 DEF PoolAddsUp
<1>10. CASE o.kind = "sell"
  <2>1. PICK B : B = Sells(pool[p]) \cup {i}
    OBVIOUS
  <2>2. Sells(pool'[p]) = B /\ Buys(pool'[p]) = Buys(pool[p]) /\ B \ {i} = Sells(pool[p])
    BY <1>3, <1>5, <1>6, <1>10, <2>1 DEF Buys, Sells
  <2>3. IsFiniteSet(B) /\ B \in SUBSET (1 .. n + 1) /\ i \in B
    BY <1>3, <1>6, <2>1, FS_AddElement
  <2>4. Amounts(RemainA(g), B)
    BY <1>1, <1>6, <2>3, ItemAmounts
  <2>5. AddUp(RemainA(g), B) = RemainA(g)[i] + AddUp(RemainA(g), B \ {i})
    BY <2>3, <2>4, AddUpTake
  <2>6. AddUp(RemainA(g), B) = o.amt + AddUp(RemainA(f), Sells(pool[p]))
    BY <1>3, <1>7, <2>2, <2>5
  <2>7. inPool'[p] = [v |-> AddUp(RemainV(f), Buys(pool[p])) + 0,
                      a |-> AddUp(RemainA(f), Sells(pool[p])) + o.amt]
    BY <1>5, <1>8, <1>10
  <2>8. o.amt \in Int
    BY <1>4 DEF Placed
  <2>9. inPool'[p] = [v |-> AddUp(RemainV(g), Buys(pool[p])), a |-> AddUp(RemainA(g), B)]
    BY <1>3, <2>6, <2>7, <2>8
  <2>. QED
    BY <2>2, <2>9 DEF PoolAddsUp
<1>. QED
  BY <1>9, <1>10 DEF Trades

\* What is taken back leaves the figures with the pool.
LEMMA RefundFigures ==
  ASSUME TypeInv, NEW p \in Parties, NEW i, NEW o, Of(swapMap[p], o.addr) # {}, AcceptRefund(p, i, o),
         NEW g \in [1 .. count[p] + 1 -> Item],
         \A k \in 1 .. count[p] : g[k].rv = item[p][k].rv /\ g[k].ra = item[p][k].ra,
         PoolAddsUp(inPool[p], item[p], pool[p])
  PROVE  PoolAddsUp(inPool'[p], g, pool'[p])
<1>1. PICK n \in Nat : n = count[p]
  BY BookFacts
<1>2. PICK f \in [1 .. n -> Item] : f = item[p] /\ pool[p] \in SUBSET (1 .. n)
  BY <1>1, BookFacts
<1>0. /\ g \in [1 .. n + 1 -> Item]
      /\ \A k \in 1 .. n : g[k].rv = f[k].rv /\ g[k].ra = f[k].ra
  BY <1>1, <1>2
<1>3. DOMAIN pool = Parties /\ DOMAIN inPool = Parties
  BY InvParts DEF BookTypes, MapOK
<1>4. PICK T \in SUBSET pool[p] : T = TakenOut(p, o.addr)
  BY DEF TakenOut, Of
<1>5. /\ pool'[p] = pool[p] \ T
      /\ inPool'[p] = [v |-> inPool[p].v - Held(p, T).v, a |-> inPool[p].a - Held(p, T).a]
  BY <1>3, <1>4 DEF AcceptRefund, Freed
<1>6. ASSUME NEW P \in SUBSET pool[p]
      PROVE  /\ IsFiniteSet(Buys(P)) /\ IsFiniteSet(Sells(P))
             /\ Buys(P) \in SUBSET (1 .. n) /\ Sells(P) \in SUBSET (1 .. n)
             /\ AddUp(RemainV(g), Buys(P)) = AddUp(RemainV(f), Buys(P))
             /\ AddUp(RemainA(g), Sells(P)) = AddUp(RemainA(f), Sells(P))
             /\ AddUp(RemainV(f), Buys(P)) \in Int /\ AddUp(RemainA(f), Sells(P)) \in Int
  <2>1. P \in SUBSET (1 .. n)
    BY <1>2
  <2>. QED
    BY <1>0, <2>1, GrownSums
<1>7. Held(p, T) = [v |-> AddUp(RemainV(f), Buys(T)), a |-> AddUp(RemainA(f), Sells(T))]
  BY <1>2, <1>6, HeldAddsUp
<1>8. inPool[p] = [v |-> AddUp(RemainV(f), Buys(pool[p])), a |-> AddUp(RemainA(f), Sells(pool[p]))]
  BY <1>2 DEF PoolAddsUp
<1>9. /\ Buys(pool'[p]) = Buys(pool[p]) \ Buys(T) /\ Sells(pool'[p]) = Sells(pool[p]) \ Sells(T)
      /\ Buys(T) \in SUBSET Buys(pool[p]) /\ Sells(T) \in SUBSET Sells(pool[p])
  BY <1>5 DEF Buys, Sells
<1>10. AddUp(RemainV(f), Buys(pool[p])) = AddUp(RemainV(f), Buys(T)) + AddUp(RemainV(f), Buys(pool'[p]))
  <2>1. Amounts(RemainV(f), Buys(pool[p])) /\ IsFiniteSet(Buys(pool[p]))
    BY <1>6, ItemAmounts
  <2>. QED
    BY <1>9, <2>1, AddUpSplit
<1>11. AddUp(RemainA(f), Sells(pool[p])) = AddUp(RemainA(f), Sells(T)) + AddUp(RemainA(f), Sells(pool'[p]))
  <2>1. Amounts(RemainA(f), Sells(pool[p])) /\ IsFiniteSet(Sells(pool[p]))
    BY <1>6, ItemAmounts
  <2>. QED
    BY <1>9, <2>1, AddUpSplit
<1>12. /\ AddUp(RemainV(g), Buys(pool'[p])) = AddUp(RemainV(f), Buys(pool'[p]))
       /\ AddUp(RemainA(g), Sells(pool'[p])) = AddUp(RemainA(f), Sells(pool'[p]))
       /\ AddUp(RemainV(f), Buys(pool'[p])) \in Int /\ AddUp(RemainA(f), Sells(pool'[p])) \in Int
       /\ AddUp(RemainV(f), Buys(T)) \in Int /\ AddUp(RemainA(f), Sells(T)) \in Int
  BY <1>5, <1>6
<1>13. inPool'[p] = [v |-> AddUp(RemainV(f), Buys(pool[p])) - AddUp(RemainV(f), Buys(T)),
                     a |-> AddUp(RemainA(f), Sells(pool[p])) - AddUp(RemainA(f), Sells(T))]
  BY <1>5, <1>7, <1>8
<1>14. inPool'[p] = [v |-> AddUp(RemainV(g), Buys(pool'[p])), a |-> AddUp(RemainA(g), Sells(pool'[p]))]
  BY <1>10, <1>11, <1>12, <1>13
<1>. QED
  BY <1>14 DEF PoolAddsUp

LEMMA AcceptKeeps ==
  ASSUME TypeInv, PoolInv, KeptInv, AmountsInv, NEW p \in Parties, Accept(p), BookTypes'
  PROVE  KeptInv' /\ AmountsInv'
<1> DEFINE i == count[p] + 1
           o == orders[i]
<1>1. PICK f \in [1 .. count[p] -> Item], x \in Item : AcceptsItem(p, f, x, o)
  BY AcceptEffect
<1>2. /\ \A k \in 1 .. count[p] : item'[p][k] = f[k]
      /\ item'[p][i] = x /\ count'[p] = i
      /\ ItemsAddUp(item'[p], orders, count'[p])
  BY <1>1, AcceptSums
<1>3. /\ i \in DOMAIN orders /\ o \in Placed /\ UNCHANGED <<orders, forgot>>
      /\ count[p] \in Nat /\ i \notin 1 .. count[p] /\ 1 .. i = 1 .. count[p] \cup {i}
      /\ DOMAIN refundMap = Parties /\ DOMAIN pool = Parties /\ DOMAIN inPool = Parties
      /\ DOMAIN swapMap = Parties /\ DOMAIN withdrawMap = Parties
      /\ pool[p] \subseteq 1 .. count[p] /\ withdrawMap[p] \subseteq 1 .. count[p]
      /\ refundMap[p] \subseteq 1 .. count[p] /\ swapMap[p] \subseteq 1 .. count[p]
  BY BookFacts, InvParts DEF Accept, Accepted, BookTypes, MapOK
<1>4. /\ Fresh(o).done = "init" /\ Fresh(o).ov = 0 /\ Fresh(o).oa = 0
      /\ o.valid => Fresh(o).saved = "normal"
  BY <1>3, FreshType, FreshBrings
<1>5. PICK g \in [1 .. count[p] + 1 -> Item] : g = item'[p]
  BY <1>2, NextItems
<1>6. /\ \A k \in 1 .. count[p] : /\ SameAmounts(item[p][k], g[k])
                                  /\ g[k].done = item[p][k].done /\ g[k].saved = item[p][k].saved
      /\ SameAmounts(Fresh(o), g[i]) /\ (o.kind # "refund" => g[i] = Fresh(o))
  BY <1>1, <1>2, <1>5 DEF AcceptsItem
<1>7. KeptOf(p) /\ PoolOf(p)
  BY DEF KeptInv, PoolInv
<1> HIDE DEF o, i
<1>8. \A k \in 1 .. i :
        /\ orders[k].kind = "withdraw" /\ g[k].done = "init" => g[k].ov = 0 /\ g[k].oa = 0
        /\ orders[k].kind = "buy" /\ g[k].rv # 0 => g[k].ov = 0
  BY <1>3, <1>4, <1>6, <1>7 DEF KeptOf, SameAmounts
<1>9. /\ \A k \in 1 .. count[p] : g[k].rv = item[p][k].rv /\ g[k].ra = item[p][k].ra
      /\ i = count[p] + 1 /\ o = orders[i]
  BY <1>6 DEF SameAmounts, i, o
<1>10. ASSUME UNCHANGED <<pool, inPool>>, forgot[p] = {}
       PROVE  PoolAddsUp(inPool'[p], g, pool'[p])
  <2>1. PICK n \in Nat : n = count[p]
    BY <1>3
  <2>2. PICK h \in [1 .. n -> Item] : h = item[p]
    BY <2>1, BookFacts
  <2>3. PICK P \in SUBSET (1 .. n) : P = pool[p]
    BY <1>3, <2>1
  <2>4. g \in [1 .. n + 1 -> Item] /\ \A k \in 1 .. n : g[k].rv = h[k].rv /\ g[k].ra = h[k].ra
    BY <1>9, <2>1, <2>2
  <2>5. /\ AddUp(RemainV(g), Buys(P)) = AddUp(RemainV(h), Buys(P))
        /\ AddUp(RemainA(g), Sells(P)) = AddUp(RemainA(h), Sells(P))
    BY <2>4, GrownSums
  <2>6. PoolAddsUp(inPool[p], item[p], pool[p])
    BY <1>10 DEF AmountsInv, AmountsOf
  <2>. QED
    BY <1>10, <2>2, <2>3, <2>5, <2>6 DEF PoolAddsUp
<1>11. KeptOf(p)' /\ (forgot[p] = {} => PoolAddsUp(inPool'[p], g, pool'[p])) /\ FiguresAt(p)
  <2>1. CASE o.kind \in Trades /\ AcceptTrade(p, i, o)
    <3>1. g[i] = Fresh(o)
      BY <1>6, <2>1 DEF Trades
    <3>2. /\ withdrawMap'[p] = withdrawMap[p]
          /\ refundMap'[p] \subseteq refundMap[p] \cup {i}
          /\ pool'[p] \subseteq pool[p] \cup {i} /\ (i \in pool'[p] => o.valid)
          /\ \A q \in Parties \ {p} : inPool'[q] = inPool[q]
      BY <1>3, <2>1 DEF AcceptTrade
    <3>3. KeptOf(p)'
      <4>1. \A k \in pool'[p] : g[k].saved = "normal"
        BY <1>3, <1>4, <1>6, <1>7, <3>1, <3>2 DEF KeptOf
      <4>2. withdrawMap'[p] \cap refundMap'[p] = {}
        BY <1>3, <1>7, <3>2 DEF KeptOf
      <4>3. \A k \in withdrawMap'[p] : g[k].done = "init"
        BY <1>3, <1>6, <1>7, <3>2 DEF KeptOf
      <4>. QED
        BY <1>2, <1>3, <1>5, <1>8, <4>1, <4>2, <4>3 DEF KeptOf
    <3>4. ASSUME forgot[p] = {}
          PROVE  PoolAddsUp(inPool'[p], g, pool'[p])
      <4>1. PoolAddsUp(inPool[p], item[p], pool[p])
        BY <3>4 DEF AmountsInv, AmountsOf
      <4>2. CASE o.valid
        BY <1>3, <1>6, <1>9, <2>1, <4>1, <4>2, TradeFigures
      <4>3. CASE ~o.valid
        BY <1>10, <2>1, <3>4, <4>3 DEF AcceptTrade
      <4>. QED
        BY <4>2, <4>3
    <3>. QED
      BY <1>3, <3>2, <3>3, <3>4 DEF FiguresAt
  <2>2. CASE o.kind = "withdraw" /\ AcceptWithdraw(p, i, o)
    <3>1. g[i] = Fresh(o)
      BY <1>6, <2>2
    <3>2. /\ UNCHANGED <<pool, inPool>>
          /\ refundMap'[p] \subseteq refundMap[p] \cup {i} /\ withdrawMap'[p] \subseteq withdrawMap[p] \cup {i}
          /\ refundMap'[p] = refundMap[p] \/ withdrawMap'[p] = withdrawMap[p]
      BY <1>3, <2>2 DEF AcceptWithdraw
    <3>3. KeptOf(p)'
      <4>1. \A k \in pool'[p] : g[k].saved = "normal"
        BY <1>3, <1>6, <1>7, <3>2 DEF KeptOf
      <4>2. withdrawMap'[p] \cap refundMap'[p] = {}
        BY <1>3, <1>7, <3>2 DEF KeptOf
      <4>3. \A k \in withdrawMap'[p] : g[k].done = "init"
        BY <1>3, <1>4, <1>6, <1>7, <3>1, <3>2 DEF KeptOf
      <4>. QED
        BY <1>2, <1>3, <1>5, <1>8, <4>1, <4>2, <4>3 DEF KeptOf
    <3>. QED
      BY <1>3, <1>10, <3>2, <3>3 DEF FiguresAt
  <2>3. CASE AcceptRefund(p, i, o)
    <3> DEFINE mine == Of(swapMap[p], o.addr)
               back == {j \in Open(p, mine) : item[p][j].reason = "normal"}
    <3>1. /\ withdrawMap' = withdrawMap /\ pool'[p] \subseteq pool[p]
          /\ refundMap'[p] \subseteq refundMap[p] \cup back \cup {i}
          /\ \A q \in Parties \ {p} : inPool'[q] = inPool[q]
          /\ mine = {} => UNCHANGED <<pool, inPool>>
      <4>1. CASE mine = {}
        BY <1>3, <2>3, <4>1 DEF AcceptRefund
      <4>2. CASE mine # {}
        <5> HIDE DEF back
        <5>1. /\ pool' = [pool EXCEPT ![p] = @ \ TakenOut(p, o.addr)]
              /\ refundMap' = [refundMap EXCEPT ![p] = @ \cup back \cup {i}]
              /\ withdrawMap' = withdrawMap
              /\ \A q \in Parties \ {p} : inPool'[q] = inPool[q]
          BY <1>3, <2>3, <4>2 DEF AcceptRefund, back
        <5>. QED
          BY <1>3, <4>2, <5>1
      <4>. QED
        BY <4>1, <4>2
    <3>2. back \subseteq pool[p]
      BY <1>7 DEF Open, Of, PoolOf
    <3> HIDE DEF back
    <3>3. KeptOf(p)'
      <4>1. \A k \in pool'[p] : g[k].saved = "normal"
        BY <1>3, <1>6, <1>7, <3>1 DEF KeptOf
      <4>2. withdrawMap'[p] \cap refundMap'[p] = {}
        <5>1. pool[p] \cap withdrawMap[p] = {}
          BY <1>7 DEF PoolOf, Trades
        <5>. QED
          BY <1>3, <1>7, <3>1, <3>2, <5>1 DEF KeptOf
      <4>3. \A k \in withdrawMap'[p] : g[k].done = "init"
        BY <1>3, <1>6, <1>7, <3>1 DEF KeptOf
      <4>. QED
        BY <1>2, <1>3, <1>5, <1>8, <4>1, <4>2, <4>3 DEF KeptOf
    <3>4. ASSUME forgot[p] = {}
          PROVE  PoolAddsUp(inPool'[p], g, pool'[p])
      <4>1. PoolAddsUp(inPool[p], item[p], pool[p])
        BY <3>4 DEF AmountsInv, AmountsOf
      <4>2. CASE mine = {}
        BY <1>10, <3>1, <3>4, <4>2
      <4>3. CASE mine # {}
        BY <1>9, <2>3, <4>1, <4>3, RefundFigures
      <4>. QED
        BY <4>2, <4>3
    <3>. QED
      BY <1>3, <3>1, <3>3, <3>4 DEF FiguresAt
  <2>. QED
    BY <2>1, <2>2, <2>3 DEF Accept, i, o
<1>. QED
  BY <1>2, <1>3, <1>5, <1>11, AcceptAt, KeptElsewhere

-----------------------------------------------------------------------------
(* A match.                                                                *)

\* The sums of the two that meet, by what each has before and after.
LEMMA MatchMoves ==
  ASSUME NEW x \in Item, NEW y \in Item, NEW u \in Item, NEW w \in Item,
         NEW paid \in Int, NEW amt \in Int, NEW rest \in Int, NEW over \in Int,
         x.rv # 0 => x.ov = 0, u.ra # 0 => u.oa = 0, x.rv # 0, u.ra # 0,
         BoughtAt(x, y, paid, amt, rest), SoldOver(u, w, amt, over), w.rv = u.rv, w.ov = u.ov + paid
  PROVE  /\ ((y.rv + y.ov) - (x.rv + x.ov)) + ((w.rv + w.ov) - (u.rv + u.ov)) = 0
         /\ ((y.ra + y.oa) - (x.ra + x.oa)) + ((w.ra + w.oa) - (u.ra + u.oa)) = 0
         /\ y.rv - x.rv = 0 - paid - rest /\ w.ra - u.ra = 0 - amt - over
         /\ y.rv # 0 => y.ov = 0
<1>1. /\ x.rv \in Int /\ x.ra \in Int /\ x.ov = 0 /\ x.oa \in Int
      /\ u.rv \in Int /\ u.ra \in Int /\ u.ov \in Int /\ u.oa = 0
  BY DEF Item
<1>2. y.ra = x.ra /\ y.oa = x.oa + amt /\ y.rv = x.rv - paid - rest /\ y.ov = rest
  BY <1>1 DEF BoughtAt
<1>3. w.ra = u.ra - amt - over /\ w.oa = over
  BY <1>1 DEF SoldOver
<1>4. y.rv # 0 => y.ov = 0
  BY <1>1 DEF BoughtAt
<1>. QED
  BY <1>1, <1>2, <1>3, <1>4

\* A sum is kept when what one index loses another one gains.
LEMMA AddUpBalance ==
  ASSUME NEW S, IsFiniteSet(S), NEW g, NEW h, Amounts(g, S), Amounts(h, S), NEW x \in S, NEW y \in S,
         x # y, \A i \in S \ {x, y} : g[i] = h[i], (h[x] - g[x]) + (h[y] - g[y]) = 0
  PROVE  AddUp(h, S) = AddUp(g, S)
<1>1. g[x] \in Int /\ h[x] \in Int /\ g[y] \in Int /\ h[y] \in Int
  BY DEF Amounts
<1>2. AddUp(h, S) \in Int /\ AddUp(g, S) \in Int
  BY AddUpType
<1>3. AddUp(h, S) = AddUp(g, S) + (h[x] - g[x]) + (h[y] - g[y])
  BY AddUpChangeTwo
<1>. QED
  BY <1>1, <1>2, <1>3

LEMMA MatchKeeps ==
  ASSUME TypeInv, PoolInv, SellerInv, KeptInv, AmountsInv, NEW p \in Parties, MatchOrders(p), BookTypes'
  PROVE  KeptInv' /\ AmountsInv'
<1>1. PICK b \in Buys(Live(p)), s \in Sells(Live(p)), xb \in Item, xs \in Item,
           amt \in Int, rest \in Int, over \in Int :
         /\ item' = [item EXCEPT ![p] = [@ EXCEPT ![b] = xb, ![s] = xs]]
         /\ SameState(item[p][b], xb) /\ SameState(item[p][s], xs)
         /\ SoldAt(item[p][s], xs, orders[s].price, amt) /\ SoldOver(item[p][s], xs, amt, over)
         /\ Ceil2(amt * orders[s].price) \in Int
         /\ BoughtAt(item[p][b], xb, Ceil2(amt * orders[s].price), amt, rest)
         /\ inPool' = [inPool EXCEPT ![p] =
                         [v |-> inPool[p].v - Ceil2(amt * orders[s].price) - rest,
                          a |-> inPool[p].a - amt - over]]
  BY MatchEffect
<1>2. PICK paid \in Int : paid = Ceil2(amt * orders[s].price)
  BY <1>1
<1>3. UNCHANGED <<orders, count, pool, swapMap, refundMap, withdrawMap, forgot>>
  BY MatchFrame
<1>4. PICK n \in Nat : n = count[p]
  BY BookFacts
<1>5. PICK f \in [1 .. n -> Item] : f = item[p]
  BY <1>4, BookFacts
<1>6. /\ b \in 1 .. n /\ s \in 1 .. n /\ b # s
      /\ orders[b].kind = "buy" /\ orders[s].kind = "sell"
      /\ f[b].rv # 0 /\ f[s].ra # 0 /\ b \in pool[p] /\ s \in pool[p]
      /\ pool[p] \subseteq 1 .. n /\ DOMAIN item = Parties /\ DOMAIN inPool = Parties
  BY <1>4, <1>5, BookFacts, InvParts DEF Live, Exhausted, Buys, Sells, BookTypes
<1>7. PICK g \in [1 .. n -> Item] : g = [f EXCEPT ![b] = xb, ![s] = xs] /\ g = item'[p]
  BY <1>1, <1>5, <1>6
<1>8. /\ g[b] = xb /\ g[s] = xs /\ \A k \in (1 .. n) \ {b, s} : g[k] = f[k]
      /\ xs.rv = f[s].rv /\ xs.ov = f[s].ov + paid
  BY <1>1, <1>2, <1>5, <1>6, <1>7 DEF SoldAt
<1>9. (f[b].rv # 0 => f[b].ov = 0) /\ (f[s].ra # 0 => f[s].oa = 0)
  BY <1>4, <1>5, <1>6 DEF KeptInv, KeptOf, SellerInv, PriceKept
<1>10. /\ ((xb.rv + xb.ov) - (f[b].rv + f[b].ov)) + ((xs.rv + xs.ov) - (f[s].rv + f[s].ov)) = 0
       /\ ((xb.ra + xb.oa) - (f[b].ra + f[b].oa)) + ((xs.ra + xs.oa) - (f[s].ra + f[s].oa)) = 0
       /\ xb.rv - f[b].rv = 0 - paid - rest /\ xs.ra - f[s].ra = 0 - amt - over
       /\ xb.rv # 0 => xb.ov = 0
  <2>1. PICK x \in Item, u \in Item : x = f[b] /\ u = f[s]
    BY <1>6
  <2>2. BoughtAt(x, xb, paid, amt, rest) /\ SoldOver(u, xs, amt, over)
    BY <1>1, <1>2, <1>5, <2>1
  <2>3. /\ x.rv # 0 /\ u.ra # 0 /\ xs.rv = u.rv /\ xs.ov = u.ov + paid
        /\ (x.rv # 0 => x.ov = 0) /\ (u.ra # 0 => u.oa = 0)
    BY <1>6, <1>8, <1>9, <2>1
  <2>4. /\ ((xb.rv + xb.ov) - (x.rv + x.ov)) + ((xs.rv + xs.ov) - (u.rv + u.ov)) = 0
        /\ ((xb.ra + xb.oa) - (x.ra + x.oa)) + ((xs.ra + xs.oa) - (u.ra + u.oa)) = 0
        /\ xb.rv - x.rv = 0 - paid - rest /\ xs.ra - u.ra = 0 - amt - over
        /\ xb.rv # 0 => xb.ov = 0
    BY <2>2, <2>3, MatchMoves
  <2>. QED
    BY <2>1, <2>4
<1>11. KeptOf(p)'
  <2>1. KeptOf(p)
    BY DEF KeptInv
  <2>2. \A k \in 1 .. n : g[k].saved = f[k].saved /\ g[k].done = f[k].done
    BY <1>1, <1>5, <1>6, <1>8 DEF SameState
  <2>3. \A k \in pool[p] : g[k].saved = "normal"
    BY <1>5, <1>6, <2>1, <2>2 DEF KeptOf
  <2>4. \A k \in withdrawMap[p] : g[k].done = "init"
    BY <1>4, <1>5, <2>1, <2>2, BookFacts DEF KeptOf
  <2>5. \A k \in 1 .. n :
          /\ orders[k].kind = "withdraw" /\ g[k].done = "init" => g[k].ov = 0 /\ g[k].oa = 0
          /\ orders[k].kind = "buy" /\ g[k].rv # 0 => g[k].ov = 0
    BY <1>4, <1>5, <1>6, <1>8, <1>10, <2>1 DEF KeptOf
  <2>. QED
    BY <1>3, <1>4, <1>7, <2>1, <2>3, <2>4, <2>5, ZenonT(60) DEF KeptOf
<1>12. \A k \in 1 .. n : /\ BothV(f)[k] = f[k].rv + f[k].ov /\ BothA(f)[k] = f[k].ra + f[k].oa
                         /\ BothV(g)[k] = g[k].rv + g[k].ov /\ BothA(g)[k] = g[k].ra + g[k].oa
                         /\ RemainV(f)[k] = f[k].rv /\ RemainA(f)[k] = f[k].ra
                         /\ RemainV(g)[k] = g[k].rv /\ RemainA(g)[k] = g[k].ra
  BY ItemAmountsAt
<1>13. ItemsAddUp(g, orders, n)
  <2>1. IsFiniteSet(1 .. n)
    BY FS_Interval
  <2>2. PICK S \in SUBSET (1 .. n) : S = 1 .. n /\ IsFiniteSet(S)
    BY <2>1
  <2>3. b \in S /\ s \in S
    BY <1>6, <2>2
  <2>4. /\ Amounts(BothV(f), S) /\ Amounts(BothV(g), S)
        /\ Amounts(BothA(f), S) /\ Amounts(BothA(g), S)
    BY ItemAmounts
  <2>5. \A k \in S \ {b, s} : BothV(f)[k] = BothV(g)[k] /\ BothA(f)[k] = BothA(g)[k]
    BY <1>8, <1>12, <2>2
  <2>6. /\ BothV(f)[b] = f[b].rv + f[b].ov /\ BothV(g)[b] = xb.rv + xb.ov
        /\ BothV(f)[s] = f[s].rv + f[s].ov /\ BothV(g)[s] = xs.rv + xs.ov
    BY <1>6, <1>8, <1>12
  <2>7. /\ BothA(f)[b] = f[b].ra + f[b].oa /\ BothA(g)[b] = xb.ra + xb.oa
        /\ BothA(f)[s] = f[s].ra + f[s].oa /\ BothA(g)[s] = xs.ra + xs.oa
    BY <1>6, <1>8, <1>12
  <2>8. (BothV(g)[b] - BothV(f)[b]) + (BothV(g)[s] - BothV(f)[s]) = 0
    BY <1>10, <2>6
  <2>9. (BothA(g)[b] - BothA(f)[b]) + (BothA(g)[s] - BothA(f)[s]) = 0
    BY <1>10, <2>7
  <2>10. AddUp(BothV(g), S) = AddUp(BothV(f), S)
    <3>0. PICK u, w : u = BothV(f) /\ w = BothV(g)
      OBVIOUS
    <3>1. PICK x \in S, y \in S : x = b /\ y = s
      BY <2>3
    <3>2. /\ Amounts(u, S) /\ Amounts(w, S) /\ x # y /\ \A i \in S \ {x, y} : u[i] = w[i]
          /\ (w[x] - u[x]) + (w[y] - u[y]) = 0
      BY <1>6, <2>4, <2>5, <2>8, <3>0, <3>1
    <3>3. AddUp(w, S) = AddUp(u, S)
      BY <2>2, <3>2, AddUpBalance
    <3>. QED
      BY <3>0, <3>3
  <2>11. AddUp(BothA(g), S) = AddUp(BothA(f), S)
    <3>0. PICK u, w : u = BothA(f) /\ w = BothA(g)
      OBVIOUS
    <3>1. PICK x \in S, y \in S : x = b /\ y = s
      BY <2>3
    <3>2. /\ Amounts(u, S) /\ Amounts(w, S) /\ x # y /\ \A i \in S \ {x, y} : u[i] = w[i]
          /\ (w[x] - u[x]) + (w[y] - u[y]) = 0
      BY <1>6, <2>4, <2>5, <2>9, <3>0, <3>1
    <3>3. AddUp(w, S) = AddUp(u, S)
      BY <2>2, <3>2, AddUpBalance
    <3>. QED
      BY <3>0, <3>3
  <2>12. ItemsAddUp(f, orders, n)
    BY <1>4, <1>5 DEF AmountsInv, AmountsOf
  <2>. QED
    BY <2>2, <2>10, <2>11, <2>12 DEF ItemsAddUp
<1>14. ASSUME forgot[p] = {}
       PROVE  PoolAddsUp(inPool'[p], g, pool[p])
  <2>1. PICK B \in SUBSET (1 .. n), T \in SUBSET (1 .. n) :
          /\ B = Buys(pool[p]) /\ T = Sells(pool[p]) /\ IsFiniteSet(B) /\ IsFiniteSet(T)
    BY <1>4, <1>6, SumFacts
  <2>2. b \in B /\ s \notin B /\ s \in T /\ b \notin T
    BY <1>6, <2>1 DEF Buys, Sells
  <2>3. Amounts(RemainV(f), B) /\ Amounts(RemainV(g), B)
    BY ItemAmounts
  <2>4. Amounts(RemainA(f), T) /\ Amounts(RemainA(g), T)
    BY ItemAmounts
  <2>5. \A k \in B \ {b} : RemainV(f)[k] = RemainV(g)[k]
    BY <1>8, <1>12, <2>2
  <2>6. \A k \in T \ {s} : RemainA(f)[k] = RemainA(g)[k]
    BY <1>8, <1>12, <2>2
  <2>7. /\ AddUp(RemainV(g), B) = AddUp(RemainV(f), B) + (RemainV(g)[b] - RemainV(f)[b])
        /\ AddUp(RemainV(f), B) \in Int
    BY <2>1, <2>2, <2>3, <2>5, AddUpChange, AddUpType
  <2>8. /\ AddUp(RemainA(g), T) = AddUp(RemainA(f), T) + (RemainA(g)[s] - RemainA(f)[s])
        /\ AddUp(RemainA(f), T) \in Int
    BY <2>1, <2>2, <2>4, <2>6, AddUpChange, AddUpType
  <2>9. RemainV(g)[b] - RemainV(f)[b] = 0 - paid - rest
    BY <1>6, <1>8, <1>10, <1>12
  <2>10. RemainA(g)[s] - RemainA(f)[s] = 0 - amt - over
    BY <1>6, <1>8, <1>10, <1>12
  <2>11. inPool[p] = [v |-> AddUp(RemainV(f), B), a |-> AddUp(RemainA(f), T)]
    BY <1>5, <1>14, <2>1 DEF AmountsInv, AmountsOf, PoolAddsUp
  <2>12. inPool'[p] = [v |-> AddUp(RemainV(f), B) - paid - rest, a |-> AddUp(RemainA(f), T) - amt - over]
    BY <1>1, <1>2, <1>6, <2>11
  <2>13. inPool'[p] = [v |-> AddUp(RemainV(g), B), a |-> AddUp(RemainA(g), T)]
    BY <2>7, <2>8, <2>9, <2>10, <2>12
  <2>. QED
    BY <2>1, <2>13 DEF PoolAddsUp
<1>15. FiguresAt(p) /\ OnlyAt(p)
  BY <1>1, <1>3, <1>6, BooksAt DEF FiguresAt
<1>. QED
  BY <1>3, <1>4, <1>7, <1>11, <1>13, <1>14, <1>15, KeptElsewhere

-----------------------------------------------------------------------------
(* The sums along every step.                                              *)

SumsInv == BooksInv /\ KeptInv /\ AmountsInv

LEMMA InitSums == Init => SumsInv
<1> SUFFICES ASSUME Init PROVE KeptInv /\ AmountsInv
  BY InitBooks DEF SumsInv
<1>1. KeptInv
  BY DEF Init, KeptInv, KeptOf
<1>2. \A g : AddUp(g, {}) = 0
  BY AddUpEmpty
<1>3. Buys({}) = {} /\ Sells({}) = {} /\ 1 .. 0 = {}
  BY DEF Buys, Sells
<1>4. \A p \in Parties : /\ count[p] = 0 /\ pool[p] = {} /\ inPool[p] = [v |-> 0, a |-> 0]
  BY DEF Init, Nothing
<1>5. \A p \in Parties : ItemsAddUp(item[p], orders, count[p])
  BY <1>2, <1>3, <1>4 DEF ItemsAddUp
<1>6. \A p \in Parties : PoolAddsUp(inPool[p], item[p], pool[p])
  BY <1>2, <1>3, <1>4 DEF PoolAddsUp
<1>. QED
  BY <1>1, <1>5, <1>6 DEF AmountsInv, AmountsOf

LEMMA SameSums ==
  ASSUME SumsInv, UNCHANGED <<item, pool, refundMap, withdrawMap, inPool, count, forgot, orders>>
  PROVE  KeptInv' /\ AmountsInv'
BY DEF SumsInv, KeptInv, KeptOf, AmountsInv, AmountsOf, ItemsAddUp, PoolAddsUp, Buys, Sells

LEMMA NewBlockSums ==
  ASSUME SumsInv, NEW b \in Blocks, NewBlock(b)
  PROVE  KeptInv' /\ AmountsInv'
<1>1. TypeInv /\ TypeInv'
  BY NewBlockType DEF SumsInv, BooksInv
<1>2. UNCHANGED <<item, pool, refundMap, withdrawMap, inPool, count, forgot>>
  BY DEF NewBlock
<1>3. \A i \in DOMAIN orders : orders'[i] = orders[i]
  BY <1>1, OrdersStay
<1>4. KeptInv'
  <2>1. \A p \in Parties : 1 .. count[p] \subseteq DOMAIN orders
    BY <1>1, BookFacts
  <2>. QED
    BY <1>2, <1>3, <2>1 DEF SumsInv, KeptInv, KeptOf
<1>5. ASSUME NEW p \in Parties
      PROVE  AmountsOf(p)'
  <2>1. PICK S : S = 1 .. count[p] /\ IsFiniteSet(S) /\ S \subseteq DOMAIN orders
    BY <1>1, BookFacts, SumFacts
  <2>2. S \subseteq DOMAIN orders'
    <3>1. count'[p] \in 0 .. Len(orders') /\ orders' \in Seq(Placed)
      BY <1>1, TypeParts DEF TypeInv, TypeOK
    <3>2. DOMAIN orders' = 1 .. Len(orders') /\ Len(orders') \in Nat
      BY <3>1, LenProperties
    <3>3. 1 .. count'[p] \subseteq DOMAIN orders'
      BY <3>1, <3>2
    <3>. QED
      BY <1>2, <2>1, <3>3
  <2>3. \A i \in S : /\ BringsV(orders')[i] = BringsV(orders)[i]
                     /\ BringsA(orders')[i] = BringsA(orders)[i]
    BY <1>3, <2>1, <2>2 DEF BringsV, BringsA
  <2>4. AddUp(BringsV(orders'), S) = AddUp(BringsV(orders), S)
    BY <2>1, <2>3, AddUpSame
  <2>5. AddUp(BringsA(orders'), S) = AddUp(BringsA(orders), S)
    BY <2>1, <2>3, AddUpSame
  <2>6. pool[p] \subseteq DOMAIN orders
    BY <1>1, BookFacts
  <2>7. AmountsOf(p)
    BY DEF SumsInv, AmountsInv
  <2>8. Buys(pool[p])' = Buys(pool[p]) /\ Sells(pool[p])' = Sells(pool[p])
    BY <1>2, <1>3, <2>6 DEF Buys, Sells
  <2>9. ItemsAddUp(item[p], orders, count[p])'
    BY <1>2, <2>1, <2>4, <2>5, <2>7 DEF AmountsOf, ItemsAddUp
  <2>10. forgot'[p] = {} => PoolAddsUp(inPool[p], item[p], pool[p])'
    BY <1>2, <2>7, <2>8 DEF AmountsOf, PoolAddsUp
  <2>. QED
    BY <2>9, <2>10 DEF AmountsOf
<1>. QED
  BY <1>4, <1>5 DEF AmountsInv

LEMMA NextSums == SumsInv /\ [Next]_vars => SumsInv'
<1> SUFFICES ASSUME SumsInv, [Next]_vars PROVE KeptInv' /\ AmountsInv'
  BY NextBooks DEF SumsInv
<1>1. /\ TypeInv /\ PoolInv /\ SellerInv /\ KeptInv /\ AmountsInv
      /\ Initiator \in Parties /\ Peer \in Parties
  BY DEF SumsInv, BooksInv, Parties
<1>2. BookTypes'
  BY <1>1, NextType, TypeParts DEF TypeInv, TypeOK, BookTypes, MapOK
<1>3. CASE UNCHANGED vars
  BY <1>3, SameSums DEF vars
<1>4. ASSUME NEW p \in Parties, Block(p)
      PROVE  KeptInv' /\ AmountsInv'
  <2>1. CASE BeginBlock(p) \/ AcceptedAll(p) \/ CompleteBlock(p)
    BY <2>1, SameSums DEF BeginBlock, AcceptedAll, CompleteBlock
  <2>2. CASE Accept(p)
    BY <1>1, <1>2, <2>2, AcceptKeeps
  <2>3. CASE MatchOrders(p)
    BY <1>1, <1>2, <2>3, MatchKeeps
  <2>. QED
    BY <1>4, <2>1, <2>2, <2>3 DEF Block
<1>5. ASSUME NEW p \in Parties, NEW stage, NEW h, GenEffect(p, stage, h),
             UNCHANGED <<orders, count, forgot>>
      PROVE  KeptInv' /\ AmountsInv'
  BY <1>1, <1>2, <1>5, GenCloses, BooksAt, ClosingKeeps
<1>6. ASSUME NEW p \in Parties, NEW n \in DOMAIN txs, Record(p, txs[n]),
             UNCHANGED <<orders, count, forgot>>
      PROVE  KeptInv' /\ AmountsInv'
  <2>1. txs[n].stage \in Stages
    BY <1>1 DEF TypeInv, TxsNamed
  <2>. QED
    BY <1>1, <1>2, <1>6, <2>1, RecordCloses, BooksAt, ClosingKeeps
<1>7. ASSUME NEW t \in Senders, Send(t)
      PROVE  KeptInv' /\ AmountsInv'
  <2>1. CASE Enter(t) \/ Begin(t) \/ Answer(t)
    BY <2>1, SameSums DEF Enter, Begin, Answer
  <2>2. CASE Gen(t)
    BY <1>1, <1>5, <2>2 DEF Gen
  <2>3. CASE Sign(t)
    BY <1>1, <1>5, <2>3 DEF Sign
  <2>4. CASE Refuse(t)
    <3>1. UNCHANGED <<orders, count, forgot>>
      BY <2>4 DEF Refuse
    <3>2. CASE GenEffect(Peer, sender[t].deal.stage, sender[t].deal.height)
      BY <1>1, <1>5, <3>1, <3>2
    <3>3. CASE UNCHANGED books
      BY <3>1, <3>3, SameSums
    <3>. QED
      BY <2>4, <3>2, <3>3 DEF Refuse
  <2>5. CASE RecordOwn(t)
    <3>1. sender[t].tx \in DOMAIN txs
      BY <1>1, <2>5 DEF TypeInv, TxsNamed, RecordOwn
    <3>. QED
      BY <1>1, <1>6, <2>5, <3>1 DEF RecordOwn
  <2>. QED
    BY <1>7, <2>1, <2>2, <2>3, <2>4, <2>5 DEF Send
<1>8. ASSUME Results
      PROVE  KeptInv' /\ AmountsInv'
  <2>1. PICK p \in Parties, n \in DOMAIN txs : Record(p, txs[n]) /\ UNCHANGED <<orders, count, forgot>>
    <3>1. CASE PeerRecord
      <4>1. signing \in DOMAIN txs
        BY <1>1, <3>1, InvParts, TxsFacts DEF PeerRecord, SendInv
      <4>. QED
        BY <1>1, <3>1, <4>1 DEF PeerRecord
    <3>2. CASE \E p \in Parties, n \in DOMAIN txs : Mined(p, n)
      BY <3>2 DEF Mined
    <3>. QED
      BY <1>8, <3>1, <3>2 DEF Results
  <2>. QED
    BY <1>6, <2>1
<1>9. ASSUME Failures
      PROVE  KeptInv' /\ AmountsInv'
  <2>1. ASSUME NEW t \in Senders, LoseAnswer(t)
        PROVE  KeptInv' /\ AmountsInv'
    BY <2>1, SameSums DEF LoseAnswer
  <2>2. ASSUME NEW p \in Parties, Crash(p)
        PROVE  KeptInv' /\ AmountsInv'
    BY <1>1, <1>2, <2>2, ReloadKeeps
  <2>. QED
    BY <1>9, <2>1, <2>2 DEF Failures
<1>. QED
  BY <1>3, <1>4, <1>7, <1>8, <1>9, NewBlockSums DEF Next

-----------------------------------------------------------------------------
(* No amount falls below zero.  A match takes from an order no more than   *)
(* remains of it, and gives a buyer no more than he asked for.             *)

\* A buyer who stops at an amount still buys only below it.
SpentWithin(x, o) == o.kind = "buy" /\ o.want # 0 /\ x.rv # 0 => x.oa < o.want

Sound(x, o) == Natural(x) /\ SpentWithin(x, o)

NaturalInv == \A p \in Parties : \A i \in 1 .. count[p] : Sound(item[p][i], orders[i])

LEMMA DivideBelow ==
  ASSUME NEW m \in Nat, NEW n \in Nat, n > 0
  PROVE  m \div n \in Nat /\ n * (m \div n) <= m
OBVIOUS

LEMMA TimesGrows ==
  ASSUME NEW a \in Nat, NEW b \in Nat, NEW c \in Nat, a <= b
  PROVE  a * c <= b * c /\ a * c \in Nat /\ b * c \in Nat
OBVIOUS

LEMMA TimesCancels ==
  ASSUME NEW a \in Nat, NEW b \in Nat, NEW c \in Nat, c > 0, c * a <= b * c
  PROVE  a <= b
<1>1. SUFFICES ASSUME b < a PROVE FALSE
  OBVIOUS
<1>2. (b + 1) * c <= a * c
  BY <1>1, TimesGrows
<1>. QED
  BY <1>2

LEMMA Halves ==
  ASSUME NEW n \in Nat, NEW r \in Nat
  PROVE  /\ r <= Floor2(n) => 2 * r <= n
         /\ n <= 2 * r => Ceil2(n) <= r
         /\ ~(r <= Floor2(n)) => n <= 2 * r
         /\ Ceil2(n) \in Nat
BY DEF Floor2, Ceil2

\* A match sells no more than there is, and costs no more than is left to pay:
\* the seller's side is rounded up, the most that can be bought rounded down.
Trade(rv, ra, price, want, oa, most, amt) ==
  /\ price > 0 /\ (want # 0 => oa < want)
  /\ \/ rv <= Floor2(ra * price) /\ most = (rv * 2) \div price
     \/ ~(rv <= Floor2(ra * price)) /\ most = ra
  /\ \/ want # 0 /\ want < oa + most /\ amt = want - oa
     \/ ~(want # 0 /\ want < oa + most) /\ amt = most

LEMMA TradeBounds ==
  ASSUME NEW rv \in Nat, NEW ra \in Nat, NEW price \in Nat, NEW want \in Nat, NEW oa \in Nat,
         NEW most \in Int, NEW amt \in Int, Trade(rv, ra, price, want, oa, most, amt)
  PROVE  /\ amt \in 0 .. ra /\ Ceil2(amt * price) \in 0 .. rv
         /\ want # 0 => oa + amt <= want
<1>0. /\ price > 0 /\ (want # 0 => oa < want)
      /\ \/ rv <= Floor2(ra * price) /\ most = (rv * 2) \div price
         \/ ~(rv <= Floor2(ra * price)) /\ most = ra
      /\ \/ want # 0 /\ want < oa + most /\ amt = want - oa
         \/ ~(want # 0 /\ want < oa + most) /\ amt = most
  BY Zenon DEF Trade
<1>1. PICK n \in Nat : n = ra * price
  OBVIOUS
<1>2. most \in Nat /\ most <= ra /\ most * price <= 2 * rv
  <2>1. CASE rv <= Floor2(ra * price) /\ most = (rv * 2) \div price
    <3>1. most \in Nat /\ price * most <= rv * 2
      BY <1>0, <2>1, DivideBelow
    <3>2. 2 * rv <= n
      BY <1>1, <2>1, Halves
    <3>3. price * most <= ra * price
      BY <1>1, <3>1, <3>2
    <3>4. most <= ra
      BY <1>0, <3>1, <3>3, TimesCancels
    <3>. QED
      BY <3>1, <3>4
  <2>2. CASE ~(rv <= Floor2(ra * price)) /\ most = ra
    BY <1>1, <2>2, Halves
  <2>. QED
    BY <1>0, <2>1, <2>2
<1>3. amt \in Nat /\ amt <= most /\ (want # 0 => oa + amt <= want)
  BY <1>0, <1>2
<1>4. amt * price <= most * price /\ amt * price \in Nat /\ most * price \in Nat
  BY <1>2, <1>3, TimesGrows
<1>5. PICK k \in Nat : k = amt * price
  BY <1>4
<1>6. k <= 2 * rv
  BY <1>2, <1>4, <1>5
<1>7. Ceil2(k) \in Nat /\ Ceil2(k) <= rv
  BY <1>6, Halves
<1>. QED
  BY <1>2, <1>3, <1>5, <1>7

LEMMA StaysSound ==
  ASSUME NEW x \in Item, NEW y \in Item, NEW o, Sound(x, o), SameAmounts(x, y) \/ PaidOut(x, y)
  PROVE  Sound(y, o)
<1>1. CASE SameAmounts(x, y)
  BY <1>1 DEF Sound, Natural, SpentWithin, SameAmounts
<1>2. CASE PaidOut(x, y)
  BY <1>2 DEF Sound, Natural, SpentWithin, PaidOut, Item
<1>. QED
  BY <1>1, <1>2

LEMMA FreshSound ==
  ASSUME NEW o \in Placed, NEW x \in Item, SameAmounts(Fresh(o), x)
  PROVE  Sound(x, o)
<1>1. /\ o.value \in Nat /\ o.amt \in Nat /\ o.want \in Nat
      /\ (o.kind = "sell" => x.rv = 0) /\ (o.kind # "sell" => x.rv = o.value)
      /\ x.ra = o.amt /\ x.ov = 0 /\ x.oa = 0
  BY DEF SameAmounts, Fresh, Placed
<1>. QED
  BY <1>1 DEF Sound, Natural, SpentWithin

LEMMA SoundElsewhere ==
  ASSUME NaturalInv, NEW p \in Parties, OnlyAt(p), UNCHANGED orders,
         \A i \in 1 .. count'[p] : Sound(item'[p][i], orders[i])
  PROVE  NaturalInv'
BY DEF NaturalInv, OnlyAt, Sound, Natural, SpentWithin

\* The amounts of the items of a party stay, or what remains is paid out.
LEMMA StayNatural ==
  ASSUME TypeInv, NaturalInv, NEW p \in Parties, OnlyAt(p), UNCHANGED <<orders, count>>, BookTypes',
         \A i \in 1 .. count[p] : SameAmounts(item[p][i], item'[p][i])
                                  \/ PaidOut(item[p][i], item'[p][i])
  PROVE  NaturalInv'
<1>1. ASSUME NEW i \in 1 .. count[p]
      PROVE  Sound(item'[p][i], orders[i])
  <2>1. PICK x \in Item, y \in Item : x = item[p][i] /\ y = item'[p][i]
    BY BookFacts, NextItems
  <2>2. Sound(x, orders[i]) /\ (SameAmounts(x, y) \/ PaidOut(x, y))
    BY <2>1 DEF NaturalInv
  <2>. QED
    BY <2>1, <2>2, StaysSound
<1>. QED
  BY <1>1, SoundElsewhere

LEMMA CloseNatural ==
  ASSUME TypeInv, NaturalInv, NEW p \in Parties, Closes(p), OnlyAt(p), UNCHANGED <<orders, count>>,
         BookTypes'
  PROVE  NaturalInv'
<1>1. \A i \in 1 .. count[p] : SameAmounts(item[p][i], item'[p][i]) \/ PaidOut(item[p][i], item'[p][i])
  BY DEF Closes, ClosedAt, SameAmounts
<1>. QED
  BY <1>1, StayNatural

LEMMA AcceptNatural ==
  ASSUME TypeInv, AmountsInv, NaturalInv, NEW p \in Parties, Accept(p), BookTypes'
  PROVE  NaturalInv'
<1> DEFINE i == count[p] + 1
           o == orders[i]
<1>1. PICK f \in [1 .. count[p] -> Item], x \in Item : AcceptsItem(p, f, x, o)
  BY AcceptEffect
<1>2. /\ \A k \in 1 .. count[p] : item'[p][k] = f[k]
      /\ item'[p][i] = x /\ count'[p] = i
  BY <1>1, AcceptSums
<1>3. o \in Placed /\ UNCHANGED orders /\ count[p] \in Nat
  BY BookFacts DEF Accept, Accepted
<1>4. \A k \in 1 .. count[p] : SameAmounts(item[p][k], f[k])
  BY <1>1 DEF AcceptsItem
<1>5. SameAmounts(Fresh(o), x)
  BY <1>1 DEF AcceptsItem
<1> HIDE DEF o
<1>6. Sound(x, o)
  BY <1>3, <1>5, FreshSound
<1>7. ASSUME NEW k \in 1 .. count[p]
      PROVE  Sound(item'[p][k], orders[k])
  <2>1. PICK y \in Item, z \in Item : y = item[p][k] /\ z = f[k]
    BY <1>1, BookFacts
  <2>2. Sound(y, orders[k]) /\ SameAmounts(y, z)
    BY <1>4, <2>1 DEF NaturalInv
  <2>. QED
    BY <1>2, <2>1, <2>2, StaysSound
<1>8. \A k \in 1 .. count'[p] : Sound(item'[p][k], orders[k])
  BY <1>2, <1>3, <1>6, <1>7 DEF o
<1>. QED
  BY <1>3, <1>8, AcceptAt, SoundElsewhere

LEMMA MatchNatural ==
  ASSUME TypeInv, NaturalInv, NEW p \in Parties, MatchOrders(p), BookTypes'
  PROVE  NaturalInv'
<1> DEFINE b     == First(Buys(Live(p)))
           s     == First(Sells(Live(p)))
           buy   == item[p][b]
           sell  == item[p][s]
           price == orders[s].price
           want  == orders[b].want
           short == buy.rv <= Floor2(sell.ra * price)
           most  == IF short THEN (buy.rv * 2) \div price ELSE sell.ra
           cap   == want # 0 /\ want < buy.oa + most
           amt   == IF cap THEN want - buy.oa ELSE most
           paid  == Ceil2(amt * price)
           rv    == buy.rv - paid
           ra    == sell.ra - amt
           full  == \/ short \/ cap \/ (rv * 2) \div price = 0
                    \/ want = buy.oa + amt
           sold  == (~short /\ ~cap) \/ Floor2(ra * price) = 0
           yb    == [buy EXCEPT !.rv = IF full THEN 0 ELSE rv, !.oa = buy.oa + amt,
                                !.ov = IF full THEN rv ELSE buy.ov]
           ys    == [sell EXCEPT !.ra = IF sold THEN 0 ELSE ra, !.ov = sell.ov + paid,
                                 !.oa = IF sold THEN ra ELSE sell.oa]
<1>1. item' = [item EXCEPT ![p] = [@ EXCEPT ![b] = yb, ![s] = ys]]
  BY Zenon DEF MatchOrders
<1>2. b \in Buys(Live(p)) /\ s \in Sells(Live(p)) /\ UNCHANGED <<orders, count>>
  BY BestOrders, MatchFrame
<1> HIDE DEF b, s
<1>3. /\ b \in 1 .. count[p] /\ s \in 1 .. count[p] /\ b # s
      /\ orders[b].kind = "buy" /\ orders[s].kind = "sell" /\ buy.rv # 0
      /\ orders[b] \in Placed /\ orders[s] \in Placed /\ orders[s].price > 0
      /\ buy \in Item /\ sell \in Item
  BY <1>2, BookFacts DEF Buys, Sells, Live, Exhausted, TypeInv, Priced, Trades
<1>4. Sound(buy, orders[b]) /\ Sound(sell, orders[s])
  BY <1>3 DEF NaturalInv
<1>5. /\ buy.rv \in Nat /\ buy.ra \in Nat /\ buy.ov \in Nat /\ buy.oa \in Nat
      /\ sell.rv \in Nat /\ sell.ra \in Nat /\ sell.ov \in Nat /\ sell.oa \in Nat
      /\ price \in Nat /\ price > 0 /\ want \in Nat /\ (want # 0 => buy.oa < want)
  BY <1>3, <1>4 DEF Item, Placed, Sound, Natural, SpentWithin
<1> HIDE DEF buy, sell, price, want
<1>6. most \in Int /\ amt \in Int
  BY <1>5, DivideType
<1>7. /\ amt \in 0 .. sell.ra /\ paid \in 0 .. buy.rv
      /\ want # 0 => buy.oa + amt <= want
  <2>1. (short /\ most = (buy.rv * 2) \div price) \/ (~short /\ most = sell.ra)
    OBVIOUS
  <2>2. (cap /\ amt = want - buy.oa) \/ (~cap /\ amt = most)
    OBVIOUS
  <2>3. PICK m \in Int, k \in Int : m = most /\ k = amt
    BY <1>6
  <2>4. PICK bv \in Nat, bo \in Nat, sa \in Nat : bv = buy.rv /\ bo = buy.oa /\ sa = sell.ra
    BY <1>5
  <2>5. \/ bv <= Floor2(sa * price) /\ m = (bv * 2) \div price
        \/ ~(bv <= Floor2(sa * price)) /\ m = sa
    BY <2>1, <2>3, <2>4
  <2>6. \/ want # 0 /\ want < bo + m /\ k = want - bo
        \/ ~(want # 0 /\ want < bo + m) /\ k = m
    BY <2>2, <2>3, <2>4
  <2>7. k \in 0 .. sa /\ Ceil2(k * price) \in 0 .. bv /\ (want # 0 => bo + k <= want)
    <3>1. price > 0 /\ (want # 0 => bo < want)
      BY <1>5, <2>4
    <3>2. Trade(bv, sa, price, want, bo, m, k)
      BY <2>5, <2>6, <3>1, Zenon DEF Trade
    <3>3. price \in Nat /\ want \in Nat
      BY <1>5
    <3>. QED
      BY <3>2, <3>3, TradeBounds
  <2>8. paid = Ceil2(k * price)
    BY <2>3
  <2> HIDE DEF most, amt, paid
  <2>. QED
    BY <2>3, <2>4, <2>7, <2>8
<1>8. rv \in Nat /\ ra \in Nat /\ paid \in Nat /\ amt \in Nat
  <2> HIDE DEF paid, amt
  <2>. QED
    BY <1>5, <1>7
<1>9. full \/ want # buy.oa + amt
  OBVIOUS
<1> HIDE DEF full, sold, rv, ra, paid, amt
<1>10. yb \in Item /\ Sound(yb, orders[b])
  <2>1. PICK x \in Item : x = buy
    BY <1>3
  <2>2. PICK v \in Int, w \in Int, a \in Int :
           /\ v = (IF full THEN 0 ELSE rv) /\ w = (IF full THEN rv ELSE buy.ov) /\ a = buy.oa + amt
           /\ v \in Nat /\ w \in Nat /\ a \in Nat
    BY <1>5, <1>8
  <2>3. PICK y : y = [x EXCEPT !.rv = v, !.oa = a, !.ov = w]
    OBVIOUS
  <2>4. y \in Item /\ y.rv = v /\ y.oa = a /\ y.ov = w /\ y.ra = x.ra
    <3>1. y \in Item
      BY <2>3 DEF Item
    <3>2. y.rv = v /\ y.oa = a /\ y.ov = w /\ y.ra = x.ra
      BY <2>3 DEF Item
    <3>. QED
      BY <3>1, <3>2
  <2>5. want # 0 /\ v # 0 => a < want
    BY <1>5, <1>7, <1>8, <1>9, <2>2
  <2>6. Sound(y, orders[b])
    BY <1>5, <2>1, <2>2, <2>4, <2>5 DEF Sound, Natural, SpentWithin, want
  <2>7. y = yb
    BY <2>1, <2>2, <2>3
  <2> HIDE DEF yb
  <2>. QED
    BY <2>4, <2>6, <2>7
<1>11. ys \in Item /\ Sound(ys, orders[s])
  <2>1. PICK x \in Item : x = sell
    BY <1>3
  <2>2. PICK r \in Int, w \in Int, a \in Int :
           /\ r = (IF sold THEN 0 ELSE ra) /\ w = sell.ov + paid /\ a = (IF sold THEN ra ELSE sell.oa)
           /\ r \in Nat /\ w \in Nat /\ a \in Nat
    BY <1>5, <1>8
  <2>3. PICK y : y = [x EXCEPT !.ra = r, !.ov = w, !.oa = a]
    OBVIOUS
  <2>4. y \in Item /\ y.ra = r /\ y.ov = w /\ y.oa = a /\ y.rv = x.rv
    <3>1. y \in Item
      BY <2>3 DEF Item
    <3>2. y.ra = r /\ y.ov = w /\ y.oa = a /\ y.rv = x.rv
      BY <2>3 DEF Item
    <3>. QED
      BY <3>1, <3>2
  <2>5. Sound(y, orders[s])
    BY <1>3, <1>5, <2>1, <2>2, <2>4 DEF Sound, Natural, SpentWithin
  <2>6. y = ys
    BY <2>1, <2>2, <2>3
  <2> HIDE DEF ys
  <2>. QED
    BY <2>4, <2>5, <2>6
<1> HIDE DEF yb, ys
<1>12. /\ item[p] \in [1 .. count[p] -> Item] /\ DOMAIN item = Parties
  BY BookFacts, InvParts DEF BookTypes
<1>13. \A k \in 1 .. count[p] :
          item'[p][k] = IF k = s THEN ys ELSE IF k = b THEN yb ELSE item[p][k]
  BY <1>1, <1>3, <1>12
<1>14. \A k \in 1 .. count[p] : Sound(item'[p][k], orders[k])
  BY <1>10, <1>11, <1>13 DEF NaturalInv
<1>15. OnlyAt(p)
  BY <1>2, BooksAt
<1>. QED
  BY <1>2, <1>14, <1>15, SoundElsewhere

LEMMA NextNatural == SumsInv /\ NaturalInv /\ [Next]_vars => NaturalInv'
<1> SUFFICES ASSUME SumsInv, NaturalInv, [Next]_vars PROVE NaturalInv'
  OBVIOUS
<1>1. /\ TypeInv /\ PoolInv /\ KeptInv /\ AmountsInv
      /\ Initiator \in Parties /\ Peer \in Parties
  BY DEF SumsInv, BooksInv, Parties
<1>2. BookTypes'
  BY <1>1, NextType, TypeParts DEF TypeInv, TypeOK, BookTypes, MapOK
<1>3. UNCHANGED <<item, count, orders>> => NaturalInv'
  BY DEF NaturalInv, Sound, Natural, SpentWithin
<1>4. CASE UNCHANGED vars
  BY <1>3, <1>4 DEF vars, books, block, chain
<1>5. ASSUME NEW b \in Blocks, NewBlock(b)
      PROVE  NaturalInv'
  <2>1. UNCHANGED <<item, count>>
    BY <1>5 DEF NewBlock, books, block
  <2>2. \A p \in Parties : \A i \in 1 .. count[p] : orders'[i] = orders[i]
    BY <1>1, <1>5, OrdersStay, BookFacts
  <2>. QED
    BY <2>1, <2>2 DEF NaturalInv, Sound, Natural, SpentWithin
<1>6. ASSUME NEW p \in Parties, Block(p)
      PROVE  NaturalInv'
  <2>1. CASE BeginBlock(p) \/ AcceptedAll(p) \/ CompleteBlock(p)
    BY <1>3, <2>1 DEF BeginBlock, AcceptedAll, CompleteBlock, books, chain
  <2>2. CASE Accept(p)
    BY <1>1, <1>2, <2>2, AcceptNatural
  <2>3. CASE MatchOrders(p)
    BY <1>1, <1>2, <2>3, MatchNatural
  <2>. QED
    BY <1>6, <2>1, <2>2, <2>3 DEF Block
<1>7. ASSUME NEW p \in Parties, NEW stage, NEW h, GenEffect(p, stage, h), UNCHANGED <<orders, count>>
      PROVE  NaturalInv'
  BY <1>1, <1>2, <1>7, GenCloses, BooksAt, CloseNatural
<1>8. ASSUME NEW p \in Parties, NEW n \in DOMAIN txs, Record(p, txs[n]), UNCHANGED <<orders, count>>
      PROVE  NaturalInv'
  <2>1. txs[n].stage \in Stages
    BY <1>1 DEF TypeInv, TxsNamed
  <2>. QED
    BY <1>1, <1>2, <1>8, <2>1, RecordCloses, BooksAt, CloseNatural
<1>9. ASSUME NEW t \in Senders, Send(t)
      PROVE  NaturalInv'
  <2>0. UNCHANGED <<orders, count>>
    BY <1>9 DEF Send, Enter, Begin, Gen, Sign, Refuse, Answer, RecordOwn, chain, block
  <2>1. CASE Enter(t) \/ Begin(t) \/ Answer(t)
    BY <1>3, <2>0, <2>1 DEF Enter, Begin, Answer, books
  <2>2. CASE Gen(t)
    BY <1>1, <1>7, <2>0, <2>2 DEF Gen
  <2>3. CASE Sign(t)
    BY <1>1, <1>7, <2>0, <2>3 DEF Sign
  <2>4. CASE Refuse(t)
    <3>1. CASE GenEffect(Peer, sender[t].deal.stage, sender[t].deal.height)
      BY <1>1, <1>7, <2>0, <3>1
    <3>2. CASE UNCHANGED books
      BY <1>3, <2>0, <3>2 DEF books
    <3>. QED
      BY <2>4, <3>1, <3>2 DEF Refuse
  <2>5. CASE RecordOwn(t)
    <3>1. sender[t].tx \in DOMAIN txs
      BY <1>1, <2>5 DEF TypeInv, TxsNamed, RecordOwn
    <3>. QED
      BY <1>1, <1>8, <2>0, <2>5, <3>1 DEF RecordOwn
  <2>. QED
    BY <1>9, <2>1, <2>2, <2>3, <2>4, <2>5 DEF Send
<1>10. ASSUME Results
       PROVE  NaturalInv'
  <2>1. PICK p \in Parties, n \in DOMAIN txs : Record(p, txs[n]) /\ UNCHANGED <<orders, count>>
    <3>1. CASE PeerRecord
      <4>1. signing \in DOMAIN txs
        BY <1>1, <3>1, InvParts, TxsFacts DEF PeerRecord, SendInv
      <4>. QED
        BY <1>1, <3>1, <4>1 DEF PeerRecord, chain, block
    <3>2. CASE \E p \in Parties, n \in DOMAIN txs : Mined(p, n)
      BY <3>2 DEF Mined, chain, block
    <3>. QED
      BY <1>10, <3>1, <3>2 DEF Results
  <2>. QED
    BY <1>8, <2>1
<1>11. ASSUME Failures
       PROVE  NaturalInv'
  <2>1. ASSUME NEW t \in Senders, LoseAnswer(t)
        PROVE  NaturalInv'
    BY <1>3, <2>1 DEF LoseAnswer, books, block, chain
  <2>2. ASSUME NEW p \in Parties, Crash(p)
        PROVE  NaturalInv'
    <3>1. UNCHANGED <<orders, count>> /\ Reload(p)
      BY <2>2 DEF Crash, chain
    <3>2. \A i \in 1 .. count[p] : SameAmounts(item[p][i], item'[p][i])
      BY <1>1, <3>1, ReloadAmounts
    <3>3. OnlyAt(p)
      BY <1>1, <3>1, BooksAt
    <3>. QED
      BY <1>1, <1>2, <3>1, <3>2, <3>3, StayNatural
  <2>. QED
    BY <1>11, <2>1, <2>2 DEF Failures
<1>. QED
  BY <1>4, <1>5, <1>6, <1>9, <1>10, <1>11 DEF Next

-----------------------------------------------------------------------------
(* What is owed is there.                                                  *)

\* What is nowhere more adds up to no more.
LEMMA AddUpLeq ==
  ASSUME NEW S, IsFiniteSet(S), NEW g, NEW h, Amounts(g, S), Amounts(h, S), \A i \in S : g[i] <= h[i]
  PROVE  AddUp(g, S) <= AddUp(h, S)
<1> DEFINE B == {s \in SUBSET S : ~(AddUp(g, s) <= AddUp(h, s))}
<1>1. SUFFICES ASSUME B # {} PROVE FALSE
  OBVIOUS
<1>2. PICK s \in B : \A r \in B : r \subseteq s => r = s
  <2>1. B \in SUBSET (SUBSET S)
    OBVIOUS
  <2> HIDE DEF B
  <2>. QED
    BY <1>1, <2>1, SmallestSet
<1>3. s \in SUBSET S /\ ~(AddUp(g, s) <= AddUp(h, s))
  OBVIOUS
<1>4. s # {}
  BY <1>3, AddUpEmpty
<1>5. Rest(s) \subseteq s /\ Rest(s) # s /\ Some(s) \in s
  BY <1>4, SomeIn
<1>6. AddUp(g, Rest(s)) <= AddUp(h, Rest(s))
  BY <1>2, <1>3, <1>5
<1>7. /\ AddUp(g, s) = g[Some(s)] + AddUp(g, Rest(s))
      /\ AddUp(h, s) = h[Some(s)] + AddUp(h, Rest(s))
  BY <1>3, <1>4, AddUpAt
<1>8. IsFiniteSet(Rest(s)) /\ Amounts(g, Rest(s)) /\ Amounts(h, Rest(s))
  BY <1>3, <1>5, FS_Subset DEF Amounts
<1>9. AddUp(g, Rest(s)) \in Int /\ AddUp(h, Rest(s)) \in Int
  BY <1>8, AddUpType
<1>10. g[Some(s)] \in Int /\ h[Some(s)] \in Int /\ g[Some(s)] <= h[Some(s)]
  BY <1>3, <1>5 DEF Amounts
<1>. QED
  BY <1>3, <1>6, <1>7, <1>9, <1>10

LEMMA AddUpJoin ==
  ASSUME NEW S, IsFiniteSet(S), NEW g, Amounts(g, S), NEW R \in SUBSET S, NEW T \in SUBSET S, R \cap T = {}
  PROVE  AddUp(g, R \cup T) = AddUp(g, R) + AddUp(g, T)
<1>1. IsFiniteSet(R \cup T) /\ Amounts(g, R \cup T)
  BY FS_Subset DEF Amounts
<1>2. R \in SUBSET (R \cup T) /\ (R \cup T) \ R = T
  OBVIOUS
<1>. QED
  BY <1>1, <1>2, AddUpSplit

\* A part adds up to no more than the whole, when nothing is below zero.
LEMMA AddUpPart ==
  ASSUME NEW S, IsFiniteSet(S), NEW g, Amounts(g, S), \A i \in S : g[i] >= 0, NEW T \in SUBSET S
  PROVE  AddUp(g, T) <= AddUp(g, S)
<1>1. /\ IsFiniteSet(S \ T) /\ Amounts(g, S \ T) /\ IsFiniteSet(T) /\ Amounts(g, T)
      /\ \A i \in S \ T : g[i] >= 0
  BY FS_Subset DEF Amounts
<1>2. PICK z : z = [i \in S \ T |-> 0]
  OBVIOUS
<1>3. Amounts(z, S \ T) /\ \A i \in S \ T : z[i] = 0 /\ z[i] <= g[i]
  BY <1>1, <1>2 DEF Amounts
<1>4. AddUp(z, S \ T) = 0 /\ AddUp(z, S \ T) <= AddUp(g, S \ T)
  BY <1>1, <1>3, AddUpZero, AddUpLeq
<1>5. AddUp(g, S) = AddUp(g, T) + AddUp(g, S \ T)
  BY AddUpSplit
<1>6. AddUp(g, T) \in Int /\ AddUp(g, S \ T) \in Int
  BY <1>1, AddUpType
<1>. QED
  BY <1>4, <1>5, <1>6

\* Four parts of a whole, two of which count only some of it.
LEMMA AddUpFourParts ==
  ASSUME NEW S, IsFiniteSet(S), NEW g, Amounts(g, S), \A i \in S : g[i] >= 0,
         NEW D \in SUBSET S, NEW R \in SUBSET S, NEW W \in SUBSET S, NEW C \in SUBSET S,
         D \cap R = {}, D \cap W = {}, D \cap C = {}, R \cap W = {}, R \cap C = {}, W \cap C = {},
         NEW x, Amounts(x, S), \A i \in S : x[i] <= g[i],
         NEW y, Amounts(y, S), \A i \in S : y[i] <= g[i]
  PROVE  (AddUp(x, D) + (AddUp(g, R) + AddUp(y, W))) + AddUp(g, C) <= AddUp(g, S)
<1>1. \A T \in SUBSET S : IsFiniteSet(T) /\ Amounts(g, T) /\ Amounts(x, T) /\ Amounts(y, T)
  BY FS_Subset DEF Amounts
<1>2. /\ AddUp(x, D) \in Int /\ AddUp(g, D) \in Int /\ AddUp(g, R) \in Int
      /\ AddUp(y, W) \in Int /\ AddUp(g, W) \in Int /\ AddUp(g, C) \in Int /\ AddUp(g, S) \in Int
  BY <1>1, AddUpType
<1>3. AddUp(x, D) <= AddUp(g, D)
  BY <1>1, AddUpLeq
<1>4. AddUp(y, W) <= AddUp(g, W)
  BY <1>1, AddUpLeq
<1>5. AddUp(g, D \cup R) = AddUp(g, D) + AddUp(g, R)
  BY AddUpJoin
<1>6. AddUp(g, W \cup C) = AddUp(g, W) + AddUp(g, C)
  BY AddUpJoin
<1>7. AddUp(g, (D \cup R) \cup (W \cup C)) = AddUp(g, D \cup R) + AddUp(g, W \cup C)
  <2>1. (D \cup R) \cap (W \cup C) = {}
    OBVIOUS
  <2>. QED
    BY <2>1, AddUpJoin
<1>8. AddUp(g, (D \cup R) \cup (W \cup C)) <= AddUp(g, S)
  BY AddUpPart
<1>. QED
  BY <1>2, <1>3, <1>4, <1>5, <1>6, <1>7, <1>8

OutV(f) == [i \in DOMAIN f |-> f[i].ov]
OutA(f) == [i \in DOMAIN f |-> f[i].oa]

LEMMA OutVAddsUp ==
  ASSUME NEW f, NEW S \in SUBSET DOMAIN f, IsFiniteSet(S)
  PROVE  MapThenSumSet(LAMBDA i : Out(f[i]).v, S) = AddUp(OutV(f), S)
<1>1. PICK g : g = OutV(f)
  OBVIOUS
<1>2. \A s \in SUBSET S : s # {} => g[Some(s)] = Out(f[Some(s)]).v
  BY <1>1, SomeIn DEF OutV, Out
<1>3. \A jt : jt = [s \in SUBSET S |-> IF s = {} THEN 0 ELSE Out(f[Some(s)]).v + jt[Rest(s)]]
                 <=> IsSum(jt, g, S)
  BY <1>2 DEF IsSum
<1>4. IsSum(CHOOSE jt : jt = [s \in SUBSET S |->
                               IF s = {} THEN 0 ELSE Out(f[Some(s)]).v + jt[Rest(s)]], g, S)
  BY <1>3, SumExists
<1>5. MapThenSumSet(LAMBDA i : Out(f[i]).v, S)
        = (CHOOSE jt : jt = [s \in SUBSET S |->
                              IF s = {} THEN 0 ELSE Out(f[Some(s)]).v + jt[Rest(s)]])[S]
  BY DEF MapThenSumSet, MapThenFoldSet, Some, Rest
<1>. QED
  BY <1>1, <1>4, <1>5, AddsUp

LEMMA OutAAddsUp ==
  ASSUME NEW f, NEW S \in SUBSET DOMAIN f, IsFiniteSet(S)
  PROVE  MapThenSumSet(LAMBDA i : Out(f[i]).a, S) = AddUp(OutA(f), S)
<1>1. PICK g : g = OutA(f)
  OBVIOUS
<1>2. \A s \in SUBSET S : s # {} => g[Some(s)] = Out(f[Some(s)]).a
  BY <1>1, SomeIn DEF OutA, Out
<1>3. \A jt : jt = [s \in SUBSET S |-> IF s = {} THEN 0 ELSE Out(f[Some(s)]).a + jt[Rest(s)]]
                 <=> IsSum(jt, g, S)
  BY <1>2 DEF IsSum
<1>4. IsSum(CHOOSE jt : jt = [s \in SUBSET S |->
                               IF s = {} THEN 0 ELSE Out(f[Some(s)]).a + jt[Rest(s)]], g, S)
  BY <1>3, SumExists
<1>5. MapThenSumSet(LAMBDA i : Out(f[i]).a, S)
        = (CHOOSE jt : jt = [s \in SUBSET S |->
                              IF s = {} THEN 0 ELSE Out(f[Some(s)]).a + jt[Rest(s)]])[S]
  BY DEF MapThenSumSet, MapThenFoldSet, Some, Rest
<1>. QED
  BY <1>1, <1>4, <1>5, AddsUp

LEMMA LeftVAddsUp ==
  ASSUME NEW f, NEW S \in SUBSET DOMAIN f, IsFiniteSet(S)
  PROVE  MapThenSumSet(LAMBDA i : Left(f[i]).v, S) = AddUp(RemainV(f), S)
<1>1. PICK g : g = RemainV(f)
  OBVIOUS
<1>2. \A s \in SUBSET S : s # {} => g[Some(s)] = Left(f[Some(s)]).v
  BY <1>1, SomeIn DEF RemainV, Left
<1>3. \A jt : jt = [s \in SUBSET S |-> IF s = {} THEN 0 ELSE Left(f[Some(s)]).v + jt[Rest(s)]]
                 <=> IsSum(jt, g, S)
  BY <1>2 DEF IsSum
<1>4. IsSum(CHOOSE jt : jt = [s \in SUBSET S |->
                               IF s = {} THEN 0 ELSE Left(f[Some(s)]).v + jt[Rest(s)]], g, S)
  BY <1>3, SumExists
<1>5. MapThenSumSet(LAMBDA i : Left(f[i]).v, S)
        = (CHOOSE jt : jt = [s \in SUBSET S |->
                              IF s = {} THEN 0 ELSE Left(f[Some(s)]).v + jt[Rest(s)]])[S]
  BY DEF MapThenSumSet, MapThenFoldSet, Some, Rest
<1>. QED
  BY <1>1, <1>4, <1>5, AddsUp

LEMMA LeftAAddsUp ==
  ASSUME NEW f, NEW S \in SUBSET DOMAIN f, IsFiniteSet(S)
  PROVE  MapThenSumSet(LAMBDA i : Left(f[i]).a, S) = AddUp(RemainA(f), S)
<1>1. PICK g : g = RemainA(f)
  OBVIOUS
<1>2. \A s \in SUBSET S : s # {} => g[Some(s)] = Left(f[Some(s)]).a
  BY <1>1, SomeIn DEF RemainA, Left
<1>3. \A jt : jt = [s \in SUBSET S |-> IF s = {} THEN 0 ELSE Left(f[Some(s)]).a + jt[Rest(s)]]
                 <=> IsSum(jt, g, S)
  BY <1>2 DEF IsSum
<1>4. IsSum(CHOOSE jt : jt = [s \in SUBSET S |->
                               IF s = {} THEN 0 ELSE Left(f[Some(s)]).a + jt[Rest(s)]], g, S)
  BY <1>3, SumExists
<1>5. MapThenSumSet(LAMBDA i : Left(f[i]).a, S)
        = (CHOOSE jt : jt = [s \in SUBSET S |->
                              IF s = {} THEN 0 ELSE Left(f[Some(s)]).a + jt[Rest(s)]])[S]
  BY DEF MapThenSumSet, MapThenFoldSet, Some, Rest
<1>. QED
  BY <1>1, <1>4, <1>5, AddsUp

LEMMA OwedAddsUp ==
  ASSUME NEW f, NEW S \in SUBSET DOMAIN f, IsFiniteSet(S)
  PROVE  /\ Total(LAMBDA i : Out(f[i]), S) = [v |-> AddUp(OutV(f), S), a |-> AddUp(OutA(f), S)]
         /\ Total(LAMBDA i : Left(f[i]), S) = [v |-> AddUp(RemainV(f), S), a |-> AddUp(RemainA(f), S)]
<1>1. Total(LAMBDA i : Out(f[i]), S) = [v |-> AddUp(OutV(f), S), a |-> AddUp(OutA(f), S)]
  BY OutVAddsUp, OutAAddsUp, Zenon DEF Total
<1>2. Total(LAMBDA i : Left(f[i]), S) = [v |-> AddUp(RemainV(f), S), a |-> AddUp(RemainA(f), S)]
  BY LeftVAddsUp, LeftAAddsUp, Zenon DEF Total
<1>. QED
  BY <1>1, <1>2

\* What is due in one of the three payments is due in no other, and not closed.
LEMMA DuesApart ==
  ASSUME TypeInv, PoolInv, KeptInv, NEW p \in Parties, NEW h
  PROVE  LET D == Deals(p, h)
             R == Returns(p, h)
             W == Withdraws(p, h)
             C == Closed(p)
         IN /\ D \cup R \cup W \cup C \subseteq 1 .. count[p]
            /\ D \cap R = {} /\ D \cap W = {} /\ D \cap C = {}
            /\ R \cap W = {} /\ R \cap C = {} /\ W \cap C = {}
<1> DEFINE D == Deals(p, h)
           R == Returns(p, h)
           W == Withdraws(p, h)
           C == Closed(p)
<1>1. /\ DOMAIN item[p] = 1 .. count[p]
      /\ pool[p] \subseteq 1 .. count[p] /\ refundMap[p] \subseteq 1 .. count[p]
      /\ withdrawMap[p] \subseteq 1 .. count[p]
  BY BookFacts
<1>2. /\ pool[p] \cap refundMap[p] = {} /\ pool[p] \cap withdrawMap[p] = {}
      /\ withdrawMap[p] \cap refundMap[p] = {}
  BY DEF PoolInv, PoolOf, KeptInv, KeptOf, Trades
<1>3. /\ D \subseteq pool[p] /\ \A i \in D : item[p][i].done = "init"
      /\ R \subseteq refundMap[p] /\ \A i \in R : item[p][i].done = "init"
      /\ W \subseteq withdrawMap[p] /\ \A i \in W : item[p][i].done = "init"
  BY DEF Deals, Returns, Withdraws, Withdrawable, Open, UpTo
<1>4. C \subseteq 1 .. count[p] /\ \A i \in C : item[p][i].done # "init"
  BY <1>1 DEF Closed
<1> HIDE DEF D, R, W, C
<1>5. /\ D \cup R \cup W \cup C \subseteq 1 .. count[p]
      /\ D \cap R = {} /\ D \cap W = {} /\ R \cap W = {}
  BY <1>1, <1>2, <1>3, <1>4
<1>6. D \cap C = {} /\ R \cap C = {} /\ W \cap C = {}
  BY <1>3, <1>4
<1>. QED
  BY <1>5, <1>6 DEF D, R, W, C

LEMMA OwingIsThere ==
  ASSUME SumsInv, NaturalInv, NEW p \in Parties, NEW h
  PROVE  Leq(Plus(Owing(p, h), Total(LAMBDA i : Both(item[p][i]), Closed(p))),
             Total(LAMBDA i : Brings(orders[i]), 1 .. count[p]))
<1>1. TypeInv /\ PoolInv /\ KeptInv /\ AmountsOf(p)
  BY DEF SumsInv, BooksInv, AmountsInv
<1>2. PICK n \in Nat : n = count[p]
  BY <1>1, BookFacts
<1>3. PICK f \in [1 .. n -> Item] : f = item[p]
  BY <1>1, <1>2, BookFacts
<1>4. PICK S : S = 1 .. n /\ IsFiniteSet(S) /\ S = DOMAIN f /\ S \in SUBSET DOMAIN orders
  <2>1. 1 .. n \subseteq DOMAIN orders /\ DOMAIN f = 1 .. n
    BY <1>1, <1>2, BookFacts
  <2>2. IsFiniteSet(1 .. n)
    BY FS_Interval
  <2>. QED
    BY <2>1, <2>2
<1>5. PICK D \in SUBSET S, R \in SUBSET S, W \in SUBSET S, C \in SUBSET S :
         /\ D = Deals(p, h) /\ R = Returns(p, h) /\ W = Withdraws(p, h) /\ C = Closed(p)
         /\ D \cap R = {} /\ D \cap W = {} /\ D \cap C = {}
         /\ R \cap W = {} /\ R \cap C = {} /\ W \cap C = {}
         /\ IsFiniteSet(D) /\ IsFiniteSet(R) /\ IsFiniteSet(W) /\ IsFiniteSet(C)
  BY <1>1, <1>2, <1>4, DuesApart, FS_Subset
<1>6. \A i \in S : /\ f[i].rv \in Nat /\ f[i].ra \in Nat /\ f[i].ov \in Nat /\ f[i].oa \in Nat
                   /\ BothV(f)[i] = f[i].rv + f[i].ov /\ BothA(f)[i] = f[i].ra + f[i].oa
                   /\ RemainV(f)[i] = f[i].rv /\ RemainA(f)[i] = f[i].ra
                   /\ OutV(f)[i] = f[i].ov /\ OutA(f)[i] = f[i].oa
  <2>1. \A i \in S : Natural(f[i]) /\ f[i] \in Item
    BY <1>2, <1>3, <1>4 DEF NaturalInv, Sound
  <2>2. \A x \in Item : Natural(x) => x.rv \in Nat /\ x.ra \in Nat /\ x.ov \in Nat /\ x.oa \in Nat
    BY DEF Natural, Item
  <2>3. \A i \in S : /\ BothV(f)[i] = f[i].rv + f[i].ov /\ BothA(f)[i] = f[i].ra + f[i].oa
                     /\ RemainV(f)[i] = f[i].rv /\ RemainA(f)[i] = f[i].ra
                     /\ OutV(f)[i] = f[i].ov /\ OutA(f)[i] = f[i].oa
    BY <1>4 DEF BothV, BothA, RemainV, RemainA, OutV, OutA
  <2>. QED
    BY <2>1, <2>2, <2>3
<1>7. (AddUp(OutV(f), D) + (AddUp(BothV(f), R) + AddUp(RemainV(f), W))) + AddUp(BothV(f), C)
        <= AddUp(BothV(f), S)
  <2>1. /\ \A i \in S : BothV(f)[i] \in Int /\ OutV(f)[i] \in Int /\ RemainV(f)[i] \in Int
        /\ \A i \in S : BothV(f)[i] >= 0 /\ OutV(f)[i] <= BothV(f)[i] /\ RemainV(f)[i] <= BothV(f)[i]
    <3>1. ASSUME NEW i \in S
          PROVE  /\ BothV(f)[i] \in Int /\ OutV(f)[i] \in Int /\ RemainV(f)[i] \in Int
                 /\ BothV(f)[i] >= 0 /\ OutV(f)[i] <= BothV(f)[i] /\ RemainV(f)[i] <= BothV(f)[i]
      BY <1>6, <3>1
    <3>. QED
      BY <3>1
  <2>2. Amounts(BothV(f), S) /\ Amounts(OutV(f), S) /\ Amounts(RemainV(f), S)
    BY <2>1 DEF Amounts
  <2>. QED
    BY <1>4, <1>5, <2>1, <2>2, AddUpFourParts
<1>8. (AddUp(OutA(f), D) + (AddUp(BothA(f), R) + AddUp(RemainA(f), W))) + AddUp(BothA(f), C)
        <= AddUp(BothA(f), S)
  <2>1. /\ \A i \in S : BothA(f)[i] \in Int /\ OutA(f)[i] \in Int /\ RemainA(f)[i] \in Int
        /\ \A i \in S : BothA(f)[i] >= 0 /\ OutA(f)[i] <= BothA(f)[i] /\ RemainA(f)[i] <= BothA(f)[i]
    <3>1. ASSUME NEW i \in S
          PROVE  /\ BothA(f)[i] \in Int /\ OutA(f)[i] \in Int /\ RemainA(f)[i] \in Int
                 /\ BothA(f)[i] >= 0 /\ OutA(f)[i] <= BothA(f)[i] /\ RemainA(f)[i] <= BothA(f)[i]
      BY <1>6, <3>1
    <3>. QED
      BY <3>1
  <2>2. Amounts(BothA(f), S) /\ Amounts(OutA(f), S) /\ Amounts(RemainA(f), S)
    BY <2>1 DEF Amounts
  <2>. QED
    BY <1>4, <1>5, <2>1, <2>2, AddUpFourParts
<1>9. Total(LAMBDA i : Out(item[p][i]), Deals(p, h))
        = [v |-> AddUp(OutV(item[p]), Deals(p, h)), a |-> AddUp(OutA(item[p]), Deals(p, h))]
  BY <1>3, <1>4, <1>5, OwedAddsUp
<1>10. Total(LAMBDA i : Both(item[p][i]), Returns(p, h))
         = [v |-> AddUp(BothV(item[p]), Returns(p, h)), a |-> AddUp(BothA(item[p]), Returns(p, h))]
  BY <1>3, <1>4, <1>5, TotalsAddUp
<1>11. Total(LAMBDA i : Left(item[p][i]), Withdraws(p, h))
         = [v |-> AddUp(RemainV(item[p]), Withdraws(p, h)),
            a |-> AddUp(RemainA(item[p]), Withdraws(p, h))]
  BY <1>3, <1>4, <1>5, OwedAddsUp
<1>12. Total(LAMBDA i : Both(item[p][i]), Closed(p))
         = [v |-> AddUp(BothV(item[p]), Closed(p)), a |-> AddUp(BothA(item[p]), Closed(p))]
  BY <1>3, <1>4, <1>5, TotalsAddUp
<1>13. Total(LAMBDA i : Brings(orders[i]), S)
         = [v |-> AddUp(BringsV(orders), S), a |-> AddUp(BringsA(orders), S)]
  BY <1>4, TotalsAddUp
<1>14. AddUp(BothV(f), S) = AddUp(BringsV(orders), S) /\ AddUp(BothA(f), S) = AddUp(BringsA(orders), S)
  BY <1>1, <1>2, <1>3, <1>4 DEF AmountsOf, ItemsAddUp
<1>15. PICK d, r, w, c :
          /\ d = Total(LAMBDA i : Out(item[p][i]), Deals(p, h))
          /\ r = Total(LAMBDA i : Both(item[p][i]), Returns(p, h))
          /\ w = Total(LAMBDA i : Left(item[p][i]), Withdraws(p, h))
          /\ c = Total(LAMBDA i : Both(item[p][i]), Closed(p))
  OBVIOUS
<1>16. /\ d = [v |-> AddUp(OutV(f), D), a |-> AddUp(OutA(f), D)]
       /\ r = [v |-> AddUp(BothV(f), R), a |-> AddUp(BothA(f), R)]
       /\ w = [v |-> AddUp(RemainV(f), W), a |-> AddUp(RemainA(f), W)]
       /\ c = [v |-> AddUp(BothV(f), C), a |-> AddUp(BothA(f), C)]
  BY <1>3, <1>5, <1>9, <1>10, <1>11, <1>12, <1>15, Zenon
<1>17. Owing(p, h) = Plus(d, Plus(r, w))
  BY <1>15, Zenon DEF Owing
<1>18. Leq(Plus(Plus(d, Plus(r, w)), c),
           [v |-> AddUp(BringsV(orders), S), a |-> AddUp(BringsA(orders), S)])
  BY <1>7, <1>8, <1>14, <1>16 DEF Leq, Plus
<1>19. Total(LAMBDA i : Brings(orders[i]), 1 .. count[p])
         = [v |-> AddUp(BringsV(orders), S), a |-> AddUp(BringsA(orders), S)]
  BY <1>2, <1>4, <1>13, Zenon
<1>. QED
  BY <1>15, <1>17, <1>18, <1>19, Zenon

-----------------------------------------------------------------------------
LEMMA InitNatural == Init => NaturalInv
BY DEF Init, NaturalInv, Sound, Natural, SpentWithin

\* Matching and closing neither lose nor make a satoshi or a unit, for every
\* number of orders and amounts, no amount falls below zero, and what a party
\* owes, in whichever payment, came in and was not yet closed; and the figures
\* of the pool are what its orders still bring, unless a reload has put an order
\* back.
THEOREM AmountsConserved == Spec => []Conserved
<1>1. SumsInv /\ NaturalInv => Conserved
  <2>1. SUFFICES ASSUME SumsInv, NaturalInv, NEW p \in Parties
                 PROVE  /\ Total(LAMBDA i : Both(item[p][i]), DOMAIN item[p])
                             = Total(LAMBDA i : Brings(orders[i]), 1 .. count[p])
                        /\ \A i \in DOMAIN item[p] : Natural(item[p][i])
                        /\ \A h \in 0 .. MaxHeight :
                              Leq(Plus(Owing(p, h), Total(LAMBDA i : Both(item[p][i]), Closed(p))),
                                  Total(LAMBDA i : Brings(orders[i]), 1 .. count[p]))
                        /\ forgot[p] = {} => inPool[p] = Held(p, pool[p])
    BY Zenon DEF Conserved
  <2>2. TypeInv /\ AmountsOf(p)
    BY <2>1 DEF SumsInv, BooksInv, AmountsInv
  <2>3. PICK S : /\ S = 1 .. count[p] /\ IsFiniteSet(S) /\ S = DOMAIN item[p]
                 /\ S \subseteq DOMAIN orders /\ pool[p] \subseteq S
    BY <2>2, BookFacts, SumFacts
  <2>4. Total(LAMBDA i : Both(item[p][i]), S)
          = [v |-> AddUp(BothV(item[p]), S), a |-> AddUp(BothA(item[p]), S)]
    BY <2>3, TotalsAddUp
  <2>5. Total(LAMBDA i : Brings(orders[i]), S)
          = [v |-> AddUp(BringsV(orders), S), a |-> AddUp(BringsA(orders), S)]
    BY <2>3, TotalsAddUp
  <2>6. [v |-> AddUp(BothV(item[p]), S), a |-> AddUp(BothA(item[p]), S)]
          = [v |-> AddUp(BringsV(orders), S), a |-> AddUp(BringsA(orders), S)]
    BY <2>2, <2>3 DEF AmountsOf, ItemsAddUp
  <2>7. Held(p, pool[p]) = [v |-> AddUp(RemainV(item[p]), Buys(pool[p])),
                            a |-> AddUp(RemainA(item[p]), Sells(pool[p]))]
    BY <2>2, <2>3, SumFacts, HeldAddsUp
  <2>8. forgot[p] = {} => inPool[p] = Held(p, pool[p])
    BY <2>2, <2>7 DEF AmountsOf, PoolAddsUp
  <2>9. Total(LAMBDA i : Both(item[p][i]), S) = Total(LAMBDA i : Brings(orders[i]), S)
    BY <2>4, <2>5, <2>6, Zenon
  <2>10. \A i \in DOMAIN item[p] : Natural(item[p][i])
    BY <2>1, <2>3 DEF NaturalInv, Sound
  <2>11. \A h \in 0 .. MaxHeight :
            Leq(Plus(Owing(p, h), Total(LAMBDA i : Both(item[p][i]), Closed(p))),
                Total(LAMBDA i : Brings(orders[i]), 1 .. count[p]))
    BY <2>1, OwingIsThere, Zenon
  <2>. QED
    BY <2>3, <2>8, <2>9, <2>10, <2>11, Zenon
<1>. QED
  BY InitSums, NextSums, InitNatural, NextNatural, <1>1, PTL DEF Spec

=============================================================================
