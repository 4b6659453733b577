---------------------------- MODULE MarketSystem ----------------------------
(***************************************************************************)
(* The players' actors, the transaction module and the mail together, and  *)
(* what trading promises about goods and money.                            *)
(***************************************************************************)
EXTENDS Trader, FiniteSets, Functions

\* What all players have together is a number.
ASSUME MoneyAssumption == IsFiniteSet(Player)

vars == <<bookVars, traderVars>>

Init == BookInit /\ TraderInit

BookNext == BookStep /\ UNCHANGED traderVars

Next ==
    \/ \E p \in Player : HandlerStep(p) \/ ClientStep(p)
    \/ BookNext

Spec == Init /\ [][Next]_vars

TypeOK == BookTypeOK /\ TraderTypeOK

-----------------------------------------------------------------------------
(* Where goods are. *)

\* p's order o is on sale although p has not been told so and still has the good.
StillSelling(p, o) == handler[p].step = "create" /\ call[p].st = "done" /\ call[p].id = o

\* Order o is p's, ended, and what it sells is not yet in p's stock.
Taking(p, o) ==
    /\ handler[p].step \in {"buy", "cancel"} /\ call[p].st = "done"
    /\ call[p].id = o /\ o # 0

Stocked(g) == {p \in Player :
    /\ stock[p][KindOf[g]] = g
    /\ \A o \in DOMAIN orders : orders[o].good = g => ~StillSelling(p, o)}
Offered(g) == {o \in DOMAIN orders : orders[o].good = g /\ orders[o].status = "pending"}
OnTheWay(g) == {p \in Player : \E o \in DOMAIN orders : orders[o].good = g /\ Taking(p, o)}

Places(g) == ({"stock"} \X Stocked(g)) \cup ({"order"} \X Offered(g)) \cup ({"way"} \X OnTheWay(g))

Orphaned(orphans, g) == \E o \in orphans : orders[o].good = g

\* A good is in one place at a time, with one player, in one order, or on its way to
\* one player, unless an order of it was made for a seller who had given up.
NotForked == \A g \in Good : \A x, y \in Places(g) : x = y \/ Orphaned(bornOrphan, g)

\* A good is somewhere, unless an order of it was ended for a caller who had given
\* up, or it was granted on top of by another one or is of a kind that grants nothing.
NotLost == \A g \in Good \ destroyed : Places(g) # {} \/ Orphaned(endedOrphan, g)

-----------------------------------------------------------------------------
(* Money. *)

\* What each mail still brings its player.
Unpaid == [i \in DOMAIN post |-> IF post[i].got THEN 0 ELSE post[i].amount]

\* What the players have and what waits for them in mails never changes, and
\* nobody spends what is gone by the time the order is his.
MoneyConserved ==
    /\ SumFunction(purse) + SumFunction(Unpaid) = Purse * Cardinality(Player)
    /\ \A p \in Player : purse[p] >= 0

\* A payment is for an order that was sold, is what the order asked, goes to its
\* seller, and no order is paid for twice.
PaidOnce == \A i \in DOMAIN post : post[i].amount > 0 =>
    /\ post[i].order \in DOMAIN orders
    /\ LET o == orders[post[i].order] IN
          o.status = "sold" /\ post[i].to = o.seller /\ post[i].amount = o.price
    /\ \A j \in DOMAIN post : post[j].amount > 0 /\ post[j].order = post[i].order => j = i

\* A record that says how its order ended is right.
RecordIsTrue == \A o \in DOMAIN orders :
    orders[o].record \in {"none", "listed", orders[o].status}

-----------------------------------------------------------------------------
(* What these rest on. *)

\* Where a handler blocks, and on what.
Blocked == {"create", "record", "buy", "cancel"}
Awaits == {<<"create", "CreateOrder">>, <<"record", "addTransactionRecord">>,
           <<"buy", "ProcessOrder">>, <<"cancel", "CancelOrder">>}

\* A request names an order that exists, or brings a new one of the caller.
RequestsAreSound == \A i \in DOMAIN inbox : LET r == inbox[i] IN
    IF r.fn = "CreateOrder" THEN r.order \in Order /\ r.order.seller = r.by
                                 /\ r.order.status = "pending" /\ r.order.record = "none"
    ELSE r.id \in DOMAIN orders

\* An open request is the only one of its player, is what the player's handler waits
\* for, and if it is for a listing then the good is still in the stock.
OpenIsAwaited == \A i \in DOMAIN inbox : LET r == inbox[i]  h == handler[r.by] IN r.open =>
    /\ \A j \in DOMAIN inbox : inbox[j].open /\ inbox[j].by = r.by => i = j
    /\ call[r.by].st = "waiting"
    /\ <<h.step, r.fn>> \in Awaits
    /\ IF r.fn = "CreateOrder" THEN stock[r.by][KindOf[r.order.good]] = r.order.good
       ELSE r.id = h.id

\* A handler is blocked on a call or not, and what it was told is about its order.
HandlersAreSound == \A p \in Player : LET h == handler[p]  c == call[p] IN
    /\ c.st = "none" <=> h.step \notin Blocked
    /\ c.st # "done" => c.id = 0
    /\ h.step \notin {"idle", "create"} => h.id \in DOMAIN orders
    /\ c.id # 0 => c.id \in DOMAIN orders /\ (h.step # "create" => c.id = h.id)

\* A listing that is about to be told of is of a good that the seller still has.
ListedIsHeld == \A p \in Player : \A o \in DOMAIN orders :
    StillSelling(p, o) => stock[p][KindOf[orders[o].good]] = orders[o].good

\* Who is about to get or has just got a good was given the order for it.
EndedAsTold == \A p \in Player : LET o == handler[p].id IN
    /\ handler[p].step = "buy" /\ call[p].id # 0 => orders[o].status = "sold"
    /\ handler[p].step = "cancel" /\ call[p].id # 0 => orders[o].status = "off"
    /\ handler[p].step = "markSold" => orders[o].status = "sold"
    /\ handler[p].step = "markOff" => orders[o].status = "off"

\* A buyer can pay, also when the answer arrives.
BuyerCanPay == \A p \in Player :
    handler[p].step = "buy" => purse[p] >= orders[handler[p].id].price

KindsInPlace == \A p \in Player, k \in Kind : stock[p][k] # NoGood => KindOf[stock[p][k]] = k

\* A buyer who has been given an order is the only one and has not paid for it yet.
BuyerIsAlone == \A p \in Player : \A o \in DOMAIN orders :
    handler[p].step = "buy" /\ call[p].id = o =>
        /\ \A q \in Player : handler[q].step = "buy" /\ call[q].id = o => p = q
        /\ \A i \in DOMAIN post : post[i].amount > 0 => post[i].order # o

MarketInv ==
    /\ TypeOK
    /\ RequestsAreSound /\ OpenIsAwaited /\ HandlersAreSound /\ ListedIsHeld
    /\ EndedAsTold /\ BuyerCanPay /\ KindsInPlace /\ BuyerIsAlone
    /\ NotForked /\ NotLost /\ PaidOnce /\ RecordIsTrue

-----------------------------------------------------------------------------
(* The module's actor, every player's actor and every timer gets to run. *)
Fairness ==
    /\ WF_vars(BookNext)
    /\ \A p \in Player : WF_vars(HandlerStep(p))

FairSpec == Spec /\ Fairness

Paid(o) == \E i \in DOMAIN post : post[i].order = o /\ post[i].amount > 0

\* Whoever sells gets paid, unless the buyer gave up and got nothing either.
SoldIsPaid == \A o \in 1 .. MaxReqs :
    (o \in DOMAIN orders /\ orders[o].status = "sold" /\ o \notin endedOrphan) ~> Paid(o)

\* Every handler ends, whatever calls time out.
EveryHandlerEnds == \A p \in Player : handler[p].step # "idle" ~> handler[p].step = "idle"

=============================================================================
