------------------------------- MODULE Trader -------------------------------
(***************************************************************************)
(* The player's side of trading (player/transaction, player/internal/      *)
(* transaction.go) and the mail that carries offers and payments.          *)
(*                                                                         *)
(* A good is listed by creating the order first and taking it from the     *)
(* stock when the call has returned; it is bought or withdrawn by ending   *)
(* the order first and adding to the stock afterwards.  GetOrder and       *)
(* GetTransactionRecords only read: a handler reads in the step in which   *)
(* it goes on.  Items in use and the cooldown make a handler refuse to     *)
(* start, as it may at any time here.                                      *)
(***************************************************************************)
EXTENDS OrderBook

CONSTANTS
    KindOf,     \* KindOf[g]: type and ItemId of good g; a player has one good of a kind
    Grantable,  \* the kinds GrantAttachmentFromData has a case for (all but fashion)
    NoGood,     \* an empty place in a stock
    Purse,      \* what each player has to spend
    MaxReqs     \* bound: requests the clients send

ASSUME TraderAssumption == NoGood \notin Good /\ Purse \in Nat /\ MaxReqs \in Nat

Kind == {KindOf[g] : g \in Good}

VARIABLES
    stock,      \* stock[p][k]: the good of kind k player p has
    purse,      \* the currency a player has
    handler,    \* handler[p]: where p's handler is blocked, and its order
    post,       \* the mails in MySQL that carry something
    reqs,       \* how many requests the clients have sent
    destroyed   \* history: goods overwritten by, or lost in, a grant

traderVars == <<stock, purse, handler, post, reqs, destroyed>>

Mail == [to : Player, order : Nat, amount : Nat, attached : BOOLEAN, got : BOOLEAN]

TraderInit ==
    /\ stock \in [Player -> [Kind -> Good \cup {NoGood}]]
    /\ \A g \in Good : \E p \in Player : \A q \in Player, k \in Kind :
          stock[q][k] = g <=> q = p /\ k = KindOf[g]
    /\ purse = [p \in Player |-> Purse]
    /\ handler = [p \in Player |-> [step |-> "idle", id |-> 0]]
    /\ post = <<>>
    /\ reqs = 0
    /\ destroyed = {}

TraderTypeOK ==
    /\ stock \in [Player -> [Kind -> Good \cup {NoGood}]]
    /\ purse \in [Player -> Nat]
    /\ handler \in [Player -> [step : {"idle", "create", "record", "buy", "cancel", "markSold", "markOff"},
                               id : Nat]]
    /\ post \in Seq(Mail)
    /\ reqs \in Nat
    /\ destroyed \subseteq Good

-----------------------------------------------------------------------------
\* A request arrives at p, which is between two handlers.
Serves(p) ==
    /\ handler[p].step = "idle"
    /\ reqs < MaxReqs
    /\ reqs' = reqs + 1

Blocks(p, step, id) == handler' = [handler EXCEPT ![p] = [step |-> step, id |-> id]]
Finishes(p) == Blocks(p, "idle", 0)

\* The call p's handler is blocked on has returned order n; 0 is nil or an error.
Returned(p, step, n) ==
    handler[p].step = step /\ call[p].st = "done" /\ call[p].id = n

\* A listing: private to one player, on the exchange, or attached to a chat message.
SendTransaction(p, k, type, to, price) ==
    /\ Serves(p)
    /\ stock[p][k] # NoGood
    /\ to \in IF type = "private" THEN Player \ {p} ELSE {NoPlayer}
    /\ Calls(p, "CreateOrder", 0,
             [seller |-> p, to |-> to, type |-> type, good |-> stock[p][k], price |-> price,
              status |-> "pending", record |-> "none"])
    /\ Blocks(p, "create", 0)
    /\ UNCHANGED <<orders, bornOrphan, endedOrphan, stock, purse, post, destroyed>>

\* Mutation of DeductAttachment: the good stays with the seller.
DeductNothing(p, o) == stock

\* The stock of p without what order o sells.
DeductAttachment(p, o) == [stock EXCEPT ![p][KindOf[orders[o].good]] = NoGood]

\* SendMail does not store its parameter `attachment`: no mail is marked as carrying one.
Posted(to, o, amount) ==
    Append(post, [to |-> to, order |-> o, amount |-> amount, attached |-> FALSE, got |-> FALSE])

OrderCreated(p) == \E o \in DOMAIN orders :
    /\ Returned(p, "create", o)
    /\ stock' = DeductAttachment(p, o)
    /\ post' = IF orders[o].type = "private" THEN Posted(orders[o].to, o, 0) ELSE post
    /\ Calls(p, "addTransactionRecord", o, NoOrder)
    /\ Blocks(p, "record", o)
    /\ UNCHANGED <<orders, bornOrphan, endedOrphan, purse, reqs, destroyed>>

\* Mutation of HandlerEnds: the handler does not expect a call to fail.
HandlerEndsWell(p) ==
    /\ handler[p].step = "record" /\ call[p].st = "done"
    /\ Resumes(p) /\ Finishes(p)
    /\ UNCHANGED <<orders, inbox, bornOrphan, endedOrphan, stock, purse, post, reqs, destroyed>>

\* After addTransactionRecord, whatever it returned, and after any call that failed.
HandlerEnds(p) ==
    /\ \/ handler[p].step = "record" /\ call[p].st = "done"
       \/ \E s \in {"create", "buy", "cancel"} : Returned(p, s, 0)
    /\ Resumes(p) /\ Finishes(p)
    /\ UNCHANGED <<orders, inbox, bornOrphan, endedOrphan, stock, purse, post, reqs, destroyed>>

BuyOrder(p, o) ==
    /\ Serves(p)
    /\ Pending(o) /\ orders[o].type \in {"exchange", "chat"}
    /\ purse[p] >= orders[o].price
    /\ Calls(p, "ProcessOrder", o, NoOrder)
    /\ Blocks(p, "buy", o)
    /\ UNCHANGED <<orders, bornOrphan, endedOrphan, stock, purse, post, destroyed>>

\* Mutation of Grant: what is bought or withdrawn never arrives.
GrantNothing(p, g) == UNCHANGED <<stock, destroyed>>

\* GrantAttachmentFromData: there is one place per kind, and none for fashion.
Grant(p, g) ==
    LET k == KindOf[g] IN
    IF k \in Grantable
    THEN /\ stock' = [stock EXCEPT ![p][k] = g]
         /\ destroyed' = destroyed \cup ({stock[p][k]} \ {NoGood, g})
    ELSE /\ stock' = stock
         /\ destroyed' = destroyed \cup {g}

\* Mutation of Payment: the seller is paid twice.
PaymentTwice(p, o) ==
    /\ purse' = [purse EXCEPT ![p] = @ - orders[o].price]
    /\ post' = Posted(orders[o].seller, o, 2 * orders[o].price)

\* Mutation of Payment: no mail brings the money.
PaymentKept(p, o) ==
    /\ purse' = [purse EXCEPT ![p] = @ - orders[o].price]
    /\ post' = post

\* SubItems takes the price from buyer p and a mail brings it to the seller.
Payment(p, o) ==
    /\ purse' = [purse EXCEPT ![p] = @ - orders[o].price]
    /\ post' = Posted(orders[o].seller, o, orders[o].price)

OrderBought(p) == \E o \in DOMAIN orders :
    /\ Returned(p, "buy", o)
    /\ Payment(p, o) /\ Grant(p, orders[o].good)
    /\ Resumes(p) /\ Blocks(p, "markSold", o)
    /\ UNCHANGED <<orders, inbox, bornOrphan, endedOrphan, reqs>>

WithdrawOrder(p, o) ==
    /\ Serves(p)
    /\ Pending(o) /\ orders[o].type = "exchange"
    /\ Calls(p, "CancelOrder", o, NoOrder)
    /\ Blocks(p, "cancel", o)
    /\ UNCHANGED <<orders, bornOrphan, endedOrphan, stock, purse, post, destroyed>>

OrderWithdrawn(p) == \E o \in DOMAIN orders :
    /\ Returned(p, "cancel", o)
    /\ Grant(p, orders[o].good)
    /\ Resumes(p) /\ Blocks(p, "markOff", o)
    /\ UNCHANGED <<orders, inbox, bornOrphan, endedOrphan, purse, post, reqs>>

\* The record of order o, if there is one and the call that gets it returns in time.
MarkAs(o, status) ==
    orders' \in {orders, IF orders[o].record = "none" THEN orders
                         ELSE [orders EXCEPT ![o].record = status]}

MarkRecord(p) ==
    /\ \/ handler[p].step = "markSold" /\ MarkAs(handler[p].id, "sold")
       \/ handler[p].step = "markOff" /\ MarkAs(handler[p].id, "off")
    /\ Finishes(p)
    /\ UNCHANGED <<inbox, call, bornOrphan, endedOrphan, stock, purse, post, reqs, destroyed>>

\* Mutation of CollectMailItem: the mail is not marked as collected.
CollectMailAgain(p, i) ==
    /\ handler[p].step = "idle"
    /\ post[i].to = p /\ post[i].amount > 0 /\ ~post[i].got
    /\ purse' = [purse EXCEPT ![p] = @ + post[i].amount]
    /\ UNCHANGED <<bookVars, stock, handler, post, reqs, destroyed>>

\* A payment is collected.  A mail with an offer has no items: GotItem is true from
\* the start, and buying the attachment needs the mark that no mail has.
CollectMailItem(p, i) ==
    /\ handler[p].step = "idle"
    /\ post[i].to = p /\ post[i].amount > 0 /\ ~post[i].got
    /\ purse' = [purse EXCEPT ![p] = @ + post[i].amount]
    /\ post' = [post EXCEPT ![i].got = TRUE]
    /\ UNCHANGED <<bookVars, stock, handler, reqs, destroyed>>

\* What the server does for p once a request is there.
HandlerStep(p) ==
    \/ OrderCreated(p) \/ OrderBought(p) \/ OrderWithdrawn(p)
    \/ HandlerEnds(p) \/ MarkRecord(p)
    \/ CallTimeout(p) /\ UNCHANGED traderVars

ClientStep(p) ==
    \/ \E k \in Kind, type \in Type, to \in Player \cup {NoPlayer}, price \in Price :
          SendTransaction(p, k, type, to, price)
    \/ \E o \in DOMAIN orders : BuyOrder(p, o) \/ WithdrawOrder(p, o)
    \/ \E i \in DOMAIN post : CollectMailItem(p, i)
=============================================================================
