------------------------------ MODULE OrderBook ------------------------------
(***************************************************************************)
(* The transaction module (main_server/logic/transaction): one actor that  *)
(* keeps the orders.  Players reach it by calls with a time to live, so a  *)
(* request may be carried out after its caller has given up.               *)
(***************************************************************************)
EXTENDS Naturals, Sequences

CONSTANTS
    Player,     \* the traders
    Good,       \* single pets, mounts, weapons...: things, not kinds of things
    Price,      \* bound: the prices that are asked
    NoPlayer,   \* player id 0
    NoOrder     \* a nil order

ASSUME BookAssumption == NoPlayer \notin Player /\ Price \subseteq Nat

Type == {"private", "exchange", "chat"}

\* An order's id is its place in `orders`.  The code deletes an order when its
\* status changes: an id whose order is not pending is unknown to GetOrder.
\* `record` is the status of the seller's record of the order (2 is "listed").
\* Only private orders are to somebody.
Order == {o \in [seller : Player, to : Player \cup {NoPlayer}, type : Type,
                 good : Good, price : Price,
                 status : {"pending", "sold", "off"},
                 record : {"none", "listed", "sold", "off"}] :
              o.type = "private" <=> o.to # NoPlayer}

Request == [fn : {"CreateOrder", "addTransactionRecord", "ProcessOrder", "CancelOrder"},
            by : Player, id : Nat, order : Order \cup {NoOrder},
            open : BOOLEAN]     \* does the future of the caller still exist

VARIABLES
    orders,     \* every order ever made, by id
    inbox,      \* the module's mailbox
    call,       \* call[p]: the future player p is blocked on, and the order it returned
    bornOrphan, \* history: orders created after the seller had given up
    endedOrphan \* history: orders sold or taken off after the caller had given up

bookVars == <<orders, inbox, call, bornOrphan, endedOrphan>>

BookInit ==
    /\ orders = <<>> /\ inbox = <<>>
    /\ call = [p \in Player |-> [st |-> "none", id |-> 0]]
    /\ bornOrphan = {} /\ endedOrphan = {}

BookTypeOK ==
    /\ orders \in Seq(Order)
    /\ inbox \in Seq(Request)
    /\ call \in [Player -> [st : {"none", "waiting", "done"}, id : Nat]]
    /\ bornOrphan \subseteq DOMAIN orders
    /\ endedOrphan \subseteq DOMAIN orders

-----------------------------------------------------------------------------
\* GetOrder finds o.
Pending(o) == o \in DOMAIN orders /\ orders[o].status = "pending"

Takes(fn) == inbox # <<>> /\ Head(inbox).fn = fn

\* The answer to request r is order id n, or 0 for an error; nobody may be there to get it.
Answered(r, n) == IF r.open THEN [call EXCEPT ![r.by] = [st |-> "done", id |-> n]] ELSE call

CreateOrder ==
    /\ Takes("CreateOrder")
    /\ LET r == Head(inbox)  n == Len(orders) + 1 IN
          /\ orders' = Append(orders, r.order)
          /\ call' = Answered(r, n)
          /\ bornOrphan' = bornOrphan \cup IF r.open THEN {} ELSE {n}
    /\ inbox' = Tail(inbox)
    /\ UNCHANGED endedOrphan

\* Request r ends its order if `may` says so, and fails otherwise.
Ends(r, may, status) ==
    /\ orders' = IF may THEN [orders EXCEPT ![r.id].status = status] ELSE orders
    /\ call' = Answered(r, IF may THEN r.id ELSE 0)
    /\ endedOrphan' = endedOrphan \cup IF may /\ ~r.open THEN {r.id} ELSE {}
    /\ inbox' = Tail(inbox)
    /\ UNCHANGED bornOrphan

MayProcess(r) == Pending(r.id) /\ orders[r.id].seller # r.by

\* Mutation of MayCancel: an order that was sold can be taken off.
MayCancelEnded(r) == r.id \in DOMAIN orders /\ orders[r.id].seller = r.by

MayCancel(r) == Pending(r.id) /\ orders[r.id].seller = r.by

ProcessOrder ==
    /\ Takes("ProcessOrder")
    /\ LET r == Head(inbox) IN Ends(r, MayProcess(r), "sold")

CancelOrder ==
    /\ Takes("CancelOrder")
    /\ LET r == Head(inbox) IN Ends(r, MayCancel(r), "off")

AddTransactionRecord ==
    /\ Takes("addTransactionRecord")
    /\ LET r == Head(inbox) IN
          /\ orders' = [orders EXCEPT ![r.id].record = "listed"]
          /\ call' = Answered(r, r.id)
    /\ inbox' = Tail(inbox)
    /\ UNCHANGED <<bornOrphan, endedOrphan>>

BookStep == CreateOrder \/ ProcessOrder \/ CancelOrder \/ AddTransactionRecord

-----------------------------------------------------------------------------
\* The mailbox and the futures after player p calls fn.
Calls(p, fn, id, order) ==
    /\ inbox' = Append(inbox, [fn |-> fn, by |-> p, id |-> id, order |-> order, open |-> TRUE])
    /\ call' = [call EXCEPT ![p] = [st |-> "waiting", id |-> 0]]

\* p's handler goes on after its call; the future is gone.
Resumes(p) == call' = [call EXCEPT ![p] = [st |-> "none", id |-> 0]]

\* The time to live runs out: the client stub returns nil, the request stays.
CallTimeout(p) ==
    /\ call[p].st = "waiting"
    /\ call' = [call EXCEPT ![p].st = "done"]
    /\ inbox' = [i \in DOMAIN inbox |->
                    IF inbox[i].by = p THEN [inbox[i] EXCEPT !.open = FALSE] ELSE inbox[i]]
    /\ UNCHANGED <<orders, bornOrphan, endedOrphan>>
=============================================================================
