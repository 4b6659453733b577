----------------------------- MODULE MarketProofs -----------------------------
(***************************************************************************)
(* The safety of MarketSystem, for any number of players, goods, kinds,    *)
(* prices and requests: MarketInv is inductive.  Its parts are grouped by  *)
(* what they are about: who talks to whom, the book, the stock, money, and *)
(* where goods are.                                                        *)
(***************************************************************************)
EXTENDS MarketSystem, FiniteSetTheorems, WellFoundedInduction, TLAPS

TalkInv ==
    /\ inbox \in Seq(Request)
    /\ call \in [Player -> [st : {"none", "waiting", "done"}, id : Nat]]
    /\ handler \in [Player -> [step : {"idle", "create", "record", "buy", "cancel", "markSold", "markOff"},
                               id : Nat]]
    /\ RequestsAreSound /\ OpenIsAwaited /\ HandlersAreSound

BookInv ==
    /\ orders \in Seq(Order)
    /\ bornOrphan \subseteq DOMAIN orders
    /\ endedOrphan \subseteq DOMAIN orders
    /\ RecordIsTrue /\ EndedAsTold

StockInv ==
    /\ stock \in [Player -> [Kind -> Good \cup {NoGood}]]
    /\ destroyed \subseteq Good
    /\ KindsInPlace /\ ListedIsHeld

MoneyInv ==
    /\ purse \in [Player -> Nat]
    /\ post \in Seq(Mail)
    /\ reqs \in Nat
    /\ BuyerCanPay /\ PaidOnce /\ BuyerIsAlone

GoodsInv == NotForked /\ NotLost

\* The groups are the invariant.
LEMMA Parts == MarketInv <=> TalkInv /\ BookInv /\ StockInv /\ MoneyInv /\ GoodsInv
BY DEF MarketInv, TalkInv, BookInv, StockInv, MoneyInv, GoodsInv,
       TypeOK, BookTypeOK, TraderTypeOK

LEMMA PartsNext == TalkInv' /\ BookInv' /\ StockInv' /\ MoneyInv' /\ GoodsInv' => MarketInv'
BY DEF MarketInv, TalkInv, BookInv, StockInv, MoneyInv, GoodsInv,
       TypeOK, BookTypeOK, TraderTypeOK

-----------------------------------------------------------------------------
(* Sequences. *)

\* What a sequence is after an element was put at its end.
LEMMA AppendFacts ==
    ASSUME NEW S, NEW s \in Seq(S), NEW e \in S
    PROVE  /\ Append(s, e) \in Seq(S)
           /\ Len(s) + 1 \in Nat /\ Len(s) + 1 \notin DOMAIN s
           /\ DOMAIN Append(s, e) = DOMAIN s \cup {Len(s) + 1}
           /\ \A i \in DOMAIN s : Append(s, e)[i] = s[i]
           /\ Append(s, e)[Len(s) + 1] = e
OBVIOUS

\* What it is without its head.
LEMMA TailFacts ==
    ASSUME NEW S, NEW s \in Seq(S), s # <<>>
    PROVE  /\ Tail(s) \in Seq(S)
           /\ Head(s) \in S /\ 1 \in DOMAIN s /\ Head(s) = s[1]
           /\ \A i \in DOMAIN Tail(s) : i + 1 \in DOMAIN s /\ i + 1 # 1 /\ Tail(s)[i] = s[i + 1]
OBVIOUS

\* The indices of a sequence are positive.
LEMMA DomainFacts ==
    ASSUME NEW S, NEW s \in Seq(S)
    PROVE  DOMAIN s \subseteq Nat \ {0} /\ \A i \in DOMAIN s : s[i] \in S
OBVIOUS

\* What it is with one element replaced.
LEMMA UpdateFacts ==
    ASSUME NEW S, NEW s \in Seq(S), NEW i \in DOMAIN s, NEW e \in S
    PROVE  LET t == [s EXCEPT ![i] = e] IN
           /\ t \in Seq(S)
           /\ DOMAIN t = DOMAIN s
           /\ t[i] = e
           /\ \A j \in DOMAIN s : j # i => t[j] = s[j]
OBVIOUS

\* An order's status changes and nothing else of the book.
LEMMA StatusFacts ==
    ASSUME NEW book \in Seq(Order), NEW o \in DOMAIN book, NEW s \in {"pending", "sold", "off"},
           NEW new, new = [book EXCEPT ![o].status = s]
    PROVE  /\ new \in Seq(Order)
           /\ DOMAIN new = DOMAIN book
           /\ new[o] = [book[o] EXCEPT !.status = s]
           /\ \A i \in DOMAIN book : i # o => new[i] = book[i]
<1>1. book[o] \in Order
    OBVIOUS
<1>2. [book[o] EXCEPT !.status = s] \in Order
    BY <1>1 DEF Order
<1>3. new = [book EXCEPT ![o] = [book[o] EXCEPT !.status = s]]
    OBVIOUS
<1> QED
    BY <1>2, <1>3, UpdateFacts

\* The same for the status of its record.
LEMMA RecordFacts ==
    ASSUME NEW book \in Seq(Order), NEW o \in DOMAIN book, NEW s \in {"none", "listed", "sold", "off"},
           NEW new, new = [book EXCEPT ![o].record = s]
    PROVE  /\ new \in Seq(Order)
           /\ DOMAIN new = DOMAIN book
           /\ new[o] = [book[o] EXCEPT !.record = s]
           /\ \A i \in DOMAIN book : i # o => new[i] = book[i]
<1>1. book[o] \in Order
    OBVIOUS
<1>2. [book[o] EXCEPT !.record = s] \in Order
    BY <1>1 DEF Order
<1>3. new = [book EXCEPT ![o] = [book[o] EXCEPT !.record = s]]
    OBVIOUS
<1> QED
    BY <1>2, <1>3, UpdateFacts

-----------------------------------------------------------------------------
(* Who talks to whom. *)

\* The module takes the head of its mailbox and answers it.
LEMMA AnswerTalk ==
    ASSUME TalkInv, BookInv, inbox # <<>>, orders' \in Seq(Order), DOMAIN orders \subseteq DOMAIN orders',
           UNCHANGED <<handler, stock>>, inbox' = Tail(inbox),
           NEW n \in DOMAIN orders' \cup {0}, call' = Answered(Head(inbox), n),
           Head(inbox).fn = "CreateOrder" \/ n \in {0, Head(inbox).id}
    PROVE  TalkInv'
<1> DEFINE r == Head(inbox)
<1>1. /\ r \in Request /\ r = inbox[1] /\ 1 \in DOMAIN inbox
      /\ inbox' \in Seq(Request)
      /\ \A i \in DOMAIN inbox' : i + 1 \in DOMAIN inbox /\ i + 1 # 1 /\ inbox'[i] = inbox[i + 1]
    BY TailFacts DEF TalkInv
<1>2. n \in Nat /\ r.by \in Player /\ \A i \in DOMAIN inbox : inbox[i] \in Request
    <2>1. n \in Nat
        BY DomainFacts
    <2>2. \A i \in DOMAIN inbox : inbox[i] \in Request
        BY DomainFacts DEF TalkInv
    <2> QED
        BY <1>1, <2>1, <2>2 DEF Request
<1>3. call' \in [Player -> [st : {"none", "waiting", "done"}, id : Nat]]
    BY <1>2 DEF Answered, TalkInv
<1>4. RequestsAreSound'
    BY <1>1 DEF TalkInv, RequestsAreSound
<1>5. r.open => /\ call'[r.by] = [st |-> "done", id |-> n]
                /\ call[r.by].st = "waiting"
                /\ <<handler[r.by].step, r.fn>> \in Awaits
                /\ r.fn = "CreateOrder" \/ r.id = handler[r.by].id
    BY <1>1, <1>2 DEF Answered, TalkInv, OpenIsAwaited
<1>6. \A q \in Player : ~r.open \/ q # r.by => call'[q] = call[q]
    BY <1>2 DEF Answered, TalkInv
<1>7. OpenIsAwaited'
    <2> SUFFICES ASSUME NEW i \in DOMAIN inbox', inbox'[i].open
                 PROVE  LET s == inbox'[i]  h == handler[s.by] IN
                        /\ \A j \in DOMAIN inbox' : inbox'[j].open /\ inbox'[j].by = s.by => i = j
                        /\ call'[s.by].st = "waiting"
                        /\ <<h.step, s.fn>> \in Awaits
                        /\ IF s.fn = "CreateOrder" THEN stock[s.by][KindOf[s.order.good]] = s.order.good
                           ELSE s.id = h.id
        BY DEF OpenIsAwaited
    <2>1. i \in Nat /\ \A j \in DOMAIN inbox' : j \in Nat
        BY <1>1, DomainFacts
    <2>2. inbox'[i] = inbox[i + 1] /\ inbox[i + 1].by \in Player
        BY <1>1, <1>2 DEF Request
    <2>3. ~r.open \/ inbox[i + 1].by # r.by
        BY <1>1, <2>2 DEF TalkInv, OpenIsAwaited
    <2>4. call'[inbox'[i].by] = call[inbox'[i].by]
        BY <1>6, <2>2, <2>3
    <2>5. ASSUME NEW j \in DOMAIN inbox', inbox'[j].open, inbox'[j].by = inbox'[i].by
          PROVE  i + 1 = j + 1
        <3>1. /\ i + 1 \in DOMAIN inbox /\ inbox[i + 1].open
              /\ j + 1 \in DOMAIN inbox /\ inbox[j + 1].open /\ inbox[j + 1].by = inbox[i + 1].by
            BY <1>1, <2>5
        <3> QED
            BY <3>1 DEF TalkInv, OpenIsAwaited
    <2> QED
        BY <1>1, <2>1, <2>2, <2>4, <2>5 DEF TalkInv, OpenIsAwaited
<1>8. HandlersAreSound'
    <2> SUFFICES ASSUME NEW p \in Player
                 PROVE  LET h == handler[p]  c == call'[p] IN
                        /\ c.st = "none" <=> h.step \notin Blocked
                        /\ c.st # "done" => c.id = 0
                        /\ h.step \notin {"idle", "create"} => h.id \in DOMAIN orders'
                        /\ c.id # 0 => c.id \in DOMAIN orders' /\ (h.step # "create" => c.id = h.id)
        BY DEF HandlersAreSound
    <2>1. CASE r.open /\ p = r.by
        BY <1>5, <2>1 DEF TalkInv, HandlersAreSound, Awaits, Blocked
    <2>2. CASE ~(r.open /\ p = r.by)
        BY <1>6, <2>2 DEF TalkInv, HandlersAreSound
    <2> QED
        BY <2>1, <2>2
<1> QED
    BY <1>1, <1>3, <1>4, <1>7, <1>8 DEF TalkInv

\* A player who waits for nothing calls.
LEMMA CallsTalk ==
    ASSUME TalkInv, BookInv, UNCHANGED orders, NEW p \in Player, call[p].st # "waiting",
           \A q \in Player \ {p} : stock'[q] = stock[q],
           NEW fn, NEW step, <<step, fn>> \in Awaits,
           NEW id \in DOMAIN orders \cup {0}, NEW order \in Order \cup {NoOrder},
           Calls(p, fn, id, order), Blocks(p, step, id),
           IF fn = "CreateOrder"
           THEN /\ order \in Order /\ order.seller = p
                /\ order.status = "pending" /\ order.record = "none"
                /\ stock'[p][KindOf[order.good]] = order.good
           ELSE id # 0
    PROVE  TalkInv'
<1> DEFINE r == [fn |-> fn, by |-> p, id |-> id, order |-> order, open |-> TRUE]
           n == Len(inbox) + 1
<1>1. id \in Nat
    BY DomainFacts DEF BookInv
<1>2. /\ fn \in {"CreateOrder", "addTransactionRecord", "ProcessOrder", "CancelOrder"}
      /\ step \in {"create", "record", "buy", "cancel"}
      /\ fn = "CreateOrder" <=> step = "create"
    BY DEF Awaits
<1>3. r \in Request
    BY <1>1, <1>2, Zenon DEF Request
<1>4. inbox' = Append(inbox, r)
    BY DEF Calls
<1>5. /\ inbox' \in Seq(Request)
      /\ n \notin DOMAIN inbox
      /\ DOMAIN inbox' = DOMAIN inbox \cup {n}
      /\ \A i \in DOMAIN inbox : inbox'[i] = inbox[i]
      /\ inbox'[n] = r
      /\ r.fn = fn /\ r.by = p /\ r.id = id /\ r.order = order /\ r.open
    BY <1>3, <1>4, AppendFacts DEF TalkInv
<1>6. /\ call' \in [Player -> [st : {"none", "waiting", "done"}, id : Nat]]
      /\ handler' \in [Player -> [step : {"idle", "create", "record", "buy", "cancel", "markSold", "markOff"},
                                  id : Nat]]
      /\ call'[p] = [st |-> "waiting", id |-> 0] /\ handler'[p] = [step |-> step, id |-> id]
      /\ \A q \in Player \ {p} : call'[q] = call[q] /\ handler'[q] = handler[q]
    BY <1>1, <1>2 DEF Calls, Blocks, TalkInv
<1> HIDE DEF r, n
<1>7. RequestsAreSound'
    BY <1>5 DEF TalkInv, RequestsAreSound
<1>8. \A i \in DOMAIN inbox : inbox[i].by \in Player /\ (inbox[i].open => inbox[i].by # p)
    <2>1. \A i \in DOMAIN inbox : inbox[i] \in Request
        BY DomainFacts DEF TalkInv
    <2> QED
        BY <2>1 DEF TalkInv, OpenIsAwaited, Request
<1>9. OpenIsAwaited'
    <2> SUFFICES ASSUME NEW i \in DOMAIN inbox', inbox'[i].open
                 PROVE  LET s == inbox'[i]  h == handler'[s.by] IN
                        /\ \A j \in DOMAIN inbox' : inbox'[j].open /\ inbox'[j].by = s.by => i = j
                        /\ call'[s.by].st = "waiting"
                        /\ <<h.step, s.fn>> \in Awaits
                        /\ IF s.fn = "CreateOrder" THEN stock'[s.by][KindOf[s.order.good]] = s.order.good
                           ELSE s.id = h.id
        BY DEF OpenIsAwaited
    <2>1. CASE i = n
        <3>1. \A j \in DOMAIN inbox' : inbox'[j].open /\ inbox'[j].by = p => j = n
            BY <1>5, <1>8
        <3>2. /\ inbox'[i].fn = fn /\ inbox'[i].by = p
              /\ inbox'[i].id = id /\ inbox'[i].order = order
            BY <1>5, <2>1
        <3>3. call'[p].st = "waiting" /\ handler'[p].step = step /\ handler'[p].id = id
            BY <1>6
        <3> QED
            BY <2>1, <3>1, <3>2, <3>3
    <2>2. CASE i \in DOMAIN inbox
        <3>1. inbox'[i] = inbox[i] /\ inbox[i].by \in Player \ {p} /\ inbox[i].open
            BY <1>5, <1>8, <2>2
        <3>2. /\ \A j \in DOMAIN inbox : inbox[j].open /\ inbox[j].by = inbox[i].by => i = j
              /\ call[inbox[i].by].st = "waiting"
              /\ <<handler[inbox[i].by].step, inbox[i].fn>> \in Awaits
              /\ IF inbox[i].fn = "CreateOrder"
                 THEN stock[inbox[i].by][KindOf[inbox[i].order.good]] = inbox[i].order.good
                 ELSE inbox[i].id = handler[inbox[i].by].id
            BY <2>2, <3>1 DEF TalkInv, OpenIsAwaited
        <3>3. \A j \in DOMAIN inbox' : inbox'[j].open /\ inbox'[j].by = inbox[i].by => i = j
            BY <1>5, <3>1, <3>2
        <3> QED
            BY <1>6, <3>1, <3>2, <3>3
    <2> QED
        BY <1>5, <2>1, <2>2
<1>10. HandlersAreSound'
    <2>1. /\ step \in Blocked /\ (step # "create" => id \in DOMAIN orders)
          /\ DOMAIN orders' = DOMAIN orders
        BY <1>2 DEF Blocked
    <2>2. /\ call'[p].st = "waiting" /\ call'[p].id = 0
          /\ handler'[p].step = step /\ handler'[p].id = id
          /\ \A q \in Player : q = p \/ (call'[q] = call[q] /\ handler'[q] = handler[q])
        BY <1>6
    <2> QED
        BY <2>1, <2>2 DEF TalkInv, HandlersAreSound
<1> QED
    BY <1>5, <1>6, <1>7, <1>9, <1>10 DEF TalkInv

\* A player who waits for nothing does no call.
LEMMA RestTalk ==
    ASSUME TalkInv, DOMAIN orders \subseteq DOMAIN orders', UNCHANGED inbox,
           NEW p \in Player, call[p].st # "waiting",
           \A q \in Player \ {p} : stock'[q] = stock[q],
           call' = [call EXCEPT ![p] = [st |-> "none", id |-> 0]],
           NEW step \in {"idle", "markSold", "markOff"}, NEW id \in Nat, Blocks(p, step, id),
           step = "idle" \/ id \in DOMAIN orders
    PROVE  TalkInv'
<1>1. /\ call' \in [Player -> [st : {"none", "waiting", "done"}, id : Nat]]
      /\ handler' \in [Player -> [step : {"idle", "create", "record", "buy", "cancel", "markSold", "markOff"},
                                  id : Nat]]
      /\ call'[p] = [st |-> "none", id |-> 0] /\ handler'[p] = [step |-> step, id |-> id]
      /\ \A q \in Player \ {p} : call'[q] = call[q] /\ handler'[q] = handler[q]
    BY DEF Blocks, TalkInv
<1>2. RequestsAreSound'
    BY DEF TalkInv, RequestsAreSound
<1>3. \A i \in DOMAIN inbox : inbox[i].by \in Player /\ (inbox[i].open => inbox[i].by # p)
    <2>1. \A i \in DOMAIN inbox : inbox[i] \in Request
        BY DomainFacts DEF TalkInv
    <2> QED
        BY <2>1 DEF TalkInv, OpenIsAwaited, Request
<1>4. OpenIsAwaited'
    <2>1. \A i \in DOMAIN inbox : inbox[i].open =>
              /\ call'[inbox[i].by] = call[inbox[i].by]
              /\ handler'[inbox[i].by] = handler[inbox[i].by]
              /\ stock'[inbox[i].by] = stock[inbox[i].by]
        BY <1>1, <1>3
    <2> QED
        BY <2>1 DEF TalkInv, OpenIsAwaited
<1>5. HandlersAreSound'
    BY <1>1 DEF TalkInv, HandlersAreSound, Blocked
<1> QED
    BY <1>1, <1>2, <1>4, <1>5 DEF TalkInv

\* A player gives up on a call: the request stays and is nobody's any more.
LEMMA TimeoutTalk ==
    ASSUME TalkInv, NEW p \in Player, CallTimeout(p), UNCHANGED <<handler, stock>>
    PROVE  TalkInv'
<1>1. /\ call' \in [Player -> [st : {"none", "waiting", "done"}, id : Nat]]
      /\ call'[p].st = "done" /\ call'[p].id = call[p].id /\ call[p].st = "waiting"
      /\ \A q \in Player \ {p} : call'[q] = call[q]
    BY DEF CallTimeout, TalkInv
<1>2. \A i \in DOMAIN inbox : inbox[i] \in Request
    BY DomainFacts DEF TalkInv
<1>3. /\ DOMAIN inbox' = DOMAIN inbox
      /\ \A i \in DOMAIN inbox :
            inbox'[i] = IF inbox[i].by = p THEN [inbox[i] EXCEPT !.open = FALSE] ELSE inbox[i]
    BY DEF CallTimeout
<1>4. \A i \in DOMAIN inbox :
          /\ inbox'[i].fn = inbox[i].fn /\ inbox'[i].by = inbox[i].by
          /\ inbox'[i].id = inbox[i].id /\ inbox'[i].order = inbox[i].order
          /\ inbox'[i].open => inbox[i].open /\ inbox[i].by # p
          /\ inbox'[i] \in Request
    BY <1>2, <1>3, Zenon DEF Request
<1>5. inbox' \in Seq(Request)
    <2>1. inbox \in Seq(Request) /\ inbox' = [i \in DOMAIN inbox |-> inbox'[i]]
        BY <1>3 DEF TalkInv, CallTimeout
    <2> QED
        BY <1>4, <2>1
<1>6. RequestsAreSound'
    BY <1>3, <1>4 DEF TalkInv, RequestsAreSound, CallTimeout
<1>7. OpenIsAwaited'
    BY <1>1, <1>2, <1>3, <1>4 DEF TalkInv, OpenIsAwaited, Request
<1>8. HandlersAreSound'
    BY <1>1 DEF TalkInv, HandlersAreSound, Blocked, CallTimeout
<1> QED
    BY <1>1, <1>5, <1>6, <1>7, <1>8 DEF TalkInv

-----------------------------------------------------------------------------
(* Where goods are. *)

Stays(g) == Places(g)' = Places(g)
Moves(g, x, y) == x \in Places(g) /\ Places(g)' = (Places(g) \ {x}) \cup {y}

\* Orphans stay orphans, and what is destroyed stays destroyed.
OrphansStay ==
    /\ bornOrphan \subseteq bornOrphan' /\ endedOrphan \subseteq endedOrphan'
    /\ destroyed \subseteq destroyed'
    /\ \A o \in DOMAIN orders : o \in DOMAIN orders' /\ orders'[o].good = orders[o].good

\* A good is not forked and not lost by a step that leaves it where it is, moves it
\* to one other place, makes an orphan of its order, or destroys it.
LEMMA GoodStep ==
    ASSUME GoodsInv, BookInv, OrphansStay,
           \A g \in Good :
              \/ Stays(g)
              \/ \E x, y : Moves(g, x, y)
              \/ Orphaned(bornOrphan, g)' /\ Places(g) \subseteq Places(g)'
              \/ /\ Orphaned(endedOrphan, g)' \/ g \in destroyed'
                 /\ Places(g)' \subseteq Places(g)
    PROVE  GoodsInv'
<1> SUFFICES ASSUME NEW g \in Good
             PROVE  /\ \A x, y \in Places(g)' : x = y \/ Orphaned(bornOrphan, g)'
                    /\ g \notin destroyed' => Places(g)' # {} \/ Orphaned(endedOrphan, g)'
    BY DEF GoodsInv, NotForked, NotLost
<1>1. /\ \A x, y \in Places(g) : x = y \/ Orphaned(bornOrphan, g)
      /\ g \notin destroyed => Places(g) # {} \/ Orphaned(endedOrphan, g)
    BY DEF GoodsInv, NotForked, NotLost
<1>2. /\ Orphaned(bornOrphan, g) => Orphaned(bornOrphan, g)'
      /\ Orphaned(endedOrphan, g) => Orphaned(endedOrphan, g)'
    BY DEF Orphaned, OrphansStay, BookInv
<1>3. g \in destroyed => g \in destroyed'
    BY DEF OrphansStay
<1>4. CASE Stays(g)
    BY <1>1, <1>2, <1>3, <1>4 DEF Stays
<1>5. CASE \E x, y : Moves(g, x, y)
    <2>1. PICK x, y : Moves(g, x, y)
        BY <1>5
    <2>2. y \in Places(g)' /\ \A z \in Places(g)' : z = y \/ z \in Places(g) \ {x}
        BY <2>1 DEF Moves
    <2>3. Orphaned(bornOrphan, g) \/ \A z \in Places(g) : z = x
        BY <1>1, <2>1 DEF Moves
    <2> QED
        BY <1>2, <2>2, <2>3
<1>6. CASE Orphaned(bornOrphan, g)' /\ Places(g) \subseteq Places(g)'
    BY <1>1, <1>2, <1>3, <1>6
<1>7. CASE /\ Orphaned(endedOrphan, g)' \/ g \in destroyed'
           /\ Places(g)' \subseteq Places(g)
    BY <1>1, <1>2, <1>7
<1> QED
    BY <1>4, <1>5, <1>6, <1>7

\* A good stays where the stock stays, its orders stay, and nobody is told of them.
LEMMA PlacesStay ==
    ASSUME UNCHANGED stock, DOMAIN orders' = DOMAIN orders,
           \A o \in DOMAIN orders :
              /\ orders'[o].good = orders[o].good /\ orders'[o].status = orders[o].status
              /\ \A p \in Player : /\ StillSelling(p, o)' <=> StillSelling(p, o)
                                   /\ Taking(p, o)' <=> Taking(p, o),
           NEW g
    PROVE  Stays(g)
<1>1. Stocked(g)' = Stocked(g)
    BY DEF Stocked
<1>2. Offered(g)' = Offered(g)
    BY DEF Offered
<1>3. OnTheWay(g)' = OnTheWay(g)
    BY DEF OnTheWay
<1> QED
    BY <1>1, <1>2, <1>3 DEF Stays, Places

\* The three sorts of places do not overlap.
LEMMA PlaceFacts ==
    ASSUME NEW g
    PROVE  \A a : /\ <<"stock", a>> \in Places(g) <=> a \in Stocked(g)
                  /\ <<"order", a>> \in Places(g) <=> a \in Offered(g)
                  /\ <<"way", a>> \in Places(g) <=> a \in OnTheWay(g)
BY DEF Places

\* A good that leaves the stock of p for order o.
LEMMA GoesOnSale ==
    ASSUME NEW g, NEW p \in Stocked(g), NEW o,
           Stocked(g)' = Stocked(g) \ {p}, Offered(g)' = Offered(g) \cup {o},
           OnTheWay(g)' = OnTheWay(g)
    PROVE  Moves(g, <<"stock", p>>, <<"order", o>>)
BY DEF Moves, Places

\* A good that leaves order o and is on its way to p.
LEMMA GoesToTaker ==
    ASSUME NEW g, NEW p, NEW o \in Offered(g),
           Stocked(g)' = Stocked(g), Offered(g)' = Offered(g) \ {o},
           OnTheWay(g)' = OnTheWay(g) \cup {p}
    PROVE  Moves(g, <<"order", o>>, <<"way", p>>)
BY DEF Moves, Places

\* A good that arrives at p.
LEMMA Arrives ==
    ASSUME NEW g, NEW p \in OnTheWay(g),
           Stocked(g)' = Stocked(g) \cup {p}, Offered(g)' = Offered(g),
           OnTheWay(g)' = OnTheWay(g) \ {p}
    PROVE  Moves(g, <<"way", p>>, <<"stock", p>>)
BY DEF Moves, Places

-----------------------------------------------------------------------------
(* The steps of the transaction module. *)

\* A request that is open is its player's only call, and the player is blocked on it.
LEMMA HeadFacts ==
    ASSUME TalkInv, inbox # <<>>
    PROVE  LET r == Head(inbox) IN
           /\ r \in Request /\ r.by \in Player
           /\ IF r.fn = "CreateOrder"
              THEN r.order \in Order /\ r.order.seller = r.by
                   /\ r.order.status = "pending" /\ r.order.record = "none"
              ELSE r.id \in DOMAIN orders
           /\ r.open => /\ call[r.by].st = "waiting" /\ call[r.by].id = 0
                        /\ <<handler[r.by].step, r.fn>> \in Awaits
                        /\ IF r.fn = "CreateOrder"
                           THEN stock[r.by][KindOf[r.order.good]] = r.order.good
                           ELSE r.id = handler[r.by].id
<1>1. Head(inbox) \in Request /\ 1 \in DOMAIN inbox /\ Head(inbox) = inbox[1]
    BY TailFacts DEF TalkInv
<1>2. Head(inbox).by \in Player
    BY <1>1 DEF Request
<1>3. IF Head(inbox).fn = "CreateOrder"
      THEN Head(inbox).order \in Order /\ Head(inbox).order.seller = Head(inbox).by
           /\ Head(inbox).order.status = "pending" /\ Head(inbox).order.record = "none"
      ELSE Head(inbox).id \in DOMAIN orders
    BY <1>1 DEF TalkInv, RequestsAreSound
<1>4. Head(inbox).open =>
          LET r == Head(inbox) IN
          /\ call[r.by].st = "waiting"
          /\ <<handler[r.by].step, r.fn>> \in Awaits
          /\ IF r.fn = "CreateOrder" THEN stock[r.by][KindOf[r.order.good]] = r.order.good
             ELSE r.id = handler[r.by].id
    BY <1>1 DEF TalkInv, OpenIsAwaited
<1>5. Head(inbox).open => call[Head(inbox).by].id = 0
    BY <1>2, <1>4 DEF TalkInv, HandlersAreSound
<1> QED
    BY <1>1, <1>2, <1>3, <1>4, <1>5

\* The answer reaches the caller, if there is one, and nobody else.
LEMMA AnswerFacts ==
    ASSUME TalkInv, inbox # <<>>, NEW n, call' = Answered(Head(inbox), n)
    PROVE  LET r == Head(inbox) IN
           /\ r.open => call'[r.by] = [st |-> "done", id |-> n]
           /\ \A q \in Player : ~r.open \/ q # r.by => call'[q] = call[q]
BY HeadFacts DEF Answered, TalkInv

\* An order that is made.
LEMMA CreateOrderInv ==
    ASSUME MarketInv, CreateOrder, UNCHANGED traderVars
    PROVE  MarketInv'
<1> PICK r : r = Head(inbox)
    OBVIOUS
<1> PICK n : n = Len(orders) + 1
    OBVIOUS
<1>1. TalkInv /\ BookInv /\ StockInv /\ MoneyInv /\ GoodsInv /\ inbox # <<>> /\ r.fn = "CreateOrder"
    BY Parts DEF CreateOrder, Takes
<1>2. UNCHANGED <<stock, purse, handler, post, reqs, destroyed, endedOrphan>>
    BY DEF traderVars, CreateOrder
<1>3. /\ r.by \in Player /\ r.order \in Order /\ r.order.seller = r.by
      /\ r.order.status = "pending" /\ r.order.record = "none"
      /\ r.open => /\ call[r.by].st = "waiting" /\ handler[r.by].step = "create"
                   /\ stock[r.by][KindOf[r.order.good]] = r.order.good
    BY <1>1, HeadFacts DEF Awaits
<1>4. /\ orders' \in Seq(Order)
      /\ n \in Nat /\ n # 0 /\ n \notin DOMAIN orders /\ n \in DOMAIN orders'
      /\ DOMAIN orders' = DOMAIN orders \cup {n}
      /\ \A o \in DOMAIN orders : orders'[o] = orders[o]
      /\ orders'[n] = r.order
    <2>1. orders \in Seq(Order) /\ orders' = Append(orders, r.order)
        BY <1>1 DEF BookInv, CreateOrder
    <2> QED
        BY <1>3, <2>1, AppendFacts
<1>5. /\ inbox' = Tail(inbox) /\ call' = Answered(r, n)
      /\ bornOrphan' = bornOrphan \cup IF r.open THEN {} ELSE {n}
    BY DEF CreateOrder
<1>6. /\ r.open => call'[r.by] = [st |-> "done", id |-> n]
      /\ \A q \in Player : ~r.open \/ q # r.by => call'[q] = call[q]
    BY <1>1, <1>5, AnswerFacts
<1>7. TalkInv'
    BY <1>1, <1>2, <1>4, <1>5, AnswerTalk
<1>8. \A p \in Player, o \in DOMAIN orders :
          /\ StillSelling(p, o)' <=> StillSelling(p, o)
          /\ Taking(p, o)' <=> Taking(p, o)
    BY <1>2, <1>3, <1>4, <1>6 DEF StillSelling, Taking
<1>9. \A p \in Player : /\ StillSelling(p, n)' <=> r.open /\ p = r.by
                        /\ ~Taking(p, n)'
    BY <1>1, <1>2, <1>3, <1>4, <1>6 DEF StillSelling, Taking, TalkInv, HandlersAreSound
<1>10. BookInv'
    <2>1. EndedAsTold'
        <3>1. \A p \in Player : handler[p].step # "create" => call'[p].id = call[p].id
            BY <1>3, <1>6
        <3>2. \A p \in Player : handler[p].step \notin {"idle", "create"} =>
                  orders'[handler[p].id] = orders[handler[p].id]
            BY <1>1, <1>4 DEF TalkInv, HandlersAreSound
        <3> QED
            BY <1>1, <1>2, <3>1, <3>2 DEF BookInv, EndedAsTold
    <2>2. RecordIsTrue'
        BY <1>1, <1>3, <1>4 DEF BookInv, RecordIsTrue
    <2> QED
        BY <1>1, <1>2, <1>4, <1>5, <2>1, <2>2 DEF BookInv
<1>11. StockInv'
    <2>1. ListedIsHeld'
        BY <1>1, <1>2, <1>3, <1>4, <1>8, <1>9 DEF StockInv, ListedIsHeld
    <2> QED
        BY <1>1, <1>2, <2>1 DEF StockInv, KindsInPlace
<1>12. MoneyInv'
    <2>1. BuyerCanPay'
        BY <1>1, <1>2, <1>4 DEF MoneyInv, BuyerCanPay, TalkInv, HandlersAreSound
    <2>2. PaidOnce'
        BY <1>1, <1>2, <1>4 DEF MoneyInv, PaidOnce
    <2>3. BuyerIsAlone'
        <3>1. \A p \in Player : handler'[p].step = "buy" => call'[p].id = call[p].id
            BY <1>2, <1>3, <1>6
        <3>2. \A p \in Player : handler[p].step = "buy" => call[p].id # n
            BY <1>1, <1>4 DEF TalkInv, HandlersAreSound
        <3> QED
            BY <1>1, <1>2, <1>4, <3>1, <3>2 DEF MoneyInv, BuyerIsAlone
    <2> QED
        BY <1>1, <1>2, <2>1, <2>2, <2>3 DEF MoneyInv
<1>13. OrphansStay
    BY <1>2, <1>4, <1>5 DEF OrphansStay
<1>14. ASSUME NEW g \in Good
       PROVE  /\ Offered(g)' = IF g = r.order.good THEN Offered(g) \cup {n} ELSE Offered(g)
              /\ OnTheWay(g)' = OnTheWay(g)
              /\ Stocked(g)' = IF r.open /\ g = r.order.good THEN Stocked(g) \ {r.by} ELSE Stocked(g)
    <2>1. Offered(g)' = IF g = r.order.good THEN Offered(g) \cup {n} ELSE Offered(g)
        BY <1>3, <1>4 DEF Offered
    <2>2. OnTheWay(g)' = OnTheWay(g)
        BY <1>4, <1>8, <1>9 DEF OnTheWay
    <2>3. Stocked(g)' = IF r.open /\ g = r.order.good THEN Stocked(g) \ {r.by} ELSE Stocked(g)
        BY <1>2, <1>4, <1>8, <1>9 DEF Stocked
    <2> QED
        BY <2>1, <2>2, <2>3
<1>15. ASSUME NEW g \in Good, g # r.order.good
       PROVE  Stays(g)
    BY <1>14, <1>15 DEF Stays, Places
<1>16. CASE r.open
    <2> PICK g : g = r.order.good
        OBVIOUS
    <2>1. g \in Good /\ r.by \in Stocked(g)
        BY <1>3, <1>16 DEF Order, Stocked, StillSelling
    <2>2. Moves(g, <<"stock", r.by>>, <<"order", n>>)
        BY <1>14, <1>16, <2>1, GoesOnSale
    <2>3. GoodsInv'
        BY <1>1, <1>13, <1>15, <2>2, GoodStep
    <2> QED
        BY <1>7, <1>10, <1>11, <1>12, <2>3, PartsNext
<1>17. CASE ~r.open
    <2> PICK g : g = r.order.good
        OBVIOUS
    <2>1. g \in Good
        BY <1>3 DEF Order
    <2>2. Orphaned(bornOrphan, g)'
        BY <1>4, <1>5, <1>17 DEF Orphaned
    <2>3. Places(g) \subseteq Places(g)'
        BY <1>14, <1>17, <2>1 DEF Places
    <2>4. GoodsInv'
        BY <1>1, <1>13, <1>15, <2>2, <2>3, GoodStep
    <2> QED
        BY <1>7, <1>10, <1>11, <1>12, <2>4, PartsNext
<1> QED
    BY <1>16, <1>17

\* A request to end an order that is granted.
LEMMA EndsGranted ==
    ASSUME MarketInv, UNCHANGED traderVars, inbox # <<>>, NEW r, r = Head(inbox),
           r.fn \in {"ProcessOrder", "CancelOrder"}, Pending(r.id),
           Ends(r, TRUE, IF r.fn = "ProcessOrder" THEN "sold" ELSE "off")
    PROVE  MarketInv'
<1> PICK status \in {"sold", "off"} : status = IF r.fn = "ProcessOrder" THEN "sold" ELSE "off"
    OBVIOUS
<1> PICK n : n = r.id
    OBVIOUS
<1>1. TalkInv /\ BookInv /\ StockInv /\ MoneyInv /\ GoodsInv
    BY Parts
<1>2. UNCHANGED <<stock, purse, handler, post, reqs, destroyed, bornOrphan>>
    BY DEF traderVars, Ends
<1>3. /\ r.by \in Player /\ n \in DOMAIN orders /\ orders[n].status = "pending"
      /\ r.open => /\ call[r.by].st = "waiting" /\ call[r.by].id = 0
                   /\ handler[r.by].id = n
                   /\ handler[r.by].step = IF status = "sold" THEN "buy" ELSE "cancel"
    BY <1>1, HeadFacts DEF Awaits, Pending
<1>4. /\ orders \in Seq(Order) /\ orders' = [orders EXCEPT ![n].status = status]
      /\ inbox' = Tail(inbox) /\ call' = Answered(r, n)
      /\ endedOrphan' = endedOrphan \cup IF ~r.open THEN {n} ELSE {}
    BY <1>1 DEF Ends, BookInv
<1>5. /\ orders' \in Seq(Order) /\ DOMAIN orders' = DOMAIN orders
      /\ orders'[n] = [orders[n] EXCEPT !.status = status]
      /\ \A o \in DOMAIN orders : o # n => orders'[o] = orders[o]
    BY <1>3, <1>4, StatusFacts
<1>6. /\ orders[n] \in Order /\ n \in Nat /\ n # 0
      /\ orders'[n].status = status
      /\ \A o \in DOMAIN orders : /\ orders'[o].seller = orders[o].seller
                                  /\ orders'[o].good = orders[o].good
                                  /\ orders'[o].price = orders[o].price
                                  /\ orders'[o].record = orders[o].record
    <2>1. orders[n] \in Order /\ n \in Nat /\ n # 0
        BY <1>3, <1>4, DomainFacts
    <2> QED
        BY <1>3, <1>5, <2>1 DEF Order
<1>7. /\ r.open => call'[r.by] = [st |-> "done", id |-> n]
      /\ \A q \in Player : ~r.open \/ q # r.by => call'[q] = call[q]
    BY <1>1, <1>4, AnswerFacts
<1>8. TalkInv'
    BY <1>1, <1>2, <1>3, <1>4, <1>5, AnswerTalk
<1>9. \A p \in Player : \A o \in DOMAIN orders :
          /\ StillSelling(p, o)' <=> StillSelling(p, o)
          /\ Taking(p, o)' <=> Taking(p, o) \/ (r.open /\ p = r.by /\ o = n)
    BY <1>2, <1>3, <1>6, <1>7 DEF StillSelling, Taking
<1>10. \A p \in Player : handler[p].step \notin {"idle", "create"} => handler[p].id \in DOMAIN orders
    BY <1>1 DEF TalkInv, HandlersAreSound
<1>11. BookInv'
    <2>1. EndedAsTold'
        <3> SUFFICES ASSUME NEW p \in Player
                     PROVE  LET o == handler[p].id IN
                        /\ handler[p].step = "buy" /\ call'[p].id # 0 => orders'[o].status = "sold"
                        /\ handler[p].step = "cancel" /\ call'[p].id # 0 => orders'[o].status = "off"
                        /\ handler[p].step = "markSold" => orders'[o].status = "sold"
                        /\ handler[p].step = "markOff" => orders'[o].status = "off"
            BY <1>2 DEF EndedAsTold
        <3>1. CASE r.open /\ p = r.by
            BY <1>3, <1>6, <3>1
        <3>2. CASE ~(r.open /\ p = r.by)
            BY <1>1, <1>3, <1>5, <1>7, <1>10, <3>2 DEF BookInv, EndedAsTold
        <3> QED
            BY <3>1, <3>2
    <2>2. RecordIsTrue'
        <3>1. orders[n].record # "pending"
            BY <1>6 DEF Order
        <3> QED
            BY <1>1, <1>3, <1>5, <1>6, <3>1 DEF BookInv, RecordIsTrue
    <2> QED
        BY <1>1, <1>2, <1>3, <1>4, <1>5, <2>1, <2>2 DEF BookInv
<1>12. StockInv'
    BY <1>1, <1>2, <1>5, <1>6, <1>9 DEF StockInv, KindsInPlace, ListedIsHeld
<1>13. \A i \in DOMAIN post : post[i].amount > 0 => post[i].order # n
    BY <1>1, <1>3 DEF MoneyInv, PaidOnce
<1>14. MoneyInv'
    <2>1. BuyerCanPay'
        BY <1>1, <1>2, <1>6, <1>10 DEF MoneyInv, BuyerCanPay
    <2>2. PaidOnce'
        BY <1>1, <1>2, <1>5, <1>6, <1>13 DEF MoneyInv, PaidOnce
    <2>3. BuyerIsAlone'
        <3>1. \A q \in Player : handler[q].step = "buy" => call[q].id # n
            BY <1>1, <1>3, <1>6 DEF TalkInv, HandlersAreSound, BookInv, EndedAsTold
        <3>2. \A q \in Player : call'[q].id = call[q].id \/ (q = r.by /\ call'[q].id = n)
            BY <1>7
        <3> QED
            BY <1>1, <1>2, <1>5, <1>13, <3>1, <3>2 DEF MoneyInv, BuyerIsAlone
    <2> QED
        BY <1>1, <1>2, <2>1, <2>2, <2>3 DEF MoneyInv
<1>15. OrphansStay
    BY <1>2, <1>4, <1>5, <1>6 DEF OrphansStay
<1> PICK sold : sold = orders[n].good
    OBVIOUS
<1>16. sold \in Good /\ n \in Offered(sold)
    BY <1>3, <1>6 DEF Order, Offered
<1>17. ASSUME NEW g \in Good
       PROVE  /\ Stocked(g)' = Stocked(g)
              /\ Offered(g)' = Offered(g) \ {n}
              /\ OnTheWay(g)' = IF r.open /\ g = sold THEN OnTheWay(g) \cup {r.by} ELSE OnTheWay(g)
    <2>1. Stocked(g)' = Stocked(g)
        BY <1>2, <1>5, <1>6, <1>9 DEF Stocked
    <2>2. Offered(g)' = Offered(g) \ {n}
        <3>1. orders'[n].status # "pending"
            BY <1>6
        <3>2. \A o \in DOMAIN orders' :
                  orders'[o].status = "pending" <=> orders[o].status = "pending" /\ o # n
            BY <1>5, <3>1
        <3> QED
            BY <1>5, <1>6, <3>2 DEF Offered
    <2>3. OnTheWay(g)' = IF r.open /\ g = sold THEN OnTheWay(g) \cup {r.by} ELSE OnTheWay(g)
        BY <1>3, <1>5, <1>6, <1>9 DEF OnTheWay
    <2> QED
        BY <2>1, <2>2, <2>3
<1>18. ASSUME NEW g \in Good, g # sold
       PROVE  Stays(g)
    <2>1. n \notin Offered(g)
        BY <1>18 DEF Offered
    <2> QED
        BY <1>17, <1>18, <2>1 DEF Stays, Places
<1>19. CASE r.open
    <2>1. Moves(sold, <<"order", n>>, <<"way", r.by>>)
        BY <1>16, <1>17, <1>19, GoesToTaker
    <2>2. GoodsInv'
        BY <1>1, <1>15, <1>18, <2>1, GoodStep
    <2> QED
        BY <1>8, <1>11, <1>12, <1>14, <2>2, PartsNext
<1>20. CASE ~r.open
    <2>1. Orphaned(endedOrphan, sold)'
        BY <1>3, <1>4, <1>6, <1>20 DEF Orphaned
    <2>2. Places(sold)' \subseteq Places(sold)
        BY <1>16, <1>17, <1>20 DEF Places
    <2>3. GoodsInv'
        BY <1>1, <1>15, <1>18, <2>1, <2>2, GoodStep
    <2> QED
        BY <1>8, <1>11, <1>12, <1>14, <2>3, PartsNext
<1> QED
    BY <1>19, <1>20

\* One that is refused.
LEMMA EndsRefused ==
    ASSUME MarketInv, UNCHANGED traderVars, inbox # <<>>, NEW r, r = Head(inbox),
           r.fn \in {"ProcessOrder", "CancelOrder"}, NEW status, Ends(r, FALSE, status)
    PROVE  MarketInv'
<1>1. TalkInv /\ BookInv /\ StockInv /\ MoneyInv /\ GoodsInv
    BY Parts
<1>2. UNCHANGED <<stock, purse, handler, post, reqs, destroyed, orders, bornOrphan, endedOrphan>>
    BY DEF traderVars, Ends
<1>3. inbox' = Tail(inbox) /\ call' = Answered(r, 0)
    BY DEF Ends
<1>4. r.by \in Player /\ (r.open => call[r.by].id = 0 /\ call[r.by].st = "waiting")
    BY <1>1, HeadFacts
<1>5. /\ r.open => call'[r.by] = [st |-> "done", id |-> 0]
      /\ \A q \in Player : ~r.open \/ q # r.by => call'[q] = call[q]
    BY <1>1, <1>3, AnswerFacts
<1>6. \A q \in Player : call'[q].id = call[q].id
    BY <1>4, <1>5
<1>7. TalkInv'
    BY <1>1, <1>2, <1>3, AnswerTalk DEF BookInv
<1>8. \A p \in Player : \A o \in DOMAIN orders :
          /\ StillSelling(p, o)' <=> StillSelling(p, o)
          /\ Taking(p, o)' <=> Taking(p, o)
    <2>1. \A o \in DOMAIN orders : o # 0
        BY <1>1, DomainFacts DEF BookInv
    <2> QED
        BY <1>2, <1>4, <1>5, <2>1 DEF StillSelling, Taking
<1>9. BookInv' /\ StockInv' /\ MoneyInv'
    <2>1. BookInv'
        BY <1>1, <1>2, <1>6 DEF BookInv, RecordIsTrue, EndedAsTold
    <2>2. StockInv'
        BY <1>1, <1>2, <1>8 DEF StockInv, KindsInPlace, ListedIsHeld
    <2>3. MoneyInv'
        BY <1>1, <1>2, <1>6 DEF MoneyInv, BuyerCanPay, PaidOnce, BuyerIsAlone
    <2> QED
        BY <2>1, <2>2, <2>3
<1>10. GoodsInv'
    <2>1. \A g \in Good : Stays(g)
        BY <1>2, <1>8, PlacesStay
    <2>2. OrphansStay
        BY <1>2 DEF OrphansStay
    <2> QED
        BY <1>1, <2>1, <2>2, GoodStep
<1> QED
    BY <1>7, <1>9, <1>10, PartsNext

\* An order that is sold or taken off.
LEMMA EndsInv ==
    ASSUME MarketInv, UNCHANGED traderVars, ProcessOrder \/ CancelOrder
    PROVE  MarketInv'
<1> PICK r : r = Head(inbox)
    OBVIOUS
<1>1. CASE ProcessOrder
    <2>1. inbox # <<>> /\ r.fn = "ProcessOrder" /\ Ends(r, MayProcess(r), "sold")
        BY <1>1 DEF ProcessOrder, Takes
    <2>2. MayProcess(r) => Pending(r.id) /\ Ends(r, TRUE, "sold")
        BY <2>1 DEF MayProcess, Ends
    <2>3. ~MayProcess(r) => Ends(r, FALSE, "sold")
        BY <2>1 DEF Ends
    <2> QED
        BY <2>1, <2>2, <2>3, EndsGranted, EndsRefused
<1>2. CASE CancelOrder
    <2>1. inbox # <<>> /\ r.fn = "CancelOrder" /\ Ends(r, MayCancel(r), "off")
        BY <1>2 DEF CancelOrder, Takes
    <2>2. MayCancel(r) => Pending(r.id) /\ Ends(r, TRUE, "off")
        BY <2>1 DEF MayCancel, Ends
    <2>3. ~MayCancel(r) => Ends(r, FALSE, "off")
        BY <2>1 DEF Ends
    <2> QED
        BY <2>1, <2>2, <2>3, EndsGranted, EndsRefused
<1> QED
    BY <1>1, <1>2

\* A record that is added.
LEMMA AddRecordInv ==
    ASSUME MarketInv, UNCHANGED traderVars, AddTransactionRecord
    PROVE  MarketInv'
<1> PICK r : r = Head(inbox)
    OBVIOUS
<1> PICK n : n = r.id
    OBVIOUS
<1>1. /\ TalkInv /\ BookInv /\ StockInv /\ MoneyInv /\ GoodsInv
      /\ inbox # <<>> /\ r.fn = "addTransactionRecord"
    BY Parts DEF AddTransactionRecord, Takes
<1>2. UNCHANGED <<stock, purse, handler, post, reqs, destroyed, bornOrphan, endedOrphan>>
    BY DEF traderVars, AddTransactionRecord
<1>3. /\ r.by \in Player /\ n \in DOMAIN orders
      /\ r.open => /\ call[r.by].st = "waiting" /\ call[r.by].id = 0
                   /\ handler[r.by].id = n /\ handler[r.by].step = "record"
    BY <1>1, HeadFacts DEF Awaits
<1>4. /\ orders \in Seq(Order) /\ orders' = [orders EXCEPT ![n].record = "listed"]
      /\ inbox' = Tail(inbox) /\ call' = Answered(r, n)
    BY <1>1 DEF AddTransactionRecord, BookInv
<1>5. /\ orders' \in Seq(Order) /\ DOMAIN orders' = DOMAIN orders
      /\ orders'[n] = [orders[n] EXCEPT !.record = "listed"]
      /\ \A o \in DOMAIN orders : o # n => orders'[o] = orders[o]
    BY <1>3, <1>4, RecordFacts
<1>6. /\ orders'[n].record = "listed"
      /\ \A o \in DOMAIN orders : /\ orders'[o].seller = orders[o].seller
                                  /\ orders'[o].good = orders[o].good
                                  /\ orders'[o].price = orders[o].price
                                  /\ orders'[o].status = orders[o].status
    <2>1. orders[n] \in Order
        BY <1>3, <1>4, DomainFacts
    <2> QED
        BY <1>3, <1>5, <2>1 DEF Order
<1>7. /\ r.open => call'[r.by] = [st |-> "done", id |-> n]
      /\ \A q \in Player : ~r.open \/ q # r.by => call'[q] = call[q]
    BY <1>1, <1>4, AnswerFacts
<1>8. TalkInv'
    BY <1>1, <1>2, <1>3, <1>4, <1>5, AnswerTalk
<1>9. \A p \in Player : handler[p].step \in {"create", "buy", "cancel"} => call'[p] = call[p]
    BY <1>3, <1>7
<1>10. \A p \in Player : \A o \in DOMAIN orders :
          /\ StillSelling(p, o)' <=> StillSelling(p, o)
          /\ Taking(p, o)' <=> Taking(p, o)
    BY <1>2, <1>9 DEF StillSelling, Taking
<1>11. \A p \in Player : handler[p].step \notin {"idle", "create"} => handler[p].id \in DOMAIN orders
    BY <1>1 DEF TalkInv, HandlersAreSound
<1>12. BookInv'
    <2>1. EndedAsTold'
        BY <1>1, <1>2, <1>6, <1>9, <1>11 DEF BookInv, EndedAsTold
    <2>2. RecordIsTrue'
        BY <1>1, <1>5, <1>6 DEF BookInv, RecordIsTrue
    <2> QED
        BY <1>1, <1>2, <1>5, <2>1, <2>2 DEF BookInv
<1>13. StockInv'
    BY <1>1, <1>2, <1>5, <1>6, <1>10 DEF StockInv, KindsInPlace, ListedIsHeld
<1>14. MoneyInv'
    <2>1. BuyerCanPay'
        BY <1>1, <1>2, <1>6, <1>11 DEF MoneyInv, BuyerCanPay
    <2>2. PaidOnce'
        BY <1>1, <1>2, <1>5, <1>6 DEF MoneyInv, PaidOnce
    <2>3. BuyerIsAlone'
        <3>1. \A q \in Player : \A o \in DOMAIN orders :
                  handler'[q].step = "buy" /\ call'[q].id = o =>
                      handler[q].step = "buy" /\ call[q].id = o
            BY <1>2, <1>9
        <3>2. post' = post /\ DOMAIN orders' = DOMAIN orders
            BY <1>2, <1>5
        <3> QED
            BY <1>1, <3>1, <3>2 DEF MoneyInv, BuyerIsAlone
    <2> QED
        BY <1>1, <1>2, <2>1, <2>2, <2>3 DEF MoneyInv
<1>15. GoodsInv'
    <2>1. \A g \in Good : Stays(g)
        BY <1>2, <1>5, <1>6, <1>10, PlacesStay
    <2>2. OrphansStay
        BY <1>2, <1>5, <1>6 DEF OrphansStay
    <2> QED
        BY <1>1, <2>1, <2>2, GoodStep
<1> QED
    BY <1>8, <1>12, <1>13, <1>14, <1>15, PartsNext

-----------------------------------------------------------------------------
(* The steps of the players. *)

\* A player's handler starts or ends with nothing but talk: the stock, the purse, the
\* post and the orders stay, and p neither sells nor takes.
LEMMA TalkOnly ==
    ASSUME MarketInv, TalkInv', NEW p \in Player,
           UNCHANGED <<orders, bornOrphan, endedOrphan, stock, purse, post, destroyed>>,
           reqs' \in Nat,
           \A q \in Player \ {p} : call'[q] = call[q] /\ handler'[q] = handler[q],
           \A o \in DOMAIN orders : ~StillSelling(p, o) /\ ~Taking(p, o),
           handler'[p].step \in Blocked \cup {"idle"},
           handler'[p].step = "idle" \/ call'[p].id = 0,
           handler'[p].step = "buy" => purse[p] >= orders[handler'[p].id].price
    PROVE  MarketInv'
<1>1. TalkInv /\ BookInv /\ StockInv /\ MoneyInv /\ GoodsInv
    BY Parts
<1>2. \A o \in DOMAIN orders : o # 0 /\ o \in Nat
    BY <1>1, DomainFacts DEF BookInv
<1>3. \A q \in Player : \A o \in DOMAIN orders :
          /\ StillSelling(q, o)' <=> StillSelling(q, o)
          /\ Taking(q, o)' <=> Taking(q, o)
    BY <1>2 DEF StillSelling, Taking, Blocked
<1>4. BookInv'
    <2>1. EndedAsTold'
        BY <1>1 DEF BookInv, EndedAsTold, Blocked
    <2> QED
        BY <1>1, <2>1 DEF BookInv, RecordIsTrue
<1>5. StockInv'
    BY <1>1, <1>3 DEF StockInv, KindsInPlace, ListedIsHeld
<1>6. MoneyInv'
    <2>1. BuyerCanPay'
        BY <1>1 DEF MoneyInv, BuyerCanPay
    <2>2. BuyerIsAlone'
        <3>1. \A q \in Player : \A o \in DOMAIN orders :
                  handler'[q].step = "buy" /\ call'[q].id = o =>
                      handler[q].step = "buy" /\ call[q].id = o
            BY <1>2
        <3> QED
            BY <1>1, <3>1 DEF MoneyInv, BuyerIsAlone
    <2> QED
        BY <1>1, <2>1, <2>2 DEF MoneyInv, PaidOnce
<1>7. GoodsInv'
    <2>1. \A g \in Good : Stays(g)
        BY <1>3, PlacesStay
    <2>2. OrphansStay
        BY DEF OrphansStay
    <2> QED
        BY <1>1, <2>1, <2>2, GoodStep
<1> QED
    BY <1>1, <1>4, <1>5, <1>6, <1>7, PartsNext

\* A listing is asked for.
LEMMA SendTransactionInv ==
    ASSUME MarketInv, NEW p \in Player, NEW k \in Kind, NEW type \in Type,
           NEW to \in Player \cup {NoPlayer}, NEW price \in Price,
           SendTransaction(p, k, type, to, price)
    PROVE  MarketInv'
<1>1. TalkInv /\ BookInv /\ StockInv /\ MoneyInv /\ UNCHANGED <<orders, stock>>
    BY Parts DEF SendTransaction
<1>2. handler[p].step = "idle" /\ call[p].st = "none" /\ reqs' = reqs + 1
    BY <1>1 DEF SendTransaction, Serves, TalkInv, HandlersAreSound, Blocked
<1> PICK order : order = [seller |-> p, to |-> to, type |-> type, good |-> stock[p][k], price |-> price,
                          status |-> "pending", record |-> "none"]
    OBVIOUS
<1>3. stock[p][k] \in Good /\ KindOf[stock[p][k]] = k
    BY <1>1 DEF SendTransaction, StockInv, KindsInPlace
<1>4. /\ order \in Order /\ order.seller = p /\ order.good = stock[p][k]
      /\ order.status = "pending" /\ order.record = "none"
    <2>1. type = "private" <=> to # NoPlayer
        BY BookAssumption DEF SendTransaction
    <2> QED
        BY <1>3, <2>1 DEF Order
<1>5. Calls(p, "CreateOrder", 0, order) /\ Blocks(p, "create", 0)
    BY DEF SendTransaction
<1>6. TalkInv'
    BY <1>1, <1>2, <1>3, <1>4, <1>5, CallsTalk DEF Awaits
<1>7. /\ \A q \in Player \ {p} : call'[q] = call[q] /\ handler'[q] = handler[q]
      /\ handler'[p].step = "create" /\ call'[p].id = 0
    BY <1>1, <1>5 DEF Calls, Blocks, TalkInv
<1>8. \A o \in DOMAIN orders : ~StillSelling(p, o) /\ ~Taking(p, o)
    BY <1>2 DEF StillSelling, Taking
<1>9. reqs' \in Nat
    BY <1>1, <1>2 DEF MoneyInv
<1> QED
    BY <1>6, <1>7, <1>8, <1>9, TalkOnly DEF SendTransaction, Blocked

\* An order is asked for, or asked back.
LEMMA AskOrderInv ==
    ASSUME MarketInv, NEW p \in Player, NEW o \in DOMAIN orders,
           BuyOrder(p, o) \/ WithdrawOrder(p, o)
    PROVE  MarketInv'
<1>1. TalkInv /\ BookInv /\ MoneyInv
    BY Parts
<1>2. /\ UNCHANGED <<orders, bornOrphan, endedOrphan, stock, purse, post, destroyed>>
      /\ handler[p].step = "idle" /\ reqs' = reqs + 1
    BY DEF BuyOrder, WithdrawOrder, Serves
<1>3. call[p].st = "none"
    BY <1>1, <1>2 DEF TalkInv, HandlersAreSound, Blocked
<1>4. \/ Calls(p, "ProcessOrder", o, NoOrder) /\ Blocks(p, "buy", o) /\ purse[p] >= orders[o].price
      \/ Calls(p, "CancelOrder", o, NoOrder) /\ Blocks(p, "cancel", o)
    BY DEF BuyOrder, WithdrawOrder
<1>5. o # 0
    BY <1>1, DomainFacts DEF BookInv
<1>6. TalkInv'
    BY <1>1, <1>2, <1>3, <1>4, <1>5, CallsTalk DEF Awaits
<1>7. /\ \A q \in Player \ {p} : call'[q] = call[q] /\ handler'[q] = handler[q]
      /\ call'[p].id = 0 /\ handler'[p].id = o
      /\ handler'[p].step \in {"buy", "cancel"}
      /\ handler'[p].step = "buy" => purse[p] >= orders[o].price
    BY <1>1, <1>4 DEF Calls, Blocks, TalkInv
<1>8. \A n \in DOMAIN orders : ~StillSelling(p, n) /\ ~Taking(p, n)
    BY <1>2 DEF StillSelling, Taking
<1>9. reqs' \in Nat
    BY <1>1, <1>2 DEF MoneyInv
<1> QED
    BY <1>2, <1>6, <1>7, <1>8, <1>9, TalkOnly DEF Blocked

\* A handler ends.
LEMMA HandlerEndsInv ==
    ASSUME MarketInv, NEW p \in Player, HandlerEnds(p)
    PROVE  MarketInv'
<1>1. TalkInv /\ BookInv /\ MoneyInv
    BY Parts
<1>2. /\ UNCHANGED <<orders, inbox, bornOrphan, endedOrphan, stock, purse, post, reqs, destroyed>>
      /\ call[p].st = "done"
      /\ \/ handler[p].step = "record"
         \/ handler[p].step \in {"create", "buy", "cancel"} /\ call[p].id = 0
      /\ call' = [call EXCEPT ![p] = [st |-> "none", id |-> 0]]
      /\ Blocks(p, "idle", 0)
    BY DEF HandlerEnds, Returned, Resumes, Finishes
<1>3. TalkInv'
    BY <1>1, <1>2, RestTalk
<1>4. /\ \A q \in Player \ {p} : call'[q] = call[q] /\ handler'[q] = handler[q]
      /\ handler'[p].step = "idle"
    BY <1>1, <1>2 DEF Blocks, TalkInv
<1>5. \A o \in DOMAIN orders : ~StillSelling(p, o) /\ ~Taking(p, o)
    <2>1. \A o \in DOMAIN orders : o # 0
        BY <1>1, DomainFacts DEF BookInv
    <2> QED
        BY <1>2, <2>1 DEF StillSelling, Taking
<1>6. reqs' \in Nat
    BY <1>1, <1>2 DEF MoneyInv
<1> QED
    BY <1>2, <1>3, <1>4, <1>5, <1>6, TalkOnly DEF Blocked

\* A player gives up on a call.
LEMMA TimeoutInv ==
    ASSUME MarketInv, NEW p \in Player, CallTimeout(p), UNCHANGED traderVars
    PROVE  MarketInv'
<1>1. TalkInv /\ BookInv /\ StockInv /\ MoneyInv /\ GoodsInv
    BY Parts
<1>2. UNCHANGED <<orders, bornOrphan, endedOrphan, stock, purse, handler, post, reqs, destroyed>>
    BY DEF CallTimeout, traderVars
<1>3. /\ TalkInv'
      /\ call[p].id = 0 /\ \A q \in Player : call'[q].id = call[q].id
      /\ \A q \in Player \ {p} : call'[q] = call[q]
    <2>1. TalkInv'
        BY <1>1, <1>2, TimeoutTalk
    <2>2. call[p].id = 0
        BY <1>1 DEF CallTimeout, TalkInv, HandlersAreSound
    <2>3. call' = [call EXCEPT ![p].st = "done"]
        BY DEF CallTimeout
    <2> QED
        BY <1>1, <2>1, <2>2, <2>3 DEF TalkInv
<1>4. \A q \in Player : \A o \in DOMAIN orders :
          /\ StillSelling(q, o)' <=> StillSelling(q, o)
          /\ Taking(q, o)' <=> Taking(q, o)
    <2>1. \A o \in DOMAIN orders : o # 0
        BY <1>1, DomainFacts DEF BookInv
    <2> QED
        BY <1>2, <1>3, <2>1 DEF StillSelling, Taking
<1>5. BookInv' /\ StockInv' /\ MoneyInv'
    <2>1. BookInv'
        BY <1>1, <1>2, <1>3 DEF BookInv, RecordIsTrue, EndedAsTold
    <2>2. StockInv'
        BY <1>1, <1>2, <1>4 DEF StockInv, KindsInPlace, ListedIsHeld
    <2>3. MoneyInv'
        BY <1>1, <1>2, <1>3 DEF MoneyInv, BuyerCanPay, PaidOnce, BuyerIsAlone
    <2> QED
        BY <2>1, <2>2, <2>3
<1>6. GoodsInv'
    <2>1. \A g \in Good : Stays(g)
        BY <1>2, <1>4, PlacesStay
    <2>2. OrphansStay
        BY <1>2 DEF OrphansStay
    <2> QED
        BY <1>1, <2>1, <2>2, GoodStep
<1> QED
    BY <1>3, <1>5, <1>6, PartsNext

\* The seller is told of the listing and takes the good out of the stock.
LEMMA OrderCreatedInv ==
    ASSUME MarketInv, NEW p \in Player, OrderCreated(p)
    PROVE  MarketInv'
<1>1. TalkInv /\ BookInv /\ StockInv /\ MoneyInv /\ GoodsInv
    BY Parts
<1>2. UNCHANGED <<orders, bornOrphan, endedOrphan, purse, reqs, destroyed>>
    BY DEF OrderCreated
<1>3. PICK n \in DOMAIN orders :
          /\ handler[p].step = "create" /\ call[p].st = "done" /\ call[p].id = n
          /\ stock' = DeductAttachment(p, n)
          /\ post' = IF orders[n].type = "private" THEN Posted(orders[n].to, n, 0) ELSE post
          /\ Calls(p, "addTransactionRecord", n, NoOrder) /\ Blocks(p, "record", n)
    BY DEF OrderCreated, Returned
<1> PICK sold : sold = orders[n].good
    OBVIOUS
<1>4. /\ orders[n] \in Order /\ sold \in Good /\ KindOf[sold] \in Kind /\ n # 0 /\ n \in Nat
      /\ stock[p][KindOf[sold]] = sold
    <2>1. orders[n] \in Order /\ n # 0 /\ n \in Nat
        BY <1>1, DomainFacts DEF BookInv
    <2>2. stock[p][KindOf[sold]] = sold
        BY <1>1, <1>3 DEF StockInv, ListedIsHeld, StillSelling
    <2> QED
        BY <2>1, <2>2 DEF Order, Kind
<1>5. /\ stock' \in [Player -> [Kind -> Good \cup {NoGood}]]
      /\ \A k \in Kind : stock'[p][k] = IF k = KindOf[sold] THEN NoGood ELSE stock[p][k]
      /\ \A q \in Player \ {p} : stock'[q] = stock[q]
    BY <1>1, <1>3, <1>4 DEF DeductAttachment, StockInv
<1>6. /\ \A q \in Player \ {p} : call'[q] = call[q] /\ handler'[q] = handler[q]
      /\ handler'[p].step = "record" /\ handler'[p].id = n
    BY <1>1, <1>3 DEF Calls, Blocks, TalkInv
<1>7. TalkInv'
    BY <1>1, <1>2, <1>3, <1>4, <1>5, CallsTalk DEF Awaits
<1>8. BookInv'
    <2>1. EndedAsTold'
        BY <1>1, <1>2, <1>6 DEF BookInv, EndedAsTold
    <2> QED
        BY <1>1, <1>2, <2>1 DEF BookInv, RecordIsTrue
<1>9. \A q \in Player : \A o \in DOMAIN orders :
          /\ StillSelling(q, o)' <=> StillSelling(q, o) /\ q # p
          /\ Taking(q, o)' <=> Taking(q, o)
    BY <1>2, <1>3, <1>6 DEF StillSelling, Taking
<1>10. StockInv'
    <2>1. KindsInPlace'
        BY <1>1, <1>5 DEF StockInv, KindsInPlace
    <2>2. ListedIsHeld'
        BY <1>1, <1>2, <1>5, <1>9 DEF StockInv, ListedIsHeld
    <2> QED
        BY <1>1, <1>2, <1>5, <2>1, <2>2 DEF StockInv
<1>11. MoneyInv'
    <2>1. BuyerCanPay'
        BY <1>1, <1>2, <1>6 DEF MoneyInv, BuyerCanPay
    <2>2. post' = post \/ \E m \in Mail : m.amount = 0 /\ post' = Append(post, m)
        <3>1. CASE orders[n].type = "private"
            <4> PICK m : m = [to |-> orders[n].to, order |-> n, amount |-> 0,
                              attached |-> FALSE, got |-> FALSE]
                OBVIOUS
            <4>1. orders[n].to \in Player
                BY <1>4, <3>1 DEF Order
            <4>2. m \in Mail /\ m.amount = 0
                BY <1>4, <4>1, Zenon DEF Mail
            <4> QED
                BY <1>3, <3>1, <4>2 DEF Posted
        <3> QED
            BY <1>3, <3>1
    <2>3. /\ post' \in Seq(Mail) /\ DOMAIN post \subseteq DOMAIN post'
          /\ \A i \in DOMAIN post' : post'[i].amount > 0 => i \in DOMAIN post
          /\ \A i \in DOMAIN post : post'[i] = post[i]
        BY <1>1, <2>2, AppendFacts DEF MoneyInv
    <2>4. PaidOnce'
        BY <1>1, <1>2, <2>3 DEF MoneyInv, PaidOnce
    <2>5. BuyerIsAlone'
        <3>1. \A q \in Player : \A o \in DOMAIN orders :
                  handler'[q].step = "buy" /\ call'[q].id = o =>
                      handler[q].step = "buy" /\ call[q].id = o
            BY <1>6
        <3> QED
            BY <1>1, <1>2, <2>3, <3>1 DEF MoneyInv, BuyerIsAlone
    <2> QED
        BY <1>1, <1>2, <2>1, <2>3, <2>4, <2>5 DEF MoneyInv
<1>12. ASSUME NEW g \in Good
       PROVE  Stays(g)
    <2>1. Stocked(g)' = Stocked(g)
        <3>1. \A q \in Player \ {p} : q \in Stocked(g)' <=> q \in Stocked(g)
            BY <1>2, <1>5, <1>9 DEF Stocked
        <3>2. p \in Stocked(g)' <=> p \in Stocked(g)
            <4>1. CASE g = sold
                <5>1. p \notin Stocked(g)
                    BY <1>3, <4>1 DEF Stocked, StillSelling
                <5>2. stock'[p][KindOf[g]] # g
                    BY <1>4, <1>5, <4>1, TraderAssumption
                <5> QED
                    BY <5>1, <5>2 DEF Stocked
            <4>2. CASE g # sold
                <5>1. stock'[p][KindOf[g]] = g <=> stock[p][KindOf[g]] = g
                    <6>1. KindOf[g] \in Kind
                        BY DEF Kind
                    <6> QED
                        BY <1>4, <1>5, <4>2, <6>1, TraderAssumption
                <5>2. \A o \in DOMAIN orders : StillSelling(p, o) => o = n
                    BY <1>3 DEF StillSelling
                <5>3. \A o \in DOMAIN orders : orders[o].good = g => ~StillSelling(p, o)
                    BY <4>2, <5>2
                <5>4. \A o \in DOMAIN orders : ~StillSelling(p, o)'
                    BY <1>9
                <5> QED
                    BY <1>2, <5>1, <5>3, <5>4 DEF Stocked
            <4> QED
                BY <4>1, <4>2
        <3>3. Stocked(g) \subseteq Player /\ Stocked(g)' \subseteq Player
            BY DEF Stocked
        <3> QED
            BY <3>1, <3>2, <3>3
    <2>2. Offered(g)' = Offered(g)
        BY <1>2 DEF Offered
    <2>3. OnTheWay(g)' = OnTheWay(g)
        BY <1>2, <1>9 DEF OnTheWay
    <2> QED
        BY <2>1, <2>2, <2>3 DEF Stays, Places
<1>13. GoodsInv'
    <2>1. OrphansStay
        BY <1>2 DEF OrphansStay
    <2> QED
        BY <1>1, <1>12, <2>1, GoodStep
<1> QED
    BY <1>7, <1>8, <1>10, <1>11, <1>13, PartsNext

\* A good arrives at the buyer, or back at the seller.
LEMMA GrantKeeps ==
    ASSUME MarketInv, NEW p \in Player, NEW n \in DOMAIN orders, Taking(p, n),
           Grant(p, orders[n].good), Resumes(p),
           UNCHANGED <<orders, inbox, bornOrphan, endedOrphan>>,
           \/ handler[p].step = "buy" /\ Blocks(p, "markSold", n)
           \/ handler[p].step = "cancel" /\ Blocks(p, "markOff", n)
    PROVE  TalkInv' /\ BookInv' /\ StockInv' /\ GoodsInv'
<1>1. TalkInv /\ BookInv /\ StockInv /\ GoodsInv
    BY Parts
<1> PICK g0 : g0 = orders[n].good
    OBVIOUS
<1> PICK k0 : k0 = KindOf[g0]
    OBVIOUS
<1>2. g0 \in Good /\ k0 \in Kind /\ n # 0 /\ n \in Nat
    <2>1. orders[n] \in Order /\ n # 0 /\ n \in Nat
        BY <1>1, DomainFacts DEF BookInv
    <2> QED
        BY <2>1 DEF Order, Kind
<1>3. call[p].st = "done" /\ call[p].id = n /\ handler[p].step \in {"buy", "cancel"}
    BY DEF Taking
<1>4. /\ stock' = IF k0 \in Grantable THEN [stock EXCEPT ![p][k0] = g0] ELSE stock
      /\ destroyed' = destroyed \cup IF k0 \in Grantable THEN {stock[p][k0]} \ {NoGood, g0} ELSE {g0}
    BY DEF Grant
<1>5. /\ stock' \in [Player -> [Kind -> Good \cup {NoGood}]]
      /\ \A k \in Kind : stock'[p][k] = IF k0 \in Grantable /\ k = k0 THEN g0 ELSE stock[p][k]
      /\ \A q \in Player \ {p} : stock'[q] = stock[q]
      /\ stock[p][k0] \in Good \cup {NoGood}
    BY <1>1, <1>2, <1>4 DEF StockInv
<1>6. /\ \A q \in Player \ {p} : call'[q] = call[q] /\ handler'[q] = handler[q]
      /\ handler'[p].step = IF handler[p].step = "buy" THEN "markSold" ELSE "markOff"
      /\ handler'[p].id = n
    BY <1>1, <1>3 DEF Resumes, Blocks, TalkInv
<1>7. TalkInv'
    BY <1>1, <1>2, <1>3, <1>5, RestTalk DEF Resumes
<1>8. BookInv'
    <2>1. handler[p].id = n
        BY <1>1, <1>2, <1>3 DEF TalkInv, HandlersAreSound
    <2>2. IF handler[p].step = "buy" THEN orders[n].status = "sold" ELSE orders[n].status = "off"
        BY <1>1, <1>2, <1>3, <2>1 DEF BookInv, EndedAsTold
    <2>3. EndedAsTold'
        BY <1>1, <1>6, <2>2 DEF BookInv, EndedAsTold
    <2> QED
        BY <1>1, <2>3 DEF BookInv, RecordIsTrue
<1>9. \A q \in Player : \A o \in DOMAIN orders :
          /\ StillSelling(q, o)' <=> StillSelling(q, o)
          /\ StillSelling(q, o) => q # p
          /\ Taking(q, o)' <=> Taking(q, o) /\ q # p
          /\ Taking(p, o) => o = n
    BY <1>3, <1>6 DEF StillSelling, Taking
<1>10. StockInv'
    <2>1. KindsInPlace'
        <3>1. KindOf[g0] = k0
            OBVIOUS
        <3> QED
            BY <1>1, <1>5, <3>1 DEF StockInv, KindsInPlace
    <2>2. ListedIsHeld'
        BY <1>1, <1>5, <1>9 DEF StockInv, ListedIsHeld
    <2>3. destroyed' \subseteq Good
        BY <1>1, <1>2, <1>4, <1>5 DEF StockInv
    <2> QED
        BY <1>5, <2>1, <2>2, <2>3 DEF StockInv
<1>11. ASSUME NEW g \in Good
       PROVE  /\ Offered(g)' = Offered(g)
              /\ OnTheWay(g)' = IF g = g0 THEN OnTheWay(g) \ {p} ELSE OnTheWay(g)
              /\ \A q : q # p => (q \in Stocked(g)' <=> q \in Stocked(g))
              /\ p \in Stocked(g) <=> stock[p][KindOf[g]] = g
              /\ p \in Stocked(g)' <=> stock'[p][KindOf[g]] = g
    <2>1. Offered(g)' = Offered(g)
        BY DEF Offered
    <2>2. OnTheWay(g)' = IF g = g0 THEN OnTheWay(g) \ {p} ELSE OnTheWay(g)
        BY <1>9 DEF OnTheWay
    <2>3. \A q : q # p => (q \in Stocked(g)' <=> q \in Stocked(g))
        BY <1>5, <1>9 DEF Stocked
    <2>4. /\ p \in Stocked(g) <=> stock[p][KindOf[g]] = g
          /\ p \in Stocked(g)' <=> stock'[p][KindOf[g]] = g
        BY <1>9 DEF Stocked
    <2> QED
        BY <2>1, <2>2, <2>3, <2>4
<1>12. OrphansStay
    BY <1>4 DEF OrphansStay
<1>13. p \in OnTheWay(g0)
    BY DEF OnTheWay
<1>14. CASE k0 \in Grantable
    <2>1. Moves(g0, <<"way", p>>, <<"stock", p>>)
        <3>1. stock'[p][KindOf[g0]] = g0
            BY <1>2, <1>5, <1>14
        <3>2. Stocked(g0)' = Stocked(g0) \cup {p}
            BY <1>2, <1>11, <3>1
        <3> QED
            BY <1>2, <1>11, <1>13, <3>2, Arrives
    <2>2. ASSUME NEW g \in Good, g # g0
          PROVE  Stays(g) \/ (g \in destroyed' /\ Places(g)' \subseteq Places(g))
        <3>1. KindOf[g] \in Kind /\ g # NoGood
            BY TraderAssumption DEF Kind
        <3>2. CASE stock[p][k0] = g
            <4>1. g \in destroyed'
                BY <1>4, <1>14, <2>2, <3>1, <3>2
            <4>2. stock'[p][KindOf[g]] = g => stock[p][KindOf[g]] = g
                BY <1>5, <2>2, <3>1
            <4>3. Stocked(g)' \subseteq Stocked(g)
                BY <1>11, <4>2
            <4> QED
                BY <1>11, <2>2, <4>1, <4>3 DEF Places
        <3>3. CASE stock[p][k0] # g
            <4>1. stock'[p][KindOf[g]] = g <=> stock[p][KindOf[g]] = g
                BY <1>5, <2>2, <3>1, <3>3
            <4>2. Stocked(g)' = Stocked(g)
                BY <1>11, <4>1
            <4> QED
                BY <1>11, <2>2, <4>2 DEF Stays, Places
        <3> QED
            BY <3>2, <3>3
    <2>3. GoodsInv'
        BY <1>1, <1>12, <2>1, <2>2, GoodStep
    <2> QED
        BY <1>7, <1>8, <1>10, <2>3
<1>15. CASE k0 \notin Grantable
    <2>1. ASSUME NEW g \in Good
          PROVE  Stocked(g)' = Stocked(g)
        <3>1. stock'[p][KindOf[g]] = g <=> stock[p][KindOf[g]] = g
            BY <1>4, <1>15
        <3>2. \A q : q \in Stocked(g)' <=> q \in Stocked(g)
            BY <1>11, <3>1
        <3> QED
            BY <3>2
    <2>2. g0 \in destroyed' /\ Places(g0)' \subseteq Places(g0)
        BY <1>2, <1>4, <1>11, <1>15, <2>1 DEF Places
    <2>3. ASSUME NEW g \in Good, g # g0
          PROVE  Stays(g)
        BY <1>11, <2>1, <2>3 DEF Stays, Places
    <2>4. GoodsInv'
        BY <1>1, <1>12, <2>2, <2>3, GoodStep
    <2> QED
        BY <1>7, <1>8, <1>10, <2>4
<1> QED
    BY <1>14, <1>15

\* The buyer pays and gets the good.
LEMMA OrderBoughtInv ==
    ASSUME MarketInv, NEW p \in Player, OrderBought(p)
    PROVE  MarketInv'
<1>1. TalkInv /\ BookInv /\ MoneyInv
    BY Parts
<1>2. PICK n \in DOMAIN orders :
          /\ handler[p].step = "buy" /\ call[p].st = "done" /\ call[p].id = n
          /\ Payment(p, n) /\ Grant(p, orders[n].good)
          /\ Resumes(p) /\ Blocks(p, "markSold", n)
          /\ UNCHANGED <<orders, inbox, bornOrphan, endedOrphan, reqs>>
    BY DEF OrderBought, Returned
<1>3. /\ n # 0 /\ n \in Nat /\ orders[n].seller \in Player /\ orders[n].price \in Nat
    <2>1. orders[n] \in Order /\ n # 0 /\ n \in Nat
        BY <1>1, DomainFacts DEF BookInv
    <2>2. orders[n].seller \in Player /\ orders[n].price \in Price
        BY <2>1 DEF Order
    <2> QED
        BY <2>1, <2>2, BookAssumption
<1>4. TalkInv' /\ BookInv' /\ StockInv' /\ GoodsInv'
    BY <1>2, <1>3, GrantKeeps DEF Taking
<1>5. /\ \A q \in Player \ {p} : call'[q] = call[q] /\ handler'[q] = handler[q]
      /\ handler'[p].step = "markSold"
    BY <1>1, <1>2 DEF Resumes, Blocks, TalkInv
<1>6. handler[p].id = n /\ orders[n].status = "sold"
    <2>1. handler[p].id = n
        BY <1>1, <1>2, <1>3 DEF TalkInv, HandlersAreSound
    <2> QED
        BY <1>1, <1>2, <1>3, <2>1 DEF BookInv, EndedAsTold
<1>7. purse[p] >= orders[n].price /\ purse[p] \in Nat
    BY <1>1, <1>2, <1>6 DEF MoneyInv, BuyerCanPay
<1>8. /\ purse' \in [Player -> Nat]
      /\ \A q \in Player \ {p} : purse'[q] = purse[q]
    <2>1. purse[p] - orders[n].price \in Nat
        BY <1>3, <1>7
    <2>2. purse' = [purse EXCEPT ![p] = purse[p] - orders[n].price] /\ purse \in [Player -> Nat]
        BY <1>1, <1>2 DEF Payment, MoneyInv
    <2> QED
        BY <2>1, <2>2
<1> PICK m : m = [to |-> orders[n].seller, order |-> n, amount |-> orders[n].price,
                  attached |-> FALSE, got |-> FALSE]
    OBVIOUS
<1> PICK l : l = Len(post) + 1
    OBVIOUS
<1>9. m \in Mail /\ m.to = orders[n].seller /\ m.order = n /\ m.amount = orders[n].price
    BY <1>3, Zenon DEF Mail
<1>10. post \in Seq(Mail) /\ post' = Append(post, m)
    BY <1>1, <1>2 DEF Payment, Posted, MoneyInv
<1>11. /\ post' \in Seq(Mail) /\ l \notin DOMAIN post
       /\ DOMAIN post' = DOMAIN post \cup {l}
       /\ \A i \in DOMAIN post : post'[i] = post[i]
       /\ post'[l] = m
    BY <1>9, <1>10, AppendFacts
<1>12. /\ \A q \in Player : handler[q].step = "buy" /\ call[q].id = n => p = q
       /\ \A i \in DOMAIN post : post[i].amount > 0 => post[i].order # n
    BY <1>1, <1>2 DEF MoneyInv, BuyerIsAlone
<1>13. MoneyInv'
    <2>1. BuyerCanPay'
        BY <1>1, <1>2, <1>5, <1>8 DEF MoneyInv, BuyerCanPay
    <2>2. PaidOnce'
        <3> SUFFICES ASSUME NEW i \in DOMAIN post', post'[i].amount > 0
                     PROVE  /\ post'[i].order \in DOMAIN orders
                            /\ orders[post'[i].order].status = "sold"
                            /\ post'[i].to = orders[post'[i].order].seller
                            /\ post'[i].amount = orders[post'[i].order].price
                            /\ \A j \in DOMAIN post' :
                                  post'[j].amount > 0 /\ post'[j].order = post'[i].order => j = i
            BY <1>2 DEF PaidOnce
        <3>1. CASE i = l
            BY <1>6, <1>9, <1>11, <1>12, <3>1
        <3>2. CASE i \in DOMAIN post
            BY <1>1, <1>9, <1>11, <1>12, <3>2 DEF MoneyInv, PaidOnce
        <3> QED
            BY <1>11, <3>1, <3>2
    <2>3. BuyerIsAlone'
        <3>1. \A q \in Player : \A o \in DOMAIN orders :
                  handler'[q].step = "buy" /\ call'[q].id = o =>
                      handler[q].step = "buy" /\ call[q].id = o /\ o # n
            BY <1>5, <1>12
        <3>2. \A o \in DOMAIN orders :
                  /\ o # n
                  /\ \A i \in DOMAIN post : post[i].amount > 0 => post[i].order # o
                  => \A i \in DOMAIN post' : post'[i].amount > 0 => post'[i].order # o
            BY <1>9, <1>11
        <3> QED
            BY <1>1, <1>2, <3>1, <3>2 DEF MoneyInv, BuyerIsAlone
    <2> QED
        BY <1>1, <1>2, <1>8, <1>11, <2>1, <2>2, <2>3 DEF MoneyInv
<1> QED
    BY <1>4, <1>13, PartsNext

\* The seller gets the good back.
LEMMA OrderWithdrawnInv ==
    ASSUME MarketInv, NEW p \in Player, OrderWithdrawn(p)
    PROVE  MarketInv'
<1>1. TalkInv /\ BookInv /\ MoneyInv
    BY Parts
<1>2. PICK n \in DOMAIN orders :
          /\ handler[p].step = "cancel" /\ call[p].st = "done" /\ call[p].id = n
          /\ Grant(p, orders[n].good)
          /\ Resumes(p) /\ Blocks(p, "markOff", n)
    BY DEF OrderWithdrawn, Returned
<1>3. UNCHANGED <<orders, inbox, bornOrphan, endedOrphan, purse, post, reqs>>
    BY DEF OrderWithdrawn
<1>4. n # 0
    BY <1>1, DomainFacts DEF BookInv
<1>5. TalkInv' /\ BookInv' /\ StockInv' /\ GoodsInv'
    BY <1>2, <1>3, <1>4, GrantKeeps DEF Taking
<1>6. /\ \A q \in Player \ {p} : call'[q] = call[q] /\ handler'[q] = handler[q]
      /\ handler'[p].step = "markOff"
    BY <1>1, <1>2 DEF Resumes, Blocks, TalkInv
<1>7. MoneyInv'
    <2>1. BuyerCanPay'
        BY <1>1, <1>3, <1>6 DEF MoneyInv, BuyerCanPay
    <2>2. BuyerIsAlone'
        <3>1. \A q \in Player : \A o \in DOMAIN orders :
                  handler'[q].step = "buy" /\ call'[q].id = o =>
                      handler[q].step = "buy" /\ call[q].id = o
            BY <1>6
        <3> QED
            BY <1>1, <1>3, <3>1 DEF MoneyInv, BuyerIsAlone
    <2> QED
        BY <1>1, <1>3, <2>1, <2>2 DEF MoneyInv, PaidOnce
<1> QED
    BY <1>5, <1>7, PartsNext

\* A record is marked as the order ended, or not at all.
LEMMA MarkRecordInv ==
    ASSUME MarketInv, NEW p \in Player, MarkRecord(p)
    PROVE  MarketInv'
<1>1. TalkInv /\ BookInv /\ StockInv /\ MoneyInv /\ GoodsInv
    BY Parts
<1>2. UNCHANGED <<inbox, call, bornOrphan, endedOrphan, stock, purse, post, reqs, destroyed>>
    BY DEF MarkRecord
<1> PICK n : n = handler[p].id
    OBVIOUS
<1>3. PICK s \in {"sold", "off"} :
          handler[p].step = (IF s = "sold" THEN "markSold" ELSE "markOff") /\ MarkAs(n, s)
    BY DEF MarkRecord
<1>4. n \in DOMAIN orders /\ orders[n].status = s /\ call[p].st = "none" /\ call[p].id = 0
    BY <1>1, <1>3 DEF TalkInv, HandlersAreSound, Blocked, BookInv, EndedAsTold
<1>5. /\ orders' \in Seq(Order) /\ DOMAIN orders' = DOMAIN orders
      /\ \A o \in DOMAIN orders : /\ orders'[o].seller = orders[o].seller
                                  /\ orders'[o].good = orders[o].good
                                  /\ orders'[o].price = orders[o].price
                                  /\ orders'[o].status = orders[o].status
                                  /\ orders'[o].record = orders[o].record \/ (o = n /\ orders'[o].record = s)
    <2>1. orders \in Seq(Order) /\ orders[n] \in Order
        BY <1>1, <1>4, DomainFacts DEF BookInv
    <2>2. orders' = orders \/ orders' = [orders EXCEPT ![n].record = s]
        BY <1>3 DEF MarkAs
    <2>3. CASE orders' = orders
        BY <2>1, <2>3
    <2>4. CASE orders' = [orders EXCEPT ![n].record = s]
        <3>1. /\ orders' \in Seq(Order) /\ DOMAIN orders' = DOMAIN orders
              /\ orders'[n] = [orders[n] EXCEPT !.record = s]
              /\ \A o \in DOMAIN orders : o # n => orders'[o] = orders[o]
            BY <1>4, <2>1, <2>4, RecordFacts
        <3> QED
            BY <1>4, <2>1, <3>1 DEF Order
    <2> QED
        BY <2>2, <2>3, <2>4
<1>6. call' = [call EXCEPT ![p] = [st |-> "none", id |-> 0]] /\ Blocks(p, "idle", 0)
    BY <1>1, <1>2, <1>4 DEF MarkRecord, Finishes, TalkInv
<1>7. TalkInv'
    <2>1. /\ call[p].st # "waiting" /\ DOMAIN orders \subseteq DOMAIN orders'
          /\ \A q \in Player \ {p} : stock'[q] = stock[q]
        BY <1>2, <1>4, <1>5
    <2> QED
        BY <1>1, <1>2, <1>6, <2>1, RestTalk
<1>8. /\ \A q \in Player \ {p} : handler'[q] = handler[q]
      /\ handler'[p].step = "idle"
    BY <1>1, <1>6 DEF Blocks, TalkInv
<1>9. \A q \in Player : \A o \in DOMAIN orders :
          /\ StillSelling(q, o)' <=> StillSelling(q, o)
          /\ Taking(q, o)' <=> Taking(q, o)
    BY <1>2, <1>4, <1>8 DEF StillSelling, Taking
<1>10. \A q \in Player : handler[q].step \notin {"idle", "create"} => handler[q].id \in DOMAIN orders
    BY <1>1 DEF TalkInv, HandlersAreSound
<1>11. BookInv'
    <2>1. EndedAsTold'
        BY <1>1, <1>2, <1>5, <1>8, <1>10 DEF BookInv, EndedAsTold
    <2>2. RecordIsTrue'
        BY <1>1, <1>4, <1>5 DEF BookInv, RecordIsTrue
    <2> QED
        BY <1>1, <1>2, <1>5, <2>1, <2>2 DEF BookInv
<1>12. StockInv'
    BY <1>1, <1>2, <1>5, <1>9 DEF StockInv, KindsInPlace, ListedIsHeld
<1>13. MoneyInv'
    <2>1. BuyerCanPay'
        BY <1>1, <1>2, <1>5, <1>8, <1>10 DEF MoneyInv, BuyerCanPay
    <2>2. PaidOnce'
        BY <1>1, <1>2, <1>5 DEF MoneyInv, PaidOnce
    <2>3. BuyerIsAlone'
        <3>1. \A q \in Player : \A o \in DOMAIN orders :
                  handler'[q].step = "buy" /\ call'[q].id = o =>
                      handler[q].step = "buy" /\ call[q].id = o
            BY <1>2, <1>8
        <3>2. post' = post /\ DOMAIN orders' = DOMAIN orders
            BY <1>2, <1>5
        <3> QED
            BY <1>1, <3>1, <3>2 DEF MoneyInv, BuyerIsAlone
    <2> QED
        BY <1>1, <1>2, <2>1, <2>2, <2>3 DEF MoneyInv
<1>14. GoodsInv'
    <2>1. \A g \in Good : Stays(g)
        BY <1>2, <1>5, <1>9, PlacesStay
    <2>2. OrphansStay
        BY <1>2, <1>5 DEF OrphansStay
    <2> QED
        BY <1>1, <2>1, <2>2, GoodStep
<1> QED
    BY <1>7, <1>11, <1>12, <1>13, <1>14, PartsNext

\* A payment is collected.
LEMMA CollectInv ==
    ASSUME MarketInv, NEW p \in Player, NEW i \in DOMAIN post, CollectMailItem(p, i)
    PROVE  MarketInv'
<1>1. TalkInv /\ BookInv /\ StockInv /\ MoneyInv /\ GoodsInv
    BY Parts
<1>2. UNCHANGED <<orders, inbox, call, bornOrphan, endedOrphan, stock, handler, reqs, destroyed>>
    BY DEF CollectMailItem, bookVars
<1>3. /\ post \in Seq(Mail) /\ post[i] \in Mail /\ post[i].amount \in Nat
      /\ handler[p].step = "idle"
      /\ post' = [post EXCEPT ![i] = [post[i] EXCEPT !.got = TRUE]]
      /\ purse' = [purse EXCEPT ![p] = purse[p] + post[i].amount]
    <2>1. post \in Seq(Mail) /\ post[i] \in Mail
        BY <1>1, DomainFacts DEF MoneyInv
    <2>2. post[i].amount \in Nat
        BY <2>1 DEF Mail
    <2> QED
        BY <2>1, <2>2 DEF CollectMailItem
<1>4. /\ post' \in Seq(Mail) /\ DOMAIN post' = DOMAIN post
      /\ \A j \in DOMAIN post : /\ post'[j].amount = post[j].amount
                                /\ post'[j].order = post[j].order
                                /\ post'[j].to = post[j].to
    <2> PICK m : m = [post[i] EXCEPT !.got = TRUE]
        OBVIOUS
    <2>1. /\ m \in Mail /\ m.amount = post[i].amount
          /\ m.order = post[i].order /\ m.to = post[i].to
        BY <1>3, Zenon DEF Mail
    <2>2. /\ post' \in Seq(Mail) /\ DOMAIN post' = DOMAIN post /\ post'[i] = m
          /\ \A j \in DOMAIN post : j # i => post'[j] = post[j]
        BY <1>3, <2>1, UpdateFacts
    <2> QED
        BY <2>1, <2>2
<1>5. purse' \in [Player -> Nat] /\ \A q \in Player : q # p => purse'[q] = purse[q]
    BY <1>1, <1>3 DEF MoneyInv
<1>6. TalkInv'
    <2>1. RequestsAreSound' /\ HandlersAreSound'
        BY <1>1, <1>2 DEF TalkInv, RequestsAreSound, HandlersAreSound
    <2>2. OpenIsAwaited'
        BY <1>1, <1>2 DEF TalkInv, OpenIsAwaited
    <2> QED
        BY <1>1, <1>2, <2>1, <2>2 DEF TalkInv
<1>7. BookInv' /\ StockInv'
    BY <1>1, <1>2 DEF BookInv, RecordIsTrue, EndedAsTold, StockInv, KindsInPlace, ListedIsHeld,
                      StillSelling
<1>8. MoneyInv'
    <2>1. BuyerCanPay'
        BY <1>1, <1>2, <1>3, <1>5 DEF MoneyInv, BuyerCanPay
    <2>2. PaidOnce'
        BY <1>1, <1>2, <1>4 DEF MoneyInv, PaidOnce
    <2>3. BuyerIsAlone'
        BY <1>1, <1>2, <1>4 DEF MoneyInv, BuyerIsAlone
    <2> QED
        BY <1>1, <1>2, <1>4, <1>5, <2>1, <2>2, <2>3 DEF MoneyInv
<1>9. GoodsInv'
    <2>1. \A g \in Good : Stays(g)
        BY <1>2, PlacesStay DEF StillSelling, Taking
    <2>2. OrphansStay
        BY <1>2 DEF OrphansStay
    <2> QED
        BY <1>1, <2>1, <2>2, GoodStep
<1> QED
    BY <1>6, <1>7, <1>8, <1>9, PartsNext

-----------------------------------------------------------------------------
(* The theorems. *)

\* At first every good is in one player's stock and nobody trades.
LEMMA InitInv ==
    ASSUME Init
    PROVE  MarketInv
<1>1. /\ orders = <<>> /\ inbox = <<>> /\ post = <<>> /\ reqs = 0
      /\ bornOrphan = {} /\ endedOrphan = {} /\ destroyed = {}
      /\ call = [p \in Player |-> [st |-> "none", id |-> 0]]
      /\ handler = [p \in Player |-> [step |-> "idle", id |-> 0]]
      /\ purse = [p \in Player |-> Purse]
      /\ stock \in [Player -> [Kind -> Good \cup {NoGood}]]
      /\ \A g \in Good : \E p \in Player : \A q \in Player, k \in Kind :
            stock[q][k] = g <=> q = p /\ k = KindOf[g]
    BY DEF Init, BookInit, TraderInit
<1>2. DOMAIN orders = {} /\ DOMAIN inbox = {} /\ DOMAIN post = {}
    BY <1>1
<1>3. TalkInv
    <2>1. RequestsAreSound /\ OpenIsAwaited /\ HandlersAreSound
        BY <1>1, <1>2 DEF RequestsAreSound, OpenIsAwaited, HandlersAreSound, Blocked
    <2> QED
        BY <1>1, <2>1 DEF TalkInv
<1>4. BookInv
    BY <1>1, <1>2 DEF BookInv, RecordIsTrue, EndedAsTold
<1>5. StockInv
    <2>1. KindsInPlace
        BY <1>1 DEF KindsInPlace
    <2>2. ListedIsHeld
        BY <1>2 DEF ListedIsHeld
    <2> QED
        BY <1>1, <2>1, <2>2 DEF StockInv
<1>6. MoneyInv
    BY <1>1, <1>2, TraderAssumption DEF MoneyInv, BuyerCanPay, PaidOnce, BuyerIsAlone
<1>7. ASSUME NEW g \in Good
      PROVE  \E p : Places(g) = {<<"stock", p>>}
    <2>1. KindOf[g] \in Kind
        BY DEF Kind
    <2>2. PICK p \in Player : \A q \in Player : stock[q][KindOf[g]] = g <=> q = p
        BY <1>1, <2>1
    <2>3. Stocked(g) = {p} /\ Offered(g) = {} /\ OnTheWay(g) = {}
        BY <1>2, <2>2 DEF Stocked, Offered, OnTheWay
    <2> QED
        BY <2>3 DEF Places
<1>8. GoodsInv
    <2>1. NotForked
        BY <1>7 DEF NotForked
    <2>2. NotLost
        BY <1>7 DEF NotLost
    <2> QED
        BY <2>1, <2>2 DEF GoodsInv
<1> QED
    BY <1>3, <1>4, <1>5, <1>6, <1>8, Parts

\* No step breaks the invariant.
LEMMA StepInv ==
    ASSUME MarketInv, [Next]_vars
    PROVE  MarketInv'
<1>1. CASE BookNext
    BY <1>1, CreateOrderInv, EndsInv, AddRecordInv DEF BookNext, BookStep
<1>2. ASSUME NEW p \in Player, HandlerStep(p)
      PROVE  MarketInv'
    BY <1>2, OrderCreatedInv, OrderBoughtInv, OrderWithdrawnInv, HandlerEndsInv, MarkRecordInv,
       TimeoutInv DEF HandlerStep
<1>3. ASSUME NEW p \in Player, ClientStep(p)
      PROVE  MarketInv'
    <2>1. CASE \E k \in Kind, type \in Type, to \in Player \cup {NoPlayer}, price \in Price :
                  SendTransaction(p, k, type, to, price)
        BY <2>1, SendTransactionInv
    <2>2. CASE \E o \in DOMAIN orders : BuyOrder(p, o) \/ WithdrawOrder(p, o)
        BY <2>2, AskOrderInv
    <2>3. CASE \E i \in DOMAIN post : CollectMailItem(p, i)
        BY <2>3, CollectInv
    <2> QED
        BY <1>3, <2>1, <2>2, <2>3 DEF ClientStep
<1>4. CASE UNCHANGED vars
    <2>1. UNCHANGED <<orders, inbox, call, bornOrphan, endedOrphan,
                      stock, purse, handler, post, reqs, destroyed>>
        BY <1>4 DEF vars, bookVars, traderVars
    <2>2. TalkInv /\ BookInv /\ StockInv /\ MoneyInv /\ GoodsInv
        BY Parts
    <2>3. TalkInv'
        BY <2>1, <2>2 DEF TalkInv, RequestsAreSound, OpenIsAwaited, HandlersAreSound
    <2>4. BookInv' /\ StockInv'
        BY <2>1, <2>2 DEF BookInv, RecordIsTrue, EndedAsTold, StockInv, KindsInPlace,
                          ListedIsHeld, StillSelling
    <2>5. MoneyInv'
        BY <2>1, <2>2 DEF MoneyInv, BuyerCanPay, PaidOnce, BuyerIsAlone
    <2>6. GoodsInv'
        <3>1. \A g \in Good : Stays(g)
            BY <2>1, PlacesStay DEF StillSelling, Taking
        <3>2. OrphansStay
            BY <2>1 DEF OrphansStay
        <3> QED
            BY <2>2, <3>1, <3>2, GoodStep
    <2> QED
        BY <2>3, <2>4, <2>5, <2>6, PartsNext
<1> QED
    BY <1>1, <1>2, <1>3, <1>4 DEF Next

\* The market's invariant: every part of it holds in every reachable state.
THEOREM MarketCorrect == Spec => []MarketInv
<1>1. Init => MarketInv
    BY InitInv
<1>2. MarketInv /\ [Next]_vars => MarketInv'
    BY StepInv
<1> QED
    BY <1>1, <1>2, PTL DEF Spec

\* Listing, buying and withdrawing never make two of a good, except where a seller
\* gave up on a listing that was carried out all the same.
THEOREM NotForkedHolds == Spec => []NotForked
<1>1. MarketInv => NotForked
    BY DEF MarketInv
<1> QED
    BY <1>1, MarketCorrect, PTL

\* They lose a good only where a caller gave up on an order that was ended all the
\* same, or a grant writes over a good or does nothing.
THEOREM NotLostHolds == Spec => []NotLost
<1>1. MarketInv => NotLost
    BY DEF MarketInv
<1> QED
    BY <1>1, MarketCorrect, PTL

\* A payment is for a sold order, goes to its seller, and no order is paid twice.
THEOREM PaidOnceHolds == Spec => []PaidOnce
<1>1. MarketInv => PaidOnce
    BY DEF MarketInv
<1> QED
    BY <1>1, MarketCorrect, PTL

\* A record that says how its order ended is right.
THEOREM RecordIsTrueHolds == Spec => []RecordIsTrue
<1>1. MarketInv => RecordIsTrue
    BY DEF MarketInv
<1> QED
    BY <1>1, MarketCorrect, PTL

-----------------------------------------------------------------------------
(* Sums over the places of a function. *)

\* Induction over the numbers: a set of numbers that is not empty has a least one.
LEMMA LeastNumber ==
    ASSUME NEW S \in SUBSET Nat, S # {} PROVE \E m \in S : \A k \in Nat : k < m => k \notin S
<1> DEFINE R == OpToRel(<, Nat)
<1>1. IsWellFoundedOn(R, Nat) BY NatLessThanWellFounded
<1>2. \A a, b \in Nat : a < b => <<a, b>> \in R BY DEF OpToRel
<1> HIDE DEF R
<1>3. PICK m \in S : \A k \in S : ~(<<k, m>> \in R) BY <1>1, WFMin
<1>4. ASSUME NEW k \in Nat, k < m PROVE k \notin S BY <1>2, <1>3, <1>4
<1>5. QED BY <1>4

\* sum[T] is what the f[x] for x in T add up to, for every subset T of S.
IsSum(sum, S, f) ==
    /\ sum \in [SUBSET S -> Nat]
    /\ sum[{}] = 0
    /\ \A T \in SUBSET S : \A x \in T : sum[T] = f[x] + sum[T \ {x}]

\* A finite set without one of its elements is smaller.
LEMMA OneLess ==
    ASSUME NEW S, IsFiniteSet(S), NEW x \in S
    PROVE  /\ IsFiniteSet(S \ {x}) /\ Cardinality(S) \in Nat /\ Cardinality(S \ {x}) \in Nat
           /\ Cardinality(S) = Cardinality(S \ {x}) + 1
BY FS_RemoveElement, FS_CardinalityType

\* There are such sums.
LEMMA SumExists ==
    ASSUME NEW S, IsFiniteSet(S), NEW f \in [S -> Nat] PROVE \E sum : IsSum(sum, S, f)
<1> DEFINE Bad == {n \in Nat : \E T \in SUBSET S :
                      Cardinality(T) = n /\ ~\E sum : IsSum(sum, T, f)}
<1>1. ASSUME Bad # {} PROVE FALSE
    <2>1. Bad \in SUBSET Nat OBVIOUS
    <2>2. PICK n \in Bad : \A k \in Nat : k < n => k \notin Bad BY <1>1, <2>1, LeastNumber
    <2>3. PICK T \in SUBSET S :
              n \in Nat /\ Cardinality(T) = n /\ ~\E sum : IsSum(sum, T, f)
        BY <2>2
    <2> HIDE DEF Bad
    <2>4. IsFiniteSet(T) BY FS_Subset
    <2>5. CASE T = {}
        <3>1. IsSum([U \in SUBSET T |-> 0], T, f) BY <2>5 DEF IsSum
        <3>2. QED BY <2>3, <3>1
    <2>6. CASE T # {}
        <3>1. PICK y \in T : TRUE BY <2>6
        <3> DEFINE T0 == T \ {y}
        <3>2. Cardinality(T0) \in Nat /\ Cardinality(T0) < n BY <2>3, <2>4, <3>1, OneLess
        <3>3. Cardinality(T0) \notin Bad BY <2>2, <3>2
        <3>4. PICK sum0 : IsSum(sum0, T0, f) BY <3>2, <3>3 DEF Bad
        <3> DEFINE sum == [U \in SUBSET T |-> IF y \in U THEN f[y] + sum0[U \ {y}] ELSE sum0[U]]
        <3>5. \A U \in SUBSET T : U \ {y} \in SUBSET T0 /\ (y \notin U => U \in SUBSET T0)
            OBVIOUS
        <3>6. f[y] \in Nat /\ y \in S BY <3>1
        <3>7. sum0 \in [SUBSET T0 -> Nat] /\ sum0[{}] = 0
            BY <3>4 DEF IsSum
        <3>8. sum \in [SUBSET T -> Nat] BY <3>5, <3>6, <3>7
        <3>9. sum[{}] = 0 BY <3>7
        <3>10. ASSUME NEW U \in SUBSET T, NEW x \in U PROVE sum[U] = f[x] + sum[U \ {x}]
            <4>1. f[x] \in Nat BY <3>10
            <4>2. CASE x = y BY <3>10, <4>2
            <4>3. CASE x # y /\ y \in U
                <5>1. sum[U] = f[y] + sum0[U \ {y}] BY <4>3
                <5>2. sum[U \ {x}] = f[y] + sum0[(U \ {x}) \ {y}] BY <4>3
                <5>3. U \ {y} \in SUBSET T0 /\ x \in U \ {y} BY <3>5, <4>3
                <5>4. sum0[U \ {y}] = f[x] + sum0[(U \ {y}) \ {x}] BY <3>4, <5>3 DEF IsSum
                <5>5. (U \ {y}) \ {x} = (U \ {x}) \ {y} /\ (U \ {x}) \ {y} \in SUBSET T0 OBVIOUS
                <5>6. sum0[(U \ {x}) \ {y}] \in Nat BY <3>7, <5>5
                <5>7. sum[U] = f[y] + (f[x] + sum0[(U \ {x}) \ {y}]) BY <5>1, <5>4, <5>5
                <5>8. QED BY <3>6, <4>1, <5>2, <5>6, <5>7
            <4>4. CASE y \notin U
                <5>1. U \in SUBSET T0 /\ y \notin U \ {x} BY <3>5, <4>4
                <5>2. sum[U] = sum0[U] /\ sum[U \ {x}] = sum0[U \ {x}] BY <4>4
                <5>3. sum0[U] = f[x] + sum0[U \ {x}] BY <3>4, <3>10, <5>1 DEF IsSum
                <5>4. QED BY <5>2, <5>3
            <4>5. QED BY <4>2, <4>3, <4>4
        <3> HIDE DEF sum
        <3>11. IsSum(sum, T, f) BY <3>8, <3>9, <3>10 DEF IsSum
        <3>12. QED BY <2>3, <3>11
    <2>7. QED BY <2>5, <2>6
<1>2. Cardinality(S) \in Nat BY FS_CardinalityType
<1> QED BY <1>1, <1>2

\* What adds up two functions that agree on a set agrees on it.
LEMMA SumsAgree ==
    ASSUME NEW S, IsFiniteSet(S), NEW U, NEW V, S \in SUBSET U, S \in SUBSET V,
           NEW f, NEW g, \A x \in S : f[x] = g[x],
           NEW sum, IsSum(sum, U, f), NEW tot, IsSum(tot, V, g)
    PROVE  sum[S] = tot[S]
<1> DEFINE Bad == {n \in Nat : \E T \in SUBSET S : Cardinality(T) = n /\ sum[T] # tot[T]}
<1>1. ASSUME Bad # {} PROVE FALSE
    <2>1. Bad \in SUBSET Nat OBVIOUS
    <2>2. PICK n \in Bad : \A k \in Nat : k < n => k \notin Bad BY <1>1, <2>1, LeastNumber
    <2>3. PICK T \in SUBSET S :
              n \in Nat /\ Cardinality(T) = n /\ sum[T] # tot[T]
        BY <2>2
    <2> HIDE DEF Bad
    <2>4. IsFiniteSet(T) /\ T \in SUBSET U /\ T \in SUBSET V BY FS_Subset
    <2>5. T # {} BY <2>3 DEF IsSum
    <2>6. PICK x \in T : TRUE BY <2>5
    <2>7. PICK m \in Nat : m = Cardinality(T \ {x}) /\ n = m + 1 BY <2>3, <2>4, <2>6, OneLess
    <2>8. m \notin Bad
        <3>1. m < n /\ m \in Nat BY <2>3, <2>7
        <3>2. QED BY <2>2, <3>1
    <2>9. T \ {x} \in SUBSET S OBVIOUS
    <2>10. sum[T \ {x}] = tot[T \ {x}] BY <2>7, <2>8, <2>9 DEF Bad
    <2>11. sum[T] = f[x] + sum[T \ {x}] /\ tot[T] = g[x] + tot[T \ {x}] BY <2>4, <2>6 DEF IsSum
    <2>12. QED BY <2>3, <2>6, <2>10, <2>11
<1>2. Cardinality(S) \in Nat BY FS_CardinalityType
<1> QED BY <1>1, <1>2

\* SumFunction adds up.
LEMMA SumFunctionAddsUp ==
    ASSUME NEW S, IsFiniteSet(S), NEW f \in [S -> Nat], NEW sum, IsSum(sum, S, f)
    PROVE  SumFunction(f) = sum[S]
<1> DEFINE Step(h) == [T \in SUBSET S |->
                          IF T = {} THEN 0 ELSE f[CHOOSE x \in T : TRUE] + h[T \ {CHOOSE x \in T : TRUE}]]
<1> DEFINE it == CHOOSE h : h = Step(h)
<1>1. SumFunction(f) = it[S]
    BY DEF SumFunction, SumFunctionOnSet, FoldFunctionOnSet, MapThenFoldSet
<1>2. sum = Step(sum)
    <2>1. \A T \in SUBSET S : T # {} => (CHOOSE x \in T : TRUE) \in T OBVIOUS
    <2>2. \A T \in SUBSET S : sum[T] = Step(sum)[T] BY <2>1 DEF IsSum
    <2>3. sum \in [SUBSET S -> Nat] BY DEF IsSum
    <2>4. QED BY <2>2, <2>3
<1>3. it = Step(it) BY <1>2
<1> DEFINE Bad == {n \in Nat : \E T \in SUBSET S : Cardinality(T) = n /\ sum[T] # it[T]}
<1>4. \A T \in SUBSET S : it[T] = IF T = {} THEN 0
          ELSE f[CHOOSE x \in T : TRUE] + it[T \ {CHOOSE x \in T : TRUE}]
    BY <1>3
<1> HIDE DEF it
<1>5. ASSUME Bad # {} PROVE FALSE
    <2>1. Bad \in SUBSET Nat OBVIOUS
    <2>2. PICK n \in Bad : \A k \in Nat : k < n => k \notin Bad BY <1>5, <2>1, LeastNumber
    <2>3. PICK T \in SUBSET S :
              n \in Nat /\ Cardinality(T) = n /\ sum[T] # it[T]
        BY <2>2
    <2> HIDE DEF Bad
    <2>4. IsFiniteSet(T) BY FS_Subset
    <2>5. T # {} BY <1>4, <2>3 DEF IsSum
    <2>6. PICK x \in T : x = CHOOSE y \in T : TRUE BY <2>5
    <2>7. PICK m \in Nat : m = Cardinality(T \ {x}) /\ n = m + 1 BY <2>3, <2>4, <2>6, OneLess
    <2>8. m \notin Bad BY <2>2, <2>3, <2>7
    <2>9. T \ {x} \in SUBSET S OBVIOUS
    <2>10. sum[T \ {x}] = it[T \ {x}] BY <2>7, <2>8, <2>9 DEF Bad
    <2>11. sum[T] = f[x] + sum[T \ {x}] BY <2>6 DEF IsSum
    <2>12. it[T] = f[x] + it[T \ {x}] BY <1>4, <2>5, <2>6
    <2>13. QED BY <2>3, <2>10, <2>11, <2>12
<1>6. Cardinality(S) \in Nat BY FS_CardinalityType
<1> QED BY <1>1, <1>5, <1>6

\* When one place of a function changes, the sum changes by as much.
LEMMA SumUpdated ==
    ASSUME NEW S, IsFiniteSet(S), NEW f \in [S -> Nat], NEW g \in [S -> Nat],
           NEW x \in S, \A y \in S \ {x} : g[y] = f[y]
    PROVE  /\ SumFunction(f) \in Nat /\ SumFunction(g) \in Nat
           /\ SumFunction(g) + f[x] = SumFunction(f) + g[x]
<1>1. PICK sum : IsSum(sum, S, f) BY SumExists
<1>2. PICK tot : IsSum(tot, S, g) BY SumExists
<1>3. IsFiniteSet(S \ {x}) /\ S \ {x} \in SUBSET S BY FS_RemoveElement
<1>4. sum[S \ {x}] = tot[S \ {x}] BY <1>1, <1>2, <1>3, SumsAgree
<1>5. sum[S] = f[x] + sum[S \ {x}] /\ tot[S] = g[x] + tot[S \ {x}] BY <1>1, <1>2 DEF IsSum
<1>6. SumFunction(f) = sum[S] /\ SumFunction(g) = tot[S] BY <1>1, <1>2, SumFunctionAddsUp
<1>7. sum[S \ {x}] \in Nat /\ f[x] \in Nat /\ g[x] \in Nat BY <1>1, <1>3 DEF IsSum
<1>8. QED BY <1>4, <1>5, <1>6, <1>7

\* A new place adds what it has.
LEMMA SumExtended ==
    ASSUME NEW S, IsFiniteSet(S), NEW x, x \notin S, NEW f \in [S -> Nat],
           NEW g \in [S \cup {x} -> Nat], \A y \in S : g[y] = f[y]
    PROVE  SumFunction(f) \in Nat /\ SumFunction(g) = SumFunction(f) + g[x]
<1>1. IsFiniteSet(S \cup {x}) BY FS_AddElement
<1>2. PICK sum : IsSum(sum, S, f) BY SumExists
<1>3. PICK tot : IsSum(tot, S \cup {x}, g) BY <1>1, SumExists
<1>4. S \in SUBSET S /\ S \in SUBSET (S \cup {x}) /\ (S \cup {x}) \ {x} = S OBVIOUS
<1>5. \A y \in S : f[y] = g[y] OBVIOUS
<1>6. sum[S] = tot[S] BY <1>2, <1>3, <1>4, <1>5, SumsAgree
<1>7. tot[S \cup {x}] = g[x] + tot[S] BY <1>3, <1>4 DEF IsSum
<1>8. SumFunction(f) = sum[S] /\ SumFunction(g) = tot[S \cup {x}]
    BY <1>1, <1>2, <1>3, SumFunctionAddsUp
<1>9. sum[S] \in Nat /\ g[x] \in Nat BY <1>2 DEF IsSum
<1>10. QED BY <1>6, <1>7, <1>8, <1>9

\* If all places have the same, the sum is that many times as much.
LEMMA SumOfSame ==
    ASSUME NEW S, IsFiniteSet(S), NEW c \in Nat
    PROVE  SumFunction([x \in S |-> c]) = c * Cardinality(S)
<1> DEFINE f == [x \in S |-> c]
<1>1. f \in [S -> Nat] /\ \A x \in S : f[x] = c OBVIOUS
<1> HIDE DEF f
<1>2. PICK sum : IsSum(sum, S, f) BY <1>1, SumExists
<1> DEFINE Bad == {n \in Nat : \E T \in SUBSET S : Cardinality(T) = n /\ sum[T] # c * n}
<1>3. ASSUME Bad # {} PROVE FALSE
    <2>1. Bad \in SUBSET Nat OBVIOUS
    <2>2. PICK n \in Bad : \A k \in Nat : k < n => k \notin Bad BY <1>3, <2>1, LeastNumber
    <2>3. PICK T \in SUBSET S :
              n \in Nat /\ Cardinality(T) = n /\ sum[T] # c * n
        BY <2>2
    <2> HIDE DEF Bad
    <2>4. IsFiniteSet(T) BY FS_Subset
    <2>5. CASE T = {}
        <3>1. n = 0 BY <2>3, <2>5, FS_EmptySet
        <3>2. QED BY <1>2, <2>3, <2>5, <3>1 DEF IsSum
    <2>6. CASE T # {}
        <3>1. PICK x \in T : TRUE BY <2>6
        <3>2. PICK m \in Nat : m = Cardinality(T \ {x}) /\ n = m + 1
            BY <2>3, <2>4, <3>1, OneLess
        <3>3. m \notin Bad
            <4>1. m < n /\ m \in Nat BY <2>3, <3>2
            <4>2. QED BY <2>2, <4>1
        <3>4. T \ {x} \in SUBSET S OBVIOUS
        <3>5. sum[T \ {x}] = c * m BY <3>2, <3>3, <3>4 DEF Bad
        <3>6. sum[T] = c + c * m BY <1>1, <1>2, <3>1, <3>5 DEF IsSum
        <3>7. c * (m + 1) = c + c * m BY <3>2
        <3>8. QED BY <2>3, <3>2, <3>6, <3>7
    <2>7. QED BY <2>5, <2>6
<1>4. Cardinality(S) \in Nat BY FS_CardinalityType
<1>5. S \in SUBSET S OBVIOUS
<1>6. sum[S] = c * Cardinality(S) BY <1>3, <1>4, <1>5
<1>7. SumFunction(f) = sum[S] BY <1>1, <1>2, SumFunctionAddsUp
<1>8. QED BY <1>6, <1>7 DEF f

\* A function loses at one place what another one gets at a new place.
LEMMA SumMoved ==
    ASSUME NEW S, IsFiniteSet(S), NEW f \in [S -> Nat], NEW g \in [S -> Nat],
           NEW x \in S, \A y \in S \ {x} : g[y] = f[y],
           NEW T, IsFiniteSet(T), NEW l, l \notin T, NEW u \in [T -> Nat],
           NEW w \in [T \cup {l} -> Nat], \A y \in T : w[y] = u[y],
           g[x] + w[l] = f[x]
    PROVE  SumFunction(g) + SumFunction(w) = SumFunction(f) + SumFunction(u)
<1>1. /\ SumFunction(f) \in Nat /\ SumFunction(g) \in Nat
      /\ SumFunction(g) + f[x] = SumFunction(f) + g[x]
    BY SumUpdated
<1>2. SumFunction(u) \in Nat /\ SumFunction(w) = SumFunction(u) + w[l]
    BY SumExtended
<1>3. f[x] \in Nat /\ g[x] \in Nat /\ w[l] \in Nat
    OBVIOUS
<1> QED
    BY <1>1, <1>2, <1>3

\* A function loses at one place what another one gets at one of its places.
LEMMA SumHanded ==
    ASSUME NEW S, IsFiniteSet(S), NEW f \in [S -> Nat], NEW g \in [S -> Nat],
           NEW x \in S, \A y \in S \ {x} : g[y] = f[y],
           NEW T, IsFiniteSet(T), NEW u \in [T -> Nat], NEW w \in [T -> Nat],
           NEW l \in T, \A y \in T \ {l} : w[y] = u[y],
           g[x] + w[l] = f[x] + u[l]
    PROVE  SumFunction(g) + SumFunction(w) = SumFunction(f) + SumFunction(u)
<1>1. /\ SumFunction(f) \in Nat /\ SumFunction(g) \in Nat
      /\ SumFunction(g) + f[x] = SumFunction(f) + g[x]
    BY SumUpdated
<1>2. /\ SumFunction(u) \in Nat /\ SumFunction(w) \in Nat
      /\ SumFunction(w) + u[l] = SumFunction(u) + w[l]
    BY SumUpdated
<1>3. f[x] \in Nat /\ g[x] \in Nat /\ w[l] \in Nat /\ u[l] \in Nat
    OBVIOUS
<1> QED
    BY <1>1, <1>2, <1>3

-----------------------------------------------------------------------------
(* What the players have and what waits for them in mails. *)

\* What waits in mails is a number for each mail, and there are finitely many.
LEMMA UnpaidFacts ==
    ASSUME post \in Seq(Mail)
    PROVE  Unpaid \in [DOMAIN post -> Nat] /\ IsFiniteSet(DOMAIN post)
<1>1. DOMAIN post = 1 .. Len(post) /\ Len(post) \in Nat
    OBVIOUS
<1>2. IsFiniteSet(DOMAIN post)
    BY <1>1, FS_Interval
<1>3. \A i \in DOMAIN post : post[i].amount \in Nat
    <2>1. \A i \in DOMAIN post : post[i] \in Mail
        BY DomainFacts
    <2> QED
        BY <2>1 DEF Mail
<1> QED
    BY <1>2, <1>3 DEF Unpaid

\* The same after a step.
LEMMA UnpaidNext ==
    ASSUME post' \in Seq(Mail)
    PROVE  /\ Unpaid' \in [DOMAIN post' -> Nat]
           /\ \A i \in DOMAIN post' : Unpaid'[i] = IF post'[i].got THEN 0 ELSE post'[i].amount
<1>1. \A i \in DOMAIN post' : post'[i] \in Mail
    BY DomainFacts
<1>2. \A i \in DOMAIN post' : post'[i].amount \in Nat
    BY <1>1 DEF Mail
<1> QED
    BY <1>2 DEF Unpaid

\* If purses and mails keep their sum, money is kept.
LEMMA MoneyKept ==
    ASSUME purse' \in [Player -> Nat], MoneyConserved,
           SumFunction(purse') + SumFunction(Unpaid') = SumFunction(purse) + SumFunction(Unpaid)
    PROVE  MoneyConserved'
<1>1. SumFunction(purse') + SumFunction(Unpaid') = Purse * Cardinality(Player)
    BY DEF MoneyConserved
<1>2. \A q \in Player : purse'[q] >= 0
    OBVIOUS
<1> QED
    BY <1>1, <1>2 DEF MoneyConserved

\* Money is kept when a new mail brings what one purse loses.
LEMMA MoneyPosted ==
    ASSUME purse \in [Player -> Nat], purse' \in [Player -> Nat],
           post \in Seq(Mail), post' \in Seq(Mail), MoneyConserved,
           NEW p \in Player, NEW l,
           \A q \in Player \ {p} : purse'[q] = purse[q],
           l \notin DOMAIN post, DOMAIN post' = DOMAIN post \cup {l},
           \A i \in DOMAIN post : post'[i] = post[i],
           purse'[p] + post'[l].amount = purse[p], ~post'[l].got
    PROVE  MoneyConserved'
<1> PICK u : u = Unpaid
    OBVIOUS
<1> PICK w : w = Unpaid'
    OBVIOUS
<1> PICK D : D = DOMAIN post
    OBVIOUS
<1>1. u \in [D -> Nat] /\ IsFiniteSet(D) /\ l \notin D
    BY UnpaidFacts
<1>2. w \in [D \cup {l} -> Nat]
    BY UnpaidNext
<1>3. \A i \in D : w[i] = u[i]
    BY UnpaidNext DEF Unpaid
<1>4. purse'[p] + w[l] = purse[p]
    BY UnpaidNext
<1>5. SumFunction(purse') + SumFunction(w) = SumFunction(purse) + SumFunction(u)
    <2>1. PICK f : f = purse
        OBVIOUS
    <2>2. PICK g : g = purse'
        OBVIOUS
    <2>3. f \in [Player -> Nat] /\ g \in [Player -> Nat] /\ IsFiniteSet(Player)
        BY <2>1, <2>2, MoneyAssumption
    <2>4. \A q \in Player \ {p} : g[q] = f[q]
        BY <2>1, <2>2
    <2>5. g[p] + w[l] = f[p]
        BY <1>4, <2>1, <2>2
    <2>6. SumFunction(g) + SumFunction(w) = SumFunction(f) + SumFunction(u)
        BY ONLY <1>1, <1>2, <1>3, <2>3, <2>4, <2>5, SumMoved
    <2> QED
        BY <2>1, <2>2, <2>6
<1> QED
    BY <1>5, MoneyKept

\* Money is kept when one purse gets what a mail has brought.
LEMMA MoneyTaken ==
    ASSUME purse \in [Player -> Nat], purse' \in [Player -> Nat],
           post \in Seq(Mail), post' \in Seq(Mail), MoneyConserved,
           NEW p \in Player, NEW l \in DOMAIN post,
           \A q \in Player \ {p} : purse'[q] = purse[q],
           DOMAIN post' = DOMAIN post,
           \A i \in DOMAIN post \ {l} : post'[i] = post[i],
           purse'[p] = purse[p] + post[l].amount, ~post[l].got, post'[l].got
    PROVE  MoneyConserved'
<1> PICK u : u = Unpaid
    OBVIOUS
<1> PICK w : w = Unpaid'
    OBVIOUS
<1> PICK D : D = DOMAIN post
    OBVIOUS
<1>1. u \in [D -> Nat] /\ IsFiniteSet(D) /\ l \in D
    BY UnpaidFacts
<1>2. w \in [D -> Nat]
    BY UnpaidNext
<1>3. \A i \in D \ {l} : w[i] = u[i]
    BY UnpaidNext DEF Unpaid
<1>4. purse'[p] + w[l] = purse[p] + u[l]
    <2>1. w[l] = 0 /\ u[l] = post[l].amount /\ u[l] \in Nat
        BY <1>1, UnpaidNext DEF Unpaid
    <2>2. purse'[p] = purse[p] + u[l] /\ purse'[p] \in Nat
        BY <2>1
    <2> QED
        BY <2>1, <2>2
<1>5. SumFunction(purse') + SumFunction(w) = SumFunction(purse) + SumFunction(u)
    <2>1. PICK f : f = purse
        OBVIOUS
    <2>2. PICK g : g = purse'
        OBVIOUS
    <2>3. f \in [Player -> Nat] /\ g \in [Player -> Nat] /\ IsFiniteSet(Player)
        BY <2>1, <2>2, MoneyAssumption
    <2>4. \A q \in Player \ {p} : g[q] = f[q]
        BY <2>1, <2>2
    <2>5. g[p] + w[l] = f[p] + u[l]
        BY <1>4, <2>1, <2>2
    <2>6. SumFunction(g) + SumFunction(w) = SumFunction(f) + SumFunction(u)
        BY ONLY <1>1, <1>2, <1>3, <2>3, <2>4, <2>5, SumHanded
    <2> QED
        BY <2>1, <2>2, <2>6
<1> QED
    BY <1>5, MoneyKept

\* At first all money is in the purses.
LEMMA MoneyInit ==
    ASSUME Init
    PROVE  MoneyConserved
<1>1. purse = [p \in Player |-> Purse] /\ post = <<>>
    BY DEF Init, TraderInit
<1> DEFINE none == {}
<1>2. Unpaid = [i \in none |-> 0]
    <2>1. DOMAIN post = none
        BY <1>1
    <2> QED
        BY <2>1 DEF Unpaid
<1>3. IsFiniteSet(none) /\ Cardinality(none) = 0
    BY FS_EmptySet
<1> HIDE DEF none
<1>4. SumFunction(Unpaid) = 0
    <2>1. SumFunction([i \in none |-> 0]) = 0 * Cardinality(none)
        <3>1. \A c \in Nat : SumFunction([i \in none |-> c]) = c * Cardinality(none)
            BY <1>3, SumOfSame
        <3> QED
            BY <3>1
    <2> QED
        BY <1>2, <1>3, <2>1
<1>5. SumFunction(purse) = Purse * Cardinality(Player)
    BY <1>1, SumOfSame, MoneyAssumption, TraderAssumption
<1>6. Purse * Cardinality(Player) \in Nat
    BY FS_CardinalityType, MoneyAssumption, TraderAssumption
<1> QED
    BY <1>1, <1>4, <1>5, <1>6, TraderAssumption DEF MoneyConserved

\* A sale moves the price from the buyer's purse to a mail.
LEMMA MoneyBought ==
    ASSUME MarketInv, MarketInv', MoneyConserved, NEW p \in Player, OrderBought(p)
    PROVE  MoneyConserved'
<1>1. BookInv /\ MoneyInv /\ MoneyInv'
    BY Parts DEF MarketInv, MoneyInv, TypeOK, TraderTypeOK
<1>2. PICK n \in DOMAIN orders : Payment(p, n)
    BY DEF OrderBought
<1>3. n \in Nat /\ orders[n].seller \in Player /\ orders[n].price \in Nat
    <2>1. orders[n] \in Order /\ n \in Nat
        BY <1>1, DomainFacts DEF BookInv
    <2>2. orders[n].seller \in Player /\ orders[n].price \in Price
        BY <2>1 DEF Order
    <2> QED
        BY <2>1, <2>2, BookAssumption
<1> PICK m : m = [to |-> orders[n].seller, order |-> n, amount |-> orders[n].price,
                  attached |-> FALSE, got |-> FALSE]
    OBVIOUS
<1> PICK l : l = Len(post) + 1
    OBVIOUS
<1>4. m \in Mail /\ m.amount = orders[n].price /\ ~m.got
    BY <1>3, Zenon DEF Mail
<1>5. post \in Seq(Mail) /\ post' = Append(post, m)
    BY <1>1, <1>2 DEF Payment, Posted, MoneyInv
<1>6. /\ l \notin DOMAIN post /\ DOMAIN post' = DOMAIN post \cup {l}
      /\ \A i \in DOMAIN post : post'[i] = post[i]
      /\ post'[l] = m
    BY <1>4, <1>5, AppendFacts
<1>7. /\ purse \in [Player -> Nat] /\ purse' \in [Player -> Nat] /\ post' \in Seq(Mail)
    BY <1>1 DEF MoneyInv
<1>8. purse'[p] + orders[n].price = purse[p] /\ \A q \in Player \ {p} : purse'[q] = purse[q]
    <2>1. purse' = [purse EXCEPT ![p] = purse[p] - orders[n].price]
        BY <1>2 DEF Payment
    <2>2. purse'[p] = purse[p] - orders[n].price /\ purse[p] \in Nat
        BY <1>7, <2>1
    <2> QED
        BY <1>3, <1>7, <2>1, <2>2
<1> QED
    BY <1>4, <1>5, <1>6, <1>7, <1>8, MoneyPosted

\* An offer's mail brings no money.
LEMMA MoneyOffered ==
    ASSUME MarketInv, MarketInv', MoneyConserved, NEW p \in Player, OrderCreated(p)
    PROVE  MoneyConserved'
<1>1. BookInv /\ MoneyInv /\ MoneyInv'
    BY Parts DEF MarketInv, MoneyInv, TypeOK, TraderTypeOK
<1>2. PICK n \in DOMAIN orders :
          post' = IF orders[n].type = "private" THEN Posted(orders[n].to, n, 0) ELSE post
    BY DEF OrderCreated
<1>3. /\ UNCHANGED purse /\ purse \in [Player -> Nat] /\ purse' \in [Player -> Nat]
      /\ post \in Seq(Mail) /\ post' \in Seq(Mail)
    BY <1>1 DEF OrderCreated, MoneyInv
<1>4. CASE post' = post
    BY <1>3, <1>4 DEF MoneyConserved, Unpaid
<1>5. CASE post' # post
    <2>1. orders[n].type = "private" /\ post' = Posted(orders[n].to, n, 0)
        BY <1>2, <1>5
    <2>2. orders[n].to \in Player /\ n \in Nat
        <3>1. orders[n] \in Order /\ n \in Nat
            BY <1>1, DomainFacts DEF BookInv
        <3> QED
            BY <2>1, <3>1 DEF Order
    <2> PICK m : m = [to |-> orders[n].to, order |-> n, amount |-> 0,
                      attached |-> FALSE, got |-> FALSE]
        OBVIOUS
    <2> PICK l : l = Len(post) + 1
        OBVIOUS
    <2>3. m.amount = 0 /\ ~m.got /\ m \in Mail
        BY <2>2, Zenon DEF Mail
    <2>4. post' = Append(post, m)
        BY <2>1 DEF Posted
    <2>5. /\ l \notin DOMAIN post /\ DOMAIN post' = DOMAIN post \cup {l}
          /\ \A i \in DOMAIN post : post'[i] = post[i]
          /\ post'[l] = m
        BY <1>3, <2>3, <2>4, AppendFacts
    <2>6. purse'[p] + post'[l].amount = purse[p] /\ \A q \in Player \ {p} : purse'[q] = purse[q]
        BY <1>3, <2>3, <2>5
    <2> QED
        BY <1>3, <2>3, <2>5, <2>6, MoneyPosted
<1> QED
    BY <1>4, <1>5

\* Collecting moves the money from a mail to a purse.
LEMMA MoneyCollected ==
    ASSUME MarketInv, MarketInv', MoneyConserved,
           NEW p \in Player, NEW i \in DOMAIN post, CollectMailItem(p, i)
    PROVE  MoneyConserved'
<1>1. MoneyInv /\ MoneyInv'
    BY Parts DEF MarketInv, MoneyInv, TypeOK, TraderTypeOK
<1>2. /\ purse \in [Player -> Nat] /\ purse' \in [Player -> Nat]
      /\ post \in Seq(Mail) /\ post' \in Seq(Mail)
    BY <1>1 DEF MoneyInv
<1>3. /\ ~post[i].got /\ post[i] \in Mail
      /\ post' = [post EXCEPT ![i] = [post[i] EXCEPT !.got = TRUE]]
      /\ purse' = [purse EXCEPT ![p] = purse[p] + post[i].amount]
    <2>1. post[i] \in Mail
        BY <1>2, DomainFacts
    <2> QED
        BY <2>1 DEF CollectMailItem
<1> PICK m : m = [post[i] EXCEPT !.got = TRUE]
    OBVIOUS
<1>4. m.got /\ m \in Mail
    BY <1>3, Zenon DEF Mail
<1>5. /\ DOMAIN post' = DOMAIN post /\ post'[i] = m
      /\ \A j \in DOMAIN post \ {i} : post'[j] = post[j]
    BY <1>2, <1>3, <1>4, UpdateFacts
<1>6. purse'[p] = purse[p] + post[i].amount /\ \A q \in Player \ {p} : purse'[q] = purse[q]
    BY <1>2, <1>3
<1> QED
    BY <1>2, <1>3, <1>4, <1>5, <1>6, MoneyTaken

\* No step makes or loses money.
LEMMA MoneyStep ==
    ASSUME MarketInv, MoneyConserved, [Next]_vars
    PROVE  MoneyConserved'
<1>1. MarketInv'
    BY StepInv
<1>2. ASSUME UNCHANGED <<purse, post>>
      PROVE  MoneyConserved'
    BY <1>2 DEF MoneyConserved, Unpaid
<1>3. CASE BookNext \/ UNCHANGED vars
    BY <1>2, <1>3 DEF BookNext, vars, traderVars
<1>4. ASSUME NEW p \in Player, HandlerStep(p)
      PROVE  MoneyConserved'
    <2>1. CASE OrderCreated(p)
        BY <1>1, <2>1, MoneyOffered
    <2>2. CASE OrderBought(p)
        BY <1>1, <2>2, MoneyBought
    <2>3. CASE \/ OrderWithdrawn(p) \/ HandlerEnds(p) \/ MarkRecord(p)
               \/ CallTimeout(p) /\ UNCHANGED traderVars
        BY <1>2, <2>3 DEF OrderWithdrawn, HandlerEnds, MarkRecord, traderVars
    <2> QED
        BY <1>4, <2>1, <2>2, <2>3 DEF HandlerStep
<1>5. ASSUME NEW p \in Player, ClientStep(p)
      PROVE  MoneyConserved'
    <2>1. CASE \E i \in DOMAIN post : CollectMailItem(p, i)
        BY <1>1, <2>1, MoneyCollected
    <2>2. CASE \/ \E k \in Kind, type \in Type, to \in Player \cup {NoPlayer}, price \in Price :
                     SendTransaction(p, k, type, to, price)
               \/ \E o \in DOMAIN orders : BuyOrder(p, o) \/ WithdrawOrder(p, o)
        BY <1>2, <2>2 DEF SendTransaction, BuyOrder, WithdrawOrder
    <2> QED
        BY <1>5, <2>1, <2>2 DEF ClientStep
<1> QED
    BY <1>3, <1>4, <1>5 DEF Next

\* What all players have, with what waits for them in mails, is what they began
\* with: no sale, offer, timeout or collected mail makes or loses money.
THEOREM MoneyConservedHolds == Spec => []MoneyConserved
<1>1. Init => MarketInv /\ MoneyConserved
    BY InitInv, MoneyInit
<1>2. MarketInv /\ MoneyConserved /\ [Next]_vars => (MarketInv /\ MoneyConserved)'
    BY StepInv, MoneyStep
<1> QED
    BY <1>1, <1>2, PTL DEF Spec
=============================================================================
