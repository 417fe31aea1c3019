-------------------------- MODULE RestCalls_proofs --------------------------
(***************************************************************************)
(* Proofs about a call of a method: what it makes of its arguments, and    *)
(* the other functions without state (AlorFunctions), for all arguments,   *)
(* lists of agreements and times; then the request in the retry wrapper    *)
(* (RestRetry), for every number of attempts and every 401 limit below it. *)
(***************************************************************************)
EXTENDS RestRetry, AlorFunctions, SequenceTheorems, WellFoundedInduction, TLAPS

----------------------------------------------------------------------------
(* The order methods: the checks of the ten that change something, and     *)
(* what every other row has in common.                                     *)

\* The arguments that are not sent as they are given.
Adjusted == {"seconds_from", "depth", "condition"}

LEMMA CreateRows ==
    \A m \in DOMAIN Creates :
        /\ Creates[m].checks =
              OrderChecks \cup (Creates[m].always \cap {"price", "trigger_price", "condition"})
        /\ Creates[m].reqid
        /\ Creates[m].exchange = "str"
        /\ (Creates[m].truthy \cup Creates[m].given) \cap Adjusted = {}
<1> DEFINE Checked(row) ==
        /\ row.checks =
              OrderChecks \cup (row.always \cap {"price", "trigger_price", "condition"})
        /\ row.reqid
        /\ row.exchange = "str"
        /\ (row.truthy \cup row.given) \cap Adjusted = {}
<1> USE DEF OrderChecks, OrderFields, Order, Row, Iceberg, Adjusted
<1>1. Checked(create_market_order)
  BY DEF create_market_order
<1>2. Checked(create_limit_order)
  BY DEF create_limit_order
<1>3. Checked(create_stop_order)
  BY DEF create_stop_order
<1>4. Checked(create_limit_stop_order)
  BY DEF create_limit_stop_order
<1> HIDE DEF Checked
<1>5. \A m \in DOMAIN Creates : Checked(Creates[m])
  BY <1>1, <1>2, <1>3, <1>4 DEF Creates
<1> QED
  BY <1>5 DEF Checked

LEMMA UpdateRows ==
    \A m \in DOMAIN Updates :
        /\ Updates[m].checks =
              OrderChecks \cup (Updates[m].always \cap {"price", "trigger_price"})
        /\ Updates[m].reqid
        /\ Updates[m].exchange = "str"
        /\ (Updates[m].truthy \cup Updates[m].given) \cap Adjusted = {}
<1> DEFINE Checked(row) ==
        /\ row.checks = OrderChecks \cup (row.always \cap {"price", "trigger_price"})
        /\ row.reqid
        /\ row.exchange = "str"
        /\ (row.truthy \cup row.given) \cap Adjusted = {}
<1> USE DEF OrderChecks, OrderFields, Order, Row, Iceberg, Adjusted
<1>1. Checked(update_market_order)
  BY DEF update_market_order
<1>2. Checked(update_limit_order)
  BY DEF update_limit_order
<1>3. Checked(update_stop_order)
  BY DEF update_stop_order
<1>4. Checked(update_stop_limit_order)
  BY DEF update_stop_limit_order
<1> HIDE DEF Checked
<1>5. \A m \in DOMAIN Updates : Checked(Updates[m])
  BY <1>1, <1>2, <1>3, <1>4 DEF Updates
<1> QED
  BY <1>5 DEF Checked

LEMMA DeleteRows ==
    \A m \in DOMAIN Deletes :
        /\ Deletes[m].checks = {"moex"}
        /\ Deletes[m].reqid
        /\ Deletes[m].always \cap {"side", "condition"} = {}
        /\ Deletes[m].exchange = "str"
        /\ (Deletes[m].truthy \cup Deletes[m].given) \cap Adjusted = {}
<1> DEFINE Checked(row) ==
        /\ row.checks = {"moex"}
        /\ row.reqid
        /\ row.always \cap {"side", "condition"} = {}
        /\ row.exchange = "str"
        /\ (row.truthy \cup row.given) \cap Adjusted = {}
<1>1. Checked(delete_order)
  BY DEF delete_order, Row, Adjusted
<1>2. Checked(delete_all_orders)
  BY DEF delete_all_orders, Row, Adjusted
<1> HIDE DEF Checked
<1>3. \A m \in DOMAIN Deletes : Checked(Deletes[m])
  BY <1>1, <1>2 DEF Deletes
<1> QED
  BY <1>3 DEF Checked

\* A row that changes nothing: nothing is checked and neither a side nor a
\* condition is sent without a look at it.
Unchecked(row) ==
    /\ row.checks = {}
    /\ row.always \cap {"side", "condition"} = {}
    /\ (row.truthy \cup row.given) \cap Adjusted = {}

Harmless(table) ==
    \A m \in DOMAIN table :
        /\ Unchecked(table[m])
        /\ "exchange" \in table[m].always => table[m].exchange \in {"value", "str"}

LEMMA BesideRows ==
    ASSUME NEW f, NEW g
    PROVE  /\ DOMAIN Beside(f, g) = DOMAIN f \cup DOMAIN g
           /\ \A m \in DOMAIN f : Beside(f, g)[m] = f[m]
BY DEF Beside

LEMMA BesideHarmless ==
    ASSUME NEW f, NEW g, Harmless(f), Harmless(g)
    PROVE  Harmless(Beside(f, g))
<1> SUFFICES ASSUME NEW m \in DOMAIN f \cup DOMAIN g
             PROVE  LET row == Beside(f, g)[m]
                    IN  /\ Unchecked(row)
                        /\ "exchange" \in row.always => row.exchange \in {"value", "str"}
  BY BesideRows DEF Harmless
<1>1. CASE m \in DOMAIN f
  <2>1. Beside(f, g)[m] = f[m]
    BY <1>1 DEF Beside
  <2> QED
    BY <1>1, <2>1 DEF Harmless
<1>2. CASE m \in DOMAIN g \ DOMAIN f
  <2>1. Beside(f, g)[m] = g[m]
    BY <1>2 DEF Beside
  <2> QED
    BY <1>2, <2>1 DEF Harmless
<1> QED
  BY <1>1, <1>2

LEMMA ReadsHarmless == Harmless(Reads)
<1>1. Harmless(ClientReads)
  BY DEF Harmless, Unchecked, Adjusted, HistoryFilters, ClientReads, Read, Row
<1>2. Harmless(TradeHistoryReads)
  BY DEF Harmless, Unchecked, Adjusted, HistoryFilters, TradeHistoryReads, Read, Row
<1>3. Harmless(MarketReads)
  BY DEF Harmless, Unchecked, Adjusted, HistoryFilters, MarketReads, Row
<1>4. Harmless(OrderReads)
  BY DEF Harmless, Unchecked, Adjusted, HistoryFilters, OrderReads, Row
<1>5. Harmless(StopOrderReads)
  BY DEF Harmless, Unchecked, Adjusted, HistoryFilters, StopOrderReads, Row
<1> QED
  BY <1>1, <1>2, <1>3, <1>4, <1>5, BesideHarmless DEF Reads

LEMMA EstimatesHarmless == Harmless(Estimates)
BY DEF Harmless, Unchecked, Adjusted, HistoryFilters, Estimates, estimate_order, Row

LEMMA SubscribesUnchecked == \A m \in DOMAIN Subscribes : Unchecked(Subscribes[m])
BY DEF Unchecked, Adjusted, Subscribes, BarsSubscription, OrdersSubscription,
       PortfolioSubscription, Row

\* Where a method has its row from.
LEMMA MethodRows ==
    /\ \A m \in DOMAIN Creates : Methods[m] = Creates[m]
    /\ \A m \in DOMAIN Updates : Methods[m] = Updates[m] /\ m \notin DOMAIN Creates
    /\ \A m \in DOMAIN Deletes :
          Methods[m] = Deletes[m] /\ m \notin DOMAIN Creates /\ m \notin DOMAIN Updates
    /\ Mutating = DOMAIN Creates \cup DOMAIN Updates \cup DOMAIN Deletes
    /\ \A m \in DOMAIN Methods \ Mutating :
          /\ Unchecked(Methods[m])
          /\ m \notin DOMAIN Subscribes /\ "exchange" \in Methods[m].always
                => Methods[m].exchange \in {"value", "str"}
    /\ \A m \in Mutating : m \notin DOMAIN Subscribes
<1>1. /\ DOMAIN Creates \cap DOMAIN Updates = {}
      /\ DOMAIN Creates \cap DOMAIN Deletes = {}
      /\ DOMAIN Updates \cap DOMAIN Deletes = {}
  BY DEF Creates, Updates, Deletes
<1>2. (DOMAIN Creates \cup DOMAIN Updates \cup DOMAIN Deletes) \cap DOMAIN Subscribes = {}
  BY DEF Creates, Updates, Deletes, Subscribes
<1>3. /\ DOMAIN Orders = DOMAIN Creates \cup DOMAIN Updates \cup DOMAIN Deletes
      /\ \A m \in DOMAIN Creates : Orders[m] = Creates[m]
      /\ \A m \in DOMAIN Updates : Orders[m] = Updates[m]
      /\ \A m \in DOMAIN Deletes : Orders[m] = Deletes[m]
  <2>1. DOMAIN Beside(Updates, Deletes) = DOMAIN Updates \cup DOMAIN Deletes
    BY BesideRows
  <2>2. \A m \in DOMAIN Updates : Beside(Updates, Deletes)[m] = Updates[m]
    BY BesideRows
  <2>3. \A m \in DOMAIN Deletes : Beside(Updates, Deletes)[m] = Deletes[m]
    <3> SUFFICES ASSUME NEW m \in DOMAIN Deletes PROVE Beside(Updates, Deletes)[m] = Deletes[m]
      OBVIOUS
    <3>1. m \in DOMAIN Deletes /\ m \notin DOMAIN Updates
      BY <1>1
    <3> QED
      BY <3>1 DEF Beside
  <2>4. DOMAIN Orders = DOMAIN Creates \cup DOMAIN Updates \cup DOMAIN Deletes
    <3>1. DOMAIN Orders = DOMAIN Creates \cup DOMAIN Beside(Updates, Deletes)
      BY BesideRows DEF Orders
    <3> QED
      BY <2>1, <3>1
  <2>5. \A m \in DOMAIN Creates : Orders[m] = Creates[m]
    BY BesideRows DEF Orders
  <2>6. \A m \in DOMAIN Updates \cup DOMAIN Deletes : Orders[m] = Beside(Updates, Deletes)[m]
    <3> SUFFICES ASSUME NEW m \in DOMAIN Updates \cup DOMAIN Deletes
                 PROVE  Orders[m] = Beside(Updates, Deletes)[m]
      OBVIOUS
    <3>1. m \in DOMAIN Beside(Updates, Deletes) /\ m \notin DOMAIN Creates
      BY <1>1, <2>1
    <3> QED
      BY <3>1 DEF Beside, Orders
  <2> QED
    BY <2>2, <2>3, <2>4, <2>5, <2>6
<1> DEFINE others == Beside(Reads, Beside(Estimates, Subscribes))
<1>4. \A m \in DOMAIN others :
         /\ Unchecked(others[m])
         /\ m \notin DOMAIN Subscribes /\ "exchange" \in others[m].always
               => others[m].exchange \in {"value", "str"}
  BY ReadsHarmless, EstimatesHarmless, SubscribesUnchecked DEF Harmless, Beside
<1>5. \A m \in DOMAIN Orders : Methods[m] = Orders[m]
  BY BesideRows DEF Methods
<1>6. \A m \in DOMAIN Methods \ DOMAIN Orders : m \in DOMAIN others /\ Methods[m] = others[m]
  BY DEF Methods, Beside
<1> QED
  BY <1>1, <1>2, <1>3, <1>4, <1>5, <1>6 DEF Mutating

\* Each check by itself.
LEMMA FailsOnly ==
    ASSUME NEW a
    PROVE  /\ Fails("symbol", a) <=> a["symbol"] = ""
           /\ Fails("portfolio", a) <=> a["portfolio"] = ""
           /\ Fails("side", a) <=> a["side"] = None
           /\ Fails("condition", a) <=> a["condition"] = None
           /\ Fails("quantity", a) <=> a["quantity"] <= 0
           /\ Fails("price", a) <=> a["price"] <= 0
           /\ Fails("trigger_price", a) <=> a["trigger_price"] <= 0
           /\ Fails("moex", a) <=> a["exchange"] # "MOEX"
BY DEF Fails

LEMMA RequestRaises ==
    ASSUME NEW m, NEW a
    PROVE  Request(m, a).raised = "ValueError" <=>
              \E check \in Methods[m].checks : Fails(check, a)
BY DEF Request

LEMMA RejectsTheBad ==
    ASSUME NEW m \in DOMAIN Methods, NEW a
    PROVE  RejectsExactlyTheBad(m, a, Request(m, a))
<1> DEFINE Failing == \E check \in Methods[m].checks : Fails(check, a)
<1>1. CASE m \in DOMAIN Creates
  <2>1. Methods[m].checks = OrderChecks
            \cup (Methods[m].always \cap {"price", "trigger_price", "condition"})
    BY <1>1, MethodRows, CreateRows
  <2>2. Failing <=> BadOrder(m, a)
    BY <1>1, <2>1, FailsOnly DEF BadOrder, OrderChecks
  <2> QED
    BY <1>1, <2>2, MethodRows, RequestRaises DEF RejectsExactlyTheBad, Bad
<1>2. CASE m \in DOMAIN Updates
  <2>1. Methods[m].checks =
            OrderChecks \cup (Methods[m].always \cap {"price", "trigger_price"})
    BY <1>2, MethodRows, UpdateRows
  <2>2. Failing <=> BadOrder(m, a)
    BY <1>2, <2>1, FailsOnly, MethodRows DEF BadOrder, OrderChecks
  <2> QED
    BY <1>2, <2>2, MethodRows, RequestRaises DEF RejectsExactlyTheBad, Bad
<1>3. CASE m \in DOMAIN Deletes
  <2>1. Methods[m].checks = {"moex"}
    BY <1>3, MethodRows, DeleteRows
  <2>2. Failing <=> a["exchange"] # "MOEX"
    BY <2>1, FailsOnly
  <2> QED
    BY <1>3, <2>2, MethodRows, RequestRaises DEF RejectsExactlyTheBad, Bad
<1>4. CASE m \notin Mutating
  BY <1>4, MethodRows, RequestRaises DEF Unchecked, RejectsExactlyTheBad, Bad
<1> QED
  BY <1>1, <1>2, <1>3, <1>4, MethodRows

LEMMA NumbersMutations ==
    ASSUME NEW m \in DOMAIN Methods, NEW a
    PROVE  MutationsNumbered(m, Request(m, a))
<1>1. m \in Mutating => Methods[m].reqid
  BY MethodRows, CreateRows, UpdateRows, DeleteRows
<1> QED
  BY <1>1 DEF MutationsNumbered, Request

LEMMA OptionalNotAdjusted ==
    \A m \in DOMAIN Methods : (Methods[m].truthy \cup Methods[m].given) \cap Adjusted = {}
BY MethodRows, CreateRows, UpdateRows, DeleteRows DEF Unchecked

\* What is sent as None was given as None, and is sent always.
LEMMA SentNone ==
    ASSUME NEW m \in DOMAIN Methods, NEW a, WellTyped(m, a),
           NEW p \in DOMAIN Request(m, a).fields,
           Request(m, a).raised = "nothing",
           Request(m, a).fields[p] = None
    PROVE  p \in Methods[m].always /\ a[p] = None
<1> DEFINE row == Methods[m]
<1>1. /\ p \in row.always \/ (p \in row.truthy \cup row.given /\ a[p] # None)
      /\ Sent(row, p, a[p]) = None
  BY DEF Request
<1>2. p \in Adjusted => p \in row.always
  BY <1>1, OptionalNotAdjusted
<1>3. CASE p \in {"seconds_from", "depth"}
  <2>1. a[p] \in Int
    BY <1>2, <1>3 DEF WellTyped, Adjusted
  <2>2. Sent(row, p, a[p]) \in Int
    BY <1>3, <2>1 DEF Sent
  <2> QED
    BY <1>1, <2>2, NoneAssumption
<1>4. CASE p = "condition"
  <2>1. a[p] \in DOMAIN LowerCase \cup {None}
    BY <1>2, <1>4 DEF WellTyped, Adjusted
  <2>2. \A v \in DOMAIN LowerCase : LowerCase[v] # None
    BY NoneAssumption
  <2>3. a[p] # None => Sent(row, p, a[p]) \in {LowerCase[a[p]], a[p]}
    BY <1>4 DEF Sent
  <2> QED
    BY <1>1, <1>2, <1>4, <2>1, <2>2, <2>3 DEF Adjusted
<1>5. CASE p \notin Adjusted
  <2>1. Sent(row, p, a[p]) = a[p]
    BY <1>5 DEF Sent, Adjusted
  <2> QED
    BY <1>1, <2>1
<1> QED
  BY <1>3, <1>4, <1>5 DEF Adjusted

LEMMA KeepsNoneHere ==
    ASSUME NEW m \in DOMAIN Methods, NEW a, WellTyped(m, a)
    PROVE  NoneStaysHere(m, Request(m, a))
<1> SUFFICES ASSUME Request(m, a).raised = "nothing",
                    NEW p \in DOMAIN Request(m, a).fields,
                    Request(m, a).fields[p] = None
             PROVE  \/ p = "exchange" /\ Methods[m].exchange = "str" /\ m \notin DOMAIN Deletes
                    \/ p = "condition" /\ m \in DOMAIN Updates
  BY DEF NoneStaysHere
<1>1. p \in Methods[m].always /\ a[p] = None
  BY SentNone
<1>2. \A check \in Methods[m].checks : ~ Fails(check, a)
  BY DEF Request
<1>3. ~ (Methods[m].exchange = "value" /\ a["exchange"] = None)
  BY DEF Request, ReadsValue
<1>4. CASE p = "exchange"
  <2>1. m \notin DOMAIN Subscribes
    BY <1>1, <1>4 DEF WellTyped
  <2>2. m \notin DOMAIN Deletes
    <3> SUFFICES ASSUME m \in DOMAIN Deletes PROVE FALSE
      OBVIOUS
    <3>1. "moex" \in Methods[m].checks
      BY MethodRows, DeleteRows
    <3>2. a["exchange"] = "MOEX"
      BY <1>2, <3>1, FailsOnly
    <3> QED
      BY <1>1, <1>4, <3>2, NoneAssumption
  <2>3. Methods[m].exchange \in {"value", "str"}
    BY <1>1, <1>4, <2>1, <2>2, MethodRows, CreateRows, UpdateRows
  <2> QED
    BY <1>1, <1>3, <1>4, <2>2, <2>3
<1>5. CASE p \in {"side", "condition"}
  <2>1. m \in DOMAIN Creates \cup DOMAIN Updates
    BY <1>1, <1>5, MethodRows, DeleteRows DEF Unchecked
  <2>2. "side" \in Methods[m].checks
    BY <2>1, MethodRows, CreateRows, UpdateRows DEF OrderChecks
  <2>3. p = "condition"
    BY <1>1, <1>2, <1>5, <2>2, FailsOnly
  <2>4. m \in DOMAIN Creates => "condition" \in Methods[m].checks
    BY <1>1, <2>3, MethodRows, CreateRows
  <2>5. m \notin DOMAIN Creates
    BY <1>1, <1>2, <2>3, <2>4, FailsOnly
  <2> QED
    BY <2>1, <2>3, <2>5
<1> QED
  BY <1>1, <1>4, <1>5 DEF WellTyped

----------------------------------------------------------------------------
(* The hours of Moscow.                                                    *)

LEMMA InstantsAre ==
    ASSUME NEW wall \in Int, NEW u
    PROVE  u \in Instants(wall) <=> u \in Int /\ u + Offset(u) = wall
BY DEF Instants, Offset

LEMMA OffsetType == ASSUME NEW u \in Int PROVE Offset(u) \in {3, 4}
BY DEF Offset

\* One instant is the first, one the last of those at which a clock shows a
\* time; there are two at most.
LEMMA FromMoscowIs ==
    ASSUME NEW wall \in Int, NEW fold \in 0..1
    PROVE  /\ Instants(wall) = {} => FromMoscow(wall, fold) = wall - 3 - fold
           /\ Instants(wall) # {} =>
                 /\ FromMoscow(wall, fold) \in Instants(wall)
                 /\ \A u \in Instants(wall) :
                       IF fold = 0 THEN FromMoscow(wall, fold) <= u
                                   ELSE u <= FromMoscow(wall, fold)
<1>1. CASE Instants(wall) = {}
  BY <1>1 DEF FromMoscow
<1>2. CASE Instants(wall) # {}
  <2>1. \A u \in Instants(wall) : u \in {wall - 4, wall - 3}
    BY DEF Instants
  <2>2. \E u \in Instants(wall) : \A v \in Instants(wall) : u <= v
    BY <1>2, <2>1
  <2>3. \E u \in Instants(wall) : \A v \in Instants(wall) : v <= u
    BY <1>2, <2>1
  <2> QED
    BY <1>2, <2>2, <2>3 DEF FromMoscow
<1> QED
  BY <1>1, <1>2

LEMMA InMoscowIs ==
    ASSUME NEW u \in Int
    PROVE  /\ InMoscow(u).zone = "msk"
           /\ InMoscow(u).wall = u + Offset(u)
           /\ InMoscow(u).wall \in Int
           /\ InMoscow(u).fold \in 0..1
           /\ InMoscow(u).fold = 1 <=> \E v \in Instants(u + Offset(u)) : v < u
BY OffsetType DEF InMoscow

\* An instant is read back from what the clock shows and fold.
LEMMA ThereAndBack ==
    ASSUME NEW u \in Int
    PROVE  FromMoscow(InMoscow(u).wall, InMoscow(u).fold) = u
<1> DEFINE wall == InMoscow(u).wall
           fold == InMoscow(u).fold
           back == FromMoscow(wall, fold)
<1>1. wall = u + Offset(u) /\ wall \in Int /\ fold \in 0..1
  BY InMoscowIs
<1>2. u \in Instants(wall)
  BY <1>1, InstantsAre
<1>3. back \in Instants(wall) /\ \A v \in Instants(wall) : IF fold = 0 THEN back <= v ELSE v <= back
  BY <1>1, <1>2, FromMoscowIs
<1>4. \A v \in Instants(wall) : v \in {wall - 4, wall - 3}
  BY DEF Instants
<1>5. fold = 1 <=> \E v \in Instants(wall) : v < u
  BY <1>1, InMoscowIs
<1> QED
  BY <1>1, <1>2, <1>3, <1>4, <1>5

LEMMA FromMoscowType ==
    ASSUME NEW wall \in Int, NEW fold \in 0..1
    PROVE  FromMoscow(wall, fold) \in Int
<1>1. \A u \in Instants(wall) : u \in Int
  BY DEF Instants
<1> QED
  BY <1>1, FromMoscowIs

\* A Moscow datetime made of an instant stands for that instant, whether it
\* has kept its tzinfo or not; so does a UTC one.
LEMMA AwareOrNaive ==
    ASSUME NEW u \in Int
    PROVE  /\ Instant(Assume(InMoscow(u), "msk")) = u
           /\ Instant(Assume(Naive(InMoscow(u)), "msk")) = u
           /\ InMoscow(u).wall = u + Offset(u)
           /\ Naive(InMoscow(u)).wall = u + Offset(u)
           /\ Instant(Assume([zone |-> "utc", wall |-> u, fold |-> 0], "utc")) = u
           /\ Instant(Assume([zone |-> "naive", wall |-> u, fold |-> 0], "utc")) = u
           /\ Instant(Assume(Naive([zone |-> "utc", wall |-> u, fold |-> 0]), "utc")) = u
<1>1. /\ InMoscow(u) = [zone |-> "msk", wall |-> InMoscow(u).wall, fold |-> InMoscow(u).fold]
      /\ InMoscow(u).wall = u + Offset(u)
  BY DEF InMoscow
<1> DEFINE w == InMoscow(u).wall
           f == InMoscow(u).fold
<1>2. FromMoscow(w, f) = u
  BY ThereAndBack
<1> HIDE DEF w, f
<1>3. InMoscow(u) = [zone |-> "msk", wall |-> w, fold |-> f]
  BY <1>1 DEF w, f
<1>4. Naive(InMoscow(u)) = [zone |-> "naive", wall |-> w, fold |-> f]
  BY <1>3 DEF Naive
<1>5. Assume(InMoscow(u), "msk") = [zone |-> "msk", wall |-> w, fold |-> f]
  BY <1>3 DEF Assume
<1>6. Assume(Naive(InMoscow(u)), "msk") = [zone |-> "msk", wall |-> w, fold |-> f]
  BY <1>4 DEF Assume
<1>7. Instant([zone |-> "msk", wall |-> w, fold |-> f]) = u
  BY <1>2 DEF Instant
<1>8. w = u + Offset(u)
  BY <1>1 DEF w
<1>9. /\ Instant(Assume([zone |-> "utc", wall |-> u, fold |-> 0], "utc")) = u
      /\ Instant(Assume([zone |-> "naive", wall |-> u, fold |-> 0], "utc")) = u
      /\ Instant(Assume(Naive([zone |-> "utc", wall |-> u, fold |-> 0]), "utc")) = u
  BY DEF Instant, Assume, Naive
<1> QED
  BY <1>1, <1>4, <1>5, <1>6, <1>7, <1>8, <1>9

LEMMA EveryInstantRoundTrips ==
    ASSUME NEW u \in Int, NEW tzinfo \in BOOLEAN
    PROVE  RoundTrips(u, tzinfo)
<1>1. msk_datetime_to_utc_timestamp(utc_timestamp_to_msk_datetime(u)) = u
  BY AwareOrNaive DEF msk_datetime_to_utc_timestamp, utc_timestamp_to_msk_datetime
<1> DEFINE there == utc_to_msk_datetime([zone |-> "naive", wall |-> u, fold |-> 0], tzinfo)
           back == msk_to_utc_datetime(there, tzinfo)
           utc == [zone |-> "utc", wall |-> u, fold |-> 0]
<1>2. there = IF tzinfo THEN InMoscow(u) ELSE Naive(InMoscow(u))
  BY AwareOrNaive DEF utc_to_msk_datetime
<1>3. Instant(Assume(there, "msk")) = u
  BY <1>2, AwareOrNaive
<1> HIDE DEF there
<1>4. back = IF tzinfo THEN utc ELSE Naive(utc)
  BY <1>3 DEF msk_to_utc_datetime
<1>5. Instant(Assume(back, "utc")) = u
  BY <1>4, AwareOrNaive
<1> QED
  BY <1>1, <1>5 DEF RoundTrips, there

LEMMA EveryWallClockIsKept ==
    ASSUME NEW dt \in [zone : {"naive", "utc", "msk"}, wall : Int, fold : 0..1],
           NEW tzinfo \in BOOLEAN
    PROVE  KeepsWallClock(dt, tzinfo)
<1> DEFINE i == msk_datetime_to_utc_timestamp(dt)
           utc == [zone |-> "utc", wall |-> i, fold |-> 0]
           there == msk_to_utc_datetime(dt, tzinfo)
           back == utc_to_msk_datetime(there, tzinfo)
<1>1. i = IF dt.zone = "utc" THEN dt.wall ELSE FromMoscow(dt.wall, dt.fold)
  BY DEF msk_datetime_to_utc_timestamp, Instant, Assume
<1>2. i \in Int
  BY <1>1, FromMoscowType
<1>3. there = IF tzinfo THEN utc ELSE Naive(utc)
  BY DEF msk_to_utc_datetime, msk_datetime_to_utc_timestamp
<1> HIDE DEF i, there
<1>4. Instant(Assume(there, "utc")) = i
  BY <1>2, <1>3, AwareOrNaive
<1>5. back = IF tzinfo THEN InMoscow(i) ELSE Naive(InMoscow(i))
  BY <1>4 DEF utc_to_msk_datetime
<1> HIDE DEF back
<1>6. Instant(Assume(back, "msk")) = i /\ back.wall = i + Offset(i)
  BY <1>2, <1>5, AwareOrNaive
<1>7. ASSUME dt.zone # "utc", Instants(dt.wall) # {}
      PROVE  back.wall = dt.wall
  <2>1. i \in Instants(dt.wall)
    BY <1>1, <1>7, FromMoscowIs
  <2> QED
    BY <1>6, <2>1, InstantsAre
<1> QED
  BY <1>6, <1>7 DEF KeepsWallClock, i, back, there

----------------------------------------------------------------------------
(* The accounts                                                            *)

\* Induction over the naturals, by the least of them outside the set.
LEMMA SetInduction ==
    ASSUME NEW S, 0 \in S, \A n \in Nat : n \in S => n + 1 \in S
    PROVE  Nat \subseteq S
<1> DEFINE T == {n \in Nat : n \notin S}
           R == OpToRel(<, Nat)
<1> SUFFICES ASSUME T # {} PROVE FALSE
  OBVIOUS
<1>1. PICK x \in T : \A y \in T : ~ (<<y, x>> \in R)
  <2>1. IsWellFoundedOn(R, Nat)
    BY NatLessThanWellFounded
  <2>2. T \subseteq Nat
    OBVIOUS
  <2> HIDE DEF T, R
  <2> QED
    BY <2>1, <2>2, WFMin
<1>2. x # 0 /\ x - 1 \in T
  OBVIOUS
<1>3. <<x - 1, x>> \in R
  BY <1>2 DEF OpToRel
<1> QED
  BY <1>1, <1>2, <1>3

\* After agreements with three portfolios each, the next begins where the
\* loop expects it.
LEMMA StartsByThrees ==
    ASSUME NEW n \in Nat, NEW starts, NEW i \in 1..n,
           \A j \in 1..n : starts[j] \in Int,
           starts[1] = 1,
           \A j \in 1..(i - 1) : starts[j + 1] - starts[j] = 3
    PROVE  starts[i] = 3 * i - 2
<1> DEFINE S == {k \in Nat : k + 1 <= i => starts[k + 1] = 3 * k + 1}
<1>1. 0 \in S
  OBVIOUS
<1>2. \A k \in Nat : k \in S => k + 1 \in S
  <2> SUFFICES ASSUME NEW k \in Nat, k \in S, (k + 1) + 1 <= i
               PROVE  starts[(k + 1) + 1] = 3 * (k + 1) + 1
    OBVIOUS
  <2>1. k + 1 \in 1..(i - 1) /\ starts[k + 1] = 3 * k + 1
    OBVIOUS
  <2> DEFINE next == starts[(k + 1) + 1]
  <2>2. next - starts[k + 1] = 3
    BY <2>1
  <2>3. next \in Int
    OBVIOUS
  <2> HIDE DEF next
  <2>4. next = 3 * (k + 1) + 1
    BY <2>1, <2>2, <2>3
  <2> QED
    BY <2>4 DEF next
<1> HIDE DEF S
<1>3. Nat \subseteq S
  BY <1>1, <1>2, SetInduction
<1>4. i - 1 \in S
  BY <1>3
<1> QED
  BY <1>4 DEF S

LEMMA SliceOfOwn ==
    ASSUME NEW portfolios, Len(portfolios) \in Nat,
           NEW i \in Nat, NEW end \in Int,
           3 * i - 2 <= end, end <= Len(portfolios) + 1,
           end = 3 * i + 1 \/ (end <= 3 * i /\ end = Len(portfolios) + 1)
    PROVE  Slice(portfolios, i) = (3 * i - 2)..(end - 1)
BY DEF Slice

LEMMA Attributed ==
    ASSUME NEW portfolios, Len(portfolios) \in Nat,
           NEW starts, Len(starts) \in Nat,
           \A j \in 1..Len(starts) : starts[j] \in 1..(Len(portfolios) + 1),
           Means(portfolios, starts)
    PROVE  AccountsOfTheirAgreement(portfolios, starts)
<1> DEFINE agreements == Len(starts) - 1
           accounts == ParseAccounts(agreements, portfolios)
           own(i) == starts[i]..(starts[i + 1] - 1)
<1> SUFFICES ASSUME NEW i \in 1..agreements,
                    \A j \in 1..(i - 1) : starts[j + 1] - starts[j] = 3,
                    \/ starts[i + 1] - starts[i] = 3
                    \/ starts[i + 1] - starts[i] < 3 /\ i = agreements
             PROVE  {a.portfolio : a \in accounts[i]} = Recognised(portfolios, own(i))
  BY DEF AccountsOfTheirAgreement
<1>1. i + 1 \in 1..Len(starts) /\ i \in 1..Len(starts)
  OBVIOUS
<1>2. \A j \in 1..Len(starts) : starts[j] \in Int
  OBVIOUS
<1>3. starts[i] = 3 * i - 2
  BY <1>1, <1>2, StartsByThrees DEF Means
<1>4. /\ starts[i] <= starts[i + 1]
      /\ i = agreements => starts[i + 1] = Len(portfolios) + 1
  BY DEF Means
<1>5. Slice(portfolios, i) = own(i)
  <2>1. starts[i + 1] \in Int /\ starts[i + 1] <= Len(portfolios) + 1
    BY <1>1
  <2> QED
    BY <1>3, <1>4, <2>1, SliceOfOwn
<1> DEFINE places == Recognised(portfolios, own(i))
<1>6. accounts[i] = {Account(portfolios, j) : j \in places}
  BY <1>5 DEF ParseAccounts
<1>7. \A j : Account(portfolios, j).portfolio = j
  BY DEF Account
<1> HIDE DEF own, accounts, places
<1>8. {a.portfolio : a \in {Account(portfolios, j) : j \in places}} = places
  BY <1>7
<1> QED
  BY <1>6, <1>8 DEF places

----------------------------------------------------------------------------
(* Every case that is reached                                              *)

\* A case is a call with arguments of its method and what it comes to, or a
\* time in one of the zones.
CaseOk ==
    /\ case.of = "call" =>
          /\ case.m \in DOMAIN Methods
          /\ WellTyped(case.m, case.a)
          /\ case.r = Request(case.m, case.a)
    /\ case.of = "accounts" => case.o \in Ownership
    /\ case.of = "time" =>
          /\ case.u \in Int /\ case.tzinfo \in BOOLEAN
          /\ case.dt \in [zone : {"naive", "utc", "msk"}, wall : Int, fold : 0..1]

LEMMA CaseInvariant == Cases => []CaseOk
<1>1. NoCase => CaseOk
  BY DEF NoCase, CaseOk
<1>2. CaseOk /\ [SomeCase]_case => CaseOk'
  <2> SUFFICES ASSUME CaseOk, [SomeCase]_case PROVE CaseOk'
    OBVIOUS
  <2>1. CASE CallMethod
    BY <2>1, ArgumentsAssumption DEF CallMethod, CaseOk
  <2>2. CASE ParseToken
    BY <2>2 DEF ParseToken, CaseOk
  <2>3. CASE ConvertTime
    BY <2>3, TimesAssumption DEF ConvertTime, CaseOk
  <2>4. CASE UNCHANGED case
    BY <2>4 DEF CaseOk
  <2> QED
    BY <2>1, <2>2, <2>3, <2>4 DEF SomeCase
<1> QED
  BY <1>1, <1>2, PTL DEF Cases

\* The ten methods that change something refuse the malformed orders before
\* the network, and only these, whatever the arguments.
THEOREM Validation == Cases => []OrdersValidated
<1>1. CaseOk => OrdersValidated
  BY RejectsTheBad DEF CaseOk, OrdersValidated
<1> QED
  BY <1>1, CaseInvariant, PTL

\* Whatever changes something at the broker goes out with an X-REQID.
THEOREM Numbering == Cases => []RepeatableMutations
<1>1. CaseOk => RepeatableMutations
  BY NumbersMutations DEF CaseOk, RepeatableMutations
<1> QED
  BY <1>1, CaseInvariant, PTL

\* None goes out as text in the two known places only, for all arguments of
\* the types the signatures declare.
THEOREM NoneSent == Cases => []NoneNotSent
<1>1. CaseOk => NoneNotSent
  BY KeepsNoneHere DEF CaseOk, NoneNotSent
<1> QED
  BY <1>1, CaseInvariant, PTL

\* An agreement has its own portfolios as long as those before it have three
\* each, however many agreements and portfolios there are.
THEOREM Attribution == Cases => []AccountsAttributed
<1>1. ASSUME NEW o \in Ownership PROVE AccountsOfTheirAgreement(o.portfolios, o.starts)
  <2>1. /\ o.portfolios \in Seq(DOMAIN Type \cup {""})
        /\ o.starts \in Seq(1..(Len(o.portfolios) + 1))
        /\ Means(o.portfolios, o.starts)
    BY OwnershipAssumption
  <2>2. Len(o.portfolios) \in Nat
    BY <2>1, LenProperties
  <2>3. Len(o.starts) \in Nat
    BY <2>1, LenProperties
  <2>4. \A j \in 1..Len(o.starts) : o.starts[j] \in 1..(Len(o.portfolios) + 1)
    BY <2>1, ElementOfSeq
  <2> QED
    BY <2>1, <2>2, <2>3, <2>4, Attributed
<1>2. CaseOk => AccountsAttributed
  BY <1>1 DEF CaseOk, AccountsAttributed
<1> QED
  BY <1>2, CaseInvariant, PTL

\* The conversions of times undo each other at every hour, wherever the zone
\* changes its offset.
THEOREM Conversions == Cases => []TimesConverted
<1>1. CaseOk => TimesConverted
  BY EveryInstantRoundTrips, EveryWallClockIsKept DEF CaseOk, TimesConverted
<1> QED
  BY <1>1, CaseInvariant, PTL

----------------------------------------------------------------------------
(* The retry wrapper                                                       *)

USE DEF Attempts, Decision, Ambiguous

LEMMA FirstAttempt == 0 \in Attempts
BY RetriesAssumption

LEMMA InitIInv == Init => IInv
<1> SUFFICES ASSUME Init PROVE IInv
  OBVIOUS
<1>1. TypeOK
  BY FirstAttempt DEF Init, TypeOK
<1>2. OneId /\ ExecutionsDecided /\ RepliesDecided
  BY FirstAttempt DEF Init, OneId, ExecutionsDecided, RepliesDecided
<1>3. ResultDecided /\ LastExcKept
  BY RetriesAssumption DEF Init, ResultDecided, LastExcKept
<1> QED
  BY <1>1, <1>2, <1>3 DEF IInv

\* What the client does leaves the broker and the answers alone: only the
\* type, the result and last_exc have to be looked at.
LEMMA ClientKeepsIInv ==
    ASSUME IInv,
           reply' = reply, decided' = decided, executions' = executions,
           TypeOK', ResultDecided', LastExcKept'
    PROVE  IInv'
BY DEF IInv, OneId, ExecutionsDecided, RepliesDecided

LEMMA RaiseIInv ==
    ASSUME IInv, pc # "done",
           NEW e \in {"token", "timeout", "escaped", "cancelled"} \cup Decision \cup Ambiguous,
           e \in Decision => decided[0] = e,
           Raise(e), inTransit' = inTransit,
           reply' = reply, decided' = decided, executions' = executions
    PROVE  IInv'
<1>1. TypeOK' /\ ResultDecided' /\ LastExcKept'
  BY DEF Raise, IInv, TypeOK, ResultDecided, LastExcKept
<1> QED
  BY <1>1, ClientKeepsIInv

LEMMA BackOffIInv ==
    ASSUME IInv, pc # "done", NEW e \in {"rate", "server", "timeout"},
           BackOff(e), inTransit' = inTransit,
           reply' = reply, decided' = decided, executions' = executions
    PROVE  IInv'
<1>1. TypeOK' /\ ResultDecided' /\ LastExcKept'
  BY DEF BackOff, IInv, TypeOK, ResultDecided, LastExcKept
<1> QED
  BY <1>1, ClientKeepsIInv

\* The next attempt, or the end of the loop: last_exc can be unset only after
\* refreshes, which are fewer than the attempts.
LEMMA ContinueIInv ==
    ASSUME IInv, pc \in {"refreshing", "backoff"}, Continue,
           refreshed' \in BOOLEAN, inTransit' = inTransit,
           reply' = reply, decided' = decided, executions' = executions
    PROVE  IInv'
<1>1. CASE attempt + 1 < MaxRetries
  BY <1>1, RetriesAssumption, ClientKeepsIInv
     DEF Continue, IInv, TypeOK, ResultDecided, LastExcKept
<1>2. CASE ~(attempt + 1 < MaxRetries)
  <2>1. lastExc # "none"
    BY <1>2, RetriesAssumption DEF IInv, TypeOK, LastExcKept
  <2> QED
    BY <1>2, <2>1, RetriesAssumption, ClientKeepsIInv
       DEF Continue, IInv, TypeOK, ResultDecided, LastExcKept
<1> QED
  BY <1>1, <1>2

LEMMA AnsweredIInv == IInv /\ Answered => IInv'
<1> SUFFICES ASSUME IInv, Answered PROVE IInv'
  OBVIOUS
<1> DEFINE answer == reply[attempt]
<1>0. /\ pc = "awaiting" /\ Handle(answer) /\ attempt \in Attempts
      /\ inTransit' = inTransit /\ reply' = reply
      /\ decided' = decided /\ executions' = executions
  BY DEF Answered, broker, IInv, TypeOK
<1>1. CASE answer \in Decision /\ Raise(answer)
  BY <1>0, <1>1, RaiseIInv DEF IInv, RepliesDecided
<1>2. CASE answer = "other" /\ Raise("other")
  BY <1>0, <1>2, RaiseIInv
<1>3. CASE answer = "auth" /\ HandleAuth
  <2>1. CASE attempt < AuthRetryLimit
    <3>1. TypeOK' /\ ResultDecided' /\ LastExcKept'
      BY <1>0, <1>3, <2>1 DEF HandleAuth, IInv, TypeOK, ResultDecided, LastExcKept
    <3> QED
      BY <1>0, <3>1, ClientKeepsIInv
  <2>2. CASE ~(attempt < AuthRetryLimit)
    BY <1>0, <1>3, <2>2, RaiseIInv DEF HandleAuth
  <2> QED
    BY <2>1, <2>2
<1>4. CASE answer \in {"rate", "server"} /\ BackOff(answer)
  BY <1>0, <1>4, BackOffIInv
<1>5. CASE answer = "rate" /\ Raise("escaped")
  BY <1>0, <1>5, RaiseIInv
<1> QED
  BY <1>0, <1>1, <1>2, <1>3, <1>4, <1>5 DEF Handle

LEMMA ClientIInv == IInv /\ (ClientStep \/ Cancel) => IInv'
<1> SUFFICES ASSUME IInv, ClientStep \/ Cancel PROVE IInv'
  OBVIOUS
<1> USE DEF broker
<1>1. CASE BeginAttempt
  <2>1. TypeOK' /\ ResultDecided' /\ LastExcKept'
    BY <1>1 DEF BeginAttempt, IInv, TypeOK, ResultDecided, LastExcKept
  <2> QED
    BY <1>1, <2>1, ClientKeepsIInv DEF BeginAttempt
<1>2. CASE Send
  <2>1. TypeOK' /\ ResultDecided' /\ LastExcKept'
    BY <1>2 DEF Send, IInv, TypeOK, ResultDecided, LastExcKept
  <2> QED
    BY <1>2, <2>1, ClientKeepsIInv DEF Send
<1>3. CASE SignFails
  BY <1>3, RaiseIInv, BackOffIInv DEF SignFails
<1>4. CASE RequestFails
  BY <1>4, RaiseIInv, BackOffIInv DEF RequestFails
<1>5. CASE Refreshed
  BY <1>5, ContinueIInv DEF Refreshed
<1>6. CASE RefreshFails
  BY <1>6, RaiseIInv DEF RefreshFails
<1>7. CASE BackoffOver
  BY <1>7, ContinueIInv DEF BackoffOver, IInv, TypeOK
<1>8. CASE Cancel
  BY <1>8, RaiseIInv DEF Cancel
<1> QED
  BY <1>1, <1>2, <1>3, <1>4, <1>5, <1>6, <1>7, <1>8, AnsweredIInv DEF ClientStep

LEMMA LoseIInv ==
    ASSUME IInv, NEW a \in Attempts, Lose(a)
    PROVE  IInv'
BY DEF Lose, client, broker, IInv, TypeOK, OneId, ExecutionsDecided,
       RepliesDecided, ResultDecided, LastExcKept

LEMMA RefuseIInv ==
    ASSUME IInv, NEW a \in Attempts, Refuse(a)
    PROVE  IInv'
<1>1. PICK answer \in Ambiguous : reply' = [reply EXCEPT ![a] = answer]
  BY DEF Refuse
<1>2. TypeOK'
  BY <1>1 DEF Refuse, client, broker, IInv, TypeOK
<1>3. RepliesDecided'
  BY <1>1 DEF Refuse, broker, IInv, TypeOK, RepliesDecided
<1> QED
  BY <1>2, <1>3
     DEF Refuse, client, broker, IInv, OneId, ExecutionsDecided, ResultDecided, LastExcKept

\* The broker decides each X-REQID once, and all attempts carry the same one.
LEMMA ProcessIInv ==
    ASSUME IInv, NEW a \in Attempts, Process(a)
    PROVE  IInv'
<1>1. PICK d \in Decision :
        /\ decided[0] \in {"none", d}
        /\ decided' = [decided EXCEPT ![0] = d]
        /\ executions' = IF d = "ok" /\ decided[0] = "none"
                         THEN executions + 1 ELSE executions
        /\ \E answer \in {d, "server", "none"} : reply' = [reply EXCEPT ![a] = answer]
  BY DEF Process, ReqId
<1>2. PICK answer \in {d, "server", "none"} : reply' = [reply EXCEPT ![a] = answer]
  BY <1>1
<1>3. decided'[0] = d /\ \A i \in Attempts \ {0} : decided'[i] = decided[i]
  BY <1>1, FirstAttempt DEF IInv, TypeOK
<1>4. TypeOK'
  <2>1. decided' \in [Attempts -> Decision \cup {"none"}]
    BY <1>1, FirstAttempt DEF IInv, TypeOK
  <2>2. reply' \in [Attempts -> Decision \cup Ambiguous \cup {"none"}]
    BY <1>2 DEF IInv, TypeOK
  <2>3. executions' \in Nat
    BY <1>1 DEF IInv, TypeOK
  <2> QED
    BY <2>1, <2>2, <2>3 DEF Process, client, IInv, TypeOK
<1>5. OneId' /\ ExecutionsDecided'
  BY <1>1, <1>3 DEF IInv, TypeOK, OneId, ExecutionsDecided
<1>6. RepliesDecided'
  BY <1>1, <1>2, <1>3 DEF IInv, TypeOK, RepliesDecided
<1>7. ResultDecided' /\ LastExcKept'
  BY <1>1, <1>3 DEF Process, client, IInv, ResultDecided, LastExcKept
<1> QED
  BY <1>4, <1>5, <1>6, <1>7 DEF IInv

LEMMA NextIInv == IInv /\ [Next]_vars => IInv'
<1> SUFFICES ASSUME IInv, [Next]_vars PROVE IInv'
  OBVIOUS
<1>1. CASE UNCHANGED vars
  BY <1>1 DEF vars, client, broker, IInv, TypeOK, OneId, ExecutionsDecided,
              RepliesDecided, ResultDecided, LastExcKept
<1> QED
  BY <1>1, ClientIInv, LoseIInv, RefuseIInv, ProcessIInv DEF Next, BrokerStep

-----------------------------------------------------------------------------
\* The inductive invariant holds in every reachable state.
THEOREM Inductive == Spec => []IInv
BY InitIInv, NextIInv, PTL DEF Spec

\* However many attempts arrive, the order is executed at most once.
THEOREM ExecutedOnce == Spec => []AtMostOnce
<1>1. IInv => AtMostOnce
  BY DEF IInv, ExecutionsDecided, AtMostOnce
<1> QED
  BY <1>1, Inductive, PTL

\* A call that reported a rejection is never executed.
THEOREM RejectionIsFinal == Spec => []RejectedNeverExecutes
<1>1. IInv => RejectedNeverExecutes
  BY DEF IInv, ResultDecided, ExecutionsDecided, RejectedNeverExecutes
<1> QED
  BY <1>1, Inductive, PTL

\* The call never ends by raising None.
THEOREM RaisesSomething == Spec => []RaisesAnException
<1>1. IInv => RaisesAnException
  BY DEF IInv, LastExcKept, RaisesAnException
<1> QED
  BY <1>1, Inductive, PTL

-----------------------------------------------------------------------------
\* An answer that is not retried, and every failure but the three retryable
\* ones, is raised at once; the others wait for the end of the loop.
LEMMA ContinueGivesUp ==
    ASSUME IInv, pc # "done", Continue
    PROVE  GivesUpOnlyExhausted'
BY RetriesAssumption DEF Continue, IInv, TypeOK, LastExcKept, GivesUpOnlyExhausted

LEMMA ClientGivesUp ==
    ASSUME IInv, GivesUpOnlyExhausted, ClientStep \/ Cancel
    PROVE  GivesUpOnlyExhausted'
<1>1. CASE Continue /\ pc # "done"
  BY <1>1, ContinueGivesUp
<1>2. CASE Answered
  BY <1>2 DEF Answered, Handle, HandleAuth, Raise, BackOff, IInv, LastExcKept, GivesUpOnlyExhausted
<1>3. CASE SignFails \/ RequestFails \/ RefreshFails \/ Cancel
  BY <1>3 DEF SignFails, RequestFails, RefreshFails, Cancel, Raise, BackOff,
              IInv, LastExcKept, GivesUpOnlyExhausted
<1>4. CASE BeginAttempt \/ Send
  BY <1>4 DEF BeginAttempt, Send, GivesUpOnlyExhausted
<1> QED
  BY <1>1, <1>2, <1>3, <1>4 DEF ClientStep, Refreshed, BackoffOver

\* A retryable failure reaches the user only when the attempts are used up.
THEOREM RetriesAreUsed == Spec => []GivesUpOnlyExhausted
<1>1. Init => GivesUpOnlyExhausted
  BY DEF Init, GivesUpOnlyExhausted
<1>2. IInv /\ GivesUpOnlyExhausted /\ [Next]_vars => GivesUpOnlyExhausted'
  <2>1. UNCHANGED client => UNCHANGED <<attempt, result>>
    BY DEF client
  <2> QED
    BY <2>1, ClientGivesUp
       DEF Next, vars, BrokerStep, Lose, Refuse, Process, GivesUpOnlyExhausted
<1> QED
  BY <1>1, <1>2, Inductive, PTL DEF Spec

-----------------------------------------------------------------------------
(* Refinement of OrderCall, step by step.                                    *)

\* A step of the client decides nothing, and only an unfinished call gets a
\* result.
LEMMA ClientEffect ==
    ASSUME ClientStep \/ Cancel
    PROVE  /\ decided' = decided /\ executions' = executions
           /\ result' = result \/ pc # "done"
BY DEF ClientStep, Cancel, BeginAttempt, Send, SignFails, Answered, RequestFails,
       Refreshed, RefreshFails, BackoffOver, Raise, BackOff, broker

LEMMA ClientRefines ==
    ASSUME IInv, IInv', ClientStep \/ Cancel
    PROVE  [Call!Next]_(Call!vars)
<1>1. executions' = executions /\ decided' = decided
  BY ClientEffect
<1>2. CASE result' = result
  BY <1>1, <1>2 DEF Call!vars, UserResult
<1>3. CASE pc # "done"
  <2>1. UserResult = "pending"
    BY <1>3 DEF UserResult, IInv, LastExcKept
  <2>2. CASE result' = "ok"
    BY <1>1, <2>1, <2>2
       DEF IInv, ResultDecided, ExecutionsDecided, UserResult, Call!Next, Call!Answer, Call!Return
  <2>3. CASE result' = "rejected"
    BY <1>1, <2>1, <2>3
       DEF IInv, ResultDecided, ExecutionsDecided, UserResult, Call!Next, Call!Answer, Call!Reject
  <2>4. CASE result' = "pending"
    BY <1>1, <2>1, <2>4 DEF UserResult, Call!vars
  <2>5. CASE result' \notin {"ok", "rejected", "pending"}
    BY <1>1, <2>1, <2>5 DEF UserResult, Call!Next, Call!Answer, Call!GiveUp
  <2> QED
    BY <2>2, <2>3, <2>4, <2>5
<1> QED
  BY <1>2, <1>3, ClientEffect

LEMMA BrokerRefines ==
    ASSUME IInv, BrokerStep
    PROVE  [Call!Next]_(Call!vars)
<1>1. UserResult' = UserResult
  BY DEF BrokerStep, Lose, Refuse, Process, client, UserResult
<1>2. CASE executions' = executions
  BY <1>1, <1>2 DEF Call!vars
<1>3. ASSUME NEW a \in Attempts, Process(a), executions' # executions
      PROVE  Call!Next
  <2>1. decided[0] = "none" /\ executions' = executions + 1
    BY <1>3 DEF Process, ReqId
  <2>2. executions = 0 /\ UserResult # "rejected"
    BY <2>1 DEF IInv, ExecutionsDecided, ResultDecided, UserResult
  <2> QED
    BY <1>1, <2>1, <2>2 DEF Call!Next, Call!Execute
<1> QED
  BY <1>2, <1>3 DEF BrokerStep, Lose, Refuse, broker

\* Seen by its user the call is an OrderCall: at most one execution, a
\* returned order executed before, a rejected one never (without liveness).
THEOREM Refinement == Spec => Call!Init /\ [][Call!Next]_(Call!vars)
<1>1. Init => Call!Init
  BY DEF Init, Call!Init, UserResult
<1>2. IInv /\ IInv' /\ [Next]_vars => [Call!Next]_(Call!vars)
  <2>1. UNCHANGED vars => UNCHANGED Call!vars
    BY DEF vars, client, broker, Call!vars, UserResult
  <2> QED
    BY <2>1, ClientRefines, BrokerRefines DEF Next
<1> QED
  BY <1>1, <1>2, Inductive, PTL DEF Spec
=============================================================================
