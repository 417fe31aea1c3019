---------------------------- MODULE AlorRequests ----------------------------
(***************************************************************************)
(* What the public methods of AlorClient (clients/alor/AlorClient.py) and  *)
(* the subscription classes (clients/alor/AlorWebsocket.py) make of their  *)
(* arguments: an exception before anything is sent, or one request.  The   *)
(* retry wrapper sends that request, unchanged, at every attempt.          *)
(*                                                                         *)
(* A method is a row.  Arguments have the names of the Python parameters;  *)
(* constant fields (opcode, 'board', 'activate': True) are left out.  An   *)
(* argument that is only passed on is None, "zero" (given, but false in    *)
(* Python's sense) or "set".                                               *)
(***************************************************************************)
EXTENDS Integers

CONSTANT None       \* Python's None; in a request, the text 'None'

----------------------------------------------------------------------------
(* Rows: the checks; how the exchange is read, exchange.value or            *)
(* str(exchange); whether an X-REQID is drawn; what is always sent, sent    *)
(* when it is true, and sent when it is not None.                          *)

Row(verb, exchange, always) ==
    [verb |-> verb, exchange |-> exchange, always |-> always,
     checks |-> {}, reqid |-> FALSE, truthy |-> {}, given |-> {}]

\* Portfolios, positions and trades: exchange and portfolio are in the URL.
Read(always) == Row("GET", "value", always \cup {"exchange", "portfolio"})

ClientReads ==
    [get_portfolio_summary |-> Read({}),
     get_positions         |-> Read({"without_currency"}),
     get_position          |-> Read({"symbol"}),
     get_trades            |-> Read({"with_repo"}),
     get_trade             |-> Read({"symbol"}),
     get_forts_risk        |-> Read({}),
     get_risk              |-> Read({}),
     get_login_positions   |-> Row("GET", "none", {"login", "without_currency"})]

HistoryFilters == {"date_from", "id_from", "limit", "descending", "side"}

TradeHistoryReads ==
    [get_trades_history_v2 |-> [Read({}) EXCEPT !.truthy = HistoryFilters \cup {"ticker"}],
     get_trades_symbol_v2  |-> [Read({"symbol"}) EXCEPT !.truthy = HistoryFilters]]

MarketReads ==
    [get_history |-> Row("GET", "value",
        {"exchange", "symbol", "tf", "seconds_from", "seconds_to", "count_back", "use_untraded"}),
     get_orderbook |-> Row("GET", "value", {"exchange", "symbol", "depth"})]

\* The URL is built from the enumeration itself, not from its value.
OrderReads ==
    [get_orders |-> Row("GET", "str", {"exchange", "portfolio"}),
     get_order  |-> Row("GET", "str", {"exchange", "portfolio", "order_id"})]

StopOrderReads ==
    [get_stop_orders |-> Row("GET", "str", {"exchange", "portfolio"}),
     get_stop_order  |-> Row("GET", "str", {"exchange", "portfolio", "order_id"})]

\* _validate_order_params, called first by every create and update.
OrderChecks == {"symbol", "side", "quantity", "portfolio"}

\* The fields every order body has.
OrderFields == {"side", "quantity", "symbol", "exchange", "symbol_group", "portfolio"}

Order(verb, checks, always, truthy) ==
    [Row(verb, "str", OrderFields \cup always) EXCEPT
        !.checks = OrderChecks \cup checks, !.reqid = TRUE, !.truthy = truthy]

Iceberg == {"iceberg_fixed", "iceberg_variance"}

create_market_order ==
    Order("POST", {}, {"comment", "time_in_force", "allow_margin"}, {})

create_limit_order ==
    Order("POST", {"price"}, {"price", "comment", "time_in_force", "allow_margin"}, Iceberg)

create_limit_stop_order ==
    Order("POST", {"condition", "price", "trigger_price"},
          {"price", "time_in_force", "condition", "trigger_price", "need_activate", "allow_margin"},
          Iceberg \cup {"stop_end_unix_time", "protecting_seconds"})

create_stop_order ==
    Order("POST", {"condition", "trigger_price"},
          {"condition", "trigger_price", "comment", "allow_margin"}, {"stop_end_unix_time"})

update_market_order ==
    Order("PUT", {}, {"order_id", "comment", "time_in_force", "allow_margin"}, {})

\* time_in_force is a parameter, and is not sent.
update_limit_order ==
    Order("PUT", {"price"}, {"order_id", "price", "comment", "allow_margin"}, {})

update_stop_order ==
    Order("PUT", {"trigger_price"},
          {"stop_order_id", "condition", "trigger_price", "stop_end_unix_time", "comment"}, {})

update_stop_limit_order ==
    Order("PUT", {"price", "trigger_price"},
          {"stop_order_id", "price", "time_in_force", "condition", "trigger_price",
           "stop_end_unix_time", "comment"},
          Iceberg \cup {"protecting_seconds"})

\* Mutation: a cancellation without an X-REQID.
delete_order_unnumbered ==
    [Row("DELETE", "str", {"order_id", "portfolio", "exchange", "is_stop_order"}) EXCEPT
        !.checks = {"moex"}]

\* Mutation: the exchange is not checked.
delete_order_unchecked ==
    [Row("DELETE", "str", {"order_id", "portfolio", "exchange", "is_stop_order"}) EXCEPT
        !.reqid = TRUE]

delete_order ==
    [Row("DELETE", "str", {"order_id", "portfolio", "exchange", "is_stop_order"}) EXCEPT
        !.checks = {"moex"}, !.reqid = TRUE]

delete_all_orders ==
    [Row("DELETE", "str", {"portfolio", "exchange"}) EXCEPT
        !.checks = {"moex"}, !.reqid = TRUE, !.given = {"is_stop_order"}]

\* A POST that changes nothing: neither checked nor numbered.
estimate_order ==
    [Row("POST", "str", {"portfolio", "symbol", "exchange", "quantity"}) EXCEPT !.given = {"price"}]

\* get_subscription_message: plain strings, so exchange is sent as it is.
BarsSubscription ==
    Row("WS", "none", {"symbol", "tf", "seconds_from", "skip_history", "split_adjust",
                       "exchange", "instrument_group", "frequency"})

PortfolioSubscription == Row("WS", "none", {"exchange", "portfolio", "skip_history"})

OrdersSubscription == [PortfolioSubscription EXCEPT !.truthy = {"order_statuses"}]

----------------------------------------------------------------------------
(* The methods                                                             *)

Creates ==
    [create_market_order |-> create_market_order, create_limit_order |-> create_limit_order,
     create_stop_order |-> create_stop_order, create_limit_stop_order |-> create_limit_stop_order]

Updates ==
    [update_market_order |-> update_market_order, update_limit_order |-> update_limit_order,
     update_stop_order |-> update_stop_order, update_stop_limit_order |-> update_stop_limit_order]

Deletes == [delete_order |-> delete_order, delete_all_orders |-> delete_all_orders]

Subscribes ==
    [BarsSubscription |-> BarsSubscription, OrdersSubscription |-> OrdersSubscription,
     TradesSubscription |-> PortfolioSubscription, PositionsSubscription |-> PortfolioSubscription,
     SummariesSubscription |-> PortfolioSubscription]

Estimates == [estimate_order |-> estimate_order]

\* Two tables of methods as one.
Beside(f, g) ==
    [m \in DOMAIN f \cup DOMAIN g |-> IF m \in DOMAIN f THEN f[m] ELSE g[m]]

Reads ==
    Beside(ClientReads,
        Beside(TradeHistoryReads, Beside(MarketReads, Beside(OrderReads, StopOrderReads))))

Orders == Beside(Creates, Beside(Updates, Deletes))

Methods == Beside(Orders, Beside(Reads, Beside(Estimates, Subscribes)))

----------------------------------------------------------------------------
(* A call                                                                  *)

\* The values ExecutionCondition has, in lower case.
LowerCase ==
    [More |-> "more", Less |-> "less",
     MoreOrEqual |-> "moreorequal", LessOrEqual |-> "lessorequal"]

\* None is no number, no exchange and no condition.
ASSUME NoneAssumption ==
    None \notin Int \cup {"MOEX"} \cup {LowerCase[c] : c \in DOMAIN LowerCase}

\* The signatures: numbers are numbers, and of what is always sent only
\* enumerations have None for a default, which a subscription does not take.
WellTyped(m, a) ==
    /\ \A p \in {"quantity", "price", "trigger_price", "seconds_from", "depth"} :
          p \in Methods[m].always => a[p] \in Int
    /\ "condition" \in Methods[m].always => a["condition"] \in DOMAIN LowerCase \cup {None}
    /\ \A p \in Methods[m].always : a[p] = None =>
          \/ p \in {"side", "condition"}
          \/ p = "exchange" /\ m \notin DOMAIN Subscribes

\* Mutation: zero passes.
FailsBelowZero(check, a) ==
    CASE check \in {"symbol", "portfolio"} -> a[check] = ""
      [] check \in {"side", "condition"} -> a[check] = None
      [] check \in {"quantity", "price", "trigger_price"} -> a[check] < 0
      [] check = "moex" -> a["exchange"] # "MOEX"

\* A check raises ValueError.
Fails(check, a) ==
    CASE check \in {"symbol", "portfolio"} -> a[check] = ""
      [] check \in {"side", "condition"} -> a[check] = None
      [] check \in {"quantity", "price", "trigger_price"} -> a[check] <= 0
      [] check = "moex" -> a["exchange"] # "MOEX"

\* An argument as it is sent: get_history asks from one second earlier, an
\* order book has a level at least, and creations send conditions in lower case.
Sent(row, p, v) ==
    CASE p = "seconds_from" /\ row.verb = "GET" -> IF v < 1 THEN 0 ELSE v - 1
      [] p = "depth" -> IF v < 1 THEN 1 ELSE v
      [] p = "condition" /\ row.verb = "POST" -> LowerCase[v]
      [] OTHER -> v

\* Python's None has no value: the exchange of these reads, the condition of a
\* new order.
ReadsValue(row, p) ==
    \/ p = "exchange" /\ row.exchange = "value"
    \/ p = "condition" /\ row.verb = "POST" /\ p \in row.always

\* Either an exception, or the request with an X-REQID of its own or without.
Request(m, a) ==
    LET row == Methods[m]
        fields == row.always
                    \cup {p \in row.truthy : a[p] \notin {None, "zero"}}
                    \cup {p \in row.given : a[p] # None}
    IN  IF \E check \in row.checks : Fails(check, a) THEN [raised |-> "ValueError"]
        ELSE IF \E p \in {"exchange", "condition"} : ReadsValue(row, p) /\ a[p] = None
             THEN [raised |-> "AttributeError"]
        ELSE [raised |-> "nothing", reqid |-> row.reqid,
              fields |-> [p \in fields |-> Sent(row, p, a[p])]]

----------------------------------------------------------------------------
(* Properties of a call and what it came to                                *)

Mutating == DOMAIN Orders

\* The rules of the README: a symbol, a portfolio, a side, a positive quantity
\* and positive prices where the kind of order has them; a condition for a new
\* stop order; cancellations on MOEX only.
BadOrder(m, a) ==
    \/ a["symbol"] = "" \/ a["portfolio"] = "" \/ a["side"] = None \/ a["quantity"] <= 0
    \/ "price" \in Methods[m].always /\ a["price"] <= 0
    \/ "trigger_price" \in Methods[m].always /\ a["trigger_price"] <= 0
    \/ "condition" \in Methods[m].always /\ m \in DOMAIN Creates /\ a["condition"] = None

Bad(m, a) ==
    \/ m \in DOMAIN Creates \cup DOMAIN Updates /\ BadOrder(m, a)
    \/ m \in DOMAIN Deletes /\ a["exchange"] # "MOEX"

\* A malformed order never reaches the network and no well-formed one is
\* turned away, whichever of the ten mutating methods it is given to.
RejectsExactlyTheBad(m, a, r) == r.raised = "ValueError" <=> Bad(m, a)

\* Every request that changes something at the broker can be repeated by the
\* retry wrapper without being executed twice: it has an X-REQID.
MutationsNumbered(m, r) == r.raised = "nothing" /\ m \in Mutating => r.reqid

\* Python's None never reaches the broker as the text 'None', but in two
\* places: the exchange of the methods that format it with str(), and the
\* condition of an update, neither of which is checked.
NoneStaysHere(m, r) ==
    r.raised = "nothing" =>
        \A p \in DOMAIN r.fields :
            r.fields[p] = None =>
                \/ p = "exchange" /\ Methods[m].exchange = "str" /\ m \notin DOMAIN Deletes
                \/ p = "condition" /\ m \in DOMAIN Updates
============================================================================
