---------------------------- MODULE MCAlorFunctions ----------------------------
(* Arguments around every limit, three agreements of up to four portfolios,  *)
(* and the hours around both changes of the clock.                           *)
EXTENDS AlorFunctions, TLC

\* Those the checks look at take good and bad values; the others, all alike,
\* are given, given as a false value or, where None is a default, left out.
PassedOn == {"without_currency", "with_repo", "login", "ticker", "date_from", "id_from", "limit",
             "descending", "tf", "seconds_to", "count_back", "use_untraded", "order_id",
             "stop_order_id", "symbol_group", "comment", "time_in_force", "allow_margin",
             "need_activate", "iceberg_fixed", "iceberg_variance", "stop_end_unix_time",
             "protecting_seconds", "is_stop_order", "skip_history", "split_adjust",
             "instrument_group", "frequency", "order_statuses"}

Optional(m) == (Methods[m].truthy \cup Methods[m].given) \cap PassedOn

ArgumentsOf(m) ==
    {checked @@ [p \in PassedOn |-> IF p \in Optional(m) THEN option ELSE "set"] :
        checked \in [symbol : {"", "SBER"}, portfolio : {"", "D1"}, side : {None, "buy"},
                     quantity : {-1, 0, 1}, trigger_price : {0, 1},
                     price : {0, 1} \cup (IF m = "estimate_order" THEN {None} ELSE {}),
                     condition : {None, "LessOrEqual"},
                     exchange : {"MOEX", "SPBX"}
                                    \cup (IF m \in DOMAIN Subscribes THEN {} ELSE {None}),
                     seconds_from : {1}, depth : {1}],
        option \in {None, "zero", "set"}}

MCArguments == [m \in DOMAIN Methods |-> ArgumentsOf(m)]

\* Kinds follow one another in a rotation that begins at any of them.
Token(n, shift) == [j \in 1..n |-> <<"D", "G", "N750", "">>[((j + shift) % 4) + 1]]

\* The starts of one to three agreements with up to four portfolios each.
Starts ==
    {s \in UNION {[1..(n + 1) -> 1..13] : n \in 1..3} :
        s[1] = 1 /\ \A i \in 1..(Len(s) - 1) : s[i + 1] - s[i] \in 0..4}

MCOwnership ==
    {[portfolios |-> Token(s[Len(s)] - 1, shift), starts |-> s] : s \in Starts, shift \in 0..3}

MCTimes == 0..24
============================================================================
