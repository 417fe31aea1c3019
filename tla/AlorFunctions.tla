--------------------------- MODULE AlorFunctions ---------------------------
(***************************************************************************)
(* The parts of the client that keep no state: the methods as they make    *)
(* requests of arguments, the parsing of the token's accounts, and the     *)
(* conversions of times.  A behaviour is one case and what comes of it.    *)
(***************************************************************************)
EXTENDS AlorRequests, Accounts, MskTime

CONSTANTS
    Arguments,      \* the arguments each method is called with
    Ownership,      \* token lists of portfolios, with the starts of each agreement's
    Times           \* what a clock may show, in hours

ASSUME ArgumentsAssumption ==
    \A m \in DOMAIN Methods : \A a \in Arguments[m] : WellTyped(m, a)

ASSUME OwnershipAssumption ==
    \A o \in Ownership :
        /\ o.portfolios \in Seq(DOMAIN Type \cup {""})
        /\ o.starts \in Seq(1..(Len(o.portfolios) + 1))
        /\ Means(o.portfolios, o.starts)

ASSUME TimesAssumption == Times \subseteq Int

VARIABLE case

NoCase == case = [of |-> "start"]

CallMethod ==
    /\ case.of = "start"
    /\ \E m \in DOMAIN Methods : \E a \in Arguments[m] :
          case' = [of |-> "call", m |-> m, a |-> a, r |-> Request(m, a)]

ParseToken ==
    /\ case.of = "start"
    /\ \E o \in Ownership : case' = [of |-> "accounts", o |-> o]

\* A number of hours is taken for an instant and for a datetime, in each zone
\* and without one.
ConvertTime ==
    /\ case.of = "start"
    /\ \E u \in Times, fold \in 0..1, zone \in {"naive", "utc", "msk"}, tzinfo \in BOOLEAN :
          case' = [of |-> "time", u |-> u, tzinfo |-> tzinfo,
                   dt |-> [zone |-> zone, wall |-> u, fold |-> IF zone = "utc" THEN 0 ELSE fold]]

SomeCase == CallMethod \/ ParseToken \/ ConvertTime

Cases == NoCase /\ [][SomeCase]_case

----------------------------------------------------------------------------
(* Properties                                                              *)

\* Malformed orders and only these are refused before the network
\* (RejectsExactlyTheBad), for every mutating method.
OrdersValidated == case.of = "call" => RejectsExactlyTheBad(case.m, case.a, case.r)

\* Every request that changes something carries an X-REQID.
RepeatableMutations == case.of = "call" => MutationsNumbered(case.m, case.r)

\* The text 'None' reaches the broker only where nobody checks it.
NoneNotSent == case.of = "call" => NoneStaysHere(case.m, case.r)

\* Accounts are listed under their own agreement as long as the agreements
\* before have three portfolios each.
AccountsAttributed ==
    case.of = "accounts" => AccountsOfTheirAgreement(case.o.portfolios, case.o.starts)

\* Instants and wall-clock times survive the conversions both ways.
TimesConverted ==
    case.of = "time" => RoundTrips(case.u, case.tzinfo) /\ KeepsWallClock(case.dt, case.tzinfo)
============================================================================
