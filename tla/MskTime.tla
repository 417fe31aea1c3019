------------------------------- MODULE MskTime -------------------------------
(***************************************************************************)
(* The conversions between Moscow time and UTC of clients/alor/functions.py *)
(* and the part of Python's zoneinfo they rest on.  The history of the zone *)
(* is a pair of changes of its offset: the clock is set forward, so that    *)
(* times are skipped, and later back, so that times occur twice (2014-10-26 *)
(* was the last); bars from before are asked for in these terms.            *)
(*                                                                         *)
(* Times are whole hours.  A datetime is its zone ("naive" without tzinfo), *)
(* what the clock shows, and fold, 1 for the second of two occurrences.     *)
(***************************************************************************)
EXTENDS Integers

CONSTANTS
    Forward,        \* the hour, UTC, from which the offset is 4
    Back            \* the hour, UTC, from which it is 3 again

ASSUME ChangesAssumption == Forward \in Int /\ Back \in Int

Offset(u) == IF u \in Forward..(Back - 1) THEN 4 ELSE 3

\* The instants at which the clock shows a time: none, one or two.
Instants(wall) == {u \in {wall - 4, wall - 3} : u + Offset(u) = wall}

\* datetime.astimezone(TZ_MSK) of the instant u.
InMoscow(u) ==
    [zone |-> "msk", wall |-> u + Offset(u),
     fold |-> IF \E v \in Instants(u + Offset(u)) : v < u THEN 1 ELSE 0]

\* The instant of a Moscow datetime.  A time that occurs twice is settled by
\* fold; a skipped one is read with the offset before the change, or with the
\* one after it when fold is set.
FromMoscow(wall, fold) ==
    LET first == CHOOSE u \in Instants(wall) : \A v \in Instants(wall) : u <= v
        last == CHOOSE u \in Instants(wall) : \A v \in Instants(wall) : v <= u
    IN  IF Instants(wall) = {} THEN wall - 3 - fold ELSE IF fold = 0 THEN first ELSE last

Instant(dt) == IF dt.zone = "utc" THEN dt.wall ELSE FromMoscow(dt.wall, dt.fold)

----------------------------------------------------------------------------

\* dt.replace(tzinfo=zone) for a datetime without one, dt itself otherwise.
Assume(dt, zone) == IF dt.zone = "naive" THEN [dt EXCEPT !.zone = zone] ELSE dt

\* dt.replace(tzinfo=None) keeps fold.
Naive(dt) == [dt EXCEPT !.zone = "naive"]

msk_datetime_to_utc_timestamp(dt) == Instant(Assume(dt, "msk"))

\* Mutation: the datetime is built anew, without its fold.
utc_timestamp_to_msk_datetime_unfolded(seconds) ==
    [zone |-> "naive", wall |-> InMoscow(seconds).wall, fold |-> 0]

utc_timestamp_to_msk_datetime(seconds) == Naive(InMoscow(seconds))

msk_to_utc_datetime(dt, tzinfo) ==
    LET utc == [zone |-> "utc", wall |-> Instant(Assume(dt, "msk")), fold |-> 0]
    IN  IF tzinfo THEN utc ELSE Naive(utc)

utc_to_msk_datetime(dt, tzinfo) ==
    LET msk == InMoscow(Instant(Assume(dt, "utc")))
    IN  IF tzinfo THEN msk ELSE Naive(msk)

----------------------------------------------------------------------------
\* Every instant survives the way to Moscow time and back, by either pair of
\* functions and with or without tzinfo on the way, also in the hour that the
\* clock shows twice.
RoundTrips(u, tzinfo) ==
    /\ msk_datetime_to_utc_timestamp(utc_timestamp_to_msk_datetime(u)) = u
    /\ LET there == utc_to_msk_datetime([zone |-> "naive", wall |-> u, fold |-> 0], tzinfo)
           back == msk_to_utc_datetime(there, tzinfo)
       IN  Instant(Assume(back, "utc")) = u

\* What is read as Moscow time comes back as the same Moscow time, but for
\* the times the zone skipped, and an aware datetime keeps its own zone.
KeepsWallClock(dt, tzinfo) ==
    LET back == utc_to_msk_datetime(msk_to_utc_datetime(dt, tzinfo), tzinfo)
    IN  /\ Instant(Assume(back, "msk")) = msk_datetime_to_utc_timestamp(dt)
        /\ dt.zone # "utc" /\ Instants(dt.wall) # {} => back.wall = dt.wall
============================================================================
