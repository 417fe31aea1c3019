------------------------------ MODULE Accounts ------------------------------
(***************************************************************************)
(* AlorClient._parse_accounts (clients/alor/AlorClient.py): the decoded    *)
(* token lists all agreements and all portfolios, and portfolios are given *)
(* to agreements by position, three at a time.                             *)
(*                                                                         *)
(* A portfolio is its place in the token's list; the list says its kind,   *)
(* the prefix of its number ("" for an unknown one).  Boards are left out. *)
(***************************************************************************)
EXTENDS Integers, Sequences

Type == [D |-> "securities", G |-> "fx", N750 |-> "derivatives"]

Exchanges(kind) == IF kind = "D" THEN {"MOEX", "SPBX"} ELSE {"MOEX"}

\* Mutation: the slices overlap.
SliceOverlapping(portfolios, i) ==
    {j \in (2 * i - 1)..(2 * i + 1) : j <= Len(portfolios)}

\* The places of the i-th slice, which Python cuts at the end of the list.
Slice(portfolios, i) == {j \in (3 * i - 2)..(3 * i) : j <= Len(portfolios)}

Recognised(portfolios, places) == {j \in places : portfolios[j] \in DOMAIN Type}

Account(portfolios, j) ==
    [portfolio |-> j, type |-> Type[portfolios[j]], exchanges |-> Exchanges(portfolios[j])]

\* self.accounts: those of each agreement, in the order of their places.
ParseAccounts(agreements, portfolios) ==
    [i \in 1..agreements |->
        {Account(portfolios, j) : j \in Recognised(portfolios, Slice(portfolios, i))}]

----------------------------------------------------------------------------
\* Reference: what the broker means.  The portfolios of agreement i are those
\* from place starts[i] up to starts[i + 1]; the last entry ends the list.
Means(portfolios, starts) ==
    /\ Len(starts) > 0
    /\ starts[1] = 1
    /\ starts[Len(starts)] = Len(portfolios) + 1
    /\ \A i \in 1..(Len(starts) - 1) : starts[i] <= starts[i + 1]

\* The accounts of an agreement are its recognised portfolios, provided that
\* every agreement before it has exactly three portfolios, and it has three
\* too or is the last with fewer: any other number shifts all that follow.
AccountsOfTheirAgreement(portfolios, starts) ==
    LET agreements == Len(starts) - 1
        accounts == ParseAccounts(agreements, portfolios)
        size(i) == starts[i + 1] - starts[i]
    IN  \A i \in 1..agreements :
            /\ \A j \in 1..(i - 1) : size(j) = 3
            /\ size(i) = 3 \/ (size(i) < 3 /\ i = agreements)
            => {a.portfolio : a \in accounts[i]}
                 = Recognised(portfolios, starts[i]..(starts[i + 1] - 1))
============================================================================
