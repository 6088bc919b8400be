----------------------------- MODULE MCEewView -----------------------------
(***************************************************************************)
(* EewView for TLC: reports 2 and 10 about one earthquake, the second one  *)
(* in two versions, a report about another earthquake of that day, one of  *)
(* the last day of a year, and a body without an ND line.                  *)
(***************************************************************************)
EXTENDS EewView

Quake(y, m, d, r) == [date |-> <<y, m, d>>, rest |-> r]
ND(id, digits)    == [Text EXCEPT !.nd = [eqID |-> id, digits |-> digits]]
Header(type)      == [Text EXCEPT !.header = [msgType |-> type, warnTime |-> type]]
EqTime(t)         == [Text EXCEPT !.eqTime = t]
Center(c)         == [Text EXCEPT !.center = c]
EBI(e)            == [Text EXCEPT !.ebi = e]

Morning   == Quake(2011, 3, 12, 1)
Noon      == Quake(2011, 3, 12, 2)
Sylvester == Quake(2012, 12, 31, 1)

MCBody ==
    {<<Header(0), ND(Morning, <<0, 0, 2>>), Center("c")>>,
     <<Header(0), ND(Morning, <<9, 1, 0>>), Center("c"), EBI("a" :> 1)>>,
     <<Header(10), ND(Morning, <<0, 1, 0>>)>>,
     <<Header(0), ND(Noon, <<0, 0, 1>>)>>,
     <<Header(0), ND(Sylvester, <<0, 0, 1>>)>>,
     <<Header(0), Center("c")>>}

\* Every level of one day, the day of the year's end by way of the clamps, a
\* month that is no number, and a year that is not there
MCQuery ==
    [year : {2011}, month : {Absent, 3}, day : {Absent, 12}] \union
    {[year |-> Absent, month |-> Absent, day |-> Absent],
     [year |-> 2012, month |-> 13, day |-> 32],
     [year |-> 2011, month |-> Word, day |-> 12],
     [year |-> 1999, month |-> 3, day |-> 12]}

\* The lines of these bodies, and more for Misread: several of a kind, a number
\* of one digit and one of none, and a line that two patterns match
MCLine ==
    UNION {{body[i] : i \in DOMAIN body} : body \in MCBody} \union
    {EqTime(1), EqTime(2), Text, ND(Noon, <<9, 2>>), ND(Noon, <<8>>),
     EBI("a" :> 2 @@ "b" :> 2), [ND(Noon, <<0, 3>>) EXCEPT !.eqTime = 3]}
=============================================================================
