------------------------------ MODULE Decoder ------------------------------
(***************************************************************************)
(* internal/decoder/decoder.go: Decode, as operators.                      *)
(*                                                                         *)
(* A line is what each of the five patterns finds in it, None (for EBI     *)
(* entries, an empty function) if nothing.  Only eqTime's is anchored, and *)
(* a line may hold what several of them look for.                          *)
(***************************************************************************)
EXTENDS Integers, SequencesExt

CONSTANTS
    None,       \* a pattern finds nothing; a field was never set
    NoQuake,    \* eqID of a body without an ND line: ""
    Line,       \* the lines that bodies are made of
    MaxLines    \* length of the longest body that Misread compares

\* ndRE: digits follow the type of a report.
ASSUME LineAssumption ==
    \A line \in Line : line.nd # None => line.nd.digits \in Seq(0..9)

ASSUME MaxLinesAssumption == MaxLines \in Nat

\* Decode's switch tries them in this order.
Patterns == <<"header", "eqTime", "nd", "center", "ebi">>

\* A line none of the patterns matches.
Text == [header |-> None, eqTime |-> None, nd |-> None, center |-> None,
         ebi |-> <<>>]

Finds(line, p) ==
    IF p = "ebi" THEN DOMAIN line.ebi # {} ELSE line[p] # None

\* The pattern whose case is taken, "text" if none is.
Kind(line) ==
    LET found == {i \in DOMAIN Patterns : Finds(line, Patterns[i])}
    IN  IF found = {} THEN "text" ELSE Patterns[Min(found)]

\* &Telegram{}: the fields the rest of the program depends on.
Undecoded ==
    [cancelled |-> FALSE, warnTime |-> None, eqTime |-> None, eqID |-> NoQuake,
     ncn |-> 0, num |-> 0, center |-> None, ebi |-> <<>>]

\* The digits after an ND line's type: NCN_type, then up to two of the report
\* number.  A single digit leaves the number as it was.
WarnNum(digits, old) ==
    CASE Len(digits) >= 3 -> 10 * digits[2] + digits[3]
      [] Len(digits) = 2  -> digits[2]
      [] OTHER            -> old

\* mutant: an EBI line replaces what the one before it told
LastLineOnly(t, line) == line.ebi

\* A telegram has several EBI lines, and a later entry for an area counts.
MergedEBI(t, line) ==
    [a \in DOMAIN line.ebi \union DOMAIN t.ebi |->
        IF a \in DOMAIN line.ebi THEN line.ebi[a] ELSE t.ebi[a]]

Read(t, line) ==
    LET kind == Kind(line) IN
    CASE kind = "header" -> [t EXCEPT !.cancelled = line.header.msgType = 10,
                                      !.warnTime = line.header.warnTime]
      [] kind = "eqTime" -> [t EXCEPT !.eqTime = line.eqTime]
      [] kind = "nd"     -> [t EXCEPT !.eqID = line.nd.eqID,
                                      !.ncn = line.nd.digits[1],
                                      !.num = WarnNum(line.nd.digits, @)]
      [] kind = "center" -> [t EXCEPT !.center = line.center]
      [] kind = "ebi"    -> [t EXCEPT !.ebi = MergedEBI(t, line)]
      [] OTHER           -> t

Decode(body) == FoldLeft(Read, Undecoded, body)

IsFinal(t) == t.ncn > 0
IsCancellation(t) == t.cancelled

-----------------------------------------------------------------------------
(* The reference: what a body says, whatever the order of its lines.       *)

Places(body, kind) == {i \in DOMAIN body : Kind(body[i]) = kind}

\* The ND lines with a report number, and the EBI lines that name an area.
Numbered(body) == {i \in Places(body, "nd") : Len(body[i].nd.digits) > 1}

Naming(body, a) == {i \in Places(body, "ebi") : a \in DOMAIN body[i].ebi}

Areas(body) == UNION {DOMAIN body[i].ebi : i \in Places(body, "ebi")}

\* The last of some lines of a body, Text if there are none.
LastOf(body, places) == IF places = {} THEN Text ELSE body[Max(places)]

\* Every field of a telegram is what the last line of its kind says, lines of
\* other kinds before, after or between notwithstanding; a number comes from
\* the last ND line that has one, and an area's forecast from the last EBI
\* line that names the area.
Says(t, body) ==
    LET header == LastOf(body, Places(body, "header")).header
        nd     == LastOf(body, Places(body, "nd")).nd
        number == LastOf(body, Numbered(body)).nd
    IN  /\ t.cancelled = (header # None /\ header.msgType = 10)
        /\ t.warnTime = IF header = None THEN None ELSE header.warnTime
        /\ t.eqTime = LastOf(body, Places(body, "eqTime")).eqTime
        /\ t.center = LastOf(body, Places(body, "center")).center
        /\ t.eqID = IF nd = None THEN NoQuake ELSE nd.eqID
        /\ t.ncn = IF nd = None THEN 0 ELSE nd.digits[1]
        /\ t.num = IF number = None THEN 0 ELSE WarnNum(number.digits, 0)
        /\ DOMAIN t.ebi = Areas(body)
        /\ \A a \in Areas(body) : t.ebi[a] = LastOf(body, Naming(body, a)).ebi[a]

\* The short bodies that are decoded to something else than they say.
Misread ==
    {body \in UNION {[1..n -> Line] : n \in 0..MaxLines} : ~Says(Decode(body), body)}
=============================================================================
