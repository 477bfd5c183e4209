------------------------------ MODULE Promote ------------------------------
(***************************************************************************)
(* openzl_promote and openzl_restore (src/src/openzl_extension.cpp): one   *)
(* query over the committed table chooses a type for each VARCHAR column   *)
(* when the statement is bound, and a later one, or several when it was    *)
(* prepared, read the table with the casts.  Other connections commit rows *)
(* before, between and after.                                              *)
(*                                                                         *)
(* A column is the set of its values.  A text of a sign, digits, a point   *)
(* and digits is a numeral: zeros, then int without a leading zero, and    *)
(* after the point frac without a trailing zero, then trail zeros.  Any    *)
(* other text is a word.  What DuckDB's CAST makes of a text is external.  *)
(***************************************************************************)
EXTENDS Integers, Sequences, FiniteSets

CONSTANTS
    Types,         \* the types of the table's columns, in order
    Numerals,      \* the numerals that occur
    Words,         \* the other texts, and the values of other types
    Options,       \* the named parameters that are tried
    MaxDigits,     \* 18: the digits that 64 bits always have room for
    NULL,
    Error,         \* a CAST fails
    Changed,       \* a value that the text does not stand for
    MaxRows        \* bound: values in a column

Columns == DOMAIN Types
Texts == Numerals \cup Words \cup {NULL}
Values(i) == IF Types[i] = "VARCHAR" THEN Texts ELSE Words

ASSUME TextAssumption ==
    /\ Types \in Seq({"VARCHAR", "other"})
    /\ Numerals \subseteq [sign : BOOLEAN, zeros : Nat, int : Seq(0 .. 9),
                           point : BOOLEAN, frac : Seq(0 .. 9), trail : Nat]
    /\ \A v \in Numerals :
          /\ v.zeros + Len(v.int) + Len(v.frac) + v.trail > 0
          /\ v.int # << >> => v.int[1] # 0
          /\ v.frac # << >> => v.frac[Len(v.frac)] # 0
          /\ ~v.point => v.frac = << >> /\ v.trail = 0
    /\ NULL \notin Numerals \cup Words
    /\ \A e \in {NULL, Error, Changed} :
          e \notin [sign : BOOLEAN, int : Seq(0 .. 9), frac : Seq(0 .. 9)]
                   \cup [sign : BOOLEAN, zeros : Nat, int : Seq(0 .. 9),
                         point : BOOLEAN, frac : Seq(0 .. 9), trail : Nat]
    /\ Numerals \cap Words = {}

ASSUME OptionsAssumption ==
    /\ MaxDigits \in Nat /\ MaxRows \in Nat
    /\ Options \subseteq [max_int_digits : Int, decimal_int_digits : Int,
                          decimal_scale : Int, promote_decimal : BOOLEAN,
                          fixed_width : BOOLEAN]

VARIABLES
    table,    \* the committed values of each column
    bound,    \* a statement has been bound
    verdict,  \* the type chosen for each column
    seen,     \* history: the values that the analysis saw
    result    \* what a scan that has just ended made of each value it read

vars == << table, bound, verdict, seen, result >>

Type(name, precision, scale) ==
    [name |-> name, precision |-> precision, scale |-> scale]
AsIs == Type("", 0, 0)
Bigint == Type("BIGINT", 0, 0)
Decimal(p, s) == Type("DECIMAL", p, s)

Nothing == [i \in Columns |-> {}]
NoRows == [i \in Columns |-> << >>]

Init ==
    /\ table = Nothing
    /\ bound = FALSE
    /\ verdict = [i \in Columns |-> AsIs]
    /\ seen = Nothing
    /\ result = NoRows

-----------------------------------------------------------------------------
(* Other connections.                                                      *)

Insert(i, v) ==
    /\ Cardinality(table[i]) < MaxRows
    /\ table' = [table EXCEPT ![i] = @ \cup {v}]
    /\ result' = NoRows
    /\ UNCHANGED << bound, verdict, seen >>

Delete(i, v) ==
    /\ table' = [table EXCEPT ![i] = @ \ {v}]
    /\ result' = NoRows
    /\ UNCHANGED << bound, verdict, seen >>

-----------------------------------------------------------------------------
(* OpenzlPromoteBind: the regular expressions and the choice.              *)

\* Mutant of Accepted: each of the two numbers by itself.
AcceptedOneByOne(o) ==
    /\ o.max_int_digits \in 1 .. MaxDigits
    /\ o.decimal_scale \in 1 .. MaxDigits
    /\ o.decimal_int_digits \in 1 .. MaxDigits

Accepted(o) ==
    /\ o.max_int_digits \in 1 .. MaxDigits
    /\ o.decimal_scale >= 1 /\ o.decimal_int_digits >= 1
    /\ o.decimal_int_digits + o.decimal_scale <= MaxDigits

IntLength(v) == v.zeros + Len(v.int)
FracLength(v) == Len(v.frac) + v.trail
NoLeadingZero(v) == v.zeros = (IF v.int = << >> THEN 1 ELSE 0)

int_re(v, o) ==
    /\ v \in Numerals /\ ~v.point
    /\ NoLeadingZero(v) /\ IntLength(v) <= o.max_int_digits
    /\ v.int = << >> => ~v.sign

frac(v, o) == v.point /\ FracLength(v) \in 1 .. o.decimal_scale

dec_re(v, o) ==
    /\ v \in Numerals
    /\ \/ /\ NoLeadingZero(v) /\ IntLength(v) <= o.decimal_int_digits
          /\ v.point => frac(v, o)
       \/ IntLength(v) = 0 /\ frac(v, o)

all_digits(S) == \A v \in S : v \in Numerals /\ ~v.sign /\ ~v.point

width(S) == IntLength(CHOOSE v \in S : TRUE)

\* Mutant of digits_fixed: min and max of the lengths are not compared.
digits_fixedAnyLength(S) == all_digits(S) /\ width(S) \in 2 .. MaxDigits

digits_fixed(S) ==
    /\ all_digits(S)
    /\ width(S) \in 2 .. MaxDigits
    /\ \A v \in S : IntLength(v) = width(S)

\* The type of a VARCHAR column whose values, NULLs apart, are S.
Choice(S, o) ==
    IF S = {} THEN AsIs
    ELSE IF \A v \in S : int_re(v, o) THEN Bigint
    ELSE IF o.fixed_width /\ digits_fixed(S) THEN Decimal(width(S), 0)
    ELSE IF o.promote_decimal /\ \A v \in S : dec_re(v, o)
    THEN Decimal(o.decimal_int_digits + o.decimal_scale, o.decimal_scale)
    ELSE AsIs

OpenzlPromoteBind(o) ==
    /\ Accepted(o)
    /\ verdict' = [i \in Columns |->
                     IF Types[i] = "VARCHAR" THEN Choice(table[i] \ {NULL}, o)
                     ELSE AsIs]
    /\ seen' = table
    /\ bound' = TRUE
    /\ result' = NoRows
    /\ UNCHANGED table

-----------------------------------------------------------------------------
(* DuckDB's CAST of a text, and the number that it stands for.             *)

Number(v) ==
    [sign |-> v.sign /\ ~(v.int = << >> /\ v.frac = << >>),
     int |-> v.int, frac |-> v.frac]

\* A fraction that is too long is rounded, a word may be read with spaces or
\* an exponent, and a BIGINT has room for some numbers of one digit more.
CastNumber(n, t) ==
    IF t = Bigint
    THEN IF n.frac # << >> THEN {Changed, Error}
         ELSE IF Len(n.int) <= MaxDigits THEN {n} ELSE {n, Error}
    ELSE IF Len(n.int) > t.precision - t.scale THEN {Error}
         ELSE IF Len(n.frac) > t.scale THEN {Changed, Error} ELSE {n}

Cast(v, t) ==
    IF v = NULL \/ t = AsIs THEN {v}
    ELSE IF v \in Words THEN {Changed, Error}
    ELSE CastNumber(Number(v), t)

-----------------------------------------------------------------------------
(* OpenzlPromoteInitGlobal and OpenzlPromoteFunction: a query has one      *)
(* snapshot of the table; with an Error in the result it throws.           *)

Converted(i) ==
    { r \in [table[i] -> UNION { Cast(v, verdict[i]) : v \in table[i] }] :
        \A v \in table[i] : r[v] \in Cast(v, verdict[i]) }

OpenzlPromoteFunction ==
    /\ bound
    /\ \E r \in [Columns -> UNION { Converted(i) : i \in Columns }] :
          /\ \A i \in Columns : r[i] \in Converted(i)
          /\ result' = r
    /\ UNCHANGED << table, bound, verdict, seen >>

-----------------------------------------------------------------------------
(* openzl_restore, over an archive with the rows of the last scan.         *)

\* The digits of an integer as text, with zeros to the width if that is more.
lpad(n, width_) ==
    [sign |-> n.sign, int |-> n.int, frac |-> << >>, point |-> FALSE, trail |-> 0,
     zeros |-> IF Len(n.int) < width_ THEN width_ - Len(n.int)
               ELSE IF n.int = << >> THEN 1 ELSE 0]

RestoredWidth(t) ==
    IF t.name = "DECIMAL" /\ t.scale = 0 /\ t.precision \in 2 .. MaxDigits
    THEN t.precision ELSE 0

\* lpad puts the zeros before a minus sign.
OpenzlRestore(x, t) ==
    IF x \in {NULL, Error, Changed} \/ RestoredWidth(t) = 0 THEN x
    ELSE IF x.sign THEN Changed ELSE lpad(x, RestoredWidth(t))

-----------------------------------------------------------------------------

Next ==
    \/ \E i \in Columns : \E v \in Values(i) : Insert(i, v)
    \/ \E i \in Columns : \E v \in table[i] : Delete(i, v)
    \/ \E o \in Options : OpenzlPromoteBind(o)
    \/ OpenzlPromoteFunction

Spec == Init /\ [][Next]_vars

-----------------------------------------------------------------------------
\* Only VARCHAR columns get a type, one that fits 64 bits.
TypeOK ==
    /\ table \in [Columns -> SUBSET Texts] /\ seen \in [Columns -> SUBSET Texts]
    /\ bound \in BOOLEAN
    /\ DOMAIN verdict = Columns /\ DOMAIN result = Columns
    /\ \A i \in Columns :
          /\ \/ verdict[i] \in {AsIs, Bigint}
             \/ /\ verdict[i] = Decimal(verdict[i].precision, verdict[i].scale)
                /\ verdict[i].precision \in 1 .. MaxDigits
                /\ verdict[i].scale \in 0 .. verdict[i].precision - 1
          /\ Types[i] # "VARCHAR" => verdict[i] = AsIs
          /\ DOMAIN result[i] \subseteq Texts

\* What the reader of the archive has to get for a value: the same text for a
\* BIGINT in print and a fixed-width column once restored, the same number
\* for a decimal, which alone may change its format.
ComesBack(v, t, x) ==
    IF v = NULL \/ t = AsIs THEN x = v
    ELSE /\ x \notin {NULL, Error, Changed}
         /\ IF t = Bigint THEN lpad(x, 0) = v
            ELSE IF t.scale = 0 THEN x = v
            ELSE x = Number(v)

\* No row that the analysis saw fails a scan or is changed by promotion and
\* restoration, whatever was committed between the two queries.  (Of rows
\* committed after the analysis this does not hold: they are cast to a type
\* that was chosen without them, and 1.55 may be read as a BIGINT 2.)
AnalysedRowsComeBack ==
    \A i \in Columns : \A v \in DOMAIN result[i] \cap seen[i] :
        ComesBack(v, verdict[i], OpenzlRestore(result[i][v], verdict[i]))
=============================================================================
