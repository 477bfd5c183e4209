---------------------------- MODULE PromoteProofs ----------------------------
(***************************************************************************)
(* Promotion and restoration lose nothing of the rows that the analysis    *)
(* saw, whatever the texts, the parameters and the number of digits.  The  *)
(* argument: the type of a column fits every value seen in it, a cast to a *)
(* type that fits is the number itself, and print and lpad give the text   *)
(* back because leading zeros are either absent or fixed by the width.     *)
(***************************************************************************)
EXTENDS Promote, TLAPS

AllNumerals == [sign : BOOLEAN, zeros : Nat, int : Seq(0 .. 9),
                point : BOOLEAN, frac : Seq(0 .. 9), trail : Nat]

\* What each type needs of a text.
FitsBigint(v) ==
    /\ v \in Numerals /\ ~v.point /\ NoLeadingZero(v)
    /\ IntLength(v) <= MaxDigits
    /\ v.int = << >> => ~v.sign

FitsWidth(v, w) ==
    v \in Numerals /\ ~v.sign /\ ~v.point /\ IntLength(v) = w

FitsDecimal(v, p, s) ==
    v \in Numerals /\ IntLength(v) <= p - s /\ FracLength(v) <= s

\* The type of a column fits the values seen in it.
Fits(S, t) ==
    \/ t = AsIs
    \/ t = Bigint /\ \A v \in S : FitsBigint(v)
    \/ \E w \in 2 .. MaxDigits : t = Decimal(w, 0) /\ \A v \in S : FitsWidth(v, w)
    \/ \E p, s \in 1 .. MaxDigits :
          /\ s < p /\ t = Decimal(p, s)
          /\ \A v \in S : FitsDecimal(v, p, s)

PromoteInv ==
    /\ DOMAIN verdict = Columns /\ DOMAIN result = Columns
    /\ \A i \in Columns : Fits(seen[i] \ {NULL}, verdict[i])
    /\ seen \in [Columns -> SUBSET Texts] /\ table \in [Columns -> SUBSET Texts]

\* A numeral's parts have their types, and a number is none of the marks.
LEMMA NumeralParts ==
    ASSUME NEW v \in Numerals
    PROVE  /\ v \in AllNumerals /\ v \notin Words /\ v # NULL
           /\ v.sign \in BOOLEAN /\ v.point \in BOOLEAN
           /\ v.int \in Seq(0 .. 9) /\ v.frac \in Seq(0 .. 9)
           /\ v.zeros \in Nat /\ v.trail \in Nat
           /\ Len(v.int) \in Nat /\ Len(v.frac) \in Nat
           /\ ~v.point => v.frac = << >> /\ v.trail = 0
           /\ Number(v) \notin {NULL, Error, Changed}
<1>1. v \in AllNumerals
  BY TextAssumption DEF AllNumerals
<1>2. /\ v.sign \in BOOLEAN /\ v.point \in BOOLEAN
      /\ v.int \in Seq(0 .. 9) /\ v.frac \in Seq(0 .. 9)
      /\ v.zeros \in Nat /\ v.trail \in Nat
  BY <1>1 DEF AllNumerals
<1>3. Number(v) \in [sign : BOOLEAN, int : Seq(0 .. 9), frac : Seq(0 .. 9)]
  BY <1>2 DEF Number
<1>4. Number(v) \notin {NULL, Error, Changed}
  BY <1>3, TextAssumption
<1>5. Len(v.int) \in Nat /\ Len(v.frac) \in Nat
  BY <1>2
<1>6. v \notin Words /\ v # NULL /\ (~v.point => v.frac = << >> /\ v.trail = 0)
  BY TextAssumption
<1> QED
  BY <1>1, <1>2, <1>4, <1>5, <1>6

\* The three types differ in every way the definitions ask about.
LEMMA TypeForms ==
    /\ AsIs.name = "" /\ AsIs.scale = 0 /\ AsIs.precision = 0
    /\ Bigint.name = "BIGINT" /\ Bigint.scale = 0 /\ Bigint.precision = 0
    /\ AsIs # Bigint
    /\ \A p, s : /\ Decimal(p, s).name = "DECIMAL"
                 /\ Decimal(p, s).precision = p /\ Decimal(p, s).scale = s
                 /\ Decimal(p, s) # AsIs /\ Decimal(p, s) # Bigint
BY DEF AsIs, Bigint, Decimal, Type

\* The text of a numeral without a point is rebuilt from its number, its sign
\* and the number of its zeros.
LEMMA Rebuilt ==
    ASSUME NEW v \in Numerals, ~v.point, NEW w \in Nat,
           v.zeros = (IF Len(v.int) < w THEN w - Len(v.int)
                      ELSE IF v.int = << >> THEN 1 ELSE 0),
           v.int = << >> => ~v.sign
    PROVE  lpad(Number(v), w) = v
<1>1. /\ Number(v).sign = v.sign /\ Number(v).int = v.int
      /\ v.frac = << >> /\ v.trail = 0 /\ v.point = FALSE /\ v \in AllNumerals
  BY NumeralParts DEF Number
<1>2. v = [sign |-> v.sign, zeros |-> v.zeros, int |-> v.int,
           point |-> v.point, frac |-> v.frac, trail |-> v.trail]
  BY <1>1 DEF AllNumerals
<1> QED
  BY <1>1, <1>2 DEF lpad

\* A value that fits the type comes back.
LEMMA FittingValuesComeBack ==
    ASSUME NEW S, NEW t, Fits(S \ {NULL}, t), NEW v \in S, S \subseteq Texts,
           NEW y \in Cast(v, t)
    PROVE  ComesBack(v, t, OpenzlRestore(y, t))
<1>1. CASE v = NULL \/ t = AsIs
  BY <1>1, TypeForms DEF Cast, ComesBack, OpenzlRestore, RestoredWidth
<1> SUFFICES ASSUME v # NULL, t # AsIs
             PROVE  ComesBack(v, t, OpenzlRestore(y, t))
  BY <1>1
<1>2. CASE t = Bigint /\ \A u \in S \ {NULL} : FitsBigint(u)
  <2>1. FitsBigint(v) /\ v \in Numerals
    BY <1>2 DEF FitsBigint
  <2>2. y = Number(v)
    BY <1>2, <2>1, NumeralParts, OptionsAssumption
       DEF Cast, CastNumber, FitsBigint, IntLength, Number
  <2>3. OpenzlRestore(y, t) = y
    BY <1>2, TypeForms DEF OpenzlRestore, RestoredWidth
  <2>4. lpad(Number(v), 0) = v
    BY <2>1, Rebuilt, NumeralParts DEF FitsBigint, NoLeadingZero
  <2> QED
    BY <1>2, <2>1, <2>2, <2>3, <2>4, NumeralParts DEF ComesBack
<1>3. ASSUME NEW w \in 2 .. MaxDigits, t = Decimal(w, 0),
             \A u \in S \ {NULL} : FitsWidth(u, w)
      PROVE  ComesBack(v, t, OpenzlRestore(y, t))
  <2>0. /\ t.name = "DECIMAL" /\ t.precision = w /\ t.scale = 0 /\ t # Bigint
        /\ w \in Nat /\ 2 <= w /\ w <= MaxDigits
    <3>1. w \in Nat /\ 2 <= w /\ w <= MaxDigits
      BY OptionsAssumption
    <3>2. t = Decimal(w, 0)
      BY <1>3
    <3> QED
      BY <3>1, <3>2 DEF Decimal, Bigint, Type
  <2>1. FitsWidth(v, w) /\ v \in Numerals
    BY <1>3 DEF FitsWidth
  <2>2. y = Number(v)
    BY <2>0, <2>1, NumeralParts
       DEF Cast, CastNumber, FitsWidth, IntLength, Number
  <2>3. ~y.sign
    BY <2>1, <2>2 DEF Number, FitsWidth
  <2>4. OpenzlRestore(y, t) = lpad(y, w)
    BY <2>0, <2>1, <2>2, <2>3, NumeralParts DEF OpenzlRestore, RestoredWidth
  <2>5. lpad(Number(v), w) = v
    BY <2>1, Rebuilt, NumeralParts, OptionsAssumption DEF FitsWidth, IntLength
  <2>6. v \notin {NULL, Error, Changed}
    BY <2>1, NumeralParts, TextAssumption DEF AllNumerals
  <2> QED
    BY <2>0, <2>2, <2>4, <2>5, <2>6 DEF ComesBack
<1>4. ASSUME NEW p \in 1 .. MaxDigits, NEW s \in 1 .. MaxDigits, s < p,
             t = Decimal(p, s), \A u \in S \ {NULL} : FitsDecimal(u, p, s)
      PROVE  ComesBack(v, t, OpenzlRestore(y, t))
  <2>0. /\ t.name = "DECIMAL" /\ t.precision = p /\ t.scale = s /\ t # Bigint
        /\ p \in Nat /\ s \in Nat /\ s # 0 /\ s < p
    <3>1. p \in Nat /\ s \in Nat /\ s # 0 /\ s < p
      BY <1>4, OptionsAssumption
    <3>2. t = Decimal(p, s)
      BY <1>4
    <3> QED
      BY <3>1, <3>2 DEF Decimal, Bigint, Type
  <2>1. FitsDecimal(v, p, s) /\ v \in Numerals
    BY <1>4 DEF FitsDecimal
  <2>2. y = Number(v)
    BY <2>0, <2>1, NumeralParts
       DEF Cast, CastNumber, FitsDecimal, IntLength, FracLength, Number
  <2>3. OpenzlRestore(y, t) = y
    BY <2>0 DEF OpenzlRestore, RestoredWidth
  <2> QED
    BY <2>0, <2>1, <2>2, <2>3, NumeralParts DEF ComesBack
<1> QED
  BY <1>2, <1>3, <1>4 DEF Fits

\* The choice is a type that fits.
LEMMA ChoiceFits ==
    ASSUME NEW S, NEW o \in Options, Accepted(o)
    PROVE  Fits(S, Choice(S, o))
<1>0. /\ o.max_int_digits \in Int /\ o.decimal_int_digits \in Int
      /\ o.decimal_scale \in Int /\ MaxDigits \in Nat
  BY OptionsAssumption
<1>1. CASE S # {} /\ \A v \in S : int_re(v, o)
  <2>1. \A v \in S : FitsBigint(v)
    BY <1>0, <1>1, NumeralParts DEF int_re, FitsBigint, Accepted, IntLength
  <2> QED
    BY <1>1, <2>1 DEF Fits, Choice
<1>2. CASE S # {} /\ o.fixed_width /\ digits_fixed(S)
  <2> DEFINE w == width(S)
  <2>1. w \in 2 .. MaxDigits /\ \A v \in S : FitsWidth(v, w)
    BY <1>2 DEF digits_fixed, all_digits, FitsWidth
  <2>2. \E x \in 2 .. MaxDigits :
           Decimal(w, 0) = Decimal(x, 0) /\ \A v \in S : FitsWidth(v, x)
    BY <2>1
  <2>3. Fits(S, Decimal(w, 0))
    BY <2>2 DEF Fits
  <2>4. CASE ~\A v \in S : int_re(v, o)
    BY <1>2, <2>3, <2>4 DEF Choice
  <2> QED
    BY <1>1, <1>2, <2>4
<1>3. CASE \A v \in S : dec_re(v, o)
  <2> DEFINE p == o.decimal_int_digits + o.decimal_scale
             s == o.decimal_scale
  <2>1. p \in 1 .. MaxDigits /\ s \in 1 .. MaxDigits /\ s < p
    BY <1>0 DEF Accepted
  <2>2. ASSUME NEW v \in S PROVE FitsDecimal(v, p, s)
    <3>1. dec_re(v, o) /\ v \in Numerals
      BY <1>3 DEF dec_re
    <3>2. IntLength(v) <= o.decimal_int_digits
      BY <1>0, <3>1, NumeralParts DEF dec_re, IntLength, Accepted
    <3>3. FracLength(v) <= o.decimal_scale
      BY <1>0, <3>1, NumeralParts DEF dec_re, frac, FracLength, Accepted
    <3> QED
      BY <1>0, <3>1, <3>2, <3>3, NumeralParts DEF FitsDecimal, IntLength
  <2>3. Fits(S, Decimal(p, s))
    BY <2>1, <2>2 DEF Fits
  <2> QED
    BY <1>1, <1>2, <2>3 DEF Choice, Fits
<1> QED
  BY <1>1, <1>2, <1>3 DEF Choice, Fits

\* What a step may do to what the analysis and the scan have kept.
LEMMA InitPromoteInv == Init => PromoteInv /\ AnalysedRowsComeBack
BY DEF Init, PromoteInv, AnalysedRowsComeBack, Nothing, NoRows, Fits

LEMMA NextPromoteInv ==
    PromoteInv /\ AnalysedRowsComeBack /\ [Next]_vars
        => PromoteInv' /\ AnalysedRowsComeBack'
<1> SUFFICES ASSUME PromoteInv, AnalysedRowsComeBack, [Next]_vars
             PROVE  PromoteInv' /\ AnalysedRowsComeBack'
  OBVIOUS
<1>1. ASSUME NEW i \in Columns, NEW v \in Values(i), Insert(i, v)
      PROVE  PromoteInv' /\ AnalysedRowsComeBack'
  BY <1>1 DEF Insert, PromoteInv, AnalysedRowsComeBack, NoRows, Values, Texts
<1>2. ASSUME NEW i \in Columns, NEW v \in table[i], Delete(i, v)
      PROVE  PromoteInv' /\ AnalysedRowsComeBack'
  BY <1>2 DEF Delete, PromoteInv, AnalysedRowsComeBack, NoRows
<1>3. ASSUME NEW o \in Options, OpenzlPromoteBind(o)
      PROVE  PromoteInv' /\ AnalysedRowsComeBack'
  <2>1. \A i \in Columns : Fits(seen'[i] \ {NULL}, verdict'[i])
    <3> TAKE i \in Columns
    <3>1. Fits(table[i] \ {NULL}, Choice(table[i] \ {NULL}, o))
      BY <1>3, ChoiceFits DEF OpenzlPromoteBind
    <3>2. Fits(table[i] \ {NULL}, AsIs)
      BY DEF Fits
    <3> QED
      BY <1>3, <3>1, <3>2 DEF OpenzlPromoteBind
  <2>2. AnalysedRowsComeBack'
    BY <1>3 DEF OpenzlPromoteBind, AnalysedRowsComeBack, NoRows
  <2> QED
    BY <1>3, <2>1, <2>2 DEF OpenzlPromoteBind, PromoteInv, NoRows
<1>4. CASE OpenzlPromoteFunction
  <2>1. ASSUME NEW i \in Columns, NEW v \in DOMAIN result'[i] \cap seen'[i]
        PROVE  ComesBack(v, verdict'[i], OpenzlRestore(result'[i][v], verdict'[i]))
    <3>1. /\ seen' = seen /\ verdict' = verdict /\ result'[i] \in Converted(i)
      BY <1>4 DEF OpenzlPromoteFunction
    <3>2. v \in table[i] /\ result'[i][v] \in Cast(v, verdict[i])
      BY <3>1, <2>1 DEF Converted
    <3>3. Fits(seen[i] \ {NULL}, verdict[i]) /\ v \in seen[i] /\ seen[i] \subseteq Texts
      BY <2>1, <3>1 DEF PromoteInv
    <3> QED
      BY <3>1, <3>2, <3>3, FittingValuesComeBack
  <2>2. PromoteInv'
    BY <1>4 DEF OpenzlPromoteFunction, PromoteInv
  <2> QED
    BY <2>1, <2>2 DEF AnalysedRowsComeBack
<1>5. CASE UNCHANGED vars
  BY <1>5 DEF vars, PromoteInv, AnalysedRowsComeBack
<1> QED
  BY <1>1, <1>2, <1>3, <1>4, <1>5 DEF Next

\* No row that the analysis saw is changed by promotion and restoration or
\* fails a scan, for every set of texts, every accepted choice of parameters
\* and any commits before, between and after the queries of openzl_promote.
THEOREM PromoteAnalysedRowsComeBack == Spec => []AnalysedRowsComeBack
<1>1. Init => PromoteInv /\ AnalysedRowsComeBack
  BY InitPromoteInv
<1>2. PromoteInv /\ AnalysedRowsComeBack /\ [Next]_vars
        => PromoteInv' /\ AnalysedRowsComeBack'
  BY NextPromoteInv
<1> QED
  BY <1>1, <1>2, PTL DEF Spec

-----------------------------------------------------------------------------
(* The types themselves.                                                   *)

TypeFits64Bits(t) ==
    \/ t \in {AsIs, Bigint}
    \/ /\ t = Decimal(t.precision, t.scale)
       /\ t.precision \in 1 .. MaxDigits
       /\ t.scale \in 0 .. t.precision - 1

\* A DECIMAL within the digits fits 64 bits.
LEMMA DecimalFits ==
    ASSUME NEW p, NEW s, p \in 1 .. MaxDigits, s \in 0 .. p - 1
    PROVE  TypeFits64Bits(Decimal(p, s))
<1>1. Decimal(p, s).precision = p /\ Decimal(p, s).scale = s
  BY DEF Decimal, Type
<1> QED
  BY <1>1 DEF TypeFits64Bits

\* A type that is chosen fits 64 bits.
LEMMA ChoiceType ==
    ASSUME NEW S, NEW o \in Options, Accepted(o)
    PROVE  TypeFits64Bits(Choice(S, o))
<1>0. /\ o.decimal_int_digits \in Int /\ o.decimal_scale \in Int
      /\ MaxDigits \in Nat
  BY OptionsAssumption
<1>1. CASE digits_fixed(S) /\ Choice(S, o) = Decimal(width(S), 0)
  <2>1. width(S) \in 1 .. MaxDigits /\ 0 \in 0 .. width(S) - 1
    BY <1>0, <1>1 DEF digits_fixed
  <2> QED
    BY <1>1, <2>1, DecimalFits, Zenon
<1>2. /\ o.decimal_int_digits + o.decimal_scale \in 1 .. MaxDigits
      /\ o.decimal_scale \in
            0 .. (o.decimal_int_digits + o.decimal_scale) - 1
  BY <1>0 DEF Accepted
<1>3. TypeFits64Bits(Decimal(o.decimal_int_digits + o.decimal_scale,
                             o.decimal_scale))
  BY <1>2, DecimalFits, Zenon
<1> QED
  BY <1>1, <1>3 DEF Choice, TypeFits64Bits

\* Only VARCHAR columns are promoted, and to types of 64 bits, for every
\* table and all parameters that the function accepts.
THEOREM PromoteTypeOK == Spec => []TypeOK
<1>1. Init => TypeOK
  <2>1. DOMAIN << >> = {}
    OBVIOUS
  <2>2. Nothing \in [Columns -> SUBSET Texts]
    BY DEF Nothing
  <2>3. DOMAIN NoRows = Columns /\ \A i \in Columns : DOMAIN NoRows[i] = {}
    BY <2>1 DEF NoRows
  <2> QED
    BY <2>2, <2>3 DEF Init, TypeOK
<1>2. TypeOK /\ [Next]_vars => TypeOK'
  <2> SUFFICES ASSUME TypeOK, [Next]_vars PROVE TypeOK'
    OBVIOUS
  <2>1. ASSUME NEW i \in Columns, NEW v \in Values(i), Insert(i, v) PROVE TypeOK'
    BY <2>1 DEF Insert, TypeOK, NoRows, Values, Texts
  <2>2. ASSUME NEW i \in Columns, NEW v \in table[i], Delete(i, v) PROVE TypeOK'
    BY <2>2 DEF Delete, TypeOK, NoRows
  <2>3. ASSUME NEW o \in Options, OpenzlPromoteBind(o) PROVE TypeOK'
    <3>1. /\ table' = table /\ seen' = table /\ bound' = TRUE /\ result' = NoRows
          /\ Accepted(o) /\ DOMAIN verdict' = Columns
      BY <2>3 DEF OpenzlPromoteBind
    <3>2. ASSUME NEW i \in Columns
          PROVE  /\ TypeFits64Bits(verdict'[i])
                 /\ Types[i] # "VARCHAR" => verdict'[i] = AsIs
      BY <2>3, <3>1, ChoiceType DEF OpenzlPromoteBind, TypeFits64Bits
    <3> QED
      BY <3>1, <3>2 DEF TypeOK, NoRows, TypeFits64Bits
  <2>4. CASE OpenzlPromoteFunction
    <3>1. \A i \in Columns : DOMAIN result'[i] = table[i]
      BY <2>4 DEF OpenzlPromoteFunction, Converted
    <3> QED
      BY <2>4, <3>1 DEF OpenzlPromoteFunction, TypeOK
  <2>5. CASE UNCHANGED vars
    BY <2>5 DEF vars, TypeOK
  <2> QED
    BY <2>1, <2>2, <2>3, <2>4, <2>5 DEF Next
<1> QED
  BY <1>1, <1>2, PTL DEF Spec
=============================================================================
