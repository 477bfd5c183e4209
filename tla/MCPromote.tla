------------------------------ MODULE MCPromote ------------------------------
(* A column of another type before a VARCHAR column, whose texts are on     *)
(* both sides of every limit of the regular expressions and the types, and  *)
(* parameters at and over the limit of three digits.                        *)
EXTENDS Promote

MCTypes == << "other", "VARCHAR" >>

Integer(zeros, int) == [sign |-> FALSE, zeros |-> zeros, int |-> int,
                        point |-> FALSE, frac |-> << >>, trail |-> 0]
Negative(v) == [v EXCEPT !.sign = TRUE]
Fraction(v, frac_, trail) ==
    [v EXCEPT !.point = TRUE, !.frac = frac_, !.trail = trail]

MCNumerals ==
    LET zero == Integer(1, << >>)
        one  == Integer(0, << 1 >>)
    IN  { zero, Negative(zero), Integer(2, << >>), one, Negative(one),
          Integer(1, << 7 >>), Integer(0, << 1, 0 >>), Integer(0, << 1, 0, 0 >>),
          Integer(0, << 1, 0, 0, 0 >>), Fraction(one, << 5 >>, 0),
          Fraction(one, << 5 >>, 1), Fraction(one, << 0, 5 >>, 0),
          Fraction(Integer(0, << >>), << 5 >>, 0), Fraction(zero, << >>, 1),
          Fraction(one, << >>, 0) }

MCOptions ==
    LET default == [max_int_digits |-> 2, decimal_int_digits |-> 2,
                    decimal_scale |-> 1, promote_decimal |-> TRUE,
                    fixed_width |-> FALSE]
    IN  { default,
          [default EXCEPT !.fixed_width = TRUE],
          [default EXCEPT !.fixed_width = TRUE, !.promote_decimal = FALSE],
          [default EXCEPT !.max_int_digits = 3, !.decimal_int_digits = 1,
                          !.decimal_scale = 2],
          [default EXCEPT !.decimal_scale = 2],
          [default EXCEPT !.max_int_digits = 4] }
=============================================================================
