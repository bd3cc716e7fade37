------------------------------ MODULE Gaussian ------------------------------
(***************************************************************************)
(* The complex amplitudes and coefficients of the core (scalar.rs, the     *)
(* Complex64 of num_complex) as Gaussian integers: a pair of integers,     *)
(* with exact arithmetic.  A unit complex number that the program makes of *)
(* an angle is a power of i here, so that every state, matrix and gradient *)
(* below is exact and two of them may be compared by equality.             *)
(***************************************************************************)
EXTENDS Folds

LOCAL INSTANCE Integers
LOCAL INSTANCE Sequences
LOCAL INSTANCE Functions

Complex == [re : Int, im : Int]
Gauss(re, im) == [re |-> re, im |-> im]
Zero == Gauss(0, 0)
One == Gauss(1, 0)

Plus(a, b) == Gauss(a.re + b.re, a.im + b.im)
Neg(a) == Gauss(-a.re, -a.im)
Minus(a, b) == Plus(a, Neg(b))
Times(a, b) == Gauss(a.re * b.re - a.im * b.im, a.re * b.im + a.im * b.re)
Conj(a) == Gauss(a.re, -a.im)
Scale(k, a) == Gauss(k * a.re, k * a.im)
NormSqr(a) == a.re * a.re + a.im * a.im

\* i ** k for any integer k.
IPow(k) == <<One, Gauss(0, 1), Gauss(-1, 0), Gauss(0, -1)>>[(k % 4) + 1]

\* Sum of f[i] over i \in S, product of the entries of a sequence.
Total(S, f) == MapThenFoldSet(Plus, Zero, LAMBDA i : f[i], LAMBDA T : CHOOSE i \in T : TRUE, S)
TotalOf(s) == Total(DOMAIN s, s)
ProductOf(s) == FoldFunction(Times, One, s)

(***************************************************************************)
(* Two by two matrices as sequences of rows.                               *)
(***************************************************************************)
Identity2 == <<<<One, Zero>>, <<Zero, One>>>>

Multiply2(a, b) ==
    [r \in 1..2 |-> [c \in 1..2 |-> Plus(Times(a[r][1], b[1][c]), Times(a[r][2], b[2][c]))]]

Adjoint2(a) == [r \in 1..2 |-> [c \in 1..2 |-> Conj(a[c][r])]]

\* Row r of the product of a matrix and the column <<left, right>>.
Row2(a, r, left, right) == Plus(Times(a[r][1], left), Times(a[r][2], right))
=============================================================================
