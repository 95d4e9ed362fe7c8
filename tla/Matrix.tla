------------------------------- MODULE Matrix -------------------------------
(***************************************************************************)
(* ruby/mymatrix.rb: matrices and vectors as objects that the operations   *)
(* change in place; LU decomposition with and without pivoting, and the    *)
(* determinant, the solution of A x = y and the inverse that rest on it.   *)
(*                                                                         *)
(* A number is a fraction with a mark: Ruby's Integer or Float.  The       *)
(* fractions are exact, the rounding of floats is left out; the mark is    *)
(* kept because / between two Integers rounds down.  A zero pivot gives    *)
(* Infinity in Ruby: the computation is not followed beyond it.            *)
(***************************************************************************)
EXTENDS Integers, Sequences, FiniteSets, FiniteSetsExt

CONSTANTS Matrices,   \* the matrices operated on, as tuples of rows of integers
          Vectors,    \* and the vectors
          Operands    \* the second operands of - and *

VARIABLES op, pc, mat, vec, p, k, ans,
          orig, origv   \* mat and vec before the operation

vars == <<op, pc, mat, vec, p, k, ans, orig, origv>>

-----------------------------------------------------------------------------
(* Numbers *)

Abs(x) == IF x < 0 THEN -x ELSE x
gcd[a, b \in Nat] == IF b = 0 THEN a ELSE gcd[b, a % b]
Frac(n, d, f) ==
    LET g == gcd[Abs(n), Abs(d)]
        s == IF d < 0 THEN -1 ELSE 1
    IN  [n |-> s * (n \div g), d |-> s * (d \div g), f |-> f]
Num(i) == [n |-> i, d |-> 1, f |-> FALSE]
Plus(x, y) == Frac(x.n * y.d + y.n * x.d, x.d * y.d, x.f \/ y.f)
Times(x, y) == Frac(x.n * y.n, x.d * y.d, x.f \/ y.f)
Minus(x, y) == Plus(x, Times(Num(-1), y))
Over(x, y) == IF x.f \/ y.f THEN Frac(x.n * y.d, x.d * y.n, TRUE) ELSE Num(x.n \div y.n)
Greater(x, y) == x.n * y.d > y.n * x.d
Same(x, y) == x.n = y.n /\ x.d = y.d
Zero == Num(0)
One == Num(1)
Float(x) == [x EXCEPT !.f = TRUE]

Fractions == [n : Int, d : Int, f : BOOLEAN]
SumOf[s \in Seq(Fractions)] == IF s = <<>> THEN Zero ELSE Plus(SumOf[Tail(s)], Head(s))
Lesser(i, j) == IF i < j THEN i ELSE j

-----------------------------------------------------------------------------
(* Vectors and matrices, and the arithmetic that changes its first operand *)

vector(elements) == [i \in 1..Len(elements) |-> Num(elements[i])]
vector_size(v) == Len(v)
matrix(elements) == [i \in 1..Len(elements) |-> vector(elements[i])]
rows(m) == Len(m)
cols(m) == Len(m[1])

vector_add(a, b) == [i \in 1..vector_size(a) |-> Plus(a[i], b[i])]
vector_times(v, num) == [i \in 1..vector_size(v) |-> Times(num, v[i])]
matrix_add(a, b) == [i \in 1..rows(a) |-> [j \in 1..cols(a) |-> Plus(a[i][j], b[i][j])]]
matrix_times(m, num) == [i \in 1..rows(m) |-> [j \in 1..cols(m) |-> Times(num, m[i][j])]]
matrix_vector_prod(a, v) ==
    [i \in 1..rows(a) |-> SumOf[[h \in 1..cols(a) |-> Times(a[i][h], v[h])]]]
matrix_prod(a, b) ==
    [i \in 1..rows(a) |-> [j \in 1..cols(b) |-> SumOf[[h \in 1..cols(a) |-> Times(a[i][h], b[h][j])]]]]

-----------------------------------------------------------------------------
(* LU decomposition in place                                               *)

ColumnNotStored(m, h) ==
    LET x == IF m[h][h].n = 0 THEN Zero ELSE Over(Float(One), m[h][h])
    IN  [i \in 1..rows(m) |-> [j \in 1..cols(m) |->
            IF i <= h \/ j <= h THEN m[i][j]
            ELSE Minus(m[i][j], Times(Times(m[i][h], x), m[h][j]))]]

\* One stage: column h of L, then the rest.  The reciprocal of a zero pivot
\* is not used when there is no row below it.
lu_decomp(m, h) ==
    LET x == IF m[h][h].n = 0 THEN Zero ELSE Over(Float(One), m[h][h])
        L(i) == Times(m[i][h], x)
    IN  [i \in 1..rows(m) |-> [j \in 1..cols(m) |->
            IF i <= h \/ j < h THEN m[i][j]
            ELSE IF j = h THEN L(i) ELSE Minus(m[i][j], Times(L(i), m[h][j]))]]

lu_split(lu) ==
    LET r == Lesser(rows(lu), cols(lu))
    IN  <<[i \in 1..rows(lu) |-> [j \in 1..r |-> IF i > j THEN lu[i][j] ELSE IF i = j THEN One ELSE Zero]],
          [i \in 1..r |-> [j \in 1..cols(lu) |-> IF i > j THEN Zero ELSE lu[i][j]]]>>

\* With pivoting, row i of the matrix is row p[i] of the object.
p_ref(m, i, j, q) == m[q[i]][j]
FirstPivot(m, h, q) == q
FirstNonzero(m, h, q) ==
    LET best == CHOOSE i \in h..rows(m) :
                    /\ p_ref(m, i, h, q).n # 0 \/ \A l \in h..rows(m) : p_ref(m, l, h, q).n = 0
                    /\ \A l \in h..i - 1 : p_ref(m, l, h, q).n = 0
    IN  [q EXCEPT ![h] = q[best], ![best] = q[h]]

p_update(m, h, q) ==
    LET Size(i) == [p_ref(m, i, h, q) EXCEPT !.n = Abs(@)]
        best == CHOOSE i \in h..rows(m) :
                    /\ \A l \in h..rows(m) : ~Greater(Size(l), Size(i))
                    /\ \A l \in h..i - 1 : Greater(Size(i), Size(l))
    IN  [q EXCEPT ![h] = q[best], ![best] = q[h]]
plu_decomp(m, h, q) ==
    LET x == IF p_ref(m, h, h, q).n = 0 THEN Zero ELSE Over(Float(One), p_ref(m, h, h, q))
        L(i) == Times(p_ref(m, i, h, q), x)
        Place(l) == CHOOSE i \in 1..rows(m) : q[i] = l
    IN  [l \in 1..rows(m) |-> [j \in 1..cols(m) |->
            LET i == Place(l)
            IN  IF i <= h \/ j < h THEN m[l][j]
                ELSE IF j = h THEN L(i) ELSE Minus(m[l][j], Times(L(i), p_ref(m, h, j, q)))]]
plu_split(lu, q) == lu_split([i \in 1..rows(lu) |-> [j \in 1..cols(lu) |-> p_ref(lu, i, j, q)]])

-----------------------------------------------------------------------------
(* L z = y and U x = y, in place in y                                      *)

sol_l(lu, y, n) ==
    LET z[i \in 1..n] ==
            Minus(y[i], SumOf[[j \in 1..i - 1 |-> Times(lu[i][j], z[j])]])
    IN  [i \in 1..n |-> IF i = 1 THEN y[1] ELSE z[i]]
sol_u(lu, y, n) ==
    LET x[i \in 1..n] ==
            Over(IF i = n THEN y[n]
                 ELSE Minus(y[i], SumOf[[j \in 1..n - i |-> Times(lu[i][i + j], x[i + j])]]), lu[i][i])
    IN  [i \in 1..n |-> x[i]]
sol_lu(lu, y) == sol_u(lu, sol_l(lu, y, vector_size(y)), vector_size(y))

-----------------------------------------------------------------------------
(* The operations.  The callers hold mat and vec, which are changed.       *)

Operations == {"lu", "plu", "det", "sol", "inv", "minus", "plus", "negate", "vprod", "prod"}
Start ==
    /\ pc = "idle" /\ pc' = "check"
    /\ op' \in Operations
    /\ \E m \in Matrices : mat' = matrix(m) /\ orig' = matrix(m)
    /\ \E v \in Vectors : vec' = vector(v) /\ origv' = vector(v)
    /\ p' = <<>> /\ k' = 1 /\ ans' = <<>>

Raise == pc' = "raised" /\ UNCHANGED <<op, mat, vec, p, k, ans, orig, origv>>
Square == rows(mat) = cols(mat)
Identity(n) == [i \in 1..n |-> [j \in 1..n |-> IF i = j THEN One ELSE Zero]]

\* det and inv refuse what is not square, sol leaves the check to its caller.
CheckLu ==
    /\ pc = "check" /\ op \in {"lu", "plu", "det", "inv", "sol"}
    /\ op = "sol" => Square /\ vector_size(vec) = rows(mat)
    /\ IF op \in {"det", "inv"} /\ ~Square THEN Raise
       ELSE /\ pc' = "loop"
            /\ p' = [i \in 1..rows(mat) |-> i]
            /\ ans' = IF op = "inv" THEN Identity(rows(mat)) ELSE <<>>
            /\ UNCHANGED <<op, mat, vec, k, orig, origv>>

Pivots == Lesser(rows(mat), cols(mat))
LuLoop ==
    /\ pc = "loop" /\ op # "plu" /\ k <= Pivots
    /\ IF mat[k][k].n = 0 /\ k < rows(mat) THEN pc' = "infinity" /\ UNCHANGED <<mat, k>>
       ELSE mat' = lu_decomp(mat, k) /\ k' = k + 1 /\ UNCHANGED pc
    /\ UNCHANGED <<op, vec, p, ans, orig, origv>>
PluLoop ==
    /\ pc = "loop" /\ op = "plu" /\ k <= Pivots
    /\ LET q == p_update(mat, k, p)
       IN  /\ p' = q
           /\ IF p_ref(mat, k, k, q).n = 0 /\ k < rows(mat) THEN pc' = "infinity" /\ UNCHANGED <<mat, k>>
              ELSE mat' = plu_decomp(mat, k, q) /\ k' = k + 1 /\ UNCHANGED pc
    /\ UNCHANGED <<op, vec, ans, orig, origv>>

Finished(l) == pc = "loop" /\ op = l /\ k > Pivots
EndLu ==
    /\ Finished("lu") \/ Finished("plu")
    /\ pc' = "end" /\ UNCHANGED <<op, mat, vec, p, k, ans, orig, origv>>
Product[i \in Nat] == IF i = 0 THEN One ELSE Times(Product[i - 1], mat[i][i])
DetSkipsLast ==
    /\ Finished("det")
    /\ ans' = Product[rows(mat) - 1] /\ pc' = "end" /\ UNCHANGED <<op, mat, vec, p, k, orig, origv>>

det ==
    /\ Finished("det")
    /\ ans' = Product[rows(mat)] /\ pc' = "end" /\ UNCHANGED <<op, mat, vec, p, k, orig, origv>>
\* sol_u divides by the last pivot too: Integers raise, Floats go on.
Singular == mat[rows(mat)][rows(mat)].n = 0
Divide0 == pc' = (IF rows(mat) = 1 THEN "raised" ELSE "infinity") /\ UNCHANGED <<op, mat, vec, p, k, ans, orig, origv>>
SolUpperOnly ==
    /\ Finished("sol")
    /\ IF Singular THEN Divide0
       ELSE /\ vec' = sol_u(mat, vec, vector_size(vec)) /\ pc' = "end"
            /\ UNCHANGED <<op, mat, p, k, ans, orig, origv>>

sol ==
    /\ Finished("sol")
    /\ IF Singular THEN Divide0
       ELSE vec' = sol_lu(mat, vec) /\ pc' = "end" /\ UNCHANGED <<op, mat, p, k, ans, orig, origv>>
InvTransposed ==
    /\ Finished("inv")
    /\ IF Singular THEN Divide0
       ELSE /\ LET n == rows(mat)
               IN  ans' = [j \in 1..n |-> sol_lu(mat, [i \in 1..n |-> ans[i][j]])]
            /\ pc' = "end" /\ UNCHANGED <<op, mat, vec, p, k, orig, origv>>

inv ==
    /\ Finished("inv")
    /\ IF Singular THEN Divide0
       ELSE /\ LET n == rows(mat)
                   col == [j \in 1..n |-> sol_lu(mat, [i \in 1..n |-> ans[i][j]])]
               IN  ans' = [i \in 1..n |-> [j \in 1..n |-> col[j][i]]]
            /\ pc' = "end" /\ UNCHANGED <<op, mat, vec, p, k, orig, origv>>

\* The operators +, -, * copy self, and * makes the result it fills.
Calculate(l, fits, r) ==
    /\ pc = "check" /\ op = l
    /\ IF fits THEN ans' = r /\ pc' = "end" /\ UNCHANGED <<op, mat, vec, p, k, orig, origv>>
       ELSE Raise
Op_minus ==
    \E b \in Operands :
        Calculate("minus", rows(mat) = Len(b) /\ cols(mat) = Len(b[1]),
                  matrix_add(mat, matrix_times(matrix(b), Num(-1))))
Op_plus == \E b \in Vectors : Calculate("plus", vector_size(vec) = Len(b), vector_add(vec, vector(b)))
Op_negate ==
    /\ pc = "check" /\ op = "negate"
    /\ ans' = vector_times(vec, Num(-1)) /\ pc' = "end" /\ UNCHANGED <<op, mat, vec, p, k, orig, origv>>
\* x * num, which for an x of one element is the number num * x[1].
vector_scaled(x, num) == IF vector_size(x) = 1 THEN Times(num, x[1]) ELSE vector_times(x, num)
matrix_scaled(x, num) == IF rows(x) = 1 /\ cols(x) = 1 THEN Times(num, x[1][1]) ELSE matrix_times(x, num)
\* A matrix of one element is a factor of whatever it is multiplied with.
Factor == rows(mat) = 1 /\ cols(mat) = 1
\* The result of a matrix times a vector is made with cols entries.
Op_vprod == Calculate("vprod", Factor \/ (cols(mat) = vector_size(vec) /\ rows(mat) = cols(mat)),
                      IF Factor THEN vector_scaled(vec, mat[1][1]) ELSE matrix_vector_prod(mat, vec))
Op_prod ==
    \E b \in Operands :
        Calculate("prod", Factor \/ cols(mat) = Len(b),
                  IF Factor THEN matrix_scaled(matrix(b), mat[1][1]) ELSE matrix_prod(mat, matrix(b)))

Forget ==
    /\ pc \in {"end", "raised", "infinity"} /\ pc' = "idle" /\ op' = "" /\ k' = 0
    /\ mat' = <<>> /\ vec' = <<>> /\ p' = <<>> /\ ans' = <<>> /\ orig' = <<>> /\ origv' = <<>>

Init ==
    /\ pc = "idle" /\ op = "" /\ k = 0
    /\ mat = <<>> /\ vec = <<>> /\ p = <<>> /\ ans = <<>> /\ orig = <<>> /\ origv = <<>>
Next ==
    \/ Start \/ CheckLu \/ LuLoop \/ PluLoop \/ EndLu \/ det \/ sol \/ inv
    \/ Op_minus \/ Op_plus \/ Op_negate \/ Op_vprod \/ Op_prod \/ Forget
Spec == Init /\ [][Next]_vars

-----------------------------------------------------------------------------
SameMatrix(a, b) == \A i \in DOMAIN b, j \in DOMAIN b[1] : Same(a[i][j], b[i][j])
SameVector(a, b) == \A i \in DOMAIN b : Same(a[i], b[i])

\* At every stage of the elimination, rows and columns before k are those of
\* L and U, and what is left is A less what L and U account for: the picture
\* in the comment of lu_decomp.  With pivoting, of the rows in the order p.
StageIsRight ==
    pc \in {"loop", "infinity"} =>
        \A i \in 1..rows(mat), j \in 1..cols(mat) :
            LET lu(a, b) == p_ref(mat, a, b, p)
                L(h) == Times(lu(i, h), lu(h, j))
                part == SumOf[[h \in 1..Lesser(Lesser(i - 1, j - 1), k - 1) |-> L(h)]]
            IN  Same(p_ref(orig, i, j, p),
                     Plus(part, IF j < i /\ j < k THEN Times(lu(i, j), lu(j, j)) ELSE lu(i, j)))

\* A' = L U, where row i of A' is row p[i] of A, and no element of L is
\* larger than one when the pivots are chosen.
DecompositionIsRight ==
    pc = "end" /\ op \in {"lu", "plu"} =>
        LET s == plu_split(mat, p)
        IN  /\ SameMatrix(matrix_prod(s[1], s[2]), [i \in 1..rows(orig) |-> orig[p[i]]])
            /\ {p[i] : i \in 1..rows(mat)} = 1..rows(mat)
            /\ op = "plu" => \A i \in 1..rows(mat), j \in 1..Pivots : Abs(s[1][i][j].n) <= s[1][i][j].d

\* The determinant by its definition, as a sum over permutations.
Perms(n) == {q \in [1..n -> 1..n] : \A i, j \in 1..n : i # j => q[i] # q[j]}
Sign(q) == IF Cardinality({<<i, j>> \in (DOMAIN q) \X (DOMAIN q) : i < j /\ q[i] > q[j]}) % 2 = 0 THEN 1 ELSE -1
Det(m) == FoldSet(LAMBDA q, s : s + Sign(q) * (LET P[i \in 0..rows(m)] == IF i = 0 THEN 1 ELSE P[i - 1] * m[i][q[i]].n
                                               IN  P[rows(m)]), 0, Perms(rows(m)))
DetIsRight == pc = "end" /\ op = "det" => Same(ans, Num(Det(orig)))

\* What sol leaves in y solves A x = y.  A system of one equation between
\* Integers is the exception: / rounds its solution.
SolutionIsRight ==
    pc = "end" /\ op = "sol" /\ rows(mat) > 1 => SameVector(matrix_vector_prod(orig, vec), origv)

\* The inverse is one from both sides, with the same exception.
InverseIsRight ==
    pc = "end" /\ op = "inv" /\ rows(mat) > 1 =>
        /\ SameMatrix(matrix_prod(orig, ans), Identity(rows(mat)))
        /\ SameMatrix(matrix_prod(ans, orig), Identity(rows(mat)))

\* Pivoting meets a zero only where the columns so far are dependent.
PivotingSucceeds ==
    pc = "infinity" /\ op = "plu" /\ rows(mat) = cols(mat) => Det(orig) = 0
=============================================================================
