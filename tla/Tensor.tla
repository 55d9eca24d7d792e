------------------------------- MODULE Tensor -------------------------------
(* The tensors of the speech recognizer, ai/tensor.rs: a vector of numbers    *)
(* and a shape that says how to cut it up.  Every operation indexes the       *)
(* vector by itself, so the two must never disagree.  The numbers are floats, *)
(* here integers, which floats of this size add and multiply without error;   *)
(* of what softmax and layer_norm compute only the cutting is kept.           *)
EXTENDS Integers, SequencesExt

CONSTANTS Tensors,    \* the tensors programs make with from_slice
          MaxOps      \* bound: operations in a row

Elements(shape) == FoldLeft(LAMBDA a, b : a * b, 1, shape)
Sum(s)          == FoldLeft(LAMBDA a, b : a + b, 0, s)

Consistent(t) == Len(t.data) = Elements(t.shape)

(* from_slice panics otherwise.                                               *)
TensorAssumption ==
  /\ MaxOps \in Nat
  /\ Tensors \subseteq [data : Seq(Int), shape : Seq(Nat)]
  /\ \A t \in Tensors : Consistent(t)

VARIABLES tensor,     \* the value the program works on
          groups,     \* what softmax or layer_norm took together, or <<>>
          answer,     \* "ok", "error" or "panic"
          operands,   \* ghost: what the last call was given
          ops

tensorVars == <<tensor, groups, answer, operands, ops>>

zeros(shape) == [data |-> [x \in 1 .. Elements(shape) |-> 0], shape |-> shape]

Init ==
  /\ tensor \in Tensors
  /\ groups = <<>> /\ answer = "ok" /\ operands = <<>> /\ ops = 0

Calls(name, other) ==
  /\ answer # "panic" /\ ops < MaxOps /\ ops' = ops + 1
  /\ operands' = <<name, tensor, other>>

Becomes(t) == tensor' = t /\ answer' = "ok"    /\ groups' = <<>>
Refused    == tensor' = tensor /\ answer' = "error" /\ groups' = <<>>

---------------------------------------------------------------------------
Multiplies(a, b) == Len(a.shape) = 2 /\ Len(b.shape) = 2 /\ a.shape[2] = b.shape[1]

(* The three loops of matmul: the element at i * n + j, from those at         *)
(* i * k + p and p * n + j.                                                   *)
Product_ByColumns(a, b) ==           \* fault: b is read as if it were transposed
  LET m == a.shape[1]  k == a.shape[2]  n == b.shape[2] IN
  [zeros(<<m, n>>) EXCEPT !.data =
    [x \in DOMAIN @ |->
      LET i == (x - 1) \div n  j == (x - 1) % n IN
      Sum([p \in 1 .. k |-> a.data[i * k + p] * b.data[j * k + p]])]]

Product(a, b) ==
  LET m == a.shape[1]  k == a.shape[2]  n == b.shape[2] IN
  [zeros(<<m, n>>) EXCEPT !.data =
    [x \in DOMAIN @ |->
      LET i == (x - 1) \div n  j == (x - 1) % n IN
      Sum([p \in 1 .. k |-> a.data[i * k + p] * b.data[(p - 1) * n + j + 1]])]]

matmul(b) ==
  /\ Calls("matmul", b)
  /\ IF Multiplies(tensor, b) THEN Becomes(Product(tensor, b)) ELSE Refused

(* add and mul walk over both vectors as far as both go, and check the length *)
(* of the result against the shape: from_slice.                               *)
Both(b) == DOMAIN tensor.data \cap DOMAIN b.data

Elementwise(name, b, data) ==
  LET t == [data |-> data, shape |-> tensor.shape] IN
  /\ Calls(name, b)
  /\ IF tensor.shape # b.shape THEN Refused
     ELSE IF Consistent(t) THEN Becomes(t)
     ELSE answer' = "panic" /\ UNCHANGED <<tensor, groups>>

add(b) == Elementwise("add", b, [x \in Both(b) |-> tensor.data[x] + b.data[x]])
mul(b) == Elementwise("mul", b, [x \in Both(b) |-> tensor.data[x] * b.data[x]])

relu ==
  /\ Calls("relu", tensor)
  /\ Becomes([tensor EXCEPT !.data = [x \in DOMAIN @ |-> IF @[x] < 0 THEN 0 ELSE @[x]]])

(* softmax and layer_norm take the elements together by the last dimension;   *)
(* where that is zero, the division that counts the groups panics.            *)
GroupsOf(t) ==
  LET last == Last(t.shape) IN
  [g \in 1 .. Len(t.data) \div last |-> <<(g - 1) * last + 1, g * last>>]

Normalize ==
  /\ Calls("normalize", tensor)
  /\ IF tensor.shape = <<>> THEN Becomes(tensor)
     ELSE IF Last(tensor.shape) = 0 THEN answer' = "panic" /\ UNCHANGED <<tensor, groups>>
     ELSE tensor' = tensor /\ answer' = "ok" /\ groups' = GroupsOf(tensor)

Next ==
  \/ \E b \in Tensors : matmul(b) \/ add(b) \/ mul(b)
  \/ relu \/ Normalize

Spec == Init /\ [][Next]_tensorVars

---------------------------------------------------------------------------
(* The rows of a tensor of two dimensions.                                    *)
Rows(t) == [i \in 1 .. t.shape[1] |->
             SubSeq(t.data, (i - 1) * t.shape[2] + 1, i * t.shape[2])]

(* What matmul should give: row i is the sum of the rows of b, each as often  *)
(* as row i of a says.                                                        *)
IsProduct(c, a, b) ==
  /\ c.shape = <<a.shape[1], b.shape[2]>>
  /\ \A i \in 1 .. c.shape[1], j \in 1 .. c.shape[2] :
       Rows(c)[i][j] = Sum([p \in 1 .. a.shape[2] |-> Rows(a)[i][p] * Rows(b)[p][j]])

(* Every element belongs to exactly one group.                                *)
Partition(ranges, n) ==
  \A x \in 1 .. n : \E g \in DOMAIN ranges : \A h \in DOMAIN ranges :
    (ranges[h][1] <= x /\ x <= ranges[h][2]) <=> h = g

(* After any sequence of operations, refused ones included, the vector has    *)
(* the length its shape says, so that no index is out of bounds and the       *)
(* assertion of from_slice never fails; a product is the product of the two   *)
(* matrices whatever their shapes; each element is normalized once; and only  *)
(* a last dimension of zero makes a call panic.                               *)
TensorsStayConsistent ==
  /\ Consistent(tensor)
  /\ (operands # <<>> /\ operands[1] = "matmul" /\ answer = "ok") =>
       IsProduct(tensor, operands[2], operands[3])
  /\ groups # <<>> => Partition(groups, Len(tensor.data))
  /\ answer = "panic" =>
       operands[1] = "normalize" /\ tensor.shape # <<>> /\ Last(tensor.shape) = 0
=============================================================================
