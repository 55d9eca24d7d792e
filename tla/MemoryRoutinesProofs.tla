------------------------ MODULE MemoryRoutinesProofs ------------------------
(* For every size of the memory and every call: the routines write what they  *)
(* are asked to write and nothing else, and comparisons are right.  The invariant says which bytes the   *)
(* loop has dealt with so far, in either direction; the heart of the proof is *)
(* that the byte read next is never one of them.                              *)
EXTENDS MemoryRoutines, TLAPS

Up == call.routine = "memset" \/ Upwards(call)

Dealt ==
  IF call.routine = "memcmp" THEN {}
  ELSE IF Up THEN call.dest .. call.dest + i - 1
             ELSE call.dest + call.n - i .. call.dest + call.n - 1

SoFar == [a \in Cells |-> IF a \in Dealt THEN Wanted(a) ELSE before[a]]

WriteInv ==
  /\ MemoryTypeOK
  /\ memory = SoFar
  /\ (done /\ call.routine # "memcmp") => i = call.n

(* The bytes of a legal call lie in the memory, and are integers.             *)
LEMMA CallFacts ==
  ASSUME MemoryTypeOK
  PROVE  /\ call.n \in Nat /\ call.dest \in Nat /\ call.src \in Nat /\ i \in Nat
         /\ i <= call.n
         /\ call.dest + call.n <= MemorySize /\ call.src + call.n <= MemorySize
         /\ call.routine \in Routines /\ call.byte \in ByteValues
         /\ MemorySize \in Nat
  BY MemoryAssumption DEF MemoryTypeOK, Call, Legal, Fits

(* While bytes are left, the next byte to read has not been written.          *)
LEMMA NextSourceIsUntouched ==
  ASSUME MemoryTypeOK, i < call.n, call.routine \in {"memcpy", "memmove"}
  PROVE  /\ call.src + Offset(call) \in Cells \ Dealt
         /\ call.dest + Offset(call) \in Cells
         /\ Offset(call) \in 0 .. call.n - 1
<1>0. /\ call.n \in Nat /\ call.dest \in Nat /\ call.src \in Nat /\ i \in Nat
      /\ call.dest + call.n <= MemorySize /\ call.src + call.n <= MemorySize
      /\ MemorySize \in Nat
  BY CallFacts
<1> USE <1>0
<1>1. CASE Upwards(call)
  <2>1. Offset(call) = i
    BY <1>1 DEF Offset
  <2>2. Dealt = call.dest .. call.dest + i - 1
    BY <1>1 DEF Dealt, Up
  <2>3. call.dest < call.src \/ Disjoint(call.dest, call.src, call.n)
    BY <1>1 DEF Upwards, MemoryTypeOK, Legal
  <2>4. i \in Nat /\ i < call.n
    OBVIOUS
  <2>5. call.src + i \in Cells /\ call.dest + i \in Cells
    BY <2>4 DEF Cells
  <2>6. call.src + i \notin call.dest .. call.dest + i - 1
    BY <2>3, <2>4 DEF Disjoint
  <2> QED  BY <2>1, <2>2, <2>4, <2>5, <2>6
<1>2. CASE ~Upwards(call)
  <2>1. Offset(call) = call.n - 1 - i
    BY <1>2 DEF Offset
  <2>2. Dealt = call.dest + call.n - i .. call.dest + call.n - 1
    BY <1>2 DEF Dealt, Up
  <2>3. call.src <= call.dest
    BY <1>2 DEF Upwards
  <2>4. i \in Nat /\ i < call.n
    OBVIOUS
  <2>5. call.n - 1 - i \in 0 .. call.n - 1
    BY <2>4
  <2>6. /\ call.src + (call.n - 1 - i) \in Cells
        /\ call.dest + (call.n - 1 - i) \in Cells
    BY <2>4 DEF Cells
  <2>7. call.src + (call.n - 1 - i) \notin call.dest + call.n - i .. call.dest + call.n - 1
    BY <2>3, <2>4
  <2> QED  BY <2>1, <2>2, <2>5, <2>6, <2>7
<1> QED  BY <1>1, <1>2

(* Every routine but memcmp writes exactly what it is asked to write; memcmp  *)
(* writes nothing.                                                            *)
THEOREM MemoryInvariant == MemorySpec => []WriteInv
<1>1. MemoryInit => WriteInv
  <2> SUFFICES ASSUME MemoryInit PROVE WriteInv
    OBVIOUS
  <2>1. MemoryTypeOK
    <3>1. call.n \in 0 .. MemorySize
      BY DEF MemoryInit, Call
    <3>2. i \in 0 .. call.n /\ difference \in Int
      BY <3>1, MemoryAssumption DEF MemoryInit
    <3> QED  BY <3>2 DEF MemoryInit, MemoryTypeOK
  <2>2. Dealt = {}
    BY <2>1, CallFacts DEF Dealt, MemoryInit
  <2>3. memory = SoFar
    BY <2>1, <2>2 DEF SoFar, MemoryInit, MemoryTypeOK
  <2> QED  BY <2>1, <2>3 DEF WriteInv, MemoryInit
<1>2. WriteInv /\ [MemoryNext]_memoryVars => WriteInv'
  <2> SUFFICES ASSUME WriteInv, [MemoryNext]_memoryVars PROVE WriteInv'
    OBVIOUS
  <2> USE DEF WriteInv
  <2>0. /\ MemoryTypeOK
        /\ call.n \in Nat /\ call.dest \in Nat /\ call.src \in Nat /\ i \in Nat
        /\ i <= call.n
        /\ call.dest + call.n <= MemorySize /\ call.src + call.n <= MemorySize
        /\ call.routine \in Routines /\ call.byte \in ByteValues /\ MemorySize \in Nat
    BY CallFacts
  <2>1. CASE CopyByte
    <3> DEFINE to   == call.dest + Offset(call)
               from == call.src + Offset(call)
    <3>1. /\ from \in Cells \ Dealt /\ to \in Cells
          /\ Offset(call) \in 0 .. call.n - 1
      BY <2>0, <2>1, NextSourceIsUntouched DEF CopyByte
    <3>2. memory[from] = before[from] /\ before[from] \in ByteValues
      BY <3>1 DEF SoFar, MemoryTypeOK
    <3>3. UNCHANGED <<before, call, difference, done>> /\ i' = i + 1 /\ i < call.n /\ ~done
      BY <2>1 DEF CopyByte
    <3>4. memory' = [memory EXCEPT ![to] = before[from]]
      BY <2>1, <3>2 DEF CopyByte
    <3>5. MemoryTypeOK'
      <4>1. memory' \in [Cells -> ByteValues]
        BY <2>0, <3>2, <3>4 DEF MemoryTypeOK
      <4>2. i' \in 0 .. call.n
        BY <2>0, <3>3
      <4> QED  BY <2>0, <3>3, <4>1, <4>2 DEF MemoryTypeOK
    <3>6. Dealt' = Dealt \cup {to}
      <4>1. CASE Upwards(call)
        <5>1. Dealt = call.dest .. call.dest + i - 1 /\ Dealt' = call.dest .. call.dest + (i + 1) - 1
          BY <2>1, <3>3, <4>1 DEF Dealt, Up, CopyByte
        <5>2. to = call.dest + i
          BY <4>1 DEF Offset
        <5> QED  BY <2>0, <5>1, <5>2
      <4>2. CASE ~Upwards(call)
        <5>1. /\ Dealt = call.dest + call.n - i .. call.dest + call.n - 1
              /\ Dealt' = call.dest + call.n - (i + 1) .. call.dest + call.n - 1
          BY <2>1, <3>3, <4>2 DEF Dealt, Up, CopyByte
        <5>2. to = call.dest + (call.n - 1 - i)
          BY <4>2 DEF Offset
        <5>3. to = call.dest + call.n - (i + 1) /\ to + 1 = call.dest + call.n - i
          BY <2>0, <5>2
        <5>4. to \in Int /\ to <= call.dest + call.n - 1
          BY <2>0, <5>3
        <5>5. Dealt = to + 1 .. call.dest + call.n - 1 /\ Dealt' = to .. call.dest + call.n - 1
          BY <5>1, <5>3
        <5> HIDE DEF to
        <5> QED  BY <2>0, <5>4, <5>5
      <4> QED  BY <4>1, <4>2
    <3>7. Wanted(to) = before[from]
      <4>1. call.routine # "memset" /\ call.src + (to - call.dest) = from
        BY <2>0, <2>1, <3>1 DEF CopyByte
      <4> QED  BY <4>1 DEF Wanted
    <3>8. \A a \in Cells : Wanted(a)' = Wanted(a)
      BY <3>3 DEF Wanted
    <3>9. memory' = SoFar'
      BY <3>1, <3>3, <3>4, <3>6, <3>7, <3>8 DEF SoFar
    <3> QED  BY <3>3, <3>5, <3>9
  <2>2. CASE SetByte
    <3> DEFINE to == call.dest + i
    <3>1. /\ UNCHANGED <<before, call, difference, done>> /\ i' = i + 1 /\ i < call.n /\ ~done
          /\ memory' = [memory EXCEPT ![to] = call.byte]
          /\ call.routine = "memset"
      BY <2>2 DEF SetByte
    <3>2. MemoryTypeOK'
      <4>1. memory' \in [Cells -> ByteValues]
        BY <2>0, <3>1 DEF MemoryTypeOK
      <4>2. i' \in 0 .. call.n
        BY <2>0, <3>1
      <4> QED  BY <2>0, <3>1, <4>1, <4>2 DEF MemoryTypeOK
    <3>3. Dealt' = Dealt \cup {to} /\ to \in Cells
      <4>1. Dealt = call.dest .. call.dest + i - 1 /\ Dealt' = call.dest .. call.dest + (i + 1) - 1
        BY <3>1 DEF Dealt, Up
      <4> QED  BY <2>0, <3>1, <4>1 DEF Cells
    <3>4. Wanted(to) = call.byte /\ \A a \in Cells : Wanted(a)' = Wanted(a)
      BY <3>1 DEF Wanted
    <3>5. memory' = SoFar'
      BY <3>1, <3>3, <3>4 DEF SoFar
    <3> QED  BY <3>1, <3>2, <3>5
  <2>3. CASE CompareByte
    <3>1. /\ UNCHANGED <<memory, before, call>> /\ i' = i + 1 /\ i < call.n
          /\ call.routine = "memcmp" /\ done' \in BOOLEAN
          /\ difference' = memory[call.dest + i] - memory[call.src + i]
      BY <2>3 DEF CompareByte
    <3>2. memory[call.dest + i] \in Int /\ memory[call.src + i] \in Int
      <4>1. call.dest + i \in Cells /\ call.src + i \in Cells
        BY <2>0, <3>1 DEF Cells
      <4>2. memory[call.dest + i] \in ByteValues /\ memory[call.src + i] \in ByteValues
        BY <2>0, <4>1 DEF MemoryTypeOK
      <4> QED  BY <4>2, MemoryAssumption
    <3>3. MemoryTypeOK'
      <4>1. i' \in 0 .. call.n /\ difference' \in Int
        BY <2>0, <3>1, <3>2
      <4> QED  BY <2>0, <3>1, <4>1 DEF MemoryTypeOK
    <3>4. SoFar' = SoFar
      BY <3>1 DEF SoFar, Dealt, Wanted
    <3> QED  BY <3>1, <3>3, <3>4
  <2>4. CASE RoutineReturns
    <3>1. UNCHANGED <<memory, before, call, i, difference>> /\ done' = TRUE /\ i = call.n
      BY <2>0, <2>4 DEF RoutineReturns
    <3>2. MemoryTypeOK'
      BY <2>0, <3>1 DEF MemoryTypeOK
    <3>3. SoFar' = SoFar
      BY <3>1 DEF SoFar, Dealt, Up, Wanted
    <3> QED  BY <3>1, <3>2, <3>3
  <2>5. CASE UNCHANGED memoryVars
    BY <2>0, <2>5 DEF memoryVars, MemoryTypeOK, SoFar, Dealt, Up, Wanted
  <2> QED  BY <2>1, <2>2, <2>3, <2>4, <2>5 DEF MemoryNext, Returned
<1> QED  BY <1>1, <1>2, PTL DEF MemorySpec

(* What the loop of memcmp has seen: equal bytes only, up to the one it has   *)
(* returned at, if it has.                                                    *)
Equal(n)  == \A k \in 0 .. n - 1 : before[call.dest + k] = before[call.src + k]
Differs(k) ==
  /\ before[call.dest + k] # before[call.src + k]
  /\ difference = before[call.dest + k] - before[call.src + k]

CompareInv ==
  call.routine = "memcmp" =>
    \/ ~done /\ difference = 0 /\ Equal(i)
    \/ done /\ difference = 0 /\ Equal(call.n)
    \/ done /\ \E k \in 0 .. call.n - 1 : Equal(k) /\ Differs(k)

LEMMA ComparisonInvariant == MemorySpec => []CompareInv
<1>1. MemoryInit => CompareInv
  BY DEF MemoryInit, CompareInv, Equal
<1>2. WriteInv /\ CompareInv /\ [MemoryNext]_memoryVars => CompareInv'
  <2> SUFFICES ASSUME WriteInv, CompareInv, [MemoryNext]_memoryVars,
                      call'.routine = "memcmp"
               PROVE  CompareInv'
    BY DEF CompareInv
  <2>1. CASE CopyByte
    BY <2>1 DEF CopyByte
  <2>2. CASE SetByte
    BY <2>2 DEF SetByte
  <2>3. CASE CompareByte
    <3>1. /\ call.routine = "memcmp" /\ ~done /\ i < call.n /\ i \in Nat /\ call.n \in Nat
          /\ call.dest \in Nat /\ call.src \in Nat
          /\ call.dest + call.n <= MemorySize /\ call.src + call.n <= MemorySize
          /\ MemorySize \in Nat
          /\ i' = i + 1 /\ call' = call /\ before' = before
      BY <2>3, CallFacts DEF CompareByte, WriteInv
    <3>2. Equal(i)
      BY <3>1 DEF CompareInv
    <3>3. memory = before
      <4>1. Dealt = {}
        BY <3>1 DEF Dealt
      <4> QED  BY <4>1 DEF WriteInv, SoFar, MemoryTypeOK
    <3> DEFINE a == before[call.dest + i]
               b == before[call.src + i]
    <3>4. difference' = a - b /\ done' = (a # b)
      BY <2>3, <3>3 DEF CompareByte
    <3>5. a \in Int /\ b \in Int
      <4>1. call.dest + i \in Cells /\ call.src + i \in Cells
        BY <3>1 DEF Cells
      <4>2. before \in [Cells -> ByteValues]
        BY DEF WriteInv, MemoryTypeOK
      <4> QED  BY <4>1, <4>2, MemoryAssumption
    <3>6. CASE a = b
      <4>0. ~done'
        BY <3>4, <3>6, Zenon
      <4>1. ~done' /\ difference' = 0
        BY <3>4, <3>5, <3>6, <4>0
      <4>2. Equal(i + 1)
        BY <3>1, <3>2, <3>6 DEF Equal
      <4>3. Equal(i)'
        BY <3>1, <4>2 DEF Equal
      <4> QED  BY <4>1, <4>3 DEF CompareInv
    <3>7. CASE a # b
      <4>0. done'
        BY <3>4, <3>7, Zenon
      <4>1. done' /\ i \in 0 .. call'.n - 1
        BY <3>1, <4>0
      <4>2. before'[call'.dest + i] # before'[call'.src + i]
        BY <3>1, <3>7
      <4>3. difference' = before'[call'.dest + i] - before'[call'.src + i]
        BY <3>1, <3>4
      <4>4. \A k \in 0 .. i - 1 : before'[call'.dest + k] = before'[call'.src + k]
        BY <3>1, <3>2 DEF Equal
      <4> QED  BY <4>1, <4>2, <4>3, <4>4 DEF CompareInv, Equal, Differs
    <3> QED  BY <3>6, <3>7
  <2>4. CASE RoutineReturns
    <3>1. /\ i = call.n /\ ~done /\ done'
          /\ UNCHANGED <<before, call, difference>>
      BY <2>4, CallFacts DEF RoutineReturns, WriteInv
    <3>2. difference = 0 /\ Equal(call.n)
      BY <3>1 DEF CompareInv
    <3> QED  BY <3>1, <3>2 DEF CompareInv, Equal
  <2>5. CASE UNCHANGED memoryVars
    BY <2>5 DEF memoryVars, CompareInv, Equal, Differs
  <2> QED  BY <2>1, <2>2, <2>3, <2>4, <2>5 DEF MemoryNext, Returned
<1> QED  BY <1>1, <1>2, MemoryInvariant, PTL DEF MemorySpec

(* WritesAreExact holds of every call: whichever way the regions overlap,     *)
(* memmove leaves in the destination what the source held at the call.        *)
THEOREM CopiesAreExact == MemorySpec => []WritesAreExact
<1>1. WriteInv => WritesAreExact
  <2> SUFFICES ASSUME WriteInv, done PROVE memory = [a \in Cells |->
                 IF a \in Destination THEN Wanted(a) ELSE before[a]]
    BY DEF WritesAreExact
  <2>1. Dealt = Destination
    BY CallFacts DEF WriteInv, Dealt, Destination, Up
  <2> QED  BY <2>1 DEF WriteInv, SoFar
<1> QED  BY <1>1, MemoryInvariant, PTL

(* And so does the other half: memcmp answers with the first difference, and  *)
(* with zero only for equal regions.                                          *)
THEOREM RoutinesAreRight == MemorySpec => []RoutinesAreExact
<1>1. WriteInv /\ CompareInv => ComparisonIsLexicographic
  <2> SUFFICES ASSUME WriteInv, CompareInv, done, call.routine = "memcmp"
               PROVE  ComparisonIsLexicographic
    BY DEF ComparisonIsLexicographic
  <2> DEFINE differ == {k \in 0 .. call.n - 1 :
                          before[call.dest + k] # before[call.src + k]}
  <2>1. CASE difference = 0 /\ Equal(call.n)
    BY <2>1 DEF ComparisonIsLexicographic, Equal
  <2>2. CASE \E k \in 0 .. call.n - 1 : Equal(k) /\ Differs(k)
    <3>1. PICK k \in 0 .. call.n - 1 : Equal(k) /\ Differs(k)
      BY <2>2
    <3>2. k \in differ
      BY <3>1 DEF Differs
    <3>3. \A m \in differ : k <= m
      <4> SUFFICES ASSUME NEW m \in differ PROVE ~(m < k)
        BY CallFacts DEF WriteInv
      <4> QED  BY <3>1, CallFacts DEF Equal, WriteInv
    <3> QED  BY <3>1, <3>2, <3>3 DEF ComparisonIsLexicographic, Differs
  <2> QED  BY <2>1, <2>2 DEF CompareInv
<1> QED  BY <1>1, MemoryInvariant, ComparisonInvariant, CopiesAreExact, PTL DEF RoutinesAreExact
=============================================================================
