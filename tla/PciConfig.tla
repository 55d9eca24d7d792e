----------------------------- MODULE PciConfig ------------------------------
(* PCI configuration space, drivers/pci/mod.rs.  It is reached a double word  *)
(* at a time, through one port that selects it and one for its value; bytes   *)
(* and words are cut out of it, and written by reading the double word,       *)
(* replacing a part of it and writing all of it back.  One port access is one *)
(* step.  The functions on the bus are external: each records errors in its   *)
(* status register at any time, and clears the status bits a write has set    *)
(* (that is how they are acknowledged).                                       *)
(*                                                                            *)
(* A value is the set of the numbers of its set bits.                         *)
EXTENDS Integers

CONSTANTS Places,     \* functions on the bus, as <<bus, device, function>>
          Errors,     \* bits of Status that a function sets by itself
          Spaces,     \* what the registers may hold at first
          Values,     \* values written
          MaxCalls    \* bound: calls of the driver

Command == 4          \* offsets: the command register, below the status
Line    == 60         \* register, and the interrupt line

(* enable_io_space, enable_memory_space, enable_bus_mastering and             *)
(* disable_interrupts each set one bit of the command register.               *)
CommandBits == {0, 1, 2, 10}

Dwords == {Command, Line}

PciConfigAssumption ==
  /\ Places \subseteq (0 .. 255) \X (0 .. 31) \X (0 .. 7)
  /\ Errors \subseteq 16 .. 31 /\ MaxCalls \in Nat
  /\ Spaces \subseteq [Places -> [Dwords -> SUBSET (0 .. 31)]]
  /\ Values \subseteq SUBSET (0 .. 31)

Low(size)           == 0 .. 8 * size - 1
Shift(offset)       == 8 * (offset % 4)
Aligned(offset)     == offset - (offset % 4)
Cut(v, shift, size) == {b \in Low(size) : b + shift \in v}
Merge(v, part, shift, size) ==
  {b \in v : b - shift \notin Low(size)} \cup {b + shift : b \in part}

(* pci_address, without its bit 31, which is always set.                      *)
pci_address(place, offset) ==
  65536 * place[1] + 2048 * place[2] + 256 * place[3] + Aligned(offset)

(* How the host bridge takes an address apart.                                *)
Selects(address, place, dword) ==
  /\ address \div 65536 = place[1] /\ (address \div 2048) % 32 = place[2]
  /\ (address \div 256) % 8 = place[3] /\ address % 256 = dword

VARIABLES pc,        \* "idle", "select", "input", "modify" or "output"
          op,        \* the access under way
          dword,     \* the double word read, or about to be written
          result,    \* what the last read returned
          latch,     \* the address port
          space,     \* place -> its registers
          calls,
          expected,  \* ghost: what the registers should hold, errors aside
          unread     \* ghost: errors recorded since the driver last read the
                     \* register or acknowledged an older one of the kind

registers == <<latch, space>>
ghosts    == <<expected, unread>>
vars      == <<pc, op, dword, result, registers, calls, ghosts>>

Writable(d) == IF d = Command THEN CommandBits ELSE Low(1)
Settings(s) == [p \in Places |-> [d \in Dwords |-> s[p][d] \ Errors]]

NoOp == [kind |-> "none", size |-> 1, place |-> CHOOSE p \in Places : TRUE,
         offset |-> Line, value |-> {}, sets |-> {}]

Init ==
  /\ pc = "idle" /\ op = NoOp /\ dword = {} /\ result = {}
  /\ latch = 0 /\ space \in Spaces
  /\ calls = 0 /\ expected = Settings(space) /\ unread = [p \in Places |-> {}]

---------------------------------------------------------------------------
(* The calls.                                                                 *)
Call(o) ==
  /\ pc = "idle" /\ pc' = "select" /\ op' = o /\ result' = {}
  /\ calls < MaxCalls /\ calls' = calls + 1
  /\ UNCHANGED <<dword, registers, unread>>

Access(kind, place, offset, size, value) ==
  [kind |-> kind, size |-> size, place |-> place, offset |-> offset,
   value |-> value, sets |-> {}]

(* read_config_byte, read_config_word and read_config_dword                   *)
Read(place, offset, size) ==
  Call(Access("read", place, offset, size, {})) /\ UNCHANGED expected

Parts == {<<d + k, size>> : d \in Dwords, k \in 0 .. 3, size \in {1, 2, 4}}
IsAligned(part) == part[1] % part[2] = 0

(* What a write of the bytes asked for should leave in the registers.         *)
Expect(place, offset, size, value) ==
  LET d == Aligned(offset) IN
  expected' = [expected EXCEPT ![place][d] =
    (@ \ Writable(d)) \cup
    (Merge(@, value, Shift(offset), size) \cap Writable(d))]

(* write_config_byte, write_config_word and write_config_dword                *)
Write(place, offset, size, value) ==
  /\ Call(Access("write", place, offset, size, value))
  /\ Expect(place, offset, size, value)

(* enable_io_space and the others: the command register is read as a word,    *)
(* and written as one with the bit set.                                       *)
Enable(place, b) ==
  /\ Call([Access("read", place, Command, 2, {}) EXCEPT !.sets = {b}])
  /\ expected' = [expected EXCEPT ![place][Command] = @ \cup {b}]

---------------------------------------------------------------------------
(* The port accesses of a call.                                               *)
Shorter == op.kind = "write" /\ op.size < 4

Select ==
  /\ pc = "select"
  /\ pc' = IF op.kind = "read" \/ Shorter THEN "input" ELSE "output"
  /\ dword' = IF op.kind = "write" /\ ~Shorter THEN op.value ELSE {}
  /\ latch' = pci_address(op.place, op.offset)
  /\ UNCHANGED <<op, result, space, calls, ghosts>>

Input ==
  /\ pc = "input" /\ pc' = IF op.kind = "read" THEN "return" ELSE "modify"
  /\ \E p \in Places, d \in Dwords :
       /\ Selects(latch, p, d)
       /\ dword' = space[p][d]
       /\ unread' = IF d = Command THEN [unread EXCEPT ![p] = {}] ELSE unread
  /\ UNCHANGED <<op, result, registers, calls, expected>>

Return ==
  /\ pc = "return"
  /\ LET value == Cut(dword, Shift(op.offset), op.size) IN
     IF op.sets = {}
       THEN /\ pc' = "idle" /\ op' = op
            /\ result' = value
       ELSE /\ pc' = "select" /\ result' = result
            /\ op' = Access("write", op.place, Command, 2, value \cup op.sets)
  /\ dword' = {}
  /\ UNCHANGED <<registers, calls, ghosts>>

Modify_NoMerge ==                    \* fault: the rest of the double word is lost
  /\ pc = "modify" /\ pc' = "output"
  /\ dword' = Merge({}, op.value, Shift(op.offset), op.size)
  /\ UNCHANGED <<op, result, registers, calls, ghosts>>

Modify ==
  /\ pc = "modify" /\ pc' = "output"
  /\ dword' = Merge(dword, op.value, Shift(op.offset), op.size)
  /\ UNCHANGED <<op, result, registers, calls, ghosts>>

Output ==
  /\ pc = "output" /\ pc' = "idle" /\ op' = NoOp /\ dword' = {}
  /\ \E p \in Places, d \in Dwords :
       /\ Selects(latch, p, d)
       /\ space' = [space EXCEPT ![p][d] =
            ((@ \ Writable(d)) \cup (dword \cap Writable(d)))
              \ (IF d = Command THEN dword \cap Errors ELSE {})]
       /\ unread' = IF d = Command THEN [unread EXCEPT ![p] = @ \ dword] ELSE unread
  /\ UNCHANGED <<result, latch, calls, expected>>

Proceed == Select \/ Input \/ Return \/ Modify \/ Output

(* A function records an error.                                               *)
RecordError ==
  \E p \in Places, e \in Errors :
    /\ space' = [space EXCEPT ![p][Command] = @ \cup {e}]
    /\ unread' = [unread EXCEPT ![p] = @ \cup {e}]
    /\ UNCHANGED <<pc, op, dword, result, latch, calls, expected>>

Calls ==
  \E p \in Places :
    \/ \E b \in CommandBits : Enable(p, b)
    \/ \E part \in Parts :
         /\ IsAligned(part)
         /\ \/ Read(p, part[1], part[2])
            \/ \E v \in Values : v \subseteq Low(part[2]) /\ Write(p, part[1], part[2], v)

Next == Calls \/ Proceed \/ RecordError

Spec == Init /\ [][Next]_vars

---------------------------------------------------------------------------
TypeOK ==
  /\ pc \in {"idle", "select", "input", "return", "modify", "output"}
  /\ op.kind \in {"none", "read", "write"} /\ op.size \in {1, 2, 4}
  /\ op.kind # "none" => op.place \in Places
  /\ Aligned(op.offset) \in Dwords
  /\ dword \cup result \cup op.value \subseteq 0 .. 31
  /\ calls \in 0 .. MaxCalls
  /\ space \in [Places -> [Dwords -> SUBSET (0 .. 31)]]

(* Between calls every register of every function holds what was asked for:   *)
(* no access touches another function, another register or a byte next to its *)
(* own, although each write carries all four.                                 *)
RegistersAreExact == pc = "idle" => Settings(space) = expected

(* A read answers with the bytes asked for and no others; errors may have     *)
(* come since.                                                                *)
AnswersAreExact ==
  pc = "idle" /\ op.kind = "read" =>
    result \ Low(4) = {} /\
    {b + Shift(op.offset) : b \in result} \ Errors =
      {b \in expected[op.place][Aligned(op.offset)] : b - Shift(op.offset) \in Low(op.size)}

(* Writing back what was read also acknowledges the errors that were pending. *)
(* One that is recorded between the read and the write survives it, unless an *)
(* older one of its kind was pending.  An error counts as seen once a read of *)
(* its double word returned it, whichever bytes of it the caller was after.   *)
NoErrorIsMissed == \A p \in Places : unread[p] \subseteq space[p][Command]

AccessesAreExact == RegistersAreExact /\ AnswersAreExact /\ NoErrorIsMissed
=============================================================================
