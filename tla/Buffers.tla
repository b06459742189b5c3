------------------------------- MODULE Buffers -------------------------------
(***************************************************************************)
(* @ohos.buffer: buffer/src/js_buffer.ts over the native Buffer and Blob   *)
(* of js_buffer.cpp, js_blob.cpp and native_module_buffer.cpp.             *)
(*                                                                         *)
(* What is at stake is who sees which memory.  A native Buffer is a raw    *)
(* pointer, an offset and a length; some own their memory, and the others  *)
(* do not keep it alive.  A byte is a number below Base.                   *)
(***************************************************************************)
EXTENDS Integers, Sequences, SequencesExt

CONSTANTS
  Base,       \* of a byte, even; 256
  MaxLength,  \* bound: of a buffer that the program makes
  MaxBuffers, \* bound: buffers
  MaxPooled,  \* bound: buffers where there is a pool, with the pools
  PoolSize,   \* of the pool for small buffers; 8 * 1024
  Alignment,  \* of the buffers in it; 8
  Longest     \* bound: the length of the buffer that numbers are written to

VARIABLE buffers

Byte == 0..(Base - 1)
Sizes == 0..MaxLength
NoNumber == [style |-> "none"]
Zeros(n) == [i \in 1..n |-> 0]

(* mem: blocks of memory: their bytes, and whether they were freed         *)
(* buf: Buffer objects: block (0: null), off, len; owns: needRelease_;     *)
(*   from: how it was made; live: the program can still reach it           *)
(* pool: the current pool, a buffer; poolOffset                            *)
(* dangling: freed memory was used; same: results agree with what they     *)
(*   should be; phase: "memory" without and "pool" with the pool, "numbers" *)
(*   where a number is written, and "written": then wrote, what was asked  *)
(*   for and what reading it gives, nothing if it was refused              *)
TypeOK ==
  /\ \A m \in Range(buffers.mem) : m.bytes \in Seq(Byte) /\ m.freed \in BOOLEAN
  /\ \A b \in Range(buffers.buf) :
       /\ b.block \in 0..Len(buffers.mem) /\ b.off \in Nat /\ b.len \in Nat
       /\ b.owns \in BOOLEAN /\ b.live \in BOOLEAN /\ b.from \in {"own", "pool", "sub", "array"}
  /\ buffers.pool \in 0..Len(buffers.buf) /\ buffers.poolOffset \in 0..PoolSize
  /\ buffers.dangling \in BOOLEAN /\ buffers.same \in BOOLEAN
  /\ \/ buffers.phase \in {"memory", "pool", "numbers"} /\ buffers.wrote = NoNumber
     \/ buffers.phase = "written" /\ buffers.wrote.read \subseteq Int

View(block, off, len, owns, from) ==
  [block |-> block, off |-> off, len |-> len, owns |-> owns, from |-> from, live |-> TRUE]
Block(bytes) == [bytes |-> bytes, freed |-> FALSE]

Init ==
  \E phase \in {"memory", "pool", "numbers"} :
    buffers = [mem |-> IF phase = "numbers" THEN <<Block([i \in 1..Longest |-> i % 2])>> ELSE <<>>,
               buf |-> IF phase = "numbers" THEN <<View(1, 0, Longest, TRUE, "own")>> ELSE <<>>,
               pool |-> 0, poolOffset |-> 0, dangling |-> FALSE, same |-> TRUE, phase |-> phase, wrote |-> NoNumber]

----------------------------------------------------------------------------
(* The native Buffer *)

Bytes(s, b) == IF b.block = 0 THEN <<>> ELSE SubSeq(s.mem[b.block].bytes, b.off + 1, b.off + b.len)

(* WriteBytes, memcpy_s: one after the other from "at" on *)
WriteBytes(s, b, at, bytes) ==
  IF bytes = <<>> \/ b.block = 0 THEN s
  ELSE [s EXCEPT !.mem[b.block].bytes =
          [i \in DOMAIN @ |-> LET k == i - (b.off + at) IN IF k \in DOMAIN bytes THEN bytes[k] ELSE @[i]]]

(* ReadBytes *)
ReadBytes(s, b, at, n) == SubSeq(Bytes(s, b), at + 1, at + n)

(* FillNumber, FillBuffer, WriteStringLoop: the pattern again and again,   *)
(* the last time as much of it as fits.                                    *)
Filled(s, b, pattern, from, to) ==
  WriteBytes(s, b, from, [i \in 1..(to - from) |-> pattern[((i - 1) % Len(pattern)) + 1]])

(* Copy: memmove within one block, and memcpy between two *)
CopyBytes(s, b, target, targetStart, sourceStart, sourceEnd) ==
  LET room == target.len - targetStart
      n == IF room > sourceEnd - sourceStart THEN sourceEnd - sourceStart ELSE room
  IN  [s |-> WriteBytes(s, target, targetStart, ReadBytes(s, b, sourceStart, n)), n |-> n]

(* memcmp: the sign of the first difference *)
CompareBytes(p, q) ==
  LET at == {i \in DOMAIN p : p[i] # q[i]} IN
  IF at = {} THEN 0
  ELSE LET i == CHOOSE i \in at : \A j \in at : i <= j IN IF p[i] < q[i] THEN -1 ELSE 1

(* Init(size): malloc, whose bytes are whatever was there.                 *)
InitSize(s, garbage) ==
  [mem |-> Append(s.mem, Block(garbage)), view |-> View(Len(s.mem) + 1, 0, Len(garbage), TRUE, "own")]

(* A malloc of no bytes is not done. *)
InitEmpty(s) == [mem |-> s.mem, view |-> View(0, 0, 0, TRUE, "own")]
NewBuffer(s, bytes) == IF bytes = <<>> THEN InitEmpty(s) ELSE InitSize(s, bytes)

Added(s, made) == [s EXCEPT !.mem = made.mem, !.buf = Append(@, made.view)]

(* SubBuffer, and Init(pool, ...): the same memory, which is not kept.     *)
SubBuffer(b, start, end) == View(b.block, b.off + start, end - start, FALSE, "sub")

----------------------------------------------------------------------------
(* Making buffers *)

Most == IF buffers.phase = "pool" THEN MaxPooled ELSE MaxBuffers
Room == Len(buffers.buf) < Most
Live(k) == k \in DOMAIN buffers.buf /\ buffers.buf[k].live
Freed(b) == b.block # 0 /\ buffers.mem[b.block].freed

(* What a call that uses the buffers ks does: freed memory is not read or  *)
(* written in the model.                                                   *)
Use(ks, result) ==
  buffers' = IF \E k \in ks : Freed(buffers.buf[k]) THEN [buffers EXCEPT !.dangling = TRUE] ELSE result

Alloc(size, fill) ==
  /\ Room
  /\ buffers' = Added(buffers, NewBuffer(buffers, [i \in 1..size |-> fill]))

\* Mutant: the rest of the block of alignment is not skipped, but given back.
AlignPoolDown(offset) == offset - (offset % Alignment)
AlignPool(offset) == IF offset % Alignment = 0 THEN offset ELSE offset - (offset % Alignment) + Alignment

(* allocUninitializedFromPool: a full pool is replaced by a new one, and   *)
(* only the buffers in it still point to the old one.                      *)
AllocUninitializedFromPool(size, garbage) ==
  /\ Room
  /\ LET s == buffers
         fresh == s.pool = 0 \/ (2 * size < PoolSize /\ size > PoolSize - s.poolOffset)
         t == IF fresh
              THEN [Added(s, NewBuffer(s, [i \in 1..PoolSize |-> garbage])) EXCEPT !.pool = Len(s.buf) + 1, !.poolOffset = 0]
              ELSE s
     IN /\ fresh => Len(s.buf) + 1 < Most
        /\ buffers' = IF 2 * size < PoolSize
             THEN [t EXCEPT !.buf = Append(@, [SubBuffer(t.buf[t.pool], t.poolOffset, t.poolOffset + size) EXCEPT !.from = "pool"]),
                            !.poolOffset = AlignPool(@ + size)]
             ELSE Added(t, NewBuffer(t, [i \in 1..size |-> garbage]))

(* new Buffer(buffer): a copy; of an ArrayBuffer or a Uint8Array: its memory *)
FromBuffer(k) ==
  /\ Room /\ Live(k)
  /\ Use({k}, Added(buffers, NewBuffer(buffers, Bytes(buffers, buffers.buf[k]))))

(* The block of an ArrayBuffer lives as long as the program wants.         *)
CreateBufferFromArrayBuffer(size, off, len) ==
  /\ Room /\ size # 0 /\ off <= size /\ len <= size - off
  /\ buffers' = [buffers EXCEPT !.mem = Append(@, Block(Zeros(size))),
                                !.buf = Append(@, View(Len(buffers.mem) + 1, off, len, FALSE, "array"))]

(* A negative start or end, or an empty range, makes an empty buffer.      *)
Subarray(k, start, end) ==
  /\ Room /\ Live(k)
  /\ LET b == buffers.buf[k]
         to == IF end > b.len THEN b.len ELSE end
     IN  buffers' = IF start < 0 \/ end < 0 \/ to <= start THEN Added(buffers, InitEmpty(buffers))
                    ELSE [buffers EXCEPT !.buf = Append(@, SubBuffer(b, start, to))]

(* concat: each is copied behind the one before, as far as there is room.  *)
Concat(j, k, total) ==
  /\ Room /\ Live(j) /\ Live(k)
  /\ LET p == buffers.buf[j]
         q == buffers.buf[k]
         length == IF total = 0 THEN p.len + q.len ELSE total
         s == Added(buffers, NewBuffer(buffers, Zeros(length)))
         b == Last(s.buf)
         one == IF p.len = 0 \/ length = 0 THEN s ELSE CopyBytes(s, p, b, 0, 0, p.len).s
         two == IF p.len >= b.len \/ q.len = 0 THEN one ELSE CopyBytes(one, q, b, p.len, 0, q.len).s
     IN  /\ length <= MaxLength
         /\ Use({j, k}, [two EXCEPT !.same = Bytes(two, b) =
              SubSeq(Bytes(buffers, p) \o Bytes(buffers, q) \o Zeros(length), 1, length)])

----------------------------------------------------------------------------
(* Using them *)

(* fill: nothing is done for an empty range; an empty pattern would never  *)
(* end and is not tried.                                                   *)
Fill(k, pattern, offset, end) ==
  /\ Live(k) /\ buffers.buf[k].len # 0 /\ pattern # <<>>
  /\ offset < end /\ end <= buffers.buf[k].len
  /\ Use({k}, Filled(buffers, buffers.buf[k], pattern, offset, end))

(* copy: what does not fit is left out. *)
Copy(j, k, targetStart, sourceStart, sourceEnd) ==
  /\ Live(j) /\ Live(k)
  /\ LET b == buffers.buf[j]
         target == buffers.buf[k]
         end == IF sourceEnd > b.len THEN b.len ELSE sourceEnd
         done == CopyBytes(buffers, b, target, targetStart, sourceStart, end)
     IN  /\ targetStart < target.len /\ sourceStart < sourceEnd /\ sourceStart < b.len
         /\ Use({j, k}, [done.s EXCEPT !.same =
              Bytes(done.s, target) =
                SubSeq(Bytes(buffers, target), 1, targetStart)
                  \o SubSeq(Bytes(buffers, b), sourceStart + 1, sourceStart + done.n)
                  \o SubSeq(Bytes(buffers, target), targetStart + done.n + 1, target.len)])

(* compare: 0, or the order of the first difference or of the lengths.     *)
Compare(p, q) ==
  LET n == IF Len(p) > Len(q) THEN Len(q) ELSE Len(p)
      val == CompareBytes(SubSeq(q, 1, n), SubSeq(p, 1, n))
  IN  IF p = <<>> THEN (IF q = <<>> THEN 0 ELSE -1)
      ELSE IF q = <<>> THEN 1
      ELSE IF val = 0 THEN (IF Len(p) = Len(q) THEN 0 ELSE IF Len(p) < Len(q) THEN -1 ELSE 1)
      ELSE IF val < 0 THEN 1 ELSE -1

(* swap16, swap32, swap64: pairs of bytes from both ends of every group    *)
ReverseBits(bytes, n) ==
  [i \in DOMAIN bytes |-> bytes[n * ((i - 1) \div n) + n - ((i - 1) % n)]]

Swap(k, n) ==
  /\ Live(k) /\ buffers.buf[k].len # 0 /\ buffers.buf[k].len % n = 0
  /\ LET b == buffers.buf[k] IN
     Use({k}, WriteBytes(buffers, b, 0, ReverseBits(Bytes(buffers, b), n)))

(* The collector finds that a buffer is out of reach: its memory is freed  *)
(* if it owns it.  The module itself keeps the pool.                       *)
FinalizeBufferCallback(k) ==
  /\ Live(k) /\ k # buffers.pool
  /\ LET b == buffers.buf[k] IN
     buffers' = [buffers EXCEPT !.buf[k].live = FALSE,
                                !.mem = IF b.owns /\ b.block # 0 THEN [@ EXCEPT ![b.block].freed = TRUE] ELSE @]

----------------------------------------------------------------------------
(* Numbers *)

WriteBE(value, n) == [i \in 1..n |-> (value \div Base^(n - i)) % Base]
WriteLE(value, n) == [i \in 1..n |-> (value \div Base^(i - 1)) % Base]
ReadBE(bytes) ==
  LET sum[i \in 0..Len(bytes)] == IF i = 0 THEN 0 ELSE sum[i - 1] * Base + bytes[i] IN sum[Len(bytes)]
ReadLE(bytes) == ReadBE(Reverse(bytes))

(* val | (val & sign) * ...: a set sign bit makes the number negative.     *)
Signed(value, n) == IF 2 * value >= Base^n THEN value - Base^n ELSE value

(* checkOffsetRange *)
InRange(b, offset, n) == 0 <= offset /\ offset <= b.len - n

(* rangeErrorCheck of the functions that write; writeBigInt64, for 8 bytes, *)
(* accepts one number too many.                                            *)
Accepts(style, n, value) ==
  IF style \in {"intBE", "intLE"}
  THEN 0 - Base^n \div 2 <= value /\ value < Base^n \div 2 + (IF n = 8 THEN 1 ELSE 0)
  ELSE 0 <= value /\ value < Base^n

(* writeData, for writeIntBE and writeIntLE: there are no signed functions *)
(* for 3, 5 and 6 bytes, and those for little-endian numbers are not used. *)
Dispatched(style, n) ==
  IF style = "intLE" THEN "uintLE" ELSE IF style = "intBE" /\ n \in {3, 5, 6} THEN "uintBE" ELSE style

WriteData(style, n, value) == IF style \in {"intBE", "uintBE"} THEN WriteBE(value, n) ELSE WriteLE(value, n)

ReadData(style, bytes) ==
  LET value == IF style \in {"intBE", "uintBE"} THEN ReadBE(bytes) ELSE ReadLE(bytes) IN
  IF style \in {"intBE", "intLE"} THEN Signed(value, Len(bytes)) ELSE value

(* A number is written as "as" and read as what the program calls it.      *)
WriteNumber(style, as, n, offset, value) ==
  /\ InRange(buffers.buf[1], offset, n)
  /\ LET b == buffers.buf[1]
         data == WriteData(as, n, value)
         s == WriteBytes(buffers, b, offset, data)
         old == Bytes(buffers, b)
         Asked(result) == [style |-> style, as |-> as, n |-> n, value |-> value, read |-> result]
         read == ReadData(style, ReadBytes(s, b, offset, n))
     IN  buffers' =
           IF ~Accepts(as, n, value)
           THEN [buffers EXCEPT !.phase = "written", !.wrote = Asked({})]
           ELSE [s EXCEPT !.phase = "written", !.wrote = Asked({read}),
                   !.same = Bytes(s, b) = SubSeq(old, 1, offset) \o data \o SubSeq(old, offset + n + 1, b.len)]

(* By the number of bytes: one function for each style and 1, 2, 4 and 8   *)
(* bytes, and one for each style that dispatches on the number.            *)
WriteBig(style, n, offset, value) == n = 8 /\ WriteNumber(style, style, n, offset, value)
WriteWord(style, n, offset, value) == n = 4 /\ WriteNumber(style, style, n, offset, value)
WriteSmall(style, n, offset, value) == n \in {1, 2} /\ WriteNumber(style, style, n, offset, value)
WriteAny(style, n, offset, value) == n \in 1..6 /\ WriteNumber(style, Dispatched(style, n), n, offset, value)

----------------------------------------------------------------------------
Patterns == {<<x>> : x \in Byte} \cup {<<x, y>> : x, y \in Byte}
Styles == {"intBE", "intLE", "uintBE", "uintLE"}

Next ==
  /\ ~buffers.dangling
  /\ \/ /\ buffers.phase \in {"memory", "pool"}
        /\ \/ \E k \in DOMAIN buffers.buf : FinalizeBufferCallback(k)
           \/ \E k \in DOMAIN buffers.buf \ {buffers.pool}, start, end \in -1..MaxLength : Subarray(k, start, end)
     \/ /\ buffers.phase = "pool"
        /\ \E size \in Sizes : AllocUninitializedFromPool(size, 1)
     \/ /\ buffers.phase = "memory" /\ Room
        /\ \/ \E size \in Sizes : Alloc(size, 0)
           \/ \E size, off, len \in Sizes : CreateBufferFromArrayBuffer(size, off, len)
           \/ \E k \in DOMAIN buffers.buf :
                \/ FromBuffer(k) \/ Swap(k, 2)
                \/ \E p \in Patterns, offset, end \in Sizes : Fill(k, p, offset, end)
                \/ \E j \in DOMAIN buffers.buf :
                     \/ \E t, from, to \in Sizes : Copy(j, k, t, from, to)
                     \/ \E total \in Sizes : Concat(j, k, total)
     \/ /\ buffers.phase = "numbers"
        /\ \E style \in Styles, n \in {1, 2, 3, 4, 5, 6, 8} :
             \E offset \in 0..(Longest - n), value \in -(Base^n \div 2) - 1..Base^n :
             \/ WriteBig(style, n, offset, value) \/ WriteWord(style, n, offset, value)
             \/ WriteSmall(style, n, offset, value) \/ WriteAny(style, n, offset, value)

Spec == Init /\ [][Next]_buffers

----------------------------------------------------------------------------
(* A buffer stays within its block, two buffers of a pool never share a    *)
(* byte, and a block is owned by one buffer only.  A block is freed when   *)
(* its owner is collected and not before, so memory lives as long as the   *)
(* buffer that owns it, that of an ArrayBuffer for ever; a part of another *)
(* buffer or of a pool may outlive it, but not that of the current pool,   *)
(* and only through one of these is freed memory used.                     *)
MemoryIsSound ==
  LET s == buffers
      Views == {k \in DOMAIN s.buf : s.buf[k].live /\ Freed(s.buf[k])}
  IN
  /\ \A b \in Range(s.buf) : b.block # 0 => b.off + b.len <= Len(s.mem[b.block].bytes)
  /\ \A j, k \in DOMAIN s.buf : j # k /\ s.buf[j].block = s.buf[k].block /\ s.buf[j].block # 0 =>
       /\ ~(s.buf[j].owns /\ s.buf[k].owns)
       /\ s.buf[j].from = "pool" /\ s.buf[k].from = "pool" /\ s.buf[j].len # 0 /\ s.buf[k].len # 0 =>
            s.buf[j].off + s.buf[j].len <= s.buf[k].off \/ s.buf[k].off + s.buf[k].len <= s.buf[j].off
  /\ \A m \in DOMAIN s.mem : s.mem[m].freed = (\E b \in Range(s.buf) : b.block = m /\ b.owns /\ ~b.live)
  /\ \A k \in Views : s.buf[k].from \in {"sub", "pool"} /\ (s.pool # 0 => s.buf[k].block # s.buf[s.pool].block)
  /\ s.dangling => Views # {}

(* What the program asks to be written is a number of that kind.           *)
IsOfKind(w) ==
  IF w.style \in {"intBE", "intLE"} THEN 0 - Base^w.n \div 2 <= w.value /\ w.value < Base^w.n \div 2
  ELSE 0 <= w.value /\ w.value < Base^w.n

(* A number is refused if it is not of the kind that is written, and read  *)
(* as it was written otherwise.  Two exceptions, where the code is not as  *)
(* documented: 2^63 is accepted and read as -2^63 (js_buffer.ts:875 and    *)
(* 898 exclude it), and what writeIntBE and writeIntLE write as unsigned   *)
(* (signed in src/README.md:296-297): there the negative ones are refused, *)
(* and the large ones read as negative.                                    *)
NumbersAreRead ==
  LET w == buffers.wrote
      half == Base^w.n \div 2
  IN
  buffers.phase = "written" =>
    CASE w.as # w.style -> w.read = IF w.value < 0 \/ w.value >= Base^w.n THEN {} ELSE {Signed(w.value, w.n)}
      [] w.n = 8 /\ w.style # "uintBE" /\ w.style # "uintLE" /\ w.value = half -> w.read = {0 - half}
      [] OTHER -> w.read = IF IsOfKind(w) THEN {w.value} ELSE {}

(* A copy, within one block too, and a concatenation put the bytes where   *)
(* they belong and change no others, as does a number; what a number is    *)
(* read as says NumbersAreRead.  Compare orders the contents, and swapping *)
(* twice changes nothing.                                                  *)
ContentsAreRight ==
  /\ buffers.same /\ NumbersAreRead
  /\ buffers.phase = "memory" /\ ~buffers.dangling => \A j, k \in DOMAIN buffers.buf : j < k =>
       LET p == Bytes(buffers, buffers.buf[j])
           q == Bytes(buffers, buffers.buf[k])
           order == Compare(p, q)
       IN  /\ (order = 0) = (p = q) /\ order = 0 - Compare(q, p)
           /\ IsStrictPrefix(p, q) => order = -1
           /\ Len(p) % 2 = 0 => ReverseBits(ReverseBits(p, 2), 2) = p
=============================================================================
