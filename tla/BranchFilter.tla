---------------------------- MODULE BranchFilter ----------------------------
(***************************************************************************)
(* The branch filters (BCJ) of a compressed 7z header and the reader that  *)
(* decodes with them: src-tauri/src/source/archive/                        *)
(* sevenz_header_precheck.rs.                                              *)
(*                                                                         *)
(* A filter replaces the relative targets of the branches in machine code  *)
(* by absolute ones, or back; what it makes of an instruction depends on   *)
(* the address the instruction has, and the x86 filter also looks at the   *)
(* bytes before it.  The reader feeds it whatever the stream beneath       *)
(* returns, keeps what is too short to be an instruction, and hands out    *)
(* what is decoded in the portions its caller asks for.                    *)
(*                                                                         *)
(* The instructions are converted as the code converts them, with numbers  *)
(* below 2^31 in place of its 32- and 64-bit words.  A filter is           *)
(* [pos, mask, encodes]; converting bytes gives the bytes, how many of     *)
(* them are done, and the filter afterwards.                               *)
(***************************************************************************)
EXTENDS Integers, Sequences, FiniteSetsExt

CONSTANTS Streams,              \* the decoded streams that are looked at, by architecture
          BCJ_FILTER_BUF_SIZE,
          Portions              \* what inner.read may return at most, what the caller may ask for

\* Assumed of the buffer: an instruction and its operand fit in.
BufferAssumption == BCJ_FILTER_BUF_SIZE \in Nat /\ BCJ_FILTER_BUF_SIZE > 5

BcjArch == {"X86", "Arm", "ArmThumb", "Ppc", "Sparc", "Ia64"}

NewFilter(arch, encodes) ==
  [pos |-> CASE arch = "X86" -> 5 [] arch = "Arm" -> 8 [] arch = "ArmThumb" -> 4 [] OTHER -> 0,
   mask |-> 0, encodes |-> encodes]

Toward(f, target, address) == IF f.encodes THEN target + address ELSE target - address

-----------------------------------------------------------------------------
(* x86: an operand is four bytes, the lowest first; an address is small.   *)

Edge(b) == b = 0 \/ b = 255
Allowed(mask) == mask \in {0, 1, 2, 4}
BitNumber(mask) == CASE mask = 0 -> 0 [] mask = 1 -> 1 [] mask \in {2, 3} -> 2 [] OTHER -> 3

\* The sum of four bytes and a number, modulo 2^32.
Shifted(bytes, by) ==
  LET Carry[k \in 1..4] == ((IF k = 1 THEN by ELSE Carry[k - 1]) + bytes[k]) \div 256
  IN  [k \in 1..4 |-> ((IF k = 1 THEN by ELSE Carry[k - 1]) + bytes[k]) % 256]

RECURSIVE Operand(_, _, _)
Operand(bytes, by, mask) ==
  LET dest == Shifted(bytes, by)
      n == BitNumber(mask)
  IN  IF mask = 0 \/ ~Edge(dest[4 - n]) THEN dest
      ELSE Operand([k \in 1..4 |-> IF k <= 4 - n THEN 255 - dest[k] ELSE dest[k]], by, mask)

\* After the loop: how far the last opcode is decides what is left of the mask.
MaskAt(mask, gap) == IF gap > 3 THEN 0 ELSE mask * 2^(gap - 1)

\* buf[1] is the byte at 0; i and last are positions as in the code, -1 for no opcode yet.
RECURSIVE X86From(_, _, _, _, _)
X86From(f, buf, i, last, mask) ==
  IF i + 5 > Len(buf)
  THEN [bytes |-> buf, done |-> i, filter |-> [f EXCEPT !.pos = @ + i, !.mask = MaskAt(mask, i - last)]]
  ELSE IF buf[i + 1] \notin {232, 233} THEN X86From(f, buf, i + 1, last, mask)
  ELSE LET now == MaskAt(mask, i - last) % 8
           operand == Operand([k \in 1..4 |-> buf[i + 1 + k]],
                              IF f.encodes THEN f.pos + i ELSE -(f.pos + i), now)
           converted == [j \in 1..Len(buf) |->
                           CASE j \in (i + 2)..(i + 4) -> operand[j - i - 1]
                             [] j = i + 5 -> IF operand[4] % 2 = 1 THEN 255 ELSE 0
                             [] OTHER -> buf[j]]
       IN  IF \/ now # 0 /\ (~Allowed(now) \/ Edge(buf[i + 5 - BitNumber(now)]))
              \/ ~Edge(buf[i + 5])
           THEN X86From(f, buf, i + 1, i, now * 2 + 1)
           ELSE X86From(f, converted, i + 5, i, now)

\* Mutant of X86Code: the opcodes at the end of the last buffer are forgotten.
X86Forgetful(f, buf) == X86From(f, buf, 0, -1, 0)

X86Code(f, buf) == X86From(f, buf, 0, -1, f.mask)

-----------------------------------------------------------------------------
(* The others look at words of a fixed size.                               *)

\* Every whole word of the buffer converted where it stands; the mask is not used.
Words(f, buf, size, Convert(_, _)) ==
  LET n == (Len(buf) \div size) * size
      word(i) == Convert(SubSeq(buf, i + 1, i + size), f.pos + i)
  IN  [bytes |-> [j \in 1..Len(buf) |->
                    IF j > n THEN buf[j] ELSE word(((j - 1) \div size) * size)[((j - 1) % size) + 1]],
       done |-> n, filter |-> [f EXCEPT !.pos = @ + n]]

ArmCode(f, buf) ==
  LET Convert(w, address) ==
        LET dest == Toward(f, (w[1] + 256 * w[2] + 65536 * w[3]) * 4, address) \div 4
        IN  IF w[4] # 235 THEN w
            ELSE <<dest % 256, (dest \div 256) % 256, (dest \div 65536) % 256, w[4]>>
  IN  Words(f, buf, 4, Convert)

PpcCode(f, buf) ==
  LET Convert(w, address) ==
        LET dest == Toward(f, (w[1] % 4) * 16777216 + w[2] * 65536 + w[3] * 256 + (w[4] - (w[4] % 4)), address)
        IN  IF ~(w[1] \div 4 = 18 /\ w[4] % 4 = 1) THEN w
            ELSE <<72 + ((dest \div 16777216) % 4), (dest \div 65536) % 256, (dest \div 256) % 256,
                   (w[4] % 4) + (dest % 256)>>
  IN  Words(f, buf, 4, Convert)

\* Only the low 23 bits of the displacement reach the result.
SparcCode(f, buf) ==
  LET Convert(w, address) ==
        LET dest == Toward(f, (w[2] % 128) * 65536 + w[3] * 256 + w[4], address \div 4) % 8388608
            low == dest % 4194304
        IN  IF ~((w[1] = 64 /\ w[2] < 64) \/ (w[1] = 127 /\ w[2] >= 192)) THEN w
            ELSE IF dest >= 4194304
            THEN <<127, 192 + low \div 65536, (low \div 256) % 256, low % 256>>
            ELSE <<64, low \div 65536, (low \div 256) % 256, low % 256>>
  IN  Words(f, buf, 4, Convert)

\* ARM Thumb: a branch takes two half words, anything else is passed by one.
RECURSIVE ThumbFrom(_, _, _)
ThumbFrom(f, buf, i) ==
  IF i + 4 > Len(buf) THEN [bytes |-> buf, done |-> i, filter |-> [f EXCEPT !.pos = @ + i]]
  ELSE IF ~(buf[i + 4] >= 248 /\ buf[i + 2] \div 8 = 30) THEN ThumbFrom(f, buf, i + 2)
  ELSE LET src == (buf[i + 2] % 8) * 524288 + buf[i + 1] * 2048 + (buf[i + 4] % 8) * 256 + buf[i + 3]
           dest == Toward(f, src * 2, f.pos + i) \div 2
       IN  ThumbFrom(f, [buf EXCEPT ![i + 1] = (dest \div 2048) % 256,
                                    ![i + 2] = 240 + ((dest \div 524288) % 8),
                                    ![i + 3] = dest % 256,
                                    ![i + 4] = 248 + ((dest \div 256) % 8)], i + 4)

\* IA-64: three slots of 41 bits after five bits that say which of them are branches.
BranchSlots(template) ==
  CASE template \in {16, 17, 24, 25, 28, 29} -> {2} [] template \in {18, 19} -> {1, 2}
    [] template \in {22, 23} -> {0, 1, 2} [] OTHER -> {}

Bit(w, k) == (w[(k \div 8) + 1] \div 2^(k % 8)) % 2
Field(w, from, n) == SumSet({Bit(w, from + k) * 2^k : k \in 0..(n - 1)})

Bundle(f, w, address) ==
  LET at(slot) == 5 + 41 * slot
      branches == {s \in BranchSlots(w[1] % 32) : Field(w, at(s) + 37, 4) = 5 /\ Field(w, at(s) + 9, 3) = 0}
      dest(s) == Toward(f, Field(w, at(s) + 13, 20) + Bit(w, at(s) + 36) * 1048576, address \div 16)
      bit(k) == LET s == {t \in branches : k - at(t) \in (13..32) \cup {36}}
                IN  IF s = {} THEN Bit(w, k)
                    ELSE LET t == CHOOSE t \in s : TRUE
                             j == IF k - at(t) = 36 THEN 20 ELSE k - at(t) - 13
                         IN  (dest(t) \div 2^j) % 2
  IN  [j \in 1..16 |-> SumSet({bit(8 * (j - 1) + k) * 2^k : k \in 0..7})]

\* The filter stays where it is: the next bytes are converted as if they were the first ones.
Ia64Code(f, buf) ==
  LET Convert(w, address) == Bundle(f, w, address)
      code == Words(f, buf, 16, Convert)
  IN  [code EXCEPT !.filter.pos = f.pos]

Code(arch, f, buf) ==
  CASE arch = "X86" -> X86Code(f, buf) [] arch = "Arm" -> ArmCode(f, buf)
    [] arch = "ArmThumb" -> ThumbFrom(f, buf, 0) [] arch = "Ppc" -> PpcCode(f, buf)
    [] arch = "Sparc" -> SparcCode(f, buf) [] OTHER -> Ia64Code(f, buf)

-----------------------------------------------------------------------------
VARIABLES arch, clear,      \* the stream as it was before it was encoded
          stream,           \* what the stream beneath still has to give
          filter, pos, held,  \* filter_buf from pos on: what is decoded, then what is not yet
          filtered, end_reached,
          wanted,           \* bytes the caller's read still has room for, 0 between calls
          out               \* what the caller has got

bcjVars == <<arch, clear, stream, filter, pos, held, filtered, end_reached, wanted, out>>

\* A stream is encoded in one piece.
Encoded(a, s) == Code(a, NewFilter(a, TRUE), s).bytes

BcjInit ==
  /\ \E a \in DOMAIN Streams : \E s \in Streams[a] :
       arch = a /\ clear = s /\ stream = Encoded(a, s) /\ filter = NewFilter(a, FALSE)
  /\ pos = 0 /\ held = <<>> /\ filtered = 0 /\ end_reached = FALSE /\ wanted = 0 /\ out = <<>>

Read(n) ==
  /\ wanted = 0 /\ ~(end_reached /\ held = <<>>)
  /\ wanted' = n
  /\ UNCHANGED <<arch, clear, stream, filter, pos, held, filtered, end_reached, out>>

\* One turn of the loop of read: hand out what is decoded, move the rest to the front of a
\* buffer that is full, then return or take more.
Copied == Min({filtered, wanted})
Rest == SubSeq(held, Copied + 1, Len(held))

\* Mutant of Front: a buffer read to its end stays where it is.
FrontStuck == pos + Copied

Front == IF pos + Len(held) = BCJ_FILTER_BUF_SIZE THEN 0 ELSE pos + Copied

HandOut == out' = out \o SubSeq(held, 1, Copied) /\ pos' = Front

Returns ==
  /\ wanted > 0 /\ (Copied = wanted \/ end_reached)
  /\ HandOut
  /\ held' = Rest /\ filtered' = filtered - Copied /\ wanted' = 0
  /\ UNCHANGED <<arch, clear, stream, filter, end_reached>>

Fills(n) ==
  /\ wanted > 0 /\ Copied < wanted /\ ~end_reached
  /\ LET size == Min({n, Len(stream), BCJ_FILTER_BUF_SIZE - Front - Len(Rest)})
         code == Code(arch, filter, Rest \o SubSeq(stream, 1, size))
     IN  /\ HandOut
         /\ wanted' = wanted - Copied
         /\ stream' = SubSeq(stream, size + 1, Len(stream))
         /\ IF size = 0
            THEN end_reached' = TRUE /\ held' = Rest /\ filtered' = Len(Rest) /\ UNCHANGED filter
            ELSE held' = code.bytes /\ filtered' = code.done /\ filter' = code.filter /\ UNCHANGED end_reached
  /\ UNCHANGED <<arch, clear>>

BcjDone == wanted = 0 /\ end_reached /\ held = <<>> /\ UNCHANGED bcjVars

BcjNext == (\E n \in Portions : Read(n) \/ Fills(n)) \/ Returns \/ BcjDone

BcjSpec == BcjInit /\ [][BcjNext]_bcjVars

-----------------------------------------------------------------------------
(* What the buffer and the filters are for, as their test says it of x86:  *)
(* in whatever portions the stream arrives and is asked for, decoding is   *)
(* the inverse of encoding in one piece.  The caller has a prefix of the   *)
(* clear stream, and all of it at the end: an instruction across two       *)
(* portions is converted whole, at its own address, with the opcodes       *)
(* before it remembered, and a full buffer is not taken for the end of the *)
(* stream.                                                                 *)
InverseInAnyPortions ==
  /\ Len(out) <= Len(clear) /\ out = SubSeq(clear, 1, Len(out))
  /\ end_reached /\ held = <<>> => out = clear
  /\ pos + Len(held) <= BCJ_FILTER_BUF_SIZE /\ filtered <= Len(held)
=============================================================================
