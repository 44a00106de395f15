------------------------------ MODULE HashPad ------------------------------
(***************************************************************************)
(* The message hashers of hash/: md5_hash, sha1_hash, sha224_hash,         *)
(* sha256_hash, sha384_hash and sha512_hash, in the test program of each   *)
(* function.  They differ in the length of a block and of the length       *)
(* field, and in the byte order of that field.  What they hand to the      *)
(* compression function is a run of blocks; the model keeps the blocks     *)
(* after the whole ones, with Message for a byte of the message.           *)
(***************************************************************************)
EXTENDS Integers, SequencesExt

CONSTANT PadLengths   \* bound: message lengths tried

\* Below 2^61 bytes: the standards count the bits of a message in 64 bits.
ASSUME PadLengthsAssumption ==
  \A len \in PadLengths :
    /\ len \in Nat
    /\ LET high(n) == n \div 256
       IN  high(high(high(high(high(high(high(len \div 32))))))) = 0

VARIABLES pad_hasher, pad_len,
          pad_off,    \* bytes handed over as whole blocks
          pad_tail    \* the blocks after them, one behind the other

pad_vars == <<pad_hasher, pad_len, pad_off, pad_tail>>

Message == 256
BLOCK_LEN(h) == IF h \in {"sha384", "sha512"} THEN 128 ELSE 64
LENGTH_SIZE(h) == BLOCK_LEN(h) \div 8

PadInit == pad_hasher = "none" /\ pad_len = 0 /\ pad_off = 0 /\ pad_tail = <<>>

\* Byte i of the length field, i = 0 the lowest: the lowest five bits of len
\* shifted by three, then len >> 5, eight bits at a time.
length_byte(len, i) ==
  LET q1 == len \div 32    q2 == q1 \div 256  q3 == q2 \div 256
      q4 == q3 \div 256    q5 == q4 \div 256  q6 == q5 \div 256
      q7 == q6 \div 256
  IN CASE i = 0 -> (len % 32) * 8
       [] i = 1 -> q1 % 256  [] i = 2 -> q2 % 256  [] i = 3 -> q3 % 256
       [] i = 4 -> q4 % 256  [] i = 5 -> q5 % 256  [] i = 6 -> q6 % 256
       [] i = 7 -> q7 % 256
       [] OTHER -> 0                  \* nothing is left of len

\* The last block from its bytes before the length field on.
with_length(h, len, block) ==
  [b \in 1 .. BLOCK_LEN(h) |->
     LET back == BLOCK_LEN(h) - b IN
       IF back >= LENGTH_SIZE(h) THEN block[b]
       ELSE IF h = "md5" THEN length_byte(len, LENGTH_SIZE(h) - 1 - back)
       ELSE length_byte(len, back)]

\* Mutant: the byte 0x80 is not counted.
length_fits_tight(h, rem) == BLOCK_LEN(h) - rem >= LENGTH_SIZE(h)

\* Whether the length field fits behind the rest and the byte 0x80.
length_fits(h, rem) == BLOCK_LEN(h) - (rem + 1) >= LENGTH_SIZE(h)

\* The whole blocks, the rest with 0x80 behind it, and a block more if the
\* length field does not fit.
pads(h) ==
  /\ pad_hasher = "none" /\ pad_hasher' = h
  /\ pad_len' \in PadLengths
  /\ LET len == pad_len'
         rem == len % BLOCK_LEN(h)
         block == [b \in 1 .. BLOCK_LEN(h) |->
                     IF b <= rem THEN Message ELSE IF b = rem + 1 THEN 128 ELSE 0]
         zeros == [b \in 1 .. BLOCK_LEN(h) |-> 0]
     IN
       /\ pad_off' = len - rem
       /\ pad_tail' = IF length_fits(h, rem) THEN with_length(h, len, block)
                      ELSE block \o with_length(h, len, zeros)

md5_hash == pads("md5")
sha1_hash == pads("sha1")
sha224_hash == pads("sha224")
sha256_hash == pads("sha256")
sha384_hash == pads("sha384")
sha512_hash == pads("sha512")

PadNext == md5_hash \/ sha1_hash \/ sha224_hash \/ sha256_hash \/ sha384_hash
             \/ sha512_hash
PadSpec == PadInit /\ [][PadNext]_pad_vars
-----------------------------------------------------------------------------
\* The length field as a number of bits, from its bytes lowest first.
FieldBits(b) ==
  b[1] + 256 * (b[2] + 256 * (b[3] + 256 * (b[4] + 256 * (b[5]
       + 256 * (b[6] + 256 * (b[7] + 256 * b[8]))))))

\* What is hashed is the message, one 1 bit, the least number of 0 bits that
\* fills the block, and the length in bits: for every length around the block
\* boundaries nothing of this is cut off or moved, no empty block is added.
PadIsStandard == pad_hasher # "none" =>
  LET h == pad_hasher
      total == pad_off + Len(pad_tail)
      rest == pad_len - pad_off
      field == SubSeq(pad_tail, Len(pad_tail) - LENGTH_SIZE(h) + 1, Len(pad_tail))
      lowest_first == IF h = "md5" THEN field ELSE Reverse(field)
  IN
    /\ pad_off % BLOCK_LEN(h) = 0 /\ total % BLOCK_LEN(h) = 0
    /\ rest >= 0 /\ total - pad_len \in LENGTH_SIZE(h) + 1 .. LENGTH_SIZE(h) + BLOCK_LEN(h)
    /\ \A b \in 1 .. Len(pad_tail) - LENGTH_SIZE(h) :
         pad_tail[b] = IF b <= rest THEN Message ELSE IF b = rest + 1 THEN 128 ELSE 0
    /\ FieldBits(lowest_first) = 8 * pad_len
    /\ \A b \in 9 .. LENGTH_SIZE(h) : lowest_first[b] = 0
=============================================================================
