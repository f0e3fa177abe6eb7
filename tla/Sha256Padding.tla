---------------------------- MODULE Sha256Padding ----------------------------
(***************************************************************************)
(* The padding of web/src/sim/sha256.ts: the bytes that sha256Hex appends  *)
(* to a message before it compresses 64-byte blocks.  Two messages that    *)
(* padded alike would share a content address whatever the compression     *)
(* does.                                                                   *)
(***************************************************************************)
EXTENDS Integers, Sequences

CONSTANTS Message,   \* messages to pad
          Length     \* message lengths

Byte == 0 .. 255

\* No message has 2^43 bytes: eight times its length is an exact number.
ASSUME MessageAssumption ==
  /\ \A m \in Message : m \in Seq(Byte) /\ Len(m) \div 1048576 < 8388608
  /\ Length \subseteq Nat

bitLen(n) == 8 * n

\* The padded length of n bytes.
total(n) ==
  LET withOne == n + 1
  IN  withOne + ((56 - (withOne % 64) + 64) % 64) + 8

\* The 64-bit big-endian length, split in halves because bit operators of the
\* language have 32 bits: hi is the integer part of bitLen / 2^32, and the low
\* bytes are those of bitLen modulo 2^32.
lengthBytes(n) ==
  LET lo == bitLen(n)
      hi == (lo \div 65536) \div 65536
  IN  <<(hi \div 16777216) % 256, (hi \div 65536) % 256, (hi \div 256) % 256, hi % 256,
        (lo \div 16777216) % 256, (lo \div 65536) % 256, (lo \div 256) % 256, lo % 256>>

\* The message, 0x80, zeros, and its length in bits.
padded(m) ==
  [j \in 1 .. total(Len(m)) |->
     IF j <= Len(m) THEN m[j]
     ELSE IF j = Len(m) + 1 THEN 128
     ELSE IF j > total(Len(m)) - 8 THEN lengthBytes(Len(m))[j - (total(Len(m)) - 8)]
     ELSE 0]

-----------------------------------------------------------------------------
\* FIPS 180-4, which the file's header names: the padded message is a whole
\* number of 64-byte blocks, has room for the byte 0x80 and the eight bytes of
\* the length, and not a block more than that needs.
BlocksAreWhole ==
  \A n \in Length :
    /\ total(n) % 64 = 0
    /\ n + 9 <= total(n)
    /\ total(n) < n + 9 + 64

\* No two messages are padded alike: what the compression sees tells them apart.
PaddingIsInjective ==
  \A a, b \in Message : padded(a) = padded(b) => a = b

\* The padding never makes two contents share a content address.
PaddingIsSound == BlocksAreWhole /\ PaddingIsInjective
=============================================================================
