-------------------------------- MODULE Fnv1a --------------------------------
(***************************************************************************)
(* fnv1a64 of web/src/sim/cluster.ts: the value that picks the first node  *)
(* of a chunk's placement set.  A 64-bit number is the sequence of its     *)
(* eight bytes, the least significant first.                               *)
(***************************************************************************)
EXTENDS Integers, Sequences

Octets == [1 .. 8 -> 0 .. 255]

FNV_OFFSET_64 == <<\h25, \h23, \h22, \h84, \he4, \h9c, \hf2, \hcb>>

\* Exclusive or of two bytes.
xorByte(x, y) ==
  LET from[b \in 0 .. 8] ==
        IF b = 8 THEN 0
        ELSE 2 * from[b + 1] + (((x \div 2 ^ b) + (y \div 2 ^ b)) % 2)
  IN  from[0]

\* h times FNV_PRIME_64, which is 2^40 + 435, masked to 64 bits.
timesPrime(h) ==
  LET part(i)  == h[i] * 435 + (IF i > 5 THEN h[i - 5] ELSE 0)
      sum[i \in 1 .. 8] ==       \* part(i) and the carry into byte i
        IF i = 1 THEN part(1) ELSE part(i) + sum[i - 1] \div 256
  IN  [i \in 1 .. 8 |-> sum[i] % 256]

\* The hash of a string of ASCII codes.
fnv1a64(codes) ==
  LET after[i \in 1 .. Len(codes) + 1, h \in Octets] ==
        IF i > Len(codes) THEN h
        ELSE after[i + 1, timesPrime([h EXCEPT ![1] = xorByte(@, codes[i])])]
  IN  after[1, FNV_OFFSET_64]

\* A 64-bit number modulo n.
modulo(h, n) ==
  LET rest[i \in 1 .. 9] == IF i = 9 THEN 0 ELSE (rest[i + 1] * 256 + h[i]) % n
  IN  rest[1]

\* The first node of the placement of a chunk among n nodes; hash is its content
\* address, a sequence of hexadecimal digits.
start(hash, n) ==
  LET code(d) == IF d < 10 THEN 48 + d ELSE 87 + d
  IN  modulo(fnv1a64([j \in DOMAIN hash |-> code(hash[j])]), n)

-----------------------------------------------------------------------------
\* "Matching Go's hash/fnv": the values of FNV-1a for "", "a" and "foobar".
ASSUME FnvVectorsAssumption ==
  /\ fnv1a64(<<>>) = FNV_OFFSET_64
  /\ fnv1a64(<<97>>) = <<\h8c, \hec, \h01, \h86, \h4c, \hdc, \h63, \haf>>
  /\ fnv1a64(<<102, 111, 111, 98, 97, 114>>) =
       <<\he8, \h67, \h39, \hf7, \h71, \h41, \h94, \h85>>
=============================================================================
