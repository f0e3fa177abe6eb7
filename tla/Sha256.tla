------------------------------- MODULE Sha256 -------------------------------
(***************************************************************************)
(* sha256Hex of web/src/sim/sha256.ts.  A 32-bit word is the set of the    *)
(* positions of its one bits, 0 the least significant, so that the bit     *)
(* operators are set operators and addition loses its carry as >>> 0 does. *)
(***************************************************************************)
EXTENDS Sha256Padding, SequencesExt

Bit == 0 .. 31

\* The bits of a number below 2^16.
bits(v) == {b \in 0 .. 15 : (v \div 2 ^ b) % 2 = 1}

\* The word with the halves hi and lo.
word(hi, lo) == {b + 16 : b \in bits(hi)} \cup bits(lo)

\* K, and h0 to h7 before the first block, in halves.
K == <<
  <<\h428a, \h2f98>>, <<\h7137, \h4491>>, <<\hb5c0, \hfbcf>>, <<\he9b5, \hdba5>>,
  <<\h3956, \hc25b>>, <<\h59f1, \h11f1>>, <<\h923f, \h82a4>>, <<\hab1c, \h5ed5>>,
  <<\hd807, \haa98>>, <<\h1283, \h5b01>>, <<\h2431, \h85be>>, <<\h550c, \h7dc3>>,
  <<\h72be, \h5d74>>, <<\h80de, \hb1fe>>, <<\h9bdc, \h06a7>>, <<\hc19b, \hf174>>,
  <<\he49b, \h69c1>>, <<\hefbe, \h4786>>, <<\h0fc1, \h9dc6>>, <<\h240c, \ha1cc>>,
  <<\h2de9, \h2c6f>>, <<\h4a74, \h84aa>>, <<\h5cb0, \ha9dc>>, <<\h76f9, \h88da>>,
  <<\h983e, \h5152>>, <<\ha831, \hc66d>>, <<\hb003, \h27c8>>, <<\hbf59, \h7fc7>>,
  <<\hc6e0, \h0bf3>>, <<\hd5a7, \h9147>>, <<\h06ca, \h6351>>, <<\h1429, \h2967>>,
  <<\h27b7, \h0a85>>, <<\h2e1b, \h2138>>, <<\h4d2c, \h6dfc>>, <<\h5338, \h0d13>>,
  <<\h650a, \h7354>>, <<\h766a, \h0abb>>, <<\h81c2, \hc92e>>, <<\h9272, \h2c85>>,
  <<\ha2bf, \he8a1>>, <<\ha81a, \h664b>>, <<\hc24b, \h8b70>>, <<\hc76c, \h51a3>>,
  <<\hd192, \he819>>, <<\hd699, \h0624>>, <<\hf40e, \h3585>>, <<\h106a, \ha070>>,
  <<\h19a4, \hc116>>, <<\h1e37, \h6c08>>, <<\h2748, \h774c>>, <<\h34b0, \hbcb5>>,
  <<\h391c, \h0cb3>>, <<\h4ed8, \haa4a>>, <<\h5b9c, \hca4f>>, <<\h682e, \h6ff3>>,
  <<\h748f, \h82ee>>, <<\h78a5, \h636f>>, <<\h84c8, \h7814>>, <<\h8cc7, \h0208>>,
  <<\h90be, \hfffa>>, <<\ha450, \h6ceb>>, <<\hbef9, \ha3f7>>, <<\hc671, \h78f2>> >>

initial == <<
  <<\h6a09, \he667>>, <<\hbb67, \hae85>>, <<\h3c6e, \hf372>>, <<\ha54f, \hf53a>>,
  <<\h510e, \h527f>>, <<\h9b05, \h688c>>, <<\h1f83, \hd9ab>>, <<\h5be0, \hcd19>> >>

-----------------------------------------------------------------------------
xor(x, y) == (x \ y) \cup (y \ x)

xor3(x, y, z) == xor(xor(x, y), z)

rotr(x, n) == {(b + 32 - n) % 32 : b \in x}

shr(x, n) == {b - n : b \in x \ 0 .. n - 1}

plus(x, y) ==
  LET carry[b \in Bit] ==
        IF b = 0 THEN FALSE
        ELSE IF carry[b - 1] THEN b - 1 \in x \cup y ELSE b - 1 \in x \cap y
  IN  {b \in Bit : (b \in xor(x, y)) # carry[b]}

\* The sum of several words.
total32(words) == FoldLeft(plus, {}, words)

-----------------------------------------------------------------------------
\* The sixteen words of the 64-byte block of msg that follows off bytes.
blockWords(msg, off) ==
  [i \in 1 .. 16 |->
     LET j == off + (i - 1) * 4
     IN  word(msg[j + 1] * 256 + msg[j + 2], msg[j + 3] * 256 + msg[j + 4])]

\* The message schedule: w with its next word.
extended(w, i) ==
  LET s0 == xor3(rotr(w[i - 15], 7), rotr(w[i - 15], 18), shr(w[i - 15], 3))
      s1 == xor3(rotr(w[i - 2], 17), rotr(w[i - 2], 19), shr(w[i - 2], 10))
  IN  Append(w, total32(<<w[i - 16], s0, w[i - 7], s1>>))

schedule(msg, off) ==
  FoldLeft(extended, blockWords(msg, off), [i \in 1 .. 48 |-> i + 16])

\* One of the 64 rounds; s is <<a, b, c, d, e, f, g, h>>.
round(s, k, w) ==
  LET a == s[1]  b == s[2]  c == s[3]  e == s[5]  f == s[6]  g == s[7]
      S1  == xor3(rotr(e, 6), rotr(e, 11), rotr(e, 25))
      ch  == xor(e \cap f, g \ e)
      t1  == total32(<<s[8], S1, ch, k, w>>)
      S0  == xor3(rotr(a, 2), rotr(a, 13), rotr(a, 22))
      maj == xor3(a \cap b, a \cap c, b \cap c)
      t2  == plus(S0, maj)
  IN  <<plus(t1, t2), a, b, c, plus(s[4], t1), e, f, g>>

\* h0 to h7 after the block of msg that follows off bytes.
compressed(hs, msg, off) ==
  LET w == schedule(msg, off)
      rounds[i \in 1 .. 65, s \in [1 .. 8 -> SUBSET Bit]] ==
        IF i = 65 THEN s ELSE rounds[i + 1, round(s, word(K[i][1], K[i][2]), w[i])]
      last == rounds[1, hs]
  IN  [i \in 1 .. 8 |-> plus(hs[i], last[i])]

\* The eight words of the hash of m.
hashWords(m) ==
  LET msg == padded(m)
  IN  FoldLeft(LAMBDA hs, n : compressed(hs, msg, (n - 1) * 64),
               [i \in 1 .. 8 |-> word(initial[i][1], initial[i][2])],
               [n \in 1 .. Len(msg) \div 64 |-> n])

\* The hash of m as its 64 hexadecimal digits.
sha256Hex(m) ==
  LET words == hashWords(m)
      digit(x, k) == LET low == 4 * (7 - k)
                     IN  FoldLeft(LAMBDA v, b : v + (IF low + b \in x THEN 2 ^ b ELSE 0),
                                  0, <<0, 1, 2, 3>>)
  IN  [j \in 1 .. 64 |-> digit(words[(j - 1) \div 8 + 1], (j - 1) % 8)]

\* The order of the strings of hexadecimal digits a and b.
before(a, b) ==
  \E i \in DOMAIN a : a[i] < b[i] /\ \A j \in 1 .. i - 1 : a[j] = b[j]

-----------------------------------------------------------------------------
\* The hexadecimal digits of a hash written in sixteen groups of four.
hexOf(groups) ==
  [j \in 1 .. 64 |-> (groups[(j - 1) \div 4 + 1] \div 16 ^ (3 - ((j - 1) % 4))) % 16]

\* The vectors that the C++ engine's tests expect of its own implementation: the
\* empty string, "abc", and a string of 56 bytes, which takes a second block.
ASSUME VectorsAssumption ==
  /\ sha256Hex(<<>>) = hexOf(<<\he3b0, \hc442, \h98fc, \h1c14, \h9afb, \hf4c8,
       \h996f, \hb924, \h27ae, \h41e4, \h649b, \h934c, \ha495, \h991b, \h7852, \hb855>>)
  /\ sha256Hex(<<97, 98, 99>>) = hexOf(<<\hba78, \h16bf, \h8f01, \hcfea, \h4141,
       \h40de, \h5dae, \h2223, \hb003, \h61a3, \h9617, \h7a9c, \hb410, \hff61, \hf200, \h15ad>>)
  /\ sha256Hex([j \in 1 .. 56 |-> 97 + ((j - 1) \div 4) + ((j - 1) % 4)]) =
       hexOf(<<\h248d, \h6a61, \hd206, \h38b8, \he5c0, \h2693, \h0c3e, \h6039,
               \ha33c, \he459, \h64ff, \h2167, \hf6ec, \hedd4, \h19db, \h06c1>>)
=============================================================================
