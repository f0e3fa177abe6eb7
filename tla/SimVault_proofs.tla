--------------------------- MODULE SimVault_proofs ---------------------------
(***************************************************************************)
(* Proofs about the web demo's engine and cluster, and the padding of its  *)
(* SHA-256.                                                                *)
(*                                                                         *)
(* What the loops compute is a matter of induction over data, which is     *)
(* done here with Induct and RankInduct of Numbers_proofs: over a set of   *)
(* numbers (of offsets in a buffer, of positions in a sequence, of sizes)  *)
(* that is shown to be all of them.  On top of that VaultInv is inductive, *)
(* and the properties follow from it.                                      *)
(***************************************************************************)
EXTENDS SimVault, Sha256Padding, Numbers_proofs, FiniteSetTheorems, SequenceTheorems, TLAPS

-----------------------------------------------------------------------------
(***************************************************************************)
(* Chunks: cutting a buffer and putting the pieces together again.         *)
(***************************************************************************)

\* Where the chunk that begins at offset o ends.
endOf(b, o) == Min({o + ChunkSize, Len(b)})

LEMMA EndIsBeyond ==
  ASSUME NEW X, NEW b \in Seq(X), NEW o \in 0 .. Len(b)
  PROVE  /\ endOf(b, o) \in 0 .. Len(b)
         /\ o # Len(b) => endOf(b, o) > o
<1> DEFINE e == IF o + ChunkSize <= Len(b) THEN o + ChunkSize ELSE Len(b)
<1>1. e \in {o + ChunkSize, Len(b)} /\ \A y \in {o + ChunkSize, Len(b)} : e <= y
  BY ChunkSizeAssumption
<1>2. \A x \in {o + ChunkSize, Len(b)} :
        (\A y \in {o + ChunkSize, Len(b)} : x <= y) => x = e
  BY ChunkSizeAssumption
<1>3. endOf(b, o) = e
  BY <1>1, <1>2 DEF endOf, Min
<1> QED BY <1>3, ChunkSizeAssumption

LEMMA OffsetsDescend ==
  ASSUME NEW X, NEW b \in Seq(X)
  PROVE  Descends(0 .. Len(b), Len(b), [o \in 0 .. Len(b) |-> Len(b) - o],
                  [o \in 0 .. Len(b) |-> endOf(b, o)])
BY EndIsBeyond DEF Descends

LEMMA ChunkBufferIs ==
  ASSUME NEW X, NEW b \in Seq(X)
  PROVE  \E from \in [0 .. Len(b) -> Seq(Seq(X))] :
           /\ chunkBuffer(b) = from[0]
           /\ \A o \in 0 .. Len(b) :
                from[o] = IF o = Len(b) THEN <<>>
                          ELSE <<SubSeq(b, o + 1, endOf(b, o))>> \o from[endOf(b, o)]
<1> DEFINE D == 0 .. Len(b)
           V == Seq(Seq(X))
           rank == [o \in D |-> Len(b) - o]
           prev == [o \in D |-> endOf(b, o)]
           base == [o \in D |-> <<>>]
           step == [o \in D |-> [v \in V |-> <<SubSeq(b, o + 1, endOf(b, o))>> \o v]]
           Body(f) == [o \in D |-> IF o = Len(b) THEN <<>>
                         ELSE <<SubSeq(b, o + 1, endOf(b, o))>> \o f[endOf(b, o)]]
<1>1. Descends(D, Len(b), rank, prev)
  BY OffsetsDescend
<1>2. base \in [D -> V]
  OBVIOUS
<1>3. ASSUME NEW o \in D, NEW v \in V
      PROVE  <<SubSeq(b, o + 1, endOf(b, o))>> \o v \in V
  <2>1. endOf(b, o) \in D
    BY EndIsBeyond
  <2>2. \A k \in o + 1 .. endOf(b, o) : b[k] \in X
    BY <2>1
  <2>3. SubSeq(b, o + 1, endOf(b, o)) \in Seq(X)
    BY <2>1, <2>2, SubSeqProperties
  <2> QED BY <2>3, ConcatProperties
<1>4. step \in [D -> [V -> V]]
  BY <1>3
<1>5. PICK f : Solves(f, D, V, rank, prev, base, step)
  <2>1. Recursion(D, Len(b), V, rank, prev, base, step)
    BY <1>1, <1>2, <1>4 DEF Recursion
  <2> HIDE DEF D, V, rank, prev, base, step
  <2> QED BY <2>1, RecursiveFunction
<1>6. f = Body(f)
  <2>1. \A o \in D : endOf(b, o) \in D
    BY EndIsBeyond
  <2>2. ASSUME NEW o \in D PROVE f[o] = Body(f)[o]
    <3>1. CASE o = Len(b)
      <4>1. rank[o] = 0
        BY <3>1
      <4>2. f[o] = base[o]
        BY <1>5, <4>1 DEF Solves
      <4> QED BY <4>2, <3>1
    <3>2. CASE o # Len(b)
      <4>1. rank[o] # 0 /\ prev[o] = endOf(b, o)
        BY <3>2
      <4>2. f[o] = step[o][f[prev[o]]]
        BY <1>5, <4>1 DEF Solves
      <4>3. f[endOf(b, o)] \in V
        BY <2>1, <1>5 DEF Solves
      <4> QED BY <4>1, <4>2, <4>3, <3>2
    <3> QED BY <3>1, <3>2
  <2> QED BY <2>2, <1>5 DEF Solves
<1> DEFINE from == CHOOSE g : g = Body(g)
<1>7. from = Body(from)
  BY <1>6
<1>8. chunkBuffer(b) = from[0]
  BY DEF chunkBuffer, endOf
<1>9. from \in [D -> V]
  <2> DEFINE Q == {o \in D : from[o] \in V}
  <2> HIDE DEF from
  <2>1. ASSUME NEW o \in D, rank[o] = 0 \/ prev[o] \in Q PROVE o \in Q
    <3>1. CASE o = Len(b)
      BY <1>7, <3>1
    <3>2. CASE o # Len(b)
      <4>1. from[endOf(b, o)] \in V
        BY <2>1, <3>2
      <4>2. from[o] = <<SubSeq(b, o + 1, endOf(b, o))>> \o from[endOf(b, o)]
        BY <1>7, <3>2
      <4> QED BY <4>1, <4>2, <1>3
    <3> QED BY <3>1, <3>2
  <2>2. D \subseteq Q
    <3> HIDE DEF D, Q, rank, prev
    <3> QED BY <1>1, <2>1, RankInduct
  <2> QED BY <2>2, <1>7
<1> HIDE DEF from
<1> QED BY <1>7, <1>8, <1>9

\* FlattenSeq joins from the left.
Joins(fl, ss) ==
  /\ fl[1] = ss[1]
  /\ \A i \in 2 .. Len(ss) : fl[i] = fl[i - 1] \o ss[i]

LEMMA FlattenIs ==
  ASSUME NEW X, NEW ss \in Seq(Seq(X)), Len(ss) # 0
  PROVE  \E fl \in [1 .. Len(ss) -> Seq(X)] : FlattenSeq(ss) = fl[Len(ss)] /\ Joins(fl, ss)
<1> DEFINE D == 1 .. Len(ss)
           V == Seq(X)
           rank == [i \in D |-> i - 1]
           prev == [i \in D |-> IF i = 1 THEN 1 ELSE i - 1]
           base == [i \in D |-> ss[i]]
           step == [i \in D |-> [v \in V |-> v \o ss[i]]]
           Body(f) == [i \in D |-> IF i = 1 THEN ss[i] ELSE f[i - 1] \o ss[i]]
<1>1. Descends(D, Len(ss), rank, prev)
  BY DEF Descends
<1>2. base \in [D -> V]
  OBVIOUS
<1>3. step \in [D -> [V -> V]]
  BY ConcatProperties
<1>4. PICK f : Solves(f, D, V, rank, prev, base, step)
  <2>1. Recursion(D, Len(ss), V, rank, prev, base, step)
    BY <1>1, <1>2, <1>3 DEF Recursion
  <2> HIDE DEF D, V, rank, prev, base, step
  <2> QED BY <2>1, RecursiveFunction
<1>5. f = Body(f)
  <2>1. ASSUME NEW i \in D PROVE f[i] = Body(f)[i]
    <3>1. CASE i = 1
      <4>1. rank[i] = 0
        BY <3>1
      <4>2. f[i] = base[i]
        BY <1>4, <4>1 DEF Solves
      <4> QED BY <4>2, <3>1
    <3>2. CASE i # 1
      <4>1. rank[i] # 0 /\ prev[i] = i - 1 /\ i - 1 \in D
        BY <3>2
      <4>2. f[i] = step[i][f[prev[i]]]
        BY <1>4, <4>1 DEF Solves
      <4>3. f[i - 1] \in V
        BY <4>1, <1>4 DEF Solves
      <4> QED BY <4>1, <4>2, <4>3, <3>2
    <3> QED BY <3>1, <3>2
  <2> QED BY <2>1, <1>4 DEF Solves
<1> DEFINE fl == CHOOSE g : g = Body(g)
<1>6. fl = Body(fl)
  BY <1>5
<1>7. FlattenSeq(ss) = fl[Len(ss)]
  BY DEF FlattenSeq
<1>8. fl \in [D -> V]
  <2> DEFINE Q == {i \in D : fl[i] \in V}
  <2> HIDE DEF fl
  <2>1. ASSUME NEW i \in D, rank[i] = 0 \/ prev[i] \in Q PROVE i \in Q
    <3>1. CASE i = 1
      BY <1>6, <3>1
    <3>2. CASE i # 1
      <4>1. fl[i - 1] \in V
        BY <2>1, <3>2
      <4>2. fl[i] = fl[i - 1] \o ss[i]
        BY <1>6, <3>2
      <4>3. ss[i] \in Seq(X)
        BY ElementOfSeq
      <4>4. fl[i - 1] \o ss[i] \in Seq(X)
        BY <4>1, <4>3, ConcatProperties
      <4> QED BY <4>2, <4>4
    <3> QED BY <3>1, <3>2
  <2>2. D \subseteq Q
    <3> HIDE DEF D, Q, rank, prev
    <3> QED BY <1>1, <2>1, RankInduct
  <2> QED BY <2>2, <1>6
<1> HIDE DEF fl
<1>9. Joins(fl, ss)
  <2>1. fl[1] = ss[1]
    BY <1>6
  <2>2. ASSUME NEW i \in 2 .. Len(ss) PROVE fl[i] = fl[i - 1] \o ss[i]
    <3>1. i \in D /\ i # 1
      OBVIOUS
    <3> QED BY <1>6, <3>1
  <2> QED BY <2>1, <2>2 DEF Joins
<1> QED BY <1>7, <1>8, <1>9

LEMMA FlattenType ==
  ASSUME NEW X, NEW ss \in Seq(Seq(X))
  PROVE  FlattenSeq(ss) \in Seq(X)
<1>1. CASE Len(ss) = 0
  BY <1>1, EmptySeq DEF FlattenSeq
<1>2. CASE Len(ss) # 0
  <2>1. Len(ss) \in 1 .. Len(ss)
    BY <1>2
  <2> QED BY <1>2, <2>1, FlattenIs
<1> QED BY <1>1, <1>2

LEMMA FlattenAppend ==
  ASSUME NEW X, NEW ss \in Seq(Seq(X)), NEW s \in Seq(X)
  PROVE  FlattenSeq(Append(ss, s)) = FlattenSeq(ss) \o s
<1> DEFINE tt == Append(ss, s)
           n == Len(ss)
<1>1. tt \in Seq(Seq(X)) /\ Len(tt) = n + 1 /\ n \in Nat /\ tt[n + 1] = s
  BY AppendProperties
<1>2. \A i \in 1 .. n : tt[i] = ss[i]
  BY AppendProperties
<1> HIDE DEF tt
<1>3. PICK g \in [1 .. n + 1 -> Seq(X)] : FlattenSeq(tt) = g[n + 1] /\ Joins(g, tt)
  BY <1>1, FlattenIs
<1>4. CASE n = 0
  <2>1. ss = <<>>
    BY <1>4, EmptySeq
  <2>2. FlattenSeq(tt) = s
    BY <1>1, <1>3, <1>4 DEF Joins
  <2>3. FlattenSeq(ss) = <<>>
    BY <2>1, <1>4 DEF FlattenSeq
  <2> QED BY <2>2, <2>3, ConcatEmptySeq DEF tt
<1>5. CASE n # 0
  <2>1. PICK f \in [1 .. n -> Seq(X)] : FlattenSeq(ss) = f[n] /\ Joins(f, ss)
    BY <1>5, FlattenIs
  <2>2. f[1] = g[1]
    BY <2>1, <1>2, <1>3, <1>5, <1>1 DEF Joins
  <2>3. \A i \in 2 .. n : f[i] = f[i - 1] \o ss[i] /\ g[i] = g[i - 1] \o ss[i]
    <3>1. ASSUME NEW i \in 2 .. n
          PROVE  f[i] = f[i - 1] \o ss[i] /\ g[i] = g[i - 1] \o ss[i]
      <4>1. i \in 2 .. Len(tt) /\ tt[i] = ss[i]
        BY <1>1, <1>2
      <4> HIDE DEF n
      <4>2. g[i] = g[i - 1] \o tt[i]
        BY <4>1, <1>3 DEF Joins
      <4>3. f[i] = f[i - 1] \o ss[i]
        BY <2>1 DEF Joins, n
      <4> QED BY <4>1, <4>2, <4>3
    <3> QED BY <3>1
  <2>4. f[n] = g[n]
    <3> HIDE DEF n
    <3> DEFINE P == {k \in Nat : k + 1 \in 1 .. n => f[k + 1] = g[k + 1]}
    <3>1. 0 \in P
      BY <2>2
    <3>2. ASSUME NEW k \in Nat, k \in P, (k + 1) + 1 \in 1 .. n
          PROVE  f[(k + 1) + 1] = g[(k + 1) + 1]
      <4> DEFINE i == (k + 1) + 1
      <4>1. f[k + 1] = g[k + 1] /\ i \in 2 .. n /\ i - 1 = k + 1
        BY <3>2, <1>1
      <4>2. f[i] = f[i - 1] \o ss[i] /\ g[i] = g[i - 1] \o ss[i]
        <5> HIDE DEF i
        <5> QED BY <4>1, <2>3
      <4> QED BY <4>1, <4>2
    <3>3. \A k \in Nat : k \in P => k + 1 \in P
      BY <3>2
    <3> HIDE DEF P
    <3>4. n - 1 \in P
      <4>1. n - 1 \in Nat
        BY <1>1, <1>5
      <4> QED BY <3>1, <3>3, <4>1, Induct
    <3> QED BY <3>4, <1>1, <1>5 DEF P
  <2>5. g[n + 1] = g[n] \o s
    <3>1. n + 1 \in 2 .. Len(tt) /\ (n + 1) - 1 = n
      BY <1>1, <1>5
    <3> HIDE DEF n
    <3> DEFINE i == n + 1
    <3>2. g[i] = g[i - 1] \o tt[i]
      <4> HIDE DEF i
      <4>1. i \in 2 .. Len(tt)
        BY <3>1 DEF i
      <4> QED BY <4>1, <1>3 DEF Joins
    <3> QED BY <3>1, <3>2, <1>1
  <2> QED BY <2>1, <2>4, <2>5, <1>3 DEF tt
<1> QED BY <1>4, <1>5

\* Every sequence is built by Append.
LEMMA AppendInduct ==
  ASSUME NEW S, NEW Q, <<>> \in Q,
         \A s \in Seq(S), e \in S : s \in Q => Append(s, e) \in Q
  PROVE  Seq(S) \subseteq Q
<1> DEFINE P == {k \in Nat : \A s \in Seq(S) : Len(s) = k => s \in Q}
<1>1. 0 \in P
  <2>1. \A s \in Seq(S) : Len(s) = 0 => s = <<>>
    BY EmptySeq
  <2> QED BY <2>1
<1>2. ASSUME NEW k \in Nat, k \in P PROVE k + 1 \in P
  <2> SUFFICES ASSUME NEW t \in Seq(S), Len(t) = k + 1 PROVE t \in Q
    OBVIOUS
  <2>1. t # <<>>
    BY EmptySeq
  <2>2. PICK s \in Seq(S), e \in S : t = Append(s, e)
    BY <2>1, SequenceEmptyOrAppend
  <2>3. Len(s) = k
    BY <2>2, AppendProperties, LenProperties
  <2> QED BY <2>2, <2>3, <1>2
<1> HIDE DEF P
<1>3. \A k \in Nat : k \in P
  BY <1>1, <1>2, Induct
<1> QED BY <1>3, LenProperties DEF P

LEMMA FlattenCons ==
  ASSUME NEW X, NEW x \in Seq(X), NEW tt \in Seq(Seq(X))
  PROVE  FlattenSeq(<<x>> \o tt) = x \o FlattenSeq(tt)
<1> DEFINE V == Seq(X)
           Q == {ss \in Seq(V) : FlattenSeq(<<x>> \o ss) = x \o FlattenSeq(ss)}
<1>1. FlattenSeq(<<>>) = <<>>
  BY DEF FlattenSeq
<1>2. <<>> \in Q
  <2>1. <<>> \in Seq(V) /\ <<>> \in Seq(X)
    BY EmptySeq
  <2>2. <<x>> \o <<>> = Append(<<>>, x)
    BY ConcatEmptySeq, <2>1, AppendIsConcat
  <2>3. FlattenSeq(Append(<<>>, x)) = <<>> \o x
    BY <1>1, <2>1, FlattenAppend
  <2> QED BY <1>1, <2>1, <2>2, <2>3, ConcatEmptySeq
<1>3. ASSUME NEW s \in Seq(V), NEW e \in V, s \in Q PROVE Append(s, e) \in Q
  <2>1. <<x>> \in Seq(V) /\ <<e>> \in Seq(V) /\ <<x>> \o s \in Seq(V)
    BY ConcatProperties
  <2>2. <<x>> \o Append(s, e) = Append(<<x>> \o s, e)
    <3>1. Append(s, e) = s \o <<e>> /\ Append(<<x>> \o s, e) = (<<x>> \o s) \o <<e>>
      BY <2>1, AppendIsConcat
    <3>2. (<<x>> \o s) \o <<e>> = <<x>> \o (s \o <<e>>)
      BY <2>1, ConcatAssociative
    <3> QED BY <3>1, <3>2
  <2>3. FlattenSeq(Append(<<x>> \o s, e)) = FlattenSeq(<<x>> \o s) \o e
    BY <2>1, FlattenAppend
  <2>4. FlattenSeq(Append(s, e)) = FlattenSeq(s) \o e
    BY FlattenAppend
  <2>5. FlattenSeq(s) \in Seq(X)
    BY FlattenType
  <2>6. (x \o FlattenSeq(s)) \o e = x \o (FlattenSeq(s) \o e)
    BY <2>5, ConcatAssociative
  <2>7. Append(s, e) \in Seq(V)
    BY AppendProperties
  <2> QED BY <1>3, <2>2, <2>3, <2>4, <2>6, <2>7
<1> HIDE DEF Q
<1>4. Seq(V) \subseteq Q
  <2> HIDE DEF V
  <2> QED BY <1>2, <1>3, AppendInduct
<1> QED BY <1>4 DEF Q

LEMMA FlattenElements ==
  ASSUME NEW X, NEW tt \in Seq(Seq(X))
  PROVE  ToSet(FlattenSeq(tt)) = UNION {ToSet(tt[i]) : i \in 1 .. Len(tt)}
<1> DEFINE V == Seq(X)
           All(ss) == UNION {ToSet(ss[i]) : i \in 1 .. Len(ss)}
           Q == {ss \in Seq(V) : ToSet(FlattenSeq(ss)) = All(ss)}
<1>1. <<>> \in Q
  <2>1. FlattenSeq(<<>>) = <<>> /\ <<>> \in Seq(V) /\ Len(<<>>) = 0
    BY EmptySeq DEF FlattenSeq
  <2>2. ToSet(<<>>) = {}
    BY DEF ToSet
  <2> QED BY <2>1, <2>2
<1>2. ASSUME NEW s \in Seq(V), NEW e \in V, s \in Q PROVE Append(s, e) \in Q
  <2> DEFINE t == Append(s, e)
  <2>1. /\ t \in Seq(V) /\ Len(s) \in Nat /\ Len(t) = Len(s) + 1
        /\ \A i \in 1 .. Len(s) : t[i] = s[i]
        /\ t[Len(s) + 1] = e
    BY AppendProperties, LenProperties
  <2>2. FlattenSeq(t) = FlattenSeq(s) \o e
    BY FlattenAppend
  <2> HIDE DEF t
  <2>3. ToSet(FlattenSeq(s) \o e) = ToSet(FlattenSeq(s)) \cup ToSet(e)
    <3> DEFINE f == FlattenSeq(s)
    <3>1. f \in Seq(X)
      BY FlattenType
    <3> HIDE DEF f
    <3>2. /\ f \o e \in Seq(X) /\ Len(f \o e) = Len(f) + Len(e)
          /\ Len(f) \in Nat /\ Len(e) \in Nat
          /\ DOMAIN f = 1 .. Len(f) /\ DOMAIN e = 1 .. Len(e) /\ DOMAIN (f \o e) = 1 .. Len(f \o e)
          /\ \A i \in 1 .. Len(f) + Len(e) :
               (f \o e)[i] = IF i <= Len(f) THEN f[i] ELSE e[i - Len(f)]
      BY <3>1, ConcatProperties, LenProperties
    <3>3. \A i \in DOMAIN f : i \in DOMAIN (f \o e) /\ (f \o e)[i] = f[i]
      BY <3>2
    <3>4. ASSUME NEW i \in DOMAIN e
          PROVE  Len(f) + i \in DOMAIN (f \o e) /\ (f \o e)[Len(f) + i] = e[i]
      <4>1. Len(f) + i \in 1 .. Len(f) + Len(e) /\ ~(Len(f) + i <= Len(f))
            /\ (Len(f) + i) - Len(f) = i
        BY <3>2
      <4> DEFINE k == Len(f) + i
      <4>2. (f \o e)[k] = e[k - Len(f)]
        BY <3>2, <4>1
      <4> QED BY <4>1, <4>2, <3>2
    <3>5. \A i \in DOMAIN (f \o e) :
            (i \in DOMAIN f /\ (f \o e)[i] = f[i])
            \/ (i - Len(f) \in DOMAIN e /\ (f \o e)[i] = e[i - Len(f)])
      BY <3>2
    <3>6. ToSet(f \o e) \subseteq ToSet(f) \cup ToSet(e)
      BY <3>5 DEF ToSet
    <3>7. ToSet(f) \cup ToSet(e) \subseteq ToSet(f \o e)
      BY <3>3, <3>4 DEF ToSet
    <3> QED BY <3>6, <3>7 DEF f
  <2>4. All(t) = All(s) \cup ToSet(e)
    <3>1. \A i \in 1 .. Len(t) : i \in 1 .. Len(s) \/ i = Len(s) + 1
      BY <2>1
    <3>2. \A i \in 1 .. Len(s) : i \in 1 .. Len(t)
      BY <2>1
    <3>3. Len(s) + 1 \in 1 .. Len(t)
      BY <2>1
    <3>4. All(t) \subseteq All(s) \cup ToSet(e)
      BY <2>1, <3>1
    <3>5. All(s) \cup ToSet(e) \subseteq All(t)
      BY <2>1, <3>2, <3>3
    <3> QED BY <3>4, <3>5
  <2> QED BY <1>2, <2>1, <2>2, <2>3, <2>4 DEF t
<1> HIDE DEF Q
<1>3. Seq(V) \subseteq Q
  <2> HIDE DEF V
  <2> QED BY <1>1, <1>2, AppendInduct
<1> QED BY <1>3 DEF Q

\* chunkBuffer loses nothing: the chunks of a buffer, joined, are the buffer.
LEMMA JoinedChunks ==
  ASSUME NEW X, NEW b \in Seq(X)
  PROVE  chunkBuffer(b) \in Seq(Seq(X)) /\ FlattenSeq(chunkBuffer(b)) = b
<1> DEFINE D == 0 .. Len(b)
           rank == [o \in D |-> Len(b) - o]
           prev == [o \in D |-> endOf(b, o)]
<1>1. PICK from \in [D -> Seq(Seq(X))] :
        /\ chunkBuffer(b) = from[0]
        /\ \A o \in D : from[o] = IF o = Len(b) THEN <<>>
                          ELSE <<SubSeq(b, o + 1, endOf(b, o))>> \o from[endOf(b, o)]
  BY ChunkBufferIs
<1>2. Len(b) \in Nat
  BY LenProperties
<1> DEFINE Q == {o \in D : FlattenSeq(from[o]) = SubSeq(b, o + 1, Len(b))}
<1>3. ASSUME NEW o \in D, rank[o] = 0 \/ prev[o] \in Q PROVE o \in Q
  <2>1. CASE o = Len(b)
    <3>1. from[o] = <<>> /\ FlattenSeq(<<>>) = <<>>
      BY <1>1, <2>1 DEF FlattenSeq
    <3>2. SubSeq(b, o + 1, Len(b)) = <<>>
      BY <2>1, <1>2, SubSeqEmpty
    <3> QED BY <3>1, <3>2
  <2>2. CASE o # Len(b)
    <3> DEFINE e == endOf(b, o)
    <3>1. e \in D /\ e > o /\ e \in Q
      BY <1>3, <2>2, EndIsBeyond
    <3>2. from[o] = <<SubSeq(b, o + 1, e)>> \o from[e]
      BY <1>1, <2>2
    <3> HIDE DEF e
    <3>3. SubSeq(b, o + 1, e) \in Seq(X)
      <4>1. \A k \in o + 1 .. e : b[k] \in X
        BY <3>1, <1>2, ElementOfSeq
      <4> QED BY <4>1, <3>1, <1>2, SubSeqProperties
    <3>4. FlattenSeq(from[o]) = SubSeq(b, o + 1, e) \o FlattenSeq(from[e])
      BY <3>1, <3>2, <3>3, FlattenCons
    <3>5. FlattenSeq(from[e]) = SubSeq(b, e + 1, Len(b))
      BY <3>1
    <3>6. SubSeq(b, o + 1, e) \o SubSeq(b, e + 1, Len(b)) = SubSeq(b, o + 1, Len(b))
      <4> DEFINE m == o + 1
      <4>1. m \in 1 .. Len(b) + 1 /\ e \in m - 1 .. Len(b) /\ Len(b) \in e .. Len(b)
        BY <3>1, <1>2
      <4> HIDE DEF m
      <4>2. SubSeq(b, m, e) \o SubSeq(b, e + 1, Len(b)) = SubSeq(b, m, Len(b))
        BY <4>1, ConcatAdjacentSubSeq
      <4> QED BY <4>2 DEF m
    <3> QED BY <3>4, <3>5, <3>6
  <2> QED BY <2>1, <2>2
<1>4. D \subseteq Q
  <2>1. Descends(D, Len(b), rank, prev)
    BY OffsetsDescend
  <2> HIDE DEF D, Q, rank, prev
  <2> QED BY <2>1, <1>3, RankInduct
<1>5. 0 \in D
  BY <1>2
<1>6. FlattenSeq(from[0]) = SubSeq(b, 1, Len(b))
  <2>1. \A o \in Q : FlattenSeq(from[o]) = SubSeq(b, o + 1, Len(b))
    OBVIOUS
  <2>2. 0 + 1 = 1
    OBVIOUS
  <2> HIDE DEF Q, D
  <2> QED BY <1>4, <1>5, <2>1, <2>2
<1>7. SubSeq(b, 1, Len(b)) = b
  BY SubSeqFull
<1>8. from[0] \in Seq(Seq(X))
  <2> HIDE DEF D
  <2> QED BY <1>1, <1>5
<1> QED BY <1>1, <1>6, <1>7, <1>8

-----------------------------------------------------------------------------
(***************************************************************************)
(* Sorted lists.                                                           *)
(***************************************************************************)

\* s lists the numbers of S in ascending order.
Lists(s, S) ==
  /\ s \in Seq(S)
  /\ Len(s) = Cardinality(S)
  /\ \A j, k \in 1 .. Len(s) : j < k => s[j] < s[k]
  /\ \A x \in S : \E k \in 1 .. Len(s) : s[k] = x

Ascends(s, S) ==
  s \in [1 .. Cardinality(S) -> S] /\ \A j, k \in DOMAIN s : j < k => s[j] < s[k]

LEMMA AscendingExists ==
  ASSUME NEW n \in Nat
  PROVE  \A S \in SUBSET Nat : IsFiniteSet(S) /\ Cardinality(S) = n => \E s : Ascends(s, S)
<1> DEFINE P == {k \in Nat : \A S \in SUBSET Nat :
                               IsFiniteSet(S) /\ Cardinality(S) = k => \E s : Ascends(s, S)}
<1>1. 0 \in P
  <2> SUFFICES ASSUME NEW S \in SUBSET Nat, IsFiniteSet(S), Cardinality(S) = 0
               PROVE  \E s : Ascends(s, S)
    OBVIOUS
  <2>1. Ascends([k \in 1 .. 0 |-> 0], S)
    BY FS_EmptySet DEF Ascends
  <2> QED BY <2>1
<1>2. ASSUME NEW k \in Nat, k \in P PROVE k + 1 \in P
  <2> SUFFICES ASSUME NEW S \in SUBSET Nat, IsFiniteSet(S), Cardinality(S) = k + 1
               PROVE  \E s : Ascends(s, S)
    OBVIOUS
  <2>1. S # {}
    BY FS_EmptySet
  <2> DEFINE l == Least(S)
             T == S \ {l}
  <2>2. l \in S /\ \A x \in S : l <= x
    BY <2>1, LeastIn
  <2> HIDE DEF l
  <2>3. T \in SUBSET Nat /\ IsFiniteSet(T) /\ Cardinality(T) = k
    BY <2>2, FS_RemoveElement
  <2>4. PICK t : Ascends(t, T)
    BY <1>2, <2>3
  <2> DEFINE s == [i \in 1 .. k + 1 |-> IF i = 1 THEN l ELSE t[i - 1]]
  <2>5. \A i \in 1 .. k : t[i] \in T
    BY <2>3, <2>4 DEF Ascends
  <2>6. s \in [1 .. k + 1 -> S]
    <3>1. ASSUME NEW i \in 1 .. k + 1 PROVE s[i] \in S
      <4>1. i = 1 \/ i - 1 \in 1 .. k
        OBVIOUS
      <4> QED BY <4>1, <2>2, <2>5
    <3> QED BY <3>1
  <2>7. ASSUME NEW i \in 1 .. k + 1, NEW j \in 1 .. k + 1, i < j PROVE s[i] < s[j]
    <3>1. j - 1 \in 1 .. k /\ s[j] = t[j - 1]
      BY <2>7
    <3>2. CASE i = 1
      <4>1. t[j - 1] \in S /\ t[j - 1] # l
        BY <3>1, <2>5
      <4>2. s[i] = l /\ l \in Nat /\ t[j - 1] \in Nat /\ l <= t[j - 1]
        BY <3>2, <4>1, <2>2
      <4> HIDE DEF s
      <4> QED BY <3>1, <4>1, <4>2
    <3>3. CASE i # 1
      <4>1. i - 1 \in 1 .. k /\ s[i] = t[i - 1] /\ i - 1 < j - 1
        BY <3>3, <2>7
      <4>2. DOMAIN t = 1 .. k
        BY <2>3, <2>4 DEF Ascends
      <4>3. t[i - 1] < t[j - 1]
        BY <3>1, <4>1, <4>2, <2>4 DEF Ascends
      <4> QED BY <3>1, <4>1, <4>3
    <3> QED BY <3>2, <3>3
  <2> HIDE DEF s
  <2>8. Ascends(s, S)
    BY <2>6, <2>7 DEF Ascends
  <2> QED BY <2>8
<1> HIDE DEF P
<1>3. n \in P
  BY <1>1, <1>2, Induct
<1> QED BY <1>3 DEF P

LEMMA SortedLists ==
  ASSUME NEW S \in SUBSET Nat, IsFiniteSet(S)
  PROVE  Lists(Sorted(S), S)
<1> DEFINE n == Cardinality(S)
           s == Sorted(S)
<1>1. n \in Nat
  BY FS_CardinalityType
<1>2. \E f : Ascends(f, S)
  BY <1>1, AscendingExists
<1>3. Ascends(s, S)
  BY <1>2 DEF Ascends, Sorted
<1> HIDE DEF s
<1>4. s \in Seq(S) /\ Len(s) = n /\ DOMAIN s = 1 .. n
  BY <1>1, <1>3 DEF Ascends
<1>5. s \in Injection(1 .. n, S)
  <2>1. ASSUME NEW i \in 1 .. n, NEW j \in 1 .. n, s[i] = s[j] PROVE i = j
    <3>1. s[i] \in Nat
      BY <1>3 DEF Ascends
    <3>2. ~(i < j) /\ ~(j < i)
      BY <1>3, <1>4, <2>1, <3>1 DEF Ascends
    <3> QED BY <1>1, <3>2
  <2> QED BY <1>3, <2>1 DEF Ascends, Injection, IsInjective
<1>6. s \in Surjection(1 .. n, S)
  <2>1. Cardinality(1 .. n) = n
    BY <1>1, FS_Interval
  <2> QED BY <1>5, <2>1, FS_Injection
<1>7. \A x \in S : \E k \in 1 .. n : s[k] = x
  BY <1>6 DEF Surjection
<1> QED BY <1>3, <1>4, <1>7 DEF Lists, Ascends, s

-----------------------------------------------------------------------------
(***************************************************************************)
(* The loop of Engine.snapshot.                                            *)
(***************************************************************************)

\* What a store may hold: chunks under their own hashes.
Chunks == {d \in DOMAIN Digest : Digest[d] \in Hash}

Store == {s \in UNION {[H -> Chunks] : H \in SUBSET Hash} :
            \A h \in DOMAIN s : Digest[s[h]] = h}

Ref == [path : Nat, bytes : Chunks]

Entry == [path : Nat, hash : Hash, isNew : BOOLEAN]

Acc == [store : Store, trace : Seq(Entry)]

LEMMA StoreIs ==
  ASSUME NEW s \in Store
  PROVE  /\ DOMAIN s \subseteq Hash
         /\ s \in [DOMAIN s -> Chunks]
         /\ \A h \in DOMAIN s : s[h] \in Chunks /\ Digest[s[h]] = h
BY DEF Store

LEMMA IsStore ==
  ASSUME NEW H \in SUBSET Hash, NEW s \in [H -> Chunks], \A h \in H : Digest[s[h]] = h
  PROVE  s \in Store
BY DEF Store

LEMMA PutInStore ==
  ASSUME NEW s \in Store, NEW d \in Chunks
  PROVE  /\ put(s, d) \in Store
         /\ DOMAIN put(s, d) = DOMAIN s \cup {Digest[d]}
         /\ \A h \in DOMAIN s : put(s, d)[h] = s[h]
<1> DEFINE H == DOMAIN s \cup {Digest[d]}
<1>1. H \in SUBSET Hash
  BY StoreIs DEF Chunks
<1>2. put(s, d) = [h \in H |-> IF h \in DOMAIN s THEN s[h] ELSE d]
  BY DEF put
<1>3. ASSUME NEW h \in H PROVE put(s, d)[h] \in Chunks /\ Digest[put(s, d)[h]] = h
  BY <1>2, StoreIs
<1>4. put(s, d) \in [H -> Chunks]
  BY <1>2, <1>3
<1> QED BY <1>1, <1>2, <1>3, <1>4, IsStore

LEMMA StoreReferenceType ==
  ASSUME NEW acc \in Acc, NEW ref \in Ref
  PROVE  StoreReference(acc, ref) \in Acc
<1>1. acc.store \in Store /\ acc.trace \in Seq(Entry) /\ ref.path \in Nat /\ ref.bytes \in Chunks
  BY DEF Acc, Ref
<1>2. put(acc.store, ref.bytes) \in Store
  BY <1>1, PutInStore
<1> DEFINE e == [path |-> ref.path, hash |-> Digest[ref.bytes],
                 isNew |-> Digest[ref.bytes] \notin DOMAIN acc.store]
<1>3. e \in Entry
  BY <1>1 DEF Entry, Chunks
<1> HIDE DEF e
<1>4. Append(acc.trace, e) \in Seq(Entry)
  BY <1>1, <1>3, AppendProperties
<1> QED BY <1>2, <1>4 DEF StoreReference, Acc, e

LEMMA MaxIn ==
  ASSUME NEW n \in Nat, NEW S \in SUBSET (1 .. n), S # {}
  PROVE  Max(S) \in S /\ \A y \in S : y <= Max(S)
<1> DEFINE T == {n - x : x \in S}
<1>1. T \subseteq Nat /\ T # {}
  <2>1. \A x \in S : x \in 1 .. n
    OBVIOUS
  <2>2. \A x \in S : n - x \in Nat
    BY <2>1
  <2> QED BY <2>2
<1>2. Least(T) \in T /\ \A j \in T : Least(T) <= j
  <2> HIDE DEF T
  <2> QED BY <1>1, LeastIn
<1>3. PICK m \in S : Least(T) = n - m
  BY <1>2
<1>4. ASSUME NEW y \in S PROVE m >= y
  <2>1. n - y \in T
    OBVIOUS
  <2>2. n - m <= n - y
    BY <1>2, <1>3, <2>1
  <2>3. m \in 1 .. n /\ y \in 1 .. n
    OBVIOUS
  <2> QED BY <2>2, <2>3
<1> QED BY <1>4 DEF Max

\* FoldLeft takes the references one after the other.
LEMMA SnapshotRuns ==
  ASSUME NEW first \in Acc, NEW refs \in Seq(Ref)
  PROVE  \E acc \in [0 .. Len(refs) -> Acc] :
           /\ acc[0] = first
           /\ \A k \in 1 .. Len(refs) : acc[k] = StoreReference(acc[k - 1], refs[k])
           /\ FoldLeft(StoreReference, first, refs) = acc[Len(refs)]
<1> DEFINE n == Len(refs)
           D == SUBSET (1 .. n)
           rank == [s \in D |-> Cardinality(s)]
           prev == [s \in D |-> IF s = {} THEN {} ELSE s \ {Max(s)}]
           base == [s \in D |-> first]
           step == [s \in D |-> [v \in Acc |-> IF s = {} THEN v
                                               ELSE StoreReference(v, refs[Max(s)])]]
           Body(f) == [s \in D |-> IF s = {} THEN first
                         ELSE StoreReference(f[s \ {Max(s)}], refs[Max(s)])]
<1>1. n \in Nat /\ DOMAIN refs = 1 .. n /\ \A k \in 1 .. n : refs[k] \in Ref
  BY LenProperties
<1> HIDE DEF n
<1>2. ASSUME NEW s \in D, s # {} PROVE Max(s) \in s /\ Max(s) \in 1 .. n
  BY <1>1, <1>2, MaxIn
<1>3. ASSUME NEW s \in D
      PROVE  IsFiniteSet(s) /\ Cardinality(s) \in 0 .. n /\ (Cardinality(s) = 0 <=> s = {})
  <2>1. IsFiniteSet(1 .. n) /\ Cardinality(1 .. n) = n
    BY <1>1, FS_Interval
  <2>2. IsFiniteSet(s) /\ Cardinality(s) <= n
    BY <2>1, FS_Subset
  <2>3. Cardinality(s) \in Nat /\ (Cardinality(s) = 0 <=> s = {})
    BY <2>2, FS_CardinalityType, FS_EmptySet
  <2> HIDE DEF D
  <2> QED BY <1>1, <2>2, <2>3
<1>4. Descends(D, n, rank, prev)
  <2>1. rank \in [D -> 0 .. n]
    BY <1>3
  <2>2. prev \in [D -> D]
    OBVIOUS
  <2>3. ASSUME NEW s \in D, rank[s] # 0 PROVE rank[prev[s]] < rank[s]
    <3>1. s # {} /\ IsFiniteSet(s) /\ Cardinality(s) \in Nat
      BY <1>3, <2>3
    <3>2. Cardinality(s \ {Max(s)}) = Cardinality(s) - 1
      BY <1>2, <3>1, FS_RemoveElement
    <3>3. prev[s] = s \ {Max(s)} /\ prev[s] \in D
      BY <3>1
    <3>4. rank[prev[s]] = Cardinality(s \ {Max(s)}) /\ rank[s] = Cardinality(s)
      BY <3>3
    <3> QED BY <3>1, <3>2, <3>4
  <2> QED BY <1>1, <2>1, <2>2, <2>3 DEF Descends
<1>5. base \in [D -> Acc]
  OBVIOUS
<1>6. step \in [D -> [Acc -> Acc]]
  <2>1. ASSUME NEW s \in D, s # {}, NEW v \in Acc PROVE StoreReference(v, refs[Max(s)]) \in Acc
    BY <2>1, <1>1, <1>2, StoreReferenceType
  <2> QED BY <2>1
<1>7. PICK f : Solves(f, D, Acc, rank, prev, base, step)
  <2>1. Recursion(D, n, Acc, rank, prev, base, step)
    BY <1>4, <1>5, <1>6 DEF Recursion
  <2> HIDE DEF D, rank, prev, base, step
  <2> QED BY <2>1, RecursiveFunction
<1>8. f = Body(f)
  <2>1. ASSUME NEW s \in D PROVE f[s] = Body(f)[s]
    <3>1. CASE s = {}
      <4>1. rank[s] = 0
        BY <3>1, <1>3
      <4>2. f[s] = base[s]
        BY <1>7, <4>1 DEF Solves
      <4> QED BY <4>2, <3>1
    <3>2. CASE s # {}
      <4>1. rank[s] # 0 /\ prev[s] = s \ {Max(s)} /\ prev[s] \in D
        BY <3>2, <1>3
      <4>2. f[s] = step[s][f[prev[s]]]
        BY <1>7, <4>1 DEF Solves
      <4>3. f[prev[s]] \in Acc
        BY <4>1, <1>7 DEF Solves
      <4> QED BY <4>1, <4>2, <4>3, <3>2
    <3> QED BY <3>1, <3>2
  <2> QED BY <2>1, <1>7 DEF Solves
<1> DEFINE iter == CHOOSE g : g = Body(g)
<1>9. iter = Body(iter)
  BY <1>8
<1>10. FoldLeft(StoreReference, first, refs) = iter[1 .. n]
  BY <1>1 DEF FoldLeft, MapThenFoldSet
<1> HIDE DEF iter
<1> DEFINE acc == [k \in 0 .. n |-> iter[1 .. k]]
<1>11. acc[0] = first
  <2>1. 1 .. 0 = {} /\ 0 \in 0 .. n
    BY <1>1
  <2>2. iter[{}] = first
    BY <1>9
  <2> QED BY <2>1, <2>2
<1>12. ASSUME NEW k \in 1 .. n PROVE acc[k] = StoreReference(acc[k - 1], refs[k])
  <2>1. 1 .. k \in D /\ 1 .. k # {} /\ k \in 0 .. n /\ k - 1 \in 0 .. n
    <3>1. k \in 1 .. k
      OBVIOUS
    <3>2. 1 .. k \subseteq 1 .. n
      BY <1>1
    <3>3. k \in 0 .. n /\ k - 1 \in 0 .. n
      BY <1>1
    <3> QED BY <3>1, <3>2, <3>3
  <2>2. Max(1 .. k) = k
    <3>1. Max(1 .. k) \in 1 .. k /\ \A y \in 1 .. k : y <= Max(1 .. k)
      BY <2>1, <1>1, MaxIn
    <3> QED BY <3>1
  <2>3. (1 .. k) \ {k} = 1 .. k - 1
    OBVIOUS
  <2>4. iter[1 .. k] = StoreReference(iter[(1 .. k) \ {Max(1 .. k)}], refs[Max(1 .. k)])
    BY <1>9, <2>1
  <2> QED BY <2>1, <2>2, <2>3, <2>4
<1>13. acc \in [0 .. n -> Acc]
  <2> DEFINE P == {k \in Nat : k \in 0 .. n => acc[k] \in Acc}
  <2>1. 0 \in P
    BY <1>11
  <2>2. ASSUME NEW k \in Nat, k \in P, k + 1 \in 0 .. n PROVE acc[k + 1] \in Acc
    <3> DEFINE j == k + 1
    <3>1. j \in 1 .. n /\ j - 1 = k /\ k \in 0 .. n
      BY <1>1, <2>2
    <3>2. acc[k] \in Acc
      BY <2>2, <3>1
    <3> HIDE DEF j, acc
    <3>3. acc[j] = StoreReference(acc[j - 1], refs[j]) /\ refs[j] \in Ref
      BY <1>12, <1>1, <3>1
    <3>4. acc[j] \in Acc
      BY <3>1, <3>2, <3>3, StoreReferenceType
    <3> QED BY <3>4 DEF j
  <2>3. \A k \in Nat : k \in P => k + 1 \in P
    BY <2>2
  <2> HIDE DEF P
  <2>4. \A k \in Nat : k \in P
    BY <2>1, <2>3, Induct
  <2>5. \A k \in 0 .. n : acc[k] \in Acc
    <3> HIDE DEF acc
    <3> QED BY <1>1, <2>4 DEF P
  <2> QED BY <2>5
<1>14. acc[n] = iter[1 .. n]
  BY <1>1
<1> HIDE DEF acc
<1> QED BY <1>10, <1>11, <1>12, <1>13, <1>14 DEF n

-----------------------------------------------------------------------------
(***************************************************************************)
(* Trees, their manifests and their references.                            *)
(***************************************************************************)

\* The hashes of a tree's chunks.
HashesIn(tree) == {h \in Hash : \E path \in DOMAIN tree :
                                  \E d \in ToSet(chunkBuffer(tree[path])) : h = Digest[d]}

LEMMA ImageIsFinite ==
  ASSUME NEW S, IsFiniteSet(S), NEW f, DOMAIN f = S
  PROVE  IsFiniteSet({f[x] : x \in S})
<1> DEFINE T == {f[x] : x \in S}
           g == [x \in S |-> f[x]]
<1>1. g \in Surjection(S, T)
  BY DEF Surjection
<1> HIDE DEF g, T
<1>2. IsFiniteSet(T)
  BY <1>1, FS_Surjection
<1> QED BY <1>2 DEF T

LEMMA ElementsAreFinite ==
  ASSUME NEW X, NEW s \in Seq(X)
  PROVE  IsFiniteSet(ToSet(s)) /\ ToSet(s) \subseteq X
<1>1. DOMAIN s = 1 .. Len(s) /\ Len(s) \in Nat /\ \A i \in 1 .. Len(s) : s[i] \in X
  BY LenProperties
<1>2. IsFiniteSet(1 .. Len(s))
  BY <1>1, FS_Interval
<1>3. IsFiniteSet({s[i] : i \in DOMAIN s})
  BY <1>1, <1>2, ImageIsFinite
<1> QED BY <1>1, <1>3 DEF ToSet

LEMMA TreeChunks ==
  ASSUME NEW tree \in Tree, NEW path \in DOMAIN tree
  PROVE  /\ chunkBuffer(tree[path]) \in Seq(Chunks)
         /\ FlattenSeq(chunkBuffer(tree[path])) = tree[path]
         /\ tree[path] \in Seq(0 .. 255)
<1> DEFINE s == chunkBuffer(tree[path])
<1>1. tree[path] \in Seq(0 .. 255)
  BY TreeAssumption
<1>2. s \in Seq(Seq(0 .. 255)) /\ FlattenSeq(s) = tree[path]
  BY <1>1, JoinedChunks
<1>3. \A d \in ToSet(s) : d \in Chunks
  BY TreeAssumption DEF Chunks
<1> HIDE DEF s
<1>4. DOMAIN s = 1 .. Len(s) /\ Len(s) \in Nat /\ s \in [1 .. Len(s) -> Seq(0 .. 255)]
  BY <1>2, LenProperties
<1>5. \A i \in 1 .. Len(s) : s[i] \in Chunks
  BY <1>3, <1>4 DEF ToSet
<1>6. s \in [1 .. Len(s) -> Chunks]
  BY <1>4, <1>5
<1>7. s \in Seq(Chunks)
  BY <1>4, <1>6
<1> QED BY <1>1, <1>2, <1>7 DEF s

LEMMA PathsAre ==
  ASSUME NEW tree \in Tree
  PROVE  /\ Lists(Ordered(tree), DOMAIN tree)
         /\ Len(Ordered(tree)) \in Nat
         /\ DOMAIN Ordered(tree) = 1 .. Len(Ordered(tree))
         /\ \A k \in 1 .. Len(Ordered(tree)) : Ordered(tree)[k] \in DOMAIN tree
<1>1. Lists(Ordered(tree), DOMAIN tree)
  BY TreeAssumption, SortedLists DEF Ordered
<1> QED BY <1>1, LenProperties DEF Lists

LEMMA ManifestIs ==
  ASSUME NEW tree \in Tree
  PROVE  /\ DOMAIN manifestOf(tree) = 1 .. Len(Ordered(tree))
         /\ \A k \in 1 .. Len(Ordered(tree)) :
              /\ manifestOf(tree)[k].path = Ordered(tree)[k]
              /\ DOMAIN manifestOf(tree)[k].chunks = DOMAIN chunkBuffer(tree[Ordered(tree)[k]])
              /\ \A j \in DOMAIN chunkBuffer(tree[Ordered(tree)[k]]) :
                   manifestOf(tree)[k].chunks[j] = Digest[chunkBuffer(tree[Ordered(tree)[k]])[j]]
<1> DEFINE paths == Ordered(tree)
<1>1. DOMAIN manifestOf(tree) = 1 .. Len(paths)
  BY DEF manifestOf
<1>2. ASSUME NEW k \in 1 .. Len(paths)
      PROVE  /\ manifestOf(tree)[k].path = paths[k]
             /\ DOMAIN manifestOf(tree)[k].chunks = DOMAIN chunkBuffer(tree[paths[k]])
             /\ \A j \in DOMAIN chunkBuffer(tree[paths[k]]) :
                  manifestOf(tree)[k].chunks[j] = Digest[chunkBuffer(tree[paths[k]])[j]]
  <2> DEFINE s == chunkBuffer(tree[paths[k]])
  <2>1. paths[k] \in DOMAIN tree
    BY PathsAre
  <2>2. DOMAIN s = 1 .. Len(s)
    BY <2>1, TreeChunks, LenProperties
  <2>3. manifestOf(tree)[k] = [path |-> paths[k], chunks |-> [j \in 1 .. Len(s) |-> Digest[s[j]]]]
    BY DEF manifestOf
  <2> HIDE DEF s, paths
  <2>4. /\ manifestOf(tree)[k].path = paths[k]
        /\ DOMAIN manifestOf(tree)[k].chunks = DOMAIN s
        /\ \A j \in DOMAIN s : manifestOf(tree)[k].chunks[j] = Digest[s[j]]
    BY <2>2, <2>3
  <2> QED BY <2>4 DEF s
<1> QED BY <1>1, <1>2

LEMMA ManifestHashes ==
  ASSUME NEW tree \in Tree
  PROVE  /\ HashesOf(manifestOf(tree)) = HashesIn(tree)
         /\ HashesIn(tree) \subseteq Hash
         /\ IsFiniteSet(HashesIn(tree))
<1> DEFINE paths == Ordered(tree)
           m == manifestOf(tree)
           n == Len(paths)
           cut(k) == chunkBuffer(tree[paths[k]])
<1>1. n \in Nat /\ \A k \in 1 .. n : paths[k] \in DOMAIN tree
  BY PathsAre
<1>2. \A path \in DOMAIN tree : \E k \in 1 .. n : paths[k] = path
  BY PathsAre DEF Lists
<1>3. /\ DOMAIN m = 1 .. n
      /\ \A k \in 1 .. n : /\ DOMAIN m[k].chunks = DOMAIN cut(k)
                           /\ \A j \in DOMAIN cut(k) : m[k].chunks[j] = Digest[cut(k)[j]]
  BY ManifestIs
<1> HIDE DEF m, n, paths
<1>4. ASSUME NEW k \in 1 .. n
      PROVE  ToSet(m[k].chunks) = {Digest[d] : d \in ToSet(cut(k))}
  <2> HIDE DEF cut
  <2> QED BY <1>3 DEF ToSet
<1>5. \A k \in 1 .. n : \A d \in ToSet(cut(k)) : Digest[d] \in Hash
  BY <1>1, TreeAssumption
<1>6. HashesOf(m) = HashesIn(tree)
  <2>1. ASSUME NEW h \in HashesOf(m) PROVE h \in HashesIn(tree)
    <3>1. PICK k \in 1 .. n : h \in ToSet(m[k].chunks)
      BY <1>3 DEF HashesOf
    <3>2. PICK d \in ToSet(cut(k)) : h = Digest[d]
      BY <1>4, <3>1
    <3> QED BY <1>1, <1>5, <3>2 DEF HashesIn
  <2>2. ASSUME NEW h \in HashesIn(tree) PROVE h \in HashesOf(m)
    <3>1. PICK path \in DOMAIN tree : \E d \in ToSet(chunkBuffer(tree[path])) : h = Digest[d]
      BY DEF HashesIn
    <3>2. PICK k \in 1 .. n : paths[k] = path
      BY <1>2
    <3>3. h \in ToSet(m[k].chunks)
      BY <1>4, <3>1, <3>2
    <3> QED BY <1>3, <3>3 DEF HashesOf
  <2> QED BY <2>1, <2>2
<1>7. IsFiniteSet(HashesOf(m))
  <2> DEFINE part == [k \in 1 .. n |-> ToSet(m[k].chunks)]
  <2>1. \A k \in 1 .. n : IsFiniteSet(part[k])
    <3> SUFFICES ASSUME NEW k \in 1 .. n PROVE IsFiniteSet(ToSet(m[k].chunks))
      OBVIOUS
    <3>1. cut(k) \in Seq(Chunks)
      BY <1>1, TreeChunks
    <3>2. IsFiniteSet(DOMAIN cut(k))
      <4>1. DOMAIN cut(k) = 1 .. Len(cut(k)) /\ Len(cut(k)) \in Nat
        BY <3>1, LenProperties
      <4> QED BY <4>1, FS_Interval
    <3>3. DOMAIN m[k].chunks = DOMAIN cut(k)
      BY <1>3
    <3> QED BY <3>2, <3>3, ImageIsFinite DEF ToSet
  <2>2. IsFiniteSet(1 .. n)
    <3>1. n \in Int
      BY <1>1
    <3> QED BY <3>1, FS_Interval
  <2>3. DOMAIN part = 1 .. n
    OBVIOUS
  <2>4. HashesOf(m) = UNION {part[k] : k \in 1 .. n}
    BY <1>3 DEF HashesOf
  <2> HIDE DEF part
  <2>5. IsFiniteSet({part[k] : k \in 1 .. n})
    BY <2>2, <2>3, ImageIsFinite
  <2> DEFINE U == {part[k] : k \in 1 .. n}
  <2>6. \A T \in U : IsFiniteSet(T)
    BY <2>1
  <2> HIDE DEF U
  <2>7. IsFiniteSet(UNION U)
    BY <2>5, <2>6, FS_UNION DEF U
  <2> QED BY <2>4, <2>7 DEF U
<1> QED BY <1>6, <1>7 DEF m, HashesIn

LEMMA ReferencesAre ==
  ASSUME NEW tree \in Tree
  PROVE  /\ References(tree) \in Seq(Ref)
         /\ \A r \in ToSet(References(tree)) :
              r.path \in DOMAIN tree /\ r.bytes \in ToSet(chunkBuffer(tree[r.path]))
         /\ \A path \in DOMAIN tree : \A d \in ToSet(chunkBuffer(tree[path])) :
              \E r \in ToSet(References(tree)) : r.bytes = d
<1> DEFINE paths == Ordered(tree)
           n == Len(paths)
           cut(k) == chunkBuffer(tree[paths[k]])
           ofFile(k) == [j \in 1 .. Len(cut(k)) |-> [path |-> paths[k], bytes |-> cut(k)[j]]]
           tt == [k \in 1 .. n |-> ofFile(k)]
<1>1. n \in Nat /\ \A k \in 1 .. n : paths[k] \in DOMAIN tree /\ paths[k] \in Nat
  BY PathsAre, TreeAssumption
<1>2. \A path \in DOMAIN tree : \E k \in 1 .. n : paths[k] = path
  BY PathsAre DEF Lists
<1>3. References(tree) = FlattenSeq(tt)
  BY DEF References
<1> HIDE DEF paths, n
<1>4. \A k \in 1 .. n : cut(k) \in Seq(Chunks)
  BY <1>1, TreeChunks
<1> HIDE DEF cut
<1>5. ASSUME NEW k \in 1 .. n
      PROVE  /\ ofFile(k) \in Seq(Ref)
             /\ ToSet(ofFile(k)) = {[path |-> paths[k], bytes |-> d] : d \in ToSet(cut(k))}
  <2>1. /\ Len(cut(k)) \in Nat /\ DOMAIN cut(k) = 1 .. Len(cut(k))
        /\ \A j \in 1 .. Len(cut(k)) : cut(k)[j] \in Chunks
    BY <1>4, LenProperties
  <2>2. ofFile(k) \in [1 .. Len(cut(k)) -> Ref]
    BY <1>1, <2>1 DEF Ref
  <2>3. ofFile(k) \in Seq(Ref)
    BY <2>1, <2>2
  <2> QED BY <2>1, <2>3 DEF ToSet
<1>6. tt \in Seq(Seq(Ref)) /\ Len(tt) = n
  <2>1. tt \in [1 .. n -> Seq(Ref)]
    BY <1>5
  <2> HIDE DEF tt
  <2> QED BY <1>1, <2>1
<1>7. References(tree) \in Seq(Ref)
  BY <1>3, <1>6, FlattenType
<1>8. ToSet(References(tree)) = UNION {ToSet(tt[i]) : i \in 1 .. n}
  <2> HIDE DEF tt
  <2> QED BY <1>3, <1>6, FlattenElements
<1>9. \A k \in 1 .. n : ToSet(tt[k]) = {[path |-> paths[k], bytes |-> d] : d \in ToSet(cut(k))}
  BY <1>5
<1> HIDE DEF tt
<1>10. ASSUME NEW r \in ToSet(References(tree))
       PROVE  r.path \in DOMAIN tree /\ r.bytes \in ToSet(chunkBuffer(tree[r.path]))
  <2>1. PICK k \in 1 .. n : \E d \in ToSet(cut(k)) : r = [path |-> paths[k], bytes |-> d]
    BY <1>8, <1>9
  <2> QED BY <1>1, <2>1 DEF cut
<1>11. ASSUME NEW path \in DOMAIN tree, NEW d \in ToSet(chunkBuffer(tree[path]))
       PROVE  \E r \in ToSet(References(tree)) : r.bytes = d
  <2>1. PICK k \in 1 .. n : paths[k] = path
    BY <1>2
  <2>2. d \in ToSet(cut(k))
    BY <2>1 DEF cut
  <2>3. [path |-> paths[k], bytes |-> d] \in ToSet(References(tree))
    BY <1>8, <1>9, <2>2
  <2> QED BY <2>3
<1> QED BY <1>7, <1>10, <1>11

-----------------------------------------------------------------------------
(***************************************************************************)
(* What a snapshot stores, and what it reports as new.                     *)
(***************************************************************************)

\* The state of the loop after k references: every hash so far is stored, and
\* the new ones are those that neither the store nor an earlier reference had.
Stored(acc, s, refs, k) ==
  /\ Len(acc.trace) = k
  /\ DOMAIN acc.store = DOMAIN s \cup {Digest[refs[i].bytes] : i \in 1 .. k}
  /\ \A i \in 1 .. k :
       /\ acc.trace[i].path = refs[i].path
       /\ acc.trace[i].hash = Digest[refs[i].bytes]
       /\ acc.trace[i].isNew = (/\ Digest[refs[i].bytes] \notin DOMAIN s
                                /\ \A j \in 1 .. i - 1 : Digest[refs[j].bytes] # Digest[refs[i].bytes])

LEMMA OneReference ==
  ASSUME NEW s \in Store, NEW refs \in Seq(Ref), NEW k \in Nat, k + 1 \in 1 .. Len(refs),
         NEW acc \in Acc, Stored(acc, s, refs, k)
  PROVE  Stored(StoreReference(acc, refs[k + 1]), s, refs, k + 1)
<1> DEFINE n == k + 1
           ref == refs[n]
           h == Digest[ref.bytes]
           e == [path |-> ref.path, hash |-> h, isNew |-> h \notin DOMAIN acc.store]
           acc2 == StoreReference(acc, ref)
<1>1. n \in 1 .. Len(refs) /\ ref \in Ref /\ ref.bytes \in Chunks /\ ref.path \in Nat
  <2>1. n \in 1 .. Len(refs)
    OBVIOUS
  <2>2. ref \in Ref
    <3> HIDE DEF n
    <3> QED BY <2>1, ElementOfSeq
  <2> HIDE DEF ref
  <2> QED BY <2>1, <2>2 DEF Ref
<1>2. acc.store \in Store /\ acc.trace \in Seq(Entry)
  BY DEF Acc
<1>3. e \in Entry
  BY <1>1 DEF Entry, Chunks
<1>4. acc2.trace = Append(acc.trace, e) /\ acc2.store = put(acc.store, ref.bytes)
  BY DEF StoreReference
<1>5. /\ Len(acc2.trace) = n /\ acc2.trace[n] = e
      /\ \A i \in 1 .. k : acc2.trace[i] = acc.trace[i]
  <2>1. Len(acc.trace) = k
    BY DEF Stored
  <2> HIDE DEF e, acc2
  <2> QED BY <1>2, <1>3, <1>4, <2>1, AppendProperties
<1>6. DOMAIN acc2.store = DOMAIN acc.store \cup {h}
  <2> HIDE DEF acc2, ref
  <2> QED BY <1>1, <1>2, <1>4, PutInStore
<1>7. \A i \in 1 .. n : i \in 1 .. k \/ i = n
  OBVIOUS
<1>8. \A i \in 1 .. k : i \in 1 .. n
  OBVIOUS
<1>9. n \in 1 .. n /\ 1 .. n - 1 = 1 .. k
  OBVIOUS
<1>10. e.path = ref.path /\ e.hash = h /\ e.isNew = (h \notin DOMAIN acc.store)
  OBVIOUS
<1>11. DOMAIN acc.store = DOMAIN s \cup {Digest[refs[i].bytes] : i \in 1 .. k}
  BY DEF Stored
<1> HIDE DEF acc2, n, e
<1>12. DOMAIN acc2.store = DOMAIN s \cup {Digest[refs[i].bytes] : i \in 1 .. n}
  BY <1>6, <1>7, <1>8, <1>9, <1>11
<1>13. e.isNew = (/\ Digest[refs[n].bytes] \notin DOMAIN s
                  /\ \A j \in 1 .. n - 1 : Digest[refs[j].bytes] # Digest[refs[n].bytes])
  BY <1>9, <1>10, <1>11
<1>14. ASSUME NEW i \in 1 .. n
       PROVE  /\ acc2.trace[i].path = refs[i].path
              /\ acc2.trace[i].hash = Digest[refs[i].bytes]
              /\ acc2.trace[i].isNew =
                   (/\ Digest[refs[i].bytes] \notin DOMAIN s
                    /\ \A j \in 1 .. i - 1 : Digest[refs[j].bytes] # Digest[refs[i].bytes])
  <2>1. CASE i = n
    BY <1>5, <1>10, <1>13, <2>1
  <2>2. CASE i \in 1 .. k
    <3>1. /\ acc.trace[i].path = refs[i].path
          /\ acc.trace[i].hash = Digest[refs[i].bytes]
          /\ acc.trace[i].isNew =
               (/\ Digest[refs[i].bytes] \notin DOMAIN s
                /\ \A j \in 1 .. i - 1 : Digest[refs[j].bytes] # Digest[refs[i].bytes])
      <4> HIDE DEF ref, h
      <4> QED BY <2>2 DEF Stored
    <3>2. acc2.trace[i] = acc.trace[i]
      BY <1>5, <2>2
    <3> QED BY <3>1, <3>2
  <2> QED BY <1>7, <2>1, <2>2
<1>15. Stored(acc2, s, refs, n)
  BY <1>5, <1>12, <1>14 DEF Stored
<1> QED BY <1>15 DEF acc2, n

LEMMA SnapshotStores ==
  ASSUME NEW s \in Store, NEW tree \in Tree
  PROVE  /\ snapshot(s, tree) \in Acc
         /\ Stored(snapshot(s, tree), s, References(tree), Len(References(tree)))
<1> DEFINE refs == References(tree)
           n == Len(refs)
           first == [store |-> s, trace |-> <<>>]
<1>1. refs \in Seq(Ref)
  BY ReferencesAre
<1>2. first \in Acc
  BY EmptySeq DEF Acc
<1>3. snapshot(s, tree) = FoldLeft(StoreReference, first, refs)
  BY DEF snapshot
<1> HIDE DEF refs, first
<1>4. PICK acc \in [0 .. n -> Acc] :
        /\ acc[0] = first
        /\ \A k \in 1 .. n : acc[k] = StoreReference(acc[k - 1], refs[k])
        /\ FoldLeft(StoreReference, first, refs) = acc[n]
  BY <1>1, <1>2, SnapshotRuns
<1>5. n \in Nat
  BY <1>1, LenProperties
<1> DEFINE P == {k \in Nat : k \in 0 .. n => Stored(acc[k], s, refs, k)}
<1>6. 0 \in P
  <2>1. first.trace = <<>> /\ first.store = s
    BY DEF first
  <2>2. Stored(first, s, refs, 0)
    <3>1. Len(first.trace) = 0 /\ DOMAIN first.store = DOMAIN s
      BY <2>1
    <3>2. \A i \in 1 .. 0 : FALSE
      OBVIOUS
    <3> QED BY <3>1, <3>2 DEF Stored
  <2> QED BY <1>4, <2>2
<1>7. ASSUME NEW k \in Nat, k \in P, k + 1 \in 0 .. n PROVE Stored(acc[k + 1], s, refs, k + 1)
  <2>1. k \in 0 .. n /\ k + 1 \in 1 .. n /\ (k + 1) - 1 = k
    BY <1>5, <1>7
  <2>2. Stored(acc[k], s, refs, k)
    BY <1>7, <2>1
  <2>3. acc[k] \in Acc
    BY <2>1
  <2>4. acc[k + 1] = StoreReference(acc[k], refs[k + 1])
    BY <1>4, <2>1
  <2> QED BY <1>1, <2>1, <2>2, <2>3, <2>4, OneReference
<1>8. \A k \in Nat : k \in P => k + 1 \in P
  BY <1>7
<1> HIDE DEF P
<1>9. n \in P
  BY <1>5, <1>6, <1>8, Induct
<1>10. n \in 0 .. n
  BY <1>5
<1>11. Stored(acc[n], s, refs, n) /\ acc[n] \in Acc
  BY <1>9, <1>10 DEF P
<1> QED BY <1>3, <1>4, <1>11 DEF refs

LEMMA SnapshotStoresHashes ==
  ASSUME NEW s \in Store, NEW tree \in Tree
  PROVE  /\ snapshot(s, tree).store \in Store
         /\ DOMAIN snapshot(s, tree).store = DOMAIN s \cup HashesIn(tree)
<1> DEFINE refs == References(tree)
           n == Len(refs)
           o == snapshot(s, tree)
<1>1. o.store \in Store /\ DOMAIN o.store = DOMAIN s \cup {Digest[refs[i].bytes] : i \in 1 .. n}
  BY SnapshotStores DEF Acc, Stored
<1>2. /\ refs \in Seq(Ref)
      /\ \A r \in ToSet(refs) : r.path \in DOMAIN tree /\ r.bytes \in ToSet(chunkBuffer(tree[r.path]))
      /\ \A path \in DOMAIN tree : \A d \in ToSet(chunkBuffer(tree[path])) :
           \E r \in ToSet(refs) : r.bytes = d
  BY ReferencesAre
<1>3. DOMAIN refs = 1 .. n /\ \A i \in 1 .. n : refs[i] \in Ref /\ refs[i] \in ToSet(refs)
  BY <1>2, LenProperties DEF ToSet
<1> HIDE DEF refs, n
<1>4. ASSUME NEW i \in 1 .. n PROVE Digest[refs[i].bytes] \in HashesIn(tree)
  BY <1>2, <1>3 DEF HashesIn, Ref, Chunks
<1>5. ASSUME NEW h \in HashesIn(tree) PROVE \E i \in 1 .. n : h = Digest[refs[i].bytes]
  <2>1. PICK path \in DOMAIN tree : \E d \in ToSet(chunkBuffer(tree[path])) : h = Digest[d]
    BY DEF HashesIn
  <2>2. PICK r \in ToSet(refs) : h = Digest[r.bytes]
    BY <1>2, <2>1
  <2> QED BY <1>3, <2>2 DEF ToSet
<1> QED BY <1>1, <1>4, <1>5

LEMMA FreshChunks ==
  ASSUME NEW s \in Store, NEW tree \in Tree
  PROVE  LET o     == snapshot(s, tree)
             fresh == newChunks(o.trace)
         IN  /\ {o.trace[k].hash : k \in fresh} = DOMAIN o.store \ DOMAIN s
             /\ \A j, k \in fresh : o.trace[j].hash = o.trace[k].hash => j = k
             /\ \A k \in fresh :
                  /\ o.trace[k].path \in DOMAIN tree
                  /\ o.trace[k].hash \notin DOMAIN s
                  /\ \E d \in ToSet(chunkBuffer(tree[o.trace[k].path])) : o.trace[k].hash = Digest[d]
<1> DEFINE refs == References(tree)
           n == Len(refs)
           o == snapshot(s, tree)
           fresh == newChunks(o.trace)
           h(i) == Digest[refs[i].bytes]
           First(i) == h(i) \notin DOMAIN s /\ \A j \in 1 .. i - 1 : h(j) # h(i)
<1>1. o \in Acc /\ Stored(o, s, refs, n)
  BY SnapshotStores
<1>2. /\ refs \in Seq(Ref)
      /\ \A r \in ToSet(refs) : r.path \in DOMAIN tree /\ r.bytes \in ToSet(chunkBuffer(tree[r.path]))
  BY ReferencesAre
<1>3. n \in Nat /\ DOMAIN refs = 1 .. n /\ \A i \in 1 .. n : refs[i] \in ToSet(refs)
  BY <1>2, LenProperties DEF ToSet
<1> HIDE DEF refs, n, o
<1>4. DOMAIN o.store = DOMAIN s \cup {h(i) : i \in 1 .. n}
  BY <1>1 DEF Stored
<1>5. DOMAIN o.trace = 1 .. n
  BY <1>1, LenProperties DEF Stored, Acc
<1>6. \A i \in 1 .. n : o.trace[i].path = refs[i].path /\ o.trace[i].hash = h(i)
  BY <1>1 DEF Stored
<1>7. \A i \in 1 .. n : o.trace[i].isNew = First(i)
  BY <1>1 DEF Stored
<1> HIDE DEF h
<1>8. \A k : k \in fresh <=> k \in 1 .. n /\ First(k)
  BY <1>5, <1>7 DEF newChunks
<1> HIDE DEF fresh
<1>9. ASSUME NEW g \in DOMAIN o.store \ DOMAIN s PROVE \E k \in fresh : o.trace[k].hash = g
  <2> DEFINE I == {i \in 1 .. n : h(i) = g}
             l == Least(I)
  <2>1. I \subseteq Nat /\ I # {}
    BY <1>4
  <2>2. l \in I /\ \A i \in I : l <= i
    <3> HIDE DEF I
    <3> QED BY <2>1, LeastIn
  <2> HIDE DEF l
  <2>3. ASSUME NEW j \in 1 .. l - 1 PROVE h(j) # h(l)
    <3>1. j \in 1 .. n /\ ~(l <= j)
      BY <1>3, <2>2
    <3> QED BY <2>2, <3>1
  <2>4. l \in fresh
    BY <1>8, <2>2, <2>3
  <2> QED BY <1>6, <2>2, <2>4
<1>10. {o.trace[k].hash : k \in fresh} = DOMAIN o.store \ DOMAIN s
  <2>1. \A k \in fresh : o.trace[k].hash \in DOMAIN o.store \ DOMAIN s
    BY <1>4, <1>6, <1>8
  <2> QED BY <1>9, <2>1
<1>11. ASSUME NEW j \in fresh, NEW k \in fresh, o.trace[j].hash = o.trace[k].hash PROVE j = k
  <2>1. j \in 1 .. n /\ k \in 1 .. n /\ h(j) = h(k) /\ First(j) /\ First(k)
    BY <1>6, <1>8, <1>11
  <2>2. ~(j < k) /\ ~(k < j)
    BY <1>3, <2>1
  <2> QED BY <1>3, <2>1, <2>2
<1>12. ASSUME NEW k \in fresh
       PROVE  /\ o.trace[k].path \in DOMAIN tree
              /\ o.trace[k].hash \notin DOMAIN s
              /\ \E d \in ToSet(chunkBuffer(tree[o.trace[k].path])) : o.trace[k].hash = Digest[d]
  <2>1. k \in 1 .. n /\ h(k) \notin DOMAIN s
    BY <1>8
  <2>2. refs[k].path \in DOMAIN tree /\ refs[k].bytes \in ToSet(chunkBuffer(tree[refs[k].path]))
    BY <1>2, <1>3, <2>1
  <2> QED BY <1>6, <2>1, <2>2 DEF h
<1> QED BY <1>10, <1>11, <1>12 DEF fresh, o

-----------------------------------------------------------------------------
(***************************************************************************)
(* The inductive invariant.                                                *)
(***************************************************************************)

\* The manifests are those of the trees, and the store has all their chunks.
EngineInv ==
  /\ store \in Store
  /\ DOMAIN manifests = DOMAIN taken
  /\ \A name \in DOMAIN taken :
       /\ taken[name] \in Tree
       /\ manifests[name] = manifestOf(taken[name])
       /\ HashesIn(taken[name]) \subseteq DOMAIN store

\* A chunk that is on some node is on every node of its placement set.
Everywhere(nodes) ==
  \A h \in Hash, id \in Ids : h \in DOMAIN nodes[id] => \A p \in placement(h) : h \in DOMAIN nodes[p]

ClusterInv ==
  /\ up \in [Ids -> BOOLEAN]
  /\ data \in [Ids -> Store]
  /\ Everywhere(data)

VaultInv == EngineInv /\ ClusterInv

LEMMA NoDataIsStores == NoData \in [Ids -> Store] /\ Everywhere(NoData)
<1>1. <<>> \in [{} -> Chunks] /\ DOMAIN <<>> = {}
  OBVIOUS
<1>2. <<>> \in Store
  BY <1>1, IsStore
<1>3. NoData \in [Ids -> Store]
  BY <1>2 DEF NoData
<1>4. \A id \in Ids : DOMAIN NoData[id] = {}
  BY <1>1 DEF NoData
<1> QED BY <1>3, <1>4 DEF Everywhere

LEMMA PlacementIs ==
  ASSUME NEW h \in Hash
  PROVE  /\ placement(h) \subseteq Ids
         /\ IsFiniteSet(placement(h))
         /\ Cardinality(placement(h)) = REPLICAS
         /\ placement(h) # {}
<1>1. NODES \in Nat /\ REPLICAS \in 1 .. NODES /\ Fnv[h] \in Nat
  BY SizeAssumption, FnvAssumption
<1>2. /\ placement(h) \subseteq Ids
      /\ IsFiniteSet(placement(h))
      /\ Cardinality(placement(h)) = REPLICAS
  BY <1>1, RingPlaces DEF placement, Ids
<1> QED BY <1>1, <1>2, FS_EmptySet

LEMMA DistributedIs ==
  ASSUME NEW nodes \in [Ids -> Store], Everywhere(nodes), NEW s \in Store, NEW H \in SUBSET DOMAIN s
  PROVE  /\ distribute(nodes, s, H) \in [Ids -> Store]
         /\ Everywhere(distribute(nodes, s, H))
         /\ \A h \in H : \A p \in placement(h) : h \in DOMAIN distribute(nodes, s, H)[p]
<1> DEFINE sent(id) == {h \in H : id \in placement(h)}
           D(id) == DOMAIN nodes[id] \cup sent(id)
           new == distribute(nodes, s, H)
<1>1. \A id \in Ids : new[id] = [h \in D(id) |-> IF h \in sent(id) THEN s[h] ELSE nodes[id][h]]
  BY DEF distribute
<1>2. DOMAIN new = Ids /\ \A id \in Ids : DOMAIN new[id] = D(id)
  BY DEF distribute
<1>3. H \subseteq Hash
  BY StoreIs
<1>4. ASSUME NEW id \in Ids PROVE new[id] \in Store
  <2>1. D(id) \in SUBSET Hash
    BY <1>3, StoreIs
  <2>2. ASSUME NEW h \in D(id) PROVE new[id][h] \in Chunks /\ Digest[new[id][h]] = h
    <3>1. CASE h \in sent(id)
      <4>1. h \in DOMAIN s
        BY <3>1
      <4>2. s[h] \in Chunks /\ Digest[s[h]] = h
        BY <4>1, StoreIs
      <4>3. new[id][h] = s[h]
        BY <1>1, <3>1
      <4> HIDE DEF new
      <4> QED BY <4>2, <4>3
    <3>2. CASE h \notin sent(id)
      <4>1. nodes[id] \in Store /\ h \in DOMAIN nodes[id]
        BY <3>2
      <4>2. nodes[id][h] \in Chunks /\ Digest[nodes[id][h]] = h
        BY <4>1, StoreIs
      <4> QED BY <1>1, <3>2, <4>2
    <3> QED BY <3>1, <3>2
  <2>3. new[id] \in [D(id) -> Chunks]
    <3>1. new[id] = [h \in D(id) |-> new[id][h]]
      BY <1>1
    <3> HIDE DEF new, D
    <3> QED BY <2>2, <3>1
  <2> HIDE DEF new, D
  <2> QED BY <2>1, <2>2, <2>3, IsStore
<1>5. new \in [Ids -> Store]
  <2>1. new = [id \in Ids |-> new[id]]
    BY DEF distribute
  <2> HIDE DEF new
  <2> QED BY <1>4, <2>1
<1>6. \A h \in H : \A p \in placement(h) : h \in DOMAIN new[p]
  <2> SUFFICES ASSUME NEW h \in H, NEW p \in placement(h) PROVE h \in DOMAIN new[p]
    OBVIOUS
  <2>1. p \in Ids
    BY <1>3, PlacementIs
  <2> HIDE DEF new
  <2> QED BY <1>2, <2>1
<1>7. Everywhere(new)
  <2> SUFFICES ASSUME NEW h \in Hash, NEW id \in Ids, h \in DOMAIN new[id], NEW p \in placement(h)
               PROVE  h \in DOMAIN new[p]
    BY DEF Everywhere
  <2>1. p \in Ids
    BY PlacementIs
  <2>2. h \in DOMAIN nodes[id] \/ h \in H
    <3> HIDE DEF new
    <3> QED BY <1>2
  <2>3. h \in DOMAIN nodes[id] => h \in DOMAIN nodes[p]
    BY DEF Everywhere
  <2> HIDE DEF new
  <2> QED BY <1>2, <1>6, <2>1, <2>2, <2>3
<1> QED BY <1>5, <1>6, <1>7
\* What Distribute sends is in the store.
LEMMA ManifestIsStored ==
  ASSUME EngineInv, NEW name \in DOMAIN manifests
  PROVE  /\ taken[name] \in Tree
         /\ manifests[name] = manifestOf(taken[name])
         /\ HashesOf(manifests[name]) = HashesIn(taken[name])
         /\ HashesOf(manifests[name]) \subseteq DOMAIN store
         /\ HashesOf(manifests[name]) \subseteq Hash
         /\ IsFiniteSet(HashesOf(manifests[name]))
<1>1. taken[name] \in Tree /\ manifests[name] = manifestOf(taken[name])
      /\ HashesIn(taken[name]) \subseteq DOMAIN store
  BY DEF EngineInv
<1> QED BY <1>1, ManifestHashes

LEMMA InitEstablishes ==
  ASSUME Init
  PROVE  VaultInv
<1>1. <<>> \in [{} -> Chunks] /\ DOMAIN <<>> = {}
  OBVIOUS
<1>2. <<>> \in Store
  BY <1>1, IsStore
<1>3. EngineInv
  BY <1>1, <1>2 DEF Init, EngineInv
<1>4. up \in [Ids -> BOOLEAN]
  BY DEF Init, AllUp
<1> QED BY <1>3, <1>4, NoDataIsStores DEF Init, VaultInv, ClusterInv

\* snapshot only adds to the store, so the snapshots before it stay whole.
LEMMA SnapshotKeeps ==
  ASSUME VaultInv, NEW name \in Name, NEW tree \in Tree, Snapshot(name, tree)
  PROVE  VaultInv'
<1> DEFINE o == snapshot(store, tree)
<1>1. store \in Store
  BY DEF VaultInv, EngineInv
<1>2. o.store \in Store /\ DOMAIN o.store = DOMAIN store \cup HashesIn(tree)
  BY <1>1, SnapshotStoresHashes
<1>3. /\ store' = o.store
      /\ manifests' = replace(manifests, name, manifestOf(tree))
      /\ taken' = replace(taken, name, tree)
  BY DEF Snapshot
<1> HIDE DEF o
<1>4. DOMAIN manifests' = DOMAIN taken' /\ DOMAIN taken' = DOMAIN taken \cup {name}
  BY <1>3 DEF VaultInv, EngineInv, replace
<1>5. ASSUME NEW x \in DOMAIN taken'
      PROVE  /\ taken'[x] \in Tree
             /\ manifests'[x] = manifestOf(taken'[x])
             /\ HashesIn(taken'[x]) \subseteq DOMAIN store'
  <2>1. CASE x = name
    <3>1. taken'[x] = tree /\ manifests'[x] = manifestOf(tree)
      BY <1>3, <2>1 DEF replace
    <3> QED BY <1>2, <1>3, <3>1
  <2>2. CASE x # name
    <3>1. x \in DOMAIN taken /\ x \in DOMAIN manifests
      BY <1>4, <2>2 DEF VaultInv, EngineInv
    <3>2. taken'[x] = taken[x] /\ manifests'[x] = manifests[x]
      BY <1>3, <2>2, <3>1 DEF replace
    <3> QED BY <1>2, <1>3, <3>1, <3>2 DEF VaultInv, EngineInv
  <2> QED BY <2>1, <2>2
<1>6. EngineInv'
  BY <1>2, <1>3, <1>4, <1>5 DEF EngineInv
<1>7. ClusterInv'
  BY DEF VaultInv, ClusterInv, Snapshot, clusterVars, Everywhere
<1> QED BY <1>6, <1>7 DEF VaultInv

LEMMA ClusterStepsKeep ==
  ASSUME VaultInv, NewCluster \/ (\E id \in Ids, flag \in BOOLEAN : SetUp(id, flag)) \/ RecoverAll
  PROVE  VaultInv'
<1>1. EngineInv'
  BY DEF VaultInv, EngineInv, NewCluster, SetUp, RecoverAll, engineVars
<1>2. AllUp \in [Ids -> BOOLEAN]
  BY DEF AllUp
<1>3. CASE NewCluster
  <2>1. up' = AllUp /\ data' = NoData
    BY <1>3 DEF NewCluster
  <2>2. ClusterInv'
    BY <1>2, <2>1, NoDataIsStores DEF ClusterInv
  <2> QED BY <1>1, <2>2 DEF VaultInv
<1>4. CASE (\E id \in Ids, flag \in BOOLEAN : SetUp(id, flag)) \/ RecoverAll
  <2>1. up' \in [Ids -> BOOLEAN] /\ data' = data
    BY <1>2, <1>4 DEF VaultInv, ClusterInv, SetUp, RecoverAll
  <2>2. ClusterInv'
    BY <2>1 DEF VaultInv, ClusterInv
  <2> QED BY <1>1, <2>2 DEF VaultInv
<1> QED BY <1>3, <1>4

\* distribute sends every hash to the whole placement set.
LEMMA DistributeKeeps ==
  ASSUME VaultInv, NEW name \in DOMAIN manifests, Distribute(name)
  PROVE  VaultInv'
<1>1. EngineInv'
  BY DEF VaultInv, EngineInv, Distribute, engineVars
<1>2. store \in Store /\ HashesOf(manifests[name]) \in SUBSET DOMAIN store
  BY ManifestIsStored DEF VaultInv, EngineInv
<1>3. data \in [Ids -> Store] /\ Everywhere(data) /\ up' \in [Ids -> BOOLEAN]
  BY DEF VaultInv, ClusterInv, Distribute
<1>4. data' = distribute(data, store, HashesOf(manifests[name]))
  BY DEF Distribute
<1>5. data' \in [Ids -> Store] /\ Everywhere(data')
  BY <1>2, <1>3, <1>4, DistributedIs
<1>6. ClusterInv'
  BY <1>3, <1>5 DEF ClusterInv
<1> QED BY <1>1, <1>6 DEF VaultInv

\* The store keeps what every snapshot refers to, every byte sequence is under
\* its own hash, and what was distributed is on all the nodes of its placement.
THEOREM Consistency == Spec => []VaultInv
<1>1. Init => VaultInv
  BY InitEstablishes
<1>2. VaultInv /\ [Next]_vars => VaultInv'
  <2> SUFFICES ASSUME VaultInv, [Next]_vars PROVE VaultInv'
    OBVIOUS
  <2>1. CASE \E name \in Name, tree \in Tree : Snapshot(name, tree)
    BY <2>1, SnapshotKeeps
  <2>2. CASE \E name \in DOMAIN manifests : Distribute(name)
    BY <2>2, DistributeKeeps
  <2>3. CASE NewCluster \/ (\E id \in Ids, flag \in BOOLEAN : SetUp(id, flag)) \/ RecoverAll
    BY <2>3, ClusterStepsKeep
  <2>4. CASE UNCHANGED vars
    BY <2>4 DEF VaultInv, EngineInv, ClusterInv, Everywhere, vars
  <2> QED BY <2>1, <2>2, <2>3, <2>4 DEF Next
<1> QED BY <1>1, <1>2, PTL DEF Spec

-----------------------------------------------------------------------------
(***************************************************************************)
(* Restoring from the store.                                               *)
(***************************************************************************)

\* The bytes that the store has under a chunk's hash are the chunk.
LEMMA StoreReturnsChunk ==
  ASSUME NEW s \in Store, NEW d \in Chunks, Digest[d] \in DOMAIN s
  PROVE  s[Digest[d]] = d
<1>1. s[Digest[d]] \in Chunks /\ Digest[s[Digest[d]]] = Digest[d]
  BY StoreIs
<1> QED BY <1>1, DigestAssumption DEF Chunks

LEMMA RestoredFile ==
  ASSUME NEW s \in Store, NEW tree \in Tree, HashesIn(tree) \subseteq DOMAIN s,
         NEW k \in 1 .. Len(Ordered(tree))
  PROVE  /\ restore(s, manifestOf(tree))[k].path = Ordered(tree)[k]
         /\ restore(s, manifestOf(tree))[k].data = tree[Ordered(tree)[k]]
<1> DEFINE path == Ordered(tree)[k]
           cut == chunkBuffer(tree[path])
           m == manifestOf(tree)
           read == [j \in DOMAIN m[k].chunks |-> s[m[k].chunks[j]]]
<1>1. path \in DOMAIN tree
  BY PathsAre
<1>2. /\ k \in DOMAIN m
      /\ m[k].path = path
      /\ DOMAIN m[k].chunks = DOMAIN cut
      /\ \A j \in DOMAIN cut : m[k].chunks[j] = Digest[cut[j]]
  BY ManifestIs
<1>3. cut \in Seq(Chunks) /\ FlattenSeq(cut) = tree[path]
  BY <1>1, TreeChunks
<1>4. restore(s, m)[k].path = m[k].path /\ restore(s, m)[k].data = FlattenSeq(read)
  BY <1>2 DEF restore
<1>5. ASSUME NEW j \in DOMAIN cut PROVE s[m[k].chunks[j]] = cut[j]
  <2>1. cut[j] \in Chunks /\ cut[j] \in ToSet(cut)
    <3> HIDE DEF cut
    <3>1. DOMAIN cut = 1 .. Len(cut) /\ \A i \in 1 .. Len(cut) : cut[i] \in Chunks
      BY <1>3, LenProperties
    <3> QED BY <3>1 DEF ToSet
  <2>2. Digest[cut[j]] \in HashesIn(tree)
    BY <1>1, <2>1 DEF HashesIn, Chunks
  <2>3. s[Digest[cut[j]]] = cut[j]
    BY <2>1, <2>2, StoreReturnsChunk
  <2> QED BY <1>2, <2>3
<1>6. read = cut
  <2> HIDE DEF cut, m
  <2>1. cut = [j \in DOMAIN cut |-> cut[j]]
    <3>1. cut \in [1 .. Len(cut) -> Chunks]
      BY <1>3
    <3> QED BY <3>1
  <2> QED BY <1>2, <1>5, <2>1
<1> HIDE DEF read, cut, m
<1> QED BY <1>2, <1>3, <1>4, <1>6 DEF m

\* The files come back under their paths, in whatever order they were taken.
LEMMA TreeRestores ==
  ASSUME NEW s \in Store, NEW tree \in Tree, HashesIn(tree) \subseteq DOMAIN s
  PROVE  treesEqual(FilesOf(tree), restore(s, manifestOf(tree)))
<1> DEFINE paths == Ordered(tree)
           n == Len(paths)
           a == FilesOf(tree)
           b == restore(s, manifestOf(tree))
           named(f) == {k \in DOMAIN b : b[k].path = f.path}
<1>1. n \in Nat /\ DOMAIN paths = 1 .. n /\ Lists(paths, DOMAIN tree) /\ DOMAIN tree \subseteq Nat
      /\ \A k \in 1 .. n : paths[k] \in Nat
  BY PathsAre, TreeAssumption
<1>2. DOMAIN b = 1 .. n
  BY ManifestIs DEF restore
<1>3. \A k \in 1 .. n : b[k].path = paths[k] /\ b[k].data = tree[paths[k]]
  BY RestoredFile
<1>4. /\ DOMAIN a = 1 .. n
      /\ \A k \in 1 .. n : /\ a[k].path = paths[(n - k) + 1]
                           /\ a[k].data = tree[paths[(n - k) + 1]]
  <2>1. a = [k \in DOMAIN Reverse(paths) |-> [path |-> Reverse(paths)[k], data |-> tree[Reverse(paths)[k]]]]
    BY DEF FilesOf
  <2>2. DOMAIN Reverse(paths) = 1 .. n /\ \A k \in 1 .. n : Reverse(paths)[k] = paths[(n - k) + 1]
    BY DEF Reverse
  <2> HIDE DEF paths, n, a
  <2> QED BY <2>1, <2>2
<1>5. Len(a) = n /\ Len(b) = n
  <2> DEFINE A == {a[k] : k \in 1 .. n}
             B == {b[k] : k \in 1 .. n}
  <2>1. a = [k \in 1 .. n |-> a[k]]
    <3>1. a = [k \in DOMAIN a |-> a[k]]
      BY DEF FilesOf
    <3> HIDE DEF a, n
    <3> QED BY <1>4, <3>1
  <2>2. b = [k \in 1 .. n |-> b[k]]
    <3>1. b = [k \in DOMAIN b |-> b[k]]
      BY DEF restore
    <3> HIDE DEF b, n
    <3> QED BY <1>2, <3>1
  <2> HIDE DEF a, b, n
  <2>3. a \in [1 .. n -> A] /\ b \in [1 .. n -> B]
    BY <2>1, <2>2
  <2> HIDE DEF A, B
  <2>4. a \in Seq(A) /\ b \in Seq(B)
    BY <1>1, <2>3
  <2> QED BY <1>1, <1>2, <1>4, <2>4, LenProperties
<1> HIDE DEF paths, n, a, b
<1>6. ASSUME NEW k \in DOMAIN a
      PROVE  named(a[k]) # {} /\ b[Max(named(a[k]))].data = a[k].data
  <2> DEFINE i == (n - k) + 1
  <2>1. i \in 1 .. n /\ k \in 1 .. n
    BY <1>1, <1>4
  <2>2. a[k].path = paths[i] /\ a[k].data = tree[paths[i]]
    BY <1>4, <2>1
  <2> HIDE DEF i
  <2>3. ASSUME NEW j \in 1 .. n, paths[j] = paths[i] PROVE j = i
    <3>1. ~(j < i) /\ ~(i < j)
      BY <1>1, <2>1, <2>3 DEF Lists, n
    <3> QED BY <1>1, <2>1, <3>1
  <2>4. named(a[k]) = {i}
    BY <1>2, <1>3, <2>1, <2>2, <2>3
  <2>5. Max(named(a[k])) = i
    BY <1>1, <2>1, <2>4, MaxIn
  <2> HIDE DEF named
  <2> QED BY <1>3, <2>1, <2>2, <2>4, <2>5
<1> QED BY <1>5, <1>6 DEF treesEqual, a, b

\* Whatever was taken or replaced since, every snapshot comes back as the tree
\* it was taken of, and verify finds no bad chunk.
THEOREM SnapshotsRestore == Spec => []RestoreReturnsTheTree
<1>1. VaultInv => RestoreReturnsTheTree
  <2> SUFFICES ASSUME VaultInv PROVE RestoreReturnsTheTree
    OBVIOUS
  <2>1. EngineInv /\ store \in Store
    BY DEF VaultInv, EngineInv
  <2>2. Referenced \subseteq DOMAIN store
    BY <2>1, ManifestIsStored DEF Referenced
  <2>3. verify(store, {manifests[name] : name \in DOMAIN manifests}).bad = {}
    <3> DEFINE ms == {manifests[name] : name \in DOMAIN manifests}
               hs == UNION {HashesOf(m) : m \in ms}
    <3>1. hs = Referenced
      BY DEF Referenced
    <3>2. \A h \in hs : Digest[store[h]] = h
      BY <2>1, <2>2, <3>1, StoreIs
    <3>3. verify(store, ms).bad = {h \in hs : Digest[store[h]] # h}
      BY DEF verify
    <3> HIDE DEF ms, hs
    <3>4. verify(store, ms).bad = {}
      BY <3>2, <3>3
    <3> QED BY <3>4 DEF ms
  <2>4. \A name \in DOMAIN manifests : treesEqual(FilesOf(taken[name]), restore(store, manifests[name]))
    BY <2>1, ManifestIsStored, TreeRestores
  <2> QED BY <2>2, <2>3, <2>4 DEF RestoreReturnsTheTree
<1> QED BY <1>1, Consistency, PTL

\* What a snapshot reports as new was not in the store, is reported once, and
\* is no chunk of a file that an earlier snapshot has with the same content.
THEOREM NewContent == Spec => OnlyNewContentIsWritten
<1> DEFINE fresh == newChunks(result'.trace)
           tree  == taken'[result'.name]
           chunk(k) == result'.trace[k]
           A == /\ {chunk(k).hash : k \in fresh} = DOMAIN store' \ DOMAIN store
                /\ \A j, k \in fresh : chunk(j).hash = chunk(k).hash => j = k
                /\ \A k \in fresh, name \in DOMAIN taken :
                     chunk(k).path \in DOMAIN taken[name] =>
                       taken[name][chunk(k).path] # tree[chunk(k).path]
<1>1. VaultInv /\ [Next]_vars => [A]_engineVars
  <2> SUFFICES ASSUME VaultInv, [Next]_vars PROVE A \/ UNCHANGED engineVars
    OBVIOUS
  <2>1. CASE \E name \in Name, t \in Tree : Snapshot(name, t)
    <3>1. PICK x \in Name, t \in Tree : Snapshot(x, t)
      BY <2>1
    <3> DEFINE o == snapshot(store, t)
    <3>2. store' = o.store /\ result' = [name |-> x, trace |-> o.trace] /\ taken' = replace(taken, x, t)
      BY <3>1 DEF Snapshot
    <3>3. store \in Store /\ \A name \in DOMAIN taken : HashesIn(taken[name]) \subseteq DOMAIN store
      BY DEF VaultInv, EngineInv
    <3> DEFINE new == newChunks(o.trace)
    <3>4. /\ {o.trace[k].hash : k \in new} = DOMAIN o.store \ DOMAIN store
          /\ \A j, k \in new : o.trace[j].hash = o.trace[k].hash => j = k
          /\ \A k \in new :
               /\ o.trace[k].path \in DOMAIN t
               /\ o.trace[k].hash \notin DOMAIN store
               /\ \E d \in ToSet(chunkBuffer(t[o.trace[k].path])) : o.trace[k].hash = Digest[d]
      BY <3>3, FreshChunks
    <3>5. taken'[x] = t
      BY <3>2 DEF replace
    <3>6. result'.trace = o.trace /\ result'.name = x
      BY <3>2
    <3>7. ASSUME NEW k \in new, NEW name \in DOMAIN taken,
                 o.trace[k].path \in DOMAIN taken[name],
                 taken[name][o.trace[k].path] = t[o.trace[k].path]
          PROVE  FALSE
      <4> DEFINE path == o.trace[k].path
      <4>1. PICK d \in ToSet(chunkBuffer(t[path])) : o.trace[k].hash = Digest[d]
        BY <3>4
      <4>2. path \in DOMAIN t /\ o.trace[k].hash \notin DOMAIN store
        BY <3>4
      <4>3. Digest[d] \in Hash
        BY <4>2, TreeAssumption
      <4>4. d \in ToSet(chunkBuffer(taken[name][path]))
        BY <3>7, <4>1
      <4>5. Digest[d] \in HashesIn(taken[name])
        BY <3>7, <4>3, <4>4 DEF HashesIn
      <4> QED BY <3>3, <4>1, <4>2, <4>5
    <3> HIDE DEF new, o
    <3>8. A
      <4>1. fresh = new /\ tree = t /\ \A k : chunk(k) = o.trace[k]
        BY <3>5, <3>6 DEF new
      <4>2. /\ {chunk(k).hash : k \in fresh} = DOMAIN store' \ DOMAIN store
            /\ \A j, k \in fresh : chunk(j).hash = chunk(k).hash => j = k
        <5> HIDE DEF fresh, chunk
        <5> QED BY <3>2, <3>4, <4>1
      <4>3. \A k \in fresh, name \in DOMAIN taken :
              chunk(k).path \in DOMAIN taken[name] => taken[name][chunk(k).path] # tree[chunk(k).path]
        <5> HIDE DEF fresh, chunk, tree
        <5> QED BY <3>7, <4>1
      <4> QED BY <4>2, <4>3
    <3> QED BY <3>8
  <2>2. CASE ~(\E name \in Name, t \in Tree : Snapshot(name, t))
    BY <2>2 DEF Next, NewCluster, Distribute, SetUp, RecoverAll, engineVars, vars
  <2> QED BY <2>1, <2>2
<1> QED BY <1>1, Consistency, PTL DEF Spec, OnlyNewContentIsWritten

-----------------------------------------------------------------------------
(***************************************************************************)
(* Restoring from the cluster.                                             *)
(***************************************************************************)

\* get finds a node exactly if the chunk is available.
LEMMA GetIs ==
  ASSUME NEW flags, NEW nodes, NEW h \in Hash
  PROVE  /\ get(flags, nodes, h) = -1 <=> ~chunkAvailable(flags, nodes, h)
         /\ get(flags, nodes, h) # -1 =>
              get(flags, nodes, h) \in Ids /\ h \in DOMAIN nodes[get(flags, nodes, h)]
<1> DEFINE replicas == {id \in placement(h) : flags[id] /\ h \in DOMAIN nodes[id]}
<1>1. replicas \subseteq Ids /\ Ids \subseteq Nat
  BY PlacementIs, SizeAssumption DEF Ids
<1>2. replicas = {} <=> ~chunkAvailable(flags, nodes, h)
  BY DEF chunkAvailable
<1>3. get(flags, nodes, h) = IF replicas = {} THEN -1 ELSE Least(replicas)
  BY DEF get
<1>4. replicas # {} => Least(replicas) \in replicas
  <2> HIDE DEF replicas
  <2> QED BY <1>1, LeastIn
<1>5. \A id \in Nat : id # -1
  OBVIOUS
<1>6. replicas # {} => Least(replicas) \in Ids /\ h \in DOMAIN nodes[Least(replicas)] /\ Least(replicas) # -1
  BY <1>1, <1>4, <1>5
<1> HIDE DEF replicas
<1> QED BY <1>2, <1>3, <1>6

\* No node returns bytes that do not reproduce the hash, so a fetch fails only
\* for want of the chunk.
LEMMA FetchIs ==
  ASSUME NEW flags, NEW nodes \in [Ids -> Store], NEW h \in Hash
  PROVE  /\ Fetch(flags, nodes, h).hash = h
         /\ Fetch(flags, nodes, h).node = get(flags, nodes, h)
         /\ Fetch(flags, nodes, h).ok <=> chunkAvailable(flags, nodes, h)
         /\ ~chunkAvailable(flags, nodes, h) =>
              Fetch(flags, nodes, h) = [hash |-> h, node |-> -1, ok |-> FALSE]
<1> DEFINE node == get(flags, nodes, h)
           valid == IF node = -1 THEN FALSE ELSE Digest[nodes[node][h]] = h
<1>1. Fetch(flags, nodes, h) = [hash |-> h, node |-> node, ok |-> valid]
  BY DEF Fetch
<1>2. valid <=> chunkAvailable(flags, nodes, h)
  <2>1. CASE node = -1
    <3>1. ~chunkAvailable(flags, nodes, h)
      BY <2>1, GetIs
    <3> QED BY <2>1, <3>1
  <2>2. CASE node # -1
    <3>1. chunkAvailable(flags, nodes, h) /\ node \in Ids /\ h \in DOMAIN nodes[node]
      BY <2>2, GetIs
    <3>2. nodes[node] \in Store
      BY <3>1
    <3>3. Digest[nodes[node][h]] = h
      BY <3>1, <3>2, StoreIs
    <3>4. valid
      BY <2>2, <3>3
    <3> QED BY <3>1, <3>4
  <2> QED BY <2>1, <2>2
<1>3. ~chunkAvailable(flags, nodes, h) => node = -1 /\ ~valid
  BY GetIs
<1> HIDE DEF node, valid
<1>4. /\ Fetch(flags, nodes, h).hash = h
      /\ Fetch(flags, nodes, h).node = node
      /\ Fetch(flags, nodes, h).ok = valid
  BY <1>1
<1>5. valid \in BOOLEAN
  BY DEF valid
<1>6. ~valid => valid = FALSE
  BY <1>5
<1> QED BY <1>1, <1>2, <1>3, <1>4, <1>6 DEF node

\* The unique chunks of a manifest, in the order of their hashes.
LEMMA UniqueAre ==
  ASSUME NEW m, HashesOf(m) \subseteq Hash, IsFiniteSet(HashesOf(m))
  PROVE  /\ Lists(uniqueChunks(m), HashesOf(m))
         /\ Len(uniqueChunks(m)) \in Nat
         /\ DOMAIN uniqueChunks(m) = 1 .. Len(uniqueChunks(m))
         /\ \A i \in 1 .. Len(uniqueChunks(m)) : uniqueChunks(m)[i] \in HashesOf(m)
         /\ \A h \in HashesOf(m) : \E i \in 1 .. Len(uniqueChunks(m)) : uniqueChunks(m)[i] = h
<1> DEFINE H == HashesOf(m)
           u == uniqueChunks(m)
<1>1. H \in SUBSET Nat
  BY FnvAssumption
<1>2. Lists(u, H)
  BY <1>1, SortedLists DEF uniqueChunks
<1> HIDE DEF H, u
<1>3. u \in Seq(H) /\ \A h \in H : \E i \in 1 .. Len(u) : u[i] = h
  BY <1>2 DEF Lists
<1> QED BY <1>2, <1>3, LenProperties DEF H, u

\* The loop's first failure is at the first chunk that is not available; every
\* event before it is ok.
Reports(r, u, flags, nodes) ==
  /\ r.ok <=> \A i \in 1 .. Len(u) : chunkAvailable(flags, nodes, u[i])
  /\ r.events \in Seq({Fetch(flags, nodes, u[i]) : i \in 1 .. Len(u)})
  /\ Len(r.events) \in 0 .. Len(u)
  /\ r.ok => Len(r.events) = Len(u)
  /\ ~r.ok => /\ Len(r.events) # 0
              /\ ~chunkAvailable(flags, nodes, u[Len(r.events)])
  /\ \A i \in 1 .. Len(r.events) :
       /\ r.events[i] = Fetch(flags, nodes, u[i])
       /\ i < Len(r.events) => chunkAvailable(flags, nodes, u[i])

LEMMA RestoreReports ==
  ASSUME NEW flags, NEW nodes \in [Ids -> Store],
         NEW m, HashesOf(m) \subseteq Hash, IsFiniteSet(HashesOf(m))
  PROVE  Reports(clusterRestore(flags, nodes, m), uniqueChunks(m), flags, nodes)
<1> DEFINE u == uniqueChunks(m)
           n == Len(u)
           fetch(i) == Fetch(flags, nodes, u[i])
           there(i) == chunkAvailable(flags, nodes, u[i])
           events == [i \in DOMAIN u |-> fetch(i)]
           failed == {i \in DOMAIN u : ~events[i].ok}
           E == {fetch(i) : i \in 1 .. n}
           r == clusterRestore(flags, nodes, m)
           f == Least(failed)
<1>1. n \in Nat /\ DOMAIN u = 1 .. n /\ \A i \in 1 .. n : u[i] \in Hash
  BY UniqueAre
<1>2. r = IF failed = {} THEN [ok |-> TRUE, events |-> events]
          ELSE [ok |-> FALSE, events |-> SubSeq(events, 1, f)]
  BY DEF clusterRestore
<1>3. \A i \in 1 .. n : events[i] = fetch(i) /\ (events[i].ok <=> there(i))
  BY <1>1, FetchIs
<1>4. failed = {i \in 1 .. n : ~there(i)}
  BY <1>1, <1>3
<1>5. events \in [1 .. n -> E]
  BY <1>1
<1> HIDE DEF u, n, fetch, E, events
<1>6. events \in Seq(E) /\ Len(events) = n
  BY <1>1, <1>5
<1>7. CASE failed = {}
  <2>1. r.ok = TRUE /\ r.events = events
    BY <1>2, <1>7
  <2>2. \A i \in 1 .. n : there(i)
    BY <1>4, <1>7
  <2>3. n \in 0 .. n
    BY <1>1
  <2> HIDE DEF r, there
  <2> QED BY <1>1, <1>3, <1>6, <2>1, <2>2, <2>3 DEF Reports, E, fetch, n, there, r, u
<1>8. CASE failed # {}
  <2>1. r.ok = FALSE /\ r.events = SubSeq(events, 1, f)
    <3>1. r = [ok |-> FALSE, events |-> SubSeq(events, 1, f)]
      BY <1>2, <1>8
    <3> HIDE DEF r, f, failed
    <3> QED BY <3>1
  <2>2. f \in failed /\ \A i \in failed : f <= i
    <3>1. failed \subseteq Nat
      BY <1>4
    <3> HIDE DEF failed
    <3> QED BY <1>8, <3>1, LeastIn
  <2>3. f \in 1 .. n /\ ~there(f) /\ \A i \in 1 .. f : i < f => there(i)
    <3>1. f \in 1 .. n /\ ~there(f)
      BY <1>4, <2>2
    <3>2. ASSUME NEW i \in 1 .. f, i < f PROVE there(i)
      <4>1. i \in 1 .. n /\ ~(f <= i)
        BY <1>1, <3>1, <3>2
      <4> QED BY <1>4, <2>2, <4>1
    <3> QED BY <3>1, <3>2
  <2> HIDE DEF f, failed, r, there
  <2>4. /\ SubSeq(events, 1, f) \in Seq(E)
        /\ Len(SubSeq(events, 1, f)) = f
        /\ \A i \in 1 .. f : SubSeq(events, 1, f)[i] = events[i]
    BY <1>1, <1>6, <2>3
  <2>5. \A i \in 1 .. f : i \in 1 .. n
    BY <1>1, <2>3
  <2>6. f # 0 /\ f \in 0 .. n
    BY <1>1, <2>3
  <2>7. /\ r.events \in Seq(E) /\ Len(r.events) = f /\ ~r.ok
        /\ \A i \in 1 .. f : r.events[i] = fetch(i)
    BY <1>3, <2>1, <2>4, <2>5
  <2> QED BY <2>3, <2>6, <2>7 DEF Reports, E, fetch, n, there, r, u
<1> QED BY <1>7, <1>8

\* The restore has verified the chunks that come before the first lost one.
LEMMA VerifiedCounts ==
  ASSUME NEW flags, NEW nodes \in [Ids -> Store],
         NEW m, HashesOf(m) \subseteq Hash, IsFiniteSet(HashesOf(m))
  PROVE  Verified(clusterRestore(flags, nodes, m)) =
           Cardinality({h \in HashesOf(m) :
                          \A l \in HashesOf(m) : ~chunkAvailable(flags, nodes, l) => h < l})
<1> DEFINE H == HashesOf(m)
           u == uniqueChunks(m)
           n == Len(u)
           there(h) == chunkAvailable(flags, nodes, h)
           r == clusterRestore(flags, nodes, m)
           c == Len(r.events)
           I == {i \in DOMAIN r.events : r.events[i].ok}
           G == {h \in H : \A l \in H : ~there(l) => h < l}
           f == [i \in I |-> u[i]]
<1>1. n \in Nat /\ (\A i \in 1 .. n : u[i] \in H) /\ (\A h \in H : \E i \in 1 .. n : u[i] = h)
  BY UniqueAre
<1>2. H \subseteq Nat /\ H \subseteq Hash
  BY FnvAssumption
<1>3. \A i, j \in 1 .. n : i < j => u[i] < u[j]
  BY UniqueAre DEF Lists
<1>4. Reports(r, u, flags, nodes)
  BY RestoreReports
<1> HIDE DEF r, u, H
<1>5. /\ c \in 0 .. n
      /\ DOMAIN r.events = 1 .. c
      /\ r.ok => c = n
      /\ ~r.ok => c # 0 /\ ~there(u[c])
      /\ \A i \in 1 .. c : i < c => there(u[i])
  BY <1>4, LenProperties DEF Reports
<1>6. \A i \in 1 .. c : r.events[i] = Fetch(flags, nodes, u[i]) /\ i \in 1 .. n
  BY <1>1, <1>4, <1>5 DEF Reports
<1>7. \A i \in 1 .. c : r.events[i].ok <=> there(u[i])
  <2> SUFFICES ASSUME NEW i \in 1 .. c PROVE r.events[i].ok <=> there(u[i])
    OBVIOUS
  <2>1. u[i] \in Hash /\ r.events[i] = Fetch(flags, nodes, u[i])
    BY <1>1, <1>2, <1>6
  <2>2. Fetch(flags, nodes, u[i]).ok <=> there(u[i])
    BY <2>1, FetchIs
  <2> QED BY <2>1, <2>2
<1>8. I = {i \in 1 .. c : there(u[i])}
  BY <1>5, <1>7
<1> HIDE DEF I, there, c, n
<1>9. ASSUME NEW i \in I PROVE u[i] \in G
  <2>1. i \in 1 .. c /\ i \in 1 .. n /\ there(u[i]) /\ u[i] \in H
    BY <1>1, <1>6, <1>8
  <2>2. ASSUME NEW l \in H, ~there(l) PROVE u[i] < l
    <3>1. PICK j \in 1 .. n : u[j] = l
      BY <1>1
    <3>2. ~(j < i)
      <4>1. SUFFICES ASSUME j < i PROVE FALSE
        OBVIOUS
      <4>2. j \in 1 .. c /\ j < c
        BY <1>1, <1>5, <2>1, <4>1
      <4> QED BY <1>5, <2>2, <3>1, <4>2
    <3>3. j # i
      BY <2>1, <2>2, <3>1
    <3>4. i < j
      BY <1>1, <2>1, <3>2, <3>3
    <3> QED BY <1>3, <2>1, <3>1, <3>4
  <2> QED BY <2>1, <2>2
<1>10. ASSUME NEW h \in G PROVE \E i \in I : u[i] = h
  <2>1. h \in H /\ h \in Nat
    BY <1>2
  <2>2. PICK i \in 1 .. n : u[i] = h
    BY <1>1, <2>1
  <2>3. there(h)
    BY <2>1
  <2>4. i \in 1 .. c
    <3>1. CASE c = n
      BY <2>2, <3>1
    <3>2. CASE c # n
      <4>1. c \in 1 .. n /\ ~there(u[c])
        BY <1>1, <1>5, <3>2
      <4>2. u[c] \in H /\ u[c] \in Nat
        BY <1>1, <1>2, <4>1
      <4>3. h < u[c]
        BY <4>1, <4>2
      <4>4. ~(u[c] < h)
        BY <2>1, <4>2, <4>3
      <4>5. ~(c < i)
        BY <1>3, <2>2, <4>1, <4>4
      <4> QED BY <1>1, <2>2, <4>1, <4>5
    <3> QED BY <3>1, <3>2
  <2> QED BY <1>8, <2>2, <2>3, <2>4
<1>11. ASSUME NEW i \in I, NEW j \in I, u[i] = u[j] PROVE i = j
  <2>1. i \in 1 .. n /\ j \in 1 .. n /\ u[i] \in Nat
    BY <1>1, <1>2, <1>6, <1>8
  <2>2. ~(i < j) /\ ~(j < i)
    BY <1>3, <1>11, <2>1
  <2> QED BY <1>1, <2>1, <2>2
<1>12. IsFiniteSet(I)
  <2>1. c \in Int /\ I \in SUBSET (1 .. c)
    BY <1>1, <1>5, <1>8
  <2>2. IsFiniteSet(1 .. c)
    BY <2>1, FS_Interval
  <2> QED BY <2>1, <2>2, FS_Subset
<1>13. f \in Bijection(I, G)
  <2> HIDE DEF G
  <2>1. f \in [I -> G]
    BY <1>9
  <2>2. \A i, j \in I : f[i] = f[j] => i = j
    BY <1>11
  <2>3. \A h \in G : \E i \in I : f[i] = h
    BY <1>10
  <2> HIDE DEF f
  <2> QED BY <2>1, <2>2, <2>3 DEF Bijection, Injection, Surjection, IsInjective
<1>14. Cardinality(I) = Cardinality(G)
  <2> HIDE DEF f, G
  <2>1. ExistsBijection(I, G)
    BY <1>13 DEF ExistsBijection
  <2> QED BY <1>12, <2>1, FS_Bijection
<1>15. Verified(r) = Cardinality(I)
  BY DEF Verified, I
<1> QED BY <1>14, <1>15 DEF r, H, there

-----------------------------------------------------------------------------
(***************************************************************************)
(* What the restores of a distributed snapshot depend on.                  *)
(***************************************************************************)

\* Where the copies are everywhere, a chunk is available while one of its nodes
\* is up.
LEMMA AvailableIs ==
  ASSUME NEW flags, NEW nodes \in [Ids -> Store], Everywhere(nodes), NEW h \in Hash,
         \E id \in Ids : h \in DOMAIN nodes[id]
  PROVE  chunkAvailable(flags, nodes, h) <=> \E id \in placement(h) : flags[id]
BY DEF Everywhere, chunkAvailable

\* REPLICAS nodes hold a chunk, so they cannot all be among fewer.
LEMMA TooFewToLose ==
  ASSUME NEW D \in SUBSET Ids, NEW h \in Hash, Cardinality(D) < REPLICAS
  PROVE  \E id \in placement(h) : id \notin D
<1> SUFFICES ASSUME placement(h) \subseteq D PROVE FALSE
  OBVIOUS
<1>1. NODES \in Nat /\ REPLICAS \in Nat
  BY SizeAssumption
<1>2. IsFiniteSet(Ids)
  <2>1. 0 \in Int /\ NODES - 1 \in Int
    BY <1>1
  <2> QED BY <2>1, FS_Interval DEF Ids
<1>3. IsFiniteSet(D)
  BY <1>2, FS_Subset
<1>4. Cardinality(placement(h)) <= Cardinality(D)
  BY <1>3, FS_Subset
<1>5. Cardinality(D) \in Nat
  BY <1>3, FS_CardinalityType
<1> QED BY <1>1, <1>4, <1>5, PlacementIs

\* A restore of a snapshot that is on the cluster fails exactly for a chunk whose
\* replicas are all down, so never while fewer than REPLICAS nodes are; and it
\* has verified the chunks before the first such.
THEOREM RestoreMeetsFailures == Spec => []RestoreFollowsFailures
<1>1. VaultInv => RestoreFollowsFailures
  <2> SUFFICES ASSUME VaultInv, NEW name \in OnCluster
               PROVE  LET m    == manifests[name]
                          lost == {h \in HashesOf(m) : \A id \in placement(h) : ~up[id]}
                          r    == clusterRestore(up, data, m)
                      IN  /\ r.ok <=> lost = {}
                          /\ Cardinality({id \in Ids : ~up[id]}) < REPLICAS => r.ok
                          /\ Verified(r) = Cardinality({h \in HashesOf(m) : \A l \in lost : h < l})
    BY DEF RestoreFollowsFailures
  <2> DEFINE m == manifests[name]
             H == HashesOf(m)
             lost == {h \in H : \A id \in placement(h) : ~up[id]}
             r == clusterRestore(up, data, m)
             there(h) == chunkAvailable(up, data, h)
             down == {id \in Ids : ~up[id]}
             first == {h \in H : \A l \in H : ~there(l) => h < l}
  <2>1. /\ name \in DOMAIN manifests
        /\ \A h \in H : \E id \in Ids : h \in DOMAIN data[id]
    BY DEF OnCluster
  <2>2. H \subseteq Hash /\ IsFiniteSet(H)
    BY <2>1, ManifestIsStored DEF VaultInv
  <2>3. data \in [Ids -> Store] /\ Everywhere(data)
    BY DEF VaultInv, ClusterInv
  <2>4. \A h \in H : there(h) <=> \E id \in placement(h) : up[id]
    BY <2>1, <2>2, <2>3, AvailableIs
  <2>5. \A h \in H : h \in lost <=> ~there(h)
    BY <2>4
  <2>6. r.ok <=> lost = {}
    <3>1. r.ok <=> \A i \in 1 .. Len(uniqueChunks(m)) : there(uniqueChunks(m)[i])
      BY <2>2, <2>3, RestoreReports DEF Reports
    <3>2. r.ok <=> \A h \in H : there(h)
      BY <2>2, <3>1, UniqueAre
    <3> HIDE DEF there, H, r
    <3> QED BY <2>5, <3>2
  <2>7. Cardinality(down) < REPLICAS => r.ok
    <3> SUFFICES ASSUME Cardinality(down) < REPLICAS PROVE lost = {}
      BY <2>6
    <3>1. ASSUME NEW h \in H PROVE h \notin lost
      <4>1. PICK id \in placement(h) : id \notin down
        BY <2>2, TooFewToLose
      <4>2. id \in Ids
        BY <2>2, PlacementIs
      <4> QED BY <4>1, <4>2
    <3> QED BY <3>1
  <2>8. Verified(r) = Cardinality({h \in H : \A l \in lost : h < l})
    <3>1. first = {h \in H : \A l \in lost : h < l}
      <4> HIDE DEF there, H
      <4> QED BY <2>5
    <3> QED BY <2>2, <2>3, <3>1, VerifiedCounts
  <2> QED BY <2>6, <2>7, <2>8
<1> QED BY <1>1, Consistency, PTL

\* The plan is complete exactly if the restore behind it succeeds, and names the
\* node that each chunk then comes from.
THEOREM PlanAndRestoreAgree == Spec => []PlanForetellsRestore
<1>1. VaultInv => PlanForetellsRestore
  <2> SUFFICES ASSUME VaultInv, NEW name \in DOMAIN manifests
               PROVE  LET m    == manifests[name]
                          plan == planRestore(up, data, uniqueChunks(m))
                          r    == clusterRestore(up, data, m)
                      IN  /\ r.ok <=> \A i \in DOMAIN plan : plan[i].available
                          /\ \A i \in DOMAIN r.events :
                               r.events[i].hash = plan[i].hash /\ r.events[i].node = plan[i].node
    BY DEF PlanForetellsRestore
  <2> DEFINE m == manifests[name]
             u == uniqueChunks(m)
             n == Len(u)
             plan == planRestore(up, data, u)
             r == clusterRestore(up, data, m)
             there(h) == chunkAvailable(up, data, h)
             node(h) == get(up, data, h)
  <2>1. HashesOf(m) \subseteq Hash /\ IsFiniteSet(HashesOf(m))
    BY ManifestIsStored DEF VaultInv
  <2>2. n \in Nat /\ DOMAIN u = 1 .. n /\ \A i \in 1 .. n : u[i] \in Hash
    BY <2>1, UniqueAre
  <2>3. data \in [Ids -> Store]
    BY DEF VaultInv, ClusterInv
  <2>4. Reports(r, u, up, data)
    BY <2>1, <2>3, RestoreReports
  <2>5. plan = [i \in DOMAIN u |->
                  [hash |-> u[i], node |-> node(u[i]), available |-> node(u[i]) # -1]]
    BY DEF planRestore
  <2> HIDE DEF plan, r, u, n
  <2>6. \A i \in 1 .. n : node(u[i]) # -1 <=> there(u[i])
    BY <2>2, GetIs
  <2> HIDE DEF node
  <2>7. DOMAIN plan = 1 .. n /\ \A i \in 1 .. n :
          /\ plan[i].hash = u[i] /\ plan[i].node = node(u[i])
          /\ plan[i].available <=> node(u[i]) # -1
    BY <2>2, <2>5
  <2>8. r.ok <=> \A i \in 1 .. n : there(u[i])
    BY <2>4 DEF Reports, n
  <2>9. \A i \in DOMAIN r.events : i \in 1 .. n /\ r.events[i] = Fetch(up, data, u[i])
    <3>1. DOMAIN r.events = 1 .. Len(r.events) /\ Len(r.events) \in 0 .. n
      BY <2>4, LenProperties DEF Reports, n
    <3>2. \A i \in 1 .. Len(r.events) : r.events[i] = Fetch(up, data, u[i])
      BY <2>4 DEF Reports
    <3> QED BY <2>2, <3>1, <3>2
  <2>10. ASSUME NEW i \in DOMAIN r.events
         PROVE  r.events[i].hash = plan[i].hash /\ r.events[i].node = plan[i].node
    <3>1. u[i] \in Hash /\ i \in 1 .. n /\ r.events[i] = Fetch(up, data, u[i])
      BY <2>2, <2>9
    <3>2. Fetch(up, data, u[i]).hash = u[i] /\ Fetch(up, data, u[i]).node = node(u[i])
      BY <2>3, <3>1, FetchIs DEF node
    <3> QED BY <2>7, <3>1, <3>2
  <2> HIDE DEF there
  <2>11. r.ok <=> \A i \in DOMAIN plan : plan[i].available
    BY <2>6, <2>7, <2>8
  <2> QED BY <2>10, <2>11 DEF plan, r, u
<1> QED BY <1>1, Consistency, PTL

-----------------------------------------------------------------------------
(***************************************************************************)
(* The self-check.                                                         *)
(***************************************************************************)

\* A fresh cluster after distribution holds the whole snapshot, everywhere.
LEMMA DistributedHasAll ==
  ASSUME VaultInv, NEW name \in DOMAIN manifests
  PROVE  /\ Distributed(manifests[name]) \in [Ids -> Store]
         /\ \A flags : \A h \in HashesOf(manifests[name]) :
              chunkAvailable(flags, Distributed(manifests[name]), h)
                <=> \E id \in placement(h) : flags[id]
<1> DEFINE H == HashesOf(manifests[name])
           nodes == Distributed(manifests[name])
<1>1. store \in Store /\ H \in SUBSET DOMAIN store /\ H \subseteq Hash
  BY ManifestIsStored DEF VaultInv, EngineInv
<1>2. nodes = distribute(NoData, store, H)
  BY DEF Distributed
<1> HIDE DEF nodes
<1>3. /\ nodes \in [Ids -> Store] /\ Everywhere(nodes)
      /\ \A h \in H : \A p \in placement(h) : h \in DOMAIN nodes[p]
  BY <1>1, <1>2, NoDataIsStores, DistributedIs
<1>4. \A h \in H : \E id \in Ids : h \in DOMAIN nodes[id]
  BY <1>1, <1>3, PlacementIs
<1>5. \A flags : \A h \in H : chunkAvailable(flags, nodes, h) <=> \E id \in placement(h) : flags[id]
  BY <1>1, <1>3, <1>4, AvailableIs
<1> QED BY <1>3, <1>5 DEF nodes

LEMMA SurvivesFailure ==
  ASSUME REPLICAS > 1, VaultInv, NEW name \in DOMAIN manifests, NEW node \in Ids
  PROVE  survivedFailureOk(name, node)
<1> DEFINE m == manifests[name]
           H == HashesOf(m)
           flags == [AllUp EXCEPT ![node] = FALSE]
           nodes == Distributed(m)
           u == uniqueChunks(m)
           r == clusterRestore(flags, nodes, m)
<1>1. H \subseteq Hash /\ IsFiniteSet(H)
  BY ManifestIsStored DEF VaultInv
<1>2. \A id \in Ids : id # node => flags[id]
  BY DEF AllUp
<1> HIDE DEF flags
<1>3. ASSUME NEW h \in H PROVE chunkAvailable(flags, nodes, h)
  <2>1. {node} \in SUBSET Ids /\ Cardinality({node}) < REPLICAS
    <3>1. Cardinality({node}) = 1
      BY FS_Singleton
    <3> QED BY <3>1
  <2>2. PICK id \in placement(h) : id \notin {node}
    BY <1>1, <2>1, TooFewToLose
  <2>3. id \in Ids
    BY <1>1, PlacementIs
  <2> QED BY <1>2, <2>2, <2>3, DistributedHasAll
<1>4. nodes \in [Ids -> Store]
  BY DistributedHasAll
<1> HIDE DEF nodes
<1>5. \A i \in 1 .. Len(u) : chunkAvailable(flags, nodes, u[i])
  BY <1>1, <1>3, UniqueAre
<1>6. r.ok
  BY <1>1, <1>4, <1>5, RestoreReports DEF Reports
<1>7. Verified(r) = Len(u)
  <2> DEFINE G == {h \in H : \A l \in H : ~chunkAvailable(flags, nodes, l) => h < l}
  <2>1. G = H
    BY <1>3
  <2>2. Verified(r) = Cardinality(G)
    BY <1>1, <1>4, VerifiedCounts
  <2>3. Len(u) = Cardinality(H)
    BY <1>1, UniqueAre DEF Lists
  <2> HIDE DEF G, r, u, H
  <2> QED BY <2>1, <2>2, <2>3
<1>8. treesEqual(FilesOf(taken[name]), restore(store, m))
  BY ManifestIsStored, TreeRestores DEF VaultInv, EngineInv
<1> QED BY <1>6, <1>7, <1>8 DEF survivedFailureOk, flags, nodes

LEMMA FailsCleanly ==
  ASSUME VaultInv, NEW name \in DOMAIN manifests, HashesOf(manifests[name]) # {}
  PROVE  cleanFailureOk(name)
<1> DEFINE m == manifests[name]
           H == HashesOf(m)
           u == uniqueChunks(m)
           n == Len(u)
           first == u[1]
           flags == [id \in Ids |-> id \notin placement(first)]
           nodes == Distributed(m)
           r == clusterRestore(flags, nodes, m)
<1>1. H \subseteq Hash /\ IsFiniteSet(H)
  BY ManifestIsStored DEF VaultInv
<1>2. n \in Nat /\ (\A h \in H : \E i \in 1 .. n : u[i] = h) /\ \A i \in 1 .. n : u[i] \in H
  BY <1>1, UniqueAre
<1>3. 1 \in 1 .. n
  BY <1>2
<1>4. first \in H /\ first \in Hash
  BY <1>1, <1>2, <1>3
<1>5. \A id \in placement(first) : ~flags[id]
  BY <1>4, PlacementIs
<1> HIDE DEF flags
<1>6. ~chunkAvailable(flags, nodes, first) /\ nodes \in [Ids -> Store]
  BY <1>4, <1>5, DistributedHasAll
<1>7. Reports(r, u, flags, nodes)
  BY <1>1, <1>6, RestoreReports
<1> HIDE DEF nodes, r, u
<1>8. ~r.ok
  BY <1>3, <1>6, <1>7 DEF Reports
<1>9. Len(r.events) = 1
  <2> DEFINE c == Len(r.events)
  <2>1. c \in 0 .. n /\ c # 0
    BY <1>7, <1>8 DEF Reports
  <2> HIDE DEF n, c
  <2>2. 1 \in 1 .. c
    BY <1>2, <2>1
  <2>3. ~(1 < c)
    BY <1>6, <1>7, <2>2 DEF Reports, c
  <2>4. c = 1
    BY <1>2, <2>1, <2>3
  <2> QED BY <2>4 DEF c
<1>10. r.events[1] = Fetch(flags, nodes, first)
  BY <1>7, <1>9 DEF Reports
<1>11. Last(r.events) = [hash |-> first, node |-> -1, ok |-> FALSE]
  BY <1>4, <1>6, <1>9, <1>10, FetchIs DEF Last
<1> QED BY <1>8, <1>11 DEF cleanFailureOk, flags, nodes, r, u

\* With more than one replica, as the page has it, the self-check reports success
\* for every snapshot with a chunk, whichever node it takes down.
THEOREM SelfCheckSucceeds ==
  ASSUME REPLICAS > 1
  PROVE  Spec => []SelfCheckPasses
<1>1. VaultInv => SelfCheckPasses
  BY SurvivesFailure, FailsCleanly DEF SelfCheckPasses, VaultInv, EngineInv
<1> QED BY <1>1, Consistency, PTL

-----------------------------------------------------------------------------
(***************************************************************************)
(* The padding of sha256.ts, by arithmetic on lengths.                     *)
(***************************************************************************)

\* The padded length fits whole blocks, and no more than needed.
LEMMA TotalFits ==
  ASSUME NEW n \in Nat
  PROVE  /\ total(n) \in Nat
         /\ total(n) % 64 = 0
         /\ n + 9 <= total(n)
         /\ total(n) < n + 9 + 64
BY SMTT(30) DEF total

\* Messages of every length are padded to whole blocks.
THEOREM BlocksAreWholeHolds == BlocksAreWhole
BY TotalFits, MessageAssumption DEF BlocksAreWhole

\* Lengths whose bits can be counted exactly.
Exact(n) == n \in Nat /\ n < 8796093022208

\* The eight length bytes determine the length.
LEMMA LengthBytesDetermineLength ==
  ASSUME NEW x, Exact(x), NEW y, Exact(y),
         \A k \in 1 .. 8 : lengthBytes(x)[k] = lengthBytes(y)[k]
  PROVE  x = y
PROOF
<1> DEFINE lo(n) == bitLen(n)
           hi(n) == (lo(n) \div 65536) \div 65536
<1>1. /\ hi(x) % 256 = hi(y) % 256
      /\ (hi(x) \div 256) % 256 = (hi(y) \div 256) % 256
      /\ (hi(x) \div 65536) % 256 = (hi(y) \div 65536) % 256
      /\ (hi(x) \div 16777216) % 256 = (hi(y) \div 16777216) % 256
      /\ lo(x) % 256 = lo(y) % 256
      /\ (lo(x) \div 256) % 256 = (lo(y) \div 256) % 256
      /\ (lo(x) \div 65536) % 256 = (lo(y) \div 65536) % 256
      /\ (lo(x) \div 16777216) % 256 = (lo(y) \div 16777216) % 256
  BY SMT DEF lengthBytes
<1>2. lo(x) \in Nat /\ lo(y) \in Nat /\ lo(x) < 70368744177664 /\ lo(y) < 70368744177664
  BY SMT DEF bitLen, Exact
<1> HIDE DEF lo
<1>3. ASSUME NEW u \in Nat, u < 4294967296, NEW v \in Nat, v < 4294967296,
             u % 256 = v % 256, (u \div 256) % 256 = (v \div 256) % 256,
             (u \div 65536) % 256 = (v \div 65536) % 256,
             (u \div 16777216) % 256 = (v \div 16777216) % 256
      PROVE  u = v
  BY <1>3, SMTT(90)
<1>4. hi(x) = hi(y)
  <2>1. hi(x) \in Nat /\ hi(x) < 4294967296 /\ hi(y) \in Nat /\ hi(y) < 4294967296
    BY <1>2, SMT
  <2> QED  BY <2>1, <1>1, <1>3
<1>5. lo(x) = lo(y)
  <2> DEFINE low(n) == lo(n) - 4294967296 * hi(n)
  <2>1. ASSUME NEW n, lo(n) \in Nat
        PROVE  /\ low(n) \in Nat
               /\ low(n) < 4294967296
               /\ low(n) % 256 = lo(n) % 256
               /\ (low(n) \div 256) % 256 = (lo(n) \div 256) % 256
               /\ (low(n) \div 65536) % 256 = (lo(n) \div 65536) % 256
               /\ (low(n) \div 16777216) % 256 = (lo(n) \div 16777216) % 256
    BY <2>1, SMTT(30)
  <2>2. low(x) = low(y)
    <3> HIDE DEF low
    <3> QED  BY <1>1, <1>2, <1>3, <2>1, SMTT(30)
  <2> QED  BY <1>2, <1>4, <2>2, SMT
<1> QED  BY <1>5, SMT DEF lo, bitLen, Exact

\* No two messages, of whatever lengths, are padded alike.
THEOREM PaddingIsInjectiveHolds == PaddingIsInjective
PROOF
<1> SUFFICES ASSUME NEW a \in Message, NEW b \in Message, padded(a) = padded(b)
             PROVE  a = b
  BY DEF PaddingIsInjective
<1>1. a \in Seq(Byte) /\ Len(a) \in Nat /\ b \in Seq(Byte) /\ Len(b) \in Nat
  <2>1. a \in Seq(Byte) /\ b \in Seq(Byte)
    BY MessageAssumption, SMT
  <2> QED  BY <2>1
<1>2. Exact(Len(a)) /\ Exact(Len(b))
  <2>1. Len(a) \div 1048576 < 8388608 /\ Len(b) \div 1048576 < 8388608
    BY MessageAssumption, SMT
  <2> QED  BY <1>1, <2>1, SMT DEF Exact
<1>3. /\ total(Len(a)) \in Nat /\ Len(a) + 9 <= total(Len(a))
      /\ total(Len(b)) \in Nat /\ Len(b) + 9 <= total(Len(b))
  BY <1>1, TotalFits
<1>4. total(Len(a)) = total(Len(b))
  <2>1. 1 .. total(Len(a)) = 1 .. total(Len(b))
    BY DEF padded
  <2> QED  BY <2>1, <1>3
<1>5. ASSUME NEW m \in Seq(Byte), Len(m) \in Nat, total(Len(m)) \in Nat,
             Len(m) + 9 <= total(Len(m)), NEW k \in 1 .. 8
      PROVE  padded(m)[total(Len(m)) - 8 + k] = lengthBytes(Len(m))[k]
  <2> DEFINE j == total(Len(m)) - 8 + k
  <2>1. /\ j \in 1 .. total(Len(m)) /\ ~(j <= Len(m)) /\ j # Len(m) + 1
        /\ j > total(Len(m)) - 8 /\ j - (total(Len(m)) - 8) = k
    BY <1>5
  <2> QED  BY <2>1 DEF padded
<1>6. Len(a) = Len(b)
  <2>1. ASSUME NEW k \in 1 .. 8  PROVE  lengthBytes(Len(a))[k] = lengthBytes(Len(b))[k]
    <3>1. padded(a)[total(Len(a)) - 8 + k] = lengthBytes(Len(a))[k]
      BY <1>1, <1>3, <1>5
    <3>2. padded(b)[total(Len(b)) - 8 + k] = lengthBytes(Len(b))[k]
      BY <1>1, <1>3, <1>5
    <3> QED  BY <3>1, <3>2, <1>4
  <2> QED  BY <2>1, <1>1, <1>2, LengthBytesDetermineLength
<1>7. ASSUME NEW j \in 1 .. Len(a)  PROVE  a[j] = b[j]
  <2>1. padded(a)[j] = a[j] /\ padded(b)[j] = b[j]
    BY <1>1, <1>3, <1>6 DEF padded
  <2> QED  BY <2>1
<1> QED  BY <1>1, <1>6, <1>7

\* The padding is sound for messages of every length.
THEOREM PaddingIsSoundHolds == PaddingIsSound
BY BlocksAreWholeHolds, PaddingIsInjectiveHolds DEF PaddingIsSound
=============================================================================
