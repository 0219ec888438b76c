---------------------------- MODULE EnvelopeProofs ----------------------------
(***************************************************************************)
(* What the envelope of a report does for reports of any length, keys of   *)
(* any size and any settings: the server reads what the agent sent, or     *)
(* turns the request down. The loops over blocks are treated like those    *)
(* over batches, with the help of Loops.                                   *)
(***************************************************************************)
EXTENDS Envelope, SequenceTheorems, TLAPS

Join(s, t) == s \o t

L == INSTANCE Loops WITH Step <- Join
----------------------------------------------------------------------------
(* Induction from one on, and the arithmetic of blocks *)

LEMMA FromOne ==
    ASSUME NEW n \in Nat \ {0}, NEW S, 1 \in S, \A i \in 2 .. n : i - 1 \in S => i \in S
    PROVE  \A i \in 1 .. n : i \in S
<1>. DEFINE T == {i \in 0 .. n : i >= 1 => i \in S}
<1>1. 0 \in T
  OBVIOUS
<1>2. ASSUME NEW i \in 1 .. n, i - 1 \in T PROVE i \in T
  BY <1>2
<1>3. 0 .. n \subseteq T
  <2>. HIDE DEF T
  <2>. QED
    BY <1>1, <1>2, L!UpTo
<1>. QED
  BY <1>3

\* The k-th place of the j-th of i blocks.
LEMMA Places ==
    ASSUME NEW s \in Nat, NEW i \in Nat \ {0}, NEW j \in 1 .. i, NEW k \in 1 .. s
    PROVE  /\ (j - 1) * s + k \in 1 .. i * s
           /\ j # i => (j - 1) * s + k <= (i - 1) * s
           /\ j = i => ~((j - 1) * s + k <= (i - 1) * s)
           /\ i * s = (i - 1) * s + s /\ (i - 1) * s \in Nat
<1>1. (j - 1) * s \in Nat /\ (i - 1) * s \in Nat /\ i * s = (i - 1) * s + s
  OBVIOUS
<1>2. (j - 1) * s + k <= j * s /\ j * s <= i * s
  OBVIOUS
<1>3. j # i => j * s <= (i - 1) * s
  OBVIOUS
<1>. QED
  BY <1>1, <1>2, <1>3
\* A function on 1 .. n is a sequence.
LEMMA IsSeq ==
    ASSUME NEW S, NEW n \in Nat, NEW f, f = [i \in 1 .. n |-> f[i]], \A i \in 1 .. n : f[i] \in S
    PROVE  f \in Seq(S) /\ Len(f) = n
<1>1. f \in [1 .. n -> S]
  OBVIOUS
<1>. QED
  BY <1>1
----------------------------------------------------------------------------
(* Putting pieces together *)

\* FlattenSeq joins one piece after the other. It is a recursive function, so that there
\* is one has to be shown: the loop that joins the pieces to the empty sequence makes it.
IsJoining(f, seqs, n) ==
    f = [i \in 1 .. n |-> IF i = 1 THEN seqs[i] ELSE f[i - 1] \o seqs[i]]

LEMMA Joining ==
    ASSUME NEW M, NEW n \in Nat \ {0}, NEW seqs \in Seq(Seq(M)), Len(seqs) = n
    PROVE  \E f : /\ f[1] = seqs[1] /\ f[n] = FlattenSeq(seqs)
                  /\ \A i \in 2 .. n : f[i] = f[i - 1] \o seqs[i]
<1>1. DOMAIN seqs = 1 .. n /\ seqs[1] \in Seq(M)
  OBVIOUS
<1>2. PICK f : L!IsRun(f, <<>>, seqs, n)
  BY <1>1, L!LoopRun
<1>3. f[0] = <<>> /\ \A i \in 1 .. n : f[i] = f[i - 1] \o seqs[i]
  BY <1>2 DEF L!IsRun, Join
<1>4. f[1] = seqs[1]
  <2>0. 1 \in 1 .. n /\ 1 - 1 = 0
    OBVIOUS
  <2>1. f[1] = f[1 - 1] \o seqs[1]
    BY <1>3, <2>0
  <2>2. f[1] = <<>> \o seqs[1]
    BY <1>3, <2>0, <2>1
  <2>. QED
    BY <1>1, <2>2, ConcatEmptySeq
<1>. DEFINE g == [i \in 1 .. n |-> f[i]]
<1>5. IsJoining(g, seqs, n)
  <2>1. ASSUME NEW i \in 1 .. n PROVE f[i] = IF i = 1 THEN seqs[i] ELSE g[i - 1] \o seqs[i]
    <3>1. i # 1 => g[i - 1] = f[i - 1]
      OBVIOUS
    <3>. HIDE DEF g
    <3>. QED
      BY <1>3, <1>4, <3>1
  <2>2. g = [i \in 1 .. n |-> IF i = 1 THEN seqs[i] ELSE g[i - 1] \o seqs[i]]
    BY <2>1
  <2>. HIDE DEF g
  <2>. QED
    BY <2>2 DEF IsJoining
<1>. DEFINE h == CHOOSE c : IsJoining(c, seqs, n)
<1>6. FlattenSeq(seqs) = h[n]
  BY DEF FlattenSeq, IsJoining
<1>7. IsJoining(h, seqs, n)
  BY <1>5
<1>8. \A i \in 1 .. n : h[i] = IF i = 1 THEN seqs[i] ELSE h[i - 1] \o seqs[i]
  <2>. HIDE DEF h
  <2>. QED
    BY <1>7 DEF IsJoining
<1>. HIDE DEF h
<1>9. h[1] = seqs[1]
  <2>1. 1 \in 1 .. n
    OBVIOUS
  <2>. QED
    BY <1>8, <2>1
<1>10. ASSUME NEW i \in 2 .. n PROVE h[i] = h[i - 1] \o seqs[i]
  <2>1. i \in 1 .. n /\ i # 1
    OBVIOUS
  <2>. QED
    BY <1>8, <2>1
<1>. QED
  BY <1>6, <1>9, <1>10

\* The pieces of a sequence, each from where the last one ended, make the sequence.
ArePieces(M, w, n, e, seqs) ==
    /\ w \in Seq(M) /\ n \in Nat \ {0} /\ e \in [0 .. n -> 0 .. Len(w)]
    /\ e[0] = 0 /\ e[n] = Len(w) /\ \A i \in 1 .. n : e[i - 1] <= e[i]
    /\ seqs \in Seq(Seq(M)) /\ Len(seqs) = n
    /\ \A i \in 1 .. n : seqs[i] = SubSeq(w, e[i - 1] + 1, e[i])

LEMMA PiecesJoined ==
    ASSUME NEW M, NEW w, NEW n, NEW e, NEW seqs, ArePieces(M, w, n, e, seqs)
    PROVE  FlattenSeq(seqs) = w
<1>1. PICK f : /\ f[1] = seqs[1] /\ f[n] = FlattenSeq(seqs)
               /\ \A i \in 2 .. n : f[i] = f[i - 1] \o seqs[i]
  <2>1. seqs \in Seq(Seq(M)) /\ n \in Nat \ {0} /\ Len(seqs) = n
    BY DEF ArePieces
  <2>. QED
    BY <2>1, Joining
<1>2. w \in Seq(M) /\ Len(w) \in Nat /\ n \in Nat \ {0} /\ e[0] = 0 /\ e[n] = Len(w)
  BY DEF ArePieces
<1>3. \A i \in 0 .. n : e[i] \in 0 .. Len(w)
  BY DEF ArePieces
<1>4. \A i \in 1 .. n : e[i - 1] <= e[i] /\ seqs[i] = SubSeq(w, e[i - 1] + 1, e[i])
  BY DEF ArePieces
<1>. DEFINE P(i) == f[i] = SubSeq(w, 1, e[i])
            S    == {i \in 1 .. n : P(i)}
<1>5. P(1)
  <2>1. 1 \in 1 .. n /\ 1 - 1 = 0 /\ e[0] + 1 = 1
    BY <1>2
  <2>2. seqs[1] = SubSeq(w, e[1 - 1] + 1, e[1])
    BY <1>4, <2>1
  <2>. QED
    BY <1>1, <2>1, <2>2
<1>6. ASSUME NEW i \in 2 .. n, P(i - 1) PROVE P(i)
  <2>1. i \in 1 .. n /\ i \in 0 .. n /\ i - 1 \in 0 .. n
    BY <1>2
  <2>2. e[i - 1] \in 0 .. Len(w) /\ e[i] \in 0 .. Len(w)
    BY <1>3, <2>1
  <2>3. e[i - 1] <= e[i] /\ seqs[i] = SubSeq(w, e[i - 1] + 1, e[i])
    BY <1>4, <2>1
  <2>4. f[i] = SubSeq(w, 1, e[i - 1]) \o SubSeq(w, e[i - 1] + 1, e[i])
    BY <1>1, <1>6, <2>3
  <2>5. /\ 1 \in 1 .. Len(w) + 1
        /\ e[i - 1] \in 1 - 1 .. Len(w)
        /\ e[i] \in e[i - 1] .. Len(w)
    BY <1>2, <2>2, <2>3
  <2>. QED
    BY <1>2, <2>4, <2>5, ConcatAdjacentSubSeq
<1>7. P(n)
  <2>1. 1 \in S
    BY <1>2, <1>5
  <2>2. ASSUME NEW i \in 2 .. n, i - 1 \in S PROVE i \in S
    <3>. HIDE DEF P
    <3>1. P(i - 1) /\ i \in 1 .. n
      BY <1>2, <2>2
    <3>. QED
      BY <1>6, <3>1
  <2>3. \A i \in 1 .. n : i \in S
    <3>. HIDE DEF S
    <3>1. \A i \in 2 .. n : i - 1 \in S => i \in S
      BY <2>2
    <3>. QED
      BY <1>2, <2>1, <3>1, FromOne
  <2>. QED
    BY <1>2, <2>3
<1>. QED
  BY <1>1, <1>2, <1>7, SubSeqFull

\* Pieces of one length make a sequence that has them at multiples of that length.
AreBlocks(M, s, n, seqs) ==
    /\ s \in Nat /\ n \in Nat \ {0} /\ seqs \in Seq(Seq(M)) /\ Len(seqs) = n
    /\ \A i \in 1 .. n : Len(seqs[i]) = s

LEMMA BlocksJoined ==
    ASSUME NEW M, NEW s, NEW n, NEW seqs, AreBlocks(M, s, n, seqs)
    PROVE  /\ FlattenSeq(seqs) \in Seq(M)
           /\ Len(FlattenSeq(seqs)) = n * s
           /\ \A i \in 1 .. n : \A k \in 1 .. s : FlattenSeq(seqs)[(i - 1) * s + k] = seqs[i][k]
<1>. USE DEF AreBlocks
<1>1. PICK f : /\ f[1] = seqs[1] /\ f[n] = FlattenSeq(seqs)
               /\ \A i \in 2 .. n : f[i] = f[i - 1] \o seqs[i]
  BY Joining
<1>. DEFINE P(i) == /\ f[i] \in Seq(M) /\ Len(f[i]) = i * s
                    /\ \A j \in 1 .. i : \A k \in 1 .. s : f[i][(j - 1) * s + k] = seqs[j][k]
            S    == {i \in 1 .. n : P(i)}
<1>2. P(1)
  <2>1. seqs[1] \in Seq(M) /\ Len(seqs[1]) = s /\ 1 * s = s
    OBVIOUS
  <2>2. ASSUME NEW j \in 1 .. 1, NEW k \in 1 .. s PROVE j = 1 /\ (j - 1) * s + k = k
    OBVIOUS
  <2>. QED
    BY <1>1, <2>1, <2>2
<1>3. ASSUME NEW i \in 2 .. n, P(i - 1) PROVE P(i)
  <2>1. seqs[i] \in Seq(M) /\ Len(seqs[i]) = s /\ i \in Nat \ {0}
    OBVIOUS
  <2>2. f[i] = f[i - 1] \o seqs[i] /\ f[i - 1] \in Seq(M) /\ Len(f[i - 1]) = (i - 1) * s
    BY <1>1, <1>3
  <2>3. /\ f[i] \in Seq(M) /\ Len(f[i]) = Len(f[i - 1]) + Len(seqs[i])
        /\ \A p \in 1 .. Len(f[i - 1]) + Len(seqs[i]) :
              f[i][p] = IF p <= Len(f[i - 1]) THEN f[i - 1][p] ELSE seqs[i][p - Len(f[i - 1])]
    <3>1. PICK a, b, c : a = f[i - 1] /\ b = seqs[i] /\ c = f[i]
      OBVIOUS
    <3>2. a \in Seq(M) /\ b \in Seq(M) /\ c = a \o b
      BY <2>1, <2>2, <3>1
    <3>3. /\ c \in Seq(M) /\ Len(c) = Len(a) + Len(b)
          /\ \A p \in 1 .. Len(a) + Len(b) :
                c[p] = IF p <= Len(a) THEN a[p] ELSE b[p - Len(a)]
      BY <3>2, ConcatProperties
    <3>. QED
      BY <3>1, <3>3
  <2>4. i * s = (i - 1) * s + s
    BY <2>1
  <2>5. ASSUME NEW j \in 1 .. i, NEW k \in 1 .. s PROVE f[i][(j - 1) * s + k] = seqs[j][k]
    <3>1. PICK p : p = (j - 1) * s + k
      OBVIOUS
    <3>2. /\ p \in 1 .. (i - 1) * s + s
          /\ j # i => p <= (i - 1) * s
          /\ j = i => ~(p <= (i - 1) * s)
      BY <2>1, <2>4, <3>1, Places
    <3>3. f[i][p] = IF p <= (i - 1) * s THEN f[i - 1][p] ELSE seqs[i][p - (i - 1) * s]
      BY <2>1, <2>2, <2>3, <3>2
    <3>4. CASE j = i
      <4>1. p - (i - 1) * s = k
        BY <2>1, <3>1, <3>4
      <4>. QED
        BY <3>1, <3>2, <3>3, <3>4, <4>1
    <3>5. CASE j # i
      <4>1. j \in 1 .. i - 1
        BY <3>5
      <4>. QED
        BY <1>3, <3>1, <3>2, <3>3, <3>5, <4>1
    <3>. QED
      BY <3>4, <3>5
  <2>. QED
    BY <2>1, <2>2, <2>3, <2>4, <2>5
<1>4. P(n)
  <2>1. 1 \in S
    BY <1>2
  <2>2. ASSUME NEW i \in 2 .. n, i - 1 \in S PROVE i \in S
    <3>. HIDE DEF P
    <3>1. P(i - 1) /\ i \in 1 .. n
      BY <2>2
    <3>. QED
      BY <1>3, <3>1
  <2>3. \A i \in 1 .. n : i \in S
    <3>. HIDE DEF S
    <3>1. \A i \in 2 .. n : i - 1 \in S => i \in S
      BY <2>2
    <3>. QED
      BY <2>1, <3>1, FromOne
  <2>. QED
    BY <2>3
<1>. QED
  BY <1>1, <1>4
----------------------------------------------------------------------------
(* Blocks of a message *)

LEMMA Times == \A a, b \in Nat : a * b \in Nat /\ (a # 0 => b <= a * b)
  OBVIOUS

\* The turns of the loop cover the message, and each has something to do.
LEMMA ChunksCover ==
    ASSUME NEW len \in Nat, NEW step \in Nat \ {0}
    PROVE  /\ Chunks(len, step) \in Nat
           /\ len <= Chunks(len, step) * step
           /\ \A i \in 1 .. Chunks(len, step) : (i - 1) * step < len
           /\ len = 0 => Chunks(len, step) = 0
<1>. DEFINE n == Chunks(len, step)
<1>1. n \in Nat /\ n * step <= len + step - 1 /\ len + step - 1 < n * step + step
  BY DEF Chunks
<1>2. ASSUME NEW i \in 1 .. n PROVE (i - 1) * step < len
  <2>1. i * step <= n * step /\ i * step = (i - 1) * step + step
    BY <1>1
  <2>2. (i - 1) * step \in Nat /\ n * step \in Nat
    BY <1>1
  <2>. QED
    BY <1>1, <2>1, <2>2
<1>3. len = 0 => n = 0
  <2>1. n # 0 => step <= n * step
    BY <1>1, Times
  <2>2. n * step \in Nat
    BY <1>1, Times
  <2>. QED
    BY <1>1, <2>1, <2>2
<1>4. len <= n * step
  <2>1. n * step \in Nat
    BY <1>1, Times
  <2>. QED
    BY <1>1, <2>1
<1>. QED
  BY <1>1, <1>2, <1>3, <1>4

\* Whole blocks are taken one by one.
LEMMA ChunksOfBlocks ==
    ASSUME NEW n \in Nat, NEW step \in Nat \ {0} PROVE Chunks(n * step, step) = n
<1>1. (n * step + (step - 1)) \div step = n
  OBVIOUS
<1>2. n * step \in Nat
  OBVIOUS
<1>3. n * step + step - 1 = n * step + (step - 1)
  BY <1>2
<1>. QED
  BY <1>1, <1>3 DEF Chunks

LEMMA Smaller == ASSUME NEW a \in Int, NEW b \in Int PROVE Min({a, b}) = IF a <= b THEN a ELSE b
  BY DEF Min

\* Where the i-th chunk ends.
End(msg, i, step) == IF i * step <= Len(msg) THEN i * step ELSE Len(msg)

LEMMA ChunkIs ==
    ASSUME NEW M, NEW msg \in Seq(M), NEW step \in Nat \ {0},
           NEW i \in 1 .. Chunks(Len(msg), step)
    PROVE  /\ Chunk(msg, i, step) = SubSeq(msg, (i - 1) * step + 1, End(msg, i, step))
           /\ (i - 1) * step = End(msg, i - 1, step)
           /\ End(msg, i, step) \in 0 .. Len(msg)
           /\ (i - 1) * step < End(msg, i, step)
           /\ Chunk(msg, i, step) \in Seq(M)
<1>1. Len(msg) \in Nat /\ i \in Nat \ {0} /\ (i - 1) * step < Len(msg)
  <2>1. Len(msg) \in Nat
    OBVIOUS
  <2>2. Chunks(Len(msg), step) \in Nat /\ (i - 1) * step < Len(msg)
    BY <2>1, ChunksCover
  <2>. QED
    BY <2>1, <2>2
<1>2. i * step \in Nat /\ (i - 1) * step \in Nat /\ i * step = (i - 1) * step + step
  BY <1>1
<1>3. Chunk(msg, i, step) = SubSeq(msg, (i - 1) * step + 1, End(msg, i, step))
  <2>1. Min({i * step, Len(msg)}) = End(msg, i, step)
    BY <1>1, <1>2, Smaller DEF End
  <2>. QED
    BY <2>1 DEF Chunk
<1>4. /\ (i - 1) * step = End(msg, i - 1, step)
      /\ End(msg, i, step) \in 0 .. Len(msg)
      /\ (i - 1) * step < End(msg, i, step)
  BY <1>1, <1>2 DEF End
<1>5. Chunk(msg, i, step) \in Seq(M)
  <2>1. \A j \in (i - 1) * step + 1 .. End(msg, i, step) : msg[j] \in M
    BY <1>1, <1>2, <1>4
  <2>. QED
    BY <1>2, <1>3, <1>4, <2>1, SubSeqProperties
<1>. QED
  BY <1>3, <1>4, <1>5

\* The chunks of a message make the message.
LEMMA ChunksJoined ==
    ASSUME NEW M, NEW msg \in Seq(M), NEW step \in Nat \ {0}
    PROVE  FlattenSeq([i \in 1 .. Chunks(Len(msg), step) |-> Chunk(msg, i, step)]) = msg
<1>1. PICK n : n = Chunks(Len(msg), step)
  OBVIOUS
<1>2. PICK seqs : seqs = [i \in 1 .. n |-> Chunk(msg, i, step)]
  OBVIOUS
<1>3. PICK e : e = [i \in 0 .. n |-> End(msg, i, step)]
  OBVIOUS
<1>4. Len(msg) \in Nat /\ n \in Nat /\ Len(msg) <= n * step /\ n * step \in Nat
  <2>1. Len(msg) \in Nat
    OBVIOUS
  <2>2. n \in Nat /\ Len(msg) <= n * step
    BY <1>1, <2>1, ChunksCover
  <2>. QED
    BY <2>1, <2>2
<1>5. seqs \in Seq(Seq(M)) /\ Len(seqs) = n
  <2>1. \A i \in 1 .. n : Chunk(msg, i, step) \in Seq(M)
    BY <1>1, ChunkIs
  <2>. QED
    BY <1>2, <1>4, <2>1, IsSeq
<1>6. CASE n = 0
  <2>1. Len(msg) = 0
    BY <1>4, <1>6
  <2>2. seqs = <<>> /\ msg = <<>>
    BY <1>5, <1>6, <2>1
  <2>3. FlattenSeq(<<>>) = <<>>
    BY Len(<<>>) = 0 DEF FlattenSeq
  <2>. QED
    BY <1>1, <1>2, <2>2, <2>3
<1>7. CASE n # 0
  <2>1. \A i \in 0 .. n : e[i] = End(msg, i, step)
    BY <1>3
  <2>2. e[0] = 0 /\ e[n] = Len(msg)
    <3>1. End(msg, 0, step) = 0 /\ End(msg, n, step) = Len(msg)
      BY <1>4 DEF End
    <3>. QED
      BY <1>4, <2>1, <3>1
  <2>3. ASSUME NEW i \in 1 .. n
        PROVE  /\ e[i - 1] <= e[i] /\ e[i] \in 0 .. Len(msg)
               /\ seqs[i] = SubSeq(msg, e[i - 1] + 1, e[i])
    <3>1. i - 1 \in 0 .. n /\ i \in 0 .. n
      BY <1>4
    <3>2. /\ Chunk(msg, i, step) = SubSeq(msg, (i - 1) * step + 1, End(msg, i, step))
          /\ (i - 1) * step = End(msg, i - 1, step)
          /\ End(msg, i, step) \in 0 .. Len(msg)
          /\ (i - 1) * step < End(msg, i, step)
      BY <1>1, ChunkIs
    <3>3. e[i - 1] = (i - 1) * step /\ e[i] = End(msg, i, step)
      BY <2>1, <3>1, <3>2
    <3>4. (i - 1) * step \in Int
      BY <1>4
    <3>. QED
      BY <1>2, <1>4, <3>2, <3>3, <3>4
  <2>4. \A i \in 0 .. n : e[i] \in 0 .. Len(msg)
    <3>1. ASSUME NEW i \in 0 .. n PROVE e[i] \in 0 .. Len(msg)
      <4>1. i = 0 \/ i \in 1 .. n
        BY <1>4
      <4>. QED
        BY <1>4, <2>2, <2>3, <4>1
    <3>. QED
      BY <3>1
  <2>5. e \in [0 .. n -> 0 .. Len(msg)]
    BY <1>3, <2>4
  <2>6. FlattenSeq(seqs) = msg
    <3>1. n \in Nat \ {0}
      BY <1>4, <1>7
    <3>2. \A i \in 1 .. n : e[i - 1] <= e[i]
      BY <2>3
    <3>3. \A i \in 1 .. n : seqs[i] = SubSeq(msg, e[i - 1] + 1, e[i])
      BY <2>3
    <3>. QED
      <4>1. ArePieces(M, msg, n, e, seqs)
        BY <1>5, <2>2, <2>5, <3>1, <3>2, <3>3 DEF ArePieces
      <4>. QED
        BY <4>1, PiecesJoined
  <2>. QED
    BY <1>1, <1>2, <2>6
<1>. QED
  BY <1>6, <1>7
----------------------------------------------------------------------------
(* RSA-OAEP *)

BlockBytes(M, k) == {CipherByte(k, m, j) : m \in Seq(M), j \in 1 .. KeySize}

LEMMA BlockIs ==
    ASSUME NEW M, NEW m \in Seq(M), NEW k
    PROVE  /\ Block(k, m) \in Seq(BlockBytes(M, k)) /\ Len(Block(k, m)) = KeySize
           /\ Block(k, m)[1] = CipherByte(k, m, 1)
<1>1. KeySize \in Nat \ {0}
  BY EnvelopeAssumption
<1>2. \A j \in 1 .. KeySize : Block(k, m)[j] = CipherByte(k, m, j)
  BY DEF Block
<1>3. Block(k, m) = [j \in 1 .. KeySize |-> Block(k, m)[j]]
  BY DEF Block
<1>4. \A j \in 1 .. KeySize : CipherByte(k, m, j) \in BlockBytes(M, k)
  BY DEF BlockBytes
<1>. QED
  BY <1>1, <1>2, <1>3, <1>4, IsSeq

\* An encrypted message is one block for every chunk.
LEMMA Encrypted ==
    ASSUME NEW M, NEW msg \in Seq(M), NEW k, NEW n, n = Chunks(Len(msg), KeySize - Overhead)
    PROVE  /\ n \in Nat /\ (n = 0 <=> msg = <<>>)
           /\ EncryptOAEP(k, msg) \in Seq(BlockBytes(M, k))
           /\ Len(EncryptOAEP(k, msg)) = n * KeySize
           /\ \A i \in 1 .. n : \A j \in 1 .. KeySize :
                EncryptOAEP(k, msg)[(i - 1) * KeySize + j] =
                    Block(k, Chunk(msg, i, KeySize - Overhead))[j]
<1>1. KeySize \in Nat \ {0} /\ KeySize - Overhead \in Nat \ {0}
  BY EnvelopeAssumption
<1>2. PICK step \in Nat \ {0} : step = KeySize - Overhead
  BY <1>1
<1>3. Len(msg) \in Nat /\ n \in Nat /\ (n = 0 <=> msg = <<>>)
  <2>1. Len(msg) \in Nat /\ (Len(msg) = 0 <=> msg = <<>>)
    OBVIOUS
  <2>2. n \in Nat /\ Len(msg) <= n * step /\ (Len(msg) = 0 => n = 0)
    BY <1>2, <2>1, ChunksCover
  <2>3. n = 0 => n * step = 0
    BY <1>2
  <2>. QED
    BY <2>1, <2>2, <2>3
<1>4. PICK seqs : seqs = [i \in 1 .. n |-> Block(k, Chunk(msg, i, step))]
  OBVIOUS
<1>5. EncryptOAEP(k, msg) = FlattenSeq(seqs)
  BY <1>2, <1>4 DEF EncryptOAEP
<1>6. \A i \in 1 .. n : /\ Block(k, Chunk(msg, i, step)) \in Seq(BlockBytes(M, k))
                        /\ Len(Block(k, Chunk(msg, i, step))) = KeySize
  BY <1>2, ChunkIs, BlockIs
<1>7. seqs \in Seq(Seq(BlockBytes(M, k))) /\ Len(seqs) = n
  BY <1>3, <1>4, <1>6, IsSeq
<1>8. CASE n = 0
  <2>1. seqs = <<>>
    BY <1>7, <1>8
  <2>2. FlattenSeq(<<>>) = <<>>
    BY Len(<<>>) = 0 DEF FlattenSeq
  <2>3. <<>> \in Seq(BlockBytes(M, k)) /\ Len(<<>>) = n * KeySize
    BY <1>1, <1>8
  <2>. QED
    BY <1>3, <1>5, <1>8, <2>1, <2>2, <2>3
<1>9. CASE n # 0
  <2>1. \A i \in 1 .. n : Len(seqs[i]) = KeySize
    BY <1>4, <1>6
  <2>2. /\ FlattenSeq(seqs) \in Seq(BlockBytes(M, k))
        /\ Len(FlattenSeq(seqs)) = n * KeySize
        /\ \A i \in 1 .. n : \A j \in 1 .. KeySize :
              FlattenSeq(seqs)[(i - 1) * KeySize + j] = seqs[i][j]
    <3>1. AreBlocks(BlockBytes(M, k), KeySize, n, seqs)
      BY <1>1, <1>3, <1>7, <1>9, <2>1 DEF AreBlocks
    <3>. QED
      BY <3>1, BlocksJoined
  <2>. QED
    BY <1>2, <1>3, <1>4, <1>5, <2>2
<1>. QED
  BY <1>8, <1>9

\* Its chunks of the key's size are those blocks.
LEMMA EncryptedChunks ==
    ASSUME NEW M, NEW msg \in Seq(M), NEW k, NEW n, n = Chunks(Len(msg), KeySize - Overhead)
    PROVE  /\ Chunks(Len(EncryptOAEP(k, msg)), KeySize) = n
           /\ \A i \in 1 .. n : Chunk(EncryptOAEP(k, msg), i, KeySize) =
                                    Block(k, Chunk(msg, i, KeySize - Overhead))
<1>1. KeySize \in Nat \ {0} /\ KeySize - Overhead \in Nat \ {0}
  BY EnvelopeAssumption
<1>2. PICK w : w = EncryptOAEP(k, msg)
  OBVIOUS
<1>3. PICK B : B = BlockBytes(M, k)
  OBVIOUS
<1>4. n \in Nat /\ w \in Seq(B) /\ Len(w) = n * KeySize
  BY <1>2, <1>3, Encrypted
<1>5. Chunks(Len(w), KeySize) = n
  BY <1>1, <1>4, ChunksOfBlocks
<1>6. ASSUME NEW i \in 1 .. n
      PROVE  Chunk(w, i, KeySize) = Block(k, Chunk(msg, i, KeySize - Overhead))
  <2>1. PICK b : b = Block(k, Chunk(msg, i, KeySize - Overhead))
    OBVIOUS
  <2>2. b \in Seq(B) /\ Len(b) = KeySize
    BY <1>1, <1>3, <2>1, ChunkIs, BlockIs
  <2>3. PICK c : c = Chunk(w, i, KeySize)
    OBVIOUS
  <2>4. i \in Nat /\ i * KeySize <= n * KeySize /\ i * KeySize \in Nat /\ n * KeySize \in Nat
    BY <1>1, <1>4
  <2>5. End(w, i, KeySize) = i * KeySize
    BY <1>4, <2>4 DEF End
  <2>6. c \in Seq(B) /\ c = SubSeq(w, (i - 1) * KeySize + 1, i * KeySize)
    <3>1. i \in 1 .. Chunks(Len(w), KeySize)
      BY <1>5
    <3>2. /\ Chunk(w, i, KeySize) = SubSeq(w, (i - 1) * KeySize + 1, End(w, i, KeySize))
          /\ Chunk(w, i, KeySize) \in Seq(B)
      BY <1>1, <1>4, <3>1, ChunkIs
    <3>. QED
      BY <2>3, <2>5, <3>2
  <2>7. PICK p \in Nat : p = (i - 1) * KeySize /\ i * KeySize = p + KeySize
    BY <1>1, <2>4
  <2>8. \A j \in 1 .. KeySize : w[p + j] = b[j]
    BY <1>2, <2>1, <2>7, Encrypted
  <2>9. Len(c) = KeySize /\ \A j \in 1 .. KeySize : c[j] = w[p + j]
    <3>1. c = SubSeq(w, p + 1, p + KeySize)
      BY <2>6, <2>7
    <3>2. \A j \in p + 1 .. p + KeySize : w[j] \in B
      <4>1. p + KeySize <= Len(w)
        BY <1>4, <2>4, <2>7
      <4>. QED
        BY <1>1, <1>4, <4>1
    <3>3. /\ Len(c) = IF p + 1 <= p + KeySize THEN p + KeySize - (p + 1) + 1 ELSE 0
          /\ \A j \in 1 .. p + KeySize - (p + 1) + 1 : c[j] = w[p + 1 + j - 1]
      BY <1>1, <3>1, <3>2, SubSeqProperties
    <3>4. p + KeySize - (p + 1) + 1 = KeySize /\ p + 1 <= p + KeySize
      BY <1>1
    <3>5. \A j \in 1 .. KeySize : p + 1 + j - 1 = p + j
      BY <1>1
    <3>. QED
      BY <3>3, <3>4, <3>5
  <2>10. c = b
    BY <2>2, <2>6, <2>8, <2>9, SeqEqual
  <2>. QED
    BY <2>1, <2>3, <2>10
<1>. QED
  BY <1>2, <1>5, <1>6

\* What was encrypted with the server's key is decrypted to what it was, whatever its
\* length (crypto_test.go tries one message).
THEOREM DecryptsWhatWasEncrypted ==
    ASSUME NEW M, NEW msg \in Seq(M), NEW k
    PROVE  Decrypts(k, EncryptOAEP(k, msg)) /\ DecryptOAEP(k, EncryptOAEP(k, msg)) = msg
<1>1. KeySize - Overhead \in Nat \ {0}
  BY EnvelopeAssumption
<1>2. PICK w : w = EncryptOAEP(k, msg)
  OBVIOUS
<1>3. PICK n : n = Chunks(Len(msg), KeySize - Overhead)
  OBVIOUS
<1>4. /\ Chunks(Len(w), KeySize) = n
      /\ \A i \in 1 .. n : Chunk(w, i, KeySize) = Block(k, Chunk(msg, i, KeySize - Overhead))
  BY <1>2, <1>3, EncryptedChunks
<1>5. ASSUME NEW i \in 1 .. n
      PROVE  /\ Chunk(w, i, KeySize)[1] = CipherByte(k, Chunk(msg, i, KeySize - Overhead), 1)
             /\ Chunk(w, i, KeySize) = Block(k, Chunk(msg, i, KeySize - Overhead))
  <2>1. Chunk(msg, i, KeySize - Overhead) \in Seq(M)
    BY <1>1, <1>3, ChunkIs
  <2>. QED
    BY <1>4, <2>1, BlockIs
<1>6. ASSUME NEW i \in 1 .. n
      PROVE  /\ Chunk(w, i, KeySize)[1].key = k
             /\ Chunk(w, i, KeySize)[1].of = Chunk(msg, i, KeySize - Overhead)
  <2>1. \A m : CipherByte(k, m, 1).key = k /\ CipherByte(k, m, 1).of = m
    BY DEF CipherByte
  <2>. QED
    BY <1>5, <2>1
<1>7. Decrypts(k, w)
  <2>1. ASSUME NEW i \in 1 .. n
        PROVE  LET c == Chunk(w, i, KeySize) IN c[1].key = k /\ c = Block(k, c[1].of)
    BY <1>5, <1>6
  <2>. QED
    BY <1>4, <2>1 DEF Decrypts
<1>8. DecryptOAEP(k, w) = msg
  <2>1. DecryptOAEP(k, w) = FlattenSeq([i \in 1 .. n |-> Chunk(msg, i, KeySize - Overhead)])
    <3>1. [i \in 1 .. n |-> Chunk(w, i, KeySize)[1].of]
            = [i \in 1 .. n |-> Chunk(msg, i, KeySize - Overhead)]
      BY <1>6
    <3>. QED
      BY <1>4, <3>1 DEF DecryptOAEP
  <2>. QED
    BY <1>1, <1>3, <2>1, ChunksJoined
<1>. QED
  BY <1>2, <1>7, <1>8

\* The first byte of what a key decrypts was made with it.
LEMMA FirstByte ==
    ASSUME NEW M, NEW w \in Seq(M), w # <<>>, NEW p, Decrypts(p, w)
    PROVE  w[1].key = p
<1>1. KeySize \in Nat \ {0} /\ Len(w) \in Nat \ {0}
  BY EnvelopeAssumption
<1>2. 1 \in 1 .. Chunks(Len(w), KeySize)
  <2>1. PICK n : n = Chunks(Len(w), KeySize)
    OBVIOUS
  <2>2. n \in Nat /\ Len(w) <= n * KeySize
    BY <1>1, <2>1, ChunksCover
  <2>3. n = 0 => n * KeySize = 0
    BY <1>1
  <2>. QED
    BY <1>1, <2>1, <2>2, <2>3
<1>3. PICK c : c = Chunk(w, 1, KeySize)
  OBVIOUS
<1>4. c[1].key = p
  BY <1>2, <1>3 DEF Decrypts
<1>5. c[1] = w[1]
  <2>1. PICK e : e = End(w, 1, KeySize)
    OBVIOUS
  <2>2. e \in 1 .. Len(w)
    BY <1>1, <2>1 DEF End
  <2>3. c = SubSeq(w, (1 - 1) * KeySize + 1, e)
    BY <1>1, <1>2, <1>3, <2>1, ChunkIs
  <2>4. (1 - 1) * KeySize + 1 = 1
    BY <1>1
  <2>5. c = SubSeq(w, 1, e)
    BY <2>3, <2>4
  <2>. QED
    BY <1>1, <2>2, <2>5
<1>. QED
  BY <1>4, <1>5

\* A byte of an encrypted message tells the key.
LEMMA EncryptedBytes ==
    ASSUME NEW M, NEW msg \in Seq(M), msg # <<>>, NEW k
    PROVE  /\ EncryptOAEP(k, msg) # <<>> /\ 1 \in DOMAIN EncryptOAEP(k, msg)
           /\ EncryptOAEP(k, msg)[1].key = k
<1>1. PICK w : w = EncryptOAEP(k, msg)
  OBVIOUS
<1>2. PICK n : n = Chunks(Len(msg), KeySize - Overhead)
  OBVIOUS
<1>3. n \in Nat \ {0} /\ Len(w) = n * KeySize /\ w \in Seq(BlockBytes(M, k))
  BY <1>1, <1>2, Encrypted
<1>4. n * KeySize \in Nat \ {0}
  BY <1>3, EnvelopeAssumption
<1>5. w # <<>> /\ 1 \in DOMAIN w /\ w[1] \in BlockBytes(M, k)
  BY <1>3, <1>4
<1>6. w[1].key = k
  BY <1>5 DEF BlockBytes, CipherByte
<1>. QED
  BY <1>1, <1>5, <1>6

LEMMA Marshalled ==
    ASSUME NEW M, NEW list \in Seq(M)
    PROVE  /\ Marshal(list) \in Seq({Plain(t) : t \in M}) /\ Len(Marshal(list)) = Len(list)
           /\ DOMAIN Marshal(list) = DOMAIN list
           /\ \A j \in DOMAIN list : Marshal(list)[j] = Plain(list[j])
           /\ [j \in DOMAIN Marshal(list) |-> Marshal(list)[j].of] = list
<1>1. PICK w : w = Marshal(list)
  OBVIOUS
<1>2. DOMAIN list = 1 .. Len(list) /\ Len(list) \in Nat
  OBVIOUS
<1>3. w = [j \in 1 .. Len(list) |-> Plain(list[j])]
  BY <1>1, <1>2 DEF Marshal
<1>4. \A j \in 1 .. Len(list) : w[j] = Plain(list[j]) /\ w[j] \in {Plain(t) : t \in M}
  BY <1>2, <1>3
<1>5. w \in Seq({Plain(t) : t \in M}) /\ Len(w) = Len(list)
  BY <1>2, <1>3, <1>4, IsSeq
<1>6. [j \in DOMAIN w |-> w[j].of] = list
  <2>1. \A j \in DOMAIN w : w[j].of = list[j]
    BY <1>3, <1>4 DEF Plain
  <2>2. DOMAIN w = DOMAIN list /\ list = [j \in DOMAIN list |-> list[j]]
    BY <1>2, <1>3
  <2>. QED
    BY <2>1, <2>2
<1>. QED
  BY <1>1, <1>2, <1>3, <1>4, <1>5, <1>6
----------------------------------------------------------------------------
(* From the agent to the handler *)

\* The bytes an agent puts into a body are read as they are or decrypted, or not at all.
LEMMA BytesRead ==
    ASSUME NEW M, NEW list \in Seq(M), NEW a, NEW s, NEW sent, NEW read,
           sent = IF a = NoKey THEN Marshal(list) ELSE EncryptOAEP(a, Marshal(list)),
           s # NoKey => Decrypts(s, sent),
           read = IF s = NoKey THEN sent ELSE DecryptOAEP(s, sent),
           \A j \in DOMAIN read : IsPlain(read[j])
    PROVE  read = Marshal(list)
<1>. DEFINE plain == Marshal(list)
            B     == {Plain(t) : t \in M}
<1>1. plain \in Seq(B) /\ (plain = <<>> <=> list = <<>>)
  BY Marshalled
<1>2. CASE a = s /\ a = NoKey
  BY <1>2
<1>3. CASE a = s /\ a # NoKey
  <2>. HIDE DEF plain, B
  <2>1. sent = EncryptOAEP(s, plain) /\ read = DecryptOAEP(s, sent)
    BY <1>3 DEF plain
  <2>2. DecryptOAEP(s, EncryptOAEP(s, plain)) = plain
    BY <1>1, DecryptsWhatWasEncrypted
  <2>. QED
    BY <2>1, <2>2 DEF plain
<1>4. CASE a # s /\ list = <<>>
  <2>1. plain = <<>>
    BY <1>1, <1>4
  <2>2. EncryptOAEP(a, <<>>) = <<>> /\ DecryptOAEP(s, <<>>) = <<>>
    <3>1. Chunks(Len(<<>>), KeySize - Overhead) = 0 /\ Chunks(Len(<<>>), KeySize) = 0
      <4>1. Len(<<>>) \in Nat /\ Len(<<>>) = 0
        OBVIOUS
      <4>2. KeySize \in Nat \ {0} /\ KeySize - Overhead \in Nat \ {0}
        BY EnvelopeAssumption
      <4>. QED
        BY <4>1, <4>2, ChunksCover
    <3>2. FlattenSeq(<<>>) = <<>>
      BY Len(<<>>) = 0 DEF FlattenSeq
    <3>3. \A F : [i \in 1 .. 0 |-> F[i]] = <<>>
      OBVIOUS
    <3>4. 1 .. 0 = {}
      OBVIOUS
    <3>5. /\ [i \in 1 .. 0 |-> Block(a, Chunk(<<>>, i, KeySize - Overhead))] = <<>>
          /\ [i \in 1 .. 0 |-> Chunk(<<>>, i, KeySize)[1].of] = <<>>
      BY <3>4
    <3>. QED
      BY <3>1, <3>2, <3>5 DEF EncryptOAEP, DecryptOAEP
  <2>. QED
    BY <2>1, <2>2
<1>5. CASE a # s /\ list # <<>>
  <2>1. plain # <<>> /\ plain[1] = Plain(list[1]) /\ 1 \in DOMAIN list
    BY <1>1, <1>5, Marshalled
  <2>2. plain[1].key = NoKey
    BY <2>1 DEF Plain
  <2>3. sent # <<>> /\ 1 \in DOMAIN sent /\ sent[1].key = a /\ \E C : sent \in Seq(C)
    <3>1. CASE a = NoKey
      BY <1>1, <2>1, <2>2, <3>1
    <3>2. CASE a # NoKey
      <4>. HIDE DEF plain, B
      <4>1. sent = EncryptOAEP(a, plain)
        BY <3>2 DEF plain
      <4>2. sent \in Seq(BlockBytes(B, a))
        BY <1>1, <4>1, Encrypted
      <4>. QED
        BY <1>1, <2>1, <4>1, <4>2, EncryptedBytes
    <3>. QED
      BY <3>1, <3>2
  <2>4. CASE s # NoKey
    BY <1>5, <2>3, <2>4, FirstByte
  <2>5. CASE s = NoKey
    BY <1>5, <2>3, <2>5 DEF IsPlain
  <2>. QED
    BY <2>4, <2>5
<1>. QED
  BY <1>2, <1>3, <1>4, <1>5

(***************************************************************************)
(* A request in the chain, by its parts, and what each link makes of them. *)
(***************************************************************************)
Link(st, z, b, ip, g) == [status |-> st, req |-> [body |-> Body(z, b), realIP |-> ip, sign |-> g]]

\* What a request must be for the chain to let it pass.
Signed(s, z, b, g) == s.Key # NoKey /\ g # NoSign => g = Base64(Hash(s.Key, Body(z, b)))
Inside(s)          == s.TrustedSubnet # Empty => s.TrustedSubnet = "inside"
Read(s, b)         == IF s.CryptoKey = NoKey THEN b ELSE DecryptOAEP(s.CryptoKey, b)
Readable(s, b)     == /\ s.CryptoKey # NoKey => Decrypts(s.CryptoKey, b)
                      /\ \A j \in DOMAIN Read(s, b) : IsPlain(Read(s, b)[j])

\* The flags of a request, kept apart from their values while the links are taken one by one.
IsTrue(z)  == z = TRUE
IsFalse(z) == z = FALSE

LEMMA LinkParts ==
    ASSUME NEW st, NEW z, NEW b, NEW ip, NEW g, NEW x, x = Link(st, z, b, ip, g)
    PROVE  /\ x.status = st /\ x.req.realIP = ip /\ x.req.sign = g
           /\ x.req.body = Body(z, b) /\ x.req.body.zipped = z /\ x.req.body.bytes = b
  BY DEF Link, Body

LEMMA LinkChanged ==
    ASSUME NEW st, NEW z, NEW b, NEW ip, NEW g, NEW y, NEW c,
           NEW x, x = Link(st, z, b, ip, g)
    PROVE  /\ [x EXCEPT !.req.body.zipped = y] = Link(st, y, b, ip, g)
           /\ [x EXCEPT !.req.body.bytes = c] = Link(st, z, c, ip, g)
<1>1. [x EXCEPT !.req.body.zipped = y] = Link(st, y, b, ip, g)
  BY DEF Link, Body
<1>2. [x EXCEPT !.req.body.bytes = c] = Link(st, z, c, ip, g)
  BY DEF Link, Body
<1>. QED
  BY <1>1, <1>2

LEMMA LinkAnswered ==
    ASSUME NEW z, NEW b, NEW ip, NEW g, NEW x, x = Link("ok", z, b, ip, g), NEW t, t # "ok"
    PROVE  Answer(t, x).status # "ok"
  BY DEF Link, Answer

LEMMA Checked ==
    ASSUME NEW z, NEW b, NEW ip, NEW g, NEW x, x = Link("ok", z, b, ip, g),
           NEW t, t # "ok", NEW ok \in BOOLEAN, NEW y, y = Check(ok, t, x)
    PROVE  (ok => y = x) /\ (~ok => y.status # "ok")
<1>1. x.status = "ok" /\ Answer(t, x).status # "ok"
  BY LinkParts, LinkAnswered
<1>. QED
  BY <1>1 DEF Check

LEMMA HashLink ==
    ASSUME NEW s, NEW z, NEW b, NEW ip, NEW g, NEW x, x = Link("ok", z, b, ip, g),
           NEW y, y = WithHash(s, x)
    PROVE  (Signed(s, z, b, g) => y = x) /\ (~Signed(s, z, b, g) => y.status # "ok")
<1>1. x.req.sign = g /\ x.req.body = Body(z, b)
  BY LinkParts
<1>2. PICK ok \in BOOLEAN : ok <=> SignFits(s, x)
  OBVIOUS
<1>3. SignFits(s, x) \in BOOLEAN
  BY DEF SignFits
<1>4. ok = SignFits(s, x)
  BY <1>2, <1>3
<1>5. ok <=> Signed(s, z, b, g)
  BY <1>1, <1>2 DEF SignFits, Signed
<1>6. y = Check(ok, "wrongSignature", x)
  BY <1>4 DEF WithHash
<1>. QED
  BY <1>5, <1>6, Checked

LEMMA GzipLink ==
    ASSUME NEW s, NEW z, IsTrue(z), NEW b, NEW ip, NEW g, NEW x, x = Link("ok", z, b, ip, g)
    PROVE  \A y : IsFalse(y) => WithGzip(s, x) = Link("ok", y, b, ip, g)
<1>. SUFFICES ASSUME NEW y, IsFalse(y) PROVE WithGzip(s, x) = Link("ok", y, b, ip, g)
  OBVIOUS
<1>1. x.status = "ok" /\ x.req.body.zipped = z
  BY LinkParts
<1>2. [x EXCEPT !.req.body.zipped = y] = Link("ok", y, b, ip, g)
  BY LinkChanged
<1>3. [x EXCEPT !.req.body.zipped = FALSE] = Link("ok", y, b, ip, g)
  BY <1>2, Zenon DEF IsFalse
<1>. QED
  BY <1>1, <1>3, Zenon DEF WithGzip, IsTrue

LEMMA SubnetLink ==
    ASSUME NEW s, NEW z, NEW b, NEW ip, IsTrue(ip), NEW g, NEW x, x = Link("ok", z, b, ip, g)
    PROVE  /\ Inside(s) => WithTrustedSubnet(s, x) = x
           /\ ~Inside(s) => WithTrustedSubnet(s, x).status # "ok"
<1>1. x.req.realIP = ip /\ x.status = "ok"
  BY LinkParts
<1>2. Answer("forbidden", x).status # "ok"
  BY LinkAnswered
<1>. QED
  BY <1>1, <1>2, Zenon DEF WithTrustedSubnet, Check, Inside, IsTrue

LEMMA InterceptorLink ==
    ASSUME NEW s, NEW z, NEW b, NEW ip, IsFalse(ip), NEW g, NEW x, x = Link("ok", z, b, ip, g)
    PROVE  SubnetInterceptor(s, x) = x
<1>1. x.req.realIP = ip
  BY LinkParts
<1>. QED
  BY <1>1, Zenon DEF SubnetInterceptor, Check, IsFalse

LEMMA DecryptLink ==
    ASSUME NEW s, NEW z, IsFalse(z), NEW b, NEW ip, NEW g, NEW x, x = Link("ok", z, b, ip, g)
    PROVE  /\ (s.CryptoKey # NoKey => Decrypts(s.CryptoKey, b))
                => WithDecrypt(s, x) = Link("ok", z, Read(s, b), ip, g)
           /\ ~(s.CryptoKey # NoKey => Decrypts(s.CryptoKey, b))
                => WithDecrypt(s, x).status # "ok"
<1>1. x.status = "ok" /\ x.req.body.zipped = z /\ x.req.body.bytes = b
  BY LinkParts
<1>2. Answer("forbidden", x).status # "ok"
  BY LinkAnswered
<1>3. PICK c : c = DecryptOAEP(s.CryptoKey, b)
  OBVIOUS
<1>4. [x EXCEPT !.req.body.bytes = c] = Link("ok", z, c, ip, g)
  BY LinkChanged
<1>5. [x EXCEPT !.req.body.bytes = DecryptOAEP(s.CryptoKey, @)] = Link("ok", z, c, ip, g)
  BY <1>1, <1>3, <1>4, Zenon
<1>6. CASE s.CryptoKey = NoKey
  BY <1>1, <1>6 DEF WithDecrypt, Read
<1>7. CASE s.CryptoKey # NoKey /\ Decrypts(s.CryptoKey, b)
  BY <1>1, <1>3, <1>5, <1>7, Zenon DEF WithDecrypt, Read, IsFalse
<1>8. CASE s.CryptoKey # NoKey /\ ~Decrypts(s.CryptoKey, b)
  BY <1>1, <1>2, <1>8, Zenon DEF WithDecrypt, IsFalse
<1>. QED
  BY <1>6, <1>7, <1>8

LEMMA DecodeLink ==
    ASSUME NEW s, NEW z, IsFalse(z), NEW b, NEW ip, NEW g, NEW x, x = Link("ok", z, b, ip, g)
    PROVE  /\ (\A j \in DOMAIN b : IsPlain(b[j])) => Decode(s, x) = x
           /\ ~(\A j \in DOMAIN b : IsPlain(b[j])) => Decode(s, x).status # "ok"
<1>1. x.status = "ok" /\ x.req.body.zipped = z /\ x.req.body.bytes = b
  BY LinkParts
<1>2. Answer("badRequest", x).status # "ok"
  BY LinkAnswered
<1>. QED
  BY <1>1, <1>2, Zenon DEF Decode, Check, IsFalse

\* A request that was answered stays answered.
LEMMA LinkDone ==
    ASSUME NEW s, NEW x, x.status # "ok"
    PROVE  /\ WithGzip(s, x) = x /\ WithTrustedSubnet(s, x) = x /\ SubnetInterceptor(s, x) = x
           /\ WithDecrypt(s, x) = x /\ Decode(s, x) = x
  BY Zenon DEF WithGzip, WithTrustedSubnet, SubnetInterceptor, WithDecrypt, Decode, Check

LEMMA HTTPChain ==
    ASSUME NEW s, NEW b, NEW g, NEW x5,
           x5 = OpenHTTP(s, [body |-> Body(TRUE, b), realIP |-> TRUE, sign |-> g])
    PROVE  /\ x5.status = "ok" <=> Signed(s, TRUE, b, g) /\ Inside(s) /\ Readable(s, b)
           /\ x5.status = "ok" => x5 = Link("ok", FALSE, Read(s, b), TRUE, g)
<1>. DEFINE decrypts == s.CryptoKey # NoKey => Decrypts(s.CryptoKey, b)
<1>1. PICK yes, no : IsTrue(yes) /\ IsFalse(no)
  BY DEF IsTrue, IsFalse
<1>2. PICK x0 : x0 = Link("ok", yes, b, yes, g)
  OBVIOUS
<1>3. PICK x1 : x1 = WithHash(s, x0)
  OBVIOUS
<1>4. PICK x2 : x2 = WithGzip(s, x1)
  OBVIOUS
<1>5. PICK x3 : x3 = WithTrustedSubnet(s, x2)
  OBVIOUS
<1>6. PICK x4 : x4 = WithDecrypt(s, x3)
  OBVIOUS
<1>7. x5 = Decode(s, x4)
  BY <1>1, <1>2, <1>3, <1>4, <1>5, <1>6, Zenon DEF OpenHTTP, Passed, Link, IsTrue
<1>8. (Signed(s, yes, b, g) => x1 = x0) /\ (~Signed(s, yes, b, g) => x1.status # "ok")
  BY <1>2, <1>3, HashLink
<1>9. x1.status # "ok" => x2 = x1
  BY <1>4, LinkDone
<1>10. x2.status # "ok" => x3 = x2
  BY <1>5, LinkDone
<1>11. x3.status # "ok" => x4 = x3
  BY <1>6, LinkDone
<1>12. x4.status # "ok" => x5 = x4
  BY <1>7, LinkDone
<1>13. CASE ~Signed(s, yes, b, g)
  BY <1>1, <1>8, <1>9, <1>10, <1>11, <1>12, <1>13, Zenon DEF IsTrue
<1>14. CASE Signed(s, yes, b, g)
  <2>1. x2 = Link("ok", no, b, yes, g)
    <3>1. WithGzip(s, x0) = Link("ok", no, b, yes, g)
      BY <1>1, <1>2, GzipLink
    <3>. QED
      BY <1>4, <1>8, <1>14, <3>1
  <2>3. Inside(s) => x3 = x2
    BY <1>1, <1>5, <2>1, SubnetLink
  <2>4. ~Inside(s) => x3.status # "ok"
    BY <1>1, <1>5, <2>1, SubnetLink
  <2>5. CASE ~Inside(s)
    BY <1>11, <1>12, <2>4, <2>5, Zenon
  <2>6. CASE Inside(s) /\ ~decrypts
    <3>1. x3 = Link("ok", no, b, yes, g)
      BY <2>1, <2>3, <2>6
    <3>2. x4.status # "ok"
      BY <1>1, <1>6, <2>6, <3>1, DecryptLink
    <3>. QED
      BY <1>12, <2>6, <3>2, Zenon DEF Readable
  <2>7. CASE Inside(s) /\ decrypts
    <3>1. x3 = Link("ok", no, b, yes, g)
      BY <2>1, <2>3, <2>7
    <3>2. PICK c : c = Read(s, b)
      OBVIOUS
    <3>3. x4 = Link("ok", no, c, yes, g)
      BY <1>1, <1>6, <2>7, <3>1, <3>2, DecryptLink
    <3>4. /\ (\A j \in DOMAIN c : IsPlain(c[j])) => x5 = x4
          /\ ~(\A j \in DOMAIN c : IsPlain(c[j])) => x5.status # "ok"
      BY <1>1, <1>7, <3>3, DecodeLink
    <3>5. x4.status = "ok"
      BY <3>3, LinkParts
    <3>6. Readable(s, b) <=> \A j \in DOMAIN c : IsPlain(c[j])
      BY <2>7, <3>2, Zenon DEF Readable
    <3>. QED
      BY <1>1, <1>14, <2>7, <3>2, <3>3, <3>4, <3>5, <3>6, Zenon DEF IsTrue, IsFalse
  <2>. QED
    BY <2>5, <2>6, <2>7
<1>. QED
  BY <1>13, <1>14

LEMMA GRPCChain ==
    ASSUME NEW s, NEW b, NEW g, NEW x2,
           x2 = OpenGRPC(s, [body |-> Body(FALSE, b), realIP |-> FALSE, sign |-> g]),
           x2.status = "ok"
    PROVE  x2 = Link("ok", FALSE, b, FALSE, g)
<1>1. PICK no : IsFalse(no)
  BY DEF IsFalse
<1>2. PICK x0 : x0 = Link("ok", no, b, no, g)
  OBVIOUS
<1>3. PICK x1 : x1 = WithHash(s, x0)
  OBVIOUS
<1>4. x2 = SubnetInterceptor(s, x1)
  BY <1>1, <1>2, <1>3, Zenon DEF OpenGRPC, Passed, Link, IsFalse
<1>5. x1.status # "ok" => x2 = x1
  BY <1>4, LinkDone
<1>6. x1 = x0
  BY <1>2, <1>3, <1>5, HashLink
<1>7. x2 = x0
  BY <1>1, <1>2, <1>4, <1>6, InterceptorLink
<1>. QED
  BY <1>1, <1>2, <1>7, Zenon DEF IsFalse

(***************************************************************************)
(* The two results.                                                        *)
(***************************************************************************)

\* Whatever the settings of the two sides, and however long the report: what the server's
\* handler is given is the list that the agent published, or nothing.
THEOREM OpensWhatWasSealed ==
    ASSUME NEW M, NEW list \in Seq(M), NEW a, NEW s
    PROVE  /\ OpenHTTP(s, SealHTTP(a, list)).status = "ok"
              => Contents(OpenHTTP(s, SealHTTP(a, list))) = list
           /\ OpenGRPC(s, SealGRPC(a, list)).status = "ok"
              => Contents(OpenGRPC(s, SealGRPC(a, list))) = list
<1>1. [j \in DOMAIN Marshal(list) |-> Marshal(list)[j].of] = list
  BY Marshalled
<1>2. ASSUME OpenHTTP(s, SealHTTP(a, list)).status = "ok"
      PROVE  Contents(OpenHTTP(s, SealHTTP(a, list))) = list
  <2>1. PICK b : b = IF a.CryptoKey = NoKey THEN Marshal(list)
                     ELSE EncryptOAEP(a.CryptoKey, Marshal(list))
    OBVIOUS
  <2>2. PICK g : g = SealHTTP(a, list).sign
    OBVIOUS
  <2>3. SealHTTP(a, list) = [body |-> Body(TRUE, b), realIP |-> TRUE, sign |-> g]
    BY <2>1, <2>2 DEF SealHTTP
  <2>4. PICK x : x = OpenHTTP(s, SealHTTP(a, list))
    OBVIOUS
  <2>5. Readable(s, b) /\ x = Link("ok", FALSE, Read(s, b), TRUE, g)
    BY <1>2, <2>3, <2>4, HTTPChain
  <2>6. Read(s, b) = Marshal(list)
    <3>1. PICK k : k = a.CryptoKey
      OBVIOUS
    <3>2. PICK p : p = s.CryptoKey
      OBVIOUS
    <3>3. PICK read : read = Read(s, b)
      OBVIOUS
    <3>4. /\ b = IF k = NoKey THEN Marshal(list) ELSE EncryptOAEP(k, Marshal(list))
          /\ p # NoKey => Decrypts(p, b)
          /\ read = IF p = NoKey THEN b ELSE DecryptOAEP(p, b)
          /\ \A j \in DOMAIN read : IsPlain(read[j])
      BY <2>1, <2>5, <3>1, <3>2, <3>3 DEF Readable, Read
    <3>. QED
      BY <3>3, <3>4, BytesRead
  <2>7. x = Link("ok", FALSE, Marshal(list), TRUE, g)
    BY <2>5, <2>6
  <2>8. Contents(x) = [j \in DOMAIN Marshal(list) |-> Marshal(list)[j].of]
    BY <2>7 DEF Contents, Link, Body
  <2>. QED
    BY <1>1, <2>4, <2>8, Zenon
<1>3. ASSUME OpenGRPC(s, SealGRPC(a, list)).status = "ok"
      PROVE  Contents(OpenGRPC(s, SealGRPC(a, list))) = list
  <2>1. PICK b : b = Marshal(list)
    OBVIOUS
  <2>2. PICK g : g = SealGRPC(a, list).sign
    OBVIOUS
  <2>3. SealGRPC(a, list) = [body |-> Body(FALSE, b), realIP |-> FALSE, sign |-> g]
    BY <2>1, <2>2 DEF SealGRPC
  <2>4. PICK x : x = OpenGRPC(s, SealGRPC(a, list))
    OBVIOUS
  <2>5. x = Link("ok", FALSE, b, FALSE, g)
    BY <1>3, <2>3, <2>4, GRPCChain
  <2>6. Contents(x) = [j \in DOMAIN b |-> b[j].of]
    BY <2>5 DEF Contents, Link, Body
  <2>. QED
    BY <1>1, <2>1, <2>4, <2>6, Zenon
<1>. QED
  BY <1>2, <1>3

\* With the same RSA key or none on both sides, the same hash key or only one, and the
\* agent's address in the subnet if there is one, the HTTP server lets every report pass.
THEOREM OpensWhatFits ==
    ASSUME NEW M, NEW list \in Seq(M), NEW a, NEW s,
           NoKey \in {a.Key, s.Key} \/ a.Key = s.Key,
           a.CryptoKey = s.CryptoKey, Inside(s)
    PROVE  OpenHTTP(s, SealHTTP(a, list)).status = "ok"
<1>1. PICK b : b = IF a.CryptoKey = NoKey THEN Marshal(list)
                   ELSE EncryptOAEP(a.CryptoKey, Marshal(list))
  OBVIOUS
<1>2. PICK g : g = IF a.Key = NoKey THEN NoSign ELSE Base64(Hash(a.Key, Body(TRUE, b)))
  OBVIOUS
<1>3. SealHTTP(a, list) = [body |-> Body(TRUE, b), realIP |-> TRUE, sign |-> g]
  BY <1>1, <1>2 DEF SealHTTP
<1>4. PICK x : x = OpenHTTP(s, SealHTTP(a, list))
  OBVIOUS
<1>5. Signed(s, TRUE, b, g)
  BY <1>2 DEF Signed
<1>6. (s.CryptoKey # NoKey => Decrypts(s.CryptoKey, b)) /\ Read(s, b) = Marshal(list)
  <2>1. CASE s.CryptoKey = NoKey
    BY <1>1, <2>1 DEF Read
  <2>2. CASE s.CryptoKey # NoKey
    <3>1. Marshal(list) \in Seq({Plain(t) : t \in M})
      BY Marshalled
    <3>2. /\ Decrypts(s.CryptoKey, EncryptOAEP(s.CryptoKey, Marshal(list)))
          /\ DecryptOAEP(s.CryptoKey, EncryptOAEP(s.CryptoKey, Marshal(list))) = Marshal(list)
      BY <3>1, DecryptsWhatWasEncrypted
    <3>. QED
      BY <1>1, <2>2, <3>2 DEF Read
  <2>. QED
    BY <2>1, <2>2
<1>7. \A j \in DOMAIN Marshal(list) : IsPlain(Marshal(list)[j])
  <2>1. \A t : IsPlain(Plain(t))
    BY DEF IsPlain, Plain
  <2>2. \A j \in DOMAIN list : Marshal(list)[j] = Plain(list[j])
    BY Marshalled
  <2>3. DOMAIN Marshal(list) = DOMAIN list
    BY DEF Marshal
  <2>. QED
    BY <2>1, <2>2, <2>3, Zenon
<1>8. Readable(s, b)
  BY <1>6, <1>7 DEF Readable
<1>. QED
  BY <1>3, <1>4, <1>5, <1>8, HTTPChain
=============================================================================
