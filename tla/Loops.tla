--------------------------------- MODULE Loops ---------------------------------
(***************************************************************************)
(* What a loop over a sequence leaves behind. Step is the loop's body: it  *)
(* makes of the state before a turn, and of the element whose turn it is,  *)
(* the state after it. The modules whose operations loop over a batch      *)
(* instantiate this one with their body.                                   *)
(***************************************************************************)
EXTENDS SequencesExt, WellFoundedInduction, TLAPS

CONSTANT Step(_, _)

\* The state after the loop.
Loop(base, b) == FoldLeft(Step, base, b)

\* Runs of the loop: the state before the first turn, and after each of the first n.
IsRun(f, base, b, n) ==
    /\ f[0] = base
    /\ \A k \in 1 .. n : f[k] = Step(f[k - 1], b[k])

(***************************************************************************)
(* Induction on the natural numbers, over a set, because the library's     *)
(* theorem is about an operator. It follows from the fact that < is        *)
(* well-founded: the least number that is not in the set would be 0 or     *)
(* follow one that is.                                                     *)
(***************************************************************************)
LEMMA NatSet ==
  ASSUME NEW S, 0 \in S, \A n \in Nat : n \in S => n + 1 \in S
  PROVE  Nat \subseteq S
<1>. SUFFICES ASSUME Nat \ S # {} PROVE FALSE
  OBVIOUS
<1>1. PICK x \in Nat \ S : \A y \in Nat \ S : ~(<<y, x>> \in OpToRel(<, Nat))
  <2>1. Nat \ S \subseteq Nat
    OBVIOUS
  <2>. QED
    BY <2>1, NatLessThanWellFounded, WFMin
<1>2. x # 0 /\ x - 1 \in Nat /\ x - 1 < x
  OBVIOUS
<1>3. ASSUME NEW y \in Nat, y < x PROVE <<y, x>> \in OpToRel(<, Nat)
  BY <1>3 DEF OpToRel
<1>4. x - 1 \in S
  BY <1>1, <1>2, <1>3
<1>. QED
  BY <1>2, <1>4

\* The same up to n.
LEMMA UpTo ==
  ASSUME NEW n \in Nat, NEW S, 0 \in S, \A k \in 1 .. n : k - 1 \in S => k \in S
  PROVE  0 .. n \subseteq S
<1>. DEFINE T == {k \in Nat : k <= n => k \in S}
<1>1. 0 \in T
  OBVIOUS
<1>2. ASSUME NEW k \in Nat, k \in T PROVE k + 1 \in T
  <2>1. k + 1 <= n => k + 1 \in 1 .. n /\ (k + 1) - 1 = k /\ k <= n
    OBVIOUS
  <2>. QED
    BY <1>2, <2>1
<1>3. Nat \subseteq T
  <2>. HIDE DEF T
  <2>. QED
    BY <1>1, <1>2, NatSet
<1>. QED
  BY <1>3
----------------------------------------------------------------------------
(***************************************************************************)
(* FoldLeft is a recursive function on the sets of positions, and such a   *)
(* function is a CHOOSE: that there is one that meets the equation has to  *)
(* be shown.                                                               *)
(***************************************************************************)
Meets(f, base, b, n) ==
    f = [s \in SUBSET (1 .. n) |->
            IF s = {} THEN base ELSE Step(f[s \ {Max(s)}], b[Max(s)])]

LEMMA LastMax ==
  ASSUME NEW n \in Nat \ {0}, NEW s \in SUBSET (1 .. n), n \in s PROVE Max(s) = n
<1>1. n \in s /\ \A y \in s : n >= y
  OBVIOUS
<1>2. ASSUME NEW x \in s, \A y \in s : x >= y PROVE x = n
  BY <1>2
<1>. QED
  BY <1>1, <1>2 DEF Max

LEMMA Defined ==
  ASSUME NEW base, NEW b, NEW n \in Nat
  PROVE  \E f : Meets(f, base, b, n)
<1>. DEFINE S == {k \in 0 .. n : \E f : Meets(f, base, b, k)}
<1>1. 0 \in S
  <2>. DEFINE f == [s \in SUBSET (1 .. 0) |-> base]
  <2>1. Meets(f, base, b, 0)
    <3>1. 1 .. 0 = {}
      OBVIOUS
    <3>. QED
      BY <3>1 DEF Meets
  <2>. QED
    BY <2>1
<1>2. ASSUME NEW k \in 1 .. n, k - 1 \in S PROVE k \in S
  <2>1. PICK f : Meets(f, base, b, k - 1)
    BY <1>2
  <2>. DEFINE g == [s \in SUBSET (1 .. k) |-> IF k \in s THEN Step(f[s \ {k}], b[k]) ELSE f[s]]
  <2>2. ASSUME NEW s \in SUBSET (1 .. k)
        PROVE  g[s] = IF s = {} THEN base ELSE Step(g[s \ {Max(s)}], b[Max(s)])
    <3>1. CASE k \in s
      <4>1. Max(s) = k /\ s # {} /\ s \ {k} \in SUBSET (1 .. k) /\ k \notin s \ {k}
        BY <3>1, LastMax
      <4>2. g[s \ {k}] = f[s \ {k}]
        BY <4>1
      <4>. QED
        BY <3>1, <4>1, <4>2
    <3>2. CASE k \notin s
      <4>1. s \in SUBSET (1 .. (k - 1)) /\ g[s] = f[s]
        BY <3>2
      <4>2. s # {} => g[s \ {Max(s)}] = f[s \ {Max(s)}]
        <5>1. s \ {Max(s)} \in SUBSET (1 .. k) /\ k \notin s \ {Max(s)}
          BY <3>2
        <5>. QED
          BY <5>1
      <4>3. f[s] = IF s = {} THEN base ELSE Step(f[s \ {Max(s)}], b[Max(s)])
        BY <2>1, <4>1 DEF Meets
      <4>. QED
        BY <4>1, <4>2, <4>3
    <3>. QED
      BY <3>1, <3>2
  <2>3. Meets(g, base, b, k)
    <3>1. g = [s \in SUBSET (1 .. k) |-> g[s]]
      OBVIOUS
    <3>. HIDE DEF g
    <3>. QED
      BY <2>2, <3>1 DEF Meets
  <2>. QED
    BY <2>3
<1>3. 0 .. n \subseteq S
  <2>. HIDE DEF S
  <2>. QED
    BY <1>1, <1>2, UpTo
<1>. QED
  BY <1>3

\* The loop is run, and its last state is what FoldLeft says.
LEMMA LoopRun ==
  ASSUME NEW base, NEW b, Len(b) \in Nat, DOMAIN b = 1 .. Len(b)
  PROVE  \E f : IsRun(f, base, b, Len(b)) /\ f[Len(b)] = Loop(base, b)
<1>. DEFINE n == Len(b)
            g == CHOOSE f : Meets(f, base, b, n)
            f == [k \in 0 .. n |-> g[1 .. k]]
<1>1. Meets(g, base, b, n)
  BY Defined
<1>2. Loop(base, b) = g[1 .. n]
  BY DEF Loop, FoldLeft, MapThenFoldSet, Meets
<1>. HIDE DEF g
<1>3. \A s \in SUBSET (1 .. n) :
        g[s] = IF s = {} THEN base ELSE Step(g[s \ {Max(s)}], b[Max(s)])
  BY <1>1 DEF Meets
<1>4. f[0] = base
  <2>1. 1 .. 0 = {} /\ 0 \in 0 .. n /\ {} \in SUBSET (1 .. n)
    OBVIOUS
  <2>2. g[{}] = base
    BY <1>3, <2>1
  <2>3. f[0] = g[1 .. 0]
    BY <2>1
  <2>. QED
    BY <2>1, <2>2, <2>3
<1>5. ASSUME NEW k \in 1 .. n PROVE f[k] = Step(f[k - 1], b[k])
  <2>1. 1 .. k \in SUBSET (1 .. n) /\ k \in 1 .. k /\ (1 .. k) \ {k} = 1 .. (k - 1)
    OBVIOUS
  <2>2. Max(1 .. k) = k
    BY <2>1, LastMax
  <2>3. g[1 .. k] = Step(g[1 .. (k - 1)], b[k])
    BY <1>3, <2>1, <2>2
  <2>. QED
    BY <2>3
<1>6. f[n] = Loop(base, b)
  BY <1>2
<1>. HIDE DEF f
<1>. QED
  BY <1>4, <1>5, <1>6 DEF IsRun
----------------------------------------------------------------------------
(* The facts that are cited elsewhere *)

LEMMA SeqLen ==
  ASSUME NEW M, NEW b \in Seq(M)
  PROVE  Len(b) \in Nat /\ DOMAIN b = 1 .. Len(b)
  OBVIOUS

\* Two runs that start together stay together: a loop has one result.
LEMMA OneResult ==
  ASSUME NEW base, NEW b, Len(b) \in Nat, DOMAIN b = 1 .. Len(b),
         NEW f, IsRun(f, base, b, Len(b))
  PROVE  f[Len(b)] = Loop(base, b)
<1>1. PICK g : IsRun(g, base, b, Len(b)) /\ g[Len(b)] = Loop(base, b)
  BY LoopRun
<1>. DEFINE S == {k \in 0 .. Len(b) : f[k] = g[k]}
<1>2. 0 \in S
  BY <1>1 DEF IsRun
<1>3. ASSUME NEW k \in 1 .. Len(b), k - 1 \in S PROVE k \in S
  BY <1>1, <1>3 DEF IsRun
<1>4. 0 .. Len(b) \subseteq S
  <2>. HIDE DEF S
  <2>. QED
    BY <1>2, <1>3, UpTo
<1>. QED
  BY <1>1, <1>4

\* No turn, no change.
LEMMA LoopEmpty == \A base : Loop(base, <<>>) = base
<1>. SUFFICES ASSUME NEW base PROVE Loop(base, <<>>) = base
  OBVIOUS
<1>1. PICK f : IsRun(f, base, <<>>, Len(<<>>)) /\ f[Len(<<>>)] = Loop(base, <<>>)
  <2>1. Len(<<>>) \in Nat /\ DOMAIN <<>> = 1 .. Len(<<>>)
    OBVIOUS
  <2>. QED
    BY <2>1, LoopRun
<1>. QED
  BY <1>1 DEF IsRun

\* The first turn, and then the loop over the rest.
LEMMA LoopHead ==
  ASSUME NEW base, NEW M, NEW b \in Seq(M), b # <<>>
  PROVE  Loop(base, b) = Loop(Step(base, Head(b)), Tail(b))
<1>1. PICK f : IsRun(f, base, b, Len(b)) /\ f[Len(b)] = Loop(base, b)
  BY LoopRun
<1>2. /\ Tail(b) \in Seq(M) /\ Len(Tail(b)) = Len(b) - 1 /\ Len(b) \in Nat \ {0}
      /\ Head(b) = b[1]
      /\ \A k \in 1 .. Len(b) - 1 : Tail(b)[k] = b[k + 1]
  OBVIOUS
<1>. DEFINE g == [k \in 0 .. Len(Tail(b)) |-> f[k + 1]]
<1>3. IsRun(g, Step(base, Head(b)), Tail(b), Len(Tail(b)))
  <2>1. g[0] = Step(base, Head(b))
    <3>1. f[1] = Step(f[1 - 1], b[1]) /\ f[0] = base
      BY <1>1, <1>2 DEF IsRun
    <3>. QED
      BY <1>2, <3>1
  <2>2. ASSUME NEW k \in 1 .. Len(Tail(b)) PROVE g[k] = Step(g[k - 1], Tail(b)[k])
    <3>1. f[k + 1] = Step(f[(k + 1) - 1], b[k + 1])
      BY <1>1, <1>2 DEF IsRun
    <3>2. g[k] = f[k + 1] /\ g[k - 1] = f[k] /\ (k + 1) - 1 = k
      BY <1>2
    <3>. QED
      BY <1>2, <3>1, <3>2
  <2>. HIDE DEF g
  <2>. QED
    BY <2>1, <2>2 DEF IsRun
<1>4. g[Len(Tail(b))] = Loop(Step(base, Head(b)), Tail(b))
  <2>. HIDE DEF g
  <2>1. Len(Tail(b)) \in Nat /\ DOMAIN Tail(b) = 1 .. Len(Tail(b))
    BY <1>2, SeqLen
  <2>. QED
    BY <1>3, <2>1, OneResult
<1>5. g[Len(Tail(b))] = f[Len(b)]
  BY <1>2
<1>. QED
  BY <1>1, <1>4, <1>5

\* The loop over all but the last, and then the last turn.
LEMMA LoopAppend ==
  ASSUME NEW base, NEW M, NEW b \in Seq(M), NEW x \in M
  PROVE  Loop(base, Append(b, x)) = Step(Loop(base, b), x)
<1>. DEFINE c == Append(b, x)
<1>1. /\ c \in Seq(M) /\ Len(c) = Len(b) + 1 /\ c[Len(b) + 1] = x
      /\ \A k \in 1 .. Len(b) : c[k] = b[k]
  OBVIOUS
<1>2. PICK f : IsRun(f, base, c, Len(c)) /\ f[Len(c)] = Loop(base, c)
  <2>1. Len(c) \in Nat /\ DOMAIN c = 1 .. Len(c)
    BY <1>1, SeqLen
  <2>. HIDE DEF c
  <2>. QED
    BY <2>1, LoopRun
<1>3. f[Len(b)] = Loop(base, b)
  <2>1. IsRun(f, base, b, Len(b))
    BY <1>1, <1>2 DEF IsRun
  <2>. QED
    BY <2>1, OneResult
<1>4. f[Len(b) + 1] = Step(f[(Len(b) + 1) - 1], c[Len(b) + 1])
  BY <1>1, <1>2 DEF IsRun
<1>. QED
  BY <1>1, <1>2, <1>3, <1>4

\* What every turn keeps, the loop keeps.
LEMMA LoopKeeps ==
  ASSUME NEW M, NEW b \in Seq(M), NEW S, NEW base \in S,
         \A s \in S : \A k \in DOMAIN b : Step(s, b[k]) \in S
  PROVE  Loop(base, b) \in S
<1>1. PICK f : IsRun(f, base, b, Len(b)) /\ f[Len(b)] = Loop(base, b)
  BY LoopRun
<1>. DEFINE T == {k \in 0 .. Len(b) : f[k] \in S}
<1>2. 0 \in T
  BY <1>1 DEF IsRun
<1>3. ASSUME NEW k \in 1 .. Len(b), k - 1 \in T PROVE k \in T
  BY <1>1, <1>3 DEF IsRun
<1>4. 0 .. Len(b) \subseteq T
  <2>1. Len(b) \in Nat
    BY SeqLen
  <2>. HIDE DEF T
  <2>. QED
    BY <1>2, <1>3, <2>1, UpTo
<1>. QED
  BY <1>1, <1>4, SeqLen

\* What one of the turns brings about, and every turn keeps, is so after the loop.
LEMMA LoopReaches ==
  ASSUME NEW M, NEW b \in Seq(M), NEW S, NEW T, NEW base \in T, NEW n \in DOMAIN b,
         \A s \in T : \A k \in DOMAIN b : Step(s, b[k]) \in T,
         \A s \in S : \A k \in DOMAIN b : Step(s, b[k]) \in S,
         \A s \in T : Step(s, b[n]) \in S
  PROVE  Loop(base, b) \in S
<1>1. PICK f : IsRun(f, base, b, Len(b)) /\ f[Len(b)] = Loop(base, b)
  BY LoopRun
<1>2. Len(b) \in Nat /\ n \in 1 .. Len(b)
  BY SeqLen
<1>. DEFINE U == {k \in 0 .. Len(b) : f[k] \in T /\ (k >= n => f[k] \in S)}
<1>3. 0 \in U
  BY <1>1, <1>2 DEF IsRun
<1>4. ASSUME NEW k \in 1 .. Len(b), k - 1 \in U PROVE k \in U
  <2>1. f[k] = Step(f[k - 1], b[k]) /\ k \in DOMAIN b
    BY <1>1 DEF IsRun
  <2>2. f[k] \in T
    BY <1>4, <2>1
  <2>3. CASE k = n
    BY <1>4, <2>1, <2>2, <2>3
  <2>4. CASE k # n
    <3>1. k >= n => k - 1 >= n
      BY <1>2, <2>4
    <3>. QED
      BY <1>4, <2>1, <2>2, <3>1
  <2>. QED
    BY <2>3, <2>4
<1>5. 0 .. Len(b) \subseteq U
  <2>. HIDE DEF U
  <2>. QED
    BY <1>2, <1>3, <1>4, UpTo
<1>6. Len(b) \in U
  <2>1. Len(b) \in 0 .. Len(b)
    BY <1>2
  <2>. QED
    BY <1>5, <2>1
<1>. QED
  BY <1>1, <1>2, <1>6

\* How two states are related, if every turn keeps it, is how the results are.
LEMMA LoopRelates ==
  ASSUME NEW M, NEW b \in Seq(M), NEW S, NEW s, NEW t, <<s, t>> \in S,
         \A p \in S : \A k \in DOMAIN b : <<Step(p[1], b[k]), Step(p[2], b[k])>> \in S
  PROVE  <<Loop(s, b), Loop(t, b)>> \in S
<1>1. PICK f : IsRun(f, s, b, Len(b)) /\ f[Len(b)] = Loop(s, b)
  BY LoopRun
<1>2. PICK g : IsRun(g, t, b, Len(b)) /\ g[Len(b)] = Loop(t, b)
  BY LoopRun
<1>. DEFINE T == {k \in 0 .. Len(b) : <<f[k], g[k]>> \in S}
<1>3. 0 \in T
  BY <1>1, <1>2 DEF IsRun
<1>4. ASSUME NEW k \in 1 .. Len(b), k - 1 \in T PROVE k \in T
  <2>1. <<Step(f[k - 1], b[k]), Step(g[k - 1], b[k])>> \in S
    <3>1. k \in DOMAIN b /\ <<f[k - 1], g[k - 1]>> \in S
      BY <1>4
    <3>2. <<f[k - 1], g[k - 1]>>[1] = f[k - 1] /\ <<f[k - 1], g[k - 1]>>[2] = g[k - 1]
      OBVIOUS
    <3>3. LET p == <<f[k - 1], g[k - 1]>> IN <<Step(p[1], b[k]), Step(p[2], b[k])>> \in S
      BY <3>1
    <3>. QED
      BY <3>2, <3>3
  <2>2. f[k] = Step(f[k - 1], b[k])
    BY <1>1 DEF IsRun
  <2>3. g[k] = Step(g[k - 1], b[k])
    BY <1>2 DEF IsRun
  <2>4. k \in 0 .. Len(b)
    BY SeqLen
  <2>. QED
    BY <2>1, <2>2, <2>3, <2>4
<1>5. 0 .. Len(b) \subseteq T
  <2>1. Len(b) \in Nat
    BY SeqLen
  <2>. HIDE DEF T
  <2>. QED
    BY <1>3, <1>4, <2>1, UpTo
<1>6. <<f[Len(b)], g[Len(b)]>> \in S
  <2>1. Len(b) \in 0 .. Len(b)
    BY SeqLen
  <2>. QED
    BY <1>5, <2>1
<1>. QED
  BY <1>1, <1>2, <1>6
=============================================================================
