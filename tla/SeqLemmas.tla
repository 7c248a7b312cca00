------------------------------ MODULE SeqLemmas -----------------------------
(***************************************************************************)
(* What the operators on sequences do to sequences whose elements have no  *)
(* type worth naming: the call stack, whose frames hold C names, and the   *)
(* header.  The library states the same facts for the members of Seq(S).   *)
(***************************************************************************)
EXTENDS Integers, Sequences, StableSort,
        SequenceTheorems, FiniteSetTheorems, WellFoundedInduction, TLAPS

IsSeq(s) == \E S : s \in Seq(S)

\* A sequence has a length, and nothing but the empty one has length 0.
LEMMA SeqLen ==
  ASSUME NEW s, IsSeq(s)
  PROVE  Len(s) \in Nat /\ DOMAIN s = 1..Len(s) /\ (s # <<>> => Len(s) \in 1..Len(s))
<1>1. PICK S : s \in Seq(S)
  BY DEF IsSeq
<1> QED
  BY <1>1, LenProperties, EmptySeq

LEMMA SeqEmpty == IsSeq(<<>>) /\ Len(<<>>) = 0
<1>1. <<>> \in Seq({})
  BY EmptySeq
<1> QED
  BY <1>1, EmptySeq DEF IsSeq

LEMMA SeqOne ==
  ASSUME NEW x
  PROVE  IsSeq(<<x>>) /\ Len(<<x>>) = 1 /\ <<x>>[1] = x
<1>1. <<x>> \in Seq({x})
  OBVIOUS
<1> QED
  BY <1>1 DEF IsSeq

\* Push: the old elements stay where they are below the new one.
LEMMA SeqAppend ==
  ASSUME NEW s, IsSeq(s), NEW x
  PROVE  /\ IsSeq(Append(s, x))
         /\ Len(Append(s, x)) = Len(s) + 1
         /\ \A i \in 1..Len(s) : Append(s, x)[i] = s[i]
         /\ Append(s, x)[Len(s) + 1] = x
<1>1. PICK S : s \in Seq(S)
  BY DEF IsSeq
<1>2. s \in Seq(S \union {x})
  BY <1>1, SeqMonotonic
<1> QED
  BY <1>2, AppendProperties DEF IsSeq

\* A prefix keeps the elements it has.
LEMMA SeqPrefix ==
  ASSUME NEW s, IsSeq(s), NEW n \in 0..Len(s)
  PROVE  /\ IsSeq(SubSeq(s, 1, n))
         /\ Len(SubSeq(s, 1, n)) = n
         /\ \A i \in 1..n : SubSeq(s, 1, n)[i] = s[i]
<1>1. PICK S : s \in Seq(S)
  BY DEF IsSeq
<1>2. Len(s) \in Nat
  BY SeqLen
<1>3. \A i \in 1..n : 1 <= i /\ i <= Len(s)
  BY <1>2
<1>4. SubSeq(s, 1, n) \in Seq(S) /\ Len(SubSeq(s, 1, n)) = n
  BY <1>1, <1>2, <1>3, SubSeqProperties
<1>5. \A i \in 1..n : SubSeq(s, 1, n)[i] = s[i]
  BY <1>1, <1>2, <1>3, SubSeqProperties
<1> QED
  BY <1>4, <1>5 DEF IsSeq

\* A concatenation holds the elements of both.
LEMMA SeqConcat ==
  ASSUME NEW s, NEW t, IsSeq(s), IsSeq(t)
  PROVE  /\ IsSeq(s \o t)
         /\ Len(s \o t) = Len(s) + Len(t)
         /\ \A i \in 1..Len(s \o t) :
              \/ i \in 1..Len(s) /\ (s \o t)[i] = s[i]
              \/ i - Len(s) \in 1..Len(t) /\ (s \o t)[i] = t[i - Len(s)]
<1>1. PICK S : s \in Seq(S)
  BY DEF IsSeq
<1>2. PICK T : t \in Seq(T)
  BY DEF IsSeq
<1>3. s \in Seq(S \union T) /\ t \in Seq(S \union T)
  BY <1>1, <1>2, SeqMonotonic
<1>4. Len(s) \in Nat /\ Len(t) \in Nat
  BY SeqLen
<1>5. s \o t \in Seq(S \union T) /\ Len(s \o t) = Len(s) + Len(t)
  BY <1>3, ConcatProperties
<1> QED
  BY <1>3, <1>4, <1>5, ConcatProperties DEF IsSeq

\* The tail, and the sequence with its last element changed.
LEMMA SeqTail ==
  ASSUME NEW s, IsSeq(s), s # <<>>
  PROVE  /\ IsSeq(Tail(s)) /\ Len(Tail(s)) = Len(s) - 1 /\ Len(s) \in Nat \ {0}
         /\ Head(s) = s[1]
         /\ \A i \in 1..(Len(s) - 1) : i + 1 \in 1..Len(s) /\ Tail(s)[i] = s[i + 1]
<1>1. PICK S : s \in Seq(S)
  BY DEF IsSeq
<1>2. Len(s) \in Nat \ {0}
  BY <1>1, EmptySeq
<1>3. /\ Tail(s) \in Seq(S) /\ Len(Tail(s)) = Len(s) - 1
      /\ \A i \in 1..(Len(s) - 1) : Tail(s)[i] = s[i + 1]
  BY <1>1, HeadTailProperties
<1>4. \A i \in 1..(Len(s) - 1) : i + 1 \in 1..Len(s)
  BY <1>2
<1> QED
  BY <1>1, <1>2, <1>3, <1>4 DEF IsSeq

LEMMA SeqTopSet ==
  ASSUME NEW s, IsSeq(s), s # <<>>, NEW x
  PROVE  /\ IsSeq([s EXCEPT ![Len(s)] = x]) /\ Len([s EXCEPT ![Len(s)] = x]) = Len(s)
         /\ \A i \in 1..(Len(s) - 1) : [s EXCEPT ![Len(s)] = x][i] = s[i]
         /\ [s EXCEPT ![Len(s)] = x][Len(s)] = x
<1> DEFINE n == Len(s)
           p == [s EXCEPT ![n] = x]
<1>1. PICK S : s \in Seq(S)
  BY DEF IsSeq
<1>2. s \in Seq(S \union {x})
  BY <1>1, SeqMonotonic
<1>3. n \in 1..n /\ n \in Nat
  BY SeqLen
<1>4. /\ p \in Seq(S \union {x}) /\ Len(p) = n
      /\ \A j \in 1..n : p[j] = IF j = n THEN x ELSE s[j]
  BY <1>2, <1>3, ExceptSeq
<1> HIDE DEF p
<1>5. p[n] = x /\ \A i \in 1..(n - 1) : p[i] = s[i]
  <2> HIDE DEF n
  <2> QED
    BY <1>3, <1>4
<1> QED
  BY <1>4, <1>5 DEF IsSeq, p

\* The least and the greatest element of a set of naturals, which a CHOOSE asks for.
LEMMA NatMin ==
  ASSUME NEW T, T \subseteq Nat, T # {}
  PROVE  \E m \in T : \A k \in T : m <= k
<1>1. IsWellFoundedOn(OpToRel(<, Nat), Nat)
  BY NatLessThanWellFounded
<1>2. PICK m \in T : \A k \in T : ~(<<k, m>> \in OpToRel(<, Nat))
  BY <1>1, WFMin
<1>3. \A k \in T : ~(k < m)
  BY <1>2 DEF OpToRel
<1>4. \A k \in T : m <= k
  <2> TAKE k \in T
  <2>1. k \in Nat /\ m \in Nat /\ ~(k < m)
    BY <1>3
  <2> QED
    BY <2>1
<1> QED
  BY <1>4

LEMMA NatMax ==
  ASSUME NEW n \in Nat, NEW T, T \subseteq 0..n, T # {}
  PROVE  \E m \in T : \A k \in T : k <= m
<1> DEFINE U == {n - k : k \in T}
<1>1. \A k \in T : k \in Int /\ n - k \in Nat
  OBVIOUS
<1>2. U \subseteq Nat /\ U # {}
  BY <1>1
<1> HIDE DEF U
<1>3. PICK u \in U : \A v \in U : u <= v
  BY <1>2, NatMin
<1>4. PICK m \in T : u = n - m
  BY DEF U
<1>5. \A k \in T : k <= m
  <2> TAKE k \in T
  <2>1. n - m <= n - k
    BY <1>3, <1>4 DEF U
  <2> QED
    BY <1>1, <2>1
<1> QED
  BY <1>5

-----------------------------------------------------------------------------
(***************************************************************************)
(* Loops.  What holds at the start of a loop and is kept by every turn     *)
(* holds to its end; and there is a function of what the turns make, for a *)
(* recursive definition to choose.                                         *)
(***************************************************************************)
LEMMA UpTo ==
  ASSUME NEW N \in Nat, NEW S, 0 \in S, \A n \in 1..N : n - 1 \in S => n \in S
  PROVE  \A n \in 0..N : n \in S
<1> DEFINE T == {n \in 0..N : n \notin S}
<1> SUFFICES ASSUME T # {}
             PROVE  FALSE
  OBVIOUS
<1>1. T \subseteq Nat
  OBVIOUS
<1>2. PICK m \in T : \A k \in T : m <= k
  BY <1>1, NatMin
<1>3. m \in 0..N /\ m \notin S
  OBVIOUS
<1> HIDE DEF T
<1>4. m \in 1..N /\ m - 1 \in 0..N /\ ~(m <= m - 1)
  BY <1>3
<1>5. m - 1 \in S
  BY <1>2, <1>4 DEF T
<1> QED
  BY <1>3, <1>4, <1>5

\* A loop over s that starts from `base'; a turn makes turn[<<x, e>>] of x and the next
\* element e.
IsLoop(E, D, s, base, turn) == s \in Seq(E) /\ base \in D /\ turn \in [D \X E -> D]

Turns(s, base, turn, f) ==
  f = [n \in 0..Len(s) |-> IF n = 0 THEN base ELSE turn[<<f[n - 1], s[n]>>]]

Outcome(s, base, turn) == (CHOOSE f : Turns(s, base, turn, f))[Len(s)]

LEMMA TurnsAre ==
  ASSUME NEW E, NEW D, NEW s, NEW base, NEW turn, IsLoop(E, D, s, base, turn),
         NEW f, Turns(s, base, turn, f)
  PROVE  /\ f \in [0..Len(s) -> D] /\ f[0] = base
         /\ \A n \in 1..Len(s) : n - 1 \in 0..Len(s) /\ n \in 0..Len(s)
                                 /\ f[n] = turn[<<f[n - 1], s[n]>>]
<1> DEFINE N == Len(s)
<1>1. s \in Seq(E) /\ base \in D /\ turn \in [D \X E -> D]
  BY DEF IsLoop
<1>2. N \in Nat /\ \A n \in 1..N : s[n] \in E
  BY <1>1
<1>3. f = [n \in 0..N |-> IF n = 0 THEN base ELSE turn[<<f[n - 1], s[n]>>]]
  BY DEF Turns
<1> HIDE DEF N
<1>4. \A n \in 1..N : n \in 0..N /\ n # 0 /\ n - 1 \in 0..N
  BY <1>2
<1>5. 0 \in 0..N
  BY <1>2
<1>6. f[0] = base /\ \A n \in 1..N : f[n] = turn[<<f[n - 1], s[n]>>]
  BY <1>3, <1>4, <1>5
<1>7. \A n \in 0..N : f[n] \in D
  <2> DEFINE S == {n \in 0..N : f[n] \in D}
  <2>1. 0 \in S
    BY <1>1, <1>5, <1>6
  <2>2. \A n \in 1..N : n - 1 \in S => n \in S
    BY <1>1, <1>2, <1>4, <1>6
  <2> HIDE DEF S
  <2>3. \A n \in 0..N : n \in S
    BY <1>2, <2>1, <2>2, UpTo
  <2> QED
    BY <2>3 DEF S
<1>8. f \in [0..N -> D]
  BY <1>3, <1>7
<1> QED
  BY <1>4, <1>6, <1>8 DEF N

LEMMA TurnsExist ==
  ASSUME NEW E, NEW D, NEW s, NEW base, NEW turn, IsLoop(E, D, s, base, turn)
  PROVE  \E f : Turns(s, base, turn, f)
<1> DEFINE N == Len(s)
           body(k, f) == IF k = 0 THEN base ELSE turn[<<f[k - 1], s[k]>>]
           So(n, f) == \A k \in 0..n : f[k] = body(k, f)
           S == {n \in 0..N : \E f \in [0..n -> D] : So(n, f)}
<1>1. s \in Seq(E) /\ base \in D /\ turn \in [D \X E -> D]
  BY DEF IsLoop
<1>2. N \in Nat /\ \A n \in 1..N : s[n] \in E
  BY <1>1
<1> HIDE DEF N
<1>3. 0 \in S
  <2> DEFINE f == [k \in 0..0 |-> base]
  <2>1. f \in [0..0 -> D] /\ 0 \in 0..N
    BY <1>1, <1>2
  <2>2. So(0, f)
    OBVIOUS
  <2> QED
    BY <2>1, <2>2
<1>4. ASSUME NEW n \in 1..N, n - 1 \in S
      PROVE  n \in S
  <2>1. PICK f \in [0..(n - 1) -> D] : So(n - 1, f)
    BY <1>4
  <2>2. /\ n - 1 \in 0..(n - 1) /\ n \in 0..N /\ n \in 0..n /\ n # 0 /\ n \in Nat
        /\ \A k \in 0..n : k = n \/ k \in 0..(n - 1)
        /\ \A k \in 0..(n - 1) : k # n /\ k \in 0..n /\ (k # 0 => k - 1 \in 0..(n - 1))
    BY <1>2
  <2>3. f[n - 1] \in D /\ turn[<<f[n - 1], s[n]>>] \in D
    BY <1>1, <1>2, <2>2
  <2> DEFINE g == [k \in 0..n |-> IF k = n THEN turn[<<f[n - 1], s[n]>>] ELSE f[k]]
  <2>4. g \in [0..n -> D]
    <3>1. ASSUME NEW k \in 0..n
          PROVE  (IF k = n THEN turn[<<f[n - 1], s[n]>>] ELSE f[k]) \in D
      BY <2>2, <2>3
    <3> QED
      BY <3>1
  <2>5. (\A k \in 0..(n - 1) : g[k] = f[k]) /\ g[n] = turn[<<f[n - 1], s[n]>>]
    BY <2>2
  <2> HIDE DEF g
  <2>6. \A k \in 0..(n - 1) : g[k] = body(k, g)
    BY <2>1, <2>2, <2>5
  <2>7. g[n] = body(n, g)
    BY <2>2, <2>5
  <2>8. So(n, g)
    BY <2>2, <2>6, <2>7
  <2> QED
    BY <2>2, <2>4, <2>8
<1> HIDE DEF S
<1>5. N \in S
  <2>1. N \in 0..N
    BY <1>2
  <2> QED
    BY <1>2, <1>3, <1>4, <2>1, UpTo
<1>6. PICK f \in [0..N -> D] : So(N, f)
  BY <1>5 DEF S
<1>7. Turns(s, base, turn, f)
  BY <1>6 DEF Turns, N
<1> QED
  BY <1>7

\* Whatever makes the same turns has the same outcome, and it is of their type.
LEMMA OutcomeIs ==
  ASSUME NEW E, NEW D, NEW s, NEW base, NEW turn, IsLoop(E, D, s, base, turn),
         NEW f, f[0] = base,
         \A n \in 1..Len(s) : f[n - 1] \in D => f[n] = turn[<<f[n - 1], s[n]>>]
  PROVE  f[Len(s)] = Outcome(s, base, turn) /\ f[Len(s)] \in D
<1> DEFINE N == Len(s)
           g == CHOOSE h : Turns(s, base, turn, h)
<1>1. s \in Seq(E) /\ base \in D /\ turn \in [D \X E -> D]
  BY DEF IsLoop
<1>2. Turns(s, base, turn, g)
  BY TurnsExist
<1> HIDE DEF g
<1>3. /\ g \in [0..N -> D] /\ g[0] = base
      /\ \A n \in 1..N : n - 1 \in 0..N /\ n \in 0..N /\ g[n] = turn[<<g[n - 1], s[n]>>]
  BY <1>2, TurnsAre
<1>4. N \in Nat
  BY <1>1
<1> HIDE DEF N
<1>5. \A n \in 0..N : f[n] = g[n]
  <2> DEFINE S == {n \in 0..N : f[n] = g[n]}
  <2>1. 0 \in S
    BY <1>3, <1>4
  <2>2. \A n \in 1..N : n - 1 \in S => n \in S
    BY <1>3 DEF N
  <2> HIDE DEF S
  <2>3. \A n \in 0..N : n \in S
    BY <1>4, <2>1, <2>2, UpTo
  <2> QED
    BY <2>3 DEF S
<1>6. N \in 0..N
  BY <1>4
<1>7. f[N] = g[N] /\ g[N] \in D
  BY <1>3, <1>5, <1>6
<1> QED
  BY <1>7 DEF Outcome, N, g

\* The turns of a loop, to look at one by one.
LEMMA OutcomeOf ==
  ASSUME NEW E, NEW D, NEW s, NEW base, NEW turn, IsLoop(E, D, s, base, turn)
  PROVE  \E f \in [0..Len(s) -> D] :
           /\ f[0] = base /\ f[Len(s)] = Outcome(s, base, turn)
           /\ \A n \in 1..Len(s) : n - 1 \in 0..Len(s) /\ n \in 0..Len(s)
                                   /\ f[n] = turn[<<f[n - 1], s[n]>>]
<1> DEFINE g == CHOOSE h : Turns(s, base, turn, h)
<1>1. Turns(s, base, turn, g)
  BY TurnsExist
<1>2. g[Len(s)] = Outcome(s, base, turn)
  BY DEF Outcome
<1> HIDE DEF g
<1> QED
  BY <1>1, <1>2, TurnsAre

\* What every turn keeps holds of the outcome.
LEMMA OutcomeKeeps ==
  ASSUME NEW E, NEW D, NEW s, NEW base, NEW turn, IsLoop(E, D, s, base, turn),
         NEW S, base \in S,
         \A x \in D : x \in S => \A n \in 1..Len(s) : turn[<<x, s[n]>>] \in S
  PROVE  Outcome(s, base, turn) \in S
<1> DEFINE N == Len(s)
<1>1. s \in Seq(E) /\ base \in D /\ turn \in [D \X E -> D]
  BY DEF IsLoop
<1>2. PICK f \in [0..N -> D] :
        /\ f[0] = base /\ f[N] = Outcome(s, base, turn)
        /\ \A n \in 1..N : n - 1 \in 0..N /\ n \in 0..N /\ f[n] = turn[<<f[n - 1], s[n]>>]
  BY OutcomeOf
<1>3. N \in Nat
  BY <1>1
<1> HIDE DEF N
<1> DEFINE T == {n \in 0..N : f[n] \in S}
<1>4. 0 \in T
  BY <1>2, <1>3
<1>5. \A n \in 1..N : n - 1 \in T => n \in T
  BY <1>2 DEF N
<1> HIDE DEF T
<1>6. \A n \in 0..N : n \in T
  BY <1>3, <1>4, <1>5, UpTo
<1>7. N \in T
  BY <1>3, <1>6
<1> QED
  BY <1>2, <1>7 DEF T

\* A loop over nothing, one whose first turn is made, and one with another turn.
LEMMA OutcomeEmpty ==
  ASSUME NEW E, NEW D, NEW base \in D, NEW turn \in [D \X E -> D]
  PROVE  Outcome(<<>>, base, turn) = base
<1>1. <<>> \in Seq(E) /\ Len(<<>>) = 0
  OBVIOUS
<1>2. IsLoop(E, D, <<>>, base, turn)
  BY <1>1 DEF IsLoop
<1> QED
  BY <1>1, <1>2, OutcomeOf

LEMMA OutcomeFront ==
  ASSUME NEW E, NEW D, NEW s, NEW base, NEW turn, IsLoop(E, D, s, base, turn), s # <<>>
  PROVE  Outcome(s, base, turn) = Outcome(Tail(s), turn[<<base, Head(s)>>], turn)
<1> DEFINE N == Len(s)
           t == Tail(s)
           x == turn[<<base, Head(s)>>]
<1>1. s \in Seq(E) /\ base \in D /\ turn \in [D \X E -> D]
  BY DEF IsLoop
<1>2. /\ N \in Nat /\ N # 0 /\ t \in Seq(E) /\ Len(t) = N - 1
      /\ Head(s) = s[1] /\ s[1] \in E
      /\ \A n \in 1..(N - 1) : t[n] = s[n + 1]
  BY <1>1, EmptySeq, HeadTailProperties
<1>3. PICK f \in [0..N -> D] :
        /\ f[0] = base /\ f[N] = Outcome(s, base, turn)
        /\ \A n \in 1..N : n - 1 \in 0..N /\ n \in 0..N /\ f[n] = turn[<<f[n - 1], s[n]>>]
  BY OutcomeOf
<1>4. x \in D
  BY <1>1, <1>2
<1> HIDE DEF N, t
<1> DEFINE g == [n \in 0..(N - 1) |-> f[n + 1]]
<1>5. /\ 0 \in 0..(N - 1) /\ N - 1 \in 0..(N - 1) /\ (N - 1) + 1 = N /\ 0 + 1 = 1
      /\ 1 \in 1..N /\ 1 - 1 = 0
      /\ \A n \in 1..(N - 1) : /\ n - 1 \in 0..(N - 1) /\ n \in 0..(N - 1)
                               /\ n + 1 \in 1..N /\ (n + 1) - 1 = n /\ (n - 1) + 1 = n
  BY <1>2
<1>6. g[0] = f[1] /\ g[N - 1] = f[N] /\ \A n \in 1..(N - 1) : g[n] = f[n + 1] /\ g[n - 1] = f[n]
  BY <1>5
<1> HIDE DEF g
<1>7. g[0] = x
  BY <1>2, <1>3, <1>5, <1>6
<1>8. ASSUME NEW n \in 1..(N - 1)
      PROVE  g[n] = turn[<<g[n - 1], t[n]>>]
  <2>1. n + 1 \in 1..N /\ (n + 1) - 1 = n
    BY <1>5
  <2>2. f[n + 1] = turn[<<f[(n + 1) - 1], s[n + 1]>>]
    BY <1>3, <2>1
  <2>3. g[n] = f[n + 1] /\ g[n - 1] = f[n] /\ t[n] = s[n + 1]
    BY <1>2, <1>6
  <2> QED
    BY <2>1, <2>2, <2>3
<1> HIDE DEF x
<1>9. IsLoop(E, D, t, x, turn)
  BY <1>1, <1>2, <1>4 DEF IsLoop
<1>10. \A n \in 1..Len(t) : g[n - 1] \in D => g[n] = turn[<<g[n - 1], t[n]>>]
  BY <1>2, <1>8
<1>11. g[Len(t)] = Outcome(t, x, turn)
  BY <1>7, <1>9, <1>10, OutcomeIs
<1> QED
  BY <1>2, <1>3, <1>6, <1>11 DEF t, x

LEMMA OutcomeBack ==
  ASSUME NEW E, NEW D, NEW s, NEW base, NEW turn, IsLoop(E, D, s, base, turn), NEW e \in E
  PROVE  Outcome(Append(s, e), base, turn) = turn[<<Outcome(s, base, turn), e>>]
<1> DEFINE N == Len(s)
           t == Append(s, e)
<1>1. s \in Seq(E) /\ base \in D /\ turn \in [D \X E -> D]
  BY DEF IsLoop
<1>2. /\ N \in Nat /\ t \in Seq(E) /\ Len(t) = N + 1 /\ t[N + 1] = e
      /\ \A n \in 1..N : t[n] = s[n]
  BY <1>1, AppendProperties
<1> HIDE DEF t
<1>3. IsLoop(E, D, t, base, turn)
  BY <1>1, <1>2 DEF IsLoop
<1>4. PICK f \in [0..Len(t) -> D] :
        /\ f[0] = base /\ f[Len(t)] = Outcome(t, base, turn)
        /\ \A n \in 1..Len(t) : /\ n - 1 \in 0..Len(t) /\ n \in 0..Len(t)
                                /\ f[n] = turn[<<f[n - 1], t[n]>>]
  BY <1>3, OutcomeOf
<1> HIDE DEF N
<1>5. /\ N + 1 \in 1..Len(t) /\ (N + 1) - 1 = N /\ \A n \in 1..N : n \in 1..Len(t)
  BY <1>2
<1>6. \A n \in 1..N : f[n] = turn[<<f[n - 1], s[n]>>]
  BY <1>2, <1>4, <1>5
<1>7. f[N] = Outcome(s, base, turn)
  BY <1>4, <1>6, OutcomeIs DEF N
<1> QED
  BY <1>2, <1>4, <1>5, <1>7 DEF t

-----------------------------------------------------------------------------
(* A stable sort: every member has a place of its own, and they are in order. *)
Strict(S, before) ==
  /\ \A i, j, k \in S : <<i, j>> \in before /\ <<j, k>> \in before => <<i, k>> \in before
  /\ \A i, j \in S : i # j => <<i, j>> \in before \/ <<j, i>> \in before
  /\ \A i \in S : <<i, i>> \notin before

LEMMA PlaceBounds ==
  ASSUME NEW S, IsFiniteSet(S), NEW before, Strict(S, before), NEW k \in S
  PROVE  PlaceIn(S, before, k) \in 1..Cardinality(S)
<1> DEFINE T == {j \in S : <<j, k>> \in before}
<1>1. Cardinality(S) \in Nat
  BY FS_CardinalityType
<1>2. IsFiniteSet(S \ {k}) /\ Cardinality(S \ {k}) = Cardinality(S) - 1
  BY FS_RemoveElement
<1>3. T \subseteq S \ {k}
  BY DEF Strict
<1>4. PlaceIn(S, before, k) = Cardinality(T) + 1
  BY DEF PlaceIn
<1> HIDE DEF T
<1>5. IsFiniteSet(T) /\ Cardinality(T) <= Cardinality(S) - 1
  BY <1>2, <1>3, FS_Subset
<1>6. Cardinality(T) \in Nat
  BY <1>5, FS_CardinalityType
<1> QED
  BY <1>1, <1>4, <1>5, <1>6

LEMMA PlaceGrows ==
  ASSUME NEW S, IsFiniteSet(S), NEW before, Strict(S, before), NEW i \in S, NEW j \in S,
         <<i, j>> \in before
  PROVE  PlaceIn(S, before, i) < PlaceIn(S, before, j)
<1> DEFINE T(k) == {m \in S : <<m, k>> \in before}
<1>1. IsFiniteSet(T(i)) /\ IsFiniteSet(T(j))
  BY FS_Subset
<1>2. T(i) \subseteq T(j) /\ i \in T(j) /\ i \notin T(i)
  BY DEF Strict
<1>3. PlaceIn(S, before, i) = Cardinality(T(i)) + 1 /\ PlaceIn(S, before, j) = Cardinality(T(j)) + 1
  BY DEF PlaceIn
<1> HIDE DEF T
<1>4. Cardinality(T(i)) \in Nat /\ Cardinality(T(j)) \in Nat
  BY <1>1, FS_CardinalityType
<1>5. Cardinality(T(i)) <= Cardinality(T(j)) /\ Cardinality(T(i)) # Cardinality(T(j))
  BY <1>1, <1>2, FS_Subset
<1> QED
  BY <1>3, <1>4, <1>5

LEMMA PlaceOnto ==
  ASSUME NEW S, IsFiniteSet(S), NEW before, Strict(S, before), NEW n \in 1..Cardinality(S)
  PROVE  \E k \in S : PlaceIn(S, before, k) = n
<1> DEFINE f == [k \in S |-> PlaceIn(S, before, k)]
<1>1. Cardinality(S) \in Nat
  BY FS_CardinalityType
<1>2. f \in [S -> 1..Cardinality(S)]
  BY PlaceBounds
<1>3. ASSUME NEW i \in S, NEW j \in S, f[i] = f[j]
      PROVE  i = j
  <2> SUFFICES ASSUME i # j
               PROVE  FALSE
    OBVIOUS
  <2>1. PlaceIn(S, before, i) < PlaceIn(S, before, j) \/ PlaceIn(S, before, j) < PlaceIn(S, before, i)
    BY PlaceGrows DEF Strict
  <2>2. PlaceIn(S, before, i) = PlaceIn(S, before, j) /\ PlaceIn(S, before, i) \in Int
    BY <1>1, <1>3, PlaceBounds
  <2> QED
    BY <2>1, <2>2
<1>4. f \in Injection(S, 1..Cardinality(S))
  BY <1>2, <1>3 DEF Injection, IsInjective
<1>5. IsFiniteSet(1..Cardinality(S)) /\ Cardinality(1..Cardinality(S)) = Cardinality(S)
  BY <1>1, FS_Interval
<1> HIDE DEF f
<1>6. f \in Surjection(S, 1..Cardinality(S))
  BY <1>4, <1>5, FS_Injection
<1>7. PICK k \in S : f[k] = n
  BY <1>6 DEF Surjection
<1> QED
  BY <1>7 DEF f

LEMMA ArrangeSorts ==
  ASSUME NEW S, IsFiniteSet(S), NEW before, Strict(S, before),
         NEW s, s = Arrange(S, before)
  PROVE  /\ s \in [1..Cardinality(S) -> S]
         /\ \A i, j \in 1..Cardinality(S) : i < j => <<s[i], s[j]>> \in before
         /\ \A k \in S : \E n \in 1..Cardinality(S) : s[n] = k
<1> DEFINE N == 1..Cardinality(S)
           at(n) == CHOOSE k \in S : PlaceIn(S, before, k) = n
<1>1. Cardinality(S) \in Nat
  BY FS_CardinalityType
<1>2. \A n \in N : at(n) \in S /\ PlaceIn(S, before, at(n)) = n
  BY PlaceOnto
<1>3. s = [n \in N |-> at(n)]
  BY DEF Arrange
<1> HIDE DEF at
<1>4. s \in [N -> S] /\ \A n \in N : s[n] \in S /\ PlaceIn(S, before, s[n]) = n
  BY <1>2, <1>3
<1>5. ASSUME NEW i \in N, NEW j \in N, i < j
      PROVE  <<s[i], s[j]>> \in before
  <2>1. s[i] # s[j]
    BY <1>1, <1>4, <1>5
  <2>2. ASSUME <<s[j], s[i]>> \in before
        PROVE  FALSE
    <3>1. PlaceIn(S, before, s[j]) < PlaceIn(S, before, s[i])
      BY <1>4, <2>2, PlaceGrows
    <3>2. j < i /\ i \in Int /\ j \in Int
      BY <1>1, <1>4, <3>1
    <3> QED
      BY <1>5, <3>2
  <2> QED
    BY <1>4, <2>1, <2>2 DEF Strict
<1>6. ASSUME NEW k \in S
      PROVE  \E n \in N : s[n] = k
  <2>1. PlaceIn(S, before, k) \in N
    BY PlaceBounds
  <2>2. PICK n \in N : n = PlaceIn(S, before, k)
    BY <2>1
  <2>3. s[n] = k
    <3> SUFFICES ASSUME s[n] # k
                 PROVE  FALSE
      OBVIOUS
    <3>1. s[n] \in S /\ PlaceIn(S, before, s[n]) = PlaceIn(S, before, k)
      BY <1>4, <2>2
    <3>2. <<s[n], k>> \in before \/ <<k, s[n]>> \in before
      BY <3>1 DEF Strict
    <3>3. PlaceIn(S, before, s[n]) < PlaceIn(S, before, k)
          \/ PlaceIn(S, before, k) < PlaceIn(S, before, s[n])
      BY <3>1, <3>2, PlaceGrows
    <3> QED
      BY <1>1, <2>1, <3>1, <3>3
  <2> QED
    BY <2>3
<1> QED
  BY <1>4, <1>5, <1>6
=============================================================================
