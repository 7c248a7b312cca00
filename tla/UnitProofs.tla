----------------------------- MODULE UnitProofs -----------------------------
(***************************************************************************)
(* A unit keeps what it holds, whatever the tree and whatever refers to    *)
(* what.  The invariant says of every entry that is to be kept where it    *)
(* is: done with, on the stack, not met yet by a call on the stack, or put *)
(* aside; an entry is in one of these places if and only if its parent is  *)
(* done or has met it.  When nothing is on the stack and nothing aside, an *)
(* induction down the tree shows that all are done.                        *)
(***************************************************************************)
EXTENDS UnitParser, SeqLemmas

\* What UnitsAssumption and WellPlaced say of the entries of a unit.
Tree(D) ==
  /\ DOMAIN D \subseteq Nat /\ IsFiniteSet(DOMAIN D) /\ 0 \in DOMAIN D
  /\ D[0].tag = "unit"
  /\ \A d \in DOMAIN D \ {0} : /\ D[d].parent \in DOMAIN D /\ D[d].parent < d
                               /\ D[d].tag # "unit"
  /\ \A c, d \in DOMAIN D \ {0} :
       D[d].parent < c /\ c < d => D[d].parent <= D[c].parent
  /\ \A d \in DOMAIN D \ {0} :
       \/ D[d].tag \in {"unnamed", "inheritance", "variable", "parameter", "other"}
       \/ D[d].tag \in Takes(D[D[d].parent].tag)

Scopes == {"namespace", "function", "struct", "union", "enum", "block", "part", "variant"}
Classes == {"struct", "union", "enum"}
With(D, tags) == {d \in DOMAIN D : D[d].tag \in tags}
Kept(D) == With(D, Scopes \union {"named"})
Functions(D) == With(D, {"function"})
Stored(D) == With(D, TypeTags \ {"unnamed"})
Kids(D, d) == {c \in DOMAIN D \ {0} : D[c].parent = d}

Elements(s) == {s[k] : k \in 1..Len(s)}
Increasing(s) == \A i, j \in 1..Len(s) : i < j => s[i] < s[j]
Incr(s, S) == IsSeq(s) /\ Elements(s) = S /\ Increasing(s)

LEMMA TreeOf ==
  ASSUME NEW u \in Units, WellPlaced(u)
  PROVE  Tree(u.die)
<1> DEFINE D == u.die
           n == Cardinality(DOMAIN D) - 1
<1>1. IsUnit(u)
  BY UnitsAssumption
<1>2. /\ IsFiniteSet(DOMAIN D) /\ 0 \in DOMAIN D
      /\ D \in [0..n -> [tag : Tags, parent : 0..n, name : Nat \union {NoEntry},
                         refers : (0..n) \union {NoEntry}, origin : BOOLEAN,
                         decl : BOOLEAN, ty : (0..n) \union {NoEntry}]]
      /\ D[0].tag = "unit"
      /\ \A d \in 1..n : D[d].parent < d /\ D[d].tag # "unit"
      /\ \A c, d \in 1..n : D[d].parent < c /\ c < d => D[d].parent <= D[c].parent
  BY <1>1 DEF IsUnit
<1>3. n \in Int
  BY <1>2, FS_CardinalityType
<1>4. \A d \in DOMAIN D \ {0} : \/ D[d].tag \in {"unnamed", "inheritance", "variable", "parameter", "other"}
                                \/ D[d].tag \in Takes(D[D[d].parent].tag)
  BY DEF WellPlaced
<1> HIDE DEF n, D
<1>5. DOMAIN D = 0..n
  BY <1>2
<1>6. DOMAIN D \subseteq Nat /\ DOMAIN D \ {0} = 1..n
  BY <1>3, <1>5
<1>7. \A d \in 1..n : D[d].parent \in DOMAIN D
  BY <1>2, <1>5, <1>6
<1>8. Tree(D)
  BY <1>2, <1>4, <1>5, <1>6, <1>7 DEF Tree
<1> QED
  BY <1>8 DEF D

\* A list of one item is not the empty one.
LEMMA OneIsSome ==
  ASSUME NEW s, Len(s) = 1
  PROVE  s # <<>>
<1>1. Len(<<>>) = 0
  BY SeqEmpty
<1> QED
  BY <1>1

-----------------------------------------------------------------------------
(* Increasing sequences.                                                   *)
(***************************************************************************)
LEMMA ElementsEmpty == Elements(<<>>) = {}
  BY SeqEmpty DEF Elements

LEMMA ElementsAppend ==
  ASSUME NEW s, IsSeq(s), NEW x
  PROVE  Elements(Append(s, x)) = Elements(s) \union {x}
<1> DEFINE t == Append(s, x)
           n == Len(s)
<1>1. n \in Nat /\ Len(t) = n + 1 /\ t[n + 1] = x /\ \A i \in 1..n : t[i] = s[i]
  BY SeqLen, SeqAppend
<1> HIDE DEF t
<1>2. Elements(s) = {s[i] : i \in 1..n} /\ Elements(t) = {t[i] : i \in 1..(n + 1)}
  BY <1>1 DEF Elements
<1> HIDE DEF n
<1>3. 1..(n + 1) = 1..n \union {n + 1}
  BY <1>1
<1> QED
  BY <1>1, <1>2, <1>3 DEF t

LEMMA ElementsTail ==
  ASSUME NEW s, IsSeq(s), s # <<>>
  PROVE  Elements(s) = {Head(s)} \union Elements(Tail(s))
<1> DEFINE t == Tail(s)
           n == Len(s)
<1>1. /\ n \in Nat \ {0} /\ Len(t) = n - 1 /\ Head(s) = s[1]
      /\ \A i \in 1..(n - 1) : t[i] = s[i + 1]
  BY SeqTail
<1> HIDE DEF t
<1>2. Elements(s) = {s[i] : i \in 1..n} /\ Elements(t) = {t[i] : i \in 1..(n - 1)}
  BY <1>1 DEF Elements
<1> HIDE DEF n
<1>3. \A i \in 1..n : i # 1 => i - 1 \in 1..(n - 1) /\ t[i - 1] = s[i]
  <2> TAKE i \in 1..n
  <2> HAVE i # 1
  <2>1. i - 1 \in 1..(n - 1) /\ (i - 1) + 1 = i
    BY <1>1
  <2> QED
    BY <1>1, <2>1
<1>4. \A i \in 1..(n - 1) : i + 1 \in 1..n
  BY <1>1
<1>5. 1 \in 1..n
  BY <1>1
<1>6. \A i \in 1..n : s[i] = Head(s) \/ s[i] \in Elements(t)
  BY <1>1, <1>2, <1>3
<1>7. Head(s) \in Elements(s) /\ Elements(t) \subseteq Elements(s)
  BY <1>1, <1>2, <1>4, <1>5
<1> QED
  BY <1>2, <1>6, <1>7 DEF t

LEMMA IncreasingTail ==
  ASSUME NEW s, IsSeq(s), s # <<>>, Increasing(s)
  PROVE  Increasing(Tail(s)) /\ \A x \in Elements(Tail(s)) : Head(s) < x
<1> DEFINE t == Tail(s)
           n == Len(s)
<1>1. /\ n \in Nat \ {0} /\ Len(t) = n - 1 /\ Head(s) = s[1]
      /\ \A i \in 1..(n - 1) : t[i] = s[i + 1]
  BY SeqTail
<1>2. \A i, j \in 1..n : i < j => s[i] < s[j]
  BY DEF Increasing
<1>3. Elements(t) = {t[i] : i \in 1..(n - 1)}
  BY <1>1 DEF Elements
<1> HIDE DEF t, n
<1>4. \A i \in 1..(n - 1) : i + 1 \in 1..n /\ 1 \in 1..n /\ 1 < i + 1
  BY <1>1
<1>5. \A i, j \in 1..(n - 1) : i < j => i + 1 < j + 1
  BY <1>1
<1>6. \A i, j \in 1..Len(t) : i < j => t[i] < t[j]
  BY <1>1, <1>2, <1>4, <1>5
<1>7. \A x \in Elements(t) : Head(s) < x
  BY <1>1, <1>2, <1>3, <1>4
<1> QED
  BY <1>6, <1>7 DEF Increasing, t

LEMMA IncrAppend ==
  ASSUME NEW s, NEW S, Incr(s, S), NEW x, \A y \in S : y < x
  PROVE  Incr(Append(s, x), S \union {x})
<1> DEFINE t == Append(s, x)
           n == Len(s)
<1>1. IsSeq(s) /\ Elements(s) = S /\ \A i, j \in 1..n : i < j => s[i] < s[j]
  BY DEF Incr, Increasing
<1>2. /\ n \in Nat /\ IsSeq(t) /\ Len(t) = n + 1 /\ t[n + 1] = x
      /\ \A i \in 1..n : t[i] = s[i]
  BY <1>1, SeqLen, SeqAppend
<1>3. Elements(t) = S \union {x}
  BY <1>1, ElementsAppend
<1>4. \A i \in 1..n : s[i] \in S
  BY <1>1 DEF Elements
<1> HIDE DEF t, n
<1>5. ASSUME NEW i \in 1..(n + 1), NEW j \in 1..(n + 1), i < j
      PROVE  t[i] < t[j]
  <2>1. i \in 1..n /\ (j \in 1..n \/ j = n + 1)
    BY <1>2, <1>5
  <2> QED
    BY <1>1, <1>2, <1>4, <1>5, <2>1
<1>6. Increasing(t)
  BY <1>2, <1>5 DEF Increasing
<1> QED
  BY <1>2, <1>3, <1>6 DEF Incr, t

LEMMA IncrConcat ==
  ASSUME NEW s, NEW S, Incr(s, S), NEW t, NEW T, Incr(t, T), \A x \in S, y \in T : x < y
  PROVE  Incr(s \o t, S \union T)
<1> DEFINE u == s \o t
           n == Len(s)
           m == Len(t)
<1>1. /\ IsSeq(s) /\ Elements(s) = S /\ \A i, j \in 1..n : i < j => s[i] < s[j]
      /\ IsSeq(t) /\ Elements(t) = T /\ \A i, j \in 1..m : i < j => t[i] < t[j]
  BY DEF Incr, Increasing
<1>2. /\ n \in Nat /\ m \in Nat /\ IsSeq(u) /\ Len(u) = n + m
      /\ \A i \in 1..(n + m) : \/ i \in 1..n /\ u[i] = s[i]
                               \/ i - n \in 1..m /\ u[i] = t[i - n]
  BY <1>1, SeqLen, SeqConcat
<1>3. (\A i \in 1..n : s[i] \in S) /\ (\A i \in 1..m : t[i] \in T)
  BY <1>1 DEF Elements
<1>4. S = {s[i] : i \in 1..n} /\ T = {t[i] : i \in 1..m}
  BY <1>1 DEF Elements
<1>5. Elements(u) = {u[i] : i \in 1..(n + m)}
  BY <1>2 DEF Elements
<1> HIDE DEF u, n, m
<1>6. \A i \in 1..n : i \in 1..(n + m) /\ ~(i - n \in 1..m)
  BY <1>2
<1>7. \A i \in 1..m : i + n \in 1..(n + m) /\ ~(i + n \in 1..n) /\ (i + n) - n = i
  BY <1>2
<1>8. (\A i \in 1..n : u[i] = s[i]) /\ (\A i \in 1..m : u[i + n] = t[i])
  BY <1>2, <1>6, <1>7
<1>9. Elements(u) = S \union T
  <2>1. Elements(u) \subseteq S \union T
    BY <1>2, <1>3, <1>5
  <2>2. S \subseteq Elements(u)
    BY <1>4, <1>5, <1>6, <1>8
  <2>3. T \subseteq Elements(u)
    BY <1>4, <1>5, <1>7, <1>8
  <2> QED
    BY <2>1, <2>2, <2>3
<1>10. ASSUME NEW i \in 1..(n + m), NEW j \in 1..(n + m), i < j
       PROVE  u[i] < u[j]
  <2>1. CASE i \in 1..n /\ j \in 1..n
    BY <1>1, <1>8, <1>10, <2>1
  <2>2. CASE i \in 1..n /\ j \notin 1..n
    <3>1. j - n \in 1..m /\ u[j] = t[j - n]
      BY <1>2, <2>2
    <3> QED
      BY <1>3, <1>8, <2>2, <3>1
  <2>3. CASE i \notin 1..n
    <3>1. i - n \in 1..m /\ u[i] = t[i - n]
      BY <1>2, <2>3
    <3>2. j \notin 1..n
      BY <1>2, <1>10, <2>3
    <3>3. j - n \in 1..m /\ u[j] = t[j - n]
      BY <1>2, <3>2
    <3>4. i - n < j - n
      BY <1>2, <1>10
    <3> QED
      BY <1>1, <3>1, <3>3, <3>4
  <2> QED
    BY <2>1, <2>2, <2>3
<1>11. Increasing(u)
  BY <1>2, <1>10 DEF Increasing
<1> QED
  BY <1>2, <1>9, <1>11 DEF Incr, u

LEMMA IncrEmpty == Incr(<<>>, {})
  BY SeqEmpty, ElementsEmpty DEF Incr, Increasing

-----------------------------------------------------------------------------
(* The stack: every frame is for a child of the one below, which has met   *)
(* its children up to there; what a frame has not met are its last ones.   *)
(***************************************************************************)
Suffix(s, S) ==
  /\ IsSeq(s) /\ Elements(s) \subseteq S /\ Increasing(s)
  /\ \A r \in Elements(s), c \in S : r < c => c \in Elements(s)

ItemOK(D, d, item) ==
  /\ D[d].tag \in Classes \union {"function"} => "die" \in DOMAIN item /\ item.die = d
  /\ D[d].tag \in Classes \union {"part"} => "members" \in DOMAIN item

FrameOK(D, f) ==
  /\ DOMAIN f = {"die", "ns", "rest", "item"}
  /\ f.die \in With(D, Scopes \union {"unit"})
  /\ Suffix(f.rest, Kids(D, f.die))
  /\ ItemOK(D, f.die, f.item)

\* The children of d behind c, which are what a call for d has left when it is at c.
AtChild(D, d, rest, c) == c \in Kids(D, d) /\ \A k \in Kids(D, d) : k \in Elements(rest) <=> c < k

StackOK(D, st) ==
  /\ IsSeq(st)
  /\ \A i \in 1..Len(st) : FrameOK(D, st[i])
  /\ \A i, j \in 1..Len(st) : st[i].die = st[j].die => i = j
  /\ \A i \in 1..(Len(st) - 1) : AtChild(D, st[i].die, st[i].rest, st[i + 1].die)
  /\ Len(st) > 0 => st[1].die = 0 \/ D[st[1].die].tag = "function"

On(st) == {st[i].die : i \in 1..Len(st)}
Unread(st) == UNION {Elements(st[i].rest) : i \in 1..Len(st)}

\* q is st with the frame on top for the same entry.
SameBelow(st, q) ==
  /\ Len(q) = Len(st) /\ \A i \in 1..(Len(st) - 1) : q[i] = st[i]
  /\ q[Len(st)].die = st[Len(st)].die

\* q is st with g on top.
TopIs(st, q, g) ==
  IsSeq(q) /\ Len(q) = Len(st) /\ q[Len(st)] = g /\ \A i \in 1..(Len(st) - 1) : q[i] = st[i]

\* g is the frame f, past the first child that f has not met.
Passed(f, g) == DOMAIN g = DOMAIN f /\ g.die = f.die /\ g.rest = Tail(f.rest)

LEMMA TopPast ==
  ASSUME NEW D, Tree(D), NEW f, FrameOK(D, f), f.rest # <<>>,
         NEW g, Passed(f, g), ItemOK(D, f.die, g.item)
  PROVE  /\ FrameOK(D, g)
         /\ AtChild(D, f.die, g.rest, Head(f.rest))
         /\ Elements(f.rest) = {Head(f.rest)} \union Elements(g.rest)
         /\ Head(f.rest) \notin Elements(g.rest)
<1> DEFINE s == f.rest
           c == Head(s)
           S == Kids(D, f.die)
<1>1. DOMAIN f = {"die", "ns", "rest", "item"} /\ f.die \in With(D, Scopes \union {"unit"})
  BY DEF FrameOK
<1>2. /\ IsSeq(s) /\ Elements(s) \subseteq S /\ Increasing(s)
      /\ \A r \in Elements(s), k \in S : r < k => k \in Elements(s)
  BY DEF FrameOK, Suffix
<1>3. DOMAIN g = {"die", "ns", "rest", "item"} /\ g.die = f.die /\ g.rest = Tail(s)
  BY <1>1 DEF Passed
<1>4. S \subseteq Nat
  BY DEF Kids, Tree
<1> HIDE DEF S, s
<1>5. Elements(s) = {c} \union Elements(Tail(s)) /\ IsSeq(Tail(s))
  BY <1>2, ElementsTail, SeqTail DEF s
<1>6. Increasing(Tail(s)) /\ \A x \in Elements(Tail(s)) : c < x
  BY <1>2, IncreasingTail DEF s
<1>7. c \in S /\ c \in Nat /\ c \notin Elements(Tail(s))
  <2>1. c \in S /\ c \in Nat
    BY <1>2, <1>4, <1>5
  <2>2. ~(c < c)
    BY <2>1
  <2> QED
    BY <1>6, <2>1, <2>2
<1>8. \A k \in S : k \in Elements(Tail(s)) <=> c < k
  <2> TAKE k \in S
  <2>1. ASSUME c < k
        PROVE  k \in Elements(Tail(s))
    <3>1. k \in Elements(s) /\ k # c
      BY <1>2, <1>4, <1>5, <1>7, <2>1
    <3> QED
      BY <1>5, <3>1
  <2> QED
    BY <1>6, <2>1
<1>9. \A r \in Elements(Tail(s)), k \in S : r < k => k \in Elements(Tail(s))
  <2> TAKE r \in Elements(Tail(s)), k \in S
  <2> HAVE r < k
  <2>1. c < r /\ r \in Nat /\ k \in Nat
    BY <1>2, <1>4, <1>5, <1>6
  <2>2. c < k
    BY <1>7, <2>1
  <2> QED
    BY <1>8, <2>2
<1>10. Suffix(Tail(s), S)
  BY <1>2, <1>5, <1>6, <1>9 DEF Suffix
<1>11. FrameOK(D, g)
  BY <1>1, <1>3, <1>10 DEF FrameOK, S
<1>12. AtChild(D, f.die, Tail(s), c)
  BY <1>7, <1>8 DEF AtChild, S
<1> QED
  BY <1>3, <1>5, <1>7, <1>11, <1>12 DEF s

\* The frame on top is changed, but not the entry it is for.
LEMMA TopChanges ==
  ASSUME NEW D, NEW st, StackOK(D, st), st # <<>>,
         NEW g, FrameOK(D, g), g.die = st[Len(st)].die, NEW q, TopIs(st, q, g)
  PROVE  /\ StackOK(D, q) /\ SameBelow(st, q) /\ On(q) = On(st) /\ q # <<>>
         /\ q[Len(q)] = g /\ Len(st) \in Nat \ {0}
         /\ \A x : x \in Unread(q) <=> \/ x \in Elements(g.rest)
                                       \/ \E i \in 1..(Len(st) - 1) : x \in Elements(st[i].rest)
<1> DEFINE n == Len(st)
<1>1. /\ IsSeq(st) /\ (\A i \in 1..n : FrameOK(D, st[i]))
      /\ \A i, j \in 1..n : st[i].die = st[j].die => i = j
      /\ \A i \in 1..(n - 1) : AtChild(D, st[i].die, st[i].rest, st[i + 1].die)
      /\ n > 0 => st[1].die = 0 \/ D[st[1].die].tag = "function"
  BY DEF StackOK
<1>2. n \in Nat \ {0}
  BY <1>1, SeqLen
<1>3. IsSeq(q) /\ Len(q) = n /\ (\A i \in 1..(n - 1) : q[i] = st[i]) /\ q[n] = g
  BY DEF TopIs
<1>4. On(st) = {st[i].die : i \in 1..n} /\ On(q) = {q[i].die : i \in 1..n}
  BY <1>3 DEF On
<1>5. Unread(q) = UNION {Elements(q[i].rest) : i \in 1..n}
  BY <1>3 DEF Unread
<1> HIDE DEF n
<1>6. \A i \in 1..n : i \in 1..(n - 1) \/ i = n
  BY <1>2
<1>7. n \in 1..n /\ \A i \in 1..(n - 1) : i \in 1..n /\ i + 1 \in 1..n
  BY <1>2
<1>8. \A i \in 1..n : FrameOK(D, q[i]) /\ q[i].die = st[i].die
  BY <1>1, <1>3, <1>6 DEF n
<1>9. \A i \in 1..(n - 1) : AtChild(D, q[i].die, q[i].rest, q[i + 1].die)
  BY <1>1, <1>3, <1>7, <1>8
<1>10. q[1].die = st[1].die
  BY <1>2, <1>8
<1>11. StackOK(D, q)
  BY <1>1, <1>3, <1>8, <1>9, <1>10 DEF StackOK
<1>12. \A x : x \in Unread(q) <=> \/ x \in Elements(g.rest)
                                 \/ \E i \in 1..(n - 1) : x \in Elements(st[i].rest)
  <2>1. \A x : x \in Unread(q) <=> \E i \in 1..n : x \in Elements(q[i].rest)
    BY <1>5
  <2> QED
    BY <1>3, <1>6, <1>7, <2>1
<1>13. On(q) = On(st)
  <2>1. {q[i].die : i \in 1..n} = {st[i].die : i \in 1..n}
    BY <1>8
  <2> QED
    BY <1>4, <2>1
<1>14. q # <<>>
  BY <1>2, <1>3, SeqEmpty
<1> QED
  BY <1>2, <1>3, <1>11, <1>12, <1>13, <1>14 DEF SameBelow, n

LEMMA StackUnread ==
  ASSUME NEW D, NEW st, StackOK(D, st)
  PROVE  \A x : x \in Unread(st) <=>
           \E i \in 1..Len(st) : x \in Elements(st[i].rest) /\ x \in Kids(D, st[i].die)
<1>1. \A i \in 1..Len(st) : Elements(st[i].rest) \subseteq Kids(D, st[i].die)
  BY DEF StackOK, FrameOK, Suffix
<1> QED
  BY <1>1 DEF Unread

\* A child is met: the loop over children is past it.
LEMMA StackPast ==
  ASSUME NEW D, Tree(D), NEW st, StackOK(D, st), st # <<>>,
         NEW f, f = st[Len(st)], f.rest # <<>>, NEW c, c = Head(f.rest),
         NEW g, Passed(f, g), ItemOK(D, f.die, g.item), NEW q, TopIs(st, q, g)
  PROVE  /\ StackOK(D, q) /\ SameBelow(st, q) /\ On(q) = On(st) /\ q # <<>>
         /\ q[Len(q)] = g /\ AtChild(D, f.die, g.rest, c)
         /\ c \in Unread(st) /\ Unread(q) = Unread(st) \ {c} /\ f.die \in On(st)
<1> DEFINE n == Len(st)
<1>1. IsSeq(st) /\ (\A i \in 1..n : FrameOK(D, st[i]))
      /\ \A i, j \in 1..n : st[i].die = st[j].die => i = j
  BY DEF StackOK
<1>2. n \in Nat \ {0} /\ n \in 1..n
  BY <1>1, SeqLen
<1>3. FrameOK(D, f)
  BY <1>1, <1>2
<1>4. /\ FrameOK(D, g) /\ g.die = f.die
      /\ AtChild(D, f.die, g.rest, c)
      /\ Elements(f.rest) = {c} \union Elements(g.rest)
      /\ c \notin Elements(g.rest)
  BY <1>3, TopPast DEF Passed
<1>5. /\ StackOK(D, q) /\ SameBelow(st, q) /\ On(q) = On(st) /\ q # <<>>
      /\ q[Len(q)] = g
      /\ \A x : x \in Unread(q) <=> \/ x \in Elements(g.rest)
                                    \/ \E i \in 1..(n - 1) : x \in Elements(st[i].rest)
  <2>1. g.die = st[Len(st)].die
    BY <1>4
  <2> QED
    BY <1>4, <2>1, TopChanges
<1>6. \A i \in 1..(n - 1) : c \notin Elements(st[i].rest)
  <2> TAKE i \in 1..(n - 1)
  <2>1. i \in 1..n /\ i # n
    BY <1>2
  <2>2. st[i].die # f.die
    BY <1>1, <1>2, <2>1
  <2>3. Elements(st[i].rest) \subseteq Kids(D, st[i].die)
    BY <1>1, <2>1 DEF FrameOK, Suffix
  <2>4. c \in Kids(D, f.die)
    BY <1>4 DEF AtChild
  <2> QED
    BY <2>2, <2>3, <2>4 DEF Kids
<1>7. \A x : x \in Unread(st) <=> \E i \in 1..n : x \in Elements(st[i].rest)
  BY DEF Unread
<1>8. \A i \in 1..n : i \in 1..(n - 1) \/ i = n
  BY <1>2
<1>9. \A i \in 1..(n - 1) : i \in 1..n
  BY <1>2
<1>10. c \in Unread(st)
  BY <1>2, <1>4, <1>7
<1> HIDE DEF n
<1>11. \A x : x \in Unread(q) <=> x \in Unread(st) /\ x # c
  <2> TAKE x
  <2>1. x \in Unread(st) <=> \/ x \in Elements(f.rest)
                             \/ \E i \in 1..(n - 1) : x \in Elements(st[i].rest)
    BY <1>2, <1>7, <1>8, <1>9 DEF n
  <2>2. x \in Elements(f.rest) <=> x = c \/ x \in Elements(g.rest)
    BY <1>4
  <2> QED
    BY <1>4, <1>5, <1>6, <2>1, <2>2
<1>12. f.die \in On(st)
  BY <1>2 DEF On, n
<1> QED
  BY <1>4, <1>5, <1>10, <1>11, <1>12

\* A call with the frame g is pushed.
Pushed(q, g, p) == p = Append(q, g)

\* The parser of the child is called.
LEMMA StackPush ==
  ASSUME NEW D, NEW q, StackOK(D, q), q # <<>>,
         NEW c, AtChild(D, q[Len(q)].die, q[Len(q)].rest, c), c \notin On(q),
         NEW g, FrameOK(D, g), g.die = c, Elements(g.rest) = Kids(D, c),
         NEW p, Pushed(q, g, p)
  PROVE  /\ StackOK(D, p) /\ Len(p) = Len(q) + 1 /\ p[Len(p)] = g /\ Len(q) \in Nat \ {0}
         /\ \A i \in 1..Len(q) : p[i] = q[i]
         /\ On(p) = On(q) \union {c} /\ Unread(p) = Unread(q) \union Kids(D, c)
<1> DEFINE n == Len(q)
<1>1. /\ IsSeq(q) /\ (\A i \in 1..n : FrameOK(D, q[i]))
      /\ \A i, j \in 1..n : q[i].die = q[j].die => i = j
      /\ \A i \in 1..(n - 1) : AtChild(D, q[i].die, q[i].rest, q[i + 1].die)
      /\ n > 0 => q[1].die = 0 \/ D[q[1].die].tag = "function"
  BY DEF StackOK
<1>2. n \in Nat \ {0}
  BY <1>1, SeqLen
<1>3. IsSeq(p) /\ Len(p) = n + 1 /\ (\A i \in 1..n : p[i] = q[i]) /\ p[n + 1] = g
  BY <1>1, SeqAppend DEF Pushed
<1>4. /\ On(q) = {q[i].die : i \in 1..n} /\ On(p) = {p[i].die : i \in 1..(n + 1)}
      /\ Unread(q) = UNION {Elements(q[i].rest) : i \in 1..n}
      /\ Unread(p) = UNION {Elements(p[i].rest) : i \in 1..(n + 1)}
  BY <1>3 DEF On, Unread
<1>5. AtChild(D, q[n].die, q[n].rest, c)
  OBVIOUS
<1> HIDE DEF n
<1>6. 1..(n + 1) = 1..n \union {n + 1} /\ n + 1 \notin 1..n /\ 1 \in 1..n
  BY <1>2
<1>7. \A i \in 1..(n + 1) : FrameOK(D, p[i])
  BY <1>1, <1>3, <1>6
<1>8. \A i \in 1..n : q[i].die # c
  BY <1>4
<1>9. \A i, j \in 1..(n + 1) : p[i].die = p[j].die => i = j
  BY <1>1, <1>3, <1>6, <1>8
<1>10. \A i \in 1..n : AtChild(D, p[i].die, p[i].rest, p[i + 1].die)
  <2> TAKE i \in 1..n
  <2>1. CASE i = n
    BY <1>3, <1>5, <2>1
  <2>2. CASE i # n
    <3>1. i \in 1..(n - 1) /\ i + 1 \in 1..n
      BY <1>2, <2>2
    <3> QED
      BY <1>1, <1>3, <3>1
  <2> QED
    BY <2>1, <2>2
<1>11. StackOK(D, p)
  <2>1. Len(p) - 1 = n /\ p[1] = q[1]
    BY <1>2, <1>3, <1>6
  <2>2. p[1].die = 0 \/ D[p[1].die].tag = "function"
    BY <1>1, <1>2, <2>1
  <2> QED
    BY <1>3, <1>7, <1>9, <1>10, <2>1, <2>2 DEF StackOK
<1>12. On(p) = On(q) \union {c}
  BY <1>3, <1>4, <1>6
<1>13. Unread(p) = Unread(q) \union Kids(D, c)
  <2>1. \A x : x \in Unread(p) <=> \E i \in 1..(n + 1) : x \in Elements(p[i].rest)
    BY <1>4
  <2>2. \A x : x \in Unread(q) <=> \E i \in 1..n : x \in Elements(q[i].rest)
    BY <1>4
  <2>3. \A x : x \in Unread(p) <=> x \in Unread(q) \/ x \in Kids(D, c)
    BY <1>3, <1>6, <2>1, <2>2
  <2> QED
    BY <2>3
<1> QED
  BY <1>2, <1>3, <1>11, <1>12, <1>13 DEF n

Popped(st, q) == q = Front(st)

\* The call on top returns.
LEMMA StackPop ==
  ASSUME NEW D, NEW st, StackOK(D, st), st # <<>>, Elements(st[Len(st)].rest) = {},
         NEW q, Popped(st, q)
  PROVE  /\ StackOK(D, q) /\ Len(q) = Len(st) - 1 /\ Len(st) \in Nat \ {0}
         /\ \A i \in 1..Len(q) : q[i] = st[i]
         /\ On(q) = On(st) \ {st[Len(st)].die} /\ st[Len(st)].die \in On(st)
         /\ Unread(q) = Unread(st)
<1> DEFINE n == Len(st)
<1>1. /\ IsSeq(st) /\ (\A i \in 1..n : FrameOK(D, st[i]))
      /\ \A i, j \in 1..n : st[i].die = st[j].die => i = j
      /\ \A i \in 1..(n - 1) : AtChild(D, st[i].die, st[i].rest, st[i + 1].die)
      /\ n > 0 => st[1].die = 0 \/ D[st[1].die].tag = "function"
  BY DEF StackOK
<1>2. n \in Nat \ {0}
  BY <1>1, SeqLen
<1>3. IsSeq(q) /\ Len(q) = n - 1 /\ (\A i \in 1..(n - 1) : q[i] = st[i])
  <2>1. n - 1 \in 0..n
    BY <1>2
  <2> QED
    BY <1>1, <2>1, SeqPrefix DEF Front, Popped
<1>4. /\ On(st) = {st[i].die : i \in 1..n} /\ On(q) = {q[i].die : i \in 1..(n - 1)}
      /\ Unread(st) = UNION {Elements(st[i].rest) : i \in 1..n}
      /\ Unread(q) = UNION {Elements(q[i].rest) : i \in 1..(n - 1)}
  BY <1>3 DEF On, Unread
<1>5. Elements(st[n].rest) = {}
  OBVIOUS
<1> HIDE DEF n
<1>6. 1..n = 1..(n - 1) \union {n} /\ n \notin 1..(n - 1)
  BY <1>2
<1>7. \A i \in 1..((n - 1) - 1) : i \in 1..(n - 1) /\ i + 1 \in 1..(n - 1)
  BY <1>2
<1>8. n - 1 > 0 => 1 \in 1..(n - 1) /\ n > 0
  BY <1>2
<1>9. (\A i \in 1..(n - 1) : FrameOK(D, q[i]))
      /\ \A i, j \in 1..(n - 1) : q[i].die = q[j].die => i = j
  BY <1>1, <1>3, <1>6
<1>10. \A i \in 1..((n - 1) - 1) : AtChild(D, q[i].die, q[i].rest, q[i + 1].die)
  BY <1>1, <1>3, <1>7
<1>11. n - 1 > 0 => q[1].die = 0 \/ D[q[1].die].tag = "function"
  BY <1>1, <1>3, <1>8
<1>12. StackOK(D, q)
  BY <1>3, <1>9, <1>10, <1>11 DEF StackOK
<1>13. On(q) = On(st) \ {st[n].die} /\ st[n].die \in On(st)
  <2>1. \A i \in 1..(n - 1) : st[i].die # st[n].die
    BY <1>1, <1>6
  <2> QED
    BY <1>3, <1>4, <1>6, <2>1
<1>14. Unread(q) = Unread(st)
  <2>1. \A x : x \in Unread(q) <=> \E i \in 1..(n - 1) : x \in Elements(q[i].rest)
    BY <1>4
  <2>2. \A x : x \in Unread(st) <=> \E i \in 1..n : x \in Elements(st[i].rest)
    BY <1>4
  <2>3. \A x : x \in Unread(q) <=> x \in Unread(st)
    BY <1>3, <1>5, <1>6, <2>1, <2>2
  <2> QED
    BY <2>3
<1> QED
  BY <1>2, <1>3, <1>12, <1>13, <1>14 DEF n

\* A stack of one frame, and none.
LEMMA StackOne ==
  ASSUME NEW D, NEW g, FrameOK(D, g), g.die = 0 \/ D[g.die].tag = "function"
  PROVE  StackOK(D, <<g>>)
<1>1. IsSeq(<<g>>) /\ Len(<<g>>) = 1 /\ <<g>>[1] = g
  BY SeqOne
<1>2. \A i \in 1..1 : i = 1
  OBVIOUS
<1>3. 1..(1 - 1) = {} /\ 1 > 0
  OBVIOUS
<1> QED
  BY <1>1, <1>2, <1>3 DEF StackOK

LEMMA StackNone == \A D : StackOK(D, <<>>) /\ On(<<>>) = {} /\ Unread(<<>>) = {}
<1>1. IsSeq(<<>>) /\ Len(<<>>) = 0
  BY SeqEmpty
<1>2. 1..0 = {} /\ 1..(0 - 1) = {} /\ ~(0 > 0)
  OBVIOUS
<1> QED
  BY <1>1, <1>2 DEF StackOK, On, Unread

LEMMA OnlyOne ==
  ASSUME NEW st, Len(st) = 1
  PROVE  On(st) = {st[1].die} /\ Unread(st) = Elements(st[1].rest)
<1>1. 1..1 = {1}
  OBVIOUS
<1> QED
  BY <1>1 DEF On, Unread

-----------------------------------------------------------------------------
(* Where the entries are.                                                  *)
(***************************************************************************)
Places(D, done, on, unread, aside) ==
  /\ \A c \in Kept(D) : (D[c].parent \in done \/ (D[c].parent \in on /\ c \notin unread))
                          <=> c \in done \union on \union aside
  /\ done \intersect (on \union aside) = {} /\ on \intersect aside = {}
  /\ \A c \in unread : c \in DOMAIN D \ {0} /\ D[c].parent \in on
  /\ done \subseteq Kept(D) \union {0} /\ on \subseteq Kept(D) \union {0}
  /\ aside \subseteq Functions(D)

LEMMA KeptIsPlaced ==
  ASSUME NEW D, Tree(D)
  PROVE  \A c \in Kept(D) : /\ c \in DOMAIN D \ {0} /\ D[c].parent \in DOMAIN D
                            /\ D[c].parent # c
                            /\ D[c].tag \in Takes(D[D[c].parent].tag)
<1> SUFFICES ASSUME NEW c \in Kept(D)
             PROVE  /\ c \in DOMAIN D \ {0} /\ D[c].parent \in DOMAIN D
                    /\ D[c].parent # c
                    /\ D[c].tag \in Takes(D[D[c].parent].tag)
  OBVIOUS
<1>1. c \in DOMAIN D /\ D[c].tag \in Scopes \union {"named"}
  BY DEF Kept, With
<1>2. c # 0
  BY <1>1 DEF Tree, Scopes
<1>3. D[c].parent \in DOMAIN D /\ D[c].parent < c /\ c \in Nat
  BY <1>1, <1>2 DEF Tree
<1>4. D[c].parent # c
  BY <1>3
<1>5. D[c].tag \notin {"unnamed", "inheritance", "variable", "parameter", "other"}
  BY <1>1 DEF Scopes
<1> QED
  BY <1>1, <1>2, <1>3, <1>4, <1>5 DEF Tree

LEMMA PlacesFresh ==
  ASSUME NEW D, NEW done, NEW on, NEW unread, NEW aside,
         Places(D, done, on, unread, aside)
  PROVE  \A c \in Kept(D) \intersect unread : c \notin done \union on \union aside
BY DEF Places

\* What is not kept is met.
LEMMA PlacesSkip ==
  ASSUME NEW D, NEW done, NEW on, NEW unread, NEW aside,
         Places(D, done, on, unread, aside), NEW c, c \notin Kept(D)
  PROVE  Places(D, done, on, unread \ {c}, aside)
BY DEF Places

\* An entry without children of interest is met, and stored at once.
LEMMA PlacesDone ==
  ASSUME NEW D, Tree(D), NEW done, NEW on, NEW unread, NEW aside,
         Places(D, done, on, unread, aside), NEW c \in unread,
         c \in Kept(D), Takes(D[c].tag) = {}
  PROVE  Places(D, done \union {c}, on, unread \ {c}, aside)
<1>1. \A k \in Kept(D) : D[k].parent # c
  BY KeptIsPlaced
<1>2. c \notin done \union on \union aside
  BY PlacesFresh
<1> QED
  BY <1>1, <1>2 DEF Places

\* A function is met and put aside.
LEMMA PlacesAside ==
  ASSUME NEW D, NEW done, NEW on, NEW unread, NEW aside,
         Places(D, done, on, unread, aside), NEW c \in unread,
         c \in Kept(D), c \in Functions(D)
  PROVE  Places(D, done, on, unread \ {c}, aside \union {c})
<1>1. c \notin done \union on \union aside
  BY PlacesFresh
<1> QED
  BY <1>1 DEF Places

\* An entry is met and its children come next.
LEMMA PlacesOpen ==
  ASSUME NEW D, Tree(D), NEW done, NEW on, NEW unread, NEW aside,
         Places(D, done, on, unread, aside), NEW c \in unread, c \in Kept(D)
  PROVE  Places(D, done, on \union {c}, (unread \ {c}) \union Kids(D, c), aside)
<1> DEFINE u == (unread \ {c}) \union Kids(D, c)
           o == on \union {c}
<1>1. c \notin done \union on \union aside
  BY PlacesFresh
<1>2. \A k \in Kept(D) : D[k].parent = c <=> k \in Kids(D, c)
  BY KeptIsPlaced DEF Kids
<1>3. c \notin Kids(D, c)
  BY KeptIsPlaced DEF Kids
<1>4. ASSUME NEW k \in Kept(D)
      PROVE  (D[k].parent \in done \/ (D[k].parent \in o /\ k \notin u))
               <=> k \in done \union o \union aside
  <2>1. (D[k].parent \in done \/ (D[k].parent \in on /\ k \notin unread))
          <=> k \in done \union on \union aside
    BY DEF Places
  <2>2. CASE k = c
    <3>1. D[c].parent \in on
      BY DEF Places
    <3> QED
      BY <1>3, <2>2, <3>1
  <2>3. CASE D[k].parent = c
    <3>1. k \in Kids(D, c) /\ k # c
      BY <1>2, <1>3, <2>3
    <3> QED
      BY <1>1, <2>1, <2>3, <3>1
  <2>4. CASE k # c /\ D[k].parent # c
    <3>1. k \notin Kids(D, c)
      BY <1>2, <2>4
    <3> QED
      BY <2>1, <2>4, <3>1
  <2> QED
    BY <2>2, <2>3, <2>4
<1>5. \A k \in u : k \in DOMAIN D \ {0} /\ D[k].parent \in o
  BY DEF Places, Kids
<1>6. /\ done \intersect (o \union aside) = {} /\ o \intersect aside = {}
      /\ done \subseteq Kept(D) \union {0} /\ o \subseteq Kept(D) \union {0}
      /\ aside \subseteq Functions(D)
  BY <1>1 DEF Places
<1> HIDE DEF u, o
<1>7. Places(D, done, o, u, aside)
  BY <1>4, <1>5, <1>6 DEF Places
<1> QED
  BY <1>7 DEF u, o

\* A call that has met all children returns.
LEMMA PlacesClose ==
  ASSUME NEW D, NEW done, NEW on, NEW unread, NEW aside,
         Places(D, done, on, unread, aside), NEW t \in on,
         \A k \in unread : D[k].parent # t
  PROVE  Places(D, done \union {t}, on \ {t}, unread, aside)
<1>1. t \notin done /\ t \notin aside
  BY DEF Places
<1>2. ASSUME NEW c \in Kept(D)
      PROVE  (D[c].parent \in done \union {t} \/ (D[c].parent \in on \ {t} /\ c \notin unread))
               <=> c \in (done \union {t}) \union (on \ {t}) \union aside
  <2>1. (D[c].parent \in done \/ (D[c].parent \in on /\ c \notin unread))
          <=> c \in done \union on \union aside
    BY DEF Places
  <2> QED
    BY <2>1
<1>3. \A k \in unread : k \in DOMAIN D \ {0} /\ D[k].parent \in on \ {t}
  BY DEF Places
<1>4. /\ (done \union {t}) \intersect ((on \ {t}) \union aside) = {}
      /\ (on \ {t}) \intersect aside = {}
      /\ done \union {t} \subseteq Kept(D) \union {0} /\ on \ {t} \subseteq Kept(D) \union {0}
      /\ aside \subseteq Functions(D)
  BY <1>1 DEF Places
<1> QED
  BY <1>2, <1>3, <1>4 DEF Places

\* A pass over what was put aside parses the children of one.
LEMMA PlacesResume ==
  ASSUME NEW D, Tree(D), NEW done, NEW aside, Places(D, done, {}, {}, aside), NEW f \in aside
  PROVE  Places(D, done, {f}, Kids(D, f), aside \ {f})
<1>1. f \in Functions(D) /\ f \in Kept(D) /\ f \notin done
  BY DEF Places, Functions, Kept, With, Scopes
<1>2. \A k \in Kept(D) : D[k].parent = f <=> k \in Kids(D, f)
  BY KeptIsPlaced DEF Kids
<1>3. ASSUME NEW k \in Kept(D)
      PROVE  (D[k].parent \in done \/ (D[k].parent \in {f} /\ k \notin Kids(D, f)))
               <=> k \in done \union {f} \union (aside \ {f})
  <2>1. D[k].parent \in done <=> k \in done \union aside
    BY DEF Places
  <2> QED
    BY <1>2, <2>1
<1>4. \A k \in Kids(D, f) : k \in DOMAIN D \ {0} /\ D[k].parent \in {f}
  BY DEF Kids
<1>5. /\ done \intersect ({f} \union (aside \ {f})) = {} /\ {f} \intersect (aside \ {f}) = {}
      /\ done \subseteq Kept(D) \union {0} /\ {f} \subseteq Kept(D) \union {0}
      /\ aside \ {f} \subseteq Functions(D)
  BY <1>1 DEF Places
<1> QED
  BY <1>3, <1>4, <1>5 DEF Places

LEMMA PlacesStart ==
  ASSUME NEW D, Tree(D)
  PROVE  Places(D, {}, {0}, Kids(D, 0), {})
<1>1. \A k \in Kept(D) : k # 0 /\ (D[k].parent = 0 <=> k \in Kids(D, 0))
  BY KeptIsPlaced DEF Kids
<1>2. \A k \in Kids(D, 0) : k \in DOMAIN D \ {0} /\ D[k].parent \in {0}
  BY DEF Kids
<1> QED
  BY <1>1, <1>2 DEF Places

\* In the end: what is below the unit is done, by induction over the order of storage.
LEMMA AllDone ==
  ASSUME NEW D, Tree(D), NEW done, Places(D, done, {}, {}, {}), 0 \in done
  PROVE  done = Kept(D) \union {0}
<1> DEFINE T == Kept(D) \ done
<1>1. T \subseteq Nat
  BY KeptIsPlaced DEF Tree
<1>2. ASSUME T # {}
      PROVE  FALSE
  <2> HIDE DEF T
  <2>1. PICK m \in T : \A k \in T : m <= k
    BY <1>1, <1>2, NatMin
  <2>2. m \in Kept(D) /\ m \notin done
    BY DEF T
  <2>3. /\ m \in DOMAIN D \ {0} /\ D[m].parent \in DOMAIN D
        /\ D[m].parent < m /\ D[m].parent \in Nat /\ m \in Nat
    BY <2>2, KeptIsPlaced DEF Tree
  <2>4. D[m].parent \in Kept(D) \union {0}
    <3>1. D[m].tag \in Takes(D[D[m].parent].tag)
      BY <2>2, KeptIsPlaced
    <3> DEFINE t == D[D[m].parent].tag
    <3>2. t \in Scopes \union {"unit"}
      BY <3>1 DEF Takes, Scopes
    <3>3. t = "unit" => D[m].parent = 0
      BY <2>3 DEF Tree
    <3> QED
      BY <2>3, <3>2, <3>3 DEF Kept, With
  <2>5. D[m].parent \notin done
    BY <2>2 DEF Places
  <2>6. D[m].parent \in T
    BY <2>4, <2>5 DEF T
  <2>7. m <= D[m].parent
    BY <2>1, <2>6
  <2> QED
    BY <2>3, <2>7
<1> QED
  BY <1>2 DEF Places

-----------------------------------------------------------------------------
(* The members a call has collected: of what it has met of its own, and of *)
(* its variant parts when they have returned.                              *)
(***************************************************************************)
PlainMembers(D) == {m \in With(D, {"member"}) : ~D[m].decl}
IsPartOf(D, p, t) == D[p].tag = "part" /\ D[p].parent = t
OwnMembers(D, t) ==
  {m \in PlainMembers(D) : D[m].parent = t \/ IsPartOf(D, D[m].parent, t)}

Collected(D, t, on, unread) ==
  {m \in OwnMembers(D, t) : /\ m \notin unread
                            /\ D[m].parent # t => D[m].parent \notin unread \union on}
InPart(D, p, unread) == {m \in PlainMembers(D) : D[m].parent = p /\ m \notin unread}

FrameMembers(D, f, on, unread) ==
  /\ D[f.die].tag \in Classes => Incr(f.item.members, Collected(D, f.die, on, unread))
  /\ D[f.die].tag = "part" => Incr(f.item.members, InPart(D, f.die, unread))

MembersOK(D, st) ==
  \A i \in 1..Len(st) : FrameMembers(D, st[i], On(st), Unread(st))

LEMMA MemberTags ==
  ASSUME NEW D, Tree(D)
  PROVE  \A m \in PlainMembers(D) : /\ m \in DOMAIN D \ {0} /\ m \in Nat /\ D[m].tag = "member"
                                    /\ D[m].parent \in Nat /\ D[m].parent < m
                                    /\ D[m].parent \in DOMAIN D
BY DEF PlainMembers, With, Tree

\* The two collections are the same after a step that changes neither.
SameMembers(D, t, on, unread, on2, unread2) ==
  /\ Collected(D, t, on2, unread2) = Collected(D, t, on, unread)
  /\ InPart(D, t, unread2) = InPart(D, t, unread)

LEMMA FrameMembersKept ==
  ASSUME NEW D, NEW f, NEW on, NEW unread, FrameMembers(D, f, on, unread),
         NEW on2, NEW unread2, SameMembers(D, f.die, on, unread, on2, unread2),
         NEW g, g.die = f.die,
         D[f.die].tag \in Classes \union {"part"} => g.item.members = f.item.members
  PROVE  FrameMembers(D, g, on2, unread2)
BY DEF FrameMembers, SameMembers

LEMMA MembersSkip ==
  ASSUME NEW D, Tree(D), NEW on, NEW unread, NEW c,
         c \notin PlainMembers(D), D[c].tag # "part"
  PROVE  \A t : SameMembers(D, t, on, unread, on, unread \ {c})
<1> SUFFICES ASSUME NEW t
             PROVE  SameMembers(D, t, on, unread, on, unread \ {c})
  OBVIOUS
<1>1. \A m \in OwnMembers(D, t) : m # c /\ (D[m].parent # t => D[m].parent # c)
  BY DEF OwnMembers, IsPartOf
<1>2. Collected(D, t, on, unread \ {c}) = Collected(D, t, on, unread)
  BY <1>1 DEF Collected
<1>3. InPart(D, t, unread \ {c}) = InPart(D, t, unread)
  BY DEF InPart
<1> QED
  BY <1>2, <1>3 DEF SameMembers

Gains(S, T, c) == T = S \union {c}

LEMMA MembersMeet ==
  ASSUME NEW D, Tree(D), NEW on, NEW unread, NEW c \in unread,
         c \in PlainMembers(D), NEW d \in on, c \in Kids(D, d)
  PROVE  /\ \A t : t # d => SameMembers(D, t, on, unread, on, unread \ {c})
         /\ Gains(Collected(D, d, on, unread), Collected(D, d, on, unread \ {c}), c)
         /\ Gains(InPart(D, d, unread), InPart(D, d, unread \ {c}), c)
<1>1. D[c].tag = "member" /\ D[c].parent = d
  BY MemberTags DEF Kids
<1>2. \A t : \A m \in OwnMembers(D, t) : D[m].parent # t => D[m].parent # c
  BY <1>1 DEF OwnMembers, IsPartOf
<1>3. ASSUME NEW t, t # d
      PROVE  SameMembers(D, t, on, unread, on, unread \ {c})
  <2>1. Collected(D, t, on, unread \ {c}) = Collected(D, t, on, unread)
    BY <1>1, <1>2, <1>3 DEF Collected
  <2>2. InPart(D, t, unread \ {c}) = InPart(D, t, unread)
    BY <1>1, <1>3 DEF InPart
  <2> QED
    BY <2>1, <2>2 DEF SameMembers
<1>4. c \in OwnMembers(D, d)
  BY <1>1 DEF OwnMembers
<1>5. Collected(D, d, on, unread \ {c}) = Collected(D, d, on, unread) \union {c}
  BY <1>1, <1>2, <1>4 DEF Collected
<1>6. InPart(D, d, unread \ {c}) = InPart(D, d, unread) \union {c}
  BY <1>1 DEF InPart
<1> QED
  BY <1>3, <1>5, <1>6 DEF Gains

LEMMA MembersOpen ==
  ASSUME NEW D, Tree(D), NEW on, NEW unread, NEW c \in unread,
         c \in DOMAIN D \ {0}, D[c].tag # "member"
  PROVE  /\ \A t : t # c =>
              SameMembers(D, t, on, unread, on \union {c}, (unread \ {c}) \union Kids(D, c))
         /\ Collected(D, c, on \union {c}, (unread \ {c}) \union Kids(D, c)) = {}
         /\ InPart(D, c, (unread \ {c}) \union Kids(D, c)) = {}
<1> DEFINE u == (unread \ {c}) \union Kids(D, c)
           o == on \union {c}
<1>1. \A m \in PlainMembers(D) : m # c /\ (m \in Kids(D, c) <=> D[m].parent = c)
  BY MemberTags DEF Kids
<1>2. ASSUME NEW t, t # c
      PROVE  SameMembers(D, t, on, unread, o, u)
  <2>1. ASSUME NEW m \in OwnMembers(D, t)
        PROVE  m \in Collected(D, t, o, u) <=> m \in Collected(D, t, on, unread)
    <3>1. m \in PlainMembers(D) /\ (D[m].parent = t \/ IsPartOf(D, D[m].parent, t))
      BY DEF OwnMembers
    <3>2. CASE D[m].parent = t
      <4>1. m \in u <=> m \in unread
        BY <1>1, <1>2, <3>1, <3>2
      <4> QED
        BY <3>2, <4>1 DEF Collected
    <3>3. CASE D[m].parent # t /\ D[m].parent = c
      BY <3>3 DEF Collected
    <3>4. CASE D[m].parent # t /\ D[m].parent # c
      <4>1. m \in u <=> m \in unread
        BY <1>1, <3>1, <3>4
      <4>2. D[m].parent \notin Kids(D, c)
        BY <1>2, <3>1, <3>4 DEF IsPartOf, Kids
      <4>3. D[m].parent \in u \union o <=> D[m].parent \in unread \union on
        BY <3>4, <4>2
      <4> QED
        BY <3>4, <4>1, <4>3 DEF Collected
    <3> QED
      BY <3>2, <3>3, <3>4
  <2>2. Collected(D, t, o, u) = Collected(D, t, on, unread)
    <3>1. \A a, b : Collected(D, t, a, b) \subseteq OwnMembers(D, t)
      BY DEF Collected
    <3> HIDE DEF o, u
    <3> QED
      BY <2>1, <3>1
  <2>3. InPart(D, t, u) = InPart(D, t, unread)
    BY <1>1, <1>2 DEF InPart
  <2> HIDE DEF o, u
  <2> QED
    BY <2>2, <2>3 DEF SameMembers
<1>3. Collected(D, c, o, u) = {}
  <2>1. \A m \in OwnMembers(D, c) : D[m].parent = c => m \in u
    BY <1>1 DEF OwnMembers
  <2>2. \A m \in OwnMembers(D, c) : D[m].parent # c => D[m].parent \in u
    <3>1. \A m \in OwnMembers(D, c) : D[m].parent # c => D[m].parent \in DOMAIN D /\ D[D[m].parent].tag = "part" /\ D[D[m].parent].parent = c
      BY MemberTags DEF OwnMembers, IsPartOf
    <3>2. \A k \in DOMAIN D : D[k].tag = "part" => k # 0
      BY DEF Tree
    <3> QED
      BY <3>1, <3>2 DEF Kids
  <2> HIDE DEF o, u
  <2> QED
    BY <2>1, <2>2 DEF Collected
<1>4. InPart(D, c, u) = {}
  BY <1>1 DEF InPart
<1> QED
  BY <1>2, <1>3, <1>4

LEMMA MembersClose ==
  ASSUME NEW D, NEW on, NEW unread, NEW d, D[d].tag # "part"
  PROVE  \A t : SameMembers(D, t, on, unread, on \ {d}, unread)
<1> SUFFICES ASSUME NEW t
             PROVE  SameMembers(D, t, on, unread, on \ {d}, unread)
  OBVIOUS
<1>1. \A m \in OwnMembers(D, t) : D[m].parent # t => D[m].parent # d
  BY DEF OwnMembers, IsPartOf
<1>2. Collected(D, t, on \ {d}, unread) = Collected(D, t, on, unread)
  BY <1>1 DEF Collected
<1> QED
  BY <1>2 DEF SameMembers

Joined(S, T, U) == U = S \union T

LEMMA MembersPart ==
  ASSUME NEW D, Tree(D), NEW on, NEW unread, NEW p \in on, D[p].tag = "part",
         NEW d, p \in Kids(D, d), d # p, p \notin unread,
         \A k \in unread : D[k].parent # p
  PROVE  /\ \A t : t # d => SameMembers(D, t, on, unread, on \ {p}, unread)
         /\ Joined(Collected(D, d, on, unread), InPart(D, p, unread), Collected(D, d, on \ {p}, unread))
<1>1. D[p].parent = d
  BY DEF Kids
<1>2. ASSUME NEW t, t # d
      PROVE  SameMembers(D, t, on, unread, on \ {p}, unread)
  <2>1. \A m \in OwnMembers(D, t) : D[m].parent # t => D[m].parent # p
    BY <1>1, <1>2 DEF OwnMembers, IsPartOf
  <2>2. Collected(D, t, on \ {p}, unread) = Collected(D, t, on, unread)
    BY <2>1 DEF Collected
  <2> QED
    BY <2>2 DEF SameMembers
<1>3. \A m \in InPart(D, p, unread) : m \in OwnMembers(D, d) /\ D[m].parent = p
  BY <1>1 DEF InPart, OwnMembers, IsPartOf
<1>4. InPart(D, p, unread) \subseteq Collected(D, d, on \ {p}, unread)
  BY <1>3 DEF Collected, InPart
<1>5. \A m \in OwnMembers(D, d) : D[m].parent = p /\ m \notin unread => m \in InPart(D, p, unread)
  BY DEF OwnMembers, InPart
<1>6. Collected(D, d, on \ {p}, unread) = Collected(D, d, on, unread) \union InPart(D, p, unread)
  <2>1. Collected(D, d, on, unread) \subseteq Collected(D, d, on \ {p}, unread)
    BY DEF Collected
  <2>2. Collected(D, d, on \ {p}, unread) \subseteq Collected(D, d, on, unread) \union InPart(D, p, unread)
    BY <1>5 DEF Collected
  <2> QED
    BY <1>4, <2>1, <2>2
<1> QED
  BY <1>2, <1>6 DEF Joined

LEMMA MembersComplete ==
  ASSUME NEW D, NEW on, NEW unread, NEW t,
         \A k \in unread : D[k].parent \in on /\ D[k].parent # t,
         \A k \in on : D[k].tag = "part" => D[k].parent # t
  PROVE  Collected(D, t, on, unread) = OwnMembers(D, t)
<1>1. \A m \in OwnMembers(D, t) :
        /\ m \notin unread
        /\ D[m].parent # t => D[m].parent \notin unread \union on
  BY DEF OwnMembers, IsPartOf
<1> QED
  BY <1>1 DEF Collected

-----------------------------------------------------------------------------
(* They are collected in the order of storage: all that is below a child   *)
(* is stored before the next child.                                        *)
(***************************************************************************)
LEMMA CollectedBefore ==
  ASSUME NEW D, Tree(D), NEW on, NEW unread, NEW t,
         NEW b, b \in Kids(D, t), b \in unread \/ b \in on,
         \A k \in Kids(D, t) : k \notin unread => k < b \/ k = b,
         b \notin unread => D[b].tag # "member"
  PROVE  \A m \in Collected(D, t, on, unread) : m < b
<1> SUFFICES ASSUME NEW m \in Collected(D, t, on, unread)
             PROVE  m < b
  OBVIOUS
<1>1. /\ m \in PlainMembers(D) /\ m \notin unread
      /\ D[m].parent = t \/ (/\ D[m].parent # t /\ IsPartOf(D, D[m].parent, t)
                             /\ D[m].parent \notin unread \union on)
  BY DEF Collected, OwnMembers
<1>2. /\ m \in DOMAIN D \ {0} /\ m \in Nat /\ D[m].tag = "member"
      /\ D[m].parent \in Nat /\ D[m].parent < m /\ D[m].parent \in DOMAIN D
  BY <1>1, MemberTags
<1>3. b \in DOMAIN D \ {0} /\ D[b].parent = t /\ b \in Nat /\ t < b /\ t \in Nat
  BY DEF Kids, Tree
<1>4. m # b
  BY <1>1, <1>2
<1>5. CASE D[m].parent = t
  <2>1. m \in Kids(D, t)
    BY <1>2, <1>5 DEF Kids
  <2> QED
    BY <1>1, <1>4, <2>1
<1>6. CASE /\ D[m].parent # t /\ IsPartOf(D, D[m].parent, t)
           /\ D[m].parent \notin unread \union on
  <2> DEFINE p == D[m].parent
  <2>1. p \in DOMAIN D \ {0} /\ D[p].parent = t /\ p \notin unread \union on /\ p \in Nat
    BY <1>2, <1>6 DEF IsPartOf, Tree
  <2>2. p \in Kids(D, t)
    BY <2>1 DEF Kids
  <2>3. p # b /\ p < b
    BY <2>1, <2>2
  <2>4. ASSUME b < m
        PROVE  FALSE
    <3>1. p <= D[b].parent
      BY <1>2, <1>3, <2>3, <2>4 DEF Tree
    <3>2. D[p].parent < p
      BY <2>1 DEF Tree
    <3> QED
      BY <1>3, <2>1, <3>1, <3>2
  <2> QED
    BY <1>2, <1>3, <1>4, <2>4
<1> QED
  BY <1>1, <1>5, <1>6

-----------------------------------------------------------------------------
(* What each kind of step does to all of this.                             *)
(***************************************************************************)
WalkOK(D, st, done, aside) ==
  /\ StackOK(D, st)
  /\ MembersOK(D, st)
  /\ Places(D, done, On(st), Unread(st), aside)

\* The stack has a call on top, f, that meets c next.
MeetsNext(D, st, f, c) ==
  st # <<>> /\ f = st[Len(st)] /\ f.rest # <<>> /\ c = Head(f.rest)

\* The item of a call that collects members has those it had.
SameList(D, f, g) == D[f.die].tag \in Classes \union {"part"} => g.item.members = f.item.members

LEMMA MetChild ==
  ASSUME NEW D, Tree(D), NEW st, StackOK(D, st), NEW f, NEW c, MeetsNext(D, st, f, c)
  PROVE  /\ c \in Kids(D, f.die) /\ c \in Unread(st) /\ c \in DOMAIN D \ {0}
         /\ Len(st) \in Nat \ {0} /\ FrameOK(D, f) /\ f.die \in On(st) /\ f.die # c
         /\ \A k \in Kids(D, f.die) : k \notin Unread(st) => k < c \/ k = c
<1>1. IsSeq(st) /\ (\A i \in 1..Len(st) : FrameOK(D, st[i]))
  BY DEF StackOK
<1>2. Len(st) \in Nat \ {0} /\ Len(st) \in 1..Len(st)
  BY <1>1, SeqLen DEF MeetsNext
<1>3. FrameOK(D, f) /\ f.rest # <<>> /\ c = Head(f.rest)
  BY <1>1, <1>2 DEF MeetsNext
<1>4. IsSeq(f.rest) /\ Elements(f.rest) \subseteq Kids(D, f.die)
      /\ \A r \in Elements(f.rest), k \in Kids(D, f.die) : r < k => k \in Elements(f.rest)
  BY <1>3 DEF FrameOK, Suffix
<1>5. c \in Elements(f.rest)
  BY <1>3, <1>4, ElementsTail
<1>6. Elements(f.rest) \subseteq Unread(st) /\ f.die \in On(st)
  BY <1>2 DEF Unread, On, MeetsNext
<1>7. \A k \in Kids(D, f.die) : k \in Nat
  BY DEF Kids, Tree
<1>8. \A k \in Kids(D, f.die) : k \notin Unread(st) => k < c \/ k = c
  BY <1>4, <1>5, <1>6, <1>7
<1>9. c \in DOMAIN D \ {0} /\ D[c].parent = f.die /\ f.die < c /\ c \in Nat
  BY <1>4, <1>5 DEF Kids, Tree
<1>10. f.die \in Nat
  BY <1>3 DEF FrameOK, With, Tree
<1> QED
  BY <1>2, <1>3, <1>4, <1>5, <1>6, <1>8, <1>9, <1>10

\* A child is met that is neither opened nor a member.
LEMMA MembersPast ==
  ASSUME NEW D, Tree(D), NEW st, StackOK(D, st), MembersOK(D, st),
         NEW f, NEW c, MeetsNext(D, st, f, c), c \notin PlainMembers(D), D[c].tag # "part",
         NEW g, Passed(f, g), ItemOK(D, f.die, g.item), SameList(D, f, g),
         NEW q, TopIs(st, q, g)
  PROVE  /\ StackOK(D, q) /\ MembersOK(D, q)
         /\ On(q) = On(st) /\ Unread(q) = Unread(st) \ {c} /\ c \in Unread(st)
<1>1. /\ StackOK(D, q) /\ SameBelow(st, q) /\ On(q) = On(st) /\ q # <<>>
      /\ q[Len(q)] = g /\ c \in Unread(st) /\ Unread(q) = Unread(st) \ {c}
  BY StackPast DEF MeetsNext
<1>2. Len(st) \in Nat \ {0}
  BY MetChild
<1>3. Len(q) = Len(st) /\ (\A i \in 1..(Len(st) - 1) : q[i] = st[i]) /\ g.die = f.die
      /\ f = st[Len(st)]
  BY <1>1 DEF SameBelow, Passed, MeetsNext
<1>4. MembersOK(D, q)
  <2>1. ASSUME NEW i \in 1..Len(st)
        PROVE  FrameMembers(D, q[i], On(q), Unread(q))
    <3>1. FrameMembers(D, st[i], On(st), Unread(st))
      BY DEF MembersOK
    <3>2. SameMembers(D, st[i].die, On(st), Unread(st), On(q), Unread(q))
      <4>1. SameMembers(D, st[i].die, On(st), Unread(st), On(st), Unread(st) \ {c})
        BY MembersSkip
      <4> QED
        BY <1>1, <4>1
    <3>3. q[i].die = st[i].die /\ SameList(D, st[i], q[i])
      <4>1. CASE i = Len(st)
        BY <1>1, <1>3, <4>1
      <4>2. CASE i # Len(st)
        BY <1>2, <1>3, <4>2 DEF SameList
      <4> QED
        BY <4>1, <4>2
    <3> QED
      BY <3>1, <3>2, <3>3, FrameMembersKept DEF SameList
  <2> QED
    BY <1>3, <2>1 DEF MembersOK
<1> QED
  BY <1>1, <1>4

LEMMA WalkSkip ==
  ASSUME NEW D, Tree(D), NEW st, NEW done, NEW aside, WalkOK(D, st, done, aside),
         NEW f, NEW c, MeetsNext(D, st, f, c), c \notin PlainMembers(D), c \notin Kept(D),
         NEW g, Passed(f, g), ItemOK(D, f.die, g.item), SameList(D, f, g),
         NEW q, TopIs(st, q, g)
  PROVE  WalkOK(D, q, done, aside)
<1>1. StackOK(D, st) /\ MembersOK(D, st) /\ Places(D, done, On(st), Unread(st), aside)
  BY DEF WalkOK
<1>2. D[c].tag # "part"
  BY <1>1, MetChild DEF Kept, With, Scopes
<1>3. /\ StackOK(D, q) /\ MembersOK(D, q)
      /\ On(q) = On(st) /\ Unread(q) = Unread(st) \ {c} /\ c \in Unread(st)
  BY <1>1, <1>2, MembersPast
<1>4. Places(D, done, On(q), Unread(q), aside)
  BY <1>1, <1>3, PlacesSkip
<1> QED
  BY <1>3, <1>4 DEF WalkOK

LEMMA WalkDone ==
  ASSUME NEW D, Tree(D), NEW st, NEW done, NEW aside, WalkOK(D, st, done, aside),
         NEW f, NEW c, MeetsNext(D, st, f, c), D[c].tag = "named",
         NEW g, Passed(f, g), ItemOK(D, f.die, g.item), SameList(D, f, g),
         NEW q, TopIs(st, q, g)
  PROVE  WalkOK(D, q, done \union {c}, aside) /\ c \in Stored(D) \ done
         /\ OwnMembers(D, c) = {}
<1>1. StackOK(D, st) /\ MembersOK(D, st) /\ Places(D, done, On(st), Unread(st), aside)
  BY DEF WalkOK
<1>2. c \in DOMAIN D /\ c \in Unread(st)
  BY <1>1, MetChild
<1>3. c \notin PlainMembers(D) /\ c \in Kept(D) /\ c \in Stored(D)
  BY <1>2 DEF PlainMembers, With, Kept, Stored, TypeTags
<1>4. /\ StackOK(D, q) /\ MembersOK(D, q)
      /\ On(q) = On(st) /\ Unread(q) = Unread(st) \ {c}
  BY <1>1, <1>3, MembersPast
<1>5. Takes("named") = {}
  BY DEF Takes
<1>6. Places(D, done \union {c}, On(q), Unread(q), aside)
  BY <1>1, <1>2, <1>3, <1>4, <1>5, PlacesDone
<1>7. c \notin done
  BY <1>1, <1>2, <1>3, PlacesFresh
<1>8. OwnMembers(D, c) = {}
  <2>1. \A k \in DOMAIN D \ {0} : D[k].tag \in {"member", "part"} => D[k].parent # c
    BY <1>5 DEF Tree
  <2>2. \A m \in PlainMembers(D) : m \in DOMAIN D \ {0} /\ D[m].tag = "member" /\ D[m].parent \in DOMAIN D
    BY MemberTags
  <2>3. \A k \in DOMAIN D : D[k].tag = "part" => k # 0
    BY DEF Tree
  <2> QED
    BY <2>1, <2>2, <2>3 DEF OwnMembers, IsPartOf
<1> QED
  BY <1>3, <1>4, <1>6, <1>7, <1>8 DEF WalkOK

LEMMA WalkAside ==
  ASSUME NEW D, Tree(D), NEW st, NEW done, NEW aside, WalkOK(D, st, done, aside),
         NEW f, NEW c, MeetsNext(D, st, f, c), D[c].tag = "function",
         NEW g, Passed(f, g), ItemOK(D, f.die, g.item), SameList(D, f, g),
         NEW q, TopIs(st, q, g)
  PROVE  WalkOK(D, q, done, aside \union {c}) /\ c \notin done \union aside
<1>1. StackOK(D, st) /\ MembersOK(D, st) /\ Places(D, done, On(st), Unread(st), aside)
  BY DEF WalkOK
<1>2. c \in DOMAIN D /\ c \in Unread(st)
  BY <1>1, MetChild
<1>3. c \notin PlainMembers(D) /\ c \in Kept(D) /\ c \in Functions(D)
  BY <1>2 DEF PlainMembers, With, Kept, Functions, Scopes
<1>4. /\ StackOK(D, q) /\ MembersOK(D, q)
      /\ On(q) = On(st) /\ Unread(q) = Unread(st) \ {c}
  BY <1>1, <1>3, MembersPast
<1>5. Places(D, done, On(q), Unread(q), aside \union {c})
  BY <1>1, <1>2, <1>3, <1>4, PlacesAside
<1>6. c \notin done \union aside
  BY <1>1, <1>2, <1>3, PlacesFresh
<1> QED
  BY <1>4, <1>5, <1>6 DEF WalkOK

\* A member is met: the call on top collects it, if it collects any.
LEMMA WalkMember ==
  ASSUME NEW D, Tree(D), NEW st, NEW done, NEW aside, WalkOK(D, st, done, aside),
         NEW f, NEW c, MeetsNext(D, st, f, c), c \in PlainMembers(D),
         NEW g, Passed(f, g), ItemOK(D, f.die, g.item),
         D[f.die].tag \in Classes \union {"part"} => g.item.members = Append(f.item.members, c),
         NEW q, TopIs(st, q, g)
  PROVE  WalkOK(D, q, done, aside)
<1> DEFINE n == Len(st)
           u == Unread(st)
           o == On(st)
<1>1. StackOK(D, st) /\ MembersOK(D, st) /\ Places(D, done, On(st), Unread(st), aside)
  BY DEF WalkOK
<1>2. /\ StackOK(D, q) /\ SameBelow(st, q) /\ On(q) = o /\ q # <<>>
      /\ q[Len(q)] = g /\ c \in u /\ Unread(q) = u \ {c}
  BY <1>1, StackPast DEF MeetsNext
<1>3. /\ n \in Nat \ {0} /\ f.die \in o /\ c \in Kids(D, f.die)
      /\ \A k \in Kids(D, f.die) : k \notin u => k < c \/ k = c
  BY <1>1, MetChild
<1>4. Len(q) = n /\ (\A i \in 1..(n - 1) : q[i] = st[i]) /\ g.die = f.die /\ f = st[n]
  BY <1>2 DEF SameBelow, Passed, MeetsNext
<1>5. D[c].tag = "member" /\ D[c].parent = f.die
  BY <1>3, MemberTags DEF Kids
<1>6. c \notin Kept(D)
  BY <1>5 DEF Kept, With, Scopes
<1>7. Places(D, done, On(q), Unread(q), aside)
  BY <1>1, <1>2, <1>6, PlacesSkip
<1>8. /\ \A t : t # f.die => SameMembers(D, t, o, u, o, u \ {c})
      /\ Collected(D, f.die, o, u \ {c}) = Collected(D, f.die, o, u) \union {c}
      /\ InPart(D, f.die, u \ {c}) = InPart(D, f.die, u) \union {c}
  <2> HIDE DEF n, u, o
  <2> DEFINE d == f.die
  <2>1. c \in u /\ d \in o /\ c \in Kids(D, d)
    BY <1>2, <1>3
  <2> HIDE DEF d
  <2>2. \A t : t # d => SameMembers(D, t, o, u, o, u \ {c})
    BY <2>1, MembersMeet
  <2>3. /\ Gains(Collected(D, d, o, u), Collected(D, d, o, u \ {c}), c)
        /\ Gains(InPart(D, d, u), InPart(D, d, u \ {c}), c)
    BY <2>1, MembersMeet
  <2> QED
    BY <2>2, <2>3 DEF d, Gains
<1>9. \A m \in Collected(D, f.die, o, u) : m < c
  BY <1>2, <1>3, CollectedBefore
<1>10. \A m \in InPart(D, f.die, u) : m < c
  <2> TAKE m \in InPart(D, f.die, u)
  <2>1. m \in Kids(D, f.die) /\ m \notin u
    BY MemberTags DEF InPart, Kids
  <2> QED
    BY <1>2, <1>3, <2>1
<1>11. \A i \in 1..n : FrameMembers(D, st[i], o, u)
  BY <1>1 DEF MembersOK
<1>12. \A i, j \in 1..n : st[i].die = st[j].die => i = j
  BY <1>1 DEF StackOK
<1> HIDE DEF n, u, o
<1>13. ASSUME NEW i \in 1..n
       PROVE  FrameMembers(D, q[i], o, u \ {c})
  <2>1. n \in 1..n
    BY <1>3
  <2>2. CASE i # n
    <3>1. i \in 1..(n - 1) /\ st[i].die # f.die
      BY <1>3, <1>4, <1>12, <2>1, <2>2
    <3>2. q[i] = st[i] /\ SameMembers(D, st[i].die, o, u, o, u \ {c})
      BY <1>4, <1>8, <3>1
    <3> QED
      BY <1>11, <3>2, FrameMembersKept
  <2>3. CASE i = n
    <3>1. q[i] = g /\ FrameMembers(D, f, o, u)
      BY <1>2, <1>4, <1>11, <2>1, <2>3
    <3>2. ASSUME D[f.die].tag \in Classes
          PROVE  Incr(g.item.members, Collected(D, f.die, o, u \ {c}))
      <4>1. Incr(f.item.members, Collected(D, f.die, o, u))
        BY <3>1, <3>2 DEF FrameMembers
      <4>2. Incr(Append(f.item.members, c), Collected(D, f.die, o, u) \union {c})
        BY <1>9, <4>1, IncrAppend
      <4> QED
        BY <1>8, <3>2, <4>2
    <3>3. ASSUME D[f.die].tag = "part"
          PROVE  Incr(g.item.members, InPart(D, f.die, u \ {c}))
      <4>1. Incr(f.item.members, InPart(D, f.die, u))
        BY <3>1, <3>3 DEF FrameMembers
      <4>2. Incr(Append(f.item.members, c), InPart(D, f.die, u) \union {c})
        BY <1>10, <4>1, IncrAppend
      <4> QED
        BY <1>8, <3>3, <4>2
    <3> QED
      BY <1>4, <3>1, <3>2, <3>3 DEF FrameMembers
  <2> QED
    BY <2>2, <2>3
<1>14. MembersOK(D, q)
  BY <1>2, <1>4, <1>13 DEF MembersOK
<1> QED
  BY <1>2, <1>7, <1>14 DEF WalkOK

\* The first call stays.
SameFirst(st, p) == p[1].die = st[1].die

\* The frame of a call that starts with the entry c, and has collected nothing.
Starts(D, c, h) ==
  /\ FrameOK(D, h) /\ h.die = c /\ Elements(h.rest) = Kids(D, c)
  /\ D[c].tag \in Classes \union {"part"} => h.item.members = <<>>

\* A scope is met: its parser is called, which has collected nothing yet.
LEMMA WalkOpen ==
  ASSUME NEW D, Tree(D), NEW st, NEW done, NEW aside, WalkOK(D, st, done, aside),
         NEW f, NEW c, MeetsNext(D, st, f, c), D[c].tag \in Scopes,
         NEW g, Passed(f, g), ItemOK(D, f.die, g.item), SameList(D, f, g),
         NEW q, TopIs(st, q, g),
         NEW h, Starts(D, c, h), NEW p, Pushed(q, h, p)
  PROVE  WalkOK(D, p, done, aside) /\ SameFirst(st, p) /\ p # <<>>
<1> DEFINE n == Len(st)
           u == Unread(st)
           o == On(st)
<1>1. /\ FrameOK(D, h) /\ h.die = c /\ Elements(h.rest) = Kids(D, c)
      /\ D[c].tag \in Classes \union {"part"} => h.item.members = <<>>
  BY DEF Starts
<1>2. StackOK(D, st) /\ MembersOK(D, st) /\ Places(D, done, On(st), Unread(st), aside)
  BY DEF WalkOK
<1>3. /\ StackOK(D, q) /\ SameBelow(st, q) /\ On(q) = o /\ q # <<>>
      /\ q[Len(q)] = g /\ c \in u /\ Unread(q) = u \ {c} /\ AtChild(D, f.die, g.rest, c)
  BY <1>2, StackPast DEF MeetsNext
<1>4. n \in Nat \ {0} /\ c \in DOMAIN D \ {0}
  BY <1>2, MetChild
<1>5. Len(q) = n /\ (\A i \in 1..(n - 1) : q[i] = st[i]) /\ g.die = f.die /\ f = st[n]
  BY <1>3 DEF SameBelow, Passed, MeetsNext
<1>6. c \in Kept(D) /\ D[c].tag # "member"
  BY <1>4 DEF Kept, With, Scopes
<1>7. c \notin o
  BY <1>2, <1>3, <1>6, PlacesFresh
<1>8. AtChild(D, q[Len(q)].die, q[Len(q)].rest, c) /\ c \notin On(q)
  BY <1>3, <1>5, <1>7
<1>9. /\ StackOK(D, p) /\ Len(p) = n + 1 /\ p[n + 1] = h
      /\ \A i \in 1..n : p[i] = q[i]
      /\ On(p) = o \union {c} /\ Unread(p) = (u \ {c}) \union Kids(D, c)
  <2>1. /\ StackOK(D, p) /\ Len(p) = Len(q) + 1 /\ p[Len(p)] = h
        /\ \A i \in 1..Len(q) : p[i] = q[i]
        /\ On(p) = On(q) \union {c} /\ Unread(p) = Unread(q) \union Kids(D, c)
    <3> HIDE DEF n, u, o
    <3> QED
      BY <1>1, <1>3, <1>8, StackPush
  <2> QED
    BY <1>3, <1>5, <2>1
<1>10. Places(D, done, On(p), Unread(p), aside)
  BY <1>2, <1>3, <1>6, <1>9, PlacesOpen
<1>11. /\ \A t : t # c => SameMembers(D, t, o, u, o \union {c}, (u \ {c}) \union Kids(D, c))
       /\ Collected(D, c, o \union {c}, (u \ {c}) \union Kids(D, c)) = {}
       /\ InPart(D, c, (u \ {c}) \union Kids(D, c)) = {}
  BY <1>3, <1>4, <1>6, MembersOpen
<1>12. \A i \in 1..n : FrameMembers(D, st[i], o, u) /\ st[i].die # c
  BY <1>2, <1>7 DEF MembersOK, On
<1> HIDE DEF n, u, o
<1>13. ASSUME NEW i \in 1..(n + 1)
       PROVE  FrameMembers(D, p[i], o \union {c}, (u \ {c}) \union Kids(D, c))
  <2>1. CASE i \in 1..n
    <3>1. p[i].die = st[i].die /\ SameList(D, st[i], p[i])
      <4>1. CASE i = n
        BY <1>3, <1>5, <1>9, <2>1, <4>1
      <4>2. CASE i # n
        BY <1>4, <1>5, <1>9, <2>1, <4>2 DEF SameList
      <4> QED
        BY <4>1, <4>2
    <3>2. SameMembers(D, st[i].die, o, u, o \union {c}, (u \ {c}) \union Kids(D, c))
      BY <1>11, <1>12, <2>1
    <3> QED
      BY <1>12, <2>1, <3>1, <3>2, FrameMembersKept DEF SameList
  <2>2. CASE i = n + 1
    <3>1. p[i] = h
      BY <1>9, <2>2
    <3>2. ASSUME D[c].tag \in Classes \union {"part"}
          PROVE  Incr(h.item.members, {})
      BY <1>1, <3>2, IncrEmpty
    <3>3. FrameMembers(D, h, o \union {c}, (u \ {c}) \union Kids(D, c))
      BY <1>1, <1>11, <3>2 DEF FrameMembers
    <3> QED
      BY <3>1, <3>3
  <2> QED
    BY <1>4, <2>1, <2>2
<1>14. MembersOK(D, p)
  BY <1>9, <1>13 DEF MembersOK
<1>15. p[1].die = st[1].die
  <2>1. CASE n = 1
    BY <1>3, <1>5, <1>9, <2>1
  <2>2. CASE n # 1
    <3>1. 1 \in 1..(n - 1) /\ 1 \in 1..n
      BY <1>4, <2>2
    <3> QED
      BY <1>5, <1>9, <3>1
  <2> QED
    BY <2>1, <2>2
<1>16. Len(p) > 1
  BY <1>4, <1>9
<1>17. p # <<>>
  BY <1>16, SeqEmpty
<1> QED
  BY <1>9, <1>10, <1>14, <1>15, <1>17 DEF WalkOK, SameFirst

\* The stack has the call f on top, which has met all children.
Returning(st, f) == st # <<>> /\ f = st[Len(st)] /\ f.rest = <<>>

\* The call on top has met all children: what is below its entry has been met too.
LEMMA TopReturns ==
  ASSUME NEW D, Tree(D), NEW st, NEW done, NEW aside, WalkOK(D, st, done, aside),
         NEW f, Returning(st, f), NEW q, Popped(st, q)
  PROVE  /\ StackOK(D, q) /\ Len(q) = Len(st) - 1 /\ Len(st) \in Nat \ {0}
         /\ \A i \in 1..Len(q) : q[i] = st[i] /\ st[i].die # f.die
         /\ On(q) = On(st) \ {f.die} /\ Unread(q) = Unread(st)
         /\ f.die \in On(st) /\ f.die \notin done \union aside
         /\ \A k \in Unread(st) : D[k].parent \in On(st) /\ D[k].parent # f.die
         /\ \A k \in On(st) : D[k].tag = "part" => D[k].parent # f.die
         /\ FrameOK(D, f) /\ FrameMembers(D, f, On(st), Unread(st))
         /\ Places(D, done \union {f.die}, On(q), Unread(q), aside)
<1> DEFINE n == Len(st)
<1>1. StackOK(D, st) /\ MembersOK(D, st) /\ Places(D, done, On(st), Unread(st), aside)
  BY DEF WalkOK
<1>2. Elements(f.rest) = {} /\ st # <<>> /\ f = st[Len(st)]
  BY ElementsEmpty DEF Returning
<1>3. /\ StackOK(D, q) /\ Len(q) = n - 1 /\ n \in Nat \ {0}
      /\ \A i \in 1..Len(q) : q[i] = st[i]
      /\ On(q) = On(st) \ {f.die} /\ f.die \in On(st)
      /\ Unread(q) = Unread(st)
  <2> DEFINE g == st[Len(st)]
  <2>1. Elements(g.rest) = {} /\ g = f
    BY <1>2
  <2>2. /\ StackOK(D, q) /\ Len(q) = n - 1 /\ n \in Nat \ {0}
        /\ \A i \in 1..Len(q) : q[i] = st[i]
        /\ On(q) = On(st) \ {g.die} /\ g.die \in On(st)
        /\ Unread(q) = Unread(st)
    BY <1>1, <1>2, <2>1, StackPop
  <2> HIDE DEF g
  <2> QED
    BY <2>1, <2>2
<1>4. /\ \A i \in 1..n : FrameOK(D, st[i])
      /\ \A i, j \in 1..n : st[i].die = st[j].die => i = j
      /\ \A i \in 1..(n - 1) : AtChild(D, st[i].die, st[i].rest, st[i + 1].die)
      /\ n > 0 => st[1].die = 0 \/ D[st[1].die].tag = "function"
  BY <1>1 DEF StackOK
<1>5. n \in 1..n /\ f = st[n]
  BY <1>2, <1>3
<1>6. \A i \in 1..n : FrameMembers(D, st[i], On(st), Unread(st))
  BY <1>1 DEF MembersOK
<1>7. \A x : x \in Unread(st) <=>
        \E i \in 1..n : x \in Elements(st[i].rest) /\ x \in Kids(D, st[i].die)
  BY <1>1, StackUnread
<1>8. On(st) = {st[i].die : i \in 1..n}
  BY DEF On
<1> HIDE DEF n
<1>9. \A i \in 1..(n - 1) : i \in 1..n /\ st[i].die # f.die
  BY <1>3, <1>4, <1>5
<1>10. ASSUME NEW k \in Unread(st)
       PROVE  D[k].parent \in On(st) /\ D[k].parent # f.die
  <2>1. PICK i \in 1..n : k \in Elements(st[i].rest) /\ k \in Kids(D, st[i].die)
    BY <1>7
  <2>2. i # n
    BY <1>2, <1>5, <2>1
  <2>3. D[k].parent = st[i].die
    BY <2>1 DEF Kids
  <2>4. st[i].die # f.die
    BY <1>4, <1>5, <2>2
  <2> QED
    BY <1>8, <2>3, <2>4
<1>11. ASSUME NEW k \in On(st), D[k].tag = "part"
       PROVE  D[k].parent # f.die
  <2>1. PICK j \in 1..n : k = st[j].die
    BY <1>8
  <2>2. j # 1
    <3>1. D[0].tag # "part" /\ n > 0
      BY <1>3 DEF Tree
    <3> QED
      BY <1>4, <1>11, <2>1, <3>1
  <2>3. PICK i \in 1..(n - 1) : i + 1 = j
    <3>1. j - 1 \in 1..(n - 1) /\ (j - 1) + 1 = j
      BY <1>3, <2>2
    <3> QED
      BY <3>1
  <2>4. AtChild(D, st[i].die, st[i].rest, k)
    BY <1>4, <2>1, <2>3
  <2>5. D[k].parent = st[i].die
    BY <2>4 DEF AtChild, Kids
  <2> QED
    BY <1>9, <2>5
<1>12. f.die \notin done \union aside
  BY <1>1, <1>3 DEF Places
<1>13. Places(D, done \union {f.die}, On(q), Unread(q), aside)
  <2> DEFINE o == On(st)
             u == Unread(st)
             t == f.die
  <2>1. t \in o /\ \A k \in u : D[k].parent # t
    BY <1>3, <1>10
  <2>2. Places(D, done, o, u, aside)
    BY <1>1
  <2> HIDE DEF o, u, t
  <2>3. Places(D, done \union {t}, o \ {t}, u, aside)
    BY <2>1, <2>2, PlacesClose
  <2> QED
    BY <1>3, <2>3 DEF o, u, t
<1> QED
  BY <1>3, <1>4, <1>5, <1>6, <1>9, <1>10, <1>11, <1>12, <1>13 DEF n

\* A call that is not for a variant part returns; a type has all its members by then.
LEMMA WalkClose ==
  ASSUME NEW D, Tree(D), NEW st, NEW done, NEW aside, WalkOK(D, st, done, aside),
         NEW f, Returning(st, f), D[f.die].tag # "part", NEW q, Popped(st, q)
  PROVE  /\ WalkOK(D, q, done \union {f.die}, aside)
         /\ f.die \notin done \union aside
         /\ Len(q) = Len(st) - 1 /\ Len(st) \in Nat \ {0}
         /\ \A i \in 1..Len(q) : q[i] = st[i]
         /\ FrameOK(D, f)
         /\ D[f.die].tag \in Classes => Incr(f.item.members, OwnMembers(D, f.die))
<1> DEFINE o == On(st)
           u == Unread(st)
           t == f.die
<1>1. /\ StackOK(D, q) /\ Len(q) = Len(st) - 1 /\ Len(st) \in Nat \ {0}
      /\ \A i \in 1..Len(q) : q[i] = st[i] /\ st[i].die # f.die
      /\ On(q) = o \ {t} /\ Unread(q) = u
      /\ t \in o /\ t \notin done \union aside
      /\ \A k \in u : D[k].parent \in o /\ D[k].parent # t
      /\ \A k \in o : D[k].tag = "part" => D[k].parent # t
      /\ FrameOK(D, f) /\ FrameMembers(D, f, o, u)
      /\ Places(D, done \union {t}, On(q), Unread(q), aside)
  BY TopReturns
<1>2. \A i \in 1..Len(st) : FrameMembers(D, st[i], o, u)
  BY DEF WalkOK, MembersOK
<1>3. D[t].tag # "part"
  OBVIOUS
<1> HIDE DEF o, u, t
<1>4. MembersOK(D, q)
  <2>1. ASSUME NEW i \in 1..Len(q)
        PROVE  FrameMembers(D, q[i], o \ {t}, u)
    <3>1. i \in 1..Len(st) /\ q[i] = st[i]
      BY <1>1
    <3>2. FrameMembers(D, st[i], o, u)
      BY <1>2, <3>1
    <3>3. SameMembers(D, st[i].die, o, u, o \ {t}, u)
      BY <1>3, MembersClose
    <3>4. FrameMembers(D, st[i], o \ {t}, u)
      BY <3>2, <3>3, FrameMembersKept
    <3> QED
      BY <3>1, <3>4
  <2> QED
    BY <1>1, <2>1 DEF MembersOK
<1>5. ASSUME D[t].tag \in Classes
      PROVE  Incr(f.item.members, OwnMembers(D, t))
  <2>1. Incr(f.item.members, Collected(D, t, o, u))
    BY <1>1, <1>5 DEF FrameMembers, t
  <2>2. Collected(D, t, o, u) = OwnMembers(D, t)
    BY <1>1, MembersComplete
  <2> QED
    BY <2>1, <2>2
<1>6. WalkOK(D, q, done \union {t}, aside)
  BY <1>1, <1>4 DEF WalkOK
<1> QED
  BY <1>1, <1>5, <1>6 DEF t

\* The call on top goes on with what one it made has returned.
LEMMA WalkSetTop ==
  ASSUME NEW D, NEW st, NEW done, NEW aside, WalkOK(D, st, done, aside),
         st # <<>>, NEW f, f = st[Len(st)], NEW h, DOMAIN h = DOMAIN f, h.die = f.die,
         h.rest = f.rest, ItemOK(D, f.die, h.item), SameList(D, f, h),
         NEW q, TopIs(st, q, h)
  PROVE  WalkOK(D, q, done, aside)
<1> DEFINE n == Len(st)
<1>1. StackOK(D, st) /\ MembersOK(D, st) /\ Places(D, done, On(st), Unread(st), aside)
  BY DEF WalkOK
<1>2. IsSeq(st) /\ (\A i \in 1..n : FrameOK(D, st[i]))
  BY <1>1 DEF StackOK
<1>3. n \in Nat \ {0} /\ n \in 1..n
  BY <1>2, SeqLen
<1>4. FrameOK(D, h)
  BY <1>2, <1>3 DEF FrameOK
<1>5. /\ StackOK(D, q) /\ On(q) = On(st)
      /\ \A x : x \in Unread(q) <=> \/ x \in Elements(h.rest)
                                    \/ \E i \in 1..(n - 1) : x \in Elements(st[i].rest)
  BY <1>1, <1>4, TopChanges
<1>6. Len(q) = n /\ q[n] = h /\ \A i \in 1..(n - 1) : q[i] = st[i]
  BY DEF TopIs
<1>7. \A x : x \in Unread(st) <=> \E i \in 1..n : x \in Elements(st[i].rest)
  BY DEF Unread
<1>8. f = st[n] /\ \A i \in 1..n : FrameMembers(D, st[i], On(st), Unread(st))
  BY <1>1 DEF MembersOK
<1> HIDE DEF n
<1>9. \A i \in 1..n : i \in 1..(n - 1) \/ i = n
  BY <1>3
<1>10. \A i \in 1..(n - 1) : i \in 1..n
  BY <1>3
<1>11. Unread(q) = Unread(st)
  <2>1. \A x : x \in Unread(q) <=> x \in Unread(st)
    BY <1>3, <1>5, <1>7, <1>8, <1>9, <1>10
  <2> QED
    BY <2>1
<1>12. ASSUME NEW i \in 1..n
       PROVE  FrameMembers(D, q[i], On(st), Unread(st))
  <2>1. CASE i = n
    <3>1. q[i] = h /\ FrameMembers(D, f, On(st), Unread(st))
      BY <1>3, <1>6, <1>8, <2>1
    <3> QED
      BY <3>1 DEF FrameMembers, SameList
  <2>2. CASE i # n
    BY <1>6, <1>8, <1>9, <2>2
  <2> QED
    BY <2>1, <2>2
<1>13. MembersOK(D, q)
  BY <1>5, <1>6, <1>11, <1>12 DEF MembersOK
<1>14. Places(D, done, On(q), Unread(q), aside)
  BY <1>1, <1>5, <1>11
<1> QED
  BY <1>5, <1>13, <1>14 DEF WalkOK

\* A call for a variant part returns: its members become members of the type.
LEMMA WalkClosePart ==
  ASSUME NEW D, Tree(D), NEW st, NEW done, NEW aside, WalkOK(D, st, done, aside),
         NEW f, Returning(st, f), D[f.die].tag = "part", NEW q, Popped(st, q),
         NEW g, g = st[Len(st) - 1], NEW h, DOMAIN h = DOMAIN g, h.die = g.die,
         h.rest = g.rest, ItemOK(D, g.die, h.item),
         h.item.members = g.item.members \o f.item.members,
         NEW r, TopIs(q, r, h)
  PROVE  WalkOK(D, r, done \union {f.die}, aside)
<1> DEFINE o == On(st)
           u == Unread(st)
           p == f.die
           d == g.die
           n == Len(st)
<1>1. /\ StackOK(D, q) /\ Len(q) = n - 1 /\ n \in Nat \ {0}
      /\ \A i \in 1..Len(q) : q[i] = st[i] /\ st[i].die # p
      /\ On(q) = o \ {p} /\ Unread(q) = u
      /\ p \in o
      /\ \A k \in u : D[k].parent \in o /\ D[k].parent # p
      /\ FrameMembers(D, f, o, u)
      /\ Places(D, done \union {p}, On(q), Unread(q), aside)
  <2>1. /\ StackOK(D, q) /\ Len(q) = Len(st) - 1 /\ Len(st) \in Nat \ {0}
        /\ \A i \in 1..Len(q) : q[i] = st[i] /\ st[i].die # f.die
        /\ On(q) = On(st) \ {f.die} /\ Unread(q) = Unread(st)
        /\ f.die \in On(st) /\ f.die \notin done \union aside
        /\ \A k \in Unread(st) : D[k].parent \in On(st) /\ D[k].parent # f.die
        /\ \A k \in On(st) : D[k].tag = "part" => D[k].parent # f.die
        /\ FrameOK(D, f) /\ FrameMembers(D, f, On(st), Unread(st))
        /\ Places(D, done \union {f.die}, On(q), Unread(q), aside)
    BY TopReturns
  <2> QED
    BY <2>1
<1>2. \A i \in 1..n : FrameMembers(D, st[i], o, u)
  BY DEF WalkOK, MembersOK
<1>3. /\ \A i \in 1..n : FrameOK(D, st[i])
      /\ \A i, j \in 1..n : st[i].die = st[j].die => i = j
      /\ \A i \in 1..(n - 1) : AtChild(D, st[i].die, st[i].rest, st[i + 1].die)
      /\ n > 0 => st[1].die = 0 \/ D[st[1].die].tag = "function"
  BY DEF WalkOK, StackOK
<1>4. f = st[n] /\ g = st[n - 1] /\ D[p].tag = "part"
  BY DEF Returning
<1>5. Len(r) = n - 1 /\ r[n - 1] = h /\ \A i \in 1..(n - 2) : r[i] = q[i]
  <2>1. Len(q) = n - 1 /\ (n - 1) - 1 = n - 2
    BY <1>1
  <2> QED
    BY <2>1 DEF TopIs
<1> HIDE DEF o, u, p, d, n
<1>6. n > 1
  <2>1. ASSUME n = 1
        PROVE  FALSE
    <3>1. p = st[1].die /\ n > 0
      BY <1>4, <2>1 DEF p
    <3>2. D[0].tag # "part"
      BY DEF Tree
    <3> QED
      BY <1>3, <1>4, <3>1, <3>2
  <2> QED
    BY <1>1, <2>1
<1>7. n - 1 \in 1..n /\ n - 1 \in 1..(n - 1) /\ (n - 1) + 1 = n
  BY <1>1, <1>6
<1>8. AtChild(D, d, g.rest, p)
  <2>1. AtChild(D, st[n - 1].die, st[n - 1].rest, st[(n - 1) + 1].die)
    BY <1>3, <1>7
  <2> QED
    BY <1>4, <1>7, <2>1 DEF d, p
<1>9. p \in Kids(D, d) /\ \A k \in Kids(D, d) : k \in Elements(g.rest) <=> p < k
  BY <1>8 DEF AtChild
<1>10. p \in DOMAIN D \ {0} /\ D[p].parent = d /\ d # p /\ p \in Nat
  BY <1>9 DEF Kids, Tree
<1>11. p \notin u
  <2>1. Places(D, done, o, u, aside)
    BY DEF WalkOK, o, u
  <2>2. p \in Kept(D)
    BY <1>4, <1>10 DEF Kept, With, Scopes
  <2> QED
    BY <1>1, <2>1, <2>2, PlacesFresh
<1>12. Elements(g.rest) \subseteq u
  BY <1>4, <1>7 DEF u, Unread, n
<1>13. \A k \in Kids(D, d) : k \notin u => k < p \/ k = p
  <2> TAKE k \in Kids(D, d)
  <2> HAVE k \notin u
  <2>1. ~(p < k)
    BY <1>9, <1>12
  <2>2. k \in Nat
    BY DEF Kids, Tree
  <2> QED
    BY <1>10, <2>1, <2>2
<1>14. \A m \in Collected(D, d, o, u) : m < p
  BY <1>1, <1>4, <1>9, <1>13, CollectedBefore
<1>15. \A m \in InPart(D, p, u) : p < m /\ m \in Nat
  BY MemberTags DEF InPart
<1>16. /\ \A t : t # d => SameMembers(D, t, o, u, o \ {p}, u)
       /\ Collected(D, d, o \ {p}, u) = Collected(D, d, o, u) \union InPart(D, p, u)
  <2>1. /\ \A t : t # d => SameMembers(D, t, o, u, o \ {p}, u)
        /\ Joined(Collected(D, d, o, u), InPart(D, p, u), Collected(D, d, o \ {p}, u))
    BY <1>1, <1>4, <1>9, <1>10, <1>11, MembersPart
  <2> QED
    BY <2>1 DEF Joined
<1>17. D[d].tag = "struct"
  <2>1. "part" \in Takes(D[d].tag)
    BY <1>4, <1>10 DEF Tree
  <2> QED
    BY <2>1 DEF Takes, NamespaceTakes, FunctionTakes, BlockTakes, StructTakes, UnionTakes,
                EnumTakes, PartTakes, VariantTakes, TypeTags
<1>18. FrameMembers(D, h, o \ {p}, u)
  <2>1. FrameMembers(D, g, o, u)
    BY <1>2, <1>4, <1>7
  <2>2. Incr(g.item.members, Collected(D, d, o, u))
    BY <1>17, <2>1 DEF FrameMembers, Classes, d
  <2>3. Incr(f.item.members, InPart(D, p, u))
    BY <1>1, <1>4 DEF FrameMembers, p
  <2>4. \A x \in Collected(D, d, o, u), y \in InPart(D, p, u) : x < y
    <3> TAKE x \in Collected(D, d, o, u), y \in InPart(D, p, u)
    <3>1. x < p /\ p < y /\ y \in Nat
      BY <1>14, <1>15
    <3>2. x \in Nat
      BY MemberTags DEF Collected, OwnMembers
    <3> QED
      BY <1>10, <3>1, <3>2
  <2>5. Incr(g.item.members \o f.item.members, Collected(D, d, o, u) \union InPart(D, p, u))
    BY <2>2, <2>3, <2>4, IncrConcat
  <2>6. Incr(h.item.members, Collected(D, d, o \ {p}, u))
    BY <1>16, <2>5
  <2> QED
    BY <1>17, <2>6 DEF FrameMembers, d
<1>19. StackOK(D, r) /\ On(r) = o \ {p} /\ Unread(r) = u
  <2>1. q # <<>>
    BY <1>1, <1>6, SeqEmpty
  <2>2. g = q[Len(q)]
    BY <1>1, <1>4, <1>7
  <2>3. FrameOK(D, g)
    BY <1>3, <1>4, <1>7
  <2>4. FrameOK(D, h)
    BY <2>3 DEF FrameOK
  <2>5. /\ StackOK(D, r) /\ On(r) = On(q)
        /\ \A x : x \in Unread(r) <=> \/ x \in Elements(h.rest)
                                      \/ \E i \in 1..(Len(q) - 1) : x \in Elements(q[i].rest)
    BY <1>1, <2>1, <2>2, <2>4, TopChanges
  <2>6. \A x : x \in Unread(q) <=> \E i \in 1..Len(q) : x \in Elements(q[i].rest)
    BY DEF Unread
  <2>7. \A i \in 1..Len(q) : i \in 1..(Len(q) - 1) \/ i = Len(q)
    BY <1>1
  <2>8. Len(q) \in 1..Len(q) /\ \A i \in 1..(Len(q) - 1) : i \in 1..Len(q)
    BY <1>1, <1>6
  <2>9. \A x : x \in Unread(r) <=> x \in Unread(q)
    BY <2>2, <2>5, <2>6, <2>7, <2>8
  <2> QED
    BY <1>1, <2>5, <2>9
<1>20. ASSUME NEW i \in 1..(n - 1)
       PROVE  FrameMembers(D, r[i], o \ {p}, u)
  <2>1. CASE i = n - 1
    BY <1>5, <1>18, <2>1
  <2>2. CASE i # n - 1
    <3>1. i \in 1..(n - 2) /\ i \in 1..Len(q) /\ i \in 1..n
      BY <1>1, <2>2
    <3>2. r[i] = st[i]
      BY <1>1, <1>5, <3>1
    <3>3. st[i].die # d
      BY <1>3, <1>4, <1>7, <2>2, <3>1 DEF d
    <3>4. FrameMembers(D, st[i], o, u) /\ SameMembers(D, st[i].die, o, u, o \ {p}, u)
      BY <1>2, <1>16, <3>1, <3>3
    <3>5. FrameMembers(D, st[i], o \ {p}, u)
      BY <3>4, FrameMembersKept
    <3> QED
      BY <3>2, <3>5
  <2> QED
    BY <2>1, <2>2
<1>21. MembersOK(D, r)
  BY <1>5, <1>19, <1>20 DEF MembersOK
<1>22. Places(D, done \union {p}, On(r), Unread(r), aside)
  BY <1>1, <1>19
<1> QED
  BY <1>19, <1>21, <1>22 DEF WalkOK, p

-----------------------------------------------------------------------------
(* The first call, and those the fix-up makes.                             *)
(***************************************************************************)
LEMMA WalkStart ==
  ASSUME NEW D, Tree(D), NEW g, FrameOK(D, g), g.die = 0, Elements(g.rest) = Kids(D, 0),
         NEW st, st = <<g>>
  PROVE  WalkOK(D, st, {}, {})
<1>1. IsSeq(st) /\ Len(st) = 1 /\ st[1] = g
  BY SeqOne
<1>2. StackOK(D, st)
  BY StackOne
<1>3. On(st) = {0} /\ Unread(st) = Kids(D, 0)
  BY <1>1, OnlyOne
<1>4. Places(D, {}, {0}, Kids(D, 0), {})
  BY PlacesStart
<1>5. MembersOK(D, st)
  <2>1. D[0].tag \notin Classes \union {"part"}
    BY DEF Tree, Classes
  <2>2. \A i \in 1..1 : i = 1
    OBVIOUS
  <2> QED
    BY <1>1, <2>1, <2>2 DEF MembersOK, FrameMembers
<1> QED
  BY <1>2, <1>3, <1>4, <1>5 DEF WalkOK

LEMMA WalkResume ==
  ASSUME NEW D, Tree(D), NEW done, NEW aside, WalkOK(D, <<>>, done, aside),
         NEW g, FrameOK(D, g), g.die \in aside, Elements(g.rest) = Kids(D, g.die),
         NEW st, st = <<g>>
  PROVE  WalkOK(D, st, done, aside \ {g.die})
<1> DEFINE f == g.die
<1>1. IsSeq(st) /\ Len(st) = 1 /\ st[1] = g
  BY SeqOne
<1>2. Places(D, done, {}, {}, aside)
  BY StackNone DEF WalkOK
<1>3. f \in aside /\ D[f].tag = "function"
  BY <1>2 DEF Places, Functions, With
<1>4. StackOK(D, st)
  BY <1>3, StackOne
<1>5. On(st) = {f} /\ Unread(st) = Kids(D, f)
  BY <1>1, OnlyOne
<1>6. MembersOK(D, st)
  <2>1. D[f].tag \notin Classes \union {"part"}
    BY <1>3 DEF Classes
  <2>2. \A i \in 1..1 : i = 1
    OBVIOUS
  <2> QED
    BY <1>1, <2>1, <2>2 DEF MembersOK, FrameMembers
<1> HIDE DEF f
<1>7. Places(D, done, {f}, Kids(D, f), aside \ {f})
  BY <1>2, <1>3, PlacesResume
<1> QED
  BY <1>4, <1>5, <1>6, <1>7 DEF WalkOK, f

\* The only call returns.
LEMMA WalkCloseLast ==
  ASSUME NEW D, Tree(D), NEW st, NEW done, NEW aside, WalkOK(D, st, done, aside),
         NEW f, Returning(st, f), Len(st) = 1
  PROVE  /\ WalkOK(D, <<>>, done \union {f.die}, aside)
         /\ f.die \notin done \union aside /\ FrameOK(D, f)
<1>1. f = st[1] /\ st # <<>> /\ f.rest = <<>>
  BY DEF Returning
<1>2. FrameOK(D, f) /\ (f.die = 0 \/ D[f.die].tag = "function")
  BY <1>1 DEF WalkOK, StackOK
<1>3. On(st) = {f.die} /\ Unread(st) = {}
  BY <1>1, OnlyOne, ElementsEmpty
<1>4. Places(D, done, {f.die}, {}, aside)
  BY <1>3 DEF WalkOK
<1>5. Places(D, done \union {f.die}, {f.die} \ {f.die}, {}, aside)
  BY <1>4, PlacesClose
<1>6. {f.die} \ {f.die} = {}
  OBVIOUS
<1>7. MembersOK(D, <<>>)
  BY SeqEmpty DEF MembersOK
<1>8. f.die \notin done \union aside
  BY <1>4 DEF Places
<1> QED
  BY <1>2, <1>5, <1>6, <1>7, <1>8, StackNone DEF WalkOK

-----------------------------------------------------------------------------
(* Lists in the order of storage.                                          *)
(***************************************************************************)
LEMMA SortedIncr ==
  ASSUME NEW S, S \subseteq Nat, IsFiniteSet(S)
  PROVE  Incr(Sorted(S), S)
<1> DEFINE before == {p \in S \X S : p[1] < p[2]}
           s == Arrange(S, before)
           n == Cardinality(S)
<1>1. \A i, j \in S : <<i, j>> \in before <=> i < j
  OBVIOUS
<1>2. Strict(S, before)
  BY <1>1 DEF Strict
<1> HIDE DEF before
<1>3. /\ s \in [1..n -> S]
      /\ \A i, j \in 1..n : i < j => <<s[i], s[j]>> \in before
      /\ \A k \in S : \E m \in 1..n : s[m] = k
  BY <1>2, ArrangeSorts
<1>4. n \in Nat
  BY FS_CardinalityType
<1>5. Sorted(S) = s
  BY DEF Sorted, before
<1> HIDE DEF s, n
<1>6. s \in Seq(S) /\ Len(s) = n
  BY <1>3, <1>4
<1>7. \A i, j \in 1..n : i < j => s[i] < s[j]
  BY <1>1, <1>3
<1>8. Elements(s) = S
  BY <1>3, <1>6 DEF Elements
<1>9. Incr(s, S)
  BY <1>6, <1>7, <1>8 DEF Incr, Increasing, IsSeq
<1> QED
  BY <1>5, <1>9

\* There is only one such list of a set.
Begins(s, t) == \A i \in 1..Len(s) : i \in 1..Len(t) /\ s[i] = t[i]

LEMMA IncrAgrees ==
  ASSUME NEW S, S \subseteq Nat, NEW s, Incr(s, S), NEW t, Incr(t, S)
  PROVE  Begins(s, t)
<1> DEFINE n == Len(s)
           m == Len(t)
           T == {i \in 1..n : ~(i \in 1..m /\ s[i] = t[i])}
<1>1. IsSeq(s) /\ IsSeq(t) /\ Elements(s) = S /\ Elements(t) = S
  BY DEF Incr
<1>2. (\A i, j \in 1..n : i < j => s[i] < s[j]) /\ (\A i, j \in 1..m : i < j => t[i] < t[j])
  BY DEF Incr, Increasing
<1>3. n \in Nat /\ m \in Nat
  BY <1>1, SeqLen
<1>4. S = {s[i] : i \in 1..n} /\ S = {t[i] : i \in 1..m}
  BY <1>1 DEF Elements
<1> HIDE DEF n, m
<1>5. (\A i \in 1..n : s[i] \in Nat) /\ (\A i \in 1..m : t[i] \in Nat)
  BY <1>4
<1>6. ASSUME T # {}
      PROVE  FALSE
  <2>1. T \subseteq Nat
    BY <1>3
  <2> HIDE DEF T
  <2>2. PICK i \in T : \A k \in T : i <= k
    BY <1>6, <2>1, NatMin
  <2>3. i \in 1..n /\ ~(i \in 1..m /\ s[i] = t[i])
    BY DEF T
  <2>4. \A k \in 1..n : k < i => k \in 1..m /\ s[k] = t[k]
    <3> TAKE k \in 1..n
    <3> HAVE k < i
    <3>1. ~(i <= k)
      BY <2>3
    <3> QED
      BY <2>2, <3>1 DEF T
  <2>5. PICK j \in 1..m : t[j] = s[i]
    BY <1>4, <2>3
  <2>6. i < j
    <3>1. ASSUME j < i
          PROVE  FALSE
      <4>1. j \in 1..n /\ s[j] = t[j]
        BY <1>3, <2>3, <2>4, <3>1
      <4>2. s[j] < s[i]
        BY <1>2, <2>3, <3>1, <4>1
      <4> QED
        BY <1>5, <2>3, <2>5, <4>1, <4>2
    <3>2. i # j
      BY <2>3, <2>5
    <3> QED
      BY <2>3, <3>1, <3>2
  <2>7. i \in 1..m /\ t[i] < s[i]
    <3>1. i \in 1..m
      BY <1>3, <2>3, <2>6
    <3> QED
      BY <1>2, <2>5, <2>6, <3>1
  <2>8. PICK k \in 1..n : s[k] = t[i]
    BY <1>4, <2>7
  <2>9. k < i
    <3>1. ASSUME i < k
          PROVE  FALSE
      <4>1. s[i] < s[k]
        BY <1>2, <2>3, <3>1
      <4> QED
        BY <1>5, <2>3, <2>7, <2>8, <4>1
    <3>2. i # k
      BY <1>5, <2>3, <2>7, <2>8
    <3> QED
      BY <2>3, <3>1, <3>2
  <2>10. k \in 1..m /\ t[k] < t[i]
    BY <1>2, <2>4, <2>7, <2>9
  <2> QED
    BY <1>5, <2>4, <2>7, <2>8, <2>9, <2>10
<1>7. \A i \in 1..n : i \in 1..m /\ s[i] = t[i]
  BY <1>6
<1> QED
  BY <1>7 DEF n, m, Begins

LEMMA IncrUnique ==
  ASSUME NEW S, S \subseteq Nat, NEW s, Incr(s, S), NEW t, Incr(t, S)
  PROVE  s = t
<1>1. (\A i \in 1..Len(s) : i \in 1..Len(t) /\ s[i] = t[i])
      /\ (\A i \in 1..Len(t) : i \in 1..Len(s))
  <2>1. Begins(s, t) /\ Begins(t, s)
    BY IncrAgrees
  <2> QED
    BY <2>1 DEF Begins
<1>2. IsSeq(s) /\ IsSeq(t)
  BY DEF Incr
<1>3. Len(s) \in Nat /\ Len(t) \in Nat /\ DOMAIN s = 1..Len(s) /\ DOMAIN t = 1..Len(t)
  BY <1>2, SeqLen
<1>4. 1..Len(s) = 1..Len(t)
  BY <1>1
<1>5. s = [i \in 1..Len(s) |-> s[i]] /\ t = [i \in 1..Len(t) |-> t[i]]
  BY <1>2, <1>3 DEF IsSeq
<1> QED
  BY <1>1, <1>3, <1>4, <1>5

-----------------------------------------------------------------------------
(* Lists of what has been built, no entry twice.                           *)
(***************************************************************************)
Once(items) ==
  IsSeq(items) /\ \A i, j \in 1..Len(items) : items[i].die = items[j].die => i = j
DiesOf(items) == {items[i].die : i \in 1..Len(items)}

LEMMA OnceEmpty == Once(<<>>) /\ DiesOf(<<>>) = {}
  BY SeqEmpty DEF Once, DiesOf

LEMMA OnceAppend ==
  ASSUME NEW s, Once(s), NEW x, x.die \notin DiesOf(s)
  PROVE  /\ Once(Append(s, x)) /\ DiesOf(Append(s, x)) = DiesOf(s) \union {x.die}
         /\ Len(Append(s, x)) = Len(s) + 1 /\ Len(s) \in Nat
         /\ \A i \in 1..Len(s) : Append(s, x)[i] = s[i]
         /\ Append(s, x)[Len(s) + 1] = x
<1> DEFINE t == Append(s, x)
           n == Len(s)
<1>1. IsSeq(s) /\ \A i, j \in 1..n : s[i].die = s[j].die => i = j
  BY DEF Once
<1>2. /\ n \in Nat /\ IsSeq(t) /\ Len(t) = n + 1 /\ t[n + 1] = x
      /\ \A i \in 1..n : t[i] = s[i]
  BY <1>1, SeqLen, SeqAppend
<1>3. DiesOf(s) = {s[i].die : i \in 1..n} /\ DiesOf(t) = {t[i].die : i \in 1..(n + 1)}
  BY <1>2 DEF DiesOf
<1> HIDE DEF t, n
<1>4. 1..(n + 1) = 1..n \union {n + 1}
  BY <1>2
<1>5. DiesOf(t) = DiesOf(s) \union {x.die}
  BY <1>2, <1>3, <1>4
<1>6. \A i \in 1..n : t[i].die # x.die
  BY <1>2, <1>3
<1>7. \A i, j \in 1..(n + 1) : t[i].die = t[j].die => i = j
  BY <1>1, <1>2, <1>4, <1>6
<1>8. Once(t)
  BY <1>2, <1>7 DEF Once
<1> QED
  BY <1>2, <1>5, <1>8 DEF t, n

LEMMA OnceTail ==
  ASSUME NEW s, Once(s), s # <<>>
  PROVE  /\ Once(Tail(s)) /\ DiesOf(Tail(s)) = DiesOf(s) \ {Head(s).die}
         /\ Head(s).die \in DiesOf(s) /\ Len(Tail(s)) = Len(s) - 1
         /\ Head(s) = s[1] /\ 1 \in 1..Len(s)
         /\ \A i \in 1..Len(Tail(s)) : i + 1 \in 1..Len(s) /\ Tail(s)[i] = s[i + 1]
<1> DEFINE t == Tail(s)
           n == Len(s)
<1>1. IsSeq(s) /\ \A i, j \in 1..n : s[i].die = s[j].die => i = j
  BY DEF Once
<1>2. /\ IsSeq(t) /\ Len(t) = n - 1 /\ n \in Nat \ {0} /\ Head(s) = s[1]
      /\ \A i \in 1..(n - 1) : i + 1 \in 1..n /\ t[i] = s[i + 1]
  BY <1>1, SeqTail
<1>3. DiesOf(s) = {s[i].die : i \in 1..n} /\ DiesOf(t) = {t[i].die : i \in 1..(n - 1)}
  BY <1>2 DEF DiesOf
<1> HIDE DEF t, n
<1>4. 1 \in 1..n /\ \A i \in 1..(n - 1) : i + 1 # 1
  BY <1>2
<1>5. \A i \in 1..n : i # 1 => \E k \in 1..(n - 1) : k + 1 = i
  <2> TAKE i \in 1..n
  <2> HAVE i # 1
  <2>1. i - 1 \in 1..(n - 1) /\ (i - 1) + 1 = i
    BY <1>2
  <2> QED
    BY <2>1
<1>6. \A i, j \in 1..(n - 1) : t[i].die = t[j].die => i = j
  <2> TAKE i \in 1..(n - 1), j \in 1..(n - 1)
  <2> HAVE t[i].die = t[j].die
  <2>1. i + 1 = j + 1
    BY <1>1, <1>2
  <2> QED
    BY <2>1
<1>7. \A i \in 1..(n - 1) : t[i].die # s[1].die /\ t[i].die \in DiesOf(s)
  BY <1>1, <1>2, <1>3, <1>4
<1>8. \A d \in DiesOf(s) : d # s[1].die => d \in DiesOf(t)
  <2> TAKE d \in DiesOf(s)
  <2> HAVE d # s[1].die
  <2>1. PICK i \in 1..n : d = s[i].die
    BY <1>3
  <2>2. PICK k \in 1..(n - 1) : k + 1 = i
    BY <1>5, <2>1
  <2> QED
    BY <1>2, <1>3, <2>1, <2>2
<1>9. DiesOf(t) = DiesOf(s) \ {s[1].die} /\ s[1].die \in DiesOf(s)
  BY <1>3, <1>4, <1>7, <1>8
<1>10. Once(t)
  BY <1>2, <1>6 DEF Once
<1> QED
  BY <1>2, <1>4, <1>9, <1>10 DEF t, n

LEMMA OnceCount ==
  ASSUME NEW s, Once(s)
  PROVE  Dies(s) = DiesOf(s) /\ Len(s) = Cardinality(DiesOf(s))
<1> DEFINE N == 1..Len(s)
           f == [i \in N |-> s[i].die]
<1>1. Len(s) \in Nat /\ DOMAIN s = N /\ \A i, j \in N : s[i].die = s[j].die => i = j
  BY SeqLen DEF Once
<1>2. f \in Bijection(N, DiesOf(s))
  BY <1>1 DEF DiesOf, Bijection, Injection, Surjection, IsInjective
<1>3. ExistsBijection(N, DiesOf(s))
  BY <1>2 DEF ExistsBijection
<1>4. IsFiniteSet(N) /\ Cardinality(N) = Len(s)
  BY <1>1, FS_Interval
<1>5. Cardinality(DiesOf(s)) = Cardinality(N)
  BY <1>3, <1>4, FS_Bijection
<1>6. Dies(s) = DiesOf(s)
  BY <1>1 DEF Dies, DiesOf
<1> QED
  BY <1>4, <1>5, <1>6

\* What a map by offset holds of each entry is its own.
OwnItems(map) == \A d \in DOMAIN map : map[d].die = d

LEMMA ByOffsetHolds ==
  ASSUME NEW s, Once(s)
  PROVE  DOMAIN ByOffset(s) = DiesOf(s) /\ OwnItems(ByOffset(s))
<1>1. IsSeq(s) /\ \A i, j \in 1..Len(s) : s[i].die = s[j].die => i = j
  BY DEF Once
<1>2. DOMAIN s = 1..Len(s) /\ Len(s) \in Nat
  BY <1>1, SeqLen
<1> DEFINE at(d) == CHOOSE k \in DOMAIN s :
                      s[k].die = d /\ \A j \in DOMAIN s : s[j].die = d => j <= k
<1>3. DOMAIN ByOffset(s) = DiesOf(s) /\ \A d \in DiesOf(s) : ByOffset(s)[d] = s[at(d)]
  BY <1>2 DEF ByOffset, DiesOf
<1>4. ASSUME NEW d \in DiesOf(s)
      PROVE  s[at(d)].die = d
  <2>1. PICK k \in DOMAIN s : s[k].die = d
    BY <1>2 DEF DiesOf
  <2>2. \A j \in DOMAIN s : s[j].die = d => j <= k
    BY <1>1, <1>2, <2>1
  <2> QED
    BY <2>1, <2>2
<1> HIDE DEF at
<1>5. \A d \in DiesOf(s) : ByOffset(s)[d].die = d
  BY <1>3, <1>4
<1> QED
  BY <1>3, <1>5 DEF OwnItems

LEMMA InOrderHolds ==
  ASSUME NEW map, DOMAIN map \subseteq Nat, IsFiniteSet(DOMAIN map), OwnItems(map)
  PROVE  Once(InOrder(map)) /\ DiesOf(InOrder(map)) = DOMAIN map
<1> DEFINE ds == Sorted(DOMAIN map)
           n == Len(ds)
           s == [k \in DOMAIN ds |-> map[ds[k]]]
<1>1. InOrder(map) = s
  BY DEF InOrder
<1>2. IsSeq(ds) /\ Elements(ds) = DOMAIN map /\ Increasing(ds)
  BY SortedIncr DEF Incr
<1>3. DOMAIN ds = 1..n /\ n \in Nat
  BY <1>2, SeqLen
<1>4. \A i, j \in 1..n : i < j => ds[i] < ds[j]
  BY <1>2 DEF Increasing
<1>5. DOMAIN map = {ds[k] : k \in 1..n}
  BY <1>2 DEF Elements
<1> HIDE DEF ds, n
<1>6. s = [k \in 1..n |-> map[ds[k]]]
  BY <1>3
<1>7. \A k \in 1..n : s[k].die = ds[k]
  BY <1>5, <1>6 DEF OwnItems
<1>8. IsSeq(s) /\ Len(s) = n
  <2> DEFINE M == {map[d] : d \in DOMAIN map}
  <2>1. s \in [1..n -> M]
    BY <1>5, <1>6
  <2> HIDE DEF s, M
  <2>2. s \in Seq(M) /\ Len(s) = n
    BY <1>3, <2>1
  <2> QED
    BY <2>2 DEF IsSeq
<1>9. \A i, j \in 1..n : ds[i] = ds[j] => i = j
  <2> TAKE i \in 1..n, j \in 1..n
  <2> HAVE ds[i] = ds[j]
  <2>1. ds[i] \in Nat /\ ds[j] \in Nat
    BY <1>5
  <2>2. ~(i < j) /\ ~(j < i)
    BY <1>4, <2>1
  <2> QED
    BY <1>3, <2>2
<1> HIDE DEF s
<1>10. Once(s)
  BY <1>7, <1>8, <1>9 DEF Once
<1>11. DiesOf(s) = DOMAIN map
  BY <1>5, <1>7, <1>8 DEF DiesOf
<1> QED
  BY <1>1, <1>10, <1>11

-----------------------------------------------------------------------------
(* What is built: the functions found and those the fix-up knows, the      *)
(* types, and what is put aside.                                           *)
(***************************************************************************)
FunctionsOK(D, done, fs, map) ==
  /\ Once(fs) /\ OwnItems(map)
  /\ DiesOf(fs) \union DOMAIN map = done \intersect Functions(D)
  /\ DiesOf(fs) \intersect DOMAIN map = {}

TypesOK(D, done, ts) ==
  /\ Once(ts) /\ DiesOf(ts) = done \intersect Stored(D)
  /\ \A k \in 1..Len(ts) : Incr(ts[k].members, OwnMembers(D, ts[k].die))

HaveDies(items) == \A k \in 1..Len(items) : "die" \in DOMAIN items[k]
AsideOK(sub, def, aside) ==
  /\ Once(sub) /\ Once(def) /\ HaveDies(sub) /\ HaveDies(def)
  /\ DiesOf(sub) \intersect DiesOf(def) = {}
  /\ aside = DiesOf(sub) \union DiesOf(def)

LEMMA FunctionsSame ==
  ASSUME NEW D, NEW done, NEW fs, NEW map, FunctionsOK(D, done, fs, map),
         NEW t, t \notin Functions(D)
  PROVE  FunctionsOK(D, done \union {t}, fs, map)
BY DEF FunctionsOK

LEMMA FunctionsAdd ==
  ASSUME NEW D, NEW done, NEW fs, NEW map, FunctionsOK(D, done, fs, map),
         NEW f, f.die \in Functions(D), f.die \notin done
  PROVE  FunctionsOK(D, done \union {f.die}, Append(fs, f), map)
<1>1. f.die \notin DiesOf(fs) /\ f.die \notin DOMAIN map
  BY DEF FunctionsOK
<1>2. Once(Append(fs, f)) /\ DiesOf(Append(fs, f)) = DiesOf(fs) \union {f.die}
  BY <1>1, OnceAppend DEF FunctionsOK
<1> QED
  BY <1>1, <1>2 DEF FunctionsOK

LEMMA FunctionsGathered ==
  ASSUME NEW D, NEW done, NEW fs, FunctionsOK(D, done, fs, <<>>)
  PROVE  FunctionsOK(D, done, <<>>, ByOffset(fs))
<1>1. DOMAIN <<>> = {}
  OBVIOUS
<1>2. DOMAIN ByOffset(fs) = DiesOf(fs) /\ OwnItems(ByOffset(fs))
  BY ByOffsetHolds DEF FunctionsOK
<1> QED
  BY <1>1, <1>2, OnceEmpty DEF FunctionsOK

LEMMA FunctionsFixed ==
  ASSUME NEW D, NEW done, NEW fs, NEW map, FunctionsOK(D, done, fs, map),
         NEW f, NEW d, f.die = d, d \in Functions(D), d \notin done
  PROVE  FunctionsOK(D, done \union {d}, <<>>, AllInserted(Inserted(map, d, f), ByOffset(fs)))
<1> DEFINE one == Inserted(map, d, f)
           more == ByOffset(fs)
           all == AllInserted(one, more)
<1>1. DOMAIN one = DOMAIN map \union {d} /\ OwnItems(one)
  BY DEF Inserted, FunctionsOK, OwnItems
<1>2. DOMAIN more = DiesOf(fs) /\ OwnItems(more)
  BY ByOffsetHolds DEF FunctionsOK
<1> HIDE DEF one, more
<1>3. DOMAIN all = DOMAIN map \union {d} \union DiesOf(fs) /\ OwnItems(all)
  BY <1>1, <1>2 DEF AllInserted, OwnItems
<1> HIDE DEF all
<1>4. FunctionsOK(D, done \union {d}, <<>>, all)
  BY <1>3, OnceEmpty DEF FunctionsOK
<1> QED
  BY <1>4 DEF all, one, more

LEMMA TypesSame ==
  ASSUME NEW D, NEW done, NEW ts, TypesOK(D, done, ts), NEW t, t \notin Stored(D)
  PROVE  TypesOK(D, done \union {t}, ts)
BY DEF TypesOK

LEMMA TypesAdd ==
  ASSUME NEW D, NEW done, NEW ts, TypesOK(D, done, ts),
         NEW t, t.die \in Stored(D), t.die \notin done,
         Incr(t.members, OwnMembers(D, t.die))
  PROVE  TypesOK(D, done \union {t.die}, Append(ts, t))
<1>1. t.die \notin DiesOf(ts) /\ Once(ts)
  BY DEF TypesOK
<1>2. /\ Once(Append(ts, t)) /\ DiesOf(Append(ts, t)) = DiesOf(ts) \union {t.die}
      /\ Len(Append(ts, t)) = Len(ts) + 1 /\ Len(ts) \in Nat
      /\ \A i \in 1..Len(ts) : Append(ts, t)[i] = ts[i]
      /\ Append(ts, t)[Len(ts) + 1] = t
  BY <1>1, OnceAppend
<1>3. DiesOf(Append(ts, t)) = (done \union {t.die}) \intersect Stored(D)
  BY <1>2 DEF TypesOK
<1>4. ASSUME NEW k \in 1..Len(Append(ts, t))
      PROVE  Incr(Append(ts, t)[k].members, OwnMembers(D, Append(ts, t)[k].die))
  <2> DEFINE p == Append(ts, t)
             n == Len(ts)
  <2>1. k \in 1..(n + 1) /\ n \in Nat /\ p[n + 1] = t /\ \A i \in 1..n : p[i] = ts[i]
    BY <1>2
  <2>2. \A i \in 1..n : Incr(ts[i].members, OwnMembers(D, ts[i].die))
    BY DEF TypesOK
  <2> HIDE DEF p, n
  <2>3. Incr(p[k].members, OwnMembers(D, p[k].die))
    <3>1. CASE k = n + 1
      BY <2>1, <3>1
    <3>2. CASE k \in 1..n
      BY <2>1, <2>2, <3>2
    <3> QED
      BY <2>1, <3>1, <3>2
  <2> QED
    BY <2>3 DEF p
<1> QED
  BY <1>2, <1>3, <1>4 DEF TypesOK

LEMMA AsideAdd ==
  ASSUME NEW sub, NEW def, NEW aside, AsideOK(sub, def, aside),
         NEW x, "die" \in DOMAIN x, x.die \notin aside
  PROVE  AsideOK(Append(sub, x), def, aside \union {x.die})
<1>1. x.die \notin DiesOf(sub) /\ x.die \notin DiesOf(def) /\ Once(sub)
  BY DEF AsideOK
<1>2. /\ Once(Append(sub, x)) /\ DiesOf(Append(sub, x)) = DiesOf(sub) \union {x.die}
      /\ Len(Append(sub, x)) = Len(sub) + 1 /\ Len(sub) \in Nat
      /\ \A i \in 1..Len(sub) : Append(sub, x)[i] = sub[i]
      /\ Append(sub, x)[Len(sub) + 1] = x
  BY <1>1, OnceAppend
<1>3. HaveDies(Append(sub, x))
  <2> DEFINE p == Append(sub, x)
             n == Len(sub)
  <2>1. /\ Len(p) = n + 1 /\ n \in Nat /\ p[n + 1] = x /\ \A i \in 1..n : p[i] = sub[i]
        /\ \A i \in 1..n : "die" \in DOMAIN sub[i]
    BY <1>2 DEF AsideOK, HaveDies
  <2> HIDE DEF p, n
  <2>2. \A k \in 1..(n + 1) : k \in 1..n \/ k = n + 1
    BY <2>1
  <2>3. HaveDies(p)
    BY <2>1, <2>2 DEF HaveDies
  <2> QED
    BY <2>3 DEF p
<1> QED
  BY <1>1, <1>2, <1>3 DEF AsideOK

LEMMA AsideBegin ==
  ASSUME NEW sub, NEW aside, AsideOK(sub, <<>>, aside)
  PROVE  AsideOK(<<>>, sub, aside)
BY OnceEmpty DEF AsideOK

LEMMA AsideNext ==
  ASSUME NEW sub, NEW def, NEW aside, AsideOK(sub, def, aside), def # <<>>,
         NEW f, f = Head(def)
  PROVE  /\ f.die \in aside /\ "die" \in DOMAIN f
         /\ AsideOK(sub, Tail(def), aside \ {f.die})
         /\ AsideOK(Append(sub, f), Tail(def), aside)
<1>1. Once(def)
  BY DEF AsideOK
<1>2. /\ Once(Tail(def)) /\ DiesOf(Tail(def)) = DiesOf(def) \ {f.die}
      /\ f.die \in DiesOf(def) /\ f = def[1] /\ 1 \in 1..Len(def)
      /\ \A i \in 1..Len(Tail(def)) : i + 1 \in 1..Len(def) /\ Tail(def)[i] = def[i + 1]
  BY <1>1, OnceTail
<1>3. HaveDies(Tail(def)) /\ "die" \in DOMAIN f
  BY <1>2 DEF AsideOK, HaveDies
<1>4. AsideOK(sub, Tail(def), aside \ {f.die}) /\ f.die \in aside
  BY <1>2, <1>3 DEF AsideOK
<1>5. (aside \ {f.die}) \union {f.die} = aside
  BY <1>4
<1>6. AsideOK(Append(sub, f), Tail(def), (aside \ {f.die}) \union {f.die})
  BY <1>3, <1>4, AsideAdd
<1> QED
  BY <1>3, <1>4, <1>5, <1>6

-----------------------------------------------------------------------------
(* The invariant: while entries are searched for, there are those that are *)
(* done and those put aside; then everything is built.                     *)
(***************************************************************************)
Searching == phase \in {"walk", "functions"}

ControlOK ==
  /\ phase = "walk" => /\ stack # <<>> /\ stack[1].die = 0
                       /\ known = <<>> /\ defer = <<>> /\ pass = "none"
  /\ phase = "functions" =>
       /\ stack # <<>> => stack[1].die # 0 /\ pass # "none"
       /\ stack = <<>> => functions = <<>>
       /\ pass = "none" => defer = <<>>

Building(done, aside) ==
  /\ WalkOK(Die, stack, done, aside)
  /\ AsideOK(subprograms, defer, aside)
  /\ FunctionsOK(Die, done, functions, known)
  /\ TypesOK(Die, done, types)
  /\ 0 \in done <=> phase = "functions"
  /\ ControlOK

Built ==
  /\ stack = <<>>
  /\ Once(functions) /\ DiesOf(functions) = Functions(Die)
  /\ TypesOK(Die, Kept(Die) \union {0}, types)

UnitInv ==
  /\ unit \in Units
  /\ Searching => \E done, aside : Building(done, aside)
  /\ phase \in {"variables", "done"} => Built

\* A step of a call leaves the phase alone: only what is being built is at stake.
LEMMA CallStep ==
  ASSUME UnitInv, stack # <<>>, unit' = unit, phase' = phase,
         Searching => \E done, aside : Building(done, aside)'
  PROVE  UnitInv'
<1>1. phase \notin {"variables", "done"}
  BY DEF UnitInv, Built
<1> QED
  BY <1>1 DEF UnitInv, Searching

\* The control is right whatever a call finds, if it leaves the first call in place.
LEMMA ControlKept ==
  ASSUME ControlOK, stack # <<>>, stack' # <<>>, stack'[1].die = stack[1].die,
         phase' = phase, known' = known, defer' = defer, pass' = pass
  PROVE  ControlOK'
BY DEF ControlOK

LEMMA FirstKept ==
  ASSUME NEW st, IsSeq(st), st # <<>>, NEW q, NEW g, TopIs(st, q, g), g.die = st[Len(st)].die
  PROVE  q # <<>> /\ q[1].die = st[1].die
<1> DEFINE n == Len(st)
<1>1. n \in Nat \ {0}
  BY SeqLen
<1>2. Len(q) = n /\ q[n] = g /\ (\A i \in 1..(n - 1) : q[i] = st[i]) /\ g.die = st[n].die
  BY DEF TopIs
<1>3. q # <<>>
  BY <1>1, <1>2, SeqEmpty
<1> HIDE DEF n
<1>4. CASE n = 1
  BY <1>2, <1>3, <1>4
<1>5. CASE n # 1
  <2>1. 1 \in 1..(n - 1)
    BY <1>1, <1>5
  <2> QED
    BY <1>2, <1>3, <2>1
<1> QED
  BY <1>4, <1>5

\* The loop of the call on top goes on, with the item it builds now.
LEMMA PastIs ==
  ASSUME NEW D, StackOK(D, stack), stack # <<>>, NEW item
  PROVE  \E g : TopIs(stack, Past(item), g) /\ Passed(top, g) /\ g.item = item
<1> DEFINE n == Len(stack)
           g == [top EXCEPT !.rest = Tail(@), !.item = item]
           p == [stack EXCEPT ![n] = g]
<1>1. IsSeq(stack) /\ \A i \in 1..n : FrameOK(D, stack[i])
  BY DEF StackOK
<1>2. n \in 1..n
  BY <1>1, SeqLen
<1>3. DOMAIN top = {"die", "ns", "rest", "item"}
  BY <1>1, <1>2 DEF FrameOK, top
<1>4. Passed(top, g) /\ g.item = item
  BY <1>3 DEF Passed, top
<1>5. Past(item) = p
  BY DEF Past
<1> HIDE DEF g
<1>6. TopIs(stack, p, g)
  BY <1>1, SeqTopSet DEF TopIs
<1> QED
  BY <1>4, <1>5, <1>6

\* A call has returned, and its caller has the item it builds now.
LEMMA BelowIs ==
  ASSUME NEW D, StackOK(D, stack), Len(stack) > 1, NEW item
  PROVE  \E h : /\ TopIs(Front(stack), Below(item), h) /\ DOMAIN h = DOMAIN caller
                /\ h.die = caller.die /\ h.rest = caller.rest /\ h.item = item
<1> DEFINE n == Len(stack)
           q == Front(stack)
           h == [caller EXCEPT !.item = item]
           p == [q EXCEPT ![n - 1] = h]
<1>1. IsSeq(stack) /\ \A i \in 1..n : FrameOK(D, stack[i])
  BY DEF StackOK
<1>2. n \in Nat /\ n - 1 \in 0..n /\ n - 1 \in 1..n /\ n - 1 \in 1..(n - 1)
  BY <1>1, SeqLen
<1>3. IsSeq(q) /\ Len(q) = n - 1 /\ \A i \in 1..(n - 1) : q[i] = stack[i]
  BY <1>1, <1>2, SeqPrefix DEF Front
<1>4. q # <<>>
  BY <1>2, <1>3, SeqEmpty
<1>5. DOMAIN caller = {"die", "ns", "rest", "item"}
  BY <1>1, <1>2 DEF FrameOK, caller
<1>6. DOMAIN h = DOMAIN caller /\ h.die = caller.die /\ h.rest = caller.rest /\ h.item = item
  BY <1>5
<1>7. q[n - 1] = caller
  BY <1>2, <1>3 DEF caller
<1>8. Below(item) = p
  BY <1>7 DEF Below
<1> HIDE DEF h, q
<1>9. TopIs(q, p, h)
  BY <1>3, <1>4, SeqTopSet DEF TopIs
<1> QED
  BY <1>6, <1>8, <1>9 DEF q

\* A call that starts has all children of its entry before it.
LEMMA FrameStarts ==
  ASSUME Tree(Die), NEW c, c \in With(Die, Scopes \union {"unit"}), NEW ns, NEW item,
         ItemOK(Die, c, item), Die[c].tag \in Classes \union {"part"} => item.members = <<>>
  PROVE  Starts(Die, c, Frame(c, ns, item))
<1> DEFINE S == Kids(Die, c)
           s == Sorted(S)
           f == Frame(c, ns, item)
<1>1. S \subseteq DOMAIN Die /\ S \subseteq Nat /\ IsFiniteSet(S)
  <2>1. S \subseteq DOMAIN Die
    BY DEF Kids
  <2> QED
    BY <2>1, FS_Subset DEF Tree
<1>2. Incr(s, S)
  <2> HIDE DEF S
  <2> QED
    BY <1>1, SortedIncr
<1>3. f = [die |-> c, ns |-> ns, rest |-> s, item |-> item]
  BY DEF Frame, Children, Kids, Entry
<1> HIDE DEF S, s, f
<1>4. Suffix(s, S) /\ Elements(s) = S
  BY <1>2 DEF Suffix, Incr
<1>5. f.die = c /\ f.rest = s /\ f.item = item /\ DOMAIN f = {"die", "ns", "rest", "item"}
  BY <1>3
<1>6. FrameOK(Die, f)
  BY <1>4, <1>5 DEF FrameOK, S
<1> QED
  BY <1>4, <1>5, <1>6 DEF S, f, Starts

-----------------------------------------------------------------------------
(* One lemma for each step of the walk.                                    *)
(***************************************************************************)
AllPlaced == \A u \in Units : WellPlaced(u)

LEMMA DieIsTree ==
  ASSUME AllPlaced, UnitInv
  PROVE  Tree(Die)
BY TreeOf DEF AllPlaced, UnitInv, Die

\* The call on top meets a child.
LEMMA MetTop ==
  ASSUME Tree(Die), NEW done, NEW aside, Building(done, aside), stack # <<>>, top.rest # <<>>
  PROVE  /\ MeetsNext(Die, stack, top, child) /\ StackOK(Die, stack)
         /\ child \in DOMAIN Die \ {0} /\ FrameOK(Die, top) /\ ItemOK(Die, top.die, top.item)
         /\ \/ tag \in {"unnamed", "inheritance", "variable", "parameter", "other"}
            \/ tag \in Takes(Die[top.die].tag)
<1>1. MeetsNext(Die, stack, top, child)
  BY DEF MeetsNext, top, child
<1>2. StackOK(Die, stack)
  BY DEF Building, WalkOK
<1>3. child \in Kids(Die, top.die) /\ child \in DOMAIN Die \ {0} /\ FrameOK(Die, top)
  BY <1>1, <1>2, MetChild
<1>4. Die[child].parent = top.die
  BY <1>3 DEF Kids
<1>5. \/ tag \in {"unnamed", "inheritance", "variable", "parameter", "other"}
      \/ tag \in Takes(Die[top.die].tag)
  BY <1>3, <1>4 DEF Tree, tag
<1> QED
  BY <1>1, <1>2, <1>3, <1>5 DEF FrameOK

\* A step that changes the stack only.
LEMMA MovesOn ==
  ASSUME NEW done, NEW aside, Building(done, aside), stack # <<>>,
         unit' = unit, types' = types, functions' = functions, subprograms' = subprograms,
         known' = known, defer' = defer, pass' = pass, phase' = phase,
         WalkOK(Die, stack', done, aside), stack' # <<>>, stack'[1].die = stack[1].die
  PROVE  Building(done, aside)'
<1>1. ControlOK'
  BY ControlKept DEF Building
<1>2. Die' = Die
  BY DEF Die
<1>3. /\ AsideOK(subprograms, defer, aside) /\ FunctionsOK(Die, done, functions, known)
      /\ TypesOK(Die, done, types) /\ (0 \in done <=> phase = "functions")
  BY DEF Building
<1> QED
  BY <1>1, <1>2, <1>3 DEF Building


LEMMA PassesOn ==
  ASSUME Tree(Die), NEW done, NEW aside, Building(done, aside), stack # <<>>, top.rest # <<>>,
         NEW item, ItemOK(Die, top.die, item),
         Die[top.die].tag \in Classes \union {"part"} => item.members = top.item.members,
         NEW q, q = Past(item)
  PROVE  /\ \E g : /\ TopIs(stack, q, g) /\ Passed(top, g) /\ SameList(Die, top, g)
                   /\ ItemOK(Die, top.die, g.item)
         /\ q # <<>> /\ q[1].die = stack[1].die
<1>1. StackOK(Die, stack)
  BY DEF Building, WalkOK
<1>2. PICK g : TopIs(stack, q, g) /\ Passed(top, g) /\ g.item = item
  BY <1>1, PastIs
<1>3. SameList(Die, top, g) /\ ItemOK(Die, top.die, g.item)
  BY <1>2 DEF SameList
<1>4. q # <<>> /\ q[1].die = stack[1].die
  BY <1>1, <1>2, FirstKept DEF StackOK, Passed, top
<1> QED
  BY <1>2, <1>3, <1>4

\* What is met is neither kept nor a member.
LEMMA SkipsOn ==
  ASSUME Tree(Die), NEW done, NEW aside, Building(done, aside), stack # <<>>, top.rest # <<>>,
         tag \notin Scopes \union {"named"}, child \notin PlainMembers(Die),
         NEW item, ItemOK(Die, top.die, item),
         Die[top.die].tag \in Classes \union {"part"} => item.members = top.item.members,
         NEW q, q = Past(item)
  PROVE  WalkOK(Die, q, done, aside) /\ q # <<>> /\ q[1].die = stack[1].die
<1>1. MeetsNext(Die, stack, top, child) /\ StackOK(Die, stack)
  BY MetTop
<1>2. child \notin Kept(Die)
  BY DEF Kept, With, tag
<1>3. /\ \E g : /\ TopIs(stack, q, g) /\ Passed(top, g) /\ SameList(Die, top, g)
                /\ ItemOK(Die, top.die, g.item)
      /\ q # <<>> /\ q[1].die = stack[1].die
  BY PassesOn
<1>4. PICK g : /\ TopIs(stack, q, g) /\ Passed(top, g) /\ SameList(Die, top, g)
               /\ ItemOK(Die, top.die, g.item)
  BY <1>3
<1>5. WalkOK(Die, stack, done, aside)
  BY DEF Building
<1>6. WalkOK(Die, q, done, aside)
  BY <1>1, <1>2, <1>4, <1>5, WalkSkip
<1> QED
  BY <1>3, <1>6

LEMMA SkipKeeps ==
  ASSUME AllPlaced, UnitInv, Skip
  PROVE  UnitInv'
<1>1. /\ unit' = unit /\ types' = types /\ functions' = functions
      /\ subprograms' = subprograms /\ known' = known /\ defer' = defer /\ pass' = pass
      /\ phase' = phase /\ stack # <<>> /\ top.rest # <<>> /\ stack' = Past(top.item)
      /\ tag \notin Takes(Die[top.die].tag) \ {"unnamed"}
  BY DEF Skip, fixups
<1>2. ASSUME Searching
      PROVE  \E done, aside : Building(done, aside)'
  <2>1. PICK done, aside : Building(done, aside)
    BY <1>2 DEF UnitInv
  <2>2. Tree(Die)
    BY DieIsTree
  <2>3. /\ child \in DOMAIN Die \ {0} /\ ItemOK(Die, top.die, top.item)
        /\ \/ tag \in {"unnamed", "inheritance", "variable", "parameter", "other"}
           \/ tag \in Takes(Die[top.die].tag)
    BY <1>1, <2>1, <2>2, MetTop
  <2>4. tag \notin Scopes \union {"named"} /\ child \notin PlainMembers(Die)
    BY <1>1, <2>3 DEF PlainMembers, With, Scopes, tag
  <2>5. WalkOK(Die, stack', done, aside) /\ stack' # <<>> /\ stack'[1].die = stack[1].die
    BY <1>1, <2>1, <2>2, <2>3, <2>4, SkipsOn
  <2> QED
    BY <1>1, <2>1, <2>5, MovesOn
<1> QED
  BY <1>1, <1>2, CallStep

LEMMA NamespaceVariableKeeps ==
  ASSUME AllPlaced, UnitInv, NamespaceVariable
  PROVE  UnitInv'
<1>1. /\ unit' = unit /\ types' = types /\ functions' = functions
      /\ subprograms' = subprograms /\ known' = known /\ defer' = defer /\ pass' = pass
      /\ phase' = phase /\ stack # <<>> /\ top.rest # <<>> /\ stack' = Past(top.item)
      /\ tag = "variable"
  BY DEF NamespaceVariable, Meets, fixups
<1>2. ASSUME Searching
      PROVE  \E done, aside : Building(done, aside)'
  <2>1. PICK done, aside : Building(done, aside)
    BY <1>2 DEF UnitInv
  <2>2. Tree(Die) /\ ItemOK(Die, top.die, top.item)
    BY <1>1, <2>1, DieIsTree, MetTop
  <2>3. tag \notin Scopes \union {"named"} /\ child \notin PlainMembers(Die)
    BY <1>1 DEF PlainMembers, With, Scopes, tag
  <2>4. WalkOK(Die, stack', done, aside) /\ stack' # <<>> /\ stack'[1].die = stack[1].die
    BY <1>1, <2>1, <2>2, <2>3, SkipsOn
  <2> QED
    BY <1>1, <2>1, <2>4, MovesOn
<1> QED
  BY <1>1, <1>2, CallStep

LEMMA InheritanceKeeps ==
  ASSUME AllPlaced, UnitInv, Inheritance
  PROVE  UnitInv'
<1> DEFINE item == [top.item EXCEPT !.inherits = Append(@, child)]
<1>1. /\ unit' = unit /\ types' = types /\ functions' = functions
      /\ subprograms' = subprograms /\ known' = known /\ defer' = defer /\ pass' = pass
      /\ phase' = phase /\ stack # <<>> /\ top.rest # <<>> /\ stack' = Past(item)
      /\ tag = "inheritance"
  BY DEF Inheritance, Meets, fixups
<1>2. ASSUME Searching
      PROVE  \E done, aside : Building(done, aside)'
  <2>1. PICK done, aside : Building(done, aside)
    BY <1>2 DEF UnitInv
  <2>2. Tree(Die) /\ ItemOK(Die, top.die, top.item)
    BY <1>1, <2>1, DieIsTree, MetTop
  <2>3. tag \notin Scopes \union {"named"} /\ child \notin PlainMembers(Die)
    BY <1>1 DEF PlainMembers, With, Scopes, tag
  <2>4. /\ ItemOK(Die, top.die, item)
        /\ Die[top.die].tag \in Classes \union {"part"} => item.members = top.item.members
    BY <2>2 DEF ItemOK
  <2> HIDE DEF item
  <2>5. WalkOK(Die, stack', done, aside) /\ stack' # <<>> /\ stack'[1].die = stack[1].die
    BY <1>1, <2>1, <2>2, <2>3, <2>4, SkipsOn
  <2> QED
    BY <1>1, <2>1, <2>5, MovesOn
<1> QED
  BY <1>1, <1>2, CallStep

LEMMA ParameterKeeps ==
  ASSUME AllPlaced, UnitInv, Parameter
  PROVE  UnitInv'
<1> DEFINE item == [top.item EXCEPT !.params = WithParameter(@, child)]
<1>1. /\ unit' = unit /\ types' = types /\ functions' = functions
      /\ subprograms' = subprograms /\ known' = known /\ defer' = defer /\ pass' = pass
      /\ phase' = phase /\ stack # <<>> /\ top.rest # <<>> /\ stack' = Past(item)
      /\ tag = "parameter"
  BY DEF Parameter, Meets, fixups
<1>2. ASSUME Searching
      PROVE  \E done, aside : Building(done, aside)'
  <2>1. PICK done, aside : Building(done, aside)
    BY <1>2 DEF UnitInv
  <2>2. Tree(Die) /\ ItemOK(Die, top.die, top.item)
    BY <1>1, <2>1, DieIsTree, MetTop
  <2>3. tag \notin Scopes \union {"named"} /\ child \notin PlainMembers(Die)
    BY <1>1 DEF PlainMembers, With, Scopes, tag
  <2>4. /\ ItemOK(Die, top.die, item)
        /\ Die[top.die].tag \in Classes \union {"part"} => item.members = top.item.members
    BY <2>2 DEF ItemOK
  <2> HIDE DEF item
  <2>5. WalkOK(Die, stack', done, aside) /\ stack' # <<>> /\ stack'[1].die = stack[1].die
    BY <1>1, <2>1, <2>2, <2>3, <2>4, SkipsOn
  <2> QED
    BY <1>1, <2>1, <2>5, MovesOn
<1> QED
  BY <1>1, <1>2, CallStep

LEMMA MemberKeeps ==
  ASSUME AllPlaced, UnitInv, Member
  PROVE  UnitInv'
<1> DEFINE item == [top.item EXCEPT !.members = Append(@, child)]
<1>1. /\ unit' = unit /\ types' = types /\ functions' = functions
      /\ subprograms' = subprograms /\ known' = known /\ defer' = defer /\ pass' = pass
      /\ phase' = phase /\ stack # <<>> /\ top.rest # <<>> /\ tag = "member"
      /\ IF Die[child].decl THEN stack' = Past(top.item) ELSE stack' = Past(item)
  BY DEF Member, Meets, fixups
<1>2. ASSUME Searching
      PROVE  \E done, aside : Building(done, aside)'
  <2>1. PICK done, aside : Building(done, aside)
    BY <1>2 DEF UnitInv
  <2>2. /\ Tree(Die) /\ MeetsNext(Die, stack, top, child) /\ StackOK(Die, stack)
        /\ child \in DOMAIN Die \ {0} /\ ItemOK(Die, top.die, top.item)
    BY <1>1, <2>1, DieIsTree, MetTop
  <2>3. CASE Die[child].decl
    <3>1. tag \notin Scopes \union {"named"} /\ child \notin PlainMembers(Die)
      BY <1>1, <2>3 DEF PlainMembers, With, Scopes, tag
    <3>2. WalkOK(Die, stack', done, aside) /\ stack' # <<>> /\ stack'[1].die = stack[1].die
      BY <1>1, <2>1, <2>2, <2>3, <3>1, SkipsOn
    <3> QED
      BY <1>1, <2>1, <3>2, MovesOn
  <2>4. CASE ~Die[child].decl
    <3>1. child \in PlainMembers(Die)
      BY <1>1, <2>2, <2>4 DEF PlainMembers, With, tag
    <3>2. /\ ItemOK(Die, top.die, item)
          /\ Die[top.die].tag \in Classes \union {"part"} =>
               item.members = Append(top.item.members, child)
      BY <2>2 DEF ItemOK
    <3> HIDE DEF item
    <3>3. PICK g : TopIs(stack, stack', g) /\ Passed(top, g) /\ g.item = item
      BY <1>1, <2>2, <2>4, PastIs
    <3>4. WalkOK(Die, stack, done, aside)
      BY <2>1 DEF Building
    <3>5. WalkOK(Die, stack', done, aside)
      BY <2>2, <3>1, <3>2, <3>3, <3>4, WalkMember
    <3>6. stack' # <<>> /\ stack'[1].die = stack[1].die
      BY <1>1, <2>2, <3>3, FirstKept DEF StackOK, Passed, top
    <3> QED
      BY <1>1, <2>1, <3>5, <3>6, MovesOn
  <2> QED
    BY <2>3, <2>4
<1> QED
  BY <1>1, <1>2, CallStep

\* The parser of what is met is called.
LEMMA OpensOn ==
  ASSUME Tree(Die), NEW done, NEW aside, Building(done, aside), stack # <<>>, top.rest # <<>>,
         tag \in Scopes, NEW ns, NEW item, ItemOK(Die, child, item),
         tag \in Classes \union {"part"} => item.members = <<>>,
         NEW p, p = Append(Past(top.item), Frame(child, ns, item))
  PROVE  WalkOK(Die, p, done, aside) /\ p # <<>> /\ p[1].die = stack[1].die
<1>1. /\ MeetsNext(Die, stack, top, child) /\ StackOK(Die, stack)
      /\ child \in DOMAIN Die \ {0} /\ ItemOK(Die, top.die, top.item)
  BY MetTop
<1>2. PICK q : q = Past(top.item)
  OBVIOUS
<1>3. PICK g : /\ TopIs(stack, q, g) /\ Passed(top, g) /\ SameList(Die, top, g)
               /\ ItemOK(Die, top.die, g.item)
  BY <1>1, <1>2, PassesOn
<1>4. PICK h : h = Frame(child, ns, item)
  OBVIOUS
<1>5. child \in With(Die, Scopes \union {"unit"})
  BY <1>1 DEF With, tag
<1>6. Starts(Die, child, h)
  <2>1. Starts(Die, child, Frame(child, ns, item))
    BY <1>5, FrameStarts DEF tag
  <2> QED
    BY <1>4, <2>1
<1>7. Pushed(q, h, p) /\ Die[child].tag \in Scopes
  BY <1>2, <1>4 DEF Pushed, tag
<1>8. WalkOK(Die, stack, done, aside)
  BY DEF Building
<1>9. WalkOK(Die, p, done, aside)
  BY <1>1, <1>3, <1>6, <1>7, <1>8, WalkOpen
<1>10. SameFirst(stack, p)
  BY <1>1, <1>3, <1>6, <1>7, <1>8, WalkOpen
<1>11. p # <<>>
  BY <1>1, <1>3, <1>6, <1>7, <1>8, WalkOpen
<1> QED
  BY <1>9, <1>10, <1>11 DEF SameFirst

LEMMA EnterScopeKeeps ==
  ASSUME AllPlaced, UnitInv, EnterScope
  PROVE  UnitInv'
<1>1. /\ unit' = unit /\ types' = types /\ functions' = functions
      /\ subprograms' = subprograms /\ known' = known /\ defer' = defer /\ pass' = pass
      /\ phase' = phase /\ stack # <<>> /\ top.rest # <<>>
      /\ tag \in {"namespace", "block", "part", "variant", "struct", "union", "enum"}
      /\ stack' = Append(Past(top.item),
                         CASE tag = "namespace" -> NamespaceFrame(child, top.ns)
                           [] tag \in TypeTags -> TypeFrame(child, top.ns)
                           [] OTHER -> Frame(child, top.ns, Part))
  BY DEF EnterScope, Meets, fixups
<1>2. tag \in Scopes
  BY <1>1 DEF Scopes
<1>3. PICK ns, item : /\ stack' = Append(Past(top.item), Frame(child, ns, item))
                      /\ ItemOK(Die, child, item)
                      /\ tag \in Classes \union {"part"} => item.members = <<>>
  <2>1. CASE tag = "namespace"
    <3>1. stack' = Append(Past(top.item), Frame(child, Within(top.ns, Die[child].name, "namespace"), Part))
      BY <1>1, <2>1 DEF NamespaceFrame, TypeTags
    <3>2. ItemOK(Die, child, Part) /\ Part.members = <<>>
      BY <2>1 DEF ItemOK, Classes, tag, Part
    <3> QED
      BY <3>1, <3>2
  <2>2. CASE tag \in Classes
    <3>1. stack' = Append(Past(top.item), Frame(child, Within(top.ns, Die[child].name, "type"), Type(child, top.ns)))
      BY <1>1, <2>2 DEF TypeFrame, Classes, TypeTags
    <3>2. ItemOK(Die, child, Type(child, top.ns)) /\ Type(child, top.ns).members = <<>>
      BY DEF ItemOK, Type
    <3> QED
      BY <3>1, <3>2
  <2>3. CASE tag \in {"block", "part", "variant"}
    <3>1. stack' = Append(Past(top.item), Frame(child, top.ns, Part))
      BY <1>1, <2>3 DEF TypeTags
    <3>2. ItemOK(Die, child, Part) /\ Part.members = <<>>
      BY <2>3 DEF ItemOK, Classes, tag, Part
    <3> QED
      BY <3>1, <3>2
  <2> QED
    BY <1>1, <2>1, <2>2, <2>3 DEF Classes
<1>4. ASSUME Searching
      PROVE  \E done, aside : Building(done, aside)'
  <2>1. PICK done, aside : Building(done, aside)
    BY <1>4 DEF UnitInv
  <2>2. Tree(Die)
    BY DieIsTree
  <2>3. WalkOK(Die, stack', done, aside) /\ stack' # <<>> /\ stack'[1].die = stack[1].die
    BY <1>1, <1>2, <1>3, <2>1, <2>2, OpensOn
  <2> QED
    BY <1>1, <2>1, <2>3, MovesOn
<1> QED
  BY <1>1, <1>4, CallStep

\* A step that completes an entry, t.
LEMMA Completes ==
  ASSUME NEW done, NEW aside, Building(done, aside), stack # <<>>, NEW t, t # 0,
         unit' = unit, subprograms' = subprograms, known' = known, defer' = defer,
         pass' = pass, phase' = phase,
         WalkOK(Die, stack', done \union {t}, aside),
         stack' # <<>>, stack'[1].die = stack[1].die,
         FunctionsOK(Die, done \union {t}, functions', known),
         TypesOK(Die, done \union {t}, types')
  PROVE  \E d, a : Building(d, a)'
<1>1. ControlOK'
  BY ControlKept DEF Building
<1>2. Die' = Die
  BY DEF Die
<1>3. AsideOK(subprograms, defer, aside) /\ (0 \in done <=> phase = "functions")
  BY DEF Building
<1>4. 0 \in done \union {t} <=> phase = "functions"
  BY <1>3
<1>5. PICK d : d = done \union {t}
  OBVIOUS
<1>6. Building(d, aside)'
  BY <1>1, <1>2, <1>3, <1>4, <1>5 DEF Building
<1> QED
  BY <1>6

LEMMA NamedTypeKeeps ==
  ASSUME AllPlaced, UnitInv, NamedType
  PROVE  UnitInv'
<1>1. /\ unit' = unit /\ types' = Append(types, Type(child, top.ns)) /\ functions' = functions
      /\ subprograms' = subprograms /\ known' = known /\ defer' = defer /\ pass' = pass
      /\ phase' = phase /\ stack # <<>> /\ top.rest # <<>> /\ stack' = Past(top.item)
      /\ tag = "named"
  BY DEF NamedType, Meets, fixups
<1>2. ASSUME Searching
      PROVE  \E done, aside : Building(done, aside)'
  <2>1. PICK done, aside : Building(done, aside)
    BY <1>2 DEF UnitInv
  <2>2. /\ Tree(Die) /\ MeetsNext(Die, stack, top, child) /\ StackOK(Die, stack)
        /\ child \in DOMAIN Die \ {0} /\ ItemOK(Die, top.die, top.item)
    BY <1>1, <2>1, DieIsTree, MetTop
  <2>3. /\ \E g : /\ TopIs(stack, stack', g) /\ Passed(top, g) /\ SameList(Die, top, g)
                  /\ ItemOK(Die, top.die, g.item)
        /\ stack' # <<>> /\ stack'[1].die = stack[1].die
    BY <1>1, <2>1, <2>2, PassesOn
  <2>4. PICK g : /\ TopIs(stack, stack', g) /\ Passed(top, g) /\ SameList(Die, top, g)
                 /\ ItemOK(Die, top.die, g.item)
    BY <2>3
  <2>5. WalkOK(Die, stack, done, aside) /\ Die[child].tag = "named"
    BY <1>1, <2>1 DEF Building, tag
  <2>6. /\ WalkOK(Die, stack', done \union {child}, aside) /\ child \in Stored(Die) \ done
        /\ OwnMembers(Die, child) = {}
    BY <2>2, <2>4, <2>5, WalkDone
  <2>7. FunctionsOK(Die, done \union {child}, functions', known)
    <3>1. child \notin Functions(Die) /\ FunctionsOK(Die, done, functions, known)
      BY <2>1, <2>5 DEF Functions, With, Building
    <3> QED
      BY <1>1, <3>1, FunctionsSame
  <2>8. TypesOK(Die, done \union {child}, types')
    <3>1. PICK t : t = Type(child, top.ns)
      OBVIOUS
    <3>2. t.die = child /\ t.members = <<>>
      BY <3>1 DEF Type
    <3>3. Incr(t.members, OwnMembers(Die, t.die)) /\ TypesOK(Die, done, types)
      BY <2>1, <2>6, <3>2, IncrEmpty DEF Building
    <3>4. TypesOK(Die, done \union {t.die}, Append(types, t))
      BY <2>6, <3>2, <3>3, TypesAdd
    <3> QED
      BY <1>1, <3>1, <3>2, <3>4
  <2> QED
    BY <1>1, <2>1, <2>2, <2>3, <2>6, <2>7, <2>8, Completes
<1> QED
  BY <1>1, <1>2, CallStep

LEMMA SubprogramKeeps ==
  ASSUME AllPlaced, UnitInv, Subprogram
  PROVE  UnitInv'
<1> DEFINE f == Function(child, top.ns)
<1>1. /\ unit' = unit /\ types' = types /\ functions' = functions
      /\ known' = known /\ defer' = defer /\ pass' = pass
      /\ phase' = phase /\ stack # <<>> /\ top.rest # <<>> /\ tag = "function"
      /\ \/ subprograms' = Append(subprograms, f) /\ stack' = Past(top.item)
         \/ stack' = Append(Past(top.item), FunctionFrame(f)) /\ subprograms' = subprograms
  BY DEF Subprogram, Meets, fixups
<1>2. f.die = child /\ "die" \in DOMAIN f
  BY DEF Function
<1> HIDE DEF f
<1>3. ASSUME Searching
      PROVE  \E done, aside : Building(done, aside)'
  <2>1. PICK done, aside : Building(done, aside)
    BY <1>3 DEF UnitInv
  <2>2. /\ Tree(Die) /\ MeetsNext(Die, stack, top, child) /\ StackOK(Die, stack)
        /\ child \in DOMAIN Die \ {0} /\ ItemOK(Die, top.die, top.item)
    BY <1>1, <2>1, DieIsTree, MetTop
  <2>3. CASE subprograms' = Append(subprograms, f) /\ stack' = Past(top.item)
    <3>1. /\ \E g : /\ TopIs(stack, stack', g) /\ Passed(top, g) /\ SameList(Die, top, g)
                    /\ ItemOK(Die, top.die, g.item)
          /\ stack' # <<>> /\ stack'[1].die = stack[1].die
      BY <1>1, <2>1, <2>2, <2>3, PassesOn
    <3>2. PICK g : /\ TopIs(stack, stack', g) /\ Passed(top, g) /\ SameList(Die, top, g)
                   /\ ItemOK(Die, top.die, g.item)
      BY <3>1
    <3>3. WalkOK(Die, stack, done, aside) /\ Die[child].tag = "function"
      BY <1>1, <2>1 DEF Building, tag
    <3>4. WalkOK(Die, stack', done, aside \union {child}) /\ child \notin done \union aside
      BY <2>2, <3>2, <3>3, WalkAside
    <3>5. PICK a : a = aside \union {child}
      OBVIOUS
    <3>6. AsideOK(subprograms', defer, a)
      <4>1. AsideOK(subprograms, defer, aside)
        BY <2>1 DEF Building
      <4>2. AsideOK(Append(subprograms, f), defer, aside \union {f.die})
        BY <1>2, <3>4, <4>1, AsideAdd
      <4> QED
        BY <1>2, <2>3, <3>5, <4>2
    <3>7. ControlOK'
      BY <1>1, <2>1, <3>1, ControlKept DEF Building
    <3>8. Die' = Die
      BY <1>1 DEF Die
    <3>9. /\ FunctionsOK(Die, done, functions, known)
          /\ TypesOK(Die, done, types) /\ (0 \in done <=> phase = "functions")
      BY <2>1 DEF Building
    <3>10. Building(done, a)'
      BY <1>1, <3>4, <3>5, <3>6, <3>7, <3>8, <3>9 DEF Building
    <3> QED
      BY <3>10
  <2>4. CASE stack' = Append(Past(top.item), FunctionFrame(f)) /\ subprograms' = subprograms
    <3>1. tag \in Scopes /\ tag \notin Classes \union {"part"}
      BY <1>1 DEF Scopes, Classes
    <3>2. ItemOK(Die, child, f)
      BY <1>2, <3>1 DEF ItemOK, tag
    <3>3. stack' = Append(Past(top.item), Frame(child, Within(f.ns, f.name, "function"), f))
      BY <1>2, <2>4 DEF FunctionFrame
    <3>4. WalkOK(Die, stack', done, aside) /\ stack' # <<>> /\ stack'[1].die = stack[1].die
      BY <1>1, <2>1, <2>2, <3>1, <3>2, <3>3, OpensOn
    <3> QED
      BY <1>1, <2>1, <2>4, <3>4, MovesOn
  <2> QED
    BY <1>1, <2>3, <2>4
<1> QED
  BY <1>1, <1>3, CallStep

\* A call other than the first returns.
LEMMA NotTheFirst ==
  ASSUME Tree(Die), Searching, NEW done, NEW aside, Building(done, aside),
         NEW tags, "unit" \notin tags, Returns(tags)
  PROVE  /\ Returning(stack, top) /\ Die[top.die].tag \in tags /\ top.die # 0
         /\ Len(stack) \in Nat /\ Len(stack) > 1
<1>1. stack # <<>> /\ top.rest = <<>> /\ Die[top.die].tag \in tags
      /\ (phase = "functions" => Len(stack) > 1)
  BY DEF Returns
<1>2. Returning(stack, top)
  BY <1>1 DEF Returning, top
<1>3. top.die # 0
  BY <1>1 DEF Tree
<1>4. Len(stack) \in Nat \ {0}
  BY <1>1, SeqLen DEF Building, WalkOK, StackOK
<1>5. phase = "walk" => stack[1].die = 0
  BY DEF Building, ControlOK
<1>6. phase = "walk" => Len(stack) # 1
  BY <1>3, <1>5 DEF top
<1> DEFINE n == Len(stack)
<1>7. /\ phase = "functions" => n > 1
      /\ phase = "walk" => n # 1
      /\ n \in Nat \ {0} /\ phase \in {"walk", "functions"}
  BY <1>1, <1>4, <1>6 DEF Searching
<1> HIDE DEF n
<1>8. n \in Nat /\ n > 1
  BY <1>7
<1> QED
  BY <1>1, <1>2, <1>3, <1>8 DEF n

LEMMA CloseKeeps ==
  ASSUME AllPlaced, UnitInv, Close
  PROVE  UnitInv'
<1> DEFINE tags == {"struct", "union", "enum", "function", "namespace", "block"}
<1>1. /\ unit' = unit /\ subprograms' = subprograms /\ known' = known /\ defer' = defer
      /\ pass' = pass /\ phase' = phase /\ Returns(tags) /\ stack # <<>>
      /\ types' = IF Die[top.die].tag \in TypeTags THEN Append(types, top.item) ELSE types
      /\ functions' = IF Die[top.die].tag = "function" THEN Append(functions, top.item)
                      ELSE functions
      /\ stack' = Front(stack)
  BY DEF Close, Returns, fixups
<1>2. "unit" \notin tags /\ "part" \notin tags
      /\ \A x \in tags \intersect TypeTags : x \in Classes
  BY DEF TypeTags, Classes
<1> HIDE DEF tags
<1>3. ASSUME Searching
      PROVE  \E done, aside : Building(done, aside)'
  <2>1. PICK done, aside : Building(done, aside)
    BY <1>3 DEF UnitInv
  <2>2. Tree(Die)
    BY DieIsTree
  <2>3. /\ Returning(stack, top) /\ Die[top.die].tag \in tags /\ top.die # 0
        /\ Len(stack) \in Nat /\ Len(stack) > 1
    BY <1>1, <1>3, <1>2, <2>1, <2>2, NotTheFirst
  <2>4. PICK t : t = top.die
    OBVIOUS
  <2>5. PICK x : x = top.item
    OBVIOUS
  <2>6. Popped(stack, stack') /\ WalkOK(Die, stack, done, aside) /\ Die[top.die].tag # "part"
    BY <1>1, <1>2, <2>1, <2>3 DEF Popped, Building
  <2>7. /\ WalkOK(Die, stack', done \union {top.die}, aside)
        /\ top.die \notin done \union aside
        /\ Len(stack') = Len(stack) - 1 /\ Len(stack) \in Nat \ {0}
        /\ \A i \in 1..Len(stack') : stack'[i] = stack[i]
        /\ FrameOK(Die, top)
        /\ Die[top.die].tag \in Classes => Incr(top.item.members, OwnMembers(Die, top.die))
    BY <2>2, <2>3, <2>6, WalkClose
  <2>8. stack' # <<>> /\ stack'[1].die = stack[1].die
    <3>1. Len(stack') > 0 /\ 1 \in 1..Len(stack')
      BY <2>3, <2>7
    <3> QED
      BY <2>7, <3>1, SeqEmpty
  <2>9. t \in DOMAIN Die /\ t # 0 /\ t \notin done /\ Die[t].tag \in tags
        /\ WalkOK(Die, stack', done \union {t}, aside)
    BY <2>3, <2>4, <2>7 DEF FrameOK, With
  <2>10. /\ Die[t].tag \in Classes \union {"function"} => x.die = t
         /\ Die[t].tag \in Classes => Incr(x.members, OwnMembers(Die, t))
    BY <2>4, <2>5, <2>7 DEF FrameOK, ItemOK
  <2>11. FunctionsOK(Die, done, functions, known) /\ TypesOK(Die, done, types)
    BY <2>1 DEF Building
  <2>12. FunctionsOK(Die, done \union {t}, functions', known)
    <3>1. CASE Die[t].tag = "function"
      <4>1. x.die = t /\ t \in Functions(Die) /\ functions' = Append(functions, x)
        BY <1>1, <2>4, <2>5, <2>9, <2>10, <3>1 DEF Functions, With
      <4> QED
        BY <2>9, <2>11, <4>1, FunctionsAdd
    <3>2. CASE Die[t].tag # "function"
      <4>1. t \notin Functions(Die) /\ functions' = functions
        BY <1>1, <2>4, <3>2 DEF Functions, With
      <4> QED
        BY <2>11, <4>1, FunctionsSame
    <3> QED
      BY <3>1, <3>2
  <2>13. TypesOK(Die, done \union {t}, types')
    <3>1. CASE Die[t].tag \in Classes
      <4>1. x.die = t /\ t \in Stored(Die) /\ types' = Append(types, x)
        BY <1>1, <2>4, <2>5, <2>9, <2>10, <3>1 DEF Stored, With, Classes, TypeTags
      <4>2. Incr(x.members, OwnMembers(Die, x.die))
        BY <2>10, <3>1, <4>1
      <4> QED
        BY <2>9, <2>11, <4>1, <4>2, TypesAdd
    <3>2. CASE Die[t].tag \notin Classes
      <4>1. t \notin Stored(Die) /\ types' = types
        BY <1>1, <1>2, <2>4, <2>9, <3>2 DEF Stored, With
      <4> QED
        BY <2>11, <4>1, TypesSame
    <3> QED
      BY <3>1, <3>2
  <2> QED
    BY <1>1, <2>1, <2>8, <2>9, <2>12, <2>13, Completes
<1> QED
  BY <1>1, <1>3, CallStep

\* The caller of one that returns, and what both are for.
LEMMA CallerIs ==
  ASSUME Tree(Die), NEW done, NEW aside, Building(done, aside),
         Len(stack) \in Nat, Len(stack) > 1
  PROVE  /\ FrameOK(Die, caller) /\ ItemOK(Die, caller.die, caller.item)
         /\ top.die \in DOMAIN Die \ {0}
         /\ Die[top.die].tag \in Takes(Die[caller.die].tag) \/ Die[top.die].tag \notin Scopes
         /\ StackOK(Die, stack)
<1> DEFINE n == Len(stack)
<1>1. StackOK(Die, stack)
  BY DEF Building, WalkOK
<1>2. /\ \A i \in 1..n : FrameOK(Die, stack[i])
      /\ \A i \in 1..(n - 1) : AtChild(Die, stack[i].die, stack[i].rest, stack[i + 1].die)
  BY <1>1 DEF StackOK
<1>3. n - 1 \in 1..n /\ n - 1 \in 1..(n - 1) /\ (n - 1) + 1 = n
  OBVIOUS
<1>4. caller = stack[n - 1] /\ top = stack[n]
  BY DEF caller, top
<1> HIDE DEF n
<1>5. FrameOK(Die, caller)
  BY <1>2, <1>3, <1>4
<1>6. AtChild(Die, stack[n - 1].die, stack[n - 1].rest, stack[(n - 1) + 1].die)
  BY <1>2, <1>3
<1>7. AtChild(Die, caller.die, caller.rest, top.die)
  BY <1>3, <1>4, <1>6
<1>8. top.die \in DOMAIN Die \ {0} /\ Die[top.die].parent = caller.die
  BY <1>7 DEF AtChild, Kids
<1>9. Die[top.die].tag \in Takes(Die[caller.die].tag) \/ Die[top.die].tag \notin Scopes
  BY <1>8 DEF Tree, Scopes
<1> QED
  BY <1>1, <1>5, <1>8, <1>9 DEF FrameOK

LEMMA BelowFirst ==
  ASSUME StackOK(Die, stack), Len(stack) \in Nat, Len(stack) > 1,
         NEW q, NEW h, TopIs(Front(stack), q, h), h.die = caller.die
  PROVE  q # <<>> /\ q[1].die = stack[1].die
<1> DEFINE p == Front(stack)
           n == Len(stack)
<1>1. n \in Nat /\ n > 1
  OBVIOUS
<1> HIDE DEF n
<1>2. n - 1 \in 0..n /\ n - 1 \in 1..(n - 1) /\ 1 \in 1..(n - 1) /\ n - 1 # 0
  BY <1>1
<1>3. IsSeq(p) /\ Len(p) = n - 1 /\ \A i \in 1..(n - 1) : p[i] = stack[i]
  BY <1>2, SeqPrefix DEF Front, StackOK, n
<1>4. p # <<>>
  BY <1>2, <1>3, SeqEmpty
<1>5. h.die = p[Len(p)].die /\ p[1] = stack[1]
  BY <1>2, <1>3 DEF caller, n
<1> HIDE DEF p
<1>6. TopIs(p, q, h)
  BY DEF p
<1>7. q # <<>> /\ q[1].die = p[1].die
  BY <1>3, <1>4, <1>5, <1>6, FirstKept
<1> QED
  BY <1>5, <1>7

LEMMA ClosePartKeeps ==
  ASSUME AllPlaced, UnitInv, ClosePart
  PROVE  UnitInv'
<1> DEFINE item == [caller.item EXCEPT !.members = @ \o top.item.members,
                                       !.parts = Append(@, top.item.variants)]
<1>1. /\ unit' = unit /\ types' = types /\ functions' = functions
      /\ subprograms' = subprograms /\ known' = known /\ defer' = defer /\ pass' = pass
      /\ phase' = phase /\ Returns({"part"}) /\ stack # <<>> /\ stack' = Below(item)
  BY DEF ClosePart, Returns, fixups
<1>2. ASSUME Searching
      PROVE  \E done, aside : Building(done, aside)'
  <2>1. PICK done, aside : Building(done, aside)
    BY <1>2 DEF UnitInv
  <2>2. Tree(Die)
    BY DieIsTree
  <2>3. /\ Returning(stack, top) /\ Die[top.die].tag = "part" /\ top.die # 0
        /\ Len(stack) \in Nat /\ Len(stack) > 1
    BY <1>1, <1>2, <2>1, <2>2, NotTheFirst
  <2>4. /\ FrameOK(Die, caller) /\ ItemOK(Die, caller.die, caller.item)
        /\ top.die \in DOMAIN Die \ {0} /\ StackOK(Die, stack)
        /\ "part" \in Takes(Die[caller.die].tag)
    BY <2>1, <2>2, <2>3, CallerIs DEF Scopes
  <2>5. Die[caller.die].tag = "struct"
    BY <2>4 DEF Takes, NamespaceTakes, FunctionTakes, BlockTakes, StructTakes, UnionTakes,
                EnumTakes, PartTakes, VariantTakes, TypeTags
  <2>6. /\ ItemOK(Die, caller.die, item)
        /\ item.members = caller.item.members \o top.item.members
    BY <2>4, <2>5 DEF ItemOK, Classes
  <2> HIDE DEF item
  <2>7. PICK h : /\ TopIs(Front(stack), stack', h) /\ DOMAIN h = DOMAIN caller
                 /\ h.die = caller.die /\ h.rest = caller.rest /\ h.item = item
    BY <1>1, <2>3, <2>4, BelowIs
  <2>8. PICK q : q = Front(stack)
    OBVIOUS
  <2>9. /\ Popped(stack, q) /\ TopIs(q, stack', h) /\ caller = stack[Len(stack) - 1]
        /\ ItemOK(Die, caller.die, h.item)
        /\ h.item.members = caller.item.members \o top.item.members
        /\ WalkOK(Die, stack, done, aside)
    BY <2>1, <2>6, <2>7, <2>8 DEF Popped, caller, Building
  <2>10. WalkOK(Die, stack', done \union {top.die}, aside)
    BY <2>2, <2>3, <2>7, <2>9, WalkClosePart
  <2>11. PICK t : t = top.die
    OBVIOUS
  <2>12. /\ t # 0 /\ t \notin Functions(Die) /\ t \notin Stored(Die)
         /\ WalkOK(Die, stack', done \union {t}, aside)
    BY <2>3, <2>10, <2>11 DEF Functions, Stored, With, TypeTags
  <2>13. FunctionsOK(Die, done \union {t}, functions', known)
    BY <1>1, <2>1, <2>12, FunctionsSame DEF Building
  <2>14. TypesOK(Die, done \union {t}, types')
    BY <1>1, <2>1, <2>12, TypesSame DEF Building
  <2>15. stack' # <<>> /\ stack'[1].die = stack[1].die
    BY <2>3, <2>4, <2>7, BelowFirst
  <2> QED
    BY <1>1, <2>1, <2>12, <2>13, <2>14, <2>15, Completes
<1> QED
  BY <1>1, <1>2, CallStep

LEMMA CloseVariantKeeps ==
  ASSUME AllPlaced, UnitInv, CloseVariant
  PROVE  UnitInv'
<1>1. /\ unit' = unit /\ types' = types /\ functions' = functions
      /\ subprograms' = subprograms /\ known' = known /\ defer' = defer /\ pass' = pass
      /\ phase' = phase /\ Returns({"variant"}) /\ stack # <<>>
      /\ \E ms : stack' = Below([caller.item EXCEPT !.variants = Append(@, ms)])
  BY DEF CloseVariant, Returns, fixups
<1>2. PICK ms : stack' = Below([caller.item EXCEPT !.variants = Append(@, ms)])
  BY <1>1
<1> DEFINE item == [caller.item EXCEPT !.variants = Append(@, ms)]
<1>3. ASSUME Searching
      PROVE  \E done, aside : Building(done, aside)'
  <2>1. PICK done, aside : Building(done, aside)
    BY <1>3 DEF UnitInv
  <2>2. Tree(Die)
    BY DieIsTree
  <2>3. /\ Returning(stack, top) /\ Die[top.die].tag = "variant" /\ top.die # 0
        /\ Len(stack) \in Nat /\ Len(stack) > 1
    BY <1>1, <1>3, <2>1, <2>2, NotTheFirst
  <2>4. /\ FrameOK(Die, caller) /\ ItemOK(Die, caller.die, caller.item)
        /\ StackOK(Die, stack)
    BY <2>1, <2>2, <2>3, CallerIs
  <2>5. /\ ItemOK(Die, caller.die, item)
        /\ Die[caller.die].tag \in Classes \union {"part"} =>
             item.members = caller.item.members
    BY <2>4 DEF ItemOK
  <2>6. stack' = Below(item)
    BY <1>2
  <2> HIDE DEF item
  <2>7. PICK h : /\ TopIs(Front(stack), stack', h) /\ DOMAIN h = DOMAIN caller
                 /\ h.die = caller.die /\ h.rest = caller.rest /\ h.item = item
    BY <2>3, <2>4, <2>6, BelowIs
  <2>8. PICK q : q = Front(stack)
    OBVIOUS
  <2>9. PICK t : t = top.die
    OBVIOUS
  <2>10. /\ WalkOK(Die, q, done \union {t}, aside) /\ Len(q) = Len(stack) - 1
         /\ \A i \in 1..Len(q) : q[i] = stack[i]
    <3>1. /\ WalkOK(Die, stack, done, aside) /\ Popped(stack, q)
          /\ Die[top.die].tag # "part"
      BY <2>1, <2>3, <2>8 DEF Building, Popped
    <3>2. /\ WalkOK(Die, q, done \union {top.die}, aside)
          /\ top.die \notin done \union aside
          /\ Len(q) = Len(stack) - 1 /\ Len(stack) \in Nat \ {0}
          /\ \A i \in 1..Len(q) : q[i] = stack[i]
          /\ FrameOK(Die, top)
          /\ Die[top.die].tag \in Classes => Incr(top.item.members, OwnMembers(Die, top.die))
      BY <2>2, <2>3, <3>1, WalkClose
    <3> QED
      BY <2>9, <3>2
  <2>11. q # <<>> /\ caller = q[Len(q)]
    <3>1. Len(q) > 0 /\ Len(q) \in 1..Len(q)
      BY <2>3, <2>10
    <3> QED
      BY <2>10, <3>1, SeqEmpty DEF caller
  <2>12. WalkOK(Die, stack', done \union {t}, aside)
    <3>1. /\ TopIs(q, stack', h) /\ ItemOK(Die, caller.die, h.item) /\ SameList(Die, caller, h)
      BY <2>5, <2>7, <2>8 DEF SameList
    <3>2. PICK d : d = done \union {t}
      OBVIOUS
    <3>3. WalkOK(Die, q, d, aside)
      BY <2>10, <3>2
    <3>4. WalkOK(Die, stack', d, aside)
      BY <2>7, <2>11, <3>1, <3>3, WalkSetTop
    <3> QED
      BY <3>2, <3>4
  <2>13. /\ t # 0 /\ t \notin Functions(Die) /\ t \notin Stored(Die)
    BY <2>3, <2>9 DEF Functions, Stored, With, TypeTags
  <2>14. FunctionsOK(Die, done \union {t}, functions', known)
    BY <1>1, <2>1, <2>13, FunctionsSame DEF Building
  <2>15. TypesOK(Die, done \union {t}, types')
    BY <1>1, <2>1, <2>13, TypesSame DEF Building
  <2>16. stack' # <<>> /\ stack'[1].die = stack[1].die
    BY <2>3, <2>4, <2>7, BelowFirst
  <2> QED
    BY <1>1, <2>1, <2>12, <2>13, <2>14, <2>15, <2>16, Completes
<1> QED
  BY <1>1, <1>3, CallStep

-----------------------------------------------------------------------------
(* The steps of the fix-up.                                                *)
(***************************************************************************)
LEMMA FixupStep ==
  ASSUME UnitInv, unit' = unit, phase' = "functions", \E done, aside : Building(done, aside)'
  PROVE  UnitInv'
BY DEF UnitInv, Searching

LEMMA BuildingIs ==
  ASSUME NEW done, NEW aside, Building(done, aside)
  PROVE  /\ WalkOK(Die, stack, done, aside) /\ AsideOK(subprograms, defer, aside)
         /\ FunctionsOK(Die, done, functions, known) /\ TypesOK(Die, done, types)
         /\ (0 \in done <=> phase = "functions") /\ ControlOK
         /\ StackOK(Die, stack) /\ aside \subseteq Functions(Die)
BY DEF Building, WalkOK, Places

LEMMA EndWalkKeeps ==
  ASSUME AllPlaced, UnitInv, EndWalk
  PROVE  UnitInv'
<1>1. /\ unit' = unit /\ types' = types /\ subprograms' = subprograms
      /\ defer' = defer /\ pass' = pass /\ phase = "walk" /\ phase' = "functions"
      /\ top.die = 0 /\ top.rest = <<>> /\ stack' = <<>>
      /\ known' = ByOffset(functions) /\ functions' = <<>>
  BY DEF EndWalk
<1>2. PICK done, aside : Building(done, aside)
  BY <1>1 DEF UnitInv, Searching
<1>3. Tree(Die)
  BY DieIsTree
<1>4. /\ WalkOK(Die, stack, done, aside) /\ AsideOK(subprograms, defer, aside)
      /\ FunctionsOK(Die, done, functions, known) /\ TypesOK(Die, done, types)
      /\ ControlOK /\ StackOK(Die, stack)
  BY <1>2, BuildingIs
<1>5. stack # <<>> /\ stack[1].die = 0 /\ known = <<>> /\ defer = <<>> /\ pass = "none"
  BY <1>1, <1>4 DEF ControlOK
<1>6. Len(stack) = 1
  <2> DEFINE n == Len(stack)
  <2>1. /\ n \in Nat \ {0}
        /\ \A i, j \in 1..n : stack[i].die = stack[j].die => i = j
        /\ stack[n].die = 0
    BY <1>1, <1>4, <1>5, SeqLen DEF StackOK, top
  <2> HIDE DEF n
  <2>2. 1 \in 1..n /\ n \in 1..n
    BY <2>1
  <2>3. n = 1
    BY <1>5, <2>1, <2>2
  <2> QED
    BY <2>3 DEF n
<1>7. Returning(stack, top)
  BY <1>1, <1>5 DEF Returning, top
<1>8. WalkOK(Die, <<>>, done \union {top.die}, aside)
  BY <1>3, <1>4, <1>6, <1>7, WalkCloseLast
<1>9. PICK d : d = done \union {0}
  OBVIOUS
<1>10. WalkOK(Die, <<>>, d, aside)
  BY <1>1, <1>8, <1>9
<1>11. 0 \notin Functions(Die) /\ 0 \notin Stored(Die)
  BY <1>3 DEF Functions, Stored, With, Tree, TypeTags
<1>12. FunctionsOK(Die, d, <<>>, known')
  <2>1. FunctionsOK(Die, done, <<>>, ByOffset(functions))
    BY <1>4, <1>5, FunctionsGathered
  <2>2. FunctionsOK(Die, done \union {0}, <<>>, ByOffset(functions))
    BY <1>11, <2>1, FunctionsSame
  <2> QED
    BY <1>1, <1>9, <2>2
<1>13. TypesOK(Die, d, types)
  BY <1>4, <1>9, <1>11, TypesSame
<1>14. ControlOK'
  BY <1>1, <1>5 DEF ControlOK
<1>15. Die' = Die
  BY <1>1 DEF Die
<1>16. Building(d, aside)'
  BY <1>1, <1>4, <1>9, <1>10, <1>12, <1>13, <1>14, <1>15 DEF Building
<1> QED
  BY <1>1, <1>16, FixupStep

LEMMA BeginPassKeeps ==
  ASSUME AllPlaced, UnitInv, BeginPass
  PROVE  UnitInv'
<1>1. /\ unit' = unit /\ types' = types /\ functions' = functions /\ stack' = stack
      /\ known' = known /\ phase = "functions" /\ phase' = phase /\ pass = "none"
      /\ defer' = subprograms /\ subprograms' = <<>> /\ pass' = "inherit"
  BY DEF BeginPass
<1>2. PICK done, aside : Building(done, aside)
  BY <1>1 DEF UnitInv, Searching
<1>3. /\ WalkOK(Die, stack, done, aside) /\ AsideOK(subprograms, defer, aside)
      /\ FunctionsOK(Die, done, functions, known) /\ TypesOK(Die, done, types)
      /\ (0 \in done <=> phase = "functions") /\ ControlOK
  BY <1>2, BuildingIs
<1>4. defer = <<>> /\ stack = <<>> /\ functions = <<>>
  BY <1>1, <1>3 DEF ControlOK
<1>5. AsideOK(<<>>, subprograms, aside)
  BY <1>3, <1>4, AsideBegin
<1>6. ControlOK'
  BY <1>1, <1>4 DEF ControlOK
<1>7. Die' = Die
  BY <1>1 DEF Die
<1>8. Building(done, aside)'
  BY <1>1, <1>3, <1>5, <1>6, <1>7 DEF Building
<1> QED
  BY <1>1, <1>8, FixupStep

LEMMA NextDeferredKeeps ==
  ASSUME AllPlaced, UnitInv, NextDeferred
  PROVE  UnitInv'
<1> DEFINE f == Head(defer)
           x == IF pass = "inherit" THEN Inherit(f, known[Die[f.die].refers]) ELSE f
<1>1. /\ unit' = unit /\ types' = types /\ functions' = functions
      /\ known' = known /\ phase = "functions" /\ phase' = phase
      /\ pass # "none" /\ pass' = pass /\ stack = <<>> /\ defer # <<>>
      /\ defer' = Tail(defer)
      /\ \/ subprograms' = Append(subprograms, f) /\ stack' = stack
         \/ stack' = <<FunctionFrame(x)>> /\ subprograms' = subprograms
  BY DEF NextDeferred
<1>2. PICK done, aside : Building(done, aside)
  BY <1>1 DEF UnitInv, Searching
<1>3. /\ WalkOK(Die, stack, done, aside) /\ AsideOK(subprograms, defer, aside)
      /\ FunctionsOK(Die, done, functions, known) /\ TypesOK(Die, done, types)
      /\ (0 \in done <=> phase = "functions") /\ ControlOK /\ aside \subseteq Functions(Die)
  BY <1>2, BuildingIs
<1>4. Tree(Die) /\ Die' = Die
  BY <1>1, DieIsTree DEF Die
<1>5. PICK h : h = Head(defer)
  OBVIOUS
<1>6. /\ h.die \in aside /\ "die" \in DOMAIN h
      /\ AsideOK(subprograms, Tail(defer), aside \ {h.die})
      /\ AsideOK(Append(subprograms, h), Tail(defer), aside)
  BY <1>1, <1>3, <1>5, AsideNext
<1>7. CASE subprograms' = Append(subprograms, f) /\ stack' = stack
  <2>1. AsideOK(subprograms', defer', aside)
    BY <1>1, <1>5, <1>6, <1>7
  <2>2. ControlOK'
    BY <1>1, <1>3, <1>7 DEF ControlOK
  <2>3. Building(done, aside)'
    BY <1>1, <1>3, <1>4, <1>7, <2>1, <2>2 DEF Building
  <2> QED
    BY <1>1, <2>3, FixupStep
<1>8. CASE stack' = <<FunctionFrame(x)>> /\ subprograms' = subprograms
  <2>1. PICK y : y = x
    OBVIOUS
  <2>2. y.die = h.die /\ "die" \in DOMAIN y
    BY <1>5, <1>6, <2>1 DEF Inherit
  <2>3. PICK g : g = FunctionFrame(y)
    OBVIOUS
  <2>4. h.die \in DOMAIN Die /\ Die[h.die].tag = "function" /\ h.die # 0
    BY <1>3, <1>4, <1>6 DEF Functions, With, Tree
  <2>5. Starts(Die, h.die, g)
    <3>1. ItemOK(Die, h.die, y) /\ Die[h.die].tag \notin Classes \union {"part"}
      BY <2>2, <2>4 DEF ItemOK, Classes
    <3>2. h.die \in With(Die, Scopes \union {"unit"})
      BY <2>4 DEF With, Scopes
    <3>3. Starts(Die, h.die, Frame(h.die, Within(y.ns, y.name, "function"), y))
      BY <1>4, <3>1, <3>2, FrameStarts
    <3> QED
      BY <2>2, <2>3, <3>3 DEF FunctionFrame
  <2>6. FrameOK(Die, g) /\ g.die = h.die /\ Elements(g.rest) = Kids(Die, g.die)
    BY <2>5 DEF Starts
  <2>7. stack' = <<g>>
    BY <1>8, <2>1, <2>3
  <2>8. PICK a : a = aside \ {h.die}
    OBVIOUS
  <2>9. WalkOK(Die, stack', done, a)
    <3>1. WalkOK(Die, <<>>, done, aside) /\ g.die \in aside
      BY <1>1, <1>3, <1>6, <2>6
    <3>2. WalkOK(Die, stack', done, aside \ {g.die})
      BY <1>4, <2>6, <2>7, <3>1, WalkResume
    <3> QED
      BY <2>6, <2>8, <3>2
  <2>10. stack' # <<>> /\ stack'[1].die # 0
    <3>1. Len(<<g>>) = 1 /\ <<g>>[1] = g
      BY SeqOne
    <3>2. <<g>> # <<>>
      BY <3>1, OneIsSome
    <3> QED
      BY <2>4, <2>6, <2>7, <3>1, <3>2
  <2>11. ControlOK'
    BY <1>1, <2>10 DEF ControlOK
  <2>12. Building(done, a)'
    BY <1>1, <1>3, <1>4, <1>6, <1>8, <2>8, <2>9, <2>11 DEF Building
  <2> QED
    BY <1>1, <2>12, FixupStep
<1> QED
  BY <1>1, <1>7, <1>8

LEMMA FixedSubprogramKeeps ==
  ASSUME AllPlaced, UnitInv, FixedSubprogram
  PROVE  UnitInv'
<1>1. /\ unit' = unit /\ types' = types /\ subprograms' = subprograms
      /\ defer' = defer /\ pass' = pass /\ phase = "functions" /\ phase' = phase
      /\ Len(stack) = 1 /\ top.rest = <<>> /\ stack' = <<>> /\ functions' = <<>>
      /\ known' = AllInserted(Inserted(known, top.die, top.item), ByOffset(functions))
  BY DEF FixedSubprogram
<1>2. PICK done, aside : Building(done, aside)
  BY <1>1 DEF UnitInv, Searching
<1>3. Tree(Die) /\ Die' = Die
  BY <1>1, DieIsTree DEF Die
<1>4. /\ WalkOK(Die, stack, done, aside) /\ AsideOK(subprograms, defer, aside)
      /\ FunctionsOK(Die, done, functions, known) /\ TypesOK(Die, done, types)
      /\ (0 \in done <=> phase = "functions") /\ ControlOK /\ StackOK(Die, stack)
  BY <1>2, BuildingIs
<1>5. stack # <<>> /\ top = stack[1]
  <2>1. PICK st : st = stack
    OBVIOUS
  <2>2. st # <<>>
    BY <1>1, <2>1, OneIsSome
  <2> QED
    BY <1>1, <2>1, <2>2 DEF top
<1>6. Returning(stack, top)
  BY <1>1, <1>5 DEF Returning, top
<1>7. /\ WalkOK(Die, <<>>, done \union {top.die}, aside)
      /\ top.die \notin done \union aside /\ FrameOK(Die, top)
  BY <1>1, <1>3, <1>4, <1>6, WalkCloseLast
<1>8. top.die # 0
  BY <1>1, <1>4, <1>5 DEF ControlOK
<1>9. Die[top.die].tag = "function"
  BY <1>1, <1>4, <1>5, <1>8 DEF StackOK
<1>10. top.die \in Functions(Die) /\ top.item.die = top.die
  BY <1>7, <1>9 DEF FrameOK, ItemOK, Functions, With
<1>11. PICK t : t = top.die
  OBVIOUS
<1>12. PICK d : d = done \union {t}
  OBVIOUS
<1>13. FunctionsOK(Die, d, <<>>, known')
  <2>1. PICK x : x = top.item
    OBVIOUS
  <2>2. x.die = t /\ t \in Functions(Die) /\ t \notin done
    BY <1>7, <1>10, <1>11, <2>1
  <2>3. FunctionsOK(Die, done \union {t}, <<>>,
                    AllInserted(Inserted(known, t, x), ByOffset(functions)))
    BY <1>4, <2>2, FunctionsFixed
  <2> QED
    BY <1>1, <1>11, <1>12, <2>1, <2>3
<1>14. TypesOK(Die, d, types)
  <2>1. t \notin Stored(Die)
    BY <1>9, <1>11 DEF Stored, With, TypeTags
  <2> QED
    BY <1>4, <1>12, <2>1, TypesSame
<1>15. ControlOK'
  BY <1>1, <1>4 DEF ControlOK
<1>16. WalkOK(Die, <<>>, d, aside) /\ (0 \in d <=> phase = "functions")
  BY <1>4, <1>7, <1>8, <1>11, <1>12
<1>17. Building(d, aside)'
  BY <1>1, <1>3, <1>4, <1>13, <1>14, <1>15, <1>16 DEF Building
<1> QED
  BY <1>1, <1>17, FixupStep

LEMMA EndPassKeeps ==
  ASSUME AllPlaced, UnitInv, EndPass
  PROVE  UnitInv'
<1>1. /\ unit' = unit /\ types' = types /\ functions' = functions /\ stack' = stack
      /\ known' = known /\ phase = "functions" /\ phase' = phase
      /\ stack = <<>> /\ defer = <<>>
      /\ \/ pass' = "force" /\ defer' = subprograms /\ subprograms' = <<>>
         \/ pass' = "none" /\ defer' = defer /\ subprograms' = subprograms
  BY DEF EndPass
<1>2. PICK done, aside : Building(done, aside)
  BY <1>1 DEF UnitInv, Searching
<1>3. /\ WalkOK(Die, stack, done, aside) /\ AsideOK(subprograms, defer, aside)
      /\ FunctionsOK(Die, done, functions, known) /\ TypesOK(Die, done, types)
      /\ (0 \in done <=> phase = "functions") /\ ControlOK
  BY <1>2, BuildingIs
<1>4. AsideOK(subprograms', defer', aside)
  BY <1>1, <1>3, AsideBegin
<1>5. ControlOK'
  BY <1>1, <1>3 DEF ControlOK
<1>6. Die' = Die
  BY <1>1 DEF Die
<1>7. Building(done, aside)'
  BY <1>1, <1>3, <1>4, <1>5, <1>6 DEF Building
<1> QED
  BY <1>1, <1>7, FixupStep

LEMMA EndFunctionsKeeps ==
  ASSUME AllPlaced, UnitInv, EndFunctions
  PROVE  UnitInv'
<1>1. /\ unit' = unit /\ types' = types /\ stack' = stack
      /\ phase = "functions" /\ phase' = "variables" /\ pass = "none" /\ subprograms = <<>>
      /\ functions' = InOrder(known)
  BY DEF EndFunctions
<1>2. PICK done, aside : Building(done, aside)
  BY <1>1 DEF UnitInv, Searching
<1>3. Tree(Die) /\ Die' = Die
  BY <1>1, DieIsTree DEF Die
<1>4. /\ WalkOK(Die, stack, done, aside) /\ AsideOK(subprograms, defer, aside)
      /\ FunctionsOK(Die, done, functions, known) /\ TypesOK(Die, done, types)
      /\ (0 \in done <=> phase = "functions") /\ ControlOK
  BY <1>2, BuildingIs
<1>5. stack = <<>> /\ defer = <<>> /\ functions = <<>>
  BY <1>1, <1>4 DEF ControlOK
<1>6. aside = {}
  BY <1>1, <1>4, <1>5, OnceEmpty DEF AsideOK
<1>7. done = Kept(Die) \union {0}
  <2>1. Places(Die, done, {}, {}, {})
    BY <1>4, <1>5, <1>6, StackNone DEF WalkOK
  <2> QED
    BY <1>1, <1>3, <1>4, <2>1, AllDone
<1>8. DOMAIN known = Functions(Die)
  <2>1. Functions(Die) \subseteq Kept(Die) /\ 0 \notin Functions(Die)
    BY <1>3 DEF Functions, Kept, With, Scopes, Tree
  <2> QED
    BY <1>4, <1>5, <1>7, <2>1, OnceEmpty DEF FunctionsOK
<1>9. Once(InOrder(known)) /\ DiesOf(InOrder(known)) = Functions(Die)
  <2>1. DOMAIN known \subseteq DOMAIN Die
    BY <1>8 DEF Functions, With
  <2>2. DOMAIN known \subseteq Nat /\ IsFiniteSet(DOMAIN known)
    BY <1>3, <2>1, FS_Subset DEF Tree
  <2>3. OwnItems(known)
    BY <1>4 DEF FunctionsOK
  <2>4. Once(InOrder(known)) /\ DiesOf(InOrder(known)) = DOMAIN known
    BY <2>2, <2>3, InOrderHolds
  <2> QED
    BY <1>8, <2>4
<1>10. TypesOK(Die, Kept(Die) \union {0}, types)
  BY <1>4, <1>7
<1>11. Built'
  BY <1>1, <1>3, <1>5, <1>9, <1>10 DEF Built
<1> QED
  BY <1>1, <1>11 DEF UnitInv, Searching

LEMMA VariableStepsKeep ==
  ASSUME UnitInv, NextVariable \/ EndVariablePass
  PROVE  UnitInv'
<1>1. /\ unit' = unit /\ types' = types /\ functions' = functions /\ stack' = stack
      /\ phase = "variables" /\ phase' \in {"variables", "done"}
  BY DEF NextVariable, EndVariablePass
<1>2. Built
  BY <1>1 DEF UnitInv
<1>3. Built'
  BY <1>1, <1>2 DEF Built, Die
<1> QED
  BY <1>1, <1>3 DEF UnitInv, Searching

LEMMA UnitInit ==
  ASSUME AllPlaced, Init
  PROVE  UnitInv
<1>1. /\ unit \in Units /\ stack = <<Frame(0, <<>>, Part)>>
      /\ types = <<>> /\ functions = <<>> /\ subprograms = <<>> /\ defer = <<>>
      /\ known = <<>> /\ pass = "none" /\ phase = "walk"
  BY DEF Init
<1>2. Tree(Die)
  BY <1>1, TreeOf DEF AllPlaced, Die
<1>3. PICK g : g = Frame(0, <<>>, Part)
  OBVIOUS
<1>4. Starts(Die, 0, g)
  <2>1. Die[0].tag = "unit" /\ 0 \in DOMAIN Die
    BY <1>2 DEF Tree
  <2>2. 0 \in With(Die, Scopes \union {"unit"})
    BY <2>1 DEF With
  <2>3. ItemOK(Die, 0, Part) /\ Die[0].tag \notin Classes \union {"part"}
    BY <2>1 DEF ItemOK, Classes
  <2>4. Starts(Die, 0, Frame(0, <<>>, Part))
    BY <1>2, <2>2, <2>3, FrameStarts
  <2> QED
    BY <1>3, <2>4
<1>5. FrameOK(Die, g) /\ g.die = 0 /\ Elements(g.rest) = Kids(Die, 0)
  BY <1>4 DEF Starts
<1>6. stack = <<g>>
  BY <1>1, <1>3
<1>7. WalkOK(Die, stack, {}, {})
  BY <1>2, <1>5, <1>6, WalkStart
<1>8. stack # <<>> /\ stack[1].die = 0
  <2>1. Len(<<g>>) = 1 /\ <<g>>[1] = g
    BY SeqOne
  <2>2. <<g>> # <<>>
    BY <2>1, OneIsSome
  <2> QED
    BY <1>5, <1>6, <2>1, <2>2
<1>9. ControlOK
  BY <1>1, <1>8 DEF ControlOK
<1>10. AsideOK(subprograms, defer, {})
  <2>1. HaveDies(<<>>)
    BY SeqEmpty DEF HaveDies
  <2> QED
    BY <1>1, <2>1, OnceEmpty DEF AsideOK
<1>11. FunctionsOK(Die, {}, functions, known)
  <2>1. DOMAIN <<>> = {}
    OBVIOUS
  <2> QED
    BY <1>1, <2>1, OnceEmpty DEF FunctionsOK, OwnItems
<1>12. TypesOK(Die, {}, types)
  BY <1>1, OnceEmpty, SeqEmpty DEF TypesOK
<1>13. Building({}, {})
  BY <1>1, <1>7, <1>9, <1>10, <1>11, <1>12 DEF Building
<1> QED
  BY <1>1, <1>13 DEF UnitInv, Searching

-----------------------------------------------------------------------------
\* Every step keeps the invariant.
LEMMA UnitNext ==
  ASSUME AllPlaced, UnitInv, [Next]_vars
  PROVE  UnitInv'
<1>1. CASE Walk
  <2>1. CASE Skip
    BY <2>1, SkipKeeps
  <2>2. CASE EnterScope
    BY <2>2, EnterScopeKeeps
  <2>3. CASE NamedType
    BY <2>3, NamedTypeKeeps
  <2>4. CASE Subprogram
    BY <2>4, SubprogramKeeps
  <2>5. CASE NamespaceVariable
    BY <2>5, NamespaceVariableKeeps
  <2>6. CASE Member
    BY <2>6, MemberKeeps
  <2>7. CASE Inheritance
    BY <2>7, InheritanceKeeps
  <2>8. CASE Parameter
    BY <2>8, ParameterKeeps
  <2>9. CASE Close
    BY <2>9, CloseKeeps
  <2>10. CASE ClosePart
    BY <2>10, ClosePartKeeps
  <2>11. CASE CloseVariant
    BY <2>11, CloseVariantKeeps
  <2> QED
    BY <1>1, <2>1, <2>2, <2>3, <2>4, <2>5, <2>6, <2>7, <2>8, <2>9, <2>10, <2>11 DEF Walk
<1>2. CASE Fixup
  <2>1. CASE EndWalk
    BY <2>1, EndWalkKeeps
  <2>2. CASE BeginPass
    BY <2>2, BeginPassKeeps
  <2>3. CASE NextDeferred
    BY <2>3, NextDeferredKeeps
  <2>4. CASE FixedSubprogram
    BY <2>4, FixedSubprogramKeeps
  <2>5. CASE EndPass
    BY <2>5, EndPassKeeps
  <2>6. CASE EndFunctions
    BY <2>6, EndFunctionsKeeps
  <2>7. CASE NextVariable \/ EndVariablePass
    BY <2>7, VariableStepsKeep
  <2> QED
    BY <1>2, <2>1, <2>2, <2>3, <2>4, <2>5, <2>6, <2>7 DEF Fixup
<1>3. CASE ReadError
  BY <1>3 DEF ReadError, UnitInv, Searching
<1>4. CASE UNCHANGED vars
  <2>1. /\ unit' = unit /\ stack' = stack /\ types' = types /\ functions' = functions
        /\ subprograms' = subprograms /\ known' = known /\ defer' = defer /\ pass' = pass
        /\ phase' = phase
    BY <1>4 DEF vars
  <2> QED
    BY <2>1 DEF UnitInv, Searching, Building, Built, ControlOK, Die
<1> QED
  BY <1>1, <1>2, <1>3, <1>4 DEF Next, Step

\* What is built in the end is what the unit holds.
LEMMA BuiltIsKept ==
  ASSUME AllPlaced, UnitInv
  PROVE  EntriesKept
<1> SUFFICES ASSUME phase = "done"
             PROVE  /\ Dies(functions) = Tagged({"function"})
                    /\ Len(functions) = Cardinality(Dies(functions))
                    /\ Dies(types) = Tagged(TypeTags \ {"unnamed"})
                    /\ Len(types) = Cardinality(Dies(types))
                    /\ \A k \in DOMAIN types :
                         LET t == types[k].die
                         IN  types[k].members =
                               Sorted({m \in Tagged({"member"}) :
                                         ~Die[m].decl /\ LET p == Die[m].parent
                                                        IN  p = t \/ (Die[p].tag = "part" /\ Die[p].parent = t)})
  BY DEF EntriesKept
<1>1. Tree(Die) /\ Built
  BY DieIsTree DEF UnitInv
<1>2. Dies(functions) = Functions(Die) /\ Len(functions) = Cardinality(Dies(functions))
  BY <1>1, OnceCount DEF Built
<1>3. Once(types) /\ DiesOf(types) = Stored(Die)
      /\ \A k \in 1..Len(types) : Incr(types[k].members, OwnMembers(Die, types[k].die))
  <2>1. Stored(Die) \subseteq Kept(Die)
    BY DEF Stored, Kept, With, Scopes, TypeTags
  <2> QED
    BY <1>1, <2>1 DEF Built, TypesOK
<1>4. Dies(types) = Stored(Die) /\ Len(types) = Cardinality(Dies(types))
  BY <1>3, OnceCount
<1>5. Tagged({"function"}) = Functions(Die) /\ Tagged(TypeTags \ {"unnamed"}) = Stored(Die)
  BY DEF Tagged, Functions, Stored, With, Entry
<1>6. ASSUME NEW k \in DOMAIN types
      PROVE  types[k].members = Sorted(OwnMembers(Die, types[k].die))
  <2>1. k \in 1..Len(types)
    BY <1>3, SeqLen DEF Once
  <2>2. PICK S : S = OwnMembers(Die, types[k].die)
    OBVIOUS
  <2>3. Incr(types[k].members, S)
    BY <1>3, <2>1, <2>2
  <2>4. S \subseteq DOMAIN Die
    BY <2>2 DEF OwnMembers, PlainMembers, With
  <2>5. S \subseteq Nat /\ IsFiniteSet(S)
    BY <1>1, <2>4, FS_Subset DEF Tree
  <2>6. Incr(Sorted(S), S)
    BY <2>5, SortedIncr
  <2>7. types[k].members = Sorted(S)
    BY <2>3, <2>5, <2>6, IncrUnique
  <2> QED
    BY <2>2, <2>7
<1>7. \A t : OwnMembers(Die, t) =
               {m \in Tagged({"member"}) :
                  ~Die[m].decl /\ LET p == Die[m].parent
                                 IN  p = t \/ (Die[p].tag = "part" /\ Die[p].parent = t)}
  BY DEF OwnMembers, PlainMembers, IsPartOf, Tagged, With, Entry
<1> QED
  BY <1>2, <1>4, <1>5, <1>6, <1>7

\* parse_unit, parser/src/file/dwarf.rs: every function and every type of a unit is
\* stored exactly once, with all its members, whatever the tree, and in whatever order
\* functions refer to each other, as long as each entry stands where its parser looks.
THEOREM UnitKeepsItsEntries ==
  ASSUME \A u \in Units : WellPlaced(u)
  PROVE  Spec => []EntriesKept
<1>1. AllPlaced
  BY DEF AllPlaced
<1>2. Init => UnitInv
  BY <1>1, UnitInit
<1>3. UnitInv /\ [Next]_vars => UnitInv'
  BY <1>1, UnitNext
<1>4. UnitInv => EntriesKept
  BY <1>1, BuiltIsKept
<1> QED
  BY <1>2, <1>3, <1>4, PTL DEF Spec
=============================================================================
