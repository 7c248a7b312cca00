--------------------------- MODULE LocationProofs ---------------------------
(***************************************************************************)
(* What evaluate_simple claims to know is right, for every expression,     *)
(* frame and width of an address; only its sums and differences are not.   *)
(***************************************************************************)
EXTENDS Location, SeqLemmas

-----------------------------------------------------------------------------
(* Arithmetic of addresses, which wrap.                                    *)

\* Quotient and remainder.
LEMMA Division ==
  ASSUME NEW a \in Int, NEW m \in Nat \ {0}
  PROVE  /\ a % m \in 0..(m - 1)
         /\ a \div m \in Int
         /\ a = (m * (a \div m)) + (a % m)
  OBVIOUS

\* A positive multiple of m is at least m.
LEMMA Multiple ==
  ASSUME NEW k \in Int, NEW m \in Nat \ {0}, k >= 1
  PROVE  m * k >= m
  OBVIOUS

\* Two remainders that differ by a multiple are one.
LEMMA Unique ==
  ASSUME NEW m \in Nat \ {0}, NEW r \in 0..(m - 1), NEW s \in 0..(m - 1), NEW k \in Int,
         r = s + m * k
  PROVE  r = s
<1>1. CASE k >= 1
  BY <1>1, Multiple
<1>2. CASE k <= -1
  <2>1. -k \in Int /\ -k >= 1 /\ m * (-k) = -(m * k) /\ m * k \in Int
    BY <1>2
  <2>2. m * (-k) >= m
    BY <2>1, Multiple
  <2> QED
    BY <2>1, <2>2
<1>3. CASE k = 0
  BY <1>3
<1> QED
  BY <1>1, <1>2, <1>3

\* Two numbers that differ by a multiple of m have the same remainder.
LEMMA Congruent ==
  ASSUME NEW m \in Nat \ {0}, NEW a \in Int, NEW b \in Int, NEW k \in Int, a = b + m * k
  PROVE  a % m = b % m
<1>1. a = (m * (a \div m)) + (a % m) /\ a % m \in 0..(m - 1) /\ a \div m \in Int
  BY Division
<1>2. b = (m * (b \div m)) + (b % m) /\ b % m \in 0..(m - 1) /\ b \div m \in Int
  BY Division
<1> DEFINE q == a \div m
           p == b \div m
           r == a % m
           s == b % m
<1>3. r = s + m * ((p + k) - q)
  <2> HIDE DEF q, p, r, s
  <2>1. a = m * q + r /\ b = m * p + s /\ q \in Int /\ p \in Int /\ r \in Int /\ s \in Int
    BY <1>1, <1>2 DEF q, p, r, s
  <2>2. m * ((p + k) - q) = m * p + m * k - m * q
    BY <2>1
  <2> QED
    BY <2>1, <2>2
<1>4. (p + k) - q \in Int /\ r \in 0..(m - 1) /\ s \in 0..(m - 1)
  BY <1>1, <1>2
<1> HIDE DEF q, p, r, s
<1>5. r = s
  BY <1>3, <1>4, Unique
<1> QED
  BY <1>5 DEF r, s

\* What is left of a number after multiples of m, and after multiples of multiples.
LEMMA Left ==
  ASSUME NEW m \in Int, NEW q \in Int, NEW r \in Int, NEW c \in Int
  PROVE  r + c = ((m * q + r) + c) + m * (-q)
<1>1. m * (-q) = -(m * q) /\ m * q \in Int
  OBVIOUS
<1> QED
  BY <1>1

\* The same, for a multiple of a multiple of m.
LEMMA LeftTwice ==
  ASSUME NEW m \in Int, NEW w \in Int, NEW q \in Int, NEW r \in Int, NEW c \in Int
  PROVE  c + r = (c + ((m * w) * q + r)) + m * (-(w * q))
<1>1. (m * w) * q = m * (w * q) /\ w * q \in Int
  OBVIOUS
<1>2. ASSUME NEW p \in Int
      PROVE  c + r = (c + (m * p + r)) + m * (-p)
  <2>1. m * (-p) = -(m * p) /\ m * p \in Int
    OBVIOUS
  <2> QED
    BY <2>1
<1> QED
  BY <1>1, <1>2

\* The machine's addresses divide the numbers of a u64.
LEMMA Space ==
  ASSUME frame \in Frames
  PROVE  /\ frame.space \in Nat \ {0} /\ Word \in Nat \ {0}
         /\ Word \div frame.space \in Int
         /\ Word = frame.space * (Word \div frame.space)
<1>1. frame.space \in 1..Word /\ Word \in Nat \ {0} /\ Word % frame.space = 0
  BY FramesAssumption
<1>2. frame.space \in Nat \ {0} /\ Word \in Int
  BY <1>1
<1>3. /\ Word \div frame.space \in Int
      /\ Word = (frame.space * (Word \div frame.space)) + (Word % frame.space)
  BY <1>1, <1>2, Division
<1>4. frame.space * (Word \div frame.space) \in Int
  BY <1>2, <1>3
<1>5. ASSUME NEW p \in Int, Word = p + 0
      PROVE  Word = p
  BY <1>5
<1> QED
  BY <1>1, <1>2, <1>3, <1>4, <1>5

\* The same, when the multiple is not named.
LEMMA SameValue ==
  ASSUME NEW m \in Nat \ {0}, NEW a \in Int, NEW b \in Int, \E k \in Int : a = b + m * k
  PROVE  a % m = b % m
<1>1. PICK k \in Int : a = b + m * k
  OBVIOUS
<1> QED
  BY <1>1, Congruent

\* A value in the machine is a number, and the same one again.
LEMMA ValueSum ==
  ASSUME frame \in Frames, NEW x \in Int, NEW c \in Int
  PROVE  Value(x) \in Int /\ Value(Value(x) + c) = Value(x + c)
<1> DEFINE m == frame.space
           q == x \div m
           r == x % m
<1>1. m \in Nat \ {0}
  BY Space
<1>2. r \in 0..(m - 1) /\ q \in Int /\ x = (m * q) + r
  BY <1>1, Division
<1> HIDE DEF m, q, r
<1>3. r + c = (x + c) + m * (-q) /\ r \in Int /\ r + c \in Int /\ x + c \in Int /\ -q \in Int
  BY <1>1, <1>2, Left
<1>4. (r + c) % m = (x + c) % m
  BY <1>1, <1>2, <1>3, Congruent
<1> QED
  BY <1>3, <1>4 DEF Value, m, r

\* u64 arithmetic is lost on the machine.
LEMMA ValueWraps ==
  ASSUME frame \in Frames, NEW x \in Int, NEW y \in Int
  PROVE  x % Word \in Int /\ Value(y + (x % Word)) = Value(y + x)
<1> DEFINE m == frame.space
           w == Word \div m
           q == x \div Word
           r == x % Word
<1>1. m \in Nat \ {0} /\ Word \in Nat \ {0} /\ w \in Int /\ Word = m * w
  BY Space
<1>2. r \in 0..(Word - 1) /\ q \in Int /\ x = (Word * q) + r
  BY <1>1, Division
<1> HIDE DEF m, w, q, r
<1>3. /\ y + r = (y + x) + m * (-(w * q)) /\ -(w * q) \in Int
      /\ r \in Int /\ y + r \in Int /\ y + x \in Int
  BY <1>1, <1>2, LeftTwice
<1>4. \E k \in Int : y + r = (y + x) + m * k
  BY <1>3
<1>5. (y + r) % m = (y + x) % m
  BY <1>1, <1>3, <1>4, SameValue
<1> QED
  BY <1>3, <1>5 DEF Value, m, r

\* Cutting to an address (the code's addr_mask) is lost on the machine.
LEMMA ValueMasked ==
  ASSUME frame \in Frames, NEW x \in Int, NEW y \in Int
  PROVE  Masked(x) \in Int /\ Value(y + Masked(x)) = Value(y + x)
<1> DEFINE r == x % Word
<1>1. r \in Int /\ Value(y + r) = Value(y + x)
  BY ValueWraps
<1>2. Masked(x) = Value(r)
  BY DEF Masked, Value
<1> HIDE DEF r
<1>3. Value(r) \in Int /\ Value(Value(r) + y) = Value(r + y)
  BY <1>1, ValueSum
<1>4. Value(r) + y = y + Value(r) /\ r + y = y + r
  BY <1>1, <1>3
<1> QED
  BY <1>1, <1>2, <1>3, <1>4

\* So is reading a u64 as an i64.
LEMMA ValueSigned ==
  ASSUME frame \in Frames, NEW x \in Int, NEW y \in Int
  PROVE  Signed(x) \in Int /\ Value(y + Signed(x)) = Value(y + x)
<1> DEFINE m == frame.space
           w == Word \div m
<1>1. m \in Nat \ {0} /\ Word \in Nat \ {0} /\ w \in Int /\ Word = m * w
  BY Space
<1>2. Signed(x) = x \/ Signed(x) = x - Word
  BY DEF Signed
<1> HIDE DEF m, w
<1>3. m * (-w) = -(m * w) /\ -w \in Int
  BY <1>1
<1>4. /\ y + (x - Word) = (y + x) + m * (-w) /\ x - Word \in Int
      /\ y + (x - Word) \in Int /\ y + x \in Int
  BY <1>1, <1>3
<1>5. \E k \in Int : y + (x - Word) = (y + x) + m * k
  BY <1>3, <1>4
<1>6. (y + (x - Word)) % m = (y + x) % m
  BY <1>1, <1>4, <1>5, SameValue
<1> QED
  BY <1>1, <1>2, <1>4, <1>6 DEF Value, m

-----------------------------------------------------------------------------
(* A location on the stack and the value on the stack of the standard.     *)

StackKinds == {"Literal", "Address", "RegisterOffset", "FrameOffset", "CfaOffset",
               "TlsOffset", "Other"}

Base(l) == CASE l.kind = "RegisterOffset" -> frame.reg[l.reg]
             [] l.kind = "FrameOffset" -> frame.fb
             [] l.kind = "CfaOffset" -> frame.cfa
             [] l.kind = "TlsOffset" -> frame.tls
             [] OTHER -> 0

Stands(l, v) ==
  /\ v \in Int
  /\ l = Loc(l.kind, l.reg, l.value) /\ l.kind \in StackKinds
  /\ l.kind # "Other" => /\ l.value \in Int /\ Base(l) \in Int
                         /\ v = Value(Base(l) + l.value)

\* The bases of a frame are numbers.
LEMMA FrameValues ==
  ASSUME frame \in Frames
  PROVE  frame.fb \in Int /\ frame.cfa \in Int /\ frame.tls \in Int /\ frame.unknown \in Int
BY FramesAssumption

\* So is every value.
LEMMA ValueInt ==
  ASSUME frame \in Frames, NEW x \in Int
  PROVE  Value(x) \in Int
BY ValueSum

\* What stands for a value denotes it, as an address and as the variable's value.
LEMMA StandsDenotes ==
  ASSUME NEW l, NEW v, Stands(l, v), NEW where \in {"memory", "value"}
  PROVE  Denotes(l, RealPlace(where, v))
<1>1. CASE l.kind = "Other"
  BY <1>1 DEF Denotes
<1>2. CASE l.kind \in {"Literal", "Address"}
  <2>1. v = Value(0 + l.value) /\ l.value \in Int
    BY <1>2 DEF Stands, Base
  <2>2. 0 + l.value = l.value
    BY <2>1
  <2>3. v = Value(l.value)
    BY <2>1, <2>2
  <2> QED
    BY <1>2, <2>3 DEF Denotes, RealPlace
<1>3. CASE l.kind \in {"RegisterOffset", "FrameOffset", "CfaOffset", "TlsOffset"}
  BY <1>3 DEF Stands, Base, Denotes, RealPlace
<1> QED
  BY <1>1, <1>2, <1>3 DEF Stands, StackKinds

\* What the code does not claim to know stands for any value.
LEMMA OtherStands ==
  ASSUME NEW v \in Int
  PROVE  Stands(Other, v)
BY DEF Stands, Other, Loc, StackKinds

\* An operation that pushes: it has no operand that counts.
LEMMA PushedStands ==
  ASSUME frame \in Frames, NEW op \in Operations
  PROVE  Stands(Pushed(op), RealPushed(op))
<1>1. /\ frame.fb \in Int /\ frame.cfa \in Int /\ frame.tls \in Int
      /\ frame.unknown \in Int /\ op.value \in Int
  BY FrameValues, OperationsAssumption
<1>2. CASE op.name = "const"
  <2> DEFINE l == Loc("Literal", 0, op.value % Word)
  <2>1. 0 \in Int
    OBVIOUS
  <2>2. op.value % Word \in Int /\ Value(0 + (op.value % Word)) = Value(0 + op.value)
    BY <1>1, <2>1, ValueWraps
  <2>3. 0 + op.value = op.value
    BY <1>1
  <2>4. Value(op.value) \in Int
    BY <1>1, ValueInt
  <2>5. Pushed(op) = l /\ RealPushed(op) = Value(op.value)
    BY <1>2 DEF Pushed, RealPushed
  <2>6. Base(l) = 0 /\ l.value = op.value % Word /\ l.kind = "Literal" /\ l = Loc(l.kind, l.reg, l.value)
    BY DEF Base, Loc
  <2> HIDE DEF l
  <2> QED
    BY <2>2, <2>3, <2>4, <2>5, <2>6 DEF Stands, StackKinds
<1>3. CASE op.name = "address"
  <2> DEFINE l == Loc("Address", 0, op.value)
  <2>1. 0 + op.value = op.value
    BY <1>1
  <2>2. Value(op.value) \in Int
    BY <1>1, ValueInt
  <2>3. Pushed(op) = l /\ RealPushed(op) = Value(op.value)
    BY <1>3 DEF Pushed, RealPushed
  <2>4. Base(l) = 0 /\ l.value = op.value /\ l.kind = "Address" /\ l = Loc(l.kind, l.reg, l.value)
    BY DEF Base, Loc
  <2> HIDE DEF l
  <2> QED
    BY <1>1, <2>1, <2>2, <2>3, <2>4 DEF Stands, StackKinds
<1>4. ASSUME NEW kind \in {"RegisterOffset", "FrameOffset", "CfaOffset"}, NEW reg, NEW x \in Int,
             NEW b \in Int, Base(Loc(kind, reg, x)) = b,
             Pushed(op) = Loc(kind, reg, x), RealPushed(op) = Value(b + x)
      PROVE  Stands(Pushed(op), RealPushed(op))
  <2>1. Value(b + x) \in Int
    BY ValueInt
  <2> QED
    BY <1>4, <2>1 DEF Stands, StackKinds, Loc
<1>5. CASE op.name = "breg"
  <2>1. frame.reg[op.reg] \in Int
    BY <1>5, OperationsAssumption
  <2> QED
    BY <1>1, <1>4, <1>5, <2>1 DEF Pushed, RealPushed, Base, Loc
<1>6. CASE op.name = "fbreg"
  BY <1>1, <1>4, <1>6 DEF Pushed, RealPushed, Base, Loc
<1>7. CASE op.name = "cfa"
  <2>1. frame.cfa + 0 = frame.cfa
    BY <1>1
  <2> QED
    BY <1>1, <1>4, <1>7, <2>1 DEF Pushed, RealPushed, Base, Loc
<1>8. CASE op.name \notin {"const", "address", "breg", "fbreg", "cfa"}
  <2>1. Pushed(op) = Other /\ RealPushed(op) = Value(frame.unknown)
    BY <1>8 DEF Pushed, RealPushed
  <2>2. Value(frame.unknown) \in Int
    BY <1>1, ValueInt
  <2> QED
    BY <2>1, <2>2, OtherStands
<1> QED
  BY <1>2, <1>3, <1>5, <1>6, <1>7, <1>8

\* DW_OP_plus_uconst, with the wrapping, the mask and the sign of the code.
LEMMA ConstantStands ==
  ASSUME frame \in Frames, NEW l, NEW v, Stands(l, v), NEW c \in Int
  PROVE  Stands(PlusConstant(l, c), Value(v + c))
<1>1. v \in Int /\ l = Loc(l.kind, l.reg, l.value)
  BY DEF Stands
<1>2. Value(v + c) \in Int
  BY <1>1, ValueInt
<1>3. ASSUME l.kind # "Other", NEW x \in Int, PlusConstant(l, c) = [l EXCEPT !.value = x],
             Value(Base(l) + x) = Value(Base(l) + (l.value + c))
      PROVE  Stands(PlusConstant(l, c), Value(v + c))
  <2>1. l.value \in Int /\ Base(l) \in Int /\ v = Value(Base(l) + l.value) /\ l.kind \in StackKinds
    BY <1>3 DEF Stands
  <2>2. Base(l) + l.value \in Int
    BY <2>1
  <2>3. Value(v + c) = Value((Base(l) + l.value) + c)
    BY <2>2, <2>1, ValueSum
  <2>4. (Base(l) + l.value) + c = Base(l) + (l.value + c)
    BY <2>1
  <2> DEFINE k == Loc(l.kind, l.reg, x)
  <2>5. [l EXCEPT !.value = x] = k
    BY <1>1 DEF Loc
  <2>6. k.kind = l.kind /\ k.reg = l.reg /\ k.value = x /\ Base(k) = Base(l)
    BY DEF Loc, Base
  <2> HIDE DEF k
  <2>7. Value(v + c) = Value(Base(k) + k.value)
    BY <1>3, <2>3, <2>4, <2>6
  <2>8. k = Loc(k.kind, k.reg, k.value)
    BY <2>6 DEF k
  <2> QED
    BY <1>2, <1>3, <2>1, <2>5, <2>6, <2>7, <2>8 DEF Stands
<1>4. CASE l.kind = "Literal"
  <2>1. l.value \in Int /\ Base(l) \in Int
    BY <1>4 DEF Stands
  <2>2. l.value + c \in Int
    BY <2>1
  <2>3. Masked(l.value + c) \in Int
        /\ Value(Base(l) + Masked(l.value + c)) = Value(Base(l) + (l.value + c))
    BY <2>1, <2>2, ValueMasked
  <2>4. PlusConstant(l, c) = [l EXCEPT !.value = Masked(l.value + c)]
    BY <1>1, <1>4 DEF PlusConstant, Loc
  <2> QED
    BY <1>3, <1>4, <2>3, <2>4
<1>5. CASE l.kind \in {"RegisterOffset", "FrameOffset", "CfaOffset"}
  <2>1. l.value \in Int /\ Base(l) \in Int
    BY <1>5 DEF Stands
  <2>2. l.value + c \in Int
    BY <2>1
  <2>3. Masked(l.value + c) \in Int
        /\ Value(Base(l) + Masked(l.value + c)) = Value(Base(l) + (l.value + c))
    BY <2>1, <2>2, ValueMasked
  <2>4. Signed(Masked(l.value + c)) \in Int
        /\ Value(Base(l) + Signed(Masked(l.value + c))) = Value(Base(l) + Masked(l.value + c))
    BY <2>1, <2>3, ValueSigned
  <2>5. PlusConstant(l, c) = [l EXCEPT !.value = Signed(Masked(l.value + c))]
    BY <1>1, <1>5 DEF PlusConstant, Loc
  <2> QED
    BY <1>3, <1>5, <2>3, <2>4, <2>5
<1>6. CASE l.kind \notin {"Literal", "RegisterOffset", "FrameOffset", "CfaOffset"}
  <2>1. PlusConstant(l, c) = Other
    BY <1>6 DEF PlusConstant
  <2> QED
    BY <1>2, <2>1, OtherStands
<1> QED
  BY <1>4, <1>5, <1>6

\* DW_OP_form_tls_address.
LEMMA TlsStands ==
  ASSUME frame \in Frames, NEW l, NEW v, Stands(l, v)
  PROVE  Stands(Tls(l), Value(frame.tls + v))
<1>1. v \in Int /\ frame.tls \in Int
  BY FrameValues DEF Stands
<1>2. Value(frame.tls + v) \in Int
  BY <1>1, ValueInt
<1>3. CASE l.kind = "Literal"
  <2>1. l.value \in Int /\ v = Value(0 + l.value)
    BY <1>3 DEF Stands, Base
  <2>2. 0 + l.value = l.value /\ frame.tls + v = v + frame.tls
        /\ l.value + frame.tls = frame.tls + l.value
    BY <1>1, <2>1
  <2>3. Value(Value(l.value) + frame.tls) = Value(l.value + frame.tls)
    BY <1>1, <2>1, ValueSum
  <2>4. Value(frame.tls + v) = Value(frame.tls + l.value)
    BY <2>1, <2>2, <2>3
  <2> DEFINE k == Loc("TlsOffset", 0, l.value)
  <2>5. /\ k.kind = "TlsOffset" /\ k.value = l.value /\ Base(k) = frame.tls
        /\ k = Loc(k.kind, k.reg, k.value)
    BY DEF Base, Loc
  <2>6. Tls(l) = k
    BY <1>3 DEF Tls
  <2> HIDE DEF k
  <2> QED
    BY <1>1, <1>2, <2>1, <2>4, <2>5, <2>6 DEF Stands, StackKinds
<1>4. CASE l.kind # "Literal"
  BY <1>2, <1>4, OtherStands DEF Tls
<1> QED
  BY <1>3, <1>4

-----------------------------------------------------------------------------
(* The two stacks, location for value.                                     *)

Follow(s, t) ==
  /\ IsSeq(s) /\ IsSeq(t) /\ Len(s) = Len(t)
  /\ \A i \in 1..Len(s) : Stands(s[i], t[i])

\* Nothing pushed yet.
LEMMA FollowEmpty == Follow(<<>>, <<>>)
<1>1. \A i : i \notin 1..0
  OBVIOUS
<1> QED
  BY <1>1, SeqEmpty DEF Follow

\* Popping the same number.
LEMMA FollowPrefix ==
  ASSUME NEW s, NEW t, Follow(s, t), NEW n \in 0..Len(s)
  PROVE  Follow(SubSeq(s, 1, n), SubSeq(t, 1, n))
<1>1. Len(s) \in Nat
  BY SeqLen DEF Follow
<1>2. /\ IsSeq(SubSeq(s, 1, n)) /\ Len(SubSeq(s, 1, n)) = n
      /\ \A i \in 1..n : SubSeq(s, 1, n)[i] = s[i]
  BY SeqPrefix DEF Follow
<1>3. /\ IsSeq(SubSeq(t, 1, n)) /\ Len(SubSeq(t, 1, n)) = n
      /\ \A i \in 1..n : SubSeq(t, 1, n)[i] = t[i]
  BY SeqPrefix DEF Follow
<1>4. \A i \in 1..n : i \in 1..Len(s)
  BY <1>1
<1> QED
  BY <1>2, <1>3, <1>4 DEF Follow

\* Pushing a location and what it stands for.
LEMMA FollowAppend ==
  ASSUME NEW s, NEW t, Follow(s, t), NEW l, NEW v, Stands(l, v)
  PROVE  Follow(Append(s, l), Append(t, v))
<1>1. Len(s) \in Nat
  BY SeqLen DEF Follow
<1>2. /\ IsSeq(Append(s, l)) /\ Len(Append(s, l)) = Len(s) + 1
      /\ \A i \in 1..Len(s) : Append(s, l)[i] = s[i]
      /\ Append(s, l)[Len(s) + 1] = l
  BY SeqAppend DEF Follow
<1>3. /\ IsSeq(Append(t, v)) /\ Len(Append(t, v)) = Len(s) + 1
      /\ \A i \in 1..Len(s) : Append(t, v)[i] = t[i]
      /\ Append(t, v)[Len(s) + 1] = v
  BY SeqAppend DEF Follow
<1>4. \A i \in 1..(Len(s) + 1) : i \in 1..Len(s) \/ i = Len(s) + 1
  BY <1>1
<1> QED
  BY <1>2, <1>3, <1>4 DEF Follow

\* Locations that change places stay behind their values.
LEMMA FollowMoved ==
  ASSUME NEW s, NEW t, Follow(s, t), NEW x, IsSeq(x), Len(x) = Len(s),
         NEW y, IsSeq(y), Len(y) = Len(s), NEW from,
         \A i \in 1..Len(s) : from[i] \in 1..Len(s) /\ x[i] = s[from[i]] /\ y[i] = t[from[i]]
  PROVE  Follow(x, y)
BY DEF Follow

\* The pair that DW_OP_swap leaves.
LEMMA SeqTwo ==
  ASSUME NEW a, NEW b
  PROVE  IsSeq(<<a, b>>) /\ Len(<<a, b>>) = 2 /\ <<a, b>>[1] = a /\ <<a, b>>[2] = b
<1>1. <<a, b>> \in Seq({a, b})
  OBVIOUS
<1> QED
  BY <1>1 DEF IsSeq

\* The three that DW_OP_rot leaves.
LEMMA SeqThree ==
  ASSUME NEW a, NEW b, NEW c
  PROVE  /\ IsSeq(<<a, b, c>>) /\ Len(<<a, b, c>>) = 3
         /\ <<a, b, c>>[1] = a /\ <<a, b, c>>[2] = b /\ <<a, b, c>>[3] = c
<1>1. <<a, b, c>> \in Seq({a, b, c})
  OBVIOUS
<1> QED
  BY <1>1 DEF IsSeq

\* Some elements at the end of a sequence, and others there.
LEMMA SeqNewEnd ==
  ASSUME NEW s, IsSeq(s), NEW x, IsSeq(x), NEW k \in Nat, Len(s) = k + Len(x)
  PROVE  /\ IsSeq(SubSeq(s, 1, k) \o x) /\ Len(SubSeq(s, 1, k) \o x) = Len(s)
         /\ \A i \in 1..k : (SubSeq(s, 1, k) \o x)[i] = s[i]
         /\ \A i \in 1..Len(x) : (SubSeq(s, 1, k) \o x)[k + i] = x[i]
<1> DEFINE p == SubSeq(s, 1, k)
           r == p \o x
           m == Len(x)
<1>1. m \in Nat
  BY SeqLen
<1>2. k \in 0..Len(s)
  BY <1>1
<1>3. IsSeq(p) /\ Len(p) = k /\ \A i \in 1..k : p[i] = s[i]
  BY <1>2, SeqPrefix
<1> HIDE DEF p
<1>4. /\ IsSeq(r) /\ Len(r) = k + m
      /\ \A i \in 1..(k + m) : \/ i \in 1..k /\ r[i] = p[i]
                               \/ i - k \in 1..m /\ r[i] = x[i - k]
  BY <1>3, SeqConcat
<1> HIDE DEF r, m
<1>5. \A i \in 1..k : i \in 1..(k + m) /\ i - k \notin 1..m
  BY <1>1
<1>6. \A i \in 1..m : k + i \in 1..(k + m) /\ k + i \notin 1..k /\ (k + i) - k = i
  BY <1>1
<1>7. \A i \in 1..k : r[i] = s[i]
  BY <1>3, <1>4, <1>5
<1>8. ASSUME NEW i \in 1..m
      PROVE  r[k + i] = x[i]
  BY <1>4, <1>6
<1> QED
  BY <1>4, <1>7, <1>8 DEF r, p, m

\* DW_OP_swap.
LEMMA FollowSwap ==
  ASSUME NEW s, NEW t, Follow(s, t), NEW n \in Nat, n = Len(s), n >= 2
  PROVE  Follow(SubSeq(s, 1, n - 2) \o <<s[n], s[n - 1]>>,
                [t EXCEPT ![n] = t[n - 1], ![n - 1] = t[n]])
<1> DEFINE x == SubSeq(s, 1, n - 2) \o <<s[n], s[n - 1]>>
           y == [t EXCEPT ![n] = t[n - 1], ![n - 1] = t[n]]
           from == [i \in 1..n |-> IF i = n THEN n - 1 ELSE IF i = n - 1 THEN n ELSE i]
<1>1. n - 2 \in Nat /\ (n - 2) + 2 = n /\ IsSeq(s) /\ IsSeq(t) /\ Len(t) = n /\ DOMAIN t = 1..n
  BY SeqLen DEF Follow
<1>2. /\ IsSeq(x) /\ Len(x) = n
      /\ \A i \in 1..(n - 2) : x[i] = s[i]
      /\ x[n] = s[n - 1] /\ x[n - 1] = s[n]
  <2> DEFINE z == <<s[n], s[n - 1]>>
  <2>1. IsSeq(z) /\ Len(z) = 2 /\ z[1] = s[n] /\ z[2] = s[n - 1]
    BY SeqTwo
  <2> HIDE DEF z
  <2>2. Len(s) = (n - 2) + Len(z) /\ n - 2 \in Nat
    BY <1>1, <2>1
  <2> DEFINE k == n - 2
             r == SubSeq(s, 1, k) \o z
  <2> HIDE DEF k
  <2>3. /\ IsSeq(r) /\ Len(r) = Len(s)
        /\ \A i \in 1..k : r[i] = s[i]
        /\ \A i \in 1..Len(z) : r[k + i] = z[i]
    <3>1. IsSeq(s) /\ IsSeq(z) /\ k \in Nat /\ Len(s) = k + Len(z)
      BY <1>1, <2>2, <2>1 DEF k
    <3> QED
      BY <3>1, SeqNewEnd
  <2> HIDE DEF r
  <2>4. (n - 2) + 1 = n - 1 /\ (n - 2) + 2 = n /\ 1 \in 1..2 /\ 2 \in 1..2
    BY <1>1
  <2> QED
    BY <2>1, <2>3, <2>4 DEF z, k, r
<1>3. IsSeq(y) /\ Len(y) = n /\ \A i \in 1..n : y[i] = t[from[i]]
  <2>1. PICK T : t \in Seq(T)
    BY <1>1 DEF IsSeq
  <2>2. y \in [1..n -> T] /\ \A i \in 1..n : y[i] = t[from[i]]
    BY <1>1, <2>1
  <2> HIDE DEF y, from
  <2>3. y \in Seq(T) /\ Len(y) = n
    BY <2>2
  <2> QED
    BY <2>2, <2>3 DEF IsSeq
<1> HIDE DEF x, y
<1>4. \A i \in 1..n : i \in 1..(n - 2) \/ i = n - 1 \/ i = n
  BY <1>1
<1>5. \A i \in 1..n : from[i] \in 1..n /\ x[i] = s[from[i]]
  BY <1>1, <1>2, <1>4
<1> HIDE DEF from
<1>6. \A i \in 1..Len(s) : from[i] \in 1..Len(s) /\ x[i] = s[from[i]] /\ y[i] = t[from[i]]
  BY <1>3, <1>5
<1>7. Len(x) = Len(s) /\ Len(y) = Len(s)
  BY <1>2, <1>3
<1>8. Follow(x, y)
  BY <1>2, <1>3, <1>6, <1>7, FollowMoved
<1> QED
  BY <1>8 DEF x, y

\* DW_OP_rot.
LEMMA FollowRot ==
  ASSUME NEW s, NEW t, Follow(s, t), NEW n \in Nat, n = Len(s), n >= 3
  PROVE  Follow(SubSeq(s, 1, n - 3) \o <<s[n], s[n - 2], s[n - 1]>>,
                [t EXCEPT ![n - 2] = t[n], ![n] = t[n - 1], ![n - 1] = t[n - 2]])
<1> DEFINE x == SubSeq(s, 1, n - 3) \o <<s[n], s[n - 2], s[n - 1]>>
           y == [t EXCEPT ![n - 2] = t[n], ![n] = t[n - 1], ![n - 1] = t[n - 2]]
           from == [i \in 1..n |-> IF i = n THEN n - 1 ELSE IF i = n - 1 THEN n - 2
                                   ELSE IF i = n - 2 THEN n ELSE i]
<1>1. n - 3 \in Nat /\ (n - 3) + 3 = n /\ IsSeq(s) /\ IsSeq(t) /\ Len(t) = n /\ DOMAIN t = 1..n
  BY SeqLen DEF Follow
<1>2. /\ IsSeq(x) /\ Len(x) = n
      /\ \A i \in 1..(n - 3) : x[i] = s[i]
      /\ x[n] = s[n - 1] /\ x[n - 1] = s[n - 2] /\ x[n - 2] = s[n]
  <2> DEFINE z == <<s[n], s[n - 2], s[n - 1]>>
  <2>1. IsSeq(z) /\ Len(z) = 3 /\ z[1] = s[n] /\ z[2] = s[n - 2] /\ z[3] = s[n - 1]
    BY SeqThree
  <2> HIDE DEF z
  <2>2. Len(s) = (n - 3) + Len(z) /\ n - 3 \in Nat
    BY <1>1, <2>1
  <2> DEFINE k == n - 3
             r == SubSeq(s, 1, k) \o z
  <2> HIDE DEF k
  <2>3. /\ IsSeq(r) /\ Len(r) = Len(s)
        /\ \A i \in 1..k : r[i] = s[i]
        /\ \A i \in 1..Len(z) : r[k + i] = z[i]
    <3>1. IsSeq(s) /\ IsSeq(z) /\ k \in Nat /\ Len(s) = k + Len(z)
      BY <1>1, <2>2, <2>1 DEF k
    <3> QED
      BY <3>1, SeqNewEnd
  <2> HIDE DEF r
  <2>4. /\ (n - 3) + 1 = n - 2 /\ (n - 3) + 2 = n - 1 /\ (n - 3) + 3 = n
        /\ 1 \in 1..3 /\ 2 \in 1..3 /\ 3 \in 1..3
    BY <1>1
  <2>5. x = r
    BY DEF z, k, r
  <2> HIDE DEF x
  <2>6. IsSeq(x) /\ Len(x) = n /\ \A i \in 1..(n - 3) : x[i] = s[i]
    BY <2>3, <2>5 DEF k
  <2>7. x[n - 2] = s[n] /\ x[n - 1] = s[n - 2] /\ x[n] = s[n - 1]
    <3>1. r[(n - 3) + 1] = z[1] /\ r[(n - 3) + 2] = z[2] /\ r[(n - 3) + 3] = z[3]
      BY <2>1, <2>3, <2>4 DEF k
    <3> QED
      BY <2>1, <2>4, <2>5, <3>1
  <2> QED
    BY <2>6, <2>7
<1>3. IsSeq(y) /\ Len(y) = n /\ \A i \in 1..n : y[i] = t[from[i]]
  <2>1. PICK T : t \in Seq(T)
    BY <1>1 DEF IsSeq
  <2>2. y \in [1..n -> T] /\ \A i \in 1..n : y[i] = t[from[i]]
    BY <1>1, <2>1
  <2> HIDE DEF y, from
  <2>3. y \in Seq(T) /\ Len(y) = n
    BY <2>2
  <2> QED
    BY <2>2, <2>3 DEF IsSeq
<1> HIDE DEF x, y
<1>4. \A i \in 1..n : i \in 1..(n - 3) \/ i = n - 2 \/ i = n - 1 \/ i = n
  BY <1>1
<1>5. \A i \in 1..n : from[i] \in 1..n /\ x[i] = s[from[i]]
  BY <1>1, <1>2, <1>4
<1> HIDE DEF from
<1>6. \A i \in 1..Len(s) : from[i] \in 1..Len(s) /\ x[i] = s[from[i]] /\ y[i] = t[from[i]]
  BY <1>3, <1>5
<1>7. IsSeq(x) /\ Len(x) = Len(s) /\ IsSeq(y) /\ Len(y) = Len(s)
  BY <1>2, <1>3
<1>8. Follow(x, y)
  BY <1>6, <1>7 DEF Follow
<1> QED
  BY <1>8 DEF x, y

\* What an operation leaves on the two stacks, if it is no sum and no difference.
LEMMA FollowEffect ==
  ASSUME frame \in Frames, NEW op \in Operations, op.name \notin {"plus", "minus"},
         NEW s, NEW t, Follow(s, t), Len(s) >= Operands(op)
  PROVE  Follow(Effect(op, s), RealEffect(op, t))
<1> DEFINE n == Len(s)
<1>1. n \in Nat /\ Len(t) = n /\ n >= Operands(op) /\ op.value \in Int
      /\ (op.name = "pick" => op.value \in Nat)
  BY SeqLen, OperationsAssumption DEF Follow
<1>2. Operands(op) \in 0..n
  BY <1>1 DEF Operands
<1>3. \A k \in 0..n : Follow(SubSeq(s, 1, n - k), SubSeq(t, 1, n - k))
  <2>1. \A k \in 0..n : n - k \in 0..n
    BY <1>1
  <2> QED
    BY <2>1, FollowPrefix
<1>4. \A i \in 1..n : Stands(s[i], t[i])
  BY DEF Follow
<1>5. ~(n < Operands(op))
  BY <1>1, <1>2
<1>6. CASE op.name \in {"nop", "drop"}
  BY <1>1, <1>2, <1>3, <1>5, <1>6 DEF Effect, RealEffect
<1>7. CASE op.name = "swap"
  <2>1. n >= 2
    BY <1>1, <1>7 DEF Operands
  <2> QED
    BY <1>1, <1>5, <1>7, <2>1, FollowSwap DEF Effect, RealEffect
<1>8. CASE op.name = "rot"
  <2>1. n >= 3
    BY <1>1, <1>8 DEF Operands
  <2> QED
    BY <1>1, <1>5, <1>8, <2>1, FollowRot DEF Effect, RealEffect
<1>9. CASE op.name = "pick"
  <2>1. Operands(op) = op.value + 1
    BY <1>9 DEF Operands
  <2>2. n - op.value \in 1..n
    BY <1>1, <1>9, <2>1
  <2>3. Follow(Append(s, s[n - op.value]), Append(t, t[n - op.value]))
    BY <1>4, <2>2, FollowAppend
  <2> QED
    BY <1>1, <1>5, <1>9, <2>3 DEF Effect, RealEffect
<1>10. CASE op.name \in {"plus_uconst", "tls"}
  <2>1. Operands(op) = 1
    BY <1>10 DEF Operands
  <2>2. n \in 1..n /\ 1 \in 0..n
    BY <1>1, <2>1
  <2>3. Stands(s[n], t[n])
    BY <1>4, <2>2
  <2>4. /\ Stands(PlusConstant(s[n], op.value), Value(t[n] + op.value))
        /\ Stands(Tls(s[n]), Value(frame.tls + t[n]))
    BY <1>1, <2>3, ConstantStands, TlsStands
  <2> DEFINE r == SubSeq(s, 1, n - 1)
             u == SubSeq(t, 1, n - 1)
  <2>5. Follow(r, u)
    BY <1>3, <2>2
  <2>6. /\ op.name = "plus_uconst" => /\ Effect(op, s) = Append(r, PlusConstant(s[n], op.value))
                                      /\ RealEffect(op, t) = Append(u, Value(t[n] + op.value))
        /\ op.name = "tls" => /\ Effect(op, s) = Append(r, Tls(s[n]))
                              /\ RealEffect(op, t) = Append(u, Value(frame.tls + t[n]))
    BY <1>1, <1>5, <2>1 DEF Effect, RealEffect
  <2> HIDE DEF r, u, n
  <2> QED
    BY <1>10, <2>4, <2>5, <2>6, FollowAppend
<1>11. CASE op.name \notin {"nop", "drop", "swap", "rot", "pick", "plus_uconst", "tls"}
  <2> DEFINE r == SubSeq(s, 1, n - Operands(op))
             u == SubSeq(t, 1, n - Operands(op))
  <2>1. Follow(r, u)
    BY <1>2, <1>3
  <2>2. Effect(op, s) = Append(r, Pushed(op)) /\ RealEffect(op, t) = Append(u, RealPushed(op))
    BY <1>1, <1>5, <1>11 DEF Effect, RealEffect
  <2> HIDE DEF r, u
  <2> QED
    BY <2>1, <2>2, PushedStands, FollowAppend
<1> QED
  BY <1>6, <1>7, <1>8, <1>9, <1>10, <1>11

-----------------------------------------------------------------------------
(* A piece without a size stands alone.                                    *)

\* The entries that a location list's expression gives.
Given(e, ps) == [k \in DOMAIN ps |-> <<e, ps[k]>>]

\* They are as many as the expression has pieces, each with its entry's number.
LEMMA Entries ==
  ASSUME NEW e, NEW ps, IsSeq(ps)
  PROVE  /\ IsSeq(Given(e, ps)) /\ Len(Given(e, ps)) = Len(ps)
         /\ \A k \in 1..Len(ps) : Given(e, ps)[k] = <<e, ps[k]>>
<1> DEFINE r == Given(e, ps)
           S == {<<e, ps[k]>> : k \in DOMAIN ps}
<1>1. Len(ps) \in Nat /\ DOMAIN ps = 1..Len(ps)
  BY SeqLen
<1>2. \A k \in 1..Len(ps) : r[k] = <<e, ps[k]>>
  BY <1>1 DEF Given
<1>3. r \in [1..Len(ps) -> S]
  BY <1>1 DEF Given
<1> HIDE DEF r, S
<1>4. r \in Seq(S) /\ Len(r) = Len(ps)
  BY <1>1, <1>3
<1> QED
  BY <1>2, <1>4 DEF IsSeq, r

Sized == \A i \in 1..Len(pieces) : pieces[i].size # Unknown
WholeInv ==
  /\ expression \in Nat
  /\ IsSeq(pieces) /\ IsSeq(variable.locations)
  /\ Sized \/ (Len(pieces) = 1 /\ progress # "reading")
  /\ \A i \in 1..Len(variable.locations) : /\ variable.locations[i][1] \in Nat
                                           /\ variable.locations[i][1] < expression
  /\ WholeStandsAlone

\* No pieces yet.
LEMMA WholeInit == LocationInit => WholeInv
<1> SUFFICES ASSUME LocationInit
             PROVE  WholeInv
  OBVIOUS
<1>1. \A i : i \notin 1..0
  OBVIOUS
<1>2. pieces = <<>> /\ variable.locations = <<>> /\ expression = 1
  BY DEF LocationInit
<1> QED
  BY <1>1, <1>2, SeqEmpty DEF WholeInv, Sized, WholeStandsAlone

\* One piece more.
LEMMA PushedLast ==
  ASSUME IsSeq(pieces), NEW loc, NEW isValue, NEW size, NEW off,
         PushPiece(loc, isValue, size, off)
  PROVE  /\ IsSeq(pieces') /\ Len(pieces') = Len(pieces) + 1
         /\ \A i \in 1..Len(pieces) : pieces'[i] = pieces[i]
         /\ pieces'[Len(pieces) + 1] = Piece(nextBit, size, loc, off, isValue)
BY SeqAppend DEF PushPiece

\* Only DW_OP_piece, the end of an expression and the collection touch the pieces.
LEMMA WholeStep ==
  ASSUME WholeInv, [LocationNext]_locationVars
  PROVE  WholeInv'
<1>1. Len(pieces) \in Nat /\ IsSeq(pieces) /\ IsSeq(variable.locations) /\ expression \in Nat
      /\ Len(variable.locations) \in Nat
  BY SeqLen DEF WholeInv
<1>2. CASE pieces' = pieces /\ UNCHANGED <<variable, expression>>
           /\ (progress' = progress \/ progress = "reading")
  BY <1>2 DEF WholeInv, Sized, WholeStandsAlone
<1>3. CASE \E op \in Operations : AddPiece(op)
  <2> PICK op \in Operations : AddPiece(op)
    BY <1>3
  <2>1. op.size # Unknown
    BY OperationsAssumption DEF Unknown
  <2>2. PICK loc, isValue : PushPiece(loc, isValue, op.size, op.off)
    BY DEF AddPiece
  <2>3. progress = "reading" /\ UNCHANGED <<variable, expression>>
    BY DEF AddPiece, Reads
  <2>4. Sized
    BY <2>3 DEF WholeInv
  <2>5. \A i \in 1..(Len(pieces) + 1) : i \in 1..Len(pieces) \/ i = Len(pieces) + 1
    BY <1>1
  <2>6. IsSeq(pieces') /\ Sized'
    <3>1. /\ IsSeq(pieces') /\ Len(pieces') = Len(pieces) + 1
          /\ \A i \in 1..Len(pieces) : pieces'[i] = pieces[i]
          /\ pieces'[Len(pieces) + 1] = Piece(nextBit, op.size, loc, op.off, isValue)
      BY <1>1, <2>2, PushedLast
    <3>2. pieces'[Len(pieces) + 1].size = op.size
      BY <3>1 DEF Piece
    <3> QED
      BY <2>1, <2>4, <2>5, <3>1, <3>2 DEF Sized
  <2> QED
    BY <2>3, <2>6 DEF WholeInv, WholeStandsAlone
<1>4. CASE EndExpression
  <2>1. progress = "reading" /\ progress' # "reading" /\ UNCHANGED <<variable, expression>>
    BY <1>4 DEF EndExpression
  <2>2. CASE pieces' = pieces
    BY <1>2, <2>1, <2>2
  <2>3. CASE pieces = <<>> /\ (placed.some \/ stack # <<>>)
    <3>1. PICK loc, isValue : PushPiece(loc, isValue, Unknown, 0)
      BY <1>4, <2>3 DEF EndExpression
    <3>2. IsSeq(pieces') /\ Len(pieces') = 1
      BY <1>1, <2>3, <3>1, PushedLast, SeqEmpty
    <3> QED
      BY <2>1, <3>2 DEF WholeInv, WholeStandsAlone
  <2> QED
    BY <1>4, <2>2, <2>3 DEF EndExpression
<1>5. CASE Collect
  <2> DEFINE old == variable.locations
             new == Given(expression, pieces)
  <2>1. pieces' = <<>> /\ expression' = expression + 1
    BY <1>5 DEF Collect
  <2>2. \A i : i \notin 1..0
    OBVIOUS
  <2>3. IsSeq(pieces') /\ Sized'
    BY <2>1, <2>2, SeqEmpty DEF Sized
  <2>4. CASE variable' = variable
    <3>1. \A i \in 1..Len(variable.locations) : /\ variable.locations[i][1] \in Nat
                                                /\ variable.locations[i][1] < expression + 1
      BY <1>1 DEF WholeInv
    <3>2. WholeStandsAlone'
      BY <2>4 DEF WholeInv, WholeStandsAlone
    <3>3. IsSeq(variable.locations) /\ expression + 1 \in Nat
      BY DEF WholeInv
    <3> QED
      BY <2>1, <2>3, <2>4, <3>1, <3>2, <3>3 DEF WholeInv
  <2>5. CASE variable'.locations = old \o new
    <3> DEFINE all == variable'.locations
    <3>1. all = old \o new
      BY <2>5
    <3>2. /\ IsSeq(new) /\ Len(new) = Len(pieces)
          /\ \A k \in 1..Len(pieces) : new[k] = <<expression, pieces[k]>>
      BY <1>1, Entries
    <3> HIDE DEF new
    <3>3. /\ IsSeq(old \o new) /\ Len(old \o new) = Len(old) + Len(new)
           /\ \A i \in 1..Len(old \o new) :
                \/ i \in 1..Len(old) /\ (old \o new)[i] = old[i]
                \/ i - Len(old) \in 1..Len(new) /\ (old \o new)[i] = new[i - Len(old)]
      BY <1>1, <3>2, SeqConcat
    <3>4. /\ IsSeq(all) /\ Len(all) = Len(old) + Len(pieces)
          /\ \A i \in 1..Len(all) :
               \/ i \in 1..Len(old) /\ all[i] = old[i]
               \/ i - Len(old) \in 1..Len(pieces) /\ all[i] = new[i - Len(old)]
      BY <3>2, <3>1, <3>3
    <3> HIDE DEF all
    <3>5. ASSUME NEW i \in 1..Len(all)
          PROVE  \/ i \in 1..Len(old) /\ all[i] = old[i]
                 \/ /\ i - Len(old) \in 1..Len(pieces)
                    /\ all[i] = <<expression, pieces[i - Len(old)]>>
      BY <3>2, <3>4
    <3>6. \A i \in 1..Len(old) : old[i][1] \in Nat /\ old[i][1] < expression
      BY DEF WholeInv
    <3>7. ASSUME NEW i \in 1..Len(all)
          PROVE  all[i][1] \in Nat /\ all[i][1] < expression + 1
      BY <1>1, <3>5, <3>6
    <3>8. ASSUME NEW j \in 1..Len(all), NEW k \in 1..Len(all), j # k, all[j][1] = all[k][1]
          PROVE  all[j][2].size # Unknown
      <4>1. CASE j \in 1..Len(old) /\ all[j] = old[j]
        <5>1. k \in 1..Len(old) /\ all[k] = old[k]
          BY <1>1, <3>5, <3>6, <3>8, <4>1
        <5> QED
          BY <3>8, <4>1, <5>1 DEF WholeInv, WholeStandsAlone
      <4>2. CASE /\ j - Len(old) \in 1..Len(pieces)
                 /\ all[j] = <<expression, pieces[j - Len(old)]>>
        <5>1. all[k][1] = expression
          BY <3>8, <4>2
        <5>2. k - Len(old) \in 1..Len(pieces)
          <6>1. CASE k \in 1..Len(old) /\ all[k] = old[k]
            BY <1>1, <3>6, <5>1, <6>1
          <6> QED
            BY <3>5, <6>1
        <5>3. Len(pieces) # 1
          <6>1. j \in Int /\ k \in Int /\ Len(old) \in Int
            BY <1>1, <3>4, SeqLen
          <6>2. j - Len(old) # k - Len(old)
            BY <3>8, <6>1
          <6>3. \A i \in 1..1 : i = 1
            OBVIOUS
          <6> QED
            BY <4>2, <5>2, <6>2, <6>3
        <5> QED
          BY <4>2, <5>3 DEF WholeInv, Sized
      <4> QED
        BY <3>5, <4>1, <4>2
    <3>9. WholeStandsAlone'
      BY <3>8 DEF WholeStandsAlone, all
    <3>10. /\ IsSeq(variable.locations)'
          /\ (\A i \in 1..Len(variable.locations) : /\ variable.locations[i][1] \in Nat
                                                    /\ variable.locations[i][1] < expression)'
      BY <2>1, <3>4, <3>7 DEF all, IsSeq
    <3> QED
      BY <1>1, <2>1, <2>3, <3>9, <3>10 DEF WholeInv
  <2> QED
    BY <1>5, <2>4, <2>5 DEF Collect, Collected, Given
<1>6. CASE Unreadable \/ UNCHANGED locationVars
           \/ \E op \in Operations : Compute(op) \/ Place(op) \/ Branch(op) \/ Malformed(op)
  BY <1>2, <1>6 DEF Unreadable, locationVars, Compute, Place, Branch, Malformed, Reads
<1> QED
  BY <1>3, <1>4, <1>5, <1>6 DEF LocationNext

\* A piece without a size is the only one of its expression, whatever the operations
\* and however many entries the location list has.
THEOREM WholeAlone == LocationSpec => []WholeStandsAlone
<1>1. LocationInit => WholeInv
  BY WholeInit
<1>2. WholeInv /\ [LocationNext]_locationVars => WholeInv'
  BY WholeStep
<1>3. WholeInv => WholeStandsAlone
  BY DEF WholeInv
<1> QED
  BY <1>1, <1>2, <1>3, PTL DEF LocationSpec

-----------------------------------------------------------------------------
(* The stack follows the standard's, and so do the pieces taken from it.   *)

NoSums == \A op \in Operations : op.name \notin {"plus", "minus"}

Matches(loc, isValue, place) ==
  Denotes(loc, place) /\ (loc.kind # "Other" => (isValue <=> place.where = "value"))
PieceMatches(p, r) ==
  p.bit = r.bit /\ p.size = r.size /\ p.off = r.off /\ Matches(p.loc, p.isValue, r.place)

RealEnd == IF Len(real.pieces) = 0 THEN 0
           ELSE real.pieces[Len(real.pieces)].bit + real.pieces[Len(real.pieces)].size

StackInv == Follow(stack, real.stack)
PlacedInv == placed.some => Matches(placed.loc, placed.isValue, real.placed)
PiecesInv ==
  /\ IsSeq(pieces) /\ IsSeq(real.pieces) /\ Len(pieces) = Len(real.pieces)
  /\ \A i \in 1..Len(pieces) : PieceMatches(pieces[i], real.pieces[i])
  /\ Len(pieces) > 0 => pieces[1].bit = 0
  /\ progress = "reading" => nextBit = RealEnd
VariableInv ==
  /\ IsSeq(variable.locations) /\ IsSeq(variable.real)
  /\ Len(variable.locations) = Len(variable.real)
  /\ \A k \in 1..Len(variable.locations) :
       /\ PieceMatches(variable.locations[k][2], variable.real[k][2])
       /\ variable.locations[k][2].bit # 0 =>
            k > 1 /\ variable.locations[k - 1][1] = variable.locations[k][1]

LocationInv ==
  /\ frame \in Frames
  /\ real = [stack |-> real.stack, placed |-> real.placed, pieces |-> real.pieces]
  /\ StackInv /\ PlacedInv /\ PiecesInv /\ VariableInv

\* Both machines are empty.
LEMMA LocationInvInit == LocationInit => LocationInv
<1> SUFFICES ASSUME LocationInit
             PROVE  LocationInv
  OBVIOUS
<1> USE DEF LocationInit
<1>1. real = FreshReal /\ real.stack = <<>> /\ real.pieces = <<>>
  BY DEF FreshReal
<1>2. real = [stack |-> real.stack, placed |-> real.placed, pieces |-> real.pieces]
  BY <1>1 DEF FreshReal
<1>3. \A i : i \notin 1..0
  OBVIOUS
<1>4. StackInv
  BY <1>1, FollowEmpty DEF StackInv
<1>5. PlacedInv
  BY DEF PlacedInv, Nothing
<1>6. PiecesInv
  BY <1>1, <1>3, SeqEmpty DEF PiecesInv, RealEnd
<1>7. VariableInv
  BY <1>3, SeqEmpty DEF VariableInv
<1> QED
  BY <1>2, <1>4, <1>5, <1>6, <1>7 DEF LocationInv

\* The frame does not change, so a location denotes what it did.
LEMMA StackKept ==
  ASSUME UNCHANGED frame, Follow(stack', real'.stack)
  PROVE  StackInv'
BY DEF StackInv, Follow, Stands, Base, Value, IsSeq

\* The same of what was placed.
LEMMA PlacedKept ==
  ASSUME UNCHANGED frame, placed'.some => Matches(placed'.loc, placed'.isValue, real'.placed)
  PROVE  PlacedInv'
BY DEF PlacedInv, Matches, Denotes, Value

PiecesMatch(ps, rs) ==
  /\ IsSeq(ps) /\ IsSeq(rs) /\ Len(ps) = Len(rs)
  /\ \A i \in 1..Len(ps) : PieceMatches(ps[i], rs[i])
  /\ Len(ps) > 0 => ps[1].bit = 0

\* And of the pieces.
LEMMA PiecesKept ==
  ASSUME UNCHANGED frame, PiecesMatch(pieces', real'.pieces),
         progress' = "reading" => nextBit' = RealEnd'
  PROVE  PiecesInv'
BY DEF PiecesInv, PiecesMatch, PieceMatches, Matches, Denotes, Value, IsSeq

EntriesMatch(ls, rs) ==
  /\ IsSeq(ls) /\ IsSeq(rs) /\ Len(ls) = Len(rs)
  /\ \A k \in 1..Len(ls) :
       /\ PieceMatches(ls[k][2], rs[k][2])
       /\ ls[k][2].bit # 0 => k > 1 /\ ls[k - 1][1] = ls[k][1]

\* And of what the variable has.
LEMMA EntriesKept ==
  ASSUME UNCHANGED frame, EntriesMatch(variable'.locations, variable'.real)
  PROVE  VariableInv'
<1>1. \A loc, place : Denotes(loc, place)' <=> Denotes(loc, place)
  BY DEF Denotes, Value
<1>2. \A p, r : PieceMatches(p, r)' <=> PieceMatches(p, r)
  BY <1>1 DEF PieceMatches, Matches
<1> QED
  BY <1>2 DEF VariableInv, EntriesMatch, IsSeq

\* A piece of the code and one of the standard, side by side.
LEMMA PieceAdded ==
  ASSUME PiecesInv, progress = "reading", NEW loc, NEW isValue, NEW size, NEW off, NEW place,
         Matches(loc, isValue, place), PushPiece(loc, isValue, size, off),
         real'.pieces = WithRealPiece(place, size, off)
  PROVE  PiecesMatch(pieces', real'.pieces) /\ (size # Unknown => nextBit' = RealEnd')
<1> DEFINE n == Len(pieces)
           p == Piece(nextBit, size, loc, off, isValue)
           r == [place |-> place, size |-> size, off |-> off, bit |-> nextBit]
<1>1. n \in Nat /\ IsSeq(pieces) /\ IsSeq(real.pieces) /\ Len(real.pieces) = n
  BY SeqLen DEF PiecesInv
<1>2. pieces' = Append(pieces, p) /\ nextBit' = nextBit + Bits(size)
  BY DEF PushPiece
<1>3. real'.pieces = Append(real.pieces, r)
  BY DEF PiecesInv, RealEnd, WithRealPiece
<1>4. PieceMatches(p, r) /\ p.bit = nextBit /\ r.bit = nextBit /\ r.size = size
  BY DEF PieceMatches, Piece
<1> HIDE DEF p, r
<1>5. /\ IsSeq(pieces') /\ Len(pieces') = n + 1
      /\ \A i \in 1..n : pieces'[i] = pieces[i]
      /\ pieces'[n + 1] = p
  BY <1>1, <1>2, SeqAppend
<1>6. /\ IsSeq(real'.pieces) /\ Len(real'.pieces) = n + 1
      /\ \A i \in 1..n : real'.pieces[i] = real.pieces[i]
      /\ real'.pieces[n + 1] = r
  BY <1>1, <1>3, SeqAppend
<1>7. \A i \in 1..(n + 1) : i \in 1..n \/ i = n + 1
  BY <1>1
<1>8. \A i \in 1..n : PieceMatches(pieces[i], real.pieces[i])
  BY DEF PiecesInv
<1>9. \A i \in 1..(n + 1) : PieceMatches(pieces'[i], real'.pieces[i])
  BY <1>4, <1>5, <1>6, <1>7, <1>8
<1>10. pieces'[1].bit = 0
  <2>1. CASE n = 0
    BY <1>1, <1>4, <1>5, <2>1 DEF PiecesInv, RealEnd
  <2>2. CASE n # 0
    <3>1. 1 \in 1..n /\ n > 0
      BY <1>1, <2>2
    <3> QED
      BY <1>5, <3>1 DEF PiecesInv
  <2> QED
    BY <2>1, <2>2
<1>11. ASSUME size # Unknown
       PROVE  nextBit' = RealEnd'
  <2>1. Bits(size) = size /\ n + 1 # 0
    BY <1>1, <1>11 DEF Bits
  <2> QED
    BY <1>2, <1>4, <1>6, <2>1 DEF RealEnd
<1> QED
  BY <1>5, <1>6, <1>9, <1>10, <1>11 DEF PiecesMatch

\* DW_OP_piece without a location takes the top of the stack, or what is nowhere.
LEMMA TopMatches ==
  ASSUME StackInv
  PROVE  /\ Len(stack) \in Nat /\ IsSeq(stack)
         /\ stack = <<>> => real.stack = <<>> /\ Matches(Empty, FALSE, RealTop)
         /\ stack # <<>> =>
              /\ real.stack # <<>>
              /\ Matches(stack[Len(stack)], FALSE, RealTop)
              /\ Matches(stack[Len(stack)], TRUE, RealPlace("value", RealTop.value))
<1>1. /\ IsSeq(stack) /\ IsSeq(real.stack) /\ Len(stack) \in Nat /\ Len(real.stack) = Len(stack)
      /\ \A i \in 1..Len(stack) : Stands(stack[i], real.stack[i])
  BY SeqLen DEF StackInv, Follow
<1>2. CASE stack = <<>>
  <2>1. Len(real.stack) = 0
    BY <1>1, <1>2, SeqEmpty
  <2>2. real.stack = <<>>
    BY <1>1, <2>1, SeqLen
  <2>3. Denotes(Empty, RealTop)
    BY <2>2 DEF Denotes, Empty, Loc, RealTop, RealPlace
  <2>4. RealTop.where # "value"
    BY <2>2 DEF RealTop, RealPlace
  <2> QED
    BY <1>1, <1>2, <2>2, <2>3, <2>4 DEF Matches
<1>3. CASE stack # <<>>
  <2> DEFINE n == Len(stack)
             v == real.stack[n]
  <2>1. n \in 1..n
    BY <1>1, <1>3, SeqLen
  <2>2. real.stack # <<>>
    BY <1>1, <2>1, SeqEmpty
  <2>3. Stands(stack[n], v)
    BY <1>1, <2>1
  <2>4. RealTop = RealPlace("memory", v) /\ RealTop.value = v
    BY <1>1, <2>2 DEF RealTop, RealPlace
  <2> HIDE DEF n, v
  <2>5. Denotes(stack[n], RealPlace("memory", v)) /\ Denotes(stack[n], RealPlace("value", v))
    BY <2>3, StandsDenotes
  <2>6. RealPlace("memory", v).where = "memory" /\ RealPlace("value", v).where = "value"
    BY DEF RealPlace
  <2>7. /\ Matches(stack[n], FALSE, RealTop)
        /\ Matches(stack[n], TRUE, RealPlace("value", RealTop.value))
    BY <2>4, <2>5, <2>6 DEF Matches
  <2> QED
    BY <1>1, <1>3, <2>2, <2>7 DEF n
<1> QED
  BY <1>2, <1>3

\* Popping both stacks.
LEMMA PoppedFollow ==
  ASSUME StackInv, NEW k \in Nat, k <= Len(stack)
  PROVE  Follow(SubSeq(stack, 1, Len(stack) - k), SubSeq(real.stack, 1, Len(real.stack) - k))
<1>1. Len(stack) \in Nat /\ Len(real.stack) = Len(stack)
  BY SeqLen DEF StackInv, Follow
<1>2. Len(stack) - k \in 0..Len(stack)
  BY <1>1
<1> QED
  BY <1>1, <1>2, FollowPrefix DEF StackInv

\* Steps that only change how far the evaluation is.
LEMMA Unmoved ==
  ASSUME LocationInv, UNCHANGED <<frame, stack, placed, pieces, nextBit, real, variable>>,
         progress' = "reading" => progress = "reading"
  PROVE  LocationInv'
<1>1. StackInv'
  BY StackKept DEF LocationInv, StackInv
<1>2. PlacedInv'
  BY PlacedKept DEF LocationInv, PlacedInv
<1>3. PiecesInv'
  BY PiecesKept DEF LocationInv, PiecesInv, PiecesMatch, RealEnd
<1>4. VariableInv'
  BY EntriesKept DEF LocationInv, VariableInv, EntriesMatch
<1> QED
  BY <1>1, <1>2, <1>3, <1>4 DEF LocationInv

\* Operations on the stack alone.
LEMMA ComputeKeeps ==
  ASSUME NoSums, LocationInv, NEW op \in Operations, Compute(op)
  PROVE  LocationInv'
<1>1. /\ UNCHANGED <<frame, placed, pieces, nextBit, progress, variable>>
      /\ stack' = Effect(op, stack) /\ Len(stack) >= Operands(op)
      /\ real' = [real EXCEPT !.stack = RealEffect(op, @)]
  BY DEF Compute
<1>2. /\ real' = [stack |-> real'.stack, placed |-> real'.placed, pieces |-> real'.pieces]
      /\ real'.stack = RealEffect(op, real.stack)
      /\ real'.placed = real.placed /\ real'.pieces = real.pieces
  BY <1>1 DEF LocationInv
<1>3. StackInv'
  <2>1. Follow(stack', real'.stack)
    BY <1>1, <1>2, FollowEffect DEF NoSums, LocationInv, StackInv
  <2> QED
    BY <1>1, <2>1, StackKept
<1>4. PlacedInv'
  BY <1>1, <1>2, PlacedKept DEF LocationInv, PlacedInv
<1>5. PiecesInv'
  BY <1>1, <1>2, PiecesKept DEF LocationInv, PiecesInv, PiecesMatch, RealEnd
<1>6. VariableInv'
  BY <1>1, EntriesKept DEF LocationInv, VariableInv, EntriesMatch
<1> QED
  BY <1>1, <1>2, <1>3, <1>4, <1>5, <1>6 DEF LocationInv

\* A register, or a value that is nowhere.
LEMMA PlaceKeeps ==
  ASSUME LocationInv, NEW op \in Operations, Place(op)
  PROVE  LocationInv'
<1>1. /\ UNCHANGED <<frame, pieces, nextBit, progress, variable>>
      /\ stack' = SubSeq(stack, 1, Len(stack) - Operands(op)) /\ Len(stack) >= Operands(op)
      /\ op.name \in {"reg", "implicit_value", "implicit_pointer", "stack_value"}
  BY DEF Place
<1> DEFINE place == CASE op.name = "reg" -> RealPlace("register", op.reg)
                      [] op.name = "stack_value" -> RealPlace("value", RealTop.value)
                      [] OTHER -> RealPlace("value", frame.unknown)
<1>2. /\ real' = [stack |-> real'.stack, placed |-> real'.placed, pieces |-> real'.pieces]
      /\ real'.stack = SubSeq(real.stack, 1, Len(real.stack) - Operands(op))
      /\ real'.placed = place /\ real'.pieces = real.pieces
  BY DEF LocationInv, Place
<1>3. Operands(op) \in Nat
  BY <1>1 DEF Operands
<1>4. StackInv'
  <2>1. Follow(stack', real'.stack)
    BY <1>1, <1>2, <1>3, PoppedFollow DEF LocationInv
  <2> QED
    BY <1>1, <2>1, StackKept
<1>5. Matches(placed'.loc, placed'.isValue, real'.placed)
  <2>1. CASE op.name = "reg"
    <3>1. placed'.loc = Loc("Register", op.reg, 0) /\ ~placed'.isValue
      BY <2>1 DEF Place
    <3>2. real'.placed = RealPlace("register", op.reg)
      BY <1>2, <2>1
    <3> QED
      BY <3>1, <3>2 DEF Matches, Denotes, Loc, RealPlace
  <2>2. CASE op.name = "stack_value"
    <3>1. placed'.loc = stack[Len(stack)] /\ placed'.isValue = TRUE
      BY <2>2 DEF Place
    <3>2. real'.placed = RealPlace("value", RealTop.value)
      BY <1>2, <2>2
    <3>3. stack # <<>>
      BY <1>1, <2>2, SeqEmpty DEF Operands
    <3> QED
      BY <3>1, <3>2, <3>3, TopMatches DEF LocationInv
  <2>3. CASE op.name \in {"implicit_value", "implicit_pointer"}
    <3>1. placed'.loc = Other
      BY <2>3 DEF Place
    <3> QED
      BY <3>1 DEF Matches, Denotes, Other, Loc
  <2> QED
    BY <1>1, <2>1, <2>2, <2>3
<1>6. PlacedInv'
  BY <1>1, <1>5, PlacedKept
<1>7. PiecesInv'
  BY <1>1, <1>2, PiecesKept DEF LocationInv, PiecesInv, PiecesMatch, RealEnd
<1>8. VariableInv'
  BY <1>1, EntriesKept DEF LocationInv, VariableInv, EntriesMatch
<1> QED
  BY <1>1, <1>2, <1>4, <1>6, <1>7, <1>8 DEF LocationInv

\* DW_OP_piece, on what was placed, on the top of the stack and on nothing.
LEMMA AddPieceKeeps ==
  ASSUME LocationInv, NEW op \in Operations, AddPiece(op)
  PROVE  LocationInv'
<1>1. /\ UNCHANGED <<frame, progress, variable>> /\ progress = "reading"
      /\ stack' = IF placed.some \/ stack = <<>> THEN stack ELSE Front(stack)
      /\ placed' = Nothing
  BY DEF AddPiece, Reads
<1> DEFINE place == IF placed.some THEN real.placed ELSE RealTop
<1>2. /\ real' = [stack |-> real'.stack, placed |-> real'.placed, pieces |-> real'.pieces]
      /\ real'.stack = IF placed.some \/ real.stack = <<>> THEN real.stack
                       ELSE Front(real.stack)
      /\ real'.pieces = WithRealPiece(place, op.size, op.off)
  BY DEF LocationInv, AddPiece
<1>3. op.size # Unknown
  BY OperationsAssumption DEF Unknown
<1>4. StackInv'
  <2>1. CASE placed.some \/ stack = <<>>
    <3>1. stack' = stack /\ real'.stack = real.stack
      BY <1>1, <1>2, <2>1, TopMatches DEF LocationInv
    <3> QED
      BY <1>1, <3>1, StackKept DEF LocationInv, StackInv
  <2>2. CASE ~placed.some /\ stack # <<>>
    <3>1. Len(stack) >= 1 /\ 1 \in Nat
      BY <2>2, TopMatches, SeqLen DEF LocationInv
    <3>2. stack' = SubSeq(stack, 1, Len(stack) - 1)
      BY <1>1, <2>2 DEF Front
    <3>3. real'.stack = SubSeq(real.stack, 1, Len(real.stack) - 1)
      BY <1>2, <2>2, TopMatches DEF LocationInv, Front
    <3>4. Follow(stack', real'.stack)
      BY <3>1, <3>2, <3>3, PoppedFollow DEF LocationInv
    <3> QED
      BY <1>1, <3>4, StackKept
  <2> QED
    BY <2>1, <2>2
<1>5. PlacedInv'
  BY <1>1, PlacedKept DEF Nothing
<1>6. PICK loc, isValue : PushPiece(loc, isValue, op.size, op.off) /\ Matches(loc, isValue, place)
  <2>1. CASE placed.some
    BY <2>1 DEF AddPiece, LocationInv, PlacedInv
  <2>2. CASE ~placed.some /\ stack = <<>>
    BY <2>2, TopMatches DEF AddPiece, LocationInv
  <2>3. CASE ~placed.some /\ stack # <<>>
    BY <2>3, TopMatches DEF AddPiece, LocationInv
  <2> QED
    BY <2>1, <2>2, <2>3
<1> HIDE DEF place
<1>7. PiecesMatch(pieces', real'.pieces) /\ nextBit' = RealEnd'
  BY <1>1, <1>2, <1>3, <1>6, PieceAdded DEF LocationInv
<1>8. PiecesInv'
  BY <1>1, <1>7, PiecesKept
<1>9. VariableInv'
  BY <1>1, EntriesKept DEF LocationInv, VariableInv, EntriesMatch
<1> QED
  BY <1>1, <1>2, <1>4, <1>5, <1>8, <1>9 DEF LocationInv

\* The end of an expression.
LEMMA EndKeeps ==
  ASSUME LocationInv, EndExpression
  PROVE  LocationInv'
<1>1. /\ UNCHANGED <<frame, stack, placed, variable>>
      /\ progress = "reading" /\ progress' # "reading"
  BY DEF EndExpression
<1>2. CASE UNCHANGED <<pieces, nextBit, real>>
  BY <1>1, <1>2, Unmoved
<1>3. CASE pieces = <<>> /\ (placed.some \/ stack # <<>>)
  <2> DEFINE place == IF placed.some THEN real.placed ELSE RealTop
  <2>1. /\ real' = [stack |-> real'.stack, placed |-> real'.placed, pieces |-> real'.pieces]
        /\ real'.stack = real.stack /\ real'.placed = real.placed
        /\ real'.pieces = WithRealPiece(place, Unknown, 0)
    BY <1>3 DEF LocationInv, EndExpression
  <2>2. PICK loc, isValue : PushPiece(loc, isValue, Unknown, 0) /\ Matches(loc, isValue, place)
    <3>1. CASE placed.some
      BY <1>3, <3>1 DEF EndExpression, LocationInv, PlacedInv
    <3>2. CASE ~placed.some /\ stack # <<>>
      BY <1>3, <3>2, TopMatches DEF EndExpression, LocationInv
    <3> QED
      BY <1>3, <3>1, <3>2
  <2> HIDE DEF place
  <2>3. PiecesMatch(pieces', real'.pieces)
    BY <1>1, <2>1, <2>2, PieceAdded DEF LocationInv
  <2>4. PiecesInv'
    BY <1>1, <2>3, PiecesKept
  <2>5. StackInv'
    BY <1>1, <2>1, StackKept DEF LocationInv, StackInv
  <2>6. PlacedInv'
    BY <1>1, <2>1, PlacedKept DEF LocationInv, PlacedInv
  <2>7. VariableInv'
    BY <1>1, EntriesKept DEF LocationInv, VariableInv, EntriesMatch
  <2> QED
    BY <1>1, <2>1, <2>4, <2>5, <2>6, <2>7 DEF LocationInv
<1> QED
  BY <1>2, <1>3 DEF EndExpression

\* The pieces of an expression behind those of the entries before it.
LEMMA EntriesAdded ==
  ASSUME LocationInv, NEW ls, NEW rs,
         ls = variable.locations \o Given(expression, pieces),
         rs = variable.real \o Given(expression, real.pieces)
  PROVE  EntriesMatch(ls, rs)
<1> DEFINE old == variable.locations
           was == variable.real
           new == Given(expression, pieces)
           now == Given(expression, real.pieces)
           n == Len(old)
           m == Len(pieces)
<1>1. /\ IsSeq(old) /\ IsSeq(was) /\ Len(was) = n /\ n \in Nat
      /\ \A k \in 1..n : /\ PieceMatches(old[k][2], was[k][2])
                         /\ old[k][2].bit # 0 => k > 1 /\ old[k - 1][1] = old[k][1]
  BY SeqLen DEF LocationInv, VariableInv
<1>2. /\ IsSeq(pieces) /\ IsSeq(real.pieces) /\ Len(real.pieces) = m /\ m \in Nat
      /\ \A i \in 1..m : PieceMatches(pieces[i], real.pieces[i])
      /\ m > 0 => pieces[1].bit = 0
  BY SeqLen DEF LocationInv, PiecesInv
<1>3. /\ IsSeq(new) /\ Len(new) = m /\ \A k \in 1..m : new[k] = <<expression, pieces[k]>>
      /\ IsSeq(now) /\ Len(now) = m /\ \A k \in 1..m : now[k] = <<expression, real.pieces[k]>>
  BY <1>2, Entries
<1> HIDE DEF old, was, new, now, n, m
<1>4. ls = old \o new /\ rs = was \o now
  BY DEF old, new, was, now
<1>5. Len(old) = n
  BY DEF n
<1>6. /\ IsSeq(old \o new) /\ Len(old \o new) = Len(old) + Len(new)
       /\ \A i \in 1..Len(old \o new) :
            \/ i \in 1..Len(old) /\ (old \o new)[i] = old[i]
            \/ i - Len(old) \in 1..Len(new) /\ (old \o new)[i] = new[i - Len(old)]
  BY <1>1, <1>3, SeqConcat
<1>7. /\ IsSeq(was \o now) /\ Len(was \o now) = Len(was) + Len(now)
       /\ \A i \in 1..Len(was \o now) :
            \/ i \in 1..Len(was) /\ (was \o now)[i] = was[i]
            \/ i - Len(was) \in 1..Len(now) /\ (was \o now)[i] = now[i - Len(was)]
  BY <1>1, <1>3, SeqConcat
<1>8. /\ IsSeq(ls) /\ Len(ls) = n + m
      /\ \A i \in 1..(n + m) : \/ i \in 1..n /\ ls[i] = old[i]
                               \/ i - n \in 1..m /\ ls[i] = new[i - n]
  BY <1>5, <1>3, <1>4, <1>6
<1>9. /\ IsSeq(rs) /\ Len(rs) = n + m
      /\ \A i \in 1..(n + m) : \/ i \in 1..n /\ rs[i] = was[i]
                               \/ i - n \in 1..m /\ rs[i] = now[i - n]
  BY <1>1, <1>3, <1>4, <1>7
<1>10. ASSUME NEW k \in 1..(n + m)
      PROVE  /\ PieceMatches(ls[k][2], rs[k][2])
             /\ ls[k][2].bit # 0 => k > 1 /\ ls[k - 1][1] = ls[k][1]
  <2>1. CASE k \in 1..n
    <3>1. k - n \notin 1..m /\ (k > 1 => k - 1 \in 1..(n + m) /\ (k - 1) - n \notin 1..m)
      BY <1>1, <1>2, <2>1
    <3>2. ls[k] = old[k] /\ rs[k] = was[k] /\ (k > 1 => ls[k - 1] = old[k - 1])
      BY <1>8, <1>9, <3>1
    <3> QED
      BY <1>1, <2>1, <3>2
  <2>2. CASE k \notin 1..n
    <3> DEFINE i == k - n
    <3>1. i \in 1..m /\ ls[k] = new[i] /\ rs[k] = now[i]
      BY <1>8, <1>9, <2>2
    <3>2. ls[k] = <<expression, pieces[i]>> /\ rs[k] = <<expression, real.pieces[i]>>
      BY <1>3, <3>1
    <3>3. PieceMatches(ls[k][2], rs[k][2])
      BY <1>2, <3>1, <3>2
    <3>4. ASSUME pieces[i].bit # 0
          PROVE  k > 1 /\ ls[k - 1][1] = expression
      <4>1. i # 1
        BY <1>1, <1>2, <3>1, <3>4
      <4>2. /\ k - 1 \in 1..(n + m) /\ k - 1 \notin 1..n /\ k > 1
            /\ (k - 1) - n \in 1..m
        BY <1>1, <1>2, <3>1, <4>1
      <4>3. ls[k - 1] = new[(k - 1) - n]
        BY <1>8, <4>2
      <4>4. ls[k - 1] = <<expression, pieces[(k - 1) - n]>>
        BY <1>3, <4>2, <4>3
      <4> QED
        BY <4>2, <4>4
    <3> HIDE DEF i
    <3>5. ls[k][1] = expression /\ ls[k][2] = pieces[i]
      BY <3>2
    <3> QED
      BY <3>3, <3>4, <3>5
  <2> QED
    BY <2>1, <2>2
<1> QED
  BY <1>8, <1>9, <1>10 DEF EntriesMatch

\* The pieces go to the variable and both machines start again.
LEMMA CollectKeeps ==
  ASSUME LocationInv, Collect
  PROVE  LocationInv'
<1>1. /\ stack' = <<>> /\ placed' = Nothing /\ pieces' = <<>> /\ nextBit' = 0
      /\ real' = FreshReal /\ UNCHANGED frame
  BY DEF Collect
<1>2. \A i : i \notin 1..0
  OBVIOUS
<1>3. /\ real' = [stack |-> real'.stack, placed |-> real'.placed, pieces |-> real'.pieces]
      /\ real'.stack = <<>> /\ real'.pieces = <<>>
  BY <1>1 DEF FreshReal
<1>4. StackInv'
  BY <1>1, <1>3, FollowEmpty, StackKept
<1>5. PlacedInv'
  BY <1>1, PlacedKept DEF Nothing
<1>6. PiecesInv'
  <2>1. PiecesMatch(pieces', real'.pieces)
    BY <1>1, <1>2, <1>3, SeqEmpty DEF PiecesMatch
  <2>2. nextBit' = RealEnd'
    BY <1>1, <1>3, SeqEmpty DEF RealEnd
  <2> QED
    BY <1>1, <2>1, <2>2, PiecesKept
<1>7. VariableInv'
  <2>1. CASE variable' = variable
    BY <1>1, <2>1, EntriesKept DEF LocationInv, VariableInv, EntriesMatch
  <2>2. CASE variable' = Collected
    <3>1. DOMAIN pieces = DOMAIN real.pieces
      BY SeqLen DEF LocationInv, PiecesInv
    <3>2. /\ variable'.locations = variable.locations \o Given(expression, pieces)
          /\ variable'.real = variable.real \o Given(expression, real.pieces)
      BY <2>2, <3>1 DEF Collected, Given
    <3>3. EntriesMatch(variable'.locations, variable'.real)
      BY <3>2, EntriesAdded
    <3> QED
      BY <1>1, <3>3, EntriesKept
  <2> QED
    BY <2>1, <2>2 DEF Collect
<1> QED
  BY <1>1, <1>3, <1>4, <1>5, <1>6, <1>7 DEF LocationInv

\* Every step.
LEMMA LocationStep ==
  ASSUME NoSums, LocationInv, [LocationNext]_locationVars
  PROVE  LocationInv'
<1>1. CASE \E op \in Operations : Compute(op)
  BY <1>1, ComputeKeeps
<1>2. CASE \E op \in Operations : Place(op)
  BY <1>2, PlaceKeeps
<1>3. CASE \E op \in Operations : AddPiece(op)
  BY <1>3, AddPieceKeeps
<1>4. CASE Unreadable \/ UNCHANGED locationVars
           \/ \E op \in Operations : Branch(op) \/ Malformed(op)
  BY <1>4, Unmoved DEF Unreadable, locationVars, Branch, Malformed, Reads
<1>5. CASE EndExpression
  BY <1>5, EndKeeps
<1>6. CASE Collect
  BY <1>6, CollectKeeps
<1> QED
  BY <1>1, <1>2, <1>3, <1>4, <1>5, <1>6 DEF LocationNext

\* Whatever the operations, the frame and the width of an address, the stack of
\* locations follows the stack of values, if no operation is a sum or a difference.
THEOREM StackIsFollowed ==
  ASSUME NoSums
  PROVE  LocationSpec => []StackFollows
<1>1. LocationInit => LocationInv
  BY LocationInvInit
<1>2. LocationInv /\ [LocationNext]_locationVars => LocationInv'
  BY LocationStep
<1>3. LocationInv => StackFollows
  <2>1. \A l, v : Stands(l, v) => Denotes(l, RealPlace("memory", v))
    BY StandsDenotes
  <2> QED
    BY <2>1 DEF LocationInv, StackInv, Follow, StackFollows
<1> QED
  BY <1>1, <1>2, <1>3, PTL DEF LocationSpec

\* And every piece of a variable is in the object's place, at the object's bits.
THEOREM PiecesArePlaced ==
  ASSUME NoSums
  PROVE  LocationSpec => []PiecesWhereTheyAre
<1>1. LocationInit => LocationInv
  BY LocationInvInit
<1>2. LocationInv /\ [LocationNext]_locationVars => LocationInv'
  BY LocationStep
<1>3. LocationInv => PiecesWhereTheyAre
  BY DEF LocationInv, VariableInv, PieceMatches, Matches, PiecesWhereTheyAre
<1> QED
  BY <1>1, <1>2, <1>3, PTL DEF LocationSpec
=============================================================================
