--------------------------- MODULE CardTableProofs ---------------------------
(***************************************************************************)
(* What holds of the card table for every width, every deck and every      *)
(* stream of bytes: the streams skip and repeat nothing, the draws are     *)
(* unbiased, and what verifies is the committed deal the players saw.      *)
(***************************************************************************)
EXTENDS CardTable, SequenceTheorems, FiniteSetTheorems, TLAPS

-----------------------------------------------------------------------------
(***************************************************************************)
(* Loops.  A function of the turns made is what its first value and its    *)
(* step make it.                                                           *)
(***************************************************************************)

(* A natural number is reached from 0 in steps of one.                     *)
LEMMA SetInduction ==
  ASSUME NEW S, 0 \in S, \A n \in Nat : n \in S => n + 1 \in S
  PROVE  Nat \subseteq S
<1> SUFFICES ASSUME Nat \ S # {} PROVE FALSE
  OBVIOUS
<1>1. PICK n \in Nat \ S : \A m \in Nat \ S : ~(m < n)
  <2>1. \E n \in Nat \ S : \A m \in Nat \ S : <<m, n>> \notin OpToRel(<, Nat)
    BY WFMin, NatLessThanWellFounded, Zenon
  <2> QED
    BY <2>1, Zenon DEF OpToRel
<1>2. n # 0 /\ n - 1 \in Nat \ S
  BY <1>1
<1> QED
  BY <1>1, <1>2

(* g makes N turns of the loop that starts with c.                         *)
Runs(g, N, c, step) ==
  /\ g = [k \in 0 .. N |-> g[k]]
  /\ g[0] = c
  /\ \A k \in 1 .. N : g[k] = step[<<g[k - 1], k>>]

(* f starts with c and makes that step wherever it has come to one of T.   *)
Follows(f, N, T, c, step) ==
  /\ f = [k \in 0 .. N |-> f[k]]
  /\ f[0] = c
  /\ \A k \in 1 .. N : f[k - 1] \in T => f[k] = step[<<f[k - 1], k>>]

(* A loop whose step stays in T has a run, which stays in T.               *)
LEMMA LoopRuns ==
  ASSUME NEW N \in Nat, NEW T, NEW c \in T, NEW step \in [T \X (1 .. N) -> T]
  PROVE  \E g \in [0 .. N -> T] : Runs(g, N, c, step)
<1> DEFINE S == {n \in Nat : n <= N => \E g \in [0 .. n -> T] : Runs(g, n, c, step)}
<1>1. 0 \in S
  <2>1. [k \in 0 .. 0 |-> c] \in [0 .. 0 -> T]
    OBVIOUS
  <2>2. Runs([k \in 0 .. 0 |-> c], 0, c, step)
    BY DEF Runs
  <2> QED
    BY <2>1, <2>2
<1>2. ASSUME NEW n \in Nat, n \in S PROVE n + 1 \in S
  <2> SUFFICES ASSUME n + 1 <= N
               PROVE  \E g \in [0 .. n + 1 -> T] : Runs(g, n + 1, c, step)
    OBVIOUS
  <2>1. PICK g \in [0 .. n -> T] : Runs(g, n, c, step)
    BY <1>2
  <2> DEFINE h == [k \in 0 .. n + 1 |-> IF k <= n THEN g[k] ELSE step[<<g[n], n + 1>>]]
  <2>2. step[<<g[n], n + 1>>] \in T
    OBVIOUS
  <2>3. h \in [0 .. n + 1 -> T]
    BY <2>2
  <2>4. \A k \in 0 .. n : h[k] = g[k]
    OBVIOUS
  <2>5. h[n + 1] = step[<<h[n], n + 1>>]
    OBVIOUS
  <2>6. h = [k \in 0 .. n + 1 |-> h[k]]
    OBVIOUS
  <2> HIDE DEF h
  <2>7. Runs(h, n + 1, c, step)
    <3>1. ASSUME NEW k \in 1 .. n + 1 PROVE h[k] = step[<<h[k - 1], k>>]
      <4>1. CASE k = n + 1
        <5>1. k - 1 = n
          BY <4>1
        <5> QED
          BY <2>5, <4>1, <5>1
      <4>2. CASE k \in 1 .. n
        <5>1. k \in 0 .. n /\ k - 1 \in 0 .. n
          BY <4>2
        <5>2. g[k] = step[<<g[k - 1], k>>]
          BY <2>1, <4>2 DEF Runs
        <5> QED
          BY <2>4, <5>1, <5>2
      <4> QED
        BY <4>1, <4>2
    <3>2. h[0] = c
      BY <2>1, <2>4 DEF Runs
    <3> QED
      BY <2>6, <3>1, <3>2 DEF Runs
  <2> QED
    BY <2>3, <2>7
<1>3. N \in S
  <2> HIDE DEF S
  <2> QED
    BY <1>1, <1>2, SetInduction
<1> QED
  BY <1>3

(* ... and whatever makes that step from what is in T is this run.         *)
LEMMA LoopRunsOnce ==
  ASSUME NEW N \in Nat, NEW T, NEW c, NEW step,
         NEW g \in [0 .. N -> T], Runs(g, N, c, step),
         NEW f, Follows(f, N, T, c, step)
  PROVE  f = g
<1> DEFINE S == {n \in Nat : n <= N => f[n] = g[n]}
<1>1. 0 \in S
  BY DEF Runs, Follows
<1>2. ASSUME NEW n \in Nat, n \in S PROVE n + 1 \in S
  <2> SUFFICES ASSUME n + 1 \in 1 .. N PROVE f[n + 1] = g[n + 1]
    OBVIOUS
  <2>1. f[n] = g[n] /\ (n + 1) - 1 = n
    BY <1>2
  <2>2. f[n] \in T
    BY <2>1
  <2>3. f[n + 1] = step[<<f[n], n + 1>>] /\ g[n + 1] = step[<<g[n], n + 1>>]
    BY <2>1, <2>2 DEF Runs, Follows
  <2> QED
    BY <2>1, <2>3
<1>3. Nat \subseteq S
  <2> HIDE DEF S
  <2> QED
    BY <1>1, <1>2, SetInduction
<1>4. \A k \in 0 .. N : f[k] = g[k]
  BY <1>3
<1> QED
  BY <1>4 DEF Follows

-----------------------------------------------------------------------------
(***************************************************************************)
(* Numbers.                                                                *)
(***************************************************************************)

(* Division with a remainder.                                              *)
LEMMA DivMod ==
  ASSUME NEW a \in Nat, NEW b \in Nat \ {0}
  PROVE  /\ a \div b \in Nat /\ a % b \in 0 .. b - 1
         /\ a = b * (a \div b) + (a % b)
OBVIOUS

(* ... is the only one.                                                    *)
LEMMA DivModUnique ==
  ASSUME NEW b \in Nat \ {0}, NEW q \in Nat, NEW r \in 0 .. b - 1, NEW a \in Nat,
         a = b * q + r
  PROVE  a \div b = q /\ a % b = r
OBVIOUS

(* Products grow with their factors.                                       *)
LEMMA MulGrows ==
  ASSUME NEW n \in Nat, NEW a \in Int, NEW b \in Int, a <= b
  PROVE  a * n <= b * n
OBVIOUS

(* And a smaller product by a positive number comes from a smaller factor. *)
LEMMA MulShrinks ==
  ASSUME NEW n \in Nat \ {0}, NEW a \in Int, NEW b \in Int, a * n < b * n
  PROVE  a < b
OBVIOUS

(* The widths are numbers.                                                 *)
LEMMA Widths ==
  /\ ByteSize \in Nat /\ ByteSize > 1 /\ BlockLen \in Nat \ {0} /\ SeedLen \in Nat \ {0}
  /\ HalfLen \in Nat \ {0} /\ WordLen \in Nat \ {0} /\ MaxRejects \in Nat
<1>1. \A w \in {HalfLen, WordLen, SeedLen, BlockLen} : w \in Nat \ {0}
  BY WidthAssumption
<1>2. ByteSize \in Nat \ {0, 1} /\ MaxRejects \in Nat
  BY WidthAssumption
<1>3. /\ HalfLen \in Nat \ {0} /\ WordLen \in Nat \ {0}
      /\ SeedLen \in Nat \ {0} /\ BlockLen \in Nat \ {0}
  BY <1>1, Zenon
<1> QED
  BY <1>2, <1>3

(* The powers of ByteSize up to len: Space(len) is the last of them.       *)
IsPower(p, len) ==
  /\ p \in [0 .. len -> Nat \ {0}]
  /\ p[0] = 1 /\ \A k \in 1 .. len : p[k] = ByteSize * p[k - 1]

(* Space(len) is the value at len of the powers of the number of bytes. *)
LEMMA SpaceIsPower ==
  ASSUME NEW len \in Nat
  PROVE  \E p : IsPower(p, len) /\ Space(len) = p[len]
<1> DEFINE step == [x \in (Nat \ {0}) \X (1 .. len) |-> ByteSize * x[1]]
           Is(f) == f = [k \in 0 .. len |-> IF k = 0 THEN 1 ELSE ByteSize * f[k - 1]]
<1>0. ASSUME NEW y \in Nat \ {0} PROVE ByteSize * y \in Nat \ {0}
  BY Widths
<1>1. 1 \in Nat \ {0} /\ step \in [(Nat \ {0}) \X (1 .. len) -> Nat \ {0}]
  BY <1>0
<1>2. PICK g \in [0 .. len -> Nat \ {0}] : Runs(g, len, 1, step)
  <2> HIDE DEF step
  <2> QED
    BY <1>1, LoopRuns
<1>3. ASSUME NEW k \in 1 .. len PROVE g[k] = ByteSize * g[k - 1]
  <2>1. g[k - 1] \in Nat \ {0}
    OBVIOUS
  <2>2. step[<<g[k - 1], k>>] = ByteSize * g[k - 1]
    BY <2>1
  <2> QED
    BY <1>2, <2>2 DEF Runs
<1>4. Is(g)
  <2>1. g = [k \in 0 .. len |-> g[k]] /\ g[0] = 1
    BY <1>2 DEF Runs
  <2>2. [k \in 0 .. len |-> g[k]]
          = [k \in 0 .. len |-> IF k = 0 THEN 1 ELSE ByteSize * g[k - 1]]
    <3>1. ASSUME NEW k \in 0 .. len
          PROVE  g[k] = IF k = 0 THEN 1 ELSE ByteSize * g[k - 1]
      <4>1. k = 0 \/ k \in 1 .. len
        OBVIOUS
      <4> QED
        BY <1>3, <2>1, <4>1
    <3> QED
      BY <3>1
  <2> QED
    BY <2>1, <2>2
<1> DEFINE f == CHOOSE h : Is(h)
<1>5. Is(f)
  <2> HIDE DEF Is
  <2> QED
    BY <1>4
<1>6. Space(len) = f[len]
  BY DEF Space
<1> HIDE DEF f
<1>7. f = g
  <2>1. f = [k \in 0 .. len |-> f[k]] /\ f[0] = 1
    BY <1>5
  <2>2. \A k \in 1 .. len : f[k - 1] \in Nat \ {0} => f[k] = step[<<f[k - 1], k>>]
    <3> SUFFICES ASSUME NEW k \in 1 .. len, f[k - 1] \in Nat \ {0}
                 PROVE  f[k] = step[<<f[k - 1], k>>]
      OBVIOUS
    <3>1. f[k] = ByteSize * f[k - 1]
      BY <1>5
    <3> QED
      BY <3>1
  <2>3. Follows(f, len, Nat \ {0}, 1, step)
    BY <2>1, <2>2 DEF Follows
  <2> HIDE DEF step, Is
  <2> QED
    BY <1>2, <2>3, LoopRunsOnce
<1> QED
  BY <1>2, <1>3, <1>6, <1>7 DEF IsPower, Runs

(* There is at least one word of every length. *)
LEMMA SpaceType ==
  ASSUME NEW len \in Nat
  PROVE  Space(len) \in Nat \ {0}
<1>1. PICK p : IsPower(p, len) /\ Space(len) = p[len]
  BY SpaceIsPower
<1> QED
  BY <1>1 DEF IsPower

(* The bytes of a stream are digits.                                       *)
Digits == 0 .. ByteSize - 1
BytesAreDigits == \A s : \A i \in Nat : Byte(s, i) \in Digits

(* A word of len bytes is a number below Space(len).                       *)
LEMMA WordInSpace ==
  ASSUME NEW len \in Nat, NEW bytes \in Seq(Digits), Len(bytes) = len
  PROVE  LittleEndian(bytes) \in 0 .. Space(len) - 1
<1> DEFINE step == [x \in Nat \X (1 .. len) |-> bytes[len - x[2] + 1] + ByteSize * x[1]]
           Is(f) == f = [k \in 0 .. len |-> IF k = 0 THEN 0
                                            ELSE bytes[len - k + 1] + ByteSize * f[k - 1]]
<1>1. \A k \in 1 .. len : bytes[len - k + 1] \in Digits
  OBVIOUS
<1>2. step \in [Nat \X (1 .. len) -> Nat]
  <2>1. ASSUME NEW y \in Nat, NEW k \in 1 .. len
        PROVE  bytes[len - k + 1] + ByteSize * y \in Nat
    <3>1. bytes[len - k + 1] \in Nat /\ ByteSize * y \in Nat
      BY <1>1, Widths DEF Digits
    <3> QED
      BY <3>1
  <2> QED
    BY <2>1
<1>3. PICK g \in [0 .. len -> Nat] : Runs(g, len, 0, step)
  <2> HIDE DEF step
  <2> QED
    BY <1>2, LoopRuns
<1>4. \A k \in 1 .. len : g[k] = bytes[len - k + 1] + ByteSize * g[k - 1]
  <2> TAKE k \in 1 .. len
  <2>1. g[k] = step[<<g[k - 1], k>>]
    <3> HIDE DEF step
    <3> QED
      BY <1>3 DEF Runs
  <2>2. <<g[k - 1], k>> \in Nat \X (1 .. len)
    <3> HIDE DEF step
    <3> QED
      BY <1>3
  <2> QED
    BY <2>1, <2>2
<1>5. Is(g)
  <2>1. g = [k \in 0 .. len |-> g[k]] /\ g[0] = 0
    <3> HIDE DEF step, Is
    <3> QED
      BY <1>3 DEF Runs
  <2> HIDE DEF step
  <2>2. ASSUME NEW k \in 0 .. len
        PROVE  g[k] = IF k = 0 THEN 0 ELSE bytes[len - k + 1] + ByteSize * g[k - 1]
    <3> HIDE DEF Is
    <3>1. CASE k = 0
      BY <2>1, <3>1
    <3>2. CASE k # 0
      <4>1. k \in 1 .. len
        BY <3>2
      <4>2. g[k] = bytes[len - k + 1] + ByteSize * g[k - 1]
        BY <1>4, <4>1
      <4> QED
        BY <3>2, <4>2
    <3> QED
      BY <3>1, <3>2
  <2> QED
    BY <2>1, <2>2
<1> DEFINE f == CHOOSE h : Is(h)
<1>6. Is(f)
  <2> HIDE DEF Is
  <2> QED
    BY <1>5
<1>7. LittleEndian(bytes) = f[len]
  BY DEF LittleEndian
<1> HIDE DEF f
<1>8. f = g
  <2>1. f = [k \in 0 .. len |-> f[k]] /\ f[0] = 0
    BY <1>6
  <2>2. ASSUME NEW k \in 1 .. len, f[k - 1] \in Nat PROVE f[k] = step[<<f[k - 1], k>>]
    <3>1. f[k] = bytes[len - k + 1] + ByteSize * f[k - 1]
      BY <1>6
    <3> QED
      BY <3>1, <2>2
  <2>3. Follows(f, len, Nat, 0, step)
    BY <2>1, <2>2 DEF Follows
  <2> HIDE DEF step, Is
  <2> QED
    BY <1>3, <2>3, LoopRunsOnce
<1>9. PICK p : IsPower(p, len) /\ Space(len) = p[len]
  BY SpaceIsPower
<1> DEFINE S == {n \in Nat : n <= len => g[n] < p[n]}
<1>10. 0 \in S
  BY <1>3, <1>9 DEF Runs, IsPower
<1>11. ASSUME NEW n \in Nat, n \in S PROVE n + 1 \in S
  <2> SUFFICES ASSUME n + 1 \in 1 .. len PROVE g[n + 1] < p[n + 1]
    OBVIOUS
  <2>1. g[n] \in Nat /\ p[n] \in Nat /\ g[n] < p[n] /\ (n + 1) - 1 = n
    BY <1>9, <1>11 DEF IsPower
  <2>2. PICK d \in Digits : g[n + 1] = d + ByteSize * g[n]
    BY <1>1, <1>4, <2>1
  <2>3. p[n + 1] = ByteSize * p[n]
    BY <1>9, <2>1 DEF IsPower
  <2>4. (g[n] + 1) * ByteSize <= p[n] * ByteSize
    <3>1. ByteSize \in Nat /\ g[n] + 1 \in Int /\ p[n] \in Int /\ g[n] + 1 <= p[n]
      BY <2>1, Widths
    <3> QED
      BY <3>1, MulGrows
  <2>5. d \in Int /\ d < ByteSize /\ ByteSize \in Nat
    BY <2>2, Widths DEF Digits
  <2>6. /\ (g[n] + 1) * ByteSize = ByteSize * g[n] + ByteSize
        /\ ByteSize * g[n] \in Int /\ p[n] * ByteSize = ByteSize * p[n]
    BY <2>1, <2>5
  <2>7. ByteSize * g[n] + ByteSize <= p[n + 1]
    BY <2>3, <2>4, <2>6
  <2>8. p[n + 1] \in Int
    BY <2>1, <2>3, <2>5
  <2> DEFINE y == ByteSize * g[n]
  <2>9. g[n + 1] = d + y /\ y \in Int /\ y + ByteSize <= p[n + 1]
    BY <2>2, <2>6, <2>7
  <2> HIDE DEF y
  <2> QED
    BY <2>5, <2>8, <2>9
<1>12. Nat \subseteq S
  <2> HIDE DEF S
  <2> QED
    BY <1>10, <1>11, SetInduction
<1> QED
  BY <1>7, <1>8, <1>9, <1>12 DEF IsPower

-----------------------------------------------------------------------------
(***************************************************************************)
(* Lemire's draw.                                                          *)
(***************************************************************************)

(* The first multiple of n that reaches a.                                 *)
LEMMA FirstMultiple ==
  ASSUME NEW n \in Nat \ {0}, NEW a \in Nat
  PROVE  \E c \in Nat : a <= c * n /\ (c - 1) * n < a
<1> DEFINE q == a \div n
           r == a % n
<1>1. q \in Nat /\ r \in 0 .. n - 1 /\ a = n * q + r
  BY DivMod
<1> HIDE DEF q, r
<1>2. (q + 1) * n = n * q + n /\ (q - 1) * n = n * q - n /\ q * n = n * q
  BY <1>1
<1>3. CASE r = 0
  <2>1. a <= q * n /\ (q - 1) * n < a
    BY <1>1, <1>2, <1>3
  <2> QED
    BY <1>1, <2>1
<1>4. CASE r # 0
  <2>1. q + 1 \in Nat /\ (q + 1) - 1 = q
    BY <1>1
  <2>2. a <= (q + 1) * n /\ ((q + 1) - 1) * n < a
    BY <1>1, <1>2, <1>4, <2>1
  <2> QED
    BY <2>1, <2>2
<1> QED
  BY <1>3, <1>4

(***************************************************************************)
(* The words accepted for the value v are consecutive, and of any v there  *)
(* are space \div n: a word x is accepted for v when x * n falls into the   *)
(* last n * (space \div n) of the space numbers from v * space on.          *)
(***************************************************************************)
LEMMA AcceptedWords ==
  ASSUME NEW space \in Nat, NEW n \in 1 .. space - 1, NEW v \in 0 .. n - 1
  PROVE  \E c \in Nat :
           {x \in 0 .. space - 1 : /\ Draws(n, x, space).accepted
                                   /\ Draws(n, x, space).value = v}
             = c .. c + (space \div n) - 1
<1> DEFINE q == space \div n
           t == (space - n) % n
           base == v * space
<1>1. q \in Nat /\ t \in 0 .. n - 1 /\ space = n * q + t
  <2> DEFINE k == (space - n) \div n
  <2>1. k \in Nat /\ t \in 0 .. n - 1 /\ space - n = n * k + t
    <3>1. space - n \in Nat /\ n \in Nat \ {0}
      OBVIOUS
    <3> QED
      BY <3>1, DivMod
  <2> HIDE DEF k, t
  <2>2. space = n * (k + 1) + t
    BY <2>1
  <2>3. q = k + 1
    BY <2>1, <2>2, DivModUnique
  <2> QED
    BY <2>1, <2>2, <2>3
<1>2. base \in Nat /\ base + space <= space * n
  <2>1. (v + 1) * space <= n * space
    BY MulGrows
  <2> QED
    BY <2>1
<1>3. PICK c \in Nat : base + t <= c * n /\ (c - 1) * n < base + t
  <2>1. base + t \in Nat /\ n \in Nat \ {0}
    BY <1>1, <1>2
  <2> HIDE DEF base, t
  <2> QED
    BY <2>1, FirstMultiple
<1>4. (c + q) * n = c * n + n * q /\ (c + q - 1) * n = (c - 1) * n + n * q
  BY <1>1
<1> HIDE DEF q, t
<1>5. ASSUME NEW x \in 0 .. space - 1
      PROVE  Draws(n, x, space).accepted /\ Draws(n, x, space).value = v
               <=> base + t <= x * n /\ x * n < base + space
  <2> DEFINE m == x * n
             low == m % space
             d == m \div space
  <2>1. x * n \in Nat /\ d \in Nat /\ low \in 0 .. space - 1 /\ x * n = space * d + low
    <3>1. x * n \in Nat /\ space \in Nat \ {0}
      OBVIOUS
    <3> QED
      BY <3>1, DivMod
  <2>2. /\ Draws(n, x, space).accepted <=> ~(low < n /\ low < t)
        /\ Draws(n, x, space).value = d
    <3>1. n # 0
      OBVIOUS
    <3> QED
      BY <3>1, Zenon DEF Draws, t
  <2>3. d = v => x * n = base + low
    BY <2>1
  <2>4. ASSUME base <= x * n, x * n < base + space PROVE d = v /\ low = x * n - base
    <3>1. x * n - base \in 0 .. space - 1 /\ x * n = space * v + (x * n - base)
      BY <1>2, <2>1, <2>4
    <3>2. space \in Nat \ {0} /\ v \in Nat
      OBVIOUS
    <3>3. ASSUME NEW r \in 0 .. space - 1, m = space * v + r PROVE d = v /\ low = r
      <4>1. m \in Nat
        BY <2>1
      <4> HIDE DEF m
      <4> QED
        BY <3>2, <3>3, <4>1, DivModUnique
    <3> QED
      BY <3>1, <3>3
  <2> HIDE DEF low, d, base
  <2>5. Draws(n, x, space).accepted /\ Draws(n, x, space).value = v <=> t <= low /\ d = v
    <3>1. ~(low < n /\ low < t) <=> t <= low
      BY <1>1, <2>1
    <3> QED
      BY <2>2, <3>1
  <2> QED
    BY <1>1, <1>2, <2>1, <2>3, <2>4, <2>5
<1> HIDE DEF base
<1>6. ASSUME NEW x \in 0 .. space - 1
      PROVE  base + t <= x * n <=> c <= x
  <2>1. x * n \in Nat /\ c * n \in Nat /\ (c - 1) * n \in Int
    OBVIOUS
  <2>2. c <= x => c * n <= x * n
    BY MulGrows
  <2>3. (c - 1) * n < x * n => c - 1 < x
    BY MulShrinks
  <2> QED
    BY <1>1, <1>2, <1>3, <2>1, <2>2, <2>3
<1>7. ASSUME NEW x \in 0 .. space - 1
      PROVE  x * n < base + space <=> x < c + q
  <2>1. /\ x * n \in Nat /\ c * n \in Nat /\ (c - 1) * n \in Int
        /\ n * q \in Nat /\ c + q \in Int /\ c + q - 1 \in Int
    BY <1>1
  <2>2. x <= c + q - 1 => x * n <= (c + q - 1) * n
    BY <2>1, MulGrows
  <2>3. x * n < (c + q) * n => x < c + q
    BY <2>1, MulShrinks
  <2> QED
    BY <1>1, <1>2, <1>3, <1>4, <2>1, <2>2, <2>3
<1>8. c + q - 1 < space
  <2>1. (c - 1) * n \in Int /\ n * q \in Nat /\ c + q - 1 \in Int
    BY <1>1
  <2>2. (c + q - 1) * n < space * n
    BY <1>1, <1>2, <1>3, <1>4, <2>1
  <2> QED
    BY <2>1, <2>2, MulShrinks
<1>9. {x \in 0 .. space - 1 : /\ Draws(n, x, space).accepted
                              /\ Draws(n, x, space).value = v} = c .. c + q - 1
  <2> DEFINE D(x) == Draws(n, x, space).accepted /\ Draws(n, x, space).value = v
  <2>1. ASSUME NEW x \in 0 .. space - 1 PROVE D(x) <=> x \in c .. c + q - 1
    <3>1. D(x) <=> base + t <= x * n /\ x * n < base + space
      BY <1>5
    <3> HIDE DEF D
    <3>2. D(x) <=> c <= x /\ x < c + q
      BY <1>6, <1>7, <3>1
    <3>3. c <= x /\ x < c + q <=> x \in c .. c + q - 1
      BY <1>1
    <3> QED
      BY <3>2, <3>3, Zenon
  <2>2. c .. c + q - 1 \subseteq 0 .. space - 1
    BY <1>1, <1>8
  <2>3. {x \in 0 .. space - 1 : D(x)} = c .. c + q - 1
    <3> HIDE DEF D
    <3> QED
      BY <2>1, <2>2, Zenon
  <2> QED
    BY <2>3
<1> QED
  BY <1>9 DEF q

(* Every value has as many words as any other.                             *)
LEMMA UniformDraw ==
  ASSUME NEW space \in Nat, NEW size \in 1 .. space, NEW v \in 0 .. size - 1
  PROVE  Cardinality({x \in 0 .. space - 1 :
                        LET d == Draws(Span(0, size - 1, space), x, space)
                        IN  d.accepted /\ d.value = v})
           = space \div size
<1> DEFINE words == {x \in 0 .. space - 1 :
                       LET d == Draws(Span(0, size - 1, space), x, space)
                       IN  d.accepted /\ d.value = v}
<1>1. CASE size = space
  <2>1. Span(0, size - 1, space) = 0
    BY <1>1 DEF Span
  <2>2. words = {v}
    BY <1>1, <2>1 DEF Draws
  <2>3. space \div size = 1
    BY <1>1
  <2>4. Cardinality(words) = 1
    BY <2>2, FS_Singleton
  <2> QED
    BY <2>3, <2>4
<1>2. CASE size # space
  <2>1. Span(0, size - 1, space) = size /\ size \in 1 .. space - 1
    BY <1>2 DEF Span
  <2>2. PICK c \in Nat :
           {x \in 0 .. space - 1 : /\ Draws(size, x, space).accepted
                                   /\ Draws(size, x, space).value = v}
             = c .. c + (space \div size) - 1
    BY <2>1, AcceptedWords
  <2>3. space \div size \in Nat /\ c + (space \div size) - 1 \in Int
    BY <2>1, DivMod
  <2>4. Cardinality(c .. c + (space \div size) - 1) = space \div size
    BY <2>3, FS_Interval
  <2>5. words = c .. c + (space \div size) - 1
    BY <2>1, <2>2
  <2>6. Cardinality(words) = space \div size
    BY <2>4, <2>5
  <2> QED
    BY <2>6
<1> QED
  BY <1>1, <1>2

(***************************************************************************)
(* Whatever is left of the deck, the next draw of a shuffle is uniform     *)
(* (lib.rs: "without modulo bias").                                        *)
(***************************************************************************)
THEOREM UniformDraws == Spec => []DrawsAreUniform
<1>1. DrawsAreUniform
  <2> SUFFICES ASSUME NEW len \in {HalfLen, WordLen},
                      Remaining(deck) \in 1 .. Space(len),
                      NEW v \in 0 .. Remaining(deck) - 1
               PROVE  Cardinality({x \in 0 .. Space(len) - 1 :
                        LET d == Draws(Span(0, Remaining(deck) - 1, Space(len)), x, Space(len))
                        IN  d.accepted /\ d.value = v}) = Space(len) \div Remaining(deck)
    BY Zenon DEF DrawsAreUniform
  <2>1. Space(len) \in Nat
    BY Widths, SpaceType
  <2> QED
    BY <2>1, UniformDraw
<1> QED
  BY <1>1, PTL

-----------------------------------------------------------------------------
(***************************************************************************)
(* The byte stream.                                                        *)
(***************************************************************************)

(* The streams of the seed s: what the cache still holds is the end of the *)
(* block that was read last.                                               *)
Streams(s) ==
  {r \in [seed : {s}, xof : Nat, pos : 0 .. BlockLen, block : [1 .. BlockLen -> Digits]] :
     r.pos < BlockLen => /\ r.xof >= BlockLen
                         /\ r.block = XofBytes(s, r.xof - BlockLen, BlockLen)}

(* The bytes of the XOF are a sequence of digits.                          *)
LEMMA XofBytesType ==
  ASSUME BytesAreDigits, NEW s, NEW at \in Nat, NEW n \in Nat
  PROVE  /\ XofBytes(s, at, n) \in [1 .. n -> Digits]
         /\ XofBytes(s, at, n) \in Seq(Digits) /\ Len(XofBytes(s, at, n)) = n
         /\ \A i \in 1 .. n : XofBytes(s, at, n)[i] = Byte(s, at + i - 1)
<1>1. ASSUME NEW i \in 1 .. n PROVE Byte(s, at + i - 1) \in Digits
  <2>1. at + i - 1 \in Nat
    OBVIOUS
  <2> QED
    BY <2>1 DEF BytesAreDigits
<1>2. /\ XofBytes(s, at, n) \in [1 .. n -> Digits]
      /\ \A i \in 1 .. n : XofBytes(s, at, n)[i] = Byte(s, at + i - 1)
  BY <1>1 DEF XofBytes
<1>3. XofBytes(s, at, n) \in Seq(Digits) /\ Len(XofBytes(s, at, n)) = n
  <2>1. ASSUME NEW f \in [1 .. n -> Digits] PROVE f \in Seq(Digits) /\ Len(f) = n
    BY <2>1
  <2> QED
    BY <1>2, <2>1
<1> QED
  BY <1>2, <1>3

(* Sequences of one length with the same elements are the same.            *)
LEMMA SameBytes ==
  ASSUME NEW a \in Seq(Digits), NEW b \in Seq(Digits), Len(a) = Len(b),
         \A i \in 1 .. Len(a) : a[i] = b[i]
  PROVE  a = b
OBVIOUS

(* Two reads, one after the other, are one read.                           *)
LEMMA XofConcat ==
  ASSUME BytesAreDigits, NEW s, NEW at \in Nat, NEW m \in Nat, NEW n \in Nat
  PROVE  XofBytes(s, at, m) \o XofBytes(s, at + m, n) = XofBytes(s, at, m + n)
<1> DEFINE a == XofBytes(s, at, m)
           b == XofBytes(s, at + m, n)
           c == XofBytes(s, at, m + n)
<1>1. /\ a \in Seq(Digits) /\ Len(a) = m
      /\ \A i \in 1 .. m : a[i] = Byte(s, at + i - 1)
  BY XofBytesType
<1>2. /\ b \in Seq(Digits) /\ Len(b) = n
      /\ \A i \in 1 .. n : b[i] = Byte(s, (at + m) + i - 1)
  <2>1. at + m \in Nat
    OBVIOUS
  <2> QED
    BY <2>1, XofBytesType
<1>3. /\ c \in Seq(Digits) /\ Len(c) = m + n
      /\ \A i \in 1 .. m + n : c[i] = Byte(s, at + i - 1)
  <2>1. m + n \in Nat
    OBVIOUS
  <2> QED
    BY <2>1, XofBytesType
<1> HIDE DEF a, b, c
<1>4. /\ a \o b \in Seq(Digits) /\ Len(a \o b) = m + n
      /\ \A i \in 1 .. m + n : (a \o b)[i] = IF i <= m THEN a[i] ELSE b[i - m]
  BY <1>1, <1>2, ConcatProperties
<1>5. ASSUME NEW i \in 1 .. m + n PROVE (a \o b)[i] = c[i]
  <2>1. CASE i <= m
    BY <1>1, <1>3, <1>4, <2>1
  <2>2. CASE i > m
    <3>1. i - m \in 1 .. n /\ (at + m) + (i - m) - 1 = at + i - 1
      BY <2>2
    <3>2. (a \o b)[i] = b[i - m]
      BY <1>4, <2>2
    <3>3. b[i - m] = Byte(s, (at + m) + (i - m) - 1)
      BY <1>2, <3>1
    <3>4. c[i] = Byte(s, at + i - 1)
      BY <1>3
    <3> QED
      BY <3>1, <3>2, <3>3, <3>4, Zenon
  <2>3. i <= m \/ i > m
    OBVIOUS
  <2> QED
    BY <2>1, <2>2, <2>3
<1>6. a \o b = c
  BY <1>3, <1>4, <1>5, SameBytes
<1> QED
  BY <1>6 DEF a, b, c

(* The k elements of a after the first p.                                  *)
Part(a, p, k) == SubSeq(a, p + 1, p + k)

(* A part of a read is a read.                                             *)
LEMMA XofPart ==
  ASSUME BytesAreDigits, NEW s, NEW at \in Nat, NEW n \in Nat,
         NEW p \in Nat, NEW k \in Nat, p + k <= n
  PROVE  Part(XofBytes(s, at, n), p, k) = XofBytes(s, at + p, k)
<1> DEFINE a == XofBytes(s, at, n)
           b == Part(a, p, k)
           c == XofBytes(s, at + p, k)
<1>1. /\ a \in Seq(Digits) /\ Len(a) = n
      /\ \A i \in 1 .. n : a[i] = Byte(s, at + i - 1)
  BY XofBytesType
<1>2. /\ c \in Seq(Digits) /\ Len(c) = k
      /\ \A i \in 1 .. k : c[i] = Byte(s, (at + p) + i - 1)
  <2>1. at + p \in Nat
    OBVIOUS
  <2> QED
    BY <2>1, XofBytesType
<1> HIDE DEF a, c
<1>3. b \in Seq(Digits) /\ Len(b) = k /\ \A i \in 1 .. k : b[i] = a[p + i]
  BY <1>1 DEF Part
<1>4. ASSUME NEW i \in 1 .. k PROVE b[i] = c[i]
  <2>1. p + i \in 1 .. n /\ at + (p + i) - 1 = (at + p) + i - 1
    OBVIOUS
  <2> QED
    BY <1>1, <1>2, <1>3, <2>1
<1>5. b = c
  BY <1>2, <1>3, <1>4, SameBytes
<1> QED
  BY <1>5 DEF a, c

(* What a stream is made of.                                               *)
LEMMA StreamType ==
  ASSUME NEW s, NEW r \in Streams(s)
  PROVE  /\ r = [seed |-> s, xof |-> r.xof, pos |-> r.pos, block |-> r.block]
         /\ r.xof \in Nat /\ r.pos \in 0 .. BlockLen /\ r.block \in [1 .. BlockLen -> Digits]
         /\ Emitted(r) = r.xof - (BlockLen - r.pos) /\ Emitted(r) \in Nat
<1>1. /\ r \in [seed : {s}, xof : Nat, pos : 0 .. BlockLen, block : [1 .. BlockLen -> Digits]]
      /\ r.pos < BlockLen => r.xof >= BlockLen
  BY DEF Streams
<1>2. Emitted(r) = r.xof - (BlockLen - r.pos) /\ Emitted(r) \in Nat
  BY <1>1, Widths DEF Emitted
<1> QED
  BY <1>1, <1>2

(* from_seed starts the stream of the seed.                                *)
LEMMA FromSeedStarts ==
  ASSUME NEW s
  PROVE  FromSeed(s) \in Streams(s)
<1>1. [i \in 1 .. BlockLen |-> 0] \in [1 .. BlockLen -> Digits]
  BY Widths DEF Digits
<1> QED
  BY <1>1, Widths DEF FromSeed, Streams

(* The rng and the bytes f are what the stream r of s emits next.          *)
Emits(r, s, n, f) ==
  /\ f = [rng |-> f.rng, bytes |-> f.bytes]
  /\ f.rng \in Streams(s)
  /\ Emitted(f.rng) = Emitted(r) + n
  /\ f.bytes = XofBytes(s, Emitted(r), n)

(* Bytes served from the cache are the next bytes of the stream. *)
LEMMA CacheEmits ==
  ASSUME BytesAreDigits, NEW s, NEW r \in Streams(s), NEW n \in Nat, n <= BlockLen - r.pos
  PROVE  Emits(r, s, n, FromCache(r, n)) /\ FromCache(r, n).rng.pos = r.pos + n
<1> DEFINE next == [r EXCEPT !.pos = @ + n]
<1>1. /\ r = [seed |-> s, xof |-> r.xof, pos |-> r.pos, block |-> r.block]
      /\ r.xof \in Nat /\ r.pos \in 0 .. BlockLen /\ r.block \in [1 .. BlockLen -> Digits]
      /\ Emitted(r) = r.xof - (BlockLen - r.pos) /\ Emitted(r) \in Nat
  BY StreamType
<1>2. next = [seed |-> s, xof |-> r.xof, pos |-> r.pos + n, block |-> r.block]
  BY <1>1
<1>3. r.pos < BlockLen => /\ r.xof >= BlockLen
                          /\ r.block = XofBytes(s, r.xof - BlockLen, BlockLen)
  BY DEF Streams
<1> HIDE DEF next
<1>4. next \in Streams(s)
  BY <1>1, <1>2, <1>3, Widths DEF Streams
<1>5. Emitted(next) = Emitted(r) + n
  BY <1>1, <1>2, Widths DEF Emitted
<1>6. Part(r.block, r.pos, n) = XofBytes(s, Emitted(r), n)
  <2>1. CASE r.pos < BlockLen
    <3>1. /\ r.xof - BlockLen \in Nat /\ BlockLen \in Nat /\ r.pos \in Nat
          /\ r.pos + n <= BlockLen /\ (r.xof - BlockLen) + r.pos = Emitted(r)
      BY <1>1, <1>3, <2>1, Widths
    <3>2. Part(XofBytes(s, r.xof - BlockLen, BlockLen), r.pos, n)
            = XofBytes(s, (r.xof - BlockLen) + r.pos, n)
      BY <3>1, XofPart
    <3> QED
      BY <1>3, <2>1, <3>1, <3>2
  <2>2. CASE r.pos = BlockLen
    <3>1. n = 0
      BY <2>2, Widths
    <3>2. r.block \in Seq(Digits)
      BY <1>1, Widths
    <3>3. Part(r.block, r.pos, n) = <<>>
      BY <1>1, <3>1, <3>2 DEF Part
    <3>4. XofBytes(s, Emitted(r), n) = <<>>
      BY <3>1 DEF XofBytes
    <3> QED
      BY <3>3, <3>4
  <2> QED
    BY <1>1, <2>1, <2>2, Widths
<1>7. FromCache(r, n) = [rng |-> next, bytes |-> Part(r.block, r.pos, n)]
  BY DEF FromCache, next, Part
<1> QED
  BY <1>2, <1>4, <1>5, <1>6, <1>7 DEF Emits

(* So are bytes served from the XOF, once the cache is spent. *)
LEMMA XofEmits ==
  ASSUME BytesAreDigits, NEW s, NEW r \in Streams(s), NEW n \in Nat,
         n = 0 \/ r.pos = BlockLen
  PROVE  Emits(r, s, n, FromXof(r, n))
<1>1. /\ r = [seed |-> s, xof |-> r.xof, pos |-> r.pos, block |-> r.block]
      /\ r.xof \in Nat /\ r.pos \in 0 .. BlockLen /\ r.block \in [1 .. BlockLen -> Digits]
      /\ Emitted(r) = r.xof - (BlockLen - r.pos) /\ Emitted(r) \in Nat
  BY StreamType
<1>2. CASE n = 0
  <2>1. FromXof(r, n) = [rng |-> r, bytes |-> <<>>]
    BY <1>2, Widths DEF FromXof
  <2>2. XofBytes(s, Emitted(r), n) = <<>>
    BY <1>2 DEF XofBytes
  <2> QED
    BY <1>1, <1>2, <2>1, <2>2 DEF Emits
<1>3. CASE r.pos = BlockLen /\ n >= BlockLen
  <2> DEFINE next == [r EXCEPT !.xof = @ + n]
  <2>1. next = [seed |-> s, xof |-> r.xof + n, pos |-> r.pos, block |-> r.block]
    BY <1>1
  <2>2. FromXof(r, n) = [rng |-> next, bytes |-> XofBytes(s, r.xof, n)]
    BY <1>1, <1>3, Widths DEF FromXof
  <2> HIDE DEF next
  <2>3. next \in Streams(s)
    BY <1>1, <1>3, <2>1, Widths DEF Streams
  <2>4. Emitted(next) = Emitted(r) + n /\ Emitted(r) = r.xof
    BY <1>1, <1>3, <2>1, Widths DEF Emitted
  <2> QED
    BY <2>2, <2>3, <2>4 DEF Emits
<1>4. CASE r.pos = BlockLen /\ n \in 1 .. BlockLen - 1
  <2> DEFINE full == [seed |-> s, xof |-> r.xof + BlockLen, pos |-> 0,
                      block |-> XofBytes(s, r.xof, BlockLen)]
  <2>1. r.seed = s
    BY <1>1
  <2>2. FromXof(r, n) = FromCache(full, n)
    BY <1>4, <2>1, Widths DEF FromXof
  <2>3. XofBytes(s, r.xof, BlockLen) \in [1 .. BlockLen -> Digits]
    BY <1>1, Widths, XofBytesType
  <2>4. full \in Streams(s) /\ Emitted(full) = Emitted(r)
    <3>1. (r.xof + BlockLen) - BlockLen = r.xof
      BY <1>1, Widths
    <3> QED
      BY <1>1, <1>4, <2>3, <3>1, Widths DEF Streams, Emitted
  <2>5. n <= BlockLen - full.pos
    BY <1>4, Widths
  <2> HIDE DEF full
  <2>6. Emits(full, s, n, FromCache(full, n))
    BY <2>4, <2>5, CacheEmits
  <2> QED
    BY <2>2, <2>4, <2>6 DEF Emits
<1> QED
  BY <1>2, <1>3, <1>4, Widths

(* fill_bytes emits the next n bytes of the stream.                        *)
LEMMA FillEmits ==
  ASSUME BytesAreDigits, NEW s, NEW r \in Streams(s), NEW n \in Nat
  PROVE  Emits(r, s, n, Fill(r, n))
<1> DEFINE cached == IF n < BlockLen - r.pos THEN n ELSE BlockLen - r.pos
           first == FromCache(r, cached)
           rest == FromXof(first.rng, n - cached)
<1>1. r.pos \in 0 .. BlockLen /\ Emitted(r) \in Nat
  BY StreamType
<1>2. /\ cached \in Nat /\ cached <= BlockLen - r.pos /\ n - cached \in Nat
      /\ n - cached = 0 \/ r.pos + cached = BlockLen
  BY <1>1, Widths
<1>3. Fill(r, n) = [rng |-> rest.rng, bytes |-> first.bytes \o rest.bytes]
  BY DEF Fill
<1> HIDE DEF cached
<1>4. Emits(r, s, cached, first) /\ first.rng.pos = r.pos + cached
  BY <1>2, CacheEmits
<1> HIDE DEF first
<1>5. Emits(first.rng, s, n - cached, rest)
  <2>1. first.rng \in Streams(s)
    BY <1>4 DEF Emits
  <2>2. n - cached = 0 \/ first.rng.pos = BlockLen
    BY <1>2, <1>4
  <2> QED
    BY <1>2, <2>1, <2>2, XofEmits
<1> HIDE DEF rest
<1>6. first.bytes \o rest.bytes = XofBytes(s, Emitted(r), n)
  <2>1. first.bytes = XofBytes(s, Emitted(r), cached)
    BY <1>4 DEF Emits
  <2>2. rest.bytes = XofBytes(s, Emitted(r) + cached, n - cached)
    BY <1>4, <1>5 DEF Emits
  <2>3. cached + (n - cached) = n
    BY <1>2
  <2>4. XofBytes(s, Emitted(r), cached) \o XofBytes(s, Emitted(r) + cached, n - cached)
          = XofBytes(s, Emitted(r), cached + (n - cached))
    BY <1>1, <1>2, XofConcat
  <2> QED
    BY <2>1, <2>2, <2>3, <2>4
<1>7. Emitted(rest.rng) = Emitted(r) + n
  <2>1. Emitted(first.rng) = Emitted(r) + cached /\ Emitted(rest.rng) = Emitted(first.rng) + (n - cached)
    BY <1>4, <1>5 DEF Emits
  <2> QED
    BY <1>1, <1>2, <2>1
<1>8. rest.rng \in Streams(s)
  BY <1>5 DEF Emits
<1> QED
  BY <1>3, <1>6, <1>7, <1>8 DEF Emits

-----------------------------------------------------------------------------
(***************************************************************************)
(* Draws and shuffles.                                                     *)
(***************************************************************************)

(* How many values a draw with the parameter n has.                        *)
Outcomes(n, space) == IF n = 0 THEN space ELSE n

(* A draw returns a value of the range, accepted or not. *)
LEMMA DrawInRange ==
  ASSUME NEW space \in Nat \ {0}, NEW n \in Nat, NEW x \in 0 .. space - 1
  PROVE  /\ Draws(n, x, space).accepted \in BOOLEAN
         /\ Draws(n, x, space).value \in 0 .. Outcomes(n, space) - 1
<1>1. CASE n = 0
  BY <1>1 DEF Draws, Outcomes
<1>2. CASE n # 0
  <2> DEFINE d == (x * n) \div space
             low == (x * n) % space
  <2>1. x * n \in Nat
    OBVIOUS
  <2>2. d \in Nat /\ low \in 0 .. space - 1 /\ x * n = space * d + low
    BY <2>1, DivMod
  <2>3. Draws(n, x, space).accepted \in BOOLEAN /\ Draws(n, x, space).value = d
    BY <1>2, Zenon DEF Draws
  <2> HIDE DEF d, low
  <2>4. x * n < space * n
    <3>1. x * n <= (space - 1) * n
      BY MulGrows
    <3>2. (space - 1) * n = space * n - n
      OBVIOUS
    <3> QED
      BY <1>2, <3>1, <3>2
  <2>5. d * space < n * space
    BY <2>2, <2>4
  <2>6. d < n
    BY <2>2, <2>5, MulShrinks
  <2> QED
    BY <1>2, <2>2, <2>3, <2>6 DEF Outcomes
<1> QED
  BY <1>1, <1>2

(* A draw keeps the stream, and its value is one of the outcomes.          *)
Drawn(s, n, space) ==
  [rng : Streams(s), value : 0 .. Outcomes(n, space) - 1, settled : BOOLEAN]

(* Lemire's loop leaves a stream that goes on where the accepted word ended,
   and a value of the range. *)
LEMMA LemireDraws ==
  ASSUME BytesAreDigits, NEW s, NEW r \in Streams(s), NEW len \in Nat, NEW n \in Nat
  PROVE  Lemire(r, len, n) \in Drawn(s, n, Space(len))
<1> DEFINE T == Drawn(s, n, Space(len))
           Word(x) == LittleEndian(Fill(x, len).bytes)
           Tried(rest, d) == [rng |-> rest, value |-> d.value, settled |-> d.accepted]
           Taken(f) == Tried(f.rng, Draws(n, LittleEndian(f.bytes), Space(len)))
           Round(x) == Taken(Fill(x, len))
           step == [x \in T \X (1 .. MaxRejects) |->
                      IF x[1].settled THEN x[1] ELSE Round(x[1].rng)]
           Is(f) == f = [k \in 0 .. MaxRejects |->
                           IF k = 0 THEN Round(r)
                           ELSE LET before == f[k - 1]
                                IN  IF before.settled THEN before ELSE Round(before.rng)]
<1>1. ASSUME NEW x \in Streams(s) PROVE Round(x) \in T
  <2>1. Fill(x, len).rng \in Streams(s) /\ Fill(x, len).bytes = XofBytes(s, Emitted(x), len)
    BY FillEmits DEF Emits
  <2>2. Fill(x, len).bytes \in Seq(Digits) /\ Len(Fill(x, len).bytes) = len
    <3>1. Emitted(x) \in Nat
      BY StreamType
    <3>2. XofBytes(s, Emitted(x), len) \in Seq(Digits) /\ Len(XofBytes(s, Emitted(x), len)) = len
      BY <3>1, XofBytesType
    <3> QED
      BY <2>1, <3>2
  <2>3. Word(x) \in 0 .. Space(len) - 1
    BY <2>2, WordInSpace
  <2>4. Space(len) \in Nat \ {0}
    BY SpaceType
  <2> HIDE DEF Word
  <2>5. /\ Draws(n, Word(x), Space(len)).accepted \in BOOLEAN
        /\ Draws(n, Word(x), Space(len)).value \in 0 .. Outcomes(n, Space(len)) - 1
    BY <2>3, <2>4, DrawInRange
  <2> QED
    BY <2>1, <2>5 DEF Word, Drawn
<1> HIDE DEF Round
<1>2. \A x \in T : x.rng \in Streams(s)
  BY DEF Drawn
<1> HIDE DEF T
<1>3. step \in [T \X (1 .. MaxRejects) -> T]
  <2>1. ASSUME NEW x \in T \X (1 .. MaxRejects)
        PROVE  (IF x[1].settled THEN x[1] ELSE Round(x[1].rng)) \in T
    <3>1. x[1] \in T
      OBVIOUS
    <3> QED
      BY <1>1, <1>2, <3>1
  <2> QED
    BY <2>1
<1>4. Round(r) \in T
  BY <1>1
<1>5. ASSUME NEW y \in T, NEW k \in 1 .. MaxRejects
      PROVE  step[<<y, k>>] = IF y.settled THEN y ELSE Round(y.rng)
  OBVIOUS
<1> HIDE DEF step
<1>6. PICK g \in [0 .. MaxRejects -> T] : Runs(g, MaxRejects, Round(r), step)
  BY <1>3, <1>4, Widths, LoopRuns
<1>7. Is(g)
  <2>1. g = [k \in 0 .. MaxRejects |-> g[k]] /\ g[0] = Round(r)
    BY <1>6 DEF Runs
  <2>2. ASSUME NEW k \in 0 .. MaxRejects
        PROVE  g[k] = IF k = 0 THEN Round(r)
                      ELSE IF g[k - 1].settled THEN g[k - 1] ELSE Round(g[k - 1].rng)
    <3>1. CASE k = 0
      BY <2>1, <3>1
    <3>2. CASE k # 0
      <4>1. k \in 1 .. MaxRejects /\ k - 1 \in 0 .. MaxRejects
        BY <3>2, Widths
      <4>2. g[k - 1] \in T /\ g[k] = step[<<g[k - 1], k>>]
        BY <1>6, <4>1 DEF Runs
      <4> QED
        BY <1>5, <3>2, <4>1, <4>2
    <3> QED
      BY <3>1, <3>2
  <2> QED
    BY <2>1, <2>2
<1> DEFINE f == CHOOSE h : Is(h)
<1>8. Is(f)
  <2> HIDE DEF Is
  <2> QED
    BY <1>7
<1>9. Lemire(r, len, n) = f[MaxRejects]
  BY DEF Lemire, Round
<1> HIDE DEF f
<1>10. f = g
  <2>1. f = [k \in 0 .. MaxRejects |-> f[k]] /\ f[0] = Round(r)
    BY <1>8, Widths
  <2>2. ASSUME NEW k \in 1 .. MaxRejects, f[k - 1] \in T PROVE f[k] = step[<<f[k - 1], k>>]
    <3>1. k \in 0 .. MaxRejects /\ k # 0
      BY Widths
    <3>2. f[k] = IF f[k - 1].settled THEN f[k - 1] ELSE Round(f[k - 1].rng)
      BY <1>8, <3>1
    <3> QED
      BY <1>5, <2>2, <3>2
  <2>3. Follows(f, MaxRejects, T, Round(r), step)
    BY <2>1, <2>2 DEF Follows
  <2> QED
    BY <1>6, <2>3, Widths, LoopRunsOnce
<1> QED
  BY <1>9, <1>10, Widths DEF T

(* gen_range keeps the stream.                                             *)
LEMMA GenRangeKeepsStream ==
  ASSUME BytesAreDigits, NEW s, NEW r \in Streams(s), NEW len \in Nat, NEW n \in Nat
  PROVE  GenRange(r, len, 1, n + 1).rng \in Streams(s)
<1>1. CASE 1 >= n + 1
  BY <1>1 DEF GenRange
<1>2. CASE ~(1 >= n + 1)
  <2>1. (n + 1) - 1 = n
    OBVIOUS
  <2>2. Lemire(r, len, n) \in Drawn(s, n, Space(len))
    BY LemireDraws
  <2>3. GenRange(r, len, 1, n + 1) = [Lemire(r, len, n) EXCEPT !.value = 1 + @]
    BY <1>2, <2>1 DEF GenRange
  <2> QED
    BY <2>2, <2>3 DEF Drawn
<1> QED
  BY <1>1, <1>2

(* gen_range_inclusive(0..=i) keeps the stream and draws from 0..i.        *)
LEMMA GenRangeInclusiveDraws ==
  ASSUME BytesAreDigits, NEW s, NEW r \in Streams(s), NEW len \in Nat,
         NEW i \in 0 .. Space(len) - 1
  PROVE  LET d == GenRangeInclusive(r, len, 0, i)
         IN  d.rng \in Streams(s) /\ d.value \in 0 .. i /\ d.settled \in BOOLEAN
<1> DEFINE space == Space(len)
           n == Span(0, i, space)
           d == Lemire(r, len, n)
<1>1. space \in Nat \ {0}
  BY SpaceType
<1>2. n \in Nat /\ Outcomes(n, space) = i + 1
  BY <1>1 DEF Span, Outcomes
<1>3. d \in Drawn(s, n, space)
  BY <1>2, LemireDraws
<1>4. GenRangeInclusive(r, len, 0, i) = [d EXCEPT !.value = (0 + @) % space]
  BY DEF GenRangeInclusive
<1> HIDE DEF space, n, d
<1>5. d.rng \in Streams(s) /\ d.value \in 0 .. i /\ d.settled \in BOOLEAN
  BY <1>2, <1>3 DEF Drawn
<1>6. (0 + d.value) % space = d.value
  BY <1>1, <1>5 DEF space
<1> QED
  BY <1>3, <1>4, <1>5, <1>6 DEF Drawn

(* b holds what a holds, and agrees with it on the first start elements.   *)
Permutes(b, a, start) ==
  /\ Len(b) = Len(a)
  /\ ToSet(b) = ToSet(a)
  /\ \A i \in 1 .. start : b[i] = a[i]

(* A function on 1 .. n is a sequence.                                    *)
LEMMA FunctionIsSeq ==
  ASSUME NEW C, NEW n \in Nat, NEW b \in [1 .. n -> C]
  PROVE  b \in Seq(C) /\ Len(b) = n
OBVIOUS

(* A swap above start moves no item below it, and loses none. *)
LEMMA SwapPermutes ==
  ASSUME NEW C, NEW a \in Seq(C), NEW start \in Nat, start <= Len(a),
         NEW i \in start + 1 .. Len(a), NEW j \in start + 1 .. Len(a)
  PROVE  Swap(a, i, j) \in Seq(C) /\ Permutes(Swap(a, i, j), a, start)
<1> DEFINE b == Swap(a, i, j)
<1>1. i \in 1 .. Len(a) /\ j \in 1 .. Len(a) /\ DOMAIN a = 1 .. Len(a)
  OBVIOUS
<1>2. /\ DOMAIN b = 1 .. Len(a)
      /\ \A k \in 1 .. Len(a) : b[k] = IF k = j THEN a[i] ELSE IF k = i THEN a[j] ELSE a[k]
  BY <1>1 DEF Swap
<1> HIDE DEF b
<1>3. b \in Seq(C) /\ Len(b) = Len(a)
  <2>1. b = [k \in 1 .. Len(a) |-> IF k = j THEN a[i] ELSE IF k = i THEN a[j] ELSE a[k]]
    BY <1>1 DEF b, Swap
  <2>2. \A k \in 1 .. Len(a) : (IF k = j THEN a[i] ELSE IF k = i THEN a[j] ELSE a[k]) \in C
    BY <1>1
  <2>3. b \in [1 .. Len(a) -> C]
    BY <2>1, <2>2
  <2>4. Len(a) \in Nat
    BY <1>1
  <2> QED
    BY <2>3, <2>4, FunctionIsSeq, Zenon
<1>4. ToSet(b) \subseteq ToSet(a)
  BY <1>1, <1>2 DEF ToSet
<1>5. ToSet(a) \subseteq ToSet(b)
  <2> SUFFICES ASSUME NEW k \in 1 .. Len(a) PROVE \E m \in 1 .. Len(a) : b[m] = a[k]
    <3>1. ToSet(a) = {a[k] : k \in 1 .. Len(a)} /\ ToSet(b) = {b[m] : m \in 1 .. Len(a)}
      BY <1>1, <1>2, Zenon DEF ToSet
    <3> QED
      BY <3>1
  <2>1. CASE k = i
    BY <1>1, <1>2, <2>1
  <2>2. CASE k = j
    BY <1>1, <1>2, <2>2
  <2>3. CASE k # i /\ k # j
    BY <1>2, <2>3
  <2> QED
    BY <2>1, <2>2, <2>3
<1>6. ASSUME NEW k \in 1 .. start PROVE b[k] = a[k]
  <2>1. k \in 1 .. Len(a) /\ k # i /\ k # j
    OBVIOUS
  <2> QED
    BY <1>2, <2>1
<1> QED
  BY <1>3, <1>4, <1>5, <1>6 DEF b, Permutes

(***************************************************************************)
(* A shuffle keeps the stream, the items and the first start of them in    *)
(* their places.                                                           *)
(***************************************************************************)
Shuffled(s, C, items, start) ==
  {x \in [rng : Streams(s), items : Seq(C), settled : BOOLEAN] :
     Permutes(x.items, items, start)}

(* A shuffle from start moves no item up to start, and loses none. *)
LEMMA ShufflePermutes ==
  ASSUME BytesAreDigits, NEW s, NEW r \in Streams(s), NEW C, NEW items \in Seq(C),
         NEW start \in 0 .. Len(items), Len(items) < Space(WordLen)
  PROVE  ShuffleFrom(r, items, start) \in Shuffled(s, C, items, start)
<1> DEFINE T == Shuffled(s, C, items, start)
           N == Len(items) - start - 1
           first == [rng |-> r, items |-> items, settled |-> TRUE]
           Turn(x, k) ==
             LET i == N - k + 1
                 Swapped(d) ==
                   [rng     |-> d.rng,
                    items   |-> Swap(x.items, start + i + 1, start + d.value + 1),
                    settled |-> d.settled]
             IN  IF ~x.settled THEN x
                 ELSE Swapped(GenRangeInclusive(x.rng, WordLen, 0, i))
           step == [x \in T \X (1 .. N) |-> Turn(x[1], x[2])]
           Is(f) == f = [k \in 0 .. N |-> IF k = 0 THEN first ELSE Turn(f[k - 1], k)]
<1>1. first \in T
  BY DEF Shuffled, Permutes
<1>2. CASE Len(items) - start < 2
  <2>1. ShuffleFrom(r, items, start) = first
    BY <1>2 DEF ShuffleFrom
  <2> QED
    BY <1>1, <2>1
<1>3. CASE ~(Len(items) - start < 2)
  <2>1. N \in Nat /\ N + start + 1 = Len(items)
    BY <1>3
  <2>2. ASSUME NEW x \in T, NEW k \in 1 .. N PROVE Turn(x, k) \in T
    <3> DEFINE i == N - k + 1
               d == GenRangeInclusive(x.rng, WordLen, 0, i)
    <3>1. /\ x.rng \in Streams(s) /\ x.items \in Seq(C) /\ x.settled \in BOOLEAN
          /\ Permutes(x.items, items, start)
      BY DEF Shuffled
    <3>2. i \in 1 .. N /\ i \in 0 .. Space(WordLen) - 1
      <4>1. Space(WordLen) \in Nat
        BY Widths, SpaceType
      <4> QED
        BY <2>1, <4>1
    <3>3. d.rng \in Streams(s) /\ d.value \in 0 .. i /\ d.settled \in BOOLEAN
      BY <3>1, <3>2, Widths, GenRangeInclusiveDraws
    <3> HIDE DEF i, d
    <3>4. /\ Len(x.items) = Len(items)
          /\ start + i + 1 \in start + 1 .. Len(x.items)
          /\ start + d.value + 1 \in start + 1 .. Len(x.items)
      <4>1. Len(x.items) = Len(items)
        BY <3>1 DEF Permutes
      <4>2. d.value \in Nat /\ d.value <= i /\ start + i + 1 <= Len(items)
        BY <2>1, <3>2, <3>3
      <4> QED
        BY <3>2, <4>1, <4>2
    <3> DEFINE b == Swap(x.items, start + i + 1, start + d.value + 1)
    <3>5. b \in Seq(C) /\ Permutes(b, x.items, start)
      <4>1. start \in Nat /\ start <= Len(x.items)
        BY <3>4
      <4> QED
        BY <3>1, <3>4, <4>1, SwapPermutes, Zenon
    <3> HIDE DEF b
    <3>6. Permutes(b, items, start)
      BY <3>1, <3>5 DEF Permutes
    <3>7. Turn(x, k) = IF ~x.settled THEN x
                       ELSE [rng |-> d.rng, items |-> b, settled |-> d.settled]
      BY DEF b, d, i
    <3> HIDE DEF Turn
    <3>8. [rng |-> d.rng, items |-> b, settled |-> d.settled] \in T
      BY <3>3, <3>5, <3>6 DEF Shuffled
    <3> HIDE DEF T
    <3> QED
      BY <3>7, <3>8
  <2> HIDE DEF T, Turn, first
  <2>3. step \in [T \X (1 .. N) -> T]
    BY <2>2
  <2>4. ASSUME NEW y \in T, NEW k \in 1 .. N PROVE step[<<y, k>>] = Turn(y, k)
    OBVIOUS
  <2> HIDE DEF step, N
  <2>5. PICK g \in [0 .. N -> T] : Runs(g, N, first, step)
    BY <1>1, <2>1, <2>3, LoopRuns
  <2>6. Is(g)
    <3>1. g = [k \in 0 .. N |-> g[k]] /\ g[0] = first
      BY <2>5 DEF Runs
    <3>2. ASSUME NEW k \in 0 .. N
          PROVE  g[k] = IF k = 0 THEN first ELSE Turn(g[k - 1], k)
      <4>1. CASE k = 0
        BY <3>1, <4>1
      <4>2. CASE k # 0
        <5>1. k \in 1 .. N /\ k - 1 \in 0 .. N
          BY <2>1, <4>2
        <5>2. g[k - 1] \in T /\ g[k] = step[<<g[k - 1], k>>]
          BY <2>5, <5>1 DEF Runs
        <5> QED
          BY <2>4, <4>2, <5>1, <5>2
      <4> QED
        BY <4>1, <4>2
    <3> QED
      BY <3>1, <3>2
  <2> DEFINE f == CHOOSE h : Is(h)
  <2>7. Is(f)
    <3> HIDE DEF Is
    <3> QED
      BY <2>6
  <2>8. ShuffleFrom(r, items, start) = f[N]
    BY <1>3 DEF ShuffleFrom, N, Turn, first
  <2> HIDE DEF f
  <2>9. f = g
    <3>1. f = [k \in 0 .. N |-> f[k]] /\ f[0] = first
      BY <2>1, <2>7
    <3>2. ASSUME NEW k \in 1 .. N, f[k - 1] \in T PROVE f[k] = step[<<f[k - 1], k>>]
      <4>1. k \in 0 .. N /\ k # 0
        BY <2>1
      <4>2. f[k] = Turn(f[k - 1], k)
        BY <2>7, <4>1
      <4> QED
        BY <2>4, <3>2, <4>2
    <3>3. Follows(f, N, T, first, step)
      BY <3>1, <3>2 DEF Follows
    <3> QED
      BY <2>1, <2>5, <3>3, LoopRunsOnce
  <2> QED
    BY <2>1, <2>8, <2>9 DEF T
<1> QED
  BY <1>2, <1>3

-----------------------------------------------------------------------------
(***************************************************************************)
(* The streams of the table.                                               *)
(***************************************************************************)
StreamInv == server \in Streams(ServerSeed) /\ rng \in Streams(rng.seed)

(* The deck: every card once, and the cards handed out in front.           *)
DeckInv ==
  /\ deck = [cards |-> deck.cards, cursor |-> deck.cursor]
  /\ deck.cards \in Seq(Cards) /\ Len(deck.cards) = 4 * Len(DeckRanks)
  /\ deck.cursor \in 0 .. Len(deck.cards)
  /\ ToSet(deck.cards) = Cards
  /\ drawn \in Seq(Cards) /\ Len(drawn) = deck.cursor
  /\ \A i \in 1 .. deck.cursor : drawn[i] = deck.cards[i]

(***************************************************************************)
(* What was committed to: a hand that was shuffled once, before its first  *)
(* card, is the replay of its seed, and so is the order of every receipt.  *)
(***************************************************************************)
ReceiptInv ==
  Dealt =>
    /\ commitment = Commit(seed)
    /\ shuffles \in Seq(Nat)
    /\ shuffles = <<>> => rng = FromSeed(seed) /\ deck.cards = Standard.cards
    /\ shuffles = <<0>> => deck.cards = Replay(seed).cards
    /\ \A e \in log : /\ e[2] = Replay(seed).cards
                      /\ e[2] \in Seq(Cards) /\ HandSize <= Len(e[2])
                      /\ HandSize <= Len(drawn)
                      /\ \A i \in 1 .. HandSize : e[2][i] = drawn[i]

TableInv == StreamInv /\ DeckInv /\ ReceiptInv

(* The assumptions on the deck and the requests.                           *)
LEMMA DeckSize ==
  /\ DeckRanks \in Seq(2 .. Ace) /\ 4 * Len(DeckRanks) \in Nat
  /\ 4 * Len(DeckRanks) < Space(WordLen)
  /\ Requests \subseteq Nat /\ Dice \subseteq Nat
BY TableAssumption

(* standard() is every card of the deck.                                   *)
LEMMA StandardDeck ==
  /\ Standard = [cards |-> Standard.cards, cursor |-> 0]
  /\ Standard.cards \in Seq(Cards) /\ Len(Standard.cards) = 4 * Len(DeckRanks)
  /\ ToSet(Standard.cards) = Cards
<1> DEFINE N == 4 * Len(DeckRanks)
           at(i) == Card(DeckRanks[((i - 1) \div 4) + 1], (i - 1) % 4)
           cards == [i \in 1 .. N |-> at(i)]
<1>1. N \in Nat /\ Len(DeckRanks) \in Nat /\ DOMAIN DeckRanks = 1 .. Len(DeckRanks)
  BY DeckSize
<1>2. Standard = [cards |-> cards, cursor |-> 0]
  BY DEF Standard
<1>3. ASSUME NEW i \in 1 .. N PROVE at(i) \in Cards
  <2>1. ((i - 1) \div 4) + 1 \in 1 .. Len(DeckRanks) /\ (i - 1) % 4 \in 0 .. 3
    BY <1>1
  <2>2. DeckRanks[((i - 1) \div 4) + 1] \in Range(DeckRanks)
    BY <1>1, <2>1 DEF Range
  <2> QED
    BY <2>1, <2>2 DEF Cards
<1>4. ASSUME NEW c \in Cards PROVE \E i \in 1 .. N : at(i) = c
  <2>1. PICK k \in 1 .. Len(DeckRanks), suit \in 0 .. 3 : c = Card(DeckRanks[k], suit)
    BY <1>1 DEF Cards, Range
  <2> DEFINE i == 4 * (k - 1) + suit + 1
  <2>2. i \in 1 .. N /\ ((i - 1) \div 4) + 1 = k /\ (i - 1) % 4 = suit
    BY <1>1
  <2> HIDE DEF i
  <2>3. at(i) = c
    BY <2>1, <2>2
  <2> QED
    BY <2>2, <2>3
<1> HIDE DEF at
<1>5. cards \in [1 .. N -> Cards] /\ \A i \in 1 .. N : cards[i] = at(i)
  BY <1>3
<1> HIDE DEF cards, N
<1>6. cards \in Seq(Cards) /\ Len(cards) = N /\ DOMAIN cards = 1 .. N
  BY <1>1, <1>5
<1>7. ToSet(cards) = Cards
  BY <1>3, <1>4, <1>5, <1>6 DEF ToSet
<1> QED
  BY <1>2, <1>6, <1>7 DEF N

(* A shuffle of the deck leaves the cards handed out where they are.       *)
LEMMA ShuffleDeckPermutes ==
  ASSUME BytesAreDigits, NEW s, NEW r \in Streams(s),
         NEW cards \in Seq(Cards), Len(cards) = 4 * Len(DeckRanks),
         NEW cursor \in 0 .. Len(cards),
         NEW d, d = [cards |-> cards, cursor |-> cursor]
  PROVE  LET f == ShuffleDeck(d, r)
         IN  /\ f.rng \in Streams(s)
             /\ f.deck = [cards |-> f.deck.cards, cursor |-> cursor]
             /\ f.deck.cards = ShuffleFrom(r, cards, cursor).items
             /\ f.deck.cards \in Seq(Cards)
             /\ Permutes(f.deck.cards, cards, cursor)
<1> DEFINE x == ShuffleFrom(r, cards, cursor)
<1>1. Len(cards) < Space(WordLen)
  BY DeckSize
<1>2. x \in Shuffled(s, Cards, cards, cursor)
  BY <1>1, ShufflePermutes
<1>3. /\ ShuffleDeck(d, r).rng = x.rng
      /\ ShuffleDeck(d, r).deck = [cards |-> x.items, cursor |-> cursor]
  BY DEF ShuffleDeck, Reordered
<1> HIDE DEF x
<1>4. x.rng \in Streams(s) /\ x.items \in Seq(Cards) /\ Permutes(x.items, cards, cursor)
  BY <1>2 DEF Shuffled
<1> QED
  BY <1>3, <1>4 DEF x

(* The replay of a seed is a deck nobody has drawn from.                   *)
LEMMA ReplayIsADeck ==
  ASSUME BytesAreDigits, NEW s
  PROVE  /\ Replay(s) = [cards |-> Replay(s).cards, cursor |-> 0]
         /\ Replay(s).cards = ShuffleFrom(FromSeed(s), Standard.cards, 0).items
         /\ Replay(s).cards \in Seq(Cards)
<1>1. FromSeed(s) \in Streams(s)
  BY FromSeedStarts
<1>2. 0 \in 0 .. Len(Standard.cards)
  BY StandardDeck, DeckSize
<1> QED
  BY <1>1, <1>2, StandardDeck, ShuffleDeckPermutes DEF Replay

(* A step that leaves the hand alone.                                      *)
LEMMA HandUntouched ==
  ASSUME TableInv, UNCHANGED hand, server' \in Streams(ServerSeed)
  PROVE  TableInv'
<1>1. StreamInv'
  BY DEF TableInv, StreamInv, hand
<1>2. DeckInv'
  BY DEF TableInv, DeckInv, hand
<1>3. ReceiptInv'
  BY DEF TableInv, ReceiptInv, hand, Dealt
<1> QED
  BY <1>1, <1>2, <1>3 DEF TableInv

(* A read of the server's stream keeps the invariant. *)
LEMMA FillBytesKeeps ==
  ASSUME BytesAreDigits, TableInv, NEW n \in Requests, FillBytes(n)
  PROVE  TableInv'
<1>1. n \in Nat /\ server \in Streams(ServerSeed)
  BY DeckSize DEF TableInv, StreamInv
<1>2. server' \in Streams(ServerSeed)
  BY <1>1, FillEmits DEF FillBytes, Emits
<1> QED
  BY <1>2, HandUntouched DEF FillBytes

(* A roll of a die keeps the invariant. *)
LEMMA RollKeeps ==
  ASSUME BytesAreDigits, TableInv, NEW n \in Dice, Roll(n)
  PROVE  TableInv'
<1>1. n \in Nat /\ server \in Streams(ServerSeed)
  BY DeckSize DEF TableInv, StreamInv
<1>2. server' \in Streams(ServerSeed)
  BY <1>1, Widths, GenRangeKeepsStream DEF Roll
<1> QED
  BY <1>2, HandUntouched DEF Roll

(* A new hand, dealt from a stream of its own, keeps the invariant. *)
LEMMA DealKeeps ==
  ASSUME BytesAreDigits, TableInv, Deal
  PROVE  TableInv'
<1> DEFINE f == Fill(server, SeedLen)
<1>1. server' = f.rng /\ rng' = FromSeed(f.bytes) /\ seed' = FromSeed(f.bytes).seed
      /\ commitment' = Commit(FromSeed(f.bytes).seed) /\ deck' = Standard
      /\ drawn' = <<>> /\ shuffles' = <<>> /\ log' = {}
  BY DEF Deal, Split
<1>2. f.rng \in Streams(ServerSeed)
  BY Widths, FillEmits DEF TableInv, StreamInv, Emits
<1> HIDE DEF f
<1>3. seed' = f.bytes /\ rng'.seed = f.bytes
  BY <1>1 DEF FromSeed
<1>4. StreamInv'
  BY <1>1, <1>2, <1>3, FromSeedStarts DEF StreamInv
<1>5. DeckInv'
  BY <1>1, StandardDeck, DeckSize DEF DeckInv
<1>6. ReceiptInv'
  BY <1>1, <1>3 DEF ReceiptInv
<1> QED
  BY <1>4, <1>5, <1>6 DEF TableInv

(* A shuffle at any cursor keeps the invariant: it permutes the cards that
   are left. *)
LEMMA ShuffleKeeps ==
  ASSUME BytesAreDigits, TableInv, Shuffle
  PROVE  TableInv'
<1> DEFINE f == ShuffleDeck(deck, rng)
<1>1. /\ Dealt /\ deck' = f.deck /\ rng' = f.rng
      /\ shuffles' = Append(shuffles, deck.cursor)
      /\ server' = server /\ seed' = seed /\ commitment' = commitment
      /\ drawn' = drawn /\ log' = log
  BY DEF Shuffle
<1>2. /\ f.rng \in Streams(rng.seed)
      /\ f.deck = [cards |-> f.deck.cards, cursor |-> deck.cursor]
      /\ f.deck.cards = ShuffleFrom(rng, deck.cards, deck.cursor).items
      /\ f.deck.cards \in Seq(Cards)
      /\ Permutes(f.deck.cards, deck.cards, deck.cursor)
  BY ShuffleDeckPermutes DEF TableInv, StreamInv, DeckInv
<1> HIDE DEF f
<1>3. StreamInv'
  BY <1>1, <1>2 DEF TableInv, StreamInv, Streams
<1>4. deck'.cursor = deck.cursor /\ deck'.cards = f.deck.cards
  BY <1>1, <1>2
<1>5. DeckInv'
  BY <1>1, <1>2, <1>4 DEF TableInv, DeckInv, Permutes
<1>6. ReceiptInv'
  <2>1. Dealt' /\ shuffles \in Seq(Nat) /\ deck.cursor \in Nat
    BY <1>1 DEF TableInv, DeckInv, ReceiptInv, Dealt
  <2>2. shuffles' \in Seq(Nat) /\ shuffles' # <<>>
    BY <1>1, <2>1
  <2>3. ASSUME shuffles' = << 0 >> PROVE deck'.cards = Replay(seed).cards
    <3>1. shuffles = <<>> /\ deck.cursor = 0
      <4>1. Append(shuffles, deck.cursor) = <<0>>
        BY <1>1, <2>3
      <4>2. /\ Len(Append(shuffles, deck.cursor)) = Len(shuffles) + 1
            /\ Append(shuffles, deck.cursor)[Len(shuffles) + 1] = deck.cursor
        BY <2>1
      <4>3. Len(shuffles) = 0
        BY <2>1, <4>1, <4>2
      <4> QED
        BY <2>1, <4>1, <4>2, <4>3
    <3>2. rng = FromSeed(seed) /\ deck.cards = Standard.cards
      BY <1>1, <3>1 DEF TableInv, ReceiptInv
    <3> QED
      BY <1>2, <1>4, <3>1, <3>2, ReplayIsADeck
  <2> QED
    BY <1>1, <2>1, <2>2, <2>3 DEF TableInv, ReceiptInv
<1> QED
  BY <1>3, <1>5, <1>6 DEF TableInv

(* Drawing a card keeps the invariant: the cursor passes the card it dealt. *)
LEMMA DrawKeeps ==
  ASSUME TableInv, Draw
  PROVE  TableInv'
<1> DEFINE card == deck.cards[deck.cursor + 1]
<1>1. /\ Dealt /\ Remaining(deck) > 0
      /\ drawn' = Append(drawn, card)
      /\ deck' = [deck EXCEPT !.cursor = @ + 1]
      /\ server' = server /\ seed' = seed /\ commitment' = commitment /\ rng' = rng
      /\ shuffles' = shuffles /\ log' = log
  BY DEF Draw
<1>2. /\ deck = [cards |-> deck.cards, cursor |-> deck.cursor]
      /\ deck.cards \in Seq(Cards) /\ Len(deck.cards) \in Nat
      /\ deck.cursor \in 0 .. Len(deck.cards)
      /\ drawn \in Seq(Cards) /\ Len(drawn) = deck.cursor
  BY DEF TableInv, DeckInv
<1>3. deck.cursor + 1 \in 1 .. Len(deck.cards)
  BY <1>1, <1>2 DEF Remaining
<1>4. card \in Cards
  BY <1>2, <1>3
<1>5. deck' = [cards |-> deck.cards, cursor |-> deck.cursor + 1]
  BY <1>1, <1>2
<1>6. /\ drawn' \in Seq(Cards) /\ Len(drawn') = deck.cursor + 1
      /\ \A i \in 1 .. deck.cursor : drawn'[i] = drawn[i]
      /\ drawn'[deck.cursor + 1] = card
  BY <1>1, <1>2, <1>4
<1>7. StreamInv'
  BY <1>1 DEF TableInv, StreamInv
<1>8. DeckInv'
  <2>1. ASSUME NEW i \in 1 .. deck.cursor + 1 PROVE drawn'[i] = deck.cards[i]
    <3>1. i = deck.cursor + 1 \/ i \in 1 .. deck.cursor
      BY <1>2
    <3> QED
      BY <1>6, <3>1 DEF TableInv, DeckInv
  <2>2. Len(deck.cards) = 4 * Len(DeckRanks) /\ ToSet(deck.cards) = Cards
    BY DEF TableInv, DeckInv
  <2> QED
    BY <1>2, <1>3, <1>5, <1>6, <2>1, <2>2 DEF DeckInv
<1>9. ReceiptInv'
  <2>1. /\ commitment = Commit(seed) /\ shuffles \in Seq(Nat)
        /\ shuffles = <<>> => rng = FromSeed(seed) /\ deck.cards = Standard.cards
        /\ shuffles = <<0>> => deck.cards = Replay(seed).cards
    BY <1>1 DEF TableInv, ReceiptInv
  <2>2. ASSUME NEW e \in log
        PROVE  /\ e[2] = Replay(seed).cards
               /\ e[2] \in Seq(Cards) /\ HandSize <= Len(e[2])
               /\ HandSize <= Len(drawn')
               /\ \A i \in 1 .. HandSize : e[2][i] = drawn'[i]
    <3>1. /\ e[2] = Replay(seed).cards
          /\ e[2] \in Seq(Cards) /\ HandSize <= Len(e[2])
          /\ HandSize <= Len(drawn)
          /\ \A i \in 1 .. HandSize : e[2][i] = drawn[i]
      BY <1>1 DEF TableInv, ReceiptInv
    <3>2. HandSize <= Len(drawn')
      BY <1>2, <1>6, <3>1 DEF HandSize
    <3>3. ASSUME NEW i \in 1 .. HandSize PROVE e[2][i] = drawn'[i]
      <4>1. i \in 1 .. deck.cursor
        BY <1>2, <3>1 DEF HandSize
      <4> QED
        BY <1>6, <3>1, <4>1
    <3> QED
      BY <3>1, <3>2, <3>3
  <2>3. deck'.cards = deck.cards
    BY <1>5
  <2> QED
    BY <1>1, <2>1, <2>2, <2>3 DEF ReceiptInv
<1> QED
  BY <1>7, <1>8, <1>9 DEF TableInv

(* An accepted receipt keeps the invariant: the replay from the committed seed
   is the order revealed. *)
LEMMA RecordKeeps ==
  ASSUME BytesAreDigits, TableInv, Showdown,
         NEW version, NEW revealed, NEW rank, RecordHandShowdown(version, revealed, rank)
  PROVE  TableInv'
<1>1. /\ Dealt /\ VerifyShuffleOrder(commitment, revealed, deck.cards)
      /\ log' = log \union {ChainHash(deck.cards, rank)}
      /\ server' = server /\ seed' = seed /\ commitment' = commitment /\ rng' = rng
      /\ deck' = deck /\ drawn' = drawn /\ shuffles' = shuffles
  BY DEF RecordHandShowdown
<1>2. deck.cards = Replay(seed).cards
  <2>1. commitment = Commit(seed)
    BY <1>1 DEF TableInv, ReceiptInv
  <2>2. commitment = Commit(revealed) /\ deck.cards = Replay(revealed).cards
    BY <1>1 DEF VerifyShuffleOrder
  <2>3. revealed = seed
    BY <2>1, <2>2 DEF Commit
  <2> QED
    BY <2>2, <2>3
<1>3. StreamInv' /\ DeckInv'
  BY <1>1 DEF TableInv, StreamInv, DeckInv
<1>4. ReceiptInv'
  <2>1. ASSUME NEW e \in log'
        PROVE  /\ e[2] = Replay(seed).cards
               /\ e[2] \in Seq(Cards) /\ HandSize <= Len(e[2])
               /\ HandSize <= Len(drawn)
               /\ \A i \in 1 .. HandSize : e[2][i] = drawn[i]
    <3>1. CASE e \in log
      BY <1>1, <3>1 DEF TableInv, ReceiptInv
    <3>2. CASE e = ChainHash(deck.cards, rank)
      <4>1. e[2] = deck.cards
        BY <3>2 DEF ChainHash
      <4>2. /\ deck.cards \in Seq(Cards) /\ Len(drawn) = deck.cursor
            /\ deck.cursor \in 0 .. Len(deck.cards)
            /\ \A i \in 1 .. deck.cursor : drawn[i] = deck.cards[i]
        BY DEF TableInv, DeckInv
      <4>3. deck.cursor = HandSize /\ HandSize \in Nat /\ Len(deck.cards) \in Nat
        <5>1. HandSize \in Nat
          BY DEF HandSize
        <5>2. Len(drawn) = HandSize
          BY DEF Showdown
        <5>3. Len(deck.cards) \in Nat
          BY <4>2
        <5> QED
          BY <4>2, <5>1, <5>2, <5>3
      <4>4. HandSize <= Len(deck.cards) /\ HandSize <= Len(drawn)
        BY <4>2, <4>3
      <4> QED
        BY <1>2, <4>1, <4>2, <4>3, <4>4
    <3>3. e \in log \/ e = ChainHash(deck.cards, rank)
      BY <1>1
    <3> QED
      BY <3>1, <3>2, <3>3
  <2> QED
    BY <1>1, <2>1 DEF TableInv, ReceiptInv
<1> QED
  BY <1>3, <1>4 DEF TableInv

(* The invariant holds of a fresh table and every action keeps it.         *)
LEMMA TableInvHolds ==
  ASSUME BytesAreDigits
  PROVE  Spec => []TableInv
<1>1. Init => TableInv
  <2> SUFFICES ASSUME Init PROVE TableInv
    OBVIOUS
  <2>1. StreamInv
    <3>1. rng = FromSeed(<<>>) /\ server = FromSeed(ServerSeed) /\ FromSeed(<<>>).seed = <<>>
      BY DEF Init, FromSeed
    <3> QED
      BY <3>1, FromSeedStarts DEF StreamInv
  <2>2. DeckInv
    BY StandardDeck, DeckSize DEF Init, DeckInv
  <2>3. ReceiptInv
    BY DEF Init, ReceiptInv, Dealt
  <2> QED
    BY <2>1, <2>2, <2>3 DEF TableInv
<1>2. TableInv /\ [Next]_vars => TableInv'
  <2> SUFFICES ASSUME TableInv, [Next]_vars PROVE TableInv'
    OBVIOUS
  <2>1. ASSUME NEW n \in Requests, FillBytes(n) PROVE TableInv'
    BY <2>1, FillBytesKeeps
  <2>2. ASSUME NEW n \in Dice, Roll(n) PROVE TableInv'
    BY <2>2, RollKeeps
  <2>3. CASE Deal
    BY <2>3, DealKeeps
  <2>4. CASE Shuffle
    BY <2>4, ShuffleKeeps
  <2>5. CASE Draw
    BY <2>5, DrawKeeps
  <2>6. ASSUME Showdown, NEW version, NEW revealed,
               RecordHandShowdown(version, revealed, Winner)
        PROVE  TableInv'
    BY <2>6, RecordKeeps
  <2>7. CASE UNCHANGED vars
    <3>1. UNCHANGED hand /\ server' = server
      BY <2>7 DEF vars, hand
    <3> QED
      BY <3>1, HandUntouched DEF TableInv, StreamInv
  <2> QED
    BY <2>1, <2>2, <2>3, <2>4, <2>5, <2>6, <2>7 DEF Next, DrawNone, RecordRefused
<1> QED
  BY <1>1, <1>2, PTL DEF Spec

(***************************************************************************)
(* Whatever was read before and in whatever sizes, the next bytes a stream *)
(* emits are the next bytes of its XOF, for blocks and words of any length *)
(* (lib.rs: "the emitted byte sequence is identical to reading the XOF     *)
(* directly for every request-size interleaving").                         *)
(***************************************************************************)
THEOREM MonotonicStreams ==
  ASSUME BytesAreDigits
  PROVE  Spec => []StreamIsMonotonic
<1>1. TableInv => StreamIsMonotonic
  <2> SUFFICES ASSUME TableInv, NEW r \in {server, rng}, NEW n \in 1 .. 2 * BlockLen
               PROVE  /\ Fill(r, n).bytes = XofBytes(r.seed, Emitted(r), n)
                      /\ Emitted(Fill(r, n).rng) = Emitted(r) + n
    BY DEF StreamIsMonotonic
  <2>1. r \in Streams(r.seed)
    BY DEF TableInv, StreamInv, Streams
  <2>2. n \in Nat
    BY Widths
  <2> QED
    BY <2>1, <2>2, FillEmits DEF Emits
<1> QED
  BY <1>1, TableInvHolds, PTL

(* Sequences of one length with the same elements are the same.            *)
LEMMA SameCards ==
  ASSUME NEW a \in Seq(Cards), NEW b \in Seq(Cards), Len(a) = Len(b),
         \A i \in 1 .. Len(a) : a[i] = b[i]
  PROVE  a = b
OBVIOUS

(***************************************************************************)
(* A dealt card stands, whatever is shuffled afterwards, and an accepted   *)
(* receipt anchors the order the commitment fixes, beginning with the      *)
(* cards the players saw; an honest deal verifies.  For decks of any ranks *)
(* and streams of any widths (shuffle_proof.rs, deck.rs).                  *)
(***************************************************************************)
THEOREM VerifiedDeals ==
  ASSUME BytesAreDigits
  PROVE  Spec => []VerifiedDealIsTheCommittedOne
<1>1. TableInv => VerifiedDealIsTheCommittedOne
  <2> SUFFICES ASSUME TableInv, Dealt
               PROVE  /\ drawn = SubSeq(deck.cards, 1, deck.cursor)
                      /\ ToSet(deck.cards) = Cards
                      /\ \A e \in log : /\ IsPrefix(SubSeq(drawn, 1, HandSize), e[2])
                                        /\ e[2] = Replay(seed).cards
                      /\ shuffles = <<0>> =>
                           /\ VerifyShuffleOrder(commitment, seed, deck.cards)
                           /\ VerifyShuffle(commitment, seed, deck) <=> deck.cursor = 0
    BY DEF VerifiedDealIsTheCommittedOne
  <2>1. /\ deck = [cards |-> deck.cards, cursor |-> deck.cursor]
        /\ deck.cards \in Seq(Cards) /\ Len(deck.cards) \in Nat
        /\ deck.cursor \in 0 .. Len(deck.cards)
        /\ ToSet(deck.cards) = Cards
        /\ drawn \in Seq(Cards) /\ Len(drawn) = deck.cursor
        /\ \A i \in 1 .. deck.cursor : drawn[i] = deck.cards[i]
    BY DEF TableInv, DeckInv
  <2>2. drawn = SubSeq(deck.cards, 1, deck.cursor)
    <3> DEFINE front == SubSeq(deck.cards, 1, deck.cursor)
    <3>1. /\ front \in Seq(Cards) /\ Len(front) = deck.cursor
          /\ \A i \in 1 .. deck.cursor : front[i] = deck.cards[i]
      BY <2>1
    <3> HIDE DEF front
    <3>2. drawn = front
      BY <2>1, <3>1, SameCards
    <3> QED
      BY <3>2 DEF front
  <2>3. ASSUME NEW e \in log
        PROVE  IsPrefix(SubSeq(drawn, 1, HandSize), e[2]) /\ e[2] = Replay(seed).cards
    <3>1. /\ e[2] = Replay(seed).cards
          /\ e[2] \in Seq(Cards) /\ HandSize <= Len(e[2])
          /\ HandSize <= Len(drawn) /\ HandSize \in Nat
          /\ \A i \in 1 .. HandSize : e[2][i] = drawn[i]
      BY DEF TableInv, ReceiptInv, HandSize
    <3> DEFINE a == SubSeq(drawn, 1, HandSize)
               b == SubSeq(e[2], 1, HandSize)
    <3>2. /\ a \in Seq(Cards) /\ Len(a) = HandSize
          /\ \A i \in 1 .. HandSize : a[i] = drawn[i]
      BY <2>1, <3>1
    <3>3. /\ b \in Seq(Cards) /\ Len(b) = HandSize
          /\ \A i \in 1 .. HandSize : b[i] = e[2][i]
      BY <3>1
    <3> HIDE DEF a, b
    <3>4. a = b
      BY <3>1, <3>2, <3>3, SameCards
    <3>5. IsPrefix(a, e[2])
      <4>1. SubSeq(e[2], 1, HandSize) = b
        BY DEF b
      <4>2. a \in Seq(Cards) /\ HandSize \in Nat
        BY <3>1, <3>2
      <4>3. SubSeq(a, 1, HandSize) = a
        <5> DEFINE c == SubSeq(a, 1, HandSize)
        <5>1. c \in Seq(Cards) /\ Len(c) = HandSize /\ \A i \in 1 .. HandSize : c[i] = a[i]
          BY <3>2, <4>2
        <5> HIDE DEF c
        <5>2. c = a
          BY <3>2, <5>1, SameCards
        <5> QED
          BY <5>2 DEF c
      <4> QED
        BY <3>1, <3>2, <3>4, <4>1, <4>3, Zenon DEF IsPrefix
    <3> QED
      BY <3>1, <3>5 DEF a
  <2>4. ASSUME shuffles = << 0 >>
        PROVE  /\ VerifyShuffleOrder(commitment, seed, deck.cards)
               /\ VerifyShuffle(commitment, seed, deck) <=> deck.cursor = 0
    <3>1. commitment = Commit(seed) /\ deck.cards = Replay(seed).cards
      BY <2>4 DEF TableInv, ReceiptInv
    <3>2. Replay(seed) = [cards |-> Replay(seed).cards, cursor |-> 0]
      BY ReplayIsADeck
    <3>3. deck = Replay(seed) <=> deck.cursor = 0
      BY <2>1, <3>1, <3>2
    <3> QED
      BY <3>1, <3>3 DEF VerifyShuffleOrder, VerifyShuffle
  <2> QED
    BY <2>1, <2>2, <2>3, <2>4
<1> QED
  BY <1>1, TableInvHolds, PTL
=============================================================================
