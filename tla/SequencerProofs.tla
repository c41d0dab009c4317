--------------------------- MODULE SequencerProofs ---------------------------
(***************************************************************************)
(* What is proved of the time a run takes and of the points of a sweep, by *)
(* induction over the items of a program and over the points, for any      *)
(* programs, commands, runners and restarts.                               *)
(***************************************************************************)
EXTENDS SetpointsProofs

-----------------------------------------------------------------------------
(* Numbers.                                                                *)

(* A set with 0 and the successor of each of its numbers has them all: the *)
(* least number it had not would have a predecessor in it.                 *)
LEMMA ByInduction ==
  ASSUME NEW T, 0 \in T, \A n \in Nat : n \in T => n + 1 \in T
  PROVE  Nat \subseteq T
<1> DEFINE R == OpToRel(<, Nat)
           U == Nat \ T
<1>1. IsWellFoundedOn(R, Nat) BY NatLessThanWellFounded
<1>2. \A x, y \in Nat : x < y => <<x, y>> \in R BY DEF OpToRel
<1> SUFFICES ASSUME U # {} PROVE FALSE OBVIOUS
<1> HIDE DEF R
<1>3. PICK n \in U : \A m \in U : <<m, n>> \notin R BY <1>1, WFMin
<1>4. n \in Nat \ {0} /\ n - 1 \in Nat BY <1>3
<1>5. n - 1 \in U
  <2>1. n \notin T /\ (n - 1) + 1 = n BY <1>3, <1>4
  <2> QED BY <1>4, <2>1
<1>6. <<n - 1, n>> \in R BY <1>2, <1>4
<1> QED BY <1>3, <1>5, <1>6

LEMMA TimesNat == \A a, b \in Nat : a * b \in Nat
OBVIOUS

LEMMA TimesGrow == \A a, b, c \in Nat : a <= b => a * c <= b * c
<1> SUFFICES ASSUME NEW a \in Nat, NEW b \in Nat, NEW c \in Nat, a <= b
             PROVE  a * c <= b * c
  OBVIOUS
<1>1. PICK d \in Nat : b = a + d
  <2>1. b - a \in Nat /\ b = a + (b - a) OBVIOUS
  <2> QED BY <2>1
<1>2. (a + d) * c = a * c + d * c OBVIOUS
<1>3. a * c \in Nat /\ d * c \in Nat BY TimesNat
<1> QED BY <1>1, <1>2, <1>3

LEMMA Quotient ==
  ASSUME NEW a \in Nat, NEW b \in Nat \ {0}
  PROVE  /\ a \div b \in Nat
         /\ (a \div b) * b <= a /\ a < (a \div b + 1) * b
OBVIOUS

-----------------------------------------------------------------------------
(* Sweep.values: the loop `while ...: vs.append(sp); sp += signed_step'    *)
(* leaves vs.                                                              *)
Increment(i) == IF i.to < i.from THEN -Abs(i.by) ELSE Abs(i.by)
Goes(i, sp)  == IF i.to < i.from THEN sp >= i.to ELSE sp <= i.to
Looped(i, vs) ==
  /\ vs # <<>> /\ vs[1] = i.from
  /\ \A n \in 1 .. Len(vs) : Goes(i, vs[n])
  /\ \A n \in 1 .. Len(vs) - 1 : vs[n + 1] = vs[n] + Increment(i)
  /\ ~Goes(i, vs[Len(vs)] + Increment(i))

(* The loop goes on at the k-th increment when the distance allows it.     *)
LEMMA GoesWhile ==
  ASSUME NEW i, i.from \in Int, i.to \in Int, i.by \in Int, i.by # 0, i.from # i.to,
         NEW k \in Nat
  PROVE  /\ i.from + k * Increment(i) \in Int
         /\ Goes(i, i.from + k * Increment(i)) <=> k * Abs(i.by) <= Abs(i.to - i.from)
         /\ i.from + (k + 1) * Increment(i) = i.from + k * Increment(i) + Increment(i)
<1>1. PICK b \in Nat : b = Abs(i.by) BY DEF Abs
<1>2. PICK m \in Nat : m = k * b BY <1>1, TimesNat
<1>3. k * (-b) = -m /\ (k + 1) * b = m + b /\ (k + 1) * (-b) = -m - b BY <1>2
<1>4. CASE i.to < i.from
  <2>1. Increment(i) = -b /\ Abs(i.to - i.from) = i.from - i.to BY <1>1, <1>4 DEF Increment, Abs
  <2>2. Goes(i, i.from + (-m)) <=> i.from + (-m) >= i.to BY <1>4 DEF Goes
  <2>3. i.from + (-m) >= i.to <=> m <= i.from - i.to OBVIOUS
  <2> QED BY <1>1, <1>2, <1>3, <2>1, <2>2, <2>3
<1>5. CASE ~(i.to < i.from)
  <2>1. Increment(i) = b /\ Abs(i.to - i.from) = i.to - i.from BY <1>1, <1>5 DEF Increment, Abs
  <2>2. Goes(i, i.from + m) <=> i.from + m <= i.to BY <1>5 DEF Goes
  <2>3. i.from + m <= i.to <=> m <= i.to - i.from OBVIOUS
  <2> QED BY <1>1, <1>2, <1>3, <2>1, <2>2, <2>3
<1> QED BY <1>4, <1>5

(* The points of a sweep are those the loop goes through, and no others.   *)
THEOREM SweepAsLooped ==
  ASSUME NEW i, i.from \in Int, i.to \in Int, i.by \in Int, i.by # 0, i.from # i.to,
         NEW vs \in Seq(Int)
  PROVE  Looped(i, vs) <=> vs = Values(i)
<1> DEFINE s == Increment(i)
           b == Abs(i.by)
           a == Abs(i.to - i.from)
           d == a \div b
           Along(k) == i.from + k * s
<1>1. a \in Nat /\ b \in Nat \ {0} /\ s \in Int BY DEF Abs, Increment
<1>2. d \in Nat /\ d * b <= a /\ a < (d + 1) * b BY <1>1, Quotient
<1>3. ASSUME NEW k \in Nat
      PROVE  /\ Along(k) \in Int /\ (Goes(i, Along(k)) <=> k * b <= a)
             /\ Along(k + 1) = Along(k) + s
  BY GoesWhile
<1>4. Values(i) = [n \in 1 .. 1 + d |-> Along(n - 1)] BY DEF Values, Increment
<1>5. Along(0) = i.from BY <1>1
<1> HIDE DEF s, d, Along, a, b
<1>6. ASSUME NEW k \in Nat PROVE k * b <= a <=> k <= d
  <2>1. k * b \in Nat /\ d * b \in Nat /\ (d + 1) * b \in Nat BY <1>1, <1>2, TimesNat
  <2>2. CASE k <= d
    <3>1. k * b <= d * b BY <1>1, <1>2, <2>2, TimesGrow
    <3> QED BY <1>1, <1>2, <2>1, <2>2, <3>1
  <2>3. CASE ~(k <= d)
    <3>1. d + 1 <= k /\ d + 1 \in Nat BY <1>2, <2>3
    <3>2. (d + 1) * b <= k * b BY <1>1, <3>1, TimesGrow
    <3> QED BY <1>1, <1>2, <2>1, <2>3, <3>2
  <2> QED BY <2>2, <2>3
<1>7. ASSUME vs = Values(i) PROVE Looped(i, vs)
  <2>1. Len(vs) = 1 + d /\ \A n \in 1 .. 1 + d : vs[n] = Along(n - 1)
    <3>1. \A n \in 1 .. 1 + d : Along(n - 1) \in Int
      <4>1. \A n \in 1 .. 1 + d : n - 1 \in Nat BY <1>2
      <4> QED BY <1>3, <4>1
    <3>2. vs \in [1 .. 1 + d -> Int] BY <1>4, <1>7, <3>1
    <3>3. 1 + d \in Nat BY <1>2
    <3> QED BY <1>4, <1>7, <3>2, <3>3, Listing
  <2>2. vs # <<>> /\ vs[1] = i.from
    <3>1. 1 \in 1 .. 1 + d /\ 1 - 1 = 0 BY <1>2
    <3> QED BY <1>2, <1>5, <2>1, <3>1
  <2>3. ASSUME NEW n \in 1 .. Len(vs) PROVE Goes(i, vs[n])
    <3>1. n - 1 \in Nat /\ n - 1 <= d BY <1>2, <2>1
    <3> QED BY <1>3, <1>6, <2>1, <3>1
  <2>4. ASSUME NEW n \in 1 .. Len(vs) - 1 PROVE vs[n + 1] = vs[n] + s
    <3>1. /\ n \in 1 .. 1 + d /\ n + 1 \in 1 .. 1 + d /\ n - 1 \in Nat
          /\ (n + 1) - 1 = (n - 1) + 1
      BY <1>2, <2>1
    <3> QED BY <1>3, <2>1, <3>1
  <2>5. ~Goes(i, vs[Len(vs)] + s)
    <3>1. Len(vs) \in 1 .. 1 + d /\ Len(vs) - 1 = d /\ d + 1 \in Nat /\ ~(d + 1 <= d)
      BY <1>2, <2>1
    <3>2. vs[Len(vs)] = Along(d) BY <2>1, <3>1
    <3> QED BY <1>2, <1>3, <1>6, <3>1, <3>2
  <2> QED BY <2>2, <2>3, <2>4, <2>5 DEF Looped, s
<1>8. ASSUME Looped(i, vs) PROVE vs = Values(i)
  <2>1. /\ vs # <<>> /\ vs[1] = i.from
        /\ \A n \in 1 .. Len(vs) : Goes(i, vs[n])
        /\ \A n \in 1 .. Len(vs) - 1 : vs[n + 1] = vs[n] + s
        /\ ~Goes(i, vs[Len(vs)] + s)
    BY <1>8 DEF Looped, s
  <2>2. Len(vs) \in Nat \ {0} /\ DOMAIN vs = 1 .. Len(vs)
    BY <2>1, LenProperties, EmptySeq
  <2> DEFINE T == {k \in Nat : k + 1 <= Len(vs) => vs[k + 1] = Along(k)}
  <2>3. 0 \in T BY <1>5, <2>1
  <2>4. ASSUME NEW k \in Nat, k \in T, (k + 1) + 1 <= Len(vs)
        PROVE  vs[(k + 1) + 1] = Along(k + 1)
    <3>1. k + 1 \in 1 .. Len(vs) - 1 /\ vs[k + 1] = Along(k) BY <2>2, <2>4
    <3> QED BY <1>3, <2>1, <3>1
  <2>5. \A k \in Nat : k \in T => k + 1 \in T BY <2>4
  <2>6. Nat \subseteq T
    <3> HIDE DEF T
    <3> QED BY <2>3, <2>5, ByInduction
  <2>7. ASSUME NEW n \in 1 .. Len(vs) PROVE vs[n] = Along(n - 1)
    <3>1. n - 1 \in Nat /\ (n - 1) + 1 = n /\ n <= Len(vs) BY <2>2
    <3> QED BY <2>6, <3>1
  <2>8. Len(vs) = 1 + d
    <3>1. PICK k \in Nat : Len(vs) = k + 1
      <4>1. Len(vs) - 1 \in Nat /\ Len(vs) = (Len(vs) - 1) + 1 BY <2>2
      <4> QED BY <4>1
    <3>2. k + 1 \in 1 .. Len(vs) /\ (k + 1) - 1 = k /\ k + 1 \in Nat BY <3>1
    <3>3. vs[Len(vs)] = Along(k) BY <2>7, <3>1, <3>2
    <3>4. k * b <= a BY <1>3, <2>1, <3>1, <3>2, <3>3
    <3>5. ~((k + 1) * b <= a) BY <1>3, <2>1, <3>2, <3>3
    <3>6. k <= d /\ ~(k + 1 <= d) BY <1>6, <3>2, <3>4, <3>5
    <3> QED BY <1>2, <3>1, <3>6
  <2>9. vs = [n \in 1 .. Len(vs) |-> vs[n]] BY <2>2
  <2> QED BY <1>4, <2>7, <2>8, <2>9
<1> QED BY <1>7, <1>8

-----------------------------------------------------------------------------
(* RunOnTime: what a run has taken and what its items hold.                *)

Duration(i) == Points(i) * i.hold

LEMMA DurationIs == ASSUME NEW i \in Items PROVE Duration(i) \in Nat
BY ItemKinds, TimesNat DEF Duration

(* The first k items hold for t[k].                                        *)
Adds(prog, k, t) ==
  /\ t \in [0 .. k -> Nat] /\ t[0] = 0
  /\ \A n \in 1 .. k : t[n] = t[n - 1] + Duration(prog[n])

LEMMA HoldsExist ==
  ASSUME NEW prog \in Seq(Items)
  PROVE  \E t : Adds(prog, Len(prog), t)
<1> DEFINE T == {k \in Nat : k <= Len(prog) => \E t : Adds(prog, k, t)}
<1>1. Len(prog) \in Nat /\ \A n \in 1 .. Len(prog) : Duration(prog[n]) \in Nat
  BY LenProperties, ElementOfSeq, DurationIs
<1>2. 0 \in T
  <2>1. Adds(prog, 0, [n \in 0 .. 0 |-> 0]) BY DEF Adds
  <2> QED BY <2>1
<1>3. ASSUME NEW k \in Nat, k \in T, k + 1 <= Len(prog) PROVE \E t : Adds(prog, k + 1, t)
  <2>1. PICK t : Adds(prog, k, t) BY <1>1, <1>3
  <2> DEFINE u == [n \in 0 .. k + 1 |-> IF n = k + 1 THEN t[k] + Duration(prog[k + 1]) ELSE t[n]]
  <2>2. t[k] \in Nat /\ Duration(prog[k + 1]) \in Nat BY <1>1, <1>3, <2>1 DEF Adds
  <2>3. u \in [0 .. k + 1 -> Nat] BY <2>1, <2>2 DEF Adds
  <2>4. u[0] = 0 BY <1>3, <2>1 DEF Adds
  <2>5. ASSUME NEW n \in 1 .. k + 1 PROVE u[n] = u[n - 1] + Duration(prog[n])
    <3>1. CASE n = k + 1 BY <1>3, <3>1
    <3>2. CASE n # k + 1
      <4>1. n \in 1 .. k /\ n - 1 \in 0 .. k + 1 /\ n \in 0 .. k + 1 /\ n - 1 # k + 1
        BY <1>3, <3>2
      <4>2. u[n] = t[n] /\ u[n - 1] = t[n - 1] BY <3>2, <4>1
      <4> QED BY <2>1, <4>1, <4>2 DEF Adds
    <3> QED BY <3>1, <3>2
  <2> HIDE DEF u
  <2>6. Adds(prog, k + 1, u) BY <2>3, <2>4, <2>5 DEF Adds
  <2> QED BY <2>6
<1>4. \A k \in Nat : k \in T => k + 1 \in T BY <1>3
<1>5. Nat \subseteq T
  <2> HIDE DEF T
  <2> QED BY <1>2, <1>4, ByInduction
<1> QED BY <1>1, <1>5

LEMMA HoldsAdd ==
  ASSUME NEW prog \in Seq(Items) PROVE Adds(prog, Len(prog), HoldsUpTo(prog))
<1>1. Len(prog) \in Nat BY LenProperties
<1>2. PICK t : Adds(prog, Len(prog), t) BY HoldsExist
<1>3. t = [n \in 0 .. Len(prog) |->
             IF n = 0 THEN 0 ELSE t[n - 1] + Points(prog[n]) * prog[n].hold]
  <2>1. \A n \in 0 .. Len(prog) :
          t[n] = IF n = 0 THEN 0 ELSE t[n - 1] + Points(prog[n]) * prog[n].hold
    BY <1>1, <1>2 DEF Adds, Duration
  <2> QED BY <1>2, <2>1 DEF Adds
<1>4. HoldsUpTo(prog) = [n \in 0 .. Len(prog) |->
        IF n = 0 THEN 0 ELSE HoldsUpTo(prog)[n - 1] + Points(prog[n]) * prog[n].hold]
  BY <1>3, Zenon DEF HoldsUpTo
<1>5. HoldsUpTo(prog)[0] = 0 BY <1>1, <1>4
<1>6. \A n \in 1 .. Len(prog) :
        HoldsUpTo(prog)[n] = HoldsUpTo(prog)[n - 1] + Duration(prog[n])
  BY <1>1, <1>4 DEF Duration
<1> DEFINE H == HoldsUpTo(prog)
           T == {k \in Nat : k <= Len(prog) => H[k] \in Nat}
<1>7. 0 \in T BY <1>5
<1>8. ASSUME NEW k \in Nat, k \in T, k + 1 <= Len(prog) PROVE H[k + 1] \in Nat
  <2>1. k + 1 \in 1 .. Len(prog) /\ (k + 1) - 1 = k /\ H[k] \in Nat BY <1>1, <1>8
  <2>2. H[k + 1] = H[k] + Duration(prog[k + 1]) BY <1>6, <2>1
  <2>3. Duration(prog[k + 1]) \in Nat BY <2>1, ElementOfSeq, DurationIs
  <2> QED BY <2>1, <2>2, <2>3
<1>9. \A k \in Nat : k \in T => k + 1 \in T BY <1>8
<1>10. Nat \subseteq T
  <2> HIDE DEF T
  <2> QED BY <1>7, <1>9, ByInduction
<1>11. H \in [0 .. Len(prog) -> Nat]
  <2>1. \A k \in 0 .. Len(prog) : H[k] \in Nat BY <1>1, <1>10
  <2>2. H = [k \in 0 .. Len(prog) |-> H[k]] BY <1>4
  <2> QED BY <2>1, <2>2
<1> QED BY <1>5, <1>6, <1>11 DEF Adds

LEMMA HoldsGrow ==
  ASSUME NEW prog \in Seq(Items), NEW k \in 0 .. Len(prog)
  PROVE  /\ HoldsUpTo(prog)[k] \in Nat
         /\ HoldsUpTo(prog)[k] <= HoldsUpTo(prog)[Len(prog)]
<1> DEFINE H == HoldsUpTo(prog)
           T == {j \in Nat : k + j <= Len(prog) => H[k] <= H[k + j]}
<1>1. Len(prog) \in Nat BY LenProperties
<1>2. /\ H \in [0 .. Len(prog) -> Nat]
      /\ \A n \in 1 .. Len(prog) : H[n] = H[n - 1] + Duration(prog[n])
  BY HoldsAdd DEF Adds
<1> HIDE DEF H
<1>3. H[k] \in Nat BY <1>2
<1>4. 0 \in T BY <1>1, <1>3
<1>5. ASSUME NEW j \in Nat, j \in T, k + (j + 1) <= Len(prog) PROVE H[k] <= H[k + (j + 1)]
  <2>1. PICK n \in 1 .. Len(prog) : n = k + (j + 1) /\ n - 1 = k + j BY <1>1, <1>5
  <2>2. H[n] = H[n - 1] + Duration(prog[n]) /\ H[n - 1] \in Nat BY <1>1, <1>2, <2>1
  <2>3. Duration(prog[n]) \in Nat BY <2>1, ElementOfSeq, DurationIs
  <2>4. H[k] <= H[n - 1] BY <1>1, <1>5, <2>1
  <2>5. H[k] <= H[n] BY <1>3, <2>2, <2>3, <2>4
  <2> QED BY <2>1, <2>5
<1>6. \A j \in Nat : j \in T => j + 1 \in T BY <1>5
<1>7. Nat \subseteq T
  <2> HIDE DEF T
  <2> QED BY <1>4, <1>6, ByInduction
<1>8. PICK j \in Nat : k + j = Len(prog)
  <2>1. Len(prog) - k \in Nat /\ k + (Len(prog) - k) = Len(prog) BY <1>1
  <2> QED BY <2>1
<1>9. H[k] <= H[Len(prog)] BY <1>1, <1>7, <1>8
<1> QED BY <1>3, <1>9 DEF H

(* What a run that has begun has had of the time its items hold; it is to  *)
(* wait no longer than its item holds.                                     *)
Spent(o) ==
  IF o.idx > Len(o.prog) THEN HoldsUpTo(o.prog)[Len(o.prog)]
  ELSE LET hold == o.prog[o.idx].hold IN
       HoldsUpTo(o.prog)[o.idx - 1] + (o.sub - 1) * hold
       + IF o.pc = "next" THEN 0 ELSE hold - o.left
Due(o) == o.pc \in Begun /\ o.pc # "next" => o.left <= o.prog[o.idx].hold
TimeInv ==
  /\ ranFor \in Nat
  /\ \A r \in Runners : Due(runner[r]) /\ (runner[r].pc \in Begun => ranFor <= Spent(runner[r]))

(* A runner at an item has had the points before and some of this one.     *)
LEMMA SpentAt ==
  ASSUME NEW o, Sound(o), o.pc \in Begun, o.idx <= Len(o.prog)
  PROVE  /\ o.prog[o.idx].hold \in Nat /\ o.left \in Nat
         /\ o.sub \in 1 .. Points(o.prog[o.idx]) /\ Points(o.prog[o.idx]) \in Nat
         /\ (o.sub - 1) * o.prog[o.idx].hold \in Nat
         /\ o.sub * o.prog[o.idx].hold = (o.sub - 1) * o.prog[o.idx].hold + o.prog[o.idx].hold
         /\ o.sub * o.prog[o.idx].hold <= Duration(o.prog[o.idx])
         /\ HoldsUpTo(o.prog)[o.idx - 1] \in Nat
         /\ HoldsUpTo(o.prog)[o.idx] = HoldsUpTo(o.prog)[o.idx - 1] + Duration(o.prog[o.idx])
         /\ HoldsUpTo(o.prog)[o.idx] <= HoldsUpTo(o.prog)[Len(o.prog)]
         /\ HoldsUpTo(o.prog)[Len(o.prog)] \in Nat
<1>1. /\ o.prog \in Seq(Items) /\ Len(o.prog) \in Nat /\ o.left \in Nat
      /\ o.idx \in 1 .. Len(o.prog) /\ o.sub \in 1 .. Points(o.prog[o.idx])
  <2>1. o.prog \in Seq(Items) /\ o.left \in Nat BY DEF Sound, Runner
  <2> QED BY <2>1, LenProperties DEF Sound
<1>2. PICK h : h = o.prog[o.idx].hold OBVIOUS
<1>3. PICK p : p = Points(o.prog[o.idx]) OBVIOUS
<1>4. h \in Nat /\ p \in Nat /\ o.sub \in 1 .. p
  <2>1. o.prog[o.idx] \in Items BY <1>1, ElementOfSeq
  <2> QED BY <1>1, <1>2, <1>3, <2>1, ItemKinds
<1>5. PICK s \in Nat : s = o.sub - 1 /\ o.sub = s + 1 BY <1>4
<1>6. s * h \in Nat BY <1>4, TimesNat
<1>7. (s + 1) * h = s * h + h BY <1>4
<1>8. (s + 1) * h <= p * h BY <1>4, <1>5, TimesGrow
<1>9. p * h = Duration(o.prog[o.idx]) BY <1>2, <1>3 DEF Duration
<1>10. /\ HoldsUpTo(o.prog)[o.idx - 1] \in Nat
       /\ HoldsUpTo(o.prog)[o.idx] = HoldsUpTo(o.prog)[o.idx - 1] + Duration(o.prog[o.idx])
  BY <1>1, HoldsAdd DEF Adds
<1>11. /\ HoldsUpTo(o.prog)[o.idx] <= HoldsUpTo(o.prog)[Len(o.prog)]
       /\ HoldsUpTo(o.prog)[Len(o.prog)] \in Nat
  BY <1>1, HoldsGrow
<1>12. /\ (o.sub - 1) * o.prog[o.idx].hold = s * h
       /\ o.sub * o.prog[o.idx].hold = (s + 1) * h
  BY <1>2, <1>5
<1> QED BY <1>1, <1>2, <1>3, <1>4, <1>6, <1>7, <1>8, <1>9, <1>10, <1>11, <1>12

LEMMA SpentIs ==
  ASSUME NEW o, Sound(o), o.pc \in Begun, Due(o)
  PROVE  Spent(o) \in Nat /\ Spent(o) <= HoldsUpTo(o.prog)[Len(o.prog)]
<1>1. CASE o.idx > Len(o.prog)
  <2>1. Len(o.prog) \in 0 .. Len(o.prog) /\ o.prog \in Seq(Items)
    BY LenProperties DEF Sound, Runner
  <2> QED BY <1>1, <2>1, HoldsGrow DEF Spent
<1>2. CASE ~(o.idx > Len(o.prog))
  <2>1. o.idx <= Len(o.prog)
    <3>1. o.prog \in Seq(Items) /\ o.idx \in Nat BY DEF Sound, Runner
    <3> QED BY <1>2, <3>1, LenProperties
  <2> DEFINE h == o.prog[o.idx].hold
             w == IF o.pc = "next" THEN 0 ELSE h - o.left
  <2>2. w \in Nat /\ w <= h BY <2>1, SpentAt DEF Due
  <2>3. Spent(o) = HoldsUpTo(o.prog)[o.idx - 1] + (o.sub - 1) * h + w BY <1>2 DEF Spent
  <2> HIDE DEF w
  <2>4. PICK m \in Nat : m = (o.sub - 1) * h /\ m + h <= Duration(o.prog[o.idx])
    BY <2>1, SpentAt
  <2>5. PICK b \in Nat : /\ b = HoldsUpTo(o.prog)[o.idx - 1]
                         /\ b + Duration(o.prog[o.idx]) <= HoldsUpTo(o.prog)[Len(o.prog)]
    BY <2>1, SpentAt
  <2>6. HoldsUpTo(o.prog)[Len(o.prog)] \in Nat /\ Duration(o.prog[o.idx]) \in Nat /\ h \in Nat
    <3>1. o.prog[o.idx] \in Items
      <4>1. o.prog \in Seq(Items) /\ o.idx \in 1 .. Len(o.prog)
        BY <2>1, LenProperties DEF Sound, Runner
      <4> QED BY <4>1, ElementOfSeq
    <3> QED BY <2>1, <3>1, SpentAt, DurationIs
  <2>7. Spent(o) = b + m + w BY <2>3, <2>4, <2>5
  <2>8. PICK n \in Nat, d \in Nat, k \in Nat, x \in Nat :
          /\ n = HoldsUpTo(o.prog)[Len(o.prog)] /\ d = Duration(o.prog[o.idx]) /\ k = h /\ x = w
    BY <2>2, <2>6
  <2>9. x <= k /\ m + k <= d /\ b + d <= n BY <2>2, <2>4, <2>5, <2>8
  <2>10. b + m + x \in Nat /\ b + m + x <= n BY <2>9
  <2> QED BY <2>7, <2>8, <2>10
<1> QED BY <1>1, <1>2

(* A thread that begins has had no time, and the others go on.             *)
LEMMA Starts ==
  ASSUME TypeInv, NEW r \in Runners, RunnerStep(r), At(r, "starting")
  PROVE  /\ ranFor' = 0 /\ \A s \in Runners \ {r} : runner'[s] = runner[s]
         /\ Due(runner'[r])
         /\ runner'[r].pc \in Begun => Spent(runner'[r]) = 0
<1> DEFINE o == runner[r]
<1>1. /\ Sound(o) /\ o.prog \in Seq(Items) /\ Len(o.prog) \in Nat
      /\ runner \in [Runners -> Runner]
  BY RunnerIs DEF TypeInv, SequencerTypes
<1>2. Begin(r) \/ Send(r)
  BY DEF RunnerStep, Runs, End, Enter, Tracked, Held, At
<1>3. ranFor' = 0 BY DEF RunnerStep
<1>4. CASE Begin(r)
  <2>1. PICK x : x = [o EXCEPT !.pc = "next", !.idx = 1, !.sub = 1] OBVIOUS
  <2>2. runner' = [runner EXCEPT ![r] = x] BY <1>4, <2>1 DEF Begin
  <2>3. x.pc = "next" /\ x.idx = 1 /\ x.sub = 1 /\ x.prog = o.prog
    BY <1>1, <2>1 DEF Sound, Runner
  <2>4. HoldsUpTo(o.prog)[0] = 0 BY <1>1, HoldsAdd DEF Adds
  <2>5. Len(o.prog) = 0 => Spent(x) = 0 BY <2>3, <2>4 DEF Spent
  <2>6. CASE Len(o.prog) # 0
    <3>1. o.prog[1].hold \in Nat BY <1>1, <2>6, ElementOfSeq, ItemKinds
    <3>2. Spent(x) = HoldsUpTo(o.prog)[1 - 1] + (1 - 1) * o.prog[1].hold + 0
      BY <1>1, <2>3, <2>6 DEF Spent
    <3>3. (1 - 1) * o.prog[1].hold = 0 BY <3>1
    <3>4. Spent(x) = 0 BY <2>4, <3>2, <3>3
    <3> QED BY <1>1, <1>3, <2>2, <2>3, <3>4 DEF Due
  <2> QED BY <1>1, <1>3, <2>2, <2>3, <2>5, <2>6 DEF Due
<1>5. CASE Send(r)
  <2>1. PICK x : x = [o EXCEPT !.todo = Tail(o.todo)] OBVIOUS
  <2>2. runner' = [runner EXCEPT ![r] = x] BY <1>5, <2>1 DEF Send
  <2>3. x.pc = "starting" BY <1>1, <2>1 DEF Sound, Runner, At
  <2> QED BY <1>1, <1>3, <2>2, <2>3 DEF Due, Begun
<1> QED BY <1>2, <1>4, <1>5

(* A step of a run takes no time: none is lost unless the run is stopped.  *)
LEMMA SpentGoes ==
  ASSUME TypeInv, NEW r \in Runners, RunnerStep(r), ~At(r, "starting"), Due(runner[r])
  PROVE  /\ ranFor' = ranFor /\ \A s \in Runners \ {r} : runner'[s] = runner[s]
         /\ Due(runner'[r])
         /\ runner'[r].pc \in Begun =>
              /\ runner[r].pc \in Begun
              /\ Spent(runner[r]) <= Spent(runner'[r])
              /\ ~abort => Spent(runner'[r]) = Spent(runner[r])
<1>1. TypeInv' /\ SequencerTypes /\ SequencerTypes' BY RunnerGoes DEF TypeInv
<1>2. runner \in [Runners -> Runner] /\ ranFor' = ranFor
  BY <1>1 DEF SequencerTypes, RunnerStep
<1> DEFINE o == runner[r]
<1>3. /\ Sound(o) /\ o.idx \in Nat /\ Len(o.prog) \in Nat
      /\ o.left \in Nat /\ Item(r) = o.prog[o.idx]
      /\ o.pc \in Begun /\ o.idx <= Len(o.prog) => Item(r) \in Items
  BY <1>1, RunnerIs DEF Item
<1>4. o.pc \in Begun => Spent(o) \in Nat BY <1>3, SpentIs
<1> DEFINE KeepsTime(x) ==
           x.pc \in Begun => /\ o.pc \in Begun
                             /\ Spent(o) <= Spent(x)
                             /\ ~abort => Spent(x) = Spent(o)
<1> HIDE DEF KeepsTime
<1>5. SUFFICES \E x : runner' = [runner EXCEPT ![r] = x] /\ Due(x) /\ KeepsTime(x)
  <2>1. PICK x : runner' = [runner EXCEPT ![r] = x] /\ Due(x) /\ KeepsTime(x) OBVIOUS
  <2>2. runner'[r] = x /\ \A s \in Runners \ {r} : runner'[s] = runner[s] BY <1>2, <2>1
  <2>3. Due(runner'[r]) /\ KeepsTime(runner'[r]) BY <2>1, <2>2
  <2> QED BY <1>2, <2>2, <2>3 DEF KeepsTime
<1>6. CASE End(r)
  <2>1. runner' = [runner EXCEPT ![r] = Idle] BY <1>6 DEF End
  <2>2. Due(Idle) /\ KeepsTime(Idle) BY DEF Due, KeepsTime, Begun, Idle
  <2> QED BY <2>1, <2>2
<1>7. CASE Enter(r)
  <2>1. o.pc = "next" /\ ~(o.idx > Len(o.prog)) BY <1>7 DEF Enter, At, Over
  <2> DEFINE i == Item(r)
             new == IF i.kind = "step" THEN Reconcile(i)
                    ELSE Writes([z \in i.targets |-> Values(i)[o.sub]])
             p == IF i.kind = "step" THEN "track" ELSE "hold"
  <2>2. PICK x : x = [o EXCEPT !.pc = p, !.left = i.hold, !.todo = new] OBVIOUS
  <2>3. runner' = [runner EXCEPT ![r] = x] BY <1>7, <2>2 DEF Enter
  <2> HIDE DEF new
  <2>4. x.pc = p /\ x.left = i.hold /\ x.idx = o.idx /\ x.sub = o.sub /\ x.prog = o.prog
    BY <1>3, <2>2 DEF Sound, Runner
  <2>5. p # "next" /\ i = o.prog[o.idx] /\ i.hold \in Nat
    BY <1>3, <2>1, SpentAt DEF Begun
  <2>6. Spent(x) = Spent(o) BY <2>1, <2>4, <2>5 DEF Spent
  <2>7. o.pc \in Begun BY <2>1 DEF Begun
  <2>8. Due(x) /\ KeepsTime(x) BY <1>4, <2>4, <2>5, <2>6, <2>7 DEF Due, KeepsTime
  <2> QED BY <2>3, <2>8
<1>8. CASE Send(r)
  <2>1. PICK x : x = [o EXCEPT !.todo = Tail(o.todo)] OBVIOUS
  <2>2. runner' = [runner EXCEPT ![r] = x] BY <1>8, <2>1 DEF Send
  <2>3. /\ x.pc = o.pc /\ x.left = o.left /\ x.idx = o.idx /\ x.sub = o.sub /\ x.prog = o.prog
    BY <1>3, <2>1 DEF Sound, Runner
  <2>4. Spent(x) = Spent(o) BY <2>3 DEF Spent
  <2>5. Due(x) /\ KeepsTime(x) BY <1>4, <2>3, <2>4 DEF Due, KeepsTime
  <2> QED BY <2>2, <2>5
<1>9. CASE Tracked(r)
  <2>1. o.pc = "track" /\ o.pc \in Begun BY <1>9 DEF Tracked, At, Begun
  <2>2. PICK x : x = [o EXCEPT !.pc = "hold", !.todo = Writes(Item(r).writes)] OBVIOUS
  <2>3. runner' = [runner EXCEPT ![r] = x] BY <1>9, <2>2 DEF Tracked
  <2>4. /\ x.pc = "hold" /\ x.left = o.left /\ x.idx = o.idx /\ x.sub = o.sub /\ x.prog = o.prog
    BY <1>3, <2>2 DEF Sound, Runner
  <2>5. Spent(x) = Spent(o) BY <2>1, <2>4 DEF Spent
  <2>6. Due(x) /\ KeepsTime(x) BY <1>4, <2>1, <2>4, <2>5 DEF Due, KeepsTime
  <2> QED BY <2>3, <2>6
<1>10. CASE Held(r)
  <2>1. o.pc = "hold" BY <1>10 DEF Held, At
  <2>2. abort \/ o.left = 0 BY <1>10 DEF Held
  <2>3. o.idx <= Len(o.prog) /\ o.pc \in Begun BY <1>3, <2>1 DEF Sound, Begun
  <2>4. o.idx \in 1 .. Len(o.prog) /\ ~(o.idx > Len(o.prog)) BY <1>3, <2>3 DEF Sound
  <2>5. PICK x : x = [o EXCEPT !.pc = "next", !.left = 0,
                               !.sub = IF Further(r) THEN o.sub + 1 ELSE 1,
                               !.idx = IF Further(r) THEN o.idx ELSE o.idx + 1]
    OBVIOUS
  <2>6. /\ x.pc = "next" /\ x.prog = o.prog
        /\ x.sub = IF Further(r) THEN o.sub + 1 ELSE 1
        /\ x.idx = IF Further(r) THEN o.idx ELSE o.idx + 1
    BY <1>3, <2>5 DEF Sound, Runner
  <2>7. runner' = [runner EXCEPT ![r] = x]
    <3>1. x = [pc |-> "next", prog |-> o.prog,
               idx |-> IF Further(r) THEN o.idx ELSE o.idx + 1,
               sub |-> IF Further(r) THEN o.sub + 1 ELSE 1,
               todo |-> o.todo, left |-> 0]
      BY <1>3, <2>5 DEF Sound, Runner
    <3>2. o = [pc |-> o.pc, prog |-> o.prog, idx |-> o.idx, sub |-> o.sub, todo |-> o.todo,
               left |-> o.left]
      BY <1>3 DEF Sound, Runner
    <3>3. o.idx \in Nat /\ o.sub \in Nat /\ o.prog \in Seq(Items) /\ o.todo \in Seq(Messages)
      BY <1>3 DEF Sound, Runner
    <3> QED BY <1>2, <1>3, <1>10, <3>1, <3>2, <3>3 DEF Held
  <2>8. Spent(o) <= Spent(x) /\ (~abort => Spent(x) = Spent(o))
    <3> DEFINE h == o.prog[o.idx].hold
    <3>1. PICK b \in Nat : /\ b = HoldsUpTo(o.prog)[o.idx - 1]
                           /\ HoldsUpTo(o.prog)[o.idx] = b + Duration(o.prog[o.idx])
      BY <1>3, <2>3, SpentAt
    <3>2. PICK m \in Nat : /\ m = (o.sub - 1) * h /\ o.sub * h = m + h
                           /\ m + h <= Duration(o.prog[o.idx])
      BY <1>3, <2>3, SpentAt
    <3>3. h \in Nat /\ Duration(o.prog[o.idx]) \in Nat
      BY <1>3, <2>3, SpentAt, DurationIs
    <3>4. Spent(o) = b + m + (h - o.left) BY <2>1, <2>4, <3>1, <3>2 DEF Spent
    <3>5. PICK n \in Nat, d \in Nat, k \in Nat :
            n = h /\ d = Duration(o.prog[o.idx]) /\ k = o.left /\ k <= n /\ m + n <= d
      BY <1>3, <2>1, <2>3, <3>2, <3>3 DEF Due
    <3>6. CASE Further(r)
      <4>1. o.left = 0 BY <2>2, <3>6 DEF Further
      <4>2. Spent(x) = b + ((o.sub + 1) - 1) * h + 0
        BY <2>4, <2>6, <3>1, <3>6 DEF Spent
      <4>3. (o.sub + 1) - 1 = o.sub
        <5>1. o.sub \in Nat BY <1>3 DEF Sound, Runner
        <5> QED BY <5>1
      <4>4. Spent(x) = b + (m + h) + 0 BY <3>2, <4>2, <4>3
      <4> QED BY <3>3, <3>4, <4>1, <4>4
    <3>7. CASE ~Further(r)
      <4>1. Spent(x) = HoldsUpTo(o.prog)[o.idx]
        <5>1. x.idx = o.idx + 1 /\ x.sub = 1 BY <2>6, <3>7
        <5>2. CASE o.idx = Len(o.prog) BY <1>3, <2>6, <5>1, <5>2 DEF Spent
        <5>3. CASE o.idx # Len(o.prog)
          <6>1. ~(x.idx > Len(x.prog)) BY <1>3, <2>4, <2>6, <5>1, <5>3
          <6>2. o.prog[o.idx + 1].hold \in Nat
            <7>1. o.idx + 1 \in 1 .. Len(o.prog) BY <1>3, <2>4, <5>3
            <7>2. o.prog \in Seq(Items) BY <1>3 DEF Sound, Runner
            <7> QED BY <7>1, <7>2, ElementOfSeq, ItemKinds
          <6>3. Spent(x) = HoldsUpTo(o.prog)[(o.idx + 1) - 1] + (1 - 1) * o.prog[o.idx + 1].hold + 0
            BY <2>6, <5>1, <6>1 DEF Spent
          <6>4. (1 - 1) * o.prog[o.idx + 1].hold = 0 BY <6>2
          <6>5. (o.idx + 1) - 1 = o.idx BY <1>3
          <6>6. HoldsUpTo(o.prog)[o.idx] \in Nat BY <3>1, <3>3
          <6> QED BY <6>3, <6>4, <6>5, <6>6
        <5> QED BY <5>2, <5>3
      <4>2. Spent(x) = b + d /\ Spent(o) = b + m + (n - k) BY <3>1, <3>4, <3>5, <4>1
      <4>3. b + m + (n - k) <= b + d BY <3>5
      <4>4. ASSUME ~abort PROVE b + m + (n - k) = b + d
        <5>1. k = 0 BY <2>2, <3>5, <4>4
        <5>2. o.sub = Points(o.prog[o.idx])
          <6>1. ~(o.sub < Points(o.prog[o.idx])) BY <1>3, <3>7, <4>4 DEF Further
          <6> QED BY <1>3, <2>3, <6>1, SpentAt
        <5>3. m + n = d BY <3>2, <3>5, <5>2 DEF Duration
        <5> QED BY <3>5, <5>1, <5>3
      <4> QED BY <4>2, <4>3, <4>4
    <3> QED BY <3>6, <3>7
  <2>9. Due(x) /\ KeepsTime(x) BY <2>3, <2>6, <2>8 DEF Due, KeepsTime
  <2> QED BY <2>7, <2>9
<1>11. Runs(r) BY DEF RunnerStep
<1> QED BY <1>6, <1>7, <1>8, <1>9, <1>10, <1>11 DEF Runs, Begin

(* A tick is a tick of every run that has begun.                           *)
LEMMA TickSpends ==
  ASSUME TypeInv, NEW r \in Runners, Tick, Due(runner[r])
  PROVE  /\ Due(runner'[r])
         /\ runner'[r].pc \in Begun =>
              runner[r].pc \in Begun /\ Spent(runner'[r]) = Spent(runner[r]) + 1
<1>1. /\ runner' = [q \in Runners |-> IF Waits(q) THEN [runner[q] EXCEPT !.left = @ - 1]
                                      ELSE runner[q]]
      /\ \A q \in Runners : At(q, "none") \/ Waits(q)
  BY DEF Tick, SequencerTick
<1> DEFINE o == runner[r]
           x == runner'[r]
<1>2. Sound(o) /\ o.left \in Nat /\ o.idx \in Nat /\ Len(o.prog) \in Nat
  BY RunnerIs DEF TypeInv
<1>3. CASE At(r, "none") /\ ~Waits(r) BY <1>1, <1>3 DEF Due, Begun, At
<1>4. CASE Waits(r)
  <2>1. o.pc = "hold" /\ o.left > 0 BY <1>4 DEF Waits, At
  <2>2. x = [o EXCEPT !.left = o.left - 1] BY <1>1, <1>4
  <2>3. x.pc = "hold" /\ x.prog = o.prog /\ x.idx = o.idx /\ x.sub = o.sub
        /\ x.left = o.left - 1
    BY <1>2, <2>1, <2>2 DEF Sound, Runner
  <2>4. o.idx <= Len(o.prog) /\ ~(o.idx > Len(o.prog)) /\ o.pc \in Begun
    BY <1>2, <2>1 DEF Sound, Begun
  <2> DEFINE h == o.prog[o.idx].hold
             m == HoldsUpTo(o.prog)[o.idx - 1] + (o.sub - 1) * h
  <2>5. m \in Nat /\ h \in Nat
    <3>1. /\ HoldsUpTo(o.prog)[o.idx - 1] \in Nat /\ (o.sub - 1) * h \in Nat /\ h \in Nat
      BY <1>2, <2>4, SpentAt
    <3> QED BY <3>1
  <2>6. Spent(o) = m + (h - o.left) /\ Spent(x) = m + (h - (o.left - 1))
    BY <2>1, <2>3, <2>4 DEF Spent
  <2> HIDE DEF m
  <2>7. o.left <= h BY <2>1, <2>4 DEF Due
  <2>8. x.left <= h /\ Spent(x) = Spent(o) + 1 BY <1>2, <2>3, <2>5, <2>6, <2>7
  <2> QED BY <2>3, <2>4, <2>8 DEF Due
<1> QED BY <1>1, <1>3, <1>4

LEMMA TimeStays ==
  ASSUME TypeInv, TimeInv, [Next]_vars PROVE TimeInv'
<1>0. \A r \in Runners : Sound(runner[r]) BY RunnerIs DEF TypeInv
<1>1. ASSUME UNCHANGED <<runner, ranFor>> PROVE TimeInv'
  BY <1>1 DEF TimeInv, Due
<1>2. ASSUME ranFor' \in Nat,
             \A r \in Runners : /\ Due(runner'[r])
                                /\ runner'[r].pc \in Begun => ranFor' <= Spent(runner'[r])
      PROVE  TimeInv'
  BY <1>2 DEF TimeInv, Due, Spent
<1>3. CASE ForSequencer
  <2>1. ranFor' = ranFor BY <1>3 DEF ForSequencer, second
  <2>2. CASE OnRun /\ Startable
    <3>1. PICK r \in Runners : Spawn(r) BY <2>2 DEF OnRun
    <3>2. /\ runner'[r].pc = "starting"
          /\ \A s \in Runners \ {r} : runner'[s] = runner[s]
      BY <3>1 DEF Spawn, Idle, TypeInv, SequencerTypes
    <3>3. Due(runner'[r]) /\ runner'[r].pc \notin Begun BY <3>2 DEF Due, Begun
    <3> QED BY <1>2, <2>1, <3>2, <3>3 DEF TimeInv
  <2>3. CASE ~(OnRun /\ Startable)
    <3>1. UNCHANGED runner BY <1>3, <2>3 DEF ForSequencer, OnSetProgram, OnAppend, OnClear,
          Edits, OnRun, OnStop
    <3> QED BY <1>1, <2>1, <3>1
  <2> QED BY <2>2, <2>3
<1>4. ASSUME NEW r \in Runners, RunnerStep(r) PROVE TimeInv'
  <2>1. CASE At(r, "starting")
    <3>1. \A s \in Runners : runner[s].pc \in Begun => 0 <= Spent(runner[s])
      BY <1>0, SpentIs DEF TimeInv
    <3> QED BY <1>2, <1>4, <2>1, <3>1, Starts DEF TimeInv
  <2>2. CASE ~At(r, "starting")
    <3>1. /\ ranFor' = ranFor /\ \A s \in Runners \ {r} : runner'[s] = runner[s]
          /\ Due(runner'[r])
          /\ runner'[r].pc \in Begun =>
               runner[r].pc \in Begun /\ Spent(runner[r]) <= Spent(runner'[r])
      BY <1>4, <2>2, SpentGoes DEF TimeInv
    <3>2. TypeInv' BY <1>4, RunnerGoes
    <3>3. Sound(runner'[r]) BY <3>2, RunnerIs DEF TypeInv, SequencerTypes, Sound, Item
    <3>4. runner'[r].pc \in Begun => ranFor <= Spent(runner'[r])
      <4> SUFFICES ASSUME runner'[r].pc \in Begun PROVE ranFor <= Spent(runner'[r]) OBVIOUS
      <4>1. Spent(runner[r]) \in Nat /\ Spent(runner'[r]) \in Nat
        BY <1>0, <3>1, <3>3, SpentIs DEF TimeInv
      <4> QED BY <3>1, <4>1 DEF TimeInv
    <3> QED BY <1>2, <3>1, <3>4 DEF TimeInv
  <2> QED BY <2>1, <2>2
<1>5. CASE Tick
  <2>1. ranFor' = IF running THEN ranFor + 1 ELSE 0 BY <1>5 DEF Tick
  <2>2. ranFor' \in Nat /\ ranFor' <= ranFor + 1 BY <2>1 DEF TimeInv
  <2>3. ASSUME NEW r \in Runners
        PROVE  Due(runner'[r]) /\ (runner'[r].pc \in Begun => ranFor' <= Spent(runner'[r]))
    <3>1. /\ Due(runner'[r])
          /\ runner'[r].pc \in Begun =>
               runner[r].pc \in Begun /\ Spent(runner'[r]) = Spent(runner[r]) + 1
      BY <1>5, TickSpends DEF TimeInv
    <3>2. runner[r].pc \in Begun => Spent(runner[r]) \in Nat /\ ranFor <= Spent(runner[r])
      BY <1>0, SpentIs DEF TimeInv
    <3> QED BY <2>2, <3>1, <3>2 DEF TimeInv
  <2> QED BY <1>2, <2>2, <2>3
<1>6. CASE Restart
  <2>1. ranFor' = 0 /\ runner' = [r \in Runners |-> Idle] BY <1>6 DEF Restart, SequencerStart
  <2>2. \A r \in Runners : Due(runner'[r]) /\ runner'[r].pc \notin Begun
    BY <2>1 DEF Due, Idle, Begun
  <2> QED BY <1>2, <2>1, <2>2
<1>7. ASSUME \/ \E i \in Moving, v \in Readings : Reads(i, v)
             \/ \E i \in Kept : ReadsAgain(i)
             \/ \E m \in Commands : Sends(m)
             \/ ForTrackers \/ ForGradient \/ StoreStep \/ TrackersStep \/ PollStep
             \/ UNCHANGED vars
      PROVE  TimeInv'
  <2>1. UNCHANGED <<runner, ranFor>>
    BY <1>7 DEF Reads, ReadsAgain, Sends, ForTrackers, ForGradient, StoreStep, TrackersStep, PollStep, vars,
       sequencing, second
  <2> QED BY <1>1, <2>1
<1> QED BY <1>3, <1>4, <1>5, <1>6, <1>7 DEF Next, Deliver

LEMMA TimeStarts == Init => TimeInv
BY DEF Init, SequencerInit, TimeInv, Due, Idle, Begun

(* A run that has begun has taken no more ticks than its items hold, for   *)
(* any program, points and commands, and whoever stops or starts the run.  *)
THEOREM RunsOnTime == Spec => []RunOnTime
<1>1. TypeInv /\ TimeInv /\ [Next]_vars => TimeInv' BY TimeStays
<1>2. TypeInv /\ TimeInv => RunOnTime
  <2> SUFFICES ASSUME TypeInv, TimeInv, NEW r \in Runners,
                      runner[r].pc \notin {"none", "starting"}
               PROVE  ranFor <= HoldsUpTo(runner[r].prog)[Len(runner[r].prog)]
    BY DEF RunOnTime
  <2>1. Sound(runner[r]) /\ runner[r].prog \in Seq(Items) /\ Len(runner[r].prog) \in Nat
    BY RunnerIs DEF TypeInv
  <2>2. runner[r].pc \in Begun BY <2>1 DEF Sound, Runner, Begun
  <2>3. ranFor \in Nat /\ Due(runner[r]) /\ ranFor <= Spent(runner[r]) BY <2>2 DEF TimeInv
  <2>4. Spent(runner[r]) \in Nat
        /\ Spent(runner[r]) <= HoldsUpTo(runner[r].prog)[Len(runner[r].prog)]
    BY <2>1, <2>2, <2>3, SpentIs
  <2>5. HoldsUpTo(runner[r].prog)[Len(runner[r].prog)] \in Nat
    BY <2>1, HoldsGrow
  <2> QED BY <2>3, <2>4, <2>5
<1> QED BY <1>1, <1>2, TimeStarts, TypesAlways, PTL DEF Spec

(* A run that ends and was not stopped has taken all the time its items    *)
(* hold (_run_sequence, _run_sweep): no item or point is passed over and   *)
(* no wait is cut short.                                                   *)
TakesItsTime ==
  [][\A r \in Runners : End(r) /\ ~abort =>
       ranFor = HoldsUpTo(runner[r].prog)[Len(runner[r].prog)]]_vars
FullInv == ~abort => \A r \in Runners : runner[r].pc \in Begun => ranFor = Spent(runner[r])

LEMMA FullStays ==
  ASSUME ~Eager, TypeInv, RunInv, TimeInv, FullInv, [Next]_vars PROVE FullInv'
<1>1. ASSUME UNCHANGED <<runner, ranFor>>, ~abort' => ~abort PROVE FullInv'
  BY <1>1 DEF FullInv, Spent
<1>2. ASSUME \A r \in Runners : ~abort' /\ runner'[r].pc \in Begun => ranFor' = Spent(runner'[r])
      PROVE  FullInv'
  BY <1>2 DEF FullInv, Spent
<1>3. CASE ForSequencer
  <2>1. CASE OnRun /\ Startable
    <3>1. PICK r \in Runners : Spawn(r) BY <2>1 DEF OnRun
    <3>2. /\ runner'[r].pc = "starting"
          /\ \A s \in Runners \ {r} : runner'[s] = runner[s]
      BY <3>1 DEF Spawn, Idle, TypeInv, SequencerTypes
    <3>3. \A s \in Runners : runner[s].pc \notin Begun BY <2>1 DEF Startable, RunInv
    <3>4. \A s \in Runners : runner'[s].pc \notin Begun BY <3>2, <3>3 DEF Begun
    <3> QED BY <1>2, <3>4
  <2>2. CASE ~(OnRun /\ Startable)
    <3>1. ranFor' = ranFor BY <1>3 DEF ForSequencer, second
    <3>2. CASE OnSetProgram \/ OnAppend \/ OnClear
      BY <1>1, <3>1, <3>2 DEF OnSetProgram, OnAppend, OnClear, Edits
    <3>3. CASE OnRun BY <1>1, <2>2, <3>1, <3>3 DEF OnRun
    <3>4. CASE OnStop
      <4>1. runner' = runner /\ abort' = (abort \/ running) BY <3>4 DEF OnStop
      <4> QED BY <1>1, <3>1, <4>1, Zenon
    <3> QED BY <1>3, <3>2, <3>3, <3>4 DEF ForSequencer
  <2> QED BY <2>1, <2>2
<1>4. ASSUME NEW r \in Runners, RunnerStep(r) PROVE FullInv'
  <2>1. abort' = abort BY <1>4 DEF RunnerStep, Runs, Begin, End, Enter, Send, Tracked, Held
  <2>2. CASE At(r, "starting")
    <3>1. \A s \in Runners \ {r} : runner[s].pc = "none" BY <2>2 DEF RunInv, At
    <3> QED BY <1>2, <1>4, <2>2, <3>1, Starts DEF Begun
  <2>3. CASE ~At(r, "starting")
    <3>1. /\ ranFor' = ranFor /\ \A s \in Runners \ {r} : runner'[s] = runner[s]
          /\ runner'[r].pc \in Begun =>
               /\ runner[r].pc \in Begun
               /\ ~abort => Spent(runner'[r]) = Spent(runner[r])
      BY <1>4, <2>3, SpentGoes DEF TimeInv
    <3> QED BY <1>2, <2>1, <3>1 DEF FullInv
  <2> QED BY <2>2, <2>3
<1>5. CASE Tick
  <2>1. /\ ranFor' = IF running THEN ranFor + 1 ELSE 0
        /\ abort' = abort
    BY <1>5 DEF Tick, SequencerTick
  <2>2. ASSUME NEW r \in Runners, ~abort', runner'[r].pc \in Begun
        PROVE  ranFor' = Spent(runner'[r])
    <3>1. runner[r].pc \in Begun /\ Spent(runner'[r]) = Spent(runner[r]) + 1
      BY <1>5, <2>2, TickSpends DEF TimeInv
    <3>2. running BY <3>1 DEF RunInv
    <3>3. ranFor = Spent(runner[r]) BY <2>1, <2>2, <3>1 DEF FullInv
    <3> QED BY <2>1, <3>1, <3>2, <3>3
  <2> QED BY <1>2, <2>2
<1>6. CASE Restart
  <2>1. runner' = [r \in Runners |-> Idle] BY <1>6 DEF Restart, SequencerStart
  <2>2. \A r \in Runners : runner'[r].pc \notin Begun BY <2>1 DEF Idle, Begun
  <2> QED BY <1>2, <2>2
<1>7. ASSUME \/ \E i \in Moving, v \in Readings : Reads(i, v)
             \/ \E i \in Kept : ReadsAgain(i)
             \/ \E m \in Commands : Sends(m)
             \/ ForTrackers \/ ForGradient \/ StoreStep \/ TrackersStep \/ PollStep
             \/ UNCHANGED vars
      PROVE  FullInv'
  <2>1. UNCHANGED <<runner, ranFor, abort>>
    BY <1>7 DEF Reads, ReadsAgain, Sends, ForTrackers, ForGradient, StoreStep, TrackersStep, PollStep, vars,
       sequencing, second
  <2> QED BY <1>1, <2>1
<1> QED BY <1>3, <1>4, <1>5, <1>6, <1>7 DEF Next, Deliver

(* It is so for any program, provided that operators send no second run    *)
(* before the first has begun: of two runs at once each restarts the clock *)
(* of the other.                                                           *)
THEOREM RunsToTheEnd ==
  ASSUME ~Eager
  PROVE  Spec => TakesItsTime
<1>1. Init => FullInv
  BY DEF Init, SequencerInit, FullInv, Idle, Begun
<1>2. TypeInv /\ TodoInv /\ RunInv /\ TimeInv /\ FullInv /\ [Next]_vars =>
        RunInv' /\ TimeInv' /\ FullInv'
  BY RunStays, TimeStays, FullStays
<1>3. TypeInv /\ FullInv =>
        \A r \in Runners : End(r) /\ ~abort =>
          ranFor = HoldsUpTo(runner[r].prog)[Len(runner[r].prog)]
  <2> SUFFICES ASSUME TypeInv, FullInv, NEW r \in Runners, End(r), ~abort
               PROVE  ranFor = HoldsUpTo(runner[r].prog)[Len(runner[r].prog)]
    OBVIOUS
  <2>1. runner[r].pc = "next" /\ runner[r].idx > Len(runner[r].prog) BY DEF End, At, Over
  <2> QED BY <2>1 DEF FullInv, Spent, Begun
<1> QED BY <1>1, <1>2, <1>3, RunStarts, TimeStarts, TodoAlways, PTL DEF Spec, TakesItsTime
=============================================================================
