-------------------------- MODULE Algorithms_proofs --------------------------
(***************************************************************************)
(* Recipes.tla and Feed.tla for every recipe, every repeat count and every *)
(* number of passes.  What a loop leaves behind is shown by induction over *)
(* the set of the turns after which it holds: a set needs no operator      *)
(* parameter, and WFMin gives it its least missing element.  The loops     *)
(* themselves are recursive functions over bounded intervals, which exist  *)
(* by FiniteRecursion.                                                     *)
(***************************************************************************)
EXTENDS Feed, Recipes, FiniteSetTheorems, WellFoundedInduction, TLAPS

(***************************************************************************)
(* Induction and recursion, stated over sets and functions.                *)
(***************************************************************************)
LEMMA SetInduction ==
    ASSUME NEW S, 0 \in S, \A n \in Nat : n \in S => n + 1 \in S
    PROVE  Nat \subseteq S
<1> SUFFICES ASSUME Nat \ S # {} PROVE FALSE
  OBVIOUS
<1> DEFINE R == OpToRel(<, Nat)
<1>1. PICK x \in Nat \ S : \A y \in Nat \ S : ~(<<y, x>> \in R)
  <2>1. IsWellFoundedOn(R, Nat)
    BY NatLessThanWellFounded
  <2> HIDE DEF R
  <2> QED
    BY <2>1, WFMin
<1> HIDE DEF R
<1>2. x # 0
  BY <1>1
<1>3. x - 1 \in Nat /\ (x - 1) + 1 = x
  BY <1>1, <1>2
<1>4. x - 1 \notin S
  <2> SUFFICES ASSUME x - 1 \in S PROVE FALSE
    OBVIOUS
  <2>1. (x - 1) + 1 \in S
    BY <1>3
  <2> QED
    BY <2>1, <1>1, <1>3
<1>5. <<x - 1, x>> \in R
  BY <1>1, <1>3 DEF OpToRel, R
<1> QED
  BY <1>1, <1>3, <1>4, <1>5

LEMMA IntervalInduction ==
    ASSUME NEW n \in Nat, NEW S, 0 \in S,
           \A k \in 1 .. n : k - 1 \in S => k \in S
    PROVE  0 .. n \subseteq S
<1> DEFINE T == {k \in Nat : k <= n => k \in S}
<1>1. 0 \in T
  OBVIOUS
<1>2. \A k \in Nat : k \in T => k + 1 \in T
  <2> SUFFICES ASSUME NEW k \in Nat, k \in T, k + 1 <= n PROVE k + 1 \in S
    OBVIOUS
  <2>1. k \in S /\ k + 1 \in 1 .. n /\ (k + 1) - 1 = k
    OBVIOUS
  <2> QED
    BY <2>1
<1> HIDE DEF T
<1>3. Nat \subseteq T
  BY <1>1, <1>2, SetInduction
<1> QED
  BY <1>3 DEF T

(* A loop of n turns over values in V: next[k] is turn k, f what it yields. *)
Loop(n, V, b, next)       == n \in Nat /\ b \in V /\ next \in [1 .. n -> [V -> V]]
Follows(f, n, V, b, next) == /\ f \in [0 .. n -> V]
                             /\ f[0] = b
                             /\ \A k \in 1 .. n : f[k] = next[k][f[k - 1]]
InStep(u, n, V, b, next)  == /\ u[0] = b
                             /\ \A k \in 1 .. n : u[k - 1] \in V => u[k] = next[k][u[k - 1]]
Within(u, n, V)           == \A k \in 0 .. n : u[k] \in V

LEMMA FiniteRecursion ==
    ASSUME NEW n, NEW V, NEW b, NEW next, Loop(n, V, b, next)
    PROVE  \E f : Follows(f, n, V, b, next)
<1> DEFINE Upto(m, g) == g[0] = b /\ \A k \in 1 .. m : g[k] = next[k][g[k - 1]]
           S == {m \in Nat : m <= n => \E g \in [0 .. m -> V] : Upto(m, g)}
<1> USE DEF Loop
<1>1. 0 \in S
  <2> DEFINE g == [k \in 0 .. 0 |-> b]
  <2>1. g \in [0 .. 0 -> V] /\ Upto(0, g)
    OBVIOUS
  <2> QED
    BY <2>1
<1>2. \A m \in Nat : m \in S => m + 1 \in S
  <2> SUFFICES ASSUME NEW m \in Nat, m \in S, m + 1 <= n
               PROVE  \E g \in [0 .. (m + 1) -> V] : Upto(m + 1, g)
    OBVIOUS
  <2>1. PICK g \in [0 .. m -> V] : Upto(m, g)
    OBVIOUS
  <2> DEFINE h == [k \in 0 .. (m + 1) |-> IF k = m + 1 THEN next[m + 1][g[m]] ELSE g[k]]
  <2>2. h \in [0 .. (m + 1) -> V]
    OBVIOUS
  <2>3. Upto(m + 1, h)
    BY <2>1
  <2> HIDE DEF Upto, h
  <2> QED
    BY <2>2, <2>3
<1> HIDE DEF S
<1>3. n \in S
  BY <1>1, <1>2, SetInduction
<1> QED
  BY <1>3 DEF S, Follows

(* A function that follows the recursion wherever its values are in V is   *)
(* the one of FiniteRecursion.                                             *)
LEMMA Unrolled ==
    ASSUME NEW n, NEW V, NEW b, NEW next, Loop(n, V, b, next), NEW u, InStep(u, n, V, b, next)
    PROVE  Within(u, n, V)
<1> USE DEF Loop
<1> DEFINE S == {k \in 0 .. n : u[k] \in V}
<1>1. 0 \in S
  BY DEF InStep
<1>2. \A k \in 1 .. n : k - 1 \in S => k \in S
  BY DEF InStep
<1> HIDE DEF S
<1>3. 0 .. n \subseteq S
  BY <1>1, <1>2, IntervalInduction
<1> QED
  BY <1>3 DEF S, Within

-----------------------------------------------------------------------------
(***************************************************************************)
(* The loops of the recipes.                                               *)
(***************************************************************************)
AnEntry == [type : Types, count : Nat, dither : BOOLEAN]

(* FramesOf, entry by entry. *)
Share(e, types) == IF e.type \in types THEN e.count ELSE 0

Sums(entries, types) ==
    CHOOSE sum : sum = [i \in 0 .. Len(entries) |->
            IF i = 0 THEN 0
            ELSE sum[i - 1] + (IF entries[i].type \in types THEN entries[i].count ELSE 0)]

LEMMA SumsAre ==
    ASSUME NEW entries \in Seq(AnEntry), NEW types
    PROVE  /\ \A i \in 0 .. Len(entries) : Sums(entries, types)[i] \in Nat
           /\ Sums(entries, types)[0] = 0
           /\ \A i \in 1 .. Len(entries) : Sums(entries, types)[i]
                 = Sums(entries, types)[i - 1] + Share(entries[i], types)
           /\ FramesOf(entries, types) = Sums(entries, types)[Len(entries)]
<1> DEFINE n == Len(entries)
           add(i) == Share(entries[i], types)
           next == [i \in 1 .. n |-> [v \in Nat |-> v + add(i)]]
           u == Sums(entries, types)
<1> HIDE DEF n, add
<1>1. n \in Nat /\ \A i \in 1 .. n : add(i) \in Nat
  <2>1. n \in Nat /\ \A i \in 1 .. n : entries[i] \in AnEntry
    BY DEF n
  <2> QED
    BY <2>1 DEF AnEntry, Share, add
<1>2. Loop(n, Nat, 0, next)
  BY <1>1 DEF Loop
<1>3. PICK f : Follows(f, n, Nat, 0, next)
  BY <1>2, FiniteRecursion
<1>4. f = [i \in 0 .. n |-> IF i = 0 THEN 0 ELSE f[i - 1] + add(i)]
  <2>1. \A i \in 1 .. n : f[i - 1] \in Nat
    BY <1>1, <1>3 DEF Follows
  <2>2. \A i \in 1 .. n : f[i] = f[i - 1] + add(i)
    BY <1>3, <2>1 DEF Follows
  <2> QED
    BY <1>1, <1>3, <2>2 DEF Follows
<1>5. u = [i \in 0 .. n |-> IF i = 0 THEN 0 ELSE u[i - 1] + add(i)]
  BY <1>4 DEF Sums, Share, n, add
<1> HIDE DEF u
<1>6. u[0] = 0 /\ \A i \in 1 .. n : u[i] = u[i - 1] + add(i)
  BY <1>1, <1>5
<1>7. \A i \in 0 .. n : u[i] \in Nat
  <2>1. InStep(u, n, Nat, 0, next)
    BY <1>1, <1>6 DEF InStep
  <2> QED
    BY <1>2, <2>1, Unrolled DEF Within
<1>8. FramesOf(entries, types) = u[n]
  BY DEF FramesOf, Sums, u, n
<1> QED
  BY <1>6, <1>7, <1>8 DEF add, u, n

(* What is built: steps, the frames counted, and whether a prompt is there. *)
StepKinds == {"slew", "center", "autofocus", "prompt", "dither", "expose"}
StepRec   == [kind : StepKinds, type : Types \cup {""}, frame : Nat, of : Nat]
Work      == [steps : Seq(StepRec), frame : Nat, prompted : BOOLEAN]

At(q, kind)     == {i \in DOMAIN q : q[i].kind = kind}
Taken(q, type)  == {i \in At(q, "expose") : q[i].type = type}
Until(q, i)     == {j \in At(q, "expose") : j <= i}

(* The loop invariant, c being the frames asked for so far by type. *)
Numbered(q, total) ==
    \A i \in At(q, "expose") : /\ q[i].frame = Cardinality(Until(q, i))
                               /\ q[i].of = total /\ q[i].type \in Types
AsAsked(q, c) == \A t \in Types : Cardinality(Taken(q, t)) = c[t]
FlatsPrompted(q) ==
    /\ \A i, j \in At(q, "prompt") : i = j
    /\ \A j \in Taken(q, "FLAT") : \E i \in At(q, "prompt") : i < j
DithersFollow(q, total) ==
    \A i \in At(q, "dither") : i - 1 \in Taken(q, "LIGHT") /\ q[i - 1].frame < total

Laid(w, total, c) ==
    /\ w \in Work /\ total \in Nat /\ c \in [Types -> Nat]
    /\ w.frame = Cardinality(At(w.steps, "expose"))
    /\ w.prompted <=> At(w.steps, "prompt") # {}
    /\ Numbered(w.steps, total)
    /\ AsAsked(w.steps, c)
    /\ FlatsPrompted(w.steps)
    /\ DithersFollow(w.steps, total)

LEMMA Finite ==
    ASSUME NEW q \in Seq(StepRec), NEW S, S \subseteq DOMAIN q
    PROVE  IsFiniteSet(S) /\ Cardinality(S) \in Nat
<1>1. DOMAIN q = 1 .. Len(q) /\ Len(q) \in Nat
  OBVIOUS
<1>2. IsFiniteSet(1 .. Len(q))
  BY <1>1, FS_Interval
<1> QED
  BY <1>1, <1>2, FS_Subset, FS_CardinalityType

Extends(r, q, s) ==
    LET n == Len(q) + 1
    IN /\ r \in Seq(StepRec) /\ Len(r) = n /\ n \in Nat
       /\ DOMAIN r = DOMAIN q \cup {n} /\ n \notin DOMAIN q /\ DOMAIN q = 1 .. Len(q)
       /\ r[n] = s /\ \A i \in DOMAIN q : r[i] = q[i] /\ i < n /\ i \in Nat
       /\ \A kind : At(r, kind) = At(q, kind) \cup (IF s.kind = kind THEN {n} ELSE {})

LEMMA Appended ==
    ASSUME NEW q \in Seq(StepRec), NEW s \in StepRec
    PROVE  Extends(Append(q, s), q, s)
<1> DEFINE r == Append(q, s)
           n == Len(q) + 1
<1>1. r \in Seq(StepRec) /\ Len(r) = n /\ n \in Nat /\ DOMAIN r = 1 .. n /\ DOMAIN q = 1 .. Len(q)
  OBVIOUS
<1>2. r[n] = s /\ \A i \in DOMAIN q : r[i] = q[i]
  OBVIOUS
<1>3. DOMAIN r = DOMAIN q \cup {n} /\ n \notin DOMAIN q
  BY <1>1
<1>4. \A i \in DOMAIN q : i < n /\ i \in Nat
  BY <1>1
<1> HIDE DEF r, n
<1>5. \A kind : At(r, kind) = At(q, kind) \cup (IF s.kind = kind THEN {n} ELSE {})
  BY <1>2, <1>3 DEF At
<1> QED
  BY <1>1, <1>2, <1>3, <1>4, <1>5 DEF Extends, r, n

(* A step that is no exposure changes nothing about the exposures. *)
LEMMA AppendedOther ==
    ASSUME NEW q \in Seq(StepRec), NEW s \in StepRec, s.kind # "expose",
           NEW total, NEW c, Numbered(q, total), AsAsked(q, c)
    PROVE  LET r == Append(q, s)
           IN /\ At(r, "expose") = At(q, "expose") /\ Numbered(r, total) /\ AsAsked(r, c)
              /\ \A t : Taken(r, t) = Taken(q, t)
<1> DEFINE r == Append(q, s)
<1>0. Extends(r, q, s)
  BY Appended
<1> HIDE DEF r
<1>1. At(r, "expose") = At(q, "expose") /\ \A i \in DOMAIN q : r[i] = q[i]
  BY <1>0 DEF Extends
<1>2. \A i \in At(q, "expose") : r[i] = q[i]
  BY <1>1 DEF At
<1>3. \A t : Taken(r, t) = Taken(q, t)
  BY <1>1, <1>2 DEF Taken
<1>4. \A i : Until(r, i) = Until(q, i)
  BY <1>1 DEF Until
<1>5. Numbered(r, total)
  BY <1>1, <1>2, <1>4 DEF Numbered
<1>6. AsAsked(r, c)
  BY <1>3 DEF AsAsked
<1> QED
  BY <1>1, <1>3, <1>5, <1>6 DEF r

LEMMA PromptLaid ==
    ASSUME NEW w, NEW total, NEW c, NEW e \in AnEntry, Laid(w, total, c)
    PROVE  /\ Laid(Prompted(w, e), total, c)
           /\ e.type = "FLAT" => Prompted(w, e).prompted
<1> DEFINE q == w.steps
           s == Step("prompt")
           r == Append(q, s)
           v == [w EXCEPT !.prompted = TRUE, !.steps = r]
<1>0. w \in Work /\ q \in Seq(StepRec) /\ s \in StepRec /\ s.kind = "prompt"
  BY DEF Laid, Work, StepRec, StepKinds, Step
<1>1. CASE ~(e.type = "FLAT" /\ ~w.prompted)
  BY <1>1, <1>0 DEF Prompted, Work
<1>2. CASE e.type = "FLAT" /\ ~w.prompted
  <2> HIDE DEF s
  <2>1. Prompted(w, e) = v
    BY <1>2 DEF Prompted, s
  <2>2. /\ r \in Seq(StepRec) /\ \A i \in DOMAIN q : r[i] = q[i]
        /\ At(r, "prompt") = {Len(q) + 1} /\ At(r, "dither") = At(q, "dither")
    <3>1. At(q, "prompt") = {}
      BY <1>2, <1>0 DEF Laid, Work
    <3>2. Extends(r, q, s)
      BY <1>0, Appended
    <3> HIDE DEF r, q
    <3> QED
      BY <1>0, <3>1, <3>2 DEF Extends
  <2>3. /\ At(r, "expose") = At(q, "expose") /\ Numbered(r, total) /\ AsAsked(r, c)
        /\ \A t : Taken(r, t) = Taken(q, t)
    BY <1>0, AppendedOther DEF Laid
  <2>4. v \in Work /\ v.steps = r /\ v.prompted /\ v.frame = w.frame
    BY <1>0, <2>2 DEF Work
  <2>5. FlatsPrompted(r)
    <3>1. Taken(q, "FLAT") = {}
      BY <1>2, <1>0 DEF Laid, Work, FlatsPrompted
    <3> QED
      BY <2>2, <2>3, <3>1 DEF FlatsPrompted
  <2>6. DithersFollow(r, total)
    <3>1. \A i \in Taken(q, "LIGHT") : r[i] = q[i]
      BY <2>2 DEF Taken, At
    <3> QED
      BY <2>2, <2>3, <3>1 DEF Laid, DithersFollow
  <2> HIDE DEF v, r
  <2>7. Laid(v, total, c)
    <3>1. v.prompted <=> At(r, "prompt") # {}
      BY <2>2, <2>4
    <3> QED
      BY <2>3, <2>4, <2>5, <2>6, <3>1 DEF Laid
  <2> QED
    BY <2>1, <2>4, <2>7
<1> QED
  BY <1>1, <1>2

LEMMA ShotLaid ==
    ASSUME NEW w, NEW total, NEW c, NEW e \in AnEntry, Laid(w, total, c),
           e.type = "FLAT" => w.prompted
    PROVE  /\ Laid(Framed(w, e, total), total, [c EXCEPT ![e.type] = @ + 1])
           /\ Framed(w, e, total).prompted = w.prompted
<1> DEFINE q == w.steps
           k == w.frame + 1
           s == Exposure(e.type, k, total)
           r == Append(q, s)
           d == [c EXCEPT ![e.type] = @ + 1]
           n == Len(q) + 1
<1>0. /\ w \in Work /\ q \in Seq(StepRec) /\ s \in StepRec /\ e.type \in Types /\ k \in Nat
      /\ s.kind = "expose" /\ s.type = e.type /\ s.frame = k /\ s.of = total
  <2>1. w \in Work /\ total \in Nat /\ e.type \in Types
    BY DEF Laid, AnEntry
  <2>2. q \in Seq(StepRec) /\ k \in Nat
    BY <2>1 DEF Work
  <2> HIDE DEF q, k
  <2>3. s \in StepRec
    BY <2>1, <2>2 DEF StepRec, StepKinds, Exposure
  <2> QED
    BY <2>1, <2>2, <2>3 DEF Exposure
<1>1. Extends(r, q, s) /\ q \in Seq(StepRec)
  BY <1>0, Appended
<1> DEFINE W(z) == [w EXCEPT !.frame = k, !.steps = z]
<1>2. Framed(w, e, total) = W(IF Dithers(e, k, total) THEN Append(r, Step("dither")) ELSE r)
  BY DEF Framed
<1> HIDE DEF s, r, W
<1>3. /\ At(r, "expose") = At(q, "expose") \cup {n} /\ n \notin At(q, "expose")
      /\ At(r, "prompt") = At(q, "prompt") /\ At(r, "dither") = At(q, "dither")
      /\ r[n] = s /\ \A i \in DOMAIN q : r[i] = q[i] /\ i < n /\ i \in Nat
      /\ n \in Nat /\ r \in Seq(StepRec) /\ Len(r) = n
  <2> HIDE DEF q
  <2>1. At(q, "expose") \subseteq DOMAIN q
    BY DEF At
  <2>2. Extends(r, q, s)
    BY <1>1
  <2> HIDE DEF n
  <2>3. /\ r \in Seq(StepRec) /\ DOMAIN r = DOMAIN q \cup {n} /\ n \notin DOMAIN q
        /\ DOMAIN q = 1 .. Len(q) /\ n = Len(q) + 1
    BY <2>2 DEF Extends, n
  <2>4. n \in Nat /\ Len(r) = n
    BY <2>2 DEF Extends, n
  <2>5. r[n] = s /\ \A i \in DOMAIN q : r[i] = q[i] /\ i < n /\ i \in Nat
    BY <2>2 DEF Extends, n
  <2>6. /\ At(r, "expose") = At(q, "expose") \cup {n}
        /\ At(r, "prompt") = At(q, "prompt") /\ At(r, "dither") = At(q, "dither")
    <3>1. s.kind = "expose"
      BY <1>0
    <3>2. \A kind : At(r, kind) = At(q, kind) \cup (IF s.kind = kind THEN {n} ELSE {})
      BY <2>2 DEF Extends, n
    <3> QED
      BY <3>1, <3>2
  <2> QED
    BY <2>1, <2>3, <2>4, <2>5, <2>6
<1>4. \A t : Taken(r, t) = Taken(q, t) \cup (IF t = e.type THEN {n} ELSE {}) /\ n \notin Taken(q, t)
  <2> HIDE DEF n, q
  <2> QED
    BY <1>0, <1>3 DEF Taken, At
<1>5. Cardinality(At(r, "expose")) = k
  <2>1. IsFiniteSet(At(q, "expose")) /\ Cardinality(At(q, "expose")) = w.frame
    BY <1>0, Finite DEF At, Laid
  <2> QED
    BY <1>3, <2>1, FS_AddElement
<1>6. Numbered(r, total)
  <2> SUFFICES ASSUME NEW i \in At(r, "expose")
               PROVE  /\ r[i].frame = Cardinality(Until(r, i))
                      /\ r[i].of = total /\ r[i].type \in Types
    BY DEF Numbered
  <2>1. CASE i = n
    <3>1. Until(r, i) = At(r, "expose")
      <4>1. \A j \in At(r, "expose") : j <= n
        BY <1>3 DEF At
      <4> QED
        BY <2>1, <4>1 DEF Until
    <3> QED
      BY <1>0, <1>3, <1>5, <2>1, <3>1
  <2>2. CASE i # n
    <3>1. i \in At(q, "expose") /\ i \in DOMAIN q
      BY <1>3, <2>2 DEF At
    <3>2. Until(r, i) = Until(q, i)
      <4>1. i < n /\ i \in Nat /\ ~(n <= i)
        BY <1>3, <3>1
      <4> QED
        BY <1>3, <4>1 DEF Until
    <3> QED
      BY <1>3, <3>1, <3>2 DEF Laid, Numbered
  <2> QED
    BY <2>1, <2>2
<1>7. d \in [Types -> Nat] /\ AsAsked(r, d)
  <2>1. c \in [Types -> Nat] /\ d \in [Types -> Nat]
    BY <1>0 DEF Laid
  <2> SUFFICES ASSUME NEW t \in Types PROVE Cardinality(Taken(r, t)) = d[t]
    BY <2>1 DEF AsAsked
  <2>2. IsFiniteSet(Taken(q, t)) /\ Cardinality(Taken(q, t)) = c[t]
    <3>1. Taken(q, t) \subseteq DOMAIN q
      BY DEF Taken, At
    <3> HIDE DEF q
    <3> QED
      BY <1>0, <3>1, Finite DEF Laid, AsAsked, q
  <2>3. CASE t = e.type
    <3>1. Taken(r, t) = Taken(q, t) \cup {n} /\ n \notin Taken(q, t)
      BY <1>4, <2>3
    <3>2. Cardinality(Taken(r, t)) = c[t] + 1
      <4> HIDE DEF n, q
      <4>1. Cardinality(Taken(q, t) \cup {n}) = Cardinality(Taken(q, t)) + 1
        BY <2>2, <3>1, FS_AddElement
      <4> QED
        BY <2>2, <3>1, <4>1
    <3> QED
      BY <2>1, <2>3, <3>2
  <2>4. CASE t # e.type
    <3>1. Taken(r, t) = Taken(q, t)
      BY <1>4, <2>4
    <3> QED
      BY <2>1, <2>2, <2>4, <3>1
  <2> QED
    BY <2>3, <2>4
<1>8. FlatsPrompted(r)
  <2>1. \A i, j \in At(r, "prompt") : i = j
    BY <1>3 DEF Laid, FlatsPrompted
  <2>2. ASSUME NEW j \in Taken(r, "FLAT") PROVE \E i \in At(r, "prompt") : i < j
    <3>1. CASE j \in Taken(q, "FLAT")
      BY <1>3, <3>1 DEF Laid, FlatsPrompted
    <3>2. CASE j \notin Taken(q, "FLAT")
      <4>1. j = n /\ e.type = "FLAT"
        BY <1>4, <2>2, <3>2
      <4>2. PICK i \in At(q, "prompt") : TRUE
        BY <4>1 DEF Laid
      <4>3. i \in DOMAIN q
        BY DEF At
      <4> QED
        BY <1>3, <4>1, <4>2, <4>3
    <3> QED
      BY <3>1, <3>2
  <2> QED
    BY <2>1, <2>2 DEF FlatsPrompted
<1>9. DithersFollow(r, total)
  <2> SUFFICES ASSUME NEW i \in At(r, "dither")
               PROVE  i - 1 \in Taken(r, "LIGHT") /\ r[i - 1].frame < total
    BY DEF DithersFollow
  <2>1. i - 1 \in Taken(q, "LIGHT") /\ q[i - 1].frame < total
    BY <1>3 DEF Laid, DithersFollow
  <2>2. i - 1 \in DOMAIN q
    BY <2>1 DEF Taken, At
  <2> QED
    BY <1>3, <1>4, <2>1, <2>2
<1>10. \A z \in Seq(StepRec) : /\ W(z) \in Work /\ W(z).steps = z /\ W(z).frame = k
                               /\ W(z).prompted = w.prompted
  BY <1>0 DEF Work, W
<1>11. CASE ~Dithers(e, k, total)
  <2>1. Framed(w, e, total) = W(r)
    BY <1>2, <1>11
  <2>2. w.prompted <=> At(r, "prompt") # {}
    BY <1>3 DEF Laid
  <2> HIDE DEF q, k, n, d
  <2>3. /\ W(r) \in Work /\ W(r).steps = r /\ W(r).frame = k /\ W(r).prompted = w.prompted
    BY <1>3, <1>10
  <2>4. Laid(W(r), total, d)
    BY <2>2, <2>3, <1>5, <1>6, <1>7, <1>8, <1>9 DEF Laid
  <2> QED
    BY <2>1, <2>3, <2>4 DEF d
<1>12. CASE Dithers(e, k, total)
  <2> DEFINE x == Step("dither")
             z == Append(r, x)
  <2>1. x \in StepRec /\ x.kind = "dither"
    BY DEF Step, StepRec, StepKinds
  <2>2. Framed(w, e, total) = W(z)
    BY <1>2, <1>12
  <2> HIDE DEF x
  <2>3. Extends(z, r, x)
    BY <1>3, <2>1, Appended
  <2>4. /\ At(z, "expose") = At(r, "expose") /\ Numbered(z, total) /\ AsAsked(z, d)
        /\ \A t : Taken(z, t) = Taken(r, t)
    BY <1>3, <1>6, <1>7, <2>1, AppendedOther
  <2> HIDE DEF z, d, n, q, k
  <2>5. /\ At(z, "prompt") = At(r, "prompt") /\ At(z, "dither") = At(r, "dither") \cup {n + 1}
        /\ z \in Seq(StepRec) /\ \A i \in DOMAIN r : z[i] = r[i]
    <3>1. Len(r) + 1 = n + 1
      BY <1>3
    <3>2. At(z, "prompt") = At(r, "prompt")
      BY <2>1, <2>3 DEF Extends
    <3>3. At(z, "dither") = At(r, "dither") \cup {n + 1}
      BY <2>1, <2>3, <3>1 DEF Extends
    <3>4. z \in Seq(StepRec) /\ \A i \in DOMAIN r : z[i] = r[i]
      BY <2>3 DEF Extends
    <3> QED
      BY <3>2, <3>3, <3>4
  <2>6. FlatsPrompted(z)
    BY <1>8, <2>4, <2>5 DEF FlatsPrompted
  <2>7. DithersFollow(z, total)
    <3> SUFFICES ASSUME NEW i \in At(z, "dither")
                 PROVE  i - 1 \in Taken(z, "LIGHT") /\ z[i - 1].frame < total
      BY DEF DithersFollow
    <3>1. i - 1 \in Taken(r, "LIGHT") /\ r[i - 1].frame < total
      <4>1. CASE i = n + 1
        <5>1. i - 1 = n
          BY <1>3, <4>1
        <5>2. e.type = "LIGHT" /\ k < total
          BY <1>12 DEF Dithers
        <5> QED
          BY <1>0, <1>3, <1>4, <5>1, <5>2
      <4>2. CASE i # n + 1
        BY <1>9, <2>5, <4>2 DEF DithersFollow
      <4> QED
        BY <4>1, <4>2
    <3>2. i - 1 \in DOMAIN r
      BY <3>1 DEF Taken, At
    <3> QED
      BY <2>4, <2>5, <3>1, <3>2
  <2>8. w.prompted <=> At(z, "prompt") # {}
    BY <1>3, <2>5 DEF Laid, q
  <2>9. W(z) \in Work /\ W(z).steps = z /\ W(z).frame = k /\ W(z).prompted = w.prompted
    BY <1>10, <2>5
  <2>10. Laid(W(z), total, d)
    <3>1. total \in Nat
      BY DEF Laid
    <3> QED
      BY <3>1, <2>4, <2>6, <2>7, <2>8, <2>9, <1>5, <1>7 DEF Laid
  <2> QED
    BY <2>2, <2>9, <2>10 DEF d
<1> QED
  BY <1>11, <1>12

(* Prompts and shots make work of work, whatever was laid before. *)
LEMMA WorkStays ==
    ASSUME NEW w \in Work, NEW e \in AnEntry, NEW total \in Nat
    PROVE  Prompted(w, e) \in Work /\ Framed(w, e, total) \in Work
<1>1. /\ w.steps \in Seq(StepRec) /\ w.frame \in Nat /\ w.frame + 1 \in Nat
      /\ w = [steps |-> w.steps, frame |-> w.frame, prompted |-> w.prompted]
  BY DEF Work
<1>2. Step("prompt") \in StepRec /\ Step("dither") \in StepRec
  BY DEF StepRec, StepKinds, Step
<1>3. Exposure(e.type, w.frame + 1, total) \in StepRec
  BY <1>1 DEF StepRec, StepKinds, Exposure, AnEntry
<1> DEFINE shot == Append(w.steps, Exposure(e.type, w.frame + 1, total))
           more == Append(shot, Step("dither"))
           prompt == Append(w.steps, Step("prompt"))
<1>4. prompt \in Seq(StepRec) /\ shot \in Seq(StepRec)
  BY <1>1, <1>2, <1>3
<1>5. more \in Seq(StepRec)
  <2> HIDE DEF shot
  <2> QED
    BY <1>2, <1>4
<1>6. Framed(w, e, total)
        = [w EXCEPT !.frame = @ + 1,
                    !.steps = IF Dithers(e, w.frame + 1, total) THEN more ELSE shot]
  BY DEF Framed
<1> HIDE DEF shot, more
<1>7. Framed(w, e, total) \in Work
  BY <1>1, <1>4, <1>5, <1>6 DEF Work
<1>8. Prompted(w, e) \in Work
  BY <1>1, <1>4 DEF Prompted, Work
<1> QED
  BY <1>7, <1>8

(* The turns of an entry. *)
Turns(w, e, total) ==
    CHOOSE after : after = [k \in 0 .. e.count |->
            IF k = 0 THEN Prompted(w, e) ELSE Framed(after[k - 1], e, total)]

LEMMA TurnsAre ==
    ASSUME NEW w \in Work, NEW e \in AnEntry, NEW total \in Nat
    PROVE  LET u == Turns(w, e, total)
           IN /\ u[0] = Prompted(w, e)
              /\ \A k \in 1 .. e.count : u[k] = Framed(u[k - 1], e, total)
              /\ \A k \in 0 .. e.count : u[k] \in Work
              /\ Entered(w, e, total) = u[e.count]
<1> DEFINE n == e.count
           b == Prompted(w, e)
           one(v) == Framed(v, e, total)
           next == [i \in 1 .. n |-> [v \in Work |-> one(v)]]
           u == Turns(w, e, total)
<1>1. n \in Nat /\ b \in Work /\ \A v \in Work : one(v) \in Work
  BY WorkStays DEF AnEntry
<1> HIDE DEF n, one, b
<1>2. Loop(n, Work, b, next)
  BY <1>1 DEF Loop
<1>3. PICK f : Follows(f, n, Work, b, next)
  BY <1>2, FiniteRecursion
<1>4. f = [i \in 0 .. n |-> IF i = 0 THEN b ELSE one(f[i - 1])]
  <2>1. \A i \in 1 .. n : f[i - 1] \in Work
    BY <1>1, <1>3 DEF Follows
  <2>2. \A i \in 1 .. n : f[i] = one(f[i - 1])
    BY <1>3, <2>1 DEF Follows
  <2> QED
    BY <1>1, <1>3, <2>2 DEF Follows
<1>5. u = [i \in 0 .. n |-> IF i = 0 THEN b ELSE one(u[i - 1])]
  BY <1>4 DEF Turns, n, one, b
<1> HIDE DEF u
<1>6. u[0] = b /\ \A i \in 1 .. n : u[i] = one(u[i - 1])
  BY <1>1, <1>5
<1>7. \A i \in 0 .. n : u[i] \in Work
  <2>1. InStep(u, n, Work, b, next)
    BY <1>1, <1>6 DEF InStep
  <2> QED
    BY <1>2, <2>1, Unrolled DEF Within
<1>8. Entered(w, e, total) = u[n]
  BY DEF Entered, Turns, u, n
<1> QED
  BY <1>6, <1>7, <1>8 DEF one, b, u, n

More(c, t, n) == [c EXCEPT ![t] = @ + n]

LEMMA EntryLaid ==
    ASSUME NEW w, NEW total, NEW c, NEW e \in AnEntry, Laid(w, total, c)
    PROVE  Laid(Entered(w, e, total), total, More(c, e.type, e.count))
<1> DEFINE n == e.count
           u == Turns(w, e, total)
           S == {k \in 0 .. n : /\ Laid(u[k], total, More(c, e.type, k))
                                /\ e.type = "FLAT" => u[k].prompted}
<1>0. /\ w \in Work /\ total \in Nat /\ c \in [Types -> Nat] /\ n \in Nat /\ e.type \in Types
      /\ c[e.type] \in Nat
  BY DEF Laid, AnEntry
<1>1. /\ u[0] = Prompted(w, e)
      /\ \A k \in 1 .. n : u[k] = Framed(u[k - 1], e, total)
      /\ Entered(w, e, total) = u[n]
  BY <1>0, TurnsAre
<1> HIDE DEF u, n
<1>2. 0 \in S
  <2>1. More(c, e.type, 0) = c
    BY <1>0 DEF More
  <2> QED
    BY <1>0, <1>1, <2>1, PromptLaid
<1>3. ASSUME NEW k \in 1 .. n, k - 1 \in S PROVE k \in S
  <2> DEFINE d == More(c, e.type, k - 1)
             v == u[k - 1]
  <2>1. Laid(v, total, d) /\ (e.type = "FLAT" => v.prompted)
    BY <1>3
  <2>2. [d EXCEPT ![e.type] = @ + 1] = More(c, e.type, k)
    BY <1>0 DEF More
  <2>3. u[k] = Framed(v, e, total) /\ k \in 0 .. n
    BY <1>0, <1>1
  <2> HIDE DEF d, v
  <2>4. /\ Laid(Framed(v, e, total), total, [d EXCEPT ![e.type] = @ + 1])
        /\ Framed(v, e, total).prompted = v.prompted
    BY <2>1, ShotLaid
  <2> QED
    BY <2>1, <2>2, <2>3, <2>4
<1> HIDE DEF S
<1>4. n \in S
  <2>1. 0 .. n \subseteq S
    BY <1>0, <1>2, <1>3, IntervalInduction
  <2> QED
    BY <1>0, <2>1
<1> QED
  BY <1>1, <1>4 DEF S, n

(* A recipe, entry by entry. *)
Course(w, recipe, total) ==
    CHOOSE after : after = [i \in 0 .. Len(recipe) |->
            IF i = 0 THEN w ELSE Entered(after[i - 1], recipe[i], total)]

LEMMA EntriesAre ==
    ASSUME NEW w \in Work, NEW recipe \in Seq(AnEntry), NEW total \in Nat
    PROVE  LET u == Course(w, recipe, total)
           IN /\ u[0] = w
              /\ \A i \in 1 .. Len(recipe) : u[i] = Entered(u[i - 1], recipe[i], total)
              /\ \A i \in 0 .. Len(recipe) : u[i] \in Work
              /\ Gone(w, recipe, total) = u[Len(recipe)]
<1> DEFINE n == Len(recipe)
           one(i, v) == Entered(v, recipe[i], total)
           next == [i \in 1 .. n |-> [v \in Work |-> one(i, v)]]
           u == Course(w, recipe, total)
<1>1. n \in Nat /\ \A i \in 1 .. n : \A v \in Work : one(i, v) \in Work
  <2>1. n \in Nat /\ \A i \in 1 .. n : recipe[i] \in AnEntry
    OBVIOUS
  <2> SUFFICES ASSUME NEW i \in 1 .. n, NEW v \in Work PROVE one(i, v) \in Work
    BY <2>1
  <2> DEFINE e == recipe[i]
  <2>2. e \in AnEntry
    BY <2>1
  <2> HIDE DEF e
  <2>3. e.count \in Nat /\ e.count \in 0 .. e.count
    BY <2>2 DEF AnEntry
  <2>4. Entered(v, e, total) \in Work
    BY <2>2, <2>3, TurnsAre
  <2> QED
    BY <2>4 DEF e
<1> HIDE DEF n, one
<1>2. Loop(n, Work, w, next)
  BY <1>1 DEF Loop
<1>3. PICK f : Follows(f, n, Work, w, next)
  BY <1>2, FiniteRecursion
<1>4. f = [i \in 0 .. n |-> IF i = 0 THEN w ELSE one(i, f[i - 1])]
  <2>1. \A i \in 1 .. n : f[i - 1] \in Work
    BY <1>1, <1>3 DEF Follows
  <2>2. \A i \in 1 .. n : f[i] = one(i, f[i - 1])
    BY <1>3, <2>1 DEF Follows
  <2> QED
    BY <1>1, <1>3, <2>2 DEF Follows
<1>5. u = [i \in 0 .. n |-> IF i = 0 THEN w ELSE one(i, u[i - 1])]
  BY <1>4 DEF Course, n, one
<1> HIDE DEF u
<1>6. u[0] = w /\ \A i \in 1 .. n : u[i] = one(i, u[i - 1])
  BY <1>1, <1>5
<1>7. \A i \in 0 .. n : u[i] \in Work
  <2>1. InStep(u, n, Work, w, next)
    BY <1>1, <1>6 DEF InStep
  <2> QED
    BY <1>2, <2>1, Unrolled DEF Within
<1>8. Gone(w, recipe, total) = u[n]
  BY DEF Gone, Course, u, n
<1> QED
  BY <1>6, <1>7, <1>8 DEF one, u, n

(* The frames asked for after i entries, and after all. *)
Plus(c, recipe, i) == [t \in Types |-> c[t] + Sums(recipe, {t})[i]]

LEMMA RecipeLaid ==
    ASSUME NEW w, NEW total, NEW c, NEW recipe \in Seq(AnEntry), Laid(w, total, c)
    PROVE  Laid(Gone(w, recipe, total), total, Plus(c, recipe, Len(recipe)))
<1> DEFINE n == Len(recipe)
           u == Course(w, recipe, total)
           m(t) == Sums(recipe, {t})
           P(i) == Plus(c, recipe, i)
           S == {i \in 0 .. n : Laid(u[i], total, P(i))}
<1>0. w \in Work /\ total \in Nat /\ c \in [Types -> Nat] /\ n \in Nat
  BY DEF Laid
<1>1. /\ u[0] = w
      /\ \A i \in 1 .. n : u[i] = Entered(u[i - 1], recipe[i], total)
      /\ Gone(w, recipe, total) = u[n]
  BY <1>0, EntriesAre
<1>2. \A t : /\ \A i \in 0 .. n : m(t)[i] \in Nat
             /\ m(t)[0] = 0
             /\ \A i \in 1 .. n : m(t)[i] = m(t)[i - 1] + Share(recipe[i], {t})
  BY SumsAre
<1>p. \A i : P(i) = [t \in Types |-> c[t] + m(t)[i]]
  BY DEF Plus
<1>3. \A i \in 1 .. n : recipe[i] \in AnEntry
  OBVIOUS
<1> HIDE DEF u, n, m, P
<1>4. 0 \in S
  <2>1. P(0) = c
    <3>1. \A t \in Types : c[t] + m(t)[0] = c[t]
      BY <1>0, <1>2
    <3> QED
      BY <1>0, <1>p, <3>1
  <2> QED
    BY <1>0, <1>1, <2>1
<1>5. ASSUME NEW i \in 1 .. n, i - 1 \in S PROVE i \in S
  <2> DEFINE d == P(i - 1)
             v == u[i - 1]
             e == recipe[i]
  <2>1. Laid(v, total, d) /\ e \in AnEntry
    BY <1>3, <1>5
  <2>2. More(d, e.type, e.count) = P(i)
    <3>1. e.type \in Types /\ e.count \in Nat
      BY <2>1 DEF AnEntry
    <3>2. ASSUME NEW t \in Types
          PROVE  More(d, e.type, e.count)[t] = c[t] + m(t)[i]
      <4>0. c[t] \in Nat /\ i - 1 \in 0 .. n
        BY <1>0
      <4>1. m(t)[i - 1] \in Nat /\ m(t)[i] = m(t)[i - 1] + Share(e, {t})
        BY <1>2, <4>0
      <4>2. d = [x \in Types |-> c[x] + m(x)[i - 1]]
        BY <1>p
      <4>3. d[t] = c[t] + m(t)[i - 1] /\ DOMAIN d = Types
        BY <4>2
      <4> HIDE DEF e, d
      <4>4. More(d, e.type, e.count)[t] = d[t] + Share(e, {t})
        <5>1. d[t] \in Nat
          BY <4>0, <4>1, <4>3
        <5> QED
          BY <3>1, <4>3, <5>1 DEF More, Share
      <4>5. Share(e, {t}) \in Nat
        BY <3>1 DEF Share
      <4> QED
        BY <4>0, <4>1, <4>3, <4>4, <4>5
    <3>3. d = [x \in Types |-> c[x] + m(x)[i - 1]]
      BY <1>p
    <3>4. DOMAIN d = Types
      BY <3>3
    <3>5. More(d, e.type, e.count) = [t \in Types |-> c[t] + m(t)[i]]
      <4> HIDE DEF d, e
      <4> QED
        BY <3>2, <3>4 DEF More
    <3> QED
      BY <3>5, <1>p
  <2>3. u[i] = Entered(v, e, total) /\ i \in 0 .. n
    BY <1>0, <1>1
  <2> HIDE DEF d, v, e
  <2>4. Laid(Entered(v, e, total), total, More(d, e.type, e.count))
    BY <2>1, EntryLaid
  <2> QED
    BY <2>2, <2>3, <2>4
<1> HIDE DEF S
<1>6. n \in S
  <2>1. 0 .. n \subseteq S
    BY <1>0, <1>4, <1>5, IntervalInduction
  <2> QED
    BY <1>0, <2>1
<1> QED
  BY <1>1, <1>6 DEF S, P, n

(* The repeats. *)
Begun(opening) == [steps |-> opening, frame |-> 0, prompted |-> FALSE]

Repeats(opening, recipe, repeat) ==
    CHOOSE after : after = [r \in 0 .. repeat |->
            IF r = 0 THEN Begun(opening)
            ELSE Gone(after[r - 1], recipe, repeat * FramesIn(recipe))]

LEMMA RepeatsAre ==
    ASSUME NEW opening \in Seq(StepRec), NEW recipe \in Seq(AnEntry), NEW repeat \in Nat
    PROVE  LET u == Repeats(opening, recipe, repeat)
           IN /\ u[0] = Begun(opening) /\ FramesIn(recipe) \in Nat
              /\ \A r \in 1 .. repeat : u[r] = Gone(u[r - 1], recipe, repeat * FramesIn(recipe))
              /\ Expanded(opening, recipe, repeat) = u[repeat].steps
<1> DEFINE total == repeat * FramesIn(recipe)
           b == Begun(opening)
           one(v) == Gone(v, recipe, total)
           next == [i \in 1 .. repeat |-> [v \in Work |-> one(v)]]
           u == Repeats(opening, recipe, repeat)
<1>0. Len(recipe) \in Nat
  OBVIOUS
<1>1. FramesIn(recipe) \in Nat /\ total \in Nat
  <2>1. FramesIn(recipe) \in Nat
    BY <1>0, SumsAre DEF FramesIn
  <2> QED
    BY <2>1
<1>2. b \in Work /\ \A v \in Work : one(v) \in Work
  <2>1. b \in Work
    BY DEF Work, Begun
  <2> HIDE DEF total
  <2>2. \A v \in Work : one(v) \in Work
    BY <1>0, <1>1, EntriesAre
  <2> QED
    BY <2>1, <2>2
<1> HIDE DEF one, b
<1>3. Loop(repeat, Work, b, next)
  BY <1>2 DEF Loop
<1>4. PICK f : Follows(f, repeat, Work, b, next)
  BY <1>3, FiniteRecursion
<1>5. f = [i \in 0 .. repeat |-> IF i = 0 THEN b ELSE one(f[i - 1])]
  <2>1. \A i \in 1 .. repeat : f[i - 1] \in Work
    BY <1>4 DEF Follows
  <2>2. \A i \in 1 .. repeat : f[i] = one(f[i - 1])
    BY <1>4, <2>1 DEF Follows
  <2> QED
    BY <1>4, <2>2 DEF Follows
<1>6. u = [i \in 0 .. repeat |-> IF i = 0 THEN b ELSE one(u[i - 1])]
  BY <1>5 DEF Repeats, one, b, total
<1> HIDE DEF u
<1>7. u[0] = b /\ \A i \in 1 .. repeat : u[i] = one(u[i - 1])
  BY <1>6
<1>8. Expanded(opening, recipe, repeat) = u[repeat].steps
  BY DEF Expanded, Repeats, Begun, u, total
<1> QED
  BY <1>1, <1>7, <1>8 DEF one, b, u, total

Asked(recipe, r) == [t \in Types |-> r * FramesOf(recipe, {t})]
Opened(opening)  == /\ opening \in Seq(StepRec)
                    /\ \A kind \in {"expose", "prompt", "dither"} : At(opening, kind) = {}

LEMMA BegunLaid ==
    ASSUME NEW opening, Opened(opening), NEW total \in Nat, NEW c \in [Types -> Nat],
           \A t \in Types : c[t] = 0
    PROVE  Laid(Begun(opening), total, c)
<1> DEFINE w == Begun(opening)
<1>1. /\ w \in Work /\ w.steps = opening /\ w.frame = 0 /\ ~w.prompted
  BY DEF Opened, Begun, Work
<1>2. At(opening, "expose") = {} /\ At(opening, "prompt") = {} /\ At(opening, "dither") = {}
  BY DEF Opened
<1>3. \A t : Taken(opening, t) = {}
  BY <1>2 DEF Taken
<1> HIDE DEF w
<1>4. Cardinality({}) = 0
  BY FS_EmptySet
<1>5. Numbered(opening, total) /\ DithersFollow(opening, total)
  BY <1>2 DEF Numbered, DithersFollow
<1>6. AsAsked(opening, c)
  BY <1>3, <1>4 DEF AsAsked
<1>7. FlatsPrompted(opening)
  BY <1>2, <1>3 DEF FlatsPrompted
<1>8. Laid(w, total, c)
  BY <1>1, <1>2, <1>4, <1>5, <1>6, <1>7 DEF Laid
<1> QED
  BY <1>8 DEF w

LEMMA RepeatsLaid ==
    ASSUME NEW opening, Opened(opening), NEW recipe \in Seq(AnEntry), NEW repeat \in Nat
    PROVE  \E w : /\ Laid(w, repeat * FramesIn(recipe), Asked(recipe, repeat))
                  /\ Expanded(opening, recipe, repeat) = w.steps
<1> DEFINE total == repeat * FramesIn(recipe)
           u == Repeats(opening, recipe, repeat)
           F(t) == FramesOf(recipe, {t})
           A(r) == Asked(recipe, r)
           S == {r \in 0 .. repeat : Laid(u[r], total, A(r))}
<1>1. /\ u[0] = Begun(opening) /\ total \in Nat
      /\ \A r \in 1 .. repeat : u[r] = Gone(u[r - 1], recipe, total)
      /\ Expanded(opening, recipe, repeat) = u[repeat].steps
  <2>1. opening \in Seq(StepRec)
    BY DEF Opened
  <2>2. FramesIn(recipe) \in Nat
    BY <2>1, RepeatsAre
  <2> QED
    BY <2>1, <2>2, RepeatsAre
<1>2. \A t : F(t) \in Nat /\ Sums(recipe, {t})[Len(recipe)] = F(t)
  <2>1. Len(recipe) \in 0 .. Len(recipe)
    OBVIOUS
  <2> QED
    BY <2>1, SumsAre
<1>3. \A r : A(r) = [t \in Types |-> r * F(t)]
  BY DEF Asked
<1> HIDE DEF u, total, F, A
<1>4. 0 \in S
  <2>1. A(0) \in [Types -> Nat] /\ \A t \in Types : A(0)[t] = 0
    BY <1>2, <1>3
  <2>2. Laid(Begun(opening), total, A(0))
    BY <1>1, <2>1, BegunLaid
  <2> QED
    BY <1>1, <2>2
<1>5. ASSUME NEW r \in 1 .. repeat, r - 1 \in S PROVE r \in S
  <2> DEFINE d == A(r - 1)
             v == u[r - 1]
  <2>1. Laid(v, total, d)
    BY <1>5
  <2>2. Plus(d, recipe, Len(recipe)) = A(r)
    <3>1. \A t \in Types : d[t] = (r - 1) * F(t)
      BY <1>3
    <3>2. \A t \in Types : d[t] + F(t) = r * F(t)
      <4> SUFFICES ASSUME NEW t \in Types PROVE (r - 1) * F(t) + F(t) = r * F(t)
        BY <3>1
      <4> DEFINE x == F(t)
      <4>1. x \in Nat /\ r \in Nat
        BY <1>2
      <4> HIDE DEF x
      <4>2. (r - 1) * x + x = r * x
        BY <4>1
      <4> QED
        BY <4>2 DEF x
    <3> HIDE DEF d
    <3>3. Plus(d, recipe, Len(recipe)) = [t \in Types |-> d[t] + F(t)]
      BY <1>2 DEF Plus
    <3> QED
      BY <1>3, <3>2, <3>3
  <2>3. u[r] = Gone(v, recipe, total) /\ r \in 0 .. repeat
    BY <1>1
  <2> HIDE DEF d, v
  <2>4. Laid(Gone(v, recipe, total), total, Plus(d, recipe, Len(recipe)))
    BY <2>1, RecipeLaid
  <2> QED
    BY <2>2, <2>3, <2>4
<1> HIDE DEF S
<1>6. repeat \in S
  <2>1. 0 .. repeat \subseteq S
    BY <1>4, <1>5, IntervalInduction
  <2> QED
    BY <2>1
<1>7. Laid(u[repeat], total, A(repeat))
  BY <1>6 DEF S
<1> QED
  BY <1>1, <1>7 DEF total, A

(* FramesOf sees nothing but the shares, and the types share out the frames. *)
LEMMA SameShares ==
    ASSUME NEW p \in Seq(AnEntry), NEW q \in Seq(AnEntry), Len(p) = Len(q), NEW T, NEW U,
           \A i \in 1 .. Len(p) : Share(p[i], T) = Share(q[i], U)
    PROVE  FramesOf(p, T) = FramesOf(q, U)
<1> DEFINE n == Len(p)
           x == Sums(p, T)
           y == Sums(q, U)
           S == {i \in 0 .. n : x[i] = y[i]}
<1>1. /\ n \in Nat /\ x[0] = 0 /\ y[0] = 0
      /\ \A i \in 1 .. n : x[i] = x[i - 1] + Share(p[i], T)
      /\ \A i \in 1 .. n : y[i] = y[i - 1] + Share(q[i], U)
      /\ FramesOf(p, T) = x[n] /\ FramesOf(q, U) = y[n]
  BY SumsAre
<1> HIDE DEF x, y
<1>2. 0 \in S
  BY <1>1
<1>3. ASSUME NEW i \in 1 .. n, i - 1 \in S PROVE i \in S
  BY <1>1, <1>3
<1> HIDE DEF S, n
<1>4. 0 .. n \subseteq S
  BY <1>1, <1>2, <1>3, IntervalInduction
<1>5. n \in S
  BY <1>1, <1>4
<1> QED
  BY <1>1, <1>5 DEF S

LEMMA NoShares ==
    ASSUME NEW p \in Seq(AnEntry), NEW T, \A i \in 1 .. Len(p) : Share(p[i], T) = 0
    PROVE  FramesOf(p, T) = 0
<1> DEFINE n == Len(p)
           x == Sums(p, T)
           S == {i \in 0 .. n : x[i] = 0}
<1>1. /\ n \in Nat /\ x[0] = 0
      /\ \A i \in 1 .. n : x[i] = x[i - 1] + Share(p[i], T)
      /\ FramesOf(p, T) = x[n]
  BY SumsAre
<1> HIDE DEF x
<1>2. 0 \in S
  BY <1>1
<1>3. ASSUME NEW i \in 1 .. n, i - 1 \in S PROVE i \in S
  BY <1>1, <1>3
<1> HIDE DEF S, n
<1>4. 0 .. n \subseteq S
  BY <1>1, <1>2, <1>3, IntervalInduction
<1>5. n \in S
  BY <1>1, <1>4
<1> QED
  BY <1>1, <1>5 DEF S

LEMMA TypesShare ==
    ASSUME NEW p \in Seq(AnEntry)
    PROVE  FramesIn(p) = FramesOf(p, {"LIGHT"}) + FramesOf(p, {"DARK"}) + FramesOf(p, {"FLAT"})
<1> DEFINE n == Len(p)
           a == Sums(p, Types)
           x == Sums(p, {"LIGHT"})
           y == Sums(p, {"DARK"})
           z == Sums(p, {"FLAT"})
           S == {i \in 0 .. n : a[i] = x[i] + y[i] + z[i]}
           s(i, T) == Share(p[i], T)
<1>1. /\ n \in Nat /\ a[0] = 0 /\ x[0] = 0 /\ y[0] = 0 /\ z[0] = 0
      /\ \A i \in 0 .. n : a[i] \in Nat /\ x[i] \in Nat /\ y[i] \in Nat /\ z[i] \in Nat
      /\ \A i \in 1 .. n : /\ a[i] = a[i - 1] + s(i, Types)
                           /\ x[i] = x[i - 1] + s(i, {"LIGHT"})
                           /\ y[i] = y[i - 1] + s(i, {"DARK"})
                           /\ z[i] = z[i - 1] + s(i, {"FLAT"})
      /\ FramesOf(p, Types) = a[n] /\ FramesOf(p, {"LIGHT"}) = x[n]
      /\ FramesOf(p, {"DARK"}) = y[n] /\ FramesOf(p, {"FLAT"}) = z[n]
  BY SumsAre
<1>2. \A i \in 1 .. n : /\ s(i, Types) = s(i, {"LIGHT"}) + s(i, {"DARK"}) + s(i, {"FLAT"})
                        /\ s(i, {"LIGHT"}) \in Nat /\ s(i, {"DARK"}) \in Nat /\ s(i, {"FLAT"}) \in Nat
  <2> SUFFICES ASSUME NEW i \in 1 .. n
               PROVE  /\ s(i, Types) = s(i, {"LIGHT"}) + s(i, {"DARK"}) + s(i, {"FLAT"})
                      /\ s(i, {"LIGHT"}) \in Nat /\ s(i, {"DARK"}) \in Nat /\ s(i, {"FLAT"}) \in Nat
    OBVIOUS
  <2> DEFINE e == p[i]
  <2>1. e \in AnEntry
    OBVIOUS
  <2> HIDE DEF e
  <2>2. e.count \in Nat /\ e.type \in Types
    BY <2>1 DEF AnEntry
  <2>3. /\ Share(e, Types) = Share(e, {"LIGHT"}) + Share(e, {"DARK"}) + Share(e, {"FLAT"})
        /\ Share(e, {"LIGHT"}) \in Nat /\ Share(e, {"DARK"}) \in Nat /\ Share(e, {"FLAT"}) \in Nat
    BY <2>2 DEF Share, Types
  <2> QED
    BY <2>3 DEF e
<1> HIDE DEF a, x, y, z, s
<1>3. 0 \in S
  BY <1>1
<1>4. ASSUME NEW i \in 1 .. n, i - 1 \in S PROVE i \in S
  <2>1. i - 1 \in 0 .. n /\ i \in 0 .. n /\ a[i - 1] = x[i - 1] + y[i - 1] + z[i - 1]
    BY <1>1, <1>4
  <2>2. a[i] = x[i] + y[i] + z[i]
    <3> DEFINE sa == s(i, Types)
               sx == s(i, {"LIGHT"})
               sy == s(i, {"DARK"})
               sz == s(i, {"FLAT"})
    <3>1. a[i] = a[i - 1] + sa /\ x[i] = x[i - 1] + sx /\ y[i] = y[i - 1] + sy /\ z[i] = z[i - 1] + sz
      BY <1>1
    <3>2. sa = sx + sy + sz /\ sx \in Nat /\ sy \in Nat /\ sz \in Nat
      BY <1>2
    <3>3. x[i - 1] \in Nat /\ y[i - 1] \in Nat /\ z[i - 1] \in Nat
      BY <1>1, <2>1
    <3> HIDE DEF sa, sx, sy, sz
    <3> QED
      BY <2>1, <3>1, <3>2, <3>3
  <2> QED
    BY <2>1, <2>2
<1> HIDE DEF S, n
<1>5. 0 .. n \subseteq S
  BY <1>1, <1>3, <1>4, IntervalInduction
<1>6. n \in S
  BY <1>1, <1>5
<1> QED
  BY <1>1, <1>6 DEF S, FramesIn

-----------------------------------------------------------------------------
(***************************************************************************)
(* What the expansions of a plan and of a request give.                    *)
(***************************************************************************)
LEMMA ShotsCounted ==
    ASSUME NEW q \in Seq(StepRec), \A i \in At(q, "expose") : q[i].type \in Types
    PROVE  Cardinality(At(q, "expose")) = Cardinality(Taken(q, "LIGHT"))
               + Cardinality(Taken(q, "DARK")) + Cardinality(Taken(q, "FLAT"))
<1> DEFINE E == At(q, "expose")
           L == Taken(q, "LIGHT")
           D == Taken(q, "DARK")
           F == Taken(q, "FLAT")
<1>1. E = (L \cup D) \cup F /\ L \cap D = {} /\ (L \cup D) \cap F = {}
  BY DEF Taken, Types
<1>2. E \subseteq DOMAIN q /\ L \subseteq DOMAIN q /\ D \subseteq DOMAIN q /\ F \subseteq DOMAIN q
  BY DEF Taken, At
<1> HIDE DEF E, L, D, F
<1>3. /\ IsFiniteSet(L) /\ IsFiniteSet(D) /\ IsFiniteSet(F) /\ IsFiniteSet(L \cup D)
      /\ Cardinality(L) \in Nat /\ Cardinality(D) \in Nat /\ Cardinality(F) \in Nat
      /\ Cardinality(L \cup D) \in Nat
  <2>1. L \cup D \subseteq DOMAIN q
    BY <1>2
  <2> QED
    BY <1>2, <2>1, Finite
<1>4. Cardinality({}) = 0
  BY FS_EmptySet
<1>5. Cardinality(L \cup D) = Cardinality(L) + Cardinality(D) - Cardinality(L \cap D)
  BY <1>3, FS_Union
<1>6. Cardinality((L \cup D) \cup F)
        = Cardinality(L \cup D) + Cardinality(F) - Cardinality((L \cup D) \cap F)
  BY <1>3, FS_Union
<1>7. Cardinality(E) = Cardinality(L) + Cardinality(D) + Cardinality(F)
  <2>1. Cardinality(L \cap D) = 0 /\ Cardinality((L \cup D) \cap F) = 0
    BY <1>1, <1>4
  <2>2. Cardinality(E) = Cardinality((L \cup D) \cup F)
    BY <1>1
  <2> QED
    BY <1>3, <1>5, <1>6, <2>1, <2>2
<1> QED
  BY <1>7 DEF E, L, D, F

(* RecipesExpand, for the steps q of a recipe. *)
Well(q, recipe, repeat) ==
    /\ \A i \in At(q, "expose") : /\ q[i].frame = Cardinality(Until(q, i))
                                  /\ q[i].of = Cardinality(At(q, "expose"))
    /\ \A t \in Types : Cardinality(Taken(q, t)) = repeat * FramesOf(recipe, {t})
    /\ Cardinality(At(q, "expose")) = repeat * FramesIn(recipe)
    /\ \A i, j \in At(q, "prompt") : i = j
    /\ \A j \in Taken(q, "FLAT") : \E i \in At(q, "prompt") : i < j
    /\ \A i \in At(q, "dither") : i - 1 \in Taken(q, "LIGHT") /\ \E j \in At(q, "expose") : i < j
    /\ \A i \in At(q, "expose") : q[i].type \in Types
    /\ q \in Seq(StepRec)

LEMMA WellExpanded ==
    ASSUME NEW opening, Opened(opening), NEW recipe \in Seq(AnEntry), NEW repeat \in Nat
    PROVE  Well(Expanded(opening, recipe, repeat), recipe, repeat)
<1> DEFINE total == repeat * FramesIn(recipe)
           c == Asked(recipe, repeat)
           q == Expanded(opening, recipe, repeat)
<1>1. PICK w : Laid(w, total, c) /\ q = w.steps
  BY RepeatsLaid
<1> HIDE DEF total, c, q
<1>2. /\ q \in Seq(StepRec) /\ total \in Nat /\ Numbered(q, total) /\ AsAsked(q, c)
      /\ FlatsPrompted(q) /\ DithersFollow(q, total)
  BY <1>1 DEF Laid, Work
<1>3. \A t \in Types : Cardinality(Taken(q, t)) = repeat * FramesOf(recipe, {t})
  BY <1>2 DEF AsAsked, c, Asked
<1>4. Cardinality(At(q, "expose")) = total
  <2> DEFINE x == FramesOf(recipe, {"LIGHT"})
             y == FramesOf(recipe, {"DARK"})
             z == FramesOf(recipe, {"FLAT"})
  <2>1. Cardinality(At(q, "expose")) = repeat * x + repeat * y + repeat * z
    <3>1. \A i \in At(q, "expose") : q[i].type \in Types
      BY <1>2 DEF Numbered
    <3>2. "LIGHT" \in Types /\ "DARK" \in Types /\ "FLAT" \in Types
      BY DEF Types
    <3> QED
      BY <1>2, <1>3, <3>1, <3>2, ShotsCounted
  <2>2. x \in Nat /\ y \in Nat /\ z \in Nat /\ total = repeat * (x + y + z)
    <3>1. Len(recipe) \in 0 .. Len(recipe)
      OBVIOUS
    <3>2. x \in Nat /\ y \in Nat /\ z \in Nat
      BY <3>1, SumsAre
    <3> QED
      BY <3>2, TypesShare DEF total
  <2> HIDE DEF x, y, z
  <2>3. repeat * (x + y + z) = repeat * x + repeat * y + repeat * z
    BY <2>2
  <2> QED
    BY <2>1, <2>2, <2>3
<1>5. ASSUME NEW i \in At(q, "dither")
      PROVE  i - 1 \in Taken(q, "LIGHT") /\ \E j \in At(q, "expose") : i < j
  <2>1. i - 1 \in Taken(q, "LIGHT") /\ q[i - 1].frame < total
    BY <1>2, <1>5 DEF DithersFollow
  <2>2. i - 1 \in At(q, "expose")
    BY <2>1 DEF Taken
  <2>3. Until(q, i - 1) # At(q, "expose")
    <3>1. q[i - 1].frame = Cardinality(Until(q, i - 1))
      BY <1>2, <2>2 DEF Numbered
    <3> SUFFICES ASSUME Until(q, i - 1) = At(q, "expose") PROVE FALSE
      OBVIOUS
    <3>2. total < total
      BY <1>4, <2>1, <3>1
    <3> QED
      BY <1>2, <3>2
  <2>4. PICK j \in At(q, "expose") : ~(j <= i - 1)
    BY <2>3 DEF Until
  <2>5. i \in DOMAIN q /\ j \in DOMAIN q /\ DOMAIN q \subseteq Nat
    <3>1. DOMAIN q = 1 .. Len(q) /\ Len(q) \in Nat
      BY <1>2
    <3> QED
      BY <3>1 DEF At
  <2>6. i # j
    BY DEF At
  <2>7. i < j
    BY <2>4, <2>5, <2>6
  <2> QED
    BY <2>1, <2>7
<1>6. \A i \in At(q, "expose") : /\ q[i].frame = Cardinality(Until(q, i))
                                 /\ q[i].of = total /\ q[i].type \in Types
  BY <1>2 DEF Numbered
<1>7. Well(q, recipe, repeat)
  BY <1>2, <1>3, <1>4, <1>5, <1>6 DEF Well, FlatsPrompted, total
<1> QED
  BY <1>7 DEF q

LEMMA Openings ==
    ASSUME NEW p
    PROVE  /\ Opened(<<Step("slew"), Step("center"), Step("autofocus")>>)
           /\ Opened(<<Step("slew")>> \o If(p.center, <<Step("center")>>)
                     \o If(p.autofocus, <<Step("autofocus")>>))
<1> DEFINE O == {Step("slew"), Step("center"), Step("autofocus")}
           a == Step("slew")
           b == Step("center")
           d == Step("autofocus")
<1>1. ASSUME NEW q \in Seq(O) PROVE Opened(q)
  <2>1. O \subseteq StepRec /\ \A s \in O : s.kind \notin {"expose", "prompt", "dither"}
    <3>1. \A kind \in StepKinds : Step(kind) \in StepRec /\ Step(kind).kind = kind
      BY DEF Step, StepRec
    <3>2. {"slew", "center", "autofocus"} \subseteq StepKinds
      BY DEF StepKinds
    <3> QED
      BY <3>1, <3>2
  <2>2. \A i \in DOMAIN q : q[i] \in O
    OBVIOUS
  <2> HIDE DEF O
  <2>3. q \in Seq(StepRec)
    BY <2>1
  <2> QED
    BY <2>1, <2>2, <2>3 DEF Opened, At
<1>2. a \in O /\ b \in O /\ d \in O
  OBVIOUS
<1> HIDE DEF O, a, b, d
<1>3. <<a, b, d>> \in Seq(O)
  BY <1>2
<1>4. <<a>> \in Seq(O) /\ \A x \in Seq(O) : If(p.center, <<b>>) \in Seq(O) /\ If(p.autofocus, <<d>>) \in Seq(O)
  BY <1>2 DEF If
<1>5. \A x, y, z \in Seq(O) : x \o y \o z \in Seq(O)
  OBVIOUS
<1>6. (<<a>> \o If(p.center, <<b>>)) \o If(p.autofocus, <<d>>) \in Seq(O)
  <2> DEFINE y == If(p.center, <<b>>)
             z == If(p.autofocus, <<d>>)
  <2>1. y \in Seq(O) /\ z \in Seq(O) /\ <<a>> \in Seq(O)
    BY <1>4
  <2> HIDE DEF y, z
  <2>2. <<a>> \o y \o z \in Seq(O)
    BY <1>5, <2>1
  <2> QED
    BY <2>2 DEF y, z
<1> QED
  BY <1>1, <1>3, <1>6 DEF a, b, d

LEMMA RecipesAre ==
    ASSUME NEW recipe \in Recipe
    PROVE  /\ recipe \in Seq(AnEntry) /\ Plain(recipe) \in Seq(AnEntry)
           /\ FramesIn(Plain(recipe)) = FramesIn(recipe)
           /\ FramesOf(Plain(recipe), {"DARK"}) = 0 /\ FramesOf(Plain(recipe), {"FLAT"}) = 0
<1> DEFINE r == Plain(recipe)
<1>1. PICK n \in 0 .. MaxEntries : recipe \in [1 .. n -> Entries]
  BY DEF Recipe
<1>2. n \in Nat
  BY RecipeConstants
<1>3. Entries \subseteq AnEntry
  BY RecipeConstants DEF Entries, AnEntry
<1>4. recipe \in Seq(AnEntry) /\ Len(recipe) = n /\ DOMAIN recipe = 1 .. n
  <2>1. recipe \in [1 .. n -> AnEntry]
    BY <1>1, <1>3
  <2> QED
    BY <1>2, <2>1
<1>5. /\ r \in [1 .. n -> AnEntry]
      /\ \A i \in 1 .. n : r[i].type = "LIGHT" /\ r[i].count = recipe[i].count
  <2> SUFFICES ASSUME NEW i \in 1 .. n
               PROVE  LET e == [recipe[i] EXCEPT !.type = "LIGHT", !.dither = FALSE]
                      IN e \in AnEntry /\ e.type = "LIGHT" /\ e.count = recipe[i].count
    BY <1>4 DEF Plain
  <2>1. recipe[i] \in AnEntry
    BY <1>1, <1>3
  <2> QED
    BY <2>1 DEF AnEntry, Types
<1> HIDE DEF r
<1>6. r \in Seq(AnEntry) /\ Len(r) = n
  BY <1>2, <1>5
<1>7. FramesOf(r, Types) = FramesOf(recipe, Types)
  <2>1. \A i \in 1 .. n : Share(r[i], Types) = Share(recipe[i], Types)
    <3>1. \A i \in 1 .. n : recipe[i].type \in Types /\ r[i].type \in Types
      BY <1>1, <1>3, <1>5 DEF AnEntry
    <3> QED
      BY <1>5, <3>1 DEF Share
  <2> QED
    BY <1>4, <1>6, <2>1, SameShares
<1>8. FramesOf(r, {"DARK"}) = 0 /\ FramesOf(r, {"FLAT"}) = 0
  <2>1. \A i \in 1 .. n : Share(r[i], {"DARK"}) = 0 /\ Share(r[i], {"FLAT"}) = 0
    BY <1>5 DEF Share
  <2> QED
    BY <1>6, <2>1, NoShares
<1> QED
  BY <1>4, <1>6, <1>7, <1>8 DEF r, FramesIn

RecipeInv == spec \in Specs /\ steps = StepsOf(spec)

(* Whatever a plan or an approved candidate asks for, its steps hold up to *)
(* what the sequencer and the operator's display count on                  *)
(* (PlanService._expand, RequestBuilder._expand_steps).                    *)
THEOREM StepsAsAsked == RecipeSpec => []RecipesExpand
<1>1. RecipeInit => RecipeInv
  <2> SUFFICES ASSUME RecipeInit PROVE spec \in Specs
    BY DEF RecipeInit, RecipeInv
  <2>1. <<>> \in Recipe
    <3>1. 0 \in 0 .. MaxEntries /\ <<>> \in [1 .. 0 -> Entries]
      BY RecipeConstants
    <3> QED
      BY <3>1 DEF Recipe
  <2> QED
    BY <2>1 DEF RecipeInit, Specs
<1>2. RecipeInv /\ [\E p \in Specs : Expand(p)]_recipeVars => RecipeInv'
  BY DEF RecipeInv, Expand, recipeVars
<1>3. RecipeInv => RecipesExpand
  <2> SUFFICES ASSUME RecipeInv PROVE RecipesExpand
    OBVIOUS
  <2>1. spec.recipe \in Recipe /\ spec.repeat \in Nat
    <3>1. spec \in Specs
      BY DEF RecipeInv
    <3>2. spec.recipe \in Recipe /\ (spec.repeat \in 0 .. MaxRepeat \/ spec.repeat = 1)
      BY <3>1 DEF Specs
    <3> QED
      BY <3>2, RecipeConstants
  <2>2. CASE spec.by = "plan"
    <3>1. Well(steps, spec.recipe, spec.repeat)
      <4>1. steps = PlanSteps(spec)
        BY <2>2 DEF RecipeInv, StepsOf
      <4>2. spec.recipe \in Seq(AnEntry)
        BY <2>1, RecipesAre
      <4> QED
        BY <2>1, <4>1, <4>2, Openings, WellExpanded DEF PlanSteps
    <3> QED
      BY <2>2, <3>1 DEF Well, At, Taken, Until, RecipesExpand, StepsAt, Shots, ShotsOf, Frames
  <2>3. CASE spec.by # "plan"
    <3> DEFINE r == Plain(spec.recipe)
    <3>1. /\ r \in Seq(AnEntry) /\ FramesIn(r) = FramesIn(spec.recipe) /\ FramesIn(r) \in Nat
          /\ FramesOf(r, {"DARK"}) = 0 /\ FramesOf(r, {"FLAT"}) = 0
      <4>1. r \in Seq(AnEntry)
        BY <2>1, RecipesAre
      <4>2. Len(r) \in 0 .. Len(r)
        BY <4>1
      <4>3. FramesIn(r) \in Nat
        BY <4>1, <4>2, SumsAre DEF FramesIn
      <4> QED
        BY <2>1, <4>1, <4>3, RecipesAre
    <3>2. Well(steps, r, 1)
      <4>1. steps = RequestSteps(spec)
        BY <2>3 DEF RecipeInv, StepsOf
      <4> QED
        BY <3>1, <4>1, Openings, WellExpanded DEF RequestSteps
    <3> HIDE DEF r
    <3>3. At(steps, "expose") = Taken(steps, "LIGHT")
      <4>1. Cardinality(Taken(steps, "DARK")) = 0 /\ Cardinality(Taken(steps, "FLAT")) = 0
        BY <3>1, <3>2 DEF Well, Types
      <4>2. /\ IsFiniteSet(Taken(steps, "DARK")) /\ IsFiniteSet(Taken(steps, "FLAT"))
        <5>1. steps \in Seq(StepRec)
          BY <3>2 DEF Well
        <5>2. Taken(steps, "DARK") \subseteq DOMAIN steps /\ Taken(steps, "FLAT") \subseteq DOMAIN steps
          BY DEF Taken, At
        <5> QED
          BY <5>1, <5>2, Finite
      <4>3. Taken(steps, "DARK") = {} /\ Taken(steps, "FLAT") = {}
        BY <4>1, <4>2, FS_EmptySet
      <4> QED
        BY <3>2, <4>3 DEF Well, Taken, Types
    <3>4. Cardinality(At(steps, "expose")) = FramesIn(spec.recipe)
      BY <3>1, <3>2 DEF Well
    <3> QED
      BY <2>3, <3>2, <3>3, <3>4
      DEF Well, At, Taken, Until, RecipesExpand, StepsAt, Shots, ShotsOf
  <2> QED
    BY <2>2, <2>3
<1> QED
  BY <1>1, <1>2, <1>3, PTL DEF RecipeSpec

-----------------------------------------------------------------------------
(***************************************************************************)
(* The feed: answers, and their merge.                                     *)
(***************************************************************************)
Answers == UNION {[D -> Nat] : D \in SUBSET Oids}

LEMMA AnswersAre ==
    /\ \A x : x \in Answers <=> DOMAIN x \subseteq Oids /\ x \in [DOMAIN x -> Nat]
    /\ Nobody \in Answers
    /\ \A x \in Answers : x = Nobody <=> DOMAIN x = {}
<1>1. ASSUME NEW x PROVE x \in Answers <=> DOMAIN x \subseteq Oids /\ x \in [DOMAIN x -> Nat]
  BY DEF Answers
<1>2. Nobody \in Answers
  BY DEF Answers, Nobody
<1>3. ASSUME NEW x \in Answers PROVE x = Nobody <=> DOMAIN x = {}
  BY DEF Answers, Nobody
<1> QED
  BY <1>1, <1>2, <1>3

LEMMA LastOf ==
    ASSUME NEW n \in Nat, NEW S \in SUBSET (1 .. n), S # {}
    PROVE  \E i \in S : \A j \in S : j <= i
<1> DEFINE R == OpToRel(<, Nat)
           T == {n - i : i \in S}
<1>1. PICK x \in T : \A y \in T : ~(<<y, x>> \in R)
  <2>1. IsWellFoundedOn(R, Nat)
    BY NatLessThanWellFounded
  <2>2. \A i \in S : n - i \in Nat
    OBVIOUS
  <2>3. T \subseteq Nat
    BY <2>2
  <2>4. T # {}
    OBVIOUS
  <2> HIDE DEF R, T
  <2> QED
    BY <2>1, <2>3, <2>4, WFMin
<1>2. PICK i \in S : x = n - i
  OBVIOUS
<1>3. ASSUME NEW j \in S, ~(j <= i) PROVE FALSE
  <2>1. n - j \in T /\ n - j \in Nat /\ n - i \in Nat /\ n - j < n - i
    BY <1>3
  <2>2. <<n - j, x>> \in R
    BY <1>2, <2>1 DEF OpToRel
  <2> HIDE DEF R, T
  <2> QED
    BY <1>1, <2>1, <2>2
<1> QED
  BY <1>3

LEMMA CollectedIs ==
    ASSUME NEW records \in Listings, NEW n \in 0 .. Read(records)
    PROVE  /\ Collected(records, n) \in Answers
           /\ n = Read(records) /\ Collected(records, n) = Nobody
                => \A i \in 1 .. Read(records) : records[i].old
<1> DEFINE kept == Recent(records, n)
           same(o) == {i \in kept : records[i].oid = o}
           last(o) == CHOOSE i \in kept : records[i].oid = o /\ \A j \in kept : records[j].oid = o => j <= i
           D == {records[i].oid : i \in kept}
           x == Collected(records, n)
<1>1. n \in Nat /\ \A i \in 1 .. n : records[i] \in Records
  <2>1. Len(records) \in Nat /\ DOMAIN records = 1 .. Len(records)
    BY FeedConstants DEF Listings
  <2>2. Read(records) \in Nat /\ Read(records) <= Len(records)
    BY <2>1, FeedConstants DEF Read
  <2>3. n \in Nat /\ n <= Len(records)
    BY <2>1, <2>2
  <2> QED
    BY <2>1, <2>3, FeedConstants DEF Listings
<1>2. kept \subseteq 1 .. n /\ \A i \in kept : records[i] \in Records
  BY <1>1 DEF Recent
<1> HIDE DEF kept
<1>3. ASSUME NEW o \in D PROVE last(o) \in kept
  <2>1. same(o) # {} /\ same(o) \in SUBSET (1 .. n)
    BY <1>2
  <2>2. PICK i \in same(o) : \A j \in same(o) : j <= i
    <3> HIDE DEF same
    <3> QED
      BY <1>1, <2>1, LastOf
  <2>3. \E z \in kept : records[z].oid = o /\ \A j \in kept : records[j].oid = o => j <= z
    BY <2>2
  <2> QED
    BY <2>3
<1>4. x = [o \in D |-> records[last(o)].prob]
  BY DEF Collected, kept
<1> HIDE DEF last
<1>5. D \subseteq Oids /\ \A o \in D : records[last(o)].prob \in Nat
  <2>1. D \subseteq Oids /\ \A i \in kept : records[i].prob \in 0 .. MaxProb
    BY <1>2 DEF Records
  <2>2. 0 .. MaxProb \subseteq Nat
    BY FeedConstants
  <2> QED
    BY <1>3, <2>1, <2>2
<1> HIDE DEF x
<1>6. x \in Answers /\ DOMAIN x = D
  BY <1>4, <1>5, AnswersAre
<1>7. ASSUME n = Read(records), x = Nobody PROVE \A i \in 1 .. Read(records) : records[i].old
  <2>1. kept = {}
    <3>1. D = {}
      BY <1>6, <1>7, AnswersAre
    <3> QED
      BY <3>1
  <2> QED
    BY <1>1, <1>7, <2>1 DEF kept, Recent
<1> QED
  BY <1>6, <1>7 DEF x

LEMMA MergeIs ==
    ASSUME NEW d \in Answers, NEW s \in Answers
    PROVE  LET m == Merge(d, s)
           IN /\ m \in Answers /\ DOMAIN m = DOMAIN d \cup DOMAIN s
              /\ \A o \in DOMAIN d : d[o] <= m[o]
              /\ \A o \in DOMAIN s : s[o] <= m[o]
              /\ \A o \in DOMAIN m : \/ o \in DOMAIN d /\ m[o] = d[o]
                                     \/ o \in DOMAIN s /\ m[o] = s[o]
<1> DEFINE m == Merge(d, s)
<1>1. /\ DOMAIN d \subseteq Oids /\ DOMAIN s \subseteq Oids
      /\ \A o \in DOMAIN d : d[o] \in Nat
      /\ \A o \in DOMAIN s : s[o] \in Nat
  BY AnswersAre
<1>2. DOMAIN m = DOMAIN d \cup DOMAIN s
  BY DEF Merge
<1>3. \A o \in DOMAIN m : m[o] = IF o \in DOMAIN d /\ (o \in DOMAIN s => s[o] <= d[o])
                                 THEN d[o] ELSE s[o]
  BY DEF Merge
<1>4. m = [o \in DOMAIN m |-> m[o]]
  BY DEF Merge
<1> HIDE DEF m
<1>5. \A o \in DOMAIN m : m[o] \in Nat
  BY <1>1, <1>2, <1>3
<1>6. m \in Answers
  <2>1. m \in [DOMAIN m -> Nat]
    BY <1>4, <1>5
  <2> QED
    BY <1>1, <1>2, <2>1, AnswersAre
<1>7. \A o \in DOMAIN d : d[o] <= m[o]
  BY <1>1, <1>2, <1>3
<1>8. \A o \in DOMAIN s : s[o] <= m[o]
  BY <1>1, <1>2, <1>3
<1>9. \A o \in DOMAIN m : \/ o \in DOMAIN d /\ m[o] = d[o]
                          \/ o \in DOMAIN s /\ m[o] = s[o]
  BY <1>2, <1>3
<1> QED
  BY <1>2, <1>6, <1>7, <1>8, <1>9 DEF m

(* What the merge of the first n answers is. *)
Given(a, n) == {o \in Oids : \E k \in 1 .. n : o \in DOMAIN a[k]}
BestOf(m, a, n) ==
    /\ DOMAIN m = Given(a, n)
    /\ \A o \in Given(a, n) : /\ \E k \in 1 .. n : o \in DOMAIN a[k] /\ m[o] = a[k][o]
                              /\ \A k \in 1 .. n : o \in DOMAIN a[k] => a[k][o] <= m[o]

LEMMA MergedIsBest ==
    ASSUME NEW p, pass[p].answer \in [ClassNos -> Answers]
    PROVE  Merged(p) \in Answers /\ BestOf(Merged(p), pass[p].answer, Kinds)
<1> DEFINE a == pass[p].answer
           n == Kinds
           u == CHOOSE g : g = [k \in 0 .. Kinds |->
                    IF k = 0 THEN Nobody ELSE Merge(g[k - 1], pass[p].answer[k])]
           next == [k \in 1 .. n |-> [v \in Answers |-> Merge(v, a[k])]]
           S == {k \in 0 .. n : u[k] \in Answers /\ BestOf(u[k], a, k)}
<1>0. n \in Nat /\ \A k \in 1 .. n : a[k] \in Answers
  BY FeedConstants DEF ClassNos
<1>1. Nobody \in Answers /\ DOMAIN Nobody = {}
  BY AnswersAre
<1>2. u = [k \in 0 .. n |-> IF k = 0 THEN Nobody ELSE Merge(u[k - 1], a[k])]
  <2> HIDE DEF a
  <2>1. Loop(n, Answers, Nobody, next)
    BY <1>0, <1>1, MergeIs DEF Loop
  <2>2. PICK f : Follows(f, n, Answers, Nobody, next)
    BY <2>1, FiniteRecursion
  <2>3. \A k \in 1 .. n : f[k - 1] \in Answers
    BY <1>0, <2>2 DEF Follows
  <2>4. \A k \in 1 .. n : f[k] = Merge(f[k - 1], a[k])
    BY <2>2, <2>3 DEF Follows
  <2>5. f = [k \in 0 .. n |-> IF k = 0 THEN Nobody ELSE Merge(f[k - 1], a[k])]
    BY <2>2, <2>4 DEF Follows
  <2> QED
    BY <2>5 DEF a
<1>3. Merged(p) = u[n]
  BY DEF Merged
<1> HIDE DEF u, a, n
<1>4. 0 \in S
  <2>1. Given(a, 0) = {}
    BY DEF Given
  <2>2. u[0] = Nobody
    BY <1>0, <1>2
  <2>3. BestOf(u[0], a, 0)
    BY <1>1, <2>1, <2>2 DEF BestOf
  <2>4. 0 \in 0 .. n
    BY <1>0
  <2> QED
    BY <1>1, <2>2, <2>3, <2>4
<1>5. ASSUME NEW k \in 1 .. n, k - 1 \in S PROVE k \in S
  <2> DEFINE d == u[k - 1]
             s == a[k]
             m == Merge(d, s)
  <2>1. d \in Answers /\ s \in Answers /\ BestOf(d, a, k - 1)
    BY <1>0, <1>5
  <2>2. u[k] = m
    BY <1>0, <1>2
  <2>3. Given(a, k) = Given(a, k - 1) \cup DOMAIN s
    <3>1. 1 .. k = (1 .. (k - 1)) \cup {k}
      BY <1>0
    <3>2. DOMAIN s \subseteq Oids
      BY <2>1, AnswersAre
    <3> QED
      BY <3>1, <3>2 DEF Given
  <2>4. /\ m \in Answers /\ DOMAIN m = DOMAIN d \cup DOMAIN s
        /\ \A o \in DOMAIN d : d[o] <= m[o]
        /\ \A o \in DOMAIN s : s[o] <= m[o]
        /\ \A o \in DOMAIN m : \/ o \in DOMAIN d /\ m[o] = d[o]
                               \/ o \in DOMAIN s /\ m[o] = s[o]
    <3> HIDE DEF d, s
    <3> QED
      BY <2>1, MergeIs
  <2> HIDE DEF m
  <2>5. ASSUME NEW o \in Given(a, k)
        PROVE  /\ \E j \in 1 .. k : o \in DOMAIN a[j] /\ m[o] = a[j][o]
               /\ \A j \in 1 .. k : o \in DOMAIN a[j] => a[j][o] <= m[o]
    <3>1. o \in DOMAIN m
      BY <2>1, <2>3, <2>4 DEF BestOf
    <3>2. \E j \in 1 .. k : o \in DOMAIN a[j] /\ m[o] = a[j][o]
      <4>1. CASE o \in DOMAIN d /\ m[o] = d[o]
        <5>1. PICK j \in 1 .. (k - 1) : o \in DOMAIN a[j] /\ d[o] = a[j][o]
          BY <2>1, <4>1 DEF BestOf
        <5> QED
          BY <4>1, <5>1, <1>0
      <4>2. CASE o \in DOMAIN s /\ m[o] = s[o]
        BY <4>2, <1>0
      <4> QED
        BY <2>4, <3>1, <4>1, <4>2
    <3>3. ASSUME NEW j \in 1 .. k, o \in DOMAIN a[j] PROVE a[j][o] <= m[o]
      <4>1. CASE j = k
        BY <2>4, <3>3, <4>1
      <4>2. CASE j # k
        <5>1. j \in 1 .. (k - 1) /\ j \in 1 .. n
          BY <1>0, <4>2
        <5>2. o \in Given(a, k - 1) /\ a[j][o] <= d[o] /\ o \in DOMAIN d
          BY <2>1, <3>3, <5>1 DEF BestOf, Given
        <5>3. d[o] <= m[o] /\ d[o] \in Nat /\ m[o] \in Nat /\ a[j][o] \in Nat
          BY <1>0, <2>1, <2>4, <3>1, <3>3, <5>1, <5>2, AnswersAre
        <5> QED
          BY <5>2, <5>3
      <4> QED
        BY <4>1, <4>2
    <3> QED
      BY <3>2, <3>3
  <2>6. BestOf(m, a, k)
    BY <2>1, <2>3, <2>4, <2>5 DEF BestOf
  <2> QED
    BY <1>0, <2>2, <2>4, <2>6
<1> HIDE DEF S
<1>6. 0 .. n \subseteq S
  BY <1>0, <1>4, <1>5, IntervalInduction
<1>7. n \in S
  BY <1>0, <1>6
<1> QED
  BY <1>3, <1>7 DEF S, a, n

(* A pass by itself: clear says that there is no error, and that no other  *)
(* pass can have cleared one.                                              *)
PassRec == [pc : {"idle", "asking", "again", "done"}, asked : SUBSET ClassNos,
            answer : [ClassNos -> Answers], result : Answers]
AllOld(records) == \A i \in 1 .. Read(records) : records[i].old
IsClear(p) == ~lastError /\ p \notin overlapped

PassOK(x, clear, cat) ==
    /\ x.pc \in {"again", "done"} => x.asked = {}
    /\ x.pc = "again" => \A k \in ClassNos : x.answer[k] = Nobody
    /\ x.pc = "done" /\ Given(x.answer, Kinds) # {} => BestOf(x.result, x.answer, Kinds)
    /\ x.pc # "idle" /\ clear =>
          /\ \A k \in ClassNos \ x.asked : x.answer[k] = Nobody => AllOld(cat[k])
          /\ x.pc = "done" /\ Given(x.answer, Kinds) = {} /\ x.result = Nobody => AllOld(cat[0])

FeedInv ==
    /\ catalogue \in [0 .. Kinds -> Listings]
    /\ pass \in [Passes -> PassRec]
    /\ lastError \in BOOLEAN
    /\ \A p \in Passes : PassOK(pass[p], IsClear(p), catalogue)

LEMMA NoneGiven ==
    ASSUME NEW a \in [ClassNos -> Answers]
    PROVE  Given(a, Kinds) = {} <=> \A k \in ClassNos : a[k] = Nobody
<1>1. \A k \in ClassNos : DOMAIN a[k] \subseteq Oids /\ (a[k] = Nobody <=> DOMAIN a[k] = {})
  BY AnswersAre
<1> QED
  BY <1>1 DEF Given, ClassNos

(* One pass has stepped: the others are as they were, or overlapped. *)
LEMMA OnePass ==
    ASSUME FeedInv, NEW p \in Passes, NEW x \in PassRec,
           UNCHANGED catalogue, pass' = [pass EXCEPT ![p] = x], lastError' \in BOOLEAN,
           PassOK(x, IsClear(p)', catalogue),
           \A q \in Passes \ {p} : pass[q].pc # "idle" /\ IsClear(q)' => IsClear(q)
    PROVE  FeedInv'
<1>2. ASSUME NEW q \in Passes \ {p} PROVE PassOK(pass[q], IsClear(q), catalogue)'
  <2> DEFINE y == pass[q]
  <2>1. PassOK(y, IsClear(q), catalogue) /\ pass'[q] = y /\ (y.pc # "idle" /\ IsClear(q)' => IsClear(q))
    BY DEF FeedInv
  <2> HIDE DEF y
  <2> QED
    BY <2>1 DEF PassOK
<1>3. pass'[p] = x
  BY DEF FeedInv
<1>4. \A q \in Passes : PassOK(pass[q], IsClear(q), catalogue)'
  BY <1>2, <1>3
<1> QED
  BY <1>4 DEF FeedInv

LEMMA FeedStepsKeep ==
    ASSUME FeedInv, NEW p \in Passes, PassBegins(p) \/ PassStep(p)
    PROVE  FeedInv'
<1> DEFINE x == pass[p]
<1>0. /\ x \in PassRec /\ PassOK(x, IsClear(p), catalogue) /\ x.answer \in [ClassNos -> Answers]
      /\ NoPass \in PassRec /\ catalogue \in [0 .. Kinds -> Listings] /\ lastError \in BOOLEAN
      /\ Kinds \in Nat /\ ClassNos = 1 .. Kinds
  BY AnswersAre, FeedConstants DEF FeedInv, PassRec, NoPass, ClassNos
<1>1. CASE PassBegins(p)
  <2> DEFINE y == [NoPass EXCEPT !.pc = "asking", !.asked = ClassNos]
  <2>1. y \in PassRec /\ y.pc = "asking" /\ y.asked = ClassNos
    BY <1>0 DEF PassRec, NoPass
  <2>2. /\ lastError' \in BOOLEAN /\ UNCHANGED catalogue /\ pass' = [pass EXCEPT ![p] = y]
        /\ \A q \in Passes \ {p} : pass[q].pc # "idle" => q \in overlapped'
    BY <1>1 DEF PassBegins
  <2> HIDE DEF y
  <2>3. PassOK(y, IsClear(p)', catalogue)
    BY <2>1 DEF PassOK
  <2>4. \A q \in Passes \ {p} : pass[q].pc # "idle" /\ IsClear(q)' => IsClear(q)
    BY <2>2 DEF IsClear
  <2> QED
    BY <2>1, <2>2, <2>3, <2>4, OnePass
<1>2. CASE ClassAnswered(p)
  <2>1. PICK k \in x.asked : \E n \in 0 .. Read(catalogue[k]) :
           /\ EndsAfter(k, n)
           /\ pass' = [pass EXCEPT ![p].asked = @ \ {k},
                                   ![p].answer[k] = Collected(catalogue[k], n)]
    BY <1>2 DEF ClassAnswered
  <2>2. PICK n \in 0 .. Read(catalogue[k]) :
           /\ EndsAfter(k, n)
           /\ pass' = [pass EXCEPT ![p].asked = @ \ {k},
                                   ![p].answer[k] = Collected(catalogue[k], n)]
    BY <2>1
  <2> DEFINE c == Collected(catalogue[k], n)
             y == [x EXCEPT !.asked = @ \ {k}, !.answer[k] = c]
  <2>3. k \in ClassNos /\ catalogue[k] \in Listings
    BY <1>0 DEF PassRec
  <2>4. c \in Answers /\ (n = Read(catalogue[k]) /\ c = Nobody => AllOld(catalogue[k]))
    BY <2>3, CollectedIs DEF AllOld
  <2>5. pass' = [pass EXCEPT ![p] = y] /\ UNCHANGED <<catalogue, overlapped>>
    BY <1>2, <2>2 DEF ClassAnswered, FeedInv
  <2> HIDE DEF c
  <2>6. /\ y \in PassRec /\ y.pc = x.pc /\ y.asked = x.asked \ {k}
        /\ y.answer = [x.answer EXCEPT ![k] = c]
    BY <1>0, <2>3, <2>4 DEF PassRec
  <2>7. /\ lastError' \in BOOLEAN /\ (~lastError' => ~lastError /\ n = Read(catalogue[k]))
    BY <1>0, <2>2 DEF EndsAfter
  <2>8. \A q : IsClear(q)' => IsClear(q) /\ n = Read(catalogue[k])
    BY <2>5, <2>7 DEF IsClear
  <2>9. x.pc = "asking"
    BY <1>2 DEF ClassAnswered
  <2> HIDE DEF x, y
  <2>10. PassOK(y, IsClear(p)', catalogue)
    <3>2. ASSUME IsClear(p)', NEW j \in ClassNos \ y.asked, y.answer[j] = Nobody PROVE AllOld(catalogue[j])
      <4>1. CASE j = k
        BY <1>0, <2>3, <2>4, <2>6, <2>8, <3>2, <4>1
      <4>2. CASE j # k
        <5>1. j \in ClassNos \ x.asked /\ x.answer[j] = Nobody
          BY <1>0, <2>6, <3>2, <4>2
        <5> QED
          BY <1>0, <2>8, <2>9, <3>2, <5>1 DEF PassOK
      <4> QED
        BY <4>1, <4>2
    <3> QED
      BY <2>6, <2>9, <3>2 DEF PassOK
  <2>11. \A q \in Passes \ {p} : pass[q].pc # "idle" /\ IsClear(q)' => IsClear(q)
    BY <2>8
  <2> QED
    BY <2>5, <2>6, <2>7, <2>10, <2>11, OnePass
<1>3. CASE Gathered(p)
  <2> DEFINE m == Merged(p)
             y == [x EXCEPT !.result = m, !.pc = IF m = Nobody THEN "again" ELSE "done"]
  <2>1. m \in Answers /\ BestOf(m, x.answer, Kinds)
    BY <1>0, MergedIsBest
  <2>2. /\ x.asked = {} /\ x.pc = "asking" /\ UNCHANGED <<catalogue, lastError, overlapped>>
        /\ pass' = [pass EXCEPT ![p].result = m, ![p].pc = IF m = Nobody THEN "again" ELSE "done"]
    BY <1>3 DEF Gathered
  <2> HIDE DEF m
  <2>3. pass' = [pass EXCEPT ![p] = y]
    BY <2>2 DEF FeedInv
  <2>4. /\ y \in PassRec /\ y.result = m /\ y.pc = IF m = Nobody THEN "again" ELSE "done"
        /\ y.asked = {} /\ y.answer = x.answer
    BY <1>0, <2>1, <2>2 DEF PassRec
  <2>5. Given(x.answer, Kinds) = {} <=> m = Nobody
    BY <2>1, AnswersAre DEF BestOf
  <2>6. Given(x.answer, Kinds) = {} <=> \A k \in ClassNos : x.answer[k] = Nobody
    BY <1>0, NoneGiven
  <2>7. \A q : IsClear(q)' <=> IsClear(q)
    BY <2>2 DEF IsClear
  <2> HIDE DEF x, y
  <2>9. PassOK(y, IsClear(p)', catalogue)
    <3>1. IsClear(p) => \A k \in ClassNos : x.answer[k] = Nobody => AllOld(catalogue[k])
      BY <1>0, <2>2 DEF PassOK
    <3>2. CASE m = Nobody
      BY <2>4, <2>5, <2>6, <2>7, <3>1, <3>2 DEF PassOK
    <3>3. CASE m # Nobody
      BY <2>1, <2>4, <2>5, <2>7, <3>1, <3>3 DEF PassOK
    <3> QED
      BY <3>2, <3>3
  <2> QED
    BY <1>0, <2>2, <2>3, <2>4, <2>7, <2>9, OnePass
<1>4. CASE FallsBack(p)
  <2>1. PICK n \in 0 .. Read(catalogue[0]) :
           /\ EndsAfter(0, n)
           /\ pass' = [pass EXCEPT ![p].pc = "done", ![p].result = Collected(catalogue[0], n)]
    BY <1>4 DEF FallsBack
  <2> DEFINE c == Collected(catalogue[0], n)
             y == [x EXCEPT !.pc = "done", !.result = c]
  <2>2. catalogue[0] \in Listings
    BY <1>0
  <2>3. c \in Answers /\ (n = Read(catalogue[0]) /\ c = Nobody => AllOld(catalogue[0]))
    BY <2>2, CollectedIs DEF AllOld
  <2>4. pass' = [pass EXCEPT ![p] = y] /\ UNCHANGED <<catalogue, overlapped>> /\ x.pc = "again"
    BY <1>4, <2>1 DEF FallsBack, FeedInv
  <2> HIDE DEF c
  <2>5. /\ y \in PassRec /\ y.pc = "done" /\ y.asked = x.asked /\ y.answer = x.answer /\ y.result = c
    BY <1>0, <2>3 DEF PassRec
  <2>6. lastError' \in BOOLEAN /\ (~lastError' => ~lastError /\ n = Read(catalogue[0]))
    BY <1>0, <2>1 DEF EndsAfter
  <2>7. \A q : IsClear(q)' => IsClear(q) /\ n = Read(catalogue[0])
    BY <2>4, <2>6 DEF IsClear
  <2> HIDE DEF x, y
  <2>9. Given(x.answer, Kinds) = {} /\ x.asked = {}
    BY <1>0, <2>4, NoneGiven DEF PassOK
  <2>10. PassOK(y, IsClear(p)', catalogue)
    <3>1. IsClear(p) => \A k \in ClassNos : x.answer[k] = Nobody => AllOld(catalogue[k])
      BY <1>0, <2>4, <2>9 DEF PassOK
    <3> QED
      BY <2>3, <2>5, <2>7, <2>9, <3>1 DEF PassOK
  <2> QED
    BY <2>4, <2>5, <2>6, <2>7, <2>10, OnePass
<1>5. CASE PassEnds(p)
  <2>1. /\ UNCHANGED <<catalogue, lastError, overlapped>> /\ pass' = [pass EXCEPT ![p] = NoPass]
    BY <1>5 DEF PassEnds
  <2>2. NoPass.pc = "idle"
    BY DEF NoPass
  <2>3. PassOK(NoPass, IsClear(p)', catalogue)
    BY <2>2 DEF PassOK
  <2>4. \A q : IsClear(q)' <=> IsClear(q)
    BY <2>1 DEF IsClear
  <2> QED
    BY <1>0, <2>1, <2>3, <2>4, OnePass
<1> QED
  BY <1>1, <1>2, <1>3, <1>4, <1>5 DEF PassStep

(* However passes overlap and whatever requests fail, a pass comes back     *)
(* with the best of what it was given, and with nothing and no error only   *)
(* where there was nothing (AlerceClient.query_recent, _collect, _merge).   *)
THEOREM FeedKeepsBest == FeedSpec => []FeedIsBest
<1>1. FeedInit => FeedInv
  <2> SUFFICES ASSUME FeedInit PROVE FeedInv
    OBVIOUS
  <2>1. NoPass \in PassRec /\ NoPass.pc = "idle"
    BY AnswersAre DEF PassRec, NoPass
  <2>2. \A c : PassOK(NoPass, c, catalogue)
    BY <2>1 DEF PassOK
  <2> QED
    BY <2>1, <2>2 DEF FeedInit, FeedInv
<1>2. FeedInv /\ [FeedNext]_feedVars => FeedInv'
  <2>1. CASE FeedNext
    BY <2>1, FeedStepsKeep DEF FeedNext
  <2>2. CASE UNCHANGED feedVars
    BY <2>2 DEF feedVars, FeedInv, PassOK, IsClear, AllOld
  <2> QED
    BY <2>1, <2>2
<1>3. FeedInv => FeedIsBest
  <2> SUFFICES ASSUME FeedInv, NEW p \in Passes, pass[p].pc = "done"
               PROVE  LET a == pass[p].answer  r == pass[p].result
                          given == {o \in Oids : \E k \in ClassNos : o \in DOMAIN a[k]}
                      IN /\ given # {} => DOMAIN r = given
                         /\ \A o \in given : /\ \E k \in ClassNos : o \in DOMAIN a[k] /\ r[o] = a[k][o]
                                             /\ \A k \in ClassNos : o \in DOMAIN a[k] => a[k][o] <= r[o]
                         /\ r = Nobody /\ ~lastError /\ p \notin overlapped
                              => \A k \in DOMAIN catalogue : \A i \in 1 .. Read(catalogue[k]) :
                                    catalogue[k][i].old
    BY DEF FeedIsBest
  <2> DEFINE x == pass[p]
             a == x.answer
             r == x.result
             given == {o \in Oids : \E k \in ClassNos : o \in DOMAIN a[k]}
  <2>1. /\ a \in [ClassNos -> Answers] /\ r \in Answers /\ PassOK(x, IsClear(p), catalogue) /\ x.pc = "done"
        /\ DOMAIN catalogue = 0 .. Kinds
    BY DEF FeedInv, PassRec
  <2>2. given = Given(a, Kinds)
    BY DEF Given, ClassNos
  <2> HIDE DEF given, a, r
  <2>3. x.asked = {} /\ (Given(a, Kinds) # {} => BestOf(r, a, Kinds))
    BY <2>1 DEF PassOK, a, r
  <2>4. given # {} => DOMAIN r = given
    BY <2>2, <2>3 DEF BestOf
  <2>5. \A o \in given : /\ \E k \in ClassNos : o \in DOMAIN a[k] /\ r[o] = a[k][o]
                         /\ \A k \in ClassNos : o \in DOMAIN a[k] => a[k][o] <= r[o]
    BY <2>2, <2>3 DEF BestOf, ClassNos
  <2>6. ASSUME r = Nobody, IsClear(p) PROVE \A k \in DOMAIN catalogue : AllOld(catalogue[k])
    <3>1. DOMAIN r = {}
      BY <2>6, AnswersAre
    <3>2. Given(a, Kinds) = {}
      BY <2>2, <2>4, <3>1
    <3>3. \A k \in ClassNos : a[k] = Nobody
      BY <2>1, <3>2, NoneGiven
    <3>4. (\A k \in ClassNos : AllOld(catalogue[k])) /\ AllOld(catalogue[0])
      <4> HIDE DEF x
      <4> QED
        BY <2>1, <2>3, <2>6, <3>2, <3>3 DEF PassOK, a, r
    <3>5. 0 .. Kinds = {0} \cup ClassNos
      BY FeedConstants DEF ClassNos
    <3> QED
      BY <2>1, <3>4, <3>5
  <2> QED
    BY <2>4, <2>5, <2>6 DEF given, a, r, IsClear, AllOld
<1> QED
  BY <1>1, <1>2, <1>3, PTL DEF FeedSpec

==============================================================================
