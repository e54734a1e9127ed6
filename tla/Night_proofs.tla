---------------------------- MODULE Night_proofs ----------------------------
(***************************************************************************)
(* Proofs about Night, for any grid, any course of the sun and of the      *)
(* target over it, and any requests.                                       *)
(***************************************************************************)
EXTENDS Night, WellFoundedInduction, TLAPS

LEMMA LeastIs ==
    ASSUME NEW S, S \subseteq Nat, S # {}
    PROVE  LeastOf(S) \in S /\ \A y \in S : LeastOf(S) <= y
<1> DEFINE R == OpToRel(<, Nat)
<1>1. PICK x \in S : \A y \in S : ~(<<y, x>> \in R)
  <2>1. IsWellFoundedOn(R, Nat)
    BY NatLessThanWellFounded
  <2> HIDE DEF R
  <2> QED
    BY <2>1, WFMin
<1>2. \A y \in S : x <= y
  <2> SUFFICES ASSUME NEW y \in S PROVE x <= y
    OBVIOUS
  <2>1. ~(y < x)
    BY <1>1 DEF OpToRel
  <2> QED
    BY <2>1
<1> QED
  BY <1>2 DEF LeastOf

LEMMA GreatestIs ==
    ASSUME NEW n \in Nat, NEW S, S \subseteq 0 .. n, S # {}
    PROVE  GreatestOf(S) \in S /\ \A y \in S : GreatestOf(S) >= y
<1> DEFINE T == {n - x : x \in S}
<1>1. T \subseteq Nat /\ T # {}
  OBVIOUS
<1>2. LeastOf(T) \in T /\ \A t \in T : LeastOf(T) <= t
  BY <1>1, LeastIs
<1>3. PICK x \in S : LeastOf(T) = n - x
  BY <1>2
<1>4. \A y \in S : x >= y
  <2> SUFFICES ASSUME NEW y \in S PROVE x >= y
    OBVIOUS
  <2>1. n - x <= n - y
    BY <1>2, <1>3
  <2> QED
    BY <2>1
<1> QED
  BY <1>4 DEF GreatestOf

-----------------------------------------------------------------------------
(***************************************************************************)
(* The night.                                                              *)
(***************************************************************************)
Skies == sun \in [Grid -> 0 .. 3] /\ target \in [Grid -> 0 .. 2]

LEMMA GridIs == Points \in Nat /\ Points > 0 /\ Grid = 1 .. Points
BY NightConstants DEF Grid

LEMMA DeepestIs ==
    ASSUME Skies
    PROVE  Deepest \in Grid /\ \A h \in Grid : sun[Deepest] <= sun[h]
<1> DEFINE alts == {sun[g] : g \in Grid}
           lows == {g \in Grid : \A h \in Grid : sun[g] <= sun[h]}
<1>1. alts \subseteq Nat /\ alts # {}
  BY GridIs DEF Skies
<1>2. PICK g \in Grid : sun[g] = LeastOf(alts)
  BY <1>1, LeastIs
<1>3. \A h \in Grid : sun[g] <= sun[h]
  BY <1>1, <1>2, LeastIs
<1>4. lows \subseteq Nat /\ lows # {}
  BY <1>3, GridIs
<1>5. LeastOf(lows) \in lows
  BY <1>4, LeastIs
<1> QED
  BY <1>5 DEF Deepest

LEMMA RunIs ==
    ASSUME Skies, NEW tw \in 0 .. 3, Dark(tw) # {}
    PROVE  /\ RunStart(tw) \in 1 .. Deepest /\ RunEnd(tw) \in Deepest .. Points
           /\ RunStart(tw) .. RunEnd(tw) \subseteq Dark(tw)
           /\ RunStart(tw) - 1 \notin Dark(tw) /\ RunEnd(tw) + 1 \notin Dark(tw)
<1> DEFINE d == Deepest
           starts == {i \in 1 .. d : i .. d \subseteq Dark(tw)}
           ends == {j \in d .. Points : d .. j \subseteq Dark(tw)}
<1>1. d \in 1 .. Points
  BY DeepestIs, GridIs
<1>2. d \in Dark(tw)
  BY DeepestIs, GridIs DEF Dark, Skies
<1> HIDE DEF d
<1>3. d .. d \subseteq Dark(tw)
  BY <1>1, <1>2
<1>4. starts \subseteq Nat /\ starts # {} /\ ends \subseteq 0 .. Points /\ ends # {}
  <2>1. d \in starts /\ d \in ends
    BY <1>1, <1>3, GridIs
  <2>2. starts \subseteq Nat
    BY <1>1, GridIs
  <2>3. ends \subseteq 0 .. Points
    BY <1>1, GridIs
  <2> HIDE DEF starts, ends
  <2> QED
    BY <2>1, <2>2, <2>3
<1>5. /\ LeastOf(starts) \in starts /\ \A i \in starts : LeastOf(starts) <= i
      /\ GreatestOf(ends) \in ends /\ \A j \in ends : GreatestOf(ends) >= j
  BY <1>4, LeastIs, GreatestIs, GridIs
<1>6. RunStart(tw) = LeastOf(starts) /\ RunEnd(tw) = GreatestOf(ends)
  BY DEF RunStart, RunEnd, d
<1>7. Dark(tw) \subseteq 1 .. Points
  BY GridIs DEF Dark
<1>8. PICK s \in 1 .. d : s = LeastOf(starts) /\ s .. d \subseteq Dark(tw)
  BY <1>5
<1>9. PICK e \in d .. Points : e = GreatestOf(ends) /\ d .. e \subseteq Dark(tw)
  BY <1>5
<1>10. s .. e \subseteq Dark(tw)
  BY <1>1, <1>8, <1>9
<1>11. s - 1 \notin Dark(tw)
  <2> SUFFICES ASSUME s - 1 \in Dark(tw) PROVE FALSE
    OBVIOUS
  <2>1. s - 1 \in 1 .. d /\ (s - 1) .. d \subseteq Dark(tw)
    BY <1>1, <1>7, <1>8
  <2>2. s <= s - 1
    BY <1>5, <1>8, <2>1
  <2> QED
    BY <2>2, <1>1
<1>12. e + 1 \notin Dark(tw)
  <2> SUFFICES ASSUME e + 1 \in Dark(tw) PROVE FALSE
    OBVIOUS
  <2>1. e + 1 \in d .. Points
    BY <1>1, <1>7, <1>9, GridIs
  <2>3. d .. (e + 1) \subseteq Dark(tw)
    <3> SUFFICES ASSUME NEW g \in d .. (e + 1) PROVE g \in Dark(tw)
      OBVIOUS
    <3>1. g \in d .. e \/ g = e + 1
      BY <1>1, GridIs
    <3> QED
      BY <3>1, <1>9
  <2>2. e >= e + 1
    BY <1>5, <1>9, <2>1, <2>3
  <2> QED
    BY <2>2, <1>1, GridIs
<1> HIDE DEF starts, ends
<1> QED
  BY <1>6, <1>8, <1>9, <1>10, <1>11, <1>12 DEF d

(* What compute_night returns for a label. *)
NightOf(label, n) ==
    /\ n.label = label
    /\ n.from \in 1 .. Deepest /\ n.to \in Deepest .. Points /\ n.twilight \in 1 .. 3
    /\ \A g \in n.from .. n.to : sun[g] < n.twilight \/ Dark(3) = {}
    /\ \A g \in {n.from - 1, n.to + 1} \cap Grid : sun[g] >= n.twilight

LEMMA ComputedNight ==
    ASSUME Skies, NEW label
    PROVE  NightOf(label, ComputeNight(label))
<1> DEFINE usable == {k \in DOMAIN Twilights : Dark(Twilights[k]) # {}}
<1>1. DOMAIN Twilights = 1 .. 3 /\ \A k \in 1 .. 3 : Twilights[k] = k
  BY DEF Twilights
<1>2. Deepest \in 1 .. Points
  BY DeepestIs, GridIs
<1>3. CASE usable = {}
  <2> DEFINE n == [label |-> label, from |-> 1, to |-> Points, twilight |-> 3]
  <2>1. ComputeNight(label) = n
    BY <1>3 DEF ComputeNight
  <2>2. Dark(3) = {}
    BY <1>1, <1>3
  <2>3. {1 - 1, Points + 1} \cap Grid = {}
    BY GridIs
  <2> QED
    BY <1>2, <2>1, <2>2, <2>3, GridIs DEF NightOf
<1>4. CASE usable # {}
  <2>1. LeastOf(usable) \in usable
    BY <1>1, <1>4, LeastIs
  <2>2. PICK tw \in 1 .. 3 : Dark(tw) # {} /\ tw = Twilights[LeastOf(usable)]
    BY <1>1, <2>1
  <2> DEFINE n == [label |-> label, from |-> RunStart(tw), to |-> RunEnd(tw), twilight |-> tw]
  <2>3. ComputeNight(label) = n
    BY <1>4, <2>2 DEF ComputeNight
  <2> HIDE DEF usable
  <2>4. /\ RunStart(tw) \in 1 .. Deepest /\ RunEnd(tw) \in Deepest .. Points
        /\ RunStart(tw) .. RunEnd(tw) \subseteq Dark(tw)
        /\ RunStart(tw) - 1 \notin Dark(tw) /\ RunEnd(tw) + 1 \notin Dark(tw)
    BY <2>2, RunIs
  <2>5. \A g \in RunStart(tw) .. RunEnd(tw) : sun[g] < tw
    BY <2>4 DEF Dark
  <2>6. \A g \in {RunStart(tw) - 1, RunEnd(tw) + 1} \cap Grid : sun[g] >= tw
    BY <2>2, <2>4, GridIs DEF Dark, Skies
  <2> QED
    BY <2>3, <2>4, <2>5, <2>6 DEF NightOf
<1> QED
  BY <1>3, <1>4

-----------------------------------------------------------------------------
(***************************************************************************)
(* The answer about a target.                                              *)
(***************************************************************************)
LEMMA WindowIs ==
    ASSUME Skies, NEW n, n.from \in Nat, n.to \in Nat, NEW thr
    PROVE  /\ Window(n, thr) = {} <=> Above(n, thr) = {}
           /\ Above(n, thr) # {} =>
                 /\ LeastOf(Window(n, thr)) \in Above(n, thr)
                 /\ GreatestOf(Window(n, thr)) \in Above(n, thr)
                 /\ Window(n, thr) \subseteq Above(n, thr)
                 /\ \A g \in Above(n, thr) :
                       LeastOf(Window(n, thr)) <= g /\ g <= GreatestOf(Window(n, thr))
<1> DEFINE S == Above(n, thr)
           W == Window(n, thr)
<1>1. S \subseteq 0 .. n.to
  BY DEF Above
<1>2. CASE S = {}
  BY <1>2 DEF Window
<1>3. CASE S # {}
  <2> DEFINE a == LeastOf(S)
             b == GreatestOf(S)
  <2>1. a \in S /\ b \in S /\ \A g \in S : a <= g /\ b >= g
    BY <1>1, <1>3, LeastIs, GreatestIs
  <2>2. W = {a, b}
    BY <1>3 DEF Window
  <2> HIDE DEF S, W, a, b
  <2>3. W \subseteq S /\ W # {} /\ W \subseteq Nat /\ W \subseteq 0 .. n.to
    BY <1>1, <2>1, <2>2
  <2>4. /\ LeastOf(W) \in W /\ \A g \in W : LeastOf(W) <= g
        /\ GreatestOf(W) \in W /\ \A g \in W : GreatestOf(W) >= g
    BY <2>3, LeastIs, GreatestIs
  <2>5. LeastOf(W) <= a /\ b <= GreatestOf(W)
    BY <1>1, <2>1, <2>2, <2>3, <2>4
  <2>6. \A g \in S : LeastOf(W) <= g /\ g <= GreatestOf(W)
    <3> SUFFICES ASSUME NEW g \in S PROVE LeastOf(W) <= g /\ g <= GreatestOf(W)
      OBVIOUS
    <3>0. S \subseteq Nat
      BY <1>1
    <3>1. a \in Nat /\ b \in Nat /\ g \in Nat /\ LeastOf(W) \in Nat /\ GreatestOf(W) \in Nat
      BY <2>1, <2>3, <2>4, <3>0
    <3>2. a <= g /\ g <= b
      BY <2>1, <3>1
    <3> QED
      BY <2>5, <3>1, <3>2
  <2> QED
    BY <1>3, <2>3, <2>4, <2>6 DEF S, W
<1> QED
  BY <1>2, <1>3

LEMMA PeakIs ==
    ASSUME Skies, NEW n, n.from \in Grid, n.to \in Grid, n.from <= n.to
    PROVE  Peak(n) \in n.from .. n.to /\ \A h \in n.from .. n.to : target[h] <= target[Peak(n)]
<1> DEFINE points == n.from .. n.to
           alts == {target[g] : g \in points}
           highs == {g \in points : \A h \in points : target[h] <= target[g]}
<1>1. points \subseteq Grid /\ points # {} /\ points \subseteq Nat
  BY GridIs
<1> HIDE DEF points
<1>2. alts \subseteq 0 .. 2 /\ alts # {}
  BY <1>1 DEF Skies
<1>3. GreatestOf(alts) \in alts /\ \A a \in alts : GreatestOf(alts) >= a
  BY <1>2, GreatestIs
<1>4. PICK g \in points : target[g] = GreatestOf(alts)
  BY <1>3
<1>5. \A h \in points : target[h] <= target[g]
  BY <1>2, <1>3, <1>4
<1>6. highs \subseteq Nat /\ highs # {}
  BY <1>1, <1>5
<1>7. LeastOf(highs) \in highs
  BY <1>6, LeastIs
<1>8. Peak(n) = LeastOf(highs)
  BY DEF Peak, points
<1> QED
  BY <1>7, <1>8 DEF points

(* What AnswersHold says of an answer. *)
AnswerHolds(label, n, a) ==
    /\ n.label = label
    /\ \A g \in n.from .. n.to : sun[g] < n.twilight \/ Dark(3) = {}
    /\ \A g \in {n.from - 1, n.to + 1} \cap Grid : sun[g] >= n.twilight
    /\ \A g \in Grid : \E h \in n.from .. n.to : sun[h] <= sun[g]
    /\ a.observable <=> a.window # {}
    /\ a.observable => LeastOf(a.window) <= a.peak /\ a.peak <= GreatestOf(a.window)
    /\ \A g \in a.best : LeastOf(a.window) <= g /\ g <= GreatestOf(a.window)
    /\ \A g \in n.from .. n.to : target[g] >= AltMin
          => LeastOf(a.window) <= g /\ g <= GreatestOf(a.window)

LEMMA ObservedAnswer ==
    ASSUME Skies, NEW label, NEW n, NightOf(label, n)
    PROVE  AnswerHolds(label, n, Observability(n)) /\ Observability(n).night = n
<1> DEFINE points == n.from .. n.to
           w == Window(n, AltMin)
           best == Window(n, BestMin)
           a == Observability(n)
<1>1. /\ Deepest \in Grid /\ \A h \in Grid : sun[Deepest] <= sun[h]
      /\ n.from \in 1 .. Deepest /\ n.to \in Deepest .. Points
  BY DeepestIs DEF NightOf
<1>2. /\ n.from \in Grid /\ n.to \in Grid /\ n.from <= n.to /\ n.from \in Nat /\ n.to \in Nat
      /\ Deepest \in points /\ points \subseteq Grid
  BY <1>1, GridIs
<1>3. Peak(n) \in points /\ \A h \in points : target[h] <= target[Peak(n)]
  BY <1>2, PeakIs
<1>4. /\ a.night = n /\ (a.observable <=> target[Peak(n)] >= AltMin)
      /\ a.window = w /\ a.best = best /\ a.peak = Peak(n)
  BY DEF Observability
<1> HIDE DEF a
<1>5. Above(n, AltMin) = {g \in points : target[g] >= 1} /\ Above(n, BestMin) = {g \in points : target[g] >= 2}
  BY DEF Above, AltMin, BestMin
<1> HIDE DEF points
<1>6. \A g \in points : target[g] \in 0 .. 2
  BY <1>2 DEF Skies
<1>7. /\ w = {} <=> Above(n, AltMin) = {}
      /\ \A g \in Above(n, AltMin) : LeastOf(w) <= g /\ g <= GreatestOf(w)
      /\ best \subseteq Above(n, BestMin)
  BY <1>2, WindowIs
<1> HIDE DEF w, best
<1>8. a.observable <=> Peak(n) \in Above(n, AltMin)
  BY <1>3, <1>4, <1>5 DEF AltMin
<1>9. Peak(n) \in Above(n, AltMin) <=> Above(n, AltMin) # {}
  BY <1>3, <1>5, <1>6
<1>10. Above(n, BestMin) \subseteq Above(n, AltMin)
  BY <1>5, <1>6
<1>11. a.observable <=> a.window # {}
  BY <1>4, <1>7, <1>8, <1>9
<1>12. a.observable => LeastOf(a.window) <= a.peak /\ a.peak <= GreatestOf(a.window)
  BY <1>4, <1>7, <1>8
<1>13. \A g \in a.best : LeastOf(a.window) <= g /\ g <= GreatestOf(a.window)
  BY <1>4, <1>7, <1>10
<1>14. \A g \in points : target[g] >= AltMin => LeastOf(a.window) <= g /\ g <= GreatestOf(a.window)
  BY <1>4, <1>5, <1>7 DEF AltMin
<1>15. \A g \in Grid : \E h \in points : sun[h] <= sun[g]
  BY <1>1, <1>2
<1>16. /\ n.label = label
       /\ \A g \in points : sun[g] < n.twilight \/ Dark(3) = {}
       /\ \A g \in {n.from - 1, n.to + 1} \cap Grid : sun[g] >= n.twilight
  BY DEF NightOf, points
<1> QED
  BY <1>4, <1>11, <1>12, <1>13, <1>14, <1>15, <1>16 DEF AnswerHolds, points, a

-----------------------------------------------------------------------------
(***************************************************************************)
(* The cache.                                                              *)
(***************************************************************************)
KeptOK == kept.label = 0 \/ kept.night = ComputeNight(kept.label)

Shaped == \A r \in Routes :
    route[r] = [pc |-> route[r].pc, label |-> route[r].label, answer |-> route[r].answer]

AnsweredOK == \A r \in Routes :
    route[r].pc = "done" => route[r].answer = Observability(ComputeNight(route[r].label))

NInv ==
    /\ Skies
    /\ halfDays \in Nat /\ halfDays > 2
    /\ kept = [label |-> kept.label, night |-> kept.night]
    /\ DOMAIN route = Routes /\ route = [r \in Routes |-> route[r]] /\ Shaped
    /\ KeptOK /\ AnsweredOK

(* As long as the sky is the same, so is what is computed from it. *)
LEMMA SameSky ==
    ASSUME UNCHANGED <<sun, target>>
    PROVE  /\ \A label : ComputeNight(label)' = ComputeNight(label)
           /\ \A n : Observability(n)' = Observability(n)
<1>1. \A tw : Dark(tw)' = Dark(tw)
  BY DEF Dark
<1>2. Deepest' = Deepest
  BY DEF Deepest
<1>3. \A tw : RunStart(tw)' = RunStart(tw) /\ RunEnd(tw)' = RunEnd(tw)
  BY <1>1, <1>2 DEF RunStart, RunEnd
<1>4. \A label : ComputeNight(label)' = ComputeNight(label)
  BY <1>1, <1>3 DEF ComputeNight
<1>5. \A n : Observability(n)' = Observability(n)
  BY DEF Observability, Window, Above, Peak
<1> QED
  BY <1>4, <1>5

LEMMA LabelIs ==
    ASSUME NEW t \in Nat, t > 2 PROVE Label(t) > 0
BY DEF Label

LEMMA NightInitOK == NightInit => NInv
BY DEF NightInit, NInv, Skies, KeptOK, Shaped, AnsweredOK

(* A request that finds the cache filled, or has computed the night itself, *)
(* answers about the night of the label it has read.                       *)
LEMMA NightStepOK == NInv /\ [NightNext]_nightVars => NInv'
<1> SUFFICES ASSUME NInv, [NightNext]_nightVars PROVE NInv'
  OBVIOUS
<1>1. UNCHANGED <<sun, target>>
  BY DEF NightNext, nightVars, ClockRuns, Ask, LooksUp, Computed, Answered
<1> DEFINE Night(label) == ComputeNight(label)
           Seen(n) == Observability(n)
<1>2. \A label : Night(label)' = Night(label)
  BY <1>1, SameSky
<1>3. \A n : Seen(n)' = Seen(n)
  BY <1>1, SameSky
<1>4. Skies'
  BY <1>1, GridIs DEF NInv, Skies
<1>5. ASSUME NEW r \in Routes, NEW rec, rec = [pc |-> rec.pc, label |-> rec.label, answer |-> rec.answer],
             rec.pc = "done" => rec.answer = Seen(Night(rec.label)),
             route' = [route EXCEPT ![r] = rec]
      PROVE  DOMAIN route' = Routes /\ route' = [q \in Routes |-> route'[q]] /\ Shaped' /\ AnsweredOK'
  <2>1. DOMAIN route' = Routes /\ route' = [q \in Routes |-> route'[q]]
    BY <1>5 DEF NInv
  <2>2. route'[r] = rec /\ \A q \in Routes \ {r} : route'[q] = route[q]
    BY <1>5 DEF NInv
  <2> HIDE DEF Night, Seen
  <2>3. \A q \in Routes : route'[q].pc = "done" => route'[q].answer = Seen(Night(route'[q].label))
    BY <1>5, <2>2 DEF NInv, AnsweredOK, Night, Seen
  <2>4. Shaped'
    BY <1>5, <2>2 DEF NInv, Shaped
  <2>5. AnsweredOK'
    BY <1>2, <1>3, <2>3 DEF AnsweredOK, Night, Seen
  <2> QED
    BY <2>1, <2>4, <2>5
<1>6. CASE ClockRuns
  <2>1. UNCHANGED <<kept, route>> /\ halfDays' \in Nat /\ halfDays' > 2
    BY <1>6 DEF ClockRuns, NInv
  <2> QED
    BY <1>2, <1>3, <1>4, <2>1 DEF NInv, KeptOK, Shaped, AnsweredOK
<1>7. ASSUME NEW r \in Routes, Ask(r) PROVE NInv'
  <2> DEFINE label == Label(halfDays)
             hit == kept.label = label
             rec == IF hit THEN [pc |-> "done", label |-> label, answer |-> Seen(kept.night)]
                           ELSE [pc |-> "computing", label |-> label, answer |-> NoAnswer]
  <2>1. label > 0
    BY LabelIs DEF NInv
  <2>2. route' = [route EXCEPT ![r] = rec] /\ kept' = kept /\ halfDays' = halfDays
    BY <1>7 DEF Ask, LooksUp
  <2>3. hit => kept.night = Night(label)
    BY <2>1 DEF NInv, KeptOK
  <2> HIDE DEF label, Night, Seen
  <2>4. rec = [pc |-> rec.pc, label |-> rec.label, answer |-> rec.answer]
    OBVIOUS
  <2>5. rec.pc = "done" => rec.answer = Seen(Night(rec.label))
    BY <2>3
  <2> HIDE DEF rec
  <2>6. DOMAIN route' = Routes /\ route' = [q \in Routes |-> route'[q]] /\ Shaped' /\ AnsweredOK'
    BY <1>5, <2>2, <2>4, <2>5
  <2>7. KeptOK'
    BY <1>2, <2>2 DEF NInv, KeptOK, Night
  <2> QED
    BY <1>4, <2>2, <2>6, <2>7 DEF NInv
<1>8. ASSUME NEW r \in Routes, Computed(r) PROVE NInv'
  <2> DEFINE label == route[r].label
             rec == [route[r] EXCEPT !.pc = "done", !.answer = Seen(Night(label))]
  <2>1. /\ route' = [route EXCEPT ![r] = rec]
        /\ kept' = [label |-> label, night |-> Night(label)] /\ halfDays' = halfDays
    BY <1>8 DEF Computed, NInv
  <2>2. route[r] = [pc |-> route[r].pc, label |-> route[r].label, answer |-> route[r].answer]
    BY DEF NInv, Shaped
  <2> HIDE DEF Night, Seen
  <2>3. rec = [pc |-> "done", label |-> label, answer |-> Seen(Night(label))]
    <3>1. PICK p, l, a : route[r] = [pc |-> p, label |-> l, answer |-> a]
      BY <2>2
    <3>2. label = l
      BY <3>1
    <3> DEFINE seen == Seen(Night(label))
    <3> HIDE DEF label, seen
    <3>3. [[pc |-> p, label |-> l, answer |-> a] EXCEPT !.pc = "done", !.answer = seen]
            = [pc |-> "done", label |-> l, answer |-> seen]
      <4> DEFINE q == [[pc |-> p, label |-> l, answer |-> a] EXCEPT !.pc = "done"]
      <4>1. q = [pc |-> "done", label |-> l, answer |-> a]
        OBVIOUS
      <4>2. [[pc |-> "done", label |-> l, answer |-> a] EXCEPT !.answer = seen]
              = [pc |-> "done", label |-> l, answer |-> seen]
        OBVIOUS
      <4>3. [q EXCEPT !.answer = seen] = [pc |-> "done", label |-> l, answer |-> seen]
        BY <4>1, <4>2
      <4> QED
        BY <4>3, Zenon
    <3> QED
      BY <3>1, <3>2, <3>3, Zenon DEF seen
  <2>4. /\ rec = [pc |-> rec.pc, label |-> rec.label, answer |-> rec.answer]
        /\ rec.answer = Seen(Night(rec.label))
    BY <2>3
  <2> HIDE DEF rec
  <2>5. DOMAIN route' = Routes /\ route' = [q \in Routes |-> route'[q]] /\ Shaped' /\ AnsweredOK'
    BY <1>5, <2>1, <2>4
  <2>6. kept' = [label |-> kept'.label, night |-> kept'.night] /\ kept'.night = Night(kept'.label)
    BY <2>1
  <2>7. KeptOK'
    BY <1>2, <2>6 DEF KeptOK, Night
  <2> QED
    BY <1>4, <2>1, <2>5, <2>6, <2>7 DEF NInv
<1>9. ASSUME NEW r \in Routes, Answered(r) PROVE NInv'
  <2> DEFINE rec == [pc |-> "idle", label |-> 0, answer |-> NoAnswer]
  <2>1. route' = [route EXCEPT ![r] = rec] /\ kept' = kept /\ halfDays' = halfDays
    BY <1>9 DEF Answered
  <2>2. rec = [pc |-> rec.pc, label |-> rec.label, answer |-> rec.answer] /\ rec.pc # "done"
    OBVIOUS
  <2> HIDE DEF rec, Night, Seen
  <2>3. DOMAIN route' = Routes /\ route' = [q \in Routes |-> route'[q]] /\ Shaped' /\ AnsweredOK'
    BY <1>5, <2>1, <2>2
  <2>4. KeptOK'
    BY <1>2, <2>1 DEF NInv, KeptOK, Night
  <2> QED
    BY <1>4, <2>1, <2>3, <2>4 DEF NInv
<1>10. CASE UNCHANGED nightVars
  BY <1>2, <1>3, <1>4, <1>10 DEF NInv, KeptOK, Shaped, AnsweredOK, nightVars
<1> QED
  BY <1>6, <1>7, <1>8, <1>9, <1>10 DEF NightNext

(* transient_tonight answers about the night it was asked in: a longest    *)
(* stretch as dark as it says, with the target's windows in it, whatever   *)
(* other requests put into the cache meanwhile.                            *)
THEOREM AnswersAlwaysHold == NightSpec => []AnswersHold
<1>1. NInv => AnswersHold
  <2> SUFFICES ASSUME NInv, NEW r \in Routes, route[r].pc = "done"
               PROVE  AnswerHolds(route[r].label, route[r].answer.night, route[r].answer)
    BY DEF AnswersHold, AnswerHolds
  <2> DEFINE n == ComputeNight(route[r].label)
  <2>1. Skies /\ route[r].answer = Observability(n)
    BY DEF NInv, AnsweredOK
  <2>2. NightOf(route[r].label, n)
    BY <2>1, ComputedNight
  <2> HIDE DEF n
  <2>3. AnswerHolds(route[r].label, n, Observability(n)) /\ Observability(n).night = n
    BY <2>1, <2>2, ObservedAnswer
  <2> QED
    BY <2>1, <2>3
<1> QED
  BY <1>1, NightInitOK, NightStepOK, PTL DEF NightSpec

=============================================================================
