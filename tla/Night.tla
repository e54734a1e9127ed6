-------------------------------- MODULE Night --------------------------------
(***************************************************************************)
(* Tonight (crito/transient/visibility.py) and the cache the console's     *)
(* routes keep of it (_night_cached in crito/core/app.py): the label is    *)
(* read, the night computed in a thread when the cache is of another one,  *)
(* and put into the cache afterwards, while other routes do the same and   *)
(* the clock passes noon.  Altitudes are small numbers, at a few points    *)
(* from noon to noon; every night of a behaviour has the same sun.         *)
(***************************************************************************)
EXTENDS Integers, FiniteSets

CONSTANTS
    Routes,     \* requests that ask for tonight
    Points,     \* the grid's points are 1 .. Points
    LastNoon    \* bound: half days the clock runs

ASSUME NightConstants == Points \in Nat \ {0} /\ LastNoon \in Nat /\ LastNoon > 2

VARIABLES
    halfDays,   \* the clock: odd from noon to midnight, even from midnight to noon
    sun, target,    \* their altitudes at the grid's points
    kept,       \* _NIGHT_CACHE: the label, and the night
    route       \* each request: where it is, the label it has read, and its answer

nightVars == <<halfDays, sun, target, kept, route>>

Grid      == 1 .. Points
Twilights == <<1, 2, 3>>    \* -18, -12 and 0 degrees, for the sun
AltMin    == 1              \* 30 degrees, for a target
BestMin   == 2              \* 60 degrees

NoNight  == [label |-> 0, from |-> 1, to |-> 1, twilight |-> 0]
NoAnswer == [night |-> NoNight, observable |-> FALSE, window |-> {}, best |-> {}, peak |-> 0]

(* night_label: before noon it is still the night of the evening before. *)
Label(t) == IF t % 2 = 1 THEN t \div 2 ELSE t \div 2 - 1

-----------------------------------------------------------------------------
LeastOf(S)    == CHOOSE x \in S : \A y \in S : x <= y
GreatestOf(S) == CHOOSE x \in S : \A y \in S : x >= y

(* The first of the grid's lowest points. *)
Deepest == LeastOf({g \in Grid : \A h \in Grid : sun[g] <= sun[h]})

(* _dark_run: from the deepest point as far as it is dark.  (The code's     *)
(* case of a deepest point that is not dark cannot arise.)                 *)
Dark(tw) == {g \in Grid : sun[g] < tw}
RunStart(tw) == LeastOf({i \in 1 .. Deepest : i .. Deepest \subseteq Dark(tw)})
RunEnd(tw)   == GreatestOf({j \in Deepest .. Points : Deepest .. j \subseteq Dark(tw)})

(* compute_night: nautical twilight, then the horizon, then the whole grid, *)
(* where it does not get as dark.                                          *)
ComputeNight(label) ==
    LET usable == {k \in DOMAIN Twilights : Dark(Twilights[k]) # {}} IN
    IF usable = {}
    THEN [label |-> label, from |-> 1, to |-> Points, twilight |-> 3]
    ELSE LET tw == Twilights[LeastOf(usable)] IN
         [label |-> label, from |-> RunStart(tw), to |-> RunEnd(tw), twilight |-> tw]

(* observability and visibility: first and last of the night's points where *)
(* the target is high enough, whatever it does between them.               *)
Above(night, thr) == {g \in night.from .. night.to : target[g] >= thr}

Window(night, thr) ==
    LET S == Above(night, thr) IN IF S = {} THEN {} ELSE {LeastOf(S), GreatestOf(S)}

Peak(night) == LeastOf({g \in night.from .. night.to :
                          \A h \in night.from .. night.to : target[h] <= target[g]})

Observability(night) ==
    [night |-> night, observable |-> target[Peak(night)] >= AltMin,
     window |-> Window(night, AltMin), best |-> Window(night, BestMin), peak |-> Peak(night)]

-----------------------------------------------------------------------------
NightInit ==
    /\ halfDays = 3
    /\ sun \in [Grid -> 0 .. 3]
    /\ target \in [Grid -> 0 .. 2]
    /\ kept = [label |-> 0, night |-> NoNight]
    /\ route = [r \in Routes |-> [pc |-> "idle", label |-> 0, answer |-> NoAnswer]]

(* Mutant: the cache is labelled before the night is there. *)
LooksUpEarly(r) ==
    LET label == Label(halfDays)  hit == kept.label = label IN
    /\ kept' = [kept EXCEPT !.label = label]
    /\ route' = [route EXCEPT ![r] =
                   IF hit THEN [pc |-> "done", label |-> label, answer |-> Observability(kept.night)]
                          ELSE [pc |-> "computing", label |-> label, answer |-> NoAnswer]]

(* _night_cached up to its await: a hit answers at once. *)
LooksUp(r) ==
    LET label == Label(halfDays)  hit == kept.label = label IN
    /\ kept' = kept
    /\ route' = [route EXCEPT ![r] =
                   IF hit THEN [pc |-> "done", label |-> label, answer |-> Observability(kept.night)]
                          ELSE [pc |-> "computing", label |-> label, answer |-> NoAnswer]]

Ask(r) ==
    /\ route[r].pc = "idle"
    /\ LooksUp(r)
    /\ UNCHANGED <<halfDays, sun, target>>

(* The thread returns the night of the time it was asked for.  The cache    *)
(* takes it, newer or older than what it holds.                            *)
Computed(r) ==
    /\ route[r].pc = "computing"
    /\ LET night == ComputeNight(route[r].label) IN
          /\ kept' = [label |-> route[r].label, night |-> night]
          /\ route' = [route EXCEPT ![r].pc = "done", ![r].answer = Observability(night)]
    /\ UNCHANGED <<halfDays, sun, target>>

Answered(r) ==
    /\ route[r].pc = "done"
    /\ route' = [route EXCEPT ![r] = [pc |-> "idle", label |-> 0, answer |-> NoAnswer]]
    /\ UNCHANGED <<halfDays, sun, target, kept>>

ClockRuns ==
    /\ halfDays < LastNoon
    /\ halfDays' = halfDays + 1
    /\ UNCHANGED <<sun, target, kept, route>>

NightNext == ClockRuns \/ \E r \in Routes : Ask(r) \/ Computed(r) \/ Answered(r)

NightSpec == NightInit /\ [][NightNext]_nightVars

-----------------------------------------------------------------------------
(* An answer is about the night it was asked in, whichever others were being *)
(* computed; that night is a longest stretch as dark as it says around the  *)
(* sun's lowest point, or the whole day if the sun never sets; and a target *)
(* is called observable exactly if it has a window, which contains its peak *)
(* and the best window.                                                    *)
AnswersHold ==
    \A r \in Routes : route[r].pc = "done" =>
        LET a == route[r].answer  n == a.night
            points == n.from .. n.to
        IN /\ n.label = route[r].label
           /\ \A g \in points : sun[g] < n.twilight \/ Dark(3) = {}
           /\ \A g \in {n.from - 1, n.to + 1} \cap Grid : sun[g] >= n.twilight
           /\ \A g \in Grid : \E h \in points : sun[h] <= sun[g]
           /\ a.observable <=> a.window # {}
           /\ a.observable => LeastOf(a.window) <= a.peak /\ a.peak <= GreatestOf(a.window)
           /\ \A g \in a.best : LeastOf(a.window) <= g /\ g <= GreatestOf(a.window)
           /\ \A g \in points : target[g] >= AltMin
                 => LeastOf(a.window) <= g /\ g <= GreatestOf(a.window)

=============================================================================
