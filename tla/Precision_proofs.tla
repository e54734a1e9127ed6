-------------------------- MODULE Precision_proofs --------------------------
(***************************************************************************)
(* Proofs about Precision for any callers, iterations and focuser sweeps.  *)
(***************************************************************************)
EXTENDS Precision, TLAPS

PCs == {"idle", "locking", "frame", "solve", "slew", "sweep", "sample", "settle"}

OpRec == [pc : PCs, what : {"center", "focus"}, iter : Int, frame : Callers \cup {0},
          start : Int, todo : Seq(Int), starry : SUBSET Int, goal : Int]

LineTyped  == line \in Seq(Callers)
OpsTyped   == op \in [Callers -> OpRec]
MountTyped == pointing \in Callers \cup {0}
FocusTyped == focus \in [at : Int, to : Int]

(* An operation under way has the lock. *)
Working(c) == op[c].pc \notin {"idle", "locking"}

LockOK == \A c \in Callers : Working(c) => Holds(c)

(* There is a position to sample at. *)
HasTodo == \A c \in Callers : AtPc(c, "sample") => op[c].todo # <<>>

(* It has the lock, or works under it: one of the two before every step but the first. *)
Active(c) == HasLock(c) \/ Working(c)

LEMMA Numbers ==
    /\ Callers \subseteq Nat /\ 0 \notin Callers
    /\ MaxIter \in Nat /\ Points \in Nat /\ Points > 0 /\ Backlash \in Nat /\ MaxFocus \in Nat
BY PrecisionConstants

-----------------------------------------------------------------------------
(***************************************************************************)
(* How the record of an operation changes.                                 *)
(***************************************************************************)
LEMMA NothingTyped == Nothing \in OpRec
<1>1. <<>> \in Seq(Int) /\ {} \in SUBSET Int
  OBVIOUS
<1>2. 0 \in Int /\ 0 \in Callers \cup {0}
  OBVIOUS
<1>3. "idle" \in PCs /\ "center" \in {"center", "focus"}
  BY DEF PCs
<1> QED
  BY <1>1, <1>2, <1>3, Zenon DEF Nothing, OpRec

(* What one step makes of the record of the caller that takes it. *)
Pc(c, pc) == op' = [op EXCEPT ![c].pc = pc]

LEMMA OpWriters ==
    ASSUME PrecisionNext
    PROVE  \/ UNCHANGED op
           \/ \E c \in Callers :
                 \/ Ask(c, "center") \/ Ask(c, "focus")
                 \/ Active(c) /\ (OpStep(c) \/ Raise(c))
<1>1. ASSUME NEW c \in Callers, OpStep(c) PROVE Active(c)
  BY <1>1
     DEF OpStep, Refuse, StartCenter, Frame, Centered, NoSolution, Correct, Slewed, StartFocus,
         Approach, Sample, Swept, Focused, Active, Working, AtPc
<1>2. ASSUME NEW c \in Callers, Raise(c) PROVE Active(c)
  BY <1>2 DEF Raise, Active, Working
<1> QED
  BY <1>1, <1>2 DEF PrecisionNext, MountMoved, FocuserMoved

(* A step writes the record of its own caller only. *)
LEMMA OnlyOwn ==
    ASSUME OpsTyped, NEW c \in Callers, NEW d \in Callers, c # d,
           \/ Ask(c, "center") \/ Ask(c, "focus") \/ OpStep(c) \/ Raise(c)
    PROVE  op'[d] = op[d]
<1>1. CASE Ask(c, "center") \/ Ask(c, "focus")
  BY <1>1 DEF Ask, OpsTyped
<1>2. CASE Refuse(c) \/ Raise(c) \/ Centered(c) \/ Focused(c)
  BY <1>2 DEF Refuse, Raise, Centered, Focused, Leaves, OpsTyped
<1>3. CASE NoSolution(c) \/ Slewed(c)
  BY <1>3 DEF NoSolution, Slewed, NextIter, Leaves, OpsTyped
<1>4. CASE StartCenter(c) \/ Frame(c) \/ Correct(c)
  BY <1>4 DEF StartCenter, Frame, Correct, OpsTyped
<1>5. CASE StartFocus(c) \/ Approach(c)
  BY <1>5 DEF StartFocus, Approach, OpsTyped
<1>6. CASE Sample(c) \/ Swept(c)
  BY <1>6 DEF Sample, Swept, OpsTyped
<1> QED
  BY <1>1, <1>2, <1>3, <1>4, <1>5, <1>6 DEF OpStep

(* The sweep starts below the first sample, and holds one position each. *)
LEMMA SweepTyped ==
    ASSUME NEW lo \in Int
    PROVE  <<lo - Backlash>> \o [k \in 1 .. Points |-> lo + k - 1] \in Seq(Int)
<1> DEFINE samples == [k \in 1 .. Points |-> lo + k - 1]
           first == <<lo - Backlash>>
<1>1. samples \in Seq(Int)
  BY Numbers
<1>2. first \in Seq(Int)
  BY Numbers
<1> HIDE DEF samples, first
<1>3. first \o samples \in Seq(Int)
  BY <1>1, <1>2
<1> QED
  BY <1>3 DEF samples, first

LEMMA OpsStep ==
    ASSUME OpsTyped, MountTyped, FocusTyped, HasTodo, [PrecisionNext]_preVars
    PROVE  OpsTyped'
<1> USE DEF OpsTyped
<1>0. ASSUME NEW c \in Callers, NEW r \in OpRec, op' = [op EXCEPT ![c] = r] PROVE OpsTyped'
  BY <1>0
<1>1. ASSUME NEW c \in Callers, NEW pc \in PCs, Pc(c, pc) PROVE OpsTyped'
  <2>1. [op[c] EXCEPT !.pc = pc] \in OpRec
    BY Zenon DEF OpRec
  <2> QED
    BY <1>1, <2>1 DEF Pc
<1>2. CASE UNCHANGED op
  BY <1>2
<1>3. ASSUME NEW c \in Callers, NEW what \in {"center", "focus"}, Ask(c, what) PROVE OpsTyped'
  <2> DEFINE r == [Nothing EXCEPT !.pc = "locking", !.what = what]
  <2>1. r \in OpRec
    BY NothingTyped, Zenon DEF OpRec, PCs
  <2>2. op' = [op EXCEPT ![c] = r]
    BY <1>3 DEF Ask
  <2> HIDE DEF r
  <2> QED
    BY <1>0, <2>1, <2>2
<1>4. ASSUME NEW c \in Callers, Leaves(c) PROVE OpsTyped'
  BY <1>0, <1>4, NothingTyped DEF Leaves
<1>5. ASSUME NEW c \in Callers, StartCenter(c) \/ NoSolution(c) \/ Correct(c) \/ Slewed(c)
      PROVE  OpsTyped'
  BY <1>1, <1>4, <1>5 DEF StartCenter, NoSolution, Correct, Slewed, NextIter, Pc, PCs
<1>6. ASSUME NEW c \in Callers, Frame(c) PROVE OpsTyped'
  <2>1. op[c].iter + 1 \in Int
    BY DEF OpRec
  <2>2. [op[c] EXCEPT !.pc = "solve", !.iter = op[c].iter + 1, !.frame = pointing] \in OpRec
    BY <2>1, Zenon DEF OpRec, PCs, MountTyped
  <2>3. op' = [op EXCEPT ![c] = [op[c] EXCEPT !.pc = "solve", !.iter = op[c].iter + 1,
                                              !.frame = pointing]]
    BY <1>6 DEF Frame
  <2> QED
    BY <1>0, <2>2, <2>3
<1>7. ASSUME NEW c \in Callers, StartFocus(c) PROVE OpsTyped'
  <2> DEFINE lo == focus.at - (Points - 1) \div 2
             todo == <<lo - Backlash>> \o [k \in 1 .. Points |-> lo + k - 1]
  <2>1. focus.at \in Int /\ lo \in Int
    BY Numbers DEF FocusTyped
  <2>2. todo \in Seq(Int)
    BY <2>1, SweepTyped
  <2>3. op' = [op EXCEPT ![c] = [op[c] EXCEPT !.pc = "sweep", !.start = focus.at, !.todo = todo]]
    BY <1>7 DEF StartFocus
  <2> HIDE DEF todo
  <2>4. [op[c] EXCEPT !.pc = "sweep", !.start = focus.at, !.todo = todo] \in OpRec
    BY <2>1, <2>2, Zenon DEF OpRec, PCs
  <2> QED
    BY <1>0, <2>3, <2>4
<1>8. ASSUME NEW c \in Callers, Approach(c) PROVE OpsTyped'
  <2>1. Pc(c, "sample") \/ op' = [op EXCEPT ![c] = [op[c] EXCEPT !.todo = Tail(op[c].todo)]]
    BY <1>8 DEF Approach, Pc
  <2>2. Tail(op[c].todo) \in Seq(Int)
    BY <1>8 DEF Approach, OpRec
  <2>3. [op[c] EXCEPT !.todo = Tail(op[c].todo)] \in OpRec
    BY <2>2, Zenon DEF OpRec
  <2> QED
    BY <1>0, <1>1, <2>1, <2>3 DEF PCs
<1>9. ASSUME NEW c \in Callers, Sample(c) PROVE OpsTyped'
  <2>1. op[c].todo \in Seq(Int) /\ op[c].todo # <<>> /\ op[c].starry \in SUBSET Int
    BY <1>9 DEF Sample, HasTodo, OpRec
  <2>2. Tail(op[c].todo) \in Seq(Int) /\ Head(op[c].todo) \in Int
    BY <2>1
  <2>3. PICK stars \in BOOLEAN :
           op' = [op EXCEPT ![c].pc = "sweep", ![c].todo = Tail(@),
                            ![c].starry = IF stars THEN @ \cup {Head(op[c].todo)} ELSE @]
    BY <1>9 DEF Sample
  <2> DEFINE starry == IF stars THEN op[c].starry \cup {Head(op[c].todo)} ELSE op[c].starry
             r == [op[c] EXCEPT !.pc = "sweep", !.todo = Tail(op[c].todo), !.starry = starry]
  <2>4. op' = [op EXCEPT ![c] = r]
    BY <2>3
  <2>5. starry \in SUBSET Int
    BY <2>1, <2>2
  <2> HIDE DEF starry
  <2>6. r \in OpRec
    BY <2>2, <2>5, Zenon DEF OpRec, PCs
  <2> HIDE DEF r
  <2> QED
    BY <1>0, <2>4, <2>6
<1>10. ASSUME NEW c \in Callers, Swept(c) PROVE OpsTyped'
  <2>1. op[c].start \in Int /\ op[c].starry \in SUBSET Int
    BY DEF OpRec
  <2>2. Candidates(op[c].starry) \subseteq Int
    BY <2>1, Numbers DEF Candidates
  <2>3. PICK p \in Int :
           op' = [op EXCEPT ![c].pc = "settle", ![c].todo = FromBelow(p), ![c].goal = p]
    BY <1>10, <2>1, <2>2 DEF Swept
  <2> DEFINE r == [op[c] EXCEPT !.pc = "settle", !.todo = FromBelow(p), !.goal = p]
  <2>4. op' = [op EXCEPT ![c] = r]
    BY <2>3
  <2>5. FromBelow(p) \in Seq(Int)
    BY Numbers DEF FromBelow
  <2>6. r \in OpRec
    BY <2>5, Zenon DEF OpRec, PCs
  <2> HIDE DEF r
  <2> QED
    BY <1>0, <2>4, <2>6
<1>11. ASSUME NEW c \in Callers, Refuse(c) \/ Raise(c) \/ Centered(c) \/ Focused(c) PROVE OpsTyped'
  BY <1>4, <1>11 DEF Refuse, Raise, Centered, Focused
<1>12. ASSUME NEW c \in Callers, OpStep(c) PROVE OpsTyped'
  BY <1>5, <1>6, <1>7, <1>8, <1>9, <1>10, <1>11, <1>12 DEF OpStep
<1>13. CASE UNCHANGED preVars
  BY <1>2, <1>13 DEF preVars
<1> HIDE DEF OpsTyped
<1> QED
  BY <1>2, <1>3, <1>11, <1>12, <1>13, OpWriters

LEMMA LineStep ==
    ASSUME OpsTyped, LineTyped, LockOK, [PrecisionNext]_preVars
    PROVE  LineTyped'
<1> USE DEF LineTyped
<1>1. ASSUME NEW c \in Callers, Active(c), Leaves(c) \/ UNCHANGED line PROVE LineTyped'
  BY <1>1 DEF Leaves, Active, HasLock, Holds, LockOK
<1>2. ASSUME NEW c \in Callers, NEW what, Ask(c, what) PROVE LineTyped'
  BY <1>2 DEF Ask
<1>3. ASSUME NEW c \in Callers, OpStep(c) \/ Raise(c) PROVE Leaves(c) \/ UNCHANGED line
  BY <1>3 DEF OpStep, Raise, Refuse, StartCenter, Frame, Centered, NoSolution, Correct, Slewed,
              NextIter, StartFocus, Approach, Sample, Swept, Focused
<1>4. CASE UNCHANGED line
  BY <1>4
<1>5. ASSUME NEW c \in Callers, OpStep(c) \/ Raise(c) PROVE Active(c)
  BY <1>5
     DEF OpStep, Raise, Refuse, StartCenter, Frame, Centered, NoSolution, Correct, Slewed,
         StartFocus, Approach, Sample, Swept, Focused, Active, Working, AtPc
<1> QED
  BY <1>1, <1>2, <1>3, <1>4, <1>5 DEF PrecisionNext, MountMoved, FocuserMoved, preVars

-----------------------------------------------------------------------------
(***************************************************************************)
(* The lock.                                                               *)
(***************************************************************************)
(* While d works, what happens is d's own, or leaves its record alone.     *)
LEMMA OneWorks ==
    ASSUME OpsTyped, LineTyped, LockOK, PrecisionNext, NEW d \in Callers, Working(d)
    PROVE  \/ OpStep(d) \/ Raise(d)
           \/ /\ op'[d] = op[d] /\ line' # <<>> /\ Head(line') = Head(line)
              /\ \/ UNCHANGED <<pointing, focus, nudged, disturbed, misread>>
                 \/ MountMoved \/ FocuserMoved
<1>1. line \in Seq(Callers) /\ line # <<>> /\ Head(line) = d
  BY DEF LockOK, Holds, LineTyped
<1>2. ASSUME NEW c \in Callers, OpStep(c) \/ Raise(c) PROVE c = d
  <2>1. Active(c)
    BY <1>2
       DEF OpStep, Raise, Refuse, StartCenter, Frame, Centered, NoSolution, Correct, Slewed,
           StartFocus, Approach, Sample, Swept, Focused, Active, Working, AtPc
  <2> QED
    BY <1>1, <2>1 DEF Active, HasLock, Holds, LockOK
<1>3. ASSUME NEW c \in Callers, Ask(c, "center") \/ Ask(c, "focus")
      PROVE  /\ op'[d] = op[d] /\ line' # <<>> /\ Head(line') = Head(line)
             /\ UNCHANGED <<pointing, focus, nudged, disturbed, misread>>
  <2>1. c # d
    BY <1>3 DEF Ask, AtPc, Working
  <2>2. op'[d] = op[d]
    BY <1>3, <2>1, OnlyOwn
  <2>3. line' = Append(line, c) /\ UNCHANGED <<pointing, focus, nudged, disturbed, misread>>
    BY <1>3 DEF Ask
  <2>4. Append(line, c) # <<>> /\ Head(Append(line, c)) = Head(line)
    BY <1>1
  <2> QED
    BY <2>2, <2>3, <2>4
<1>4. CASE MountMoved \/ FocuserMoved
  BY <1>1, <1>4 DEF MountMoved, FocuserMoved
<1> QED
  BY <1>2, <1>3, <1>4 DEF PrecisionNext

(* What the steps of d leave in its record. *)
LEMMA OwnRecord ==
    ASSUME OpsTyped, NEW d \in Callers
    PROVE  /\ Ask(d, "center") \/ Ask(d, "focus") => op'[d].pc = "locking"
           /\ Leaves(d) => op'[d].pc = "idle"
           /\ StartCenter(d) => op'[d].pc = "frame"
           /\ Frame(d) => op'[d].pc = "solve" /\ op'[d].frame = pointing
           /\ NoSolution(d) => op'[d].pc \in {"frame", "idle"}
           /\ Correct(d) => op'[d].pc = "slew"
           /\ Slewed(d) => op'[d].pc \in {"frame", "idle"}
           /\ StartFocus(d) => op'[d].pc = "sweep"
           /\ Sample(d) => op'[d].pc = "sweep"
<1> USE DEF OpsTyped, OpRec
<1>1. Ask(d, "center") \/ Ask(d, "focus") => op'[d].pc = "locking"
  BY DEF Ask, Nothing
<1>2. Leaves(d) => op'[d].pc = "idle"
  BY DEF Leaves, Nothing
<1>3. StartCenter(d) => op'[d].pc = "frame"
  BY DEF StartCenter
<1>4. Frame(d) => op'[d].pc = "solve" /\ op'[d].frame = pointing
  BY DEF Frame
<1>5. NoSolution(d) \/ Slewed(d) => op'[d].pc \in {"frame", "idle"}
  BY <1>2 DEF NoSolution, Slewed, NextIter
<1>6. Correct(d) => op'[d].pc = "slew"
  BY DEF Correct
<1>7. StartFocus(d) => op'[d].pc = "sweep"
  BY DEF StartFocus
<1>8. Sample(d) => op'[d].pc = "sweep"
  BY DEF Sample
<1> QED
  BY <1>1, <1>2, <1>3, <1>4, <1>5, <1>6, <1>7, <1>8

LEMMA ApproachRecord ==
    ASSUME OpsTyped, NEW d \in Callers, Approach(d)
    PROVE  \/ /\ AtPc(d, "sweep") /\ op'[d].pc = "sample" /\ op'[d].todo = op[d].todo
           \/ /\ op'[d].pc = op[d].pc /\ op'[d].todo = Tail(op[d].todo) /\ op'[d].goal = op[d].goal
BY DEF OpsTyped, OpRec, Approach, AtPc

LEMMA SweptRecord ==
    ASSUME OpsTyped, NEW d \in Callers, Swept(d)
    PROVE  op'[d].pc = "settle" /\ op'[d].todo = FromBelow(op'[d].goal)
<1>1. PICK p : op' = [op EXCEPT ![d].pc = "settle", ![d].todo = FromBelow(p), ![d].goal = p]
  BY DEF Swept
<1> QED
  BY <1>1 DEF OpsTyped, OpRec

(* To work, a caller has to start. *)
LEMMA Enters ==
    ASSUME OpsTyped, [PrecisionNext]_preVars, NEW d \in Callers, ~Working(d)
    PROVE  \/ op'[d] = op[d]
           \/ op'[d].pc \in {"idle", "locking"}
           \/ HasLock(d) /\ UNCHANGED line /\ op'[d].pc \in {"frame", "sweep"}
<1>1. CASE Ask(d, "center") \/ Ask(d, "focus") \/ Refuse(d)
  BY <1>1, OwnRecord DEF Refuse
<1>2. CASE StartCenter(d) \/ StartFocus(d)
  BY <1>2, OwnRecord DEF StartCenter, StartFocus
<1>3. ASSUME OpStep(d) \/ Raise(d) PROVE Refuse(d) \/ StartCenter(d) \/ StartFocus(d)
  BY <1>3
     DEF OpStep, Raise, Frame, Centered, NoSolution, Correct, Slewed, Approach, Sample, Swept,
         Focused, Working, AtPc
<1>4. ASSUME NEW c \in Callers, c # d, OpStep(c) \/ Raise(c) \/ Ask(c, "center") \/ Ask(c, "focus")
      PROVE  op'[d] = op[d]
  BY <1>4, OnlyOwn
<1>5. CASE UNCHANGED op
  BY <1>5
<1> QED
  BY <1>1, <1>2, <1>3, <1>4, <1>5 DEF PrecisionNext, MountMoved, FocuserMoved, preVars

LEMMA LockStep ==
    ASSUME OpsTyped, LineTyped, LockOK, [PrecisionNext]_preVars
    PROVE  LockOK'
<1> SUFFICES ASSUME NEW d \in Callers, (op[d].pc \notin {"idle", "locking"})'
             PROVE  line' # <<>> /\ Head(line') = d
  BY DEF LockOK, Working, Holds
<1>1. CASE UNCHANGED preVars
  BY <1>1 DEF preVars, LockOK, Working, Holds
<1>2. CASE PrecisionNext /\ Working(d)
  <2>1. line # <<>> /\ Head(line) = d
    BY <1>2 DEF LockOK, Holds
  <2>2. CASE OpStep(d) \/ Raise(d)
    <3>1. UNCHANGED line \/ Leaves(d)
      BY <2>2 DEF OpStep, Raise, Refuse, StartCenter, Frame, Centered, NoSolution, Correct, Slewed,
                  NextIter, StartFocus, Approach, Sample, Swept, Focused
    <3> QED
      BY <2>1, <3>1, OwnRecord
  <2> QED
    BY <1>2, <2>1, <2>2, OneWorks
<1>3. CASE PrecisionNext /\ ~Working(d)
  BY <1>3, Enters DEF HasLock, Holds, Working
<1> QED
  BY <1>1, <1>2, <1>3

-----------------------------------------------------------------------------
(***************************************************************************)
(* What an operation knows of the mount and of the focuser.                *)
(***************************************************************************)
(* The frame being solved shows where the mount points. *)
FrameOK == \A c \in Callers : AtPc(c, "solve") => op[c].frame = pointing \/ nudged

(* The focuser is where the next sample is listed. *)
SampleOK == \A c \in Callers : AtPc(c, "sample") => focus.at = Head(op[c].todo) \/ disturbed

(* The last moves come from below, and the last of them is to the goal. *)
SettleOK == \A c \in Callers :
    AtPc(c, "settle") =>
        \/ op[c].todo = <<op[c].goal - Backlash, op[c].goal>>
        \/ op[c].todo = <<op[c].goal>>
        \/ op[c].todo = <<>> /\ (focus.at = op[c].goal \/ disturbed)

PTypes == LineTyped /\ OpsTyped /\ MountTyped /\ FocusTyped
PInv   == PTypes /\ LockOK /\ HasTodo /\ FrameOK /\ SampleOK /\ SettleOK /\ SweepReadsTrue

LEMMA MountStep ==
    ASSUME MountTyped, [PrecisionNext]_preVars PROVE MountTyped'
BY DEF MountTyped, PrecisionNext, preVars, OpStep, Raise, Ask, Refuse, StartCenter, Frame, Centered,
       NoSolution, Correct, Slewed, StartFocus, Approach, Sample, Swept, Focused, MountMoved,
       FocuserMoved

LEMMA FocusStep ==
    ASSUME OpsTyped, FocusTyped, [PrecisionNext]_preVars PROVE FocusTyped'
<1>1. ASSUME NEW c \in Callers, Approach(c) PROVE FocusTyped'
  <2>1. Head(op[c].todo) \in Int
    BY <1>1 DEF Approach, OpsTyped, OpRec
  <2> QED
    BY <1>1, <2>1 DEF Approach, Moves, FocusTyped
<1>2. CASE FocuserMoved
  BY <1>2, Numbers DEF FocuserMoved, FocusTyped
<1>3. CASE UNCHANGED focus
  BY <1>3 DEF FocusTyped
<1> QED
  BY <1>1, <1>2, <1>3
     DEF PrecisionNext, preVars, OpStep, Raise, Ask, Refuse, StartCenter, Frame, Centered,
         NoSolution, Correct, Slewed, StartFocus, Sample, Swept, Focused, MountMoved

(* Where a step of d that is not its last has brought it from. *)
LEMMA OwnSteps ==
    ASSUME OpsTyped, NEW d \in Callers, OpStep(d) \/ Raise(d)
    PROVE  /\ op'[d].pc = "solve" => Frame(d)
           /\ op'[d].pc = "sample" => Approach(d) /\ AtPc(d, "sweep") /\ op'[d].todo = op[d].todo
           /\ op'[d].pc = "settle" =>
                 Swept(d) \/ (/\ Approach(d) /\ AtPc(d, "settle")
                             /\ op'[d].todo = Tail(op[d].todo) /\ op'[d].goal = op[d].goal)
<1>1. CASE Refuse(d) \/ Raise(d) \/ Centered(d) \/ Focused(d)
  BY <1>1, OwnRecord DEF Refuse, Raise, Centered, Focused
<1>2. CASE StartCenter(d) \/ Frame(d) \/ NoSolution(d) \/ Correct(d) \/ Slewed(d)
  BY <1>2, OwnRecord
<1>3. CASE StartFocus(d) \/ Sample(d)
  BY <1>3, OwnRecord
<1>4. CASE Approach(d)
  BY <1>4, ApproachRecord DEF Approach, AtPc
<1>5. CASE Swept(d)
  BY <1>5, SweptRecord
<1> QED
  BY <1>1, <1>2, <1>3, <1>4, <1>5 DEF OpStep

(* A move ends where it was told to, or it counts as disturbed. *)
LEMMA MoveLands ==
    ASSUME NEW c, NEW pos, Moves(c, pos) PROVE focus'.at = pos \/ disturbed'
<1> DEFINE to == IF pos < 0 THEN 0 ELSE pos
<1>1. CASE focus' = [at |-> to, to |-> to] /\ disturbed' = (disturbed \/ pos < 0)
  <2>1. CASE pos < 0
    <3>1. disturbed \/ pos < 0
      BY <2>1
    <3> QED
      BY <1>1, <3>1, Zenon
  <2>2. CASE ~(pos < 0)
    BY <1>1, <2>2
  <2> QED
    BY <2>1, <2>2
<1> QED
  BY <1>1 DEF Moves

LEMMA FrameStep ==
    ASSUME OpsTyped, LineTyped, LockOK, FrameOK, [PrecisionNext]_preVars PROVE FrameOK'
<1> SUFFICES ASSUME NEW d \in Callers, op'[d].pc = "solve"
             PROVE  op'[d].frame = pointing' \/ nudged'
  BY DEF FrameOK, AtPc
<1>1. CASE UNCHANGED preVars
  BY <1>1 DEF preVars, FrameOK, AtPc
<1>2. CASE PrecisionNext /\ Working(d)
  <2>1. CASE OpStep(d) \/ Raise(d)
    BY <2>1, OwnSteps, OwnRecord DEF Frame
  <2>2. CASE op'[d] = op[d] /\ (UNCHANGED <<pointing, nudged>> \/ nudged')
    BY <2>2 DEF FrameOK, AtPc
  <2> QED
    BY <1>2, <2>1, <2>2, OneWorks DEF MountMoved, FocuserMoved
<1>3. CASE PrecisionNext /\ ~Working(d)
  BY <1>3, Enters DEF Working
<1> QED
  BY <1>1, <1>2, <1>3

LEMMA SampleStep ==
    ASSUME OpsTyped, LineTyped, LockOK, HasTodo, SampleOK, [PrecisionNext]_preVars
    PROVE  HasTodo' /\ SampleOK'
<1> SUFFICES ASSUME NEW d \in Callers, op'[d].pc = "sample"
             PROVE  op'[d].todo # <<>> /\ (focus'.at = Head(op'[d].todo) \/ disturbed')
  BY DEF HasTodo, SampleOK, AtPc
<1>1. CASE UNCHANGED preVars
  BY <1>1 DEF preVars, HasTodo, SampleOK, AtPc
<1>2. CASE PrecisionNext /\ Working(d)
  <2>1. CASE OpStep(d) \/ Raise(d)
    <3>1. Approach(d) /\ op'[d].todo = op[d].todo
      BY <2>1, OwnSteps
    <3> QED
      BY <3>1, MoveLands DEF Approach
  <2>2. CASE op'[d] = op[d] /\ (UNCHANGED <<focus, disturbed>> \/ disturbed')
    BY <2>2 DEF HasTodo, SampleOK, AtPc
  <2> QED
    BY <1>2, <2>1, <2>2, OneWorks DEF MountMoved, FocuserMoved
<1>3. CASE PrecisionNext /\ ~Working(d)
  BY <1>3, Enters DEF Working
<1> QED
  BY <1>1, <1>2, <1>3

LEMMA SettleStep ==
    ASSUME OpsTyped, LineTyped, LockOK, SettleOK, [PrecisionNext]_preVars
    PROVE  SettleOK'
<1> SUFFICES ASSUME NEW d \in Callers, op'[d].pc = "settle"
             PROVE  \/ op'[d].todo = <<op'[d].goal - Backlash, op'[d].goal>>
                    \/ op'[d].todo = <<op'[d].goal>>
                    \/ op'[d].todo = <<>> /\ (focus'.at = op'[d].goal \/ disturbed')
  BY DEF SettleOK, AtPc
<1>1. CASE UNCHANGED preVars
  BY <1>1 DEF preVars, SettleOK, AtPc
<1>2. CASE PrecisionNext /\ Working(d)
  <2>1. CASE Swept(d)
    BY <2>1, SweptRecord DEF FromBelow
  <2>2. CASE /\ Approach(d) /\ AtPc(d, "settle")
             /\ op'[d].todo = Tail(op[d].todo) /\ op'[d].goal = op[d].goal
    <3>1. CASE op[d].todo = <<op[d].goal - Backlash, op[d].goal>>
      BY <2>2, <3>1
    <3>2. CASE op[d].todo = <<op[d].goal>>
      <4>1. focus'.at = op[d].goal \/ disturbed'
        BY <2>2, <3>2, MoveLands DEF Approach
      <4> QED
        BY <2>2, <3>2, <4>1
    <3>3. op[d].todo # <<>>
      BY <2>2 DEF Approach
    <3> QED
      BY <2>2, <3>1, <3>2, <3>3 DEF SettleOK
  <2>3. CASE op'[d] = op[d] /\ (UNCHANGED <<focus, disturbed>> \/ disturbed')
    BY <2>3 DEF SettleOK, AtPc
  <2> QED
    BY <1>2, <2>1, <2>2, <2>3, OneWorks, OwnSteps DEF MountMoved, FocuserMoved
<1>3. CASE PrecisionNext /\ ~Working(d)
  BY <1>3, Enters DEF Working
<1> QED
  BY <1>1, <1>2, <1>3

(* A mark left by a sample is never kept longer than the excuse for it. *)
LEMMA ReadsStep ==
    ASSUME SampleOK, SweepReadsTrue, [PrecisionNext]_preVars PROVE SweepReadsTrue'
<1> USE DEF SweepReadsTrue
<1>1. ASSUME NEW c \in Callers, Sample(c) PROVE SweepReadsTrue'
  BY <1>1 DEF Sample, SampleOK
<1>2. ASSUME NEW c \in Callers, StartFocus(c) PROVE SweepReadsTrue'
  BY <1>2 DEF StartFocus
<1>3. ASSUME NEW c \in Callers, Approach(c) PROVE SweepReadsTrue'
  BY <1>3 DEF Approach, Moves
<1>4. CASE FocuserMoved
  BY <1>4 DEF FocuserMoved
<1>5. CASE UNCHANGED <<disturbed, misread>>
  BY <1>5
<1> QED
  BY <1>1, <1>2, <1>3, <1>4, <1>5
     DEF PrecisionNext, preVars, OpStep, Raise, Ask, Refuse, StartCenter, Frame, Centered,
         NoSolution, Correct, Slewed, Swept, Focused, MountMoved

-----------------------------------------------------------------------------
LEMMA PInit == PrecisionInit => PInv
<1> SUFFICES ASSUME PrecisionInit PROVE PInv
  OBVIOUS
<1>1. OpsTyped
  BY NothingTyped DEF PrecisionInit, OpsTyped
<1>2. LineTyped /\ MountTyped /\ FocusTyped
  BY Numbers DEF PrecisionInit, LineTyped, MountTyped, FocusTyped
<1>3. \A c \in Callers : op[c].pc = "idle"
  BY DEF PrecisionInit, Nothing
<1>4. LockOK /\ HasTodo /\ FrameOK /\ SampleOK /\ SettleOK
  BY <1>3 DEF LockOK, HasTodo, FrameOK, SampleOK, SettleOK, Working, AtPc
<1> QED
  BY <1>1, <1>2, <1>4 DEF PInv, PTypes, PrecisionInit, SweepReadsTrue

LEMMA PStep == PInv /\ [PrecisionNext]_preVars => PInv'
BY OpsStep, LineStep, MountStep, FocusStep, LockStep, FrameStep, SampleStep, SettleStep, ReadsStep
   DEF PInv, PTypes

(* However many operations are asked for at once, the lock keeps each of   *)
(* them alone with what it knows of the mount and the focuser.             *)
THEOREM WorksAlone == PrecisionSpec => []PInv
BY PInit, PStep, PTL DEF PrecisionSpec

(* A sample is listed where it was taken (_run_autofocus), with the        *)
(* provisos of SweepReadsTrue.                                             *)
THEOREM SweepsReadTrue == PrecisionSpec => []SweepReadsTrue
<1>1. PInv => SweepReadsTrue
  BY DEF PInv
<1> QED
  BY <1>1, WorksAlone, PTL

(* run_center says "ok" only with the mount on the target it was given.    *)
THEOREM CenteringHolds == PrecisionSpec => CenterHolds
<1>1. PInv /\ [PrecisionNext]_preVars =>
         [\A c \in Callers : Centered(c) => pointing = c \/ nudged]_preVars
  BY DEF PInv, FrameOK, Centered, OnTarget
<1> QED
  BY <1>1, WorksAlone, PTL DEF PrecisionSpec, CenterHolds

(* An autofocus that ends leaves the focuser at the best position, or      *)
(* where it found it.                                                      *)
THEOREM FocuserLandsThere == PrecisionSpec => FocuserLands
<1>1. PInv /\ [PrecisionNext]_preVars =>
         [\A c \in Callers : Focused(c) => focus.at = op[c].goal \/ disturbed]_preVars
  BY DEF PInv, SettleOK, Focused
<1> QED
  BY <1>1, WorksAlone, PTL DEF PrecisionSpec, FocuserLands

(* What centring and autofocus report is true of mount and focuser. *)
THEOREM ReportsAreTrue == PrecisionSpec => ResultsHold
BY CenteringHolds, FocuserLandsThere, PTL DEF ResultsHold

-----------------------------------------------------------------------------
(***************************************************************************)
(* The bounds of the counters: a frame is taken only while there are       *)
(* iterations left, and a sweep starts from a position in range.           *)
(***************************************************************************)
CountsOK ==
    \A c \in Callers :
        /\ op[c].iter \in 0 .. MaxIter
        /\ op[c].start \in 0 .. MaxFocus
        /\ op[c].pc \in {"locking", "frame"} => op[c].iter < MaxIter

FocusInRange == focus \in [at : Nat, to : Nat]

ShownOK == centering \in Results /\ focusing \in Results

NotesOK == nudged \in BOOLEAN /\ disturbed \in BOOLEAN /\ misread \in BOOLEAN

LEMMA RangeStep ==
    ASSUME OpsTyped, FocusInRange, [PrecisionNext]_preVars PROVE FocusInRange'
<1>1. ASSUME NEW c \in Callers, Approach(c) PROVE FocusInRange'
  <2>1. Head(op[c].todo) \in Int
    BY <1>1 DEF Approach, OpsTyped, OpRec
  <2> QED
    BY <1>1, <2>1 DEF Approach, Moves, FocusInRange
<1>2. CASE FocuserMoved
  BY <1>2, Numbers DEF FocuserMoved, FocusInRange
<1>3. CASE UNCHANGED focus
  BY <1>3 DEF FocusInRange
<1> QED
  BY <1>1, <1>2, <1>3
     DEF PrecisionNext, preVars, OpStep, Raise, Ask, Refuse, StartCenter, Frame, Centered,
         NoSolution, Correct, Slewed, StartFocus, Sample, Swept, Focused, MountMoved

LEMMA ShownStep ==
    ASSUME ShownOK, [PrecisionNext]_preVars PROVE ShownOK'
<1> USE DEF ShownOK
<1>1. ASSUME NEW what, NEW result \in Results, Show(what, result) PROVE ShownOK'
  BY <1>1 DEF Show
<1>2. CASE UNCHANGED <<centering, focusing>>
  BY <1>2
<1>3. \A x \in {"running", "ok", "failed"} : x \in Results
  BY DEF Results
<1>4. ASSUME NEW c \in Callers,
             \/ Refuse(c) \/ StartCenter(c) \/ Centered(c) \/ NoSolution(c) \/ Slewed(c)
             \/ StartFocus(c) \/ Swept(c) \/ Focused(c)
      PROVE  ShownOK'
  <2>1. CASE Refuse(c) \/ StartCenter(c) \/ Centered(c) \/ StartFocus(c)
    BY <1>1, <1>3, <2>1 DEF Refuse, StartCenter, Centered, StartFocus
  <2>2. CASE NoSolution(c) \/ Slewed(c)
    BY <1>1, <1>2, <1>3, <2>2 DEF NoSolution, Slewed, NextIter
  <2>3. CASE Swept(c) \/ Focused(c)
    BY <1>3, <2>3 DEF Swept, Focused, Show
  <2> QED
    BY <1>4, <2>1, <2>2, <2>3
<1> QED
  BY <1>2, <1>4
     DEF PrecisionNext, preVars, OpStep, Raise, Ask, Frame, Correct, Approach, Sample, MountMoved,
         FocuserMoved

LEMMA NotesStep ==
    ASSUME NotesOK, [PrecisionNext]_preVars PROVE NotesOK'
<1> USE DEF NotesOK
<1>1. ASSUME NEW c \in Callers, Approach(c) PROVE NotesOK'
  BY <1>1 DEF Approach, Moves
<1>2. ASSUME NEW c \in Callers, Sample(c) PROVE NotesOK'
  BY <1>2 DEF Sample
<1>3. ASSUME NEW c \in Callers, Frame(c) \/ StartFocus(c) PROVE NotesOK'
  BY <1>3 DEF Frame, StartFocus
<1>4. CASE MountMoved \/ FocuserMoved
  BY <1>4 DEF MountMoved, FocuserMoved
<1>5. CASE UNCHANGED <<nudged, disturbed, misread>>
  BY <1>5
<1> QED
  BY <1>1, <1>2, <1>3, <1>4, <1>5
     DEF PrecisionNext, preVars, OpStep, Raise, Ask, Refuse, StartCenter, Centered, NoSolution,
         Correct, Slewed, Swept, Focused

LEMMA CountsStep ==
    ASSUME OpsTyped, FocusInRange, CountsOK, [PrecisionNext]_preVars
    PROVE  CountsOK'
<1> DEFINE Fits(r) == /\ r.iter \in 0 .. MaxIter /\ r.start \in 0 .. MaxFocus
                      /\ r.pc \in {"locking", "frame"} => r.iter < MaxIter
<1> USE DEF OpsTyped, OpRec
<1>0. /\ MaxIter \in Nat /\ MaxIter > 0 /\ MaxFocus \in Nat
      /\ \A d \in Callers : Fits(op[d])
  BY PrecisionConstants DEF CountsOK
<1>1. ASSUME NEW d \in Callers, Leaves(d) PROVE Fits(op'[d])
  BY <1>0, <1>1 DEF Leaves, Nothing
<1>2. ASSUME NEW d \in Callers, Ask(d, "center") \/ Ask(d, "focus") PROVE Fits(op'[d])
  <2>1. PICK what \in {"center", "focus"} :
           op' = [op EXCEPT ![d] = [Nothing EXCEPT !.pc = "locking", !.what = what]]
    BY <1>2 DEF Ask
  <2>2. op'[d] = [Nothing EXCEPT !.pc = "locking", !.what = what]
    BY <2>1
  <2>3. op'[d].iter = 0 /\ op'[d].start = 0 /\ op'[d].pc = "locking"
    BY <2>2 DEF Nothing
  <2> QED
    BY <1>0, <2>3
<1>3. ASSUME NEW d \in Callers, StartCenter(d) PROVE Fits(op'[d])
  <2>1. Fits(op[d]) /\ op[d].pc = "locking"
    BY <1>0, <1>3 DEF StartCenter, HasLock, AtPc
  <2> QED
    BY <1>3, <2>1 DEF StartCenter
<1>4. ASSUME NEW d \in Callers, Frame(d) PROVE Fits(op'[d])
  <2>1. Fits(op[d]) /\ op[d].pc = "frame"
    BY <1>0, <1>4 DEF Frame, AtPc
  <2> QED
    BY <1>0, <1>4, <2>1 DEF Frame
<1>5. ASSUME NEW d \in Callers, NoSolution(d) \/ Slewed(d) PROVE Fits(op'[d])
  <2>1. CASE Leaves(d)
    BY <1>1, <2>1
  <2>2. CASE op[d].iter < MaxIter /\ op' = [op EXCEPT ![d].pc = "frame"]
    BY <1>0, <2>2
  <2> QED
    BY <1>5, <2>1, <2>2 DEF NoSolution, Slewed, NextIter
<1>6. ASSUME NEW d \in Callers, Correct(d) PROVE Fits(op'[d])
  BY <1>0, <1>6 DEF Correct
<1>7. ASSUME NEW d \in Callers, StartFocus(d) PROVE Fits(op'[d])
  <2>1. focus.at \in 0 .. MaxFocus
    BY <1>0, <1>7 DEF StartFocus, FocusInRange
  <2>2. Fits(op[d])
    BY <1>0
  <2>3. /\ op'[d].pc = "sweep" /\ op'[d].iter = op[d].iter /\ op'[d].start = focus.at
    BY <1>7 DEF StartFocus
  <2> QED
    BY <2>1, <2>2, <2>3
<1>8. ASSUME NEW d \in Callers, Approach(d) \/ Sample(d) \/ Swept(d) PROVE Fits(op'[d])
  <2>1. /\ op'[d].iter = op[d].iter /\ op'[d].start = op[d].start
        /\ op'[d].pc \notin {"locking", "frame"}
    <3>1. CASE Approach(d)
      <4>1. \/ op' = [op EXCEPT ![d].pc = "sample"]
            \/ op' = [op EXCEPT ![d].todo = Tail(@)] /\ op[d].pc \in {"sweep", "settle"}
        BY <3>1 DEF Approach
      <4>2. CASE op' = [op EXCEPT ![d].pc = "sample"]
        BY <4>2
      <4>3. CASE op' = [op EXCEPT ![d].todo = Tail(@)] /\ op[d].pc \in {"sweep", "settle"}
        BY <4>3
      <4> QED
        BY <4>1, <4>2, <4>3
    <3>2. CASE Sample(d)
      <4>1. PICK stars \in BOOLEAN :
               op' = [op EXCEPT ![d].pc = "sweep", ![d].todo = Tail(@),
                                ![d].starry = IF stars THEN @ \cup {Head(op[d].todo)} ELSE @]
        BY <3>2 DEF Sample
      <4> QED
        BY <4>1
    <3>3. CASE Swept(d)
      <4>1. PICK p : op' = [op EXCEPT ![d].pc = "settle", ![d].todo = FromBelow(p), ![d].goal = p]
        BY <3>3 DEF Swept
      <4> QED
        BY <4>1
    <3> QED
      BY <1>8, <3>1, <3>2, <3>3
  <2> QED
    BY <1>0, <2>1
<1>9. ASSUME NEW d \in Callers, NEW c \in Callers,
             OpStep(c) \/ Raise(c) \/ Ask(c, "center") \/ Ask(c, "focus")
      PROVE  Fits(op'[d])
  <2>1. CASE c # d
    BY <1>0, <1>9, <2>1, OnlyOwn
  <2>2. CASE c = d
    BY <1>1, <1>2, <1>3, <1>4, <1>5, <1>6, <1>7, <1>8, <1>9, <2>2
       DEF OpStep, Raise, Refuse, Centered, Focused
  <2> QED
    BY <2>1, <2>2
<1> HIDE DEF Fits
<1>10. \A d \in Callers : Fits(op'[d])
  BY <1>0, <1>9 DEF PrecisionNext, MountMoved, FocuserMoved, preVars
<1> QED
  BY <1>10 DEF CountsOK, Fits

(* The counters and positions stay in range, and the lock is a line of      *)
(* callers, for any callers and however often operations are asked for.     *)
THEOREM PrecisionTyped == PrecisionSpec => []PrecisionTypeOK
<1> DEFINE More == CountsOK /\ FocusInRange /\ ShownOK /\ NotesOK
<1>1. PrecisionInit => More
  <2> SUFFICES ASSUME PrecisionInit PROVE More
    OBVIOUS
  <2>1. CountsOK
    BY PrecisionConstants DEF PrecisionInit, CountsOK, Nothing
  <2>2. FocusInRange
    <3>1. PICK p \in 0 .. MaxFocus : focus = [at |-> p, to |-> p]
      BY DEF PrecisionInit
    <3> QED
      BY <3>1, Numbers DEF FocusInRange
  <2> QED
    BY <2>1, <2>2 DEF PrecisionInit, ShownOK, NotesOK, Results
<1>2. PInv /\ More /\ [PrecisionNext]_preVars => More'
  BY CountsStep, RangeStep, ShownStep, NotesStep DEF PInv, PTypes
<1>3. PInv /\ More => PrecisionTypeOK
  <2> SUFFICES ASSUME PInv, More PROVE PrecisionTypeOK
    OBVIOUS
  <2>1. op \in [Callers -> [pc : PCs, what : {"center", "focus"}, iter : 0 .. MaxIter,
                           frame : Callers \cup {0}, start : 0 .. MaxFocus,
                           todo : Seq(Int), starry : SUBSET Int, goal : Int]]
    BY Zenon DEF PInv, PTypes, OpsTyped, OpRec, CountsOK
  <2> QED
    BY <2>1 DEF PInv, PTypes, LineTyped, MountTyped, FocusInRange, ShownOK, NotesOK,
                PrecisionTypeOK, PCs
<1> HIDE DEF More
<1> QED
  BY <1>1, <1>2, <1>3, WorksAlone, PTL DEF PrecisionSpec

=============================================================================
