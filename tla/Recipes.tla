------------------------------ MODULE Recipes ------------------------------
(***************************************************************************)
(* The steps a plan expands to (PlanService._expand) and those of an       *)
(* approved candidate's request (RequestBuilder._expand_steps).  A recipe  *)
(* is a list of entries; filters, exposure times and coordinates ride      *)
(* along unchanged and are left out.  A loop of the code is a function of  *)
(* the number of its turns that are over.                                  *)
(***************************************************************************)
EXTENDS Naturals, Sequences, FiniteSets

CONSTANTS MaxEntries, MaxCount, MaxRepeat   \* bounds on what is expanded

ASSUME RecipeConstants == {MaxEntries, MaxCount, MaxRepeat} \subseteq Nat

VARIABLES
    spec,       \* what was expanded last
    steps       \* and the steps it gave

recipeVars == <<spec, steps>>

Types   == {"LIGHT", "DARK", "FLAT"}
Entries == [type : Types, count : 0 .. MaxCount, dither : BOOLEAN]
Recipe  == UNION {[1 .. n -> Entries] : n \in 0 .. MaxEntries}
Specs   == [by : {"plan"}, center : BOOLEAN, autofocus : BOOLEAN, repeat : 0 .. MaxRepeat,
            recipe : Recipe]
           \cup [by : {"request"}, center : {TRUE}, autofocus : {TRUE}, repeat : {1},
                 recipe : Recipe]

Step(kind)         == [kind |-> kind, type |-> "", frame |-> 0, of |-> 0]
Exposure(t, n, of) == [kind |-> "expose", type |-> t, frame |-> n, of |-> of]
If(cond, seq)      == IF cond THEN seq ELSE <<>>

(* The frames the entries of some types ask for. *)
FramesOf(entries, types) ==
    LET sum[i \in 0 .. Len(entries)] ==
            IF i = 0 THEN 0
            ELSE sum[i - 1] + (IF entries[i].type \in types THEN entries[i].count ELSE 0)
    IN sum[Len(entries)]

FramesIn(entries) == FramesOf(entries, Types)

(* Mutant: a dither after the last frame, too. *)
DithersAlways(e, n, total) == e.dither /\ e.type = "LIGHT"

(* Light frames only, and not after the last frame of all. *)
Dithers(e, n, total) == e.dither /\ e.type = "LIGHT" /\ n < total

(* Flats need a human: a prompt, once.  Here and below, w is the work so    *)
(* far: the steps, the frames counted, and whether there was a prompt.      *)
Prompted(w, e) ==
    IF e.type = "FLAT" /\ ~w.prompted
    THEN [w EXCEPT !.prompted = TRUE, !.steps = Append(@, Step("prompt"))]
    ELSE w

(* One frame. *)
Framed(w, e, total) ==
    LET n == w.frame + 1
        shot == Append(w.steps, Exposure(e.type, n, total))
    IN [w EXCEPT !.frame = n,
                 !.steps = IF Dithers(e, n, total) THEN Append(shot, Step("dither")) ELSE shot]

(* One entry: its frames after the prompt, if it needs one. *)
Entered(w, e, total) ==
    LET after[k \in 0 .. e.count] ==
            IF k = 0 THEN Prompted(w, e) ELSE Framed(after[k - 1], e, total)
    IN after[e.count]

(* The recipe once. *)
Gone(w, recipe, total) ==
    LET after[i \in 0 .. Len(recipe)] ==
            IF i = 0 THEN w ELSE Entered(after[i - 1], recipe[i], total)
    IN after[Len(recipe)]

Expanded(opening, recipe, repeat) ==
    LET total == repeat * FramesIn(recipe)
        begun == [steps |-> opening, frame |-> 0, prompted |-> FALSE]
        after[r \in 0 .. repeat] ==
            IF r = 0 THEN begun ELSE Gone(after[r - 1], recipe, total)
    IN after[repeat].steps

PlanSteps(p) ==
    LET opening == <<Step("slew")>> \o If(p.center, <<Step("center")>>)
                   \o If(p.autofocus, <<Step("autofocus")>>)
    IN Expanded(opening, p.recipe, p.repeat)

(* A request knows no image types, prompts or dither steps. *)
Plain(recipe) == [i \in DOMAIN recipe |-> [recipe[i] EXCEPT !.type = "LIGHT", !.dither = FALSE]]

RequestSteps(p) ==
    Expanded(<<Step("slew"), Step("center"), Step("autofocus")>>, Plain(p.recipe), 1)

StepsOf(p) == IF p.by = "plan" THEN PlanSteps(p) ELSE RequestSteps(p)

RecipeInit ==
    /\ spec = [by |-> "request", center |-> TRUE, autofocus |-> TRUE, repeat |-> 1, recipe |-> <<>>]
    /\ steps = StepsOf(spec)

Expand(p) ==
    /\ spec' = p
    /\ steps' = StepsOf(p)

RecipeSpec == RecipeInit /\ [][\E p \in Specs : Expand(p)]_recipeVars

-----------------------------------------------------------------------------
StepsAt(kind)   == {i \in DOMAIN steps : steps[i].kind = kind}
Shots           == StepsAt("expose")
ShotsOf(type)   == {i \in Shots : steps[i].type = type}
Frames(p, type) == p.repeat * FramesOf(p.recipe, {type})

(* What the sequencer counts on: the exposures are numbered through to the  *)
(* total it shows, and are those of the recipe; the first flat, and only    *)
(* it, is preceded by a prompt; a dither stands between a light frame and   *)
(* another frame.                                                          *)
RecipesExpand ==
    /\ \A i \in Shots : /\ steps[i].frame = Cardinality({j \in Shots : j <= i})
                        /\ steps[i].of = Cardinality(Shots)
    /\ spec.by = "plan" =>
          \A type \in Types : Cardinality(ShotsOf(type)) = Frames(spec, type)
    /\ spec.by = "request" =>
          Shots = ShotsOf("LIGHT") /\ Cardinality(Shots) = FramesIn(spec.recipe)
    /\ \A i, j \in StepsAt("prompt") : i = j
    /\ \A j \in ShotsOf("FLAT") : \E i \in StepsAt("prompt") : i < j
    /\ \A i \in StepsAt("dither") : i - 1 \in ShotsOf("LIGHT") /\ \E j \in Shots : i < j

=============================================================================
