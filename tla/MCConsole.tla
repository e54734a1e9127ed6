----------------------------- MODULE MCConsole -----------------------------
(***************************************************************************)
(* Small instances of Console, Recipes, Night and Feed, which share no     *)
(* state; the constants are given in the cfg file.  The bound "desk" keeps *)
(* the instance to the sum of its parts instead of their product: in one   *)
(* behaviour requests come for candidates, in others they come for plans,  *)
(* recipes are expanded, the console asks about tonight, or alerts are     *)
(* fetched.                                                                *)
(***************************************************************************)
EXTENDS Console, Recipes, Night, Feed, TLC

CONSTANTS Mine, First    \* a pass and an object: see Listed and OnFeed

VARIABLE desk

MCvars == <<vars, recipeVars, nightVars, feedVars, desk>>

(* Up to two recent records of the first class, and a third that is past   *)
(* the last page; one of the second class; one without classes.            *)
Recents  == {r \in Records : ~r.old}
Favoured == [oid |-> First, prob |-> MaxProb, old |-> FALSE]
OfFirst  == UNION {[1 .. n -> Recents] : n \in 0 .. 2}
OfSecond == {<<>>} \cup {<<r>> : r \in Records}
OfAny    == {<<>>} \cup {<<[oid |-> First, prob |-> 0, old |-> old]>> : old \in BOOLEAN}

Listed ==
    \E one \in OfFirst \cup {l \o <<Favoured>> : l \in OfFirst}, two \in OfSecond, any \in OfAny :
        catalogue = [k \in 0 .. Kinds |-> IF k = 0 THEN any ELSE IF k = 1 THEN one ELSE two]

(* Of the passes but one only the beginning matters. *)
OnFeed == FeedNext /\ \A p \in Passes \ {Mine} : pass'[p].asked \in {{}, ClassNos}

MCInit ==
    /\ desk \in {"candidates", "plans", "recipes", "night", "feed"}
    /\ Listed /\ FeedInit
    /\ desk # "feed" => \A k \in DOMAIN catalogue : catalogue[k] = <<>>
    /\ NightInit
    /\ desk # "night" => \A g \in Grid : sun[g] = 0 /\ target[g] = 0
    /\ RecipeInit
    /\ Init

(* Every other recipe that is expanded is the empty one. *)
Blanks == {p \in Specs : p.recipe = <<>>}

(* Every handler works for one of the owners. *)
OnQueue(owners) ==
    /\ \A r \in Runners : task'[r].of \in owners \cup {None}
    /\ UNCHANGED <<recipeVars, nightVars, feedVars, desk>>

MCNext ==
    \/ desk = "candidates" /\ Next /\ OnQueue(Cands) /\ UNCHANGED planVars
    \/ desk = "plans" /\ Next /\ OnQueue(Plans) /\ UNCHANGED candVars
    \/ /\ desk = "recipes"
       /\ \E p \in IF spec.recipe = <<>> THEN Specs ELSE Blanks : Expand(p)
       /\ UNCHANGED <<vars, nightVars, feedVars, desk>>
    \/ desk = "night" /\ NightNext /\ UNCHANGED <<vars, recipeVars, feedVars, desk>>
    \/ desk = "feed" /\ OnFeed /\ UNCHANGED <<vars, recipeVars, nightVars, desk>>

MCSpec == MCInit /\ [][MCNext]_MCvars

(* The handlers differ in nothing but their names. *)
HandlersAlike == Permutations(Tasks)
=============================================================================
