-------------------------------- MODULE Feed --------------------------------
(***************************************************************************)
(* The alert feed (crito/transient/alerce.py): a pass asks the broker once *)
(* per object class, all classes at a time and each page by page, keeps of *)
(* every object the record with the best probability, and asks once more   *)
(* without classes if it has nothing.  Passes overlap (the poller's own    *)
(* and "poll now"), and share the text of the last error.  The pages of a  *)
(* class are one step: nothing that is shared changes between them.        *)
(***************************************************************************)
EXTENDS Naturals, Sequences

CONSTANTS
    Passes,     \* passes under way at a time
    Oids,       \* the broker's objects
    Kinds,      \* the number of classes asked for: settings.alerce_classes
    MaxPages,   \* settings.alerce_max_pages
    MaxProb,    \* bound: probabilities are 0 (also: none) .. MaxProb
    MaxListed   \* bound: records listed by a class

ASSUME FeedConstants ==
    {Kinds, MaxPages} \subseteq Nat \ {0} /\ {MaxProb, MaxListed} \subseteq Nat

VARIABLES
    catalogue,  \* what the broker lists by class, and (class 0) without one
    pass,       \* each pass: where it is, the answers, what it came to
    lastError,  \* AlerceClient.last_error: is there one
    overlapped  \* history: passes during which another one has cleared the error

feedVars == <<catalogue, pass, lastError, overlapped>>

ClassNos == 1 .. Kinds
Records  == [oid : Oids, prob : 0 .. MaxProb, old : BOOLEAN]
Listings == UNION {[1 .. n -> Records] : n \in 0 .. MaxListed}

(* A query's answer: records by object; a pass's result is one, too.       *)
Nobody == [o \in {} |-> 0]
NoPass == [pc |-> "idle", asked |-> {}, answer |-> [k \in ClassNos |-> Nobody], result |-> Nobody]

FeedInit ==
    /\ catalogue \in [0 .. Kinds -> Listings]
    /\ pass = [p \in Passes |-> NoPass]
    /\ lastError = FALSE
    /\ overlapped = {}

-----------------------------------------------------------------------------
(* What _collect keeps of the first n records (a page each): those recent  *)
(* enough, by object.                                                      *)
Recent(records, n) == {i \in 1 .. n : ~records[i].old}

Collected(records, n) ==
    LET kept == Recent(records, n)
        last(o) == CHOOSE i \in kept : records[i].oid = o /\ \A j \in kept : records[j].oid = o => j <= i
    IN [o \in {records[i].oid : i \in kept} |-> records[last(o)].prob]

(* How many of its records a query reads at most. *)
Read(records) == IF Len(records) < MaxPages THEN Len(records) ELSE MaxPages

(* _collect ends after n records: there are no more, or no more pages are  *)
(* asked for, or the request for the next one fails and what the pages     *)
(* before it held is kept.  An empty first page is an error, too.          *)
EndsAfter(k, n) ==
    \/ n = Read(catalogue[k]) /\ lastError' = (lastError \/ n = 0)
    \/ n < MaxPages /\ lastError' = TRUE

PassBegins(p) ==
    /\ pass[p].pc = "idle"
    /\ lastError' = FALSE
    /\ pass' = [pass EXCEPT ![p] = [NoPass EXCEPT !.pc = "asking", !.asked = ClassNos]]
    /\ overlapped' = (overlapped \ {p}) \cup {q \in Passes \ {p} : pass[q].pc # "idle"}
    /\ UNCHANGED catalogue

ClassAnswered(p) ==
    /\ pass[p].pc = "asking"
    /\ \E k \in pass[p].asked : \E n \in 0 .. Read(catalogue[k]) :
          /\ EndsAfter(k, n)
          /\ pass' = [pass EXCEPT ![p].asked = @ \ {k},
                                  ![p].answer[k] = Collected(catalogue[k], n)]
    /\ UNCHANGED <<catalogue, overlapped>>

(* Mutant: the later class wins. *)
MergeLast(dst, src) ==
    [o \in DOMAIN dst \cup DOMAIN src |-> IF o \in DOMAIN src THEN src[o] ELSE dst[o]]

(* _merge: a record replaces a less probable one. *)
Merge(dst, src) ==
    [o \in DOMAIN dst \cup DOMAIN src |->
        IF o \in DOMAIN dst /\ (o \in DOMAIN src => src[o] <= dst[o]) THEN dst[o] ELSE src[o]]

(* gather() has all answers, in the order of the classes. *)
Merged(p) ==
    LET upTo[k \in 0 .. Kinds] == IF k = 0 THEN Nobody ELSE Merge(upTo[k - 1], pass[p].answer[k])
    IN upTo[Kinds]

Gathered(p) ==
    /\ pass[p].pc = "asking"
    /\ pass[p].asked = {}
    /\ pass' = [pass EXCEPT ![p].result = Merged(p),
                            ![p].pc = IF Merged(p) = Nobody THEN "again" ELSE "done"]
    /\ UNCHANGED <<catalogue, lastError, overlapped>>

FallsBack(p) ==
    /\ pass[p].pc = "again"
    /\ \E n \in 0 .. Read(catalogue[0]) :
          /\ EndsAfter(0, n)
          /\ pass' = [pass EXCEPT ![p].pc = "done", ![p].result = Collected(catalogue[0], n)]
    /\ UNCHANGED <<catalogue, overlapped>>

(* poll_once goes on with what the pass returned, and reports the error    *)
(* there is by now.                                                        *)
PassEnds(p) ==
    /\ pass[p].pc = "done"
    /\ pass' = [pass EXCEPT ![p] = NoPass]
    /\ UNCHANGED <<catalogue, lastError, overlapped>>

PassStep(p) == ClassAnswered(p) \/ Gathered(p) \/ FallsBack(p) \/ PassEnds(p)

FeedNext == \E p \in Passes : PassBegins(p) \/ PassStep(p)

FeedSpec == FeedInit /\ [][FeedNext]_feedVars

-----------------------------------------------------------------------------
(* A pass returns each object some class has given it once, with its best  *)
(* probability, whichever answers came first and whatever pages failed;    *)
(* and it comes back empty-handed without an error only if the broker      *)
(* lists nothing recent within the pages that are asked for, or another    *)
(* pass has cleared the error.                                             *)
FeedIsBest ==
    \A p \in Passes : pass[p].pc = "done" =>
        LET a == pass[p].answer  r == pass[p].result
            given == {o \in Oids : \E k \in ClassNos : o \in DOMAIN a[k]}
        IN /\ given # {} => DOMAIN r = given
           /\ \A o \in given : /\ \E k \in ClassNos : o \in DOMAIN a[k] /\ r[o] = a[k][o]
                               /\ \A k \in ClassNos : o \in DOMAIN a[k] => a[k][o] <= r[o]
           /\ r = Nobody /\ ~lastError /\ p \notin overlapped
                => \A k \in DOMAIN catalogue : \A i \in 1 .. Read(catalogue[k]) : catalogue[k][i].old

=============================================================================
