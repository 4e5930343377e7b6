------------------------------- MODULE Derive -------------------------------
(***************************************************************************)
(* derive() of ledger/derive.py: the concepts and edges tables as a        *)
(* function of a set of events.                                            *)
(*                                                                         *)
(* An event has an id, a timestamp ts, a kind, a concept or NoConcept, a   *)
(* value in percent (the confidence, score or delta of its payload) and    *)
(* the edges of its payload.  "later" is a selected event whose payload    *)
(* says later.  Names, summaries, urls and concept kinds are left out.     *)
(***************************************************************************)
EXTENDS Integers, FiniteSets, FiniteSetsExt

CONSTANT NoConcept    \* concept_id of an event that has none

EdgeTypes == {"prerequisite", "related", "derived_from", "appeared_in"}

Percent(x) == IF x < 0 THEN 0 ELSE IF x > 100 THEN 100 ELSE x

(* sorted(events, key=(ts, id)), and the last of a set of events so sorted. *)
Before(d, e) == d.ts < e.ts \/ (d.ts = e.ts /\ d.id < e.id)
Latest(S) == CHOOSE e \in S : \A d \in S : d = e \/ Before(d, e)

NewConcept(t) == [status |-> "unknown", confidence |-> 0, first |-> t, touched |-> t]

(* ensure(), for a set of concepts mentioned at time t *)
Ensure(concepts, mentioned, t) ==
  [c \in DOMAIN concepts \union mentioned |->
     IF c \notin DOMAIN concepts THEN NewConcept(t)
     ELSE IF c \in mentioned THEN [concepts[c] EXCEPT !.touched = t] ELSE concepts[c]]

(* Mutants of Effect: a finished task is added without the clamp, a         *)
(* dismissed concept is forgotten, a quiz moves the confidence half way.   *)
EffectUnclamped(c, e) ==
  CASE e.kind = "task_done" -> [c EXCEPT !.confidence = @ + e.value]
    [] e.kind = "marked_known" ->
         [c EXCEPT !.status = "learned", !.confidence = IF @ < e.value THEN Percent(e.value) ELSE @]
    [] OTHER -> c

EffectDismissedForgets(c, e) ==
  CASE e.kind = "dismissed" -> [c EXCEPT !.status = "unknown"]
    [] e.kind = "marked_known" -> [c EXCEPT !.status = "learned", !.confidence = 80]
    [] e.kind = "task_created" -> [c EXCEPT !.status = "learning"]
    [] OTHER -> c

EffectQuizAverages(c, e) ==
  CASE e.kind = "quiz_result" -> [c EXCEPT !.confidence = (@ + Percent(e.value)) \div 2]
    [] OTHER -> c

(* What an event does to the concept it is about. *)
Effect(c, e) ==
  CASE e.kind = "selected" /\ c.status = "learned" -> [c EXCEPT !.status = "review"]
    [] e.kind = "selected" /\ c.status = "unknown" -> [c EXCEPT !.status = "queued"]
    [] e.kind = "marked_known" ->
         [c EXCEPT !.status = "learned", !.confidence = IF @ < e.value THEN Percent(e.value) ELSE @]
    [] e.kind = "task_created" /\ c.status \in {"unknown", "queued"} ->
         [c EXCEPT !.status = "learning"]
    [] e.kind = "task_done" -> [c EXCEPT !.confidence = Percent(@ + e.value)]
    [] e.kind = "quiz_result" ->
         [c EXCEPT !.confidence = Percent(e.value),
                   !.status = IF Percent(e.value) >= 80 THEN "learned" ELSE "learning"]
    [] OTHER -> c

(* The edges of an event that count, by key <<src, dst, type>>; src is the *)
(* event's concept unless the edge has one.                                *)
Key(edge, e) ==
  <<IF edge.src = NoConcept THEN e.concept ELSE edge.src, edge.dst, edge.type>>
Counts(edge, e) ==
  LET k == Key(edge, e)
  IN k[1] # NoConcept /\ k[2] # NoConcept /\ k[1] # k[2] /\ k[3] \in EdgeTypes
EdgesOf(e) == {edge \in e.edges : Counts(edge, e)}
KeysOf(e) == {Key(edge, e) : edge \in EdgesOf(e)}
WeightIn(e, k) == Max({edge.weight : edge \in {x \in EdgesOf(e) : Key(x, e) = k}})

(* Mutant of MergeEdges: the last weight counts. *)
MergeEdgesLast(edges, e) ==
  [k \in DOMAIN edges \union KeysOf(e) |->
     IF k \in KeysOf(e) THEN [weight |-> WeightIn(e, k), by |-> e.id] ELSE edges[k]]

(* A repeated edge keeps its first event and the greatest of its weights. *)
MergeEdges(edges, e) ==
  [k \in DOMAIN edges \union KeysOf(e) |->
     IF k \notin DOMAIN edges THEN [weight |-> WeightIn(e, k), by |-> e.id]
     ELSE IF k \in KeysOf(e) THEN [edges[k] EXCEPT !.weight = Max({@, WeightIn(e, k)})]
     ELSE edges[k]]

Endpoints(e) == UNION {{k[1], k[2]} : k \in KeysOf(e)}

(* One turn of the loop: the concept is ensured first, then the event      *)
(* takes effect on it, then its edges and their endpoints are entered.     *)
ApplyEvent(tables, e) ==
  LET about == IF e.concept = NoConcept THEN {} ELSE {e.concept}
      touched == Ensure(tables.concepts, about, e.ts)
      changed == [c \in DOMAIN touched |->
                    IF c \in about THEN Effect(touched[c], e) ELSE touched[c]]
  IN [concepts |-> Ensure(changed, Endpoints(e), e.ts),
      edges |-> MergeEdges(tables.edges, e)]

EmptyTables == [concepts |-> << >>, edges |-> << >>]

(* Mutant of DeriveFrom: events in the order of their ids. *)
DeriveById(S) ==
  LET after[T \in SUBSET S] ==
        LET last == CHOOSE e \in T : \A d \in T : d.id <= e.id
        IN IF T = {} THEN EmptyTables ELSE ApplyEvent(after[T \ {last}], last)
  IN after[S]

(* The tables after the events of S, in their order. *)
DeriveFrom(S) ==
  LET after[T \in SUBSET S] ==
        IF T = {} THEN EmptyTables ELSE ApplyEvent(after[T \ {Latest(T)}], Latest(T))
  IN after[S]

=============================================================================
