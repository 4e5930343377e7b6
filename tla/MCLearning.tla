----------------------------- MODULE MCLearning -----------------------------
(* Learning on small instances: what the tools, the morning job, the       *)
(* importers and the interview may record.                                 *)
EXTENDS Learning

CONSTANTS a, b      \* concepts

Record0(kind, c) == [kind |-> kind, concept |-> c, value |-> 0, grade |-> 0, edges |-> {}]

Proposed(edges) == [Record0("proposed", a) EXCEPT !.edges = edges]

To(src, dst, type, weight) == [src |-> src, dst |-> dst, type |-> type, weight |-> weight]

(* Edges between two concepts, with and without a source of their own, one *)
(* edge with two weights, one of an unknown type, one back to its concept. *)
EdgeLists ==
  { {To(NoConcept, b, "related", 1)},
    {To(NoConcept, b, "related", 2), To(a, b, "related", 1), To(a, a, "related", 2)},
    {To(b, a, "prerequisite", 1), To(NoConcept, b, "bogus-type", 2)} }

(* Everything that may be recorded of one concept. *)
AllRecords ==
  {Record0(k, a) : k \in {"task_created", "selected", "later", "dismissed", "chat_note"}}
  \union {Proposed(es) : es \in EdgeLists}
  \union {[Record0("marked_known", a) EXCEPT !.value = v] : v \in {50, 80}}
  \union {[Record0("task_done", a) EXCEPT !.value = 20]}
  \union {[Record0("quiz_result", a) EXCEPT !.value = q[1], !.grade = q[2]]
             : q \in {<<40, 1>>, <<90, 3>>}}
  \union {Record0("interview", NoConcept)}

=============================================================================
