---------------------------- MODULE RollbackPointer ----------------------------
(***************************************************************************)
(* The rollback store (RollbackStore in rollout.py): immutable anchors     *)
(* under their content address, and one pointer that is only ever replaced *)
(* by a successor whose writer had named the generation and the anchor it  *)
(* replaces.  Every write holds rollback.lock for its compare and its      *)
(* write, so each operator below is one atomic step.                       *)
(*                                                                         *)
(* An anchor's digest covers the id of the transaction that captured it,   *)
(* so that id stands for the anchor; 0 stands for none.                    *)
(***************************************************************************)
EXTENDS Naturals

NoPointer == [generation |-> 0, active |-> 0, previous |-> 0, by |-> 0]

PointerDocs(ids, generations) ==
  [generation : generations, active : ids \union {0},
   previous : ids \union {0}, by : ids \union {0}]

\* _validate_pointer_document, asked of every document before it is written.
ValidPointer(p) ==
  /\ p.generation > 0
  /\ p.active # 0 \/ p.previous # 0
  /\ p.generation = 1 => p.previous = 0
  /\ p.active # p.previous

\* _assert_cas: an absent pointer is generation 0 without an anchor.
AssertCas(current, generation, active) ==
  /\ current.generation = generation
  /\ current.active = active

\* The document that follows the current one.
Successor(current, active, by) ==
  [generation |-> current.generation + 1, active |-> active,
   previous |-> current.active, by |-> by]

\* publish: a stored anchor other than the active one becomes active.
CanPublish(current, objects, spec, generation, active) ==
  /\ AssertCas(current, generation, active)
  /\ active # spec
  /\ {spec, active} \ {0} \subseteq objects
  /\ ValidPointer(Successor(current, spec, 0))

\* clear: the named active anchor is consumed; a tombstone stays.
CanClear(current, objects, generation, active) ==
  /\ AssertCas(current, generation, active)
  /\ active \in objects
  /\ ValidPointer(Successor(current, 0, 0))

\* restore: the anchor of the exact predecessor is active again, in a new
\* generation.
CanRestore(current, objects, predecessor, generation, active) ==
  /\ AssertCas(current, generation, active)
  /\ current # NoPointer
  /\ generation = predecessor.generation + 1
  /\ current.previous = predecessor.active
  /\ {active, predecessor.active} \ {0} \subseteq objects
  /\ ValidPointer(Successor(current, predecessor.active, 0))
================================================================================
