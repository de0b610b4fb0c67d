------------------------------ MODULE MCSpans ------------------------------
EXTENDS Spans, TLC

(* Success, and a failure joined with a warning under AllWarning. *)
MCErrors ==
  {[kinds |-> {}, all |-> FALSE], [kinds |-> {"warning", "other"}, all |-> TRUE]}

Symmetry == Permutations(Tasks)
=============================================================================
