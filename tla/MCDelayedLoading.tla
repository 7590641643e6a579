--------------------------- MODULE MCDelayedLoading ---------------------------
(****************************************************************************)
(* Instances of DelayedLoading for TLC, over four objects of one class and  *)
(* one of another: a cycle with an object that is also reached another way, *)
(* self references, cycles through both classes, pointers to a missing row. *)
(****************************************************************************)
EXTENDS DelayedLoading, TLC

CONSTANTS a1, a2, a3, a4, b1, classA, classB

MCClassOf == [o \in Objects |-> IF o = b1 THEN classB ELSE classA]

Graph(p1, p2, p3, p4, pb) == (a1 :> p1) @@ (a2 :> p2) @@ (a3 :> p3) @@ (a4 :> p4) @@ (b1 :> pb)
MCGraphs == {
  Graph({a2, a3}, {a1}, {a2, a3}, {}, {a1}),
  Graph({a2}, {b1}, {a1}, {}, {a3}),
  Graph({a2, b1}, {a1}, {a4}, {}, {a1, a3, b1}),
  Graph({a2, a4, b1}, {}, {b1}, {}, {a4})}
==============================================================================
