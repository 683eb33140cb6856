--------------------------- MODULE MCProcurement ---------------------------
(* A model-checking instance of Procurement.                               *)
EXTENDS Procurement, TLC

(* The request made first asks for both lines, a later one for some only.  *)
SomeLines ==
  \A o \in 2 .. Len(orders) :
    (\E l \in Lines : orders[o].ordered[l] = 0)
      /\ \E l \in Lines : orders[o].ordered[l] > 0

(* The pages are interchangeable, and so are the lines.                    *)
Symmetry == Permutations(Pages) \cup Permutations(Lines)
=============================================================================
