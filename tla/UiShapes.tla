------------------------------- MODULE UiShapes -------------------------------
(***************************************************************************)
(* UiDrawList::drawCircle and drawRing.  Both copy the positions of the    *)
(* spokes to the front of the new vertices and then write the vertices     *)
(* from the last to the first over them, and both make their triangles by  *)
(* remembering the spoke they wrote last.                                  *)
(*                                                                         *)
(* Memory is in cells of a glm::vec2: a spoke is one, a vertex is three,   *)
(* its position and its color.                                             *)
(***************************************************************************)
EXTENDS Integers, Sequences, FiniteSets

CONSTANTS
  SpokeCounts,      \* values of SPOKE_COUNT, 64 in the code
  FirstVertices     \* how many vertices the list has before

ASSUME ShapesAssumption ==
  /\ SpokeCounts \subseteq Nat /\ \A n \in SpokeCounts : n >= 3
  /\ FirstVertices \subseteq Nat

VARIABLES shape, spokeCount, first_index, memory, written, last, indices

shapeVars == <<shape, spokeCount, first_index, memory, written, last, indices>>

VertexCount == IF shape = "ring" THEN 2 * spokeCount ELSE spokeCount
Position(vertex) == 3 * vertex

\* The first vertex of the spokes: a circle has its center before.
Outer(k) == IF shape = "ring" THEN 2 * k ELSE k
Inner(k) == 2 * k + 1

\* The vertices have been resized, the spokes copied.
ShapeInit ==
  /\ shape \in {"circle", "ring"} /\ spokeCount \in SpokeCounts
  /\ first_index \in {n + (IF shape = "circle" THEN 1 ELSE 0) : n \in FirstVertices}
  /\ memory = [c \in 0 .. 3 * VertexCount - 1 |->
                 IF c < spokeCount THEN <<"spoke", c>> ELSE <<"none">>]
  /\ written = 0 /\ indices = <<>>
  /\ last = [outer |-> first_index + VertexCount - (IF shape = "ring" THEN 2 ELSE 1),
             inner |-> first_index + VertexCount - 1]

\* *spoke_position is read, its vertex written.
Place(mem, vertex, spoke, edge) ==
  [mem EXCEPT ![Position(vertex)] = <<edge, mem[spoke]>>,
              ![Position(vertex) + 1] = <<"color">>, ![Position(vertex) + 2] = <<"color">>]

Forwards == written                                            \* a mutant
SpokeWritten == spokeCount - 1 - written

WriteSpoke ==
  /\ written < spokeCount /\ written' = written + 1
  /\ memory' = IF shape = "ring"
       THEN Place(Place(memory, Inner(SpokeWritten), SpokeWritten, "inner"),
                  Outer(SpokeWritten), SpokeWritten, "outer")
       ELSE Place(memory, Outer(SpokeWritten), SpokeWritten, "outer")
  /\ UNCHANGED <<shape, spokeCount, first_index, last, indices>>

AddTriangles ==
  LET k == Len(indices) \div (IF shape = "ring" THEN 2 ELSE 1)
      outer == first_index + Outer(k)
  IN  /\ written = spokeCount /\ k < spokeCount
      /\ indices' = indices \o
           IF shape = "circle" THEN << <<first_index - 1, last.outer, outer>> >>
           ELSE << <<last.inner, last.outer, outer>>, <<outer, last.inner, outer + 1>> >>
      /\ last' = [outer |-> outer, inner |-> outer + 1]
      /\ UNCHANGED <<shape, spokeCount, first_index, memory, written>>

ShapeNext == WriteSpoke \/ AddTriangles

ShapeSpec == ShapeInit /\ [][ShapeNext]_shapeVars
-----------------------------------------------------------------------------
Spoke(vertex) == (vertex - first_index) \div (IF shape = "ring" THEN 2 ELSE 1)
Edges(triangle) == {{triangle[1], triangle[2]}, {triangle[2], triangle[3]},
                    {triangle[3], triangle[1]}}
TrianglesAt(edge) == {n \in DOMAIN indices : edge \in Edges(indices[n])}

\* Two vertices of neighbouring spokes on the same edge of the shape.
OnRim(edge) ==
  \E v, w \in edge :
    /\ v >= first_index /\ w >= first_index
    /\ Spoke(w) = (Spoke(v) + 1) % spokeCount
    /\ shape = "ring" => (v - first_index) % 2 = (w - first_index) % 2

\* No spoke is overwritten before it has been used, and the triangles close
\* into a disk or a ring: whatever is not its rim lies between two of them.
ShapesAreWhole ==
  Len(indices) = (IF shape = "ring" THEN 2 ELSE 1) * spokeCount =>
    /\ \A k \in 0 .. spokeCount - 1 :
         /\ memory[Position(Outer(k))] = <<"outer", <<"spoke", k>>>>
         /\ shape = "ring" => memory[Position(Inner(k))] = <<"inner", <<"spoke", k>>>>
    /\ \A n \in DOMAIN indices :
         /\ Cardinality(Edges(indices[n])) = 3
         /\ \A edge \in Edges(indices[n]) :
              Cardinality(TrianglesAt(edge)) = IF OnRim(edge) THEN 1 ELSE 2
=============================================================================
