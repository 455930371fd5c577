------------------------------ MODULE MCKanban ------------------------------
(* Values for model checking Kanban: two requests at a time by a seller, who
   can take himself off a deal; a pipeline with two stages and room for a
   third, another with one; two cards in the first column, and ranks that are
   missed by up to a unit.  A card fits between the two; the next one put
   beside it finds less than MinGap there. *)
EXTENDS Kanban, TLC

CONSTANTS a, b, c, x, P, Q

MCPipelineOf    == a :> P @@ b :> P @@ c :> P @@ x :> Q
MCInitialStages == P :> <<a, b>> @@ Q :> <<x>>
MCInitialKind   == [s \in Stages |-> IF s = b THEN "lost" ELSE "open"]
MCDeals         == 1..3
AnySlot         == Permutations(Slots)
=============================================================================
