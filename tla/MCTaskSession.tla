--------------------------- MODULE MCTaskSession ---------------------------
(* Objects and regions are numbers.  The first object fits in every region, *)
(* and the second in all but one: they can be swapped over the third.       *)
EXTENDS TaskSession

SpareForOne == Objects \X Regions \ {<<2, 3>>}
=============================================================================
