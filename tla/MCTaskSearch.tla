---------------------------- MODULE MCTaskSearch ----------------------------
(* Objects and regions are numbers; one object fits in all regions but one. *)
EXTENDS TaskSearch

OneIsTooBig == Objects \X Regions \ {<<1, 1>>}
=============================================================================
