--------------------------- MODULE MCRecipesEngine ---------------------------
(* Small instances of the recipes engine. *)
EXTENDS RecipesEngine
=============================================================================
