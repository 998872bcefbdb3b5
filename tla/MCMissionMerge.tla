--------------------------- MODULE MCMissionMerge ---------------------------
(* Small instances of the merging of a mission. *)
EXTENDS MissionMerge, TLC

CONSTANTS ann, ben, cal, built, tested

\* ben and cal touch the same lines; `built` needs ann; `tested` does not survive ben
MCClashes == {{ben, cal}}
MCNeeds == built :> {ann} @@ tested :> {}
MCBreaks == built :> {} @@ tested :> {ben}
=============================================================================
