---------------------------- MODULE GlooxInline ----------------------------
(***************************************************************************)
(* The code that gloox's headers contain, in one specification. Its three  *)
(* parts share nothing: a behaviour is one of a loop over a list, of a     *)
(* conversion or of a resource with its extensions, and the others rest.   *)
(***************************************************************************)
EXTENDS GlooxLists, GlooxUtil, GlooxExtensions

InlineInit == ListsInit /\ UtilInit /\ ExtensionsInit

ListsRest == ListsInit /\ UNCHANGED listVars
UtilRests == UtilInit /\ UNCHANGED utilVars
ExtensionsRest == ExtensionsInit /\ UNCHANGED extensionVars

InlineNext ==
    \/ UtilRests /\ ExtensionsRest /\ ListsNext
    \/ ListsRest /\ ExtensionsRest /\ UtilNext
    \/ ListsRest /\ UtilRests /\ ExtensionsNext

InlineSpec == InlineInit /\ [][InlineNext]_<<listVars, utilVars, extensionVars>>
=============================================================================
