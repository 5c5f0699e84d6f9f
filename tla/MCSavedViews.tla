---------------------------- MODULE MCSavedViews ----------------------------
(* Model values for SavedViews.                                             *)
EXTENDS SavedViews, TLC
CONSTANTS a, b, v, w, x, y
Symmetric == Permutations({a, b}) \cup Permutations({v, w}) \cup Permutations({x, y})
=============================================================================
