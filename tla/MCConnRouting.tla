---------------------------- MODULE MCConnRouting ----------------------------
(***************************************************************************)
(* Instances of ConnRouting for TLC.  The configurations give the sets of  *)
(* addresses, handles, handlers and threads; the routes are defined here.  *)
(***************************************************************************)
EXTENDS ConnRouting, TLC

CONSTANTS k1, k2, s1, s2

NoRoutes == {}
OneRoute == {<<k1, s1>>}
\* Replacements of OneRoute that leave every server under its key.
StableMaps == {{<<k1, s1>>}, {<<k2, s2>>}}

Symmetric == Permutations(Handles) \cup Permutations(Svcs)

=============================================================================
