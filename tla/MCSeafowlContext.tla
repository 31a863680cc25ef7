-------------------------- MODULE MCSeafowlContext --------------------------
(***************************************************************************)
(* Three calls: an import that finds the staging table of another while a  *)
(* third one loads, or a query answered from what another one cached while *)
(* an import runs.                                                         *)
(***************************************************************************)
EXTENDS SeafowlContext, TLC

Symmetry == Permutations(Calls) \cup Permutations(Tables) \cup Permutations(Secrets)

\* Reads of one fingerprint and two meanings, a read with a comment, and a write.
MCQueries ==
    {<<"SELECT", "newline", "'", "newline", "'">>, <<" ", "SELECT", "newline", "'", " ", "'">>,
     <<"SELECT", "--", "newline", "created_at">>, <<" ", "WITH", " ", "CREATE">>}

\* The default list with a literal behind it, and lists that import otherwise or not at all.
MCPluginLists ==
    {<<"file", "literal">>, <<"literal", "exporter">>, <<"file", "bare">>, <<"file", "other">>}
=============================================================================
