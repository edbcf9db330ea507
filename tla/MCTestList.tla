----------------------------- MODULE MCTestList -----------------------------
(***************************************************************************)
(* TestList for TLC: entries with no more than one option, up to two       *)
(* directives, and no copies, none, one or two of them.                    *)
(***************************************************************************)
EXTENDS TestList

Commands == {<<"jobdw">>, <<"create_persistent">>, <<"jobdw", "container">>}
Options  == {{}, {"stopAfter"}, {"storageProfile"}, {"mgsPool"}}

MCEntry == [directives : Commands, options : Options, count : {NoCount, 0, 1, 2}]

\* The entries without an MGS pool.
MCPoolless == {e \in MCEntry : e.options # {"mgsPool"}}
=============================================================================
