-------------------------- MODULE MCContainerLogs --------------------------
(***************************************************************************)
(* ContainerLogs for TLC: an MPI workflow that has tried two launchers,    *)
(* beside one with a name that starts the same, as "gfs2-with-containers"  *)
(* and "gfs2-with-containers-mpi" do in int_test.go, and a helper pod.     *)
(***************************************************************************)
EXTENDS ContainerLogs

own == <<"gfs2">>
mpi == <<"gfs2", "mpi">>
nodes == {<<"rabbit">>}

Of(workflow, parts, container) ==
    [name |-> workflow \o parts, container |-> container, workflow |-> workflow]

pods == {Of(own, <<"launcher", "a">>, TRUE), Of(own, <<"launcher", "b">>, TRUE),
         Of(own, <<"worker">>, TRUE), Of(mpi, <<"launcher", "c">>, TRUE),
         Of(own, <<"copy", "in">>, FALSE)}
=============================================================================
