---------------------------- MODULE MCTestBuilder ----------------------------
(***************************************************************************)
(* TestBuilder for TLC.  The lists of directives are those of int_test.go   *)
(* that differ in what the builders read of them, and three which are not   *)
(* there: a copy_out without a copy_in, one whose file system is not the    *)
(* last, and one such before another that is in order.                     *)
(***************************************************************************)
EXTENDS TestBuilder

CONSTANTS myProfile, myContainer, myPool, myLustre, ownLustre, myGlobal

Storage(command, type, profile) ==
    [command |-> command, type |-> type, profile |-> profile]

CopyIn     == Storage("copy_in", NoName, NoName)
CopyOut(k) == [command |-> "copy_out", type |-> NoName, profile |-> NoName, source |-> k]

MCDirectiveLists ==
    {<<Storage("jobdw", "xfs", myProfile)>>,
     <<Storage("jobdw", "gfs2", NoName), CopyIn, CopyOut(1)>>,
     <<Storage("jobdw", "lustre", myProfile), CopyIn, CopyOut(1)>>,
     <<Storage("jobdw", "xfs", NoName), CopyOut(1)>>,
     <<Storage("jobdw", "xfs", NoName), Storage("jobdw", "lustre", myProfile),
       CopyIn, CopyOut(1)>>,
     <<Storage("jobdw", "xfs", NoName), Storage("jobdw", "lustre", myProfile),
       CopyIn, CopyOut(1), CopyOut(2)>>,
     <<Storage("jobdw", "gfs2", NoName), Storage("container", NoName, myContainer)>>,
     <<[command |-> "create_persistent", type |-> "lustre", profile |-> myProfile,
        name |-> ownLustre]>>}

MCLustreNames == {myLustre, ownLustre}
MCPoolNames   == {myPool, myProfile}
MCPoolCounts  == {0, 2}
=============================================================================
