------------------------------ MODULE MCFriPow ------------------------------
(***************************************************************************)
(* One block of three threads, or two blocks of two, with two candidates   *)
(* per launch for each thread: passing candidates of a thread that loads   *)
(* the state, in its second try, and of one that does not, in the first or *)
(* in the second launch.                                                   *)
(***************************************************************************)
EXTENDS FriPow

MCPassingSets == {{Stride}, {1}, {1 + Stride * Tries}}
=============================================================================
