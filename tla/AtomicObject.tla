---------------------------- MODULE AtomicObject ----------------------------
(***************************************************************************)
(* What a lock around an object promises its users: each thread's use of   *)
(* the object, together with the object's cleanup, happens at once, as if  *)
(* no other thread existed.  The object is the log of what was done to it. *)
(***************************************************************************)
EXTENDS Sequences

CONSTANT Threads

VARIABLE log

Init == log = << >>

(* One complete use by t: the operation, then the cleanup. *)
Use(t) == log' = log \o << <<t, "op">>, <<t, "cleanup">> >>

Next == \E t \in Threads : Use(t)

Spec == Init /\ [][Next]_log
=============================================================================
