------------------------------ MODULE MCBuffer ------------------------------
(***************************************************************************)
(* Instances of Buffer for TLC: two tasks, a ring of two slots, as in      *)
(* test/test_buffer.c's bufferWraparoundTest, and four blocks, so that a   *)
(* full ring, a put in progress and a leaked block fit in the heap         *)
(* together and a further leak exhausts it.                                *)
(***************************************************************************)
EXTENDS Buffer, TLC

CONSTANTS t1, t2, m1, m2, b1, b2, b3, b4

MCTask == {t1, t2}
MCMessage == {m1, m2}
MCBlock == {b1, b2, b3, b4}

(* Blocks are interchangeable, since pvPortMalloc may return any free one, and
   so are the tasks, which share one priority. *)
Symmetry == Permutations(MCBlock) \cup Permutations(MCTask)
=============================================================================
