------------------------------ MODULE MCWriter ------------------------------
(***************************************************************************)
(* The instance of Writer that TLC checks.  With a separator of one byte,  *)
(* Minbuf = 3 and Maxbuf = 5, blocks of 0, 1 and 6 bytes reach every case  *)
(* of attach() (empty, joined in place, joined with a move, queued because *)
(* the last chunk or the sum is large) and of cur_size_() (whole, whole    *)
(* because first, capped); a large and a small block exceed MaxSize.       *)
(***************************************************************************)
EXTENDS Writer

MCSizes  == {0, 1, 6}
MCSlacks == {0, 3}
=============================================================================
