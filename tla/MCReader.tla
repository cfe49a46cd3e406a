------------------------------ MODULE MCReader ------------------------------
(***************************************************************************)
(* The instances of Reader that TLC checks.                                *)
(*                                                                         *)
(* Separated: with buffers of four bytes and a separator of two that       *)
(* overlaps itself, a separator, a block and the free tail of a buffer     *)
(* cross buffer boundaries, one read can end two blocks, and a fourth      *)
(* buffer exceeds the maximum.  Whole: without a separator, minbuf = 0 is  *)
(* raised to bufsize as with the default options, so that each read gets a *)
(* buffer of its own.  Reused: minbuf = 1 lets next() use a buffer's tail. *)
(***************************************************************************)
EXTENDS Reader

CONSTANTS cr, lf, t1, t2

MCAlphabet == {cr, lf}

Separated == [sep |-> <<lf, lf>>, bufsize |-> 4, maxbuf |-> 0, minbuf |-> 2,
              maxsize |-> 12, trimsep |-> TRUE]
Whole     == [sep |-> <<>>, bufsize |-> 3, maxbuf |-> 6, minbuf |-> 0,
              maxsize |-> 9, trimsep |-> TRUE]
Reused    == [Whole EXCEPT !.maxbuf = 0, !.minbuf = 1]

MCOptions    == {Separated, Whole}
MCReusedOnly == {Reused}
=============================================================================
