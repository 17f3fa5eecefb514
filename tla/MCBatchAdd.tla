------------------------------ MODULE MCBatchAdd ------------------------------
(* Files of up to MaxRows rows; a part is two rows, so that a part has rows    *)
(* before its last one, and NumberWrap = 3 makes the third part's number 0.    *)
EXTENDS BatchAdd

CONSTANTS MaxRows, MCRows

MCFiles == UNION {[1..n -> MCRows] : n \in 0..MaxRows}
==============================================================================
