---------------------------- MODULE MCMsgdmaDriver ----------------------------
(***************************************************************************)
(* Instances of MsgdmaDriver for TLC: words of two bytes and descriptors   *)
(* that count to eight, so that a call may be shorter than a word, of      *)
(* whole words, of more than a descriptor counts, and longer than the      *)
(* buffer.                                                                 *)
(***************************************************************************)
EXTENDS MsgdmaDriver

CONSTANTS f1, f2

MCFiles == {f1, f2}
=============================================================================
