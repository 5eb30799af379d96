----------------------------- MODULE MCByteCode -----------------------------
(* Words of four values, bytes of two, a stack of six words: two long      *)
(* values or doubles and two words more, so that every stack instruction   *)
(* can be executed, in all sequences of five instructions.                 *)
EXTENDS ByteCode

\* A double that is its own whole number, as 0.0 is, and one that is not.
MCDoubles == {[bits |-> << 1, 3 >>, whole |-> << 1, 3 >>], [bits |-> << 3, 1 >>, whole |-> << 1, 1 >>]}
=============================================================================
