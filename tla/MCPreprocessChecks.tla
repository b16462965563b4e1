------------------------- MODULE MCPreprocessChecks -------------------------
(***************************************************************************)
(* PreprocessChecks on the instances of MCPreprocess.  A byte has one bit, *)
(* so that, as with 128-bit blocks, a block is longer than a byte.         *)
(***************************************************************************)
EXTENDS PreprocessChecks, MCPreprocess
=============================================================================
