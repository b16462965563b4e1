------------------------------ MODULE Sampling ------------------------------
(***************************************************************************)
(* Rejection sampling in libs/Kyber: the coefficients of a polynomial from *)
(* a stream of bytes.                                                      *)
(***************************************************************************)
EXTENDS KyberArith

(* Three bytes are two 12-bit numbers. *)
Val0(buf, pos) == buf[pos + 1] + (buf[pos + 2] % 16) * 256
Val1(buf, pos) == buf[pos + 2] \div 16 + buf[pos + 3] * 16

(* The numbers below q among those of n bytes from pos, in order. *)
Accepted(buf, pos, n) ==
  LET vals == [k \in 1 .. 2 * (n \div 3) |->
                 LET at == pos + 3 * ((k - 1) \div 2)
                 IN  IF k % 2 = 1 THEN Val0(buf, at) ELSE Val1(buf, at)]
      Below(v) == v < Q
  IN  SelectSeq(vals, Below)

(* The loop that takes three bytes at a time, until len coefficients.      *)
RECURSIVE RejUniform(_, _, _, _)
RejUniform(r, pos, len, buf) ==
  IF Len(r) < len /\ pos + 3 <= Len(buf)
  THEN LET r0 == IF Val0(buf, pos) < Q THEN Append(r, Val0(buf, pos)) ELSE r
           r1 == IF Len(r0) < len /\ Val1(buf, pos) < Q THEN Append(r0, Val1(buf, pos)) ELSE r0
       IN  RejUniform(r1, pos + 3, len, buf)
  ELSE [r |-> r, pos |-> pos]

(* A loop of rej_uniform_avx that takes groups of `lanes` numbers while    *)
(* all of them fit.                                                        *)
RECURSIVE RejGroups(_, _, _, _, _)
RejGroups(r, pos, len, buf, lanes) ==
  LET bytes == 3 * (lanes \div 2)
  IN  IF Len(r) <= len - lanes /\ pos <= Len(buf) - bytes
      THEN RejGroups(r \o Accepted(buf, pos, bytes), pos + bytes, len, buf, lanes)
      ELSE [r |-> r, pos |-> pos]

RejUniformAvx(len, buf, wide, narrow) ==
  LET w == RejGroups(<<>>, 0, len, buf, wide)
      n == RejGroups(w.r, w.pos, len, buf, narrow)
  IN  RejUniform(n.r, n.pos, len, buf).r

(* Mutant: the bytes left over are not kept. *)
RECURSIVE MoreWithoutRest(_, _, _, _, _)
MoreWithoutRest(r, len, buf, rest, block) ==
  IF Len(r) < len /\ Len(rest) >= block
  THEN MoreWithoutRest(r \o RejUniform(<<>>, 0, len - Len(r), SubSeq(rest, 1, block)).r, len,
                       SubSeq(rest, 1, block), SubSeq(rest, block + 1, Len(rest)), block)
  ELSE r

(***************************************************************************)
(* One polynomial of gen_matrix: a first buffer of `first` bytes, then     *)
(* blocks; the bytes that do not make a triple are kept in front of the    *)
(* next block.                                                             *)
(***************************************************************************)
RECURSIVE MoreCoefficients(_, _, _, _, _)
MoreCoefficients(r, len, buf, rest, block) ==
  LET off == Len(buf) % 3
      next == SubSeq(buf, Len(buf) - off + 1, Len(buf)) \o SubSeq(rest, 1, block)
  IN  IF Len(r) < len /\ Len(rest) >= block
      THEN MoreCoefficients(r \o RejUniform(<<>>, 0, len - Len(r), next).r, len, next,
                            SubSeq(rest, block + 1, Len(rest)), block)
      ELSE r

GenCoefficients(len, stream, first, block, wide, narrow) ==
  LET buf == SubSeq(stream, 1, first)
  IN  MoreCoefficients(RejUniformAvx(len, buf, wide, narrow), len, buf,
                       SubSeq(stream, first + 1, Len(stream)), block)
=============================================================================
