------------------------------ MODULE Packing -------------------------------
(***************************************************************************)
(* Bits in words: Matrix<bool> and its products (matrix.hpp, matrix.cpp),  *)
(* bitsets on the wire (utils.hpp) and the packing of bool arrays          *)
(* (net-io.hpp).  A word is the set of its bits that are 1; WordBits is    *)
(* bits_per_block of both kinds of word.  Bitsets and bool arrays are      *)
(* sequences of 0 and 1.                                                   *)
(***************************************************************************)
EXTENDS Integers, Sequences, FiniteSets

LOCAL INSTANCE FiniteSetsExt
SeqExt == INSTANCE SequencesExt

CONSTANTS
  WordBits,     \* bits of a word
  Lanes,        \* words of a vector register
  GroupSize     \* bools of an 8-byte word, and its alignment

ASSUME PackingAssumption ==
  WordBits \in Nat \ {0} /\ Lanes \in Nat \ {0} /\ GroupSize \in Nat \ {0}

Offsets == 0 .. WordBits - 1
Odd(set) == Cardinality(set) % 2

(* calc_bitset_block and Blocks_per_row: two ways to round up. *)
CalcBitsetBlock(bits) == bits \div WordBits + (IF bits % WordBits # 0 THEN 1 ELSE 0)
BlocksPerRow(cols) == IF cols = 0 THEN 0 ELSE (cols + WordBits - 1) \div WordBits

(* boost::to_block_range: the bits of a bitset in words, the rest 0. *)
ToBlocks(bits, count) ==
  [w \in 1 .. count |-> {k \in Offsets :
     LET i == (w - 1) * WordBits + k + 1 IN i <= Len(bits) /\ bits[i] = 1}]

(* A bitset built from words, then resized. *)
FromBlocks(words, size) ==
  [i \in 1 .. size |->
     LET w == (i - 1) \div WordBits + 1
     IN  IF w <= Len(words) /\ (i - 1) % WordBits \in words[w] THEN 1 ELSE 0]

-----------------------------------------------------------------------------
(* Matrix<bool>: rows of words one after the other.                        *)

Row(matrix, i) ==
  LET n == BlocksPerRow(matrix.cols) IN SubSeq(matrix.data, i * n + 1, (i + 1) * n)

At(matrix, i, j) ==
  LET n == BlocksPerRow(matrix.cols)
  IN  IF n > 0 /\ j % WordBits \in matrix.data[i * n + j \div WordBits + 1] THEN 1 ELSE 0

(* Mutant: masks the first word of a row. *)
ZeroFirstWord(matrix) ==
  LET n == BlocksPerRow(matrix.cols)
      valid == matrix.cols % WordBits
  IN  IF n = 0 \/ valid = 0 THEN matrix
      ELSE [matrix EXCEPT !.data =
              [w \in DOMAIN @ |-> IF w % n = 1 % n THEN @[w] \cap (0 .. valid - 1) ELSE @[w]]]

ZeroMatrixRowPadding(matrix) ==
  LET n == BlocksPerRow(matrix.cols)
      valid == matrix.cols % WordBits
  IN  IF n = 0 \/ valid = 0 THEN matrix
      ELSE [matrix EXCEPT !.data =
              [w \in DOMAIN @ |-> IF w % n = 0 THEN @[w] \cap (0 .. valid - 1) ELSE @[w]]]

(***************************************************************************)
(* for_each_set_bit: the columns of the set bits, lowest first; a column   *)
(* past the end stops the walk of its word.                                *)
(***************************************************************************)
SetColumns(words, cols) ==
  UNION {LET columns == {(w - 1) * WordBits + k : k \in words[w]}
         IN  {c \in columns : c < cols} : w \in DOMAIN words}

(* A row times a vector of blocks: the XOR of those at set columns. *)
RowTimesBlocks(words, cols, blocks) ==
  FoldSet(LAMBDA c, acc : SymDiff(acc, blocks[c + 1]), {}, SetColumns(words, cols))

(* row_parity and bitwise_inner_product. *)
RowParity(words, bitBlocks) ==
  FoldFunction(LAMBDA common, acc : (acc + common) % 2, 0,
               [w \in DOMAIN words |-> Odd(words[w] \cap bitBlocks[w])])

MatrixTimesBitset(matrix, bits) ==
  LET bitBlocks == ToBlocks(bits, BlocksPerRow(matrix.cols))
  IN  [i \in 1 .. matrix.rows |-> RowParity(Row(matrix, i - 1), bitBlocks)]

MatrixTimesBlocks(matrix, blocks) ==
  [i \in 1 .. matrix.rows |-> RowTimesBlocks(Row(matrix, i - 1), matrix.cols, blocks)]

(***************************************************************************)
(* parity: registers of Lanes words XORed lane by lane, the lanes folded,  *)
(* then the words that remain.                                             *)
(***************************************************************************)
WholeRegisters(words) == (Len(words) \div Lanes) * Lanes

Parity(words) ==
  LET whole == WholeRegisters(words)
      Lane(l) == FoldSet(LAMBDA w, acc : SymDiff(acc, words[w]), {},
                         {w \in 1 .. whole : w % Lanes = l})
      folded == FoldSet(LAMBDA l, acc : SymDiff(acc, Lane(l)), {}, 0 .. Lanes - 1)
      rest == FoldSet(LAMBDA w, acc : SymDiff(acc, words[w]), folded, whole + 1 .. Len(words))
  IN  Odd(rest)

(* is_zero: by registers, then word by word. *)
IsZero(words) ==
  /\ \A g \in 1 .. Len(words) \div Lanes :
       \A l \in 1 .. Lanes : words[(g - 1) * Lanes + l] = {}
  /\ \A w \in WholeRegisters(words) + 1 .. Len(words) : words[w] = {}

-----------------------------------------------------------------------------
(* Bitsets on the wire.                                                    *)

(* send_boost_bitset; an end of 0 with a begin of 0 is the whole bitset. *)
SendBoostBitset(bits, begin, end) ==
  LET sliced == IF begin = 0 /\ end = 0 THEN bits ELSE SubSeq(bits, begin + 1, end)
  IN  ToBlocks(sliced, CalcBitsetBlock(Len(sliced)))

ReceiveBoostBitset(words, size) ==
  FromBlocks(SubSeq(words, 1, CalcBitsetBlock(size)), size)

(* merge: left is shifted up by the size of right, which takes its place. *)
Merge(left, right) ==
  LET shifted == [i \in 1 .. Len(left) + Len(right) |->
                    IF i > Len(right) THEN left[i - Len(right)] ELSE 0]
  IN  [i \in DOMAIN shifted |-> IF i <= Len(right) /\ right[i] = 1 THEN 1 ELSE shifted[i]]

-----------------------------------------------------------------------------
(***************************************************************************)
(* send_bool and recv_bool: bytes up to the next aligned address one by    *)
(* one, then groups of GroupSize bools in a byte each, then the rest.      *)
(* With no aligned group to be had all go one by one.                      *)
(***************************************************************************)
AlignDiff(address) == (GroupSize - (address % GroupSize)) % GroupSize
CanAlign(address, n) == n >= AlignDiff(address) + GroupSize

(* The bools behind each byte on the wire: sizes of the pieces, in order. *)
Pieces(address, n) ==
  IF ~CanAlign(address, n) THEN [k \in 1 .. n |-> 1]
  ELSE LET diff == AlignDiff(address)
           groups == (n - diff) \div GroupSize
       IN  [k \in 1 .. diff + groups + ((n - diff) % GroupSize) |->
              IF k > diff /\ k <= diff + groups THEN GroupSize ELSE 1]

(* Where each piece begins, and the end of the last. *)
Starts(pieces) ==
  LET start[k \in 1 .. Len(pieces) + 1] == IF k = 1 THEN 1 ELSE start[k - 1] + pieces[k - 1]
  IN  start

(* A byte is the bits pext gathers: piece k of the array. *)
SendBool(bools, address) ==
  LET pieces == Pieces(address, Len(bools))
      start == Starts(pieces)
  IN  [k \in DOMAIN pieces |-> SubSeq(bools, start[k], start[k + 1] - 1)]

(* Mutant: the receiver takes its array for an aligned one. *)
RecvBoolAligned(wire, address, n) ==
  LET pieces == Pieces(0, n)
  IN  IF Len(wire) < Len(pieces) THEN <<>>
      ELSE SeqExt!FlattenSeq([k \in DOMAIN pieces |->
             [i \in 1 .. pieces[k] |-> IF i <= Len(wire[k]) THEN wire[k][i] ELSE 0]])

(* pdep spreads them; a receiver takes from each byte what it expects, and *)
(* has nothing as long as bytes are missing.                               *)
RecvBool(wire, address, n) ==
  LET pieces == Pieces(address, n)
  IN  IF Len(wire) < Len(pieces) THEN <<>>
      ELSE SeqExt!FlattenSeq([k \in DOMAIN pieces |->
             [i \in 1 .. pieces[k] |-> IF i <= Len(wire[k]) THEN wire[k][i] ELSE 0]])
=============================================================================
