------------------------------ MODULE Checksum ------------------------------
(***************************************************************************)
(* checksum.go: the internet checksum, summed in 64-bit words in the byte  *)
(* order of the machine (little-endian here), with the carry of each       *)
(* addition passed on to the next one.  A byte has Radix values, 256 in    *)
(* the code; what is 16 or 64 bits wide there is two or eight bytes here.  *)
(***************************************************************************)
EXTENDS Integers, Sequences

CONSTANT Radix
ASSUME RadixAssumption == Radix \in Nat /\ Radix > 2

Word16 == Radix * Radix
Word64 == Word16 * Word16 * Word16 * Word16

\* The numbers of the first bytes of b, the highest byte first.
Numbers(b) ==
  LET number[k \in 0..Len(b)] == IF k = 0 THEN 0 ELSE Radix * number[k - 1] + b[k]
  IN number

\* binary.BigEndian and binary.NativeEndian
BigEndian(b) == Numbers(b)[Len(b)]
Native(b) == BigEndian([k \in 1..Len(b) |-> b[Len(b) + 1 - k]])
PutUint16(x) == <<(x \div Radix) % Radix, x % Radix>>

\* The eight bytes of a word, the lowest first.
Shifted(x) == LET shifted[k \in 0..8] == IF k = 0 THEN x ELSE shifted[k - 1] \div Radix
              IN shifted
Bytes(x) == [k \in 1..8 |-> Shifted(x)[k - 1] % Radix]
Swapped(x) == BigEndian(Bytes(x))

\* bits.Add64
Add64(x, y, carry) == [sum   |-> (x + y + carry) % Word64,
                       carry |-> (x + y + carry) \div Word64]

\* The sum of a block of words: a chain of additions that starts without a
\* carry.
Additions(ac, words) ==
  LET after[k \in 0..Len(words)] ==
        IF k = 0 THEN [sum |-> ac, carry |-> 0]
        ELSE LET last == after[k - 1] IN Add64(last.sum, words[k], last.carry)
  IN after
Chain(ac, words) == Additions(ac, words)[Len(words)]

\* Blocks are 128 bytes as long as there are that many, then halves of it;
\* those below 8 bytes are a word of their own.
BlockLen(n) == IF n >= 128 THEN 128
               ELSE CHOOSE k \in {1, 2, 4, 8, 16, 32, 64} : k <= n /\ n < 2 * k
Words(b) == IF Len(b) < 8 THEN <<Native(b)>>
            ELSE [k \in 1..(Len(b) \div 8) |-> Native(SubSeq(b, 8 * k - 7, 8 * k))]

\* Mistake: the last carry of a block is forgotten.
AddBlockNoCarry(ac, b) == Chain(ac, Words(b)).sum

\* ac += carry
AddBlock(ac, b) == LET end == Chain(ac, Words(b)) IN (end.sum + end.carry) % Word64

\* A turn of checksumNoFold's loop over its blocks, with left bytes to go.
Turn(b, loop) ==
  LET at == Len(b) - loop.left
      n  == BlockLen(loop.left)
  IN [ac |-> AddBlock(loop.ac, SubSeq(b, at + 1, at + n)), left |-> loop.left - n]

\* The blocks of 128 bytes, and one of each smaller size.
MaxTurns(b) == Len(b) \div 128 + 7

\* The loop after k turns.
Turns(b, initial) ==
  LET after[k \in 0..MaxTurns(b)] ==
        IF k = 0 THEN [ac |-> initial, left |-> Len(b)]
        ELSE LET last == after[k - 1] IN IF last.left = 0 THEN last ELSE Turn(b, last)
  IN after

checksumNoFold(b, initial) == Swapped(Turns(b, Swapped(initial))[MaxTurns(b)].ac)

Fold(ac) == (ac \div Word16) + (ac % Word16)

\* Mistake: two folds fewer.
checksumTwoFolds(b, initial) == Fold(Fold(checksumNoFold(b, initial))) % Word16

checksum(b, initial) == Fold(Fold(Fold(Fold(checksumNoFold(b, initial))))) % Word16

pseudoHeaderChecksumNoFold(protocol, srcAddr, dstAddr, totalLen) ==
  LET addrs == checksumNoFold(dstAddr, checksumNoFold(srcAddr, 0))
  IN checksumNoFold(PutUint16(totalLen), checksumNoFold(<<0, protocol>>, addrs))

\* ^sum
Complement(sum) == Word16 - 1 - sum
-----------------------------------------------------------------------------
\* The reference: bytes verify when their big-endian words, with a zero after
\* an odd last byte, add up to zero in ones' complement arithmetic.
WordAt(b, k) == Radix * b[2 * k - 1] + (IF 2 * k <= Len(b) THEN b[2 * k] ELSE 0)
WordSums(b) ==
  LET sum[k \in 0..((Len(b) + 1) \div 2)] == IF k = 0 THEN 0 ELSE sum[k - 1] + WordAt(b, k)
  IN sum
WordSum(b) == WordSums(b)[(Len(b) + 1) \div 2]
Verifies(b) == WordSum(b) > 0 /\ WordSum(b) % (Word16 - 1) = 0
=============================================================================
