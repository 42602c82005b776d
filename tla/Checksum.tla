------------------------------ MODULE Checksum ------------------------------
(***************************************************************************)
(* ndp_checksum: the ones' complement sum of a pseudo-header and a packet. *)
(* The words are not represented: each may be any word.                    *)
(***************************************************************************)
EXTENDS Naturals

CONSTANTS
  WordMod,    \* a word is less than WordMod: 65536 in the code
  Words       \* the words that occur

PseudoHeaderWords == 20

VARIABLES
  at,          \* "none", "header", "body" or "done"
  left,        \* words of the buffer not yet added
  sum,         \* of the buffer
  sumHeader,
  checksum,    \* what ndp_checksum returns
  residue      \* history: all words added, modulo WordMod - 1

vars == <<at, left, sum, sumHeader, checksum, residue>>

Init ==
  /\ at = "none"
  /\ left = 0 /\ sum = 0 /\ sumHeader = 0 /\ checksum = 0 /\ residue = 0

(* Only for a packet that is there and has a size.                         *)
Start ==
  /\ at = "none"
  /\ at' = "header"
  /\ left' = PseudoHeaderWords
  /\ sum' = 0
  /\ residue' = 0
  /\ UNCHANGED <<sumHeader, checksum>>

(* Mutant of Fold: the carry is dropped.                                   *)
DropCarry(n) == n % WordMod

Fold(n) == IF n < WordMod THEN n ELSE (n % WordMod) + (n \div WordMod)

AddWord ==
  /\ at \in {"header", "body"} /\ left > 0
  /\ left' = left - 1
  /\ \E w \in Words : /\ sum' = Fold(sum + w)
                      /\ residue' = (residue + w) % (WordMod - 1)
  /\ UNCHANGED <<at, sumHeader, checksum>>

(* A packet of odd size is not summed; the error is ignored.               *)
NextBuffer(size) ==
  /\ at = "header" /\ left = 0
  /\ at' = "body"
  /\ left' = IF size % 2 = 1 THEN 0 ELSE size \div 2
  /\ sumHeader' = sum
  /\ sum' = 0
  /\ UNCHANGED <<checksum, residue>>

(* The two sums are added without folding the carry.                       *)
Complement ==
  /\ at = "body" /\ left = 0
  /\ at' = "done"
  /\ checksum' = WordMod - 1 - ((sumHeader + sum) % WordMod)
  /\ UNCHANGED <<left, sum, sumHeader, residue>>

Step(size) == AddWord \/ NextBuffer(size) \/ Complement

Reset == UNCHANGED <<left, sum, checksum, residue>> /\ at' = "none" /\ sumHeader' = 0
-----------------------------------------------------------------------------
(* What is returned is the complement of the ones' complement sum of all   *)
(* words, or one more than that: the last carry, between the two buffers,  *)
(* is the only one that gets lost.                                         *)
LacksLastCarryOnly ==
  at = "done" =>
    LET carry == IF sumHeader + sum < WordMod THEN 0 ELSE 1
    IN  (WordMod - 1 - checksum + carry) % (WordMod - 1) = residue
=============================================================================
