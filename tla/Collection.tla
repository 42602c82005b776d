----------------------------- MODULE Collection -----------------------------
(***************************************************************************)
(* Utils_MixedList: a list of pointers kept in linked units of 64, indexed *)
(* from whichever end is nearer.  Nothing in pdrad uses it yet, and its    *)
(* functions that would create and free a list are empty; a list here is   *)
(* one as its structure describes it, with its elements packed in order.   *)
(***************************************************************************)
EXTENDS Integers

CONSTANTS
  Counts,     \* how many elements the lists have
  Indexes     \* the indexes asked for

ASSUME ListAssumption == Counts \subseteq Nat /\ Indexes \subseteq Nat

UTILS_MIXED_LIST_UNIT_LEN == 64

NoList == -1      \* list = NULL
Null == -1        \* a unit's NULL

VARIABLES
  op,       \* the function called
  count,    \* list->count, or NoList
  index,    \* its argument
  pc,       \* "call", "walk", "returned" or "crashed"
  forth,    \* whether it walks from the head
  steps,    \* the units it still has to go
  ptr       \* the unit it has come to; 0 is the head

vars == <<op, count, index, pc, forth, steps, ptr>>

Unit(n) == n \div UTILS_MIXED_LIST_UNIT_LEN
Slot(n) == n % UTILS_MIXED_LIST_UNIT_LEN     \* index & 63

(* The units of a list, of an empty one none.                              *)
Units == 0 .. Unit(count - 1)
head == IF count = 0 THEN Null ELSE 0
tail == IF count = 0 THEN Null ELSE Unit(count - 1)
next(p) == IF p + 1 \in Units THEN p + 1 ELSE Null
prev(p) == IF p - 1 \in Units THEN p - 1 ELSE Null

Init ==
  /\ op \in {"Index", "Get", "Set"}
  /\ count \in Counts \cup {NoList}
  /\ index \in Indexes
  /\ pc = "call" /\ forth = TRUE /\ steps = 0 /\ ptr = Null

(* Mutant of Refused: the index of the first missing element passes.       *)
RefusesLater == count = NoList \/ (count > 0 /\ index > count)

(* count - 1 is the largest size_t in an empty list, which so refuses no   *)
(* index and has all of them in its first half.                            *)
Refused == count = NoList \/ (count > 0 /\ index > count - 1)
FirstHalf == count = 0 \/ index < (count - 1) \div 2

(* Get dereferences the NULL that Index returns; Set asks before.          *)
Refuse ==
  /\ pc = "call" /\ Refused
  /\ pc' = IF op = "Get" THEN "crashed" ELSE "returned"
  /\ UNCHANGED <<op, count, index, forth, steps, ptr>>

(* Mutants of Begin: the distance to the tail off by one; no walk back.    *)
BeginsBehind ==
  /\ pc = "call" /\ ~Refused
  /\ pc' = "walk" /\ forth' = FirstHalf
  /\ IF FirstHalf THEN ptr' = head /\ steps' = Unit(index)
     ELSE ptr' = tail /\ steps' = Unit(count - index)
  /\ UNCHANGED <<op, count, index>>

BeginsAhead ==
  /\ pc = "call" /\ ~Refused
  /\ pc' = "walk" /\ forth' = TRUE
  /\ ptr' = (IF FirstHalf THEN head ELSE tail)
  /\ steps' = Unit(IF FirstHalf THEN index ELSE count - 1 - index)
  /\ UNCHANGED <<op, count, index>>

Begin ==
  /\ pc = "call" /\ ~Refused
  /\ pc' = "walk" /\ forth' = FirstHalf
  /\ IF FirstHalf THEN ptr' = head /\ steps' = Unit(index)
     ELSE ptr' = tail /\ steps' = Unit(count - 1 - index)
  /\ UNCHANGED <<op, count, index>>

Walk ==
  /\ pc = "walk" /\ steps > 0
  /\ IF ptr = Null THEN pc' = "crashed" /\ UNCHANGED <<steps, ptr>>
     ELSE /\ ptr' = IF forth THEN next(ptr) ELSE prev(ptr)
          /\ steps' = steps - 1
          /\ UNCHANGED pc
  /\ UNCHANGED <<op, count, index, forth>>

(* Index returns the address of a slot, of a NULL unit too; Get reads what *)
(* is there; Set forgets the address and stores nothing.                   *)
Return ==
  /\ pc = "walk" /\ steps = 0
  /\ pc' = IF ptr = Null /\ op = "Get" THEN "crashed" ELSE "returned"
  /\ UNCHANGED <<op, count, index, forth, steps, ptr>>

Next == Refuse \/ Begin \/ Walk \/ Return

Spec == Init /\ [][Next]_vars
-----------------------------------------------------------------------------
(* What is walked to is a unit or NULL, and never more units than the list *)
(* has are walked, but in an empty list.                                   *)
TypeOK ==
  /\ op \in {"Index", "Get", "Set"}
  /\ count \in Nat \cup {NoList} /\ index \in Nat
  /\ pc \in {"call", "walk", "returned", "crashed"}
  /\ forth \in BOOLEAN
  /\ ptr \in Units \cup {Null}
  /\ steps \in Nat /\ (count > 0 => steps \in Units)

(* An element that the list has is looked up without following a NULL,     *)
(* from either end.                                                        *)
ElementsAreReached ==
  count > 0 /\ index < count =>
    /\ pc # "crashed"
    /\ pc = "returned" => ptr # Null

(* The unit that is returned is the element's, except from the tail when   *)
(* the element lies deeper in its unit than the last one in the list's     *)
(* last: the division by 64 takes the last unit for a full one, and the    *)
(* slot is that of the next unit.                                          *)
UnitIsElements ==
  pc = "returned" /\ ptr # Null =>
    ptr = IF ~forth /\ Slot(index) > Slot(count - 1) THEN Unit(index) + 1 ELSE Unit(index)
=============================================================================
