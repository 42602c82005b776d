-------------------------- MODULE CollectionProofs --------------------------
(***************************************************************************)
(* Indexing a list of any number of elements reaches the elements the list *)
(* has, and where exactly it lands.                                        *)
(***************************************************************************)
EXTENDS Collection, TLAPS

(* A number is its unit and its slot.                                      *)
LEMMA UnitAndSlot ==
  ASSUME NEW n \in Nat
  PROVE  Unit(n) \in Nat /\ Slot(n) \in 0..63 /\ n = 64 * Unit(n) + Slot(n)
BY DEF Unit, Slot, UTILS_MIXED_LIST_UNIT_LEN

(* Where the way back from the tail ends.                                  *)
Landing(n) == Unit(count - 1) - Unit(count - 1 - n)

LEMMA LandingIs ==
  ASSUME count \in Nat, NEW n \in Nat, n < count
  PROVE  /\ Landing(n) = IF Slot(n) > Slot(count - 1) THEN Unit(n) + 1 ELSE Unit(n)
         /\ Landing(n) \in Units
         /\ Unit(n) \in Units
         /\ Unit(count - 1 - n) \in Units
<1> DEFINE last == count - 1
           rest == count - 1 - n
<1>1. last \in Nat /\ rest \in Nat /\ last = n + rest
  OBVIOUS
<1> DEFINE q == Unit(n)        s == Slot(n)
           qLast == Unit(last) sLast == Slot(last)
           qRest == Unit(rest) sRest == Slot(rest)
<1>2. /\ q \in Nat /\ s \in 0..63 /\ n = 64 * q + s
      /\ qLast \in Nat /\ sLast \in 0..63 /\ last = 64 * qLast + sLast
      /\ qRest \in Nat /\ sRest \in 0..63 /\ rest = 64 * qRest + sRest
  BY <1>1, UnitAndSlot
<1>3. Units = 0 .. qLast /\ Landing(n) = qLast - qRest
  BY DEF Units, Landing
<1> HIDE DEF last, rest, q, s, qLast, sLast, qRest, sRest
<1>4. qLast - qRest = IF s > sLast THEN q + 1 ELSE q
  BY <1>1, <1>2
<1>5. qLast - qRest \in 0 .. qLast /\ q \in 0 .. qLast /\ qRest \in 0 .. qLast
  BY <1>1, <1>2
<1> QED BY <1>3, <1>4, <1>5 DEF last, rest, q, s, qLast, sLast, qRest, sRest

-----------------------------------------------------------------------------
(* On the way, the steps left lead to where it will land.                  *)
OnTheWay ==
  pc = "walk" /\ count > 0 =>
    /\ index < count
    /\ ptr # Null
    /\ IF forth THEN ptr + steps = Unit(index) ELSE ptr - steps = Landing(index)

(* Where it landed.                                                        *)
Landed ==
  count > 0 /\ index < count =>
    /\ pc # "crashed"
    /\ pc = "returned" =>
         /\ ptr # Null
         /\ IF forth THEN ptr = Unit(index) ELSE ptr = Landing(index)

(* A list without elements, or none, leads nowhere.                        *)
Nowhere == count \in {0, NoList} \/ (count > 0 /\ index >= count) => ptr = Null

IInv == TypeOK /\ OnTheWay /\ Landed /\ Nowhere

LEMMA InvInit == Init => IInv
<1> SUFFICES ASSUME Init PROVE IInv
  OBVIOUS
<1>1. count > 0 => 0 \in Units
  <2> SUFFICES ASSUME count > 0 PROVE 0 \in Units
    OBVIOUS
  <2>1. count - 1 \in Nat
    BY ListAssumption DEF Init, NoList
  <2> QED BY <2>1, UnitAndSlot DEF Units
<1> QED BY <1>1, ListAssumption DEF Init, IInv, TypeOK, OnTheWay, Landed, Nowhere, NoList, Null

LEMMA RefuseKeeps == ASSUME IInv, Refuse PROVE IInv'
BY DEF Refuse, Refused, IInv, TypeOK, OnTheWay, Landed, Nowhere, Units, Landing, NoList, Null

LEMMA BeginKeeps ==
  ASSUME IInv, Begin
  PROVE  IInv'
<1>1. count \in Nat /\ index \in Nat /\ (count > 0 => index < count)
  BY DEF IInv, TypeOK, Begin, Refused, NoList
<1>2. UNCHANGED <<op, count, index>> /\ pc' = "walk" /\ forth' = FirstHalf
  BY DEF Begin
<1>3. CASE count = 0
  <2>1. FirstHalf /\ head = Null
    BY <1>3 DEF FirstHalf, head
  <2>2. ptr' = Null /\ steps' = Unit(index)
    BY <2>1 DEF Begin
  <2> QED BY <1>1, <1>2, <1>3, <2>1, <2>2, UnitAndSlot
          DEF IInv, TypeOK, OnTheWay, Landed, Nowhere, Null, NoList
<1>4. CASE count > 0
  <2>1. /\ Landing(index) \in Units /\ Unit(index) \in Units /\ Unit(count - 1 - index) \in Units
    BY <1>1, <1>4, LandingIs
  <2>2. count - 1 \in Nat /\ Unit(count - 1) \in Nat
    BY <1>1, <1>4, UnitAndSlot
  <2>3. head = 0 /\ tail = Unit(count - 1) /\ head \in Units /\ tail \in Units
    BY <1>4, <2>2 DEF head, tail, Units
  <2>4. IF FirstHalf THEN ptr' = head /\ steps' = Unit(index)
        ELSE ptr' = tail /\ steps' = Unit(count - 1 - index)
    BY DEF Begin
  <2>5. ptr' \in Units /\ steps' \in Units /\ Units' = Units
    BY <1>2, <2>1, <2>3, <2>4 DEF Units
  <2>6. \A u \in Units : u \in Nat /\ u # Null
    BY DEF Units, Null
  <2>7. Landing(index)' = Landing(index)
    BY <1>2 DEF Landing
  <2>8. FirstHalf \in BOOLEAN
    BY <1>1 DEF FirstHalf
  <2>9. IF forth' THEN ptr' + steps' = Unit(index) ELSE ptr' - steps' = Landing(index)
    BY <1>2, <2>1, <2>2, <2>3, <2>4 DEF Landing, Units
  <2> QED BY <1>1, <1>2, <1>4, <2>5, <2>6, <2>7, <2>8, <2>9
          DEF IInv, TypeOK, OnTheWay, Landed, Nowhere, NoList
<1> QED BY <1>1, <1>3, <1>4

LEMMA WalkKeeps ==
  ASSUME IInv, Walk
  PROVE  IInv'
<1>1. UNCHANGED <<op, count, index, forth>> /\ pc = "walk" /\ steps \in Nat /\ steps > 0
  BY DEF Walk, IInv, TypeOK
<1>2. Units' = Units /\ Landing(index)' = Landing(index)
  BY <1>1 DEF Units, Landing
<1>3. CASE ptr = Null
  <2>1. pc' = "crashed" /\ UNCHANGED <<steps, ptr>>
    BY <1>3 DEF Walk
  <2>2. ~(count > 0)
    BY <1>1, <1>3 DEF IInv, OnTheWay
  <2> QED BY <1>1, <1>2, <1>3, <2>1, <2>2 DEF IInv, TypeOK, OnTheWay, Landed, Nowhere
<1>4. CASE ptr # Null
  <2>1. count \in Nat /\ count > 0 /\ index \in Nat /\ index < count /\ ptr \in Units
    BY <1>1, <1>4 DEF IInv, TypeOK, OnTheWay, Nowhere, NoList
  <2>2. /\ ptr' = IF forth THEN next(ptr) ELSE prev(ptr)
        /\ steps' = steps - 1 /\ pc' = "walk"
    BY <1>1, <1>4 DEF Walk
  <2>3. /\ Unit(index) \in Units /\ Landing(index) \in Units
        /\ IF forth THEN ptr + steps = Unit(index) ELSE ptr - steps = Landing(index)
        /\ steps \in Units /\ forth \in BOOLEAN
    BY <1>1, <2>1, LandingIs DEF IInv, TypeOK, OnTheWay
  <2>4. Unit(count - 1) \in Int
    BY <2>1, UnitAndSlot
  <2>5. IF forth THEN ptr + 1 \in Units ELSE ptr - 1 \in Units
    BY <1>1, <2>1, <2>3, <2>4 DEF Units
  <2>6. ptr' \in Units /\ steps' \in Units /\ ptr' # Null
        /\ (IF forth THEN ptr' + steps' = Unit(index) ELSE ptr' - steps' = Landing(index))
    BY <1>1, <2>1, <2>2, <2>3, <2>4, <2>5 DEF Units, next, prev, Null
  <2>7. steps' \in Nat
    BY <2>6 DEF Units
  <2> QED BY <1>1, <1>2, <2>1, <2>2, <2>6, <2>7
          DEF IInv, TypeOK, OnTheWay, Landed, Nowhere, NoList
<1> QED BY <1>3, <1>4

LEMMA ReturnKeeps ==
  ASSUME IInv, Return
  PROVE  IInv'
<1>1. UNCHANGED <<op, count, index, forth, steps, ptr>> /\ pc = "walk" /\ steps = 0
  BY DEF Return
<1>2. pc' \in {"crashed", "returned"} /\ (ptr # Null => pc' = "returned")
  BY DEF Return
<1>3. Units' = Units /\ Landing(index)' = Landing(index)
  BY <1>1 DEF Units, Landing
<1>4. count > 0 => /\ index < count /\ ptr # Null /\ ptr \in Int
                   /\ IF forth THEN ptr = Unit(index) ELSE ptr = Landing(index)
  <2> SUFFICES ASSUME count > 0
               PROVE  /\ index < count /\ ptr # Null /\ ptr \in Int
                      /\ IF forth THEN ptr = Unit(index) ELSE ptr = Landing(index)
    OBVIOUS
  <2>1. ptr \in Int
    BY DEF IInv, TypeOK, Units, Null
  <2>2. index < count /\ ptr # Null
    BY <1>1 DEF IInv, OnTheWay
  <2>3. IF forth THEN ptr + 0 = Unit(index) ELSE ptr - 0 = Landing(index)
    BY <1>1 DEF IInv, OnTheWay
  <2> QED BY <2>1, <2>2, <2>3
<1> QED BY <1>1, <1>2, <1>3, <1>4 DEF IInv, TypeOK, OnTheWay, Landed, Nowhere

LEMMA Invariant == Spec => []IInv
<1>1. IInv /\ [Next]_vars => IInv'
  <2> SUFFICES ASSUME IInv, [Next]_vars PROVE IInv'
    OBVIOUS
  <2>1. CASE UNCHANGED vars
    BY <2>1 DEF vars, IInv, TypeOK, OnTheWay, Landed, Nowhere, Units, Landing
  <2> QED BY <2>1, RefuseKeeps, BeginKeeps, WalkKeeps, ReturnKeeps DEF Next
<1> QED BY <1>1, InvInit, PTL DEF Spec

(* No element that a list has is missed by a NULL.                         *)
THEOREM ElementsReached == Spec => []ElementsAreReached
<1>1. IInv => ElementsAreReached
  BY DEF IInv, Landed, ElementsAreReached
<1> QED BY <1>1, Invariant, PTL

(* The lookup lands in the element's unit or, from the tail, in the one    *)
(* behind it if the element's slot lies behind the last element's.         *)
THEOREM UnitsFound == Spec => []UnitIsElements
<1>1. IInv => UnitIsElements
  <2> SUFFICES ASSUME IInv, pc = "returned", ptr # Null
               PROVE  ptr = IF ~forth /\ Slot(index) > Slot(count - 1)
                            THEN Unit(index) + 1 ELSE Unit(index)
    BY DEF UnitIsElements
  <2>1. count \in Nat /\ index \in Nat /\ count > 0 /\ index < count
    BY DEF IInv, TypeOK, Nowhere, NoList
  <2>2. IF forth THEN ptr = Unit(index) ELSE ptr = Landing(index)
    BY <2>1 DEF IInv, Landed
  <2> QED BY <2>1, <2>2, LandingIs
<1> QED BY <1>1, Invariant, PTL

(* For a list of any length the walk stays on units or NULL, and goes no   *)
(* further than the list has units.                                        *)
THEOREM TypesKept == Spec => []TypeOK
<1>1. IInv => TypeOK
  BY DEF IInv
<1> QED BY <1>1, Invariant, PTL
=============================================================================
