-------------------------- MODULE CableQueueProofs --------------------------
(***************************************************************************)
(* The ring buffer of src/tap/cable.c, proved for every array size, every  *)
(* growth step and every item type: its indices stay consistent, no slot   *)
(* in use is uninitialised memory, and it implements a FIFO.               *)
(***************************************************************************)
EXTENDS CableQueue, SequenceTheorems, TLAPS

IInv == TypeOK /\ IndicesAgree /\ NothingUnwritten

(* In a full queue the next free slot is the oldest one.                   *)
LEMMA FullMeansFreeIsNext ==
    ASSUME TypeOK, IndicesAgree, Full
    PROVE  num_items = max_items /\ next_free = next_item
  BY QueueAssumption DEF TypeOK, IndicesAgree, Full, Wrap

(* Extending a full queue leaves every item at the slot the moved indices  *)
(* assign to it, whichever of the four cases of cable.c:160-222 applies.   *)
LEMMA RelocationKeepsOrder ==
    ASSUME TypeOK, IndicesAgree, Full,
           NEW k \in 1 .. num_items
    PROVE  /\ Wrap(RelocatedNext + k - 1, NewMax) \in 0 .. NewMax - 1
           /\ Relocated[Wrap(RelocatedNext + k - 1, NewMax)] = data[Slot(k)]
  <1>. num_items = max_items /\ next_free = next_item
    BY FullMeansFreeIsNext
  <1>. USE QueueAssumption DEF TypeOK, RelocatedNext, Relocated, Wrap, Slot,
           NewMax, AtEnd, MoveTail
  <1>1. CASE next_item = 0
    BY <1>1 DEF Extended
  <1>2. CASE next_item # 0 /\ MoveTail
    <2>1. CASE next_item + k - 1 < max_items
      BY <1>2, <2>1 DEF TailMoved, Extended
    <2>2. CASE next_item + k - 1 >= max_items
      BY <1>2, <2>2 DEF TailMoved, Extended
    <2>. QED  BY <2>1, <2>2
  <1>3. CASE next_item # 0 /\ ~MoveTail /\ next_free <= Grow
    BY <1>3 DEF HeadCopied, Extended
  <1>4. CASE next_item # 0 /\ ~MoveTail /\ ~(next_free <= Grow)
    <2>1. CASE next_item + k - 1 < max_items
      BY <1>4, <2>1 DEF HeadSplit, Extended
    <2>2. CASE next_item + k - 1 >= max_items
      BY <1>4, <2>2 DEF HeadSplit, Extended
    <2>. QED  BY <2>1, <2>2
  <1>. QED  BY <1>1, <1>2, <1>3, <1>4

-----------------------------------------------------------------------------
(* What each operation does to the queued items, slot by slot.             *)

LEMMA InitInvariant == Init => IInv
  BY QueueAssumption DEF Init, IInv, TypeOK, IndicesAgree, NothingUnwritten, Wrap

LEMMA AddInPlaceStep ==
    ASSUME IInv, NEW item \in Item, AddInPlace(item)
    PROVE  /\ IInv'
           /\ \A k \in 1 .. num_items : Contents'[k] = Contents[k]
           /\ Contents'[num_items + 1] = item
  <1>. USE DEF AddInPlace, IInv, TypeOK, IndicesAgree, Full, Wrap
  <1>1. TypeOK' /\ IndicesAgree'
    OBVIOUS
  <1>2. ASSUME NEW k \in 1 .. num_items
        PROVE  Slot(k)' = Slot(k) /\ Slot(k) # next_free /\ Slot(k) \in 0 .. max_items - 1
    BY DEF Slot
  <1>3. ASSUME NEW k, k = num_items + 1
        PROVE  Slot(k)' = next_free
    BY <1>3 DEF Slot
  <1>4. \A k \in 1 .. num_items : data'[Slot(k)'] = data[Slot(k)]
    BY <1>2
  <1>5. ASSUME NEW k, k = num_items + 1
        PROVE  data'[Slot(k)'] = item
    BY <1>3, <1>5
  <1>6. NothingUnwritten'
    <2>. SUFFICES ASSUME NEW k \in 1 .. num_items + 1
                  PROVE  data'[Slot(k)'] \in Item
      BY DEF NothingUnwritten
    <2>. QED  BY <1>4, <1>5 DEF NothingUnwritten
  <1>7. \A k \in 1 .. num_items : Contents'[k] = Contents[k]
    BY <1>4 DEF Contents
  <1>8. Contents'[num_items + 1] = item
    BY <1>5 DEF Contents
  <1>. QED  BY <1>1, <1>6, <1>7, <1>8

LEMMA AddResizedStep ==
    ASSUME IInv, NEW item \in Item, AddResized(item)
    PROVE  /\ IInv'
           /\ \A k \in 1 .. num_items : Contents'[k] = Contents[k]
           /\ Contents'[num_items + 1] = item
  <1>. USE DEF IInv
  <1>1. num_items = max_items /\ next_free = next_item
    BY FullMeansFreeIsNext DEF AddResized
  <1>2. /\ NewMax = max_items + Grow /\ NewMax \in Nat \ {0}
        /\ RelocatedNext \in 0 .. NewMax - 1
        /\ RelocatedFree \in 0 .. NewMax - 1
    BY <1>1, QueueAssumption
    DEF TypeOK, NewMax, RelocatedNext, RelocatedFree, MoveTail, AtEnd, Wrap
  <1>3. Relocated \in [0 .. NewMax - 1 -> Item \cup {Garbage}]
    <2>1. Extended \in [0 .. NewMax - 1 -> Item \cup {Garbage}]
      BY QueueAssumption DEF Extended, TypeOK, NewMax
    <2>2. TailMoved \in [0 .. NewMax - 1 -> Item \cup {Garbage}]
      BY <2>1, QueueAssumption DEF TailMoved, TypeOK, NewMax, AtEnd
    <2>3. HeadCopied \in [0 .. NewMax - 1 -> Item \cup {Garbage}]
      BY <2>1, QueueAssumption DEF HeadCopied, TypeOK, NewMax
    <2>4. HeadSplit \in [0 .. NewMax - 1 -> Item \cup {Garbage}]
      BY <2>1, <1>1, QueueAssumption DEF HeadSplit, TypeOK, NewMax
    <2>. QED  BY <2>1, <2>2, <2>3, <2>4 DEF Relocated
  <1>4. ASSUME NEW k \in 1 .. num_items
        PROVE  /\ Slot(k)' = Wrap(RelocatedNext + k - 1, NewMax)
               /\ Slot(k)' \in 0 .. NewMax - 1
               /\ Slot(k)' # RelocatedFree
               /\ Relocated[Slot(k)'] = data[Slot(k)]
    <2>1. Slot(k)' = Wrap(RelocatedNext + k - 1, NewMax)
      BY DEF AddResized, Slot, Wrap
    <2>2. /\ Wrap(RelocatedNext + k - 1, NewMax) \in 0 .. NewMax - 1
          /\ Relocated[Wrap(RelocatedNext + k - 1, NewMax)] = data[Slot(k)]
      BY RelocationKeepsOrder DEF AddResized
    <2>3. Wrap(RelocatedNext + k - 1, NewMax) # RelocatedFree
      BY <1>1, <1>2, QueueAssumption DEF RelocatedFree, Wrap, TypeOK
    <2>. QED  BY <2>1, <2>2, <2>3
  <1>5. ASSUME NEW k, k = num_items + 1
        PROVE  Slot(k)' = RelocatedFree
    BY <1>1, <1>2, <1>5 DEF AddResized, Slot, RelocatedFree, Wrap, TypeOK
  <1>6. TypeOK' /\ IndicesAgree'
    BY <1>1, <1>2, <1>3, QueueAssumption
    DEF AddResized, TypeOK, IndicesAgree, RelocatedFree, Wrap
  <1>7. \A k \in 1 .. num_items : data'[Slot(k)'] = data[Slot(k)]
    BY <1>2, <1>3, <1>4 DEF AddResized
  <1>8. ASSUME NEW k, k = num_items + 1
        PROVE  data'[Slot(k)'] = item
    BY <1>2, <1>3, <1>5, <1>8 DEF AddResized
  <1>9. num_items' = num_items + 1 /\ num_items \in Nat
    BY DEF AddResized, TypeOK
  <1>10. NothingUnwritten'
    <2>. SUFFICES ASSUME NEW k \in 1 .. num_items + 1
                  PROVE  data'[Slot(k)'] \in Item
      BY <1>9 DEF NothingUnwritten
    <2>1. CASE k \in 1 .. num_items
      BY <2>1, <1>7 DEF NothingUnwritten
    <2>2. CASE k = num_items + 1
      BY <2>2, <1>8
    <2>. QED  BY <2>1, <2>2, <1>9
  <1>11. \A k \in 1 .. num_items : Contents'[k] = Contents[k]
    BY <1>7, <1>9 DEF Contents
  <1>12. Contents'[num_items + 1] = item
    BY <1>8, <1>9 DEF Contents
  <1>. QED  BY <1>6, <1>10, <1>11, <1>12

LEMMA GetStep ==
    ASSUME IInv, Get
    PROVE  /\ IInv'
           /\ num_items \in Nat \ {0}
           /\ got' = Contents[1]
           /\ \A k \in 1 .. num_items - 1 : Contents'[k] = Contents[k + 1]
  <1>. USE DEF Get, IInv, TypeOK, IndicesAgree, NothingUnwritten, Wrap, Slot
  <1>1. next_item = Slot(1) /\ 1 \in 1 .. num_items
    OBVIOUS
  <1>2. got' = Contents[1] /\ got' \in Item
    BY <1>1 DEF Contents
  <1>3. TypeOK' /\ IndicesAgree'
    BY <1>2
  <1>4. ASSUME NEW k \in 1 .. num_items - 1
        PROVE  Slot(k)' = Slot(k + 1) /\ k + 1 \in 1 .. num_items
    OBVIOUS
  <1>5. NothingUnwritten'
    BY <1>4
  <1>6. \A k \in 1 .. num_items - 1 : Contents'[k] = Contents[k + 1]
    BY <1>4 DEF Contents
  <1>. QED  BY <1>2, <1>3, <1>5, <1>6

LEMMA PurgeStep ==
    ASSUME IInv, Purge
    PROVE  IInv' /\ num_items' = 0
  BY DEF Purge, IInv, TypeOK, IndicesAgree, NothingUnwritten, Wrap

-----------------------------------------------------------------------------
LEMMA StepInvariant == IInv /\ [Next]_vars => IInv'
  <1>. SUFFICES ASSUME IInv, [Next]_vars PROVE IInv'
    OBVIOUS
  <1>1. ASSUME NEW item \in Item, AddInPlace(item) PROVE IInv'
    BY <1>1, AddInPlaceStep
  <1>2. ASSUME NEW item \in Item, AddResized(item) PROVE IInv'
    BY <1>2, AddResizedStep
  <1>3. CASE AddFails
    BY <1>3 DEF AddFails, IInv, TypeOK, IndicesAgree, NothingUnwritten, Slot, Wrap
  <1>4. CASE Get
    BY <1>4, GetStep
  <1>5. CASE GetEmpty
    BY <1>5 DEF GetEmpty, IInv, TypeOK, IndicesAgree, NothingUnwritten, Slot, Wrap
  <1>6. CASE Purge
    BY <1>6, PurgeStep
  <1>7. CASE UNCHANGED vars
    BY <1>7 DEF vars, IInv, TypeOK, IndicesAgree, NothingUnwritten, Slot, Wrap
  <1>. QED  BY <1>1, <1>2, <1>3, <1>4, <1>5, <1>6, <1>7 DEF Next

(* The indices and the array stay in their ranges, however the ring grew   *)
(* (cable.c:126-262).                                                      *)
THEOREM RingTyped == Spec => []TypeOK
  <1>1. IInv => TypeOK
    BY DEF IInv
  <1>. QED  BY <1>1, InitInvariant, StepInvariant, PTL DEF Spec

(* The indices always agree with each other, for every array size and      *)
(* growth step (cable.c:126-262).                                          *)
THEOREM IndicesCorrect == Spec => []IndicesAgree
  <1>1. IInv => IndicesAgree
    BY DEF IInv
  <1>. QED  BY <1>1, InitInvariant, StepInvariant, PTL DEF Spec

(* No operation ever hands out, or keeps in the queue, memory that was     *)
(* allocated by realloc and not written since (cable.c:139-222).           *)
THEOREM QueueInitialised == Spec => []NothingUnwritten
  <1>1. IInv => NothingUnwritten
    BY DEF IInv
  <1>. QED  BY <1>1, InitInvariant, StepInvariant, PTL DEF Spec

-----------------------------------------------------------------------------
(* The queued items form a sequence; what each operation does to it.       *)

LEMMA FunctionIsSequence ==
    ASSUME NEW n \in Nat, NEW c \in [1 .. n -> Item]
    PROVE  c \in Seq(Item) /\ Len(c) = n
  <1>1. c \in Seq(Item)
    BY SeqDef
  <1>. QED  BY <1>1, LenProperties

LEMMA ContentsSequence ==
    ASSUME IInv
    PROVE  Contents \in Seq(Item) /\ Len(Contents) = num_items
  <1>1. Contents \in [1 .. num_items -> Item] /\ num_items \in Nat
    BY DEF IInv, TypeOK, NothingUnwritten, Contents
  <1>. QED  BY <1>1, FunctionIsSequence

LEMMA NextContentsSequence ==
    ASSUME IInv'
    PROVE  Contents' \in Seq(Item) /\ Len(Contents') = num_items'
  <1>1. Contents' \in [1 .. num_items' -> Item] /\ num_items' \in Nat
    BY DEF IInv, TypeOK, NothingUnwritten, Contents
  <1>. QED  BY <1>1, FunctionIsSequence

LEMMA AppendedContents ==
    ASSUME IInv, IInv', NEW item \in Item,
           num_items' = num_items + 1,
           \A k \in 1 .. num_items : Contents'[k] = Contents[k],
           Contents'[num_items + 1] = item
    PROVE  Contents' = Append(Contents, item)
  <1>1. /\ Contents \in Seq(Item) /\ Len(Contents) = num_items
        /\ Contents' \in Seq(Item) /\ Len(Contents') = num_items + 1
    BY ContentsSequence, NextContentsSequence
  <1>. DEFINE A == Append(Contents, item)
  <1>2. /\ A \in Seq(Item) /\ Len(A) = num_items + 1
        /\ \A k \in 1 .. num_items : A[k] = Contents[k]
        /\ A[num_items + 1] = item
    BY <1>1
  <1>3. num_items \in Nat
    BY DEF IInv, TypeOK
  <1>4. ASSUME NEW k \in 1 .. num_items + 1 PROVE Contents'[k] = A[k]
    BY <1>2, <1>3
  <1>. HIDE DEF A
  <1>5. Contents' = A
    BY <1>1, <1>2, <1>4, SeqEqual
  <1>. QED  BY <1>5 DEF A

LEMMA TakenContents ==
    ASSUME IInv, IInv', num_items \in Nat \ {0}, num_items' = num_items - 1,
           \A k \in 1 .. num_items - 1 : Contents'[k] = Contents[k + 1]
    PROVE  /\ Contents # <<>>
           /\ Head(Contents) = Contents[1]
           /\ Contents' = Tail(Contents)
  <1>1. /\ Contents \in Seq(Item) /\ Len(Contents) = num_items
        /\ Contents' \in Seq(Item) /\ Len(Contents') = num_items - 1
    BY ContentsSequence, NextContentsSequence
  <1>2. Contents # <<>>
    BY <1>1
  <1>. DEFINE T == Tail(Contents)
  <1>3. /\ T \in Seq(Item) /\ Len(T) = num_items - 1
        /\ \A k \in 1 .. num_items - 1 : T[k] = Contents[k + 1]
    BY <1>1, <1>2, HeadTailProperties
  <1>4. Head(Contents) = Contents[1]
    BY <1>1, <1>2
  <1>. HIDE DEF T
  <1>5. Contents' = T
    BY <1>1, <1>3, SeqEqual
  <1>. QED  BY <1>2, <1>4, <1>5 DEF T

LEMMA EmptyContents ==
    ASSUME IInv
    PROVE  (Contents = <<>>) <=> (num_items = 0)
  BY ContentsSequence

LEMMA FifoInit == Init => F!Init
  BY InitInvariant, EmptyContents DEF Init, F!Init

LEMMA UndisturbedContents ==
    ASSUME UNCHANGED <<data, max_items, num_items, next_item, next_free>>
    PROVE  Contents' = Contents
  BY DEF Contents, Slot, Wrap

LEMMA FifoStep == IInv /\ IInv' /\ [Next]_vars => [F!Next]_(F!vars)
  <1>. SUFFICES ASSUME IInv, IInv', [Next]_vars
                PROVE  [F!Next]_(F!vars)
    OBVIOUS
  <1>1. ASSUME NEW item \in Item, AddInPlace(item) \/ AddResized(item)
        PROVE  F!Put(item)
    <2>1. /\ num_items' = num_items + 1
          /\ got' = NoItem
      BY <1>1 DEF AddInPlace, AddResized
    <2>2. /\ \A k \in 1 .. num_items : Contents'[k] = Contents[k]
          /\ Contents'[num_items + 1] = item
      BY <1>1, AddInPlaceStep, AddResizedStep
    <2>. QED  BY <2>1, <2>2, AppendedContents DEF F!Put
  <1>2. CASE AddFails
    BY <1>2, UndisturbedContents DEF AddFails, F!Next, F!PutRefused
  <1>3. ASSUME Get PROVE F!Take
    <2>1. num_items' = num_items - 1
      BY <1>3 DEF Get
    <2>2. /\ num_items \in Nat \ {0}
          /\ got' = Contents[1]
          /\ \A k \in 1 .. num_items - 1 : Contents'[k] = Contents[k + 1]
      BY <1>3, GetStep
    <2>. QED  BY <2>1, <2>2, TakenContents DEF F!Take
  <1>4. ASSUME GetEmpty PROVE F!TakeEmpty
    BY <1>4, EmptyContents, UndisturbedContents DEF GetEmpty, F!TakeEmpty
  <1>5. ASSUME Purge PROVE F!Purge
    <2>1. num_items' = 0 /\ got' = NoItem
      BY <1>5 DEF Purge
    <2>2. Contents' = <<>>
      BY <2>1, NextContentsSequence
    <2>. QED  BY <2>1, <2>2 DEF F!Purge
  <1>6. CASE UNCHANGED vars
    BY <1>6, UndisturbedContents DEF vars, F!vars
  <1>. QED  BY <1>1, <1>2, <1>3, <1>4, <1>5, <1>6 DEF Next, F!Next

(* The ring buffer, however often it wrapped or was extended, is a FIFO:    *)
(* results come back in the order in which the activities were queued.     *)
THEOREM ImplementsFifo == Spec => FifoSpec
  <1>. QED
    BY InitInvariant, StepInvariant, FifoInit, FifoStep, PTL
    DEF Spec, FifoSpec, F!Spec
=============================================================================
