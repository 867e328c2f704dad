--------------------------- MODULE MsgQueueProofs ---------------------------
(***************************************************************************)
(* The ring buffer of module MsgQueue implements the bounded queue of      *)
(* module BoundedQueue, for every size and every set of messages.          *)
(***************************************************************************)
EXTENDS MsgQueue, Integers, TLAPS, SequenceTheorems

(* The inductive invariant.                                                *)
RingInv == MsgQueueTypeOK /\ TailFollows

(* Remainders of what lies below the divisor, and of the divisor.          *)
LEMMA SmallRemainder ==
    ASSUME NEW n \in Nat \ {0}, NEW i \in 0 .. n - 1
    PROVE  i % n = i /\ n % n = 0
OBVIOUS

(* The wrapping increment of an index moves it on by one place.            *)
LEMMA NextIsAfter ==
    ASSUME NEW i \in Index
    PROVE  Next(i) = After(i, 1) /\ Next(i) \in Index
<1>1. Size \in Nat \ {0} /\ i \in 0 .. Size - 1
  BY MsgQueueAssumption DEF Index
<1>2. CASE i + 1 < Size
  <2>1. i + 1 \in 0 .. Size - 1
    BY <1>1, <1>2
  <2>2. (i + 1) % Size = i + 1
    BY <1>1, <2>1, SmallRemainder
  <2> QED
    BY <1>1, <1>2, <2>1, <2>2 DEF Next, After, Index
<1>3. CASE i + 1 = Size
  <2>1. (i + 1) % Size = 0
    BY <1>1, <1>3, SmallRemainder
  <2> QED
    BY <1>1, <1>3, <2>1 DEF Next, After, Index
<1> QED
  BY <1>1, <1>2, <1>3

(* Places up to Size further on are slots of the buffer, different places  *)
(* different slots.                                                        *)
LEMMA AfterIsIndex ==
    ASSUME NEW i \in Index, NEW k \in 0 .. Size
    PROVE  /\ After(i, k) \in Index
           /\ \A j \in 0 .. Size - 1 : j < k /\ k < Size => After(i, j) # After(i, k)
BY MsgQueueAssumption DEF Index, After

(* One place further on is one place further on, seen from the next slot.  *)
LEMMA AfterShift ==
    ASSUME NEW i \in Index, NEW k \in 0 .. Size - 1
    PROVE  After(After(i, 1), k) = After(i, k + 1)
BY MsgQueueAssumption DEF Index, After

(* The slot after k places is k + 1 places on.                             *)
LEMMA AfterSucc ==
    ASSUME NEW i \in Index, NEW k \in 0 .. Size - 1
    PROVE  After(After(i, k), 1) = After(i, k + 1)
BY MsgQueueAssumption DEF Index, After

(* A new queue satisfies the invariant.                                    *)
LEMMA RingInit == MsgQueueInit => RingInv
<1>1. Blank \in Messages
  BY MsgQueueAssumption DEF Blank
<1> QED
  BY <1>1, MsgQueueAssumption
  DEF MsgQueueInit, RingInv, MsgQueueTypeOK, TailFollows, After, Index

(* push and pop keep it.                                                   *)
LEMMA RingStep ==
    ASSUME RingInv, [MsgQueueNext]_msgQueueVars
    PROVE  RingInv'
<1> USE DEF RingInv, MsgQueueTypeOK, TailFollows
<1>1. Size \in Nat \ {0}
  BY MsgQueueAssumption
<1>2. ASSUME NEW m \in Messages, Push(m)
      PROVE  RingInv'
  <2>1. count \in 0 .. Size - 1
    BY <1>1, <1>2 DEF Push, IsFull
  <2>2. tail' = After(head, count + 1) /\ tail' \in Index
    BY <1>2, <2>1, NextIsAfter, AfterSucc DEF Push
  <2> QED
    BY <1>1, <1>2, <2>1, <2>2 DEF Push
<1>3. ASSUME Pop
      PROVE  RingInv'
  <2>1. count \in 1 .. Size /\ count - 1 \in 0 .. Size - 1
    BY <1>1, <1>3 DEF Pop, IsEmpty
  <2>2. head' = After(head, 1) /\ head' \in Index
    BY <1>3, NextIsAfter DEF Pop
  <2>3. After(head', count - 1) = After(head, (count - 1) + 1)
    BY <2>1, <2>2, AfterShift
  <2>4. (count - 1) + 1 = count
    BY <2>1
  <2> QED
    BY <1>1, <1>3, <2>1, <2>2, <2>3, <2>4 DEF Pop
<1>4. CASE PushFull \/ PopEmpty
  BY <1>4 DEF PushFull, PopEmpty
<1>5. CASE UNCHANGED msgQueueVars
  BY <1>5 DEF msgQueueVars
<1> QED
  BY <1>2, <1>3, <1>4, <1>5 DEF MsgQueueNext

(* head, tail and count of MsgQueue agree after every operation.           *)
THEOREM RingConsistent == MsgQueueSpec => [](MsgQueueTypeOK /\ TailFollows)
<1>1. MsgQueueInit => RingInv
  BY RingInit
<1>2. RingInv /\ [MsgQueueNext]_msgQueueVars => RingInv'
  BY RingStep
<1>3. RingInv => MsgQueueTypeOK /\ TailFollows
  BY DEF RingInv
<1> QED
  BY <1>1, <1>2, <1>3, PTL DEF MsgQueueSpec

-----------------------------------------------------------------------------
(* What waits is a sequence of count messages.                             *)
LEMMA WaitingSeq ==
    ASSUME RingInv
    PROVE  Waiting \in Seq(Messages) /\ Len(Waiting) = count
<1>1. count \in Nat /\ Size \in Nat \ {0}
  BY MsgQueueAssumption DEF RingInv, MsgQueueTypeOK
<1>2. \A k \in 1 .. count : After(head, k - 1) \in Index
  BY <1>1, AfterIsIndex DEF RingInv, MsgQueueTypeOK
<1>3. \A k \in 1 .. count : buf[After(head, k - 1)] \in Messages
  BY <1>2 DEF RingInv, MsgQueueTypeOK
<1> QED
  BY <1>1, <1>3 DEF Waiting

(* push appends to what waits.                                             *)
LEMMA PushAppends ==
    ASSUME RingInv, NEW m \in Messages, Push(m)
    PROVE  Waiting' = Append(Waiting, m)
<1>1. Size \in Nat \ {0} /\ count \in 0 .. Size - 1 /\ head \in Index
  BY MsgQueueAssumption DEF RingInv, MsgQueueTypeOK, Push, IsFull
<1>2. Waiting' = [k \in 1 .. count + 1 |-> buf'[After(head, k - 1)]]
  BY DEF Waiting, Push
<1>3. tail = After(head, count) /\ tail \in Index
  BY DEF RingInv, TailFollows, MsgQueueTypeOK
<1>4. buf' = [buf EXCEPT ![tail] = m] /\ buf \in [Index -> Messages]
  BY DEF Push, RingInv, MsgQueueTypeOK
<1>5. buf'[After(head, (count + 1) - 1)] = m
  BY <1>1, <1>3, <1>4
<1>6. ASSUME NEW k \in 1 .. count
      PROVE  buf'[After(head, k - 1)] = Waiting[k]
  <2>1. k - 1 \in 0 .. Size - 1 /\ k - 1 \in 0 .. Size /\ k - 1 < count
    BY <1>1
  <2>2. After(head, k - 1) # tail /\ After(head, k - 1) \in Index
    BY <1>1, <1>3, <2>1, AfterIsIndex
  <2> QED
    BY <1>4, <2>2 DEF Waiting
<1>7. Waiting \in Seq(Messages) /\ Len(Waiting) = count
  BY WaitingSeq
<1> HIDE DEF Waiting
<1>8. \A k \in 1 .. count + 1 : buf'[After(head, k - 1)] = Append(Waiting, m)[k]
  <2>1. \A k \in 1 .. count + 1 : k = count + 1 \/ k \in 1 .. count
    BY <1>1
  <2>2. Append(Waiting, m)[count + 1] = m
    BY <1>7, AppendProperties
  <2>3. \A k \in 1 .. count : Append(Waiting, m)[k] = Waiting[k]
    BY <1>7, AppendProperties
  <2> QED
    BY <1>5, <1>6, <2>1, <2>2, <2>3
<1>9. /\ Append(Waiting, m) \in Seq(Messages)
      /\ Len(Append(Waiting, m)) = count + 1
  BY <1>7, AppendProperties
<1> DEFINE new == [k \in 1 .. count + 1 |-> buf'[After(head, k - 1)]]
<1>10. new \in Seq(Messages) /\ Len(new) = count + 1
  <2>1. \A k \in 1 .. count + 1 : Append(Waiting, m)[k] \in Messages
    BY <1>9, ElementOfSeq
  <2>2. \A k \in 1 .. count + 1 : buf'[After(head, k - 1)] \in Messages
    BY <1>8, <2>1
  <2>3. count + 1 \in Nat
    BY <1>1
  <2> QED
    BY <2>2, <2>3
<1>11. \A k \in 1 .. count + 1 : new[k] = Append(Waiting, m)[k]
  BY <1>8
<1> HIDE DEF new
<1>12. new = Append(Waiting, m)
  BY <1>9, <1>10, <1>11, SeqEqual
<1> QED
  BY <1>2, <1>12 DEF new

(* pop takes the head of what waits and leaves its tail.                   *)
LEMMA PopTakesHead ==
    ASSUME RingInv, Pop
    PROVE  /\ Waiting # <<>>
           /\ Waiting' = Tail(Waiting)
           /\ buf[head] = Head(Waiting)
<1>1. Size \in Nat \ {0} /\ count \in 1 .. Size /\ head \in Index
  BY MsgQueueAssumption DEF RingInv, MsgQueueTypeOK, Pop, IsEmpty
<1>2. head' = After(head, 1) /\ count' = count - 1 /\ buf' = buf
  BY <1>1, NextIsAfter DEF Pop
<1>3. Waiting' = [k \in 1 .. count - 1 |-> buf[After(After(head, 1), k - 1)]]
  BY <1>2 DEF Waiting
<1>4. ASSUME NEW k \in 1 .. count - 1
      PROVE  buf[After(After(head, 1), k - 1)] = Waiting[k + 1]
  <2>1. k - 1 \in 0 .. Size - 1 /\ (k - 1) + 1 = (k + 1) - 1 /\ k + 1 \in 1 .. count
    BY <1>1
  <2> QED
    BY <1>1, <2>1, AfterShift DEF Waiting
<1>5. Waiting \in Seq(Messages) /\ Len(Waiting) = count
  BY WaitingSeq
<1>6. After(head, 1 - 1) = head
  BY <1>1 DEF After, Index
<1>7. Waiting[1] = buf[head]
  BY <1>1, <1>6 DEF Waiting
<1> HIDE DEF Waiting
<1>8. Waiting # <<>> /\ Head(Waiting) = Waiting[1]
  BY <1>1, <1>5
<1>9. /\ Tail(Waiting) \in Seq(Messages)
      /\ Len(Tail(Waiting)) = count - 1
      /\ \A k \in 1 .. count - 1 : Tail(Waiting)[k] = Waiting[k + 1]
  BY <1>5, <1>8, HeadTailProperties
<1> DEFINE new == [k \in 1 .. count - 1 |-> buf[After(After(head, 1), k - 1)]]
<1>10. new \in Seq(Messages) /\ Len(new) = count - 1
  <2>1. \A k \in 1 .. count - 1 : Tail(Waiting)[k] \in Messages
    BY <1>9, ElementOfSeq
  <2>2. \A k \in 1 .. count - 1 : buf[After(After(head, 1), k - 1)] \in Messages
    BY <1>4, <1>9, <2>1
  <2>3. count - 1 \in Nat
    BY <1>1
  <2> QED
    BY <2>2, <2>3
<1>11. \A k \in 1 .. count - 1 : new[k] = Tail(Waiting)[k]
  BY <1>4, <1>9
<1> HIDE DEF new
<1>12. new = Tail(Waiting)
  BY <1>9, <1>10, <1>11, SeqEqual
<1> QED
  BY <1>3, <1>7, <1>8, <1>12 DEF new

(* The ring buffer of an endpoint behaves as a bounded first-in first-out  *)
(* queue: every operation of MsgQueue is the operation of BoundedQueue on  *)
(* the messages that wait.                                                 *)
THEOREM RingIsQueue == MsgQueueSpec => IsBoundedQueue
<1>1. MsgQueueInit => Q!QueueInit
  <2> SUFFICES ASSUME MsgQueueInit PROVE Q!QueueInit
    OBVIOUS
  <2>1. Waiting \in Seq(Messages) /\ Len(Waiting) = 0
    BY RingInit, WaitingSeq DEF MsgQueueInit
  <2>2. Waiting = <<>>
    <3> HIDE DEF Waiting
    <3> QED
      BY <2>1
  <2> QED
    BY <2>2 DEF MsgQueueInit, Q!QueueInit, None, Q!None
<1>2. RingInv /\ [MsgQueueNext]_msgQueueVars => [Q!QueueNext]_(Q!queueVars)
  <2> SUFFICES ASSUME RingInv, [MsgQueueNext]_msgQueueVars
               PROVE  [Q!QueueNext]_(Q!queueVars)
    OBVIOUS
  <2> USE DEF Ok, Err, None, Some, Q!Ok, Q!Err, Q!None, Q!Some
  <2>1. Waiting \in Seq(Messages) /\ Len(Waiting) = count
    BY WaitingSeq
  <2>2. count \in 0 .. Size /\ Size \in Nat \ {0}
    BY MsgQueueAssumption DEF RingInv, MsgQueueTypeOK
  <2>3. ASSUME NEW m \in Messages, Push(m)
        PROVE  Q!QueueNext
    <3>1. Waiting' = Append(Waiting, m)
      BY <2>3, PushAppends
    <3>2. Len(Waiting) < Size /\ result' = Ok
      BY <2>1, <2>2, <2>3 DEF Push, IsFull
    <3>3. Q!Enqueue(m)
      BY <3>1, <3>2 DEF Q!Enqueue
    <3> QED
      BY <3>3 DEF Q!QueueNext
  <2>4. ASSUME Pop
        PROVE  Q!QueueNext
    <3>1. Waiting # <<>> /\ Waiting' = Tail(Waiting) /\ buf[head] = Head(Waiting)
      BY <2>4, PopTakesHead
    <3>2. result' = Some(Head(Waiting))
      BY <2>4, <3>1 DEF Pop
    <3>3. Q!Dequeue
      BY <3>1, <3>2 DEF Q!Dequeue
    <3> QED
      BY <3>3 DEF Q!QueueNext
  <2>5. CASE PushFull
    <3>1. Len(Waiting) = Size /\ result' = Err
      BY <2>1, <2>5 DEF PushFull, IsFull
    <3>2. Waiting' = Waiting
      BY <2>5 DEF PushFull, Waiting
    <3>3. Q!RefuseFull
      BY <3>1, <3>2 DEF Q!RefuseFull
    <3> QED
      BY <3>3 DEF Q!QueueNext
  <2>6. CASE PopEmpty
    <3>1. count = 0 /\ result' = None
      BY <2>6 DEF PopEmpty, IsEmpty
    <3>2. Waiting' = Waiting
      BY <2>6 DEF PopEmpty, Waiting
    <3>3. Waiting = <<>>
      <4> HIDE DEF Waiting
      <4> QED
        BY <2>1, <3>1
    <3>4. Q!RefuseEmpty
      BY <3>1, <3>2, <3>3 DEF Q!RefuseEmpty
    <3> QED
      BY <3>4 DEF Q!QueueNext
  <2>7. CASE UNCHANGED msgQueueVars
    BY <2>7 DEF msgQueueVars, Waiting, Q!queueVars
  <2> QED
    BY <2>3, <2>4, <2>5, <2>6, <2>7 DEF MsgQueueNext
<1>3. RingInv /\ [MsgQueueNext]_msgQueueVars => RingInv'
  BY RingStep
<1> QED
  BY RingInit, <1>1, <1>2, <1>3, PTL DEF MsgQueueSpec, IsBoundedQueue, Q!QueueSpec

=============================================================================
