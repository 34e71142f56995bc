------------------------- MODULE DamageQueue_proofs -------------------------
(***************************************************************************)
(* Proofs about DamageQueue, for every limit and every number of Register  *)
(* calls.                                                                  *)
(***************************************************************************)
EXTENDS DamageQueue, TLAPS

USE LimitAssumption, MaxNumbersAssumption

-----------------------------------------------------------------------------
(* What Append, Tail and Head do to sequences of numbers.                  *)
LEMMA AppendFacts ==
  ASSUME NEW S, NEW q \in Seq(S), NEW n \in S
  PROVE  /\ Append(q, n) \in Seq(S)
         /\ Len(Append(q, n)) = Len(q) + 1
         /\ DOMAIN Append(q, n) = 1..(Len(q) + 1)
         /\ Append(q, n)[Len(q) + 1] = n
         /\ \A i \in 1..Len(q) : Append(q, n)[i] = q[i]
  OBVIOUS

LEMMA TailFacts ==
  ASSUME NEW S, NEW q \in Seq(S), q # <<>>
  PROVE  /\ Tail(q) \in Seq(S)
         /\ Len(Tail(q)) = Len(q) - 1 /\ Len(q) >= 1
         /\ Head(q) = q[1] /\ Head(q) \in S
         /\ \A i \in 1..(Len(q) - 1) : Tail(q)[i] = q[i + 1]
  OBVIOUS

(* Appending a larger number keeps a sequence increasing; its tail is      *)
(* increasing, above its head.                                             *)
LEMMA IncreasingAppend ==
  ASSUME NEW q \in Seq(Nat), Increasing(q), NEW n \in Nat,
         \A i \in DOMAIN q : q[i] < n
  PROVE  /\ Increasing(Append(q, n))
         /\ \A i \in DOMAIN Append(q, n) :
              Append(q, n)[i] = n \/ (i \in DOMAIN q /\ Append(q, n)[i] = q[i])
<1> DEFINE r == Append(q, n)
<1>1. /\ DOMAIN r = 1..(Len(q) + 1) /\ r[Len(q) + 1] = n
      /\ \A i \in 1..Len(q) : r[i] = q[i]
  BY AppendFacts
<1>2. Len(q) \in Nat /\ DOMAIN q = 1..Len(q) /\ \A i \in 1..Len(q) : q[i] \in Nat
  OBVIOUS
<1> HIDE DEF r
<1>3. ASSUME NEW i \in DOMAIN r, NEW j \in DOMAIN r, i < j PROVE r[i] < r[j]
  <2>1. i \in 1..Len(q) /\ r[i] = q[i]
    BY <1>1, <1>2, <1>3
  <2>2. CASE j = Len(q) + 1
    BY <1>1, <1>2, <2>1, <2>2
  <2>3. CASE j # Len(q) + 1
    <3>1. j \in 1..Len(q) /\ r[j] = q[j]
      BY <1>1, <1>2, <2>3
    <3>2. QED
      BY <1>2, <1>3, <2>1, <3>1 DEF Increasing
  <2>4. QED BY <2>2, <2>3
<1>4. Increasing(r)
  BY <1>3 DEF Increasing
<1>5. \A i \in DOMAIN r : r[i] = n \/ (i \in DOMAIN q /\ r[i] = q[i])
  BY <1>1, <1>2
<1>6. QED
  BY <1>4, <1>5 DEF r

LEMMA IncreasingTail ==
  ASSUME NEW q \in Seq(Nat), q # <<>>, Increasing(q)
  PROVE  /\ Increasing(Tail(q))
         /\ \A i \in DOMAIN Tail(q) :
              /\ Head(q) < Tail(q)[i]
              /\ i + 1 \in DOMAIN q /\ Tail(q)[i] = q[i + 1]
<1> DEFINE r == Tail(q)
<1>1. /\ DOMAIN r = 1..(Len(q) - 1) /\ Head(q) = q[1]
      /\ \A i \in 1..(Len(q) - 1) : r[i] = q[i + 1]
  BY TailFacts
<1>2. /\ Len(q) \in Nat /\ Len(q) >= 1 /\ DOMAIN q = 1..Len(q)
      /\ \A i \in 1..Len(q) : q[i] \in Nat
  BY TailFacts
<1> HIDE DEF r
<1>3. \A i \in DOMAIN r : i + 1 \in DOMAIN q /\ 1 \in DOMAIN q /\ i \in Nat /\ 1 < i + 1
  BY <1>1, <1>2
<1>4. \A i \in DOMAIN r : Head(q) < r[i] /\ i + 1 \in DOMAIN q /\ r[i] = q[i + 1]
  BY <1>1, <1>3 DEF Increasing
<1>5. ASSUME NEW i \in DOMAIN r, NEW j \in DOMAIN r, i < j PROVE r[i] < r[j]
  <2>1. i + 1 < j + 1
    BY <1>3, <1>5
  <2>2. QED
    BY <1>3, <1>4, <2>1 DEF Increasing
<1>6. Increasing(r)
  BY <1>5 DEF Increasing
<1>7. QED
  BY <1>4, <1>6 DEF r

(* The types and the bound of the queue hold at the start and are kept by  *)
(* every step.                                                             *)
LEMMA QueueTypeInit == QueueInit => QueueTypeOK /\ QueueBounded
<1> SUFFICES ASSUME QueueInit PROVE QueueTypeOK /\ QueueBounded
  OBVIOUS
<1>1. <<>> \in Seq(1..MaxNumbers) /\ Len(<<>>) = 0
  OBVIOUS
<1>2. QED
  BY <1>1 DEF QueueInit, QueueTypeOK, QueueBounded, Menus

LEMMA RegisterType ==
  ASSUME QueueTypeOK, QueueBounded, Register
  PROVE  QueueTypeOK' /\ QueueBounded'
<1>1. /\ registered' \in 1..MaxNumbers
      /\ UNCHANGED <<queueLock, menu, shown, openedAt>>
  BY DEF QueueTypeOK, Register
<1>2. uiQueue' \in Seq(1..MaxNumbers) /\ Len(uiQueue') <= Limit + 1
  <2>1. CASE Len(uiQueue) <= Limit
    <3>1. uiQueue' = Append(uiQueue, registered')
      BY <2>1 DEF Register
    <3>2. uiQueue' \in Seq(1..MaxNumbers) /\ Len(uiQueue') = Len(uiQueue) + 1
      BY <1>1, <3>1, AppendFacts DEF QueueTypeOK
    <3>3. Len(uiQueue) \in Nat
      BY DEF QueueTypeOK
    <3>4. QED
      BY <2>1, <3>2, <3>3
  <2>2. CASE ~(Len(uiQueue) <= Limit)
    BY <2>2 DEF Register, QueueTypeOK, QueueBounded
  <2>3. QED
    BY <2>1, <2>2
<1>3. QED
  BY <1>1, <1>2 DEF QueueTypeOK, QueueBounded

LEMMA UIStepType ==
  ASSUME QueueTypeOK, QueueBounded, UIStep
  PROVE  QueueTypeOK' /\ QueueBounded'
<1> USE DEF QueueTypeOK, QueueBounded, Menus
<1>1. CASE HandleOpen
  BY <1>1 DEF HandleOpen
<1>2. CASE HandleClose
  BY <1>2 DEF HandleClose
<1>3. CASE OnCodeObjCreate
  BY <1>3 DEF OnCodeObjCreate
<1>4. CASE DrawEnter
  BY <1>4 DEF DrawEnter
<1>5. CASE DrawPop
  <2>1. /\ Tail(uiQueue) \in Seq(1..MaxNumbers) /\ Head(uiQueue) \in 1..MaxNumbers
        /\ Len(Tail(uiQueue)) = Len(uiQueue) - 1
    BY <1>5, TailFacts DEF DrawPop, OnDamageReceived
  <2>2. uiQueue' \in Seq(1..MaxNumbers) /\ Len(uiQueue') <= Limit + 1
    <3>1. uiQueue' \in Seq(1..MaxNumbers) /\ Len(uiQueue') = Len(uiQueue) - 1
      BY <1>5, <2>1 DEF DrawPop, OnDamageReceived
    <3>2. Len(uiQueue) \in Nat /\ Len(uiQueue) <= Limit + 1
      OBVIOUS
    <3>3. QED
      BY <3>1, <3>2
  <2>3. shown' \in Seq(1..MaxNumbers)
    <3>1. shown' \in {shown, Append(shown, Head(uiQueue))}
      BY <1>5 DEF DrawPop, OnDamageReceived
    <3>2. Append(shown, Head(uiQueue)) \in Seq(1..MaxNumbers)
      BY <2>1, AppendFacts
    <3>3. QED
      BY <3>1, <3>2
  <2>4. UNCHANGED <<registered, queueLock, menu, openedAt>>
    BY <1>5 DEF DrawPop, OnDamageReceived
  <2>5. QED
    BY <2>2, <2>3, <2>4
<1>6. CASE DrawLeave
  BY <1>6 DEF DrawLeave
<1>7. QED
  BY <1>1, <1>2, <1>3, <1>4, <1>5, <1>6 DEF UIStep

LEMMA QueueTypeStep ==
  QueueTypeOK /\ QueueBounded /\ [QueueNext]_queueVars
    => QueueTypeOK' /\ QueueBounded'
<1> SUFFICES ASSUME QueueTypeOK, QueueBounded, [QueueNext]_queueVars
             PROVE  QueueTypeOK' /\ QueueBounded'
  OBVIOUS
<1>1. CASE UNCHANGED queueVars
  BY <1>1 DEF queueVars, QueueTypeOK, QueueBounded
<1>2. QED
  BY <1>1, RegisterType, UIStepType DEF QueueNext

(* The queue never keeps more than Limit + 1 numbers, however long the     *)
(* menu is not drawn.                                                      *)
THEOREM QueueIsBounded == QueueSpec => [](QueueTypeOK /\ QueueBounded)
  BY QueueTypeInit, QueueTypeStep, PTL DEF QueueSpec

(* The queue, its lock and the movie keep their types, for every limit:    *)
(* nothing but registered numbers is ever queued or shown.                 *)
THEOREM QueueTypeCorrect == QueueSpec => []QueueTypeOK
  BY QueueIsBounded, PTL

-----------------------------------------------------------------------------
(* What is in the queue of an open menu was registered after it opened.    *)
FreshInv ==
  /\ QueueTypeOK
  /\ openedAt <= registered
  /\ menu # "closed" => \A i \in DOMAIN uiQueue : uiQueue[i] > openedAt
  /\ queueLock = "frame" => menu # "closed"

LEMMA FreshInit == QueueInit => FreshInv
  BY QueueTypeInit DEF QueueInit, FreshInv

LEMMA FreshStep ==
  ASSUME FreshInv, QueueTypeOK', [QueueNext]_queueVars
  PROVE  FreshInv' /\ (shown' = shown \/ shown'[Len(shown')] > openedAt)
<1> USE DEF FreshInv, QueueTypeOK
<1>1. CASE Register
  BY <1>1 DEF Register
<1>2. CASE HandleOpen
  BY <1>2 DEF HandleOpen
<1>3. CASE HandleClose
  BY <1>3 DEF HandleClose
<1>4. CASE OnCodeObjCreate
  BY <1>4 DEF OnCodeObjCreate
<1>5. CASE DrawEnter
  BY <1>5 DEF DrawEnter
<1>6. CASE DrawPop
  BY <1>6, SMTT(40) DEF DrawPop, OnDamageReceived
<1>7. CASE DrawLeave
  BY <1>7 DEF DrawLeave
<1>8. CASE UNCHANGED queueVars
  BY <1>8 DEF queueVars
<1>9. QED
  BY <1>1, <1>2, <1>3, <1>4, <1>5, <1>6, <1>7, <1>8 DEF QueueNext, UIStep

(* No number from before the last opening of the menu is ever shown.       *)
THEOREM OnlyFreshNumbers == QueueSpec => ShowsFreshNumbers
<1>1. QueueSpec => []FreshInv
  BY QueueIsBounded, FreshInit, FreshStep, PTL DEF QueueSpec
<1>2. FreshInv /\ QueueTypeOK' /\ [QueueNext]_queueVars
        => [shown' # shown => shown'[Len(shown')] > openedAt]_queueVars
  BY FreshStep
<1>3. QED
  BY <1>1, <1>2, QueueIsBounded, PTL DEF QueueSpec, ShowsFreshNumbers

-----------------------------------------------------------------------------
(* What waits and what is shown, taken together, is in order.              *)
OrderInv ==
  /\ QueueTypeOK
  /\ InOrder
  /\ \A i \in DOMAIN uiQueue : uiQueue[i] <= registered
  /\ \A i \in DOMAIN shown : shown[i] <= registered

LEMMA OrderInit == QueueInit => OrderInv
  BY QueueTypeInit DEF QueueInit, OrderInv, InOrder, Increasing

LEMMA OrderTyped ==
  ASSUME QueueTypeOK
  PROVE  /\ uiQueue \in Seq(Nat) /\ shown \in Seq(Nat) /\ registered \in Nat
         /\ \A i \in DOMAIN uiQueue : uiQueue[i] \in Nat
         /\ \A i \in DOMAIN shown : shown[i] \in Nat
  BY DEF QueueTypeOK

(* An emptied queue cannot be out of order.                                *)
LEMMA OrderEmptied ==
  ASSUME OrderInv, QueueTypeOK', uiQueue' = <<>>, shown' = shown, registered' = registered
  PROVE  OrderInv'
  BY DEF OrderInv, InOrder, Increasing

(* Only uiQueue, shown and registered matter.                              *)
LEMMA OrderSame ==
  ASSUME OrderInv, QueueTypeOK', uiQueue' = uiQueue, shown' = shown,
         registered' = registered
  PROVE  OrderInv'
  BY DEF OrderInv, InOrder

LEMMA OrderRegister ==
  ASSUME OrderInv, QueueTypeOK', Register
  PROVE  OrderInv'
<1>1. registered' \in Nat /\ registered' > registered /\ shown' = shown
  BY DEF OrderInv, QueueTypeOK, Register
<1>2. /\ uiQueue \in Seq(Nat) /\ registered \in Nat
      /\ \A i \in DOMAIN uiQueue : uiQueue[i] \in Nat
      /\ \A i \in DOMAIN shown : shown[i] \in Nat
  BY OrderTyped DEF OrderInv
<1>3. /\ \A i \in DOMAIN uiQueue : uiQueue[i] < registered'
      /\ \A i \in DOMAIN shown : shown[i] < registered'
  BY <1>1, <1>2 DEF OrderInv
<1>4. /\ Increasing(uiQueue)'
      /\ \A i \in DOMAIN uiQueue' :
           uiQueue'[i] = registered' \/ (i \in DOMAIN uiQueue /\ uiQueue'[i] = uiQueue[i])
  <2>1. CASE Len(uiQueue) <= Limit
    <3>1. uiQueue' = Append(uiQueue, registered')
      BY <2>1 DEF Register
    <3>2. Increasing(uiQueue)
      BY DEF OrderInv, InOrder
    <3>3. QED
      BY <1>1, <1>2, <1>3, <3>1, <3>2, IncreasingAppend DEF Increasing
  <2>2. CASE ~(Len(uiQueue) <= Limit)
    BY <2>2 DEF Register, OrderInv, InOrder, Increasing
  <2>3. QED BY <2>1, <2>2
<1>5. \A i \in DOMAIN uiQueue' : uiQueue'[i] <= registered'
  BY <1>1, <1>2, <1>3, <1>4
<1>6. \A i \in DOMAIN shown' : shown'[i] <= registered'
  BY <1>1, <1>2, <1>3
<1>7. \A i \in DOMAIN shown', j \in DOMAIN uiQueue' : shown'[i] < uiQueue'[j]
  BY <1>1, <1>3, <1>4 DEF OrderInv, InOrder
<1>8. Increasing(shown)'
  BY <1>1 DEF OrderInv, InOrder, Increasing
<1>9. QED
  BY <1>4, <1>5, <1>6, <1>7, <1>8 DEF OrderInv, InOrder

LEMMA OrderDrawPop ==
  ASSUME OrderInv, QueueTypeOK', DrawPop
  PROVE  OrderInv'
<1> DEFINE n == Head(uiQueue)
<1>1. /\ uiQueue # <<>> /\ uiQueue' = Tail(uiQueue) /\ registered' = registered
      /\ shown' = shown \/ shown' = Append(shown, n)
  BY DEF DrawPop, OnDamageReceived
<1>2. /\ uiQueue \in Seq(Nat) /\ shown \in Seq(Nat) /\ registered \in Nat
      /\ \A i \in DOMAIN uiQueue : uiQueue[i] \in Nat
      /\ \A i \in DOMAIN shown : shown[i] \in Nat
  BY OrderTyped DEF OrderInv
<1>3. 1 \in DOMAIN uiQueue /\ n = uiQueue[1]
  BY <1>1, <1>2, TailFacts
<1>4. Increasing(uiQueue) /\ Increasing(shown)
  BY DEF OrderInv, InOrder
<1>5. /\ Increasing(Tail(uiQueue))
      /\ \A i \in DOMAIN uiQueue' :
           n < uiQueue'[i] /\ i + 1 \in DOMAIN uiQueue /\ uiQueue'[i] = uiQueue[i + 1]
  BY <1>1, <1>2, <1>4, IncreasingTail
<1>6. n \in Nat /\ n <= registered /\ \A i \in DOMAIN shown : shown[i] < n
  BY <1>2, <1>3 DEF OrderInv, InOrder
<1>7. Increasing(uiQueue)' /\ \A i \in DOMAIN uiQueue' : uiQueue'[i] <= registered'
  BY <1>1, <1>5 DEF OrderInv, Increasing
<1>8. /\ Increasing(shown)'
      /\ \A i \in DOMAIN shown' :
           shown'[i] = n \/ (i \in DOMAIN shown /\ shown'[i] = shown[i])
  <2>1. CASE shown' = shown
    BY <1>4, <2>1 DEF Increasing
  <2>2. CASE shown' = Append(shown, n)
    <3>1. /\ Increasing(Append(shown, n))
          /\ \A i \in DOMAIN Append(shown, n) :
               \/ Append(shown, n)[i] = n
               \/ i \in DOMAIN shown /\ Append(shown, n)[i] = shown[i]
      BY <1>2, <1>4, <1>6, IncreasingAppend
    <3>2. QED
      BY <2>2, <3>1 DEF Increasing
  <2>3. QED BY <1>1, <2>1, <2>2
<1> HIDE DEF n
<1>9. \A i \in DOMAIN shown' : shown'[i] <= registered'
  BY <1>1, <1>6, <1>8 DEF OrderInv
<1>10. \A i \in DOMAIN shown', j \in DOMAIN uiQueue' : shown'[i] < uiQueue'[j]
  BY <1>5, <1>8 DEF OrderInv, InOrder
<1>11. QED
  BY <1>7, <1>8, <1>9, <1>10 DEF OrderInv, InOrder

LEMMA OrderStep ==
  ASSUME OrderInv, QueueTypeOK', [QueueNext]_queueVars
  PROVE  OrderInv'
<1>1. CASE Register
  BY <1>1, OrderRegister
<1>2. CASE HandleOpen
  BY <1>2, OrderEmptied DEF HandleOpen
<1>3. CASE HandleClose
  BY <1>3, OrderEmptied DEF HandleClose
<1>4. CASE OnCodeObjCreate
  BY <1>4, OrderSame DEF OnCodeObjCreate
<1>5. CASE DrawEnter
  BY <1>5, OrderSame DEF DrawEnter
<1>6. CASE DrawPop
  BY <1>6, OrderDrawPop
<1>7. CASE DrawLeave
  BY <1>7, OrderSame DEF DrawLeave
<1>8. CASE UNCHANGED queueVars
  BY <1>8, OrderSame DEF queueVars
<1>9. QED
  BY <1>1, <1>2, <1>3, <1>4, <1>5, <1>6, <1>7, <1>8 DEF QueueNext, UIStep

(* Numbers are shown at most once and in the order of registration.        *)
THEOREM ShownInOrder == QueueSpec => []InOrder
<1>1. QueueSpec => []OrderInv
  BY QueueIsBounded, OrderInit, OrderStep, PTL DEF QueueSpec
<1>2. OrderInv => InOrder
  BY DEF OrderInv
<1>3. QED
  BY <1>1, <1>2, PTL

-----------------------------------------------------------------------------
(* The drain is atomic: each step of the queue is a step of the feed or    *)
(* invisible to it.                                                        *)
LEMMA FeedInit == QueueInit => Feed!Init
  BY DEF QueueInit, Feed!Init, waiting, onScreen

LEMMA PopAppend ==
  ASSUME NEW S, NEW s \in Seq(S), NEW q \in Seq(S), q # <<>>
  PROVE  Append(s, Head(q)) \o Tail(q) = s \o q
  OBVIOUS

LEMMA FeedStep ==
  ASSUME QueueTypeOK, QueueTypeOK', [QueueNext]_queueVars
  PROVE  [Feed!Next]_(Feed!vars)
<1> USE DEF QueueTypeOK, waiting, onScreen, Feed!vars
<1>1. CASE Register
  BY <1>1 DEF Register, Feed!Next, Feed!Accept, Feed!Refuse
<1>2. CASE HandleOpen
  BY <1>2 DEF HandleOpen, Feed!Next, Feed!Discard
<1>3. CASE HandleClose
  BY <1>3 DEF HandleClose, Feed!Next, Feed!Discard
<1>4. CASE OnCodeObjCreate
  BY <1>4 DEF OnCodeObjCreate
<1>5. CASE DrawEnter
  BY <1>5 DEF DrawEnter, Feed!Next, Feed!Frame, Feed!Discard
<1>6. CASE DrawPop
  <2>1. registered' = registered /\ waiting' = waiting
    BY <1>6 DEF DrawPop, OnDamageReceived
  <2>2. CASE menu = "ready"
    <3>1. /\ shown' = Append(shown, Head(uiQueue)) /\ uiQueue' = Tail(uiQueue)
          /\ uiQueue # <<>> /\ menu' = "ready"
          /\ queueLock = "frame" /\ queueLock' = "frame"
      BY <1>6, <2>2 DEF DrawPop, OnDamageReceived
    <3>2. Append(shown, Head(uiQueue)) \o Tail(uiQueue) = shown \o uiQueue
      BY <3>1, PopAppend
    <3>3. QED BY <2>1, <2>2, <3>1, <3>2
  <2>3. CASE menu # "ready"
    BY <1>6, <2>1, <2>3 DEF DrawPop, OnDamageReceived
  <2>4. QED BY <2>2, <2>3
<1>7. CASE DrawLeave
  BY <1>7 DEF DrawLeave
<1>8. CASE UNCHANGED queueVars
  BY <1>8 DEF queueVars
<1>9. QED
  BY <1>1, <1>2, <1>3, <1>4, <1>5, <1>6, <1>7, <1>8 DEF QueueNext, UIStep

(* The queue under its lock implements the feed, for every limit.          *)
THEOREM QueueRefinement == QueueSpec => ImplementsFeed
  BY QueueIsBounded, FeedInit, FeedStep, PTL
     DEF QueueSpec, ImplementsFeed, Feed!Spec

(* All of it, for every limit of the queue and any number of numbers.      *)
THEOREM QueueAlwaysFeed == QueueSpec => QueueIsFeed
  BY QueueIsBounded, ShownInOrder, OnlyFreshNumbers, QueueRefinement, PTL DEF QueueIsFeed
=============================================================================
