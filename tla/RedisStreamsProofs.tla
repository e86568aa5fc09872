------------------------- MODULE RedisStreamsProofs -------------------------
(***************************************************************************)
(* Proofs, for any number of producers and consumers and any bounds, of    *)
(* the safety properties of RedisStreams.                                  *)
(*                                                                         *)
(* Seen from the consumers a producer can do two things: append one entry  *)
(* to the log or nothing.  ProducerSteps reduces the six producer actions  *)
(* to these, so that the proofs about delivery split into Append, the      *)
(* consumers' actions and the loss of the server's data.                   *)
(***************************************************************************)
EXTENDS RedisStreamsProperties, FiniteSetTheorems, TLAPS

Others == <<lost, hasGroup, last, pel, acked, losses, consumerVars>>

AppendStep == /\ \E x \in Calls : log' = Append(log, x)
              /\ UNCHANGED Others
NoEffect == UNCHANGED <<log, Others>>

-----------------------------------------------------------------------------
(* Type correctness.                                                       *)

LEMMA TypeInit == Init => TypeOK
<1> SUFFICES ASSUME Init PROVE TypeOK
  OBVIOUS
<1>1. [n |-> 0, attempt |-> 0, status |-> "idle"] \in CallRecords
  BY ConstantsAssumption DEF CallRecords
<1>2. ProducersTypeOK
  BY <1>1 DEF Init, ProducersTypeOK
<1>3. log = << >> /\ log \in Seq(Calls) /\ Len(log) = 0
  BY DEF Init
<1>4. lost \in 0..Len(log) /\ last \in 0..Len(log)
  BY <1>3 DEF Init
<1>5. ServerTypeOK
  BY <1>3, <1>4 DEF Init, ServerTypeOK
<1>6. ConsumersTypeOK
  BY DEF Init, ConsumersTypeOK
<1> QED
  BY <1>2, <1>5, <1>6 DEF TypeOK

\* An XADD adds one entry and leaves the earlier ones where they are.
LEMMA AppendToLog ==
    ASSUME log \in Seq(Calls), NEW x \in Calls, log' = Append(log, x)
    PROVE  /\ log' \in Seq(Calls)
           /\ Len(log') = Len(log) + 1
           /\ Len(log) \in Nat
           /\ Entries = 1..Len(log)
           /\ Entries' = 1..(Len(log) + 1)
           /\ \A i \in Entries : log'[i] = log[i]
           /\ log'[Len(log) + 1] = x
BY DEF Entries

\* What a producer, or a late XADD, can do to its own state and to the rest.
LEMMA ProducerSteps ==
    ASSUME ProducersTypeOK,
           \/ \E p \in Producers : ProducerStep(p)
           \/ \E a \in limbo : LateXAdd(a)
    PROVE  ProducersTypeOK' /\ (AppendStep \/ NoEffect)
<1> USE ConstantsAssumption DEF ProducersTypeOK, Others
<1>1. ASSUME NEW p \in Producers, call[p].status = "trying"
      PROVE  /\ call[p].n \in 1..MaxCalls
             /\ call[p].attempt \in 0..MaxRetries-1
             /\ <<p, call[p].n>> \in Calls
             /\ <<p, call[p].n, call[p].attempt>> \in Attempts
  BY <1>1 DEF CallRecords, Calls, Attempts
<1>2. ASSUME NEW p \in Producers, StartPublish(p)
      PROVE  ProducersTypeOK' /\ NoEffect
  BY <1>2 DEF StartPublish, NoEffect, serverVars, consumerVars, CallRecords
<1>3. ASSUME NEW p \in Producers, XAddOk(p)
      PROVE  ProducersTypeOK' /\ AppendStep
  <2>1. AppendStep
    BY <1>1, <1>3 DEF XAddOk, AppendStep
  <2>2. call' \in [Producers -> CallRecords]
    BY <1>3 DEF XAddOk, CallRecords
  <2> QED
    BY <1>1, <1>3, <2>1, <2>2 DEF XAddOk, CallRecords
<1>4. ASSUME NEW p \in Producers, XAddConnectionError(p)
      PROVE  ProducersTypeOK' /\ NoEffect
  <2>1. limbo' \subseteq Attempts
    BY <1>1, <1>4 DEF XAddConnectionError, Unanswered
  <2>2. CASE /\ call[p].attempt + 1 < MaxRetries
             /\ call' = [call EXCEPT ![p].attempt = @ + 1]
    <3>1. call[p].attempt + 1 \in 0..MaxRetries-1
      <4>1. call[p].attempt \in 0..MaxRetries-1
        BY <1>1, <1>4 DEF XAddConnectionError
      <4>2. MaxRetries \in Nat
        OBVIOUS
      <4> QED
        BY <4>1, <4>2, <2>2
    <3>2. call' \in [Producers -> CallRecords]
      <4>1. [call[p] EXCEPT !.attempt = @ + 1] \in CallRecords
        BY <3>1 DEF CallRecords
      <4> QED
        BY <2>2, <4>1
    <3>3. \A q \in Producers : /\ call'[q].n = call[q].n
                              /\ call'[q].status = call[q].status
      BY <2>2 DEF CallRecords
    <3> QED
      BY <1>4, <2>1, <3>2, <3>3 DEF XAddConnectionError, NoEffect, serverVars
  <2>3. CASE call' = [call EXCEPT ![p].status = "raised"]
    BY <1>1, <1>4, <2>1, <2>3
       DEF XAddConnectionError, NoEffect, serverVars, CallRecords
  <2> QED
    BY <1>4, <2>2, <2>3 DEF XAddConnectionError
<1>5. ASSUME NEW p \in Producers, XAddOtherError(p)
      PROVE  ProducersTypeOK' /\ NoEffect
  <2>1. limbo' \subseteq Attempts
    BY <1>1, <1>5 DEF XAddOtherError, Unanswered
  <2> QED
    BY <1>1, <1>5, <2>1
       DEF XAddOtherError, NoEffect, serverVars, CallRecords
<1>6. ASSUME NEW a \in limbo, LateXAdd(a)
      PROVE  ProducersTypeOK' /\ AppendStep
  <2>1. <<a[1], a[2]>> \in Calls
    BY DEF Attempts, Calls
  <2> QED
    BY <1>6, <2>1 DEF LateXAdd, AppendStep
<1> QED
  BY <1>2, <1>3, <1>4, <1>5, <1>6 DEF ProducerStep

LEMMA TypeNext == TypeOK /\ [Next]_vars => TypeOK'
<1> SUFFICES ASSUME TypeOK, [Next]_vars PROVE TypeOK'
  OBVIOUS
<1>1. ASSUME \/ \E p \in Producers : ProducerStep(p)
             \/ \E a \in limbo : LateXAdd(a)
      PROVE  TypeOK'
  <2>1. ProducersTypeOK' /\ (AppendStep \/ NoEffect)
    BY <1>1, ProducerSteps DEF TypeOK
  <2>2. CASE AppendStep
    <3>1. PICK x \in Calls : log' = Append(log, x)
      BY <2>2 DEF AppendStep
    <3>2. /\ log' \in Seq(Calls)
          /\ Len(log') = Len(log) + 1
          /\ Len(log) \in Nat
          /\ Entries \subseteq Entries'
      BY <3>1, AppendToLog DEF TypeOK, ServerTypeOK
    <3> QED
      BY <2>1, <2>2, <3>2
         DEF AppendStep, Others, consumerVars, TypeOK, ServerTypeOK, ConsumersTypeOK
  <2>3. CASE NoEffect
    BY <2>1, <2>3
       DEF NoEffect, Others, consumerVars, TypeOK, ServerTypeOK, ConsumersTypeOK,
           Entries
  <2> QED
    BY <2>1, <2>2, <2>3
<1> USE ConstantsAssumption
    DEF TypeOK, ProducersTypeOK, ServerTypeOK, ConsumersTypeOK, Entries
<1>2. ASSUME NEW c \in Consumers, Start(c) PROVE TypeOK'
  BY <1>2 DEF Start, producerVars, serverVars
<1>3. ASSUME NEW c \in Consumers, EnsureGroup(c) PROVE TypeOK'
  BY <1>3 DEF EnsureGroup, producerVars
<1>4. ASSUME NEW c \in Consumers, Read(c) PROVE TypeOK'
  <2>1. NextBatch \subseteq Entries /\ last' \in 0..Len(log)
    BY <1>4 DEF Read, NextBatch, Cursor
  <2> QED
    BY <1>4, <2>1 DEF Read, producerVars
<1>5. ASSUME NEW c \in Consumers, ReadNoGroup(c) PROVE TypeOK'
  BY <1>5 DEF ReadNoGroup, Stop, producerVars, serverVars
<1>6. ASSUME NEW c \in Consumers, NEW i \in inhand[c], Ack(c, i) PROVE TypeOK'
  BY <1>6 DEF Ack, Pending, producerVars
<1>7. ASSUME NEW c \in Consumers, Crash(c) PROVE TypeOK'
  BY <1>7 DEF Crash, Stop, producerVars, serverVars
<1>8. ASSUME ServerLoss PROVE TypeOK'
  <2>1. Len(log) \in 0..Len(log) /\ 0 \in 0..Len(log)
    OBVIOUS
  <2>2. ProducersTypeOK'
    BY <1>8 DEF ServerLoss
  <2>3. ServerTypeOK'
    <3>1. log' = log /\ lost' \in 0..Len(log') /\ last' \in 0..Len(log')
      BY <1>8, <2>1 DEF ServerLoss
    <3>2. pel' \in [Consumers -> SUBSET Entries']
      BY <1>8 DEF ServerLoss
    <3>3. log' \in Seq(Calls) /\ acked' \subseteq Entries' /\ losses' \in Nat
      BY <1>8 DEF ServerLoss
    <3>4. hasGroup' \in BOOLEAN
      BY <1>8 DEF ServerLoss
    <3> QED
      BY <3>1, <3>2, <3>3, <3>4
  <2>4. ConsumersTypeOK'
    BY <1>8 DEF ServerLoss, consumerVars
  <2> QED
    BY <2>2, <2>3, <2>4
<1>9. ASSUME UNCHANGED vars PROVE TypeOK'
  BY <1>9 DEF vars, producerVars, consumerVars, serverVars
<1> QED
  BY <1>1, <1>2, <1>3, <1>4, <1>5, <1>6, <1>7, <1>8, <1>9
     DEF Next, ConsumerStep

\* Every variable of RedisStreams keeps its type.
THEOREM TypeCorrect == Spec => []TypeOK
BY TypeInit, TypeNext, PTL DEF Spec

-----------------------------------------------------------------------------
(* Delivery.                                                               *)

LEMMA DeliveryInit == Init => DeliveryInv
BY DEF Init, DeliveryInv, OneHolder, NothingSkipped, InHandIsPending, HandedOut,
       Pending, Entries, Cursor

\* An appended entry is beyond everything the group has seen.
LEMMA DeliveryAppend ==
    ASSUME TypeOK, DeliveryInv, AppendStep
    PROVE  DeliveryInv'
<1>1. PICK x \in Calls : log' = Append(log, x)
  BY DEF AppendStep
<1>2. /\ Len(log) \in Nat
      /\ Entries = 1..Len(log)
      /\ Entries' = 1..(Len(log) + 1)
  BY <1>1, AppendToLog DEF TypeOK, ServerTypeOK
<1>3. /\ lost' = lost /\ hasGroup' = hasGroup /\ last' = last
      /\ pel' = pel /\ acked' = acked /\ inhand' = inhand
  BY DEF AppendStep, Others, consumerVars
<1>4. Pending' = Pending /\ Cursor' = Cursor
  BY <1>3 DEF Pending, Cursor
<1>5. OneHolder' /\ InHandIsPending' /\ HandedOut'
  BY <1>3, <1>4 DEF DeliveryInv, OneHolder, InHandIsPending, HandedOut
<1>6. NothingSkipped'
  <2>1. last \in 0..Len(log)
    BY DEF TypeOK, ServerTypeOK
  <2> QED
    BY <1>2, <1>3, <1>4, <2>1 DEF DeliveryInv, NothingSkipped
<1> QED
  BY <1>5, <1>6 DEF DeliveryInv

\* What a read hands out: the entries between the old cursor and the new one.
LEMMA ReadBatch ==
    ASSUME TypeOK, DeliveryInv, NEW c \in Consumers, Read(c)
    PROVE  /\ NextBatch = {i \in Entries : Cursor < i /\ i <= last'}
           /\ Cursor < last' /\ Cursor' = last'
           /\ Pending' = Pending \cup NextBatch
           /\ \A i \in NextBatch : i \notin Pending \cup acked
           /\ Entries = 1..Len(log) /\ Len(log) \in Nat
           /\ lost \in Nat /\ last \in Nat /\ Cursor \in Nat
<1>1. /\ Entries = 1..Len(log) /\ Len(log) \in Nat
      /\ lost \in Nat /\ last \in Nat /\ Cursor \in Nat
  BY DEF TypeOK, ServerTypeOK, Entries, Cursor
<1>2. /\ last' = IF Cursor + Count < Len(log) THEN Cursor + Count ELSE Len(log)
      /\ NextBatch # {} /\ lost' = lost
      /\ pel' = [pel EXCEPT ![c] = @ \cup NextBatch]
  BY DEF Read
<1>3. NextBatch = {i \in Entries : Cursor < i /\ i <= last'}
  BY <1>1, <1>2, ConstantsAssumption DEF NextBatch
<1>4. Cursor < last'
  BY <1>1, <1>2, <1>3, ConstantsAssumption
<1>5. Cursor' = last'
  BY <1>1, <1>2, <1>4 DEF Cursor
<1>6. Pending' = Pending \cup NextBatch
  BY <1>2 DEF Pending, TypeOK, ServerTypeOK
<1>7. \A i \in NextBatch : i \notin Pending \cup acked
  BY <1>1, <1>3 DEF DeliveryInv, HandedOut
<1> QED
  BY <1>1, <1>3, <1>4, <1>5, <1>6, <1>7

LEMMA DeliveryRead ==
    ASSUME TypeOK, DeliveryInv, NEW c \in Consumers, Read(c)
    PROVE  DeliveryInv'
<1>1. /\ NextBatch = {i \in Entries : Cursor < i /\ i <= last'}
      /\ Cursor < last' /\ Cursor' = last'
      /\ Pending' = Pending \cup NextBatch
      /\ \A i \in NextBatch : i \notin Pending \cup acked
      /\ Entries = 1..Len(log) /\ Len(log) \in Nat
      /\ lost \in Nat /\ last \in Nat /\ Cursor \in Nat
  BY ReadBatch
<1>2. /\ log' = log /\ lost' = lost /\ hasGroup' = hasGroup /\ acked' = acked
      /\ hasGroup
      /\ pel' = [pel EXCEPT ![c] = @ \cup NextBatch]
      /\ inhand' = [inhand EXCEPT ![c] = @ \cup NextBatch]
  BY DEF Read
<1>3. \A d \in Consumers : /\ pel[d] \subseteq Pending
                           /\ pel'[d] = IF d = c THEN pel[d] \cup NextBatch ELSE pel[d]
                           /\ inhand'[d] = IF d = c THEN inhand[d] \cup NextBatch
                                           ELSE inhand[d]
  BY <1>2 DEF TypeOK, ServerTypeOK, ConsumersTypeOK, Pending
<1>4. OneHolder'
  <2>1. Pending' \cap acked' = {}
    BY <1>1, <1>2 DEF DeliveryInv, OneHolder
  <2>2. \A d, e \in Consumers : d # e => pel'[d] \cap pel'[e] = {}
    <3>1. \A d \in Consumers : pel[d] \cap NextBatch = {}
      BY <1>1, <1>3
    <3> QED
      BY <1>3, <3>1 DEF DeliveryInv, OneHolder
  <2> QED
    BY <2>1, <2>2 DEF OneHolder
<1>5. NothingSkipped'
  <2> SUFFICES ASSUME NEW i \in Entries, lost < i, i <= last'
               PROVE  i \in acked \cup Pending \cup NextBatch
    BY <1>1, <1>2 DEF NothingSkipped, Entries
  <2>1. CASE Cursor < i
    BY <1>1, <2>1
  <2>2. CASE ~(Cursor < i)
    <3>1. i <= last
      BY <1>1, <2>2 DEF Cursor
    <3> QED
      BY <3>1 DEF DeliveryInv, NothingSkipped
  <2> QED
    BY <2>1, <2>2
<1>6. InHandIsPending'
  BY <1>2, <1>3 DEF DeliveryInv, InHandIsPending
<1>7. HandedOut'
  <2>1. lost <= Cursor
    BY <1>1 DEF Cursor
  <2>2. \A i \in Entries : i \in Nat
    BY <1>1
  <2>3. Pending \subseteq Entries /\ acked \subseteq Entries
    BY DEF TypeOK, ServerTypeOK, Pending
  <2>4. last' \in Nat
    BY <1>1, ConstantsAssumption DEF Read
  <2>5. \A i \in Pending' \cup acked' : i <= Cursor'
    BY <1>1, <1>2, <2>2, <2>3, <2>4 DEF DeliveryInv, HandedOut
  <2>6. \A i \in Pending' : lost' < i
    BY <1>1, <1>2, <2>1, <2>2 DEF DeliveryInv, HandedOut
  <2> QED
    BY <1>2, <2>5, <2>6 DEF HandedOut
<1> QED
  BY <1>4, <1>5, <1>6, <1>7 DEF DeliveryInv

\* A consumer that stops takes nothing from the server.
LEMMA DeliveryStop ==
    ASSUME TypeOK, DeliveryInv, NEW c \in Consumers, Stop(c), UNCHANGED serverVars
    PROVE  DeliveryInv'
BY DEF Stop, serverVars, TypeOK, ConsumersTypeOK, DeliveryInv, OneHolder,
       NothingSkipped, InHandIsPending, HandedOut, Pending, Cursor, Entries

LEMMA DeliveryAck ==
    ASSUME TypeOK, DeliveryInv, NEW c \in Consumers, NEW i \in inhand[c], Ack(c, i)
    PROVE  DeliveryInv'
<1>1. /\ log' = log /\ lost' = lost /\ hasGroup' = hasGroup /\ last' = last
      /\ pel' = [d \in Consumers |-> pel[d] \ {i}]
      /\ acked' = acked \cup ({i} \cap Pending)
      /\ inhand' = [inhand EXCEPT ![c] = @ \ {i}]
  BY DEF Ack
<1>2. Pending' = Pending \ {i}
  BY <1>1 DEF Pending
<1>3. OneHolder'
  BY <1>1, <1>2 DEF DeliveryInv, OneHolder
<1>4. NothingSkipped'
  BY <1>1, <1>2 DEF DeliveryInv, NothingSkipped, Entries
<1>5. InHandIsPending'
  <2> SUFFICES ASSUME NEW d \in Consumers, NEW j \in inhand'[d], j > lost
               PROVE  j \in pel'[d]
    BY <1>1 DEF InHandIsPending
  <2>1. j \in inhand[d] /\ (d = c => j # i)
    BY <1>1 DEF TypeOK, ConsumersTypeOK
  <2>2. j \in pel[d]
    BY <2>1 DEF DeliveryInv, InHandIsPending
  <2>3. j # i
    <3>1. CASE j = i
      <4>1. d # c /\ i \in pel[d] /\ i \in pel[c]
        BY <2>1, <2>2, <3>1 DEF DeliveryInv, InHandIsPending
      <4> QED
        BY <4>1 DEF DeliveryInv, OneHolder
    <3> QED
      BY <3>1
  <2> QED
    BY <1>1, <2>2, <2>3
<1>6. HandedOut'
  BY <1>1, <1>2 DEF DeliveryInv, HandedOut, Cursor
<1> QED
  BY <1>3, <1>4, <1>5, <1>6 DEF DeliveryInv

LEMMA DeliveryLoss ==
    ASSUME TypeOK, DeliveryInv, ServerLoss
    PROVE  DeliveryInv'
<1>1. /\ Entries = 1..Len(log) /\ Len(log) \in Nat
      /\ acked \subseteq Entries
      /\ \A c \in Consumers : inhand[c] \subseteq Entries
  BY DEF TypeOK, ServerTypeOK, ConsumersTypeOK, Entries
<1>2. /\ log' = log /\ lost' = Len(log) /\ hasGroup' = FALSE /\ last' = 0
      /\ pel' = [c \in Consumers |-> {}] /\ acked' = acked /\ inhand' = inhand
  BY DEF ServerLoss, consumerVars
<1>3. Pending' = {} /\ Cursor' = Len(log)
  BY <1>1, <1>2 DEF Pending, Cursor
<1>4. OneHolder'
  BY <1>2, <1>3 DEF OneHolder
<1>5. NothingSkipped' /\ InHandIsPending'
  BY <1>1, <1>2 DEF NothingSkipped, InHandIsPending, Entries
<1>6. HandedOut'
  <2>0. acked' \subseteq 1..Len(log) /\ Len(log) \in Nat
    BY <1>1, <1>2
  <2>1. ASSUME NEW i \in Pending' \cup acked' PROVE i <= Cursor'
    <3>1. i \in 1..Len(log)
      BY <1>3, <2>0
    <3> QED
      BY <1>3, <2>0, <3>1
  <2>2. last' = 0
    BY <1>2
  <2> QED
    BY <1>3, <2>1, <2>2 DEF HandedOut
<1> QED
  BY <1>4, <1>5, <1>6 DEF DeliveryInv

LEMMA DeliveryNext == TypeOK /\ DeliveryInv /\ [Next]_vars => DeliveryInv'
<1> SUFFICES ASSUME TypeOK, DeliveryInv, [Next]_vars PROVE DeliveryInv'
  OBVIOUS
<1>1. ASSUME NoEffect PROVE DeliveryInv'
  BY <1>1 DEF NoEffect, Others, consumerVars, DeliveryInv, OneHolder, NothingSkipped,
              InHandIsPending, HandedOut, Pending, Cursor, Entries
<1>2. ASSUME \/ \E p \in Producers : ProducerStep(p)
             \/ \E a \in limbo : LateXAdd(a)
      PROVE  DeliveryInv'
  BY <1>1, <1>2, ProducerSteps, DeliveryAppend DEF TypeOK
<1>3. ASSUME NEW c \in Consumers, Start(c) PROVE DeliveryInv'
  BY <1>3 DEF Start, serverVars, DeliveryInv, OneHolder, NothingSkipped,
              InHandIsPending, HandedOut, Pending, Cursor, Entries
<1>4. ASSUME NEW c \in Consumers, EnsureGroup(c) PROVE DeliveryInv'
  <2>1. /\ log' = log /\ lost' = lost /\ last' = last /\ pel' = pel
        /\ acked' = acked /\ inhand' = inhand /\ hasGroup'
    BY <1>4 DEF EnsureGroup, DeliveryInv, HandedOut
  <2> QED
    BY <2>1 DEF DeliveryInv, OneHolder, NothingSkipped, InHandIsPending,
                HandedOut, Pending, Cursor, Entries
<1>5. ASSUME NEW c \in Consumers, ReadNoGroup(c) PROVE DeliveryInv'
  BY <1>5, DeliveryStop DEF ReadNoGroup
<1>6. ASSUME NEW c \in Consumers, Crash(c) PROVE DeliveryInv'
  BY <1>6, DeliveryStop DEF Crash
<1>7. ASSUME UNCHANGED vars PROVE DeliveryInv'
  BY <1>1, <1>7 DEF vars, NoEffect, Others, serverVars
<1> QED
  BY <1>2, <1>3, <1>4, <1>5, <1>6, <1>7, DeliveryRead, DeliveryAck, DeliveryLoss
     DEF Next, ConsumerStep

LEMMA DeliveryInvariant == Spec => [](TypeOK /\ DeliveryInv)
BY TypeInit, TypeNext, DeliveryInit, DeliveryNext, PTL DEF Spec

\* No entry is ever pending with two consumers, or pending and acknowledged.
THEOREM OneHolderAlways == Spec => []OneHolder
BY DeliveryInvariant, PTL DEF DeliveryInv

\* The group never steps over an entry, whoever creates it and whenever.
THEOREM NothingSkippedAlways == Spec => []NothingSkipped
BY DeliveryInvariant, PTL DEF DeliveryInv

\* A running process acknowledges only what is pending under its own name.
THEOREM InHandIsPendingAlways == Spec => []InHandIsPending
BY DeliveryInvariant, PTL DEF DeliveryInv

-----------------------------------------------------------------------------
(* Order of delivery and refinement.                                       *)

\* Only a read puts entries on a pending list, and they are beyond all that
\* was handed out before.
LEMMA PendingGrows ==
    ASSUME TypeOK, DeliveryInv, [Next]_vars,
           NEW i \in Pending' \ Pending, NEW j \in Pending \cup acked
    PROVE  j < i
<1>1. ASSUME NEW c \in Consumers, Read(c) PROVE j < i
  <2>1. /\ NextBatch = {k \in Entries : Cursor < k /\ k <= last'}
        /\ Pending' = Pending \cup NextBatch
        /\ Entries = 1..Len(log) /\ Len(log) \in Nat /\ Cursor \in Nat
    BY <1>1, ReadBatch
  <2>2. j <= Cursor /\ j \in Entries
    BY DEF DeliveryInv, HandedOut, TypeOK, ServerTypeOK, Pending
  <2> QED
    BY <2>1, <2>2
<1>2. ASSUME pel' = pel PROVE FALSE
  BY <1>2 DEF Pending
<1>3. ASSUME NEW c \in Consumers, NEW k \in inhand[c], Ack(c, k) PROVE FALSE
  BY <1>3 DEF Ack, Pending
<1>4. ASSUME ServerLoss PROVE FALSE
  BY <1>4 DEF ServerLoss, Pending
<1>5. ASSUME \/ \E p \in Producers : ProducerStep(p)
             \/ \E a \in limbo : LateXAdd(a)
      PROVE  pel' = pel
  BY <1>5, ProducerSteps DEF TypeOK, AppendStep, NoEffect, Others
<1>6. ASSUME NEW c \in Consumers,
             Start(c) \/ EnsureGroup(c) \/ ReadNoGroup(c) \/ Crash(c)
      PROVE  pel' = pel
  BY <1>6 DEF Start, EnsureGroup, ReadNoGroup, Crash, serverVars
<1>7. ASSUME UNCHANGED vars PROVE pel' = pel
  BY <1>7 DEF vars, serverVars
<1> QED
  BY <1>1, <1>2, <1>3, <1>4, <1>5, <1>6, <1>7 DEF Next, ConsumerStep

\* consume() hands entries out in order and each of them once.
THEOREM DeliveredInOrderAlways == Spec => DeliveredInOrder
<1>1. TypeOK /\ DeliveryInv /\ [Next]_vars
        => [\A i \in Pending' \ Pending, j \in Pending \cup acked : j < i]_vars
  BY PendingGrows
<1> QED
  BY <1>1, DeliveryInvariant, PTL DEF Spec, DeliveredInOrder

\* Each step is a step of the broker of base.py, a data loss, or invisible.
LEMMA StepIsBrokerStep ==
    ASSUME TypeOK, DeliveryInv, [Next]_vars
    PROVE  [MB!Next \/ ServerLoss]_(MB!vars)
<1>1. ASSUME AppendStep PROVE MB!Next
  <2>1. PICK x \in Calls : log' = Append(log, x)
    BY <1>1 DEF AppendStep
  <2>2. MB!Publish(x)
    BY <1>1, <2>1 DEF AppendStep, Others, MB!Publish
  <2> QED
    BY <2>2 DEF MB!Next
<1>2. ASSUME UNCHANGED <<log, lost, pel, acked>> PROVE UNCHANGED MB!vars
  BY <1>2 DEF MB!vars
<1>3. ASSUME NEW c \in Consumers, Read(c) PROVE MB!Next
  <2>1. /\ NextBatch = {i \in Entries : Cursor < i /\ i <= last'}
        /\ Cursor < last' /\ Cursor' = last'
        /\ Pending' = Pending \cup NextBatch
        /\ \A i \in NextBatch : i \notin Pending \cup acked
        /\ Entries = 1..Len(log) /\ Len(log) \in Nat
        /\ lost \in Nat /\ last \in Nat /\ Cursor \in Nat
    BY <1>3, ReadBatch
  <2>2. lost <= Cursor /\ last <= Cursor /\ last' \in Nat
    BY <1>3, <2>1, ConstantsAssumption DEF Cursor, Read
  <2>3. MB!Fresh = Entries \ (Pending \cup acked \cup 1..lost)
    <3>1. MB!Delivered = Pending \cup acked \cup 1..lost
      BY DEF MB!Delivered, Pending
    <3> QED
      BY <3>1 DEF MB!Fresh, MB!Entries, Entries
  <2>4. NextBatch \subseteq MB!Fresh
    BY <2>1, <2>2, <2>3
  <2>5. \A i \in NextBatch, j \in MB!Fresh \ NextBatch : i < j
    <3> SUFFICES ASSUME NEW i \in NextBatch, NEW j \in MB!Fresh \ NextBatch
                 PROVE  i < j
      OBVIOUS
    <3>1. j \in Entries /\ j \notin Pending \cup acked /\ ~(j \in 1..lost)
      BY <2>3
    <3>2. ~(j <= last)
      BY <2>1, <3>1 DEF DeliveryInv, NothingSkipped
    <3>3. Cursor < j
      BY <2>1, <3>1, <3>2 DEF Cursor
    <3> QED
      BY <2>1, <2>2, <3>1, <3>3
  <2>6. NextBatch # {} /\ UNCHANGED <<log, lost, acked>>
        /\ pel' = [pel EXCEPT ![c] = @ \cup NextBatch]
    BY <1>3 DEF Read
  <2>7. MB!Deliver(c, NextBatch)
    BY <2>4, <2>5, <2>6 DEF MB!Deliver, MB!IsOldest
  <2> QED
    BY <2>4, <2>7 DEF MB!Next
<1>4. ASSUME NEW c \in Consumers, NEW i \in inhand[c], Ack(c, i)
      PROVE  MB!Next \/ UNCHANGED MB!vars
  <2>1. /\ log' = log /\ lost' = lost
        /\ pel' = [d \in Consumers |-> pel[d] \ {i}]
        /\ acked' = acked \cup ({i} \cap Pending)
        /\ pel \in [Consumers -> SUBSET Entries]
    BY <1>4 DEF Ack, TypeOK, ServerTypeOK
  <2>2. CASE i \in pel[c]
    <3>1. \A d \in Consumers : d # c => i \notin pel[d]
      BY <2>2 DEF DeliveryInv, OneHolder
    <3>2. pel' = [pel EXCEPT ![c] = @ \ {i}]
      BY <2>1, <3>1
    <3>3. acked' = acked \cup {i}
      BY <2>1, <2>2 DEF Pending
    <3>4. MB!Ack(c, i)
      BY <2>1, <2>2, <3>2, <3>3 DEF MB!Ack
    <3> QED
      BY <2>2, <3>4 DEF MB!Next
  <2>3. CASE i \notin pel[c]
    <3>1. i \in Entries /\ Entries = 1..Len(log) /\ Len(log) \in Nat /\ lost \in Nat
      BY DEF TypeOK, ServerTypeOK, ConsumersTypeOK, Entries
    <3>2. ~(i > lost)
      BY <2>3 DEF DeliveryInv, InHandIsPending
    <3>3. i \notin Pending
      BY <3>1, <3>2 DEF DeliveryInv, HandedOut
    <3>4. pel' = pel /\ acked' = acked
      BY <2>1, <3>3 DEF Pending
    <3> QED
      BY <2>1, <3>4, <1>2
  <2> QED
    BY <2>2, <2>3
<1>5. ASSUME \/ \E p \in Producers : ProducerStep(p)
             \/ \E a \in limbo : LateXAdd(a)
      PROVE  AppendStep \/ UNCHANGED <<log, lost, pel, acked>>
  BY <1>5, ProducerSteps DEF TypeOK, NoEffect, Others
<1>6. ASSUME NEW c \in Consumers,
             Start(c) \/ EnsureGroup(c) \/ ReadNoGroup(c) \/ Crash(c)
      PROVE  UNCHANGED <<log, lost, pel, acked>>
  BY <1>6 DEF Start, EnsureGroup, ReadNoGroup, Crash, serverVars
<1>7. ASSUME UNCHANGED vars PROVE UNCHANGED <<log, lost, pel, acked>>
  BY <1>7 DEF vars, serverVars
<1> QED
  BY <1>1, <1>2, <1>3, <1>4, <1>5, <1>6, <1>7 DEF Next, ConsumerStep

\* The Redis backend implements the broker of base.py, except that it never
\* redelivers and that a Redis without persistence can lose what it holds.
THEOREM RefinesBroker == Spec => ImplementsBroker
<1>1. Init => MB!Init
  BY DEF Init, MB!Init
<1>2. TypeOK /\ DeliveryInv /\ [Next]_vars => [MB!Next \/ ServerLoss]_(MB!vars)
  BY StepIsBrokerStep
<1> QED
  BY <1>1, <1>2, DeliveryInvariant, PTL DEF Spec, ImplementsBroker

-----------------------------------------------------------------------------
(* Order of publishing.                                                    *)

PublishInv == CallsBehind /\ PublishOrder

\* A first copy stays the first copy when an entry is appended, provided the
\* entry is of no call that came later than an answered one.
LEMMA AppendKeepsOrder ==
    ASSUME TypeOK, PublishOrder, NEW x \in Calls, log' = Append(log, x),
           NEW p \in Producers, NEW n \in 1..MaxCalls, Returned(p, n)
    PROVE  \E i \in Entries' :
             /\ log'[i] = <<p, n>>
             /\ \A k \in Entries' : log'[k][1] = p /\ log'[k][2] > n => i < k
<1>1. /\ Len(log) \in Nat
      /\ Entries = 1..Len(log)
      /\ Entries' = 1..(Len(log) + 1)
      /\ \A i \in Entries : log'[i] = log[i]
  BY AppendToLog DEF TypeOK, ServerTypeOK
<1>2. PICK i \in Entries :
        /\ log[i] = <<p, n>>
        /\ \A k \in Entries : log[k][1] = p /\ log[k][2] > n => i < k
  BY DEF PublishOrder
<1> QED
  BY <1>1, <1>2

LEMMA PublishNext == TypeOK /\ PublishInv /\ [Next]_vars => PublishInv'
<1> SUFFICES ASSUME TypeOK, PublishInv, [Next]_vars PROVE PublishInv'
  OBVIOUS
<1>0. /\ Len(log) \in Nat /\ Entries = 1..Len(log)
      /\ log \in Seq(Calls)
      /\ \A i \in Entries : log[i] \in Calls
      /\ \A p \in Producers : call[p] \in CallRecords /\ call[p].n \in 0..MaxCalls
  BY DEF TypeOK, ServerTypeOK, ProducersTypeOK, Entries, CallRecords
<1>1. ASSUME UNCHANGED <<log, call>>, limbo' \subseteq limbo PROVE PublishInv'
  BY <1>1 DEF PublishInv, CallsBehind, PublishOrder, Returned, Entries
<1>2. ASSUME NEW p \in Producers, StartPublish(p) PROVE PublishInv'
  <2>1. /\ log' = log /\ limbo' = limbo /\ call[p].status = "idle"
        /\ call'[p].n = call[p].n + 1 /\ call'[p].status = "trying"
        /\ \A q \in Producers \ {p} : call'[q] = call[q]
    BY <1>2 DEF StartPublish, serverVars, TypeOK, ProducersTypeOK
  <2>2. \A q \in Producers : call[q].n <= call'[q].n /\ call'[q].n \in Nat
    BY <1>0, <2>1
  <2>3. CallsBehind'
    <3>1. \A i \in Entries : log[i][1] \in Producers /\ log[i][2] \in Nat
      BY <1>0 DEF Calls
    <3>2. \A a \in limbo : a[1] \in Producers /\ a[2] \in Nat
      BY DEF TypeOK, ProducersTypeOK, Attempts
    <3>3. \A q \in Producers, m \in Nat : m <= call[q].n => m <= call'[q].n
      BY <1>0, <2>2
    <3>4. \A i \in Entries : log[i][2] <= call'[log[i][1]].n
      BY <3>1, <3>3 DEF PublishInv, CallsBehind
    <3>5. \A a \in limbo : a[2] <= call'[a[1]].n
      BY <3>2, <3>3 DEF PublishInv, CallsBehind
    <3> QED
      BY <2>1, <3>4, <3>5 DEF CallsBehind, Entries
  <2>4. \A q \in Producers : \A n \in 1..MaxCalls : Returned(q, n)' => Returned(q, n)
    BY <1>0, <2>1 DEF Returned
  <2> QED
    BY <2>1, <2>3, <2>4 DEF PublishInv, PublishOrder, Entries
<1>3. ASSUME NEW p \in Producers, XAddOk(p) PROVE PublishInv'
  <2>1. /\ limbo' = limbo /\ call[p].status = "trying"
        /\ \A q \in Producers : call'[q].n = call[q].n
        /\ \A q \in Producers \ {p} : call'[q] = call[q]
    BY <1>3 DEF XAddOk, TypeOK, ProducersTypeOK, CallRecords
  <2>2. call[p].n \in 1..MaxCalls
    BY <1>0, <2>1 DEF TypeOK, ProducersTypeOK
  <2>3. <<p, call[p].n>> \in Calls /\ log' = Append(log, <<p, call[p].n>>)
    BY <1>3, <2>2 DEF XAddOk, Calls
  <2>4. /\ Entries' = 1..(Len(log) + 1)
        /\ \A i \in Entries : log'[i] = log[i]
        /\ log'[Len(log) + 1] = <<p, call[p].n>>
    BY <1>0, <2>3, AppendToLog
  <2>5. CallsBehind'
    <3>1. ASSUME NEW i \in Entries' PROVE log'[i][2] <= call'[log'[i][1]].n
      <4>1. CASE i \in Entries
        BY <1>0, <2>1, <2>4, <4>1 DEF PublishInv, CallsBehind, Calls
      <4>2. CASE i = Len(log) + 1
        BY <2>1, <2>2, <2>4, <4>2
      <4> QED
        BY <1>0, <2>4, <4>1, <4>2
    <3>2. \A a \in limbo' : a[2] <= call'[a[1]].n
      BY <2>1 DEF PublishInv, CallsBehind, TypeOK, ProducersTypeOK, Attempts
    <3> QED
      BY <3>1, <3>2 DEF CallsBehind
  <2>6. PublishOrder'
    <3> SUFFICES ASSUME NEW q \in Producers, NEW n \in 1..MaxCalls, Returned(q, n)'
                 PROVE  \E i \in Entries' :
                          /\ log'[i] = <<q, n>>
                          /\ \A k \in Entries' :
                                log'[k][1] = q /\ log'[k][2] > n => i < k
      BY DEF PublishOrder
    <3>1. CASE Returned(q, n)
      BY <2>3, <3>1, AppendKeepsOrder DEF PublishInv
    <3>2. CASE ~Returned(q, n)
      <4>1. q = p /\ n = call[p].n
        BY <2>1, <3>2 DEF Returned
      <4>2. log'[Len(log) + 1] = <<q, n>> /\ Len(log) + 1 \in Entries'
        BY <1>0, <2>4, <4>1
      <4>3. \A k \in Entries' : log'[k][1] = q => ~(log'[k][2] > n)
        <5> SUFFICES ASSUME NEW k \in Entries', log'[k][1] = q
                     PROVE  ~(log'[k][2] > n)
          OBVIOUS
        <5>1. CASE k \in Entries
          <6>1. log[k][2] \in Nat /\ log[k][2] <= call[p].n
            BY <1>0, <2>4, <4>1, <5>1 DEF PublishInv, CallsBehind, Calls
          <6> QED
            BY <2>4, <4>1, <5>1, <6>1
        <5>2. CASE k = Len(log) + 1
          BY <2>2, <4>1, <4>2, <5>2
        <5> QED
          BY <1>0, <2>4, <5>1, <5>2
      <4> QED
        BY <4>2, <4>3
    <3> QED
      BY <3>1, <3>2
  <2> QED
    BY <2>5, <2>6 DEF PublishInv
<1>4. ASSUME NEW p \in Producers, XAddConnectionError(p) \/ XAddOtherError(p)
      PROVE  PublishInv'
  <2>1. /\ log' = log /\ call[p].status = "trying"
        /\ \A q \in Producers : call'[q].n = call[q].n
        /\ \A q \in Producers : call'[q].status = "idle" => call[q].status = "idle"
        /\ limbo' = limbo \cup {<<p, call[p].n, call[p].attempt>>}
    BY <1>4 DEF XAddConnectionError, XAddOtherError, Unanswered, serverVars,
                TypeOK, ProducersTypeOK, CallRecords
  <2>2. CallsBehind'
    <3>1. \A i \in Entries : log[i][1] \in Producers
      BY <1>0 DEF Calls
    <3>2. \A a \in limbo : a[1] \in Producers
      BY DEF TypeOK, ProducersTypeOK, Attempts
    <3> QED
      BY <1>0, <2>1, <3>1, <3>2 DEF PublishInv, CallsBehind, Entries
  <2>3. \A q \in Producers : \A n \in 1..MaxCalls : Returned(q, n)' => Returned(q, n)
    BY <1>0, <2>1 DEF Returned
  <2> QED
    BY <2>1, <2>2, <2>3 DEF PublishInv, PublishOrder, Entries
<1>5. ASSUME NEW a \in limbo, LateXAdd(a) PROVE PublishInv'
  <2>1. /\ limbo' \subseteq limbo /\ call' = call
        /\ <<a[1], a[2]>> \in Calls /\ log' = Append(log, <<a[1], a[2]>>)
        /\ a[1] \in Producers /\ a[2] \in Nat
        /\ a[2] <= call[a[1]].n
    BY <1>5 DEF LateXAdd, TypeOK, ProducersTypeOK, Attempts, Calls, PublishInv,
                CallsBehind
  <2>2. /\ Entries' = 1..(Len(log) + 1)
        /\ \A i \in Entries : log'[i] = log[i]
        /\ log'[Len(log) + 1] = <<a[1], a[2]>>
    BY <1>0, <2>1, AppendToLog
  <2>3. CallsBehind'
    <3>1. ASSUME NEW i \in Entries' PROVE log'[i][2] <= call'[log'[i][1]].n
      <4>1. CASE i \in Entries
        BY <2>1, <2>2, <4>1 DEF PublishInv, CallsBehind
      <4>2. CASE i = Len(log) + 1
        BY <2>1, <2>2, <4>2
      <4> QED
        BY <1>0, <2>2, <4>1, <4>2
    <3> QED
      BY <2>1, <3>1 DEF PublishInv, CallsBehind
  <2>4. PublishOrder'
    BY <2>1, AppendKeepsOrder DEF PublishInv, PublishOrder, Returned
  <2> QED
    BY <2>3, <2>4 DEF PublishInv
<1>6. ASSUME ServerLoss PROVE PublishInv'
  BY <1>1, <1>6 DEF ServerLoss
<1>7. ASSUME NEW c \in Consumers, ConsumerStep(c) \/ Crash(c) PROVE PublishInv'
  BY <1>1, <1>7 DEF ConsumerStep, Start, EnsureGroup, Read, ReadNoGroup, Ack,
                    Crash, serverVars, producerVars
<1>8. ASSUME UNCHANGED vars PROVE PublishInv'
  BY <1>1, <1>8 DEF vars, serverVars, producerVars
<1> QED
  BY <1>2, <1>3, <1>4, <1>5, <1>6, <1>7, <1>8 DEF Next, ProducerStep

\* Whatever the retries do, messages of one producer that were published for
\* sure stand on the stream in the order of the publish() calls.
THEOREM PublishOrderAlways == Spec => []PublishOrder
<1>1. Init => PublishInv
  BY DEF Init, PublishInv, CallsBehind, PublishOrder, Returned, Entries
<1> QED
  BY <1>1, TypeInit, TypeNext, PublishNext, PTL DEF Spec, PublishInv

-----------------------------------------------------------------------------
(* Copies.                                                                 *)

Copies(x) == {i \in Entries : log[i] = x}
Waiting(x) == {a \in limbo : <<a[1], a[2]>> = x}

\* The attempts made for a call that are over.
Tried(x) ==
    IF x[2] > call[x[1]].n THEN 0
    ELSE IF x[2] = call[x[1]].n /\ call[x[1]].status = "trying"
    THEN call[x[1]].attempt
    ELSE MaxRetries

\* An attempt that is over became an entry, waits to become one, or did nothing:
\* with those that wait the bound on the copies is inductive.
Counted(x) ==
    /\ IsFiniteSet(Copies(x)) /\ IsFiniteSet(Waiting(x))
    /\ Cardinality(Copies(x)) + Cardinality(Waiting(x)) <= Tried(x)

CountInv == \A x \in Calls : Counted(x)

LEMMA CountInit == Init => CountInv
<1> SUFFICES ASSUME Init, NEW x \in Calls PROVE Counted(x)
  BY DEF CountInv
<1>1. Copies(x) = {} /\ Waiting(x) = {}
  BY DEF Init, Copies, Waiting, Entries
<1>2. Tried(x) = 0
  BY DEF Init, Tried, Calls
<1> QED
  BY <1>1, <1>2, FS_EmptySet DEF Counted

LEMMA TriedType ==
    ASSUME TypeOK, NEW x \in Calls
    PROVE  Tried(x) \in 0..MaxRetries
<1>1. x[1] \in Producers /\ x[2] \in Nat /\ call[x[1]] \in CallRecords
  BY DEF Calls, TypeOK, ProducersTypeOK
<1> QED
  BY <1>1, ConstantsAssumption DEF Tried, CallRecords

\* The attempt a producer has under way is not among those that are over.
LEMMA TryUnderWay ==
    ASSUME TypeOK, NEW p \in Producers, call[p].status = "trying"
    PROVE  /\ <<p, call[p].n>> \in Calls
           /\ Tried(<<p, call[p].n>>) = call[p].attempt
           /\ call[p].attempt + 1 \in 1..MaxRetries
           /\ call[p] \in CallRecords
<1>1. call[p] \in CallRecords /\ call[p].n # 0
  BY DEF TypeOK, ProducersTypeOK
<1>2. call[p].n \in 1..MaxCalls /\ call[p].attempt \in 0..MaxRetries-1
  BY <1>1 DEF CallRecords
<1>3. <<p, call[p].n>> \in Calls
  BY <1>2 DEF Calls
<1>4. Tried(<<p, call[p].n>>) = call[p].attempt
  BY <1>2 DEF Tried
<1>5. call[p].attempt + 1 \in 1..MaxRetries
  BY <1>2, ConstantsAssumption
<1> QED
  BY <1>1, <1>3, <1>4, <1>5

\* An attempt more is over after a step of its producer; nothing changes for
\* other calls.
LEMMA TryIsOver ==
    ASSUME TypeOK, NEW p \in Producers, call[p].status = "trying",
           NEW x \in Calls, x = <<p, call[p].n>>,
           \/ call' = [call EXCEPT ![p].attempt = @ + 1]
           \/ \E s \in {"idle", "raised"} : call' = [call EXCEPT ![p].status = s]
    PROVE  /\ Tried(x)' >= call[p].attempt + 1
           /\ \A y \in Calls \ {x} : Tried(y)' = Tried(y)
<1>1. /\ call[p].attempt + 1 \in 1..MaxRetries
      /\ call \in [Producers -> CallRecords] /\ MaxRetries \in Nat
  BY TryUnderWay, ConstantsAssumption DEF TypeOK, ProducersTypeOK
<1>2. /\ call'[p].n = call[p].n /\ call[p].n \in Nat
      /\ \/ call'[p].attempt = call[p].attempt + 1 /\ call'[p].status = "trying"
         \/ call'[p].status \in {"idle", "raised"}
      /\ \A q \in Producers \ {p} : call'[q] = call[q]
  BY <1>1 DEF CallRecords
<1>3. Tried(x)' = IF call'[p].status = "trying" THEN call'[p].attempt
                                                              ELSE MaxRetries
  BY <1>2 DEF Tried
<1>4. Tried(x)' >= call[p].attempt + 1
  BY <1>1, <1>2, <1>3
<1>5. ASSUME NEW y \in Calls \ {x} PROVE Tried(y)' = Tried(y)
  <2>1. y = <<y[1], y[2]>> /\ y[1] \in Producers /\ y[2] \in Nat
    BY DEF Calls
  <2>2. CASE y[1] = p
    <3>1. y[2] # call[p].n
      BY <1>5, <2>1, <2>2
    <3> QED
      BY <1>2, <2>1, <2>2, <3>1 DEF Tried
  <2>3. CASE y[1] # p
    BY <1>2, <2>1, <2>3 DEF Tried
  <2> QED
    BY <2>2, <2>3
<1> QED
  BY <1>4, <1>5

LEMMA CountedElsewhere ==
    ASSUME TypeOK, NEW x \in Calls, Counted(x),
           Copies(x)' = Copies(x), Waiting(x)' = Waiting(x),
           Tried(x)' >= Tried(x), Tried(x)' \in Nat
    PROVE  Counted(x)'
<1>1. /\ Cardinality(Copies(x)) \in Nat /\ Cardinality(Waiting(x)) \in Nat
  BY FS_CardinalityType DEF Counted
<1>2. Tried(x) \in Nat
  BY TriedType, ConstantsAssumption
<1> QED
  BY <1>1, <1>2 DEF Counted

\* One more is counted where one more attempt is over.
LEMMA MoreCounted ==
    ASSUME TypeOK, NEW x \in Calls, Counted(x), Tried(x)' \in Nat,
           Tried(x)' >= Tried(x) + 1,
           IsFiniteSet(Copies(x)'), IsFiniteSet(Waiting(x)'),
           \/ /\ Waiting(x)' = Waiting(x)
              /\ Cardinality(Copies(x)') = Cardinality(Copies(x)) + 1
           \/ /\ Copies(x)' = Copies(x)
              /\ Cardinality(Waiting(x)') <= Cardinality(Waiting(x)) + 1
    PROVE  Counted(x)'
<1>1. /\ Cardinality(Copies(x)) \in Nat /\ Cardinality(Waiting(x)) \in Nat
      /\ Cardinality(Copies(x)') \in Nat /\ Cardinality(Waiting(x)') \in Nat
  BY FS_CardinalityType DEF Counted
<1>2. Tried(x) \in Nat
  BY TriedType, ConstantsAssumption
<1> QED
  BY <1>1, <1>2 DEF Counted

\* XADD adds one copy of its message.
LEMMA OneCopy ==
    ASSUME log \in Seq(Calls), NEW x \in Calls, log' = Append(log, x)
    PROVE  /\ IsFiniteSet(Copies(x)) =>
                /\ IsFiniteSet(Copies(x)')
                /\ Cardinality(Copies(x)') = Cardinality(Copies(x)) + 1
           /\ \A y \in Calls \ {x} : Copies(y)' = Copies(y)
<1>1. /\ Len(log) \in Nat /\ Entries = 1..Len(log)
      /\ Entries' = 1..(Len(log) + 1)
      /\ \A i \in Entries : log'[i] = log[i]
      /\ log'[Len(log) + 1] = x
  BY AppendToLog
<1>2. /\ Entries' = Entries \cup {Len(log) + 1}
      /\ Len(log) + 1 \notin Entries
  BY <1>1
<1>3. Copies(x)' = Copies(x) \cup {Len(log) + 1} /\ Len(log) + 1 \notin Copies(x)
  BY <1>1, <1>2 DEF Copies
<1>4. \A y \in Calls \ {x} : Copies(y)' = Copies(y)
  BY <1>1, <1>2 DEF Copies
<1> QED
  BY <1>3, <1>4, FS_AddElement

\* XADD that is not answered leaves one attempt to wait.
LEMMA OneWaits ==
    ASSUME NEW p \in Producers, Unanswered(p), NEW x \in Calls, x = <<p, call[p].n>>
    PROVE  /\ IsFiniteSet(Waiting(x)) =>
                /\ IsFiniteSet(Waiting(x)')
                /\ Cardinality(Waiting(x)') <= Cardinality(Waiting(x)) + 1
           /\ \A y \in Calls \ {x} : Waiting(y)' = Waiting(y)
<1> DEFINE a == <<p, x[2], call[p].attempt>>
<1>1. limbo' = limbo \cup {a} /\ <<a[1], a[2]>> = x
  BY DEF Unanswered
<1> HIDE DEF a
<1>2. Waiting(x)' = Waiting(x) \cup {a}
  BY <1>1 DEF Waiting
<1>3. \A y \in Calls \ {x} : Waiting(y)' = Waiting(y)
  BY <1>1 DEF Waiting
<1>4. ASSUME IsFiniteSet(Waiting(x))
      PROVE  /\ IsFiniteSet(Waiting(x) \cup {a})
             /\ Cardinality(Waiting(x) \cup {a}) <= Cardinality(Waiting(x)) + 1
  BY <1>4, FS_AddElement, FS_CardinalityType
<1> QED
  BY <1>2, <1>3, <1>4

LEMMA CountNext == TypeOK /\ CountInv /\ [Next]_vars => CountInv'
<1> SUFFICES ASSUME TypeOK, CountInv, [Next]_vars PROVE CountInv'
  OBVIOUS
<1>1. /\ log \in Seq(Calls) /\ limbo \subseteq Attempts
      /\ call \in [Producers -> CallRecords] /\ MaxRetries \in Nat \ {0}
      /\ \A x \in Calls : Counted(x)
      /\ \A x \in Calls : Tried(x) \in Nat
  BY TriedType, ConstantsAssumption
     DEF TypeOK, ProducersTypeOK, ServerTypeOK, CountInv
<1>2. \A x \in Calls : Tried(x)' \in Nat
  <2>1. TypeOK'
    BY TypeNext
  <2>2. ASSUME NEW x \in Calls PROVE Tried(x)' \in Nat
    <3>1. x[1] \in Producers /\ x[2] \in Nat /\ call'[x[1]] \in CallRecords
      BY <2>1 DEF Calls, TypeOK, ProducersTypeOK
    <3> QED
      BY <1>1, <3>1 DEF Tried, CallRecords
  <2> QED
    BY <2>2
<1>3. ASSUME UNCHANGED <<log, limbo, call>> PROVE CountInv'
  <2>1. \A x \in Calls : /\ Copies(x)' = Copies(x) /\ Waiting(x)' = Waiting(x)
                          /\ Tried(x)' = Tried(x)
    BY <1>3 DEF Copies, Waiting, Tried, Entries
  <2> QED
    BY <1>1, <2>1 DEF CountInv, Counted
<1>4. ASSUME NEW p \in Producers, StartPublish(p) PROVE CountInv'
  <2>1. /\ UNCHANGED <<log, limbo>> /\ call[p].status = "idle"
        /\ call'[p] = [n |-> call[p].n + 1, attempt |-> 0, status |-> "trying"]
        /\ \A q \in Producers \ {p} : call'[q] = call[q]
        /\ call[p].n \in Nat
    BY <1>1, <1>4 DEF StartPublish, serverVars, CallRecords
  <2>2. ASSUME NEW x \in Calls PROVE Tried(x)' >= Tried(x)
    <3>1. x[1] \in Producers /\ x[2] \in Nat
      BY DEF Calls
    <3>2. CASE x[1] = p
      <4>1. Tried(x) = IF x[2] > call[p].n THEN 0 ELSE MaxRetries
        BY <2>1, <3>1, <3>2 DEF Tried
      <4>2. Tried(x)' = IF x[2] > call[p].n + 1 THEN 0
                        ELSE IF x[2] = call[p].n + 1 THEN 0 ELSE MaxRetries
        BY <2>1, <3>1, <3>2 DEF Tried
      <4> QED
        BY <1>1, <2>1, <3>1, <4>1, <4>2
    <3>3. CASE x[1] # p
      <4>1. Tried(x)' = Tried(x)
        BY <2>1, <3>1, <3>3 DEF Tried
      <4> QED
        BY <1>1, <4>1
    <3> QED
      BY <3>2, <3>3
  <2>3. \A x \in Calls : Copies(x)' = Copies(x) /\ Waiting(x)' = Waiting(x)
    BY <2>1 DEF Copies, Waiting, Entries
  <2> QED
    BY <1>1, <1>2, <2>2, <2>3, CountedElsewhere DEF CountInv
<1>5. ASSUME NEW p \in Producers, XAddOk(p) PROVE CountInv'
  <2>1. PICK x \in Calls : x = <<p, call[p].n>>
    BY <1>5, TryUnderWay DEF XAddOk
  <2>2. /\ log' = Append(log, x) /\ limbo' = limbo /\ call[p].status = "trying"
        /\ call' = [call EXCEPT ![p].status = "idle"]
    BY <1>5, <2>1 DEF XAddOk
  <2>3. /\ Tried(x)' >= call[p].attempt + 1 /\ Tried(x) = call[p].attempt
        /\ \A y \in Calls \ {x} : Tried(y)' = Tried(y)
    BY <2>1, <2>2, TryIsOver, TryUnderWay
  <2>4. \A y \in Calls : Waiting(y)' = Waiting(y)
    BY <2>2 DEF Waiting
  <2>5. ASSUME NEW y \in Calls \ {x} PROVE Counted(y)'
    <3>1. Copies(y)' = Copies(y)
      BY <1>1, <2>2, OneCopy
    <3> QED
      BY <1>1, <1>2, <2>3, <2>4, <3>1, CountedElsewhere
  <2>6. Counted(x)'
    BY <1>1, <1>2, <2>2, <2>3, <2>4, OneCopy, MoreCounted DEF Counted
  <2> QED
    BY <2>5, <2>6 DEF CountInv
<1>6. ASSUME NEW p \in Producers, XAddConnectionError(p) \/ XAddOtherError(p)
      PROVE  CountInv'
  <2>1. PICK x \in Calls : x = <<p, call[p].n>>
    BY <1>6, TryUnderWay DEF XAddConnectionError, XAddOtherError
  <2>2. /\ log' = log /\ Unanswered(p) /\ call[p].status = "trying"
        /\ \/ call' = [call EXCEPT ![p].attempt = @ + 1]
           \/ \E s \in {"idle", "raised"} : call' = [call EXCEPT ![p].status = s]
    BY <1>6 DEF XAddConnectionError, XAddOtherError, serverVars
  <2>3. /\ Tried(x)' >= call[p].attempt + 1 /\ Tried(x) = call[p].attempt
        /\ \A y \in Calls \ {x} : Tried(y)' = Tried(y)
    BY <2>1, <2>2, TryIsOver, TryUnderWay
  <2>4. \A y \in Calls : Copies(y)' = Copies(y)
    BY <2>2 DEF Copies, Entries
  <2>5. ASSUME NEW y \in Calls \ {x} PROVE Counted(y)'
    <3>1. Waiting(y)' = Waiting(y)
      BY <2>1, <2>2, OneWaits
    <3> QED
      BY <1>1, <1>2, <2>3, <2>4, <3>1, CountedElsewhere
  <2>6. Counted(x)'
    BY <1>1, <1>2, <2>1, <2>2, <2>3, <2>4, OneWaits, MoreCounted DEF Counted
  <2> QED
    BY <2>5, <2>6 DEF CountInv
<1>7. ASSUME NEW a \in limbo, LateXAdd(a) PROVE CountInv'
  <2>1. PICK x \in Calls : x = <<a[1], a[2]>>
    BY <1>1 DEF Attempts, Calls
  <2>2. log' = Append(log, x) /\ limbo' = limbo \ {a} /\ call' = call
    BY <1>7, <2>1 DEF LateXAdd
  <2>3. /\ Waiting(x)' = Waiting(x) \ {a} /\ a \in Waiting(x)
        /\ \A y \in Calls \ {x} : Waiting(y)' = Waiting(y)
    BY <2>1, <2>2 DEF Waiting
  <2>4. \A y \in Calls : Tried(y)' = Tried(y)
    BY <2>2 DEF Tried
  <2>5. ASSUME NEW y \in Calls \ {x} PROVE Counted(y)'
    <3>1. Copies(y)' = Copies(y)
      BY <1>1, <2>2, OneCopy
    <3> QED
      BY <1>1, <1>2, <2>3, <2>4, <3>1, CountedElsewhere
  <2>6. Counted(x)'
    <3>1. Counted(x)
      BY <1>1
    <3>2. /\ IsFiniteSet(Copies(x)')
          /\ Cardinality(Copies(x)') = Cardinality(Copies(x)) + 1
      BY <1>1, <2>2, <3>1, OneCopy DEF Counted
    <3>3. /\ IsFiniteSet(Waiting(x)')
          /\ Cardinality(Waiting(x)') = Cardinality(Waiting(x)) - 1
      BY <2>3, <3>1, FS_RemoveElement DEF Counted
    <3>4. Cardinality(Copies(x)) \in Nat /\ Cardinality(Waiting(x)) \in Nat
      BY <3>1, FS_CardinalityType DEF Counted
    <3> QED
      BY <1>1, <2>4, <3>1, <3>2, <3>3, <3>4 DEF Counted
  <2> QED
    BY <2>5, <2>6 DEF CountInv
<1>8. ASSUME ServerLoss PROVE CountInv'
  <2>1. log' = log /\ limbo' = {} /\ call' = call
    BY <1>8 DEF ServerLoss
  <2>2. ASSUME NEW x \in Calls PROVE Counted(x)'
    <3>1. Copies(x)' = Copies(x) /\ Waiting(x)' = {} /\ Tried(x)' = Tried(x)
      BY <2>1 DEF Copies, Waiting, Tried, Entries
    <3>2. Counted(x) /\ Tried(x) \in Nat
      BY <1>1
    <3>3. Cardinality(Copies(x)) \in Nat /\ Cardinality(Waiting(x)) \in Nat
      BY <3>2, FS_CardinalityType DEF Counted
    <3> QED
      BY <3>1, <3>2, <3>3, FS_EmptySet DEF Counted
  <2> QED
    BY <2>2 DEF CountInv
<1>9. ASSUME NEW c \in Consumers, ConsumerStep(c) \/ Crash(c) PROVE CountInv'
  BY <1>3, <1>9 DEF ConsumerStep, Start, EnsureGroup, Read, ReadNoGroup, Ack,
                    Crash, serverVars, producerVars
<1>10. ASSUME UNCHANGED vars PROVE CountInv'
  BY <1>3, <1>10 DEF vars, serverVars, producerVars
<1> QED
  BY <1>4, <1>5, <1>6, <1>7, <1>8, <1>9, <1>10 DEF Next, ProducerStep

\* Retries and answers that were lost duplicate a message, but never into more
\* copies than there are attempts: XADDs that land late are counted too.
THEOREM BoundedCopiesAlways == Spec => []BoundedCopies
<1>1. TypeOK /\ CountInv => BoundedCopies
  <2> SUFFICES ASSUME TypeOK, CountInv, NEW x \in Calls
               PROVE  Cardinality(Copies(x)) <= MaxRetries
    BY DEF BoundedCopies, Copies
  <2>1. Counted(x) /\ Tried(x) \in 0..MaxRetries /\ MaxRetries \in Nat
    BY TriedType, ConstantsAssumption DEF CountInv
  <2>2. Cardinality(Copies(x)) \in Nat /\ Cardinality(Waiting(x)) \in Nat
    BY <2>1, FS_CardinalityType DEF Counted
  <2> QED
    BY <2>1, <2>2 DEF Counted
<1> QED
  BY <1>1, CountInit, CountNext, TypeInit, TypeNext, PTL DEF Spec
=============================================================================
