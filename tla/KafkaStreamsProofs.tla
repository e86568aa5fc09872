------------------------- MODULE KafkaStreamsProofs -------------------------
(***************************************************************************)
(* Proofs, for any number of partitions, consumers, calls and faults, of   *)
(* what KafkaBroker guarantees of its partitions and of its calls.         *)
(***************************************************************************)
EXTENDS KafkaStreamsProperties, TLAPS

-----------------------------------------------------------------------------
(* Types.                                                                  *)

LEMMA TypeInit == Init => TypeOK
<1> SUFFICES ASSUME Init PROVE TypeOK
  OBVIOUS
<1>1. /\ topic \in [Partitions -> Seq(1..MaxCalls)]
      /\ position \in [Partitions -> Nat] /\ committed \in [Partitions -> Nat]
      /\ owner \in [Partitions -> Consumers \cup {Nobody}]
      /\ inhand \in [Consumers -> SUBSET (Partitions \X Nat)]
  BY DEF Init
<1>2. calls \in 0..MaxCalls
  BY KafkaAssumption DEF Init
<1>3. flushing \in BOOLEAN
  BY DEF Init
<1>4. /\ partitionOf \in KeyHashes
      /\ outbox = {} /\ stray = {} /\ doubtful = {} /\ subscribed = {}
      /\ mute = {} /\ acking = {}
      /\ threaded \in BOOLEAN
  BY KafkaAssumption DEF Init
<1> QED
  BY <1>1, <1>2, <1>3, <1>4 DEF TypeOK

LEMMA StoredTypes ==
    ASSUME TypeOK, NEW x \in 1..MaxCalls, Stored(x)
    PROVE  /\ topic' \in [Partitions -> Seq(1..MaxCalls)]
           /\ partitionOf' \in KeyHashes
           /\ partitionOf[x] \in Partitions
           /\ topic'[partitionOf[x]] = Append(topic[partitionOf[x]], x)
           /\ \A p \in Partitions \ {partitionOf[x]} : topic'[p] = topic[p]
<1>1. partitionOf[x] \in Partitions
  BY KafkaAssumption DEF TypeOK
<1>2. Append(topic[partitionOf[x]], x) \in Seq(1..MaxCalls)
  BY <1>1 DEF TypeOK
<1> QED
  BY <1>1, <1>2 DEF TypeOK, Stored

LEMMA AssignTypes ==
    ASSUME TypeOK, Assign
    PROVE  TypeOK'
<1>1. owner' \in [Partitions -> Consumers \cup {Nobody}]
  BY DEF TypeOK, Assign, Balanced
<1>2. position' \in [Partitions -> Nat]
  BY DEF TypeOK, Assign, ResumeAt
<1> QED
  BY <1>1, <1>2 DEF TypeOK, Assign, producerVars, processVars

\* The death of a process, and the end of its acknowledging thread.
LEMMA DiesTypes ==
    ASSUME TypeOK, NEW c \in Consumers, Dies(c),
           UNCHANGED <<topic, producerVars, position, committed, threaded>>
    PROVE  TypeOK'
<1>1. owner' \in [Partitions -> Consumers \cup {Nobody}]
  BY DEF Dies, Released, TypeOK
<1>2. inhand' \in [Consumers -> SUBSET (Partitions \X Nat)]
  BY DEF Dies, TypeOK
<1> QED
  BY <1>1, <1>2 DEF Dies, TypeOK, producerVars

LEMMA ThreadEndsTypes ==
    ASSUME TypeOK, NEW c \in Consumers, ThreadEnds(c),
           UNCHANGED <<topic, producerVars, position, committed, threaded>>
    PROVE  TypeOK'
<1>1. CASE Dies(c)
  BY <1>1, DiesTypes
<1>2. CASE UNCHANGED <<owner, subscribed, acking, inhand>> /\ mute' = mute \cup {c}
  BY <1>2 DEF TypeOK, producerVars
<1> QED
  BY <1>1, <1>2 DEF ThreadEnds

LEMMA TypeNext == TypeOK /\ [Next]_vars => TypeOK'
<1> SUFFICES ASSUME TypeOK, [Next]_vars PROVE TypeOK'
  OBVIOUS
<1>1. CASE Produce
  BY <1>1, KafkaAssumption DEF Produce, TypeOK, groupVars, processVars
<1>2. CASE FlushReturns
  BY <1>2 DEF FlushReturns, TypeOK, groupVars, processVars
<1>3. ASSUME NEW x \in outbox, Deliver(x) PROVE TypeOK'
  BY <1>3, StoredTypes DEF Deliver, TypeOK, groupVars, processVars
<1>4. ASSUME NEW x \in outbox, Resend(x) PROVE TypeOK'
  BY <1>4 DEF Resend, TypeOK, groupVars, processVars
<1>5. ASSUME NEW x \in outbox, DeliveryFails(x) PROVE TypeOK'
  BY <1>5 DEF DeliveryFails, TypeOK, groupVars, processVars
<1>6. ASSUME NEW x \in stray, LateDeliver(x) PROVE TypeOK'
  BY <1>6, StoredTypes DEF LateDeliver, TypeOK, groupVars, processVars
<1>7. ASSUME NEW c \in Consumers, Subscribe(c) PROVE TypeOK'
  BY <1>7 DEF Subscribe, TypeOK, producerVars, groupVars
<1>8. ASSUME NEW c \in Consumers, Consume(c) PROVE TypeOK'
  BY <1>8 DEF Consume, TypeOK, producerVars
<1>9. ASSUME NEW c \in Consumers, Ack(c) PROVE TypeOK'
  <2>1. PICK r \in inhand[c] : committed' = CommittedBy(c, r)
                              /\ inhand' = [inhand EXCEPT ![c] = @ \ {r}]
    BY <1>9 DEF Ack
  <2>2. committed' \in [Partitions -> Nat]
    BY <2>1 DEF CommittedBy, TypeOK
  <2>3. inhand' \in [Consumers -> SUBSET (Partitions \X Nat)]
    BY <2>1 DEF TypeOK
  <2> QED
    BY <1>9, <2>2, <2>3 DEF Ack, TypeOK, producerVars
<1>10. ASSUME NEW c \in Consumers, Crash(c) PROVE TypeOK'
  BY <1>10, DiesTypes DEF Crash
<1>13. ASSUME NEW c \in Consumers, AckRaises(c) \/ ThreadFails(c) PROVE TypeOK'
  BY <1>13, ThreadEndsTypes DEF AckRaises, ThreadFails
<1>11. CASE Rebalance \/ Expel
  BY <1>11, AssignTypes DEF Rebalance, Expel
<1>12. CASE UNCHANGED vars
  BY <1>12 DEF TypeOK, vars, producerVars, groupVars, processVars
<1> QED
  BY <1>1, <1>2, <1>3, <1>4, <1>5, <1>6, <1>7, <1>8, <1>9, <1>10, <1>11, <1>12,
     <1>13
     DEF Next, ProducerStep, ConsumerStep

\* The type invariant of the Kafka broker.
THEOREM TypeCorrect == Spec => []TypeOK
BY TypeInit, TypeNext, PTL DEF Spec

-----------------------------------------------------------------------------
(* What the group commits and where its readers stand.                     *)

\* The two properties hold each other up: a commit goes as far as the reader's
\* position, and everything up to there that was not committed before is in
\* the reader's hand.
GroupInv == CommittedWasHandled /\ NothingSkipped

LEMMA GroupInit == Init => GroupInv
<1> SUFFICES ASSUME Init PROVE GroupInv
  OBVIOUS
<1>1. \A p \in Partitions : committed[p] = 0 /\ owner[p] = Nobody
  BY DEF Init
<1> QED
  BY <1>1 DEF GroupInv, CommittedWasHandled, NothingSkipped

\* Steps that leave the group and its processes alone.
LEMMA GroupElsewhere ==
    ASSUME GroupInv, UNCHANGED <<owner, position, committed, inhand, handled>>
    PROVE  GroupInv'
BY DEF GroupInv, CommittedWasHandled, NothingSkipped, InHand

\* A partition that changes hands is read again from its commit.
LEMMA GroupAssign ==
    ASSUME TypeOK, GroupInv, Assign
    PROVE  GroupInv'
<1>1. CommittedWasHandled'
  BY DEF GroupInv, CommittedWasHandled, InHand, Assign, processVars
<1>2. \A p \in Partitions : position'[p] = committed'[p] /\ committed'[p] \in Nat
  BY DEF TypeOK, Assign, ResumeAt
<1>3. NothingSkipped'
  <2> SUFFICES ASSUME NEW p \in Partitions,
                      NEW i \in (committed'[p] + 1)..position'[p]
               PROVE  FALSE
    BY DEF NothingSkipped
  <2> QED
    BY <1>2
<1> QED
  BY <1>1, <1>3 DEF GroupInv

LEMMA GroupConsume ==
    ASSUME TypeOK, GroupInv, NEW c \in Consumers, Consume(c)
    PROVE  GroupInv'
<1> PICK p \in Partitions :
      /\ owner[p] = c
      /\ position' = [position EXCEPT ![p] = @ + 1]
      /\ inhand' = [inhand EXCEPT ![c] = @ \cup {<<p, position[p] + 1>>}]
  BY DEF Consume
<1>0. UNCHANGED <<owner, committed, handled>>
  BY DEF Consume
<1>1. \A d \in Consumers : inhand[d] \subseteq inhand'[d]
  BY DEF TypeOK
<1>2. CommittedWasHandled'
  <2>1. InHand \subseteq InHand'
    BY <1>1 DEF InHand
  <2> QED
    BY <1>0, <2>1 DEF GroupInv, CommittedWasHandled
<1>3. NothingSkipped'
  <2> SUFFICES ASSUME NEW q \in Partitions, owner[q] # Nobody,
                      NEW i \in (committed[q] + 1)..position'[q]
               PROVE  <<q, i>> \in inhand'[owner[q]]
    BY <1>0 DEF NothingSkipped
  <2>1. owner[q] \in Consumers
    BY DEF TypeOK
  <2>2. CASE i \in (committed[q] + 1)..position[q]
    BY <1>1, <2>1, <2>2 DEF GroupInv, NothingSkipped
  <2>3. CASE i \notin (committed[q] + 1)..position[q]
    <3>1. q = p /\ i = position[p] + 1
      BY <2>3 DEF TypeOK
    <3> QED
      BY <3>1 DEF TypeOK
  <2> QED
    BY <2>2, <2>3
<1> QED
  BY <1>2, <1>3 DEF GroupInv

LEMMA GroupAck ==
    ASSUME TypeOK, GroupInv, NEW c \in Consumers, Ack(c)
    PROVE  GroupInv'
<1> PICK r \in inhand[c] :
      /\ committed' = CommittedBy(c, r)
      /\ inhand' = [inhand EXCEPT ![c] = @ \ {r}]
      /\ handled' = handled \cup {r}
  BY DEF Ack
<1>0. UNCHANGED <<owner, position>>
  BY DEF Ack
<1>1. \A p \in Partitions :
        committed'[p] = IF owner[p] = c THEN position[p] ELSE committed[p]
  BY DEF CommittedBy
<1>2. handled \cup InHand \subseteq handled' \cup InHand'
  BY DEF TypeOK, InHand
<1>3. CommittedWasHandled'
  <2> SUFFICES ASSUME NEW p \in Partitions, NEW i \in 1..committed'[p]
               PROVE  <<p, i>> \in handled \cup InHand
    BY <1>2 DEF CommittedWasHandled
  <2>1. CASE i \in 1..committed[p]
    BY <2>1 DEF GroupInv, CommittedWasHandled
  <2>2. CASE i \notin 1..committed[p]
    <3>1. owner[p] = c /\ i \in (committed[p] + 1)..position[p]
      BY <1>1, <2>2 DEF TypeOK
    <3>2. c # Nobody
      BY KafkaAssumption
    <3> QED
      BY <3>1, <3>2 DEF GroupInv, NothingSkipped, InHand
  <2> QED
    BY <2>1, <2>2
<1>4. NothingSkipped'
  <2> SUFFICES ASSUME NEW p \in Partitions, owner[p] # Nobody,
                      NEW i \in (committed'[p] + 1)..position[p]
               PROVE  <<p, i>> \in inhand'[owner[p]]
    BY <1>0 DEF NothingSkipped
  <2>1. owner[p] # c
    BY <1>1 DEF TypeOK
  <2>2. owner[p] \in Consumers /\ inhand'[owner[p]] = inhand[owner[p]]
    BY <2>1 DEF TypeOK
  <2> QED
    BY <1>1, <2>1, <2>2 DEF GroupInv, NothingSkipped
<1> QED
  BY <1>3, <1>4 DEF GroupInv

\* A process that dies leaves what it had in hand to the history, and its
\* partitions to nobody.
LEMMA GroupDies ==
    ASSUME TypeOK, GroupInv, NEW c \in Consumers, Dies(c),
           UNCHANGED <<position, committed>>
    PROVE  GroupInv'
<1>1. /\ owner' = Released(c)
      /\ handled' = handled \cup inhand[c]
      /\ inhand' = [inhand EXCEPT ![c] = {}]
      /\ UNCHANGED <<position, committed>>
  BY DEF Dies
<1>2. handled \cup InHand \subseteq handled' \cup InHand'
  BY <1>1 DEF TypeOK, InHand
<1>3. CommittedWasHandled'
  BY <1>1, <1>2 DEF GroupInv, CommittedWasHandled
<1>4. NothingSkipped'
  <2> SUFFICES ASSUME NEW p \in Partitions, owner'[p] # Nobody,
                      NEW i \in (committed[p] + 1)..position[p]
               PROVE  <<p, i>> \in inhand'[owner'[p]]
    BY <1>1 DEF NothingSkipped
  <2>1. owner'[p] = owner[p] /\ owner[p] # c
    BY <1>1 DEF Released
  <2>2. owner[p] \in Consumers /\ inhand'[owner[p]] = inhand[owner[p]]
    BY <1>1, <2>1 DEF TypeOK
  <2> QED
    BY <2>1, <2>2 DEF GroupInv, NothingSkipped
<1> QED
  BY <1>3, <1>4 DEF GroupInv

LEMMA GroupThreadEnds ==
    ASSUME TypeOK, GroupInv, NEW c \in Consumers, ThreadEnds(c),
           UNCHANGED <<position, committed>>
    PROVE  GroupInv'
<1>1. CASE Dies(c)
  BY <1>1, GroupDies
<1>2. CASE UNCHANGED <<owner, inhand, handled>>
  BY <1>2, GroupElsewhere
<1> QED
  BY <1>1, <1>2 DEF ThreadEnds

LEMMA GroupNext == TypeOK /\ GroupInv /\ [Next]_vars => GroupInv'
<1> SUFFICES ASSUME TypeOK, GroupInv, [Next]_vars PROVE GroupInv'
  OBVIOUS
<1>1. CASE ProducerStep \/ UNCHANGED vars
  BY <1>1, GroupElsewhere
     DEF ProducerStep, Produce, FlushReturns, Deliver, Resend, DeliveryFails,
         LateDeliver, vars, groupVars, processVars
<1>2. ASSUME NEW c \in Consumers, ConsumerStep(c) PROVE GroupInv'
  <2>1. CASE Subscribe(c)
    BY <2>1, GroupElsewhere DEF Subscribe, groupVars
  <2>2. CASE Crash(c)
    BY <2>2, GroupDies DEF Crash
  <2>3. CASE AckRaises(c) \/ ThreadFails(c)
    BY <2>3, GroupThreadEnds DEF AckRaises, ThreadFails
  <2> QED
    BY <1>2, <2>1, <2>2, <2>3, GroupConsume, GroupAck DEF ConsumerStep
<1>3. CASE Rebalance \/ Expel
  BY <1>3, GroupAssign DEF Rebalance, Expel
<1> QED
  BY <1>1, <1>2, <1>3 DEF Next

LEMMA GroupInvAlways == Spec => []GroupInv
BY TypeCorrect, GroupInit, GroupNext, PTL DEF Spec

\* Whatever rebalances, deaths and acknowledgements of former owners do, what
\* lies behind the committed offset was given to some process.
THEOREM CommittedWasHandledAlways == Spec => []CommittedWasHandled
BY GroupInvAlways, PTL DEF GroupInv

\* What the reader of a partition has passed and not committed is in its hand.
THEOREM NothingSkippedAlways == Spec => []NothingSkipped
BY GroupInvAlways, PTL DEF GroupInv

-----------------------------------------------------------------------------
(* Every partition is a commit log.                                        *)

LEMMA PartitionInit ==
    ASSUME Init, NEW p \in Partitions
    PROVE  PL(p)!Init
BY DEF Init, PL!Init

LEMMA StoredPublishes ==
    ASSUME TypeOK, NEW x \in 1..MaxCalls, Stored(x), UNCHANGED groupVars,
           NEW p \in Partitions
    PROVE  [PL(p)!Next]_(PL(p)!vars)
<1>1. CASE p = partitionOf[x]
  BY <1>1, StoredTypes DEF groupVars, PL!Next, PL!Publish
<1>2. CASE p # partitionOf[x]
  BY <1>2, StoredTypes DEF groupVars, PL!vars
<1> QED
  BY <1>1, <1>2

LEMMA PartitionStep ==
    ASSUME TypeOK, [Next]_vars, NEW p \in Partitions
    PROVE  [PL(p)!Next]_(PL(p)!vars)
<1>1. CASE \/ Produce \/ FlushReturns \/ UNCHANGED vars
           \/ \E x \in outbox : Resend(x) \/ DeliveryFails(x)
           \/ \E c \in Consumers :
                 Subscribe(c) \/ AckRaises(c) \/ ThreadFails(c) \/ Crash(c)
  BY <1>1 DEF Produce, FlushReturns, Resend, DeliveryFails, Subscribe, AckRaises,
              ThreadFails, Crash, vars, groupVars, PL!vars
<1>2. ASSUME NEW x \in outbox, Deliver(x) PROVE [PL(p)!Next]_(PL(p)!vars)
  BY <1>2, StoredPublishes DEF Deliver, TypeOK
<1>3. ASSUME NEW x \in stray, LateDeliver(x) PROVE [PL(p)!Next]_(PL(p)!vars)
  BY <1>3, StoredPublishes DEF LateDeliver, TypeOK
<1>4. ASSUME NEW c \in Consumers, Consume(c) PROVE [PL(p)!Next]_(PL(p)!vars)
  <2> PICK q \in Partitions :
        /\ position[q] < Len(topic[q])
        /\ position' = [position EXCEPT ![q] = @ + 1]
    BY <1>4 DEF Consume
  <2>1. UNCHANGED <<topic, committed>>
    BY <1>4 DEF Consume
  <2>2. CASE p = q
    BY <2>1, <2>2 DEF TypeOK, PL!Next, PL!Deliver
  <2>3. CASE p # q
    BY <2>1, <2>3 DEF TypeOK, PL!vars
  <2> QED
    BY <2>2, <2>3
<1>5. ASSUME NEW c \in Consumers, Ack(c) PROVE [PL(p)!Next]_(PL(p)!vars)
  <2>1. UNCHANGED <<topic, position>>
    BY <1>5 DEF Ack
  <2>2. committed'[p] = IF owner[p] = c THEN position[p] ELSE committed[p]
    BY <1>5 DEF Ack, CommittedBy
  <2> QED
    BY <2>1, <2>2 DEF PL!Next, PL!Commit, PL!vars
<1>6. CASE Rebalance \/ Expel
  <2>1. UNCHANGED <<topic, committed>> /\ position' = committed
    BY <1>6 DEF Rebalance, Expel, Assign, ResumeAt
  <2> QED
    BY <2>1 DEF PL!Next, PL!Rewind
<1> QED
  BY <1>1, <1>2, <1>3, <1>4, <1>5, <1>6 DEF Next, ProducerStep, ConsumerStep

\* Each partition is the commit log that the comment in ack() describes: an
\* ack() settles what was handed out, and a rebalance hands out again what
\* was not settled.
THEOREM RefinesCommitLog == Spec => ImplementsCommitLog
<1>1. Init => \A p \in Partitions : PL(p)!Init
  BY PartitionInit
<1>2. TypeOK /\ [Next]_vars => \A p \in Partitions : [PL(p)!Next]_(PL(p)!vars)
  BY PartitionStep
<1> QED
  BY <1>1, <1>2, TypeCorrect, PTL DEF Spec, ImplementsCommitLog

-----------------------------------------------------------------------------
(* The order of what publish() sends.                                      *)

\* A record is a number, that of its call.
LEMMA Recorded ==
    ASSUME TypeOK, NEW p \in Partitions, NEW i \in DOMAIN topic[p]
    PROVE  topic[p][i] \in Nat
<1>1. topic[p] \in Seq(1..MaxCalls)
  BY DEF TypeOK
<1>2. topic[p][i] \in 1..MaxCalls
  <2> DEFINE log == topic[p]
             S == 1..MaxCalls
  <2>1. log \in Seq(S) /\ i \in DOMAIN log
    BY <1>1
  <2> HIDE DEF log, S
  <2>2. log[i] \in S
    BY <2>1
  <2> QED
    BY <2>2 DEF log, S
<1> QED
  BY <1>2, KafkaAssumption

\* No payload is anywhere before its publish() is called.
CallsBehind ==
    /\ outbox \cup stray \subseteq 1..calls
    /\ \A p \in Partitions : \A i \in DOMAIN topic[p] : topic[p][i] <= calls

\* Payload x is on its partition, ahead of all later ones.
InPlace(x) ==
    LET log == topic[partitionOf[x]] IN
    \E i \in DOMAIN log : log[i] = x /\ \A k \in DOMAIN log : log[k] > x => i < k

\* A payload that no history doubts is in place, or the flush() of its call is
\* still waiting for it.
Placed ==
    \A x \in 1..calls \ doubtful :
        InPlace(x) \/ (x = calls /\ flushing /\ x \in outbox)

PublishInv == CallsBehind /\ Placed

LEMMA PublishInit == Init => PublishInv
BY DEF Init, PublishInv, CallsBehind, Placed

\* What is appended lies behind everything that is in place.
LEMMA StoredKeepsPlace ==
    ASSUME TypeOK, CallsBehind, NEW x \in 1..calls, Stored(x),
           NEW y \in 1..calls, InPlace(y)
    PROVE  InPlace(y)'
<1> DEFINE q == partitionOf[x]
           p == partitionOf[y]
<1>0. x \in 1..MaxCalls /\ y \in 1..MaxCalls
  BY KafkaAssumption DEF TypeOK
<1>1. p \in Partitions /\ topic[p] \in Seq(1..MaxCalls) /\ partitionOf' = partitionOf
  BY <1>0, KafkaAssumption DEF TypeOK, Stored
<1>2. PICK i \in DOMAIN topic[p] :
         topic[p][i] = y /\ \A k \in DOMAIN topic[p] : topic[p][k] > y => i < k
  BY DEF InPlace
<1>3. CASE p # q
  <2>1. topic'[p] = topic[p]
    BY <1>0, <1>1, <1>3, StoredTypes
  <2> QED
    BY <1>1, <1>2, <2>1 DEF InPlace
<1>4. CASE p = q
  <2>1. topic'[p] = Append(topic[p], x)
    BY <1>0, <1>4, StoredTypes
  <2>2. /\ DOMAIN topic'[p] = 1..(Len(topic[p]) + 1)
        /\ \A k \in DOMAIN topic[p] : topic'[p][k] = topic[p][k]
        /\ DOMAIN topic[p] = 1..Len(topic[p])
    BY <1>0, <1>1, <2>1
  <2>3. i \in DOMAIN topic'[p] /\ topic'[p][i] = y
    BY <1>1, <1>2, <2>2
  <2>4. \A k \in DOMAIN topic'[p] : topic'[p][k] > y => i < k
    BY <1>1, <1>2, <2>2
  <2> QED
    BY <1>1, <2>3, <2>4 DEF InPlace
<1> QED
  BY <1>3, <1>4

\* The newest payload is in place as soon as it is stored.
LEMMA StoredInPlace ==
    ASSUME TypeOK, CallsBehind, NEW x \in 1..MaxCalls, x = calls, Stored(x)
    PROVE  InPlace(x)'
<1> DEFINE p == partitionOf[x]
<1>1. /\ p \in Partitions /\ topic[p] \in Seq(1..MaxCalls) /\ partitionOf' = partitionOf
      /\ topic'[p] = Append(topic[p], x)
  BY StoredTypes DEF TypeOK, Stored
<1>2. /\ DOMAIN topic'[p] = 1..(Len(topic[p]) + 1)
      /\ topic'[p][Len(topic[p]) + 1] = x
      /\ \A k \in 1..Len(topic[p]) : topic'[p][k] = topic[p][k]
  BY <1>1
<1>3. \A k \in 1..Len(topic[p]) : topic[p][k] \in Nat /\ topic[p][k] <= x
  <2>1. DOMAIN topic[p] = 1..Len(topic[p])
    BY <1>1
  <2> QED
    BY <1>1, <2>1, Recorded DEF CallsBehind
<1>4. /\ \A k \in DOMAIN topic'[p] : ~(topic'[p][k] > x)
      /\ Len(topic[p]) + 1 \in DOMAIN topic'[p]
  BY <1>1, <1>2, <1>3
<1> QED
  BY <1>1, <1>2, <1>4 DEF InPlace


\* A step of the producer's library that stores x.
LEMMA StoredKeepsPublishInv ==
    ASSUME TypeOK, PublishInv, NEW x \in outbox \cup stray, Stored(x),
           UNCHANGED <<calls, flushing, doubtful>>,
           outbox' = outbox \ {x} \/ (outbox' = outbox /\ stray' = stray \ {x}),
           outbox' \cup stray' \subseteq outbox \cup stray
    PROVE  PublishInv'
<1>1. x \in 1..calls /\ x \in 1..MaxCalls /\ calls \in Nat
  BY DEF TypeOK, PublishInv, CallsBehind
<1>2. CallsBehind'
  <2> SUFFICES ASSUME NEW p \in Partitions, NEW i \in DOMAIN topic'[p]
               PROVE  topic'[p][i] <= calls
    BY DEF PublishInv, CallsBehind
  <2>1. CASE p # partitionOf[x]
    BY <1>1, <2>1, StoredTypes DEF PublishInv, CallsBehind
  <2>2. CASE p = partitionOf[x]
    <3>1. topic[p] \in Seq(1..MaxCalls) /\ topic'[p] = Append(topic[p], x)
      BY <1>1, <2>2, StoredTypes DEF TypeOK
    <3>2. i \in 1..Len(topic[p]) => topic[p][i] <= calls
      BY <3>1 DEF PublishInv, CallsBehind
    <3> QED
      BY <1>1, <3>1, <3>2
  <2> QED
    BY <2>1, <2>2
<1>3. Placed'
  <2> SUFFICES ASSUME NEW y \in 1..calls, y \notin doubtful
               PROVE  InPlace(y)' \/ (y = calls /\ flushing /\ y \in outbox')
    BY DEF Placed
  <2>1. CASE InPlace(y)
    BY <1>1, <2>1, StoredKeepsPlace DEF PublishInv
  <2>2. CASE y = calls /\ flushing /\ y \in outbox /\ y # x
    BY <2>2
  <2>3. CASE y = calls /\ flushing /\ y = x
    BY <1>1, <2>3, StoredInPlace DEF PublishInv
  <2> QED
    BY <2>1, <2>2, <2>3 DEF PublishInv, Placed
<1> QED
  BY <1>2, <1>3 DEF PublishInv

\* Steps that store nothing.
LEMMA UnstoredKeepsPlace ==
    ASSUME UNCHANGED <<topic, partitionOf>>, NEW y
    PROVE  InPlace(y)' <=> InPlace(y)
BY DEF InPlace

LEMMA PublishNext == TypeOK /\ PublishInv /\ [Next]_vars => PublishInv'
<1> SUFFICES ASSUME TypeOK, PublishInv, [Next]_vars PROVE PublishInv'
  OBVIOUS
<1>1. CASE Produce
  <2>0. ~flushing /\ flushing'
    BY <1>1 DEF Produce
  <2>1. /\ calls' = calls + 1 /\ calls \in Nat
        /\ outbox' = outbox \cup {calls + 1}
        /\ UNCHANGED <<topic, partitionOf, stray, doubtful>>
    BY <1>1 DEF Produce, TypeOK
  <2>2. CallsBehind'
    <3>1. outbox' \cup stray' \subseteq 1..calls'
      BY <2>1 DEF PublishInv, CallsBehind
    <3>2. ASSUME NEW p \in Partitions, NEW i \in DOMAIN topic[p]
          PROVE  topic[p][i] <= calls'
      <4>1. topic[p][i] \in Nat /\ topic[p][i] <= calls
        BY Recorded DEF PublishInv, CallsBehind
      <4> QED
        BY <2>1, <4>1
    <3> QED
      BY <2>1, <3>1, <3>2 DEF CallsBehind
  <2>3. ASSUME NEW y \in 1..calls', y \notin doubtful
        PROVE  InPlace(y)' \/ (y = calls' /\ flushing' /\ y \in outbox')
    <3>1. CASE y \in 1..calls
      <4>1. InPlace(y)
        BY <2>0, <2>3, <3>1 DEF PublishInv, Placed
      <4> QED
        BY <2>1, <4>1, UnstoredKeepsPlace
    <3>2. CASE y \notin 1..calls
      <4>1. y = calls' /\ y \in outbox'
        BY <2>1, <3>2
      <4> QED
        BY <2>0, <4>1
    <3> QED
      BY <3>1, <3>2
  <2> QED
    BY <2>1, <2>2, <2>3 DEF PublishInv, Placed
<1>2. CASE FlushReturns
  <2>1. /\ doubtful' = doubtful \cup outbox
        /\ UNCHANGED <<topic, partitionOf, outbox, stray, calls>>
    BY <1>2 DEF FlushReturns
  <2> QED
    BY <2>1, UnstoredKeepsPlace DEF PublishInv, CallsBehind, Placed
<1>3. ASSUME NEW x \in outbox, Deliver(x) PROVE PublishInv'
  BY <1>3, StoredKeepsPublishInv DEF Deliver
<1>4. ASSUME NEW x \in outbox, Resend(x) PROVE PublishInv'
  <2>1. /\ stray' = stray \cup {x}
        /\ UNCHANGED <<topic, partitionOf, outbox, calls, flushing, doubtful>>
    BY <1>4 DEF Resend
  <2> QED
    BY <2>1, UnstoredKeepsPlace DEF PublishInv, CallsBehind, Placed
<1>5. ASSUME NEW x \in outbox, DeliveryFails(x) PROVE PublishInv'
  <2>1. /\ outbox' = outbox \ {x} /\ doubtful' = doubtful \cup {x}
        /\ UNCHANGED <<topic, partitionOf, stray, calls, flushing>>
    BY <1>5 DEF DeliveryFails
  <2> QED
    BY <2>1, UnstoredKeepsPlace DEF PublishInv, CallsBehind, Placed
<1>6. ASSUME NEW x \in stray, LateDeliver(x) PROVE PublishInv'
  BY <1>6, StoredKeepsPublishInv DEF LateDeliver
<1>7. CASE \/ \E c \in Consumers : ConsumerStep(c)
           \/ Rebalance \/ Expel \/ UNCHANGED vars
  <2>1. UNCHANGED <<topic, producerVars>>
    BY <1>7 DEF ConsumerStep, Subscribe, Consume, Ack, AckRaises, ThreadFails, Crash,
                Rebalance, Expel, Assign, vars
  <2> QED
    BY <2>1, UnstoredKeepsPlace DEF producerVars, PublishInv, CallsBehind, Placed
<1> QED
  BY <1>1, <1>2, <1>3, <1>4, <1>5, <1>6, <1>7 DEF Next, ProducerStep

LEMMA PlacedIsOrdered == TypeOK /\ PublishInv => PublishOrder
<1> SUFFICES ASSUME TypeOK, PublishInv,
                    NEW x \in 1..MaxCalls, x \notin doubtful, Returned(x)
             PROVE  InPlace(x)
  BY DEF PublishOrder, InPlace
<1>1. x \in 1..calls /\ ~(x = calls /\ flushing)
  BY DEF Returned, TypeOK
<1> QED
  BY <1>1 DEF PublishInv, Placed

\* A publish() that returned in time put its message ahead of all later ones of
\* its partition, however often requests were sent again.
THEOREM PublishOrderAlways == Spec => []PublishOrder
<1>1. Spec => []PublishInv
  BY TypeCorrect, PublishInit, PublishNext, PTL DEF Spec
<1> QED
  BY <1>1, TypeCorrect, PlacedIsOrdered, PTL
=============================================================================
