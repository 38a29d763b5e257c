-------------------------- MODULE Disruptor_proofs --------------------------
(***************************************************************************)
(* With one producer, which is what scr/disruptor.h is written for, the    *)
(* ring delivers every update once and in order, for every SIZE, number of *)
(* consumers and length of run.                                            *)
(***************************************************************************)
EXTENDS Disruptor, TLAPS, FiniteSetTheorems

SingleProducer == \A p, q \in Producers : p = q

(***************************************************************************)
(* The inductive invariant                                                 *)
(***************************************************************************)

Registered == {c \in Consumers : cpc[c] # "new"}

\* Every consumer that has an id has one of its own, below consumer_count.
Registration ==
    /\ consumer_count = Cardinality(Registered)
    /\ \A c \in Registered : id[c] < consumer_count
    /\ \A c, d \in Registered : id[c] = id[d] => c = d
    /\ \A c \in Consumers : Added(c) => consumer_active[id[c]]
    /\ \A c \in Consumers : ~Added(c) =>
         received[c] = <<>> /\ producer_sequence = -1 /\ \A p \in Producers : ppc[p] = "idle"
    /\ \A c \in Consumers : cpc[c] = "sequenced" => consumer_sequences[id[c]] = -1

\* The sequences count what has been released and what has been handed out.
Counting ==
    /\ Len(published) = producer_sequence + 1
    /\ \A c \in Consumers : Added(c) => Len(received[c]) = consumer_sequences[id[c]] + 1

\* What a producer inside publish knows: its number is the next one, the minimum
\* it has found is no more than any sequence it has looked at, and once it has
\* claimed its slot every consumer is less than a turn behind.
Claim ==
    \A p \in Producers : ppc[p] # "idle" =>
        /\ pnext[p] = producer_sequence + 1
        /\ pnext[p] < MaxPublish
        /\ pupdate[p] \in Updates
        /\ ppc[p] = "scan" =>
             /\ scan[p] <= consumer_count
             /\ \A c \in Consumers : id[c] < scan[p] => min[p] <= consumer_sequences[id[c]]
        /\ ppc[p] # "scan" =>
             \A c \in Consumers : pnext[p] - consumer_sequences[id[c]] < Size
        /\ ppc[p] = "written" => buffer[Slot(pnext[p])] = pupdate[p]

\* The updates a consumer may still ask for lie in their slots.  The slot of the
\* next number is left out: it is the one a producer may be writing.
Contents ==
    \A k \in 0 .. producer_sequence :
        k + Size > producer_sequence + 1 => buffer[Slot(k)] = published[k + 1]

\* A consumer inside consume reads the update that follows its sequence.
Reading ==
    \A c \in Consumers : cpc[c] \in {"copying", "copied"} =>
        /\ cnext[c] = consumer_sequences[id[c]] + 1
        /\ cnext[c] <= producer_sequence
        /\ cpc[c] = "copied" => cupdate[c] = published[cnext[c] + 1]

IInv ==
    /\ TypeOK
    /\ Registration
    /\ Counting
    /\ Claim
    /\ NotLapped
    /\ Contents
    /\ Reading
    /\ DeliveredInOrder

(***************************************************************************)
(* Arithmetic of the ring                                                  *)
(***************************************************************************)

\* Division with remainder by the size of the ring.
LEMMA DivMod ==
    ASSUME NEW a \in Int, NEW S \in Nat \ {0}
    PROVE  /\ a = S * (a \div S) + (a % S)
           /\ a \div S \in Int
           /\ a % S \in 0 .. S - 1
  BY SMT

\* The only multiple of a positive number n strictly between -n and n is 0.
LEMMA NoMultipleBelow ==
    ASSUME NEW S \in Nat \ {0}, NEW x \in Int, NEW d \in Int, d = S * x, 0 < d, d < S
    PROVE  FALSE
<1>1. x > 0
  BY SMT
<1>2. S * x >= S
  BY <1>1, SMT
<1> QED
  BY <1>2

\* Two sequence numbers less than a turn apart lie in different slots.
LEMMA SlotsDiffer ==
    ASSUME NEW a \in Nat, NEW b \in Nat, a < b, b < a + Size
    PROVE  Slot(a) # Slot(b)
<1> SUFFICES ASSUME a % Size = b % Size PROVE FALSE
  BY DEF Slot
<1> DEFINE x == b \div Size - a \div Size
<1>1. x \in Int
  BY DivMod, SizeAssumption
<1>2. b - a = Size * (b \div Size) - Size * (a \div Size)
  BY DivMod, SizeAssumption
<1>3. b - a = Size * x
  BY <1>2, DivMod, SizeAssumption
<1>4. b - a \in Int /\ 0 < b - a /\ b - a < Size
  BY SizeAssumption
<1> HIDE DEF x
<1> QED
  BY <1>1, <1>3, <1>4, NoMultipleBelow, SizeAssumption

\* A sequence number that has been claimed has a slot.
LEMMA SlotType ==
    ASSUME NEW a \in Int
    PROVE  Slot(a) \in Slots
  BY DivMod, SizeAssumption DEF Slot, Slots

\* A consumer that has been added owns an entry of consumer_sequences.
LEMMA AddedFacts ==
    ASSUME TypeOK, Registration, NEW c \in Consumers, Added(c)
    PROVE  /\ c \in Registered
           /\ id[c] \in Ids
           /\ consumer_sequences[id[c]] \in -1 .. MaxPublish - 1
           /\ \A d \in Registered \ {c} : id[d] # id[c]
<1>1. c \in Registered
  BY DEF Added, Registered
<1> QED
  BY <1>1, ConsumersAssumption DEF TypeOK, Registration, Ids

\* A consumer inside add_consumer has its id, and no publish has begun.
LEMMA JoiningFacts ==
    ASSUME TypeOK, Registration, NEW c \in Consumers, cpc[c] \in {"registered", "sequenced"}
    PROVE  /\ c \in Registered
           /\ id[c] \in Ids
           /\ ~Added(c)
           /\ producer_sequence = -1
           /\ \A p \in Producers : ppc[p] = "idle"
<1>1. c \in Registered
  BY DEF Registered
<1>2. ~Added(c)
  BY DEF Added
<1>3. id[c] \in Ids
  BY <1>1, ConsumersAssumption DEF TypeOK, Registration, Ids
<1> QED
  BY <1>1, <1>2, <1>3 DEF Registration

\* There is an id left for a consumer that has none.
LEMMA IdLeft ==
    ASSUME TypeOK, Registration, NEW c \in Consumers, cpc[c] = "new"
    PROVE  /\ IsFiniteSet(Registered)
           /\ Cardinality(Registered \cup {c}) = consumer_count + 1
           /\ consumer_count < MaxConsumers
<1>1. IsFiniteSet(Registered)
  BY FS_Subset, ConsumersAssumption DEF Registered
<1>2. c \notin Registered
  BY DEF Registered
<1>3. Cardinality(Registered \cup {c}) = consumer_count + 1
  BY <1>1, <1>2, FS_AddElement DEF Registration
<1>4. Cardinality(Registered \cup {c}) <= Cardinality(Consumers)
  BY FS_Subset, ConsumersAssumption DEF Registered
<1>5. Cardinality(Consumers) \in Nat
  BY FS_CardinalityType, ConsumersAssumption
<1> QED
  BY <1>1, <1>3, <1>4, <1>5, ConsumersAssumption DEF TypeOK

(***************************************************************************)
(* The invariant holds initially and is kept by every step                 *)
(***************************************************************************)

\* The invariant holds when the ring has been constructed.
LEMMA InitIInv == Init => IInv
<1> SUFFICES ASSUME Init PROVE IInv
  OBVIOUS
<1>1. TypeOK
  BY SizeAssumption, ConsumersAssumption, BoundAssumption DEF Init, TypeOK
<1>2. Registration
  <2>1. Registered = {}
    BY DEF Init, Registered
  <2> QED
    BY <2>1, FS_EmptySet DEF Init, Registration, Added
<1>3. Counting /\ Claim /\ NotLapped /\ Contents /\ Reading /\ DeliveredInOrder
  BY DEF Init, Counting, Claim, NotLapped, Contents, Reading, DeliveredInOrder, Added
<1> QED
  BY <1>1, <1>2, <1>3 DEF IInv

\* add_consumer takes the next id: the entries of the others are untouched.
LEMMA TakeIdStep ==
    ASSUME IInv, NEW c \in Consumers, TakeId(c)
    PROVE  IInv'
<1> USE DEF IInv
<1>1. consumer_count < MaxConsumers /\ Cardinality(Registered \cup {c}) = consumer_count + 1
  BY IdLeft DEF TakeId
<1>2. TypeOK'
  BY <1>1, ConsumersAssumption DEF TypeOK, TakeId, producers, history
<1>3. Registered' = Registered \cup {c}
  BY DEF TypeOK, TakeId, Registered
<1>4. Registration'
  <2>1. consumer_count' = Cardinality(Registered')
    BY <1>1, <1>3 DEF TakeId
  <2>2. c \notin Registered /\ id'[c] = consumer_count
    BY DEF Registered, TakeId, TypeOK
  <2>3. \A d \in Registered : id'[d] = id[d] /\ id[d] < consumer_count
    BY DEF TypeOK, Registration, TakeId, Registered
  <2>4. \A d \in Registered' : id'[d] < consumer_count'
    BY <1>3, <2>2, <2>3 DEF TypeOK, TakeId, Registered
  <2>5. \A d, e \in Registered' : id'[d] = id'[e] => d = e
    <3>1. \A d \in Registered : id'[d] # id'[c]
      BY <2>2, <2>3 DEF TypeOK, Registered
    <3>2. \A d, e \in Registered : id'[d] = id'[e] => d = e
      BY <2>3 DEF Registration
    <3> QED
      BY <1>3, <3>1, <3>2
  <2> QED
    BY <2>1, <2>4, <2>5 DEF TypeOK, Registration, TakeId, Added, producers, history
<1>5. Counting' /\ NotLapped' /\ DeliveredInOrder'
  BY DEF TypeOK, TakeId, Counting, NotLapped, DeliveredInOrder, Added, producers, history
<1>6. Claim' /\ Contents' /\ Reading'
  BY DEF TypeOK, TakeId, Registration, Claim, Contents, Reading, Added, producers, history
<1> QED
  BY <1>2, <1>4, <1>5, <1>6

\* add_consumer starts the consumer at the last sequence released.
LEMMA StartAtProducerStep ==
    ASSUME IInv, NEW c \in Consumers, StartAtProducer(c)
    PROVE  IInv'
<1> USE DEF IInv
<1>1. c \in Registered /\ id[c] \in Ids /\ ~Added(c) /\ producer_sequence = -1
  BY JoiningFacts DEF StartAtProducer
<1>2. \A p \in Producers : ppc[p] = "idle"
  BY JoiningFacts DEF StartAtProducer
<1>3. TypeOK'
  BY <1>1 DEF TypeOK, StartAtProducer, producers, history, Ids
<1>4. Registered' = Registered
  BY DEF TypeOK, StartAtProducer, Registered
<1>5. \A d \in Registered \ {c} : consumer_sequences'[id[d]] = consumer_sequences[id[d]]
  BY <1>1 DEF StartAtProducer, TypeOK, Registration
<1>6. consumer_sequences'[id[c]] = -1
  BY <1>1 DEF StartAtProducer, TypeOK
<1>7. \A d \in Consumers : d # c => cpc'[d] = cpc[d]
  BY DEF StartAtProducer, TypeOK
<1>8. \A d \in Consumers : Added(d)' => Added(d) /\ d \in Registered \ {c}
  BY <1>7 DEF StartAtProducer, TypeOK, Added, Registered
<1>9. Registration'
  <2>1. \A d \in Consumers : Added(d)' => consumer_active'[id'[d]]
    BY <1>8 DEF StartAtProducer, Registration
  <2>2. \A d \in Consumers : ~Added(d)' => received'[d] = <<>>
    BY <1>7, <1>1 DEF StartAtProducer, Registration, Added, history
  <2>3. \A d \in Consumers : cpc'[d] = "sequenced" => consumer_sequences'[id'[d]] = -1
    BY <1>5, <1>6, <1>7 DEF StartAtProducer, Registration, Registered
  <2> QED
    BY <1>1, <1>2, <1>4, <2>1, <2>2, <2>3 DEF StartAtProducer, Registration, producers, history
<1>10. Counting' /\ NotLapped' /\ DeliveredInOrder'
  BY <1>5, <1>8 DEF StartAtProducer, Counting, NotLapped, DeliveredInOrder, producers, history
<1>11. Claim' /\ Contents' /\ Reading'
  BY <1>1, <1>2 DEF StartAtProducer, TypeOK, Claim, Contents, Reading, producers, history
<1> QED
  BY <1>3, <1>9, <1>10, <1>11

\* add_consumer ends: from here on publish waits for the consumer.
LEMMA ActivateStep ==
    ASSUME IInv, NEW c \in Consumers, Activate(c)
    PROVE  IInv'
<1> USE DEF IInv
<1>1. c \in Registered /\ id[c] \in Ids /\ ~Added(c) /\ producer_sequence = -1
  BY JoiningFacts DEF Activate
<1>2. /\ \A p \in Producers : ppc[p] = "idle"
      /\ received[c] = <<>> /\ consumer_sequences[id[c]] = -1
  BY <1>1 DEF Registration, Activate
<1>3. TypeOK'
  BY <1>1 DEF TypeOK, Activate, producers, history, Ids
<1>4. Registered' = Registered
  BY DEF TypeOK, Activate, Registered
<1>5. \A d \in Consumers : d # c => cpc'[d] = cpc[d]
  BY DEF Activate, TypeOK
<1>6. \A d \in Consumers : Added(d)' <=> Added(d) \/ d = c
  BY <1>5 DEF Activate, TypeOK, Added
<1>7. \A i \in Ids : consumer_active[i] => consumer_active'[i]
  BY DEF Activate, TypeOK
<1>8. \A d \in Consumers : Added(d)' => consumer_active'[id[d]]
  BY <1>1, <1>6, <1>7, AddedFacts DEF Activate, TypeOK, Registration
<1>9. Registration'
  BY <1>1, <1>2, <1>4, <1>5, <1>6, <1>8 DEF Activate, Registration, Registered, producers, history
<1>10. Counting' /\ NotLapped'
  BY <1>1, <1>2, <1>6, SizeAssumption DEF Activate, Counting, NotLapped, producers, history
<1>11. Claim' /\ Contents' /\ Reading' /\ DeliveredInOrder'
  BY <1>2, <1>5 DEF Activate, TypeOK, Claim, Contents, Reading, DeliveredInOrder, producers, history
<1> QED
  BY <1>3, <1>9, <1>10, <1>11

\* publish takes the number after the last one released.
LEMMA BeginPublishStep ==
    ASSUME IInv, NEW p \in Producers, BeginPublish(p)
    PROVE  IInv'
<1> USE DEF IInv
<1>1. TypeOK'
  BY BoundAssumption, ConsumersAssumption DEF TypeOK, BeginPublish, shared, consumers, history
<1>2. Registered' = Registered
  BY DEF BeginPublish, Registered, consumers
<1>3. Registration' /\ Counting' /\ NotLapped' /\ Contents' /\ Reading' /\ DeliveredInOrder'
  BY <1>2 DEF BeginPublish, Registration, Counting, NotLapped, Contents, Reading,
              DeliveredInOrder, Added, shared, consumers, history
<1>4. Claim'
  <2> SUFFICES ASSUME NEW q \in Producers, ppc'[q] # "idle" PROVE Claim!(q)'
    BY DEF Claim
  <2>1. CASE q = p
    BY <2>1 DEF BeginPublish, TypeOK, shared, consumers
  <2>2. CASE q # p
    BY <2>2 DEF BeginPublish, TypeOK, Claim, shared, consumers
  <2> QED
    BY <2>1, <2>2
<1> QED
  BY <1>1, <1>3, <1>4

\* While a publish runs, every consumer has been added.
LEMMA PublishingFacts ==
    ASSUME TypeOK, Registration, NEW p \in Producers, ppc[p] # "idle", NEW c \in Consumers
    PROVE  /\ Added(c)
           /\ id[c] \in Ids
           /\ id[c] < consumer_count
           /\ consumer_active[id[c]]
           /\ consumer_sequences[id[c]] \in -1 .. MaxPublish - 1
<1>1. Added(c)
  BY DEF Registration
<1> QED
  BY <1>1, AddedFacts DEF Registration

\* find_minimum's minimum bounds the consumers it has looked at from below.
LEMMA ScanConsumerStep ==
    ASSUME IInv, NEW p \in Producers, ScanConsumer(p)
    PROVE  IInv'
<1> USE DEF IInv
<1>1. scan[p] \in Ids /\ min[p] \in -1 .. LongMax /\ consumer_sequences[scan[p]] \in -1 .. MaxPublish - 1
  BY ConsumersAssumption DEF TypeOK, ScanConsumer, Ids
<1>2. TypeOK'
  <2>1. scan' \in [Producers -> 0 .. MaxConsumers]
    BY <1>1, ConsumersAssumption DEF TypeOK, ScanConsumer, Ids
  <2>2. min' \in [Producers -> -1 .. LongMax]
    BY <1>1, BoundAssumption DEF TypeOK, ScanConsumer
  <2> QED
    BY <2>1, <2>2 DEF TypeOK, ScanConsumer, shared, consumers, history
<1>3. Registered' = Registered
  BY DEF ScanConsumer, Registered, consumers
<1>4. Registration' /\ Counting' /\ NotLapped' /\ Contents' /\ Reading' /\ DeliveredInOrder'
  BY <1>3 DEF ScanConsumer, Registration, Counting, NotLapped, Contents, Reading,
              DeliveredInOrder, Added, shared, consumers, history
<1>5. Claim'
  <2> SUFFICES ASSUME NEW q \in Producers, ppc'[q] # "idle" PROVE Claim!(q)'
    BY DEF Claim
  <2>1. CASE q = p
    <3>1. scan'[p] = scan[p] + 1 /\ scan'[p] <= consumer_count
      BY <1>1 DEF ScanConsumer, TypeOK
    <3>2. min'[p] \in Int /\ min'[p] <= min[p]
      BY <1>1, BoundAssumption DEF ScanConsumer, TypeOK
    <3>3. consumer_active[scan[p]] => min'[p] <= consumer_sequences[scan[p]]
      BY <1>1, BoundAssumption DEF ScanConsumer, TypeOK
    <3>4. ASSUME NEW c \in Consumers, id[c] < scan'[p]
          PROVE  min'[p] <= consumer_sequences[id[c]]
      <4>1. id[c] \in Ids /\ consumer_active[id[c]] /\ consumer_sequences[id[c]] \in Int
        BY PublishingFacts DEF ScanConsumer
      <4>2. CASE id[c] = scan[p]
        BY <4>1, <4>2, <3>3
      <4>3. CASE id[c] < scan[p]
        BY <1>1, <3>2, <4>1, <4>3 DEF Claim, ScanConsumer
      <4> QED
        BY <1>1, <3>1, <3>4, <4>1, <4>2, <4>3 DEF Ids
    <3> QED
      BY <2>1, <3>1, <3>4 DEF Claim, ScanConsumer, shared, consumers
  <2>2. CASE q # p
    BY <2>2 DEF ScanConsumer, TypeOK, Claim, shared, consumers
  <2> QED
    BY <2>1, <2>2
<1> QED
  BY <1>2, <1>4, <1>5

\* A publish that finds no room starts again from nothing.
LEMMA YieldStep ==
    ASSUME IInv, NEW p \in Producers, Yield(p)
    PROVE  IInv'
<1> USE DEF IInv
<1>1. TypeOK'
  BY BoundAssumption, ConsumersAssumption DEF TypeOK, Yield, shared, consumers, history
<1>2. Registered' = Registered
  BY DEF Yield, Registered, consumers
<1>3. Registration' /\ Counting' /\ NotLapped' /\ Contents' /\ Reading' /\ DeliveredInOrder'
  BY <1>2 DEF Yield, Registration, Counting, NotLapped, Contents, Reading,
              DeliveredInOrder, Added, shared, consumers, history
<1>4. Claim'
  <2> SUFFICES ASSUME NEW q \in Producers, ppc'[q] # "idle" PROVE Claim!(q)'
    BY DEF Claim
  <2>1. CASE q = p
    BY <2>1, PublishingFacts, ConsumersAssumption DEF Yield, TypeOK, Claim, Ids, shared, consumers
  <2>2. CASE q # p
    BY <2>2 DEF Yield, TypeOK, Claim, shared, consumers
  <2> QED
    BY <2>1, <2>2
<1> QED
  BY <1>1, <1>3, <1>4

\* The minimum found may be old, but sequences only grow: the claim holds of the
\* consumers as they are now.
LEMMA ClaimSlotStep ==
    ASSUME IInv, NEW p \in Producers, ClaimSlot(p)
    PROVE  IInv'
<1> USE DEF IInv
<1>1. TypeOK'
  BY DEF TypeOK, ClaimSlot, shared, consumers, history
<1>2. Registered' = Registered
  BY DEF ClaimSlot, Registered, consumers
<1>3. Registration' /\ Counting' /\ NotLapped' /\ Contents' /\ Reading' /\ DeliveredInOrder'
  BY <1>2 DEF ClaimSlot, TypeOK, Registration, Counting, NotLapped, Contents, Reading,
              DeliveredInOrder, Added, shared, consumers, history
<1>4. ASSUME NEW c \in Consumers
      PROVE  pnext[p] - consumer_sequences[id[c]] < Size
  <2>1. /\ min[p] <= consumer_sequences[id[c]]
        /\ consumer_sequences[id[c]] \in -1 .. MaxPublish - 1
    BY PublishingFacts DEF ClaimSlot, Claim
  <2>2. min[p] \in Int /\ min[p] # LongMax /\ pnext[p] \in Int
    BY <2>1, BoundAssumption DEF TypeOK
  <2>3. pnext[p] - min[p] < Size
    BY <2>2 DEF ClaimSlot, FoundMinimum
  <2> QED
    BY <2>1, <2>2, <2>3, SizeAssumption
<1>5. Claim'
  <2> SUFFICES ASSUME NEW q \in Producers, ppc'[q] # "idle" PROVE Claim!(q)'
    BY DEF Claim
  <2>1. CASE q = p
    BY <2>1, <1>4 DEF ClaimSlot, TypeOK, Claim, shared, consumers
  <2>2. CASE q # p
    BY <2>2 DEF ClaimSlot, TypeOK, Claim, shared, consumers
  <2> QED
    BY <2>1, <2>2
<1> QED
  BY <1>1, <1>3, <1>5

\* A claimed slot holds nothing a consumer may still ask for.
LEMMA ClaimedSlotIsFree ==
    ASSUME TypeOK, NEW p \in Producers, pnext[p] = producer_sequence + 1,
           NEW k \in 0 .. producer_sequence, k + Size > producer_sequence + 1
    PROVE  Slot(k) # Slot(pnext[p])
<1>1. k \in Nat /\ pnext[p] \in Nat /\ k < pnext[p] /\ pnext[p] < k + Size
  BY SizeAssumption DEF TypeOK
<1> QED
  BY <1>1, SlotsDiffer

\* A write begins in a slot that no release still unread lies in.
LEMMA BeginWriteStep ==
    ASSUME SingleProducer, IInv, NEW p \in Producers, BeginWrite(p)
    PROVE  IInv'
<1> USE DEF IInv
<1>1. TypeOK'
  BY DEF TypeOK, BeginWrite, consumers, history
<1>2. Registered' = Registered
  BY DEF BeginWrite, Registered, consumers
<1>3. Registration' /\ Counting' /\ NotLapped' /\ Reading' /\ DeliveredInOrder'
  BY <1>2 DEF BeginWrite, TypeOK, Registration, Counting, NotLapped, Reading,
              DeliveredInOrder, Added, consumers, history
<1>4. Claim'
  BY DEF BeginWrite, TypeOK, Claim, SingleProducer, consumers
<1>5. Contents'
  <2>1. pnext[p] = producer_sequence + 1
    BY DEF BeginWrite, Claim
  <2> SUFFICES ASSUME NEW k \in 0 .. producer_sequence, k + Size > producer_sequence + 1
               PROVE  buffer'[Slot(k)] = published[k + 1]
    BY DEF Contents, BeginWrite, history
  <2>2. Slot(k) # Slot(pnext[p]) /\ Slot(k) \in Slots
    BY <2>1, ClaimedSlotIsFree, SlotType
  <2> QED
    BY <2>2 DEF BeginWrite, TypeOK, Contents
<1> QED
  BY <1>1, <1>3, <1>4, <1>5

\* The slot of the number about to be released holds the update.
LEMMA EndWriteStep ==
    ASSUME SingleProducer, IInv, NEW p \in Producers, EndWrite(p)
    PROVE  IInv'
<1> USE DEF IInv
<1>1. TypeOK'
  BY DEF TypeOK, EndWrite, consumers, history
<1>2. Registered' = Registered
  BY DEF EndWrite, Registered, consumers
<1>3. Registration' /\ Counting' /\ NotLapped' /\ Reading' /\ DeliveredInOrder'
  BY <1>2 DEF EndWrite, TypeOK, Registration, Counting, NotLapped, Reading,
              DeliveredInOrder, Added, consumers, history
<1>4. Claim'
  <2>1. Slot(pnext[p]) \in Slots
    BY SlotType DEF TypeOK
  <2> QED
    BY <2>1 DEF EndWrite, TypeOK, Claim, SingleProducer, consumers
<1>5. Contents'
  <2>1. pnext[p] = producer_sequence + 1
    BY DEF EndWrite, Claim
  <2> SUFFICES ASSUME NEW k \in 0 .. producer_sequence, k + Size > producer_sequence + 1
               PROVE  buffer'[Slot(k)] = published[k + 1]
    BY DEF Contents, EndWrite, history
  <2>2. Slot(k) # Slot(pnext[p]) /\ Slot(k) \in Slots
    BY <2>1, ClaimedSlotIsFree, SlotType
  <2> QED
    BY <2>2 DEF EndWrite, TypeOK, Contents
<1> QED
  BY <1>1, <1>3, <1>4, <1>5

\* A release appends the update that its slot holds to what consumers may read.
LEMMA ReleaseStep ==
    ASSUME SingleProducer, IInv, NEW p \in Producers, Release(p)
    PROVE  IInv'
<1> USE DEF IInv
<1>1. /\ pnext[p] = producer_sequence + 1 /\ pnext[p] < MaxPublish
      /\ pupdate[p] \in Updates
      /\ \A c \in Consumers : pnext[p] - consumer_sequences[id[c]] < Size
      /\ buffer[Slot(pnext[p])] = pupdate[p]
      /\ producer_sequence' = producer_sequence + 1
  BY DEF Release, Claim
<1>2. TypeOK'
  <2>1. producer_sequence' \in -1 .. MaxPublish - 1
    BY <1>1, BoundAssumption DEF TypeOK
  <2>2. published' \in Seq(Updates)
    BY <1>1 DEF TypeOK, Release
  <2> QED
    BY <2>1, <2>2 DEF TypeOK, Release, consumers
<1>3. Registered' = Registered
  BY DEF Release, Registered, consumers
<1>4. \A c \in Consumers : Added(c)
  BY PublishingFacts DEF Release
<1>5. /\ Len(published') = Len(published) + 1
      /\ published'[Len(published) + 1] = pupdate[p]
      /\ \A k \in 1 .. Len(published) : published'[k] = published[k]
  BY <1>1 DEF Release, TypeOK
<1>6. Registration'
  BY <1>3, <1>4 DEF Release, TypeOK, Registration, Added, consumers
<1>7. Counting'
  BY <1>1, <1>5 DEF Release, TypeOK, Counting, Added, consumers
<1>8. NotLapped'
  <2> SUFFICES ASSUME NEW c \in Consumers
               PROVE  /\ consumer_sequences[id[c]] <= producer_sequence'
                      /\ producer_sequence' - consumer_sequences[id[c]] < Size
    BY DEF NotLapped, Release, consumers
  <2>1. /\ consumer_sequences[id[c]] \in Int
        /\ consumer_sequences[id[c]] <= producer_sequence
    BY <1>4, PublishingFacts DEF Release, NotLapped
  <2> QED
    BY <1>1, <2>1 DEF TypeOK
<1>9. Claim'
  BY DEF Release, TypeOK, Claim, SingleProducer
<1>10. Contents'
  <2> SUFFICES ASSUME NEW k \in 0 .. producer_sequence + 1, k + Size > producer_sequence + 2
               PROVE  buffer[Slot(k)] = published'[k + 1]
    <3>1. producer_sequence' + 1 = producer_sequence + 2
      BY <1>1 DEF TypeOK
    <3> QED
      BY <1>1, <3>1 DEF Contents, Release
  <2>1. CASE k = producer_sequence + 1
    BY <1>1, <1>5, <2>1 DEF Counting
  <2>2. CASE k # producer_sequence + 1
    <3>1. k \in 0 .. producer_sequence /\ k + 1 \in 1 .. Len(published)
      BY <2>2 DEF TypeOK, Counting
    <3>2. k + Size > producer_sequence + 1
      BY SizeAssumption DEF TypeOK
    <3> QED
      BY <1>5, <3>1, <3>2 DEF Contents
  <2> QED
    BY <2>1, <2>2
<1>11. Reading'
  <2> SUFFICES ASSUME NEW c \in Consumers, cpc[c] \in {"copying", "copied"} PROVE Reading!(c)'
    BY DEF Reading, Release, consumers
  <2>1. cnext[c] + 1 \in 1 .. Len(published)
    BY DEF Reading, Counting, TypeOK
  <2> QED
    BY <1>1, <1>5, <2>1 DEF Reading, Release, TypeOK, consumers
<1>12. DeliveredInOrder'
  BY <1>5 DEF DeliveredInOrder, Release, TypeOK
<1> QED
  BY <1>2, <1>6, <1>7, <1>8, <1>9, <1>10, <1>11, <1>12

\* consume reads a number that has been released.
LEMMA BeginCopyStep ==
    ASSUME IInv, NEW c \in Consumers, BeginCopy(c)
    PROVE  IInv'
<1> USE DEF IInv
<1>1. /\ Added(c) /\ id[c] \in Ids
      /\ consumer_sequences[id[c]] \in -1 .. MaxPublish - 1
  BY AddedFacts DEF BeginCopy, Added
<1>2. TypeOK'
  <2>1. consumer_sequences[id[c]] + 1 \in 0 .. MaxPublish
    BY <1>1, BoundAssumption
  <2> QED
    BY <2>1 DEF TypeOK, BeginCopy, shared, producers, history
<1>3. Registered' = Registered
  BY DEF BeginCopy, Registered, TypeOK
<1>4. \A d \in Consumers : Added(d)' <=> Added(d)
  BY DEF BeginCopy, TypeOK, Added
<1>5. Registration' /\ Counting' /\ NotLapped'
  BY <1>3, <1>4 DEF BeginCopy, TypeOK, Registration, Counting, NotLapped, shared, producers, history
<1>6. Claim' /\ Contents' /\ DeliveredInOrder'
  BY DEF BeginCopy, Claim, Contents, DeliveredInOrder, shared, producers, history
<1>7. Reading'
  BY <1>1 DEF BeginCopy, TypeOK, Reading, shared, history
<1> QED
  BY <1>2, <1>5, <1>6, <1>7

\* The slot being copied is one of those Contents speaks of.
LEMMA EndCopyStep ==
    ASSUME IInv, NEW c \in Consumers, EndCopy(c)
    PROVE  IInv'
<1> USE DEF IInv
<1>1. /\ Added(c)
      /\ consumer_sequences[id[c]] \in -1 .. MaxPublish - 1
  BY AddedFacts DEF EndCopy, Added
<1>2. /\ cnext[c] \in 0 .. producer_sequence
      /\ cnext[c] + Size > producer_sequence + 1
  <2>1. cnext[c] = consumer_sequences[id[c]] + 1 /\ cnext[c] <= producer_sequence
    BY DEF EndCopy, Reading
  <2>2. producer_sequence - consumer_sequences[id[c]] < Size
    BY <1>1 DEF NotLapped
  <2> QED
    BY <1>1, <2>1, <2>2, SizeAssumption DEF TypeOK
<1>3. buffer[Slot(cnext[c])] = published[cnext[c] + 1] /\ Slot(cnext[c]) \in Slots
  BY <1>2, SlotType DEF Contents
<1>4. TypeOK'
  BY <1>3 DEF TypeOK, EndCopy, shared, producers, history
<1>5. Registered' = Registered
  BY DEF EndCopy, Registered, TypeOK
<1>6. \A d \in Consumers : Added(d)' <=> Added(d)
  BY DEF EndCopy, TypeOK, Added
<1>7. Registration' /\ Counting' /\ NotLapped'
  BY <1>5, <1>6 DEF EndCopy, TypeOK, Registration, Counting, NotLapped, shared, producers, history
<1>8. Claim' /\ Contents' /\ DeliveredInOrder'
  BY DEF EndCopy, Claim, Contents, DeliveredInOrder, shared, producers, history
<1>9. Reading'
  BY <1>3 DEF EndCopy, TypeOK, Reading, shared, history
<1> QED
  BY <1>4, <1>7, <1>8, <1>9

\* What consume returns is the next of the updates released.
LEMMA AdvanceStep ==
    ASSUME IInv, NEW c \in Consumers, Advance(c)
    PROVE  IInv'
<1> USE DEF IInv
<1>1. /\ Added(c) /\ c \in Registered /\ id[c] \in Ids
      /\ consumer_sequences[id[c]] \in -1 .. MaxPublish - 1
      /\ \A d \in Registered \ {c} : id[d] # id[c]
  BY AddedFacts DEF Advance, Added
<1>2. /\ cnext[c] = consumer_sequences[id[c]] + 1
      /\ cnext[c] <= producer_sequence
      /\ cupdate[c] = published[cnext[c] + 1]
  BY DEF Advance, Reading
<1>3. /\ consumer_sequences'[id[c]] = cnext[c]
      /\ \A i \in Ids : i # id[c] => consumer_sequences'[i] = consumer_sequences[i]
      /\ \A i \in Ids : consumer_sequences'[i] \in Int /\ consumer_sequences[i] \in Int
                        /\ consumer_sequences'[i] >= consumer_sequences[i]
  BY <1>1, <1>2 DEF Advance, TypeOK
<1>4. /\ Len(received'[c]) = Len(received[c]) + 1
      /\ received'[c][Len(received[c]) + 1] = cupdate[c]
      /\ \A k \in 1 .. Len(received[c]) : received'[c][k] = received[c][k]
      /\ \A d \in Consumers : d # c => received'[d] = received[d]
  BY DEF Advance, TypeOK
<1>5. TypeOK'
  <2>1. consumer_sequences' \in [Ids -> -1 .. MaxPublish - 1]
    <3>1. cnext[c] \in -1 .. MaxPublish - 1
      <4>1. producer_sequence \in -1 .. MaxPublish - 1 /\ cnext[c] \in 0 .. MaxPublish
        BY DEF TypeOK
      <4> QED
        BY <1>2, <4>1, BoundAssumption
    <3> QED
      BY <3>1 DEF Advance, TypeOK
  <2>2. received' \in [Consumers -> Seq(Updates \cup {Blank, Torn})]
    BY DEF Advance, TypeOK
  <2> QED
    BY <2>1, <2>2 DEF TypeOK, Advance, producers
<1>6. Registered' = Registered
  BY DEF Advance, Registered, TypeOK
<1>7. \A d \in Consumers : Added(d)' <=> Added(d)
  BY DEF Advance, TypeOK, Added
<1>8. \A d \in Consumers : d # c /\ cpc[d] # "new" =>
         id[d] \in Ids /\ consumer_sequences'[id[d]] = consumer_sequences[id[d]]
  <2> SUFFICES ASSUME NEW d \in Consumers, d # c, cpc[d] # "new"
               PROVE  id[d] \in Ids /\ consumer_sequences'[id[d]] = consumer_sequences[id[d]]
    OBVIOUS
  <2>1. d \in Registered
    BY DEF Registered
  <2>2. id[d] \in Ids
    BY <2>1, ConsumersAssumption DEF TypeOK, Registration, Ids
  <2> QED
    BY <1>1, <1>3, <2>1, <2>2
<1>9. Registration'
  <2>1. \A d \in Consumers : cpc'[d] = "sequenced" => consumer_sequences'[id[d]] = -1
    BY <1>8 DEF Advance, TypeOK, Registration
  <2>2. \A d \in Consumers : ~Added(d)' => received'[d] = <<>>
    BY <1>1, <1>4, <1>7 DEF Registration
  <2> QED
    BY <1>6, <1>7, <2>1, <2>2 DEF Advance, Registration, producers
<1>10. Counting'
  <2> SUFFICES ASSUME NEW d \in Consumers, Added(d)
               PROVE  Len(received'[d]) = consumer_sequences'[id[d]] + 1
    BY <1>7 DEF Counting, Advance
  <2>1. CASE d = c
    BY <1>1, <1>2, <1>3, <1>4, <2>1 DEF Counting
  <2>2. CASE d # c
    BY <1>4, <1>8, <2>2 DEF Counting, Added
  <2> QED
    BY <2>1, <2>2
<1>11. NotLapped'
  <2> SUFFICES ASSUME NEW d \in Consumers, Added(d)
               PROVE  /\ consumer_sequences'[id[d]] <= producer_sequence
                      /\ producer_sequence - consumer_sequences'[id[d]] < Size
    BY <1>7 DEF NotLapped, Advance
  <2>1. CASE d = c
    BY <1>1, <1>2, <1>3, <2>1, SizeAssumption DEF NotLapped, TypeOK
  <2>2. CASE d # c
    BY <1>8, <2>2 DEF NotLapped, Added
  <2> QED
    BY <2>1, <2>2
<1>12. Claim'
  <2> SUFFICES ASSUME NEW p \in Producers, ppc[p] # "idle" PROVE Claim!(p)'
    BY DEF Claim, Advance, producers
  <2>1. \A d \in Consumers :
          /\ consumer_sequences'[id[d]] \in Int /\ consumer_sequences[id[d]] \in Int
          /\ consumer_sequences'[id[d]] >= consumer_sequences[id[d]]
    BY <1>3, PublishingFacts
  <2>2. pnext[p] \in Int /\ min[p] \in Int
    BY BoundAssumption DEF TypeOK
  <2>3. ASSUME NEW d \in Consumers, ppc[p] # "scan"
        PROVE  pnext[p] - consumer_sequences'[id[d]] < Size
    <3>1. pnext[p] - consumer_sequences[id[d]] < Size
      BY <2>3 DEF Claim
    <3> QED
      BY <2>1, <2>2, <3>1, SizeAssumption
  <2>4. ASSUME NEW d \in Consumers, ppc[p] = "scan", id[d] < scan[p]
        PROVE  min[p] <= consumer_sequences'[id[d]]
    <3>1. min[p] <= consumer_sequences[id[d]]
      BY <2>4 DEF Claim
    <3> QED
      BY <2>1, <2>2, <3>1
  <2> QED
    BY <2>3, <2>4 DEF Claim, Advance, producers
<1>13. Contents'
  BY DEF Contents, Advance
<1>14. Reading'
  BY <1>8 DEF Reading, Advance, TypeOK
<1>15. DeliveredInOrder'
  <2>1. Len(received[c]) = cnext[c] /\ cnext[c] \in Nat
    BY <1>1, <1>2 DEF Counting, TypeOK
  <2>2. Len(received'[c]) <= Len(published)
    BY <1>2, <1>4, <2>1 DEF Counting, TypeOK
  <2>3. \A k \in 1 .. Len(received'[c]) : received'[c][k] = published[k]
    BY <1>2, <1>4, <2>1 DEF DeliveredInOrder
  <2> QED
    BY <1>4, <2>2, <2>3 DEF DeliveredInOrder, Advance
<1> QED
  BY <1>5, <1>9, <1>10, <1>11, <1>12, <1>13, <1>14, <1>15

\* A step that changes nothing keeps the invariant.
LEMMA StutterStep ==
    ASSUME IInv, UNCHANGED vars
    PROVE  IInv'
<1> USE DEF IInv
<1>1. Registered' = Registered
  BY DEF vars, Registered, consumers
<1> QED
  BY <1>1 DEF vars, shared, producers, consumers, history, TypeOK, Registration, Counting, Claim,
              NotLapped, Contents, Reading, DeliveredInOrder, Added

\* Every step keeps the invariant.
LEMMA NextIInv ==
    ASSUME SingleProducer, IInv, [Next]_vars
    PROVE  IInv'
<1>1. ASSUME NEW p \in Producers, BeginPublish(p) \/ Publishing(p) PROVE IInv'
  BY <1>1, BeginPublishStep, ScanConsumerStep, ClaimSlotStep, YieldStep, BeginWriteStep,
     EndWriteStep, ReleaseStep DEF Publishing
<1>2. ASSUME NEW c \in Consumers, AddConsumer(c) \/ Consume(c) PROVE IInv'
  BY <1>2, TakeIdStep, StartAtProducerStep, ActivateStep, BeginCopyStep, EndCopyStep, AdvanceStep
     DEF AddConsumer, Consume
<1> QED
  BY <1>1, <1>2, StutterStep DEF Next

\* The inductive invariant holds for ever, for every Size, number of consumers and
\* set of updates, as long as one thread publishes.
THEOREM Invariance ==
    ASSUME SingleProducer
    PROVE  Spec => []IInv
<1>1. IInv /\ [Next]_vars => IInv'
  BY NextIInv
<1> QED
  BY InitIInv, <1>1, PTL DEF Spec

(***************************************************************************)
(* What follows from it                                                    *)
(***************************************************************************)

\* Every variable keeps its type, however long the run.
THEOREM TypeCorrect ==
    ASSUME SingleProducer
    PROVE  Spec => []TypeOK
  BY Invariance, PTL DEF IInv

\* disruptor.h's claim to be lossless: what consume returns is what publish was
\* given, in order, with nothing missing, repeated or torn.
THEOREM LosslessInOrder ==
    ASSUME SingleProducer
    PROVE  Spec => []DeliveredInOrder
  BY Invariance, PTL DEF IInv

\* publish never overtakes the slowest consumer.
THEOREM NeverLapped ==
    ASSUME SingleProducer
    PROVE  Spec => []NotLapped
  BY Invariance, PTL DEF IInv

\* The plain reads and writes of the slots never race.
THEOREM RaceFree ==
    ASSUME SingleProducer
    PROVE  Spec => []NoSlotRace
<1>1. IInv => NoSlotRace
  <2> SUFFICES ASSUME IInv, NEW p \in Producers, ppc[p] = "writing"
               PROVE  NoSlotRace!(p)!2
    BY DEF NoSlotRace
  <2>1. ASSUME NEW c \in Consumers, cpc[c] = "copying"
        PROVE  Slot(cnext[c]) # Slot(pnext[p])
    <3>1. consumer_sequences[id[c]] \in -1 .. MaxPublish - 1
      BY PublishingFacts DEF IInv
    <3>2. /\ cnext[c] = consumer_sequences[id[c]] + 1 /\ cnext[c] <= producer_sequence
          /\ pnext[p] = producer_sequence + 1
          /\ pnext[p] - consumer_sequences[id[c]] < Size
      BY <2>1 DEF IInv, Reading, Claim
    <3>3. cnext[c] \in 0 .. producer_sequence /\ cnext[c] + Size > producer_sequence + 1
      BY <3>1, <3>2, SizeAssumption DEF IInv, TypeOK
    <3> QED
      BY <3>2, <3>3, ClaimedSlotIsFree DEF IInv
  <2>2. \A q \in Producers : q = p
    BY DEF SingleProducer
  <2> QED
    BY <2>1, <2>2
<1> QED
  BY <1>1, Invariance, PTL

\* A number that may be read may be read for ever.
THEOREM NeverRetreats ==
    ASSUME SingleProducer
    PROVE  Spec => SequenceNeverRetreats
<1>1. IInv /\ [Next]_vars => [producer_sequence' >= producer_sequence]_vars
  <2> SUFFICES ASSUME IInv, Next PROVE producer_sequence' >= producer_sequence
    OBVIOUS
  <2>1. producer_sequence \in Int
    BY DEF IInv, TypeOK
  <2>2. ASSUME NEW p \in Producers, Release(p) PROVE producer_sequence' >= producer_sequence
    BY <2>1, <2>2 DEF Release, IInv, Claim
  <2>3. ASSUME NEW p \in Producers, BeginPublish(p) \/ ScanConsumer(p) \/ ClaimSlot(p) \/ Yield(p)
                                    \/ BeginWrite(p) \/ EndWrite(p)
        PROVE  producer_sequence' = producer_sequence
    BY <2>3 DEF BeginPublish, ScanConsumer, ClaimSlot, Yield, BeginWrite, EndWrite, shared
  <2>4. ASSUME NEW c \in Consumers, AddConsumer(c) \/ Consume(c)
        PROVE  producer_sequence' = producer_sequence
    BY <2>4 DEF AddConsumer, Consume, TakeId, StartAtProducer, Activate, BeginCopy, EndCopy,
                Advance, shared
  <2> QED
    BY <2>1, <2>2, <2>3, <2>4 DEF Next, Publishing
<1> QED
  BY <1>1, Invariance, PTL DEF Spec, SequenceNeverRetreats

\* The ring implements the safety part of UpdateLog: only Release appends and only
\* Advance delivers, each as the log allows; every other step is a stutter.
THEOREM RefinesLog ==
    ASSUME SingleProducer
    PROVE  Spec => Log!Init /\ [][Log!Next]_(Log!logVars)
<1>1. Init => Log!Init
  BY DEF Init, Log!Init
<1>2. ASSUME IInv, NEW p \in Producers, Release(p)
      PROVE  Log!Publish(pupdate[p])
  <2>1. /\ pnext[p] = producer_sequence + 1
        /\ \A c \in Consumers : pnext[p] - consumer_sequences[id[c]] < Size
    BY <1>2 DEF Release, IInv, Claim
  <2>2. ASSUME NEW c \in Consumers
        PROVE  Len(published) - Len(received[c]) < Size - 1
    <3>1. Added(c) /\ consumer_sequences[id[c]] \in Int
      BY <1>2, PublishingFacts DEF Release, IInv
    <3>2. /\ Len(published) = producer_sequence + 1
          /\ Len(received[c]) = consumer_sequences[id[c]] + 1
      BY <1>2, <3>1 DEF IInv, Counting
    <3> QED
      BY <1>2, <2>1, <3>1, <3>2, SizeAssumption DEF IInv, TypeOK
  <2> QED
    BY <1>2, <2>2 DEF Release, Log!Publish, Log!Behind
<1>3. ASSUME IInv, NEW c \in Consumers, Advance(c)
      PROVE  Log!Deliver(c)
  <2>1. /\ cnext[c] = consumer_sequences[id[c]] + 1
        /\ cnext[c] <= producer_sequence
        /\ cupdate[c] = published[cnext[c] + 1]
    BY <1>3 DEF Advance, IInv, Reading
  <2>2. Len(received[c]) = cnext[c] /\ Len(published) = producer_sequence + 1
    BY <1>3, <2>1 DEF Advance, IInv, Counting, Added
  <2>3. received' = [received EXCEPT ![c] = Append(@, published[Len(@) + 1])]
    BY <1>3, <2>1, <2>2 DEF Advance, IInv, TypeOK
  <2>4. Len(received[c]) < Len(published)
    BY <1>3, <2>1, <2>2 DEF IInv, TypeOK
  <2> QED
    BY <1>3, <2>3, <2>4 DEF Advance, Log!Deliver
<1>4. IInv /\ [Next]_vars => [Log!Next]_(Log!logVars)
  <2> SUFFICES ASSUME IInv, [Next]_vars PROVE [Log!Next]_(Log!logVars)
    OBVIOUS
  <2>1. ASSUME NEW p \in Producers, Release(p) PROVE Log!Next
    BY <1>2, <2>1 DEF IInv, Claim, Release, Log!Next
  <2>2. ASSUME NEW c \in Consumers, Advance(c) PROVE Log!Next
    BY <1>3, <2>2 DEF Log!Next
  <2>3. ASSUME NEW p \in Producers, BeginPublish(p) \/ ScanConsumer(p) \/ ClaimSlot(p) \/ Yield(p)
                                    \/ BeginWrite(p) \/ EndWrite(p)
        PROVE  UNCHANGED Log!logVars
    BY <2>3 DEF BeginPublish, ScanConsumer, ClaimSlot, Yield, BeginWrite, EndWrite, history,
                Log!logVars
  <2>4. ASSUME NEW c \in Consumers, AddConsumer(c) \/ BeginCopy(c) \/ EndCopy(c)
        PROVE  UNCHANGED Log!logVars
    BY <2>4 DEF AddConsumer, TakeId, StartAtProducer, Activate, BeginCopy, EndCopy, history,
                Log!logVars
  <2>5. CASE UNCHANGED vars
    BY <2>5 DEF vars, history, Log!logVars
  <2> QED
    BY <2>1, <2>2, <2>3, <2>4, <2>5 DEF Next, Publishing, Consume
<1> QED
  BY <1>1, <1>4, Invariance, PTL DEF Spec

=============================================================================
