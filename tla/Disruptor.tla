------------------------------ MODULE Disruptor ------------------------------
(***************************************************************************)
(* The ring buffer of scr/disruptor.h, through which the exchange threads  *)
(* hand order-book updates to the aggregator.  Every atomic load and store *)
(* that another thread can observe is a step of its own, and the copies of *)
(* an OrderBookUpdate into and out of a slot, which are not atomic, are an *)
(* interval: the slot is Torn from the first to the last byte of a write.  *)
(*                                                                         *)
(* main.cpp registers its consumer before it starts an exchange thread, so *)
(* a publish begins only when every consumer has been added.               *)
(***************************************************************************)
EXTENDS Integers, Sequences, FiniteSets

CONSTANTS
    Producers,      \* threads that call publish
    Consumers,      \* threads that call add_consumer once and then consume
    Updates,        \* the values an OrderBookUpdate takes
    Blank,          \* a default-constructed slot
    Torn,           \* a slot some of whose bytes have been overwritten
    Size,           \* the template parameter SIZE
    MaxConsumers,   \* MAX_CONSUMERS
    LongMax,        \* LONG_MAX: above every sequence number reached
    MaxPublish      \* bound on the number of publishes explored

ASSUME SizeAssumption == Size \in Nat \ {0}
ASSUME ConsumersAssumption ==
    /\ IsFiniteSet(Consumers)
    /\ MaxConsumers \in Nat
    /\ Cardinality(Consumers) <= MaxConsumers
ASSUME BoundAssumption ==
    /\ MaxPublish \in Nat
    /\ LongMax \in Int
    /\ LongMax > MaxPublish
ASSUME ValuesAssumption == Blank \notin Updates /\ Torn \notin Updates

VARIABLES
    buffer,              \* buffer[0 .. Size-1]
    producer_sequence,   \* the last sequence number published
    consumer_sequences,  \* consumer_sequences[i]: the last one consumer i has read
    consumer_active,     \* consumer_active[i]
    consumer_count,      \* number of ids handed out
    ppc,                 \* where each producer is in publish
    pnext,               \* publish: next
    pupdate,             \* publish: its argument
    scan,                \* find_minimum: i
    min,                 \* find_minimum: min
    cpc,                 \* where each consumer is in add_consumer or consume
    id,                  \* add_consumer's id, then the aggregator's consumer_id
    cnext,               \* consume: next
    cupdate,             \* consume: its output parameter
    published,           \* history: the updates in the order they were released
    received             \* history: the updates consume has returned to each consumer

shared    == <<buffer, producer_sequence, consumer_sequences, consumer_active, consumer_count>>
producers == <<ppc, pnext, pupdate, scan, min>>
consumers == <<cpc, id, cnext, cupdate>>
history   == <<published, received>>
vars      == <<shared, producers, consumers, history>>

Slots == 0 .. Size - 1
Ids   == 0 .. MaxConsumers - 1

Slot(sequence) == sequence % Size

TypeOK ==
    /\ buffer \in [Slots -> Updates \cup {Blank, Torn}]
    /\ producer_sequence \in -1 .. MaxPublish - 1
    /\ consumer_sequences \in [Ids -> -1 .. MaxPublish - 1]
    /\ consumer_active \in [Ids -> BOOLEAN]
    /\ consumer_count \in 0 .. MaxConsumers
    /\ ppc \in [Producers -> {"idle", "scan", "claimed", "writing", "written"}]
    /\ pnext \in [Producers -> 0 .. MaxPublish]
    /\ pupdate \in [Producers -> Updates \cup {Blank}]
    /\ scan \in [Producers -> 0 .. MaxConsumers]
    /\ min \in [Producers -> -1 .. LongMax]
    /\ cpc \in [Consumers -> {"new", "registered", "sequenced", "ready", "copying", "copied"}]
    /\ id \in [Consumers -> 0 .. MaxConsumers]
    /\ cnext \in [Consumers -> 0 .. MaxPublish]
    /\ cupdate \in [Consumers -> Updates \cup {Blank, Torn}]
    /\ published \in Seq(Updates)
    /\ received \in [Consumers -> Seq(Updates \cup {Blank, Torn})]

Init ==
    /\ buffer = [s \in Slots |-> Blank]
    /\ producer_sequence = -1
    /\ consumer_sequences = [i \in Ids |-> -1]
    /\ consumer_active = [i \in Ids |-> FALSE]
    /\ consumer_count = 0
    /\ ppc = [p \in Producers |-> "idle"]
    /\ pnext = [p \in Producers |-> 0]
    /\ pupdate = [p \in Producers |-> Blank]
    /\ scan = [p \in Producers |-> 0]
    /\ min = [p \in Producers |-> LongMax]
    /\ cpc = [c \in Consumers |-> "new"]
    /\ id = [c \in Consumers |-> 0]
    /\ cnext = [c \in Consumers |-> 0]
    /\ cupdate = [c \in Consumers |-> Blank]
    /\ published = <<>>
    /\ received = [c \in Consumers |-> <<>>]

-----------------------------------------------------------------------------
(***************************************************************************)
(* Faulty variants of some of the steps below, used to show that the       *)
(* properties at the end notice them.                                      *)
(***************************************************************************)

\* find_minimum keeps the last active consumer instead of the slowest.
ScanKeepsLast(p) ==
    /\ ppc[p] = "scan"
    /\ scan[p] < consumer_count
    /\ min' = [min EXCEPT ![p] = IF consumer_active[scan[p]] THEN consumer_sequences[scan[p]] ELSE @]
    /\ scan' = [scan EXCEPT ![p] = @ + 1]
    /\ UNCHANGED <<shared, ppc, pnext, pupdate, consumers, history>>

\* The while condition of publish is > SIZE.
ClaimOneMore(p) ==
    /\ ppc[p] = "scan"
    /\ scan[p] = consumer_count
    /\ pnext[p] - min[p] <= Size
    /\ ppc' = [ppc EXCEPT ![p] = "claimed"]
    /\ UNCHANGED <<shared, pnext, pupdate, scan, min, consumers, history>>

\* min outlives the loop: the next look starts from the old minimum.
YieldKeepsMinimum(p) ==
    /\ ppc[p] = "scan"
    /\ scan[p] = consumer_count
    /\ scan' = [scan EXCEPT ![p] = 0]
    /\ UNCHANGED <<shared, ppc, pnext, pupdate, min, consumers, history>>

\* The sequence is stored before the slot is written.
ReleaseBeforeWrite(p) ==
    /\ ppc[p] = "claimed"
    /\ buffer' = [buffer EXCEPT ![Slot(pnext[p])] = Torn]
    /\ producer_sequence' = pnext[p]
    /\ ppc' = [ppc EXCEPT ![p] = "writing"]
    /\ UNCHANGED <<consumer_sequences, consumer_active, consumer_count,
                   pnext, pupdate, scan, min, consumers, history>>

\* The masked index is stored instead of the sequence.
ReleaseMasked(p) ==
    /\ ppc[p] = "written"
    /\ producer_sequence' = Slot(pnext[p])
    /\ published' = Append(published, pupdate[p])
    /\ ppc' = [ppc EXCEPT ![p] = "idle"]
    /\ UNCHANGED <<buffer, consumer_sequences, consumer_active, consumer_count,
                   pnext, pupdate, scan, min, consumers, received>>

\* consume does not look at producer_sequence ...
CopyUnchecked(c) ==
    /\ cpc[c] = "ready"
    /\ cnext' = [cnext EXCEPT ![c] = consumer_sequences[id[c]] + 1]
    /\ cpc' = [cpc EXCEPT ![c] = "copying"]
    /\ UNCHANGED <<shared, producers, id, cupdate, history>>

\* ... or gives up when the next update is the last one released.
CopyAllButLast(c) ==
    /\ cpc[c] = "ready"
    /\ consumer_sequences[id[c]] + 1 < producer_sequence
    /\ cnext' = [cnext EXCEPT ![c] = consumer_sequences[id[c]] + 1]
    /\ cpc' = [cpc EXCEPT ![c] = "copying"]
    /\ UNCHANGED <<shared, producers, id, cupdate, history>>

-----------------------------------------------------------------------------
(* add_consumer *)

TakeId(c) ==
    /\ cpc[c] = "new"
    /\ id' = [id EXCEPT ![c] = consumer_count]
    /\ consumer_count' = consumer_count + 1
    /\ cpc' = [cpc EXCEPT ![c] = "registered"]
    /\ UNCHANGED <<buffer, producer_sequence, consumer_sequences, consumer_active,
                   producers, cnext, cupdate, history>>

StartAtProducer(c) ==
    /\ cpc[c] = "registered"
    /\ consumer_sequences' = [consumer_sequences EXCEPT ![id[c]] = producer_sequence]
    /\ cpc' = [cpc EXCEPT ![c] = "sequenced"]
    /\ UNCHANGED <<buffer, producer_sequence, consumer_active, consumer_count,
                   producers, id, cnext, cupdate, history>>

Activate(c) ==
    /\ cpc[c] = "sequenced"
    /\ consumer_active' = [consumer_active EXCEPT ![id[c]] = TRUE]
    /\ cpc' = [cpc EXCEPT ![c] = "ready"]
    /\ UNCHANGED <<buffer, producer_sequence, consumer_sequences, consumer_count,
                   producers, id, cnext, cupdate, history>>

Added(c) == cpc[c] \in {"ready", "copying", "copied"}

-----------------------------------------------------------------------------
(* publish.  consumer_count no longer changes when a publish runs, so the   *)
(* scan compares with the variable rather than with a copy of it.           *)

BeginPublish(p) ==
    /\ ppc[p] = "idle"
    /\ \A c \in Consumers : Added(c)
    /\ producer_sequence + 1 < MaxPublish
    /\ \E u \in Updates : pupdate' = [pupdate EXCEPT ![p] = u]
    /\ pnext' = [pnext EXCEPT ![p] = producer_sequence + 1]
    /\ scan' = [scan EXCEPT ![p] = 0]
    /\ min' = [min EXCEPT ![p] = LongMax]
    /\ ppc' = [ppc EXCEPT ![p] = "scan"]
    /\ UNCHANGED <<shared, consumers, history>>

\* One turn of find_minimum's loop.
ScanConsumer(p) ==
    /\ ppc[p] = "scan"
    /\ scan[p] < consumer_count
    /\ min' = [min EXCEPT ![p] =
                 IF consumer_active[scan[p]] /\ consumer_sequences[scan[p]] < @
                 THEN consumer_sequences[scan[p]] ELSE @]
    /\ scan' = [scan EXCEPT ![p] = @ + 1]
    /\ UNCHANGED <<shared, ppc, pnext, pupdate, consumers, history>>

FoundMinimum(p) == IF min[p] = LongMax THEN producer_sequence - Size ELSE min[p]

\* find_minimum returns to the while condition of publish: the ring has room ...
ClaimSlot(p) ==
    /\ ppc[p] = "scan"
    /\ scan[p] = consumer_count
    /\ pnext[p] - FoundMinimum(p) < Size
    /\ ppc' = [ppc EXCEPT ![p] = "claimed"]
    /\ UNCHANGED <<shared, pnext, pupdate, scan, min, consumers, history>>

\* ... or it has none: yield and look again.
Yield(p) ==
    /\ ppc[p] = "scan"
    /\ scan[p] = consumer_count
    /\ pnext[p] - FoundMinimum(p) >= Size
    /\ scan' = [scan EXCEPT ![p] = 0]
    /\ min' = [min EXCEPT ![p] = LongMax]
    /\ UNCHANGED <<shared, ppc, pnext, pupdate, consumers, history>>

BeginWrite(p) ==
    /\ ppc[p] = "claimed"
    /\ buffer' = [buffer EXCEPT ![Slot(pnext[p])] = Torn]
    /\ ppc' = [ppc EXCEPT ![p] = "writing"]
    /\ UNCHANGED <<producer_sequence, consumer_sequences, consumer_active, consumer_count,
                   pnext, pupdate, scan, min, consumers, history>>

EndWrite(p) ==
    /\ ppc[p] = "writing"
    /\ buffer' = [buffer EXCEPT ![Slot(pnext[p])] = pupdate[p]]
    /\ ppc' = [ppc EXCEPT ![p] = "written"]
    /\ UNCHANGED <<producer_sequence, consumer_sequences, consumer_active, consumer_count,
                   pnext, pupdate, scan, min, consumers, history>>

Release(p) ==
    /\ ppc[p] = "written"
    /\ producer_sequence' = pnext[p]
    /\ published' = Append(published, pupdate[p])
    /\ ppc' = [ppc EXCEPT ![p] = "idle"]
    /\ UNCHANGED <<buffer, consumer_sequences, consumer_active, consumer_count,
                   pnext, pupdate, scan, min, consumers, received>>

-----------------------------------------------------------------------------
(* consume.  A call that finds nothing new returns false and changes        *)
(* nothing; the aggregator calls again.                                     *)

BeginCopy(c) ==
    /\ cpc[c] = "ready"
    /\ consumer_sequences[id[c]] + 1 <= producer_sequence
    /\ cnext' = [cnext EXCEPT ![c] = consumer_sequences[id[c]] + 1]
    /\ cpc' = [cpc EXCEPT ![c] = "copying"]
    /\ UNCHANGED <<shared, producers, id, cupdate, history>>

EndCopy(c) ==
    /\ cpc[c] = "copying"
    /\ cupdate' = [cupdate EXCEPT ![c] = buffer[Slot(cnext[c])]]
    /\ cpc' = [cpc EXCEPT ![c] = "copied"]
    /\ UNCHANGED <<shared, producers, id, cnext, history>>

Advance(c) ==
    /\ cpc[c] = "copied"
    /\ consumer_sequences' = [consumer_sequences EXCEPT ![id[c]] = cnext[c]]
    /\ received' = [received EXCEPT ![c] = Append(@, cupdate[c])]
    /\ cpc' = [cpc EXCEPT ![c] = "ready"]
    /\ UNCHANGED <<buffer, producer_sequence, consumer_active, consumer_count,
                   producers, id, cnext, cupdate, published>>

-----------------------------------------------------------------------------
AddConsumer(c) == TakeId(c) \/ StartAtProducer(c) \/ Activate(c)
Publishing(p)  == ScanConsumer(p) \/ ClaimSlot(p) \/ Yield(p) \/ BeginWrite(p)
                  \/ EndWrite(p) \/ Release(p)
Consume(c)     == BeginCopy(c) \/ EndCopy(c) \/ Advance(c)

Next ==
    \/ \E p \in Producers : BeginPublish(p) \/ Publishing(p)
    \/ \E c \in Consumers : AddConsumer(c) \/ Consume(c)

(* Threads are scheduled: main finishes add_consumer, a publish that has    *)
(* begun keeps running and the aggregator keeps polling.  Nothing says that *)
(* an exchange ever sends another update, so BeginPublish is not fair.      *)
Fairness ==
    /\ \A p \in Producers : WF_vars(Publishing(p))
    /\ \A c \in Consumers : WF_vars(AddConsumer(c)) /\ WF_vars(Consume(c))

Spec == Init /\ [][Next]_vars /\ Fairness

-----------------------------------------------------------------------------
(* Properties *)

\* No consumer copies a slot while a producer writes it, and no two producers
\* write one slot at the same time: the two plain copies of publish and consume
\* are never a data race.
NoSlotRace ==
    \A p \in Producers : ppc[p] = "writing" =>
        /\ \A c \in Consumers : cpc[c] = "copying" => Slot(cnext[c]) # Slot(pnext[p])
        /\ \A q \in Producers \ {p} : ppc[q] = "writing" => Slot(pnext[q]) # Slot(pnext[p])

\* The releases a consumer has not read still lie in the ring: publish waits for
\* the slowest consumer, whatever happens between find_minimum and the release.  As the
\* code has it one place stays free: a consumer Size behind would not have lost anything yet.
NotLapped ==
    \A c \in Consumers : Added(c) =>
        /\ consumer_sequences[id[c]] <= producer_sequence
        /\ producer_sequence - consumer_sequences[id[c]] < Size

\* What consume has returned to a consumer is a prefix of what publish released:
\* nothing lost, repeated, torn or out of order, over any number of turns round
\* the ring.
DeliveredInOrder ==
    \A c \in Consumers :
        /\ Len(received[c]) <= Len(published)
        /\ \A k \in 1 .. Len(received[c]) : received[c][k] = published[k]

\* A release never takes the sequence back: once consume may read a number it
\* may read it for ever.
SequenceNeverRetreats == [][producer_sequence' >= producer_sequence]_vars

\* A publish that has begun returns: a full ring drains.
PublishReturns == \A p \in Producers : ppc[p] # "idle" ~> ppc[p] = "idle"

\* What the exchange threads push, the aggregator drains: the n-th update released
\* reaches every consumer.
EveryUpdateDelivered ==
    \A n \in 1 .. MaxPublish :
        Len(published) >= n ~> \A c \in Consumers : Len(received[c]) >= n

\* The ring is the bounded broadcast log of UpdateLog: it holds Size - 1 unread
\* updates, and every consumer is eventually handed every one.
Log == INSTANCE UpdateLog WITH
    Readers <- Consumers, Entries <- Updates, Capacity <- Size - 1,
    log <- published, delivered <- received
ImplementsUpdateLog == Log!Spec

=============================================================================
