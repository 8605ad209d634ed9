------------------------ MODULE AlarmDelivery_proofs ------------------------
(***************************************************************************)
(* Proofs about AlarmDelivery for any events, limits and faults.           *)
(***************************************************************************)
EXTENDS AlarmDelivery, FiniteSetTheorems, SequenceTheorems, TLAPS

Delivery == [generation : Nat, sequences : [1..2 -> Nat], confirmed : [1..2 -> BOOLEAN]]

Message == [seq : Nat, event : Events, topic : 1..2, claimed : BOOLEAN]

DeliveryTypes ==
  /\ outbox \in Seq(Events) /\ batch \in Seq(Events)
  /\ step \in {"idle", "append", "deliver", "remove"}
  /\ produced \subseteq Events
  /\ deliveries \in [Events -> Delivery]
  /\ generation \in Nat /\ sequence \in Nat \ {0}
  /\ enabled \in BOOLEAN
  /\ wire \subseteq Message

(***************************************************************************)
(* The numbers of publications.  A number stands for one topic of one      *)
(* event; a receipt, or a message whose receipt is wanted, for a number    *)
(* some delivery waits for; and what is confirmed has been received.       *)
(***************************************************************************)
Number(e, i) == deliveries[e].sequences[i]

Confirmed(e, i) == deliveries[e].confirmed[i]

NumbersAreOwn ==
  /\ \A e \in Events, i \in 1..2 : Number(e, i) < sequence /\ (i \notin Topics(e) => Number(e, i) = 0)
  /\ \A e, f \in Events, i, j \in 1..2 : Number(e, i) = Number(f, j) /\ Number(e, i) # 0 => e = f /\ i = j

ReceiptsAreWanted ==
  /\ \A s \in acked : s # 0 /\ \E e \in Events, i \in 1..2 : Number(e, i) = s /\ ~Confirmed(e, i)
  /\ \A m \in wire : m.claimed =>
       /\ m.seq # 0 /\ m.seq \notin acked
       /\ Number(m.event, m.topic) = m.seq /\ ~Confirmed(m.event, m.topic)

ConfirmedIsReceived ==
  \A e \in Events, i \in 1..2 : Confirmed(e, i) \/ Number(e, i) \in acked => <<e, i>> \in received

DeliveriesAreRecent ==
  /\ \A e \in Events : deliveries[e] # NoDelivery => deliveries[e].generation = generation
  /\ ~up => deliveries = NothingInFlight
  /\ ~enabled => wire = {} /\ acked = {}

Ledger == NumbersAreOwn /\ ReceiptsAreWanted /\ ConfirmedIsReceived /\ DeliveriesAreRecent

(* What the pass has found out about its first event.                      *)
PassInv ==
  /\ step # "idle" => batch # <<>>
  /\ step \in {"deliver", "remove"} => Head(batch) \in stored
  /\ step = "remove" => Head(batch) \in unsent \/ \A i \in Topics(Head(batch)) : <<Head(batch), i>> \in received

DeliveryInv == DeliveryTypes /\ Ledger /\ PassInv /\ NothingIsLost

(***************************************************************************)
(* Sequences and small sets.                                               *)
(***************************************************************************)
LEMMA TopicsAreTwo == \A e : Topics(e) \subseteq 1..2
  BY DEF Topics

LEMMA NoDeliveryIsDelivery ==
  /\ NoDelivery \in Delivery /\ NothingInFlight \in [Events -> Delivery]
  /\ \A i \in 1..2 : NoDelivery.sequences[i] = 0 /\ ~NoDelivery.confirmed[i]
  BY DEF NoDelivery, Delivery, NothingInFlight

LEMMA WithoutKeeps ==
  ASSUME NEW s \in Seq(Events), NEW e
  PROVE  /\ Without(s, e) \in Seq(Events)
         /\ \A f \in Listed(s) : f # e => f \in Listed(Without(s, e))
<1>1. CASE e \notin Listed(s)
  BY <1>1 DEF Without
<1>2. CASE e \in Listed(s)
  <2> DEFINE i == CHOOSE i \in 1..Len(s) : s[i] = e
             a == SubSeq(s, 1, i - 1)
             b == SubSeq(s, i + 1, Len(s))
  <2>1. i \in 1..Len(s) /\ s[i] = e
    BY <1>2 DEF Listed
  <2>2. Without(s, e) = a \o b
    BY <1>2 DEF Without
  <2> HIDE DEF i
  <2>3. a \in Seq(Events) /\ Len(a) = i - 1 /\ \A k \in 1 .. i - 1 : a[k] = s[k]
    BY <2>1
  <2>4. b \in Seq(Events) /\ Len(b) = Len(s) - i /\ \A k \in 1 .. Len(s) - i : b[k] = s[i + k]
    BY <2>1
  <2> HIDE DEF a, b
  <2>5. a \o b \in Seq(Events) /\ Len(a \o b) = Len(s) - 1
    <3>1. Len(a) + Len(b) = Len(s) - 1
      BY <2>1, <2>3, <2>4
    <3> QED BY <2>3, <2>4, <3>1
  <2>6. ASSUME NEW k \in 1..Len(s), s[k] # e
        PROVE  \E n \in 1 .. Len(s) - 1 : (a \o b)[n] = s[k]
    <3>1. CASE k < i
      <4>1. k \in 1 .. Len(s) - 1 /\ (a \o b)[k] = s[k]
        BY <2>1, <2>3, <2>4, <3>1
      <4> QED BY <4>1
    <3>2. CASE k > i
      <4>1. k - 1 \in 1 .. Len(s) - 1 /\ k - i \in 1 .. Len(s) - i /\ (a \o b)[k - 1] = b[k - i]
        BY <2>1, <2>3, <2>4, <3>2
      <4>2. b[k - i] = s[k]
        BY <2>1, <2>4, <4>1
      <4> QED BY <4>1, <4>2
    <3>3. k < i \/ k > i
      BY <2>1, <2>6
    <3> QED BY <3>1, <3>2, <3>3
  <2> QED BY <2>2, <2>5, <2>6 DEF Listed
<1> QED BY <1>1, <1>2

(* The numbers a publication takes are new and differ from each other.     *)
LEMMA NewNumbers ==
  ASSUME NEW todo \in SUBSET (1..2)
  PROVE  /\ Cardinality(todo) \in Nat /\ (todo = {} => Cardinality(todo) = 0)
         /\ \A i \in 1..2 : Cardinality({j \in todo : j < i}) \in Nat
         /\ \A i \in todo : Cardinality({j \in todo : j < i}) < Cardinality(todo)
         /\ \A i, k \in todo : i < k =>
              Cardinality({j \in todo : j < i}) < Cardinality({j \in todo : j < k})
<1>1. IsFiniteSet(todo)
  <2>1. IsFiniteSet(({} \cup {1}) \cup {2})
    BY FS_EmptySet, FS_AddElement
  <2>2. todo \subseteq ({} \cup {1}) \cup {2}
    OBVIOUS
  <2> QED BY <2>1, <2>2, FS_Subset
<1>2. \A i \in 1..2 : IsFiniteSet({j \in todo : j < i})
  BY <1>1, FS_Subset
<1>3. \A A, B : IsFiniteSet(B) /\ A \subseteq B /\ A # B => Cardinality(A) < Cardinality(B)
  BY FS_Subset, FS_CardinalityType
<1>4. ASSUME NEW i \in todo
      PROVE  Cardinality({j \in todo : j < i}) < Cardinality(todo)
  <2>1. {j \in todo : j < i} \subseteq todo /\ {j \in todo : j < i} # todo
    BY <1>4
  <2> QED BY <2>1, <1>1, <1>3
<1>5. ASSUME NEW i \in todo, NEW k \in todo, i < k
      PROVE  Cardinality({j \in todo : j < i}) < Cardinality({j \in todo : j < k})
  <2>0. \A j \in 1..2 : j < i => j < k
    BY <1>5
  <2>1. {j \in todo : j < i} \subseteq {j \in todo : j < k}
    BY <2>0
  <2>2. i \in {j \in todo : j < k} /\ i \notin {j \in todo : j < i}
    BY <1>5
  <2> QED BY <2>1, <2>2, <1>2, <1>3
<1> QED BY <1>1, <1>2, <1>4, <1>5, FS_CardinalityType, FS_EmptySet
(***************************************************************************)
(* The ledger.                                                             *)
(***************************************************************************)
LEMMA DroppedKeepsLedger ==
  ASSUME sequence' \in Nat \ {0}, deliveries' = NothingInFlight, wire' = {}, acked' = {}
  PROVE  Ledger'
<1> DEFINE n == NoDelivery
<1>1. /\ \A i \in 1..2 : n.sequences[i] = 0 /\ ~n.confirmed[i]
      /\ \A f \in Events : deliveries'[f] = n
  BY NoDeliveryIsDelivery DEF NothingInFlight
<1>2. NoDelivery = n /\ NothingInFlight' = NothingInFlight
  BY DEF NothingInFlight
<1> HIDE DEF n
<1>3. NumbersAreOwn' /\ ConfirmedIsReceived'
  BY <1>1 DEF NumbersAreOwn, ConfirmedIsReceived, Number, Confirmed
<1>4. ReceiptsAreWanted' /\ DeliveriesAreRecent'
  BY <1>1, <1>2 DEF ReceiptsAreWanted, DeliveriesAreRecent
<1> QED BY <1>3, <1>4 DEF Ledger

(* A client that is replaced under the deliveries leaves them waiting.     *)
LEMMA ReplacedKeepsLedger ==
  ASSUME Ledger, UNCHANGED <<up, deliveries, generation, sequence, received>>, wire' = {}, acked' = {}
  PROVE  Ledger'
  BY DEF Ledger, NumbersAreOwn, ReceiptsAreWanted, ConfirmedIsReceived, DeliveriesAreRecent, Number,
         Confirmed, NothingInFlight

LEMMA UntouchedKeepsLedger ==
  ASSUME Ledger, UNCHANGED <<up, deliveries, generation, sequence, wire, acked, received, enabled>>
  PROVE  Ledger'
  BY DEF Ledger, NumbersAreOwn, ReceiptsAreWanted, ConfirmedIsReceived, DeliveriesAreRecent, Number,
         Confirmed, NothingInFlight

(* An event that leaves while MQTT is disabled: there are no messages.     *)
LEMMA DismissedKeepsLedger ==
  ASSUME DeliveryTypes, Ledger, ~enabled, NEW e \in Events,
         deliveries' = [deliveries EXCEPT ![e] = NoDelivery],
         up, UNCHANGED <<up, generation, sequence, wire, acked, received, enabled>>
  PROVE  Ledger'
<1>1. wire = {} /\ acked = {}
  BY DEF Ledger, DeliveriesAreRecent
<1> DEFINE n == NoDelivery
<1>2. /\ \A i \in 1..2 : n.sequences[i] = 0 /\ ~n.confirmed[i]
      /\ \A f \in Events : deliveries'[f] = IF f = e THEN n ELSE deliveries[f]
      /\ NoDelivery = n
  BY NoDeliveryIsDelivery DEF DeliveryTypes
<1> HIDE DEF n
<1>3. NumbersAreOwn'
  BY <1>2 DEF Ledger, NumbersAreOwn, Number, DeliveryTypes
<1>4. ConfirmedIsReceived' /\ ReceiptsAreWanted'
  BY <1>1, <1>2 DEF Ledger, ConfirmedIsReceived, ReceiptsAreWanted, Number, Confirmed
<1>5. DeliveriesAreRecent'
  BY <1>1, <1>2 DEF Ledger, DeliveriesAreRecent
<1> QED BY <1>3, <1>4, <1>5 DEF Ledger

(* A receipt is for the topic its number stands for.                       *)
LEMMA AcknowledgedKeepsLedger ==
  ASSUME DeliveryTypes, Ledger, Acknowledge
  PROVE  Ledger'
<1>1. PICK m \in wire : /\ wire' = wire \ {m}
                        /\ acked' = IF m.claimed THEN acked \cup {m.seq} ELSE acked
                        /\ received' = received \cup {<<m.event, m.topic>>}
  BY DEF Acknowledge
<1>2. UNCHANGED <<up, deliveries, generation, sequence, enabled>>
  BY DEF Acknowledge, publisher
<1>3. m \in Message /\ wire # {}
  BY DEF DeliveryTypes
<1>4. m.claimed => /\ m.seq # 0 /\ Number(m.event, m.topic) = m.seq /\ ~Confirmed(m.event, m.topic)
                   /\ m.event \in Events /\ m.topic \in 1..2
  BY <1>3 DEF Ledger, ReceiptsAreWanted, Message
<1>5. NumbersAreOwn'
  BY <1>2 DEF Ledger, NumbersAreOwn, Number
<1>6. ConfirmedIsReceived'
  <2> SUFFICES ASSUME NEW e \in Events, NEW i \in 1..2, Confirmed(e, i) \/ Number(e, i) \in acked'
               PROVE  <<e, i>> \in received'
    BY <1>2 DEF ConfirmedIsReceived, Number, Confirmed
  <2>1. CASE Confirmed(e, i) \/ Number(e, i) \in acked
    BY <2>1, <1>1 DEF Ledger, ConfirmedIsReceived
  <2>2. CASE m.claimed /\ Number(e, i) = m.seq
    <3>1. e = m.event /\ i = m.topic
      BY <2>2, <1>4 DEF Ledger, NumbersAreOwn
    <3> QED BY <3>1, <1>1
  <2> QED BY <2>1, <2>2, <1>1
<1>7. ReceiptsAreWanted'
  <2>1. ASSUME NEW s \in acked'
        PROVE  s # 0 /\ \E e \in Events, i \in 1..2 : Number(e, i) = s /\ ~Confirmed(e, i)
    BY <2>1, <1>1, <1>4 DEF Ledger, ReceiptsAreWanted
  <2>2. ASSUME NEW n \in wire', n.claimed
        PROVE  /\ n.seq # 0 /\ n.seq \notin acked'
               /\ Number(n.event, n.topic) = n.seq /\ ~Confirmed(n.event, n.topic)
    <3>1. n \in wire /\ n # m /\ n \in Message
      BY <1>1 DEF DeliveryTypes
    <3>2. /\ n.seq # 0 /\ n.seq \notin acked /\ Number(n.event, n.topic) = n.seq
          /\ ~Confirmed(n.event, n.topic)
      BY <2>2, <3>1 DEF Ledger, ReceiptsAreWanted
    <3>3. ~(m.claimed /\ m.seq = n.seq)
      <4> SUFFICES ASSUME m.claimed, m.seq = n.seq PROVE FALSE
        OBVIOUS
      <4>1. n.event \in Events /\ n.topic \in 1..2
        BY <3>1 DEF Message
      <4>2. n.event = m.event /\ n.topic = m.topic
        BY <4>1, <3>2, <1>4 DEF Ledger, NumbersAreOwn
      <4>3. n = m
        BY <2>2, <3>1, <4>2, <1>3 DEF Message
      <4> QED BY <4>3, <3>1
    <3> QED BY <3>2, <3>3, <1>1
  <2> QED BY <2>1, <2>2, <1>2 DEF ReceiptsAreWanted, Number, Confirmed
<1>8. DeliveriesAreRecent'
  BY <1>2, <1>3 DEF Ledger, DeliveriesAreRecent, NothingInFlight
<1> QED BY <1>5, <1>6, <1>7, <1>8 DEF Ledger

(* What a publication leaves of a delivery: numbers for the topics that    *)
(* had none, confirmations of those whose receipts have come.              *)
Published(e, new, published, complete) ==
  /\ deliveries' = [deliveries EXCEPT ![e] = IF complete THEN NoDelivery ELSE new]
  /\ wire' = wire \cup {[seq |-> new.sequences[i], event |-> e, topic |-> i, claimed |-> TRUE]
                         : i \in published}
  /\ acked' = acked \ {Number(e, i) : i \in Topics(e)}

NewDelivery(e, new, published) ==
  /\ new \in Delivery /\ new.generation = generation
  /\ \A i \in 1..2 : new.confirmed[i] <=> \/ Confirmed(e, i)
                                          \/ i \in Topics(e) /\ Number(e, i) # 0 /\ Number(e, i) \in acked
  /\ \A i \in published : /\ i \in Topics(e) /\ ~new.confirmed[i] /\ Number(e, i) = 0
                          /\ sequence <= new.sequences[i] /\ new.sequences[i] < sequence'
  /\ \A i, k \in published : new.sequences[i] = new.sequences[k] => i = k
  /\ \A i \in (1..2) \ published : new.sequences[i] = Number(e, i)

LEMMA PublishedKeepsLedger ==
  ASSUME DeliveryTypes, Ledger, enabled, up, NEW e \in Events,
         NEW new, NEW published \in SUBSET (1..2), NEW complete \in BOOLEAN,
         NewDelivery(e, new, published), Published(e, new, published, complete),
         complete => published = {} /\ \A i \in Topics(e) : new.confirmed[i],
         sequence' \in Nat, sequence <= sequence',
         UNCHANGED <<up, generation, enabled, received>>
  PROVE  Ledger'
<1> DEFINE after == IF complete THEN NoDelivery ELSE new
<1>1. /\ sequence \in Nat \ {0} /\ Topics(e) \subseteq 1..2
      /\ \A f \in Events, i \in 1..2 : Number(f, i) \in Nat
  BY TopicsAreTwo DEF DeliveryTypes, Delivery, Number
<1>2. /\ after \in Delivery
      /\ \A f \in Events : deliveries'[f] = IF f = e THEN after ELSE deliveries[f]
      /\ after # NoDelivery => after.generation = generation
  BY NoDeliveryIsDelivery DEF NewDelivery, Published, DeliveryTypes
<1>3. /\ complete => \A i \in 1..2 : after.sequences[i] = 0 /\ ~after.confirmed[i]
      /\ ~complete => after = new
  BY NoDeliveryIsDelivery
<1> HIDE DEF after
<1>4. \A f \in Events, i \in 1..2 :
        /\ Number(f, i)' = IF f = e THEN after.sequences[i] ELSE Number(f, i)
        /\ Confirmed(f, i)' <=> IF f = e THEN after.confirmed[i] ELSE Confirmed(f, i)
  BY <1>2 DEF Number, Confirmed
<1>5. /\ \A s \in acked' : s \in acked /\ s # 0 /\ \A i \in 1..2 : s # Number(e, i)
      /\ \A s \in acked : s \in Nat /\ s < sequence
  <2>1. \A s \in acked : s # 0 /\ \E f \in Events, i \in 1..2 : Number(f, i) = s
    BY DEF Ledger, ReceiptsAreWanted
  <2>2. \A i \in 1..2 : Number(e, i) = 0 \/ i \in Topics(e)
    BY DEF Ledger, NumbersAreOwn
  <2>3. \A s \in acked : s \in Nat /\ s < sequence
    BY <2>1, <1>1 DEF Ledger, NumbersAreOwn
  <2> QED BY <2>1, <2>2, <2>3 DEF Published
<1>6. NumbersAreOwn'
  <2>1. ASSUME NEW f \in Events, NEW i \in 1..2
        PROVE  Number(f, i)' < sequence' /\ (i \notin Topics(f) => Number(f, i)' = 0)
    <3>1. Number(f, i) < sequence /\ (i \notin Topics(f) => Number(f, i) = 0)
      BY DEF Ledger, NumbersAreOwn
    <3>2. CASE f # e
      BY <3>1, <3>2, <1>1, <1>4
    <3>3. CASE f = e /\ complete
      BY <3>3, <1>1, <1>3, <1>4
    <3>4. CASE f = e /\ ~complete
      <4>1. Number(f, i)' = new.sequences[i]
        BY <3>4, <1>3, <1>4
      <4>2. CASE i \in published
        BY <4>1, <4>2, <3>4 DEF NewDelivery
      <4>3. CASE i \notin published
        BY <4>1, <4>3, <3>1, <3>4, <1>1 DEF NewDelivery
      <4> QED BY <4>2, <4>3
    <3> QED BY <3>2, <3>3, <3>4
  <2>2. ASSUME NEW f \in Events, NEW g \in Events, NEW i \in 1..2, NEW j \in 1..2,
               Number(f, i)' = Number(g, j)', Number(f, i)' # 0
        PROVE  f = g /\ i = j
    <3>0. \A k \in 1..2 : /\ new.sequences[k] \in Nat
                          /\ k \in published => sequence <= new.sequences[k]
                          /\ k \notin published => new.sequences[k] = Number(e, k)
      BY DEF NewDelivery, Delivery
    <3>1. /\ Number(f, i) = Number(g, j) /\ Number(f, i) # 0 => f = g /\ i = j
          /\ Number(f, i) < sequence /\ Number(g, j) < sequence
      BY DEF Ledger, NumbersAreOwn
    <3>2. CASE f # e /\ g # e
      BY <2>2, <3>1, <3>2, <1>4
    <3>3. CASE complete /\ (f = e \/ g = e)
      BY <2>2, <3>3, <1>3, <1>4
    <3>4. CASE ~complete /\ f = e
      <4>1. Number(f, i)' = new.sequences[i]
        BY <3>4, <1>3, <1>4
      <4>2. CASE g = e
        <5>1. Number(g, j)' = new.sequences[j]
          BY <3>4, <4>2, <1>3, <1>4
        <5>2. CASE i \in published /\ j \in published
          BY <2>2, <4>1, <5>1, <5>2, <3>4, <4>2 DEF NewDelivery
        <5>3. CASE i \notin published /\ j \notin published
          BY <2>2, <4>1, <5>1, <5>3, <3>0, <3>1, <3>4, <4>2
        <5>4. CASE (i \in published) # (j \in published)
          <6>1. new.sequences[i] = new.sequences[j]
            BY <2>2, <4>1, <5>1
          <6>2. /\ i \in published => new.sequences[j] = Number(e, j) /\ sequence <= new.sequences[i]
                /\ j \in published => new.sequences[i] = Number(e, i) /\ sequence <= new.sequences[j]
            BY <5>4, <3>0
          <6>3. Number(e, i) < sequence /\ Number(e, j) < sequence
            BY <3>1, <3>4, <4>2
          <6>4. sequence \in Nat /\ Number(e, i) \in Nat /\ Number(e, j) \in Nat
            BY <1>1
          <6> QED BY <5>4, <6>1, <6>2, <6>3, <6>4
        <5> QED BY <5>2, <5>3, <5>4
      <4>3. CASE g # e
        <5>1. Number(g, j)' = Number(g, j)
          BY <4>3, <1>4
        <5>2. new.sequences[i] = Number(g, j)
          BY <2>2, <4>1, <5>1
        <5>3. i \notin published
          <6>1. Number(g, j) < sequence /\ sequence \in Nat /\ Number(g, j) \in Nat
            BY <3>1, <1>1
          <6> QED BY <6>1, <5>2, <3>0
        <5>4. Number(f, i) = Number(g, j) /\ Number(f, i) # 0
          BY <5>2, <5>3, <3>0, <3>4, <2>2, <4>1
        <5> QED BY <5>4, <3>1
      <4> QED BY <4>2, <4>3
    <3>5. CASE ~complete /\ f # e /\ g = e
      <4>1. Number(g, j)' = new.sequences[j] /\ Number(f, i)' = Number(f, i)
        BY <3>5, <1>3, <1>4
      <4> QED BY <2>2, <4>1, <3>0, <3>1, <3>5, <1>1
    <3> QED BY <3>2, <3>3, <3>4, <3>5
  <2> QED BY <2>1, <2>2 DEF NumbersAreOwn, Topics
<1>7. ConfirmedIsReceived'
  <2> SUFFICES ASSUME NEW f \in Events, NEW i \in 1..2, Confirmed(f, i)' \/ Number(f, i)' \in acked'
               PROVE  <<f, i>> \in received
    BY DEF ConfirmedIsReceived
  <2>0. Confirmed(f, i) \/ Number(f, i) \in acked => <<f, i>> \in received
    BY DEF Ledger, ConfirmedIsReceived
  <2>1. CASE f # e
    BY <2>0, <2>1, <1>4, <1>5
  <2>2. CASE f = e /\ complete
    BY <2>2, <1>3, <1>4, <1>5
  <2>3. CASE f = e /\ ~complete
    <3>1. (Confirmed(f, i)' <=> new.confirmed[i]) /\ Number(f, i)' = new.sequences[i]
      BY <2>3, <1>3, <1>4
    <3>2. CASE new.confirmed[i]
      BY <3>2, <2>0, <2>3 DEF NewDelivery
    <3>3. CASE new.sequences[i] \in acked'
      <4>1. new.sequences[i] \in Nat /\ new.sequences[i] < sequence
        BY <3>3, <1>5
      <4>2. i \notin published
        BY <4>1, <1>1 DEF NewDelivery
      <4>3. new.sequences[i] = Number(e, i)
        BY <4>2 DEF NewDelivery
      <4> QED BY <4>3, <3>3, <1>5
    <3> QED BY <3>1, <3>2, <3>3
  <2> QED BY <2>1, <2>2, <2>3
<1>8. ReceiptsAreWanted'
  <2>1. ASSUME NEW s \in acked'
        PROVE  s # 0 /\ \E f \in Events, i \in 1..2 : Number(f, i)' = s /\ ~Confirmed(f, i)'
    <3>1. PICK f \in Events, i \in 1..2 : Number(f, i) = s /\ ~Confirmed(f, i)
      BY <1>5 DEF Ledger, ReceiptsAreWanted
    <3>2. f # e
      BY <3>1, <1>5
    <3>3. Number(f, i)' = s /\ ~Confirmed(f, i)'
      BY <3>1, <3>2, <1>4
    <3> QED BY <3>3, <1>5
  <2>2. ASSUME NEW m \in wire, m.claimed
        PROVE  /\ m.seq # 0 /\ m.seq \notin acked'
               /\ Number(m.event, m.topic)' = m.seq /\ ~Confirmed(m.event, m.topic)'
    <3>1. /\ m.seq # 0 /\ m.seq \notin acked /\ m.event \in Events /\ m.topic \in 1..2
          /\ Number(m.event, m.topic) = m.seq /\ ~Confirmed(m.event, m.topic)
      BY <2>2 DEF Ledger, ReceiptsAreWanted, DeliveryTypes, Message
    <3>2. CASE m.event # e
      BY <3>1, <3>2, <1>4, <1>5
    <3>3. CASE m.event = e
      <4>1. m.topic \in Topics(e) /\ m.topic \notin published /\ ~new.confirmed[m.topic]
        BY <3>1, <3>3 DEF NewDelivery, Ledger, NumbersAreOwn
      <4>2. ~complete
        BY <4>1
      <4>3. Number(m.event, m.topic)' = new.sequences[m.topic] /\ ~Confirmed(m.event, m.topic)'
        BY <4>1, <4>2, <3>1, <3>3, <1>3, <1>4
      <4>4. new.sequences[m.topic] = m.seq
        BY <4>1, <3>1, <3>3 DEF NewDelivery
      <4> QED BY <4>3, <4>4, <3>1, <1>5
    <3> QED BY <3>2, <3>3
  <2>3. ASSUME NEW i \in published, NEW m,
               m = [seq |-> new.sequences[i], event |-> e, topic |-> i, claimed |-> TRUE]
        PROVE  /\ m.seq # 0 /\ m.seq \notin acked'
               /\ Number(m.event, m.topic)' = m.seq /\ ~Confirmed(m.event, m.topic)'
    <3>1. /\ m.seq = new.sequences[i] /\ m.event = e /\ m.topic = i /\ i \in 1..2
          /\ sequence <= new.sequences[i] /\ ~new.confirmed[i] /\ new.sequences[i] \in Nat
      BY <2>3 DEF NewDelivery, Delivery
    <3>2. ~complete
      BY <2>3
    <3>3. Number(e, i)' = new.sequences[i] /\ ~Confirmed(e, i)'
      BY <3>1, <3>2, <1>3, <1>4
    <3>4. new.sequences[i] # 0 /\ new.sequences[i] \notin acked'
      BY <3>1, <1>1, <1>5
    <3>5. Number(m.event, m.topic)' = Number(e, i)' /\ Confirmed(m.event, m.topic)' = Confirmed(e, i)'
      BY <3>1 DEF Number, Confirmed
    <3> QED BY <3>1, <3>3, <3>4, <3>5
  <2> QED BY <2>1, <2>2, <2>3 DEF ReceiptsAreWanted, Published
<1>9. DeliveriesAreRecent'
  BY <1>2 DEF Ledger, DeliveriesAreRecent
<1> QED BY <1>6, <1>7, <1>8, <1>9 DEF Ledger
LEMMA PublishingKeeps ==
  ASSUME DeliveryTypes, Ledger, enabled, up, NEW e \in Events, PublishTopics(e),
         UNCHANGED <<up, generation, enabled, received>>
  PROVE  /\ Ledger'
         /\ deliveries' \in [Events -> Delivery] /\ sequence' \in Nat \ {0} /\ wire' \subseteq Message
         /\ \/ step' = "remove" /\ UNCHANGED batch /\ \A i \in Topics(e) : <<e, i>> \in received
            \/ NextEvent
<1> DEFINE known == deliveries[e]
           d == IF known.generation = generation THEN known ELSE [NoDelivery EXCEPT !.generation = generation]
           seen == Seen(d, e)
           todo == {i \in Topics(e) : ~seen.confirmed[i] /\ seen.sequences[i] = 0}
<1>1. PICK published \in SUBSET todo :
        /\ sequence' = sequence + Cardinality(todo)
        /\ wire' = wire \cup {[seq |-> Numbered(seen, todo, published).sequences[i], event |-> e,
                               topic |-> i, claimed |-> TRUE] : i \in published}
        /\ acked' = acked \ {d.sequences[i] : i \in Topics(e)}
        /\ deliveries' = [deliveries EXCEPT ![e] =
                            IF CompleteDelivery(e, seen) THEN NoDelivery
                            ELSE Numbered(seen, todo, published)]
        /\ IF CompleteDelivery(e, seen) THEN step' = "remove" /\ UNCHANGED batch ELSE NextEvent
  BY DEF PublishTopics
<1>2. /\ d \in Delivery /\ d.generation = generation
      /\ \A i \in 1..2 : d.sequences[i] = Number(e, i) /\ d.confirmed[i] = Confirmed(e, i)
  <2>1. known \in Delivery /\ generation \in Nat
    BY DEF DeliveryTypes
  <2>2. CASE known.generation = generation
    BY <2>1, <2>2 DEF Number, Confirmed
  <2>3. CASE known.generation # generation
    <3>1. known = NoDelivery
      BY <2>3 DEF Ledger, DeliveriesAreRecent
    <3> QED BY <2>1, <2>3, <3>1, NoDeliveryIsDelivery DEF Delivery, Number, Confirmed
  <2> QED BY <2>2, <2>3
<1> HIDE DEF known, d
<1>3. /\ seen \in Delivery /\ seen.generation = generation
      /\ \A i \in 1..2 : seen.sequences[i] = Number(e, i)
      /\ \A i \in 1..2 : seen.confirmed[i] <=> \/ Confirmed(e, i)
                                               \/ i \in Topics(e) /\ Number(e, i) # 0 /\ Number(e, i) \in acked
  <2>1. \A i \in 1..2 : /\ d.confirmed[i] \in BOOLEAN
                        /\ d.confirmed[i] = Confirmed(e, i) /\ d.sequences[i] = Number(e, i)
    BY <1>2 DEF Delivery
  <2> DEFINE c == [i \in 1..2 |->
                    \/ d.confirmed[i]
                    \/ i \in Topics(e) /\ d.sequences[i] # 0 /\ d.sequences[i] \in acked]
  <2>2. seen = [d EXCEPT !.confirmed = c]
    BY DEF Seen
  <2>3. c \in [1..2 -> BOOLEAN]
    BY <2>1
  <2>4. \A i \in 1..2 : c[i] <=> \/ Confirmed(e, i)
                                 \/ i \in Topics(e) /\ Number(e, i) # 0 /\ Number(e, i) \in acked
    BY <2>1
  <2> HIDE DEF c, seen
  <2>5. /\ seen \in Delivery /\ seen.generation = d.generation /\ seen.sequences = d.sequences
        /\ seen.confirmed = c
    BY <1>2, <2>2, <2>3 DEF Delivery
  <2> QED BY <1>2, <2>1, <2>4, <2>5
<1> HIDE DEF seen
<1>4. /\ todo \in SUBSET (1..2) /\ published \in SUBSET (1..2) /\ sequence \in Nat \ {0}
      /\ \A i \in todo : i \in 1..2 /\ i \in Topics(e) /\ ~seen.confirmed[i] /\ Number(e, i) = 0
  BY <1>1, <1>3, TopicsAreTwo DEF DeliveryTypes
<1>5. CompleteDelivery(e, seen) => todo = {}
  BY DEF CompleteDelivery
<1> HIDE DEF todo
<1> DEFINE next == Numbered(seen, todo, published)
           count == [i \in 1..2 |-> Cardinality({j \in todo : j < i})]
<1>6. /\ Cardinality(todo) \in Nat
      /\ \A i \in 1..2 : count[i] \in Nat
      /\ \A i \in todo : count[i] < Cardinality(todo)
      /\ \A i, k \in todo : count[i] = count[k] => i = k
  <2>1. Cardinality(todo) \in Nat /\ \A i \in 1..2 : count[i] \in Nat
    BY <1>4, NewNumbers
  <2>2. \A i \in todo : i \in 1..2 /\ count[i] < Cardinality(todo)
    BY <1>4, NewNumbers
  <2>3. \A i, k \in todo : i < k => count[i] < count[k]
    BY <1>4, NewNumbers
  <2> HIDE DEF count
  <2>4. ASSUME NEW i \in todo, NEW k \in todo, count[i] = count[k]
        PROVE  i = k
    BY <2>1, <2>2, <2>3, <2>4
  <2> QED BY <2>1, <2>2, <2>4
<1>7. /\ next \in Delivery /\ next.generation = generation /\ next.confirmed = seen.confirmed
      /\ \A i \in published : next.sequences[i] = sequence + count[i]
      /\ \A i \in (1..2) \ published : next.sequences[i] = Number(e, i)
  <2>1. \A i \in 1..2 : count[i] = Cardinality({j \in todo : j < i})
    OBVIOUS
  <2> HIDE DEF count
  <2>2. next = [seen EXCEPT !.sequences =
                  [i \in 1..2 |-> IF i \in published THEN sequence + count[i] ELSE seen.sequences[i]]]
    BY <2>1 DEF Numbered
  <2> HIDE DEF next
  <2> QED BY <2>2, <1>3, <1>4, <1>6 DEF Delivery
<1> HIDE DEF next, count
<1>8. sequence' \in Nat \ {0} /\ sequence <= sequence'
  BY <1>1, <1>4, <1>6
<1>9. NewDelivery(e, next, published)
  <2>1. \A i \in published : /\ i \in todo /\ next.sequences[i] = sequence + count[i] /\ count[i] \in Nat
                             /\ count[i] < Cardinality(todo)
    BY <1>1, <1>4, <1>6, <1>7
  <2>2. \A i \in published : /\ i \in Topics(e) /\ ~next.confirmed[i] /\ Number(e, i) = 0
                             /\ sequence <= next.sequences[i] /\ next.sequences[i] < sequence'
    BY <2>1, <1>1, <1>4, <1>6, <1>7
  <2>3. \A i, k \in published : next.sequences[i] = next.sequences[k] => i = k
    BY <2>1, <1>4, <1>6
  <2> QED BY <2>2, <2>3, <1>3, <1>7 DEF NewDelivery
<1>10. Published(e, next, published, CompleteDelivery(e, seen))
  <2>1. {d.sequences[i] : i \in Topics(e)} = {Number(e, i) : i \in Topics(e)}
    BY <1>2, TopicsAreTwo
  <2> QED BY <1>1, <2>1 DEF Published, next
<1>11. CompleteDelivery(e, seen) =>
         published = {} /\ \A i \in Topics(e) : next.confirmed[i]
  BY <1>1, <1>5, <1>7 DEF CompleteDelivery
<1>12. CompleteDelivery(e, seen) \in BOOLEAN
  BY DEF CompleteDelivery
<1>13. Ledger'
  BY <1>4, <1>8, <1>9, <1>10, <1>11, <1>12, PublishedKeepsLedger
<1>14. deliveries' \in [Events -> Delivery]
  BY <1>7, <1>10, NoDeliveryIsDelivery DEF Published, DeliveryTypes
<1>15. wire' \subseteq Message
  <2>1. \A i \in published : next.sequences[i] \in Nat /\ i \in 1..2
    BY <1>4, <1>7 DEF Delivery
  <2>2. {[seq |-> next.sequences[i], event |-> e, topic |-> i, claimed |-> TRUE] : i \in published}
          \subseteq Message
    <3>1. ASSUME NEW i \in published
          PROVE  [seq |-> next.sequences[i], event |-> e, topic |-> i, claimed |-> TRUE] \in Message
      BY <2>1 DEF Message
    <3> QED BY <3>1
  <2> QED BY <2>2, <1>10 DEF Published, DeliveryTypes
<1>16. CompleteDelivery(e, seen) => \A i \in Topics(e) : <<e, i>> \in received
  <2>1. ASSUME CompleteDelivery(e, seen), NEW i \in Topics(e)
        PROVE  <<e, i>> \in received
    <3>1. i \in 1..2 /\ seen.confirmed[i]
      BY <2>1, TopicsAreTwo DEF CompleteDelivery
    <3>2. Confirmed(e, i) \/ Number(e, i) \in acked
      BY <3>1, <1>3
    <3> QED BY <3>1, <3>2 DEF Ledger, ConfirmedIsReceived
  <2> QED BY <2>1
<1> QED BY <1>1, <1>8, <1>13, <1>14, <1>15, <1>16
(* A delivery that has a number, or a confirmation, is in flight.          *)
LEMMA NumberedIsInFlight ==
  ASSUME NEW e \in Events, NEW i \in 1..2, Number(e, i) # 0
  PROVE  e \in InFlight
  BY NoDeliveryIsDelivery DEF Number, InFlight

(* When the publisher forgets its deliveries, nobody wants a receipt.      *)
LEMMA RenamedKeepsLedger ==
  ASSUME DeliveryTypes, Ledger, RenameDevice
  PROVE  Ledger' /\ wire' \subseteq Message
<1> DEFINE seqs == UNION {Listed(deliveries[e].sequences) : e \in InFlight}
<1>1. /\ acked' = acked \ seqs
      /\ wire' = {[m EXCEPT !.claimed = m.claimed /\ m.seq \notin seqs] : m \in wire}
      /\ deliveries' = NothingInFlight /\ UNCHANGED <<up, enabled, sequence, received>>
      /\ generation' = generation + 1 /\ up
  BY DEF RenameDevice, ForgetDeliveries, history
<1>2. ASSUME NEW e \in Events, NEW i \in 1..2, Number(e, i) # 0
      PROVE  Number(e, i) \in seqs
  <2>1. e \in InFlight
    BY <1>2, NumberedIsInFlight
  <2>2. deliveries[e].sequences \in [1..2 -> Nat]
    BY DEF DeliveryTypes, Delivery
  <2>3. Number(e, i) \in Listed(deliveries[e].sequences)
    <3>1. \A f \in [1..2 -> Nat] : f[i] \in Listed(f)
      BY DEF Listed
    <3> QED BY <2>2, <3>1 DEF Number
  <2> QED BY <2>1, <2>3
<1> HIDE DEF seqs
<1>3. acked' = {}
  <2>1. \A s \in acked : s \in seqs
    BY <1>2 DEF Ledger, ReceiptsAreWanted
  <2> QED BY <2>1, <1>1
<1>4. \A m \in wire : m \in Message /\ (m.claimed => m.seq \in seqs)
  <2>1. \A m \in wire : m \in Message /\ m.event \in Events /\ m.topic \in 1..2
    BY DEF DeliveryTypes, Message
  <2> QED BY <2>1, <1>2 DEF Ledger, ReceiptsAreWanted
<1>5. \A m \in wire' : m \in Message /\ ~m.claimed
  <2>1. ASSUME NEW m \in wire, NEW n, n = [m EXCEPT !.claimed = m.claimed /\ m.seq \notin seqs]
        PROVE  n \in Message /\ ~n.claimed
    <3>1. n = [m EXCEPT !.claimed = FALSE]
      BY <2>1, <1>4
    <3> QED BY <3>1, <1>4 DEF Message
  <2> QED BY <2>1, <1>1
<1> DEFINE n == NoDelivery
<1>6. /\ \A i \in 1..2 : n.sequences[i] = 0 /\ ~n.confirmed[i]
      /\ \A f \in Events : deliveries'[f] = n
      /\ NoDelivery = n /\ NothingInFlight' = NothingInFlight
  BY <1>1, NoDeliveryIsDelivery DEF NothingInFlight
<1> HIDE DEF n
<1>7. NumbersAreOwn' /\ ConfirmedIsReceived'
  BY <1>1, <1>3, <1>6 DEF NumbersAreOwn, ConfirmedIsReceived, Number, Confirmed, DeliveryTypes
<1>8. ReceiptsAreWanted'
  BY <1>3, <1>5 DEF ReceiptsAreWanted
<1>9. DeliveriesAreRecent'
  <2>1. ~enabled => wire' = {}
    BY <1>1 DEF Ledger, DeliveriesAreRecent
  <2> QED BY <2>1, <1>1, <1>3, <1>6 DEF DeliveriesAreRecent
<1> QED BY <1>5, <1>7, <1>8, <1>9 DEF Ledger

(***************************************************************************)
(* The pass.                                                               *)
(***************************************************************************)
LEMMA NothingLostMeanwhile ==
  ASSUME NothingIsLost, UNCHANGED <<outbox, produced, forgotten>>,
         stored \subseteq stored', unsent \subseteq unsent', received \subseteq received'
  PROVE  NothingIsLost'
  BY DEF NothingIsLost, Settled, Topics

LEMMA PassGoesOn ==
  ASSUME PassInv, UNCHANGED <<batch, step>>,
         stored \subseteq stored', unsent \subseteq unsent', received \subseteq received'
  PROVE  PassInv'
  BY DEF PassInv, Topics

LEMMA NextEventIsSafe ==
  ASSUME batch \in Seq(Events), batch # <<>>, NextEvent
  PROVE  /\ PassInv' /\ batch' \in Seq(Events)
         /\ step' \in {"idle", "append", "deliver", "remove"}
<1>1. batch' = Tail(batch) /\ batch' \in Seq(Events) /\ Len(batch') = Len(batch) - 1
  BY DEF NextEvent
<1>2. step' = IF Len(batch) = 1 THEN "idle" ELSE "append"
  BY DEF NextEvent
<1>3. step' # "idle" => batch' # <<>>
  <2>1. Len(batch) \in Nat
    OBVIOUS
  <2>2. step' # "idle" => Len(batch') # 0
    BY <2>1, <1>1, <1>2
  <2>3. batch' = <<>> => Len(batch') = 0
    OBVIOUS
  <2> QED BY <2>2, <2>3
<1> QED BY <1>1, <1>2, <1>3 DEF PassInv

(***************************************************************************)
(* DeliveryInv is an invariant.                                            *)
(***************************************************************************)
LEMMA DeliveryStart == Init => DeliveryInv
<1> SUFFICES ASSUME Init PROVE DeliveryInv
  OBVIOUS
<1>1. DeliveryTypes
  BY NoDeliveryIsDelivery DEF Init, DeliveryTypes
<1>2. Ledger
  <2> DEFINE n == NoDelivery
  <2>1. /\ \A i \in 1..2 : n.sequences[i] = 0 /\ ~n.confirmed[i]
        /\ \A f \in Events : deliveries[f] = n
        /\ NoDelivery = n
    BY NoDeliveryIsDelivery DEF Init, NothingInFlight
  <2> HIDE DEF n
  <2>2. NumbersAreOwn /\ ConfirmedIsReceived
    BY <2>1 DEF Init, NumbersAreOwn, ConfirmedIsReceived, Number, Confirmed
  <2>3. ReceiptsAreWanted /\ DeliveriesAreRecent
    BY <2>1 DEF Init, ReceiptsAreWanted, DeliveriesAreRecent
  <2> QED BY <2>2, <2>3 DEF Ledger
<1>3. PassInv /\ NothingIsLost
  BY DEF Init, PassInv, NothingIsLost
<1> QED BY <1>1, <1>2, <1>3 DEF DeliveryInv

LEMMA EmitStep ==
  ASSUME DeliveryInv, Emit PROVE DeliveryInv'
<1> USE DEF DeliveryInv
<1>1. PICK e \in Events \ produced : outbox' = Append(outbox, e) /\ produced' = produced \cup {e}
  BY DEF Emit
<1>2. UNCHANGED <<up, stored, pass, publisher, library, received, unsent, forgotten>>
  BY DEF Emit
<1>3. DeliveryTypes'
  BY <1>1, <1>2 DEF DeliveryTypes, pass, publisher, library
<1>4. Ledger'
  BY <1>2, UntouchedKeepsLedger DEF publisher, library
<1>5. PassInv'
  BY <1>2, PassGoesOn DEF pass
<1>6. NothingIsLost'
  <2>1. Listed(outbox') = Listed(outbox) \cup {e}
    BY <1>1 DEF DeliveryTypes, Listed
  <2> QED BY <2>1, <1>1, <1>2 DEF NothingIsLost, Settled, Topics, Listed
<1> QED BY <1>3, <1>4, <1>5, <1>6

LEMMA ReadOutboxStep ==
  ASSUME DeliveryInv, ReadOutbox PROVE DeliveryInv'
<1> USE DEF DeliveryInv
<1>1. UNCHANGED <<up, tables, publisher, library, history>>
  BY DEF ReadOutbox
<1>2. /\ batch' \in Seq(Events)
      /\ step' \in {"idle", "append"} /\ (step' = "append" => batch' # <<>>)
  <2> DEFINE n == IF Len(outbox) < PassSize THEN Len(outbox) ELSE PassSize
  <2>1. outbox \in Seq(Events) /\ Len(outbox) \in Nat /\ PassSize \in Nat \ {0}
    BY SizesAssumption DEF DeliveryTypes
  <2>2. batch' = SubSeq(outbox, 1, n) /\ step' = IF outbox = <<>> THEN "idle" ELSE "append"
    BY DEF ReadOutbox
  <2>3. n \in 0 .. Len(outbox) /\ (outbox # <<>> => n > 0)
    BY <2>1
  <2> HIDE DEF n
  <2>4. batch' \in Seq(Events) /\ Len(batch') = n
    BY <2>1, <2>2, <2>3
  <2> QED BY <2>2, <2>3, <2>4
<1>3. DeliveryTypes'
  BY <1>1, <1>2 DEF DeliveryTypes, tables, publisher, library, history
<1>4. Ledger'
  BY <1>1, UntouchedKeepsLedger DEF publisher, library, history
<1>5. PassInv'
  BY <1>2 DEF PassInv
<1>6. NothingIsLost'
  BY <1>1, NothingLostMeanwhile DEF tables, history
<1> QED BY <1>3, <1>4, <1>5, <1>6

LEMMA AppendEventStep ==
  ASSUME DeliveryInv, AppendEvent PROVE DeliveryInv'
<1> USE DEF DeliveryInv
<1>1. /\ UNCHANGED <<up, outbox, publisher, library, history>>
      /\ stored \subseteq stored' /\ step = "append" /\ batch # <<>> /\ batch \in Seq(Events)
  BY DEF AppendEvent, PassInv, DeliveryTypes
<1>2. PassInv' /\ batch' \in Seq(Events) /\ step' \in {"idle", "append", "deliver", "remove"}
  <2>1. CASE stored' = stored \cup {Head(batch)} /\ step' = "deliver" /\ UNCHANGED batch
    BY <2>1, <1>1 DEF PassInv
  <2>2. CASE NextEvent
    BY <2>2, <1>1, NextEventIsSafe
  <2> QED BY <2>1, <2>2 DEF AppendEvent
<1>3. DeliveryTypes'
  BY <1>1, <1>2 DEF DeliveryTypes, publisher, library, history
<1>4. Ledger'
  BY <1>1, UntouchedKeepsLedger DEF publisher, library, history
<1>5. NothingIsLost'
  BY <1>1, NothingLostMeanwhile DEF history
<1> QED BY <1>2, <1>3, <1>4, <1>5

LEMMA DeliverEventStep ==
  ASSUME DeliveryInv, DeliverEvent PROVE DeliveryInv'
<1> USE DEF DeliveryInv
<1> DEFINE e == Head(batch)
<1>1. /\ UNCHANGED <<up, tables, enabled, generation, produced, received, forgotten>>
      /\ unsent \subseteq unsent' /\ (~enabled => e \in unsent')
      /\ up /\ step = "deliver" /\ batch # <<>> /\ batch \in Seq(Events) /\ e \in Events /\ e \in stored
  BY DEF DeliverEvent, PassInv, DeliveryTypes
<1>2. NothingIsLost'
  BY <1>1, NothingLostMeanwhile DEF tables
<1>3. CASE /\ ~enabled /\ deliveries' = [deliveries EXCEPT ![e] = NoDelivery]
           /\ step' = "remove" /\ UNCHANGED <<batch, sequence, wire, acked, faults>>
  <2>1. Ledger'
    BY <1>1, <1>3, DismissedKeepsLedger
  <2>2. DeliveryTypes'
    BY <1>1, <1>3, NoDeliveryIsDelivery DEF DeliveryTypes, tables
  <2>3. PassInv'
    BY <1>1, <1>3 DEF PassInv, tables
  <2> QED BY <1>2, <2>1, <2>2, <2>3
<1>4. CASE NextEvent /\ UNCHANGED <<deliveries, sequence, wire, acked, faults>>
  <2>1. Ledger'
    BY <1>1, <1>4, UntouchedKeepsLedger
  <2>2. PassInv' /\ DeliveryTypes'
    BY <1>1, <1>4, NextEventIsSafe DEF DeliveryTypes, tables
  <2> QED BY <1>2, <2>1, <2>2
<1>5. CASE enabled /\ PublishTopics(e)
  <2>1. /\ Ledger'
        /\ deliveries' \in [Events -> Delivery] /\ sequence' \in Nat \ {0} /\ wire' \subseteq Message
        /\ \/ step' = "remove" /\ UNCHANGED batch /\ \A i \in Topics(e) : <<e, i>> \in received
           \/ NextEvent
    BY <1>1, <1>5, PublishingKeeps
  <2>2. PassInv' /\ batch' \in Seq(Events) /\ step' \in {"idle", "append", "deliver", "remove"}
    <3>1. CASE step' = "remove" /\ UNCHANGED batch /\ \A i \in Topics(e) : <<e, i>> \in received
      BY <1>1, <3>1 DEF PassInv, Topics, tables
    <3>2. CASE NextEvent
      BY <1>1, <3>2, NextEventIsSafe
    <3> QED BY <2>1, <3>1, <3>2
  <2>3. DeliveryTypes'
    BY <1>1, <2>1, <2>2 DEF DeliveryTypes, tables
  <2> QED BY <1>2, <2>1, <2>2, <2>3
<1> QED BY <1>3, <1>4, <1>5 DEF DeliverEvent

(* Only an event of which the pass knows that it is settled leaves.        *)
LEMMA RemoveEventStep ==
  ASSUME DeliveryInv, RemoveEvent PROVE DeliveryInv'
<1> USE DEF DeliveryInv
<1>1. /\ UNCHANGED <<up, stored, publisher, library, history>> /\ NextEvent
      /\ step = "remove" /\ batch # <<>> /\ batch \in Seq(Events) /\ outbox \in Seq(Events)
      /\ outbox' = Without(outbox, Head(batch)) \/ outbox' = outbox
  BY DEF RemoveEvent, PassInv, DeliveryTypes
<1>2. PassInv' /\ batch' \in Seq(Events) /\ step' \in {"idle", "append", "deliver", "remove"}
  BY <1>1, NextEventIsSafe
<1>3. /\ outbox' \in Seq(Events)
      /\ \A f \in Listed(outbox) : f # Head(batch) => f \in Listed(outbox')
  BY <1>1, WithoutKeeps
<1>4. DeliveryTypes'
  BY <1>1, <1>2, <1>3 DEF DeliveryTypes, publisher, library, history
<1>5. Ledger'
  BY <1>1, UntouchedKeepsLedger DEF publisher, library, history
<1>6. NothingIsLost'
  <2>1. Settled(Head(batch))
    BY <1>1 DEF PassInv, Settled
  <2>2. \A f \in produced : f \in Listed(outbox') \/ f \in forgotten \/ Settled(f)
    BY <1>3, <2>1 DEF NothingIsLost
  <2> QED BY <2>2, <1>1 DEF NothingIsLost, Settled, Topics, history, Listed
<1> QED BY <1>2, <1>4, <1>5, <1>6
(* The broker, the client and the publisher's worker.                      *)
LEMMA LibraryStep ==
  ASSUME DeliveryInv,
         Connect \/ Disconnect \/ Acknowledge \/ RetryStart \/ RequestReconnect \/ Reconnect
  PROVE  DeliveryInv'
<1> USE DEF DeliveryInv, tables, pass, publisher, library, history
<1>1. /\ UNCHANGED <<up, outbox, stored, batch, step, enabled, deliveries, generation, sequence,
                     produced, unsent, forgotten>>
      /\ received \subseteq received'
  BY DEF Connect, Disconnect, Acknowledge, RetryStart, RequestReconnect, Reconnect
<1>2. wire' \subseteq wire
  BY DEF Connect, Disconnect, Acknowledge, RetryStart, RequestReconnect, Reconnect, DropReceipts
<1>3. Ledger'
  <2>1. CASE Acknowledge
    BY <2>1, AcknowledgedKeepsLedger
  <2>2. CASE UNCHANGED <<wire, acked, received>>
    BY <2>2, <1>1, UntouchedKeepsLedger
  <2>3. CASE DropReceipts /\ UNCHANGED received
    BY <2>3, <1>1, ReplacedKeepsLedger DEF DropReceipts
  <2> QED BY <2>1, <2>2, <2>3 DEF Connect, Disconnect, RetryStart, RequestReconnect, Reconnect
<1>4. DeliveryTypes'
  BY <1>1, <1>2 DEF DeliveryTypes
<1>5. PassInv' /\ NothingIsLost'
  BY <1>1, PassGoesOn, NothingLostMeanwhile
<1> QED BY <1>3, <1>4, <1>5

(* Everything that takes the client away, the deliveries or both.          *)
LEMMA PublisherStep ==
  ASSUME DeliveryInv, RenameDevice \/ StopPublisher \/ ConfigurePublisher \/ StartPublisher \/ Restart
  PROVE  DeliveryInv'
<1> USE DEF DeliveryInv, tables, pass, publisher, library, history
<1>1. UNCHANGED <<outbox, stored, batch, step, produced, received, unsent, forgotten>>
  BY DEF RenameDevice, StopPublisher, ConfigurePublisher, StartPublisher, Restart
<1>2. PassInv' /\ NothingIsLost'
  BY <1>1, PassGoesOn, NothingLostMeanwhile
<1>3. CASE RenameDevice
  <2>1. Ledger' /\ wire' \subseteq Message
    BY <1>3, RenamedKeepsLedger
  <2>2. DeliveryTypes'
    BY <1>1, <1>3, <2>1, NoDeliveryIsDelivery DEF RenameDevice, DeliveryTypes
  <2> QED BY <1>2, <2>1, <2>2
<1>4. CASE StopPublisher \/ ConfigurePublisher
  <2>1. deliveries' = NothingInFlight /\ wire' = {} /\ acked' = {}
    BY <1>4 DEF StopPublisher, ConfigurePublisher, DropReceipts
  <2>2. DeliveryTypes'
    BY <1>1, <1>4, <2>1, NoDeliveryIsDelivery DEF StopPublisher, ConfigurePublisher, DeliveryTypes
  <2>3. Ledger'
    BY <2>1, <2>2, DroppedKeepsLedger DEF DeliveryTypes
  <2> QED BY <1>2, <2>2, <2>3
<1>5. CASE StartPublisher
  <2>1. UNCHANGED <<up, deliveries, generation, sequence, wire, acked, enabled>>
    BY <1>5 DEF StartPublisher
  <2> QED BY <1>1, <1>2, <2>1, UntouchedKeepsLedger DEF DeliveryTypes
<1>6. CASE Restart
  <2>1. /\ ~up /\ up' /\ generation' = 1 /\ UNCHANGED <<deliveries, sequence, wire, acked, enabled>>
    BY <1>6 DEF Restart
  <2>2. DeliveryTypes'
    BY <1>1, <2>1 DEF DeliveryTypes
  <2>3. DeliveriesAreRecent'
    <3>1. \A f \in Events : deliveries[f] = NoDelivery
      BY <2>1 DEF Ledger, DeliveriesAreRecent, NothingInFlight
    <3> QED BY <2>1, <3>1 DEF Ledger, DeliveriesAreRecent
  <2>4. NumbersAreOwn' /\ ReceiptsAreWanted' /\ ConfirmedIsReceived'
    BY <1>1, <2>1 DEF Ledger, NumbersAreOwn, ReceiptsAreWanted, ConfirmedIsReceived, Number, Confirmed
  <2> QED BY <1>2, <2>2, <2>3, <2>4 DEF Ledger
<1> QED BY <1>3, <1>4, <1>5, <1>6

LEMMA ResetStep ==
  ASSUME DeliveryInv, FactoryReset \/ Crash
  PROVE  DeliveryInv'
<1> USE DEF DeliveryInv, tables, pass, publisher, library, history
<1>1. deliveries' = NothingInFlight /\ wire' = {} /\ acked' = {} /\ step' = "idle" /\ sequence' = 1
  BY DEF FactoryReset, Crash, DropReceipts
<1>2. DeliveryTypes'
  <2>1. CASE FactoryReset
    <3>1. outbox' \in Seq(Events)
      <4>1. outbox' = outbox \/ outbox' = <<>>
        BY <2>1 DEF FactoryReset
      <4>2. outbox \in Seq(Events) /\ <<>> \in Seq(Events)
        BY DEF DeliveryTypes
      <4> QED BY <4>1, <4>2
    <3>2. batch' = batch /\ produced' = produced /\ generation' = generation + 1
      BY <2>1 DEF FactoryReset
    <3>3. enabled' \in BOOLEAN
      BY <2>1 DEF FactoryReset
    <3>4. generation' \in Nat
      BY <3>2 DEF DeliveryTypes
    <3> QED BY <1>1, <3>1, <3>2, <3>3, <3>4, NoDeliveryIsDelivery DEF DeliveryTypes
  <2>2. CASE Crash
    <3>1. /\ outbox' = outbox /\ batch' = <<>> /\ produced' = produced
          /\ enabled' \in BOOLEAN /\ generation' = 0
      BY <2>2 DEF Crash
    <3> QED BY <1>1, <3>1, NoDeliveryIsDelivery DEF DeliveryTypes
  <2> QED BY <2>1, <2>2
<1>3. Ledger'
  BY <1>1, DroppedKeepsLedger
<1>4. PassInv'
  BY <1>1 DEF PassInv
<1>5. NothingIsLost'
  <2>1. CASE FactoryReset
    BY <2>1 DEF FactoryReset, NothingIsLost
  <2>2. CASE Crash
    BY <2>2, NothingLostMeanwhile DEF Crash
  <2> QED BY <2>1, <2>2
<1> QED BY <1>2, <1>3, <1>4, <1>5

LEMMA DeliveryHolds == Spec => []DeliveryInv
<1>1. DeliveryInv /\ [Next]_vars => DeliveryInv'
  <2> SUFFICES ASSUME DeliveryInv, [Next]_vars PROVE DeliveryInv'
    OBVIOUS
  <2>1. CASE UNCHANGED vars
    <3>1. UNCHANGED <<up, outbox, stored, batch, step, enabled, deliveries, generation, sequence, wire,
                      acked, produced, received, unsent, forgotten>>
      BY <2>1 DEF vars, tables, pass, publisher, library, history
    <3>2. Ledger' /\ PassInv' /\ NothingIsLost'
      BY <3>1, UntouchedKeepsLedger, PassGoesOn, NothingLostMeanwhile DEF DeliveryInv
    <3> QED BY <3>1, <3>2 DEF DeliveryInv, DeliveryTypes
  <2>2. CASE Emit
    BY <2>2, EmitStep
  <2>3. CASE Pass
    BY <2>3, ReadOutboxStep, AppendEventStep, DeliverEventStep, RemoveEventStep DEF Pass
  <2>4. CASE Connect \/ Disconnect \/ Acknowledge \/ Worker \/ RequestReconnect
    BY <2>4, LibraryStep DEF Worker
  <2>5. CASE RenameDevice \/ StopPublisher \/ Configuration \/ Restart
    BY <2>5, PublisherStep DEF Configuration
  <2>6. CASE FactoryReset \/ Crash
    BY <2>6, ResetStep
  <2> QED BY <2>1, <2>2, <2>3, <2>4, <2>5, <2>6 DEF Next
<1> QED BY <1>1, DeliveryStart, PTL DEF Spec

(***************************************************************************)
(* The theorems.                                                           *)
(***************************************************************************)
(* However writes fail, the process crashes, the client loses its          *)
(* connection or the publisher is reconfigured, an event leaves the outbox *)
(* only when EventStore has it and the broker has acknowledged it on each  *)
(* of its topics, MQTT was disabled, or a factory reset erased it.         *)
THEOREM NothingIsEverLost == Spec => []NothingIsLost
<1>1. DeliveryInv => NothingIsLost
  BY DEF DeliveryInv
<1> QED BY <1>1, DeliveryHolds, PTL

(* No receipt is ever taken for that of another publication, although the  *)
(* numbers start over with every configuration, and none is kept for which *)
(* no delivery waits.                                                      *)
THEOREM ReceiptsStayGenuine == Spec => []ReceiptsAreGenuine
<1>1. DeliveryInv => ReceiptsAreGenuine
  <2> SUFFICES ASSUME DeliveryInv PROVE ReceiptsAreGenuine
    OBVIOUS
  <2>1. \A e \in Events, i \in 1..2 : Number(e, i) # 0 /\ ~Confirmed(e, i) => Number(e, i) \in Awaited
    BY NumberedIsInFlight DEF Awaited, Number, Confirmed
  <2>2. acked \subseteq Awaited
    BY <2>1 DEF DeliveryInv, Ledger, ReceiptsAreWanted
  <2>3. \A m \in wire : m.claimed => m.seq \in Awaited
    <3>1. \A m \in wire : m.event \in Events /\ m.topic \in 1..2
      BY DEF DeliveryInv, DeliveryTypes, Message
    <3> QED BY <2>1, <3>1 DEF DeliveryInv, Ledger, ReceiptsAreWanted
  <2>4. \A e \in InFlight : \A i \in Topics(e) :
          (deliveries[e].confirmed[i] \/ deliveries[e].sequences[i] \in acked) => <<e, i>> \in received
    BY TopicsAreTwo DEF DeliveryInv, Ledger, ConfirmedIsReceived, Number, Confirmed, InFlight
  <2> QED BY <2>2, <2>3, <2>4 DEF ReceiptsAreGenuine
<1> QED BY <1>1, DeliveryHolds, PTL
===============================================================================
