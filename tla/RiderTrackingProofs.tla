------------------------ MODULE RiderTrackingProofs ------------------------
(***************************************************************************)
(* A captured location is ingested at most once and is not forgotten, for  *)
(* every set of orders, phones of either kind with any queue limit, and    *)
(* any number of pings, crashes and requests that arrive late.             *)
(***************************************************************************)
EXTENDS RiderTracking, SequenceTheorems, SumLemmas, TLAPS

\* Ids and sequence numbers come from captures that happened.
Made(p) == p.id <= captured /\ p.seq <= captured

AllMade(q) == \A i \in DOMAIN q : Made(q[i])

PingsMade ==
    /\ sequence <= captured
    /\ AllMade(queue) /\ AllMade(stored)
    /\ flight # None => Made(flight.ping)
    /\ \A p \in late : Made(p)

\* What is tracked, here or by the service, is an order.
TracksOrder ==
    /\ active => current \in Order
    /\ service.active => service.order \in Order
    /\ call # None /\ call.op = "start" => call.order \in Order

TypeInv == TypeOK /\ PingsMade /\ TracksOrder

IdsRise(q) == \A i, j \in DOMAIN q : i < j => q[i].id < q[j].id

\* The app works on the queue it stored, but for the time between a restart
\* and its next start, and until pings are dropped it sends their head.
AppQueue ==
    js => /\ IdsRise(stored)
          /\ \/ queue = stored
             \/ queue = <<>> /\ flight = None /\ ~active /\ call = None
          /\ flight # None /\ cut = {}
                => queue # <<>> /\ flight.ping = Head(queue)

\* A flush of the service sends the head of what it has left; what it has
\* taken off is settled, though still stored.
ServiceQueue ==
    ~js /\ flight # None =>
        /\ queue # <<>> /\ flight.ping = Head(queue)
        /\ ids(stored) \subseteq ids(queue) \cup settled

TrackInv == TypeInv /\ RowsInOrder /\ AppQueue /\ ServiceQueue /\ PingsKept

-----------------------------------------------------------------------------
(* Sequences of pings *)

LEMMA SequenceFacts ==
    ASSUME NEW q \in Seq(Ping)
    PROVE  /\ Len(q) \in Nat /\ DOMAIN q = 1 .. Len(q)
           /\ \A i \in DOMAIN q : q[i] \in Ping
           /\ q = <<>> <=> Len(q) = 0
           /\ q # <<>> => Head(q) = q[1] /\ 1 \in DOMAIN q
BY LenProperties, ElementOfSeq, EmptySeq

LEMMA IdsAre ==
    ASSUME NEW q \in Seq(Ping)
    PROVE  /\ \A i \in DOMAIN q : q[i].id \in ids(q)
           /\ \A n \in ids(q) : \E i \in DOMAIN q : n = q[i].id
           /\ q # <<>> => Head(q).id \in ids(q)
           /\ q = <<>> => ids(q) = {}
BY SequenceFacts DEF ids

LEMMA SendingHead ==
    ASSUME NEW q \in Seq(Ping)
    PROVE  /\ q = <<>> => Sending(q) = None
           /\ q # <<>> => /\ Sending(q) # None /\ Sending(q) \in Flight
                          /\ Sending(q).ping = Head(q) /\ Head(q) = q[1]
                          /\ 1 \in DOMAIN q
           /\ Sending(q) \in Flight \cup {None}
<1>1. ASSUME q # <<>> PROVE [ping |-> Head(q), answer |-> None] \in Flight
  BY <1>1, SequenceFacts DEF Flight
<1>2. QED BY <1>1, SequenceFacts, RiderTrackingAssumption DEF Sending

LEMMA TailFacts ==
    ASSUME NEW q \in Seq(Ping), q # <<>>
    PROVE  /\ Tail(q) \in Seq(Ping) /\ Len(Tail(q)) <= Len(q)
           /\ \A i \in DOMAIN Tail(q) : i + 1 \in DOMAIN q /\ Tail(q)[i] = q[i + 1]
           /\ \A i \in DOMAIN Tail(q) : i \in Nat
           /\ ids(q) \subseteq ids(Tail(q)) \cup {Head(q).id}
           /\ IdsRise(q) => IdsRise(Tail(q))
<1>1. /\ Tail(q) \in Seq(Ping) /\ Len(Tail(q)) = Len(q) - 1
      /\ \A i \in 1 .. Len(Tail(q)) : Tail(q)[i] = q[i + 1]
  BY HeadTailProperties
<1>2. /\ DOMAIN Tail(q) = 1 .. Len(q) - 1 /\ DOMAIN q = 1 .. Len(q)
      /\ Len(q) \in Nat
      /\ Head(q) = q[1]
  BY <1>1, SequenceFacts
<1>3. \A i \in DOMAIN Tail(q) :
         i + 1 \in DOMAIN q /\ Tail(q)[i] = q[i + 1] /\ i \in Nat
  BY <1>1, <1>2
<1>4. ASSUME NEW n \in ids(q), n # Head(q).id PROVE n \in ids(Tail(q))
  <2>1. PICK i \in DOMAIN q : n = q[i].id BY IdsAre
  <2>2. i # 1 BY <2>1, <1>2, <1>4
  <2>3. i - 1 \in DOMAIN Tail(q) /\ Tail(q)[i - 1] = q[i]
    BY <2>2, <1>1, <1>2
  <2>4. QED BY <2>1, <2>3, <1>1, IdsAre
<1>5. ASSUME IdsRise(q) PROVE IdsRise(Tail(q))
  BY <1>3, <1>5 DEF IdsRise
<1>6. QED BY <1>1, <1>2, <1>3, <1>4, <1>5

\* What a full queue drops is at its head; the rest keeps its order.
LEMMA BoundedFacts ==
    ASSUME NEW q \in Seq(Ping), q # <<>>, NEW limit \in Nat, limit >= 1,
           phone.limit = limit, Len(q) <= limit + 1
    PROVE  /\ Bounded(q) \in Seq(Ping) /\ Bounded(q) # <<>>
           /\ Len(Bounded(q)) <= limit
           /\ Len(q) <= limit => Bounded(q) = q
           /\ Len(q) > limit => Bounded(q) = Tail(q)
<1>1. Len(q) \in Nat /\ Len(q) # 0
  BY SequenceFacts
<1>2. CASE Len(q) <= limit
  <2>0. (IF Len(q) > phone.limit THEN Len(q) - phone.limit + 1 ELSE 1) = 1
    BY <1>1, <1>2
  <2>1. Bounded(q) = SubSeq(q, 1, Len(q))
    BY <2>0 DEF Bounded
  <2>2. Bounded(q) = q
    BY <2>1, SubSeqFull
  <2>3. QED BY <1>1, <1>2, <2>2
<1>3. CASE ~ Len(q) <= limit
  <2>0. Len(q) - limit + 1 = 2 /\ Len(q) > limit
    BY <1>1, <1>3
  <2>1. Bounded(q) = SubSeq(q, 2, Len(q))
    BY <2>0 DEF Bounded
  <2>2. Bounded(q) = Tail(q)
    BY <2>1, TailIsSubSeq
  <2>3. Tail(q) \in Seq(Ping) /\ Len(Tail(q)) = Len(q) - 1
    BY HeadTailProperties
  <2>4. Len(Tail(q)) # 0 /\ Len(Tail(q)) <= limit /\ ~ Len(q) <= limit
    BY <1>1, <2>0, <2>3
  <2>5. Tail(q) # <<>> BY <2>4, EmptySeq
  <2>6. QED BY <2>2, <2>3, <2>4, <2>5
<1>4. QED BY <1>2, <1>3

LEMMA AppendFacts ==
    ASSUME NEW q \in Seq(Ping), NEW p \in Ping
    PROVE  /\ Append(q, p) \in Seq(Ping) /\ Append(q, p) # <<>>
           /\ Len(Append(q, p)) = Len(q) + 1
           /\ q # <<>> => Head(Append(q, p)) = Head(q)
           /\ \A i \in DOMAIN Append(q, p) :
                 \/ Append(q, p)[i] = p
                 \/ i \in DOMAIN q /\ Append(q, p)[i] = q[i]
           /\ ids(Append(q, p)) = ids(q) \cup {p.id}
           /\ IdsRise(q) /\ (\A i \in DOMAIN q : q[i].id < p.id)
                 => IdsRise(Append(q, p))
<1> DEFINE all == Append(q, p)
<1>1. /\ all \in Seq(Ping) /\ all # <<>> /\ Len(all) = Len(q) + 1
      /\ \A i \in 1 .. Len(q) : all[i] = q[i]
      /\ all[Len(q) + 1] = p
      /\ Head(all) = IF q = <<>> THEN p ELSE Head(q)
  BY AppendProperties, HeadTailAppend
<1> HIDE DEF all
<1>2. /\ DOMAIN all = 1 .. Len(q) + 1 /\ DOMAIN q = 1 .. Len(q)
      /\ Len(q) \in Nat
  BY <1>1, SequenceFacts
<1>3. \A i \in DOMAIN all : IF i = Len(q) + 1 THEN all[i] = p
                            ELSE i \in DOMAIN q /\ all[i] = q[i]
  BY <1>1, <1>2
<1>4. ids(all) = ids(q) \cup {p.id}
  <2>1. ASSUME NEW n \in ids(all) PROVE n \in ids(q) \cup {p.id}
    BY <1>1, <1>3, IdsAre
  <2>2. ASSUME NEW n \in ids(q) PROVE n \in ids(all)
    <3>1. PICK i \in DOMAIN q : n = q[i].id BY IdsAre
    <3>2. i \in DOMAIN all /\ all[i] = q[i] BY <1>1, <1>2
    <3>3. QED BY <3>1, <3>2, <1>1, IdsAre
  <2>3. p.id \in ids(all)
    <3>1. Len(q) + 1 \in DOMAIN all BY <1>2
    <3>2. QED BY <3>1, <1>1, IdsAre
  <2>4. QED BY <2>1, <2>2, <2>3
<1>5. ASSUME IdsRise(q), \A i \in DOMAIN q : q[i].id < p.id PROVE IdsRise(all)
  <2>1. SUFFICES ASSUME NEW i \in DOMAIN all, NEW j \in DOMAIN all, i < j
                 PROVE  all[i].id < all[j].id
    BY DEF IdsRise
  <2>2. i \in DOMAIN q /\ all[i] = q[i] BY <1>2, <1>3, <2>1
  <2>3. QED BY <1>2, <1>3, <1>5, <2>1, <2>2 DEF IdsRise
<1>6. QED BY <1>1, <1>3, <1>4, <1>5 DEF all

-----------------------------------------------------------------------------
(* Captures and answers *)

LEMMA LimitOf ==
    ASSUME TypeOK
    PROVE  /\ \E limit \in Nat : limit >= 1 /\ phone.limit = limit
           /\ PingLimit \in Nat /\ captured \in Nat
BY RiderTrackingAssumption DEF TypeOK, Phone

LEMMA QueuedFacts ==
    ASSUME TypeInv, NEW o \in Order, NEW q \in Seq(Ping), AllMade(q),
           Len(q) <= phone.limit, Queued(o, q)
    PROVE  /\ queue' \in Seq(Ping) /\ queue' # <<>> /\ stored' = queue'
           /\ Len(queue') <= phone.limit
           /\ captured' = captured + 1 /\ captured' \in 0 .. PingLimit
           /\ sequence' \in 0 .. PingLimit /\ sequence' <= captured'
           /\ AllMade(queue)'
           /\ cut \subseteq cut' /\ cut' \subseteq cut \cup 1 .. captured'
           /\ ids(q) \cup {captured'} \subseteq ids(queue') \cup cut'
           /\ IdsRise(q) => IdsRise(queue')
           /\ IdsRise(q) /\ q # <<>> /\ cut' = {} => Head(queue') = Head(q)
           /\ flight' = IF flight = None THEN Sending(queue') ELSE flight
<1> DEFINE p == [id |-> captured + 1, order |-> o, seq |-> sequence + 1]
           all == Append(q, p)
<1>1. /\ captured < PingLimit
      /\ captured' = captured + 1 /\ sequence' = sequence + 1
      /\ queue' = Bounded(all) /\ stored' = queue'
      /\ cut' = cut \cup (ids(all) \ ids(queue'))
      /\ flight' = IF flight = None THEN Sending(queue') ELSE flight
  BY DEF Queued
<1>2. /\ captured \in Nat /\ sequence \in Nat /\ sequence <= captured
      /\ PingLimit \in Nat
  BY LimitOf DEF TypeInv, TypeOK, PingsMade
<1>3. /\ p \in Ping /\ p.id = captured + 1 /\ p.seq <= captured + 1
      /\ captured' \in 0 .. PingLimit /\ sequence' \in 0 .. PingLimit
      /\ sequence' <= captured'
  BY <1>1, <1>2 DEF Ping
<1> HIDE DEF p
<1>4. PICK limit \in Nat : limit >= 1 /\ phone.limit = limit
  BY LimitOf DEF TypeInv
<1>5. \A i \in DOMAIN q : q[i] \in Ping /\ q[i].id <= captured /\ q[i].seq <= captured
  BY SequenceFacts DEF AllMade, Made
<1>6. \A i \in DOMAIN q : q[i].id \in Nat /\ q[i].id >= 1 /\ q[i].seq \in Nat
  BY <1>5 DEF Ping
<1>7. /\ all \in Seq(Ping) /\ all # <<>> /\ Len(all) = Len(q) + 1
      /\ q # <<>> => Head(all) = Head(q)
      /\ \A i \in DOMAIN all : all[i] = p \/ (i \in DOMAIN q /\ all[i] = q[i])
      /\ ids(all) = ids(q) \cup {captured + 1}
      /\ IdsRise(q) => IdsRise(all)
  <2>1. \A i \in DOMAIN q : q[i].id < p.id
    BY <1>2, <1>3, <1>5, <1>6
  <2>2. QED BY <1>3, <2>1, AppendFacts
<1> HIDE DEF all
<1>8. /\ queue' \in Seq(Ping) /\ queue' # <<>> /\ Len(queue') <= limit
      /\ queue' = all \/ queue' = Tail(all)
  <2>1. Len(all) <= limit + 1 /\ Len(all) \in Nat
    BY <1>4, <1>7, SequenceFacts
  <2>2. QED BY <1>1, <1>4, <1>7, <2>1, BoundedFacts
<1>9. \A i \in DOMAIN all : all[i].id <= captured' /\ all[i].seq <= captured'
  BY <1>1, <1>2, <1>3, <1>5, <1>6, <1>7
<1>10. \A i \in DOMAIN queue' : \E j \in DOMAIN all : queue'[i] = all[j]
  <2>1. CASE queue' = all BY <2>1
  <2>2. CASE queue' = Tail(all)
    <3>1. \A i \in DOMAIN Tail(all) :
             i + 1 \in DOMAIN all /\ Tail(all)[i] = all[i + 1]
      BY <1>7, TailFacts
    <3>2. QED BY <2>2, <3>1
  <2>3. QED BY <1>8, <2>1, <2>2
<1>11. AllMade(queue)'
  BY <1>9, <1>10 DEF AllMade, Made
<1>12. ids(all) \subseteq 1 .. captured'
  BY <1>1, <1>2, <1>5, <1>6, <1>7, IdsAre
<1>13. IdsRise(q) => IdsRise(queue')
  BY <1>7, <1>8, TailFacts
<1>14. ASSUME IdsRise(q), q # <<>>, cut' = {} PROVE Head(queue') = Head(q)
  <2>1. CASE queue' = all BY <2>1, <1>7, <1>14
  <2>2. CASE queue' # all
    <3>1. queue' = Tail(all) /\ IdsRise(all) BY <2>2, <1>7, <1>8, <1>14
    <3>2. Head(all).id \in ids(all) BY <1>7, IdsAre
    <3>3. Head(all).id \in ids(queue') BY <3>2, <1>1, <1>14
    <3>4. PICK i \in DOMAIN queue' : Head(all).id = queue'[i].id
      BY <3>3, <1>8, IdsAre
    <3>5. i + 1 \in DOMAIN all /\ queue'[i] = all[i + 1] /\ i \in DOMAIN queue'
      BY <3>1, <1>7, TailFacts
    <3>6. Head(all) = all[1] /\ 1 \in DOMAIN all /\ i \in Nat /\ i >= 1
      BY <1>7, <1>8, SequenceFacts
    <3>7. all[1].id < all[i + 1].id
      BY <3>1, <3>5, <3>6 DEF IdsRise
    <3>8. all[1].id \in Nat
      <4>1. all[1] \in Ping BY <3>6, <1>7, SequenceFacts
      <4>2. QED BY <4>1, <1>2 DEF Ping
    <3>9. QED BY <3>4, <3>5, <3>6, <3>7, <3>8
  <2>3. QED BY <2>1, <2>2
<1>15. QED
  BY <1>1, <1>3, <1>4, <1>7, <1>8, <1>11, <1>12, <1>13, <1>14

\* A request adds a row at most once, and only behind the rows there are.
LEMMA IngestedFacts ==
    ASSUME TypeInv, RowsInOrder, NEW p \in Ping, Made(p),
           NEW answer \in Replies(p), Ingested(p, answer)
    PROVE  rows' \in [Order -> Seq(Row)] /\ RowsInOrder'
<1>1. rows \in [Order -> Seq(Row)] /\ captured \in Nat /\ captured <= PingLimit
      /\ PingLimit \in Nat
  BY LimitOf DEF TypeInv, TypeOK
<1>2. p.order \in Order /\ p.id \in 1 .. PingLimit /\ p.seq \in 1 .. PingLimit
      /\ p.id <= captured
  BY DEF Ping, Made
<1>3. CASE answer = "ok" /\ ~Duplicate(p)
  <2> DEFINE o == p.order
             row == [id |-> p.id, seq |-> p.seq, created |-> captured]
             all == Append(rows[o], row)
  <2>1. rows' = [rows EXCEPT ![o] = all]
    BY <1>3 DEF Ingested
  <2>2. row \in Row /\ row.id = p.id /\ row.seq = p.seq
    BY <1>1, <1>2 DEF Row
  <2>3. ~NotNewer(p)
    BY <1>3 DEF Replies
  <2>4. \A i \in DOMAIN rows[o] : rows[o][i].id # p.id
    BY <1>3 DEF Duplicate
  <2> HIDE DEF row
  <2>5. /\ rows[o] \in Seq(Row) /\ all \in Seq(Row)
        /\ Len(rows[o]) \in Nat /\ DOMAIN rows[o] = 1 .. Len(rows[o])
        /\ DOMAIN all = 1 .. Len(rows[o]) + 1
        /\ \A i \in 1 .. Len(rows[o]) : all[i] = rows[o][i]
        /\ all[Len(rows[o]) + 1] = row
    BY <1>1, <1>2, <2>2, AppendProperties, LenProperties
  <2>6. \A i \in DOMAIN rows[o] : rows[o][i].seq < p.seq
    <3> SUFFICES ASSUME NEW i \in DOMAIN rows[o] PROVE rows[o][i].seq < p.seq
      OBVIOUS
    <3>1. /\ rows[o] # <<>> /\ Last(rows[o]) = rows[o][Len(rows[o])]
          /\ Len(rows[o]) \in DOMAIN rows[o]
      BY <2>5, EmptySeq DEF Last
    <3>2. ~ p.seq <= rows[o][Len(rows[o])].seq
      BY <2>3, <3>1 DEF NotNewer
    <3>3. /\ rows[o][i].seq \in Nat /\ rows[o][Len(rows[o])].seq \in Nat
      <4>1. rows[o][i] \in Row /\ rows[o][Len(rows[o])] \in Row
        BY <2>5, <3>1, ElementOfSeq
      <4>2. QED BY <4>1, <1>1 DEF Row
    <3>4. i = Len(rows[o]) \/ rows[o][i].seq < rows[o][Len(rows[o])].seq
      BY <2>5, <3>1, <1>2 DEF RowsInOrder
    <3>5. QED BY <3>2, <3>3, <3>4, <1>2
  <2> HIDE DEF all
  <2>7. rows' \in [Order -> Seq(Row)]
    BY <1>1, <1>2, <2>1, <2>5
  <2>8. ASSUME NEW d \in Order, NEW i \in DOMAIN rows'[d],
               NEW j \in DOMAIN rows'[d], i < j
        PROVE  rows'[d][i].id # rows'[d][j].id /\ rows'[d][i].seq < rows'[d][j].seq
    <3>1. CASE d # o
      BY <3>1, <2>1, <2>8, <1>1 DEF RowsInOrder
    <3>2. CASE d = o
      <4>1. rows'[d] = all BY <3>2, <2>1, <1>1
      <4>2. i \in DOMAIN rows[o] /\ all[i] = rows[o][i]
        BY <4>1, <2>5, <2>8
      <4>3. CASE j = Len(rows[o]) + 1
        BY <4>1, <4>2, <4>3, <2>2, <2>4, <2>5, <2>6
      <4>4. CASE j # Len(rows[o]) + 1
        <5>1. j \in DOMAIN rows[o] /\ all[j] = rows[o][j]
          BY <4>1, <4>4, <2>5
        <5>2. QED BY <5>1, <4>1, <4>2, <2>8, <1>2 DEF RowsInOrder
      <4>5. QED BY <4>3, <4>4
    <3>3. QED BY <3>1, <3>2
  <2>9. QED BY <2>7, <2>8 DEF RowsInOrder
<1>4. CASE ~ (answer = "ok" /\ ~Duplicate(p))
  <2>1. rows' = rows BY <1>4 DEF Ingested
  <2>2. QED BY <2>1, <1>1 DEF RowsInOrder
<1>5. QED BY <1>3, <1>4

LEMMA AbandonedFacts ==
    ASSUME TypeInv, Abandoned, UNCHANGED captured
    PROVE  late' \in SUBSET Ping /\ (\A p \in late : Made(p))'
<1>1. late' = late \/ (flight # None /\ late' = late \cup {flight.ping})
  BY DEF Abandoned
<1>2. flight # None => flight.ping \in Ping
  BY DEF TypeInv, TypeOK, Flight
<1>3. QED BY <1>1, <1>2 DEF TypeInv, TypeOK, PingsMade, Made

-----------------------------------------------------------------------------
(* The steps *)

LEMMA InitTrack == Init => TrackInv
<1> SUFFICES ASSUME Init PROVE TrackInv
  OBVIOUS
<1>1. /\ <<>> \in Seq(Ping) /\ <<>> \in Seq(Row) /\ Len(<<>>) = 0
      /\ DOMAIN <<>> = {}
  BY EmptySeq, LenProperties
<1>2. \E limit \in Nat : limit >= 1 /\ phone.limit = limit
  BY RiderTrackingAssumption DEF Init, Phone
<1>3. TypeOK
  <2>1. /\ phone \in Phones /\ delivery \in [Order -> DeliveryState]
        /\ rows \in [Order -> Seq(Row)]
        /\ call \in Call \cup {None} /\ current \in Order \cup {None}
        /\ flight \in Flight \cup {None}
        /\ service \in [active : BOOLEAN, order : Order \cup {None}]
        /\ active \in BOOLEAN /\ watching \in BOOLEAN
    BY <1>1 DEF Init, DeliveryState
  <2>2. \A q \in {queue, stored} : q \in Seq(Ping) /\ Len(q) <= phone.limit
    <3>1. queue = <<>> /\ stored = <<>> BY DEF Init
    <3>2. 0 <= phone.limit BY <1>2
    <3>3. QED BY <1>1, <3>1, <3>2
  <2>3. /\ sequence \in 0 .. PingLimit /\ captured \in 0 .. PingLimit
        /\ crashes \in 0 .. CrashLimit /\ late \in SUBSET Ping
        /\ settled \cup cut \subseteq 1 .. captured
    BY RiderTrackingAssumption DEF Init
  <2>4. QED BY <2>1, <2>2, <2>3 DEF TypeOK
<1>4. PingsMade /\ TracksOrder
  BY <1>1, RiderTrackingAssumption DEF Init, PingsMade, AllMade, TracksOrder
<1>5. RowsInOrder
  BY <1>1 DEF Init, RowsInOrder
<1>6. AppQueue /\ ServiceQueue /\ PingsKept
  BY <1>1 DEF Init, AppQueue, ServiceQueue, PingsKept, IdsRise
<1>7. QED BY <1>3, <1>4, <1>5, <1>6 DEF TrackInv, TypeInv

\* Everything of the phone but its connection to the server's own state.
LEMMA PhoneStays ==
    ASSUME TrackInv, UNCHANGED <<phone, app, sequence, queue, stored, service, ghost>>,
           flight' = flight \/ (flight # None /\ flight' # None
                                  /\ flight'.ping = flight.ping)
    PROVE  AppQueue' /\ ServiceQueue' /\ PingsKept' /\ TracksOrder'
           /\ sequence' <= captured' /\ AllMade(queue)' /\ AllMade(stored)'
           /\ (flight # None => Made(flight.ping))'
<1>1. /\ phone' = phone /\ queue' = queue /\ stored' = stored /\ cut' = cut
      /\ captured' = captured /\ settled' = settled /\ service' = service
      /\ sequence' = sequence
      /\ active' = active /\ current' = current /\ call' = call
  BY DEF app, ghost
<1>2. AppQueue'
  BY <1>1 DEF TrackInv, AppQueue, IdsRise, js
<1>3. ServiceQueue'
  BY <1>1 DEF TrackInv, ServiceQueue, ids, js
<1>4. PingsKept'
  BY <1>1 DEF TrackInv, PingsKept, ids, js
<1>5. TracksOrder'
  BY <1>1 DEF TrackInv, TypeInv, TracksOrder
<1>6. sequence' <= captured' /\ AllMade(queue)' /\ AllMade(stored)'
  BY <1>1 DEF TrackInv, TypeInv, PingsMade, AllMade, Made
<1>7. (flight # None => Made(flight.ping))'
  BY <1>1 DEF TrackInv, TypeInv, PingsMade, Made
<1>8. QED BY <1>2, <1>3, <1>4, <1>5, <1>6, <1>7

LEMMA DeliveryStep ==
    ASSUME TrackInv, NEW o \in Order, DeliveryChanges(o) PROVE TrackInv'
<1>1. /\ delivery' \in [Order -> DeliveryState]
      /\ UNCHANGED <<phone, rows, app, pings, late, ghost>>
  BY DEF DeliveryChanges, TrackInv, TypeInv, TypeOK
<1>2. AppQueue' /\ ServiceQueue' /\ PingsKept' /\ TracksOrder'
      /\ sequence' <= captured' /\ AllMade(queue)' /\ AllMade(stored)'
      /\ (flight # None => Made(flight.ping))'
  BY <1>1, PhoneStays DEF pings
<1>3. TypeOK'
  BY <1>1 DEF TrackInv, TypeInv, TypeOK, app, pings, ghost
<1>4. PingsMade' /\ RowsInOrder'
  BY <1>1, <1>2 DEF TrackInv, TypeInv, PingsMade, RowsInOrder, Made, ghost
<1>5. QED BY <1>2, <1>3, <1>4 DEF TrackInv, TypeInv

LEMMA IngestStep == ASSUME TrackInv, Ingest PROVE TrackInv'
<1>1. PICK answer \in Replies(flight.ping) :
         /\ Ingested(flight.ping, answer)
         /\ flight' = [flight EXCEPT !.answer = answer]
  BY DEF Ingest
<1>2. /\ flight \in Flight /\ flight # None
      /\ UNCHANGED <<phone, delivery, app, sequence, queue, stored, service,
                     late, ghost>>
  BY DEF Ingest, TrackInv, TypeInv, TypeOK
<1>3. flight.ping \in Ping /\ Made(flight.ping)
  BY <1>2 DEF TrackInv, TypeInv, PingsMade, Flight
<1>4. rows' \in [Order -> Seq(Row)] /\ RowsInOrder'
  BY <1>1, <1>3, IngestedFacts DEF TrackInv
<1>5. answer \in Answer
  BY <1>1 DEF Replies, Answer
<1>6. flight' \in Flight /\ flight' # None /\ flight'.ping = flight.ping
  <2>1. flight' \in Flight /\ flight'.ping = flight.ping
    BY <1>1, <1>2, <1>5 DEF Flight
  <2>2. QED BY <2>1, RiderTrackingAssumption
<1>7. AppQueue' /\ ServiceQueue' /\ PingsKept' /\ TracksOrder'
      /\ sequence' <= captured' /\ AllMade(queue)' /\ AllMade(stored)'
      /\ (flight # None => Made(flight.ping))'
  BY <1>2, <1>6, PhoneStays
<1>8. TypeOK'
  BY <1>2, <1>4, <1>6 DEF TrackInv, TypeInv, TypeOK, app, ghost
<1>9. PingsMade'
  BY <1>2, <1>7 DEF TrackInv, TypeInv, PingsMade, Made, ghost
<1>10. QED BY <1>4, <1>7, <1>8, <1>9 DEF TrackInv, TypeInv

LEMMA LateStep ==
    ASSUME TrackInv, NEW p \in late, IngestLate(p) PROVE TrackInv'
<1>1. PICK answer \in Replies(p) : Ingested(p, answer)
  BY DEF IngestLate
<1>2. late' = late \ {p} /\ UNCHANGED <<phone, delivery, app, pings, ghost>>
  BY DEF IngestLate
<1>3. p \in Ping /\ Made(p)
  BY DEF TrackInv, TypeInv, TypeOK, PingsMade
<1>4. rows' \in [Order -> Seq(Row)] /\ RowsInOrder'
  BY <1>1, <1>3, IngestedFacts DEF TrackInv
<1>5. AppQueue' /\ ServiceQueue' /\ PingsKept' /\ TracksOrder'
      /\ sequence' <= captured' /\ AllMade(queue)' /\ AllMade(stored)'
      /\ (flight # None => Made(flight.ping))'
  BY <1>2, PhoneStays DEF pings
<1>6. TypeOK'
  BY <1>2, <1>4 DEF TrackInv, TypeInv, TypeOK, app, pings, ghost
<1>7. PingsMade'
  BY <1>2, <1>5 DEF TrackInv, TypeInv, PingsMade, Made, ghost
<1>8. QED BY <1>4, <1>5, <1>6, <1>7 DEF TrackInv, TypeInv

LEMMA PollStep ==
    ASSUME TrackInv, StartFails \/ Poll PROVE TrackInv'
<1>1. UNCHANGED <<phone, server, watching, pings, late, ghost>>
  BY DEF StartFails, Poll
<1>2. \/ active' = active /\ current' = current /\ call' = None
      \/ /\ ~js /\ active' = service.active /\ call' = call /\ call = None
         /\ current' = IF service.order = None THEN current ELSE service.order
  BY DEF StartFails, Poll
<1>3. None \notin Order BY RiderTrackingAssumption
<1>4. TypeOK' /\ PingsMade' /\ RowsInOrder'
  BY <1>1, <1>2 DEF TrackInv, TypeInv, TypeOK, PingsMade, RowsInOrder, AllMade,
     Made, server, pings, ghost
<1>5. TracksOrder'
  BY <1>1, <1>2, <1>3 DEF TrackInv, TypeInv, TracksOrder, pings
<1>6. AppQueue'
  BY <1>1, <1>2 DEF TrackInv, AppQueue, IdsRise, js, pings, ghost
<1>7. ServiceQueue' /\ PingsKept'
  BY <1>1 DEF TrackInv, ServiceQueue, PingsKept, ids, js, pings, ghost
<1>8. QED BY <1>4, <1>5, <1>6, <1>7 DEF TrackInv, TypeInv

LEMMA SendingFacts ==
    ASSUME NEW q \in Seq(Ping), AllMade(q)
    PROVE  /\ Sending(q) \in Flight \cup {None}
           /\ Sending(q) # None => /\ q # <<>> /\ Sending(q).ping = Head(q)
                                   /\ Made(Sending(q).ping)
BY SendingHead DEF AllMade

LEMMA QueuesFit ==
    ASSUME TypeInv
    PROVE  /\ queue \in Seq(Ping) /\ Len(queue) <= phone.limit /\ AllMade(queue)
           /\ stored \in Seq(Ping) /\ Len(stored) <= phone.limit /\ AllMade(stored)
BY DEF TypeInv, TypeOK, PingsMade

\* The service starts, anew or for another order, and flushes.
LEMMA ServiceStartStep ==
    ASSUME TrackInv, ~js, NEW o \in Order, ServiceStart(o),
           UNCHANGED <<phone, server, late, ghost>>,
           active' \in BOOLEAN, watching' \in BOOLEAN, call' \in Call \cup {None},
           current' \in Order \cup {None}, active' => current' \in Order,
           call' = call \/ call' = None
    PROVE  TrackInv'
<1>1. /\ service' = [active |-> TRUE, order |-> o] /\ stored' = stored
      /\ sequence' = sequence \/ sequence' = 0
      /\ \/ flight = None /\ queue' = stored /\ flight' = Sending(stored)
         \/ flight # None /\ queue' = queue /\ flight' = flight
  BY DEF ServiceStart
<1>2. /\ queue' \in Seq(Ping) /\ Len(queue') <= phone.limit /\ AllMade(queue')
      /\ stored' \in Seq(Ping) /\ Len(stored') <= phone.limit /\ AllMade(stored')
  BY <1>1, QueuesFit DEF TrackInv
<1>3. /\ flight' \in Flight \cup {None}
      /\ flight' # None => Made(flight'.ping)
  BY <1>1, QueuesFit, SendingFacts DEF TrackInv, TypeInv, TypeOK, PingsMade
<1>4. sequence' \in 0 .. PingLimit /\ sequence' <= captured
  BY <1>1, LimitOf DEF TrackInv, TypeInv, TypeOK, PingsMade
<1>5. TypeOK'
  BY <1>1, <1>2, <1>3, <1>4 DEF TrackInv, TypeInv, TypeOK, server, ghost
<1>6. PingsMade' /\ RowsInOrder'
  BY <1>1, <1>2, <1>3, <1>4
  DEF TrackInv, TypeInv, PingsMade, RowsInOrder, AllMade, Made, server, ghost
<1>7. TracksOrder'
  BY <1>1, RiderTrackingAssumption DEF TrackInv, TypeInv, TracksOrder
<1>8. AppQueue' BY DEF AppQueue, js
<1>9. ServiceQueue'
  <2>1. CASE flight # None
    BY <2>1, <1>1 DEF TrackInv, ServiceQueue, ids, js, ghost
  <2>2. CASE flight = None
    BY <2>2, <1>1, QueuesFit, SendingFacts DEF TrackInv, ServiceQueue, ids, js
  <2>3. QED BY <2>1, <2>2
<1>10. PingsKept' BY <1>1 DEF TrackInv, PingsKept, ids, js, ghost
<1>11. QED BY <1>5, <1>6, <1>7, <1>8, <1>9, <1>10 DEF TrackInv, TypeInv

\* The app asks the server to start or to stop: the start reads the queue back.
LEMMA AskStep ==
    ASSUME TrackInv, UNCHANGED <<phone, server, late, ghost, stored, sequence>>,
           call' \in Call \cup {None}, watching' \in BOOLEAN,
           current' \in Order \cup {None},
           active' \in BOOLEAN, active' => current' \in Order,
           call' # None /\ call'.op = "start" => call'.order \in Order,
           service' = service
             \/ service' = [service EXCEPT !.active = FALSE],
           queue' = queue \/ (js /\ queue' = stored),
           flight' = flight \/ (js /\ flight = None /\ flight' = Sending(queue')),
           js => queue' = stored
    PROVE  TrackInv'
<1>1. /\ queue' \in Seq(Ping) /\ Len(queue') <= phone.limit /\ AllMade(queue')
      /\ stored' \in Seq(Ping) /\ Len(stored') <= phone.limit /\ AllMade(stored')
  BY QueuesFit DEF TrackInv
<1>2. /\ flight' \in Flight \cup {None}
      /\ flight' # None => Made(flight'.ping)
  BY <1>1, SendingFacts DEF TrackInv, TypeInv, TypeOK, PingsMade
<1>3. /\ service' \in [active : BOOLEAN, order : Order \cup {None}]
      /\ service'.active => service'.order \in Order
  BY DEF TrackInv, TypeInv, TypeOK, TracksOrder
<1>4. TypeOK'
  BY <1>1, <1>2, <1>3 DEF TrackInv, TypeInv, TypeOK, server, ghost
<1>5. PingsMade' /\ RowsInOrder'
  BY <1>1, <1>2
  DEF TrackInv, TypeInv, PingsMade, RowsInOrder, AllMade, Made, server, ghost
<1>6. TracksOrder' BY <1>3 DEF TracksOrder
<1>7. AppQueue'
  <2>1. SUFFICES ASSUME js PROVE AppQueue' BY DEF AppQueue, js
  <2>2. IdsRise(stored)' BY <2>1 DEF TrackInv, AppQueue, IdsRise
  <2>3. queue' = stored' BY <2>1
  <2>4. ASSUME flight' # None, cut' = {}
        PROVE  queue' # <<>> /\ flight'.ping = Head(queue')
    <3>1. CASE flight' = flight
      BY <2>1, <2>4, <3>1 DEF TrackInv, AppQueue, ghost
    <3>2. CASE flight' # flight
      BY <2>4, <3>2, <1>1, SendingFacts
    <3>3. QED BY <3>1, <3>2
  <2>5. QED BY <2>2, <2>3, <2>4 DEF AppQueue
<1>8. ServiceQueue' BY DEF TrackInv, ServiceQueue, ids, js, ghost
<1>9. PingsKept' BY DEF TrackInv, PingsKept, ids, js, ghost
<1>10. QED BY <1>4, <1>5, <1>6, <1>7, <1>8, <1>9 DEF TrackInv, TypeInv

LEMMA EffectStep == ASSUME TrackInv, Effect PROVE TrackInv'
<1>1. UNCHANGED <<phone, server, late, ghost>> /\ call = None
  BY DEF Effect
<1>2. \/ \E o \in Order : \/ ~js /\ active /\ ServiceStart(o) /\ UNCHANGED app
                          \/ active /\ BeginStop(o)
                          \/ ~active /\ BeginStart(o)
      \/ active /\ BeginStop(None)
  BY DEF Effect
<1>3. ASSUME NEW o \in Order, ~js, ServiceStart(o), UNCHANGED app PROVE TrackInv'
  <2>1. /\ active' = active /\ watching' = watching /\ call' = call
        /\ current' = current
    BY <1>3 DEF app
  <2>2. /\ active' \in BOOLEAN /\ watching' \in BOOLEAN
        /\ call' \in Call \cup {None} /\ current' \in Order \cup {None}
        /\ active' => current' \in Order
    BY <2>1 DEF TrackInv, TypeInv, TypeOK, TracksOrder
  <2>3. QED BY <1>1, <1>3, <2>1, <2>2, ServiceStartStep
<1>4. ASSUME NEW o \in Order \cup {None}, active, BeginStop(o) PROVE TrackInv'
  <2>1. /\ call' = [op |-> "stop", order |-> o] /\ watching' = FALSE
        /\ flight' = IF js /\ flight = None THEN Sending(queue) ELSE flight
        /\ UNCHANGED <<active, current, sequence, queue, stored, service>>
    BY <1>4 DEF BeginStop
  <2>2. js => queue' = stored
    BY <1>4, <2>1 DEF TrackInv, AppQueue
  <2>3. call' \in Call \cup {None} /\ call'.op = "stop"
    BY <2>1 DEF Call
  <2>4. /\ active' \in BOOLEAN /\ current' \in Order \cup {None}
        /\ active' => current' \in Order
    BY <2>1 DEF TrackInv, TypeInv, TypeOK, TracksOrder
  <2>5. flight' = flight \/ (js /\ flight = None /\ flight' = Sending(queue'))
    BY <2>1
  <2>6. QED BY <1>1, <2>1, <2>2, <2>3, <2>4, <2>5, AskStep
<1>5. ASSUME NEW o \in Order, BeginStart(o) PROVE TrackInv'
  <2>1. /\ call' = [op |-> "start", order |-> o]
        /\ queue' = IF js THEN stored ELSE queue
        /\ UNCHANGED <<active, current, watching, sequence, stored, flight, service>>
    BY <1>5 DEF BeginStart, restoreQueue
  <2>2. call' \in Call \cup {None} /\ call'.order \in Order
    BY <2>1 DEF Call
  <2>3. /\ active' \in BOOLEAN /\ current' \in Order \cup {None}
        /\ watching' \in BOOLEAN /\ (active' => current' \in Order)
    BY <2>1 DEF TrackInv, TypeInv, TypeOK, TracksOrder
  <2>4. QED BY <1>1, <2>1, <2>2, <2>3, AskStep
<1>6. QED BY <1>2, <1>3, <1>4, <1>5

LEMMA StoppedStep == ASSUME TrackInv, Stopped PROVE TrackInv'
<1>1. /\ call # None /\ call.op = "stop" /\ active' = FALSE /\ current' = None
      /\ service' = service \/ service' = [service EXCEPT !.active = FALSE]
      /\ \/ call.order = None /\ call' = None /\ queue' = queue
         \/ /\ call.order # None /\ call' = [op |-> "start", order |-> call.order]
            /\ queue' = IF js THEN stored ELSE queue
      /\ UNCHANGED <<phone, server, watching, sequence, stored, flight, late, ghost>>
  BY DEF Stopped, restoreQueue
<1>2. call \in Call /\ watching' \in BOOLEAN
  BY <1>1 DEF TrackInv, TypeInv, TypeOK
<1>3. /\ call' \in Call \cup {None}
      /\ call' # None /\ call'.op = "start" => call'.order \in Order
  BY <1>1, <1>2 DEF Call
<1>4. js => queue' = stored
  BY <1>1 DEF TrackInv, AppQueue
<1>5. QED BY <1>1, <1>2, <1>3, <1>4, AskStep

\* The largest of finitely many numbers, here those of the queue's pings.
LEMMA MaxIn ==
    ASSUME NEW n \in Nat, NEW S \in SUBSET (0 .. n), S # {}
    PROVE  Max(S) \in S
<1> DEFINE Bounds == {m \in Nat : \A k \in S : k <= m}
<1>1. Bounds \in SUBSET Nat /\ n \in Bounds
  OBVIOUS
<1>2. PICK m \in Bounds : \A l \in Bounds : m <= l
  <2> HIDE DEF Bounds
  <2> QED BY <1>1, LeastNumber
<1>3. m \in S
  <2>1. SUFFICES ASSUME m \notin S PROVE FALSE OBVIOUS
  <2>2. \A k \in S : k <= m - 1 /\ k >= 0
    BY <2>1
  <2>3. m - 1 \in Bounds
    <3>1. PICK k \in S : TRUE OBVIOUS
    <3>2. k \in Nat /\ k <= m - 1 /\ m \in Nat BY <2>2
    <3>3. m - 1 \in Nat BY <3>2
    <3>4. QED BY <2>2, <3>3
  <2>4. QED BY <1>2, <2>3
<1>4. \E x \in S : \A y \in S : x >= y
  BY <1>3
<1>5. QED BY <1>4 DEF Max

LEMMA NextSequence ==
    ASSUME TypeInv, NEW o \in Order
    PROVE  nextSequence(o) \in 0 .. PingLimit /\ nextSequence(o) <= captured
<1> DEFINE seqs == {queue[i].seq : i \in {j \in DOMAIN queue : queue[j].order = o}}
<1>1. captured \in Nat /\ PingLimit \in Nat /\ captured <= PingLimit
  BY LimitOf DEF TypeInv, TypeOK
<1>2. \A i \in DOMAIN queue : queue[i] \in Ping /\ queue[i].seq <= captured
  BY QueuesFit, SequenceFacts DEF AllMade, Made
<1>3. \A i \in DOMAIN queue : queue[i].seq \in 0 .. captured
  BY <1>1, <1>2 DEF Ping
<1>4. {0} \cup seqs \in SUBSET (0 .. captured) /\ {0} \cup seqs # {}
  BY <1>1, <1>3
<1> HIDE DEF seqs
<1>5. Max({0} \cup seqs) \in 0 .. captured
  BY <1>1, <1>4, MaxIn
<1>6. QED BY <1>1, <1>5 DEF nextSequence, seqs

LEMMA StartedStep == ASSUME TrackInv, Started PROVE TrackInv'
<1>1. /\ call # None /\ call.op = "start" /\ call' = None
      /\ UNCHANGED <<phone, server, late, ghost>>
      /\ call.order \in Order
  BY DEF Started, TrackInv, TypeInv, TracksOrder
<1>2. CASE ~Startable(call.order)
  <2>1. UNCHANGED <<active, current, watching, pings>>
    BY <1>2 DEF Started
  <2>2. TypeOK' /\ PingsMade' /\ RowsInOrder'
    BY <1>1, <2>1 DEF TrackInv, TypeInv, TypeOK, PingsMade, RowsInOrder, AllMade,
       Made, server, pings, ghost
  <2>3. TracksOrder'
    BY <1>1, <2>1 DEF TrackInv, TypeInv, TracksOrder, pings
  <2>4. AppQueue'
    BY <1>1, <2>1 DEF TrackInv, AppQueue, IdsRise, js, pings, ghost
  <2>5. ServiceQueue' /\ PingsKept'
    BY <1>1, <2>1 DEF TrackInv, ServiceQueue, PingsKept, ids, js, pings, ghost
  <2>6. QED BY <2>2, <2>3, <2>4, <2>5 DEF TrackInv, TypeInv
<1>3. CASE Startable(call.order) /\ ~js
  <2>1. /\ active' = TRUE /\ current' = call.order /\ watching' = js
        /\ ServiceStart(call.order)
    BY <1>3 DEF Started
  <2>2. watching' \in BOOLEAN BY <2>1 DEF js
  <2>3. QED BY <1>1, <1>3, <2>1, <2>2, ServiceStartStep
<1>4. CASE Startable(call.order) /\ js
  <2>1. /\ active' = TRUE /\ current' = call.order /\ watching' = js
        /\ sequence' = nextSequence(call.order)
        /\ flight' = IF flight = None THEN Sending(queue) ELSE flight
        /\ UNCHANGED <<queue, stored, service>>
    BY <1>4 DEF Started
  <2>2. sequence' \in 0 .. PingLimit /\ sequence' <= captured
    BY <1>1, <2>1, NextSequence DEF TrackInv
  <2>3. queue = stored
    BY <1>1, <1>4 DEF TrackInv, AppQueue
  <2>4. /\ flight' \in Flight \cup {None}
        /\ flight' # None => Made(flight'.ping)
    BY <2>1, QueuesFit, SendingFacts DEF TrackInv, TypeInv, TypeOK, PingsMade
  <2>5. watching' \in BOOLEAN BY <2>1 DEF js
  <2>6. TypeOK'
    BY <1>1, <2>1, <2>2, <2>4, <2>5 DEF TrackInv, TypeInv, TypeOK, server, ghost
  <2>7. PingsMade' /\ RowsInOrder'
    BY <1>1, <2>1, <2>2, <2>4
    DEF TrackInv, TypeInv, PingsMade, RowsInOrder, AllMade, Made, server, ghost
  <2>8. TracksOrder'
    BY <1>1, <2>1 DEF TrackInv, TypeInv, TracksOrder
  <2>9. AppQueue'
    <3>1. IdsRise(stored)' BY <1>4, <2>1 DEF TrackInv, AppQueue, IdsRise
    <3>2. ASSUME flight' # None, cut' = {}
          PROVE  queue' # <<>> /\ flight'.ping = Head(queue')
      <4>1. CASE flight # None
        BY <1>1, <1>4, <2>1, <3>2, <4>1 DEF TrackInv, AppQueue, ghost
      <4>2. CASE flight = None
        BY <2>1, <3>2, <4>2, QueuesFit, SendingFacts DEF TrackInv
      <4>3. QED BY <4>1, <4>2
    <3>3. QED BY <2>1, <2>3, <3>1, <3>2 DEF AppQueue
  <2>10. ServiceQueue' BY <1>1, <1>4 DEF ServiceQueue, js
  <2>11. PingsKept' BY <1>1, <2>1 DEF TrackInv, PingsKept, ids, js, ghost
  <2>12. QED BY <2>6, <2>7, <2>8, <2>9, <2>10, <2>11 DEF TrackInv, TypeInv
<1>5. QED BY <1>2, <1>3, <1>4

\* A location is queued, by the app or by the service, and sent if none is.
LEMMA CaptureStep == ASSUME TrackInv, Capture PROVE TrackInv'
<1>1. /\ js /\ active /\ Queued(current, queue)
      /\ UNCHANGED <<phone, server, app, service, late, settled, crashes>>
  BY DEF Capture
<1>2. /\ current \in Order /\ queue = stored /\ IdsRise(queue)
      /\ queue \in Seq(Ping) /\ Len(queue) <= phone.limit /\ AllMade(queue)
  BY <1>1, QueuesFit DEF TrackInv, TypeInv, TracksOrder, AppQueue
<1>3. /\ queue' \in Seq(Ping) /\ queue' # <<>> /\ stored' = queue'
      /\ Len(queue') <= phone.limit
      /\ captured' = captured + 1 /\ captured' \in 0 .. PingLimit
      /\ sequence' \in 0 .. PingLimit /\ sequence' <= captured'
      /\ AllMade(queue)'
      /\ cut \subseteq cut' /\ cut' \subseteq cut \cup 1 .. captured'
      /\ ids(queue) \cup {captured'} \subseteq ids(queue') \cup cut'
      /\ IdsRise(queue')
      /\ queue # <<>> /\ cut' = {} => Head(queue') = Head(queue)
      /\ flight' = IF flight = None THEN Sending(queue') ELSE flight
  BY <1>1, <1>2, QueuedFacts DEF TrackInv
<1>4. captured \in Nat /\ PingLimit \in Nat
  BY LimitOf DEF TrackInv, TypeInv
<1>5. AllMade(stored)' BY <1>3 DEF AllMade, Made
<1>6. flight' \in Flight \cup {None}
  BY <1>3, SendingHead DEF TrackInv, TypeInv, TypeOK
<1>7. (flight # None => Made(flight.ping))'
  <2>1. CASE flight # None
    <3>1. flight.ping.id \in Nat /\ flight.ping.seq \in Nat
      BY <2>1, <1>4 DEF TrackInv, TypeInv, TypeOK, Flight, Ping
    <3>2. Made(flight.ping) BY <2>1 DEF TrackInv, TypeInv, PingsMade
    <3>3. QED BY <1>3, <1>4, <2>1, <3>1, <3>2 DEF Made
  <2>2. CASE flight = None
    BY <1>3, <2>2, SendingHead DEF AllMade, Made
  <2>3. QED BY <2>1, <2>2
<1>8. (\A p \in late : Made(p))'
  <2>1. ASSUME NEW p \in late PROVE Made(p)'
    <3>1. p.id \in Nat /\ p.seq \in Nat
      BY <1>4 DEF TrackInv, TypeInv, TypeOK, Ping
    <3>2. Made(p) BY DEF TrackInv, TypeInv, PingsMade
    <3>3. QED BY <1>3, <1>4, <3>1, <3>2 DEF Made
  <2>2. QED BY <1>1, <2>1
<1>9. (settled \cup cut \subseteq 1 .. captured)'
  BY <1>1, <1>3, <1>4 DEF TrackInv, TypeInv, TypeOK
<1>10. TypeOK'
  BY <1>1, <1>3, <1>6, <1>9 DEF TrackInv, TypeInv, TypeOK, server, app
<1>11. PingsMade'
  BY <1>3, <1>5, <1>7, <1>8 DEF PingsMade
<1>12. TracksOrder' /\ RowsInOrder'
  BY <1>1 DEF TrackInv, TypeInv, TracksOrder, RowsInOrder, server, app
<1>13. AppQueue'
  <2>1. ASSUME flight' # None, cut' = {}
        PROVE  queue' # <<>> /\ flight'.ping = Head(queue')
    <3>1. CASE flight = None BY <1>3, <2>1, <3>1, SendingHead
    <3>2. CASE flight # None
      <4>1. cut = {} BY <1>3, <2>1
      <4>2. queue # <<>> /\ flight.ping = Head(queue)
        BY <1>1, <3>2, <4>1 DEF TrackInv, AppQueue
      <4>3. QED BY <1>3, <2>1, <3>2, <4>2
    <3>3. QED BY <3>1, <3>2
  <2>2. QED BY <1>3, <2>1 DEF AppQueue
<1>14. ServiceQueue' BY <1>1 DEF ServiceQueue, js
<1>15. PingsKept'
  <2>1. CASE cut = {}
    <3>1. 1 .. captured \subseteq ids(queue) \cup settled \cup cut
      BY <1>1, <1>2, <2>1 DEF TrackInv, PingsKept
    <3>2. 1 .. captured' = 1 .. captured \cup {captured'}
      BY <1>3, <1>4
    <3>3. 1 .. captured' \subseteq ids(queue') \cup settled' \cup cut'
      BY <1>1, <1>3, <3>1, <3>2
    <3>4. QED BY <1>3, <3>3 DEF PingsKept, ids
  <2>2. CASE cut # {} BY <1>1, <1>3, <2>2 DEF PingsKept, js
  <2>3. QED BY <2>1, <2>2
<1>16. QED BY <1>10, <1>11, <1>12, <1>13, <1>14, <1>15 DEF TrackInv, TypeInv

LEMMA LocateQueues ==
    ASSUME TrackInv, ~js, service.active, flight = None,
           Queued(service.order, stored), UNCHANGED <<service, settled, crashes>>,
           UNCHANGED <<phone, server, app, late>>
    PROVE  TrackInv'
<1>2. /\ service.order \in Order
      /\ stored \in Seq(Ping) /\ Len(stored) <= phone.limit /\ AllMade(stored)
  BY QueuesFit DEF TrackInv, TypeInv, TracksOrder
<1>3. /\ queue' \in Seq(Ping) /\ queue' # <<>> /\ stored' = queue'
      /\ Len(queue') <= phone.limit
      /\ captured' = captured + 1 /\ captured' \in 0 .. PingLimit
      /\ sequence' \in 0 .. PingLimit /\ sequence' <= captured'
      /\ AllMade(queue)'
      /\ cut \subseteq cut' /\ cut' \subseteq cut \cup 1 .. captured'
      /\ ids(stored) \cup {captured'} \subseteq ids(queue') \cup cut'
      /\ flight' = Sending(queue')
  BY <1>2, QueuedFacts DEF TrackInv
<1>4. captured \in Nat /\ PingLimit \in Nat
  BY LimitOf DEF TrackInv, TypeInv
<1>5. AllMade(stored)' BY <1>3 DEF AllMade, Made
<1>6. flight' \in Flight \cup {None}
  BY <1>3, SendingHead
<1>7. (flight # None => Made(flight.ping))'
  BY <1>3, SendingHead DEF AllMade, Made
<1>8. (\A p \in late : Made(p))'
  <2>1. ASSUME NEW p \in late PROVE Made(p)'
    <3>1. p.id \in Nat /\ p.seq \in Nat
      BY <1>4 DEF TrackInv, TypeInv, TypeOK, Ping
    <3>2. Made(p) BY DEF TrackInv, TypeInv, PingsMade
    <3>3. QED BY <1>3, <1>4, <3>1, <3>2 DEF Made
  <2>2. QED BY <2>1
<1>9. (settled \cup cut \subseteq 1 .. captured)'
  BY <1>3, <1>4 DEF TrackInv, TypeInv, TypeOK
<1>10. TypeOK'
  BY <1>3, <1>6, <1>9 DEF TrackInv, TypeInv, TypeOK, server, app
<1>11. PingsMade'
  BY <1>3, <1>5, <1>7, <1>8 DEF PingsMade
<1>12. TracksOrder' /\ RowsInOrder'
  BY DEF TrackInv, TypeInv, TracksOrder, RowsInOrder, server, app
<1>13. AppQueue' BY DEF AppQueue, js
<1>14. ServiceQueue'
  <2>1. queue' # <<>> /\ flight'.ping = Head(queue') BY <1>3, SendingHead
  <2>2. QED BY <1>3, <2>1 DEF ServiceQueue, ids
<1>15. PingsKept'
  <2>1. 1 .. captured \subseteq ids(stored) \cup settled \cup cut
    BY DEF TrackInv, PingsKept
  <2>2. 1 .. captured' = 1 .. captured \cup {captured'}
    BY <1>3, <1>4
  <2>3. 1 .. captured' \subseteq ids(queue') \cup settled' \cup cut'
    BY <1>3, <2>1, <2>2
  <2>4. QED BY <1>3, <2>3 DEF PingsKept, ids
<1>16. QED BY <1>10, <1>11, <1>12, <1>13, <1>14, <1>15 DEF TrackInv, TypeInv

\* What is left to prove of a step that captures nothing.
LEMMA NoCapture ==
    ASSUME TrackInv, UNCHANGED <<phone, server, sequence, captured, cut>>,
           active' \in BOOLEAN, watching' \in BOOLEAN,
           current' \in Order \cup {None}, call' \in Call \cup {None},
           service' \in [active : BOOLEAN, order : Order \cup {None}],
           queue' \in Seq(Ping), Len(queue') <= phone.limit, AllMade(queue'),
           stored' \in Seq(Ping), Len(stored') <= phone.limit, AllMade(stored'),
           flight' \in Flight \cup {None}, flight' # None => Made(flight'.ping),
           late' \in SUBSET Ping, (\A p \in late : Made(p))',
           crashes' \in 0 .. CrashLimit, settled' \subseteq 1 .. captured
    PROVE  TypeOK' /\ PingsMade' /\ RowsInOrder'
<1>1. TypeOK'
  BY DEF TrackInv, TypeInv, TypeOK, server
<1>2. PingsMade'
  BY DEF TrackInv, TypeInv, PingsMade, AllMade, Made
<1>3. RowsInOrder'
  BY DEF TrackInv, RowsInOrder, server
<1>4. QED BY <1>1, <1>2, <1>3

LEMMA NowTyped ==
    ASSUME TrackInv
    PROVE  /\ active \in BOOLEAN /\ watching \in BOOLEAN
           /\ current \in Order \cup {None} /\ call \in Call \cup {None}
           /\ service \in [active : BOOLEAN, order : Order \cup {None}]
           /\ flight \in Flight \cup {None}
           /\ flight # None =>
                 /\ flight.ping \in Ping /\ Made(flight.ping)
                 /\ flight.ping.id \in 1 .. captured
           /\ late \in SUBSET Ping /\ (\A p \in late : Made(p))
           /\ crashes \in 0 .. CrashLimit /\ settled \subseteq 1 .. captured
<1>1. ASSUME flight # None
      PROVE  /\ flight.ping \in Ping /\ Made(flight.ping)
             /\ flight.ping.id \in 1 .. captured
  <2>1. flight.ping \in Ping /\ Made(flight.ping)
    BY <1>1 DEF TrackInv, TypeInv, TypeOK, PingsMade, Flight
  <2>2. QED BY <2>1, LimitOf DEF TrackInv, TypeInv, Ping, Made
<1>2. QED BY <1>1 DEF TrackInv, TypeInv, TypeOK, PingsMade

\* A queue the next flush sends from, and the ping it sends.
LEMMA Goes ==
    ASSUME TrackInv, NEW q \in Seq(Ping), AllMade(q), Len(q) <= phone.limit,
           q # <<>>
    PROVE  /\ Tail(q) \in Seq(Ping) /\ AllMade(Tail(q))
           /\ Len(Tail(q)) <= phone.limit
           /\ ids(q) \subseteq ids(Tail(q)) \cup {Head(q).id}
           /\ IdsRise(q) => IdsRise(Tail(q))
<1>1. /\ Tail(q) \in Seq(Ping) /\ Len(Tail(q)) <= Len(q)
      /\ ids(q) \subseteq ids(Tail(q)) \cup {Head(q).id}
      /\ IdsRise(q) => IdsRise(Tail(q))
      /\ \A i \in DOMAIN Tail(q) : i + 1 \in DOMAIN q /\ Tail(q)[i] = q[i + 1]
  BY TailFacts
<1>2. AllMade(Tail(q)) BY <1>1 DEF AllMade
<1>3. Len(Tail(q)) <= phone.limit
  <2>1. PICK limit \in Nat : phone.limit = limit BY LimitOf DEF TrackInv, TypeInv
  <2>2. Len(q) \in Nat /\ Len(Tail(q)) \in Nat BY <1>1, LenProperties
  <2>3. QED BY <1>1, <2>1, <2>2
<1>4. QED BY <1>1, <1>2, <1>3

LEMMA NoQueue ==
    ASSUME TrackInv
    PROVE  <<>> \in Seq(Ping) /\ AllMade(<<>>) /\ Len(<<>>) <= phone.limit
           /\ ids(<<>>) = {}
<1>1. <<>> \in Seq(Ping) /\ Len(<<>>) = 0 /\ DOMAIN <<>> = {}
  BY EmptySeq, LenProperties
<1>2. PICK limit \in Nat : phone.limit = limit BY LimitOf DEF TrackInv, TypeInv
<1>3. QED BY <1>1, <1>2 DEF AllMade, ids

LEMMA AcceptedStep == ASSUME TrackInv, Accepted PROVE TrackInv'
<1>1. /\ js /\ flight # None
      /\ queue' = IF queue = <<>> THEN queue ELSE Tail(queue)
      /\ stored' = queue' /\ flight' = Sending(queue')
      /\ settled' = settled \cup {flight.ping.id}
      /\ UNCHANGED <<phone, server, app, sequence, service, late, captured,
                     cut, crashes>>
  BY DEF Accepted
<1>2. queue = stored /\ IdsRise(queue)
  BY <1>1 DEF TrackInv, AppQueue
<1>3. /\ queue' \in Seq(Ping) /\ Len(queue') <= phone.limit /\ AllMade(queue')
      /\ IdsRise(queue')
      /\ queue # <<>> => ids(queue) \subseteq ids(queue') \cup {Head(queue).id}
  BY <1>1, <1>2, Goes, QueuesFit DEF TrackInv
<1>4. /\ flight' \in Flight \cup {None}
      /\ flight' # None => /\ queue' # <<>> /\ flight'.ping = Head(queue')
                           /\ Made(flight'.ping)
  BY <1>1, <1>3, SendingFacts
<1>5. settled' \subseteq 1 .. captured
  BY <1>1, NowTyped
<1>6. TypeOK' /\ PingsMade' /\ RowsInOrder'
  <2>1. /\ active' = active /\ watching' = watching /\ current' = current
        /\ call' = call /\ service' = service /\ late' = late /\ crashes' = crashes
        /\ captured' = captured
    BY <1>1 DEF app
  <2>2. (\A p \in late : Made(p))' BY <2>1, NowTyped DEF Made
  <2>3. QED BY <1>1, <1>3, <1>4, <1>5, <2>1, <2>2, NowTyped, NoCapture
<1>7. TracksOrder' BY <1>1 DEF TrackInv, TypeInv, TracksOrder, app
<1>8. AppQueue' BY <1>1, <1>3, <1>4 DEF AppQueue, IdsRise
<1>9. ServiceQueue' BY <1>1 DEF ServiceQueue, js
<1>10. PingsKept'
  <2>1. CASE cut = {}
    <3>1. queue # <<>> /\ flight.ping = Head(queue)
      BY <1>1, <2>1 DEF TrackInv, AppQueue
    <3>2. 1 .. captured \subseteq ids(queue) \cup settled \cup cut
      BY <1>1, <1>2, <2>1 DEF TrackInv, PingsKept
    <3>3. 1 .. captured' \subseteq ids(queue') \cup settled' \cup cut'
      BY <1>1, <1>3, <3>1, <3>2
    <3>4. QED BY <1>1, <3>3 DEF PingsKept, ids
  <2>2. CASE cut # {} BY <1>1, <2>2 DEF PingsKept, js
  <2>3. QED BY <2>1, <2>2
<1>11. QED BY <1>6, <1>7, <1>8, <1>9, <1>10 DEF TrackInv, TypeInv

LEMMA RefusedStep == ASSUME TrackInv, Refused PROVE TrackInv'
<1>1. /\ js /\ Abandoned /\ flight' = None
      /\ UNCHANGED <<phone, server, app, sequence, queue, stored, service, ghost>>
  BY DEF Refused
<1>2. late' \in SUBSET Ping /\ (\A p \in late : Made(p))'
  BY <1>1, AbandonedFacts DEF TrackInv, ghost
<1>3. TypeOK' /\ PingsMade' /\ RowsInOrder'
  <2>1. /\ active' = active /\ watching' = watching /\ current' = current
        /\ call' = call /\ service' = service /\ crashes' = crashes
        /\ settled' = settled /\ UNCHANGED <<captured, cut, queue, stored>>
    BY <1>1 DEF app, ghost
  <2>2. QED BY <1>1, <1>2, <2>1, NowTyped, QueuesFit, NoCapture DEF TrackInv
<1>4. TracksOrder' BY <1>1 DEF TrackInv, TypeInv, TracksOrder, app
<1>5. AppQueue' BY <1>1 DEF TrackInv, AppQueue, IdsRise, js, app, ghost
<1>6. ServiceQueue' BY <1>1 DEF ServiceQueue
<1>7. PingsKept' BY <1>1 DEF TrackInv, PingsKept, ids, js, ghost
<1>8. QED BY <1>3, <1>4, <1>5, <1>6, <1>7 DEF TrackInv, TypeInv

LEMMA LocateStep == ASSUME TrackInv, Locate PROVE TrackInv'
<1>1. /\ ~js /\ service.active /\ flight = None
      /\ UNCHANGED <<phone, server, app, late>>
  BY DEF Locate
<1>2. CASE Queued(service.order, stored) /\ UNCHANGED <<service, settled, crashes>>
  BY <1>1, <1>2, LocateQueues
<1>3. CASE /\ queue' = stored /\ flight' = Sending(stored)
           /\ UNCHANGED <<sequence, stored, service, ghost>>
  <2>1. /\ flight' \in Flight \cup {None}
        /\ flight' # None => /\ queue' # <<>> /\ flight'.ping = Head(queue')
                             /\ Made(flight'.ping)
    BY <1>3, QueuesFit, SendingFacts DEF TrackInv
  <2>2. /\ active' = active /\ watching' = watching /\ current' = current
        /\ call' = call /\ service' = service /\ late' = late
        /\ crashes' = crashes /\ settled' = settled
        /\ UNCHANGED <<captured, cut, stored>>
    BY <1>1, <1>3 DEF app, ghost
  <2>3. (\A p \in late : Made(p))' BY <2>2, NowTyped DEF Made
  <2>4. TypeOK' /\ PingsMade' /\ RowsInOrder'
    BY <1>1, <1>3, <2>1, <2>2, <2>3, NowTyped, QueuesFit, NoCapture DEF TrackInv
  <2>5. TracksOrder' BY <2>2 DEF TrackInv, TypeInv, TracksOrder
  <2>6. AppQueue' BY <1>1 DEF AppQueue, js
  <2>7. ServiceQueue' BY <1>3, <2>1, <2>2 DEF ServiceQueue, ids
  <2>8. PingsKept' BY <1>1, <2>2 DEF TrackInv, PingsKept, ids, js
  <2>9. QED BY <2>4, <2>5, <2>6, <2>7, <2>8 DEF TrackInv, TypeInv
<1>4. QED BY <1>2, <1>3 DEF Locate

LEMMA SentStep == ASSUME TrackInv, Sent PROVE TrackInv'
<1>1. /\ ~js /\ flight # None
      /\ queue' = Tail(queue) /\ flight' = Sending(queue')
      /\ stored' = IF queue' = <<>> THEN <<>> ELSE stored
      /\ settled' = settled \cup {flight.ping.id}
      /\ UNCHANGED <<phone, server, app, sequence, service, late, captured,
                     cut, crashes>>
  BY DEF Sent
<1>2. /\ queue # <<>> /\ flight.ping = Head(queue)
      /\ ids(stored) \subseteq ids(queue) \cup settled
  BY <1>1 DEF TrackInv, ServiceQueue
<1>3. /\ queue' \in Seq(Ping) /\ Len(queue') <= phone.limit /\ AllMade(queue')
      /\ ids(queue) \subseteq ids(queue') \cup {Head(queue).id}
  BY <1>1, <1>2, Goes, QueuesFit DEF TrackInv
<1>4. /\ stored' \in Seq(Ping) /\ Len(stored') <= phone.limit /\ AllMade(stored')
      /\ ids(stored') \subseteq ids(stored)
      /\ ids(stored) \subseteq ids(queue') \cup settled'
  BY <1>1, <1>2, <1>3, QueuesFit, NoQueue DEF TrackInv
<1>5. queue' = <<>> => ids(queue') = {}
  BY NoQueue
<1>6. /\ flight' \in Flight \cup {None}
      /\ flight' # None => /\ queue' # <<>> /\ flight'.ping = Head(queue')
                           /\ Made(flight'.ping)
  BY <1>1, <1>3, SendingFacts
<1>7. settled' \subseteq 1 .. captured BY <1>1, NowTyped
<1>8. TypeOK' /\ PingsMade' /\ RowsInOrder'
  <2>1. /\ active' = active /\ watching' = watching /\ current' = current
        /\ call' = call /\ service' = service /\ late' = late /\ crashes' = crashes
        /\ captured' = captured
    BY <1>1 DEF app
  <2>2. (\A p \in late : Made(p))' BY <2>1, NowTyped DEF Made
  <2>3. QED BY <1>1, <1>3, <1>4, <1>6, <1>7, <2>1, <2>2, NowTyped, NoCapture
<1>9. TracksOrder' BY <1>1 DEF TrackInv, TypeInv, TracksOrder, app
<1>10. AppQueue' BY <1>1 DEF AppQueue, js
<1>11. ServiceQueue'
  <2>1. flight' # None => ids(stored') \subseteq ids(queue') \cup settled'
    BY <1>4
  <2>2. QED BY <1>6, <2>1 DEF ServiceQueue, ids
<1>12. PingsKept'
  <2>1. 1 .. captured \subseteq ids(stored) \cup settled \cup cut
    BY <1>1 DEF TrackInv, PingsKept
  <2>2. ids(stored) \subseteq ids(stored') \cup settled'
    BY <1>1, <1>4, <1>5
  <2>3. 1 .. captured' \subseteq ids(stored') \cup settled' \cup cut'
    BY <1>1, <2>1, <2>2
  <2>4. QED BY <2>3 DEF PingsKept, ids
<1>13. QED BY <1>8, <1>9, <1>10, <1>11, <1>12 DEF TrackInv, TypeInv

\* The flush ends and writes what it has left.
LEMMA FailureStep ==
    ASSUME TrackInv, AuthFailure \/ TransientFailure PROVE TrackInv'
<1>1. /\ ~js /\ flight # None
      /\ stored' = queue /\ queue' = <<>> /\ flight' = None
      /\ service' = service \/ service' = [service EXCEPT !.active = FALSE]
      /\ UNCHANGED <<phone, server, app, sequence, ghost>>
      /\ late' = late \/ Abandoned
  BY DEF AuthFailure, TransientFailure
<1>2. captured' = captured BY <1>1 DEF ghost
<1>3. late' \in SUBSET Ping /\ (\A p \in late : Made(p))'
  <2>1. CASE late' = late BY <1>2, <2>1, NowTyped DEF Made
  <2>2. CASE Abandoned BY <1>2, <2>2, AbandonedFacts DEF TrackInv
  <2>3. QED BY <1>1, <2>1, <2>2
<1>4. /\ service' \in [active : BOOLEAN, order : Order \cup {None}]
      /\ service'.active => service.active /\ service'.order = service.order
  BY <1>1, NowTyped
<1>5. TypeOK' /\ PingsMade' /\ RowsInOrder'
  <2>1. /\ active' = active /\ watching' = watching /\ current' = current
        /\ call' = call /\ crashes' = crashes /\ settled' = settled
        /\ UNCHANGED <<captured, cut>>
    BY <1>1 DEF app, ghost
  <2>2. QED
    BY <1>1, <1>3, <1>4, <2>1, NowTyped, QueuesFit, NoQueue, NoCapture DEF TrackInv
<1>6. TracksOrder' BY <1>1, <1>4 DEF TrackInv, TypeInv, TracksOrder, app
<1>7. AppQueue' BY <1>1 DEF AppQueue, js
<1>8. ServiceQueue' BY <1>1 DEF ServiceQueue
<1>9. PingsKept'
  <2>1. ids(stored) \subseteq ids(queue) \cup settled
    BY <1>1 DEF TrackInv, ServiceQueue
  <2>2. 1 .. captured \subseteq ids(stored) \cup settled \cup cut
    BY <1>1 DEF TrackInv, PingsKept
  <2>3. 1 .. captured' \subseteq ids(stored') \cup settled' \cup cut'
    BY <1>1, <2>1, <2>2 DEF ghost
  <2>4. QED BY <2>3 DEF PingsKept, ids
<1>10. QED BY <1>5, <1>6, <1>7, <1>8, <1>9 DEF TrackInv, TypeInv

LEMMA CrashStep == ASSUME TrackInv, Crash PROVE TrackInv'
<1>1. /\ crashes < CrashLimit /\ crashes' = crashes + 1 /\ Abandoned
      /\ active' = FALSE /\ current' = None /\ watching' = FALSE /\ call' = None
      /\ \/ ~js /\ queue' = stored /\ flight' = Sending(stored)
         \/ queue' = <<>> /\ flight' = None
      /\ sequence' = sequence \/ sequence' = 0
      /\ UNCHANGED <<phone, server, stored, service, captured, settled, cut>>
  BY DEF Crash
<1>2. late' \in SUBSET Ping /\ (\A p \in late : Made(p))'
  BY <1>1, AbandonedFacts DEF TrackInv
<1>3. crashes' \in 0 .. CrashLimit
  BY <1>1, NowTyped, RiderTrackingAssumption
<1>4. /\ queue' \in Seq(Ping) /\ Len(queue') <= phone.limit /\ AllMade(queue')
      /\ flight' \in Flight \cup {None}
      /\ flight' # None => /\ queue' # <<>> /\ flight'.ping = Head(queue')
                           /\ Made(flight'.ping) /\ queue' = stored
  BY <1>1, QueuesFit, NoQueue, SendingFacts DEF TrackInv
<1>5. sequence' \in 0 .. PingLimit /\ sequence' <= captured
  BY <1>1, LimitOf DEF TrackInv, TypeInv, TypeOK, PingsMade
<1>6. TypeOK'
  BY <1>1, <1>2, <1>3, <1>4, <1>5 DEF TrackInv, TypeInv, TypeOK, server
<1>7. PingsMade' /\ RowsInOrder'
  BY <1>1, <1>2, <1>4, <1>5
  DEF TrackInv, TypeInv, PingsMade, RowsInOrder, AllMade, Made, server
<1>8. TracksOrder' BY <1>1 DEF TrackInv, TypeInv, TracksOrder
<1>9. AppQueue' BY <1>1 DEF TrackInv, AppQueue, IdsRise, js
<1>10. ServiceQueue' BY <1>1, <1>4 DEF ServiceQueue, ids
<1>11. PingsKept' BY <1>1 DEF TrackInv, PingsKept, ids, js
<1>12. QED BY <1>6, <1>7, <1>8, <1>9, <1>10, <1>11 DEF TrackInv, TypeInv

LEMMA NextTrack == TrackInv /\ [Next]_vars => TrackInv'
<1> SUFFICES ASSUME TrackInv, [Next]_vars PROVE TrackInv'
  OBVIOUS
<1>1. CASE Next
  <2>1. CASE \E o \in Order : DeliveryChanges(o) BY <2>1, DeliveryStep
  <2>2. CASE NetworkStep BY <2>2, IngestStep, LateStep DEF NetworkStep
  <2>3. CASE AppStep
    BY <2>3, EffectStep, StartedStep, PollStep, StoppedStep, CaptureStep,
       AcceptedStep, RefusedStep DEF AppStep
  <2>4. CASE ServiceStep
    BY <2>4, LocateStep, SentStep, FailureStep DEF ServiceStep
  <2>5. CASE Crash BY <2>5, CrashStep
  <2>6. QED BY <1>1, <2>1, <2>2, <2>3, <2>4, <2>5 DEF Next
<1>2. CASE UNCHANGED vars
  <2>1. UNCHANGED <<phone, delivery, app, sequence, queue, stored, service,
                    flight, late, ghost, rows>>
    BY <1>2 DEF vars, server, pings
  <2>2. AppQueue' /\ ServiceQueue' /\ PingsKept' /\ TracksOrder'
        /\ sequence' <= captured' /\ AllMade(queue)' /\ AllMade(stored)'
        /\ (flight # None => Made(flight.ping))'
    BY <2>1, PhoneStays
  <2>3. TypeOK' BY <2>1 DEF TrackInv, TypeInv, TypeOK, app, ghost
  <2>4. PingsMade' /\ RowsInOrder'
    BY <2>1, <2>2 DEF TrackInv, TypeInv, PingsMade, RowsInOrder, Made, ghost
  <2>5. QED BY <2>2, <2>3, <2>4 DEF TrackInv, TypeInv
<1>3. QED BY <1>1, <1>2

\* The rows, queues and requests keep their types, and no queue outgrows the
\* limit of its phone (queueLocation, ingestRiderLocation).
THEOREM TrackingTypes == Spec => []TypeOK
<1>1. TrackInv => TypeOK BY DEF TrackInv, TypeInv
<1>2. QED BY InitTrack, NextTrack, <1>1, PTL DEF Spec

\* However often a location is sent, lost, delayed or sent again after a crash,
\* it has one row, rows of an order are numbered upwards, and a location without
\* a final answer stays stored (ingestRiderLocation, flushQueue, RiderTrackingService).
THEOREM PingsArrive == Spec => []PingsArriveOnce
<1>1. TrackInv => PingsArriveOnce BY DEF TrackInv, PingsArriveOnce
<1>2. QED BY InitTrack, NextTrack, <1>1, PTL DEF Spec
=============================================================================
