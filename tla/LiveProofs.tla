----------------------------- MODULE LiveProofs -----------------------------
(***************************************************************************)
(* IInv is an inductive invariant of the live telemetry hub, for any POSTs, *)
(* clients, fleet and capacities.  One lemma per action; the safety        *)
(* properties follow at the end.                                           *)
(***************************************************************************)
EXTENDS LiveTelemetry, SequenceTheorems, NaturalsInduction,
        WellFoundedInduction, TLAPS

\* A set of vehicles that is not empty has a first one.
LEMMA FirstIsIn ==
  ASSUME NEW S, S \subseteq Nat, S # {}
  PROVE  First(S) \in S
  <1>1. PICK n \in S : \A m \in S : ~(<<m, n>> \in OpToRel(<, Nat))
    <2>1. IsWellFoundedOn(OpToRel(<, Nat), Nat)
      BY NatLessThanWellFounded
    <2> QED BY <2>1, WFMin, Zenon
  <1>2. \A m \in S : ~(m < n)
    BY <1>1 DEF OpToRel
  <1>3. \A m \in S : n <= m
    BY <1>2
  <1> QED BY <1>3 DEF First

\* Whatever a device sends is made an update.
LEMMA NormalizedIsUpdate ==
  ASSUME NEW b \in Body
  PROVE  NormalizeLiveData(b) \in Update
  <1> DEFINE matching == {v \in Vehicle : Matches(b, v)}
             device == IF b.device \in DOMAIN DeviceOwner
                       THEN DeviceOwner[b.device] ELSE 0
             named == FirstNonZero(b.owner, device)
  <1>1. b.vehicle \in Nat /\ b.owner \in Nat /\ b.type \in Types
    BY LiveAssumption DEF Types
  <1>2. device \in Nat
    BY LiveAssumption
  <1>3. named \in Nat
    BY <1>1, <1>2 DEF FirstNonZero
  <1>4. matching # {} => First(matching) \in Vehicle
    <2>1. matching \subseteq Nat /\ matching \subseteq Vehicle
      BY LiveAssumption
    <2> HIDE DEF matching
    <2> QED BY <2>1, FirstIsIn
  <1>5. matching # {} => First(matching) \in Nat /\ VehicleOwner[First(matching)] \in Nat
    BY <1>4, LiveAssumption
  <1> HIDE DEF matching, device
  <1>6. matching # {} => FirstNonZero(named, VehicleOwner[First(matching)]) \in Nat
    BY <1>3, <1>5 DEF FirstNonZero
  <1> HIDE DEF named
  <1>7. NormalizeLiveData(b) =
           [vehicle |-> IF matching = {} THEN b.vehicle ELSE First(matching),
            owner |-> IF matching = {} THEN named
                      ELSE FirstNonZero(named, VehicleOwner[First(matching)]),
            type |-> b.type]
    BY DEF NormalizeLiveData, matching, named, device
  <1> QED BY <1>1, <1>3, <1>5, <1>6, <1>7 DEF Update

\* Putting an update at the end of a channel keeps what is in it.
LEMMA AppendKeeps ==
  ASSUME NEW s \in Seq(Post), NEW p \in Post
  PROVE  /\ Append(s, p) \in Seq(Post)
         /\ Len(Append(s, p)) = Len(s) + 1
         /\ DOMAIN Append(s, p) = 1 .. Len(s) + 1
         /\ \A i \in 1 .. Len(s) : Append(s, p)[i] = s[i]
         /\ Append(s, p)[Len(s) + 1] = p
  OBVIOUS

\* The order of updates is about the channels alone.
LEMMA OrderKept ==
  ASSUME SameOrder, UNCHANGED sent
  PROVE  SameOrder'
  BY DEF SameOrder

----------------------------------------------------------------------------
\* A POST arrives.
LEMMA ReceiveInv ==
  ASSUME IInv, NEW p \in Post, NEW b \in Body, Receive(p, b)
  PROVE  IInv'
  <1> USE LiveAssumption DEF IInv, vars, bufferVars, clientVars, postVars,
          Receive, Goto
  <1>1. TypeOK'
    BY NormalizedIsUpdate DEF TypeOK
  <1>2. HolderInv'
    BY DEF TypeOK, HolderInv
  <1>3. ClientInv'
    BY DEF TypeOK, ClientInv, HolderInv
  <1>4. BufferInv'
    BY DEF TypeOK, BufferInv, StatsAgree
  <1>5. SentInv'
    BY DEF TypeOK, SentInv
  <1>6. SameOrder'
    BY OrderKept
  <1>7. VisitedInv'
    BY DEF TypeOK, HolderInv, VisitedInv, Allowed
  <1> QED BY <1>1, <1>2, <1>3, <1>4, <1>5, <1>6, <1>7

\* A simulated update.
LEMMA SimulateInv ==
  ASSUME IInv, NEW p \in Post, Simulate(p)
  PROVE  IInv'
  <1> USE LiveAssumption DEF IInv, vars, bufferVars, clientVars, postVars,
          Simulate, Goto
  <1>1. TypeOK'
    <2>1. First(Vehicle) \in Vehicle
      BY FirstIsIn
    <2>2. First(Vehicle) \in Nat /\ VehicleOwner[First(Vehicle)] \in Nat
      BY <2>1
    <2>3. [vehicle |-> First(Vehicle), owner |-> VehicleOwner[First(Vehicle)],
           type |-> "location"] \in Update
      BY <2>2 DEF Update, Types
    <2> QED BY <2>3 DEF TypeOK
  <1>2. HolderInv'
    BY DEF TypeOK, HolderInv
  <1>3. ClientInv'
    BY DEF TypeOK, ClientInv, HolderInv
  <1>4. BufferInv'
    BY DEF TypeOK, BufferInv, StatsAgree
  <1>5. SentInv'
    BY DEF TypeOK, SentInv
  <1>6. SameOrder'
    BY OrderKept
  <1>7. VisitedInv'
    BY DEF TypeOK, HolderInv, VisitedInv, Allowed
  <1> QED BY <1>1, <1>2, <1>3, <1>4, <1>5, <1>6, <1>7

\* The update is put at the head of the buffer.
LEMMA RememberLiveUpdateInv ==
  ASSUME IInv, NEW p \in Post, RememberLiveUpdate(p)
  PROVE  IInv'
  <1> USE LiveAssumption DEF IInv, vars, bufferVars, clientVars, postVars,
          RememberLiveUpdate, Goto
  <1>1. TypeOK'
    BY DEF TypeOK
  <1>2. HolderInv'
    BY DEF TypeOK, HolderInv
  <1>3. ClientInv'
    BY DEF TypeOK, ClientInv, HolderInv
  <1>4. BufferInv'
    <2> DEFINE all == <<p>> \o recentLive
    <2>1. /\ recentLive \in Seq(Post) /\ Len(recentLive) \in Nat
          /\ order \in Seq(Post) /\ Len(order) \in Nat /\ liveTotal \in Nat
          /\ <<p>> \in Seq(Post) /\ Len(<<p>>) = 1
      BY DEF TypeOK
    <2>2. /\ all \in Seq(Post) /\ Len(all) = Len(recentLive) + 1
          /\ \A k \in 1 .. Len(recentLive) + 1 :
                all[k] = IF k = 1 THEN p ELSE recentLive[k - 1]
      BY <2>1, ConcatProperties
    <2>3. /\ order' \in Seq(Post) /\ Len(order') = Len(order) + 1
          /\ \A k \in 1 .. Len(order) + 1 :
                order'[k] = IF k = 1 THEN p ELSE order[k - 1]
      BY <2>1, ConcatProperties
    <2> HIDE DEF all
    <2>4. /\ recentLive' \in Seq(Post)
          /\ Len(recentLive') = IF Len(all) > RecentCap THEN RecentCap ELSE Len(all)
          /\ \A k \in 1 .. Len(recentLive') : recentLive'[k] = all[k]
      <3>1. recentLive' = IF Len(all) > RecentCap THEN SubSeq(all, 1, RecentCap) ELSE all
        BY DEF all
      <3>2. CASE Len(all) > RecentCap
        <4>1. \A k \in 1 .. RecentCap : all[k] \in Post
          BY <2>1, <2>2, <3>2
        <4>2. 1 \in Int /\ RecentCap \in Int /\ 1 <= RecentCap
          OBVIOUS
        <4>3. /\ SubSeq(all, 1, RecentCap) \in Seq(Post)
              /\ Len(SubSeq(all, 1, RecentCap)) = RecentCap - 1 + 1
              /\ \A i \in 1 .. RecentCap - 1 + 1 :
                    SubSeq(all, 1, RecentCap)[i] = all[1 + i - 1]
          BY <4>1, <4>2, SubSeqProperties
        <4>4. RecentCap - 1 + 1 = RecentCap /\ \A i \in 1 .. RecentCap : 1 + i - 1 = i
          OBVIOUS
        <4>5. /\ Len(SubSeq(all, 1, RecentCap)) = RecentCap
              /\ \A i \in 1 .. RecentCap : SubSeq(all, 1, RecentCap)[i] = all[i]
          BY <4>3, <4>4
        <4>6. recentLive' = SubSeq(all, 1, RecentCap)
          BY <3>1, <3>2
        <4> QED BY <3>2, <4>3, <4>5, <4>6
      <3>3. CASE ~(Len(all) > RecentCap)
        BY <2>2, <3>1, <3>3
      <3> QED BY <3>2, <3>3
    <2>5. StatsAgree'
      BY <2>1, <2>2, <2>4 DEF BufferInv, StatsAgree
    <2>6. liveTotal' <= Len(order')
      BY <2>1, <2>3 DEF BufferInv
    <2>7. \A k \in DOMAIN recentLive' : recentLive'[k] = order'[k]
      <3>1. Len(recentLive) <= Len(order)
        BY <2>1 DEF BufferInv, StatsAgree
      <3>2. \A k \in 1 .. Len(recentLive) : recentLive[k] = order[k]
        BY <2>1 DEF BufferInv
      <3>3. \A k \in 1 .. Len(recentLive) + 1 : all[k] = order'[k]
        <4> SUFFICES ASSUME NEW k \in 1 .. Len(recentLive) + 1 PROVE all[k] = order'[k]
          OBVIOUS
        <4>1. CASE k = 1
          BY <2>1, <2>2, <2>3, <4>1
        <4>2. CASE k # 1
          <5>1. k - 1 \in 1 .. Len(recentLive) /\ k \in 1 .. Len(order) + 1
            BY <2>1, <3>1, <4>2
          <5>2. all[k] = recentLive[k - 1]
            BY <2>2, <4>2
          <5>3. order'[k] = order[k - 1]
            BY <2>3, <4>2, <5>1
          <5> QED BY <3>2, <5>1, <5>2, <5>3
        <4> QED BY <4>1, <4>2
      <3>4. DOMAIN recentLive' = 1 .. Len(recentLive') /\ Len(recentLive') <= Len(recentLive) + 1
        BY <2>1, <2>2, <2>4
      <3>5. \A k \in 1 .. Len(recentLive') : k \in 1 .. Len(recentLive) + 1
        BY <2>1, <3>4
      <3> QED BY <2>4, <3>3, <3>4, <3>5
    <2>8. \A q \in Post : pc'[q] \in {"broadcast", "visit", "done"} =>
             \E k \in DOMAIN order' : order'[k] = q
      <3> SUFFICES ASSUME NEW q \in Post, pc'[q] \in {"broadcast", "visit", "done"}
                   PROVE  \E k \in 1 .. Len(order) + 1 : order'[k] = q
        <4>1. DOMAIN order' = 1 .. Len(order) + 1
          BY <2>1, <2>3
        <4> QED BY <4>1
      <3>1. CASE q = p
        BY <2>1, <2>3, <3>1
      <3>2. CASE q # p
        <4>1. pc[q] = pc'[q]
          BY <3>2 DEF TypeOK
        <4>2. PICK k \in 1 .. Len(order) : order[k] = q
          BY <2>1, <4>1 DEF BufferInv
        <4>3. k + 1 \in 1 .. Len(order) + 1 /\ order'[k + 1] = q
          BY <2>1, <2>3, <4>2
        <4> QED BY <4>3
      <3> QED BY <3>1, <3>2
    <2> QED BY <2>5, <2>6, <2>7, <2>8 DEF BufferInv
  <1>5. SentInv'
    BY DEF TypeOK, SentInv
  <1>6. SameOrder'
    BY OrderKept
  <1>7. VisitedInv'
    BY DEF TypeOK, HolderInv, VisitedInv, Allowed
  <1> QED BY <1>1, <1>2, <1>3, <1>4, <1>5, <1>6, <1>7

\* The broadcast takes the mutex.
LEMMA BroadcastLiveUpdateInv ==
  ASSUME IInv, NEW p \in Post, BroadcastLiveUpdate(p)
  PROVE  IInv'
  <1> USE LiveAssumption DEF IInv, vars, bufferVars, clientVars, postVars,
          BroadcastLiveUpdate, Goto
  <1>1. TypeOK'
    BY DEF TypeOK
  <1>2. HolderInv'
    BY DEF TypeOK, HolderInv
  <1>3. ClientInv'
    BY DEF TypeOK, ClientInv, HolderInv
  <1>4. BufferInv'
    BY DEF TypeOK, BufferInv, StatsAgree
  <1>5. SentInv'
    BY DEF TypeOK, SentInv
  <1>6. SameOrder'
    BY OrderKept
  <1>7. VisitedInv'
    <2>1. \A c \in Client : \A i \in DOMAIN sent[c] : sent[c][i] # p
      BY DEF SentInv
    <2>2. \A q \in Post : pc'[q] = "visit" => q = p
      BY DEF TypeOK, HolderInv
    <2>3. todo'[p] = wsClients
      BY DEF TypeOK
    <2> QED BY <2>1, <2>2, <2>3 DEF VisitedInv
  <1> QED BY <1>1, <1>2, <1>3, <1>4, <1>5, <1>6, <1>7

\* One client is visited.
LEMMA VisitInv ==
  ASSUME IInv, NEW p \in Post, NEW c \in Client, Visit(p, c)
  PROVE  IInv'
  <1> USE LiveAssumption DEF IInv, vars, bufferVars, clientVars, postVars,
          Visit, Full
  <1>1. TypeOK'
    <2>1. CASE sent' = sent
      BY <2>1 DEF TypeOK
    <2>2. CASE ~Full(c) /\ sent' = [sent EXCEPT ![c] = Append(@, p)]
      <3>1. sent[c] \in Seq(Post) /\ Len(sent[c]) \in Nat /\ taken[c] \in Nat
        BY DEF TypeOK
      <3>2. /\ Append(sent[c], p) \in Seq(Post)
            /\ Len(Append(sent[c], p)) = Len(sent[c]) + 1
        BY <3>1, AppendKeeps
      <3>3. sent' \in [Client -> Seq(Post)]
        BY <2>2, <3>2 DEF TypeOK
      <3>4. Len(sent'[c]) <= taken[c] + QueueCap /\ taken[c] <= Len(sent'[c])
        <4>1. sent'[c] = Append(sent[c], p)
          BY <2>2 DEF TypeOK
        <4>2. taken[c] <= Len(sent[c]) /\ Len(sent[c]) <= taken[c] + QueueCap
          BY DEF TypeOK
        <4>3. Len(sent[c]) - taken[c] # QueueCap
          BY <2>2
        <4> QED BY <3>1, <3>2, <4>1, <4>2, <4>3, SMTT(30)
      <3>5. \A d \in Client : d # c => sent'[d] = sent[d]
        BY <2>2 DEF TypeOK
      <3>6. \A d \in Client : taken[d] <= Len(sent'[d]) /\ Len(sent'[d]) <= taken[d] + QueueCap
        BY <3>4, <3>5 DEF TypeOK
      <3>7. todo' \in [Post -> SUBSET Client]
        BY DEF TypeOK
      <3> QED BY <3>3, <3>6, <3>7 DEF TypeOK
    <2> QED BY <2>1, <2>2
  <1>2. HolderInv'
    BY DEF TypeOK, HolderInv
  <1>3. ClientInv'
    BY DEF TypeOK, ClientInv, HolderInv
  <1>4. BufferInv'
    BY DEF TypeOK, BufferInv, StatsAgree
  <1>5. SentInv'
    <2>1. CASE sent' = sent
      BY <2>1, SMTT(30) DEF TypeOK, SentInv
    <2>2. CASE sent' = [sent EXCEPT ![c] = Append(@, p)]
      <3>1. sent[c] \in Seq(Post) /\ Len(sent[c]) \in Nat
        BY DEF TypeOK
      <3>2. \A d \in Client : d # c => sent'[d] = sent[d]
        BY <2>2 DEF TypeOK
      <3>3. /\ DOMAIN sent'[c] = 1 .. Len(sent[c]) + 1
            /\ Len(sent'[c]) = Len(sent[c]) + 1
            /\ \A i \in 1 .. Len(sent[c]) : sent'[c][i] = sent[c][i]
            /\ sent'[c][Len(sent[c]) + 1] = p
        BY <2>2, <3>1, AppendKeeps DEF TypeOK
      <3>4. DOMAIN sent[c] = 1 .. Len(sent[c])
        BY <3>1
      <3>5. \A i \in 1 .. Len(sent[c]) : sent[c][i] # p
        BY <3>4 DEF SentInv
      <3>6. \A i \in 1 .. Len(sent[c]) : sent[c][i] \in Post /\ pc[sent[c][i]] # "visit"
        <4>1. \A q \in Post : pc[q] = "visit" => q = p
          BY DEF HolderInv
        <4> QED BY <3>1, <3>4, <3>5, <4>1 DEF SentInv
      <3>7. todo'[p] = todo[p] \ {c} /\ \A q \in Post : q # p => todo'[q] = todo[q]
        BY DEF TypeOK
      <3>8. \A i, j \in DOMAIN sent'[c] : sent'[c][i] = sent'[c][j] => i = j
        BY <3>3, <3>4, <3>5 DEF SentInv
      <3>9. \A i \in DOMAIN sent'[c] :
               /\ pc[sent'[c][i]] \in {"visit", "done"}
               /\ pc[sent'[c][i]] = "visit" =>
                     i = Len(sent'[c]) /\ c \notin todo'[sent'[c][i]]
        BY <3>1, <3>3, <3>4, <3>6, <3>7 DEF SentInv
      <3>10. \A d \in Client : \A i \in DOMAIN sent[d] : sent[d][i] \in Post
        BY DEF TypeOK
      <3>11. \A d \in Client \ {c} : \A i \in DOMAIN sent[d] :
                pc[sent[d][i]] = "visit" =>
                   i = Len(sent[d]) /\ d \notin todo'[sent[d][i]]
        BY <3>7, <3>10 DEF SentInv
      <3> QED BY <3>2, <3>8, <3>9, <3>11 DEF SentInv
    <2> QED BY <2>1, <2>2
  <1>6. SameOrder'
    <2>1. CASE sent' = sent
      BY <2>1, OrderKept
    <2>2. CASE sent' = [sent EXCEPT ![c] = Append(@, p)]
      <3>1. sent[c] \in Seq(Post) /\ Len(sent[c]) \in Nat /\ DOMAIN sent[c] = 1 .. Len(sent[c])
        BY DEF TypeOK
      <3>2. \A d \in Client : d # c => sent'[d] = sent[d]
        BY <2>2 DEF TypeOK
      <3>3. /\ DOMAIN sent'[c] = 1 .. Len(sent[c]) + 1
            /\ \A i \in 1 .. Len(sent[c]) : sent'[c][i] = sent[c][i]
            /\ sent'[c][Len(sent[c]) + 1] = p
        BY <2>2, <3>1, AppendKeeps DEF TypeOK
      \* Wherever p has been put, it is last.
      <3>4. \A d \in Client : \A i \in DOMAIN sent[d] :
               sent[d][i] = p => i = Len(sent[d]) /\ d # c
        BY DEF SentInv
      <3>5. SUFFICES ASSUME NEW a \in Client, NEW d \in Client,
                            NEW i \in DOMAIN sent'[a], NEW j \in DOMAIN sent'[a],
                            NEW k \in DOMAIN sent'[d], NEW l \in DOMAIN sent'[d],
                            i < j, sent'[a][i] = sent'[d][k], sent'[a][j] = sent'[d][l]
                     PROVE  k < l
        BY ONLY <3>5 DEF SameOrder
      <3>6. /\ DOMAIN sent[a] = 1 .. Len(sent[a]) /\ Len(sent[a]) \in Nat
            /\ DOMAIN sent[d] = 1 .. Len(sent[d]) /\ Len(sent[d]) \in Nat
        <4>1. sent[a] \in Seq(Post) /\ sent[d] \in Seq(Post)
          BY DEF TypeOK
        <4> QED BY <4>1
      <3>7. CASE a # c /\ d # c
        BY <3>2, <3>5, <3>7 DEF SameOrder
      <3>8. CASE a = c /\ d = c
        <4>1. \A x, y \in DOMAIN sent'[c] : sent'[c][x] = sent'[c][y] => x = y
          BY <1>5 DEF SentInv
        <4>2. i = k /\ j = l
          BY <3>5, <3>8, <4>1
        <4> QED BY <3>5, <4>2
      <3>9. CASE a = c /\ d # c
        <4>1. sent'[d] = sent[d] /\ i \in 1 .. Len(sent[c])
          BY <3>1, <3>2, <3>3, <3>5, <3>9
        <4>2. CASE j \in 1 .. Len(sent[c])
          <5>1. sent[c][i] = sent[d][k] /\ sent[c][j] = sent[d][l]
            BY <3>3, <3>5, <3>9, <4>1, <4>2
          <5>2. i \in DOMAIN sent[c] /\ j \in DOMAIN sent[c]
            BY <3>1, <4>1, <4>2
          <5>3. k \in DOMAIN sent[d] /\ l \in DOMAIN sent[d]
            BY <4>1
          <5> QED BY <3>5, <5>1, <5>2, <5>3 DEF SameOrder
        <4>3. CASE j = Len(sent[c]) + 1
          <5>1. sent[d][l] = p
            BY <3>3, <3>5, <3>9, <4>1, <4>3
          <5>2. l = Len(sent[d])
            BY <3>4, <3>5, <4>1, <5>1
          <5>3. sent[c][i] # p
            BY <3>1, <3>4, <4>1
          <5>4. k # l
            BY <3>3, <3>5, <3>9, <4>1, <5>1, <5>3
          <5>5. k \in 1 .. Len(sent[d]) /\ Len(sent[d]) \in Nat
            BY <3>5, <3>6, <4>1
          <5> QED BY <5>2, <5>4, <5>5
        <4> QED BY <3>1, <3>3, <3>9, <4>2, <4>3
      <3>10. CASE a # c /\ d = c
        <4>1. sent'[a] = sent[a]
          BY <3>2, <3>10
        <4>2. k \in 1 .. Len(sent[c])
          <5> SUFFICES ASSUME k = Len(sent[c]) + 1 PROVE FALSE
            BY <3>1, <3>3, <3>10
          <5>1. sent[a][i] = p
            BY <3>3, <3>5, <3>10, <4>1
          <5>2. i = Len(sent[a])
            BY <3>4, <4>1, <5>1
          <5>3. j \in 1 .. Len(sent[a]) /\ i < j /\ Len(sent[a]) \in Nat
            BY <3>5, <3>6, <4>1
          <5> QED BY <5>2, <5>3
        <4>3. CASE l = Len(sent[c]) + 1
          BY <3>1, <4>2, <4>3
        <4>4. CASE l \in 1 .. Len(sent[c])
          BY <3>1, <3>3, <3>5, <3>10, <4>1, <4>2, <4>4 DEF SameOrder
        <4> QED BY <3>1, <3>3, <3>10, <4>3, <4>4
      <3> QED BY <3>7, <3>8, <3>9, <3>10
    <2> QED BY <2>1, <2>2
  <1>7. VisitedInv'
    <2>1. pc[p] = "visit" /\ \A q \in Post : pc[q] = "visit" => q = p
      BY DEF HolderInv
    <2>2. \A d \in Client : Allowed(d, update[p])' <=> Allowed(d, update[p])
      BY DEF Allowed
    <2>3. todo'[p] = todo[p] \ {c} /\ c \in wsClients
      BY DEF TypeOK, HolderInv
    <2>4. \A d \in Client \ {c} : sent'[d] = sent[d]
      BY DEF TypeOK
    <2>5. sent[c] \in Seq(Post) /\ Len(sent[c]) \in Nat /\ taken[c] \in Nat
      BY DEF TypeOK
    <2>6. SUFFICES ASSUME NEW d \in Client
                   PROVE  /\ (\E i \in DOMAIN sent'[d] : sent'[d][i] = p) =>
                                d \in wsClients /\ Allowed(d, update[p])
                          /\ d \in wsClients \ todo'[p] /\ Allowed(d, update[p]) =>
                                \/ \E i \in DOMAIN sent'[d] : sent'[d][i] = p
                                \/ Len(sent'[d]) >= QueueCap
      BY <2>1, <2>2 DEF VisitedInv
    <2>7. CASE d # c
      BY <2>1, <2>3, <2>4, <2>7 DEF VisitedInv
    <2>8. CASE d = c /\ Allowed(c, update[p]) /\ ~Full(c)
      <3>1. sent'[c] = Append(sent[c], p)
        BY <2>8 DEF TypeOK
      <3>2. Len(sent[c]) + 1 \in DOMAIN sent'[c] /\ sent'[c][Len(sent[c]) + 1] = p
        BY <2>5, <3>1, AppendKeeps
      <3> QED BY <2>3, <2>8, <3>2
    <2>9. CASE d = c /\ ~(Allowed(c, update[p]) /\ ~Full(c))
      <3>1. sent' = sent
        BY <2>9
      <3>2. Full(c) => Len(sent[c]) >= QueueCap
        BY <2>5
      <3> QED BY <2>1, <2>9, <3>1, <3>2 DEF VisitedInv
    <2> QED BY <2>7, <2>8, <2>9
  <1> QED BY <1>1, <1>2, <1>3, <1>4, <1>5, <1>6, <1>7

\* The broadcast returns the mutex.
LEMMA EndBroadcastInv ==
  ASSUME IInv, NEW p \in Post, EndBroadcast(p)
  PROVE  IInv'
  <1> USE LiveAssumption DEF IInv, vars, bufferVars, clientVars, postVars,
          EndBroadcast, Goto
  <1>1. TypeOK'
    <2>1. NoUpdate \in Update
      BY DEF Update, NoUpdate, Types
    <2> QED BY <2>1 DEF TypeOK
  <1>2. HolderInv'
    BY DEF TypeOK, HolderInv
  <1>3. ClientInv'
    BY DEF TypeOK, ClientInv, HolderInv
  <1>4. BufferInv'
    BY DEF TypeOK, BufferInv, StatsAgree
  <1>5. SentInv'
    BY DEF TypeOK, SentInv
  <1>6. SameOrder'
    BY OrderKept
  <1>7. VisitedInv'
    BY DEF TypeOK, HolderInv, VisitedInv, Allowed
  <1> QED BY <1>1, <1>2, <1>3, <1>4, <1>5, <1>6, <1>7

\* The buffer is cleared.
LEMMA ClearInv ==
  ASSUME IInv, Clear
  PROVE  IInv'
  <1> USE LiveAssumption DEF IInv, vars, bufferVars, clientVars, postVars,
          Clear
  <1>1. TypeOK'
    BY DEF TypeOK
  <1>2. HolderInv'
    BY DEF TypeOK, HolderInv
  <1>3. ClientInv'
    BY DEF TypeOK, ClientInv, HolderInv
  <1>4. BufferInv'
    BY DEF TypeOK, BufferInv, StatsAgree
  <1>5. SentInv'
    BY DEF TypeOK, SentInv
  <1>6. SameOrder'
    BY OrderKept
  <1>7. VisitedInv'
    BY DEF TypeOK, HolderInv, VisitedInv, Allowed
  <1> QED BY <1>1, <1>2, <1>3, <1>4, <1>5, <1>6, <1>7

\* A client is registered.
LEMMA RegisterInv ==
  ASSUME IInv, NEW c \in Client, Register(c)
  PROVE  IInv'
  <1> USE LiveAssumption DEF IInv, vars, bufferVars, clientVars, postVars,
          Register, At
  <1>1. TypeOK'
    BY DEF TypeOK
  <1>2. HolderInv'
    BY DEF TypeOK, HolderInv
  <1>3. ClientInv'
    BY DEF TypeOK, ClientInv, HolderInv
  <1>4. BufferInv'
    BY DEF TypeOK, BufferInv, StatsAgree
  <1>5. SentInv'
    BY DEF TypeOK, SentInv
  <1>6. SameOrder'
    BY OrderKept
  <1>7. VisitedInv'
    BY DEF TypeOK, HolderInv, VisitedInv, Allowed
  <1> QED BY <1>1, <1>2, <1>3, <1>4, <1>5, <1>6, <1>7

\* A client is written to.
LEMMA SendUpdatesInv ==
  ASSUME IInv, NEW c \in Client, SendUpdates(c)
  PROVE  IInv'
  <1> USE LiveAssumption DEF IInv, vars, bufferVars, clientVars, postVars,
          SendUpdates, ViewAndWrite, Write, Running
  <1>1. TypeOK'
    <2>1. loop' \in [Client -> {"new", "select", "hung", "stuck", "leave", "end"}]
      BY DEF TypeOK
    <2> QED BY <2>1 DEF TypeOK
  <1>2. HolderInv'
    BY DEF TypeOK, HolderInv
  <1>3. ClientInv'
    BY DEF TypeOK, ClientInv, HolderInv
  <1>4. BufferInv'
    BY DEF TypeOK, BufferInv, StatsAgree
  <1>5. SentInv'
    BY DEF TypeOK, SentInv
  <1>6. SameOrder'
    BY OrderKept
  <1>7. VisitedInv'
    BY DEF TypeOK, HolderInv, VisitedInv, Allowed
  <1> QED BY <1>1, <1>2, <1>3, <1>4, <1>5, <1>6, <1>7

\* A client subscribes.
LEMMA CommandInv ==
  ASSUME IInv, NEW c \in Client, NEW v \in Wanted[c] \cup {0}, Command(c, v)
  PROVE  IInv'
  <1> USE LiveAssumption DEF IInv, vars, bufferVars, clientVars, postVars,
          Command, ViewAndWrite, Write, Running
  <1>1. TypeOK'
    <2>1. v \in Nat
      OBVIOUS
    <2>2. subscribed' \in [Client -> Nat]
      BY <2>1 DEF TypeOK
    <2>3. loop' \in [Client -> {"new", "select", "hung", "stuck", "leave", "end"}]
      BY DEF TypeOK
    <2> QED BY <2>2, <2>3 DEF TypeOK
  <1>2. HolderInv'
    BY DEF TypeOK, HolderInv
  <1>3. ClientInv'
    <2>1. \A d \in Client : d # c => loop'[d] = loop[d]
      BY DEF TypeOK
    <2>2. loop[c] \in {"select", "hung"} /\ loop'[c] \in {"select", "hung", "stuck", "leave"}
      BY DEF TypeOK
    <2> QED BY <2>1, <2>2 DEF ClientInv
  <1>4. BufferInv'
    BY DEF TypeOK, BufferInv, StatsAgree
  <1>5. SentInv'
    BY DEF TypeOK, SentInv
  <1>6. SameOrder'
    BY OrderKept
  <1>7. VisitedInv'
    BY DEF TypeOK, HolderInv, VisitedInv, Allowed
  <1> QED BY <1>1, <1>2, <1>3, <1>4, <1>5, <1>6, <1>7

\* A client's loop takes an update out.
LEMMA TakeInv ==
  ASSUME IInv, NEW c \in Client, Take(c)
  PROVE  IInv'
  <1> USE LiveAssumption DEF IInv, vars, bufferVars, clientVars, postVars,
          Take, Write, Running
  <1>1. TypeOK'
    <2>1. taken' \in [Client -> Nat]
      BY DEF TypeOK
    <2>2. loop' \in [Client -> {"new", "select", "hung", "stuck", "leave", "end"}]
      BY DEF TypeOK
    <2>3. \A d \in Client : /\ Len(sent[d]) \in Nat
                           /\ taken'[d] = IF d = c THEN taken[d] + 1 ELSE taken[d]
      BY SMTT(30) DEF TypeOK
    <2>4. \A d \in Client : taken'[d] <= Len(sent[d]) /\ Len(sent[d]) <= taken'[d] + QueueCap
      BY <2>3 DEF TypeOK
    <2> QED BY <2>1, <2>2, <2>4 DEF TypeOK
  <1>2. HolderInv'
    BY DEF TypeOK, HolderInv
  <1>3. ClientInv'
    BY SMTT(30) DEF TypeOK, ClientInv, HolderInv
  <1>4. BufferInv'
    BY DEF TypeOK, BufferInv, StatsAgree
  <1>5. SentInv'
    BY DEF TypeOK, SentInv
  <1>6. SameOrder'
    BY OrderKept
  <1>7. VisitedInv'
    BY SMTT(30) DEF TypeOK, HolderInv, VisitedInv, Allowed
  <1> QED BY <1>1, <1>2, <1>3, <1>4, <1>5, <1>6, <1>7

\* A client's loop ends.
LEMMA DoneInv ==
  ASSUME IInv, NEW c \in Client, Done(c)
  PROVE  IInv'
  <1> USE LiveAssumption DEF IInv, vars, bufferVars, clientVars, postVars,
          Done, At
  <1>1. TypeOK'
    BY DEF TypeOK
  <1>2. HolderInv'
    BY DEF TypeOK, HolderInv
  <1>3. ClientInv'
    BY DEF TypeOK, ClientInv, HolderInv
  <1>4. BufferInv'
    BY DEF TypeOK, BufferInv, StatsAgree
  <1>5. SentInv'
    BY DEF TypeOK, SentInv
  <1>6. SameOrder'
    BY OrderKept
  <1>7. VisitedInv'
    BY DEF TypeOK, HolderInv, VisitedInv, Allowed
  <1> QED BY <1>1, <1>2, <1>3, <1>4, <1>5, <1>6, <1>7

\* A connection is gone.
LEMMA HangUpInv ==
  ASSUME IInv, NEW c \in Client, HangUp(c)
  PROVE  IInv'
  <1> USE LiveAssumption DEF IInv, vars, bufferVars, clientVars, postVars,
          HangUp, At
  <1>1. TypeOK'
    BY DEF TypeOK
  <1>2. HolderInv'
    BY DEF TypeOK, HolderInv
  <1>3. ClientInv'
    BY DEF TypeOK, ClientInv, HolderInv
  <1>4. BufferInv'
    BY DEF TypeOK, BufferInv, StatsAgree
  <1>5. SentInv'
    BY DEF TypeOK, SentInv
  <1>6. SameOrder'
    BY OrderKept
  <1>7. VisitedInv'
    BY DEF TypeOK, HolderInv, VisitedInv, Allowed
  <1> QED BY <1>1, <1>2, <1>3, <1>4, <1>5, <1>6, <1>7

\* A client is unregistered and its channel closed.
LEMMA UnregisterInv ==
  ASSUME IInv, NEW c \in Client, Unregister(c)
  PROVE  IInv'
  <1> USE LiveAssumption DEF IInv, vars, bufferVars, clientVars, postVars,
          Unregister, At
  <1>1. TypeOK'
    BY DEF TypeOK
  <1>2. HolderInv'
    BY DEF TypeOK, HolderInv
  <1>3. ClientInv'
    BY DEF TypeOK, ClientInv, HolderInv
  <1>4. BufferInv'
    BY DEF TypeOK, BufferInv, StatsAgree
  <1>5. SentInv'
    BY DEF TypeOK, SentInv
  <1>6. SameOrder'
    BY OrderKept
  <1>7. VisitedInv'
    BY DEF TypeOK, HolderInv, VisitedInv, Allowed
  <1> QED BY <1>1, <1>2, <1>3, <1>4, <1>5, <1>6, <1>7

----------------------------------------------------------------------------
\* Nothing has happened yet.
LEMMA InitIInv == Init => IInv
  <1> SUFFICES ASSUME Init PROVE IInv
    OBVIOUS
  <1> USE LiveAssumption DEF Init
  <1>1. TypeOK
    <2>1. NoUpdate \in Update
      BY DEF Update, NoUpdate, Types
    <2>2. \A c \in Client : sent[c] = <<>> /\ taken[c] = 0
      OBVIOUS
    <2>3. <<>> \in Seq(Post) /\ Len(<<>>) = 0
      BY EmptySeq
    <2> QED BY <2>1, <2>2, <2>3 DEF TypeOK
  <1>2. HolderInv /\ ClientInv
    BY DEF HolderInv, ClientInv
  <1>3. BufferInv
    BY EmptySeq DEF BufferInv, StatsAgree
  <1>4. SentInv /\ VisitedInv /\ SameOrder
    BY DEF SentInv, VisitedInv, SameOrder
  <1> QED BY <1>1, <1>2, <1>3, <1>4 DEF IInv

\* Nothing changes.
LEMMA StutterIInv == IInv /\ UNCHANGED vars => IInv'
  BY DEF IInv, vars, bufferVars, clientVars, postVars, TypeOK, HolderInv,
         ClientInv, BufferInv, StatsAgree, SentInv, VisitedInv, Allowed, SameOrder

\* Every step preserves IInv.
LEMMA NextIInv == IInv /\ [Next]_vars => IInv'
  <1> SUFFICES ASSUME IInv, [Next]_vars PROVE IInv'
    OBVIOUS
  <1>1. CASE UNCHANGED vars
    BY <1>1, StutterIInv
  <1>2. ASSUME NEW p \in Post, PostStep(p) PROVE IInv'
    BY <1>2, RememberLiveUpdateInv, BroadcastLiveUpdateInv, EndBroadcastInv,
       VisitInv DEF PostStep
  <1>3. ASSUME NEW p \in Post, Simulate(p) \/ \E b \in Body : Receive(p, b) PROVE IInv'
    BY <1>3, SimulateInv, ReceiveInv
  <1>4. ASSUME NEW c \in Client, ClientStep(c) PROVE IInv'
    BY <1>4, RegisterInv, SendUpdatesInv, TakeInv, DoneInv, UnregisterInv,
       CommandInv DEF ClientStep
  <1>5. ASSUME NEW c \in Client, HangUp(c) PROVE IInv'
    BY <1>5, HangUpInv
  <1>6. CASE Clear
    BY <1>6, ClearInv
  <1> QED BY <1>1, <1>2, <1>3, <1>4, <1>5, <1>6 DEF Next

\* IInv holds in every reachable state.
THEOREM InductiveInvariant == Spec => []IInv
  BY InitIInv, NextIInv, PTL DEF Spec

\* Every variable keeps its type; no buffer or channel exceeds its capacity.
THEOREM TypeCorrect == Spec => []TypeOK
  <1>1. IInv => TypeOK
    BY DEF IInv
  <1> QED BY <1>1, InductiveInvariant, PTL

\* broadcastLiveUpdate never sends to a channel that unregisterWSClient closed.
THEOREM SendsAreOpen == Spec => []NoSendToClosed
  <1>1. IInv => NoSendToClosed
    BY DEF IInv, HolderInv, ClientInv, NoSendToClosed
  <1> QED BY <1>1, InductiveInvariant, PTL

\* Any two dashboards are sent their common updates in the same order.
THEOREM OrderAgreed == Spec => []SameOrder
  <1>1. IInv => SameOrder
    BY DEF IInv
  <1> QED BY <1>1, InductiveInvariant, PTL

\* What a dashboard was sent it can also fetch, as long as it is recent.
THEOREM BroadcastIsRemembered == Spec => []DeliveredIsRecent
  <1>1. IInv => DeliveredIsRecent
    <2> SUFFICES ASSUME IInv, NEW c \in Client, NEW i \in DOMAIN sent[c]
                 PROVE  \E k \in DOMAIN order :
                          /\ order[k] = sent[c][i]
                          /\ k <= liveTotal /\ k <= RecentCap =>
                                recentLive[k] = sent[c][i]
      BY DEF DeliveredIsRecent
    <2>1. sent[c][i] \in Post
      BY DEF IInv, TypeOK
    <2>2. PICK k \in DOMAIN order : order[k] = sent[c][i]
      BY <2>1 DEF IInv, SentInv, BufferInv
    <2>3. k <= liveTotal /\ k <= RecentCap => k \in DOMAIN recentLive
      BY LiveAssumption DEF IInv, BufferInv, StatsAgree, TypeOK
    <2> QED BY <2>2, <2>3 DEF IInv, BufferInv
  <1> QED BY <1>1, InductiveInvariant, PTL

\* The statistics' counter and buffer agree.
THEOREM StatsConsistent == Spec => []StatsAgree
  <1>1. IInv => StatsAgree
    BY DEF IInv, BufferInv
  <1> QED BY <1>1, InductiveInvariant, PTL

----------------------------------------------------------------------------
(* The broadcast and AtomicFeed.                                           *)

LEMMA Mapping ==
  /\ stage = [p \in Post |-> Stage(pc[p])]
  /\ stage' = [p \in Post |-> Stage(pc'[p])]
  /\ audience = [p \in Post |-> {c \in Client : Going(p) /\ Allowed(c, update[p])}]
  /\ audience' = [p \in Post |->
                     {c \in Client : Going(p)' /\ Allowed(c, update[p])'}]
  /\ left = {c \in Client : loop[c] = "end"}
  /\ left' = {c \in Client : loop'[c] = "end"}
  BY DEF stage, audience, left

\* While nothing is sent and no broadcast that has sent something begins or
\* ends, what was published stays what it was.
LEMMA FeedKept ==
  ASSUME IInv, UNCHANGED sent,
         \A c \in Client : \A i \in DOMAIN sent[c] :
            pc'[sent[c][i]] = "visit" <=> pc[sent[c][i]] = "visit"
  PROVE  UNCHANGED feed
  <1>1. ASSUME NEW c \in Client PROVE Seeing(c)' <=> Seeing(c)
    <2>1. sent[c] \in Seq(Post)
      BY DEF IInv, TypeOK
    <2>2. sent[c] # <<>> => Len(sent[c]) \in DOMAIN sent[c]
      BY <2>1, EmptySeq
    <2> QED BY <2>2 DEF Seeing
  <1> QED BY <1>1 DEF feed

\* The step of a POST that only moves on before its broadcast.
LEMMA PostMoves ==
  ASSUME IInv, NEW p \in Post, UNCHANGED sent, pc[p] \notin {"visit", "done"},
         pc' = [pc EXCEPT ![p] = pc'[p]]
  PROVE  /\ UNCHANGED feed
         /\ stage' = [stage EXCEPT ![p] = Stage(pc'[p])]
         /\ stage[p] = Stage(pc[p])
         /\ \A q \in Post \ {p} : pc'[q] = pc[q]
  <1>1. \A q \in Post \ {p} : pc'[q] = pc[q]
    BY DEF IInv, TypeOK
  <1>2. \A c \in Client : \A i \in DOMAIN sent[c] : sent[c][i] \in Post \ {p}
    BY DEF IInv, TypeOK, SentInv
  <1>3. UNCHANGED feed
    BY <1>1, <1>2, FeedKept
  <1> QED BY <1>1, <1>3, Mapping

LEMMA MakeStep ==
  ASSUME IInv, NEW p \in Post, Simulate(p) \/ \E b \in Body : Receive(p, b)
  PROVE  F!Make(p)
  <1>1. /\ pc[p] = "idle" /\ pc' = [pc EXCEPT ![p] = "remember"]
        /\ \A q \in Post \ {p} : update'[q] = update[q]
        /\ UNCHANGED <<wsMu, bufferVars, clientVars, sent, todo>>
    BY DEF Simulate, Receive, Goto, IInv, TypeOK
  <1>2. pc'[p] = "remember"
    BY <1>1 DEF IInv, TypeOK
  <1>3. /\ UNCHANGED feed
        /\ stage' = [stage EXCEPT ![p] = "made"] /\ stage[p] = "waiting"
        /\ \A q \in Post \ {p} : pc'[q] = pc[q]
    BY <1>1, <1>2, PostMoves DEF Stage
  <1> DEFINE A == {c \in Client : Going(p)' /\ Allowed(c, update[p])'}
  <1>4. \A q \in Post \ {p} : audience'[q] = audience[q]
    BY <1>1, <1>3, Mapping DEF Going, Allowed, clientVars
  <1>5. audience' = [audience EXCEPT ![p] = A]
    <2>1. /\ audience' = [q \in Post |-> audience'[q]] /\ audience'[p] = A
          /\ audience = [q \in Post |-> audience[q]]
      BY Mapping
    <2> HIDE DEF A
    <2> QED BY <1>4, <2>1
  <1>6. UNCHANGED <<recentLive, liveTotal, wsClients, left>>
    BY <1>1, Mapping DEF bufferVars, clientVars
  <1> QED BY <1>3, <1>5, <1>6 DEF F!Make, F!Advance

LEMMA RememberStep ==
  ASSUME IInv, NEW p \in Post, RememberLiveUpdate(p)
  PROVE  F!Remember(p)
  <1>1. /\ pc[p] = "remember" /\ pc' = [pc EXCEPT ![p] = "broadcast"]
        /\ UNCHANGED <<wsMu, clientVars, sent, update, todo>>
    BY DEF RememberLiveUpdate, Goto
  <1>2. pc'[p] = "broadcast"
    BY <1>1 DEF IInv, TypeOK
  <1>3. /\ UNCHANGED feed
        /\ stage' = [stage EXCEPT ![p] = "remembered"] /\ stage[p] = "made"
        /\ \A q \in Post \ {p} : pc'[q] = pc[q]
    BY <1>1, <1>2, PostMoves DEF Stage
  <1>4. UNCHANGED audience
    <2>1. \A q \in Post : Going(q)' <=> Going(q)
      BY <1>1, <1>2, <1>3 DEF Going
    <2> QED BY <1>1, <2>1, Mapping DEF Allowed, clientVars
  <1>5. UNCHANGED <<wsClients, left>>
    BY <1>1, Mapping DEF clientVars
  <1> QED BY <1>3, <1>4, <1>5 DEF F!Remember, F!Advance, RememberLiveUpdate

LEMMA BroadcastStep ==
  ASSUME IInv, NEW p \in Post, BroadcastLiveUpdate(p)
  PROVE  UNCHANGED F!vars
  <1>1. /\ pc[p] = "broadcast" /\ pc' = [pc EXCEPT ![p] = "visit"]
        /\ UNCHANGED <<bufferVars, clientVars, sent, update>>
    BY DEF BroadcastLiveUpdate, Goto
  <1>2. pc'[p] = "visit"
    BY <1>1 DEF IInv, TypeOK
  <1>3. /\ UNCHANGED feed
        /\ stage' = [stage EXCEPT ![p] = "remembered"] /\ stage[p] = "remembered"
        /\ \A q \in Post \ {p} : pc'[q] = pc[q]
    BY <1>1, <1>2, PostMoves DEF Stage
  <1>4. UNCHANGED audience
    <2>1. \A q \in Post : Going(q)' <=> Going(q)
      BY <1>1, <1>2, <1>3 DEF Going
    <2> QED BY <1>1, <2>1, Mapping DEF Allowed, clientVars
  <1>5. UNCHANGED stage
    BY <1>3, Mapping
  <1>6. UNCHANGED <<recentLive, liveTotal, wsClients, left>>
    BY <1>1, Mapping DEF bufferVars, clientVars
  <1> QED BY <1>3, <1>4, <1>5, <1>6 DEF F!vars

\* What is sent during the visits is not published yet.
LEMMA VisitStep ==
  ASSUME IInv, NEW p \in Post, NEW c \in Client, Visit(p, c)
  PROVE  UNCHANGED F!vars
  <1>1. /\ pc[p] = "visit" /\ c \in todo[p] /\ UNCHANGED <<pc, update>>
        /\ UNCHANGED <<bufferVars, clientVars>>
    BY DEF Visit
  <1>2. UNCHANGED <<stage, audience, left, recentLive, liveTotal, wsClients>>
    BY <1>1, Mapping DEF Going, Allowed, bufferVars, clientVars
  <1>3. UNCHANGED feed
    <2>1. CASE sent' = sent
      BY <1>1, <2>1, FeedKept
    <2>2. CASE sent' = [sent EXCEPT ![c] = Append(@, p)]
      <3> DEFINE s == sent[c]
                 n == Len(s)
      <3>1. s \in Seq(Post) /\ n \in Nat /\ DOMAIN s = 1 .. n
        BY DEF IInv, TypeOK
      <3>2. /\ sent'[c] = Append(s, p)
            /\ \A d \in Client \ {c} : sent'[d] = sent[d]
        BY <2>2 DEF IInv, TypeOK
      <3>3. /\ Append(s, p) \in Seq(Post) /\ Len(Append(s, p)) = n + 1
            /\ \A i \in 1 .. n : Append(s, p)[i] = s[i]
            /\ Append(s, p)[n + 1] = p
        BY <3>1, AppendKeeps
      <3>4. ~Seeing(c)
        <4> SUFFICES ASSUME Seeing(c) PROVE FALSE
          OBVIOUS
        <4>1. n \in DOMAIN s /\ pc[s[n]] = "visit"
          BY <3>1, EmptySeq DEF Seeing
        <4>2. s[n] = p
          BY <1>1, <3>1, <4>1 DEF IInv, HolderInv
        <4> QED BY <1>1, <4>1, <4>2 DEF IInv, SentInv
      <3>5. Seeing(c)'
        <4>1. Len(Append(s, p)) # 0 /\ Append(s, p)[Len(Append(s, p))] = p
          BY <3>1, <3>3
        <4>2. Append(s, p) # <<>>
          BY <3>3, <4>1, EmptySeq
        <4>3. sent'[c] # <<>> /\ pc'[sent'[c][Len(sent'[c])]] = "visit"
          <5> HIDE DEF s
          <5> QED BY <1>1, <3>2, <4>1, <4>2
        <4> QED BY <4>3 DEF Seeing
      <3>6. SubSeq(sent'[c], 1, Len(sent'[c]) - 1) = s
        <4>1. Len(sent'[c]) - 1 = n
          BY <3>1, <3>2, <3>3
        <4>2. \A i \in 1 .. n : Append(s, p)[i] \in Post
          BY <3>1, <3>3
        <4>3. /\ SubSeq(Append(s, p), 1, n) \in Seq(Post)
              /\ Len(SubSeq(Append(s, p), 1, n)) = n
              /\ \A i \in 1 .. n : SubSeq(Append(s, p), 1, n)[i] = s[i]
          BY <3>1, <3>3
        <4> QED BY <3>1, <3>2, <4>1, <4>3, SeqEqual
      <3>7. ASSUME NEW d \in Client \ {c} PROVE Seeing(d)' <=> Seeing(d)
        BY <1>1, <3>2 DEF Seeing
      <3>8. \A d \in Client : feed'[d] = feed[d]
        BY <3>2, <3>4, <3>5, <3>6, <3>7 DEF feed
      <3>9. /\ feed = [d \in Client |-> feed[d]]
            /\ feed' = [d \in Client |-> feed'[d]]
        BY DEF feed
      <3> QED BY <3>8, <3>9
    <2> QED BY <2>1, <2>2 DEF Visit
  <1> QED BY <1>2, <1>3 DEF F!vars

\* The visits over, everybody who was sent the update has it at once.
LEMMA PublishStep ==
  ASSUME IInv, NEW p \in Post, EndBroadcast(p)
  PROVE  \E S \in SUBSET Client : F!Publish(p, S)
  <1> DEFINE S == {c \in Client : Seeing(c)}
  <1>1. /\ pc[p] = "visit" /\ pc' = [pc EXCEPT ![p] = "done"] /\ todo[p] = {}
        /\ update' = [update EXCEPT ![p] = NoUpdate]
        /\ UNCHANGED <<bufferVars, clientVars, sent, todo>>
    BY DEF EndBroadcast, Goto
  <1>2. pc'[p] = "done" /\ \A q \in Post \ {p} : pc'[q] = pc[q] /\ pc[q] # "visit"
    BY <1>1 DEF IInv, TypeOK, HolderInv
  <1>3. \A q \in Post \ {p} : update'[q] = update[q]
    BY <1>1 DEF IInv, TypeOK
  <1>4. ASSUME NEW c \in Client
        PROVE  /\ sent[c] \in Seq(Post) /\ Len(sent[c]) \in Nat
               /\ DOMAIN sent[c] = 1 .. Len(sent[c])
               /\ \A i \in DOMAIN sent[c] : sent[c][i] = p => i = Len(sent[c])
               /\ sent[c] # <<>> => Len(sent[c]) \in DOMAIN sent[c]
    BY <1>1, EmptySeq DEF IInv, TypeOK, SentInv
  <1>5. \A c \in Client : Seeing(c) <=> \E i \in DOMAIN sent[c] : sent[c][i] = p
    BY <1>1, <1>2, <1>4, EmptySeq DEF Seeing
  <1>6. \A c \in Client : ~Seeing(c)'
    <2> SUFFICES ASSUME NEW c \in Client, sent[c] # <<>>
                 PROVE  pc'[sent[c][Len(sent[c])]] # "visit"
      BY <1>1 DEF Seeing
    <2>1. sent[c][Len(sent[c])] \in Post
      BY <1>4
    <2> QED BY <1>2, <2>1
  <1>7. stage' = [stage EXCEPT ![p] = "published"] /\ stage[p] = "remembered"
    BY <1>1, <1>2, Mapping DEF Stage
  <1>8. audience[p] = {c \in Client : Allowed(c, update[p])}
    BY <1>1, Mapping DEF Going
  <1>9. S \subseteq audience[p] \cap wsClients
    BY <1>1, <1>5, <1>8 DEF IInv, VisitedInv
  <1>10. \A c \in Client : feed'[c] = IF c \in S THEN Append(feed[c], p) ELSE feed[c]
    <2> SUFFICES ASSUME NEW c \in Client
                 PROVE  feed'[c] = IF c \in S THEN Append(feed[c], p) ELSE feed[c]
      OBVIOUS
    <2>1. feed'[c] = sent[c]
      BY <1>1, <1>6 DEF feed
    <2>2. CASE Seeing(c)
      <3> DEFINE s == sent[c]
                 n == Len(s)
                 f == SubSeq(s, 1, n - 1)
      <3>1. s \in Seq(Post) /\ n \in Nat /\ n \in DOMAIN s /\ DOMAIN s = 1 .. n
        BY <1>4, <2>2 DEF Seeing
      <3>2. s[n] = p
        BY <1>2, <1>4, <2>2, <3>1 DEF Seeing
      <3>3. feed[c] = f
        BY <2>2 DEF feed
      <3>4. /\ f \in Seq(Post) /\ Len(f) = n - 1
            /\ \A i \in 1 .. n - 1 : f[i] = s[i]
        BY <3>1
      <3>5. /\ Append(f, p) \in Seq(Post) /\ Len(Append(f, p)) = n - 1 + 1
            /\ \A i \in 1 .. n - 1 : Append(f, p)[i] = f[i]
            /\ Append(f, p)[n - 1 + 1] = p
        <4> HIDE DEF f, s
        <4> QED BY <3>4, AppendKeeps
      <3> HIDE DEF f, s
      <3>6. Len(Append(f, p)) = Len(s) /\ n - 1 + 1 = n
        BY <3>1, <3>5
      <3>7. \A i \in 1 .. Len(s) : Append(f, p)[i] = s[i]
        BY <3>1, <3>2, <3>4, <3>5, <3>6
      <3>8. Append(f, p) = s
        BY <3>1, <3>5, <3>6, <3>7, SeqEqual
      <3> QED BY <2>1, <2>2, <3>3, <3>8 DEF s
    <2>3. CASE ~Seeing(c)
      BY <2>1, <2>3 DEF feed
    <2> QED BY <2>2, <2>3
  <1>11. feed' = [c \in Client |-> IF c \in S THEN Append(feed[c], p) ELSE feed[c]]
    <2>1. feed' = [c \in Client |-> feed'[c]]
      BY DEF feed
    <2> HIDE DEF S
    <2> QED BY <1>10, <2>1
  <1>12. \A c \in (audience[p] \cap wsClients) \ S : Len(feed[c]) >= QueueCap
    BY <1>1, <1>5, <1>8 DEF IInv, VisitedInv, feed
  <1>13. audience' = [audience EXCEPT ![p] = {}]
    <2>1. audience'[p] = {}
      BY <1>2, Mapping DEF Going
    <2>2. \A q \in Post \ {p} : audience'[q] = audience[q]
      BY <1>1, <1>2, <1>3, Mapping DEF Going, Allowed, clientVars
    <2>3. /\ audience = [q \in Post |-> audience[q]]
          /\ audience' = [q \in Post |-> audience'[q]]
      BY Mapping
    <2> QED BY <2>1, <2>2, <2>3
  <1>14. UNCHANGED <<recentLive, liveTotal, wsClients, left>>
    BY <1>1, Mapping DEF bufferVars, clientVars
  <1>15. S \in SUBSET Client
    OBVIOUS
  <1> HIDE DEF S
  <1> QED BY <1>7, <1>9, <1>11, <1>12, <1>13, <1>14, <1>15 DEF F!Publish, F!Advance

\* Steps of a client's loop publish nothing.
LEMMA ClientKeepsFeed ==
  ASSUME IInv, UNCHANGED <<sent, postVars>>
  PROVE  UNCHANGED <<stage, feed>>
  BY Mapping, FeedKept DEF postVars

LEMMA SameAudience ==
  ASSUME UNCHANGED <<subscribed, postVars>>
  PROVE  UNCHANGED audience
  BY Mapping DEF postVars, Going, Allowed

LEMMA LoopStep ==
  ASSUME IInv, NEW c \in Client,
         SendUpdates(c) \/ Take(c) \/ Done(c) \/ HangUp(c)
  PROVE  UNCHANGED F!vars
  <1>1. /\ UNCHANGED <<bufferVars, wsClients, subscribed, sent, postVars>>
        /\ \A d \in Client : loop'[d] = "end" <=> loop[d] = "end"
    BY DEF SendUpdates, ViewAndWrite, Take, Done, HangUp, Write, Running, At,
           IInv, TypeOK
  <1>2. UNCHANGED left
    BY <1>1, Mapping
  <1> QED BY <1>1, <1>2, ClientKeepsFeed, SameAudience DEF F!vars, bufferVars

LEMMA ResubscribeStep ==
  ASSUME IInv, NEW c \in Client, NEW v \in Wanted[c] \cup {0}, Command(c, v)
  PROVE  F!Resubscribe(c)
  <1>1. /\ UNCHANGED <<bufferVars, wsClients, sent, postVars>>
        /\ \A d \in Client : loop'[d] = "end" <=> loop[d] = "end"
        /\ \A d \in Client \ {c} : subscribed'[d] = subscribed[d]
    BY DEF Command, ViewAndWrite, Write, Running, IInv, TypeOK
  <1>2. UNCHANGED left
    BY <1>1, Mapping
  <1>3. \A p \in Post : audience'[p] \ {c} = audience[p] \ {c}
    BY <1>1, Mapping DEF Going, Allowed, postVars
  <1>4. \A p \in Post : stage[p] \in {"waiting", "published"} => audience'[p] = {}
    BY <1>1, Mapping DEF Going, Stage, postVars, IInv, TypeOK
  <1> QED BY <1>1, <1>2, <1>3, <1>4, ClientKeepsFeed DEF F!Resubscribe, bufferVars

LEMMA ConnectStep ==
  ASSUME IInv, NEW c \in Client, Register(c)
  PROVE  F!Connect(c)
  <1>1. /\ UNCHANGED <<bufferVars, subscribed, sent, postVars>>
        /\ wsClients' = wsClients \cup {c}
        /\ loop[c] = "new"
        /\ \A d \in Client : loop'[d] = "end" <=> loop[d] = "end"
    BY DEF Register, At, IInv, TypeOK
  <1>2. UNCHANGED left /\ c \notin left
    BY <1>1, Mapping
  <1>3. c \notin wsClients
    BY <1>1 DEF IInv, ClientInv
  <1> QED BY <1>1, <1>2, <1>3, ClientKeepsFeed, SameAudience
          DEF F!Connect, bufferVars

LEMMA DisconnectStep ==
  ASSUME IInv, NEW c \in Client, Unregister(c)
  PROVE  F!Disconnect(c)
  <1>1. /\ UNCHANGED <<bufferVars, subscribed, sent, postVars>>
        /\ wsClients' = wsClients \ {c}
        /\ loop[c] = "leave" /\ loop'[c] = "end"
        /\ \A d \in Client \ {c} : loop'[d] = loop[d]
    BY DEF Unregister, At, IInv, TypeOK
  <1>2. left' = left \cup {c}
    BY <1>1, Mapping
  <1>3. c \in wsClients
    BY <1>1 DEF IInv, ClientInv
  <1> QED BY <1>1, <1>2, <1>3, ClientKeepsFeed, SameAudience
          DEF F!Disconnect, bufferVars

LEMMA ClearStep ==
  ASSUME IInv, Clear
  PROVE  F!Clear
  <1>1. /\ UNCHANGED <<wsClients, subscribed, loop, sent, postVars>>
        /\ recentLive' = <<>> /\ liveTotal' = 0
    BY DEF Clear, clientVars
  <1>2. UNCHANGED left
    BY <1>1, Mapping
  <1> QED BY <1>1, <1>2, ClientKeepsFeed, SameAudience DEF F!Clear

LEMMA FeedStep ==
  ASSUME IInv, [Next]_vars
  PROVE  [F!Next]_F!vars
  <1>1. CASE UNCHANGED vars
    <2>1. UNCHANGED <<bufferVars, wsClients, subscribed, loop, sent, postVars>>
      BY <1>1 DEF vars, clientVars
    <2>2. UNCHANGED left
      BY <2>1, Mapping
    <2> QED BY <2>1, <2>2, ClientKeepsFeed, SameAudience DEF F!vars, bufferVars
  <1>2. ASSUME NEW p \in Post, PostStep(p) PROVE [F!Next]_F!vars
    BY <1>2, RememberStep, BroadcastStep, VisitStep, PublishStep DEF PostStep, F!Next
  <1>3. ASSUME NEW p \in Post, Simulate(p) \/ \E b \in Body : Receive(p, b)
        PROVE  [F!Next]_F!vars
    BY <1>3, MakeStep DEF F!Next
  <1>4. ASSUME NEW c \in Client, ClientStep(c) \/ HangUp(c) PROVE [F!Next]_F!vars
    BY <1>4, ConnectStep, LoopStep, DisconnectStep, ResubscribeStep
       DEF ClientStep, F!Next
  <1>5. CASE Clear
    BY <1>5, ClearStep DEF F!Next
  <1> QED BY <1>1, <1>2, <1>3, <1>4, <1>5 DEF Next

LEMMA FeedInit == Init => F!Init
  <1> SUFFICES ASSUME Init PROVE F!Init
    OBVIOUS
  <1>1. stage = [p \in Post |-> "waiting"] /\ audience = [p \in Post |-> {}]
    BY DEF Init, stage, Stage, audience, Going
  <1>2. left = {} /\ feed = [c \in Client |-> <<>>]
    BY DEF Init, left, feed, Seeing
  <1> QED BY <1>1, <1>2 DEF Init, F!Init

\* The live hub implements AtomicFeed: for any POSTs, clients, fleet and
\* capacities, every update goes out as if at once, by the connections and
\* subscriptions of one moment, in one order for all.
THEOREM FeedIsAtomic == Spec => PublishedAtOnce
  <1>1. IInv /\ [Next]_vars => [F!Next]_F!vars
    BY FeedStep
  <1> QED BY <1>1, FeedInit, InductiveInvariant, PTL
          DEF Spec, PublishedAtOnce, F!Spec
=============================================================================
