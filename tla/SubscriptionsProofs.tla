------------------------- MODULE SubscriptionsProofs ------------------------
(***************************************************************************)
(* Proofs about the subscriptions: no event is lost silently, whatever the *)
(* number of clients, jobs and events, and pruning on access implements    *)
(* leases that end by themselves.                                          *)
(***************************************************************************)
EXTENDS Push, TLAPS

Fine(s) == s \in Subscription /\ QueueIsRecent(s)

IInv == TypeOK /\ NoSilentLoss

(***************************************************************************)
(* Leases.                                                                 *)
(***************************************************************************)
LEMMA ClampLeaseBounds ==
  ASSUME NEW requested \in Requested \cup {None}
  PROVE  ClampLease(requested) \in 1..MaxLease
BY LeaseAssumption, NoneAssumption DEF ClampLease

LEMMA LeaseExpiryBounds ==
  ASSUME now \in 0..MaxTime, NEW lease \in 1..MaxLease
  PROVE  /\ LeaseExpiry(lease) \in 0..(MaxTime + MaxLease) \cup {None}
         /\ LeaseExpiry(lease) \in Nat \cup {None}
         /\ ~ Timed!OverAt(now, LeaseExpiry(lease))
BY LeaseAssumption, NoneAssumption DEF LeaseExpiry, Timed!OverAt

(***************************************************************************)
(* What happens to one subscription.                                       *)
(***************************************************************************)
LEMMA NewSubscriptionFine ==
  ASSUME now \in 0..MaxTime, NEW events \in SUBSET Events,
         NEW job \in Jobs \cup {None}, NEW requested \in Requested \cup {None}
  PROVE  Fine(NewSubscription(events, job, requested))
<1> DEFINE s == NewSubscription(events, job, requested)
<1>1. ClampLease(requested) \in 1..MaxLease
  BY ClampLeaseBounds
<1>2. LeaseExpiry(ClampLease(requested)) \in Nat \cup {None}
  BY <1>1, LeaseExpiryBounds
<1>3. s \in Subscription
  BY <1>1, <1>2, LeaseAssumption DEF NewSubscription, Subscription
<1>4. s.last = 0 /\ s.read = 0 /\ s.queue = <<>>
  BY DEF NewSubscription
<1>5. QED
  BY <1>3, <1>4, LeaseAssumption DEF Fine, QueueIsRecent

LEMMA RenewedFine ==
  ASSUME now \in 0..MaxTime, NEW s, Fine(s), NEW requested \in Requested \cup {None}
  PROVE  /\ Fine(Renewed(s, requested))
         /\ Renewed(s, requested).last = s.last /\ Renewed(s, requested).read = s.read
         /\ Renewed(s, requested).expiresAt = LeaseExpiry(ClampLease(requested))
<1> DEFINE r == Renewed(s, requested)
<1>1. ClampLease(requested) \in 1..MaxLease
  BY ClampLeaseBounds
<1>2. LeaseExpiry(ClampLease(requested)) \in Nat \cup {None}
  BY <1>1, LeaseExpiryBounds
<1>3. r \in Subscription
  <2> DEFINE lease == ClampLease(requested)
             end == LeaseExpiry(ClampLease(requested))
  <2>1. lease \in Nat /\ end \in Nat \cup {None}
    BY <1>1, <1>2, LeaseAssumption
  <2>2. r = [[s EXCEPT !.lease = lease] EXCEPT !.expiresAt = end]
    BY DEF Renewed, Subscription, Fine
  <2> HIDE DEF lease, end, r
  <2>3. QED
    BY <2>1, <2>2 DEF Subscription, Fine
<1>4. /\ r.last = s.last /\ r.read = s.read /\ r.queue = s.queue
      /\ r.expiresAt = LeaseExpiry(ClampLease(requested))
  BY DEF Renewed, Subscription, Fine
<1>5. QED
  BY <1>3, <1>4 DEF Fine, QueueIsRecent

LEMMA DrainedFine ==
  ASSUME NEW s, Fine(s)
  PROVE  /\ Fine(Drained(s))
         /\ Drained(s).last = s.last /\ Drained(s).read = s.last
         /\ Drained(s).expiresAt = s.expiresAt
<1> DEFINE d == Drained(s)
<1>1. d \in Subscription
  <2>1. <<>> \in Seq(Record) /\ s.last \in Nat
    BY DEF Subscription, Fine
  <2>2. d = [[s EXCEPT !.queue = <<>>] EXCEPT !.read = s.last]
    BY DEF Drained, Subscription, Fine
  <2> HIDE DEF d
  <2>3. QED
    BY <2>1, <2>2 DEF Subscription, Fine
<1>2. /\ d.last = s.last /\ d.read = s.last /\ d.queue = <<>>
      /\ d.expiresAt = s.expiresAt /\ s.last \in Nat
  BY DEF Drained, Subscription, Fine
<1>3. QED
  BY <1>1, <1>2, LeaseAssumption DEF Fine, QueueIsRecent

\* The one step that can lose an event: it loses the oldest, when MaxEvents
\* are unread already.
LEMMA AppendedFine ==
  ASSUME NEW s, Fine(s), NEW event \in Events, NEW job \in Jobs \cup {None}
  PROVE  /\ Fine(Appended(s, event, job))
         /\ Appended(s, event, job).last = s.last + 1
         /\ Appended(s, event, job).read = s.read
         /\ Appended(s, event, job).expiresAt = s.expiresAt
<1> DEFINE record == [event |-> event, job |-> job, seq |-> s.last + 1]
           longer == Append(s.queue, record)
           a == Appended(s, event, job)
<1>1. /\ s.last \in Nat /\ s.read \in Nat /\ s.queue \in Seq(Record)
      /\ Len(s.queue) \in Nat /\ MaxEvents \in Nat /\ MaxEvents > 0
  BY LeaseAssumption DEF Fine, Subscription
<1>2. record \in Record /\ record.seq = s.last + 1
  BY <1>1 DEF Record
<1> HIDE DEF record
<1>a. /\ longer \in Seq(Record) /\ Len(longer) = Len(s.queue) + 1
      /\ \A k \in 1..Len(s.queue) : longer[k] = s.queue[k]
      /\ longer[Len(s.queue) + 1] = record
  BY <1>1, <1>2
<1>b. \A k \in 1..Len(s.queue) : s.queue[k].seq = (s.last - Len(s.queue)) + k
  BY DEF Fine, QueueIsRecent
<1> HIDE DEF longer
<1>3. /\ longer \in Seq(Record) /\ Len(longer) = Len(s.queue) + 1
      /\ \A k \in 1..Len(longer) :
           longer[k].seq = (s.last - Len(s.queue)) + k
  <2> SUFFICES ASSUME NEW k \in 1..Len(longer)
               PROVE  longer[k].seq = (s.last - Len(s.queue)) + k
    BY <1>a
  <2>1. CASE k \in 1..Len(s.queue)
    BY <1>a, <1>b, <2>1
  <2>2. CASE k = Len(s.queue) + 1
    BY <1>1, <1>2, <1>a, <2>2
  <2>3. QED
    BY <1>1, <1>a, <2>1, <2>2
<1>4. /\ a.last = s.last + 1 /\ a.read = s.read /\ a.expiresAt = s.expiresAt
      /\ a.queue = IF Len(longer) > MaxEvents THEN Tail(longer) ELSE longer
  BY DEF Appended, NewRecord, Fine, Subscription, longer, record
<1>c. ASSUME a.queue \in Seq(Record)
      PROVE  a \in Subscription
  <2> DEFINE q == IF Len(longer) > MaxEvents THEN Tail(longer) ELSE longer
  <2>1. a = [[s EXCEPT !.last = s.last + 1] EXCEPT !.queue = q]
    BY DEF Appended, NewRecord, Fine, Subscription, longer, record
  <2>2. q \in Seq(Record) /\ s.last + 1 \in Nat
    BY <1>1, <1>4, <1>c
  <2> HIDE DEF q, a
  <2>3. QED
    BY <2>1, <2>2 DEF Fine, Subscription
<1>5. CASE Len(longer) > MaxEvents
  <2>1. /\ a.queue \in Seq(Record) /\ Len(a.queue) = Len(s.queue)
        /\ \A k \in 1..Len(a.queue) : a.queue[k] = longer[k + 1]
    BY <1>1, <1>3, <1>4, <1>5
  <2>2. \A k \in 1..Len(a.queue) : a.queue[k].seq = (a.last - Len(a.queue)) + k
    <3> SUFFICES ASSUME NEW k \in 1..Len(a.queue)
                 PROVE  a.queue[k].seq = (a.last - Len(a.queue)) + k
      OBVIOUS
    <3>1. k \in Int /\ k + 1 \in 1..Len(longer)
      BY <1>1, <1>3, <2>1
    <3>2. a.queue[k].seq = (s.last - Len(s.queue)) + (k + 1)
      BY <1>3, <2>1, <3>1
    <3> DEFINE n == Len(s.queue)
    <3>3. Len(a.queue) = n /\ a.last = s.last + 1
      BY <1>4, <2>1
    <3>4. n \in Int /\ s.last \in Int
      BY <1>1
    <3> HIDE DEF a, n
    <3>5. (s.last - n) + (k + 1) = ((s.last + 1) - n) + k
      BY <3>1, <3>4
    <3>6. QED
      BY <3>2, <3>3, <3>5 DEF n
  <2>3. Len(a.queue) = MaxEvents /\ s.last - s.read >= MaxEvents
    BY <1>1, <1>3, <1>5, <2>1 DEF Fine, QueueIsRecent
  <2>4. QueueIsRecent(a)
    BY <1>1, <1>4, <2>1, <2>2, <2>3 DEF QueueIsRecent
  <2>5. a \in Subscription
    BY <1>c, <2>1
  <2>6. QED
    BY <1>4, <2>4, <2>5 DEF Fine
<1>6. CASE ~ (Len(longer) > MaxEvents)
  <2>1. a.queue = longer
    BY <1>4, <1>6
  <2>2. Len(s.queue) = s.last - s.read /\ s.read <= s.last
    BY <1>1, <1>3, <1>6 DEF Fine, QueueIsRecent
  <2>3. QueueIsRecent(a)
    BY <1>1, <1>3, <1>4, <1>6, <2>1, <2>2 DEF QueueIsRecent
  <2>4. a \in Subscription
    BY <1>3, <1>c, <2>1
  <2>5. QED
    BY <1>4, <2>3, <2>4 DEF Fine
<1>7. QED
  BY <1>5, <1>6

(***************************************************************************)
(* The manager.                                                            *)
(***************************************************************************)
LEMMA IInvFine ==
  ASSUME IInv
  PROVE  /\ \A i \in DOMAIN subs : Fine(subs[i])
         /\ Live \subseteq DOMAIN subs
         /\ Live \subseteq 1..(nextId - 1)
         /\ now \in 0..MaxTime /\ nextId \in 1..(MaxSubs + 1)
BY DEF IInv, TypeOK, NoSilentLoss, Fine, Live

\* What every step but the passing of time does: it keeps live subscriptions
\* only, each of them fine.
LEMMA FineKeepsIInv ==
  ASSUME IInv, now' \in 0..MaxTime, nextId' \in 1..(MaxSubs + 1),
         NEW ids, ids \subseteq 1..(nextId' - 1),
         subs' = [i \in ids |-> subs'[i]], \A i \in ids : Fine(subs'[i])
  PROVE  IInv'
<1>1. DOMAIN subs' = ids
  OBVIOUS
<1>2. QED
  BY <1>1 DEF IInv, TypeOK, NoSilentLoss, Fine

LEMMA NextIInv == IInv /\ [Next]_vars => IInv'
<1> SUFFICES ASSUME IInv, [Next]_vars PROVE IInv'
  OBVIOUS
<1>0. /\ \A i \in DOMAIN subs : Fine(subs[i])
      /\ Live \subseteq DOMAIN subs
      /\ Live \subseteq 1..(nextId - 1)
      /\ now \in 0..MaxTime /\ nextId \in 1..(MaxSubs + 1)
      /\ MaxSubs \in Nat /\ MaxTime \in Nat
  BY IInvFine, LeaseAssumption
<1>1. ASSUME NEW events \in SUBSET Events, NEW job \in Jobs \cup {None},
             NEW requested \in Requested \cup {None}, Create(events, job, requested)
      PROVE  IInv'
  <2> DEFINE ids == Live \cup {nextId}
  <2>1. nextId' = nextId + 1 /\ nextId' \in 1..(MaxSubs + 1) /\ now' = now
    BY <1>0, <1>1 DEF Create
  <2>2. ids \subseteq 1..(nextId' - 1)
    BY <1>0, <2>1
  <2>3. subs' = [i \in ids |-> subs'[i]]
    BY <1>1 DEF Create
  <2>4. \A i \in ids : Fine(subs'[i])
    BY <1>0, <1>1, NewSubscriptionFine DEF Create
  <2> HIDE DEF ids
  <2>5. QED
    BY <1>0, <2>1, <2>2, <2>3, <2>4, FineKeepsIInv
<1>2. CASE Look
  <2>1. subs' = [i \in Live |-> subs'[i]] /\ \A i \in Live : Fine(subs'[i])
    BY <1>0, <1>2 DEF Look
  <2>2. QED
    BY <1>0, <1>2, <2>1, FineKeepsIInv DEF Look
<1>3. ASSUME NEW i \in DOMAIN subs, NEW requested \in Requested \cup {None},
             Renew(i, requested)
      PROVE  IInv'
  <2>1. subs' = [k \in Live |-> subs'[k]] /\ \A k \in Live : Fine(subs'[k])
    BY <1>0, <1>3, RenewedFine DEF Renew
  <2>2. QED
    BY <1>0, <1>3, <2>1, FineKeepsIInv DEF Renew
<1>4. ASSUME NEW i \in DOMAIN subs, Cancel(i)
      PROVE  IInv'
  <2> DEFINE ids == Live \ {i}
  <2>1. subs' = [k \in ids |-> subs'[k]] /\ \A k \in ids : Fine(subs'[k])
    BY <1>0, <1>4 DEF Cancel
  <2>2. ids \subseteq 1..(nextId' - 1) /\ nextId' = nextId /\ now' = now
    BY <1>0, <1>4 DEF Cancel
  <2> HIDE DEF ids
  <2>3. QED
    BY <1>0, <2>1, <2>2, FineKeepsIInv
<1>5. ASSUME NEW event \in Events, NEW job \in Jobs \cup {None}, RecordEvent(event, job)
      PROVE  IInv'
  <2>1. subs' = [k \in Live |-> subs'[k]] /\ \A k \in Live : Fine(subs'[k])
    BY <1>0, <1>5, AppendedFine DEF RecordEvent
  <2>2. QED
    BY <1>0, <1>5, <2>1, FineKeepsIInv DEF RecordEvent
<1>6. ASSUME NEW ids \in SUBSET (1..MaxSubs), GetNotifications(ids)
      PROVE  IInv'
  <2>1. subs' = [k \in Live |-> subs'[k]] /\ \A k \in Live : Fine(subs'[k])
    BY <1>0, <1>6, DrainedFine DEF GetNotifications
  <2>2. QED
    BY <1>0, <1>6, <2>1, FineKeepsIInv DEF GetNotifications
<1>7. CASE Tick
  BY <1>0, <1>7 DEF Tick, IInv, TypeOK, NoSilentLoss
<1>8. CASE UNCHANGED vars
  BY <1>8 DEF vars, IInv, TypeOK, NoSilentLoss
<1>9. QED
  BY <1>1, <1>2, <1>3, <1>4, <1>5, <1>6, <1>7, <1>8 DEF Next, Events

LEMMA InitIInv == Init => IInv
BY LeaseAssumption DEF Init, IInv, TypeOK, NoSilentLoss

\* A queue holds the most recent events, in order and without a gap; what a
\* client misses it misses because it left more than MaxEvents unread.
THEOREM NothingLostSilently == Spec => []NoSilentLoss
<1>1. IInv => NoSilentLoss
  BY DEF IInv
<1>2. QED
  BY <1>1, InitIInv, NextIInv, PTL DEF Spec

\* The manager's variables keep their types.
THEOREM TypeCorrect == Spec => []TypeOK
<1>1. IInv => TypeOK
  BY DEF IInv
<1>2. QED
  BY <1>1, InitIInv, NextIInv, PTL DEF Spec

(***************************************************************************)
(* The end of a lease.                                                     *)
(***************************************************************************)
\* What a step does to the lease of a subscription it leaves registered: it
\* keeps it, or grants one from now on.
LEMMA LeaseKeptOrGranted ==
  ASSUME IInv, [Next]_vars, NEW k \in DOMAIN subs'
  PROVE  \/ /\ k \in DOMAIN subs
            /\ subs'[k].lease = subs[k].lease
            /\ subs'[k].expiresAt = subs[k].expiresAt
            /\ now' \in {now, now + 1}
         \/ /\ now' = now
            /\ \E lease \in 1..MaxLease : /\ subs'[k].lease = lease
                                          /\ subs'[k].expiresAt = LeaseExpiry(lease)
<1>0. /\ \A i \in DOMAIN subs : subs[i] \in Subscription
      /\ Live \subseteq DOMAIN subs
  BY IInvFine DEF Fine
<1>1. ASSUME NEW events \in SUBSET Events, NEW job \in Jobs \cup {None},
             NEW requested \in Requested \cup {None}, Create(events, job, requested),
             k = nextId
      PROVE  /\ now' = now
             /\ subs'[k].lease = ClampLease(requested)
             /\ subs'[k].expiresAt = LeaseExpiry(ClampLease(requested))
  BY <1>1 DEF Create, NewSubscription
<1>2. ASSUME NEW i \in DOMAIN subs, NEW requested \in Requested \cup {None},
             Renew(i, requested), k = i
      PROVE  /\ now' = now
             /\ subs'[k].lease = ClampLease(requested)
             /\ subs'[k].expiresAt = LeaseExpiry(ClampLease(requested))
  BY <1>0, <1>2 DEF Renew, Renewed, Subscription
<1>3. ASSUME NEW events \in SUBSET Events, NEW job \in Jobs \cup {None},
             NEW requested \in Requested \cup {None}, Create(events, job, requested),
             k # nextId
      PROVE  k \in DOMAIN subs /\ subs'[k] = subs[k] /\ now' = now
  BY <1>0, <1>3 DEF Create
<1>4. ASSUME NEW i \in DOMAIN subs, NEW requested \in Requested \cup {None},
             Renew(i, requested), k # i
      PROVE  k \in DOMAIN subs /\ subs'[k] = subs[k] /\ now' = now
  BY <1>0, <1>4 DEF Renew
<1>5. ASSUME NEW event \in Events, NEW job \in Jobs \cup {None}, RecordEvent(event, job)
      PROVE  /\ k \in DOMAIN subs /\ now' = now
             /\ subs'[k].lease = subs[k].lease
             /\ subs'[k].expiresAt = subs[k].expiresAt
  BY <1>0, <1>5 DEF RecordEvent, Appended, NewRecord, Subscription
<1>6. ASSUME NEW ids \in SUBSET (1..MaxSubs), GetNotifications(ids)
      PROVE  /\ k \in DOMAIN subs /\ now' = now
             /\ subs'[k].lease = subs[k].lease
             /\ subs'[k].expiresAt = subs[k].expiresAt
  BY <1>0, <1>6 DEF GetNotifications, Drained, Subscription
<1>7. ASSUME Look \/ \E i \in DOMAIN subs : Cancel(i)
      PROVE  k \in DOMAIN subs /\ subs'[k] = subs[k] /\ now' = now
  BY <1>0, <1>7 DEF Look, Cancel
<1>8. ASSUME Tick \/ UNCHANGED vars
      PROVE  k \in DOMAIN subs /\ subs'[k] = subs[k] /\ now' \in {now, now + 1}
  BY <1>8 DEF Tick, vars
<1>9. QED
  BY <1>1, <1>2, <1>3, <1>4, <1>5, <1>6, <1>7, <1>8, ClampLeaseBounds DEF Next, Events

LeaseInv == IInv /\ LeasesEndInTime

LEMMA NextLeaseInv == LeaseInv /\ [Next]_vars => LeaseInv'
<1> SUFFICES ASSUME LeaseInv, [Next]_vars, NEW k \in DOMAIN subs'
             PROVE  IF subs'[k].lease < MaxLease
                    THEN /\ subs'[k].expiresAt # None
                         /\ subs'[k].expiresAt <= now' + subs'[k].lease
                    ELSE subs'[k].expiresAt = None
  BY NextIInv DEF LeaseInv, LeasesEndInTime
<1>0. now \in Int /\ MaxLease \in Int
  BY LeaseAssumption, IInvFine DEF LeaseInv
<1>1. CASE /\ k \in DOMAIN subs
           /\ subs'[k].lease = subs[k].lease
           /\ subs'[k].expiresAt = subs[k].expiresAt
           /\ now' \in {now, now + 1}
  <2>1. subs[k].lease \in Nat /\ subs[k].expiresAt \in Nat \cup {None}
    BY <1>1, IInvFine DEF LeaseInv, Fine, Subscription
  <2>2. QED
    BY <1>0, <1>1, <2>1 DEF LeaseInv, LeasesEndInTime
<1>2. ASSUME NEW lease \in 1..MaxLease, subs'[k].lease = lease,
             subs'[k].expiresAt = LeaseExpiry(lease), now' = now
      PROVE  IF subs'[k].lease < MaxLease
             THEN /\ subs'[k].expiresAt # None
                  /\ subs'[k].expiresAt <= now' + subs'[k].lease
             ELSE subs'[k].expiresAt = None
  BY <1>0, <1>2, NoneAssumption DEF LeaseExpiry
<1>3. QED
  BY <1>1, <1>2, LeaseKeptOrGranted DEF LeaseInv

\* No lease outlives what Get-Subscription-Attributes reports of it, however
\* often it was renewed and whatever was asked for.
THEOREM NoLeaseOutlivesItsGrant == Spec => []LeasesEndInTime
<1>1. Init => LeaseInv
  BY InitIInv DEF Init, LeaseInv, LeasesEndInTime
<1>2. LeaseInv => LeasesEndInTime
  BY DEF LeaseInv
<1>3. QED
  BY <1>1, <1>2, NextLeaseInv, PTL DEF Spec

LEMMA NothingRevives ==
  ASSUME IInv, [Next]_vars, NEW i \in 1..(nextId - 1), i \notin Live
  PROVE  i \notin Live'
<1>1. Live' \subseteq DOMAIN subs'
  BY DEF Live
<1>2. ASSUME NEW events, NEW job, NEW requested, Create(events, job, requested)
      PROVE  i \notin DOMAIN subs'
  <2>1. i # nextId
    BY IInvFine
  <2>2. QED
    BY <1>2, <2>1 DEF Create
<1>3. ASSUME \/ Look
             \/ \E k, requested : Renew(k, requested)
             \/ \E k : Cancel(k)
             \/ \E event, job : RecordEvent(event, job)
             \/ \E ids : GetNotifications(ids)
      PROVE  i \notin DOMAIN subs'
  BY <1>3 DEF Look, Renew, Cancel, RecordEvent, GetNotifications
<1>4. CASE Tick \/ UNCHANGED vars
  <2>1. subs' = subs /\ now' \in {now, now + 1} /\ now \in Int
    BY <1>4, IInvFine DEF Tick, vars
  <2>2. \A k \in DOMAIN subs : subs[k].expiresAt \in Nat \cup {None}
    BY IInvFine DEF Fine, Subscription
  <2>3. QED
    BY <2>1, <2>2, NoneAssumption DEF Live, Expired
<1>5. QED
  BY <1>1, <1>2, <1>3, <1>4 DEF Next

\* A subscription that was canceled or whose lease is over stays so, although
\* the code may keep it registered for as long as nobody looks.
THEOREM ExpiredForGood == Spec => ExpiryIsFinal
<1>1. IInv /\ [Next]_vars =>
        [\A i \in 1..(nextId - 1) : i \notin Live => i \notin Live']_vars
  BY NothingRevives
<1>2. QED
  BY <1>1, InitIInv, NextIInv, PTL DEF Spec, ExpiryIsFinal

(***************************************************************************)
(* What a queue holds.                                                     *)
(***************************************************************************)
Asked(s) ==
  \A k \in 1..Len(s.queue) : /\ s.queue[k].event \in s.events
                             /\ s.job # None => s.queue[k].job = s.job

LEMMA AppendedAsked ==
  ASSUME NEW s \in Subscription, Asked(s), NEW event \in Events,
         NEW job \in Jobs \cup {None}, Concerns(s, event, job)
  PROVE  Asked(Appended(s, event, job))
<1> DEFINE record == [event |-> event, job |-> job, seq |-> s.last + 1]
           longer == Append(s.queue, record)
           kept   == IF Len(longer) > MaxEvents THEN Tail(longer) ELSE longer
<1>1. s.queue \in Seq(Record) /\ record \in Record
  BY DEF Subscription, Record
<1>2. /\ Appended(s, event, job).queue = kept
      /\ Appended(s, event, job).events = s.events
      /\ Appended(s, event, job).job = s.job
  BY DEF Appended, NewRecord, Subscription
<1>3. event \in s.events /\ (s.job # None => job = s.job)
  BY DEF Concerns
<1>4. \A k \in 1..Len(longer) : /\ longer[k].event \in s.events
                                /\ s.job # None => longer[k].job = s.job
  <2> TAKE k \in 1..Len(longer)
  <2> HIDE DEF record
  <2>1. CASE k \in 1..Len(s.queue)
    BY <1>1, <2>1 DEF Asked
  <2>2. CASE k = Len(s.queue) + 1
    <3>1. longer[k] = record
      BY <1>1, <2>2
    <3>2. QED
      BY <1>3, <3>1 DEF record
  <2>3. QED
    BY <1>1, <2>1, <2>2
<1>5. \A k \in 1..Len(kept) : \E n \in 1..Len(longer) : kept[k] = longer[n]
  <2> HIDE DEF record
  <2>1. longer \in Seq(Record) /\ longer # <<>>
    BY <1>1
  <2> HIDE DEF longer
  <2>2. \A k \in 1..Len(Tail(longer)) : k + 1 \in 1..Len(longer)
                                         /\ Tail(longer)[k] = longer[k + 1]
    BY <2>1
  <2>3. QED
    BY <2>2
<1> HIDE DEF longer, kept
<1>6. QED
  BY <1>2, <1>4, <1>5 DEF Asked

LEMMA NextAsked ==
  ASSUME IInv, OnlySubscribedEvents, [Next]_vars, NEW k \in DOMAIN subs'
  PROVE  Asked(subs'[k])
<1>0. /\ \A i \in DOMAIN subs : subs[i] \in Subscription /\ Asked(subs[i])
      /\ Live \subseteq DOMAIN subs
  BY IInvFine DEF Fine, OnlySubscribedEvents, Asked
<1>1. ASSUME NEW events, NEW job, NEW requested, Create(events, job, requested)
      PROVE  Asked(subs'[k])
  <2>1. CASE k = nextId
    BY <1>1, <2>1 DEF Create, NewSubscription, Asked
  <2>2. CASE k # nextId
    BY <1>0, <1>1, <2>2 DEF Create
  <2>3. QED
    BY <2>1, <2>2
<1>2. ASSUME NEW i, NEW requested, Renew(i, requested)
      PROVE  Asked(subs'[k])
  <2>1. /\ k \in DOMAIN subs
        /\ subs'[k].queue = subs[k].queue
        /\ subs'[k].events = subs[k].events
        /\ subs'[k].job = subs[k].job
    BY <1>0, <1>2 DEF Renew, Renewed, Subscription
  <2>2. QED
    BY <1>0, <2>1 DEF Asked
<1>3. ASSUME NEW event \in Events, NEW job \in Jobs \cup {None}, RecordEvent(event, job)
      PROVE  Asked(subs'[k])
  BY <1>0, <1>3, AppendedAsked DEF RecordEvent
<1>4. ASSUME NEW ids, GetNotifications(ids)
      PROVE  Asked(subs'[k])
  <2>1. k \in DOMAIN subs /\ subs'[k] \in {subs[k], Drained(subs[k])}
    BY <1>0, <1>4 DEF GetNotifications
  <2>2. Drained(subs[k]).queue = <<>>
    BY <1>0, <2>1 DEF Drained, Subscription
  <2>3. QED
    BY <1>0, <2>1, <2>2 DEF Asked
<1>5. ASSUME Look \/ (\E i \in DOMAIN subs : Cancel(i)) \/ Tick \/ UNCHANGED vars
      PROVE  Asked(subs'[k])
  BY <1>0, <1>5 DEF Look, Cancel, Tick, vars
<1>6. QED
  BY <1>1, <1>2, <1>3, <1>4, <1>5 DEF Next, Events

\* A subscription queues only events it asked for, and a per-job one only the
\* events of its job.
THEOREM OnlyWhatWasAskedFor == Spec => []OnlySubscribedEvents
<1>1. Init => IInv /\ OnlySubscribedEvents
  BY InitIInv DEF Init, OnlySubscribedEvents
<1>2. IInv /\ OnlySubscribedEvents /\ [Next]_vars => IInv' /\ OnlySubscribedEvents'
  BY NextIInv, NextAsked DEF OnlySubscribedEvents, Asked
<1>3. QED
  BY <1>1, <1>2, PTL DEF Spec

(***************************************************************************)
(* Subscriptions implements Leases.                                        *)
(***************************************************************************)
View(s) == [end |-> s.expiresAt, last |-> s.last, read |-> s.read]

LEMMA ClientViewIsView ==
  /\ ClientView = [i \in Live |-> View(subs[i])]
  /\ DOMAIN ClientView = Live
  /\ \A i \in Live : ~ Timed!OverAt(now, subs[i].expiresAt)
BY DEF ClientView, View, Live, Expired, Timed!OverAt

\* A step in which no time passes and that keeps no expired subscription: the
\* live ones are those it keeps.
LEMMA ViewAfter ==
  ASSUME NEW ids, subs' = [i \in ids |-> subs'[i]], now' = now,
         \A i \in ids : ~ Timed!OverAt(now, subs'[i].expiresAt)
  PROVE  Live' = ids /\ ClientView' = [i \in ids |-> View(subs'[i])]
<1>1. DOMAIN subs' = ids
  OBVIOUS
<1>2. Live' = {i \in DOMAIN subs' : ~ (subs'[i].expiresAt # None
                                      /\ now' >= subs'[i].expiresAt)}
  BY DEF Live, Expired
<1>3. Live' = ids
  BY <1>1, <1>2 DEF Timed!OverAt
<1>4. QED
  BY <1>3 DEF ClientView, View

Granted == 1..(nextId - 1)

LEMMA StepImplementsLeases ==
  IInv /\ [Next]_vars => [Timed!Next]_<<now, Granted, ClientView>>
<1> SUFFICES ASSUME IInv, [Next]_vars
             PROVE  Timed!Next \/ UNCHANGED <<now, Granted, ClientView>>
  OBVIOUS
<1>0. /\ \A i \in DOMAIN subs : Fine(subs[i])
      /\ Live \subseteq DOMAIN subs
      /\ Live \subseteq 1..(nextId - 1)
      /\ now \in 0..MaxTime /\ nextId \in 1..(MaxSubs + 1)
      /\ MaxSubs \in Nat /\ MaxTime \in Nat
      /\ ClientView = [i \in Live |-> View(subs[i])]
      /\ DOMAIN ClientView = Live
      /\ \A i \in Live : ~ Timed!OverAt(now, subs[i].expiresAt)
  BY IInvFine, LeaseAssumption, ClientViewIsView
<1>a. Live \subseteq 1..MaxSubs
  BY <1>0
<1>1. ASSUME NEW events \in SUBSET Events, NEW job \in Jobs \cup {None},
             NEW requested \in Requested \cup {None}, Create(events, job, requested)
      PROVE  Timed!Next
  <2> DEFINE end == LeaseExpiry(ClampLease(requested))
             ids == Live \cup {nextId}
  <2>1. /\ end \in 0..(MaxTime + MaxLease) \cup {None}
        /\ ~ Timed!OverAt(now, end)
    BY <1>0, ClampLeaseBounds, LeaseExpiryBounds
  <2>2. /\ nextId \in 1..MaxSubs /\ nextId' = nextId + 1 /\ now' = now
        /\ nextId \notin Live
    BY <1>0, <1>1 DEF Create
  <2>3. /\ subs' = [i \in ids |-> subs'[i]]
        /\ \A i \in ids : subs'[i] = IF i = nextId
                                     THEN NewSubscription(events, job, requested)
                                     ELSE subs[i]
    BY <1>1 DEF Create
  <2>4. View(NewSubscription(events, job, requested)) = [end |-> end, last |-> 0, read |-> 0]
        /\ NewSubscription(events, job, requested).expiresAt = end
    BY DEF View, NewSubscription
  <2> HIDE DEF end
  <2>5. \A i \in ids : ~ Timed!OverAt(now, subs'[i].expiresAt)
    BY <1>0, <2>1, <2>3, <2>4
  <2>6. ClientView' = [i \in ids |-> View(subs'[i])]
    BY <2>2, <2>3, <2>5, ViewAfter
  <2>7. ClientView' = [k \in (DOMAIN ClientView) \cup {nextId} |->
                         IF k = nextId THEN [end |-> end, last |-> 0, read |-> 0]
                         ELSE ClientView[k]]
    BY <1>0, <2>2, <2>3, <2>4, <2>6
  <2>8. Granted' = Granted \cup {nextId} /\ \A k \in Granted : k < nextId
    BY <1>0, <2>2 DEF Granted
  <2>9. Timed!Grant(nextId, end)
    BY <2>1, <2>2, <2>7, <2>8 DEF Timed!Grant, Granted
  <2>10. QED
    BY <2>1, <2>2, <2>9 DEF Timed!Next
<1>2. CASE Look
  <2>1. /\ subs' = [i \in Live |-> subs'[i]] /\ now' = now /\ nextId' = nextId
        /\ \A i \in Live : subs'[i] = subs[i]
    BY <1>2 DEF Look
  <2>2. ClientView' = ClientView
    BY <1>0, <2>1, ViewAfter
  <2>3. QED
    BY <2>1, <2>2 DEF Granted
<1>3. ASSUME NEW i \in DOMAIN subs, NEW requested \in Requested \cup {None},
             Renew(i, requested)
      PROVE  Timed!Next
  <2> DEFINE end == LeaseExpiry(ClampLease(requested))
  <2>1. /\ end \in 0..(MaxTime + MaxLease) \cup {None}
        /\ ~ Timed!OverAt(now, end)
    BY <1>0, ClampLeaseBounds, LeaseExpiryBounds
  <2>2. /\ i \in Live /\ now' = now /\ nextId' = nextId
        /\ subs' = [k \in Live |-> subs'[k]]
        /\ \A k \in Live : subs'[k] = IF k = i THEN Renewed(subs[k], requested) ELSE subs[k]
    BY <1>3 DEF Renew
  <2>3. /\ View(Renewed(subs[i], requested)) = [View(subs[i]) EXCEPT !.end = end]
        /\ Renewed(subs[i], requested).expiresAt = end
    BY <1>0, RenewedFine DEF View
  <2> HIDE DEF end
  <2>4. \A k \in Live : ~ Timed!OverAt(now, subs'[k].expiresAt)
    BY <1>0, <2>1, <2>2, <2>3
  <2>5. ClientView' = [k \in Live |-> View(subs'[k])]
    BY <2>2, <2>4, ViewAfter
  <2>6. ClientView' = [ClientView EXCEPT ![i].end = end]
    BY <1>0, <2>2, <2>3, <2>5
  <2>7. Timed!Extend(i, end)
    BY <1>0, <2>1, <2>2, <2>6 DEF Timed!Extend
  <2>8. QED
    BY <1>a, <2>1, <2>2, <2>7 DEF Timed!Next
<1>4. ASSUME NEW i \in DOMAIN subs, Cancel(i)
      PROVE  Timed!Next
  <2> DEFINE ids == Live \ {i}
  <2>1. /\ i \in Live /\ now' = now /\ nextId' = nextId
        /\ subs' = [k \in ids |-> subs'[k]]
        /\ \A k \in ids : subs'[k] = subs[k]
    BY <1>4 DEF Cancel
  <2>2. ClientView' = [k \in ids |-> View(subs'[k])]
    BY <1>0, <2>1, ViewAfter
  <2>3. ClientView' = [k \in (DOMAIN ClientView) \ {i} |-> ClientView[k]]
    BY <1>0, <2>1, <2>2
  <2>4. Timed!Revoke(i)
    BY <1>0, <2>1, <2>3 DEF Timed!Revoke
  <2>5. QED
    BY <1>a, <2>1, <2>4 DEF Timed!Next
<1>5. ASSUME NEW event \in Events, NEW job \in Jobs \cup {None}, RecordEvent(event, job)
      PROVE  Timed!Next
  <2> DEFINE ids == {k \in Live : Concerns(subs[k], event, job)}
  <2>1. /\ now' = now /\ nextId' = nextId
        /\ subs' = [k \in Live |-> subs'[k]]
        /\ \A k \in Live : subs'[k] = IF k \in ids THEN Appended(subs[k], event, job)
                                      ELSE subs[k]
    BY <1>5 DEF RecordEvent
  <2>2. \A k \in Live : /\ View(Appended(subs[k], event, job)) =
                              [View(subs[k]) EXCEPT !.last = @ + 1]
                         /\ Appended(subs[k], event, job).expiresAt = subs[k].expiresAt
    BY <1>0, AppendedFine DEF View
  <2>3. \A k \in Live : ~ Timed!OverAt(now, subs'[k].expiresAt)
    BY <1>0, <2>1, <2>2
  <2>4. ClientView' = [k \in Live |-> View(subs'[k])]
    BY <2>1, <2>3, ViewAfter
  <2>5. ids \in SUBSET (1..MaxSubs)
    BY <1>a
  <2> HIDE DEF ids
  <2>6. ClientView' = [k \in DOMAIN ClientView |->
                         IF k \in ids THEN [ClientView[k] EXCEPT !.last = @ + 1]
                         ELSE ClientView[k]]
    BY <1>0, <2>1, <2>2, <2>4
  <2>7. Timed!Notify(ids)
    BY <2>1, <2>6 DEF Timed!Notify
  <2>8. QED
    BY <2>5, <2>7 DEF Timed!Next
<1>6. ASSUME NEW ids \in SUBSET (1..MaxSubs), GetNotifications(ids)
      PROVE  Timed!Next
  <2>1. /\ now' = now /\ nextId' = nextId
        /\ subs' = [k \in Live |-> subs'[k]]
        /\ \A k \in Live : subs'[k] = IF k \in ids THEN Drained(subs[k]) ELSE subs[k]
    BY <1>6 DEF GetNotifications
  <2>2. \A k \in Live : /\ View(Drained(subs[k])) =
                              [View(subs[k]) EXCEPT !.read = View(subs[k]).last]
                         /\ Drained(subs[k]).expiresAt = subs[k].expiresAt
    BY <1>0, DrainedFine DEF View
  <2>3. \A k \in Live : ~ Timed!OverAt(now, subs'[k].expiresAt)
    BY <1>0, <2>1, <2>2
  <2>4. ClientView' = [k \in Live |-> View(subs'[k])]
    BY <2>1, <2>3, ViewAfter
  <2>5. ClientView' = [k \in DOMAIN ClientView |->
                         IF k \in ids THEN [ClientView[k] EXCEPT !.read = ClientView[k].last]
                         ELSE ClientView[k]]
    BY <1>0, <2>1, <2>2, <2>4
  <2>6. Timed!Read(ids)
    BY <2>1, <2>5 DEF Timed!Read
  <2>7. QED
    BY <2>6 DEF Timed!Next
<1>7. CASE Tick
  <2> DEFINE kept == {i \in DOMAIN ClientView : ~ Timed!OverAt(now + 1, ClientView[i].end)}
  <2>1. now' = now + 1 /\ nextId' = nextId /\ subs' = subs
    BY <1>7 DEF Tick
  <2>2. \A i \in DOMAIN subs : subs[i].expiresAt \in Nat \cup {None}
    BY <1>0 DEF Fine, Subscription
  <2>3. Live' = {i \in DOMAIN subs : ~ Timed!OverAt(now + 1, subs[i].expiresAt)}
    BY <2>1 DEF Live, Expired, Timed!OverAt
  <2>4. \A i \in DOMAIN subs : ~ Timed!OverAt(now + 1, subs[i].expiresAt) => i \in Live
    BY <1>0, <2>2, NoneAssumption DEF Live, Expired, Timed!OverAt
  <2>5. kept = Live'
    BY <1>0, <2>3, <2>4 DEF View
  <2>6. ClientView' = [i \in Live' |-> View(subs[i])]
    BY <2>1 DEF ClientView, View
  <2>7. Live' \subseteq Live
    BY <2>3, <2>4
  <2> HIDE DEF kept
  <2>8. ClientView' = [i \in kept |-> ClientView[i]]
    BY <1>0, <2>5, <2>6, <2>7
  <2>9. Timed!Tick
    BY <2>1, <2>8 DEF Timed!Tick, kept
  <2>10. QED
    BY <2>9 DEF Timed!Next
<1>8. CASE UNCHANGED vars
  BY <1>8 DEF vars, Granted, ClientView, Live, Expired
<1>9. QED
  BY <1>1, <1>2, <1>3, <1>4, <1>5, <1>6, <1>7, <1>8 DEF Next, Events

\* Pruning whenever somebody looks is as good as a timer per lease: no client
\* can tell the difference.
THEOREM PruningImplementsLeases == Spec => ImplementsLeases
<1>1. Init => Timed!Init
  BY DEF Init, Timed!Init, ClientView, Live
<1>2. QED
  BY <1>1, InitIInv, NextIInv, StepImplementsLeases, PTL
  DEF Spec, ImplementsLeases, Timed!Spec, Granted

(***************************************************************************)
(* Proofs about the push deliveries: they leave what is proved of the      *)
(* subscriptions untouched, every POST carries the event its sequence      *)
(* number says, and they implement Feed.                                   *)
(***************************************************************************)


Contents == [event: Events, job: Jobs \cup {None}]

\* What the proofs need beside the properties: the ids that have not been
\* handed out have no log yet.
Unused == \A i \in nextId..MaxSubs : log[i] = <<>>

PushInv == /\ IInv /\ PTypeOK
           /\ PushIdentifiesEvents /\ PushedAndPulledAgree /\ Unused

(***************************************************************************)
(* Deliveries are observers of the subscriptions.                          *)
(***************************************************************************)
LEMMA PushStepsAreSteps == [PNext]_pvars => [Next]_vars
<1> SUFFICES ASSUME [PNext]_pvars PROVE [Next]_vars
  OBVIOUS
<1>1. CASE Operation
  <2>1. ASSUME NEW events \in (SUBSET Events) \ {{}}, NEW job \in Jobs \cup {None},
               NEW requested \in Requested \cup {None},
               NEW to \in Recipients \cup {None}, CreateFor(events, job, requested, to)
        PROVE  Next
    BY <2>1 DEF CreateFor, Next
  <2>2. ASSUME NEW event, NEW job, RecordAndPush(event, job)
        PROVE  RecordEvent(event, job)
    BY <2>2 DEF RecordAndPush
  <2>3. QED
    BY <1>1, <2>1, <2>2 DEF Operation, Next
<1>2. CASE Delivery
  BY <1>2 DEF Delivery
<1>3. CASE UNCHANGED pvars
  BY <1>3 DEF pvars, vars
<1>4. QED
  BY <1>1, <1>2, <1>3 DEF PNext

\* Every behaviour of the composition is one of Subscriptions: what is proved
\* there holds with push deliveries too.
THEOREM PushKeepsSubscriptions == PSpec => Spec
BY PushStepsAreSteps, PTL DEF PSpec, Spec, PInit

(***************************************************************************)
(* The steps that change what the invariant speaks of.                     *)
(***************************************************************************)
LEMMA AppendedQueue ==
  ASSUME NEW s \in Subscription, NEW event \in Events, NEW job \in Jobs \cup {None},
         NEW k \in 1..Len(Appended(s, event, job).queue)
  PROVE  \/ Appended(s, event, job).queue[k] = NewRecord(s, event, job)
         \/ \E n \in 1..Len(s.queue) : Appended(s, event, job).queue[k] = s.queue[n]
<1> DEFINE record == NewRecord(s, event, job)
           longer == Append(s.queue, record)
<1>1. s.queue \in Seq(Record) /\ record \in Record
  BY DEF Subscription, Record, NewRecord
<1>2. Appended(s, event, job).queue =
        IF Len(longer) > MaxEvents THEN Tail(longer) ELSE longer
  BY DEF Appended, Subscription
<1> HIDE DEF record
<1>3. /\ longer \in Seq(Record) /\ longer # <<>> /\ Len(longer) = Len(s.queue) + 1
      /\ \A n \in 1..Len(longer) : n \in 1..Len(s.queue) => longer[n] = s.queue[n]
      /\ longer[Len(s.queue) + 1] = record
  BY <1>1
<1> HIDE DEF longer
<1>4. \A n \in 1..Len(longer) :
        longer[n] = record \/ \E l \in 1..Len(s.queue) : longer[n] = s.queue[l]
  BY <1>1, <1>3
<1>5. CASE Len(longer) > MaxEvents
  <2>1. k + 1 \in 1..Len(longer) /\ Tail(longer)[k] = longer[k + 1]
    BY <1>2, <1>3, <1>5
  <2>2. QED
    BY <1>2, <1>4, <1>5, <2>1 DEF record
<1>6. CASE ~ Len(longer) > MaxEvents
  BY <1>2, <1>4, <1>6 DEF record
<1>7. QED
  BY <1>5, <1>6

\* A log only grows, so what is authentic stays authentic.
LEMMA GrownLogKeepsAuthentic ==
  ASSUME PTypeOK,
         NEW ids \in SUBSET (1..MaxSubs), NEW event \in Events, NEW job \in Jobs \cup {None},
         log' = Logged(ids, event, job),
         NEW m \in [id: 1..MaxSubs, record: Record], Authentic(m)
  PROVE  Authentic(m)'
<1>1. log[m.id] \in Seq(Contents) /\ Content(event, job) \in Contents
  BY DEF PTypeOK, Content, Contents
<1>2. log'[m.id] \in {log[m.id], Append(log[m.id], Content(event, job))}
  BY DEF Logged
<1>3. /\ Len(log'[m.id]) >= Len(log[m.id])
      /\ \A n \in 1..Len(log[m.id]) : log'[m.id][n] = log[m.id][n]
  BY <1>1, <1>2
<1>4. m.record.seq \in 1..Len(log[m.id]) /\ Len(log'[m.id]) \in Nat
  BY <1>1, <1>2 DEF Authentic
<1>5. QED
  BY <1>1, <1>3, <1>4 DEF Authentic

\* The new record has the number of its place in the log.
LEMMA NewRecordAuthentic ==
  ASSUME PushInv, NEW event \in Events, NEW job \in Jobs \cup {None},
         log' = Logged(Pushed(event, job), event, job),
         NEW i \in Pushed(event, job),
         NEW m, m = DeliverPush(i, NewRecord(subs[i], event, job))
  PROVE  Authentic(m)' /\ Len(log'[i]) = subs[i].last + 1 /\ m \in Message
<1>1. /\ i \in DOMAIN subs /\ i \in 1..MaxSubs /\ recipient[i] # None
      /\ subs[i] \in Subscription
  BY LeaseAssumption DEF Pushed, Live, PushInv, PTypeOK, TypeOK
<1>2. /\ log[i] \in Seq(Contents) /\ Content(event, job) \in Contents
      /\ Len(log[i]) = subs[i].last
  BY <1>1 DEF PushInv, PTypeOK, Content, Contents, PushedAndPulledAgree
<1>3. log'[i] = Append(log[i], Content(event, job))
  BY <1>1 DEF Logged
<1>4. /\ Len(log'[i]) = subs[i].last + 1
      /\ log'[i][subs[i].last + 1] = Content(event, job)
      /\ subs[i].last \in Nat
  BY <1>1, <1>2, <1>3 DEF Subscription
<1>5. NewRecord(subs[i], event, job) \in Record
  BY <1>4 DEF NewRecord, Record
<1>6. /\ m \in Message /\ m.id = i /\ m.record.seq = subs[i].last + 1
      /\ m.record.event = event /\ m.record.job = job
  BY <1>1, <1>5 DEF DeliverPush, NewRecord, Message
<1>7. QED
  BY <1>4, <1>6 DEF Authentic

LEMMA RecordAndPushInv ==
  ASSUME PushInv, IInv', NEW event \in Events, NEW job \in Jobs \cup {None},
         RecordAndPush(event, job)
  PROVE  PushInv'
<1> DEFINE pushed == Pushed(event, job)
           message(i) == DeliverPush(i, NewRecord(subs[i], event, job))
<1>a. PTypeOK /\ TypeOK' /\ TypeOK
  BY DEF PushInv, IInv, PTypeOK
<1>0. /\ PTypeOK /\ TypeOK' /\ nextId' = nextId /\ recipient' = recipient /\ received' = received
      /\ nextId \in 1..(MaxSubs + 1) /\ MaxSubs \in Nat
      /\ log' = Logged(pushed, event, job)
      /\ posts' = posts \cup {message(i) : i \in pushed}
      /\ subs' = [k \in Live |-> IF k \in {i \in Live : Concerns(subs[i], event, job)}
                                 THEN Appended(subs[k], event, job) ELSE subs[k]]
      /\ pushed \in SUBSET (1..(nextId - 1)) /\ pushed \in SUBSET (1..MaxSubs)
      /\ Live \subseteq DOMAIN subs /\ Live \subseteq 1..MaxSubs
  <2>1. /\ nextId' = nextId /\ recipient' = recipient /\ received' = received
        /\ log' = Logged(pushed, event, job)
        /\ posts' = posts \cup {message(i) : i \in pushed}
        /\ subs' = [k \in Live |-> IF k \in {i \in Live : Concerns(subs[i], event, job)}
                                   THEN Appended(subs[k], event, job) ELSE subs[k]]
    BY DEF RecordAndPush, RecordEvent
  <2>2. /\ Live \subseteq DOMAIN subs /\ DOMAIN subs \subseteq 1..(nextId - 1)
        /\ nextId \in 1..(MaxSubs + 1) /\ MaxSubs \in Nat
    BY <1>a, LeaseAssumption DEF TypeOK, Live
  <2>3. pushed \subseteq Live
    BY DEF Pushed
  <2>4. 1..(nextId - 1) \subseteq 1..MaxSubs
    BY <2>2
  <2>5. QED
    BY <1>a, <2>1, <2>2, <2>3, <2>4
<1>1. \A m \in Message : Authentic(m) => Authentic(m)'
  BY <1>0, GrownLogKeepsAuthentic DEF Message
<1>2. \A i \in pushed : \A m : m = message(i) =>
        Authentic(m)' /\ Len(log'[i]) = subs[i].last + 1 /\ m \in Message
  BY <1>0, NewRecordAuthentic
<1>3. PTypeOK'
  <2>1. log' \in [1..MaxSubs -> Seq(Contents)]
    <3>1. Content(event, job) \in Contents /\ log \in [1..MaxSubs -> Seq(Contents)]
      BY <1>0 DEF Content, Contents, PTypeOK
    <3>2. \A i \in 1..MaxSubs : Append(log[i], Content(event, job)) \in Seq(Contents)
      BY <3>1
    <3>3. QED
      BY <1>0, <3>1, <3>2 DEF Logged
  <2>2. posts' \subseteq Message
    BY <1>0, <1>2 DEF PTypeOK
  <2>3. QED
    BY <1>0, <2>1, <2>2 DEF PTypeOK, Contents
<1>4. PushIdentifiesEvents'
  <2> SUFFICES ASSUME NEW m \in posts' \cup received' PROVE Authentic(m)'
    BY DEF PushIdentifiesEvents
  <2>1. CASE m \in posts \cup received
    BY <1>0, <1>1, <2>1 DEF PushInv, PushIdentifiesEvents, PTypeOK
  <2>2. CASE m \notin posts \cup received
    BY <1>0, <1>2, <2>2
  <2>3. QED
    BY <2>1, <2>2
<1>5. PushedAndPulledAgree'
  <2> SUFFICES ASSUME NEW i \in DOMAIN subs', recipient[i] # None
               PROVE  /\ Len(log'[i]) = subs'[i].last
                      /\ \A k \in 1..Len(subs'[i].queue) :
                           \A m : m = [id |-> i, record |-> subs'[i].queue[k]] => Authentic(m)'
    <3>1. ASSUME NEW i, NEW k,
                 \A m : m = [id |-> i, record |-> subs'[i].queue[k]] => Authentic(m)'
          PROVE  Authentic([id |-> i, record |-> subs[i].queue[k]])'
      BY <3>1 DEF Authentic
    <3>2. QED
      BY <1>0, <3>1 DEF PushedAndPulledAgree
  <2>1. /\ i \in Live /\ i \in DOMAIN subs /\ i \in 1..MaxSubs /\ subs[i] \in Subscription
        /\ Len(log[i]) = subs[i].last
        /\ \A k \in 1..Len(subs[i].queue) : Authentic([id |-> i, record |-> subs[i].queue[k]])
    BY <1>0 DEF PushInv, PushedAndPulledAgree, PTypeOK, TypeOK
  <2>2. \A k \in 1..Len(subs[i].queue) : \A m :
          m = [id |-> i, record |-> subs[i].queue[k]] => Authentic(m)'
    <3> SUFFICES ASSUME NEW k \in 1..Len(subs[i].queue), NEW m,
                        m = [id |-> i, record |-> subs[i].queue[k]]
                 PROVE  Authentic(m)'
      OBVIOUS
    <3>1. m \in Message /\ Authentic(m)
      BY <2>1 DEF Subscription, Message
    <3>2. QED
      BY <1>1, <3>1
  <2>3. CASE Concerns(subs[i], event, job)
    <3>1. i \in pushed /\ subs'[i] = Appended(subs[i], event, job)
      BY <1>0, <2>1, <2>3 DEF Pushed
    <3>2. subs'[i].last = subs[i].last + 1
      BY <2>1, <3>1 DEF Appended, Subscription
    <3>3. ASSUME NEW k \in 1..Len(subs'[i].queue), NEW m,
                 m = [id |-> i, record |-> subs'[i].queue[k]]
          PROVE  Authentic(m)'
      <4>1. CASE subs'[i].queue[k] = NewRecord(subs[i], event, job)
        BY <1>2, <3>1, <3>3, <4>1 DEF DeliverPush
      <4>2. CASE \E n \in 1..Len(subs[i].queue) : subs'[i].queue[k] = subs[i].queue[n]
        BY <2>2, <3>3, <4>2
      <4>3. QED
        BY <2>1, <3>1, <4>1, <4>2, AppendedQueue
    <3>4. QED
      BY <1>2, <3>1, <3>2, <3>3
  <2>4. CASE ~ Concerns(subs[i], event, job)
    <3>1. subs'[i] = subs[i] /\ log'[i] = log[i]
      BY <1>0, <2>1, <2>4 DEF Pushed, Logged
    <3>2. QED
      BY <2>1, <2>2, <3>1
  <2>5. QED
    BY <2>3, <2>4
<1>6. Unused'
  <2>1. \A i \in nextId..MaxSubs : i \in 1..MaxSubs /\ i \notin pushed
    BY <1>0
  <2>2. QED
    BY <1>0, <2>1 DEF PushInv, Unused, Logged
<1>7. QED
  BY <1>3, <1>4, <1>5, <1>6 DEF PushInv

\* The other operations take nothing out of a queue but all of it.
OnlyDrains ==
  /\ nextId' = nextId /\ DOMAIN subs' \subseteq DOMAIN subs
  /\ \A i \in DOMAIN subs' : /\ subs'[i].last = subs[i].last
                              /\ subs'[i].queue \in {subs[i].queue, <<>>}

LEMMA QuietStepInv ==
  ASSUME PushInv, IInv', UNCHANGED pushVars, OnlyDrains
  PROVE  PushInv'
<1>1. /\ nextId' = nextId /\ recipient' = recipient /\ posts' = posts
      /\ received' = received /\ log' = log
  BY DEF pushVars, OnlyDrains
<1>2. PTypeOK'
  BY <1>1 DEF PushInv, PTypeOK, IInv
<1>3. PushIdentifiesEvents' /\ Unused'
  BY <1>1 DEF PushInv, PushIdentifiesEvents, Authentic, Unused
<1>4. PushedAndPulledAgree'
  <2>1. \A i \in DOMAIN subs' : /\ i \in DOMAIN subs /\ subs'[i].last = subs[i].last
                                /\ subs'[i].queue \in {subs[i].queue, <<>>}
    BY DEF OnlyDrains
  <2>2. \A i \in DOMAIN subs' : \A k \in 1..Len(subs'[i].queue) :
          k \in 1..Len(subs[i].queue) /\ subs'[i].queue[k] = subs[i].queue[k]
    BY <2>1
  <2>3. \A i \in DOMAIN subs : recipient[i] # None =>
          /\ Len(log[i]) = subs[i].last
          /\ \A k \in 1..Len(subs[i].queue) :
               Authentic([id |-> i, record |-> subs[i].queue[k]])
    BY DEF PushInv, PushedAndPulledAgree
  <2>4. ASSUME NEW i \in DOMAIN subs', recipient[i] # None
        PROVE  /\ Len(log[i]) = subs'[i].last
               /\ \A k \in 1..Len(subs'[i].queue) :
                    Authentic([id |-> i, record |-> subs'[i].queue[k]])
    BY <2>1, <2>2, <2>3, <2>4
  <2>5. QED
    BY <1>1, <2>4 DEF PushedAndPulledAgree, Authentic
<1>5. QED
  BY <1>2, <1>3, <1>4 DEF PushInv

LEMMA CreateForInv ==
  ASSUME PushInv, IInv', NEW events, NEW job, NEW requested,
         NEW to \in Recipients \cup {None}, CreateFor(events, job, requested, to)
  PROVE  PushInv'
<1>1. /\ nextId \in 1..MaxSubs /\ nextId' = nextId + 1
      /\ posts' = posts /\ received' = received /\ log' = log
      /\ recipient' = [i \in 1..nextId |-> IF i = nextId THEN to ELSE recipient[i]]
      /\ subs' = [i \in Live \cup {nextId} |->
                    IF i = nextId THEN NewSubscription(events, job, requested) ELSE subs[i]]
  BY LeaseAssumption DEF CreateFor, Create, PushInv, IInv, TypeOK
<1>2. PTypeOK'
  <2>1. nextId' - 1 = nextId /\ \A i \in 1..nextId : i # nextId => i \in 1..(nextId - 1)
    BY <1>1
  <2>2. recipient \in [1..(nextId - 1) -> Recipients \cup {None}]
    BY DEF PushInv, PTypeOK
  <2>3. recipient' \in [1..(nextId' - 1) -> Recipients \cup {None}]
    BY <1>1, <2>1, <2>2
  <2>4. QED
    BY <1>1, <2>3 DEF PushInv, PTypeOK, IInv
<1>3. PushIdentifiesEvents'
  BY <1>1 DEF PushInv, PushIdentifiesEvents, Authentic
<1>4. Unused' /\ log[nextId] = <<>>
  BY <1>1, LeaseAssumption DEF PushInv, Unused
<1>5. PushedAndPulledAgree'
  <2>1. \A i \in DOMAIN subs : recipient[i] # None =>
          /\ Len(log[i]) = subs[i].last
          /\ \A k \in 1..Len(subs[i].queue) :
               Authentic([id |-> i, record |-> subs[i].queue[k]])
    BY DEF PushInv, PushedAndPulledAgree
  <2>2. \A i \in Live : /\ i \in DOMAIN subs /\ i # nextId /\ i \in 1..nextId
    BY <1>1 DEF PushInv, IInv, TypeOK, Live
  <2>3. ASSUME NEW i \in DOMAIN subs', recipient'[i] # None
        PROVE  /\ Len(log[i]) = subs'[i].last
               /\ \A k \in 1..Len(subs'[i].queue) :
                    Authentic([id |-> i, record |-> subs'[i].queue[k]])
    <3>1. CASE i = nextId
      BY <1>1, <1>4, <3>1 DEF NewSubscription
    <3>2. CASE i # nextId
      <4>1. i \in Live /\ subs'[i] = subs[i] /\ recipient'[i] = recipient[i]
        BY <1>1, <2>2, <3>2
      <4>2. QED
        BY <2>1, <2>2, <2>3, <4>1
    <3>3. QED
      BY <3>1, <3>2
  <2>4. log' = log
    BY <1>1
  <2>5. QED
    BY <2>3, <2>4 DEF PushedAndPulledAgree, Authentic
<1>6. QED
  BY <1>2, <1>3, <1>4, <1>5 DEF PushInv

LEMMA PushNextInv == PushInv /\ [PNext]_pvars => PushInv'
<1> SUFFICES ASSUME PushInv, [PNext]_pvars PROVE PushInv'
  OBVIOUS
<1>0. IInv' /\ TypeOK /\ \A i \in DOMAIN subs : subs[i] \in Subscription
  BY PushStepsAreSteps, NextIInv DEF PushInv, PTypeOK, TypeOK
<1>1. ASSUME NEW events, NEW job, NEW requested, NEW to \in Recipients \cup {None},
             CreateFor(events, job, requested, to)
      PROVE  PushInv'
  BY <1>0, <1>1, CreateForInv
<1>2. ASSUME NEW event \in Events, NEW job \in Jobs \cup {None}, RecordAndPush(event, job)
      PROVE  PushInv'
  BY <1>0, <1>2, RecordAndPushInv
<1>3. ASSUME UNCHANGED pushVars,
             \/ Look \/ Tick
             \/ \E i \in DOMAIN subs :
                  \/ \E requested \in Requested \cup {None} : Renew(i, requested)
                  \/ Cancel(i)
             \/ \E ids \in (SUBSET (1..MaxSubs)) \ {{}} : GetNotifications(ids)
      PROVE  PushInv'
  <2>0. Live \subseteq DOMAIN subs
    BY DEF Live
  <2>1. OnlyDrains
    <3>1. CASE Look \/ Tick
      BY <2>0, <3>1 DEF Look, Tick, OnlyDrains
    <3>2. ASSUME NEW i, NEW requested, Renew(i, requested)
          PROVE  OnlyDrains
      BY <1>0, <2>0, <3>2 DEF Renew, Renewed, Subscription, OnlyDrains
    <3>3. ASSUME NEW i, Cancel(i)
          PROVE  OnlyDrains
      BY <2>0, <3>3 DEF Cancel, OnlyDrains
    <3>4. ASSUME NEW ids, GetNotifications(ids)
          PROVE  OnlyDrains
      BY <1>0, <2>0, <3>4 DEF GetNotifications, Drained, Subscription, OnlyDrains
    <3>5. QED
      BY <1>3, <3>1, <3>2, <3>3, <3>4
  <2>2. QED
    BY <1>0, <1>3, <2>1, QuietStepInv
<1>4. CASE Delivery
  <2>1. /\ now' = now /\ nextId' = nextId /\ subs' = subs
        /\ recipient' = recipient /\ log' = log
        /\ posts' \subseteq posts /\ received' \subseteq received \cup posts
    BY <1>4 DEF Delivery, Arrive, Lose, vars
  <2>2. PTypeOK'
    BY <1>0, <2>1 DEF PushInv, PTypeOK, IInv
  <2>3. PushIdentifiesEvents' /\ PushedAndPulledAgree' /\ Unused'
    BY <2>1 DEF PushInv, PushIdentifiesEvents, PushedAndPulledAgree, Unused, Authentic
  <2>4. QED
    BY <1>0, <2>2, <2>3 DEF PushInv
<1>5. CASE UNCHANGED pvars
  BY <1>0, <1>5 DEF pvars, PushInv, PTypeOK, TypeOK, PushIdentifiesEvents,
                    PushedAndPulledAgree, Unused, Authentic
<1>9. QED
  BY <1>1, <1>2, <1>3, <1>4, <1>5 DEF PNext, Operation, Events

LEMMA PushInitInv == PInit => PushInv
<1> SUFFICES ASSUME PInit PROVE PushInv
  OBVIOUS
<1>1. IInv /\ nextId = 1 /\ DOMAIN subs = {} /\ MaxSubs \in Nat
  BY InitIInv, LeaseAssumption DEF PInit, Init
<1>2. <<>> \in Seq([event: Events, job: Jobs \cup {None}])
  OBVIOUS
<1>3. recipient \in [1..(nextId - 1) -> Recipients \cup {None}]
  BY <1>1 DEF PInit
<1>4. PTypeOK
  BY <1>1, <1>2, <1>3 DEF PInit, PTypeOK, IInv
<1>5. PushIdentifiesEvents /\ PushedAndPulledAgree /\ Unused
  BY <1>1 DEF PInit, PushIdentifiesEvents, PushedAndPulledAgree, Unused
<1>6. QED
  BY <1>1, <1>4, <1>5 DEF PushInv

\* The variables keep their types, the recipient of an id among them.
THEOREM PushTypeCorrect == PSpec => []PTypeOK
<1>1. PushInv => PTypeOK
  BY DEF PushInv
<1>2. QED
  BY <1>1, PushInitInv, PushNextInv, PTL DEF PSpec

\* Ids are handed out once and numbers count what was recorded, not what is
\* queued, so a POST that comes late or out of order still says which event it
\* carries.
THEOREM PostsIdentified == PSpec => []PushIdentifiesEvents
<1>1. PushInv => PushIdentifiesEvents
  BY DEF PushInv
<1>2. QED
  BY <1>1, PushInitInv, PushNextInv, PTL DEF PSpec

\* Push and pull number the same events in the same way.
THEOREM PushAgreesWithPull == PSpec => []PushedAndPulledAgree
<1>1. PushInv => PushedAndPulledAgree
  BY DEF PushInv
<1>2. QED
  BY <1>1, PushInitInv, PushNextInv, PTL DEF PSpec

(***************************************************************************)
(* Ended subscriptions.                                                    *)
(***************************************************************************)
LEMMA StepPushesToLive ==
  ASSUME PushInv, [PNext]_pvars, NEW i \in 1..(nextId - 1), i \notin Live
  PROVE  log'[i] = log[i]
<1>1. i \in 1..MaxSubs
  BY LeaseAssumption DEF PushInv, PTypeOK, TypeOK
<1>2. ASSUME NEW event, NEW job, RecordAndPush(event, job)
      PROVE  log'[i] = log[i]
  BY <1>1, <1>2 DEF RecordAndPush, Logged, Pushed
<1>3. ASSUME ~ \E event, job : RecordAndPush(event, job)
      PROVE  log' = log
  BY <1>3 DEF PNext, Operation, CreateFor, Delivery, Arrive, Lose, pushVars, pvars
<1>4. QED
  BY <1>2, <1>3

\* Recording prunes before it sends: what has ended is sent nothing more.
THEOREM EndedForRecipients == PSpec => EndedIsNotPushed
<1>1. PushInv /\ [PNext]_pvars =>
        [\A i \in 1..(nextId - 1) : i \notin Live => log'[i] = log[i]]_pvars
  BY StepPushesToLive
<1>2. QED
  BY <1>1, PushInitInv, PushNextInv, PTL DEF PSpec, EndedIsNotPushed

(***************************************************************************)
(* The refinement of Feed.                                                 *)
(***************************************************************************)
Place(m) == <<m.id, m.record.seq>>

Arrival(m) == [id |-> m.id, place |-> m.record.seq,
               event |-> Content(m.record.event, m.record.job)]

LEMMA MappingIsByMessage ==
  /\ Flight = {Place(m) : m \in posts} /\ Delivered = {Arrival(m) : m \in received}
  /\ Flight' = {Place(m) : m \in posts'} /\ Delivered' = {Arrival(m) : m \in received'}
BY DEF Flight, Delivered, Place, Arrival

\* Taking a POST off the network takes its place off the flight: no other POST
\* has the same.
LEMMA OnePostPerPlace ==
  ASSUME PushInv, NEW m \in posts
  PROVE  {Place(k) : k \in posts \ {m}} = {Place(k) : k \in posts} \ {Place(m)}
<1>1. ASSUME NEW k \in posts, Place(k) = Place(m)
      PROVE  k = m
  <2>1. k \in Message /\ m \in Message
    BY DEF PushInv, PTypeOK
  <2>2. k.id = m.id /\ k.record.seq = m.record.seq
    BY <1>1 DEF Place
  <2>3. Content(k.record.event, k.record.job) = Content(m.record.event, m.record.job)
    BY <2>2 DEF PushInv, PushIdentifiesEvents, Authentic
  <2>4. k.record.event = m.record.event /\ k.record.job = m.record.job
    BY <2>3 DEF Content
  <2>5. k.record = m.record
    BY <2>1, <2>2, <2>4 DEF Message, Record
  <2>6. QED
    BY <2>1, <2>2, <2>5 DEF Message
<1>2. QED
  BY <1>1

LEMMA DeliveryIsDelivery ==
  ASSUME PushInv, NEW m \in posts, UNCHANGED log,
         posts' = posts \ {m}, received' \in {received, received \cup {m}}
  PROVE  Abstract!Next
<1>1. /\ Place(m) = <<m.id, m.record.seq>> /\ Place(m) \in Flight
      /\ Flight' = Flight \ {Place(m)}
  BY MappingIsByMessage, OnePostPerPlace DEF Place
<1>2. log[m.id][m.record.seq] = Content(m.record.event, m.record.job)
  BY DEF PushInv, PushIdentifiesEvents, Authentic
<1>3. CASE received' = received
  <2>1. Delivered' = Delivered
    BY <1>3, MappingIsByMessage
  <2>2. Abstract!Lose(m.id, m.record.seq)
    BY <1>1, <2>1 DEF Abstract!Lose
  <2>3. QED
    BY <1>1, <2>2 DEF Abstract!Next
<1>4. CASE received' = received \cup {m}
  <2>1. Delivered' = Delivered \cup {Arrival(m)}
    BY <1>4, MappingIsByMessage
  <2>2. Abstract!Deliver(m.id, m.record.seq)
    BY <1>1, <1>2, <2>1 DEF Abstract!Deliver, Arrival
  <2>3. QED
    BY <1>1, <2>2 DEF Abstract!Next
<1>5. QED
  BY <1>3, <1>4

LEMMA RecordingIsPublishing ==
  ASSUME PushInv, NEW event \in Events, NEW job \in Jobs \cup {None},
         RecordAndPush(event, job)
  PROVE  Abstract!Next
<1> DEFINE pushed == Pushed(event, job)
           message(i) == DeliverPush(i, NewRecord(subs[i], event, job))
<1>1. /\ posts' = posts \cup {message(i) : i \in pushed} /\ received' = received
      /\ log' = Logged(pushed, event, job)
  BY DEF RecordAndPush
<1>2. pushed \in SUBSET (1..MaxSubs) /\ pushed \subseteq DOMAIN subs
  BY LeaseAssumption DEF Pushed, Live, PushInv, PTypeOK, TypeOK
<1>3. \A i \in pushed : Place(message(i)) = <<i, Len(log[i]) + 1>>
  <2> SUFFICES ASSUME NEW i \in pushed PROVE Place(message(i)) = <<i, Len(log[i]) + 1>>
    OBVIOUS
  <2>1. recipient[i] # None /\ Len(log[i]) = subs[i].last
    BY <1>2 DEF Pushed, PushInv, PushedAndPulledAgree
  <2>2. QED
    BY <2>1 DEF Place, DeliverPush, NewRecord
<1>4. Flight' = Flight \cup {<<i, Len(log[i]) + 1>> : i \in pushed}
  <2> HIDE DEF message, pushed
  <2>1. {Place(m) : m \in posts'} =
          {Place(m) : m \in posts} \cup {Place(message(i)) : i \in pushed}
    BY <1>1
  <2>2. QED
    BY <1>3, <2>1, MappingIsByMessage
<1>5. Delivered' = Delivered
  BY <1>1, MappingIsByMessage
<1>6. Abstract!Publish(pushed, Content(event, job))
  BY <1>1, <1>4, <1>5 DEF Abstract!Publish, Logged
<1>7. Content(event, job) \in [event: Events, job: Jobs \cup {None}]
  BY DEF Content
<1>8. QED
  BY <1>2, <1>6, <1>7 DEF Abstract!Next

LEMMA PushStepImplementsFeed ==
  PushInv /\ [PNext]_pvars => [Abstract!Next]_<<log, Flight, Delivered>>
<1> SUFFICES ASSUME PushInv, [PNext]_pvars
             PROVE  [Abstract!Next]_<<log, Flight, Delivered>>
  OBVIOUS
<1>1. ASSUME NEW event \in Events, NEW job \in Jobs \cup {None}, RecordAndPush(event, job)
      PROVE  Abstract!Next
  BY <1>1, RecordingIsPublishing
<1>2. CASE Delivery
  BY <1>2, DeliveryIsDelivery DEF Delivery, Arrive, Lose
<1>3. CASE UNCHANGED <<posts, received, log>>
  BY <1>3 DEF Flight, Delivered
<1>4. QED
  BY <1>1, <1>2, <1>3 DEF PNext, Operation, CreateFor, pushVars, pvars, Events

\* No recipient can tell the POSTs from a log whose entries are delivered at
\* most once each, in any order.
THEOREM PushImplementsFeed == PSpec => ImplementsFeed
<1>1. PInit => Abstract!Init
  BY DEF PInit, Abstract!Init, Flight, Delivered
<1>2. QED
  BY <1>1, PushInitInv, PushNextInv, PushStepImplementsFeed, PTL
  DEF PSpec, ImplementsFeed, Abstract!Spec
=============================================================================
