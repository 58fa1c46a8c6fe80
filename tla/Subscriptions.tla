--------------------------- MODULE Subscriptions ----------------------------
(***************************************************************************)
(* The event subscriptions (src/printer/subscription-manager.ts) and the   *)
(* IPP operations on them.                                                 *)
(*                                                                         *)
(* A lease ends at an instant but nothing happens then: there is no timer. *)
(* Every accessor of the manager first prunes what has expired, so "subs"  *)
(* may hold expired subscriptions between two accesses.  Time is in        *)
(* seconds and passes between operations.                                  *)
(***************************************************************************)
EXTENDS Integers, Sequences

CONSTANTS
  Jobs,          \* the job-ids that subscriptions and events name
  JobEvents,     \* the job-* keywords of notify-events
  PrinterEvents, \* the printer-* keywords of notify-events
  None,          \* undefined: no notify-job-id, no requested lease, no expiry
  DefaultLease,  \* NOTIFY_LEASE_DURATION_DEFAULT
  MaxLease,      \* NOTIFY_LEASE_DURATION_MAX
  MaxEvents,     \* NOTIFY_MAX_EVENTS
  Requested,     \* the lease durations clients ask for
  MaxSubs,       \* bound on the subscription-ids handed out
  MaxSequence,   \* bound on the events of one subscription
  MaxTime        \* bound on the clock

Events == JobEvents \cup PrinterEvents

ASSUME LeaseAssumption ==
  /\ DefaultLease \in Nat /\ MaxLease \in Nat
  /\ 0 < DefaultLease /\ DefaultLease < MaxLease
  /\ MaxEvents \in Nat \ {0}
  /\ Requested \subseteq Int
  /\ MaxSubs \in Nat /\ MaxSequence \in Nat /\ MaxTime \in Nat

ASSUME NoneAssumption == None \notin Jobs /\ None \notin Int

VARIABLES
  now,      \* Date.now()
  nextId,   \* the next subscription-id
  subs      \* the registered subscriptions, by id

vars == <<now, nextId, subs>>

(***************************************************************************)
(* A subscription.  "read" is a history variable: lastSequence when its    *)
(* queue was last drained.                                                 *)
(***************************************************************************)
Record == [event: Events, job: Jobs \cup {None}, seq: Nat]

Subscription ==
  [events: SUBSET Events, job: Jobs \cup {None}, lease: Nat,
   expiresAt: Nat \cup {None}, last: Nat, queue: Seq(Record), read: Nat]

ClampLease(requested) ==
  IF requested = None THEN DefaultLease
  ELSE IF requested <= 0 \/ requested > MaxLease THEN MaxLease
  ELSE requested

LeaseExpiry(lease) == IF lease >= MaxLease THEN None ELSE now + lease

\* Fault: off by one, a lease still counts at the instant it ends.
FaultyExpired(s) == s.expiresAt # None /\ now > s.expiresAt

Expired(s) == s.expiresAt # None /\ now >= s.expiresAt

NewSubscription(events, job, requested) ==
  [events |-> events, job |-> job, lease |-> ClampLease(requested),
   expiresAt |-> LeaseExpiry(ClampLease(requested)),
   last |-> 0, queue |-> <<>>, read |-> 0]

\* Fault: the number is the place in the queue.
FaultyNewRecord(s, event, job) ==
  [event |-> event, job |-> job, seq |-> Len(s.queue) + 1]

NewRecord(s, event, job) == [event |-> event, job |-> job, seq |-> s.last + 1]

\* Fault: off by one, the oldest event goes before the queue is over its limit.
FaultyAppended(s, event, job) ==
  LET longer == Append(s.queue, NewRecord(s, event, job))
  IN  [s EXCEPT !.last = @ + 1,
                !.queue = IF Len(longer) >= MaxEvents THEN Tail(longer) ELSE longer]

\* The oldest event makes room when the queue is full; the number advances.
Appended(s, event, job) ==
  LET longer == Append(s.queue, NewRecord(s, event, job))
  IN  [s EXCEPT !.last = @ + 1,
                !.queue = IF Len(longer) > MaxEvents THEN Tail(longer) ELSE longer]

Drained(s) == [s EXCEPT !.queue = <<>>, !.read = s.last]

\* Fault: the new lease is reported, the old end stays.
FaultyRenewed(s, requested) == [s EXCEPT !.lease = ClampLease(requested)]

Renewed(s, requested) ==
  [s EXCEPT !.lease = ClampLease(requested),
            !.expiresAt = LeaseExpiry(ClampLease(requested))]

\* Fault: an event without a job concerns the per-job subscriptions too.
FaultyConcerns(s, event, job) ==
  event \in s.events /\ (job = None \/ s.job \in {None, job})

\* subscribed to the event, and not to another job.
Concerns(s, event, job) == event \in s.events /\ s.job \in {None, job}

(***************************************************************************)
(* The manager.                                                            *)
(***************************************************************************)
Init ==
  /\ now = 0
  /\ nextId = 1
  /\ subs = [i \in {} |-> NewSubscription({}, None, None)]

\* What prune() leaves.
Live == {i \in DOMAIN subs : ~ Expired(subs[i])}

Create(events, job, requested) ==
  /\ nextId <= MaxSubs
  /\ subs' = [i \in Live \cup {nextId} |->
                IF i = nextId THEN NewSubscription(events, job, requested) ELSE subs[i]]
  /\ nextId' = nextId + 1
  /\ UNCHANGED now

\* get, list, and any operation on an id that is not live.
Look ==
  /\ subs' = [i \in Live |-> subs[i]]
  /\ UNCHANGED <<now, nextId>>

Renew(i, requested) ==
  /\ i \in Live
  /\ subs' = [k \in Live |-> IF k = i THEN Renewed(subs[k], requested) ELSE subs[k]]
  /\ UNCHANGED <<now, nextId>>

Cancel(i) ==
  /\ i \in Live
  /\ subs' = [k \in Live \ {i} |-> subs[k]]
  /\ UNCHANGED <<now, nextId>>

RecordEvent(event, job) ==
  LET concerned == {i \in Live : Concerns(subs[i], event, job)} IN
  /\ \A i \in concerned : subs[i].last < MaxSequence
  /\ subs' = [k \in Live |-> IF k \in concerned THEN Appended(subs[k], event, job)
                                        ELSE subs[k]]
  /\ UNCHANGED <<now, nextId>>

\* Get-Notifications, for the ids of one request.
GetNotifications(ids) ==
  /\ subs' = [k \in Live |-> IF k \in ids THEN Drained(subs[k]) ELSE subs[k]]
  /\ UNCHANGED <<now, nextId>>

Tick ==
  /\ now < MaxTime
  /\ now' = now + 1
  /\ UNCHANGED <<nextId, subs>>

Next ==
  \/ \E events \in (SUBSET Events) \ {{}}, job \in Jobs \cup {None},
        requested \in Requested \cup {None} : Create(events, job, requested)
  \/ Look
  \/ \E i \in DOMAIN subs :
       \/ \E requested \in Requested \cup {None} : Renew(i, requested)
       \/ Cancel(i)
  \/ \E event \in JobEvents, job \in Jobs : RecordEvent(event, job)
  \/ \E event \in PrinterEvents : RecordEvent(event, None)
  \/ \E ids \in (SUBSET (1..MaxSubs)) \ {{}} : GetNotifications(ids)
  \/ Tick

Spec == Init /\ [][Next]_vars

(***************************************************************************)
(* Properties.                                                             *)
(***************************************************************************)
TypeOK ==
  /\ now \in 0..MaxTime
  /\ nextId \in 1..(MaxSubs + 1)
  /\ DOMAIN subs \subseteq 1..(nextId - 1)
  /\ \A i \in DOMAIN subs : subs[i] \in Subscription

\* Whatever mix of recording and draining: a queue holds the most recent
\* records in order with consecutive numbers, and a client that reads often
\* enough misses none: unless more than MaxEvents were recorded since the last
\* Get-Notifications, everything recorded since is there.
QueueIsRecent(s) ==
  LET unread == s.last - s.read IN
  /\ s.read <= s.last
  /\ Len(s.queue) = IF unread <= MaxEvents THEN unread ELSE MaxEvents
  /\ \A k \in 1..Len(s.queue) : s.queue[k].seq = (s.last - Len(s.queue)) + k

NoSilentLoss == \A i \in DOMAIN subs : QueueIsRecent(subs[i])

\* A subscription only ever queues events it asked for, and a per-job
\* subscription only events of its job, never one of the printer.
OnlySubscribedEvents ==
  \A i \in DOMAIN subs : \A k \in 1..Len(subs[i].queue) :
    LET s == subs[i]
        record == s.queue[k]
    IN  /\ record.event \in s.events
        /\ s.job # None => record.job = s.job

\* A registered lease that is not over ends within the granted duration from
\* now, and one that never ends was granted as the maximum: no lease outlives
\* what Get-Subscription-Attributes reports for it.
LeasesEndInTime ==
  \A i \in DOMAIN subs :
    IF subs[i].lease < MaxLease
    THEN subs[i].expiresAt # None /\ subs[i].expiresAt <= now + subs[i].lease
    ELSE subs[i].expiresAt = None

\* Expired or canceled is final: no renewal, event or later subscription
\* brings an id back to life, although an expired one may stay registered for
\* as long as nobody looks.
ExpiryIsFinal == [][\A i \in 1..(nextId - 1) : i \notin Live => i \notin Live']_vars

(***************************************************************************)
(* Pruning on access is as good as a timer: the live subscriptions are     *)
(* those of Leases.                                                        *)
(***************************************************************************)
ClientView ==
  [i \in Live |-> [end |-> subs[i].expiresAt, last |-> subs[i].last,
                   read |-> subs[i].read]]

Timed == INSTANCE Leases WITH Ids <- 1..MaxSubs, Ends <- 0..(MaxTime + MaxLease),
           Never <- None, granted <- 1..(nextId - 1), live <- ClientView

ImplementsLeases == Timed!Spec
=============================================================================
