-------------------------------- MODULE Push --------------------------------
(***************************************************************************)
(* The push deliveries (src/printer/push-notifier.ts) and the              *)
(* subscriptions whose events they carry.  An event is recorded and, for a *)
(* subscription with a notify-recipient-uri, POSTed to it; nobody awaits   *)
(* the POST, none is repeated, and any number of them are under way at the *)
(* same time, so that they overtake one another or are lost.               *)
(*                                                                         *)
(* Every step of Subscriptions is taken together with what it does to the  *)
(* deliveries; the network and the recipients take steps of their own.     *)
(***************************************************************************)
EXTENDS Subscriptions, FiniteSets

CONSTANTS
  Recipients,  \* the notify-recipient-uris of clients, local ones
  MaxPosts     \* bound on the POSTs made

ASSUME PushAssumption == None \notin Recipients /\ MaxPosts \in Nat

VARIABLES
  recipient,  \* Subscription.recipientUri of every id handed out; it is fixed
  posts,      \* the POSTs under way
  received,   \* history: what has arrived at the recipients
  log         \* history: per id, the events recorded for a push recipient

pushVars == <<recipient, posts, received, log>>
pvars == <<now, nextId, subs, recipient, posts, received, log>>

(***************************************************************************)
(* A POST carries the record and the subscription's id.  How it ends for   *)
(* the printer (the answer, an error, PUSH_DELIVERY_TIMEOUT_MS of an idle  *)
(* socket) settles a promise that nobody awaits and changes nothing; one   *)
(* given up may still be read by the recipient from its socket.            *)
(***************************************************************************)
Message == [id: 1..MaxSubs, record: Record]

PTypeOK ==
  /\ TypeOK
  /\ recipient \in [1..(nextId - 1) -> Recipients \cup {None}]
  /\ posts \subseteq Message
  /\ received \subseteq Message
  /\ log \in [1..MaxSubs -> Seq([event: Events, job: Jobs \cup {None}])]

PInit ==
  /\ Init
  /\ recipient = [i \in {} |-> None]
  /\ posts = {}
  /\ received = {}
  /\ log = [i \in 1..MaxSubs |-> <<>>]

(***************************************************************************)
(* The subscription operations.                                            *)
(***************************************************************************)
CreateFor(events, job, requested, to) ==
  /\ Create(events, job, requested)
  /\ recipient' = [i \in 1..nextId |-> IF i = nextId THEN to ELSE recipient[i]]
  /\ UNCHANGED <<posts, received, log>>

PostsMade == UNION {{i} \X (1..Len(log[i])) : i \in 1..MaxSubs}

Pushed(event, job) ==
  {i \in Live : Concerns(subs[i], event, job) /\ recipient[i] # None}

DeliverPush(i, record) == [id |-> i, record |-> record]

Content(event, job) == [event |-> event, job |-> job]

Logged(ids, event, job) ==
  [i \in 1..MaxSubs |-> IF i \in ids THEN Append(log[i], Content(event, job))
                        ELSE log[i]]

\* Fault: the recipients are notified before the expired leases are pruned.
FaultyRecordAndPush(event, job) ==
  LET stale == {i \in DOMAIN subs : Concerns(subs[i], event, job) /\ recipient[i] # None}
  IN  /\ RecordEvent(event, job)
      /\ Cardinality(PostsMade) + Cardinality(stale) <= MaxPosts
      /\ posts' = posts \cup {DeliverPush(i, NewRecord(subs[i], event, job)) : i \in stale}
      /\ log' = Logged(stale, event, job)
      /\ UNCHANGED <<recipient, received>>

RecordAndPush(event, job) ==
  LET pushed == Pushed(event, job)
  IN  /\ RecordEvent(event, job)
      /\ Cardinality(PostsMade) + Cardinality(pushed) <= MaxPosts
      /\ posts' = posts \cup {DeliverPush(i, NewRecord(subs[i], event, job)) : i \in pushed}
      /\ log' = Logged(pushed, event, job)
      /\ UNCHANGED <<recipient, received>>

(***************************************************************************)
(* The network.                                                            *)
(***************************************************************************)

\* Fault: a POST whose answer does not come in time is sent again.
FaultyArrive(m) ==
  /\ received' = received \cup {m}
  /\ UNCHANGED <<posts, recipient, log>>

Arrive(m) ==
  /\ posts' = posts \ {m}
  /\ received' = received \cup {m}
  /\ UNCHANGED <<recipient, log>>

\* Refused, reset or timed out before the recipient has read it.
Lose(m) ==
  /\ posts' = posts \ {m}
  /\ UNCHANGED <<recipient, received, log>>

Operation ==
  \/ \E events \in (SUBSET Events) \ {{}}, job \in Jobs \cup {None},
        requested \in Requested \cup {None}, to \in Recipients \cup {None} :
          CreateFor(events, job, requested, to)
  \/ \E event \in JobEvents, job \in Jobs : RecordAndPush(event, job)
  \/ \E event \in PrinterEvents : RecordAndPush(event, None)
  \/ /\ \/ Look
        \/ \E i \in DOMAIN subs :
             \/ \E requested \in Requested \cup {None} : Renew(i, requested)
             \/ Cancel(i)
        \/ \E ids \in (SUBSET (1..MaxSubs)) \ {{}} : GetNotifications(ids)
        \/ Tick
     /\ UNCHANGED pushVars

Delivery ==
  /\ \E m \in posts : Arrive(m) \/ Lose(m)
  /\ UNCHANGED vars

PNext == Operation \/ Delivery

PSpec == PInit /\ [][PNext]_pvars

(***************************************************************************)
(* Properties.                                                             *)
(***************************************************************************)

\* The sequence number of a POST says which event of its subscription it
\* carries, however the POSTs were reordered, lost or delayed and however the
\* queue was drained or overflowed meanwhile: no two with the same id and
\* number ever carry different events, so a recipient can restore the order
\* and see what is missing.
Authentic(m) ==
  /\ m.record.seq \in 1..Len(log[m.id])
  /\ log[m.id][m.record.seq] = Content(m.record.event, m.record.job)

PushIdentifiesEvents ==
  \A m \in posts \cup received : Authentic(m)

\* The event also stays queued: who drains a push subscription with
\* Get-Notifications finds under each number the event that was pushed under it.
PushedAndPulledAgree ==
  \A i \in DOMAIN subs : recipient[i] # None =>
    /\ Len(log[i]) = subs[i].last
    /\ \A k \in 1..Len(subs[i].queue) :
         Authentic([id |-> i, record |-> subs[i].queue[k]])

\* A subscription that was canceled or whose lease is over is sent nothing
\* more, although it may still be registered; only what was under way arrives.
EndedIsNotPushed ==
  [][\A i \in 1..(nextId - 1) : i \notin Live => log'[i] = log[i]]_pvars

(***************************************************************************)
(* Without a log, a retry or an acknowledgement, the deliveries are those  *)
(* of Feed.                                                                *)
(***************************************************************************)
Flight == {<<m.id, m.record.seq>> : m \in posts}

Delivered == {[id |-> m.id, place |-> m.record.seq,
               event |-> Content(m.record.event, m.record.job)] : m \in received}

Abstract == INSTANCE Feed WITH Ids <- 1..MaxSubs,
              Contents <- [event: Events, job: Jobs \cup {None}],
              flight <- Flight, delivered <- Delivered

ImplementsFeed == Abstract!Spec
=============================================================================
