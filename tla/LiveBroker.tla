----------------------------- MODULE LiveBroker ------------------------------
(***************************************************************************)
(* The live event broker of internal/live/broker.go: a bounded window of   *)
(* recent events, the last event of every entry still in progress, and the *)
(* channels of the dashboards that are connected.                          *)
(*                                                                         *)
(* Every method runs under b.mu, so each is one step; Close closes the     *)
(* channels after it released the lock.  An event is its sequence number,  *)
(* its kind and its entry: payloads and their merging are left out, and an *)
(* entry stands for the canonical snapshot key of one log.                 *)
(***************************************************************************)
EXTENDS Naturals, Sequences, SequencesExt, FiniteSets

CONSTANTS
    Entries,             \* log entries (canonical snapshot keys)
    Subs,                \* subscription ids
    BufferSize,          \* events kept for replay
    ReplayLimit,         \* events replayed to one subscriber
    SubscriberBuffer     \* capacity of a subscriber's channel

ASSUME BrokerAssumption ==
    /\ BufferSize \in Nat \ {0}
    /\ ReplayLimit \in Nat \ {0}
    /\ SubscriberBuffer \in Nat \ {0}

VARIABLES
    nextSeq,
    events,         \* the replay window, oldest first
    active,         \* activeAudit: the snapshots
    subs,           \* per id, the Subscription and its channel
    brokerClosed

brokerVars == <<nextSeq, events, active, subs, brokerClosed>>

Kinds == {"started", "completed", "flushed", "failed", "removed"}
Terminal == {"flushed", "failed", "removed"}
Event == [seq : Nat, kind : Kinds, id : Entries]

\* state: "open" while registered, "detached" between Close's unlock and its
\* close(ch), "cut" once the channel is closed.  resume, from and reset are
\* what Subscribe was asked and answered; taken is the last sequence number
\* received from the channel (from, before the first).
NoSub == [state |-> "none", resume |-> 0, from |-> 0, reset |-> FALSE,
          replay |-> <<>>, queue |-> <<>>, taken |-> 0]

BrokerInit ==
    /\ nextSeq = 0
    /\ events = <<>>
    /\ active = {}
    /\ subs = [c \in Subs |-> NoSub]
    /\ brokerClosed = FALSE

-----------------------------------------------------------------------------
(* publish *)

Trim(s) == IF Len(s) > BufferSize THEN SubSeq(s, Len(s) - BufferSize + 1, Len(s)) ELSE s

\* Bug: a terminal event is kept as a snapshot.
UpdateActiveKeepsTerminal(event) ==
    active' = {a \in active : a.id # event.id} \cup {event}

\* updateActiveSnapshotsLocked
UpdateActive(event) ==
    LET others == {a \in active : a.id # event.id}
    IN  active' = IF event.kind \in Terminal THEN others ELSE others \cup {event}

\* Bug: an event that does not fit is skipped and the channel stays open.
DeliverSkips(sub, event) ==
    IF sub.state = "open" /\ Len(sub.queue) < SubscriberBuffer
    THEN [sub EXCEPT !.queue = Append(sub.queue, event)]
    ELSE sub

\* The non-blocking send: a subscriber whose channel is full is cut off.
Deliver(sub, event) ==
    IF sub.state # "open" THEN sub
    ELSE IF Len(sub.queue) < SubscriberBuffer
         THEN [sub EXCEPT !.queue = Append(sub.queue, event)]
         ELSE [sub EXCEPT !.state = "cut"]

Publish(id, kind) ==
    LET event == [seq |-> nextSeq + 1, kind |-> kind, id |-> id]
    IN  IF brokerClosed THEN UNCHANGED brokerVars
        ELSE /\ nextSeq' = nextSeq + 1
             /\ UpdateActive(event)
             /\ events' = Trim(Append(events, event))
             /\ subs' = [c \in Subs |-> Deliver(subs[c], event)]
             /\ UNCHANGED brokerClosed

-----------------------------------------------------------------------------
(* Subscribe, Subscription.Close, Close *)

\* activeSnapshotsLocked: the snapshots sorted by their sequence numbers.
Snapshots ==
    CHOOSE s \in [1..Cardinality(active) -> active] :
        /\ active = {s[i] : i \in DOMAIN s}
        /\ \A i, j \in DOMAIN s : i < j => s[i].seq < s[j].seq

\* Bug: an off-by-one at the replay limit.
CannotResumeTooLate(cursor) ==
    \/ events = <<>>
    \/ cursor > Last(events).seq
    \/ cursor + 1 < Head(events).seq
    \/ Last(events).seq > cursor + ReplayLimit + 1

\* replayAfterLocked, for a cursor that is not 0: the window no longer holds
\* what follows the cursor, or it is too much to replay.
CannotResume(cursor) ==
    \/ events = <<>>
    \/ cursor > Last(events).seq
    \/ cursor + 1 < Head(events).seq
    \/ Last(events).seq > cursor + ReplayLimit

\* replayAfterLocked's loop over the window.
After(s, cursor) ==
    LET replay[k \in 0..Len(s)] ==
          IF k = 0 THEN <<>>
          ELSE IF s[k].seq > cursor THEN Append(replay[k - 1], s[k]) ELSE replay[k - 1]
    IN  replay[Len(s)]

\* Bug: the first event after the cursor is left out.
SubscriptionSkipsOne(cursor) ==
    LET reset == cursor # 0 /\ CannotResume(cursor)
    IN  [state |-> "open", resume |-> cursor, from |-> nextSeq, reset |-> reset,
         replay |-> IF cursor = 0 \/ reset THEN Snapshots
                    ELSE After(events, cursor + 1),
         queue |-> <<>>, taken |-> nextSeq]

\* The result of Subscribe(cursor).
Subscription(cursor) ==
    LET reset == cursor # 0 /\ CannotResume(cursor)
    IN  [state |-> "open", resume |-> cursor, from |-> nextSeq, reset |-> reset,
         replay |-> IF cursor = 0 \/ reset THEN Snapshots
                    ELSE After(events, cursor),
         queue |-> <<>>, taken |-> nextSeq]

Subscribe(c, cursor) ==
    /\ ~brokerClosed
    /\ subs[c].state = "none"
    /\ subs' = [subs EXCEPT ![c] = Subscription(cursor)]
    /\ UNCHANGED <<nextSeq, events, active, brokerClosed>>

\* The owner of subscription c receives the next event from its channel.
Take(c) ==
    /\ subs[c].queue # <<>>
    /\ subs' = [subs EXCEPT ![c].queue = Tail(@), ![c].taken = Head(subs[c].queue).seq]
    /\ UNCHANGED <<nextSeq, events, active, brokerClosed>>

\* The owner of subscription c returns: the deferred Subscription.Close.
Unsubscribe(c) ==
    /\ subs[c].state # "none"
    /\ subs' = [subs EXCEPT ![c] = NoSub]
    /\ UNCHANGED <<nextSeq, events, active, brokerClosed>>

\* Broker.Close up to its unlock: the map of subscribers is taken away.
CloseBroker ==
    /\ ~brokerClosed
    /\ brokerClosed' = TRUE
    /\ subs' = [c \in Subs |-> IF subs[c].state = "open"
                               THEN [subs[c] EXCEPT !.state = "detached"] ELSE subs[c]]
    /\ UNCHANGED <<nextSeq, events, active>>

\* ... and its close(ch) for one of them.
CloseChannel(c) ==
    /\ subs[c].state = "detached"
    /\ subs' = [subs EXCEPT ![c].state = "cut"]
    /\ UNCHANGED <<nextSeq, events, active, brokerClosed>>

-----------------------------------------------------------------------------
(* The broker on its own: any publisher, any cursor.  LiveStream composes the
   same actions with the handler and the browser. *)

BrokerNext ==
    \/ \E id \in Entries, kind \in Kinds : Publish(id, kind)
    \/ \E c \in Subs, cursor \in Nat : Subscribe(c, cursor)
    \/ \E c \in Subs : Take(c) \/ Unsubscribe(c) \/ CloseChannel(c)
    \/ CloseBroker

BrokerSpec == BrokerInit /\ [][BrokerNext]_brokerVars

-----------------------------------------------------------------------------
SubType ==
    [state : {"none", "open", "detached", "cut"}, resume : Nat, from : Nat, reset : BOOLEAN,
     replay : Seq(Event), queue : Seq(Event), taken : Nat]

BrokerTypeOK ==
    /\ nextSeq \in Nat
    /\ events \in Seq(Event) /\ Len(events) <= BufferSize
    /\ active \in SUBSET Event
    /\ subs \in [Subs -> SubType]
    /\ \A c \in Subs : Len(subs[c].queue) <= SubscriberBuffer
    /\ brokerClosed \in BOOLEAN

\* The numbers of s follow each other, starting after n.
Follows(s, n) == \A i \in 1..Len(s) : s[i].seq = n + i

\* publish's window: the last events, without a hole.
WindowIsContiguous ==
    /\ Len(events) <= nextSeq
    /\ Follows(events, nextSeq - Len(events))

\* What a subscriber receives has no hole: the queue continues what was taken
\* and, until the subscriber is cut off, reaches the latest event.
StreamHasNoGap ==
    \A c \in Subs :
        LET s == subs[c]
        IN  /\ Follows(s.queue, s.taken)
            /\ s.state = "open" => s.taken + Len(s.queue) = nextSeq

\* Subscribe resumes exactly after the cursor or asks for a reset: no event
\* between the cursor and the subscription is skipped without the client
\* being told (replayAfterLocked).
ResumeIsExact ==
    \A c \in Subs :
        LET s == subs[c]
        IN  s.state # "none" /\ s.resume # 0 /\ ~s.reset =>
              /\ Follows(s.replay, s.resume)
              /\ s.resume + Len(s.replay) = s.from
              /\ Len(s.replay) <= ReplayLimit

\* A dashboard that starts from the snapshots sees every entry in progress
\* once, at its latest event, and none that is over, as far as the window
\* tells: the last event of an entry decides.
SnapshotsAreCurrent ==
    /\ \A a, b \in active : a.id = b.id => a = b
    /\ \A a \in active : a.kind \notin Terminal
    /\ \A i \in 1..Len(events) :
          (\A j \in i + 1..Len(events) : events[j].id # events[i].id) =>
              IF events[i].kind \in Terminal
              THEN \A a \in active : a.id # events[i].id
              ELSE events[i] \in active
=============================================================================
