---------------------------- MODULE Conversations ----------------------------
(* The two stores in memory behind /v1/conversations and /v1/responses
   (internal/conversationstore, internal/responsestore), and the handlers that
   use them.  A store is a map under one mutex, with expiry, a throttled sweep
   of what has expired, and a cap; each of its operations is one step here, on
   a reading of the clock taken before the mutex (Delete: under it).  The
   handlers put several operations together with nothing held in between.

   One of the stores is chosen at the start.  Every request runs once, and the
   entry a creating request stores is named after it: identifiers are random,
   or the provider's.  Get hands out a reference under the mutex and copies the
   entry after releasing it; an append changes the entry in place.  A turn is a
   /v1/responses call in a conversation; the items of an entry are the input
   and the output of the turns appended to it (what the output of a streamed
   turn may lack is in AnswerStreams).  The provider is external and answers
   or fails.                                                                 *)
EXTENDS Naturals, Sequences, FiniteSets, Functions

CONSTANTS Calls,            \* requests, each served once
          TTL, MaxEntries,  \* retention of the store
          CleanupInterval,  \* the least time between two sweeps
          MaxTime           \* bound: ticks of the clock

ASSUME RetentionAssumption ==
  TTL \in Nat \ {0} /\ MaxEntries \in Nat \ {0} /\ CleanupInterval \in Nat /\ MaxTime \in Nat

VARIABLES kind,         \* "conversations" or "responses"
          now,          \* the clock
          items,        \* the store: its entries by id
          lastCleanup,  \* the reading of the last sweep, 0 before the first
          request,      \* per request: where it is, with its locals
          appended,     \* history: per id, the turns whose append succeeded, in order
          overwritten,  \* history: ids whose entry was replaced by an older copy
          gone          \* history: ids that have left the store

storeVars == <<items, lastCleanup, gone>>
conversationVars == <<kind, now, storeVars, request, appended, overwritten>>

NoEntry == [items |-> <<>>, storedAt |-> 0, expiresAt |-> 0, object |-> "none"]
Fresh == [at |-> "idle", op |-> "none", id |-> "none", clock |-> 0, copy |-> NoEntry,
          raced |-> FALSE]

ConversationsInit ==
  /\ kind \in {"conversations", "responses"}
  /\ now = 1
  /\ items = <<>>
  /\ lastCleanup = 0
  /\ request = [c \in Calls |-> Fresh]
  /\ appended = [c \in Calls |-> <<>>]
  /\ overwritten = {} /\ gone = {}

-----------------------------------------------------------------------------
(* The store. *)

Expired(entry, clock) == entry.expiresAt <= clock

\* cleanupExpiredLocked: at most once per interval, by the caller's clock.
Due(clock) == lastCleanup = 0 \/ clock >= lastCleanup + CleanupInterval
Kept(clock) == {id \in DOMAIN items : Due(clock) => ~Expired(items[id], clock)}
Sweep(clock) == lastCleanup' = IF Due(clock) THEN clock ELSE lastCleanup

\* What is left of the store; what leaves it is remembered.
Becomes(store) ==
  /\ items' = store
  /\ gone' = gone \cup (DOMAIN items \ DOMAIN store)

\* An entry that has expired is dropped on sight, swept or not.
Present(id, clock) == id \in Kept(clock) /\ ~Expired(items[id], clock)
Without(id, clock) == Restrict(items, Kept(clock) \ {id})

NotFound(c, clock) ==
  /\ ~Present(request[c].id, clock)
  /\ Becomes(Without(request[c].id, clock))
  /\ Sweep(clock)

\* Oldest first; the order of the names, which decides among equals, is random.
enforceMaxEntries(store) ==
  IF Cardinality(DOMAIN store) <= MaxEntries THEN {store}
  ELSE {Restrict(store, S) : S \in {S \in SUBSET DOMAIN store :
          /\ Cardinality(S) = MaxEntries
          /\ \A a \in S, b \in DOMAIN store \ S : store[b].storedAt <= store[a].storedAt}}

With(store, id, entry) == [k \in DOMAIN store \cup {id} |-> IF k = id THEN entry ELSE store[k]]
-----------------------------------------------------------------------------
(* The handlers. *)

\* The next operation reads the clock, and then asks for the mutex.
Goto(c, at) == request' = [request EXCEPT ![c].at = at, ![c].clock = now]
Ended(c) == [Fresh EXCEPT !.at = "done", !.op = request[c].op]
Ends(c) == request' = [request EXCEPT ![c] = Ended(c)]

Created == {c \in Calls : request[c].op = "create" /\ request[c].at = "done"}

BeginCreate(c) ==
  /\ request[c].at = "idle"
  /\ request' = [request EXCEPT ![c] = [Fresh EXCEPT !.at = "create", !.op = "create", !.id = c,
                                                    !.clock = now]]
  /\ UNCHANGED <<kind, now, storeVars, appended, overwritten>>

\* A conversation is deleted without a look at it; everything else begins with Get.
Begin(c, op, id) ==
  /\ request[c].at = "idle" /\ id \in Created
  /\ op = "turn" => kind = "conversations"
  /\ request' = [request EXCEPT ![c] =
       [Fresh EXCEPT !.at = IF op = "delete" /\ kind = "conversations" THEN "delete" ELSE "get",
                     !.op = op, !.id = id, !.clock = now]]
  /\ UNCHANGED <<kind, now, storeVars, appended, overwritten>>

Create(c) ==
  LET clock == request[c].clock
      entry == [items |-> <<>>, storedAt |-> clock, expiresAt |-> clock + TTL, object |-> c]
  IN
  /\ request[c].at = "create"
  /\ \E store \in enforceMaxEntries(With(Restrict(items, Kept(clock)), c, entry)) : Becomes(store)
  /\ Sweep(clock)
  /\ Ends(c)
  /\ UNCHANGED <<kind, now, appended, overwritten>>

Get(c) ==
  LET id == request[c].id  clock == request[c].clock IN
  /\ request[c].at = "get"
  /\ \/ NotFound(c, clock) /\ Ends(c)
     \/ /\ Present(id, clock)
        /\ Becomes(Restrict(items, Kept(clock)))
        /\ Sweep(clock)
        /\ request' = [request EXCEPT ![c].at = "clone", ![c].copy = items[id], ![c].raced = FALSE]
  /\ UNCHANGED <<kind, now, appended, overwritten>>

\* What follows Get: GetConversation and GetResponse answer; UpdateConversation
\* goes on to Update; the others call the provider first.
AfterGet(c) ==
  CASE request[c].op = "get" -> "done"
    [] request[c].op = "update" /\ kind = "conversations" -> "update"
    [] OTHER -> "call"

\* The copy is made outside the mutex.  If the entry was appended to meanwhile
\* it holds the old items or the new ones, or is read half-written.
Clone(c) ==
  LET id == request[c].id
      same == id \in DOMAIN items /\ items[id].object = request[c].copy.object
  IN
  /\ request[c].at = "clone"
  /\ \/ IF AfterGet(c) = "done" THEN Ends(c) ELSE Goto(c, AfterGet(c))
     \/ /\ AfterGet(c) # "done" /\ request[c].raced /\ same
        /\ request' = [request EXCEPT ![c].at = AfterGet(c), ![c].clock = now, ![c].copy = items[id]]
     \/ request[c].raced /\ Ends(c)
  /\ UNCHANGED <<kind, now, storeVars, appended, overwritten>>

\* A turn that fails is not appended; a response that cannot be cancelled or
\* deleted upstream stays as it is.
ProviderAnswers(c) ==
  /\ request[c].at = "call"
  /\ \/ Goto(c, CASE request[c].op = "turn" -> "append"
                  [] OTHER -> request[c].op)
     \/ Ends(c)
  /\ UNCHANGED <<kind, now, storeVars, appended, overwritten>>

Exchange(c) == << <<c, "input">>, <<c, "output">> >>

\* Bug: the exchange is added to the copy the turn began with.
AppendItemsToCopy(c) ==
  LET id == request[c].id  clock == request[c].clock IN
  /\ request[c].at = "append"
  /\ \/ NotFound(c, clock) /\ UNCHANGED appended
     \/ /\ Present(id, clock)
        /\ Becomes([Restrict(items, Kept(clock)) EXCEPT
                      ![id].items = request[c].copy.items \o Exchange(c)])
        /\ Sweep(clock)
        /\ appended' = [appended EXCEPT ![id] = Append(@, c)]
  /\ Ends(c)
  /\ UNCHANGED <<kind, now, overwritten>>

\* Requests that are copying the entry see it change.
AppendItems(c) ==
  LET id == request[c].id  clock == request[c].clock
      Copying(d) == request[d].at = "clone" /\ id \in DOMAIN items
                    /\ request[d].id = id /\ request[d].copy.object = items[id].object
  IN
  /\ request[c].at = "append"
  /\ \/ NotFound(c, clock) /\ Ends(c) /\ UNCHANGED appended
     \/ /\ Present(id, clock)
        /\ Becomes([Restrict(items, Kept(clock)) EXCEPT ![id].items = @ \o Exchange(c)])
        /\ Sweep(clock)
        /\ appended' = [appended EXCEPT ![id] = Append(@, c)]
        /\ request' = [d \in Calls |->
             IF d = c THEN Ended(c)
             ELSE IF Copying(d) THEN [request[d] EXCEPT !.raced = TRUE]
             ELSE request[d]]
  /\ UNCHANGED <<kind, now, overwritten>>

\* Bug: the copy is stored whether or not its entry is still there.
UpdateUnchecked(c) ==
  LET id == request[c].id  clock == request[c].clock IN
  /\ request[c].at = "update"
  /\ Becomes(With(Restrict(items, Kept(clock)), id, request[c].copy))
  /\ Sweep(clock)
  /\ Ends(c)
  /\ UNCHANGED <<kind, now, appended, overwritten>>

\* The whole copy replaces the entry, with its items and its times.
Update(c) ==
  LET id == request[c].id  clock == request[c].clock IN
  /\ request[c].at = "update"
  /\ \/ NotFound(c, clock) /\ UNCHANGED overwritten
     \/ /\ Present(id, clock)
        /\ Becomes(With(Restrict(items, Kept(clock)), id, [request[c].copy EXCEPT !.object = c]))
        /\ Sweep(clock)
        /\ overwritten' = IF request[c].copy.items = items[id].items THEN overwritten
                          ELSE overwritten \cup {id}
  /\ Ends(c)
  /\ UNCHANGED <<kind, now, appended>>

Delete(c) ==
  /\ request[c].at = "delete"
  /\ Becomes(Without(request[c].id, now))
  /\ Sweep(now)
  /\ Ends(c)
  /\ UNCHANGED <<kind, now, appended, overwritten>>

Tick ==
  /\ now < MaxTime /\ now' = now + 1
  /\ UNCHANGED <<kind, storeVars, request, appended, overwritten>>

Serve(c) ==
  \/ Create(c) \/ Get(c) \/ Clone(c) \/ ProviderAnswers(c)
  \/ AppendItems(c) \/ Update(c) \/ Delete(c)

ConversationsNext ==
  \/ \E c \in Calls : BeginCreate(c) \/ Serve(c)
  \/ \E c, id \in Calls, op \in {"get", "turn", "update", "delete"} : Begin(c, op, id)
  \/ Tick

ConversationsSpec == ConversationsInit /\ [][ConversationsNext]_conversationVars
-----------------------------------------------------------------------------
Entries == [items : Seq(Calls \X {"input", "output"}), storedAt : Nat, expiresAt : Nat,
            object : Calls \cup {"none"}]

CallStates == [at : {"idle", "create", "get", "clone", "call", "append", "update", "delete", "done"},
             op : {"none", "create", "get", "turn", "update", "delete"},
             id : Calls \cup {"none"}, clock : Nat, copy : Entries, raced : BOOLEAN]

ConversationsTypeOK ==
  /\ kind \in {"conversations", "responses"}
  /\ now \in 1..MaxTime
  /\ DOMAIN items \subseteq Calls /\ \A id \in DOMAIN items : items[id] \in Entries
  /\ lastCleanup \in 0..MaxTime
  /\ request \in [Calls -> CallStates]
  /\ appended \in [Calls -> Seq(Calls)]
  /\ overwritten \subseteq Calls /\ gone \subseteq Calls

\* The items are the exchanges of these turns, each whole, and nothing else.
AreExchangesOf(its, turns) ==
  /\ Len(its) = 2 * Len(turns)
  /\ \A k \in DOMAIN turns : <<its[2 * k - 1], its[2 * k]>> = Exchange(turns[k])

\* A stored conversation holds every exchange that was appended to it, whole
\* and in the order of their completion, however many turns ran at once; save
\* that a metadata update puts back the items it read.
KeptUnlessOverwritten ==
  \A id \in DOMAIN items \ overwritten : AreExchangesOf(items[id].items, appended[id])

\* What was deleted, evicted or has expired does not come back, though a
\* handler may still hold a copy of it and write that copy; and nothing that
\* is updated or appended to is kept longer than it was promised.
GoneStaysGone ==
  /\ gone \cap DOMAIN items = {}
  /\ \A id \in DOMAIN items : items[id].expiresAt = items[id].storedAt + TTL
  /\ Cardinality(DOMAIN items) <= MaxEntries

\* Its inductive strengthening: what a handler still holds was kept no longer
\* either, and an entry is created once.
Timed(entry) == entry.expiresAt = entry.storedAt + TTL

EntriesInv ==
  /\ DOMAIN items \subseteq Calls /\ IsFiniteSet(DOMAIN items)
  /\ \A id \in DOMAIN items : items[id] \in Entries
  /\ GoneStaysGone

HandlersInv ==
  /\ request \in [Calls -> CallStates] /\ now \in Nat
  /\ \A c \in Calls : request[c].at \in {"idle", "create"} => c \notin DOMAIN items \cup gone
  /\ \A c \in Calls : request[c].at \in {"clone", "call", "update"} => Timed(request[c].copy)
  /\ \A c \in Calls : request[c].at \in {"get", "clone", "call"} =>
       request[c].op \in {"get", "turn", "update", "delete"}

\* Nothing was appended to what was never stored.
ExchangesInv ==
  /\ appended \in [Calls -> Seq(Calls)]
  /\ \A id \in Calls \ (DOMAIN items \cup gone) : appended[id] = <<>>
  /\ KeptUnlessOverwritten

ConversationsInv == EntriesInv /\ HandlersInv

\* Updating the metadata leaves the exchanges alone (the comment on
\* UpdateConversation).  It does not: it writes back the whole conversation it
\* read, without the turns completed meanwhile.
ExchangesKept == \A id \in DOMAIN items : AreExchangesOf(items[id].items, appended[id])
=============================================================================
