------------------------------ MODULE TeamSync ------------------------------
(***************************************************************************)
(* Devices that work offline and synchronise with Team Core                *)
(* (internal/teamsync, internal/teamapi).  A device keeps a replica of the *)
(* accepted log, an outbox of batches, and the cursor it has pulled to.    *)
(* Engine.Sync is one attempt: status, pull, import, reconcile the outbox, *)
(* save the cursor, preflight, then push the pending batches one by one.   *)
(* Every file is written by a rename, so a step writes whole or not at     *)
(* all; an attempt can end between any two steps, and an answer of Team    *)
(* Core can be lost, or its request be processed after the client gave up. *)
(***************************************************************************)
EXTENDS TeamCore

CONSTANTS Devices,
          Sessions,   \* the engines: the Local API's, a CLI command's
          DeviceOf,   \* the device each engine runs on
          ActorOf,    \* the actor each device authenticates as
          Work,       \* what each device does: a sequence of [name, steps]
          Transport,  \* "direct": verdicts arrive as results;
                      \* "http": teamapi.Client turns them into errors
          TwoCores,   \* whether another process shares the accepted log
          MaxStops    \* bound: attempts cut short

VARIABLES local,    \* the replica: the device's events.jsonl
          outbox,   \* the records of the device's outbox.jsonl
          cursor,   \* the cursor in the device's team.json
          written,  \* how much of Work[d] is in the outbox
          pc,       \* where each engine is in Sync
          seen,     \* the cursor in the engine's memory
          pulled,   \* the events it pulled after seen
          writes,   \* the records whose batches it is about to settle
          sends,    \* the records whose batches it is about to push
          answer,   \* the answer to its push, None before
          late,     \* batches whose request is still on its way
          stops     \* attempts cut short so far

device == <<local, outbox, cursor, written>>
memory == <<pulled, writes, sends, answer>>
engine == <<pc, seen, memory>>
vars == <<core, device, engine, late, stops>>

ASSUME SyncAssumption ==
  /\ DeviceOf \in [Sessions -> Devices] /\ ActorOf \in [Devices -> Actors]
  /\ Transport \in {"direct", "http"} /\ TwoCores \in BOOLEAN
  /\ MaxStops \in Nat

\* A device's work is a sequence of batches of at least one event.
ASSUME WorkAssumption ==
  \A d \in Devices :
    /\ IsSequence(Work[d])
    /\ \A k \in DOMAIN Work[d] :
         IsSequence(Work[d][k].steps) /\ Work[d][k].steps # <<>>

\* The ids are drawn at random: no two batches share a name, and neither the seed
\* nor the service uses one of them.
ASSUME NamesAssumption ==
  /\ \A c, d \in Devices : \A j \in DOMAIN Work[c], k \in DOMAIN Work[d] :
       Work[c][j].name = Work[d][k].name => c = d /\ j = k
  /\ \A d \in Devices : \A k \in DOMAIN Work[d] :
       /\ Work[d][k].name # "svc"
       /\ \A i \in DOMAIN Seed :
            Seed[i].batch # <<Work[d][k].name, 0>> /\ Seed[i].id[1] # Work[d][k].name
  /\ \A i \in DOMAIN Seed : Seed[i].id[1] # "svc"
  /\ \A i, j \in DOMAIN Seed : Seed[i].id = Seed[j].id => i = j

\* Team Core is set up, and every device holds a copy of its project.
Init ==
  /\ accepted = Seed /\ canonical = Seed /\ manifest = Reduce(Seed).goal
  /\ mode = "writable" /\ now = 0 /\ faults = 0
  /\ local = [d \in Devices |-> Seed]
  /\ outbox = [d \in Devices |-> <<>>]
  /\ cursor = [d \in Devices |-> 0]
  /\ written = [d \in Devices |-> 0]
  /\ pc = [s \in Sessions |-> "idle"]
  /\ seen = [s \in Sessions |-> 0]
  /\ pulled = [s \in Sessions |-> <<>>]
  /\ writes = [s \in Sessions |-> {}]
  /\ sends = [s \in Sessions |-> {}]
  /\ answer = [s \in Sessions |-> None]
  /\ late = {}
  /\ stops = 0
-----------------------------------------------------------------------------
(***************************************************************************)
(* The outbox is a file of records, and the last record of a batch is its  *)
(* entry: ReadAll lists the entries by the place of that record.           *)
(***************************************************************************)
EntrySwapped(batch, status, how) ==   \* the code where the status belongs
  [batch |-> batch, status |-> how, how |-> status, from |-> 0, to |-> 0]

Entry(batch, status, how) ==
  [batch |-> batch, status |-> status, how |-> how, from |-> 0, to |-> 0]

IsEntry(d, i) ==
  \A j \in DOMAIN outbox[d] :
    j > i => outbox[d][j].batch.id # outbox[d][i].batch.id

EntriesAt(d) == {i \in DOMAIN outbox[d] : IsEntry(d, i)}

PendingAt(d) == {i \in EntriesAt(d) : outbox[d][i].status = "pending"}

\* Update: a terminal entry only takes the result it already has.
CanUpdate(d, entry) ==
  \E i \in EntriesAt(d) :
    /\ outbox[d][i].batch.id = entry.batch.id
    /\ outbox[d][i].status = "pending" \/ outbox[d][i] = entry

Update(d, entry) ==
  outbox' = IF \E i \in EntriesAt(d) : outbox[d][i] = entry THEN outbox
            ELSE [outbox EXCEPT ![d] = Append(@, entry)]

(***************************************************************************)
(* The replica: ImportAcceptedBatch of events from position n on.          *)
(***************************************************************************)
Importable(replica, n, events) ==
  /\ events # <<>> /\ n \in 1..(Len(replica) + 1)
  /\ \A i \in DOMAIN events :
       IF n + i - 1 <= Len(replica)
       THEN replica[n + i - 1] = events[i]
       ELSE \A k \in DOMAIN replica : replica[k].id # events[i].id

ImportedAgain(replica, n, events) == replica \o events   \* not idempotent

ImportedNothing(replica, n, events) == replica   \* the write is lost

Imported(replica, n, events) ==
  IF n + Len(events) - 1 <= Len(replica) THEN replica
  ELSE SubSeq(replica, 1, n - 1) \o events

\* A replica with the batches of some outbox records after it.
Overlay(d, chosen, records) ==
  local[d] \o FlattenSeq([i \in 1..records |->
                IF i \in chosen THEN outbox[d][i].batch.events ELSE <<>>])

\* What the app service works on: the replica and the pending batches.
Projection(d) == Overlay(d, PendingAt(d), Len(outbox[d]))

(***************************************************************************)
(* Repository.Append: the next batch of the device, if it reduces on the   *)
(* projection.  Its base is the length of the projection.                  *)
(***************************************************************************)
OfflineForbidden == {"goal.change.approved", "lease.issued", "evidence.verified",
                     "task.completed", "conflict.resolved"}

NextBatch(d) ==
  LET item == Work[d][written[d] + 1]
      base == Len(Projection(d))
  IN [id |-> <<item.name, 0>>, base |-> base,
      events |-> [i \in DOMAIN item.steps |->
                    NewEvent(item.name, i, base, Reduce(Projection(d)).goal,
                             ActorOf[d], item.steps[i])]]

LocalAppend(d) ==
  /\ written[d] < Len(Work[d])
  /\ \A e \in ToSet(NextBatch(d).events) : e.type \notin OfflineForbidden
  /\ Reducible(Projection(d) \o NextBatch(d).events)
  /\ outbox' = [outbox EXCEPT ![d] =
                  Append(@, Entry(NextBatch(d), "pending", "written"))]
  /\ written' = [written EXCEPT ![d] = @ + 1]
  /\ UNCHANGED <<core, local, cursor, engine, late, stops>>
-----------------------------------------------------------------------------
(***************************************************************************)
(* One attempt of engine s on its device.                                  *)
(***************************************************************************)
At(s, label) == pc[s] = label

Goto(s, label) == pc' = [pc EXCEPT ![s] = label]

\* The attempt ends; what it keeps is the cursor and the last answer heard.
Leave(s, heard) ==
  /\ Goto(s, "idle")
  /\ pulled' = [pulled EXCEPT ![s] = <<>>]
  /\ writes' = [writes EXCEPT ![s] = {}]
  /\ sends' = [sends EXCEPT ![s] = {}]
  /\ answer' = [answer EXCEPT ![s] = heard]

End(s) == Leave(s, None) /\ UNCHANGED seen

First(i, records) == i \in records /\ \A j \in records : i <= j

\* Status.  A command's engine reads the saved cursor, a server's has its own.
Start(s) ==
  /\ At(s, "idle")
  /\ mode = "writable" /\ Reducible(accepted)
  /\ Goto(s, "pull")
  /\ seen' \in {seen, [seen EXCEPT ![s] = cursor[DeviceOf[s]]]}
  /\ answer' = [answer EXCEPT ![s] = None]
  /\ UNCHANGED <<core, device, pulled, writes, sends, late, stops>>

Pull(s) ==
  /\ At(s, "pull") /\ mode # "down"
  /\ pulled' = [pulled EXCEPT ![s] = Since(seen[s])]
  /\ Goto(s, IF Since(seen[s]) = <<>> THEN "preflight" ELSE "import")
  /\ UNCHANGED <<core, device, seen, writes, sends, answer, late, stops>>

Import(s) ==
  LET d == DeviceOf[s] IN
  /\ At(s, "import")
  /\ IF Importable(local[d], seen[s] + 1, pulled[s])
     THEN /\ local' = [local EXCEPT ![d] = Imported(@, seen[s] + 1, pulled[s])]
          /\ Goto(s, "reconcile")
          /\ UNCHANGED <<seen, memory>>
     ELSE End(s) /\ UNCHANGED local
  /\ UNCHANGED <<core, outbox, cursor, written, late, stops>>

PulledUnnoticed(s, batch) == FALSE   \* no reconciliation

\* reconcilePulled: the pending batches whose events were all pulled.
WasPulled(s, batch) ==
  \A e \in ToSet(batch.events) : \E p \in ToSet(pulled[s]) : p.id = e.id

Reconcile(s) ==
  LET d == DeviceOf[s] IN
  /\ At(s, "reconcile")
  /\ writes' = [writes EXCEPT ![s] =
                  {i \in PendingAt(d) : WasPulled(s, outbox[d][i].batch)}]
  /\ Goto(s, "settle")
  /\ UNCHANGED <<core, device, seen, pulled, sends, answer, late, stops>>

ReconciledFromCursor(s, batch) ==   \* counts the range from the cursor
  LET at == {i \in DOMAIN pulled[s] :
               \E e \in ToSet(batch.events) : pulled[s][i].id = e.id}
  IN [Entry(batch, "accepted", "pulled") EXCEPT
        !.from = seen[s] + Min(at) - 1, !.to = seen[s] + Max(at) - 1]

\* The entry that says where in the pulled events a batch is.
Reconciled(s, batch) ==
  LET at == {i \in DOMAIN pulled[s] :
               \E e \in ToSet(batch.events) : pulled[s][i].id = e.id}
  IN [Entry(batch, "accepted", "pulled") EXCEPT
        !.from = seen[s] + Min(at), !.to = seen[s] + Max(at)]

\* The first of the records to settle; one that changed ends the attempt.
SettleFirst(s, EntryFor(_)) ==
  LET d == DeviceOf[s] IN
  /\ \E i \in writes[s] :
       /\ First(i, writes[s])
       /\ IF CanUpdate(d, EntryFor(outbox[d][i].batch))
          THEN /\ Update(d, EntryFor(outbox[d][i].batch))
               /\ writes' = [writes EXCEPT ![s] = @ \ {i}]
               /\ UNCHANGED <<pc, seen, pulled, sends, answer>>
          ELSE End(s) /\ UNCHANGED outbox
  /\ UNCHANGED <<core, local, cursor, written, late, stops>>

Settle(s) ==
  /\ At(s, "settle")
  /\ LET Pulled(batch) == Reconciled(s, batch) IN SettleFirst(s, Pulled)

\* SaveConfig; when it fails the engine keeps the new cursor in memory.
SaveCursor(s, n, label) ==
  /\ seen' = [seen EXCEPT ![s] = n]
  /\ \/ /\ cursor' = [cursor EXCEPT ![DeviceOf[s]] = n]
        /\ Goto(s, label)
        /\ pulled' = [pulled EXCEPT ![s] = <<>>]
        /\ answer' = [answer EXCEPT ![s] = None]
        /\ UNCHANGED <<writes, sends, stops>>
     \/ /\ stops < MaxStops /\ stops' = stops + 1
        /\ Leave(s, None)
        /\ UNCHANGED cursor
  /\ UNCHANGED <<core, local, outbox, written, late>>

SavePulledFirst(s) ==   \* before the entries are settled
  At(s, "settle") /\ SaveCursor(s, seen[s] + Len(pulled[s]), "preflight")

SavePulled(s) ==
  /\ At(s, "settle") /\ writes[s] = {}
  /\ SaveCursor(s, seen[s] + Len(pulled[s]), "preflight")

(***************************************************************************)
(* preflightPending: of the pending batches, in outbox order, those that   *)
(* reduce on the replica and the sendable ones before them are sent; the   *)
(* others are rejected without asking Team Core.                           *)
(***************************************************************************)
Preflight(s) ==
  LET d == DeviceOf[s] IN
  /\ At(s, "preflight")
  /\ \E sendable \in SUBSET PendingAt(d) :
       /\ \A i \in PendingAt(d) :
            i \in sendable <=>
              Reducible(Overlay(d, sendable, i - 1) \o outbox[d][i].batch.events)
       /\ sends' = [sends EXCEPT ![s] = sendable]
       /\ writes' = [writes EXCEPT ![s] = PendingAt(d) \ sendable]
  /\ Goto(s, "screen")
  /\ UNCHANGED <<core, device, seen, pulled, answer, late, stops>>

Screen(s) ==
  /\ At(s, "screen")
  /\ LET Refused(batch) == Entry(batch, "rejected", "preflight")
     IN SettleFirst(s, Refused)

Screened(s) ==
  /\ At(s, "screen") /\ writes[s] = {}
  /\ Goto(s, "push")
  /\ UNCHANGED <<core, device, seen, memory, late, stops>>
-----------------------------------------------------------------------------
(***************************************************************************)
(* What the engine does with an answer.  teamapi.Client returns a rejection*)
(* or a conflict with an error, and the engine takes any error for being   *)
(* offline: the attempt ends and the entry stays pending.                  *)
(***************************************************************************)
ReportedUnlessConflict(reply) == reply.status # "conflict"

\* Does the verdict arrive as a result?
Reported(reply) == Transport = "direct" \/ reply.status = "accepted"

Hear(s, batch, reply) ==
  LET verdict == [Entry(batch, reply.status, "pushed") EXCEPT
                    !.from = reply.from, !.to = reply.to]
  IN \/ /\ reply.status = "accepted"
        /\ answer' = [answer EXCEPT ![s] = verdict]
        /\ Goto(s, "answered")
        /\ UNCHANGED <<seen, pulled, writes, sends>>
     \/ /\ reply.status \in {"rejected", "conflict"} /\ Reported(reply)
        /\ answer' = [answer EXCEPT ![s] = verdict]
        /\ Goto(s, "record")
        /\ UNCHANGED <<seen, pulled, writes, sends>>
     \/ /\ reply.status \in {"rejected", "conflict"} /\ ~Reported(reply)
        /\ Leave(s, verdict) /\ UNCHANGED seen
     \/ /\ reply.status = "error"
        /\ End(s)

\* The batch the engine pushes next.
Sending(s, batch) ==
  /\ At(s, "push")
  /\ \E i \in sends[s] :
       First(i, sends[s]) /\ batch = outbox[DeviceOf[s]][i].batch

ToSend(s) == {outbox[DeviceOf[s]][i].batch : i \in sends[s]}

\* Team Core handles the push; a crash or an error after the append loses the answer.
Push(s) ==
  /\ mode # "down"
  /\ \E batch \in ToSend(s) :
       /\ Sending(s, batch)
       /\ \E reply \in {Verdict(batch)} :
            /\ Perform(reply)
            /\ IF Replied THEN Hear(s, batch, reply) ELSE End(s)
  /\ UNCHANGED <<device, late, stops>>

\* Team Core handles the push, and its answer is lost.
PushUnheard(s) ==
  /\ mode # "down"
  /\ stops < MaxStops /\ stops' = stops + 1
  /\ \E batch \in ToSend(s) :
       Sending(s, batch) /\ \E reply \in {Verdict(batch)} : Perform(reply)
  /\ End(s)
  /\ UNCHANGED <<device, late>>

\* The client gives up; the request may still be on its way.
PushLate(s) ==
  /\ stops < MaxStops /\ stops' = stops + 1
  /\ \E batch \in ToSend(s) :
       Sending(s, batch) /\ late' = late \cup {batch}
  /\ End(s)
  /\ UNCHANGED <<core, device>>

DeliverLate ==
  /\ mode # "down"
  /\ \E batch \in late :
       /\ \E reply \in {Verdict(batch)} : Perform(reply)
       /\ late' = late \ {batch}
  /\ UNCHANGED <<device, engine, stops>>

(***************************************************************************)
(* Another process appended between Team Core's read and its append: the   *)
(* batch is not stored, and RecordRetryableResult keeps it pending, with a *)
(* new record unless the last one says the same.                           *)
(***************************************************************************)
PushStale(s) ==
  /\ TwoCores /\ mode = "writable"
  /\ Len(accepted) > seen[s]
  /\ \E batch \in ToSend(s) :
       /\ Sending(s, batch)
       /\ StoredAt(batch) = {}
       /\ \E i \in PendingAt(DeviceOf[s]) : outbox[DeviceOf[s]][i].batch = batch
       /\ Update(DeviceOf[s], Entry(batch, "pending", "stale"))
  /\ End(s)
  /\ UNCHANGED <<core, local, cursor, written, late, stops>>

ImportPushed(s) ==
  LET d == DeviceOf[s]
      events == SubSeq(accepted, answer[s].from, answer[s].to)
  IN /\ At(s, "answered")
     /\ IF Importable(local[d], answer[s].from, events)
        THEN /\ local' = [local EXCEPT ![d] =
                            Imported(@, answer[s].from, events)]
             /\ Goto(s, "record")
             /\ UNCHANGED <<seen, memory>>
        ELSE End(s) /\ UNCHANGED local
     /\ UNCHANGED <<core, outbox, cursor, written, late, stops>>

\* Update with the verdict; only an acceptance can move the cursor.
RecordVerdict(s) ==
  LET d == DeviceOf[s] IN
  /\ At(s, "record")
  /\ IF CanUpdate(d, answer[s])
     THEN /\ Update(d, answer[s])
          /\ \E i \in sends[s] : First(i, sends[s])
               /\ sends' = [sends EXCEPT ![s] = @ \ {i}]
          /\ Goto(s, IF answer[s].to > seen[s] THEN "advance" ELSE "push")
          /\ UNCHANGED <<seen, pulled, writes, answer>>
     ELSE End(s) /\ UNCHANGED outbox
  /\ UNCHANGED <<core, local, cursor, written, late, stops>>

AdvanceTooFar(s) == At(s, "advance") /\ SaveCursor(s, answer[s].to + 1, "push")

Advance(s) == At(s, "advance") /\ SaveCursor(s, answer[s].to, "push")

Finish(s) ==
  /\ At(s, "push") /\ sends[s] = {}
  /\ End(s)
  /\ UNCHANGED <<core, device, late, stops>>

\* Team Core does not answer.
Offline(s) ==
  /\ At(s, "pull") \/ At(s, "push")
  /\ mode = "down"
  /\ End(s)
  /\ UNCHANGED <<core, device, late, stops>>

\* The attempt is cancelled, its process dies, or the network fails it.
Stop(s) ==
  /\ ~At(s, "idle")
  /\ stops < MaxStops /\ stops' = stops + 1
  /\ End(s)
  /\ UNCHANGED <<core, device, late>>

Service ==
  /\ Restart \/ Crash \/ Tick
  /\ UNCHANGED <<device, engine, late, stops>>

Attempt(s) ==
  \/ Start(s) \/ Pull(s) \/ Import(s) \/ Reconcile(s) \/ Settle(s)
  \/ SavePulled(s) \/ Preflight(s) \/ Screen(s) \/ Screened(s)
  \/ Push(s) \/ ImportPushed(s) \/ RecordVerdict(s) \/ Advance(s)
  \/ Finish(s) \/ Offline(s)

Next ==
  \/ \E d \in Devices : LocalAppend(d)
  \/ \E s \in Sessions :
       Attempt(s) \/ PushUnheard(s) \/ PushLate(s) \/ PushStale(s) \/ Stop(s)
  \/ DeliverLate
  \/ Service

Spec == Init /\ [][Next]_vars

\* A user syncs again, and an engine that runs goes on.
FairSpec == Spec /\ \A s \in Sessions : WF_vars(Attempt(s))
-----------------------------------------------------------------------------
Labels == {"idle", "pull", "import", "reconcile", "settle", "preflight",
           "screen", "push", "answered", "record", "advance"}

Statuses == {"pending", "accepted", "rejected", "conflict"}

(***************************************************************************)
(* Type correctness of the devices and their engines.                      *)
(***************************************************************************)
TypeOK ==
  /\ mode \in Modes /\ stops \in 0..MaxStops
  /\ pc \in [Sessions -> Labels]
  /\ cursor \in [Devices -> Nat] /\ seen \in [Sessions -> Nat]
  /\ \A d \in Devices : \A i \in DOMAIN outbox[d] :
       outbox[d][i].status \in Statuses
  /\ \A s \in Sessions :
       writes[s] \cup sends[s] \subseteq DOMAIN outbox[DeviceOf[s]]

\* The entries of a device, as ReadAll lists them.
Entries(d) == {outbox[d][i] : i \in EntriesAt(d)}

(***************************************************************************)
(* A replica is a prefix of the accepted log, whatever was pulled, pushed, *)
(* lost, or imported twice (Engine.Sync, ImportAcceptedBatch).             *)
(***************************************************************************)
ReplicaPrefix == \A d \in Devices : IsPrefix(local[d], accepted)

(***************************************************************************)
(* The outbox tells the truth about acceptance: an accepted entry names    *)
(* the range of the replica that holds its batch.                          *)
(***************************************************************************)
AcceptedIsInReplica ==
  \A d \in Devices : \A e \in Entries(d) :
    e.status = "accepted" => SubSeq(local[d], e.from, e.to) = e.batch.events

(***************************************************************************)
(* An entry the outbox gives up on was not accepted.                       *)
(***************************************************************************)
RejectedIsNotAccepted ==
  \A d \in Devices : \A e \in Entries(d) :
    e.status \in {"rejected", "conflict"} =>
      \A i \in DOMAIN accepted : accepted[i].batch # e.batch.id

(***************************************************************************)
(* No accepted batch is hidden behind the saved cursor while its entry is  *)
(* pending: a later pull would never reconcile it (engine.go Sync,         *)
(* "Reconciliation must precede cursor persistence").                      *)
(***************************************************************************)
NothingHidden ==
  \A d \in Devices : \A k \in PendingAt(d) : \A i \in DOMAIN accepted :
    i <= cursor[d] => accepted[i].batch # outbox[d][k].batch.id

(***************************************************************************)
(* The cursor never passes what the device has imported, so that the next  *)
(* pull leaves no gap.                                                     *)
(***************************************************************************)
CursorInReplica ==
  /\ \A d \in Devices : cursor[d] <= Len(local[d])
  /\ \A s \in Sessions : seen[s] <= Len(local[DeviceOf[s]])

(***************************************************************************)
(* The projection the app service works on holds every event once when no  *)
(* attempt is under way (Repository, "accepted history plus local Pending  *)
(* batches").                                                              *)
(***************************************************************************)
ProjectionDistinct ==
  \A d \in Devices :
    (\A s \in Sessions : DeviceOf[s] = d => At(s, "idle")) =>
      IsInjective(Projection(d))

(***************************************************************************)
(* An attempt that returned had recorded the verdict it was given          *)
(* (TestSyncPersistsRejectedAndConflictResultsBeforeReturning).            *)
(***************************************************************************)
VerdictRecorded ==
  \A s \in Sessions :
    At(s, "idle") /\ answer[s] # None =>
      \A i \in PendingAt(DeviceOf[s]) :
        outbox[DeviceOf[s]][i].batch # answer[s].batch

(***************************************************************************)
(* The devices implement a shared append-only log: the accepted log is the *)
(* log, the replicas are the replicas, and the accepted entries of the     *)
(* outbox are what a device holds to be confirmed.                         *)
(***************************************************************************)
ConfirmedBy(d) ==
  {ToSet(e.batch.events) : e \in {x \in Entries(d) : x.status = "accepted"}}

Shared == INSTANCE SharedLog
            WITH Nodes <- Devices, log <- accepted, replica <- local,
                 confirmed <- [d \in Devices |-> ConfirmedBy(d)]

ImplementsSharedLog == Shared!Spec

(***************************************************************************)
(* Whatever answer was lost, a batch that was accepted is found accepted   *)
(* by its device in the end (reconcilePulled).                             *)
(***************************************************************************)
AcceptanceReachesDevice ==
  \A d \in Devices : \A k \in DOMAIN Work[d] :
    LET id == <<Work[d][k].name, 0>> IN
    (\E i \in DOMAIN accepted : accepted[i].batch = id) ~>
      (\E e \in Entries(d) : e.batch.id = id /\ e.status = "accepted")

(***************************************************************************)
(* Every batch that was written is judged in the end, by the preflight or  *)
(* by Team Core.                                                           *)
(***************************************************************************)
EveryBatchJudged ==
  \A d \in Devices : (PendingAt(d) # {}) ~> (PendingAt(d) = {})
=============================================================================
