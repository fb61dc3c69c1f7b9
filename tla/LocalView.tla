------------------------------ MODULE LocalView ------------------------------
(***************************************************************************)
(* What a Workbench sees of the log: the Local API appends to the log,     *)
(* rebuilds an index of it, and tells the page what it read; the page      *)
(* fetches the project again whenever it hears anything, and shows         *)
(* whatever arrived last.  Other processes append too, and on a device the *)
(* log ends in batches that are pending, which a sync adopts or drops.     *)
(* The log is replayed nowhere in here: every version of it is taken to    *)
(* reduce.                                                                 *)
(***************************************************************************)
EXTENDS Integers, Sequences, SequencesExt

CONSTANTS
  Views,       \* the requests the server handles at one time
  MaxVersions, \* bound on the changes of the log
  MaxFetches   \* bound on the fetches a page has under way, and on the messages on their way to it

VARIABLES
  eventLog, \* the accepted events and the pending ones
  index,    \* the events of the index file, and whether the server may use it
  requests, \* per request, how far it is
  page      \* one page: its stream, its fetches, and what it shows

viewVars == <<eventLog, index, requests, page>>

NoRequest == [phase |-> "idle"]

\* On a device, whose repository is the projection of the team's log and its outbox,
\* or elsewhere.
ViewInit ==
  /\ \E joined \in BOOLEAN : eventLog =
       [joined |-> joined, accepted |-> <<0>>, pending |-> <<>>, version |-> 0, shrunk |-> FALSE]
  /\ index = [events |-> <<>>, open |-> TRUE]
  /\ requests = [v \in Views |-> NoRequest]
  /\ page = [stream |-> FALSE, inbox |-> <<>>, wire |-> <<>>, fetches |-> <<>>,
             shown |-> 0, answered |-> FALSE, told |-> 0]

Projection == eventLog.accepted \o eventLog.pending
-----------------------------------------------------------------------------
(* The log: an event is numbered by the version it makes. *)
WithEvent(p) ==
  LET e == p.version + 1
  IN IF p.joined THEN [p EXCEPT !.version = e, !.pending = Append(@, e)]
     ELSE [p EXCEPT !.version = e, !.accepted = Append(@, e)]

\* A sync imports what the team accepted: another's event, or the first pending one, which
\* stays pending until the outbox is settled.
ImportAccepted ==
  /\ eventLog.joined /\ eventLog.version < MaxVersions
  /\ \E e \in {eventLog.version + 1} \cup
              (IF eventLog.pending = <<>> THEN {} ELSE {Head(eventLog.pending)} \ ToSet(eventLog.accepted)) :
       eventLog' = [eventLog EXCEPT !.version = @ + 1, !.accepted = Append(@, e)]
  /\ UNCHANGED <<index, requests, page>>

\* The outbox says of the first pending batch that it is accepted or refused.
SettlePending ==
  /\ eventLog.pending # <<>> /\ eventLog.version < MaxVersions
  /\ eventLog' = [eventLog EXCEPT !.version = @ + 1, !.pending = Tail(@), !.shrunk = TRUE]
  /\ UNCHANGED <<index, requests, page>>

\* A command of another process.
AppendElsewhere ==
  /\ eventLog.version < MaxVersions
  /\ eventLog' = WithEvent(eventLog)
  /\ UNCHANGED <<index, requests, page>>
-----------------------------------------------------------------------------
(* The index.  A watermark is the number of events: sequence numbers follow the place, *)
(* and no event here holds changes.                                                    *)
WatermarkForEvents(events) == Len(events)

IsOlderThan(events, others) == WatermarkForEvents(events) < WatermarkForEvents(others)

\* What a rebuild leaves: an index that is newer by its watermark is kept.
Rebuild(events) == IF IsOlderThan(events, index.events) THEN index.events ELSE events

Proceeding(v, next) == requests' = [requests EXCEPT ![v] = next]

\* refreshMu is held from the reading of the log to the end of the rebuild.
RefreshIndex(v) ==
  /\ requests[v].phase \in {"written", "asked"}
  /\ \A w \in Views : requests[w].phase # "rebuilding"
  /\ Proceeding(v, [requests[v] EXCEPT !.phase = IF index.open THEN "rebuilding" ELSE "refreshed",
                                      !.read = Projection, !.fresh = TRUE])
  /\ UNCHANGED <<eventLog, index, page>>

\* The index has the watermark of what was read, is rebuilt to it, or the rebuild fails.
RebuildIndex(v) ==
  LET read == requests[v].read
      fits == WatermarkForEvents(index.events) = WatermarkForEvents(read)
  IN /\ requests[v].phase = "rebuilding"
     /\ \/ /\ index' = IF fits THEN index ELSE [index EXCEPT !.events = Rebuild(read)]
           /\ Proceeding(v, [requests[v] EXCEPT !.phase = "refreshed", !.read = <<>>,
                               !.fresh = WatermarkForEvents(index'.events) = WatermarkForEvents(read)])
        \/ /\ ~fits
           /\ Proceeding(v, [requests[v] EXCEPT !.phase = "refreshed", !.read = <<>>, !.fresh = FALSE])
           /\ UNCHANGED index
     /\ UNCHANGED <<eventLog, page>>

\* What the server has for the page, and what is on its way to it, is lost with the stream.
Disconnected(p) == [p EXCEPT !.stream = FALSE, !.inbox = <<>>, !.wire = <<>>]

\* The server stops, gives up the index, and its streams end; requests it has begun go on.
CloseServer ==
  /\ index.open
  /\ index' = [index EXCEPT !.open = FALSE]
  /\ page' = Disconnected(page)
  /\ UNCHANGED <<eventLog, requests>>
\* Another server is started on the log.
OpenServer ==
  /\ ~index.open /\ \A v \in Views : requests[v].phase \in {"idle", "answered"}
  /\ index' = [index EXCEPT !.open = TRUE]
  /\ UNCHANGED <<eventLog, requests, page>>
-----------------------------------------------------------------------------
(* A history request. *)
AskHistory(v) ==
  /\ requests[v].phase \in {"idle", "answered"} /\ index.open
  /\ Proceeding(v, [phase |-> "asked", kind |-> "history", asked |-> Projection,
                    read |-> <<>>, fresh |-> FALSE])
  /\ UNCHANGED <<eventLog, index, page>>

\* Mutant: the index is searched although it could not be refreshed.
AnswersAnyway(v) == index.open /\ index.events # <<>>

\* The index answers if it was refreshed, is still open, and has anything.
IndexAnswers(v) == requests[v].fresh /\ index.open /\ index.events # <<>>

\* The log answers if the index does not.  Of an answer, what it lacks is noted: the events
\* the log had when it was asked.
AnswerHistory(v) ==
  /\ requests[v].phase = "refreshed" /\ requests[v].kind = "history"
  /\ LET answer == IF IndexAnswers(v) THEN index.events ELSE Projection
     IN Proceeding(v, [phase |-> "answered",
                       missing |-> ToSet(requests[v].asked) \ ToSet(answer)])
  /\ UNCHANGED <<eventLog, index, page>>
-----------------------------------------------------------------------------
(* A request that writes: it appends, and tells the page what it reads afterwards. *)
WriteRequest(v) ==
  /\ requests[v].phase \in {"idle", "answered"} /\ index.open /\ eventLog.version < MaxVersions
  /\ eventLog' = WithEvent(eventLog)
  /\ Proceeding(v, [phase |-> "written", kind |-> "write", read |-> <<>>, fresh |-> FALSE])
  /\ UNCHANGED <<index, page>>

Snapshot(v) ==
  /\ requests[v].phase = "refreshed" /\ requests[v].kind = "write"
  /\ Proceeding(v, [phase |-> "telling", version |-> eventLog.version])
  /\ UNCHANGED <<eventLog, index, page>>

\* A message is dropped while the stream has not taken the one before.
Offer(inbox, message) == IF inbox = <<>> THEN <<message>> ELSE inbox

\* The snapshots of two requests may be told in the other order.
BroadcastCurrentState(v) ==
  LET version == requests[v].version
  IN /\ requests[v].phase = "telling"
     /\ page' = [page EXCEPT !.told = Max({@, version}),
                             !.inbox = IF page.stream THEN Offer(@, version) ELSE <<>>]
     /\ Proceeding(v, NoRequest)
     /\ UNCHANGED <<eventLog, index>>

\* The client is gone, and whatever the request still had to do with it: a write is then
\* told to nobody.
ClientGone(v) ==
  /\ requests[v].phase \notin {"idle", "answered", "rebuilding"}
  /\ Proceeding(v, NoRequest)
  /\ UNCHANGED <<eventLog, index, page>>
-----------------------------------------------------------------------------
(* The page.  It shows what came last, an answer or a message, whichever is newer. *)

\* The page fetches the project: what it shows is no longer the answer to its last fetch.
Refetches(p) ==
  [p EXCEPT !.answered = FALSE,
            !.fetches = Append([i \in DOMAIN @ |-> [@[i] EXCEPT !.last = FALSE]],
                               [phase |-> "asked", version |-> 0, last |-> TRUE])]

\* Mutant: what a message says is enough.
TakesMessage(p, version) == [p EXCEPT !.shown = version]

\* A message is shown, and the project fetched anyway.
Heard(p, version) == Refetches([p EXCEPT !.shown = version])

\* The page is loaded, or a command it sent has succeeded.
RefreshPage ==
  /\ Len(page.fetches) < MaxFetches
  /\ page' = Refetches(page)
  /\ UNCHANGED <<eventLog, index, requests>>

\* The snapshot is read, and the page subscribed, while no message is offered.
OpenStream ==
  /\ ~page.stream /\ index.open
  /\ page' = [page EXCEPT !.stream = TRUE, !.wire = <<eventLog.version>>]
  /\ UNCHANGED <<eventLog, index, requests>>

SendMessage ==
  /\ page.inbox # <<>> /\ Len(page.wire) < MaxFetches
  /\ page' = [page EXCEPT !.inbox = <<>>, !.wire = @ \o page.inbox]
  /\ UNCHANGED <<eventLog, index, requests>>

CloseStream ==
  /\ page.stream
  /\ page' = Disconnected(page)
  /\ UNCHANGED <<eventLog, index, requests>>

HearMessage ==
  /\ page.wire # <<>> /\ Len(page.fetches) < MaxFetches
  /\ page' = Heard([page EXCEPT !.wire = Tail(@)], Head(page.wire))
  /\ UNCHANGED <<eventLog, index, requests>>

\* A server that is not closed takes the fetch, and reads the log for it: a fetch that it has
\* taken goes on when it stops.
FetchProject(i) ==
  /\ \/ /\ page.fetches[i].phase = "asked" /\ index.open
        /\ page' = [page EXCEPT !.fetches[i].phase = "taken"]
     \/ /\ page.fetches[i].phase = "taken"
        /\ page' = [page EXCEPT !.fetches[i].phase = "read",
                                !.fetches[i].version = eventLog.version]
  /\ UNCHANGED <<eventLog, index, requests>>

\* The answers arrive in any order.
TakeProject(i) ==
  LET fetch == page.fetches[i]
  IN /\ fetch.phase = "read"
     /\ page' = [page EXCEPT !.shown = fetch.version, !.answered = fetch.last,
                             !.fetches = RemoveAt(@, i)]
     /\ UNCHANGED <<eventLog, index, requests>>

\* A fetch may fail wherever it is: no server, no session, no log, no answer.  The page shows
\* what it showed, and does not ask again.
FailFetch(i) ==
  /\ page' = [page EXCEPT !.fetches = RemoveAt(@, i)]
  /\ UNCHANGED <<eventLog, index, requests>>

LogChanges == ImportAccepted \/ SettlePending \/ AppendElsewhere
ServerChanges == CloseServer \/ OpenServer
Serves(v) ==
  \/ WriteRequest(v) \/ RefreshIndex(v) \/ RebuildIndex(v)
  \/ Snapshot(v) \/ BroadcastCurrentState(v) \/ ClientGone(v)

\* Histories do not depend on the page, nor the page on histories.
HistoryNext ==
  \/ LogChanges \/ ServerChanges
  \/ \E v \in Views : Serves(v) \/ AskHistory(v) \/ AnswerHistory(v)
PageNext ==
  \/ LogChanges \/ ServerChanges
  \/ \E v \in Views : Serves(v)
  \/ OpenStream \/ SendMessage \/ CloseStream \/ HearMessage \/ RefreshPage
  \/ \E i \in DOMAIN page.fetches : FetchProject(i) \/ TakeProject(i) \/ FailFetch(i)

ViewSpec == ViewInit /\ [][HistoryNext \/ PageNext]_viewVars
-----------------------------------------------------------------------------
\* A history answer, from the index or the log, has every event the log had when it was
\* asked, although requests rebuild the index while others search it and a server may stop
\* in between.  Only while nothing has left the pending batches: an event that was settled
\* meanwhile is rightly missing, and a log that has shrunk and grown again has a watermark
\* it had before, so that the index may answer with events the log does not have.
HistoryCurrent ==
  \A v \in Views :
    requests[v].phase = "answered" /\ ~eventLog.shrunk => requests[v].missing = {}

\* A page with a stream, that has heard every message and shows the answer to its last fetch,
\* shows a version at least as new as every one that was told, although messages are dropped,
\* told in the wrong order, or told between two streams.  Nothing is said of a page whose last
\* fetch failed, or was overtaken by the answer to an earlier one: it may stay behind.
LastAnswerCatchesUp ==
  page.stream /\ page.inbox = <<>> /\ page.wire = <<>> /\ page.answered
    => page.shown >= page.told
=============================================================================
