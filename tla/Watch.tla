------------------------------- MODULE Watch --------------------------------
(***************************************************************************)
(* Resumable event streams over the resolution workflow: the handler of    *)
(* GET /v1/resolutions/{id}/events (cmd/controlplane) reading the event    *)
(* log that Resolution writes, and clients that reconnect with the last    *)
(* identifier they received.                                               *)
(***************************************************************************)
EXTENDS Resolution, Sequences

CONSTANTS
  Watchers,
  BatchLimit,           \* resolutionWatchBatchSize
  MaximumWatchRequests, \* slots of the concurrency channel
  WaitSeconds,          \* lifetime the client asked for
  WriteTimeout,         \* of the HTTP server, from the start of the request
  MaxBreaks             \* bound on broken connections

ASSUME WatchAssumption == BatchLimit \in Nat \ {0}

VARIABLES
  stream, \* the handler of each connection
  client, \* what each watcher has received, over all its connections
  breaks

watchVars == <<resVars, stream, client, breaks>>

Ends == {"none", "terminal", "comment", "cut", "broken"}
Closed(end) == [open |-> FALSE, cursor |-> 0, batch |-> <<>>, age |-> 0, end |-> end]

WatchInit ==
  /\ Init
  /\ stream = [w \in Watchers |-> Closed("none")]
  /\ client \in [Watchers -> [id: Ids, start: 0..1, received: {<<>>}]]
  /\ breaks = 0

-----------------------------------------------------------------------------

\* ORDER BY resolution_version LIMIT: batches of rows in version order, and one
\* that leaves out no row before its end.
Batches(rows) == UNION {[1..n -> rows] : n \in 0..BatchLimit}

\* Mutant of InOrder: ORDER BY ... DESC.
InReverse(s) == \A k \in 1..Len(s) : \A j \in 1..(k - 1) : s[k].version < s[j].version

InOrder(s) == \A k \in 1..Len(s) : \A j \in 1..(k - 1) : s[j].version < s[k].version
LeavesOutNone(s, rows) ==
  \A e \in rows : \/ \E k \in 1..Len(s) : s[k] = e
                  \/ Len(s) = BatchLimit /\ s[BatchLimit].version < e.version

\* Mutant of ListEvents: one event too far.
ListEventsSkipping(i, after) ==
  LET later == {e \in History(i) : e.version > after + 1} IN
  CHOOSE s \in Batches(later) : InOrder(s) /\ LeavesOutNone(s, later)

\* The events after the cursor in version order, at most a batch of them.
ListEvents(i, after) ==
  LET later == {e \in History(i) : e.version > after} IN
  CHOOSE s \in Batches(later) : InOrder(s) /\ LeavesOutNone(s, later)

\* The last event a client has received.
LastReceived(w) == client[w].received[Len(client[w].received)]

\* The Last-Event-ID a client sends.
LastEventID(w) ==
  IF client[w].received = <<>> THEN client[w].start ELSE LastReceived(w).version

SawEnd(w) == client[w].received # <<>> /\ LastReceived(w).state \in Terminal

\* watch up to the first write: a free slot, a known resolution, the first read.
Connect(w) ==
  /\ ~stream[w].open
  /\ ~SawEnd(w)
  /\ Cardinality({v \in Watchers : stream[v].open}) < MaximumWatchRequests
  /\ res[client[w].id].version > 0
  /\ stream' = [stream EXCEPT ![w] =
       [open |-> TRUE, cursor |-> LastEventID(w), age |-> 0, end |-> "none",
        batch |-> ListEvents(client[w].id, LastEventID(w))]]
  /\ UNCHANGED <<resVars, client, breaks>>

\* The ticker of continueWatch.
Poll(w) ==
  /\ stream[w].open /\ stream[w].batch = <<>> /\ stream[w].age < WaitSeconds
  /\ stream' = [stream EXCEPT ![w].batch = ListEvents(client[w].id, stream[w].cursor)]
  /\ stream' # stream
  /\ UNCHANGED <<resVars, client, breaks>>

\* writeResolutionWatchEvents, one event; past the write deadline it fails.
WriteEvent(w) ==
  LET event == Head(stream[w].batch) IN
  /\ stream[w].open /\ stream[w].batch # <<>>
  /\ \/ /\ event.version > stream[w].cursor /\ stream[w].age < WriteTimeout
        /\ client' = [client EXCEPT ![w].received = Append(@, event)]
        /\ stream' = [stream EXCEPT ![w] =
             IF event.state \in Terminal THEN Closed("terminal")
             ELSE [stream[w] EXCEPT !.cursor = event.version, !.batch = Tail(stream[w].batch)]]
     \/ /\ event.version <= stream[w].cursor \/ stream[w].age >= WriteTimeout
        /\ stream' = [stream EXCEPT ![w] = Closed("cut")]
        /\ UNCHANGED client
  /\ UNCHANGED <<resVars, breaks>>

\* Seconds pass while the handler waits.
Wait(w) ==
  /\ stream[w].open /\ stream[w].batch = <<>> /\ stream[w].age < WaitSeconds
  /\ stream' = [stream EXCEPT ![w].age = @ + 1]
  /\ UNCHANGED <<resVars, client, breaks>>

\* The timer of continueWatch: a comment, then the end.
TimerFires(w) ==
  /\ stream[w].open /\ stream[w].batch = <<>> /\ stream[w].age = WaitSeconds
  /\ stream' = [stream EXCEPT ![w] =
       Closed(IF stream[w].age < WriteTimeout THEN "comment" ELSE "cut")]
  /\ UNCHANGED <<resVars, client, breaks>>

\* The connection breaks; what the handler had not written is lost.
Break(w) ==
  /\ stream[w].open
  /\ breaks < MaxBreaks
  /\ breaks' = breaks + 1
  /\ stream' = [stream EXCEPT ![w] = Closed("broken")]
  /\ UNCHANGED <<resVars, client>>

Handle(w) == Poll(w) \/ WriteEvent(w) \/ Wait(w) \/ TimerFires(w)

WatchNext ==
  \/ ResolutionNext /\ UNCHANGED <<stream, client, breaks>>
  \/ \E w \in Watchers : Connect(w) \/ Handle(w) \/ Break(w)

WatchSpec == WatchInit /\ [][WatchNext]_watchVars

\* Handlers run, and a client that keeps asking finds one of the slots, which
\* bounded streams give back again and again.
WatchFairness ==
  \A w \in Watchers : SF_watchVars(Connect(w)) /\ WF_watchVars(Handle(w))
WatchFairSpec == WatchSpec /\ WatchFairness

-----------------------------------------------------------------------------
(* Properties *)

\* A client receives every version after its cursor once and in order, with the
\* state the resolution had, over any number of reconnections.
WatchIsExact ==
  \A w \in Watchers : \A n \in 1..Len(client[w].received) :
    /\ client[w].received[n].version = client[w].start + n
    /\ client[w].received[n] \in History(client[w].id)

\* Whatever breaks, a client that keeps reconnecting learns the outcome.
WatcherSeesEnd ==
  \A w \in Watchers :
    res[client[w].id].state \in Terminal /\ client[w].start < res[client[w].id].version
      ~> SawEnd(w)
=============================================================================
