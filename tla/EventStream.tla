----------------------------- MODULE EventStream ----------------------------
(***************************************************************************)
(* The public events of one run as a client follows them: the log, the     *)
(* streams the service serves it from, the client that reconnects with the *)
(* last event it saw or recovers through the snapshot, and the record of   *)
(* every disconnect, which goes to the cursor store or, when that refuses, *)
(* to the spool on the instance's volume until a sweep places it.          *)
(*                                                                         *)
(* An event is its sequence number: replay refuses a page with a gap, and  *)
(* a run's transitions allocate their numbers one transaction at a time.   *)
(* A stream is a connection; an earlier one may still be ending on the     *)
(* service while the client is already on the next.  Left out: contents,   *)
(* the reason of a disconnect, and store corruption, which ends a stream.  *)
(***************************************************************************)
EXTENDS Integers, SequencesExt

CONSTANTS
  ReplayLimit,     \* events in a page
  Capacity,        \* record files the volume may carry
  RefusalBudget,   \* consecutive refusals that end a sweep
  Inherited,       \* records of a previous process on the volume at the start
  MaxEvents,       \* bound: events of the run
  MaxConnections,  \* bound: connections the client opens
  MaxFaults        \* bound: failing writes and sweeps, corrupted records, crashes

ASSUME StreamAssumption ==
  /\ ReplayLimit \in Nat \ {0} /\ RefusalBudget \in Nat \ {0} /\ Capacity \in Nat \ {0}
  /\ MaxEvents \in Nat
  /\ MaxConnections \in Nat /\ Inherited \in 0..Capacity /\ MaxFaults \in Nat

\* The first of them were served by the previous process.
Connections == 1..(Inherited + MaxConnections)

VARIABLES
  log,      \* the number of events committed
  aged,     \* how many of them are older than the retention window
  revoked,  \* the client's authority has been withdrawn
  client,   \* what the client is doing, its last event, its connection
  stream,   \* each connection as the service sees it, with what its client has not read
  stored,   \* the connections the cursor store has a record of
  spool,    \* the records on the volume, oldest first
  sweep,    \* the reconciler: the records left of its sweep
  lost,     \* connections whose record was reported lost, or died with the process
  faults

vars == <<log, aged, revoked, client, stream, stored, spool, sweep, lost, faults>>

Unopened == [at |-> "unopened", cursor |-> 0, to |-> 0, more |-> FALSE, wrote |-> FALSE,
             late |-> 0, wire |-> <<>>]
NoSweep == [names |-> {}, placed |-> FALSE, refused |-> 0]

Init ==
  /\ log = 0
  /\ aged = 0
  /\ revoked = FALSE
  /\ client = [at |-> "away", last |-> 0, on |-> Inherited]
  /\ stream = [k \in Connections |->
                 IF k <= Inherited THEN [Unopened EXCEPT !.at = "closed"] ELSE Unopened]
  /\ stored = {}
  /\ spool = [k \in 1..Inherited |-> [of |-> k, readable |-> TRUE, aside |-> FALSE]]
  /\ sweep = NoSweep
  /\ lost = {}
  /\ faults = 0

At(k, step) == stream[k].at = step
Go(k, step) == stream' = [stream EXCEPT ![k].at = step]
Serving(k) == stream[k].at \in {"replay", "event", "write", "wait"}
Listening(k) == client.at = "streaming" /\ client.on = k
Close(k) == stream' = [stream EXCEPT ![k].at = "closed", ![k].cursor = 0, ![k].wire = <<>>]
Fault == faults < MaxFaults /\ faults' = faults + 1

\* Mutant of Ended: the deferred record takes the end of the page being sent.
EndedAtPage(k) == [stream EXCEPT ![k].at = "record",
                                 ![k].cursor = IF At(k, "event") \/ At(k, "write") THEN stream[k].to ELSE @,
                                 ![k].to = 0, ![k].more = FALSE, ![k].wrote = FALSE,
                                 ![k].late = 0]

\* The stream returns; the deferred record is owed from here on.
Ended(k) == [stream EXCEPT ![k].at = "record", ![k].to = 0, ![k].more = FALSE,
                           ![k].wrote = FALSE, ![k].late = 0]
End(k) == stream' = Ended(k)

-----------------------------------------------------------------------------
(* The run and time.                                                       *)

(* A transaction of the run writes its next public event.                  *)
Publish ==
  /\ log < MaxEvents
  /\ log' = log + 1
  /\ UNCHANGED <<aged, revoked, client, stream, stored, spool, sweep, lost, faults>>

(* The oldest event in the retention window leaves it.                     *)
Age ==
  /\ aged < log
  /\ aged' = aged + 1
  /\ UNCHANGED <<log, revoked, client, stream, stored, spool, sweep, lost, faults>>

Revoke ==
  /\ ~revoked
  /\ revoked' = TRUE
  /\ UNCHANGED <<log, aged, client, stream, stored, spool, sweep, lost, faults>>

-----------------------------------------------------------------------------
(* The client.                                                             *)

(* It opens a stream with the last event it has, or without one; what lies *)
(* unread on the connection before is gone.                                *)
Connect ==
  /\ client.at \in {"away", "recovered"} /\ ~revoked
  /\ client.on + 1 \in Connections
  /\ client' = [client EXCEPT !.at = "streaming", !.on = @ + 1]
  /\ stream' = [stream EXCEPT ![client.on + 1].at = "replay",
                              ![client.on + 1].cursor = client.last,
                              ![client.on].wire = <<>>]
  /\ UNCHANGED <<log, aged, revoked, stored, spool, sweep, lost, faults>>

Receive ==
  /\ client.at = "streaming" /\ stream[client.on].wire # <<>>
  /\ client' = [client EXCEPT !.last = Head(stream[client.on].wire)]
  /\ stream' = [stream EXCEPT ![client.on].wire = Tail(@)]
  /\ UNCHANGED <<log, aged, revoked, stored, spool, sweep, lost, faults>>

(* It leaves, or the connection breaks; what was under way stays unread.   *)
Disconnect ==
  /\ client.at = "streaming"
  /\ client' = [client EXCEPT !.at = "away"]
  /\ UNCHANGED <<log, aged, revoked, stream, stored, spool, sweep, lost, faults>>

(* After a 410 it reads the snapshot and takes its cursor, the newest event.*)
Snapshot ==
  /\ client.at = "expired"
  /\ client' = [client EXCEPT !.at = "recovered", !.last = log]
  /\ UNCHANGED <<log, aged, revoked, stream, stored, spool, sweep, lost, faults>>

-----------------------------------------------------------------------------
(* Serve.                                                                  *)

\* revalidate: under withdrawn authority the stream ends.
Revalidated(k, next) == stream' = IF revoked THEN Ended(k) ELSE next

PageEnd(k) == IF log - stream[k].cursor > ReplayLimit
              THEN stream[k].cursor + ReplayLimit ELSE log

\* The page is sent event by event; an empty one leaves the stream waiting.
Paged(k) == IF PageEnd(k) = stream[k].cursor THEN [stream EXCEPT ![k].at = "wait"]
            ELSE [stream EXCEPT ![k].at = "event", ![k].to = PageEnd(k),
                                ![k].more = PageEnd(k) < log]

CursorExpired(k) == stream[k].cursor \in 1..aged

(* The loop of Serve: revalidate, then read a page.  An expired cursor ends*)
(* the stream, and the client learns why only when no frame was written.   *)
Replay(k) ==
  /\ At(k, "replay") /\ ~CursorExpired(k)
  /\ Revalidated(k, Paged(k))
  /\ UNCHANGED <<log, aged, revoked, client, stored, spool, sweep, lost, faults>>

ReplayExpired(k) ==
  /\ At(k, "replay") /\ CursorExpired(k)
  /\ End(k)
  /\ client' = IF Listening(k) /\ ~stream[k].wrote /\ ~revoked
               THEN [client EXCEPT !.at = "expired"] ELSE client
  /\ UNCHANGED <<log, aged, revoked, stored, spool, sweep, lost, faults>>

(* Before each event of the page: authority may be gone since it was read. *)
Clear(k) ==
  /\ At(k, "event")
  /\ Revalidated(k, [stream EXCEPT ![k].at = "write"])
  /\ UNCHANGED <<log, aged, revoked, client, stored, spool, sweep, lost, faults>>

\* A flushed frame is on the connection, whether its client still reads or has
\* left; what is put on one that the client has replaced is of no account.
Wire(k, frame) == IF client.on = k THEN Append(stream[k].wire, frame) ELSE stream[k].wire
Late(k) == IF revoked THEN stream[k].late + 1 ELSE stream[k].late

Sent(k) == [stream[k] EXCEPT !.cursor = @ + 1, !.wrote = TRUE, !.late = Late(k)]

\* Mutant of AfterEvent: the rest of the page is written under one revalidation.
AfterEventUnchecked(k) ==
  IF Sent(k).cursor < Sent(k).to THEN [Sent(k) EXCEPT !.at = "write"]
  ELSE [Sent(k) EXCEPT !.at = IF stream[k].more THEN "replay" ELSE "wait", !.to = 0, !.more = FALSE]

\* A frame written and flushed advances the cursor; then the page goes on, the
\* next page is read, or the stream waits.
AfterEvent(k) ==
  IF Sent(k).cursor < Sent(k).to THEN [Sent(k) EXCEPT !.at = "event"]
  ELSE [Sent(k) EXCEPT !.at = IF stream[k].more THEN "replay" ELSE "wait", !.to = 0, !.more = FALSE]

Write(k) ==
  /\ At(k, "write")
  /\ stream' = [stream EXCEPT ![k] = [AfterEvent(k) EXCEPT !.wire = Wire(k, stream[k].cursor + 1)]]
  /\ UNCHANGED <<log, aged, revoked, client, stored, spool, sweep, lost, faults>>

\* Mutant of Broken: a failed flush is a frame silently discarded.
BrokenSilently(k, wire) == [stream EXCEPT ![k] = [AfterEvent(k) EXCEPT !.wire = wire]]

\* The stream ends; what was buffered may still arrive.
Broken(k, wire) == [Ended(k) EXCEPT ![k].wire = wire]

(* A write or a flush fails at its deadline.                               *)
WriteFails(k) ==
  /\ At(k, "write") /\ Fault
  /\ \E wire \in {stream[k].wire, Wire(k, stream[k].cursor + 1)} : stream' = Broken(k, wire)
  /\ UNCHANGED <<log, aged, revoked, client, stored, spool, sweep, lost>>

(* The wait ends: an event, its timeout, or the periodic revalidation.     *)
Wake(k) ==
  /\ At(k, "wait")
  /\ Go(k, "replay")
  /\ UNCHANGED <<log, aged, revoked, client, stored, spool, sweep, lost, faults>>

(* A provisional frame: it has no id and moves no cursor, and it is written*)
(* under the authority the stream entered with.                            *)
Delta(k) ==
  /\ At(k, "wait")
  /\ stream' = [stream EXCEPT ![k].at = "replay", ![k].wrote = TRUE, ![k].late = Late(k)]
  /\ UNCHANGED <<log, aged, revoked, client, stored, spool, sweep, lost, faults>>

(* A heartbeat is written only under current authority.                    *)
Heartbeat(k) ==
  /\ At(k, "wait")
  /\ Revalidated(k, [stream EXCEPT ![k].at = "replay", ![k].wrote = TRUE])
  /\ UNCHANGED <<log, aged, revoked, client, stored, spool, sweep, lost, faults>>

(* The request's context ends with its client, and with it whatever call   *)
(* the stream is in; or that call fails.                                   *)
HangUp(k) ==
  /\ Serving(k)
  /\ IF Listening(k) THEN Fault ELSE UNCHANGED faults
  /\ End(k)
  /\ UNCHANGED <<log, aged, revoked, client, stored, spool, sweep, lost>>

-----------------------------------------------------------------------------
(* recordCursor and the spool.                                             *)

\* A record carries the stream's cursor unchanged wherever it goes, and the store
\* keeps the first of a connection (ON CONFLICT DO NOTHING): which connections
\* have one is all that differs.
RecordCursor(k) ==
  /\ At(k, "record")
  /\ stored' = stored \cup {k}
  /\ Close(k)
  /\ UNCHANGED <<log, aged, revoked, client, spool, sweep, lost, faults>>

(* Every attempt is answered with an error; one may have been committed.   *)
RecordRefused(k) ==
  /\ At(k, "record")
  /\ stored' \in {stored, stored \cup {k}}
  /\ stream' = [stream EXCEPT ![k].at = "spool", ![k].cursor = 0, ![k].wire = <<>>]
  /\ UNCHANGED <<log, aged, revoked, client, spool, sweep, lost, faults>>

\* Waiting and set aside count together, in one critical section with the write.
Room == Len(spool) < Capacity

Spooled(k) == Append(spool, [of |-> k, readable |-> TRUE, aside |-> FALSE])

SpoolCursor(k) ==
  /\ At(k, "spool") /\ Room
  /\ spool' = Spooled(k)
  /\ Close(k)
  /\ UNCHANGED <<log, aged, revoked, client, stored, sweep, lost, faults>>

(* The volume is full or fails, the flush after the rename included, and   *)
(* the record is reported as lost.                                         *)
SpoolRefused(k) ==
  /\ At(k, "spool")
  /\ \/ UNCHANGED <<spool, faults>>
     \/ Room /\ Fault /\ spool' = Spooled(k)
  /\ lost' = lost \cup {k}
  /\ Close(k)
  /\ UNCHANGED <<log, aged, revoked, client, stored, sweep>>

(* A record on the volume is torn or becomes unreadable.                   *)
Corrupt(i) ==
  /\ spool[i].readable /\ Fault
  /\ spool' = [spool EXCEPT ![i].readable = FALSE]
  /\ UNCHANGED <<log, aged, revoked, client, stream, stored, sweep, lost>>

-----------------------------------------------------------------------------
(* Drain, one sweep of the reconciler.                                     *)

\* A sweep goes through the records that wait when it begins; a record is known by
\* its connection.
Names == {spool[i].of : i \in {j \in 1..Len(spool) : ~spool[j].aside}}

Sweeping == sweep.names # {}
\* The record the sweep is at: the oldest it has left.
Oldest == CHOOSE i \in 1..Len(spool) :
            /\ spool[i].of \in sweep.names
            /\ \A j \in 1..(i - 1) : spool[j].of \notin sweep.names
Current == spool[Oldest]
Name == Current.of
Skipped == [sweep EXCEPT !.names = @ \ {Name}, !.placed = FALSE]

BeginSweep ==
  /\ ~Sweeping /\ Names # {}
  /\ sweep' = [NoSweep EXCEPT !.names = Names]
  /\ UNCHANGED <<log, aged, revoked, client, stream, stored, spool, lost, faults>>

\* Mutant of SetAside: the first record that cannot be read ends the sweep.
SetAsideEndsSweep ==
  /\ Sweeping /\ ~sweep.placed /\ ~Current.readable
  /\ sweep' = NoSweep
  /\ UNCHANGED <<log, aged, revoked, client, stream, stored, spool, lost, faults>>

(* A record that cannot be decoded is renamed, never removed; when the     *)
(* rename fails the next sweep meets it again.                             *)
SetAside ==
  /\ Sweeping /\ ~sweep.placed /\ ~Current.readable
  /\ \/ spool' = [spool EXCEPT ![Oldest].aside = TRUE] /\ UNCHANGED faults
     \/ Fault /\ UNCHANGED spool
  /\ sweep' = Skipped
  /\ UNCHANGED <<log, aged, revoked, client, stream, stored, lost>>

Place ==
  /\ Sweeping /\ ~sweep.placed /\ Current.readable
  /\ stored' = stored \cup {Name}
  /\ sweep' = [sweep EXCEPT !.placed = TRUE, !.refused = 0]
  /\ UNCHANGED <<log, aged, revoked, client, stream, spool, lost, faults>>

(* A refused record stays held; several in a row end the sweep.            *)
Defer ==
  /\ Sweeping /\ ~sweep.placed /\ Current.readable /\ Fault
  /\ sweep' = IF sweep.refused + 1 >= RefusalBudget THEN NoSweep
              ELSE [Skipped EXCEPT !.refused = @ + 1]
  /\ UNCHANGED <<log, aged, revoked, client, stream, stored, spool, lost>>

(* Only a placed record is removed; a failing removal ends the sweep.      *)
Release ==
  /\ Sweeping /\ sweep.placed
  /\ \/ /\ spool' = RemoveAt(spool, Oldest)
        /\ sweep' = Skipped
        /\ UNCHANGED faults
     \/ /\ Fault /\ sweep' = NoSweep /\ UNCHANGED spool
  /\ UNCHANGED <<log, aged, revoked, client, stream, stored, lost>>

(* The process dies: its streams end unrecorded, the volume stays.         *)
Crash ==
  /\ Fault
  /\ stream' = [k \in Connections |->
                  IF stream[k].at = "unopened" THEN stream[k]
                  ELSE [Unopened EXCEPT !.at = "closed"]]
  /\ lost' = lost \cup {k \in Connections : stream[k].at \notin {"unopened", "closed"}}
  /\ client' = IF client.at = "streaming" THEN [client EXCEPT !.at = "away"] ELSE client
  /\ sweep' = NoSweep
  /\ UNCHANGED <<log, aged, revoked, stored, spool>>

-----------------------------------------------------------------------------
Client == Connect \/ Receive \/ Disconnect \/ Snapshot

Serve(k) ==
  \/ Replay(k) \/ ReplayExpired(k) \/ Clear(k) \/ Write(k) \/ WriteFails(k)
  \/ Wake(k) \/ Delta(k) \/ Heartbeat(k) \/ HangUp(k)
  \/ RecordCursor(k) \/ RecordRefused(k) \/ SpoolCursor(k) \/ SpoolRefused(k)

Drain == BeginSweep \/ SetAside \/ Place \/ Release

Next ==
  \/ Publish \/ Age \/ Revoke \/ Client
  \/ \E k \in Connections : Serve(k)
  \/ Drain \/ Defer \/ Crash
  \/ \E i \in 1..Len(spool) : Corrupt(i)

Spec == Init /\ [][Next]_vars

\* The reconciler sweeps at start and on an interval for as long as the service
\* runs; a service that died is started again.  Each step of Drain moves the sweep.
LiveSpec == Spec /\ WF_sweep(Drain)

-----------------------------------------------------------------------------
(* Every variable stays in its domain.                                     *)
TypeOK ==
  /\ log \in 0..MaxEvents /\ aged \in 0..log /\ revoked \in BOOLEAN /\ faults \in 0..MaxFaults
  /\ client \in [at : {"away", "streaming", "expired", "recovered"},
                 last : 0..log, on : 0..(Inherited + MaxConnections)]
  /\ stream \in [Connections -> [
       at : {"unopened", "replay", "event", "write", "wait", "record", "spool",
             "closed"},
       cursor : 0..log, to : 0..log, more : BOOLEAN, wrote : BOOLEAN,
       late : Nat, wire : Seq(1..log)]]
  /\ stored \subseteq Connections
  /\ spool \in Seq([of : Connections, readable : BOOLEAN, aside : BOOLEAN])
  /\ sweep \in [names : SUBSET Connections, placed : BOOLEAN, refused : 0..RefusalBudget]
  /\ lost \subseteq Connections

(* A client that reconnects with the last event it saw receives the log    *)
(* without a gap and without a repetition, over every broken write,        *)
(* expired cursor and crash; only the snapshot moves it further (Serve).   *)
DeliveredInOrder ==
  [][client'.last # client.last =>
       \/ client'.last = client.last + 1
       \/ client.at = "expired" /\ client'.last > client.last]_client

(* Withdrawn authority stops a stream whatever page was already read: no   *)
(* more than the event cleared before it and one provisional frame, which  *)
(* is not cleared on its own, are still written (the checks of Serve).     *)
RevokedStreamStops == \A k \in Connections : stream[k].late <= 2

Files(k) == {i \in 1..Len(spool) : spool[i].of = k}

(* Every disconnect of a process that did not die stays accounted for: in  *)
(* the store, on the volume, or reported lost, through refused records,    *)
(* interrupted sweeps and restarts; and the record about to be made names  *)
(* the last event flushed to the client, what it has read and what lies    *)
(* unread on the connection: never an event that was not handed over, and  *)
(* at most the one short whose write was not confirmed (recordCursor and   *)
(* Drain).  The volume carries no more records than its capacity, waiting  *)
(* and set aside together (SpoolCursor).                                   *)
DisconnectsAccounted ==
  /\ \A k \in Connections :
       /\ At(k, "closed") => k \in stored \cup lost \/ Files(k) # {}
       /\ At(k, "record") /\ client.on = k /\ client.at # "recovered" =>
            client.last + Len(stream[k].wire) \in {stream[k].cursor, stream[k].cursor + 1}
  /\ Len(spool) <= Capacity

(* Time and again no readable record is left waiting on the volume: one    *)
(* record, unreadable or refused, never decides the fate of the others     *)
(* (Drain, over sweeps that fail, and a process that dies, in between).    *)
HeldRecordsArePlaced == []<>(\A i \in 1..Len(spool) : ~spool[i].readable)
=============================================================================
