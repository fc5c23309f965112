------------------------- MODULE EventStreamProofs --------------------------
(***************************************************************************)
(* For any log, page, volume and number of connections, faults and         *)
(* crashes: events arrive in order, withdrawn authority stops a stream,    *)
(* and every disconnect stays accounted for.                               *)
(***************************************************************************)
EXTENDS EventStream, FiniteSetTheorems, SequenceTheorems, WellFoundedInduction, TLAPS

ClientRows(n) == [at : {"away", "streaming", "expired", "recovered"},
                  last : 0..n, on : 0..(Inherited + MaxConnections)]
StreamRows(n) == [at : {"unopened", "replay", "event", "write", "wait", "record", "spool", "closed"},
                  cursor : 0..n, to : 0..n, more : BOOLEAN, wrote : BOOLEAN,
                  late : Nat, wire : Seq(1..n)]
FileRows == [of : Connections, readable : BOOLEAN, aside : BOOLEAN]
SweepRows == [names : SUBSET Connections, placed : BOOLEAN, refused : 0..RefusalBudget]

(* A stream sends the events of its page; after withdrawal it writes the   *)
(* event that was cleared and, having written it, one provisional frame.   *)
Allowed == [unopened |-> 0, replay |-> 2, event |-> 1, write |-> 0, wait |-> 1,
            record |-> 0, spool |-> 0, closed |-> 0]
RowInv(s) ==
  /\ s.at \in {"event", "write"} => s.cursor < s.to
  /\ s.late <= Allowed[s.at]
  /\ ~revoked => s.late = 0

(* What lies unread on the connection of a client continues what the client*)
(* has, up to the cursor of the stream or one unconfirmed frame past it,   *)
(* until a snapshot moves the client.                                      *)
Sending == {"replay", "event", "write", "wait"}
Continues(s, c) ==
  /\ \A i \in 1..Len(s.wire) : s.wire[i] = c.last + i
  /\ s.at \in Sending => c.last + Len(s.wire) = s.cursor
  /\ s.at = "record" => c.last + Len(s.wire) \in {s.cursor, s.cursor + 1}
Faces(s, c) == c.at # "recovered" => Continues(s, c)

OnVolume(k) == \E i \in 1..Len(spool) : spool[i].of = k
Accounted(k) == k \in stored \cup lost \/ OnVolume(k)

(* A sweep knows records of the volume; the one it placed is stored.       *)
SweepInv ==
  /\ \A k \in sweep.names : OnVolume(k)
  /\ Sweeping /\ sweep.placed => Name \in stored

StreamInv(k) ==
  /\ k > client.on => stream[k] = Unopened
  /\ RowInv(stream[k])
  /\ k = client.on => Faces(stream[k], client)
  /\ stream[k].at = "closed" => Accounted(k)

IInv ==
  /\ TypeOK
  /\ Len(spool) <= Capacity
  /\ client.at = "streaming" => client.on \in Connections
  /\ \A k \in Connections : StreamInv(k)
  /\ SweepInv

(* The client's last event moves on by one, or with a snapshot.            *)
Follows ==
  client'.last # client.last =>
    \/ client'.last = client.last + 1
    \/ client.at = "expired" /\ client'.last > client.last

-----------------------------------------------------------------------------
LEMMA Numbers ==
  /\ ReplayLimit \in Nat \ {0} /\ RefusalBudget \in Nat \ {0} /\ Capacity \in Nat \ {0}
  /\ MaxEvents \in Nat /\ MaxConnections \in Nat /\ Inherited \in Nat /\ Inherited <= Capacity
  /\ MaxFaults \in Nat /\ Connections \subseteq Nat
BY StreamAssumption DEF Connections

LEMMA ConnectionIsInt == ASSUME NEW k \in Connections PROVE k \in Int
BY StreamAssumption DEF Connections

Types ==
  /\ log \in 0..MaxEvents /\ aged \in 0..log /\ revoked \in BOOLEAN /\ faults \in 0..MaxFaults
  /\ client \in ClientRows(log) /\ stream \in [Connections -> StreamRows(log)]
Volume ==
  /\ stored \subseteq Connections /\ lost \subseteq Connections
  /\ spool \in Seq(FileRows) /\ Len(spool) <= Capacity
  /\ sweep \in SweepRows

LEMMA TypeParts == TypeOK /\ Len(spool) <= Capacity <=> Types /\ Volume
BY DEF TypeOK, Types, Volume, ClientRows, StreamRows, FileRows, SweepRows

LEMMA Facts ==
  ASSUME IInv
  PROVE  /\ Types /\ Volume /\ SweepInv
         /\ client.at = "streaming" => client.on \in Connections
         /\ \A k \in Connections : StreamInv(k)
BY TypeParts DEF IInv

LEMMA Assembled ==
  ASSUME Types', Volume', SweepInv', (client.at = "streaming" => client.on \in Connections)',
         \A k \in Connections : StreamInv(k)'
  PROVE  IInv'
<1>1. TypeOK' /\ (Len(spool) <= Capacity)'
  BY DEF TypeOK, Types, Volume, ClientRows, StreamRows, FileRows, SweepRows
<1> QED BY <1>1 DEF IInv

-----------------------------------------------------------------------------
(* The record a sweep looks at: the first one on the volume that is left.  *)
First(f, S, i) ==
  /\ i \in 1..Len(f) /\ f[i].of \in S
  /\ \A j \in 1..(i - 1) : f[j].of \notin S

LEMMA FirstFound ==
  ASSUME NEW f, Len(f) \in Nat, NEW S, NEW k \in 1..Len(f), f[k].of \in S
  PROVE  \E i : First(f, S, i)
<1> DEFINE found == {i \in 1..Len(f) : f[i].of \in S}
           family == {1..i : i \in found}
<1>1. PICK s \in family : \A r \in family : ~(<<r, s>> \in StrictSubsetOrdering(Nat))
  <2>1. family # {} /\ found \subseteq Nat
    OBVIOUS
  <2>2. ASSUME NEW i \in Nat PROVE 1..i \in FiniteSubsetsOf(Nat)
    <3>1. IsFiniteSet(1..i)
      BY FS_Interval
    <3>2. 1..i \in SUBSET Nat
      OBVIOUS
    <3> QED BY <3>1, <3>2 DEF FiniteSubsetsOf
  <2>3. family \subseteq FiniteSubsetsOf(Nat)
    BY <2>1, <2>2
  <2> HIDE DEF family
  <2> QED BY <2>1, <2>3, FS_StrictSubsetOrderingWellFounded, WFMin
<1>2. PICK n \in found : s = 1..n
  OBVIOUS
<1>3. \A j \in 1..(n - 1) : f[j].of \notin S
  <2> SUFFICES ASSUME NEW j \in 1..(n - 1), f[j].of \in S PROVE FALSE
    OBVIOUS
  <2>1. n \in 1..Len(f) /\ j \in found
    OBVIOUS
  <2>2. 1..j \in family /\ 1..j \in SUBSET Nat /\ 1..n \in SUBSET Nat
    BY <2>1
  <2>3. 1..j \subseteq 1..n /\ 1..j # 1..n
    BY <2>1
  <2>4. <<1..j, s>> \in StrictSubsetOrdering(Nat)
    BY <1>2, <2>2, <2>3, FS_Interval DEF StrictSubsetOrdering, FiniteSubsetsOf
  <2> QED BY <1>1, <2>2, <2>4
<1> QED BY <1>2, <1>3 DEF First

LEMMA FirstUnique ==
  ASSUME NEW f, NEW g, Len(f) \in Nat, Len(g) \in Nat, Len(f) <= Len(g),
         \A i \in 1..Len(f) : g[i].of = f[i].of,
         NEW S, NEW i, NEW j, First(f, S, i), First(g, S, j)
  PROVE  i = j
<1>1. i \in 1..Len(f) /\ j \in 1..Len(g)
  BY DEF First
<1>2. i \in Int /\ j \in Int /\ 1 <= i /\ 1 <= j /\ i <= Len(f)
  BY <1>1
<1>3. ~(i < j)
  <2> SUFFICES ASSUME i < j PROVE FALSE
    OBVIOUS
  <2>1. i \in 1..(j - 1)
    BY <1>2
  <2> QED BY <1>1, <2>1 DEF First
<1>4. ~(j < i)
  <2> SUFFICES ASSUME j < i PROVE FALSE
    OBVIOUS
  <2>1. j \in 1..(i - 1) /\ j \in 1..Len(f)
    BY <1>2
  <2> QED BY <2>1 DEF First
<1> QED BY <1>2, <1>3, <1>4

LEMMA OldestFound ==
  ASSUME Len(spool) \in Nat, Sweeping, \A k \in sweep.names : OnVolume(k)
  PROVE  First(spool, sweep.names, Oldest) /\ Name \in sweep.names
<1>1. \E i : First(spool, sweep.names, i)
  BY FirstFound DEF Sweeping, OnVolume
<1>2. First(spool, sweep.names, Oldest)
  BY <1>1 DEF First, Oldest
<1> QED BY <1>2 DEF First, Name, Current

(* Records are only added: accounts stand, and so does the sweep.          *)
Grown ==
  /\ stored \subseteq stored' /\ lost \subseteq lost' /\ Len(spool) <= Len(spool')
  /\ \A i \in 1..Len(spool) : spool'[i].of = spool[i].of

LEMMA AccountsStand ==
  ASSUME Volume, Volume', Grown, NEW k, Accounted(k)
  PROVE  Accounted(k)'
<1>1. Len(spool) \in Nat /\ Len(spool') \in Nat
  BY DEF Volume
<1>2. OnVolume(k) => OnVolume(k)'
  BY <1>1 DEF OnVolume, Grown
<1> QED BY <1>2 DEF Accounted, Grown

LEMMA SweepStands ==
  ASSUME Volume, Volume', Grown, SweepInv, UNCHANGED sweep
  PROVE  SweepInv'
<1>1. Len(spool) \in Nat /\ Len(spool') \in Nat
  BY DEF Volume
<1>2. \A k \in sweep.names : OnVolume(k)'
  BY <1>1 DEF OnVolume, Grown, SweepInv
<1>3. ASSUME Sweeping PROVE Name' = Name
  <2>1. First(spool, sweep.names, Oldest)
    BY <1>1, <1>3, OldestFound DEF SweepInv
  <2>2. \E i : First(spool', sweep.names, i)
    BY <1>1, <1>2, <1>3, FirstFound DEF Sweeping, OnVolume
  <2>3. First(spool', sweep.names, Oldest')
    BY <2>2 DEF First, Oldest
  <2>4. Oldest' = Oldest
    BY <1>1, <2>1, <2>3, FirstUnique DEF Grown
  <2> QED BY <2>1, <2>4 DEF Name, Current, Grown, First
<1> QED BY <1>2, <1>3 DEF SweepInv, Sweeping, Grown

-----------------------------------------------------------------------------
(* The steps of a stream.                                                  *)
LEMMA Opened ==
  ASSUME IInv, NEW k \in Connections, stream[k].at # "unopened"
  PROVE  client.on \in Int /\ k \in Int /\ k <= client.on
<1>1. client.on \in Int /\ k \in Int
  BY Facts, Numbers DEF Types, ClientRows
<1>2. ~(k > client.on)
  BY Facts DEF StreamInv, Unopened
<1> QED BY <1>1, <1>2

(* One stream moves, others and the client stand.                          *)
LEMMA StreamMoves ==
  ASSUME IInv, NEW k \in Connections, stream[k].at # "unopened",
         NEW s \in StreamRows(log), stream' = [stream EXCEPT ![k] = s],
         UNCHANGED <<log, aged, revoked, client, sweep>>, faults' \in 0..MaxFaults,
         Volume', Grown, RowInv(s), k = client.on => Faces(s, client),
         s.at = "closed" => Accounted(k)'
  PROVE  IInv' /\ Follows
<1>1. Types /\ Volume /\ SweepInv
  BY Facts
<1>2. Types'
  BY <1>1 DEF Types
<1>3. SweepInv'
  BY <1>1, SweepStands
<1>4. ASSUME NEW j \in Connections PROVE StreamInv(j)'
  <2>1. StreamInv(j) /\ k <= client.on /\ k \in Int /\ client.on \in Int
    BY Facts, Opened
  <2>2. CASE j = k
    <3>1. stream'[j] = s /\ ~(k > client.on)
      BY <1>1, <2>1, <2>2 DEF Types
    <3> QED BY <2>2, <3>1 DEF StreamInv, RowInv
  <2>3. CASE j # k
    <3>1. stream'[j] = stream[j]
      BY <1>1, <2>3 DEF Types
    <3>2. Accounted(j) => Accounted(j)'
      BY <1>1, AccountsStand
    <3> QED BY <2>1, <3>1, <3>2 DEF StreamInv, RowInv
  <2> QED BY <2>2, <2>3
<1>5. (client.at = "streaming" => client.on \in Connections)'
  BY Facts
<1> QED BY <1>2, <1>3, <1>4, <1>5, Assembled DEF Follows

StoreSame == UNCHANGED <<stored, spool, sweep, lost>>

LEMMA Stands ==
  ASSUME IInv, StoreSame
  PROVE  Volume' /\ Grown
<1>1. Volume
  BY Facts
<1>2. Len(spool) \in Nat
  BY <1>1 DEF Volume
<1> QED BY <1>1, <1>2 DEF StoreSame, Volume, Grown

(* The moves that leave the records alone.                                 *)
LEMMA Serves ==
  ASSUME IInv, NEW k \in Connections, stream[k].at \in Sending,
         NEW s \in StreamRows(log), stream' = [stream EXCEPT ![k] = s],
         UNCHANGED <<log, aged, revoked, client>>, StoreSame, faults' \in 0..MaxFaults,
         RowInv(s), k = client.on => Faces(s, client), s.at # "closed"
  PROVE  IInv' /\ Follows
<1>1. stream[k].at # "unopened" /\ UNCHANGED sweep
  BY DEF Sending, StoreSame
<1> QED BY <1>1, Stands, StreamMoves

LEMMA RowFacts ==
  ASSUME IInv, NEW k \in Connections
  PROVE  /\ stream[k] \in StreamRows(log) /\ RowInv(stream[k])
         /\ k = client.on => Faces(stream[k], client)
         /\ stream \in [Connections -> StreamRows(log)]
         /\ log \in Nat /\ aged \in Nat /\ revoked \in BOOLEAN /\ faults \in 0..MaxFaults
         /\ client \in ClientRows(log) /\ client.last \in Nat
BY Facts DEF Types, StreamInv, ClientRows

(* The client moves, and with it the stream of its connection; what lay on *)
(* the one it had before may be gone.                                      *)
Drained(j) == [stream[j] EXCEPT !.wire = <<>>]

LEMMA ClientAndStreams ==
  ASSUME IInv, NEW k \in Connections, k = client'.on, client.on <= k,
         stream' \in [Connections -> StreamRows(log)],
         \A j \in Connections \ {k} :
           stream'[j] = stream[j] \/ (j = client.on /\ stream'[j] = Drained(j)),
         client' \in ClientRows(log), UNCHANGED <<log, aged, revoked, faults>>, StoreSame,
         RowInv(stream'[k]), Faces(stream'[k], client'),
         stream'[k].at = "closed" => stream[k].at = "closed"
  PROVE  IInv'
<1>1. /\ Types /\ Volume /\ SweepInv /\ k \in Int /\ client.on \in Int
      /\ stream \in [Connections -> StreamRows(log)]
  BY Facts, Numbers DEF Types, ClientRows
<1>2. Types'
  BY <1>1 DEF Types
<1>3. Volume' /\ SweepInv' /\ UNCHANGED sweep
  BY <1>1, Stands, SweepStands DEF StoreSame
<1>4. ASSUME NEW j \in Connections PROVE StreamInv(j)'
  <2>1. StreamInv(j) /\ (Accounted(j) => Accounted(j)') /\ j \in Int
    BY Facts, ConnectionIsInt DEF StoreSame, Accounted, OnVolume
  <2>2. CASE j = k
    <3>1. ~(j > client'.on)
      BY <1>1, <2>2
    <3> QED BY <2>1, <2>2, <3>1 DEF StreamInv, RowInv
  <2>3. CASE j # k /\ stream'[j] = stream[j]
    <3>1. j > client'.on => j > client.on
      BY <1>1, <2>1
    <3> QED BY <2>1, <2>3, <3>1 DEF StreamInv, RowInv
  <2>4. CASE j # k /\ j = client.on /\ stream'[j] = Drained(j)
    <3>1. ~(j > client'.on)
      BY <1>1, <2>4
    <3>2. /\ Drained(j).at = stream[j].at /\ Drained(j).cursor = stream[j].cursor
          /\ Drained(j).to = stream[j].to /\ Drained(j).late = stream[j].late
      BY <1>1 DEF Drained, StreamRows
    <3> QED BY <2>1, <2>4, <3>1, <3>2 DEF StreamInv, RowInv
  <2> QED BY <2>2, <2>3, <2>4
<1> QED BY <1>2, <1>3, <1>4, Assembled

LEMMA ClientMoves ==
  ASSUME IInv, NEW k \in Connections, k = client'.on, client.on <= k,
         NEW s \in StreamRows(log), stream' = [stream EXCEPT ![k] = s],
         client' \in ClientRows(log), UNCHANGED <<log, aged, revoked, faults>>, StoreSame,
         RowInv(s), Faces(s, client'), s.at = "closed" => stream[k].at = "closed"
  PROVE  IInv'
<1>1. stream \in [Connections -> StreamRows(log)]
  BY RowFacts
<1>2. /\ stream' \in [Connections -> StreamRows(log)] /\ stream'[k] = s
      /\ \A j \in Connections \ {k} : stream'[j] = stream[j]
  BY <1>1
<1> QED BY <1>2, ClientAndStreams

(* What a stream that ends owes is a record of its cursor.                 *)
EndedRow(s) == [s EXCEPT !.at = "record", !.to = 0, !.more = FALSE, !.wrote = FALSE, !.late = 0]

LEMMA EndedFacts ==
  ASSUME IInv, NEW k \in Connections
  PROVE  LET e == EndedRow(stream[k]) IN
         /\ e \in StreamRows(log) /\ Ended(k) = [stream EXCEPT ![k] = e]
         /\ e.at = "record" /\ e.cursor = stream[k].cursor /\ e.wire = stream[k].wire
         /\ RowInv(e)
<1> DEFINE e == EndedRow(stream[k])
<1>1. stream[k] \in StreamRows(log) /\ stream \in [Connections -> StreamRows(log)] /\ 0 \in 0..log
  BY RowFacts
<1>2. /\ e \in StreamRows(log) /\ e.at = "record" /\ e.cursor = stream[k].cursor
      /\ e.wire = stream[k].wire /\ e.late = 0
  BY <1>1 DEF EndedRow, StreamRows
<1>3. Ended(k) = [stream EXCEPT ![k] = e]
  BY <1>1 DEF Ended, EndedRow
<1>4. RowInv(e)
  BY <1>2 DEF RowInv, Allowed
<1> QED BY <1>2, <1>3, <1>4

(* A stream that was sending ends with all it sent on the way.             *)
LEMMA EndFaces ==
  ASSUME IInv, NEW k \in Connections, stream[k].at \in Sending, k = client.on, NEW e,
         e.at = "record", e.cursor = stream[k].cursor, e.wire = stream[k].wire
  PROVE  Faces(e, client)
<1>1. stream[k] \in StreamRows(log) /\ Faces(stream[k], client) /\ client.last \in Nat
  BY RowFacts
<1>2. stream[k].cursor \in Nat /\ Len(stream[k].wire) \in Nat
  BY <1>1, RowFacts DEF StreamRows
<1> QED BY <1>1, <1>2 DEF Faces, Continues, Sending

LEMMA Ends ==
  ASSUME IInv, NEW k \in Connections, stream[k].at \in Sending, End(k),
         UNCHANGED <<log, aged, revoked, client>>, StoreSame, faults' \in 0..MaxFaults
  PROVE  IInv' /\ Follows
<1> DEFINE e == EndedRow(stream[k])
<1>1. /\ e \in StreamRows(log) /\ stream' = [stream EXCEPT ![k] = e] /\ RowInv(e)
      /\ e.at = "record" /\ e.cursor = stream[k].cursor /\ e.wire = stream[k].wire
  BY EndedFacts DEF End
<1> HIDE DEF e
<1>2. k = client.on => Faces(e, client)
  BY <1>1, EndFaces
<1> QED BY <1>1, <1>2, Serves

LEMMA HangUpKeeps ==
  ASSUME IInv, NEW k \in Connections, HangUp(k)
  PROVE  IInv' /\ Follows
<1>1. /\ stream[k].at \in Sending /\ End(k) /\ StoreSame /\ UNCHANGED <<log, aged, revoked, client>>
  BY DEF HangUp, Serving, Sending, StoreSame
<1>2. faults' \in 0..MaxFaults
  BY RowFacts, Numbers DEF HangUp, Fault
<1> QED BY <1>1, <1>2, Ends

(* A step that only goes to another place, with or without a frame.        *)
LEMMA Goes ==
  ASSUME IInv, NEW k \in Connections, stream[k].at \in Sending,
         NEW s \in StreamRows(log), stream' = [stream EXCEPT ![k] = s],
         s.at \in {"replay", "write", "wait"}, s.cursor = stream[k].cursor,
         s.to = stream[k].to, s.wire = stream[k].wire,
         s.at = "write" => s.cursor < s.to, s.late <= Allowed[s.at], ~revoked => s.late = 0,
         UNCHANGED <<log, aged, revoked, client, faults>>, StoreSame
  PROVE  IInv' /\ Follows
<1>1. RowInv(s) /\ faults \in 0..MaxFaults
  BY RowFacts DEF RowInv
<1>2. k = client.on => Faces(s, client)
  BY RowFacts DEF Faces, Continues, Sending
<1> QED BY <1>1, <1>2, Serves

LEMMA WakeKeeps ==
  ASSUME IInv, NEW k \in Connections, Wake(k)
  PROVE  IInv' /\ Follows
<1> DEFINE s == stream[k]
<1>1. /\ s.at = "wait" /\ stream' = [stream EXCEPT ![k].at = "replay"] /\ StoreSame
      /\ UNCHANGED <<log, aged, revoked, client, faults>>
  BY DEF Wake, At, Go, StoreSame
<1>2. s \in StreamRows(log) /\ RowInv(s)
  BY RowFacts
<1>3. s.wrote \in BOOLEAN /\ s.late \in Nat /\ s.late <= 2 /\ (~revoked => s.late = 0)
  BY <1>1, <1>2 DEF StreamRows, RowInv, Allowed
<1> DEFINE r == [s EXCEPT !.at = "replay"]
<1>4. /\ stream' = [stream EXCEPT ![k] = r] /\ r \in StreamRows(log) /\ r.at = "replay"
      /\ r.cursor = s.cursor /\ r.to = s.to /\ r.wire = s.wire /\ r.late = s.late
  BY <1>1, <1>2, RowFacts DEF StreamRows
<1>5. r.late <= Allowed[r.at] /\ stream[k].at \in Sending
  BY <1>1, <1>3, <1>4 DEF Allowed, Sending
<1> HIDE DEF r
<1> QED BY <1>1, <1>3, <1>4, <1>5, Goes

LEMMA DeltaKeeps ==
  ASSUME IInv, NEW k \in Connections, Delta(k)
  PROVE  IInv' /\ Follows
<1> DEFINE s == stream[k]
<1>1. /\ s.at = "wait" /\ StoreSame /\ UNCHANGED <<log, aged, revoked, client, faults>>
      /\ stream' = [stream EXCEPT ![k].at = "replay", ![k].wrote = TRUE, ![k].late = Late(k)]
  BY DEF Delta, At, StoreSame
<1>2. s \in StreamRows(log) /\ RowInv(s)
  BY RowFacts
<1>3. Late(k) \in Nat /\ Late(k) <= 2 /\ (~revoked => Late(k) = 0)
  BY <1>1, <1>2 DEF StreamRows, RowInv, Allowed, Late
<1> DEFINE r == [s EXCEPT !.at = "replay", !.wrote = TRUE, !.late = Late(k)]
<1>4. /\ stream' = [stream EXCEPT ![k] = r] /\ r \in StreamRows(log) /\ r.at = "replay"
      /\ r.cursor = s.cursor /\ r.to = s.to /\ r.wire = s.wire /\ r.late = Late(k)
  BY <1>1, <1>2, <1>3, RowFacts DEF StreamRows
<1>5. r.late <= Allowed[r.at] /\ stream[k].at \in Sending
  BY <1>1, <1>3, <1>4 DEF Allowed, Sending
<1> HIDE DEF r
<1> QED BY <1>1, <1>3, <1>4, <1>5, Goes

LEMMA HeartbeatKeeps ==
  ASSUME IInv, NEW k \in Connections, Heartbeat(k)
  PROVE  IInv' /\ Follows
<1> DEFINE s == stream[k]
<1>1. /\ s.at = "wait" /\ StoreSame /\ UNCHANGED <<log, aged, revoked, client, faults>>
  BY DEF Heartbeat, At, StoreSame
<1>2. s \in StreamRows(log) /\ RowInv(s) /\ faults \in 0..MaxFaults
  BY RowFacts
<1>3. s.late \in Nat /\ s.late <= 2 /\ (~revoked => s.late = 0)
  BY <1>1, <1>2 DEF StreamRows, RowInv, Allowed
<1>4. CASE End(k)
  BY <1>1, <1>2, <1>4, Ends DEF Sending
<1>5. CASE stream' = [stream EXCEPT ![k].at = "replay", ![k].wrote = TRUE]
  <2> DEFINE r == [s EXCEPT !.at = "replay", !.wrote = TRUE]
  <2>1. /\ stream' = [stream EXCEPT ![k] = r] /\ r \in StreamRows(log) /\ r.at = "replay"
        /\ r.cursor = s.cursor /\ r.to = s.to /\ r.wire = s.wire /\ r.late = s.late
    BY <1>2, <1>5, RowFacts DEF StreamRows
  <2>2. r.late <= Allowed[r.at] /\ stream[k].at \in Sending
    BY <1>1, <1>3, <2>1 DEF Allowed, Sending
  <2> HIDE DEF r
  <2> QED BY <1>1, <1>3, <2>1, <2>2, Goes
<1> QED BY <1>4, <1>5 DEF Heartbeat, Revalidated, End

LEMMA ClearKeeps ==
  ASSUME IInv, NEW k \in Connections, Clear(k)
  PROVE  IInv' /\ Follows
<1> DEFINE s == stream[k]
<1>1. /\ s.at = "event" /\ StoreSame /\ UNCHANGED <<log, aged, revoked, client, faults>>
  BY DEF Clear, At, StoreSame
<1>2. s \in StreamRows(log) /\ RowInv(s) /\ faults \in 0..MaxFaults
  BY RowFacts
<1>3. CASE End(k)
  BY <1>1, <1>2, <1>3, Ends DEF Sending
<1>4. CASE ~revoked /\ stream' = [stream EXCEPT ![k].at = "write"]
  <2>1. s.late = 0 /\ s.cursor < s.to
    BY <1>1, <1>2, <1>4 DEF StreamRows, RowInv
  <2> DEFINE r == [s EXCEPT !.at = "write"]
  <2>2. /\ stream' = [stream EXCEPT ![k] = r] /\ r \in StreamRows(log) /\ r.at = "write"
        /\ r.cursor = s.cursor /\ r.to = s.to /\ r.wire = s.wire /\ r.late = s.late
    BY <1>2, <1>4, RowFacts DEF StreamRows
  <2>3. r.late <= Allowed[r.at] /\ stream[k].at \in Sending
    BY <1>1, <2>1, <2>2 DEF Allowed, Sending
  <2> HIDE DEF r
  <2> QED BY <1>1, <2>1, <2>2, <2>3, Goes
<1> QED BY <1>3, <1>4 DEF Clear, Revalidated, End

LEMMA PageFacts ==
  ASSUME IInv, NEW k \in Connections
  PROVE  PageEnd(k) \in 0..log /\ stream[k].cursor <= PageEnd(k)
<1>1. stream[k].cursor \in 0..log /\ log \in Nat
  BY RowFacts DEF StreamRows
<1> QED BY <1>1, Numbers DEF PageEnd

LEMMA ReplayKeeps ==
  ASSUME IInv, NEW k \in Connections, Replay(k)
  PROVE  IInv' /\ Follows
<1> DEFINE s == stream[k]
           more == PageEnd(k) < log
           page == [s EXCEPT !.at = "event", !.to = PageEnd(k), !.more = more]
<1>1. /\ s.at = "replay" /\ StoreSame /\ UNCHANGED <<log, aged, revoked, client, faults>>
  BY DEF Replay, At, StoreSame
<1>2. s \in StreamRows(log) /\ RowInv(s) /\ faults \in 0..MaxFaults
  BY RowFacts
<1>3. CASE End(k)
  BY <1>1, <1>2, <1>3, Ends DEF Sending
<1>4. CASE ~revoked /\ stream' = [stream EXCEPT ![k].at = "wait"]
  <2>1. s.late = 0
    BY <1>1, <1>2, <1>4 DEF StreamRows, RowInv
  <2> DEFINE r == [s EXCEPT !.at = "wait"]
  <2>2. /\ stream' = [stream EXCEPT ![k] = r] /\ r \in StreamRows(log) /\ r.at = "wait"
        /\ r.cursor = s.cursor /\ r.to = s.to /\ r.wire = s.wire /\ r.late = s.late
    BY <1>2, <1>4, RowFacts DEF StreamRows
  <2>3. r.late <= Allowed[r.at] /\ stream[k].at \in Sending
    BY <1>1, <2>1, <2>2 DEF Allowed, Sending
  <2> HIDE DEF r
  <2> QED BY <1>1, <2>1, <2>2, <2>3, Goes
<1>5. CASE ~revoked /\ PageEnd(k) # s.cursor /\ stream' = [stream EXCEPT ![k] = page]
  <2>1. PageEnd(k) \in 0..log /\ s.cursor < PageEnd(k) /\ s.late = 0
    <3>1. s.cursor \in 0..log /\ log \in Nat
      BY RowFacts DEF StreamRows
    <3> QED BY <1>2, <1>5, <3>1, PageFacts DEF RowInv
  <2>2. more \in BOOLEAN
    OBVIOUS
  <2> HIDE DEF more
  <2>3. /\ page \in StreamRows(log) /\ page.at = "event" /\ page.to = PageEnd(k)
        /\ page.cursor = s.cursor /\ page.late = 0 /\ page.wire = s.wire
    BY <1>2, <2>1, <2>2 DEF StreamRows
  <2> HIDE DEF page
  <2>4. RowInv(page)
    BY <2>1, <2>3 DEF RowInv, Allowed
  <2>5. k = client.on => Faces(page, client)
    BY <1>1, <2>3, RowFacts DEF Faces, Continues, Sending
  <2> QED BY <1>1, <1>2, <1>5, <2>3, <2>4, <2>5, Serves DEF Sending
<1>6. CASE ~revoked /\ stream' = Paged(k)
  <2>1. [stream EXCEPT ![k].at = "event", ![k].to = PageEnd(k), ![k].more = PageEnd(k) < log]
          = [stream EXCEPT ![k] = page]
    BY <1>2, RowFacts DEF StreamRows
  <2> QED BY <1>4, <1>5, <1>6, <2>1 DEF Paged
<1> QED BY <1>3, <1>6 DEF Replay, Revalidated, End

LEMMA ReplayExpiredKeeps ==
  ASSUME IInv, NEW k \in Connections, ReplayExpired(k)
  PROVE  IInv' /\ Follows
<1> DEFINE e == EndedRow(stream[k])
<1>1. /\ stream[k].at = "replay" /\ StoreSame /\ UNCHANGED <<log, aged, revoked, faults>> /\ End(k)
  BY DEF ReplayExpired, At, StoreSame
<1>2. CASE client' = client
  BY <1>1, <1>2, RowFacts, Ends DEF Sending
<1>3. CASE Listening(k) /\ client' = [client EXCEPT !.at = "expired"]
  <2>1. client \in ClientRows(log) /\ client.on = k
    BY <1>3, RowFacts DEF Listening
  <2>2. /\ client' \in ClientRows(log) /\ client'.at = "expired" /\ client'.on = client.on
        /\ client'.last = client.last
    BY <1>3, <2>1 DEF ClientRows
  <2>3. /\ e \in StreamRows(log) /\ stream' = [stream EXCEPT ![k] = e] /\ RowInv(e)
        /\ e.at = "record" /\ e.cursor = stream[k].cursor /\ e.wire = stream[k].wire
    BY <1>1, EndedFacts DEF End
  <2> HIDE DEF e
  <2>4. Faces(e, client)
    BY <1>1, <2>1, <2>3, EndFaces DEF Sending
  <2>5. Faces(e, client') /\ client.on <= k
    BY <1>1, <1>3, <2>1, <2>2, <2>4, Opened DEF Faces, Continues, Listening
  <2>6. IInv'
    BY <1>1, <2>1, <2>2, <2>3, <2>5, ClientMoves
  <2> QED BY <2>2, <2>6 DEF Follows
<1> QED BY <1>2, <1>3 DEF ReplayExpired

(* The frame that follows the cursor.                                      *)
Reads(k) == client.on = k /\ client.at # "recovered"

LEMMA WireFacts ==
  ASSUME IInv, NEW k \in Connections, stream[k].at = "write"
  PROVE  /\ stream[k].cursor + 1 \in 1..log
         /\ Wire(k, stream[k].cursor + 1) \in Seq(1..log)
         /\ Reads(k) =>
              /\ Len(Wire(k, stream[k].cursor + 1)) = Len(stream[k].wire) + 1
              /\ \A i \in 1..Len(Wire(k, stream[k].cursor + 1)) :
                   Wire(k, stream[k].cursor + 1)[i] = client.last + i
              /\ client.last + Len(stream[k].wire) = stream[k].cursor
<1> DEFINE s == stream[k]
           n == s.cursor + 1
<1>1. s \in StreamRows(log) /\ RowInv(s) /\ log \in Nat /\ client.last \in Nat
  BY RowFacts
<1>2. s.cursor \in 0..log /\ s.to \in 0..log /\ s.cursor < s.to /\ s.wire \in Seq(1..log)
  BY <1>1 DEF StreamRows, RowInv
<1>3. n \in 1..log
  BY <1>1, <1>2
<1> HIDE DEF n
<1>4. Wire(k, n) \in Seq(1..log)
  <2>1. Append(s.wire, n) \in Seq(1..log)
    BY <1>2, <1>3
  <2> QED BY <1>2, <2>1 DEF Wire
<1>5. ASSUME Reads(k)
      PROVE  /\ Len(Wire(k, n)) = Len(s.wire) + 1
             /\ \A i \in 1..Len(Wire(k, n)) : Wire(k, n)[i] = client.last + i
             /\ client.last + Len(s.wire) = s.cursor
  <2>1. Continues(s, client)
    BY <1>5, RowFacts DEF Reads, Faces
  <2>2. client.last + Len(s.wire) = s.cursor /\ Len(s.wire) \in Nat /\ s.at = "write"
    BY <1>2, <2>1 DEF Continues, Sending
  <2>3. Wire(k, n) = Append(s.wire, n)
    BY <1>5 DEF Wire, Reads
  <2>4. Len(Wire(k, n)) = Len(s.wire) + 1
    BY <1>2, <1>3, <2>3
  <2>5. ASSUME NEW i \in 1..(Len(s.wire) + 1) PROVE Append(s.wire, n)[i] = client.last + i
    <3>1. CASE i = Len(s.wire) + 1
      <4>1. Append(s.wire, n)[i] = n
        BY <1>2, <1>3, <3>1
      <4>2. n = client.last + i
        BY <1>1, <2>2, <3>1 DEF n
      <4> QED BY <4>1, <4>2
    <3>2. CASE i \in 1..Len(s.wire)
      BY <1>2, <1>3, <2>1, <3>2 DEF Continues
    <3> QED BY <2>2, <3>1, <3>2
  <2> QED BY <2>2, <2>3, <2>4, <2>5
<1> QED BY <1>3, <1>4, <1>5 DEF n

LEMMA WriteKeeps ==
  ASSUME IInv, NEW k \in Connections, Write(k)
  PROVE  IInv' /\ Follows
<1> DEFINE s == stream[k]
           n == s.cursor + 1
           w == Wire(k, n)
           late == Late(k)
<1>1. /\ s.at = "write" /\ StoreSame /\ UNCHANGED <<log, aged, revoked, client, faults>>
      /\ stream' = [stream EXCEPT ![k] = [AfterEvent(k) EXCEPT !.wire = w]]
  BY DEF Write, At, StoreSame
<1>2. /\ s \in StreamRows(log) /\ RowInv(s) /\ faults \in 0..MaxFaults /\ log \in Nat
      /\ client.last \in Nat
  BY RowFacts
<1>3. /\ n \in 1..log /\ w \in Seq(1..log)
      /\ Reads(k) => /\ Len(w) = Len(s.wire) + 1
                     /\ \A i \in 1..Len(w) : w[i] = client.last + i
                     /\ client.last + Len(s.wire) = s.cursor
  BY <1>1, WireFacts
<1>4. /\ s.cursor \in Nat /\ s.to \in 0..log /\ s.cursor < s.to /\ n <= s.to
      /\ late \in Nat /\ late <= 1 /\ (~revoked => late = 0) /\ Len(s.wire) \in Nat
  <2>1. s.cursor \in Nat /\ s.to \in 0..log /\ s.cursor < s.to /\ s.late = 0 /\ Len(s.wire) \in Nat
    BY <1>1, <1>2 DEF StreamRows, RowInv, Allowed
  <2> QED BY <2>1 DEF Late
<1>5. PICK r \in StreamRows(log) :
        /\ r = [AfterEvent(k) EXCEPT !.wire = w]
        /\ r.at \in {"event", "replay", "wait"} /\ (r.at = "event" => n < r.to)
        /\ r.cursor = n /\ r.late = late /\ r.wire = w
  <2> DEFINE Row(c, l) == [s EXCEPT !.cursor = c, !.wrote = TRUE, !.late = l]
  <2>1. Sent(k) = Row(n, late)
    BY DEF Sent
  <2>2. Sent(k) \in StreamRows(log) /\ Sent(k).cursor = n /\ Sent(k).to = s.to /\ Sent(k).late = late
    <3>1. \A c \in 0..log, l \in Nat :
            /\ Row(c, l) \in StreamRows(log) /\ Row(c, l).cursor = c /\ Row(c, l).to = s.to
            /\ Row(c, l).late = l
      BY <1>2 DEF StreamRows
    <3>2. n \in 0..log
      BY <1>3
    <3> HIDE DEF n, late, Row
    <3> QED BY <1>4, <2>1, <3>1, <3>2
  <2> HIDE DEF n, w, late, s, Row
  <2>3. CASE n < s.to
    <3>1. AfterEvent(k) = [Sent(k) EXCEPT !.at = "event"]
      BY <2>2, <2>3 DEF AfterEvent
    <3>2. LET r == [AfterEvent(k) EXCEPT !.wire = w] IN
          /\ r \in StreamRows(log) /\ r.at = "event" /\ r.to = s.to /\ r.cursor = n
          /\ r.late = late /\ r.wire = w
      BY <1>3, <2>2, <3>1 DEF StreamRows
    <3> QED BY <2>3, <3>2
  <2>4. CASE ~(n < s.to)
    <3>1. PICK at \in {"replay", "wait"} :
            AfterEvent(k) = [Sent(k) EXCEPT !.at = at, !.to = 0, !.more = FALSE]
      BY <2>2, <2>4 DEF AfterEvent
    <3>2. /\ AfterEvent(k) \in StreamRows(log) /\ AfterEvent(k).at = at
          /\ AfterEvent(k).cursor = n /\ AfterEvent(k).late = late
      <4>1. 0 \in 0..log
        BY <1>2
      <4> QED BY <2>2, <3>1, <4>1 DEF StreamRows
    <3>3. LET r == [AfterEvent(k) EXCEPT !.wire = w] IN
          /\ r \in StreamRows(log) /\ r.at = at /\ r.cursor = n
          /\ r.late = late /\ r.wire = w
      BY <1>3, <3>2 DEF StreamRows
    <3> QED BY <3>3
  <2> QED BY <2>3, <2>4
<1>6. RowInv(r)
  BY <1>4, <1>5 DEF RowInv, Allowed
<1>7. ASSUME k = client.on PROVE Faces(r, client)
  <2>1. ASSUME client.at # "recovered"
        PROVE  /\ Len(w) = Len(s.wire) + 1 /\ \A i \in 1..Len(w) : w[i] = client.last + i
               /\ client.last + Len(w) = n
    <3>1. Reads(k)
      BY <1>7, <2>1 DEF Reads
    <3>2. /\ Len(w) = Len(s.wire) + 1 /\ \A i \in 1..Len(w) : w[i] = client.last + i
          /\ client.last + Len(s.wire) = s.cursor
      BY <1>3, <3>1
    <3> HIDE DEF w
    <3>3. client.last + Len(w) = n
      BY <1>2, <1>4, <3>2
    <3> QED BY <3>2, <3>3
  <2> HIDE DEF w, n
  <2> QED BY <1>5, <2>1 DEF Faces, Continues
<1> HIDE DEF w, n, late
<1> QED BY <1>1, <1>2, <1>5, <1>6, <1>7, Serves DEF Sending

LEMMA WriteFailsKeeps ==
  ASSUME IInv, NEW k \in Connections, WriteFails(k)
  PROVE  IInv' /\ Follows
<1> DEFINE s == stream[k]
           n == s.cursor + 1
           e == EndedRow(s)
<1>1. /\ s.at = "write" /\ StoreSame /\ UNCHANGED <<log, aged, revoked, client>>
      /\ \E wire \in {s.wire, Wire(k, n)} : stream' = [Ended(k) EXCEPT ![k].wire = wire]
  BY DEF WriteFails, At, Broken, StoreSame
<1>2. PICK wire \in {s.wire, Wire(k, n)} : stream' = [Ended(k) EXCEPT ![k].wire = wire]
  BY <1>1
<1>3. faults' \in 0..MaxFaults
  BY RowFacts, Numbers DEF WriteFails, Fault
<1>4. /\ s \in StreamRows(log) /\ stream \in [Connections -> StreamRows(log)]
      /\ client.last \in Nat /\ s.cursor \in Nat /\ s.wire \in Seq(1..log) /\ Len(s.wire) \in Nat
  BY RowFacts DEF StreamRows
<1>5. /\ e \in StreamRows(log) /\ Ended(k) = [stream EXCEPT ![k] = e] /\ e.at = "record"
      /\ e.cursor = s.cursor /\ RowInv(e)
  BY EndedFacts
<1>6. wire \in Seq(1..log)
  BY <1>1, <1>4, WireFacts
<1>7. Reads(k) =>
        /\ \A i \in 1..Len(wire) : wire[i] = client.last + i
        /\ client.last + Len(wire) \in {s.cursor, s.cursor + 1}
  <2> SUFFICES ASSUME Reads(k)
               PROVE  /\ \A i \in 1..Len(wire) : wire[i] = client.last + i
                      /\ client.last + Len(wire) \in {s.cursor, s.cursor + 1}
    OBVIOUS
  <2>1. CASE wire = s.wire
    <3>1. Continues(s, client)
      BY RowFacts DEF Faces, Reads
    <3> QED BY <1>1, <1>4, <2>1, <3>1 DEF Continues, Sending
  <2>2. CASE wire = Wire(k, n)
    <3>1. /\ Len(Wire(k, n)) = Len(s.wire) + 1 /\ client.last + Len(s.wire) = s.cursor
          /\ \A i \in 1..Len(Wire(k, n)) : Wire(k, n)[i] = client.last + i
      BY <1>1, WireFacts
    <3> HIDE DEF s
    <3>2. /\ Len(wire) = Len(s.wire) + 1 /\ client.last + Len(s.wire) = s.cursor
          /\ \A i \in 1..Len(wire) : wire[i] = client.last + i
      BY <2>2, <3>1
    <3>3. client.last + Len(wire) = s.cursor + 1
      <4>1. client.last \in Nat /\ Len(s.wire) \in Nat
        BY <1>4
      <4>2. Len(wire) = Len(s.wire) + 1 /\ client.last + Len(s.wire) = s.cursor
        BY <3>2
      <4> QED BY <4>1, <4>2
    <3> QED BY <3>2, <3>3
  <2> QED BY <2>1, <2>2
<1> DEFINE r == [e EXCEPT !.wire = wire]
<1> HIDE DEF e
<1>8. /\ r \in StreamRows(log) /\ r.at = "record" /\ r.cursor = s.cursor /\ r.wire = wire
      /\ r.late = e.late /\ RowInv(r)
  BY <1>5, <1>6 DEF StreamRows, RowInv
<1>9. stream' = [stream EXCEPT ![k] = r]
  BY <1>2, <1>4, <1>5
<1> HIDE DEF r
<1>10. ASSUME k = client.on PROVE Faces(r, client)
  BY <1>7, <1>8, <1>10 DEF Faces, Continues, Sending, Reads
<1> QED BY <1>1, <1>3, <1>8, <1>9, <1>10, Serves DEF Sending

-----------------------------------------------------------------------------
(* The record of a disconnect goes to the store, to the volume, or is lost.*)
LEMMA Records ==
  ASSUME IInv, NEW k \in Connections, stream[k].at \in {"record", "spool"},
         NEW at \in {"spool", "closed"},
         stream' = [stream EXCEPT ![k].at = at, ![k].cursor = 0, ![k].wire = <<>>],
         UNCHANGED <<log, aged, revoked, client, sweep>>, faults' \in 0..MaxFaults,
         Volume', Grown, at = "closed" => Accounted(k)'
  PROVE  IInv' /\ Follows
<1> DEFINE s == stream[k]
           r == [s EXCEPT !.at = at, !.cursor = 0, !.wire = <<>>]
<1>1. /\ s \in StreamRows(log) /\ RowInv(s) /\ stream \in [Connections -> StreamRows(log)]
      /\ log \in Nat /\ 0 \in 0..log /\ <<>> \in Seq(1..log)
  BY RowFacts
<1>2. s.late = 0
  BY <1>1 DEF RowInv, Allowed, StreamRows
<1>3. /\ r \in StreamRows(log) /\ r.at = at /\ r.wire = <<>> /\ r.late = 0
      /\ stream' = [stream EXCEPT ![k] = r]
  BY <1>1, <1>2 DEF StreamRows
<1> HIDE DEF r
<1>4. RowInv(r)
  BY <1>3 DEF RowInv, Allowed
<1>5. k = client.on => Faces(r, client)
  BY <1>3, EmptySeq DEF Faces, Continues, Sending
<1> QED BY <1>3, <1>4, <1>5, StreamMoves

LEMMA Stored ==
  ASSUME IInv, NEW S \in SUBSET Connections, stored' = stored \cup S, UNCHANGED <<spool, sweep, lost>>
  PROVE  Volume' /\ Grown
<1>1. Volume /\ Len(spool) \in Nat
  BY Facts DEF Volume
<1> QED BY <1>1 DEF Volume, Grown

LEMMA RecordCursorKeeps ==
  ASSUME IInv, NEW k \in Connections, RecordCursor(k)
  PROVE  IInv' /\ Follows
<1>1. /\ stream[k].at = "record" /\ stream' = [stream EXCEPT ![k].at = "closed", ![k].cursor = 0, ![k].wire = <<>>]
      /\ UNCHANGED <<log, aged, revoked, client, sweep, faults>>
  BY DEF RecordCursor, At, Close
<1>2. Volume' /\ Grown /\ k \in stored'
  BY Stored DEF RecordCursor
<1> QED BY <1>1, <1>2, RowFacts, Records DEF Accounted

LEMMA RecordRefusedKeeps ==
  ASSUME IInv, NEW k \in Connections, RecordRefused(k)
  PROVE  IInv' /\ Follows
<1>1. /\ stream[k].at = "record" /\ stream' = [stream EXCEPT ![k].at = "spool", ![k].cursor = 0, ![k].wire = <<>>]
      /\ UNCHANGED <<log, aged, revoked, client, sweep, faults>>
  BY DEF RecordRefused, At
<1>2. Volume' /\ Grown
  <2>1. PICK S \in {{}, {k}} : stored' = stored \cup S
    BY DEF RecordRefused
  <2>2. S \in SUBSET Connections
    OBVIOUS
  <2> QED BY <2>1, <2>2, Stored DEF RecordRefused
<1> QED BY <1>1, <1>2, RowFacts, Records

LEMMA SpoolGrows ==
  ASSUME IInv, NEW k \in Connections, Room, spool' = Spooled(k), UNCHANGED <<stored, sweep>>,
         lost \subseteq lost', lost' \subseteq Connections
  PROVE  Volume' /\ Grown /\ Accounted(k)'
<1> DEFINE file == [of |-> k, readable |-> TRUE, aside |-> FALSE]
<1>1. Volume /\ spool \in Seq(FileRows) /\ Len(spool) \in Nat /\ Len(spool) < Capacity
  BY Facts DEF Volume, Room
<1>2. file \in FileRows /\ file.of = k
  BY DEF FileRows
<1>3. spool' = Append(spool, file)
  BY DEF Spooled
<1> HIDE DEF file
<1>4. /\ spool' \in Seq(FileRows) /\ Len(spool') = Len(spool) + 1
      /\ \A i \in 1..Len(spool) : spool'[i] = spool[i]
      /\ spool'[Len(spool) + 1] = file
  BY <1>1, <1>2, <1>3
<1>5. Volume' /\ Grown
  BY <1>1, <1>4, Numbers DEF Volume, Grown
<1>6. OnVolume(k)'
  BY <1>1, <1>2, <1>4 DEF OnVolume
<1> QED BY <1>5, <1>6 DEF Accounted

LEMMA SpoolCursorKeeps ==
  ASSUME IInv, NEW k \in Connections, SpoolCursor(k)
  PROVE  IInv' /\ Follows
<1>1. /\ stream[k].at = "spool" /\ stream' = [stream EXCEPT ![k].at = "closed", ![k].cursor = 0, ![k].wire = <<>>]
      /\ UNCHANGED <<log, aged, revoked, client, sweep, faults>>
  BY DEF SpoolCursor, At, Close
<1>2. Volume' /\ Grown /\ Accounted(k)'
  <2>1. lost' = lost /\ lost \subseteq Connections
    BY Facts DEF SpoolCursor, Volume
  <2> QED BY <2>1, SpoolGrows DEF SpoolCursor
<1> QED BY <1>1, <1>2, RowFacts, Records

LEMMA SpoolRefusedKeeps ==
  ASSUME IInv, NEW k \in Connections, SpoolRefused(k)
  PROVE  IInv' /\ Follows
<1>1. /\ stream[k].at = "spool" /\ stream' = [stream EXCEPT ![k].at = "closed", ![k].cursor = 0, ![k].wire = <<>>]
      /\ UNCHANGED <<log, aged, revoked, client, stored, sweep>> /\ lost' = lost \cup {k}
  BY DEF SpoolRefused, At, Close
<1>2. Volume /\ Len(spool) \in Nat /\ lost' \subseteq Connections
  BY <1>1, Facts DEF Volume
<1>3. CASE UNCHANGED <<spool, faults>>
  <2>1. Volume' /\ Grown /\ Accounted(k)'
    BY <1>1, <1>2, <1>3 DEF Volume, Grown, Accounted
  <2> QED BY <1>1, <1>3, <2>1, RowFacts, Records
<1>4. CASE Room /\ Fault /\ spool' = Spooled(k)
  <2>1. Volume' /\ Grown /\ Accounted(k)'
    BY <1>1, <1>2, <1>4, SpoolGrows
  <2>2. faults' \in 0..MaxFaults
    BY <1>4, RowFacts, Numbers DEF Fault
  <2> QED BY <1>1, <2>1, <2>2, Records
<1> QED BY <1>3, <1>4 DEF SpoolRefused

-----------------------------------------------------------------------------
(* The run, time and the volume.                                           *)
StreamsSame == UNCHANGED <<client, stream>>

(* Neither stream nor client moves.                                        *)
LEMMA AroundStreams ==
  ASSUME IInv, StreamsSame, Types', Volume', SweepInv', revoked => revoked',
         \A k \in Connections : Accounted(k) => Accounted(k)'
  PROVE  IInv' /\ Follows
<1>1. ASSUME NEW k \in Connections PROVE StreamInv(k)'
  <2>1. StreamInv(k) /\ (Accounted(k) => Accounted(k)')
    BY Facts
  <2> QED BY <2>1 DEF StreamInv, RowInv, StreamsSame
<1>2. (client.at = "streaming" => client.on \in Connections)'
  BY Facts DEF StreamsSame
<1> QED BY <1>1, <1>2, Assembled DEF Follows, StreamsSame

LEMMA StoreStands ==
  ASSUME IInv, StoreSame
  PROVE  Volume' /\ SweepInv' /\ \A k : Accounted(k) => Accounted(k)'
<1>1. Volume /\ SweepInv /\ Volume' /\ Grown /\ UNCHANGED sweep
  BY Facts, Stands DEF StoreSame
<1>2. SweepInv'
  BY <1>1, SweepStands
<1> QED BY <1>1, <1>2 DEF StoreSame, Accounted, OnVolume

LEMMA WiderRows ==
  ASSUME NEW n \in Nat
  PROVE  ClientRows(n) \subseteq ClientRows(n + 1) /\ StreamRows(n) \subseteq StreamRows(n + 1)
<1>1. 0..n \subseteq 0..(n + 1) /\ 1..n \subseteq 1..(n + 1)
  OBVIOUS
<1>2. Seq(1..n) \subseteq Seq(1..(n + 1))
  BY <1>1
<1> QED BY <1>1, <1>2 DEF ClientRows, StreamRows

LEMMA PublishKeeps == ASSUME IInv, Publish PROVE IInv' /\ Follows
<1>1. /\ StreamsSame /\ StoreSame /\ UNCHANGED <<aged, revoked, faults>> /\ log' = log + 1
      /\ log < MaxEvents
  BY DEF Publish, StreamsSame, StoreSame
<1>2. Types /\ log \in Nat /\ aged \in Nat
  BY Facts DEF Types
<1>3. /\ log' \in 0..MaxEvents /\ aged' \in 0..log'
      /\ ClientRows(log) \subseteq ClientRows(log') /\ StreamRows(log) \subseteq StreamRows(log')
  BY <1>1, <1>2, Numbers, WiderRows DEF Types
<1>4. Types'
  BY <1>1, <1>2, <1>3 DEF Types, StreamsSame
<1> QED BY <1>1, <1>4, StoreStands, AroundStreams

LEMMA AgeKeeps == ASSUME IInv, Age PROVE IInv' /\ Follows
<1>1. /\ StreamsSame /\ StoreSame /\ UNCHANGED <<log, revoked, faults>> /\ aged' = aged + 1
      /\ aged < log
  BY DEF Age, StreamsSame, StoreSame
<1>2. Types /\ log \in Nat
  BY Facts DEF Types
<1>3. aged' \in 0..log
  BY <1>1, <1>2 DEF Types
<1>4. Types'
  BY <1>1, <1>2, <1>3 DEF Types, StreamsSame
<1> QED BY <1>1, <1>4, StoreStands, AroundStreams

LEMMA RevokeKeeps == ASSUME IInv, Revoke PROVE IInv' /\ Follows
<1>1. /\ StreamsSame /\ StoreSame /\ UNCHANGED <<log, aged, faults>> /\ revoked'
  BY DEF Revoke, StreamsSame, StoreSame
<1>2. Types'
  BY <1>1, Facts DEF Revoke, Types, StreamsSame
<1> QED BY <1>1, <1>2, StoreStands, AroundStreams

LEMMA CorruptKeeps == ASSUME IInv, NEW i \in 1..Len(spool), Corrupt(i) PROVE IInv' /\ Follows
<1>1. /\ StreamsSame /\ UNCHANGED <<log, aged, revoked, stored, sweep, lost>> /\ Fault
      /\ spool' = [spool EXCEPT ![i].readable = FALSE]
  BY DEF Corrupt, StreamsSame
<1>2. Types /\ Volume /\ SweepInv /\ Len(spool) \in Nat /\ spool \in Seq(FileRows)
  BY Facts DEF Volume
<1>3. Types'
  BY <1>1, <1>2, Numbers DEF Types, StreamsSame, Fault
<1>4. /\ spool' \in Seq(FileRows) /\ Len(spool') = Len(spool)
      /\ \A j \in 1..Len(spool) : spool'[j].of = spool[j].of
  <2>1. spool[i] \in FileRows
    BY <1>2
  <2>2. [spool[i] EXCEPT !.readable = FALSE] \in FileRows
    BY <2>1 DEF FileRows
  <2>3. [spool[i] EXCEPT !.readable = FALSE].of = spool[i].of
    BY <2>1 DEF FileRows
  <2> QED BY <1>1, <1>2, <2>2, <2>3
<1>5. Volume' /\ Grown
  BY <1>1, <1>2, <1>4 DEF Volume, Grown
<1>6. SweepInv' /\ \A k : Accounted(k) => Accounted(k)'
  BY <1>1, <1>2, <1>5, SweepStands, AccountsStand
<1> QED BY <1>1, <1>3, <1>5, <1>6, AroundStreams

-----------------------------------------------------------------------------
(* The client.                                                             *)
LEMMA ConnectKeeps == ASSUME IInv, Connect PROVE IInv' /\ Follows
<1> DEFINE k == client.on + 1
           s == [Unopened EXCEPT !.at = "replay", !.cursor = client.last]
           c == [client EXCEPT !.at = "streaming", !.on = @ + 1]
<1>1. /\ k \in Connections /\ client' = c /\ UNCHANGED <<log, aged, revoked, faults>> /\ StoreSame
      /\ stream' = [stream EXCEPT ![k].at = "replay", ![k].cursor = client.last,
                                  ![client.on].wire = <<>>]
  BY DEF Connect, StoreSame
<1>2. /\ client \in ClientRows(log) /\ log \in Nat /\ stream \in [Connections -> StreamRows(log)]
      /\ client.on \in Nat /\ client.last \in 0..log
  <2>1. client \in ClientRows(log) /\ log \in Nat /\ stream \in [Connections -> StreamRows(log)]
    BY Facts DEF Types
  <2> QED BY <2>1, Numbers DEF ClientRows
<1>3. k \in 0..(Inherited + MaxConnections) /\ k > client.on /\ client.on <= k
  BY <1>1, <1>2 DEF Connections
<1>4. stream[k] = Unopened
  BY <1>1, <1>3, Facts DEF StreamInv
<1> HIDE DEF k
<1>5. /\ c \in ClientRows(log) /\ c.at = "streaming" /\ c.on = k /\ c.last = client.last
  <2>1. c = [client EXCEPT !.at = "streaming", !.on = k]
    BY <1>2 DEF k
  <2> QED BY <1>2, <1>3, <2>1 DEF ClientRows
<1>6. s \in StreamRows(log) /\ s.at = "replay" /\ s.late = 0 /\ s.wire = <<>> /\ s.cursor = client.last
  <2>1. 0 \in 0..log /\ 0 \in Nat /\ <<>> \in Seq(1..log)
    BY <1>2
  <2> QED BY <1>2, <2>1 DEF StreamRows, Unopened
<1>7. /\ stream' \in [Connections -> StreamRows(log)] /\ stream'[k] = s
      /\ \A j \in Connections \ {k} :
           stream'[j] = stream[j] \/ (j = client.on /\ stream'[j] = Drained(j))
  <2> DEFINE on == client.on
             f == [stream EXCEPT ![k] = s]
  <2>1. stream' = [f EXCEPT ![on].wire = <<>>]
    BY <1>1, <1>2, <1>4
  <2> HIDE DEF s
  <2>2. /\ f \in [Connections -> StreamRows(log)] /\ f[k] = s
        /\ \A j \in Connections \ {k} : f[j] = stream[j]
    BY <1>1, <1>2, <1>6
  <2>3. on # k
    BY <1>2, <1>3
  <2> HIDE DEF f, on
  <2>4. \A j \in Connections : j # on => stream'[j] = f[j]
    BY <2>1, <2>2
  <2>5. ASSUME on \in Connections
        PROVE  stream'[on] = [f[on] EXCEPT !.wire = <<>>] /\ stream'[on] \in StreamRows(log)
    <3>1. <<>> \in Seq(1..log)
      OBVIOUS
    <3> QED BY <2>1, <2>2, <2>5, <3>1 DEF StreamRows
  <2>6. stream' \in [Connections -> StreamRows(log)]
    <3>1. stream' = [j \in Connections |-> stream'[j]]
      BY <2>1, <2>2
    <3>2. \A j \in Connections : stream'[j] \in StreamRows(log)
      BY <2>2, <2>4, <2>5
    <3> QED BY <3>1, <3>2
  <2>7. stream'[k] = s
    BY <1>1, <2>2, <2>3, <2>4
  <2>8. ASSUME NEW j \in Connections \ {k}
        PROVE  stream'[j] = stream[j] \/ (j = client.on /\ stream'[j] = Drained(j))
    <3>1. CASE j # on
      BY <2>2, <2>4, <3>1
    <3>2. CASE j = on
      BY <2>2, <2>5, <3>2 DEF Drained, on
    <3> QED BY <3>1, <3>2
  <2> QED BY <2>6, <2>7, <2>8
<1> HIDE DEF s, c
<1>8. RowInv(s)
  BY <1>6 DEF RowInv, Allowed
<1>9. Faces(s, c)
  BY <1>2, <1>5, <1>6 DEF Faces, Continues
<1>10. IInv'
  BY <1>1, <1>3, <1>5, <1>6, <1>7, <1>8, <1>9, ClientAndStreams
<1> QED BY <1>1, <1>5, <1>10 DEF Follows

LEMMA ReceiveKeeps == ASSUME IInv, Receive PROVE IInv' /\ Follows
<1> DEFINE k == client.on
           w == stream[k].wire
           s == [stream[k] EXCEPT !.wire = Tail(w)]
           c == [client EXCEPT !.last = Head(w)]
<1>1. /\ client.at = "streaming" /\ w # <<>> /\ client' = c /\ StoreSame
      /\ UNCHANGED <<log, aged, revoked, faults>> /\ stream' = [stream EXCEPT ![k].wire = Tail(@)]
  BY DEF Receive, StoreSame
<1>2. k \in Connections
  BY <1>1, Facts
<1>3. /\ client \in ClientRows(log) /\ stream \in [Connections -> StreamRows(log)]
      /\ stream[k] \in StreamRows(log) /\ RowInv(stream[k]) /\ Continues(stream[k], client)
      /\ log \in Nat /\ client.last \in Nat
  BY <1>1, <1>2, RowFacts DEF Faces
<1>4. w \in Seq(1..log) /\ stream[k].cursor \in Nat /\ k \in Int
  <2>1. k \in Int
    BY <1>2, ConnectionIsInt
  <2> QED BY <1>3, <2>1 DEF StreamRows
<1> HIDE DEF w
<1>5. /\ Len(w) \in Nat \ {0} /\ Tail(w) \in Seq(1..log) /\ Len(Tail(w)) = Len(w) - 1
      /\ Head(w) = w[1] /\ Head(w) \in 1..log /\ \A i \in 1..Len(Tail(w)) : Tail(w)[i] = w[i + 1]
  <2>1. w \in Seq(1..log) /\ w # <<>> /\ Len(w) \in Nat \ {0}
    BY <1>1, <1>4, EmptySeq
  <2>2. /\ Head(w) \in 1..log /\ Tail(w) \in Seq(1..log) /\ Len(Tail(w)) = Len(w) - 1
        /\ \A i \in 1..Len(Tail(w)) : Tail(w)[i] = w[i + 1]
    BY <2>1, HeadTailProperties
  <2>3. Head(w) = w[1]
    BY <2>1
  <2> QED BY <2>1, <2>2, <2>3
<1>6. Head(w) = client.last + 1 /\ \A i \in 1..Len(w) : w[i] = client.last + i
  BY <1>3, <1>5 DEF Continues, w
<1>7. /\ s \in StreamRows(log) /\ s.at = stream[k].at /\ s.cursor = stream[k].cursor
      /\ s.to = stream[k].to /\ s.late = stream[k].late /\ s.wire = Tail(w)
      /\ stream' = [stream EXCEPT ![k] = s]
  BY <1>1, <1>3, <1>5 DEF StreamRows, w
<1>8. c \in ClientRows(log) /\ c.at = "streaming" /\ c.on = k /\ c.last = client.last + 1
  <2>1. Head(w) \in 0..log
    BY <1>5
  <2> QED BY <1>1, <1>3, <1>6, <2>1 DEF ClientRows
<1> HIDE DEF s, c
<1>9. /\ \A i \in 1..Len(s.wire) : s.wire[i] = c.last + i
      /\ c.last + Len(s.wire) = client.last + Len(w)
  <2>1. ASSUME NEW i \in 1..Len(Tail(w)) PROVE Tail(w)[i] = client.last + 1 + i
    <3>1. i + 1 \in 1..Len(w) /\ i \in Int
      BY <1>5
    <3>2. w[i + 1] = client.last + (i + 1)
      BY <1>6, <3>1
    <3>3. Tail(w)[i] = w[i + 1]
      BY <1>5
    <3> QED BY <1>3, <3>1, <3>2, <3>3
  <2> QED BY <1>3, <1>5, <1>7, <1>8, <2>1
<1>10. Faces(s, c)
  BY <1>3, <1>7, <1>8, <1>9 DEF Faces, Continues, w
<1>11. RowInv(s) /\ (s.at = "closed" => stream[k].at = "closed") /\ k <= k
  BY <1>3, <1>4, <1>7 DEF RowInv
<1>12. IInv'
  BY <1>1, <1>2, <1>7, <1>8, <1>10, <1>11, ClientMoves
<1> QED BY <1>1, <1>8, <1>12 DEF Follows

LEMMA DisconnectKeeps == ASSUME IInv, Disconnect PROVE IInv' /\ Follows
<1> DEFINE k == client.on
           c == [client EXCEPT !.at = "away"]
<1>1. /\ client.at = "streaming" /\ client' = c
      /\ UNCHANGED <<log, aged, revoked, stream, faults>> /\ StoreSame
  BY DEF Disconnect, StoreSame
<1>2. k \in Connections
  BY <1>1, Facts
<1>3. /\ client \in ClientRows(log) /\ stream \in [Connections -> StreamRows(log)]
      /\ stream[k] \in StreamRows(log) /\ RowInv(stream[k]) /\ Faces(stream[k], client)
      /\ k \in Int
  BY <1>1, <1>2, RowFacts, ConnectionIsInt
<1>4. c \in ClientRows(log) /\ c.at = "away" /\ c.on = k /\ c.last = client.last
  BY <1>1, <1>3 DEF ClientRows
<1> HIDE DEF c
<1>5. Faces(stream[k], c) /\ k <= k
  BY <1>1, <1>3, <1>4 DEF Faces, Continues
<1>6. IInv'
  BY <1>1, <1>2, <1>3, <1>4, <1>5, ClientAndStreams
<1> QED BY <1>1, <1>4, <1>6 DEF Follows

LEMMA SnapshotKeeps == ASSUME IInv, Snapshot PROVE IInv' /\ Follows
<1> DEFINE c == [client EXCEPT !.at = "recovered", !.last = log]
<1>1. /\ client.at = "expired" /\ client' = c /\ UNCHANGED <<log, aged, revoked, stream, faults>>
      /\ StoreSame
  BY DEF Snapshot, StoreSame
<1>2. Types /\ client \in ClientRows(log) /\ log \in Nat /\ client.last \in 0..log
  <2>1. Types /\ client \in ClientRows(log) /\ log \in Nat
    BY Facts DEF Types
  <2> QED BY <2>1 DEF ClientRows
<1>3. /\ c \in ClientRows(log) /\ c.at = "recovered" /\ c.on = client.on /\ c.last = log
  <2>1. log \in 0..log
    BY <1>2
  <2> QED BY <1>2, <2>1 DEF ClientRows
<1> HIDE DEF c
<1>4. Types'
  BY <1>1, <1>2, <1>3 DEF Types
<1>5. ASSUME NEW j \in Connections PROVE StreamInv(j)'
  <2>1. StreamInv(j) /\ (Accounted(j) => Accounted(j)') /\ Faces(stream[j], c)
    BY <1>1, <1>3, Facts, StoreStands DEF Faces
  <2> QED BY <1>1, <1>3, <2>1 DEF StreamInv, RowInv
<1>6. (client.at = "streaming" => client.on \in Connections)'
  BY <1>1, <1>3
<1>7. IInv'
  BY <1>1, <1>4, <1>5, <1>6, StoreStands, Assembled
<1> QED BY <1>1, <1>2, <1>3, <1>7 DEF Follows

-----------------------------------------------------------------------------
(* Drain, and a process that dies.                                         *)
LEMMA DrainMoves ==
  ASSUME IInv, UNCHANGED <<log, aged, revoked, client, stream>>, faults' \in 0..MaxFaults,
         Volume', SweepInv', \A k \in Connections : Accounted(k) => Accounted(k)'
  PROVE  IInv' /\ Follows
<1>1. Types' /\ StreamsSame
  BY Facts DEF Types, StreamsSame
<1> QED BY <1>1, AroundStreams

LEMMA SweepNamed ==
  ASSUME IInv, Sweeping
  PROVE  /\ Oldest \in 1..Len(spool) /\ Len(spool) \in Nat /\ spool \in Seq(FileRows)
         /\ spool[Oldest].of = Name /\ Name \in sweep.names /\ sweep \in SweepRows
<1>1. Volume /\ SweepInv /\ Len(spool) \in Nat
  BY Facts DEF Volume
<1>2. First(spool, sweep.names, Oldest) /\ Name \in sweep.names
  BY <1>1, OldestFound DEF SweepInv
<1> QED BY <1>1, <1>2 DEF First, Name, Current, Volume

LEMMA NoSweepRow == NoSweep \in SweepRows /\ NoSweep.names = {} /\ ~NoSweep.placed
BY Numbers DEF NoSweep, SweepRows

LEMMA BeginSweepKeeps == ASSUME IInv, BeginSweep PROVE IInv' /\ Follows
<1> DEFINE s == [NoSweep EXCEPT !.names = Names]
<1>1. sweep' = s /\ UNCHANGED <<log, aged, revoked, client, stream, stored, spool, lost, faults>>
  BY DEF BeginSweep
<1>2. Types /\ Volume /\ Len(spool) \in Nat /\ spool \in Seq(FileRows)
  BY Facts DEF Volume
<1>3. Names \in SUBSET Connections /\ \A k \in Names : OnVolume(k)
  <2>1. ASSUME NEW i \in 1..Len(spool) PROVE spool[i].of \in Connections
    <3>1. spool[i] \in FileRows
      BY <1>2
    <3> QED BY <3>1 DEF FileRows
  <2> QED BY <2>1 DEF Names, OnVolume
<1>4. s \in SweepRows /\ s.names = Names /\ ~s.placed
  <2>1. NoSweep \in SweepRows /\ ~NoSweep.placed
    BY NoSweepRow
  <2> HIDE DEF Names
  <2> QED BY <1>3, <2>1 DEF SweepRows
<1> HIDE DEF s
<1>5. Volume' /\ \A k \in Connections : Accounted(k) => Accounted(k)'
  BY <1>1, <1>2, <1>4 DEF Volume, Accounted, OnVolume
<1>6. SweepInv'
  BY <1>1, <1>3, <1>4 DEF SweepInv, OnVolume
<1>7. faults' \in 0..MaxFaults
  BY <1>1, <1>2 DEF Types
<1> QED BY <1>1, <1>5, <1>6, <1>7, DrainMoves

(* A sweep goes on without a record, or ends, while the volume keeps every *)
(* record but one that was placed.                                         *)
LEMMA SweepMoves ==
  ASSUME IInv, UNCHANGED <<log, aged, revoked, client, stream, stored, lost>>,
         faults' \in 0..MaxFaults, spool' \in Seq(FileRows), Len(spool') <= Capacity,
         NEW out, \A k : k # out => (OnVolume(k) => OnVolume(k)'),
         out \in stored \/ \A k : OnVolume(k) => OnVolume(k)',
         sweep' \in SweepRows, ~sweep'.placed,
         sweep'.names \subseteq sweep.names \ {out} \/ sweep'.names = {}
  PROVE  IInv' /\ Follows
<1>1. Volume /\ SweepInv
  BY Facts
<1>2. Volume'
  BY <1>1 DEF Volume
<1>3. \A k \in Connections : Accounted(k) => Accounted(k)'
  BY DEF Accounted
<1>4. SweepInv'
  BY <1>1 DEF SweepInv
<1> QED BY <1>2, <1>3, <1>4, DrainMoves

LEMMA SkippedRow ==
  ASSUME IInv, Sweeping
  PROVE  /\ Skipped \in SweepRows /\ ~Skipped.placed /\ Skipped.refused = sweep.refused
         /\ Skipped.names = sweep.names \ {Name}
<1> DEFINE Row(S) == [sweep EXCEPT !.names = S, !.placed = FALSE]
<1>1. \A S \in SUBSET Connections :
        /\ Row(S) \in SweepRows /\ ~Row(S).placed /\ Row(S).refused = sweep.refused
        /\ Row(S).names = S
  BY SweepNamed DEF SweepRows
<1>2. sweep.names \ {Name} \in SUBSET Connections
  BY SweepNamed DEF SweepRows
<1>3. Skipped = Row(sweep.names \ {Name})
  BY DEF Skipped
<1> HIDE DEF Row
<1> QED BY <1>1, <1>2, <1>3

LEMMA SetAsideKeeps == ASSUME IInv, SetAside PROVE IInv' /\ Follows
<1>1. /\ Sweeping /\ sweep' = Skipped /\ UNCHANGED <<log, aged, revoked, client, stream, stored, lost>>
      /\ \/ spool' = [spool EXCEPT ![Oldest].aside = TRUE] /\ UNCHANGED faults
         \/ Fault /\ UNCHANGED spool
  BY DEF SetAside
<1>2. faults' \in 0..MaxFaults
  BY <1>1, Facts, Numbers DEF Types, Fault
<1>3. /\ Len(spool) \in Nat /\ Len(spool) <= Capacity /\ spool \in Seq(FileRows)
      /\ Oldest \in 1..Len(spool)
  BY <1>1, Facts, SweepNamed DEF Volume
<1>4. /\ spool' \in Seq(FileRows) /\ Len(spool') = Len(spool)
      /\ \A j \in 1..Len(spool) : spool'[j].of = spool[j].of
  <2>1. spool[Oldest] \in FileRows
    BY <1>3
  <2>2. [spool[Oldest] EXCEPT !.aside = TRUE] \in FileRows
    BY <2>1 DEF FileRows
  <2>3. [spool[Oldest] EXCEPT !.aside = TRUE].of = spool[Oldest].of
    BY <2>1 DEF FileRows
  <2>4. CASE spool' = [spool EXCEPT ![Oldest].aside = TRUE]
    <3>1. spool' = [spool EXCEPT ![Oldest] = [spool[Oldest] EXCEPT !.aside = TRUE]]
      BY <2>4
    <3> DEFINE r == [spool[Oldest] EXCEPT !.aside = TRUE]
               i == Oldest
    <3>2. spool' = [spool EXCEPT ![i] = r] /\ r \in FileRows /\ r.of = spool[i].of /\ i \in 1..Len(spool)
      BY <1>3, <2>2, <2>3, <3>1
    <3> HIDE DEF r, i
    <3> QED BY <1>3, <3>2
  <2>5. CASE UNCHANGED spool
    BY <1>3, <2>5
  <2> QED BY <1>1, <2>4, <2>5
<1>5. \A k : OnVolume(k) => OnVolume(k)'
  BY <1>4 DEF OnVolume
<1>6. sweep' \in SweepRows /\ ~sweep'.placed /\ sweep'.names \subseteq sweep.names \ {Name}
  BY <1>1, SkippedRow
<1> QED BY <1>1, <1>2, <1>3, <1>4, <1>5, <1>6, SweepMoves

LEMMA PlaceKeeps == ASSUME IInv, Place PROVE IInv' /\ Follows
<1> DEFINE s == [sweep EXCEPT !.placed = TRUE, !.refused = 0]
<1>1. /\ Sweeping /\ stored' = stored \cup {Name} /\ sweep' = s
      /\ UNCHANGED <<log, aged, revoked, client, stream, spool, lost, faults>>
  BY DEF Place
<1>2. Types /\ Volume /\ SweepInv /\ sweep \in SweepRows /\ Name \in sweep.names
  BY <1>1, Facts, SweepNamed
<1>3. s \in SweepRows /\ s.names = sweep.names
  <2>1. 0 \in 0..RefusalBudget
    BY Numbers
  <2> QED BY <1>2, <2>1 DEF SweepRows
<1> HIDE DEF s
<1>4. Name \in Connections
  BY <1>2 DEF SweepRows
<1>5. Volume' /\ \A k \in Connections : Accounted(k) => Accounted(k)'
  BY <1>1, <1>2, <1>3, <1>4 DEF Volume, Accounted, OnVolume
<1>6. Name' = Name
  BY <1>1, <1>3 DEF Name, Current, Oldest
<1>7. SweepInv'
  BY <1>1, <1>2, <1>3, <1>6 DEF SweepInv, OnVolume
<1>8. faults' \in 0..MaxFaults
  BY <1>1, <1>2 DEF Types
<1> QED BY <1>1, <1>5, <1>7, <1>8, DrainMoves

LEMMA DeferKeeps == ASSUME IInv, Defer PROVE IInv' /\ Follows
<1>1. /\ Sweeping /\ Fault /\ UNCHANGED <<log, aged, revoked, client, stream, stored, spool, lost>>
      /\ sweep' = IF sweep.refused + 1 >= RefusalBudget THEN NoSweep
                  ELSE [Skipped EXCEPT !.refused = @ + 1]
  BY DEF Defer
<1>2. faults' \in 0..MaxFaults
  BY <1>1, Facts, Numbers DEF Types, Fault
<1>3. spool \in Seq(FileRows) /\ Len(spool) <= Capacity /\ sweep.refused \in Nat
  BY Facts, Numbers DEF Volume, SweepRows
<1>4. CASE sweep' = NoSweep
  BY <1>1, <1>2, <1>3, <1>4, NoSweepRow, SweepMoves DEF OnVolume
<1>5. CASE sweep.refused + 1 < RefusalBudget /\ sweep' = [Skipped EXCEPT !.refused = @ + 1]
  <2> DEFINE Row(n) == [Skipped EXCEPT !.refused = n]
  <2>1. \A n \in 0..RefusalBudget :
          /\ Row(n) \in SweepRows /\ ~Row(n).placed /\ Row(n).names = sweep.names \ {Name}
    BY <1>1, SkippedRow DEF SweepRows
  <2>2. sweep.refused + 1 \in 0..RefusalBudget
    BY <1>3, <1>5, Numbers
  <2>3. sweep' = Row(sweep.refused + 1)
    BY <1>1, <1>5, SkippedRow
  <2> HIDE DEF Row
  <2>4. sweep' \in SweepRows /\ ~sweep'.placed /\ sweep'.names \subseteq sweep.names \ {Name}
    BY <2>1, <2>2, <2>3
  <2>5. \A k : OnVolume(k) => OnVolume(k)'
    BY <1>1 DEF OnVolume
  <2> QED BY <1>1, <1>2, <1>3, <2>4, <2>5, SweepMoves
<1> QED BY <1>1, <1>3, <1>4, <1>5, Numbers

LEMMA ReleaseKeeps == ASSUME IInv, Release PROVE IInv' /\ Follows
<1>1. /\ Sweeping /\ sweep.placed /\ UNCHANGED <<log, aged, revoked, client, stream, stored, lost>>
      /\ \/ spool' = RemoveAt(spool, Oldest) /\ sweep' = Skipped /\ UNCHANGED faults
         \/ Fault /\ sweep' = NoSweep /\ UNCHANGED spool
  BY DEF Release
<1>2. faults' \in 0..MaxFaults
  BY <1>1, Facts, Numbers DEF Types, Fault
<1>3. /\ Len(spool) \in Nat /\ Len(spool) <= Capacity /\ spool \in Seq(FileRows)
      /\ Oldest \in 1..Len(spool) /\ spool[Oldest].of = Name /\ Name \in stored
  BY <1>1, Facts, SweepNamed DEF Volume, SweepInv
<1>4. CASE sweep' = NoSweep /\ UNCHANGED spool
  BY <1>1, <1>2, <1>3, <1>4, NoSweepRow, SweepMoves DEF OnVolume
<1>5. CASE spool' = RemoveAt(spool, Oldest) /\ sweep' = Skipped
  <2> DEFINE i == Oldest
             before == SubSeq(spool, 1, i - 1)
             after == SubSeq(spool, i + 1, Len(spool))
  <2>1. i \in Int /\ 1 <= i /\ i <= Len(spool)
    BY <1>3
  <2> HIDE DEF i
  <2>2. /\ before \in Seq(FileRows) /\ Len(before) = i - 1
        /\ \A j \in 1..(i - 1) : before[j] = spool[j]
    <3>1. \A j \in 1..(i - 1) : spool[j] \in FileRows
      BY <1>3, <2>1
    <3>2. 1 \in Int /\ i - 1 \in Int
      BY <2>1
    <3>3. /\ before \in Seq(FileRows) /\ Len(before) = IF 1 <= i - 1 THEN i - 1 - 1 + 1 ELSE 0
          /\ \A j \in 1..(i - 1 - 1 + 1) : before[j] = spool[1 + j - 1]
      BY <3>1, <3>2, SubSeqProperties
    <3> HIDE DEF before
    <3> QED BY <2>1, <3>3
  <2>3. /\ after \in Seq(FileRows) /\ Len(after) = Len(spool) - i
        /\ \A j \in 1..(Len(spool) - i) : after[j] = spool[i + j]
    <3>1. \A j \in (i + 1)..Len(spool) : spool[j] \in FileRows
      BY <1>3, <2>1
    <3>2. i + 1 \in Int /\ Len(spool) \in Int
      BY <1>3, <2>1
    <3>3. /\ after \in Seq(FileRows)
          /\ Len(after) = IF i + 1 <= Len(spool) THEN Len(spool) - (i + 1) + 1 ELSE 0
          /\ \A j \in 1..(Len(spool) - (i + 1) + 1) : after[j] = spool[(i + 1) + j - 1]
      BY <3>1, <3>2, SubSeqProperties
    <3> HIDE DEF after
    <3> QED BY <1>3, <2>1, <3>3
  <2>4. spool' = before \o after
    BY <1>5 DEF RemoveAt, i
  <2> HIDE DEF before, after
  <2>5. /\ spool' \in Seq(FileRows) /\ Len(spool') = Len(spool) - 1
        /\ \A j \in 1..Len(spool') : spool'[j] = IF j <= i - 1 THEN before[j] ELSE after[j - (i - 1)]
    <3>1. /\ spool' \in Seq(FileRows) /\ Len(spool') = Len(before) + Len(after)
          /\ \A j \in 1..(Len(before) + Len(after)) :
               spool'[j] = IF j <= Len(before) THEN before[j] ELSE after[j - Len(before)]
      BY <2>2, <2>3, <2>4, ConcatProperties
    <3> QED BY <1>3, <2>1, <2>2, <2>3, <3>1
  <2>6. ASSUME NEW k, k # Name, OnVolume(k) PROVE OnVolume(k)'
    <3>1. PICK j \in 1..Len(spool) : spool[j].of = k
      BY <2>6 DEF OnVolume
    <3>2. j # i /\ j \in Int
      BY <1>3, <2>6, <3>1 DEF i
    <3>3. CASE j < i
      <4>1. j \in 1..Len(spool') /\ j \in 1..(i - 1) /\ j <= i - 1
        BY <1>3, <2>1, <2>5, <3>1, <3>2, <3>3
      <4>2. spool'[j] = spool[j]
        BY <2>2, <2>5, <4>1
      <4> QED BY <3>1, <4>1, <4>2 DEF OnVolume
    <3>4. CASE i < j
      <4>1. /\ j - 1 \in 1..Len(spool') /\ ~(j - 1 <= i - 1) /\ j - 1 - (i - 1) = j - i
            /\ j - i \in 1..(Len(spool) - i) /\ i + (j - i) = j
        BY <1>3, <2>1, <2>5, <3>1, <3>2, <3>4
      <4>2. spool'[j - 1] = spool[j]
        BY <2>3, <2>5, <4>1
      <4> QED BY <3>1, <4>1, <4>2 DEF OnVolume
    <3> QED BY <2>1, <3>2, <3>3, <3>4
  <2>7. Len(spool') <= Capacity
    BY <1>3, <2>5, Numbers
  <2>8. sweep' \in SweepRows /\ ~sweep'.placed /\ sweep'.names \subseteq sweep.names \ {Name}
    BY <1>1, <1>5, SkippedRow
  <2> QED BY <1>1, <1>2, <1>3, <2>5, <2>6, <2>7, <2>8, SweepMoves
<1> QED BY <1>1, <1>4, <1>5

LEMMA CrashKeeps == ASSUME IInv, Crash PROVE IInv' /\ Follows
<1> DEFINE dead == [Unopened EXCEPT !.at = "closed"]
           c == [client EXCEPT !.at = "away"]
<1>1. /\ UNCHANGED <<log, aged, revoked, stored, spool>> /\ sweep' = NoSweep /\ Fault
      /\ stream' = [k \in Connections |-> IF stream[k].at = "unopened" THEN stream[k] ELSE dead]
      /\ lost' = lost \cup {k \in Connections : stream[k].at \notin {"unopened", "closed"}}
      /\ client' = IF client.at = "streaming" THEN c ELSE client
  BY DEF Crash
<1>2. /\ Types /\ Volume /\ log \in Nat /\ client \in ClientRows(log) /\ faults' \in 0..MaxFaults
      /\ stream \in [Connections -> StreamRows(log)]
  BY <1>1, Facts, Numbers DEF Types, Fault
<1>3. /\ client' \in ClientRows(log) /\ client'.at # "streaming" /\ client'.on = client.on
      /\ client'.last = client.last /\ (client'.at = "recovered" <=> client.at = "recovered")
  <2>1. c \in ClientRows(log) /\ c.at = "away" /\ c.on = client.on /\ c.last = client.last
    BY <1>2 DEF ClientRows
  <2> HIDE DEF c
  <2> QED BY <1>1, <1>2, <2>1
<1>4. dead \in StreamRows(log) /\ dead.at = "closed" /\ dead.late = 0 /\ dead.wire = <<>>
  <2>1. 0 \in 0..log /\ 0 \in Nat /\ <<>> \in Seq(1..log)
    BY <1>2
  <2> QED BY <2>1 DEF Unopened, StreamRows
<1> HIDE DEF dead, c
<1>5. Types'
  <2>1. stream' \in [Connections -> StreamRows(log)]
    BY <1>1, <1>2, <1>4
  <2> QED BY <1>1, <1>2, <1>3, <2>1 DEF Types
<1>6. Volume' /\ SweepInv'
  BY <1>1, <1>2, NoSweepRow DEF Volume, SweepInv
<1>7. ASSUME NEW k \in Connections PROVE StreamInv(k)'
  <2>1. /\ StreamInv(k) /\ (Accounted(k) => Accounted(k)')
        /\ (stream[k].at \notin {"unopened", "closed"} => Accounted(k)')
    BY <1>1, Facts DEF Accounted, OnVolume
  <2>2. CASE stream[k].at = "unopened"
    <3>1. stream'[k] = stream[k]
      BY <1>1, <2>2
    <3>2. k = client.on => Faces(stream[k], client')
      BY <1>3, <2>1 DEF StreamInv, Faces, Continues
    <3> QED BY <1>1, <1>3, <2>1, <2>2, <3>1, <3>2 DEF StreamInv, RowInv
  <2>3. CASE stream[k].at # "unopened"
    <3>1. stream'[k] = dead /\ ~(k > client.on)
      BY <1>1, <2>3, Opened
    <3>2. Faces(dead, client')
      BY <1>3, <1>4, EmptySeq DEF Faces, Continues, Sending
    <3>3. RowInv(dead)'
      BY <1>4 DEF RowInv, Allowed
    <3>4. Accounted(k)'
      BY <2>1, <2>3 DEF StreamInv
    <3> QED BY <1>3, <3>1, <3>2, <3>3, <3>4 DEF StreamInv, RowInv
  <2> QED BY <2>2, <2>3
<1> QED BY <1>3, <1>5, <1>6, <1>7, Assembled DEF Follows

LEMMA StutterKeeps == ASSUME IInv, UNCHANGED vars PROVE IInv' /\ Follows
<1>1. /\ UNCHANGED <<log, aged, revoked, client, stream>> /\ StoreSame /\ faults' \in 0..MaxFaults
  BY Facts DEF vars, StoreSame, Types
<1> QED BY <1>1, StoreStands, DrainMoves

-----------------------------------------------------------------------------
(* The invariant, from the start and over every step.                      *)
LEMMA InitIInv == ASSUME Init PROVE IInv
<1> DEFINE dead == [Unopened EXCEPT !.at = "closed"]
           file(k) == [of |-> k, readable |-> TRUE, aside |-> FALSE]
<1>1. /\ log = 0 /\ aged = 0 /\ revoked = FALSE /\ stored = {} /\ lost = {} /\ faults = 0
      /\ client = [at |-> "away", last |-> 0, on |-> Inherited] /\ sweep = NoSweep
      /\ stream = [k \in Connections |-> IF k <= Inherited THEN dead ELSE Unopened]
      /\ spool = [k \in 1..Inherited |-> file(k)]
  BY DEF Init
<1>2. Unopened \in StreamRows(0) /\ dead \in StreamRows(0) /\ dead.at = "closed" /\ dead.late = 0 /\ dead.wire = <<>>
  <2>1. 0 \in 0..0 /\ 0 \in Nat /\ <<>> \in Seq(1..0)
    OBVIOUS
  <2> QED BY <2>1 DEF Unopened, StreamRows
<1> HIDE DEF dead
<1>3. client \in ClientRows(0) /\ client.at = "away" /\ client.on = Inherited /\ client.last = 0
  BY <1>1, Numbers DEF ClientRows
<1>4. Types
  <2>1. log \in 0..MaxEvents /\ aged \in 0..log /\ revoked \in BOOLEAN /\ faults \in 0..MaxFaults
    <3>1. 0 \in 0..MaxEvents /\ 0 \in 0..0 /\ 0 \in 0..MaxFaults
      BY Numbers
    <3> QED BY <1>1, <3>1, Zenon
  <2>2. stream \in [Connections -> StreamRows(0)]
    BY <1>1, <1>2
  <2> QED BY <1>1, <1>3, <2>1, <2>2 DEF Types
<1>5. /\ spool \in Seq(FileRows) /\ Len(spool) = Inherited
      /\ \A k \in 1..Inherited : spool[k].of = k
  <2>1. \A k \in 1..Inherited : file(k) \in FileRows /\ file(k).of = k
    BY Numbers DEF FileRows, Connections
  <2> HIDE DEF file
  <2> QED BY <1>1, <2>1, Numbers
<1>6. Volume
  BY <1>1, <1>5, NoSweepRow, Numbers DEF Volume
<1>7. SweepInv
  BY <1>1, NoSweepRow DEF SweepInv
<1>8. ASSUME NEW k \in Connections PROVE StreamInv(k)
  <2>1. k \in Int /\ 1 <= k /\ Inherited \in Int
    BY Numbers DEF Connections
  <2>2. CASE k <= Inherited
    <3>1. stream[k] = dead /\ ~(k > client.on)
      BY <1>1, <1>3, <2>1, <2>2
    <3>2. RowInv(dead) /\ Faces(dead, client)
      BY <1>2, <1>3, EmptySeq DEF RowInv, Faces, Continues, Sending, Allowed
    <3>3. Accounted(k)
      BY <1>5, <2>1, <2>2 DEF Accounted, OnVolume
    <3> QED BY <3>1, <3>2, <3>3 DEF StreamInv
  <2>3. CASE ~(k <= Inherited)
    <3>1. stream[k] = Unopened
      BY <1>1, <2>3
    <3>2. RowInv(Unopened) /\ Faces(Unopened, client)
      BY <1>3, EmptySeq DEF RowInv, Faces, Continues, Sending, Allowed, Unopened
    <3> QED BY <3>1, <3>2 DEF StreamInv, Unopened
  <2> QED BY <2>2, <2>3
<1>9. TypeOK /\ Len(spool) <= Capacity
  BY <1>4, <1>6, TypeParts
<1> QED BY <1>3, <1>7, <1>8, <1>9 DEF IInv

LEMMA StepIInv == ASSUME IInv, [Next]_vars PROVE IInv' /\ Follows
<1>1. ASSUME Client PROVE IInv' /\ Follows
  BY <1>1, ConnectKeeps, ReceiveKeeps, DisconnectKeeps, SnapshotKeeps DEF Client
<1>2. ASSUME NEW k \in Connections, Serve(k) PROVE IInv' /\ Follows
  BY <1>2, ReplayKeeps, ReplayExpiredKeeps, ClearKeeps, WriteKeeps, WriteFailsKeeps, WakeKeeps,
     DeltaKeeps, HeartbeatKeeps, HangUpKeeps, RecordCursorKeeps, RecordRefusedKeeps,
     SpoolCursorKeeps, SpoolRefusedKeeps
     DEF Serve
<1>3. ASSUME Drain PROVE IInv' /\ Follows
  BY <1>3, BeginSweepKeeps, SetAsideKeeps, PlaceKeeps, ReleaseKeeps DEF Drain
<1> QED BY <1>1, <1>2, <1>3, PublishKeeps, AgeKeeps, RevokeKeeps, DeferKeeps, CrashKeeps,
           CorruptKeeps, StutterKeeps
        DEF Next

LEMMA Invariant == Spec => []IInv /\ [][Follows]_client
<1>1. IInv /\ [Next]_vars => IInv' /\ [Follows]_client
  BY StepIInv
<1> QED BY <1>1, InitIInv, PTL DEF Spec

-----------------------------------------------------------------------------
(* Every variable keeps its type, whatever fails and whoever dies.         *)
THEOREM TypeCorrect == Spec => []TypeOK
<1>1. IInv => TypeOK
  BY DEF IInv
<1> QED BY <1>1, Invariant, PTL

(* A client that reconnects with the last event it saw misses none and     *)
(* sees none twice, over pages, broken writes, expired cursors and crashes *)
(* of the process that serves it (Serve).                                  *)
THEOREM InOrder == Spec => DeliveredInOrder
<1>1. [Follows]_client => [client'.last # client.last =>
                             \/ client'.last = client.last + 1
                             \/ client.at = "expired" /\ client'.last > client.last]_client
  BY DEF Follows
<1> QED BY <1>1, Invariant, PTL DEF DeliveredInOrder

(* However long the page already read, a stream whose authority is gone    *)
(* writes at most the event cleared before and one provisional frame (the  *)
(* revalidations of Serve).                                                *)
THEOREM RevocationStops == Spec => []RevokedStreamStops
<1>1. IInv => RevokedStreamStops
  <2> SUFFICES ASSUME IInv, NEW k \in Connections PROVE stream[k].late <= 2
    BY DEF RevokedStreamStops
  <2>1. stream[k] \in StreamRows(log) /\ RowInv(stream[k])
    BY RowFacts
  <2> QED BY <2>1 DEF RowInv, StreamRows, Allowed
<1> QED BY <1>1, Invariant, PTL

(* Every disconnect but those of a process that died is in the store, on   *)
(* the volume or reported lost, and its record is about to name the last   *)
(* event handed to the client, neither more nor less, but for the one whose*)
(* write was not confirmed (recordCursor and Drain); the volume never      *)
(* carries more than its capacity (SpoolCursor).                           *)
THEOREM DisconnectsStay == Spec => []DisconnectsAccounted
<1>1. IInv => DisconnectsAccounted
  <2> SUFFICES ASSUME IInv, NEW k \in Connections
               PROVE  /\ At(k, "closed") => k \in stored \cup lost \/ Files(k) # {}
                      /\ At(k, "record") /\ client.on = k /\ client.at # "recovered" =>
                           client.last + Len(stream[k].wire)
                             \in {stream[k].cursor, stream[k].cursor + 1}
    BY DEF DisconnectsAccounted, IInv
  <2>1. At(k, "closed") => k \in stored \cup lost \/ Files(k) # {}
    BY Facts DEF At, StreamInv, Accounted, OnVolume, Files
  <2>2. At(k, "record") /\ client.on = k /\ client.at # "recovered" =>
          client.last + Len(stream[k].wire) \in {stream[k].cursor, stream[k].cursor + 1}
    BY RowFacts DEF Faces, Continues, At
  <2> QED BY <2>1, <2>2
<1> QED BY <1>1, Invariant, PTL
=============================================================================
