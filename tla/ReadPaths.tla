------------------------------ MODULE ReadPaths ------------------------------
(***************************************************************************)
(* Reads that go on for more than one call.  ReadWriteRouter of            *)
(* 13_database/read_write_splitter.go: sessions read from a replica that   *)
(* lags behind, but from the primary for a while after they wrote.         *)
(* KeysetPaginator of 04_persistence/keyset_pagination.go: a client walks  *)
(* the pages while rows come and go.                                       *)
(***************************************************************************)
EXTENDS Integers, FiniteSets, FiniteSetTheorems, TLAPS

CONSTANTS Session,
          Window,    \* duration of WithRecentWrite
          Lag,       \* a write is on the replica this long after it was executed
          Row,       \* the rows there can be: <<CreatedAt, ID>>
          Limit,     \* limits that the client asks for
          MaxWrites, MaxTime   \* bounds

\* The window is longer than the lag (read_write_splitter.md, "Replication Lag
\* Health Probes": a replica that lags more gets no reads).
RouterParameters == {Lag, Window, MaxWrites} \subseteq Nat /\ Lag < Window
PagingParameters == Row \subseteq Int \X Int /\ Limit \subseteq Int

VARIABLES now,
          primary,   \* writes executed on the primary, numbered in their order
          replica,   \* writes applied on the replica
          executed,  \* when each write was executed
          expiry,    \* the value in the session's context, 0 if none
          wrote,     \* the session's last write
          spc,       \* "idle"; "written"; "primary" or "replica", chosen for a read;
                     \* "answered"
          answer,    \* the last write that the session's last read has seen
          table,     \* the rows there are
          cursor,    \* the NextCursor: {} or {the row it was made from}
          scan,      \* "off", "on" or "done"
          got,       \* rows of the pages so far
          stayed,    \* history: rows that were there all the time since the first page
          inOrder    \* history: has every row come after all rows of earlier pages?

routerVars == <<now, primary, replica, executed, expiry, wrote, spc, answer>>
scanVars == <<table, cursor, scan, got, stayed, inOrder>>

-----------------------------------------------------------------------------
RouterInit ==
  /\ now = 0 /\ primary = 0 /\ replica = 0
  /\ executed = [v \in 1..MaxWrites |-> 0]
  /\ expiry = [s \in Session |-> 0] /\ wrote = [s \in Session |-> 0]
  /\ spc = [s \in Session |-> "idle"] /\ answer = [s \in Session |-> 0]

Idle(s) == spc[s] \in {"idle", "answered"}
SGoto(s, place) == spc' = [spc EXCEPT ![s] = place]

\* Write: the primary executes it (one that fails changes nothing),
Write(s) ==
  /\ Idle(s) /\ primary < MaxWrites
  /\ primary' = primary + 1 /\ executed' = [executed EXCEPT ![primary + 1] = now]
  /\ wrote' = [wrote EXCEPT ![s] = primary + 1]
  /\ SGoto(s, "written")
  /\ UNCHANGED <<now, replica, expiry, answer>>

\* and when it has returned the session goes on with the context of WithRecentWrite.
WithRecentWrite(s) ==
  /\ spc[s] = "written" /\ expiry' = [expiry EXCEPT ![s] = now + Window]
  /\ SGoto(s, "idle")
  /\ UNCHANGED <<now, primary, replica, executed, wrote, answer>>

HasRecentWrite(s) == now < expiry[s]

\* Read chooses the endpoint,
Read(s) ==
  /\ Idle(s) /\ SGoto(s, IF HasRecentWrite(s) THEN "primary" ELSE "replica")
  /\ UNCHANGED <<now, primary, replica, executed, expiry, wrote, answer>>

\* and queries it, later.
Query(s) ==
  /\ spc[s] \in {"primary", "replica"}
  /\ answer' = [answer EXCEPT ![s] = IF spc[s] = "primary" THEN primary ELSE replica]
  /\ SGoto(s, "answered")
  /\ UNCHANGED <<now, primary, replica, executed, expiry, wrote>>

\* The replica applies writes in their order, each within the lag.
Replicate ==
  /\ replica < primary /\ replica' = replica + 1
  /\ UNCHANGED <<now, primary, executed, expiry, wrote, spc, answer>>

Tick ==
  /\ now < MaxTime /\ \A v \in (replica + 1)..primary : now < executed[v] + Lag
  /\ now' = now + 1
  /\ UNCHANGED <<primary, replica, executed, expiry, wrote, spc, answer>>

RouterNext ==
  \/ \E s \in Session : Write(s) \/ WithRecentWrite(s) \/ Read(s) \/ Query(s)
  \/ Replicate \/ Tick

RouterSpec == RouterInit /\ [][RouterNext]_routerVars

-----------------------------------------------------------------------------
ScanInit ==
  /\ table \in SUBSET Row /\ IsFiniteSet(table) /\ cursor = {} /\ scan = "off"
  /\ got = {} /\ stayed = {} /\ inOrder = TRUE

\* The order in which the caller sorts the rows.
Precedes(q, r) == q[1] < r[1] \/ (q[1] = r[1] /\ q[2] < r[2])

\* How FetchPage compares a row with the cursor's; the ID breaks ties.
AfterStamp(r, q) == r[1] > q[1]
After(r, q) == r[1] > q[1] \/ (r[1] = q[1] /\ r[2] > q[2])

Clamped(limit) == IF limit <= 0 THEN 10 ELSE IF limit > 100 THEN 100 ELSE limit

\* Rows after the cursor, and the first of them.
Rest == {r \in table : \A q \in cursor : After(r, q)}
Page(limit) == {r \in Rest : Cardinality({q \in Rest : Precedes(q, r)}) < Clamped(limit)}

\* A client starts from the first page, with an empty cursor,
Begin ==
  /\ scan # "on" /\ scan' = "on" /\ cursor' = {}
  /\ got' = {} /\ stayed' = table /\ UNCHANGED <<table, inOrder>>

\* and goes on from page to page while there are more.
FetchPage(limit) ==
  /\ scan = "on" /\ got' = got \cup Page(limit)
  /\ inOrder' = (inOrder /\ \A r \in Page(limit), q \in got : Precedes(q, r))
  /\ IF Rest = Page(limit)
       THEN scan' = "done" /\ cursor' = {}
       ELSE /\ \E last \in Page(limit) :
                 /\ \A r \in Page(limit) : r = last \/ Precedes(r, last)
                 /\ cursor' = {last}
            /\ UNCHANGED scan
  /\ UNCHANGED <<table, stayed>>

Insert(r) ==
  /\ r \notin table /\ table' = table \cup {r}
  /\ UNCHANGED <<cursor, scan, got, stayed, inOrder>>

Delete(r) ==
  /\ r \in table /\ table' = table \ {r} /\ stayed' = stayed \ {r}
  /\ UNCHANGED <<cursor, scan, got, inOrder>>

ScanNext ==
  \/ Begin \/ \E limit \in Limit : FetchPage(limit)
  \/ \E r \in Row : Insert(r) \/ Delete(r)

ScanSpec == ScanInit /\ [][ScanNext]_scanVars

-----------------------------------------------------------------------------
\* Every variable keeps its type.
RouterTypeOK ==
  /\ {now, primary, replica} \subseteq Nat /\ replica <= primary /\ primary <= MaxWrites
  /\ executed \in [1..MaxWrites -> Nat] /\ expiry \in [Session -> Nat]
  /\ wrote \in [Session -> 0..MaxWrites] /\ answer \in [Session -> 0..MaxWrites]
  /\ spc \in [Session -> {"idle", "written", "primary", "replica", "answered"}]

ScanTypeOK ==
  /\ {table, cursor, got, stayed} \subseteq SUBSET Row
  /\ scan \in {"off", "on", "done"} /\ inOrder \in BOOLEAN

TypeOK == RouterTypeOK /\ ScanTypeOK

\* A session's read sees the session's own last write, although the endpoint is chosen
\* by one look at the clock and queried later (read_write_splitter.md, "RYOW").
ReadYourWrites == \A s \in Session : spc[s] = "answered" => answer[s] >= wrote[s]

\* A client that has walked all pages got every row that was there all the time, and
\* got the rows in order and once, whatever was inserted or deleted in between, the
\* cursor's row too (keyset_pagination.md, "Page Drift").
ScanComplete == inOrder /\ (scan = "done" => stayed \subseteq got)

-----------------------------------------------------------------------------
\* A write that is not on the replica yet was executed no longer ago than the lag.
OnTime ==
  \A v \in 1..primary :
    executed[v] <= now /\ (v > replica => now <= executed[v] + Lag)

\* A session's context outlasts its last write by the window, and who goes to the
\* replica finds that write there.
Marked ==
  \A s \in Session :
    /\ wrote[s] <= primary
    /\ wrote[s] > 0 /\ spc[s] # "written" => expiry[s] >= executed[wrote[s]] + Window
    /\ spc[s] = "replica" => wrote[s] <= replica

RouterInv == RouterTypeOK /\ OnTime /\ Marked /\ ReadYourWrites

\* Each step of a session, of the replica and of the clock keeps this.
LEMMA RouterStep ==
  ASSUME RouterParameters, RouterInv, [RouterNext]_routerVars
  PROVE  RouterInv'
<1> USE DEF RouterParameters
<1>0. /\ now \in Nat /\ primary \in Nat /\ replica \in Nat /\ replica <= primary
      /\ primary <= MaxWrites
      /\ executed \in [1..MaxWrites -> Nat] /\ expiry \in [Session -> Nat]
      /\ wrote \in [Session -> 0..MaxWrites] /\ answer \in [Session -> 0..MaxWrites]
      /\ spc \in [Session -> {"idle", "written", "primary", "replica", "answered"}]
  BY DEF RouterInv, RouterTypeOK
<1>i. OnTime /\ Marked /\ ReadYourWrites
  BY DEF RouterInv
<1>1. ASSUME NEW s \in Session, Write(s) PROVE RouterInv'
  <2>1. primary + 1 \in 1..MaxWrites /\ spc[s] \in {"idle", "answered"}
    BY <1>0, <1>1 DEF Write, Idle
  <2>2. /\ primary' = primary + 1 /\ UNCHANGED <<now, replica, expiry, answer>>
        /\ \A v \in 1..MaxWrites : executed'[v] = IF v = primary + 1 THEN now ELSE executed[v]
        /\ \A u \in Session : wrote'[u] = IF u = s THEN primary + 1 ELSE wrote[u]
        /\ \A u \in Session : spc'[u] = IF u = s THEN "written" ELSE spc[u]
    BY <1>0, <1>1 DEF Write, SGoto
  <2>3. RouterTypeOK'
    <3>1. /\ executed' \in [1..MaxWrites -> Nat] /\ wrote' \in [Session -> 0..MaxWrites]
          /\ spc' \in [Session -> {"idle", "written", "primary", "replica", "answered"}]
      BY <1>0, <1>1, <2>1 DEF Write, SGoto
    <3> QED BY <1>0, <2>1, <2>2, <3>1 DEF RouterTypeOK
  <2>4. OnTime'
    <3> SUFFICES ASSUME NEW v \in 1..(primary + 1)
                 PROVE  executed'[v] <= now /\ (v > replica => now <= executed'[v] + Lag)
      BY <2>2 DEF OnTime
    <3>1. CASE v = primary + 1
      BY <1>0, <2>1, <2>2, <3>1
    <3>2. CASE v \in 1..primary
      <4>1. executed'[v] = executed[v]
        <5>1. v \in 1..MaxWrites /\ v # primary + 1
          BY <1>0, <3>2
        <5> QED BY <2>2, <5>1
      <4>2. executed[v] <= now /\ (v > replica => now <= executed[v] + Lag)
        BY <1>i, <3>2 DEF OnTime
      <4> QED BY <4>1, <4>2
    <3> QED BY <1>0, <3>1, <3>2
  <2>5. ASSUME NEW u \in Session
        PROVE  /\ wrote'[u] <= primary + 1
               /\ wrote'[u] > 0 /\ spc'[u] # "written" =>
                    expiry[u] >= executed'[wrote'[u]] + Window
               /\ spc'[u] = "replica" => wrote'[u] <= replica
    <3>1. CASE u = s
      BY <1>0, <2>2, <3>1
    <3>2. CASE u # s
      <4>1. /\ wrote'[u] = wrote[u] /\ spc'[u] = spc[u] /\ wrote[u] \in 0..MaxWrites
            /\ wrote[u] <= primary
        BY <1>0, <1>i, <2>2, <3>2 DEF Marked
      <4>2. wrote[u] > 0 => executed'[wrote[u]] = executed[wrote[u]]
        <5>1. wrote[u] > 0 => wrote[u] \in 1..MaxWrites /\ wrote[u] # primary + 1
          BY <1>0, <4>1
        <5> QED BY <2>2, <5>1
      <4>3. /\ wrote[u] > 0 /\ spc[u] # "written" => expiry[u] >= executed[wrote[u]] + Window
            /\ spc[u] = "replica" => wrote[u] <= replica
        BY <1>i DEF Marked
      <4> QED BY <1>0, <4>1, <4>2, <4>3
    <3> QED BY <3>1, <3>2
  <2>6. Marked'
    BY <2>2, <2>5 DEF Marked
  <2>7. ReadYourWrites'
    BY <1>i, <2>2 DEF ReadYourWrites
  <2> QED BY <2>3, <2>4, <2>6, <2>7 DEF RouterInv
<1>2. ASSUME NEW s \in Session, WithRecentWrite(s) PROVE RouterInv'
  <2>1. /\ spc[s] = "written" /\ UNCHANGED <<now, primary, replica, executed, wrote, answer>>
        /\ \A u \in Session : expiry'[u] = IF u = s THEN now + Window ELSE expiry[u]
        /\ \A u \in Session : spc'[u] = IF u = s THEN "idle" ELSE spc[u]
    BY <1>0, <1>2 DEF WithRecentWrite, SGoto
  <2>2. RouterTypeOK'
    <3>1. /\ expiry' \in [Session -> Nat]
          /\ spc' \in [Session -> {"idle", "written", "primary", "replica", "answered"}]
      BY <1>0, <1>2 DEF WithRecentWrite, SGoto
    <3> QED BY <1>0, <2>1, <3>1 DEF RouterTypeOK
  <2>3. OnTime' /\ ReadYourWrites'
    BY <1>i, <2>1 DEF OnTime, ReadYourWrites
  <2>4. /\ wrote[s] \in 0..MaxWrites /\ wrote[s] <= primary
        /\ wrote[s] > 0 => executed[wrote[s]] \in Nat /\ executed[wrote[s]] <= now
    <3>1. wrote[s] \in 0..MaxWrites /\ wrote[s] <= primary
      BY <1>0, <1>i DEF Marked
    <3>2. wrote[s] > 0 => wrote[s] \in 1..primary /\ wrote[s] \in 1..MaxWrites
      BY <1>0, <3>1
    <3> QED BY <1>0, <1>i, <3>1, <3>2 DEF OnTime
  <2>5. ASSUME NEW u \in Session
        PROVE  /\ wrote[u] <= primary
               /\ wrote[u] > 0 /\ spc'[u] # "written" => expiry'[u] >= executed[wrote[u]] + Window
               /\ spc'[u] = "replica" => wrote[u] <= replica
    <3>1. CASE u = s
      BY <1>0, <2>1, <2>4, <3>1
    <3>2. CASE u # s
      BY <1>i, <2>1, <3>2 DEF Marked
    <3> QED BY <3>1, <3>2
  <2>6. Marked'
    BY <2>1, <2>5 DEF Marked
  <2> QED BY <2>2, <2>3, <2>6 DEF RouterInv
<1>3. ASSUME NEW s \in Session, Read(s) PROVE RouterInv'
  <2>1. /\ spc[s] \in {"idle", "answered"}
        /\ UNCHANGED <<now, primary, replica, executed, expiry, wrote, answer>>
        /\ \A u \in Session : u # s => spc'[u] = spc[u]
        /\ spc'[s] = IF HasRecentWrite(s) THEN "primary" ELSE "replica"
    BY <1>0, <1>3 DEF Read, SGoto, Idle
  <2>2. RouterTypeOK'
    <3>1. spc' \in [Session -> {"idle", "written", "primary", "replica", "answered"}]
      BY <1>0, <1>3 DEF Read, SGoto
    <3> QED BY <1>0, <2>1, <3>1 DEF RouterTypeOK
  <2>3. OnTime' /\ ReadYourWrites'
    BY <1>i, <2>1 DEF OnTime, ReadYourWrites
  <2>4. /\ wrote[s] \in 0..MaxWrites /\ wrote[s] <= primary
        /\ wrote[s] > 0 => expiry[s] >= executed[wrote[s]] + Window
    BY <1>0, <1>i, <2>1 DEF Marked
  <2>5. ~HasRecentWrite(s) => wrote[s] <= replica
    <3>1. wrote[s] > replica => /\ wrote[s] \in 1..primary /\ executed[wrote[s]] \in Nat
                                /\ now <= executed[wrote[s]] + Lag
      <4>1. wrote[s] > replica => wrote[s] \in 1..primary /\ wrote[s] \in 1..MaxWrites
        BY <1>0, <2>4
      <4> QED BY <1>0, <1>i, <4>1 DEF OnTime
    <3>2. expiry[s] \in Nat
      BY <1>0
    <3> QED BY <1>0, <2>4, <3>1, <3>2 DEF HasRecentWrite
  <2>6. ASSUME NEW u \in Session
        PROVE  /\ wrote[u] <= primary
               /\ wrote[u] > 0 /\ spc'[u] # "written" => expiry[u] >= executed[wrote[u]] + Window
               /\ spc'[u] = "replica" => wrote[u] <= replica
    <3>1. CASE u = s
      BY <2>1, <2>4, <2>5, <3>1
    <3>2. CASE u # s
      BY <1>i, <2>1, <3>2 DEF Marked
    <3> QED BY <3>1, <3>2
  <2>7. Marked'
    BY <2>1, <2>6 DEF Marked
  <2> QED BY <2>2, <2>3, <2>7 DEF RouterInv
<1>4. ASSUME NEW s \in Session, Query(s) PROVE RouterInv'
  <2>1. /\ spc[s] \in {"primary", "replica"}
        /\ UNCHANGED <<now, primary, replica, executed, expiry, wrote>>
        /\ \A u \in Session : u # s => spc'[u] = spc[u] /\ answer'[u] = answer[u]
        /\ spc'[s] = "answered"
        /\ answer'[s] = IF spc[s] = "primary" THEN primary ELSE replica
    BY <1>0, <1>4 DEF Query, SGoto
  <2>2. RouterTypeOK'
    <3>1. primary \in 0..MaxWrites /\ replica \in 0..MaxWrites
      BY <1>0
    <3>2. /\ answer' \in [Session -> 0..MaxWrites]
          /\ spc' \in [Session -> {"idle", "written", "primary", "replica", "answered"}]
      BY <1>0, <1>4, <3>1 DEF Query, SGoto
    <3> QED BY <1>0, <2>1, <3>2 DEF RouterTypeOK
  <2>3. OnTime'
    BY <1>i, <2>1 DEF OnTime
  <2>4. Marked'
    BY <1>i, <2>1 DEF Marked
  <2>5. answer'[s] >= wrote[s]
    BY <1>i, <2>1 DEF Marked
  <2>6. ReadYourWrites'
    BY <1>i, <2>1, <2>5 DEF ReadYourWrites
  <2> QED BY <2>2, <2>3, <2>4, <2>6 DEF RouterInv
<1>5. CASE Replicate
  BY <1>5 DEF RouterInv, RouterTypeOK, OnTime, Marked, ReadYourWrites, Replicate
<1>6. CASE Tick
  <2>1. RouterTypeOK' /\ Marked' /\ ReadYourWrites'
    BY <1>6 DEF RouterInv, RouterTypeOK, Marked, ReadYourWrites, Tick
  <2>2. ASSUME NEW v \in 1..primary
        PROVE  executed[v] <= now + 1 /\ (v > replica => now + 1 <= executed[v] + Lag)
    <3>1. {primary, replica, now, Lag} \subseteq Nat /\ v \in 1..MaxWrites
      BY DEF RouterInv, RouterTypeOK
    <3>2. executed[v] \in Nat /\ executed[v] <= now
      BY <3>1 DEF RouterInv, RouterTypeOK, OnTime
    <3>3. v > replica => now < executed[v] + Lag
      BY <1>6, <3>1 DEF Tick
    <3> QED BY <3>1, <3>2, <3>3
  <2>3. OnTime'
    BY <1>6, <2>2 DEF OnTime, Tick
  <2> QED BY <2>1, <2>3 DEF RouterInv
<1>7. CASE UNCHANGED routerVars
  BY <1>7 DEF RouterInv, RouterTypeOK, OnTime, Marked, ReadYourWrites, routerVars
<1> QED BY <1>1, <1>2, <1>3, <1>4, <1>5, <1>6, <1>7 DEF RouterNext

LEMMA RouterStarts ==
  ASSUME RouterParameters, RouterInit
  PROVE  RouterInv
  BY DEF RouterParameters, RouterInit, RouterInv, RouterTypeOK, OnTime, Marked,
         ReadYourWrites

\* For any sessions, lag and longer window: no session misses its own write.
THEOREM ReadYourWritesHolds ==
  ASSUME RouterParameters
  PROVE  RouterSpec => []ReadYourWrites
<1>1. RouterInv => ReadYourWrites
  BY DEF RouterInv
<1> QED BY <1>1, RouterStarts, RouterStep, PTL DEF RouterSpec

-----------------------------------------------------------------------------
\* The pages so far are what is not after the cursor.
Walked ==
  /\ stayed \subseteq table /\ IsFiniteSet(table)
  /\ cursor = {} \/ \E last \in Row : cursor = {last}
  /\ scan = "on" =>
       /\ cursor = {} => got = {}
       /\ \A last \in cursor, q \in got : q = last \/ Precedes(q, last)
       /\ \A r \in stayed : r \in got \/ \A last \in cursor : Precedes(last, r)

ScanInv == ScanTypeOK /\ Walked /\ ScanComplete

\* The order of rows is a strict total order, the one that FetchPage compares by.
LEMMA RowOrder ==
  ASSUME PagingParameters, NEW p \in Row, NEW q \in Row, NEW r \in Row
  PROVE  /\ Precedes(p, q) \/ p = q \/ Precedes(q, p)
         /\ Precedes(p, q) /\ Precedes(q, r) => Precedes(p, r)
         /\ ~(Precedes(p, q) /\ Precedes(q, p)) /\ ~Precedes(p, p)
         /\ After(q, p) <=> Precedes(p, q)
<1>1. PICK a, b \in Int : p = <<a, b>>
  BY DEF PagingParameters
<1>2. PICK c, d \in Int : q = <<c, d>>
  BY DEF PagingParameters
<1>3. PICK e, f \in Int : r = <<e, f>>
  BY DEF PagingParameters
<1> QED BY <1>1, <1>2, <1>3 DEF Precedes, After

\* A page has all rows of the rest that precede one of its own.
LEMMA PageClosed ==
  ASSUME PagingParameters, ScanInv, NEW limit \in Limit,
         NEW r \in Page(limit), NEW q \in Rest, Precedes(q, r)
  PROVE  q \in Page(limit)
<1> DEFINE Before(x) == {y \in Rest : Precedes(y, x)}
<1>1. Rest \subseteq table /\ table \subseteq Row /\ r \in Rest
  BY DEF ScanInv, ScanTypeOK, Rest, Page
<1>2. Before(q) \subseteq Before(r)
  BY <1>1, RowOrder
<1>3. IsFiniteSet(Before(r))
  BY <1>1, FS_Subset DEF ScanInv, Walked
<1>4. /\ Cardinality(Before(q)) \in Nat /\ Cardinality(Before(r)) \in Nat
      /\ Cardinality(Before(q)) <= Cardinality(Before(r))
  BY <1>2, <1>3, FS_Subset, FS_CardinalityType
<1>5. Cardinality(Before(r)) < Clamped(limit)
  BY DEF Page
<1>6. Clamped(limit) \in Int
  BY DEF Clamped, PagingParameters
<1>7. Cardinality(Before(q)) < Clamped(limit)
  BY <1>4, <1>5, <1>6
<1> QED BY <1>7 DEF Page

\* A page comes after all that was got, and what stayed and is not in it comes after it.
LEMMA FetchPageLemma ==
  ASSUME PagingParameters, ScanInv, NEW limit \in Limit, FetchPage(limit)
  PROVE  ScanInv'
<1>1. Page(limit) \subseteq Rest /\ Rest \subseteq table /\ table \subseteq Row
  BY DEF ScanInv, ScanTypeOK, Page, Rest
<1>2. got \subseteq Row /\ stayed \subseteq Row /\ cursor \subseteq Row
  BY DEF ScanInv, ScanTypeOK
<1>3. ScanTypeOK'
  BY <1>1 DEF ScanInv, ScanTypeOK, FetchPage
<1>4. ASSUME NEW r \in Page(limit), NEW q \in got PROVE Precedes(q, r)
  <2>1. PICK last \in Row : cursor = {last}
    BY <1>4 DEF ScanInv, Walked, FetchPage
  <2>2. Precedes(last, r)
    BY <1>1, <2>1, RowOrder DEF Rest
  <2>3. q = last \/ Precedes(q, last)
    BY <2>1 DEF ScanInv, Walked, FetchPage
  <2> QED BY <1>1, <1>2, <2>2, <2>3, RowOrder
<1>5. ASSUME NEW r \in stayed, r \notin got PROVE r \in Rest
  <2>1. r \in table /\ \A last \in cursor : Precedes(last, r)
    BY <1>5 DEF ScanInv, Walked, FetchPage
  <2> QED BY <1>2, <2>1, RowOrder DEF Rest
<1>6. inOrder'
  BY <1>4 DEF ScanInv, ScanComplete, FetchPage
<1>7. CASE Rest = Page(limit)
  <2>1. stayed' \subseteq got' /\ scan' = "done" /\ cursor' = {}
    BY <1>5, <1>7 DEF FetchPage
  <2>2. Walked'
    BY <2>1 DEF ScanInv, Walked, FetchPage
  <2> QED BY <1>3, <1>6, <2>1, <2>2 DEF ScanInv, ScanComplete
<1>8. CASE Rest # Page(limit)
  <2>1. PICK last \in Page(limit) :
          (\A r \in Page(limit) : r = last \/ Precedes(r, last)) /\ cursor' = {last}
    BY <1>8 DEF FetchPage
  <2>2. scan' = "on" /\ got' = got \cup Page(limit) /\ stayed' = stayed /\ table' = table
    BY <1>8 DEF FetchPage
  <2>3. \A q \in got' : q = last \/ Precedes(q, last)
    BY <1>4, <2>1, <2>2
  <2>4. ASSUME NEW r \in stayed, r \notin got' PROVE Precedes(last, r)
    <3>1. r \in Rest /\ r \notin Page(limit)
      BY <1>5, <2>2, <2>4
    <3>2. ~Precedes(r, last) /\ r # last
      BY <2>1, <3>1, PageClosed
    <3> QED BY <1>1, <2>1, <3>1, <3>2, RowOrder
  <2>5. Walked'
    BY <1>1, <2>1, <2>2, <2>3, <2>4 DEF ScanInv, Walked
  <2> QED BY <1>3, <1>6, <2>2, <2>5 DEF ScanInv, ScanComplete
<1> QED BY <1>7, <1>8

\* Each step of the client and of the table keeps this.
LEMMA ScanStep ==
  ASSUME PagingParameters, ScanInv, [ScanNext]_scanVars
  PROVE  ScanInv'
<1>1. CASE Begin
  BY <1>1 DEF ScanInv, ScanTypeOK, Walked, ScanComplete, Begin
<1>2. ASSUME NEW r \in Row, Insert(r) PROVE ScanInv'
  <2>1. IsFiniteSet(table')
    BY <1>2, FS_AddElement DEF ScanInv, Walked, Insert
  <2> QED BY <1>2, <2>1 DEF ScanInv, ScanTypeOK, Walked, ScanComplete, Insert
<1>3. ASSUME NEW r \in Row, Delete(r) PROVE ScanInv'
  <2>1. IsFiniteSet(table')
    BY <1>3, FS_RemoveElement DEF ScanInv, Walked, Delete
  <2> QED BY <1>3, <2>1 DEF ScanInv, ScanTypeOK, Walked, ScanComplete, Delete
<1>4. CASE UNCHANGED scanVars
  BY <1>4 DEF ScanInv, ScanTypeOK, Walked, ScanComplete, scanVars
<1> QED BY <1>1, <1>2, <1>3, <1>4, FetchPageLemma DEF ScanNext

LEMMA ScanStarts ==
  ASSUME ScanInit
  PROVE  ScanInv
  BY DEF ScanInit, ScanInv, ScanTypeOK, Walked, ScanComplete

\* For any rows, limits and changes to the table between two pages: a walk through the
\* pages is in order, without repetition, and misses no row that stayed.
THEOREM ScanCompleteHolds ==
  ASSUME PagingParameters
  PROVE  ScanSpec => []ScanComplete
<1>1. ScanInv => ScanComplete
  BY DEF ScanInv
<1> QED BY <1>1, ScanStarts, ScanStep, PTL DEF ScanSpec

=============================================================================
