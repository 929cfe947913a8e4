----------------------------- MODULE GlobalReads -----------------------------
(***************************************************************************)
(* Reads over several partitions: the read-only and snapshot processors of *)
(* the API server (api/server/txn: processor.go, processor_read_only.go,   *)
(* processor_read_snapshot.go), the readers of the partitions they call    *)
(* (data/server/txn/reader.go), leaders and followers, and the store those *)
(* read from, while transactions write to the same partitions.  What the   *)
(* requests are made of, and who refuses them, is in ApiTxn.tla.           *)
(*                                                                         *)
(* The writers' protocol and its faults are in TwoPhaseCommit.tla, batches *)
(* in Partition.tla: here a command is stamped and applied in one step.    *)
(*                                                                         *)
(*   part[p]   the leader of partition p: its manager and its store        *)
(*   foll[p]   a follower, which has applied a prefix of the same commands *)
(*   clock[p]  the leader's HLC                                            *)
(*   wr[t]     the coordinator of t: [pc, at, cts]                         *)
(*   rd[q]     the read q: [ts, at, srv, got], at[p] being how far it is   *)
(*             on p, srv[p] the server that works on it                    *)
(***************************************************************************)
EXTENDS ApiTxn

CONSTANTS
    Txns,        \* read-write transactions
    Reads,       \* read-only transactions
    Request,     \* Request[x]: what the client asks for
    Snapshots,   \* the timestamps a snapshot read may ask for
    Together,    \* bound: the sets of transactions that run together
    Clock0,      \* the clocks at the start
    MaxIteratorResults

ASSUME GlobalReadsAssumption == MaxIteratorResults \in Nat \ {0} /\ Snapshots \subseteq Nat \ {0}

VARIABLES part, foll, clock, wr, rd

vars == <<part, foll, clock, wr, rd>>

Larger(a, b) == IF a > b THEN a ELSE b

Txn == [x \in Txns \cup Reads |-> TxnOf(Request[x])]

Body(x, p) == Txn[x].actions[p]

Principal(t) == Txn[t].pid

Kind(x) == Process(Txn[x])

NoResults == [p \in Pids |-> <<>>]

Init ==
    /\ part = [p \in Pids |-> [mgr |-> [NewManager(Txns) EXCEPT !.maxTs = 1], kv |-> <<>>]]
    /\ foll = part
    /\ clock = Clock0
    /\ \E xs \in Together, ts \in Snapshots :
          /\ \A x \in xs : ValidKvRequest(Request[x])
          /\ wr = [t \in Txns |-> [pc |-> IF t \in xs THEN "prepare" ELSE "unused", cts |-> 0,
                                   at |-> [p \in Pids |-> "idle"]]]
          /\ rd = [q \in Reads |-> [ts |-> IF q \in xs /\ Txn[q].snapshot THEN ts ELSE 0,
                                    at |-> [p \in Pids |-> IF q \in xs THEN "idle" ELSE "unused"],
                                    srv |-> [p \in Pids |-> "leader"], got |-> NoResults]]

-----------------------------------------------------------------------------
(* data/server/txn/reader.go *)

(* How many results a range read returns at most; no limit is 0. *)
Limit(a) == IF a.max < MaxIteratorResults THEN a.max ELSE MaxIteratorResults

(* readRange: the iterator is left when the results are as many. *)
readRange(kv, ts, a) ==
    LET found == emulatedGetRange(kv, ts, a.first, a.last)
    IN  IF Limit(a) = 0 \/ Len(found) < Limit(a) THEN found ELSE SubSeq(found, 1, Limit(a))

Reading(txn) == {a \in txn : a.op \in {"Read", "ReadRange"}}

statusOf(kv, ts, a) ==
    LET found == IF a.op = "Read" THEN emulatedGet(kv, ts, a.first) ELSE readRange(kv, ts, a)
    IN  ActionStatus(IF a.op = "Read" /\ found = <<>> THEN "KeyNotFound" ELSE "Success", found)

(* fetchResults: what the reading actions of txn find at ts, by their ids. *)
fetchResults(kv, ts, txn) ==
    [id \in {a.id : a \in Reading(txn)} |-> statusOf(kv, ts, CHOOSE a \in Reading(txn) : a.id = id)]

ServerOf(q, p) == IF rd[q].srv[p] = "leader" THEN part[p] ELSE foll[p]

Safe(q, p) == SafeTimestamp(ServerOf(q, p).mgr, Body(q, p))

-----------------------------------------------------------------------------
(* Writers *)

(* The request of a coordinator, as the writer stamps it; the requests that *)
(* carry the commit timestamp merge it into the clock first.                *)
Command(t, p, req) ==
    LET cts == IF req.rpc \in {"StoreDecision", "Commit"} THEN req.ts ELSE 0 IN
    [op |-> req.rpc, id |-> t, txn |-> Body(t, p), principal |-> req.principal,
     pids |-> IF req.rpc = "Prepare" THEN req.pids ELSE {},
     ts |-> Larger(clock[p], cts) + 1, cts |-> cts, release |-> FALSE]

(* Mutation of Execute: a commit does not merge its timestamp. *)
ExecuteUnmerged(p, c, r) ==
    LET m == FinishBatch(r.m, r.writes, r.done, IF c.op = "Commit" THEN c.cts ELSE c.ts) IN
    /\ part' = [part EXCEPT ![p] = [mgr |-> m, kv |-> kvPut(part[p].kv, r.writes)]]
    /\ clock' = [clock EXCEPT ![p] = IF c.op = "Commit" THEN @ ELSE @ + 1]

(* The batch of this command: its greatest timestamp becomes the manager's, *)
(* also when that was greater.                                              *)
Execute(p, c, r) ==
    LET m == FinishBatch(r.m, r.writes, r.done, IF c.op = "Commit" THEN c.cts ELSE c.ts) IN
    /\ part' = [part EXCEPT ![p] = [mgr |-> m, kv |-> kvPut(part[p].kv, r.writes)]]
    /\ clock' = [clock EXCEPT ![p] = IF c.op = "Commit" THEN Larger(@, c.cts) ELSE c.ts]

(* The interceptor of the server answers an invalid request with an error   *)
(* and never runs the handler; the coordinator of t aborts.                 *)
Refuse(t, p) ==
    /\ wr' = [wr EXCEPT ![t].at = [@ EXCEPT ![p] = "refused"],
                        ![t].pc = IF @ = "prepare" THEN "abort" ELSE @]
    /\ UNCHANGED <<part, clock>>

(* A call of the coordinator of t to the leader of p; After(r) is what it   *)
(* makes of the reply r.                                                    *)
Call(t, p, req, After(_)) ==
    LET c == Command(t, p, req)
        r == Apply(part[p].mgr, p, c)
    IN  /\ \/ Handler(req, p, TRUE) = "refused" /\ Refuse(t, p)
           \/ /\ Handler(req, p, TRUE) # "refused"
              /\ Execute(p, c, r)
              /\ wr' = [wr EXCEPT ![t] = After(r)]
        /\ UNCHANGED <<foll, rd>>

(* What a read-write transaction that is committed reads itself, it does    *)
(* after the commit.                                                        *)
Committed(t, p) == IF Reading(Body(t, p)) = {} THEN "done" ELSE "committed"

(* Autocommit; processor2PC.prepare: the principal comes first. *)
Prepare(t, p) ==
    LET req == IF Kind(t) = "autocommit" THEN AutocommitRequest(Txn[t], p, 0) ELSE PrepareRequest(Txn[t], p)
        After(r) == [pc |-> IF r.status.state \in {"Prepared", "Committed"} THEN "prepare" ELSE "abort",
                     cts |-> Larger(wr[t].cts, r.status.ts),
                     at |-> [wr[t].at EXCEPT ![p] = CASE r.status.state = "Committed" -> Committed(t, p)
                                                      [] r.status.state = "Prepared" -> "prepared"
                                                      [] OTHER -> "failed"]]
    IN  /\ wr[t].pc = "prepare" /\ wr[t].at[p] = "idle" /\ p \in Participants(Txn[t])
        /\ p = Principal(t) \/ wr[t].at[Principal(t)] = "prepared"
        /\ Call(t, p, req, After)

(* decide, and StoreDecision on the principal partition *)
Decide(t) ==
    /\ wr[t].pc = "prepare" /\ Kind(t) = "2pc"
    /\ \A x \in Participants(Txn[t]) : wr[t].at[x] = "prepared"
    /\ Call(t, Principal(t), Decision(Txn[t], wr[t].cts), LAMBDA r : [wr[t] EXCEPT !.pc = "commit"])

Others(t) == Participants(Txn[t]) \ {Principal(t)}

(* commit and abort: the principal comes last. *)
Finish(t, p) ==
    LET commit == wr[t].pc = "commit"
        req == IF commit THEN CommitRequest(Txn[t], p, wr[t].cts) ELSE AbortRequest(Txn[t], p)
        After(r) == [wr[t] EXCEPT !.at = [@ EXCEPT ![p] = IF commit THEN Committed(t, p) ELSE "failed"]]
    IN  /\ wr[t].pc \in {"commit", "abort"} /\ wr[t].at[p] = "prepared"
        /\ p # Principal(t) \/ \A x \in Others(t) : wr[t].at[x] \in {"done", "failed", "idle", "refused"}
        /\ Call(t, p, req, After)

(* CommitReadWrite, AutocommitReadWrite: the status of the manager has no   *)
(* map to put results into.  The call panics and ends in an error.          *)
FetchReadWrite(t, p) ==
    /\ wr[t].at[p] = "committed"
    /\ wr' = [wr EXCEPT ![t].at = [@ EXCEPT ![p] = "error"]]
    /\ UNCHANGED <<part, foll, clock, rd>>

(* Then the principal is left to its watchdog, which commits it. *)
WatchdogCommit(t) ==
    /\ wr[t].pc = "commit" /\ wr[t].at[Principal(t)] = "prepared"
    /\ \A x \in Others(t) : wr[t].at[x] \in {"done", "error"}
    /\ \E x \in Others(t) : wr[t].at[x] = "error"
    /\ Call(t, Principal(t), [CommitRequest(Txn[t], Principal(t), wr[t].cts) EXCEPT !.fetch = FALSE],
            LAMBDA r : [wr[t] EXCEPT !.at = [@ EXCEPT ![Principal(t)] = "done"]])

(* Raft brings the follower up to date; bound: while a read may use it. *)
Follow(p) ==
    /\ foll[p] # part[p]
    /\ \E q \in Reads : Txn[q].snapshot /\ rd[q].at[p] \in {"idle", "checked"}
    /\ foll' = [foll EXCEPT ![p] = part[p]]
    /\ UNCHANGED <<part, clock, wr, rd>>

-----------------------------------------------------------------------------
(* Readers *)

At(q, p, from, to) ==
    rd[q].at[p] = from /\ rd' = [rd EXCEPT ![q].at = [@ EXCEPT ![p] = to]]

(* processorReadOnly.decide: the greatest of the timestamps answered *)
decide(ts, answer) == Larger(ts, answer)

(* PrepareReadOnly, AutocommitReadOnly; a follower that is asked does not   *)
(* answer.                                                                  *)
PrepareReadOnly(q, p, srv) ==
    LET t == Txn[q]
        req == IF Kind(q) = "autocommit" THEN AutocommitRequest(t, p, 0) ELSE PrepareRequest(t, p)
        handler == Handler(req, p, srv = "leader")
    IN  /\ ~t.snapshot /\ rd[q].at[p] = "idle" /\ p \in Participants(t)
        /\ rd' = [rd EXCEPT ![q].ts = IF handler \in {"refused", "notLeader"} THEN @ ELSE decide(@, Safe(q, p)),
                            ![q].at = [@ EXCEPT ![p] = CASE handler = "PrepareReadOnly" -> "prepared"
                                                         [] handler = "AutocommitReadOnly" -> "checked"
                                                         [] OTHER -> handler]]
        /\ UNCHANGED <<part, foll, clock, wr>>

(* reader.mainLoop forgets a prepared read that was not committed in time. *)
CleanReadOnly(q, p) ==
    /\ At(q, p, "prepared", "cleaned")
    /\ UNCHANGED <<part, foll, clock, wr>>

(* What checkSafeTimestamp does at first; only a leader can raise its       *)
(* timestamp.                                                               *)
checkSafeTimestamp(q, p, srv) ==
    LET m == (IF srv = "leader" THEN part[p] ELSE foll[p]).mgr
    IN  IF rd[q].ts <= SafeTimestamp(m, Body(q, p)) THEN "checked"
        ELSE IF HasConflict(m, Body(q, p)) \/ srv = "follower" THEN "outOfRange"
        ELSE "bumping"

(* Mutation of Merge: the clock does not learn of the read. *)
MergeNothing(q, p) == UNCHANGED clock

(* The timestamp of a request is merged into the clock first. *)
Merge(q, p) == clock' = [clock EXCEPT ![p] = Larger(@, rd[q].ts)]

(* processorReadOnly.prepare: all have to prepare. *)
AllPrepared(q) == \A x \in Participants(Txn[q]) : rd[q].at[x] \notin {"idle", "refused", "notLeader"}

(* CommitReadOnly, once all have prepared *)
CommitReadOnly(q, p) ==
    /\ Kind(q) = "readOnly" /\ AllPrepared(q)
    /\ IF Handler(CommitRequest(Txn[q], p, rd[q].ts), p, TRUE) = "refused" THEN At(q, p, "prepared", "refused")
       ELSE \/ At(q, p, "cleaned", "failed")
            \/ At(q, p, "prepared", checkSafeTimestamp(q, p, "leader"))
    /\ Merge(q, p)
    /\ UNCHANGED <<part, foll, wr>>

(* clientRetrier.Commit: only a commit whose timestamp is out of range is   *)
(* tried again, if that is the error that comes back.                       *)
RetryCommit(q, p) ==
    /\ getGoError(getRPCError("TimeOutOfRange")) = "TimeOutOfRange"
    /\ Kind(q) = "readOnly" /\ At(q, p, "outOfRange", "prepared")
    /\ UNCHANGED <<part, foll, clock, wr>>

(* processorReadSnapshot: all partitions are asked for the same timestamp. *)
SnapshotRequest(q, p) == AutocommitRequest(Txn[q], p, rd[q].ts)

(* AutocommitSnapshotRead, by a leader or a follower *)
SnapshotRead(q, p, srv) ==
    /\ Txn[q].snapshot /\ p \in Participants(Txn[q])
    /\ rd[q].at[p] = "idle"
    /\ LET ok == Handler(SnapshotRequest(q, p), p, srv = "leader") = "AutocommitSnapshotRead"
       IN  /\ rd' = [rd EXCEPT ![q].srv = [@ EXCEPT ![p] = srv],
                               ![q].at = [@ EXCEPT ![p] = IF ok THEN checkSafeTimestamp(q, p, srv) ELSE "refused"]]
           /\ IF srv = "leader" THEN Merge(q, p) ELSE UNCHANGED clock
    /\ UNCHANGED <<part, foll, wr>>

(* writer.UpdateTimestamp: a batch with nothing but the timestamp *)
UpdateTimestamp(q, p) ==
    /\ At(q, p, "bumping", "bumped")
    /\ part' = [part EXCEPT ![p].mgr = [@ EXCEPT !.maxTs = rd[q].ts]]
    /\ UNCHANGED <<foll, clock, wr>>

Recheck(q, p) ==
    /\ At(q, p, "bumped", IF rd[q].ts <= Safe(q, p) THEN "checked" ELSE "outOfRange")
    /\ UNCHANGED <<part, foll, clock, wr>>

(* The results are fetched; the client's end refuses a range that is empty. *)
Fetch(q, p) ==
    LET statuses == fetchResults(ServerOf(q, p).kv, rd[q].ts, Body(q, p))
        ok == ValidTxnStatus(rd[q].ts, statuses)
    IN  /\ rd[q].at[p] = "checked"
        /\ rd' = [rd EXCEPT ![q].at = [@ EXCEPT ![p] = IF ok THEN "done" ELSE "invalid"],
                            ![q].got = IF ok THEN [@ EXCEPT ![p] = statuses] ELSE @]
        /\ UNCHANGED <<part, foll, clock, wr>>

Next ==
    \/ \E p \in Pids :
          \/ Follow(p)
          \/ \E t \in Txns : Prepare(t, p) \/ Finish(t, p) \/ FetchReadWrite(t, p)
          \/ \E q \in Reads :
                \/ CleanReadOnly(q, p) \/ CommitReadOnly(q, p) \/ RetryCommit(q, p)
                \/ \E srv \in {"leader", "follower"} : PrepareReadOnly(q, p, srv) \/ SnapshotRead(q, p, srv)
                \/ UpdateTimestamp(q, p) \/ Recheck(q, p) \/ Fetch(q, p)
    \/ \E t \in Txns : Decide(t) \/ WatchdogCommit(t)

Spec == Init /\ [][Next]_vars

-----------------------------------------------------------------------------
(* Properties *)

(* processorReadOnly.commit, processorReadSnapshot.autocommit: the read     *)
(* fails unless every partition answered.                                   *)
Returned(q) == \A p \in Participants(Txn[q]) : rd[q].at[p] = "done"

Result(q) == Aggregated(rd[q].got)

(* keyvalue.Get: the values in the order of the keys *)
Values(q) == [i \in DOMAIN Request[q].keys |-> getSingleResult(Result(q), i - 1)]

(* What an action finds by definition: of every key the newest version that *)
(* is not after ts, unless it is a tombstone; of a range the first results. *)
Reference(db, ts, a) ==
    LET hits == UNION {Get(db, ts, k) : k \in a.first .. a.last - 1}
    IN  IF a.op = "Read" \/ Limit(a) = 0 THEN hits
        ELSE {r \in hits : Cardinality({s \in hits : s.key < r.key}) < Limit(a)}

(* A read that returned shows every partition as it is at the timestamp of  *)
(* the read, for good: no transaction commits later at or below it, on any  *)
(* of the partitions, whichever server answered (processor_read_only.go:    *)
(* "all reads are performed from a globally-consistent ... snapshot").  A   *)
(* Get returns these values for its keys, in their order.                   *)
GlobalSnapshot ==
    \A q \in Reads : Returned(q) =>
        /\ \A p \in Pids : \A a \in Body(q, p) :
              ToSet(Result(q)[a.id].results) = Reference(part[p].mgr.db, rd[q].ts, a)
        /\ Request[q].op = "Get" => \A i \in DOMAIN Request[q].keys :
              LET k == Request[q].keys[i]
                  found == Get(part[getPartition(k)].mgr.db, rd[q].ts, k)
              IN  IF found = {} THEN Values(q)[i] = "nil" ELSE Values(q)[i] \in {r.txn : r \in found}

(* Whether q found the version t writes on p, or a newer one, which may be  *)
(* that the key is gone.                                                    *)
Sees(q, t, p) ==
    \E a \in Body(q, p) : \E b \in Body(t, p) :
        \/ \E r \in ToSet(Result(q)[a.id].results) : r.key = b.first /\ r.ts >= wr[t].cts
        \/ \E r \in part[p].mgr.db :
              r.op = "Delete" /\ r.key = b.first /\ wr[t].cts < r.ts /\ r.ts <= rd[q].ts

(* A read that returned has seen a transaction that was decided on all of   *)
(* the partitions they share, or on none.                                   *)
AtomicVisibility ==
    \A q \in Reads, t \in Txns : Returned(q) /\ wr[t].pc = "commit" =>
        \A p, x \in Participants(Txn[q]) \cap Participants(Txn[t]) : Sees(q, t, p) = Sees(q, t, x)

(* What the processors ask of the partitions is what the validators and the *)
(* services of the partitions accept: no request that the API server took   *)
(* is refused on the way (AutocommitRequest.Validate, PrepareRequest,       *)
(* CommitRequest, Decision; the checks of partition ids in service.go).     *)
NeverRefused ==
    /\ \A t \in Txns : \A p \in Pids : wr[t].at[p] # "refused"
    /\ \A q \in Reads : \A p \in Pids : rd[q].at[p] # "refused"

(* No version is ever written over another one of the same key and          *)
(* timestamp, which the store would refuse ("keep the MVCC records          *)
(* immutable"): all that the managers committed is in the stores.           *)
VersionsImmutable == \A p \in Pids : ToSet(part[p].kv) = part[p].mgr.db

(* Both engines answer alike, and as the manager has it, at every timestamp *)
(* a version has and at the ones before all and after all of them, for an   *)
(* address, for a key and for all ranges, past the last key too.            *)
EnginesAgree ==
    \A p \in Pids :
        LET kv == part[p].kv
            db == part[p].mgr.db
            last == Byte ^ KeyBytes
            times == {0, 1} \cup {r.ts : r \in db}
            addresses == {Address(k, t) : k \in 0 .. last, t \in times}
        IN  /\ \A ts \in times : \A k \in 0 .. last - 1 :
                  /\ ToSet(emulatedGet(kv, ts, k)) = rocksMVCCGet(kv, ts, k)
                  /\ rocksMVCCGet(kv, ts, k) = Get(db, ts, k)
            /\ \A ts \in times : \A j \in 0 .. last : \A k \in 0 .. j :
                  /\ emulatedGetRange(kv, ts, k, j) = rocksMVCCGetRange(kv, ts, k, j)
                  /\ emulatedExistsInRange(kv, ts, k, j) = rocksExistsInRange(kv, ts, k, j)
            /\ \A a \in addresses : rocksGet(kv, a) = kvGet(kv, a)
            /\ \A a, b \in addresses : Before(a, b) => rocksGetRange(kv, a, b) = kvGetRange(kv, a, b)

=============================================================================
