------------------------------- MODULE ApiTxn -------------------------------
(***************************************************************************)
(* What an API server makes of a key-value request, and of the answers of  *)
(* the partitions (api/server/keyvalue, api/server/txn: actions.go,        *)
(* partitioner.go, txn.go, processor.go; pkg/keyvalue), and what the       *)
(* validators on both ends of a call demand of the messages between API    *)
(* and data servers (data/data_txn.go, rpc/interceptors/validator.go).     *)
(*                                                                         *)
(* A transaction t is a record: its principal partition, its actions on    *)
(* each partition with the ids it numbered them by, whether it reads a     *)
(* snapshot.  Values are the names of the transactions that wrote them.    *)
(***************************************************************************)
EXTENDS Storage

CONSTANTS
    PartitionCount,
    Hash              \* Hash[k]: xxhash of a routing key

ASSUME ApiTxnAssumption == PartitionCount \in Nat \ {0} /\ \A k \in DOMAIN Hash : Hash[k] \in Nat

Pids == 0 .. PartitionCount - 1

NoPid == PartitionCount

-----------------------------------------------------------------------------
(* actions.go *)

Read(key) == On("Read", key)

ReadRange(start, end, max) == [On("ReadRange", start) EXCEPT !.last = end] @@ [max |-> max]

Insert(key) == On("Insert", key)

Upsert(key) == On("Upsert", key)

Delete(key) == On("Delete", key)

LockKey(key, excl, check) == [On("LockKey", key) EXCEPT !.excl = excl, !.check = check]

LockRange(start, end, excl, check) ==
    [On("LockRange", start) EXCEPT !.last = end, !.excl = excl, !.check = check]

-----------------------------------------------------------------------------
(* txn.go: transactions are built one routing key at a time. *)

newTxn == [pid |-> NoPid, actions |-> [p \in Pids |-> {}], next |-> 0, snapshot |-> FALSE]

getPartition(key) == Hash[key] % PartitionCount

(* Append: the first partition becomes the principal one. *)
AppendTo(t, key, acts) ==
    LET p == getPartition(key)
    IN  [pid |-> IF t.pid = NoPid THEN p ELSE t.pid, next |-> t.next + Len(acts), snapshot |-> t.snapshot,
         actions |-> [t.actions EXCEPT ![p] = @ \cup {acts[i] @@ [id |-> t.next + i - 1] : i \in DOMAIN acts}]]

Participants(t) == {p \in Pids : t.actions[p] # {}}

ReadOnlyActions(acts) == \A a \in acts : a.op \in {"Read", "ReadRange"}

IsReadOnly(t) == \A p \in Pids : ReadOnlyActions(t.actions[p])

-----------------------------------------------------------------------------
(* keyvalue/service.go.  Requests are [op, keys], a Get has the flag        *)
(* snapshot too; "Program" is any other use of the transaction interface:   *)
(* pairs of a routing key and actions.                                      *)

KvGet(req) ==
    FoldLeft(LAMBDA t, k : AppendTo(t, k, <<Read(k)>>), [newTxn EXCEPT !.snapshot = req.snapshot], req.keys)

KvSet(req) == FoldLeft(LAMBDA t, k : AppendTo(t, k, <<Upsert(k)>>), newTxn, req.keys)

KvDelete(req) == FoldLeft(LAMBDA t, k : AppendTo(t, k, <<Delete(k)>>), newTxn, req.keys)

Program(req) ==
    FoldLeft(LAMBDA t, s : AppendTo(t, s[1], s[2]), [newTxn EXCEPT !.snapshot = req.snapshot], req.steps)

TxnOf(req) ==
    CASE req.op = "Get" -> KvGet(req)
      [] req.op = "Set" -> KvSet(req)
      [] req.op = "Delete" -> KvDelete(req)
      [] req.op = "Program" -> Program(req)

(* Validate of the requests.  That a Get or a Delete has keys is not asked; *)
(* the snapshots a Get may ask for are times that have passed.              *)
ValidKvRequest(req) == req.op = "Set" => req.keys # <<>>

(* Processor.Process: the processor that takes a transaction *)
Process(t) ==
    IF ~IsReadOnly(t) /\ t.snapshot THEN "invalid"
    ELSE CASE Cardinality(Participants(t)) = 0 -> "empty"
           [] Cardinality(Participants(t)) = 1 -> "autocommit"
           [] OTHER -> IF ~IsReadOnly(t) THEN "2pc" ELSE IF t.snapshot THEN "snapshot" ELSE "readOnly"

-----------------------------------------------------------------------------
(* The requests to the data servers *)

AutocommitRequest(t, p, readTs) ==
    [rpc |-> "Autocommit", pid |-> p, principal |-> t.pid, actions |-> t.actions[p], readTs |-> readTs]

(* Mutation of PrepareRequest: the participants are not named. *)
PrepareRequestBare(t, p) ==
    [rpc |-> "Prepare", pid |-> p, principal |-> t.pid, actions |-> t.actions[p], readOnly |-> IsReadOnly(t), pids |-> {}]

PrepareRequest(t, p) ==
    [rpc |-> "Prepare", pid |-> p, principal |-> t.pid, actions |-> t.actions[p], readOnly |-> IsReadOnly(t),
     pids |-> IF p = t.pid THEN Participants(t) ELSE {}]

CommitRequest(t, p, cts) ==
    [rpc |-> "Commit", pid |-> p, principal |-> t.pid, ts |-> cts, readOnly |-> IsReadOnly(t), fetch |-> TRUE]

AbortRequest(t, p) == [rpc |-> "Abort", pid |-> p, principal |-> t.pid]

Decision(t, cts) == [rpc |-> "StoreDecision", pid |-> t.pid, principal |-> t.pid, ts |-> cts, commit |-> TRUE]

(* TxnId.Validate: the id is set when the first partition is. *)
ValidTxnId(r) == r.principal # NoPid

LockChecks == {"none", "present", "absent"}

ValidAction(a) ==
    /\ a.op \in {"Read", "ReadRange", "LockKey", "LockRange"} \cup Writes
    /\ a.op \in Locking => a.check \in LockChecks

ValidTxn(r) == ValidTxnId(r) /\ r.actions # {} /\ \A a \in r.actions : ValidAction(a)

IsSnapshotRead(r) == r.readTs # 0 /\ ReadOnlyActions(r.actions)

ValidAutocommit(r) ==
    /\ ValidTxn(r)
    /\ ~IsSnapshotRead(r) => r.pid = r.principal
    /\ r.readTs # 0 => ReadOnlyActions(r.actions)

ValidPrepare(r) == ValidTxn(r) /\ (r.pid = r.principal => r.pids # {})

ValidRequest(r) ==
    CASE r.rpc = "Autocommit" -> ValidAutocommit(r)
      [] r.rpc = "Prepare" -> ValidPrepare(r)
      [] r.rpc \in {"Commit", "StoreDecision"} -> ValidTxnId(r) /\ r.ts # 0
      [] r.rpc = "Abort" -> ValidTxnId(r)

(* data/server/txn/service.go: what the service of partition p does with a  *)
(* request that is valid.                                                   *)
Handler(r, p, isLeader) ==
    IF ~ValidRequest(r) THEN "refused"
    ELSE IF r.rpc = "Autocommit" THEN
        CASE r.pid # p -> "refused"
          [] r.pid = p /\ IsSnapshotRead(r) -> "AutocommitSnapshotRead"
          [] r.pid = p /\ ~IsSnapshotRead(r) /\ ~isLeader -> "notLeader"
          [] OTHER -> IF ReadOnlyActions(r.actions) THEN "AutocommitReadOnly" ELSE "Autocommit"
    ELSE CASE ~isLeader -> "notLeader"
           [] isLeader /\ r.pid # p -> "refused"
           [] r.rpc = "StoreDecision" -> IF r.commit THEN "StoreDecision" ELSE "refused"
           [] r.rpc \in {"Prepare", "Commit"} -> IF r.readOnly THEN r.rpc \o "ReadOnly" ELSE r.rpc
           [] OTHER -> r.rpc

-----------------------------------------------------------------------------
(* The answers *)

ActionStatus(code, results) == [code |-> code, results |-> results]

(* ActionStatus.Validate: a success has results, which a range that is      *)
(* empty does not.                                                          *)
ValidActionStatus(s) == (s.code = "Success") = (s.results # <<>>)

(* TxnStatus.Validate, by the client *)
ValidTxnStatus(ts, statuses) == ts # 0 /\ \A id \in DOMAIN statuses : ValidActionStatus(statuses[id])

(* aggregateResults: the statuses of all partitions *)
Aggregated(got) == FoldFunctionOnSet(LAMBDA g, all : g @@ all, <<>>, got, DOMAIN got)

(* getSingleResult: the value a Get returns for one of its keys *)
getSingleResult(statuses, id) ==
    CASE id \notin DOMAIN statuses -> "error"
      [] id \in DOMAIN statuses /\ statuses[id].code = "KeyNotFound" -> "nil"
      [] OTHER -> IF statuses[id].code = "Success" /\ Len(statuses[id].results) = 1
                  THEN statuses[id].results[1].txn ELSE "error"
-----------------------------------------------------------------------------
(* rpc/interceptors/errors.go: what a caller gets of an error of a handler *)

(* getRPCError: the code and the message of each error it knows *)
RPCErrors ==
    [DeadlineExceeded   |-> <<"DeadlineExceeded", "Deadline exceeded">>,
     Canceled           |-> <<"Canceled", "Canceled">>,
     Unavailable        |-> <<"Unavailable", "Unavailable">>,
     NotLeader          |-> <<"Unavailable", "Not Leader">>,
     NotFound           |-> <<"NotFound", "Not found">>,
     InvalidRequest     |-> <<"InvalidArgument", "Invalid Request">>,
     ValidationError    |-> <<"InvalidArgument", "what is wrong">>,
     PermissionDenied   |-> <<"PermissionDenied", "Permission Denied">>,
     NotRegistered      |-> <<"Unauthenticated", "Not Registered">>,
     ResourceExhausted  |-> <<"ResourceExhausted", "Resource Exhausted">>,
     TransactionAborted |-> <<"Aborted", "Transaction Aborted">>,
     CorruptedData      |-> <<"DataLoss", "Corrupted Data">>,
     TimeOutOfRange     |-> <<"OutOfRange", "Time out of range">>,
     FailedPrecondition |-> <<"FailedPrecondition", "Failed Precondition">>,
     InternalError      |-> <<"Internal", "Internal error">>]

getRPCError(err) == IF err \in DOMAIN RPCErrors THEN RPCErrors[err] ELSE RPCErrors["InternalError"]

(* getGoError: some codes stand for one error whatever the message, some    *)
(* only with its message; what is none of them stays a status.              *)
getGoError(st) ==
    LET code == st[1]
        exact == {"Unauthenticated", "Aborted", "DataLoss", "OutOfRange"}
        named == {e \in DOMAIN RPCErrors : RPCErrors[e] = st}
        coded == {e \in DOMAIN RPCErrors : RPCErrors[e][1] = code}
    IN  CASE named # {} -> CHOOSE e \in named : TRUE
          [] named = {} /\ code = "Unavailable" -> "Unavailable"
          [] named = {} /\ code = "InvalidArgument" -> "ValidationError"
          [] named = {} /\ coded # {} /\ code \notin exact \cup {"Unavailable", "InvalidArgument"} -> CHOOSE e \in coded : TRUE
          [] OTHER -> "status"

=============================================================================
