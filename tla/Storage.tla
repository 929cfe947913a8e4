------------------------------- MODULE Storage -------------------------------
(***************************************************************************)
(* The multi-version store of a partition in the two engines the data      *)
(* server can run on (internal/data/server/storage): RocksDB, which keeps  *)
(* versions itself (rocksdb), and a plain ordered store (inmem) on which   *)
(* versions are emulated by iterating over addresses (mvcc/emulated.go).   *)
(*                                                                         *)
(* A record is a version of TxnManager.tla; its address (kv/address.go) is *)
(* its key and timestamp.  A key is a string of KeyBytes bytes, here the   *)
(* number they are the digits of, so that bytes.Compare is <.  A store is  *)
(* the sequence of its records in the order of their addresses.            *)
(***************************************************************************)
EXTENDS TxnManager, Sequences, SequencesExt

CONSTANTS
    Byte,       \* how many values a byte has
    KeyBytes,   \* the length of keys
    MaxTs       \* math.MaxUint64

ASSUME StorageAssumption == Byte \in Nat \ {0, 1} /\ KeyBytes \in Nat \ {0} /\ MaxTs \in Nat \ {0}

-----------------------------------------------------------------------------
(* kv/address.go *)

Address(key, ts) == [key |-> key, ts |-> ts]

AddressOf(r) == Address(r.key, r.ts)

(* Mutation of Before: the oldest version of a key comes first. *)
BeforeAscending(a, b) == a.key < b.key \/ (a.key = b.key /\ a.ts < b.ts)

(* Compare: the newest version of a key comes first. *)
Before(a, b) == a.key < b.key \/ (a.key = b.key /\ a.ts > b.ts)

Weight(i) == Byte ^ (KeyBytes - i)

(* The key of NextKey: the first byte is incremented, and the one after it  *)
(* when it wraps to 0.  After the last key comes the next keyspace.         *)
Incremented(key) ==
    LET open == {i \in 1 .. KeyBytes : (key \div Weight(i)) % Byte # Byte - 1}
        i == CHOOSE j \in open : \A k \in open : j <= k
    IN  IF open = {} THEN Byte ^ KeyBytes
        ELSE key + Weight(i) + Byte * Weight(i) - Byte ^ KeyBytes

NextKey(a) == Address(Incremented(a.key), MaxTs)

NextAddress(a) == IF a.ts > 0 THEN Address(a.key, a.ts - 1) ELSE NextKey(a)

-----------------------------------------------------------------------------
(* inmem/inmem.go *)

(* sort.Find: the index of the first record not before a. *)
findFirst(kv, a) == 1 + Cardinality({i \in DOMAIN kv : Before(AddressOf(kv[i]), a)})

(* The record at an address, if there is one. *)
kvGet(kv, a) == {kv[i] : i \in {j \in DOMAIN kv : j = findFirst(kv, a) /\ AddressOf(kv[j]) = a}}

(* Records in a half open range of addresses. *)
kvGetRange(kv, start, end) == SubSeq(kv, findFirst(kv, start), findFirst(kv, end) - 1)

(* putOne: a record that is there already must be the same one. *)
Overwrites(kv, records) ==
    \E i \in DOMAIN kv : \E r \in records : AddressOf(kv[i]) = AddressOf(r) /\ kv[i] # r

(* The records of S in the order of their addresses. *)
InOrder(S) ==
    [i \in 1 .. Cardinality(S) |->
        CHOOSE r \in S : Cardinality({s \in S : Before(AddressOf(s), AddressOf(r))}) = i - 1]

(* Put; a record that would replace another one is refused.  *)
kvPut(kv, records) == IF Overwrites(kv, records) THEN kv ELSE InOrder(ToSet(kv) \cup records)

-----------------------------------------------------------------------------
(* mvcc/emulated.go.  Timestamp 0 asks for the newest versions. *)

Asked(ts) == IF ts = 0 THEN MaxTs ELSE ts

Tombstone(r) == r.op = "Delete"

(* getFirst and Get: the first record from the address of the key on. *)
emulatedGet(kv, ts, key) ==
    LET found == kvGetRange(kv, Address(key, Asked(ts)), NextAddress(Address(key, 0)))
    IN  IF found = <<>> \/ Tombstone(found[1]) THEN <<>> ELSE <<found[1]>>

(* Mutation of emulatedGetRange: a tombstone does not hide older versions. *)
emulatedGetRangeUndead(kv, ts, first, last) ==
    LET t == Asked(ts)
        Step(acc, r) == IF Tombstone(r) \/ r.key = acc.skip \/ r.ts > t THEN acc
                        ELSE [out |-> Append(acc.out, r), skip |-> r.key]
    IN  FoldLeft(Step, [out |-> <<>>, skip |-> -1],
                 kvGetRange(kv, Address(first, t), Address(last, t))).out

(* GetRange: the iterator skips what is too new, and everything of a key    *)
(* after its first record, which may be a tombstone.                        *)
emulatedGetRange(kv, ts, first, last) ==
    LET t == Asked(ts)
        Step(acc, r) ==
            IF r.key >= last \/ acc.end THEN [acc EXCEPT !.end = TRUE]
            ELSE IF Tombstone(r) THEN (IF r.ts <= t THEN [acc EXCEPT !.skip = r.key] ELSE acc)
            ELSE IF r.key = acc.skip \/ r.ts > t THEN acc
            ELSE [acc EXCEPT !.out = Append(@, r), !.skip = r.key]
    IN  FoldLeft(Step, [out |-> <<>>, skip |-> -1, end |-> FALSE],
                 kvGetRange(kv, Address(first, t), Address(last, t))).out

emulatedExistsInRange(kv, ts, first, last) == emulatedGetRange(kv, ts, first, last) # <<>>

-----------------------------------------------------------------------------
(* rocksdb *)

(* rocksdb_kv.go getIterator: RocksDB iterates over the records below an    *)
(* upper bound on keys, of which those before start are skipped; it ends at *)
(* the first one that is not before end.                                    *)
rocksGetRange(kv, start, end) ==
    LET bound == SelectSeq(kv, LAMBDA r : start.key <= r.key /\ r.key < NextKey(end).key)
        kept == SelectSeq(bound, LAMBDA r : ~Before(AddressOf(r), start))
    IN  SubSeq(kept, 1, findFirst(kept, end) - 1)

(* What RocksDB finds at a timestamp: the newest version that is not newer. *)
NewestAt(kv, ts, key) ==
    {r \in ToSet(kv) : /\ r.key = key /\ r.ts <= ts
                       /\ \A s \in ToSet(kv) : s.key = key /\ s.ts <= ts => s.ts <= r.ts}

(* rocksdb_kv.go Get: that version, when it is the one of the address. *)
rocksGet(kv, a) == {r \in NewestAt(kv, a.ts, a.key) : r.ts = a.ts}

(* rocksdb_mvcc.go Get: that version, unless it is a tombstone. *)
rocksMVCCGet(kv, ts, key) == {r \in NewestAt(kv, Asked(ts), key) : ~Tombstone(r)}

(* rocksdb_mvcc.go GetRange: of every key in the range RocksDB gives the    *)
(* newest version it finds; tombstones are left out.                        *)
rocksMVCCGetRange(kv, ts, first, last) ==
    InOrder(UNION {rocksMVCCGet(kv, ts, k) : k \in first .. last - 1})

rocksExistsInRange(kv, ts, first, last) == rocksMVCCGetRange(kv, ts, first, last) # <<>>

=============================================================================
