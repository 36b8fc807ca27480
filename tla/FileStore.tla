----------------------------- MODULE FileStore -----------------------------
(***************************************************************************)
(* FileStorage of file-service (storage.py): MinIO keeps one object per    *)
(* SHA-256 digest, SQLite one physical_files row per digest and one        *)
(* file_shadows row per time the content was stored.  Nothing spans the    *)
(* two: every MinIO call and every SQLite transaction runs in a worker     *)
(* thread and is one action, so stores and the periodic cleanup interleave *)
(* between them, MinIO calls fail, and the process stops between any two.  *)
(*                                                                         *)
(* Faulty... operators are wrong variants of the definition below them,    *)
(* used by no action.                                                      *)
(***************************************************************************)
EXTENDS Integers, Sequences, FiniteSets

CONSTANTS
    Digests,        \* SHA-256 of the contents: the object keys
    Names,          \* display names
    Stores,         \* requests that store a file
    ExpireAfter,    \* expire_after_seconds, in clock ticks
    BatchSize,      \* cleanup_batch_size
    MaxTime,        \* bound of the clock
    MaxStores,      \* bound: how many files are stored
    MaxStops,       \* bound: how often the process stops and restarts
    None

ASSUME BoundsAssumption == MaxTime \in Nat /\ MaxStores \in Nat /\ MaxStops \in Nat
ASSUME SettingsAssumption == ExpireAfter \in Nat \ {0} /\ BatchSize \in Nat \ {0}
ASSUME DigestsAssumption == IsFiniteSet(Digests)     \* 256-bit digests
ASSUME NoneAssumption == None \notin Digests /\ None \notin Names

NoRow == -1

VARIABLES
    now,            \* the clock
    objects,        \* the digests MinIO has an object for
    updatedAt,      \* physical_files.updated_at per digest, NoRow without a row
    shadows,        \* file_shadows: the names per digest, by id
    storePc, storing, naming,   \* the store requests
    begun,          \* how many stores have begun
    cleanPc, batch, cutoff,     \* _cleanup_expired_files: rows left, its cutoff
    stops           \* how often the process has stopped

dbVars == << updatedAt, shadows >>
storeVars == << storePc, storing, naming, begun >>
cleanVars == << cleanPc, batch, cutoff >>
vars == << now, objects, dbVars, storeVars, cleanVars, stops >>

Init ==
    /\ now = 0
    /\ objects = {}
    /\ updatedAt = [d \in Digests |-> NoRow]
    /\ shadows = [d \in Digests |-> << >>]
    /\ storePc = [r \in Stores |-> "idle"]
    /\ storing = [r \in Stores |-> None]
    /\ naming = [r \in Stores |-> None]
    /\ begun = 0
    /\ cleanPc = "idle"
    /\ batch = << >>
    /\ cutoff = 0
    /\ stops = 0

HasRow(d) == updatedAt[d] # NoRow

\* _expiry_cutoff, and the two comparisons with it.
ExpiryCutoff == now - ExpireAfter
Fresh(d) == HasRow(d) /\ updatedAt[d] >= ExpiryCutoff
ExpiredAt(d, limit) == HasRow(d) /\ updatedAt[d] < limit

\* metadata(): the display name of a file that has not expired, None for 404.
MetadataName(d) == IF Fresh(d) /\ shadows[d] # << >> THEN shadows[d][Len(shadows[d])] ELSE None

-----------------------------------------------------------------------------
(* store_url, store_bytes *)

StoreAt(r, at) ==
    /\ storePc' = [storePc EXCEPT ![r] = at]
    /\ UNCHANGED << storing, naming, begun >>

StoreEnds(r) ==
    /\ storePc' = [storePc EXCEPT ![r] = "idle"]
    /\ storing' = [storing EXCEPT ![r] = None]
    /\ naming' = [naming EXCEPT ![r] = None]
    /\ UNCHANGED begun

\* The content is downloaded, small enough, hashed and named.
BeginStore(r) ==
    \E d \in Digests, n \in Names :
        /\ storePc[r] = "idle" /\ begun < MaxStores
        /\ storePc' = [storePc EXCEPT ![r] = "stat"]
        /\ storing' = [storing EXCEPT ![r] = d]
        /\ naming' = [naming EXCEPT ![r] = n]
        /\ begun' = begun + 1
        /\ UNCHANGED << now, objects, dbVars, cleanVars, stops >>

\* stat_object: an object that is there is not put again.
StatObject(r) ==
    /\ storePc[r] = "stat"
    /\ StoreAt(r, IF storing[r] \in objects THEN "upsert" ELSE "put")
    /\ UNCHANGED << now, objects, dbVars, cleanVars, stops >>

PutObject(r) ==
    /\ storePc[r] = "put"
    /\ objects' = objects \cup { storing[r] }
    /\ StoreAt(r, "upsert")
    /\ UNCHANGED << now, dbVars, cleanVars, stops >>

FaultyMinioFails(r) ==       \* the error of put_object is swallowed
    /\ storePc[r] \in {"stat", "put"}
    /\ StoreAt(r, "upsert")
    /\ UNCHANGED << now, objects, dbVars, cleanVars, stops >>

\* MinIO fails: the request fails, nothing is undone.
MinioFails(r) ==
    /\ storePc[r] \in {"stat", "put"}
    /\ StoreEnds(r)
    /\ UNCHANGED << now, objects, dbVars, cleanVars, stops >>

\* _upsert_metadata, one transaction: the row is inserted or refreshed, a shadow added.
UpsertMetadata(r) ==
    /\ storePc[r] = "upsert"
    /\ updatedAt' = [updatedAt EXCEPT ![storing[r]] = now]
    /\ shadows' = [shadows EXCEPT ![storing[r]] = Append(@, naming[r])]
    /\ StoreEnds(r)
    /\ UNCHANGED << now, objects, cleanVars, stops >>

-----------------------------------------------------------------------------
(* cleanup_expired_files *)

Expired == { d \in Digests : ExpiredAt(d, ExpiryCutoff) }

\* The batches ORDER BY updated_at LIMIT BatchSize may return.
Batches ==
    LET size == IF Cardinality(Expired) < BatchSize THEN Cardinality(Expired) ELSE BatchSize
    IN  { b \in [1..size -> Expired] :
            /\ \A i, j \in 1..size : i < j => b[i] # b[j] /\ updatedAt[b[i]] <= updatedAt[b[j]]
            /\ \A d \in Expired \ { b[i] : i \in 1..size }, i \in 1..size :
                  updatedAt[b[i]] <= updatedAt[d] }

\* The interval is over and there is something to do.
ListExpired ==
    /\ cleanPc = "idle" /\ Expired # {}
    /\ batch' \in Batches
    /\ cutoff' = ExpiryCutoff
    /\ cleanPc' = "delete"
    /\ UNCHANGED << now, objects, dbVars, storeVars, stops >>

\* The next row of the batch, or the end of the cleanup.
NextRow ==
    /\ batch' = Tail(batch)
    /\ cleanPc' = IF Tail(batch) = << >> THEN "idle" ELSE "delete"
    /\ UNCHANGED cutoff

FaultyStillExpired(d) == HasRow(d)    \* the row is not checked again

\* The WHERE of the DELETE: a row refreshed since it was listed stays.
StillExpired(d) == ExpiredAt(d, cutoff)

FaultyShadowsLeft(d) == shadows    \* left to a foreign key SQLite does not enforce

\* The shadows when the row of d is deleted.
ShadowsLeft(d) == [shadows EXCEPT ![d] = << >>]

\* _delete_expired_metadata, one transaction.
DeleteExpiredMetadata ==
    /\ cleanPc = "delete"
    /\ LET d == Head(batch) IN
        IF StillExpired(d)
        THEN /\ updatedAt' = [updatedAt EXCEPT ![d] = NoRow]
             /\ shadows' = ShadowsLeft(d)
             /\ cleanPc' = "remove"
             /\ UNCHANGED << batch, cutoff >>
        ELSE NextRow /\ UNCHANGED dbVars
    /\ UNCHANGED << now, objects, storeVars, stops >>

\* _remove_object_if_present
RemoveObject ==
    /\ cleanPc = "remove"
    /\ objects' = objects \ { Head(batch) }
    /\ NextRow
    /\ UNCHANGED << now, dbVars, storeVars, stops >>

FaultyRemoveFails ==     \* the error ends the cleanup task for good
    /\ cleanPc = "remove"
    /\ cleanPc' = "dead"
    /\ UNCHANGED << now, objects, dbVars, storeVars, batch, cutoff, stops >>

\* MinIO fails: the rest of the batch waits for the next interval.
RemoveFails ==
    /\ cleanPc = "remove"
    /\ cleanPc' = "idle"
    /\ batch' = << >>
    /\ UNCHANGED << now, objects, dbVars, storeVars, cutoff, stops >>

-----------------------------------------------------------------------------
(* The process and the clock *)

\* The process stops and starts again: both stores keep what they have, initialize()
\* finds the bucket and the tables.
Restart ==
    /\ stops < MaxStops
    /\ stops' = stops + 1
    /\ storePc' = [r \in Stores |-> "idle"]
    /\ storing' = [r \in Stores |-> None]
    /\ naming' = [r \in Stores |-> None]
    /\ cleanPc' = "idle"
    /\ batch' = << >>
    /\ UNCHANGED << now, objects, dbVars, begun, cutoff >>

Tick ==
    /\ now < MaxTime
    /\ now' = now + 1
    /\ UNCHANGED << objects, dbVars, storeVars, cleanVars, stops >>

StoreStep(r) ==
    BeginStore(r) \/ StatObject(r) \/ PutObject(r) \/ MinioFails(r) \/ UpsertMetadata(r)

CleanStep == ListExpired \/ DeleteExpiredMetadata \/ RemoveObject \/ RemoveFails

Next == (\E r \in Stores : StoreStep(r)) \/ CleanStep \/ Restart \/ Tick

Spec == Init /\ [][Next]_vars

\* The cleanup task wakes every interval and its calls return or fail.
FairSpec == Spec /\ WF_vars(CleanStep)

-----------------------------------------------------------------------------
(* Properties *)

\* Every variable keeps its type.
TypeOK ==
    /\ now \in 0..MaxTime
    /\ objects \subseteq Digests
    /\ updatedAt \in [Digests -> 0..MaxTime \cup {NoRow}]
    /\ shadows \in [Digests -> Seq(Names)]
    /\ storePc \in [Stores -> {"idle", "stat", "put", "upsert"}]
    /\ storing \in [Stores -> Digests \cup {None}]
    /\ naming \in [Stores -> Names \cup {None}]
    /\ begun \in 0..MaxStores
    /\ cleanPc \in {"idle", "delete", "remove"}
    /\ batch \in Seq(Digests)
    /\ cutoff \in Int
    /\ stops \in 0..MaxStops

\* Names and rows live together: a file that is readable has a name, and a name given
\* before the file expired never comes back when its content is stored again, although
\* SQLite does not enforce the foreign key.
NamedWhileKept ==
    \A d \in Digests :
        /\ Fresh(d) => MetadataName(d) # None
        /\ ~HasRow(d) => shadows[d] = << >>

RowsDeletedExpired ==
    \A d \in Digests : HasRow(d) /\ ~HasRow(d)' => ~Fresh(d)

\* The cleanup deletes no file that is still readable: one stored again between the
\* listing and the deletion stays.
CleanupSparesFresh == [][RowsDeletedExpired]_vars

\* The metadata of d exists, or is about to, and the object does not.
Dangling(d) ==
    d \notin objects /\ (HasRow(d) \/ \E r \in Stores : storePc[r] = "upsert" /\ storing[r] = d)

DanglingByCleanup ==
    \A d \in Digests : ~Dangling(d) /\ Dangling(d)' => cleanPc = "remove" /\ Head(batch) = d

\* Metadata without an object comes about in one way only, the cleanup removing an
\* object that a concurrent store has already seen: no failure, restart or pair of
\* concurrent stores does it.
OnlyCleanupDangles == [][DanglingByCleanup]_vars

\* A file that has not expired can be read: docs/file-service.md:7, 46-48, and
\* storage.py:180, which takes a store of known content for idempotent.  The code does
\* not ensure it.
FreshIsReadable == \A d \in Digests : Fresh(d) => d \in objects

\* Every expired file is forgotten, or stored again, whatever fails in MinIO and
\* however small the batches are.
ExpiredIsForgotten ==
    \A d \in Digests : HasRow(d) /\ ~Fresh(d) ~> ~HasRow(d) \/ Fresh(d)

=============================================================================
