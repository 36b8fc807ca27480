-------------------------- MODULE FileStore_proofs --------------------------
(***************************************************************************)
(* Proofs about FileStore, for every finite set of contents, any number of *)
(* concurrent stores, any expiry and any batch size.                       *)
(***************************************************************************)
EXTENDS FileStore, SequenceTheorems, FiniteSetTheorems, TLAPS

\* The rows of the running cleanup: there is a next one, and the time they are compared
\* with has passed.
CleanupInv ==
    /\ cleanPc # "idle" => batch # << >>
    /\ cutoff <= ExpiryCutoff \/ cleanPc = "idle"

\* A file has a shadow exactly while it has a row.
ShadowInv == \A d \in Digests : HasRow(d) <=> shadows[d] # << >>

\* A store in progress has a content and a name.
StoreInv ==
    \A r \in Stores : storePc[r] # "idle" => storing[r] \in Digests /\ naming[r] \in Names

IInv == TypeOK /\ CleanupInv /\ ShadowInv /\ StoreInv

-----------------------------------------------------------------------------
(* Facts about the helpers *)

\* The batch the listing returns is a non-empty sequence of digests.
LEMMA BatchIsListed ==
    ASSUME Expired # {}, NEW b \in Batches
    PROVE  b \in Seq(Digests) /\ b # << >>
<1> DEFINE size == IF Cardinality(Expired) < BatchSize THEN Cardinality(Expired) ELSE BatchSize
<1>1. IsFiniteSet(Expired)
  <2>1. Expired \subseteq Digests
    BY DEF Expired
  <2> QED BY <2>1, FS_Subset, DigestsAssumption
<1>2. Cardinality(Expired) \in Nat /\ Cardinality(Expired) # 0
  BY <1>1, FS_CardinalityType, FS_EmptySet
<1>3. size \in Nat /\ size >= 1
  BY <1>2, SettingsAssumption
<1>4. b \in [1..size -> Expired]
  BY DEF Batches
<1>5. b \in [1..size -> Digests]
  BY <1>4 DEF Expired
<1> HIDE DEF size
<1>6. b \in Seq(Digests) /\ Len(b) = size
  BY <1>3, <1>5, SeqDef, LenProperties
<1> QED BY <1>3, <1>6, EmptySeq

\* The rest of a batch is one.
LEMMA RestOfBatch ==
    ASSUME TypeOK, batch # << >>
    PROVE  Head(batch) \in Digests /\ Tail(batch) \in Seq(Digests)
BY HeadTailProperties DEF TypeOK

\* A store appends a shadow, so there is one.
LEMMA ShadowAppended ==
    ASSUME NEW s \in Seq(Names), NEW n \in Names
    PROVE  Append(s, n) \in Seq(Names) /\ Append(s, n) # << >>
BY AppendProperties

-----------------------------------------------------------------------------
(* The inductive invariant *)

\* It holds when both stores are empty.
LEMMA InitEstablishesIInv == Init => IInv
BY BoundsAssumption, EmptySeq
DEF Init, IInv, TypeOK, CleanupInv, ShadowInv, StoreInv, HasRow, NoRow, ExpiryCutoff

\* A store that does not reach SQLite changes neither rows nor the cleanup.
LEMMA StoreWithoutRows ==
    ASSUME IInv, NEW r \in Stores,
           BeginStore(r) \/ StatObject(r) \/ PutObject(r) \/ MinioFails(r)
    PROVE  IInv'
<1> USE DEF IInv, dbVars, cleanVars
<1>1. CleanupInv' /\ ShadowInv'
  BY DEF BeginStore, StatObject, PutObject, MinioFails, CleanupInv, ShadowInv, HasRow, ExpiryCutoff
<1>2. CASE BeginStore(r)
  <2>1. TypeOK'
    BY <1>2, BoundsAssumption DEF BeginStore, TypeOK
  <2>2. StoreInv'
    BY <1>2 DEF BeginStore, TypeOK, StoreInv
  <2> QED BY <1>1, <2>1, <2>2
<1>3. CASE StatObject(r)
  <2>1. TypeOK'
    BY <1>3 DEF StatObject, StoreAt, TypeOK
  <2>2. StoreInv'
    BY <1>3 DEF StatObject, StoreAt, TypeOK, StoreInv
  <2> QED BY <1>1, <2>1, <2>2
<1>4. CASE PutObject(r)
  <2>1. TypeOK'
    BY <1>4 DEF PutObject, StoreAt, TypeOK, StoreInv
  <2>2. StoreInv'
    BY <1>4 DEF PutObject, StoreAt, TypeOK, StoreInv
  <2> QED BY <1>1, <2>1, <2>2
<1>5. CASE MinioFails(r)
  <2>1. TypeOK'
    BY <1>5 DEF MinioFails, StoreEnds, TypeOK
  <2>2. StoreInv'
    BY <1>5 DEF MinioFails, StoreEnds, TypeOK, StoreInv
  <2> QED BY <1>1, <2>1, <2>2
<1> QED BY <1>2, <1>3, <1>4, <1>5

\* A store that reaches SQLite writes the row and a shadow together.
LEMMA UpsertKeepsIInv ==
    ASSUME IInv, NEW r \in Stores, UpsertMetadata(r)
    PROVE  IInv'
<1> USE DEF IInv, cleanVars
<1>1. storing[r] \in Digests /\ naming[r] \in Names
  BY DEF UpsertMetadata, StoreInv
<1>2. shadows[storing[r]] \in Seq(Names)
  BY <1>1 DEF TypeOK
<1>3. /\ Append(shadows[storing[r]], naming[r]) \in Seq(Names)
      /\ Append(shadows[storing[r]], naming[r]) # << >>
  BY <1>1, <1>2, ShadowAppended
<1>4. TypeOK'
  BY <1>1, <1>3 DEF UpsertMetadata, StoreEnds, TypeOK
<1>5. CleanupInv'
  BY DEF UpsertMetadata, CleanupInv, ExpiryCutoff
<1>6. ShadowInv'
  BY <1>1, <1>3 DEF UpsertMetadata, StoreEnds, TypeOK, ShadowInv, HasRow, NoRow
<1>7. StoreInv'
  BY DEF UpsertMetadata, StoreEnds, TypeOK, StoreInv
<1> QED BY <1>4, <1>5, <1>6, <1>7

\* The cleanup deletes a row with its shadows and never runs out of its batch.
LEMMA CleanupKeepsIInv ==
    ASSUME IInv, CleanStep
    PROVE  IInv'
<1> USE DEF IInv, dbVars, storeVars
<1>1. CASE ListExpired
  <2>1. batch' \in Seq(Digests) /\ batch' # << >>
    BY <1>1, BatchIsListed DEF ListExpired
  <2>2. ExpiryCutoff \in Int
    BY SettingsAssumption DEF ExpiryCutoff, TypeOK
  <2>3. TypeOK' /\ StoreInv'
    BY <1>1, <2>1, <2>2 DEF ListExpired, TypeOK, StoreInv
  <2>4. CleanupInv' /\ ShadowInv'
    BY <1>1, <2>1, <2>2 DEF ListExpired, CleanupInv, ShadowInv, HasRow, ExpiryCutoff
  <2> QED BY <2>3, <2>4
<1>2. CASE DeleteExpiredMetadata
  <2>1. batch # << >>
    BY <1>2 DEF DeleteExpiredMetadata, CleanupInv
  <2>2. Head(batch) \in Digests /\ Tail(batch) \in Seq(Digests)
    BY <2>1, RestOfBatch
  <2>3. << >> \in Seq(Names)
    BY EmptySeq
  <2>4. CASE StillExpired(Head(batch))
    <3>1. TypeOK' /\ StoreInv'
      BY <1>2, <2>2, <2>3, <2>4 DEF DeleteExpiredMetadata, ShadowsLeft, TypeOK, StoreInv
    <3>2. CleanupInv'
      BY <1>2, <2>4 DEF DeleteExpiredMetadata, CleanupInv, ExpiryCutoff
    <3>3. ShadowInv'
      BY <1>2, <2>2, <2>4 DEF DeleteExpiredMetadata, ShadowsLeft, TypeOK, ShadowInv, HasRow
    <3> QED BY <3>1, <3>2, <3>3
  <2>5. CASE ~StillExpired(Head(batch))
    <3>1. TypeOK' /\ StoreInv'
      BY <1>2, <2>2, <2>5 DEF DeleteExpiredMetadata, NextRow, TypeOK, StoreInv
    <3>2. CleanupInv' /\ ShadowInv'
      BY <1>2, <2>5
      DEF DeleteExpiredMetadata, NextRow, CleanupInv, ShadowInv, HasRow, ExpiryCutoff
    <3> QED BY <3>1, <3>2
  <2> QED BY <2>4, <2>5
<1>3. CASE RemoveObject
  <2>1. batch # << >>
    BY <1>3 DEF RemoveObject, CleanupInv
  <2>2. Tail(batch) \in Seq(Digests)
    BY <2>1, RestOfBatch
  <2>3. TypeOK' /\ StoreInv'
    BY <1>3, <2>2 DEF RemoveObject, NextRow, TypeOK, StoreInv
  <2>4. CleanupInv' /\ ShadowInv'
    BY <1>3 DEF RemoveObject, NextRow, CleanupInv, ShadowInv, HasRow, ExpiryCutoff
  <2> QED BY <2>3, <2>4
<1>4. CASE RemoveFails
  <2>1. TypeOK' /\ StoreInv'
    BY <1>4, EmptySeq DEF RemoveFails, TypeOK, StoreInv
  <2>2. CleanupInv' /\ ShadowInv'
    BY <1>4 DEF RemoveFails, CleanupInv, ShadowInv, HasRow, ExpiryCutoff
  <2> QED BY <2>1, <2>2
<1> QED BY <1>1, <1>2, <1>3, <1>4 DEF CleanStep

\* A restart forgets what was under way, and nothing else.
LEMMA RestartKeepsIInv ==
    ASSUME IInv, Restart
    PROVE  IInv'
<1> USE DEF IInv, dbVars
<1>1. TypeOK'
  BY EmptySeq, BoundsAssumption DEF Restart, TypeOK
<1>2. CleanupInv' /\ ShadowInv' /\ StoreInv'
  BY DEF Restart, CleanupInv, ShadowInv, StoreInv, HasRow
<1> QED BY <1>1, <1>2

\* What has expired stays expired as time passes.
LEMMA TickKeepsIInv ==
    ASSUME IInv, Tick
    PROVE  IInv'
<1> USE DEF IInv, dbVars, storeVars, cleanVars
<1>1. TypeOK' /\ StoreInv'
  BY BoundsAssumption DEF Tick, TypeOK, StoreInv
<1>2. CleanupInv' /\ ShadowInv'
  BY SettingsAssumption DEF Tick, TypeOK, CleanupInv, ShadowInv, HasRow, ExpiryCutoff
<1> QED BY <1>1, <1>2

\* Every step keeps it.
LEMMA NextKeepsIInv == IInv /\ [Next]_vars => IInv'
<1> SUFFICES ASSUME IInv, [Next]_vars
             PROVE  IInv'
  OBVIOUS
<1>1. CASE \E r \in Stores : StoreStep(r)
  BY <1>1, StoreWithoutRows, UpsertKeepsIInv DEF StoreStep
<1>2. CASE CleanStep
  BY <1>2, CleanupKeepsIInv
<1>3. CASE Restart
  BY <1>3, RestartKeepsIInv
<1>4. CASE Tick
  BY <1>4, TickKeepsIInv
<1>5. CASE UNCHANGED vars
  BY <1>5 DEF vars, dbVars, storeVars, cleanVars, IInv, TypeOK, CleanupInv, ShadowInv, StoreInv,
              HasRow, ExpiryCutoff
<1> QED BY <1>1, <1>2, <1>3, <1>4, <1>5 DEF Next

-----------------------------------------------------------------------------
(* The theorems *)

\* The invariant holds in every reachable state.
THEOREM Invariance == Spec => []IInv
BY InitEstablishesIInv, NextKeepsIInv, PTL DEF Spec

\* Every variable keeps its type.
THEOREM TypeCorrect == Spec => []TypeOK
<1>1. IInv => TypeOK
  BY DEF IInv
<1> QED BY <1>1, Invariance, PTL

\* A readable file has a name, a forgotten one leaves no name behind.
THEOREM ReadableFilesAreNamed == Spec => []NamedWhileKept
<1>1. IInv => NamedWhileKept
  <2> SUFFICES ASSUME IInv, NEW d \in Digests
               PROVE  /\ Fresh(d) => MetadataName(d) # None
                      /\ ~HasRow(d) => shadows[d] = << >>
    BY DEF NamedWhileKept
  <2>1. HasRow(d) <=> shadows[d] # << >>
    BY DEF IInv, ShadowInv
  <2>2. ASSUME Fresh(d)
        PROVE  MetadataName(d) # None
    <3>1. shadows[d] \in Seq(Names) /\ shadows[d] # << >>
      BY <2>1, <2>2 DEF Fresh, IInv, TypeOK
    <3>2. shadows[d][Len(shadows[d])] \in Names
      BY <3>1, EmptySeq, ElementOfSeq
    <3> QED BY <2>2, <3>1, <3>2, NoneAssumption DEF MetadataName
  <2> QED BY <2>1, <2>2
<1> QED BY <1>1, Invariance, PTL

\* Only the deletion of a row that is still expired deletes a row.
LEMMA DeletedRowsAreExpired == IInv /\ [Next]_vars => RowsDeletedExpired
<1> SUFFICES ASSUME IInv, [Next]_vars, NEW d \in Digests, HasRow(d), ~HasRow(d)'
             PROVE  ~Fresh(d)
  BY DEF RowsDeletedExpired
<1> USE DEF HasRow, NoRow, IInv
<1>1. CASE DeleteExpiredMetadata
  <2>1. Head(batch) = d /\ StillExpired(d)
    BY <1>1 DEF DeleteExpiredMetadata, dbVars, TypeOK
  <2>2. updatedAt[d] < cutoff /\ cutoff <= ExpiryCutoff
    BY <1>1, <2>1 DEF DeleteExpiredMetadata, StillExpired, ExpiredAt, CleanupInv
  <2>3. updatedAt[d] \in Int /\ cutoff \in Int /\ ExpiryCutoff \in Int
    BY SettingsAssumption DEF TypeOK, ExpiryCutoff
  <2> QED BY <2>2, <2>3 DEF Fresh
<1>2. ASSUME NEW r \in Stores, UpsertMetadata(r)
      PROVE  FALSE
  <2>1. now # NoRow
    BY DEF TypeOK
  <2> QED BY <1>2, <2>1 DEF UpsertMetadata, TypeOK
<1>3. CASE UNCHANGED updatedAt
  BY <1>3
<1> QED
  BY <1>1, <1>2, <1>3
  DEF Next, StoreStep, CleanStep, BeginStore, StatObject, PutObject, MinioFails, ListExpired,
      RemoveObject, RemoveFails, Restart, Tick, vars, dbVars

\* The cleanup spares what is readable.
THEOREM FreshFilesAreSpared == Spec => CleanupSparesFresh
BY Invariance, DeletedRowsAreExpired, PTL DEF Spec, CleanupSparesFresh

\* A step that leaves metadata without its object removes that object.
LEMMA DanglesByCleanup == IInv /\ [Next]_vars => DanglingByCleanup
<1> SUFFICES ASSUME IInv, [Next]_vars, NEW d \in Digests, ~Dangling(d), Dangling(d)'
             PROVE  cleanPc = "remove" /\ Head(batch) = d
  BY DEF DanglingByCleanup
<1> USE DEF HasRow, NoRow, IInv, Dangling
<1>1. CASE RemoveObject
  BY <1>1 DEF RemoveObject, dbVars, storeVars
<1>2. ASSUME NEW r \in Stores, StoreStep(r)
      PROVE  FALSE
  <2>1. CASE BeginStore(r)
    BY <2>1 DEF BeginStore, dbVars, TypeOK
  <2>2. CASE StatObject(r)
    BY <2>2 DEF StatObject, StoreAt, dbVars, TypeOK
  <2>3. CASE PutObject(r)
    BY <2>3 DEF PutObject, StoreAt, dbVars, TypeOK
  <2>4. CASE MinioFails(r)
    BY <2>4 DEF MinioFails, StoreEnds, dbVars, TypeOK
  <2>5. CASE UpsertMetadata(r)
    BY <2>5 DEF UpsertMetadata, StoreEnds, TypeOK
  <2> QED BY <1>2, <2>1, <2>2, <2>3, <2>4, <2>5 DEF StoreStep
<1>3. ASSUME UNCHANGED << objects, storeVars >>, \A e \in Digests : HasRow(e)' => HasRow(e)
      PROVE  FALSE
  BY <1>3 DEF storeVars
<1>4. CASE DeleteExpiredMetadata
  <2>1. \A e \in Digests : HasRow(e)' => HasRow(e)
    BY <1>4 DEF DeleteExpiredMetadata, dbVars, TypeOK
  <2> QED BY <1>3, <1>4, <2>1 DEF DeleteExpiredMetadata
<1>5. CASE Restart
  BY <1>5 DEF Restart, dbVars
<1>6. CASE ListExpired \/ RemoveFails \/ Tick \/ UNCHANGED vars
  BY <1>3, <1>6 DEF ListExpired, RemoveFails, Tick, vars, dbVars
<1> QED BY <1>1, <1>2, <1>4, <1>5, <1>6 DEF Next, CleanStep

\* Metadata is left without its object by the cleanup only.
THEOREM OnlyTheCleanupDangles == Spec => OnlyCleanupDangles
BY Invariance, DanglesByCleanup, PTL DEF Spec, OnlyCleanupDangles

=============================================================================
