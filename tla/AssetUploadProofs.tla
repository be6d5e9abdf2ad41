-------------------------- MODULE AssetUploadProofs --------------------------
(* Proofs about AssetUpload, for any set of assets and any split of it.     *)
EXTENDS AssetUpload, TLAPS

USE DEF Live, Lifecycle!Live

\* Where a request is (Consistent) decides what its row and its bytes can be,
\* which is what the two other conjuncts need to be inductive.
Inv == TypeOK /\ Consistent /\ AnswerMatchesRow /\ CompletedHasBytes

LEMMA TypeStep == ASSUME TypeOK, [Next]_vars PROVE TypeOK'
<1>0. USE DEF TypeOK, Stage, Updating, Phase, Lifecycle!RowState, Lifecycle!Bytes,
              Lifecycle!Outcome, GoTo, Finish, Raise
<1>1. CASE UNCHANGED vars
  BY <1>1 DEF vars
<1>2. ASSUME NEW a \in Asset, Work(a) PROVE TypeOK'
  <2>1. CASE Refuse(a) \/ Create(a) \/ RefreshCreated(a)
    BY <2>1 DEF Refuse, Create, RefreshCreated
  <2>2. CASE Select(a) \/ FlushFails(a) \/ Refresh(a)
    BY <2>2 DEF Select, FlushFails, Refresh, Return, CommandRaises, After
  <2>3. CASE Flush(a)
    BY <2>3 DEF Flush, Written
  <2>4. CASE Save(a) \/ SaveEnds(a) \/ StorageFails(a) \/ GetUrl(a)
    BY <2>4 DEF Save, SaveEnds, StorageFails, GetUrl
  <2>5. CASE Process(a) \/ Sign(a) \/ Fetch(a) \/ Handle(a)
    BY <2>5 DEF Process, Sign, Fetch, Handle
  <2>6. QED
    BY <1>2, <2>1, <2>2, <2>3, <2>4, <2>5 DEF Work
<1>3. ASSUME NEW a \in Asset, Delete(a) \/ Crash(a) PROVE TypeOK'
  BY <1>3 DEF Delete, Crash
<1>4. QED
  BY <1>1, <1>2, <1>3 DEF Next

LEMMA InvInit == Init => Inv
BY DEF Init, Inv, TypeOK, Consistent, AnswerMatchesRow, CompletedHasBytes, RowAt, BytesAt,
       Stage, Updating, Phase, Lifecycle!RowState, Lifecycle!Bytes, Lifecycle!Outcome

LEMMA InvStep == ASSUME Inv, [Next]_vars PROVE Inv'
<1>0. TypeOK /\ TypeOK'
  BY TypeStep DEF Inv
<1>. USE <1>0 DEF TypeOK, Stage, Updating, Phase, Lifecycle!RowState, Lifecycle!Bytes,
                  Lifecycle!Outcome, GoTo, Finish, Raise, Inv, Consistent,
                  AnswerMatchesRow, CompletedHasBytes, RowAt, BytesAt
<1>1. CASE UNCHANGED vars
  BY <1>1 DEF vars
<1>2. ASSUME NEW a \in Asset, Work(a) PROVE Inv'
  <2>1. CASE Refuse(a)
    BY <2>1 DEF Refuse
  <2>2. CASE Create(a)
    BY <2>2 DEF Create
  <2>3. CASE RefreshCreated(a)
    BY <2>3 DEF RefreshCreated
  <2>4. CASE Select(a)
    BY <2>4 DEF Select, Return, CommandRaises, After
  <2>5. CASE FlushFails(a)
    BY <2>5 DEF FlushFails, CommandRaises
  <2>6. CASE Refresh(a)
    BY <2>6 DEF Refresh, Return, CommandRaises, After
  <2>7. CASE Flush(a)
    BY <2>7 DEF Flush, Written
  <2>8. CASE Save(a)
    BY <2>8 DEF Save
  <2>9. CASE SaveEnds(a) \/ StorageFails(a) \/ GetUrl(a)
    BY <2>9 DEF SaveEnds, StorageFails, GetUrl
  <2>10. CASE Process(a) \/ Sign(a) \/ Fetch(a) \/ Handle(a)
    BY <2>10 DEF Process, Sign, Fetch, Handle
  <2>11. QED
    BY <1>2, <2>1, <2>2, <2>3, <2>4, <2>5, <2>6, <2>7, <2>8, <2>9, <2>10 DEF Work
<1>3. ASSUME NEW a \in Asset, Delete(a) PROVE Inv'
  BY <1>3 DEF Delete
<1>4. ASSUME NEW a \in Asset, Crash(a) PROVE Inv'
  BY <1>4 DEF Crash
<1>5. QED
  BY <1>1, <1>2, <1>3, <1>4 DEF Next

\* Every reachable state is well typed and has the bytes and the answer the
\* row speaks of, for every set of assets and mix of backends.
THEOREM Safety == Spec => [](TypeOK /\ Consistent /\ AnswerMatchesRow /\ CompletedHasBytes)
<1>1. Init => Inv
  BY InvInit
<1>2. Inv /\ [Next]_vars => Inv'
  BY InvStep
<1>3. Inv => TypeOK /\ Consistent /\ AnswerMatchesRow /\ CompletedHasBytes
  BY DEF Inv
<1>4. QED
  BY <1>1, <1>2, <1>3, PTL DEF Spec

\* Every variable of an upload keeps its type.
THEOREM Typed == Spec => []TypeOK
BY Safety, PTL

\* At every statement of upload_asset, between any two calls to the database, the row and
\* the bytes are what that statement expects, or the row was deleted.
THEOREM WhereRequestsAre == Spec => []Consistent
BY Safety, PTL

\* No failure, delete or crash leaves a COMPLETED row without all its bytes.
THEOREM Complete == Spec => []CompletedHasBytes
BY Safety, PTL

-----------------------------------------------------------------------------
(* The request implements the promised lifecycle.                            *)

\* Each step is a step of the lifecycle or leaves its variables alone.
LEMMA LifecycleStep == ASSUME Inv, [Next]_vars
                       PROVE  [Lifecycle!Next]_(Lifecycle!vars)
<1>. USE DEF Inv, TypeOK, Consistent, Stage, Updating, Phase, RowAt, BytesAt, Lifecycle!vars,
             Lifecycle!RowState, Lifecycle!Bytes, Lifecycle!Outcome, GoTo, Finish, Raise
<1>1. CASE UNCHANGED vars
  BY <1>1 DEF vars
<1>2. ASSUME NEW a \in Asset, Work(a)
      PROVE  \/ Lifecycle!Advance(a) \/ Lifecycle!Store(a) \/ Lifecycle!Answer(a)
             \/ UNCHANGED Lifecycle!vars
  <2>1. ASSUME Refuse(a) \/ RefreshCreated(a) \/ Fetch(a) \/ Handle(a)
        PROVE  Lifecycle!Answer(a) \/ UNCHANGED Lifecycle!vars
    BY <2>1 DEF Refuse, RefreshCreated, Fetch, Handle, Lifecycle!Answer, Lifecycle!Justified
  <2>2. ASSUME Create(a) \/ Flush(a)
        PROVE  Lifecycle!Advance(a) \/ UNCHANGED Lifecycle!vars
    BY <2>2 DEF Create, Flush, Written, Lifecycle!Advance, Lifecycle!Set
  <2>3. ASSUME Select(a) \/ FlushFails(a) \/ Refresh(a)
        PROVE  Lifecycle!Answer(a) \/ UNCHANGED Lifecycle!vars
    BY <2>3 DEF Select, FlushFails, Refresh, Return, CommandRaises, After,
                Lifecycle!Answer, Lifecycle!Justified
  <2>4. ASSUME Save(a) \/ SaveEnds(a)
        PROVE  Lifecycle!Store(a)
    BY <2>4 DEF Save, SaveEnds, Lifecycle!Store
  <2>5. ASSUME StorageFails(a) \/ GetUrl(a) \/ Process(a) \/ Sign(a)
        PROVE  UNCHANGED Lifecycle!vars
    BY <2>5 DEF StorageFails, GetUrl, Process, Sign
  <2>6. QED
    BY <1>2, <2>1, <2>2, <2>3, <2>4, <2>5 DEF Work
<1>3. ASSUME NEW a \in Asset, Delete(a) PROVE Lifecycle!Delete(a)
  BY <1>3 DEF Delete, Lifecycle!Delete, Lifecycle!Set
<1>4. ASSUME NEW a \in Asset, Crash(a) PROVE Lifecycle!Answer(a)
  BY <1>4 DEF Crash, Lifecycle!Answer, Lifecycle!Justified
<1>5. QED
  BY <1>1, <1>2, <1>3, <1>4 DEF Next, Lifecycle!Next

\* The upload request, with its failures, deletes and crashes, is an
\* implementation of AssetLifecycle.
THEOREM Refinement == Spec => ImplementsLifecycle
<1>1. Init => Lifecycle!Init
  BY DEF Init, Lifecycle!Init
<1>2. Inv /\ [Next]_vars => [Lifecycle!Next]_(Lifecycle!vars)
  BY LifecycleStep
<1>3. Spec => []Inv
  BY InvInit, InvStep, PTL DEF Spec
<1>4. QED
  BY <1>1, <1>2, <1>3, PTL DEF Spec, ImplementsLifecycle, Lifecycle!Spec

=============================================================================
