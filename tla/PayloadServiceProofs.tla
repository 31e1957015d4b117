------------------------ MODULE PayloadServiceProofs ------------------------
(***************************************************************************)
(* Proofs about PayloadService, for every set of runtimes, threads, names  *)
(* and contents.                                                           *)
(***************************************************************************)
EXTENDS PayloadService, TLAPS

-----------------------------------------------------------------------------
(* Type correctness, with what a writer's locals hold at each place.       *)

LocalsOK ==
    \A t \in Threads :
        /\ pc[t] # "idle" => content[t] \in Large /\ ref[t] \in Refs
        /\ pc[t] \in Working \ {"check"} => tempName[t] \in TempNames

TypeInv == TypeOK /\ LocalsOK

\* A step of a writer inside or outside WritePayload keeps the types.
LEMMA WriterStepTypes ==
    ASSUME TypeInv, NEW t \in Threads,
           WriteInline(t) \/ WriteWithoutStore(t) \/ Offload(t) \/ Proceed(t)
    PROVE  TypeInv'
<1>0. RuntimeOf[t] \in Runtimes /\ TypeOK /\ LocalsOK
  BY WritersAssumption DEF TypeInv
<1> USE DEF TypeInv, TypeOK, LocalsOK, Working
<1>1. CASE WriteInline(t)
  BY <1>0, <1>1, SMT DEF WriteInline, Return, disk, sweeper, history
<1>2. CASE WriteWithoutStore(t)
  BY <1>0, <1>2, SMT DEF WriteWithoutStore, Return, disk, sweeper, history
<1>3. CASE Offload(t)
  <2>1. PICK c \in Large, f \in Refs : WritePayload(t, c, f)
    BY <1>3 DEF Offload
  <2>2. QED
    BY <1>0, <2>1, SMT DEF WritePayload, ScheduleTempFileCleanup, Draw, disk
<1>4. ASSUME NEW n \in TempNames, CheckNames(t, n)
      PROVE  TypeInv'
  BY <1>0, <1>4, SMT DEF CheckNames, Goto, Draw, disk, sweeper
<1>5. CASE OpenTemp(t)
  BY <1>0, <1>5, SMT DEF OpenTemp, Goto, TempFile, sweeper, history
<1>6. CASE WriteTemp(t)
  BY <1>0, <1>6, SMT DEF WriteTemp, Goto, TempFile, sweeper, history
<1>7. CASE Rename(t)
  BY <1>0, <1>7, SMT DEF Rename, Goto, TempFile, sweeper, history
<1>8. CASE FileStepFails(t)
  BY <1>0, <1>8, SMT DEF FileStepFails, Return, sweeper, history
<1>9. CASE SavePayload(t)
  BY <1>0, <1>9, SMT DEF SavePayload, Return, sweeper
<1>10. CASE SavePayloadFails(t)
  BY <1>0, <1>10, SMT DEF SavePayloadFails, Goto, disk, sweeper, history
<1>11. CASE RemoveFile(t)
  BY <1>0, <1>11, SMT DEF RemoveFile, Return, sweeper, history
<1>12. CASE RemoveFileFails(t)
  BY <1>0, <1>12, SMT DEF RemoveFileFails, Return, disk, sweeper
<1>13. QED
  BY <1>1, <1>2, <1>3, <1>4, <1>5, <1>6, <1>7, <1>8, <1>9, <1>10, <1>11, <1>12 DEF Proceed

\* Sweepers and crashes keep the types.
LEMMA SweepStepTypes ==
    ASSUME TypeInv, NEW r \in Runtimes,
           \/ \E names \in SUBSET TempNames : SweepList(r, names)
           \/ \E n \in TempNames :
                 SweepCheck(r, n) \/ SweepRemove(r, n) \/ SweepRemoveFails(r, n)
           \/ Crash(r)
    PROVE  TypeInv'
<1>0. TypeOK /\ LocalsOK
  BY DEF TypeInv
<1>1. ASSUME NEW names \in SUBSET TempNames, SweepList(r, names)
      PROVE  TypeInv'
  BY <1>0, <1>1, SMT DEF SweepList, disk, writer, history, TypeInv, TypeOK, LocalsOK
<1>2. ASSUME NEW n \in TempNames, SweepCheck(r, n)
      PROVE  TypeInv'
  BY <1>0, <1>2, SMT DEF SweepCheck, disk, writer, history, TypeInv, TypeOK, LocalsOK
<1>3. ASSUME NEW n \in TempNames, SweepRemove(r, n)
      PROVE  TypeInv'
  BY <1>0, <1>3, SMT DEF SweepRemove, writer, history, TypeInv, TypeOK, LocalsOK
<1>4. ASSUME NEW n \in TempNames, SweepRemoveFails(r, n)
      PROVE  TypeInv'
  BY <1>0, <1>4, SMT DEF SweepRemoveFails, disk, writer, history, TypeInv, TypeOK, LocalsOK
<1>5. CASE Crash(r)
  <2>1. abandoned' \subseteq Refs
    <3>1. \A u \in Threads : pc[u] \in {"save", "undo"} => ref[u] \in Refs
      BY <1>0 DEF LocalsOK
    <3>2. abandoned \subseteq Refs
      BY <1>0 DEF TypeOK
    <3>3. QED
      BY <1>5, <3>1, <3>2 DEF Crash
  <2>2. LocalsOK'
    BY <1>0, <1>5 DEF Crash, TypeOK, LocalsOK, Working
  <2>3. QED
    BY <1>0, <1>5, <2>1, <2>2, SMT DEF Crash, disk, TypeInv, TypeOK
<1>6. QED
  BY <1>1, <1>2, <1>3, <1>4, <1>5

\* Every action keeps the types.
LEMMA TypeInvInductive ==
    ASSUME TypeInv, [Next]_vars
    PROVE  TypeInv'
<1>1. CASE UNCHANGED vars
  BY <1>1, SMT DEF vars, disk, writer, sweeper, history, TypeInv, TypeOK, LocalsOK
<1>2. ASSUME NEW t \in Threads, WriteInline(t) \/ WriteWithoutStore(t) \/ Offload(t) \/ Proceed(t)
      PROVE  TypeInv'
  BY <1>2, WriterStepTypes
<1>3. ASSUME NEW r \in Runtimes, NEW names \in SUBSET TempNames, SweepList(r, names)
      PROVE  TypeInv'
  BY <1>3, SweepStepTypes
<1>4. ASSUME NEW r \in Runtimes, NEW n \in TempNames,
             SweepCheck(r, n) \/ SweepRemove(r, n) \/ SweepRemoveFails(r, n)
      PROVE  TypeInv'
  BY <1>4, SweepStepTypes
<1>5. ASSUME NEW n \in TempNames, Age(n)
      PROVE  TypeInv'
  BY <1>5, SMT DEF Age, TempFile, writer, sweeper, history, TypeInv, TypeOK, LocalsOK
<1>6. ASSUME NEW r \in Runtimes, Crash(r)
      PROVE  TypeInv'
  BY <1>6, SweepStepTypes
<1>7. QED
  BY <1>1, <1>2, <1>3, <1>4, <1>5, <1>6 DEF Next

\* The types hold when the first runtime starts.
LEMMA TypeInvInitially == Init => TypeInv
BY SMT DEF Init, TypeInv, TypeOK, LocalsOK, Working

\* Every behaviour of the payload service keeps files, rows, locks and locals
\* within their types.
THEOREM PayloadTypeCorrect == Spec => []TypeOK
<1>1. Init => TypeInv
  BY TypeInvInitially
<1>2. TypeInv /\ [Next]_vars => TypeInv'
  BY TypeInvInductive
<1>3. TypeInv => TypeOK
  BY DEF TypeInv
<1>4. QED
  BY <1>1, <1>2, <1>3, PTL DEF Spec

-----------------------------------------------------------------------------
(* Orphans: an invariant by itself, whatever names come up.                *)

\* Every payload file without a row is in a writer's hands, was named by an
\* error, or was left by a process that died: NoSilentOrphan for all sizes.
THEOREM NoOrphanIsSilent == Spec => []NoSilentOrphan
<1>1. Init => NoSilentOrphan
  BY DEF Init, NoSilentOrphan
<1>2. ASSUME TypeInv, TypeInv', NoSilentOrphan, [Next]_vars
      PROVE  NoSilentOrphan'
  <2> SUFFICES ASSUME NEW f \in Refs, files'[f] # NoFile, rows'[f] = NoFile
               PROVE  \/ \E t \in Threads : ref'[t] = f /\ pc'[t] \in {"save", "undo"}
                      \/ f \in abandoned'
    BY DEF NoSilentOrphan
  <2>0. /\ files \in [Refs -> Large \cup {Partial, NoFile}]
        /\ rows \in [Refs -> Large \cup {NoFile}]
        /\ pc \in [Threads -> Working \cup {"idle"}]
        /\ ref \in [Threads -> Refs \cup {NoName}]
        /\ RuntimeOf \in [Threads -> Runtimes]
        /\ LocalsOK
    BY <1>2, WritersAssumption DEF TypeInv, TypeOK
  \* In a step that leaves files and rows alone, a writer that held f must
  \* still hold it or f must be in abandoned'.
  <2>1. ASSUME files'[f] = files[f], rows'[f] = rows[f], abandoned \subseteq abandoned',
               \A u \in Threads : ref[u] = f /\ pc[u] \in {"save", "undo"} =>
                   \/ ref'[u] = f /\ pc'[u] \in {"save", "undo"}
                   \/ f \in abandoned'
        PROVE  \/ \E t \in Threads : ref'[t] = f /\ pc'[t] \in {"save", "undo"}
               \/ f \in abandoned'
    BY <1>2, <2>1 DEF NoSilentOrphan
  <2>2. CASE UNCHANGED vars
    BY <2>1, <2>2 DEF vars, disk, writer, sweeper, history
  <2>3. ASSUME NEW t \in Threads, WriteInline(t) \/ WriteWithoutStore(t)
        PROVE  \/ \E u \in Threads : ref'[u] = f /\ pc'[u] \in {"save", "undo"}
               \/ f \in abandoned'
    BY <2>0, <2>1, <2>3 DEF WriteInline, WriteWithoutStore, Return, disk, history
  <2>4. ASSUME NEW t \in Threads, NEW c \in Large, NEW g \in Refs, WritePayload(t, c, g)
        PROVE  \/ \E u \in Threads : ref'[u] = f /\ pc'[u] \in {"save", "undo"}
               \/ f \in abandoned'
    BY <2>0, <2>1, <2>4 DEF WritePayload, disk
  <2>5. ASSUME NEW t \in Threads, NEW n \in TempNames, CheckNames(t, n)
        PROVE  \/ \E u \in Threads : ref'[u] = f /\ pc'[u] \in {"save", "undo"}
               \/ f \in abandoned'
    BY <2>0, <2>1, <2>5 DEF CheckNames, Goto, disk
  <2>6. ASSUME NEW t \in Threads, OpenTemp(t) \/ WriteTemp(t)
        PROVE  \/ \E u \in Threads : ref'[u] = f /\ pc'[u] \in {"save", "undo"}
               \/ f \in abandoned'
    BY <2>0, <2>1, <2>6 DEF OpenTemp, WriteTemp, Goto, history
  <2>7. ASSUME NEW t \in Threads, Rename(t)
        PROVE  \/ \E u \in Threads : ref'[u] = f /\ pc'[u] \in {"save", "undo"}
               \/ f \in abandoned'
    <3>1. ref' = ref /\ pc' = [pc EXCEPT ![t] = "save"] /\ rows' = rows /\ abandoned' = abandoned
      BY <2>7 DEF Rename, Goto, history
    <3>2. CASE ref[t] = f
      BY <2>0, <3>1, <3>2
    <3>3. CASE ref[t] # f
      <4>1. files'[f] = files[f]
        BY <2>0, <2>7, <3>3 DEF Rename
      <4>2. QED
        BY <2>0, <2>1, <3>1, <4>1
    <3>4. QED
      BY <3>2, <3>3
  <2>8. ASSUME NEW t \in Threads, FileStepFails(t)
        PROVE  \/ \E u \in Threads : ref'[u] = f /\ pc'[u] \in {"save", "undo"}
               \/ f \in abandoned'
    BY <2>0, <2>1, <2>8 DEF FileStepFails, Return, history
  <2>9. ASSUME NEW t \in Threads, SavePayload(t)
        PROVE  \/ \E u \in Threads : ref'[u] = f /\ pc'[u] \in {"save", "undo"}
               \/ f \in abandoned'
    <3>1. content[t] \in Large /\ NoFile \notin Large
      BY <2>0, <2>9, ContentsAssumption DEF LocalsOK, SavePayload
    <3>2. ref[t] # f
      BY <2>0, <2>9, <3>1 DEF SavePayload
    <3>3. QED
      BY <2>0, <2>1, <2>9, <3>2 DEF SavePayload, Return
  <2>10. ASSUME NEW t \in Threads, SavePayloadFails(t)
        PROVE  \/ \E u \in Threads : ref'[u] = f /\ pc'[u] \in {"save", "undo"}
               \/ f \in abandoned'
    BY <2>0, <2>1, <2>10 DEF SavePayloadFails, Goto, disk, history
  <2>11. ASSUME NEW t \in Threads, RemoveFile(t)
        PROVE  \/ \E u \in Threads : ref'[u] = f /\ pc'[u] \in {"save", "undo"}
               \/ f \in abandoned'
    <3>1. ref[t] # f
      BY <2>0, <2>11 DEF RemoveFile
    <3>2. QED
      BY <2>0, <2>1, <2>11, <3>1 DEF RemoveFile, Return, history
  <2>12. ASSUME NEW t \in Threads, RemoveFileFails(t)
        PROVE  \/ \E u \in Threads : ref'[u] = f /\ pc'[u] \in {"save", "undo"}
               \/ f \in abandoned'
    BY <2>0, <2>1, <2>12 DEF RemoveFileFails, Return, disk
  <2>13. ASSUME NEW r \in Runtimes,
                \/ \E names \in SUBSET TempNames : SweepList(r, names)
                \/ \E n \in TempNames :
                      SweepCheck(r, n) \/ SweepRemove(r, n) \/ SweepRemoveFails(r, n)
        PROVE  \/ \E u \in Threads : ref'[u] = f /\ pc'[u] \in {"save", "undo"}
               \/ f \in abandoned'
    BY <2>1, <2>13 DEF SweepList, SweepCheck, SweepRemove, SweepRemoveFails, disk, writer, history
  <2>14. ASSUME NEW n \in TempNames, Age(n)
        PROVE  \/ \E u \in Threads : ref'[u] = f /\ pc'[u] \in {"save", "undo"}
               \/ f \in abandoned'
    BY <2>1, <2>14 DEF Age, writer, history
  <2>15. ASSUME NEW r \in Runtimes, Crash(r)
        PROVE  \/ \E u \in Threads : ref'[u] = f /\ pc'[u] \in {"save", "undo"}
               \/ f \in abandoned'
    BY <2>0, <2>1, <2>15 DEF Crash, disk
  <2>16. QED
    BY <1>2, <2>2, <2>3, <2>4, <2>5, <2>6, <2>7, <2>8, <2>9, <2>10, <2>11, <2>12, <2>13, <2>14, <2>15
    DEF Next, Offload, Proceed
<1>3. Init => TypeInv
  BY TypeInvInitially
<1>4. TypeInv /\ [Next]_vars => TypeInv'
  BY TypeInvInductive
<1>5. QED
  BY <1>1, <1>2, <1>3, <1>4, PTL DEF Spec

-----------------------------------------------------------------------------
(* Offloaded payloads stay readable.  The inductive invariant says what    *)
(* each writer may count on between its steps: nobody else holds its names *)
(* (by the mutex, or because names are distinct), its ref has no row, and  *)
(* file and temporary file are as its last step left them.                 *)

Past == {"open", "write", "rename", "save", "undo"}

MutexHeld == \A t \in Threads : pc[t] # "idle" => mutex[RuntimeOf[t]] = t

NamesDrawn ==
    ~MayCollide => \A t \in Threads : pc[t] # "idle" =>
        ref[t] \in drawn /\ (pc[t] # "check" => tempName[t] \in drawn)

OwnNames ==
    \A t, u \in Threads : t # u /\ pc[t] # "idle" /\ pc[u] # "idle" =>
        /\ ref[t] # ref[u]
        /\ pc[t] \in Past /\ pc[u] \in Past => tempName[t] # tempName[u]

OwnFiles ==
    \A t \in Threads :
        /\ pc[t] \in Past => rows[ref[t]] = NoFile
        /\ pc[t] \in {"open", "write", "rename"} => files[ref[t]] = NoFile
        /\ pc[t] \in {"save", "undo"} => files[ref[t]] = content[t]
        /\ pc[t] = "rename" /\ temps[tempName[t]] # NoFile =>
              temps[tempName[t]].content = content[t]

AckedHasRow == \A p \in acked : rows[p[1]] = p[2]

RowHasFile == \A f \in Refs : rows[f] # NoFile => files[f] = rows[f]

FilesComplete == \A f \in Refs : files[f] # Partial

OffloadInv ==
    /\ MutexHeld /\ NamesDrawn /\ OwnNames
    /\ OwnFiles /\ AckedHasRow /\ RowHasFile /\ FilesComplete

\* Locks and names: a writer alone holds its names.
LEMMA NamesInductive ==
    ASSUME NamesSafe, TypeInv, TypeInv', MutexHeld, NamesDrawn, OwnNames, [Next]_vars
    PROVE  MutexHeld' /\ NamesDrawn' /\ OwnNames'
<1>0. /\ mutex \in [Runtimes -> Threads \cup {NoThread}]
      /\ pc \in [Threads -> Working \cup {"idle"}]
      /\ ref \in [Threads -> Refs \cup {NoName}]
      /\ tempName \in [Threads -> TempNames \cup {NoName}]
      /\ RuntimeOf \in [Threads -> Runtimes]
      /\ NoThread \notin Threads
  BY WritersAssumption DEF TypeInv, TypeOK
\* Steps that draw no name: writers keep theirs or are done.
<1>1. ASSUME \A u \in Threads : pc'[u] # "idle" =>
                 /\ pc[u] # "idle"
                 /\ pc[u] = "check" <=> pc'[u] = "check"
                 /\ ref'[u] = ref[u] /\ tempName'[u] = tempName[u]
                 /\ mutex'[RuntimeOf[u]] = mutex[RuntimeOf[u]],
             drawn' = drawn
      PROVE  MutexHeld' /\ NamesDrawn' /\ OwnNames'
  <2>1. \A u \in Threads : pc[u] \in Past <=> pc[u] # "idle" /\ pc[u] # "check"
    BY <1>0 DEF Past, Working
  <2>2. \A u \in Threads : pc'[u] \in Past <=> pc'[u] # "idle" /\ pc'[u] # "check"
    BY DEF TypeInv, TypeOK, Past, Working
  <2>3. MutexHeld'
    BY <1>1 DEF MutexHeld
  <2>4. NamesDrawn'
    BY <1>1 DEF NamesDrawn
  <2>5. OwnNames'
    BY <1>1, <2>1, <2>2 DEF OwnNames
  <2>6. QED
    BY <2>3, <2>4, <2>5
<1>2. CASE UNCHANGED vars
  BY <1>1, <1>2 DEF vars, writer, history
<1>3. ASSUME NEW t \in Threads, NEW o \in {"inline", "error", "offloaded"}, Return(t, o),
             drawn' = drawn, pc[t] # "idle" \/ mutex[RuntimeOf[t]] = NoThread
      PROVE  MutexHeld' /\ NamesDrawn' /\ OwnNames'
  <2>1. \A u \in Threads : u # t /\ pc[u] # "idle" => RuntimeOf[u] # RuntimeOf[t]
    BY <1>0, <1>3 DEF MutexHeld
  <2>2. QED
    BY <1>0, <1>1, <1>3, <2>1 DEF Return
<1>4. ASSUME NEW t \in Threads, NEW c \in Large, NEW f \in Refs, WritePayload(t, c, f)
      PROVE  MutexHeld' /\ NamesDrawn' /\ OwnNames'
  <2>1. /\ pc[t] = "idle" /\ mutex[RuntimeOf[t]] = NoThread
        /\ pc' = [pc EXCEPT ![t] = "check"] /\ ref' = [ref EXCEPT ![t] = f]
        /\ tempName' = tempName /\ mutex' = [mutex EXCEPT ![RuntimeOf[t]] = t]
    BY <1>4 DEF WritePayload
  <2>2. MutexHeld'
    BY <1>0, <2>1 DEF MutexHeld
  <2>3. NamesDrawn'
    BY <1>0, <1>4, <2>1 DEF NamesDrawn, WritePayload, Draw
  <2>4. \A u \in Threads : u # t /\ pc[u] # "idle" => ref[u] # f
    <3>1. CASE SoleRuntime
      BY <1>0, <2>1, <3>1 DEF SoleRuntime, MutexHeld
    <3>2. CASE ~MayCollide
      BY <1>4, <3>2 DEF WritePayload, Drawable, NamesDrawn
    <3>3. QED
      BY <3>1, <3>2 DEF NamesSafe
  <2>5. OwnNames'
    BY <1>0, <2>1, <2>4 DEF OwnNames, Past
  <2>6. QED
    BY <2>2, <2>3, <2>5
<1>5. ASSUME NEW t \in Threads, NEW n \in TempNames, CheckNames(t, n)
      PROVE  MutexHeld' /\ NamesDrawn' /\ OwnNames'
  <2>1. /\ pc[t] = "check"
        /\ pc' = [pc EXCEPT ![t] = "open"] /\ ref' = ref /\ mutex' = mutex
        /\ tempName' = [tempName EXCEPT ![t] = n]
    BY <1>5 DEF CheckNames, Goto
  <2>2. MutexHeld'
    BY <1>0, <2>1 DEF MutexHeld
  <2>3. NamesDrawn'
    BY <1>0, <1>5, <2>1 DEF NamesDrawn, CheckNames, Draw
  <2>4. \A u \in Threads : u # t /\ pc[u] \in Past => tempName[u] # n
    <3>1. CASE SoleRuntime
      BY <1>0, <2>1, <3>1 DEF SoleRuntime, MutexHeld, Past
    <3>2. CASE ~MayCollide
      BY <1>5, <3>2 DEF CheckNames, Drawable, NamesDrawn, Past
    <3>3. QED
      BY <3>1, <3>2 DEF NamesSafe
  <2>5. OwnNames'
    BY <1>0, <2>1, <2>4 DEF OwnNames, Past
  <2>6. QED
    BY <2>2, <2>3, <2>5
<1>6. ASSUME NEW t \in Threads, NEW p \in Past, Goto(t, p), tempName' = tempName,
             drawn' = drawn, pc[t] \in Past
      PROVE  MutexHeld' /\ NamesDrawn' /\ OwnNames'
  BY <1>0, <1>1, <1>6 DEF Goto, Past
<1>7. ASSUME NEW t \in Threads, Proceed(t)
      PROVE  MutexHeld' /\ NamesDrawn' /\ OwnNames'
  <2>1. CASE OpenTemp(t) \/ WriteTemp(t) \/ Rename(t) \/ SavePayloadFails(t)
    BY <1>6, <2>1 DEF OpenTemp, WriteTemp, Rename, SavePayloadFails, history, Past
  <2>2. CASE FileStepFails(t) \/ SavePayload(t) \/ RemoveFile(t) \/ RemoveFileFails(t)
    BY <1>3, <2>2 DEF FileStepFails, SavePayload, RemoveFile, RemoveFileFails, history
  <2>3. QED
    BY <1>5, <1>7, <2>1, <2>2 DEF Proceed
<1>8. ASSUME NEW t \in Threads, WriteInline(t) \/ WriteWithoutStore(t) \/ Offload(t)
      PROVE  MutexHeld' /\ NamesDrawn' /\ OwnNames'
  BY <1>3, <1>4, <1>8 DEF WriteInline, WriteWithoutStore, Offload, history
<1>9. ASSUME NEW r \in Runtimes,
             \/ \E names \in SUBSET TempNames : SweepList(r, names)
             \/ \E n \in TempNames :
                   SweepCheck(r, n) \/ SweepRemove(r, n) \/ SweepRemoveFails(r, n)
      PROVE  MutexHeld' /\ NamesDrawn' /\ OwnNames'
  BY <1>1, <1>9 DEF SweepList, SweepCheck, SweepRemove, SweepRemoveFails, writer, history
<1>10. ASSUME NEW n \in TempNames, Age(n)
       PROVE  MutexHeld' /\ NamesDrawn' /\ OwnNames'
  BY <1>1, <1>10 DEF Age, writer, history
<1>11. ASSUME NEW r \in Runtimes, Crash(r)
       PROVE  MutexHeld' /\ NamesDrawn' /\ OwnNames'
  BY <1>0, <1>1, <1>11 DEF Crash
<1>12. QED
  BY <1>2, <1>7, <1>8, <1>9, <1>10, <1>11 DEF Next

\* Files and rows: what a writer left is what it finds.
LEMMA FilesInductive ==
    ASSUME TypeInv, TypeInv', OffloadInv, [Next]_vars
    PROVE  OwnFiles' /\ AckedHasRow' /\ RowHasFile' /\ FilesComplete'
<1>0. /\ files \in [Refs -> Large \cup {Partial, NoFile}]
      /\ temps \in [TempNames -> TempFile \cup {NoFile}]
      /\ rows \in [Refs -> Large \cup {NoFile}]
      /\ pc \in [Threads -> Working \cup {"idle"}]
      /\ content \in [Threads -> Large \cup {Small}]
      /\ ref \in [Threads -> Refs \cup {NoName}]
      /\ tempName \in [Threads -> TempNames \cup {NoName}]
      /\ acked \subseteq Refs \X Large
      /\ LocalsOK
      /\ Partial \notin Large /\ NoFile \notin Large /\ Partial # NoFile
  BY ContentsAssumption DEF TypeInv, TypeOK
<1>00. OwnNames /\ OwnFiles /\ AckedHasRow /\ RowHasFile /\ FilesComplete
  BY DEF OffloadInv
\* Steps that leave files and rows alone: each writer stays where it was,
\* stops, or moves on within the same expectations.
<1>1. ASSUME UNCHANGED <<files, rows, acked>>, OwnFiles'
      PROVE  OwnFiles' /\ AckedHasRow' /\ RowHasFile' /\ FilesComplete'
  BY <1>00, <1>1 DEF AckedHasRow, RowHasFile, FilesComplete
\* ... and no temporary file changes its content either.
<1>2. ASSUME UNCHANGED <<files, rows, acked>>,
             \A u \in Threads : pc'[u] \in Past =>
                 /\ pc'[u] = pc[u] \/ (pc[u] = "save" /\ pc'[u] = "undo")
                 /\ ref'[u] = ref[u] /\ tempName'[u] = tempName[u] /\ content'[u] = content[u],
             \A n \in TempNames : temps'[n] # NoFile =>
                 temps[n] # NoFile /\ temps'[n].content = temps[n].content
      PROVE  OwnFiles' /\ AckedHasRow' /\ RowHasFile' /\ FilesComplete'
  <2>1. \A u \in Threads : pc'[u] \in Past => tempName[u] \in TempNames
    BY <1>0, <1>2 DEF LocalsOK, Past, Working
  <2>2. OwnFiles'
    BY <1>00, <1>2, <2>1 DEF OwnFiles, Past
  <2>3. QED
    BY <1>1, <1>2, <2>2
<1>3. CASE UNCHANGED vars
  BY <1>2, <1>3 DEF vars, disk, writer, history
<1>4. ASSUME NEW t \in Threads, WriteInline(t) \/ WriteWithoutStore(t)
      PROVE  OwnFiles' /\ AckedHasRow' /\ RowHasFile' /\ FilesComplete'
  BY <1>0, <1>2, <1>4 DEF WriteInline, WriteWithoutStore, Return, disk, history, Past
<1>5. ASSUME NEW t \in Threads, NEW c \in Large, NEW f \in Refs, WritePayload(t, c, f)
      PROVE  OwnFiles' /\ AckedHasRow' /\ RowHasFile' /\ FilesComplete'
  BY <1>0, <1>2, <1>5 DEF WritePayload, disk, Past
<1>6. ASSUME NEW t \in Threads, NEW n \in TempNames, CheckNames(t, n)
      PROVE  OwnFiles' /\ AckedHasRow' /\ RowHasFile' /\ FilesComplete'
  <2>1. /\ pc[t] = "check" /\ files[ref[t]] = NoFile /\ ref[t] \in Refs
        /\ pc' = [pc EXCEPT ![t] = "open"] /\ tempName' = [tempName EXCEPT ![t] = n]
        /\ UNCHANGED <<files, temps, rows, acked, ref, content>>
    BY <1>0, <1>6 DEF CheckNames, Goto, disk, LocalsOK
  <2>2. rows[ref[t]] = NoFile
    BY <1>0, <1>00, <2>1 DEF RowHasFile
  <2>3. OwnFiles'
    BY <1>0, <1>00, <2>1, <2>2 DEF OwnFiles, Past
  <2>4. QED
    BY <1>1, <2>1, <2>3
<1>7. ASSUME NEW t \in Threads, OpenTemp(t)
      PROVE  OwnFiles' /\ AckedHasRow' /\ RowHasFile' /\ FilesComplete'
  <2>1. /\ pc[t] = "open" /\ tempName[t] \in TempNames
        /\ pc' = [pc EXCEPT ![t] = "write"]
        /\ temps' = [temps EXCEPT ![tempName[t]] = [content |-> Partial, old |-> FALSE]]
        /\ UNCHANGED <<files, rows, acked, ref, content, tempName>>
    BY <1>0, <1>7 DEF OpenTemp, Goto, history, LocalsOK, Working
  <2>2. \A u \in Threads : u # t /\ pc[u] = "rename" => tempName[u] # tempName[t]
    BY <1>00, <2>1 DEF OwnNames, Past
  <2>3. OwnFiles'
    BY <1>0, <1>00, <2>1, <2>2 DEF OwnFiles, Past
  <2>4. QED
    BY <1>1, <2>1, <2>3
<1>8. ASSUME NEW t \in Threads, WriteTemp(t)
      PROVE  OwnFiles' /\ AckedHasRow' /\ RowHasFile' /\ FilesComplete'
  <2>1. /\ pc[t] = "write" /\ tempName[t] \in TempNames
        /\ pc' = [pc EXCEPT ![t] = "rename"]
        /\ temps' = [temps EXCEPT ![tempName[t]] =
                        IF @ = NoFile THEN NoFile ELSE [content |-> content[t], old |-> FALSE]]
        /\ UNCHANGED <<files, rows, acked, ref, content, tempName>>
    BY <1>0, <1>8 DEF WriteTemp, Goto, history, LocalsOK, Working
  <2>2. \A u \in Threads : u # t /\ pc[u] = "rename" => tempName[u] # tempName[t]
    BY <1>00, <2>1 DEF OwnNames, Past
  <2>3. OwnFiles'
    BY <1>0, <1>00, <2>1, <2>2 DEF OwnFiles, Past
  <2>4. QED
    BY <1>1, <2>1, <2>3
<1>9. ASSUME NEW t \in Threads, Rename(t)
      PROVE  OwnFiles' /\ AckedHasRow' /\ RowHasFile' /\ FilesComplete'
  <2>1. /\ pc[t] = "rename" /\ tempName[t] \in TempNames /\ ref[t] \in Refs
        /\ content[t] \in Large
        /\ temps[tempName[t]] # NoFile
        /\ pc' = [pc EXCEPT ![t] = "save"]
        /\ files' = [files EXCEPT ![ref[t]] = temps[tempName[t]].content]
        /\ temps' = [temps EXCEPT ![tempName[t]] = NoFile]
        /\ UNCHANGED <<rows, acked, ref, content, tempName>>
    BY <1>0, <1>9 DEF Rename, Goto, history, LocalsOK, Working
  <2>2. files' = [files EXCEPT ![ref[t]] = content[t]] /\ rows[ref[t]] = NoFile
    BY <1>00, <2>1 DEF OwnFiles, Past
  <2>3. \A u \in Threads : u # t /\ pc[u] \in Past => ref[u] # ref[t]
    BY <1>00, <2>1 DEF OwnNames, Past
  <2>4. OwnFiles'
    BY <1>0, <1>00, <2>1, <2>2, <2>3 DEF OwnFiles, Past
  <2>5. RowHasFile'
    BY <1>0, <1>00, <2>1, <2>2 DEF RowHasFile
  <2>6. FilesComplete'
    BY <1>0, <1>00, <2>1, <2>2 DEF FilesComplete
  <2>7. AckedHasRow'
    BY <1>00, <2>1 DEF AckedHasRow
  <2>8. QED
    BY <2>4, <2>5, <2>6, <2>7
<1>10. ASSUME NEW t \in Threads, FileStepFails(t)
       PROVE  OwnFiles' /\ AckedHasRow' /\ RowHasFile' /\ FilesComplete'
  BY <1>0, <1>2, <1>10 DEF FileStepFails, Return, history, Past
<1>11. ASSUME NEW t \in Threads, SavePayload(t)
       PROVE  OwnFiles' /\ AckedHasRow' /\ RowHasFile' /\ FilesComplete'
  <2>1. /\ pc[t] = "save" /\ ref[t] \in Refs /\ content[t] \in Large
        /\ pc' = [pc EXCEPT ![t] = "idle"]
        /\ rows' = [rows EXCEPT ![ref[t]] = content[t]]
        /\ acked' = acked \cup {<<ref[t], content[t]>>}
        /\ content' = [content EXCEPT ![t] = Small]
        /\ ref' = [ref EXCEPT ![t] = NoName]
        /\ tempName' = [tempName EXCEPT ![t] = NoName]
        /\ UNCHANGED <<files, temps>>
    BY <1>0, <1>11 DEF SavePayload, Return, LocalsOK
  <2>2. files[ref[t]] = content[t] /\ rows[ref[t]] = NoFile
    BY <1>00, <2>1 DEF OwnFiles, Past
  <2>3. \A u \in Threads : u # t /\ pc[u] \in Past => ref[u] # ref[t]
    BY <1>00, <2>1 DEF OwnNames, Past
  <2>4. OwnFiles'
    BY <1>0, <1>00, <2>1, <2>3 DEF OwnFiles, Past
  <2>5. RowHasFile'
    BY <1>0, <1>00, <2>1, <2>2 DEF RowHasFile
  <2>6. FilesComplete'
    BY <1>00, <2>1 DEF FilesComplete
  <2>7. AckedHasRow'
    <3>1. \A p \in acked : p[1] \in Refs /\ rows[p[1]] = p[2] /\ p[2] \in Large
      BY <1>0, <1>00 DEF AckedHasRow
    <3>2. \A p \in acked : p[1] # ref[t]
      BY <1>0, <2>2, <3>1
    <3>3. \A p \in acked : rows'[p[1]] = p[2]
      BY <1>0, <2>1, <3>1, <3>2
    <3>4. QED
      BY <1>0, <2>1, <3>3 DEF AckedHasRow
  <2>8. QED
    BY <2>4, <2>5, <2>6, <2>7
<1>12. ASSUME NEW t \in Threads, SavePayloadFails(t)
       PROVE  OwnFiles' /\ AckedHasRow' /\ RowHasFile' /\ FilesComplete'
  BY <1>0, <1>2, <1>12 DEF SavePayloadFails, Goto, disk, history, Past
<1>13. ASSUME NEW t \in Threads, RemoveFile(t)
       PROVE  OwnFiles' /\ AckedHasRow' /\ RowHasFile' /\ FilesComplete'
  <2>1. /\ pc[t] = "undo" /\ ref[t] \in Refs
        /\ pc' = [pc EXCEPT ![t] = "idle"]
        /\ files' = [files EXCEPT ![ref[t]] = NoFile]
        /\ content' = [content EXCEPT ![t] = Small]
        /\ ref' = [ref EXCEPT ![t] = NoName]
        /\ tempName' = [tempName EXCEPT ![t] = NoName]
        /\ UNCHANGED <<temps, rows, acked>>
    BY <1>0, <1>13 DEF RemoveFile, Return, history, LocalsOK
  <2>2. rows[ref[t]] = NoFile
    BY <1>00, <2>1 DEF OwnFiles, Past
  <2>3. \A u \in Threads : u # t /\ pc[u] \in Past => ref[u] # ref[t]
    BY <1>00, <2>1 DEF OwnNames, Past
  <2>4. OwnFiles'
    BY <1>0, <1>00, <2>1, <2>3 DEF OwnFiles, Past
  <2>5. RowHasFile'
    BY <1>0, <1>00, <2>1, <2>2 DEF RowHasFile
  <2>6. FilesComplete'
    BY <1>0, <1>00, <2>1 DEF FilesComplete
  <2>7. AckedHasRow'
    BY <1>00, <2>1 DEF AckedHasRow
  <2>8. QED
    BY <2>4, <2>5, <2>6, <2>7
<1>14. ASSUME NEW t \in Threads, RemoveFileFails(t)
       PROVE  OwnFiles' /\ AckedHasRow' /\ RowHasFile' /\ FilesComplete'
  BY <1>0, <1>2, <1>14 DEF RemoveFileFails, Return, disk, Past
<1>15. ASSUME NEW r \in Runtimes, NEW names \in SUBSET TempNames, SweepList(r, names)
       PROVE  OwnFiles' /\ AckedHasRow' /\ RowHasFile' /\ FilesComplete'
  BY <1>2, <1>15 DEF SweepList, disk, writer, history
<1>16. ASSUME NEW r \in Runtimes, NEW n \in TempNames,
              SweepCheck(r, n) \/ SweepRemove(r, n) \/ SweepRemoveFails(r, n)
       PROVE  OwnFiles' /\ AckedHasRow' /\ RowHasFile' /\ FilesComplete'
  BY <1>0, <1>2, <1>16 DEF SweepCheck, SweepRemove, SweepRemoveFails, disk, writer, history
<1>17. ASSUME NEW n \in TempNames, Age(n)
       PROVE  OwnFiles' /\ AckedHasRow' /\ RowHasFile' /\ FilesComplete'
  BY <1>0, <1>2, <1>17 DEF Age, writer, history
<1>18. ASSUME NEW r \in Runtimes, Crash(r)
       PROVE  OwnFiles' /\ AckedHasRow' /\ RowHasFile' /\ FilesComplete'
  BY <1>0, <1>2, <1>18 DEF Crash, disk, Past
<1>19. QED
  BY <1>3, <1>4, <1>5, <1>6, <1>7, <1>8, <1>9, <1>10, <1>11, <1>12, <1>13, <1>14, <1>15,
     <1>16, <1>17, <1>18 DEF Next, Offload, Proceed

\* The payload guarantees, with one runtime whatever names come up, and with
\* any number of runtimes when the random names are distinct: rows are
\* readable, acknowledged refs give their content back, no file is torn.
THEOREM OffloadedStaysReadable ==
    Spec => []PayloadsReadable
<1>1. ASSUME ~NamesSafe
      PROVE  PayloadsReadable
  BY <1>1 DEF PayloadsReadable, RowsReadable, AckedReadable, NoPartialFile
<1>2. ASSUME OffloadInv, TypeInv
      PROVE  PayloadsReadable
  <2>1. \A p \in acked : p[1] \in Refs /\ rows[p[1]] = p[2] /\ p[2] # NoFile
    BY <1>2, ContentsAssumption DEF OffloadInv, AckedHasRow, TypeInv, TypeOK
  <2>2. QED
    BY <1>2, <2>1 DEF OffloadInv, RowHasFile, FilesComplete, RowsReadable, AckedReadable,
                      NoPartialFile, PayloadsReadable, ReadPayload
<1>3. Init => OffloadInv
  BY ContentsAssumption
  DEF Init, OffloadInv, MutexHeld, NamesDrawn, OwnNames, OwnFiles, AckedHasRow, RowHasFile,
      FilesComplete, Past
<1>4. NamesSafe /\ TypeInv /\ TypeInv' /\ OffloadInv /\ [Next]_vars => OffloadInv'
  BY NamesInductive, FilesInductive DEF OffloadInv
<1>5. TypeInv /\ [Next]_vars => TypeInv'
  BY TypeInvInductive
<1>6. Init => TypeInv
  BY TypeInvInitially
<1>7. CASE NamesSafe
  <2>1. TypeInv /\ TypeInv' /\ OffloadInv /\ [Next]_vars => OffloadInv'
    BY <1>4, <1>7
  <2>2. QED
    BY <1>2, <1>3, <1>5, <1>6, <2>1, PTL DEF Spec
<1>8. CASE ~NamesSafe
  <2>1. PayloadsReadable
    BY <1>1, <1>8
  <2>2. QED
    BY <1>8, <2>1, PTL
<1>9. QED
  BY <1>7, <1>8
=============================================================================
