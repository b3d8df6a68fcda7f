------------------------- MODULE SealedStore_proofs -------------------------
(***************************************************************************)
(* The sealed store implements the configuration register, as long as init *)
(* is not run over a directory that has a backup: for any set of edits and *)
(* readers, wherever the writer dies.                                      *)
(*                                                                         *)
(* The argument.  At every moment the newest acknowledged configuration is *)
(* whole in config.sealed or, if there is none, in config.sealed.bak, and  *)
(* sealed under the key in the key store (KeysMatch); the writer's new     *)
(* blob is that configuration and one edit (WriterPrepared).  So the final *)
(* rename is the register's update and every other step leaves the         *)
(* register alone.                                                         *)
(***************************************************************************)
EXTENDS SealedStore, TLAPS

\* The blob an operator would recover from.
Newest == IF sealed # Absent THEN sealed ELSE bak

\* The newest blob unseals with the current key.
KeysMatch == Newest # Absent => Newest.key = key

\* A writer between two calls: what it has in hand and what is on disk.
WriterPrepared ==
    /\ pc = "idle" => edit = Absent
    /\ pc \in {"loaded", "removed"} => sealed # Absent
    /\ pc \in {"rotated", "writing", "synced", "init", "init_writing", "init_synced"} =>
           sealed = Absent
    /\ pc \in {"loaded", "removed", "rotated", "writing", "synced"} =>
           /\ Newest # Absent
           /\ edit \in Updates
           /\ new = [cfg |-> Newest.cfg \union {edit}, key |-> key]
    /\ pc \in {"init", "init_writing", "init_synced"} =>
           bak = Absent /\ edit = Absent /\ new = [cfg |-> {}, key |-> key]
    /\ pc \in {"synced", "init_synced"} => tmp = new

\* A reader that has a blob has one with every update saved before it began.
ReadersCurrent ==
    \A r \in Readers : reader[r].st \in {"read", "ok"} =>
        reader[r].blob # Absent /\ reader[r].floor \subseteq reader[r].blob.cfg

StoreInv ==
    TypeOK /\ KeysMatch /\ WriterPrepared /\ SavedIsRecoverable /\ ReadersCurrent

\* Under KeysMatch, what is recoverable is the newest blob's configuration.
LEMMA RecoverableIsNewest ==
    ASSUME KeysMatch
    PROVE  Recoverable = IF Newest # Absent THEN Newest.cfg ELSE {}
  BY DEF KeysMatch, Recoverable, Newest, Unseals

\* The invariant holds of an empty directory.
LEMMA StoreInit == Init => StoreInv /\ Recoverable = {}
<1> SUFFICES ASSUME Init PROVE StoreInv /\ Recoverable = {}
  OBVIOUS
<1>1. IdleReader \in Reader /\ IdleReader.st = "idle"
  BY DEF IdleReader, Reader, Files
<1>2. TypeOK
  BY <1>1, StoreAssumption DEF Init, TypeOK, Files, PCs
<1>3. KeysMatch /\ WriterPrepared /\ Recoverable = {} /\ saved = {}
  BY DEF Init, KeysMatch, WriterPrepared, Newest, Recoverable
<1>4. ReadersCurrent
  BY <1>1 DEF Init, ReadersCurrent
<1> QED
  BY <1>2, <1>3, <1>4 DEF StoreInv, SavedIsRecoverable

\* What a step does to the register: nothing, or one whole update.
RegisterStep == Recoverable' = Recoverable \/ \E u \in Updates : Recoverable' = Recoverable \union {u}

\* A step that changes neither the newest blob, the key nor what was saved.
LEMMA NewestKept ==
    ASSUME StoreInv, Newest' = Newest, key' = key, saved' = saved
    PROVE  KeysMatch' /\ SavedIsRecoverable' /\ Recoverable' = Recoverable
<1>1. KeysMatch'
  BY DEF StoreInv, KeysMatch
<1>2. Recoverable' = IF Newest' # Absent THEN Newest'.cfg ELSE {}
  BY <1>1 DEF KeysMatch, Recoverable, Newest, Unseals
<1>3. Recoverable = IF Newest # Absent THEN Newest.cfg ELSE {}
  BY RecoverableIsNewest DEF StoreInv
<1> QED
  BY <1>1, <1>2, <1>3 DEF StoreInv, SavedIsRecoverable

\* Generating a key: there is nothing to unseal yet.
LEMMA InitKeyKeeps ==
    ASSUME StoreInv, ~ReInit, InitKey
    PROVE  StoreInv' /\ RegisterStep
<1>1. /\ sealed = Absent /\ bak = Absent /\ key < MaxKey /\ key' = key + 1
      /\ new' = [cfg |-> {}, key |-> key'] /\ pc' = "init" /\ pc = "idle"
      /\ UNCHANGED <<sealed, bak, tmp, edit, reader, saved>>
  BY DEF InitKey
<1>2. key' \in 0..MaxKey
  BY <1>1, StoreAssumption DEF StoreInv, TypeOK
<1>3. new' \in Blob
  BY <1>1, <1>2 DEF Blob
<1>4. TypeOK'
  BY <1>1, <1>2, <1>3 DEF StoreInv, TypeOK, Files, PCs
<1>5. KeysMatch' /\ Recoverable' = {} /\ Recoverable = {}
  BY <1>1 DEF KeysMatch, Newest, Recoverable
<1>6. saved = {}
  BY <1>5 DEF StoreInv, SavedIsRecoverable
<1> QED
  BY <1>1, <1>4, <1>5, <1>6
     DEF StoreInv, WriterPrepared, SavedIsRecoverable, ReadersCurrent, RegisterStep

\* The three steps of write_atomic before the rename, and those before it: the
\* newest blob stays what it is.
LEMMA PrepareKeeps ==
    ASSUME StoreInv,
           \/ OpenTmp("init", "init_writing") \/ SyncTmp("init_writing", "init_synced")
           \/ OpenTmp("rotated", "writing") \/ SyncTmp("writing", "synced")
           \/ RemoveBackup \/ RotateToBackup
    PROVE  StoreInv' /\ RegisterStep
<1>1. TypeOK /\ WriterPrepared /\ ReadersCurrent
  BY DEF StoreInv
<1>2. Newest' = Newest /\ UNCHANGED <<key, new, edit, reader, saved>>
  BY <1>1 DEF OpenTmp, SyncTmp, RemoveBackup, RotateToBackup, Newest, WriterPrepared
<1>3. TypeOK'
  BY <1>1 DEF OpenTmp, SyncTmp, RemoveBackup, RotateToBackup, TypeOK, PCs, Files
<1>4. WriterPrepared'
  <2>1. CASE OpenTmp("init", "init_writing")
    BY <1>1, <1>2, <2>1 DEF OpenTmp, WriterPrepared
  <2>2. CASE SyncTmp("init_writing", "init_synced")
    BY <1>1, <1>2, <2>2 DEF SyncTmp, WriterPrepared
  <2>3. CASE OpenTmp("rotated", "writing")
    BY <1>1, <1>2, <2>3 DEF OpenTmp, WriterPrepared
  <2>4. CASE SyncTmp("writing", "synced")
    BY <1>1, <1>2, <2>4 DEF SyncTmp, WriterPrepared
  <2>5. CASE RemoveBackup
    BY <1>1, <1>2, <2>5 DEF RemoveBackup, WriterPrepared
  <2>6. CASE RotateToBackup
    BY <1>1, <1>2, <2>6 DEF RotateToBackup, WriterPrepared
  <2> QED
    BY <2>1, <2>2, <2>3, <2>4, <2>5, <2>6
<1>5. ReadersCurrent'
  BY <1>1, <1>2 DEF ReadersCurrent
<1> QED
  BY <1>2, <1>3, <1>4, <1>5, NewestKept DEF StoreInv, RegisterStep

\* Loading only takes the configuration into memory.
LEMMA LoadKeeps ==
    ASSUME StoreInv, NEW u \in Updates, Load(u)
    PROVE  StoreInv' /\ RegisterStep
<1>1. TypeOK /\ WriterPrepared /\ ReadersCurrent
  BY DEF StoreInv
<1>2. /\ sealed # Absent /\ sealed.key = key
      /\ new' = [cfg |-> sealed.cfg \union {u}, key |-> key] /\ edit' = u /\ pc' = "loaded"
      /\ UNCHANGED <<sealed, bak, tmp, key, reader, saved>>
  BY DEF Load, Unseals
<1>3. Newest' = Newest /\ Newest = sealed
  BY <1>2 DEF Newest
<1>4. new' \in Blob
  BY <1>1, <1>2 DEF TypeOK, Files, Blob
<1>5. TypeOK'
  BY <1>1, <1>2, <1>4 DEF TypeOK, Files, PCs
<1>6. WriterPrepared'
  BY <1>2, <1>3 DEF WriterPrepared
<1>7. ReadersCurrent'
  BY <1>1, <1>2 DEF ReadersCurrent
<1> QED
  BY <1>2, <1>3, <1>5, <1>6, <1>7, NewestKept DEF StoreInv, RegisterStep

\* Dying between two calls leaves the files as they are.
LEMMA CrashKeeps ==
    ASSUME StoreInv, Crash
    PROVE  StoreInv' /\ RegisterStep
<1>1. TypeOK /\ ReadersCurrent
  BY DEF StoreInv
<1>2. /\ pc' = "idle" /\ new' = Absent /\ edit' = Absent
      /\ UNCHANGED <<sealed, bak, tmp, key, reader, saved>>
  BY DEF Crash, files
<1>3. Newest' = Newest
  BY <1>2 DEF Newest
<1>4. TypeOK' /\ WriterPrepared' /\ ReadersCurrent'
  BY <1>1, <1>2 DEF TypeOK, Files, PCs, WriterPrepared, ReadersCurrent
<1> QED
  BY <1>2, <1>3, <1>4, NewestKept DEF StoreInv, RegisterStep

\* The rename that ends init: an empty configuration where there was none.
LEMMA RenameInitKeeps ==
    ASSUME StoreInv, RenameTmp("init_synced")
    PROVE  StoreInv' /\ RegisterStep
<1>1. TypeOK /\ WriterPrepared /\ ReadersCurrent /\ SavedIsRecoverable
  BY DEF StoreInv
<1>2. /\ sealed = Absent /\ bak = Absent /\ edit = Absent
      /\ tmp = [cfg |-> {}, key |-> key]
  BY <1>1 DEF RenameTmp, WriterPrepared
<1>3. /\ sealed' = tmp /\ tmp' = Absent /\ pc' = "idle" /\ new' = Absent /\ edit' = Absent
      /\ UNCHANGED <<saved, bak, key, reader>>
  BY <1>2 DEF RenameTmp
<1>4. tmp \in Blob /\ tmp # Absent
  BY <1>1, <1>2, AbsentAssumption DEF TypeOK, Blob
<1>5. TypeOK'
  BY <1>1, <1>3, <1>4 DEF TypeOK, Files, PCs
<1>6. KeysMatch' /\ Recoverable' = {} /\ Recoverable = {}
  BY <1>2, <1>3, <1>4 DEF KeysMatch, Newest, Recoverable, Unseals
<1> QED
  BY <1>1, <1>3, <1>5, <1>6
     DEF StoreInv, WriterPrepared, SavedIsRecoverable, ReadersCurrent, RegisterStep

\* The rename that ends a save is the register's update.
LEMMA RenameKeeps ==
    ASSUME StoreInv, RenameTmp("synced")
    PROVE  StoreInv' /\ RegisterStep
<1>1. TypeOK /\ KeysMatch /\ WriterPrepared /\ ReadersCurrent /\ SavedIsRecoverable
  BY DEF StoreInv
<1>2. /\ Newest # Absent /\ edit \in Updates
      /\ tmp = [cfg |-> Newest.cfg \union {edit}, key |-> key]
  BY <1>1 DEF RenameTmp, WriterPrepared
<1>3. edit # Absent
  BY <1>2, AbsentAssumption
<1>4. /\ sealed' = tmp /\ tmp' = Absent /\ pc' = "idle" /\ new' = Absent /\ edit' = Absent
      /\ saved' = saved \union {edit} /\ UNCHANGED <<bak, key, reader>>
  BY <1>3 DEF RenameTmp
<1>5. tmp \in Blob /\ tmp # Absent
  <2>1. Newest \in Blob
    BY <1>1, <1>2 DEF Newest, TypeOK, Files
  <2> QED
    BY <1>1, <1>2, <2>1, AbsentAssumption DEF TypeOK, Blob
<1>6. TypeOK'
  BY <1>1, <1>2, <1>4, <1>5 DEF TypeOK, Files, PCs
<1>7. Recoverable = Newest.cfg
  BY <1>1, <1>2, RecoverableIsNewest
<1>8. KeysMatch' /\ Recoverable' = Newest.cfg \union {edit}
  BY <1>2, <1>4, <1>5 DEF KeysMatch, Newest, Recoverable, Unseals
<1>9. WriterPrepared' /\ ReadersCurrent'
  BY <1>1, <1>4 DEF WriterPrepared, ReadersCurrent
<1> QED
  BY <1>1, <1>2, <1>4, <1>6, <1>7, <1>8, <1>9 DEF StoreInv, SavedIsRecoverable, RegisterStep

\* A reader changes nothing but what it has read, and reads the newest blob.
LEMMA ReadKeeps ==
    ASSUME StoreInv, Read
    PROVE  StoreInv' /\ RegisterStep
<1>1. TypeOK /\ KeysMatch /\ WriterPrepared /\ ReadersCurrent /\ SavedIsRecoverable
  BY DEF StoreInv
<1>2. UNCHANGED <<sealed, bak, tmp, key, pc, new, edit, saved>>
  BY DEF Read, ReadBlob, ReadKey, ReadDone, files
<1>3. Newest' = Newest
  BY <1>2 DEF Newest
<1>4. WriterPrepared'
  BY <1>1, <1>2, <1>3 DEF WriterPrepared
<1>5. PICK r \in Readers : ReadBlob(r) \/ ReadKey(r) \/ ReadDone(r)
  BY DEF Read
<1>6. reader[r] \in Reader
  BY <1>1 DEF TypeOK
<1>7. PICK k \in Reader :
         /\ reader' = [reader EXCEPT ![r] = k]
         /\ k.st \in {"read", "ok"} => k.blob # Absent /\ k.floor \subseteq k.blob.cfg
  <2>1. CASE ReadBlob(r)
    <3> DEFINE k == [st |-> IF sealed = Absent THEN "failed" ELSE "read",
                     blob |-> sealed, floor |-> saved]
    <3>1. k \in Reader /\ reader' = [reader EXCEPT ![r] = k]
      BY <1>1, <2>1 DEF ReadBlob, Reader, TypeOK
    <3>2. sealed # Absent => saved \subseteq sealed.cfg
      BY <1>1, RecoverableIsNewest DEF SavedIsRecoverable, Newest
    <3> QED
      BY <3>1, <3>2
  <2>2. CASE ReadKey(r)
    <3> DEFINE st == IF Unseals(reader[r].blob) THEN "ok" ELSE "failed"
               k == [reader[r] EXCEPT !.st = st]
    <3>1. reader[r].st = "read" /\ reader' = [reader EXCEPT ![r] = k]
      BY <1>1, <2>2 DEF ReadKey, TypeOK
    <3>2. k \in Reader /\ k.blob = reader[r].blob /\ k.floor = reader[r].floor
      BY <1>6 DEF Reader
    <3> HIDE DEF k
    <3> QED
      BY <1>1, <3>1, <3>2 DEF ReadersCurrent
  <2>3. CASE ReadDone(r)
    <3>1. IdleReader \in Reader /\ IdleReader.st = "idle"
      BY DEF IdleReader, Reader, Files
    <3> QED
      BY <2>3, <3>1 DEF ReadDone
  <2> QED
    BY <1>5, <2>1, <2>2, <2>3
<1>8. TypeOK'
  BY <1>1, <1>2, <1>7 DEF TypeOK
<1>9. ReadersCurrent'
  BY <1>1, <1>7 DEF ReadersCurrent, TypeOK
<1> QED
  BY <1>2, <1>3, <1>4, <1>8, <1>9, NewestKept DEF StoreInv, RegisterStep

\* The invariant is inductive, and every step is a step of the register.
LEMMA StoreNext ==
    ASSUME ~ReInit, StoreInv, [Next]_vars
    PROVE  StoreInv' /\ RegisterStep
<1>1. CASE UNCHANGED vars
  <2>1. UNCHANGED <<sealed, bak, tmp, key, pc, new, edit, reader, saved>>
    BY <1>1 DEF vars
  <2>2. Newest' = Newest
    BY <2>1 DEF Newest
  <2>3. TypeOK' /\ WriterPrepared' /\ ReadersCurrent'
    BY <2>1, <2>2 DEF StoreInv, TypeOK, WriterPrepared, ReadersCurrent
  <2> QED
    BY <2>1, <2>2, <2>3, NewestKept DEF StoreInv, RegisterStep
<1> QED
  BY <1>1, InitKeyKeeps, PrepareKeeps, LoadKeeps, CrashKeeps, RenameInitKeeps, RenameKeeps,
     ReadKeeps DEF Next, Write

-----------------------------------------------------------------------------
(* Theorems *)

\* config.sealed is never torn, whoever dies when and however often init is run.
\* The renamed file is the one that was synced.
THEOREM StoreTypes == Spec => []TypeOK
<1> DEFINE TypeInv == TypeOK /\ (pc \in {"synced", "init_synced"} => tmp = new)
<1>1. Init => TypeInv
  BY StoreInit DEF StoreInv, Init
<1>2. TypeInv /\ [Next]_vars => TypeInv'
  <2> SUFFICES ASSUME TypeOK, pc \in {"synced", "init_synced"} => tmp = new, [Next]_vars
               PROVE  TypeOK' /\ (pc' \in {"synced", "init_synced"} => tmp' = new')
    OBVIOUS
  <2>1. CASE UNCHANGED vars
    BY <2>1 DEF vars, TypeOK
  <2>2. CASE InitKey
    <3>1. key' \in 0..MaxKey
      BY <2>2, StoreAssumption DEF InitKey, TypeOK
    <3>2. new' \in Blob
      BY <2>2, <3>1 DEF InitKey, Blob
    <3> QED
      BY <2>2, <3>1, <3>2 DEF InitKey, TypeOK, Files, PCs
  <2>3. CASE \/ OpenTmp("init", "init_writing") \/ SyncTmp("init_writing", "init_synced")
             \/ OpenTmp("rotated", "writing") \/ SyncTmp("writing", "synced")
             \/ RemoveBackup \/ RotateToBackup
    BY <2>3 DEF OpenTmp, SyncTmp, RemoveBackup, RotateToBackup, TypeOK, PCs, Files
  <2>4. CASE RenameTmp("init_synced") \/ RenameTmp("synced")
    BY <2>4 DEF RenameTmp, TypeOK, Files, PCs
  <2>5. ASSUME NEW u \in Updates, Load(u)
        PROVE  TypeOK' /\ (pc' \in {"synced", "init_synced"} => tmp' = new')
    <3>1. new' \in Blob
      BY <2>5 DEF Load, Unseals, TypeOK, Files, Blob
    <3> QED
      BY <2>5, <3>1 DEF Load, TypeOK, Files, PCs
  <2>6. CASE Crash
    BY <2>6 DEF Crash, files, TypeOK, Files, PCs
  <2>7. CASE Read
    <3>1. UNCHANGED <<sealed, bak, tmp, key, pc, new, edit, saved>>
      BY <2>7 DEF Read, ReadBlob, ReadKey, ReadDone, files
    <3>2. IdleReader \in Reader
      BY DEF IdleReader, Reader, Files
    <3>3. reader' \in [Readers -> Reader]
      BY <2>7, <3>2 DEF Read, ReadBlob, ReadKey, ReadDone, TypeOK, Reader
    <3> QED
      BY <3>1, <3>3 DEF TypeOK
  <2> QED
    BY <2>1, <2>2, <2>3, <2>4, <2>5, <2>6, <2>7 DEF Next, Write
<1> QED
  BY <1>1, <1>2, PTL DEF Spec

\* No acknowledged update is ever lost from the state directory, wherever
\* save_config is cut short.
THEOREM SavedStaysRecoverable == ~ReInit => (Spec => []SavedIsRecoverable)
<1> SUFFICES ASSUME ~ReInit PROVE Spec => []SavedIsRecoverable
  OBVIOUS
<1>1. StoreInv /\ [Next]_vars => StoreInv'
  BY StoreNext
<1>2. StoreInv => SavedIsRecoverable
  BY DEF StoreInv
<1>3. Init => StoreInv
  BY StoreInit
<1> QED
  BY <1>1, <1>2, <1>3, PTL DEF Spec

\* A reader without the lock never gets a torn configuration, nor one older than
\* what had been saved when it began.
THEOREM ReadersNeverStale == ~ReInit => (Spec => []ReadsAreFresh)
<1> SUFFICES ASSUME ~ReInit PROVE Spec => []ReadsAreFresh
  OBVIOUS
<1>1. StoreInv /\ [Next]_vars => StoreInv'
  BY StoreNext
<1>2. StoreInv => ReadsAreFresh
  BY DEF StoreInv, ReadersCurrent, ReadsAreFresh
<1>3. Init => StoreInv
  BY StoreInit
<1> QED
  BY <1>1, <1>2, <1>3, PTL DEF Spec

\* The sealed store implements the configuration register.
THEOREM StoreImplementsRegister == ~ReInit => (Spec => RegisterSpec)
<1> SUFFICES ASSUME ~ReInit PROVE Spec => RegisterSpec
  OBVIOUS
<1>1. Init => StoreInv /\ Register!Init
  BY StoreInit DEF Register!Init
<1>2. StoreInv /\ [Next]_vars => StoreInv' /\ [Register!Next]_Recoverable
  BY StoreNext DEF RegisterStep, Register!Next, Register!Update
<1> QED
  BY <1>1, <1>2, PTL DEF Spec, RegisterSpec, Register!Spec
=============================================================================
