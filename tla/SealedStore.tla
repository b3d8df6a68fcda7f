----------------------------- MODULE SealedStore -----------------------------
(***************************************************************************)
(* The sealed configuration on disk: init, load_config, save_config,       *)
(* with_config and write_atomic of mw-core/src/state.rs, one step per file *)
(* system call that another process, or a crash, can fall between.         *)
(*                                                                         *)
(* There is one writer at a time: the daemon's handlers write under        *)
(* config_write, and the CLI edits the file itself only while no daemon    *)
(* answers.  Readers (list and probe requests, a starting daemon) take no  *)
(* lock.  A configuration is the set of updates that went into it; a       *)
(* sealed blob is a configuration and the number of the master key that    *)
(* sealed it.  A crash keeps every completed call (the order in which the  *)
(* directory entries reach the disk is not modelled).                      *)
(***************************************************************************)
EXTENDS Naturals

CONSTANTS
    Updates,   \* configuration edits, each made at most once
    Readers,   \* lock-free readers
    MaxKey,    \* bound on the number of master keys generated
    ReInit,    \* the operator may run init over a directory that has a backup
    Absent,    \* no such file
    Torn       \* a file that is being written

ASSUME StoreAssumption == MaxKey \in Nat /\ ReInit \in BOOLEAN

Blob == [cfg : SUBSET Updates, key : 0..MaxKey]

ASSUME AbsentAssumption ==
    /\ Absent \notin Blob
    /\ Absent \notin Updates
    /\ Torn \notin Blob \union {Absent}

Files == Blob \union {Absent}

VARIABLES
    sealed,   \* config.sealed
    bak,      \* config.sealed.bak
    tmp,      \* config.sealed.tmp
    key,      \* the number of the master key in the key store (0: none)
    pc,       \* where the writer is
    new,      \* the blob the writer is about to save
    edit,     \* the update the writer is making
    reader,   \* reader[r]: what reader r has read, and what was saved before
    saved     \* history: the updates whose with_config returned Ok

files == <<sealed, bak, tmp, key>>
vars  == <<sealed, bak, tmp, key, pc, new, edit, reader, saved>>

PCs == {"idle", "loaded", "removed", "rotated", "writing", "synced",
        "init", "init_writing", "init_synced"}

IdleReader == [st |-> "idle", blob |-> Absent, floor |-> {}]

Reader == [st    : {"idle", "read", "ok", "failed"},
           blob  : Files,
           floor : SUBSET Updates]

TypeOK ==
    /\ sealed \in Files
    /\ bak \in Files
    /\ tmp \in Files \union {Torn}
    /\ key \in 0..MaxKey
    /\ pc \in PCs
    /\ new \in Files
    /\ edit \in Updates \union {Absent}
    /\ reader \in [Readers -> Reader]
    /\ saved \subseteq Updates

Init ==
    /\ sealed = Absent
    /\ bak = Absent
    /\ tmp = Absent
    /\ key = 0
    /\ pc = "idle"
    /\ new = Absent
    /\ edit = Absent
    /\ reader = [r \in Readers |-> IdleReader]
    /\ saved = {}

(***************************************************************************)
(* init                                                                    *)
(***************************************************************************)

\* Refuses to overwrite config.sealed; then generates and stores a new key.
InitKey ==
    /\ pc = "idle"
    /\ sealed = Absent
    /\ key < MaxKey
    /\ bak = Absent \/ ReInit
    /\ key' = key + 1
    /\ new' = [cfg |-> {}, key |-> key']
    /\ pc' = "init"
    /\ UNCHANGED <<sealed, bak, tmp, edit, reader, saved>>

\* write_atomic opens the temporary file with truncation, ...
OpenTmp(from, to) ==
    /\ pc = from
    /\ tmp' = Torn
    /\ pc' = to
    /\ UNCHANGED <<sealed, bak, key, new, edit, reader, saved>>

\* Mutant: the rename does not wait for the write.
SyncTmp_early(from, to) ==
    /\ pc = from
    /\ pc' = to
    /\ UNCHANGED <<sealed, bak, tmp, key, new, edit, reader, saved>>

\* ... writes it and syncs it, ...
SyncTmp(from, to) ==
    /\ pc = from
    /\ tmp' = new
    /\ pc' = to
    /\ UNCHANGED <<sealed, bak, key, new, edit, reader, saved>>

\* ... and renames it over config.sealed.
RenameTmp(from) ==
    /\ pc = from
    /\ sealed' = tmp
    /\ tmp' = Absent
    /\ pc' = "idle"
    /\ new' = Absent
    /\ edit' = Absent
    /\ saved' = IF edit = Absent THEN saved ELSE saved \union {edit}
    /\ UNCHANGED <<bak, key, reader>>

(***************************************************************************)
(* with_config: load, mutate, save                                         *)
(***************************************************************************)

Unseals(blob) == blob # Absent /\ blob.key = key

\* Mutant: the transform starts from an empty configuration.
Load_fresh(u) ==
    /\ pc = "idle"
    /\ Unseals(sealed)
    /\ u \notin sealed.cfg
    /\ new' = [cfg |-> {u}, key |-> key]
    /\ edit' = u
    /\ pc' = "loaded"
    /\ UNCHANGED <<sealed, bak, tmp, key, reader, saved>>

\* load_config and the transform; the blob is sealed before any file changes.
Load(u) ==
    /\ pc = "idle"
    /\ Unseals(sealed)
    /\ u \notin sealed.cfg
    /\ new' = [cfg |-> sealed.cfg \union {u}, key |-> key]
    /\ edit' = u
    /\ pc' = "loaded"
    /\ UNCHANGED <<sealed, bak, tmp, key, reader, saved>>

RemoveBackup ==
    /\ pc = "loaded"
    /\ bak' = Absent
    /\ pc' = "removed"
    /\ UNCHANGED <<sealed, tmp, key, new, edit, reader, saved>>

\* Mutant: the old file is removed rather than renamed.
RotateToBackup_dropped ==
    /\ pc = "removed"
    /\ sealed' = Absent
    /\ pc' = "rotated"
    /\ UNCHANGED <<bak, tmp, key, new, edit, reader, saved>>

RotateToBackup ==
    /\ pc = "removed"
    /\ bak' = sealed
    /\ sealed' = Absent
    /\ pc' = "rotated"
    /\ UNCHANGED <<tmp, key, new, edit, reader, saved>>

\* The process dies, or the save errs out, between two calls.
Crash ==
    /\ pc # "idle"
    /\ pc' = "idle"
    /\ new' = Absent
    /\ edit' = Absent
    /\ UNCHANGED <<files, reader, saved>>

(***************************************************************************)
(* load_config by a reader that holds no lock                              *)
(***************************************************************************)

\* Mutant: the backup is read where there is one.
ReadBlob_backup(r) ==
    /\ reader[r].st = "idle"
    /\ bak # Absent
    /\ reader' = [reader EXCEPT ![r] = [st |-> "read", blob |-> bak, floor |-> saved]]
    /\ UNCHANGED <<files, pc, new, edit, saved>>

\* Reads config.sealed; a missing file is an error.
ReadBlob(r) ==
    /\ reader[r].st = "idle"
    /\ reader' = [reader EXCEPT ![r] =
                    [st |-> IF sealed = Absent THEN "failed" ELSE "read",
                     blob |-> sealed, floor |-> saved]]
    /\ UNCHANGED <<files, pc, new, edit, saved>>

\* Loads the key, which may have changed since, and unseals.
ReadKey(r) ==
    /\ reader[r].st = "read"
    /\ reader' = [reader EXCEPT ![r].st = IF Unseals(reader[r].blob) THEN "ok" ELSE "failed"]
    /\ UNCHANGED <<files, pc, new, edit, saved>>

ReadDone(r) ==
    /\ reader[r].st \in {"ok", "failed"}
    /\ reader' = [reader EXCEPT ![r] = IdleReader]
    /\ UNCHANGED <<files, pc, new, edit, saved>>

-----------------------------------------------------------------------------

Write ==
    \/ OpenTmp("init", "init_writing") \/ SyncTmp("init_writing", "init_synced")
    \/ RenameTmp("init_synced")
    \/ OpenTmp("rotated", "writing") \/ SyncTmp("writing", "synced")
    \/ RenameTmp("synced")

Read == \E r \in Readers : ReadBlob(r) \/ ReadKey(r) \/ ReadDone(r)

Next ==
    \/ InitKey
    \/ Write
    \/ \E u \in Updates : Load(u)
    \/ RemoveBackup
    \/ RotateToBackup
    \/ Crash
    \/ Read

Spec == Init /\ [][Next]_vars

-----------------------------------------------------------------------------
(* Properties *)

\* The configuration that an operator could recover by hand: config.sealed, or
\* config.sealed.bak while there is none, under the key in the key store.
Recoverable ==
    IF sealed # Absent
    THEN IF Unseals(sealed) THEN sealed.cfg ELSE {}
    ELSE IF bak # Absent /\ Unseals(bak) THEN bak.cfg ELSE {}

\* No update that with_config acknowledged is ever lost from the state
\* directory, wherever in save_config the process dies.
SavedIsRecoverable == saved \subseteq Recoverable

\* A lock-free reader that gets a configuration gets a whole one, and one that
\* has every update acknowledged before the read began.
ReadsAreFresh ==
    \A r \in Readers : reader[r].st = "ok" => reader[r].floor \subseteq reader[r].blob.cfg

\* The store implements the register: what is recoverable changes by one whole
\* update at a time, at the final rename and nowhere else.
Register == INSTANCE ConfigRegister WITH value <- Recoverable
RegisterSpec == Register!Spec

(* What the repository's own text says and the code does not do. *)

\* state.rs: the save is atomic.  Once there is a configuration, config.sealed
\* is there and unseals at every moment, whatever the writer is doing.
SaveIsAtomic == saved # {} => Unseals(sealed)

\* init.rs: running init again is fine, it reuses the existing configuration.
ReInitKeepsConfig == [][key' # key => Recoverable' = Recoverable]_vars
=============================================================================
