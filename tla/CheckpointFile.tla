--------------------------- MODULE CheckpointFile ---------------------------
(***************************************************************************)
(* FilesystemCheckpointStore, for one execution id: a save creates or      *)
(* truncates the temporary file, writes it and renames it over the         *)
(* checkpoint; a load opens the checkpoint and reads it.  A name refers to *)
(* a file, and whoever has opened a file keeps it whatever is renamed.     *)
(* The file system is modelled as POSIX has it; a saver may die anywhere.  *)
(***************************************************************************)
EXTENDS Integers

CONSTANTS
    Savers,     \* processes that save checkpoints of this execution
    Readers,    \* processes that load them
    Files,      \* bound: files that exist or are open at once
    NoFile,     \* what a name that does not exist refers to
    MaxSaves    \* bound: saves that are begun

ASSUME FilesAssumption == NoFile \notin Files /\ MaxSaves \in Nat

VARIABLES
    tmp, path,  \* the files `<id>.json.tmp` and `<id>.json` refer to
    content,    \* file -> the checkpoint it holds whole, or Partial
    pc, fd,     \* saver -> where its save stands, and the file it writes
    saving,     \* saver -> the checkpoint it saves
    saves,      \* saves begun; checkpoints are numbered in this order
    saved,      \* history: the greatest checkpoint whose save returned Ok
    opened,     \* reader -> the file it reads
    since,      \* history: reader -> `saved` when its load opened the file
    got         \* reader -> what its last load read, or 0

savers  == <<pc, fd, saving, saves, saved>>
readers == <<opened, since, got>>
vars    == <<tmp, path, content, savers, readers>>

Partial == -1

Init ==
    /\ tmp = NoFile /\ path = NoFile
    /\ content = [f \in Files |-> Partial]
    /\ pc = [s \in Savers |-> "idle"] /\ fd = [s \in Savers |-> NoFile]
    /\ saving = [s \in Savers |-> 0] /\ saves = 0 /\ saved = 0
    /\ opened = [r \in Readers |-> NoFile]
    /\ since = [r \in Readers |-> 0] /\ got = [r \in Readers |-> 0]

Free(f) ==
    /\ f \notin {tmp, path}
    /\ \A s \in Savers : fd[s] # f
    /\ \A r \in Readers : opened[r] # f

\* fs::write opens the temporary file: created, or truncated if it is there.
Create(s) ==
    /\ pc[s] = "idle"
    /\ saves < MaxSaves /\ saves' = saves + 1
    /\ \E f \in Files :
        /\ IF tmp = NoFile THEN Free(f) ELSE f = tmp
        /\ tmp' = f /\ fd' = [fd EXCEPT ![s] = f]
        /\ content' = [content EXCEPT ![f] = Partial]
    /\ pc' = [pc EXCEPT ![s] = "writing"]
    /\ saving' = [saving EXCEPT ![s] = saves']
    /\ UNCHANGED <<path, saved, readers>>

\* ... and writes all of it.  Over what another saver wrote, the rest of a
\* longer checkpoint may remain.
Write(s) ==
    /\ pc[s] = "writing"
    /\ \E c \in {saving[s]} \cup (IF content[fd[s]] = Partial THEN {} ELSE {Partial}) :
        content' = [content EXCEPT ![fd[s]] = c]
    /\ pc' = [pc EXCEPT ![s] = "renaming"]
    /\ UNCHANGED <<tmp, path, fd, saving, saves, saved, readers>>

Close(s) == pc' = [pc EXCEPT ![s] = "idle"] /\ fd' = [fd EXCEPT ![s] = NoFile]

\* Fault: the rename does not wait for the write.
RenameEarly(s) ==
    /\ pc[s] \in {"writing", "renaming"}
    /\ tmp # NoFile
    /\ path' = tmp /\ tmp' = NoFile
    /\ saved' = IF saving[s] > saved THEN saving[s] ELSE saved
    /\ Close(s)
    /\ UNCHANGED <<content, saving, saves, readers>>

\* Fault: a checkpoint that exists is not replaced.
RenameOnce(s) ==
    /\ pc[s] = "renaming"
    /\ tmp # NoFile
    /\ IF path = NoFile THEN path' = tmp /\ tmp' = NoFile ELSE UNCHANGED <<tmp, path>>
    /\ saved' = IF saving[s] > saved THEN saving[s] ELSE saved
    /\ Close(s)
    /\ UNCHANGED <<content, saving, saves, readers>>

Rename(s) ==
    /\ pc[s] = "renaming"
    /\ tmp # NoFile
    /\ path' = tmp /\ tmp' = NoFile
    /\ saved' = IF saving[s] > saved THEN saving[s] ELSE saved
    /\ Close(s)
    /\ UNCHANGED <<content, saving, saves, readers>>

\* The saver dies, or fs::write or fs::rename returns an error.
Fail(s) ==
    /\ pc[s] # "idle"
    /\ Close(s)
    /\ UNCHANGED <<tmp, path, content, saving, saves, saved, readers>>

\* `load`, when the checkpoint exists.
Open(r) ==
    /\ opened[r] = NoFile
    /\ path # NoFile
    /\ opened' = [opened EXCEPT ![r] = path]
    /\ since' = [since EXCEPT ![r] = saved]
    /\ UNCHANGED <<tmp, path, content, savers, got>>

Read(r) ==
    /\ opened[r] # NoFile
    /\ got' = [got EXCEPT ![r] = content[opened[r]]]
    /\ opened' = [opened EXCEPT ![r] = NoFile]
    /\ UNCHANGED <<tmp, path, content, savers, since>>

Next ==
    \/ \E s \in Savers : Create(s) \/ Write(s) \/ Rename(s) \/ Fail(s)
    \/ \E r \in Readers : Open(r) \/ Read(r)

Spec == Init /\ [][Next]_vars

-----------------------------------------------------------------------------
\* No reader observes a partial checkpoint.
NeverPartial == \A r \in Readers : got[r] # Partial

\* A load returns a checkpoint at least as recent as the last one that had been
\* saved when it began, so no save that returned Ok is undone by a later failure.
LoadsAreFresh ==
    \A r \in Readers : opened[r] = NoFile /\ got[r] # Partial => got[r] >= since[r]
=============================================================================
