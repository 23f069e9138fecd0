--------------------------- MODULE CheckpointProofs ---------------------------
(***************************************************************************)
(* Proof that a load never returns a partial or an undone checkpoint while *)
(* one scheduler saves the execution.                                      *)
(***************************************************************************)
EXTENDS CheckpointFile, TLAPS

OneSaver == \A s, t \in Savers : s = t

-----------------------------------------------------------------------------
(* The invariant.                                                          *)

TypesOK ==
    /\ tmp \in Files \cup {NoFile} /\ path \in Files \cup {NoFile}
    /\ content \in [Files -> Int]
    /\ pc \in [Savers -> {"idle", "writing", "renaming"}]
    /\ fd \in [Savers -> Files \cup {NoFile}]
    /\ saving \in [Savers -> Nat] /\ saves \in Nat /\ saved \in Nat
    /\ opened \in [Readers -> Files \cup {NoFile}]
    /\ since \in [Readers -> Nat] /\ got \in [Readers -> Int]

\* The checkpoint is the last one saved, whole, and not the temporary file.
PathWhole ==
    /\ path # NoFile => path # tmp /\ content[path] = saved
    /\ path = NoFile => saved = 0
    /\ saved <= saves

\* The saver writes the temporary file, and renames it whole and newer.
SaverOwnsTmp == \A s \in Savers :
    /\ pc[s] # "idle" => tmp # NoFile /\ fd[s] = tmp /\ saving[s] = saves /\ saves > saved
    /\ pc[s] = "writing" => content[tmp] = Partial
    /\ pc[s] = "renaming" => content[tmp] = saving[s]

\* A reader holds a whole checkpoint, no older than its load, that nobody writes.
ReaderSafe == \A r \in Readers :
    /\ opened[r] # NoFile => opened[r] # tmp /\ content[opened[r]] >= since[r]
    /\ opened[r] = NoFile => got[r] >= since[r]
    /\ got[r] >= 0

FileInv == TypesOK /\ PathWhole /\ SaverOwnsTmp /\ ReaderSafe

-----------------------------------------------------------------------------
(* The steps.                                                              *)

LEMMA FileInit == Init => FileInv
<1> SUFFICES ASSUME Init PROVE FileInv
  OBVIOUS
<1>1. TypesOK
  BY DEF Init, TypesOK, Partial
<1>2. PathWhole /\ SaverOwnsTmp /\ ReaderSafe
  BY DEF Init, PathWhole, SaverOwnsTmp, ReaderSafe
<1> QED
  BY <1>1, <1>2 DEF FileInv

LEMMA CreateStep ==
    ASSUME OneSaver, FileInv, NEW s \in Savers, Create(s)
    PROVE  FileInv'
<1>1. PICK f \in Files :
        /\ IF tmp = NoFile THEN Free(f) ELSE f = tmp
        /\ tmp' = f /\ fd' = [fd EXCEPT ![s] = f]
        /\ content' = [content EXCEPT ![f] = Partial]
  BY DEF Create
<1>2. /\ saves' = saves + 1 /\ pc' = [pc EXCEPT ![s] = "writing"]
      /\ saving' = [saving EXCEPT ![s] = saves']
      /\ UNCHANGED <<path, saved, opened, since, got>>
  BY DEF Create, readers
<1>3. TypesOK'
  BY <1>1, <1>2 DEF FileInv, TypesOK, Partial
<1>4. f # NoFile /\ f # path /\ \A r \in Readers : opened[r] # f
  BY <1>1, FilesAssumption DEF FileInv, TypesOK, PathWhole, ReaderSafe, Free
<1>5. PathWhole'
  BY <1>1, <1>2, <1>4 DEF FileInv, TypesOK, PathWhole
<1>6. SaverOwnsTmp'
  BY <1>1, <1>2, <1>4 DEF FileInv, TypesOK, PathWhole, SaverOwnsTmp, OneSaver
<1>7. ReaderSafe'
  BY <1>1, <1>2, <1>4 DEF FileInv, TypesOK, ReaderSafe
<1> QED
  BY <1>3, <1>5, <1>6, <1>7 DEF FileInv

LEMMA WriteStep ==
    ASSUME OneSaver, FileInv, NEW s \in Savers, Write(s)
    PROVE  FileInv'
<1>1. pc[s] = "writing" /\ tmp \in Files /\ fd[s] = tmp /\ content[tmp] = Partial
  BY DEF Write, FileInv, TypesOK, SaverOwnsTmp
<1>2. /\ content' = [content EXCEPT ![tmp] = saving[s]]
      /\ pc' = [pc EXCEPT ![s] = "renaming"]
      /\ UNCHANGED <<tmp, path, fd, saving, saves, saved, opened, since, got>>
  BY <1>1 DEF Write, readers
<1>3. TypesOK'
  BY <1>1, <1>2 DEF FileInv, TypesOK
<1>4. PathWhole'
  BY <1>1, <1>2 DEF FileInv, TypesOK, PathWhole
<1>5. SaverOwnsTmp'
  BY <1>1, <1>2 DEF FileInv, TypesOK, SaverOwnsTmp, OneSaver
<1>6. ReaderSafe'
  BY <1>1, <1>2 DEF FileInv, TypesOK, ReaderSafe
<1> QED
  BY <1>3, <1>4, <1>5, <1>6 DEF FileInv

LEMMA RenameStep ==
    ASSUME OneSaver, FileInv, NEW s \in Savers, Rename(s)
    PROVE  FileInv'
<1>1. pc[s] = "renaming" /\ tmp \in Files /\ tmp # NoFile /\ fd[s] = tmp
      /\ content[tmp] = saving[s] /\ saving[s] = saves /\ saves > saved
  BY DEF Rename, FileInv, TypesOK, SaverOwnsTmp
<1>2. /\ path' = tmp /\ tmp' = NoFile /\ saved' = saves
      /\ pc' = [pc EXCEPT ![s] = "idle"] /\ fd' = [fd EXCEPT ![s] = NoFile]
      /\ UNCHANGED <<content, saving, saves, opened, since, got>>
  BY <1>1 DEF Rename, Close, readers
<1>3. TypesOK'
  BY <1>1, <1>2 DEF FileInv, TypesOK
<1>4. PathWhole'
  BY <1>1, <1>2 DEF FileInv, TypesOK, PathWhole
<1>5. SaverOwnsTmp'
  BY <1>1, <1>2 DEF FileInv, TypesOK, SaverOwnsTmp, OneSaver
<1>6. ReaderSafe'
  BY <1>1, <1>2 DEF FileInv, TypesOK, ReaderSafe
<1> QED
  BY <1>3, <1>4, <1>5, <1>6 DEF FileInv

LEMMA FailStep ==
    ASSUME OneSaver, FileInv, NEW s \in Savers, Fail(s)
    PROVE  FileInv'
<1>1. /\ pc' = [pc EXCEPT ![s] = "idle"] /\ fd' = [fd EXCEPT ![s] = NoFile]
      /\ UNCHANGED <<tmp, path, content, saving, saves, saved, opened, since, got>>
  BY DEF Fail, Close, readers
<1> QED
  BY <1>1 DEF FileInv, TypesOK, PathWhole, SaverOwnsTmp, ReaderSafe, OneSaver

LEMMA ReaderStep ==
    ASSUME FileInv, NEW r \in Readers, Open(r) \/ Read(r)
    PROVE  FileInv'
<1>1. UNCHANGED <<tmp, path, content, pc, fd, saving, saves, saved>>
  BY DEF Open, Read, savers
<1>2. PathWhole' /\ SaverOwnsTmp'
  BY <1>1 DEF FileInv, PathWhole, SaverOwnsTmp
<1>3. CASE Open(r)
  <2>1. /\ path # NoFile /\ opened' = [opened EXCEPT ![r] = path]
        /\ since' = [since EXCEPT ![r] = saved] /\ got' = got
    BY <1>3 DEF Open
  <2> QED
    BY <1>1, <1>2, <2>1 DEF FileInv, TypesOK, PathWhole, ReaderSafe
<1>4. CASE Read(r)
  <2>1. /\ opened[r] # NoFile /\ opened' = [opened EXCEPT ![r] = NoFile]
        /\ got' = [got EXCEPT ![r] = content[opened[r]]] /\ since' = since
    BY <1>4 DEF Read
  <2> QED
    BY <1>1, <1>2, <2>1 DEF FileInv, TypesOK, ReaderSafe
<1> QED
  BY <1>3, <1>4

LEMMA FileStep == OneSaver /\ FileInv /\ [Next]_vars => FileInv'
<1> SUFFICES ASSUME OneSaver, FileInv, [Next]_vars PROVE FileInv'
  OBVIOUS
<1>1. CASE UNCHANGED vars
  BY <1>1 DEF vars, savers, readers, FileInv, TypesOK, PathWhole, SaverOwnsTmp, ReaderSafe
<1> QED
  BY <1>1, CreateStep, WriteStep, RenameStep, FailStep, ReaderStep DEF Next

THEOREM FileInvInvariant == OneSaver /\ Spec => []FileInv
<1>1. OneSaver => OneSaver'
  BY DEF OneSaver
<1> QED
  BY <1>1, FileInit, FileStep, PTL DEF Spec

\* While one scheduler saves an execution, a load never reads a checkpoint that is
\* being written or was left half written (FilesystemCheckpointStore).
THEOREM LoadsNeverPartial == OneSaver /\ Spec => []NeverPartial
<1>1. FileInv => NeverPartial
  BY DEF FileInv, ReaderSafe, NeverPartial, Partial, TypesOK
<1> QED
  BY <1>1, FileInvInvariant, PTL

\* Nor one older than the last whose save had returned when the load began.
THEOREM LoadsAlwaysFresh == OneSaver /\ Spec => []LoadsAreFresh
<1>1. FileInv => LoadsAreFresh
  BY DEF FileInv, ReaderSafe, LoadsAreFresh
<1> QED
  BY <1>1, FileInvInvariant, PTL
=============================================================================
