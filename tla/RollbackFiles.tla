----------------------------- MODULE RollbackFiles -----------------------------
(***************************************************************************)
(* The rollback store on its file system (RollbackStore in rollout.py and  *)
(* cleanup_interrupted_noreplace_link_at in materials.py).                 *)
(*                                                                         *)
(* RollbackPointer takes publish, clear and restore for single steps.      *)
(* Here they are the system calls they are made of: an object is written   *)
(* under a temporary name, synced, linked and its temporary name removed;  *)
(* the pointer is replaced by a rename; rollback.lock is a flock that      *)
(* falls with its process; readers take no lock.  A process may be killed  *)
(* between any two calls, and power may fail: what was not synced may then *)
(* be lost.                                                                *)
(*                                                                         *)
(* The file system is POSIX with ordered directory updates: the updates of *)
(* one directory reach the disk in order, those of two directories in any. *)
(***************************************************************************)
EXTENDS RollbackPointer

CONSTANTS Writers,        \* processes that publish, clear and restore
          Readers,        \* processes that read the active spec without a lock
          Ids,            \* specs
          MaxGeneration,  \* bound: generations of the pointer
          MaxKills,       \* bound: processes killed
          MaxLosses,      \* bound: power failures
          None            \* no process

ASSUME IdsAssumption == Ids \subseteq Nat \ {0}
ASSUME BoundsAssumption ==
  MaxGeneration \in Nat /\ MaxKills \in Nat /\ MaxLosses \in Nat
ASSUME NoneAssumption == None \notin Writers

VARIABLES pointer,    \* rollback.json as processes see it
          dir,        \* rollback-specs exists
          links,      \* spec -> link count of its object, 0 when there is none
          body,       \* spec -> its object's content: absent, cached, synced, torn
          disk,       \* what a power failure leaves of pointer, dir and links
          lock,       \* the writer that holds rollback.lock, or None
          writer,     \* writer -> the call it is in
          journal,    \* writer -> the pointer it last replaced, kept across crashes
          reader,     \* reader -> spec it is about to read, 0 when idle
          acked,      \* history: the pointer of the last call that returned
          kills, losses

named == <<pointer, dir, links, body>>
past == <<acked, kills, losses>>
vars == <<named, disk, lock, writer, journal, reader, past>>

Idle == [at |-> "idle"]

Init ==
  /\ pointer = NoPointer
  /\ dir = FALSE
  /\ links = [s \in Ids |-> 0]
  /\ body = [s \in Ids |-> "absent"]
  /\ disk = [pointer |-> NoPointer, dir |-> FALSE, links |-> [s \in Ids |-> 0]]
  /\ lock = None
  /\ writer = [w \in Writers |-> Idle]
  /\ journal = [w \in Writers |-> Idle]
  /\ reader = [r \in Readers |-> 0]
  /\ acked = NoPointer
  /\ kills = 0 /\ losses = 0

\* _read_private_json_at: a file of its own name alone, with a document in it.
Readable(s) == dir /\ links[s] = 1 /\ body[s] \in {"cached", "synced"}

Objects == {s \in Ids : Readable(s)}

At(w, label) == writer[w].at = label
Goes(w, label) == writer' = [writer EXCEPT ![w].at = label]
Fails(w) == writer' = [writer EXCEPT ![w] = Idle]

\* _locked_state: flock(LOCK_EX).
Locks(w) == lock = None /\ lock' = w
Unlocks(w) == lock' = None

\* fsync of the state directory and of rollback-specs.
SyncState == disk' = [disk EXCEPT !.pointer = pointer, !.dir = dir]
SyncObjects == disk' = [disk EXCEPT !.links = links]


--------------------------------------------------------------------------------
(* The calls and what their callers know when they make them.              *)

\* publish of a spec, over the pointer the caller read earlier.
CallPublish(w, s) ==
  /\ At(w, "idle")
  /\ pointer.generation < MaxGeneration
  /\ writer' = [writer EXCEPT ![w] = [at |-> "put", kind |-> "publish",
                                      spec |-> s, seen |-> pointer, temp |-> "absent"]]
  /\ UNCHANGED <<named, disk, lock, journal, reader, past>>

CallClear(w) ==
  /\ At(w, "idle")
  /\ pointer.generation < MaxGeneration /\ pointer.active # 0
  /\ writer' = [writer EXCEPT ![w] = [at |-> "stored", kind |-> "clear",
                                      spec |-> 0, seen |-> pointer]]
  /\ UNCHANGED <<named, disk, lock, journal, reader, past>>

\* restore of the pointer this writer's journal names as replaced.
CallRestore(w) ==
  /\ At(w, "idle") /\ journal[w] # Idle
  /\ journal[w].after.generation < MaxGeneration
  /\ writer' = [writer EXCEPT ![w] = [at |-> "stored", kind |-> "restore",
                  spec |-> journal[w].before.active, seen |-> journal[w].after,
                  predecessor |-> journal[w].before]]
  /\ UNCHANGED <<named, disk, lock, journal, reader, past>>

--------------------------------------------------------------------------------
(* put                                                                     *)

\* _objects(create=True): mkdir, unless it is there.
OpenObjects(w) ==
  /\ At(w, "put") /\ Locks(w)
  /\ dir' = TRUE
  /\ Goes(w, IF dir THEN "opened" ELSE "made")
  /\ UNCHANGED <<pointer, links, body, disk, journal, reader, past>>

\* The process that made the directory syncs its parent.
SyncMade(w) ==
  /\ At(w, "made")
  /\ SyncState
  /\ Goes(w, "opened")
  /\ UNCHANGED <<named, lock, journal, reader, past>>

\* Mutant: the second link of an interrupted publication stays.
LeaveInterrupted(w) ==
  /\ At(w, "opened")
  /\ Goes(w, "cleaned")
  /\ UNCHANGED <<named, disk, lock, journal, reader, past>>

\* cleanup_interrupted_noreplace_link_at: the temporary name of an object that
\* has two is removed.  Its own fsync is the one that follows in any case.
CleanInterrupted(w) ==
  /\ At(w, "opened")
  /\ links' = [links EXCEPT ![writer[w].spec] = IF @ = 2 THEN 1 ELSE @]
  /\ Goes(w, "cleaned")
  /\ UNCHANGED <<pointer, dir, body, disk, lock, journal, reader, past>>

WriteTemporary(w) ==
  /\ At(w, "cleaned")
  /\ writer' = [writer EXCEPT ![w].at = "written", ![w].temp = "cached"]
  /\ UNCHANGED <<named, disk, lock, journal, reader, past>>

SyncTemporary(w) ==
  /\ At(w, "written")
  /\ writer' = [writer EXCEPT ![w].at = "synced", ![w].temp = "synced"]
  /\ UNCHANGED <<named, disk, lock, journal, reader, past>>

\* link(temporary, final): an object that is there stays as it is.
LinkObject(w) ==
  /\ At(w, "synced")
  /\ IF links[writer[w].spec] = 0
     THEN /\ links' = [links EXCEPT ![writer[w].spec] = 2]
          /\ body' = [body EXCEPT ![writer[w].spec] = writer[w].temp]
          /\ Goes(w, "linked")
     ELSE Goes(w, "unlinked") /\ UNCHANGED <<links, body>>
  /\ UNCHANGED <<pointer, dir, disk, lock, journal, reader, past>>

UnlinkTemporary(w) ==
  /\ At(w, "linked")
  /\ links' = [links EXCEPT ![writer[w].spec] = 1]
  /\ Goes(w, "unlinked")
  /\ UNCHANGED <<pointer, dir, body, disk, lock, journal, reader, past>>

SyncLink(w) ==
  /\ At(w, "unlinked")
  /\ SyncObjects
  /\ Goes(w, "kept")
  /\ UNCHANGED <<named, lock, journal, reader, past>>

\* The object is read back and the lock released.
ReadBack(w) ==
  /\ At(w, "kept")
  /\ IF Readable(writer[w].spec) THEN Goes(w, "stored") ELSE Fails(w)
  /\ Unlocks(w)
  /\ UNCHANGED <<named, disk, journal, reader, past>>

--------------------------------------------------------------------------------
(* publish, clear and restore of the pointer                               *)

Allowed(w) ==
  LET c == writer[w] IN
  CASE c.kind = "publish" ->
         CanPublish(pointer, Objects, c.spec, c.seen.generation, c.seen.active)
    [] c.kind = "clear" ->
         CanClear(pointer, Objects, c.seen.generation, c.seen.active)
    [] c.kind = "restore" ->
         CanRestore(pointer, Objects, c.predecessor, c.seen.generation, c.seen.active)

\* Mutant: the pointer is compared before the lock is taken.
CompareUnlocked(w) ==
  /\ At(w, "stored")
  /\ IF Allowed(w) THEN Goes(w, "compared") ELSE Fails(w)
  /\ UNCHANGED <<named, disk, lock, journal, reader, past>>

\* The lock again, _assert_cas, and the objects on both sides of the change.
Compare(w) ==
  /\ At(w, "stored")
  /\ lock = None
  /\ IF Allowed(w)
     THEN lock' = w /\ Goes(w, "compared")
     ELSE Fails(w) /\ UNCHANGED lock
  /\ UNCHANGED <<named, disk, journal, reader, past>>

\* _replace_at: a synced temporary file is renamed over the pointer.  The
\* transaction that asked for it has journalled the change it makes.
Replace(w) ==
  /\ At(w, "compared")
  /\ LET c == writer[w]
         after == [generation |-> c.seen.generation + 1, active |-> c.spec,
                   previous |-> c.seen.active, by |-> 0]
     IN /\ pointer' = after
        /\ journal' = [journal EXCEPT ![w] = [before |-> c.seen, after |-> after]]
  /\ Goes(w, "replaced")
  /\ UNCHANGED <<dir, links, body, disk, lock, reader, past>>

\* Mutant: the call returns without the directory of the pointer synced.
ReturnUnsynced(w) ==
  /\ At(w, "replaced")
  /\ acked' = pointer
  /\ Fails(w) /\ Unlocks(w)
  /\ UNCHANGED <<named, disk, journal, reader, kills, losses>>

\* fsync of the state directory, the pointer read back, and the call returns.
Return(w) ==
  /\ At(w, "replaced")
  /\ SyncState
  /\ acked' = pointer
  /\ Fails(w) /\ Unlocks(w)
  /\ UNCHANGED <<named, journal, reader, kills, losses>>

--------------------------------------------------------------------------------
(* read_active: the pointer, then the object it names, if any.             *)

ReadPointer(r) ==
  /\ reader[r] = 0
  /\ reader' = [reader EXCEPT ![r] = pointer.active]
  /\ UNCHANGED <<named, disk, lock, writer, journal, past>>

ReadSpec(r) ==
  /\ reader[r] # 0
  /\ reader' = [reader EXCEPT ![r] = 0]
  /\ UNCHANGED <<named, disk, lock, writer, journal, past>>

--------------------------------------------------------------------------------
(* Failures.                                                               *)

\* A killed process loses its lock, and leaves what it had done.
Killed(w) ==
  /\ kills < MaxKills /\ kills' = kills + 1
  /\ ~At(w, "idle")
  /\ Fails(w)
  /\ lock' = IF lock = w THEN None ELSE lock
  /\ UNCHANGED <<named, disk, journal, reader, acked, losses>>

\* The kernel writes directories back when it likes, each in its own order: an
\* object gets its second name before it loses the temporary one.
WriteBackState ==
  /\ disk.pointer # pointer \/ disk.dir # dir
  /\ SyncState
  /\ UNCHANGED <<named, lock, writer, journal, reader, past>>

WriteBackLink(s) ==
  /\ disk.links[s] # links[s]
  /\ disk' = [disk EXCEPT !.links[s] = IF @ = 0 THEN 2 ELSE links[s]]
  /\ UNCHANGED <<named, lock, writer, journal, reader, past>>

PowerFails ==
  /\ losses < MaxLosses /\ losses' = losses + 1
  /\ LET left == [s \in Ids |-> IF disk.dir THEN disk.links[s] ELSE 0] IN
       /\ links' = left
       /\ disk' = [disk EXCEPT !.links = left]
       /\ body' = [s \in Ids |-> IF left[s] = 0 THEN "absent"
                                 ELSE IF body[s] = "cached" THEN "torn" ELSE body[s]]
  /\ pointer' = disk.pointer
  /\ dir' = disk.dir
  /\ lock' = None
  /\ writer' = [w \in Writers |-> Idle]
  /\ reader' = [r \in Readers |-> 0]
  /\ UNCHANGED <<journal, acked, kills>>

Put(w) ==
  \/ OpenObjects(w) \/ SyncMade(w) \/ CleanInterrupted(w)
  \/ WriteTemporary(w) \/ SyncTemporary(w)
  \/ LinkObject(w) \/ UnlinkTemporary(w) \/ SyncLink(w) \/ ReadBack(w)

Next ==
  \/ \E w \in Writers :
       \/ \E s \in Ids : CallPublish(w, s)
       \/ CallClear(w) \/ CallRestore(w)
       \/ Put(w) \/ Compare(w) \/ Replace(w) \/ Return(w)
       \/ Killed(w)
  \/ \E r \in Readers : ReadPointer(r) \/ ReadSpec(r)
  \/ WriteBackState
  \/ \E s \in Ids : WriteBackLink(s)
  \/ PowerFails

Spec == Init /\ [][Next]_vars

--------------------------------------------------------------------------------
Documents == PointerDocs(Ids, 0 .. MaxGeneration)

TypeOK ==
  /\ pointer \in Documents /\ acked \in Documents
  /\ dir \in BOOLEAN
  /\ links \in [Ids -> 0 .. 2]
  /\ body \in [Ids -> {"absent", "cached", "synced", "torn"}]
  /\ disk \in [pointer : Documents, dir : BOOLEAN, links : [Ids -> 0 .. 2]]
  /\ lock \in Writers \union {None}
  /\ reader \in [Readers -> Ids \union {0}]

NamedBy(p) == {p.active, p.previous} \ {0}

\* A spec that anything leads to can be read: whatever process is killed and
\* whenever power fails, the specs the pointer names, on the disk as in memory,
\* are whole files of one name, so is the one a reader without a lock is about
\* to open, and a put that got to its read-back does not fail, even over what a
\* killed put of the same spec has left.
PointerResolves ==
  /\ NamedBy(pointer) \subseteq Objects
  /\ \A s \in NamedBy(disk.pointer) :
       disk.dir /\ disk.links[s] = 1 /\ body[s] = "synced"
  /\ \A r \in Readers : reader[r] # 0 => Readable(reader[r])
  /\ \A w \in Writers : At(w, "kept") => Readable(writer[w].spec)

\* A call that returned is not undone by a power failure: the pointer on the
\* disk is the returned one or a later one.
AckedSurvives ==
  /\ disk.pointer.generation >= acked.generation
  /\ disk.pointer.generation = acked.generation => disk.pointer = acked

\* "after an exact generation/previous CAS": processes change the pointer only to
\* the successor of the very pointer their caller had seen, however many others
\* wrote in between; only a power failure takes it back, and then no further
\* than to the last call that returned.
CasIsExact ==
  [][pointer' # pointer =>
       \/ \E w \in Writers :
            /\ At(w, "compared")
            /\ writer[w].seen = pointer
            /\ pointer' = Successor(pointer, writer[w].spec, 0)
            /\ ValidPointer(pointer')
       \/ losses' > losses /\ pointer'.generation >= acked.generation]_vars
================================================================================
