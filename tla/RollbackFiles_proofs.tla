-------------------------- MODULE RollbackFiles_proofs --------------------------
(***************************************************************************)
(* Proofs about the rollback store on its file system, for any writers,    *)
(* readers and specs and any number of kills and power failures.           *)
(*                                                                         *)
(* The argument: rollback.lock says which writer may touch the files; what *)
(* the disk has of an object is never ahead of what processes see; a call  *)
(* knows, from the calls it has already made, that its object is on the    *)
(* disk; and within one boot the generations of the pointer only grow, so  *)
(* that a pointer of the generation a caller saw is the one it saw.        *)
(***************************************************************************)
EXTENDS RollbackFiles, TLAPS

\* The object is whole, of one name, and a power failure leaves its link.
Kept(s) == dir /\ links[s] = 1 /\ disk.links[s] = 1 /\ body[s] = "synced"

PutLabels ==
  {"put", "made", "opened", "cleaned", "written", "synced", "linked",
   "unlinked", "kept"}
PointerLabels == {"stored", "compared", "replaced"}

\* From here on a call has rollback.lock.
Holding == (PutLabels \ {"put"}) \union {"compared", "replaced"}

PublishCalls ==
  [at : PutLabels \union PointerLabels, kind : {"publish"}, spec : Ids,
   seen : Documents, temp : {"absent", "cached", "synced"}]
ClearCalls == [at : PointerLabels, kind : {"clear"}, spec : {0}, seen : Documents]
RestoreCalls ==
  [at : PointerLabels, kind : {"restore"}, spec : Ids \union {0},
   seen : Documents, predecessor : Documents]
Calls == PublishCalls \union ClearCalls \union RestoreCalls

\* The change of the pointer that a journal records.
Changes == [before : Documents, after : Documents]
Follows(after, before) ==
  after.generation = before.generation + 1 /\ after.previous = before.active

\* Pointers of one boot: none of a lower generation, one of each generation.
NotAfter(p, q) == p.generation <= q.generation /\ (p.generation = q.generation => p = q)

\* What a writer knows of the files and of the pointer at each point of its call.
Knows(w) ==
  LET c == writer[w] IN
  /\ c.at \in Holding => lock = w
  /\ c.at \in PutLabels \ {"put"} => dir
  /\ c.at = "synced" => c.temp = "synced"
  /\ c.at \in {"cleaned", "written", "synced"} => links[c.spec] # 2
  /\ c.at = "linked" => links[c.spec] = 2
  /\ c.at = "unlinked" => links[c.spec] = 1
  /\ c.at = "kept" => Kept(c.spec)
  /\ c \in PublishCalls /\ c.at \in PointerLabels => Kept(c.spec)
  /\ c \in PublishCalls \union ClearCalls => NotAfter(c.seen, pointer)
  /\ c \in RestoreCalls => Follows(c.seen, c.predecessor) /\ c.spec = c.predecessor.active
  /\ c.at = "compared" =>
       /\ c.seen = pointer
       /\ ValidPointer(Successor(pointer, c.spec, 0))
       /\ c.spec # 0 => Kept(c.spec)

FilesOK ==
  /\ disk.dir => dir
  /\ \A s \in Ids :
       /\ links[s] = 0 => disk.links[s] = 0
       /\ links[s] = 2 => disk.links[s] # 1
       /\ links[s] # 0 => dir /\ body[s] = "synced"

PointersOK ==
  /\ NotAfter(acked, disk.pointer) /\ NotAfter(disk.pointer, pointer)
  /\ pointer.by = 0 /\ disk.pointer.by = 0
  /\ \A s \in NamedBy(pointer) : Kept(s)
  /\ \A s \in NamedBy(disk.pointer) : Kept(s) /\ disk.dir
  /\ \A r \in Readers : reader[r] # 0 => Kept(reader[r])

CallsOK ==
  /\ writer \in [Writers -> Calls \union {Idle}]
  /\ \A w \in Writers :
       /\ writer[w] # Idle => /\ writer[w].seen.by = 0
                              /\ writer[w].seen.generation < MaxGeneration
       /\ Knows(w)

JournalOK ==
  /\ journal \in [Writers -> Changes \union {Idle}]
  /\ \A w \in Writers : journal[w] # Idle =>
       /\ Follows(journal[w].after, journal[w].before)
       /\ journal[w].after.by = 0

\* The inductive invariant.
FilesInv ==
  /\ TypeOK /\ losses \in Nat
  /\ FilesOK /\ PointersOK /\ CallsOK /\ JournalOK

--------------------------------------------------------------------------------
\* Calls and the disk as records.

LEMMA DocumentFields ==
  ASSUME NEW p \in Documents
  PROVE  /\ p.generation \in 0 .. MaxGeneration /\ p.generation \in Nat
         /\ p.active \in Ids \union {0} /\ p.previous \in Ids \union {0}
         /\ NamedBy(p) \subseteq Ids
BY BoundsAssumption DEF Documents, PointerDocs, NamedBy

\* Two documents are equal when their fields are.
LEMMA SameDocument ==
  ASSUME NEW p \in Documents, NEW q \in Documents,
         p.generation = q.generation, p.active = q.active,
         p.previous = q.previous, p.by = q.by
  PROVE  p = q
BY DEF Documents, PointerDocs

\* The generations of one boot are ordered.
LEMMA NotAfterTransitive ==
  ASSUME NEW p \in Documents, NEW q \in Documents, NEW r \in Documents,
         NotAfter(p, q), NotAfter(q, r)
  PROVE  NotAfter(p, r)
<1>1. p.generation \in Nat /\ q.generation \in Nat /\ r.generation \in Nat
  BY DocumentFields
<1>2. p.generation <= q.generation /\ q.generation <= r.generation
  BY DEF NotAfter
<1>3. p.generation = r.generation => p.generation = q.generation /\ q.generation = r.generation
  BY <1>1, <1>2
<1>4. p.generation <= r.generation
  BY <1>1, <1>2
<1> QED
  BY <1>3, <1>4 DEF NotAfter

LEMMA CallFields ==
  ASSUME NEW c \in Calls
  PROVE  /\ c # Idle /\ c.at # "idle"
         /\ c.seen \in Documents /\ c.spec \in Ids \union {0}
         /\ c.at \in PutLabels => c \in PublishCalls
         /\ c \in PublishCalls => c.spec \in Ids
         /\ c \in RestoreCalls => c.predecessor \in Documents
         /\ c \in PublishCalls <=> c.kind = "publish"
         /\ c \in ClearCalls <=> c.kind = "clear"
         /\ c \in RestoreCalls <=> c.kind = "restore"
<1>1. CASE c \in PublishCalls
  BY <1>1 DEF PublishCalls, ClearCalls, RestoreCalls, PutLabels, PointerLabels, Idle
<1>2. CASE c \in ClearCalls
  BY <1>2 DEF PublishCalls, ClearCalls, RestoreCalls, PutLabels, PointerLabels, Idle
<1>3. CASE c \in RestoreCalls
  BY <1>3 DEF PublishCalls, ClearCalls, RestoreCalls, PutLabels, PointerLabels, Idle
<1> QED
  BY <1>1, <1>2, <1>3 DEF Calls

\* A call that goes on to its next point is the same call.
LEMMA CallGoes ==
  ASSUME NEW c \in Calls, NEW label,
         label \in PointerLabels \/ (label \in PutLabels /\ c \in PublishCalls)
  PROVE  LET d == [c EXCEPT !.at = label] IN
         /\ d \in Calls /\ d.at = label
         /\ d.kind = c.kind /\ d.spec = c.spec /\ d.seen = c.seen
         /\ c \in PublishCalls => d.temp = c.temp
         /\ c \in RestoreCalls => d.predecessor = c.predecessor
<1> DEFINE d == [c EXCEPT !.at = label]
<1>1. CASE c \in PublishCalls
  BY <1>1, CallFields DEF PublishCalls, ClearCalls, RestoreCalls, Calls
<1>2. CASE c \in ClearCalls
  <2>1. c.kind = "clear" /\ label \in PointerLabels
    BY <1>2, CallFields DEF ClearCalls, PublishCalls
  <2> QED
    BY <1>2, <2>1, CallFields DEF ClearCalls, Calls
<1>3. CASE c \in RestoreCalls
  <2>1. c.kind = "restore" /\ label \in PointerLabels
    BY <1>3, CallFields DEF RestoreCalls, PublishCalls
  <2> QED
    BY <1>3, <2>1, CallFields DEF RestoreCalls, Calls
<1> QED
  BY <1>1, <1>2, <1>3 DEF Calls

\* What the two syncs leave on the disk.
LEMMA DiskFields ==
  ASSUME TypeOK
  PROVE  /\ disk.pointer \in Documents /\ disk.dir \in BOOLEAN
         /\ disk.links \in [Ids -> 0 .. 2]
         /\ SyncState => /\ disk' \in [pointer : Documents, dir : BOOLEAN, links : [Ids -> 0 .. 2]]
                         /\ disk'.pointer = pointer /\ disk'.dir = dir
                         /\ disk'.links = disk.links
         /\ SyncObjects => /\ disk' \in [pointer : Documents, dir : BOOLEAN, links : [Ids -> 0 .. 2]]
                           /\ disk'.pointer = disk.pointer /\ disk'.dir = disk.dir
                           /\ disk'.links = links
BY DEF TypeOK, SyncState, SyncObjects

--------------------------------------------------------------------------------
\* What a step may do to the calls it is not a step of.

\* No object and no pointer is taken away, as in every step but a power failure.
KeptGrows == \A s \in Ids : Kept(s) => Kept(s)'
Grows == KeptGrows /\ NotAfter(pointer, pointer') /\ (dir => dir')

\* A step of another writer: the holder of the lock keeps it, and with it the
\* pointer and the links.
Undisturbed(v) == lock = v => lock' = v /\ UNCHANGED <<pointer, links>>

LEMMA KnowsStands ==
  ASSUME FilesInv, TypeOK', NEW v \in Writers, writer'[v] = writer[v],
         Grows, Undisturbed(v)
  PROVE  Knows(v)'
<1> DEFINE c == writer[v]
<1>1. CASE c = Idle
  <2>1. c.at = "idle"
    BY <1>1 DEF Idle
  <2>2. c \notin Calls
    BY <1>1, CallFields
  <2> QED
    BY <2>1, <2>2 DEF Knows, Holding, PutLabels, PointerLabels, Calls
<1>2. CASE c \in Calls
  <2>1. /\ c.spec \in Ids \union {0} /\ c.seen \in Documents
        /\ c \in PublishCalls => c.spec \in Ids
        /\ c.at \in PutLabels => c.spec \in Ids
    BY <1>2, CallFields
  <2>2. pointer \in Documents /\ pointer' \in Documents
    BY DEF FilesInv, TypeOK
  <2>3. Knows(v)
    BY DEF FilesInv, CallsOK
  <2>4. NotAfter(c.seen, pointer) => NotAfter(c.seen, pointer')
    BY <2>1, <2>2, NotAfterTransitive DEF Grows
  <2>5. c.at \in Holding => lock = v /\ lock' = v /\ UNCHANGED <<pointer, links>>
    BY <2>3 DEF Knows, Undisturbed
  <2>6. Kept(c.spec) /\ c.spec # 0 => Kept(c.spec)'
    BY <2>1 DEF Grows, KeptGrows
  <2>7. 0 \notin Ids
    BY IdsAssumption
  <2>8. /\ c.at = "kept" => Kept(c.spec)'
        /\ c \in PublishCalls /\ c.at \in PointerLabels => Kept(c.spec)'
    BY <2>1, <2>3, <2>6, <2>7 DEF Knows, PutLabels
  <2>9. c.at = "compared" => /\ c.seen = pointer'
                             /\ ValidPointer(Successor(pointer', c.spec, 0))
                             /\ c.spec # 0 => Kept(c.spec)'
    BY <2>3, <2>5, <2>6 DEF Knows, Holding
  <2>10. c.at \in {"cleaned", "written", "synced", "linked", "unlinked"} => UNCHANGED links
    BY <2>5 DEF Holding, PutLabels
  <2>11. c.at \in PutLabels \ {"put"} => dir'
    BY <2>3 DEF Knows, Grows
  <2> QED
    BY <2>3, <2>4, <2>5, <2>8, <2>9, <2>10, <2>11 DEF Knows
<1> QED
  BY <1>1, <1>2 DEF FilesInv, CallsOK

\* A step of one writer.
LEMMA CallsStep ==
  ASSUME FilesInv, TypeOK', NEW w \in Writers, NEW d \in Calls \union {Idle},
         writer' = [writer EXCEPT ![w] = d],
         d # Idle => d.seen.by = 0 /\ d.seen.generation < MaxGeneration /\ Knows(w)',
         Grows, \A v \in Writers \ {w} : Undisturbed(v)
  PROVE  CallsOK'
<1>1. writer \in [Writers -> Calls \union {Idle}]
  BY DEF FilesInv, CallsOK
<1>2. writer' \in [Writers -> Calls \union {Idle}] /\ writer'[w] = d
  BY <1>1
<1>3. \A v \in Writers \ {w} : writer'[v] = writer[v] /\ Knows(v)'
  BY <1>1, KnowsStands
<1>4. d = Idle => Knows(w)'
  <2>1. d = Idle => d.at = "idle" /\ d \notin Calls
    BY CallFields DEF Idle
  <2> QED
    BY <1>2, <2>1 DEF Knows, Holding, PutLabels, PointerLabels, Calls
<1> QED
  BY <1>2, <1>3, <1>4 DEF FilesInv, CallsOK

\* A step that leaves the pointer, or syncs it.
LEMMA PointersStand ==
  ASSUME FilesInv, KeptGrows, UNCHANGED <<pointer, reader, acked>>,
         disk.dir => disk'.dir,
         \/ disk'.pointer = disk.pointer
         \/ disk'.pointer = pointer /\ disk'.dir = dir
  PROVE  PointersOK'
<1>1. /\ pointer \in Documents /\ disk.pointer \in Documents /\ acked \in Documents
      /\ reader \in [Readers -> Ids \union {0}]
  BY DiskFields DEF FilesInv, TypeOK
<1>2. NamedBy(pointer) \subseteq Ids /\ NamedBy(disk.pointer) \subseteq Ids
  BY <1>1, DocumentFields
<1>3. PointersOK
  BY DEF FilesInv
<1>4. NotAfter(acked, pointer) /\ NotAfter(pointer, pointer)
  <2>1. pointer.generation <= pointer.generation
    BY <1>1, DocumentFields
  <2> QED
    BY <1>1, <1>3, <2>1, NotAfterTransitive DEF PointersOK, NotAfter
<1>5. \A s \in NamedBy(pointer) : Kept(s)' /\ dir
  BY <1>2, <1>3 DEF PointersOK, KeptGrows, Kept
<1>6. \A s \in NamedBy(disk.pointer) : Kept(s)' /\ disk'.dir
  BY <1>2, <1>3 DEF PointersOK, KeptGrows
<1>7. \A r \in Readers : reader[r] # 0 => Kept(reader[r])'
  BY <1>1, <1>3 DEF PointersOK, KeptGrows
<1> QED
  BY <1>3, <1>4, <1>5, <1>6, <1>7 DEF PointersOK

--------------------------------------------------------------------------------
\* put.

\* A step of a put, by what it makes true for the next one.
LEMMA PutGoes ==
  ASSUME FilesInv, TypeOK', NEW w \in Writers, writer[w].at \in PutLabels,
         NEW d \in PublishCalls, writer' = [writer EXCEPT ![w] = d],
         d.at \in (PutLabels \ {"put"}) \union {"stored"},
         d.spec = writer[w].spec, d.seen = writer[w].seen,
         UNCHANGED pointer, dir', KeptGrows, lock \in {w, None},
         d.at # "stored" => lock' = w,
         d.at = "synced" => d.temp = "synced",
         d.at \in {"cleaned", "written", "synced"} => links'[d.spec] # 2,
         d.at = "linked" => links'[d.spec] = 2,
         d.at = "unlinked" => links'[d.spec] = 1,
         d.at \in {"kept", "stored"} => Kept(d.spec)'
  PROVE  CallsOK'
<1> DEFINE c == writer[w]
<1>1. writer \in [Writers -> Calls \union {Idle}] /\ Knows(w) /\ c \in Calls
  BY DEF FilesInv, CallsOK, PutLabels, Idle
<1>2. c \in PublishCalls /\ d \in Calls /\ c # Idle
  BY <1>1, CallFields DEF Calls
<1>3. writer'[w] = d
  BY <1>1
<1>4. d \notin RestoreCalls /\ d \notin ClearCalls
  BY CallFields, <1>2
<1>5. NotAfter(pointer, pointer') /\ pointer' = pointer
  <2>1. pointer.generation <= pointer.generation
    BY DocumentFields DEF FilesInv, TypeOK
  <2> QED
    BY <2>1 DEF NotAfter
<1>6. NotAfter(d.seen, pointer')
  BY <1>1, <1>2, <1>5 DEF Knows
<1>7. Knows(w)'
  BY <1>3, <1>4, <1>6 DEF Knows, Holding, PutLabels, PointerLabels
<1>8. d.seen.by = 0 /\ d.seen.generation < MaxGeneration
  BY <1>2 DEF FilesInv, CallsOK
<1>9. Grows /\ \A v \in Writers \ {w} : Undisturbed(v)
  BY <1>5, NoneAssumption DEF Grows, Undisturbed
<1> QED
  BY <1>2, <1>7, <1>8, <1>9, CallsStep

\* The parts of the state that a put never touches.
LEMMA PutFrame ==
  ASSUME FilesInv, NEW w \in Writers, Put(w)
  PROVE  /\ UNCHANGED <<pointer, reader, acked, journal, losses>>
         /\ writer[w] \in PublishCalls
         /\ writer[w].at \in PutLabels
         /\ writer[w].at # "put" => lock = w /\ dir
         /\ writer[w].spec \in Ids
<1>1. UNCHANGED <<pointer, reader, acked, journal, losses>>
  BY DEF Put, OpenObjects, SyncMade, CleanInterrupted, WriteTemporary, SyncTemporary,
         LinkObject, UnlinkTemporary, SyncLink, ReadBack, named, past
<1>2. writer[w].at \in PutLabels
  BY DEF Put, OpenObjects, SyncMade, CleanInterrupted, WriteTemporary, SyncTemporary,
         LinkObject, UnlinkTemporary, SyncLink, ReadBack, At, PutLabels
<1>3. writer[w] \in Calls \union {Idle} /\ Knows(w)
  BY DEF FilesInv, CallsOK
<1>4. writer[w] \in Calls
  BY <1>2, <1>3 DEF Idle, PutLabels
<1>5. writer[w].at # "put" => lock = w /\ dir
  BY <1>2, <1>3 DEF Knows, Holding
<1> QED
  BY <1>1, <1>2, <1>4, <1>5, CallFields

LEMMA PutKeeps ==
  ASSUME FilesInv, NEW w \in Writers, Put(w)
  PROVE  FilesInv'
<1> DEFINE c == writer[w]
<1>0. PICK s \in Ids : s = c.spec
  BY PutFrame
<1>1. /\ UNCHANGED <<pointer, reader, acked, journal, losses>>
      /\ c \in PublishCalls /\ c \in Calls /\ c.at \in PutLabels
      /\ c.at # "put" => lock = w /\ dir
  BY PutFrame DEF Calls
<1>2. TypeOK /\ FilesOK /\ Knows(w) /\ writer \in [Writers -> Calls \union {Idle}]
  BY DEF FilesInv, CallsOK
<1>3. ASSUME NEW label \in PutLabels \union {"stored"}, Goes(w, label)
      PROVE  \E d \in PublishCalls :
               /\ d.at = label /\ writer' = [writer EXCEPT ![w] = d]
               /\ d.spec = s /\ d.seen = c.seen /\ d.temp = c.temp
  <2> DEFINE d == [c EXCEPT !.at = label]
  <2>1. d \in Calls /\ d.kind = c.kind /\ d.at = label /\ d.spec = s /\ d.seen = c.seen
        /\ d.temp = c.temp
    BY <1>0, <1>1, CallGoes DEF PointerLabels
  <2>2. d \in PublishCalls
    BY <1>0, <1>1, <2>1, CallFields
  <2> QED
    BY <1>3, <2>1, <2>2 DEF Goes
<1>4. JournalOK' /\ losses' \in Nat
  BY <1>1 DEF FilesInv, JournalOK
<1>5. CASE OpenObjects(w)
  <2> DEFINE label == IF dir THEN "opened" ELSE "made"
  <2>1. /\ dir' = TRUE /\ lock = None /\ lock' = w /\ Goes(w, label)
        /\ UNCHANGED <<links, body, disk>>
    BY <1>5 DEF OpenObjects, Locks
  <2>2. TypeOK'
    BY <1>0, <1>1, <1>2, <2>1 DEF TypeOK
  <2>3. KeptGrows
    BY <2>1 DEF KeptGrows, Kept
  <2>4. FilesOK'
    BY <1>0, <1>2, <2>1 DEF FilesOK
  <2>5. PointersOK'
    BY <1>0, <1>1, <2>1, <2>3, PointersStand
  <2>6. CallsOK'
    <3>1. label \in PutLabels /\ label \in {"opened", "made"}
      BY DEF PutLabels
    <3>2. PICK d \in PublishCalls : /\ d.at = label /\ writer' = [writer EXCEPT ![w] = d]
                                     /\ d.spec = s /\ d.seen = c.seen
      BY <1>3, <2>1, <3>1
    <3> QED
      BY <1>0, <1>1, <2>1, <2>2, <2>3, <3>1, <3>2, PutGoes
  <2> QED
    BY <1>4, <2>2, <2>4, <2>5, <2>6 DEF FilesInv
<1>6. CASE SyncMade(w)
  <2>1. c.at = "made" /\ SyncState /\ Goes(w, "opened") /\ UNCHANGED <<dir, links, body, lock>>
    BY <1>6 DEF SyncMade, At, named
  <2>2. /\ disk' \in [pointer : Documents, dir : BOOLEAN, links : [Ids -> 0 .. 2]]
        /\ disk'.pointer = pointer /\ disk'.dir = dir /\ disk'.links = disk.links
    BY <1>0, <1>2, <2>1, DiskFields
  <2>3. TypeOK'
    BY <1>0, <1>1, <1>2, <2>1, <2>2 DEF TypeOK
  <2>4. KeptGrows
    BY <2>1, <2>2 DEF KeptGrows, Kept
  <2>5. FilesOK'
    BY <1>0, <1>2, <2>1, <2>2 DEF FilesOK
  <2>6. PointersOK'
    BY <1>0, <1>1, <1>2, <2>1, <2>2, <2>4, PointersStand DEF FilesOK
  <2>7. CallsOK'
    <3>1. PICK d \in PublishCalls : /\ d.at = "opened" /\ writer' = [writer EXCEPT ![w] = d]
                                     /\ d.spec = s /\ d.seen = c.seen
      BY <1>3, <2>1 DEF PutLabels
    <3> QED
      BY <1>0, <1>1, <2>1, <2>3, <2>4, <3>1, PutGoes DEF PutLabels
  <2> QED
    BY <1>4, <2>3, <2>5, <2>6, <2>7 DEF FilesInv
<1>7. CASE CleanInterrupted(w)
  <2>1. /\ c.at = "opened" /\ Goes(w, "cleaned")
        /\ links' = [links EXCEPT ![s] = IF @ = 2 THEN 1 ELSE @]
        /\ UNCHANGED <<dir, body, disk, lock>>
    BY <1>0, <1>7 DEF CleanInterrupted, At
  <2>2. TypeOK'
    BY <1>0, <1>1, <1>2, <2>1 DEF TypeOK
  <2>3. KeptGrows
    BY <1>0, <1>1, <1>2, <2>1 DEF KeptGrows, Kept, TypeOK
  <2>4. FilesOK'
    BY <1>0, <1>1, <1>2, <2>1 DEF FilesOK, TypeOK
  <2>5. PointersOK'
    BY <1>0, <1>1, <2>1, <2>3, PointersStand
  <2>6. CallsOK'
    <3>1. PICK d \in PublishCalls : /\ d.at = "cleaned" /\ writer' = [writer EXCEPT ![w] = d]
                                     /\ d.spec = s /\ d.seen = c.seen
      BY <1>3, <2>1 DEF PutLabels
    <3>2. links'[s] # 2
      BY <1>0, <1>1, <1>2, <2>1 DEF TypeOK
    <3> QED
      BY <1>0, <1>1, <2>1, <2>2, <2>3, <3>1, <3>2, PutGoes DEF PutLabels
  <2> QED
    BY <1>4, <2>2, <2>4, <2>5, <2>6 DEF FilesInv
<1>8. CASE WriteTemporary(w) \/ SyncTemporary(w)
  <2>1. PICK label \in {"written", "synced"}, temp \in {"cached", "synced"} :
          /\ writer' = [writer EXCEPT ![w].at = label, ![w].temp = temp]
          /\ c.at \in {"cleaned", "written"} /\ (label = "synced" => temp = "synced")
          /\ UNCHANGED <<dir, links, body, disk, lock>>
    BY <1>8 DEF WriteTemporary, SyncTemporary, At, named
  <2>2. TypeOK'
    BY <1>0, <1>1, <1>2, <2>1 DEF TypeOK
  <2>3. KeptGrows
    BY <2>1 DEF KeptGrows, Kept
  <2>4. FilesOK'
    BY <1>0, <1>2, <2>1 DEF FilesOK
  <2>5. PointersOK'
    BY <1>0, <1>1, <2>1, <2>3, PointersStand
  <2>6. CallsOK'
    <3>1. /\ [c EXCEPT !.at = label, !.temp = temp] \in PublishCalls
          /\ [c EXCEPT !.at = label, !.temp = temp].spec = s
          /\ [c EXCEPT !.at = label, !.temp = temp].seen = c.seen
      BY <1>0, <1>1 DEF PublishCalls, PutLabels
    <3>2. PICK d \in PublishCalls : /\ d.at = label /\ d.temp = temp
                                     /\ writer' = [writer EXCEPT ![w] = d]
                                     /\ d.spec = s /\ d.seen = c.seen
      BY <1>1, <1>2, <2>1, <3>1 DEF PublishCalls
    <3>3. links'[s] # 2
      BY <1>0, <1>2, <2>1 DEF Knows
    <3>4. /\ d.at \in {"written", "synced"} /\ (d.at = "synced" => d.temp = "synced")
          /\ d.at \in PutLabels \ {"put"} /\ lock \in {w, None} /\ lock' = w /\ dir'
      BY <1>1, <2>1, <3>2 DEF PutLabels
    <3>5. /\ writer[w].at \in PutLabels /\ UNCHANGED pointer /\ d.spec = writer[w].spec
          /\ d.seen = writer[w].seen /\ d.at \notin {"linked", "unlinked", "kept", "stored"}
          /\ d.at \in (PutLabels \ {"put"}) \union {"stored"}
      BY <1>0, <1>1, <3>2, <3>4
    <3> QED
      BY <2>2, <2>3, <3>2, <3>3, <3>4, <3>5, PutGoes
  <2> QED
    BY <1>4, <2>2, <2>4, <2>5, <2>6 DEF FilesInv
<1>9. CASE LinkObject(w) /\ links[s] = 0
  <2>1. /\ c.at = "synced" /\ Goes(w, "linked")
        /\ links' = [links EXCEPT ![s] = 2] /\ body' = [body EXCEPT ![s] = c.temp]
        /\ UNCHANGED <<dir, disk, lock>>
    BY <1>0, <1>9 DEF LinkObject, At
  <2>2. c.temp = "synced"
    BY <1>0, <1>2, <2>1 DEF Knows
  <2>3. TypeOK'
    BY <1>0, <1>1, <1>2, <2>1, <2>2 DEF TypeOK
  <2>4. KeptGrows
    BY <1>0, <1>2, <1>9, <2>1 DEF KeptGrows, Kept, TypeOK
  <2>5. FilesOK'
    BY <1>0, <1>1, <1>2, <1>9, <2>1, <2>2 DEF FilesOK, TypeOK
  <2>6. PointersOK'
    BY <1>0, <1>1, <2>1, <2>4, PointersStand
  <2>7. CallsOK'
    <3>1. PICK d \in PublishCalls : /\ d.at = "linked" /\ writer' = [writer EXCEPT ![w] = d]
                                     /\ d.spec = s /\ d.seen = c.seen
      BY <1>3, <2>1 DEF PutLabels
    <3>2. links'[s] = 2
      BY <1>0, <1>1, <1>2, <2>1 DEF TypeOK
    <3> QED
      BY <1>0, <1>1, <2>1, <2>3, <2>4, <3>1, <3>2, PutGoes DEF PutLabels
  <2> QED
    BY <1>4, <2>3, <2>5, <2>6, <2>7 DEF FilesInv
<1>10. CASE LinkObject(w) /\ links[s] # 0
  <2>1. c.at = "synced" /\ Goes(w, "unlinked") /\ UNCHANGED <<links, body, dir, disk, lock>>
    BY <1>0, <1>10 DEF LinkObject, At
  <2>2. links'[s] = 1
    <3>1. links[s] # 2 /\ links[s] \in 0 .. 2
      BY <1>0, <1>1, <1>2, <2>1 DEF Knows, TypeOK
    <3> QED
      BY <1>10, <2>1, <3>1
  <2>3. TypeOK'
    BY <1>0, <1>1, <1>2, <2>1 DEF TypeOK
  <2>4. KeptGrows
    BY <2>1 DEF KeptGrows, Kept
  <2>5. FilesOK'
    BY <1>0, <1>2, <2>1 DEF FilesOK
  <2>6. PointersOK'
    BY <1>0, <1>1, <2>1, <2>4, PointersStand
  <2>7. CallsOK'
    <3>1. PICK d \in PublishCalls : /\ d.at = "unlinked" /\ writer' = [writer EXCEPT ![w] = d]
                                     /\ d.spec = s /\ d.seen = c.seen
      BY <1>3, <2>1 DEF PutLabels
    <3> QED
      BY <1>0, <1>1, <2>1, <2>2, <2>3, <2>4, <3>1, PutGoes DEF PutLabels
  <2> QED
    BY <1>4, <2>3, <2>5, <2>6, <2>7 DEF FilesInv
<1>11. CASE UnlinkTemporary(w)
  <2>1. /\ c.at = "linked" /\ Goes(w, "unlinked") /\ links' = [links EXCEPT ![s] = 1]
        /\ UNCHANGED <<dir, body, disk, lock>>
    BY <1>0, <1>11 DEF UnlinkTemporary, At
  <2>2. links[s] = 2
    BY <1>0, <1>2, <2>1 DEF Knows
  <2>3. TypeOK'
    BY <1>0, <1>1, <1>2, <2>1 DEF TypeOK
  <2>4. KeptGrows
    BY <1>0, <1>2, <2>1 DEF KeptGrows, Kept, TypeOK
  <2>5. FilesOK'
    BY <1>0, <1>1, <1>2, <2>1, <2>2 DEF FilesOK, TypeOK
  <2>6. PointersOK'
    BY <1>0, <1>1, <2>1, <2>4, PointersStand
  <2>7. CallsOK'
    <3>1. PICK d \in PublishCalls : /\ d.at = "unlinked" /\ writer' = [writer EXCEPT ![w] = d]
                                     /\ d.spec = s /\ d.seen = c.seen
      BY <1>3, <2>1 DEF PutLabels
    <3>2. links'[s] = 1
      BY <1>0, <1>1, <1>2, <2>1 DEF TypeOK
    <3> QED
      BY <1>0, <1>1, <2>1, <2>3, <2>4, <3>1, <3>2, PutGoes DEF PutLabels
  <2> QED
    BY <1>4, <2>3, <2>5, <2>6, <2>7 DEF FilesInv
<1>12. CASE SyncLink(w)
  <2>1. c.at = "unlinked" /\ SyncObjects /\ Goes(w, "kept") /\ UNCHANGED <<dir, links, body, lock>>
    BY <1>12 DEF SyncLink, At, named
  <2>2. /\ disk' \in [pointer : Documents, dir : BOOLEAN, links : [Ids -> 0 .. 2]]
        /\ disk'.pointer = disk.pointer /\ disk'.dir = disk.dir /\ disk'.links = links
    BY <1>0, <1>2, <2>1, DiskFields
  <2>3. TypeOK'
    BY <1>0, <1>1, <1>2, <2>1, <2>2 DEF TypeOK
  <2>4. KeptGrows
    BY <2>1, <2>2 DEF KeptGrows, Kept
  <2>5. FilesOK'
    BY <1>0, <1>2, <2>1, <2>2 DEF FilesOK, TypeOK
  <2>6. PointersOK'
    BY <1>0, <1>1, <2>1, <2>2, <2>4, PointersStand
  <2>7. CallsOK'
    <3>1. PICK d \in PublishCalls : /\ d.at = "kept" /\ writer' = [writer EXCEPT ![w] = d]
                                     /\ d.spec = s /\ d.seen = c.seen
      BY <1>3, <2>1 DEF PutLabels
    <3>2. Kept(s)'
      <4>1. links[s] = 1 /\ dir
        BY <1>0, <1>1, <1>2, <2>1 DEF Knows
      <4> QED
        BY <1>0, <1>1, <1>2, <2>1, <2>2, <4>1 DEF Kept, FilesOK
    <3> QED
      BY <1>0, <1>1, <2>1, <2>3, <2>4, <3>1, <3>2, PutGoes DEF PutLabels
  <2> QED
    BY <1>4, <2>3, <2>5, <2>6, <2>7 DEF FilesInv
<1>13. CASE ReadBack(w)
  <2>1. /\ c.at = "kept" /\ lock' = None /\ UNCHANGED <<dir, links, body, disk>>
        /\ IF Readable(s) THEN Goes(w, "stored") ELSE Fails(w)
    BY <1>0, <1>13 DEF ReadBack, At, Unlocks, named
  <2>2. Kept(s)
    BY <1>0, <1>2, <2>1 DEF Knows
  <2>3. Goes(w, "stored")
    BY <2>1, <2>2 DEF Kept, Readable
  <2>4. TypeOK'
    BY <1>0, <1>1, <1>2, <2>1 DEF TypeOK
  <2>5. KeptGrows /\ Kept(s)'
    BY <2>1, <2>2 DEF KeptGrows, Kept
  <2>6. FilesOK'
    BY <1>0, <1>2, <2>1 DEF FilesOK
  <2>7. PointersOK'
    BY <1>0, <1>1, <2>1, <2>5, PointersStand
  <2>8. CallsOK'
    <3>1. PICK d \in PublishCalls : /\ d.at = "stored" /\ writer' = [writer EXCEPT ![w] = d]
                                     /\ d.spec = s /\ d.seen = c.seen
      BY <1>3, <2>3
    <3> QED
      BY <1>0, <1>1, <2>1, <2>4, <2>5, <3>1, PutGoes
  <2> QED
    BY <1>4, <2>4, <2>6, <2>7, <2>8 DEF FilesInv
<1> QED
  BY <1>5, <1>6, <1>7, <1>8, <1>9, <1>10, <1>11, <1>12, <1>13 DEF Put

--------------------------------------------------------------------------------
\* The calls on the pointer.

\* A call that has just begun, of any kind.
LEMMA CallBegins ==
  ASSUME FilesInv, NEW w \in Writers,
         CallClear(w) \/ CallRestore(w) \/ \E s \in Ids : CallPublish(w, s)
  PROVE  FilesInv'
<1>1. /\ UNCHANGED <<pointer, dir, links, body, disk, lock, journal, reader, acked, losses>>
      /\ TypeOK' /\ FilesOK' /\ JournalOK' /\ losses' \in Nat
  BY DEF CallClear, CallRestore, CallPublish, named, past, FilesInv, TypeOK, FilesOK, JournalOK
<1>2. /\ pointer \in Documents /\ pointer.by = 0 /\ pointer.generation \in Nat
      /\ writer \in [Writers -> Calls \union {Idle}]
  BY DocumentFields DEF FilesInv, TypeOK, PointersOK, CallsOK
<1>3. Grows /\ NotAfter(pointer, pointer) /\ \A v \in Writers : Undisturbed(v)
  BY <1>1, <1>2 DEF Grows, KeptGrows, Kept, NotAfter, Undisturbed
<1>4. PointersOK'
  BY <1>1, <1>3, PointersStand DEF Grows
<1>5. ASSUME NEW d \in Calls, writer' = [writer EXCEPT ![w] = d], Knows(w)',
             d.seen.by = 0, d.seen.generation < MaxGeneration
      PROVE  CallsOK'
  BY <1>1, <1>3, <1>5, CallsStep
<1>6. ASSUME NEW s \in Ids, CallPublish(w, s)
      PROVE  CallsOK'
  <2>1. PICK d \in PublishCalls :
          /\ writer' = [writer EXCEPT ![w] = d] /\ d.at = "put" /\ d.seen = pointer
          /\ pointer.generation < MaxGeneration
    <3> DEFINE d == [at |-> "put", kind |-> "publish", spec |-> s, seen |-> pointer,
                     temp |-> "absent"]
    <3>1. d \in PublishCalls
      BY <1>2 DEF PublishCalls, PutLabels
    <3>2. writer' = [writer EXCEPT ![w] = d] /\ pointer.generation < MaxGeneration
      BY <1>6 DEF CallPublish
    <3>3. d.at = "put" /\ d.seen = pointer
      OBVIOUS
    <3> QED
      BY <3>1, <3>2, <3>3
  <2>2. d \in Calls /\ d \notin RestoreCalls /\ writer'[w] = d
    BY <1>2, <2>1, CallFields DEF Calls
  <2>3. Knows(w)'
    BY <1>1, <1>3, <2>1, <2>2 DEF Knows, Holding, PutLabels, PointerLabels
  <2>4. /\ d.seen.by = 0 /\ d.seen.generation < MaxGeneration
        /\ d \in Calls
    BY <1>2, <2>1, <2>2
  <2> QED
    BY <1>5, <2>1, <2>3, <2>4
<1>7. CASE CallClear(w)
  <2>1. PICK d \in ClearCalls :
          /\ writer' = [writer EXCEPT ![w] = d] /\ d.at = "stored" /\ d.seen = pointer
          /\ pointer.generation < MaxGeneration
    <3> DEFINE d == [at |-> "stored", kind |-> "clear", spec |-> 0, seen |-> pointer]
    <3>1. d \in ClearCalls
      BY <1>2 DEF ClearCalls, PointerLabels
    <3>2. writer' = [writer EXCEPT ![w] = d] /\ pointer.generation < MaxGeneration
      BY <1>7 DEF CallClear
    <3>3. d.at = "stored" /\ d.seen = pointer
      OBVIOUS
    <3> QED
      BY <3>1, <3>2, <3>3
  <2>2. d \in Calls /\ d \notin RestoreCalls /\ d \notin PublishCalls /\ writer'[w] = d
    BY <1>2, <2>1, CallFields DEF Calls
  <2>3. Knows(w)'
    BY <1>1, <1>3, <2>1, <2>2 DEF Knows, Holding, PutLabels, PointerLabels
  <2>4. /\ d.seen.by = 0 /\ d.seen.generation < MaxGeneration
        /\ d \in Calls
    BY <1>2, <2>1, <2>2
  <2> QED
    BY <1>1, <1>4, <1>5, <2>1, <2>3, <2>4 DEF FilesInv
<1>8. CASE CallRestore(w)
  <2>1. /\ journal[w] \in Changes
        /\ Follows(journal[w].after, journal[w].before)
        /\ journal[w].after.by = 0
    BY <1>8 DEF CallRestore, FilesInv, JournalOK
  <2>2. /\ journal[w].before \in Documents /\ journal[w].after \in Documents
        /\ journal[w].before.active \in Ids \union {0}
    BY <2>1, DocumentFields DEF Changes
  <2>3. PICK d \in RestoreCalls :
          /\ writer' = [writer EXCEPT ![w] = d] /\ d.at = "stored"
          /\ d.seen = journal[w].after /\ d.predecessor = journal[w].before
          /\ d.spec = journal[w].before.active
          /\ journal[w].after.generation < MaxGeneration
    BY <1>8, <2>2 DEF CallRestore, RestoreCalls, PointerLabels
  <2>4. d \in Calls /\ d \notin ClearCalls /\ d \notin PublishCalls /\ writer'[w] = d
    BY <1>2, <2>3, CallFields DEF Calls
  <2>5. Knows(w)'
    BY <2>1, <2>3, <2>4 DEF Knows, Holding, PutLabels, PointerLabels
  <2>6. /\ d.seen.by = 0 /\ d.seen.generation < MaxGeneration
        /\ d \in Calls
    BY <2>1, <2>3, <2>4
  <2> QED
    BY <1>1, <1>4, <1>5, <2>3, <2>5, <2>6 DEF FilesInv
<1> QED
  BY <1>1, <1>4, <1>6, <1>7, <1>8 DEF FilesInv

\* A generation and an active spec name one pointer: the compare that they pass
\* is one of the whole pointer.
LEMMA AllowedIsExact ==
  ASSUME FilesInv, NEW w \in Writers, At(w, "stored"), Allowed(w)
  PROVE  LET c == writer[w] IN
         /\ c \in Calls /\ c.seen = pointer
         /\ ValidPointer(Successor(pointer, c.spec, 0))
         /\ c.spec # 0 => Kept(c.spec)
<1> DEFINE c == writer[w]
<1>1. c \in Calls /\ Knows(w) /\ c.at = "stored"
  BY DEF FilesInv, CallsOK, At, Idle
<1>2. pointer \in Documents /\ pointer.by = 0 /\ PointersOK
  BY DEF FilesInv, TypeOK, PointersOK
<1>3. CASE c \in PublishCalls
  <2>1. c.kind = "publish"
    BY <1>1, <1>3, CallFields
  <2>2. CanPublish(pointer, Objects, c.spec, c.seen.generation, c.seen.active)
    BY <2>1 DEF Allowed
  <2>3. NotAfter(c.seen, pointer) /\ Kept(c.spec)
    BY <1>1, <1>3 DEF Knows, PointerLabels
  <2> QED
    BY <1>1, <2>2, <2>3 DEF CanPublish, AssertCas, NotAfter
<1>4. CASE c \in ClearCalls
  <2>1. c.kind = "clear" /\ c.spec = 0
    BY <1>4 DEF ClearCalls
  <2>2. CanClear(pointer, Objects, c.seen.generation, c.seen.active)
    BY <2>1 DEF Allowed
  <2>3. NotAfter(c.seen, pointer)
    BY <1>1, <1>4 DEF Knows
  <2> QED
    BY <1>1, <2>1, <2>2, <2>3 DEF CanClear, AssertCas, NotAfter
<1>5. CASE c \in RestoreCalls
  <2>1. c.kind = "restore" /\ c.seen \in Documents
    BY <1>5 DEF RestoreCalls
  <2>2. CanRestore(pointer, Objects, c.predecessor, c.seen.generation, c.seen.active)
    BY <2>1 DEF Allowed
  <2>3. /\ Follows(c.seen, c.predecessor) /\ c.spec = c.predecessor.active
        /\ c.seen.by = 0
    BY <1>1, <1>5, CallFields DEF Knows, FilesInv, CallsOK
  <2>4. c.seen = pointer
    BY <1>2, <2>1, <2>2, <2>3, SameDocument DEF CanRestore, AssertCas, Follows
  <2>5. c.spec # 0 => c.spec \in NamedBy(pointer)
    BY <2>2, <2>3 DEF CanRestore, NamedBy
  <2> QED
    BY <1>1, <1>2, <2>2, <2>3, <2>4, <2>5 DEF CanRestore, PointersOK
<1> QED
  BY <1>1, <1>3, <1>4, <1>5 DEF Calls

LEMMA CompareKeeps ==
  ASSUME FilesInv, NEW w \in Writers, Compare(w)
  PROVE  FilesInv'
<1>1. /\ UNCHANGED <<pointer, dir, links, body, disk, journal, reader, acked, losses>>
      /\ FilesOK' /\ JournalOK' /\ losses' \in Nat
  BY DEF Compare, named, past, FilesInv, FilesOK, JournalOK
<1>2. TypeOK'
  BY <1>1 DEF Compare, Fails, FilesInv, TypeOK
<1>3. /\ pointer \in Documents /\ pointer.generation \in Nat
      /\ writer \in [Writers -> Calls \union {Idle}]
  BY DocumentFields DEF FilesInv, TypeOK, CallsOK
<1>4. Grows
  BY <1>1, <1>3 DEF Grows, KeptGrows, Kept, NotAfter
<1>5. \A v \in Writers \ {w} : Undisturbed(v)
  BY <1>1, NoneAssumption DEF Compare, Undisturbed
<1>6. PointersOK'
  BY <1>1, <1>4, PointersStand DEF Grows
<1>7. CASE Allowed(w)
  <2> DEFINE c == writer[w]
  <2>1. /\ c \in Calls /\ c.at = "stored" /\ c.seen = pointer
        /\ ValidPointer(Successor(pointer, c.spec, 0))
        /\ c.spec # 0 => Kept(c.spec)
    BY <1>7, AllowedIsExact DEF Compare, At
  <2>2. PICK d \in Calls :
          /\ writer' = [writer EXCEPT ![w] = d] /\ d.at = "compared"
          /\ d.kind = c.kind /\ d.spec = c.spec /\ d.seen = c.seen
          /\ c \in RestoreCalls => d.predecessor = c.predecessor
    <3>1. writer' = [writer EXCEPT ![w] = [c EXCEPT !.at = "compared"]]
      BY <1>7 DEF Compare, Goes
    <3> QED
      BY <2>1, <3>1, CallGoes DEF PointerLabels
  <2>3. /\ d \in PublishCalls <=> c \in PublishCalls
        /\ d \in ClearCalls <=> c \in ClearCalls
        /\ d \in RestoreCalls <=> c \in RestoreCalls
        /\ d # Idle /\ c # Idle
    BY <2>1, <2>2, CallFields
  <2>4. writer'[w] = d /\ lock' = w
    BY <1>3, <1>7, <2>2 DEF Compare
  <2>5. Knows(w)
    BY DEF FilesInv, CallsOK
  <2>6. d \in PublishCalls => Kept(d.spec)
    BY <2>1, <2>2, <2>3, <2>5 DEF Knows, PointerLabels
  <2>7. /\ d \in PublishCalls \union ClearCalls => NotAfter(d.seen, pointer)
        /\ d \in RestoreCalls => Follows(d.seen, d.predecessor)
                                 /\ d.spec = d.predecessor.active
    BY <2>1, <2>2, <2>3, <2>5 DEF Knows
  <2>8. Kept(d.spec) => Kept(d.spec)'
    BY <1>1 DEF Kept
  <2>9. Knows(w)'
    BY <1>1, <2>1, <2>2, <2>4, <2>6, <2>7, <2>8 DEF Knows, PutLabels
  <2>10. d.seen.by = 0 /\ d.seen.generation < MaxGeneration
    BY <2>2, <2>3 DEF FilesInv, CallsOK
  <2> QED
    BY <1>1, <1>2, <1>4, <1>5, <1>6, <2>2, <2>9, <2>10, CallsStep DEF FilesInv
<1>8. CASE ~Allowed(w)
  <2>1. writer' = [writer EXCEPT ![w] = Idle]
    BY <1>8 DEF Compare, Fails
  <2>2. CallsOK'
    BY <1>2, <1>4, <1>5, <2>1, CallsStep
  <2> QED
    BY <1>1, <1>2, <1>6, <2>2 DEF FilesInv
<1> QED
  BY <1>7, <1>8

\* The successor of a document, of the next generation and after it.
LEMMA SuccessorAfter ==
  ASSUME NEW p \in Documents, p.generation < MaxGeneration, NEW s \in Ids \union {0}
  PROVE  /\ Successor(p, s, 0) \in Documents
         /\ NotAfter(p, Successor(p, s, 0))
         /\ Successor(p, s, 0).by = 0
         /\ Follows(Successor(p, s, 0), p)
         /\ NamedBy(Successor(p, s, 0)) = {s, p.active} \ {0}
<1>1. /\ p.generation \in 0 .. MaxGeneration /\ p.generation + 1 \in 0 .. MaxGeneration
      /\ p.generation <= p.generation + 1 /\ p.generation # p.generation + 1
      /\ p.active \in Ids \union {0}
  BY BoundsAssumption, DocumentFields
<1> QED
  BY <1>1 DEF Successor, Documents, PointerDocs, NotAfter, Follows, NamedBy

\* What the replacement of the pointer does, of whatever call.
LEMMA ReplaceIsExact ==
  ASSUME FilesInv, NEW w \in Writers, Replace(w)
  PROVE  /\ At(w, "compared") /\ lock = w
         /\ writer[w] \in Calls /\ writer[w].seen = pointer
         /\ pointer' = Successor(pointer, writer[w].spec, 0)
         /\ ValidPointer(pointer')
         /\ pointer' \in Documents /\ NotAfter(pointer, pointer') /\ pointer'.by = 0
         /\ pointer.generation < MaxGeneration
         /\ \A s \in NamedBy(pointer') : Kept(s)
<1> DEFINE c == writer[w]
<1>1. c.at = "compared" /\ Knows(w) /\ c \in Calls \union {Idle}
  BY DEF Replace, At, FilesInv, CallsOK
<1>2. c \in Calls /\ c # Idle /\ c.spec \in Ids \union {0}
  BY <1>1, CallFields DEF Idle
<1>3. /\ lock = w /\ c.seen = pointer /\ ValidPointer(Successor(pointer, c.spec, 0))
      /\ c.spec # 0 => Kept(c.spec)
  BY <1>1 DEF Knows, Holding
<1>4. pointer' = Successor(pointer, c.spec, 0)
  BY <1>3 DEF Replace, Successor
<1>5. pointer.generation < MaxGeneration /\ pointer \in Documents
  BY <1>2, <1>3 DEF FilesInv, CallsOK, TypeOK
<1>6. \A s \in {c.spec, pointer.active} \ {0} : Kept(s)
  BY <1>3 DEF FilesInv, PointersOK, NamedBy
<1> QED
  BY <1>1, <1>2, <1>3, <1>4, <1>5, <1>6, SuccessorAfter DEF At

LEMMA ReplaceKeeps ==
  ASSUME FilesInv, NEW w \in Writers, Replace(w)
  PROVE  FilesInv'
<1> DEFINE c == writer[w]
<1>1. UNCHANGED <<dir, links, body, disk, lock, reader, acked, losses>>
  BY DEF Replace, past
<1>2. /\ c.at = "compared" /\ lock = w /\ c \in Calls /\ c.seen = pointer
      /\ pointer' = Successor(pointer, c.spec, 0)
      /\ pointer' \in Documents /\ NotAfter(pointer, pointer') /\ pointer'.by = 0
      /\ pointer.generation < MaxGeneration
      /\ \A s \in NamedBy(pointer') : Kept(s)
  BY ReplaceIsExact DEF At
<1>3. TypeOK' /\ FilesOK' /\ losses' \in Nat
  BY <1>1, <1>2 DEF FilesInv, TypeOK, FilesOK
<1>4. Grows /\ \A v \in Writers \ {w} : Undisturbed(v)
  BY <1>1, <1>2 DEF Grows, KeptGrows, Kept, Undisturbed
<1>5. /\ writer \in [Writers -> Calls \union {Idle}] /\ PointersOK
      /\ pointer \in Documents /\ disk.pointer \in Documents /\ acked \in Documents
  BY DiskFields DEF FilesInv, CallsOK, TypeOK
<1>6. PointersOK'
  <2>1. NotAfter(disk.pointer, pointer')
    BY <1>2, <1>5, NotAfterTransitive DEF PointersOK
  <2>2. \A s : Kept(s) => Kept(s)'
    BY <1>1 DEF Kept
  <2> QED
    BY <1>1, <1>2, <1>5, <2>1, <2>2 DEF PointersOK
<1>7. CallsOK'
  <2>1. PICK d \in Calls :
          /\ writer' = [writer EXCEPT ![w] = d] /\ d.at = "replaced"
          /\ d.kind = c.kind /\ d.spec = c.spec /\ d.seen = c.seen
          /\ c \in RestoreCalls => d.predecessor = c.predecessor
    BY <1>2, CallGoes DEF Replace, Goes, PointerLabels
  <2>2. /\ d \in PublishCalls <=> c \in PublishCalls
        /\ d \in ClearCalls <=> c \in ClearCalls
        /\ d \in RestoreCalls <=> c \in RestoreCalls
        /\ c # Idle
    BY <1>2, <2>1, CallFields
  <2>3. writer'[w] = d /\ lock' = w /\ Knows(w)
    BY <1>1, <1>2, <1>5, <2>1 DEF FilesInv, CallsOK
  <2>4. d \in PublishCalls => Kept(d.spec)'
    BY <1>1, <1>2, <2>1, <2>2, <2>3 DEF Knows, PointerLabels, Kept
  <2>5. NotAfter(d.seen, pointer')
    BY <1>2, <2>1
  <2>6. d \in RestoreCalls => Follows(d.seen, d.predecessor) /\ d.spec = d.predecessor.active
    BY <2>1, <2>2, <2>3 DEF Knows
  <2>7. Knows(w)'
    BY <2>1, <2>3, <2>4, <2>5, <2>6 DEF Knows, PutLabels
  <2>8. d.seen.by = 0 /\ d.seen.generation < MaxGeneration
    BY <2>1, <2>2 DEF FilesInv, CallsOK
  <2> QED
    BY <1>3, <1>4, <2>1, <2>7, <2>8, CallsStep
<1>8. JournalOK'
  <2>1. c.spec \in Ids \union {0} /\ journal \in [Writers -> Changes \union {Idle}]
    BY <1>2, CallFields DEF FilesInv, JournalOK
  <2>2. journal' = [journal EXCEPT ![w] = [before |-> pointer, after |-> pointer']]
    BY <1>2 DEF Replace
  <2>3. [before |-> pointer, after |-> pointer'] \in Changes
    BY <1>2, <1>5 DEF Changes
  <2>4. Follows(pointer', pointer)
    BY <1>2, <1>5, <2>1, SuccessorAfter
  <2> QED
    BY <1>2, <2>1, <2>2, <2>3, <2>4 DEF FilesInv, JournalOK
<1> QED
  BY <1>3, <1>6, <1>7, <1>8 DEF FilesInv

LEMMA ReturnKeeps ==
  ASSUME FilesInv, NEW w \in Writers, Return(w)
  PROVE  FilesInv'
<1>1. /\ UNCHANGED <<pointer, dir, links, body, journal, reader, losses>>
      /\ SyncState /\ acked' = pointer /\ lock' = None
      /\ writer' = [writer EXCEPT ![w] = Idle]
  BY DEF Return, named, Fails, Unlocks
<1>2. /\ disk' \in [pointer : Documents, dir : BOOLEAN, links : [Ids -> 0 .. 2]]
      /\ disk'.pointer = pointer /\ disk'.dir = dir /\ disk'.links = disk.links
  BY <1>1, DiskFields DEF FilesInv
<1>3. TypeOK' /\ FilesOK' /\ JournalOK' /\ losses' \in Nat
  BY <1>1, <1>2 DEF FilesInv, TypeOK, FilesOK, JournalOK
<1>4. /\ lock = w /\ pointer \in Documents /\ pointer.generation \in Nat
      /\ PointersOK
  BY DocumentFields DEF FilesInv, CallsOK, Knows, Return, At, Holding, TypeOK
<1>5. Grows /\ \A v \in Writers \ {w} : Undisturbed(v)
  BY <1>1, <1>2, <1>4 DEF Grows, KeptGrows, Kept, NotAfter, Undisturbed
<1>6. PointersOK'
  <2>1. \A s : Kept(s) => Kept(s)' /\ dir
    BY <1>1, <1>2 DEF Kept
  <2>2. NotAfter(pointer, pointer)
    BY <1>4 DEF NotAfter
  <2> QED
    BY <1>1, <1>2, <1>4, <2>1, <2>2 DEF PointersOK
<1>7. CallsOK'
  BY <1>1, <1>3, <1>5, CallsStep
<1> QED
  BY <1>3, <1>6, <1>7 DEF FilesInv

--------------------------------------------------------------------------------
\* Failures, the kernel and the readers.

LEMMA KilledKeeps ==
  ASSUME FilesInv, NEW w \in Writers, Killed(w)
  PROVE  FilesInv'
<1>1. /\ UNCHANGED <<pointer, dir, links, body, disk, journal, reader, acked, losses>>
      /\ writer' = [writer EXCEPT ![w] = Idle]
      /\ lock' = IF lock = w THEN None ELSE lock
  BY DEF Killed, Fails, named
<1>2. TypeOK' /\ FilesOK' /\ JournalOK' /\ losses' \in Nat
  BY <1>1 DEF FilesInv, TypeOK, FilesOK, JournalOK
<1>3. pointer \in Documents /\ pointer.generation \in Nat
  BY DocumentFields DEF FilesInv, TypeOK
<1>4. Grows /\ \A v \in Writers \ {w} : Undisturbed(v)
  BY <1>1, <1>3 DEF Grows, KeptGrows, Kept, NotAfter, Undisturbed
<1>5. PointersOK'
  BY <1>1, <1>4, PointersStand DEF Grows
<1>6. CallsOK'
  BY <1>1, <1>2, <1>4, CallsStep
<1> QED
  BY <1>2, <1>5, <1>6 DEF FilesInv

\* A step that is none of a writer's.
LEMMA NobodyCalls ==
  ASSUME FilesInv, TypeOK', UNCHANGED <<writer, lock, pointer, links>>, Grows
  PROVE  CallsOK'
<1>1. \A v \in Writers : Undisturbed(v)
  BY DEF Undisturbed
<1>2. \A v \in Writers : Knows(v)'
  BY <1>1, KnowsStands
<1> QED
  BY <1>2 DEF FilesInv, CallsOK

LEMMA ReaderKeeps ==
  ASSUME FilesInv, NEW r \in Readers, ReadPointer(r) \/ ReadSpec(r)
  PROVE  FilesInv'
<1>1. UNCHANGED <<pointer, dir, links, body, disk, lock, writer, journal, acked, losses>>
  BY DEF ReadPointer, ReadSpec, named, past
<1>2. /\ pointer \in Documents /\ pointer.generation \in Nat
      /\ pointer.active \in Ids \union {0} /\ PointersOK
      /\ reader \in [Readers -> Ids \union {0}]
  BY DocumentFields DEF FilesInv, TypeOK
<1>3. PICK s \in {0, pointer.active} : reader' = [reader EXCEPT ![r] = s]
  BY DEF ReadPointer, ReadSpec
<1>4. TypeOK' /\ FilesOK' /\ JournalOK' /\ losses' \in Nat
  BY <1>1, <1>2, <1>3 DEF FilesInv, TypeOK, FilesOK, JournalOK
<1>5. Grows
  BY <1>1, <1>2 DEF Grows, KeptGrows, Kept, NotAfter
<1>6. PointersOK'
  <2>1. s # 0 => Kept(s)
    BY <1>2, <1>3 DEF PointersOK, NamedBy
  <2>2. \A t : Kept(t) => Kept(t)'
    BY <1>1 DEF Kept
  <2> QED
    BY <1>1, <1>2, <1>3, <2>1, <2>2 DEF PointersOK
<1> QED
  BY <1>1, <1>4, <1>5, <1>6, NobodyCalls DEF FilesInv

LEMMA WriteBackKeeps ==
  ASSUME FilesInv, WriteBackState \/ \E s \in Ids : WriteBackLink(s)
  PROVE  FilesInv'
<1>1. UNCHANGED <<pointer, dir, links, body, lock, writer, journal, reader, acked, losses>>
  BY DEF WriteBackState, WriteBackLink, named, past
<1>2. /\ pointer \in Documents /\ pointer.generation \in Nat
      /\ links \in [Ids -> 0 .. 2] /\ disk.links \in [Ids -> 0 .. 2]
      /\ disk.dir => dir
  BY DocumentFields DEF FilesInv, TypeOK, FilesOK
<1>3. ASSUME KeptGrows, TypeOK', FilesOK', PointersOK'
      PROVE  FilesInv'
  <2>1. Grows
    BY <1>1, <1>2, <1>3 DEF Grows, NotAfter
  <2>2. JournalOK' /\ losses' \in Nat
    BY <1>1 DEF FilesInv, JournalOK
  <2> QED
    BY <1>1, <1>3, <2>1, <2>2, NobodyCalls DEF FilesInv
<1>4. CASE WriteBackState
  <2>1. /\ disk' \in [pointer : Documents, dir : BOOLEAN, links : [Ids -> 0 .. 2]]
        /\ disk'.pointer = pointer /\ disk'.dir = dir /\ disk'.links = disk.links
    BY <1>4, DiskFields DEF FilesInv, WriteBackState
  <2>2. KeptGrows
    BY <1>1, <2>1 DEF KeptGrows, Kept
  <2>3. TypeOK' /\ FilesOK'
    BY <1>1, <2>1 DEF FilesInv, TypeOK, FilesOK
  <2>4. PointersOK'
    BY <1>1, <1>2, <2>1, <2>2, PointersStand
  <2> QED
    BY <1>3, <2>2, <2>3, <2>4
<1>5. ASSUME NEW s \in Ids, WriteBackLink(s)
      PROVE  FilesInv'
  <2> DEFINE n == IF disk.links[s] = 0 THEN 2 ELSE links[s]
  <2>1. disk' = [disk EXCEPT !.links = [disk.links EXCEPT ![s] = n]]
    BY <1>5 DEF WriteBackLink, FilesInv, TypeOK
  <2>2. /\ disk' \in [pointer : Documents, dir : BOOLEAN, links : [Ids -> 0 .. 2]]
        /\ disk'.pointer = disk.pointer /\ disk'.dir = disk.dir
        /\ disk'.links = [disk.links EXCEPT ![s] = n]
    BY <1>2, <2>1, DiskFields DEF FilesInv, TypeOK
  <2>3. disk.links[s] # links[s]
    BY <1>5 DEF WriteBackLink
  <2>4. KeptGrows
    BY <1>1, <1>2, <2>2, <2>3 DEF KeptGrows, Kept
  <2>5. TypeOK'
    BY <1>1, <2>2 DEF FilesInv, TypeOK
  <2>6. FilesOK'
    BY <1>1, <1>2, <2>2, <2>3 DEF FilesInv, FilesOK
  <2>7. PointersOK'
    BY <1>1, <2>2, <2>4, PointersStand
  <2> QED
    BY <1>3, <2>4, <2>5, <2>6, <2>7
<1> QED
  BY <1>4, <1>5

\* After a power failure there are no calls, and the disk is all there is.
LEMMA PowerKeeps ==
  ASSUME FilesInv, PowerFails
  PROVE  FilesInv'
<1> DEFINE left == [s \in Ids |-> IF disk.dir THEN disk.links[s] ELSE 0]
<1>1. /\ links' = left /\ disk' = [disk EXCEPT !.links = left]
      /\ body' = [s \in Ids |-> IF left[s] = 0 THEN "absent"
                                ELSE IF body[s] = "cached" THEN "torn" ELSE body[s]]
      /\ pointer' = disk.pointer /\ dir' = disk.dir /\ lock' = None
      /\ writer' = [w \in Writers |-> Idle] /\ reader' = [r \in Readers |-> 0]
      /\ UNCHANGED <<journal, acked>> /\ losses' = losses + 1
  BY DEF PowerFails
<1>2. TypeOK /\ FilesOK /\ PointersOK
  BY DEF FilesInv
<1>3. /\ disk.pointer \in Documents /\ disk.dir \in BOOLEAN
      /\ disk.links \in [Ids -> 0 .. 2]
      /\ NamedBy(disk.pointer) \subseteq Ids /\ disk.pointer.generation \in Nat
  BY <1>2, DiskFields, DocumentFields
<1>4. left \in [Ids -> 0 .. 2]
  BY <1>3
<1>5. /\ disk' \in [pointer : Documents, dir : BOOLEAN, links : [Ids -> 0 .. 2]]
      /\ disk'.pointer = disk.pointer /\ disk'.dir = disk.dir /\ disk'.links = left
  BY <1>1, <1>2, <1>4 DEF TypeOK
<1>6. body' \in [Ids -> {"absent", "cached", "synced", "torn"}]
  BY <1>1, <1>2 DEF TypeOK
<1>7. TypeOK'
  BY <1>1, <1>2, <1>3, <1>4, <1>5, <1>6, NoneAssumption DEF TypeOK
<1>8. FilesOK'
  BY <1>1, <1>2, <1>3, <1>5 DEF FilesOK, TypeOK
<1>9. PointersOK'
  <2>1. \A s \in NamedBy(disk.pointer) : Kept(s)' /\ disk'.dir
    BY <1>1, <1>2, <1>3, <1>5 DEF PointersOK, Kept
  <2>2. NotAfter(acked, disk.pointer) /\ NotAfter(disk.pointer, disk.pointer)
    BY <1>2, <1>3 DEF PointersOK, NotAfter
  <2>3. disk.pointer.by = 0
    BY <1>2 DEF PointersOK
  <2> QED
    BY <1>1, <1>5, <2>1, <2>2, <2>3 DEF PointersOK
<1>10. CallsOK'
  <2>1. Idle.at = "idle" /\ Idle \notin Calls
    BY CallFields DEF Idle
  <2> QED
    BY <1>1, <2>1 DEF CallsOK, Knows, Holding, PutLabels, PointerLabels, Calls
<1>11. JournalOK' /\ losses' \in Nat
  BY <1>1 DEF FilesInv, JournalOK
<1> QED
  BY <1>7, <1>8, <1>9, <1>10, <1>11 DEF FilesInv

--------------------------------------------------------------------------------
\* The theorems.

LEMMA FilesInit == Init => FilesInv
<1> SUFFICES ASSUME Init PROVE FilesInv
  OBVIOUS
<1>1. /\ pointer = NoPointer /\ dir = FALSE /\ links = [s \in Ids |-> 0]
      /\ body = [s \in Ids |-> "absent"] /\ lock = None
      /\ disk = [pointer |-> NoPointer, dir |-> FALSE, links |-> [s \in Ids |-> 0]]
      /\ writer = [w \in Writers |-> Idle] /\ journal = [w \in Writers |-> Idle]
      /\ reader = [r \in Readers |-> 0] /\ acked = NoPointer /\ losses = 0
  BY DEF Init
<1>2. NoPointer \in Documents /\ NoPointer.generation = 0 /\ NoPointer.by = 0
      /\ NamedBy(NoPointer) = {}
  BY BoundsAssumption DEF NoPointer, Documents, PointerDocs, NamedBy
<1>3. TypeOK
  <2>1. [s \in Ids |-> 0] \in [Ids -> 0 .. 2]
    OBVIOUS
  <2>2. disk \in [pointer : Documents, dir : BOOLEAN, links : [Ids -> 0 .. 2]]
    BY <1>1, <1>2, <2>1
  <2> QED
    BY <1>1, <1>2, <2>1, <2>2 DEF TypeOK
<1>4. FilesOK /\ JournalOK
  BY <1>1 DEF FilesOK, JournalOK
<1>5. PointersOK
  BY <1>1, <1>2 DEF PointersOK, NotAfter
<1>6. CallsOK
  <2>1. Idle.at = "idle" /\ Idle \notin Calls
    BY CallFields DEF Idle
  <2> QED
    BY <1>1, <2>1 DEF CallsOK, Knows, Holding, PutLabels, PointerLabels, Calls
<1> QED
  BY <1>1, <1>3, <1>4, <1>5, <1>6 DEF FilesInv

LEMMA FilesInductive == FilesInv /\ [Next]_vars => FilesInv'
<1> SUFFICES ASSUME FilesInv, [Next]_vars PROVE FilesInv'
  OBVIOUS
<1>1. ASSUME NEW w \in Writers,
             \/ \E s \in Ids : CallPublish(w, s)
             \/ CallClear(w) \/ CallRestore(w)
      PROVE  FilesInv'
  BY <1>1, CallBegins
<1>2. ASSUME NEW w \in Writers, Put(w) PROVE FilesInv'
  BY <1>2, PutKeeps
<1>3. ASSUME NEW w \in Writers, Compare(w) \/ Replace(w) \/ Return(w) \/ Killed(w)
      PROVE  FilesInv'
  BY <1>3, CompareKeeps, ReplaceKeeps, ReturnKeeps, KilledKeeps
<1>4. ASSUME NEW r \in Readers, ReadPointer(r) \/ ReadSpec(r) PROVE FilesInv'
  BY <1>4, ReaderKeeps
<1>5. CASE WriteBackState \/ \E s \in Ids : WriteBackLink(s)
  BY <1>5, WriteBackKeeps
<1>6. CASE PowerFails
  BY <1>6, PowerKeeps
<1>7. CASE UNCHANGED vars
  <2>1. UNCHANGED <<pointer, dir, links, body, disk, lock, writer, journal, reader,
                    acked, losses>>
    BY <1>7 DEF vars, named, past
  <2> QED
    BY <2>1 DEF FilesInv, TypeOK, FilesOK, PointersOK, CallsOK, Knows, Kept, JournalOK
<1> QED
  BY <1>1, <1>2, <1>3, <1>4, <1>5, <1>6, <1>7 DEF Next

\* The invariant behind the three properties: the lock, what each call knows, and
\* the disk behind the files.
THEOREM FilesAreSound == Spec => []FilesInv
<1> QED
  BY FilesInit, FilesInductive, PTL DEF Spec

\* A spec that the pointer names, on the disk as in memory, can be read, and a
\* put that got to its read-back does not fail, wherever processes are killed and
\* whenever power fails (put, publish and read_active of RollbackStore).
THEOREM PointerAlwaysResolves == Spec => []PointerResolves
<1>1. FilesInv => PointerResolves
  <2> SUFFICES ASSUME FilesInv PROVE PointerResolves
    OBVIOUS
  <2>1. /\ PointersOK /\ FilesOK /\ \A w \in Writers : Knows(w)
        /\ pointer \in Documents /\ disk.pointer \in Documents
    BY DiskFields DEF FilesInv, CallsOK, TypeOK
  <2>2. NamedBy(pointer) \subseteq Ids
    BY <2>1, DocumentFields
  <2>3. \A s : Kept(s) => Readable(s)
    BY DEF Kept, Readable
  <2>4. NamedBy(pointer) \subseteq Objects
    BY <2>1, <2>2, <2>3 DEF PointersOK, Objects
  <2>5. \A w \in Writers : At(w, "kept") => Readable(writer[w].spec)
    BY <2>1, <2>3 DEF Knows, At
  <2> QED
    BY <2>1, <2>3, <2>4, <2>5 DEF PointersOK, PointerResolves, Kept
<1> QED
  BY <1>1, FilesAreSound, PTL

\* A call that returned is not undone by a power failure (_replace_at syncs the
\* directory of the pointer before publish, clear and restore return).
THEOREM ReturnedIsDurable == Spec => []AckedSurvives
<1>1. FilesInv => AckedSurvives
  <2> SUFFICES ASSUME FilesInv PROVE AckedSurvives
    OBVIOUS
  <2>1. NotAfter(acked, disk.pointer)
    BY DEF FilesInv, PointersOK
  <2>2. acked.generation \in Nat /\ disk.pointer.generation \in Nat
    BY DiskFields, DocumentFields DEF FilesInv, TypeOK
  <2> QED
    BY <2>1, <2>2 DEF NotAfter, AckedSurvives
<1> QED
  BY <1>1, FilesAreSound, PTL

LEMMA CasStep ==
  ASSUME FilesInv, [Next]_vars, pointer' # pointer
  PROVE  \/ \E w \in Writers :
              /\ At(w, "compared")
              /\ writer[w].seen = pointer
              /\ pointer' = Successor(pointer, writer[w].spec, 0)
              /\ ValidPointer(pointer')
         \/ losses' > losses /\ pointer'.generation >= acked.generation
<1>1. PowerFails \/ \E w \in Writers : Replace(w)
  BY DEF Next, vars, named, past, CallPublish, CallClear, CallRestore, Put, OpenObjects,
         SyncMade, CleanInterrupted, WriteTemporary, SyncTemporary, LinkObject,
         UnlinkTemporary, SyncLink, ReadBack, Compare, Return, Killed, ReadPointer,
         ReadSpec, WriteBackState, WriteBackLink
<1>2. ASSUME NEW w \in Writers, Replace(w)
      PROVE  /\ At(w, "compared") /\ writer[w].seen = pointer
             /\ pointer' = Successor(pointer, writer[w].spec, 0)
             /\ ValidPointer(pointer')
  BY <1>2, ReplaceIsExact
<1>3. CASE PowerFails
  <2>1. pointer' = disk.pointer /\ losses' = losses + 1 /\ losses \in Nat
    BY <1>3 DEF PowerFails, FilesInv
  <2>2. NotAfter(acked, disk.pointer)
    BY DEF FilesInv, PointersOK
  <2>3. acked.generation \in Nat /\ disk.pointer.generation \in Nat
    BY DiskFields, DocumentFields DEF FilesInv, TypeOK
  <2> QED
    BY <2>1, <2>2, <2>3 DEF NotAfter
<1> QED
  BY <1>1, <1>2, <1>3

\* A compare of generation and anchor is one of the very pointer the caller had
\* seen, though generations repeat after a power failure (_assert_cas).
THEOREM CasIsAlwaysExact == Spec => CasIsExact
<1>1. FilesInv /\ [Next]_vars =>
        [pointer' # pointer =>
           \/ \E w \in Writers :
                /\ At(w, "compared")
                /\ writer[w].seen = pointer
                /\ pointer' = Successor(pointer, writer[w].spec, 0)
                /\ ValidPointer(pointer')
           \/ losses' > losses /\ pointer'.generation >= acked.generation]_vars
  BY CasStep
<1> QED
  BY <1>1, FilesAreSound, PTL DEF Spec, CasIsExact
=============================================================================
