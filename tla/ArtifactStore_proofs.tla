------------------------ MODULE ArtifactStore_proofs ------------------------
(***************************************************************************)
(* What a stamp, a published file and a partial file are worth, for any    *)
(* number of processes, curl programs and inodes, any size of the artifact *)
(* and any number of retention periods.                                    *)
(*                                                                         *)
(* None of the three is inductive. A stamp is written from what a process  *)
(* learnt earlier, so the invariant says what each place in the code knows *)
(* of the file it has open, as long as that file was left alone. And a     *)
(* file is only the artifact if one curl at a time wrote it, from where    *)
(* the last one stopped: that needs the download lock, the curl of each    *)
(* download and the length the file has under it.                          *)
(***************************************************************************)
EXTENDS ArtifactStore, TLAPS

FileType == [len : 0..(Size + 1), ok : BOOLEAN]

ProcType ==
  [op : Operations \cup {"none"},
   at : {"idle", "look", "space", "fetch", "existing", "existing-hashed",
         "fetched", "fetched-hashed", "published", "published-hashed",
         "opened", "hit", "hash", "hashed", "stamp", "write"},
   fd : Inodes \cup {None}, same : BOOLEAN, good : BOOLEAN]

CurlType == [fd : Inodes \cup {None}, off : 0..Size, resumes : BOOLEAN,
             parent : Processes \cup {None}]

\* What the argument needs of the types, and the rest of them.
Shapes ==
  /\ file \in [Inodes -> FileType]
  /\ part \in Inodes \cup {None} /\ final \in Inodes \cup {None}
  /\ stamp \in Inodes \cup {None}
  /\ proc \in [Processes -> ProcType]
  /\ curl \in [Curls -> CurlType]
  /\ foreign \in BOOLEAN

Rest ==
  /\ lock \in Processes \cup {None} /\ boundary \in Processes \cup {None}
  /\ gc \in {"idle", "found"} /\ aged \in BOOLEAN
  /\ selected \in BOOLEAN /\ agings \in 0..MaxAged

\* Places in a download, in the part of it that fills the partial file, behind a
\* hash, and behind a decision to accept.
Downloading == {"look", "space", "fetch", "existing", "existing-hashed", "fetched",
                "fetched-hashed", "published", "published-hashed"}
Filling == {"space", "fetch", "fetched", "fetched-hashed"}
Hashed == {"existing-hashed", "fetched-hashed", "published-hashed", "hashed"}
Accepting == {"hit", "stamp", "write"}

\* A process that believes its file to be the artifact is right, if the file was
\* left alone since it took the fingerprint.
Believes(x) == x.same /\ (x.at \in Accepting \/ (x.at \in Hashed /\ x.good))

ProcOK(p) ==
  /\ proc[p].at \in Downloading => lock = p
  /\ proc[p].at \notin {"idle", "look"} => proc[p].fd # None
  /\ Believes(proc[p]) => Good(proc[p].fd)

\* A curl somebody waits for is the only one of its download and writes its file.
CurlOK(k) == curl[k].parent # None =>
  /\ curl[k].fd # None
  /\ proc[curl[k].parent].at = "fetch" /\ proc[curl[k].parent].fd = curl[k].fd
  /\ \A j \in Curls : curl[j].parent = curl[k].parent => j = k

Prefix(i) == file[i].ok /\ file[i].len <= Size

\* As long as no byte is foreign.
PartOK == part # None => Prefix(part) /\ part # final

FinalOK == final # None => Good(final)

FillingOK(p) == proc[p].at \in Filling =>
  Prefix(proc[p].fd) /\ proc[p].fd # final /\ part \in {proc[p].fd, None}

WritingOK(k) == curl[k].fd # None =>
  curl[k].parent # None /\ file[curl[k].fd].len = curl[k].off

OwnBytes ==
  PartOK /\ FinalOK /\ (\A p \in Processes : FillingOK(p)) /\ (\A k \in Curls : WritingOK(k))

StampOK == stamp # None => Good(stamp)

ArtifactInv ==
  /\ Shapes /\ Rest
  /\ \A p \in Processes : ProcOK(p)
  /\ \A k \in Curls : CurlOK(k)
  /\ StampOK
  /\ ~foreign => OwnBytes

LEMMA FreeIsMember == ASSUME NEW S, S # {} PROVE Free(S) \in S
BY DEF Free

LEMMA StoreTypes == ArtifactInv => TypeOK
BY DEF ArtifactInv, Shapes, Rest, TypeOK, FileType, ProcType, CurlType

LEMMA ArtifactInit == Init => ArtifactInv
<1> SUFFICES ASSUME Init PROVE ArtifactInv
  OBVIOUS
<1>1. Free(Inodes) \in Inodes
  BY InodesAssumption, FreeIsMember
<1>2. Idle \in ProcType /\ NoCurl \in CurlType
  BY SizeAssumption DEF Idle, NoCurl, ProcType, CurlType, Operations
<1>3. final \in Inodes \cup {None} /\ foreign \in BOOLEAN /\ (~foreign => final = None)
  BY <1>1 DEF Init
<1>4. file \in [Inodes -> FileType] /\ (~foreign => \A i \in Inodes : file[i].ok)
  <2>1. CASE file = [i \in Inodes |-> [len |-> 0, ok |-> TRUE]]
    BY <2>1, SizeAssumption DEF FileType
  <2>2. CASE foreign = TRUE /\ \E good \in BOOLEAN :
               file = [i \in Inodes |-> [len |-> IF i = final THEN Size ELSE 0,
                                         ok |-> i = final => good]]
    BY <2>2, SizeAssumption DEF FileType
  <2> QED
    BY <2>1, <2>2 DEF Init
<1>5. Shapes
  BY <1>2, <1>3, <1>4 DEF Init, Shapes
<1>6. Rest
  <2>1. /\ lock = None /\ boundary = None /\ gc = "idle"
        /\ aged = FALSE /\ agings = 0 /\ selected = FALSE
    BY DEF Init
  <2>2. 0 \in 0..MaxAged
    BY MaxAgedAssumption
  <2> QED
    BY <2>1, <2>2, Zenon DEF Rest
<1>7. ASSUME NEW p \in Processes PROVE ProcOK(p) /\ FillingOK(p)
  BY DEF Init, Idle, ProcOK, FillingOK, Downloading, Filling, Believes
<1>8. ASSUME NEW k \in Curls PROVE CurlOK(k) /\ WritingOK(k)
  BY DEF Init, NoCurl, CurlOK, WritingOK
<1>9. StampOK /\ (~foreign => PartOK /\ FinalOK)
  BY <1>3 DEF Init, StampOK, PartOK, FinalOK
<1> QED
  BY <1>5, <1>6, <1>7, <1>8, <1>9 DEF ArtifactInv, OwnBytes

--------------------------------------------------------------------------------
(* Steps of one process, while no curl writes for it.                      *)

\* A process moves from one place to another, with the files as they are: the
\* invariant is kept if the process knows what its new place claims.
LEMMA ProcessMoves ==
  ASSUME ArtifactInv, Rest', NEW p \in Processes, NEW x \in ProcType,
         proc' = [proc EXCEPT ![p] = x],
         UNCHANGED <<file, part, final, curl, foreign>>,
         proc[p].at # "fetch", x.at # "fetch",
         \A q \in Processes \ {p} : lock = q => lock' = q,
         x.at \in Downloading => lock' = p,
         x.at \notin {"idle", "look"} => x.fd # None,
         Believes(x) => Good(x.fd),
         x.at \in Filling => proc[p].at \in Filling /\ x.fd = proc[p].fd,
         stamp' \in Inodes \cup {None}, stamp' # None => Good(stamp')
  PROVE  ArtifactInv'
<1>1. Shapes /\ Shapes'
  BY DEF ArtifactInv, Shapes
<1>2. proc'[p] = x /\ \A q \in Processes \ {p} : proc'[q] = proc[q]
  BY <1>1 DEF Shapes
<1>3. \A i : Good(i)' <=> Good(i)
  BY DEF Good
<1>4. ASSUME NEW q \in Processes PROVE ProcOK(q)'
  <2>1. CASE q = p
    <3>1. Believes(proc'[q]) => Good(proc'[q].fd)
      BY <1>2, <2>1
    <3> QED
      BY <1>2, <2>1, <3>1 DEF ProcOK, Believes, Good
  <2>2. CASE q # p
    <3>1. ProcOK(q) /\ proc'[q] = proc[q]
      BY <1>2, <2>2 DEF ArtifactInv
    <3> QED
      BY <2>2, <3>1 DEF ProcOK, Believes, Good
  <2> QED
    BY <2>1, <2>2
<1>5. ASSUME NEW k \in Curls PROVE CurlOK(k)'
  <2>1. CurlOK(k) /\ curl[k] \in CurlType
    BY <1>1 DEF ArtifactInv, Shapes
  <2>2. CASE curl[k].parent = None
    BY <2>2 DEF CurlOK
  <2>3. CASE curl[k].parent # None
    <3>1. curl[k].parent \in Processes \ {p}
      BY <2>1, <2>3 DEF CurlOK, CurlType
    <3> QED
      BY <1>2, <2>1, <3>1 DEF CurlOK
  <2> QED
    BY <2>2, <2>3
<1>6. StampOK'
  BY DEF StampOK, Good
<1>7. ASSUME ~foreign PROVE OwnBytes'
  <2>1. OwnBytes
    BY <1>7 DEF ArtifactInv
  <2>2. PartOK' /\ FinalOK'
    BY <2>1 DEF OwnBytes, PartOK, FinalOK, Prefix, Good
  <2>3. ASSUME NEW q \in Processes PROVE FillingOK(q)'
    <3>1. FillingOK(q) /\ FillingOK(p)
      BY <2>1 DEF OwnBytes
    <3> QED
      BY <1>2, <3>1 DEF FillingOK, Prefix
  <2>4. ASSUME NEW k \in Curls PROVE WritingOK(k)'
    BY <2>1 DEF OwnBytes, WritingOK
  <2> QED
    BY <2>2, <2>3, <2>4 DEF OwnBytes
<1> QED
  BY <1>1, <1>4, <1>5, <1>6, <1>7 DEF ArtifactInv

\* The other bookkeeping: locks, retention, the profile.
LEMMA RestKept == Rest /\ [Next]_vars => Rest'
<1> SUFFICES ASSUME Rest, [Next]_vars PROVE Rest'
  OBVIOUS
<1> USE DEF Rest
<1>0. ASSUME UNCHANGED <<locks, cleanup, selected>> PROVE Rest'
  BY <1>0 DEF locks, cleanup
<1>1. ASSUME NEW p \in Processes, Ends(p), UNCHANGED <<cleanup, selected>> PROVE Rest'
  BY <1>1 DEF Ends, Holding, cleanup
<1>2. ASSUME NEW p \in Processes, Ends(p), selected' = TRUE, UNCHANGED cleanup PROVE Rest'
  BY <1>2 DEF Ends, Holding, cleanup
<1>3. ASSUME NEW p \in Processes, StartDownload(p) PROVE Rest'
  BY <1>3 DEF StartDownload, cleanup
<1>4. ASSUME NEW p \in Processes, NEW op \in {"verify", "select"}, StartVerify(p, op) PROVE Rest'
  BY <1>4 DEF StartVerify, cleanup
<1>5. ASSUME NEW p \in Processes, Downloads(p) PROVE Rest'
  <2>1. CASE LookExisting(p) \/ OpenPartial(p) \/ SpawnCurl(p) \/ Hash(p)
    BY <2>1, <1>0 DEF LookExisting, OpenPartial, SpawnCurl, Hash
  <2>2. CASE ExistingVerified(p) \/ PublishedVerified(p)
    BY <2>2, <1>1 DEF ExistingVerified, PublishedVerified
  <2>3. CASE Promote(p)
    BY <2>3 DEF Promote, locks
  <2> QED
    BY <1>5, <2>1, <2>2, <2>3 DEF Downloads
<1>6. ASSUME NEW p \in Processes, Reads(p) PROVE Rest'
  <2>1. CASE ReadStamp(p) \/ HashPublished(p)
    BY <2>1, <1>0 DEF ReadStamp, HashPublished
  <2>2. CASE StampHit(p) \/ WriteStamp(p)
    BY <2>2, <1>0, <1>1 DEF StampHit, WriteStamp, Accepted
  <2>3. CASE SelectWrites(p)
    BY <2>3, <1>2 DEF SelectWrites
  <2>4. CASE HashMatches(p)
    BY <2>4, <1>0, <1>1 DEF HashMatches
  <2> QED
    BY <1>6, <2>1, <2>2, <2>3, <2>4 DEF Reads
<1>7. ASSUME NEW p \in Processes, Fails(p) \/ Dies(p) PROVE Rest'
  BY <1>7, <1>1 DEF Fails, Dies
<1>8. ASSUME NEW k \in Curls, CurlWrites(k) PROVE Rest'
  BY <1>8 DEF CurlWrites, locks
<1>9. ASSUME NEW k \in Curls, CurlSucceeds(k) PROVE Rest'
  BY <1>9, <1>0 DEF CurlSucceeds
<1>10. ASSUME NEW k \in Curls, CurlFails(k) PROVE Rest'
  BY <1>10 DEF CurlFails, Ends, Holding, locks, cleanup
<1>11. ASSUME Ages \/ GcScan \/ GcDelete PROVE Rest'
  <2>1. agings < MaxAged /\ agings \in 0..MaxAged => agings + 1 \in 0..MaxAged
    BY MaxAgedAssumption
  <2>2. CASE Ages
    BY <2>1, <2>2, Zenon DEF Ages, locks
  <2>3. CASE GcScan
    BY <2>3, Zenon DEF GcScan, locks
  <2>4. CASE GcDelete
    BY <2>4, Zenon DEF GcDelete, locks
  <2> QED
    BY <1>11, <2>2, <2>3, <2>4
<1>12. CASE UNCHANGED vars
  BY <1>12, <1>0 DEF vars
<1> QED
  BY <1>3, <1>4, <1>5, <1>6, <1>7, <1>8, <1>9, <1>10, <1>11, <1>12 DEF Next

\* p ends: what it held is free again.
LEMMA EndsKept ==
  ASSUME ArtifactInv, Rest', NEW p \in Processes, Ends(p), proc[p].at # "fetch",
         UNCHANGED <<file, part, final, curl, foreign>>,
         stamp' \in Inodes \cup {None}, stamp' # None => Good(stamp')
  PROVE  ArtifactInv'
<1>1. Idle \in ProcType /\ Idle.at = "idle" /\ Idle.same = FALSE
  BY DEF Idle, ProcType
<1>2. proc' = [proc EXCEPT ![p] = Idle] /\ \A q \in Processes \ {p} : lock = q => lock' = q
  BY DEF Ends, Holding
<1> QED
  BY <1>1, <1>2, ProcessMoves DEF Downloading, Filling, Believes

\* The same process in a new place, with what it knew.
LEMMA GoesToType ==
  ASSUME ArtifactInv, NEW p \in Processes,
         NEW place \in {"space", "fetch", "fetched", "hit", "hash", "stamp", "write"}
  PROVE  \E x \in ProcType :
           /\ [proc EXCEPT ![p].at = place] = [proc EXCEPT ![p] = x]
           /\ x.at = place /\ x.fd = proc[p].fd /\ x.same = proc[p].same
           /\ x.good = proc[p].good
<1>1. proc \in [Processes -> ProcType] /\ proc[p] \in ProcType
  BY DEF ArtifactInv, Shapes
<1> DEFINE x == [proc[p] EXCEPT !.at = place]
<1>2. /\ x \in ProcType /\ x.at = place /\ x.fd = proc[p].fd /\ x.same = proc[p].same
      /\ x.good = proc[p].good
  BY <1>1 DEF ProcType
<1>3. [proc EXCEPT ![p].at = place] = [proc EXCEPT ![p] = x]
  BY <1>1
<1> QED
  BY <1>2, <1>3

LEMMA StartDownloadKept ==
  ASSUME ArtifactInv, Rest', NEW p \in Processes, StartDownload(p)
  PROVE  ArtifactInv'
<1> DEFINE x == [Idle EXCEPT !.op = "download", !.at = "look"]
<1>1. x \in ProcType /\ x.at = "look" /\ ~x.same
  BY DEF Idle, ProcType, Operations
<1>2. /\ proc' = [proc EXCEPT ![p] = x] /\ lock = None /\ lock' = p
      /\ UNCHANGED <<file, part, final, curl, foreign, stamp>> /\ proc[p].at = "idle"
  BY DEF StartDownload, files, At
<1>3. stamp' \in Inodes \cup {None} /\ (stamp' # None => Good(stamp'))
  BY <1>2 DEF ArtifactInv, Shapes, StampOK
<1> HIDE DEF x
<1>4. \A q \in Processes \ {p} : lock = q => lock' = q
  BY <1>2, NoneAssumption
<1> QED
  BY <1>1, <1>2, <1>3, <1>4, ProcessMoves DEF Filling, Believes, Accepting, Hashed

LEMMA HashKept ==
  ASSUME ArtifactInv, Rest', NEW p \in Processes, Hash(p)
  PROVE  ArtifactInv'
<1> DEFINE x == [proc[p] EXCEPT !.at = HashedAt[proc[p].at], !.same = TRUE,
                                !.good = file[proc[p].fd].ok]
<1>1. /\ proc[p].at \in {"existing", "fetched", "published"}
      /\ file[proc[p].fd].len = Size /\ proc' = [proc EXCEPT ![p] = x]
      /\ UNCHANGED <<file, part, final, curl, foreign, stamp, lock>>
  <2>1. DOMAIN HashedAt = {"existing", "fetched", "published"}
    BY DEF HashedAt
  <2>2. proc \in [Processes -> ProcType]
    BY DEF ArtifactInv, Shapes
  <2>3. proc' = [proc EXCEPT ![p] = x]
    BY DEF Hash
  <2> QED
    BY <2>1, <2>3 DEF Hash, files, locks
<1>2. proc[p].fd \in Inodes /\ proc[p] \in ProcType /\ file[proc[p].fd].ok \in BOOLEAN
  BY <1>1 DEF ArtifactInv, Shapes, ProcOK, ProcType, FileType
<1>3. /\ HashedAt[proc[p].at] \in {"existing-hashed", "fetched-hashed", "published-hashed"}
      /\ HashedAt[proc[p].at] = "fetched-hashed" => proc[p].at = "fetched"
  BY <1>1 DEF HashedAt
<1>4. /\ x \in ProcType /\ x.at = HashedAt[proc[p].at] /\ x.fd = proc[p].fd
      /\ x.good = file[proc[p].fd].ok
  BY <1>2, <1>3 DEF ProcType
<1> HIDE DEF x
<1>5. Believes(x) => Good(x.fd)
  BY <1>1, <1>3, <1>4 DEF Believes, Accepting, Good
<1>6. lock' = p
  BY <1>1 DEF ArtifactInv, ProcOK, Downloading
<1>7. x.at \in Filling => proc[p].at \in Filling
  BY <1>3, <1>4 DEF Filling
<1>8. stamp' \in Inodes \cup {None} /\ (stamp' # None => Good(stamp'))
  BY <1>1 DEF ArtifactInv, Shapes, StampOK
<1>9. x.fd # None
  BY <1>2, <1>4, NoneAssumption
<1>10. x.at # "fetch" /\ proc[p].at # "fetch" /\ \A q \in Processes \ {p} : lock = q => lock' = q
  BY <1>1, <1>3, <1>4
<1> QED
  BY <1>1, <1>4, <1>5, <1>6, <1>7, <1>8, <1>9, <1>10, ProcessMoves

LEMMA StartVerifyKept ==
  ASSUME ArtifactInv, Rest', NEW p \in Processes, NEW op \in {"verify", "select"},
         StartVerify(p, op)
  PROVE  ArtifactInv'
<1> DEFINE x == [op |-> op, at |-> "opened", fd |-> final, same |-> TRUE, good |-> FALSE]
<1>1. /\ proc' = [proc EXCEPT ![p] = x] /\ final # None /\ proc[p].at = "idle"
      /\ UNCHANGED <<file, part, final, curl, foreign, stamp, lock>>
  BY DEF StartVerify, files, At
<1>2. x \in ProcType /\ x.at = "opened" /\ x.fd = final
  BY DEF ArtifactInv, Shapes, ProcType, Operations
<1> HIDE DEF x
<1>3. stamp' \in Inodes \cup {None} /\ (stamp' # None => Good(stamp'))
  BY <1>1 DEF ArtifactInv, Shapes, StampOK
<1>4. \A q \in Processes \ {p} : lock = q => lock' = q
  BY <1>1
<1> QED
  BY <1>1, <1>2, <1>3, <1>4, ProcessMoves DEF Filling, Believes, Accepting, Hashed, Downloading

\* Reading the stamp, hashing the published file, accepting it.
LEMMA ReadsKept ==
  ASSUME ArtifactInv, Rest', NEW p \in Processes, Reads(p)
  PROVE  ArtifactInv'
<1>0. /\ Shapes /\ ProcOK(p) /\ proc[p] \in ProcType
      /\ (stamp # None => Good(stamp)) /\ stamp \in Inodes \cup {None}
  BY DEF ArtifactInv, Shapes, StampOK
<1>1. ASSUME NEW place \in {"hit", "hash", "stamp", "write"},
             proc' = [proc EXCEPT ![p].at = place],
             UNCHANGED <<file, part, final, curl, foreign, lock>>,
             proc[p].at \in {"opened", "hit", "hashed", "stamp"},
             place \in Accepting /\ proc[p].same => Good(proc[p].fd),
             stamp' \in Inodes \cup {None}, stamp' # None => Good(stamp')
      PROVE  ArtifactInv'
  <2>0. place \in {"space", "fetch", "fetched", "hit", "hash", "stamp", "write"}
    BY <1>1
  <2>1. PICK x \in ProcType :
          /\ [proc EXCEPT ![p].at = place] = [proc EXCEPT ![p] = x]
          /\ x.at = place /\ x.fd = proc[p].fd /\ x.same = proc[p].same
          /\ x.good = proc[p].good
    BY <2>0, GoesToType
  <2>2. proc' = [proc EXCEPT ![p] = x] /\ proc[p].at # "fetch" /\ x.fd # None
    BY <1>0, <1>1, <2>1 DEF ProcOK
  <2>3. x.at \notin Downloading /\ x.at \notin Filling /\ x.at # "fetch"
    BY <2>1 DEF Downloading, Filling
  <2>4. Believes(x) => Good(x.fd)
    BY <1>1, <2>1 DEF Believes, Hashed
  <2>5. \A q \in Processes \ {p} : lock = q => lock' = q
    BY <1>1
  <2> QED
    BY <1>1, <2>1, <2>2, <2>3, <2>4, <2>5, ProcessMoves
<1>2. ASSUME proc[p].at \in {"hit", "stamp"}, Accepted(p),
             UNCHANGED <<file, part, final, curl, foreign>>,
             stamp' \in Inodes \cup {None}, stamp' # None => Good(stamp')
      PROVE  ArtifactInv'
  <2>1. proc[p].same => Good(proc[p].fd)
    BY <1>0, <1>2 DEF ProcOK, Believes, Accepting
  <2>2. CASE proc[p].op = "select"
    <3>1. proc' = [proc EXCEPT ![p].at = "write"] /\ UNCHANGED lock
      BY <1>2, <2>2 DEF Accepted, GoesTo, locks
    <3> QED
      BY <1>1, <1>2, <2>1, <3>1
  <2>3. CASE proc[p].op # "select"
    <3>1. Ends(p) /\ proc[p].at # "fetch"
      BY <1>2, <2>3 DEF Accepted
    <3> QED
      BY <1>2, <3>1, EndsKept
  <2> QED
    BY <2>2, <2>3
<1>3. CASE ReadStamp(p)
  <2>1. PICK place \in {"hit", "hash"} :
          /\ proc' = [proc EXCEPT ![p].at = place]
          /\ place = "hit" => stamp = proc[p].fd
    BY <1>3 DEF ReadStamp, GoesTo
  <2>2. /\ proc[p].at = "opened"
        /\ UNCHANGED <<file, part, final, curl, foreign, lock, stamp>>
    BY <1>3 DEF ReadStamp, At, files, locks
  <2>3. place \in Accepting => Good(proc[p].fd)
    BY <1>0, <2>1, <2>2 DEF ProcOK, Accepting
  <2> QED
    BY <1>0, <1>1, <2>1, <2>2, <2>3
<1>4. CASE HashPublished(p)
  <2> DEFINE x == [proc[p] EXCEPT !.at = "hashed", !.good = Good(proc[p].fd)]
  <2>1. /\ proc' = [proc EXCEPT ![p] = x] /\ proc[p].at = "hash"
        /\ UNCHANGED <<file, part, final, curl, foreign, lock, stamp>>
    BY <1>0, <1>4 DEF HashPublished, At, files, locks
  <2>2. x \in ProcType /\ x.at = "hashed" /\ x.fd = proc[p].fd /\ x.good = Good(proc[p].fd)
    BY <1>0 DEF ProcType, Good
  <2> HIDE DEF x
  <2>3. Believes(x) => Good(x.fd)
    BY <2>2 DEF Believes, Accepting
  <2>4. x.fd # None /\ \A q \in Processes \ {p} : lock = q => lock' = q
    BY <1>0, <2>1, <2>2 DEF ProcOK
  <2> QED
    BY <1>0, <2>1, <2>2, <2>3, <2>4, ProcessMoves DEF Downloading, Filling
<1>5. CASE StampHit(p)
  BY <1>0, <1>2, <1>5 DEF StampHit, At, files
<1>6. CASE HashMatches(p)
  <2>1. /\ proc[p].at = "hashed" /\ proc[p].same /\ proc[p].good
        /\ UNCHANGED <<file, part, final, curl, foreign, stamp>>
        /\ \/ proc' = [proc EXCEPT ![p].at = "stamp"] /\ UNCHANGED lock
           \/ Ends(p)
    BY <1>6 DEF HashMatches, Verified, GoesTo, At, files, locks
  <2>2. Good(proc[p].fd)
    BY <1>0, <2>1 DEF ProcOK, Believes, Hashed
  <2>3. CASE proc' = [proc EXCEPT ![p].at = "stamp"] /\ UNCHANGED lock
    BY <1>0, <1>1, <2>1, <2>2, <2>3
  <2>4. CASE Ends(p)
    BY <1>0, <2>1, <2>4, EndsKept
  <2> QED
    BY <2>1, <2>3, <2>4
<1>7. CASE WriteStamp(p)
  <2>1. /\ stamp' = IF proc[p].same THEN proc[p].fd ELSE None
        /\ Accepted(p) /\ proc[p].at = "stamp"
        /\ UNCHANGED <<file, part, final, curl, foreign>>
    BY <1>7 DEF WriteStamp, At
  <2>2. proc[p].same => Good(proc[p].fd)
    BY <1>0, <2>1 DEF ProcOK, Believes, Accepting
  <2>3. proc[p].fd \in Inodes
    BY <1>0, <2>1 DEF ProcOK, ProcType
  <2>4. stamp' \in Inodes \cup {None} /\ (stamp' # None => Good(stamp'))
    BY <2>1, <2>2, <2>3
  <2> QED
    BY <1>2, <2>1, <2>4
<1>8. CASE SelectWrites(p)
  <2>1. /\ Ends(p) /\ proc[p].at # "fetch"
        /\ UNCHANGED <<file, part, final, curl, foreign, stamp>>
    BY <1>8 DEF SelectWrites, At, files
  <2> QED
    BY <1>0, <2>1, EndsKept
<1> QED
  BY <1>3, <1>4, <1>5, <1>6, <1>7, <1>8 DEF Reads

\* A process ends outside of its curl, after success or failure.
LEMMA EndingsKept ==
  ASSUME ArtifactInv, Rest', NEW p \in Processes,
         ExistingVerified(p) \/ PublishedVerified(p) \/ Fails(p)
  PROVE  ArtifactInv'
<1>1. Ends(p) /\ proc[p].at # "fetch" /\ UNCHANGED <<file, part, final, curl, foreign, stamp>>
  BY DEF ExistingVerified, PublishedVerified, Fails, At, files
<1>2. stamp' \in Inodes \cup {None} /\ (stamp' # None => Good(stamp'))
  BY <1>1 DEF ArtifactInv, Shapes, StampOK
<1> QED
  BY <1>1, <1>2, EndsKept

--------------------------------------------------------------------------------
(* Steps that write or touch a file, or give it another name.              *)

\* The processes after inode i was written know what they knew, except that those
\* with i open no longer trust their fingerprint.
LEMMA DisturbedFacts ==
  ASSUME ArtifactInv, NEW i
  PROVE  /\ Disturbed(i) \in [Processes -> ProcType]
         /\ \A q \in Processes :
              /\ Disturbed(i)[q].at = proc[q].at /\ Disturbed(i)[q].fd = proc[q].fd
              /\ Believes(Disturbed(i)[q]) => Believes(proc[q]) /\ proc[q].fd # i
<1>1. ASSUME NEW q \in Processes
      PROVE  /\ proc[q] \in ProcType
             /\ Disturbed(i)[q] = IF proc[q].fd = i THEN [proc[q] EXCEPT !.same = FALSE]
                                  ELSE proc[q]
  BY DEF ArtifactInv, Shapes, Disturbed
<1>2. ASSUME NEW q \in Processes PROVE Disturbed(i)[q] \in ProcType
  BY <1>1 DEF ProcType
<1>3. Disturbed(i) \in [Processes -> ProcType]
  BY <1>2 DEF Disturbed
<1>4. ASSUME NEW q \in Processes
      PROVE  /\ Disturbed(i)[q].at = proc[q].at /\ Disturbed(i)[q].fd = proc[q].fd
             /\ Believes(Disturbed(i)[q]) => Believes(proc[q]) /\ proc[q].fd # i
  <2>1. CASE proc[q].fd = i
    BY <1>1, <2>1 DEF ProcType, Believes
  <2>2. CASE proc[q].fd # i
    BY <1>1, <2>2 DEF ProcType, Believes
  <2> QED
    BY <2>1, <2>2
<1> QED
  BY <1>3, <1>4

\* The download looks at what is there: the holder of the lock is the only one in a
\* download, and no curl works for it.
LEMMA OnlyDownload ==
  ASSUME ArtifactInv, NEW p \in Processes, proc[p].at \in Downloading
  PROVE  /\ \A q \in Processes \ {p} : proc[q].at \notin Downloading
         /\ proc[p].at # "fetch" =>
              \A k \in Curls : /\ curl[k].parent = None
                               /\ ~foreign => curl[k].fd = None
<1>1. \A q \in Processes \ {p} : proc[q].at \notin Downloading
  BY DEF ArtifactInv, ProcOK
<1>2. ASSUME proc[p].at # "fetch", NEW k \in Curls
      PROVE  curl[k].parent = None /\ (~foreign => curl[k].fd = None)
  <2>1. curl[k].parent \in Processes \cup {None} /\ CurlOK(k)
    BY DEF ArtifactInv, Shapes, CurlType
  <2>2. curl[k].parent = None
    BY <1>1, <1>2, <2>1 DEF CurlOK, Downloading
  <2> QED
    BY <2>2 DEF ArtifactInv, OwnBytes, WritingOK
<1> QED
  BY <1>1, <1>2

\* A download that is not in its curl touches inode i, and p opens i or keeps it:
\* the invariant is kept if files and names are what they have to be.
LEMMA DownloadTouches ==
  ASSUME ArtifactInv, Rest', NEW p \in Processes, NEW i \in Inodes, NEW x \in ProcType,
         proc[p].at \in {"look", "fetched-hashed"},
         proc' \in [Processes -> ProcType], proc'[p] = x,
         \A q \in Processes \ {p} :
           /\ proc'[q].at = proc[q].at /\ proc'[q].fd = proc[q].fd
           /\ Believes(proc'[q]) => Good(proc[q].fd)' ,
         x.at \in {"space", "existing", "published"}, x.fd = i,
         file' \in [Inodes -> FileType],
         part' \in Inodes \cup {None}, final' \in Inodes \cup {None},
         stamp' \in Inodes \cup {None}, StampOK',
         UNCHANGED <<curl, lock, foreign>>,
         ~foreign => PartOK' /\ FinalOK' /\ FillingOK(p)'
  PROVE  ArtifactInv'
<1>1. proc[p].at \in Downloading /\ lock = p /\ Shapes'
  BY DEF ArtifactInv, ProcOK, Shapes, Downloading
<1>2. /\ \A q \in Processes \ {p} : proc[q].at \notin Downloading
      /\ \A k \in Curls : curl[k].parent = None /\ (~foreign => curl[k].fd = None)
  BY <1>1, OnlyDownload
<1>3. ASSUME NEW q \in Processes PROVE ProcOK(q)' /\ (~foreign => FillingOK(q)')
  <2>1. CASE q = p
    <3>1. ~Believes(x) /\ x.fd # None
      BY NoneAssumption DEF Believes, Accepting, Hashed
    <3> QED
      BY <1>1, <2>1, <3>1 DEF ProcOK, Believes
  <2>2. CASE q # p
    <3>1. ProcOK(q) /\ proc[q].at \notin Downloading
      BY <1>2, <2>2 DEF ArtifactInv
    <3>2. proc[q].at \notin Filling
      BY <3>1 DEF Downloading, Filling
    <3> QED
      BY <2>2, <3>1, <3>2 DEF ProcOK, FillingOK, Believes
  <2> QED
    BY <2>1, <2>2
<1>4. ASSUME NEW k \in Curls PROVE CurlOK(k)' /\ (~foreign => WritingOK(k)')
  BY <1>2 DEF CurlOK, WritingOK
<1> QED
  BY <1>1, <1>3, <1>4 DEF ArtifactInv, OwnBytes

\* proc' is what Disturbed(i) leaves, with p at a new place.
LEMMA DisturbedOthers ==
  ASSUME ArtifactInv, NEW p \in Processes, NEW i, NEW x \in ProcType,
         proc' = [Disturbed(i) EXCEPT ![p] = x],
         \A j \in Inodes \ {i} : file'[j] = file[j]
  PROVE  /\ proc' \in [Processes -> ProcType] /\ proc'[p] = x
         /\ \A q \in Processes \ {p} :
              /\ proc'[q].at = proc[q].at /\ proc'[q].fd = proc[q].fd
              /\ Believes(proc'[q]) => Good(proc[q].fd)'
<1>1. proc' \in [Processes -> ProcType] /\ proc'[p] = x
      /\ \A q \in Processes \ {p} : proc'[q] = Disturbed(i)[q]
  BY DisturbedFacts
<1>2. ASSUME NEW q \in Processes \ {p}, Believes(proc'[q])
      PROVE  Good(proc[q].fd)'
  <2>1. Believes(proc[q]) /\ proc[q].fd # i /\ proc'[q].fd = proc[q].fd
    BY <1>1, <1>2, DisturbedFacts
  <2>2. Good(proc[q].fd) /\ proc[q].at \notin {"idle", "look"}
    BY <2>1 DEF ArtifactInv, ProcOK, Believes, Accepting, Hashed
  <2>3. proc[q].fd \in Inodes
    BY <2>2 DEF ArtifactInv, ProcOK, Shapes, ProcType
  <2> QED
    BY <2>1, <2>2, <2>3 DEF Good
<1> QED
  BY <1>1, <1>2, DisturbedFacts


LEMMA LookExistingKept ==
  ASSUME ArtifactInv, Rest', NEW p \in Processes, LookExisting(p)
  PROVE  ArtifactInv'
<1> DEFINE d == Disturbed(final)[p]
           x == [d EXCEPT !.at = "existing", !.fd = final]
<1>0. Shapes /\ StampOK /\ d \in ProcType
  BY DisturbedFacts DEF ArtifactInv
<1>1. /\ proc[p].at = "look" /\ final \in Inodes /\ stamp' = StampWithout(final)
      /\ UNCHANGED <<file, part, final, curl, foreign, lock>>
  BY <1>0 DEF LookExisting, At, Shapes, locks
<1>2. proc' = [Disturbed(final) EXCEPT ![p] = x]
  BY DEF LookExisting
<1>3. x \in ProcType /\ x.at = "existing" /\ x.fd = final
  BY <1>0, <1>1 DEF ProcType
<1> HIDE DEF x
<1>4. /\ proc' \in [Processes -> ProcType] /\ proc'[p] = x
      /\ \A q \in Processes \ {p} :
           /\ proc'[q].at = proc[q].at /\ proc'[q].fd = proc[q].fd
           /\ Believes(proc'[q]) => Good(proc[q].fd)'
  BY <1>1, <1>2, <1>3, DisturbedOthers
<1>5. stamp' \in Inodes \cup {None} /\ StampOK'
  BY <1>0, <1>1 DEF Shapes, StampWithout, StampOK, Good
<1>6. ~foreign => PartOK' /\ FinalOK' /\ FillingOK(p)'
  <2> SUFFICES ASSUME ~foreign PROVE PartOK' /\ FinalOK' /\ FillingOK(p)'
    OBVIOUS
  <2>1. PartOK /\ FinalOK
    BY DEF ArtifactInv, OwnBytes
  <2> QED
    BY <1>1, <1>3, <1>4, <2>1 DEF PartOK, FinalOK, FillingOK, Prefix, Good, Filling
<1>7. /\ file' \in [Inodes -> FileType] /\ part' \in Inodes \cup {None}
      /\ final' \in Inodes \cup {None}
  BY <1>0, <1>1 DEF Shapes
<1> QED
  BY <1>1, <1>3, <1>4, <1>5, <1>6, <1>7, DownloadTouches

LEMMA OpenPartialKept ==
  ASSUME ArtifactInv, Rest', NEW p \in Processes, OpenPartial(p)
  PROVE  ArtifactInv'
<1>0. /\ Shapes /\ StampOK /\ proc[p].at = "look" /\ final = None
      /\ UNCHANGED <<final, curl, lock, foreign>>
  BY DEF ArtifactInv, OpenPartial, At, locks
<1>1. ASSUME part = None, Unused # {}, part' = Free(Unused),
             file' = [file EXCEPT ![part'] = [len |-> 0, ok |-> TRUE]],
             proc' = [proc EXCEPT ![p] = [@ EXCEPT !.at = "space", !.fd = part']],
             stamp' = StampWithout(part')
      PROVE  ArtifactInv'
  <2>1. PICK i \in Unused : part' = i
    BY <1>1, FreeIsMember
  <2>2. i \in Inodes /\ \A q \in Processes : proc[q].fd # i
    BY <2>1 DEF Unused
  <2> DEFINE x == [proc[p] EXCEPT !.at = "space", !.fd = i]
  <2>3. proc[p] \in ProcType /\ x \in ProcType /\ x.at = "space" /\ x.fd = i
    BY <1>0, <2>2 DEF Shapes, ProcType
  <2>4. proc' = [Disturbed(i) EXCEPT ![p] = x]
    <3>1. Disturbed(i) = proc
      BY <1>0, <2>2 DEF Disturbed, Shapes
    <3> QED
      BY <1>1, <2>1, <3>1
  <2> HIDE DEF x
  <2>5. /\ file' = [file EXCEPT ![i] = [len |-> 0, ok |-> TRUE]]
        /\ [len |-> 0, ok |-> TRUE] \in FileType
    BY <1>1, <2>1, SizeAssumption DEF FileType
  <2>6. /\ file' \in [Inodes -> FileType] /\ \A j \in Inodes \ {i} : file'[j] = file[j]
        /\ file'[i].len = 0 /\ file'[i].ok
    BY <1>0, <2>2, <2>5 DEF Shapes
  <2>7. /\ proc' \in [Processes -> ProcType] /\ proc'[p] = x
        /\ \A q \in Processes \ {p} :
             /\ proc'[q].at = proc[q].at /\ proc'[q].fd = proc[q].fd
             /\ Believes(proc'[q]) => Good(proc[q].fd)'
    <3>1. x \in ProcType /\ \A j \in Inodes \ {i} : file'[j] = file[j]
      BY <2>3, <2>6
    <3> QED
      BY <2>4, <3>1, DisturbedOthers, Zenon
  <2>8. stamp' \in Inodes \cup {None} /\ StampOK'
    BY <1>0, <1>1, <2>1, <2>6 DEF Shapes, StampWithout, StampOK, Good
  <2>9. i # None
    BY <2>2, NoneAssumption
  <2>10. PartOK' /\ FinalOK' /\ FillingOK(p)'
    <3>1. Prefix(i)' /\ final' = None
      BY <1>0, <2>6, SizeAssumption DEF Prefix
    <3>2. part' = i /\ proc'[p].fd = i
      BY <2>1, <2>3, <2>7
    <3>3. PartOK' /\ FillingOK(p)'
      BY <2>9, <3>1, <3>2 DEF PartOK, FillingOK, Prefix
    <3> QED
      BY <3>1, <3>3 DEF FinalOK
  <2>11. part' \in Inodes \cup {None} /\ final' \in Inodes \cup {None}
    BY <1>0, <2>1, <2>2 DEF Shapes
  <2> QED
    BY <1>0, <2>2, <2>3, <2>6, <2>7, <2>8, <2>10, <2>11, DownloadTouches
<1>2. ASSUME part # None, file[part].len <= Size,
             proc' = [Disturbed(part) EXCEPT ![p] = [@ EXCEPT !.at = "space", !.fd = part]],
             UNCHANGED <<part, file, stamp>>
      PROVE  ArtifactInv'
  <2> DEFINE d == Disturbed(part)[p]
             x == [d EXCEPT !.at = "space", !.fd = part]
  <2>1. d \in ProcType /\ part \in Inodes /\ proc' = [Disturbed(part) EXCEPT ![p] = x]
    BY <1>0, <1>2, DisturbedFacts DEF Shapes
  <2>2. x \in ProcType /\ x.at = "space" /\ x.fd = part
    BY <2>1 DEF ProcType
  <2> HIDE DEF x
  <2>3. /\ proc' \in [Processes -> ProcType] /\ proc'[p] = x
        /\ \A q \in Processes \ {p} :
             /\ proc'[q].at = proc[q].at /\ proc'[q].fd = proc[q].fd
             /\ Believes(proc'[q]) => Good(proc[q].fd)'
    <3>1. x \in ProcType /\ \A j \in Inodes \ {part} : file'[j] = file[j]
      BY <1>2, <2>2
    <3> QED
      BY <2>1, <3>1, DisturbedOthers, Zenon
  <2>4. ~foreign => PartOK' /\ FinalOK' /\ FillingOK(p)'
    <3> SUFFICES ASSUME ~foreign PROVE PartOK' /\ FinalOK' /\ FillingOK(p)'
      OBVIOUS
    <3>1. PartOK /\ FinalOK
      BY DEF ArtifactInv, OwnBytes
    <3> QED
      BY <1>0, <1>2, <2>2, <2>3, <3>1 DEF PartOK, FinalOK, FillingOK, Prefix, Good
  <2>5. /\ file' \in [Inodes -> FileType] /\ part' \in Inodes \cup {None}
        /\ final' \in Inodes \cup {None} /\ stamp' \in Inodes \cup {None} /\ StampOK'
    BY <1>0, <1>2 DEF Shapes, StampOK, Good
  <2> QED
    BY <1>0, <2>1, <2>2, <2>3, <2>4, <2>5, DownloadTouches
<1> QED
  BY <1>1, <1>2 DEF OpenPartial

\* The rename publishes the inode whose content was hashed: if no byte is foreign and
\* the file was left alone since, it is the artifact.
LEMMA PromoteKept ==
  ASSUME ArtifactInv, Rest', NEW p \in Processes, Promote(p)
  PROVE  ArtifactInv'
<1> DEFINE d == Disturbed(part)[p]
           x == [d EXCEPT !.at = "published"]
<1>0. Shapes /\ StampOK /\ d \in ProcType /\ ProcOK(p)
  BY DisturbedFacts DEF ArtifactInv
<1>1. /\ proc[p].at = "fetched-hashed" /\ part = proc[p].fd /\ Verified(p)
      /\ final' = part /\ part' = None /\ stamp' = StampWithout(part)
      /\ proc' = [Disturbed(part) EXCEPT ![p].at = "published"]
      /\ UNCHANGED <<file, curl, foreign, lock>>
  BY DEF Promote, At, locks
<1>2. part \in Inodes /\ Good(part) /\ d.fd = part
  BY <1>0, <1>1, DisturbedFacts
     DEF ProcOK, Shapes, ProcType, Believes, Hashed, Verified
<1>3. proc' = [Disturbed(part) EXCEPT ![p] = x]
  BY <1>1, DisturbedFacts
<1>4. x \in ProcType /\ x.at = "published" /\ x.fd = part
  BY <1>0, <1>2 DEF ProcType
<1> HIDE DEF x
<1>5. /\ proc' \in [Processes -> ProcType] /\ proc'[p] = x
      /\ \A q \in Processes \ {p} :
           /\ proc'[q].at = proc[q].at /\ proc'[q].fd = proc[q].fd
           /\ Believes(proc'[q]) => Good(proc[q].fd)'
  BY <1>1, <1>3, <1>4, DisturbedOthers
<1>6. stamp' \in Inodes \cup {None} /\ StampOK'
  BY <1>0, <1>1 DEF Shapes, StampWithout, StampOK, Good
<1>7. PartOK' /\ FinalOK' /\ FillingOK(p)'
  BY <1>1, <1>2, <1>4, <1>5 DEF PartOK, FinalOK, FillingOK, Good, Filling
<1>8. /\ file' \in [Inodes -> FileType] /\ part' \in Inodes \cup {None}
      /\ final' \in Inodes \cup {None}
  BY <1>0, <1>1, <1>2 DEF Shapes
<1> QED
  BY <1>1, <1>2, <1>4, <1>5, <1>6, <1>7, <1>8, DownloadTouches

--------------------------------------------------------------------------------
(* The curl programs, and the collector of old partial files.              *)

\* A curl starts on the file of its download, at the length the file has.
LEMMA SpawnCurlKept ==
  ASSUME ArtifactInv, Rest', NEW p \in Processes, SpawnCurl(p)
  PROVE  ArtifactInv'
<1> DEFINE len == file[proc[p].fd].len
           ready == {j \in Curls : curl[j].fd = None}
           c == [fd |-> proc[p].fd, parent |-> p, resumes |-> len > 0,
                 off |-> IF len < Size THEN len ELSE Size]
<1>0. Shapes /\ ProcOK(p) /\ StampOK
  BY DEF ArtifactInv
<1>1. PICK k \in ready : curl' = [curl EXCEPT ![k] = c]
  BY FreeIsMember DEF SpawnCurl
<1>2. /\ proc[p].at = "space" /\ proc' = [proc EXCEPT ![p].at = "fetch"]
      /\ UNCHANGED <<file, part, final, stamp, foreign, lock>>
  BY DEF SpawnCurl, GoesTo, At, files, locks
<1>3. proc[p].fd \in Inodes /\ len \in 0..(Size + 1)
  BY <1>0, <1>2 DEF ProcOK, Shapes, ProcType, FileType
<1>4. /\ c \in CurlType /\ c.fd = proc[p].fd /\ c.parent = p
      /\ c.off = IF len < Size THEN len ELSE Size
  BY <1>3, SizeAssumption DEF CurlType
<1> HIDE DEF c
<1>5. /\ proc' \in [Processes -> ProcType]
      /\ proc'[p].at = "fetch" /\ proc'[p].fd = proc[p].fd
      /\ \A q \in Processes \ {p} : proc'[q] = proc[q]
  <2>1. PICK x \in ProcType :
          /\ [proc EXCEPT ![p].at = "fetch"] = [proc EXCEPT ![p] = x]
          /\ x.at = "fetch" /\ x.fd = proc[p].fd /\ x.same = proc[p].same
          /\ x.good = proc[p].good
    BY GoesToType
  <2> QED
    BY <1>0, <1>2, <2>1 DEF Shapes
<1>6. /\ curl' \in [Curls -> CurlType] /\ curl'[k] = c
      /\ \A j \in Curls \ {k} : curl'[j] = curl[j]
  BY <1>0, <1>1, <1>4 DEF Shapes
<1>7. /\ \A q \in Processes \ {p} : proc[q].at \notin Downloading
      /\ \A j \in Curls : curl[j].parent = None /\ (~foreign => curl[j].fd = None)
  BY <1>2, OnlyDownload DEF Downloading
<1>8. p # None
  BY NoneAssumption
<1>9. ASSUME NEW q \in Processes PROVE ProcOK(q)'
  <2>1. CASE q = p
    BY <1>0, <1>2, <1>3, <1>5, <2>1, NoneAssumption
       DEF ProcOK, Believes, Accepting, Hashed, Downloading
  <2>2. CASE q # p
    <3>1. ProcOK(q) /\ proc'[q] = proc[q]
      BY <1>5, <2>2 DEF ArtifactInv
    <3> QED
      BY <1>2, <3>1 DEF ProcOK, Good
  <2> QED
    BY <2>1, <2>2
<1>10. ASSUME NEW j \in Curls PROVE CurlOK(j)'
  <2>1. CASE j = k
    BY <1>3, <1>4, <1>5, <1>6, <1>7, <1>8, <2>1, NoneAssumption DEF CurlOK
  <2>2. CASE j # k
    BY <1>6, <1>7, <2>2 DEF CurlOK
  <2> QED
    BY <2>1, <2>2
<1>11. ASSUME ~foreign PROVE OwnBytes'
  <2>1. OwnBytes
    BY <1>11 DEF ArtifactInv
  <2>2. PartOK' /\ FinalOK'
    BY <1>2, <2>1 DEF OwnBytes, PartOK, FinalOK, Prefix, Good
  <2>3. FillingOK(p) /\ proc[p].at \in Filling
    BY <1>2, <2>1 DEF OwnBytes, Filling
  <2>4. len <= Size /\ c.off = len
    BY <1>3, <1>4, <2>3, SizeAssumption DEF FillingOK, Prefix
  <2>5. ASSUME NEW q \in Processes PROVE FillingOK(q)'
    <3>1. CASE q = p
      BY <1>2, <1>5, <2>3, <3>1 DEF FillingOK, Prefix
    <3>2. CASE q # p
      BY <1>5, <1>7, <3>2 DEF FillingOK, Filling, Downloading
    <3> QED
      BY <3>1, <3>2
  <2>6. ASSUME NEW j \in Curls PROVE WritingOK(j)'
    <3>1. CASE j = k
      BY <1>2, <1>4, <1>6, <1>8, <2>4, <3>1 DEF WritingOK
    <3>2. CASE j # k
      BY <1>6, <1>7, <1>11, <3>2 DEF WritingOK
    <3> QED
      BY <3>1, <3>2
  <2> QED
    BY <2>2, <2>5, <2>6 DEF OwnBytes
<1>12. Shapes' /\ StampOK'
  BY <1>0, <1>2, <1>5, <1>6 DEF Shapes, StampOK, Good
<1> QED
  BY <1>2, <1>9, <1>10, <1>11, <1>12 DEF ArtifactInv

\* A curl somebody waits for is the only one that runs for a download, as long as no
\* byte is foreign the only one that runs at all.
LEMMA OnlyCurl ==
  ASSUME ArtifactInv, NEW k \in Curls, curl[k].parent # None
  PROVE  /\ curl[k].parent \in Processes /\ proc[curl[k].parent].at = "fetch"
         /\ proc[curl[k].parent].fd = curl[k].fd
         /\ \A q \in Processes \ {curl[k].parent} : proc[q].at \notin Downloading
         /\ \A j \in Curls \ {k} : /\ curl[j].parent = None
                                   /\ ~foreign => curl[j].fd = None
<1> DEFINE p == curl[k].parent
<1>1. p \in Processes /\ CurlOK(k)
  BY DEF ArtifactInv, Shapes, CurlType
<1>2. proc[p].at = "fetch" /\ proc[p].fd = curl[k].fd
  BY <1>1 DEF CurlOK
<1>3. \A q \in Processes \ {p} : proc[q].at \notin Downloading
  BY <1>1, <1>2, OnlyDownload DEF Downloading
<1>4. ASSUME NEW j \in Curls \ {k}
      PROVE  curl[j].parent = None /\ (~foreign => curl[j].fd = None)
  <2>1. curl[j].parent \in Processes \cup {None} /\ CurlOK(j)
    BY DEF ArtifactInv, Shapes, CurlType
  <2>2. curl[j].parent = None
    BY <1>1, <1>3, <2>1 DEF CurlOK, Downloading
  <2> QED
    BY <2>2 DEF ArtifactInv, OwnBytes, WritingOK
<1> QED
  BY <1>1, <1>2, <1>3, <1>4

LEMMA CurlWritesKept ==
  ASSUME ArtifactInv, Rest', NEW k \in Curls, CurlWrites(k)
  PROVE  ArtifactInv'
<1> DEFINE i == curl[k].fd
           off == curl[k].off
           chunk == WriteChunk(file[i], k)
           c == [curl[k] EXCEPT !.off = off + 1]
<1>0. Shapes /\ StampOK /\ curl[k] \in CurlType
  BY DEF ArtifactInv, Shapes
<1>1. /\ i \in Inodes /\ off < Size
      /\ file' = [file EXCEPT ![i] = chunk] /\ curl' = [curl EXCEPT ![k] = c]
      /\ proc' = Disturbed(i) /\ stamp' = StampWithout(i)
      /\ UNCHANGED <<part, final, lock, foreign>>
  BY <1>0 DEF CurlWrites, CurlType, Shapes, locks
<1>2. file[i] \in FileType /\ off \in 0..Size /\ off + 1 \in 0..Size
  BY <1>0, <1>1, SizeAssumption DEF Shapes, CurlType
<1>3. /\ chunk \in FileType
      /\ file[i].ok /\ file[i].len = off => chunk.ok /\ chunk.len = off + 1
  <2>1. CASE curl[k].resumes
    <3>1. chunk = [len |-> IF file[i].len > Size THEN file[i].len ELSE file[i].len + 1,
                   ok |-> file[i].ok /\ file[i].len = off]
      BY <2>1 DEF WriteChunk
    <3>2. /\ chunk.len = IF file[i].len > Size THEN file[i].len ELSE file[i].len + 1
          /\ chunk.ok = (file[i].ok /\ file[i].len = off)
      BY <3>1
    <3>3. chunk.len \in 0..(Size + 1)
      BY <1>2, <3>2, SizeAssumption DEF FileType
    <3>4. chunk \in FileType
      BY <3>1, <3>3 DEF FileType
    <3>5. file[i].len = off => chunk.len = off + 1
      BY <1>1, <1>2, <3>2, SizeAssumption DEF FileType
    <3> QED
      BY <3>2, <3>4, <3>5
  <2>2. CASE ~curl[k].resumes
    <3>1. chunk = [len |-> IF off = 0 \/ file[i].len <= off THEN off + 1 ELSE file[i].len,
                   ok |-> off = 0 \/ (file[i].ok /\ off <= file[i].len)]
      BY <2>2 DEF WriteChunk
    <3>2. /\ chunk.len = IF off = 0 \/ file[i].len <= off THEN off + 1 ELSE file[i].len
          /\ chunk.ok = (off = 0 \/ (file[i].ok /\ off <= file[i].len))
      BY <3>1
    <3>3. chunk.len \in 0..(Size + 1)
      BY <1>2, <3>2, SizeAssumption DEF FileType
    <3>4. chunk \in FileType
      BY <3>1, <3>3 DEF FileType
    <3>5. file[i].len = off => chunk.len = off + 1 /\ off <= file[i].len
      BY <1>1, <1>2, <3>2, SizeAssumption DEF FileType
    <3> QED
      BY <3>2, <3>4, <3>5
  <2> QED
    BY <2>1, <2>2
<1>4. /\ c \in CurlType /\ c.fd = i /\ c.parent = curl[k].parent /\ c.off = off + 1
  BY <1>0, <1>2 DEF CurlType
<1> HIDE DEF chunk, c
<1>5. /\ file' \in [Inodes -> FileType] /\ file'[i] = chunk
      /\ \A j \in Inodes \ {i} : file'[j] = file[j]
  BY <1>0, <1>1, <1>3 DEF Shapes
<1>6. /\ curl' \in [Curls -> CurlType] /\ curl'[k] = c
      /\ \A j \in Curls \ {k} : curl'[j] = curl[j]
      /\ \A j \in Curls : curl'[j].parent = curl[j].parent /\ curl'[j].fd = curl[j].fd
  BY <1>0, <1>1, <1>4 DEF Shapes
<1>7. /\ proc' \in [Processes -> ProcType]
      /\ \A q \in Processes :
           /\ proc'[q].at = proc[q].at /\ proc'[q].fd = proc[q].fd
           /\ Believes(proc'[q]) => Believes(proc[q]) /\ proc[q].fd # i
  BY <1>1, DisturbedFacts
<1>8. Shapes' /\ StampOK'
  BY <1>0, <1>1, <1>5, <1>6, <1>7 DEF Shapes, StampOK, StampWithout, Good
<1>9. ASSUME NEW q \in Processes PROVE ProcOK(q)'
  <2>1. ProcOK(q)
    BY DEF ArtifactInv
  <2>2. ASSUME Believes(proc'[q]) PROVE Good(proc[q].fd)'
    <3>1. Good(proc[q].fd) /\ proc[q].fd # i
      BY <1>7, <2>1, <2>2 DEF ProcOK
    <3>2. proc[q].fd \in Inodes
      BY <1>0, <1>7, <2>1, <2>2 DEF ProcOK, Believes, Accepting, Hashed, Shapes, ProcType
    <3> QED
      BY <1>5, <1>7, <3>1, <3>2 DEF Good
  <2> QED
    BY <1>1, <1>7, <2>1, <2>2 DEF ProcOK
<1>10. ASSUME NEW j \in Curls PROVE CurlOK(j)'
  <2>1. CurlOK(j) /\ curl[j].parent \in Processes \cup {None}
    BY <1>0 DEF ArtifactInv, Shapes, CurlType
  <2> QED
    BY <1>6, <1>7, <2>1 DEF CurlOK
<1>11. ASSUME ~foreign PROVE OwnBytes'
  <2> DEFINE p == curl[k].parent
  <2>1. OwnBytes /\ i # None
    BY <1>1, <1>11, NoneAssumption DEF ArtifactInv
  <2>2. p # None /\ file[i].len = off
    BY <2>1 DEF OwnBytes, WritingOK
  <2>3. /\ p \in Processes /\ proc[p].at = "fetch" /\ proc[p].fd = i
        /\ \A q \in Processes \ {p} : proc[q].at \notin Downloading
        /\ \A j \in Curls \ {k} : curl[j].fd = None
    BY <1>11, <2>2, OnlyCurl
  <2>4. file[i].ok /\ i # final /\ part \in {i, None}
    BY <2>1, <2>3 DEF OwnBytes, FillingOK, Filling, Prefix
  <2>5. file'[i].ok /\ file'[i].len = off + 1 /\ file'[i].len <= Size
    BY <1>2, <1>3, <1>5, <2>2, <2>4
  <2>6. PartOK'
    BY <1>1, <2>4, <2>5 DEF PartOK, Prefix
  <2>7. FinalOK'
    BY <1>0, <1>1, <1>5, <2>1, <2>4 DEF OwnBytes, FinalOK, Good, Shapes
  <2>8. ASSUME NEW q \in Processes PROVE FillingOK(q)'
    <3>1. CASE q = p
      BY <1>1, <1>7, <2>3, <2>4, <2>5, <3>1 DEF FillingOK, Prefix
    <3>2. CASE q # p
      BY <1>7, <2>3, <3>2 DEF FillingOK, Filling, Downloading
    <3> QED
      BY <3>1, <3>2
  <2>9. ASSUME NEW j \in Curls PROVE WritingOK(j)'
    BY <1>4, <1>6, <2>2, <2>3, <2>5 DEF WritingOK
  <2> QED
    BY <2>6, <2>7, <2>8, <2>9 DEF OwnBytes
<1> QED
  BY <1>1, <1>8, <1>9, <1>10, <1>11 DEF ArtifactInv

\* A curl is gone, and p, if it waited for it, goes to x: what remains is true of the
\* files as they are, if no byte is foreign.
LEMMA CurlLeaves ==
  ASSUME ArtifactInv, Rest', NEW k \in Curls, NEW p \in Processes, NEW x \in ProcType,
         curl[k].parent = p,
         curl' = [curl EXCEPT ![k] = NoCurl], proc' = [proc EXCEPT ![p] = x],
         UNCHANGED <<file, part, final, stamp, foreign>>,
         ~Believes(x),
         \/ x.at = "idle" /\ \A q \in Processes \ {p} : lock = q => lock' = q
         \/ x.at = "fetched" /\ x.fd = proc[p].fd /\ lock' = lock
  PROVE  ArtifactInv'
<1>0. Shapes /\ StampOK /\ ProcOK(p) /\ CurlOK(k) /\ NoCurl \in CurlType
  BY SizeAssumption DEF ArtifactInv, NoCurl, CurlType
<1>1. p # None
  BY NoneAssumption
<1>2. /\ proc[p].at = "fetch" /\ proc[p].fd = curl[k].fd
      /\ \A q \in Processes \ {p} : proc[q].at \notin Downloading
      /\ \A j \in Curls \ {k} : curl[j].parent = None /\ (~foreign => curl[j].fd = None)
  BY <1>1, OnlyCurl
<1>3. proc' \in [Processes -> ProcType] /\ proc'[p] = x
      /\ \A q \in Processes \ {p} : proc'[q] = proc[q]
  BY <1>0 DEF Shapes
<1>4. /\ curl' \in [Curls -> CurlType]
      /\ curl'[k].parent = None /\ curl'[k].fd = None
      /\ \A j \in Curls \ {k} : curl'[j] = curl[j]
  BY <1>0 DEF Shapes, NoCurl
<1>5. ASSUME NEW q \in Processes PROVE ProcOK(q)'
  <2>1. CASE q = p
    BY <1>0, <1>2, <1>3, <2>1 DEF ProcOK, Downloading
  <2>2. CASE q # p
    <3>1. ProcOK(q) /\ proc'[q] = proc[q] /\ proc[q].at \notin Downloading
      BY <1>2, <1>3, <2>2 DEF ArtifactInv
    <3> QED
      BY <3>1 DEF ProcOK, Good
  <2> QED
    BY <2>1, <2>2
<1>6. ASSUME NEW j \in Curls PROVE CurlOK(j)' /\ (~foreign => WritingOK(j)')
  BY <1>2, <1>4 DEF CurlOK, WritingOK
<1>7. ASSUME ~foreign PROVE OwnBytes'
  <2>1. OwnBytes
    BY <1>7 DEF ArtifactInv
  <2>2. PartOK' /\ FinalOK'
    BY <2>1 DEF OwnBytes, PartOK, FinalOK, Prefix, Good
  <2>3. ASSUME NEW q \in Processes PROVE FillingOK(q)'
    <3>1. CASE q = p
      <4>1. FillingOK(p) /\ proc[p].at \in Filling
        BY <1>2, <2>1 DEF OwnBytes, Filling
      <4> QED
        BY <1>3, <3>1, <4>1 DEF FillingOK, Prefix, Filling
    <3>2. CASE q # p
      BY <1>2, <1>3, <3>2 DEF FillingOK, Filling, Downloading
    <3> QED
      BY <3>1, <3>2
  <2> QED
    BY <1>6, <1>7, <2>2, <2>3 DEF OwnBytes
<1>8. Shapes' /\ StampOK'
  BY <1>0, <1>3, <1>4 DEF Shapes, StampOK, Good
<1> QED
  BY <1>5, <1>6, <1>7, <1>8 DEF ArtifactInv

\* Nobody waits for it any more: that can only be so if bytes may be foreign.
LEMMA OrphanLeaves ==
  ASSUME ArtifactInv, Rest', NEW k \in Curls,
         curl[k].parent = None, curl[k].fd # None,
         curl' = [curl EXCEPT ![k] = NoCurl],
         UNCHANGED <<files, proc, lock, foreign>>
  PROVE  ArtifactInv'
<1>0. Shapes /\ StampOK /\ NoCurl \in CurlType /\ foreign
  BY SizeAssumption DEF ArtifactInv, NoCurl, CurlType, OwnBytes, WritingOK
<1>1. UNCHANGED <<file, part, final, stamp>>
  BY DEF files
<1>2. /\ curl' \in [Curls -> CurlType] /\ curl'[k].parent = None
      /\ \A j \in Curls \ {k} : curl'[j] = curl[j]
  BY <1>0 DEF Shapes, NoCurl
<1>3. Shapes' /\ StampOK' /\ foreign'
  BY <1>0, <1>1, <1>2 DEF Shapes, StampOK, Good
<1>4. ASSUME NEW q \in Processes PROVE ProcOK(q)'
  BY <1>1 DEF ArtifactInv, ProcOK, Good
<1>5. ASSUME NEW j \in Curls PROVE CurlOK(j)'
  <2>1. CurlOK(j)
    BY DEF ArtifactInv
  <2> QED
    BY <1>2, <2>1 DEF CurlOK
<1> QED
  BY <1>3, <1>4, <1>5 DEF ArtifactInv

LEMMA CurlEndsKept ==
  ASSUME ArtifactInv, Rest', NEW k \in Curls, CurlSucceeds(k) \/ CurlFails(k)
  PROVE  ArtifactInv'
<1> DEFINE p == curl[k].parent
<1>0. p \in Processes \cup {None}
  BY DEF ArtifactInv, Shapes, CurlType
<1>1. /\ curl[k].fd # None /\ curl' = [curl EXCEPT ![k] = NoCurl]
      /\ UNCHANGED <<file, part, final, stamp, foreign>> /\ UNCHANGED files
  BY DEF CurlSucceeds, CurlFails, files
<1>2. CASE p = None
  BY <1>1, <1>2, OrphanLeaves DEF CurlSucceeds, CurlFails, locks
<1>3. CASE p # None /\ CurlSucceeds(k)
  <2>1. proc' = [proc EXCEPT ![p].at = "fetched"] /\ lock' = lock /\ p \in Processes
    BY <1>0, <1>3 DEF CurlSucceeds, GoesTo, locks
  <2>2. PICK x \in ProcType :
          /\ [proc EXCEPT ![p].at = "fetched"] = [proc EXCEPT ![p] = x]
          /\ x.at = "fetched" /\ x.fd = proc[p].fd /\ x.same = proc[p].same
          /\ x.good = proc[p].good
    BY <2>1, GoesToType
  <2>3. ~Believes(x) /\ proc' = [proc EXCEPT ![p] = x]
    BY <2>1, <2>2 DEF Believes, Accepting, Hashed
  <2> QED
    BY <1>1, <2>1, <2>2, <2>3, CurlLeaves
<1>4. CASE p # None /\ CurlFails(k)
  <2>1. Ends(p) /\ p \in Processes
    BY <1>0, <1>4 DEF CurlFails
  <2>2. proc' = [proc EXCEPT ![p] = Idle] /\ \A q \in Processes \ {p} : lock = q => lock' = q
    BY <2>1 DEF Ends, Holding
  <2>3. Idle \in ProcType /\ Idle.at = "idle" /\ ~Believes(Idle)
    BY DEF Idle, ProcType, Believes
  <2> QED
    BY <1>1, <2>1, <2>2, <2>3, CurlLeaves
<1> QED
  BY <1>2, <1>3, <1>4

LEMMA DiesKept ==
  ASSUME ArtifactInv, Rest', NEW p \in Processes, Dies(p)
  PROVE  ArtifactInv'
<1>0. Shapes /\ StampOK /\ Idle \in ProcType /\ Idle.at = "idle" /\ ~Idle.same
  BY DEF ArtifactInv, Idle, ProcType
<1>1. /\ proc' = [proc EXCEPT ![p] = Idle] /\ foreign' = TRUE
      /\ curl' = [k \in Curls |->
           IF curl[k].parent = p THEN [curl[k] EXCEPT !.parent = None] ELSE curl[k]]
      /\ UNCHANGED <<file, part, final, stamp>>
      /\ \A q \in Processes \ {p} : lock = q => lock' = q
  BY DEF Dies, Ends, Holding, files
<1>2. proc' \in [Processes -> ProcType] /\ proc'[p] = Idle
      /\ \A q \in Processes \ {p} : proc'[q] = proc[q]
  BY <1>0, <1>1 DEF Shapes
<1>3. ASSUME NEW k \in Curls
      PROVE  /\ curl'[k] \in CurlType /\ curl'[k].fd = curl[k].fd
             /\ curl'[k].parent = IF curl[k].parent = p THEN None ELSE curl[k].parent
  <2>1. curl[k] \in CurlType
    BY <1>0 DEF Shapes
  <2> QED
    BY <1>1, <2>1 DEF CurlType
<1>4. Shapes'
  <2>1. curl' \in [Curls -> CurlType]
    BY <1>1, <1>3
  <2> QED
    BY <1>0, <1>1, <1>2, <2>1 DEF Shapes
<1>5. ASSUME NEW q \in Processes PROVE ProcOK(q)'
  <2>1. CASE q = p
    BY <1>0, <1>2, <2>1 DEF ProcOK, Believes, Downloading
  <2>2. CASE q # p
    <3>1. ProcOK(q) /\ proc'[q] = proc[q]
      BY <1>2, <2>2 DEF ArtifactInv
    <3> QED
      BY <1>1, <2>2, <3>1 DEF ProcOK, Good
  <2> QED
    BY <2>1, <2>2
<1>6. ASSUME NEW k \in Curls PROVE CurlOK(k)'
  <2>1. CurlOK(k) /\ curl[k].parent \in Processes \cup {None}
    BY <1>0 DEF ArtifactInv, Shapes, CurlType
  <2> QED
    BY <1>2, <1>3, <2>1 DEF CurlOK
<1>7. StampOK'
  BY <1>0, <1>1 DEF StampOK, Good
<1> QED
  BY <1>1, <1>4, <1>5, <1>6, <1>7 DEF ArtifactInv

\* The collector takes the name of the partial file away, even from a download that
\* has started meanwhile; the inode stays with whoever has it open.
LEMMA CleanupKept ==
  ASSUME ArtifactInv, Rest',
         UNCHANGED <<file, final, stamp, proc, curl, lock, foreign>>,
         part' \in {part, None}
  PROVE  ArtifactInv'
<1>1. Shapes' /\ StampOK'
  BY DEF ArtifactInv, Shapes, StampOK, Good
<1>2. ASSUME NEW q \in Processes PROVE ProcOK(q)'
  BY DEF ArtifactInv, ProcOK, Good
<1>3. ASSUME NEW k \in Curls PROVE CurlOK(k)'
  BY DEF ArtifactInv, CurlOK
<1>4. ASSUME ~foreign PROVE OwnBytes'
  <2>1. OwnBytes
    BY <1>4 DEF ArtifactInv
  <2>2. PartOK' /\ FinalOK'
    BY <2>1 DEF OwnBytes, PartOK, FinalOK, Prefix, Good
  <2>3. ASSUME NEW q \in Processes PROVE FillingOK(q)'
    BY <2>1 DEF OwnBytes, FillingOK, Prefix
  <2>4. ASSUME NEW k \in Curls PROVE WritingOK(k)'
    BY <2>1 DEF OwnBytes, WritingOK
  <2> QED
    BY <2>2, <2>3, <2>4 DEF OwnBytes
<1> QED
  BY <1>1, <1>2, <1>3, <1>4 DEF ArtifactInv

--------------------------------------------------------------------------------
LEMMA ArtifactStep == ArtifactInv /\ [Next]_vars => ArtifactInv'
<1> SUFFICES ASSUME ArtifactInv, [Next]_vars PROVE ArtifactInv'
  OBVIOUS
<1>0. Rest'
  BY RestKept DEF ArtifactInv
<1>1. ASSUME NEW p \in Processes, StartDownload(p) \/ Downloads(p) PROVE ArtifactInv'
  BY <1>0, <1>1, StartDownloadKept, LookExistingKept, OpenPartialKept, SpawnCurlKept,
     HashKept, PromoteKept, EndingsKept DEF Downloads
<1>2. ASSUME NEW p \in Processes,
             (\E op \in {"verify", "select"} : StartVerify(p, op)) \/ Reads(p)
      PROVE  ArtifactInv'
  BY <1>0, <1>2, StartVerifyKept, ReadsKept
<1>3. ASSUME NEW p \in Processes, Fails(p) \/ Dies(p) PROVE ArtifactInv'
  BY <1>0, <1>3, EndingsKept, DiesKept
<1>4. ASSUME NEW k \in Curls, CurlWrites(k) \/ CurlSucceeds(k) \/ CurlFails(k)
      PROVE  ArtifactInv'
  BY <1>0, <1>4, CurlWritesKept, CurlEndsKept
<1>5. ASSUME Ages \/ GcScan \/ GcDelete PROVE ArtifactInv'
  BY <1>0, <1>5, CleanupKept DEF Ages, GcScan, GcDelete, files, locks
<1>6. CASE UNCHANGED vars
  BY <1>0, <1>6, CleanupKept DEF vars, files, locks
<1> QED
  BY <1>1, <1>2, <1>3, <1>4, <1>5, <1>6 DEF Next

\* The invariant holds in every reachable state.
THEOREM FilesAreKnown == Spec => []ArtifactInv
BY ArtifactInit, ArtifactStep, PTL DEF Spec

\* The variables have their types.
THEOREM StoreIsTyped == Spec => []TypeOK
BY FilesAreKnown, StoreTypes, PTL

\* A stamp that matches a file names the artifact, and what verify and select accept
\* is the artifact as long as nobody wrote to it since.
THEOREM StampsAreTrue == Spec => []StampIsTrue
<1>1. ArtifactInv => StampIsTrue
  BY DEF ArtifactInv, StampOK, StampIsTrue, ProcOK, Believes, Accepting
<1> QED
  BY <1>1, FilesAreKnown, PTL

\* Without foreign bytes the published file is the artifact, whatever failed, was
\* repeated or ran at the same time.
THEOREM PublicationIsGood == Spec => []PublishedIsGood
<1>1. ArtifactInv => PublishedIsGood
  BY DEF ArtifactInv, OwnBytes, FinalOK, PublishedIsGood
<1> QED
  BY <1>1, FilesAreKnown, PTL

\* Without foreign bytes a partial file is a beginning of the artifact.
THEOREM PartialsArePrefixes == Spec => []PartialIsPrefix
<1>1. ArtifactInv => PartialIsPrefix
  BY DEF ArtifactInv, OwnBytes, PartOK, Prefix, PartialIsPrefix
<1> QED
  BY <1>1, FilesAreKnown, PTL
=============================================================================
