--------------------------- MODULE ArtifactStore ---------------------------
(***************************************************************************)
(* Acquisition and verification of one model artifact                      *)
(* (scripts/model-manager.py, storage.py).                                 *)
(*                                                                         *)
(* A download appends to a partial file through curl, which inherits the   *)
(* descriptor; the finished file is hashed, renamed and hashed again.      *)
(* A verification hashes the published file, or believes a stamp that      *)
(* holds the fingerprint (inode, size, mtime, ctime) of a file that was    *)
(* hashed before. Files are inodes: the names of the partial and of the    *)
(* published file point to one each, and a curl that outlives the download *)
(* that started it keeps the inode it was given.                           *)
(*                                                                         *)
(* A fingerprint is modelled by what a comparison of two of them says:     *)
(* proc[p].same tells whether the inode p has open was left alone since p  *)
(* took the fingerprint, and stamp is the inode whose fingerprint of this  *)
(* moment the stamp file holds.                                            *)
(***************************************************************************)
EXTENDS Naturals, FiniteSets

CONSTANTS Processes,  \* processes of model-manager.py
          Curls,      \* running curl programs
          Inodes,     \* inodes of the model directory
          Size,       \* length of the artifact, in chunks
          MaxAged,    \* bound: how often a partial file passes its retention
          None        \* no process, no inode

ASSUME SizeAssumption == Size \in Nat \ {0}
ASSUME InodesAssumption == Inodes # {}
ASSUME MaxAgedAssumption == MaxAged \in Nat
ASSUME NoneAssumption == None \notin Processes \cup Curls \cup Inodes

VARIABLES file,      \* inode -> number of chunks, and whether they are the artifact's
          part,      \* the inode named <artifact>.part
          final,     \* the inode named <artifact>
          stamp,     \* the inode whose present fingerprint is in the stamp file
          proc,      \* process -> where it is
          curl,      \* curl -> the inode it writes, its position, its parent
          lock,      \* holder of download-<model>.lock
          boundary,  \* holder of the runtime boundary
          gc,        \* "idle", or "found": storage gc listed the partial file
          aged,      \* the partial file is older than the retention period
          selected,  \* the profile of the model has been selected
          agings,    \* how often the retention period has passed
          foreign    \* history: bytes no download answers for, of a curl that outlived
                     \* the process that started it or of a file copied there by hand

files == <<file, part, final, stamp>>
locks == <<lock, boundary>>
cleanup == <<gc, aged, agings>>
vars == <<files, proc, curl, locks, cleanup, selected, foreign>>

Operations == {"download", "verify", "select"}

Idle == [op |-> "none", at |-> "idle", fd |-> None, same |-> FALSE, good |-> FALSE]

NoCurl == [fd |-> None, off |-> 0, parent |-> None, resumes |-> FALSE]

Good(i) == file[i].len = Size /\ file[i].ok

\* Which free inode or curl is taken makes no difference.
Free(S) == CHOOSE x \in S : TRUE

Unused == {i \in Inodes : /\ i \notin {part, final}
                          /\ \A p \in Processes : proc[p].fd # i
                          /\ \A k \in Curls : curl[k].fd # i}

TypeOK ==
    /\ file \in [Inodes -> [len : 0..(Size + 1), ok : BOOLEAN]]
    /\ part \in Inodes \cup {None}
    /\ final \in Inodes \cup {None}
    /\ stamp \in Inodes \cup {None}
    /\ proc \in [Processes ->
         [op : Operations \cup {"none"},
          at : {"idle", "look", "space", "fetch", "existing", "existing-hashed",
                "fetched", "fetched-hashed", "published", "published-hashed",
                "opened", "hit", "hash", "hashed", "stamp", "write"},
          fd : Inodes \cup {None}, same : BOOLEAN, good : BOOLEAN]]
    /\ curl \in [Curls -> [fd : Inodes \cup {None}, off : 0..Size, resumes : BOOLEAN,
                           parent : Processes \cup {None}]]
    /\ lock \in Processes \cup {None}
    /\ boundary \in Processes \cup {None}
    /\ gc \in {"idle", "found"}
    /\ aged \in BOOLEAN
    /\ selected \in BOOLEAN
    /\ agings \in 0..MaxAged
    /\ foreign \in BOOLEAN

Init ==
    /\ \/ /\ file = [i \in Inodes |-> [len |-> 0, ok |-> TRUE]]
          /\ final = None
          /\ foreign = FALSE
       \/ \E good \in BOOLEAN :
            /\ final = Free(Inodes)
            /\ file = [i \in Inodes |-> [len |-> IF i = final THEN Size ELSE 0,
                                        ok |-> i = final => good]]
            /\ foreign = TRUE
    /\ part = None /\ stamp = None
    /\ proc = [p \in Processes |-> Idle]
    /\ curl = [k \in Curls |-> NoCurl]
    /\ lock = None /\ boundary = None
    /\ gc = "idle" /\ aged = FALSE /\ agings = 0
    /\ selected = FALSE

-----------------------------------------------------------------------------
(* Steps several actions share.                                            *)

\* The processes after inode i was written or its metadata changed.
Disturbed(i) ==
    [p \in Processes |->
        IF proc[p].fd = i THEN [proc[p] EXCEPT !.same = FALSE] ELSE proc[p]]

StampWithout(i) == IF stamp = i THEN None ELSE stamp

Holding(p, l) == IF l = p THEN None ELSE l

\* p ends, with or without success: its descriptors close and its locks fall.
Ends(p) ==
    /\ proc' = [proc EXCEPT ![p] = Idle]
    /\ lock' = Holding(p, lock)
    /\ boundary' = Holding(p, boundary)

At(p, place) == proc[p].at = place

GoesTo(p, place) == proc' = [proc EXCEPT ![p].at = place]

-----------------------------------------------------------------------------
(* download_model                                                          *)

\* Mutant: a second download of the model does not look at the lock of the first.
StartDownloadUnlocked(p) ==
    /\ At(p, "idle")
    /\ lock' = p
    /\ \/ boundary = None /\ boundary' = p
       \/ UNCHANGED boundary
    /\ proc' = [proc EXCEPT ![p] = [Idle EXCEPT !.op = "download", !.at = "look"]]
    /\ UNCHANGED <<files, curl, cleanup, selected, foreign>>

\* A download of a transaction takes the runtime boundary first, one without
\* a transaction does not; the download lock is never waited for.
StartDownload(p) ==
    /\ At(p, "idle")
    /\ lock = None
    /\ lock' = p
    /\ \/ boundary = None /\ boundary' = p
       \/ UNCHANGED boundary
    /\ proc' = [proc EXCEPT ![p] = [Idle EXCEPT !.op = "download", !.at = "look"]]
    /\ UNCHANGED <<files, curl, cleanup, selected, foreign>>

\* The artifact is there: its mode is set, which changes its ctime, and it is
\* verified in place.
LookExisting(p) ==
    /\ At(p, "look")
    /\ final # None
    /\ proc' = [Disturbed(final) EXCEPT ![p] = [@ EXCEPT !.at = "existing", !.fd = final]]
    /\ stamp' = StampWithout(final)
    /\ UNCHANGED <<file, part, final, curl, locks, cleanup, selected, foreign>>

\* Mutant: a partial file that is complete is refused.
OpenPartialIncomplete(p) ==
    /\ At(p, "look")
    /\ final = None
    /\ \/ /\ part = None
          /\ Unused # {}
          /\ part' = Free(Unused)
          /\ file' = [file EXCEPT ![part'] = [len |-> 0, ok |-> TRUE]]
          /\ proc' = [proc EXCEPT ![p] = [@ EXCEPT !.at = "space", !.fd = part']]
          /\ stamp' = StampWithout(part')
       \/ /\ part # None
          /\ file[part].len < Size
          /\ proc' = [Disturbed(part) EXCEPT ![p] = [@ EXCEPT !.at = "space", !.fd = part]]
          /\ UNCHANGED <<part, file, stamp>>
    /\ UNCHANGED <<final, curl, locks, cleanup, selected, foreign>>

OpenPartial(p) ==
    /\ At(p, "look")
    /\ final = None
    /\ \/ /\ part = None
          /\ Unused # {}
          /\ part' = Free(Unused)
          /\ file' = [file EXCEPT ![part'] = [len |-> 0, ok |-> TRUE]]
          /\ proc' = [proc EXCEPT ![p] = [@ EXCEPT !.at = "space", !.fd = part']]
          /\ stamp' = StampWithout(part')
       \/ /\ part # None
          /\ file[part].len <= Size
          /\ proc' = [Disturbed(part) EXCEPT ![p] = [@ EXCEPT !.at = "space", !.fd = part]]
          /\ UNCHANGED <<part, file, stamp>>
    /\ UNCHANGED <<final, curl, locks, cleanup, selected, foreign>>

\* Mutant: curl gets --append and the offset 0.
SpawnCurlFromStart(p) ==
    LET ready == {k \in Curls : curl[k].fd = None} IN
    /\ At(p, "space")
    /\ ready # {}
    /\ curl' = [curl EXCEPT ![Free(ready)] =
         [fd |-> proc[p].fd, parent |-> p, resumes |-> TRUE, off |-> 0]]
    /\ GoesTo(p, "fetch")
    /\ UNCHANGED <<files, locks, cleanup, selected, foreign>>

\* --continue-at -: curl resumes at the length the file has when it starts.
SpawnCurl(p) ==
    LET len == file[proc[p].fd].len
        ready == {k \in Curls : curl[k].fd = None}
    IN
    /\ At(p, "space")
    /\ ready # {}
    /\ curl' = [curl EXCEPT ![Free(ready)] =
         [fd |-> proc[p].fd, parent |-> p, resumes |-> len > 0,
          off |-> IF len < Size THEN len ELSE Size]]
    /\ GoesTo(p, "fetch")
    /\ UNCHANGED <<files, locks, cleanup, selected, foreign>>

\* A curl that resumes appends its next chunk, wherever the end of the file is by
\* now; one that starts afresh truncates the file and writes at its position.
\* At Size + 1 the file is too long and stays so.
WriteChunk(f, k) ==
    LET off == curl[k].off IN
    IF curl[k].resumes
    THEN [len |-> IF f.len > Size THEN f.len ELSE f.len + 1, ok |-> f.ok /\ f.len = off]
    ELSE [len |-> IF off = 0 \/ f.len <= off THEN off + 1 ELSE f.len,
          ok |-> off = 0 \/ (f.ok /\ off <= f.len)]

\* Mutant: the source does not end at the size of the artifact.
CurlWritesOn(k) ==
    LET i == curl[k].fd IN
    /\ i # None
    /\ file' = [file EXCEPT ![i] = WriteChunk(@, k)]
    /\ curl' = [curl EXCEPT ![k].off = @ + 1]
    /\ proc' = Disturbed(i)
    /\ stamp' = StampWithout(i)
    /\ aged' = (aged /\ i # part)
    /\ UNCHANGED <<part, final, locks, gc, agings, selected, foreign>>

CurlWrites(k) ==
    LET i == curl[k].fd IN
    /\ i # None
    /\ curl[k].off < Size
    /\ file' = [file EXCEPT ![i] = WriteChunk(@, k)]
    /\ curl' = [curl EXCEPT ![k].off = @ + 1]
    /\ proc' = Disturbed(i)
    /\ stamp' = StampWithout(i)
    /\ aged' = (aged /\ i # part)
    /\ UNCHANGED <<part, final, locks, gc, agings, selected, foreign>>

\* curl is done; the process that started it, if it still waits, goes on.
CurlSucceeds(k) ==
    /\ curl[k].fd # None
    /\ curl[k].off = Size
    /\ curl' = [curl EXCEPT ![k] = NoCurl]
    /\ IF curl[k].parent = None THEN UNCHANGED proc ELSE GoesTo(curl[k].parent, "fetched")
    /\ UNCHANGED <<files, locks, cleanup, selected, foreign>>

\* The network fails for good: the partial file stays for the next attempt.
CurlFails(k) ==
    /\ curl[k].fd # None
    /\ curl' = [curl EXCEPT ![k] = NoCurl]
    /\ IF curl[k].parent = None
       THEN UNCHANGED <<proc, locks>>
       ELSE Ends(curl[k].parent)
    /\ UNCHANGED <<files, cleanup, selected, foreign>>

HashedAt == [existing |-> "existing-hashed", fetched |-> "fetched-hashed",
             published |-> "published-hashed"]

\* Hashing takes the fingerprint and reads the content; a size that differs
\* from the Catalog's is refused at once.
Hash(p) ==
    /\ proc[p].at \in DOMAIN HashedAt
    /\ file[proc[p].fd].len = Size
    /\ proc' = [proc EXCEPT ![p] =
         [@ EXCEPT !.at = HashedAt[proc[p].at], !.same = TRUE,
                    !.good = file[proc[p].fd].ok]]
    /\ UNCHANGED <<files, curl, locks, cleanup, selected, foreign>>

\* The comparison after hashing: unchanged since the fingerprint, right digest.
Verified(p) == proc[p].same /\ proc[p].good

ExistingVerified(p) ==
    /\ At(p, "existing-hashed")
    /\ Verified(p)
    /\ Ends(p)
    /\ UNCHANGED <<files, curl, cleanup, selected, foreign>>

\* The rename: the partial name must still be the inode that was verified.
Promote(p) ==
    /\ At(p, "fetched-hashed")
    /\ Verified(p)
    /\ part = proc[p].fd
    /\ final' = part
    /\ part' = None
    /\ aged' = FALSE
    /\ proc' = [Disturbed(part) EXCEPT ![p].at = "published"]
    /\ stamp' = StampWithout(part)
    /\ UNCHANGED <<file, curl, locks, gc, agings, selected, foreign>>

PublishedVerified(p) ==
    /\ At(p, "published-hashed")
    /\ Verified(p)
    /\ Ends(p)
    /\ UNCHANGED <<files, curl, cleanup, selected, foreign>>

-----------------------------------------------------------------------------
(* verify_model, select_model                                              *)

\* select runs inside the runtime boundary, verify takes no lock at all.
StartVerify(p, op) ==
    /\ At(p, "idle")
    /\ final # None
    /\ file[final].len = Size
    /\ IF op = "select" THEN boundary = None /\ boundary' = p ELSE UNCHANGED boundary
    /\ proc' = [proc EXCEPT ![p] =
         [op |-> op, at |-> "opened", fd |-> final, same |-> TRUE, good |-> FALSE]]
    /\ UNCHANGED <<files, curl, lock, cleanup, selected, foreign>>

\* The stamp file is read: the fingerprint in it is that of the file p opened. Only
\* a verify that was not told --cached hashes whatever the stamp says.
ReadStamp(p) ==
    /\ At(p, "opened")
    /\ \/ GoesTo(p, IF stamp = proc[p].fd /\ proc[p].same THEN "hit" ELSE "hash")
       \/ proc[p].op = "verify" /\ GoesTo(p, "hash")
    /\ UNCHANGED <<files, curl, locks, cleanup, selected, foreign>>

HashPublished(p) ==
    /\ At(p, "hash")
    /\ proc' = [proc EXCEPT ![p] = [@ EXCEPT !.at = "hashed", !.good = Good(proc[p].fd)]]
    /\ UNCHANGED <<files, curl, locks, cleanup, selected, foreign>>

\* A verified select goes on to write the profile, a verified verify is done.
Accepted(p) ==
    IF proc[p].op = "select"
    THEN GoesTo(p, "write") /\ UNCHANGED locks
    ELSE Ends(p)

\* A stamp that matched is believed if the file is still the one p opened.
StampHit(p) ==
    /\ At(p, "hit")
    /\ proc[p].same
    /\ Accepted(p)
    /\ UNCHANGED <<files, curl, cleanup, selected, foreign>>

\* verify --read-only writes no stamp.
HashMatches(p) ==
    /\ At(p, "hashed")
    /\ Verified(p)
    /\ \/ GoesTo(p, "stamp") /\ UNCHANGED locks
       \/ proc[p].op = "verify" /\ Ends(p)
    /\ UNCHANGED <<files, curl, cleanup, selected, foreign>>

\* Mutant: the stamp names the fingerprint the file has by now.
WriteStampFresh(p) ==
    /\ At(p, "stamp")
    /\ stamp' = proc[p].fd
    /\ Accepted(p)
    /\ UNCHANGED <<file, part, final, curl, cleanup, selected, foreign>>

\* The stamp names the fingerprint p took when it opened the file; if the file
\* changed since, nothing has that fingerprint any more.
WriteStamp(p) ==
    /\ At(p, "stamp")
    /\ stamp' = IF proc[p].same THEN proc[p].fd ELSE None
    /\ Accepted(p)
    /\ UNCHANGED <<file, part, final, curl, cleanup, selected, foreign>>

SelectWrites(p) ==
    /\ At(p, "write")
    /\ selected' = TRUE
    /\ Ends(p)
    /\ UNCHANGED <<files, curl, cleanup, foreign>>

-----------------------------------------------------------------------------
(* Failure and cleanup                                                     *)

\* A process gives up where it finds something wrong or is refused: no disk
\* space, a changed name, a wrong size, a wrong digest, an I/O error. A process
\* that is killed where it waits for no curl leaves the same state.
Fails(p) ==
    /\ ~At(p, "idle")
    /\ ~At(p, "fetch")
    /\ Ends(p)
    /\ UNCHANGED <<files, curl, cleanup, selected, foreign>>

\* A process is killed (a timeout of its command, a signal): its locks fall, and
\* a curl it waits for goes on.
Dies(p) ==
    /\ At(p, "fetch")
    /\ Ends(p)
    /\ curl' = [k \in Curls |->
         IF curl[k].parent = p THEN [curl[k] EXCEPT !.parent = None] ELSE curl[k]]
    /\ foreign' = TRUE
    /\ UNCHANGED <<files, cleanup, selected>>

\* The retention period passes for a partial file that nobody writes.
Ages ==
    /\ agings < MaxAged
    /\ part # None /\ ~aged
    /\ \A k \in Curls : curl[k].fd # part
    /\ aged' = TRUE
    /\ agings' = agings + 1
    /\ UNCHANGED <<files, proc, curl, locks, gc, selected, foreign>>

\* gc_candidates skips a model whose download lock is held; delete_candidates
\* does not look at the lock again. To see whether it is held, gc takes it for an
\* instant; a download that comes just then is refused and has changed nothing.
GcScan ==
    /\ gc = "idle"
    /\ part # None /\ aged /\ lock = None
    /\ gc' = "found"
    /\ UNCHANGED <<files, proc, curl, locks, aged, agings, selected, foreign>>

GcDelete ==
    /\ gc = "found"
    /\ gc' = "idle"
    /\ part' = None
    /\ aged' = FALSE
    /\ UNCHANGED <<file, final, stamp, proc, curl, locks, agings, selected, foreign>>

Downloads(p) ==
    \/ LookExisting(p) \/ OpenPartial(p) \/ SpawnCurl(p) \/ Hash(p)
    \/ ExistingVerified(p) \/ Promote(p) \/ PublishedVerified(p)

Reads(p) ==
    \/ ReadStamp(p) \/ HashPublished(p) \/ StampHit(p) \/ HashMatches(p)
    \/ WriteStamp(p) \/ SelectWrites(p)

Next ==
    \/ \E p \in Processes :
         \/ StartDownload(p) \/ Downloads(p)
         \/ \E op \in {"verify", "select"} : StartVerify(p, op)
         \/ Reads(p) \/ Fails(p) \/ Dies(p)
    \/ \E k \in Curls : CurlWrites(k) \/ CurlSucceeds(k) \/ CurlFails(k)
    \/ Ages \/ GcScan \/ GcDelete

Spec == Init /\ [][Next]_vars

-----------------------------------------------------------------------------
(* Properties                                                              *)

\* A stamp is only worth something if the file with its fingerprint is the
\* artifact: whatever was hashed, written, renamed or rewritten meanwhile, a
\* fingerprint in the stamp file that matches a file names a good file, and what
\* verify and select accept, hashed or on the word of a stamp, is the artifact at
\* that moment (verify_artifact compares the fingerprint once more after either).
StampIsTrue ==
    /\ stamp # None => Good(stamp)
    /\ \A p \in Processes : proc[p].at \in {"hit", "stamp", "write"} /\ proc[p].same
                             => Good(proc[p].fd)

\* As long as no curl outlives the download that started it and nobody copies
\* files by hand, what stands under the final name is the verified artifact: an
\* interrupted, failed or repeated download, a collected partial file or a
\* concurrent verification never leaves anything else there.
PublishedIsGood == ~foreign /\ final # None => Good(final)

\* As long as no curl outlives its download, a partial file that is kept for
\* the next attempt is a beginning of the artifact.
PartialIsPrefix == ~foreign /\ part # None => file[part].ok /\ file[part].len <= Size

\* Downloads that are tried again and again get there: interrupted ones resume,
\* and collecting partial files does not stop them for ever.
Published == []~foreign => <>(final # None)

Fairness ==
    /\ \A p \in Processes :
         /\ SF_vars(StartDownload(p)) /\ SF_vars(OpenPartial(p)) /\ SF_vars(SpawnCurl(p))
         /\ SF_vars(Hash(p)) /\ SF_vars(Promote(p))
         /\ WF_vars(Downloads(p)) /\ WF_vars(Reads(p))
         /\ WF_vars(proc[p].at \notin {"fetch", "write"} /\ Fails(p))
    /\ \A k \in Curls : SF_vars(CurlWrites(k)) /\ SF_vars(CurlSucceeds(k))

FairSpec == Spec /\ Fairness

=============================================================================
