-------------------------- MODULE Promotion_proofs --------------------------
(***************************************************************************)
(* What an admission needs, for every set of models, signers, revisions    *)
(* and keys, and every bound.                                              *)
(*                                                                         *)
(* The argument rests on the state at the moment of the admission: what    *)
(* verifies has evidence that matches the private profile and the          *)
(* container now. The one fact from the past is that the checkout holds a  *)
(* revision, so that a container of that revision is one that runs.        *)
(***************************************************************************)
EXTENDS Promotion, TLAPS

CheckedOut == rev \in Revisions

\* The checkout holds a revision of the validation inputs, whatever is edited,
\* signed, promoted, started or lost.
LEMMA CheckoutIsRevision == Spec => []CheckedOut
<1>1. Init => CheckedOut
  BY DEF Init, CheckedOut
<1>2. CheckedOut /\ [Next]_vars => CheckedOut'
  <2> SUFFICES ASSUME CheckedOut, [Next]_vars PROVE CheckedOut'
    OBVIOUS
  <2>1. ASSUME NEW r \in Revisions, Edit(r) PROVE CheckedOut'
    BY <2>1 DEF Edit, CheckedOut
  <2>2. CASE UNCHANGED rev
    BY <2>2 DEF CheckedOut
  <2>3. CASE UNCHANGED vars
    BY <2>2, <2>3 DEF vars, checkout
  <2>4. CASE \E m \in Models : Deploy(m) \/ Promote(m) \/ SetUpByHand(m)
                               \/ StartBesideByHand(m) \/ ContainerFails(m)
    BY <2>2, <2>4 DEF Deploy, Promote, SetUpByHand, StartBesideByHand,
                      ContainerFails, checkout
  <2>5. CASE StartExisting \/ Commit \/ EditCatalogSomehow
    BY <2>2, <2>5 DEF StartExisting, Commit, EditCatalogSomehow, EditCatalog, checkout
  <2>6. CASE \E mode \in {"quick", "full"} : RunPasses(mode)
    BY <2>2, <2>6 DEF RunPasses, checkout
  <2>7. CASE \E m \in Models, e \in RunIds : CreateDraft(m, e)
    BY <2>2, <2>7 DEF CreateDraft, checkout
  <2>8. CASE \E s \in Signers, m \in Models, key \in Keys : SignChecks(s, m, key)
    BY <2>2, <2>8 DEF SignChecks, checkout
  <2>9. CASE \E s \in Signers : Sign(s) \/ SignHashes(s) \/ SignRecords(s)
                                \/ SignerDies(s)
    BY <2>2, <2>9 DEF Sign, SignHashes, SignRecords, SignerDies, checkout
  <2>10. CASE \E e \in RunIds : EvidenceIsSpent(e)
    BY <2>2, <2>10 DEF EvidenceIsSpent, checkout
  <2> QED
    BY <2>1, <2>3, <2>4, <2>5, <2>6, <2>7, <2>8, <2>9, <2>10 DEF Next
<1> QED
  BY <1>1, <1>2, PTL DEF Spec

\* A model that verifies is the selected one and runs (acceptance_matches_host
\* compares the private profile and the container of that model).
LEMMA VerifiedIsInstalled ==
  ASSUME CheckedOut, NEW m \in Models, Verified(m)
  PROVE  m = selected /\ running[m] # None
<1> DEFINE e == doc[m].payload.run
<1>1. MatchesHost(m, e)
  BY DEF Verified, PromotionEligible, StillEligible, Eligible
<1>2. runs[e].model = m /\ runs[e].model = selected
  BY <1>1 DEF MatchesHost, ConfigurationIs
<1>3. running[m] = rev
  BY <1>1 DEF MatchesHost, ConfigurationIs, LiveIs
<1>4. rev # None
  BY NoneAssumption DEF CheckedOut
<1> QED
  BY <1>2, <1>3, <1>4

\* An admission to change the runtime is given only for the model that is already
\* selected and running, and no upgrade is ever admitted.
THEOREM OnlyTheInstalled == Spec => []AdmitsOnlyTheInstalled
<1>1. CheckedOut => AdmitsOnlyTheInstalled
  <2> SUFFICES ASSUME CheckedOut, NEW m \in Models
               PROVE  /\ ReadyToDeploy(m) => m = selected /\ running[m] # None
                      /\ ~AdmitsUpgrade(m)
    BY DEF AdmitsOnlyTheInstalled
  <2>1. ASSUME DeploymentEligible(m) PROVE m = selected /\ running[m] # None
    BY <2>1, VerifiedIsInstalled DEF DeploymentEligible
  <2>2. ReadyToDeploy(m) => m = selected /\ running[m] # None
    BY <2>1 DEF ReadyToDeploy
  <2>3. ~AdmitsUpgrade(m)
    BY <2>1 DEF AdmitsUpgrade, ReadyToReplaceExisting
  <2> QED
    BY <2>2, <2>3
<1> QED
  BY <1>1, CheckoutIsRevision, PTL

--------------------------------------------------------------------------------
(* What a signature vouches for.                                           *)
(*                                                                         *)
(* Neither property is inductive: a signature is written from what a       *)
(* process of attest sign holds in memory, two steps after its checks, and *)
(* the document under that name may be another by then. The invariant      *)
(* therefore follows the payload: from the draft, into the process, into   *)
(* the signature file. Runs are only appended, so what a payload says of   *)
(* its run stays true.                                                     *)

Run == [model : Models, rev : Revisions, qualified : BOOLEAN]

\* The payload names a run of model m.
Names(p, m) == p.run \in RunIds /\ runs[p.run].model = m

\* The payload claims eligibility, and that of a full run of a clean commit.
Vouches(p) == p.run \in RunIds /\ p.eligible /\ runs[p.run].qualified

\* The trusted key was used on nothing but what passed every check.
Approved(p, key) == key = Trusted => p.run \in approved

RunsOK == runs \in Seq(Run)

DraftsOK == \A m \in Models : doc[m] # None => Names(doc[m].payload, m)

SignaturesOK == \A m \in Models : sigfile[m] # None =>
  Vouches(sigfile[m].payload) /\ Approved(sigfile[m].payload, sigfile[m].key)

SignerOK(s) ==
  /\ signer[s].at # "idle" =>
       signer[s].model \in Models /\ Names(signer[s].payload, signer[s].model)
  /\ signer[s].at = "checked" =>
       Vouches(signer[s].payload) /\ Approved(signer[s].payload, signer[s].key)

SignersOK == \A s \in Signers : SignerOK(s)

Shapes ==
  /\ selected \in Models
  /\ doc = [m \in Models |-> doc[m]]
  /\ sigfile = [m \in Models |-> sigfile[m]]
  /\ signer = [s \in Signers |-> signer[s]]

PromotionInv == CheckedOut /\ Shapes /\ RunsOK /\ DraftsOK /\ SignaturesOK /\ SignersOK

LEMMA PromotionInit == Init => PromotionInv
BY DEF Init, PromotionInv, CheckedOut, Shapes, RunsOK, DraftsOK, SignaturesOK, SignersOK,
       SignerOK, Idle

\* Runs are only appended and approvals only added, so a step that changes no
\* document, signature and process keeps what they say.
LEMMA HistoryGrows ==
  ASSUME PromotionInv, RunsOK',
         RunIds \subseteq RunIds', approved \subseteq approved',
         \A e \in RunIds : runs'[e] = runs[e]
  PROVE  \A p, m, key : /\ Names(p, m) => Names(p, m)'
                        /\ Vouches(p) => Vouches(p)'
                        /\ Approved(p, key) => Approved(p, key)'
BY DEF Names, Vouches, Approved

LEMMA LogsGrow ==
  ASSUME PromotionInv, RunsOK', RunIds \subseteq RunIds', approved \subseteq approved',
         \A e \in RunIds : runs'[e] = runs[e],
         CheckedOut', selected' \in Models, UNCHANGED <<files, signer>>
  PROVE  PromotionInv'
<1>1. doc' = doc /\ sigfile' = sigfile /\ signer' = signer
  BY DEF files
<1>2. Shapes'
  BY <1>1 DEF PromotionInv, Shapes
<1>3. DraftsOK'
  BY <1>1, HistoryGrows DEF PromotionInv, DraftsOK
<1>4. SignaturesOK'
  BY <1>1, HistoryGrows DEF PromotionInv, SignaturesOK
<1>5. SignersOK'
  BY <1>1, HistoryGrows DEF PromotionInv, SignersOK, SignerOK
<1> QED
  BY <1>2, <1>3, <1>4, <1>5 DEF PromotionInv

\* A step that leaves the logs alone keeps what every payload says.
LEMMA SameLogs ==
  ASSUME UNCHANGED logs
  PROVE  /\ RunIds' = RunIds /\ (RunsOK <=> RunsOK')
         /\ \A p, m, key : /\ Names(p, m)' <=> Names(p, m)
                           /\ Vouches(p)' <=> Vouches(p)
                           /\ Approved(p, key)' <=> Approved(p, key)
BY DEF logs, RunIds, RunsOK, Names, Vouches, Approved

LEMMA DraftKept ==
  ASSUME PromotionInv, NEW m \in Models, NEW e, CreateDraft(m, e)
  PROVE  PromotionInv'
<1> DEFINE d == [payload |-> Payload(m, e), sig |-> None]
<1>1. /\ doc' = [doc EXCEPT ![m] = d] /\ UNCHANGED <<logs, sigfile, signer, rev, selected>>
      /\ e \in RunIds /\ runs[e].model = m
  BY DEF CreateDraft, checkout, machine
<1>2. d.payload.run = e
  BY DEF Payload
<1>3. DraftsOK'
  <2> SUFFICES ASSUME NEW n \in Models, doc'[n] # None
               PROVE  (Names(doc[n].payload, n))'
    BY DEF DraftsOK
  <2>1. CASE n = m
    <3>1. doc'[n] = d
      BY <1>1, <2>1 DEF PromotionInv, Shapes
    <3>2. runs' = runs /\ e \in RunIds'
      BY <1>1, SameLogs DEF logs
    <3> QED
      BY <1>1, <1>2, <2>1, <3>1, <3>2 DEF Names
  <2>2. CASE n # m
    <3>1. doc'[n] = doc[n]
      BY <1>1, <2>2 DEF PromotionInv, Shapes
    <3>2. Names(doc[n].payload, n)
      BY <3>1 DEF PromotionInv, DraftsOK
    <3> QED
      BY <1>1, <3>1, <3>2, SameLogs DEF Names, logs
  <2> QED
    BY <2>1, <2>2
<1>4. SignaturesOK' /\ SignersOK' /\ RunsOK'
  BY <1>1, SameLogs DEF PromotionInv, SignaturesOK, SignersOK, SignerOK
<1>5. Shapes' /\ CheckedOut'
  BY <1>1 DEF PromotionInv, Shapes, CheckedOut
<1> QED
  BY <1>3, <1>4, <1>5 DEF PromotionInv

LEMMA SignChecksKept ==
  ASSUME PromotionInv, NEW s \in Signers, NEW m \in Models, NEW key, SignChecks(s, m, key)
  PROVE  PromotionInv'
<1> DEFINE p == doc[m].payload
           q == [at |-> "checked", model |-> m, key |-> key, payload |-> p]
<1>1. /\ signer' = [signer EXCEPT ![s] = q]
      /\ approved' = IF key = Trusted THEN approved \union {p.run} ELSE approved
      /\ UNCHANGED <<runs, doc, sigfile, rev, selected>>
  BY DEF SignChecks, checkout, machine, files
<1>2. doc[m] # None /\ p.eligible /\ StillEligible(m)
  BY DEF SignChecks
<1>3. Names(p, m) /\ Vouches(p)
  BY <1>2 DEF StillEligible, Eligible, MatchesHost, PromotionInv, DraftsOK, Names, Vouches
<1>4. RunIds' = RunIds /\ approved \subseteq approved' /\ RunsOK'
  BY <1>1 DEF RunIds, PromotionInv, RunsOK
<1>5. \A x, n, k : /\ Names(x, n) => Names(x, n)'
                   /\ Vouches(x) => Vouches(x)'
                   /\ Approved(x, k) => Approved(x, k)'
  BY <1>1, <1>4 DEF Names, Vouches, Approved
<1>6. Approved(p, key)'
  BY <1>1 DEF Approved
<1>7. DraftsOK' /\ SignaturesOK'
  BY <1>1, <1>5 DEF PromotionInv, DraftsOK, SignaturesOK
<1>8. SignersOK'
  <2> SUFFICES ASSUME NEW t \in Signers
               PROVE  SignerOK(t)'
    BY DEF SignersOK
  <2>1. CASE t = s
    <3>1. signer'[t] = q
      BY <1>1, <2>1 DEF PromotionInv, Shapes
    <3>2. q.at = "checked" /\ q.model = m /\ q.payload = p /\ q.key = key
      OBVIOUS
    <3>3. runs' = runs /\ RunIds' = RunIds
      BY <1>1, <1>4
    <3>4. (Names(signer[t].payload, signer[t].model))' /\ (Vouches(signer[t].payload))'
      BY <3>1, <3>2, <3>3, <1>3 DEF Names, Vouches
    <3>5. (Approved(signer[t].payload, signer[t].key))'
      BY <3>1, <3>2, <1>1 DEF Approved
    <3> QED
      BY <3>1, <3>2, <3>4, <3>5 DEF SignerOK
  <2>2. CASE t # s
    <3>1. signer'[t] = signer[t]
      BY <1>1, <2>2 DEF PromotionInv, Shapes
    <3>2. SignerOK(t) /\ runs' = runs
      BY <1>1 DEF PromotionInv, SignersOK
    <3> QED
      BY <3>1, <3>2, <1>4 DEF SignerOK, Names, Vouches, Approved
  <2> QED
    BY <2>1, <2>2
<1>9. Shapes' /\ CheckedOut'
  BY <1>1 DEF PromotionInv, Shapes, CheckedOut
<1> QED
  BY <1>4, <1>7, <1>8, <1>9 DEF PromotionInv

\* The signature file is written from the process's own copy of the payload.
LEMMA SignKept ==
  ASSUME PromotionInv, NEW s \in Signers, Sign(s)
  PROVE  PromotionInv'
<1> DEFINE m == signer[s].model
           g == Signature(s, signer[s].payload)
<1>1. /\ sigfile' = [sigfile EXCEPT ![m] = g]
      /\ signer' = [signer EXCEPT ![s].at = "signed"]
      /\ signer[s].at = "checked"
      /\ UNCHANGED <<logs, doc, rev, selected>>
  BY DEF Sign, checkout, machine
<1>2. SignerOK(s) /\ signer[s].at # "idle"
  BY <1>1 DEF PromotionInv, SignersOK
<1>3. g.payload = signer[s].payload /\ g.key = signer[s].key
  BY DEF Signature
<1>4. Vouches(g.payload) /\ Approved(g.payload, g.key)
  BY <1>1, <1>2, <1>3 DEF SignerOK
<1>5. runs' = runs /\ approved' = approved /\ RunIds' = RunIds /\ RunsOK'
  BY <1>1 DEF logs, RunIds, PromotionInv, RunsOK
<1>6. SignaturesOK'
  <2> SUFFICES ASSUME NEW n \in Models, sigfile'[n] # None
               PROVE  (Vouches(sigfile[n].payload) /\ Approved(sigfile[n].payload, sigfile[n].key))'
    BY DEF SignaturesOK
  <2>1. CASE n = m
    <3>1. sigfile'[n] = g
      BY <1>1, <2>1 DEF PromotionInv, Shapes
    <3> HIDE DEF g
    <3> QED
      BY <3>1, <1>4, <1>5 DEF Vouches, Approved
  <2>2. CASE n # m
    <3>1. sigfile'[n] = sigfile[n]
      BY <1>1, <2>2 DEF PromotionInv, Shapes
    <3>2. Vouches(sigfile[n].payload) /\ Approved(sigfile[n].payload, sigfile[n].key)
      BY <3>1 DEF PromotionInv, SignaturesOK
    <3> QED
      BY <3>1, <3>2, <1>5 DEF Vouches, Approved
  <2> QED
    BY <2>1, <2>2
<1>7. SignersOK'
  <2> SUFFICES ASSUME NEW t \in Signers PROVE SignerOK(t)'
    BY DEF SignersOK
  <2>1. CASE t = s
    <3>1. signer'[t] = [signer[s] EXCEPT !.at = "signed"]
      BY <1>1, <2>1 DEF PromotionInv, Shapes
    <3>2. /\ signer'[t].model = signer[s].model /\ signer'[t].payload = signer[s].payload
          /\ signer'[t].at # "checked"
      BY <3>1, <1>1 DEF PromotionInv, Shapes, SignerOK
    <3> QED
      BY <3>2, <1>2, <1>5 DEF SignerOK, Names
  <2>2. CASE t # s
    <3>1. signer'[t] = signer[t]
      BY <1>1, <2>2 DEF PromotionInv, Shapes
    <3>2. SignerOK(t)
      BY DEF PromotionInv, SignersOK
    <3> QED
      BY <3>1, <3>2, <1>5 DEF SignerOK, Names, Vouches, Approved
  <2> QED
    BY <2>1, <2>2
<1>8. DraftsOK'
  BY <1>1, SameLogs DEF PromotionInv, DraftsOK
<1>9. Shapes' /\ CheckedOut'
  BY <1>1 DEF PromotionInv, Shapes, CheckedOut
<1> QED
  BY <1>5, <1>6, <1>7, <1>8, <1>9 DEF PromotionInv

\* A process that moves on with the payload it holds, or stops, keeps the
\* invariant: it is past the point where the payload has to be vouched for.
LEMMA SignerMoves ==
  ASSUME PromotionInv, NEW s \in Signers, NEW x,
         signer' = [signer EXCEPT ![s] = x],
         x.at # "checked",
         x.at # "idle" => /\ signer[s].at # "idle"
                          /\ x.model = signer[s].model /\ x.payload = signer[s].payload,
         UNCHANGED logs
  PROVE  SignersOK' /\ signer' = [t \in Signers |-> signer'[t]]
<1>1. runs' = runs /\ approved' = approved /\ RunIds' = RunIds
  BY DEF logs, RunIds
<1>2. ASSUME NEW t \in Signers PROVE SignerOK(t)'
  <2>1. SignerOK(t)
    BY DEF PromotionInv, SignersOK
  <2>2. CASE t = s
    <3>1. signer'[t] = x
      BY <2>2 DEF PromotionInv, Shapes
    <3> QED
      BY <3>1, <2>1, <2>2, <1>1 DEF SignerOK, Names
  <2>3. CASE t # s
    <3>1. signer'[t] = signer[t]
      BY <2>3 DEF PromotionInv, Shapes
    <3> QED
      BY <3>1, <2>1, <1>1 DEF SignerOK, Names, Vouches, Approved
  <2> QED
    BY <2>2, <2>3
<1>3. signer' = [t \in Signers |-> signer'[t]]
  BY DEF PromotionInv, Shapes
<1> QED
  BY <1>2, <1>3 DEF SignersOK

LEMMA SignHashesKept ==
  ASSUME PromotionInv, NEW s \in Signers, SignHashes(s)
  PROVE  PromotionInv'
<1> DEFINE x == [at |-> "hashed", model |-> signer[s].model,
                 payload |-> signer[s].payload, sig |-> sigfile[signer[s].model]]
<1>1. /\ signer' = [signer EXCEPT ![s] = x] /\ signer[s].at = "signed"
      /\ UNCHANGED <<logs, doc, sigfile, rev, selected>>
  BY DEF SignHashes, checkout, machine, files, PromotionInv, Shapes
<1>2. x.at = "hashed" /\ x.model = signer[s].model /\ x.payload = signer[s].payload
  OBVIOUS
<1>3. SignersOK' /\ signer' = [t \in Signers |-> signer'[t]]
  <2> HIDE DEF x
  <2> QED
    BY <1>1, <1>2, SignerMoves
<1>4. RunsOK' /\ DraftsOK' /\ SignaturesOK'
  BY <1>1, SameLogs DEF PromotionInv, DraftsOK, SignaturesOK
<1>5. Shapes' /\ CheckedOut'
  BY <1>1, <1>3 DEF PromotionInv, Shapes, CheckedOut
<1> QED
  BY <1>3, <1>4, <1>5 DEF PromotionInv

\* The document is written back with the payload that was read for signing: a
\* draft of another run that came in between is lost, never mixed with it.
LEMMA SignRecordsKept ==
  ASSUME PromotionInv, NEW s \in Signers, SignRecords(s)
  PROVE  PromotionInv'
<1> DEFINE m == signer[s].model
           d == [payload |-> signer[s].payload, sig |-> signer[s].sig]
<1>1. /\ doc' = [doc EXCEPT ![m] = d] /\ signer' = [signer EXCEPT ![s] = Idle]
      /\ signer[s].at = "hashed" /\ UNCHANGED <<logs, sigfile, rev, selected>>
  BY DEF SignRecords, checkout, machine
<1>2. Names(signer[s].payload, m)
  BY <1>1 DEF PromotionInv, SignersOK, SignerOK
<1>3. SignersOK' /\ signer' = [t \in Signers |-> signer'[t]]
  <2>1. Idle.at = "idle"
    BY DEF Idle
  <2> QED
    BY <1>1, <2>1, SignerMoves
<1>4. runs' = runs /\ RunIds' = RunIds
  BY <1>1 DEF logs, RunIds
<1>5. DraftsOK'
  <2> SUFFICES ASSUME NEW n \in Models, doc'[n] # None
               PROVE  (Names(doc[n].payload, n))'
    BY DEF DraftsOK
  <2>1. CASE n = m
    <3>1. doc'[n] = d /\ d.payload = signer[s].payload
      BY <1>1, <2>1 DEF PromotionInv, Shapes
    <3> HIDE DEF d
    <3> QED
      BY <1>2, <1>4, <2>1, <3>1 DEF Names
  <2>2. CASE n # m
    <3>1. doc'[n] = doc[n]
      BY <1>1, <2>2 DEF PromotionInv, Shapes
    <3>2. Names(doc[n].payload, n)
      BY <3>1 DEF PromotionInv, DraftsOK
    <3> QED
      BY <1>4, <3>1, <3>2 DEF Names
  <2> QED
    BY <2>1, <2>2
<1>6. RunsOK' /\ SignaturesOK'
  BY <1>1, SameLogs DEF PromotionInv, SignaturesOK
<1>7. Shapes' /\ CheckedOut'
  BY <1>1, <1>3 DEF PromotionInv, Shapes, CheckedOut
<1> QED
  BY <1>3, <1>5, <1>6, <1>7 DEF PromotionInv

LEMMA SignerDiesKept ==
  ASSUME PromotionInv, NEW s \in Signers, SignerDies(s)
  PROVE  PromotionInv'
<1>1. /\ signer' = [signer EXCEPT ![s] = Idle]
      /\ UNCHANGED <<logs, doc, sigfile, rev, selected>>
  BY DEF SignerDies, checkout, machine, files
<1>2. Idle.at = "idle"
  BY DEF Idle
<1>3. SignersOK' /\ signer' = [t \in Signers |-> signer'[t]]
  BY <1>1, <1>2, SignerMoves
<1>4. RunsOK' /\ DraftsOK' /\ SignaturesOK'
  BY <1>1, SameLogs DEF PromotionInv, DraftsOK, SignaturesOK
<1>5. Shapes' /\ CheckedOut'
  BY <1>1, <1>3 DEF PromotionInv, Shapes, CheckedOut
<1> QED
  BY <1>3, <1>4, <1>5 DEF PromotionInv

\* A run that passes is appended; those before it keep their numbers.
LEMMA RunPassesKept ==
  ASSUME PromotionInv, NEW mode \in {"quick", "full"}, RunPasses(mode)
  PROVE  PromotionInv'
<1> DEFINE r == [model |-> selected, rev |-> rev, qualified |-> mode = "full" /\ clean]
<1>1. runs' = Append(runs, r) /\ UNCHANGED <<rev, selected, files, signer, approved>>
  BY DEF RunPasses, checkout, machine
<1>2. r \in Run
  BY DEF PromotionInv, CheckedOut, Shapes, Run
<1> HIDE DEF r
<1>3. RunsOK'
  BY <1>1, <1>2 DEF PromotionInv, RunsOK
<1>4. RunIds \subseteq RunIds' /\ \A e \in RunIds : runs'[e] = runs[e]
  BY <1>1, <1>2 DEF RunIds, PromotionInv, RunsOK
<1>5. CheckedOut' /\ selected' \in Models
  BY <1>1 DEF PromotionInv, CheckedOut, Shapes
<1> QED
  BY <1>1, <1>3, <1>4, <1>5, LogsGrow

\* Nothing else writes a run, an approval, a document, a signature or a process.
LEMMA WorldKept ==
  ASSUME PromotionInv, UNCHANGED <<runs, approved, files, signer>>,
         CheckedOut', selected' \in Models
  PROVE  PromotionInv'
<1>1. RunsOK' /\ RunIds' = RunIds
  BY DEF PromotionInv, RunsOK, RunIds
<1> QED
  BY <1>1, LogsGrow

LEMMA PromotionStep == PromotionInv /\ [Next]_vars => PromotionInv'
<1> SUFFICES ASSUME PromotionInv, [Next]_vars PROVE PromotionInv'
  OBVIOUS
<1>0. CheckedOut /\ selected \in Models
  BY DEF PromotionInv, Shapes
<1>1. CASE UNCHANGED vars
  BY <1>0, <1>1, WorldKept DEF vars, checkout, machine, logs, files, CheckedOut
<1>2. ASSUME NEW m \in Models, Deploy(m) \/ SetUpByHand(m) PROVE PromotionInv'
  <2>1. UNCHANGED <<runs, approved, files, signer, rev>> /\ selected' \in Models
    BY <1>2 DEF Deploy, SetUpByHand, checkout, logs
  <2> QED
    BY <1>0, <2>1, WorldKept DEF CheckedOut
<1>3. ASSUME StartExisting \/ \E m \in Models : StartBesideByHand(m) \/ ContainerFails(m)
      PROVE PromotionInv'
  <2>1. UNCHANGED <<runs, approved, files, signer, rev, selected>>
    BY <1>3 DEF StartExisting, StartBesideByHand, ContainerFails, checkout, logs
  <2> QED
    BY <1>0, <2>1, WorldKept DEF CheckedOut
<1>4. ASSUME Commit \/ EditCatalogSomehow \/ \E m \in Models : Promote(m) PROVE PromotionInv'
  <2>1. UNCHANGED <<runs, approved, files, signer, rev, selected>>
    BY <1>4 DEF Commit, EditCatalogSomehow, EditCatalog, Promote, machine, logs
  <2> QED
    BY <1>0, <2>1, WorldKept DEF CheckedOut
<1>5. ASSUME NEW r \in Revisions, Edit(r) PROVE PromotionInv'
  <2>1. UNCHANGED <<runs, approved, files, signer, selected>> /\ rev' = r
    BY <1>5 DEF Edit, logs
  <2> QED
    BY <1>0, <2>1, WorldKept DEF CheckedOut
<1>6. ASSUME NEW e, EvidenceIsSpent(e) PROVE PromotionInv'
  <2>1. UNCHANGED <<runs, approved, files, signer, rev, selected>>
    BY <1>6 DEF EvidenceIsSpent, checkout, machine
  <2> QED
    BY <1>0, <2>1, WorldKept DEF CheckedOut
<1>7. ASSUME NEW mode \in {"quick", "full"}, RunPasses(mode) PROVE PromotionInv'
  BY <1>7, RunPassesKept
<1>8. ASSUME NEW m \in Models, NEW e \in RunIds, CreateDraft(m, e) PROVE PromotionInv'
  BY <1>8, DraftKept
<1>9. ASSUME NEW s \in Signers, NEW m \in Models, NEW key \in Keys, SignChecks(s, m, key)
      PROVE PromotionInv'
  BY <1>9, SignChecksKept
<1>10. ASSUME NEW s \in Signers, Sign(s) \/ SignHashes(s) \/ SignRecords(s) \/ SignerDies(s)
       PROVE PromotionInv'
  BY <1>10, SignKept, SignHashesKept, SignRecordsKept, SignerDiesKept
<1> QED
  BY <1>1, <1>2, <1>3, <1>4, <1>5, <1>6, <1>7, <1>8, <1>9, <1>10 DEF Next

\* The invariant holds in every reachable state.
THEOREM PayloadsAreFollowed == Spec => []PromotionInv
BY PromotionInit, PromotionStep, PTL DEF Spec

\* Whatever happens between the checks of attest sign and its signature, a
\* signature covers only an eligible payload, of a full run of a clean commit.
THEOREM SignaturesAreQualified == Spec => []SignedIsQualified
<1>1. PromotionInv => SignedIsQualified
  BY DEF PromotionInv, SignaturesOK, Vouches, SignedIsQualified
<1> QED
  BY <1>1, PayloadsAreFollowed, PTL

\* An entry that verifies is one whose run passed every check of attest sign under
\* the trusted key, and its container is the one in place now.
THEOREM AdmissionIsBacked == Spec => []VerifiedIsBacked
<1>1. PromotionInv => VerifiedIsBacked
  <2> SUFFICES ASSUME PromotionInv, NEW m \in Models, Verified(m)
               PROVE  /\ catalog[m].payload.run \in approved
                      /\ runs[catalog[m].payload.run].model = m
                      /\ runs[catalog[m].payload.run].rev = rev
                      /\ running[m] = rev
    BY DEF VerifiedIsBacked
  <2> DEFINE p == doc[m].payload
  <2>1. catalog[m].payload = p /\ doc[m] # None /\ PromotionEligible(m)
    BY DEF Verified
  <2>2. sigfile[m] # None /\ sigfile[m].payload = p /\ sigfile[m].key = Trusted
    BY <2>1 DEF PromotionEligible, Authentic, SignatureIsNamed
  <2>3. p.run \in approved
    BY <2>2 DEF PromotionInv, SignaturesOK, Approved
  <2>4. MatchesHost(m, p.run)
    BY <2>1 DEF PromotionEligible, StillEligible, Eligible
  <2> QED
    BY <2>1, <2>3, <2>4 DEF MatchesHost, ConfigurationIs, LiveIs
<1> QED
  BY <1>1, PayloadsAreFollowed, PTL
=============================================================================
