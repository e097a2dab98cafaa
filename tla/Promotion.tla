------------------------------ MODULE Promotion ------------------------------
(***************************************************************************)
(* From a passed acceptance run to the right to change the runtime         *)
(* (attestation.py, catalog.py, scripts/model-manager.py, cli.py).         *)
(*                                                                         *)
(* A run leaves private evidence; attest create copies its subject into a  *)
(* draft; attest sign checks the draft against the evidence and the host,  *)
(* signs it, and only then writes the signature's digest into the draft; a *)
(* Catalog edit names the draft.  The planner believes none of this: each  *)
(* admission verifies the signature and compares the evidence with what    *)
(* runs now.                                                               *)
(*                                                                         *)
(* A revision stands for every validation input, Catalog and repository; a *)
(* container is the revision it was started from; a run is its number, and *)
(* is qualified if it was full and of a clean commit.                     *)
(***************************************************************************)
EXTENDS Naturals, Sequences, FiniteSets

CONSTANTS Models,     \* Catalog entries
          Signers,    \* processes that run attest sign
          Revisions,  \* revisions of the validation inputs
          Keys,       \* signing keys
          Trusted,    \* the key the host's external fingerprint names
          Capacity,   \* how many models the GPU has memory for
          MaxRuns,    \* bound: acceptance runs of one model that passed
          MaxMishaps, \* bound: how often the world interferes
          None        \* no document, signature, container

ASSUME TrustedAssumption == Trusted \in Keys
ASSUME CapacityAssumption == Capacity \in Nat /\ MaxRuns \in Nat /\ MaxMishaps \in Nat
ASSUME NoneAssumption ==
  None \notin Models \union Revisions \union {"idle"}

VARIABLES rev,       \* revision in the checkout
          clean,     \* nothing in it is uncommitted
          catalog,   \* model -> its promotion fields
          selected,  \* model of the private deployment profile
          running,   \* model -> revision of its healthy container, or None
          runs,      \* the runs that passed, in order
          spent,     \* runs whose evidence is thirty days old, or gone, or of a
                     \* host whose hardware or programs have changed since
          doc,       \* model -> attestation file, or None
          sigfile,   \* model -> detached signature file, or None
          signer,    \* process -> where it is in attest sign
          approved,  \* history: runs whose payload went to the trusted key after
                     \* every check of attest sign
          mishaps    \* how often the world has interfered

checkout == <<rev, clean, catalog>>
machine == <<selected, running>>
logs == <<runs, spent, approved>>
files == <<doc, sigfile>>
vars == <<checkout, machine, logs, files, signer, mishaps>>

Roles == {"lts", "rollback", "candidate"}
Idle == [at |-> "idle"]

\* validate_catalog: one lts entry, at most one rollback and one candidate; an
\* entry is validated exactly when it names an attestation.
ValidCatalog(entries) ==
  /\ Cardinality({m \in Models : entries[m].role = "lts"}) = 1
  /\ \A r \in Roles : Cardinality({m \in Models : entries[m].role = r}) <= 1
  /\ \A m \in Models : entries[m].validated <=> entries[m].payload # None

Provisional == [validated |-> FALSE, role |-> "candidate", payload |-> None]

Init ==
  /\ rev \in Revisions
  /\ clean = TRUE
  /\ catalog \in [Models -> [validated : {FALSE}, role : Roles, payload : {None}]]
  /\ ValidCatalog(catalog)
  /\ selected \in Models
  /\ running = [m \in Models |-> None]
  /\ runs = <<>> /\ spent = {} /\ approved = {}
  /\ doc = [m \in Models |-> None]
  /\ sigfile = [m \in Models |-> None]
  /\ signer = [s \in Signers |-> Idle]
  /\ mishaps = 0

--------------------------------------------------------------------------------
(* What the evidence of a run says about the host as it is.                *)

RunIds == 1 .. Len(runs)

\* runtime_mismatches: the container is the one Compose renders from the checkout.
Canonical(m) == running[m] = rev

\* acceptance_configuration: the files of the repository and the private profile.
ConfigurationIs(e) == runs[e].rev = rev /\ runs[e].model = selected

\* normalized_live_runtime: the container with the model's name is healthy and has
\* the configuration of the one the run saw, which was canonical.
LiveIs(m, e) == running[m] = runs[e].rev

\* Mutant: the evidence is compared with the Catalog and the repository alone.
MatchesHostByCatalog(m, e) ==
  /\ e \in RunIds \ spent
  /\ runs[e].model = m
  /\ runs[e].rev = rev

\* acceptance_matches_host
MatchesHost(m, e) ==
  /\ e \in RunIds \ spent
  /\ runs[e].model = m
  /\ ConfigurationIs(e)
  /\ LiveIs(m, e)

\* _eligibility: a full run of a clean commit that matches a clean checkout.
Eligible(m, e) ==
  /\ runs[e].qualified
  /\ clean
  /\ MatchesHost(m, e)

\* discover_host_acceptance, for the caveats of a plan and the anchor's evidence.
Discovered(m) == {e \in RunIds : MatchesHost(m, e)}

--------------------------------------------------------------------------------
(* Verification of an attestation by the planner.                          *)

\* _current_validation_input
InputIsCurrent(e) == runs[e].rev = rev

\* _validated_lifecycle: the thirty days of the evidence.  A revocation or a
\* supersession is never written, and one by hand is no canonical subject.
Alive(m) == doc[m].payload.run \notin spent

\* _evidence_subject_recheck, _current_source_eligibility: the evidence still says
\* what the document says, and is eligible now.
StillEligible(m) == Eligible(m, doc[m].payload.run)

\* The signature file is the one the document names, for that very payload.
SignatureIsNamed(m) ==
  /\ doc[m] # None /\ doc[m].sig # None
  /\ sigfile[m] = doc[m].sig

\* Mutant: any key that verifies the signature will do.
AuthenticAnyKey(m) == SignatureIsNamed(m) /\ sigfile[m].payload = doc[m].payload

\* ... and it verifies the document's payload, with the key the host trusts.
Authentic(m) ==
  /\ SignatureIsNamed(m)
  /\ sigfile[m].payload = doc[m].payload
  /\ sigfile[m].key = Trusted

\* The promotion checks of verify_detached.
PromotionEligible(m) ==
  /\ Authentic(m)
  /\ doc[m].payload.eligible
  /\ Alive(m)
  /\ InputIsCurrent(doc[m].payload.run)
  /\ StillEligible(m)

\* catalog_attestation_verification: what the Catalog says of itself is only
\* the name of the document.
Verified(m) ==
  /\ catalog[m].validated
  /\ doc[m] # None /\ catalog[m].payload = doc[m].payload
  /\ PromotionEligible(m)

\* catalog_deployment_eligible, catalog_recovery_eligible
DeploymentEligible(m) == catalog[m].role = "lts" /\ Verified(m)
RecoveryEligible(m) == catalog[m].role = "rollback" /\ Verified(m)

--------------------------------------------------------------------------------
(* Admissions.                                                             *)

\* resources_available_now: memory for one more model next to what runs.
ResourcesAvailable ==
  Cardinality({m \in Models : running[m] # None}) < Capacity

\* plan_for_host with readyToDeploy: hardware, free memory and Catalog.
ReadyToDeploy(m) == ResourcesAvailable /\ DeploymentEligible(m)

\* admission_payload --replacement: without asking for free memory.
ReadyToReplaceExisting(m) == DeploymentEligible(m)

\* admission_payload --existing-selection: no Catalog eligibility at all.
ReadyToStartExisting(m) == selected = m

\* controller_snapshot: nothing is uncommitted, so the commit names the controller.
ControllerIsReproducible == clean

\* acceptance_identity: the evidence that the admission of the source discovered.
HasAcceptanceIdentity(m) == Discovered(m) # {}

\* capture_rollback_spec, which the dry run of an upgrade asks for too.
CanCapture(m) ==
  /\ RecoveryEligible(m) /\ ReadyToStartExisting(m)
  /\ running[m] # None
  /\ ControllerIsReproducible
  /\ HasAcceptanceIdentity(m)

\* Deploy: the plan and the independent admission after it.
Deploy(m) ==
  /\ ReadyToDeploy(m)
  /\ selected' = m
  /\ running' = [x \in Models |-> IF x = m THEN rev ELSE None]
  /\ UNCHANGED <<checkout, logs, files, signer, mishaps>>

\* Upgrade, up to the approval: the selected source as an anchor, the target, the
\* capture of the source.
AdmitsUpgrade(target) ==
  /\ target # selected
  /\ ReadyToStartExisting(selected) /\ RecoveryEligible(selected)
  /\ ReadyToReplaceExisting(target)
  /\ CanCapture(selected)

\* runtime.sh start: Compose replaces the container of the one service.
StartExisting ==
  /\ ReadyToStartExisting(selected)
  /\ running' = [m \in Models |-> IF m = selected THEN rev ELSE None]
  /\ UNCHANGED <<checkout, selected, logs, files, signer, mishaps>>

--------------------------------------------------------------------------------
(* Evidence and attestations.                                              *)

\* What the model bounds: edits, failures, and evidence that loses its force.
Interferes == mishaps < MaxMishaps /\ mishaps' = mishaps + 1

\* acceptance-suite.sh: a run that passed seals what it saw.
RunPasses(mode) ==
  /\ Cardinality({e \in RunIds : runs[e].model = selected}) < MaxRuns
  /\ Canonical(selected)
  /\ runs' = Append(runs, [model |-> selected, rev |-> rev,
                           qualified |-> mode = "full" /\ clean])
  /\ UNCHANGED <<checkout, machine, spent, approved, files, signer, mishaps>>

\* _evidence_subject and the claims about it; drafts of one content are one.
Payload(m, e) == [run |-> e, eligible |-> Eligible(m, e)]

\* create_draft: of any evidence that passed; the draft says whether it is
\* eligible.  An earlier document of that name is replaced.
CreateDraft(m, e) ==
  /\ e \in RunIds /\ runs[e].model = m
  /\ doc' = [doc EXCEPT ![m] = [payload |-> Payload(m, e), sig |-> None]]
  /\ UNCHANGED <<checkout, machine, logs, sigfile, signer, mishaps>>

\* sign_file up to the signer: an unsigned eligible draft, alive, that the
\* evidence still supports.  Its look at the checkout ignores the document and the
\* signature; here neither makes a checkout dirty.
SignChecks(s, m, key) ==
  /\ signer[s] = Idle
  /\ doc[m] # None /\ doc[m].sig = None
  /\ doc[m].payload.eligible
  /\ Alive(m)
  /\ StillEligible(m)
  /\ signer' = [signer EXCEPT ![s] = [at |-> "checked", model |-> m, key |-> key,
                                      payload |-> doc[m].payload]]
  /\ approved' = IF key = Trusted THEN approved \union {doc[m].payload.run} ELSE approved
  /\ UNCHANGED <<checkout, machine, runs, spent, files, mishaps>>

Signature(s, payload) == [payload |-> payload, key |-> signer[s].key]

\* Mutant: the document is read again for signing.
SignRereads(s) ==
  /\ signer[s].at = "checked"
  /\ doc[signer[s].model] # None
  /\ sigfile' = [sigfile EXCEPT ![signer[s].model] =
                   Signature(s, doc[signer[s].model].payload)]
  /\ signer' = [signer EXCEPT ![s].at = "signed"]
  /\ UNCHANGED <<checkout, machine, logs, doc, mishaps>>

\* The signing program writes the signature file, of the payload that was read.
Sign(s) ==
  /\ signer[s].at = "checked"
  /\ sigfile' = [sigfile EXCEPT ![signer[s].model] =
                   Signature(s, signer[s].payload)]
  /\ signer' = [signer EXCEPT ![s].at = "signed"]
  /\ UNCHANGED <<checkout, machine, logs, doc, mishaps>>

\* The digest is taken of the signature file that is there now ...
SignHashes(s) ==
  /\ signer[s].at = "signed"
  /\ signer' = [signer EXCEPT ![s] = [at |-> "hashed", model |-> @.model,
                  payload |-> @.payload, sig |-> sigfile[@.model]]]
  /\ UNCHANGED <<checkout, machine, logs, files, mishaps>>

\* ... and the document that was read is written back with it.
SignRecords(s) ==
  /\ signer[s].at = "hashed"
  /\ doc' = [doc EXCEPT ![signer[s].model] =
               [payload |-> signer[s].payload, sig |-> signer[s].sig]]
  /\ signer' = [signer EXCEPT ![s] = Idle]
  /\ UNCHANGED <<checkout, machine, logs, sigfile, mishaps>>

SignerDies(s) ==
  /\ Interferes
  /\ signer[s] # Idle
  /\ signer' = [signer EXCEPT ![s] = Idle]
  /\ UNCHANGED <<checkout, machine, logs, files>>

--------------------------------------------------------------------------------
(* The maintainer, the clock and the host.                                 *)

\* The Catalog names a document as an entry's attestation, whatever is in it;
\* promotion fields are no validation input.
Promote(m) ==
  /\ doc[m] # None
  /\ catalog' = [catalog EXCEPT ![m].validated = TRUE, ![m].payload = doc[m].payload]
  /\ clean' = FALSE
  /\ UNCHANGED <<rev, machine, logs, files, signer, mishaps>>

\* Entries change their roles, or one is withdrawn.
EditCatalog(entries) ==
  /\ Interferes
  /\ ValidCatalog(entries)
  /\ catalog' = entries
  /\ clean' = FALSE
  /\ UNCHANGED <<rev, machine, logs, files, signer>>

EditCatalogSomehow ==
  \/ \E m, n \in Models :
       m # n /\ EditCatalog([catalog EXCEPT ![m].role = catalog[n].role,
                                            ![n].role = catalog[m].role])
  \/ \E m \in Models :
       /\ catalog[m].validated
       /\ EditCatalog([catalog EXCEPT ![m].validated = FALSE, ![m].payload = None])

\* An edit changes a validation input, and what Compose renders, or not: if not,
\* the containers of the old revision are those of the new one.
Edit(r) ==
  /\ Interferes
  /\ r # rev
  /\ rev' = r
  /\ clean' = FALSE
  /\ \/ UNCHANGED running
     \/ running' = [m \in Models |-> IF running[m] = rev THEN r ELSE running[m]]
  /\ UNCHANGED <<catalog, selected, logs, files, signer>>

Commit ==
  /\ ~clean
  /\ clean' = TRUE
  /\ UNCHANGED <<rev, catalog, machine, logs, files, signer, mishaps>>

EvidenceIsSpent(e) ==
  /\ Interferes
  /\ e \notin spent
  /\ spent' = spent \union {e}
  /\ UNCHANGED <<checkout, machine, runs, approved, files, signer>>

\* A host's first model can only come from outside: somebody writes the profile
\* and starts the container, or starts a second one next to it.
SetUpByHand(m) ==
  /\ Interferes
  /\ selected' = m
  /\ running' = [x \in Models |-> IF x = m THEN rev ELSE None]
  /\ UNCHANGED <<checkout, logs, files, signer>>

StartBesideByHand(m) ==
  /\ Interferes
  /\ running[m] = None /\ ResourcesAvailable
  /\ running' = [running EXCEPT ![m] = rev]
  /\ UNCHANGED <<checkout, selected, logs, files, signer>>

ContainerFails(m) ==
  /\ Interferes
  /\ running[m] # None
  /\ running' = [running EXCEPT ![m] = None]
  /\ UNCHANGED <<checkout, selected, logs, files, signer>>

Next ==
  \/ \E m \in Models : Deploy(m)
  \/ StartExisting
  \/ \E mode \in {"quick", "full"} : RunPasses(mode)
  \/ \E m \in Models, e \in RunIds : CreateDraft(m, e)
  \/ \E s \in Signers, m \in Models, key \in Keys : SignChecks(s, m, key)
  \/ \E s \in Signers : Sign(s) \/ SignHashes(s) \/ SignRecords(s) \/ SignerDies(s)
  \/ \E m \in Models : Promote(m)
  \/ EditCatalogSomehow
  \/ \E r \in Revisions : Edit(r)
  \/ Commit
  \/ \E e \in RunIds : EvidenceIsSpent(e)
  \/ \E m \in Models : SetUpByHand(m) \/ StartBesideByHand(m) \/ ContainerFails(m)

Spec == Init /\ [][Next]_vars

--------------------------------------------------------------------------------
Payloads == [run : RunIds, eligible : BOOLEAN]
Signatures == [payload : Payloads, key : Keys]

TypeOK ==
  /\ rev \in Revisions /\ clean \in BOOLEAN
  /\ catalog \in [Models -> [validated : BOOLEAN, role : Roles,
                             payload : Payloads \union {None}]]
  /\ ValidCatalog(catalog)
  /\ selected \in Models
  /\ running \in [Models -> Revisions \union {None}]
  /\ spent \subseteq RunIds /\ approved \subseteq RunIds
  /\ doc \in [Models -> [payload : Payloads, sig : Signatures \union {None}] \union {None}]
  /\ sigfile \in [Models -> Signatures \union {None}]
  /\ \A m \in Models : doc[m] # None => runs[doc[m].payload.run].model = m

\* "Public-key trust alone never turns old or partial evidence into a promotion":
\* whatever happens between the checks of attest sign and its signature, a
\* signature covers only a payload that claims eligibility, and that of a full
\* run of a clean commit.
SignedIsQualified ==
  \A m \in Models : sigfile[m] # None =>
    /\ sigfile[m].payload.eligible
    /\ runs[sigfile[m].payload.run].qualified

\* The Catalog's own words never authorize: an entry that counts as verified is
\* one whose run the holder of the trusted key was given by attest sign, after
\* all of its checks, and the container that run measured, with its inputs, is
\* the one in place now, whatever was edited, signed again or started since.
VerifiedIsBacked ==
  \A m \in Models : Verified(m) =>
    /\ catalog[m].payload.run \in approved
    /\ LET run == runs[catalog[m].payload.run] IN
         run.model = m /\ run.rev = rev /\ running[m] = rev

\* An admission to change the runtime is given only for the model that is already
\* selected and running, so no upgrade is ever admitted: its source and its
\* target would both have to match the one private profile and their own
\* running container (acceptance_matches_host, under both eligibilities).
AdmitsOnlyTheInstalled ==
  \A m \in Models :
    /\ ReadyToDeploy(m) => m = selected /\ running[m] # None
    /\ ~AdmitsUpgrade(m)
================================================================================
