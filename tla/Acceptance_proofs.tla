-------------------------- MODULE Acceptance_proofs --------------------------
(***************************************************************************)
(* What recorded evidence is worth, for plans of any length, any number of *)
(* upgrades, container processes and edits.                                *)
(*                                                                         *)
(* The properties speak of sealed evidence; the invariant follows a run    *)
(* from its log to its seal. Its record lags behind what its children did  *)
(* by the one that has ended last. The processes its children met lie      *)
(* between the one the run was opened on and the one that runs now, and    *)
(* process numbers only grow: so a checkpoint that finds the container of  *)
(* the opening knows that nobody met another one.                          *)
(***************************************************************************)
EXTENDS Acceptance, TLAPS

RunType == [at : Places, ok : BOOLEAN,
            built : [inputs : Versions, model : {"source", "target"}]]

TxType == [state : {"none", "planned", "target-full", "publish-rollback", "completed",
                    "recovery_required", "failed-restored"},
           inputs : Versions, receipt : Evidences \cup {None}]

CliType == [at : {"none", "plan", "spawn", "wait", "read", "publish"}, tx : Transactions]

WorldTypes == container \in ContainerStates /\ inputs \in Versions /\ edits \in 0..MaxEdits

RunTypes ==
  /\ run \in [Runs -> RunType]
  /\ manifest \in [Runs -> Manifests \cup {None}]
  /\ evidence \in [Runs -> Evidences \cup {None}]
  /\ did \in [Runs -> Results]
  /\ saw \in [Transactions -> SUBSET (1..MaxProcesses)]
  /\ disturbed \in SUBSET Runs

CommandTypes == tx \in [Transactions -> TxType] /\ cli \in CliType

Started == {"step", "child", "ended", "append", "exit", "finish", "write", "built"}

AllTrue(results) == \A i \in DOMAIN results : results[i] = TRUE

\* The run did what its plan says, its record says so, and if it is bound, its
\* children met the one process it was opened on.
Complete(n) ==
  /\ did[n] = AllPassed(n) /\ manifest[n].results = AllPassed(n)
  /\ n > 0 => saw[n] = {manifest[n].frozen.process}

\* The record and the children.
RecordOK(n) ==
  /\ run[n].at \in Started => manifest[n] \in Manifests
  /\ run[n].at \in {"none", "log"} => manifest[n] = None /\ did[n] = <<>>
  /\ run[n].at \in {"step", "child"} =>
       /\ did[n] = manifest[n].results /\ AllTrue(did[n]) /\ Len(did[n]) <= Steps(n)
       /\ run[n].at = "child" => Len(did[n]) < Steps(n)
  /\ run[n].at \in {"ended", "append"} =>
       /\ did[n] = Append(manifest[n].results, run[n].ok)
       /\ AllTrue(manifest[n].results) /\ Len(manifest[n].results) < Steps(n)
  /\ run[n].at \in {"exit", "finish"} => (run[n].ok => Complete(n))
  /\ run[n].at \in {"write", "built"} => (manifest[n].status = "passed" => Complete(n))

\* The processes the children of a bound run met.
SawOK(n) == n > 0 =>
  /\ run[n].at \in {"none", "log"} => saw[n] = {}
  /\ run[n].at \in Started => manifest[n].frozen.process <= container.process
  /\ run[n].at \in {"step", "append"} =>
       saw[n] = IF did[n] = <<>> THEN {} ELSE {manifest[n].frozen.process}
  /\ run[n].at \in {"child", "ended"} =>
       saw[n] # {} /\ saw[n] \subseteq manifest[n].frozen.process .. container.process

\* What the evidence is built from, and what it says once it is sealed.
MadeFrom(n, built) ==
  /\ n > 0 => built.inputs = tx[n].inputs
  /\ manifest[n].status = "passed" =>
       /\ built.inputs = manifest[n].frozen.inputs
       /\ n > 0 => built.model = manifest[n].frozen.model

EvidenceOK(n) ==
  /\ run[n].at = "built" => MadeFrom(n, run[n].built)
  /\ evidence[n] # None =>
       /\ run[n].at = "done" /\ evidence[n].manifest = manifest[n]
       /\ manifest[n].status = "passed" => Complete(n)
       /\ MadeFrom(n, evidence[n])

RunOK(n) ==
  /\ RecordOK(n) /\ SawOK(n) /\ EvidenceOK(n)
  /\ n > 0 /\ run[n].at # "none" => tx[n].state # "none"

\* The transaction whose receipt was taken, and the command that takes it.
SealedPass(n) == evidence[n] # None /\ evidence[n].manifest.status = "passed"

TxOK(t) == tx[t].state \in {"publish-rollback", "completed"} =>
  SealedPass(t) /\ tx[t].receipt = evidence[t]

CliOK ==
  /\ cli.at # "none" => tx[cli.tx].state # "none"
  /\ cli.at = "read" => SealedPass(cli.tx)

AcceptanceInv ==
  /\ WorldTypes /\ RunTypes /\ CommandTypes
  /\ \A n \in Runs : RunOK(n)
  /\ \A t \in Transactions : TxOK(t)
  /\ CliOK

LEMMA AcceptanceTypes == AcceptanceInv => TypeOK
BY DEF AcceptanceInv, WorldTypes, RunTypes, CommandTypes, TypeOK, RunType, TxType, CliType

--------------------------------------------------------------------------------
(* Results of steps.                                                       *)

LEMMA StepsAreNat ==
  ASSUME NEW n \in Runs
  PROVE  Steps(n) \in Nat \ {0} /\ Steps(n) <= FullSteps + QuickSteps
BY StepsAssumption DEF Steps

LEMMA ResultsAreSeqs ==
  ASSUME NEW s
  PROVE  s \in Results <=> s \in Seq(BOOLEAN) /\ Len(s) <= FullSteps + QuickSteps
<1>0. FullSteps + QuickSteps \in Nat
  BY StepsAssumption
<1>1. ASSUME s \in Results PROVE s \in Seq(BOOLEAN) /\ Len(s) <= FullSteps + QuickSteps
  <2>1. PICK k \in 0..(FullSteps + QuickSteps) : s \in [1..k -> BOOLEAN]
    BY <1>1 DEF Results
  <2> QED
    BY <1>0, <2>1
<1>2. ASSUME s \in Seq(BOOLEAN), Len(s) <= FullSteps + QuickSteps PROVE s \in Results
  <2>1. Len(s) \in 0..(FullSteps + QuickSteps) /\ s \in [1..Len(s) -> BOOLEAN]
    BY <1>0, <1>2
  <2> QED
    BY <2>1 DEF Results
<1> QED
  BY <1>1, <1>2

LEMMA EmptyResult == <<>> \in Results /\ AllTrue(<<>>) /\ Len(<<>>) = 0
<1>1. <<>> \in Seq(BOOLEAN) /\ Len(<<>>) = 0
  OBVIOUS
<1>2. <<>> \in Results
  <2>1. Len(<<>>) <= FullSteps + QuickSteps
    BY <1>1, StepsAssumption
  <2> QED
    BY <1>1, <2>1, ResultsAreSeqs, Zenon
<1> QED
  BY <1>1, <1>2 DEF AllTrue

LEMMA AppendedResult ==
  ASSUME NEW n \in Runs, NEW s \in Results, NEW ok \in BOOLEAN, Len(s) < Steps(n)
  PROVE  /\ Append(s, ok) \in Results /\ Append(s, ok) # <<>>
         /\ Len(Append(s, ok)) <= Steps(n)
         /\ ok /\ AllTrue(s) => AllTrue(Append(s, ok))
<1>1. s \in Seq(BOOLEAN)
  BY ResultsAreSeqs
<1>2. Append(s, ok) \in Seq(BOOLEAN) /\ Len(Append(s, ok)) = Len(s) + 1
  BY <1>1
<1>3. Append(s, ok) \in Results
  <2>1. Len(Append(s, ok)) <= FullSteps + QuickSteps
    BY <1>1, <1>2, StepsAreNat, StepsAssumption
  <2> QED
    BY <1>2, <2>1, ResultsAreSeqs, Zenon
<1>4. ASSUME ok, AllTrue(s) PROVE AllTrue(Append(s, ok))
  BY <1>1, <1>4 DEF AllTrue
<1> QED
  BY <1>1, <1>2, <1>3, <1>4, StepsAreNat

LEMMA FullResult ==
  ASSUME NEW n \in Runs, NEW s \in Results, AllTrue(s), Len(s) = Steps(n)
  PROVE  s = AllPassed(n) /\ s # <<>>
<1>1. s \in Seq(BOOLEAN) /\ Steps(n) \in Nat \ {0}
  BY ResultsAreSeqs, StepsAreNat
<1> QED
  BY <1>1 DEF AllTrue, AllPassed

--------------------------------------------------------------------------------
LEMMA AcceptanceInit == Init => AcceptanceInv
<1> SUFFICES ASSUME Init PROVE AcceptanceInv
  OBVIOUS
<1>1. WorldTypes
  BY BoundsAssumption DEF Init, WorldTypes, ContainerStates, Versions
<1>2. RunTypes
  BY EmptyResult DEF Init, RunTypes, RunType, NotBuilt, Places, Versions
<1>3. CommandTypes
  BY BoundsAssumption DEF Init, CommandTypes, TxType, CliType, Versions, Transactions
<1>4. ASSUME NEW n \in Runs PROVE RunOK(n)
  BY DEF Init, RunOK, RecordOK, SawOK, EvidenceOK, Started, Runs, Transactions
<1>5. CliOK /\ \A t \in Transactions : TxOK(t)
  BY DEF Init, CliOK, TxOK
<1> QED
  BY <1>1, <1>2, <1>3, <1>4, <1>5 DEF AcceptanceInv

\* A step of run n leaves the others alone.
LEMMA OneRun ==
  ASSUME AcceptanceInv, NEW n \in Runs, RunTypes',
         \A k \in Runs \ {n} : /\ run'[k] = run[k] /\ manifest'[k] = manifest[k]
                               /\ evidence'[k] = evidence[k] /\ did'[k] = did[k],
         \A t \in Transactions \ {n} : saw'[t] = saw[t],
         UNCHANGED <<world, tx>>,
         RunOK(n)',
         evidence[n] # None => evidence'[n] = evidence[n],
         CommandTypes', CliOK' \/ UNCHANGED cli
  PROVE  AcceptanceInv'
<1>0. UNCHANGED <<container, inputs, edits>>
  BY DEF world
<1>1. ASSUME NEW k \in Runs PROVE RunOK(k)'
  <2>1. CASE k = n
    BY <2>1
  <2>2. CASE k # n
    <3>1. RunOK(k) /\ (k > 0 => k \in Transactions)
      BY DEF AcceptanceInv, Runs, Transactions
    <3>2. Complete(k) => Complete(k)'
      BY <2>2, <3>1 DEF Complete, AllPassed, Steps
    <3>4. RecordOK(k)'
      BY <2>2, <3>1, <3>2 DEF RunOK, RecordOK, AllTrue, Steps
    <3>5. EvidenceOK(k)'
      BY <2>2, <3>1, <3>2 DEF RunOK, EvidenceOK, MadeFrom
    <3>3. SawOK(k)'
      BY <1>0, <2>2, <3>1 DEF RunOK, SawOK
    <3> QED
      BY <2>2, <3>1, <3>3, <3>4, <3>5 DEF RunOK
  <2> QED
    BY <2>1, <2>2
<1>2. ASSUME NEW t \in Transactions
      PROVE  SealedPass(t) => SealedPass(t)' /\ evidence'[t] = evidence[t]
  <2>1. t \in Runs
    BY BoundsAssumption DEF Runs, Transactions
  <2> QED
    BY <2>1 DEF SealedPass
<1>3. ASSUME NEW t \in Transactions PROVE TxOK(t)'
  <2>1. TxOK(t)
    BY DEF AcceptanceInv
  <2> QED
    BY <1>2, <2>1 DEF TxOK
<1>4. CliOK'
  <2>1. CASE UNCHANGED cli
    <3>1. CliOK /\ cli.tx \in Transactions
      BY DEF AcceptanceInv, CommandTypes, CliType
    <3> QED
      BY <1>2, <2>1, <3>1 DEF CliOK
  <2> QED
    BY <2>1
<1>5. WorldTypes'
  BY <1>0 DEF AcceptanceInv, WorldTypes
<1> QED
  BY <1>1, <1>3, <1>4, <1>5 DEF AcceptanceInv

\* A run that ends without evidence leaves nothing to answer for.
LEMMA UnsealedKept ==
  ASSUME AcceptanceInv, NEW n \in Runs, NEW place \in {"done", "killed"},
         run[n].at \notin {"none", "done", "killed"},
         EndsUnsealed(n, place),
         UNCHANGED <<world, tx, manifest, evidence>>,
         CommandTypes', CliOK' \/ UNCHANGED cli
  PROVE  AcceptanceInv'
<1> DEFINE r == [at |-> place, ok |-> FALSE, built |-> NotBuilt]
<1>1. r \in RunType /\ r.at = place
  BY DEF RunType, Places, NotBuilt, Versions
<1>2. /\ run' = [run EXCEPT ![n] = r] /\ did' = [did EXCEPT ![n] = <<>>]
      /\ saw' = [t \in Transactions |-> IF t = n THEN {} ELSE saw[t]]
      /\ disturbed' = disturbed \ {n}
  BY DEF EndsUnsealed
<1> HIDE DEF r
<1>3. RunTypes /\ RunOK(n)
  BY DEF AcceptanceInv
<1>4. RunTypes'
  BY <1>1, <1>2, <1>3, EmptyResult DEF RunTypes
<1>5. run'[n] = r
  BY <1>2, <1>3 DEF RunTypes
<1>6. RunOK(n)'
  BY <1>1, <1>3, <1>5 DEF RunOK, RecordOK, SawOK, EvidenceOK, Started
<1>7. \A k \in Runs \ {n} : run'[k] = run[k] /\ did'[k] = did[k]
  BY <1>2, <1>3 DEF RunTypes
<1> QED
  BY <1>2, <1>4, <1>6, <1>7, OneRun

\* A run goes to its next place, with its record and its children as they are.
LEMMA PlaceKept ==
  ASSUME AcceptanceInv, NEW n \in Runs, NEW r \in RunType,
         run' = [run EXCEPT ![n] = r],
         run[n].at \notin {"done", "killed"}, r.at # "none",
         UNCHANGED <<world, tx, manifest, evidence, did, disturbed, saw>>,
         RecordOK(n)', SawOK(n)', r.at = "built" => MadeFrom(n, r.built),
         n > 0 => tx[n].state # "none",
         CommandTypes', CliOK' \/ UNCHANGED cli
  PROVE  AcceptanceInv'
<1>1. RunTypes /\ RunOK(n)
  BY DEF AcceptanceInv
<1>2. RunTypes' /\ run'[n] = r /\ \A k \in Runs \ {n} : run'[k] = run[k]
  BY <1>1 DEF RunTypes
<1>3. EvidenceOK(n)'
  <2>1. evidence[n] = None
    BY <1>1 DEF RunOK, EvidenceOK
  <2> QED
    BY <1>2, <2>1 DEF EvidenceOK, MadeFrom
<1>4. RunOK(n)'
  BY <1>2, <1>3 DEF RunOK
<1> QED
  BY <1>2, <1>4, OneRun

\* The place alone.
LEMMA GoesToPlace ==
  ASSUME AcceptanceInv, NEW n \in Runs, NEW place \in Places
  PROVE  \E r \in RunType :
           /\ [run EXCEPT ![n].at = place] = [run EXCEPT ![n] = r]
           /\ r.at = place /\ r.ok = run[n].ok /\ r.built = run[n].built
<1>1. run \in [Runs -> RunType] /\ run[n] \in RunType
  BY DEF AcceptanceInv, RunTypes
<1> DEFINE r == [run[n] EXCEPT !.at = place]
<1>2. r \in RunType /\ r.at = place /\ r.ok = run[n].ok /\ r.built = run[n].built
  BY <1>1 DEF RunType
<1>3. [run EXCEPT ![n].at = place] = [run EXCEPT ![n] = r]
  BY <1>1
<1> QED
  BY <1>2, <1>3

LEMMA OpenLogKept ==
  ASSUME AcceptanceInv, NEW n \in Runs, OpenLog(n), n > 0 => tx[n].state # "none",
         CommandTypes', CliOK' \/ UNCHANGED cli
  PROVE  AcceptanceInv'
<1>1. /\ run[n].at = "none" /\ run' = [run EXCEPT ![n].at = "log"]
      /\ UNCHANGED <<world, tx, manifest, evidence, did, disturbed, saw>>
  BY DEF OpenLog, GoesTo, records, history
<1>2. run[n].ok \in BOOLEAN /\ RunTypes /\ RunOK(n)
  BY DEF AcceptanceInv, RunTypes, RunType
<1>3. PICK r \in RunType :
        /\ [run EXCEPT ![n].at = "log"] = [run EXCEPT ![n] = r]
        /\ r.at = "log" /\ r.ok = run[n].ok /\ r.built = run[n].built
  <2>1. "log" \in Places
    BY DEF Places
  <2> QED
    BY <2>1, GoesToPlace
<1>4. run' = [run EXCEPT ![n] = r] /\ run'[n].at = "log"
  BY <1>1, <1>2, <1>3 DEF RunTypes
<1>5. RecordOK(n)' /\ SawOK(n)'
  BY <1>1, <1>2, <1>4 DEF RunOK, RecordOK, SawOK, Started
<1> QED
  BY <1>1, <1>3, <1>4, <1>5, PlaceKept

LEMMA RunStartKept ==
  ASSUME AcceptanceInv, NEW n \in Runs, RunStart(n)
  PROVE  AcceptanceInv'
<1> DEFINE m == [kind |-> "manifest", frozen |-> Frozen(n), results |-> <<>>,
                 status |-> "running"]
<1>1. /\ run[n].at = "log" /\ run' = [run EXCEPT ![n].at = "step"]
      /\ manifest' = [manifest EXCEPT ![n] = m]
      /\ UNCHANGED <<world, tx, cli, evidence, did, disturbed, saw>>
  BY DEF RunStart, GoesTo, history
<1>2. run[n].ok \in BOOLEAN /\ RunTypes /\ RunOK(n) /\ WorldTypes /\ CommandTypes
  BY DEF AcceptanceInv, RunTypes, RunType
<1>3. PICK r \in RunType :
        /\ [run EXCEPT ![n].at = "step"] = [run EXCEPT ![n] = r]
        /\ r.at = "step" /\ r.ok = run[n].ok /\ r.built = run[n].built
  <2>1. "step" \in Places
    BY DEF Places
  <2> QED
    BY <2>1, GoesToPlace
<1>4. run' = [run EXCEPT ![n] = r] /\ run'[n].at = "step"
  BY <1>1, <1>2, <1>3 DEF RunTypes
<1>5. Frozen(n) \in [process : 0..MaxProcesses, model : {"source", "target", "any"},
                     inputs : Versions]
  BY <1>2, BoundsAssumption
     DEF WorldTypes, ContainerStates, Frozen, RuntimeIdentity, InputIdentity
<1>6. /\ m \in Manifests /\ m.results = <<>>
      /\ n > 0 => m.frozen.process = container.process
  BY <1>5, EmptyResult DEF Manifests, FrozenInputs, Frozen, RuntimeIdentity
<1> HIDE DEF m
<1>7. manifest'[n] = m /\ \A k \in Runs \ {n} : manifest'[k] = manifest[k] /\ run'[k] = run[k]
  BY <1>1, <1>2, <1>4 DEF RunTypes
<1>8. RunTypes'
  BY <1>1, <1>2, <1>3, <1>4, <1>6 DEF RunTypes
<1>9. did[n] = <<>> /\ (n > 0 => saw[n] = {}) /\ evidence[n] = None
      /\ (n > 0 => tx[n].state # "none")
  BY <1>1, <1>2 DEF RunOK, RecordOK, SawOK, EvidenceOK
<1>10. RecordOK(n)'
  BY <1>1, <1>4, <1>6, <1>7, <1>9, EmptyResult, StepsAreNat DEF RecordOK, Steps
<1>11. SawOK(n)'
  BY <1>1, <1>2, <1>4, <1>6, <1>7, <1>9 DEF SawOK, world, WorldTypes, ContainerStates
<1>12. RunOK(n)'
  BY <1>1, <1>4, <1>9, <1>10, <1>11 DEF RunOK, EvidenceOK
<1>13. CommandTypes'
  BY <1>1, <1>2 DEF CommandTypes
<1> QED
  BY <1>1, <1>7, <1>8, <1>12, <1>13, OneRun

\* A child meets the process that runs.
LEMMA StartChildKept ==
  ASSUME AcceptanceInv, NEW n \in Runs, StartChild(n)
  PROVE  AcceptanceInv'
<1>1. /\ run[n].at = "step" /\ Len(manifest[n].results) < Steps(n)
      /\ run' = [run EXCEPT ![n].at = "child"]
      /\ saw' = [t \in Transactions |-> IF t \in {n} THEN saw[t] \cup {container.process}
                                         ELSE saw[t]]
      /\ UNCHANGED <<world, tx, cli, manifest, evidence, did, disturbed>>
  BY DEF StartChild, GoesTo, Meet, records
<1>2. RunTypes /\ RunOK(n) /\ WorldTypes /\ CommandTypes
  BY DEF AcceptanceInv
<1>3. PICK r \in RunType :
        /\ [run EXCEPT ![n].at = "child"] = [run EXCEPT ![n] = r]
        /\ r.at = "child" /\ r.ok = run[n].ok /\ r.built = run[n].built
  <2>1. "child" \in Places
    BY DEF Places
  <2> QED
    BY <2>1, GoesToPlace
<1>4. run' = [run EXCEPT ![n] = r] /\ run'[n].at = "child"
      /\ \A k \in Runs \ {n} : run'[k] = run[k]
  BY <1>1, <1>2, <1>3 DEF RunTypes
<1>5. RunTypes'
  BY <1>1, <1>2, <1>3, <1>4 DEF RunTypes, WorldTypes, ContainerStates
<1>6. RecordOK(n)'
  BY <1>1, <1>2, <1>4 DEF RunOK, RecordOK, Started, Steps
<1>7. SawOK(n)'
  <2> SUFFICES ASSUME n > 0 PROVE SawOK(n)'
    BY DEF SawOK
  <2>1. n \in Transactions
    BY DEF Runs, Transactions
  <2>2. /\ manifest[n].frozen.process <= container.process
        /\ saw[n] = IF did[n] = <<>> THEN {} ELSE {manifest[n].frozen.process}
    BY <1>1, <1>2 DEF RunOK, SawOK, Started
  <2>3. manifest[n].frozen.process \in Nat /\ container.process \in Nat
    BY <1>1, <1>2 DEF RunOK, RecordOK, Started, Manifests, FrozenInputs, WorldTypes, ContainerStates
  <2>4. saw'[n] = saw[n] \cup {container.process}
    BY <1>1, <2>1
  <2>5. saw'[n] # {} /\ saw'[n] \subseteq manifest[n].frozen.process .. container.process
    BY <2>2, <2>3, <2>4
  <2> QED
    BY <1>1, <1>4, <2>2, <2>5 DEF SawOK, world
<1>8. EvidenceOK(n)' /\ (n > 0 => tx[n].state # "none")
  BY <1>1, <1>2, <1>4 DEF RunOK, EvidenceOK
<1>9. RunOK(n)' /\ CommandTypes'
  BY <1>1, <1>2, <1>6, <1>7, <1>8 DEF RunOK, CommandTypes
<1>10. \A t \in Transactions \ {n} : saw'[t] = saw[t]
  BY <1>1
<1> QED
  BY <1>1, <1>4, <1>5, <1>9, <1>10, OneRun

LEMMA EndChildKept ==
  ASSUME AcceptanceInv, NEW n \in Runs, EndChild(n)
  PROVE  AcceptanceInv'
<1>0. WorldTypes /\ RunTypes /\ RunOK(n) /\ CommandTypes /\ run[n] \in RunType
  BY DEF AcceptanceInv, RunTypes
<1>1. PICK ok \in BOOLEAN :
        /\ run' = [run EXCEPT ![n].at = "ended", ![n].ok = ok]
        /\ did' = [did EXCEPT ![n] = Append(did[n], ok)]
  BY <1>0 DEF EndChild, WorldTypes, ContainerStates
<1>2. /\ run[n].at = "child"
      /\ UNCHANGED <<world, tx, cli, manifest, evidence, saw, disturbed>>
  BY DEF EndChild, records
<1> DEFINE r == [run[n] EXCEPT !.at = "ended", !.ok = ok]
<1>3. r \in RunType /\ r.at = "ended" /\ r.ok = ok
  BY <1>0 DEF RunType, Places
<1>4. run' = [run EXCEPT ![n] = r]
  BY <1>0, <1>1 DEF RunTypes
<1> HIDE DEF r
<1>5. run'[n] = r /\ did'[n] = Append(did[n], ok)
      /\ \A k \in Runs \ {n} : run'[k] = run[k] /\ did'[k] = did[k]
  BY <1>0, <1>1, <1>4 DEF RunTypes
<1>6. /\ did[n] = manifest[n].results /\ AllTrue(did[n]) /\ Len(did[n]) < Steps(n)
      /\ did[n] \in Results
  BY <1>0, <1>2 DEF RunOK, RecordOK, RunTypes
<1>7. Append(did[n], ok) \in Results /\ Append(did[n], ok) # <<>>
  BY <1>6, AppendedResult
<1>8. RunTypes'
  BY <1>0, <1>1, <1>2, <1>3, <1>4, <1>7 DEF RunTypes
<1>9. RecordOK(n)'
  BY <1>0, <1>2, <1>3, <1>5, <1>6 DEF RunOK, RecordOK, Started, Steps, AllTrue
<1>10. SawOK(n)' /\ EvidenceOK(n)' /\ (n > 0 => tx[n].state # "none")
  BY <1>0, <1>2, <1>3, <1>5 DEF RunOK, SawOK, EvidenceOK, Started, world
<1>11. RunOK(n)' /\ CommandTypes'
  BY <1>0, <1>2, <1>9, <1>10 DEF RunOK, CommandTypes
<1> QED
  BY <1>2, <1>5, <1>8, <1>11, OneRun

\* The checkpoint: a bound run finds the container it was opened on, so all of its
\* children met that one.
LEMMA ReadManifestKept ==
  ASSUME AcceptanceInv, NEW n \in Runs, ReadManifest(n)
  PROVE  AcceptanceInv'
<1>1. /\ run[n].at = "ended" /\ run' = [run EXCEPT ![n].at = "append"]
      /\ ValidManifest(n)
      /\ UNCHANGED <<world, tx, cli, manifest, evidence, did, disturbed, saw>>
  BY DEF ReadManifest, GoesTo, records, history
<1>2. RunTypes /\ RunOK(n) /\ WorldTypes /\ CommandTypes
  BY DEF AcceptanceInv
<1>3. PICK r \in RunType :
        /\ [run EXCEPT ![n].at = "append"] = [run EXCEPT ![n] = r]
        /\ r.at = "append" /\ r.ok = run[n].ok /\ r.built = run[n].built
  <2>1. "append" \in Places
    BY DEF Places
  <2> QED
    BY <2>1, GoesToPlace
<1>4. run' = [run EXCEPT ![n] = r] /\ run'[n].at = "append" /\ run'[n].ok = run[n].ok
  BY <1>1, <1>2, <1>3 DEF RunTypes
<1>5. RecordOK(n)'
  BY <1>1, <1>2, <1>4 DEF RunOK, RecordOK, Started, Steps, AllTrue
<1>6. SawOK(n)'
  <2> SUFFICES ASSUME n > 0 PROVE SawOK(n)'
    BY DEF SawOK
  <2>1. manifest[n].frozen.process = container.process
    BY <1>1 DEF ValidManifest, Frozen, RuntimeIdentity
  <2>2. saw[n] # {} /\ saw[n] \subseteq container.process .. container.process
        /\ container.process \in Nat
    BY <1>1, <1>2, <2>1 DEF RunOK, SawOK, WorldTypes, ContainerStates
  <2>3. saw[n] = {container.process}
    BY <2>2
  <2>4. did[n] # <<>>
    <3>1. /\ did[n] = Append(manifest[n].results, run[n].ok)
          /\ Len(manifest[n].results) < Steps(n) /\ manifest[n].results \in Results
          /\ run[n].ok \in BOOLEAN
      BY <1>1, <1>2 DEF RunOK, RecordOK, Started, Manifests, RunTypes, RunType
    <3> QED
      BY <3>1, AppendedResult
  <2> QED
    BY <1>1, <1>2, <1>4, <2>1, <2>3, <2>4 DEF SawOK, world, RunOK, Started
<1>7. (n > 0 => tx[n].state # "none") /\ CommandTypes'
  BY <1>1, <1>2 DEF RunOK, CommandTypes
<1> QED
  BY <1>1, <1>3, <1>4, <1>5, <1>6, <1>7, PlaceKept

LEMMA AppendStepKept ==
  ASSUME AcceptanceInv, NEW n \in Runs, AppendStep(n)
  PROVE  AcceptanceInv'
<1> DEFINE place == IF run[n].ok THEN "step" ELSE "exit"
           m == [manifest[n] EXCEPT !.results = Append(manifest[n].results, run[n].ok)]
<1>0. RunTypes /\ RunOK(n) /\ CommandTypes /\ run[n] \in RunType
  BY DEF AcceptanceInv, RunTypes
<1>1. /\ run[n].at = "append" /\ run' = [run EXCEPT ![n].at = place]
      /\ manifest' = [manifest EXCEPT ![n].results = Append(@, run[n].ok)]
      /\ UNCHANGED <<world, tx, cli, evidence, did, disturbed, saw>>
  BY DEF AppendStep, ReplaceManifest, GoesTo, history
<1>2. /\ manifest[n] \in Manifests /\ manifest[n].results \in Results
      /\ run[n].ok \in BOOLEAN /\ Len(manifest[n].results) < Steps(n)
      /\ AllTrue(manifest[n].results) /\ did[n] = Append(manifest[n].results, run[n].ok)
  BY <1>0, <1>1 DEF RunOK, RecordOK, Started, Manifests, RunType
<1>3. PICK r \in RunType :
        /\ [run EXCEPT ![n].at = place] = [run EXCEPT ![n] = r]
        /\ r.at = place /\ r.ok = run[n].ok /\ r.built = run[n].built
  <2>1. place \in Places
    BY DEF Places
  <2> HIDE DEF place
  <2> QED
    BY <2>1, GoesToPlace
<1>4. /\ did[n] \in Results /\ did[n] # <<>> /\ Len(did[n]) <= Steps(n)
      /\ run[n].ok => AllTrue(did[n])
  BY <1>2, AppendedResult
<1>5. m \in Manifests /\ m.results = did[n] /\ m.frozen = manifest[n].frozen
  BY <1>2, <1>4 DEF Manifests
<1>6. manifest' = [manifest EXCEPT ![n] = m]
  BY <1>0, <1>1 DEF RunTypes
<1> HIDE DEF m
<1>7. /\ run'[n].at = place /\ run'[n].ok = run[n].ok
      /\ manifest'[n] = m /\ run' = [run EXCEPT ![n] = r]
      /\ \A k \in Runs \ {n} : run'[k] = run[k] /\ manifest'[k] = manifest[k]
  BY <1>0, <1>1, <1>3, <1>6 DEF RunTypes
<1>8. RunTypes'
  <2>1. manifest' \in [Runs -> Manifests \cup {None}]
    BY <1>0, <1>5, <1>6 DEF RunTypes
  <2>2. run' \in [Runs -> RunType]
    BY <1>0, <1>7 DEF RunTypes
  <2> QED
    BY <1>0, <1>1, <2>1, <2>2 DEF RunTypes
<1>9. RecordOK(n)'
  BY <1>1, <1>4, <1>5, <1>7 DEF RecordOK, Started, Steps
<1>10. SawOK(n)'
  BY <1>0, <1>1, <1>4, <1>5, <1>7 DEF RunOK, SawOK, Started, world
<1>11. EvidenceOK(n)' /\ (n > 0 => tx[n].state # "none") /\ CommandTypes'
  BY <1>0, <1>1, <1>7 DEF RunOK, EvidenceOK, CommandTypes
<1>12. RunOK(n)'
  BY <1>1, <1>9, <1>10, <1>11 DEF RunOK
<1> QED
  BY <1>1, <1>7, <1>8, <1>11, <1>12, OneRun

\* The suite leaves its loop with success behind the last step only, and then it is
\* complete.
LEMMA LeaveKept ==
  ASSUME AcceptanceInv, NEW n \in Runs, Leave(n)
  PROVE  AcceptanceInv'
<1> DEFINE ok == run[n].at = "step" /\ Len(manifest[n].results) = Steps(n)
           r == [run[n] EXCEPT !.at = "exit", !.ok = ok]
<1>0. RunTypes /\ RunOK(n) /\ CommandTypes /\ run[n] \in RunType
  BY DEF AcceptanceInv, RunTypes
<1>1. /\ run[n].at \in {"step", "ended"}
      /\ run' = [run EXCEPT ![n].at = "exit", ![n].ok = ok]
      /\ UNCHANGED <<world, tx, cli, manifest, evidence, did, disturbed, saw>>
  BY DEF Leave, records, history
<1>2. r \in RunType /\ r.at = "exit" /\ r.ok = ok
  BY <1>0 DEF RunType, Places
<1>3. run' = [run EXCEPT ![n] = r]
  BY <1>0, <1>1 DEF RunTypes
<1> HIDE DEF r
<1>4. run'[n] = r
  BY <1>0, <1>3 DEF RunTypes
<1>5. ASSUME ok PROVE Complete(n)
  <2>1. /\ did[n] = manifest[n].results /\ AllTrue(did[n]) /\ Len(did[n]) = Steps(n)
        /\ did[n] \in Results
    BY <1>0, <1>5 DEF RunOK, RecordOK, RunTypes
  <2>2. did[n] = AllPassed(n) /\ did[n] # <<>>
    BY <2>1, FullResult
  <2> QED
    BY <1>0, <1>5, <2>1, <2>2 DEF Complete, RunOK, SawOK
<1>6. Complete(n)' <=> Complete(n)
  BY <1>1 DEF Complete, AllPassed, Steps
<1>7. RecordOK(n)'
  BY <1>0, <1>1, <1>2, <1>4, <1>5, <1>6 DEF RunOK, RecordOK, Started
<1>8. SawOK(n)' /\ (n > 0 => tx[n].state # "none") /\ CommandTypes'
  BY <1>0, <1>1, <1>2, <1>4 DEF RunOK, SawOK, Started, world, CommandTypes
<1> QED
  BY <1>1, <1>2, <1>3, <1>7, <1>8, PlaceKept

LEMMA BeginFinishKept ==
  ASSUME AcceptanceInv, NEW n \in Runs, BeginFinish(n)
  PROVE  AcceptanceInv'
<1>0. RunTypes /\ RunOK(n) /\ CommandTypes
  BY DEF AcceptanceInv
<1>1. run[n].at = "exit" /\ UNCHANGED <<world, tx, cli, manifest, evidence>>
  BY DEF BeginFinish, records
<1>2. CommandTypes'
  BY <1>0, <1>1 DEF CommandTypes
<1>3. CASE EndsUnsealed(n, "done")
  BY <1>1, <1>2, <1>3, UnsealedKept
<1>4. CASE run' = [run EXCEPT ![n].at = "finish"] /\ UNCHANGED history
  <2>1. PICK r \in RunType :
          /\ [run EXCEPT ![n].at = "finish"] = [run EXCEPT ![n] = r]
          /\ r.at = "finish" /\ r.ok = run[n].ok /\ r.built = run[n].built
    <3>1. "finish" \in Places
      BY DEF Places
    <3> QED
      BY <3>1, GoesToPlace
  <2>2. run' = [run EXCEPT ![n] = r] /\ run'[n].at = "finish" /\ run'[n].ok = run[n].ok
        /\ UNCHANGED <<did, saw, disturbed>>
    BY <1>0, <1>4, <2>1 DEF RunTypes, history
  <2>3. Complete(n)' <=> Complete(n)
    BY <1>1, <2>2 DEF Complete, AllPassed, Steps
  <2>4. RecordOK(n)' /\ SawOK(n)' /\ (n > 0 => tx[n].state # "none")
    BY <1>0, <1>1, <2>2, <2>3 DEF RunOK, RecordOK, SawOK, Started, world
  <2> QED
    BY <1>1, <1>2, <2>1, <2>2, <2>4, PlaceKept
<1> QED
  BY <1>3, <1>4 DEF BeginFinish, GoesTo

LEMMA RunFinishKept ==
  ASSUME AcceptanceInv, NEW n \in Runs, RunFinish(n)
  PROVE  AcceptanceInv'
<1> DEFINE status == IF run[n].ok THEN "passed" ELSE "failed"
           m == [manifest[n] EXCEPT !.status = status]
<1>0. RunTypes /\ RunOK(n) /\ CommandTypes
  BY DEF AcceptanceInv
<1>1. /\ run[n].at = "finish" /\ run' = [run EXCEPT ![n].at = "write"]
      /\ manifest' = [manifest EXCEPT ![n].status = status]
      /\ UNCHANGED <<world, tx, cli, evidence, did, disturbed, saw>>
  BY DEF RunFinish, ReplaceManifest, GoesTo, history
<1>2. manifest[n] \in Manifests
  BY <1>0, <1>1 DEF RunOK, RecordOK, Started
<1>3. PICK r \in RunType :
        /\ [run EXCEPT ![n].at = "write"] = [run EXCEPT ![n] = r]
        /\ r.at = "write" /\ r.ok = run[n].ok /\ r.built = run[n].built
  <2>1. "write" \in Places
    BY DEF Places
  <2> QED
    BY <2>1, GoesToPlace
<1>4. /\ m \in Manifests /\ m.results = manifest[n].results /\ m.frozen = manifest[n].frozen
      /\ m.status = "passed" => run[n].ok
  BY <1>2 DEF Manifests
<1>5. manifest' = [manifest EXCEPT ![n] = m]
  BY <1>0, <1>1 DEF RunTypes
<1> HIDE DEF m
<1>6. /\ run'[n].at = "write" /\ manifest'[n] = m /\ run' = [run EXCEPT ![n] = r]
      /\ \A k \in Runs \ {n} : run'[k] = run[k] /\ manifest'[k] = manifest[k]
  BY <1>0, <1>1, <1>3, <1>5 DEF RunTypes
<1>7. RunTypes'
  <2>1. manifest' \in [Runs -> Manifests \cup {None}]
    BY <1>0, <1>4, <1>5 DEF RunTypes
  <2>2. run' \in [Runs -> RunType]
    BY <1>0, <1>6 DEF RunTypes
  <2> QED
    BY <1>0, <1>1, <2>1, <2>2 DEF RunTypes
<1>8. Complete(n) => Complete(n)'
  BY <1>1, <1>4, <1>6 DEF Complete, AllPassed, Steps
<1>9. RecordOK(n)'
  BY <1>0, <1>1, <1>4, <1>6, <1>8 DEF RunOK, RecordOK, Started
<1>10. SawOK(n)'
  BY <1>0, <1>1, <1>4, <1>6 DEF RunOK, SawOK, Started, world
<1>11. EvidenceOK(n)' /\ (n > 0 => tx[n].state # "none") /\ CommandTypes'
  BY <1>0, <1>1, <1>6 DEF RunOK, EvidenceOK, CommandTypes
<1>12. RunOK(n)'
  BY <1>1, <1>9, <1>10, <1>11 DEF RunOK
<1> QED
  BY <1>1, <1>6, <1>7, <1>11, <1>12, OneRun

\* What a passed record is built from are the inputs it was opened with.
LEMMA BuildKept ==
  ASSUME AcceptanceInv, NEW n \in Runs, Build(n)
  PROVE  AcceptanceInv'
<1>0. RunTypes /\ RunOK(n) /\ CommandTypes /\ WorldTypes /\ run[n] \in RunType
  BY DEF AcceptanceInv, RunTypes
<1>1. run[n].at = "write" /\ UNCHANGED <<world, tx, cli, manifest, evidence>>
  BY DEF Build, records
<1>2. CommandTypes'
  BY <1>0, <1>1 DEF CommandTypes
<1>3. CASE EndsUnsealed(n, "done")
  BY <1>1, <1>2, <1>3, UnsealedKept
<1>4. CASE /\ MayBuild(n) /\ UNCHANGED history
           /\ run' = [run EXCEPT ![n].at = "built",
                        ![n].built = [inputs |-> inputs, model |-> container.model]]
  <2> DEFINE built == [inputs |-> inputs, model |-> container.model]
             r == [run[n] EXCEPT !.at = "built", !.built = built]
  <2>1. /\ r \in RunType /\ r.at = "built" /\ r.built = built
    BY <1>0 DEF RunType, Places, WorldTypes, ContainerStates
  <2>2. run' = [run EXCEPT ![n] = r] /\ UNCHANGED <<did, saw, disturbed>>
    BY <1>0, <1>4 DEF RunTypes, history
  <2>3. MadeFrom(n, built)
    BY <1>4 DEF MadeFrom, MayBuild, ValidManifest, MayFreeze, InputsArePlanned,
                InputIdentity, Frozen, RuntimeIdentity
  <2> HIDE DEF r, built
  <2>4. run'[n] = r
    BY <1>0, <2>2 DEF RunTypes
  <2>5. Complete(n)' <=> Complete(n)
    BY <1>1, <2>2 DEF Complete, AllPassed, Steps
  <2>6. RecordOK(n)' /\ SawOK(n)' /\ (n > 0 => tx[n].state # "none")
    BY <1>0, <1>1, <2>1, <2>2, <2>4, <2>5 DEF RunOK, RecordOK, SawOK, Started, world
  <2> QED
    BY <1>1, <1>2, <2>1, <2>2, <2>3, <2>6, PlaceKept
<1> QED
  BY <1>3, <1>4 DEF Build

LEMMA SealKept ==
  ASSUME AcceptanceInv, NEW n \in Runs, Seal(n)
  PROVE  AcceptanceInv'
<1>0. RunTypes /\ RunOK(n) /\ CommandTypes /\ run[n] \in RunType
  BY DEF AcceptanceInv, RunTypes
<1>1. run[n].at = "built" /\ UNCHANGED <<world, tx, cli, manifest>>
  BY DEF Seal
<1>2. CommandTypes'
  BY <1>0, <1>1 DEF CommandTypes
<1>3. CASE EndsUnsealed(n, "done") /\ UNCHANGED evidence
  BY <1>1, <1>2, <1>3, UnsealedKept
<1> DEFINE e == [kind |-> "evidence", manifest |-> manifest[n],
                 inputs |-> run[n].built.inputs, model |-> run[n].built.model]
           r == [run[n] EXCEPT !.at = "done", !.built = NotBuilt]
<1>4. CASE /\ evidence' = [evidence EXCEPT ![n] = e]
           /\ run' = [run EXCEPT ![n].at = "done", ![n].built = NotBuilt]
           /\ evidence[n] = None /\ UNCHANGED history
  <2>1. r \in RunType /\ r.at = "done"
    BY <1>0 DEF RunType, Places, NotBuilt, Versions
  <2>2. run' = [run EXCEPT ![n] = r] /\ UNCHANGED <<did, saw, disturbed>>
    BY <1>0, <1>4 DEF RunTypes, history
  <2>3. manifest[n] \in Manifests
    BY <1>0, <1>1 DEF RunOK, RecordOK, Started
  <2>4. /\ e \in Evidences /\ e.manifest = manifest[n]
        /\ e.inputs = run[n].built.inputs /\ e.model = run[n].built.model
    BY <1>0, <2>3 DEF Evidences, RunType
  <2> HIDE DEF r, e
  <2>5. /\ run'[n] = r /\ evidence'[n] = e
        /\ \A k \in Runs \ {n} : run'[k] = run[k] /\ evidence'[k] = evidence[k]
    BY <1>0, <1>4, <2>2 DEF RunTypes
  <2>6. RunTypes'
    <3>1. evidence' \in [Runs -> Evidences \cup {None}]
      BY <1>0, <1>4, <2>4 DEF RunTypes
    <3>2. run' \in [Runs -> RunType]
      BY <1>0, <2>1, <2>2 DEF RunTypes
    <3> QED
      BY <1>0, <1>1, <2>2, <3>1, <3>2 DEF RunTypes
  <2>7. Complete(n)' <=> Complete(n)
    BY <1>1, <2>2 DEF Complete, AllPassed, Steps
  <2>8. RecordOK(n)' /\ SawOK(n)' /\ (n > 0 => tx[n].state # "none")
    BY <1>0, <1>1, <2>1, <2>5 DEF RunOK, RecordOK, SawOK, Started
  <2>9. EvidenceOK(n)'
    <3>1. MadeFrom(n, run[n].built) /\ (manifest[n].status = "passed" => Complete(n))
      BY <1>0, <1>1 DEF RunOK, RecordOK, EvidenceOK
    <3>2. MadeFrom(n, evidence[n])'
      BY <1>1, <2>4, <2>5, <3>1 DEF MadeFrom
    <3> QED
      BY <1>1, <2>1, <2>4, <2>5, <2>7, <3>1, <3>2 DEF EvidenceOK
  <2>10. RunOK(n)'
    BY <1>1, <2>8, <2>9 DEF RunOK
  <2> QED
    BY <1>1, <1>2, <1>4, <2>2, <2>5, <2>6, <2>10, OneRun
<1> QED
  BY <1>3, <1>4 DEF Seal, WriteNoReplace

LEMMA RunnerStep ==
  ASSUME AcceptanceInv, NEW n \in Runs, Runner(n) \/ KillRunner(n)
  PROVE  AcceptanceInv'
<1>0. CommandTypes
  BY DEF AcceptanceInv
<1>1. CASE RunStartRefused(n)
  <2>1. /\ EndsUnsealed(n, "done") /\ run[n].at = "log" /\ UNCHANGED cli
        /\ UNCHANGED <<world, tx, manifest, evidence>>
    BY <1>1 DEF RunStartRefused, records
  <2>2. CommandTypes'
    BY <1>0, <2>1 DEF CommandTypes
  <2> QED
    BY <2>1, <2>2, UnsealedKept
<1>2. CASE KillRunner(n)
  <2>1. /\ EndsUnsealed(n, "killed") /\ run[n].at \notin {"none", "done", "killed"}
        /\ UNCHANGED cli /\ UNCHANGED <<world, tx, manifest, evidence>>
    BY <1>2 DEF KillRunner, InProgress, records
  <2>2. CommandTypes'
    BY <1>0, <2>1 DEF CommandTypes
  <2> QED
    BY <2>1, <2>2, UnsealedKept
<1> QED
  BY <1>1, <1>2, RunStartKept, StartChildKept, EndChildKept, ReadManifestKept, AppendStepKept,
     LeaveKept, BeginFinishKept, RunFinishKept, BuildKept, SealKept DEF Runner

--------------------------------------------------------------------------------
(* The command, the recovery and the rest of the world.                    *)

TxStates == {"none", "planned", "target-full", "publish-rollback", "completed",
             "recovery_required", "failed-restored"}

\* The children that are under way meet the new process.
MeetsNew ==
  /\ container'.process = container.process + 1
  /\ saw' = [t \in Transactions |-> IF t \in {n \in Runs : run[n].at = "child"}
                                    THEN saw[t] \cup {container'.process} ELSE saw[t]]

\* The world and the transactions move, the runs stay where they are: container
\* processes only get new numbers, and no transaction is planned anew.
LEMMA WorldMoves ==
  ASSUME AcceptanceInv, WorldTypes', CommandTypes',
         UNCHANGED <<run, manifest, evidence, did>>, disturbed' \in SUBSET Runs,
         (container'.process = container.process /\ saw' = saw) \/ MeetsNew,
         \A t \in Transactions : run[t].at # "none" =>
           tx'[t].state # "none" /\ tx'[t].inputs = tx[t].inputs,
         \A t \in Transactions : TxOK(t)',
         CliOK'
  PROVE  AcceptanceInv'
<1>0. WorldTypes /\ RunTypes
  BY DEF AcceptanceInv
<1>1. RunTypes'
  <2>1. saw' \in [Transactions -> SUBSET (1..MaxProcesses)]
    BY <1>0 DEF MeetsNew, RunTypes, WorldTypes, ContainerStates
  <2> QED
    BY <1>0, <2>1 DEF RunTypes
<1>2. ASSUME NEW n \in Runs PROVE RunOK(n)'
  <2>0. RunOK(n) /\ (n > 0 => n \in Transactions)
    BY DEF AcceptanceInv, Runs, Transactions
  <2>1. run[n].at \notin {"child"} => (n > 0 => saw'[n] = saw[n])
    BY <2>0 DEF MeetsNew
  <2>2. run[n].at \in {"step", "exit", "finish", "write", "built", "done"} =>
          (Complete(n) => Complete(n)')
    BY <2>1 DEF Complete, AllPassed, Steps
  <2>3. RecordOK(n)'
    BY <2>0, <2>2 DEF RunOK, RecordOK, AllTrue, Steps
  <2>4. EvidenceOK(n)'
    BY <2>0, <2>2 DEF RunOK, EvidenceOK, MadeFrom
  <2>5. SawOK(n)'
    <3> SUFFICES ASSUME n > 0 PROVE SawOK(n)'
      BY DEF SawOK
    <3>1. /\ container.process \in Nat /\ container'.process \in Nat
          /\ container.process <= container'.process
      BY <1>0 DEF WorldTypes, ContainerStates, MeetsNew
    <3>2. run[n].at \in Started => manifest[n].frozen.process \in Nat
      BY <2>0 DEF RunOK, RecordOK, Manifests, FrozenInputs
    <3>3. run[n].at = "child" => saw'[n] \in {saw[n], saw[n] \cup {container'.process}}
      BY <2>0 DEF MeetsNew
    <3>4. run[n].at = "child" =>
            /\ saw'[n] # {}
            /\ saw'[n] \subseteq manifest[n].frozen.process .. container'.process
      <4> SUFFICES ASSUME run[n].at = "child"
                   PROVE  /\ saw'[n] # {}
                          /\ saw'[n] \subseteq manifest[n].frozen.process .. container'.process
        OBVIOUS
      <4>1. /\ saw[n] # {} /\ manifest[n].frozen.process <= container.process
            /\ saw[n] \subseteq manifest[n].frozen.process .. container.process
        BY <2>0 DEF RunOK, SawOK, Started
      <4> QED
        BY <3>1, <3>2, <3>3, <4>1 DEF Started
    <3>5. run[n].at = "ended" =>
            /\ saw'[n] # {}
            /\ saw'[n] \subseteq manifest[n].frozen.process .. container'.process
      BY <2>0, <2>1, <3>1, <3>2 DEF RunOK, SawOK, Started
    <3>6. run[n].at \in Started => manifest[n].frozen.process <= container'.process
      BY <2>0, <3>1, <3>2 DEF RunOK, SawOK
    <3> QED
      BY <2>0, <2>1, <3>4, <3>5, <3>6 DEF RunOK, SawOK
  <2> QED
    BY <2>0, <2>3, <2>4, <2>5 DEF RunOK
<1> QED
  BY <1>1, <1>2 DEF AcceptanceInv

\* A transaction changes its state, and nothing else of it.
LEMMA TxStateSet ==
  ASSUME AcceptanceInv, NEW t \in Transactions, NEW state \in TxStates,
         tx' = [tx EXCEPT ![t].state = state]
  PROVE  /\ tx' \in [Transactions -> TxType]
         /\ tx'[t].state = state /\ tx'[t].inputs = tx[t].inputs
         /\ tx'[t].receipt = tx[t].receipt
         /\ \A u \in Transactions \ {t} : tx'[u] = tx[u]
<1>1. tx \in [Transactions -> TxType] /\ tx[t] \in TxType
  BY DEF AcceptanceInv, CommandTypes
<1> DEFINE x == [tx[t] EXCEPT !.state = state]
<1>2. x \in TxType /\ x.state = state /\ x.inputs = tx[t].inputs /\ x.receipt = tx[t].receipt
  BY <1>1 DEF TxType, TxStates
<1>3. tx' = [tx EXCEPT ![t] = x]
  BY <1>1
<1> HIDE DEF x
<1> QED
  BY <1>1, <1>2, <1>3

\* It does not become one whose receipt counts.
LEMMA TxOKKept ==
  ASSUME AcceptanceInv, UNCHANGED evidence, NEW t \in Transactions,
         NEW state \in TxStates \ {"publish-rollback", "completed"},
         tx' = [tx EXCEPT ![t].state = state]
  PROVE  \A u \in Transactions : TxOK(u)'
<1> SUFFICES ASSUME NEW u \in Transactions PROVE TxOK(u)'
  OBVIOUS
<1>1. TxOK(u)
  BY DEF AcceptanceInv
<1>2. /\ tx'[t].state = state /\ \A v \in Transactions \ {t} : tx'[v] = tx[v]
  BY TxStateSet
<1> QED
  BY <1>1, <1>2 DEF TxOK, SealedPass

LEMMA CommandFacts ==
  ASSUME AcceptanceInv
  PROVE  /\ cli \in CliType /\ cli.tx \in Transactions /\ tx \in [Transactions -> TxType]
         /\ disturbed \in SUBSET Runs /\ WorldTypes
         /\ CliOK /\ \A t \in Transactions : TxOK(t) /\ RunOK(t)
<1>1. Transactions \subseteq Runs
  BY BoundsAssumption DEF Runs, Transactions
<1> QED
  BY <1>1 DEF AcceptanceInv, CommandTypes, CliType, RunTypes

LEMMA DisturbedRuns ==
  ASSUME AcceptanceInv, NEW ns \in SUBSET Runs, Disturbs(ns)
  PROVE  disturbed' \in SUBSET Runs
BY CommandFacts DEF Disturbs

LEMMA CliPlansKept == AcceptanceInv /\ CliPlans => AcceptanceInv'
<1> SUFFICES ASSUME AcceptanceInv, CliPlans PROVE AcceptanceInv'
  OBVIOUS
<1>1. PICK t \in Transactions :
        /\ tx[t].state = "none" /\ cli' = [at |-> "plan", tx |-> t]
        /\ tx' = [tx EXCEPT ![t] = [@ EXCEPT !.state = "planned", !.inputs = inputs]]
  BY DEF CliPlans, QualificationInput
<1>2. UNCHANGED <<container, inputs, edits, run, manifest, evidence, did, saw, disturbed>>
  BY DEF CliPlans, world, records, history
<1> DEFINE x == [tx[t] EXCEPT !.state = "planned", !.inputs = inputs]
<1>3. x \in TxType /\ x.state = "planned"
  BY CommandFacts DEF TxType, WorldTypes
<1>4. tx' = [tx EXCEPT ![t] = x]
  BY <1>1
<1> HIDE DEF x
<1>5. /\ tx' \in [Transactions -> TxType] /\ tx'[t] = x
      /\ \A u \in Transactions \ {t} : tx'[u] = tx[u]
  BY <1>3, <1>4, CommandFacts
<1>6. CommandTypes' /\ CliOK'
  BY <1>1, <1>3, <1>5 DEF CommandTypes, CliType, CliOK
<1>7. run[t].at = "none"
  <2>1. t > 0 /\ RunOK(t)
    BY CommandFacts DEF Transactions
  <2> QED
    BY <1>1, <2>1 DEF RunOK
<1>8. \A u \in Transactions : run[u].at # "none" =>
        tx'[u].state # "none" /\ tx'[u].inputs = tx[u].inputs
  <2> SUFFICES ASSUME NEW u \in Transactions, run[u].at # "none"
               PROVE  tx'[u].state # "none" /\ tx'[u].inputs = tx[u].inputs
    OBVIOUS
  <2>1. u # t /\ u > 0 /\ RunOK(u)
    BY <1>7, CommandFacts DEF Transactions
  <2> QED
    BY <1>5, <2>1 DEF RunOK
<1>9. ASSUME NEW u \in Transactions PROVE TxOK(u)'
  <2>1. TxOK(u)
    BY CommandFacts
  <2> QED
    BY <1>2, <1>3, <1>5, <2>1 DEF TxOK, SealedPass
<1>10. WorldTypes' /\ disturbed' \in SUBSET Runs
  BY <1>2, CommandFacts DEF WorldTypes
<1> QED
  BY <1>2, <1>6, <1>8, <1>9, <1>10, WorldMoves

\* A transaction that is under way changes its state and not its inputs.
LEMMA InputsStay ==
  ASSUME AcceptanceInv, NEW t \in Transactions, NEW state \in TxStates \ {"none"},
         tx' = [tx EXCEPT ![t].state = state] \/ UNCHANGED tx
  PROVE  \A u \in Transactions : run[u].at # "none" =>
           tx'[u].state # "none" /\ tx'[u].inputs = tx[u].inputs
<1> SUFFICES ASSUME NEW u \in Transactions, run[u].at # "none"
             PROVE  tx'[u].state # "none" /\ tx'[u].inputs = tx[u].inputs
  OBVIOUS
<1>1. u > 0 /\ RunOK(u)
  BY CommandFacts DEF Transactions
<1>2. tx[u].state # "none"
  BY <1>1 DEF RunOK
<1>3. CASE UNCHANGED tx
  BY <1>2, <1>3
<1>4. CASE tx' = [tx EXCEPT ![t].state = state]
  <2>1. /\ tx'[t].state = state /\ tx'[t].inputs = tx[t].inputs
        /\ \A v \in Transactions \ {t} : tx'[v] = tx[v]
    BY <1>4, TxStateSet
  <2> QED
    BY <1>2, <2>1
<1> QED
  BY <1>3, <1>4

LEMMA CliStartsTargetKept == AcceptanceInv /\ CliStartsTarget => AcceptanceInv'
<1> SUFFICES ASSUME AcceptanceInv, CliStartsTarget PROVE AcceptanceInv'
  OBVIOUS
<1>1. /\ cli.at = "plan" /\ container.process < MaxProcesses
      /\ container' = [process |-> container.process + 1, model |-> "target", up |-> TRUE]
      /\ tx' = [tx EXCEPT ![cli.tx].state = "target-full"]
      /\ cli' = [cli EXCEPT !.at = "spawn"]
      /\ Disturbs({0})
      /\ saw' = [t \in Transactions |-> IF t \in {n \in Runs : run[n].at = "child"}
                                        THEN saw[t] \cup {container'.process} ELSE saw[t]]
      /\ UNCHANGED <<inputs, edits, run, manifest, evidence, did>>
  BY DEF CliStartsTarget, CliAt, TxBecomes, Meet, records
<1>2. WorldTypes' /\ container'.process = container.process + 1
  BY <1>1, CommandFacts, BoundsAssumption DEF WorldTypes, ContainerStates
<1>3. cli.tx \in Transactions /\ cli \in CliType
  BY CommandFacts
<1>4. /\ tx' \in [Transactions -> TxType] /\ \A t \in Transactions : TxOK(t)'
      /\ tx'[cli.tx].state = "target-full"
  BY <1>1, <1>3, TxStateSet, TxOKKept DEF TxStates
<1>5. CommandTypes' /\ CliOK'
  BY <1>1, <1>3, <1>4 DEF CommandTypes, CliType, CliOK
<1>6. disturbed' \in SUBSET Runs
  <2>1. {0} \in SUBSET Runs
    BY BoundsAssumption DEF Runs
  <2> QED
    BY <1>1, <2>1, DisturbedRuns
<1>7. \A t \in Transactions : run[t].at # "none" =>
        tx'[t].state # "none" /\ tx'[t].inputs = tx[t].inputs
  <2>1. "target-full" \in TxStates \ {"none"}
    BY DEF TxStates
  <2> QED
    BY <1>1, <1>3, <2>1, InputsStay
<1> QED
  BY <1>1, <1>2, <1>4, <1>5, <1>6, <1>7, WorldMoves DEF MeetsNew

LEMMA CliSpawnsKept == AcceptanceInv /\ CliSpawns => AcceptanceInv'
<1> SUFFICES ASSUME AcceptanceInv, CliSpawns PROVE AcceptanceInv'
  OBVIOUS
<1>1. cli.at = "spawn" /\ OpenLog(cli.tx) /\ cli' = [cli EXCEPT !.at = "wait"]
  BY DEF CliSpawns, CliAt
<1>2. cli.tx \in Transactions /\ cli.tx \in Runs /\ cli \in CliType /\ CliOK
  BY CommandFacts DEF Runs, Transactions
<1>3. tx[cli.tx].state # "none" /\ UNCHANGED tx
  BY <1>1, <1>2 DEF CliOK, OpenLog
<1>4. CommandTypes'
  BY <1>1, <1>2, <1>3, CommandFacts DEF CommandTypes, CliType
<1>5. CliOK'
  BY <1>1, <1>2, <1>3 DEF CliOK, CliType
<1> QED
  BY <1>1, <1>2, <1>3, <1>4, <1>5, OpenLogKept

\* Steps of the command that change neither the world nor a run.
LEMMA CliMoves ==
  ASSUME AcceptanceInv, UNCHANGED <<world, run, records, history>>,
         CommandTypes', CliOK', \A t \in Transactions : TxOK(t)',
         \A t \in Transactions : run[t].at # "none" =>
           tx'[t].state # "none" /\ tx'[t].inputs = tx[t].inputs
  PROVE  AcceptanceInv'
<1>1. UNCHANGED <<container, inputs, edits, run, manifest, evidence, did, saw, disturbed>>
  BY DEF world, records, history
<1>2. WorldTypes' /\ disturbed' \in SUBSET Runs
  BY <1>1, CommandFacts DEF WorldTypes
<1> QED
  BY <1>1, <1>2, WorldMoves

LEMMA CliReadsKept == AcceptanceInv /\ CliReads => AcceptanceInv'
<1> SUFFICES ASSUME AcceptanceInv, CliReads PROVE AcceptanceInv'
  OBVIOUS
<1>0. /\ cli.tx \in Transactions /\ cli \in CliType /\ CliOK
      /\ tx \in [Transactions -> TxType] /\ \A t \in Transactions : TxOK(t)
  BY CommandFacts
<1>1. /\ cli.at = "wait" /\ ReceiptMayBeRead(cli.tx) /\ cli' = [cli EXCEPT !.at = "read"]
      /\ UNCHANGED <<world, tx, run, records, history>>
  BY DEF CliReads, CliAt
<1>2. SealedPass(cli.tx)
  BY <1>1 DEF ReceiptMayBeRead, Matches, Passed, SealedPass
<1>3. cli'.at = "read" /\ cli'.tx = cli.tx /\ cli' \in CliType
  BY <1>0, <1>1 DEF CliType
<1>4. CommandTypes' /\ CliOK'
  BY <1>0, <1>1, <1>2, <1>3 DEF CommandTypes, CliOK, SealedPass, records
<1>5. \A t \in Transactions : TxOK(t)'
  BY <1>0, <1>1 DEF TxOK, SealedPass, records
<1>6. \A t \in Transactions : run[t].at # "none" =>
        tx'[t].state # "none" /\ tx'[t].inputs = tx[t].inputs
  BY <1>0, <1>1, InputsStay DEF TxStates
<1> QED
  BY <1>1, <1>4, <1>5, <1>6, CliMoves

\* The receipt is the sealed pass that was read: sealed evidence never changes.
LEMMA CliAdvancesKept == AcceptanceInv /\ CliAdvances => AcceptanceInv'
<1> SUFFICES ASSUME AcceptanceInv, CliAdvances PROVE AcceptanceInv'
  OBVIOUS
<1> DEFINE t == cli.tx
           x == [tx[t] EXCEPT !.state = "publish-rollback", !.receipt = evidence[t]]
<1>0. /\ t \in Transactions /\ cli \in CliType /\ CliOK
      /\ tx \in [Transactions -> TxType] /\ \A u \in Transactions : TxOK(u)
  BY CommandFacts
<1>1. /\ cli.at = "read" /\ Pending(t) /\ cli' = [cli EXCEPT !.at = "publish"]
      /\ tx' = [tx EXCEPT ![t] = x]
      /\ UNCHANGED <<world, run, records, history>>
  BY DEF CliAdvances, CliAt
<1>2. SealedPass(t)
  BY <1>0, <1>1 DEF CliOK
<1>3. evidence[t] \in Evidences \cup {None}
  BY <1>0 DEF AcceptanceInv, RunTypes, Runs, Transactions
<1>4. /\ x \in TxType /\ x.state = "publish-rollback" /\ x.receipt = evidence[t]
      /\ x.inputs = tx[t].inputs
  BY <1>0, <1>3 DEF TxType
<1> HIDE DEF x
<1>5. /\ tx' \in [Transactions -> TxType] /\ tx'[t] = x
      /\ \A u \in Transactions \ {t} : tx'[u] = tx[u]
  BY <1>0, <1>1, <1>4
<1>6. cli'.at = "publish" /\ cli'.tx = t /\ cli' \in CliType
  BY <1>0, <1>1 DEF CliType
<1> HIDE DEF t
<1>7. CommandTypes' /\ CliOK'
  BY <1>4, <1>5, <1>6 DEF CommandTypes, CliOK
<1>8. ASSUME NEW u \in Transactions PROVE TxOK(u)'
  <2>1. evidence' = evidence
    BY <1>1 DEF records
  <2> QED
    BY <1>0, <1>2, <1>4, <1>5, <2>1 DEF TxOK, SealedPass
<1>9. ASSUME NEW u \in Transactions, run[u].at # "none"
      PROVE  tx'[u].state # "none" /\ tx'[u].inputs = tx[u].inputs
  <2>1. u > 0 /\ RunOK(u)
    BY CommandFacts DEF Transactions
  <2>2. tx[u].state # "none"
    BY <1>9, <2>1 DEF RunOK
  <2> QED
    BY <1>4, <1>5, <2>2
<1> QED
  BY <1>1, <1>7, <1>8, <1>9, CliMoves

LEMMA CliCompletesKept == AcceptanceInv /\ CliCompletes => AcceptanceInv'
<1> SUFFICES ASSUME AcceptanceInv, CliCompletes PROVE AcceptanceInv'
  OBVIOUS
<1>0. /\ cli.tx \in Transactions /\ cli \in CliType /\ CliOK
      /\ \A u \in Transactions : TxOK(u)
  BY CommandFacts
<1>1. /\ tx[cli.tx].state = "publish-rollback"
      /\ tx' = [tx EXCEPT ![cli.tx].state = "completed"] /\ cli' = [cli EXCEPT !.at = "none"]
      /\ UNCHANGED <<world, run, records, history>>
  BY DEF CliCompletes, TxBecomes
<1>2. /\ tx' \in [Transactions -> TxType] /\ tx'[cli.tx].receipt = tx[cli.tx].receipt
      /\ \A u \in Transactions \ {cli.tx} : tx'[u] = tx[u]
  BY <1>0, <1>1, TxStateSet DEF TxStates
<1>3. cli'.at = "none" /\ cli' \in CliType
  BY <1>0, <1>1 DEF CliType
<1>4. CommandTypes' /\ CliOK'
  BY <1>2, <1>3 DEF CommandTypes, CliOK
<1>5. ASSUME NEW u \in Transactions PROVE TxOK(u)'
  <2>1. evidence' = evidence
    BY <1>1 DEF records
  <2> QED
    BY <1>0, <1>1, <1>2, <2>1 DEF TxOK, SealedPass
<1>6. \A t \in Transactions : run[t].at # "none" =>
        tx'[t].state # "none" /\ tx'[t].inputs = tx[t].inputs
  <2>1. "completed" \in TxStates \ {"none"}
    BY DEF TxStates
  <2> QED
    BY <1>0, <1>1, <2>1, InputsStay
<1> QED
  BY <1>1, <1>4, <1>5, <1>6, CliMoves

\* The command fails: its runner dies with it, and the transaction is marked. The
\* runner's end and the mark are one step, so neither lemma above is the whole of it.
LEMMA CliFailsKept == AcceptanceInv /\ CliFails => AcceptanceInv'
<1> SUFFICES ASSUME AcceptanceInv, CliFails PROVE AcceptanceInv'
  OBVIOUS
<1> DEFINE t == cli.tx
<1>0. t \in Transactions /\ t \in Runs /\ t > 0 /\ cli \in CliType
  BY CommandFacts DEF Runs, Transactions
<1>1. /\ tx' = [tx EXCEPT ![t].state = "recovery_required"]
      /\ cli' = [cli EXCEPT !.at = "none"] /\ UNCHANGED <<world, records>>
  BY DEF CliFails, TxBecomes
<1>2. cli'.at = "none" /\ cli' \in CliType
  BY <1>0, <1>1 DEF CliType
<1>3. /\ tx' \in [Transactions -> TxType] /\ \A u \in Transactions : TxOK(u)'
  BY <1>0, <1>1, TxStateSet, TxOKKept DEF TxStates, records
<1>4. CommandTypes' /\ CliOK'
  BY <1>2, <1>3 DEF CommandTypes, CliOK
<1>5. \A u \in Transactions : run[u].at # "none" =>
        tx'[u].state # "none" /\ tx'[u].inputs = tx[u].inputs
  <2>1. "recovery_required" \in TxStates \ {"none"}
    BY DEF TxStates
  <2> QED
    BY <1>0, <1>1, <2>1, InputsStay
<1>6. CASE UNCHANGED <<run, history>>
  BY <1>1, <1>3, <1>4, <1>5, <1>6, CliMoves
<1>7. CASE InProgress(t) /\ EndsUnsealed(t, "killed")
  <2> DEFINE r == [at |-> "killed", ok |-> FALSE, built |-> NotBuilt]
  <2>1. r \in RunType /\ r.at = "killed"
    BY DEF RunType, Places, NotBuilt, Versions
  <2>2. /\ run' = [run EXCEPT ![t] = r] /\ did' = [did EXCEPT ![t] = <<>>]
        /\ saw' = [u \in Transactions |-> IF u = t THEN {} ELSE saw[u]]
        /\ disturbed' = disturbed \ {t}
    BY <1>7 DEF EndsUnsealed
  <2> HIDE DEF r
  <2>3. RunTypes /\ WorldTypes /\ RunOK(t) /\ run[t].at \notin {"none", "done", "killed"}
    BY <1>0, <1>7 DEF AcceptanceInv, InProgress
  <2>4. UNCHANGED <<container, inputs, edits, manifest, evidence>>
    BY <1>1 DEF world, records
  <2>5. RunTypes' /\ WorldTypes'
    BY <2>1, <2>2, <2>3, <2>4, EmptyResult DEF RunTypes, WorldTypes
  <2>6. /\ run'[t] = r /\ \A k \in Runs \ {t} : run'[k] = run[k] /\ did'[k] = did[k]
    BY <1>0, <2>2, <2>3 DEF RunTypes
  <2> HIDE DEF t
  <2>7. ASSUME NEW k \in Runs PROVE RunOK(k)'
    <3>1. RunOK(k) /\ (k > 0 => k \in Transactions)
      BY DEF AcceptanceInv, Runs, Transactions
    <3>2. CASE k = t
      <4>1. run'[k].at = "killed" /\ evidence'[k] = None
        BY <2>1, <2>3, <2>4, <2>6, <3>1, <3>2 DEF RunOK, EvidenceOK
      <4>2. k > 0 => tx'[k].state # "none"
        BY <1>5, <2>3, <3>1, <3>2
      <4> QED
        BY <4>1, <4>2 DEF RunOK, RecordOK, SawOK, EvidenceOK, Started
    <3>3. CASE k # t
      <4>1. Complete(k) => Complete(k)'
        BY <2>2, <2>4, <2>6, <3>1, <3>3 DEF Complete, AllPassed, Steps
      <4>2. RecordOK(k)'
        BY <2>4, <2>6, <3>1, <3>3, <4>1 DEF RunOK, RecordOK, AllTrue, Steps
      <4>3. EvidenceOK(k)'
        <5>1. k > 0 /\ run[k].at # "none" => tx'[k].inputs = tx[k].inputs
          BY <1>5, <3>1
        <5> QED
          BY <2>4, <2>6, <3>1, <3>3, <4>1, <5>1 DEF RunOK, EvidenceOK, MadeFrom
      <4>4. SawOK(k)'
        BY <2>2, <2>4, <2>6, <3>1, <3>3 DEF RunOK, SawOK
      <4>5. k > 0 /\ run'[k].at # "none" => tx'[k].state # "none"
        BY <1>5, <2>6, <3>1, <3>3
      <4> QED
        BY <4>2, <4>3, <4>4, <4>5 DEF RunOK
    <3> QED
      BY <3>2, <3>3
  <2> QED
    BY <1>3, <1>4, <2>5, <2>7 DEF AcceptanceInv
<1> QED
  BY <1>6, <1>7 DEF CliFails

LEMMA CliDiesKept == AcceptanceInv /\ CliDies => AcceptanceInv'
<1> SUFFICES ASSUME AcceptanceInv, CliDies PROVE AcceptanceInv'
  OBVIOUS
<1>1. /\ cli' = [cli EXCEPT !.at = "none"]
      /\ UNCHANGED <<world, tx, run, records, history>>
  BY DEF CliDies
<1>2. cli'.at = "none" /\ cli' \in CliType
  BY <1>1, CommandFacts DEF CliType
<1>3. CommandTypes' /\ CliOK'
  BY <1>1, <1>2, CommandFacts DEF CommandTypes, CliOK
<1>4. \A t \in Transactions : TxOK(t)'
  BY <1>1, CommandFacts DEF TxOK, SealedPass, records
<1>5. \A t \in Transactions : run[t].at # "none" =>
        tx'[t].state # "none" /\ tx'[t].inputs = tx[t].inputs
  <2>1. cli.tx \in Transactions /\ "completed" \in TxStates \ {"none"}
    BY CommandFacts DEF TxStates
  <2> QED
    BY <1>1, <2>1, InputsStay
<1> QED
  BY <1>1, <1>3, <1>4, <1>5, CliMoves

\* Recovery, or nobody, changes the state of one transaction to one whose receipt
\* does not count, while the world moves.
LEMMA SurroundingsMove ==
  ASSUME AcceptanceInv, WorldTypes', UNCHANGED <<cli, run, manifest, evidence, did>>,
         disturbed' \in SUBSET Runs,
         (container'.process = container.process /\ saw' = saw) \/ MeetsNew,
         \/ UNCHANGED tx
         \/ \E t \in Transactions, state \in {"recovery_required", "failed-restored"} :
              tx' = [tx EXCEPT ![t].state = state]
  PROVE  AcceptanceInv'
<1>1. CASE UNCHANGED tx
  <2>1. \A t \in Transactions : TxOK(t)'
    BY <1>1, CommandFacts DEF TxOK, SealedPass
  <2>2. CliOK' /\ CommandTypes'
    BY <1>1, CommandFacts DEF CliOK, SealedPass, CommandTypes
  <2>3. \A t \in Transactions : run[t].at # "none" =>
          tx'[t].state # "none" /\ tx'[t].inputs = tx[t].inputs
    <3>1. cli.tx \in Transactions /\ "completed" \in TxStates \ {"none"}
      BY CommandFacts DEF TxStates
    <3> QED
      BY <1>1, <3>1, InputsStay
  <2> QED
    BY <2>1, <2>2, <2>3, WorldMoves
<1>2. ASSUME NEW t \in Transactions, NEW state \in {"recovery_required", "failed-restored"},
             tx' = [tx EXCEPT ![t].state = state]
      PROVE  AcceptanceInv'
  <2>1. state \in TxStates \ {"publish-rollback", "completed", "none"}
    BY DEF TxStates
  <2>2. \A u \in Transactions : TxOK(u)'
    BY <1>2, <2>1, TxOKKept
  <2>3. \A u \in Transactions : run[u].at # "none" =>
          tx'[u].state # "none" /\ tx'[u].inputs = tx[u].inputs
    BY <1>2, <2>1, InputsStay
  <2>4. /\ tx' \in [Transactions -> TxType] /\ tx'[t].state = state
        /\ \A u \in Transactions \ {t} : tx'[u] = tx[u]
    BY <1>2, <2>1, TxStateSet
  <2>5. CliOK' /\ CommandTypes'
    BY <2>1, <2>4, CommandFacts DEF CliOK, SealedPass, CommandTypes
  <2> QED
    BY <2>2, <2>3, <2>5, WorldMoves
<1> QED
  BY <1>1, <1>2

LEMMA NewProcessMoves ==
  ASSUME AcceptanceInv, NEW model \in {"source", "target"}, NewProcess(model)
  PROVE  /\ WorldTypes' /\ disturbed' \in SUBSET Runs /\ MeetsNew
         /\ UNCHANGED <<cli, run, manifest, evidence, did>>
<1>1. /\ container.process < MaxProcesses
      /\ container' = [process |-> container.process + 1, model |-> model, up |-> TRUE]
      /\ saw' = [t \in Transactions |-> IF t \in {n \in Runs : run[n].at = "child"}
                                        THEN saw[t] \cup {container'.process} ELSE saw[t]]
      /\ Disturbs(Runs) /\ UNCHANGED <<inputs, edits, cli, run, manifest, evidence, did>>
  BY DEF NewProcess, Meet, records
<1>2. WorldTypes' /\ container'.process = container.process + 1
  BY <1>1, CommandFacts, BoundsAssumption DEF WorldTypes, ContainerStates
<1>3. disturbed' \in SUBSET Runs
  BY <1>1, DisturbedRuns
<1> QED
  BY <1>1, <1>2, <1>3 DEF MeetsNew

LEMMA SurroundingsKept == AcceptanceInv /\ Surroundings => AcceptanceInv'
<1> SUFFICES ASSUME AcceptanceInv, Surroundings PROVE AcceptanceInv'
  OBVIOUS
<1>0. WorldTypes /\ disturbed \in SUBSET Runs
  BY CommandFacts
<1>1. ASSUME NEW t \in Transactions, Fence(t) PROVE AcceptanceInv'
  <2>1. /\ tx' = [tx EXCEPT ![t].state = "recovery_required"] /\ Disturbs({t})
        /\ UNCHANGED <<container, inputs, edits, cli, run, manifest, evidence, did, saw>>
    BY <1>1 DEF Fence, world, records
  <2>2. disturbed' \in SUBSET Runs
    <3>1. {t} \in SUBSET Runs
      BY BoundsAssumption DEF Runs, Transactions
    <3> QED
      BY <2>1, <3>1, DisturbedRuns
  <2>3. WorldTypes'
    BY <1>0, <2>1 DEF WorldTypes
  <2> QED
    BY <2>1, <2>2, <2>3, SurroundingsMove
<1>2. ASSUME NEW t \in Transactions, Restore(t) PROVE AcceptanceInv'
  <2>1. tx' = [tx EXCEPT ![t].state = "failed-restored"]
    BY <1>2 DEF Restore
  <2>2. CASE UNCHANGED <<world, cli, run, records, history>>
    <3>1. UNCHANGED <<container, inputs, edits, cli, run, manifest, evidence, did, saw, disturbed>>
      BY <2>2 DEF world, records, history
    <3> QED
      BY <1>0, <2>1, <3>1, SurroundingsMove DEF WorldTypes
  <2>3. CASE NewProcess("source")
    BY <2>1, <2>3, NewProcessMoves, SurroundingsMove
  <2> QED
    BY <1>2, <2>2, <2>3 DEF Restore
<1>3. ASSUME ContainerRestarts \/ OperatorSwitches PROVE AcceptanceInv'
  <2>1. PICK model \in {"source", "target"} : NewProcess(model) /\ UNCHANGED tx
    BY <1>0, <1>3 DEF ContainerRestarts, OperatorSwitches, WorldTypes, ContainerStates
  <2> QED
    BY <2>1, NewProcessMoves, SurroundingsMove
<1>4. ASSUME ContainerFails PROVE AcceptanceInv'
  <2>1. /\ container' = [container EXCEPT !.up = FALSE] /\ Disturbs(Runs)
        /\ UNCHANGED <<inputs, edits, tx, cli, run, manifest, evidence, did, saw>>
    BY <1>4 DEF ContainerFails, records
  <2>2. WorldTypes' /\ container'.process = container.process
    BY <1>0, <2>1 DEF WorldTypes, ContainerStates
  <2>3. disturbed' \in SUBSET Runs
    BY <2>1, DisturbedRuns
  <2> QED
    BY <2>1, <2>2, <2>3, SurroundingsMove
<1>5. ASSUME Edit PROVE AcceptanceInv'
  <2>1. /\ edits < MaxEdits /\ edits' = edits + 1 /\ inputs' \in Versions /\ Disturbs(Runs)
        /\ UNCHANGED <<container, tx, cli, run, manifest, evidence, did, saw>>
    BY <1>5 DEF Edit, records
  <2>2. WorldTypes'
    BY <1>0, <2>1, BoundsAssumption DEF WorldTypes
  <2>3. disturbed' \in SUBSET Runs
    BY <2>1, DisturbedRuns
  <2> QED
    BY <2>1, <2>2, <2>3, SurroundingsMove
<1> QED
  BY <1>1, <1>2, <1>3, <1>4, <1>5 DEF Surroundings

--------------------------------------------------------------------------------
LEMMA AcceptanceStep == AcceptanceInv /\ [Next]_vars => AcceptanceInv'
<1> SUFFICES ASSUME AcceptanceInv, [Next]_vars PROVE AcceptanceInv'
  OBVIOUS
<1>1. ASSUME StartUnbound PROVE AcceptanceInv'
  <2>1. OpenLog(0) /\ UNCHANGED cli /\ UNCHANGED tx /\ 0 \in Runs
    BY <1>1, BoundsAssumption DEF StartUnbound, OpenLog, Runs
  <2>2. CommandTypes'
    BY <2>1 DEF AcceptanceInv, CommandTypes
  <2> QED
    BY <2>1, <2>2, OpenLogKept
<1>2. ASSUME NEW n \in Runs, Runner(n) \/ KillRunner(n) PROVE AcceptanceInv'
  BY <1>2, RunnerStep
<1>3. ASSUME Command \/ CliFails \/ CliDies PROVE AcceptanceInv'
  BY <1>3, CliPlansKept, CliStartsTargetKept, CliSpawnsKept, CliReadsKept, CliAdvancesKept,
     CliCompletesKept, CliFailsKept, CliDiesKept DEF Command
<1>4. ASSUME Surroundings PROVE AcceptanceInv'
  BY <1>4, SurroundingsKept
<1>5. CASE UNCHANGED vars
  <2>1. UNCHANGED <<container, inputs, edits, tx, cli, run, manifest, evidence, did, saw, disturbed>>
    BY <1>5 DEF vars, world, records, history
  <2> QED
    BY <2>1, CommandFacts, SurroundingsMove DEF WorldTypes
<1> QED
  BY <1>1, <1>2, <1>3, <1>4, <1>5 DEF Next

\* The invariant holds in every reachable state.
THEOREM RunsAreFollowed == Spec => []AcceptanceInv
BY AcceptanceInit, AcceptanceStep, PTL DEF Spec

\* The variables have their types.
THEOREM AcceptanceIsTyped == Spec => []TypeOK
BY RunsAreFollowed, AcceptanceTypes, PTL

\* Evidence of a pass stands for a run that did all of its steps and passed each.
THEOREM SealsAreComplete == Spec => []SealedIsComplete
<1>1. AcceptanceInv => SealedIsComplete
  BY DEF AcceptanceInv, RunOK, EvidenceOK, Complete, SealedIsComplete
<1> QED
  BY <1>1, RunsAreFollowed, PTL

\* All steps of a bound run that passed met the one container process it was opened
\* on, whoever restarted what meanwhile.
THEOREM BoundRunsSawOneRuntime == Spec => []BoundRunSawOneRuntime
<1>1. AcceptanceInv => BoundRunSawOneRuntime
  <2> SUFFICES ASSUME AcceptanceInv, NEW n \in Transactions,
                      evidence[n] # None, evidence[n].manifest.status = "passed"
               PROVE  saw[n] = {evidence[n].manifest.frozen.process}
    BY DEF BoundRunSawOneRuntime
  <2>1. RunOK(n) /\ n > 0
    BY CommandFacts DEF Transactions
  <2> QED
    BY <2>1 DEF RunOK, EvidenceOK, Complete
<1> QED
  BY <1>1, RunsAreFollowed, PTL

\* A completed upgrade has its receipt on disk, passed and made with the inputs it
\* was planned for, and what qualifies the host was measured with what is in place.
THEOREM QualificationIsMeasured == Spec => []QualifiedIsMeasured
<1>1. AcceptanceInv => QualifiedIsMeasured
  <2> SUFFICES ASSUME AcceptanceInv PROVE QualifiedIsMeasured
    OBVIOUS
  <2>1. ASSUME NEW t \in Transactions, tx[t].state = "completed"
        PROVE  /\ tx[t].receipt = evidence[t] /\ evidence[t] # None
               /\ evidence[t].manifest.status = "passed"
               /\ evidence[t].inputs = tx[t].inputs
    <3>1. RunOK(t) /\ TxOK(t) /\ t > 0
      BY CommandFacts DEF Transactions
    <3> QED
      BY <2>1, <3>1 DEF TxOK, SealedPass, RunOK, EvidenceOK, MadeFrom
  <2>2. ASSUME NEW n \in Runs, Qualifies(n)
        PROVE  /\ manifest[n].frozen.inputs = inputs
               /\ n > 0 => manifest[n].frozen.model = container.model
    <3>1. RunOK(n)
      BY DEF AcceptanceInv
    <3> QED
      BY <2>2, <3>1 DEF Qualifies, Passed, RunOK, EvidenceOK, MadeFrom
  <2> QED
    BY <2>1, <2>2 DEF QualifiedIsMeasured
<1> QED
  BY <1>1, RunsAreFollowed, PTL

--------------------------------------------------------------------------------
(* Undisturbed runs are sealed.                                            *)
(*                                                                         *)
(* That a run's own checks never throw a good record away is a statement   *)
(* about the checks: what they ask for still holds for a run that nothing  *)
(* disturbed. For a bound run this rests on who may touch its transaction  *)
(* and its container, hence on the command and on there being one upgrade  *)
(* at a time.                                                              *)

UndisturbedOK(n) == run[n].at \in Started /\ n \notin disturbed =>
  /\ n > 0 => Pending(n) /\ MayFreeze(n) /\ manifest[n].frozen = Frozen(n)
  /\ manifest[n].frozen.inputs = inputs
  /\ did[n] # <<>> /\ AllTrue(did[n]) => container.up

\* Where the command is says what its transaction and its runner are.
CommandOK ==
  /\ cli.at = "plan" => tx[cli.tx].state = "planned"
  /\ cli.at = "read" => run[cli.tx].at = "done"

OneOpen == \A t, u \in Transactions : Open(t) /\ Open(u) => t = u

SealInv ==
  /\ AcceptanceInv
  /\ \A n \in Runs : UndisturbedOK(n)
  /\ CommandOK /\ OneOpen

LEMMA SealInit == Init => SealInv
<1> SUFFICES ASSUME Init PROVE SealInv
  OBVIOUS
<1>1. AcceptanceInv
  BY AcceptanceInit
<1>2. \A n \in Runs : UndisturbedOK(n)
  BY DEF Init, UndisturbedOK, Started
<1>3. CommandOK
  BY DEF Init, CommandOK
<1>4. OneOpen
  BY DEF Init, OneOpen, Open
<1> QED
  BY <1>1, <1>2, <1>3, <1>4 DEF SealInv

\* A step of run n, with everything that run is about as it was.
LEMMA OneRunSeals ==
  ASSUME SealInv, NEW n \in Runs, AcceptanceInv',
         \A k \in Runs \ {n} : run'[k] = run[k] /\ manifest'[k] = manifest[k] /\ did'[k] = did[k],
         UNCHANGED <<world, tx, cli>>, disturbed' \cup {n} = disturbed \cup {n},
         run[n].at # "done", UndisturbedOK(n)'
  PROVE  SealInv'
<1>1. UNCHANGED <<container, inputs>>
  BY DEF world
<1>2. ASSUME NEW k \in Runs PROVE UndisturbedOK(k)'
  <2>1. CASE k = n
    BY <2>1
  <2>2. CASE k # n
    <3>1. UndisturbedOK(k) /\ (k \in disturbed' <=> k \in disturbed)
      BY <2>2 DEF SealInv
    <3> QED
      BY <1>1, <2>2, <3>1
         DEF UndisturbedOK, Pending, MayFreeze, Frozen, RuntimeIdentity, InputIdentity,
             InputsArePlanned, AllTrue
  <2> QED
    BY <2>1, <2>2
<1>3. CommandOK'
  <2>1. CommandOK /\ cli.tx \in Runs
    BY CommandFacts, BoundsAssumption DEF SealInv, Runs, Transactions
  <2> QED
    BY <2>1 DEF CommandOK
<1>4. OneOpen'
  BY DEF SealInv, OneOpen, Open
<1> QED
  BY <1>2, <1>3, <1>4 DEF SealInv

\* A checkpoint does not change what the run was opened with or what its children did.
LEMMA StaysSealable ==
  ASSUME SealInv, NEW n \in Runs, run[n].at \in Started,
         manifest'[n].frozen = manifest[n].frozen, did'[n] = did[n],
         UNCHANGED <<world, tx, disturbed>>
  PROVE  UndisturbedOK(n)'
<1>1. UndisturbedOK(n) /\ UNCHANGED <<container, inputs>>
  BY DEF SealInv, world
<1> QED
  BY <1>1 DEF UndisturbedOK, Pending, MayFreeze, Frozen, RuntimeIdentity, InputIdentity,
              InputsArePlanned, AllTrue

LEMMA EndsUnsealedSeals ==
  ASSUME SealInv, NEW n \in Runs, NEW place \in {"done", "killed"}, AcceptanceInv',
         EndsUnsealed(n, place), run[n].at # "done", UNCHANGED <<world, tx, cli, manifest>>
  PROVE  SealInv'
<1>1. run \in [Runs -> RunType] /\ did \in [Runs -> Results]
  BY DEF SealInv, AcceptanceInv, RunTypes
<1>2. /\ run'[n].at = place /\ disturbed' = disturbed \ {n}
      /\ \A k \in Runs \ {n} : run'[k] = run[k] /\ did'[k] = did[k]
  BY <1>1 DEF EndsUnsealed
<1>3. UndisturbedOK(n)'
  BY <1>2 DEF UndisturbedOK, Started
<1>4. disturbed' \cup {n} = disturbed \cup {n}
  BY <1>2
<1> QED
  BY <1>2, <1>3, <1>4, OneRunSeals

LEMMA RunStartSeals ==
  ASSUME SealInv, NEW n \in Runs, AcceptanceInv', RunStart(n)
  PROVE  SealInv'
<1>1. run \in [Runs -> RunType] /\ manifest \in [Runs -> Manifests \cup {None}] /\ RunOK(n)
  BY DEF SealInv, AcceptanceInv, RunTypes
<1>2. /\ run[n].at = "log" /\ Authorized(n) /\ (n > 0 => MayFreeze(n))
      /\ run' = [run EXCEPT ![n].at = "step"]
      /\ manifest'[n].frozen = Frozen(n) /\ UNCHANGED <<world, tx, cli, did, disturbed>>
      /\ \A k \in Runs \ {n} : manifest'[k] = manifest[k]
  BY <1>1 DEF RunStart, GoesTo, history
<1>3. run[n].at # "done" /\ \A k \in Runs \ {n} : run'[k] = run[k]
  BY <1>1, <1>2
<1>4. did'[n] = <<>> /\ UNCHANGED <<container, inputs>>
  BY <1>1, <1>2 DEF RunOK, RecordOK, world
<1>5. UndisturbedOK(n)'
  <2>1. n > 0 => (Pending(n) /\ MayFreeze(n) /\ manifest[n].frozen = Frozen(n))'
    BY <1>2, <1>4 DEF Authorized, Pending, MayFreeze, Frozen, RuntimeIdentity, InputIdentity,
                      InputsArePlanned
  <2>2. (manifest[n].frozen.inputs = inputs)'
    BY <1>2, <1>4 DEF Frozen, InputIdentity
  <2> QED
    BY <1>4, <2>1, <2>2 DEF UndisturbedOK
<1> QED
  BY <1>2, <1>3, <1>5, OneRunSeals

\* A child that has passed had a runtime that answered.
LEMMA EndChildSeals ==
  ASSUME SealInv, NEW n \in Runs, AcceptanceInv', EndChild(n)
  PROVE  SealInv'
<1>1. run \in [Runs -> RunType] /\ did \in [Runs -> Results] /\ UndisturbedOK(n)
  BY DEF SealInv, AcceptanceInv, RunTypes
<1>2. PICK ok \in {FALSE, container.up} :
        /\ run' = [run EXCEPT ![n].at = "ended", ![n].ok = ok]
        /\ did' = [did EXCEPT ![n] = Append(@, ok)]
  BY DEF EndChild
<1>3. /\ run[n].at = "child" /\ UNCHANGED <<world, tx, cli, manifest, disturbed>>
      /\ UNCHANGED <<container, inputs>>
  BY DEF EndChild, records, world
<1>4. did'[n] = Append(did[n], ok) /\ did[n] \in Seq(BOOLEAN)
  BY <1>1, <1>2, ResultsAreSeqs
<1>5. AllTrue(did'[n]) => ok = TRUE
  BY <1>4 DEF AllTrue
<1>6. AllTrue(did'[n]) => container.up
  BY <1>5
<1>7. \A k \in Runs \ {n} : run'[k] = run[k] /\ did'[k] = did[k]
  BY <1>1, <1>2
<1>8. UndisturbedOK(n)'
  <2>1. AllTrue(did[n])' => container'.up
    <3>1. AllTrue(did[n])' => AllTrue(did'[n])
      BY DEF AllTrue
    <3> QED
      BY <1>3, <1>6, <3>1
  <2>2. run[n].at \in Started
    BY <1>3 DEF Started
  <2>3. n \notin disturbed' =>
          /\ n > 0 => (Pending(n) /\ MayFreeze(n) /\ manifest[n].frozen = Frozen(n))'
          /\ (manifest[n].frozen.inputs = inputs)'
    BY <1>1, <1>3, <2>2
       DEF UndisturbedOK, Pending, MayFreeze, Frozen, RuntimeIdentity, InputIdentity,
           InputsArePlanned
  <2> QED
    BY <2>1, <2>3 DEF UndisturbedOK
<1> QED
  BY <1>3, <1>7, <1>8, OneRunSeals

LEMMA RunnerSeals ==
  ASSUME SealInv, NEW n \in Runs, AcceptanceInv', Runner(n) \/ KillRunner(n)
  PROVE  SealInv'
<1>0. /\ run \in [Runs -> RunType] /\ manifest \in [Runs -> Manifests \cup {None}]
      /\ RunOK(n)
  BY DEF SealInv, AcceptanceInv, RunTypes
<1>1. CASE RunStart(n) \/ EndChild(n)
  BY <1>1, RunStartSeals, EndChildSeals
<1>2. ASSUME NEW place \in {"done", "killed"}, EndsUnsealed(n, place),
             run[n].at \notin {"none", "done", "killed"}, UNCHANGED <<world, tx, cli, manifest>>
      PROVE  SealInv'
  BY <1>2, EndsUnsealedSeals
\* A checkpoint that moves the runner on, and at most writes results or a status.
<1>3. ASSUME run[n].at \in Started,
             \A k \in Runs \ {n} : run'[k] = run[k] /\ manifest'[k] = manifest[k],
             manifest'[n].frozen = manifest[n].frozen,
             UNCHANGED <<world, tx, cli, did, disturbed>>
      PROVE  SealInv'
  <2>1. UndisturbedOK(n)'
    BY <1>3, StaysSealable
  <2>2. run[n].at # "done"
    BY <1>3 DEF Started
  <2> QED
    BY <1>3, <2>1, <2>2, OneRunSeals
<1>4. ASSUME run[n].at \in Started, \A k \in Runs \ {n} : run'[k] = run[k],
             UNCHANGED <<world, tx, cli, manifest, did, disturbed>>
      PROVE  SealInv'
  BY <1>3, <1>4
<1>5. CASE RunStartRefused(n) \/ KillRunner(n)
  <2>1. /\ EndsUnsealed(n, "done") \/ EndsUnsealed(n, "killed")
        /\ run[n].at \notin {"none", "done", "killed"}
        /\ UNCHANGED <<world, tx, cli, manifest>>
    BY <1>5 DEF RunStartRefused, KillRunner, InProgress, records
  <2> QED
    BY <1>2, <2>1
<1>6. CASE StartChild(n)
  BY <1>0, <1>4, <1>6 DEF StartChild, GoesTo, records, Started
<1>7. CASE ReadManifest(n)
  BY <1>0, <1>4, <1>7 DEF ReadManifest, GoesTo, records, history, Started
<1>8. CASE Leave(n)
  BY <1>0, <1>4, <1>8 DEF Leave, records, history, Started
<1>9. CASE AppendStep(n)
  <2>1. /\ run[n].at = "append" /\ UNCHANGED <<world, tx, cli, did, disturbed>>
        /\ manifest' = [manifest EXCEPT ![n].results = Append(@, run[n].ok)]
        /\ run' = [run EXCEPT ![n].at = IF run[n].ok THEN "step" ELSE "exit"]
    BY <1>9 DEF AppendStep, ReplaceManifest, GoesTo, history
  <2>2. manifest[n] \in Manifests /\ run[n].at \in Started
    BY <1>0, <2>1 DEF RunOK, RecordOK, Started
  <2>3. manifest'[n].frozen = manifest[n].frozen
    BY <1>0, <2>1, <2>2 DEF Manifests
  <2> QED
    BY <1>0, <1>3, <2>1, <2>2, <2>3
<1>10. CASE BeginFinish(n)
  <2>1. /\ run[n].at = "exit" /\ UNCHANGED <<world, tx, cli, manifest>>
        /\ \/ GoesTo(n, "finish") /\ UNCHANGED history
           \/ EndsUnsealed(n, "done")
    BY <1>10 DEF BeginFinish, records
  <2> QED
    BY <1>0, <1>2, <1>4, <2>1 DEF GoesTo, history, Started
<1>11. CASE RunFinish(n)
  <2>1. /\ run[n].at = "finish" /\ UNCHANGED <<world, tx, cli, did, disturbed>>
        /\ manifest' = [manifest EXCEPT ![n].status = IF run[n].ok THEN "passed" ELSE "failed"]
        /\ run' = [run EXCEPT ![n].at = "write"]
    BY <1>11 DEF RunFinish, ReplaceManifest, GoesTo, history
  <2>2. manifest[n] \in Manifests /\ run[n].at \in Started
    BY <1>0, <2>1 DEF RunOK, RecordOK, Started
  <2>3. manifest'[n].frozen = manifest[n].frozen
    BY <1>0, <2>1, <2>2 DEF Manifests
  <2> QED
    BY <1>0, <1>3, <2>1, <2>2, <2>3
<1>12. CASE Build(n)
  <2>1. /\ run[n].at = "write" /\ UNCHANGED <<world, tx, cli, manifest>>
        /\ \/ /\ run' = [run EXCEPT ![n].at = "built",
                           ![n].built = [inputs |-> inputs, model |-> container.model]]
              /\ UNCHANGED history
           \/ EndsUnsealed(n, "done")
    BY <1>12 DEF Build, records
  <2> QED
    BY <1>0, <1>2, <1>4, <2>1 DEF history, Started
<1>13. CASE Seal(n)
  <2>1. /\ run[n].at = "built" /\ UNCHANGED <<world, tx, cli, manifest>>
        /\ \/ /\ run' = [run EXCEPT ![n].at = "done", ![n].built = NotBuilt]
              /\ UNCHANGED history
           \/ EndsUnsealed(n, "done")
    BY <1>13 DEF Seal
  <2> QED
    BY <1>0, <1>2, <1>4, <2>1 DEF history, Started
<1> QED
  BY <1>1, <1>5, <1>6, <1>7, <1>8, <1>9, <1>10, <1>11, <1>12, <1>13 DEF Runner

\* Whatever happens to the container or to the inputs disturbs every run under way.
LEMMA AllDisturbed ==
  ASSUME SealInv, AcceptanceInv', Disturbs(Runs), UNCHANGED <<cli, run>>
  PROVE  \A n \in Runs : UndisturbedOK(n)'
<1>1. disturbed' = disturbed \cup {n \in Runs : InProgress(n)}
  BY DEF Disturbs
<1> SUFFICES ASSUME NEW n \in Runs, run'[n].at \in Started, n \notin disturbed' PROVE FALSE
  BY DEF UndisturbedOK
<1>2. InProgress(n)
  BY DEF InProgress, Started
<1> QED
  BY <1>1, <1>2

\* The transaction of a run alone moves: nobody else's, and not the world.
LEMMA OneTxSeals ==
  ASSUME SealInv, NEW t \in Transactions, \A u \in Transactions \ {t} : tx'[u] = tx[u],
         UNCHANGED <<container, inputs, run, manifest, did>>, disturbed \subseteq disturbed',
         run[t].at \in Started => t \in disturbed'
  PROVE  \A n \in Runs : UndisturbedOK(n)'
<1> SUFFICES ASSUME NEW n \in Runs, run'[n].at \in Started, n \notin disturbed'
             PROVE  UndisturbedOK(n)'
  BY DEF UndisturbedOK
<1>1. UndisturbedOK(n) /\ n # t /\ (n > 0 => n \in Transactions)
  BY DEF SealInv, Runs, Transactions
<1> QED
  BY <1>1 DEF UndisturbedOK, Pending, MayFreeze, Frozen, RuntimeIdentity, InputIdentity,
              InputsArePlanned, AllTrue

\* A bound run whose transaction is not at target-full has been disturbed.
LEMMA NotPending ==
  ASSUME SealInv, NEW t \in Transactions, ~Pending(t), run[t].at \in Started
  PROVE  t \in disturbed
<1>1. t \in Runs /\ t > 0
  BY BoundsAssumption DEF Runs, Transactions
<1> QED
  BY <1>1 DEF SealInv, UndisturbedOK

LEMMA CommandSeals ==
  ASSUME SealInv, AcceptanceInv', Command \/ CliFails \/ CliDies
  PROVE  SealInv'
<1>0. /\ AcceptanceInv /\ CommandOK /\ OneOpen /\ \A n \in Runs : UndisturbedOK(n)
      /\ run \in [Runs -> RunType] /\ tx \in [Transactions -> TxType] /\ cli \in CliType
      /\ Transactions \subseteq Runs /\ \A t \in Transactions : t > 0
  BY BoundsAssumption
     DEF SealInv, AcceptanceInv, RunTypes, CommandTypes, Runs, Transactions
<1> DEFINE t == cli.tx
<1>t. t \in Transactions
  BY <1>0 DEF CliType
<1> HIDE DEF t
<1>1. ASSUME CliPlans PROVE SealInv'
  <2>1. PICK u \in Transactions :
          /\ tx[u].state = "none" /\ cli' = [at |-> "plan", tx |-> u]
          /\ tx' = [tx EXCEPT ![u] = [@ EXCEPT !.state = "planned", !.inputs = inputs]]
    BY <1>1 DEF CliPlans, QualificationInput
  <2>2. /\ UNCHANGED <<container, inputs, run, manifest, did, disturbed>>
        /\ \A v \in Transactions : ~Open(v)
    BY <1>1 DEF CliPlans, world, records, history
  <2>3. /\ \A v \in Transactions \ {u} : tx'[v] = tx[v]
        /\ tx'[u].state = "planned"
    BY <1>0, <2>1 DEF TxType
  <2>4. run[u].at = "none"
    <3>1. RunOK(u)
      BY <1>0 DEF AcceptanceInv
    <3> QED
      BY <1>0, <2>1, <3>1 DEF RunOK
  <2>5. \A n \in Runs : UndisturbedOK(n)'
    BY <2>2, <2>3, <2>4, OneTxSeals DEF Started
  <2>6. CommandOK' /\ OneOpen'
    BY <2>1, <2>2, <2>3 DEF CommandOK, OneOpen, Open
  <2> QED
    BY <2>5, <2>6 DEF SealInv
\* Every other operation of the command moves its own transaction at most.
<1>2. ASSUME NEW state \in TxStates \ {"none"}, Open(t), tx' = [tx EXCEPT ![t].state = state]
      PROVE  /\ \A u \in Transactions \ {t} : tx'[u] = tx[u]
             /\ tx'[t].state = state /\ OneOpen'
  <2>1. tx'[t].state = state /\ \A u \in Transactions \ {t} : tx'[u] = tx[u]
    BY <1>0, <1>2, <1>t, TxStateSet
  <2>2. \A u \in Transactions : Open(u)' => Open(u)
    BY <1>2, <2>1 DEF Open
  <2> QED
    BY <1>0, <2>1, <2>2 DEF OneOpen
<1>3. ASSUME CliStartsTarget PROVE SealInv'
  <2>1. /\ cli.at = "plan" /\ cli' = [cli EXCEPT !.at = "spawn"]
        /\ tx' = [tx EXCEPT ![t].state = "target-full"]
        /\ Disturbs({0}) /\ UNCHANGED <<run, manifest>>
    BY <1>3 DEF CliStartsTarget, CliAt, TxBecomes, records, t
  <2>2. tx[t].state = "planned" /\ Open(t)
    BY <1>0, <2>1 DEF CommandOK, Open, t
  <2>3. OneOpen'
    <3>1. "target-full" \in TxStates \ {"none"}
      BY DEF TxStates
    <3> QED
      BY <1>2, <2>1, <2>2, <3>1
  <2>4. ASSUME NEW n \in Runs, run'[n].at \in Started, n \notin disturbed' PROVE FALSE
    <3>0. disturbed' = disturbed \cup {k \in {0} : InProgress(k)} /\ run[n].at \in Started
      BY <2>1, <2>4 DEF Disturbs
    <3>1. n # 0
      BY <3>0, <2>4 DEF InProgress, Started
    <3>2. n \in Transactions
      BY <3>1 DEF Runs, Transactions
    <3>3. Pending(n)
      BY <2>4, <3>0, <3>2, NotPending
    <3>4. n = t
      BY <1>0, <1>t, <2>2, <3>2, <3>3 DEF OneOpen, Open, Pending
    <3> QED
      BY <2>2, <3>3, <3>4 DEF Pending
  <2>5. CommandOK'
    BY <1>0, <2>1 DEF CommandOK, CliType
  <2> QED
    BY <2>3, <2>4, <2>5 DEF SealInv, UndisturbedOK
<1>4. ASSUME CliSpawns PROVE SealInv'
  <2>1. /\ run[t].at = "none" /\ run' = [run EXCEPT ![t].at = "log"]
        /\ cli' = [cli EXCEPT !.at = "wait"]
        /\ UNCHANGED <<container, inputs, tx, manifest, did, disturbed>>
    BY <1>4 DEF CliSpawns, OpenLog, GoesTo, world, records, history, t
  <2>2. run'[t].at = "log" /\ \A k \in Runs \ {t} : run'[k] = run[k]
    BY <1>0, <1>t, <2>1 DEF RunType
  <2>3. ASSUME NEW n \in Runs PROVE UndisturbedOK(n)'
    BY <1>0, <2>1, <2>2
       DEF UndisturbedOK, Pending, MayFreeze, Frozen, RuntimeIdentity, InputIdentity,
           InputsArePlanned, AllTrue, Started
  <2>4. CommandOK' /\ OneOpen'
    BY <1>0, <2>1 DEF CommandOK, OneOpen, Open, CliType
  <2> QED
    BY <2>3, <2>4 DEF SealInv
\* The world and the runs as they are, and the runner of the command not at work.
<1>5. ASSUME UNCHANGED <<world, run, records, history>>, CommandOK', OneOpen',
             \A u \in Transactions \ {t} : tx'[u] = tx[u],
             tx'[t] = tx[t] \/ run[t].at \notin Started \/ ~Pending(t)
      PROVE  SealInv'
  <2>1. UNCHANGED <<container, inputs, run, manifest, did, disturbed>>
    BY <1>5 DEF world, records, history
  <2>2. ASSUME NEW n \in Runs PROVE UndisturbedOK(n)'
    <3>1. CASE tx'[t] = tx[t]
      <4>1. UndisturbedOK(n) /\ (n > 0 => tx'[n] = tx[n])
        BY <1>0, <1>5, <3>1 DEF Runs, Transactions
      <4> QED
        BY <2>1, <4>1
           DEF UndisturbedOK, Pending, MayFreeze, Frozen, RuntimeIdentity, InputIdentity,
               InputsArePlanned, AllTrue
    <3>2. CASE run[t].at \notin Started \/ ~Pending(t)
      BY <1>5, <1>t, <2>1, <3>2, NotPending, OneTxSeals
    <3> QED
      BY <1>5, <3>1, <3>2
  <2> QED
    BY <1>5, <2>2 DEF SealInv
<1>6. ASSUME CliReads PROVE SealInv'
  <2>1. /\ UNCHANGED <<world, tx, run, records, history>> /\ run[t].at = "done"
        /\ cli' = [cli EXCEPT !.at = "read"]
    BY <1>6 DEF CliReads, t
  <2>2. CommandOK' /\ OneOpen'
    BY <1>0, <2>1 DEF CommandOK, OneOpen, Open, CliType, t
  <2> QED
    BY <1>5, <2>1, <2>2
<1>7. ASSUME CliAdvances PROVE SealInv'
  <2>1. /\ UNCHANGED <<world, run, records, history>> /\ cli.at = "read" /\ Pending(t)
        /\ tx' = [tx EXCEPT ![t] =
             [@ EXCEPT !.state = "publish-rollback", !.receipt = evidence[t]]]
        /\ cli' = [cli EXCEPT !.at = "publish"]
    BY <1>7 DEF CliAdvances, CliAt, t
  <2>2. /\ \A u \in Transactions \ {t} : tx'[u] = tx[u]
        /\ tx'[t].state = "publish-rollback"
    BY <1>0, <1>t, <2>1 DEF TxType
  <2>3. run[t].at \notin Started
    BY <1>0, <2>1 DEF CommandOK, Started, t
  <2>4. CommandOK' /\ OneOpen'
    BY <1>0, <1>t, <2>1, <2>2 DEF CommandOK, OneOpen, Open, Pending, CliType
  <2> QED
    BY <1>5, <2>1, <2>2, <2>3, <2>4
<1>8. ASSUME CliCompletes PROVE SealInv'
  <2>1. /\ UNCHANGED <<world, run, records, history>> /\ tx[t].state = "publish-rollback"
        /\ tx' = [tx EXCEPT ![t].state = "completed"] /\ cli' = [cli EXCEPT !.at = "none"]
    BY <1>8 DEF CliCompletes, TxBecomes, t
  <2>2. Open(t) /\ ~Pending(t) /\ "completed" \in TxStates \ {"none"}
    BY <2>1 DEF Open, Pending, TxStates
  <2>3. (\A u \in Transactions \ {t} : tx'[u] = tx[u]) /\ OneOpen'
    BY <1>2, <2>1, <2>2
  <2>4. CommandOK'
    BY <1>0, <2>1 DEF CommandOK, CliType
  <2> QED
    BY <1>5, <2>1, <2>2, <2>3, <2>4
<1>9. ASSUME CliDies PROVE SealInv'
  <2>1. /\ UNCHANGED <<world, tx, run, records, history>> /\ cli' = [cli EXCEPT !.at = "none"]
    BY <1>9 DEF CliDies
  <2>2. CommandOK' /\ OneOpen'
    BY <1>0, <2>1 DEF CommandOK, OneOpen, Open, CliType
  <2> QED
    BY <1>5, <2>1, <2>2
<1>10. ASSUME CliFails PROVE SealInv'
  <2>1. /\ Open(t) /\ tx' = [tx EXCEPT ![t].state = "recovery_required"]
        /\ cli' = [cli EXCEPT !.at = "none"] /\ UNCHANGED <<world, records>>
        /\ IF InProgress(t) THEN EndsUnsealed(t, "killed") ELSE UNCHANGED <<run, history>>
    BY <1>10 DEF CliFails, TxBecomes, t
  <2>2. "recovery_required" \in TxStates \ {"none"}
    BY DEF TxStates
  <2>3. (\A u \in Transactions \ {t} : tx'[u] = tx[u]) /\ OneOpen'
    BY <1>2, <2>1, <2>2
  <2>4. CommandOK'
    BY <1>0, <2>1 DEF CommandOK, CliType
  <2>5. CASE ~InProgress(t)
    BY <1>5, <2>1, <2>3, <2>4, <2>5 DEF InProgress, Started
  <2>6. CASE InProgress(t)
    <3>1. /\ did \in [Runs -> Results] /\ UNCHANGED <<container, inputs, manifest>>
          /\ run' = [run EXCEPT ![t] = [at |-> "killed", ok |-> FALSE, built |-> NotBuilt]]
          /\ did' = [did EXCEPT ![t] = <<>>] /\ disturbed' = disturbed \ {t}
      BY <1>0, <2>1, <2>6 DEF EndsUnsealed, AcceptanceInv, RunTypes, world, records
    <3>2. /\ run'[t].at = "killed"
          /\ \A k \in Runs \ {t} : run'[k] = run[k] /\ did'[k] = did[k]
      BY <1>0, <1>t, <3>1
    <3>3. ASSUME NEW n \in Runs PROVE UndisturbedOK(n)'
      <4>1. CASE n = t
        BY <3>2, <4>1 DEF UndisturbedOK, Started
      <4>2. CASE n # t
        <5>1. UndisturbedOK(n) /\ (n > 0 => tx'[n] = tx[n])
          BY <1>0, <2>3, <4>2 DEF Runs, Transactions
        <5> QED
          BY <3>1, <3>2, <4>2, <5>1
             DEF UndisturbedOK, Pending, MayFreeze, Frozen, RuntimeIdentity, InputIdentity,
                 InputsArePlanned, AllTrue
      <4> QED
        BY <4>1, <4>2
    <3> QED
      BY <2>3, <2>4, <3>3 DEF SealInv
  <2> QED
    BY <2>5, <2>6
<1> QED
  BY <1>1, <1>3, <1>4, <1>6, <1>7, <1>8, <1>9, <1>10 DEF Command

LEMMA SurroundingsSeal ==
  ASSUME SealInv, AcceptanceInv', Surroundings
  PROVE  SealInv'
<1>0. /\ AcceptanceInv /\ CommandOK /\ OneOpen /\ \A n \in Runs : UndisturbedOK(n)
      /\ cli.tx \in Transactions
  BY CommandFacts DEF SealInv
\* The world moves; the command and the transactions, if at all, as the code below says.
<1>1. ASSUME Disturbs(Runs), UNCHANGED <<cli, run>>, CommandOK', OneOpen'
      PROVE  SealInv'
  BY <1>1, AllDisturbed DEF SealInv
<1>2. ASSUME NEW t \in Transactions, NEW state \in {"recovery_required", "failed-restored"},
             Open(t), tx' = [tx EXCEPT ![t].state = state]
      PROVE  /\ \A u \in Transactions \ {t} : tx'[u] = tx[u]
             /\ tx'[t].state = state /\ OneOpen'
  <2>1. tx'[t].state = state /\ \A u \in Transactions \ {t} : tx'[u] = tx[u]
    BY <1>0, <1>2, TxStateSet DEF TxStates
  <2>2. \A u \in Transactions : Open(u)' => Open(u)
    BY <1>2, <2>1 DEF Open
  <2> QED
    BY <1>0, <2>1, <2>2 DEF OneOpen
<1>3. ASSUME NEW t \in Transactions, Fence(t) PROVE SealInv'
  <2>1. /\ Open(t) /\ cli.at = "none" /\ tx' = [tx EXCEPT ![t].state = "recovery_required"]
        /\ disturbed' = disturbed \cup {n \in {t} : InProgress(n)}
        /\ UNCHANGED <<container, inputs, cli, run, manifest, did>>
    BY <1>3 DEF Fence, CliAt, Disturbs, world, records
  <2>2. (\A u \in Transactions \ {t} : tx'[u] = tx[u]) /\ OneOpen'
    BY <1>2, <2>1
  <2>3. run[t].at \in Started => t \in disturbed'
    BY <2>1 DEF InProgress, Started
  <2>4. \A n \in Runs : UndisturbedOK(n)'
    BY <2>1, <2>2, <2>3, OneTxSeals
  <2>5. CommandOK'
    BY <2>1 DEF CommandOK
  <2> QED
    BY <2>2, <2>4, <2>5 DEF SealInv
<1>4. ASSUME NEW t \in Transactions, Restore(t) PROVE SealInv'
  <2>1. /\ tx[t].state = "recovery_required" /\ tx' = [tx EXCEPT ![t].state = "failed-restored"]
        /\ UNCHANGED <<cli, run, manifest, did>>
        /\ \/ UNCHANGED <<world, cli, run, records, history>>
           \/ NewProcess("source")
    BY <1>4 DEF Restore, NewProcess, records, history
  <2>2. Open(t) /\ ~Pending(t)
    BY <2>1 DEF Open, Pending
  <2>3. (\A u \in Transactions \ {t} : tx'[u] = tx[u]) /\ tx'[t].state = "failed-restored" /\ OneOpen'
    BY <1>2, <2>1, <2>2
  <2>4. CommandOK'
    BY <1>0, <2>1, <2>3 DEF CommandOK
  <2>5. CASE UNCHANGED <<world, cli, run, records, history>>
    <3>1. UNCHANGED <<container, inputs, disturbed>> /\ (run[t].at \in Started => t \in disturbed)
      BY <2>2, <2>5, NotPending DEF world, history
    <3>2. \A n \in Runs : UndisturbedOK(n)'
      BY <2>1, <2>3, <3>1, OneTxSeals
    <3> QED
      BY <2>3, <2>4, <3>2 DEF SealInv
  <2>6. CASE NewProcess("source")
    <3>1. Disturbs(Runs)
      BY <2>6 DEF NewProcess
    <3> QED
      BY <1>1, <2>1, <2>3, <2>4, <3>1
  <2> QED
    BY <2>1, <2>5, <2>6
<1>5. ASSUME UNCHANGED <<cli, tx, run>>, Disturbs(Runs) PROVE SealInv'
  <2>1. CommandOK' /\ OneOpen'
    BY <1>0, <1>5 DEF CommandOK, OneOpen, Open
  <2> QED
    BY <1>1, <1>5, <2>1
<1>6. ContainerRestarts \/ OperatorSwitches \/ ContainerFails \/ Edit =>
        UNCHANGED <<cli, tx, run>> /\ Disturbs(Runs)
  BY DEF ContainerRestarts, OperatorSwitches, ContainerFails, Edit, NewProcess
<1> QED
  BY <1>3, <1>4, <1>5, <1>6 DEF Surroundings

LEMMA SealStep == SealInv /\ [Next]_vars => SealInv'
<1> SUFFICES ASSUME SealInv, [Next]_vars PROVE SealInv'
  OBVIOUS
<1>0. AcceptanceInv'
  BY AcceptanceStep DEF SealInv
<1>1. ASSUME StartUnbound PROVE SealInv'
  <2>1. /\ run[0].at = "none" /\ run' = [run EXCEPT ![0].at = "log"] /\ 0 \in Runs
        /\ UNCHANGED <<world, tx, cli, manifest, did, disturbed>>
    BY <1>1, BoundsAssumption DEF StartUnbound, OpenLog, GoesTo, records, history, Runs
  <2>2. run \in [Runs -> RunType]
    BY DEF SealInv, AcceptanceInv, RunTypes
  <2>3. run'[0].at = "log" /\ \A k \in Runs \ {0} : run'[k] = run[k]
    BY <2>1, <2>2 DEF RunType
  <2>4. UndisturbedOK(0)'
    BY <2>3 DEF UndisturbedOK, Started
  <2> QED
    BY <1>0, <2>1, <2>3, <2>4, OneRunSeals
<1>2. ASSUME NEW n \in Runs, Runner(n) \/ KillRunner(n) PROVE SealInv'
  BY <1>0, <1>2, RunnerSeals
<1>3. ASSUME Command \/ CliFails \/ CliDies PROVE SealInv'
  BY <1>0, <1>3, CommandSeals
<1>4. ASSUME Surroundings PROVE SealInv'
  BY <1>0, <1>4, SurroundingsSeal
<1>5. CASE UNCHANGED vars
  <2>1. UNCHANGED <<container, inputs, tx, cli, run, manifest, did, disturbed>>
    BY <1>5 DEF vars, world, records, history
  <2>2. ASSUME NEW n \in Runs PROVE UndisturbedOK(n)'
    BY <2>1 DEF SealInv, UndisturbedOK, Pending, MayFreeze, Frozen, RuntimeIdentity,
                InputIdentity, InputsArePlanned, AllTrue
  <2>3. CommandOK' /\ OneOpen'
    BY <2>1 DEF SealInv, CommandOK, OneOpen, Open
  <2> QED
    BY <1>0, <2>2, <2>3 DEF SealInv
<1> QED
  BY <1>1, <1>2, <1>3, <1>4, <1>5 DEF Next

\* The last three checkpoints of a run find nothing wrong where nothing disturbed it.
LEMMA ChecksPass ==
  ASSUME SealInv, NEW n \in Runs, run[n].at \in {"exit", "write", "built"}, n \notin disturbed
  PROVE  /\ ValidManifest(n)
         /\ run[n].at = "exit" /\ run[n].ok => manifest[n].results = AllPassed(n)
         /\ run[n].at = "write" => MayBuild(n)
         /\ run[n].at = "built" => evidence[n] = None
<1>1. RunOK(n) /\ UndisturbedOK(n) /\ run[n].at \in Started
  BY DEF SealInv, AcceptanceInv, Started
<1>2. ValidManifest(n) /\ manifest[n].frozen.inputs = inputs
  BY <1>1 DEF UndisturbedOK, ValidManifest
<1>3. Complete(n) => container.up
  <2>1. AllPassed(n) # <<>> /\ AllTrue(AllPassed(n))
    BY StepsAreNat DEF AllPassed, AllTrue
  <2> QED
    BY <1>1, <2>1 DEF Complete, UndisturbedOK
<1>4. run[n].at = "write" => MayBuild(n)
  BY <1>1, <1>2, <1>3 DEF MayBuild, RunOK, RecordOK
<1> QED
  BY <1>1, <1>2, <1>4 DEF RunOK, RecordOK, EvidenceOK, Complete

\* A run that was opened, that nobody kills and nothing disturbs ends sealed, passed or
\* failed: the checks of the suite never throw a good record away.
THEOREM RunsEndSealed == Spec => RunsAreSealed
<1>1. SealInv /\ [Next]_vars =>
        [\A n \in Runs : manifest[n] # None /\ InProgress(n) /\ run'[n].at = "done"
           => evidence'[n] # None \/ n \in disturbed]_vars
  <2> SUFFICES ASSUME SealInv, Next, NEW n \in Runs, manifest[n] # None, InProgress(n),
                      run'[n].at = "done", n \notin disturbed
               PROVE  evidence'[n] # None
    OBVIOUS
  <2>0. /\ run \in [Runs -> RunType] /\ evidence \in [Runs -> Evidences \cup {None}]
        /\ RunOK(n) /\ cli.tx \in Runs
    BY CommandFacts, BoundsAssumption DEF SealInv, AcceptanceInv, RunTypes, Runs, Transactions
  <2>1. run[n].at \notin {"none", "done", "killed"}
    BY DEF InProgress
  <2>2. run'[n] # run[n]
    BY <2>1
  <2>3. ASSUME NEW k \in Runs, NEW place \in Places \ {"done"},
               run' = [run EXCEPT ![k].at = place]
        PROVE  FALSE
    BY <2>0, <2>2, <2>3 DEF RunType
  <2>4. ASSUME NEW k \in Runs, NEW place \in {"done", "killed"}, EndsUnsealed(k, place)
        PROVE  k = n /\ place = "done"
    BY <2>0, <2>2, <2>4 DEF EndsUnsealed
  <2>5. ASSUME StartUnbound \/ Command \/ CliFails \/ CliDies \/ Surroundings
        PROVE  FALSE
    <3>1. ~UNCHANGED run
      BY <2>2
    <3>2. CASE StartUnbound \/ CliSpawns
      <4>1. PICK k \in Runs : run' = [run EXCEPT ![k].at = "log"]
        BY <2>0, <3>2, BoundsAssumption DEF StartUnbound, CliSpawns, OpenLog, GoesTo, Runs
      <4>2. "log" \in Places \ {"done"}
        BY DEF Places
      <4> QED
        BY <2>3, <4>1, <4>2
    <3>3. CASE CliFails
      BY <2>0, <2>4, <3>1, <3>3 DEF CliFails
    <3> QED
      BY <2>5, <3>1, <3>2, <3>3
         DEF Command, CliPlans, CliStartsTarget, CliReads, CliAdvances, CliCompletes, CliDies,
             Surroundings, Fence, Restore, ContainerRestarts, OperatorSwitches, NewProcess,
             ContainerFails, Edit
  <2>6. PICK k \in Runs : Runner(k) \/ KillRunner(k)
    BY <2>5 DEF Next
  <2>7. k = n
    BY <2>0, <2>2, <2>6
       DEF Runner, KillRunner, RunStart, RunStartRefused, StartChild, EndChild, ReadManifest,
           AppendStep, Leave, BeginFinish, RunFinish, Build, Seal, GoesTo, EndsUnsealed
  <2>8. ~KillRunner(n)
    BY <2>4 DEF KillRunner
  <2>9. ~RunStartRefused(n)
    BY <2>0 DEF RunStartRefused, RunOK, RecordOK
  <2>10. ~(RunStart(n) \/ StartChild(n) \/ ReadManifest(n) \/ AppendStep(n) \/ RunFinish(n))
    <3>1. {"step", "child", "append", "exit", "write"} \subseteq Places \ {"done"}
      BY DEF Places
    <3> QED
      BY <2>3, <3>1 DEF RunStart, StartChild, ReadManifest, AppendStep, RunFinish, GoesTo
  <2>11. ~(EndChild(n) \/ Leave(n))
    <3>1. \A place, ok : run' = [run EXCEPT ![n].at = place, ![n].ok = ok]
            => run'[n].at = place
      BY <2>0 DEF RunType
    <3>2. EndChild(n) => \E ok : run' = [run EXCEPT ![n].at = "ended", ![n].ok = ok]
      BY DEF EndChild
    <3>3. Leave(n) => \E ok : run' = [run EXCEPT ![n].at = "exit", ![n].ok = ok]
      BY DEF Leave
    <3> QED
      BY <3>1, <3>2, <3>3
  <2>12. ~BeginFinish(n)
    <3>1. BeginFinish(n) => GoesTo(n, "finish")
      BY ChecksPass DEF BeginFinish
    <3>2. "finish" \in Places \ {"done"}
      BY DEF Places
    <3> QED
      BY <2>3, <3>1, <3>2 DEF GoesTo
  <2>13. ~Build(n)
    <3>1. Build(n) => run' = [run EXCEPT ![n].at = "built",
                        ![n].built = [inputs |-> inputs, model |-> container.model]]
      BY ChecksPass DEF Build
    <3> QED
      BY <2>0, <3>1 DEF RunType
  <2>14. CASE Seal(n)
    <3>1. evidence' = [evidence EXCEPT ![n] =
            [kind |-> "evidence", manifest |-> manifest[n],
             inputs |-> run[n].built.inputs, model |-> run[n].built.model]]
      BY <2>14, ChecksPass DEF Seal, WriteNoReplace
    <3>2. evidence'[n].kind = "evidence"
      BY <2>0, <3>1
    <3> QED
      BY <3>2 DEF None
  <2> QED
    BY <2>6, <2>7, <2>8, <2>9, <2>10, <2>11, <2>12, <2>13, <2>14 DEF Runner
<1>2. Spec => []SealInv
  BY SealInit, SealStep, PTL DEF Spec
<1> QED
  BY <1>1, <1>2, PTL DEF Spec, RunsAreSealed
=============================================================================
